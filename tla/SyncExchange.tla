---------------------------- MODULE SyncExchange ----------------------------
(***************************************************************************)
(* The two-step delay measurement between a PTP_MASTER port and a slave    *)
(* port: Sync and Follow_Up, Delay_Req and Delay_Resp, up to the point     *)
(* where wr_servo_update() accepts four timestamps (PTPWRd/protocol.c,     *)
(* dep/msg.c, dep/wr_servo.c).  Operators have the names of the functions. *)
(*                                                                         *)
(* A timestamp is the number of the frame it was taken of, counted since   *)
(* the beginning of the behaviour, and says whether the hardware delivered *)
(* it (correct); sequence numbers wrap around.  The slave has one          *)
(* neighbour and measures end to end (rtOpts->E2E_mode).                   *)
(***************************************************************************)
EXTENDS Integers, Sequences

CONSTANTS
  SeqMod,       \* sequence numbers are counted modulo SeqMod (2^16 in the code)
  MaxSyncs,     \* bound: Sync frames sent in a behaviour
  MaxRequests,  \* bound: the delayReq timer sends while fewer Delay_Req were sent
  Room,         \* bound: frames are sent by timers only while fewer are in flight
  MaxLosses,    \* bound: frames lost in a behaviour
  MaxRestarts,  \* bound: restarts of a daemon in a behaviour
  MaxLeaves,    \* bound: times the port leaves PTP_SLAVE in a behaviour
  MaxFailures   \* bound: timestamps and calibrations the hardware does not deliver

ASSUME SeqAssumption == SeqMod \in Nat \ {0}
ASSUME WrapAssumption == SeqMod > 1
ASSUME BoundAssumption ==
  /\ MaxSyncs \in Nat /\ MaxRequests \in Nat /\ Room \in Nat
  /\ MaxLosses \in Nat /\ MaxRestarts \in Nat /\ MaxLeaves \in Nat
  /\ MaxFailures \in Nat

\* Fewer frames are in flight or lost than there are sequence numbers.
ASSUME InFlightAssumption == Room + MaxLosses <= SeqMod

UInteger16 == 0 .. SeqMod - 1
Number == 0 .. MaxSyncs + MaxRequests
Stamp == [of : Number, correct : BOOLEAN]
NoStamp == [of |-> 0, correct |-> FALSE]

\* A frame; the timestamp it carries, or that is taken when it arrives, is
\* that of the frame with this number.
Frame == [type : {"SYNC", "FOLLOW_UP", "DELAY_REQ", "DELAY_RESP", "ANNOUNCE"},
          sequenceId : UInteger16,
          of : Number]

\* The fields of the slave's port data set, and of its servo, that take part.
\* delayReqTimer tells whether that timer runs; heard is the last Sync the
\* slave had received when it sent its last Delay_Req (no field of the code).
Slave == [portState : {"SLAVE", "OTHER"},
          waitingForFollow : BOOLEAN,
          recvSyncSequenceId : UInteger16,
          sync_receive_time : Stamp,
          sentDelayReqSequenceId : UInteger16,
          delayReq_tx_ts : Stamp,
          delayReqTimer : BOOLEAN,
          got_sync : BOOLEAN,
          t1 : Stamp, t2 : Stamp,
          heard : Number]

VARIABLES
  slave,               \* the slave's port data set
  sentSyncSequenceId,  \* of the master
  toSlave,             \* frames on their way to the slave, in order
  toMaster,            \* frames on their way to the master, in order
  fed,                 \* the timestamps of the last servo update
  fedHeard,            \* slave.heard at that update
  syncs,               \* Sync frames sent so far
  requests,            \* Delay_Req frames sent so far
  slaveSince,          \* syncs when the port entered PTP_SLAVE
  overlap,             \* a timer has sent a frame before the last one was answered
  losses, restarts, leaves, failures

net  == <<toSlave, toMaster>>
faults == <<losses, restarts, leaves>>
marks  == <<slaveSince, overlap>>
ends   == <<marks, faults, failures>>
vars == <<slave, sentSyncSequenceId, toSlave, toMaster, fed, fedHeard, syncs,
          requests, ends>>

\* Does the hardware deliver?
HwAnswers(ok) ==
  /\ ok \/ failures < MaxFailures
  /\ failures' = IF ok THEN failures ELSE failures + 1

InFlight == Len(toSlave) + Len(toMaster)

\* A slave whose memory is fresh: calloc().
FreshSlave ==
  [portState |-> "OTHER", waitingForFollow |-> FALSE, recvSyncSequenceId |-> 0,
   sync_receive_time |-> NoStamp, sentDelayReqSequenceId |-> 0,
   delayReq_tx_ts |-> NoStamp, delayReqTimer |-> FALSE, got_sync |-> FALSE,
   t1 |-> NoStamp, t2 |-> NoStamp, heard |-> 0]

Init ==
  /\ slave = FreshSlave
  /\ sentSyncSequenceId = 0
  /\ toSlave = <<>> /\ toMaster = <<>>
  /\ fed = [t1 |-> 0, t2 |-> 0, t3 |-> 0, t4 |-> 0]
  /\ fedHeard = 0
  /\ syncs = 0 /\ requests = 0 /\ slaveSince = 0 /\ overlap = FALSE
  /\ losses = 0 /\ restarts = 0 /\ leaves = 0 /\ failures = 0

-----------------------------------------------------------------------------
(* The master.                                                             *)

\* A slave that waits for a Follow_Up hears another Sync before the numbers
\* wrap around: a bound on how long it stays away or loses every Sync.
HeardInTime ==
  slave.waitingForFollow => syncs - slave.sync_receive_time.of < SeqMod - 1

\* PTP_MASTER when the sync timer expires: issueSync(), and issueFollowup()
\* if the departure of the Sync was timestamped.
IssueSync(stamped) ==
  /\ HwAnswers(stamped)
  /\ syncs < MaxSyncs /\ InFlight < Room /\ HeardInTime
  /\ syncs' = syncs + 1
  /\ sentSyncSequenceId' = (sentSyncSequenceId + 1) % SeqMod
  /\ LET Sent(type) == [type |-> type, sequenceId |-> sentSyncSequenceId, of |-> syncs']
     IN  toSlave' = toSlave \o (IF stamped THEN <<Sent("SYNC"), Sent("FOLLOW_UP")>>
                                ELSE <<Sent("SYNC")>>)
  /\ overlap' = (overlap \/ InFlight > 0)
  /\ UNCHANGED <<slave, toMaster, fed, fedHeard, requests, slaveSince, faults>>

\* An announce, or WR_MODE_ON at the end of a link setup: never between a
\* Sync and its Follow_Up.
IssueAnnounce ==
  /\ InFlight < Room
  /\ toSlave' = Append(toSlave, [type |-> "ANNOUNCE", sequenceId |-> 0, of |-> 0])
  /\ UNCHANGED <<slave, sentSyncSequenceId, toMaster, fed, fedHeard, syncs,
                 requests, ends>>

\* Mutant: the answer carries the number of the master's Syncs.
HandleDelayReqOwnNumber ==
  /\ toMaster # <<>>
  /\ toMaster' = Tail(toMaster)
  /\ toSlave' = Append(toSlave, [Head(toMaster) EXCEPT
                  !.type = "DELAY_RESP", !.sequenceId = sentSyncSequenceId])
  /\ UNCHANGED <<slave, sentSyncSequenceId, fed, fedHeard, syncs, requests, ends>>

\* handleDelayReq() and issueDelayResp(): the answer copies the number.
HandleDelayReq ==
  /\ toMaster # <<>>
  /\ toMaster' = Tail(toMaster)
  /\ toSlave' = Append(toSlave, [Head(toMaster) EXCEPT !.type = "DELAY_RESP"])
  /\ UNCHANGED <<slave, sentSyncSequenceId, fed, fedHeard, syncs, requests, ends>>

-----------------------------------------------------------------------------
(* The slave.                                                              *)

\* handle() takes the next frame, of one type, in one of the port states.
Takes(type, state) ==
  /\ slave.portState = state
  /\ toSlave # <<>>
  /\ Head(toSlave).type = type
  /\ toSlave' = Tail(toSlave)

\* handleSync().
HandleSync(stamped) ==
  /\ HwAnswers(stamped)
  /\ Takes("SYNC", "SLAVE")
  /\ slave' = [slave EXCEPT
       !.sync_receive_time = [of |-> Head(toSlave).of, correct |-> stamped],
       !.waitingForFollow = TRUE,
       !.recvSyncSequenceId = Head(toSlave).sequenceId]
  /\ UNCHANGED <<sentSyncSequenceId, toMaster, fed, fedHeard, syncs, requests,
                 marks, faults>>

\* Mutant: a sequence number that does not wrap around.
IssueDelayReqNoWrap(s, stamped) ==
  /\ requests' = requests + 1
  /\ toMaster' = Append(toMaster, [type |-> "DELAY_REQ",
                                   sequenceId |-> s.sentDelayReqSequenceId,
                                   of |-> requests'])
  /\ slave' = [s EXCEPT
       !.delayReq_tx_ts = [of |-> IF stamped THEN requests' ELSE @.of, correct |-> stamped],
       !.sentDelayReqSequenceId = @ + 1,
       !.heard = s.sync_receive_time.of]

\* issueDelayReq() by the slave s: a missing timestamp leaves the old value.
IssueDelayReq(s, stamped) ==
  /\ requests' = requests + 1
  /\ toMaster' = Append(toMaster, [type |-> "DELAY_REQ",
                                   sequenceId |-> s.sentDelayReqSequenceId,
                                   of |-> requests'])
  /\ slave' = [s EXCEPT
       !.delayReq_tx_ts = [of |-> IF stamped THEN requests' ELSE @.of, correct |-> stamped],
       !.sentDelayReqSequenceId = (@ + 1) % SeqMod,
       !.heard = s.sync_receive_time.of]

\* Mutant: without the test of the sequence number.
AwaitedAny(f) == slave.waitingForFollow

\* Does a Follow_Up belong to the Sync the slave has received?
Awaited(f) == slave.waitingForFollow /\ slave.recvSyncSequenceId = f.sequenceId

\* Mutant: the measurement of the delay is left to the delayReq timer.
HandleFollowUpNoRequest(stamped) ==
  /\ HwAnswers(stamped)
  /\ Takes("FOLLOW_UP", "SLAVE")
  /\ Awaited(Head(toSlave))
  /\ slave' = [slave EXCEPT
       !.waitingForFollow = FALSE,
       !.t1 = [of |-> Head(toSlave).of, correct |-> TRUE],
       !.t2 = slave.sync_receive_time,
       !.got_sync = TRUE]
  /\ UNCHANGED <<sentSyncSequenceId, toMaster, fed, fedHeard, syncs, requests,
                 marks, faults>>

\* handleFollowUp(): wr_servo_got_sync(), and the delay is measured.
HandleFollowUp(stamped) ==
  /\ HwAnswers(stamped)
  /\ Takes("FOLLOW_UP", "SLAVE")
  /\ Awaited(Head(toSlave))
  /\ IssueDelayReq([slave EXCEPT
       !.waitingForFollow = FALSE,
       !.t1 = [of |-> Head(toSlave).of, correct |-> TRUE],
       !.t2 = slave.sync_receive_time,
       !.got_sync = TRUE], stamped)
  /\ UNCHANGED <<sentSyncSequenceId, fed, fedHeard, syncs, marks, faults>>

\* PTP_SLAVE when the delayReq timer expires.
DelayReqTimeout(stamped) ==
  /\ HwAnswers(stamped)
  /\ slave.portState = "SLAVE" /\ slave.delayReqTimer
  /\ requests < MaxRequests /\ InFlight < Room
  /\ IssueDelayReq(slave, stamped)
  /\ overlap' = (overlap \/ InFlight > 0)
  /\ UNCHANGED <<sentSyncSequenceId, toSlave, fed, fedHeard, syncs, slaveSince, faults>>

\* The test of handleDelayResp(): computed in int, so the answer to request
\* number SeqMod - 1 is never accepted.
Answers(f) == slave.sentDelayReqSequenceId - 1 = f.sequenceId

\* Mutant: a Sync serves every Delay_Resp until the next one.
WrServoUpdateKeepsSync(t3, t4) ==
  IF slave.got_sync /\ slave.t1.correct /\ slave.t2.correct /\ t3.correct
  THEN /\ fed' = [t1 |-> slave.t1.of, t2 |-> slave.t2.of, t3 |-> t3.of, t4 |-> t4]
       /\ fedHeard' = slave.heard
       /\ UNCHANGED slave
  ELSE UNCHANGED <<fed, fedHeard, slave>>

\* wr_servo_update(), up to where it accepts the four timestamps.
WrServoUpdate(t3, t4) ==
  IF slave.got_sync /\ slave.t1.correct /\ slave.t2.correct /\ t3.correct
  THEN /\ fed' = [t1 |-> slave.t1.of, t2 |-> slave.t2.of, t3 |-> t3.of, t4 |-> t4]
       /\ fedHeard' = slave.heard
       /\ slave' = [slave EXCEPT !.got_sync = FALSE]
  ELSE UNCHANGED <<fed, fedHeard, slave>>

\* handleDelayResp(): wr_servo_got_delay(), which reads the departure time of
\* the last request, and wr_servo_update().
HandleDelayResp ==
  /\ Takes("DELAY_RESP", "SLAVE")
  /\ Answers(Head(toSlave))
  /\ WrServoUpdate(slave.delayReq_tx_ts, Head(toSlave).of)
  /\ UNCHANGED <<sentSyncSequenceId, toMaster, syncs, requests, ends>>

\* A frame the handlers ignore: out of sequence, or in another state.
IgnoreFrame ==
  /\ toSlave # <<>>
  /\ LET f == Head(toSlave)
     IN  CASE slave.portState = "OTHER" -> f.type # "ANNOUNCE"
           [] f.type = "FOLLOW_UP"      -> ~Awaited(f)
           [] f.type = "DELAY_RESP"     -> ~Answers(f)
           [] OTHER                     -> f.type = "ANNOUNCE"
  /\ toSlave' = Tail(toSlave)
  /\ UNCHANGED <<slave, sentSyncSequenceId, toMaster, fed, fedHeard, syncs,
                 requests, ends>>

\* toState() leaves PTP_SLAVE: a timeout, an error or a restart of the port.
LeaveSlave ==
  /\ slave.portState = "SLAVE" /\ leaves < MaxLeaves
  /\ leaves' = leaves + 1
  /\ slave' = [slave EXCEPT !.portState = "OTHER", !.delayReqTimer = FALSE]
  /\ UNCHANGED <<sentSyncSequenceId, net, fed, fedHeard, syncs, requests,
                 losses, restarts, marks, failures>>

\* toState(PTP_SLAVE): wr_servo_init() returns early when it cannot read the
\* calibration data.
EnterSlave(initialised) ==
  /\ HwAnswers(initialised)
  /\ Takes("ANNOUNCE", "OTHER")
  /\ slave' = [slave EXCEPT !.portState = "SLAVE", !.delayReqTimer = TRUE,
                            !.waitingForFollow = FALSE,
                            !.got_sync = @ /\ ~initialised]
  /\ slaveSince' = syncs
  /\ UNCHANGED <<sentSyncSequenceId, toMaster, fed, fedHeard, syncs, requests,
                 overlap, faults>>

\* toState(PTP_UNCALIBRATED) falls through to PTP_SLAVE: nothing is reset and
\* no timer started.
FallThroughToSlave ==
  /\ Takes("ANNOUNCE", "OTHER")
  /\ slave' = [slave EXCEPT !.portState = "SLAVE"]
  /\ slaveSince' = syncs
  /\ UNCHANGED <<sentSyncSequenceId, toMaster, fed, fedHeard, syncs, requests,
                 overlap, faults, failures>>

-----------------------------------------------------------------------------
(* The network and restarts.                                               *)

Without(queue, i) == SubSeq(queue, 1, i - 1) \o SubSeq(queue, i + 1, Len(queue))

\* A behaviour has losses or restarts, not both: sequence numbers that begin
\* again hide the loss of the frames between a Sync and a later Follow_Up.
LoseFrame ==
  /\ losses < MaxLosses /\ restarts = 0
  /\ losses' = losses + 1
  /\ \/ /\ \E i \in 1 .. Len(toSlave) : toSlave' = Without(toSlave, i)
        /\ UNCHANGED toMaster
     \/ /\ \E i \in 1 .. Len(toMaster) : toMaster' = Without(toMaster, i)
        /\ UNCHANGED toSlave
  /\ UNCHANGED <<slave, sentSyncSequenceId, fed, fedHeard, syncs, requests,
                 restarts, leaves, marks, failures>>

\* A daemon is killed and started again, which takes longer than a frame
\* takes to the other daemon and its answer to come back.
Restart ==
  /\ restarts < MaxRestarts /\ losses = 0
  /\ toMaster = <<>>
  /\ restarts' = restarts + 1
  /\ \/ /\ slave' = FreshSlave /\ toSlave' = <<>>
        /\ UNCHANGED sentSyncSequenceId
     \/ /\ sentSyncSequenceId' = 0
        /\ UNCHANGED <<slave, toSlave>>
  /\ UNCHANGED <<toMaster, fed, fedHeard, syncs, requests, losses, leaves,
                 marks, failures>>

Receive(stamped) ==
  \/ HandleSync(stamped)
  \/ HandleFollowUp(stamped)
  \/ HandleDelayResp
  \/ IgnoreFrame
  \/ EnterSlave(stamped)
  \/ FallThroughToSlave

Next ==
  \/ \E stamped \in BOOLEAN :
       IssueSync(stamped) \/ Receive(stamped) \/ DelayReqTimeout(stamped)
  \/ IssueAnnounce \/ HandleDelayReq
  \/ LeaveSlave \/ LoseFrame \/ Restart

Spec == Init /\ [][Next]_vars

-----------------------------------------------------------------------------
(* Properties.                                                             *)

\* Fields hold values of their types.
TypeOK ==
  /\ slave \in Slave
  /\ sentSyncSequenceId \in UInteger16
  /\ toSlave \in Seq(Frame) /\ toMaster \in Seq(Frame)
  /\ fed \in [t1 : Number, t2 : Number, t3 : Number, t4 : Number]
  /\ fedHeard \in Number
  /\ syncs \in 0 .. MaxSyncs /\ requests \in Number
  /\ losses \in 0 .. MaxLosses /\ restarts \in 0 .. MaxRestarts
  /\ slaveSince \in 0 .. MaxSyncs /\ overlap \in BOOLEAN
  /\ leaves \in 0 .. MaxLeaves /\ failures \in 0 .. MaxFailures

\* Each servo update is fed one whole exchange, and a newer one than the
\* update before: the implementation of ExchangeFeed.
Feed == INSTANCE ExchangeFeed
FeedSpec == Feed!Spec

\* The Delay_Req of an update left after the Sync of that update had come in:
\* the four timestamps are in order, although the delayReq timer sends
\* requests at any time.
DelayAfterSync == fedHeard >= fed.t2

\* When everything sent has been handled, nothing has gone wrong and each
\* request was answered before the next frame left, the servo has been fed the
\* last Sync that the slave was sent, or the one before: a request whose answer
\* is never accepted (number SeqMod - 1) costs one update, never two in a row.
KeepsUp ==
  /\ slave.portState = "SLAVE" /\ toSlave = <<>> /\ toMaster = <<>>
  /\ ~overlap /\ losses = 0 /\ restarts = 0 /\ leaves = 0 /\ failures = 0
  => syncs <= slaveSince + 1 \/ fed.t1 >= syncs - 1

=============================================================================
