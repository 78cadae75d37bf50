------------------------------- MODULE WRLink -------------------------------
(***************************************************************************)
(* The White Rabbit link setup between two PTP daemons: one port           *)
(* configured WR_S_ONLY, one port configured WR_M_ONLY, one cable.         *)
(*                                                                         *)
(* A state of a daemon is the record of the PtpPortDS fields that steer    *)
(* the port (PTPWRd/datatypes.h); every operator on such a record is the   *)
(* function of the same name in PTPWRd/protocol.c, wr_protocol.c, bmc.c    *)
(* or dep/msg.c, and returns the record the function leaves behind.  A     *)
(* step of a daemon is one turn of its main loop, multiProtocol():         *)
(* singlePortLoop() for its only port, then sharedPortsLoop().  There is   *)
(* one action for each body of doState() and doWRState().                  *)
(*                                                                         *)
(* Time is abstract: a timer is armed or not, and an armed timer may have  *)
(* expired at any turn.  Sync, Follow_Up, Delay_Req and Delay_Resp do not  *)
(* steer the link setup and are left out, except for the Delay_Resp that   *)
(* lets the servo notice a PLL out of lock.                                *)
(***************************************************************************)
EXTENDS Naturals, Sequences

CONSTANTS
  SlaveNode,              \* the daemon whose port is configured WR_S_ONLY
  MasterNode,             \* the daemon whose port is configured WR_M_ONLY
  WrStateRetry,           \* rtOpts->wrStateRetry
  CalRetry,               \* ptpPortDS->calRetry
  MaxForeignRecords,      \* rtOpts->max_foreign_records
  DisableFallback,        \* rtOpts->disableFallbackIfWRFails
  PhyCalibrationRequired, \* rtOpts->phyCalibrationRequired
  EventGarbage,           \* what the uninitialised globalStateDecisionEvent may hold
  HwMayRefuse,            \* the hardware may answer "not now"
  QueueCap,               \* bound: frames a socket buffer holds; more are dropped
  AnnounceRoom,           \* bound: announce only while the peer's buffer holds fewer
  LossyNet,               \* the link may lose frames
  SlowTimers,             \* timers expire only when nobody has anything left to do
  Faults,                 \* faults that may happen: "flap", "restart", "receive", "pll"
  MaxFaults               \* bound: how many of them

ASSUME NodesAssumption == SlaveNode # MasterNode
ASSUME RetryAssumption ==
  /\ WrStateRetry \in 0 .. 255
  /\ CalRetry \in 0 .. 255
ASSUME TableAssumption == MaxForeignRecords \in Nat \ {0}
ASSUME OptionAssumption ==
  /\ DisableFallback \in BOOLEAN
  /\ PhyCalibrationRequired \in BOOLEAN
  /\ EventGarbage \subseteq BOOLEAN
  /\ HwMayRefuse \in BOOLEAN
  /\ LossyNet \in BOOLEAN
  /\ SlowTimers \in BOOLEAN
ASSUME BoundAssumption ==
  /\ QueueCap \in Nat
  /\ AnnounceRoom \in Nat
  /\ MaxFaults \in Nat
  /\ Faults \subseteq {"flap", "restart", "receive", "pll"}

Node == {SlaveNode, MasterNode}
Peer(n) == IF n = SlaveNode THEN MasterNode ELSE SlaveNode

PortState == {"INITIALIZING", "FAULTY", "DISABLED", "LISTENING", "MASTER",
              "UNCALIBRATED", "SLAVE"}
WrState   == {"IDLE", "PRESENT", "S_LOCK", "M_LOCK", "LOCKED", "CALIBRATION",
              "CALIBRATED", "RESP_CALIB_REQ", "WR_LINK_ON"}
WrSubstate == 0 .. 8
WrMode    == {"NON_WR", "WR_SLAVE", "WR_MASTER"}
WrConfig  == {"NON_WR", "WR_S_ONLY", "WR_M_ONLY", "WR_M_AND_S"}
WrRole    == {"NON_SLAVE", "PRIMARY_SLAVE", "SECONDARY_SLAVE"}
SignalId  == {"NULL_WR_TLV", "SLAVE_PRESENT", "LOCK", "LOCKED", "CALIBRATE",
              "CALIBRATED", "WR_MODE_ON"}
UInteger8   == 0 .. 255
RecordIndex == 0 .. MaxForeignRecords - 1

\* A frame on the link.  The flag is WR_IS_WR_MODE in an announce and
\* calSendPattern in a CALIBRATE; it means nothing in the others.
Message == [type : (SignalId \ {"NULL_WR_TLV"}) \cup {"ANNOUNCE"}, flag : BOOLEAN]

\* What a call of handle() finds besides a frame of the link.
NoFrame   == [type |-> "NONE", flag |-> FALSE]
RecvError == [type |-> "ERROR", flag |-> FALSE]
DelayResp == [type |-> "DELAY_RESP", flag |-> FALSE]
Received  == Message \cup {NoFrame, RecvError, DelayResp}

\* The port data set.  wrPortState holds the main state; wrSubstate the
\* number of the substate (WRS_CALIBRATION_3 is CALIBRATION with 3).
\* foreignWrConfig and foreignWrModeON are wr_flags of foreign[0], the only
\* record a daemon with one neighbour reads; otherNodeDeltas tells whether
\* otherNodeDeltaTx/Rx hold values of the peer; announceReceipt whether that
\* timer runs; calibrationPattern whether the transceiver sends the pattern.
\* out and fresh live within one turn: the frames sent, and whether the WR
\* timer was started.
Port == [portState : PortState,
         wrPortState : WrState,
         wrSubstate : WrSubstate,
         wrMode : WrMode,
         wrModeON : BOOLEAN,
         wrConfig : WrConfig,
         wrSlaveRole : WrRole,
         parentWrConfig : WrConfig,
         parentWrModeON : BOOLEAN,
         parentIsForeign : BOOLEAN,
         calibrated : BOOLEAN,
         otherNodeCalSendPattern : BOOLEAN,
         otherNodeCalRetry : {0, CalRetry},
         otherNodeDeltas : BOOLEAN,
         msgTmpWrMessageID : SignalId,
         currentWRstateCnt : UInteger8,
         record_update : BOOLEAN,
         globalStateDecisionEvent : BOOLEAN,
         foreignWrConfig : WrConfig,
         foreignWrModeON : BOOLEAN,
         number_foreign_records : {0, 1},
         foreign_record_i : RecordIndex,
         announceReceipt : BOOLEAN,
         linkUP : BOOLEAN,
         doRestart : BOOLEAN,
         calibrationPattern : BOOLEAN,
         out : Seq(Message),
         fresh : BOOLEAN]

VARIABLES
  port,    \* port[n]: the port data set of daemon n
  chan,    \* chan[n]: the frames sent to n and not yet read by it, in order
  cable,   \* is the cable plugged
  faults   \* how many faults have happened

vars == <<port, chan, cable, faults>>

-----------------------------------------------------------------------------
(* Sending, timers and the WR data sets.                                   *)

\* issueWRSignalingMsg() and issueAnnounce(): the frame leaves in this turn.
\* Their failure branch is dead: ptpd_netif_sendto() never returns 0.
Send(p, type, flag) ==
  [p EXCEPT !.out = Append(@, [type |-> type, flag |-> flag])]

\* Mutant: RE_INIT forgets the WR mode.
InitWrDataForgetsMode(p, mode) ==
  [p EXCEPT !.wrModeON = FALSE, !.wrPortState = "IDLE", !.wrSubstate = 0,
            !.calibrated = ~PhyCalibrationRequired,
            !.parentWrConfig = "NON_WR", !.parentWrModeON = FALSE,
            !.otherNodeCalRetry = 0, !.otherNodeCalSendPattern = FALSE,
            !.otherNodeDeltas = FALSE,
            !.wrMode = "NON_WR",
            !.wrSlaveRole = IF mode = "INIT" THEN "NON_SLAVE" ELSE @]

\* Mutant: a new link setup leaves WR mode on.
InitWrDataKeepsWrModeON(p, mode) ==
  [p EXCEPT !.wrPortState = "IDLE", !.wrSubstate = 0,
            !.calibrated = ~PhyCalibrationRequired,
            !.parentWrConfig = "NON_WR", !.parentWrModeON = FALSE,
            !.otherNodeCalRetry = 0, !.otherNodeCalSendPattern = FALSE,
            !.otherNodeDeltas = FALSE,
            !.wrMode = IF mode = "INIT" THEN "NON_WR" ELSE @,
            !.wrSlaveRole = IF mode = "INIT" THEN "NON_SLAVE" ELSE @]

\* initWrData(): RE_INIT keeps the mode and the role, INIT forgets them.
InitWrData(p, mode) ==
  [p EXCEPT !.wrModeON = FALSE,
            !.wrPortState = "IDLE",
            !.wrSubstate = 0,
            !.calibrated = ~PhyCalibrationRequired,
            !.parentWrConfig = "NON_WR",
            !.parentWrModeON = FALSE,
            !.otherNodeCalRetry = 0,
            !.otherNodeCalSendPattern = FALSE,
            !.otherNodeDeltas = FALSE,
            !.wrMode = IF mode = "INIT" THEN "NON_WR" ELSE @,
            !.wrSlaveRole = IF mode = "INIT" THEN "NON_SLAVE" ELSE @]

\* Mutant: repetitions are not counted.
WrTimetoutManageNoCount(p, entering, exiting) ==
  [p EXCEPT !.currentWRstateCnt = 0, !.fresh = (entering # "IDLE")]

\* wrTimetoutManage(): an 8 bit counter of the repetitions of a state.
WrTimetoutManage(p, entering, exiting) ==
  [p EXCEPT !.currentWRstateCnt = IF entering # exiting THEN 0 ELSE (@ + 1) % 256,
            !.fresh = (entering # "IDLE")]

AtMost(i, j) == IF i < j THEN i ELSE j

ToSubstate(p, s, i) == [p EXCEPT !.wrPortState = s, !.wrSubstate = i]

\* The calibration pattern is switched on, if so asked and allowed.
SendPattern(p, on) == [p EXCEPT !.calibrationPattern = @ \/ on]

\* Mutant: the master sends WR_MODE_ON without being in WR mode itself.
EnterWrLinkOnSlaveOnly(p) ==
  IF p.wrMode = "WR_MASTER"
  THEN [Send(p, "WR_MODE_ON", FALSE) EXCEPT !.wrPortState = "WR_LINK_ON", !.wrSubstate = 0]
  ELSE [p EXCEPT !.wrPortState = "WR_LINK_ON", !.wrSubstate = 0, !.wrModeON = TRUE,
                 !.parentWrModeON = TRUE, !.foreignWrModeON = TRUE]

\* Mutant: without the "nasty" update of the foreign master's announce.
EnterWrLinkOnKeepsAnnounce(p) ==
  [(IF p.wrMode = "WR_MASTER" THEN Send(p, "WR_MODE_ON", FALSE) ELSE p) EXCEPT
     !.wrPortState = "WR_LINK_ON", !.wrSubstate = 0,
     !.wrModeON = TRUE, !.parentWrModeON = TRUE]

\* toWRState(), entering WRS_WR_LINK_ON: this port and its parent are in WR
\* mode, and so says the announce of the foreign master from now on.
EnterWrLinkOn(p) ==
  [(IF p.wrMode = "WR_MASTER" THEN Send(p, "WR_MODE_ON", FALSE) ELSE p) EXCEPT
     !.wrPortState = "WR_LINK_ON",
     !.wrSubstate = 0,
     !.wrModeON = TRUE,
     !.parentWrModeON = TRUE,
     !.foreignWrModeON = TRUE]

\* The "entering" half of toWRState().  hw is the number of hardware calls
\* made here that succeed before one is refused.
EnterWRState(p, s, hw) ==
  CASE s = "PRESENT" -> ToSubstate(Send(p, "SLAVE_PRESENT", FALSE), s, 0)
    [] s = "S_LOCK" ->
         IF p.wrSlaveRole = "NON_SLAVE" THEN p ELSE ToSubstate(p, s, AtMost(hw, 1))
    [] s = "LOCKED" -> ToSubstate(Send(p, "LOCKED", FALSE), s, 0)
    [] s = "M_LOCK" -> ToSubstate(Send(p, "LOCK", FALSE), s, 0)
    [] s = "CALIBRATION" ->
         SendPattern(ToSubstate(Send(p, "CALIBRATE", ~p.calibrated), s,
                                IF p.calibrated THEN 2 ELSE AtMost(hw, 2)),
                     ~p.calibrated /\ hw > 0)
    [] s = "RESP_CALIB_REQ" ->
         SendPattern(ToSubstate(p, s, IF p.otherNodeCalSendPattern THEN AtMost(hw, 1) ELSE 1),
                     p.otherNodeCalSendPattern /\ hw > 0)
    [] s = "WR_LINK_ON" -> EnterWrLinkOn(p)
    [] OTHER -> ToSubstate(p, s, 0)  \* CALIBRATED and IDLE

\* toWRState(): leaving IDLE re-initialises the WR data sets.
ToWRState(p, s, hw) ==
  LET left == IF p.wrPortState = "IDLE" THEN InitWrData(p, "RE_INIT") ELSE p
  IN  WrTimetoutManage(EnterWRState(left, s, hw), s, p.wrPortState)

-----------------------------------------------------------------------------
(* The PTP port state.                                                     *)

CandidateForWrSlave(p) ==
  /\ p.wrMode = "WR_SLAVE"
  /\ p.wrConfig \in {"WR_S_ONLY", "WR_M_AND_S"}
  /\ p.parentWrConfig \in {"WR_M_ONLY", "WR_M_AND_S"}

\* toState(), leaving a state.
LeaveState(p) ==
  CASE p.portState = "SLAVE" ->
         [p EXCEPT !.announceReceipt = FALSE, !.wrMode = "NON_WR", !.wrModeON = FALSE]
    [] p.portState = "LISTENING" -> [p EXCEPT !.announceReceipt = FALSE]
    [] OTHER -> p

\* toState(), entering PTP_UNCALIBRATED: the WR FSM starts, or the port
\* falls through to PTP_SLAVE without what entering PTP_SLAVE does.
EnterUncalibrated(p) ==
  IF CandidateForWrSlave(p)
  THEN IF ~p.parentWrModeON \/ ~p.wrModeON
       THEN [ToWRState(p, "PRESENT", 0) EXCEPT !.portState = "UNCALIBRATED"]
       ELSE [p EXCEPT !.portState = "SLAVE"]
  ELSE [p EXCEPT !.wrMode = "NON_WR", !.portState = "SLAVE"]

EnterState(p, s) ==
  IF s = "UNCALIBRATED"
  THEN EnterUncalibrated(p)
  ELSE [p EXCEPT !.portState = s,
                 !.announceReceipt = @ \/ s \in {"LISTENING", "SLAVE"}]

\* Mutant: without the ban while the WR FSM runs.
ToStatePreempts(p, s) == EnterState(LeaveState(p), s)

\* toState(): no change of the PTP state while the WR FSM runs.
ToState(p, s) ==
  IF p.wrPortState # "IDLE" THEN p ELSE EnterState(LeaveState(p), s)

\* m1() and s1() of bmc.c.
M1(p) ==
  [p EXCEPT !.parentWrConfig = p.wrConfig,
            !.parentWrModeON = p.wrModeON,
            !.wrSlaveRole = "NON_SLAVE"]

S1(p) ==
  [p EXCEPT !.parentIsForeign = (p.foreignWrConfig # "NON_WR"),
            !.parentWrConfig = p.foreignWrConfig,
            !.parentWrModeON = p.foreignWrModeON,
            !.wrSlaveRole = "PRIMARY_SLAVE"]

\* clearForeignMasters(); a daemon with one port never reads
\* receptionPortNumber.
ClearForeignMasters(p) ==
  [p EXCEPT !.number_foreign_records = 0, !.foreign_record_i = 0]

\* doInit() with initDataPort(); the timers are stopped by timerInit().
DoInit(p) ==
  LET q == [InitWrData(p, "INIT") EXCEPT
              !.doRestart = FALSE,
              !.number_foreign_records = 0,
              !.announceReceipt = FALSE]
  IN  ToState(M1(q), "LISTENING")

-----------------------------------------------------------------------------
(* Receiving: handle().                                                    *)

\* msgUnpackAnnounce() into foreign[0]: the sender is the WR_M_ONLY port.
UnpackAnnounce(p, m) ==
  [p EXCEPT !.foreignWrConfig = "WR_M_ONLY", !.foreignWrModeON = m.flag]

\* Mutant: the index of the next record does not wrap around.
AddForeignNoWrap(p, m) ==
  IF p.number_foreign_records = 1
  THEN UnpackAnnounce(p, m)
  ELSE [(IF p.foreign_record_i = 0 THEN UnpackAnnounce(p, m) ELSE p) EXCEPT
          !.number_foreign_records = 1, !.foreign_record_i = @ + 1]

\* addForeign() with one possible foreign master: a known master (the table
\* has a record, so foreign[0] is its) is updated in place; a new one goes to
\* foreign_record_i.
AddForeign(p, m) ==
  IF p.number_foreign_records = 1
  THEN UnpackAnnounce(p, m)
  ELSE [(IF p.foreign_record_i = 0 THEN UnpackAnnounce(p, m) ELSE p) EXCEPT
          !.number_foreign_records = 1,
          !.foreign_record_i = (@ + 1) % MaxForeignRecords]

\* handleAnnounce().
HandleAnnounce(p, m) ==
  CASE p.portState \in {"INITIALIZING", "FAULTY", "DISABLED"} -> p
    [] p.portState \in {"UNCALIBRATED", "SLAVE"} ->
         [(IF p.parentIsForeign THEN UnpackAnnounce(p, m) ELSE AddForeign(p, m)) EXCEPT
            !.record_update = TRUE, !.announceReceipt = TRUE]
    [] OTHER -> [AddForeign(p, m) EXCEPT !.record_update = TRUE]

\* msgUnpackWRSignalingMsg().
UnpackSignaling(p, m) ==
  [p EXCEPT !.msgTmpWrMessageID = m.type,
            !.otherNodeCalSendPattern = IF m.type = "CALIBRATE" THEN m.flag ELSE @,
            !.otherNodeCalRetry = IF m.type = "CALIBRATE" THEN CalRetry ELSE @,
            !.otherNodeDeltas = @ \/ m.type = "CALIBRATED"]

\* handleSignaling(): a master that hears SLAVE_PRESENT starts over.
HandleSignaling(p, m) ==
  LET q == UnpackSignaling(p, m)
  IN  IF /\ q.portState = "MASTER"
         /\ m.type = "SLAVE_PRESENT"
         /\ q.wrConfig \in {"WR_M_ONLY", "WR_M_AND_S"}
      THEN ToWRState([q EXCEPT !.wrMode = "WR_MASTER"], "M_LOCK", 0)
      ELSE q

\* handle(): nothing received, a failing socket, or one frame.  A Delay_Resp
\* stands for handleDelayResp() in PTP_SLAVE when wr_servo_update() finds
\* the PLL out of lock.
Handle(p, rx) ==
  CASE rx.type = "NONE" -> p
    [] rx.type = "ERROR" -> ToState(p, "FAULTY")
    [] rx.type = "DELAY_RESP" ->
         [p EXCEPT !.doRestart = @ \/ (p.portState = "SLAVE" /\ p.parentIsForeign)]
    [] rx.type = "ANNOUNCE" -> HandleAnnounce(p, rx)
    [] OTHER -> HandleSignaling(p, rx)

-----------------------------------------------------------------------------
(* One turn of the main loop, up to the body of the port state.            *)

\* singlePortLoop(): the link is looked at first.
CheckLink(p, up) ==
  LET q        == [p EXCEPT !.linkUP = up]
      Clear(r) == IF r.wrConfig = "WR_S_ONLY" THEN ClearForeignMasters(r) ELSE r
  IN  IF (up /\ ~p.linkUP) \/ p.doRestart
      THEN [Clear(DoInit(ToState(q, "INITIALIZING"))) EXCEPT !.doRestart = FALSE]
      ELSE IF ~up /\ p.linkUP THEN Clear(q) ELSE q

StateDecisionEvent(p) ==
  /\ p.portState \in {"LISTENING", "SLAVE", "MASTER"}
  /\ p.globalStateDecisionEvent
  /\ p.wrPortState = "IDLE"

\* bmc() and bmcStateDecision() for a slave-only and for a master-only port.
Bmc(p) == IF p.wrConfig = "WR_S_ONLY" THEN S1(p) ELSE M1(p)
RecommendedState(p) == IF p.wrConfig = "WR_S_ONLY" THEN "SLAVE" ELSE "MASTER"

SynchronizationFault(p) ==
  /\ p.linkUP
  /\ p.portState = "SLAVE"
  /\ p.wrMode = "WR_SLAVE"
  /\ ~p.parentWrModeON \/ ~p.wrModeON

\* The first switch of doState().
Decide(p) ==
  LET q == Bmc([p EXCEPT !.record_update = FALSE])
      s == RecommendedState(p)
  IN  IF ~StateDecisionEvent(p) THEN p
      ELSE IF s # p.portState
      THEN IF s = "SLAVE"
           THEN ToState([q EXCEPT !.wrMode = "WR_SLAVE", !.wrModeON = FALSE],
                        "UNCALIBRATED")
           ELSE ToState(q, s)
      ELSE IF SynchronizationFault(q) THEN ToState(q, "UNCALIBRATED")
      ELSE q

\* The port data set daemon n has when it comes to the body of its state.
Ready(n) == Decide(CheckLink(port[n], TRUE))

-----------------------------------------------------------------------------
(* The WR state machine: the tail of doWRState().                          *)

\* The retry limit wrTimerExpired() applies in the current state.
RetryLimit(p) ==
  CASE p.wrPortState = "CALIBRATION" /\ CalRetry > 0 -> CalRetry
    [] p.wrPortState = "RESP_CALIB_REQ" /\ p.otherNodeCalRetry > 0 -> p.otherNodeCalRetry
    [] OTHER -> WrStateRetry

\* The retries are used up: standard PTP, or no PTP at all.
GiveUp(p) ==
  LET q == ToWRState([p EXCEPT !.wrModeON = FALSE], "IDLE", 0)
  IN  InitWrData(ToState(q, IF DisableFallback THEN "DISABLED"
                            ELSE IF p.wrMode = "WR_MASTER" THEN "MASTER" ELSE "SLAVE"),
                 "INIT")

\* wrTimerExpired(): a timer started in this turn has not expired.
WrTimerExpired(p, expired, hw) ==
  IF ~expired \/ p.fresh \/ p.wrPortState = "IDLE" THEN p
  ELSE IF p.currentWRstateCnt < RetryLimit(p) THEN ToWRState(p, p.wrPortState, hw)
  ELSE GiveUp(p)

\* What doState() does after the body of a WR state: the timer, and the
\* signaling message is forgotten.
EndOfWRState(p, expired, hw) ==
  [WrTimerExpired(p, expired, hw) EXCEPT !.msgTmpWrMessageID = "NULL_WR_TLV"]

\* The port runs the body of WR state s.
InWRState(p, s) ==
  /\ p.wrPortState = s
  /\ \/ p.portState = "UNCALIBRATED" /\ p.wrMode = "WR_SLAVE"
     \/ p.portState = "MASTER" /\ p.wrMode = "WR_MASTER"

-----------------------------------------------------------------------------
(* The environment of a turn.                                              *)

\* Does n send frames, or have a step to take, without waiting for a frame?
Busy(n) ==
  \/ chan[n] # <<>>
  \/ port[n].wrPortState \in {"S_LOCK", "CALIBRATION", "WR_LINK_ON"}
  \/ port[n].wrPortState = "RESP_CALIB_REQ" /\ port[n].wrSubstate # 1
  \/ port[n].wrPortState = "IDLE" /\ port[n].portState \in
       {"INITIALIZING", "FAULTY", "MASTER"}
  \/ port[n].linkUP # cable
  \/ port[n].doRestart
  \/ port[n].globalStateDecisionEvent /\ port[n].wrPortState = "IDLE"

\* May a timer of n be found expired?
MayExpire(n) == SlowTimers => ~Busy(n) /\ (cable => ~Busy(Peer(n)))

\* How many hardware calls succeed before one is refused: in the body of a
\* state, and in the entry code of a state.
HwAnswers == IF HwMayRefuse THEN 0 .. 8 ELSE {8}
HwAnswersAgain == IF HwMayRefuse THEN 0 .. 2 ELSE {2}

\* The frames a switch buffer of QueueCap frames still takes.
Deliver(queue, frames) ==
  LET all == queue \o frames
  IN  IF Len(all) <= QueueCap THEN all ELSE SubSeq(all, 1, QueueCap)

\* What netRecvMsg() may return to n: a frame that has arrived, nothing, an
\* error of the socket, or a Delay_Resp that shows the PLL out of lock.
Frames(n) ==
  {NoFrame}
    \cup (IF chan[n] = <<>> THEN {} ELSE {Head(chan[n])})
    \cup (IF "receive" \in Faults /\ faults < MaxFaults THEN {RecvError} ELSE {})
    \cup (IF "pll" \in Faults /\ faults < MaxFaults /\ port[n].portState = "SLAVE"
          THEN {DelayResp} ELSE {})

\* The end of a turn of n that read rx and left p: sharedPortsLoop() makes
\* the state decision event of the next turn from record_update.
Finish(n, rx, p) ==
  /\ \E q \in {p} :
       /\ port' = [port EXCEPT ![n] = [q EXCEPT
                     !.globalStateDecisionEvent = q.record_update,
                     !.out = <<>>,
                     !.fresh = FALSE]]
       /\ chan' = [m \in Node |->
                     CASE m = n /\ rx \in Message -> Tail(chan[m])
                       [] m # n /\ cable -> Deliver(chan[m], q.out)
                       [] OTHER -> chan[m]]
  /\ faults' = IF rx \in {RecvError, DelayResp} THEN faults + 1 ELSE faults
  /\ UNCHANGED cable

-----------------------------------------------------------------------------
(* The bodies of doState().  rx is what handle() finds, NoFrame where the  *)
(* body does not call it; expired tells whether a timer of the state has   *)
(* expired; hw and hwAgain are the hardware calls that succeed in the body *)
(* and in the entry code of a repeated state.  \E q \in {e} gives the value *)
(* of e a name, so that TLC computes it once.                              *)

\* No link: the loop does not run doState().
LinkDown(n) ==
  /\ ~cable
  /\ Finish(n, NoFrame, CheckLink(port[n], FALSE))

\* doState() is not run in PTP_INITIALIZING (which Ready(n) leaves alone).
Initializing(n, p) ==
  /\ p.portState = "INITIALIZING"
  /\ Finish(n, NoFrame, DoInit(p))

\* PTP_FAULTY, and PTP_UNCALIBRATED of a port that is not a WR slave: on to
\* the next PTP state, if toState() allows it.
PassThrough(n, p) ==
  /\ p.portState \in {"FAULTY", "UNCALIBRATED"}
  /\ p.portState = "UNCALIBRATED" => p.wrMode # "WR_SLAVE"
  /\ Finish(n, NoFrame,
            IF p.portState = "FAULTY" THEN ToState(p, "INITIALIZING")
            ELSE [ToState(p, "SLAVE") EXCEPT !.msgTmpWrMessageID = "NULL_WR_TLV"])

Disabled(n, p, rx) ==
  /\ p.portState = "DISABLED"
  /\ Finish(n, rx, Handle(p, rx))

\* PTP_LISTENING of a master-only port.
ListeningMaster(n, p) ==
  /\ p.portState = "LISTENING"
  /\ p.wrConfig = "WR_M_ONLY"
  /\ Finish(n, NoFrame, ToState(M1(p), "MASTER"))

\* The announce receipt timeout of a slave-only port.
AnnounceReceiptTimeout(p) ==
  LET q == [p EXCEPT !.number_foreign_records = 0,
                     !.foreign_record_i = 0,
                     !.wrMode = "NON_WR",
                     !.wrModeON = FALSE]
  IN  IF q.portState = "LISTENING" THEN q ELSE ToState(q, "LISTENING")

\* PTP_LISTENING and PTP_SLAVE of a slave-only port.  A timer found expired
\* was not started in this turn: entering the state starts it, and so does an
\* announce in PTP_SLAVE, but not an announce in PTP_LISTENING.
ListeningOrSlave(n, p, rx, expired) ==
  /\ p.portState \in {"LISTENING", "SLAVE"}
  /\ p.wrConfig # "WR_M_ONLY"
  /\ expired => MayExpire(n)
  /\ \E q \in {Handle(p, rx)} :
       /\ expired => /\ q.announceReceipt
                     /\ port[n].portState = p.portState
                     /\ ~(rx.type = "ANNOUNCE" /\ p.portState = "SLAVE")
       /\ Finish(n, rx, IF expired THEN AnnounceReceiptTimeout(q) ELSE q)

\* Mutant: announces are sent without WR_IS_WR_MODE.
MasterHidesWrMode(n, p, rx, announcing) ==
  /\ p.portState = "MASTER"
  /\ ~(p.wrMode = "WR_MASTER" /\ p.wrPortState # "IDLE")
  /\ \E q \in {Handle(p, rx)} :
       /\ announcing => q.portState = "MASTER" /\ Len(chan[Peer(n)]) < AnnounceRoom
       /\ Finish(n, rx, IF announcing THEN Send(q, "ANNOUNCE", FALSE) ELSE q)

\* PTP_MASTER while no WR link setup runs; announcing tells whether the
\* announce interval has passed.  Leaving the state stops the interval timer.
Master(n, p, rx, announcing) ==
  /\ p.portState = "MASTER"
  /\ ~(p.wrMode = "WR_MASTER" /\ p.wrPortState # "IDLE")
  /\ \E q \in {Handle(p, rx)} :
       /\ announcing => q.portState = "MASTER" /\ Len(chan[Peer(n)]) < AnnounceRoom
       /\ Finish(n, rx, IF announcing THEN Send(q, "ANNOUNCE", q.wrModeON) ELSE q)

-----------------------------------------------------------------------------
(* The bodies of doWRState(), in PTP_UNCALIBRATED and in PTP_MASTER.       *)

\* The slave waits for LOCK, the answer to its SLAVE_PRESENT.
WrPresent(n, p, rx, expired, hw, hwAgain) ==
  /\ InWRState(p, "PRESENT")
  /\ \E q \in {Handle(p, rx)} :
       LET r == IF q.msgTmpWrMessageID = "LOCK" THEN ToWRState(q, "S_LOCK", hw) ELSE q
       IN  Finish(n, rx, EndOfWRState(r, expired, hwAgain))

\* Substates 0 to 2: enable the locking, poll the PLL, disable the locking.
WrSLock(n, p, expired, hw, hwAgain) ==
  /\ InWRState(p, "S_LOCK")
  /\ LET done == p.wrSubstate + hw
         q == IF p.wrSlaveRole = "NON_SLAVE" THEN p
              ELSE IF done >= 3 THEN ToWRState(p, "LOCKED", 0)
              ELSE [p EXCEPT !.wrSubstate = done]
     IN  Finish(n, NoFrame, EndOfWRState(q, expired, hwAgain))

\* The master waits for LOCKED, the answer to its LOCK.
WrMLock(n, p, rx, expired, hw, hwAgain) ==
  /\ InWRState(p, "M_LOCK")
  /\ \E q \in {Handle(p, rx)} :
       LET r == IF q.msgTmpWrMessageID = "LOCKED" THEN ToWRState(q, "CALIBRATION", hw) ELSE q
       IN  Finish(n, rx, EndOfWRState(r, expired, hwAgain))

\* The slave waits for the master's CALIBRATE.
WrLocked(n, p, rx, expired, hw, hwAgain) ==
  /\ InWRState(p, "LOCKED")
  /\ \E q \in {Handle(p, rx)} :
       LET r == IF q.msgTmpWrMessageID = "CALIBRATE"
                THEN ToWRState(q, "RESP_CALIB_REQ", hw) ELSE q
       IN  Finish(n, rx, EndOfWRState(r, expired, hwAgain))

\* Mutant: the pattern is not switched off after the Tx calibration.
CalibrateLeavesPattern(p, hw) ==
  [p EXCEPT !.wrSubstate = AtMost(@ + hw, 8),
            !.calibrationPattern = @ \/ (p.wrSubstate = 0 /\ hw > 0)]

\* Substates 0 to 8: the pattern is sent from 1 to 4; 8 sends the deltas.
Calibrate(p, hw) ==
  LET done == AtMost(p.wrSubstate + hw, 8)
  IN  [p EXCEPT
         !.wrSubstate = done,
         !.calibrationPattern = IF p.wrSubstate <= 4 /\ done >= 5 THEN FALSE
                                ELSE @ \/ (p.wrSubstate = 0 /\ done > 0)]

WrCalibration(n, p, expired, hw, hwAgain) ==
  /\ InWRState(p, "CALIBRATION")
  /\ LET q == Calibrate(p, hw)
         r == IF q.wrSubstate < 8 THEN q
              ELSE [ToWRState(Send(q, "CALIBRATED", FALSE), "CALIBRATED", 0)
                      EXCEPT !.calibrated = TRUE]
     IN  Finish(n, NoFrame, EndOfWRState(r, expired, hwAgain))

\* The master waits for CALIBRATE, the slave for WR_MODE_ON.
WrCalibrated(n, p, rx, expired, hw, hwAgain) ==
  /\ InWRState(p, "CALIBRATED")
  /\ \E q \in {Handle(p, rx)} :
       LET r == IF q.msgTmpWrMessageID = "CALIBRATE" /\ q.wrMode = "WR_MASTER"
                THEN ToWRState(q, "RESP_CALIB_REQ", hw)
                ELSE IF q.msgTmpWrMessageID = "WR_MODE_ON" /\ q.wrMode = "WR_SLAVE"
                THEN ToWRState(q, "WR_LINK_ON", 0)
                ELSE q
       IN  Finish(n, rx, EndOfWRState(r, expired, hwAgain))

\* Substates 2 and 3: stop the pattern, go on to the next state.
AfterCalibrated(p, hw) ==
  LET next == IF p.wrMode = "WR_MASTER" THEN "WR_LINK_ON" ELSE "CALIBRATION"
  IN  CASE p.wrSubstate = 3 -> ToWRState(p, next, hw)
        [] p.wrSubstate = 2 /\ hw > 0 ->
             ToWRState([p EXCEPT !.calibrationPattern = FALSE], next, hw - 1)
        [] OTHER -> p

\* Substates 0 and 1: send the pattern, wait for the peer's CALIBRATED.
WrRespCalibReq(n, p, rx, expired, hw, hwAgain) ==
  /\ InWRState(p, "RESP_CALIB_REQ")
  /\ (p.wrSubstate = 0 /\ hw > 0) \/ p.wrSubstate = 1
  /\ LET waiting == SendPattern(ToSubstate(p, "RESP_CALIB_REQ", 1), p.wrSubstate = 0)
         left == IF p.wrSubstate = 0 THEN hw - 1 ELSE hw
         q == Handle(waiting, rx)
         next == IF q.otherNodeCalSendPattern THEN 2 ELSE 3
         r == IF q.msgTmpWrMessageID # "CALIBRATED" THEN q
              ELSE AfterCalibrated(ToSubstate(q, q.wrPortState, next), left)
     IN  Finish(n, rx, EndOfWRState(r, expired, hwAgain))

\* No frame is read when the pattern could not be started, or could not be
\* stopped in an earlier turn.
WrRespCalibReqNoFrame(n, p, expired, hw, hwAgain) ==
  /\ InWRState(p, "RESP_CALIB_REQ")
  /\ (p.wrSubstate = 0 /\ hw = 0) \/ p.wrSubstate > 1
  /\ Finish(n, NoFrame, EndOfWRState(AfterCalibrated(p, hw), expired, hwAgain))

\* One turn later the WR FSM ends and the PTP FSM goes on.
WrLinkOn(n, p) ==
  /\ InWRState(p, "WR_LINK_ON")
  /\ LET q == ToWRState(p, "IDLE", 0)
         r == ToState(q, IF p.wrMode = "WR_SLAVE" THEN "SLAVE" ELSE "MASTER")
     IN  Finish(n, NoFrame, EndOfWRState(r, FALSE, 0))

-----------------------------------------------------------------------------
(* The turns of a daemon whose link is up.                                 *)

\* Bodies that call handle().
FrameTurn(n, rx, expired, hw, hwAgain) ==
  /\ cable
  /\ \E p \in {Ready(n)} :
       \/ Disabled(n, p, rx) /\ ~expired
       \/ ListeningOrSlave(n, p, rx, expired)
       \/ Master(n, p, rx, expired)
       \/ /\ expired => MayExpire(n)
          /\ \/ WrPresent(n, p, rx, expired, hw, hwAgain)
             \/ WrMLock(n, p, rx, expired, hw, hwAgain)
             \/ WrLocked(n, p, rx, expired, hw, hwAgain)
             \/ WrCalibrated(n, p, rx, expired, hw, hwAgain)
             \/ WrRespCalibReq(n, p, rx, expired, hw, hwAgain)

\* Bodies that wait for the hardware.
HardwareTurn(n, expired, hw, hwAgain) ==
  /\ cable
  /\ expired => MayExpire(n)
  /\ \E p \in {Ready(n)} :
       \/ WrSLock(n, p, expired, hw, hwAgain)
       \/ WrCalibration(n, p, expired, hw, hwAgain)
       \/ WrRespCalibReqNoFrame(n, p, expired, hw, hwAgain)

\* Bodies that wait for nothing.
PlainTurn(n) ==
  /\ cable
  /\ \E p \in {Ready(n)} :
       \/ Initializing(n, p)
       \/ PassThrough(n, p)
       \/ ListeningMaster(n, p)
       \/ WrLinkOn(n, p)

-----------------------------------------------------------------------------
(* Faults and the network.                                                 *)

\* The memory of a daemon that has just started: calloc(), except for the
\* clock data set, which is on the stack of main() and not initialised.
FreshPort(n, event) ==
  [portState |-> "INITIALIZING", wrPortState |-> "PRESENT", wrSubstate |-> 0,
   wrMode |-> "NON_WR", wrModeON |-> FALSE,
   wrConfig |-> IF n = SlaveNode THEN "WR_S_ONLY" ELSE "WR_M_ONLY",
   wrSlaveRole |-> "NON_SLAVE",
   parentWrConfig |-> "NON_WR", parentWrModeON |-> FALSE, parentIsForeign |-> FALSE,
   calibrated |-> FALSE, otherNodeCalSendPattern |-> FALSE, otherNodeCalRetry |-> 0,
   otherNodeDeltas |-> FALSE, msgTmpWrMessageID |-> "NULL_WR_TLV",
   currentWRstateCnt |-> 0, record_update |-> FALSE,
   globalStateDecisionEvent |-> event,
   foreignWrConfig |-> "NON_WR", foreignWrModeON |-> FALSE,
   number_foreign_records |-> 0, foreign_record_i |-> 0,
   announceReceipt |-> FALSE, linkUP |-> FALSE, doRestart |-> FALSE,
   calibrationPattern |-> FALSE, out |-> <<>>, fresh |-> FALSE]

\* The daemon is killed and started again; its sockets are new.
Restart(n) ==
  /\ "restart" \in Faults /\ faults < MaxFaults
  /\ \E event \in EventGarbage : port' = [port EXCEPT ![n] = FreshPort(n, event)]
  /\ chan' = [chan EXCEPT ![n] = <<>>]
  /\ faults' = faults + 1
  /\ UNCHANGED cable

Unplug ==
  /\ "flap" \in Faults /\ faults < MaxFaults
  /\ cable
  /\ cable' = FALSE
  /\ faults' = faults + 1
  /\ UNCHANGED <<port, chan>>

\* With slow timers the cable is out for longer than a turn of the loops.
Plug ==
  /\ ~cable
  /\ SlowTimers => \A n \in Node : ~port[n].linkUP
  /\ cable' = TRUE
  /\ UNCHANGED <<port, chan, faults>>

LoseFrame(n) ==
  /\ LossyNet
  /\ \E i \in 1 .. Len(chan[n]) :
       chan' = [chan EXCEPT ![n] = SubSeq(@, 1, i - 1) \o SubSeq(@, i + 1, Len(@))]
  /\ UNCHANGED <<port, cable, faults>>

-----------------------------------------------------------------------------
Init ==
  /\ port \in {[n \in Node |-> FreshPort(n, event[n])] : event \in [Node -> EventGarbage]}
  /\ chan = [n \in Node |-> <<>>]
  /\ cable = TRUE
  /\ faults = 0

LoopTurn(n) ==
  \/ LinkDown(n)
  \/ PlainTurn(n)
  \/ \E expired \in BOOLEAN, hw \in HwAnswers, hwAgain \in HwAnswersAgain :
       \/ HardwareTurn(n, expired, hw, hwAgain)
       \/ \E rx \in Frames(n) : FrameTurn(n, rx, expired, hw, hwAgain)

Next ==
  \/ \E n \in Node : LoopTurn(n) \/ Restart(n) \/ LoseFrame(n)
  \/ Unplug
  \/ Plug

Spec == Init /\ [][Next]_vars

\* A daemon keeps turning its loop (usleep(1000) between turns), so it does
\* what needs no frame, reads the frames that arrive and finds expired timers
\* expired; the hardware does not refuse for ever.  Nothing is assumed of
\* faults and of the network.
Advances(n) ==
  \/ LinkDown(n)
  \/ PlainTurn(n)
  \/ HardwareTurn(n, FALSE, 8, 2)
  \/ FrameTurn(n, NoFrame, FALSE, 8, 2)

ReadsFrame(n) == chan[n] # <<>> /\ FrameTurn(n, Head(chan[n]), FALSE, 8, 2)

TimerExpires(n) ==
  \/ HardwareTurn(n, TRUE, 8, 2)
  \/ FrameTurn(n, NoFrame, TRUE, 8, 2)

Fairness ==
  \A n \in Node :
    WF_vars(Advances(n)) /\ WF_vars(ReadsFrame(n)) /\ WF_vars(TimerExpires(n))

FairSpec == Spec /\ Fairness

-----------------------------------------------------------------------------
(* Properties.                                                             *)

\* Every field holds a value of its C type, and the fields that live within
\* a turn are at rest between turns.
TypeOK ==
  /\ port \in [Node -> Port]
  /\ \A n \in Node : port[n].out = <<>> /\ ~port[n].fresh
  /\ chan \in [Node -> Seq(Message)]
  /\ \A n \in Node : Len(chan[n]) <= QueueCap
  /\ cable \in BOOLEAN
  /\ faults \in 0 .. MaxFaults

\* The WR FSM runs only where doState() drives it: in an UNCALIBRATED port
\* that is a WR slave with a slave role, or in a MASTER port that is a WR
\* master.  Anywhere else nothing would time it out, and toState() would
\* refuse every change of the port state for ever.  The converse: a port
\* stays UNCALIBRATED only while the WR FSM runs.
Driven(p) ==
  \/ /\ p.portState = "UNCALIBRATED"
     /\ p.wrMode = "WR_SLAVE"
     /\ p.wrSlaveRole # "NON_SLAVE"
  \/ p.portState = "MASTER" /\ p.wrMode = "WR_MASTER"

RoleOK(p) ==
  /\ (p.wrPortState # "IDLE" /\ p.portState # "INITIALIZING") => Driven(p)
  /\ p.portState = "UNCALIBRATED" => p.wrPortState # "IDLE"

RoleConsistency == \A n \in Node : RoleOK(port[n])

\* A port in WR mode knows the fixed delays of its peer, which the servo
\* adds to the measured delay (wr_servo_init() copies them).
DeltasKnown == \A n \in Node : port[n].wrModeON => port[n].otherNodeDeltas

\* Until a fault the slave is in WR mode only while the master is: frames may
\* be lost at any point of the handshake.
LinkOnAgreement ==
  (faults = 0 /\ port[SlaveNode].wrModeON) => port[MasterNode].wrModeON

\* No announce still on its way tells a slave in WR mode that its master is
\* not: it would trigger SYNCHRONIZATION_FAULT on a good link.
NoStaleAnnounce ==
  (faults = 0 /\ port[SlaveNode].wrModeON) =>
    \A i \in 1 .. Len(chan[SlaveNode]) :
      chan[SlaveNode][i].type = "ANNOUNCE" => chan[SlaveNode][i].flag

\* A transceiver that carries WR timestamps does not send the calibration
\* pattern.
PatternOffInWrMode == \A n \in Node : port[n].wrModeON => ~port[n].calibrationPattern

\* While the WR FSM runs, nothing changes the PTP state or the WR mode
\* (toState(): "non-pre-emption of WR FSM").
NonPreemption ==
  [][\A n \in Node :
       (/\ port[n].wrPortState # "IDLE" /\ port'[n].wrPortState # "IDLE"
        /\ port[n].portState # "INITIALIZING" /\ port'[n].portState # "INITIALIZING")
       => /\ port'[n].portState = port[n].portState
          /\ port'[n].wrMode = port[n].wrMode]_vars

\* A link setup does not run for ever, whatever the network and the timers do.
SetupTerminates ==
  \A n \in Node : port[n].wrPortState # "IDLE" ~> port[n].wrPortState = "IDLE"

LinkOn ==
  /\ port[SlaveNode].portState = "SLAVE" /\ port[SlaveNode].wrModeON
  /\ port[MasterNode].portState = "MASTER" /\ port[MasterNode].wrModeON
  /\ \A n \in Node : port[n].wrPortState = "IDLE"

\* Once the cable stays plugged both ports end up in WR mode and stay there.
LinkComesUp == <>[]cable => <>[]LinkOn

=============================================================================
