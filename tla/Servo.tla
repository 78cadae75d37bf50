------------------------------- MODULE Servo --------------------------------
(***************************************************************************)
(* The White Rabbit servo of a slave port (PTPWRd/dep/wr_servo.c) and the  *)
(* clock it steers.                                                        *)
(*                                                                         *)
(* Each update works on the timestamps of one exchange, which ExchangeFeed *)
(* promises.  What it commands (the counters, the phase shifter) the HAL   *)
(* carries out later, possibly between two timestamps of an exchange.      *)
(* Time is counted in units of phase.  The fixed delays of the link and    *)
(* its asymmetry are taken as zero.                                        *)
(***************************************************************************)
EXTENDS ServoTime

CONSTANTS
  Threshold,         \* WR_SERVO_OFFSET_STABILITY_THRESHOLD (60)
  MaxMissed,         \* iterations to wait for a stable offset (10)
  Word,              \* 2^64: delay_ms_fix and its terms are unsigned
  FirstOffsets,      \* bound: the offsets of a clock that is not yet steered
  Delay,             \* the delay of the fibre, before it drifts
  MaxDrift,          \* bound: how far it drifts, in all
  ColdDrift,         \* bound: how far it drifts while the output is off, at the
                     \* expense of the other bound
  TrackingSettings,  \* what wr_servo_enable_tracking() may be called with
  MaxUnlocks         \* bound: how often the PLL loses its lock

ASSUME ServoAssumption ==
  /\ Threshold \in Nat /\ MaxMissed \in Nat /\ Word \in Nat \ {0}
  /\ FirstOffsets \subseteq Int /\ Delay \in Nat /\ MaxDrift \in 0 .. Delay
  /\ ColdDrift \in 0 .. MaxDrift /\ TrackingSettings \subseteq BOOLEAN
  /\ MaxUnlocks \in Nat

\* The round trip is shorter than what 64 bits count: 2^64 ps are seven months.
ASSUME DelayAssumption == 2 * (Delay + MaxDrift) < Word

VARIABLES
  servo,             \* wr_servo_state_t
  timingOutput,      \* ptpd_netif_enable_timing_output()
  doRestart,         \* PtpPortDS: the port is to be initialised again
  tracking_enabled,  \* see wr_servo_enable_tracking()
  stage,             \* how far the exchange is: "idle", "got_sync", "req_sent"
  err,               \* the error of the clock at t2 and at t3
  offset,            \* the error of the clock: the master's time less its own
  delay,             \* the delay of the fibre, either way
  coldDelay,         \* what it was when the output was last on
  cold,              \* how far it drifts while the output is off
  shifter,           \* where the phase shifter is
  pending,           \* what is being adjusted: counters, phase
  unlocks            \* how often the PLL lost its lock

hardware == <<offset, shifter>>
fibre == <<delay, coldDelay, cold>>
vars == <<servo, timingOutput, doRestart, tracking_enabled, stage, err,
          hardware, fibre, pending, unlocks>>

ServoState == {"SYNC_NSEC", "SYNC_TAI", "SYNC_PHASE", "TRACK_PHASE",
               "WAIT_SYNC_IDLE", "WAIT_OFFSET_STABLE"}

TypeOK ==
  /\ servo \in [state : ServoState, next_state : ServoState, cur_setpoint : Int,
                missed_iters : 0 .. MaxMissed, delta_ms_prev : Int]
  /\ timingOutput \in BOOLEAN /\ doRestart \in BOOLEAN /\ tracking_enabled \in BOOLEAN
  /\ stage \in {"idle", "got_sync", "req_sent"}
  /\ err \in [t2 : Int, t3 : Int]
  /\ offset \in Int /\ shifter \in Int /\ pending \in [counters : Int, phase : Int]
  /\ delay \in Delay - MaxDrift .. Delay + MaxDrift
  /\ coldDelay \in Delay - MaxDrift .. Delay + MaxDrift
  /\ cold \in 0 .. ColdDrift
  /\ unlocks \in 0 .. MaxUnlocks

\* Mutant: the state machine is left without a state.
ServoInitNoState(s) ==
  [s EXCEPT !.state = "Uninitialized", !.cur_setpoint = 0, !.missed_iters = 0]

\* wr_servo_init(), on the way into PTP_SLAVE.
ServoInit(s) ==
  [s EXCEPT !.state = "SYNC_TAI", !.cur_setpoint = 0, !.missed_iters = 0]

\* The port has just entered PTP_SLAVE for the first time.
Init ==
  /\ servo = ServoInit([state |-> "SYNC_TAI", next_state |-> "SYNC_NSEC", cur_setpoint |-> 0,
                        missed_iters |-> 0, delta_ms_prev |-> 0])
  /\ timingOutput = FALSE /\ doRestart = FALSE /\ tracking_enabled = TRUE
  /\ stage = "idle" /\ err = [t2 |-> 0, t3 |-> 0]
  /\ offset \in FirstOffsets /\ delay = Delay /\ coldDelay = Delay /\ cold \in 0 .. ColdDrift
  /\ shifter = 0 /\ pending = [counters |-> 0, phase |-> 0]
  /\ unlocks = 0

-----------------------------------------------------------------------------
\* The clock and its environment.

\* ptpd_netif_adjust_in_progress().
AdjustInProgress == pending.counters # 0 \/ pending.phase # shifter

CountersDone ==
  /\ pending.counters # 0
  /\ offset' = offset - pending.counters
  /\ pending' = [pending EXCEPT !.counters = 0]
  /\ UNCHANGED <<servo, timingOutput, doRestart, tracking_enabled, stage, err,
                 fibre, shifter, unlocks>>

\* adjust_phase() sets where the shifter goes, not how far.
ShifterDone ==
  /\ pending.phase # shifter
  /\ offset' = offset - (pending.phase - shifter)
  /\ shifter' = pending.phase
  /\ UNCHANGED <<servo, timingOutput, doRestart, tracking_enabled, stage, err,
                 fibre, pending, unlocks>>

\* The fibre warms up or cools down. The clock is recovered from it: what comes
\* later makes it late. Within one exchange the drift is neglected.
Drift ==
  /\ stage = "idle"
  /\ \E d \in {-1, 1} :
       /\ delay + d \in Delay - (MaxDrift - cold) .. Delay + (MaxDrift - cold)
       /\ timingOutput \/ delay + d \in coldDelay - cold .. coldDelay + cold
       /\ delay' = delay + d /\ offset' = offset + d
       /\ coldDelay' = IF timingOutput THEN delay + d ELSE coldDelay
  /\ UNCHANGED <<servo, timingOutput, doRestart, tracking_enabled, stage, err,
                 shifter, cold, pending, unlocks>>

EnableTracking ==
  /\ tracking_enabled' \in TrackingSettings
  /\ UNCHANGED <<servo, timingOutput, doRestart, stage, err, hardware, fibre, pending, unlocks>>

-----------------------------------------------------------------------------
\* The exchange: t1 and t2, then t3, then the Delay_Resp and the update.

GotSync ==
  /\ stage = "idle" /\ ~doRestart
  /\ stage' = "got_sync" /\ err' = [err EXCEPT !.t2 = offset]
  /\ UNCHANGED <<servo, timingOutput, doRestart, tracking_enabled, hardware, fibre,
                 pending, unlocks>>

DelayReqSent ==
  /\ stage = "got_sync"
  /\ stage' = "req_sent" /\ err' = [err EXCEPT !.t3 = offset]
  /\ UNCHANGED <<servo, timingOutput, doRestart, tracking_enabled, hardware, fibre,
                 pending, unlocks>>

\* mu: the round trip, wrong if the clock is adjusted between t2 and t3.
Mu == 2 * delay + err.t3 - err.t2

\* delay_ms_fix. The shift to the right is one of an unsigned value.
DelayMs == (Mu % Word) \div 2

\* The timestamp of a time: the difference of two timestamps is normalised.
Stamp(t) ==
  [sec   |-> t \div (NsPerSec * PsPerNs), nsec |-> (t \div PsPerNs) % NsPerSec,
   phase |-> t % PsPerNs]

\* ts_offset_hw.
OffsetHw == TsHardwarize(TsAdd(Stamp(err.t2 - delay), PicosToTs(DelayMs)))

\* The part of wr_servo_update() before the state machine. A PLL out of lock
\* does not keep the state machine from its step.
BeginUpdate(locked) ==
  /\ stage = "req_sent" /\ ~doRestart
  /\ stage' = "idle"
  /\ IF locked THEN UNCHANGED unlocks
               ELSE unlocks < MaxUnlocks /\ unlocks' = unlocks + 1
  /\ doRestart' = ~locked
  /\ UNCHANGED <<tracking_enabled, err, hardware, fibre>>

\* The output is left as the poll of the PLL left it.
OutputAsPolled(locked) == timingOutput' = (timingOutput /\ locked)

\* Mutant: the state machine does not wait for the HAL.
GotoAtOnce(next) == [servo EXCEPT !.state = next]

\* What every command to the HAL ends with.
WaitThen(next) == [servo EXCEPT !.state = "WAIT_SYNC_IDLE", !.next_state = next]

WaitSyncIdle(locked) ==
  /\ servo.state = "WAIT_SYNC_IDLE"
  /\ servo' = IF AdjustInProgress THEN servo ELSE [servo EXCEPT !.state = servo.next_state]
  /\ OutputAsPolled(locked)
  /\ UNCHANGED pending

\* Mutant: the output stays as it was.
SyncTaiOutputOn(locked) ==
  /\ servo.state = "SYNC_TAI"
  /\ IF OffsetHw.sec # 0
     THEN /\ pending' = [counters |-> OffsetHw.sec * NsPerSec * PsPerNs, phase |-> 0]
          /\ servo' = WaitThen("SYNC_NSEC")
     ELSE /\ servo' = [servo EXCEPT !.state = "SYNC_NSEC"]
          /\ UNCHANGED pending
  /\ OutputAsPolled(locked)

SyncTai(locked) ==
  /\ servo.state = "SYNC_TAI"
  /\ IF OffsetHw.sec # 0
     THEN /\ pending' = [counters |-> OffsetHw.sec * NsPerSec * PsPerNs, phase |-> 0]
          /\ servo' = WaitThen("SYNC_NSEC")
     ELSE /\ servo' = [servo EXCEPT !.state = "SYNC_NSEC"]
          /\ UNCHANGED pending
  /\ timingOutput' = FALSE

SyncNsec(locked) ==
  /\ servo.state = "SYNC_NSEC"
  /\ IF OffsetHw.nsec # 0
     THEN /\ pending' = [pending EXCEPT !.counters = OffsetHw.nsec * PsPerNs]
          /\ servo' = WaitThen("SYNC_NSEC")
     ELSE /\ servo' = [servo EXCEPT !.state = "SYNC_PHASE"]
          /\ UNCHANGED pending
  /\ OutputAsPolled(locked)

SyncPhase(locked) ==
  /\ servo.state = "SYNC_PHASE"
  /\ LET setpoint == OffsetHw.phase + OffsetHw.nsec * PsPerNs
     IN  /\ pending' = [pending EXCEPT !.phase = setpoint]
         /\ servo' = [WaitThen("WAIT_OFFSET_STABLE") EXCEPT
                        !.cur_setpoint = setpoint, !.delta_ms_prev = DelayMs]
  /\ OutputAsPolled(locked)

\* The clock is within a cycle of the master's.
CountersRight == OffsetHw.sec = 0 /\ OffsetHw.nsec = 0

Abs(n) == IF n < 0 THEN -n ELSE n
Stable == CountersRight /\ Abs(TsToPicos(OffsetHw)) < Threshold

\* missed_iters is only compared with its limit: it is not counted further.
WaitOffsetStable(locked) ==
  /\ servo.state = "WAIT_OFFSET_STABLE"
  /\ LET missed == IF CountersRight /\ ~Stable /\ servo.missed_iters < MaxMissed
                   THEN servo.missed_iters + 1 ELSE servo.missed_iters
     IN  servo' = [servo EXCEPT
           !.missed_iters = missed,
           !.state = IF ~CountersRight \/ missed >= MaxMissed THEN "SYNC_TAI"
                     ELSE IF Stable THEN "TRACK_PHASE" ELSE @]
  /\ timingOutput' = (Stable \/ (timingOutput /\ locked))
  /\ UNCHANGED pending

\* Mutant: the change of the delay is followed again at each update.
TrackPhaseTwice(locked) ==
  /\ servo.state = "TRACK_PHASE"
  /\ LET setpoint == servo.cur_setpoint + DelayMs - servo.delta_ms_prev
     IN  /\ pending' = [pending EXCEPT !.phase = setpoint]
         /\ servo' = [WaitThen("TRACK_PHASE") EXCEPT !.cur_setpoint = setpoint]
  /\ OutputAsPolled(locked)

\* With the tracking enabled, the servo goes on tracking whatever the offset is.
TrackPhase(locked) ==
  /\ servo.state = "TRACK_PHASE"
  /\ IF tracking_enabled
     THEN LET setpoint == servo.cur_setpoint + DelayMs - servo.delta_ms_prev
          IN  /\ pending' = [pending EXCEPT !.phase = setpoint]
              /\ servo' = [WaitThen("TRACK_PHASE") EXCEPT
                             !.cur_setpoint = setpoint, !.delta_ms_prev = DelayMs]
     ELSE /\ servo' = [servo EXCEPT !.state = IF CountersRight THEN @ ELSE "SYNC_TAI"]
          /\ UNCHANGED pending
  /\ OutputAsPolled(locked)

\* wr_servo_update().
Update ==
  \E locked \in BOOLEAN :
    /\ BeginUpdate(locked)
    /\ \/ WaitSyncIdle(locked) \/ SyncTai(locked) \/ SyncNsec(locked)
       \/ SyncPhase(locked) \/ WaitOffsetStable(locked) \/ TrackPhase(locked)

\* The port has been initialised and has become a WR slave again. The locking
\* on the way there starts the phase shifter from zero.
Restart ==
  /\ doRestart /\ doRestart' = FALSE
  /\ servo' = ServoInit(servo)
  /\ timingOutput' = FALSE /\ stage' = "idle"
  /\ offset' \in FirstOffsets /\ shifter' = 0 /\ pending' = [counters |-> 0, phase |-> 0]
  /\ UNCHANGED <<tracking_enabled, err, fibre, unlocks>>

Next ==
  \/ CountersDone \/ ShifterDone \/ Drift \/ EnableTracking
  \/ GotSync \/ DelayReqSent \/ Update \/ Restart

Spec == Init /\ [][Next]_vars

\* The next stage of the exchange: what of GotSync, DelayReqSent and Update the
\* progress of the servo depends on.
Advance ==
  /\ ~doRestart
  /\ stage' = CASE stage = "idle"     -> "got_sync"
                [] stage = "got_sync" -> "req_sent"
                [] stage = "req_sent" -> "idle"

\* The HAL carries out what it is told, exchanges go on (SyncExchange!KeepsUp),
\* and a port that is initialised again becomes a slave again.
FairSpec ==
  /\ Spec
  /\ WF_vars(CountersDone) /\ WF_vars(ShifterDone)
  /\ WF_stage(Advance) /\ WF_doRestart(doRestart /\ doRestart' = FALSE)

-----------------------------------------------------------------------------
\* While the timing output is on, the error of the clock, once the phase that
\* is commanded is reached and the change of the delay that the servo has not
\* seen yet is followed, is below the threshold: following the changes of
\* delta_ms adds up no error (wr_servo.c, WR_TRACK_PHASE), whether tracking
\* is switched off and on and whatever the HAL takes its time for.
ErrorBound ==
  timingOutput /\ ~doRestart =>
    Abs(offset - (pending.phase - shifter) - (delay - servo.delta_ms_prev)) < Threshold

\* The output never jumps: the counters are adjusted only while it is off
\* (wr_servo.c turns it off in WR_SYNC_TAI, before it turns to the counters).
OutputNeverJumps == timingOutput => pending.counters = 0

\* A PLL out of lock turns the output off until the servo has started again.
OutputOnlyInLock == doRestart => ~timingOutput

\* From any offset, and after each loss of lock, the servo ends up tracking
\* the phase with the output on, once the operator leaves the tracking enabled
\* (the whole of wr_servo_update()). Unless the fibre ever drifts by a whole cycle
\* with the output on: the synchronisation that follows if it is not tracked
\* starts from a shifter that is not at zero.
Locks ==
  <>[]tracking_enabled /\ [](timingOutput => Abs(offset) < ClockPeriod) =>
    <>[](/\ timingOutput
         /\ {servo.state, servo.next_state} \subseteq {"TRACK_PHASE", "WAIT_SYNC_IDLE"})

=============================================================================
