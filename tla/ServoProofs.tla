---------------------------- MODULE ServoProofs -----------------------------
(***************************************************************************)
(* Theorems about Servo, for all values of the constants, any units,       *)
(* threshold, number of misses, offsets, drift and losses of lock: type    *)
(* correctness; that the timing output never jumps; and how far the clock  *)
(* may be from its master while the output is on.                          *)
(***************************************************************************)
EXTENDS Servo, ServoArithmetic

-----------------------------------------------------------------------------
\* What an update calculates.

\* The timestamp of a time is one.
LEMMA StampType == \A t \in Int : Stamp(t) \in Timestamp
<1> SUFFICES ASSUME NEW t \in Int PROVE Stamp(t) \in Timestamp
  OBVIOUS
<1>1. NsPerSec * PsPerNs \in Int /\ NsPerSec * PsPerNs > 0
  BY UnitsPositive
<1>2. t \div (NsPerSec * PsPerNs) \in Int
  BY <1>1
<1>3. t \div PsPerNs \in Int
  BY UnitsPositive
<1>4. (t \div PsPerNs) % NsPerSec \in Int
  BY <1>3, UnitsPositive
<1>5. t % PsPerNs \in Int
  BY UnitsPositive
<1> QED
  BY <1>2, <1>4, <1>5 DEF Stamp, Timestamp

\* delay_ms_fix is an integer, ts_offset_hw a timestamp.
LEMMA UpdateType ==
  ASSUME TypeOK
  PROVE  DelayMs \in Int /\ OffsetHw \in Timestamp
<1>1. err.t2 \in Int /\ err.t3 \in Int /\ delay \in Int
  BY ServoAssumption DEF TypeOK
<1>2. Mu \in Int
  BY <1>1 DEF Mu
<1>3. Mu % Word \in Int
  BY <1>2, ServoAssumption
<1>4. DelayMs \in Int
  BY <1>3 DEF DelayMs
<1>5. Stamp(err.t2 - delay) \in Timestamp
  BY <1>1, StampType
<1>6. OffsetHw \in Timestamp
  BY <1>4, <1>5, PicosToTsType, TsAddType, TsHardwarizeType DEF OffsetHw
<1> QED
  BY <1>4, <1>6

-----------------------------------------------------------------------------
\* Type correctness.

ServoRecord ==
  [state : ServoState, next_state : ServoState, cur_setpoint : Int,
   missed_iters : 0 .. MaxMissed, delta_ms_prev : Int]

\* What setting the fields of the servo's data yields.
LEMMA ServoUpdate ==
  ASSUME NEW s \in ServoRecord, NEW st \in ServoState, NEW nx \in ServoState,
         NEW set \in Int, NEW prev \in Int, NEW missed \in 0 .. MaxMissed
  PROVE  /\ [s EXCEPT !.state = st] \in ServoRecord
         /\ [s EXCEPT !.cur_setpoint = set] \in ServoRecord
         /\ [s EXCEPT !.missed_iters = missed] \in ServoRecord
         /\ [s EXCEPT !.state = st, !.next_state = nx] \in ServoRecord
         /\ [s EXCEPT !.missed_iters = missed, !.state = st] \in ServoRecord
         /\ [s EXCEPT !.cur_setpoint = set, !.delta_ms_prev = prev] \in ServoRecord
         /\ [s EXCEPT !.state = st, !.cur_setpoint = set, !.missed_iters = missed] \in ServoRecord
<1>1. /\ [s EXCEPT !.state = st] \in ServoRecord
      /\ [s EXCEPT !.cur_setpoint = set] \in ServoRecord
      /\ [s EXCEPT !.missed_iters = missed] \in ServoRecord
  BY DEF ServoRecord
<1>2. /\ [[s EXCEPT !.state = st] EXCEPT !.next_state = nx] \in ServoRecord
      /\ [[s EXCEPT !.missed_iters = missed] EXCEPT !.state = st] \in ServoRecord
      /\ [[s EXCEPT !.cur_setpoint = set] EXCEPT !.delta_ms_prev = prev] \in ServoRecord
      /\ [[s EXCEPT !.state = st] EXCEPT !.cur_setpoint = set] \in ServoRecord
  BY <1>1 DEF ServoRecord
<1>3. [[[s EXCEPT !.state = st] EXCEPT !.cur_setpoint = set] EXCEPT !.missed_iters = missed]
        \in ServoRecord
  BY <1>2 DEF ServoRecord
<1> QED
  BY <1>1, <1>2, <1>3

\* wr_servo_init() leaves the servo in WR_SYNC_TAI, without counters to adjust.
LEMMA ServoInitType ==
  ASSUME NEW s \in ServoRecord
  PROVE  ServoInit(s) \in ServoRecord /\ ServoInit(s).state = "SYNC_TAI"
<1>1. "SYNC_TAI" \in ServoState /\ 0 \in Int /\ 0 \in 0 .. MaxMissed
  BY ServoAssumption DEF ServoState
<1>2. ServoInit(s) \in ServoRecord
  BY <1>1, ServoUpdate, Zenon DEF ServoInit
<1>3. ServoInit(s).state = "SYNC_TAI"
  BY DEF ServoInit, ServoRecord
<1> QED
  BY <1>2, <1>3

\* Every command to the HAL ends in WR_WAIT_SYNC_IDLE.
LEMMA WaitThenType ==
  ASSUME servo \in ServoRecord, NEW next \in ServoState
  PROVE  /\ WaitThen(next) \in ServoRecord
         /\ WaitThen(next).state = "WAIT_SYNC_IDLE" /\ WaitThen(next).next_state = next
<1>1. "WAIT_SYNC_IDLE" \in ServoState
  BY DEF ServoState
<1>2. WaitThen(next) \in ServoRecord
  BY <1>1, ServoUpdate, ServoAssumption DEF WaitThen, ServoRecord
<1>3. WaitThen(next).state = "WAIT_SYNC_IDLE" /\ WaitThen(next).next_state = next
  BY DEF WaitThen, ServoRecord
<1> QED
  BY <1>2, <1>3

\* What an update leaves alone keeps its type.
LEMMA BeginUpdateType ==
  ASSUME TypeOK, NEW locked \in BOOLEAN, BeginUpdate(locked),
         servo' \in ServoRecord, timingOutput' \in BOOLEAN,
         pending' \in [counters : Int, phase : Int]
  PROVE  TypeOK'
<1>1. unlocks' \in 0 .. MaxUnlocks
  BY ServoAssumption DEF BeginUpdate, TypeOK
<1>2. stage' \in {"idle", "got_sync", "req_sent"} /\ doRestart' \in BOOLEAN
  BY DEF BeginUpdate
<1>3. UNCHANGED <<tracking_enabled, err, offset, shifter, delay, coldDelay, cold>>
  BY DEF BeginUpdate, hardware, fibre
<1> QED
  BY <1>1, <1>2, <1>3 DEF TypeOK, ServoRecord

\* Each state of the state machine keeps the type of the servo's data, the
\* output and the pending adjustment.
LEMMA UpdateStep == ASSUME TypeOK, Update PROVE TypeOK'
<1>1. PICK locked \in BOOLEAN :
        /\ BeginUpdate(locked)
        /\ \/ WaitSyncIdle(locked) \/ SyncTai(locked) \/ SyncNsec(locked)
           \/ SyncPhase(locked) \/ WaitOffsetStable(locked) \/ TrackPhase(locked)
  BY DEF Update
<1> SUFFICES /\ servo' \in ServoRecord /\ timingOutput' \in BOOLEAN
             /\ pending' \in [counters : Int, phase : Int]
  BY <1>1, BeginUpdateType
<1>2. /\ servo \in ServoRecord /\ timingOutput \in BOOLEAN /\ tracking_enabled \in BOOLEAN
      /\ pending \in [counters : Int, phase : Int]
  BY DEF TypeOK, ServoRecord
<1>3. DelayMs \in Int /\ OffsetHw \in Timestamp
  BY UpdateType
<1>4. OffsetHw.sec \in Int /\ OffsetHw.nsec \in Int /\ OffsetHw.phase \in Int
  BY <1>3 DEF Timestamp
<1> HIDE DEF TypeOK
<1>5. OffsetHw.sec * NsPerSec * PsPerNs \in Int /\ OffsetHw.nsec * PsPerNs \in Int
  <2>1. OffsetHw.sec * NsPerSec \in Int
    BY <1>4, UnitsPositive
  <2> QED
    BY <2>1, <1>4, UnitsPositive
<1>6. ASSUME NEW x \in Int
      PROVE  /\ [pending EXCEPT !.counters = x] \in [counters : Int, phase : Int]
             /\ [pending EXCEPT !.phase = x] \in [counters : Int, phase : Int]
  BY <1>2
<1>7. servo.cur_setpoint \in Int /\ servo.delta_ms_prev \in Int /\ servo.state \in ServoState
        /\ servo.next_state \in ServoState /\ servo.missed_iters \in 0 .. MaxMissed
  BY <1>2 DEF ServoRecord
<1>8. ASSUME NEW st \in ServoState
       PROVE  [servo EXCEPT !.state = st] \in ServoRecord /\ WaitThen(st) \in ServoRecord
  BY <1>2, <1>7, ServoUpdate, WaitThenType, Zenon
<1>9. CASE WaitSyncIdle(locked)
  <2>1. servo' \in ServoRecord
    BY <1>9, <1>2, <1>7, <1>8 DEF WaitSyncIdle
  <2> QED
    BY <2>1, <1>9, <1>2 DEF WaitSyncIdle, OutputAsPolled
<1>10. CASE SyncTai(locked)
  <2>1. servo' \in ServoRecord
    <3>1. {"SYNC_TAI", "SYNC_NSEC", "SYNC_PHASE"} \subseteq ServoState
      BY DEF ServoState
    <3>2. /\ WaitThen("SYNC_NSEC") \in ServoRecord
          /\ [servo EXCEPT !.state = "SYNC_NSEC"] \in ServoRecord
          /\ [servo EXCEPT !.state = "SYNC_PHASE"] \in ServoRecord
      BY <3>1, <1>8
    <3> QED
      BY <1>10, <3>2 DEF SyncTai
  <2>2. pending' \in [counters : Int, phase : Int]
    BY <1>10, <1>2, <1>5 DEF SyncTai
  <2> QED
    BY <2>1, <2>2, <1>10 DEF SyncTai
<1>11. CASE SyncNsec(locked)
  <2>1. servo' \in ServoRecord
    <3>1. {"SYNC_TAI", "SYNC_NSEC", "SYNC_PHASE"} \subseteq ServoState
      BY DEF ServoState
    <3>2. /\ WaitThen("SYNC_NSEC") \in ServoRecord
          /\ [servo EXCEPT !.state = "SYNC_NSEC"] \in ServoRecord
          /\ [servo EXCEPT !.state = "SYNC_PHASE"] \in ServoRecord
      BY <3>1, <1>8
    <3> QED
      BY <1>11, <3>2 DEF SyncNsec
  <2>2. pending' \in [counters : Int, phase : Int]
    BY <1>11, <1>2, <1>5, <1>6 DEF SyncNsec
  <2> QED
    BY <2>1, <2>2, <1>11, <1>2 DEF SyncNsec, OutputAsPolled
<1>12. CASE SyncPhase(locked)
  <2>1. OffsetHw.phase + OffsetHw.nsec * PsPerNs \in Int
    BY <1>4, <1>5
  <2>2. WaitThen("WAIT_OFFSET_STABLE") \in ServoRecord
    BY <1>2, WaitThenType DEF ServoState
  <2>3. servo' \in ServoRecord
    BY <1>12, <1>3, <1>7, <2>1, <2>2, ServoUpdate, Zenon DEF SyncPhase
  <2> QED
    BY <2>1, <2>3, <1>2, <1>6, <1>12 DEF SyncPhase, OutputAsPolled
<1>13. CASE WaitOffsetStable(locked)
  <2> DEFINE missed == IF CountersRight /\ ~Stable /\ servo.missed_iters < MaxMissed
                       THEN servo.missed_iters + 1 ELSE servo.missed_iters
             next   == IF ~CountersRight \/ missed >= MaxMissed THEN "SYNC_TAI"
                       ELSE IF Stable THEN "TRACK_PHASE" ELSE servo.state
  <2>1. missed \in 0 .. MaxMissed
    BY <1>7, ServoAssumption
  <2>2. next \in ServoState
    BY <1>7 DEF ServoState
  <2>3. servo' = [servo EXCEPT !.missed_iters = missed, !.state = next]
    BY <1>13 DEF WaitOffsetStable
  <2> HIDE DEF missed, next
  <2>4. servo' \in ServoRecord
    BY <1>2, <1>7, <2>1, <2>2, <2>3, ServoUpdate, Zenon
  <2>5. timingOutput' \in BOOLEAN
    BY <1>13 DEF WaitOffsetStable
  <2> QED
    BY <2>4, <2>5, <1>2, <1>13 DEF WaitOffsetStable
<1>14. CASE TrackPhase(locked)
  <2>1. servo.cur_setpoint + DelayMs - servo.delta_ms_prev \in Int
    BY <1>3, <1>7
  <2>2. WaitThen("TRACK_PHASE") \in ServoRecord
    BY <1>2, WaitThenType DEF ServoState
  <2>3. CASE tracking_enabled
    <3> DEFINE setpoint == servo.cur_setpoint + DelayMs - servo.delta_ms_prev
    <3>1. servo' = [WaitThen("TRACK_PHASE") EXCEPT
                      !.cur_setpoint = setpoint, !.delta_ms_prev = DelayMs]
      BY <1>14, <2>3 DEF TrackPhase
    <3> HIDE DEF setpoint
    <3>2. setpoint \in Int
      BY <2>1 DEF setpoint
    <3>3. servo' \in ServoRecord
      BY <3>1, <3>2, <2>2, <1>3, <1>7, ServoUpdate, Zenon
    <3> QED
      BY <3>3, <2>1, <2>3, <1>2, <1>6, <1>14 DEF TrackPhase, OutputAsPolled
  <2>4. CASE ~tracking_enabled
    <3>1. servo' = [servo EXCEPT !.state = IF CountersRight THEN servo.state ELSE "SYNC_TAI"]
      BY <1>14, <2>4 DEF TrackPhase
    <3>2. (IF CountersRight THEN servo.state ELSE "SYNC_TAI") \in ServoState
      BY <1>7 DEF ServoState
    <3>3. servo' \in ServoRecord
      BY <3>1, <3>2, <1>8
    <3> QED
      BY <3>3, <2>4, <1>2, <1>14 DEF TrackPhase, OutputAsPolled
  <2> QED
    BY <2>3, <2>4
<1> QED
  BY <1>1, <1>9, <1>10, <1>11, <1>12, <1>13, <1>14

\* Every step keeps the types.
LEMMA TypeStep == TypeOK /\ [Next]_vars => TypeOK'
<1> SUFFICES ASSUME TypeOK, [Next]_vars PROVE TypeOK'
  OBVIOUS
<1>1. CASE CountersDone
  BY <1>1 DEF CountersDone, TypeOK, fibre
<1>2. CASE ShifterDone
  BY <1>2 DEF ShifterDone, TypeOK, fibre
<1>3. CASE Drift
  <2>1. delay' \in Delay - MaxDrift .. Delay + MaxDrift /\ offset' \in Int
    BY <1>3, ServoAssumption DEF Drift, TypeOK
  <2>2. coldDelay' \in {delay', coldDelay}
    BY <1>3 DEF Drift
  <2> QED
    BY <1>3, <2>1, <2>2 DEF Drift, TypeOK
<1>4. CASE EnableTracking
  <2>1. tracking_enabled' \in BOOLEAN
    BY <1>4, ServoAssumption, Zenon DEF EnableTracking
  <2>2. /\ servo' = servo /\ timingOutput' = timingOutput /\ doRestart' = doRestart
        /\ stage' = stage /\ err' = err /\ offset' = offset /\ shifter' = shifter
        /\ delay' = delay /\ coldDelay' = coldDelay /\ cold' = cold
        /\ pending' = pending /\ unlocks' = unlocks
    BY <1>4 DEF EnableTracking, hardware, fibre
  <2>3. /\ servo' \in [state : ServoState, next_state : ServoState, cur_setpoint : Int,
                     missed_iters : 0 .. MaxMissed, delta_ms_prev : Int]
        /\ stage' \in {"idle", "got_sync", "req_sent"} /\ err' \in [t2 : Int, t3 : Int]
        /\ offset' \in Int /\ shifter' \in Int /\ pending' \in [counters : Int, phase : Int]
        /\ delay' \in Delay - MaxDrift .. Delay + MaxDrift
        /\ coldDelay' \in Delay - MaxDrift .. Delay + MaxDrift
        /\ cold' \in 0 .. ColdDrift
        /\ unlocks' \in 0 .. MaxUnlocks
    BY <2>2 DEF TypeOK
  <2>4. timingOutput' \in BOOLEAN /\ doRestart' \in BOOLEAN
    BY <2>2 DEF TypeOK
  <2> QED
    BY <2>1, <2>3, <2>4, Zenon DEF TypeOK
<1>5. CASE GotSync
  BY <1>5 DEF GotSync, TypeOK, hardware, fibre
<1>6. CASE DelayReqSent
  BY <1>6 DEF DelayReqSent, TypeOK, hardware, fibre
<1>7. CASE Update
  BY <1>7, UpdateStep
<1>8. CASE Restart
  <2>1. servo' \in ServoRecord
    BY <1>8, ServoInitType DEF Restart, TypeOK, ServoRecord
  <2>2. offset' \in Int
    BY <1>8, ServoAssumption DEF Restart
  <2>3. pending' \in [counters : Int, phase : Int]
    BY <1>8 DEF Restart
  <2> QED
    BY <1>8, <2>1, <2>2, <2>3 DEF Restart, TypeOK, ServoRecord, fibre
<1>9. CASE UNCHANGED vars
  BY <1>9 DEF vars, hardware, fibre, TypeOK
<1> QED
  BY <1>1, <1>2, <1>3, <1>4, <1>5, <1>6, <1>7, <1>8, <1>9 DEF Next

\* The port starts with the types.
LEMMA TypeInit == Init => TypeOK
<1> SUFFICES ASSUME Init PROVE TypeOK
  OBVIOUS
<1> DEFINE fresh == [state |-> "SYNC_TAI", next_state |-> "SYNC_NSEC", cur_setpoint |-> 0,
                     missed_iters |-> 0, delta_ms_prev |-> 0]
<1>1. fresh \in ServoRecord
  BY ServoAssumption DEF ServoRecord, ServoState
<1>2. servo \in ServoRecord
  BY <1>1, ServoInitType DEF Init
<1>3. /\ offset \in Int /\ unlocks \in 0 .. MaxUnlocks
      /\ delay \in Delay - MaxDrift .. Delay + MaxDrift
      /\ coldDelay \in Delay - MaxDrift .. Delay + MaxDrift
      /\ cold \in 0 .. ColdDrift
  BY ServoAssumption DEF Init
<1>4. /\ stage \in {"idle", "got_sync", "req_sent"} /\ err \in [t2 : Int, t3 : Int]
      /\ shifter \in Int /\ pending \in [counters : Int, phase : Int]
  BY DEF Init
<1>5. timingOutput \in BOOLEAN /\ doRestart \in BOOLEAN /\ tracking_enabled \in BOOLEAN
  BY DEF Init
<1> QED
  BY <1>2, <1>3, <1>4, <1>5, Zenon DEF TypeOK, ServoRecord

\* Servo is type correct.
THEOREM TypeCorrect == Spec => []TypeOK
BY TypeInit, TypeStep, PTL DEF Spec

-----------------------------------------------------------------------------
\* The output never jumps.

\* The servo waits for counters, or is about to adjust the nanoseconds.
WaitsForCounters == servo.state = "WAIT_SYNC_IDLE" /\ servo.next_state = "SYNC_NSEC"

\* The inductive invariant: the counters are adjusted on the way from SYNC_TAI
\* to SYNC_NSEC and back to SYNC_NSEC, and on this way the output is off.
OutputOffForCounters ==
  /\ servo.state = "SYNC_NSEC" \/ WaitsForCounters => ~timingOutput
  /\ pending.counters # 0 => WaitsForCounters

\* An update keeps the invariant. The counters are adjusted in two states, and
\* the output is turned on only in WAIT_OFFSET_STABLE, where none is pending.
LEMMA OutputUpdateStep ==
  ASSUME TypeOK, OutputOffForCounters, Update
  PROVE  OutputOffForCounters'
<1>1. PICK locked \in BOOLEAN :
        /\ BeginUpdate(locked)
        /\ \/ WaitSyncIdle(locked) \/ SyncTai(locked) \/ SyncNsec(locked)
           \/ SyncPhase(locked) \/ WaitOffsetStable(locked) \/ TrackPhase(locked)
  BY DEF Update
<1>2. servo \in ServoRecord /\ pending \in [counters : Int, phase : Int]
  BY DEF TypeOK, ServoRecord
<1> HIDE DEF TypeOK
<1>3. ASSUME NEW next \in ServoState
      PROVE  WaitThen(next).state = "WAIT_SYNC_IDLE" /\ WaitThen(next).next_state = next
  BY <1>2, WaitThenType
<1>4. CASE WaitSyncIdle(locked)
  BY <1>4, <1>2 DEF WaitSyncIdle, OutputAsPolled, AdjustInProgress, OutputOffForCounters,
                    WaitsForCounters, ServoRecord
<1>5. CASE SyncTai(locked)
  <2>1. WaitThen("SYNC_NSEC").state = "WAIT_SYNC_IDLE"
          /\ WaitThen("SYNC_NSEC").next_state = "SYNC_NSEC"
    BY <1>3 DEF ServoState
  <2> QED
    BY <1>5, <1>2, <2>1 DEF SyncTai, OutputOffForCounters, WaitsForCounters, ServoRecord
<1>6. CASE SyncNsec(locked)
  <2>1. WaitThen("SYNC_NSEC").state = "WAIT_SYNC_IDLE"
          /\ WaitThen("SYNC_NSEC").next_state = "SYNC_NSEC"
    BY <1>3 DEF ServoState
  <2> QED
    BY <1>6, <1>2, <2>1 DEF SyncNsec, OutputAsPolled, OutputOffForCounters,
                            WaitsForCounters, ServoRecord
<1>7. CASE SyncPhase(locked)
  <2>1. WaitThen("WAIT_OFFSET_STABLE") \in ServoRecord
          /\ WaitThen("WAIT_OFFSET_STABLE").next_state = "WAIT_OFFSET_STABLE"
          /\ WaitThen("WAIT_OFFSET_STABLE").state = "WAIT_SYNC_IDLE"
    BY <1>2, WaitThenType DEF ServoState
  <2>2. servo'.state = "WAIT_SYNC_IDLE" /\ servo'.next_state = "WAIT_OFFSET_STABLE"
    BY <1>7, <2>1 DEF SyncPhase, ServoRecord
  <2>3. pending'.counters = pending.counters
    BY <1>7, <1>2 DEF SyncPhase
  <2> QED
    BY <1>7, <2>2, <2>3 DEF SyncPhase, OutputOffForCounters, WaitsForCounters
<1>8. CASE WaitOffsetStable(locked)
  <2>1. servo'.state \in {"SYNC_TAI", "TRACK_PHASE", "WAIT_OFFSET_STABLE"}
    BY <1>8, <1>2 DEF WaitOffsetStable, ServoRecord
  <2> QED
    BY <1>8, <2>1 DEF WaitOffsetStable, OutputOffForCounters, WaitsForCounters
<1>9. CASE TrackPhase(locked)
  <2>1. WaitThen("TRACK_PHASE") \in ServoRecord
          /\ WaitThen("TRACK_PHASE").next_state = "TRACK_PHASE"
          /\ WaitThen("TRACK_PHASE").state = "WAIT_SYNC_IDLE"
    BY <1>2, WaitThenType DEF ServoState
  <2>2. \/ servo'.state = "WAIT_SYNC_IDLE" /\ servo'.next_state = "TRACK_PHASE"
        \/ servo'.state \in {"TRACK_PHASE", "SYNC_TAI"}
    BY <1>9, <1>2, <2>1 DEF TrackPhase, ServoRecord
  <2>3. pending'.counters = pending.counters
    BY <1>9, <1>2 DEF TrackPhase
  <2> QED
    BY <1>9, <2>2, <2>3 DEF TrackPhase, OutputOffForCounters, WaitsForCounters
<1> QED
  BY <1>1, <1>4, <1>5, <1>6, <1>7, <1>8, <1>9

\* So does every step.
LEMMA OutputStep == TypeOK /\ OutputOffForCounters /\ [Next]_vars => OutputOffForCounters'
<1> SUFFICES ASSUME TypeOK, OutputOffForCounters, [Next]_vars PROVE OutputOffForCounters'
  OBVIOUS
<1> USE DEF OutputOffForCounters, WaitsForCounters
<1>1. CASE CountersDone
  <2>1. pending'.counters = 0
    BY <1>1 DEF CountersDone, TypeOK
  <2> QED
    BY <1>1, <2>1 DEF CountersDone
<1>2. CASE ShifterDone
  BY <1>2 DEF ShifterDone
<1>3. CASE Drift
  BY <1>3 DEF Drift
<1>4. CASE EnableTracking
  BY <1>4 DEF EnableTracking
<1>5. CASE GotSync
  BY <1>5 DEF GotSync
<1>6. CASE DelayReqSent
  BY <1>6 DEF DelayReqSent
<1>7. CASE Update
  BY <1>7, OutputUpdateStep
<1>8. CASE Restart
  <2>1. servo'.state = "SYNC_TAI"
    BY <1>8, ServoInitType DEF Restart, TypeOK, ServoRecord
  <2> QED
    BY <1>8, <2>1 DEF Restart
<1>9. CASE UNCHANGED vars
  BY <1>9 DEF vars
<1> QED
  BY <1>1, <1>2, <1>3, <1>4, <1>5, <1>6, <1>7, <1>8, <1>9 DEF Next

\* The counters are adjusted only while the timing output is off, for any
\* clock, drift and operator.
THEOREM NeverJumps == Spec => []OutputNeverJumps
<1>1. Init => OutputOffForCounters
  BY DEF Init, OutputOffForCounters
<1>2. OutputOffForCounters => OutputNeverJumps
  BY DEF OutputOffForCounters, OutputNeverJumps
<1> QED
  BY <1>1, <1>2, OutputStep, TypeCorrect, PTL DEF Spec

-----------------------------------------------------------------------------
(* The inductive invariant.                                                *)

\* The servo is in one of the states, or will be once the HAL is idle.
Towards(states) ==
  \/ servo.state \in states
  \/ servo.state = "WAIT_SYNC_IDLE" /\ servo.next_state \in states

\* The states of the state machine see a clock that is not being adjusted: the
\* exchange of their update began after the HAL had become idle.
Measured ==
  servo.state # "WAIT_SYNC_IDLE" =>
    /\ ~AdjustInProgress
    /\ stage # "idle" => err.t2 = offset
    /\ stage = "req_sent" => err.t3 = offset

\* What was commanded last is what cur_setpoint holds.
SetpointKept == Towards({"WAIT_OFFSET_STABLE", "TRACK_PHASE"}) => servo.cur_setpoint = pending.phase

\* Until the offset is stable the output is off.
OffUntilStable == Towards({"SYNC_NSEC", "SYNC_PHASE", "WAIT_OFFSET_STABLE"}) => ~timingOutput

\* Two delays between which the fibre did not drift by more than it does while the
\* output is off.
Near(d, e) == d - e <= cold /\ e - d <= cold

\* While the output is off the delay stays near what it was, and so does the delay
\* that the phase was set for.
DriftedLittle ==
  /\ Near(delay, coldDelay)
  /\ Towards({"WAIT_OFFSET_STABLE"}) => Near(servo.delta_ms_prev, coldDelay)

\* The error of the clock once the phase that is commanded is reached and the
\* change of the delay that the servo has not seen yet is followed.
Error == offset - (pending.phase - shifter) - (delay - servo.delta_ms_prev)

\* It is below the threshold, but for the drift that the servo does not see while
\* it waits with the output off.
ErrorWithinDrift == timingOutput /\ ~doRestart => Abs(Error) < Threshold + 2 * cold

IInv ==
  /\ TypeOK /\ Measured /\ SetpointKept /\ OffUntilStable /\ DriftedLittle
  /\ ErrorWithinDrift

\* The timestamp of a time is.
LEMMA StampExact ==
  ASSUME NEW x \in Int
  PROVE  TsToPicos(Stamp(x)) = x
<1> DEFINE N == NsPerSec
           P == PsPerNs
<1>0. N \in Nat \ {0} /\ P \in Nat \ {0}
  BY UnitsAssumption
<1> HIDE DEF N, P
<1>1. PICK a \in Int : a = x \div P /\ P * a + (x % P) = x /\ x % P \in 0 .. P - 1
  BY <1>0, Division
<1>2. PICK r \in 0 .. P - 1 : r = x % P
  BY <1>1
<1>3. PICK s \in Int : s = a \div N
  BY <1>0, Division
<1>4. PICK n \in 0 .. N - 1 : n = a % N /\ N * s + n = a
  BY <1>0, <1>3, Division
<1>5. PICK m \in Nat \ {0} : m = N * P
  <2>1. N * P \in Int /\ N * P > 0
    BY <1>0
  <2> QED
    BY <2>1
<1>6. PICK u \in Int : u = P * n + r
  BY <1>0
<1>7. u \in 0 .. m - 1
  <2>1. P * n \in Int /\ P * n >= 0
    BY <1>0
  <2>2. P * (N - 1 - n) >= 0 /\ P * (N - 1 - n) \in Int
    BY <1>0
  <2>3. P * (N - 1 - n) = m - P - P * n
    BY <1>0, <1>5
  <2> QED
    BY <1>0, <1>5, <1>6, <2>1, <2>2, <2>3
<1>8. x = m * s + u
  <2>1. PICK b \in Int : b = N * s /\ a = b + n
    BY <1>0, <1>4
  <2>2. (b + n) * P = b * P + n * P /\ b * P \in Int /\ n * P \in Int
    BY <1>0, Distributes
  <2>3. b * P = (N * P) * s
    BY <1>0, <2>1
  <2>4. P * n = n * P /\ P * a = a * P
    BY <1>0
  <2> QED
    BY <1>0, <1>1, <1>2, <1>5, <1>6, <2>1, <2>2, <2>3, <2>4
<1>9. x \div m = s
  BY <1>7, <1>8, QuotientUnique
<1>10. Stamp(x) = [sec |-> s, nsec |-> n, phase |-> r]
  BY <1>1, <1>2, <1>4, <1>5, <1>9, Zenon DEF Stamp, N, P
<1>11. s * N + n = a /\ a * P + r = x
  BY <1>0, <1>1, <1>2, <1>4
<1> QED
  BY <1>10, <1>11 DEF TsToPicos, N, P

-----------------------------------------------------------------------------
(* What an update calculates is the error of the clock and the delay.      *)

\* ts_offset_hw is the error of the clock at t2, but for the delay.
LEMMA OffsetExact ==
  ASSUME TypeOK
  PROVE  TsToPicos(OffsetHw) = err.t2 - delay + DelayMs
<1>1. err.t2 \in Int /\ delay \in Int /\ DelayMs \in Int
  BY UpdateType, ServoAssumption DEF TypeOK
<1>2. PICK at \in Int : at = err.t2 - delay
  BY <1>1
<1>3. PICK stamp \in Timestamp : stamp = Stamp(at) /\ TsToPicos(stamp) = at
  BY StampType, StampExact
<1>4. PICK ms \in Timestamp : ms = PicosToTs(DelayMs) /\ TsToPicos(ms) = DelayMs
  BY <1>1, PicosToTsType, PicosToTsExact
<1>5. PICK sum \in Timestamp : sum = TsAdd(stamp, ms)
  BY TsAddType
<1>6. TsToPicos(sum) = at + DelayMs
  BY <1>3, <1>4, <1>5, TsAddExact
<1>7. OffsetHw = TsHardwarize(sum)
  BY <1>2, <1>3, <1>4, <1>5 DEF OffsetHw
<1> QED
  BY <1>2, <1>6, <1>7, TsHardwarizeExact

\* A clock that is not adjusted during the exchange: the delay is measured, and so
\* is the error.
LEMMA MeasuredExactly ==
  ASSUME TypeOK, Measured, stage = "req_sent", servo.state # "WAIT_SYNC_IDLE"
  PROVE  DelayMs = delay /\ TsToPicos(OffsetHw) = offset
<1>1. err.t2 = offset /\ err.t3 = offset
  BY DEF Measured
<1>2. offset \in Int /\ delay \in Int /\ delay >= 0 /\ delay <= Delay + MaxDrift
  BY ServoAssumption DEF TypeOK
<1>3. PICK trip \in Int : trip = 2 * delay
  BY <1>2
<1>4. Mu = trip
  BY <1>1, <1>2, <1>3 DEF Mu
<1>5. trip \in 0 .. Word - 1
  BY <1>2, <1>3, DelayAssumption, ServoAssumption
<1>6. trip % Word = trip
  BY <1>5, ServoAssumption
<1>7. trip \div 2 = delay
  BY <1>2, <1>3
<1>8. DelayMs = delay
  BY <1>4, <1>6, <1>7 DEF DelayMs
<1> QED
  BY <1>1, <1>2, <1>8, OffsetExact

-----------------------------------------------------------------------------
(* Every step keeps the invariant.                                         *)

\* The adjustments that the HAL carries out: the counters with the output off, the
\* phase as it was commanded.
LEMMA AdjustmentStep ==
  ASSUME IInv, OutputOffForCounters, TypeOK', CountersDone \/ ShifterDone
  PROVE  IInv'
<1>1. AdjustInProgress /\ servo.state = "WAIT_SYNC_IDLE"
  BY DEF CountersDone, ShifterDone, AdjustInProgress, IInv, Measured
<1>2. UNCHANGED <<servo, timingOutput, doRestart, delay, coldDelay, cold>>
  BY DEF CountersDone, ShifterDone, fibre
<1>3. pending'.phase = pending.phase \/ pending' = pending
  BY DEF CountersDone, ShifterDone, IInv, TypeOK
<1>4. Measured'
  BY <1>1, <1>2 DEF Measured
<1>5. SetpointKept'
  BY <1>2, <1>3 DEF IInv, SetpointKept, Towards
<1>6. OffUntilStable' /\ DriftedLittle'
  BY <1>2 DEF IInv, OffUntilStable, DriftedLittle, Near, Towards
<1>7. ErrorWithinDrift'
  <2>1. CASE CountersDone
    <3>1. ~timingOutput
      BY <2>1 DEF CountersDone, OutputOffForCounters, WaitsForCounters
    <3> QED
      BY <1>2, <3>1 DEF ErrorWithinDrift
  <2>2. CASE ShifterDone
    <3>1. /\ offset \in Int /\ shifter \in Int /\ pending.phase \in Int
          /\ delay \in Int /\ servo.delta_ms_prev \in Int
      BY ServoAssumption DEF IInv, TypeOK
    <3>2. Error' = Error
      BY <2>2, <1>2, <3>1 DEF ShifterDone, Error
    <3> QED
      BY <1>2, <3>2 DEF IInv, ErrorWithinDrift, Abs
  <2> QED
    BY <2>1, <2>2
<1> QED
  BY <1>4, <1>5, <1>6, <1>7 DEF IInv

\* The drift moves the clock as much as it moves the delay.
LEMMA DriftStep ==
  ASSUME IInv, TypeOK', Drift
  PROVE  IInv'
<1>1. stage = "idle" /\ UNCHANGED <<servo, timingOutput, doRestart, stage, err, shifter, cold, pending>>
  BY DEF Drift
<1>2. /\ offset \in Int /\ shifter \in Int /\ pending.phase \in Int
      /\ delay \in Int /\ servo.delta_ms_prev \in Int /\ coldDelay \in Int /\ cold \in Int /\ cold >= 0
  BY ServoAssumption DEF IInv, TypeOK
<1>3. PICK d \in {-1, 1} :
        /\ timingOutput \/ delay + d \in coldDelay - cold .. coldDelay + cold
        /\ delay' = delay + d /\ offset' = offset + d
        /\ coldDelay' = IF timingOutput THEN delay + d ELSE coldDelay
  BY DEF Drift
<1>4. Measured'
  BY <1>1 DEF IInv, Measured, AdjustInProgress
<1>5. SetpointKept' /\ OffUntilStable'
  BY <1>1 DEF IInv, SetpointKept, OffUntilStable, Towards
<1>6. DriftedLittle'
  <2>1. Near(delay, coldDelay)'
    BY <1>1, <1>2, <1>3 DEF Near
  <2>2. ASSUME Towards({"WAIT_OFFSET_STABLE"})' PROVE Near(servo.delta_ms_prev, coldDelay)'
    <3>1. Towards({"WAIT_OFFSET_STABLE"})
      BY <1>1, <2>2 DEF Towards
    <3>2. ~timingOutput
      BY <3>1 DEF IInv, OffUntilStable, Towards
    <3>3. coldDelay' = coldDelay
      BY <1>3, <3>2
    <3> QED
      BY <1>1, <3>1, <3>3 DEF IInv, DriftedLittle, Near
  <2> QED
    BY <2>1, <2>2 DEF DriftedLittle
<1>7. Error' = Error
  BY <1>1, <1>2, <1>3 DEF Error
<1> QED
  BY <1>1, <1>4, <1>5, <1>6, <1>7 DEF IInv, ErrorWithinDrift, Abs

\* The timestamps are those of the clock as it is.
LEMMA ExchangeStep ==
  ASSUME IInv, TypeOK', GotSync \/ DelayReqSent
  PROVE  IInv'
<1>1. UNCHANGED <<servo, timingOutput, doRestart, offset, shifter, delay, coldDelay, cold, pending>>
  BY DEF GotSync, DelayReqSent, hardware, fibre
<1>2. Measured'
  <2>1. ASSUME servo.state # "WAIT_SYNC_IDLE" PROVE err'.t2 = offset /\ (stage' = "req_sent" => err'.t3 = offset)
    BY <2>1 DEF GotSync, DelayReqSent, IInv, Measured, TypeOK
  <2> QED
    BY <1>1, <2>1 DEF IInv, Measured, AdjustInProgress
<1> QED
  BY <1>1, <1>2 DEF IInv, SetpointKept, OffUntilStable, DriftedLittle, Near, ErrorWithinDrift, Error, Abs, Towards

\* The port becomes a slave again with its output off.
LEMMA RestartStep ==
  ASSUME IInv, TypeOK', Restart
  PROVE  IInv'
<1>1. servo'.state = "SYNC_TAI"
  BY ServoInitType DEF Restart, IInv, TypeOK, ServoRecord
<1>2. timingOutput' = FALSE /\ stage' = "idle" /\ UNCHANGED <<delay, coldDelay, cold>>
  BY DEF Restart, fibre
<1>3. ~AdjustInProgress'
  BY DEF Restart, AdjustInProgress
<1> QED
  BY <1>1, <1>2, <1>3 DEF IInv, Measured, SetpointKept, OffUntilStable, DriftedLittle, Near, ErrorWithinDrift, Towards

\* An update does not move the clock. It ends the exchange, and what it commands
\* it waits for.
LEMMA UpdateKeeps ==
  ASSUME IInv, OutputOffForCounters, TypeOK', Update
  PROVE  IInv'
<1>1. PICK locked \in BOOLEAN :
        /\ BeginUpdate(locked)
        /\ \/ WaitSyncIdle(locked) \/ SyncTai(locked) \/ SyncNsec(locked)
           \/ SyncPhase(locked) \/ WaitOffsetStable(locked) \/ TrackPhase(locked)
  BY DEF Update
<1>2. /\ stage = "req_sent" /\ stage' = "idle" /\ ~doRestart
      /\ UNCHANGED <<offset, shifter, delay, coldDelay, cold>>
  BY <1>1 DEF BeginUpdate, hardware, fibre
<1>3. servo \in ServoRecord /\ pending \in [counters : Int, phase : Int] /\ timingOutput \in BOOLEAN
  BY DEF IInv, TypeOK, ServoRecord
<1>4. /\ offset \in Int /\ shifter \in Int /\ pending.phase \in Int
      /\ delay \in Int /\ servo.delta_ms_prev \in Int /\ servo.cur_setpoint \in Int
      /\ coldDelay \in Int /\ cold \in Int /\ cold >= 0
  BY ServoAssumption DEF IInv, TypeOK
<1>5. servo.state # "WAIT_SYNC_IDLE" =>
        ~AdjustInProgress /\ DelayMs = delay /\ TsToPicos(OffsetHw) = offset
  BY <1>2, MeasuredExactly DEF IInv, Measured
<1>6. Near(delay, coldDelay)' /\ Near(delay, coldDelay)
  BY <1>2 DEF IInv, DriftedLittle, Near
<1> HIDE DEF IInv
<1>7. CASE WaitSyncIdle(locked)
  <2>1. /\ UNCHANGED pending /\ (timingOutput' => timingOutput)
        /\ (servo' = servo \/ (~AdjustInProgress /\ servo' = [servo EXCEPT !.state = servo.next_state]))
    BY <1>7 DEF WaitSyncIdle, OutputAsPolled
  <2>2. /\ servo'.next_state = servo.next_state /\ servo'.cur_setpoint = servo.cur_setpoint
        /\ servo'.delta_ms_prev = servo.delta_ms_prev
        /\ (servo'.state = "WAIT_SYNC_IDLE" \/ (~AdjustInProgress /\ servo'.state = servo.next_state))
    BY <2>1, <1>3, <1>7 DEF ServoRecord, WaitSyncIdle
  <2>3. Measured'
    BY <1>2, <2>1, <2>2 DEF Measured, AdjustInProgress
  <2>4. /\ Towards({"WAIT_OFFSET_STABLE", "TRACK_PHASE"})' => Towards({"WAIT_OFFSET_STABLE", "TRACK_PHASE"})
        /\ Towards({"SYNC_NSEC", "SYNC_PHASE", "WAIT_OFFSET_STABLE"})'
              => Towards({"SYNC_NSEC", "SYNC_PHASE", "WAIT_OFFSET_STABLE"})
        /\ Towards({"WAIT_OFFSET_STABLE"})' => Towards({"WAIT_OFFSET_STABLE"})
    BY <2>2, <1>7 DEF Towards, WaitSyncIdle
  <2>5. SetpointKept' /\ OffUntilStable'
    BY <2>1, <2>2, <2>4 DEF IInv, SetpointKept, OffUntilStable
  <2>6. DriftedLittle'
    BY <1>2, <1>6, <2>2, <2>4 DEF IInv, DriftedLittle, Near
  <2>7. ErrorWithinDrift'
    BY <1>2, <2>1, <2>2 DEF IInv, ErrorWithinDrift, Error, Abs
  <2> QED
    BY <2>3, <2>5, <2>6, <2>7 DEF IInv
<1>8. CASE SyncTai(locked)
  <2>1. ~AdjustInProgress /\ ~timingOutput'
    BY <1>5, <1>8 DEF SyncTai
  <2>2. \/ servo'.state = "WAIT_SYNC_IDLE" /\ servo'.next_state = "SYNC_NSEC"
        \/ servo'.state = "SYNC_NSEC" /\ UNCHANGED pending
    BY <1>3, <1>8, WaitThenType DEF SyncTai, ServoRecord, ServoState
  <2>3. Measured'
    BY <1>2, <2>1, <2>2 DEF Measured, AdjustInProgress
  <2>4. SetpointKept' /\ OffUntilStable' /\ DriftedLittle'
    BY <1>6, <2>1, <2>2 DEF SetpointKept, OffUntilStable, DriftedLittle, Towards
  <2> QED
    BY <2>1, <2>3, <2>4 DEF IInv, ErrorWithinDrift
<1>9. CASE SyncNsec(locked)
  <2>1. ~AdjustInProgress /\ ~timingOutput'
    BY <1>5, <1>9 DEF SyncNsec, OutputAsPolled, IInv, OffUntilStable, Towards
  <2>2. \/ servo'.state = "WAIT_SYNC_IDLE" /\ servo'.next_state = "SYNC_NSEC"
        \/ servo'.state = "SYNC_PHASE" /\ UNCHANGED pending
    BY <1>3, <1>9, WaitThenType DEF SyncNsec, ServoRecord, ServoState
  <2>3. Measured'
    BY <1>2, <2>1, <2>2 DEF Measured, AdjustInProgress
  <2>4. SetpointKept' /\ OffUntilStable' /\ DriftedLittle'
    BY <1>6, <2>1, <2>2 DEF SetpointKept, OffUntilStable, DriftedLittle, Towards
  <2> QED
    BY <2>1, <2>3, <2>4 DEF IInv, ErrorWithinDrift
<1>10. CASE SyncPhase(locked)
  <2>1. ~timingOutput'
    BY <1>10 DEF SyncPhase, OutputAsPolled, IInv, OffUntilStable, Towards
  <2>2. PICK setpoint \in Int : setpoint = OffsetHw.phase + OffsetHw.nsec * PsPerNs
    <3>1. OffsetHw.phase \in Int /\ OffsetHw.nsec \in Int
      BY UpdateType DEF IInv, Timestamp
    <3> QED
      BY <3>1, UnitsPositive
  <2>3. PICK waiting \in ServoRecord :
          /\ waiting = WaitThen("WAIT_OFFSET_STABLE")
          /\ waiting.state = "WAIT_SYNC_IDLE" /\ waiting.next_state = "WAIT_OFFSET_STABLE"
    BY <1>3, WaitThenType DEF ServoState
  <2>4. /\ servo' = [waiting EXCEPT !.cur_setpoint = setpoint, !.delta_ms_prev = DelayMs]
        /\ pending' = [pending EXCEPT !.phase = setpoint]
    BY <1>10, <2>2, <2>3 DEF SyncPhase
  <2>5. /\ servo'.state = "WAIT_SYNC_IDLE" /\ servo'.next_state = "WAIT_OFFSET_STABLE"
        /\ servo'.cur_setpoint = setpoint /\ servo'.delta_ms_prev = delay
        /\ pending'.phase = setpoint
    <3>1. DelayMs = delay
      BY <1>5, <1>10 DEF SyncPhase
    <3> QED
      BY <1>3, <2>3, <2>4, <3>1 DEF ServoRecord
  <2>6. DriftedLittle'
    BY <1>2, <1>6, <2>5 DEF DriftedLittle, Near
  <2> QED
    BY <2>1, <2>5, <2>6 DEF IInv, Measured, SetpointKept, OffUntilStable, ErrorWithinDrift
<1>11. CASE WaitOffsetStable(locked)
  <2>1. servo.state = "WAIT_OFFSET_STABLE" /\ UNCHANGED pending
    BY <1>11 DEF WaitOffsetStable
  <2>2. ~AdjustInProgress /\ ~timingOutput /\ servo.cur_setpoint = pending.phase
          /\ Near(servo.delta_ms_prev, coldDelay)
    BY <1>5, <2>1 DEF IInv, OffUntilStable, SetpointKept, DriftedLittle, Towards
  <2>3. timingOutput' => Stable
    BY <1>11, <2>2 DEF WaitOffsetStable
  <2>4. /\ servo'.cur_setpoint = servo.cur_setpoint /\ servo'.delta_ms_prev = servo.delta_ms_prev
        /\ servo'.state \in {"SYNC_TAI", "TRACK_PHASE", "WAIT_OFFSET_STABLE"}
        /\ (Stable => servo'.state # "WAIT_OFFSET_STABLE")
    BY <1>3, <1>11, <2>1 DEF WaitOffsetStable, ServoRecord
  <2>5. Measured'
    BY <1>2, <2>1, <2>2 DEF Measured, AdjustInProgress
  <2>6. SetpointKept' /\ OffUntilStable'
    BY <2>1, <2>2, <2>3, <2>4 DEF SetpointKept, OffUntilStable, Towards
  <2>7. DriftedLittle'
    BY <1>2, <1>6, <2>2, <2>4 DEF DriftedLittle, Near
  <2>8. ASSUME Stable PROVE Abs(Error') < Threshold + 2 * cold
    <3>1. Abs(offset) < Threshold
      BY <1>5, <2>1, <2>8 DEF Stable
    <3>2. Error' = offset - (delay - servo.delta_ms_prev)
      BY <1>2, <1>4, <2>1, <2>2, <2>4 DEF Error, AdjustInProgress
    <3>3. PICK drift \in Int : drift = delay - servo.delta_ms_prev /\ drift <= 2 * cold /\ -drift <= 2 * cold
      BY <1>4, <1>6, <2>2 DEF Near
    <3> QED
      BY <1>4, <3>1, <3>2, <3>3, ServoAssumption DEF Abs
  <2>9. ErrorWithinDrift'
    BY <1>2, <2>3, <2>8 DEF ErrorWithinDrift, Abs
  <2> QED
    BY <2>5, <2>6, <2>7, <2>9 DEF IInv
<1>12. CASE TrackPhase(locked)
  <2>1. servo.state = "TRACK_PHASE" /\ (timingOutput' => timingOutput)
    BY <1>12 DEF TrackPhase, OutputAsPolled
  <2>2. ~AdjustInProgress /\ servo.cur_setpoint = pending.phase /\ DelayMs = delay
    BY <1>5, <2>1 DEF IInv, SetpointKept, Towards
  <2>3. CASE tracking_enabled
    <3>1. PICK setpoint \in Int : setpoint = servo.cur_setpoint + DelayMs - servo.delta_ms_prev
      BY <1>4, <2>2
    <3>2. PICK waiting \in ServoRecord :
            /\ waiting = WaitThen("TRACK_PHASE")
            /\ waiting.state = "WAIT_SYNC_IDLE" /\ waiting.next_state = "TRACK_PHASE"
      BY <1>3, WaitThenType DEF ServoState
    <3>3. /\ servo' = [waiting EXCEPT !.cur_setpoint = setpoint, !.delta_ms_prev = DelayMs]
          /\ pending' = [pending EXCEPT !.phase = setpoint]
      BY <1>12, <2>3, <3>1, <3>2 DEF TrackPhase
    <3>4. /\ servo'.state = "WAIT_SYNC_IDLE" /\ servo'.next_state = "TRACK_PHASE"
          /\ servo'.cur_setpoint = setpoint /\ servo'.delta_ms_prev = delay
          /\ pending'.phase = setpoint
      BY <1>3, <2>2, <3>2, <3>3 DEF ServoRecord
    <3>5. Error' = Error
      BY <1>2, <1>4, <2>2, <3>1, <3>4 DEF Error
    <3>6. ErrorWithinDrift'
      BY <1>2, <2>1, <3>5 DEF IInv, ErrorWithinDrift, Abs
    <3> QED
      BY <1>6, <3>4, <3>6 DEF IInv, Measured, SetpointKept, OffUntilStable, DriftedLittle, Towards
  <2>4. CASE ~tracking_enabled
    <3>1. UNCHANGED pending /\ servo' = [servo EXCEPT !.state = IF CountersRight THEN servo.state ELSE "SYNC_TAI"]
      BY <1>12, <2>4 DEF TrackPhase
    <3>2. /\ servo'.cur_setpoint = servo.cur_setpoint /\ servo'.delta_ms_prev = servo.delta_ms_prev
          /\ servo'.state \in {"SYNC_TAI", "TRACK_PHASE"}
      BY <1>3, <2>1, <3>1 DEF ServoRecord
    <3>3. Measured'
      BY <1>2, <2>2, <3>1 DEF Measured, AdjustInProgress
    <3>4. SetpointKept' /\ OffUntilStable' /\ DriftedLittle'
      BY <1>6, <2>2, <3>1, <3>2 DEF SetpointKept, OffUntilStable, DriftedLittle, Towards
    <3>5. ErrorWithinDrift'
      BY <1>2, <2>1, <3>1, <3>2 DEF IInv, ErrorWithinDrift, Error, Abs
    <3> QED
      BY <3>3, <3>4, <3>5 DEF IInv
  <2> QED
    BY <2>3, <2>4
<1> QED
  BY <1>1, <1>7, <1>8, <1>9, <1>10, <1>11, <1>12

\* Every step keeps the invariant.
LEMMA InvariantStep ==
  ASSUME IInv, OutputOffForCounters, [Next]_vars
  PROVE  IInv'
<1>1. TypeOK'
  BY TypeStep DEF IInv
<1>2. CASE CountersDone \/ ShifterDone
  BY <1>1, <1>2, AdjustmentStep
<1>3. CASE Drift
  BY <1>1, <1>3, DriftStep
<1>4. CASE EnableTracking
  BY <1>1, <1>4 DEF EnableTracking, hardware, fibre, IInv, Measured, AdjustInProgress, SetpointKept,
                    OffUntilStable, DriftedLittle, Near, ErrorWithinDrift, Error, Abs, Towards
<1>5. CASE GotSync \/ DelayReqSent
  BY <1>1, <1>5, ExchangeStep
<1>6. CASE Update
  BY <1>1, <1>6, UpdateKeeps
<1>7. CASE Restart
  BY <1>1, <1>7, RestartStep
<1>8. CASE UNCHANGED vars
  BY <1>1, <1>8 DEF vars, hardware, fibre, IInv, Measured, AdjustInProgress, SetpointKept,
                    OffUntilStable, DriftedLittle, Near, ErrorWithinDrift, Error, Abs, Towards
<1> QED
  BY <1>2, <1>3, <1>4, <1>5, <1>6, <1>7, <1>8 DEF Next

\* While the timing output is on, the error of the clock of wr_servo.c, once what is
\* commanded is done and the change of the delay is followed, is below the threshold
\* but for twice the drift that went unseen with the output off: it does not add up,
\* however often the tracking is switched off and on and the lock is lost.
THEOREM ErrorIsWithinDrift == Spec => []ErrorWithinDrift
<1>1. Init => IInv
  <2> SUFFICES ASSUME Init PROVE IInv
    OBVIOUS
  <2>1. TypeOK
    BY TypeInit
  <2>2. servo.state = "SYNC_TAI" /\ ~timingOutput /\ stage = "idle" /\ ~AdjustInProgress
    BY DEF Init, ServoInit, AdjustInProgress
  <2>3. Near(delay, coldDelay)
    BY ServoAssumption DEF Init, Near
  <2> QED
    BY <2>1, <2>2, <2>3 DEF IInv, Measured, SetpointKept, OffUntilStable, DriftedLittle, ErrorWithinDrift, Towards
<1>2. Init => OutputOffForCounters
  BY DEF Init, OutputOffForCounters
<1>3. IInv /\ OutputOffForCounters /\ [Next]_vars => OutputOffForCounters'
  BY OutputStep DEF IInv
<1>4. IInv /\ OutputOffForCounters /\ [Next]_vars => IInv'
  BY InvariantStep
<1>5. IInv => ErrorWithinDrift
  BY DEF IInv
<1> QED
  BY <1>1, <1>2, <1>3, <1>4, <1>5, PTL DEF Spec

\* With a fibre that does not drift while the output is off, the error is below the
\* threshold itself (wr_servo.c, WR_TRACK_PHASE).
THEOREM ErrorIsBounded == Spec => [](cold = 0 => ErrorBound)
<1>1. TypeOK /\ ErrorWithinDrift => (cold = 0 => ErrorBound)
  <2> SUFFICES ASSUME TypeOK, ErrorWithinDrift, cold = 0 PROVE ErrorBound
    OBVIOUS
  <2>1. Threshold + 2 * cold = Threshold
    BY ServoAssumption
  <2> QED
    BY <2>1 DEF ErrorWithinDrift, ErrorBound, Error
<1> QED
  BY <1>1, ErrorIsWithinDrift, TypeCorrect, PTL

=============================================================================
