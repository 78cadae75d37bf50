----------------------------- MODULE ServoTime ------------------------------
(***************************************************************************)
(* The timestamp arithmetic of PTPWRd/dep/wr_servo.c: ts_add(), ts_sub(),  *)
(* picos_to_ts() and ts_hardwarize(), and the linearisation of a receive   *)
(* timestamp in libposix/net.c.                                            *)
(***************************************************************************)
EXTENDS Integers

CONSTANTS
  PsPerNs,     \* units of a timestamp's phase in its nsec (1000)
  NsPerSec,    \* units of a timestamp's nsec in its sec (10^9)
  ClockPeriod  \* clock_period_ps: the period of the reference clock (8000)

ASSUME UnitsAssumption ==
  /\ PsPerNs \in Nat \ {0} /\ NsPerSec \in Nat \ {0} /\ ClockPeriod \in Nat \ {0}

\* A clock period is a whole number of nanoseconds, and a second a whole
\* number of periods.
ASSUME PeriodAssumption ==
  /\ ClockPeriod % PsPerNs = 0
  /\ NsPerSec % (ClockPeriod \div PsPerNs) = 0

Timestamp == [sec : Int, nsec : Int, phase : Int]
Normalised(ts) == ts.nsec \in 0 .. NsPerSec - 1 /\ ts.phase \in 0 .. PsPerNs - 1

\* ts_to_picos().
TsToPicos(ts) == (ts.sec * NsPerSec + ts.nsec) * PsPerNs + ts.phase

\* The operators / and % of C: they truncate towards zero.
CRem(a, b) == IF a >= 0 THEN a % b ELSE -((-a) % b)
CDiv(a, b) == IF a >= 0 THEN a \div b ELSE -((-a) \div b)

\* picos_to_ts().
PicosToTs(picos) ==
  LET nanos == CDiv(picos - CRem(picos, PsPerNs), PsPerNs)
  IN  [sec   |-> CDiv(nanos - CRem(nanos, NsPerSec), NsPerSec),
       nsec  |-> CRem(nanos, NsPerSec),
       phase |-> CRem(picos, PsPerNs)]

\* The loops of ts_add() carry what is too large, those of ts_sub() borrow for
\* what is negative; neither does the other.
Carry(x, unit)  == IF x >= unit THEN x \div unit ELSE 0
Borrow(x, unit) == IF x < 0 THEN -(x \div unit) ELSE 0

\* Mutant: the carry out of the nanoseconds is dropped.
TsAddNoCarry(a, b) ==
  LET phase == a.phase + b.phase
      nsec  == a.nsec + b.nsec + Carry(phase, PsPerNs)
  IN  [sec |-> a.sec + b.sec, nsec |-> nsec - Carry(nsec, NsPerSec) * NsPerSec,
       phase |-> phase - Carry(phase, PsPerNs) * PsPerNs]

TsAdd(a, b) ==
  LET phase == a.phase + b.phase
      nsec  == a.nsec + b.nsec + Carry(phase, PsPerNs)
  IN  [sec   |-> a.sec + b.sec + Carry(nsec, NsPerSec),
       nsec  |-> nsec - Carry(nsec, NsPerSec) * NsPerSec,
       phase |-> phase - Carry(phase, PsPerNs) * PsPerNs]

TsSub(a, b) ==
  LET phase == a.phase - b.phase
      nsec  == a.nsec - b.nsec - Borrow(phase, PsPerNs)
  IN  [sec   |-> a.sec - b.sec - Borrow(nsec, NsPerSec),
       nsec  |-> nsec + Borrow(nsec, NsPerSec) * NsPerSec,
       phase |-> phase + Borrow(phase, PsPerNs) * PsPerNs]

\* q_threshold: the clock period in nanoseconds, rounded up.
CycleNs == (ClockPeriod + PsPerNs - 1) \div PsPerNs

\* The four steps of ts_hardwarize().
WholeCycles(ts) ==
  IF ts.nsec > 0
  THEN [ts EXCEPT !.nsec = @ - (@ % CycleNs), !.phase = @ + (ts.nsec % CycleNs) * PsPerNs]
  ELSE ts

NsecNotNegative(ts) ==
  IF ts.nsec < 0 THEN [ts EXCEPT !.nsec = @ + NsPerSec, !.sec = @ - 1] ELSE ts

LastSecondNegative(ts) ==
  IF ts.sec = -1 /\ ts.nsec > 0 THEN [ts EXCEPT !.nsec = @ - NsPerSec, !.sec = @ + 1] ELSE ts

LastCycleInPhase(ts) ==
  IF ts.sec = 0 /\ ts.nsec < 0 /\ ts.nsec >= -CycleNs
  THEN [ts EXCEPT !.nsec = @ + CycleNs, !.phase = @ - CycleNs * PsPerNs] ELSE ts

\* Mutant: an offset of less than a cycle is not left to the phase shifter
\* when it is negative.
TsHardwarizePositive(ts) == LastSecondNegative(NsecNotNegative(WholeCycles(ts)))

\* ts_hardwarize().
TsHardwarize(ts) ==
  LastCycleInPhase(LastSecondNegative(NsecNotNegative(WholeCycles(ts))))

\* inside_range(): lo and hi are taken on the circle of a clock period.
InsideRange(lo, hi, x) == IF lo < hi THEN lo <= x /\ x <= hi ELSE x <= hi \/ lo <= x

\* Mutant: the counter of falling edges is taken whatever the phase is.
LineariseFalling(nsec, ahead, dmtd_phase, transition_point) ==
  [nsec  |-> nsec - (IF ahead THEN CycleNs ELSE 0),
   phase |-> (dmtd_phase + transition_point + 1) % ClockPeriod]

\* ptpd_netif_linearize_rx_timestamp(): nsec is the counter of the rising
\* edges, ahead tells that it is a tick ahead of that of the falling edges.
Linearise(nsec, ahead, dmtd_phase, transition_point) ==
  LET phase     == ClockPeriod - 1 - dmtd_phase
      trip_lo   == (transition_point - ClockPeriod \div 4) % ClockPeriod
      trip_hi   == (transition_point + ClockPeriod \div 4) % ClockPeriod
      unstable  == InsideRange(trip_lo, trip_hi, phase)
      advance   == unstable /\ InsideRange(trip_lo, transition_point, phase)
  IN  [nsec  |-> nsec - (IF unstable /\ ahead THEN CycleNs ELSE 0)
                      + (IF advance THEN CycleNs ELSE 0),
       phase |-> ClockPeriod - 1 - ((phase - transition_point - 1) % ClockPeriod)]

=============================================================================
