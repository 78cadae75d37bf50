--------------------------- MODULE ServoExchange ----------------------------
(***************************************************************************)
(* The offset calculation of wr_servo_update() against integers, for every *)
(* exchange of a Sync and a Delay_Req over every link within bounds: from  *)
(* the counters that the hardware sampled, to the split of the offset into *)
(* the part that the counters correct and the part of the phase shifter.   *)
(***************************************************************************)
EXTENDS ServoDelay

CONSTANTS
  MaxSec,       \* bound: seconds of t1 and t2
  FixedDelays,  \* bound: the fixed delays, each a record of four
  Fibres,       \* bound: the delays of the fibre, there and back
  Alphas,       \* bound: its asymmetries
  Turnarounds   \* bound: the cycles from a Sync to the Delay_Req

ASSUME ExchangeAssumption ==
  /\ MaxSec \in Nat /\ Turnarounds \subseteq Nat
  /\ FixedDelays \subseteq [tx_m : Nat, rx_m : Nat, tx_s : Nat, rx_s : Nat]

\* What a link can be: half of Word counts the round trip through the fibre, and
\* the way to the slave takes a quarter to three quarters of it.
ASSUME LinkAssumption ==
  /\ \A fibre \in Fibres : fibre \in Nat /\ fibre >= 3 /\ 2 * fibre < Word
  /\ \A alpha \in Alphas : alpha \in Int /\ -AlphaOne <= 4 * alpha /\ 4 * alpha <= AlphaOne

\* A quarter of the period is a unit of phase at least, a second is longer than
\* a period, and a correction field finer than a phase.
ASSUME ResolutionAssumption ==
  ClockPeriod >= 4 /\ NsPerSec > CycleNs /\ CfPerNs >= PsPerNs

VARIABLES
  t1,                \* preciseOriginTimestamp of the Follow_Up: no phase
  cycle, point,      \* when the Sync arrives: clock cycle, point within it
  rising,            \* the counter of rising edges, as it was sampled
  transition_point,  \* phase_transition of the sockets
  link,              \* fixed delays, fibre and asymmetry
  turnaround

vars == <<t1, cycle, point, rising, transition_point, link, turnaround>>

CyclesPerSec == NsPerSec \div CycleNs

\* The counter of falling edges is half a period late. That of the rising
\* edges may be sampled too late or too early near its own transition.
Falling(c, p) == IF 2 * p < ClockPeriod THEN c - 1 ELSE c
Samples(c, p) == {c} \cup (IF 4 * p < ClockPeriod THEN {c - 1} ELSE {})
                     \cup (IF 4 * p > 3 * ClockPeriod THEN {c + 1} ELSE {})

\* The phase detector measures from the transition point, backwards.
DmtdPhase(p) == (p - transition_point - 1) % ClockPeriod

\* The timestamp of what arrives at point p of cycle c, by a counter that was
\* sampled as r.
Received(c, p, r) ==
  LET lin == Linearise((r % CyclesPerSec) * CycleNs, r > Falling(c, p),
                       DmtdPhase(p), transition_point)
  IN  [sec |-> r \div CyclesPerSec, nsec |-> lin.nsec, phase |-> lin.phase]

Arrival ==
  /\ cycle' \in 1 .. CyclesPerSec * (MaxSec + 1)
  /\ point' \in 0 .. ClockPeriod - 1
  /\ rising' \in Samples(cycle', point')

Init ==
  /\ t1 \in [sec : 0 .. MaxSec, nsec : 0 .. NsPerSec - 1, phase : {0}]
  /\ cycle = 1 /\ point = 0 /\ rising \in Samples(1, 0)
  /\ transition_point \in 0 .. ClockPeriod - 1
  /\ link \in [delta : FixedDelays, fibre : Fibres, alpha : Alphas]
  /\ turnaround \in Turnarounds

Next == Arrival /\ UNCHANGED <<t1, transition_point, link, turnaround>>

Spec == Init /\ [][Next]_vars

\* The delays of the link: the fibre delays a Sync by half of the round trip and
\* what is meant by its asymmetry, and a Delay_Req by the rest.
ThroughFibre  == link.fibre \div 2 + (link.fibre * link.alpha) \div AlphaOne
SyncDelay     == link.delta.tx_m + ThroughFibre + link.delta.rx_s
DelayReqDelay == link.delta.tx_s + (link.fibre - ThroughFibre) + link.delta.rx_m

\* What the slave's clock lacks, from the moment the Sync arrived.
SyncArrival == cycle * ClockPeriod + point
Error == TsToPicos(t1) + SyncDelay - SyncArrival

\* The four timestamps: frames leave at the beginning of a cycle.
t2 == Received(cycle, point, rising)
t3 == [sec   |-> (cycle + turnaround) \div CyclesPerSec,
       nsec  |-> ((cycle + turnaround) % CyclesPerSec) * CycleNs,
       phase |-> 0]
t4 ==
  LET time == (cycle + turnaround) * ClockPeriod + Error + DelayReqDelay
      c == time \div ClockPeriod
  IN  [Received(c, time % ClockPeriod, c) EXCEPT !.phase = CfToPhase(PhaseToCf(@))]

\* The fixed delays as they reach the servo.
delta == [d \in DOMAIN link.delta |-> FixedDelay(ScaledPicoseconds(link.delta[d]))]

delay_ms     == DelayFix(RoundTrip(t1, t2, t3, t4), delta, link.alpha)
ts_offset    == TsAdd(TsSub(t1, t2), PicosToTs(delay_ms))
ts_offset_hw == TsHardwarize(ts_offset)

-----------------------------------------------------------------------------
\* The linearised timestamp is the moment of arrival, whichever value the
\* counter was sampled at and wherever its transition is.
ArrivalExact == TsToPicos(t2) = SyncArrival

\* The delay of a Sync is what the servo takes it for, or up to two units more
\* (the phase of t4 is rounded down in the correction field, and so are both
\* shifts), whatever the fixed delays and the asymmetry are, and although no
\* clock was right. Where the fibre has no half, half of it is rounded as well.
DelayMeasured ==
  SyncDelay - delay_ms \in IF link.fibre % 2 = 0 THEN 0 .. 2 ELSE -1 .. 1

\* The calculation with seconds, nanoseconds and phases is exact, and its
\* result normalised, whatever is borrowed and carried on the way: a
\* linearised timestamp may have a negative nsec, or a phase of several ns.
OffsetExact ==
  TsToPicos(ts_offset) = Error - SyncDelay + delay_ms /\ Normalised(ts_offset)

\* ts_hardwarize() splits the offset into what the counters of whole clock
\* cycles correct and what the phase shifter corrects, without losing any of
\* it: the servo goes on to the phase exactly when it is the phase alone that
\* is wrong, by up to a cycle in either direction.
SplitExact ==
  /\ TsToPicos(ts_offset_hw) = TsToPicos(ts_offset)
  /\ ts_offset_hw.nsec % CycleNs = 0
  /\ ts_offset_hw.phase \in -ClockPeriod .. ClockPeriod - 1
  /\ (ts_offset_hw.sec = 0 /\ ts_offset_hw.nsec = 0)
       <=> TsToPicos(ts_offset) \in -ClockPeriod .. ClockPeriod - 1

=============================================================================
