----------------------------- MODULE ServoDelay -----------------------------
(***************************************************************************)
(* What wr_servo_update() makes of four timestamps, the fixed delays of    *)
(* both ports and the asymmetry of the fibre (PTPWRd/dep/wr_servo.c), and  *)
(* what the way through messages makes of t4 and of the fixed delays.      *)
(***************************************************************************)
EXTENDS ServoTime

CONSTANTS
  CfPerNs,   \* units of a correction field in a nanosecond (2^16)
  HalfWord,  \* the scale of the fixed delays in a message (2^16)
  AlphaOne,  \* the scale of fiber_fix_alpha (2^40)
  Word       \* the unsigned numbers are counted modulo Word (2^64)

ASSUME ScaleAssumption ==
  /\ CfPerNs \in Nat \ {0} /\ HalfWord \in Nat \ {0}
  /\ AlphaOne \in Nat \ {0} /\ Word \in Nat \ {0}

\* phase_to_cf_units() of the master: the phase of t4 travels in the correction
\* field of the Delay_Resp, from which wr_servo_got_delay() takes it.
PhaseToCf(phase) == CDiv(phase * CfPerNs, PsPerNs)
CfToPhase(cf)    == CDiv(cf * PsPerNs, CfPerNs)

\* A fixed delay, in the two halves of scaledPicoseconds and out of them.
ScaledPicoseconds(delta) ==
  [msb |-> delta \div HalfWord, lsb |-> (delta % HalfWord) * HalfWord]
FixedDelay(scaled) == (scaled.lsb \div HalfWord) + scaled.msb * HalfWord

\* mu: the round trip.
RoundTrip(t1, t2, t3, t4) == TsSub(TsSub(t4, t1), TsSub(t3, t2))

\* An unsigned number taken for a signed one.
Signed(n) == IF 2 * n < Word THEN n ELSE n - Word

\* Mutant: the delays of the other direction.
DelayFixOtherWay(mu, delta, alpha) ==
  LET fibre == (TsToPicos(mu) - delta.tx_m - delta.rx_m - delta.tx_s - delta.rx_s) % Word
  IN  (Signed(fibre) * alpha) \div AlphaOne + fibre \div 2 + delta.tx_s + delta.rx_m

\* delay_ms_fix: the shifts to the right round down, that of the half is one of
\* an unsigned number.
DelayFix(mu, delta, alpha) ==
  LET fibre == (TsToPicos(mu) - delta.tx_m - delta.rx_m - delta.tx_s - delta.rx_s) % Word
  IN  (Signed(fibre) * alpha) \div AlphaOne + fibre \div 2 + delta.tx_m + delta.rx_s

=============================================================================
