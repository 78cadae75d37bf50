------------------------ MODULE ServoExchangeProofs -------------------------
(***************************************************************************)
(* Theorems about ServoExchange, for all units, links and turnarounds: the *)
(* linearised timestamp of an arrival is exact, the delay is measured but  *)
(* for what is rounded, and the offset and its split lose nothing.         *)
(***************************************************************************)
EXTENDS ServoExchange, ServoArithmetic

-----------------------------------------------------------------------------
(* The timestamp of an arrival.                                            *)

\* What is less than a period away from the range of a remainder.
LEMMA RestNear ==
  ASSUME NEW m \in Nat \ {0}, NEW a \in Int, -m <= a, a < m + m
  PROVE  a % m = IF a < 0 THEN a + m ELSE IF a < m THEN a ELSE a - m
<1>1. CASE a < 0
  <2>1. PICK r \in 0 .. m - 1 : r = a + m
    BY <1>1
  <2>2. PICK k \in Int : k = -1
    OBVIOUS
  <2>3. a = m * k + r
    BY <2>1, <2>2
  <2>4. a % m = r
    BY <2>3, QuotientUnique
  <2> QED
    BY <1>1, <2>1, <2>4
<1>2. CASE a >= 0 /\ a < m
  <2>1. PICK r \in 0 .. m - 1 : r = a
    BY <1>2
  <2>2. PICK k \in Int : k = 0
    OBVIOUS
  <2>3. a = m * k + r
    BY <2>1, <2>2
  <2>4. a % m = r
    BY <2>3, QuotientUnique
  <2> QED
    BY <1>2, <2>1, <2>4
<1>3. CASE a >= m
  <2>1. PICK r \in 0 .. m - 1 : r = a - m
    BY <1>3
  <2>2. PICK k \in Int : k = 1
    OBVIOUS
  <2>3. a = m * k + r
    BY <2>1, <2>2
  <2>4. a % m = r
    BY <2>3, QuotientUnique
  <2> QED
    BY <1>3, <2>1, <2>4
<1> QED
  BY <1>1, <1>2, <1>3

\* ptpd_netif_linearize_rx_timestamp() finds out where in the cycle the frame arrived, and on
\* which side of the transition of its counter.
LEMMA LineariseFinds ==
  ASSUME NEW nsec \in Int, NEW ahead \in BOOLEAN, NEW p \in 0 .. ClockPeriod - 1,
         transition_point \in 0 .. ClockPeriod - 1
  PROVE  LET lin == Linearise(nsec, ahead, DmtdPhase(p), transition_point)
             q   == ClockPeriod \div 4
         IN  /\ lin.phase = p
             /\ p <= q => lin.nsec = nsec - (IF ahead THEN CycleNs ELSE 0) + CycleNs
             /\ p >= ClockPeriod - q => lin.nsec = nsec - (IF ahead THEN CycleNs ELSE 0)
             /\ p > q /\ p < ClockPeriod - q => lin.nsec = nsec
<1> DEFINE lin == Linearise(nsec, ahead, DmtdPhase(p), transition_point)
<1>1. PICK D \in Nat \ {0} : D = ClockPeriod /\ D >= 4
  BY UnitsAssumption, ResolutionAssumption
<1>2. PICK tp \in Int : tp = transition_point /\ tp >= 0 /\ tp <= D - 1
  BY <1>1
<1>3. p \in Int /\ p >= 0 /\ p <= D - 1
  BY <1>1
<1>4. PICK q \in Int : q = D \div 4 /\ 4 * q <= D /\ D <= 4 * q + 3
  BY <1>1
<1>5. q >= 1
  BY <1>1, <1>4
<1>6. PICK phase \in Int : /\ phase = D - 1 - DmtdPhase(p)
                           /\ phase = IF p <= tp THEN tp - p ELSE tp - p + D
  <2>1. PICK x \in Int : x = p - tp - 1 /\ x >= -D /\ x < D + D
    BY <1>1, <1>2, <1>3
  <2>2. x % D = IF x < 0 THEN x + D ELSE IF x < D THEN x ELSE x - D
    BY <1>1, <2>1, RestNear
  <2>3. DmtdPhase(p) = x % D
    BY <1>1, <1>2, <2>1 DEF DmtdPhase
  <2> QED
    BY <1>1, <1>2, <1>3, <2>1, <2>2, <2>3
<1>7. PICK lo \in Int : /\ lo = (tp - q) % D
                        /\ lo = IF tp >= q THEN tp - q ELSE tp - q + D
  <2>1. PICK x \in Int : x = tp - q /\ x >= -D /\ x < D + D
    BY <1>1, <1>2, <1>4, <1>5
  <2>2. x % D = IF x < 0 THEN x + D ELSE IF x < D THEN x ELSE x - D
    BY <1>1, <2>1, RestNear
  <2> QED
    BY <1>1, <1>2, <1>5, <2>1, <2>2
<1>8. PICK hi \in Int : /\ hi = (tp + q) % D
                        /\ hi = IF tp + q < D THEN tp + q ELSE tp + q - D
  <2>1. PICK x \in Int : x = tp + q /\ x >= -D /\ x < D + D
    BY <1>1, <1>2, <1>4, <1>5
  <2>2. x % D = IF x < 0 THEN x + D ELSE IF x < D THEN x ELSE x - D
    BY <1>1, <2>1, RestNear
  <2> QED
    BY <1>1, <1>2, <1>5, <2>1, <2>2
<1>9. InsideRange(lo, hi, phase) <=> (p <= q \/ p >= D - q)
  BY <1>1, <1>2, <1>3, <1>4, <1>5, <1>6, <1>7, <1>8 DEF InsideRange
<1>10. InsideRange(lo, tp, phase) <=> p <= q
  BY <1>1, <1>2, <1>3, <1>4, <1>5, <1>6, <1>7 DEF InsideRange
<1>11. D - 1 - ((phase - tp - 1) % D) = p
  <2>1. PICK x \in Int : x = phase - tp - 1 /\ x >= -D /\ x < D + D
    BY <1>1, <1>2, <1>3, <1>6
  <2>2. x % D = IF x < 0 THEN x + D ELSE IF x < D THEN x ELSE x - D
    BY <1>1, <2>1, RestNear
  <2>3. x = -p - 1 \/ x = D - p - 1
    BY <1>1, <1>2, <1>3, <1>6, <2>1
  <2>4. x % D = D - p - 1
    BY <1>1, <1>3, <2>1, <2>2, <2>3
  <2> QED
    BY <1>1, <1>3, <2>1, <2>4
<1>12. lin.phase = D - 1 - ((phase - tp - 1) % D)
  BY <1>1, <1>2, <1>6 DEF Linearise
<1>13. lin.nsec = nsec - (IF InsideRange(lo, hi, phase) /\ ahead THEN CycleNs ELSE 0)
                       + (IF InsideRange(lo, hi, phase) /\ InsideRange(lo, tp, phase) THEN CycleNs ELSE 0)
  BY <1>1, <1>2, <1>4, <1>6, <1>7, <1>8 DEF Linearise
<1>14. lin.nsec = nsec - (IF (p <= q \/ p >= D - q) /\ ahead THEN CycleNs ELSE 0)
                       + (IF p <= q THEN CycleNs ELSE 0)
  BY <1>9, <1>10, <1>13
<1>15. CycleNs \in Int
  BY CycleNsType
<1>16. p <= q => p < D - q
  BY <1>1, <1>3, <1>4
<1> QED
  BY <1>1, <1>3, <1>4, <1>11, <1>12, <1>14, <1>15, <1>16

\* A number of cycles, as seconds and nanoseconds.
LEMMA CyclesExact ==
  ASSUME NEW c \in Int
  PROVE  /\ c \div CyclesPerSec \in Int /\ (c % CyclesPerSec) * CycleNs \in Int
         /\ \A p \in Int : Picos(c \div CyclesPerSec, (c % CyclesPerSec) * CycleNs, p)
                             = c * ClockPeriod + p
<1> DEFINE C == CycleNs
           N == NsPerSec
           P == PsPerNs
           D == ClockPeriod
<1>0. C \in Nat \ {0} /\ N \in Nat \ {0} /\ P \in Nat \ {0} /\ D \in Nat \ {0}
  BY UnitsAssumption, CycleNsType
<1>1. C * P = D
  BY WholeNumbers
<1>2. PICK j \in Int : N = C * j
  BY WholeNumbers
<1>3. CyclesPerSec = N \div C
  BY DEF CyclesPerSec
<1> HIDE DEF C, N, P, D
<1>4. CyclesPerSec = j
  <2>1. (C * j) \div C = j
    BY <1>0, MultipleDivides
  <2> QED
    BY <1>2, <1>3, <2>1
<1>5. j \in Nat \ {0}
  <2>1. ~(j <= 0)
    <3>1. PICK d \in Int : d = -j
      OBVIOUS
    <3>2. d >= 0 => C * d >= 0
      BY <1>0
    <3>3. C * j = -(C * d)
      BY <1>0, <3>1
    <3> QED
      BY <1>0, <1>2, <3>1, <3>2, <3>3
  <2> QED
    BY <2>1
<1>6. PICK s \in Int : s = c \div j /\ j * s + (c % j) = c /\ c % j \in 0 .. j - 1
  BY <1>5, Division
<1>7. PICK r \in Int : r = c % j /\ j * s + r = c
  BY <1>5, <1>6
<1>8. s * N + r * C = C * c
  <2>1. s * (C * j) = C * (j * s)
    BY <1>0
  <2>2. C * (j * s + r) = C * (j * s) + r * C
    BY <1>0
  <2> QED
    BY <1>2, <1>7, <2>1, <2>2
<1>9. (C * c) * P = c * (C * P)
  BY <1>0
<1>10. r * C \in Int
  BY <1>0
<1>11. ASSUME NEW p \in Int PROVE Picos(s, r * C, p) = c * D + p
  BY <1>1, <1>8, <1>9 DEF Picos, N, P
<1> QED
  BY <1>4, <1>6, <1>7, <1>10, <1>11 DEF C, D

\* Cycles more or less, in nanoseconds.
LEMMA CyclesMore ==
  ASSUME NEW s \in Int, NEW n \in Int, NEW p \in Int, NEW k \in Int,
         NEW to \in Int, to = n + k * CycleNs
  PROVE  Picos(s, to, p) = Picos(s, n, p) + k * ClockPeriod
<1> DEFINE C == CycleNs
           N == NsPerSec
           P == PsPerNs
           D == ClockPeriod
<1>0. C \in Int /\ N \in Int /\ P \in Int /\ D \in Int
  BY UnitsPositive, CycleNsType
<1>1. C * P = D
  BY WholeNumbers
<1> HIDE DEF C, N, P, D
<1>2. PICK a \in Int : a = s * N + n
  BY <1>0
<1>3. PICK b \in Int : b = k * C
  BY <1>0
<1>4. s * N + to = a + b
  <2>1. to = n + b
    BY <1>3 DEF C
  <2>2. s * N \in Int
    BY <1>0
  <2> QED
    BY <1>2, <2>1, <2>2
<1>5. (a + b) * P = a * P + b * P /\ a * P \in Int /\ b * P \in Int
  BY <1>0, Distributes
<1>6. b * P = k * D
  <2>1. (k * C) * P = k * (C * P)
    BY <1>0
  <2> QED
    BY <1>1, <1>3, <2>1
<1>7. Picos(s, to, p) = (a + b) * P + p
  BY <1>4 DEF Picos, N, P
<1>8. Picos(s, n, p) = a * P + p
  BY <1>2 DEF Picos, N, P
<1> QED
  BY <1>5, <1>6, <1>7, <1>8 DEF D

\* The timestamp of what arrives is the moment of its arrival, whichever value its counter was
\* sampled at.
LEMMA ReceivedExact ==
  ASSUME NEW c \in Int, NEW p \in 0 .. ClockPeriod - 1, NEW r \in Samples(c, p),
         transition_point \in 0 .. ClockPeriod - 1
  PROVE  /\ Received(c, p, r) \in Timestamp
         /\ Received(c, p, r).phase = p
         /\ TsToPicos(Received(c, p, r)) = c * ClockPeriod + p
<1>1. PICK D \in Nat \ {0} : D = ClockPeriod /\ D >= 4
  BY UnitsAssumption, ResolutionAssumption
<1>2. p \in Int /\ p >= 0 /\ p <= D - 1
  BY <1>1
<1>3. PICK q \in Int : q = D \div 4 /\ 4 * q <= D /\ D <= 4 * q + 3
  BY <1>1
<1>4. r \in Int /\ (r = c \/ (r = c - 1 /\ 4 * p < D) \/ (r = c + 1 /\ 4 * p > 3 * D))
  BY <1>1, <1>2 DEF Samples
<1>5. PICK s \in Int : s = r \div CyclesPerSec
  BY <1>4, CyclesExact
<1>6. PICK n \in Int : n = (r % CyclesPerSec) * CycleNs
  BY <1>4, CyclesExact
<1>7. Picos(s, n, p) = r * D + p
  BY <1>1, <1>2, <1>4, <1>5, <1>6, CyclesExact
<1>8. PICK ahead \in BOOLEAN : ahead = (r > Falling(c, p))
  <2>1. (r > Falling(c, p)) \in BOOLEAN
    OBVIOUS
  <2> QED
    BY <2>1, Zenon
<1>9. ahead <=> r > (IF 2 * p < D THEN c - 1 ELSE c)
  BY <1>1, <1>8 DEF Falling
<1>10. PICK lin : lin = Linearise(n, ahead, DmtdPhase(p), transition_point)
  OBVIOUS
<1>11. /\ lin.phase = p
       /\ p <= q => lin.nsec = n - (IF ahead THEN CycleNs ELSE 0) + CycleNs
       /\ p >= D - q => lin.nsec = n - (IF ahead THEN CycleNs ELSE 0)
       /\ p > q /\ p < D - q => lin.nsec = n
  BY <1>1, <1>2, <1>3, <1>10, LineariseFinds
<1>12. PICK C \in Int : C = CycleNs
  BY CycleNsType
<1>13. PICK k \in Int : k = c - r
  BY <1>4
<1>14. lin.nsec = n + k * C
  <2>1. CASE p <= q
    <3>1. r = c \/ r = c - 1
      BY <1>1, <1>2, <1>3, <1>4, <2>1
    <3>2. ahead <=> r = c
      BY <1>1, <1>2, <1>3, <1>4, <1>9, <2>1, <3>1
    <3>3. (r = c /\ k = 0) \/ (r = c - 1 /\ k = 1)
      BY <1>13, <3>1
    <3>4. k * C = IF ahead THEN 0 ELSE C
      BY <1>12, <3>2, <3>3
    <3>5. lin.nsec = n - (IF ahead THEN C ELSE 0) + C
      BY <1>11, <1>12, <2>1
    <3> QED
      BY <1>12, <3>4, <3>5
  <2>2. CASE p >= D - q
    <3>1. r = c \/ r = c + 1
      BY <1>1, <1>2, <1>3, <1>4, <2>2
    <3>2. ahead <=> r = c + 1
      BY <1>1, <1>2, <1>3, <1>4, <1>9, <2>2, <3>1
    <3>3. (r = c /\ k = 0) \/ (r = c + 1 /\ k = -1)
      BY <1>13, <3>1
    <3>4. k * C = IF ahead THEN -C ELSE 0
      BY <1>12, <3>2, <3>3
    <3>5. lin.nsec = n - (IF ahead THEN C ELSE 0)
      BY <1>11, <1>12, <2>2
    <3> QED
      BY <1>12, <3>4, <3>5
  <2>3. CASE p > q /\ p < D - q
    <3>1. r = c
      BY <1>1, <1>2, <1>3, <1>4, <2>3
    <3>2. k * C = 0
      BY <1>12, <1>13, <3>1
    <3> QED
      BY <1>11, <2>3, <3>2
  <2> QED
    BY <1>1, <1>2, <1>3, <2>1, <2>2, <2>3
<1>15. PICK to \in Int : to = n + k * C
  BY <1>12
<1>16. Picos(s, to, p) = r * D + p + k * D
  <2>1. to = n + k * CycleNs
    BY <1>12, <1>15
  <2>2. Picos(s, to, p) = Picos(s, n, p) + k * ClockPeriod
    BY <1>2, <2>1, CyclesMore
  <2> QED
    BY <1>1, <1>7, <2>2
<1>17. r * D + p + k * D = c * D + p
  <2>1. k * D = c * D - r * D /\ c * D \in Int /\ r * D \in Int
    BY <1>1, <1>4, <1>13, Distributes
  <2> QED
    BY <1>2, <2>1
<1>18. Received(c, p, r) = [sec |-> s, nsec |-> to, phase |-> p]
  BY <1>5, <1>6, <1>8, <1>10, <1>11, <1>14, <1>15, Zenon DEF Received
<1>19. TsToPicos(Received(c, p, r)) = Picos(s, to, p)
  BY <1>18 DEF TsToPicos, Picos
<1> QED
  BY <1>1, <1>2, <1>16, <1>17, <1>18, <1>19 DEF Timestamp

-----------------------------------------------------------------------------
(* What is rounded.                                                        *)

\* A multiple within two of the factor.
LEMMA MultipleNear ==
  ASSUME NEW m \in Nat \ {0}, NEW k \in Int, -(m + m) < m * k, m * k < m + m
  PROVE  k \in -1 .. 1
<1>1. ~(k <= -2)
  BY MultipleBetween
<1>2. ~(k >= 2)
  <2>1. PICK d \in Int : d = -k
    OBVIOUS
  <2>2. m * d = -(m * k)
    BY <2>1
  <2>3. d <= -2 => m * d <= -(m + m)
    BY MultipleBetween
  <2> QED
    BY <2>1, <2>2, <2>3
<1> QED
  BY <1>1, <1>2

\* The phase of t4 arrives as it was, or a unit less.
LEMMA PhaseArrives ==
  ASSUME NEW p \in Nat
  PROVE  CfToPhase(PhaseToCf(p)) \in {p, p - 1} /\ CfToPhase(PhaseToCf(p)) \in Nat
<1>1. PICK P \in Nat \ {0} : P = PsPerNs
  BY UnitsAssumption
<1>2. PICK U \in Nat \ {0} : U = CfPerNs /\ U >= P
  BY <1>1, ScaleAssumption, ResolutionAssumption
<1>3. PICK a \in Nat : a = p * U
  OBVIOUS
<1>4. PICK x \in Int : x = a \div P /\ P * x + (a % P) = a /\ a % P \in 0 .. P - 1
  <2>1. a \in Int
    OBVIOUS
  <2> QED
    BY <2>1, Division
<1>5. x \in Nat
  BY <1>4
<1>6. PICK b \in Nat : b = x * P
  BY <1>5
<1>7. b <= a /\ b > a - P
  <2>1. x * P = P * x
    OBVIOUS
  <2>2. PICK rest \in 0 .. P - 1 : rest = a % P
    BY <1>4
  <2> QED
    BY <1>4, <1>6, <2>1, <2>2
<1>8. PICK y \in Int : y = b \div U /\ U * y + (b % U) = b /\ b % U \in 0 .. U - 1
  <2>1. b \in Int
    OBVIOUS
  <2> QED
    BY <2>1, Division
<1>9. y \in Nat
  BY <1>8
<1>10. PICK rest \in 0 .. U - 1 : U * y + rest = b
  BY <1>8
<1>11. PICK k \in Int : k = p - y
  OBVIOUS
<1>12. U * k = a - b + rest
  <2>1. U * (p - y) = p * U - U * y /\ U * y \in Int
    OBVIOUS
  <2> QED
    BY <1>3, <1>10, <1>11, <2>1
<1>13. U * k >= 0 /\ U * k < U + U
  BY <1>2, <1>7, <1>10, <1>12
<1>14. k \in -1 .. 1
  BY <1>13, MultipleNear
<1>15. k # -1
  BY <1>13
<1>16. y = p \/ y = p - 1
  BY <1>11, <1>14, <1>15
<1>17. PhaseToCf(p) = x
  <2>1. a >= 0
    OBVIOUS
  <2> QED
    BY <1>1, <1>2, <1>3, <1>4, <2>1, Zenon DEF PhaseToCf, CDiv
<1>18. CfToPhase(x) = y
  <2>1. b >= 0
    OBVIOUS
  <2> QED
    BY <1>1, <1>2, <1>6, <1>8, <2>1, Zenon DEF CfToPhase, CDiv
<1> QED
  BY <1>9, <1>16, <1>17, <1>18

\* A fixed delay survives its two halves.
LEMMA FixedDelayKept ==
  ASSUME NEW d \in Nat
  PROVE  FixedDelay(ScaledPicoseconds(d)) = d
<1>1. PICK H \in Nat \ {0} : H = HalfWord
  BY ScaleAssumption
<1>2. d \in Int
  OBVIOUS
<1>3. PICK msb \in Int : msb = d \div H /\ H * msb + (d % H) = d
  BY <1>2, Division
<1>4. PICK low \in Int : low = d % H /\ H * msb + low = d
  BY <1>3
<1>5. (low * H) \div H = low
  <2>1. (H * low) \div H = low
    BY MultipleDivides
  <2>2. low * H = H * low
    OBVIOUS
  <2> QED
    BY <2>1, <2>2
<1>6. ScaledPicoseconds(d) = [msb |-> msb, lsb |-> low * H]
  BY <1>1, <1>3, <1>4, Zenon DEF ScaledPicoseconds
<1>7. FixedDelay(ScaledPicoseconds(d)) = low + msb * H
  BY <1>1, <1>5, <1>6 DEF FixedDelay
<1> QED
  BY <1>4, <1>7

\* The delay of the fibre in one direction, of a round trip that is measured exactly or a unit
\* short.
LEMMA FibreRounds ==
  ASSUME NEW fibre \in Nat, fibre >= 3, NEW f \in Nat, f = fibre \/ f = fibre - 1,
         NEW alpha \in Int, -AlphaOne <= 4 * alpha, 4 * alpha <= AlphaOne,
         NEW whole \in Int, whole = fibre \div 2 + (fibre * alpha) \div AlphaOne,
         NEW part \in Int, part = (f * alpha) \div AlphaOne + f \div 2
  PROVE  /\ whole - part \in IF fibre % 2 = 0 THEN 0 .. 2 ELSE -1 .. 1
         /\ part >= 0
<1>1. PICK A \in Nat \ {0} : A = AlphaOne
  BY ScaleAssumption
<1>2. PICK a \in Int : a = fibre * alpha
  OBVIOUS
<1>3. PICK b \in Int : b = f * alpha
  OBVIOUS
<1>4. PICK x \in Int : x = a \div A /\ A * x + (a % A) = a /\ a % A \in 0 .. A - 1
  BY Division
<1>5. PICK y \in Int : y = b \div A /\ A * y + (b % A) = b /\ b % A \in 0 .. A - 1
  BY Division
<1>6. PICK ra \in 0 .. A - 1 : A * x + ra = a
  BY <1>4
<1>7. PICK rb \in 0 .. A - 1 : A * y + rb = b
  BY <1>5
<1>8. PICK g \in Int : g = fibre \div 2 /\ 2 * g <= fibre /\ fibre <= 2 * g + 1
                       /\ (fibre % 2 = 0 <=> fibre = 2 * g)
  OBVIOUS
<1>9. PICK h \in Int : h = f \div 2 /\ 2 * h <= f /\ f <= 2 * h + 1
  OBVIOUS
<1>10. whole = g + x /\ part = y + h
  BY <1>1, <1>2, <1>3, <1>4, <1>5, <1>8, <1>9
<1>11. whole - part \in IF fibre % 2 = 0 THEN 0 .. 2 ELSE -1 .. 1
  <2>1. CASE f = fibre
    <3>1. x = y /\ g = h
      BY <1>2, <1>3, <1>4, <1>5, <1>8, <1>9, <2>1
    <3> QED
      BY <1>10, <3>1
  <2>2. CASE f = fibre - 1
    <3>1. a = b + alpha
      <4>1. (fibre - 1) * alpha = fibre * alpha - alpha
        OBVIOUS
      <4> QED
        BY <1>2, <1>3, <2>2, <4>1
    <3>2. PICK k \in Int : k = x - y
      OBVIOUS
    <3>3. A * k = alpha + rb - ra
      <4>1. A * (x - y) = A * x - A * y /\ A * x \in Int /\ A * y \in Int
        OBVIOUS
      <4> QED
        BY <1>6, <1>7, <3>1, <3>2, <4>1
    <3>4. k \in -1 .. 1
      <4>1. -(A + A) < A * k /\ A * k < A + A
        BY <1>1, <3>3
      <4> QED
        BY <4>1, MultipleNear
    <3>5. g - h = IF fibre % 2 = 0 THEN 1 ELSE 0
      BY <1>8, <1>9, <2>2
    <3> QED
      BY <1>10, <3>2, <3>4, <3>5
  <2> QED
    BY <2>1, <2>2
<1>12. part >= 0
  <2>1. f >= 2
    OBVIOUS
  <2>2. 4 * b + A * f >= 0
    <3>1. PICK c \in Nat : c = 4 * alpha + A
      BY <1>1
    <3>2. c * f >= 0
      OBVIOUS
    <3>3. c * f = 4 * b + A * f
      <4>1. (4 * alpha + A) * f = 4 * (f * alpha) + A * f
        OBVIOUS
      <4> QED
        BY <1>3, <3>1, <4>1
    <3> QED
      BY <3>2, <3>3
  <2>3. PICK k \in Int : k = 4 * y + f + 4
    OBVIOUS
  <2>4. A * k = 4 * (A * y) + A * f + 4 * A /\ A * y \in Int /\ A * f \in Int
    <3>1. A * (4 * y + f + 4) = 4 * (A * y) + A * f + 4 * A
      OBVIOUS
    <3> QED
      BY <2>3, <3>1
  <2>5. A * k > 0
    <3>1. PICK af \in Int : af = A * f
      OBVIOUS
    <3>2. PICK ay \in Int : ay = A * y
      OBVIOUS
    <3>3. A * k = 4 * ay + af + 4 * A
      BY <2>4, <3>1, <3>2
    <3>4. 4 * b + af >= 0 /\ ay + rb = b
      BY <1>7, <2>2, <3>1, <3>2
    <3> QED
      BY <3>3, <3>4
  <2>6. k >= 1
    <3>1. ~(k <= 0)
      <4>1. PICK d \in Int : d = -k
        OBVIOUS
      <4>2. A * d = -(A * k)
        BY <4>1
      <4>3. d >= 0 => A * d >= 0
        BY MultipleBetween
      <4> QED
        BY <2>5, <4>1, <4>2, <4>3
    <3> QED
      BY <3>1
  <2> QED
    BY <1>9, <1>10, <2>1, <2>3, <2>6
<1> QED
  BY <1>11, <1>12

-----------------------------------------------------------------------------
(* The exchange.                                                           *)

\* The invariant: where the four timestamps come from.
IInv ==
  /\ t1 \in [sec : 0 .. MaxSec, nsec : 0 .. NsPerSec - 1, phase : {0}]
  /\ cycle \in Int /\ point \in 0 .. ClockPeriod - 1 /\ rising \in Samples(cycle, point)
  /\ transition_point \in 0 .. ClockPeriod - 1
  /\ link \in [delta : FixedDelays, fibre : Fibres, alpha : Alphas]
  /\ turnaround \in Turnarounds

\* What the invariant says of the link.
LEMMA LinkTypes ==
  ASSUME IInv
  PROVE  /\ link.delta \in [tx_m : Nat, rx_m : Nat, tx_s : Nat, rx_s : Nat]
         /\ link.fibre \in Nat /\ link.fibre >= 3 /\ 2 * link.fibre < Word
         /\ link.alpha \in Int /\ -AlphaOne <= 4 * link.alpha /\ 4 * link.alpha <= AlphaOne
         /\ turnaround \in Nat
<1>1. link.delta \in FixedDelays /\ link.fibre \in Fibres /\ link.alpha \in Alphas
  BY DEF IInv
<1>2. link.delta \in [tx_m : Nat, rx_m : Nat, tx_s : Nat, rx_s : Nat] /\ turnaround \in Nat
  BY <1>1, ExchangeAssumption DEF IInv
<1>3. link.fibre \in Nat /\ link.fibre >= 3 /\ 2 * link.fibre < Word
  BY <1>1, LinkAssumption
<1>4. link.alpha \in Int /\ -AlphaOne <= 4 * link.alpha /\ 4 * link.alpha <= AlphaOne
  BY <1>1, LinkAssumption
<1> QED
  BY <1>2, <1>3, <1>4

\* t1 is a timestamp.
LEMMA FirstType ==
  ASSUME IInv
  PROVE  t1 \in Timestamp /\ TsToPicos(t1) \in Int
<1>1. t1.sec \in Int /\ t1.nsec \in Int /\ t1.phase \in Int
  BY UnitsAssumption, ExchangeAssumption DEF IInv
<1>2. t1 = [sec |-> t1.sec, nsec |-> t1.nsec, phase |-> t1.phase]
  BY DEF IInv
<1>3. t1 \in Timestamp
  BY <1>1, <1>2 DEF Timestamp
<1>4. t1.sec * NsPerSec + t1.nsec \in Int
  BY <1>1, UnitsPositive
<1>5. (t1.sec * NsPerSec + t1.nsec) * PsPerNs \in Int
  BY <1>4, UnitsPositive
<1> QED
  BY <1>1, <1>3, <1>5 DEF TsToPicos

\* t2 is the arrival of the Sync.
LEMMA SecondExact ==
  ASSUME IInv
  PROVE  t2 \in Timestamp /\ TsToPicos(t2) = SyncArrival /\ SyncArrival \in Int
<1>1. t2 \in Timestamp /\ TsToPicos(t2) = cycle * ClockPeriod + point
  BY ReceivedExact DEF IInv, t2
<1>2. cycle * ClockPeriod + point \in Int
  BY UnitsPositive DEF IInv
<1> QED
  BY <1>1, <1>2 DEF SyncArrival

\* t3 is a number of cycles later.
LEMMA ThirdExact ==
  ASSUME IInv, NEW c \in Int, c = cycle + turnaround
  PROVE  t3 \in Timestamp /\ TsToPicos(t3) = c * ClockPeriod
<1>1. PICK s \in Int : s = c \div CyclesPerSec
  BY CyclesExact
<1>2. PICK n \in Int : n = (c % CyclesPerSec) * CycleNs
  BY CyclesExact
<1>3. t3 = [sec |-> s, nsec |-> n, phase |-> 0]
  BY <1>1, <1>2 DEF t3
<1>4. Picos(s, n, 0) = c * ClockPeriod + 0
  BY <1>1, <1>2, CyclesExact
<1>5. TsToPicos(t3) = Picos(s, n, 0)
  BY <1>3 DEF TsToPicos, Picos
<1>6. c * ClockPeriod \in Int
  BY UnitsPositive
<1> QED
  BY <1>3, <1>4, <1>5, <1>6 DEF Timestamp

\* t4 is the arrival of the Delay_Req, or a unit less.
LEMMA FourthExact ==
  ASSUME IInv, NEW time \in Int,
         time = (cycle + turnaround) * ClockPeriod + Error + DelayReqDelay
  PROVE  t4 \in Timestamp /\ TsToPicos(t4) \in {time, time - 1}
<1>1. PICK D \in Nat \ {0} : D = ClockPeriod
  BY UnitsAssumption
<1>2. PICK c \in Int : c = time \div D /\ D * c + (time % D) = time /\ time % D \in 0 .. D - 1
  BY Division
<1>3. PICK p \in 0 .. D - 1 : p = time % D /\ D * c + p = time
  BY <1>2
<1>4. c \in Samples(c, p)
  BY DEF Samples
<1>5. PICK ts \in Timestamp : ts = Received(c, p, c) /\ ts.phase = p /\ TsToPicos(ts) = c * D + p
  <2>1. transition_point \in 0 .. ClockPeriod - 1
    BY DEF IInv
  <2> QED
    BY <1>1, <1>4, <2>1, ReceivedExact
<1>6. PICK phase \in Nat : phase = CfToPhase(PhaseToCf(p)) /\ phase \in {p, p - 1}
  <2>1. p \in Nat
    BY <1>1
  <2> QED
    BY <2>1, PhaseArrives
<1>7. t4 = [ts EXCEPT !.phase = phase]
  BY <1>1, <1>2, <1>3, <1>5, <1>6, Zenon DEF t4
<1>8. t4 \in Timestamp /\ t4.sec = ts.sec /\ t4.nsec = ts.nsec /\ t4.phase = phase
  BY <1>5, <1>7 DEF Timestamp
<1>9. PICK x \in Int : x = (ts.sec * NsPerSec + ts.nsec) * PsPerNs
  <2>1. ts.sec \in Int /\ ts.nsec \in Int
    BY DEF Timestamp
  <2>2. ts.sec * NsPerSec + ts.nsec \in Int
    BY <2>1, UnitsPositive
  <2> QED
    BY <2>2, UnitsPositive
<1>10. TsToPicos(ts) = x + p /\ TsToPicos(t4) = x + phase
  BY <1>5, <1>8, <1>9 DEF TsToPicos
<1>11. x + p = time
  <2>1. c * D = D * c
    OBVIOUS
  <2> QED
    BY <1>3, <1>5, <1>10, <2>1
<1> QED
  BY <1>3, <1>6, <1>8, <1>10, <1>11

\* The two delays of the link are its fixed delays and the fibre, there and back.
LEMMA DelayTypes ==
  ASSUME IInv
  PROVE  /\ SyncDelay \in Int /\ DelayReqDelay \in Int /\ ThroughFibre \in Int
         /\ SyncDelay = link.delta.tx_m + ThroughFibre + link.delta.rx_s
         /\ SyncDelay + DelayReqDelay = link.fibre + link.delta.tx_m + link.delta.rx_m
                                          + link.delta.tx_s + link.delta.rx_s
<1>1. PICK fibre \in Nat : fibre = link.fibre
  BY LinkTypes
<1>2. PICK a \in Nat : a = link.delta.tx_m
  BY LinkTypes
<1>3. PICK b \in Nat : b = link.delta.rx_m
  BY LinkTypes
<1>4. PICK c \in Nat : c = link.delta.tx_s
  BY LinkTypes
<1>5. PICK d \in Nat : d = link.delta.rx_s
  BY LinkTypes
<1>6. ThroughFibre \in Int
  <2>1. link.fibre * link.alpha \in Int /\ link.fibre \div 2 \in Int
    BY LinkTypes
  <2>2. (link.fibre * link.alpha) \div AlphaOne \in Int
    BY <2>1, ScaleAssumption
  <2> QED
    BY <2>1, <2>2 DEF ThroughFibre
<1>7. PICK through \in Int : through = ThroughFibre
  BY <1>6
<1>8. SyncDelay = a + through + d
  BY <1>2, <1>5, <1>7 DEF SyncDelay
<1>9. DelayReqDelay = c + (fibre - through) + b
  BY <1>1, <1>3, <1>4, <1>7 DEF DelayReqDelay
<1> QED
  BY <1>1, <1>2, <1>3, <1>4, <1>5, <1>7, <1>8, <1>9

\* mu is the sum of both delays, or a unit less.
LEMMA RoundTripMeasured ==
  ASSUME IInv, NEW sum \in Int, sum = SyncDelay + DelayReqDelay
  PROVE  TsToPicos(RoundTrip(t1, t2, t3, t4)) \in {sum, sum - 1}
<1>1. PICK first \in Int : first = TsToPicos(t1) /\ t1 \in Timestamp
  BY FirstType
<1>2. PICK second \in Int : second = TsToPicos(t2) /\ t2 \in Timestamp /\ second = SyncArrival
  BY SecondExact
<1>3. PICK c \in Int : c = cycle + turnaround
  BY LinkTypes DEF IInv
<1>4. PICK third \in Int : third = c * ClockPeriod
  BY UnitsPositive
<1>5. t3 \in Timestamp /\ TsToPicos(t3) = third
  BY <1>3, <1>4, ThirdExact
<1>6. PICK there \in Int : there = SyncDelay
  BY DelayTypes
<1>7. PICK back \in Int : back = DelayReqDelay
  BY DelayTypes
<1>8. Error = first + there - second
  BY <1>1, <1>2, <1>6 DEF Error
<1>9. PICK time \in Int : time = third + (first + there - second) + back
  OBVIOUS
<1>10. PICK fourth \in Int : fourth = TsToPicos(t4) /\ t4 \in Timestamp /\ fourth \in {time, time - 1}
  <2>1. time = (cycle + turnaround) * ClockPeriod + Error + DelayReqDelay
    BY <1>3, <1>4, <1>7, <1>8, <1>9
  <2>2. t4 \in Timestamp /\ TsToPicos(t4) \in {time, time - 1}
    BY <2>1, FourthExact
  <2> QED
    BY <2>2
<1>11. PICK x \in Timestamp : x = TsSub(t4, t1) /\ TsToPicos(x) = fourth - first
  BY <1>1, <1>10, TsSubExact
<1>12. PICK y \in Timestamp : y = TsSub(t3, t2) /\ TsToPicos(y) = third - second
  <2>1. TsSub(t3, t2) \in Timestamp /\ TsToPicos(TsSub(t3, t2)) = TsToPicos(t3) - TsToPicos(t2)
    BY <1>2, <1>5, TsSubExact
  <2>2. TsToPicos(TsSub(t3, t2)) = third - second
    BY <1>2, <1>5, <2>1
  <2> QED
    BY <2>1, <2>2, Zenon
<1>13. TsSub(x, y) \in Timestamp /\ TsToPicos(TsSub(x, y)) = (fourth - first) - (third - second)
  BY <1>11, <1>12, TsSubExact
<1>14. (fourth - first) - (third - second) \in {sum, sum - 1}
  <2>1. sum = there + back
    BY <1>6, <1>7
  <2> QED
    BY <1>9, <1>10, <2>1
<1>15. RoundTrip(t1, t2, t3, t4) = TsSub(x, y)
  BY <1>11, <1>12 DEF RoundTrip
<1> QED
  BY <1>13, <1>14, <1>15

\* delay_ms, from what was measured of the fibre.
LEMMA DelayFound ==
  ASSUME IInv
  PROVE  /\ SyncDelay - delay_ms \in IF link.fibre % 2 = 0 THEN 0 .. 2 ELSE -1 .. 1
         /\ delay_ms \in Nat
<1>1. PICK fibre \in Nat : fibre = link.fibre /\ fibre >= 3 /\ 2 * fibre < Word
  BY LinkTypes
<1>2. PICK alpha \in Int : alpha = link.alpha /\ -AlphaOne <= 4 * alpha /\ 4 * alpha <= AlphaOne
  BY LinkTypes
<1>3. PICK a \in Nat : a = link.delta.tx_m
  BY LinkTypes
<1>4. PICK b \in Nat : b = link.delta.rx_m
  BY LinkTypes
<1>5. PICK c \in Nat : c = link.delta.tx_s
  BY LinkTypes
<1>6. PICK d \in Nat : d = link.delta.rx_s
  BY LinkTypes
<1>7. delta.tx_m = a /\ delta.rx_m = b /\ delta.tx_s = c /\ delta.rx_s = d
  <2>1. DOMAIN link.delta = {"tx_m", "rx_m", "tx_s", "rx_s"}
    BY LinkTypes
  <2>2. \A x \in {"tx_m", "rx_m", "tx_s", "rx_s"} :
          delta[x] = FixedDelay(ScaledPicoseconds(link.delta[x]))
    BY <2>1 DEF delta
  <2> QED
    BY <1>3, <1>4, <1>5, <1>6, <2>2, FixedDelayKept
<1>8. PICK mu \in Int : /\ mu = TsToPicos(RoundTrip(t1, t2, t3, t4))
                        /\ mu \in {fibre + a + b + c + d, fibre + a + b + c + d - 1}
  <2>1. SyncDelay + DelayReqDelay = fibre + a + b + c + d
    BY <1>1, <1>3, <1>4, <1>5, <1>6, DelayTypes
  <2>2. TsToPicos(RoundTrip(t1, t2, t3, t4)) \in {fibre + a + b + c + d, fibre + a + b + c + d - 1}
    <3>1. PICK sum \in Int : sum = SyncDelay + DelayReqDelay
      BY DelayTypes
    <3>2. TsToPicos(RoundTrip(t1, t2, t3, t4)) \in {sum, sum - 1}
      BY <3>1, RoundTripMeasured
    <3> QED
      BY <2>1, <3>1, <3>2
  <2> QED
    BY <2>2
<1>9. PICK f \in Nat : f = mu - a - b - c - d /\ (f = fibre \/ f = fibre - 1)
  BY <1>1, <1>8
<1>10. f % Word = f /\ Signed(f) = f
  <2>1. f \in 0 .. Word - 1 /\ 2 * f < Word
    BY <1>1, <1>9, ScaleAssumption
  <2>2. f % Word = f
    BY <2>1, ScaleAssumption
  <2> QED
    BY <2>1, <2>2 DEF Signed
<1>11. PICK part \in Int : part = (f * alpha) \div AlphaOne + f \div 2
  <2>1. f * alpha \in Int /\ f \div 2 \in Int
    OBVIOUS
  <2>2. (f * alpha) \div AlphaOne \in Int
    BY <2>1, ScaleAssumption
  <2> QED
    BY <2>1, <2>2
<1>12. PICK whole \in Int : whole = fibre \div 2 + (fibre * alpha) \div AlphaOne
                            /\ whole = ThroughFibre
  BY <1>1, <1>2, DelayTypes DEF ThroughFibre
<1>13. whole - part \in (IF fibre % 2 = 0 THEN 0 .. 2 ELSE -1 .. 1) /\ part >= 0
  BY <1>1, <1>2, <1>9, <1>11, <1>12, FibreRounds
<1>14. delay_ms = (f * alpha) \div AlphaOne + f \div 2 + a + d
  <2>1. (mu - delta.tx_m - delta.rx_m - delta.tx_s - delta.rx_s) % Word = f
    <3>1. mu - a - b - c - d = f
      BY <1>9
    <3> QED
      BY <1>7, <1>10, <3>1
  <2> QED
    BY <1>2, <1>7, <1>8, <1>10, <2>1, Zenon DEF delay_ms, DelayFix
<1>15. delay_ms = part + a + d
  BY <1>11, <1>14
<1>16. SyncDelay = a + whole + d
  BY <1>3, <1>6, <1>12, DelayTypes
<1>17. SyncDelay - delay_ms = whole - part
  BY <1>15, <1>16
<1> QED
  BY <1>1, <1>13, <1>15, <1>17

\* The offset is what the clock lacks, but for what the delay is wrong.
LEMMA OffsetFound ==
  ASSUME IInv
  PROVE  /\ ts_offset \in Timestamp /\ Normalised(ts_offset)
         /\ TsToPicos(ts_offset) = Error - SyncDelay + delay_ms
<1>1. PICK first \in Int : first = TsToPicos(t1) /\ t1 \in Timestamp
  BY FirstType
<1>2. PICK second \in Int : second = TsToPicos(t2) /\ t2 \in Timestamp /\ second = SyncArrival
  BY SecondExact
<1>3. PICK there \in Int : there = SyncDelay
  BY DelayTypes
<1>4. PICK ms \in Nat : ms = delay_ms
  BY DelayFound
<1>5. PICK x \in Timestamp : /\ x = TsSub(t1, t2) /\ TsToPicos(x) = first - second
                             /\ x.nsec >= 0 /\ x.phase >= 0
  BY <1>1, <1>2, TsSubExact
<1>6. PICK y \in Timestamp : y = PicosToTs(ms) /\ TsToPicos(y) = ms
  <2>1. ms \in Int
    OBVIOUS
  <2> QED
    BY <2>1, PicosToTsType, PicosToTsExact
<1>7. y.nsec >= 0 /\ y.phase >= 0
  BY <1>6, PicosToTsNotNegative
<1>8. ts_offset = TsAdd(x, y)
  BY <1>4, <1>5, <1>6 DEF ts_offset
<1>9. TsAdd(x, y) \in Timestamp /\ TsToPicos(TsAdd(x, y)) = (first - second) + ms
  BY <1>5, <1>6, TsAddType, TsAddExact
<1>10. Normalised(TsAdd(x, y))
  BY <1>5, <1>7, TsAddNormalised
<1>11. Error - there + ms = (first - second) + ms
  BY <1>1, <1>2, <1>3 DEF Error
<1> QED
  BY <1>3, <1>4, <1>8, <1>9, <1>10, <1>11

-----------------------------------------------------------------------------
(* The theorems.                                                           *)

\* The invariant holds of every arrival.
LEMMA Invariance == Spec => []IInv
<1>1. Init => IInv
  BY UnitsAssumption DEF Init, IInv
<1>2. IInv /\ [Next]_vars => IInv'
  <2> SUFFICES ASSUME IInv, [Next]_vars PROVE IInv'
    OBVIOUS
  <2>1. CASE Next
    <3>1. cycle' \in Int /\ point' \in 0 .. ClockPeriod - 1 /\ rising' \in Samples(cycle', point')
      BY <2>1 DEF Next, Arrival
    <3>2. UNCHANGED <<t1, transition_point, link, turnaround>>
      BY <2>1 DEF Next
    <3> QED
      BY <3>1, <3>2 DEF IInv
  <2>2. CASE UNCHANGED vars
    BY <2>2 DEF vars, IInv, Samples
  <2> QED
    BY <2>1, <2>2
<1> QED
  BY <1>1, <1>2, PTL DEF Spec

\* ptpd_netif_linearize_rx_timestamp() yields the moment of arrival, whichever value the
\* counter of rising edges was sampled at and wherever its transition is.
THEOREM ArrivalIsExact == Spec => []ArrivalExact
<1>1. IInv => ArrivalExact
  BY SecondExact DEF ArrivalExact
<1> QED
  BY <1>1, Invariance, PTL

\* wr_servo_update() measures the delay of a Sync, but for what is rounded, whatever the fixed
\* delays, the fibre, its asymmetry and the error of the clock are.
THEOREM DelayIsMeasured == Spec => []DelayMeasured
<1>1. IInv => DelayMeasured
  BY DelayFound DEF DelayMeasured
<1> QED
  BY <1>1, Invariance, PTL

\* The offset that wr_servo_update() computes is exact but for that delay, and normalised,
\* whatever ts_add() and ts_sub() carry and borrow.
THEOREM OffsetIsExact == Spec => []OffsetExact
<1>1. IInv => OffsetExact
  BY OffsetFound DEF OffsetExact
<1> QED
  BY <1>1, Invariance, PTL

\* ts_hardwarize() splits that offset into whole cycles and a phase, loses none of it, and
\* leaves only a phase exactly when the clock is wrong by less than a cycle.
THEOREM SplitIsExact == Spec => []SplitExact
<1>1. IInv => SplitExact
  <2> SUFFICES ASSUME IInv PROVE SplitExact
    OBVIOUS
  <2>1. PICK ts \in Timestamp : ts = ts_offset /\ Normalised(ts)
    BY OffsetFound
  <2>2. ts_offset_hw = TsHardwarize(ts)
    BY <2>1 DEF ts_offset_hw
  <2>3. TsToPicos(ts_offset_hw) = TsToPicos(ts)
    BY <2>2, TsHardwarizeExact
  <2>4. /\ ts_offset_hw.nsec % CycleNs = 0
        /\ ts_offset_hw.phase \in -ClockPeriod .. ClockPeriod - 1
        /\ (ts_offset_hw.sec = 0 /\ ts_offset_hw.nsec = 0)
             <=> TsToPicos(ts) \in -ClockPeriod .. ClockPeriod - 1
    BY <2>1, <2>2, ResolutionAssumption, HardwarizeSplits
  <2> QED
    BY <2>1, <2>3, <2>4 DEF SplitExact
<1> QED
  BY <1>1, Invariance, PTL

=============================================================================
