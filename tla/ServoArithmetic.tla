-------------------------- MODULE ServoArithmetic ---------------------------
(***************************************************************************)
(* The timestamp arithmetic of ServoTime, for all units: division of C,    *)
(* what ts_add(), ts_sub(), picos_to_ts() and ts_hardwarize() return, and  *)
(* that they lose nothing.                                                 *)
(***************************************************************************)
EXTENDS ServoTime, TLAPS

-----------------------------------------------------------------------------
\* The timestamp arithmetic stays within the integers.

\* Division of C by a positive integer.
LEMMA CDivisionType ==
  ASSUME NEW a \in Int, NEW b \in Int, b > 0
  PROVE  CRem(a, b) \in Int /\ CDiv(a, b) \in Int
<1>1. -a \in Int
  OBVIOUS
<1>2. a % b \in Int /\ (-a) % b \in Int
  BY <1>1
<1>3. a \div b \in Int /\ (-a) \div b \in Int
  BY <1>1
<1> QED
  BY <1>2, <1>3 DEF CRem, CDiv

\* The units are positive.
LEMMA UnitsPositive ==
  /\ PsPerNs \in Int /\ PsPerNs > 0
  /\ NsPerSec \in Int /\ NsPerSec > 0
  /\ ClockPeriod \in Int /\ ClockPeriod > 0
BY UnitsAssumption

\* A clock period is at least one nanosecond when it is rounded up.
LEMMA CycleNsType == CycleNs \in Int /\ CycleNs > 0
<1>1. PsPerNs \in Int /\ PsPerNs > 0 /\ ClockPeriod \in Int /\ ClockPeriod > 0
  BY UnitsPositive
<1>2. ClockPeriod + PsPerNs - 1 \in Int /\ ClockPeriod + PsPerNs - 1 >= PsPerNs
  BY <1>1
<1>3. ASSUME NEW x \in Int, NEW b \in Int, b > 0, x >= b
      PROVE  x \div b \in Int /\ x \div b > 0
  BY <1>3
<1> QED
  BY <1>1, <1>2, <1>3 DEF CycleNs

\* picos_to_ts() returns a timestamp.
LEMMA PicosToTsType == \A p \in Int : PicosToTs(p) \in Timestamp
<1> SUFFICES ASSUME NEW p \in Int PROVE PicosToTs(p) \in Timestamp
  OBVIOUS
<1> DEFINE nanos == CDiv(p - CRem(p, PsPerNs), PsPerNs)
<1>1. CRem(p, PsPerNs) \in Int
  BY UnitsPositive, CDivisionType
<1>2. p - CRem(p, PsPerNs) \in Int
  BY <1>1
<1>3. nanos \in Int
  BY <1>2, UnitsPositive, CDivisionType
<1> HIDE DEF nanos
<1>4. CRem(nanos, NsPerSec) \in Int
  BY <1>3, UnitsPositive, CDivisionType
<1>5. nanos - CRem(nanos, NsPerSec) \in Int
  BY <1>3, <1>4
<1>6. CDiv(nanos - CRem(nanos, NsPerSec), NsPerSec) \in Int
  BY <1>5, UnitsPositive, CDivisionType
<1> QED
  BY <1>1, <1>4, <1>6 DEF PicosToTs, Timestamp, nanos

\* What is carried is an integer.
LEMMA CarryType ==
  ASSUME NEW x \in Int, NEW unit \in Int, unit > 0
  PROVE  Carry(x, unit) \in Int /\ Carry(x, unit) * unit \in Int
<1>1. x \div unit \in Int
  OBVIOUS
<1>2. Carry(x, unit) \in Int
  BY <1>1 DEF Carry
<1> QED
  BY <1>2

\* ts_add() returns a timestamp.
LEMMA TsAddType == \A a, b \in Timestamp : TsAdd(a, b) \in Timestamp
<1> SUFFICES ASSUME NEW a \in Timestamp, NEW b \in Timestamp PROVE TsAdd(a, b) \in Timestamp
  OBVIOUS
<1> DEFINE phase == a.phase + b.phase
           nsec  == a.nsec + b.nsec + Carry(phase, PsPerNs)
<1>1. a.sec \in Int /\ b.sec \in Int /\ a.nsec \in Int /\ b.nsec \in Int
        /\ a.phase \in Int /\ b.phase \in Int
  BY DEF Timestamp
<1>2. phase \in Int
  BY <1>1
<1> HIDE DEF phase
<1>3. Carry(phase, PsPerNs) \in Int /\ Carry(phase, PsPerNs) * PsPerNs \in Int
  BY <1>2, UnitsPositive, CarryType
<1>4. nsec \in Int
  BY <1>1, <1>3
<1> HIDE DEF nsec
<1>5. Carry(nsec, NsPerSec) \in Int /\ Carry(nsec, NsPerSec) * NsPerSec \in Int
  BY <1>4, UnitsPositive, CarryType
<1>6. /\ a.sec + b.sec + Carry(nsec, NsPerSec) \in Int
      /\ nsec - Carry(nsec, NsPerSec) * NsPerSec \in Int
      /\ phase - Carry(phase, PsPerNs) * PsPerNs \in Int
  BY <1>1, <1>2, <1>3, <1>4, <1>5
<1> QED
  BY <1>6 DEF TsAdd, Timestamp, phase, nsec

\* Two fields of a timestamp may be set to integers.
LEMMA TimestampUpdate ==
  ASSUME NEW ts \in Timestamp, NEW x \in Int, NEW y \in Int
  PROVE  /\ [ts EXCEPT !.nsec = x, !.sec = y] \in Timestamp
         /\ [ts EXCEPT !.nsec = x, !.phase = y] \in Timestamp
<1>1. [ts EXCEPT !.nsec = x] \in Timestamp
  BY DEF Timestamp
<1>2. /\ [[ts EXCEPT !.nsec = x] EXCEPT !.sec = y] \in Timestamp
      /\ [[ts EXCEPT !.nsec = x] EXCEPT !.phase = y] \in Timestamp
  BY <1>1 DEF Timestamp
<1>3. /\ [[ts EXCEPT !.nsec = x] EXCEPT !.sec = y] = [ts EXCEPT !.nsec = x, !.sec = y]
      /\ [[ts EXCEPT !.nsec = x] EXCEPT !.phase = y] = [ts EXCEPT !.nsec = x, !.phase = y]
  OBVIOUS
<1> QED
  BY <1>2, <1>3

\* Each step of ts_hardwarize() returns a timestamp.
LEMMA HardwarizeSteps ==
  \A ts \in Timestamp :
    /\ WholeCycles(ts) \in Timestamp /\ NsecNotNegative(ts) \in Timestamp
    /\ LastSecondNegative(ts) \in Timestamp /\ LastCycleInPhase(ts) \in Timestamp
<1>1. ASSUME NEW ts \in Timestamp PROVE WholeCycles(ts) \in Timestamp
  <2>1. ts.nsec \in Int /\ ts.phase \in Int
    BY <1>1 DEF Timestamp
  <2>2. ts.nsec % CycleNs \in Int
    BY <2>1, CycleNsType
  <2>3. (ts.nsec % CycleNs) * PsPerNs \in Int
    BY <2>2, UnitsPositive
  <2>4. ts.nsec - (ts.nsec % CycleNs) \in Int /\ ts.phase + (ts.nsec % CycleNs) * PsPerNs \in Int
    BY <2>1, <2>2, <2>3
  <2> QED
    BY <1>1, <2>4, TimestampUpdate DEF WholeCycles
<1>2. ASSUME NEW ts \in Timestamp
      PROVE  NsecNotNegative(ts) \in Timestamp /\ LastSecondNegative(ts) \in Timestamp
  <2>1. /\ ts.nsec + NsPerSec \in Int /\ ts.sec - 1 \in Int
        /\ ts.nsec - NsPerSec \in Int /\ ts.sec + 1 \in Int
    BY <1>2, UnitsPositive DEF Timestamp
  <2> QED
    BY <1>2, <2>1, TimestampUpdate DEF NsecNotNegative, LastSecondNegative
<1>3. ASSUME NEW ts \in Timestamp PROVE LastCycleInPhase(ts) \in Timestamp
  <2>1. CycleNs * PsPerNs \in Int
    BY UnitsPositive, CycleNsType
  <2>2. ts.nsec + CycleNs \in Int /\ ts.phase - CycleNs * PsPerNs \in Int
    BY <2>1, <1>3, CycleNsType DEF Timestamp
  <2> QED
    BY <1>3, <2>2, TimestampUpdate DEF LastCycleInPhase
<1> QED
  BY <1>1, <1>2, <1>3

\* So does ts_hardwarize().
LEMMA TsHardwarizeType == \A ts \in Timestamp : TsHardwarize(ts) \in Timestamp
BY HardwarizeSteps DEF TsHardwarize

-----------------------------------------------------------------------------
(* The arithmetic is exact.                                                *)

\* A product of integers whose size is below that of a factor is zero.
LEMMA SmallProduct ==
  ASSUME NEW m \in Nat \ {0}, NEW k \in Int, -m < m * k, m * k < m
  PROVE  k = 0
<1>1. CASE k >= 1
  <2>1. m * (k - 1) >= 0
    BY <1>1
  <2>2. m * k = m * (k - 1) + m
    OBVIOUS
  <2> QED
    BY <2>1, <2>2
<1>2. CASE k <= -1
  <2>1. m * (-k - 1) >= 0
    BY <1>2
  <2>2. m * k = -(m * (-k - 1)) - m
    OBVIOUS
  <2> QED
    BY <2>1, <2>2
<1> QED
  BY <1>1, <1>2

\* Division by a positive number leaves a remainder below it.
LEMMA Division ==
  ASSUME NEW a \in Int, NEW m \in Nat \ {0}
  PROVE  m * (a \div m) + (a % m) = a /\ a % m \in 0 .. m - 1 /\ a \div m \in Int
<1>1. a \div m \in Int
  OBVIOUS
<1>2. a % m \in 0 .. m - 1
  OBVIOUS
<1>3. m * (a \div m) + (a % m) = a
  <2>1. m \in Int /\ m > 0
    OBVIOUS
  <2>2. ASSUME NEW b \in Int, NEW n \in Int, n > 0
        PROVE  n * (b \div n) + (b % n) = b
    BY <2>2
  <2> QED
    BY <2>1, <2>2
<1> QED
  BY <1>1, <1>2, <1>3

\* Quotient and remainder are unique.
LEMMA QuotientUnique ==
  ASSUME NEW m \in Nat \ {0}, NEW a \in Int, NEW k \in Int, NEW r \in 0 .. m - 1, a = m * k + r
  PROVE  a \div m = k /\ a % m = r
<1> DEFINE d == a \div m - k
<1>0. a = m * (a \div m) + (a % m) /\ a % m \in 0 .. m - 1 /\ a \div m \in Int
  BY Division
<1>1. d \in Int /\ m * d = r - (a % m) /\ a % m \in 0 .. m - 1
  <2>1. m * (a \div m - k) = m * (a \div m) - m * k
    BY <1>0
  <2> QED
    BY <1>0, <2>1
<1>2. d = 0
  <2> HIDE DEF d
  <2> QED
    BY <1>1, SmallProduct
<1>3. a \div m = k
  BY <1>0, <1>2
<1> QED
  BY <1>0, <1>2, <1>3, <1>1

\* A multiple is divided exactly.
LEMMA MultipleDivides ==
  ASSUME NEW m \in Nat \ {0}, NEW k \in Int
  PROVE  (m * k) \div m = k
<1>1. PICK a \in Int : a = m * k
  OBVIOUS
<1>2. a = m * k + 0 /\ 0 \in 0 .. m - 1
  BY <1>1
<1>3. a \div m = k
  BY <1>2, QuotientUnique
<1> QED
  BY <1>1, <1>3

\* Without its remainder of C a number is divided exactly by the division of C.
LEMMA CDivisionExact ==
  ASSUME NEW a \in Int, NEW m \in Nat \ {0}
  PROVE  /\ CRem(a, m) \in Int /\ CDiv(a - CRem(a, m), m) \in Int
         /\ m * CDiv(a - CRem(a, m), m) + CRem(a, m) = a
<1>1. CASE a >= 0
  <2>1. PICK k \in Int : k = a \div m
    BY Division
  <2>2. CRem(a, m) = a % m /\ a % m \in Int /\ m * k + (a % m) = a /\ a % m <= m - 1
    BY <1>1, <2>1, Division DEF CRem
  <2>3. PICK b \in Int : b = m * k
    OBVIOUS
  <2>4. a - CRem(a, m) = b
    BY <2>2, <2>3
  <2>5. b >= 0
    <3>1. k >= 0
      <4>1. SUFFICES ASSUME k <= -1 PROVE FALSE
        BY <2>1
      <4>2. m * (-k - 1) >= 0
        BY <4>1
      <4>3. m * k = -(m * (-k - 1)) - m
        OBVIOUS
      <4> QED
        BY <1>1, <2>2, <4>2, <4>3
    <3> QED
      BY <2>3, <3>1
  <2>6. b \div m = k
    BY <2>3, MultipleDivides
  <2>7. CDiv(b, m) = k
    BY <2>5, <2>6 DEF CDiv
  <2> QED
    BY <2>2, <2>4, <2>7
<1>2. CASE ~(a >= 0)
  <2>1. PICK c \in Int : c = -a /\ c > 0
    BY <1>2
  <2>2. PICK k \in Int : k = c \div m
    BY Division
  <2>3. CRem(a, m) = -(c % m) /\ c % m \in Int /\ m * k + (c % m) = c /\ c % m <= m - 1
    BY <1>2, <2>1, <2>2, Division DEF CRem
  <2>4. PICK b \in Int : b = m * k
    OBVIOUS
  <2>5. a - CRem(a, m) = -b
    BY <2>1, <2>3, <2>4
  <2>6. b \div m = k
    BY <2>4, MultipleDivides
  <2>7. b >= 0
    <3>1. k >= 0
      <4>1. SUFFICES ASSUME k <= -1 PROVE FALSE
        BY <2>2
      <4>2. m * (-k - 1) >= 0
        BY <4>1
      <4>3. m * k = -(m * (-k - 1)) - m
        OBVIOUS
      <4> QED
        BY <2>1, <2>3, <4>2, <4>3
    <3> QED
      BY <2>4, <3>1
  <2>8. CDiv(-b, m) = -k
    <3>1. PICK e \in Int : e = -b
      BY <2>4
    <3>2. CASE e >= 0
      <4>1. e = b /\ b = 0
        BY <2>7, <3>1, <3>2
      <4>2. k = 0
        BY <2>4, <4>1, SmallProduct
      <4>3. CDiv(e, m) = k
        BY <2>6, <3>2, <4>1 DEF CDiv
      <4> QED
        BY <3>1, <4>2, <4>3
    <3>3. CASE ~(e >= 0)
      <4>1. -e = b
        BY <2>4, <3>1
      <4>2. CDiv(e, m) = -(b \div m)
        BY <3>3, <4>1 DEF CDiv
      <4> QED
        BY <2>6, <3>1, <4>2
    <3> QED
      BY <3>2, <3>3
  <2>9. m * (-k) = -b /\ -k \in Int
    BY <2>4
  <2>10. PICK r \in Int : r = CRem(a, m) /\ r = -(c % m)
    BY <2>3
  <2>11. -b + r = a
    BY <2>1, <2>3, <2>4, <2>10
  <2>12. CDiv(a - r, m) = -k
    BY <2>5, <2>8, <2>10
  <2> QED
    BY <2>9, <2>10, <2>11, <2>12
<1> QED
  BY <1>1, <1>2

\* ts_to_picos(), of the three fields.
Picos(sec, nsec, phase) == (sec * NsPerSec + nsec) * PsPerNs + phase

\* Multiplication distributes.
LEMMA Distributes ==
  ASSUME NEW x \in Int, NEW y \in Int, NEW z \in Int
  PROVE  (x + y) * z = x * z + y * z /\ (x - y) * z = x * z - y * z
         /\ (x * y) * z = (y * z) * x /\ x * y \in Int
OBVIOUS

\* What is moved from the nanoseconds to the phase is not lost, nor the other way.
LEMMA MovesToPhase ==
  ASSUME NEW s \in Int, NEW n \in Int, NEW p \in Int, NEW k \in Int,
         NEW to \in Int, to = n - k, NEW phase \in Int, phase = p + k * PsPerNs
  PROVE  Picos(s, to, phase) = Picos(s, n, p)
<1> DEFINE N == NsPerSec
           P == PsPerNs
<1>0. N \in Int /\ P \in Int
  BY UnitsPositive
<1> HIDE DEF N, P
<1>1. PICK a \in Int : a = s * N + n
  BY <1>0
<1>2. PICK b \in Int : b = k * P
  BY <1>0
<1>3. PICK c \in Int : c = a * P
  BY <1>0
<1>4. (a - k) * P = c - b
  BY <1>0, <1>2, <1>3, Distributes
<1>5. s * N + to = a - k
  <2>1. s * N \in Int
    BY <1>0
  <2> QED
    BY <1>1, <2>1
<1>6. phase = p + b
  BY <1>2 DEF P
<1> QED
  BY <1>1, <1>3, <1>4, <1>5, <1>6 DEF Picos, N, P

\* What is moved from the seconds to the nanoseconds is not lost, nor the other way.
LEMMA MovesToNsec ==
  ASSUME NEW s \in Int, NEW n \in Int, NEW p \in Int, NEW k \in Int,
         NEW to \in Int, to = s - k, NEW nsec \in Int, nsec = n + k * NsPerSec
  PROVE  Picos(to, nsec, p) = Picos(s, n, p)
<1> DEFINE N == NsPerSec
<1>0. N \in Int
  BY UnitsPositive
<1> HIDE DEF N
<1>1. PICK a \in Int : a = s * N
  BY <1>0
<1>2. PICK b \in Int : b = k * N
  BY <1>0
<1>3. to * N = a - b
  BY <1>0, <1>1, <1>2, Distributes
<1>4. nsec = n + b
  BY <1>2 DEF N
<1>5. to * N + nsec = s * N + n
  BY <1>1, <1>3, <1>4
<1> QED
  BY <1>5 DEF Picos, N

\* picos_to_ts() is exact.
LEMMA PicosToTsExact ==
  ASSUME NEW x \in Int
  PROVE  TsToPicos(PicosToTs(x)) = x
<1>0. PsPerNs \in Nat \ {0} /\ NsPerSec \in Nat \ {0}
  BY UnitsAssumption
<1>1. PICK nanos \in Int : nanos = CDiv(x - CRem(x, PsPerNs), PsPerNs)
  BY <1>0, CDivisionExact
<1>2. PICK r \in Int : r = CRem(x, PsPerNs) /\ PsPerNs * nanos + r = x
  BY <1>0, <1>1, CDivisionExact
<1>3. PICK sec \in Int : sec = CDiv(nanos - CRem(nanos, NsPerSec), NsPerSec)
  BY <1>0, CDivisionExact
<1>4. PICK nsec \in Int : nsec = CRem(nanos, NsPerSec) /\ NsPerSec * sec + nsec = nanos
  BY <1>0, <1>3, CDivisionExact
<1>5. PicosToTs(x) = [sec |-> sec, nsec |-> nsec, phase |-> r]
  BY <1>1, <1>2, <1>3, <1>4, Zenon DEF PicosToTs
<1>6. sec * NsPerSec + nsec = nanos
  BY <1>0, <1>4
<1>7. nanos * PsPerNs + r = x
  BY <1>0, <1>2
<1> QED
  BY <1>5, <1>6, <1>7 DEF TsToPicos

\* ts_add() is exact.
LEMMA TsAddExact ==
  ASSUME NEW a \in Timestamp, NEW b \in Timestamp
  PROVE  TsToPicos(TsAdd(a, b)) = TsToPicos(a) + TsToPicos(b)
<1>1. /\ a.sec \in Int /\ b.sec \in Int /\ a.nsec \in Int /\ b.nsec \in Int
      /\ a.phase \in Int /\ b.phase \in Int
  BY DEF Timestamp
<1>2. PICK s \in Int : s = a.sec + b.sec
  BY <1>1
<1>3. PICK n \in Int : n = a.nsec + b.nsec
  BY <1>1
<1>4. PICK p \in Int : p = a.phase + b.phase
  BY <1>1
<1>5. PICK c \in Int : c = Carry(p, PsPerNs)
  BY UnitsPositive, CarryType
<1>6. PICK m \in Int : m = n + c
  OBVIOUS
<1>7. PICK d \in Int : d = Carry(m, NsPerSec)
  BY UnitsPositive, CarryType
<1>8. TsAdd(a, b) = [sec |-> s + d, nsec |-> m - d * NsPerSec, phase |-> p - c * PsPerNs]
  BY <1>2, <1>3, <1>4, <1>5, <1>6, <1>7, Zenon DEF TsAdd
<1>9. TsToPicos(TsAdd(a, b)) = Picos(s + d, m - d * NsPerSec, p - c * PsPerNs)
  BY <1>8 DEF TsToPicos, Picos
<1>10. PICK e \in Int : e = p - c * PsPerNs
  BY UnitsPositive
<1>11. Picos(s + d, m - d * NsPerSec, e) = Picos(s, m, e)
  <2>1. PICK k \in Int : k = -d
    OBVIOUS
  <2>2. PICK to \in Int : to = s + d /\ to = s - k
    BY <2>1
  <2>3. PICK nsec \in Int : nsec = m - d * NsPerSec /\ nsec = m + k * NsPerSec
    BY <2>1, UnitsPositive
  <2>4. Picos(to, nsec, e) = Picos(s, m, e)
    BY <2>2, <2>3, MovesToNsec
  <2> QED
    BY <2>2, <2>3, <2>4
<1>12. Picos(s, m, e) = Picos(s, n, p)
  <2>1. PICK k \in Int : k = -c /\ m = n - k
    BY <1>6
  <2>2. e = p + k * PsPerNs
    BY <1>10, <2>1, UnitsPositive
  <2> QED
    BY <2>1, <2>2, MovesToPhase
<1>13. Picos(s, n, p) = Picos(a.sec, a.nsec, a.phase) + Picos(b.sec, b.nsec, b.phase)
  <2>1. PICK s1 \in Int : s1 = a.sec
    BY <1>1
  <2>2. PICK s2 \in Int : s2 = b.sec
    BY <1>1
  <2>3. PICK n1 \in Int : n1 = a.nsec
    BY <1>1
  <2>4. PICK n2 \in Int : n2 = b.nsec
    BY <1>1
  <2>5. PICK p1 \in Int : p1 = a.phase
    BY <1>1
  <2>6. PICK p2 \in Int : p2 = b.phase
    BY <1>1
  <2>7. s = s1 + s2 /\ n = n1 + n2 /\ p = p1 + p2
    BY <1>2, <1>3, <1>4, <2>1, <2>2, <2>3, <2>4, <2>5, <2>6
  <2>8. Picos(s, n, p) = Picos(s1, n1, p1) + Picos(s2, n2, p2)
    <3> DEFINE N == NsPerSec
               P == PsPerNs
    <3>0. N \in Int /\ P \in Int
      BY UnitsPositive
    <3> HIDE DEF N, P
    <3>1. PICK a1 \in Int : a1 = s1 * N + n1
      BY <3>0
    <3>2. PICK a2 \in Int : a2 = s2 * N + n2
      BY <3>0
    <3>3. s * N + n = a1 + a2
      <4>1. s * N = s1 * N + s2 * N /\ s1 * N \in Int /\ s2 * N \in Int
        BY <2>7, <3>0, Distributes
      <4> QED
        BY <2>7, <3>1, <3>2, <4>1
    <3>4. (a1 + a2) * P = a1 * P + a2 * P /\ a1 * P \in Int /\ a2 * P \in Int
      BY <3>0, Distributes
    <3> QED
      BY <2>7, <3>1, <3>2, <3>3, <3>4 DEF Picos, N, P
  <2> QED
    BY <2>1, <2>2, <2>3, <2>4, <2>5, <2>6, <2>8
<1>14. TsToPicos(a) = Picos(a.sec, a.nsec, a.phase) /\ TsToPicos(b) = Picos(b.sec, b.nsec, b.phase)
  BY DEF TsToPicos, Picos
<1> QED
  BY <1>9, <1>10, <1>11, <1>12, <1>13, <1>14

\* ts_hardwarize() loses nothing, whichever of its steps it takes.
LEMMA TsHardwarizeExact ==
  ASSUME NEW ts \in Timestamp
  PROVE  TsToPicos(TsHardwarize(ts)) = TsToPicos(ts)
<1>1. ASSUME NEW x \in Timestamp
      PROVE  /\ x.sec \in Int /\ x.nsec \in Int /\ x.phase \in Int
             /\ TsToPicos(x) = Picos(x.sec, x.nsec, x.phase)
  BY DEF Timestamp, TsToPicos, Picos
<1>2. ASSUME NEW x \in Timestamp
      PROVE  TsToPicos(WholeCycles(x)) = TsToPicos(x)
  <2>0. /\ x.sec \in Int /\ x.nsec \in Int /\ x.phase \in Int
        /\ TsToPicos(x) = Picos(x.sec, x.nsec, x.phase)
    BY <1>1
  <2>1. PICK k \in Int : k = x.nsec % CycleNs
    BY <2>0, CycleNsType
  <2>2. PICK n \in Int : n = x.nsec - k
    BY <2>0
  <2>3. PICK p \in Int : p = x.phase + k * PsPerNs
    BY <2>0, UnitsPositive
  <2>4. WholeCycles(x) = IF x.nsec > 0 THEN [x EXCEPT !.nsec = n, !.phase = p] ELSE x
    BY <2>1, <2>2, <2>3 DEF WholeCycles
  <2>5. Picos(x.sec, n, p) = Picos(x.sec, x.nsec, x.phase)
    BY <2>0, <2>1, <2>2, <2>3, MovesToPhase
  <2>6. PICK y : y = [x EXCEPT !.nsec = n, !.phase = p]
    OBVIOUS
  <2>7. TsToPicos(y) = Picos(x.sec, n, p)
    BY <2>6 DEF Timestamp, TsToPicos, Picos
  <2>8. WholeCycles(x) = y \/ WholeCycles(x) = x
    BY <2>4, <2>6
  <2> QED
    BY <2>0, <2>5, <2>7, <2>8
<1>3. ASSUME NEW x \in Timestamp
      PROVE  TsToPicos(NsecNotNegative(x)) = TsToPicos(x)
  <2>0. /\ x.sec \in Int /\ x.nsec \in Int /\ x.phase \in Int
        /\ TsToPicos(x) = Picos(x.sec, x.nsec, x.phase)
    BY <1>1
  <2>1. PICK k \in Int : k = 1 /\ k * NsPerSec = NsPerSec
    BY UnitsPositive
  <2>2. PICK n \in Int : n = x.nsec + NsPerSec /\ n = x.nsec + k * NsPerSec
    BY <2>0, <2>1, UnitsPositive
  <2>3. PICK s \in Int : s = x.sec - 1 /\ s = x.sec - k
    BY <2>0, <2>1
  <2>4. NsecNotNegative(x) = IF x.nsec < 0 THEN [x EXCEPT !.nsec = n, !.sec = s] ELSE x
    BY <2>1, <2>2, <2>3 DEF NsecNotNegative
  <2>5. Picos(s, n, x.phase) = Picos(x.sec, x.nsec, x.phase)
    BY <2>0, <2>1, <2>2, <2>3, MovesToNsec
  <2>6. PICK y : y = [x EXCEPT !.nsec = n, !.sec = s]
    OBVIOUS
  <2>7. TsToPicos(y) = Picos(s, n, x.phase)
    BY <2>6 DEF Timestamp, TsToPicos, Picos
  <2>8. NsecNotNegative(x) = y \/ NsecNotNegative(x) = x
    BY <2>4, <2>6
  <2> QED
    BY <2>0, <2>5, <2>7, <2>8
<1>4. ASSUME NEW x \in Timestamp
      PROVE  TsToPicos(LastSecondNegative(x)) = TsToPicos(x)
  <2>0. /\ x.sec \in Int /\ x.nsec \in Int /\ x.phase \in Int
        /\ TsToPicos(x) = Picos(x.sec, x.nsec, x.phase)
    BY <1>1
  <2>1. PICK k \in Int : k = -1 /\ k * NsPerSec = -NsPerSec
    BY UnitsPositive
  <2>2. PICK n \in Int : n = x.nsec - NsPerSec /\ n = x.nsec + k * NsPerSec
    BY <2>0, <2>1, UnitsPositive
  <2>3. PICK s \in Int : s = x.sec + 1 /\ s = x.sec - k
    BY <2>0, <2>1
  <2>4. LastSecondNegative(x) = IF x.sec = -1 /\ x.nsec > 0 THEN [x EXCEPT !.nsec = n, !.sec = s] ELSE x
    BY <2>1, <2>2, <2>3 DEF LastSecondNegative
  <2>5. Picos(s, n, x.phase) = Picos(x.sec, x.nsec, x.phase)
    BY <2>0, <2>1, <2>2, <2>3, MovesToNsec
  <2>6. PICK y : y = [x EXCEPT !.nsec = n, !.sec = s]
    OBVIOUS
  <2>7. TsToPicos(y) = Picos(s, n, x.phase)
    BY <2>6 DEF Timestamp, TsToPicos, Picos
  <2>8. LastSecondNegative(x) = y \/ LastSecondNegative(x) = x
    BY <2>4, <2>6
  <2> QED
    BY <2>0, <2>5, <2>7, <2>8
<1>5. ASSUME NEW x \in Timestamp
      PROVE  TsToPicos(LastCycleInPhase(x)) = TsToPicos(x)
  <2>0. /\ x.sec \in Int /\ x.nsec \in Int /\ x.phase \in Int
        /\ TsToPicos(x) = Picos(x.sec, x.nsec, x.phase)
    BY <1>1
  <2>1. PICK k \in Int : k = -CycleNs /\ k * PsPerNs = -(CycleNs * PsPerNs)
    BY UnitsPositive, CycleNsType
  <2>2. PICK n \in Int : n = x.nsec + CycleNs /\ n = x.nsec - k
    BY <2>0, <2>1, CycleNsType
  <2>3. PICK p \in Int : p = x.phase - CycleNs * PsPerNs /\ p = x.phase + k * PsPerNs
    BY <2>0, <2>1, UnitsPositive, CycleNsType
  <2>4. LastCycleInPhase(x) = IF x.sec = 0 /\ x.nsec < 0 /\ x.nsec >= -CycleNs THEN [x EXCEPT !.nsec = n, !.phase = p] ELSE x
    BY <2>1, <2>2, <2>3 DEF LastCycleInPhase
  <2>5. Picos(x.sec, n, p) = Picos(x.sec, x.nsec, x.phase)
    BY <2>0, <2>1, <2>2, <2>3, MovesToPhase
  <2>6. PICK y : y = [x EXCEPT !.nsec = n, !.phase = p]
    OBVIOUS
  <2>7. TsToPicos(y) = Picos(x.sec, n, p)
    BY <2>6 DEF Timestamp, TsToPicos, Picos
  <2>8. LastCycleInPhase(x) = y \/ LastCycleInPhase(x) = x
    BY <2>4, <2>6
  <2> QED
    BY <2>0, <2>5, <2>7, <2>8
<1>6. PICK whole \in Timestamp : whole = WholeCycles(ts)
  BY HardwarizeSteps
<1>7. PICK notNegative \in Timestamp : notNegative = NsecNotNegative(whole)
  BY HardwarizeSteps
<1>8. PICK last \in Timestamp : last = LastSecondNegative(notNegative)
  BY HardwarizeSteps
<1>9. TsHardwarize(ts) = LastCycleInPhase(last)
  BY <1>6, <1>7, <1>8 DEF TsHardwarize
<1> QED
  BY <1>2, <1>3, <1>4, <1>5, <1>6, <1>7, <1>8, <1>9

-----------------------------------------------------------------------------
(* ts_sub(), and what is normalised.                                       *)

\* What is borrowed, or nothing: afterwards nothing is negative.
LEMMA BorrowDoes ==
  ASSUME NEW x \in Int, NEW unit \in Nat \ {0}
  PROVE  /\ Borrow(x, unit) \in Int /\ Borrow(x, unit) * unit \in Int
         /\ x + Borrow(x, unit) * unit >= 0
<1>1. PICK q \in Int : q = x \div unit /\ unit * q + (x % unit) = x /\ x % unit \in 0 .. unit - 1
  BY Division
<1>2. Borrow(x, unit) = IF x < 0 THEN -q ELSE 0
  BY <1>1 DEF Borrow
<1>3. CASE x < 0
  <2>1. PICK b \in Int : b = -q /\ Borrow(x, unit) = b
    BY <1>2, <1>3
  <2>2. b * unit = -(unit * q) /\ unit * q \in Int
    BY <2>1
  <2>3. x + b * unit = x % unit
    BY <1>1, <2>2
  <2> QED
    BY <1>1, <2>1, <2>3
<1>4. CASE x >= 0
  BY <1>2, <1>4
<1> QED
  BY <1>3, <1>4

\* What is carried, out of what is not negative: afterwards nothing is too large.
LEMMA CarryDoes ==
  ASSUME NEW x \in Nat, NEW unit \in Nat \ {0}
  PROVE  /\ Carry(x, unit) \in Nat
         /\ x - Carry(x, unit) * unit \in 0 .. unit - 1
<1>0. x \in Int
  OBVIOUS
<1>1. PICK q \in Int : q = x \div unit /\ unit * q + (x % unit) = x /\ x % unit \in 0 .. unit - 1
  BY <1>0, Division
<1>2. q \in Nat
  BY <1>1
<1>3. Carry(x, unit) = IF x >= unit THEN q ELSE 0
  BY <1>1 DEF Carry
<1>4. CASE x >= unit
  <2>1. unit * q = q * unit
    BY <1>1
  <2>2. x - q * unit = x % unit
    BY <1>1, <2>1
  <2> QED
    BY <1>1, <1>2, <1>3, <1>4, <2>2
<1>5. CASE x < unit
  BY <1>3, <1>5
<1> QED
  BY <1>4, <1>5

\* ts_sub() is exact, and leaves neither nanoseconds nor a phase below zero.
LEMMA TsSubExact ==
  ASSUME NEW a \in Timestamp, NEW b \in Timestamp
  PROVE  /\ TsSub(a, b) \in Timestamp
         /\ TsToPicos(TsSub(a, b)) = TsToPicos(a) - TsToPicos(b)
         /\ TsSub(a, b).nsec >= 0 /\ TsSub(a, b).phase >= 0
<1>1. /\ a.sec \in Int /\ b.sec \in Int /\ a.nsec \in Int /\ b.nsec \in Int
      /\ a.phase \in Int /\ b.phase \in Int
  BY DEF Timestamp
<1>2. PICK s \in Int : s = a.sec - b.sec
  BY <1>1
<1>3. PICK n \in Int : n = a.nsec - b.nsec
  BY <1>1
<1>4. PICK p \in Int : p = a.phase - b.phase
  BY <1>1
<1>5. PICK c \in Int : c = Borrow(p, PsPerNs) /\ p + c * PsPerNs >= 0
  BY UnitsAssumption, BorrowDoes
<1>6. PICK m \in Int : m = n - c
  OBVIOUS
<1>7. PICK d \in Int : d = Borrow(m, NsPerSec) /\ m + d * NsPerSec >= 0
  BY UnitsAssumption, BorrowDoes
<1>8. PICK sec \in Int : sec = s - d
  OBVIOUS
<1>9. PICK nsec \in Int : nsec = m + d * NsPerSec
  BY UnitsPositive
<1>10. PICK phase \in Int : phase = p + c * PsPerNs
  BY UnitsPositive
<1>11. TsSub(a, b) = [sec |-> sec, nsec |-> nsec, phase |-> phase]
  BY <1>2, <1>3, <1>4, <1>5, <1>6, <1>7, <1>8, <1>9, <1>10, Zenon DEF TsSub
<1>12. TsToPicos(TsSub(a, b)) = Picos(sec, nsec, phase)
  BY <1>11 DEF TsToPicos, Picos
<1>13. Picos(sec, nsec, phase) = Picos(s, m, phase)
  BY <1>8, <1>9, MovesToNsec
<1>14. Picos(s, m, phase) = Picos(s, n, p)
  BY <1>6, <1>10, MovesToPhase
<1>15. Picos(s, n, p) = Picos(a.sec, a.nsec, a.phase) - Picos(b.sec, b.nsec, b.phase)
  <2>1. PICK s1 \in Int : s1 = a.sec
    BY <1>1
  <2>2. PICK s2 \in Int : s2 = b.sec
    BY <1>1
  <2>3. PICK n1 \in Int : n1 = a.nsec
    BY <1>1
  <2>4. PICK n2 \in Int : n2 = b.nsec
    BY <1>1
  <2>5. PICK p1 \in Int : p1 = a.phase
    BY <1>1
  <2>6. PICK p2 \in Int : p2 = b.phase
    BY <1>1
  <2>7. s = s1 - s2 /\ n = n1 - n2 /\ p = p1 - p2
    BY <1>2, <1>3, <1>4, <2>1, <2>2, <2>3, <2>4, <2>5, <2>6
  <2>8. Picos(s, n, p) = Picos(s1, n1, p1) - Picos(s2, n2, p2)
    <3> DEFINE N == NsPerSec
               P == PsPerNs
    <3>0. N \in Int /\ P \in Int
      BY UnitsPositive
    <3> HIDE DEF N, P
    <3>1. PICK a1 \in Int : a1 = s1 * N + n1
      BY <3>0
    <3>2. PICK a2 \in Int : a2 = s2 * N + n2
      BY <3>0
    <3>3. s * N + n = a1 - a2
      <4>1. s * N = s1 * N - s2 * N /\ s1 * N \in Int /\ s2 * N \in Int
        BY <2>7, <3>0, Distributes
      <4> QED
        BY <2>7, <3>1, <3>2, <4>1
    <3>4. (a1 - a2) * P = a1 * P - a2 * P /\ a1 * P \in Int /\ a2 * P \in Int
      BY <3>0, Distributes
    <3> QED
      BY <2>7, <3>1, <3>2, <3>3, <3>4 DEF Picos, N, P
  <2> QED
    BY <2>1, <2>2, <2>3, <2>4, <2>5, <2>6, <2>7, <2>8
<1>16. TsToPicos(a) = Picos(a.sec, a.nsec, a.phase) /\ TsToPicos(b) = Picos(b.sec, b.nsec, b.phase)
  BY DEF TsToPicos, Picos
<1>17. TsSub(a, b) \in Timestamp /\ TsSub(a, b).nsec = nsec /\ TsSub(a, b).phase = phase
  BY <1>11 DEF Timestamp
<1>18. nsec >= 0 /\ phase >= 0
  BY <1>5, <1>7, <1>9, <1>10
<1> QED
  BY <1>12, <1>13, <1>14, <1>15, <1>16, <1>17, <1>18

\* ts_add() normalises what is not negative.
LEMMA TsAddNormalised ==
  ASSUME NEW a \in Timestamp, NEW b \in Timestamp,
         a.nsec >= 0, b.nsec >= 0, a.phase >= 0, b.phase >= 0
  PROVE  Normalised(TsAdd(a, b))
<1>1. /\ a.nsec \in Int /\ b.nsec \in Int /\ a.phase \in Int /\ b.phase \in Int
  BY DEF Timestamp
<1>2. PICK p \in Nat : p = a.phase + b.phase
  BY <1>1
<1>3. PICK c \in Nat : c = Carry(p, PsPerNs) /\ p - c * PsPerNs \in 0 .. PsPerNs - 1
  BY UnitsAssumption, CarryDoes
<1>4. PICK n \in Nat : n = a.nsec + b.nsec + c
  BY <1>1
<1>5. PICK d \in Nat : d = Carry(n, NsPerSec) /\ n - d * NsPerSec \in 0 .. NsPerSec - 1
  BY UnitsAssumption, CarryDoes
<1>6. TsAdd(a, b).nsec = n - d * NsPerSec
  BY <1>2, <1>3, <1>4, <1>5, Zenon DEF TsAdd
<1>7. TsAdd(a, b).phase = p - c * PsPerNs
  BY <1>2, <1>3, Zenon DEF TsAdd
<1> QED
  BY <1>3, <1>5, <1>6, <1>7 DEF Normalised

\* picos_to_ts() of what is not negative.
LEMMA PicosToTsNotNegative ==
  ASSUME NEW x \in Nat
  PROVE  PicosToTs(x).nsec >= 0 /\ PicosToTs(x).phase >= 0
<1>0. PsPerNs \in Nat \ {0} /\ NsPerSec \in Nat \ {0}
  BY UnitsAssumption
<1>1. CRem(x, PsPerNs) = x % PsPerNs
  <2>1. x >= 0
    OBVIOUS
  <2> QED
    BY <2>1, Zenon DEF CRem
<1>2. PICK q \in Int : PsPerNs * q + (x % PsPerNs) = x /\ x % PsPerNs \in 0 .. PsPerNs - 1 /\ q = x \div PsPerNs
  BY <1>0, Division
<1>3. q \in Nat
  BY <1>0, <1>2
<1>4. PICK y \in Nat : y = x - (x % PsPerNs) /\ y = PsPerNs * q
  BY <1>0, <1>2, <1>3
<1>5. CDiv(y, PsPerNs) = q
  <2>1. CDiv(y, PsPerNs) = y \div PsPerNs
    BY <1>4 DEF CDiv
  <2>2. (PsPerNs * q) \div PsPerNs = q
    BY <1>0, <1>2, MultipleDivides
  <2> QED
    BY <1>4, <2>1, <2>2
<1>6. CRem(q, NsPerSec) = q % NsPerSec /\ q % NsPerSec \in Nat
  BY <1>0, <1>3 DEF CRem
<1>7. PicosToTs(x).nsec = CRem(CDiv(x - CRem(x, PsPerNs), PsPerNs), NsPerSec)
  BY DEF PicosToTs
<1>8. PicosToTs(x).phase = CRem(x, PsPerNs)
  BY DEF PicosToTs
<1> QED
  <2>1. x - CRem(x, PsPerNs) = y
    BY <1>1, <1>4
  <2>2. PicosToTs(x).nsec = CRem(q, NsPerSec)
    BY <1>5, <1>7, <2>1
  <2>3. CRem(q, NsPerSec) >= 0
    BY <1>6
  <2>4. CRem(x, PsPerNs) >= 0
    BY <1>1, <1>2
  <2> QED
    BY <1>8, <2>2, <2>3, <2>4

-----------------------------------------------------------------------------
(* ts_hardwarize(): what is left to the counters, and what to the phase.   *)

\* A second is a number of cycles, a cycle a number of nanoseconds.
LEMMA WholeNumbers ==
  /\ CycleNs * PsPerNs = ClockPeriod
  /\ \E j \in Int : NsPerSec = CycleNs * j
<1>0. PsPerNs \in Nat \ {0} /\ NsPerSec \in Nat \ {0} /\ ClockPeriod \in Nat \ {0}
  BY UnitsAssumption
<1>1. PICK k \in Int : k = ClockPeriod \div PsPerNs /\ PsPerNs * k = ClockPeriod
  <2>1. ClockPeriod \in Int
    BY <1>0
  <2>2. PsPerNs * (ClockPeriod \div PsPerNs) + (ClockPeriod % PsPerNs) = ClockPeriod
        /\ ClockPeriod \div PsPerNs \in Int
    BY <1>0, <2>1, Division
  <2>3. ClockPeriod % PsPerNs = 0
    BY PeriodAssumption
  <2>4. PICK y \in Int : y = ClockPeriod \div PsPerNs
    BY <2>2
  <2>5. PsPerNs * y + 0 = ClockPeriod
    BY <2>2, <2>3, <2>4
  <2> QED
    BY <1>0, <2>4, <2>5
<1>2. CycleNs = k
  <2>1. PICK a \in Int : a = ClockPeriod + PsPerNs - 1
    BY <1>0
  <2>2. PICK r \in 0 .. PsPerNs - 1 : r = PsPerNs - 1
    BY <1>0
  <2>3. a = PsPerNs * k + r
    BY <1>0, <1>1, <2>1, <2>2
  <2>4. a \div PsPerNs = k
    BY <1>0, <2>3, QuotientUnique
  <2> QED
    BY <2>1, <2>4 DEF CycleNs
<1>3. k \in Nat \ {0}
  BY <1>2, CycleNsType
<1>4. NsPerSec % k = 0
  BY <1>1, PeriodAssumption
<1>5. NsPerSec \in Int
  BY <1>0
<1>6. k * (NsPerSec \div k) + (NsPerSec % k) = NsPerSec /\ NsPerSec \div k \in Int
  BY <1>3, <1>5, Division
<1>7. PICK j \in Int : j = NsPerSec \div k
  BY <1>6
<1>8. k * j = NsPerSec
  BY <1>3, <1>4, <1>5, <1>6, <1>7
<1> QED
  BY <1>0, <1>1, <1>2, <1>8

\* Two fields of a timestamp, set.
LEMMA FieldsSet ==
  ASSUME NEW ts \in Timestamp, NEW x \in Int, NEW y \in Int
  PROVE  /\ [ts EXCEPT !.nsec = x, !.phase = y].sec = ts.sec
         /\ [ts EXCEPT !.nsec = x, !.phase = y].nsec = x
         /\ [ts EXCEPT !.nsec = x, !.phase = y].phase = y
         /\ [ts EXCEPT !.nsec = x, !.sec = y].sec = y
         /\ [ts EXCEPT !.nsec = x, !.sec = y].nsec = x
         /\ [ts EXCEPT !.nsec = x, !.sec = y].phase = ts.phase
<1>1. PICK a : a = [ts EXCEPT !.nsec = x, !.phase = y]
  OBVIOUS
<1>2. PICK b : b = [ts EXCEPT !.nsec = x, !.sec = y]
  OBVIOUS
<1>3. a.sec = ts.sec /\ a.nsec = x /\ a.phase = y
  BY <1>1 DEF Timestamp
<1>4. b.sec = y /\ b.nsec = x /\ b.phase = ts.phase
  BY <1>2 DEF Timestamp
<1> QED
  BY <1>1, <1>2, <1>3, <1>4

\* What a timestamp is.
Fields(ts, sec, nsec, phase) == ts.sec = sec /\ ts.nsec = nsec /\ ts.phase = phase

\* The three outcomes of ts_hardwarize() for a timestamp with nanoseconds from zero:
\* m is the number of whole cycles in nanoseconds, e what is left.
LEMMA HardwarizeCases ==
  ASSUME NEW ts \in Timestamp, NEW s \in Int, NEW n \in Nat, NEW p \in Int, Fields(ts, s, n, p),
         NEW r \in Int, r = n % CycleNs,
         NEW m \in Nat, m = n - r, NEW e \in Int, e = p + r * PsPerNs,
         NEW late \in Int, late = m - NsPerSec
  PROVE  /\ s = -1 /\ m > 0 /\ late < 0 /\ late >= -CycleNs =>
              Fields(TsHardwarize(ts), 0, late + CycleNs, e - CycleNs * PsPerNs)
         /\ s = -1 /\ m > 0 /\ ~(late < 0 /\ late >= -CycleNs) => Fields(TsHardwarize(ts), 0, late, e)
         /\ ~(s = -1 /\ m > 0) => Fields(TsHardwarize(ts), s, m, e)
<1>1. PICK whole \in Timestamp : whole = WholeCycles(ts)
  BY HardwarizeSteps
<1>2. PICK notNegative \in Timestamp : notNegative = NsecNotNegative(whole)
  BY HardwarizeSteps
<1>3. PICK last \in Timestamp : last = LastSecondNegative(notNegative)
  BY HardwarizeSteps
<1>4. TsHardwarize(ts) = LastCycleInPhase(last)
  BY <1>1, <1>2, <1>3 DEF TsHardwarize
<1>5. Fields(whole, s, m, e)
  <2>1. CASE n > 0
    <3>1. whole = [ts EXCEPT !.nsec = m, !.phase = e]
      BY <1>1, <2>1 DEF WholeCycles, Fields
    <3> QED
      BY <3>1, FieldsSet DEF Fields
  <2>2. CASE n = 0
    <3>1. r = 0
      BY <2>2, CycleNsType
    <3>2. r * PsPerNs = 0
      BY <3>1, UnitsPositive
    <3>3. m = n /\ e = p
      BY <3>1, <3>2
    <3>4. whole = ts
      BY <1>1, <2>2 DEF WholeCycles, Fields
    <3> QED
      BY <3>3, <3>4
  <2> QED
    BY <2>1, <2>2
<1>6. notNegative = whole
  BY <1>2, <1>5 DEF NsecNotNegative, Fields
<1>7. s = -1 /\ m > 0 => Fields(last, 0, late, e)
  <2> SUFFICES ASSUME s = -1, m > 0 PROVE Fields(last, 0, late, e)
    OBVIOUS
  <2>1. PICK zero \in Int : zero = s + 1 /\ zero = 0
    OBVIOUS
  <2>2. last = [whole EXCEPT !.nsec = late, !.sec = zero]
    BY <1>3, <1>5, <1>6, <2>1 DEF LastSecondNegative, Fields
  <2> QED
    BY <1>5, <2>1, <2>2, FieldsSet DEF Fields
<1>8. ~(s = -1 /\ m > 0) => last = whole
  BY <1>3, <1>5, <1>6 DEF LastSecondNegative, Fields
<1>9. ~(s = -1 /\ m > 0) => LastCycleInPhase(last) = whole
  BY <1>5, <1>8 DEF LastCycleInPhase, Fields
<1>10. s = -1 /\ m > 0 /\ ~(late < 0 /\ late >= -CycleNs) => LastCycleInPhase(last) = last
  BY <1>7 DEF LastCycleInPhase, Fields
<1>11. s = -1 /\ m > 0 /\ late < 0 /\ late >= -CycleNs =>
         Fields(LastCycleInPhase(last), 0, late + CycleNs, e - CycleNs * PsPerNs)
  <2> SUFFICES ASSUME s = -1, m > 0, late < 0, late >= -CycleNs
               PROVE  Fields(LastCycleInPhase(last), 0, late + CycleNs, e - CycleNs * PsPerNs)
    OBVIOUS
  <2>1. PICK x \in Int : x = late + CycleNs
    BY CycleNsType
  <2>2. PICK y \in Int : y = e - CycleNs * PsPerNs
    BY CycleNsType, UnitsPositive
  <2>3. LastCycleInPhase(last) = [last EXCEPT !.nsec = x, !.phase = y]
    BY <1>7, <2>1, <2>2 DEF LastCycleInPhase, Fields
  <2> QED
    BY <1>7, <2>1, <2>2, <2>3, FieldsSet DEF Fields
<1> QED
  BY <1>4, <1>5, <1>7, <1>9, <1>10, <1>11

\* A multiple leaves no rest.
LEMMA MultipleRest ==
  ASSUME NEW m \in Nat \ {0}, NEW k \in Int
  PROVE  (m * k) % m = 0
<1>1. PICK a \in Int : a = m * k
  OBVIOUS
<1>2. a = m * k + 0 /\ 0 \in 0 .. m - 1
  BY <1>1
<1>3. a % m = 0
  BY <1>2, QuotientUnique
<1> QED
  BY <1>1, <1>3

\* A multiple that is not far from zero.
LEMMA MultipleBetween ==
  ASSUME NEW m \in Nat \ {0}, NEW k \in Int
  PROVE  /\ k >= 1 => m * k >= m
         /\ k <= -2 => m * k <= -(m + m)
         /\ k >= 0 => m * k >= 0
<1>1. CASE k >= 1
  <2>1. PICK d \in Nat : d = k - 1
    BY <1>1
  <2>2. m * k = m * d + m /\ m * d >= 0
    BY <2>1
  <2> QED
    BY <1>1, <2>2
<1>2. CASE k <= -2
  <2>1. PICK d \in Nat : d = -2 - k
    BY <1>2
  <2>2. m * k = -(m * d) - (m + m) /\ m * d >= 0
    BY <2>1
  <2> QED
    BY <1>2, <2>2
<1>3. CASE k \in {0, -1}
  BY <1>3
<1> QED
  BY <1>1, <1>2, <1>3

\* ts_hardwarize() leaves whole cycles to the counters, up to a cycle in either direction to
\* the phase, and only that if no more is wrong.
LEMMA HardwarizeSplits ==
  ASSUME NEW ts \in Timestamp, Normalised(ts), NsPerSec > CycleNs
  PROVE  /\ TsHardwarize(ts).nsec % CycleNs = 0
         /\ TsHardwarize(ts).phase \in -ClockPeriod .. ClockPeriod - 1
         /\ (TsHardwarize(ts).sec = 0 /\ TsHardwarize(ts).nsec = 0)
              <=> TsToPicos(ts) \in -ClockPeriod .. ClockPeriod - 1
<1> DEFINE C == CycleNs
           N == NsPerSec
           P == PsPerNs
           D == ClockPeriod
<1>0. C \in Nat \ {0} /\ N \in Nat \ {0} /\ P \in Nat \ {0} /\ D \in Nat \ {0}
  BY UnitsAssumption, CycleNsType
<1>1. C * P = D /\ N > C
  BY WholeNumbers
<1>2. PICK j \in Int : N = C * j
  BY WholeNumbers
<1>3. PICK s \in Int : s = ts.sec
  BY DEF Timestamp
<1>4. PICK n \in Nat : n = ts.nsec /\ n <= N - 1
  <2>1. ts.nsec \in 0 .. N - 1 /\ N - 1 \in Int
    BY <1>0 DEF Normalised
  <2> HIDE DEF N
  <2> QED
    BY <2>1
<1>5. PICK p \in Nat : p = ts.phase /\ p <= P - 1
  <2>1. ts.phase \in 0 .. P - 1 /\ P - 1 \in Int
    BY <1>0 DEF Normalised
  <2> HIDE DEF P
  <2> QED
    BY <2>1
<1>6. PICK r \in Int : r = n % C /\ r >= 0 /\ r <= C - 1
  BY <1>0, <1>4
<1>7. PICK q \in Int : C * q + r = n
  <2>1. n \in Int
    OBVIOUS
  <2>2. C * (n \div C) + (n % C) = n /\ n \div C \in Int
    BY <1>0, <2>1, Division
  <2> QED
    BY <1>6, <2>2
<1>8. PICK m \in Int : m = n - r /\ m = C * q
  BY <1>0, <1>7
<1>9. PICK e \in Int : e = p + r * P
  BY <1>0
<1>10. PICK late \in Int : late = m - N
  BY <1>0
<1> HIDE DEF C, N, P, D
<1>11. j >= 2 /\ q >= 0 /\ q < j
  <2>1. ~(q <= -1)
    <3>1. PICK d \in Int : d = -1 - q
      OBVIOUS
    <3>2. C * q = -(C * d) - C
      BY <1>0, <3>1
    <3>3. d >= 0 => C * d >= 0
      BY <1>0
    <3> QED
      BY <1>0, <1>4, <1>6, <1>7, <3>1, <3>2, <3>3
  <2>2. ~(q >= j)
    <3>1. PICK d \in Int : d = q - j
      OBVIOUS
    <3>2. C * q = C * d + C * j /\ C * d \in Int /\ C * j \in Int
      BY <1>0, <3>1
    <3>3. d >= 0 => C * d >= 0
      BY <1>0
    <3> QED
      BY <1>0, <1>2, <1>4, <1>6, <1>7, <3>1, <3>2, <3>3
  <2>3. ~(j <= 1)
    <3>1. PICK d \in Int : d = 1 - j
      OBVIOUS
    <3>2. C * j = C - C * d /\ C * d \in Int
      BY <1>0, <3>1
    <3>3. d >= 0 => C * d >= 0
      BY <1>0
    <3> QED
      BY <1>0, <1>1, <1>2, <3>1, <3>2, <3>3
  <2> QED
    BY <2>1, <2>2, <2>3
<1>12. m >= 0
  BY <1>0, <1>8, <1>11, MultipleBetween
<1>13. e >= 0 /\ e <= D - 1
  <2>1. PICK x \in Nat : x = C - 1 - r
    BY <1>0, <1>6
  <2>2. x * P = C * P - P - r * P
    <3>1. (C - 1 - r) * P = C * P - P - r * P
      BY <1>0
    <3> QED
      BY <2>1, <3>1
  <2>3. x * P >= 0 /\ r * P >= 0
    BY <1>0, <1>6, <2>1
  <2>4. PICK rp \in Int : rp = r * P
    BY <1>0
  <2>5. PICK xp \in Int : xp = x * P
    BY <1>0
  <2>6. xp = D - P - rp
    BY <1>1, <2>2, <2>4, <2>5
  <2> QED
    BY <1>0, <1>5, <1>9, <2>3, <2>4, <2>5, <2>6
<1>14. PICK u \in Int : u = s * j + q
  OBVIOUS
<1>15. TsToPicos(ts) = D * u + e
  <2>1. TsToPicos(ts) = Picos(s, n, p)
    BY <1>3, <1>4, <1>5 DEF TsToPicos, Picos
  <2>2. Picos(s, m, e) = Picos(s, n, p)
    BY <1>8, <1>9, MovesToPhase DEF P
  <2>3. Picos(s, m, e) = (s * N + m) * P + e
    BY DEF Picos, N, P
  <2>4. s * N + m = C * u
    <3>1. s * (C * j) = C * (s * j)
      BY <1>0
    <3>2. C * (s * j + q) = C * (s * j) + C * q
      BY <1>0
    <3> QED
      BY <1>2, <1>8, <1>14, <3>1, <3>2
  <2>5. (C * u) * P = (C * P) * u
    BY <1>0
  <2> QED
    BY <1>1, <2>1, <2>2, <2>3, <2>4, <2>5
<1>16. /\ s = -1 /\ m > 0 /\ late < 0 /\ late >= -C => Fields(TsHardwarize(ts), 0, late + C, e - D)
       /\ s = -1 /\ m > 0 /\ ~(late < 0 /\ late >= -C) => Fields(TsHardwarize(ts), 0, late, e)
       /\ ~(s = -1 /\ m > 0) => Fields(TsHardwarize(ts), s, m, e)
  <2>1. Fields(ts, s, n, p)
    BY <1>3, <1>4, <1>5 DEF Fields
  <2> QED
    BY <1>1, <1>6, <1>8, <1>9, <1>10, <1>12, <2>1, HardwarizeCases DEF C, N, P
<1>17. late = C * (q - j) /\ m % C = 0 /\ late % C = 0
  <2>1. C * (q - j) = C * q - C * j
    BY <1>0
  <2>2. late = C * (q - j)
    BY <1>2, <1>8, <1>10, <2>1
  <2>3. PICK d \in Int : d = q - j /\ late = C * d
    BY <2>2
  <2>4. (C * d) % C = 0
    BY <1>0, MultipleRest
  <2>5. (C * q) % C = 0
    BY <1>0, MultipleRest
  <2> QED
    BY <1>8, <2>2, <2>3, <2>4, <2>5
<1>18. /\ u >= 1 => D * u + e >= D
       /\ u <= -2 => D * u + e < -D
       /\ D * u \in Int
  <2>1. u >= 1 => D * u >= D
    BY <1>0, MultipleBetween
  <2>2. u <= -2 => D * u <= -(D + D)
    BY <1>0, MultipleBetween
  <2> QED
    BY <1>0, <1>13, <2>1, <2>2
<1>19. CASE s = -1 /\ m > 0 /\ late < 0 /\ late >= -C
  <2>1. q - j = -1
    <3>1. q - j <= -2 => C * (q - j) <= -(C + C)
      BY <1>0, MultipleBetween
    <3> QED
      BY <1>0, <1>11, <1>17, <1>19, <3>1
  <2>2. late = -C
    BY <1>0, <1>17, <2>1
  <2>3. u = -1
    BY <1>14, <1>19, <2>1
  <2>4. TsToPicos(ts) = e - D
    BY <1>0, <1>15, <2>3
  <2>5. Fields(TsHardwarize(ts), 0, 0, e - D)
    BY <1>0, <1>16, <1>19, <2>2
  <2>6. 0 % C = 0
    BY <1>0
  <2> QED
    BY <1>0, <1>13, <2>4, <2>5, <2>6 DEF Fields, C, D
<1>20. CASE s = -1 /\ m > 0 /\ ~(late < 0 /\ late >= -C)
  <2>1. late < -C
    BY <1>0, <1>4, <1>6, <1>8, <1>10, <1>20
  <2>2. q - j # -1
    <3>1. q - j = -1 => C * (q - j) = -C
      BY <1>0
    <3> QED
      BY <1>0, <1>17, <2>1, <3>1
  <2>3. u <= -2
    BY <1>11, <1>14, <1>20, <2>2
  <2>4. ~(TsToPicos(ts) \in -D .. D - 1)
    BY <1>0, <1>15, <1>18, <2>3
  <2>5. Fields(TsHardwarize(ts), 0, late, e) /\ late # 0
    BY <1>0, <1>16, <1>20, <2>1
  <2> QED
    BY <1>0, <1>13, <1>17, <2>4, <2>5 DEF Fields, C, D
<1>21. CASE ~(s = -1 /\ m > 0)
  <2>1. Fields(TsHardwarize(ts), s, m, e)
    BY <1>16, <1>21
  <2>2. CASE s = 0 /\ m = 0
    <3>1. q = 0
      <4>1. q >= 1 => C * q >= C
        BY <1>0, MultipleBetween
      <4> QED
        BY <1>0, <1>8, <1>11, <2>2, <4>1
    <3>2. u = 0
      BY <1>14, <2>2, <3>1
    <3>3. TsToPicos(ts) = e
      BY <1>0, <1>15, <3>2
    <3> QED
      BY <1>0, <1>13, <1>17, <2>1, <2>2, <3>3 DEF Fields, C, D
  <2>3. CASE ~(s = 0 /\ m = 0)
    <3>1. u >= 1 \/ u <= -2
      <4>1. CASE s >= 1
        <5>1. PICK d \in Nat : d = s - 1
          BY <4>1
        <5>2. s * j = d * j + j /\ d * j >= 0
          BY <1>11, <5>1
        <5> QED
          BY <1>11, <1>14, <5>2
      <4>2. CASE s = 0
        <5>1. q # 0
          BY <1>0, <1>8, <2>3, <4>2
        <5> QED
          BY <1>11, <1>14, <4>2, <5>1
      <4>3. CASE s = -1
        <5>1. m = 0
          BY <1>12, <1>21, <4>3
        <5>2. q = 0
          <6>1. q >= 1 => C * q >= C
            BY <1>0, MultipleBetween
          <6> QED
            BY <1>0, <1>8, <1>11, <5>1, <6>1
        <5> QED
          BY <1>11, <1>14, <4>3, <5>2
      <4>4. CASE s <= -2
        <5>1. PICK d \in Nat : d = -2 - s
          BY <4>4
        <5>2. s * j = -(d * j) - (j + j) /\ d * j >= 0
          BY <1>11, <5>1
        <5> QED
          BY <1>11, <1>14, <5>2
      <4> QED
        BY <4>1, <4>2, <4>3, <4>4
    <3>2. ~(TsToPicos(ts) \in -D .. D - 1)
      BY <1>0, <1>15, <1>18, <3>1
    <3> QED
      BY <1>0, <1>13, <1>17, <2>1, <2>3, <3>2 DEF Fields, C, D
  <2> QED
    BY <2>2, <2>3
<1> QED
  BY <1>19, <1>20, <1>21

=============================================================================
