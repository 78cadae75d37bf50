------------------------ MODULE BoundaryClockProofs -------------------------
(***************************************************************************)
(* BoundaryClock for any number of ports, records and masters: the types,  *)
(* and that the clock follows at most one master; and of Bmc, that the     *)
(* comparison is an order.                                                 *)
(***************************************************************************)
EXTENDS BoundaryClock, FiniteSetTheorems, WellFoundedInduction, TLAPS

-----------------------------------------------------------------------------
(* The inductive invariant.                                                *)

\* A record is empty, or has the number of the port that holds it and what a
\* master announced.
HeardAt(d, p) ==
  d.port # 0 => d.port = p /\ [d EXCEPT !.port = 0] \in Announcements

OwnRecords ==
  /\ \A p \in Ports : \A r \in Records : HeardAt(port[p].foreign[r], p)
  /\ \A m \in due : announced[m] # Empty

\* Who may be the primary slave: no port that is only master, and one that
\* decides only while it takes part and the clock may be a slave at all.
Entitled ==
  \A p \in Ports : port[p].role = "PRIMARY_SLAVE" =>
    /\ config[p] # "M_ONLY"
    /\ config[p] # "S_ONLY" => port[p].state # "LISTENING" /\ clock.own.clockClass >= 128

\* The ports with a link that are primary slaves.
Primary == {p \in Ports : port[p].linkUP /\ port[p].role = "PRIMARY_SLAVE"}

\* While a decision is carried out, those that have had their turn go by
\* bestForeign, whose port stays the same; else there is one in all.
Following ==
  IF clock.event
  THEN \A p \in Primary : p < at => config[p] = "S_ONLY" \/ p = clock.bestForeign[1]
  ELSE \A p, q \in Primary : p = q

IInv == TypeOK /\ OwnRecords /\ Entitled /\ Following

-----------------------------------------------------------------------------
(* Numbers, and the choice of the best of several data sets.               *)

\* A set of natural numbers that is not empty has a least member.
LEMMA LeastMember ==
  ASSUME NEW S \in SUBSET Nat, S # {}
  PROVE  \E n \in S : \A m \in S : n <= m
<1> DEFINE UpTo(n) == S \cap 0 .. n
           Parts == {UpTo(n) : n \in S}
<1>1. Parts \subseteq FiniteSubsetsOf(Nat)
  <2>1. ASSUME NEW n \in S
        PROVE  UpTo(n) \in SUBSET Nat /\ IsFiniteSet(UpTo(n))
    <3>1. IsFiniteSet(0 .. n)
      BY FS_Interval
    <3>2. QED
      BY <3>1, FS_Subset, Zenon
  <2>2. QED
    BY <2>1 DEF FiniteSubsetsOf
<1>2. PICK P \in Parts : \A Q \in Parts : ~ (<<Q, P>> \in StrictSubsetOrdering(Nat))
  <2>1. IsWellFoundedOn(StrictSubsetOrdering(Nat), FiniteSubsetsOf(Nat))
    BY FS_StrictSubsetOrderingWellFounded, Zenon
  <2>2. Parts # {}
    OBVIOUS
  <2>3. QED
    BY <2>1, <2>2, <1>1, WFMin, Zenon
<1>3. PICK n \in S : P = UpTo(n)
  BY <1>2
<1>4. ASSUME NEW m \in S, m < n
      PROVE  FALSE
  <2>1. UpTo(m) \subseteq UpTo(n) /\ UpTo(m) # UpTo(n)
    BY <1>4
  <2>2. UpTo(m) \in Parts /\ UpTo(n) \in Parts
    OBVIOUS
  <2>3. <<UpTo(m), UpTo(n)>> \in StrictSubsetOrdering(Nat)
    BY <2>1, <2>2, <1>1 DEF StrictSubsetOrdering
  <2>4. QED
    BY <2>2, <2>3, <1>2, <1>3
<1>5. QED
  BY <1>4

\* A set of numbers up to n that is not empty has a minimum and a maximum.
LEMMA Bounded ==
  ASSUME NEW n \in Nat, NEW S \in SUBSET (0 .. n), S # {}
  PROVE  /\ Min(S) \in S /\ \A x \in S : Min(S) <= x
         /\ Max(S) \in S
<1>1. \E x \in S : \A y \in S : x <= y
  BY LeastMember
<1>2. \E x \in S : \A y \in S : x >= y
  <2> DEFINE R == {n - y : y \in S}
  <2>1. R \in SUBSET Nat /\ R # {}
    <3>1. \A y \in S : n - y \in Nat
      OBVIOUS
    <3> QED
      BY <3>1, Zenon
  <2>2. PICK z \in R : \A y \in R : z <= y
    <3> HIDE DEF R
    <3> QED
      BY <2>1, LeastMember
  <2>3. PICK x \in S : z = n - x
    BY <2>2
  <2>4. ASSUME NEW y \in S
        PROVE  x >= y
    BY <2>2, <2>3
  <2> QED
    BY <2>3, <2>4
<1> QED
  BY <1>1, <1>2, Zenon DEF Min, Max

\* The turn k of the loop of BestIndex(), f being what the turns before it found.
Turn(f, k, seq, among, own) ==
  IF k = 0 THEN 0
  ELSE IF k \in among /\ (f[k - 1] = 0 \/ Better(seq[k], seq[f[k - 1]], own))
       THEN k ELSE f[k - 1]

IsLoop(f, n, seq, among, own) == f = [k \in 0 .. n |-> Turn(f, k, seq, among, own)]

\* The loop of BestIndex() is a function: it exists for sequences of any length.
LEMMA LoopExists ==
  ASSUME NEW n \in Nat, NEW seq, NEW among, NEW own
  PROVE  \E f : IsLoop(f, n, seq, among, own)
<1> DEFINE Loop(f, k) == Turn(f, k, seq, among, own)
           Until(m) == \E f : f = [k \in 0 .. m |-> Loop(f, k)]
           Bad == {m \in 0 .. n : ~Until(m)}
<1>1. Until(0)
  <2> DEFINE f == [k \in 0 .. 0 |-> 0]
  <2>1. \A k \in 0 .. 0 : Loop(f, k) = 0
    BY DEF Turn
  <2>2. f = [k \in 0 .. 0 |-> Loop(f, k)]
    BY <2>1
  <2> QED
    BY <2>2
<1>2. ASSUME NEW m \in 1 .. n, Until(m - 1)
      PROVE  Until(m)
  <2>1. PICK f : f = [k \in 0 .. m - 1 |-> Loop(f, k)]
    BY <1>2
  <2> DEFINE g == [k \in 0 .. m |-> IF k = m THEN Loop(f, m) ELSE f[k]]
  <2>2. \A k \in 0 .. m : k # m => g[k] = f[k] /\ f[k] = Loop(f, k)
    <3> HIDE DEF Loop
    <3> QED
      BY <2>1
  <2>3. \A k \in 0 .. m : Loop(g, k) = Loop(f, k)
    <3>1. \A k \in 0 .. m : k # 0 => k - 1 \in 0 .. m /\ k - 1 # m
      OBVIOUS
    <3>2. \A k \in 0 .. m : k # 0 => g[k - 1] = f[k - 1]
      BY <3>1, <2>2
    <3> HIDE DEF g
    <3> QED
      BY <3>2 DEF Turn
  <2>4. g = [k \in 0 .. m |-> Loop(g, k)]
    <3> HIDE DEF Loop
    <3> QED
      BY <2>2, <2>3
  <2> HIDE DEF g, Loop
  <2> QED
    BY <2>4
<1>3. Until(n)
  <2> SUFFICES ASSUME ~Until(n) PROVE FALSE
    OBVIOUS
  <2>1. Bad \in SUBSET Nat /\ n \in Bad
    <3> HIDE DEF Until
    <3> QED
      OBVIOUS
  <2>2. PICK m \in Bad : \A k \in Bad : m <= k
    <3> HIDE DEF Bad
    <3> QED
      BY <2>1, LeastMember
  <2> HIDE DEF Until
  <2>3. m \in 1 .. n /\ m - 1 \in 0 .. n /\ ~Until(m)
    BY <1>1, <2>2
  <2>4. m - 1 \in Bad
    BY <1>2, <2>3
  <2> QED
    BY <2>2, <2>3, <2>4
<1> QED
  BY <1>3 DEF IsLoop

\* What BestIndex() finds: one of the indices it looks at, if there is one.
LEMMA BestIndexFinds ==
  ASSUME NEW n \in Nat, NEW seq, Len(seq) = n, NEW among \in SUBSET (1 .. n), NEW own
  PROVE  /\ BestIndex(seq, among, own) \in among \cup {0}
         /\ among # {} => BestIndex(seq, among, own) # 0
<1>0. \E f : IsLoop(f, n, seq, among, own)
  BY LoopExists
<1> DEFINE Loop(f, k) == Turn(f, k, seq, among, own)
           best == CHOOSE f : f = [k \in 0 .. n |-> Loop(f, k)]
<1>1. BestIndex(seq, among, own) = best[n]
  BY Zenon DEF BestIndex, Turn
<1>2. best = [k \in 0 .. n |-> Loop(best, k)]
  <2>1. \E f : f = [k \in 0 .. n |-> Loop(f, k)]
    BY <1>0, Zenon DEF IsLoop
  <2> HIDE DEF Loop
  <2> QED
    BY <2>1
<1> HIDE DEF best
<1>3. \A k \in 0 .. n : best[k] = Loop(best, k)
  <2> HIDE DEF Loop
  <2> QED
    BY <1>2
<1> DEFINE Fine(k) == best[k] \in among \cup {0} /\ (best[k] = 0 => \A i \in among : i > k)
           Bad == {k \in 0 .. n : ~Fine(k)}
<1>4. Fine(0)
  BY <1>3 DEF Turn
<1>5. ASSUME NEW k \in 1 .. n, Fine(k - 1)
      PROVE  Fine(k)
  <2>1. best[k] = IF k \in among /\ (best[k - 1] = 0 \/ Better(seq[k], seq[best[k - 1]], own))
                  THEN k ELSE best[k - 1]
    BY <1>3 DEF Turn
  <2>2. CASE best[k] = k /\ k \in among
    BY <2>2
  <2>3. CASE best[k] = best[k - 1] /\ (k \notin among \/ best[k - 1] # 0)
    BY <2>3, <1>5
  <2> QED
    BY <2>1, <2>2, <2>3
<1>6. Bad = {}
  <2> SUFFICES ASSUME Bad # {} PROVE FALSE
    OBVIOUS
  <2>1. Bad \in SUBSET Nat
    OBVIOUS
  <2>2. PICK m \in Bad : \A k \in Bad : m <= k
    <3> HIDE DEF Bad
    <3> QED
      BY <2>1, LeastMember
  <2> HIDE DEF Fine
  <2>3. m \in 1 .. n /\ m - 1 \in 0 .. n /\ ~Fine(m)
    BY <1>4, <2>2
  <2>4. m - 1 \in Bad
    BY <1>5, <2>3
  <2> QED
    BY <2>2, <2>3, <2>4
<1>7. Fine(n)
  <2> HIDE DEF Fine
  <2> QED
    BY <1>6
<1>8. best[n] \in among \cup {0} /\ (best[n] = 0 => among = {})
  <2>1. \A i \in among : ~(i > n)
    OBVIOUS
  <2> QED
    BY <1>7, <2>1
<1> HIDE DEF Fine, Loop
<1> QED
  BY <1>1, <1>8

-----------------------------------------------------------------------------
(* The comparison of data sets.                                            *)

\* The sign of a number.
LEMMA SignIs ==
  ASSUME NEW n \in Int
  PROVE  /\ Sign(n) \in -1 .. 1 /\ Sign(-n) = -Sign(n)
         /\ Sign(n) < 0 <=> n < 0
         /\ Sign(n) = 0 <=> n = 0
BY DEF Sign

\* The qualities are numbers.
LEMMA QualityType ==
  ASSUME NEW d \in DataSets, NEW i \in 1 .. 6
  PROVE  /\ Quality(d)[i] \in Nat /\ FirstByte(Quality(d)[i]) \in Byte
         /\ i # 4 /\ i # 6 => FirstByte(Quality(d)[i]) = Quality(d)[i]
<1>1. Quality(d)[i] \in Nat /\ (i # 4 /\ i # 6 => Quality(d)[i] \in Byte)
  BY DEF Quality, DataSets, Byte
<1>2. \A n \in Nat : FirstByte(n) \in Byte /\ (n \in Byte => FirstByte(n) = n)
  BY DEF FirstByte, Byte
<1> QED
  BY <1>1, <1>2

\* The quality that decides is the first that differs.
LEMMA FirstDecides ==
  ASSUME NEW a \in DataSets, NEW b \in DataSets, a.gm # b.gm
  PROVE  \E i \in 1 .. 6 :
           /\ Quality(a)[i] # Quality(b)[i]
           /\ \A j \in 1 .. i - 1 : Quality(a)[j] = Quality(b)[j]
           /\ ByGrandmaster(a, b) =
                IF i = 6 THEN Sign(Quality(a)[i] - Quality(b)[i])
                ELSE Sign(FirstByte(Quality(a)[i]) - FirstByte(Quality(b)[i]))
<1> DEFINE S == {i \in 1 .. 6 : Quality(a)[i] # Quality(b)[i]}
<1>1. Quality(a)[6] = a.gm /\ Quality(b)[6] = b.gm
  BY DEF Quality
<1>2. S # {} /\ S \in SUBSET Nat
  BY <1>1
<1>3. PICK i \in S : \A j \in S : i <= j
  <2> HIDE DEF S
  <2> QED
    BY <1>2, LeastMember
<1>4. Min(S) = i
  <2> HIDE DEF S
  <2>0. \E x \in S : \A y \in S : x <= y
    BY <1>3, Zenon
  <2>1. Min(S) \in S /\ \A j \in S : Min(S) <= j
    BY <2>0, Zenon DEF Min
  <2>2. PICK m \in S : m = Min(S) /\ \A j \in S : m <= j
    BY <2>1
  <2>3. m \in Nat /\ i \in Nat /\ m <= i /\ i <= m
    BY <1>2, <1>3, <2>2
  <2>4. m = i
    BY <2>3
  <2> QED
    BY <2>2, <2>4
<1>5. ByGrandmaster(a, b) =
        IF i = 6 THEN Sign(Quality(a)[i] - Quality(b)[i])
        ELSE Sign(FirstByte(Quality(a)[i]) - FirstByte(Quality(b)[i]))
  BY <1>4, Zenon DEF ByGrandmaster
<1>6. i \in 1 .. 6 /\ Quality(a)[i] # Quality(b)[i]
      /\ \A j \in 1 .. i - 1 : Quality(a)[j] = Quality(b)[j]
  BY <1>3
<1> QED
  BY <1>5, <1>6

\* The sender is the receiver, or it is above or below.
LEMMA ReceiverIs ==
  ASSUME NEW d \in DataSets, NEW own \in Nat
  PROVE  /\ Receiver(d, own) \in 0 .. 2
         /\ d.sender = own <=> Receiver(d, own) = 0
<1>1. d.sender \in Int /\ own \in Int
  BY DEF DataSets
<1> QED
  BY <1>1 DEF Receiver

\* The cases of ByTopology(), of integers.
LEMMA TopologyCases ==
  ASSUME NEW a \in DataSets, NEW b \in DataSets, NEW own \in Nat
  PROVE  \E further \in Int :
           /\ further = a.steps - b.steps
           /\ further > 1 => ByTopology(a, b, own) = 1
           /\ further < -1 => ByTopology(a, b, own) = -1
           /\ further = 1 => ByTopology(a, b, own) = Receiver(a, own)
           /\ further = -1 => ByTopology(a, b, own) = -Receiver(b, own)
           /\ further = 0 => ByTopology(a, b, own) =
                2 * (IF a.sender # b.sender THEN Sign(a.sender - b.sender)
                                            ELSE Sign(a.port - b.port))
<1>1. PICK further \in Int : further = a.steps - b.steps
  BY DEF DataSets
<1>2. ASSUME further > 1
      PROVE  ByTopology(a, b, own) = 1
  BY <1>1, <1>2 DEF ByTopology
<1>3. ASSUME further < -1
      PROVE  ByTopology(a, b, own) = -1
  BY <1>1, <1>3 DEF ByTopology
<1>4. ASSUME further = 1
      PROVE  ByTopology(a, b, own) = Receiver(a, own)
  BY <1>1, <1>4 DEF ByTopology
<1>5. ASSUME further = -1
      PROVE  ByTopology(a, b, own) = -Receiver(b, own)
  BY <1>1, <1>5 DEF ByTopology
<1>6. ASSUME further = 0
      PROVE  ByTopology(a, b, own) =
               2 * (IF a.sender # b.sender THEN Sign(a.sender - b.sender)
                                           ELSE Sign(a.port - b.port))
  BY <1>1, <1>6 DEF ByTopology
<1> QED
  BY <1>1, <1>2, <1>3, <1>4, <1>5, <1>6

\* The comparison is one of the five outcomes of the code.
LEMMA ComparisonType ==
  ASSUME NEW a \in DataSets, NEW b \in DataSets, NEW own \in Nat
  PROVE  Comparison(a, b, own) \in -2 .. 2
<1>1. ByTopology(a, b, own) \in -2 .. 2
  <2>1. /\ a.sender - b.sender \in Int /\ a.port - b.port \in Int
    BY DEF DataSets
  <2>2. Sign(a.sender - b.sender) \in -1 .. 1 /\ Sign(a.port - b.port) \in -1 .. 1
    BY <2>1, SignIs
  <2>3. Receiver(a, own) \in 0 .. 2 /\ Receiver(b, own) \in 0 .. 2
    BY ReceiverIs
  <2> QED
    BY <2>2, <2>3, TopologyCases
<1>2. ASSUME a.gm # b.gm
      PROVE  ByGrandmaster(a, b) \in -2 .. 2
  <2>1. PICK i \in 1 .. 6 :
          ByGrandmaster(a, b) =
                IF i = 6 THEN Sign(Quality(a)[i] - Quality(b)[i])
                ELSE Sign(FirstByte(Quality(a)[i]) - FirstByte(Quality(b)[i]))
    BY <1>2, FirstDecides, Zenon
  <2>2. /\ Quality(a)[i] \in Nat /\ Quality(b)[i] \in Nat
        /\ FirstByte(Quality(a)[i]) \in Byte /\ FirstByte(Quality(b)[i]) \in Byte
    BY QualityType, Zenon
  <2>3. /\ Quality(a)[i] - Quality(b)[i] \in Int
        /\ FirstByte(Quality(a)[i]) - FirstByte(Quality(b)[i]) \in Int
    <3>1. \A x, y \in Nat : x - y \in Int
      OBVIOUS
    <3>2. \A x, y \in Byte : x - y \in Int
      BY DEF Byte
    <3> QED
      BY <2>2, <3>1, <3>2
  <2>4. ByGrandmaster(a, b) \in -1 .. 1
    BY <2>1, <2>3, SignIs
  <2> QED
    BY <2>4
<1> QED
  BY <1>1, <1>2 DEF Comparison

\* Whichever of two data sets is given first, the outcome is the same
\* (bmcDataSetComparison()).
THEOREM ComparisonIsAntisymmetric ==
  ASSUME NEW a \in DataSets, NEW b \in DataSets, NEW own \in Nat
  PROVE  Comparison(a, b, own) = -Comparison(b, a, own)
<1>1. CASE IsEmpty(a) \/ IsEmpty(b)
  BY <1>1 DEF Comparison
<1>2. CASE ~IsEmpty(a) /\ ~IsEmpty(b) /\ a.gm = b.gm
  <2>1. ByTopology(a, b, own) = -ByTopology(b, a, own)
    <3>1. /\ a.sender \in Nat /\ b.sender \in Nat /\ a.port \in Nat /\ b.port \in Nat
          /\ a.steps \in Nat /\ b.steps \in Nat
      BY DEF DataSets
    <3>2. \A x, y \in Nat : x - y \in Int /\ y - x = -(x - y)
      OBVIOUS
    <3>3. \A x, y \in Nat : Sign(x - y) \in -1 .. 1 /\ Sign(y - x) = -Sign(x - y)
      <4> SUFFICES ASSUME NEW x \in Nat, NEW y \in Nat
                   PROVE  Sign(x - y) \in -1 .. 1 /\ Sign(y - x) = -Sign(x - y)
        OBVIOUS
      <4>1. x - y \in Int /\ y - x = -(x - y)
        BY <3>2
      <4> QED
        BY <4>1, SignIs
    <3>4. Receiver(a, own) \in 0 .. 2 /\ Receiver(b, own) \in 0 .. 2
      BY ReceiverIs
    <3>5. PICK f \in Int :
           /\ f = a.steps - b.steps
           /\ f > 1 => ByTopology(a, b, own) = 1
           /\ f < -1 => ByTopology(a, b, own) = -1
           /\ f = 1 => ByTopology(a, b, own) = Receiver(a, own)
           /\ f = -1 => ByTopology(a, b, own) = -Receiver(b, own)
           /\ f = 0 => ByTopology(a, b, own) =
                2 * (IF a.sender # b.sender THEN Sign(a.sender - b.sender)
                                            ELSE Sign(a.port - b.port))
      BY TopologyCases
    <3>6. PICK g \in Int :
           /\ g = b.steps - a.steps
           /\ g > 1 => ByTopology(b, a, own) = 1
           /\ g < -1 => ByTopology(b, a, own) = -1
           /\ g = 1 => ByTopology(b, a, own) = Receiver(b, own)
           /\ g = -1 => ByTopology(b, a, own) = -Receiver(a, own)
           /\ g = 0 => ByTopology(b, a, own) =
                2 * (IF b.sender # a.sender THEN Sign(b.sender - a.sender)
                                            ELSE Sign(b.port - a.port))
      BY TopologyCases
    <3>7. g = -f
      BY <3>1, <3>5, <3>6
    <3>8. CASE f # 0
      BY <3>4, <3>5, <3>6, <3>7, <3>8
    <3>9. CASE f = 0
      <4>1. PICK s \in -1 .. 1 : s = Sign(a.sender - b.sender) /\ Sign(b.sender - a.sender) = -s
        BY <3>1, <3>3
      <4>2. PICK q \in -1 .. 1 : q = Sign(a.port - b.port) /\ Sign(b.port - a.port) = -q
        BY <3>1, <3>3
      <4>3. ByTopology(a, b, own) = 2 * (IF a.sender # b.sender THEN s ELSE q)
        BY <3>5, <3>9, <4>1, <4>2
      <4>4. ByTopology(b, a, own) = 2 * (IF a.sender # b.sender THEN -s ELSE -q)
        BY <3>6, <3>7, <3>9, <4>1, <4>2
      <4> QED
        BY <4>3, <4>4
    <3> QED
      BY <3>5, <3>8, <3>9
  <2> QED
    BY <1>2, <2>1 DEF Comparison
<1>3. CASE ~IsEmpty(a) /\ ~IsEmpty(b) /\ a.gm # b.gm
  <2>1. PICK i \in 1 .. 6 :
           /\ Quality(a)[i] # Quality(b)[i]
           /\ \A j \in 1 .. i - 1 : Quality(a)[j] = Quality(b)[j]
           /\ ByGrandmaster(a, b) =
                IF i = 6 THEN Sign(Quality(a)[i] - Quality(b)[i])
                ELSE Sign(FirstByte(Quality(a)[i]) - FirstByte(Quality(b)[i]))
    BY <1>3, FirstDecides
  <2>2. PICK k \in 1 .. 6 :
           /\ Quality(b)[k] # Quality(a)[k]
           /\ \A j \in 1 .. k - 1 : Quality(b)[j] = Quality(a)[j]
           /\ ByGrandmaster(b, a) =
                IF k = 6 THEN Sign(Quality(b)[k] - Quality(a)[k])
                ELSE Sign(FirstByte(Quality(b)[k]) - FirstByte(Quality(a)[k]))
    BY <1>3, FirstDecides
  <2>3. i = k
    <3>1. ~(i < k) /\ ~(k < i)
      BY <2>1, <2>2
    <3> QED
      BY <3>1
  <2>4. \A x, y \in Nat : Sign(y - x) = -Sign(x - y)
    <3> SUFFICES ASSUME NEW x \in Nat, NEW y \in Nat
                 PROVE  Sign(y - x) = -Sign(x - y)
      OBVIOUS
    <3>1. x - y \in Int /\ y - x = -(x - y)
      OBVIOUS
    <3> QED
      BY <3>1, SignIs
  <2>5. /\ Quality(a)[i] \in Nat /\ Quality(b)[i] \in Nat
        /\ FirstByte(Quality(a)[i]) \in Byte /\ FirstByte(Quality(b)[i]) \in Byte
    BY QualityType, Zenon
  <2>6. Byte \subseteq Nat
    BY DEF Byte
  <2>7. /\ Sign(Quality(b)[i] - Quality(a)[i]) = -Sign(Quality(a)[i] - Quality(b)[i])
        /\ Sign(FirstByte(Quality(b)[i]) - FirstByte(Quality(a)[i])) =
             -Sign(FirstByte(Quality(a)[i]) - FirstByte(Quality(b)[i]))
    BY <2>4, <2>5, <2>6, Zenon
  <2>8. ByGrandmaster(b, a) = -ByGrandmaster(a, b)
    BY <2>1, <2>2, <2>3, <2>7
  <2>9. Comparison(a, b, own) \in -2 .. 2
    BY ComparisonType
  <2>10. Comparison(a, b, own) = ByGrandmaster(a, b) /\ Comparison(b, a, own) = ByGrandmaster(b, a)
    BY <1>3 DEF Comparison
  <2> QED
    BY <2>8, <2>9, <2>10
<1> QED
  BY <1>1, <1>2, <1>3

\* What a data set is ranked by, in the order of IEEE 1588, figures 27 and 28.
Rank(d) ==
  <<d.priority1, d.clockClass, d.accuracy, d.variance, d.priority2, d.gm,
    d.steps, d.sender, d.port>>

Ranked(a, b) ==
  \E i \in 1 .. 9 : Rank(a)[i] < Rank(b)[i] /\ \A j \in 1 .. i - 1 : Rank(a)[j] = Rank(b)[j]

\* Data sets of masters: a grandmaster has one data set of its own, neither was
\* sent by the clock that compares, and the first byte tells the variances apart.
Comparable(a, b, own) ==
  /\ ~IsEmpty(a) /\ ~IsEmpty(b) /\ a.sender # own /\ b.sender # own
  /\ a.gm = b.gm => \A i \in 1 .. 5 : Quality(a)[i] = Quality(b)[i]
  /\ FirstByte(a.variance) < FirstByte(b.variance) <=> a.variance < b.variance
  /\ FirstByte(b.variance) < FirstByte(a.variance) <=> b.variance < a.variance

\* bmcDataSetComparison() prefers the data set that comes first in the order of
\* the standard, so that it is a total order and the choice of the best of
\* several does not depend on the order in which they are looked at.
THEOREM ComparisonIsLexicographic ==
  ASSUME NEW a \in DataSets, NEW b \in DataSets, NEW own \in Nat, Comparable(a, b, own)
  PROVE  Better(a, b, own) <=> Ranked(a, b)
<1>0. /\ \A i \in 1 .. 9 : Rank(a)[i] \in Nat /\ Rank(b)[i] \in Nat
      /\ \A i \in 1 .. 6 : Rank(a)[i] = Quality(a)[i] /\ Rank(b)[i] = Quality(b)[i]
      /\ Rank(a)[4] = a.variance /\ Rank(b)[4] = b.variance
      /\ Rank(a)[6] = a.gm /\ Rank(b)[6] = b.gm
      /\ Rank(a)[7] = a.steps /\ Rank(b)[7] = b.steps
      /\ Rank(a)[8] = a.sender /\ Rank(b)[8] = b.sender
      /\ Rank(a)[9] = a.port /\ Rank(b)[9] = b.port
  <2>1. ASSUME NEW d \in DataSets
        PROVE  /\ \A i \in 1 .. 9 : Rank(d)[i] \in Nat
               /\ \A i \in 1 .. 6 : Rank(d)[i] = Quality(d)[i]
               /\ Rank(d)[4] = d.variance /\ Rank(d)[6] = d.gm /\ Rank(d)[7] = d.steps
               /\ Rank(d)[8] = d.sender /\ Rank(d)[9] = d.port
    <3>1. /\ d.priority1 \in Nat /\ d.clockClass \in Nat /\ d.accuracy \in Nat
          /\ d.variance \in Nat /\ d.priority2 \in Nat /\ d.gm \in Nat
          /\ d.steps \in Nat /\ d.sender \in Nat /\ d.port \in Nat
      BY DEF DataSets, Byte
    <3> QED
      BY <3>1 DEF Rank, Quality
  <2> QED
    BY <2>1
<1>1. ASSUME NEW i \in 1 .. 9, Rank(a)[i] # Rank(b)[i],
             \A j \in 1 .. i - 1 : Rank(a)[j] = Rank(b)[j]
      PROVE  Ranked(a, b) <=> Rank(a)[i] < Rank(b)[i]
  <2>1. ASSUME Ranked(a, b)
        PROVE  Rank(a)[i] < Rank(b)[i]
    <3>1. PICK k \in 1 .. 9 : Rank(a)[k] < Rank(b)[k] /\ \A j \in 1 .. k - 1 : Rank(a)[j] = Rank(b)[j]
      BY <2>1 DEF Ranked
    <3>2. Rank(a)[k] # Rank(b)[k]
      BY <1>0, <3>1
    <3>3. ~(i < k) /\ ~(k < i)
      BY <1>1, <3>1, <3>2
    <3>4. i = k
      BY <3>3
    <3> QED
      BY <3>1, <3>4
  <2>2. ASSUME Rank(a)[i] < Rank(b)[i]
        PROVE  Ranked(a, b)
    BY <1>1, <2>2 DEF Ranked
  <2> QED
    BY <2>1, <2>2
<1>2. \A x, y \in Nat : /\ Sign(x - y) \in -1 .. 1
                        /\ Sign(x - y) < 0 <=> x < y
                        /\ Sign(x - y) = 0 <=> x = y
  <2> SUFFICES ASSUME NEW x \in Nat, NEW y \in Nat
               PROVE  /\ Sign(x - y) \in -1 .. 1
                      /\ Sign(x - y) < 0 <=> x < y
                      /\ Sign(x - y) = 0 <=> x = y
    OBVIOUS
  <2>1. PICK n \in Int : n = x - y
    OBVIOUS
  <2>2. Sign(n) \in -1 .. 1 /\ (Sign(n) < 0 <=> n < 0) /\ (Sign(n) = 0 <=> n = 0)
    BY SignIs
  <2> QED
    BY <2>1, <2>2
<1>3. CASE a.gm # b.gm
  <2>1. PICK i \in 1 .. 6 :
           /\ Quality(a)[i] # Quality(b)[i]
           /\ \A j \in 1 .. i - 1 : Quality(a)[j] = Quality(b)[j]
           /\ ByGrandmaster(a, b) =
                IF i = 6 THEN Sign(Quality(a)[i] - Quality(b)[i])
                ELSE Sign(FirstByte(Quality(a)[i]) - FirstByte(Quality(b)[i]))
    BY <1>3, FirstDecides
  <2>2. Ranked(a, b) <=> Quality(a)[i] < Quality(b)[i]
    <3>1. Rank(a)[i] # Rank(b)[i] /\ i \in 1 .. 9
      BY <1>0, <2>1
    <3>2. \A j \in 1 .. i - 1 : Rank(a)[j] = Rank(b)[j]
      BY <1>0, <2>1
    <3>3. Ranked(a, b) <=> Rank(a)[i] < Rank(b)[i]
      BY <1>1, <3>1, <3>2
    <3> QED
      BY <1>0, <3>3
  <2>3. Better(a, b, own) <=> ByGrandmaster(a, b) < 0
    BY <1>3 DEF Better, Comparison, Comparable
  <2>4. ByGrandmaster(a, b) < 0 <=> Quality(a)[i] < Quality(b)[i]
    <3>1. /\ Quality(a)[i] \in Nat /\ Quality(b)[i] \in Nat
          /\ FirstByte(Quality(a)[i]) \in Byte /\ FirstByte(Quality(b)[i]) \in Byte
          /\ i # 4 /\ i # 6 => /\ FirstByte(Quality(a)[i]) = Quality(a)[i]
                               /\ FirstByte(Quality(b)[i]) = Quality(b)[i]
      BY QualityType, Zenon
    <3>2. Byte \subseteq Nat
      BY DEF Byte
    <3>3. CASE i = 6
      BY <1>2, <2>1, <3>1, <3>3
    <3>4. CASE i # 6
      <4>1. ByGrandmaster(a, b) < 0 <=> FirstByte(Quality(a)[i]) < FirstByte(Quality(b)[i])
        <5>1. FirstByte(Quality(a)[i]) \in Nat /\ FirstByte(Quality(b)[i]) \in Nat
          BY <3>1, <3>2
        <5>2. ByGrandmaster(a, b) = Sign(FirstByte(Quality(a)[i]) - FirstByte(Quality(b)[i]))
          BY <2>1, <3>4
        <5> QED
          BY <1>2, <5>1, <5>2
      <4>2. CASE i = 4
        <5>1. FirstByte(Quality(a)[i]) < FirstByte(Quality(b)[i]) <=> Quality(a)[i] < Quality(b)[i]
          BY <1>0, <4>2 DEF Comparable
        <5> QED
          BY <4>1, <5>1
      <4>3. CASE i # 4
        BY <3>1, <3>4, <4>1, <4>3
      <4> QED
        BY <4>2, <4>3
    <3> QED
      BY <3>3, <3>4
  <2> QED
    BY <2>2, <2>3, <2>4
<1>4. CASE a.gm = b.gm
  <2>1. \A j \in 1 .. 6 : Rank(a)[j] = Rank(b)[j]
    <3>1. \A j \in 1 .. 5 : Quality(a)[j] = Quality(b)[j]
      BY <1>4 DEF Comparable
    <3> QED
      BY <1>0, <1>4, <3>1
  <2>2. Better(a, b, own) <=> ByTopology(a, b, own) < 0
    BY <1>4 DEF Better, Comparison, Comparable
  <2>3. Receiver(a, own) \in 1 .. 2 /\ Receiver(b, own) \in 1 .. 2
    BY ReceiverIs DEF Comparable
  <2>4. PICK f \in Int :
           /\ f = a.steps - b.steps
           /\ f > 1 => ByTopology(a, b, own) = 1
           /\ f < -1 => ByTopology(a, b, own) = -1
           /\ f = 1 => ByTopology(a, b, own) = Receiver(a, own)
           /\ f = -1 => ByTopology(a, b, own) = -Receiver(b, own)
           /\ f = 0 => ByTopology(a, b, own) =
                2 * (IF a.sender # b.sender THEN Sign(a.sender - b.sender)
                                            ELSE Sign(a.port - b.port))
    BY TopologyCases
  <2>5. a.steps \in Nat /\ b.steps \in Nat /\ a.sender \in Nat /\ b.sender \in Nat
        /\ a.port \in Nat /\ b.port \in Nat
    BY DEF DataSets
  <2>6. CASE a.steps # b.steps
    <3>1. Ranked(a, b) <=> a.steps < b.steps
      BY <1>0, <1>1, <2>1, <2>6
    <3>2. ByTopology(a, b, own) < 0 <=> a.steps < b.steps
      BY <2>3, <2>4, <2>5, <2>6
    <3> QED
      BY <2>2, <3>1, <3>2
  <2>7. CASE a.steps = b.steps /\ a.sender # b.sender
    <3>1. Ranked(a, b) <=> a.sender < b.sender
      BY <1>0, <1>1, <2>1, <2>7
    <3>2. ByTopology(a, b, own) = 2 * Sign(a.sender - b.sender)
      BY <2>4, <2>5, <2>7
    <3>3. PICK s \in -1 .. 1 : s = Sign(a.sender - b.sender) /\ (s < 0 <=> a.sender < b.sender)
      BY <1>2, <2>5
    <3> QED
      BY <2>2, <3>1, <3>2, <3>3
  <2>8. CASE a.steps = b.steps /\ a.sender = b.sender
    <3>1. Ranked(a, b) <=> a.port < b.port
      <4>1. CASE a.port # b.port
        BY <1>0, <1>1, <2>1, <2>8, <4>1
      <4>2. CASE a.port = b.port
        <5>1. \A j \in 1 .. 9 : Rank(a)[j] = Rank(b)[j]
          BY <1>0, <2>1, <2>8, <4>2
        <5>2. ~Ranked(a, b)
          BY <1>0, <5>1 DEF Ranked
        <5> QED
          BY <2>5, <4>2, <5>2
      <4> QED
        BY <4>1, <4>2
    <3>2. ByTopology(a, b, own) = 2 * Sign(a.port - b.port)
      BY <2>4, <2>5, <2>8
    <3>3. PICK s \in -1 .. 1 : s = Sign(a.port - b.port) /\ (s < 0 <=> a.port < b.port)
      BY <1>2, <2>5
    <3> QED
      BY <2>2, <3>1, <3>2, <3>3
  <2> QED
    BY <2>6, <2>7, <2>8
<1> QED
  BY <1>3, <1>4

\* The clock's own data set, as port p has it.
LEMMA CopyD0Type ==
  ASSUME NEW own \in DataSets, NEW p \in Ports
  PROVE  LET a == CopyD0(own, p)
         IN  /\ a \in DataSets
             /\ a.gm = Identity[p] /\ a.sender = Identity[p] /\ a.steps = 0 /\ a.port = p
             /\ a.variance = own.variance /\ a.clockClass = own.clockClass
<1>1. PICK id \in Nat : id = Identity[p]
  BY BoundaryAssumption
<1>2. p \in Nat
  BY BoundaryAssumption DEF Ports
<1> DEFINE c == [own EXCEPT !.gm = id, !.steps = 0, !.sender = id, !.port = p]
<1>3. c \in DataSets
  BY <1>1, <1>2 DEF DataSets
<1>4. /\ c.gm = id /\ c.sender = id /\ c.steps = 0 /\ c.port = p
      /\ c.variance = own.variance /\ c.clockClass = own.clockClass
  BY DEF DataSets
<1>5. c = CopyD0(own, p)
  BY <1>1 DEF CopyD0
<1> HIDE DEF c
<1> QED
  BY <1>1, <1>3, <1>4, <1>5

\* The clock's own data set and what a master of another clock announced are
\* never equal, if the first byte tells their variances apart (copyD0()).
LEMMA NeverEqual ==
  ASSUME NEW own \in DataSets, NEW d \in DataSets, NEW p \in Ports,
         d.port # 0 => /\ d.sender # Identity[p]
                       /\ FirstByte(own.variance) = FirstByte(d.variance) =>
                            own.variance = d.variance
  PROVE  /\ CopyD0(own, p) \in DataSets /\ CopyD0(own, p).clockClass = own.clockClass
         /\ Comparison(CopyD0(own, p), d, Identity[p]) \in -2 .. 2
         /\ Comparison(CopyD0(own, p), d, Identity[p]) # 0
<1>1. PICK id \in Nat : id = Identity[p]
  BY BoundaryAssumption
<1>2. p \in Nat /\ p # 0
  BY BoundaryAssumption DEF Ports
<1>3. PICK a \in DataSets : /\ a = CopyD0(own, p)
                            /\ a.gm = id /\ a.sender = id /\ a.steps = 0 /\ a.port = p
                            /\ a.variance = own.variance /\ a.clockClass = own.clockClass
  BY <1>1, CopyD0Type
<1>4. Comparison(a, d, id) \in -2 .. 2
  BY ComparisonType
<1>5. Comparison(a, d, id) # 0
  <2>1. CASE IsEmpty(d)
    BY <1>2, <1>3, <2>1 DEF Comparison, IsEmpty
  <2>2. CASE ~IsEmpty(d) /\ d.gm = id
    <3>1. Comparison(a, d, id) = ByTopology(a, d, id)
      BY <1>2, <1>3, <2>2 DEF Comparison, IsEmpty
    <3>2. d.steps \in Nat /\ d.sender \in Nat /\ d.sender # id
      BY <1>1, <2>2 DEF DataSets, IsEmpty
    <3>3. Receiver(d, id) \in 1 .. 2
      BY <3>2, ReceiverIs
    <3>4. PICK f \in Int :
           /\ f = a.steps - d.steps
           /\ f < -1 => ByTopology(a, d, id) = -1
           /\ f = -1 => ByTopology(a, d, id) = -Receiver(d, id)
           /\ f = 0 => ByTopology(a, d, id) =
                2 * (IF a.sender # d.sender THEN Sign(a.sender - d.sender)
                                            ELSE Sign(a.port - d.port))
      BY TopologyCases
    <3>5. f <= 0
      BY <1>3, <3>2, <3>4
    <3>6. PICK s \in Int : s = Sign(a.sender - d.sender) /\ s # 0
      <4>1. PICK n \in Int : n = a.sender - d.sender /\ n # 0
        BY <1>1, <1>3, <3>2
      <4>2. Sign(n) \in Int /\ Sign(n) # 0
        BY <4>1, SignIs
      <4> QED
        BY <4>1, <4>2
    <3>7. f = 0 => ByTopology(a, d, id) = 2 * s
      BY <1>3, <3>2, <3>4, <3>6
    <3> QED
      BY <3>1, <3>3, <3>4, <3>5, <3>6, <3>7
  <2>3. CASE ~IsEmpty(d) /\ d.gm # id
    <3>1. Comparison(a, d, id) = ByGrandmaster(a, d)
      BY <1>2, <1>3, <2>3 DEF Comparison, IsEmpty
    <3>2. PICK i \in 1 .. 6 :
           /\ Quality(a)[i] # Quality(d)[i]
           /\ ByGrandmaster(a, d) =
                IF i = 6 THEN Sign(Quality(a)[i] - Quality(d)[i])
                ELSE Sign(FirstByte(Quality(a)[i]) - FirstByte(Quality(d)[i]))
      BY <1>3, <2>3, FirstDecides
    <3>3. /\ Quality(a)[i] \in Nat /\ Quality(d)[i] \in Nat
          /\ FirstByte(Quality(a)[i]) \in Byte /\ FirstByte(Quality(d)[i]) \in Byte
          /\ i # 4 /\ i # 6 => /\ FirstByte(Quality(a)[i]) = Quality(a)[i]
                               /\ FirstByte(Quality(d)[i]) = Quality(d)[i]
      BY QualityType, Zenon
    <3>4. Byte \subseteq Nat
      BY DEF Byte
    <3>5. \A x, y \in Nat : x # y => Sign(x - y) # 0
      <4> SUFFICES ASSUME NEW x \in Nat, NEW y \in Nat, x # y
                   PROVE  Sign(x - y) # 0
        OBVIOUS
      <4>1. PICK n \in Int : n = x - y /\ n # 0
        OBVIOUS
      <4> QED
        BY <4>1, SignIs
    <3>6. Quality(a)[4] = a.variance /\ Quality(d)[4] = d.variance
      BY DEF Quality
    <3>7. i # 6 => FirstByte(Quality(a)[i]) # FirstByte(Quality(d)[i])
      <4>1. CASE i = 4
        BY <1>3, <2>3, <3>2, <3>6, <4>1 DEF IsEmpty
      <4>2. CASE i # 4
        BY <3>2, <3>3, <4>2
      <4> QED
        BY <4>1, <4>2
    <3>8. FirstByte(Quality(a)[i]) \in Nat /\ FirstByte(Quality(d)[i]) \in Nat
      BY <3>3, <3>4
    <3>9. ByGrandmaster(a, d) # 0
      BY <3>2, <3>3, <3>5, <3>7, <3>8
    <3> QED
      BY <3>1, <3>9
  <2> QED
    BY <2>1, <2>2, <2>3
<1> QED
  BY <1>1, <1>3, <1>4, <1>5

-----------------------------------------------------------------------------
(* The types of what the constants give.                                   *)

\* What a master announces, and what a record holds.
LEMMA DataSetType ==
  /\ Empty \in DataSet /\ Announcements \subseteq DataSet
  /\ \A d \in DataSet : d \in DataSets /\ d.port = 0
  /\ \A d \in Announcements : \A p \in Ports : d.sender # Identity[p]
<1>1. Empty \in DataSets /\ Empty.port = 0
  BY DEF DataSets, Empty, Byte
<1>2. ASSUME NEW d \in Announcements
      PROVE  d \in DataSets /\ d.port = 0 /\ \A p \in Ports : d.sender # Identity[p]
  <2>1. PICK m \in Masters : d \in Announces[m]
    BY <1>2 DEF Announcements
  <2> QED
    BY <2>1, BoundaryAssumption
<1> QED
  BY <1>1, <1>2 DEF DataSet

\* Ports and records are numbered.
LEMMA Numbers ==
  /\ NumberPorts \in Nat /\ NumberPorts > 0 /\ MaxRecords \in Nat /\ MaxRecords > 0
  /\ Receipt \in Nat /\ Receipt > 0
  /\ 1 \in Ports /\ 0 \notin Ports /\ 0 \in Records /\ Ports \subseteq Nat
  /\ \A p \in Ports : Identity[p] \in Nat
BY BoundaryAssumption DEF Ports, Records

\* A record is what was announced, with the number of the port.
LEMMA RecordType ==
  ASSUME NEW d \in Record
  PROVE  /\ d \in DataSets /\ d.port \in Ports \cup {0}
         /\ [d EXCEPT !.port = 0] \in DataSet
         /\ \A p \in Ports \cup {0} : [d EXCEPT !.port = p] \in Record
<1>1. PICK e \in DataSet, p \in Ports \cup {0} : d = [e EXCEPT !.port = p]
  BY DEF Record
<1>2. e \in DataSets /\ e.port = 0
  BY DataSetType
<1>3. p \in Nat
  BY Numbers
<1>4. d \in DataSets /\ d.port = p /\ d.sender = e.sender
  BY <1>1, <1>2, <1>3 DEF DataSets
<1>5. [d EXCEPT !.port = 0] = e
  BY <1>1, <1>2, <1>3 DEF DataSets
<1>6. ASSUME NEW q \in Ports \cup {0}
      PROVE  [d EXCEPT !.port = q] = [e EXCEPT !.port = q]
  BY <1>1, <1>2, <1>3 DEF DataSets
<1>7. \A q \in Ports \cup {0} : [d EXCEPT !.port = q] \in Record
  BY <1>6 DEF Record
<1> QED
  BY <1>1, <1>4, <1>5, <1>7

-----------------------------------------------------------------------------
(* A turn: what each function leaves of the data sets of clock and port.   *)

State == [clock : ClockDS, port : PortDS]

\* What no step of a turn changes.
Kept(s, t) ==
  /\ t.clock.own = s.clock.own /\ t.clock.event = s.clock.event
  /\ t.clock.bestForeign = s.clock.bestForeign

\* What a state decision does not change either.
Left(s, t) ==
  Kept(s, t) /\ t.port.foreign = s.port.foreign /\ t.port.linkUP = s.port.linkUP

\* What only the state and its timer are about.
SameRole(s, t) == t.port.role = s.port.role /\ t.port.state = s.port.state

Table(s, p) == \A r \in Records : HeardAt(s.port.foreign[r], p)

\* m1(): the port is no slave.
LEMMA M1Does ==
  ASSUME NEW s \in State
  PROVE  /\ M1(s) \in State /\ Left(s, M1(s))
         /\ M1(s).port.role = "NON_SLAVE" /\ M1(s).port.state = s.port.state
BY DEF State, ClockDS, PortDS, M1, Left, Kept

\* m3() and p1().
LEMMA NotSlaveDoes ==
  ASSUME NEW s \in State
  PROVE  /\ NotSlave(s) \in State /\ Left(s, NotSlave(s))
         /\ NotSlave(s).port.role = "NON_SLAVE" /\ NotSlave(s).port.state = s.port.state
BY DEF State, ClockDS, PortDS, NotSlave, Left, Kept

\* s1(): the port becomes the primary slave.
LEMMA S1Does ==
  ASSUME NEW s \in State, NEW p \in Ports, NEW d \in Record
  PROVE  /\ S1(s, p, d) \in State /\ Left(s, S1(s, p, d))
         /\ S1(s, p, d).port.role = "PRIMARY_SLAVE" /\ S1(s, p, d).port.state = s.port.state
<1>1. [d EXCEPT !.port = 0] \in DataSet
  BY RecordType
<1> QED
  BY <1>1 DEF State, ClockDS, PortDS, S1, Left, Kept

\* s2().
LEMMA S2Does ==
  ASSUME NEW s \in State
  PROVE  /\ S2(s) \in State /\ Left(s, S2(s))
         /\ S2(s).port.role = "SECONDARY_SLAVE" /\ S2(s).port.state = s.port.state
BY DEF State, ClockDS, PortDS, S2, Left, Kept

\* toState() keeps the role.
LEMMA ToStateDoes ==
  ASSUME NEW s \in State, NEW state \in PortStates
  PROVE  /\ ToState(s, state) \in State /\ Left(s, ToState(s, state))
         /\ ToState(s, state).port.role = s.port.role
         /\ ToState(s, state).port.state = state
<1>1. Receipt \in 0 .. Off /\ Off \in 0 .. Off
  BY Numbers DEF Off
<1> QED
  BY <1>1 DEF State, ClockDS, PortDS, ToState, Left, Kept

\* clearForeignMasters() empties records of the table.
LEMMA ClearForeignMastersDoes ==
  ASSUME NEW s \in State, NEW p \in Ports, Table(s, p)
  PROVE  LET t == ClearForeignMasters(s)
         IN  /\ t \in State /\ Kept(s, t) /\ SameRole(s, t) /\ Table(t, p)
             /\ t.port.linkUP = s.port.linkUP
<1> DEFINE t == ClearForeignMasters(s)
           f == [r \in Records |-> IF r < s.port.number THEN [s.port.foreign[r] EXCEPT !.port = 0]
                                   ELSE s.port.foreign[r]]
<1>1. s.port.foreign \in [Records -> Record] /\ s.port \in PortDS /\ s.clock \in ClockDS
  BY DEF State, PortDS
<1>2. ASSUME NEW r \in Records
      PROVE  /\ [s.port.foreign[r] EXCEPT !.port = 0] \in Record
             /\ [s.port.foreign[r] EXCEPT !.port = 0].port = 0
  <2>1. PICK d \in Record : d = s.port.foreign[r]
    BY <1>1
  <2>2. [d EXCEPT !.port = 0] \in Record /\ d \in DataSets
    BY RecordType
  <2> QED
    BY <2>1, <2>2 DEF DataSets
<1>3. f \in [Records -> Record] /\ \A r \in Records : HeardAt(f[r], p)
  BY <1>1, <1>2 DEF Table, HeardAt
<1>4. t = [s EXCEPT !.port = [@ EXCEPT !.foreign = f, !.next = 0, !.number = 0, !.best = 0]]
  BY <1>1 DEF ClearForeignMasters
<1> HIDE DEF f, t
<1>5. t.clock = s.clock /\ t.port = [s.port EXCEPT !.foreign = f, !.next = 0, !.number = 0, !.best = 0]
  BY <1>1, <1>4 DEF State
<1>6. t \in State /\ t.port.foreign = f
  <2>1. 0 \in Records /\ 0 \in 0 .. MaxRecords
    BY Numbers
  <2>2. t.port \in PortDS /\ t.port.foreign = f
    BY <1>1, <1>3, <1>5, <2>1 DEF PortDS
  <2>3. t = [clock |-> t.clock, port |-> t.port]
    BY <1>4 DEF State
  <2> QED
    BY <1>1, <1>5, <2>2, <2>3 DEF State
<1>7. Kept(s, t) /\ SameRole(s, t) /\ t.port.linkUP = s.port.linkUP
  BY <1>1, <1>5 DEF PortDS, Kept, SameRole
<1> QED
  BY <1>3, <1>6, <1>7 DEF t, Table

\* doInit(): the port listens and is no slave.
LEMMA DoInitDoes ==
  ASSUME NEW s \in State
  PROVE  /\ DoInit(s) \in State /\ Left(s, DoInit(s))
         /\ DoInit(s).port.role = "NON_SLAVE"
<1> DEFINE u == [s EXCEPT !.port.number = 0]
<1>1. u \in State /\ Left(s, u)
  BY Numbers DEF State, PortDS, Left, Kept
<1> HIDE DEF u
<1>2. PICK v \in State : v = ToState(u, "LISTENING") /\ Left(u, v)
  BY <1>1, ToStateDoes DEF PortStates
<1>3. DoInit(s) = M1(v)
  BY <1>2 DEF DoInit, u
<1>4. M1(v) \in State /\ Left(v, M1(v)) /\ M1(v).port.role = "NON_SLAVE"
  BY M1Does
<1> QED
  BY <1>1, <1>2, <1>3, <1>4 DEF Left, Kept

\* The head of singlePortLoop(): a link that comes up starts afresh.
LEMMA CheckLinkDoes ==
  ASSUME NEW s \in State, NEW p \in Ports, Table(s, p)
  PROVE  LET t == CheckLink(s, p)
         IN  /\ t \in State /\ Kept(s, t) /\ Table(t, p)
             /\ t.port.linkUP = (p \in plugged)
             /\ t.port.role # "NON_SLAVE" =>
                  SameRole(s, t) /\ (t.port.linkUP => s.port.linkUP)
<1> DEFINE up == p \in plugged
           a == IF up /\ ~s.port.linkUP THEN DoInit(s) ELSE s
           b == IF up # s.port.linkUP /\ config[p] = "S_ONLY" THEN ClearForeignMasters(a) ELSE a
           t == [b EXCEPT !.port.linkUP = up]
<1>1. /\ a \in State /\ Left(s, a)
      /\ a.port.role # "NON_SLAVE" => SameRole(s, a) /\ (up => s.port.linkUP)
  <2>1. CASE up /\ ~s.port.linkUP
    BY <2>1, DoInitDoes
  <2>2. CASE ~(up /\ ~s.port.linkUP)
    BY <2>2 DEF Left, Kept, SameRole
  <2> QED
    BY <2>1, <2>2
<1>2. Table(a, p)
  BY <1>1 DEF Table, Left
<1> HIDE DEF a
<1>3. b \in State /\ Kept(a, b) /\ SameRole(a, b) /\ Table(b, p)
  <2>1. CASE up # s.port.linkUP /\ config[p] = "S_ONLY"
    BY <1>1, <1>2, <2>1, ClearForeignMastersDoes
  <2>2. CASE ~(up # s.port.linkUP /\ config[p] = "S_ONLY")
    BY <1>1, <1>2, <2>2 DEF Kept, SameRole
  <2> QED
    BY <2>1, <2>2
<1> HIDE DEF b
<1>4. up \in BOOLEAN
  OBVIOUS
<1>5. t.port.linkUP = up
  BY <1>3 DEF State, PortDS
<1> HIDE DEF up
<1>6. t \in State
  BY <1>3, <1>4 DEF State, PortDS
<1>7. Kept(b, t) /\ SameRole(b, t) /\ t.port.foreign = b.port.foreign
  BY <1>3 DEF State, PortDS, Kept, SameRole
<1>8. t = CheckLink(s, p)
  BY DEF CheckLink, a, b, up
<1> HIDE DEF t
<1>9. Kept(s, t)
  BY <1>1, <1>3, <1>7 DEF Left, Kept
<1>10. t.port.role # "NON_SLAVE" => SameRole(s, t) /\ (t.port.linkUP => s.port.linkUP)
  BY <1>1, <1>3, <1>5, <1>7 DEF SameRole
<1>11. Table(t, p)
  BY <1>3, <1>7 DEF Table
<1> QED
  BY <1>5, <1>6, <1>8, <1>9, <1>10, <1>11 DEF up

\* The clock's own data set.
LEMMA OwnType ==
  ASSUME NEW s \in State
  PROVE  /\ s.clock.own \in DataSets
         /\ OneUplink =>
              /\ s.clock.own.clockClass # 255
              /\ \A e \in Announcements :
                   FirstByte(s.clock.own.variance) = FirstByte(e.variance) =>
                     s.clock.own.variance = e.variance
<1>1. s.clock.own \in Own \cup {[d EXCEPT !.clockClass = 7] : d \in Own}
  BY DEF State, ClockDS
<1>2. PICK d \in Own : s.clock.own = d \/ s.clock.own = [d EXCEPT !.clockClass = 7]
  BY <1>1
<1>3. d \in DataSets
  BY BoundaryAssumption
<1>4. /\ s.clock.own \in DataSets /\ s.clock.own.variance = d.variance
      /\ s.clock.own.clockClass \in {d.clockClass, 7}
  BY <1>2, <1>3 DEF DataSets, Byte
<1> QED
  BY <1>4 DEF OneUplink

\* What bestForeign points at: what a master announced to its port, or nothing.
LEMMA BestForeignIs ==
  ASSUME TypeOK, OwnRecords, NEW s \in State, NEW p \in Ports, Table(s, p)
  PROVE  /\ BestForeign(s, p) \in Record
         /\ BestForeign(s, p).port = p => p = s.clock.bestForeign[1]
         /\ BestForeign(s, p).port # 0 =>
              [BestForeign(s, p) EXCEPT !.port = 0] \in Announcements
<1>1. PICK q \in 1 .. NumberPorts + 1, r \in Records :
        q = s.clock.bestForeign[1] /\ r = s.clock.bestForeign[2]
  BY DEF State, ClockDS
<1>2. Empty \in Record /\ Empty.port = 0
  <2>1. Empty \in DataSet /\ Empty = [Empty EXCEPT !.port = 0] /\ Empty.port = 0
    BY DataSetType DEF Empty
  <2> QED
    BY <2>1 DEF Record
<1>3. CASE q = p
  <2>1. BestForeign(s, p) = s.port.foreign[r]
    BY <1>1, <1>3 DEF BestForeign
  <2>2. s.port.foreign[r] \in Record /\ HeardAt(s.port.foreign[r], p)
    BY DEF State, PortDS, Table
  <2> QED
    BY <1>1, <1>3, <2>1, <2>2 DEF HeardAt
<1>4. CASE q # p /\ q \in Ports
  <2>1. BestForeign(s, p) = port[q].foreign[r]
    BY <1>1, <1>4 DEF BestForeign
  <2>2. port[q].foreign[r] \in Record /\ HeardAt(port[q].foreign[r], q)
    BY <1>4 DEF TypeOK, PortDS, OwnRecords
  <2>3. p # 0
    BY Numbers
  <2> QED
    BY <1>4, <2>1, <2>2, <2>3 DEF HeardAt
<1>5. CASE q # p /\ q \notin Ports
  <2>1. BestForeign(s, p) = Empty
    BY <1>1, <1>5 DEF BestForeign
  <2>2. p # 0
    BY Numbers
  <2> QED
    BY <1>2, <2>1, <2>2
<1> QED
  BY <1>3, <1>4, <1>5

\* What a decision leaves: a data set d[1] and the state d[2] it recommends.
Decided(s, d) ==
  d[1] \in State /\ d[2] \in PortStates /\ Left(s, d[1]) /\ d[1].port.state = s.port.state

\* Who may have the role of the primary slave.
MayBePrimary(s, p) ==
  s.port.role = "PRIMARY_SLAVE" =>
    /\ config[p] # "M_ONLY"
    /\ config[p] # "S_ONLY" => s.port.state # "LISTENING" /\ s.clock.own.clockClass >= 128

\* Who has it after a decision.
BecamePrimary(s, d, p) ==
  d[1].port.role = "PRIMARY_SLAVE" =>
    /\ d[2] = "SLAVE" /\ config[p] # "M_ONLY"
    /\ config[p] # "S_ONLY" =>
         s.clock.own.clockClass >= 128 /\ p = s.clock.bestForeign[1]

SoundDecision(s, d, p) ==
  Decided(s, d) /\ (OneUplink /\ MayBePrimary(s, p) => BecamePrimary(s, d, p))

\* What the records of another master and the clock's own data set give
\* bmcStateDecision() to go by.
LEMMA ComparisonsType ==
  ASSUME TypeOK, OwnRecords, NEW s \in State, NEW p \in Ports, Table(s, p), NEW d \in Record
  PROVE  LET own == CopyD0(s.clock.own, p)
             best == BestForeign(s, p)
         IN  /\ own.clockClass \in Nat
             /\ own.clockClass = s.clock.own.clockClass
             /\ Comparison(own, d, Identity[p]) \in -2 .. 2
             /\ Comparison(own, best, Identity[p]) \in -2 .. 2
             /\ OneUplink => Comparison(own, best, Identity[p]) # 0
<1> DEFINE own == CopyD0(s.clock.own, p)
           best == BestForeign(s, p)
<1>1. Identity[p] \in Nat /\ p \in Nat
  BY Numbers
<1>2. PICK o \in DataSets : o = s.clock.own
  BY OwnType
<1>3. own \in DataSets /\ own.clockClass = o.clockClass /\ own.clockClass \in Nat
  <2>1. own = CopyD0(o, p) /\ CopyD0(o, p) \in DataSets /\ CopyD0(o, p).clockClass = o.clockClass
    BY <1>2, CopyD0Type
  <2>2. o.clockClass \in Nat
    BY DEF DataSets, Byte
  <2> HIDE DEF own
  <2>3. own \in DataSets /\ own.clockClass = o.clockClass /\ own.clockClass \in Nat
    BY <2>1, <2>2
  <2> QED
    BY <2>3 DEF own
<1>4. best \in Record /\ best \in DataSets /\ d \in DataSets
  BY BestForeignIs, RecordType
<1>5. /\ Comparison(own, d, Identity[p]) \in -2 .. 2
      /\ Comparison(own, best, Identity[p]) \in -2 .. 2
  <2> HIDE DEF own, best
  <2> QED
    BY <1>1, <1>3, <1>4, ComparisonType
<1>6. ASSUME OneUplink
      PROVE  Comparison(own, best, Identity[p]) # 0
  <2>1. ASSUME best.port # 0
        PROVE  /\ best.sender # Identity[p]
               /\ FirstByte(o.variance) = FirstByte(best.variance) => o.variance = best.variance
    <3>1. PICK e \in Announcements : e = [best EXCEPT !.port = 0]
      BY <2>1, BestForeignIs
    <3>2. e.sender = best.sender /\ e.variance = best.variance
      <4> HIDE DEF best
      <4> QED
        BY <3>1, <1>4 DEF DataSets
    <3>3. e.sender # Identity[p]
      BY DataSetType
    <3>4. FirstByte(o.variance) = FirstByte(e.variance) => o.variance = e.variance
      BY <1>2, <1>6, OwnType
    <3> QED
      BY <3>2, <3>3, <3>4
  <2> HIDE DEF best
  <2>2. Comparison(CopyD0(o, p), best, Identity[p]) # 0
    BY <1>4, <2>1, NeverEqual
  <2> QED
    BY <1>2, <2>2 DEF own
<1> QED
  BY <1>2, <1>3, <1>5, <1>6

\* bmcStateDecision().
LEMMA StateDecisionDoes ==
  ASSUME TypeOK, OwnRecords, NEW s \in State, NEW p \in Ports, Table(s, p), NEW d \in Record
  PROVE  SoundDecision(s, StateDecision(s, p, d), p)
<1> DEFINE own == CopyD0(s.clock.own, p)
           best == BestForeign(s, p)
<1>1. PICK erbest \in -2 .. 2 : erbest = Comparison(own, d, Identity[p])
  BY ComparisonsType
<1>2. PICK ebest \in -2 .. 2 : /\ ebest = Comparison(own, best, Identity[p])
                               /\ OneUplink => ebest # 0
  BY ComparisonsType
<1>3. own.clockClass \in Nat /\ own.clockClass = s.clock.own.clockClass
  BY ComparisonsType
<1>4. config[p] \in {"NON_WR", "M_AND_S", "M_ONLY", "S_ONLY"}
  BY BoundaryAssumption DEF TypeOK
<1>5. /\ SoundDecision(s, <<M1(s), "MASTER">>, p)
      /\ SoundDecision(s, <<NotSlave(s), "MASTER">>, p)
      /\ SoundDecision(s, <<NotSlave(s), "PASSIVE">>, p)
  BY M1Does, NotSlaveDoes DEF SoundDecision, Decided, BecamePrimary, PortStates
<1>6. SoundDecision(s, <<S2(s), "SLAVE">>, p)
  BY S2Does DEF SoundDecision, Decided, BecamePrimary, PortStates
<1>7. Decided(s, <<S1(s, p, d), "SLAVE">>)
  BY S1Does DEF Decided, PortStates
<1>8. ASSUME NEW state \in {"LISTENING", "PASSIVE"}
      PROVE  /\ Decided(s, <<s, state>>)
             /\ s.port.role # "PRIMARY_SLAVE" => BecamePrimary(s, <<s, state>>, p)
  BY DEF Decided, BecamePrimary, PortStates, Left, Kept
<1>9. best.port = p => p = s.clock.bestForeign[1]
  BY BestForeignIs
<1> HIDE DEF own, best
<1>10. CASE config[p] = "S_ONLY"
  <2>1. StateDecision(s, p, d) = <<S1(s, p, d), "SLAVE">>
    BY <1>10 DEF StateDecision
  <2>2. BecamePrimary(s, <<S1(s, p, d), "SLAVE">>, p)
    BY <1>10 DEF BecamePrimary
  <2> QED
    BY <1>7, <2>1, <2>2 DEF SoundDecision
<1>11. CASE config[p] = "M_ONLY"
  <2>1. StateDecision(s, p, d) = <<M1(s), "MASTER">>
    BY <1>11 DEF StateDecision
  <2> QED
    BY <1>5, <2>1
<1>12. CASE config[p] \notin {"S_ONLY", "M_ONLY"}
  <2>1. StateDecision(s, p, d) =
              IF s.port.number = 0 /\ s.port.state = "LISTENING" THEN <<s, "LISTENING">>
              ELSE IF own.clockClass < 128
              THEN CASE erbest < 0 -> <<M1(s), "MASTER">>
                     [] erbest > 0 -> <<NotSlave(s), "PASSIVE">>
                     [] erbest = 0 -> <<s, "PASSIVE">>
              ELSE CASE ebest < 0 -> <<M1(s), "MASTER">>
                     [] ebest > 0 -> IF best.port = p THEN <<S1(s, p, d), "SLAVE">>
                                     ELSE IF Comparison(best, d, Identity[p]) = -2
                                          THEN <<S2(s), "SLAVE">> ELSE <<NotSlave(s), "MASTER">>
                     [] ebest = 0 -> <<s, "PASSIVE">>
    BY <1>1, <1>2, <1>12 DEF StateDecision, own, best
  <2>2. CASE s.port.number = 0 /\ s.port.state = "LISTENING"
    <3>1. StateDecision(s, p, d) = <<s, "LISTENING">>
      BY <2>1, <2>2
    <3>2. MayBePrimary(s, p) => s.port.role # "PRIMARY_SLAVE"
      BY <1>12, <2>2 DEF MayBePrimary
    <3> QED
      BY <1>8, <3>1, <3>2 DEF SoundDecision
  <2>3. CASE ~(s.port.number = 0 /\ s.port.state = "LISTENING") /\ own.clockClass < 128
    <3>1. CASE erbest < 0
      <4>1. StateDecision(s, p, d) = <<M1(s), "MASTER">>
        BY <2>1, <2>3, <3>1
      <4> QED
        BY <1>5, <4>1
    <3>2. CASE erbest > 0
      <4>1. StateDecision(s, p, d) = <<NotSlave(s), "PASSIVE">>
        BY <2>1, <2>3, <3>2
      <4> QED
        BY <1>5, <4>1
    <3>3. CASE erbest = 0
      <4>1. StateDecision(s, p, d) = <<s, "PASSIVE">>
        BY <2>1, <2>3, <3>3
      <4>2. MayBePrimary(s, p) => s.port.role # "PRIMARY_SLAVE"
        BY <1>3, <1>12, <2>3 DEF MayBePrimary
      <4> QED
        BY <1>8, <4>1, <4>2 DEF SoundDecision
    <3> QED
      BY <3>1, <3>2, <3>3
  <2>4. CASE ~(s.port.number = 0 /\ s.port.state = "LISTENING") /\ ~(own.clockClass < 128)
    <3>1. CASE ebest < 0
      <4>1. StateDecision(s, p, d) = <<M1(s), "MASTER">>
        BY <2>1, <2>4, <3>1
      <4> QED
        BY <1>5, <4>1
    <3>2. CASE ebest > 0 /\ best.port = p
      <4>1. StateDecision(s, p, d) = <<S1(s, p, d), "SLAVE">>
        BY <2>1, <2>4, <3>2
      <4>2. BecamePrimary(s, <<S1(s, p, d), "SLAVE">>, p)
        BY <1>3, <1>9, <1>12, <2>4, <3>2 DEF BecamePrimary
      <4> QED
        BY <1>7, <4>1, <4>2 DEF SoundDecision
    <3>3. CASE ebest > 0 /\ best.port # p
      <4>1. StateDecision(s, p, d) \in {<<S2(s), "SLAVE">>, <<NotSlave(s), "MASTER">>}
        BY <2>1, <2>4, <3>3
      <4> QED
        BY <1>5, <1>6, <4>1
    <3>4. CASE ebest = 0
      <4>1. StateDecision(s, p, d) = <<s, "PASSIVE">>
        BY <2>1, <2>4, <3>4
      <4> QED
        BY <1>2, <1>8, <3>4, <4>1 DEF SoundDecision
    <3> QED
      BY <3>1, <3>2, <3>3, <3>4
  <2> QED
    BY <2>2, <2>3, <2>4
<1> QED
  BY <1>4, <1>10, <1>11, <1>12

\* bmc().
LEMMA BmcDecisionDoes ==
  ASSUME TypeOK, OwnRecords, NEW s \in State, NEW p \in Ports, Table(s, p)
  PROVE  SoundDecision(s, BmcDecision(s, p), p)
<1>1. CASE s.clock.Ebest < 0 /\ s.port.state = "MASTER"
  <2>1. BmcDecision(s, p) = <<M1(s), "MASTER">>
    BY <1>1 DEF BmcDecision
  <2> QED
    BY <2>1, M1Does DEF SoundDecision, Decided, BecamePrimary, PortStates
<1>2. CASE ~(s.clock.Ebest < 0 /\ s.port.state = "MASTER")
  <2>1. BmcDecision(s, p) = StateDecision(s, p, s.port.foreign[s.port.best])
    BY <1>2 DEF BmcDecision
  <2>2. s.port.foreign[s.port.best] \in Record
    BY DEF State, PortDS
  <2> QED
    BY <2>1, <2>2, StateDecisionDoes
<1> QED
  BY <1>1, <1>2

\* The state decision event.
LEMMA DecideDoes ==
  ASSUME TypeOK, OwnRecords, NEW s \in State, NEW p \in Ports, Table(s, p)
  PROVE  LET t == Decide(s, p)
         IN  /\ t \in State /\ Left(s, t)
             /\ ~s.clock.event => t = s
             /\ OneUplink /\ MayBePrimary(s, p) => MayBePrimary(t, p)
             /\ OneUplink /\ MayBePrimary(s, p) /\ s.clock.event /\ t.port.role = "PRIMARY_SLAVE" =>
                  config[p] = "S_ONLY" \/ p = s.clock.bestForeign[1]
<1> DEFINE u == [s EXCEPT !.port.update = FALSE]
           d == BmcDecision(u, p)
           t == Decide(s, p)
<1>1. CASE ~s.clock.event
  <2>1. t = s
    BY <1>1 DEF Decide
  <2> QED
    BY <1>1, <2>1 DEF Left, Kept
<1>2. CASE s.clock.event
  <2>1. u \in State /\ Left(s, u) /\ SameRole(s, u)
    BY DEF State, PortDS, Left, Kept, SameRole
  <2> HIDE DEF u
  <2>2. Table(u, p) /\ (MayBePrimary(s, p) => MayBePrimary(u, p))
    BY <2>1 DEF Table, Left, Kept, SameRole, MayBePrimary
  <2>3. Decided(u, d) /\ (OneUplink /\ MayBePrimary(s, p) => BecamePrimary(u, d, p))
    <3>1. SoundDecision(u, d, p)
      BY <2>1, <2>2, BmcDecisionDoes
    <3> QED
      BY <2>2, <3>1 DEF SoundDecision
  <2>4. t = CASE d[2] = s.port.state -> d[1]
              [] d[2] # s.port.state /\ d[2] = "SLAVE" -> FallThroughToSlave(d[1])
              [] d[2] # s.port.state /\ d[2] # "SLAVE" -> ToState(d[1], d[2])
    BY <1>2 DEF Decide, u
  <2> HIDE DEF d, t
  <2>5. t \in State /\ Left(d[1], t) /\ t.port.role = d[1].port.role /\ t.port.state = d[2]
    <3>1. CASE d[2] = s.port.state
      <4>1. t = d[1]
        BY <2>4, <3>1
      <4> QED
        BY <2>1, <2>3, <3>1, <4>1 DEF Decided, Left, Kept, SameRole
    <3>2. CASE d[2] # s.port.state
      <4>1. t = ToState(d[1], d[2])
        <5>1. CASE d[2] = "SLAVE"
          BY <2>4, <3>2, <5>1 DEF FallThroughToSlave
        <5>2. CASE d[2] # "SLAVE"
          BY <2>4, <3>2, <5>2
        <5> QED
          BY <5>1, <5>2
      <4> QED
        BY <2>3, <4>1, ToStateDoes DEF Decided
    <3> QED
      BY <3>1, <3>2
  <2>6. Left(s, t)
    BY <2>1, <2>3, <2>5 DEF Decided, Left, Kept
  <2>7. ASSUME OneUplink, MayBePrimary(s, p)
        PROVE  /\ MayBePrimary(t, p)
               /\ t.port.role = "PRIMARY_SLAVE" => config[p] = "S_ONLY" \/ p = s.clock.bestForeign[1]
    BY <2>1, <2>3, <2>5, <2>6, <2>7 DEF BecamePrimary, MayBePrimary, Left, Kept
  <2> QED
    BY <1>2, <2>5, <2>6, <2>7 DEF t
<1> QED
  BY <1>1, <1>2

\* What the records and timers of a port are about, and nothing else.
OnlyRecords(s, t) ==
  t.clock = s.clock /\ SameRole(s, t) /\ t.port.linkUP = s.port.linkUP

\* A record of the port: what was announced, with the port's number.
LEMMA NewRecord ==
  ASSUME NEW d \in Announcements, NEW p \in Ports, NEW q \in {0, p}
  PROVE  [d EXCEPT !.port = q] \in Record /\ HeardAt([d EXCEPT !.port = q], p)
<1>1. d \in DataSet /\ d \in DataSets /\ d.port = 0
  BY DataSetType
<1>2. [d EXCEPT !.port = q] \in Record
  BY <1>1 DEF Record
<1>3. [[d EXCEPT !.port = q] EXCEPT !.port = 0] = d /\ [d EXCEPT !.port = q].port = q
  BY <1>1 DEF DataSets
<1> QED
  BY <1>2, <1>3 DEF HeardAt

\* A record is written.
LEMMA WriteDoes ==
  ASSUME NEW s \in State, NEW p \in Ports, Table(s, p),
         NEW r \in Records, NEW e \in Record, HeardAt(e, p)
  PROVE  LET t == [s EXCEPT !.port.foreign[r] = e]
         IN  t \in State /\ Table(t, p) /\ OnlyRecords(s, t)
<1> DEFINE f == [s.port.foreign EXCEPT ![r] = e]
           t == [s EXCEPT !.port.foreign[r] = e]
<1>1. s.port \in PortDS /\ s.clock \in ClockDS /\ s.port.foreign \in [Records -> Record]
  BY DEF State, PortDS
<1>2. f \in [Records -> Record] /\ \A x \in Records : HeardAt(f[x], p)
  BY <1>1 DEF Table
<1>3. t = [s EXCEPT !.port = [@ EXCEPT !.foreign = f]]
  OBVIOUS
<1> HIDE DEF f, t
<1>4. t.clock = s.clock /\ t.port = [s.port EXCEPT !.foreign = f]
  BY <1>3 DEF State
<1>5. t = [clock |-> t.clock, port |-> t.port]
  BY <1>3 DEF State
<1>6. t.port \in PortDS /\ t.port.foreign = f
  BY <1>1, <1>2, <1>4 DEF PortDS
<1>7. t \in State
  BY <1>1, <1>4, <1>5, <1>6 DEF State
<1>8. OnlyRecords(s, t)
  BY <1>1, <1>4 DEF PortDS, OnlyRecords, SameRole
<1>9. Table(t, p)
  BY <1>2, <1>6 DEF Table
<1> QED
  BY <1>7, <1>8, <1>9 DEF t

\* What is unpacked over a record stays a record of the port.
LEMMA OverwriteDoes ==
  ASSUME NEW s \in State, NEW p \in Ports, Table(s, p), NEW r \in Records,
         NEW d \in Announcements
  PROVE  LET t == [s EXCEPT !.port.foreign[r] = Overwrite(@, d)]
         IN  t \in State /\ Table(t, p) /\ OnlyRecords(s, t)
<1>1. s.port.foreign \in [Records -> Record]
  BY DEF State, PortDS
<1>2. PICK q \in {0, p} : q = s.port.foreign[r].port
  BY <1>1 DEF Table, HeardAt
<1> DEFINE e == [d EXCEPT !.port = q]
<1>3. e \in Record /\ HeardAt(e, p)
  BY NewRecord
<1>4. [s EXCEPT !.port.foreign[r] = Overwrite(@, d)] = [s EXCEPT !.port.foreign[r] = e]
  BY <1>1, <1>2 DEF Overwrite
<1> HIDE DEF e
<1> QED
  BY <1>3, <1>4, WriteDoes

\* addForeign().
LEMMA AddForeignDoes ==
  ASSUME NEW s \in State, NEW p \in Ports, Table(s, p), NEW d \in Announcements
  PROVE  LET t == AddForeign(s, p, d)
         IN  t \in State /\ Table(t, p) /\ OnlyRecords(s, t)
<1> DEFINE n == s.port.number
           looked == [i \in 1 .. n |-> IF i = 1 THEN s.port.best ELSE (s.port.best + i - 1) % n]
           known == {i \in 1 .. n : s.port.identity[looked[i]] = PortIdentity(d)}
           new == s.port.next
<1>1. /\ s.port \in PortDS /\ s.clock \in ClockDS
      /\ n \in 0 .. MaxRecords /\ new \in Records /\ s.port.best \in Records
  BY DEF State, PortDS
<1>2. MaxRecords \in Nat /\ MaxRecords > 0 /\ Records \subseteq Nat
  BY Numbers DEF Records
<1>3. CASE known # {}
  <2>1. n \in Nat /\ known \in SUBSET (0 .. n)
    BY <1>1, <1>2
  <2>2. Min(known) \in 1 .. n
    <3>1. Min(known) \in known
      <4> HIDE DEF known, n
      <4> QED
        BY <1>3, <2>1, Bounded
    <3> QED
      BY <3>1, Zenon
  <2>3. PICK i \in 1 .. n : i = Min(known)
    BY <2>2, Zenon
  <2>4. looked[i] \in Records
    <3>1. CASE i = 1
      BY <1>1, <3>1
    <3>2. CASE i # 1
      <4>1. PICK b \in Nat : b = s.port.best
        BY <1>1, <1>2
      <4>2. PICK k \in Nat : k = b + i - 1
        BY <4>1, <2>1
      <4>3. n > 0 /\ looked[i] = k % n
        BY <2>1, <3>2, <4>1, <4>2
      <4>4. (k % n) \in 0 .. n - 1
        <5> HIDE DEF n
        <5> QED
          BY <2>1, <4>3
      <4> QED
        BY <1>1, <1>2, <2>1, <4>3, <4>4 DEF Records
    <3> QED
      BY <3>1, <3>2
  <2>5. AddForeign(s, p, d) = [s EXCEPT !.port.foreign[looked[i]] = Overwrite(@, d)]
    BY <1>3, <2>3, Zenon DEF AddForeign
  <2> HIDE DEF looked
  <2> QED
    BY <2>4, <2>5, OverwriteDoes
<1>4. CASE known = {}
  <2> DEFINE e == [d EXCEPT !.port = p]
             u == [s EXCEPT !.port.foreign[new] = e]
             more == IF n < MaxRecords THEN n + 1 ELSE n
             next == (new + 1) % MaxRecords
             id == [s.port.identity EXCEPT ![new] = PortIdentity(d)]
             v == [u EXCEPT !.port.identity = id, !.port.number = more, !.port.next = next]
  <2>1. e \in Record /\ HeardAt(e, p)
    BY NewRecord
  <2>2. u \in State /\ Table(u, p) /\ OnlyRecords(s, u)
    <3> HIDE DEF e, new
    <3> QED
      BY <1>1, <2>1, WriteDoes
  <2>3. more \in 0 .. MaxRecords
    BY <1>1, <1>2
  <2>4. next \in Records
    BY <1>1, <1>2 DEF Records
  <2>5. id \in [Records -> {PortIdentity(x) : x \in DataSet}]
    <3>1. d \in DataSet
      BY DataSetType
    <3>2. s.port.identity \in [Records -> {PortIdentity(x) : x \in DataSet}]
      BY <1>1 DEF PortDS
    <3>3. PortIdentity(d) \in {PortIdentity(x) : x \in DataSet}
      BY <3>1
    <3> QED
      BY <3>2, <3>3
  <2>6. AddForeign(s, p, d) = v
    BY <1>1, <1>4, Zenon DEF AddForeign, State, PortDS
  <2> HIDE DEF u, more, next, id
  <2>7. v \in State
    BY <2>2, <2>3, <2>4, <2>5 DEF State, PortDS
  <2>8. v.clock = u.clock /\ v.port.foreign = u.port.foreign
    BY <2>2 DEF State, PortDS
  <2>9. SameRole(u, v) /\ v.port.linkUP = u.port.linkUP
    BY <2>2 DEF State, PortDS, SameRole
  <2>10. Table(v, p) /\ OnlyRecords(s, v)
    BY <2>2, <2>8, <2>9 DEF Table, OnlyRecords, SameRole
  <2> QED
    BY <2>6, <2>7, <2>10
<1> QED
  BY <1>3, <1>4

\* What a port does in its turn beside deciding: it makes no primary slave.
Keeps(s, t, p) ==
  /\ t \in State /\ Kept(s, t) /\ Table(t, p) /\ t.port.linkUP = s.port.linkUP
  /\ t.port.role = "PRIMARY_SLAVE" => s.port.role = "PRIMARY_SLAVE"
  /\ OneUplink /\ MayBePrimary(s, p) => MayBePrimary(t, p)

LEMMA OnlyRecordsKeeps ==
  ASSUME NEW s \in State, NEW t \in State, NEW p \in Ports, Table(t, p), OnlyRecords(s, t)
  PROVE  Keeps(s, t, p)
BY DEF Keeps, OnlyRecords, Kept, SameRole, MayBePrimary

\* handleAnnounce().
LEMMA HandleAnnounceDoes ==
  ASSUME NEW s \in State, NEW p \in Ports, Table(s, p), NEW d \in Announcements
  PROVE  LET t == HandleAnnounce(s, p, d)
         IN  t \in State /\ Table(t, p) /\ OnlyRecords(s, t)
<1> DEFINE u == [s EXCEPT !.port.update = TRUE]
           same == PortIdentity(d) = PortIdentity(s.clock.parent)
           a == IF same THEN [u EXCEPT !.port.foreign[s.port.best] = Overwrite(@, d)]
                ELSE AddForeign(u, p, d)
           v == [a EXCEPT !.port.receipt = Receipt]
<1>1. u \in State /\ OnlyRecords(s, u) /\ u.port.foreign = s.port.foreign
  BY DEF State, PortDS, OnlyRecords, SameRole
<1>2. s.port.best \in Records /\ s.port.state \in PortStates
  BY DEF State, PortDS
<1>3. Table(u, p)
  BY <1>1 DEF Table
<1>4. \/ HandleAnnounce(s, p, d) = s
      \/ HandleAnnounce(s, p, d) = v
      \/ HandleAnnounce(s, p, d) = AddForeign(u, p, d)
  BY <1>2 DEF HandleAnnounce, PortStates
<1>5. Table(s, p) /\ OnlyRecords(s, s)
  BY DEF OnlyRecords, SameRole
<1> HIDE DEF u
<1>6. /\ AddForeign(u, p, d) \in State /\ Table(AddForeign(u, p, d), p)
      /\ OnlyRecords(u, AddForeign(u, p, d))
  BY <1>1, <1>3, AddForeignDoes
<1>7. a \in State /\ Table(a, p) /\ OnlyRecords(u, a)
  <2>1. CASE same
    <3>1. a = [u EXCEPT !.port.foreign[s.port.best] = Overwrite(@, d)]
      BY <2>1
    <3> HIDE DEF a
    <3>2. a \in State /\ Table(a, p) /\ OnlyRecords(u, a)
      BY <1>1, <1>2, <1>3, <3>1, OverwriteDoes
    <3> QED
      BY <3>2 DEF a
  <2>2. CASE ~same
    BY <1>6, <2>2
  <2> QED
    BY <2>1, <2>2
<1> HIDE DEF a
<1>8. /\ v \in State /\ OnlyRecords(a, v) /\ v.port.foreign = a.port.foreign
  <2>1. Receipt \in 0 .. Off
    BY Numbers DEF Off
  <2> QED
    BY <1>7, <2>1 DEF State, PortDS, OnlyRecords, SameRole
<1>9. Table(v, p)
  BY <1>7, <1>8 DEF Table
<1> HIDE DEF v
<1>10. OnlyRecords(s, v) /\ OnlyRecords(s, AddForeign(u, p, d))
  BY <1>1, <1>6, <1>7, <1>8 DEF OnlyRecords, SameRole
<1> QED
  BY <1>4, <1>5, <1>6, <1>8, <1>9, <1>10

\* handle().
LEMMA HandleDoes ==
  ASSUME TypeOK, OwnRecords, NEW s \in State, NEW p \in Ports, Table(s, p),
         NEW heard \in SUBSET due
  PROVE  Keeps(s, Handle(s, p, heard), p)
<1>1. CASE heard = {}
  <2>1. Handle(s, p, heard) = s
    BY <1>1 DEF Handle
  <2> QED
    BY <2>1, OnlyRecordsKeeps DEF OnlyRecords, SameRole
<1>2. CASE heard # {}
  <2>1. PICK m \in heard : m = CHOOSE x \in heard : TRUE
    BY <1>2
  <2>2. m \in Masters /\ announced[m] \in DataSet /\ announced[m] # Empty
    BY DEF TypeOK, OwnRecords
  <2>3. PICK d \in Announcements : d = announced[m]
    BY <2>2 DEF DataSet
  <2>4. Handle(s, p, heard) = HandleAnnounce(s, p, d)
    BY <1>2, <2>1, <2>3 DEF Handle
  <2> QED
    BY <2>4, HandleAnnounceDoes, OnlyRecordsKeeps
<1> QED
  BY <1>1, <1>2

\* toState() where the role is kept: only a slave alone listens with it.
LEMMA ToStateKeeps ==
  ASSUME NEW s \in State, NEW p \in Ports, Table(s, p), NEW state \in PortStates,
         \/ config[p] = "S_ONLY" \/ state # "LISTENING" \/ s.port.role = "NON_SLAVE"
         \/ ~OneUplink
  PROVE  Keeps(s, ToState(s, state), p)
<1>1. /\ ToState(s, state) \in State /\ Left(s, ToState(s, state))
      /\ ToState(s, state).port.role = s.port.role /\ ToState(s, state).port.state = state
  BY ToStateDoes
<1>2. Table(ToState(s, state), p)
  BY <1>1 DEF Table, Left
<1> QED
  BY <1>1, <1>2 DEF Keeps, Left, Kept, MayBePrimary

\* m1(), before the state changes.
LEMMA NoSlaveAfterM1 ==
  ASSUME NEW s \in State, NEW p \in Ports, Table(s, p), NEW state \in PortStates
  PROVE  Keeps(s, ToState(M1(s), state), p)
<1>1. /\ M1(s) \in State /\ Left(s, M1(s)) /\ M1(s).port.role = "NON_SLAVE"
  BY M1Does
<1>2. Table(M1(s), p)
  BY <1>1 DEF Table, Left
<1>3. /\ ToState(M1(s), state) \in State /\ Left(M1(s), ToState(M1(s), state))
      /\ ToState(M1(s), state).port.role = "NON_SLAVE"
  BY <1>1, ToStateDoes
<1>4. Table(ToState(M1(s), state), p) /\ Left(s, ToState(M1(s), state))
  BY <1>1, <1>2, <1>3 DEF Table, Left, Kept
<1> QED
  BY <1>3, <1>4 DEF Keeps, Left, MayBePrimary

LEMMA KeepsTransitive ==
  ASSUME NEW s, NEW t, NEW u, NEW p, Keeps(s, t, p), Keeps(t, u, p)
  PROVE  Keeps(s, u, p)
BY DEF Keeps, Kept

\* The receipt timeout.
LEMMA ReceiptTimeoutDoes ==
  ASSUME NEW s \in State, NEW p \in Ports, Table(s, p)
  PROVE  Keeps(s, ReceiptTimeout(s, p), p)
<1> DEFINE t == [s EXCEPT !.port.number = 0, !.port.next = 0, !.port.receipt = Receipt]
<1>1. Keeps(s, s, p)
  BY OnlyRecordsKeeps DEF OnlyRecords, SameRole
<1>2. t \in State /\ OnlyRecords(s, t) /\ t.port.foreign = s.port.foreign
  <2>1. 0 \in 0 .. MaxRecords /\ 0 \in Records /\ Receipt \in 0 .. Off
    BY Numbers DEF Off
  <2> QED
    BY <2>1 DEF State, PortDS, OnlyRecords, SameRole
<1>3. ReceiptTimeout(s, p) =
        IF s.port.receipt # 0 THEN s
        ELSE IF config[p] # "S_ONLY" /\ s.clock.own.clockClass # 255 THEN ToState(M1(t), "MASTER")
        ELSE IF s.port.state # "LISTENING" THEN ToState(t, "LISTENING") ELSE t
  BY DEF ReceiptTimeout
<1> HIDE DEF t
<1>4. Table(t, p)
  BY <1>2 DEF Table
<1>5. Keeps(s, t, p)
  BY <1>2, <1>4, OnlyRecordsKeeps
<1>6. CASE s.port.receipt # 0
  BY <1>1, <1>3, <1>6
<1>7. CASE s.port.receipt = 0 /\ config[p] # "S_ONLY" /\ s.clock.own.clockClass # 255
  <2>1. Keeps(t, ToState(M1(t), "MASTER"), p)
    BY <1>2, <1>4, NoSlaveAfterM1 DEF PortStates
  <2>2. ReceiptTimeout(s, p) = ToState(M1(t), "MASTER")
    BY <1>3, <1>7
  <2> QED
    BY <1>5, <2>1, <2>2, KeepsTransitive
<1>8. CASE s.port.receipt = 0 /\ ~(config[p] # "S_ONLY" /\ s.clock.own.clockClass # 255)
  <2>1. config[p] = "S_ONLY" \/ ~OneUplink
    BY <1>8, OwnType
  <2>2. Keeps(t, ToState(t, "LISTENING"), p)
    BY <1>2, <1>4, <2>1, ToStateKeeps DEF PortStates
  <2>3. ReceiptTimeout(s, p) \in {ToState(t, "LISTENING"), t}
    BY <1>3, <1>8
  <2> QED
    BY <1>5, <2>2, <2>3, KeepsTransitive
<1> QED
  BY <1>6, <1>7, <1>8

\* doState() after the decision.
LEMMA DoStateDoes ==
  ASSUME TypeOK, OwnRecords, NEW s \in State, NEW p \in Ports, Table(s, p),
         NEW heard \in SUBSET due
  PROVE  Keeps(s, DoState(s, p, heard), p)
<1> DEFINE t == Handle(s, p, heard)
<1>1. DoState(s, p, heard) =
        IF ~Listens(s, p) THEN ToState(M1(s), "MASTER")
        ELSE IF s.port.state # "MASTER" THEN ReceiptTimeout(t, p)
        ELSE IF config[p] = "S_ONLY" \/ t.clock.own.clockClass = 255 THEN ToState(t, "LISTENING")
        ELSE t
  BY DEF DoState
<1>2. Keeps(s, t, p)
  BY HandleDoes
<1> HIDE DEF t
<1>3. t \in State /\ Table(t, p)
  BY <1>2 DEF Keeps
<1>4. CASE ~Listens(s, p)
  <2>1. Keeps(s, ToState(M1(s), "MASTER"), p)
    BY NoSlaveAfterM1 DEF PortStates
  <2> QED
    BY <1>1, <1>4, <2>1
<1>5. CASE Listens(s, p) /\ s.port.state # "MASTER"
  <2>1. Keeps(t, ReceiptTimeout(t, p), p)
    BY <1>3, ReceiptTimeoutDoes
  <2>2. DoState(s, p, heard) = ReceiptTimeout(t, p)
    BY <1>1, <1>5
  <2> QED
    BY <1>2, <2>1, <2>2, KeepsTransitive
<1>6. CASE Listens(s, p) /\ s.port.state = "MASTER"
  <2>1. CASE config[p] = "S_ONLY" \/ t.clock.own.clockClass = 255
    <3>1. config[p] = "S_ONLY" \/ ~OneUplink
      BY <1>3, <2>1, OwnType
    <3>2. Keeps(t, ToState(t, "LISTENING"), p)
      BY <1>3, <3>1, ToStateKeeps DEF PortStates
    <3>3. DoState(s, p, heard) = ToState(t, "LISTENING")
      BY <1>1, <1>6, <2>1
    <3> QED
      BY <1>2, <3>2, <3>3, KeepsTransitive
  <2>2. CASE ~(config[p] = "S_ONLY" \/ t.clock.own.clockClass = 255)
    BY <1>1, <1>2, <1>6, <2>2
  <2> QED
    BY <2>1, <2>2
<1> QED
  BY <1>4, <1>5, <1>6

-----------------------------------------------------------------------------
(* The invariants, one action after the other.                             *)

Types == TypeOK /\ OwnRecords

\* What a turn leaves of the data sets of the clock and of port p.
TurnOf(p, heard) ==
  LET linked == CheckLink([clock |-> clock, port |-> port[p]], p)
  IN  IF p \in plugged THEN DoState(Decide(linked, p), p, heard) ELSE linked

\* A turn makes a primary slave of a port with a link only by a decision, and
\* only of a port that is a slave by its configuration or the best one.
LEMMA TurnDoes ==
  ASSUME Types, NEW p \in Ports, NEW heard \in SUBSET due
  PROVE  LET s == [clock |-> clock, port |-> port[p]]
             t == TurnOf(p, heard)
         IN  /\ t \in State /\ Kept(s, t) /\ Table(t, p)
             /\ OneUplink /\ MayBePrimary(s, p) =>
                  /\ MayBePrimary(t, p)
                  /\ t.port.linkUP /\ t.port.role = "PRIMARY_SLAVE" =>
                       IF clock.event THEN config[p] = "S_ONLY" \/ p = clock.bestForeign[1]
                       ELSE port[p].linkUP /\ port[p].role = "PRIMARY_SLAVE"
<1> DEFINE s == [clock |-> clock, port |-> port[p]]
           linked == CheckLink(s, p)
           decided == Decide(linked, p)
           done == DoState(decided, p, heard)
           t == TurnOf(p, heard)
<1>1. /\ s \in State /\ Table(s, p) /\ s.clock = clock /\ s.port = port[p]
      /\ TypeOK /\ OwnRecords
  BY DEF Types, TypeOK, State, OwnRecords, Table
<1>2. t = IF p \in plugged THEN done ELSE linked
  BY DEF TurnOf
<1> HIDE DEF s, t
<1>3. /\ linked \in State /\ Kept(s, linked) /\ Table(linked, p)
      /\ linked.port.linkUP = (p \in plugged)
      /\ linked.port.role # "NON_SLAVE" =>
           SameRole(s, linked) /\ (linked.port.linkUP => s.port.linkUP)
  BY <1>1, CheckLinkDoes
<1>4. MayBePrimary(s, p) => MayBePrimary(linked, p)
  BY <1>3 DEF MayBePrimary, SameRole, Kept
<1> HIDE DEF linked
<1>5. /\ decided \in State /\ Left(linked, decided)
      /\ ~linked.clock.event => decided = linked
      /\ OneUplink /\ MayBePrimary(linked, p) => MayBePrimary(decided, p)
      /\ OneUplink /\ MayBePrimary(linked, p) /\ linked.clock.event
           /\ decided.port.role = "PRIMARY_SLAVE" =>
           config[p] = "S_ONLY" \/ p = linked.clock.bestForeign[1]
  BY <1>1, <1>3, DecideDoes
<1>6. Table(decided, p)
  BY <1>3, <1>5 DEF Table, Left
<1> HIDE DEF decided
<1>7. Keeps(decided, done, p)
  BY <1>1, <1>5, <1>6, DoStateDoes
<1> HIDE DEF done
<1>8. CASE p \notin plugged
  <2>1. t = linked /\ ~t.port.linkUP
    BY <1>2, <1>3, <1>8
  <2> QED
    BY <1>3, <1>4, <2>1 DEF s, t
<1>9. CASE p \in plugged
  <2>1. t = done
    BY <1>2, <1>9
  <2>2. t \in State /\ Kept(s, t) /\ Table(t, p)
    BY <1>3, <1>5, <1>7, <2>1 DEF Keeps, Left, Kept
  <2>3. ASSUME OneUplink, MayBePrimary(s, p)
        PROVE  MayBePrimary(t, p)
    BY <1>4, <1>5, <1>7, <2>1, <2>3 DEF Keeps
  <2>4. ASSUME OneUplink, MayBePrimary(s, p), t.port.role = "PRIMARY_SLAVE"
        PROVE  IF clock.event THEN config[p] = "S_ONLY" \/ p = clock.bestForeign[1]
               ELSE port[p].linkUP /\ port[p].role = "PRIMARY_SLAVE"
    <3>1. decided.port.role = "PRIMARY_SLAVE"
      BY <1>7, <2>1, <2>4 DEF Keeps
    <3>2. linked.clock.event = clock.event /\ linked.clock.bestForeign = clock.bestForeign
      BY <1>1, <1>3 DEF Kept
    <3>3. CASE clock.event
      BY <1>4, <1>5, <2>4, <3>1, <3>2, <3>3
    <3>4. CASE ~clock.event
      <4>1. linked.port.role = "PRIMARY_SLAVE"
        BY <1>5, <3>1, <3>2, <3>4
      <4>2. linked.port.linkUP
        BY <1>3, <1>9
      <4> QED
        BY <1>1, <1>3, <3>4, <4>1, <4>2 DEF SameRole
    <3> QED
      BY <3>3, <3>4
  <2> QED
    BY <2>2, <2>3, <2>4 DEF s, t
<1> QED
  BY <1>8, <1>9

\* SinglePortLoop as a turn of the port that is at it.
LEMMA SinglePortLoopIs ==
  ASSUME Types, SinglePortLoop
  PROVE  /\ at \in Ports /\ at' = at + 1
         /\ \E heard \in SUBSET due :
              /\ clock' = TurnOf(at, heard).clock
              /\ port' = [port EXCEPT ![at] = TurnOf(at, heard).port]
              /\ due' = due \ heard
         /\ UNCHANGED <<config, cable, plugged, announced, events, quiet>>
<1> DEFINE linked == CheckLink([clock |-> clock, port |-> port[at]], at)
           decided == Decide(linked, at)
<1>1. PICK heard \in SUBSET {m \in due : cable[m] = at} :
        /\ LET s == IF at \in plugged THEN DoState(decided, at, heard) ELSE linked
           IN  clock' = s.clock /\ port' = [port EXCEPT ![at] = s.port]
        /\ due' = due \ heard
  BY Zenon DEF SinglePortLoop
<1>2. heard \in SUBSET due
  OBVIOUS
<1>3. TurnOf(at, heard) = IF at \in plugged THEN DoState(decided, at, heard) ELSE linked
  BY DEF TurnOf
<1>4. /\ clock' = TurnOf(at, heard).clock
      /\ port' = [port EXCEPT ![at] = TurnOf(at, heard).port]
  BY <1>1, <1>3
<1>5. /\ at \in Ports /\ at' = at + 1
      /\ UNCHANGED <<config, cable, plugged, announced, events, quiet>>
  BY Zenon DEF SinglePortLoop
<1> QED
  BY <1>1, <1>2, <1>4, <1>5

LEMMA SinglePortLoopTypes ==
  ASSUME Types, SinglePortLoop
  PROVE  Types'
<1>1. PICK heard \in SUBSET due :
        /\ clock' = TurnOf(at, heard).clock
        /\ port' = [port EXCEPT ![at] = TurnOf(at, heard).port]
        /\ due' = due \ heard
  BY SinglePortLoopIs
<1>2. /\ at \in Ports /\ at' = at + 1
      /\ UNCHANGED <<config, cable, plugged, announced, events, quiet>>
  BY SinglePortLoopIs
<1>3. PICK t \in State : t = TurnOf(at, heard) /\ Table(t, at)
  BY <1>2, TurnDoes
<1>4. clock' \in ClockDS /\ port' \in [Ports -> PortDS]
  BY <1>1, <1>3 DEF State, Types, TypeOK
<1>5. at' \in 1 .. NumberPorts + 1
  BY <1>2, Numbers DEF Ports
<1>6. TypeOK'
  BY <1>1, <1>2, <1>4, <1>5 DEF Types, TypeOK
<1>7. OwnRecords'
  <2>1. \A p \in Ports : port'[p] = IF p = at THEN t.port ELSE port[p]
    BY <1>1, <1>3 DEF Types, TypeOK
  <2>2. \A p \in Ports : \A r \in Records : HeardAt(port'[p].foreign[r], p)
    BY <1>3, <2>1 DEF Types, OwnRecords, Table
  <2>3. \A m \in due' : announced'[m] # Empty
    BY <1>1, <1>2 DEF Types, OwnRecords
  <2> QED
    BY <2>2, <2>3 DEF OwnRecords, HeardAt
<1> QED
  BY <1>6, <1>7 DEF Types

\* ErBest(): a record of the table.
LEMMA ErBestType ==
  ASSUME TypeOK, NEW p \in Ports
  PROVE  ErBest(p) \in Records
<1> DEFINE n == port[1].number
           seq == [r \in 1 .. n |-> port[p].foreign[r - 1]]
           first == BestIndex(seq, 1 .. n, Identity[1])
<1>1. n \in 0 .. MaxRecords /\ n \in Nat /\ MaxRecords \in Nat
  BY Numbers DEF TypeOK, PortDS
<1>2. CASE n = 0
  BY <1>2, Numbers DEF ErBest
<1>3. CASE n # 0
  <2>1. Len(seq) = n
    BY <1>1
  <2>2. 1 .. n # {} /\ 1 .. n \in SUBSET (1 .. n)
    BY <1>1, <1>3
  <2>3. first \in (1 .. n) \cup {0} /\ first # 0
    <3> HIDE DEF seq, n
    <3> QED
      BY <1>1, <2>1, <2>2, BestIndexFinds
  <2>4. ErBest(p) = first - 1
    BY <1>3 DEF ErBest
  <2> HIDE DEF first, n
  <2> QED
    BY <1>1, <2>3, <2>4 DEF Records
<1> QED
  BY <1>2, <1>3

\* EBest(): the index of a port, or one beyond.
LEMMA EBestType ==
  ASSUME NEW best \in Records
  PROVE  EBest(best) \in 0 .. NumberPorts
<1> DEFINE records == [p \in Ports |-> port[p].foreign[IF p = 1 THEN best ELSE port[p].best]]
           first == BestIndex(records, Filled, Identity[1])
<1>1. NumberPorts \in Nat /\ Len(records) = NumberPorts
  BY Numbers DEF Ports
<1>2. Filled \in SUBSET (1 .. NumberPorts)
  BY DEF Filled, Ports
<1>3. first \in Filled \cup {0}
  <2> HIDE DEF records
  <2> QED
    BY <1>1, <1>2, BestIndexFinds
<1>4. EBest(best) = IF first = 0 THEN NumberPorts ELSE first - 1
  BY DEF EBest
<1> HIDE DEF first
<1> QED
  BY <1>1, <1>2, <1>3, <1>4

\* globalBestForeignMastersUpdate().
LEMMA GlobalBestForeignMastersUpdateDoes ==
  ASSUME TypeOK
  PROVE  LET t == GlobalBestForeignMastersUpdate
         IN  /\ t.clock \in ClockDS /\ t.port \in PortDS /\ t.clock.own = clock.own
             /\ \E b \in Records : t.port = [port[1] EXCEPT !.best = b]
<1> DEFINE t == GlobalBestForeignMastersUpdate
           updated == {p \in Ports : port[p].update}
           best == ErBest(Max(updated))
           Ebest == EBest(best)
           record == CASE Ebest = 0           -> best
                       [] Ebest = NumberPorts -> 0
                       [] OTHER               -> port[Ebest + 1].best
<1>1. /\ NumberPorts \in Nat /\ NumberPorts > 0 /\ 1 \in Ports /\ 0 \in Records
      /\ clock \in ClockDS /\ port[1] \in PortDS
  BY Numbers DEF TypeOK
<1>2. CASE updated = {}
  <2>1. t = [clock |-> [clock EXCEPT !.event = FALSE], port |-> port[1]]
    BY <1>2 DEF GlobalBestForeignMastersUpdate
  <2>2. port[1] = [port[1] EXCEPT !.best = port[1].best] /\ port[1].best \in Records
    BY <1>1 DEF PortDS
  <2>3. [clock EXCEPT !.event = FALSE] \in ClockDS /\ [clock EXCEPT !.event = FALSE].own = clock.own
    BY <1>1 DEF ClockDS
  <2> HIDE DEF t
  <2>4. /\ t.clock \in ClockDS /\ t.port \in PortDS /\ t.clock.own = clock.own
        /\ \E b \in Records : t.port = [port[1] EXCEPT !.best = b]
    BY <1>1, <2>1, <2>2, <2>3
  <2> QED
    BY <2>4 DEF t
<1>3. CASE updated # {}
  <2>1. Max(updated) \in Ports
    <3>1. updated \in SUBSET (0 .. NumberPorts)
      BY <1>1 DEF Ports
    <3>2. Max(updated) \in updated
      <4> HIDE DEF updated
      <4> QED
        BY <1>1, <1>3, <3>1, Bounded
    <3> QED
      BY <3>2
  <2>2. t = [port |-> [port[1] EXCEPT !.best = best],
             clock |-> [clock EXCEPT !.event = TRUE, !.Ebest = Ebest,
                                     !.bestForeign = <<Ebest + 1, record>>]]
    BY <1>3, Zenon DEF GlobalBestForeignMastersUpdate
  <2>3. best \in Records
    <3> HIDE DEF updated
    <3> QED
      BY <2>1, ErBestType
  <2> HIDE DEF best
  <2>4. Ebest \in 0 .. NumberPorts
    BY <2>3, EBestType
  <2> HIDE DEF Ebest
  <2>5. record \in Records
    <3>1. Ebest # 0 /\ Ebest # NumberPorts => Ebest + 1 \in Ports
      BY <1>1, <2>4 DEF Ports
    <3>2. \A p \in Ports : port[p].best \in Records
      BY DEF TypeOK, PortDS
    <3> QED
      BY <1>1, <2>3, <2>4, <3>1, <3>2
  <2> HIDE DEF record
  <2>6. Ebest \in -1 .. NumberPorts /\ Ebest + 1 \in 1 .. NumberPorts + 1
    BY <1>1, <2>4
  <2> DEFINE c == [clock EXCEPT !.event = TRUE, !.Ebest = Ebest,
                                !.bestForeign = <<Ebest + 1, record>>]
             d == [port[1] EXCEPT !.best = best]
  <2>7. c \in ClockDS /\ c.own = clock.own
    <3>1. <<Ebest + 1, record>> \in (1 .. NumberPorts + 1) \X Records
      BY <2>5, <2>6
    <3> QED
      BY <1>1, <2>6, <3>1 DEF ClockDS
  <2>8. d \in PortDS
    BY <1>1, <2>3 DEF PortDS
  <2>9. t = [port |-> d, clock |-> c]
    BY <2>2
  <2>10. d = [port[1] EXCEPT !.best = best]
    OBVIOUS
  <2> HIDE DEF t, c, d
  <2>11. /\ t.clock \in ClockDS /\ t.port \in PortDS /\ t.clock.own = clock.own
         /\ \E b \in Records : t.port = [port[1] EXCEPT !.best = b]
    BY <2>3, <2>7, <2>8, <2>9, <2>10
  <2> QED
    BY <2>11 DEF t
<1> QED
  BY <1>2, <1>3

\* What sharedPortsLoop() changes.
LEMMA SharedPortsLoopDoes ==
  ASSUME Types, SharedPortsLoop
  PROVE  /\ clock' \in ClockDS
         /\ clock'.own # clock.own => clock.own.clockClass = 6 /\ clock'.own.clockClass = 7
         /\ \E b \in Records : port' = [port EXCEPT ![1] = [port[1] EXCEPT !.best = b]]
<1> DEFINE t == GlobalBestForeignMastersUpdate
<1>1. /\ t.clock \in ClockDS /\ t.clock.own = clock.own
      /\ \E b \in Records : t.port = [port[1] EXCEPT !.best = b]
  BY GlobalBestForeignMastersUpdateDoes DEF Types
<1>2. clock' \in CheckClockClassValidity(t.clock) /\ port' = [port EXCEPT ![1] = t.port]
  BY Zenon DEF SharedPortsLoop
<1>3. PICK c \in ClockDS : c = t.clock
  BY <1>1
<1>4. clock' = c \/ (c.own.clockClass = 6 /\ clock' = [c EXCEPT !.own.clockClass = 7])
  BY <1>2, <1>3 DEF CheckClockClassValidity
<1>5. CASE clock' = c
  BY <1>1, <1>2, <1>3, <1>5
<1>6. CASE c.own.clockClass = 6 /\ clock' = [c EXCEPT !.own.clockClass = 7]
  <2>1. PICK o \in Own : c.own = o \/ c.own = [o EXCEPT !.clockClass = 7]
    BY DEF ClockDS
  <2>2. o \in DataSets /\ [o EXCEPT !.clockClass = 7].clockClass = 7
    BY BoundaryAssumption DEF DataSets
  <2>3. c.own = o
    <3>1. c.own.clockClass = 6
      BY <1>6
    <3>2. CASE c.own = [o EXCEPT !.clockClass = 7]
      <4>1. c.own.clockClass = 7
        BY <2>2, <3>2
      <4> QED
        BY <3>1, <4>1
    <3> QED
      BY <2>1, <3>2
  <2>4. clock' = [c EXCEPT !.own = [o EXCEPT !.clockClass = 7]]
    BY <1>6, <2>3
  <2>5. clock' \in ClockDS /\ clock'.own.clockClass = 7
    BY <2>2, <2>4 DEF ClockDS
  <2> QED
    BY <1>1, <1>2, <1>3, <1>6, <2>5
<1> QED
  BY <1>4, <1>5, <1>6

LEMMA SharedPortsLoopTypes ==
  ASSUME Types, SharedPortsLoop
  PROVE  Types'
<1>1. clock' \in ClockDS
  BY SharedPortsLoopDoes
<1>2. PICK b \in Records : port' = [port EXCEPT ![1] = [port[1] EXCEPT !.best = b]]
  BY SharedPortsLoopDoes
<1>3. TypeOK /\ OwnRecords /\ 1 \in Ports
  BY Numbers DEF Types
<1>4. /\ UNCHANGED <<config, cable, plugged, announced, due, events>> /\ at' = 1
      /\ quiet' \in {quiet, 0}
  BY Zenon DEF SharedPortsLoop
<1>5. [port[1] EXCEPT !.best = b] \in PortDS
  <2>1. port[1] \in PortDS
    BY <1>3 DEF TypeOK
  <2> QED
    BY <2>1 DEF PortDS
<1>6. port' \in [Ports -> PortDS]
  BY <1>2, <1>3, <1>5 DEF TypeOK
<1>7. \A p \in Ports : port'[p].foreign = port[p].foreign
  BY <1>2, <1>3 DEF TypeOK, PortDS
<1>8. at' \in 1 .. NumberPorts + 1 /\ 0 \in 0 .. Receipt + 1
  BY <1>4, Numbers
<1>9. TypeOK'
  BY <1>1, <1>3, <1>4, <1>6, <1>8 DEF TypeOK
<1>10. OwnRecords'
  BY <1>3, <1>4, <1>7 DEF OwnRecords, HeardAt
<1> QED
  BY <1>9, <1>10 DEF Types

\* Tick counts, and the masters announce again.
LEMMA TickDoes ==
  ASSUME Types, Tick
  PROVE  /\ Types' /\ UNCHANGED <<clock, at, config>>
         /\ \A p \in Ports : /\ port'[p].role = port[p].role /\ port'[p].state = port[p].state
                             /\ port'[p].linkUP = port[p].linkUP
<1>1. /\ due' = due \cup {m \in Masters : announced[m] # Empty /\ cable[m] \in plugged}
      /\ port' = [p \in Ports |-> [port[p] EXCEPT !.receipt = IF @ \in {0, Off} THEN @ ELSE @ - 1]]
      /\ quiet' = Min({quiet + 1, Receipt + 1})
      /\ UNCHANGED <<clock, at, config, cable, plugged, announced, events>>
  BY Zenon DEF Tick
<1>2. TypeOK /\ OwnRecords /\ Receipt \in Nat
  BY Numbers DEF Types
<1>3. ASSUME NEW p \in Ports
      PROVE  /\ port'[p] \in PortDS /\ port'[p].foreign = port[p].foreign
             /\ port'[p].role = port[p].role /\ port'[p].state = port[p].state
             /\ port'[p].linkUP = port[p].linkUP
  <2>1. PICK r \in 0 .. Off : port'[p] = [port[p] EXCEPT !.receipt = r]
    <3>1. port[p] \in PortDS /\ port[p].receipt \in 0 .. Off
      BY <1>2 DEF TypeOK, PortDS
    <3>2. port[p].receipt \notin {0, Off} => port[p].receipt - 1 \in 0 .. Off
      BY <1>2, <3>1 DEF Off
    <3>3. port'[p] = [port[p] EXCEPT !.receipt = IF @ \in {0, Off} THEN @ ELSE @ - 1]
      BY <1>1
    <3>4. CASE port[p].receipt \in {0, Off}
      <4>1. port'[p] = [port[p] EXCEPT !.receipt = port[p].receipt]
        BY <3>3, <3>4
      <4> QED
        BY <3>1, <4>1
    <3>5. CASE port[p].receipt \notin {0, Off}
      <4>1. port'[p] = [port[p] EXCEPT !.receipt = port[p].receipt - 1]
        BY <3>3, <3>5
      <4> QED
        BY <3>2, <3>5, <4>1
    <3> QED
      BY <3>4, <3>5
  <2>2. port[p] \in PortDS
    BY <1>2 DEF TypeOK
  <2> QED
    BY <2>1, <2>2 DEF PortDS
<1>4. port' \in [Ports -> PortDS]
  BY <1>1, <1>3
<1>5. quiet' \in 0 .. Receipt + 1
  <2> DEFINE S == {quiet + 1, Receipt + 1}
  <2>1. quiet \in 0 .. Receipt + 1
    BY <1>2 DEF TypeOK
  <2>2. S \in SUBSET (0 .. Receipt + 2) /\ S # {} /\ Receipt + 2 \in Nat
    BY <1>2, <2>1
  <2>3. Min(S) \in S /\ \A x \in S : Min(S) <= x
    <3> HIDE DEF S
    <3> QED
      BY <2>2, Bounded
  <2>4. PICK n \in Nat : n = Min(S) /\ n <= Receipt + 1
    BY <1>2, <2>1, <2>3
  <2> QED
    BY <1>1, <1>2, <2>4
<1>6. due' \in SUBSET Masters /\ \A m \in due' : announced'[m] # Empty
  BY <1>1, <1>2 DEF TypeOK, OwnRecords
<1>7. TypeOK'
  BY <1>1, <1>2, <1>4, <1>5, <1>6 DEF TypeOK
<1>8. OwnRecords'
  BY <1>1, <1>2, <1>3, <1>6 DEF OwnRecords, HeardAt
<1> QED
  BY <1>1, <1>3, <1>7, <1>8 DEF Types

\* What the neighbours do.
Neighbours ==
  \/ \E m \in Masters : Change(m) \/ LoseAnnounce(m)
  \/ \E p \in Ports : Unplug(p) \/ Plug(p)

\* The clock does not notice before its next turn.
LEMMA NeighboursDo ==
  ASSUME Types, Neighbours
  PROVE  Types' /\ UNCHANGED <<clock, port, at, config>>
<1>1. TypeOK /\ OwnRecords /\ 0 \in 0 .. Receipt + 1
  BY Numbers DEF Types
<1>2. ASSUME Happens
      PROVE  events' \in 0 .. MaxEvents /\ quiet' = 0
  <2>1. MaxEvents \in Nat
    BY BoundaryAssumption
  <2> QED
    BY <1>1, <1>2, <2>1 DEF Happens, TypeOK
<1>3. ASSUME NEW m \in Masters, Change(m)
      PROVE  Types' /\ UNCHANGED <<clock, port, at, config>>
  <2>1. PICK d \in Announces[m] \cup {Empty} : announced' = [announced EXCEPT ![m] = d]
    BY <1>3 DEF Change
  <2>2. /\ due' = IF announced'[m] = Empty THEN due \ {m} ELSE due
        /\ Happens /\ UNCHANGED <<clock, port, at, config, cable, plugged>>
    BY <1>3 DEF Change
  <2>3. d \in DataSet
    BY DEF DataSet, Announcements
  <2>4. /\ announced' \in [Masters -> DataSet]
        /\ announced'[m] = d /\ \A x \in Masters \ {m} : announced'[x] = announced[x]
    BY <1>1, <2>1, <2>3 DEF TypeOK
  <2>5. due' \subseteq Masters /\ \A x \in due' : announced'[x] # Empty
    BY <1>1, <2>2, <2>4 DEF TypeOK, OwnRecords
  <2>6. TypeOK'
    BY <1>1, <1>2, <2>2, <2>4, <2>5 DEF TypeOK
  <2>7. OwnRecords'
    BY <1>1, <2>2, <2>5 DEF OwnRecords, HeardAt
  <2> QED
    BY <2>2, <2>6, <2>7 DEF Types
<1>4. ASSUME UNCHANGED <<clock, port, at, config, cable, announced>>,
             due' \subseteq due, plugged' \subseteq Ports,
             events' \in 0 .. MaxEvents, quiet' = 0
      PROVE  Types' /\ UNCHANGED <<clock, port, at, config>>
  <2>1. TypeOK'
    BY <1>1, <1>4 DEF TypeOK
  <2>2. OwnRecords'
    BY <1>1, <1>4 DEF OwnRecords, HeardAt
  <2> QED
    BY <1>4, <2>1, <2>2 DEF Types
<1>5. ASSUME NEW m \in Masters, LoseAnnounce(m)
      PROVE  Types' /\ UNCHANGED <<clock, port, at, config>>
  BY <1>1, <1>2, <1>4, <1>5 DEF LoseAnnounce, TypeOK
<1>6. ASSUME NEW p \in Ports, Unplug(p)
      PROVE  Types' /\ UNCHANGED <<clock, port, at, config>>
  BY <1>1, <1>2, <1>4, <1>6 DEF Unplug, TypeOK
<1>7. ASSUME NEW p \in Ports, Plug(p)
      PROVE  Types' /\ UNCHANGED <<clock, port, at, config>>
  BY <1>1, <1>4, <1>7 DEF Plug, TypeOK
<1> QED
  BY <1>3, <1>5, <1>6, <1>7 DEF Neighbours

\* What the daemon starts with.
LEMMA InitDoes ==
  ASSUME Init
  PROVE  Types /\ \A p \in Ports : port[p].role = "NON_SLAVE"
<1>1. /\ config \in Configs /\ cable \in Cables /\ plugged = Ports
      /\ announced \in {f \in [Masters -> DataSet] :
                          \A m \in Masters : f[m] \in Announces[m] \cup {Empty}}
      /\ at = 1 /\ due = {} /\ events = 0 /\ quiet = 0
  BY Zenon DEF Init
<1>2. PICK own \in Own, event \in BOOLEAN :
        clock = [own |-> own, parent |-> Empty, primary |-> 0, Ebest |-> -1,
                 bestForeign |-> <<1, 0>>, event |-> event]
  BY Zenon DEF Init
<1>3. /\ NumberPorts \in Nat /\ NumberPorts > 0 /\ MaxRecords \in Nat /\ MaxRecords > 0
      /\ Receipt \in Nat /\ MaxEvents \in Nat /\ 0 \in Records
      /\ Empty \in DataSet /\ Empty.port = 0
  BY Numbers, DataSetType, BoundaryAssumption
<1>4. clock \in ClockDS
  BY <1>2, <1>3 DEF ClockDS
<1>5. ASSUME NEW p \in Ports
      PROVE  /\ port[p] \in PortDS /\ port[p].role = "NON_SLAVE"
             /\ \A r \in Records : port[p].foreign[r] = Empty
  <2>1. port[p] = [state |-> "INITIALIZING", foreign |-> [r \in Records |-> Empty],
                   identity |-> [r \in Records |-> PortIdentity(Empty)], number |-> 0,
                   next |-> 0, best |-> 0, update |-> FALSE,
                   role |-> "NON_SLAVE", receipt |-> Off, linkUP |-> FALSE]
    BY DEF Init
  <2>2. Empty \in Record
    <3>1. Empty = [Empty EXCEPT !.port = 0]
      BY DEF Empty
    <3> QED
      BY <1>3, <3>1 DEF Record
  <2>3. PortIdentity(Empty) \in {PortIdentity(d) : d \in DataSet}
    BY <1>3
  <2> DEFINE f == [r \in Records |-> Empty]
             i == [r \in Records |-> PortIdentity(Empty)]
  <2>4. f \in [Records -> Record] /\ i \in [Records -> {PortIdentity(d) : d \in DataSet}]
    BY <2>2, <2>3
  <2>5. \A r \in Records : f[r] = Empty
    OBVIOUS
  <2>6. Off \in 0 .. Off /\ 0 \in 0 .. MaxRecords
    BY <1>3 DEF Off
  <2> HIDE DEF f, i
  <2> QED
    BY <1>3, <2>1, <2>4, <2>5, <2>6 DEF PortDS, PortStates, f, i
<1>6. port \in [Ports -> PortDS]
  <2>1. port = [p \in Ports |-> port[p]]
    BY DEF Init
  <2> QED
    BY <1>5, <2>1
<1>7. TypeOK
  BY <1>1, <1>3, <1>4, <1>6 DEF TypeOK
<1>8. OwnRecords
  BY <1>1, <1>3, <1>5 DEF OwnRecords, HeardAt
<1> QED
  BY <1>5, <1>7, <1>8 DEF Types

-----------------------------------------------------------------------------
\* All that the clock keeps and what its ports have recorded is what masters have
\* announced, whichever messages came, cables were pulled and states decided: no
\* index of a record, port or best master is ever out of its table
\* (addForeign(), ErBest(), EBest(), globalBestForeignMastersUpdate()).
THEOREM TypeCorrect == Spec => []TypeOK
<1>1. Init => Types
  BY InitDoes
<1>2. Types /\ [Next]_vars => Types'
  <2> SUFFICES ASSUME Types, [Next]_vars
               PROVE  Types'
    OBVIOUS
  <2>1. CASE SinglePortLoop
    BY <2>1, SinglePortLoopTypes
  <2>2. CASE SharedPortsLoop
    BY <2>2, SharedPortsLoopTypes
  <2>3. CASE Tick
    BY <2>3, TickDoes
  <2>4. CASE Neighbours
    BY <2>4, NeighboursDo
  <2>5. CASE UNCHANGED vars
    BY <2>5 DEF vars, Types, TypeOK, OwnRecords, HeardAt
  <2> QED
    BY <2>1, <2>2, <2>3, <2>4, <2>5 DEF Next, LoopTurn, Neighbours
<1>3. Types => TypeOK
  BY DEF Types
<1> QED
  BY <1>1, <1>2, <1>3, PTL DEF Spec

-----------------------------------------------------------------------------
(* One master is followed.                                                 *)

\* Once every port has had its turn, a port that may only be a slave or the port
\* of the best master is the one primary slave.
LEMMA OneInAll ==
  ASSUME OneUplink, IInv, at = NumberPorts + 1
  PROVE  \A p, q \in Primary : p = q
<1>1. CASE ~clock.event
  BY <1>1 DEF IInv, Following
<1>2. CASE clock.event
  <2>1. ASSUME NEW p \in Primary
        PROVE  p \in Ports /\ (config[p] = "S_ONLY" \/ p = clock.bestForeign[1])
    <3>1. p \in Ports
      BY DEF Primary
    <3>2. p < at
      BY <3>1, Numbers DEF Ports
    <3> QED
      BY <1>2, <3>1, <3>2 DEF IInv, Following
  <2>2. ASSUME NEW p \in Primary
        PROVE  config[p] # "M_ONLY"
    BY <2>2 DEF Primary, IInv, Entitled
  <2>3. ASSUME NEW p \in Primary, NEW q \in Primary, config[p] = "S_ONLY", p # q
        PROVE  FALSE
    <3>1. config[q] = "M_ONLY"
      BY <2>1, <2>3 DEF OneUplink, IInv, TypeOK
    <3> QED
      BY <2>2, <3>1
  <2> QED
    BY <2>1, <2>3
<1> QED
  BY <1>1, <1>2

LEMMA SinglePortLoopFollows ==
  ASSUME OneUplink, IInv, SinglePortLoop
  PROVE  (Entitled /\ Following)'
<1>0. Types
  BY DEF IInv, Types
<1>1. PICK heard \in SUBSET due :
        /\ clock' = TurnOf(at, heard).clock
        /\ port' = [port EXCEPT ![at] = TurnOf(at, heard).port]
  BY <1>0, SinglePortLoopIs
<1>2. at \in Ports /\ at' = at + 1 /\ config' = config
  BY <1>0, SinglePortLoopIs
<1> DEFINE s == [clock |-> clock, port |-> port[at]]
<1>3. s.clock = clock /\ s.port = port[at]
  OBVIOUS
<1>4. MayBePrimary(s, at)
  BY <1>2 DEF IInv, Entitled, MayBePrimary
<1>5. PICK t : t = TurnOf(at, heard)
  OBVIOUS
<1>6. /\ t \in State /\ Kept(s, t)
      /\ MayBePrimary(t, at)
      /\ t.port.linkUP /\ t.port.role = "PRIMARY_SLAVE" =>
           IF clock.event THEN config[at] = "S_ONLY" \/ at = clock.bestForeign[1]
           ELSE port[at].linkUP /\ port[at].role = "PRIMARY_SLAVE"
  BY <1>0, <1>2, <1>4, <1>5, TurnDoes
<1>7. /\ clock'.own = clock.own /\ clock'.event = clock.event
      /\ clock'.bestForeign = clock.bestForeign
  BY <1>1, <1>3, <1>5, <1>6 DEF Kept
<1>8. \A p \in Ports : port'[p] = IF p = at THEN t.port ELSE port[p]
  BY <1>0, <1>1, <1>5 DEF Types, TypeOK
<1>9. clock' = t.clock
  BY <1>1, <1>5
<1> HIDE DEF s
<1>10. Entitled'
  <2>1. ASSUME NEW p \in Ports, port'[p].role = "PRIMARY_SLAVE"
        PROVE  /\ config'[p] # "M_ONLY"
               /\ config'[p] # "S_ONLY" =>
                    port'[p].state # "LISTENING" /\ clock'.own.clockClass >= 128
    <3>1. CASE p = at
      BY <1>2, <1>6, <1>8, <1>9, <2>1, <3>1 DEF MayBePrimary
    <3>2. CASE p # at
      BY <1>2, <1>7, <1>8, <2>1, <3>2 DEF IInv, Entitled
    <3> QED
      BY <3>1, <3>2
  <2> QED
    BY <2>1 DEF Entitled
<1>11. \A p \in Primary' : p # at => p \in Primary
  BY <1>8 DEF Primary
<1>12. at \in Primary' => t.port.linkUP /\ t.port.role = "PRIMARY_SLAVE"
  BY <1>8 DEF Primary
<1>13. Following'
  <2>1. CASE clock.event
    <3>1. ASSUME NEW p \in Primary', p < at'
          PROVE  config'[p] = "S_ONLY" \/ p = clock'.bestForeign[1]
      <4>1. CASE p = at
        BY <1>2, <1>6, <1>7, <1>12, <2>1, <4>1
      <4>2. CASE p # at
        <5>1. p \in Nat /\ at \in Nat
          BY <1>2, Numbers DEF Primary
        <5>2. p < at /\ p \in Primary
          BY <1>2, <1>11, <3>1, <4>2, <5>1
        <5> QED
          BY <1>2, <1>7, <2>1, <5>2 DEF IInv, Following
      <4> QED
        BY <4>1, <4>2
    <3> QED
      BY <1>7, <2>1, <3>1 DEF Following
  <2>2. CASE ~clock.event
    <3>1. Primary' \subseteq Primary
      BY <1>2, <1>6, <1>11, <1>12, <2>2 DEF Primary
    <3> QED
      BY <1>7, <2>2, <3>1 DEF IInv, Following
  <2> QED
    BY <2>1, <2>2
<1> QED
  BY <1>10, <1>13

LEMMA SharedPortsLoopFollows ==
  ASSUME OneUplink, IInv, SharedPortsLoop
  PROVE  (Entitled /\ Following)'
<1>1. Types /\ TypeOK
  BY DEF IInv, Types
<1>2. /\ clock'.own # clock.own => clock.own.clockClass = 6 /\ clock'.own.clockClass = 7
  BY <1>1, SharedPortsLoopDoes
<1>3. PICK b \in Records : port' = [port EXCEPT ![1] = [port[1] EXCEPT !.best = b]]
  BY <1>1, SharedPortsLoopDoes
<1>4. at = NumberPorts + 1 /\ at' = 1 /\ config' = config
  BY Zenon DEF SharedPortsLoop
<1>5. \A p \in Ports : /\ port'[p].role = port[p].role /\ port'[p].state = port[p].state
                       /\ port'[p].linkUP = port[p].linkUP
  BY <1>1, <1>3 DEF TypeOK, PortDS
<1>6. Primary' = Primary
  BY <1>5 DEF Primary
<1>7. \A p, q \in Primary : p = q
  BY <1>4, OneInAll
<1>8. Following'
  <2>1. \A p \in Primary' : ~(p < at')
    BY <1>4 DEF Primary, Ports
  <2> QED
    BY <1>6, <1>7, <2>1 DEF Following
<1>9. Entitled'
  BY <1>2, <1>4, <1>5 DEF IInv, Entitled
<1> QED
  BY <1>8, <1>9

\* Who has which role, and in whose turn it is, does not change.
LEMMA OthersFollow ==
  ASSUME IInv, UNCHANGED <<clock, at, config>>,
         \A p \in Ports : /\ port'[p].role = port[p].role /\ port'[p].state = port[p].state
                          /\ port'[p].linkUP = port[p].linkUP
  PROVE  (Entitled /\ Following)'
<1>1. Primary' = Primary
  BY DEF Primary
<1>2. Following'
  BY <1>1 DEF IInv, Following
<1>3. Entitled'
  BY DEF IInv, Entitled
<1> QED
  BY <1>2, <1>3

\* However masters and cables change, the ports of the clock do not follow two
\* masters: after each round of turns at most one port with a link is the primary
\* slave (bmcStateDecision(), s1() and m1()).
THEOREM FollowsOne ==
  ASSUME OneUplink
  PROVE  Spec => []OnePrimarySlave
<1>1. Init => IInv
  <2> SUFFICES ASSUME Init
               PROVE  IInv
    OBVIOUS
  <2>1. Types /\ \A p \in Ports : port[p].role = "NON_SLAVE"
    BY InitDoes
  <2>2. Primary = {}
    BY <2>1 DEF Primary
  <2>3. Entitled /\ Following
    BY <2>1, <2>2 DEF Entitled, Following
  <2> QED
    BY <2>1, <2>3 DEF IInv, Types
<1>2. IInv /\ [Next]_vars => IInv'
  <2> SUFFICES ASSUME IInv, [Next]_vars
               PROVE  IInv'
    OBVIOUS
  <2>1. Types
    BY DEF IInv, Types
  <2>2. ASSUME Types', (Entitled /\ Following)'
        PROVE  IInv'
    BY <2>2 DEF IInv, Types
  <2>3. CASE SinglePortLoop
    BY <2>1, <2>2, <2>3, SinglePortLoopTypes, SinglePortLoopFollows
  <2>4. CASE SharedPortsLoop
    BY <2>1, <2>2, <2>4, SharedPortsLoopTypes, SharedPortsLoopFollows
  <2>5. CASE Tick
    BY <2>1, <2>2, <2>5, TickDoes, OthersFollow
  <2>6. CASE Neighbours
    BY <2>1, <2>2, <2>6, NeighboursDo, OthersFollow
  <2>7. CASE UNCHANGED vars
    <3>1. Types'
      BY <2>1, <2>7 DEF vars, Types, TypeOK, OwnRecords, HeardAt
    <3>2. (Entitled /\ Following)'
      BY <2>7, OthersFollow DEF vars
    <3> QED
      BY <2>2, <3>1, <3>2
  <2> QED
    BY <2>3, <2>4, <2>5, <2>6, <2>7 DEF Next, LoopTurn, Neighbours
<1>3. IInv => OnePrimarySlave
  <2> SUFFICES ASSUME IInv, at = NumberPorts + 1
               PROVE  \A p, q \in {r \in Ports : port[r].linkUP} :
                        port[p].role = "PRIMARY_SLAVE" /\ port[q].role = "PRIMARY_SLAVE" => p = q
    BY DEF OnePrimarySlave
  <2>1. \A p, q \in Primary : p = q
    BY OneInAll
  <2> QED
    BY <2>1 DEF Primary
<1> QED
  BY <1>1, <1>2, <1>3, PTL DEF Spec

=============================================================================
