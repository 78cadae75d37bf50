------------------------- MODULE SyncExchangeProofs -------------------------
(***************************************************************************)
(* The delay measurement of SyncExchange, for every number of Syncs,       *)
(* requests, restarts and failures, and every range of sequence numbers    *)
(* that is not exhausted by the frames in flight or lost: type             *)
(* correctness, the refinement of ExchangeFeed, the order of the four      *)
(* timestamps, and that the servo keeps up while nothing goes wrong.       *)
(***************************************************************************)
EXTENDS SyncExchange, SequenceTheorems, TLAPS

-----------------------------------------------------------------------------
(* The inductive invariant.  Its parts about a queue take the queue and    *)
(* what they relate it to as parameters.                                   *)

\* A Sync on its way to a slave that has received heard as its last Sync, with so
\* many frames after it: newer than what was heard and than what the servo has
\* used, and so near to the last one sent that numbers have not wrapped around.
\* The delay was measured for older Syncs only.
Expected(f, after, heard, used, measured, sent, lost) ==
  /\ heard < f.of /\ used < f.of /\ f.of <= sent
  /\ measured < MaxRequests + f.of
  /\ sent - f.of <= after + lost /\ sent - f.of < Room + lost

\* What comes after a Sync is its Follow_Up or about a newer Sync.
NotBefore(f, g) ==
  (g.type = "SYNC" => f.of < g.of) /\ (g.type = "FOLLOW_UP" => f.of <= g.of)

\* The Syncs and Follow_Ups on their way to the slave.
SyncsInOrder(queue, heard, used, measured, sent, lost) ==
  \A i \in 1 .. Len(queue) :
    /\ queue[i].type = "SYNC" =>
         /\ Expected(queue[i], Len(queue) - i, heard, used, measured, sent, lost)
         /\ \A j \in i + 1 .. Len(queue) : NotBefore(queue[i], queue[j])
    /\ queue[i].type = "FOLLOW_UP" => heard <= queue[i].of /\ queue[i].of <= sent

\* What a slave knows of the last Sync that it received, and of that of its servo.
SyncHeard ==
  LET heard == slave.sync_receive_time.of
  IN  /\ heard <= syncs /\ fed.t2 <= syncs /\ requests <= MaxRequests + syncs
      /\ slave.waitingForFollow =>
           fed.t2 < heard /\ requests < MaxRequests + heard /\ syncs - heard < SeqMod
      /\ slave.got_sync =>
           /\ slave.t1.of = slave.t2.of /\ fed.t2 < slave.t2.of
           /\ slave.t2.of <= heard /\ slave.t2.of <= slave.heard
           /\ slave.waitingForFollow => slave.t2.of < heard

\* Without restarts a sequence number tells its frame.
NumbersTell(queue) ==
  \A i \in 1 .. Len(queue) :
    queue[i].type \in {"SYNC", "FOLLOW_UP"} => queue[i].sequenceId = (queue[i].of - 1) % SeqMod
Numbered ==
  /\ sentSyncSequenceId = syncs % SeqMod
  /\ NumbersTell(toSlave)
  /\ slave.waitingForFollow
       => slave.recvSyncSequenceId = (slave.sync_receive_time.of - 1) % SeqMod

\* Without losses a Follow_Up comes right after its Sync.
Paired(queue) ==
  \A i \in 2 .. Len(queue) :
    queue[i].type = "FOLLOW_UP" => queue[i - 1].type = "SYNC" /\ queue[i - 1].of = queue[i].of
FirstPaired ==
  toSlave # <<>> /\ toSlave[1].type = "FOLLOW_UP" /\ slave.portState = "SLAVE"
    => slave.waitingForFollow /\ slave.sync_receive_time.of = toSlave[1].of

FollowUps ==
  /\ restarts = 0 \/ losses = 0
  /\ restarts = 0 => Numbered
  /\ losses = 0 => Paired(toSlave) /\ FirstPaired

\* A request on its way, or its answer, with so many frames after it: newer than
\* the one of the last update, so near to the last one sent, and its number says
\* how many requests were sent after it.
Outstanding(f, after, used, sent, next, lost) ==
  /\ used < f.of /\ f.of <= sent /\ sent - f.of <= after + lost
  /\ (f.sequenceId + (sent - f.of) + 1) % SeqMod = next

\* The requests on their way to the master.
RequestsInOrder(queue, used, sent, next, lost) ==
  \A i \in 1 .. Len(queue) :
    /\ queue[i].type = "DELAY_REQ"
    /\ Outstanding(queue[i], Len(queue) - i, used, sent, next, lost)
    /\ \A j \in i + 1 .. Len(queue) : queue[i].of < queue[j].of

\* The answers on their way to the slave, and the requests behind them.
AnswersInOrder(queue, behind, used, sent, next, lost) ==
  \A i \in 1 .. Len(queue) :
    queue[i].type = "DELAY_RESP" =>
      /\ Outstanding(queue[i], Len(queue) - i + Len(behind), used, sent, next, lost)
      /\ \A j \in i + 1 .. Len(queue) :
           /\ queue[j].type = "SYNC" =>
                Outstanding(queue[i], Len(queue) - i + Len(behind) - 1, used, sent, next, lost)
           /\ queue[j].type = "DELAY_RESP" => queue[i].of < queue[j].of
      /\ \A j \in 1 .. Len(behind) : queue[i].of < behind[j].of

\* The last request is the one of the departure time that the slave keeps.
Departure ==
  /\ fed.t4 <= requests
  /\ slave.delayReq_tx_ts.correct => slave.delayReq_tx_ts.of = requests

\* Only the Follow_Up of a Sync that is still in flight is one too many.
InRoom ==
  \/ InFlight <= Room
  \/ InFlight = Room + 1 /\ \E i \in 1 .. Len(toSlave) : toSlave[i].type = "SYNC"

IInv ==
  /\ TypeOK /\ DelayAfterSync
  /\ SyncsInOrder(toSlave, slave.sync_receive_time.of, fed.t2, requests, syncs, losses)
  /\ SyncHeard /\ FollowUps
  /\ RequestsInOrder(toMaster, fed.t4, requests, slave.sentDelayReqSequenceId, losses)
  /\ AnswersInOrder(toSlave, toMaster, fed.t4, requests, slave.sentDelayReqSequenceId, losses)
  /\ Departure /\ InRoom

-----------------------------------------------------------------------------
(* Lemmas of arithmetic.                                                   *)

\* Division by a positive number leaves a remainder below it.
LEMMA Division ==
  ASSUME NEW a \in Int, NEW m \in Nat \ {0}
  PROVE  m * (a \div m) + (a % m) = a /\ a % m \in 0 .. m - 1 /\ a \div m \in Int
<1>1. a \div m \in Int
  OBVIOUS
<1>2. a % m \in 0 .. m - 1
  OBVIOUS
<1>3. m * (a \div m) + (a % m) = a
  <2>1. m \in Int /\ m > 0
    OBVIOUS
  <2>2. ASSUME NEW b \in Int, NEW n \in Int, n > 0
        PROVE  n * (b \div n) + (b % n) = b
    BY <2>2
  <2> QED
    BY <2>1, <2>2
<1> QED
  BY <1>1, <1>2, <1>3

\* A product of integers whose size is below that of a factor is zero.
LEMMA SmallProduct ==
  ASSUME NEW m \in Nat \ {0}, NEW k \in Int, -m < m * k, m * k < m
  PROVE  k = 0
<1>1. CASE k >= 1
  <2>1. m * (k - 1) >= 0
    BY <1>1
  <2>2. m * k = m * (k - 1) + m
    OBVIOUS
  <2> QED
    BY <2>1, <2>2
<1>2. CASE k <= -1
  <2>1. m * (-k - 1) >= 0
    BY <1>2
  <2>2. m * k = -(m * (-k - 1)) - m
    OBVIOUS
  <2> QED
    BY <2>1, <2>2
<1> QED
  BY <1>1, <1>2

\* The remainder is the only such number.
LEMMA RemainderUnique ==
  ASSUME NEW m \in Nat \ {0}, NEW a \in Int, NEW q \in Int, NEW r \in 0 .. m - 1, a = m * q + r
  PROVE  a % m = r
<1> DEFINE k == a \div m - q
<1>1. k \in Int /\ m * k = r - (a % m) /\ a % m \in 0 .. m - 1
  <2>1. a = m * (a \div m) + (a % m) /\ a % m \in 0 .. m - 1 /\ a \div m \in Int
    BY Division
  <2>2. m * (a \div m - q) = m * (a \div m) - m * q
    BY <2>1
  <2> QED
    BY <2>1, <2>2
<1> HIDE DEF k
<1>2. k = 0
  BY <1>1, SmallProduct
<1> QED
  BY <1>1, <1>2

\* Numbers that are equal modulo m and nearer than m are equal.
LEMMA NearAndCongruent ==
  ASSUME NEW m \in Nat \ {0}, NEW a \in Int, NEW b \in Int,
         a <= b, b - a < m, a % m = b % m
  PROVE  a = b
<1> DEFINE k == b \div m - a \div m
<1>1. k \in Int /\ b - a = m * k
  <2>1. a = m * (a \div m) + (a % m) /\ a \div m \in Int /\ b = m * (b \div m) + (b % m) /\ b \div m \in Int
        /\ a % m \in Int
    BY Division
  <2>2. m * (b \div m - a \div m) = m * (b \div m) - m * (a \div m)
    BY <2>1
  <2> QED
    BY <2>1, <2>2
<1> HIDE DEF k
<1>2. k = 0
  BY <1>1, SmallProduct
<1> QED
  BY <1>1, <1>2

\* Counting on modulo m.
LEMMA CountOn ==
  ASSUME NEW m \in Nat \ {0}, NEW a \in Int
  PROVE  ((a % m) + 1) % m = (a + 1) % m
<1>1. m * (a \div m) + (a % m) = a /\ a \div m \in Int /\ a % m \in Int
  BY Division
<1>2. PICK b \in Int : b = (a % m) + 1
  BY <1>1
<1>3. PICK c \in Int : c = a + 1
  OBVIOUS
<1>4. m * (b \div m) + (b % m) = b /\ b \div m \in Int /\ b % m \in 0 .. m - 1
  BY Division
<1>5. c = m * (a \div m + b \div m) + (b % m) /\ a \div m + b \div m \in Int
  BY <1>1, <1>2, <1>3, <1>4
<1>6. c % m = b % m
  BY <1>4, <1>5, RemainderUnique
<1> QED
  BY <1>2, <1>3, <1>6

\* A number in the range is its own remainder.
LEMMA SmallRemainder ==
  ASSUME NEW m \in Nat \ {0}, NEW r \in 0 .. m - 1
  PROVE  r % m = r
<1>1. r = m * 0 + r
  OBVIOUS
<1> QED
  BY <1>1, RemainderUnique

-----------------------------------------------------------------------------
(* Lemmas about queues.                                                    *)

\* What Without() leaves.
LEMMA WithoutFacts ==
  ASSUME NEW T, NEW queue \in Seq(T), NEW i \in 1 .. Len(queue)
  PROVE  /\ Without(queue, i) \in Seq(T) /\ Len(Without(queue, i)) = Len(queue) - 1
         /\ \A j \in 1 .. Len(queue) - 1 :
              Without(queue, i)[j] = queue[IF j < i THEN j ELSE j + 1]
<1> DEFINE left == SubSeq(queue, 1, i - 1)
           right == SubSeq(queue, i + 1, Len(queue))
<1>1. Len(queue) \in Nat /\ \A j \in 1 .. Len(queue) : queue[j] \in T
  BY LenProperties, ElementOfSeq
<1>2. left \in Seq(T) /\ Len(left) = i - 1 /\ \A j \in 1 .. i - 1 : left[j] = queue[j]
  BY <1>1, SubSeqProperties
<1>3. right \in Seq(T) /\ Len(right) = Len(queue) - i
      /\ \A j \in 1 .. Len(queue) - i : right[j] = queue[j + i]
  BY <1>1, SubSeqProperties
<1> HIDE DEF left, right
<1>4. /\ left \o right \in Seq(T) /\ Len(left \o right) = Len(queue) - 1
      /\ \A j \in 1 .. Len(queue) - 1 :
           (left \o right)[j] = IF j <= i - 1 THEN left[j] ELSE right[j - (i - 1)]
  BY <1>1, <1>2, <1>3, ConcatProperties
<1>5. ASSUME NEW j \in 1 .. Len(queue) - 1
      PROVE  (left \o right)[j] = queue[IF j < i THEN j ELSE j + 1]
  <2>1. CASE j < i
    BY <1>2, <1>4, <2>1
  <2>2. CASE j >= i
    <3>1. PICK k \in 1 .. Len(queue) - i : k = j - (i - 1) /\ k + i = j + 1
      BY <1>1, <2>2
    <3>2. (left \o right)[j] = right[k]
      BY <1>4, <2>2, <3>1
    <3>3. right[k] = queue[j + 1]
      BY <1>3, <3>1
    <3> QED
      BY <2>2, <3>2, <3>3
  <2>3. j < i \/ j >= i
    BY <1>1
  <2> QED
    BY <2>1, <2>2, <2>3, Zenon
<1> QED
  BY <1>4, <1>5 DEF Without, left, right

\* Tail() is Without() of the first.
LEMMA TailFacts ==
  ASSUME NEW T, NEW queue \in Seq(T), queue # <<>>
  PROVE  /\ 1 \in 1 .. Len(queue) /\ Head(queue) = queue[1] /\ Head(queue) \in T
         /\ Tail(queue) = Without(queue, 1)
         /\ Tail(queue) \in Seq(T) /\ Len(Tail(queue)) = Len(queue) - 1
         /\ Len(queue) \in Nat /\ \A j \in 1 .. Len(queue) - 1 : Tail(queue)[j] = queue[j + 1]
<1>1. Len(queue) \in Nat \ {0}
  BY EmptySeq
<1>2. /\ Head(queue) \in T /\ Tail(queue) \in Seq(T) /\ Len(Tail(queue)) = Len(queue) - 1
      /\ \A j \in 1 .. Len(Tail(queue)) : Tail(queue)[j] = queue[j + 1]
  BY HeadTailProperties
<1>3. /\ Without(queue, 1) \in Seq(T) /\ Len(Without(queue, 1)) = Len(queue) - 1
      /\ \A j \in 1 .. Len(queue) - 1 : Without(queue, 1)[j] = queue[j + 1]
  BY <1>1, WithoutFacts
<1>4. Tail(queue) = Without(queue, 1)
  BY <1>2, <1>3, SeqEqual
<1> QED
  BY <1>1, <1>2, <1>4

\* What Append() adds.
LEMMA AppendFacts ==
  ASSUME NEW T, NEW queue \in Seq(T), NEW f \in T
  PROVE  /\ Append(queue, f) \in Seq(T) /\ Len(Append(queue, f)) = Len(queue) + 1
         /\ Len(queue) \in Nat
         /\ \A j \in 1 .. Len(queue) : Append(queue, f)[j] = queue[j]
         /\ Append(queue, f)[Len(queue) + 1] = f
BY AppendProperties, LenProperties

\* A frame of a queue carries a natural number.
LEMMA FrameTypes ==
  ASSUME NEW queue \in Seq(Frame), NEW i \in 1 .. Len(queue)
  PROVE  queue[i] \in Frame /\ queue[i].of \in Number /\ queue[i].of \in Nat
         /\ queue[i].sequenceId \in UInteger16 /\ Len(queue) \in Nat
<1>1. queue[i] \in Frame /\ Len(queue) \in Nat
  BY ElementOfSeq, LenProperties
<1> QED
  BY <1>1, BoundAssumption DEF Frame, Number

\* Where the frames were that Without() leaves: in the same order.
LEMMA WithoutPlaces ==
  ASSUME NEW queue \in Seq(Frame), NEW k \in 1 .. Len(queue),
         NEW i \in 1 .. Len(Without(queue, k))
  PROVE  \E at \in 1 .. Len(queue) :
           /\ Without(queue, k)[i] = queue[at] /\ at = IF i < k THEN i ELSE i + 1
           /\ \A j \in i + 1 .. Len(Without(queue, k)) :
                \E to \in at + 1 .. Len(queue) : Without(queue, k)[j] = queue[to]
<1> DEFINE rest == Without(queue, k)
           At(j) == IF j < k THEN j ELSE j + 1
<1>1. Len(rest) = Len(queue) - 1 /\ Len(queue) \in Nat
      /\ \A j \in 1 .. Len(queue) - 1 : rest[j] = queue[At(j)]
  BY WithoutFacts, LenProperties
<1> HIDE DEF rest
<1>2. \A j \in 1 .. Len(queue) - 1 : At(j) \in 1 .. Len(queue)
  BY <1>1
<1>3. i \in 1 .. Len(queue) - 1
  BY <1>1 DEF rest
<1>4. ASSUME NEW j \in i + 1 .. Len(rest)
      PROVE  \E to \in At(i) + 1 .. Len(queue) : rest[j] = queue[to]
  <2>1. j \in 1 .. Len(queue) - 1
    BY <1>1, <1>3
  <2>2. At(j) \in At(i) + 1 .. Len(queue)
    BY <1>1, <1>3, <2>1
  <2> QED
    BY <1>1, <2>1, <2>2
<1> QED
  BY <1>1, <1>2, <1>3, <1>4 DEF rest

\* How far the rest is from where it was.
LEMMA WithoutAfter ==
  ASSUME NEW queue \in Seq(Frame), NEW k \in 1 .. Len(queue),
         NEW i \in 1 .. Len(Without(queue, k))
  PROVE  \E at \in 1 .. Len(queue) :
           /\ Without(queue, k)[i] = queue[at]
           /\ Len(queue) - at <= Len(Without(queue, k)) - i + 1
           /\ k = 1 => Len(queue) - at = Len(Without(queue, k)) - i
           /\ Len(queue) - at \in Int /\ Len(Without(queue, k)) - i \in Int
           /\ \A j \in i + 1 .. Len(Without(queue, k)) :
                \E to \in at + 1 .. Len(queue) : Without(queue, k)[j] = queue[to]
<1> DEFINE rest == Without(queue, k)
<1>1. Len(rest) = Len(queue) - 1 /\ Len(queue) \in Nat
  BY WithoutFacts, LenProperties
<1>2. PICK at \in 1 .. Len(queue) :
        /\ rest[i] = queue[at] /\ at = IF i < k THEN i ELSE i + 1
        /\ \A j \in i + 1 .. Len(rest) :
             \E to \in at + 1 .. Len(queue) : rest[j] = queue[to]
  BY WithoutPlaces
<1> HIDE DEF rest
<1>3. i \in 1 .. Len(rest)
  BY DEF rest
<1>4. Len(queue) - at \in Int /\ Len(rest) - i \in Int
  BY <1>1, <1>3
<1>5. Len(queue) - at <= Len(rest) - i + 1 /\ (k = 1 => Len(queue) - at = Len(rest) - i)
  BY <1>1, <1>2, <1>3
<1> QED
  BY <1>2, <1>4, <1>5 DEF rest

\* What is expected stays so while the numbers that it depends on change like this.
LEMMA StillExpected ==
  ASSUME NEW f \in Frame, NEW after \in Int, NEW heard \in Int, NEW used \in Int,
         NEW measured \in Int, NEW sent \in Int, NEW lost \in Int,
         Expected(f, after, heard, used, measured, sent, lost),
         NEW after2 \in Int, NEW used2 \in Int, NEW measured2 \in Int, NEW sent2 \in Int,
         NEW lost2 \in Int,
         used2 = used \/ used2 <= heard,
         measured2 = measured \/ measured2 <= MaxRequests + heard,
         sent <= sent2, lost <= lost2, sent2 - sent <= after2 + lost2 - (after + lost),
         sent2 = sent \/ after2 < Room
  PROVE  Expected(f, after2, heard, used2, measured2, sent2, lost2)
<1>1. PICK of \in Nat : of = f.of
  BY BoundAssumption DEF Frame, Number
<1>2. PICK max \in Nat, room \in Nat : max = MaxRequests /\ room = Room
  BY BoundAssumption
<1>3. /\ heard < of /\ used < of /\ of <= sent
      /\ measured < max + of
      /\ sent - of <= after + lost /\ sent - of < room + lost
  BY <1>1, <1>2 DEF Expected
<1>4. /\ heard < of /\ used2 < of /\ of <= sent2
      /\ measured2 < max + of
      /\ sent2 - of <= after2 + lost2 /\ sent2 - of < room + lost2
  BY <1>2, <1>3
<1> QED
  BY <1>1, <1>2, <1>4 DEF Expected

-----------------------------------------------------------------------------
(* The parts about queues, when queues change.                             *)

\* A frame taken from the head, or lost.
LEMMA SyncsWithout ==
  ASSUME NEW queue \in Seq(Frame), NEW k \in 1 .. Len(queue),
         NEW heard \in Int, NEW used \in Int, NEW measured \in Int, NEW sent \in Int,
         NEW lost \in Int, NEW lost2 \in Int,
         SyncsInOrder(queue, heard, used, measured, sent, lost),
         lost2 >= lost, k = 1 \/ lost2 > lost
  PROVE  SyncsInOrder(Without(queue, k), heard, used, measured, sent, lost2)
<1> DEFINE rest == Without(queue, k)
<1>1. SUFFICES ASSUME NEW i \in 1 .. Len(rest)
      PROVE  /\ rest[i].type = "SYNC" =>
                  /\ Expected(rest[i], Len(rest) - i, heard, used, measured, sent, lost2)
                  /\ \A j \in i + 1 .. Len(rest) : NotBefore(rest[i], rest[j])
             /\ rest[i].type = "FOLLOW_UP" => heard <= rest[i].of /\ rest[i].of <= sent
  BY DEF SyncsInOrder
<1>2. PICK at \in 1 .. Len(queue) :
        /\ rest[i] = queue[at]
        /\ Len(queue) - at + lost <= Len(rest) - i + lost2
        /\ Len(queue) - at \in Int /\ Len(rest) - i \in Int
        /\ \A j \in i + 1 .. Len(rest) :
             \E to \in at + 1 .. Len(queue) : rest[j] = queue[to]
  <2>1. PICK at \in 1 .. Len(queue) :
          /\ rest[i] = queue[at]
          /\ Len(queue) - at <= Len(rest) - i + 1
          /\ k = 1 => Len(queue) - at = Len(rest) - i
          /\ Len(queue) - at \in Int /\ Len(rest) - i \in Int
          /\ \A j \in i + 1 .. Len(rest) :
               \E to \in at + 1 .. Len(queue) : rest[j] = queue[to]
    BY WithoutAfter
  <2> HIDE DEF rest
  <2>2. Len(queue) - at + lost <= Len(rest) - i + lost2
    BY <2>1
  <2> QED
    BY <2>1, <2>2
<1> HIDE DEF rest
<1>3. /\ queue[at].type = "SYNC" =>
           /\ Expected(queue[at], Len(queue) - at, heard, used, measured, sent, lost)
           /\ \A j \in at + 1 .. Len(queue) : NotBefore(queue[at], queue[j])
      /\ queue[at].type = "FOLLOW_UP" => heard <= queue[at].of /\ queue[at].of <= sent
  BY DEF SyncsInOrder
<1>4. ASSUME queue[at].type = "SYNC"
      PROVE  Expected(queue[at], Len(rest) - i, heard, used, measured, sent, lost2)
  <2>1. PICK after \in Int, after2 \in Int :
          after = Len(queue) - at /\ after2 = Len(rest) - i /\ after + lost <= after2 + lost2
    BY <1>2
  <2>2. Expected(queue[at], after, heard, used, measured, sent, lost) /\ queue[at] \in Frame
    BY <1>3, <1>4, <2>1, FrameTypes
  <2>3. Expected(queue[at], after2, heard, used, measured, sent, lost2)
    BY <2>1, <2>2, StillExpected
  <2> QED
    BY <2>1, <2>3
<1>5. ASSUME queue[at].type = "SYNC", NEW j \in i + 1 .. Len(rest)
      PROVE  NotBefore(rest[i], rest[j])
  BY <1>2, <1>3, <1>5
<1> QED
  BY <1>2, <1>3, <1>4, <1>5

\* A frame appended that is no Sync: nothing of Syncs, or the Follow_Up of the last one.
LEMMA SyncsAppend ==
  ASSUME NEW queue \in Seq(Frame), NEW f \in Frame,
         NEW heard \in Int, NEW used \in Int, NEW measured \in Int, NEW sent \in Int,
         NEW lost \in Int, SyncsInOrder(queue, heard, used, measured, sent, lost),
         f.type # "SYNC", f.type = "FOLLOW_UP" => f.of = sent /\ heard <= sent
  PROVE  SyncsInOrder(Append(queue, f), heard, used, measured, sent, lost)
<1> DEFINE more == Append(queue, f)
<1>1. /\ Len(more) = Len(queue) + 1 /\ Len(queue) \in Nat /\ more[Len(queue) + 1] = f
      /\ \A j \in 1 .. Len(queue) : more[j] = queue[j]
  BY AppendFacts
<1> HIDE DEF more
<1>2. ASSUME NEW i \in 1 .. Len(queue), queue[i].type = "SYNC"
      PROVE  Expected(queue[i], Len(more) - i, heard, used, measured, sent, lost)
  <2>1. queue[i] \in Frame
    BY FrameTypes
  <2>2. Expected(queue[i], Len(queue) - i, heard, used, measured, sent, lost)
    BY <1>2 DEF SyncsInOrder
  <2>3. PICK after \in Int, after2 \in Int :
          after = Len(queue) - i /\ after2 = Len(more) - i /\ after2 = after + 1
    <3>1. Len(queue) - i \in Int /\ Len(more) - i \in Int /\ Len(more) - i = Len(queue) - i + 1
      BY <1>1
    <3> QED
      BY <3>1
  <2>4. Expected(queue[i], after2, heard, used, measured, sent, lost)
    BY <2>1, <2>2, <2>3, StillExpected
  <2> QED
    BY <2>3, <2>4
<1>3. ASSUME NEW i \in 1 .. Len(queue), queue[i].type = "SYNC", NEW j \in i + 1 .. Len(more)
      PROVE  NotBefore(queue[i], more[j])
  <2>1. CASE j = Len(queue) + 1
    <3>1. queue[i].of <= sent
      BY <1>2, <1>3 DEF Expected
    <3> QED
      BY <1>1, <2>1, <3>1 DEF NotBefore
  <2>2. CASE j # Len(queue) + 1
    <3>1. j \in i + 1 .. Len(queue) /\ j \in 1 .. Len(queue)
      BY <1>1, <2>2
    <3> QED
      BY <1>1, <1>3, <3>1 DEF SyncsInOrder
  <2> QED
    BY <2>1, <2>2
<1>4. \A i \in 1 .. Len(more) : (i \in 1 .. Len(queue) /\ more[i] = queue[i]) \/ more[i] = f
  BY <1>1
<1>5. ASSUME NEW i \in 1 .. Len(more)
      PROVE  /\ more[i].type = "SYNC" =>
                  /\ Expected(more[i], Len(more) - i, heard, used, measured, sent, lost)
                  /\ \A j \in i + 1 .. Len(more) : NotBefore(more[i], more[j])
             /\ more[i].type = "FOLLOW_UP" => heard <= more[i].of /\ more[i].of <= sent
  <2>1. CASE more[i].type = "SYNC"
    BY <1>2, <1>3, <1>4, <2>1
  <2>2. CASE more[i].type = "FOLLOW_UP"
    <3>1. CASE more[i] = f
      BY <2>2, <3>1
    <3>2. CASE i \in 1 .. Len(queue) /\ more[i] = queue[i]
      BY <2>2, <3>2 DEF SyncsInOrder
    <3> QED
      BY <1>4, <2>2, <3>1, <3>2
  <2> QED
    BY <2>1, <2>2
<1> QED
  BY <1>5 DEF SyncsInOrder, more

\* The next Sync sent, while there is room for it.
LEMMA SyncsSent ==
  ASSUME NEW queue \in Seq(Frame), NEW f \in Frame,
         NEW heard \in Int, NEW used \in Int, NEW measured \in Int, NEW sent \in Int,
         NEW lost \in Nat, SyncsInOrder(queue, heard, used, measured, sent, lost),
         f.type = "SYNC", f.of = sent + 1, Len(queue) < Room,
         heard <= sent, used <= sent, measured <= MaxRequests + sent
  PROVE  SyncsInOrder(Append(queue, f), heard, used, measured, sent + 1, lost)
<1> DEFINE more == Append(queue, f)
<1>1. /\ Len(more) = Len(queue) + 1 /\ Len(queue) \in Nat /\ more[Len(queue) + 1] = f
      /\ \A j \in 1 .. Len(queue) : more[j] = queue[j]
  BY AppendFacts
<1> HIDE DEF more
<1>2. ASSUME NEW i \in 1 .. Len(queue), queue[i].type = "SYNC"
      PROVE  /\ Expected(queue[i], Len(more) - i, heard, used, measured, sent + 1, lost)
             /\ queue[i].of < f.of
  <2>1. queue[i] \in Frame /\ queue[i].of \in Nat
    BY FrameTypes
  <2>2. Expected(queue[i], Len(queue) - i, heard, used, measured, sent, lost)
    BY <1>2 DEF SyncsInOrder
  <2>3. PICK after \in Int, after2 \in Int :
          after = Len(queue) - i /\ after2 = Len(more) - i /\ after2 = after + 1
          /\ after2 < Room
    <3>1. Len(queue) - i \in Int /\ Len(more) - i \in Int /\ Len(more) - i = Len(queue) - i + 1
          /\ Len(more) - i < Room
      BY <1>1, BoundAssumption
    <3> QED
      BY <3>1
  <2>4. Expected(queue[i], after2, heard, used, measured, sent + 1, lost)
    BY <2>1, <2>2, <2>3, StillExpected
  <2>5. queue[i].of <= sent
    BY <2>2 DEF Expected
  <2> QED
    BY <2>1, <2>3, <2>4, <2>5
<1>3. ASSUME NEW i \in 1 .. Len(queue), queue[i].type = "SYNC", NEW j \in i + 1 .. Len(more)
      PROVE  NotBefore(queue[i], more[j])
  <2>1. CASE j = Len(queue) + 1
    BY <1>1, <1>2, <1>3, <2>1 DEF NotBefore
  <2>2. CASE j # Len(queue) + 1
    <3>1. j \in i + 1 .. Len(queue) /\ j \in 1 .. Len(queue)
      BY <1>1, <2>2
    <3> QED
      BY <1>1, <1>3, <3>1 DEF SyncsInOrder
  <2> QED
    BY <2>1, <2>2
<1>4. Expected(f, 0, heard, used, measured, sent + 1, lost)
  BY <1>1, BoundAssumption DEF Expected
<1>5. ASSUME NEW i \in 1 .. Len(more)
      PROVE  /\ more[i].type = "SYNC" =>
                  /\ Expected(more[i], Len(more) - i, heard, used, measured, sent + 1, lost)
                  /\ \A j \in i + 1 .. Len(more) : NotBefore(more[i], more[j])
             /\ more[i].type = "FOLLOW_UP" => heard <= more[i].of /\ more[i].of <= sent + 1
  <2>1. CASE i = Len(queue) + 1
    <3>1. more[i] = f /\ Len(more) - i = 0 /\ \A j \in i + 1 .. Len(more) : FALSE
      BY <1>1, <2>1
    <3> QED
      BY <1>4, <3>1
  <2>2. CASE i # Len(queue) + 1
    <3>1. i \in 1 .. Len(queue) /\ more[i] = queue[i]
      BY <1>1, <2>2
    <3>2. CASE queue[i].type = "SYNC"
      BY <1>2, <1>3, <3>1, <3>2
    <3>3. CASE queue[i].type = "FOLLOW_UP"
      <4>1. heard <= queue[i].of /\ queue[i].of <= sent /\ queue[i].of \in Nat
        BY <3>1, <3>3, FrameTypes DEF SyncsInOrder
      <4> QED
        BY <3>1, <3>3, <4>1
    <3> QED
      BY <3>1, <3>2, <3>3
  <2> QED
    BY <2>1, <2>2
<1> QED
  BY <1>5 DEF SyncsInOrder, more

\* The slave hears the first frame, a Sync.
LEMMA SyncsHeard ==
  ASSUME NEW queue \in Seq(Frame), queue # <<>>, queue[1].type = "SYNC",
         NEW heard \in Int, NEW used \in Int, NEW measured \in Int, NEW sent \in Int,
         NEW lost \in Int, SyncsInOrder(queue, heard, used, measured, sent, lost)
  PROVE  SyncsInOrder(Tail(queue), queue[1].of, used, measured, sent, lost)
<1>1. Tail(queue) = Without(queue, 1) /\ 1 \in 1 .. Len(queue)
  BY TailFacts
<1> DEFINE rest == Without(queue, 1)
<1>2. SyncsInOrder(rest, heard, used, measured, sent, lost)
  BY <1>1, SyncsWithout
<1>3. ASSUME NEW i \in 1 .. Len(rest)
      PROVE  \E at \in 2 .. Len(queue) : rest[i] = queue[at] /\ queue[at].of \in Nat
  <2>1. Len(rest) = Len(queue) - 1 /\ Len(queue) \in Nat /\ rest[i] = queue[i + 1]
    <3>1. /\ rest = Tail(queue) /\ Len(Tail(queue)) = Len(queue) - 1 /\ Len(queue) \in Nat
          /\ \A j \in 1 .. Len(queue) - 1 : Tail(queue)[j] = queue[j + 1]
      BY <1>1, TailFacts
    <3> HIDE DEF rest
    <3> QED
      BY <3>1
  <2>2. i + 1 \in 2 .. Len(queue) /\ i + 1 \in 1 .. Len(queue)
    BY <2>1
  <2> QED
    BY <2>1, <2>2, FrameTypes
<1> HIDE DEF rest
<1>4. \A at \in 1 + 1 .. Len(queue) : NotBefore(queue[1], queue[at])
  BY <1>1 DEF SyncsInOrder
<1>5. ASSUME NEW i \in 1 .. Len(rest)
      PROVE  NotBefore(queue[1], rest[i]) /\ rest[i].of \in Nat
  <2>1. PICK at \in 2 .. Len(queue) : rest[i] = queue[at] /\ queue[at].of \in Nat
    BY <1>3
  <2> QED
    BY <1>4, <2>1
<1>6. ASSUME NEW i \in 1 .. Len(rest)
      PROVE  /\ rest[i].type = "SYNC" =>
                  /\ Expected(rest[i], Len(rest) - i, queue[1].of, used, measured, sent, lost)
                  /\ \A j \in i + 1 .. Len(rest) : NotBefore(rest[i], rest[j])
             /\ rest[i].type = "FOLLOW_UP" => queue[1].of <= rest[i].of /\ rest[i].of <= sent
  BY <1>2, <1>5 DEF SyncsInOrder, Expected, NotBefore
<1> QED
  BY <1>1, <1>6 DEF SyncsInOrder, rest

\* The servo uses a Sync that was heard, and the delay is measured for one.
LEMMA SyncsUsed ==
  ASSUME NEW queue \in Seq(Frame), NEW heard \in Int, NEW used \in Int, NEW measured \in Int,
         NEW sent \in Int, NEW lost \in Int,
         SyncsInOrder(queue, heard, used, measured, sent, lost),
         NEW used2 \in Int, used2 = used \/ used2 <= heard,
         NEW measured2 \in Int, measured2 = measured \/ measured2 <= MaxRequests + heard
  PROVE  SyncsInOrder(queue, heard, used2, measured2, sent, lost)
<1>1. ASSUME NEW i \in 1 .. Len(queue), queue[i].type = "SYNC"
      PROVE  Expected(queue[i], Len(queue) - i, heard, used2, measured2, sent, lost)
  <2>1. Expected(queue[i], Len(queue) - i, heard, used, measured, sent, lost)
    BY <1>1 DEF SyncsInOrder
  <2>2. queue[i] \in Frame
    BY FrameTypes
  <2>3. PICK after \in Int : after = Len(queue) - i
    BY LenProperties
  <2>4. Expected(queue[i], after, heard, used2, measured2, sent, lost)
    BY <2>1, <2>2, <2>3, StillExpected
  <2> QED
    BY <2>3, <2>4
<1> QED
  BY <1>1 DEF SyncsInOrder

\* A request stays outstanding until a newer one, or itself, is used.
LEMMA StillOutstanding ==
  ASSUME NEW f \in Frame, NEW after \in Int, NEW used \in Int, NEW sent \in Int,
         NEW next, NEW lost \in Int, Outstanding(f, after, used, sent, next, lost),
         NEW after2 \in Int, NEW used2 \in Int, NEW lost2 \in Int,
         used2 = used \/ used2 < f.of, after + lost <= after2 + lost2
  PROVE  Outstanding(f, after2, used2, sent, next, lost2)
<1>1. PICK of \in Nat : of = f.of
  BY BoundAssumption DEF Frame, Number
<1>2. used < of /\ of <= sent /\ sent - of <= after + lost
  BY <1>1 DEF Outstanding
<1>3. used2 < of /\ sent - of <= after2 + lost2
  BY <1>1, <1>2
<1> QED
  BY <1>1, <1>2, <1>3 DEF Outstanding

\* Another request leaves.
LEMMA OutstandingAfterNext ==
  ASSUME NEW f \in Frame, NEW after \in Int, NEW used \in Int, NEW sent \in Int,
         NEW next, NEW lost \in Int, Outstanding(f, after, used, sent, next, lost)
  PROVE  Outstanding(f, after + 1, used, sent + 1, (next + 1) % SeqMod, lost)
<1>1. PICK of \in Nat, id \in Nat : of = f.of /\ id = f.sequenceId
  BY BoundAssumption, SeqAssumption DEF Frame, Number, UInteger16
<1>2. /\ used < of /\ of <= sent /\ sent - of <= after + lost
      /\ (id + (sent - of) + 1) % SeqMod = next
  BY <1>1 DEF Outstanding
<1>3. used < of /\ of <= sent + 1 /\ sent + 1 - of <= after + 1 + lost
  BY <1>2
<1>4. PICK c \in Int : c = id + (sent - of) + 1
  OBVIOUS
<1>5. ((c % SeqMod) + 1) % SeqMod = (c + 1) % SeqMod
  BY CountOn, SeqAssumption
<1>6. c + 1 = id + (sent + 1 - of) + 1
  BY <1>4
<1>7. (id + (sent + 1 - of) + 1) % SeqMod = (next + 1) % SeqMod
  BY <1>2, <1>4, <1>5, <1>6
<1> QED
  BY <1>1, <1>3, <1>7 DEF Outstanding

\* The next request.
LEMMA NextOutstanding ==
  ASSUME NEW f \in Frame, NEW used \in Int, NEW sent \in Int, NEW next \in UInteger16,
         NEW lost \in Nat, f.of = sent + 1, f.sequenceId = next, used <= sent
  PROVE  Outstanding(f, 0, used, sent + 1, (next + 1) % SeqMod, lost)
<1>1. next \in Int
  BY SeqAssumption DEF UInteger16
<1>2. next + (sent + 1 - (sent + 1)) + 1 = next + 1
  BY <1>1
<1>3. used < sent + 1 /\ sent + 1 <= sent + 1 /\ sent + 1 - (sent + 1) <= 0 + lost
  OBVIOUS
<1> QED
  BY <1>2, <1>3 DEF Outstanding

\* A request taken from the head, or lost.
LEMMA RequestsWithout ==
  ASSUME NEW queue \in Seq(Frame), NEW k \in 1 .. Len(queue),
         NEW used \in Int, NEW sent \in Int, NEW next, NEW lost \in Int, NEW lost2 \in Int,
         RequestsInOrder(queue, used, sent, next, lost),
         lost2 >= lost, k = 1 \/ lost2 > lost
  PROVE  RequestsInOrder(Without(queue, k), used, sent, next, lost2)
<1> DEFINE rest == Without(queue, k)
<1>1. SUFFICES ASSUME NEW i \in 1 .. Len(rest)
      PROVE  /\ rest[i].type = "DELAY_REQ"
             /\ Outstanding(rest[i], Len(rest) - i, used, sent, next, lost2)
             /\ \A j \in i + 1 .. Len(rest) : rest[i].of < rest[j].of
  BY DEF RequestsInOrder
<1>2. PICK at \in 1 .. Len(queue) :
        /\ rest[i] = queue[at]
        /\ Len(queue) - at + lost <= Len(rest) - i + lost2
        /\ Len(queue) - at \in Int /\ Len(rest) - i \in Int
        /\ \A j \in i + 1 .. Len(rest) :
             \E to \in at + 1 .. Len(queue) : rest[j] = queue[to]
  <2>1. PICK at \in 1 .. Len(queue) :
          /\ rest[i] = queue[at]
          /\ Len(queue) - at <= Len(rest) - i + 1
          /\ k = 1 => Len(queue) - at = Len(rest) - i
          /\ Len(queue) - at \in Int /\ Len(rest) - i \in Int
          /\ \A j \in i + 1 .. Len(rest) :
               \E to \in at + 1 .. Len(queue) : rest[j] = queue[to]
    BY WithoutAfter
  <2> HIDE DEF rest
  <2>2. Len(queue) - at + lost <= Len(rest) - i + lost2
    BY <2>1
  <2> QED
    BY <2>1, <2>2
<1> HIDE DEF rest
<1>3. /\ queue[at].type = "DELAY_REQ"
      /\ Outstanding(queue[at], Len(queue) - at, used, sent, next, lost)
      /\ \A j \in at + 1 .. Len(queue) : queue[at].of < queue[j].of
  BY DEF RequestsInOrder
<1>4. Outstanding(queue[at], Len(rest) - i, used, sent, next, lost2)
  <2>1. PICK after \in Int, after2 \in Int :
          after = Len(queue) - at /\ after2 = Len(rest) - i /\ after + lost <= after2 + lost2
    BY <1>2
  <2>2. Outstanding(queue[at], after, used, sent, next, lost) /\ queue[at] \in Frame
    BY <1>3, <2>1, FrameTypes
  <2>3. Outstanding(queue[at], after2, used, sent, next, lost2)
    BY <2>1, <2>2, StillOutstanding
  <2> QED
    BY <2>1, <2>3
<1>5. ASSUME NEW j \in i + 1 .. Len(rest)
      PROVE  rest[i].of < rest[j].of
  BY <1>2, <1>3
<1> QED
  BY <1>2, <1>3, <1>4, <1>5

\* The next request sent.
LEMMA RequestsNext ==
  ASSUME NEW queue \in Seq(Frame), NEW f \in Frame,
         NEW used \in Int, NEW sent \in Int, NEW next \in UInteger16, NEW lost \in Nat,
         RequestsInOrder(queue, used, sent, next, lost),
         f.type = "DELAY_REQ", f.of = sent + 1, f.sequenceId = next, used <= sent
  PROVE  RequestsInOrder(Append(queue, f), used, sent + 1, (next + 1) % SeqMod, lost)
<1> DEFINE more == Append(queue, f)
<1>1. /\ Len(more) = Len(queue) + 1 /\ Len(queue) \in Nat /\ more[Len(queue) + 1] = f
      /\ \A j \in 1 .. Len(queue) : more[j] = queue[j]
  BY AppendFacts
<1> HIDE DEF more
<1>2. ASSUME NEW i \in 1 .. Len(queue)
      PROVE  /\ Outstanding(queue[i], Len(more) - i, used, sent + 1, (next + 1) % SeqMod, lost)
             /\ queue[i].of < f.of
  <2>1. queue[i] \in Frame /\ queue[i].of \in Nat
    BY FrameTypes
  <2>2. PICK after \in Int : after = Len(queue) - i /\ after + 1 = Len(more) - i
    <3>1. Len(queue) - i \in Int /\ Len(queue) - i + 1 = Len(more) - i
      BY <1>1
    <3> QED
      BY <3>1
  <2>3. Outstanding(queue[i], after, used, sent, next, lost)
    BY <2>2 DEF RequestsInOrder
  <2>4. Outstanding(queue[i], after + 1, used, sent + 1, (next + 1) % SeqMod, lost)
    BY <2>1, <2>3, OutstandingAfterNext
  <2>5. queue[i].of <= sent
    BY <2>3 DEF Outstanding
  <2> QED
    BY <2>1, <2>2, <2>4, <2>5
<1>3. Outstanding(f, 0, used, sent + 1, (next + 1) % SeqMod, lost)
  BY NextOutstanding
<1>4. ASSUME NEW i \in 1 .. Len(more)
      PROVE  /\ more[i].type = "DELAY_REQ"
             /\ Outstanding(more[i], Len(more) - i, used, sent + 1, (next + 1) % SeqMod, lost)
             /\ \A j \in i + 1 .. Len(more) : more[i].of < more[j].of
  <2>1. CASE i = Len(queue) + 1
    <3>1. more[i] = f /\ Len(more) - i = 0 /\ \A j \in i + 1 .. Len(more) : FALSE
      BY <1>1, <2>1
    <3> QED
      BY <1>3, <3>1
  <2>2. CASE i # Len(queue) + 1
    <3>1. i \in 1 .. Len(queue) /\ more[i] = queue[i]
      BY <1>1, <2>2
    <3>2. ASSUME NEW j \in i + 1 .. Len(more)
          PROVE  more[i].of < more[j].of
      <4>1. CASE j = Len(queue) + 1
        BY <1>1, <1>2, <3>1, <4>1
      <4>2. CASE j # Len(queue) + 1
        <5>1. j \in i + 1 .. Len(queue) /\ more[j] = queue[j]
          BY <1>1, <3>1, <4>2
        <5> QED
          BY <3>1, <5>1 DEF RequestsInOrder
      <4> QED
        BY <4>1, <4>2
    <3>3. more[i].type = "DELAY_REQ"
      BY <3>1 DEF RequestsInOrder
    <3> QED
      BY <1>2, <3>1, <3>2, <3>3
  <2> QED
    BY <2>1, <2>2
<1> QED
  BY <1>4 DEF RequestsInOrder, more

\* A request that is older than all of these is used.
LEMMA RequestsUsed ==
  ASSUME NEW queue \in Seq(Frame), NEW used \in Int, NEW sent \in Int, NEW next,
         NEW lost \in Int, RequestsInOrder(queue, used, sent, next, lost),
         NEW used2 \in Int, \A i \in 1 .. Len(queue) : used2 < queue[i].of
  PROVE  RequestsInOrder(queue, used2, sent, next, lost)
<1>1. ASSUME NEW i \in 1 .. Len(queue)
      PROVE  Outstanding(queue[i], Len(queue) - i, used2, sent, next, lost)
  <2>1. PICK after \in Int : after = Len(queue) - i
    BY LenProperties
  <2>2. Outstanding(queue[i], after, used, sent, next, lost) /\ queue[i] \in Frame
    BY <2>1, FrameTypes DEF RequestsInOrder
  <2>3. used2 < queue[i].of /\ after + lost <= after + lost
    OBVIOUS
  <2>4. Outstanding(queue[i], after, used2, sent, next, lost)
    BY <2>2, <2>3, StillOutstanding
  <2> QED
    BY <2>1, <2>4
<1> QED
  BY <1>1 DEF RequestsInOrder

\* An answer taken from the head, or lost.
LEMMA AnswersWithout ==
  ASSUME NEW queue \in Seq(Frame), NEW behind \in Seq(Frame), NEW k \in 1 .. Len(queue),
         NEW used \in Int, NEW sent \in Int, NEW next, NEW lost \in Int, NEW lost2 \in Int,
         AnswersInOrder(queue, behind, used, sent, next, lost),
         lost2 >= lost, k = 1 \/ lost2 > lost
  PROVE  AnswersInOrder(Without(queue, k), behind, used, sent, next, lost2)
<1> DEFINE rest == Without(queue, k)
<1>1. SUFFICES
        ASSUME NEW i \in 1 .. Len(rest), rest[i].type = "DELAY_RESP"
        PROVE  /\ Outstanding(rest[i], Len(rest) - i + Len(behind), used, sent, next, lost2)
               /\ \A j \in i + 1 .. Len(rest) :
                    /\ rest[j].type = "SYNC" =>
                         Outstanding(rest[i], Len(rest) - i + Len(behind) - 1, used, sent, next, lost2)
                    /\ rest[j].type = "DELAY_RESP" => rest[i].of < rest[j].of
               /\ \A j \in 1 .. Len(behind) : rest[i].of < behind[j].of
  BY DEF AnswersInOrder
<1>2. PICK at \in 1 .. Len(queue) :
        /\ rest[i] = queue[at]
        /\ Len(queue) - at + lost <= Len(rest) - i + lost2
        /\ Len(queue) - at \in Int /\ Len(rest) - i \in Int
        /\ \A j \in i + 1 .. Len(rest) :
             \E to \in at + 1 .. Len(queue) : rest[j] = queue[to]
  <2>1. PICK at \in 1 .. Len(queue) :
          /\ rest[i] = queue[at]
          /\ Len(queue) - at <= Len(rest) - i + 1
          /\ k = 1 => Len(queue) - at = Len(rest) - i
          /\ Len(queue) - at \in Int /\ Len(rest) - i \in Int
          /\ \A j \in i + 1 .. Len(rest) :
               \E to \in at + 1 .. Len(queue) : rest[j] = queue[to]
    BY WithoutAfter
  <2> HIDE DEF rest
  <2>2. Len(queue) - at + lost <= Len(rest) - i + lost2
    BY <2>1
  <2> QED
    BY <2>1, <2>2
<1> HIDE DEF rest
<1>3. /\ Outstanding(queue[at], Len(queue) - at + Len(behind), used, sent, next, lost)
      /\ \A j \in at + 1 .. Len(queue) :
           /\ queue[j].type = "SYNC" =>
                Outstanding(queue[at], Len(queue) - at + Len(behind) - 1, used, sent, next, lost)
           /\ queue[j].type = "DELAY_RESP" => queue[at].of < queue[j].of
      /\ \A j \in 1 .. Len(behind) : queue[at].of < behind[j].of
  BY <1>1, <1>2 DEF AnswersInOrder
<1>4. PICK after \in Int, after2 \in Int, b \in Int :
        after = Len(queue) - at /\ after2 = Len(rest) - i /\ b = Len(behind)
        /\ after + lost <= after2 + lost2
  BY <1>2, LenProperties
<1>5. Outstanding(rest[i], after2 + b, used, sent, next, lost2)
  <2>1. Outstanding(queue[at], after + b, used, sent, next, lost) /\ queue[at] \in Frame
    BY <1>3, <1>4, FrameTypes
  <2>2. PICK c \in Int, c2 \in Int : c = after + b /\ c2 = after2 + b /\ c + lost <= c2 + lost2
    <3>1. after + b \in Int /\ after2 + b \in Int /\ after + b + lost <= after2 + b + lost2
      BY <1>4
    <3> QED
      BY <3>1
  <2>3. Outstanding(queue[at], c2, used, sent, next, lost2)
    BY <2>1, <2>2, StillOutstanding
  <2> QED
    BY <1>2, <2>2, <2>3
<1>6. ASSUME NEW j \in i + 1 .. Len(rest)
      PROVE  /\ rest[j].type = "SYNC" =>
                  Outstanding(rest[i], after2 + b - 1, used, sent, next, lost2)
             /\ rest[j].type = "DELAY_RESP" => rest[i].of < rest[j].of
  <2>1. PICK to \in at + 1 .. Len(queue) : rest[j] = queue[to]
    BY <1>2
  <2>2. ASSUME rest[j].type = "SYNC"
        PROVE  Outstanding(rest[i], after2 + b - 1, used, sent, next, lost2)
    <3>1. Outstanding(queue[at], after + b - 1, used, sent, next, lost) /\ queue[at] \in Frame
      BY <1>3, <1>4, <2>1, <2>2, FrameTypes
    <3>2. PICK c \in Int, c2 \in Int :
            c = after + b - 1 /\ c2 = after2 + b - 1 /\ c + lost <= c2 + lost2
      <4>1. /\ after + b - 1 \in Int /\ after2 + b - 1 \in Int
            /\ after + b - 1 + lost <= after2 + b - 1 + lost2
        BY <1>4
      <4> QED
        BY <4>1
    <3>3. Outstanding(queue[at], c2, used, sent, next, lost2)
      BY <3>1, <3>2, StillOutstanding
    <3> QED
      BY <1>2, <3>2, <3>3
  <2>3. rest[j].type = "DELAY_RESP" => rest[i].of < rest[j].of
    BY <1>2, <1>3, <2>1
  <2> QED
    BY <2>2, <2>3
<1> QED
  BY <1>2, <1>3, <1>4, <1>5, <1>6

\* Only the order and the number of the requests behind the answers matter.
LEMMA AnswersBehind ==
  ASSUME NEW queue \in Seq(Frame), NEW behind \in Seq(Frame), NEW behind2 \in Seq(Frame),
         NEW used \in Int, NEW sent \in Int, NEW next, NEW lost \in Int, NEW lost2 \in Int,
         AnswersInOrder(queue, behind, used, sent, next, lost),
         Len(behind) + lost <= Len(behind2) + lost2,
         \A j \in 1 .. Len(behind2) : \E i \in 1 .. Len(behind) : behind2[j].of = behind[i].of
  PROVE  AnswersInOrder(queue, behind2, used, sent, next, lost2)
<1>1. PICK b \in Int, b2 \in Int :
        b = Len(behind) /\ b2 = Len(behind2) /\ b + lost <= b2 + lost2
  <2>1. Len(behind) \in Int /\ Len(behind2) \in Int
    BY LenProperties
  <2> QED
    BY <2>1
<1>2. ASSUME NEW i \in 1 .. Len(queue), NEW less \in {0, 1},
             Outstanding(queue[i], Len(queue) - i + b - less, used, sent, next, lost)
      PROVE  Outstanding(queue[i], Len(queue) - i + b2 - less, used, sent, next, lost2)
  <2>1. PICK c \in Int, c2 \in Int :
          c = Len(queue) - i + b - less /\ c2 = Len(queue) - i + b2 - less /\ c + lost <= c2 + lost2
    <3>1. Len(queue) \in Int
      BY LenProperties
    <3>2. Len(queue) - i \in Int
      BY <3>1
    <3>3. PICK d \in Int : d = Len(queue) - i
      BY <3>2
    <3>4. d + b - less \in Int /\ d + b2 - less \in Int
          /\ d + b - less + lost <= d + b2 - less + lost2
      BY <1>1
    <3> QED
      BY <3>3, <3>4
  <2>2. queue[i] \in Frame /\ Outstanding(queue[i], c, used, sent, next, lost)
    BY <1>2, <2>1, FrameTypes
  <2>3. Outstanding(queue[i], c2, used, sent, next, lost2)
    BY <2>1, <2>2, StillOutstanding
  <2> QED
    BY <2>1, <2>3
<1>3. ASSUME NEW i \in 1 .. Len(queue), queue[i].type = "DELAY_RESP"
      PROVE  /\ Outstanding(queue[i], Len(queue) - i + b2, used, sent, next, lost2)
             /\ \A j \in i + 1 .. Len(queue) :
                  /\ queue[j].type = "SYNC" =>
                       Outstanding(queue[i], Len(queue) - i + b2 - 1, used, sent, next, lost2)
                  /\ queue[j].type = "DELAY_RESP" => queue[i].of < queue[j].of
             /\ \A j \in 1 .. Len(behind2) : queue[i].of < behind2[j].of
  <2>1. /\ Outstanding(queue[i], Len(queue) - i + b, used, sent, next, lost)
        /\ \A j \in i + 1 .. Len(queue) :
             /\ queue[j].type = "SYNC" =>
                  Outstanding(queue[i], Len(queue) - i + b - 1, used, sent, next, lost)
             /\ queue[j].type = "DELAY_RESP" => queue[i].of < queue[j].of
        /\ \A j \in 1 .. Len(behind) : queue[i].of < behind[j].of
    BY <1>1, <1>3 DEF AnswersInOrder
  <2>2. Len(queue) - i + b - 0 = Len(queue) - i + b /\ Len(queue) - i + b2 - 0 = Len(queue) - i + b2
    BY <1>1, LenProperties
  <2>3. Outstanding(queue[i], Len(queue) - i + b2, used, sent, next, lost2)
    BY <1>2, <2>1, <2>2
  <2>4. ASSUME NEW j \in i + 1 .. Len(queue), queue[j].type = "SYNC"
        PROVE  Outstanding(queue[i], Len(queue) - i + b2 - 1, used, sent, next, lost2)
    BY <1>2, <2>1, <2>4
  <2> QED
    BY <2>1, <2>3, <2>4
<1> QED
  BY <1>1, <1>3 DEF AnswersInOrder

\* A frame appended that is no answer.
LEMMA AnswersAppend ==
  ASSUME NEW queue \in Seq(Frame), NEW behind \in Seq(Frame), NEW f \in Frame,
         NEW used \in Int, NEW sent \in Int, NEW next, NEW lost \in Int,
         AnswersInOrder(queue, behind, used, sent, next, lost), f.type # "DELAY_RESP"
  PROVE  AnswersInOrder(Append(queue, f), behind, used, sent, next, lost)
<1> DEFINE more == Append(queue, f)
<1>1. /\ Len(more) = Len(queue) + 1 /\ Len(queue) \in Nat /\ more[Len(queue) + 1] = f
      /\ \A j \in 1 .. Len(queue) : more[j] = queue[j]
  BY AppendFacts
<1> HIDE DEF more
<1>2. SUFFICES
        ASSUME NEW i \in 1 .. Len(more), more[i].type = "DELAY_RESP"
        PROVE  /\ Outstanding(more[i], Len(more) - i + Len(behind), used, sent, next, lost)
               /\ \A j \in i + 1 .. Len(more) :
                    /\ more[j].type = "SYNC" =>
                         Outstanding(more[i], Len(more) - i + Len(behind) - 1, used, sent, next, lost)
                    /\ more[j].type = "DELAY_RESP" => more[i].of < more[j].of
               /\ \A j \in 1 .. Len(behind) : more[i].of < behind[j].of
  BY DEF AnswersInOrder, more
<1>3. i \in 1 .. Len(queue) /\ more[i] = queue[i]
  BY <1>1, <1>2
<1>4. Len(queue) - i + Len(behind) \in Int
  <2>1. Len(behind) \in Int
    BY LenProperties
  <2> QED
    BY <1>1, <1>3, <2>1
<1>5. PICK after \in Int : after = Len(queue) - i + Len(behind)
  BY <1>4
<1>6. Len(more) - i + Len(behind) = after + 1 /\ Len(more) - i + Len(behind) - 1 = after
  <2>1. Len(behind) \in Int
    BY LenProperties
  <2> QED
    BY <1>1, <1>3, <1>5, <2>1
<1>7. /\ Outstanding(queue[i], after, used, sent, next, lost) /\ queue[i] \in Frame
      /\ \A j \in i + 1 .. Len(queue) : queue[j].type = "DELAY_RESP" => queue[i].of < queue[j].of
      /\ \A j \in 1 .. Len(behind) : queue[i].of < behind[j].of
  BY <1>2, <1>3, <1>5, FrameTypes DEF AnswersInOrder
<1>8. Outstanding(queue[i], after + 1, used, sent, next, lost)
  <2>1. PICK after2 \in Int : after2 = after + 1 /\ after + lost <= after2 + lost
    OBVIOUS
  <2> QED
    BY <1>7, <2>1, StillOutstanding
<1>9. ASSUME NEW j \in i + 1 .. Len(more), more[j].type = "DELAY_RESP"
      PROVE  more[i].of < more[j].of
  <2>1. j \in i + 1 .. Len(queue) /\ more[j] = queue[j]
    BY <1>1, <1>3, <1>9
  <2> QED
    BY <1>3, <1>7, <1>9, <2>1
<1> QED
  BY <1>3, <1>6, <1>7, <1>8, <1>9

\* The next request sent, behind the answers.
LEMMA AnswersNext ==
  ASSUME NEW queue \in Seq(Frame), NEW behind \in Seq(Frame), NEW f \in Frame,
         NEW used \in Int, NEW sent \in Int, NEW next \in UInteger16, NEW lost \in Int,
         AnswersInOrder(queue, behind, used, sent, next, lost), f.of = sent + 1
  PROVE  AnswersInOrder(queue, Append(behind, f), used, sent + 1, (next + 1) % SeqMod, lost)
<1> DEFINE more == Append(behind, f)
           next2 == (next + 1) % SeqMod
<1>1. /\ Len(more) = Len(behind) + 1 /\ Len(behind) \in Nat /\ more[Len(behind) + 1] = f
      /\ \A j \in 1 .. Len(behind) : more[j] = behind[j]
  BY AppendFacts
<1> HIDE DEF more
<1>2. ASSUME NEW i \in 1 .. Len(queue), NEW after \in Int,
             Outstanding(queue[i], after, used, sent, next, lost)
      PROVE  Outstanding(queue[i], after + 1, used, sent + 1, next2, lost) /\ queue[i].of < f.of
  <2>1. queue[i] \in Frame /\ queue[i].of \in Nat
    BY FrameTypes
  <2>2. Outstanding(queue[i], after + 1, used, sent + 1, next2, lost)
    BY <1>2, <2>1, OutstandingAfterNext
  <2>3. queue[i].of <= sent
    BY <1>2 DEF Outstanding
  <2> QED
    BY <2>1, <2>2, <2>3
<1>3. ASSUME NEW i \in 1 .. Len(queue), queue[i].type = "DELAY_RESP"
      PROVE  /\ Outstanding(queue[i], Len(queue) - i + Len(more), used, sent + 1, next2, lost)
             /\ \A j \in i + 1 .. Len(queue) :
                  /\ queue[j].type = "SYNC" =>
                       Outstanding(queue[i], Len(queue) - i + Len(more) - 1, used, sent + 1, next2, lost)
                  /\ queue[j].type = "DELAY_RESP" => queue[i].of < queue[j].of
             /\ \A j \in 1 .. Len(more) : queue[i].of < more[j].of
  <2>1. Len(queue) - i + Len(behind) \in Int
    BY <1>1, LenProperties
  <2>2. PICK after \in Int : after = Len(queue) - i + Len(behind)
    BY <2>1
  <2>3. Len(queue) - i + Len(more) = after + 1 /\ Len(queue) - i + Len(more) - 1 = after - 1 + 1
    BY <1>1, <2>2, LenProperties
  <2>4. /\ Outstanding(queue[i], after, used, sent, next, lost)
        /\ \A j \in i + 1 .. Len(queue) :
             /\ queue[j].type = "SYNC" => Outstanding(queue[i], after - 1, used, sent, next, lost)
             /\ queue[j].type = "DELAY_RESP" => queue[i].of < queue[j].of
        /\ \A j \in 1 .. Len(behind) : queue[i].of < behind[j].of
    BY <1>3, <2>2 DEF AnswersInOrder
  <2>5. Outstanding(queue[i], after + 1, used, sent + 1, next2, lost) /\ queue[i].of < f.of
    BY <1>2, <2>4
  <2>6. ASSUME NEW j \in i + 1 .. Len(queue), queue[j].type = "SYNC"
        PROVE  Outstanding(queue[i], after - 1 + 1, used, sent + 1, next2, lost)
    <3>1. PICK less \in Int : less = after - 1
      OBVIOUS
    <3>2. Outstanding(queue[i], less, used, sent, next, lost)
      BY <2>4, <2>6, <3>1
    <3> QED
      BY <1>2, <3>1, <3>2
  <2>7. ASSUME NEW j \in 1 .. Len(more)
        PROVE  queue[i].of < more[j].of
    <3>1. CASE j = Len(behind) + 1
      BY <1>1, <2>5, <3>1
    <3>2. CASE j # Len(behind) + 1
      <4>1. j \in 1 .. Len(behind)
        BY <1>1, <3>2
      <4> QED
        BY <1>1, <2>4, <4>1
    <3> QED
      BY <3>1, <3>2
  <2> QED
    BY <2>3, <2>4, <2>5, <2>6, <2>7
<1> QED
  BY <1>3 DEF AnswersInOrder, more

\* The master answers the first request behind.
LEMMA AnswersPassed ==
  ASSUME NEW queue \in Seq(Frame), NEW behind \in Seq(Frame), behind # <<>>, NEW f \in Frame,
         NEW used \in Int, NEW sent \in Int, NEW next, NEW lost \in Int,
         AnswersInOrder(queue, behind, used, sent, next, lost),
         RequestsInOrder(behind, used, sent, next, lost),
         f.type = "DELAY_RESP", f.of = behind[1].of, f.sequenceId = behind[1].sequenceId
  PROVE  AnswersInOrder(Append(queue, f), Tail(behind), used, sent, next, lost)
<1> DEFINE more == Append(queue, f)
           rest == Tail(behind)
<1>1. /\ Len(more) = Len(queue) + 1 /\ Len(queue) \in Nat /\ more[Len(queue) + 1] = f
      /\ \A j \in 1 .. Len(queue) : more[j] = queue[j]
  BY AppendFacts
<1>2. /\ 1 \in 1 .. Len(behind) /\ Len(behind) \in Nat /\ Len(rest) = Len(behind) - 1
      /\ \A j \in 1 .. Len(rest) : rest[j] = behind[j + 1]
  <2>1. 1 \in 1 .. Len(behind) /\ rest = Without(behind, 1)
    BY TailFacts
  <2>2. /\ Len(Without(behind, 1)) = Len(behind) - 1 /\ Len(behind) \in Nat
        /\ \A j \in 1 .. Len(behind) - 1 : Without(behind, 1)[j] = behind[j + 1]
    <3>1. Len(behind) \in Nat
      BY LenProperties
    <3>2. /\ Len(Without(behind, 1)) = Len(behind) - 1
          /\ \A j \in 1 .. Len(behind) - 1 :
               Without(behind, 1)[j] = behind[IF j < 1 THEN j ELSE j + 1]
      BY <2>1, WithoutFacts
    <3> QED
      BY <3>1, <3>2
  <2> QED
    BY <2>1, <2>2
<1> HIDE DEF more, rest
<1>3. /\ Outstanding(behind[1], Len(behind) - 1, used, sent, next, lost)
      /\ \A j \in 2 .. Len(behind) : behind[1].of < behind[j].of
  BY <1>2 DEF RequestsInOrder
<1>4. Outstanding(f, Len(behind) - 1, used, sent, next, lost)
  BY <1>3 DEF Outstanding
<1>5. \A j \in 1 .. Len(rest) : j + 1 \in 2 .. Len(behind) /\ j + 1 \in 1 .. Len(behind)
  BY <1>2
<1>6. SUFFICES
        ASSUME NEW i \in 1 .. Len(more), more[i].type = "DELAY_RESP"
        PROVE  /\ Outstanding(more[i], Len(more) - i + Len(rest), used, sent, next, lost)
               /\ \A j \in i + 1 .. Len(more) :
                    /\ more[j].type = "SYNC" =>
                         Outstanding(more[i], Len(more) - i + Len(rest) - 1, used, sent, next, lost)
                    /\ more[j].type = "DELAY_RESP" => more[i].of < more[j].of
               /\ \A j \in 1 .. Len(rest) : more[i].of < rest[j].of
  BY DEF AnswersInOrder, more, rest
<1>7. CASE i = Len(queue) + 1
  <2>1. more[i] = f /\ Len(more) - i + Len(rest) = Len(behind) - 1 /\ \A j \in i + 1 .. Len(more) : FALSE
    BY <1>1, <1>2, <1>7
  <2>2. \A j \in 1 .. Len(rest) : f.of < rest[j].of
    BY <1>2, <1>3, <1>5
  <2> QED
    BY <1>4, <2>1, <2>2
<1>8. CASE i # Len(queue) + 1
  <2>1. i \in 1 .. Len(queue) /\ more[i] = queue[i]
    BY <1>1, <1>8
  <2>2. PICK n \in Int : n = Len(queue) - i + Len(behind)
    <3>1. Len(queue) - i + Len(behind) \in Int
      BY <1>1, <1>2, <2>1
    <3> QED
      BY <3>1
  <2>3. /\ Outstanding(queue[i], n, used, sent, next, lost)
        /\ \A j \in i + 1 .. Len(queue) :
             /\ queue[j].type = "SYNC" => Outstanding(queue[i], n - 1, used, sent, next, lost)
             /\ queue[j].type = "DELAY_RESP" => queue[i].of < queue[j].of
        /\ \A j \in 1 .. Len(behind) : queue[i].of < behind[j].of
    BY <1>6, <2>1, <2>2 DEF AnswersInOrder
  <2>4. ASSUME NEW j \in i + 1 .. Len(more)
        PROVE  /\ more[j].type = "SYNC" => Outstanding(more[i], n - 1, used, sent, next, lost)
               /\ more[j].type = "DELAY_RESP" => more[i].of < more[j].of
    <3>1. CASE j = Len(queue) + 1
      <4>1. more[j] = f /\ f.type = "DELAY_RESP" /\ f.of = behind[1].of
        BY <1>1, <3>1
      <4>2. 1 \in 1 .. Len(behind) /\ queue[i].of < behind[1].of
        BY <1>2, <2>3
      <4> QED
        BY <2>1, <4>1, <4>2
    <3>2. CASE j # Len(queue) + 1
      <4>1. j \in i + 1 .. Len(queue) /\ j \in 1 .. Len(queue)
        BY <1>1, <2>1, <3>2
      <4>2. more[j] = queue[j]
        BY <1>1, <4>1
      <4> QED
        BY <2>1, <2>3, <4>1, <4>2
    <3> QED
      BY <3>1, <3>2
  <2>5. \A j \in 1 .. Len(rest) : queue[i].of < rest[j].of
    BY <1>2, <1>5, <2>3
  <2>6. n = Len(more) - i + Len(rest)
    BY <1>1, <1>2, <2>1, <2>2
  <2>7. Outstanding(more[i], n, used, sent, next, lost)
    BY <2>1, <2>3
  <2>8. \A j \in 1 .. Len(rest) : more[i].of < rest[j].of
    BY <2>1, <2>5
  <2>9. Outstanding(more[i], Len(more) - i + Len(rest), used, sent, next, lost)
    BY <2>6, <2>7
  <2>10. ASSUME NEW j \in i + 1 .. Len(more), more[j].type = "SYNC"
         PROVE  Outstanding(more[i], Len(more) - i + Len(rest) - 1, used, sent, next, lost)
    <3>1. Outstanding(more[i], n - 1, used, sent, next, lost)
      BY <2>4, <2>10
    <3> QED
      BY <2>6, <3>1
  <2> QED
    BY <2>4, <2>8, <2>9, <2>10
<1> QED
  BY <1>7, <1>8

\* A request that is older than all that are answered is used.
LEMMA AnswersUsed ==
  ASSUME NEW queue \in Seq(Frame), NEW behind \in Seq(Frame),
         NEW used \in Int, NEW sent \in Int, NEW next, NEW lost \in Int,
         AnswersInOrder(queue, behind, used, sent, next, lost), NEW used2 \in Int,
         \A i \in 1 .. Len(queue) : queue[i].type = "DELAY_RESP" => used2 < queue[i].of
  PROVE  AnswersInOrder(queue, behind, used2, sent, next, lost)
<1>1. ASSUME NEW i \in 1 .. Len(queue), queue[i].type = "DELAY_RESP", NEW after,
             Outstanding(queue[i], after, used, sent, next, lost)
      PROVE  Outstanding(queue[i], after, used2, sent, next, lost)
  BY <1>1 DEF Outstanding
<1> QED
  BY <1>1 DEF AnswersInOrder

\* Frames appended with their numbers.
LEMMA NumbersAppend ==
  ASSUME NEW queue \in Seq(Frame), NEW f \in Frame, NumbersTell(queue),
         f.type \in {"SYNC", "FOLLOW_UP"} => f.sequenceId = (f.of - 1) % SeqMod
  PROVE  NumbersTell(Append(queue, f))
<1> DEFINE more == Append(queue, f)
<1>1. /\ Len(more) = Len(queue) + 1 /\ Len(queue) \in Nat /\ more[Len(queue) + 1] = f
      /\ \A j \in 1 .. Len(queue) : more[j] = queue[j]
  BY AppendFacts
<1> HIDE DEF more
<1>2. \A i \in 1 .. Len(more) : (i \in 1 .. Len(queue) /\ more[i] = queue[i]) \/ more[i] = f
  BY <1>1
<1> QED
  BY <1>2 DEF NumbersTell, more

\* A frame taken, or lost.
LEMMA NumbersWithout ==
  ASSUME NEW queue \in Seq(Frame), NEW k \in 1 .. Len(queue), NumbersTell(queue)
  PROVE  NumbersTell(Without(queue, k))
<1>1. \A i \in 1 .. Len(Without(queue, k)) :
        \E at \in 1 .. Len(queue) : Without(queue, k)[i] = queue[at]
  BY WithoutPlaces
<1> QED
  BY <1>1 DEF NumbersTell

\* A frame appended that is no Follow_Up, or that of the Sync before it.
LEMMA PairedAppend ==
  ASSUME NEW queue \in Seq(Frame), NEW f \in Frame, Paired(queue),
         f.type = "FOLLOW_UP" =>
           queue # <<>> /\ queue[Len(queue)].type = "SYNC" /\ queue[Len(queue)].of = f.of
  PROVE  Paired(Append(queue, f))
<1> DEFINE more == Append(queue, f)
<1>1. /\ Len(more) = Len(queue) + 1 /\ Len(queue) \in Nat /\ more[Len(queue) + 1] = f
      /\ \A j \in 1 .. Len(queue) : more[j] = queue[j]
  BY AppendFacts
<1> HIDE DEF more
<1>2. ASSUME NEW i \in 2 .. Len(more), more[i].type = "FOLLOW_UP"
      PROVE  more[i - 1].type = "SYNC" /\ more[i - 1].of = more[i].of
  <2>1. CASE i = Len(queue) + 1
    <3>1. more[i] = f /\ i - 1 = Len(queue) /\ Len(queue) \in 1 .. Len(queue)
      BY <1>1, <2>1
    <3> QED
      BY <1>1, <1>2, <3>1
  <2>2. CASE i # Len(queue) + 1
    <3>1. i \in 2 .. Len(queue) /\ i \in 1 .. Len(queue) /\ i - 1 \in 1 .. Len(queue)
      BY <1>1, <2>2
    <3>2. more[i] = queue[i] /\ more[i - 1] = queue[i - 1]
      BY <1>1, <3>1
    <3> QED
      BY <1>2, <3>1, <3>2 DEF Paired
  <2> QED
    BY <2>1, <2>2
<1> QED
  BY <1>2 DEF Paired, more

\* The first frame taken.
LEMMA PairedTail ==
  ASSUME NEW queue \in Seq(Frame), queue # <<>>, Paired(queue)
  PROVE  /\ Paired(Tail(queue))
         /\ Tail(queue) # <<>> /\ Tail(queue)[1].type = "FOLLOW_UP"
              => queue[1].type = "SYNC" /\ queue[1].of = Tail(queue)[1].of
<1> DEFINE rest == Tail(queue)
<1>1. /\ rest \in Seq(Frame) /\ Len(rest) = Len(queue) - 1 /\ Len(queue) \in Nat
      /\ \A j \in 1 .. Len(queue) - 1 : rest[j] = queue[j + 1]
  BY TailFacts
<1> HIDE DEF rest
<1>2. ASSUME NEW i \in 1 .. Len(rest), rest[i].type = "FOLLOW_UP"
      PROVE  queue[i].type = "SYNC" /\ queue[i].of = rest[i].of
  <2>1. i + 1 \in 2 .. Len(queue) /\ i + 1 - 1 = i /\ rest[i] = queue[i + 1]
    BY <1>1
  <2> QED
    BY <1>2, <2>1 DEF Paired
<1>3. Paired(rest)
  <2>1. ASSUME NEW i \in 2 .. Len(rest), rest[i].type = "FOLLOW_UP"
        PROVE  rest[i - 1].type = "SYNC" /\ rest[i - 1].of = rest[i].of
    <3>1. i \in 1 .. Len(rest) /\ i - 1 \in 1 .. Len(queue) - 1 /\ i - 1 + 1 = i
      BY <1>1
    <3>2. rest[i - 1] = queue[i]
      BY <1>1, <3>1
    <3> QED
      BY <1>2, <2>1, <3>1, <3>2
  <2> QED
    BY <2>1 DEF Paired
<1>4. rest # <<>> => 1 \in 1 .. Len(rest)
  BY <1>1, EmptySeq
<1> QED
  BY <1>2, <1>3, <1>4 DEF rest

-----------------------------------------------------------------------------
(* The steps.                                                              *)

\* The types of the fields.
LEMMA FieldTypes ==
  ASSUME TypeOK
  PROVE  /\ slave.sync_receive_time \in Stamp /\ slave.sync_receive_time.of \in Nat
         /\ slave.delayReq_tx_ts \in Stamp /\ slave.delayReq_tx_ts.of \in Nat
         /\ slave.t1 \in Stamp /\ slave.t1.of \in Nat /\ slave.t2 \in Stamp /\ slave.t2.of \in Nat
         /\ slave.heard \in Nat
         /\ slave.sentDelayReqSequenceId \in UInteger16 /\ slave.recvSyncSequenceId \in UInteger16
         /\ fed.t1 \in Nat /\ fed.t2 \in Nat /\ fed.t3 \in Nat /\ fed.t4 \in Nat /\ fedHeard \in Nat
         /\ syncs \in Nat /\ requests \in Nat /\ losses \in Nat /\ restarts \in Nat
         /\ losses <= MaxLosses /\ Len(toSlave) \in Nat /\ Len(toMaster) \in Nat
         /\ MaxRequests \in Nat /\ Room \in Nat /\ MaxSyncs \in Nat
<1>1. Len(toSlave) \in Nat /\ Len(toMaster) \in Nat
  BY LenProperties DEF TypeOK
<1>2. \A n \in Number : n \in Nat
  BY BoundAssumption DEF Number
<1>3. /\ slave.sync_receive_time \in Stamp /\ slave.delayReq_tx_ts \in Stamp
      /\ slave.t1 \in Stamp /\ slave.t2 \in Stamp /\ slave.heard \in Number
      /\ slave.sentDelayReqSequenceId \in UInteger16 /\ slave.recvSyncSequenceId \in UInteger16
  BY DEF TypeOK, Slave
<1>4. \A s \in Stamp : s.of \in Nat
  BY <1>2 DEF Stamp
<1>5. fed.t1 \in Nat /\ fed.t2 \in Nat /\ fed.t3 \in Nat /\ fed.t4 \in Nat /\ fedHeard \in Nat
      /\ requests \in Nat
  BY <1>2 DEF TypeOK
<1>6. syncs \in Nat /\ losses \in Nat /\ restarts \in Nat /\ losses <= MaxLosses
  BY BoundAssumption DEF TypeOK
<1> QED
  BY <1>1, <1>2, <1>3, <1>4, <1>5, <1>6, BoundAssumption

\* What the parts of the invariant about queues are about: integers.
LEMMA CounterTypes ==
  ASSUME TypeOK
  PROVE  /\ slave.sync_receive_time.of \in Int /\ fed.t2 \in Int /\ fed.t4 \in Int
         /\ requests \in Int /\ syncs \in Int /\ losses \in Int /\ losses >= losses
<1>1. /\ slave.sync_receive_time.of \in Nat /\ fed.t2 \in Nat /\ fed.t4 \in Nat
      /\ requests \in Nat /\ syncs \in Nat /\ losses \in Nat
  BY FieldTypes
<1>2. \A n \in Nat : n \in Int /\ n >= n
  OBVIOUS
<1> QED
  BY <1>1, <1>2

\* The invariant holds before anything has been sent.
LEMMA InitInvariant == Init => IInv
<1> SUFFICES ASSUME Init PROVE IInv
  OBVIOUS
<1>1. toSlave = <<>> /\ toMaster = <<>> /\ Len(toSlave) = 0 /\ Len(toMaster) = 0
  BY EmptySeq DEF Init
<1>2. TypeOK
  <2>1. 0 \in Number /\ 0 \in UInteger16
    BY BoundAssumption, SeqAssumption DEF Number, UInteger16
  <2>2. slave \in Slave
    BY <2>1 DEF Init, FreshSlave, NoStamp, Slave, Stamp
  <2>3. toSlave \in Seq(Frame) /\ toMaster \in Seq(Frame)
    BY <1>1, EmptySeq
  <2>4. fed \in [t1 : Number, t2 : Number, t3 : Number, t4 : Number] /\ fedHeard \in Number
        /\ requests \in Number /\ sentSyncSequenceId \in UInteger16
    BY <2>1 DEF Init
  <2>5. /\ syncs \in 0 .. MaxSyncs /\ losses \in 0 .. MaxLosses /\ restarts \in 0 .. MaxRestarts
        /\ slaveSince \in 0 .. MaxSyncs /\ leaves \in 0 .. MaxLeaves
        /\ failures \in 0 .. MaxFailures
    BY BoundAssumption DEF Init
  <2>6. overlap \in BOOLEAN
    BY DEF Init
  <2> QED
    BY <2>2, <2>3, <2>4, <2>5, <2>6 DEF TypeOK
<1>3. SyncsInOrder(toSlave, slave.sync_receive_time.of, fed.t2, requests, syncs, losses)
  BY <1>1 DEF SyncsInOrder
<1>4. RequestsInOrder(toMaster, fed.t4, requests, slave.sentDelayReqSequenceId, losses)
  BY <1>1 DEF RequestsInOrder
<1>5. AnswersInOrder(toSlave, toMaster, fed.t4, requests, slave.sentDelayReqSequenceId, losses)
  BY <1>1 DEF AnswersInOrder
<1>6. SyncHeard /\ Departure /\ DelayAfterSync
  BY BoundAssumption DEF Init, FreshSlave, NoStamp, SyncHeard, Departure, DelayAfterSync
<1>7. FollowUps
  <2>1. 0 % SeqMod = 0
    <3>1. 0 \in 0 .. SeqMod - 1
      BY SeqAssumption
    <3> QED
      BY <3>1, SmallRemainder, SeqAssumption
  <2>2. Numbered
    BY <1>1, <2>1 DEF Numbered, NumbersTell, Init, FreshSlave
  <2>3. Paired(toSlave) /\ FirstPaired
    BY <1>1 DEF Paired, FirstPaired
  <2> QED
    BY <2>2, <2>3 DEF FollowUps, Init
<1>8. InRoom
  BY <1>1, BoundAssumption DEF InRoom, InFlight
<1> QED
  BY <1>2, <1>3, <1>4, <1>5, <1>6, <1>7, <1>8 DEF IInv

\* What holds of the rest of the queue when the slave takes the first frame, whatever
\* it does with it, as long as it sends nothing and the servo is not updated.
LEMMA Taken ==
  ASSUME IInv, toSlave # <<>>, toSlave' = Tail(toSlave),
         UNCHANGED <<sentSyncSequenceId, toMaster, fed, fedHeard, syncs, requests,
                     losses, restarts>>,
         slave'.sentDelayReqSequenceId = slave.sentDelayReqSequenceId,
         slave'.delayReq_tx_ts = slave.delayReq_tx_ts
  PROVE  /\ toSlave' \in Seq(Frame) /\ DelayAfterSync' /\ Departure' /\ InRoom'
         /\ SyncsInOrder(toSlave', slave.sync_receive_time.of, fed.t2, requests, syncs, losses)
         /\ RequestsInOrder(toMaster, fed.t4, requests, slave.sentDelayReqSequenceId, losses)'
         /\ AnswersInOrder(toSlave, toMaster, fed.t4, requests, slave.sentDelayReqSequenceId, losses)'
         /\ NumbersTell(toSlave) => NumbersTell(toSlave')
<1>1. TypeOK /\ toSlave \in Seq(Frame) /\ toMaster \in Seq(Frame)
  BY DEF IInv, TypeOK
<1>2. /\ 1 \in 1 .. Len(toSlave) /\ toSlave' = Without(toSlave, 1)
      /\ toSlave' \in Seq(Frame) /\ Len(toSlave') = Len(toSlave) - 1
  BY <1>1, TailFacts
<1>3. DelayAfterSync' /\ Departure'
  BY DEF IInv, DelayAfterSync, Departure
<1>4. SyncsInOrder(toSlave', slave.sync_receive_time.of, fed.t2, requests, syncs, losses)
  <2>1. /\ slave.sync_receive_time.of \in Int /\ fed.t2 \in Int /\ requests \in Int
        /\ syncs \in Int /\ losses \in Int /\ losses >= losses
    BY <1>1, CounterTypes
  <2>2. SyncsInOrder(toSlave, slave.sync_receive_time.of, fed.t2, requests, syncs, losses)
    BY DEF IInv
  <2>3. SyncsInOrder(Without(toSlave, 1), slave.sync_receive_time.of, fed.t2, requests, syncs, losses)
    BY <1>1, <1>2, <2>1, <2>2, SyncsWithout
  <2> QED
    BY <1>2, <2>3
<1>5. RequestsInOrder(toMaster, fed.t4, requests, slave.sentDelayReqSequenceId, losses)'
  BY DEF IInv
<1>6. AnswersInOrder(toSlave, toMaster, fed.t4, requests, slave.sentDelayReqSequenceId, losses)'
  <2>1. AnswersInOrder(Without(toSlave, 1), toMaster, fed.t4, requests,
                       slave.sentDelayReqSequenceId, losses)
    BY <1>1, <1>2, FieldTypes, AnswersWithout DEF IInv
  <2> QED
    BY <1>2, <2>1
<1>7. NumbersTell(toSlave) => NumbersTell(toSlave')
  BY <1>1, <1>2, NumbersWithout
<1>8. InRoom'
  <2>1. InFlight <= Room + 1
    <3>1. InRoom /\ InFlight \in Int /\ Room \in Int
      BY <1>1, FieldTypes DEF IInv, InFlight
    <3> QED
      BY <3>1 DEF InRoom
  <2> QED
    BY <1>1, <1>2, <2>1, FieldTypes DEF InRoom, InFlight
<1> QED
  BY <1>2, <1>3, <1>4, <1>5, <1>6, <1>7, <1>8

\* Failures are counted up to their bound.
LEMMA HwAnswersType ==
  ASSUME TypeOK, NEW ok \in BOOLEAN, HwAnswers(ok)
  PROVE  failures' \in 0 .. MaxFailures
BY BoundAssumption DEF TypeOK, HwAnswers

\* The slave hears a Sync.
LEMMA HandleSyncStep ==
  ASSUME IInv, NEW stamped \in BOOLEAN, HandleSync(stamped)
  PROVE  IInv'
<1>1. TypeOK /\ SyncHeard /\ toSlave \in Seq(Frame) /\ toMaster \in Seq(Frame)
  BY DEF IInv, TypeOK
<1>2. /\ toSlave # <<>> /\ toSlave' = Tail(toSlave) /\ toSlave[1].type = "SYNC"
      /\ 1 \in 1 .. Len(toSlave) /\ Head(toSlave) = toSlave[1] /\ toSlave[1] \in Frame
      /\ toSlave[1].of \in Number /\ toSlave[1].of \in Nat /\ toSlave[1].sequenceId \in UInteger16
  BY <1>1, TailFacts, FrameTypes DEF HandleSync, Takes
<1>3. slave' = [slave EXCEPT
        !.sync_receive_time = [of |-> toSlave[1].of, correct |-> stamped],
        !.waitingForFollow = TRUE,
        !.recvSyncSequenceId = toSlave[1].sequenceId]
  BY <1>2 DEF HandleSync
<1>4. UNCHANGED <<sentSyncSequenceId, toMaster, fed, fedHeard, syncs, requests, marks, faults>>
  BY DEF HandleSync
<1>5. UNCHANGED <<losses, restarts, leaves, slaveSince, overlap>>
  BY <1>4 DEF marks, faults
<1>6. slave \in Slave /\ slave' \in Slave
  <2>1. [of |-> toSlave[1].of, correct |-> stamped] \in Stamp
    BY <1>2 DEF Stamp
  <2> QED
    BY <1>1, <1>2, <1>3, <2>1 DEF TypeOK, Slave
<1>7. /\ slave'.sync_receive_time.of = toSlave[1].of /\ slave'.waitingForFollow = TRUE
      /\ slave'.recvSyncSequenceId = toSlave[1].sequenceId
      /\ slave'.sentDelayReqSequenceId = slave.sentDelayReqSequenceId
      /\ slave'.delayReq_tx_ts = slave.delayReq_tx_ts /\ slave'.portState = slave.portState
      /\ slave'.got_sync = slave.got_sync /\ slave'.t1 = slave.t1 /\ slave'.t2 = slave.t2
      /\ slave'.heard = slave.heard
  BY <1>3, <1>6 DEF Slave
<1>8. /\ toSlave' \in Seq(Frame) /\ DelayAfterSync' /\ Departure' /\ InRoom'
      /\ RequestsInOrder(toMaster, fed.t4, requests, slave.sentDelayReqSequenceId, losses)'
      /\ AnswersInOrder(toSlave, toMaster, fed.t4, requests, slave.sentDelayReqSequenceId, losses)'
      /\ NumbersTell(toSlave) => NumbersTell(toSlave')
  BY <1>2, <1>4, <1>5, <1>7, Taken
<1>9. TypeOK'
  <2>1. failures' \in 0 .. MaxFailures
    BY <1>1, HwAnswersType DEF HandleSync
  <2> QED
    BY <1>1, <1>4, <1>5, <1>6, <1>8, <2>1 DEF TypeOK
<1>10. Expected(toSlave[1], Len(toSlave) - 1, slave.sync_receive_time.of, fed.t2, requests,
                syncs, losses)
  BY <1>2 DEF IInv, SyncsInOrder
<1>11. SyncsInOrder(toSlave, slave.sync_receive_time.of, fed.t2, requests, syncs, losses)'
  <2>1. SyncsInOrder(Tail(toSlave), toSlave[1].of, fed.t2, requests, syncs, losses)
    <3>1. /\ slave.sync_receive_time.of \in Int /\ fed.t2 \in Int /\ requests \in Int
          /\ syncs \in Int /\ losses \in Int
      BY <1>1, CounterTypes
    <3>2. SyncsInOrder(toSlave, slave.sync_receive_time.of, fed.t2, requests, syncs, losses)
      BY DEF IInv
    <3> QED
      BY <1>1, <1>2, <3>1, <3>2, SyncsHeard
  <2> QED
    BY <1>2, <1>4, <1>5, <1>7, <2>1
<1>12. SyncHeard'
  <2>1. PICK of \in Nat, heard \in Nat, t2 \in Nat :
          of = toSlave[1].of /\ heard = slave.sync_receive_time.of /\ t2 = slave.t2.of
    BY <1>1, <1>2, FieldTypes
  <2>2. /\ heard < of /\ fed.t2 < of /\ of <= syncs /\ requests < MaxRequests + of
        /\ syncs - of < SeqMod
    <3>1. /\ heard < of /\ fed.t2 < of /\ of <= syncs /\ requests < MaxRequests + of
          /\ syncs - of < Room + losses
      BY <1>10, <2>1 DEF Expected
    <3>2. Room + losses <= SeqMod /\ Room \in Nat /\ losses \in Nat /\ SeqMod \in Nat
      BY <1>1, FieldTypes, InFlightAssumption, BoundAssumption, SeqAssumption
    <3> QED
      BY <1>1, <3>1, <3>2, FieldTypes
  <2>3. slave.got_sync => /\ slave.t1.of = t2 /\ fed.t2 < t2 /\ t2 <= heard /\ t2 <= slave.heard
    BY <1>1, <2>1 DEF SyncHeard
  <2>4. fed.t2 <= syncs /\ requests <= MaxRequests + syncs
    BY <1>1 DEF SyncHeard
  <2>5. slave.got_sync => t2 < of /\ t2 <= of
    BY <2>2, <2>3
  <2> QED
    BY <1>4, <1>7, <2>1, <2>2, <2>3, <2>4, <2>5 DEF SyncHeard
<1>13. FollowUps'
  <2>1. restarts = 0 \/ losses = 0
    BY DEF IInv, FollowUps
  <2>2. ASSUME restarts = 0
        PROVE  Numbered'
    <3>1. Numbered
      BY <2>2 DEF IInv, FollowUps
    <3>2. toSlave[1].sequenceId = (toSlave[1].of - 1) % SeqMod
      BY <1>2, <3>1 DEF Numbered, NumbersTell
    <3>3. NumbersTell(toSlave')
      BY <1>8, <3>1 DEF Numbered
    <3> QED
      BY <1>4, <1>7, <3>1, <3>2, <3>3 DEF Numbered
  <2>3. ASSUME losses = 0
        PROVE  Paired(toSlave') /\ FirstPaired'
    <3>1. /\ Paired(toSlave')
          /\ toSlave' # <<>> /\ toSlave'[1].type = "FOLLOW_UP"
               => toSlave[1].type = "SYNC" /\ toSlave[1].of = toSlave'[1].of
      BY <1>1, <1>2, <2>3, PairedTail DEF IInv, FollowUps
    <3> QED
      BY <1>7, <3>1 DEF FirstPaired
  <2> QED
    BY <1>5, <2>1, <2>2, <2>3 DEF FollowUps
<1> QED
  BY <1>8, <1>9, <1>11, <1>12, <1>13 DEF IInv

\* What the parts of FollowUps and SyncsInOrder need when the slave takes a frame that
\* is no Sync, or does not listen, and its last Sync stays the same.
LEMMA TakenUnheard ==
  ASSUME IInv, toSlave # <<>>, toSlave' = Tail(toSlave),
         UNCHANGED <<sentSyncSequenceId, toMaster, fed, fedHeard, syncs, requests,
                     losses, restarts>>,
         slave'.sync_receive_time = slave.sync_receive_time,
         slave'.recvSyncSequenceId = slave.recvSyncSequenceId,
         slave'.waitingForFollow => slave.waitingForFollow,
         slave'.sentDelayReqSequenceId = slave.sentDelayReqSequenceId,
         slave'.delayReq_tx_ts = slave.delayReq_tx_ts,
         toSlave[1].type # "SYNC" \/ slave'.portState # "SLAVE"
  PROVE  /\ FollowUps'
         /\ SyncsInOrder(toSlave, slave.sync_receive_time.of, fed.t2, requests, syncs, losses)'
<1>1. /\ toSlave' \in Seq(Frame) /\ toSlave \in Seq(Frame)
      /\ SyncsInOrder(toSlave', slave.sync_receive_time.of, fed.t2, requests, syncs, losses)
      /\ NumbersTell(toSlave) => NumbersTell(toSlave')
  BY Taken DEF IInv, TypeOK
<1>2. restarts = 0 => Numbered'
  BY <1>1 DEF IInv, FollowUps, Numbered
<1>3. ASSUME losses = 0
      PROVE  Paired(toSlave') /\ FirstPaired'
  <2>1. /\ Paired(toSlave')
        /\ toSlave' # <<>> /\ toSlave'[1].type = "FOLLOW_UP"
             => toSlave[1].type = "SYNC" /\ toSlave[1].of = toSlave'[1].of
    BY <1>1, <1>3, PairedTail DEF IInv, FollowUps
  <2> QED
    BY <2>1 DEF FirstPaired
<1> QED
  BY <1>1, <1>2, <1>3 DEF IInv, FollowUps

\* A frame is ignored.
LEMMA IgnoreFrameStep ==
  ASSUME IInv, IgnoreFrame
  PROVE  IInv'
<1>1. TypeOK /\ SyncHeard /\ toSlave \in Seq(Frame) /\ toMaster \in Seq(Frame)
  BY DEF IInv, TypeOK
<1>2. /\ toSlave # <<>> /\ toSlave' = Tail(toSlave) /\ Head(toSlave) = toSlave[1]
      /\ UNCHANGED <<slave, sentSyncSequenceId, toMaster, fed, fedHeard, syncs, requests, ends>>
      /\ toSlave[1].type # "SYNC" \/ slave.portState # "SLAVE"
  <2>1. toSlave # <<>> /\ toSlave' = Tail(toSlave) /\ Head(toSlave) = toSlave[1]
        /\ UNCHANGED <<slave, sentSyncSequenceId, toMaster, fed, fedHeard, syncs, requests, ends>>
    BY <1>1, TailFacts DEF IgnoreFrame
  <2>2. ASSUME Head(toSlave).type = "SYNC", slave.portState # "OTHER"
        PROVE  FALSE
    BY <2>2 DEF IgnoreFrame
  <2> QED
    BY <2>1, <2>2
<1>3. UNCHANGED <<losses, restarts, leaves, slaveSince, overlap, failures>>
  BY <1>2 DEF ends, marks, faults
<1>4. /\ toSlave' \in Seq(Frame) /\ DelayAfterSync' /\ Departure' /\ InRoom'
      /\ RequestsInOrder(toMaster, fed.t4, requests, slave.sentDelayReqSequenceId, losses)'
      /\ AnswersInOrder(toSlave, toMaster, fed.t4, requests, slave.sentDelayReqSequenceId, losses)'
  BY <1>2, <1>3, Taken
<1>5. FollowUps' /\ SyncsInOrder(toSlave, slave.sync_receive_time.of, fed.t2, requests, syncs, losses)'
  BY <1>2, <1>3, TakenUnheard
<1>6. TypeOK' /\ SyncHeard'
  BY <1>1, <1>2, <1>3, <1>4 DEF TypeOK, SyncHeard
<1> QED
  BY <1>4, <1>5, <1>6 DEF IInv

\* The port enters PTP_SLAVE.
LEMMA EnterSlaveStep ==
  ASSUME IInv, NEW initialised \in BOOLEAN, EnterSlave(initialised)
  PROVE  IInv'
<1>1. TypeOK /\ SyncHeard /\ slave \in Slave /\ toSlave \in Seq(Frame) /\ toMaster \in Seq(Frame)
  BY DEF IInv, TypeOK
<1>2. /\ toSlave # <<>> /\ toSlave' = Tail(toSlave) /\ toSlave[1].type = "ANNOUNCE"
      /\ UNCHANGED <<sentSyncSequenceId, toMaster, fed, fedHeard, syncs, requests, overlap, faults>>
      /\ slaveSince' = syncs
      /\ slave' = [slave EXCEPT !.portState = "SLAVE", !.delayReqTimer = TRUE,
                                !.waitingForFollow = FALSE, !.got_sync = @ /\ ~initialised]
  BY <1>1, TailFacts DEF EnterSlave, Takes
<1>3. UNCHANGED <<losses, restarts, leaves>>
  BY <1>2 DEF faults
<1>4. /\ slave' \in Slave /\ slave'.waitingForFollow = FALSE
      /\ slave'.sync_receive_time = slave.sync_receive_time
      /\ slave'.recvSyncSequenceId = slave.recvSyncSequenceId
      /\ slave'.sentDelayReqSequenceId = slave.sentDelayReqSequenceId
      /\ slave'.delayReq_tx_ts = slave.delayReq_tx_ts
      /\ slave'.t1 = slave.t1 /\ slave'.t2 = slave.t2 /\ slave'.heard = slave.heard
      /\ slave'.got_sync => slave.got_sync
  <2>1. slave.got_sync \in BOOLEAN
    BY <1>1 DEF Slave
  <2>2. PICK got \in BOOLEAN : got = (slave.got_sync /\ ~initialised) /\ (got => slave.got_sync)
    BY <2>1
  <2>3. slave' = [slave EXCEPT !.portState = "SLAVE", !.delayReqTimer = TRUE,
                               !.waitingForFollow = FALSE, !.got_sync = got]
    BY <1>2, <2>2
  <2> QED
    BY <1>1, <2>2, <2>3 DEF Slave
<1>5. /\ toSlave' \in Seq(Frame) /\ DelayAfterSync' /\ Departure' /\ InRoom'
      /\ RequestsInOrder(toMaster, fed.t4, requests, slave.sentDelayReqSequenceId, losses)'
      /\ AnswersInOrder(toSlave, toMaster, fed.t4, requests, slave.sentDelayReqSequenceId, losses)'
  BY <1>2, <1>3, <1>4, Taken
<1>6. FollowUps' /\ SyncsInOrder(toSlave, slave.sync_receive_time.of, fed.t2, requests, syncs, losses)'
  BY <1>2, <1>3, <1>4, TakenUnheard
<1>7. TypeOK'
  <2>1. failures' \in 0 .. MaxFailures
    BY <1>1, HwAnswersType DEF EnterSlave
  <2> QED
    BY <1>1, <1>2, <1>3, <1>4, <1>5, <2>1 DEF TypeOK
<1>8. SyncHeard'
  BY <1>1, <1>2, <1>4 DEF SyncHeard
<1> QED
  BY <1>5, <1>6, <1>7, <1>8 DEF IInv

\* The port falls through to PTP_SLAVE.
LEMMA FallThroughToSlaveStep ==
  ASSUME IInv, FallThroughToSlave
  PROVE  IInv'
<1>1. TypeOK /\ SyncHeard /\ slave \in Slave /\ toSlave \in Seq(Frame) /\ toMaster \in Seq(Frame)
  BY DEF IInv, TypeOK
<1>2. /\ toSlave # <<>> /\ toSlave' = Tail(toSlave) /\ toSlave[1].type = "ANNOUNCE"
      /\ UNCHANGED <<sentSyncSequenceId, toMaster, fed, fedHeard, syncs, requests, overlap,
                     faults, failures>>
      /\ slaveSince' = syncs
      /\ slave' = [slave EXCEPT !.portState = "SLAVE"]
  BY <1>1, TailFacts DEF FallThroughToSlave, Takes
<1>3. UNCHANGED <<losses, restarts, leaves>>
  BY <1>2 DEF faults
<1>4. /\ slave' \in Slave /\ slave'.waitingForFollow = slave.waitingForFollow
      /\ slave'.sync_receive_time = slave.sync_receive_time
      /\ slave'.recvSyncSequenceId = slave.recvSyncSequenceId
      /\ slave'.sentDelayReqSequenceId = slave.sentDelayReqSequenceId
      /\ slave'.delayReq_tx_ts = slave.delayReq_tx_ts
      /\ slave'.t1 = slave.t1 /\ slave'.t2 = slave.t2 /\ slave'.heard = slave.heard
      /\ slave'.got_sync = slave.got_sync
  BY <1>1, <1>2 DEF Slave
<1>5. /\ toSlave' \in Seq(Frame) /\ DelayAfterSync' /\ Departure' /\ InRoom'
      /\ RequestsInOrder(toMaster, fed.t4, requests, slave.sentDelayReqSequenceId, losses)'
      /\ AnswersInOrder(toSlave, toMaster, fed.t4, requests, slave.sentDelayReqSequenceId, losses)'
  BY <1>2, <1>3, <1>4, Taken
<1>6. FollowUps' /\ SyncsInOrder(toSlave, slave.sync_receive_time.of, fed.t2, requests, syncs, losses)'
  BY <1>2, <1>3, <1>4, TakenUnheard
<1>7. TypeOK'
  BY <1>1, <1>2, <1>3, <1>4, <1>5 DEF TypeOK
<1>8. SyncHeard'
  BY <1>1, <1>2, <1>4 DEF SyncHeard
<1> QED
  BY <1>5, <1>6, <1>7, <1>8 DEF IInv

\* What issueDelayReq() does to the fields and to the queue.
LEMMA RequestFields ==
  ASSUME NEW s \in Slave, NEW stamped \in BOOLEAN, IssueDelayReq(s, stamped),
         requests + 1 \in Number, toMaster \in Seq(Frame)
  PROVE  /\ requests' = requests + 1 /\ slave' \in Slave
         /\ slave'.delayReq_tx_ts.correct => slave'.delayReq_tx_ts.of = requests + 1
         /\ slave'.delayReq_tx_ts.correct = stamped
         /\ slave'.sentDelayReqSequenceId = (s.sentDelayReqSequenceId + 1) % SeqMod
         /\ slave'.heard = s.sync_receive_time.of
         /\ slave'.sync_receive_time = s.sync_receive_time
         /\ slave'.recvSyncSequenceId = s.recvSyncSequenceId
         /\ slave'.waitingForFollow = s.waitingForFollow /\ slave'.got_sync = s.got_sync
         /\ slave'.t1 = s.t1 /\ slave'.t2 = s.t2 /\ slave'.portState = s.portState
         /\ s.sentDelayReqSequenceId \in UInteger16
         /\ \E f \in Frame :
              /\ toMaster' = Append(toMaster, f) /\ f.type = "DELAY_REQ"
              /\ f.of = requests + 1 /\ f.sequenceId = s.sentDelayReqSequenceId
<1>1. PICK of \in Number, next \in UInteger16, heard \in Number :
        /\ of = (IF stamped THEN requests + 1 ELSE s.delayReq_tx_ts.of)
        /\ next = (s.sentDelayReqSequenceId + 1) % SeqMod /\ heard = s.sync_receive_time.of
  <2>1. s.delayReq_tx_ts.of \in Number /\ s.sync_receive_time.of \in Number
    BY DEF Slave, Stamp
  <2>2. PICK n \in Int : n = s.sentDelayReqSequenceId + 1
    <3>1. s.sentDelayReqSequenceId \in Int
      BY SeqAssumption DEF Slave, UInteger16
    <3> QED
      BY <3>1
  <2>3. n % SeqMod \in UInteger16
    BY Division, SeqAssumption DEF UInteger16
  <2>4. CASE stamped
    BY <2>1, <2>2, <2>3, <2>4
  <2>5. CASE ~stamped
    BY <2>1, <2>2, <2>3, <2>5
  <2> QED
    BY <2>4, <2>5
<1>2. requests' = requests + 1
  BY DEF IssueDelayReq
<1>3. slave' = [s EXCEPT !.delayReq_tx_ts = [of |-> of, correct |-> stamped],
                         !.sentDelayReqSequenceId = next, !.heard = heard]
  BY <1>1, <1>2 DEF IssueDelayReq
<1>4. [of |-> of, correct |-> stamped] \in Stamp
  BY <1>1 DEF Stamp
<1>5. slave' \in Slave
  BY <1>1, <1>3, <1>4 DEF Slave
<1>6. /\ slave'.delayReq_tx_ts = [of |-> of, correct |-> stamped]
      /\ slave'.sentDelayReqSequenceId = next /\ slave'.heard = heard
      /\ slave'.sync_receive_time = s.sync_receive_time
      /\ slave'.recvSyncSequenceId = s.recvSyncSequenceId
      /\ slave'.waitingForFollow = s.waitingForFollow /\ slave'.got_sync = s.got_sync
      /\ slave'.t1 = s.t1 /\ slave'.t2 = s.t2 /\ slave'.portState = s.portState
  BY <1>3 DEF Slave
<1>7. \E f \in Frame :
        /\ toMaster' = Append(toMaster, f) /\ f.type = "DELAY_REQ"
        /\ f.of = requests + 1 /\ f.sequenceId = s.sentDelayReqSequenceId
  <2>1. PICK f : f = [type |-> "DELAY_REQ", sequenceId |-> s.sentDelayReqSequenceId,
                      of |-> requests + 1]
    OBVIOUS
  <2>2. f \in Frame
    BY <2>1 DEF Frame, Slave
  <2>3. toMaster' = Append(toMaster, f)
    BY <1>2, <2>1 DEF IssueDelayReq
  <2> QED
    BY <2>1, <2>2, <2>3
<1>8. /\ slave'.delayReq_tx_ts.correct => slave'.delayReq_tx_ts.of = requests + 1
      /\ slave'.delayReq_tx_ts.correct = stamped
  BY <1>1, <1>6
<1> QED
  BY <1>1, <1>2, <1>5, <1>6, <1>7, <1>8 DEF Slave

\* What holds of the requests and the answers after another request.
LEMMA Requested ==
  ASSUME TypeOK, NEW s \in Slave, NEW stamped \in BOOLEAN, IssueDelayReq(s, stamped),
         requests + 1 \in Number, fed.t4 <= requests,
         toSlave' \in Seq(Frame), UNCHANGED <<fed, losses>>,
         RequestsInOrder(toMaster, fed.t4, requests, s.sentDelayReqSequenceId, losses),
         AnswersInOrder(toSlave', toMaster, fed.t4, requests, s.sentDelayReqSequenceId, losses)
  PROVE  /\ toMaster' \in Seq(Frame) /\ Len(toMaster') = Len(toMaster) + 1 /\ Departure'
         /\ RequestsInOrder(toMaster, fed.t4, requests, slave.sentDelayReqSequenceId, losses)'
         /\ AnswersInOrder(toSlave, toMaster, fed.t4, requests, slave.sentDelayReqSequenceId, losses)'
<1>1. toMaster \in Seq(Frame)
  BY DEF TypeOK
<1>2. /\ requests' = requests + 1 /\ slave' \in Slave
      /\ slave'.delayReq_tx_ts.correct => slave'.delayReq_tx_ts.of = requests + 1
      /\ slave'.sentDelayReqSequenceId = (s.sentDelayReqSequenceId + 1) % SeqMod
      /\ s.sentDelayReqSequenceId \in UInteger16
      /\ \E f \in Frame :
           /\ toMaster' = Append(toMaster, f) /\ f.type = "DELAY_REQ"
           /\ f.of = requests + 1 /\ f.sequenceId = s.sentDelayReqSequenceId
  BY <1>1, RequestFields
<1>3. PICK f \in Frame :
        /\ toMaster' = Append(toMaster, f) /\ f.type = "DELAY_REQ"
        /\ f.of = requests + 1 /\ f.sequenceId = s.sentDelayReqSequenceId
  BY <1>2
<1>4. PICK next \in UInteger16 : next = s.sentDelayReqSequenceId
  BY <1>2
<1>5. fed.t4 \in Int /\ requests \in Int /\ losses \in Nat
  BY FieldTypes
<1>6. RequestsInOrder(Append(toMaster, f), fed.t4, requests + 1, (next + 1) % SeqMod, losses)
  BY <1>1, <1>3, <1>4, <1>5, RequestsNext
<1>7. AnswersInOrder(toSlave', Append(toMaster, f), fed.t4, requests + 1, (next + 1) % SeqMod, losses)
  BY <1>1, <1>3, <1>4, <1>5, AnswersNext
<1>8. Departure'
  BY <1>2, <1>5 DEF Departure
<1>9. toMaster' \in Seq(Frame) /\ Len(toMaster') = Len(toMaster) + 1
  BY <1>1, <1>3, AppendFacts
<1> QED
  BY <1>2, <1>3, <1>4, <1>6, <1>7, <1>8, <1>9

\* The delayReq timer sends a request.
LEMMA DelayReqTimeoutStep ==
  ASSUME IInv, NEW stamped \in BOOLEAN, DelayReqTimeout(stamped)
  PROVE  IInv'
<1>1. TypeOK /\ SyncHeard /\ Departure /\ slave \in Slave
      /\ toSlave \in Seq(Frame) /\ toMaster \in Seq(Frame)
  BY DEF IInv, TypeOK
<1>2. /\ IssueDelayReq(slave, stamped) /\ requests < MaxRequests /\ InFlight < Room
      /\ UNCHANGED <<sentSyncSequenceId, toSlave, fed, fedHeard, syncs, slaveSince, faults>>
      /\ overlap' = (overlap \/ InFlight > 0)
  BY DEF DelayReqTimeout
<1>3. UNCHANGED <<losses, restarts, leaves>>
  BY <1>2 DEF faults
<1>4. requests + 1 \in Number
  <2>1. PICK n \in Nat, max \in Nat, m \in Nat : n = requests /\ max = MaxRequests /\ m = MaxSyncs
    BY <1>1, FieldTypes
  <2>2. n < max
    BY <1>2, <2>1
  <2>3. n + 1 \in 0 .. m + max
    BY <2>2
  <2> QED
    BY <2>1, <2>3 DEF Number
<1>5. /\ requests' = requests + 1 /\ slave' \in Slave
      /\ slave'.heard = slave.sync_receive_time.of
      /\ slave'.sync_receive_time = slave.sync_receive_time
      /\ slave'.recvSyncSequenceId = slave.recvSyncSequenceId
      /\ slave'.waitingForFollow = slave.waitingForFollow /\ slave'.got_sync = slave.got_sync
      /\ slave'.t1 = slave.t1 /\ slave'.t2 = slave.t2 /\ slave'.portState = slave.portState
  BY <1>1, <1>2, <1>4, RequestFields
<1>6. /\ toMaster' \in Seq(Frame) /\ Len(toMaster') = Len(toMaster) + 1 /\ Departure'
      /\ RequestsInOrder(toMaster, fed.t4, requests, slave.sentDelayReqSequenceId, losses)'
      /\ AnswersInOrder(toSlave, toMaster, fed.t4, requests, slave.sentDelayReqSequenceId, losses)'
  <2>1. /\ fed.t4 <= requests /\ toSlave' \in Seq(Frame) /\ toSlave' = toSlave
        /\ UNCHANGED <<fed, losses>>
        /\ RequestsInOrder(toMaster, fed.t4, requests, slave.sentDelayReqSequenceId, losses)
        /\ AnswersInOrder(toSlave', toMaster, fed.t4, requests, slave.sentDelayReqSequenceId, losses)
    BY <1>1, <1>2, <1>3 DEF IInv, Departure
  <2> QED
    BY <1>1, <1>2, <1>4, <2>1, Requested
<1>7. TypeOK'
  <2>1. failures' \in 0 .. MaxFailures
    BY <1>1, HwAnswersType DEF DelayReqTimeout
  <2>2. overlap' \in BOOLEAN
    BY <1>1, <1>2 DEF TypeOK
  <2> QED
    BY <1>1, <1>2, <1>3, <1>4, <1>5, <1>6, <2>1, <2>2 DEF TypeOK
<1>8. SyncsInOrder(toSlave, slave.sync_receive_time.of, fed.t2, requests, syncs, losses)'
  <2>1. /\ slave.sync_receive_time.of \in Int /\ fed.t2 \in Int /\ requests \in Int
        /\ syncs \in Int /\ losses \in Int
        /\ SyncsInOrder(toSlave, slave.sync_receive_time.of, fed.t2, requests, syncs, losses)
    <3>1. /\ slave.sync_receive_time.of \in Int /\ fed.t2 \in Int /\ requests \in Int
          /\ syncs \in Int /\ losses \in Int
      BY <1>1, CounterTypes
    <3> QED
      BY <3>1 DEF IInv
  <2>2. PICK more \in Int : more = requests + 1 /\ more <= MaxRequests + slave.sync_receive_time.of
    <3>1. PICK n \in Nat, max \in Nat, heard \in Nat :
            n = requests /\ max = MaxRequests /\ heard = slave.sync_receive_time.of
      BY <1>1, FieldTypes
    <3>2. n < max
      BY <1>2, <3>1
    <3>3. n + 1 \in Int /\ n + 1 <= max + heard
      BY <3>2
    <3> QED
      BY <3>1, <3>3
  <2>3. SyncsInOrder(toSlave, slave.sync_receive_time.of, fed.t2, more, syncs, losses)
    BY <1>1, <2>1, <2>2, SyncsUsed
  <2> QED
    BY <1>2, <1>3, <1>5, <2>2, <2>3
<1>9. SyncHeard'
  <2>1. PICK heard \in Nat, t2 \in Nat : heard = slave.sync_receive_time.of /\ t2 = slave.t2.of
    BY <1>1, FieldTypes
  <2>2. requests + 1 <= MaxRequests + syncs /\ (fed.t2 < heard => requests + 1 < MaxRequests + heard)
    <3>1. PICK n \in Nat, max \in Nat, sent \in Nat, used \in Nat :
            n = requests /\ max = MaxRequests /\ sent = syncs /\ used = fed.t2
      BY <1>1, FieldTypes
    <3>2. n < max
      BY <1>2, <3>1
    <3>3. n + 1 <= max + sent /\ (used < heard => n + 1 < max + heard)
      BY <3>2
    <3> QED
      BY <3>1, <3>3
  <2>3. slave.got_sync => t2 <= heard
    BY <1>1, <2>1 DEF SyncHeard
  <2> QED
    BY <1>1, <1>2, <1>5, <2>1, <2>2, <2>3 DEF SyncHeard
<1>10. FollowUps'
  BY <1>2, <1>3, <1>5 DEF IInv, FollowUps, Numbered, FirstPaired
<1>11. InRoom'
  <2>1. Len(toSlave) + Len(toMaster) < Room
    BY <1>2 DEF InFlight
  <2>2. Len(toSlave) + (Len(toMaster) + 1) <= Room
    BY <1>1, <2>1, FieldTypes
  <2> QED
    BY <1>2, <1>6, <2>2 DEF InRoom, InFlight
<1>12. DelayAfterSync'
  BY <1>2 DEF IInv, DelayAfterSync
<1> QED
  BY <1>6, <1>7, <1>8, <1>9, <1>10, <1>11, <1>12 DEF IInv

\* A Follow_Up that is awaited is that of the Sync the slave has received: without
\* losses it comes right after it, and without restarts its number tells.
LEMMA FollowUpOfItsSync ==
  ASSUME IInv, toSlave # <<>>, toSlave[1].type = "FOLLOW_UP", slave.portState = "SLAVE",
         Awaited(toSlave[1])
  PROVE  toSlave[1].of = slave.sync_receive_time.of
<1>1. TypeOK /\ toSlave \in Seq(Frame) /\ 1 \in 1 .. Len(toSlave)
  BY TailFacts DEF IInv, TypeOK
<1>2. CASE losses = 0
  BY <1>2 DEF IInv, FollowUps, FirstPaired
<1>3. CASE losses # 0
  <2>1. PICK of \in Nat, heard \in Nat, sent \in Nat :
          of = toSlave[1].of /\ heard = slave.sync_receive_time.of /\ sent = syncs
    BY <1>1, FieldTypes, FrameTypes
  <2>2. heard <= of /\ of <= sent
    BY <1>1, <2>1 DEF IInv, SyncsInOrder
  <2>3. sent - heard < SeqMod
    BY <2>1 DEF IInv, SyncHeard, Awaited
  <2>4. (heard - 1) % SeqMod = (of - 1) % SeqMod
    BY <1>1, <1>3, <2>1 DEF IInv, FollowUps, Numbered, NumbersTell, Awaited
  <2>5. PICK x \in Int, y \in Int : x = heard - 1 /\ y = of - 1
    OBVIOUS
  <2>6. x <= y /\ y - x < SeqMod
    BY <2>2, <2>3, <2>5, SeqAssumption
  <2>7. x = y
    BY <2>4, <2>5, <2>6, NearAndCongruent, SeqAssumption
  <2> QED
    BY <2>1, <2>5, <2>7
<1> QED
  BY <1>2, <1>3

\* A Follow_Up completes the times of a Sync, and the delay is measured.
LEMMA HandleFollowUpStep ==
  ASSUME IInv, NEW stamped \in BOOLEAN, HandleFollowUp(stamped)
  PROVE  IInv'
<1> DEFINE s == [slave EXCEPT !.waitingForFollow = FALSE,
                              !.t1 = [of |-> toSlave[1].of, correct |-> TRUE],
                              !.t2 = slave.sync_receive_time,
                              !.got_sync = TRUE]
<1>1. TypeOK /\ SyncHeard /\ Departure /\ slave \in Slave
      /\ toSlave \in Seq(Frame) /\ toMaster \in Seq(Frame)
  BY DEF IInv, TypeOK
<1>2. /\ toSlave # <<>> /\ toSlave' = Tail(toSlave) /\ toSlave[1].type = "FOLLOW_UP"
      /\ slave.portState = "SLAVE" /\ Awaited(toSlave[1]) /\ toSlave[1].of \in Number
      /\ IssueDelayReq(s, stamped)
      /\ UNCHANGED <<sentSyncSequenceId, fed, fedHeard, syncs, marks, faults>>
  BY <1>1, TailFacts, FrameTypes DEF HandleFollowUp, Takes
<1>3. UNCHANGED <<losses, restarts, leaves, slaveSince, overlap>>
  BY <1>2 DEF marks, faults
<1>4. toSlave[1].of = slave.sync_receive_time.of
  BY <1>2, FollowUpOfItsSync
<1>5. /\ 1 \in 1 .. Len(toSlave) /\ toSlave' = Without(toSlave, 1)
      /\ toSlave' \in Seq(Frame) /\ Len(toSlave') = Len(toSlave) - 1
      /\ \A j \in 1 .. Len(toSlave) - 1 : toSlave'[j] = toSlave[j + 1]
  BY <1>1, <1>2, TailFacts
<1>6. /\ s \in Slave /\ s.waitingForFollow = FALSE /\ s.got_sync = TRUE
      /\ s.t1.of = slave.sync_receive_time.of /\ s.t2 = slave.sync_receive_time
      /\ s.sync_receive_time = slave.sync_receive_time
      /\ s.recvSyncSequenceId = slave.recvSyncSequenceId
      /\ s.sentDelayReqSequenceId = slave.sentDelayReqSequenceId
  <2>1. [of |-> toSlave[1].of, correct |-> TRUE] \in Stamp
    BY <1>2 DEF Stamp
  <2>2. slave.sync_receive_time \in Stamp
    BY <1>1 DEF Slave
  <2> QED
    BY <1>1, <1>4, <2>1, <2>2 DEF Slave
<1> HIDE DEF s
<1>7. PICK n \in Nat, max \in Nat, heard \in Nat, sent \in Nat, used \in Nat :
        /\ n = requests /\ max = MaxRequests /\ heard = slave.sync_receive_time.of
        /\ sent = syncs /\ used = fed.t2
  BY <1>1, FieldTypes
<1>8. /\ used < heard /\ n < max + heard /\ heard <= sent /\ sent <= MaxSyncs
      /\ used <= sent
  <2>1. slave.waitingForFollow
    BY <1>2 DEF Awaited
  <2> QED
    BY <1>1, <1>7, <2>1, BoundAssumption DEF SyncHeard, TypeOK
<1>9. requests + 1 \in Number /\ requests + 1 <= MaxRequests + heard
  <2>1. n + 1 <= max + heard
    BY <1>8
  <2> QED
    BY <1>7, <1>8, <2>1, BoundAssumption DEF Number
<1>10. /\ requests' = requests + 1 /\ slave' \in Slave
       /\ slave'.heard = slave.sync_receive_time.of
       /\ slave'.sync_receive_time = slave.sync_receive_time
       /\ slave'.waitingForFollow = FALSE /\ slave'.got_sync = TRUE
       /\ slave'.t1.of = slave.sync_receive_time.of /\ slave'.t2 = slave.sync_receive_time
  BY <1>1, <1>2, <1>6, <1>9, RequestFields
<1>11. /\ toMaster' \in Seq(Frame) /\ Len(toMaster') = Len(toMaster) + 1 /\ Departure'
       /\ RequestsInOrder(toMaster, fed.t4, requests, slave.sentDelayReqSequenceId, losses)'
       /\ AnswersInOrder(toSlave, toMaster, fed.t4, requests, slave.sentDelayReqSequenceId, losses)'
  <2>1. AnswersInOrder(toSlave', toMaster, fed.t4, requests, s.sentDelayReqSequenceId, losses)
    <3>1. AnswersInOrder(toSlave, toMaster, fed.t4, requests, slave.sentDelayReqSequenceId, losses)
      BY DEF IInv
    <3>2. AnswersInOrder(Without(toSlave, 1), toMaster, fed.t4, requests,
                         slave.sentDelayReqSequenceId, losses)
      BY <1>1, <1>5, <3>1, FieldTypes, AnswersWithout
    <3> QED
      BY <1>5, <1>6, <3>2
  <2>2. /\ fed.t4 <= requests /\ UNCHANGED <<fed, losses>>
        /\ RequestsInOrder(toMaster, fed.t4, requests, s.sentDelayReqSequenceId, losses)
    BY <1>1, <1>2, <1>3, <1>6 DEF IInv, Departure
  <2> QED
    BY <1>1, <1>2, <1>5, <1>6, <1>9, <2>1, <2>2, Requested
<1>12. TypeOK'
  <2>1. failures' \in 0 .. MaxFailures
    BY <1>1, HwAnswersType DEF HandleFollowUp
  <2>2. requests' \in Number
    BY <1>9, <1>10
  <2> QED
    BY <1>1, <1>2, <1>3, <1>5, <1>10, <1>11, <2>1, <2>2 DEF TypeOK
<1>13. SyncsInOrder(toSlave, slave.sync_receive_time.of, fed.t2, requests, syncs, losses)'
  <2>1. /\ heard \in Int /\ fed.t2 \in Int /\ requests \in Int /\ syncs \in Int /\ losses \in Int
        /\ losses >= losses
        /\ SyncsInOrder(toSlave, heard, fed.t2, requests, syncs, losses)
    <3>1. /\ fed.t2 \in Int /\ requests \in Int /\ syncs \in Int /\ losses \in Int
          /\ losses >= losses
      BY <1>1, CounterTypes
    <3>2. SyncsInOrder(toSlave, heard, fed.t2, requests, syncs, losses)
      BY <1>7 DEF IInv
    <3> QED
      BY <3>1, <3>2
  <2>2. SyncsInOrder(Without(toSlave, 1), heard, fed.t2, requests, syncs, losses)
    BY <1>1, <1>5, <2>1, SyncsWithout
  <2>3. PICK more \in Int : more = requests + 1 /\ more <= MaxRequests + heard
    <3>1. n + 1 \in Int
      OBVIOUS
    <3> QED
      BY <1>7, <1>9, <3>1
  <2>4. SyncsInOrder(toSlave', heard, fed.t2, more, syncs, losses)
    BY <1>5, <2>1, <2>2, <2>3, SyncsUsed
  <2> QED
    BY <1>2, <1>3, <1>7, <1>10, <2>3, <2>4
<1>14. SyncHeard'
  <2>1. n + 1 <= max + sent
    BY <1>8
  <2>2. requests + 1 <= MaxRequests + syncs
    BY <1>7, <2>1
  <2> QED
    BY <1>2, <1>7, <1>8, <1>10, <2>2 DEF SyncHeard
<1>15. FollowUps'
  <2>1. restarts = 0 => Numbered'
    BY <1>1, <1>2, <1>5, <1>10, NumbersWithout DEF IInv, FollowUps, Numbered
  <2>2. ASSUME losses = 0
        PROVE  Paired(toSlave') /\ FirstPaired'
    <3>1. /\ Paired(toSlave')
          /\ toSlave' # <<>> /\ toSlave'[1].type = "FOLLOW_UP"
               => toSlave[1].type = "SYNC" /\ toSlave[1].of = toSlave'[1].of
      BY <1>1, <1>2, <2>2, PairedTail DEF IInv, FollowUps
    <3> QED
      BY <1>2, <3>1 DEF FirstPaired
  <2> QED
    BY <1>3, <2>1, <2>2 DEF IInv, FollowUps
<1>16. InRoom'
  <2>1. InFlight' = InFlight
    <3>1. PICK a \in Nat, b \in Nat : a = Len(toSlave) /\ b = Len(toMaster)
      BY <1>1, FieldTypes
    <3>2. InFlight = a + b /\ InFlight' = a - 1 + (b + 1)
      BY <1>5, <1>11, <3>1 DEF InFlight
    <3> QED
      BY <3>2
  <2>2. ASSUME NEW i \in 1 .. Len(toSlave), toSlave[i].type = "SYNC"
        PROVE  \E j \in 1 .. Len(toSlave') : toSlave'[j].type = "SYNC"
    <3>1. Len(toSlave) \in Nat /\ i # 1
      BY <1>1, <1>2, <2>2, FieldTypes
    <3>2. i - 1 \in 1 .. Len(toSlave) - 1 /\ i - 1 + 1 = i
      BY <3>1
    <3>3. toSlave'[i - 1] = toSlave[i] /\ i - 1 \in 1 .. Len(toSlave')
      BY <1>5, <3>2
    <3> QED
      BY <2>2, <3>3
  <2> QED
    BY <2>1, <2>2 DEF IInv, InRoom
<1>17. DelayAfterSync'
  BY <1>2 DEF IInv, DelayAfterSync
<1> QED
  BY <1>11, <1>12, <1>13, <1>14, <1>15, <1>16, <1>17 DEF IInv

\* An answer is accepted for the last request only: fewer requests are outstanding
\* than there are numbers.
LEMMA AnswerToLast ==
  ASSUME IInv, toSlave # <<>>, toSlave[1].type = "DELAY_RESP", Answers(toSlave[1])
  PROVE  toSlave[1].of = requests /\ fed.t4 < requests
<1>1. TypeOK /\ toSlave \in Seq(Frame) /\ 1 \in 1 .. Len(toSlave)
  BY TailFacts DEF IInv, TypeOK
<1>2. PICK of \in Nat, id \in UInteger16, sent \in Nat, m \in Nat \ {0}, next \in UInteger16,
           a \in Nat, b \in Nat, lost \in Nat, room \in Nat :
        /\ of = toSlave[1].of /\ id = toSlave[1].sequenceId /\ sent = requests /\ m = SeqMod
        /\ next = slave.sentDelayReqSequenceId
        /\ a = Len(toSlave) /\ b = Len(toMaster) /\ lost = losses /\ room = Room
        /\ room + lost <= m
  <2>1. /\ toSlave[1].of \in Nat /\ toSlave[1].sequenceId \in UInteger16 /\ requests \in Nat
        /\ slave.sentDelayReqSequenceId \in UInteger16 /\ Len(toSlave) \in Nat
        /\ Len(toMaster) \in Nat /\ losses \in Nat /\ Room \in Nat /\ SeqMod \in Nat \ {0}
        /\ losses <= MaxLosses /\ MaxLosses \in Nat
    BY <1>1, FieldTypes, FrameTypes, BoundAssumption, SeqAssumption
  <2>2. Room + losses <= SeqMod
    BY <2>1, InFlightAssumption
  <2> QED
    BY <2>1, <2>2
<1>3. id \in 0 .. m - 1 /\ next \in 0 .. m - 1 /\ next - 1 = id
  BY <1>2 DEF UInteger16, Answers
<1>4. AnswersInOrder(toSlave, toMaster, fed.t4, sent, next, lost)
  BY <1>2 DEF IInv
<1>5. /\ fed.t4 < of /\ of <= sent /\ sent - of <= a - 1 + b + lost
      /\ (id + (sent - of) + 1) % m = next
  <2>1. Outstanding(toSlave[1], Len(toSlave) - 1 + Len(toMaster), fed.t4, sent, next, lost)
    BY <1>1, <1>4 DEF AnswersInOrder
  <2> QED
    BY <1>2, <2>1 DEF Outstanding
<1>6. sent - of < m
  <2>1. CASE a + b <= room
    BY <1>2, <1>5, <2>1
  <2>2. CASE a + b = room + 1 /\ \E i \in 1 .. a : toSlave[i].type = "SYNC"
    <3>1. PICK i \in 1 .. a : toSlave[i].type = "SYNC"
      BY <2>2
    <3>2. i \in 1 + 1 .. Len(toSlave)
      BY <1>2, <3>1
    <3>3. sent - of <= a - 1 + b - 1 + lost
      BY <1>1, <1>2, <1>4, <3>1, <3>2 DEF AnswersInOrder, Outstanding
    <3> QED
      BY <1>2, <2>2, <3>3
  <2> QED
    BY <1>2, <2>1, <2>2 DEF IInv, InRoom, InFlight
<1>7. PICK x \in Int, y \in Int : x = id + 1 /\ y = id + (sent - of) + 1
  <2>1. id + 1 \in Int /\ id + (sent - of) + 1 \in Int
    BY <1>3
  <2> QED
    BY <2>1
<1>8. x <= y /\ y - x < m /\ x = next
  BY <1>3, <1>5, <1>6, <1>7
<1>9. x % m = y % m
  <2>1. x % m = x
    BY <1>3, <1>8, SmallRemainder
  <2> QED
    BY <1>5, <1>7, <1>8, <2>1
<1>10. x = y
  BY <1>8, <1>9, NearAndCongruent
<1>11. of = sent
  BY <1>3, <1>7, <1>10
<1> QED
  BY <1>2, <1>5, <1>11

\* The servo is updated: with the times of a Sync that it has not used, and of the
\* last request.
LEMMA WholeExchange ==
  ASSUME IInv, HandleDelayResp
  PROVE  \/ UNCHANGED <<fed, fedHeard, slave>>
         \/ /\ fed' = [t1 |-> slave.t2.of, t2 |-> slave.t2.of, t3 |-> requests, t4 |-> requests]
            /\ fedHeard' = slave.heard /\ slave' = [slave EXCEPT !.got_sync = FALSE]
            /\ slave.got_sync /\ fed.t4 < requests /\ toSlave[1].of = requests
<1>1. TypeOK /\ toSlave \in Seq(Frame)
  BY DEF IInv, TypeOK
<1>2. /\ toSlave # <<>> /\ toSlave[1].type = "DELAY_RESP" /\ Answers(toSlave[1])
      /\ WrServoUpdate(slave.delayReq_tx_ts, toSlave[1].of)
  BY <1>1, TailFacts DEF HandleDelayResp, Takes
<1>3. toSlave[1].of = requests /\ fed.t4 < requests
  BY <1>2, AnswerToLast
<1>4. CASE slave.got_sync /\ slave.t1.correct /\ slave.t2.correct /\ slave.delayReq_tx_ts.correct
  <2>1. slave.t1.of = slave.t2.of /\ slave.delayReq_tx_ts.of = requests
    BY <1>4 DEF IInv, SyncHeard, Departure
  <2> QED
    BY <1>2, <1>3, <1>4, <2>1 DEF WrServoUpdate
<1>5. CASE ~(slave.got_sync /\ slave.t1.correct /\ slave.t2.correct /\ slave.delayReq_tx_ts.correct)
  BY <1>2, <1>5 DEF WrServoUpdate
<1> QED
  BY <1>4, <1>5

\* An answer is handled.
LEMMA HandleDelayRespStep ==
  ASSUME IInv, HandleDelayResp
  PROVE  IInv'
<1>1. TypeOK /\ SyncHeard /\ Departure /\ slave \in Slave
      /\ toSlave \in Seq(Frame) /\ toMaster \in Seq(Frame)
  BY DEF IInv, TypeOK
<1>2. /\ toSlave # <<>> /\ toSlave' = Tail(toSlave) /\ toSlave[1].type = "DELAY_RESP"
      /\ UNCHANGED <<sentSyncSequenceId, toMaster, syncs, requests, ends>>
  BY <1>1, TailFacts DEF HandleDelayResp, Takes
<1>3. UNCHANGED <<losses, restarts, leaves, slaveSince, overlap, failures>>
  BY <1>2 DEF ends, marks, faults
<1>4. CASE UNCHANGED <<fed, fedHeard, slave>>
  <2>1. /\ toSlave' \in Seq(Frame) /\ DelayAfterSync' /\ Departure' /\ InRoom'
        /\ RequestsInOrder(toMaster, fed.t4, requests, slave.sentDelayReqSequenceId, losses)'
        /\ AnswersInOrder(toSlave, toMaster, fed.t4, requests, slave.sentDelayReqSequenceId, losses)'
    BY <1>2, <1>3, <1>4, Taken
  <2>2. FollowUps'
        /\ SyncsInOrder(toSlave, slave.sync_receive_time.of, fed.t2, requests, syncs, losses)'
    BY <1>2, <1>3, <1>4, TakenUnheard
  <2>3. TypeOK' /\ SyncHeard'
    BY <1>1, <1>2, <1>3, <1>4, <2>1 DEF TypeOK, SyncHeard
  <2> QED
    BY <2>1, <2>2, <2>3 DEF IInv
<1>5. CASE /\ fed' = [t1 |-> slave.t2.of, t2 |-> slave.t2.of, t3 |-> requests, t4 |-> requests]
           /\ fedHeard' = slave.heard /\ slave' = [slave EXCEPT !.got_sync = FALSE]
           /\ slave.got_sync /\ fed.t4 < requests /\ toSlave[1].of = requests
  <2>1. /\ 1 \in 1 .. Len(toSlave) /\ toSlave' = Without(toSlave, 1)
        /\ toSlave' \in Seq(Frame) /\ Len(toSlave') = Len(toSlave) - 1 /\ Len(toSlave) \in Nat
        /\ \A j \in 1 .. Len(toSlave) - 1 : toSlave'[j] = toSlave[j + 1]
    BY <1>1, <1>2, TailFacts
  <2>2. /\ slave' \in Slave /\ slave'.sync_receive_time = slave.sync_receive_time
        /\ slave'.recvSyncSequenceId = slave.recvSyncSequenceId
        /\ slave'.waitingForFollow = slave.waitingForFollow /\ slave'.got_sync = FALSE
        /\ slave'.sentDelayReqSequenceId = slave.sentDelayReqSequenceId
        /\ slave'.delayReq_tx_ts = slave.delayReq_tx_ts
    BY <1>1, <1>5 DEF Slave
  <2>3. PICK t2 \in Nat, heard \in Nat, n \in Nat, sent \in Nat, lost \in Nat :
          /\ t2 = slave.t2.of /\ heard = slave.sync_receive_time.of /\ n = requests
          /\ sent = syncs /\ lost = losses
    BY <1>1, FieldTypes
  <2>4. /\ t2 <= heard /\ t2 <= slave.heard /\ heard <= sent /\ n <= MaxRequests + sent
        /\ slave.waitingForFollow =>
             t2 < heard /\ n < MaxRequests + heard /\ sent - heard < SeqMod
    BY <1>1, <1>5, <2>3 DEF SyncHeard
  <2>5. TypeOK'
    <3>1. slave.t2.of \in Number /\ slave.heard \in Number
      BY <1>1 DEF Slave, Stamp
    <3>2. fed' \in [t1 : Number, t2 : Number, t3 : Number, t4 : Number] /\ fedHeard' \in Number
      BY <1>1, <1>5, <3>1 DEF TypeOK
    <3> QED
      BY <1>1, <1>2, <1>3, <2>1, <2>2, <3>2 DEF TypeOK
  <2>6. DelayAfterSync' /\ Departure'
    BY <1>1, <1>2, <1>5, <2>2, <2>3, <2>4 DEF DelayAfterSync, Departure
  <2>7. SyncHeard'
    <3>1. fed'.t2 = t2 /\ t2 <= sent
      BY <1>5, <2>3, <2>4
    <3> QED
      BY <1>2, <2>2, <2>3, <2>4, <3>1 DEF SyncHeard
  <2>8. SyncsInOrder(toSlave, slave.sync_receive_time.of, fed.t2, requests, syncs, losses)'
    <3>1. /\ fed.t2 \in Int /\ losses >= losses
          /\ SyncsInOrder(toSlave, heard, fed.t2, n, sent, lost)
      <4>1. fed.t2 \in Int /\ losses >= losses
        BY <1>1, CounterTypes
      <4>2. SyncsInOrder(toSlave, heard, fed.t2, n, sent, lost)
        BY <2>3 DEF IInv
      <4> QED
        BY <4>1, <4>2
    <3>2. PICK used \in Int : used = fed.t2 /\ SyncsInOrder(toSlave, heard, used, n, sent, lost)
      BY <3>1
    <3>3. SyncsInOrder(Without(toSlave, 1), heard, used, n, sent, lost)
      <4>1. lost >= lost
        OBVIOUS
      <4> QED
        BY <1>1, <2>1, <3>2, <4>1, SyncsWithout
    <3>4. SyncsInOrder(toSlave', heard, t2, n, sent, lost)
      <4>1. SyncsInOrder(toSlave', heard, used, n, sent, lost) /\ toSlave' \in Seq(Frame)
        BY <2>1, <3>3
      <4> QED
        BY <2>4, <4>1, SyncsUsed
    <3> QED
      BY <1>2, <1>3, <1>5, <2>2, <2>3, <3>4
  <2>9. AnswersInOrder(toSlave, toMaster, fed.t4, requests, slave.sentDelayReqSequenceId, losses)
        /\ RequestsInOrder(toMaster, fed.t4, requests, slave.sentDelayReqSequenceId, losses)
    BY DEF IInv
  <2>10. /\ \A j \in 1 + 1 .. Len(toSlave) : toSlave[j].type = "DELAY_RESP" => n < toSlave[j].of
         /\ \A j \in 1 .. Len(toMaster) : n < toMaster[j].of
    BY <1>2, <1>5, <2>1, <2>3, <2>9 DEF AnswersInOrder
  <2>11. AnswersInOrder(toSlave, toMaster, fed.t4, requests, slave.sentDelayReqSequenceId, losses)'
    <3>1. PICK used \in Int : used = fed.t4 /\ lost >= lost
      BY <1>1, FieldTypes
    <3>2. AnswersInOrder(toSlave', toMaster, used, n, slave.sentDelayReqSequenceId, lost)
      BY <1>1, <2>1, <2>3, <2>9, <3>1, AnswersWithout
    <3>3. \A i \in 1 .. Len(toSlave') : toSlave'[i].type = "DELAY_RESP" => n < toSlave'[i].of
      <4>1. ASSUME NEW i \in 1 .. Len(toSlave')
            PROVE  toSlave'[i] = toSlave[i + 1] /\ i + 1 \in 1 + 1 .. Len(toSlave)
        BY <2>1
      <4> QED
        BY <2>10, <4>1
    <3>4. AnswersInOrder(toSlave', toMaster, n, n, slave.sentDelayReqSequenceId, lost)
      BY <1>1, <2>1, <3>2, <3>3, AnswersUsed
    <3> QED
      BY <1>2, <1>3, <1>5, <2>2, <2>3, <3>4
  <2>12. RequestsInOrder(toMaster, fed.t4, requests, slave.sentDelayReqSequenceId, losses)'
    <3>1. PICK used \in Int : used = fed.t4
      BY <1>1, FieldTypes
    <3>2. RequestsInOrder(toMaster, n, n, slave.sentDelayReqSequenceId, lost)
      BY <1>1, <2>3, <2>9, <2>10, <3>1, RequestsUsed
    <3> QED
      BY <1>2, <1>3, <1>5, <2>2, <2>3, <3>2
  <2>13. FollowUps'
    <3>1. restarts = 0 => Numbered'
      BY <1>1, <1>2, <2>1, <2>2, NumbersWithout DEF IInv, FollowUps, Numbered
    <3>2. ASSUME losses = 0
          PROVE  Paired(toSlave') /\ FirstPaired'
      <4>1. /\ Paired(toSlave')
            /\ toSlave' # <<>> /\ toSlave'[1].type = "FOLLOW_UP"
                 => toSlave[1].type = "SYNC" /\ toSlave[1].of = toSlave'[1].of
        BY <1>1, <1>2, <3>2, PairedTail DEF IInv, FollowUps
      <4> QED
        BY <1>2, <4>1 DEF FirstPaired
    <3> QED
      BY <1>3, <3>1, <3>2 DEF IInv, FollowUps
  <2>14. InRoom'
    <3>1. PICK a \in Nat, b \in Nat, room \in Nat :
            a = Len(toSlave) /\ b = Len(toMaster) /\ room = Room
      BY <1>1, FieldTypes
    <3>2. a + b <= room + 1
      BY <3>1 DEF IInv, InRoom, InFlight
    <3>3. a - 1 + b <= room
      BY <3>2
    <3> QED
      BY <1>2, <2>1, <3>1, <3>3 DEF InRoom, InFlight
  <2> QED
    BY <2>5, <2>6, <2>7, <2>8, <2>11, <2>12, <2>13, <2>14 DEF IInv
<1> QED
  BY <1>4, <1>5, WholeExchange

\* The master answers a request.
LEMMA HandleDelayReqStep ==
  ASSUME IInv, HandleDelayReq
  PROVE  IInv'
<1>1. TypeOK /\ SyncHeard /\ Departure /\ slave \in Slave
      /\ toSlave \in Seq(Frame) /\ toMaster \in Seq(Frame)
  BY DEF IInv, TypeOK
<1>2. /\ toMaster # <<>> /\ toMaster' = Tail(toMaster)
      /\ toSlave' = Append(toSlave, [toMaster[1] EXCEPT !.type = "DELAY_RESP"])
      /\ UNCHANGED <<slave, sentSyncSequenceId, fed, fedHeard, syncs, requests, ends>>
  BY <1>1, TailFacts DEF HandleDelayReq
<1>3. UNCHANGED <<losses, restarts, leaves, slaveSince, overlap, failures>>
  BY <1>2 DEF ends, marks, faults
<1>4. /\ 1 \in 1 .. Len(toMaster) /\ toMaster' = Without(toMaster, 1) /\ toMaster[1] \in Frame
      /\ toMaster' \in Seq(Frame) /\ Len(toMaster') = Len(toMaster) - 1 /\ Len(toMaster) \in Nat
  BY <1>1, <1>2, TailFacts
<1>5. PICK f \in Frame :
        /\ toSlave' = Append(toSlave, f) /\ f.type = "DELAY_RESP"
        /\ f.of = toMaster[1].of /\ f.sequenceId = toMaster[1].sequenceId
  <2>1. PICK f : f = [toMaster[1] EXCEPT !.type = "DELAY_RESP"]
    OBVIOUS
  <2>2. f \in Frame /\ f.type = "DELAY_RESP" /\ f.of = toMaster[1].of
        /\ f.sequenceId = toMaster[1].sequenceId
    BY <1>4, <2>1 DEF Frame
  <2> QED
    BY <1>2, <2>1, <2>2
<1>6. /\ toSlave' \in Seq(Frame) /\ Len(toSlave') = Len(toSlave) + 1 /\ Len(toSlave) \in Nat
      /\ \A j \in 1 .. Len(toSlave) : toSlave'[j] = toSlave[j]
      /\ toSlave'[Len(toSlave) + 1] = f
  BY <1>1, <1>5, AppendFacts
<1>7. TypeOK' /\ SyncHeard' /\ Departure' /\ DelayAfterSync'
  BY <1>1, <1>2, <1>3, <1>4, <1>6 DEF IInv, TypeOK, SyncHeard, Departure, DelayAfterSync
<1>8. SyncsInOrder(toSlave, slave.sync_receive_time.of, fed.t2, requests, syncs, losses)'
  <2>1. /\ slave.sync_receive_time.of \in Int /\ fed.t2 \in Int /\ requests \in Int
        /\ syncs \in Int /\ losses \in Int
        /\ SyncsInOrder(toSlave, slave.sync_receive_time.of, fed.t2, requests, syncs, losses)
    <3>1. /\ slave.sync_receive_time.of \in Int /\ fed.t2 \in Int /\ requests \in Int
          /\ syncs \in Int /\ losses \in Int
      BY <1>1, CounterTypes
    <3> QED
      BY <3>1 DEF IInv
  <2>2. SyncsInOrder(toSlave', slave.sync_receive_time.of, fed.t2, requests, syncs, losses)
    BY <1>1, <1>5, <2>1, SyncsAppend
  <2> QED
    BY <1>2, <1>3, <2>2
<1>9. PICK used \in Int, n \in Int, lost \in Int :
        used = fed.t4 /\ n = requests /\ lost = losses /\ lost >= lost
  BY <1>1, FieldTypes
<1>10. RequestsInOrder(toMaster, fed.t4, requests, slave.sentDelayReqSequenceId, losses)'
  <2>1. RequestsInOrder(Without(toMaster, 1), used, n, slave.sentDelayReqSequenceId, lost)
    BY <1>1, <1>4, <1>9, RequestsWithout DEF IInv
  <2> QED
    BY <1>2, <1>3, <1>4, <1>9, <2>1
<1>11. AnswersInOrder(toSlave, toMaster, fed.t4, requests, slave.sentDelayReqSequenceId, losses)'
  <2>1. AnswersInOrder(Append(toSlave, f), Tail(toMaster), used, n,
                       slave.sentDelayReqSequenceId, lost)
    BY <1>1, <1>2, <1>5, <1>9, AnswersPassed DEF IInv
  <2> QED
    BY <1>2, <1>3, <1>5, <1>9, <2>1
<1>12. FollowUps'
  <2>1. restarts = 0 => Numbered'
    BY <1>1, <1>2, <1>5, NumbersAppend DEF IInv, FollowUps, Numbered
  <2>2. losses = 0 => Paired(toSlave')
    BY <1>1, <1>5, PairedAppend DEF IInv, FollowUps
  <2>3. losses = 0 => FirstPaired'
    <3>1. CASE toSlave = <<>>
      <4>1. toSlave'[1] = f
        BY <1>6, <3>1, EmptySeq
      <4> QED
        BY <1>5, <4>1 DEF FirstPaired
    <3>2. CASE toSlave # <<>>
      <4>1. toSlave'[1] = toSlave[1]
        BY <1>1, <1>6, <3>2, TailFacts
      <4> QED
        BY <1>2, <3>2, <4>1 DEF IInv, FollowUps, FirstPaired
    <3> QED
      BY <3>1, <3>2
  <2> QED
    BY <1>3, <2>1, <2>2, <2>3 DEF IInv, FollowUps
<1>13. InRoom'
  <2>1. InFlight' = InFlight
    <3>1. PICK a \in Nat, b \in Nat : a = Len(toSlave) /\ b = Len(toMaster)
      BY <1>1, FieldTypes
    <3>2. InFlight = a + b /\ InFlight' = a + 1 + (b - 1)
      BY <1>4, <1>6, <3>1 DEF InFlight
    <3> QED
      BY <3>2
  <2>2. \A i \in 1 .. Len(toSlave) : i \in 1 .. Len(toSlave') /\ toSlave'[i] = toSlave[i]
    BY <1>6
  <2> QED
    BY <2>1, <2>2 DEF IInv, InRoom
<1> QED
  BY <1>7, <1>8, <1>10, <1>11, <1>12, <1>13 DEF IInv

\* One frame, or two, are appended.
LEMMA TwoAppended ==
  ASSUME NEW T, NEW queue \in Seq(T), NEW f \in T, NEW g \in T
  PROVE  queue \o <<f>> = Append(queue, f) /\ queue \o <<f, g>> = Append(Append(queue, f), g)
<1>1. queue \o <<f>> = Append(queue, f)
  BY AppendIsConcat
<1>2. <<f>> \in Seq(T) /\ <<g>> \in Seq(T) /\ <<f, g>> = <<f>> \o <<g>>
  <2>1. <<f>> \in Seq(T) /\ <<g>> \in Seq(T)
    OBVIOUS
  <2>2. Append(<<f>>, g) = <<f>> \o <<g>>
    BY <2>1, AppendIsConcat
  <2>3. /\ Append(<<f>>, g) \in Seq(T) /\ Len(Append(<<f>>, g)) = 2
        /\ Append(<<f>>, g)[1] = f /\ Append(<<f>>, g)[2] = g
    <3>1. Len(<<f>>) = 1 /\ <<f>>[1] = f /\ 1 \in 1 .. 1
      OBVIOUS
    <3> QED
      BY <2>1, <3>1, AppendProperties
  <2>4. <<f, g>> \in Seq(T) /\ Len(<<f, g>>) = 2 /\ <<f, g>>[1] = f /\ <<f, g>>[2] = g
    OBVIOUS
  <2>5. \A i \in 1 .. 2 : Append(<<f>>, g)[i] = <<f, g>>[i]
    <3>1. \A i \in 1 .. 2 : i = 1 \/ i = 2
      OBVIOUS
    <3> QED
      BY <2>3, <2>4, <3>1
  <2>6. Append(<<f>>, g) = <<f, g>>
    BY <2>3, <2>4, <2>5, SeqEqual
  <2> QED
    BY <2>1, <2>2, <2>6
<1>3. Append(queue, f) \in Seq(T)
  BY AppendProperties
<1>4. Append(Append(queue, f), g) = (queue \o <<f>>) \o <<g>>
  BY <1>1, <1>3, AppendIsConcat
<1> QED
  BY <1>1, <1>2, <1>4, ConcatAssociative

\* The master sends an Announce.
LEMMA IssueAnnounceStep ==
  ASSUME IInv, IssueAnnounce
  PROVE  IInv'
<1>1. TypeOK /\ SyncHeard /\ slave \in Slave /\ toSlave \in Seq(Frame) /\ toMaster \in Seq(Frame)
  BY DEF IInv, TypeOK
<1>2. PICK f : f = [type |-> "ANNOUNCE", sequenceId |-> 0, of |-> 0]
  OBVIOUS
<1>3. f \in Frame /\ f.type = "ANNOUNCE" /\ toSlave' = Append(toSlave, f)
  <2>1. 0 \in Number /\ 0 \in UInteger16
    BY BoundAssumption, SeqAssumption DEF Number, UInteger16
  <2> QED
    BY <1>2, <2>1 DEF Frame, IssueAnnounce
<1>4. UNCHANGED <<slave, sentSyncSequenceId, toMaster, fed, fedHeard, syncs, requests,
                  losses, restarts, leaves, slaveSince, overlap, failures>>
  BY DEF IssueAnnounce, ends, marks, faults
<1>5. /\ toSlave' \in Seq(Frame) /\ Len(toSlave') = Len(toSlave) + 1 /\ Len(toSlave) \in Nat
      /\ \A j \in 1 .. Len(toSlave) : toSlave'[j] = toSlave[j]
      /\ toSlave'[Len(toSlave) + 1] = f
  BY <1>1, <1>3, AppendFacts
<1>6. TypeOK' /\ SyncHeard' /\ Departure' /\ DelayAfterSync'
      /\ RequestsInOrder(toMaster, fed.t4, requests, slave.sentDelayReqSequenceId, losses)'
  BY <1>1, <1>4, <1>5 DEF IInv, TypeOK, SyncHeard, Departure, DelayAfterSync
<1>7. SyncsInOrder(toSlave, slave.sync_receive_time.of, fed.t2, requests, syncs, losses)'
  <2>1. /\ slave.sync_receive_time.of \in Int /\ fed.t2 \in Int /\ requests \in Int
        /\ syncs \in Int /\ losses \in Int
        /\ SyncsInOrder(toSlave, slave.sync_receive_time.of, fed.t2, requests, syncs, losses)
    <3>1. /\ slave.sync_receive_time.of \in Int /\ fed.t2 \in Int /\ requests \in Int
          /\ syncs \in Int /\ losses \in Int
      BY <1>1, CounterTypes
    <3> QED
      BY <3>1 DEF IInv
  <2>2. SyncsInOrder(toSlave', slave.sync_receive_time.of, fed.t2, requests, syncs, losses)
    BY <1>1, <1>3, <2>1, SyncsAppend
  <2> QED
    BY <1>4, <2>2
<1>8. AnswersInOrder(toSlave, toMaster, fed.t4, requests, slave.sentDelayReqSequenceId, losses)'
  <2>1. /\ fed.t4 \in Int /\ requests \in Int /\ losses \in Int
        /\ AnswersInOrder(toSlave, toMaster, fed.t4, requests, slave.sentDelayReqSequenceId, losses)
    <3>1. fed.t4 \in Int /\ requests \in Int /\ losses \in Int
      BY <1>1, CounterTypes
    <3> QED
      BY <3>1 DEF IInv
  <2>2. AnswersInOrder(toSlave', toMaster, fed.t4, requests, slave.sentDelayReqSequenceId, losses)
    BY <1>1, <1>3, <2>1, AnswersAppend
  <2> QED
    BY <1>4, <2>2
<1>9. FollowUps'
  <2>1. restarts = 0 => Numbered'
    BY <1>1, <1>3, <1>4, NumbersAppend DEF IInv, FollowUps, Numbered
  <2>2. losses = 0 => Paired(toSlave')
    BY <1>1, <1>3, PairedAppend DEF IInv, FollowUps
  <2>3. losses = 0 => FirstPaired'
    <3>1. CASE toSlave = <<>>
      <4>1. toSlave'[1] = f
        BY <1>5, <3>1, EmptySeq
      <4> QED
        BY <1>3, <4>1 DEF FirstPaired
    <3>2. CASE toSlave # <<>>
      <4>1. toSlave'[1] = toSlave[1]
        BY <1>1, <1>5, <3>2, TailFacts
      <4> QED
        BY <1>4, <3>2, <4>1 DEF IInv, FollowUps, FirstPaired
    <3> QED
      BY <3>1, <3>2
  <2> QED
    BY <1>4, <2>1, <2>2, <2>3 DEF IInv, FollowUps
<1>10. InRoom'
  <2>1. PICK a \in Nat, b \in Nat, room \in Nat :
          a = Len(toSlave) /\ b = Len(toMaster) /\ room = Room
    BY <1>1, FieldTypes
  <2>2. a + b < room
    BY <2>1 DEF IssueAnnounce, InFlight
  <2>3. a + 1 + b <= room
    BY <2>2
  <2> QED
    BY <1>4, <1>5, <2>1, <2>3 DEF InRoom, InFlight
<1> QED
  BY <1>6, <1>7, <1>8, <1>9, <1>10 DEF IInv

\* The master sends a Sync, and its Follow_Up.
LEMMA IssueSyncStep ==
  ASSUME IInv, NEW stamped \in BOOLEAN, IssueSync(stamped)
  PROVE  IInv'
<1>1. TypeOK /\ SyncHeard /\ slave \in Slave /\ toSlave \in Seq(Frame) /\ toMaster \in Seq(Frame)
  BY DEF IInv, TypeOK
<1>2. PICK n \in Nat, heard \in Nat, used \in Nat, req \in Nat, lost \in Nat, max \in Nat, u4 \in Nat,
           id \in UInteger16 :
        /\ n = syncs /\ heard = slave.sync_receive_time.of /\ used = fed.t2 /\ req = requests
        /\ lost = losses /\ max = MaxRequests /\ u4 = fed.t4 /\ id = sentSyncSequenceId
  BY <1>1, FieldTypes DEF TypeOK
<1>3. /\ syncs' = n + 1 /\ sentSyncSequenceId' = (id + 1) % SeqMod
      /\ n < MaxSyncs /\ InFlight < Room /\ HeardInTime
      /\ UNCHANGED <<slave, toMaster, fed, fedHeard, requests, slaveSince, losses, restarts, leaves>>
      /\ overlap' = (overlap \/ InFlight > 0)
  BY <1>2 DEF IssueSync, faults
<1>4. PICK f, g :
        /\ f = [type |-> "SYNC", sequenceId |-> id, of |-> n + 1]
        /\ g = [type |-> "FOLLOW_UP", sequenceId |-> id, of |-> n + 1]
  OBVIOUS
<1>5. n + 1 \in Number /\ n + 1 \in 0 .. MaxSyncs
  BY <1>3, BoundAssumption DEF Number
<1>6. f \in Frame /\ g \in Frame
  BY <1>4, <1>5 DEF Frame
<1>7. toSlave' = toSlave \o (IF stamped THEN <<f, g>> ELSE <<f>>)
  BY <1>2, <1>3, <1>4 DEF IssueSync
<1> DEFINE first == Append(toSlave, f)
<1>8. /\ stamped => toSlave' = Append(first, g)
      /\ ~stamped => toSlave' = first
  BY <1>1, <1>6, <1>7, TwoAppended
<1>9. /\ first \in Seq(Frame) /\ Len(first) = Len(toSlave) + 1 /\ Len(toSlave) \in Nat
      /\ \A j \in 1 .. Len(toSlave) : first[j] = toSlave[j]
      /\ first[Len(toSlave) + 1] = f
  BY <1>1, <1>6, AppendFacts
<1>10. used <= n /\ heard <= n /\ req <= max + n
  BY <1>1, <1>2 DEF SyncHeard
<1>11. SyncsInOrder(first, heard, used, req, n + 1, lost)
  <2>1. Len(toSlave) < Room
    <3>1. PICK a \in Nat, b \in Nat : a = Len(toSlave) /\ b = Len(toMaster)
      BY <1>1, FieldTypes
    <3> QED
      BY <1>3, <3>1, BoundAssumption DEF InFlight
  <2>2. SyncsInOrder(toSlave, heard, used, req, n, lost)
    BY <1>2 DEF IInv
  <2>3. f.type = "SYNC" /\ f.of = n + 1 /\ req <= MaxRequests + n
    BY <1>2, <1>4, <1>10
  <2> QED
    BY <1>1, <1>6, <1>10, <2>1, <2>2, <2>3, SyncsSent
<1>12. AnswersInOrder(first, toMaster, u4, req, slave.sentDelayReqSequenceId, lost)
  <2>1. AnswersInOrder(toSlave, toMaster, u4, req, slave.sentDelayReqSequenceId, lost)
    BY <1>2 DEF IInv
  <2> QED
    BY <1>1, <1>4, <1>6, <2>1, AnswersAppend
<1>13. ASSUME restarts = 0
       PROVE  NumbersTell(first) /\ id = (n + 1 - 1) % SeqMod /\ (id + 1) % SeqMod = (n + 1) % SeqMod
  <2>1. Numbered /\ id = n % SeqMod
    BY <1>2, <1>13 DEF IInv, FollowUps, Numbered
  <2>2. n + 1 - 1 = n
    OBVIOUS
  <2>3. f.sequenceId = (f.of - 1) % SeqMod
    BY <1>4, <2>1, <2>2
  <2>4. NumbersTell(first)
    BY <1>1, <1>6, <2>1, <2>3, NumbersAppend DEF Numbered
  <2>5. ((n % SeqMod) + 1) % SeqMod = (n + 1) % SeqMod
    <3>1. PICK k \in Int : k = n
      OBVIOUS
    <3>2. ((k % SeqMod) + 1) % SeqMod = (k + 1) % SeqMod
      BY CountOn, SeqAssumption
    <3> QED
      BY <3>1, <3>2
  <2> QED
    BY <2>1, <2>2, <2>4, <2>5
<1>14. losses = 0 => Paired(first)
  BY <1>1, <1>4, <1>6, PairedAppend DEF IInv, FollowUps
<1>15. first # <<>> /\ Len(first) \in Nat /\ 1 \in 1 .. Len(first)
       /\ first[Len(first)].type = "SYNC" /\ first[Len(first)].of = n + 1
  BY <1>4, <1>9, EmptySeq
<1>16. losses = 0 /\ first[1].type = "FOLLOW_UP" /\ slave.portState = "SLAVE"
         => slave.waitingForFollow /\ slave.sync_receive_time.of = first[1].of
  <2>1. CASE toSlave = <<>>
    <3>1. first[1] = f
      BY <1>9, <2>1, EmptySeq
    <3> QED
      BY <1>4, <3>1
  <2>2. CASE toSlave # <<>>
    <3>1. first[1] = toSlave[1]
      BY <1>1, <1>9, <2>2, TailFacts
    <3> QED
      BY <2>2, <3>1 DEF IInv, FollowUps, FirstPaired
  <2> QED
    BY <2>1, <2>2
<1> HIDE DEF first
<1>17. /\ toSlave' \in Seq(Frame)
       /\ SyncsInOrder(toSlave', heard, used, req, n + 1, lost)
       /\ AnswersInOrder(toSlave', toMaster, u4, req, slave.sentDelayReqSequenceId, lost)
       /\ restarts = 0 => NumbersTell(toSlave')
       /\ losses = 0 => Paired(toSlave')
       /\ toSlave'[1] = first[1]
       /\ Len(toSlave') \in {Len(toSlave) + 1, Len(toSlave) + 2}
       /\ toSlave'[Len(toSlave) + 1] = f
  <2>1. CASE ~stamped
    BY <1>8, <1>9, <1>11, <1>12, <1>13, <1>14, <2>1
  <2>2. CASE stamped
    <3>1. /\ toSlave' = Append(first, g) /\ g.type = "FOLLOW_UP" /\ g.of = n + 1 /\ heard <= n + 1
          /\ g.sequenceId = id
      BY <1>4, <1>8, <1>10, <2>2
    <3>2. /\ toSlave' \in Seq(Frame) /\ Len(toSlave') = Len(first) + 1
          /\ \A j \in 1 .. Len(first) : toSlave'[j] = first[j]
      BY <1>6, <1>9, <3>1, AppendFacts
    <3>3. SyncsInOrder(toSlave', heard, used, req, n + 1, lost)
      <4>1. PICK m \in Int : m = n + 1
        OBVIOUS
      <4>2. SyncsInOrder(first, heard, used, req, m, lost)
        BY <1>11, <4>1
      <4>3. g.type # "SYNC" /\ g.of = m /\ heard <= m
        BY <3>1, <4>1
      <4>4. SyncsInOrder(Append(first, g), heard, used, req, m, lost)
        BY <1>6, <1>9, <4>2, <4>3, SyncsAppend
      <4>5. SyncsInOrder(toSlave', heard, used, req, m, lost)
        BY <3>1, <4>4
      <4> QED
        BY <4>1, <4>5
    <3>4. AnswersInOrder(toSlave', toMaster, u4, req, slave.sentDelayReqSequenceId, lost)
      BY <1>1, <1>6, <1>9, <1>12, <3>1, AnswersAppend
    <3>5. ASSUME restarts = 0
          PROVE  NumbersTell(toSlave')
      <4>1. NumbersTell(first) /\ id = (n + 1 - 1) % SeqMod
        BY <1>13, <3>5
      <4>2. g.sequenceId = (g.of - 1) % SeqMod
        BY <3>1, <4>1
      <4>3. NumbersTell(Append(first, g))
        BY <1>6, <1>9, <4>1, <4>2, NumbersAppend
      <4> QED
        BY <3>1, <4>3
    <3>6. losses = 0 => Paired(toSlave')
      BY <1>6, <1>9, <1>14, <1>15, <3>1, PairedAppend
    <3>7. toSlave'[1] = first[1] /\ toSlave'[Len(toSlave) + 1] = f
          /\ Len(toSlave') = Len(toSlave) + 2
      <4>1. Len(toSlave) + 1 \in 1 .. Len(first) /\ Len(first) + 1 = Len(toSlave) + 2
        BY <1>9
      <4> QED
        BY <1>9, <1>15, <3>2, <4>1
    <3> QED
      BY <3>2, <3>3, <3>4, <3>5, <3>6, <3>7
  <2> QED
    BY <2>1, <2>2
<1>18. TypeOK'
  <2>1. failures' \in 0 .. MaxFailures
    BY <1>1, HwAnswersType DEF IssueSync
  <2>2. sentSyncSequenceId' \in UInteger16
    <3>1. PICK m \in Int : m = id + 1
      BY SeqAssumption DEF UInteger16
    <3>2. m % SeqMod \in UInteger16
      BY Division, SeqAssumption DEF UInteger16
    <3> QED
      BY <1>3, <3>1, <3>2
  <2>3. overlap' \in BOOLEAN
    BY <1>1, <1>3 DEF TypeOK
  <2>4. syncs' \in 0 .. MaxSyncs
    BY <1>3, <1>5
  <2> QED
    BY <1>1, <1>3, <1>17, <2>1, <2>2, <2>3, <2>4 DEF TypeOK
<1>19. SyncsInOrder(toSlave, slave.sync_receive_time.of, fed.t2, requests, syncs, losses)'
       /\ AnswersInOrder(toSlave, toMaster, fed.t4, requests, slave.sentDelayReqSequenceId, losses)'
       /\ RequestsInOrder(toMaster, fed.t4, requests, slave.sentDelayReqSequenceId, losses)'
  BY <1>2, <1>3, <1>17 DEF IInv
<1>20. SyncHeard'
  <2>1. slave.waitingForFollow => n + 1 - heard < SeqMod
    <3>1. slave.waitingForFollow => n - heard < SeqMod - 1
      BY <1>2, <1>3 DEF HeardInTime
    <3> QED
      BY <3>1, SeqAssumption
  <2>2. PICK m \in Nat : m = n + 1
    OBVIOUS
  <2>3. heard <= m /\ used <= m /\ req <= max + m
    BY <1>10, <2>2
  <2>4. /\ slave.waitingForFollow => used < heard /\ req < max + heard
        /\ slave.got_sync =>
             /\ slave.t1.of = slave.t2.of /\ used < slave.t2.of
             /\ slave.t2.of <= heard /\ slave.t2.of <= slave.heard
             /\ slave.waitingForFollow => slave.t2.of < heard
    BY <1>1, <1>2 DEF SyncHeard
  <2>5. /\ slave' = slave /\ syncs' = m /\ fed'.t2 = used /\ requests' = req
        /\ heard = slave.sync_receive_time.of
    BY <1>2, <1>3, <2>2
  <2> QED
    BY <1>2, <2>1, <2>2, <2>3, <2>4, <2>5 DEF SyncHeard
<1>21. FollowUps'
  <2>1. restarts = 0 => Numbered'
    BY <1>3, <1>13, <1>17 DEF IInv, FollowUps, Numbered
  <2>2. losses = 0 => FirstPaired'
    BY <1>3, <1>16, <1>17 DEF FirstPaired
  <2> QED
    BY <1>3, <1>17, <2>1, <2>2 DEF IInv, FollowUps
<1>22. InRoom'
  <2>1. PICK a \in Nat, b \in Nat, room \in Nat :
          a = Len(toSlave) /\ b = Len(toMaster) /\ room = Room
    BY <1>1, FieldTypes
  <2>2. a + b < room
    BY <1>3, <2>1 DEF InFlight
  <2>3. a + 1 + b <= room /\ (a + 2 + b <= room \/ a + 2 + b = room + 1)
    BY <2>2
  <2>4. a + 1 \in 1 .. a + 1 /\ a + 1 \in 1 .. a + 2
    OBVIOUS
  <2>5. \E i \in 1 .. Len(toSlave') : toSlave'[i].type = "SYNC"
    BY <1>4, <1>17, <2>1, <2>4
  <2>6. InFlight' \in {a + 1 + b, a + 2 + b}
    BY <1>3, <1>17, <2>1 DEF InFlight
  <2> QED
    BY <2>1, <2>3, <2>5, <2>6 DEF InRoom
<1>23. Departure' /\ DelayAfterSync'
  BY <1>3 DEF IInv, Departure, DelayAfterSync
<1> QED
  BY <1>18, <1>19, <1>20, <1>21, <1>22, <1>23 DEF IInv

\* The port leaves PTP_SLAVE: what it knows stays.
LEMMA LeaveSlaveStep ==
  ASSUME IInv, LeaveSlave
  PROVE  IInv'
<1>1. TypeOK /\ slave \in Slave
  BY DEF IInv, TypeOK
<1>2. /\ UNCHANGED <<sentSyncSequenceId, toSlave, toMaster, fed, fedHeard, syncs, requests,
                     losses, restarts, slaveSince, overlap, failures>>
      /\ leaves < MaxLeaves /\ leaves' = leaves + 1
      /\ slave' = [slave EXCEPT !.portState = "OTHER", !.delayReqTimer = FALSE]
  BY DEF LeaveSlave, net, marks
<1>3. /\ slave' \in Slave /\ slave'.portState = "OTHER"
      /\ slave'.waitingForFollow = slave.waitingForFollow
      /\ slave'.sync_receive_time = slave.sync_receive_time
      /\ slave'.recvSyncSequenceId = slave.recvSyncSequenceId
      /\ slave'.sentDelayReqSequenceId = slave.sentDelayReqSequenceId
      /\ slave'.delayReq_tx_ts = slave.delayReq_tx_ts
      /\ slave'.t1 = slave.t1 /\ slave'.t2 = slave.t2 /\ slave'.heard = slave.heard
      /\ slave'.got_sync = slave.got_sync
  BY <1>1, <1>2 DEF Slave
<1>4. TypeOK'
  <2>1. leaves' \in 0 .. MaxLeaves
    <3>1. PICK n \in Nat : n = leaves
      BY <1>1, BoundAssumption DEF TypeOK
    <3>2. n < MaxLeaves /\ leaves' = n + 1
      BY <1>2, <3>1
    <3> QED
      BY <3>2, BoundAssumption
  <2> QED
    BY <1>1, <1>2, <1>3, <2>1 DEF TypeOK
<1>5. FollowUps'
  BY <1>2, <1>3 DEF IInv, FollowUps, Numbered, FirstPaired
<1>6. SyncHeard' /\ Departure' /\ DelayAfterSync' /\ InRoom'
  BY <1>2, <1>3 DEF IInv, SyncHeard, Departure, DelayAfterSync, InRoom, InFlight
<1> QED
  BY <1>2, <1>3, <1>4, <1>5, <1>6 DEF IInv

\* A frame is lost.
LEMMA LoseFrameStep ==
  ASSUME IInv, LoseFrame
  PROVE  IInv'
<1>1. TypeOK /\ slave \in Slave /\ toSlave \in Seq(Frame) /\ toMaster \in Seq(Frame)
  BY DEF IInv, TypeOK
<1>2. /\ UNCHANGED <<slave, sentSyncSequenceId, fed, fedHeard, syncs, requests, restarts, leaves,
                     slaveSince, overlap, failures>>
      /\ losses < MaxLosses /\ restarts = 0 /\ losses' = losses + 1
  BY DEF LoseFrame, marks
<1>3. PICK u2 \in Int, u4 \in Int, heard \in Int, n \in Int, req \in Int, lost \in Nat, lost2 \in Nat :
        /\ u2 = fed.t2 /\ u4 = fed.t4 /\ heard = slave.sync_receive_time.of /\ n = syncs
        /\ req = requests /\ lost = losses /\ lost2 = losses' /\ lost2 = lost + 1
        /\ lost2 >= lost /\ lost2 > lost /\ losses' \in 0 .. MaxLosses
  <2>1. /\ fed.t2 \in Int /\ fed.t4 \in Int /\ slave.sync_receive_time.of \in Int
        /\ syncs \in Int /\ requests \in Int
    BY <1>1, CounterTypes
  <2>2. PICK lost \in Nat : lost = losses
    BY <1>1, FieldTypes
  <2>3. PICK lost2 \in Nat : lost2 = losses' /\ lost2 = lost + 1 /\ lost2 \in 0 .. MaxLosses
    BY <1>2, <2>2, BoundAssumption
  <2>4. lost2 >= lost /\ lost2 > lost
    BY <2>3
  <2> QED
    BY <2>1, <2>2, <2>3, <2>4, Zenon
<1>4. /\ SyncsInOrder(toSlave, heard, u2, req, n, lost)
      /\ RequestsInOrder(toMaster, u4, req, slave.sentDelayReqSequenceId, lost)
      /\ AnswersInOrder(toSlave, toMaster, u4, req, slave.sentDelayReqSequenceId, lost)
  BY <1>3 DEF IInv
<1>5. PICK a \in Nat, b \in Nat, room \in Nat :
        a = Len(toSlave) /\ b = Len(toMaster) /\ room = Room /\ a + b <= room + 1
  <2>1. PICK a \in Nat, b \in Nat, room \in Nat :
          a = Len(toSlave) /\ b = Len(toMaster) /\ room = Room
    BY <1>1, FieldTypes
  <2>2. a + b <= room + 1
    BY <2>1 DEF IInv, InRoom, InFlight
  <2> QED
    BY <2>1, <2>2
<1>6. ASSUME NEW k \in 1 .. Len(toSlave), toSlave' = Without(toSlave, k), toMaster' = toMaster
      PROVE  /\ toSlave' \in Seq(Frame) /\ toMaster' \in Seq(Frame) /\ InFlight' <= Room
             /\ SyncsInOrder(toSlave', heard, u2, req, n, lost2)
             /\ RequestsInOrder(toMaster', u4, req, slave.sentDelayReqSequenceId, lost2)
             /\ AnswersInOrder(toSlave', toMaster', u4, req, slave.sentDelayReqSequenceId, lost2)
             /\ NumbersTell(toSlave) => NumbersTell(toSlave')
  <2>1. toSlave' \in Seq(Frame) /\ Len(toSlave') = a - 1
    BY <1>1, <1>5, <1>6, WithoutFacts
  <2>2. InFlight' <= Room
    <3>1. a - 1 + b <= room
      BY <1>5
    <3> QED
      BY <1>5, <1>6, <2>1, <3>1 DEF InFlight
  <2>3. SyncsInOrder(toSlave', heard, u2, req, n, lost2)
    BY <1>1, <1>3, <1>4, <1>6, SyncsWithout
  <2>4. AnswersInOrder(toSlave', toMaster, u4, req, slave.sentDelayReqSequenceId, lost2)
    BY <1>1, <1>3, <1>4, <1>6, AnswersWithout
  <2>5. RequestsInOrder(toMaster, u4, req, slave.sentDelayReqSequenceId, lost2)
    <3>1. ASSUME NEW i \in 1 .. Len(toMaster)
          PROVE  Outstanding(toMaster[i], Len(toMaster) - i, u4, req, slave.sentDelayReqSequenceId, lost2)
      <4>1. PICK after \in Int, after2 \in Int :
              after = Len(toMaster) - i /\ after2 = after
        BY <1>1, LenProperties
      <4>2. Outstanding(toMaster[i], after, u4, req, slave.sentDelayReqSequenceId, lost)
            /\ toMaster[i] \in Frame
        BY <1>1, <1>4, <4>1, FrameTypes DEF RequestsInOrder
      <4>3. after + lost <= after2 + lost2
        BY <1>3, <4>1
      <4>4. PICK f \in Frame : f = toMaster[i]
        BY <4>2
      <4>5. PICK next : next = slave.sentDelayReqSequenceId
        OBVIOUS
      <4>6. Outstanding(f, after, u4, req, next, lost)
        BY <4>2, <4>4, <4>5
      <4>7. Outstanding(f, after2, u4, req, next, lost2)
        BY <4>3, <4>6, StillOutstanding
      <4> QED
        BY <4>1, <4>4, <4>5, <4>7
    <3> QED
      BY <1>4, <3>1 DEF RequestsInOrder
  <2>6. NumbersTell(toSlave) => NumbersTell(toSlave')
    BY <1>1, <1>6, NumbersWithout
  <2> QED
    BY <1>1, <1>6, <2>1, <2>2, <2>3, <2>4, <2>5, <2>6
<1>7. ASSUME NEW k \in 1 .. Len(toMaster), toMaster' = Without(toMaster, k), toSlave' = toSlave
      PROVE  /\ toSlave' \in Seq(Frame) /\ toMaster' \in Seq(Frame) /\ InFlight' <= Room
             /\ SyncsInOrder(toSlave', heard, u2, req, n, lost2)
             /\ RequestsInOrder(toMaster', u4, req, slave.sentDelayReqSequenceId, lost2)
             /\ AnswersInOrder(toSlave', toMaster', u4, req, slave.sentDelayReqSequenceId, lost2)
             /\ NumbersTell(toSlave) => NumbersTell(toSlave')
  <2>1. toMaster' \in Seq(Frame) /\ Len(toMaster') = b - 1
    BY <1>1, <1>5, <1>7, WithoutFacts
  <2>2. InFlight' <= Room
    <3>1. a + (b - 1) <= room
      BY <1>5
    <3> QED
      BY <1>5, <1>7, <2>1, <3>1 DEF InFlight
  <2>3. SyncsInOrder(toSlave, heard, u2, req, n, lost2)
    <3>1. ASSUME NEW i \in 1 .. Len(toSlave), toSlave[i].type = "SYNC"
          PROVE  Expected(toSlave[i], Len(toSlave) - i, heard, u2, req, n, lost2)
      <4>1. PICK after \in Int : after = Len(toSlave) - i
        <5>1. Len(toSlave) \in Nat
          BY <1>1, LenProperties
        <5>2. i \in Int /\ Len(toSlave) \in Int
          BY <5>1
        <5>3. Len(toSlave) - i \in Int
          BY <5>2
        <5> QED
          BY <5>3, Zenon
      <4>2. Expected(toSlave[i], after, heard, u2, req, n, lost) /\ toSlave[i] \in Frame
        BY <1>1, <1>4, <3>1, <4>1, FrameTypes DEF SyncsInOrder
      <4>3. n <= n /\ lost <= lost2 /\ n - n <= after + lost2 - (after + lost)
        BY <1>3
      <4>4. Expected(toSlave[i], after, heard, u2, req, n, lost2)
        BY <4>2, <4>3, StillExpected
      <4> QED
        BY <4>1, <4>4
    <3> QED
      BY <1>4, <3>1 DEF SyncsInOrder
  <2>4. RequestsInOrder(toMaster', u4, req, slave.sentDelayReqSequenceId, lost2)
    BY <1>1, <1>3, <1>4, <1>7, RequestsWithout
  <2>5. AnswersInOrder(toSlave, toMaster', u4, req, slave.sentDelayReqSequenceId, lost2)
    <3>1. Len(toMaster) + lost <= Len(toMaster') + lost2
      BY <1>3, <1>5, <2>1
    <3>2. \A j \in 1 .. Len(toMaster') : \E i \in 1 .. Len(toMaster) : toMaster'[j].of = toMaster[i].of
      BY <1>1, <1>7, WithoutPlaces
    <3>3. PICK behind2 \in Seq(Frame) : behind2 = toMaster'
      BY <2>1
    <3>4. /\ Len(toMaster) + lost <= Len(behind2) + lost2
          /\ \A j \in 1 .. Len(behind2) : \E i \in 1 .. Len(toMaster) : behind2[j].of = toMaster[i].of
      BY <3>1, <3>2, <3>3
    <3>5. AnswersInOrder(toSlave, behind2, u4, req, slave.sentDelayReqSequenceId, lost2)
      BY <1>1, <1>4, <3>4, AnswersBehind
    <3> QED
      BY <3>3, <3>5
  <2> QED
    BY <1>1, <1>7, <2>1, <2>2, <2>3, <2>4, <2>5
<1>8. /\ toSlave' \in Seq(Frame) /\ toMaster' \in Seq(Frame) /\ InFlight' <= Room
      /\ SyncsInOrder(toSlave', heard, u2, req, n, lost2)
      /\ RequestsInOrder(toMaster', u4, req, slave.sentDelayReqSequenceId, lost2)
      /\ AnswersInOrder(toSlave', toMaster', u4, req, slave.sentDelayReqSequenceId, lost2)
      /\ NumbersTell(toSlave) => NumbersTell(toSlave')
  BY <1>6, <1>7 DEF LoseFrame
<1>9. TypeOK'
  BY <1>1, <1>2, <1>3, <1>8 DEF TypeOK
<1>10. FollowUps'
  <2>1. Numbered'
    BY <1>2, <1>8 DEF IInv, FollowUps, Numbered
  <2>2. losses' # 0 /\ restarts' = 0
    BY <1>2, <1>3
  <2> QED
    BY <2>1, <2>2 DEF FollowUps
<1>11. SyncHeard' /\ Departure' /\ DelayAfterSync' /\ InRoom'
  BY <1>2, <1>8 DEF IInv, SyncHeard, Departure, DelayAfterSync, InRoom
<1> QED
  BY <1>2, <1>3, <1>8, <1>9, <1>10, <1>11 DEF IInv

\* A daemon is started again.
LEMMA RestartStep ==
  ASSUME IInv, Restart
  PROVE  IInv'
<1>1. TypeOK /\ SyncHeard /\ slave \in Slave
  BY DEF IInv, TypeOK
<1>2. /\ UNCHANGED <<toMaster, fed, fedHeard, syncs, requests, losses, leaves, slaveSince, overlap,
                     failures>>
      /\ restarts < MaxRestarts /\ restarts' = restarts + 1 /\ losses = 0 /\ toMaster = <<>>
  BY DEF Restart, marks
<1>3. restarts' \in 0 .. MaxRestarts /\ restarts' # 0 /\ Len(toMaster) = 0
  BY <1>1, <1>2, BoundAssumption, EmptySeq DEF TypeOK
<1>4. 0 \in Number /\ 0 \in UInteger16
  BY BoundAssumption, SeqAssumption DEF Number, UInteger16
<1>5. CASE slave' = FreshSlave /\ toSlave' = <<>> /\ UNCHANGED sentSyncSequenceId
  <2>1. slave' \in Slave
    BY <1>4, <1>5 DEF FreshSlave, NoStamp, Slave, Stamp
  <2>2. toSlave' \in Seq(Frame) /\ Len(toSlave') = 0
    BY <1>5, EmptySeq
  <2>3. TypeOK'
    BY <1>1, <1>2, <1>3, <1>5, <2>1, <2>2 DEF TypeOK
  <2>4. /\ slave'.sync_receive_time.of = 0 /\ slave'.waitingForFollow = FALSE
        /\ slave'.got_sync = FALSE /\ slave'.delayReq_tx_ts.correct = FALSE
    BY <1>5 DEF FreshSlave, NoStamp
  <2>5. SyncHeard'
    <3>1. 0 <= syncs /\ fed.t2 <= syncs /\ requests <= MaxRequests + syncs
      BY <1>1, FieldTypes DEF SyncHeard
    <3>2. UNCHANGED <<fed, syncs, requests>>
      BY <1>2
    <3> QED
      BY <2>4, <3>1, <3>2 DEF SyncHeard
  <2>6. SyncsInOrder(toSlave, slave.sync_receive_time.of, fed.t2, requests, syncs, losses)'
        /\ RequestsInOrder(toMaster, fed.t4, requests, slave.sentDelayReqSequenceId, losses)'
        /\ AnswersInOrder(toSlave, toMaster, fed.t4, requests, slave.sentDelayReqSequenceId, losses)'
    BY <1>2, <1>3, <2>2 DEF SyncsInOrder, RequestsInOrder, AnswersInOrder
  <2>7. FollowUps'
    BY <1>2, <1>3, <1>5, <2>2 DEF FollowUps, Paired, FirstPaired
  <2>8. Departure' /\ DelayAfterSync'
    BY <1>2, <2>4 DEF IInv, Departure, DelayAfterSync
  <2>9. InRoom'
    BY <1>2, <1>3, <2>2, BoundAssumption DEF InRoom, InFlight
  <2> QED
    BY <2>3, <2>5, <2>6, <2>7, <2>8, <2>9 DEF IInv
<1>6. CASE sentSyncSequenceId' = 0 /\ UNCHANGED <<slave, toSlave>>
  <2>1. TypeOK'
    BY <1>1, <1>2, <1>3, <1>4, <1>6 DEF TypeOK
  <2>2. FollowUps'
    BY <1>2, <1>3, <1>6 DEF IInv, FollowUps, FirstPaired
  <2>3. SyncHeard' /\ Departure' /\ DelayAfterSync' /\ InRoom'
    BY <1>2, <1>6 DEF IInv, SyncHeard, Departure, DelayAfterSync, InRoom, InFlight
  <2> QED
    BY <1>2, <1>6, <2>1, <2>2, <2>3 DEF IInv
<1> QED
  BY <1>5, <1>6 DEF Restart

\* Every step keeps the invariant.
LEMMA NextStep == IInv /\ [Next]_vars => IInv'
<1> SUFFICES ASSUME IInv, [Next]_vars PROVE IInv'
  OBVIOUS
<1>1. ASSUME NEW stamped \in BOOLEAN, Receive(stamped)
      PROVE  IInv'
  BY <1>1, HandleSyncStep, HandleFollowUpStep, HandleDelayRespStep, IgnoreFrameStep,
     EnterSlaveStep, FallThroughToSlaveStep DEF Receive
<1>2. CASE UNCHANGED vars
  BY <1>2 DEF vars, ends, marks, faults, IInv, TypeOK, DelayAfterSync, SyncHeard, FollowUps,
              Numbered, FirstPaired, Departure, InRoom, InFlight
<1> QED
  BY <1>1, <1>2, IssueSyncStep, DelayReqTimeoutStep, IssueAnnounceStep, HandleDelayReqStep,
     LeaveSlaveStep, LoseFrameStep, RestartStep DEF Next

\* The invariant holds in every behaviour.
LEMMA Invariance == Spec => []IInv
BY InitInvariant, NextStep, PTL DEF Spec

-----------------------------------------------------------------------------
(* The invariant behind KeepsUp: how far the exchange of the last Sync has   *)
(* come, while nothing has gone wrong.                                      *)

\* Nothing has gone wrong so far, and each request was answered before the next
\* frame left.
Calm == ~overlap /\ losses = 0 /\ restarts = 0 /\ leaves = 0 /\ failures = 0

\* The servo has been fed one of the last n + 1 Syncs, if the slave was sent
\* more than n.
Near(n) == syncs <= slaveSince + n \/ fed.t1 >= syncs - n

\* The servo holds the last Sync, and waits for the answer to a request.
Holds ==
  /\ slave.got_sync /\ slave.t1.correct /\ slave.t2.correct
  /\ slave.t1.of = syncs

\* The last Sync was used, or its request had the number whose answer is never
\* accepted: then the next request has number 0.
Missed == slave.sentDelayReqSequenceId = 0
Settled ==
  \/ ~slave.got_sync /\ Near(0)
  \/ Holds /\ Missed /\ Near(1)

\* A new Sync was sent to a slave that was settled.
NewSync == slaveSince < syncs /\ (Near(1) \/ (Missed /\ Near(2)))

\* The request f is on its way, or its answer.
InExchange(f) ==
  /\ \/ ~slave.got_sync /\ Near(0)
     \/ Holds /\ slave.delayReq_tx_ts.correct
  /\ \/ f.sequenceId = slave.sentDelayReqSequenceId - 1
     \/ f.sequenceId = SeqMod - 1 /\ Missed /\ Near(1)

\* The frames of a queue from the n-th on are all announces.
AnnouncesFrom(queue, n) == \A i \in n .. Len(queue) : queue[i].type = "ANNOUNCE"

\* After an announce come announces only.
AnnouncesLast(queue) ==
  \A i, j \in 1 .. Len(queue) : i < j /\ queue[i].type = "ANNOUNCE" => queue[j].type = "ANNOUNCE"

\* The port has not been a slave yet.
NotYet ==
  /\ slave.portState = "OTHER" /\ ~slave.got_sync
  /\ toMaster = <<>> /\ AnnouncesLast(toSlave)

\* The stages of an exchange: nothing is on its way, the Sync is, its Follow_Up,
\* the Delay_Req, the Delay_Resp.
AtRest == toMaster = <<>> /\ AnnouncesFrom(toSlave, 1) /\ Settled
SyncComes ==
  /\ toMaster = <<>> /\ Len(toSlave) >= 2 /\ AnnouncesFrom(toSlave, 3) /\ NewSync
  /\ toSlave[1].type = "SYNC" /\ toSlave[2].type = "FOLLOW_UP"
  /\ toSlave[1].sequenceId = toSlave[2].sequenceId /\ toSlave[2].of = syncs
FollowUpComes ==
  /\ toMaster = <<>> /\ Len(toSlave) >= 1 /\ AnnouncesFrom(toSlave, 2) /\ NewSync
  /\ toSlave[1].type = "FOLLOW_UP" /\ toSlave[1].of = syncs
  /\ slave.waitingForFollow /\ slave.sync_receive_time.correct
  /\ slave.recvSyncSequenceId = toSlave[1].sequenceId
RequestComes ==
  /\ Len(toMaster) = 1 /\ AnnouncesFrom(toSlave, 1) /\ InExchange(toMaster[1])
AnswerComes ==
  /\ toMaster = <<>>
  /\ \E i \in 1 .. Len(toSlave) :
       /\ toSlave[i].type = "DELAY_RESP" /\ InExchange(toSlave[i])
       /\ \A j \in 1 .. Len(toSlave) : j # i => toSlave[j].type = "ANNOUNCE"

\* How far the port has come; the second holds while it is calm.
Course ==
  \/ NotYet
  \/ /\ slave.portState = "SLAVE"
     /\ AtRest \/ SyncComes \/ FollowUpComes \/ RequestComes \/ AnswerComes
Progress == slaveSince <= syncs /\ (Calm => Course)

\* Taking the first frame leaves the announces behind it.
LEMMA AnnouncesTail ==
  ASSUME NEW queue \in Seq(Frame), queue # <<>>, NEW n \in Nat \ {0}, AnnouncesFrom(queue, n + 1)
  PROVE  AnnouncesFrom(Tail(queue), n)
<1> SUFFICES ASSUME NEW i \in n .. Len(Tail(queue)) PROVE Tail(queue)[i].type = "ANNOUNCE"
  BY DEF AnnouncesFrom
<1>1. /\ Len(Tail(queue)) = Len(queue) - 1 /\ Len(queue) \in Nat
      /\ \A j \in 1 .. Len(queue) - 1 : Tail(queue)[j] = queue[j + 1]
  BY TailFacts
<1>2. i \in 1 .. Len(queue) - 1 /\ i + 1 \in n + 1 .. Len(queue)
  BY <1>1
<1> QED
  BY <1>1, <1>2 DEF AnnouncesFrom

\* So does sending an announce.
LEMMA AnnouncesAppend ==
  ASSUME NEW queue \in Seq(Frame), NEW f \in Frame, f.type = "ANNOUNCE", NEW n \in Nat \ {0},
         AnnouncesFrom(queue, n)
  PROVE  AnnouncesFrom(Append(queue, f), n)
<1> SUFFICES ASSUME NEW i \in n .. Len(Append(queue, f)) PROVE Append(queue, f)[i].type = "ANNOUNCE"
  BY DEF AnnouncesFrom
<1>1. /\ Len(Append(queue, f)) = Len(queue) + 1 /\ Len(queue) \in Nat
      /\ \A j \in 1 .. Len(queue) : Append(queue, f)[j] = queue[j]
      /\ Append(queue, f)[Len(queue) + 1] = f
  BY AppendFacts
<1>2. i = Len(queue) + 1 \/ (i \in 1 .. Len(queue) /\ i \in n .. Len(queue))
  BY <1>1
<1> QED
  BY <1>1, <1>2 DEF AnnouncesFrom

\* The stage of an exchange shows in the first frame that a slave takes.
LEMMA FirstFrame ==
  ASSUME toSlave \in Seq(Frame), toSlave # <<>>, slave.portState = "SLAVE", Course
  PROVE  /\ toSlave[1].type = "SYNC" => SyncComes
         /\ toSlave[1].type = "FOLLOW_UP" => FollowUpComes
         /\ toSlave[1].type = "DELAY_RESP" =>
              toMaster = <<>> /\ InExchange(toSlave[1]) /\ AnnouncesFrom(toSlave, 2)
         /\ toSlave[1].type = "ANNOUNCE" => AtRest \/ RequestComes \/ AnswerComes
         /\ toSlave[1].type # "DELAY_REQ"
<1>1. 1 \in 1 .. Len(toSlave) /\ Len(toSlave) \in Nat
  BY TailFacts
<1>2. AtRest \/ SyncComes \/ FollowUpComes \/ RequestComes \/ AnswerComes
  BY DEF Course, NotYet
<1>3. CASE AtRest \/ RequestComes
  BY <1>1, <1>3 DEF AtRest, RequestComes, AnnouncesFrom
<1>4. CASE SyncComes \/ FollowUpComes
  BY <1>4 DEF SyncComes, FollowUpComes
<1>5. CASE AnswerComes
  <2>1. PICK i \in 1 .. Len(toSlave) :
          /\ toSlave[i].type = "DELAY_RESP" /\ InExchange(toSlave[i])
          /\ \A j \in 1 .. Len(toSlave) : j # i => toSlave[j].type = "ANNOUNCE"
    BY <1>5 DEF AnswerComes
  <2>2. CASE i = 1
    <3>1. \A j \in 2 .. Len(toSlave) : j \in 1 .. Len(toSlave) /\ j # 1
      BY <1>1
    <3> QED
      BY <1>5, <2>1, <2>2, <3>1 DEF AnswerComes, AnnouncesFrom
  <2>3. CASE i # 1
    BY <1>1, <1>5, <2>1, <2>3
  <2> QED
    BY <2>2, <2>3
<1> QED
  BY <1>2, <1>3, <1>4, <1>5

\* A timestamp or a calibration that is missing is a failure.
LEMMA CalmAnswers ==
  ASSUME TypeOK, NEW ok \in BOOLEAN, HwAnswers(ok), failures' = 0
  PROVE  ok = TRUE /\ failures = 0
BY BoundAssumption DEF TypeOK, HwAnswers

\* The slave hears the Sync.
LEMMA HandleSyncCourse ==
  ASSUME TypeOK, Calm => Course, NEW stamped \in BOOLEAN, HandleSync(stamped), Calm'
  PROVE  Course'
<1>1. /\ toSlave \in Seq(Frame) /\ slave \in Slave
      /\ UNCHANGED <<toMaster, fed, syncs, overlap, slaveSince, losses, restarts, leaves>>
      /\ toSlave # <<>> /\ toSlave' = Tail(toSlave) /\ Head(toSlave).type = "SYNC"
      /\ slave.portState = "SLAVE" /\ HwAnswers(stamped)
  BY DEF TypeOK, HandleSync, Takes, marks, faults
<1>2. stamped = TRUE /\ Calm
  BY <1>1, CalmAnswers DEF Calm
<1>3. /\ Head(toSlave) = toSlave[1] /\ Len(toSlave') = Len(toSlave) - 1 /\ Len(toSlave) \in Nat
      /\ \A j \in 1 .. Len(toSlave) - 1 : toSlave'[j] = toSlave[j + 1]
  BY <1>1, TailFacts
<1>4. SyncComes
  BY <1>1, <1>2, <1>3, FirstFrame
<1>5. toSlave'[1] = toSlave[2] /\ Len(toSlave') >= 1
  BY <1>3, <1>4 DEF SyncComes
<1>6. AnnouncesFrom(toSlave', 2)
  BY <1>1, <1>4, AnnouncesTail DEF SyncComes
<1>7. /\ slave'.portState = "SLAVE" /\ slave'.waitingForFollow = TRUE
      /\ slave'.sync_receive_time.correct = TRUE
      /\ slave'.recvSyncSequenceId = toSlave[1].sequenceId
      /\ slave'.sentDelayReqSequenceId = slave.sentDelayReqSequenceId
  BY <1>1, <1>2, <1>3 DEF HandleSync, Slave
<1>8. NewSync'
  BY <1>1, <1>4, <1>7 DEF SyncComes, NewSync, Near, Missed
<1> QED
  BY <1>1, <1>4, <1>5, <1>6, <1>7, <1>8 DEF Course, FollowUpComes, SyncComes

\* The numbers of two requests in turn: the second of two is never one whose
\* answer is ignored.
LEMMA NextNumber ==
  ASSUME NEW id \in UInteger16
  PROVE  \/ id = ((id + 1) % SeqMod) - 1
         \/ id = SeqMod - 1 /\ (id + 1) % SeqMod = 0 /\ id # 0
<1>1. id \in Int /\ SeqMod \in Int /\ 0 <= id /\ id < SeqMod /\ SeqMod > 1
  BY SeqAssumption, WrapAssumption DEF UInteger16
<1>2. CASE id + 1 < SeqMod
  <2>1. (id + 1) % SeqMod = id + 1
    BY <1>1, <1>2, SmallRemainder
  <2> QED
    BY <1>1, <2>1
<1>3. CASE id + 1 = SeqMod
  <2>1. SeqMod % SeqMod = 0
    BY <1>1
  <2> QED
    BY <1>1, <1>3, <2>1
<1> QED
  BY <1>1, <1>2, <1>3

\* A request that the slave s sends with a timestamp, when nothing else is on
\* its way: its servo is settled, or holds a Sync that is new.
LEMMA RequestCourse ==
  ASSUME TypeOK, NEW s \in Slave, IssueDelayReq(s, TRUE), requests + 1 \in Number,
         toMaster = <<>>, s.portState = "SLAVE", UNCHANGED <<fed, syncs, slaveSince>>,
         \/ ~s.got_sync /\ Near(0)
         \/ s.got_sync /\ s.t1.correct /\ s.t2.correct /\ s.t1.of = syncs,
         Near(1) \/ s.sentDelayReqSequenceId = 0,
         AnnouncesFrom(toSlave', 1)
  PROVE  Course'
<1>1. toMaster \in Seq(Frame) /\ TRUE \in BOOLEAN
  BY DEF TypeOK
<1>2. /\ slave'.delayReq_tx_ts.correct = TRUE
      /\ slave'.sentDelayReqSequenceId = (s.sentDelayReqSequenceId + 1) % SeqMod
      /\ slave'.got_sync = s.got_sync /\ slave'.t1 = s.t1 /\ slave'.t2 = s.t2
      /\ slave'.portState = "SLAVE" /\ s.sentDelayReqSequenceId \in UInteger16
  BY <1>1, RequestFields
<1>3. PICK f \in Frame : toMaster' = Append(toMaster, f) /\ f.sequenceId = s.sentDelayReqSequenceId
  BY <1>1, RequestFields
<1>4. Len(toMaster') = 1 /\ toMaster'[1] = f
  <2>1. Len(toMaster) = 0
    BY EmptySeq
  <2> QED
    BY <1>1, <1>3, <2>1, AppendFacts
<1>5. \/ f.sequenceId = slave'.sentDelayReqSequenceId - 1
      \/ f.sequenceId = SeqMod - 1 /\ Missed' /\ Near(1)'
  BY <1>2, <1>3, NextNumber DEF Missed, Near
<1>6. InExchange(f)'
  BY <1>2, <1>5 DEF InExchange, Holds, Near
<1>7. RequestComes'
  BY <1>4, <1>6 DEF RequestComes, InExchange
<1> QED
  BY <1>2, <1>7 DEF Course

\* The Follow_Up is used and a request sent.
LEMMA HandleFollowUpCourse ==
  ASSUME TypeOK, Calm => Course, NEW stamped \in BOOLEAN, HandleFollowUp(stamped), Calm',
         requests + 1 \in Number
  PROVE  Course'
<1>1. /\ toSlave \in Seq(Frame) /\ slave \in Slave
      /\ UNCHANGED <<fed, syncs, overlap, slaveSince, losses, restarts, leaves>>
      /\ toSlave # <<>> /\ toSlave' = Tail(toSlave) /\ Head(toSlave).type = "FOLLOW_UP"
      /\ slave.portState = "SLAVE" /\ HwAnswers(stamped)
  BY DEF TypeOK, HandleFollowUp, Takes, marks, faults
<1>2. stamped = TRUE /\ Calm
  BY <1>1, CalmAnswers DEF Calm
<1>3. Head(toSlave) = toSlave[1] /\ toSlave[1].of \in Number
  BY <1>1, TailFacts, FrameTypes
<1>4. FollowUpComes
  BY <1>1, <1>2, <1>3, FirstFrame
<1>5. PICK s : s = [slave EXCEPT
         !.waitingForFollow = FALSE, !.t1 = [of |-> Head(toSlave).of, correct |-> TRUE],
         !.t2 = slave.sync_receive_time, !.got_sync = TRUE]
  OBVIOUS
<1>6. IssueDelayReq(s, TRUE)
  BY <1>2, <1>5 DEF HandleFollowUp
<1>7. [of |-> Head(toSlave).of, correct |-> TRUE] \in Stamp
  BY <1>3 DEF Stamp
<1>8. s \in Slave
  BY <1>1, <1>5, <1>7 DEF Slave
<1>9. /\ s.portState = "SLAVE" /\ s.got_sync = TRUE /\ s.t2 = slave.sync_receive_time
      /\ s.t1.correct = TRUE /\ s.t1.of = toSlave[1].of
      /\ s.sentDelayReqSequenceId = slave.sentDelayReqSequenceId
  BY <1>1, <1>3, <1>5 DEF Slave
<1>10. AnnouncesFrom(toSlave', 1)
  BY <1>1, <1>4, AnnouncesTail DEF FollowUpComes
<1>11. Near(1) \/ s.sentDelayReqSequenceId = 0
  BY <1>4, <1>9 DEF FollowUpComes, NewSync, Missed
<1>12. toMaster = <<>> /\ s.t2.correct /\ s.t1.of = syncs
  BY <1>4, <1>9 DEF FollowUpComes
<1> QED
  BY <1>1, <1>6, <1>8, <1>9, <1>10, <1>11, <1>12, RequestCourse

\* The delayReq timer sends a request, and nothing else is on its way.
LEMMA DelayReqTimeoutCourse ==
  ASSUME TypeOK, Calm => Course, NEW stamped \in BOOLEAN, DelayReqTimeout(stamped), Calm',
         requests + 1 \in Number
  PROVE  Course'
<1>1. /\ toSlave \in Seq(Frame) /\ toMaster \in Seq(Frame) /\ slave \in Slave
      /\ UNCHANGED <<toSlave, fed, syncs, slaveSince, losses, restarts, leaves>>
      /\ slave.portState = "SLAVE" /\ HwAnswers(stamped) /\ IssueDelayReq(slave, stamped)
      /\ overlap' = (overlap \/ InFlight > 0)
  BY DEF TypeOK, DelayReqTimeout, faults
<1>2. stamped = TRUE /\ Calm /\ ~(InFlight > 0)
  BY <1>1, CalmAnswers DEF Calm
<1>3. toSlave = <<>> /\ toMaster = <<>> /\ Len(toSlave) = 0 /\ Len(toMaster) = 0
  <2>1. Len(toSlave) \in Nat /\ Len(toMaster) \in Nat
    BY <1>1, LenProperties
  <2>2. Len(toSlave) = 0 /\ Len(toMaster) = 0
    BY <1>2, <2>1 DEF InFlight
  <2> QED
    BY <1>1, <2>2, EmptySeq
<1>4. Settled
  BY <1>1, <1>2, <1>3 DEF Course, NotYet, AtRest, SyncComes, FollowUpComes, RequestComes, AnswerComes
<1>5. Near(0) => Near(1)
  <2>1. syncs \in Int /\ slaveSince \in Int /\ fed.t1 \in Int
    BY FieldTypes, BoundAssumption DEF TypeOK
  <2> QED
    BY <2>1 DEF Near
<1>6. AnnouncesFrom(toSlave', 1)
  BY <1>1, <1>3 DEF AnnouncesFrom
<1>7. Near(1) \/ slave.sentDelayReqSequenceId = 0
  BY <1>4, <1>5 DEF Settled, Missed
<1> QED
  BY <1>1, <1>2, <1>3, <1>4, <1>6, <1>7, RequestCourse DEF Settled, Holds

\* The answer is accepted.
LEMMA HandleDelayRespCourse ==
  ASSUME TypeOK, Calm => Course, HandleDelayResp, Calm'
  PROVE  Course'
<1>1. /\ toSlave \in Seq(Frame) /\ slave \in Slave
      /\ UNCHANGED <<toMaster, syncs, slaveSince, overlap, losses, restarts, leaves, failures>>
      /\ toSlave # <<>> /\ toSlave' = Tail(toSlave) /\ Head(toSlave).type = "DELAY_RESP"
      /\ slave.portState = "SLAVE"
      /\ WrServoUpdate(slave.delayReq_tx_ts, Head(toSlave).of)
  BY DEF TypeOK, HandleDelayResp, Takes, ends, marks, faults
<1>2. Calm /\ Head(toSlave) = toSlave[1]
  BY <1>1, TailFacts DEF Calm
<1>3. toMaster = <<>> /\ InExchange(toSlave[1]) /\ AnnouncesFrom(toSlave, 2)
  BY <1>1, <1>2, FirstFrame
<1>4. AnnouncesFrom(toSlave', 1)
  BY <1>1, <1>3, AnnouncesTail
<1>5. CASE ~slave.got_sync /\ Near(0)
  <2>1. UNCHANGED <<fed, slave>>
    BY <1>1, <1>5 DEF WrServoUpdate
  <2> QED
    BY <1>1, <1>3, <1>4, <1>5, <2>1 DEF Course, AtRest, Settled, Near
<1>6. CASE Holds /\ slave.delayReq_tx_ts.correct
  <2>1. fed'.t1 = syncs /\ slave' = [slave EXCEPT !.got_sync = FALSE]
    BY <1>1, <1>6 DEF WrServoUpdate, Holds
  <2>2. ~slave'.got_sync /\ slave'.portState = "SLAVE"
    BY <1>1, <2>1 DEF Slave
  <2>3. syncs' = syncs /\ syncs \in Int
    BY <1>1, FieldTypes
  <2>4. Near(0)'
    BY <2>1, <2>3 DEF Near
  <2> QED
    BY <1>1, <1>3, <1>4, <2>2, <2>4 DEF Course, AtRest, Settled
<1> QED
  BY <1>3, <1>5, <1>6 DEF InExchange

\* A frame is ignored: before the port is a slave, or an announce, or an answer
\* whose number was not accepted.
LEMMA IgnoreFrameCourse ==
  ASSUME TypeOK, Calm => Course, IgnoreFrame, Calm'
  PROVE  Course'
<1>1. /\ toSlave \in Seq(Frame) /\ slave \in Slave
      /\ UNCHANGED <<slave, toMaster, fed, syncs, slaveSince, overlap, losses, restarts, leaves,
                     failures>>
      /\ toSlave # <<>> /\ toSlave' = Tail(toSlave)
  BY DEF TypeOK, IgnoreFrame, ends, marks, faults
<1>2. /\ Calm /\ Course /\ Head(toSlave) = toSlave[1] /\ toSlave[1] \in Frame
      /\ Len(toSlave') = Len(toSlave) - 1 /\ Len(toSlave) \in Nat /\ 1 \in 1 .. Len(toSlave)
      /\ \A j \in 1 .. Len(toSlave) - 1 : toSlave'[j] = toSlave[j + 1]
  BY <1>1, TailFacts DEF Calm
<1>3. CASE NotYet
  <2>1. AnnouncesLast(toSlave')
    <3> SUFFICES ASSUME NEW i \in 1 .. Len(toSlave'), NEW j \in 1 .. Len(toSlave'),
                        i < j, toSlave'[i].type = "ANNOUNCE"
                 PROVE  toSlave'[j].type = "ANNOUNCE"
      BY DEF AnnouncesLast
    <3>1. /\ toSlave'[i] = toSlave[i + 1] /\ toSlave'[j] = toSlave[j + 1] /\ i + 1 < j + 1
          /\ i + 1 \in 1 .. Len(toSlave) /\ j + 1 \in 1 .. Len(toSlave)
      BY <1>2
    <3> QED
      BY <1>3, <3>1 DEF NotYet, AnnouncesLast
  <2> QED
    BY <1>1, <1>3, <2>1 DEF Course, NotYet
<1>4. CASE slave.portState = "SLAVE"
  <2>1. \/ toSlave[1].type = "FOLLOW_UP" /\ ~Awaited(toSlave[1])
        \/ toSlave[1].type = "DELAY_RESP" /\ ~Answers(toSlave[1])
        \/ toSlave[1].type = "ANNOUNCE"
    BY <1>2, <1>4 DEF IgnoreFrame
  <2>2. CASE toSlave[1].type = "FOLLOW_UP" /\ ~Awaited(toSlave[1])
    BY <1>1, <1>2, <1>4, <2>2, FirstFrame DEF FollowUpComes, Awaited
  <2>3. CASE toSlave[1].type = "DELAY_RESP" /\ ~Answers(toSlave[1])
    <3>1. toMaster = <<>> /\ InExchange(toSlave[1]) /\ AnnouncesFrom(toSlave, 2)
      BY <1>1, <1>2, <1>4, <2>3, FirstFrame
    <3>2. AnnouncesFrom(toSlave', 1)
      BY <1>1, <3>1, AnnouncesTail
    <3>3. Settled
      BY <2>3, <3>1 DEF InExchange, Answers, Settled
    <3> QED
      BY <1>1, <1>4, <3>1, <3>2, <3>3 DEF Course, AtRest, Settled, Holds, Missed, Near
  <2>4. CASE toSlave[1].type = "ANNOUNCE"
    <3>1. AtRest \/ RequestComes \/ AnswerComes
      BY <1>1, <1>2, <1>4, <2>4, FirstFrame
    <3>2. CASE AtRest \/ RequestComes
      <4>1. AnnouncesFrom(toSlave', 1)
        <5>1. AnnouncesFrom(toSlave, 2)
          BY <1>2, <3>2 DEF AtRest, RequestComes, AnnouncesFrom
        <5> QED
          BY <1>1, <5>1, AnnouncesTail
      <4>2. AtRest => AtRest'
        BY <1>1, <4>1 DEF AtRest, Settled, Holds, Missed, Near
      <4>3. RequestComes => RequestComes'
        BY <1>1, <4>1 DEF RequestComes, InExchange, Holds, Missed, Near
      <4> QED
        BY <1>1, <1>4, <3>2, <4>2, <4>3 DEF Course
    <3>3. CASE AnswerComes
      <4>1. PICK i \in 1 .. Len(toSlave) :
              /\ toSlave[i].type = "DELAY_RESP" /\ InExchange(toSlave[i])
              /\ \A j \in 1 .. Len(toSlave) : j # i => toSlave[j].type = "ANNOUNCE"
        BY <3>3 DEF AnswerComes
      <4>2. /\ i - 1 \in 1 .. Len(toSlave') /\ toSlave'[i - 1] = toSlave[i]
            /\ \A j \in 1 .. Len(toSlave') : toSlave'[j] = toSlave[j + 1] /\ j + 1 \in 1 .. Len(toSlave)
        <5>1. i # 1
          BY <2>4, <4>1
        <5> QED
          BY <1>2, <5>1
      <4>3. \A j \in 1 .. Len(toSlave') : j # i - 1 => toSlave'[j].type = "ANNOUNCE"
        BY <4>1, <4>2
      <4>4. PICK f : f = toSlave[i]
        OBVIOUS
      <4>5. InExchange(f)'
        BY <1>1, <4>1, <4>4 DEF InExchange, Holds, Missed, Near
      <4>6. InExchange(toSlave[i - 1])'
        BY <4>2, <4>4, <4>5 DEF InExchange
      <4>7. AnswerComes'
        BY <1>1, <3>3, <4>1, <4>2, <4>3, <4>6 DEF AnswerComes
      <4> QED
        BY <1>1, <1>4, <4>7 DEF Course
    <3> QED
      BY <3>1, <3>2, <3>3
  <2> QED
    BY <2>1, <2>2, <2>3, <2>4
<1> QED
  BY <1>2, <1>3, <1>4 DEF Course

\* The port becomes a slave, in both ways, once the announce has come.
LEMMA BecomesSlaveCourse ==
  ASSUME TypeOK, Calm => Course, NEW stamped \in BOOLEAN,
         EnterSlave(stamped) \/ FallThroughToSlave, Calm'
  PROVE  Course'
<1>1. /\ toSlave \in Seq(Frame) /\ slave \in Slave
      /\ UNCHANGED <<toMaster, fed, syncs, overlap, losses, restarts, leaves>>
      /\ toSlave # <<>> /\ toSlave' = Tail(toSlave) /\ Head(toSlave).type = "ANNOUNCE"
      /\ slave.portState = "OTHER" /\ slaveSince' = syncs
  BY DEF TypeOK, EnterSlave, FallThroughToSlave, Takes, faults
<1>2. failures = 0
  BY CalmAnswers DEF EnterSlave, FallThroughToSlave, Calm
<1>3. Calm /\ Head(toSlave) = toSlave[1] /\ 1 \in 1 .. Len(toSlave) /\ Len(toSlave) \in Nat
  BY <1>1, <1>2, TailFacts DEF Calm
<1>4. NotYet
  BY <1>1, <1>3 DEF Course
<1>5. AnnouncesFrom(toSlave', 1)
  <2>1. \A i \in 2 .. Len(toSlave) : i \in 1 .. Len(toSlave) /\ 1 < i
    OBVIOUS
  <2>2. AnnouncesFrom(toSlave, 2)
    BY <1>1, <1>3, <1>4, <2>1 DEF NotYet, AnnouncesLast, AnnouncesFrom
  <2> QED
    BY <1>1, <2>2, AnnouncesTail
<1>6. slave'.portState = "SLAVE" /\ ~slave'.got_sync
  <2>1. CASE EnterSlave(stamped)
    <3>1. ~slave.got_sync
      BY <1>4 DEF NotYet
    <3>2. slave'.portState = "SLAVE" /\ slave'.got_sync = (slave.got_sync /\ ~stamped)
      BY <1>1, <2>1 DEF EnterSlave, Slave
    <3> QED
      BY <3>1, <3>2
  <2>2. CASE FallThroughToSlave
    BY <1>1, <1>4, <2>2 DEF FallThroughToSlave, Slave, NotYet
  <2> QED
    BY <2>1, <2>2
<1>7. Near(0)'
  <2>1. slaveSince' = syncs' /\ syncs \in Int /\ syncs' = syncs
    BY <1>1, FieldTypes
  <2> QED
    BY <2>1 DEF Near
<1> QED
  BY <1>1, <1>4, <1>5, <1>6, <1>7 DEF Course, NotYet, AtRest, Settled

\* The master answers the request.
LEMMA HandleDelayReqCourse ==
  ASSUME TypeOK, Calm => Course, HandleDelayReq, Calm'
  PROVE  Course'
<1>1. /\ toSlave \in Seq(Frame) /\ toMaster \in Seq(Frame)
      /\ UNCHANGED <<slave, fed, syncs, slaveSince, overlap, losses, restarts, leaves, failures>>
      /\ toMaster # <<>> /\ toMaster' = Tail(toMaster)
  BY DEF TypeOK, HandleDelayReq, ends, marks, faults
<1>2. Calm /\ Head(toMaster) = toMaster[1] /\ toMaster[1] \in Frame
  BY <1>1, TailFacts DEF Calm
<1>3. slave.portState = "SLAVE" /\ RequestComes
  BY <1>1, <1>2 DEF Course, NotYet, AtRest, SyncComes, FollowUpComes, AnswerComes
<1>4. toMaster' = <<>>
  <2>1. Len(toMaster') = 0 /\ toMaster' \in Seq(Frame)
    BY <1>1, <1>3, TailFacts DEF RequestComes
  <2> QED
    BY <2>1, EmptySeq
<1>5. PICK f : f = [Head(toMaster) EXCEPT !.type = "DELAY_RESP"]
  OBVIOUS
<1>6. f \in Frame /\ f.type = "DELAY_RESP" /\ f.sequenceId = toMaster[1].sequenceId
  BY <1>2, <1>5 DEF Frame
<1>7. toSlave' = Append(toSlave, f)
  BY <1>5 DEF HandleDelayReq
<1>8. /\ Len(toSlave') = Len(toSlave) + 1 /\ Len(toSlave) \in Nat
      /\ \A j \in 1 .. Len(toSlave) : toSlave'[j] = toSlave[j]
      /\ toSlave'[Len(toSlave) + 1] = f
  BY <1>1, <1>6, <1>7, AppendFacts
<1>9. InExchange(f)'
  <2>1. InExchange(toMaster[1])
    BY <1>3 DEF RequestComes
  <2> QED
    BY <1>1, <1>6, <2>1 DEF InExchange, Holds, Missed, Near
<1>10. PICK n : n = Len(toSlave) + 1
  OBVIOUS
<1>11. n \in 1 .. Len(toSlave') /\ toSlave'[n] = f
  BY <1>8, <1>10
<1>12. \A j \in 1 .. Len(toSlave') : j # n => toSlave'[j].type = "ANNOUNCE"
  <2> SUFFICES ASSUME NEW j \in 1 .. Len(toSlave'), j # n PROVE toSlave'[j].type = "ANNOUNCE"
    OBVIOUS
  <2>1. j \in 1 .. Len(toSlave)
    BY <1>8, <1>10
  <2> QED
    BY <1>3, <1>8, <2>1 DEF RequestComes, AnnouncesFrom
<1>13. InExchange(toSlave[n])'
  BY <1>9, <1>11 DEF InExchange
<1>14. AnswerComes'
  BY <1>4, <1>6, <1>11, <1>12, <1>13 DEF AnswerComes
<1> QED
  BY <1>1, <1>3, <1>14 DEF Course

\* The master sends an announce, behind all that is on its way.
LEMMA IssueAnnounceCourse ==
  ASSUME TypeOK, Calm => Course, IssueAnnounce, Calm'
  PROVE  Course'
<1>1. /\ toSlave \in Seq(Frame)
      /\ UNCHANGED <<slave, toMaster, fed, syncs, slaveSince, overlap, losses, restarts, leaves,
                     failures>>
  BY DEF TypeOK, IssueAnnounce, ends, marks, faults
<1>2. Calm /\ Course
  BY <1>1 DEF Calm
<1>3. PICK f : f = [type |-> "ANNOUNCE", sequenceId |-> 0, of |-> 0]
  OBVIOUS
<1>4. f \in Frame /\ f.type = "ANNOUNCE" /\ toSlave' = Append(toSlave, f)
  <2>1. 0 \in Number /\ 0 \in UInteger16
    BY BoundAssumption, SeqAssumption DEF Number, UInteger16
  <2> QED
    BY <1>3, <2>1 DEF Frame, IssueAnnounce
<1>5. /\ Len(toSlave') = Len(toSlave) + 1 /\ Len(toSlave) \in Nat
      /\ \A j \in 1 .. Len(toSlave) : toSlave'[j] = toSlave[j]
      /\ toSlave'[Len(toSlave) + 1] = f
  BY <1>1, <1>4, AppendFacts
<1>6. \A n \in Nat \ {0} : AnnouncesFrom(toSlave, n) => AnnouncesFrom(toSlave', n)
  BY <1>1, <1>4, AnnouncesAppend
<1>7. CASE NotYet
  <2>1. AnnouncesLast(toSlave')
    <3> SUFFICES ASSUME NEW i \in 1 .. Len(toSlave'), NEW j \in 1 .. Len(toSlave'),
                        i < j, toSlave'[i].type = "ANNOUNCE"
                 PROVE  toSlave'[j].type = "ANNOUNCE"
      BY DEF AnnouncesLast
    <3>1. i \in 1 .. Len(toSlave) /\ (j \in 1 .. Len(toSlave) \/ j = Len(toSlave) + 1)
      BY <1>5
    <3> QED
      BY <1>4, <1>5, <1>7, <3>1 DEF NotYet, AnnouncesLast
  <2> QED
    BY <1>1, <1>7, <2>1 DEF Course, NotYet
<1>8. AtRest => AtRest'
  BY <1>1, <1>6 DEF AtRest, Settled, Holds, Missed, Near
<1>9. SyncComes => SyncComes'
  <2> SUFFICES ASSUME SyncComes PROVE SyncComes'
    OBVIOUS
  <2>1. toSlave'[1] = toSlave[1] /\ toSlave'[2] = toSlave[2] /\ Len(toSlave') >= 2
    BY <1>5 DEF SyncComes
  <2>2. AnnouncesFrom(toSlave', 3)
    BY <1>6 DEF SyncComes
  <2> QED
    BY <1>1, <2>1, <2>2 DEF SyncComes, NewSync, Missed, Near
<1>10. FollowUpComes => FollowUpComes'
  <2> SUFFICES ASSUME FollowUpComes PROVE FollowUpComes'
    OBVIOUS
  <2>1. toSlave'[1] = toSlave[1] /\ Len(toSlave') >= 1
    BY <1>5 DEF FollowUpComes
  <2>2. AnnouncesFrom(toSlave', 2)
    BY <1>6 DEF FollowUpComes
  <2> QED
    BY <1>1, <2>1, <2>2 DEF FollowUpComes, NewSync, Missed, Near
<1>11. RequestComes => RequestComes'
  BY <1>1, <1>6 DEF RequestComes, InExchange, Holds, Missed, Near
<1>12. AnswerComes => AnswerComes'
  <2> SUFFICES ASSUME AnswerComes PROVE AnswerComes'
    OBVIOUS
  <2>1. PICK i \in 1 .. Len(toSlave) :
          /\ toSlave[i].type = "DELAY_RESP" /\ InExchange(toSlave[i])
          /\ \A j \in 1 .. Len(toSlave) : j # i => toSlave[j].type = "ANNOUNCE"
    BY DEF AnswerComes
  <2>2. i \in 1 .. Len(toSlave') /\ toSlave'[i] = toSlave[i]
    BY <1>5
  <2>3. \A j \in 1 .. Len(toSlave') : j # i => toSlave'[j].type = "ANNOUNCE"
    <3> SUFFICES ASSUME NEW j \in 1 .. Len(toSlave'), j # i PROVE toSlave'[j].type = "ANNOUNCE"
      OBVIOUS
    <3>1. j \in 1 .. Len(toSlave) \/ j = Len(toSlave) + 1
      BY <1>5
    <3> QED
      BY <1>4, <1>5, <2>1, <3>1
  <2>4. InExchange(toSlave[i])'
    BY <1>1, <2>1, <2>2 DEF InExchange, Holds, Missed, Near
  <2> QED
    BY <1>1, <2>1, <2>2, <2>3, <2>4 DEF AnswerComes
<1> QED
  BY <1>1, <1>2, <1>7, <1>8, <1>9, <1>10, <1>11, <1>12 DEF Course

\* The master sends a Sync and its Follow_Up, and nothing else is on its way.
LEMMA IssueSyncCourse ==
  ASSUME TypeOK, Calm => Course, slaveSince <= syncs, NEW stamped \in BOOLEAN,
         IssueSync(stamped), Calm', syncs + 1 \in Number
  PROVE  Course'
<1>1. /\ toSlave \in Seq(Frame) /\ toMaster \in Seq(Frame)
      /\ UNCHANGED <<slave, toMaster, fed, slaveSince, losses, restarts, leaves>>
      /\ syncs' = syncs + 1 /\ overlap' = (overlap \/ InFlight > 0) /\ HwAnswers(stamped)
  BY DEF TypeOK, IssueSync, faults
<1>2. stamped = TRUE /\ Calm /\ ~(InFlight > 0)
  BY <1>1, CalmAnswers DEF Calm
<1>3. toSlave = <<>> /\ toMaster = <<>> /\ Len(toSlave) = 0 /\ Len(toMaster) = 0
  <2>1. Len(toSlave) \in Nat /\ Len(toMaster) \in Nat
    BY <1>1, LenProperties
  <2>2. Len(toSlave) = 0 /\ Len(toMaster) = 0
    BY <1>2, <2>1 DEF InFlight
  <2> QED
    BY <1>1, <2>2, EmptySeq
<1>4. PICK f \in Frame, g \in Frame :
        /\ f = [type |-> "SYNC", sequenceId |-> sentSyncSequenceId, of |-> syncs']
        /\ g = [type |-> "FOLLOW_UP", sequenceId |-> sentSyncSequenceId, of |-> syncs']
  BY <1>1 DEF TypeOK, Frame
<1>5. toSlave' = Append(Append(toSlave, f), g)
  <2>1. toSlave' = toSlave \o <<f, g>>
    BY <1>2, <1>4 DEF IssueSync
  <2> QED
    BY <1>1, <2>1, TwoAppended
<1>6. Len(toSlave') = 2 /\ toSlave'[1] = f /\ toSlave'[2] = g
  <2>1. PICK q : q = Append(toSlave, f)
    OBVIOUS
  <2>2. q \in Seq(Frame) /\ Len(q) = 1 /\ q[1] = f
    BY <1>1, <1>3, <2>1, AppendFacts
  <2>3. toSlave' = Append(q, g) /\ 1 \in 1 .. Len(q)
    BY <1>5, <2>1, <2>2
  <2>4. /\ Len(Append(q, g)) = Len(q) + 1 /\ Append(q, g)[Len(q) + 1] = g
        /\ \A j \in 1 .. Len(q) : Append(q, g)[j] = q[j]
    <3>1. q \in Seq(Frame)
      BY <2>2
    <3> QED
      BY <3>1, AppendFacts
  <2>5. Append(q, g)[1] = q[1] /\ Len(q) + 1 = 2
    BY <2>2, <2>3, <2>4
  <2> QED
    BY <2>2, <2>3, <2>4, <2>5
<1>7. CASE NotYet
  <2>1. AnnouncesLast(toSlave')
    <3>1. \A i \in 1 .. Len(toSlave') : i = 1 \/ i = 2
      BY <1>6
    <3> QED
      BY <1>4, <1>6, <3>1 DEF AnnouncesLast
  <2> QED
    BY <1>1, <1>7, <2>1 DEF Course, NotYet
<1>8. CASE slave.portState = "SLAVE"
  <2>1. Settled
    BY <1>2, <1>3, <1>8 DEF Course, NotYet, AtRest, SyncComes, FollowUpComes, RequestComes, AnswerComes
  <2>2. NewSync'
    <3>1. /\ syncs \in Int /\ slaveSince \in Int /\ fed.t1 \in Int /\ syncs' = syncs + 1
          /\ slaveSince' = slaveSince /\ fed' = fed
      BY <1>1, FieldTypes, BoundAssumption DEF TypeOK
    <3>2. (Near(0) => Near(1)') /\ (Near(1) => Near(2)') /\ slaveSince' < syncs'
      BY <3>1 DEF Near
    <3> QED
      BY <1>1, <2>1, <3>2 DEF Settled, NewSync, Missed
  <2>3. AnnouncesFrom(toSlave', 3)
    BY <1>6 DEF AnnouncesFrom
  <2>4. SyncComes'
    BY <1>1, <1>3, <1>4, <1>6, <2>2, <2>3 DEF SyncComes
  <2> QED
    BY <1>1, <1>8, <2>4 DEF Course
<1> QED
  BY <1>2, <1>7, <1>8 DEF Course

\* Every step keeps the port on its course.
LEMMA ProgressStep == TypeOK /\ TypeOK' /\ Progress /\ [Next]_vars => Progress'
<1> SUFFICES ASSUME TypeOK, TypeOK', Progress, [Next]_vars PROVE Progress'
  OBVIOUS
<1>1. syncs \in Int /\ slaveSince \in Int /\ slaveSince <= syncs /\ (Calm => Course)
  BY FieldTypes, BoundAssumption DEF TypeOK, Progress
<1>2. ASSUME NEW stamped \in BOOLEAN, Receive(stamped)
      PROVE  Progress'
  <2>1. syncs' = syncs /\ slaveSince' \in {slaveSince, syncs}
    BY <1>2 DEF Receive, HandleSync, HandleFollowUp, HandleDelayResp, IgnoreFrame, EnterSlave,
                FallThroughToSlave, ends, marks
  <2>2. HandleFollowUp(stamped) => requests + 1 \in Number
    BY DEF HandleFollowUp, IssueDelayReq, TypeOK
  <2> QED
    BY <1>1, <1>2, <2>1, <2>2, HandleSyncCourse, HandleFollowUpCourse, HandleDelayRespCourse,
       IgnoreFrameCourse, BecomesSlaveCourse DEF Receive, Progress
<1>3. ASSUME NEW stamped \in BOOLEAN, IssueSync(stamped)
      PROVE  Progress'
  <2>1. syncs' = syncs + 1 /\ slaveSince' = slaveSince
    BY <1>3 DEF IssueSync
  <2>2. syncs + 1 \in Number
    BY <2>1, BoundAssumption DEF TypeOK, Number
  <2> QED
    BY <1>1, <1>3, <2>1, <2>2, IssueSyncCourse DEF Progress
<1>4. ASSUME NEW stamped \in BOOLEAN, DelayReqTimeout(stamped)
      PROVE  Progress'
  <2>1. UNCHANGED <<syncs, slaveSince>> /\ requests + 1 \in Number
    BY <1>4 DEF DelayReqTimeout, IssueDelayReq, TypeOK
  <2> QED
    BY <1>1, <1>4, <2>1, DelayReqTimeoutCourse DEF Progress
<1>5. CASE IssueAnnounce \/ HandleDelayReq
  <2>1. UNCHANGED <<syncs, slaveSince>>
    BY <1>5 DEF IssueAnnounce, HandleDelayReq, ends, marks
  <2> QED
    BY <1>1, <1>5, <2>1, IssueAnnounceCourse, HandleDelayReqCourse DEF Progress
<1>6. CASE LeaveSlave \/ LoseFrame \/ Restart
  <2>1. UNCHANGED <<syncs, slaveSince>>
    BY <1>6 DEF LeaveSlave, LoseFrame, Restart, marks
  <2>2. leaves' = leaves + 1 \/ losses' = losses + 1 \/ restarts' = restarts + 1
    BY <1>6 DEF LeaveSlave, LoseFrame, Restart
  <2>3. ~Calm'
    BY <2>2, BoundAssumption DEF Calm, TypeOK
  <2> QED
    BY <1>1, <2>1, <2>3 DEF Progress
<1>7. CASE UNCHANGED vars
  <2>1. UNCHANGED <<slave, toSlave, toMaster, fed, syncs, slaveSince, overlap, losses, restarts,
                    leaves, failures>>
    BY <1>7 DEF vars, ends, marks, faults
  <2> QED
    BY <1>1, <2>1 DEF Progress, Calm, Course, NotYet, AtRest, SyncComes, FollowUpComes, RequestComes,
                      AnswerComes, NewSync, Settled, InExchange, Holds, Missed, Near
<1> QED
  BY <1>2, <1>3, <1>4, <1>5, <1>6, <1>7 DEF Next

-----------------------------------------------------------------------------
(* The theorems.                                                           *)

\* Fields hold values of their types: the handlers of a Sync, a Follow_Up, a
\* Delay_Req and a Delay_Resp, and the timers that send them.
THEOREM TypeCorrect == Spec => []TypeOK
<1>1. IInv => TypeOK
  BY DEF IInv
<1> QED
  BY <1>1, Invariance, PTL

\* The Delay_Req of a servo update left after the Sync of that update had come
\* in, whenever the delayReq timer sends requests (issueDelayReq()).
THEOREM DelayIsAfterSync == Spec => []DelayAfterSync
<1>1. IInv => DelayAfterSync
  BY DEF IInv
<1> QED
  BY <1>1, Invariance, PTL

\* Every update of the servo is fed one whole exchange that it has not been fed
\* before, whatever is lost or restarted: got_sync, waitingForFollow and the
\* numbers that handleFollowUp() and handleDelayResp() compare see to that.
THEOREM RefinesFeed == Spec => FeedSpec
<1>1. Init => Feed!Init
  BY DEF Init, Feed!Init
<1>2. ASSUME IInv, [Next]_vars
      PROVE  [Feed!Update]_fed
  <2>1. CASE HandleDelayResp
    <3>1. CASE UNCHANGED <<fed, fedHeard, slave>>
      BY <3>1
    <3>2. CASE /\ fed' = [t1 |-> slave.t2.of, t2 |-> slave.t2.of, t3 |-> requests, t4 |-> requests]
               /\ slave.got_sync /\ fed.t4 < requests
      <4>1. fed.t2 < slave.t2.of
        BY <1>2, <3>2 DEF IInv, SyncHeard
      <4>2. PICK m \in Nat, n \in Nat : m = slave.t2.of /\ n = requests
        BY <1>2, FieldTypes DEF IInv
      <4>3. fed'.t1 = m /\ fed'.t2 = m /\ fed'.t3 = n /\ fed'.t4 = n /\ m > fed.t2 /\ n > fed.t4
        BY <1>2, <3>2, <4>1, <4>2, FieldTypes DEF IInv
      <4> QED
        BY <4>3 DEF Feed!Update
    <3> QED
      BY <1>2, <2>1, <3>1, <3>2, WholeExchange
  <2>2. ASSUME NEW stamped \in BOOLEAN,
               \/ IssueSync(stamped) \/ DelayReqTimeout(stamped) \/ HandleSync(stamped)
               \/ HandleFollowUp(stamped) \/ EnterSlave(stamped)
        PROVE  UNCHANGED fed
    BY <2>2 DEF IssueSync, DelayReqTimeout, HandleSync, HandleFollowUp, EnterSlave
  <2>3. CASE \/ IgnoreFrame \/ FallThroughToSlave \/ IssueAnnounce \/ HandleDelayReq
             \/ LeaveSlave \/ LoseFrame \/ Restart
    BY <2>3 DEF IgnoreFrame, FallThroughToSlave, IssueAnnounce, HandleDelayReq, LeaveSlave,
                LoseFrame, Restart
  <2>4. CASE UNCHANGED vars
    BY <2>4 DEF vars
  <2> QED
    BY <1>2, <2>1, <2>2, <2>3, <2>4 DEF Next, Receive
<1> QED
  BY <1>1, <1>2, Invariance, PTL DEF Spec, FeedSpec, Feed!Spec

\* As long as no frame is lost, no timestamp missing, no daemon restarted and each
\* request answered before the next frame leaves, the servo is fed one of the last
\* two Syncs, for every number of Syncs and of requests by the timer: the answer
\* that handleDelayResp() ignores (sentDelayReqSequenceId - 1 is computed in int)
\* never costs two updates in a row.
THEOREM ServoKeepsUp == Spec => []KeepsUp
<1>1. Init => Progress
  <2>1. ASSUME Init PROVE Len(toSlave) = 0
    BY <2>1 DEF Init
  <2> QED
    BY <2>1 DEF Init, Progress, Course, NotYet, AnnouncesLast, FreshSlave
<1>2. IInv /\ IInv' /\ Progress /\ [Next]_vars => Progress'
  BY ProgressStep DEF IInv
<1>3. IInv /\ Progress => KeepsUp
  <2> SUFFICES ASSUME IInv, Progress, slave.portState = "SLAVE", toSlave = <<>>, toMaster = <<>>, Calm
               PROVE  Near(1)
    BY DEF KeepsUp, Calm, Near
  <2>1. Len(toSlave) = 0 /\ Len(toMaster) = 0
    OBVIOUS
  <2>2. Settled
    BY <2>1 DEF Progress, Course, NotYet, AtRest, SyncComes, FollowUpComes, RequestComes, AnswerComes
  <2>3. syncs \in Int /\ slaveSince \in Int /\ fed.t1 \in Int
    BY FieldTypes, BoundAssumption DEF IInv, TypeOK
  <2>4. Near(0) => Near(1)
    BY <2>3 DEF Near
  <2> QED
    BY <2>2, <2>4 DEF Settled
<1> QED
  BY <1>1, <1>2, <1>3, Invariance, PTL DEF Spec

=============================================================================
