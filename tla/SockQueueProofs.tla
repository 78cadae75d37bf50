-------------------------- MODULE SockQueueProofs ---------------------------
(***************************************************************************)
(* The receive queue of SockQueue, for every size of the ring, of the      *)
(* header and of the payloads: type correctness, the exactness of avail,   *)
(* and the refinement of FrameQueue.                                       *)
(***************************************************************************)
EXTENDS SockQueue, SequenceTheorems, FiniteSetTheorems, WellFoundedInduction, TLAPS

-----------------------------------------------------------------------------
(* The inductive invariant: the ring holds a sequence of frames, one after *)
(* the other from the tail to the head.                                    *)

\* The cell at a distance from another.
Place(at, i) == (at + i) % NET_SKBUF_SIZE

\* What a frame has in its cells: its size in two of them, then its number.
Content(f, i) == IF i < 2 THEN f.len ELSE f.id

\* The frame f lies at a distance from the tail.
Holds(sq, from, f) ==
  \A i \in 0 .. Required(f.len) - 1 : sq.buf[Place(sq.tail, from + i)] = Content(f, i)

\* The k-th of the frames lies from offset[k - 1] to offset[k].
Adjacent(sq, frames, offset) ==
  \A k \in 1 .. Len(frames) :
    /\ offset[k] = offset[k - 1] + Required(frames[k].len)
    /\ Holds(sq, offset[k - 1], frames[k])

\* No frame overlaps another, and each takes at least a cell.
Increasing(offset, n) ==
  \A k \in 0 .. n : \A l \in 0 .. n : k <= l => offset[k] + (l - k) <= offset[l]

LaidOut(sq, frames, offset) ==
  /\ sq.n = Len(frames)
  /\ offset[0] = 0 /\ offset[Len(frames)] = NET_SKBUF_SIZE - sq.avail
  /\ sq.head = Place(sq.tail, NET_SKBUF_SIZE - sq.avail)
  /\ Increasing(offset, Len(frames))
  /\ Adjacent(sq, frames, offset)

Offsets(frames) == [0 .. Len(frames) -> 0 .. NET_SKBUF_SIZE]

IInv ==
  /\ TypeOK
  /\ \E frames \in Seq(Frame) : \E offset \in Offsets(frames) : LaidOut(q, frames, offset)

-----------------------------------------------------------------------------
(* Lemmas of arithmetic.                                                   *)

\* Division by a positive number leaves a remainder below it.
LEMMA Division ==
  ASSUME NEW a \in Int, NEW m \in Nat \ {0}
  PROVE  m * (a \div m) + (a % m) = a /\ a % m \in 0 .. m - 1 /\ a \div m \in Int
<1>1. a \div m \in Int
  OBVIOUS
<1>2. a % m \in 0 .. m - 1
  OBVIOUS
<1>3. m * (a \div m) + (a % m) = a
  <2>1. m \in Int /\ m > 0
    OBVIOUS
  <2>2. ASSUME NEW b \in Int, NEW n \in Int, n > 0
        PROVE  n * (b \div n) + (b % n) = b
    BY <2>2
  <2> QED
    BY <2>1, <2>2
<1> QED
  BY <1>1, <1>2, <1>3

\* A product of integers whose size is below that of a factor is zero.
LEMMA SmallProduct ==
  ASSUME NEW m \in Nat \ {0}, NEW k \in Int, -m < m * k, m * k < m
  PROVE  k = 0
<1>1. CASE k >= 1
  <2>1. m * (k - 1) >= 0
    BY <1>1
  <2>2. m * k = m * (k - 1) + m
    OBVIOUS
  <2> QED
    BY <2>1, <2>2
<1>2. CASE k <= -1
  <2>1. m * (-k - 1) >= 0
    BY <1>2
  <2>2. m * k = -(m * (-k - 1)) - m
    OBVIOUS
  <2> QED
    BY <2>1, <2>2
<1> QED
  BY <1>1, <1>2

\* The remainder is the only number in the range that differs from the dividend
\* by a multiple.
LEMMA RemainderUnique ==
  ASSUME NEW m \in Nat \ {0}, NEW a \in Int, NEW k \in Int, NEW r \in 0 .. m - 1, a = m * k + r
  PROVE  a % m = r
<1> DEFINE d == a \div m - k
<1>1. d \in Int /\ m * d = r - (a % m) /\ a % m \in 0 .. m - 1
  <2>1. a = m * (a \div m) + (a % m) /\ a % m \in 0 .. m - 1 /\ a \div m \in Int
    BY Division
  <2>2. m * (a \div m - k) = m * (a \div m) - m * k
    BY <2>1
  <2> QED
    BY <2>1, <2>2
<1> HIDE DEF d
<1>2. d = 0
  BY <1>1, SmallProduct
<1> QED
  BY <1>1, <1>2

\* Places are cells.
LEMMA PlaceIsCell ==
  ASSUME NEW at \in Int, NEW i \in Int
  PROVE  Place(at, i) \in Cells /\ Place(at, i) \in Int
<1>1. PICK a \in Int : a = at + i
  OBVIOUS
<1>2. a % NET_SKBUF_SIZE \in 0 .. NET_SKBUF_SIZE - 1
  BY QueueAssumption, Division
<1> QED
  BY <1>1, <1>2 DEF Place, Cells

\* Distances add up.
LEMMA PlacesAdd ==
  ASSUME NEW at \in Int, NEW i \in Int, NEW j \in Int
  PROVE  Place(Place(at, i), j) = Place(at, i + j)
<1> DEFINE S == NET_SKBUF_SIZE
<1>0. S \in Nat \ {0}
  BY QueueAssumption
<1> HIDE DEF S
<1>1. PICK a \in Int : a = at + i
  OBVIOUS
<1>2. S * (a \div S) + (a % S) = a /\ a \div S \in Int /\ a % S \in Int
  BY <1>0, Division
<1>3. PICK b \in Int : b = (a % S) + j
  BY <1>2
<1>4. S * (b \div S) + (b % S) = b /\ b \div S \in Int /\ b % S \in 0 .. S - 1
  BY <1>0, Division
<1>5. PICK c \in Int : c = at + (i + j)
  OBVIOUS
<1>6. c = S * (a \div S + b \div S) + (b % S) /\ a \div S + b \div S \in Int
  BY <1>0, <1>1, <1>2, <1>3, <1>4, <1>5
<1>7. c % S = b % S
  BY <1>0, <1>4, <1>6, RemainderUnique
<1> QED
  BY <1>1, <1>3, <1>5, <1>7 DEF Place, S

\* Once around the ring.
LEMMA PlaceAround ==
  ASSUME NEW at \in Int, NEW i \in Int
  PROVE  Place(at, i + NET_SKBUF_SIZE) = Place(at, i)
<1> DEFINE S == NET_SKBUF_SIZE
<1>0. S \in Nat \ {0}
  BY QueueAssumption
<1> HIDE DEF S
<1>1. PICK a \in Int : a = at + i
  OBVIOUS
<1>2. S * (a \div S) + (a % S) = a /\ a \div S \in Int /\ a % S \in 0 .. S - 1
  BY <1>0, Division
<1>3. PICK c \in Int : c = at + (i + S)
  BY <1>0
<1>4. c = S * (a \div S + 1) + (a % S) /\ a \div S + 1 \in Int
  BY <1>0, <1>1, <1>2, <1>3
<1>5. c % S = a % S
  BY <1>0, <1>2, <1>4, RemainderUnique
<1> QED
  BY <1>1, <1>3, <1>5 DEF Place, S

\* The distance that leads to a cell.
LEMMA Distance ==
  ASSUME NEW at \in Int, NEW i \in 0 .. NET_SKBUF_SIZE - 1
  PROVE  (Place(at, i) - at) % NET_SKBUF_SIZE = i
<1> DEFINE S == NET_SKBUF_SIZE
<1>0. S \in Nat \ {0} /\ i \in 0 .. S - 1
  BY QueueAssumption
<1> HIDE DEF S
<1>1. PICK a \in Int : a = at + i
  BY <1>0
<1>2. S * (a \div S) + (a % S) = a /\ a \div S \in Int /\ a % S \in 0 .. S - 1
  BY <1>0, Division
<1>3. PICK c \in Int : c = (a % S) - at
  BY <1>2
<1>4. c = S * (-(a \div S)) + i /\ -(a \div S) \in Int
  BY <1>0, <1>1, <1>2, <1>3
<1>5. c % S = i
  BY <1>0, <1>4, RemainderUnique
<1> QED
  BY <1>1, <1>3, <1>5 DEF Place, S

\* A cell is at some distance from any other.
LEMMA Reaches ==
  ASSUME NEW at \in Int, NEW c \in Cells
  PROVE  \E i \in 0 .. NET_SKBUF_SIZE - 1 : c = Place(at, i) /\ (c - at) % NET_SKBUF_SIZE = i
<1> DEFINE S == NET_SKBUF_SIZE
<1>0. S \in Nat \ {0} /\ c \in 0 .. S - 1
  BY QueueAssumption DEF Cells
<1> HIDE DEF S
<1>1. PICK a \in Int : a = c - at
  BY <1>0
<1>2. S * (a \div S) + (a % S) = a /\ a \div S \in Int /\ a % S \in 0 .. S - 1
  BY <1>0, Division
<1>3. PICK b \in Int : b = at + (a % S)
  BY <1>2
<1>4. b = S * (-(a \div S)) + c /\ -(a \div S) \in Int
  BY <1>0, <1>1, <1>2, <1>3
<1>5. b % S = c
  BY <1>0, <1>4, RemainderUnique
<1> QED
  BY <1>1, <1>2, <1>3, <1>5 DEF Place, S

-----------------------------------------------------------------------------
(* Lemmas about what is copied to the ring and from it.                    *)

Ring == [buf : [Cells -> Ids \cup Payloads], head : Cells, tail : Cells, avail : Int, n : Int]

\* The parameters are numbers, and a frame has its size, its header and its payload.
LEMMA FrameTypes ==
  ASSUME NEW f \in Frame
  PROVE  /\ f.len \in Nat \ {0} /\ f.id \in Nat /\ f.len \in Payloads /\ f.id \in Ids
         /\ Required(f.len) \in Nat /\ Required(f.len) = HdrSize + f.len + 2
         /\ HdrSize \in Nat \ {0} /\ NET_SKBUF_SIZE \in Nat \ {0}
<1>1. f.len \in Payloads /\ f.id \in Ids
  BY DEF Frame
<1>2. f.len \in Nat \ {0} /\ f.id \in Nat /\ HdrSize \in Nat \ {0} /\ NET_SKBUF_SIZE \in Nat \ {0}
  BY <1>1, QueueAssumption
<1> QED
  BY <1>1, <1>2 DEF Required

\* Cells are numbers.
LEMMA CellTypes ==
  ASSUME NEW c \in Cells
  PROVE  c \in Int /\ c \in Nat
BY QueueAssumption DEF Cells

\* wrap_copy_out() with len copies of x, into a ring whose head is d cells after h:
\* these cells hold x, the others what they held.
LEMMA Copied ==
  ASSUME NEW sq \in Ring, NEW h \in Cells, NEW d \in Nat, NEW len \in Nat,
         d + len <= NET_SKBUF_SIZE, sq.head = Place(h, d),
         NEW x \in Ids \cup Payloads,
         NEW new, new = WrapCopyOut(sq, Constantly(x, len))
  PROVE  /\ new \in Ring /\ new.tail = sq.tail /\ new.n = sq.n
         /\ new.head = Place(h, d + len) /\ new.avail = sq.avail - len
         /\ \A i \in 0 .. NET_SKBUF_SIZE - 1 :
              new.buf[Place(h, i)] =
                IF d <= i /\ i < d + len THEN x ELSE sq.buf[Place(h, i)]
<1> DEFINE S == NET_SKBUF_SIZE
           src == Constantly(x, len)
           At(c) == 1 + ((c - sq.head) % S)
<1>0. S \in Nat \ {0} /\ h \in Int /\ Cells = 0 .. S - 1
  BY QueueAssumption, CellTypes DEF Cells
<1>1. Len(src) = len /\ \A i \in 1 .. len : src[i] = x
  BY DEF Constantly
<1>2. new = [sq EXCEPT
              !.buf   = [c \in Cells |-> IF At(c) <= Len(src) THEN src[At(c)] ELSE sq.buf[c]],
              !.head  = (sq.head + Len(src)) % S,
              !.avail = sq.avail - Len(src)]
  BY Zenon DEF WrapCopyOut
<1>3. \A c \in Cells : At(c) \in Int /\ At(c) >= 1
  <2>1. SUFFICES ASSUME NEW c \in Cells PROVE At(c) \in Int /\ At(c) >= 1
    OBVIOUS
  <2>2. sq.head \in Cells
    BY DEF Ring
  <2>3. PICK i \in 0 .. S - 1 : (c - sq.head) % S = i
    BY <2>2, CellTypes, Reaches
  <2> QED
    BY <2>3, <1>0
<1>4. /\ new.buf = [c \in Cells |-> IF At(c) <= len THEN x ELSE sq.buf[c]]
      /\ new.head = (sq.head + len) % S /\ new.avail = sq.avail - len
      /\ new.tail = sq.tail /\ new.n = sq.n
      /\ new = [buf |-> new.buf, head |-> new.head, tail |-> new.tail,
                avail |-> new.avail, n |-> new.n]
  <2>1. \A c \in Cells : (IF At(c) <= Len(src) THEN src[At(c)] ELSE sq.buf[c])
                          = (IF At(c) <= len THEN x ELSE sq.buf[c])
    <3> HIDE DEF src, At
    <3> QED
      BY <1>1, <1>3
  <2> HIDE DEF src, At
  <2>2. new.buf = [c \in Cells |-> IF At(c) <= len THEN x ELSE sq.buf[c]]
    BY <1>1, <1>2, <2>1 DEF Ring
  <2> QED
    BY <1>1, <1>2, <2>2 DEF Ring
<1>5. new.head = Place(h, d + len)
  <2>1. new.head = Place(Place(h, d), len)
    BY <1>4 DEF Place
  <2> QED
    BY <2>1, <1>0, PlacesAdd
<1>6. new \in Ring
  <2>1. new.head \in Cells
    BY <1>5, <1>0, PlaceIsCell
  <2>2. new.buf \in [Cells -> Ids \cup Payloads]
    BY <1>4 DEF Ring
  <2>3. new.avail \in Int /\ new.tail \in Cells /\ new.n \in Int
    BY <1>4 DEF Ring
  <2> QED
    BY <1>4, <2>1, <2>2, <2>3 DEF Ring
<1>7. ASSUME NEW i \in 0 .. S - 1
      PROVE  new.buf[Place(h, i)] =
               IF d <= i /\ i < d + len THEN x ELSE sq.buf[Place(h, i)]
  <2>0. i \in Int /\ 0 <= i /\ i < S /\ d \in Int /\ d <= S
    BY <1>0
  <2>1. PICK j \in 0 .. S - 1 : (d <= i /\ j = i - d) \/ (~(d <= i) /\ j = i - d + S)
    <3>1. CASE d <= i
      <4>1. i - d \in 0 .. S - 1
        BY <1>0, <2>0, <3>1
      <4> QED
        BY <3>1, <4>1
    <3>2. CASE ~(d <= i)
      <4>1. i - d + S \in 0 .. S - 1
        BY <1>0, <2>0, <3>2
      <4> QED
        BY <3>2, <4>1
    <3> QED
      BY <3>1, <3>2
  <2>2. Place(sq.head, j) = Place(h, d + j)
    BY <1>0, PlacesAdd
  <2>3. Place(h, d + j) = Place(h, i)
    <3>1. CASE d <= i
      <4>1. d + j = i
        BY <2>1, <3>1, <1>0
      <4> QED
        BY <4>1
    <3>2. CASE ~(d <= i)
      <4>1. d + j = i + S
        BY <2>1, <3>2, <1>0
      <4>2. Place(h, i + S) = Place(h, i)
        BY <1>0, <2>0, PlaceAround
      <4> QED
        BY <4>1, <4>2
    <3> QED
      BY <3>1, <3>2
  <2>4. sq.head \in Int
    BY CellTypes DEF Ring
  <2>5. (Place(h, i) - sq.head) % S = j
    BY <2>2, <2>3, <2>4, Distance
  <2>6. Place(h, i) \in Cells
    BY <1>0, <2>0, PlaceIsCell
  <2>7. At(Place(h, i)) = 1 + j
    BY <2>5
  <2> HIDE DEF At
  <2>8. new.buf[Place(h, i)] = IF 1 + j <= len THEN x ELSE sq.buf[Place(h, i)]
    BY <1>4, <2>6, <2>7
  <2>9. 1 + j <= len <=> d <= i /\ i < d + len
    BY <2>1, <1>0
  <2> QED
    BY <2>8, <2>9
<1> QED
  BY <1>4, <1>5, <1>6, <1>7

\* A cell is at no distance from itself.
LEMMA PlaceHere ==
  ASSUME NEW c \in Cells
  PROVE  Place(c, 0) = c
<1>1. c \in 0 .. NET_SKBUF_SIZE - 1 /\ NET_SKBUF_SIZE \in Nat \ {0} /\ c \in Int
  BY QueueAssumption DEF Cells
<1>2. c = NET_SKBUF_SIZE * 0 + c /\ c + 0 = c
  BY <1>1
<1>3. c % NET_SKBUF_SIZE = c
  BY <1>1, <1>2, RemainderUnique
<1> QED
  BY <1>2, <1>3 DEF Place

\* What update_rx_queues() does to the ring with a frame that fits.
Storing(sq, f) ==
  LET sized  == WrapCopyOut(sq, Constantly(f.len, 2))
      headed == WrapCopyOut(sized, Constantly(f.id, HdrSize))
  IN  [WrapCopyOut(headed, Constantly(f.id, f.len)) EXCEPT !.n = @ + 1]

\* The cells after the head hold the frame, the others what they held.
LEMMA FrameStored ==
  ASSUME NEW sq \in Ring, NEW f \in Frame, Required(f.len) <= NET_SKBUF_SIZE,
         NEW new, new = Storing(sq, f)
  PROVE  /\ new \in Ring /\ new.tail = sq.tail /\ new.n = sq.n + 1
         /\ new.head = Place(sq.head, Required(f.len))
         /\ new.avail = sq.avail - Required(f.len)
         /\ \A i \in 0 .. NET_SKBUF_SIZE - 1 :
              new.buf[Place(sq.head, i)] =
                IF i < Required(f.len) THEN Content(f, i) ELSE sq.buf[Place(sq.head, i)]
<1> DEFINE S == NET_SKBUF_SIZE
           h == sq.head
<1>0. /\ f.len \in Nat \ {0} /\ HdrSize \in Nat \ {0} /\ Required(f.len) = HdrSize + f.len + 2
      /\ f.len \in Ids \cup Payloads /\ f.id \in Ids \cup Payloads
      /\ S \in Nat \ {0} /\ h \in Cells /\ sq.avail \in Int
  BY FrameTypes DEF Ring
<1>1. PICK sized : sized = WrapCopyOut(sq, Constantly(f.len, 2))
  OBVIOUS
<1>2. PICK headed : headed = WrapCopyOut(sized, Constantly(f.id, HdrSize))
  OBVIOUS
<1>3. PICK last : last = WrapCopyOut(headed, Constantly(f.id, f.len))
  OBVIOUS
<1>4. new = [last EXCEPT !.n = last.n + 1]
  BY <1>1, <1>2, <1>3, Zenon DEF Storing
<1>5. /\ sized \in Ring /\ sized.tail = sq.tail /\ sized.n = sq.n
      /\ sized.head = Place(h, 2) /\ sized.avail = sq.avail - 2
      /\ \A i \in 0 .. S - 1 :
           sized.buf[Place(h, i)] = IF 0 <= i /\ i < 2 THEN f.len ELSE sq.buf[Place(h, i)]
  <2>1. sq.head = Place(h, 0)
    BY <1>0, PlaceHere
  <2>2. 0 \in Nat /\ 2 \in Nat /\ 0 + 2 <= NET_SKBUF_SIZE /\ 0 + 2 = 2
    BY <1>0
  <2> QED
    BY <1>0, <1>1, <2>1, <2>2, Copied
<1>6. /\ headed \in Ring /\ headed.tail = sq.tail /\ headed.n = sq.n
      /\ headed.head = Place(h, 2 + HdrSize) /\ headed.avail = sq.avail - (2 + HdrSize)
      /\ \A i \in 0 .. S - 1 :
           headed.buf[Place(h, i)] =
             IF 2 <= i /\ i < 2 + HdrSize THEN f.id ELSE sized.buf[Place(h, i)]
  <2>1. 2 \in Nat /\ HdrSize \in Nat /\ 2 + HdrSize <= NET_SKBUF_SIZE
    BY <1>0
  <2>2. headed.avail = sized.avail - HdrSize /\ headed.n = sized.n /\ headed.tail = sized.tail
    BY <1>0, <1>2, <1>5, <2>1, Copied
  <2>3. sized.avail - HdrSize = sq.avail - (2 + HdrSize)
    BY <1>0, <1>5
  <2>4. headed \in Ring /\ headed.head = Place(h, 2 + HdrSize)
    BY <1>0, <1>2, <1>5, <2>1, Copied
  <2>5. \A i \in 0 .. S - 1 :
          headed.buf[Place(h, i)] =
            IF 2 <= i /\ i < 2 + HdrSize THEN f.id ELSE sized.buf[Place(h, i)]
    BY <1>0, <1>2, <1>5, <2>1, Copied
  <2> QED
    BY <1>5, <2>2, <2>3, <2>4, <2>5
<1>7. /\ last \in Ring /\ last.tail = sq.tail /\ last.n = sq.n
      /\ last.head = Place(h, Required(f.len)) /\ last.avail = sq.avail - Required(f.len)
      /\ \A i \in 0 .. S - 1 :
           last.buf[Place(h, i)] =
             IF 2 + HdrSize <= i /\ i < Required(f.len) THEN f.id ELSE headed.buf[Place(h, i)]
  <2>1. PICK d \in Nat : d = 2 + HdrSize /\ d + f.len = Required(f.len)
    BY <1>0
  <2>2. d + f.len <= NET_SKBUF_SIZE /\ f.len \in Nat /\ headed.head = Place(h, d)
    BY <1>0, <1>6, <2>1
  <2>3. last.avail = headed.avail - f.len /\ last.n = headed.n /\ last.tail = headed.tail
    BY <1>0, <1>3, <1>6, <2>2, Copied
  <2>4. headed.avail - f.len = sq.avail - Required(f.len)
    BY <1>0, <1>6
  <2>5. last \in Ring /\ last.head = Place(h, d + f.len)
    BY <1>0, <1>3, <1>6, <2>2, Copied
  <2>6. \A i \in 0 .. S - 1 :
          last.buf[Place(h, i)] = IF d <= i /\ i < d + f.len THEN f.id ELSE headed.buf[Place(h, i)]
    BY <1>0, <1>3, <1>6, <2>2, Copied
  <2> QED
    BY <1>6, <2>1, <2>3, <2>4, <2>5, <2>6
<1>8. /\ new \in Ring /\ new.tail = last.tail /\ new.n = last.n + 1 /\ new.head = last.head
      /\ new.avail = last.avail /\ new.buf = last.buf
  BY <1>4, <1>7 DEF Ring
<1>9. ASSUME NEW i \in 0 .. S - 1
      PROVE  new.buf[Place(h, i)] =
               IF i < Required(f.len) THEN Content(f, i) ELSE sq.buf[Place(h, i)]
  <2>1. i \in Int /\ 0 <= i
    BY <1>0
  <2>2. CASE i < 2
    BY <1>0, <1>5, <1>6, <1>7, <1>8, <2>1, <2>2 DEF Content
  <2>3. CASE ~(i < 2) /\ i < 2 + HdrSize
    BY <1>0, <1>5, <1>6, <1>7, <1>8, <2>1, <2>3 DEF Content
  <2>4. CASE ~(i < 2) /\ ~(i < 2 + HdrSize) /\ i < Required(f.len)
    BY <1>0, <1>5, <1>6, <1>7, <1>8, <2>1, <2>4 DEF Content
  <2>5. CASE ~(i < 2) /\ ~(i < 2 + HdrSize) /\ ~(i < Required(f.len))
    BY <1>0, <1>5, <1>6, <1>7, <1>8, <2>1, <2>5 DEF Content
  <2> QED
    BY <2>2, <2>3, <2>4, <2>5
<1> QED
  BY <1>7, <1>8, <1>9

-----------------------------------------------------------------------------
(* Lemmas about the layout of the ring.                                    *)

\* What a layout says of its offsets: they are distances in the part of the ring
\* that is in use, and that part is at least as long as the frames are many.
LEMMA OffsetTypes ==
  ASSUME NEW sq \in Ring, sq.avail \in 0 .. NET_SKBUF_SIZE,
         NEW frames \in Seq(Frame), NEW offset \in Offsets(frames), LaidOut(sq, frames, offset)
  PROVE  /\ Len(frames) \in Nat /\ sq.n = Len(frames) /\ sq.n <= NET_SKBUF_SIZE - sq.avail
         /\ NET_SKBUF_SIZE \in Nat \ {0}
         /\ \A k \in 0 .. Len(frames) :
              /\ offset[k] \in 0 .. NET_SKBUF_SIZE
              /\ offset[k] \in Nat /\ k <= offset[k] /\ offset[k] <= NET_SKBUF_SIZE - sq.avail
         /\ \A k \in 1 .. Len(frames) :
              /\ frames[k] \in Frame /\ k - 1 \in 0 .. Len(frames) /\ k \in 0 .. Len(frames)
<1>1. Len(frames) \in Nat /\ \A k \in 1 .. Len(frames) : frames[k] \in Frame
  BY LenProperties, ElementOfSeq
<1>2. sq.n = Len(frames) /\ NET_SKBUF_SIZE \in Nat \ {0}
  BY QueueAssumption DEF LaidOut
<1>3. \A k \in 0 .. Len(frames) : offset[k] \in 0 .. NET_SKBUF_SIZE
  BY DEF Offsets
<1>4. 0 \in 0 .. Len(frames) /\ Len(frames) \in 0 .. Len(frames)
  BY <1>1
<1>5. ASSUME NEW k \in 0 .. Len(frames)
      PROVE  offset[k] \in Nat /\ k <= offset[k] /\ offset[k] <= NET_SKBUF_SIZE - sq.avail
  <2>1. 0 <= k /\ k <= Len(frames) /\ k \in Int
    BY <1>1
  <2>2. offset[0] + (k - 0) <= offset[k] /\ offset[k] + (Len(frames) - k) <= offset[Len(frames)]
    BY <1>4, <2>1 DEF LaidOut, Increasing
  <2>3. offset[0] = 0 /\ offset[Len(frames)] = NET_SKBUF_SIZE - sq.avail
    BY DEF LaidOut
  <2>4. offset[k] \in Int
    BY <1>2, <1>3
  <2> QED
    BY <1>1, <1>2, <1>3, <2>1, <2>2, <2>3, <2>4
<1>6. sq.n <= NET_SKBUF_SIZE - sq.avail
  BY <1>2, <1>4, <1>5 DEF LaidOut
<1>7. \A k \in 1 .. Len(frames) : k - 1 \in 0 .. Len(frames) /\ k \in 0 .. Len(frames)
  BY <1>1
<1> QED
  BY <1>1, <1>2, <1>3, <1>5, <1>6, <1>7

\* A frame that fits is laid out after the others.
LEMMA LaidOutAfterStore ==
  ASSUME NEW sq \in Ring, sq.avail \in 0 .. NET_SKBUF_SIZE,
         NEW frames \in Seq(Frame), NEW offset \in Offsets(frames), LaidOut(sq, frames, offset),
         NEW f \in Frame, ~(sq.avail < Required(f.len)),
         NEW new, new = Storing(sq, f)
  PROVE  /\ new \in Ring /\ new.avail \in 0 .. NET_SKBUF_SIZE
         /\ Append(frames, f) \in Seq(Frame)
         /\ \E after \in Offsets(Append(frames, f)) : LaidOut(new, Append(frames, f), after)
<1> DEFINE S == NET_SKBUF_SIZE
           n == Len(frames)
           R == Required(f.len)
           more == Append(frames, f)
           after == [k \in 0 .. n + 1 |-> IF k <= n THEN offset[k] ELSE offset[n] + R]
<1>1. /\ n \in Nat /\ sq.n = n /\ S \in Nat \ {0}
      /\ \A k \in 0 .. n : offset[k] \in Nat /\ k <= offset[k] /\ offset[k] <= S - sq.avail
      /\ \A k \in 1 .. n : frames[k] \in Frame /\ k - 1 \in 0 .. n /\ k \in 0 .. n
  BY OffsetTypes
<1>2. /\ more \in Seq(Frame) /\ Len(more) = n + 1 /\ more[n + 1] = f
      /\ \A k \in 1 .. n : more[k] = frames[k]
  BY AppendProperties
<1>3. R \in Nat /\ R >= 1 /\ R <= sq.avail /\ sq.avail \in Nat /\ sq.avail <= S
  <2>1. R \in Nat /\ R = HdrSize + f.len + 2 /\ HdrSize \in Nat /\ f.len \in Nat
    BY FrameTypes
  <2> QED
    BY <1>1, <2>1
<1>4. Required(f.len) <= NET_SKBUF_SIZE
  BY <1>1, <1>3
<1>5. /\ new \in Ring /\ new.tail = sq.tail /\ new.n = sq.n + 1
      /\ new.head = Place(sq.head, R) /\ new.avail = sq.avail - R
      /\ \A i \in 0 .. S - 1 :
           new.buf[Place(sq.head, i)] =
             IF i < R THEN Content(f, i) ELSE sq.buf[Place(sq.head, i)]
  BY <1>4, FrameStored
<1>6. /\ sq.tail \in Int /\ sq.head = Place(sq.tail, S - sq.avail) /\ sq.head \in Int
      /\ offset[0] = 0 /\ offset[n] = S - sq.avail /\ Increasing(offset, n)
      /\ Adjacent(sq, frames, offset)
  BY CellTypes DEF LaidOut, Ring
<1> HIDE DEF R, n, S, more
<1>7. /\ \A k \in 0 .. n : k \in 0 .. n + 1 /\ after[k] = offset[k] /\ k \in Int /\ k <= n
      /\ after[n + 1] = offset[n] + R
      /\ \A k \in 0 .. n + 1 : k \in 0 .. n \/ k = n + 1
      /\ 0 \in 0 .. n /\ n \in 0 .. n /\ n + 1 \in 0 .. n + 1
  BY <1>1
<1>8. after \in [0 .. n + 1 -> 0 .. S]
  <2>1. ASSUME NEW k \in 0 .. n + 1
        PROVE  after[k] \in 0 .. S
    <3>1. CASE k \in 0 .. n
      BY <1>1, <1>3, <1>7, <3>1
    <3>2. CASE k = n + 1
      <4>1. after[k] = (S - sq.avail) + R
        BY <1>6, <1>7, <3>2
      <4> QED
        BY <1>1, <1>3, <4>1
    <3> QED
      BY <1>7, <3>1, <3>2
  <2> QED
    BY <2>1
<1> HIDE DEF after
<1>9. new.head = Place(new.tail, S - new.avail)
  <2>1. new.head = Place(sq.tail, (S - sq.avail) + R)
    <3>1. PICK u \in Int : u = S - sq.avail
      BY <1>1, <1>3
    <3>2. Place(Place(sq.tail, u), R) = Place(sq.tail, u + R)
      <4>1. R \in Int /\ u \in Int /\ sq.tail \in Int
        BY <1>3, <1>6
      <4> QED
        BY <4>1, PlacesAdd
    <3> QED
      BY <1>5, <1>6, <3>1, <3>2
  <2>2. (S - sq.avail) + R = S - new.avail
    BY <1>1, <1>3, <1>5
  <2> QED
    BY <1>5, <2>1, <2>2
<1>10. Increasing(after, n + 1)
  <2>1. SUFFICES ASSUME NEW k \in 0 .. n + 1, NEW l \in 0 .. n + 1, k <= l
                 PROVE  after[k] + (l - k) <= after[l]
    BY DEF Increasing
  <2>2. CASE l \in 0 .. n
    <3>1. k \in 0 .. n
      BY <1>1, <2>1, <2>2
    <3> QED
      BY <1>6, <1>7, <2>1, <2>2, <3>1 DEF Increasing
  <2>3. CASE k \in 0 .. n /\ l = n + 1
    <3>1. offset[k] + (n - k) <= offset[n]
      BY <1>6, <1>7, <2>3 DEF Increasing
    <3>2. after[k] = offset[k] /\ after[l] = offset[n] + R /\ offset[k] \in Int /\ offset[n] \in Int
          /\ k \in Int
      BY <1>1, <1>7, <2>3
    <3> QED
      BY <1>1, <1>3, <2>3, <3>1, <3>2
  <2>4. CASE k = n + 1 /\ l = n + 1
    <3>1. after[l] \in Int
      BY <1>1, <1>8
    <3> QED
      BY <1>1, <2>4, <3>1
  <2> QED
    BY <1>7, <2>2, <2>3, <2>4
<1>11. Adjacent(new, more, after)
  <2>1. SUFFICES ASSUME NEW k \in 1 .. n + 1
                 PROVE  /\ after[k] = after[k - 1] + Required(more[k].len)
                        /\ Holds(new, after[k - 1], more[k])
    BY <1>2, Zenon DEF Adjacent
  <2>2. CASE k \in 1 .. n
    <3>1. /\ frames[k] \in Frame /\ more[k] = frames[k] /\ k - 1 \in 0 .. n /\ k \in 0 .. n
          /\ after[k] = offset[k] /\ after[k - 1] = offset[k - 1]
      BY <1>1, <1>2, <1>7, <2>2
    <3>2. offset[k] = offset[k - 1] + Required(frames[k].len) /\ Holds(sq, offset[k - 1], frames[k])
      BY <1>6, <2>2 DEF Adjacent, n
    <3>3. Required(frames[k].len) \in Nat
      BY <3>1, FrameTypes
    <3>4. ASSUME NEW i \in 0 .. Required(frames[k].len) - 1
          PROVE  new.buf[Place(new.tail, offset[k - 1] + i)] = sq.buf[Place(sq.tail, offset[k - 1] + i)]
      <4>1. PICK p \in Nat : p = offset[k - 1] + i /\ p < S - sq.avail
        <5>1. offset[k - 1] \in Nat /\ offset[k] <= S - sq.avail /\ offset[k] \in Nat
          BY <1>1, <3>1
        <5>2. PICK r \in Nat : r = Required(frames[k].len) /\ i \in 0 .. r - 1
          BY <3>3
        <5>3. PICK o \in Nat : o = offset[k - 1] /\ o + r <= S - sq.avail
          BY <3>2, <5>1, <5>2
        <5>4. o + i \in Nat /\ o + i < o + r
          BY <5>2
        <5>5. PICK u \in Int : u = S - sq.avail
          BY <1>1, <1>3
        <5>6. o + r <= u
          BY <5>3, <5>5
        <5>7. o + i < u
          BY <5>4, <5>6
        <5> QED
          BY <5>3, <5>4, <5>5, <5>7
      <4>2. PICK j \in 0 .. S - 1 : j = p + sq.avail /\ ~(j < R)
        <5>1. PICK a \in Nat : a = sq.avail /\ R <= a /\ p < S - a
          BY <1>3, <4>1
        <5>2. S \in Nat /\ R \in Nat /\ p \in Nat /\ a \in Nat
          BY <1>1, <1>3
        <5>3. p + a \in 0 .. S - 1 /\ ~(p + a < R)
          <6>1. PICK s \in Nat : s = S
            BY <5>2
          <6>2. PICK r \in Nat : r = R
            BY <5>2
          <6>3. r <= a /\ p < s - a
            BY <5>1, <6>1, <6>2
          <6>4. p + a \in 0 .. s - 1 /\ ~(p + a < r)
            BY <6>3
          <6> QED
            BY <6>1, <6>2, <6>4
        <5> QED
          BY <5>1, <5>3
      <4>3. Place(sq.head, j) = Place(sq.tail, p)
        <5>1. Place(sq.head, j) = Place(sq.tail, (S - sq.avail) + j)
          <6>1. PICK u \in Int : u = S - sq.avail
            BY <1>1, <1>3
          <6>2. j \in Int
            BY <1>1, <4>2
          <6>3. sq.tail \in Int
            BY <1>6
          <6>4. Place(Place(sq.tail, u), j) = Place(sq.tail, u + j)
            BY <6>2, <6>3, PlacesAdd
          <6> QED
            BY <1>6, <6>1, <6>4
        <5>2. (S - sq.avail) + j = p + S
          <6>1. PICK s \in Int, a \in Int : s = S /\ a = sq.avail
            BY <1>1, <1>3
          <6>2. (s - a) + (p + a) = p + s
            OBVIOUS
          <6> QED
            BY <4>2, <6>1, <6>2, Zenon
        <5>3. Place(sq.tail, p + S) = Place(sq.tail, p)
          BY <1>6, <4>1, PlaceAround DEF S
        <5> QED
          BY <5>1, <5>2, <5>3
      <4>4. new.buf[Place(sq.head, j)] = sq.buf[Place(sq.head, j)]
        BY <1>5, <4>2
      <4> QED
        BY <1>5, <4>1, <4>3, <4>4
    <3>5. Holds(new, offset[k - 1], frames[k])
      BY <3>2, <3>4, Zenon DEF Holds
    <3> QED
      BY <3>1, <3>2, <3>5
  <2>3. CASE k = n + 1
    <3>1. /\ more[k] = f /\ after[k] = offset[n] + R /\ after[k - 1] = offset[n]
          /\ offset[n] = S - sq.avail
      <4>1. k - 1 = n
        BY <1>1, <2>3
      <4> QED
        BY <1>2, <1>6, <1>7, <2>3, <4>1
    <3>2. ASSUME NEW i \in 0 .. R - 1
          PROVE  new.buf[Place(new.tail, (S - sq.avail) + i)] = Content(f, i)
      <4>1. i \in 0 .. S - 1 /\ i < R /\ i \in Int /\ S - sq.avail \in Int
        BY <1>1, <1>3
      <4>2. Place(sq.head, i) = Place(sq.tail, (S - sq.avail) + i)
        <5>1. PICK u \in Int : u = S - sq.avail
          BY <4>1
        <5>2. Place(Place(sq.tail, u), i) = Place(sq.tail, u + i)
          BY <1>6, <4>1, PlacesAdd
        <5> QED
          BY <1>6, <5>1, <5>2
      <4> QED
        BY <1>5, <4>1, <4>2
    <3>3. Holds(new, S - sq.avail, f)
      BY <3>2 DEF Holds, R
    <3> QED
      BY <3>1, <3>3 DEF R
  <2>4. k \in 1 .. n \/ k = n + 1
    BY <1>1, <2>1
  <2> QED
    BY <2>2, <2>3, <2>4
<1>12. /\ new.n = Len(more) /\ after[0] = 0 /\ after[Len(more)] = S - new.avail
       /\ new.avail \in 0 .. S
  <2>1. after[Len(more)] = (S - sq.avail) + R
    BY <1>2, <1>6, <1>7
  <2>2. (S - sq.avail) + R = S - new.avail /\ new.avail \in 0 .. S
    BY <1>1, <1>3, <1>5
  <2>3. after[0] = 0 /\ new.n = Len(more)
    BY <1>1, <1>2, <1>5, <1>6, <1>7
  <2> QED
    BY <2>1, <2>2, <2>3
<1>13. LaidOut(new, more, after)
  <2>1. Len(more) = n + 1
    BY <1>2
  <2> QED
    BY <1>9, <1>10, <1>11, <1>12, <2>1, Zenon DEF LaidOut, S
<1>14. after \in Offsets(more)
  BY <1>2, <1>8, Zenon DEF Offsets, S
<1> QED
  BY <1>2, <1>5, <1>12, <1>13, <1>14, Zenon DEF more, S

\* The ring without its first frame.
Fetching(sq, len) == [WrapCopyIn(SkipHeader(WrapCopyIn(sq, 2)), len) EXCEPT !.n = @ - 1]

\* wrap_copy_in() moves the tail.
LEMMA TailMoved ==
  ASSUME NEW sq \in Ring, NEW d \in Nat
  PROVE  /\ WrapCopyIn(sq, d) \in Ring
         /\ WrapCopyIn(sq, d).tail = Place(sq.tail, d) /\ WrapCopyIn(sq, d).avail = sq.avail + d
         /\ WrapCopyIn(sq, d).buf = sq.buf /\ WrapCopyIn(sq, d).head = sq.head
         /\ WrapCopyIn(sq, d).n = sq.n
<1>1. WrapCopyIn(sq, d) = [sq EXCEPT !.tail = Place(sq.tail, d), !.avail = sq.avail + d]
  BY Zenon DEF WrapCopyIn, Place
<1>2. sq.tail \in Cells /\ sq.tail \in Int /\ sq.avail \in Int /\ d \in Int
  BY CellTypes DEF Ring
<1>3. PICK tail \in Cells : tail = Place(sq.tail, d)
  BY <1>2, PlaceIsCell
<1>4. PICK avail \in Int : avail = sq.avail + d
  BY <1>2
<1>5. WrapCopyIn(sq, d) = [sq EXCEPT !.tail = tail, !.avail = avail]
  BY <1>1, <1>3, <1>4
<1> QED
  BY <1>3, <1>4, <1>5 DEF Ring

\* What ptpd_netif_recvfrom() finds in the ring, and the ring that it leaves.
LEMMA FrameFetched ==
  ASSUME NEW sq \in Ring, NEW f \in Frame, Holds(sq, 0, f)
  PROVE  /\ Peek(sq, 2)[1] = f.len
         /\ Peek(WrapCopyIn(sq, 2), HdrSize)[1] = f.id
         /\ Peek(SkipHeader(WrapCopyIn(sq, 2)), f.len) = Constantly(f.id, f.len)
         /\ Fetching(sq, f.len) \in Ring /\ Fetching(sq, f.len).n = sq.n - 1
         /\ Fetching(sq, f.len).tail = Place(sq.tail, Required(f.len))
         /\ Fetching(sq, f.len).avail = sq.avail + Required(f.len)
         /\ Fetching(sq, f.len).buf = sq.buf /\ Fetching(sq, f.len).head = sq.head
<1> DEFINE R == Required(f.len)
<1>0. /\ f.len \in Nat \ {0} /\ HdrSize \in Nat \ {0} /\ R = HdrSize + f.len + 2 /\ R \in Nat
      /\ sq.tail \in Int /\ sq.avail \in Int /\ sq.n \in Int
  BY FrameTypes, CellTypes DEF Ring
<1> HIDE DEF R
<1>1. PICK at : at = WrapCopyIn(sq, 2)
  OBVIOUS
<1>2. PICK rest : rest = WrapCopyIn(at, HdrSize)
  OBVIOUS
<1>3. PICK last : last = WrapCopyIn(rest, f.len)
  OBVIOUS
<1>4. at \in Ring /\ at.tail = Place(sq.tail, 2) /\ at.avail = sq.avail + 2
      /\ at.buf = sq.buf /\ at.head = sq.head /\ at.n = sq.n
  BY <1>1, TailMoved
<1>5. rest \in Ring /\ rest.tail = Place(sq.tail, 2 + HdrSize)
      /\ rest.avail = sq.avail + 2 + HdrSize
      /\ rest.buf = sq.buf /\ rest.head = sq.head /\ rest.n = sq.n
  <2>1. HdrSize \in Nat
    BY <1>0
  <2>2. /\ rest \in Ring /\ rest.tail = Place(at.tail, HdrSize) /\ rest.avail = at.avail + HdrSize
        /\ rest.buf = at.buf /\ rest.head = at.head /\ rest.n = at.n
    BY <1>2, <1>4, <2>1, TailMoved
  <2>3. Place(Place(sq.tail, 2), HdrSize) = Place(sq.tail, 2 + HdrSize)
    <3>1. PICK d \in Int : d = 2
      OBVIOUS
    <3>2. HdrSize \in Int /\ sq.tail \in Int
      BY <1>0
    <3>3. Place(Place(sq.tail, d), HdrSize) = Place(sq.tail, d + HdrSize)
      BY <3>2, PlacesAdd, Zenon
    <3> QED
      BY <3>1, <3>3
  <2> QED
    BY <1>4, <2>2, <2>3
<1>6. last \in Ring /\ last.tail = Place(sq.tail, R) /\ last.avail = sq.avail + R
      /\ last.buf = sq.buf /\ last.head = sq.head /\ last.n = sq.n
  <2>1. f.len \in Nat
    BY <1>0
  <2>2. /\ last \in Ring /\ last.tail = Place(rest.tail, f.len) /\ last.avail = rest.avail + f.len
        /\ last.buf = rest.buf /\ last.head = rest.head /\ last.n = rest.n
    BY <1>3, <1>5, <2>1, TailMoved
  <2>3. PICK d \in Int : d = 2 + HdrSize
    BY <1>0
  <2>4. f.len \in Int /\ sq.tail \in Int /\ d + f.len = R
    BY <1>0, <2>3
  <2>5. Place(Place(sq.tail, d), f.len) = Place(sq.tail, d + f.len)
    BY <2>4, PlacesAdd, Zenon
  <2>6. sq.avail + 2 + HdrSize + f.len = sq.avail + R
    BY <1>0
  <2> QED
    BY <1>5, <2>2, <2>3, <2>4, <2>5, <2>6
<1>7. Fetching(sq, f.len) = [last EXCEPT !.n = last.n - 1]
  BY <1>1, <1>2, <1>3, Zenon DEF Fetching, SkipHeader
<1>8. \A i \in 0 .. R - 1 : sq.buf[Place(sq.tail, i)] = Content(f, i)
  <2>1. SUFFICES ASSUME NEW i \in 0 .. R - 1
                 PROVE  sq.buf[Place(sq.tail, i)] = Content(f, i)
    OBVIOUS
  <2>2. 0 + i = i
    BY <1>0
  <2>3. sq.buf[Place(sq.tail, 0 + i)] = Content(f, i)
    BY DEF Holds, R
  <2> QED
    BY <2>2, <2>3
<1>9. Peek(sq, 2)[1] = f.len
  <2>1. Peek(sq, 2)[1] = sq.buf[(sq.tail + 1 - 1) % NET_SKBUF_SIZE]
    BY DEF Peek
  <2>2. sq.tail + 1 - 1 = sq.tail + 0 /\ 0 \in 0 .. R - 1
    BY <1>0
  <2>3. sq.buf[Place(sq.tail, 0)] = f.len
    BY <1>8, <2>2 DEF Content
  <2> QED
    BY <2>1, <2>2, <2>3 DEF Place
<1>10. Peek(at, HdrSize)[1] = f.id
  <2>1. 1 \in 1 .. HdrSize
    BY <1>0
  <2>2. Peek(at, HdrSize)[1] = at.buf[(at.tail + 1 - 1) % NET_SKBUF_SIZE]
    BY <2>1 DEF Peek
  <2>3. at.tail \in Int
    BY <1>4, CellTypes DEF Ring
  <2>4. at.tail + 1 - 1 = at.tail + 0
    BY <2>3
  <2>5. Peek(at, HdrSize)[1] = at.buf[Place(at.tail, 0)]
    BY <2>2, <2>4 DEF Place
  <2>6. Place(at.tail, 0) = Place(sq.tail, 2)
    <3>1. Place(sq.tail, 2) \in Cells
      BY <1>4 DEF Ring
    <3> QED
      BY <1>4, <3>1, PlaceHere
  <2>7. 2 \in 0 .. R - 1
    BY <1>0
  <2> QED
    BY <1>4, <1>8, <2>5, <2>6, <2>7 DEF Content
<1>11. Peek(rest, f.len) = Constantly(f.id, f.len)
  <2>1. ASSUME NEW i \in 1 .. f.len
        PROVE  rest.buf[(rest.tail + i - 1) % NET_SKBUF_SIZE] = f.id
    <3>1. PICK j \in 0 .. R - 1 : j = (2 + HdrSize) + (i - 1) /\ ~(j < 2)
      <4>1. (2 + HdrSize) + (i - 1) \in 0 .. R - 1 /\ ~((2 + HdrSize) + (i - 1) < 2)
        BY <1>0
      <4> QED
        BY <4>1
    <3>2. PICK d \in Int : d = 2 + HdrSize
      BY <1>0
    <3>3. PICK e \in Int : e = i - 1
      BY <1>0
    <3>4. Place(Place(sq.tail, d), e) = Place(sq.tail, d + e)
      <4>1. sq.tail \in Int
        BY <1>0
      <4> QED
        BY <4>1, PlacesAdd, Zenon
    <3>5. rest.tail \in Int
      BY <1>5, CellTypes DEF Ring
    <3>6. rest.tail + i - 1 = rest.tail + e
      BY <1>0, <3>3, <3>5
    <3>7. rest.buf[Place(rest.tail, e)] = sq.buf[Place(sq.tail, j)]
      BY <1>5, <3>1, <3>2, <3>3, <3>4
    <3>8. rest.buf[Place(rest.tail, e)] = f.id
      BY <1>8, <3>1, <3>7 DEF Content
    <3> QED
      BY <3>6, <3>8 DEF Place
  <2> QED
    BY <2>1, Zenon DEF Peek, Constantly
<1>12. LET new == Fetching(sq, f.len)
       IN  /\ new \in Ring /\ new.n = sq.n - 1 /\ new.tail = last.tail /\ new.avail = last.avail
           /\ new.buf = last.buf /\ new.head = last.head
  <2>1. last.n - 1 \in Int /\ last.n = sq.n
    BY <1>0, <1>6
  <2> QED
    BY <1>6, <1>7, <2>1 DEF Ring
<1> QED
  BY <1>1, <1>2, <1>6, <1>9, <1>10, <1>11, <1>12 DEF R, SkipHeader

\* The other frames are laid out from the tail that is left.
LEMMA LaidOutAfterFetch ==
  ASSUME NEW sq \in Ring, sq.avail \in 0 .. NET_SKBUF_SIZE,
         NEW frames \in Seq(Frame), NEW offset \in Offsets(frames), LaidOut(sq, frames, offset),
         frames # <<>>, NEW f, f = frames[1], NEW new, new = Fetching(sq, f.len)
  PROVE  /\ f \in Frame /\ Holds(sq, 0, f)
         /\ new \in Ring /\ new.avail \in 0 .. NET_SKBUF_SIZE
         /\ Tail(frames) \in Seq(Frame)
         /\ \E after \in Offsets(Tail(frames)) : LaidOut(new, Tail(frames), after)
<1> DEFINE S == NET_SKBUF_SIZE
           n == Len(frames)
           R == Required(f.len)
           less == Tail(frames)
           after == [k \in 0 .. n - 1 |-> offset[k + 1] - R]
<1>1. /\ n \in Nat /\ sq.n = n /\ S \in Nat \ {0}
      /\ \A k \in 0 .. n : offset[k] \in Nat /\ k <= offset[k] /\ offset[k] <= S - sq.avail
      /\ \A k \in 1 .. n : frames[k] \in Frame /\ k - 1 \in 0 .. n /\ k \in 0 .. n
  BY OffsetTypes
<1>2. n >= 1 /\ 1 \in 1 .. n
  BY EmptySeq, <1>1
<1>3. /\ less \in Seq(Frame) /\ Len(less) = n - 1
      /\ \A k \in 1 .. n - 1 : less[k] = frames[k + 1]
  BY HeadTailProperties
<1>4. /\ sq.tail \in Int /\ sq.head = Place(sq.tail, S - sq.avail) /\ sq.avail \in Nat /\ sq.avail <= S
      /\ offset[0] = 0 /\ offset[n] = S - sq.avail /\ Increasing(offset, n)
      /\ Adjacent(sq, frames, offset)
  BY <1>1, CellTypes DEF LaidOut, Ring
<1>5. f \in Frame /\ offset[1] = R /\ Holds(sq, 0, f) /\ R \in Nat
  <2>1. f \in Frame
    BY <1>1, <1>2
  <2>2. R \in Nat
    BY <2>1, FrameTypes
  <2>3. offset[1] = offset[1 - 1] + Required(frames[1].len) /\ Holds(sq, offset[1 - 1], frames[1])
    BY <1>2, <1>4 DEF Adjacent
  <2>4. 1 - 1 = 0 /\ 0 + R = R
    BY <2>2
  <2> QED
    BY <1>4, <2>1, <2>2, <2>3, <2>4
<1>6. /\ new \in Ring /\ new.n = sq.n - 1
      /\ new.tail = Place(sq.tail, R) /\ new.avail = sq.avail + R
      /\ new.buf = sq.buf /\ new.head = sq.head
  BY <1>5, FrameFetched
<1> HIDE DEF R, n, S, less
<1>7. \A k \in 0 .. n - 1 :
        /\ k \in Nat /\ k + 1 \in 0 .. n /\ k + 1 \in 1 .. n
        /\ offset[k + 1] \in Nat /\ R + k <= offset[k + 1] /\ offset[k + 1] <= S - sq.avail
        /\ after[k] = offset[k + 1] - R
  <2>1. SUFFICES ASSUME NEW k \in 0 .. n - 1
                 PROVE  /\ k \in Nat /\ k + 1 \in 0 .. n /\ k + 1 \in 1 .. n
                        /\ offset[k + 1] \in Nat /\ R + k <= offset[k + 1]
                        /\ offset[k + 1] <= S - sq.avail /\ after[k] = offset[k + 1] - R
    OBVIOUS
  <2>2. k \in Nat /\ k + 1 \in 0 .. n /\ k + 1 \in 1 .. n /\ 1 \in 0 .. n /\ 1 <= k + 1
    BY <1>1, <1>2
  <2>3. PICK l \in 0 .. n : l = k + 1
    BY <2>2
  <2>4. offset[1] + (l - 1) <= offset[l]
    BY <1>4, <2>2, <2>3 DEF Increasing
  <2>5. offset[k + 1] \in Nat /\ offset[k + 1] <= S - sq.avail
    BY <1>1, <2>2
  <2>6. l - 1 = k
    BY <2>2, <2>3
  <2>7. R + k <= offset[k + 1]
    BY <1>5, <2>3, <2>4, <2>6
  <2> QED
    BY <2>2, <2>5, <2>7
<1>8. after \in [0 .. n - 1 -> 0 .. S]
  <2>1. ASSUME NEW k \in 0 .. n - 1
        PROVE  offset[k + 1] - R \in 0 .. S
    <3>1. PICK o \in Nat : o = offset[k + 1] /\ R + k <= o /\ o <= S - sq.avail /\ k \in Nat
      BY <1>7
    <3>2. o - R \in 0 .. S
      <4>1. S \in Nat /\ sq.avail \in Nat /\ R \in Nat
        BY <1>1, <1>4, <1>5
      <4>2. PICK a \in Nat : a = sq.avail /\ o <= S - a
        BY <3>1, <4>1
      <4>3. PICK s \in Nat : s = S
        BY <4>1
      <4>4. PICK r \in Nat : r = R
        BY <4>1
      <4>5. r + k <= o /\ o <= s - a
        BY <3>1, <4>2, <4>3, <4>4
      <4>6. o - r \in 0 .. s
        BY <3>1, <4>5
      <4> QED
        BY <4>3, <4>4, <4>6
    <3> QED
      BY <3>1, <3>2
  <2> QED
    BY <2>1
<1>9. \A k \in 0 .. n - 1 : after[k] \in Int
  BY <1>1, <1>8
<1> HIDE DEF after
<1>10. new.avail \in 0 .. S /\ sq.avail + R <= S
  <2>1. 1 \in 0 .. n
    BY <1>1, <1>2
  <2>2. R <= S - sq.avail
    BY <1>1, <1>5, <2>1
  <2>3. PICK a \in Nat : a = sq.avail /\ R <= S - a
    BY <1>4, <2>2
  <2>4. a + R \in 0 .. S
    BY <1>1, <1>5, <2>3
  <2> QED
    BY <1>6, <2>3, <2>4
<1>11. new.head = Place(new.tail, S - new.avail)
  <2>1. PICK u \in Int : u = S - new.avail
    BY <1>1, <1>10
  <2>2. R + u = S - sq.avail
    BY <1>1, <1>4, <1>5, <1>6, <2>1
  <2>3. R \in Int /\ sq.tail \in Int
    BY <1>4, <1>5
  <2>4. Place(Place(sq.tail, R), u) = Place(sq.tail, R + u)
    BY <2>3, PlacesAdd
  <2> QED
    BY <1>4, <1>6, <2>1, <2>2, <2>4
<1>12. Increasing(after, n - 1)
  <2>1. SUFFICES ASSUME NEW k \in 0 .. n - 1, NEW l \in 0 .. n - 1, k <= l
                 PROVE  after[k] + (l - k) <= after[l]
    BY DEF Increasing
  <2>2. PICK i \in 0 .. n : i = k + 1
    BY <1>7
  <2>3. PICK j \in 0 .. n : j = l + 1
    BY <1>7
  <2>4. k \in Nat /\ l \in Nat
    BY <1>7
  <2>5. i <= j /\ j - i = l - k
    BY <2>1, <2>2, <2>3, <2>4
  <2>6. offset[i] + (j - i) <= offset[j]
    BY <1>4, <2>5 DEF Increasing
  <2>7. after[k] = offset[i] - R /\ after[l] = offset[j] - R /\ offset[i] \in Int /\ offset[j] \in Int
    BY <1>7, <2>2, <2>3
  <2>8. PICK x \in Int : x = offset[i]
    BY <2>7
  <2>9. PICK y \in Int : y = offset[j]
    BY <2>7
  <2>10. PICK r \in Int : r = R
    BY <1>5
  <2>11. x + (l - k) <= y
    BY <2>5, <2>6, <2>8, <2>9
  <2>12. x - r + (l - k) <= y - r
    BY <2>4, <2>11
  <2> QED
    BY <2>7, <2>8, <2>9, <2>10, <2>12
<1>13. Adjacent(new, less, after)
  <2>1. SUFFICES ASSUME NEW k \in 1 .. n - 1
                 PROVE  /\ after[k] = after[k - 1] + Required(less[k].len)
                        /\ Holds(new, after[k - 1], less[k])
    BY <1>3, Zenon DEF Adjacent
  <2>2. PICK l \in 1 .. n : l = k + 1
    BY <1>1
  <2>3. k \in 0 .. n - 1 /\ k - 1 \in 0 .. n - 1 /\ k \in Int /\ (k - 1) + 1 = k /\ l - 1 = k
    BY <1>1, <2>2
  <2>4. less[k] = frames[l] /\ frames[l] \in Frame
    BY <1>1, <1>3, <2>2
  <2>5. PICK r \in Nat : r = Required(frames[l].len)
    BY <2>4, FrameTypes
  <2>6. offset[l] = offset[k] + r /\ Holds(sq, offset[k], frames[l])
    BY <1>4, <2>2, <2>3, <2>5 DEF Adjacent, n
  <2>7. after[k] = offset[l] - R /\ after[k - 1] = offset[k] - R
    BY <1>7, <2>2, <2>3
  <2>8. PICK o \in Nat : o = offset[k] /\ o - R \in Int /\ R \in Int
    BY <1>5, <1>7, <2>3
  <2>9. after[k] = after[k - 1] + Required(less[k].len)
    BY <1>5, <2>4, <2>5, <2>6, <2>7, <2>8
  <2>10. ASSUME NEW i \in 0 .. r - 1
         PROVE  new.buf[Place(new.tail, after[k - 1] + i)] = Content(less[k], i)
    <3>1. PICK d \in Int : d = (o - R) + i /\ R + d = o + i
      <4>1. i \in Int
        BY <2>5
      <4>2. (o - R) + i \in Int /\ R + ((o - R) + i) = o + i
        BY <2>8, <4>1
      <4> QED
        BY <4>2
    <3>2. Place(Place(sq.tail, R), d) = Place(sq.tail, R + d)
      BY <1>4, <2>8, PlacesAdd
    <3>3. sq.buf[Place(sq.tail, o + i)] = Content(frames[l], i)
      BY <2>5, <2>6, <2>8 DEF Holds
    <3> QED
      BY <1>6, <2>4, <2>7, <2>8, <3>1, <3>2, <3>3
  <2>11. Holds(new, after[k - 1], less[k])
    BY <2>4, <2>5, <2>10, Zenon DEF Holds
  <2> QED
    BY <2>9, <2>11
<1>14. new.n = Len(less) /\ after[0] = 0 /\ after[Len(less)] = S - new.avail
  <2>1. 0 \in 0 .. n - 1 /\ n - 1 \in 0 .. n - 1 /\ 0 + 1 = 1 /\ (n - 1) + 1 = n
    BY <1>1, <1>2
  <2>2. after[0] = offset[1] - R /\ after[n - 1] = offset[n] - R
    BY <1>7, <2>1
  <2>3. (S - sq.avail) - R = S - new.avail
    BY <1>1, <1>4, <1>5, <1>6
  <2> QED
    BY <1>1, <1>3, <1>4, <1>5, <1>6, <2>2, <2>3
<1>15. LaidOut(new, less, after)
  BY <1>3, <1>11, <1>12, <1>13, <1>14, Zenon DEF LaidOut, S
<1>16. after \in Offsets(less)
  BY <1>3, <1>8, Zenon DEF Offsets, S
<1> QED
  BY <1>3, <1>5, <1>6, <1>10, <1>15, <1>16, Zenon DEF less, S

-----------------------------------------------------------------------------
(* The invariant.                                                          *)

\* The ring is typed, with less than it holds in use.
LEMMA RingTypes ==
  ASSUME NEW sq
  PROVE  sq \in [buf : [Cells -> Ids \cup Payloads], head : Cells, tail : Cells,
                 avail : 0 .. NET_SKBUF_SIZE, n : 0 .. NET_SKBUF_SIZE]
         <=> sq \in Ring /\ sq.avail \in 0 .. NET_SKBUF_SIZE /\ sq.n \in 0 .. NET_SKBUF_SIZE
<1>1. 0 .. NET_SKBUF_SIZE \subseteq Int
  BY QueueAssumption
<1> HIDE DEF Cells
<1> QED
  BY <1>1 DEF Ring

\* The empty ring.
LEMMA InitInvariant == Init => IInv
<1> SUFFICES ASSUME Init PROVE IInv
  OBVIOUS
<1>0. NET_SKBUF_SIZE \in Nat \ {0}
  BY QueueAssumption
<1>1. PICK garbage \in Ids :
        q = [buf |-> [c \in Cells |-> garbage], head |-> 0, tail |-> 0,
             avail |-> NET_SKBUF_SIZE, n |-> 0]
  BY DEF Init
<1>2. 0 \in Cells /\ 0 \in 0 .. NET_SKBUF_SIZE /\ NET_SKBUF_SIZE \in 0 .. NET_SKBUF_SIZE
  BY <1>0 DEF Cells
<1>3. TypeOK
  BY <1>1, <1>2 DEF TypeOK
<1> DEFINE offset == [k \in 0 .. 0 |-> 0]
<1>4. <<>> \in Seq(Frame) /\ Len(<<>>) = 0
  OBVIOUS
<1>5. offset \in Offsets(<<>>)
  BY <1>2, <1>4 DEF Offsets
<1>6. LaidOut(q, <<>>, offset)
  <2>1. Increasing(offset, 0) /\ Adjacent(q, <<>>, offset) /\ offset[0] = 0
    BY <1>4 DEF Increasing, Adjacent
  <2>2. NET_SKBUF_SIZE - q.avail = 0 /\ q.n = 0 /\ q.head = 0 /\ q.tail = 0
    BY <1>0, <1>1
  <2>3. Place(0, 0) = 0
    BY <1>2, PlaceHere
  <2> HIDE DEF offset
  <2> QED
    BY <1>4, <2>1, <2>2, <2>3 DEF LaidOut
<1> HIDE DEF offset
<1> QED
  BY <1>3, <1>4, <1>5, <1>6 DEF IInv

\* A layout bounds the number of frames.
LEMMA LayoutTyped ==
  ASSUME NEW sq \in Ring, sq.avail \in 0 .. NET_SKBUF_SIZE,
         NEW frames \in Seq(Frame), NEW offset \in Offsets(frames), LaidOut(sq, frames, offset)
  PROVE  sq.n \in 0 .. NET_SKBUF_SIZE
<1>1. Len(frames) \in Nat /\ sq.n = Len(frames) /\ sq.n <= NET_SKBUF_SIZE - sq.avail
      /\ NET_SKBUF_SIZE \in Nat
  BY OffsetTypes
<1>2. PICK a \in Nat : a = sq.avail /\ sq.n <= NET_SKBUF_SIZE - a
  BY <1>1
<1> QED
  BY <1>1, <1>2

\* What update_rx_queues() does, with the frames that the ring holds.
LEMMA UpdateSteps ==
  ASSUME TypeOK, NEW frames \in Seq(Frame), NEW offset \in Offsets(frames),
         LaidOut(q, frames, offset), UpdateRxQueues
  PROVE  \E f \in Frame :
           \/ q.avail < Required(f.len) /\ done' = <<"dropped", f>> /\ UNCHANGED q
           \/ /\ ~(q.avail < Required(f.len)) /\ done' = <<"stored", f>>
              /\ TypeOK' /\ Append(frames, f) \in Seq(Frame)
              /\ \E after \in Offsets(Append(frames, f)) : LaidOut(q', Append(frames, f), after)
<1>1. q \in Ring /\ q.avail \in 0 .. NET_SKBUF_SIZE
  BY RingTypes DEF TypeOK
<1>2. PICK f \in Frame :
        \/ q.avail < Required(f.len) /\ done' = <<"dropped", f>> /\ UNCHANGED q
        \/ q.avail >= Required(f.len) /\ done' = <<"stored", f>> /\ q' = Storing(q, f)
  BY Zenon DEF UpdateRxQueues, Storing
<1>3. CASE q.avail >= Required(f.len) /\ done' = <<"stored", f>> /\ q' = Storing(q, f)
  <2>1. ~(q.avail < Required(f.len))
    <3>1. q.avail \in Int /\ Required(f.len) \in Int
      BY <1>1, FrameTypes DEF Ring
    <3> QED
      BY <1>3, <3>1
  <2>2. PICK new : new = Storing(q, f)
    OBVIOUS
  <2>3. new \in Ring /\ new.avail \in 0 .. NET_SKBUF_SIZE /\ Append(frames, f) \in Seq(Frame)
    BY <1>1, <2>1, <2>2, LaidOutAfterStore
  <2>4. PICK after \in Offsets(Append(frames, f)) : LaidOut(new, Append(frames, f), after)
    BY <1>1, <2>1, <2>2, LaidOutAfterStore
  <2>5. new.n \in 0 .. NET_SKBUF_SIZE
    BY <2>3, <2>4, LayoutTyped
  <2>6. TypeOK'
    BY <1>3, <2>2, <2>3, <2>5, RingTypes DEF TypeOK
  <2> QED
    BY <1>3, <2>1, <2>2, <2>3, <2>4, <2>6
<1> QED
  BY <1>2, <1>3

\* What ptpd_netif_recvfrom() does, with the frames that the ring holds: the frame
\* that it returns is whole.
LEMMA RecvfromSteps ==
  ASSUME TypeOK, NEW frames \in Seq(Frame), NEW offset \in Offsets(frames),
         LaidOut(q, frames, offset), PtpdNetifRecvfrom
  PROVE  /\ frames # <<>> /\ done' = <<"fetched", Head(frames)>>
         /\ TypeOK' /\ Tail(frames) \in Seq(Frame)
         /\ \E after \in Offsets(Tail(frames)) : LaidOut(q', Tail(frames), after)
<1>1. q \in Ring /\ q.avail \in 0 .. NET_SKBUF_SIZE
  BY RingTypes DEF TypeOK
<1>2. frames # <<>> /\ Head(frames) = frames[1]
  <2>1. q.n > 0 /\ q.n = Len(frames)
    BY DEF PtpdNetifRecvfrom, LaidOut
  <2> QED
    BY <2>1, EmptySeq
<1>3. PICK f : f = frames[1]
  OBVIOUS
<1>4. PICK new : new = Fetching(q, f.len)
  OBVIOUS
<1>5. /\ f \in Frame /\ Holds(q, 0, f) /\ new \in Ring /\ new.avail \in 0 .. NET_SKBUF_SIZE
      /\ Tail(frames) \in Seq(Frame)
  BY <1>1, <1>2, <1>3, <1>4, LaidOutAfterFetch
<1>6. PICK after \in Offsets(Tail(frames)) : LaidOut(new, Tail(frames), after)
  BY <1>1, <1>2, <1>3, <1>4, LaidOutAfterFetch
<1>7. new.n \in 0 .. NET_SKBUF_SIZE
  BY <1>5, <1>6, LayoutTyped
<1>8. /\ Peek(q, 2)[1] = f.len
      /\ Peek(WrapCopyIn(q, 2), HdrSize)[1] = f.id
      /\ Peek(SkipHeader(WrapCopyIn(q, 2)), f.len) = Constantly(f.id, f.len)
  BY <1>1, <1>5, FrameFetched
<1>9. Least(f.len, DataLength) = f.len
  <2>1. f.len <= DataLength /\ f.len \in Nat /\ DataLength \in Nat
    BY <1>5, FrameTypes, BufferAssumption, QueueAssumption
  <2> QED
    BY <2>1 DEF Least
<1>10. q' = new /\ done' = <<"fetched", [id |-> f.id, len |-> f.len]>>
  BY <1>4, <1>8, <1>9 DEF PtpdNetifRecvfrom, Fetching
<1>11. [id |-> f.id, len |-> f.len] = f
  BY <1>5 DEF Frame
<1>12. TypeOK'
  BY <1>5, <1>7, <1>10, RingTypes DEF TypeOK
<1> QED
  BY <1>2, <1>3, <1>5, <1>6, <1>10, <1>11, <1>12

\* Every step preserves the invariant.
LEMMA StepInvariant == IInv /\ [Next]_vars => IInv'
<1> SUFFICES ASSUME IInv, [Next]_vars PROVE IInv'
  OBVIOUS
<1>0. PICK frames \in Seq(Frame) : \E offset \in Offsets(frames) : LaidOut(q, frames, offset)
  BY DEF IInv
<1>1. PICK offset \in Offsets(frames) : LaidOut(q, frames, offset)
  BY <1>0
<1>2. TypeOK
  BY DEF IInv
<1>3. ASSUME q' = q PROVE IInv'
  BY <1>3 DEF IInv, TypeOK
<1>4. CASE UpdateRxQueues
  BY <1>1, <1>2, <1>3, <1>4, UpdateSteps, Zenon DEF IInv
<1>5. CASE PtpdNetifRecvfrom
  BY <1>1, <1>2, <1>5, RecvfromSteps, Zenon DEF IInv
<1>6. CASE UNCHANGED vars
  BY <1>3, <1>6 DEF vars
<1> QED
  BY <1>4, <1>5, <1>6 DEF Next

\* The invariant holds in every reachable state.
LEMMA Invariance == Spec => []IInv
BY InitInvariant, StepInvariant, PTL DEF Spec

\* The ring is typed: head and tail stay in it, and no more is free than it holds.
THEOREM TypeCorrect == Spec => []TypeOK
<1>1. IInv => TypeOK
  BY DEF IInv
<1> QED
  BY <1>1, Invariance, PTL

\* avail is what lies between the head and the tail, and all of the ring is free
\* exactly when it counts no frame (update_rx_queues(), ptpd_netif_recvfrom()).
THEOREM AvailIsExact == Spec => []AvailExact
<1>1. ASSUME IInv PROVE AvailExact
  <2>0. PICK frames \in Seq(Frame) : \E offset \in Offsets(frames) : LaidOut(q, frames, offset)
    BY <1>1 DEF IInv
  <2>1. PICK offset \in Offsets(frames) : LaidOut(q, frames, offset)
    BY <2>0
  <2>2. q \in Ring /\ q.avail \in 0 .. NET_SKBUF_SIZE
    BY <1>1, RingTypes DEF IInv, TypeOK
  <2>3. /\ Len(frames) \in Nat /\ q.n = Len(frames) /\ q.n <= NET_SKBUF_SIZE - q.avail
        /\ NET_SKBUF_SIZE \in Nat \ {0}
    BY <2>1, <2>2, OffsetTypes
  <2>4. q.tail \in Cells /\ q.tail \in Int /\ q.head = Place(q.tail, NET_SKBUF_SIZE - q.avail)
    BY <2>1, <2>2, CellTypes DEF Ring, LaidOut
  <2>5. PICK u \in 0 .. NET_SKBUF_SIZE : u = NET_SKBUF_SIZE - q.avail
    BY <2>2, <2>3
  <2>6. (q.head - q.tail) % NET_SKBUF_SIZE = u % NET_SKBUF_SIZE
    <3>1. CASE u \in 0 .. NET_SKBUF_SIZE - 1
      <4>1. (Place(q.tail, u) - q.tail) % NET_SKBUF_SIZE = u
        BY <2>4, <3>1, Distance
      <4>2. u = NET_SKBUF_SIZE * 0 + u
        BY <2>3
      <4>3. u % NET_SKBUF_SIZE = u
        BY <2>3, <3>1, <4>2, RemainderUnique
      <4> QED
        BY <2>4, <2>5, <4>1, <4>3
    <3>2. CASE u = NET_SKBUF_SIZE
      <4>1. Place(q.tail, u) = Place(q.tail, 0)
        <5>1. Place(q.tail, 0 + NET_SKBUF_SIZE) = Place(q.tail, 0)
          BY <2>4, PlaceAround
        <5> QED
          BY <2>3, <3>2, <5>1
      <4>2. q.head = q.tail
        BY <2>4, <2>5, <4>1, PlaceHere
      <4>3. u = NET_SKBUF_SIZE * 1 + 0 /\ 0 = NET_SKBUF_SIZE * 0 + 0 /\ 0 \in 0 .. NET_SKBUF_SIZE - 1
        BY <2>3, <3>2
      <4>4. u % NET_SKBUF_SIZE = 0 /\ 0 % NET_SKBUF_SIZE = 0
        BY <2>3, <4>3, RemainderUnique
      <4>5. q.head - q.tail = 0
        BY <2>4, <4>2
      <4> QED
        BY <4>4, <4>5
    <3> QED
      BY <2>3, <3>1, <3>2
  <2>7. (q.avail = NET_SKBUF_SIZE) <=> (q.n = 0)
    <3>1. q.n = 0 => NET_SKBUF_SIZE - q.avail = 0
      BY <2>1, <2>3 DEF LaidOut
    <3>2. q.avail = NET_SKBUF_SIZE => NET_SKBUF_SIZE - q.avail = 0
      BY <2>3
    <3>3. NET_SKBUF_SIZE - q.avail = 0 => q.avail = NET_SKBUF_SIZE /\ q.n = 0
      <4>1. PICK a \in Nat : a = q.avail
        BY <2>2, <2>3
      <4> QED
        BY <2>3, <4>1
    <3> QED
      BY <3>1, <3>2, <3>3
  <2> QED
    BY <2>5, <2>6, <2>7 DEF AvailExact
<1> QED
  BY <1>1, Invariance, PTL

-----------------------------------------------------------------------------
(* The refinement: the frames of the layout are those that one meets from  *)
(* the tail.                                                               *)

\* A set of natural numbers that is not empty has a least member.
LEMMA LeastMember ==
  ASSUME NEW S \in SUBSET Nat, S # {}
  PROVE  \E n \in S : \A m \in S : n <= m
<1> DEFINE UpTo(n) == S \cap 0 .. n
           Parts == {UpTo(n) : n \in S}
<1>1. Parts \subseteq FiniteSubsetsOf(Nat)
  <2>1. ASSUME NEW n \in S
        PROVE  UpTo(n) \in SUBSET Nat /\ IsFiniteSet(UpTo(n))
    <3>1. IsFiniteSet(0 .. n)
      BY FS_Interval
    <3>2. QED
      BY <3>1, FS_Subset, Zenon
  <2>2. QED
    BY <2>1 DEF FiniteSubsetsOf
<1>2. PICK P \in Parts : \A Q \in Parts : ~ (<<Q, P>> \in StrictSubsetOrdering(Nat))
  <2>1. IsWellFoundedOn(StrictSubsetOrdering(Nat), FiniteSubsetsOf(Nat))
    BY FS_StrictSubsetOrderingWellFounded, Zenon
  <2>2. Parts # {}
    OBVIOUS
  <2>3. QED
    BY <2>1, <2>2, <1>1, WFMin, Zenon
<1>3. PICK n \in S : P = UpTo(n)
  BY <1>2
<1>4. ASSUME NEW m \in S, m < n
      PROVE  FALSE
  <2>1. UpTo(m) \subseteq UpTo(n) /\ UpTo(m) # UpTo(n)
    BY <1>4
  <2>2. UpTo(m) \in Parts /\ UpTo(n) \in Parts
    OBVIOUS
  <2>3. <<UpTo(m), UpTo(n)>> \in StrictSubsetOrdering(Nat)
    BY <2>1, <2>2, <1>1 DEF StrictSubsetOrdering
  <2>4. QED
    BY <2>2, <2>3, <1>2, <1>3
<1>5. QED
  BY <1>4

\* A set of numbers that holds 0, and each number whenever it holds the one before,
\* holds them all.
LEMMA Counted ==
  ASSUME NEW n \in Nat, NEW A \in SUBSET (0 .. n),
         0 \in A, \A k \in 1 .. n : k - 1 \in A => k \in A
  PROVE  A = 0 .. n
<1>1. ASSUME NEW k \in 0 .. n, k \notin A
      PROVE  FALSE
  <2> DEFINE Bad == (0 .. n) \ A
  <2>1. Bad \in SUBSET Nat /\ Bad # {}
    BY <1>1
  <2> HIDE DEF Bad
  <2>2. PICK i \in Bad : \A j \in Bad : i <= j
    BY <2>1, LeastMember
  <2>3. i \in 0 .. n /\ i \notin A
    BY <2>2 DEF Bad
  <2>4. i \in 1 .. n /\ i - 1 \in 0 .. n /\ ~(i <= i - 1)
    BY <2>3
  <2>5. i - 1 \in A
    BY <2>2, <2>4 DEF Bad
  <2> QED
    BY <2>3, <2>4, <2>5
<1> QED
  BY <1>1

\* What Start says of a ring in which frames are laid out.
StartsMeet ==
  \A frames \in Seq(Frame) : \A offset \in Offsets(frames) :
    LaidOut(q, frames, offset) =>
      /\ Stored = frames
      /\ Queue!Filled[Len(frames)] = NET_SKBUF_SIZE - q.avail

\* Start leads to the places of the frames.
LEMMA StartIsPlace ==
  ASSUME TypeOK, NEW frames \in Seq(Frame), NEW offset \in Offsets(frames),
         LaidOut(q, frames, offset)
  PROVE  Start = [k \in 0 .. Len(frames) |-> Place(q.tail, offset[k])]
<1> DEFINE n == Len(frames)
           g == [k \in 0 .. n |-> Place(q.tail, offset[k])]
           From(s, k) == IF k = 0 THEN q.tail
                         ELSE (s[k - 1] + Required(q.buf[s[k - 1]])) % NET_SKBUF_SIZE
<1>0. q \in Ring /\ q.avail \in 0 .. NET_SKBUF_SIZE
  BY RingTypes DEF TypeOK
<1>1. /\ n \in Nat /\ q.n = n /\ q.tail \in Cells /\ q.tail \in Int
      /\ \A k \in 0 .. n : offset[k] \in Int
      /\ \A k \in 1 .. n : frames[k] \in Frame /\ k - 1 \in 0 .. n /\ k \in 0 .. n /\ k # 0
  BY <1>0, OffsetTypes, CellTypes DEF Ring
<1>2. /\ offset[0] = 0
      /\ \A k \in 1 .. n : /\ offset[k] = offset[k - 1] + Required(frames[k].len)
                           /\ Holds(q, offset[k - 1], frames[k])
  BY DEF LaidOut, Adjacent
<1>3. g[0] = q.tail
  BY <1>1, <1>2, PlaceHere
<1>4. ASSUME NEW k \in 1 .. n
      PROVE  g[k] = (g[k - 1] + Required(q.buf[g[k - 1]])) % NET_SKBUF_SIZE
  <2>1. PICK o \in Int : o = offset[k - 1]
    BY <1>1
  <2>2. PICK r \in Nat : r = Required(frames[k].len) /\ 0 \in 0 .. r - 1
    <3>1. frames[k] \in Frame
      BY <1>1
    <3>2. Required(frames[k].len) = HdrSize + frames[k].len + 2 /\ HdrSize \in Nat
          /\ frames[k].len \in Nat
      BY <3>1, FrameTypes
    <3> QED
      BY <3>2
  <2>3. q.buf[Place(q.tail, o + 0)] = Content(frames[k], 0) /\ o + 0 = o
    BY <1>2, <2>1, <2>2 DEF Holds
  <2>4. q.buf[Place(q.tail, o)] = frames[k].len
    BY <2>3 DEF Content
  <2>5. Place(Place(q.tail, o), r) = Place(q.tail, o + r)
    <3>1. r \in Int
      BY <2>2
    <3> QED
      BY <1>1, <3>1, PlacesAdd
  <2>6. g[k] = Place(q.tail, o + r) /\ g[k - 1] = Place(q.tail, o)
    BY <1>1, <1>2, <2>1, <2>2
  <2> HIDE DEF g
  <2> QED
    BY <2>2, <2>4, <2>5, <2>6 DEF Place
<1>5. g = [k \in 0 .. q.n |-> From(g, k)]
  <2>1. ASSUME NEW k \in 0 .. n
        PROVE  g[k] = From(g, k)
    <3>1. k = 0 \/ k \in 1 .. n
      BY <1>1
    <3> HIDE DEF g
    <3> QED
      BY <1>3, <1>4, <3>1
  <2>2. g = [k \in 0 .. n |-> g[k]]
    OBVIOUS
  <2> HIDE DEF g, From
  <2> QED
    BY <1>1, <2>1, <2>2
<1> HIDE DEF g
<1>6. Start = [k \in 0 .. q.n |-> From(Start, k)]
  <2>1. Start = CHOOSE s : s = [k \in 0 .. q.n |-> From(s, k)]
    BY Zenon DEF Start
  <2> HIDE DEF From
  <2> QED
    BY <1>5, <2>1
<1>7. \A k \in 0 .. n : Start[k] = From(Start, k)
  <2> HIDE DEF From
  <2> QED
    BY <1>1, <1>6
<1>8. Start = g
  <2>1. Start = [k \in 0 .. n |-> Start[k]] /\ g = [k \in 0 .. n |-> g[k]]
    <3> HIDE DEF From
    <3> QED
      BY <1>1, <1>5, <1>6
  <2>2. Start[0] = g[0]
    BY <1>1, <1>3, <1>7
  <2>3. ASSUME NEW k \in 1 .. n, Start[k - 1] = g[k - 1]
        PROVE  Start[k] = g[k]
    <3>1. Start[k] = (Start[k - 1] + Required(q.buf[Start[k - 1]])) % NET_SKBUF_SIZE
      BY <1>1, <1>7
    <3> QED
      BY <1>4, <2>3, <3>1
  <2>4. \A k \in 1 .. n : Start[k - 1] = g[k - 1] => Start[k] = g[k]
    BY <2>3
  <2>5. \A k \in 0 .. n : Start[k] = g[k]
    <3> DEFINE A == {k \in 0 .. n : Start[k] = g[k]}
    <3>1. n \in Nat /\ A \in SUBSET (0 .. n) /\ 0 \in A
      BY <1>1, <2>2
    <3>2. \A k \in 1 .. n : k - 1 \in 0 .. n /\ k \in 0 .. n
      BY <1>1
    <3>3. \A k \in 1 .. n : k - 1 \in A => k \in A
      BY <2>4, <3>2
    <3> HIDE DEF A
    <3>4. A = 0 .. n
      BY <3>1, <3>3, Counted
    <3> QED
      BY <3>4 DEF A
  <2> QED
    BY <2>1, <2>5
<1> QED
  BY <1>8 DEF g

\* The frames that one meets are those of the layout, and they take what is not free.
LEMMA Meets == TypeOK => StartsMeet
<1> SUFFICES ASSUME TypeOK, NEW frames \in Seq(Frame), NEW offset \in Offsets(frames),
                    LaidOut(q, frames, offset)
             PROVE  /\ Stored = frames
                    /\ Queue!Filled[Len(frames)] = NET_SKBUF_SIZE - q.avail
  BY DEF StartsMeet
<1> DEFINE n == Len(frames)
<1>0. q \in Ring /\ q.avail \in 0 .. NET_SKBUF_SIZE
  BY RingTypes DEF TypeOK
<1>1. /\ n \in Nat /\ q.n = n /\ q.tail \in Cells /\ q.tail \in Int
      /\ \A k \in 0 .. n : offset[k] \in Int
      /\ \A k \in 1 .. n : frames[k] \in Frame /\ k - 1 \in 0 .. n /\ k \in 0 .. n /\ k # 0
  BY <1>0, OffsetTypes, CellTypes DEF Ring
<1>2. /\ offset[0] = 0 /\ offset[n] = NET_SKBUF_SIZE - q.avail
      /\ \A k \in 1 .. n : /\ offset[k] = offset[k - 1] + Required(frames[k].len)
                           /\ Holds(q, offset[k - 1], frames[k])
  BY DEF LaidOut, Adjacent
<1>3. \A k \in 0 .. n : Start[k] = Place(q.tail, offset[k])
  BY StartIsPlace
<1>4. ASSUME NEW k \in 1 .. n
      PROVE  [id |-> q.buf[(Start[k - 1] + 2) % NET_SKBUF_SIZE], len |-> q.buf[Start[k - 1]]]
               = frames[k]
  <2>1. PICK o \in Int : o = offset[k - 1]
    BY <1>1
  <2>2. frames[k] \in Frame /\ Start[k - 1] = Place(q.tail, o)
    BY <1>1, <1>3, <2>1
  <2>3. PICK r \in Nat : r = Required(frames[k].len) /\ 0 \in 0 .. r - 1 /\ 2 \in 0 .. r - 1
    <3>1. Required(frames[k].len) = HdrSize + frames[k].len + 2 /\ HdrSize \in Nat
          /\ frames[k].len \in Nat \ {0}
      BY <2>2, FrameTypes
    <3> QED
      BY <3>1
  <2>4. q.buf[Place(q.tail, o + 0)] = Content(frames[k], 0)
        /\ q.buf[Place(q.tail, o + 2)] = Content(frames[k], 2)
    BY <1>2, <2>1, <2>3 DEF Holds
  <2>5. o + 0 = o /\ Content(frames[k], 0) = frames[k].len /\ Content(frames[k], 2) = frames[k].id
    BY DEF Content
  <2>6. PICK d \in Int : d = 2
    OBVIOUS
  <2>7. Place(Place(q.tail, o), d) = Place(q.tail, o + d)
    BY <1>1, PlacesAdd
  <2>8. q.buf[Start[k - 1]] = frames[k].len /\ q.buf[Place(Start[k - 1], 2)] = frames[k].id
    BY <2>2, <2>4, <2>5, <2>6, <2>7
  <2>9. frames[k] = [id |-> frames[k].id, len |-> frames[k].len]
    BY <2>2 DEF Frame
  <2> QED
    BY <2>8, <2>9 DEF Place
<1>5. Stored = frames
  <2>1. frames = [k \in 1 .. n |-> frames[k]]
    BY SeqDef
  <2>2. Stored = [k \in 1 .. n |-> frames[k]]
    BY <1>1, <1>4, Zenon DEF Stored
  <2> QED
    BY <2>1, <2>2
<1> HIDE DEF n
<1> DEFINE From(s, k) == IF k = 0 THEN 0 ELSE s[k - 1] + (HdrSize + 2 + frames[k].len)
<1>6. ASSUME NEW k \in 1 .. n
      PROVE  offset[k] = offset[k - 1] + (HdrSize + 2 + frames[k].len)
  <2>1. frames[k] \in Frame
    BY <1>1
  <2>2. PICK len \in Nat : len = frames[k].len /\ Required(frames[k].len) = HdrSize + len + 2
    BY <2>1, FrameTypes
  <2>3. HdrSize + len + 2 = HdrSize + 2 + len
    BY QueueAssumption
  <2> QED
    BY <1>2, <2>2, <2>3
<1>7. offset = [k \in 0 .. n |-> From(offset, k)]
  <2>1. offset = [k \in 0 .. n |-> offset[k]]
    BY DEF Offsets, n
  <2>2. ASSUME NEW k \in 0 .. n
        PROVE  offset[k] = From(offset, k)
    <3>1. k = 0 \/ k \in 1 .. n
      BY <1>1
    <3> QED
      BY <1>2, <1>6, <3>1
  <2> HIDE DEF From
  <2> QED
    BY <2>1, <2>2
<1>8. Queue!Filled = [k \in 0 .. n |-> From(Queue!Filled, k)]
  <2>1. Queue!Filled = CHOOSE s : s = [k \in 0 .. n |-> From(s, k)]
    BY <1>5, Zenon DEF Queue!Filled, Queue!Cost, n
  <2> HIDE DEF From
  <2> QED
    BY <1>7, <2>1
<1>9. \A k \in 0 .. n : Queue!Filled[k] = From(Queue!Filled, k)
  <2> HIDE DEF From
  <2> QED
    BY <1>8
<1>10. Queue!Filled[n] = offset[n]
  <2>1. PICK g : g = Queue!Filled
    OBVIOUS
  <2>2. g[0] = offset[0]
    BY <1>1, <1>2, <1>9, <2>1
  <2>3. ASSUME NEW k \in 1 .. n, g[k - 1] = offset[k - 1]
        PROVE  g[k] = offset[k]
    <3>1. g[k] = g[k - 1] + (HdrSize + 2 + frames[k].len)
      BY <1>1, <1>9, <2>1
    <3> QED
      BY <1>6, <2>3, <3>1
  <2>4. n \in Nat /\ n \in 0 .. n
    BY <1>1
  <2>5. \A k \in 1 .. n : g[k - 1] = offset[k - 1] => g[k] = offset[k]
    BY <2>3
  <2>6. \A k \in 0 .. n : g[k] = offset[k]
    <3> DEFINE A == {k \in 0 .. n : g[k] = offset[k]}
    <3>1. n \in Nat /\ A \in SUBSET (0 .. n) /\ 0 \in A
      BY <2>2, <2>4
    <3>2. \A k \in 1 .. n : k - 1 \in 0 .. n /\ k \in 0 .. n
      BY <2>4
    <3>3. \A k \in 1 .. n : k - 1 \in A => k \in A
      BY <2>5, <3>2
    <3> HIDE DEF A
    <3>4. A = 0 .. n
      BY <3>1, <3>3, Counted
    <3> QED
      BY <3>4 DEF A
  <2> QED
    BY <2>1, <2>4, <2>6
<1> QED
  BY <1>2, <1>5, <1>10 DEF n

\* The ring is a queue of whole frames: each is fetched once, undamaged and in the
\* order of arrival, and one is dropped only when there is no room for it
\* (update_rx_queues() against ptpd_netif_recvfrom()).
THEOREM RefinesQueue == Spec => QueueSpec
<1>1. Init => Queue!Init
  <2> SUFFICES ASSUME Init PROVE Queue!Init
    OBVIOUS
  <2>1. q.n = 0 /\ done = <<>>
    BY DEF Init
  <2>2. Stored = <<>>
    BY <2>1 DEF Stored
  <2> QED
    BY <2>1, <2>2 DEF Queue!Init
<1>2. IInv /\ StartsMeet /\ StartsMeet' /\ [Next]_vars
        => [Queue!Store \/ Queue!Drop \/ Queue!Fetch]_<<Stored, done>>
  <2> SUFFICES ASSUME IInv, StartsMeet, StartsMeet', [Next]_vars
               PROVE  [Queue!Store \/ Queue!Drop \/ Queue!Fetch]_<<Stored, done>>
    OBVIOUS
  <2>1. PICK frames \in Seq(Frame) : \E offset \in Offsets(frames) : LaidOut(q, frames, offset)
    BY DEF IInv
  <2>2. PICK offset \in Offsets(frames) : LaidOut(q, frames, offset)
    BY <2>1
  <2>3. TypeOK /\ q.avail \in 0 .. NET_SKBUF_SIZE
    BY DEF IInv, TypeOK
  <2>4. Stored = frames /\ Queue!Filled[Len(Stored)] = NET_SKBUF_SIZE - q.avail
    BY <2>2, Zenon DEF StartsMeet
  <2>5. q' = q => Stored' = Stored
    BY Zenon DEF Stored, Start
  <2>6. ASSUME NEW f \in Frame
        PROVE  Queue!Fits(f) <=> ~(q.avail < Required(f.len))
    <3>1. Queue!Cost(f) = Required(f.len) /\ Required(f.len) \in Nat
      BY FrameTypes DEF Queue!Cost
    <3>2. Queue!Fits(f) <=> (NET_SKBUF_SIZE - q.avail) + Required(f.len) <= NET_SKBUF_SIZE
      BY <2>4, <3>1 DEF Queue!Fits
    <3>3. NET_SKBUF_SIZE \in Nat
      BY QueueAssumption
    <3>4. PICK a \in Int : a = q.avail
      BY <2>3, <3>3
    <3>5. PICK s \in Int : s = NET_SKBUF_SIZE
      BY <3>3
    <3>6. PICK c \in Int : c = Required(f.len)
      BY <3>1
    <3>7. (NET_SKBUF_SIZE - q.avail) + Required(f.len) <= NET_SKBUF_SIZE <=> (s - a) + c <= s
      BY <3>4, <3>5, <3>6
    <3>8. (s - a) + c <= s <=> ~(a < c)
      OBVIOUS
    <3>9. ~(q.avail < Required(f.len)) <=> ~(a < c)
      BY <3>4, <3>6
    <3> QED
      BY <3>2, <3>7, <3>8, <3>9
  <2>7. CASE UpdateRxQueues
    <3>1. PICK f \in Frame :
           \/ q.avail < Required(f.len) /\ done' = <<"dropped", f>> /\ UNCHANGED q
           \/ /\ ~(q.avail < Required(f.len)) /\ done' = <<"stored", f>>
              /\ TypeOK' /\ Append(frames, f) \in Seq(Frame)
              /\ \E after \in Offsets(Append(frames, f)) : LaidOut(q', Append(frames, f), after)
      BY <2>2, <2>3, <2>7, UpdateSteps
    <3>2. CASE q.avail < Required(f.len) /\ done' = <<"dropped", f>> /\ UNCHANGED q
      BY <2>5, <2>6, <3>2 DEF Queue!Drop
    <3>3. CASE /\ ~(q.avail < Required(f.len)) /\ done' = <<"stored", f>>
               /\ Append(frames, f) \in Seq(Frame)
               /\ \E after \in Offsets(Append(frames, f)) : LaidOut(q', Append(frames, f), after)
      <4>1. Stored' = Append(frames, f)
        BY <3>3, Zenon DEF StartsMeet
      <4> QED
        BY <2>4, <2>6, <3>3, <4>1 DEF Queue!Store
    <3> QED
      BY <3>1, <3>2, <3>3
  <2>8. CASE PtpdNetifRecvfrom
    <3>1. /\ frames # <<>> /\ done' = <<"fetched", Head(frames)>> /\ Tail(frames) \in Seq(Frame)
          /\ \E after \in Offsets(Tail(frames)) : LaidOut(q', Tail(frames), after)
      BY <2>2, <2>3, <2>8, RecvfromSteps
    <3>2. Stored' = Tail(frames)
      BY <3>1, Zenon DEF StartsMeet
    <3> QED
      BY <2>4, <3>1, <3>2 DEF Queue!Fetch
  <2>9. CASE UNCHANGED vars
    BY <2>5, <2>9 DEF vars
  <2> QED
    BY <2>7, <2>8, <2>9 DEF Next
<1>3. IInv => TypeOK
  BY DEF IInv
<1> QED
  BY <1>1, <1>2, <1>3, Meets, Invariance, PTL DEF Spec, QueueSpec, Queue!Spec

=============================================================================
