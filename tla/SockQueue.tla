----------------------------- MODULE SockQueue ------------------------------
(***************************************************************************)
(* The receive queue of a socket of a freestanding node (libposix/net.c):  *)
(* update_rx_queues() copies each frame of the MAC into a ring of bytes,   *)
(* ptpd_netif_recvfrom() copies one out of it.                             *)
(*                                                                         *)
(* A cell of the ring holds what tells frames apart: the two cells of the  *)
(* size hold the size, all others the number of the frame.                 *)
(***************************************************************************)
EXTENDS Integers, Sequences

CONSTANTS
  NET_SKBUF_SIZE,  \* cells of the ring
  HdrSize,         \* sizeof(struct ethhdr) + sizeof(struct hw_timestamp)
  Payloads,        \* the sizes of payloads that minic_rx_frame() returns
  Ids,             \* bound: the numbers frames are given
  DataLength       \* the size of the caller's buffer (1518)

ASSUME QueueAssumption ==
  /\ NET_SKBUF_SIZE \in Nat \ {0} /\ HdrSize \in Nat \ {0} /\ DataLength \in Nat
  /\ Ids \subseteq Nat /\ Payloads \subseteq Nat \ {0}

\* dep/net.c passes a buffer that is longer than any frame of the ring.
ASSUME BufferAssumption == \A len \in Payloads : len <= DataLength

VARIABLES
  q,    \* struct sockq
  done  \* what was done last, with which frame

vars == <<q, done>>

Frame == [id : Ids, len : Payloads]
Cells == 0 .. NET_SKBUF_SIZE - 1

TypeOK ==
  /\ q \in [buf : [Cells -> Ids \cup Payloads], head : Cells, tail : Cells,
            avail : 0 .. NET_SKBUF_SIZE, n : 0 .. NET_SKBUF_SIZE]

\* ptpd_netif_create_socket(): the buffer keeps what it had.
Init ==
  /\ \E garbage \in Ids :
       q = [buf |-> [c \in Cells |-> garbage], head |-> 0, tail |-> 0,
            avail |-> NET_SKBUF_SIZE, n |-> 0]
  /\ done = <<>>

\* wrap_copy_out(): from src to the ring.
WrapCopyOut(sq, src) ==
  LET At(c) == 1 + ((c - sq.head) % NET_SKBUF_SIZE)
  IN  [sq EXCEPT
        !.buf   = [c \in Cells |-> IF At(c) <= Len(src) THEN src[At(c)] ELSE @[c]],
        !.head  = (@ + Len(src)) % NET_SKBUF_SIZE,
        !.avail = @ - Len(src)]

\* wrap_copy_in(): what it copies, and the ring afterwards.
Peek(sq, len) == [i \in 1 .. len |-> sq.buf[(sq.tail + i - 1) % NET_SKBUF_SIZE]]
WrapCopyIn(sq, len) ==
  [sq EXCEPT !.tail = (@ + len) % NET_SKBUF_SIZE, !.avail = @ + len]

\* Mutant: the size in front of each frame is forgotten.
RequiredNoSize(len) == HdrSize + len

\* q_required.
Required(len) == HdrSize + len + 2

Constantly(x, len) == [i \in 1 .. len |-> x]

\* update_rx_queues(), for a frame that matches the socket.
UpdateRxQueues ==
  \E f \in Frame :
    \/ /\ q.avail < Required(f.len)
       /\ done' = <<"dropped", f>>
       /\ UNCHANGED q
    \/ /\ q.avail >= Required(f.len)
       /\ done' = <<"stored", f>>
       /\ LET sized  == WrapCopyOut(q, Constantly(f.len, 2))
              headed == WrapCopyOut(sized, Constantly(f.id, HdrSize))
          IN  q' = [WrapCopyOut(headed, Constantly(f.id, f.len)) EXCEPT !.n = @ + 1]

\* Mutant: the rest of the header is left in the ring.
SkipHeaderShort(sq) == WrapCopyIn(sq, HdrSize - 1)

SkipHeader(sq) == WrapCopyIn(sq, HdrSize)

Least(a, b) == IF a < b THEN a ELSE b

\* ptpd_netif_recvfrom(). All of a frame is its own, or else it is damaged.
PtpdNetifRecvfrom ==
  /\ q.n > 0
  /\ LET size  == Peek(q, 2)[1]
         hdrAt == WrapCopyIn(q, 2)
         hdr   == Peek(hdrAt, HdrSize)
         rest  == SkipHeader(hdrAt)
         body  == Peek(rest, Least(size, DataLength))
     IN  /\ q' = [WrapCopyIn(rest, Least(size, DataLength)) EXCEPT !.n = @ - 1]
         /\ done' = <<"fetched",
                      [id  |-> hdr[1],
                       len |-> IF body = Constantly(hdr[1], size) THEN size ELSE -1]>>

Next == UpdateRxQueues \/ PtpdNetifRecvfrom

Spec == Init /\ [][Next]_vars

-----------------------------------------------------------------------------
\* Where the frames of the ring start, one after the other from the tail.
Start[k \in 0 .. q.n] ==
  IF k = 0 THEN q.tail
  ELSE (Start[k - 1] + Required(q.buf[Start[k - 1]])) % NET_SKBUF_SIZE

Stored ==
  [k \in 1 .. q.n |->
    [id  |-> q.buf[(Start[k - 1] + 2) % NET_SKBUF_SIZE], len |-> q.buf[Start[k - 1]]]]

Queue == INSTANCE FrameQueue WITH
           Size <- NET_SKBUF_SIZE, Overhead <- HdrSize + 2, queue <- Stored

\* The ring is a queue of whole frames: nothing is overwritten before it is
\* fetched, none is dropped for which there is room, and writer and reader
\* agree about where each frame starts (update_rx_queues() against
\* ptpd_netif_recvfrom()).
QueueSpec == Queue!Spec

\* avail is what lies between the head and the tail, also when the ring is full
\* or empty and the two are equal, and an empty ring counts no frame.
AvailExact ==
  /\ (q.head - q.tail) % NET_SKBUF_SIZE = (NET_SKBUF_SIZE - q.avail) % NET_SKBUF_SIZE
  /\ (q.avail = NET_SKBUF_SIZE) <=> (q.n = 0)

=============================================================================
