----------------------------- MODULE FrameQueue -----------------------------
(***************************************************************************)
(* What the socket of a freestanding node promises: frames are fetched     *)
(* whole, each once and in the order of their arrival, and one is dropped  *)
(* only when it does not fit next to those that wait.                      *)
(***************************************************************************)
EXTENDS Naturals, Sequences

CONSTANTS
  Size,      \* what a socket holds
  Overhead,  \* what a frame takes in addition to its payload
  Frame      \* frames: records with a field len

VARIABLES
  queue,  \* the frames that wait
  done    \* what was done last, with which frame

Cost(f) == Overhead + f.len

\* What the first k frames take.
Filled[k \in 0 .. Len(queue)] ==
  IF k = 0 THEN 0 ELSE Filled[k - 1] + Cost(queue[k])

Fits(f) == Filled[Len(queue)] + Cost(f) <= Size

Init == queue = <<>> /\ done = <<>>

Store ==
  \E f \in Frame :
    Fits(f) /\ queue' = Append(queue, f) /\ done' = <<"stored", f>>

Drop ==
  \E f \in Frame :
    ~Fits(f) /\ done' = <<"dropped", f>> /\ UNCHANGED queue

Fetch ==
  /\ queue # <<>>
  /\ done' = <<"fetched", Head(queue)>> /\ queue' = Tail(queue)

Spec == Init /\ [][Store \/ Drop \/ Fetch]_<<queue, done>>

=============================================================================
