---------------------------- MODULE ExchangeFeed ----------------------------
(***************************************************************************)
(* What the servo of a slave is promised: each update is fed the four      *)
(* timestamps of one exchange, and no exchange is fed twice.               *)
(*                                                                         *)
(* t1 and t2 are the departure and the arrival of a Sync, t3 and t4 those  *)
(* of a Delay_Req; a timestamp is the number of the frame it was taken of. *)
(***************************************************************************)
EXTENDS Naturals

VARIABLE fed  \* the timestamps of the last update

Init == fed = [t1 |-> 0, t2 |-> 0, t3 |-> 0, t4 |-> 0]

\* One update: a Sync and a Delay_Req that no earlier update has used.
Update ==
  /\ fed'.t1 = fed'.t2 /\ fed'.t2 > fed.t2
  /\ fed'.t3 = fed'.t4 /\ fed'.t4 > fed.t4

Spec == Init /\ [][Update]_fed

=============================================================================
