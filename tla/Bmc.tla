-------------------------------- MODULE Bmc ---------------------------------
(***************************************************************************)
(* The data set comparison of the best master clock algorithm              *)
(* (PTPWRd/bmc.c).                                                         *)
(*                                                                         *)
(* A data set is what a foreign master record holds: the announce message, *)
(* its sender (a clock, and which of its ports), and the number of the     *)
(* port that received it, 0 for an empty record.  An identity is a number: *)
(* memcmp() orders identities as numbers are.                              *)
(***************************************************************************)
EXTENDS Integers, FiniteSetsExt, Sequences

Byte == 0 .. 255
DataSets ==
  [gm : Nat, priority1 : Byte, clockClass : Byte, accuracy : Byte, variance : Nat,
   priority2 : Byte, steps : Nat, sender : Nat, from : Nat, port : Nat]

Empty ==
  [gm |-> 0, priority1 |-> 0, clockClass |-> 0, accuracy |-> 0, variance |-> 0,
   priority2 |-> 0, steps |-> 0, sender |-> 0, from |-> 0, port |-> 0]

\* Port numbers start from 1.
IsEmpty(d) == d.port = 0

Sign(n) == CASE n < 0 -> -1 [] n = 0 -> 0 [] n > 0 -> 1

\* In the order in which they are looked at, the identity last.
Quality(d) ==
  <<d.priority1, d.clockClass, d.accuracy, d.variance, d.priority2, d.gm>>

\* memcmp(.., 1) on a little endian machine.
FirstByte(n) == n % 256

\* Of different grandmasters: the first quality that differs decides.
ByGrandmaster(a, b) ==
  LET first == Min({i \in 1 .. 6 : Quality(a)[i] # Quality(b)[i]})
      x == Quality(a)[first]
      y == Quality(b)[first]
  IN  IF first = 6 THEN Sign(x - y) ELSE Sign(FirstByte(x) - FirstByte(y))

\* What decides when one is a step further away: its sender, and the receiver.
Receiver(d, own) ==
  CASE d.sender = own -> 0 [] d.sender > own -> 1 [] d.sender < own -> 2

\* Mutant: the second data set is not looked at for its sender.
ByTopologyOneSided(a, b, own) ==
  LET further == a.steps - b.steps
  IN  CASE further > 1  -> 1
        [] further < -1 -> -1
        [] further = 1  -> Receiver(a, own)
        [] further = -1 -> -Receiver(a, own)
        [] further = 0  -> 2 * IF a.sender # b.sender THEN Sign(a.sender - b.sender)
                                                      ELSE Sign(a.port - b.port)

\* Of the same grandmaster: -2 and 2 are better by topology only.
\* own is the identity of the clock that compares.
ByTopology(a, b, own) ==
  LET further == a.steps - b.steps
  IN  CASE further > 1  -> 1
        [] further < -1 -> -1
        [] further = 1  -> Receiver(a, own)
        [] further = -1 -> -Receiver(b, own)
        [] further = 0  -> 2 * IF a.sender # b.sender THEN Sign(a.sender - b.sender)
                                                      ELSE Sign(a.port - b.port)

\* bmcDataSetComparison(): below zero when a is better.
Comparison(a, b, own) ==
  CASE IsEmpty(a) /\ IsEmpty(b)  -> 0
    [] ~IsEmpty(a) /\ IsEmpty(b) -> -1
    [] IsEmpty(a) /\ ~IsEmpty(b) -> 1
    [] OTHER -> IF a.gm = b.gm THEN ByTopology(a, b, own) ELSE ByGrandmaster(a, b)

Better(a, b, own) == Comparison(a, b, own) < 0

\* The loop of ErBest() and EBest(): the first of the data sets with an index in
\* `among' that no later one is better than, each compared with the best so far;
\* 0 if there is none.
BestIndex(seq, among, own) ==
  LET best[n \in 0 .. Len(seq)] ==
        IF n = 0 THEN 0
        ELSE IF n \in among /\ (best[n - 1] = 0 \/ Better(seq[n], seq[best[n - 1]], own))
             THEN n ELSE best[n - 1]
  IN  best[Len(seq)]

=============================================================================
