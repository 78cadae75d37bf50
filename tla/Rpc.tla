-------------------------------- MODULE Rpc ---------------------------------
(***************************************************************************)
(* What a channel of mini-ipc promises: calls are executed in the order in *)
(* which they are made, each at most once, and what a call returns with is *)
(* the answer to a call that was executed, each answer at most once.  A    *)
(* call may never be executed, and its answer may never come.              *)
(***************************************************************************)
EXTENDS Naturals, Sequences

CONSTANT Chans

VARIABLES
  asked,     \* of each channel: the number of calls made
  executed,  \* the calls that the server executed, by their numbers
  answered   \* the calls whose answers were taken

Latest(seq) == IF seq = <<>> THEN 0 ELSE seq[Len(seq)]

Init ==
  asked = [c \in Chans |-> 0] /\ executed = [c \in Chans |-> <<>>] /\ answered = executed

Ask(c) ==
  asked' = [asked EXCEPT ![c] = @ + 1] /\ UNCHANGED <<executed, answered>>

Execute(c) ==
  \E call \in Latest(executed[c]) + 1 .. asked[c] :
    executed' = [executed EXCEPT ![c] = Append(@, call)] /\ UNCHANGED <<asked, answered>>

Answer(c) ==
  \E call \in Latest(answered[c]) + 1 .. Latest(executed[c]) :
    answered' = [answered EXCEPT ![c] = Append(@, call)] /\ UNCHANGED <<asked, executed>>

Next == \E c \in Chans : Ask(c) \/ Execute(c) \/ Answer(c)

Spec == Init /\ [][Next]_<<asked, executed, answered>>

=============================================================================
