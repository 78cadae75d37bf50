------------------------------ MODULE MCServo -------------------------------
(***************************************************************************)
(* Instances of Servo: a clock period of 8 units of phase, two of which    *)
(* stand for the 60 ps of the threshold, and a second of 3 periods.        *)
(***************************************************************************)
EXTENDS Servo

\* Late by part of a cycle, early by a second and more, and right.
SomeOffsets == {5, -27, 0}

\* Also late by cycles, late by seconds, and early by less than a cycle; none
\* where the drift moves the offset across a whole second again and again.
MoreOffsets == SomeOffsets \cup {14, 53, -1}

=============================================================================
