----------------------------- MODULE MCServoQueue -----------------------------
(* Instances of ServoQueue for TLC. *)
EXTENDS ServoQueue, TLC

Symmetry == Permutations(Nodes)

MCDefault == [j \in Servos |-> 0]

\* The default speed, and a speed below 1 from /car/xy.
MCPeriods == {-1, 0}

\* The speeds 2 and 1, at which 7 units take no whole number of milliseconds.
SteadyPeriods == {-1, 1}
===============================================================================
