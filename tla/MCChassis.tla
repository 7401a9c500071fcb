------------------------------- MODULE MCChassis -------------------------------
(* Instances of Chassis for TLC. *)
EXTENDS Chassis

Forward == [Still EXCEPT !.y = 1]
Diagonal == [x |-> 1, y |-> 1, z |-> 0]

MCSpeedMsgs == {Forward}
MCPosMsgs == {Diagonal, [Still EXCEPT !.y = -1]}

\* Standing, one pulse forward, one pulse backward on every wheel.
MCEncoderReads ==
  {Kinematic_Analysis(v) : v \in {Still, Forward, [Still EXCEPT !.y = -1]}}

\* The car stands.
Standing == {Kinematic_Analysis(Still)}
===============================================================================
