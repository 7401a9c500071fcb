------------------------------- MODULE MCStepper -------------------------------
(* Instances of Stepper for TLC. *)
EXTENDS Stepper

\* A rail of eight places, of which two are behind the switch.
MCMinShaft == -2

\* Far enough to reach the switch from any start.
MCBootGoal == -5
===============================================================================
