------------------------------ MODULE MCArmPoses ------------------------------
(* The instance of ArmPoses for TLC: every mode that adds actions, and one that *)
(* does not.                                                                    *)
EXTENDS ArmPoses

NoActionYet == A(0, 0)

MCActions == UNION {{Pose(m)[i] : i \in 1..Len(Pose(m))} : m \in Modes}
===============================================================================
