------------------------------- MODULE MCTasks -------------------------------
(* An instance of Tasks for TLC: every task and lock the firmware's own code makes.  The *)
(* kernel's idle task is `current = None', and its timer task, which has no timer to     *)
(* serve, sleeps for ever.                                                               *)
EXTENDS Tasks
===============================================================================
