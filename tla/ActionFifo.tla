------------------------------ MODULE ActionFifo ------------------------------
(***************************************************************************)
(* What src/Control/Servo.cpp promises to the poses: actions are carried   *)
(* out one after the other, in the order in which they were requested, and *)
(* each is commanded to its motor exactly once, when its turn comes.       *)
(* ServoQueue implements this with a linked list and a timer; ArmPoses     *)
(* uses it.                                                                *)
(***************************************************************************)
EXTENDS Sequences, Naturals

CONSTANTS
  Actions,    \* what can be requested: a joint and a value
  NoAction

VARIABLES
  queue,      \* the actions requested and not finished; the head is in progress
  issued      \* the last action commanded to a motor

fifoVars == <<queue, issued>>

FifoInit == queue = <<>> /\ issued = NoAction

\* An action requested of an idle arm is commanded at once.
Request(a) ==
  /\ queue' = Append(queue, a)
  /\ issued' = IF queue = <<>> THEN a ELSE issued

\* The next action is commanded when the one in progress is finished.
Finish ==
  /\ queue # <<>>
  /\ queue' = Tail(queue)
  /\ issued' = IF Len(queue) > 1 THEN queue[2] ELSE issued

FifoNext == Finish \/ \E a \in Actions : Request(a)

Fifo == FifoInit /\ [][FifoNext]_fifoVars
===============================================================================
