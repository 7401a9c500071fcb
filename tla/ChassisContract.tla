---------------------------- MODULE ChassisContract ----------------------------
(***************************************************************************)
(* What the chassis promises to the ROS side, without the flags and the    *)
(* windows of the implementation.  A request is accepted, is in progress   *)
(* for a while, and then becomes the command in force.  While no request   *)
(* is in progress every control period drives the motors where the command *)
(* in force says; while one is in progress the target of a control period  *)
(* is anything.  The module Chassis implements this specification.         *)
(***************************************************************************)
EXTENDS Kinematics

CONSTANTS SpeedMsgs, PosMsgs, ModeMsgs, EncoderReads

VARIABLES
  request,   \* the request in progress, or NoRequest
  mode,      \* the value of the last /car/mode accepted: 1 is relative
  cmd,       \* the command in force
  target,    \* where the last control period drove the four motors
  position,  \* the four encoders, summed
  been       \* the positions since the last request was accepted, up to its completion

contractVars == <<request, mode, cmd, target, position, been>>

NoRequest == [topic |-> "none", v |-> Still]

Requests ==
  [topic : {"speed"}, v : SpeedMsgs] \cup [topic : {"stop"}, v : {Still}]
    \cup [topic : {"pos"}, v : PosMsgs] \cup [topic : {"mode"}, v : {Still}]

\* A command is due until a control period has run with it in force.  A "free"
\* command makes no promise: the car went to relative mode under position control.
Command(kind, v) == [kind |-> kind, v |-> v, due |-> TRUE]

ContractInit ==
  /\ request = NoRequest
  /\ mode = 1
  /\ cmd = Command("speed", Still)
  /\ target = Kinematic_Analysis(Still)
  /\ position = Kinematic_Analysis(Still)
  /\ been = {}

Accept(r) ==
  /\ request = NoRequest
  /\ request' = r
  /\ been' = {position}
  /\ UNCHANGED <<mode, cmd, target, position>>

CompleteSpeed ==
  /\ request.topic \in {"speed", "stop"}
  /\ cmd' = Command("speed", request.v)
  /\ request' = NoRequest
  /\ UNCHANGED <<mode, target, position, been>>

CompletePos ==
  /\ request.topic = "pos"
  /\ cmd' = Command(IF mode = 1 THEN "displacement" ELSE "position", request.v)
  /\ request' = NoRequest
  /\ UNCHANGED <<mode, target, position, been>>

\* Leaving relative mode under position control: the car holds a place it has been
\* at since the request was accepted, though perhaps no longer is.
CompleteHold(m) ==
  /\ request.topic = "mode"
  /\ mode = 1 /\ m # 1
  /\ mode' = m
  /\ \E p \in been : cmd' = Command("position", Get_Position_NOW(p))
  /\ request' = NoRequest
  /\ UNCHANGED <<target, position, been>>

\* Any other change of mode takes effect at once.
ChangeMode(m) ==
  /\ request = NoRequest
  /\ mode' = m
  /\ cmd' = IF m = 1 /\ cmd.kind # "speed" THEN Command("free", Still) ELSE cmd
  /\ cmd.kind # "speed" => mode # 1
  /\ UNCHANGED <<request, target, position, been>>

\* The target of a control period that starts when no request is in progress.
Follows(t) ==
  CASE cmd.kind = "free" -> TRUE
    [] cmd.kind = "displacement" ->
         t = IF cmd.due THEN Plus(position, Kinematic_Analysis(cmd.v)) ELSE target
    [] OTHER -> t = Kinematic_Analysis(cmd.v)

Period(d) ==
  /\ target' \in Wheels
  /\ request = NoRequest => Follows(target')
  /\ position' = Plus(position, d)
  /\ IF request = NoRequest
       THEN cmd' = [cmd EXCEPT !.due = FALSE] /\ been' = been
       ELSE cmd' = cmd /\ been' = been \cup {position'}
  /\ UNCHANGED <<request, mode>>

Complete == CompleteSpeed \/ CompletePos \/ \E m \in ModeMsgs : CompleteHold(m)

ContractNext ==
  \/ \E r \in Requests : Accept(r)
  \/ Complete
  \/ \E m \in ModeMsgs : ChangeMode(m)
  \/ \E d \in EncoderReads : Period(d)

Contract == ContractInit /\ [][ContractNext]_contractVars
===============================================================================
