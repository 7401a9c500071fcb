-------------------------------- MODULE Chassis --------------------------------
(***************************************************************************)
(* The chassis: the control task (Control(), every 10 ms) and the          *)
(* subscription callbacks of the ROS task that command it.  The two share  *)
(* the variables of Control.c under Control_Lock, one wrapper call at a    *)
(* time: a callback is a sequence of critical sections, and the control    *)
(* task may run between any two of them.  The code of a wrapper, and of    *)
(* Control(), is one atomic step here because both hold Control_Lock from  *)
(* their first access to their last.                                       *)
(*                                                                         *)
(* The PI and PID filters and the PWM registers are data no command        *)
(* depends on: a control period moves the car by any encoder reading in    *)
(* EncoderReads.  Of the speed limit the way it is taken along is kept.    *)
(***************************************************************************)
EXTENDS Kinematics

CONSTANTS
  SpeedMsgs,     \* velocities of /car/speed, after the conversion to pulses
  PosMsgs,       \* destinations or displacements of /car/pos
  ModeMsgs,      \* values of /car/mode
  EncoderReads,  \* what the four encoders may count in one control period
  PosBound       \* the encoders stay within -PosBound..PosBound

ASSUME MsgsAssumption == SpeedMsgs \subseteq Vec /\ PosMsgs \subseteq Vec

ASSUME ModesAssumption == ModeMsgs \subseteq 0..255

ASSUME EncoderAssumption == EncoderReads \subseteq {d \in Wheels : Divisible(d)}

ASSUME BoundAssumption == PosBound \in Nat

VARIABLES
  Run_Flag, relative, pending_flag,   \* uint8_t flags
  Move,                               \* Move_X, Move_Y, Move_Z
  Last_Target,                        \* Last_Target_X, _Y, _Z
  Bias,                               \* the way Divider and Rate_A.._D were computed from
  Target, Position,                   \* Target_A.._D, Position_A.._D
  pc, msg, NOW,                       \* the ROS task: next step, message, local
  \* history of what the values above stand for; no action reads them:
  moveKind,    \* what Move is: a "speed", a "displacement", a "position" that was sent
               \* or one to "hold" after a change of mode
  targetKind,  \* what Target is: a "speed", a "position" or "hold", or the position to
               \* which a "rate", a "place" or a "held" place was added
  applied,     \* times the displacement in Move was added to the position
  early,       \* how many of them were inside its callback, on an older pending_flag
  loop,        \* the control loop that the last period ran
  kept,        \* whether the last period of the position loop kept Move as Last_Target
  been,        \* the readings from the start of the last callback to its end
  stood,       \* whether that callback sent the car to a destination in absolute mode from
               \* where it stood, see Enter
  cmd,         \* the command of the last completed callback
  calm         \* whether messages and periods have kept apart, see Next

controlVars == <<Target, Position, Bias, targetKind, loop, kept>>
rosVars == <<pc, msg, NOW>>
moveVars == <<Move, moveKind, applied, early>>
vars == <<Run_Flag, relative, pending_flag, Last_Target, moveVars, controlVars, rosVars,
          been, stood, cmd, calm>>

NoMsg == [topic |-> "none", v |-> Still, m |-> 0]

\* A command is due until a control period has run with it in force.
Command(kind, v) == [kind |-> kind, v |-> v, due |-> TRUE]

Init ==
  /\ Run_Flag = 0 /\ relative = 1 /\ pending_flag = 0
  /\ Move = Still /\ Last_Target = Still /\ Bias = Still
  /\ Target = Kinematic_Analysis(Still) /\ Position = Kinematic_Analysis(Still)
  /\ pc = "idle" /\ msg = NoMsg /\ NOW = Still
  /\ moveKind = "speed" /\ targetKind = "speed"
  /\ applied = 0 /\ early = 0 /\ loop = "velocity" /\ kept = FALSE
  /\ been = {} /\ stood = FALSE
  /\ cmd = Command("speed", Still)
  /\ calm = TRUE

-------------------------------------------------------------------------------
(* The control task.                                                         *)

\* Read_Encoder on the four timers, added to the positions.
Read_Encoders ==
  \E d \in EncoderReads :
    /\ \A w \in {"A", "B", "C", "D"} : Position[w] + d[w] \in -PosBound..PosBound
    /\ Position' = Plus(Position, d)

\* The way of the move, from Last_Target in absolute mode.
Way == IF relative = 0 THEN Minus(Move, Last_Target) ELSE Move

\* The speed is limited along the last way that was not nought: without one the
\* static Divider and Rate_A to Rate_D keep what they are.
Count_Velocity ==
  /\ Bias' = IF Way = Still THEN Bias ELSE Way
  /\ Last_Target' = IF relative = 0 THEN Move ELSE Last_Target
  /\ kept' = (relative = 0)

\* The first period that runs while no callback is in progress puts the command
\* of the last callback in force.
Due == cmd' = IF pc = "idle" THEN [cmd EXCEPT !.due = FALSE] ELSE cmd

ControlSpeed ==
  /\ Run_Flag = 0
  /\ Target' = Kinematic_Analysis(Move) /\ targetKind' = moveKind
  /\ loop' = "velocity"
  /\ UNCHANGED <<pending_flag, Last_Target, Bias, kept, applied, early>>

ControlAbsolute ==
  /\ Run_Flag = 1 /\ relative # 1
  /\ Target' = Kinematic_Analysis(Move) /\ targetKind' = moveKind
  /\ loop' = "position"
  /\ Count_Velocity
  /\ UNCHANGED <<pending_flag, applied, early>>

\* What a position plus Move is.
Sum == [displacement |-> "position", position |-> "place", hold |-> "held", speed |-> "rate"]

\* Move is added to the position.
AddMove ==
  /\ Target' = Kinematic_Analysis_Relative(Position, Move)
  /\ targetKind' = Sum[moveKind]
  /\ applied' = applied + 1
  /\ early' = IF pc = "pos_pending" THEN early + 1 ELSE early

\* Mutant: the displacement stays pending.
ControlRelative_KeepsPending ==
  /\ Run_Flag = 1 /\ relative = 1
  /\ IF pending_flag = 1 THEN AddMove ELSE UNCHANGED <<Target, targetKind, applied, early>>
  /\ UNCHANGED pending_flag
  /\ loop' = "position"
  /\ Count_Velocity

ControlRelative ==
  /\ Run_Flag = 1 /\ relative = 1
  /\ \/ pending_flag = 1 /\ AddMove /\ pending_flag' = 0
     \/ pending_flag # 1 /\ UNCHANGED <<Target, targetKind, pending_flag, applied, early>>
  /\ loop' = "position"
  /\ Count_Velocity

Control ==
  /\ ControlSpeed \/ ControlAbsolute \/ ControlRelative
  /\ Read_Encoders
  /\ Due
  /\ been' = IF pc = "idle" THEN been ELSE been \cup {Position'}
  /\ stood' = (stood /\ ~(loop' = "position" /\ moveKind = "speed"))
  /\ UNCHANGED <<Run_Flag, relative, Move, moveKind, rosVars>>
-------------------------------------------------------------------------------
(* The wrappers of Control.c that the callbacks call, each a critical        *)
(* section.  Get_Run_Flag and Get_relative read what only the ROS task       *)
(* writes: they are part of the step that uses their result.                 *)

Set_Run_Flag(flag) ==
  Run_Flag' = flag /\ UNCHANGED <<relative, pending_flag, Last_Target, moveVars>>

Set_Move(v, kind) ==
  /\ Move' = v /\ moveKind' = kind /\ applied' = 0 /\ early' = 0
  /\ UNCHANGED <<Run_Flag, relative, pending_flag, Last_Target>>

Set_relative(flag) ==
  relative' = flag /\ UNCHANGED <<Run_Flag, pending_flag, Last_Target, moveVars>>

Set_pending_flag(flag) ==
  pending_flag' = flag /\ UNCHANGED <<Run_Flag, relative, Last_Target, moveVars>>

Set_Last_Target(v) ==
  Last_Target' = v /\ UNCHANGED <<Run_Flag, relative, pending_flag, moveVars>>

Unshared == UNCHANGED <<Run_Flag, relative, pending_flag, Last_Target, moveVars>>

\* A step of the ROS task from one point of a callback to another.
Goto(from, to) ==
  pc = from /\ pc' = to /\ UNCHANGED <<msg, NOW, cmd, been, stood, controlVars>>

\* A destination of absolute mode is sent from where the car stood if it ends speed mode,
\* or if the car has reached the destination before it.
StartKnown ==
  relative = 0 /\ (Run_Flag = 1 => ~cmd.due /\ kept /\ Position = Target)

Enter(topic, v, m, to) ==
  /\ pc = "idle" /\ pc' = to
  /\ msg' = [topic |-> topic, v |-> v, m |-> m]
  /\ been' = {Position} /\ stood' = (topic = "pos" /\ StartKnown)
  /\ UNCHANGED <<NOW, cmd, controlVars>>

\* The last step of a callback, and the command it leaves in force.
Return(from, c) ==
  /\ pc = from /\ pc' = "idle"
  /\ msg' = NoMsg /\ NOW' = Still /\ cmd' = c
  /\ UNCHANGED <<been, stood, controlVars>>

Capture(from, to) ==
  /\ pc = from /\ pc' = to
  /\ NOW' = Get_Position_NOW(Position)
  /\ Unshared /\ UNCHANGED <<msg, cmd, been, stood, controlVars>>
-------------------------------------------------------------------------------
(* callback_speed, callback_stop                                             *)

SpeedFlag(v) == Enter("speed", v, 0, "speed_move") /\ Set_Run_Flag(0)

\* Mutant: a stop zeroes Move and leaves the position loop running.
StopFlag_KeepsMode == Enter("stop", Still, 0, "speed_move") /\ Unshared

StopFlag == Enter("stop", Still, 0, "speed_move") /\ Set_Run_Flag(0)

SpeedMove ==
  Return("speed_move", Command("speed", msg.v)) /\ Set_Move(msg.v, "speed")

(* callback_pos.  Its Get_relative calls all return the same value.          *)

\* Mutant: the position is captured in relative mode only.
PosMode_NoCapture(v) ==
  /\ Enter("pos", v, 0, IF Run_Flag = 0 /\ relative = 1 THEN "pos_now" ELSE "pos_flag")
  /\ Unshared

PosMode(v) ==
  /\ Enter("pos", v, 0, IF Run_Flag = 0 /\ relative = 0 THEN "pos_now" ELSE "pos_flag")
  /\ Unshared

PosNow == Capture("pos_now", "pos_last")

PosLast == Goto("pos_last", "pos_flag") /\ Set_Last_Target(NOW)

PosFlag == Goto("pos_flag", "pos_move") /\ Set_Run_Flag(1)

PosKind == IF relative = 1 THEN "displacement" ELSE "position"

PosMove == Goto("pos_move", "pos_pending") /\ Set_Move(msg.v, PosKind)

\* Mutant: the displacement is never marked pending.
PosPending_Forgets == Return("pos_pending", Command(PosKind, msg.v)) /\ Unshared

PosPending ==
  /\ Return("pos_pending", Command(PosKind, msg.v))
  /\ IF relative = 1 THEN Set_pending_flag(1) ELSE Unshared

(* callback_mode                                                             *)

ModeSwitch(m) ==
  /\ relative # m /\ ~(Run_Flag = 1 /\ relative = 1)
  /\ pc = "idle"
  /\ Set_relative(m)
  /\ cmd' = IF m = 1 /\ Run_Flag = 1 THEN Command("free", Still) ELSE cmd
  /\ stood' = FALSE
  /\ UNCHANGED <<rosVars, been, controlVars>>

ModeEnter(m) ==
  /\ relative # m /\ Run_Flag = 1 /\ relative = 1
  /\ Enter("mode", Still, m, "mode_now")
  /\ Unshared

ModeNow == Capture("mode_now", "mode_last")

ModeLast == Goto("mode_last", "mode_move") /\ Set_Last_Target(NOW)

\* Mutant: the captured position does not replace Move.
ModeMove_Keeps == Goto("mode_move", "mode_relative") /\ Unshared

ModeMove == Goto("mode_move", "mode_relative") /\ Set_Move(NOW, "hold")

ModeRelative ==
  Return("mode_relative", Command("position", Move)) /\ Set_relative(msg.m)
-------------------------------------------------------------------------------
Begin ==
  \/ \E v \in SpeedMsgs : SpeedFlag(v)
  \/ StopFlag
  \/ \E v \in PosMsgs : PosMode(v)
  \/ \E m \in ModeMsgs : ModeEnter(m) \/ ModeSwitch(m)

Continue ==
  \/ SpeedMove
  \/ PosNow \/ PosLast \/ PosFlag \/ PosMove \/ PosPending
  \/ ModeNow \/ ModeLast \/ ModeMove \/ ModeRelative

\* The two windows of a callback in which Run_Flag, Move and pending_flag disagree.
Windows == {"speed_move", "pos_move", "pos_pending"}

\* Messages are calm while they come at least one control period after the callback
\* before, and no period runs inside a window.
ControlTask == Control /\ calm' = (calm /\ pc \notin Windows)

Message == Begin /\ calm' = (calm /\ ~cmd.due)

Callback == Continue /\ UNCHANGED calm

Next == ControlTask \/ Message \/ Callback

Spec == Init /\ [][Next]_vars
-------------------------------------------------------------------------------
(* Properties                                                                *)

Kinds == {"speed", "position", "displacement"}

Places == {"position", "hold"}

MarksOK == kept \in BOOLEAN /\ stood \in BOOLEAN /\ calm \in BOOLEAN

\* The variables hold values of their C types' ranges and the readings stay
\* such that Get_Position_NOW divides evenly.
TypeOK ==
  /\ Run_Flag \in {0, 1} /\ relative \in 0..255 /\ pending_flag \in {0, 1}
  /\ Move \in Vec /\ Last_Target \in Vec /\ Bias \in Vec /\ NOW \in Vec
  /\ Target \in Wheels /\ Position \in {p \in Wheels : Divisible(p)}
  /\ pc \in {"idle", "speed_move", "pos_now", "pos_last", "pos_flag", "pos_move",
             "pos_pending", "mode_now", "mode_last", "mode_move", "mode_relative"}
  /\ msg \in [topic : {"none", "speed", "stop", "pos", "mode"}, v : Vec, m : 0..255]
  /\ moveKind \in Kinds \cup Places
  /\ targetKind \in Kinds \cup Places \cup {"rate", "place", "held"}
  /\ applied \in Nat /\ early \in Nat
  /\ been \subseteq {p \in Wheels : Divisible(p)}
  /\ loop \in {"velocity", "position"}
  /\ cmd \in [kind : Kinds \cup {"free"}, v : Vec, due : BOOLEAN]
  /\ MarksOK

\* Between callbacks the flags say what Move is: a speed when Run_Flag is 0, a
\* place when it is 1 in absolute mode, and never a speed when it is 1.  Every
\* callback breaks this on its way and must restore it before it returns.
FlagsMatchMove ==
  pc = "idle" =>
    /\ Run_Flag = 0 => moveKind = "speed"
    /\ Run_Flag = 1 /\ relative # 1 => moveKind \in Places
    /\ Run_Flag = 1 /\ relative = 1 => moveKind # "speed"

\* One control period after a callback has returned, and until the next begins,
\* the motors follow the command of that callback in the loop of its kind,
\* whatever periods ran inside the callback: after /car/stop they stand still
\* in the velocity loop.
CommandInForce ==
  pc = "idle" /\ ~cmd.due =>
    /\ cmd.kind = "speed" => loop = "velocity"
    /\ cmd.kind # "speed" => loop = "position"
    /\ cmd.kind \in {"speed", "position"} => Target = Kinematic_Analysis(cmd.v)
    /\ cmd.kind = "displacement" => targetKind = "position"

\* A displacement of /car/pos is added to the position exactly once, by the first period
\* after its callback; exactly twice if a period inside the callback, between Set_Move
\* and Set_pending_flag, still found the pending_flag of an earlier message; and by no
\* other interleaving once less or once more.
DisplacementApplied ==
  /\ early <= 1 /\ applied <= 1 + early
  /\ pc = "idle" /\ cmd.kind = "displacement" =>
       /\ pending_flag = IF cmd.due THEN 1 ELSE 0
       /\ applied + pending_flag = 1 + early

\* The chassis implements its contract: request accepted, in progress, in force.
Contract == INSTANCE ChassisContract
  WITH request <- [topic |-> msg.topic, v |-> msg.v], mode <- relative,
       target <- Target, position <- Position

ImplementsContract == Contract!Contract

\* Run_Flag 0 is the velocity loop on a speed, 1 the position loop on a position, as
\* the comment on its declaration says: the loop of a period is that of its target's
\* kind, and neither a place nor a speed was added to the position.
LoopOfItsKind ==
  IF loop = "velocity" THEN targetKind = "speed" ELSE targetKind \in Places

\* Outside the windows of the callbacks that is so: if messages come a period apart and
\* no period falls into a window, every period runs the loop of its target's kind.
RunFlagSelectsKind == calm => LoopOfItsKind

\* While a command is in force its speed is limited along the way the car travels: a
\* displacement's own way, and for a destination in absolute mode the way to it from a
\* place the car was at when it was sent, if it was sent from speed mode or from a
\* destination reached.  A destination that was changed on the way to another has the
\* limit of a way between the two, as the comment on Count_Velocity warns.
LimitAlongTravel ==
  pc = "idle" /\ ~cmd.due =>
    /\ cmd.kind = "displacement" /\ cmd.v # Still => Bias = cmd.v
    /\ cmd.kind = "position" /\ stood =>
         \E p \in been : \/ cmd.v = Get_Position_NOW(p)
                        \/ Bias = Minus(cmd.v, Get_Position_NOW(p))

\* What a message of absolute mode gave as a place is never added to the position
\* as if a message of relative mode had given it as a displacement.
PlacesNotAdded == targetKind # "place"
===============================================================================
