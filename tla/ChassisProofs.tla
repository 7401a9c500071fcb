----------------------------- MODULE ChassisProofs -----------------------------
(***************************************************************************)
(* What the chassis guarantees for every set of messages and every encoder *)
(* reading: types, the agreement of the flags with Move, the settling of   *)
(* the command, and the step by step implementation of ChassisContract;    *)
(* and before that, what the operators of Kinematics do.                   *)
(***************************************************************************)
EXTENDS Chassis, TLAPS

\* Kinematic_Analysis gives every motor an integer target.
LEMMA AnalysisType ==
  ASSUME NEW v \in Vec
  PROVE  Kinematic_Analysis(v) \in Wheels
BY DEF Vec, Wheels, Kinematic_Analysis

\* The sum of two readings is a reading.
LEMMA PlusType ==
  ASSUME NEW p \in Wheels, NEW q \in Wheels
  PROVE  Plus(p, q) \in Wheels
BY DEF Wheels, Plus

\* Readings that Get_Position_NOW divides evenly are closed under addition.
LEMMA PlusDivisible ==
  ASSUME NEW p \in Wheels, NEW q \in Wheels, Divisible(p), Divisible(q)
  PROVE  Divisible(Plus(p, q))
<1> DEFINE s == Plus(p, q)
<1>0. /\ p.A \in Int /\ p.B \in Int /\ p.C \in Int /\ p.D \in Int
      /\ q.A \in Int /\ q.B \in Int /\ q.C \in Int /\ q.D \in Int
  BY DEF Wheels
<1>1. \A a, b \in Int : a % 2 = 0 /\ b % 2 = 0 => (a + b) % 2 = 0
  OBVIOUS
<1>2. \A a, b \in Int : a % 4 = 0 /\ b % 4 = 0 => (a + b) % 4 = 0
  OBVIOUS
<1>3. s.B - s.A = (p.B - p.A) + (q.B - q.A)
  BY <1>0 DEF Plus
<1>4. s.B + s.C = (p.B + p.C) + (q.B + q.C)
  BY <1>0 DEF Plus
<1>5. s.C - s.A + s.D - s.B = (p.C - p.A + p.D - p.B) + (q.C - q.A + q.D - q.B)
  BY <1>0 DEF Plus
<1>6. (s.B - s.A) % 2 = 0
  <2>1. p.B - p.A \in Int /\ q.B - q.A \in Int  BY <1>0
  <2> QED  BY <1>1, <1>3, <2>1 DEF Divisible
<1>7. (s.B + s.C) % 2 = 0
  <2>1. p.B + p.C \in Int /\ q.B + q.C \in Int  BY <1>0
  <2> QED  BY <1>1, <1>4, <2>1 DEF Divisible
<1>8. (s.C - s.A + s.D - s.B) % 4 = 0
  <2>1. p.C - p.A + p.D - p.B \in Int /\ q.C - q.A + q.D - q.B \in Int  BY <1>0
  <2> QED  BY <1>2, <1>5, <2>1 DEF Divisible
<1> QED  BY <1>6, <1>7, <1>8 DEF Divisible

\* Get_Position_NOW of an even reading is a motion in whole pulses.
LEMMA PositionType ==
  ASSUME NEW p \in Wheels
  PROVE  Get_Position_NOW(p) \in Vec
BY DEF Vec, Wheels, Get_Position_NOW

\* Get_Position_NOW undoes Kinematic_Analysis: a place the car was sent to and
\* has reached is the place it reports.
THEOREM PositionInvertsAnalysis ==
  ASSUME NEW v \in Vec
  PROVE  /\ Divisible(Kinematic_Analysis(v)) /\ NoSlip(Kinematic_Analysis(v))
         /\ Get_Position_NOW(Kinematic_Analysis(v)) = v
<1>0. v.x \in Int /\ v.y \in Int /\ v.z \in Int
  BY DEF Vec
<1> DEFINE k == Kinematic_Analysis(v)
<1>1. k.B - k.A = 2 * v.x /\ k.B + k.C = 2 * v.y /\ k.C - k.A + k.D - k.B = 4 * v.z
  BY <1>0 DEF Kinematic_Analysis
<1>2. \A i \in Int : (2 * i) % 2 = 0 /\ (2 * i) \div 2 = i /\ (4 * i) % 4 = 0 /\ (4 * i) \div 4 = i
  OBVIOUS
<1>3. Divisible(k)
  BY <1>0, <1>1, <1>2 DEF Divisible
<1>4. NoSlip(k)
  BY <1>0 DEF NoSlip, Kinematic_Analysis
<1>5. Get_Position_NOW(k) = v
  BY <1>0, <1>1, <1>2 DEF Get_Position_NOW, Vec
<1> QED  BY <1>3, <1>4, <1>5

\* Kinematic_Analysis undoes Get_Position_NOW as long as no wheel has slipped:
\* the place callback_mode captures and sends back to the motors is the one they
\* are at, so that the car does not move.
THEOREM AnalysisInvertsPosition ==
  ASSUME NEW p \in Wheels, Divisible(p), NoSlip(p)
  PROVE  Kinematic_Analysis(Get_Position_NOW(p)) = p
<1>0. p.A \in Int /\ p.B \in Int /\ p.C \in Int /\ p.D \in Int
  BY DEF Wheels
<1> DEFINE n == Get_Position_NOW(p)
<1>1. \A i \in Int : i % 2 = 0 => 2 * (i \div 2) = i
  OBVIOUS
<1>2. \A i \in Int : i % 4 = 0 => 4 * (i \div 4) = i
  OBVIOUS
<1>3. 2 * n.x = p.B - p.A
  <2>1. p.B - p.A \in Int /\ n.x = (p.B - p.A) \div 2  BY <1>0 DEF Get_Position_NOW
  <2> QED  BY <1>1, <2>1 DEF Divisible
<1>4. 2 * n.y = p.B + p.C
  <2>1. p.B + p.C \in Int /\ n.y = (p.B + p.C) \div 2  BY <1>0 DEF Get_Position_NOW
  <2> QED  BY <1>1, <2>1 DEF Divisible
<1>5. 4 * n.z = p.C - p.A + p.D - p.B
  <2>1. p.C - p.A + p.D - p.B \in Int /\ n.z = (p.C - p.A + p.D - p.B) \div 4
    BY <1>0 DEF Get_Position_NOW
  <2> QED  BY <1>2, <2>1 DEF Divisible
<1>6. n.x \in Int /\ n.y \in Int /\ n.z \in Int
  BY PositionType DEF Vec
<1>7. p.A + p.D = p.B + p.C
  BY DEF NoSlip
<1>. HIDE DEF n
<1>8. /\ n.y - n.x - n.z = p.A /\ n.y + n.x - n.z = p.B
      /\ n.y - n.x + n.z = p.C /\ n.y + n.x + n.z = p.D
  <2>1. PICK x \in Int, y \in Int, z \in Int : x = n.x /\ y = n.y /\ z = n.z
    BY <1>6
  <2>2. PICK A \in Int, B \in Int, C \in Int, D \in Int :
          A = p.A /\ B = p.B /\ C = p.C /\ D = p.D
    BY <1>0
  <2>3. 2 * x = B - A /\ 2 * y = B + C /\ 4 * z = C - A + D - B /\ A + D = B + C
    BY <1>3, <1>4, <1>5, <1>7, <2>1, <2>2
  <2>4. y - x - z = A /\ y + x - z = B /\ y - x + z = C /\ y + x + z = D
    BY <2>3
  <2> QED  BY <2>1, <2>2, <2>4
<1> QED  BY <1>8 DEF Kinematic_Analysis, Wheels, n
-------------------------------------------------------------------------------
USE MsgsAssumption, ModesAssumption, EncoderAssumption, BoundAssumption

\* Wherever a callback is, what it has already written.
CallbackInv ==
  /\ pc = "idle" <=> msg.topic = "none"
  /\ pc = "idle" => msg = NoMsg /\ NOW = Still
  /\ pc = "speed_move" => Run_Flag = 0 /\ msg.topic \in {"speed", "stop"}
  /\ pc \in {"pos_now", "pos_last", "pos_flag", "pos_move", "pos_pending"} =>
       msg.topic = "pos"
  /\ pc \in {"pos_move", "pos_pending"} => Run_Flag = 1
  /\ pc = "pos_pending" =>
       /\ moveKind = PosKind /\ Move = msg.v
       /\ applied + pending_flag <= 1 /\ early = applied
  /\ pc \in {"mode_now", "mode_last", "mode_move", "mode_relative"} =>
       Run_Flag = 1 /\ relative = 1 /\ msg.topic = "mode" /\ msg.m \in ModeMsgs \ {1}
  /\ pc = "mode_relative" => moveKind = "hold"

\* What a callback leaves behind: the command it stands for is in Move and the
\* flags until the next one begins.
CommandInv ==
  pc = "idle" =>
    /\ cmd.kind = "speed" <=> Run_Flag = 0
    /\ cmd.kind = "speed" => moveKind = "speed" /\ Move = cmd.v
    /\ cmd.kind = "position" => relative # 1 /\ moveKind \in Places /\ Move = cmd.v
    /\ cmd.kind = "displacement" =>
         /\ relative = 1 /\ moveKind = "displacement" /\ Move = cmd.v
         /\ pending_flag = IF cmd.due THEN 1 ELSE 0
         /\ applied + pending_flag = 1 + early
         /\ ~cmd.due => targetKind = "position"
    /\ cmd.kind = "free" => relative = 1 /\ moveKind # "speed"

\* The places of which a callback may have read one.
Seen == {Get_Position_NOW(p) : p \in been}

\* What the limit was or will be taken along: the way from q to Move.
WayFrom(q) ==
  Last_Target = q \/ (Last_Target = Move /\ (Move = q \/ Bias = Minus(Move, q)))

\* Where a place that was read, and where a travel in absolute mode began.
PlaceInv ==
  /\ pc # "idle" => Position \in been
  /\ pc \in {"pos_last", "mode_last", "mode_move"} => NOW \in Seen
  /\ pc = "mode_relative" => Move \in Seen
  /\ pc = "idle" /\ Run_Flag = 1 /\ ~cmd.due /\ kept => Last_Target = Move
  /\ pc = "idle" /\ cmd.kind = "displacement" /\ ~cmd.due /\ cmd.v # Still =>
       Bias = cmd.v
  /\ stood =>
       /\ relative = 0
       /\ pc \in {"idle", "pos_now", "pos_last", "pos_flag", "pos_move", "pos_pending"}
       /\ pc \in {"pos_now", "pos_last"} => Run_Flag = 0 /\ moveKind = "speed"
       /\ pc \in {"pos_flag", "pos_move"} =>
            Last_Target \in Seen /\ (moveKind = "speed" \/ Move = Last_Target)
       /\ pc \in {"pos_pending", "idle"} => \E q \in Seen : WayFrom(q)
       /\ pc = "idle" => cmd.kind = "position" /\ (~cmd.due => Last_Target = Move)

IInv ==
  /\ TypeOK
  /\ CallbackInv
  /\ CommandInv
  /\ CommandInForce
  /\ PlaceInv
  /\ early <= 1 /\ applied + pending_flag <= 1 + early

\* Calm messages and periods keep the kinds of Move and of the target in step with the
\* flags outside the windows of the callbacks.
CalmInv ==
  calm =>
    /\ pc # "idle" => ~cmd.due
    /\ pending_flag = 1 => pc = "idle" /\ cmd.kind = "displacement" /\ cmd.due
    /\ pc \notin Windows =>
         /\ Run_Flag = 0 <=> moveKind = "speed"
         /\ Run_Flag = 1 /\ relative # 1 => moveKind \in Places
         /\ Run_Flag = 1 /\ relative = 1 /\ pending_flag = 0 => loop = "position"
    /\ LoopOfItsKind
-------------------------------------------------------------------------------
\* A control period adds one reading to the positions.
LEMMA ReadEncodersType ==
  ASSUME TypeOK, Read_Encoders
  PROVE  Position' \in {p \in Wheels : Divisible(p)}
<1>1. PICK d \in EncoderReads : Position' = Plus(Position, d)
  BY DEF Read_Encoders
<1>2. d \in Wheels /\ Divisible(d)
  OBVIOUS
<1>3. Position \in Wheels /\ Divisible(Position)
  BY DEF TypeOK
<1> QED  BY <1>1, <1>2, <1>3, PlusType, PlusDivisible

\* What the ways and their differences are.
LEMMA WayType ==
  ASSUME TypeOK
  PROVE  Count_Velocity => Last_Target' \in Vec /\ Bias' \in Vec
<1>1. ASSUME NEW u \in Vec, NEW v \in Vec  PROVE Minus(u, v) \in Vec
  BY DEF Vec, Minus
<1>2. Way \in Vec
  BY <1>1 DEF Way, TypeOK
<1> QED  BY <1>2 DEF Count_Velocity, TypeOK

\* Every step leaves the marks of the history Boolean.
LEMMA MarksType ==
  ASSUME MarksOK, Next
  PROVE  MarksOK'
<1>1. calm' \in BOOLEAN
  BY DEF Next, ControlTask, Message, Callback, MarksOK
<1>2. (relative = 0) \in BOOLEAN /\ FALSE \in BOOLEAN
  OBVIOUS
<1>3. ASSUME Control  PROVE MarksOK'
  <2>1. kept' = kept \/ kept' = (relative = 0)
    BY <1>3 DEF Control, ControlSpeed, ControlAbsolute, ControlRelative, Count_Velocity
  <2>2. stood' = (stood /\ ~(loop' = "position" /\ moveKind = "speed"))
    BY <1>3 DEF Control
  <2> QED  BY <1>1, <1>2, <2>1, <2>2 DEF MarksOK
<1>4. ASSUME Begin \/ Continue  PROVE MarksOK'
  <2> USE DEF controlVars, Enter, Goto, Capture, Return
  <2>1. kept' = kept
    BY <1>4 DEF Begin, Continue, SpeedFlag, StopFlag, PosMode, ModeEnter, ModeSwitch, SpeedMove,
       PosNow, PosLast, PosFlag, PosMove, PosPending, ModeNow, ModeLast, ModeMove, ModeRelative
  <2>2. stood' = stood \/ stood' = FALSE \/ \E topic : stood' = (topic = "pos" /\ StartKnown)
    BY <1>4 DEF Begin, Continue, SpeedFlag, StopFlag, PosMode, ModeEnter, ModeSwitch, SpeedMove,
       PosNow, PosLast, PosFlag, PosMove, PosPending, ModeNow, ModeLast, ModeMove, ModeRelative
  <2> QED  BY <1>1, <1>2, <2>1, <2>2 DEF MarksOK
<1> QED  BY <1>3, <1>4 DEF Next, ControlTask, Message, Callback

\* A control period preserves the types.
LEMMA ControlType ==
  ASSUME TypeOK, ControlTask
  PROVE  TypeOK'
<1>0. MarksOK'
  BY MarksType DEF TypeOK, Next
<1> SUFFICES ASSUME Control  PROVE TypeOK'
  BY DEF ControlTask
<1> USE DEF TypeOK, Kinds, Places
<1>1. Position' \in {p \in Wheels : Divisible(p)}
  BY ReadEncodersType DEF Control
<1>2. Kinematic_Analysis(Move) \in Wheels
  BY AnalysisType
<1>3. Kinematic_Analysis_Relative(Position, Move) \in Wheels
  BY <1>2, PlusType DEF Kinematic_Analysis_Relative
<1>4. cmd' \in [kind : Kinds \cup {"free"}, v : Vec, due : BOOLEAN]
  BY DEF Control, Due
<1>5. Sum[moveKind] \in Kinds \cup Places \cup {"rate", "place", "held"}
  BY DEF Sum
<1>6. UNCHANGED <<Run_Flag, relative, Move, moveKind, pc, msg, NOW>>
  BY DEF Control, rosVars
<1>7. been' \subseteq {p \in Wheels : Divisible(p)}
  BY <1>1 DEF Control
<1>9. CASE ControlSpeed
  BY <1>1, <1>2, <1>0, <1>4, <1>6, <1>7, <1>9 DEF ControlSpeed
<1>10. Count_Velocity => Last_Target' \in Vec /\ Bias' \in Vec
  BY WayType
<1>11. CASE ControlAbsolute
  BY <1>1, <1>2, <1>0, <1>4, <1>6, <1>7, <1>10, <1>11 DEF ControlAbsolute
<1>12. CASE ControlRelative
  <2>1. early' \in Nat /\ applied' \in Nat /\ pending_flag' \in {0, 1}
    BY <1>12 DEF ControlRelative, AddMove
  <2>2. Target' \in Wheels /\ targetKind' \in Kinds \cup Places \cup {"rate", "place", "held"}
    BY <1>3, <1>5, <1>12 DEF ControlRelative, AddMove
  <2>3. loop' = "position" /\ Count_Velocity
    BY <1>12 DEF ControlRelative
  <2> QED  BY <1>1, <1>0, <1>4, <1>6, <1>7, <1>10, <2>1, <2>2, <2>3
<1> QED  BY <1>9, <1>11, <1>12 DEF Control

\* A step of a callback preserves the types.
LEMMA CallbackType ==
  ASSUME TypeOK, CallbackInv, Message \/ Callback
  PROVE  TypeOK'
<1>20. MarksOK'
  BY MarksType DEF TypeOK, Next
<1> SUFFICES ASSUME Begin \/ Continue  PROVE TypeOK'
  BY DEF Message, Callback
<1> USE DEF TypeOK, Kinds, Places, moveVars, controlVars, rosVars, Command, NoMsg
<1>0. Still \in Vec
  BY DEF Still, Vec
<1>1. ASSUME NEW v \in SpeedMsgs, SpeedFlag(v)  PROVE TypeOK'
  BY <1>20, <1>1 DEF SpeedFlag, Enter, Set_Run_Flag
<1>2. CASE StopFlag
  BY <1>20, <1>0, <1>2 DEF StopFlag, Enter, Set_Run_Flag
<1>3. CASE SpeedMove
  BY <1>20, <1>0, <1>3 DEF SpeedMove, Return, Set_Move
<1>4. ASSUME NEW v \in PosMsgs, PosMode(v)  PROVE TypeOK'
  BY <1>20, <1>4 DEF PosMode, Enter, Unshared
<1>5. Get_Position_NOW(Position) \in Vec
  BY PositionType
<1>6. CASE PosNow
  BY <1>20, <1>5, <1>6 DEF PosNow, Capture, Unshared
<1>7. CASE PosLast
  BY <1>20, <1>7 DEF PosLast, Goto, Set_Last_Target
<1>8. CASE PosFlag
  BY <1>20, <1>8 DEF PosFlag, Goto, Set_Run_Flag
<1>9. CASE PosMove
  BY <1>20, <1>9 DEF PosMove, Goto, Set_Move, PosKind
<1>10. CASE PosPending
  BY <1>20, <1>0, <1>10 DEF PosPending, Return, PosKind, Set_pending_flag, Unshared
<1>11. ASSUME NEW m \in ModeMsgs, ModeSwitch(m)  PROVE TypeOK'
  BY <1>20, <1>0, <1>11 DEF ModeSwitch, Set_relative
<1>12. ASSUME NEW m \in ModeMsgs, ModeEnter(m)  PROVE TypeOK'
  BY <1>20, <1>0, <1>12 DEF ModeEnter, Enter, Unshared
<1>13. CASE ModeNow
  BY <1>20, <1>5, <1>13 DEF ModeNow, Capture, Unshared
<1>14. CASE ModeLast
  BY <1>20, <1>14 DEF ModeLast, Goto, Set_Last_Target
<1>15. CASE ModeMove
  BY <1>20, <1>15 DEF ModeMove, Goto, Set_Move
<1>16. CASE ModeRelative
  BY <1>20, <1>0, <1>16 DEF ModeRelative, Return, Set_relative
<1> QED
  BY <1>1, <1>2, <1>3, <1>4, <1>6, <1>7, <1>8, <1>9, <1>10, <1>11, <1>12, <1>13,
     <1>14, <1>15, <1>16 DEF Begin, Continue
-------------------------------------------------------------------------------
\* The initial state satisfies the inductive invariant.
LEMMA InitInv == Init => IInv
<1> SUFFICES ASSUME Init PROVE IInv
  OBVIOUS
<1> USE DEF Init, Command, NoMsg
<1>1. Still \in Vec
  BY DEF Still, Vec
<1>2. Kinematic_Analysis(Still) \in Wheels /\ Divisible(Kinematic_Analysis(Still))
  BY <1>1, AnalysisType, PositionInvertsAnalysis
<1>7. MarksOK
  BY DEF MarksOK
<1>3. TypeOK
  BY <1>1, <1>2, <1>7 DEF TypeOK, Kinds, Places
<1>4. CallbackInv
  BY DEF CallbackInv
<1>5. CommandInv
  BY DEF CommandInv
<1>6. PlaceInv
  BY DEF PlaceInv
<1> QED  BY <1>3, <1>4, <1>5, <1>6 DEF IInv, CommandInForce

\* A control period preserves what is known of the places.
LEMMA ControlPlace ==
  ASSUME TypeOK, CallbackInv, CommandInv, PlaceInv, Control
  PROVE  PlaceInv'
<1>1. UNCHANGED <<Run_Flag, relative, Move, moveKind, pc, msg, NOW>>
  BY DEF Control, rosVars
<1>2. /\ cmd'.kind = cmd.kind /\ cmd'.v = cmd.v
      /\ cmd'.due = IF pc = "idle" THEN FALSE ELSE cmd.due
  BY DEF Control, Due, TypeOK
<1>3. Seen \subseteq Seen' /\ (pc # "idle" => Position' \in been')
  BY DEF Seen, Control
<1>4. CASE ControlSpeed
  <2>1. UNCHANGED <<Last_Target, Bias, kept>> /\ loop' = "velocity"
    BY <1>4 DEF ControlSpeed
  <2>2. stood' => stood
    BY DEF Control
  <2>3. pc = "idle" => cmd.kind = "speed"
    BY <1>4 DEF ControlSpeed, CommandInv
  <2> QED  BY <1>1, <1>2, <1>3, <1>4, <2>1, <2>2, <2>3 DEF ControlSpeed, PlaceInv, WayFrom
<1>5. CASE ControlAbsolute \/ ControlRelative
  <2>1. Run_Flag = 1 /\ loop' = "position" /\ Count_Velocity
    BY <1>5 DEF ControlAbsolute, ControlRelative
  <2>2. stood' => stood /\ moveKind # "speed"
    BY <2>1 DEF Control
  <2>3. kept' => Last_Target' = Move'
    BY <1>1, <2>1 DEF Count_Velocity
  <2>4. ASSUME pc = "idle", cmd.kind = "displacement", cmd.v # Still
        PROVE  Bias' = cmd.v
    BY <2>1, <2>4 DEF CommandInv, Count_Velocity, Way
  <2>5. ASSUME stood'
        PROVE  /\ Last_Target' = Move
               /\ \A q : Last_Target = q \/ Last_Target = Move =>
                    (WayFrom(q) => WayFrom(q)')
    <3>1. relative = 0
      BY <2>2, <2>5 DEF PlaceInv
    <3>2. Last_Target' = Move /\ Bias' = IF Minus(Move, Last_Target) = Still
                                          THEN Bias ELSE Minus(Move, Last_Target)
      BY <2>1, <3>1 DEF Count_Velocity, Way
    <3>3. Move \in Vec /\ Last_Target \in Vec
      BY DEF TypeOK
    <3>4. Minus(Move, Last_Target) = Still <=> Move = Last_Target
      BY <3>3 DEF Minus, Still, Vec
    <3> QED  BY <1>1, <3>2, <3>4 DEF WayFrom
  <2>6. ASSUME stood', pc \in {"pos_flag", "pos_move"}
        PROVE  Last_Target' \in Seen' /\ Move' = Last_Target'
    <3>1. Last_Target \in Seen /\ Move = Last_Target
      BY <2>2, <2>6 DEF PlaceInv
    <3> QED  BY <1>1, <1>3, <2>5, <2>6, <3>1
  <2>7. ASSUME stood', pc \in {"pos_pending", "idle"}
        PROVE  \E q \in Seen' : WayFrom(q)'
    <3>1. PICK q \in Seen : WayFrom(q)
      BY <2>2, <2>7 DEF PlaceInv
    <3> QED  BY <1>3, <2>5, <2>7, <3>1 DEF WayFrom
  <2>8. stood' => relative = 0 /\ pc \notin {"pos_now", "pos_last"}
                  /\ pc \in {"idle", "pos_flag", "pos_move", "pos_pending"}
                  /\ (pc = "idle" => cmd.kind = "position")
    BY <2>1, <2>2 DEF PlaceInv
  <2>9. /\ pc \in {"pos_last", "mode_last", "mode_move"} => NOW' \in Seen'
        /\ pc = "mode_relative" => Move' \in Seen'
    BY <1>1, <1>3 DEF PlaceInv
  <2> QED  BY <1>1, <1>2, <1>3, <2>3, <2>4, <2>5, <2>6, <2>7, <2>8, <2>9 DEF PlaceInv
<1> QED  BY <1>4, <1>5 DEF Control

\* A control period preserves the inductive invariant.
LEMMA ControlInv ==
  ASSUME IInv, ControlTask
  PROVE  IInv'
<1> USE DEF IInv
<1>1. TypeOK'
  BY ControlType
<1> SUFFICES ASSUME Control  PROVE IInv'
  BY DEF ControlTask
<1>2. UNCHANGED <<Run_Flag, relative, Move, moveKind, pc, msg, NOW>>
  BY DEF Control, rosVars
<1>3. \/ UNCHANGED <<pending_flag, applied, early>>
      \/ /\ pending_flag = 1 /\ pending_flag' = 0 /\ applied' = applied + 1
         /\ early' = IF pc = "pos_pending" THEN early + 1 ELSE early
  BY DEF Control, ControlSpeed, ControlAbsolute, ControlRelative, AddMove
<1>4. /\ applied' + pending_flag' = applied + pending_flag
      /\ IF pc = "pos_pending" THEN early' - early = applied' - applied ELSE early' = early
  BY <1>3 DEF TypeOK
<1>5. CallbackInv'
  BY <1>2, <1>3, <1>4 DEF CallbackInv, PosKind, TypeOK
<1>6. /\ cmd'.kind = cmd.kind /\ cmd'.v = cmd.v
      /\ pc = "idle" => cmd'.due = FALSE
  BY DEF Control, Due, TypeOK
<1>7. CommandInv'
  <2> SUFFICES ASSUME pc = "idle" PROVE CommandInv'
    BY <1>2 DEF CommandInv
  <2>1. /\ cmd.kind = "speed" <=> Run_Flag = 0
        /\ cmd.kind = "speed" => moveKind = "speed" /\ Move = cmd.v
        /\ cmd.kind = "position" => relative # 1 /\ moveKind \in Places /\ Move = cmd.v
        /\ cmd.kind = "free" => relative = 1 /\ moveKind # "speed"
    BY DEF CommandInv
  <2>2. ASSUME cmd.kind = "displacement"
        PROVE  /\ relative = 1 /\ moveKind = "displacement" /\ Move = cmd.v
               /\ pending_flag' = 0 /\ targetKind' = "position"
               /\ applied' + pending_flag' = 1 + early'
    <3>1. ControlRelative
      BY <2>2 DEF CommandInv, Control, ControlSpeed, ControlAbsolute, TypeOK
    <3>2. /\ relative = 1 /\ moveKind = "displacement" /\ Move = cmd.v
          /\ pending_flag' = 0 /\ targetKind' = "position"
      BY <2>2, <3>1 DEF CommandInv, ControlRelative, AddMove, TypeOK, Sum
    <3> QED  BY <1>4, <2>2, <3>2 DEF CommandInv
  <2> QED  BY <1>2, <1>6, <2>1, <2>2 DEF CommandInv
<1>8. CommandInForce'
  <2> SUFFICES ASSUME pc = "idle" PROVE CommandInForce'
    BY <1>2 DEF CommandInForce
  <2>1. CASE cmd.kind = "speed"
    BY <1>6, <2>1 DEF CommandInv, CommandInForce, Control, ControlSpeed, ControlAbsolute,
       ControlRelative
  <2>2. CASE cmd.kind = "position"
    BY <1>6, <2>2 DEF CommandInv, CommandInForce, Control, ControlSpeed, ControlAbsolute,
       ControlRelative
  <2>3. CASE cmd.kind \in {"displacement", "free"}
    <3>1. ControlRelative
      BY <2>3 DEF CommandInv, Control, ControlSpeed, ControlAbsolute, TypeOK
    <3>2. loop' = "position"
      BY <3>1 DEF ControlRelative
    <3>3. cmd.kind = "displacement" => targetKind' = "position"
      BY <1>2, <1>6, <1>7 DEF CommandInv
    <3> QED  BY <1>6, <2>3, <3>2, <3>3 DEF CommandInForce
  <2> QED  BY <2>1, <2>2, <2>3 DEF TypeOK, Kinds
<1>9. PlaceInv'
  BY ControlPlace
<1>10. (early <= 1 /\ applied + pending_flag <= 1 + early)'
  <2>1. CASE pc = "pos_pending"
    <3>1. early' = applied' /\ applied' + pending_flag' <= 1
      BY <1>2, <1>5, <2>1 DEF CallbackInv
    <3>2. applied' \in Nat /\ early' \in Nat /\ (pending_flag' = 0 \/ pending_flag' = 1)
      BY <1>1 DEF TypeOK
    <3>3. early' <= 1 /\ applied' + pending_flag' <= 1 + early'
      BY <3>1, <3>2
    <3> QED  BY <3>3
  <2>2. CASE pc # "pos_pending"
    BY <1>1, <1>4, <2>2 DEF TypeOK
  <2> QED  BY <2>1, <2>2
<1> QED  BY <1>1, <1>5, <1>7, <1>8, <1>9, <1>10

\* A step of a callback preserves what is known of the places.
LEMMA CallbackPlace ==
  ASSUME TypeOK, CallbackInv, CommandInv, CommandInForce, PlaceInv, Begin \/ Continue
  PROVE  PlaceInv'
<1> USE DEF PlaceInv, Seen, WayFrom, moveVars, controlVars, rosVars, Command
<1>1. ASSUME NEW v \in SpeedMsgs, SpeedFlag(v)  PROVE PlaceInv'
  BY <1>1 DEF SpeedFlag, Enter, Set_Run_Flag
<1>2. CASE StopFlag
  BY <1>2 DEF StopFlag, Enter, Set_Run_Flag
<1>3. CASE SpeedMove
  BY <1>3 DEF SpeedMove, Return, Set_Move, CallbackInv
<1>4. ASSUME NEW v \in PosMsgs, PosMode(v)  PROVE PlaceInv'
  <2>1. /\ UNCHANGED <<Run_Flag, relative, Move, moveKind, Last_Target, Bias, Position>>
        /\ pc = "idle" /\ been' = {Position} /\ stood' = StartKnown
        /\ pc' = IF Run_Flag = 0 /\ relative = 0 THEN "pos_now" ELSE "pos_flag"
    BY <1>4 DEF PosMode, Enter, Unshared, StartKnown, TypeOK
  <2>2. CASE ~StartKnown
    BY <2>1, <2>2
  <2>3. CASE StartKnown /\ Run_Flag = 0
    BY <2>1, <2>3 DEF StartKnown, CommandInv
  <2>4. CASE StartKnown /\ Run_Flag = 1
    <3>1. relative = 0 /\ ~cmd.due /\ Position = Target /\ Last_Target = Move
      BY <2>1, <2>4 DEF StartKnown
    <3>2. cmd.kind = "position"
      BY <2>1, <2>4, <3>1 DEF CommandInv, TypeOK, Kinds
    <3>3. Move = cmd.v /\ Position = Kinematic_Analysis(Move)
      BY <2>1, <3>1, <3>2 DEF CommandInv, CommandInForce
    <3>4. Get_Position_NOW(Position) = Move
      BY <3>3, PositionInvertsAnalysis DEF TypeOK
    <3>5. Last_Target' \in Seen' /\ Move' = Last_Target' /\ pc' = "pos_flag"
      BY <2>1, <2>4, <3>1, <3>4
    <3> QED  BY <2>1, <3>1, <3>5
  <2> QED  BY <2>2, <2>3, <2>4 DEF TypeOK
<1>5. CASE PosNow
  BY <1>5 DEF PosNow, Capture, Unshared
<1>6. CASE PosLast
  BY <1>6 DEF PosLast, Goto, Set_Last_Target
<1>7. CASE PosFlag
  BY <1>7 DEF PosFlag, Goto, Set_Run_Flag
<1>8. CASE PosMove
  BY <1>8 DEF PosMove, Goto, Set_Move
<1>9. CASE PosPending
  BY <1>9 DEF PosPending, Return, PosKind, Set_pending_flag, Unshared, CallbackInv
<1>10. ASSUME NEW m \in ModeMsgs, ModeSwitch(m)  PROVE PlaceInv'
  <2>1. /\ UNCHANGED <<Run_Flag, Move, moveKind, Last_Target, Bias, kept, pc>>
        /\ pc = "idle" /\ ~stood'
        /\ cmd'.kind # "free" => cmd' = cmd
        /\ cmd' = cmd \/ cmd'.due
    BY <1>10 DEF ModeSwitch, Set_relative
  <2> QED  BY <2>1
<1>11. ASSUME NEW m \in ModeMsgs, ModeEnter(m)  PROVE PlaceInv'
  BY <1>11 DEF ModeEnter, Enter, Unshared
<1>12. CASE ModeNow
  BY <1>12 DEF ModeNow, Capture, Unshared
<1>13. CASE ModeLast
  BY <1>13 DEF ModeLast, Goto, Set_Last_Target
<1>14. CASE ModeMove
  BY <1>14 DEF ModeMove, Goto, Set_Move, TypeOK
<1>15. CASE ModeRelative
  BY <1>15 DEF ModeRelative, Return, Set_relative, CallbackInv, TypeOK
<1> QED
  BY <1>1, <1>2, <1>3, <1>4, <1>5, <1>6, <1>7, <1>8, <1>9, <1>10, <1>11, <1>12,
     <1>13, <1>14, <1>15 DEF Begin, Continue

\* A step of a callback preserves the inductive invariant.
LEMMA CallbackStepInv ==
  ASSUME IInv, Message \/ Callback
  PROVE  IInv'
<1>0. TypeOK'
  BY CallbackType DEF IInv
<1> SUFFICES ASSUME Begin \/ Continue  PROVE IInv'
  BY DEF Message, Callback
<1>16. PlaceInv'
  BY CallbackPlace DEF IInv
<1> USE DEF IInv, CallbackInv, CommandInv, CommandInForce, moveVars, controlVars, rosVars,
        Command
<1>1. ASSUME NEW v \in SpeedMsgs, SpeedFlag(v)  PROVE IInv'
  BY <1>0, <1>16, <1>1 DEF SpeedFlag, Enter, Set_Run_Flag
<1>2. CASE StopFlag
  BY <1>0, <1>16, <1>2 DEF StopFlag, Enter, Set_Run_Flag
<1>3. CASE SpeedMove
  BY <1>0, <1>16, <1>3 DEF SpeedMove, Return, Set_Move, NoMsg, TypeOK
<1>4. ASSUME NEW v \in PosMsgs, PosMode(v)  PROVE IInv'
  BY <1>0, <1>16, <1>4 DEF PosMode, Enter, Unshared
<1>5. CASE PosNow
  BY <1>0, <1>16, <1>5 DEF PosNow, Capture, Unshared
<1>6. CASE PosLast
  BY <1>0, <1>16, <1>6 DEF PosLast, Goto, Set_Last_Target
<1>7. CASE PosFlag
  BY <1>0, <1>16, <1>7 DEF PosFlag, Goto, Set_Run_Flag
<1>8. CASE PosMove
  BY <1>0, <1>16, <1>8 DEF PosMove, Goto, Set_Move, PosKind, TypeOK
<1>9. CASE PosPending
  <2> USE <1>9 DEF PosPending, Return, PosKind, NoMsg
  <2>1. CallbackInv' /\ CommandInForce'
    BY DEF Set_pending_flag, Unshared
  <2>2. (early <= 1 /\ applied + pending_flag <= 1 + early)'
    BY DEF Set_pending_flag, Unshared, TypeOK
  <2>3. CommandInv'
    BY DEF Set_pending_flag, Unshared, TypeOK, Places
  <2> QED  BY <1>0, <1>16, <2>1, <2>2, <2>3
<1>10. ASSUME NEW m \in ModeMsgs, ModeSwitch(m)  PROVE IInv'
  <2>1. CallbackInv' /\ CommandInForce'
       /\ (early <= 1 /\ applied + pending_flag <= 1 + early)'
    BY <1>10 DEF ModeSwitch, Set_relative
  <2>2. CommandInv'
    BY <1>10 DEF ModeSwitch, Set_relative, TypeOK, Kinds, Places
  <2> QED  BY <1>0, <1>16, <2>1, <2>2
<1>11. ASSUME NEW m \in ModeMsgs, ModeEnter(m)  PROVE IInv'
  BY <1>0, <1>16, <1>11 DEF ModeEnter, Enter, Unshared
<1>12. CASE ModeNow
  BY <1>0, <1>16, <1>12 DEF ModeNow, Capture, Unshared
<1>13. CASE ModeLast
  BY <1>0, <1>16, <1>13 DEF ModeLast, Goto, Set_Last_Target
<1>14. CASE ModeMove
  BY <1>0, <1>16, <1>14 DEF ModeMove, Goto, Set_Move, TypeOK
<1>15. CASE ModeRelative
  BY <1>0, <1>16, <1>15 DEF ModeRelative, Return, Set_relative, NoMsg, TypeOK, Places
<1> QED
  BY <1>1, <1>2, <1>3, <1>4, <1>5, <1>6, <1>7, <1>8, <1>9, <1>10, <1>11, <1>12,
     <1>13, <1>14, <1>15 DEF Begin, Continue

\* The inductive invariant holds of every behaviour.
THEOREM InductiveInvariant == Spec => []IInv
<1>1. IInv /\ [Next]_vars => IInv'
  <2> SUFFICES ASSUME IInv, [Next]_vars PROVE IInv'
    OBVIOUS
  <2>1. CASE UNCHANGED vars
    BY <2>1 DEF vars, moveVars, controlVars, rosVars, IInv, TypeOK, MarksOK, Kinds, Places,
       CallbackInv, CommandInv, CommandInForce, PosKind, PlaceInv, Seen, WayFrom
  <2> QED  BY <2>1, ControlInv, CallbackStepInv DEF Next
<1> QED  BY <1>1, InitInv, PTL DEF Spec

\* Every variable keeps its type, and the positions stay evenly divisible.
THEOREM TypeCorrect == Spec => []TypeOK
<1>1. IInv => TypeOK
  BY DEF IInv
<1> QED  BY <1>1, InductiveInvariant, PTL

\* Between callbacks Run_Flag and relative say what Move is.
THEOREM FlagsAgree == Spec => []FlagsMatchMove
<1>1. IInv => FlagsMatchMove
  BY DEF IInv, TypeOK, Kinds, Places, CommandInv, FlagsMatchMove
<1> QED  BY <1>1, InductiveInvariant, PTL

\* A period after a callback the motors follow its command.
THEOREM CommandSettles == Spec => []CommandInForce
<1>1. IInv => CommandInForce
  BY DEF IInv
<1> QED  BY <1>1, InductiveInvariant, PTL

-------------------------------------------------------------------------------
(* What calm messages keep.                                                  *)

\* A control period outside the windows keeps what calm messages keep.
LEMMA ControlCalm ==
  ASSUME IInv, CalmInv, ControlTask
  PROVE  CalmInv'
<1> SUFFICES ASSUME Control, calm, pc \notin Windows  PROVE CalmInv'
  BY DEF ControlTask, CalmInv
<1> USE DEF IInv, CalmInv, LoopOfItsKind, Places
<1>1. UNCHANGED <<Run_Flag, relative, Move, moveKind, pc, msg, NOW>>
  BY DEF Control, rosVars
<1>2. cmd'.kind = cmd.kind /\ cmd'.due = IF pc = "idle" THEN FALSE ELSE cmd.due
  BY DEF Control, Due, TypeOK
<1>3. pc' \notin Windows
  BY <1>1
<1>4. CASE ControlSpeed
  BY <1>1, <1>2, <1>3, <1>4 DEF ControlSpeed, CommandInv, TypeOK
<1>5. CASE ControlAbsolute
  <2>1. pending_flag = 0 /\ UNCHANGED pending_flag
    BY <1>5 DEF ControlAbsolute, CommandInv, TypeOK
  <2>2. targetKind' \in Places /\ loop' = "position"
    BY <1>5 DEF ControlAbsolute
  <2> QED  BY <1>1, <1>2, <1>3, <1>5, <2>1, <2>2 DEF ControlAbsolute
<1>6. CASE ControlRelative
  <2>1. CASE pending_flag = 1
    <3>1. pc = "idle" /\ cmd.kind = "displacement" /\ cmd.due
      BY <2>1 DEF TypeOK
    <3>2. moveKind = "displacement"
      BY <3>1 DEF CommandInv
    <3>3. pending_flag' = 0 /\ targetKind' = "position" /\ loop' = "position"
      BY <1>6, <2>1, <3>2 DEF ControlRelative, AddMove, Sum
    <3> QED  BY <1>1, <1>2, <1>3, <1>6, <3>1, <3>3 DEF ControlRelative
  <2>2. CASE pending_flag = 0
    <3>1. UNCHANGED <<targetKind, pending_flag>> /\ loop' = "position"
      BY <1>6, <2>2 DEF ControlRelative
    <3> QED  BY <1>1, <1>2, <1>3, <1>6, <2>2, <3>1 DEF ControlRelative
  <2> QED  BY <2>1, <2>2 DEF TypeOK
<1> QED  BY <1>4, <1>5, <1>6 DEF Control

\* A message that comes a period after the callback before it keeps it too.
LEMMA MessageCalm ==
  ASSUME IInv, CalmInv, Message
  PROVE  CalmInv'
<1> SUFFICES ASSUME Begin, calm, ~cmd.due  PROVE CalmInv'
  BY DEF Message, CalmInv
<1> USE DEF IInv, CalmInv, LoopOfItsKind, Places, moveVars, controlVars, rosVars, Command,
        Windows
<1>1. ASSUME NEW v \in SpeedMsgs, SpeedFlag(v)  PROVE CalmInv'
  BY <1>1 DEF SpeedFlag, Enter, Set_Run_Flag
<1>2. CASE StopFlag
  BY <1>2 DEF StopFlag, Enter, Set_Run_Flag
<1>3. ASSUME NEW v \in PosMsgs, PosMode(v)  PROVE CalmInv'
  BY <1>3 DEF PosMode, Enter, Unshared, TypeOK
<1>4. ASSUME NEW m \in ModeMsgs, ModeEnter(m)  PROVE CalmInv'
  BY <1>4 DEF ModeEnter, Enter, Unshared
<1>5. ASSUME NEW m \in ModeMsgs, ModeSwitch(m)  PROVE CalmInv'
  <2>1. UNCHANGED <<Run_Flag, pending_flag, moveKind, pc, loop, targetKind>>
    BY <1>5 DEF ModeSwitch, Set_relative
  <2>2. pc = "idle" /\ relative' = m /\ pending_flag = 0
    BY <1>5 DEF ModeSwitch, Set_relative, TypeOK
  <2>3. CASE Run_Flag = 1
    <3>1. relative # 1 /\ cmd.kind = "position" /\ loop = "position"
      BY <1>5, <2>2, <2>3 DEF ModeSwitch, CommandInv, CommandInForce, TypeOK, Kinds
    <3>2. IF m = 1 THEN cmd'.kind = "free" ELSE cmd' = cmd
      BY <1>5, <2>3 DEF ModeSwitch
    <3> QED  BY <2>1, <2>2, <2>3, <3>1, <3>2 DEF CommandInv
  <2>4. CASE Run_Flag = 0
    BY <1>5, <2>1, <2>2, <2>4 DEF ModeSwitch
  <2> QED  BY <2>3, <2>4 DEF TypeOK
<1> QED  BY <1>1, <1>2, <1>3, <1>4, <1>5 DEF Begin

\* The steps of a callback keep it.
LEMMA CallbackCalm ==
  ASSUME IInv, CalmInv, Callback
  PROVE  CalmInv'
<1> SUFFICES ASSUME Continue, calm, calm'  PROVE CalmInv'
  BY DEF Callback, CalmInv
<1> USE DEF IInv, CalmInv, LoopOfItsKind, Places, CallbackInv, moveVars, controlVars, rosVars,
        Command, Windows
<1>1. CASE SpeedMove
  BY <1>1 DEF SpeedMove, Return, Set_Move, TypeOK
<1>2. CASE PosNow
  BY <1>2 DEF PosNow, Capture, Unshared
<1>3. CASE PosLast
  BY <1>3 DEF PosLast, Goto, Set_Last_Target
<1>4. CASE PosFlag
  BY <1>4 DEF PosFlag, Goto, Set_Run_Flag
<1>5. CASE PosMove
  BY <1>5 DEF PosMove, Goto, Set_Move, PosKind, TypeOK
<1>6. CASE PosPending
  <2>1. cmd' = [kind |-> PosKind, v |-> msg.v, due |-> TRUE] /\ pc' = "idle" /\ Run_Flag = 1
    BY <1>6 DEF PosPending, Return
  <2>2. pending_flag = 0 /\ moveKind = PosKind
    BY <1>6 DEF PosPending, Return, TypeOK
  <2>3. CASE relative = 1
    BY <1>6, <2>1, <2>2, <2>3 DEF PosPending, Return, Set_pending_flag, PosKind
  <2>4. CASE relative # 1
    BY <1>6, <2>1, <2>2, <2>4 DEF PosPending, Return, Unshared, PosKind
  <2> QED  BY <2>3, <2>4
<1>7. CASE ModeNow
  BY <1>7 DEF ModeNow, Capture, Unshared
<1>8. CASE ModeLast
  BY <1>8 DEF ModeLast, Goto, Set_Last_Target
<1>9. CASE ModeMove
  BY <1>9 DEF ModeMove, Goto, Set_Move, TypeOK
<1>10. CASE ModeRelative
  BY <1>10 DEF ModeRelative, Return, Set_relative, TypeOK
<1> QED
  BY <1>1, <1>2, <1>3, <1>4, <1>5, <1>6, <1>7, <1>8, <1>9, <1>10 DEF Continue

\* Calm messages keep the kinds in step in every behaviour.
THEOREM CalmInvariant == Spec => []CalmInv
<1>1. Init => CalmInv
  BY DEF Init, CalmInv, LoopOfItsKind, Command, Windows
<1>2. IInv /\ CalmInv /\ [Next]_vars => CalmInv'
  <2> SUFFICES ASSUME IInv, CalmInv, [Next]_vars PROVE CalmInv'
    OBVIOUS
  <2>1. CASE UNCHANGED vars
    BY <2>1 DEF vars, moveVars, controlVars, rosVars, CalmInv, LoopOfItsKind
  <2> QED  BY <2>1, ControlCalm, MessageCalm, CallbackCalm DEF Next
<1> QED  BY <1>1, <1>2, InductiveInvariant, PTL DEF Spec

\* Outside the windows the velocity loop follows speeds and the position loop places.
THEOREM LoopFollowsItsKind == Spec => []RunFlagSelectsKind
<1>1. CalmInv => RunFlagSelectsKind
  BY DEF CalmInv, RunFlagSelectsKind
<1> QED  BY <1>1, CalmInvariant, PTL

\* Each displacement is added exactly once, or exactly twice after an early addition.
THEOREM DisplacementCounted == Spec => []DisplacementApplied
<1>1. IInv => DisplacementApplied
  BY DEF IInv, CommandInv, DisplacementApplied, TypeOK
<1> QED  BY <1>1, InductiveInvariant, PTL

\* The speed of the command in force is limited along the way the car travels.
THEOREM TravelLimited == Spec => []LimitAlongTravel
<1>1. IInv => LimitAlongTravel
  <2> SUFFICES ASSUME IInv, pc = "idle", ~cmd.due  PROVE LimitAlongTravel
    BY DEF LimitAlongTravel
  <2>1. ASSUME cmd.kind = "position", stood
        PROVE  \E p \in been : \/ cmd.v = Get_Position_NOW(p)
                              \/ Bias = Minus(cmd.v, Get_Position_NOW(p))
    <3>1. Move = cmd.v /\ Last_Target = Move
      BY <2>1 DEF IInv, CommandInv, PlaceInv
    <3>2. PICK q \in Seen : WayFrom(q)
      BY <2>1 DEF IInv, PlaceInv
    <3> QED  BY <3>1, <3>2 DEF Seen, WayFrom
  <2> QED  BY <2>1 DEF IInv, PlaceInv, LimitAlongTravel
<1> QED  BY <1>1, InductiveInvariant, PTL
-------------------------------------------------------------------------------
(* The implementation of the contract.                                       *)

\* The contract's arithmetic is that of the chassis.
LEMMA SameKinematics ==
  /\ \A v : Contract!Kinematic_Analysis(v) = Kinematic_Analysis(v)
  /\ \A p, q : Contract!Plus(p, q) = Plus(p, q)
  /\ \A p : Contract!Get_Position_NOW(p) = Get_Position_NOW(p)
  /\ Contract!Still = Still /\ Contract!Wheels = Wheels
BY DEF Contract!Get_Position_NOW, Get_Position_NOW, Contract!Kinematic_Analysis, Kinematic_Analysis, Contract!Plus, Plus,
   Contract!Still, Still, Contract!Wheels, Wheels

\* The request of the contract is the message whose callback is in progress.
LEMMA NoRequestIffIdle ==
  ASSUME IInv
  PROVE  ([topic |-> msg.topic, v |-> msg.v] = Contract!NoRequest) <=> pc = "idle"
BY SameKinematics DEF IInv, CallbackInv, NoMsg, Contract!NoRequest

\* A control period of the chassis is a period of the contract.
LEMMA ControlIsPeriod ==
  ASSUME IInv, ControlTask
  PROVE  \E d \in EncoderReads : Contract!Period(d)
<1>0. TypeOK'
  BY ControlType DEF IInv
<1> SUFFICES ASSUME Control  PROVE \E d \in EncoderReads : Contract!Period(d)
  BY DEF ControlTask
<1>1. PICK d \in EncoderReads : Position' = Plus(Position, d)
  BY DEF Control, Read_Encoders
<1>2. Target' \in Wheels
  BY <1>0 DEF TypeOK
<1>3. UNCHANGED <<Run_Flag, relative, Move, moveKind, pc, msg, NOW>>
  BY DEF Control, rosVars
<1>4. /\ cmd' = IF pc = "idle" THEN [cmd EXCEPT !.due = FALSE] ELSE cmd
      /\ been' = IF pc = "idle" THEN been ELSE been \cup {Position'}
  BY DEF Control, Due
<1>5. ASSUME pc = "idle"  PROVE Contract!Follows(Target')
  <2>1. CASE cmd.kind = "free"
    BY <2>1 DEF Contract!Follows
  <2>2. CASE cmd.kind = "displacement"
    <3>1. ControlRelative
      BY <1>5, <2>2 DEF IInv, CommandInv, Control, ControlSpeed, ControlAbsolute, TypeOK
    <3>2. Target' = IF cmd.due THEN Plus(Position, Kinematic_Analysis(cmd.v)) ELSE Target
      BY <1>5, <2>2, <3>1 DEF IInv, CommandInv, ControlRelative, AddMove,
         Kinematic_Analysis_Relative
    <3> QED  BY <2>2, <3>2, SameKinematics DEF Contract!Follows
  <2>3. CASE cmd.kind \in {"speed", "position"}
    <3>1. Target' = Kinematic_Analysis(cmd.v)
      BY <1>5, <2>3 DEF IInv, CommandInv, Control, ControlSpeed, ControlAbsolute,
         ControlRelative, TypeOK
    <3> QED  BY <2>3, <3>1, SameKinematics DEF Contract!Follows
  <2> QED  BY <2>1, <2>2, <2>3 DEF IInv, TypeOK, Kinds
<1> QED
  BY <1>1, <1>2, <1>3, <1>4, <1>5, NoRequestIffIdle, SameKinematics DEF Contract!Period

\* The first step of a callback accepts its message as a request.
LEMMA EnterAccepts ==
  ASSUME IInv, NEW topic, NEW v, NEW m, NEW to, Enter(topic, v, m, to), UNCHANGED relative,
         [topic |-> topic, v |-> v] \in Contract!Requests
  PROVE  \E r \in Contract!Requests : Contract!Accept(r)
<1>1. Contract!Accept([topic |-> topic, v |-> v])
  BY NoRequestIffIdle DEF Enter, controlVars, Contract!Accept
<1> QED  BY <1>1

\* The steps of a callback are an acceptance, stutters and a completion.
LEMMA CallbackImplements ==
  ASSUME IInv, Begin \/ Continue
  PROVE  [Contract!ContractNext]_(Contract!contractVars)
<1> USE SameKinematics, NoRequestIffIdle
<1> USE DEF Contract!ContractNext, Contract!contractVars, Contract!Accept, Contract!Complete,
        Contract!Requests, Contract!Command, Command, NoMsg, moveVars, controlVars, rosVars,
        Contract!NoRequest
<1>1. ASSUME NEW v \in SpeedMsgs, SpeedFlag(v)
      PROVE  \E r \in Contract!Requests : Contract!Accept(r)
  <2>1. [topic |-> "speed", v |-> v] \in Contract!Requests
    OBVIOUS
  <2>2. UNCHANGED relative
    BY <1>1 DEF SpeedFlag, Set_Run_Flag
  <2> QED  BY <1>1, <2>1, <2>2, EnterAccepts DEF SpeedFlag
<1>2. ASSUME StopFlag
      PROVE  \E r \in Contract!Requests : Contract!Accept(r)
  <2>1. [topic |-> "stop", v |-> Still] \in Contract!Requests
    OBVIOUS
  <2>2. UNCHANGED relative
    BY <1>2 DEF StopFlag, Set_Run_Flag
  <2> QED  BY <1>2, <2>1, <2>2, EnterAccepts DEF StopFlag
<1>3. ASSUME SpeedMove
      PROVE  Contract!CompleteSpeed
  BY <1>3 DEF SpeedMove, Return, Set_Move, Contract!CompleteSpeed, IInv, CallbackInv
<1>4. ASSUME NEW v \in PosMsgs, PosMode(v)
      PROVE  \E r \in Contract!Requests : Contract!Accept(r)
  <2>1. [topic |-> "pos", v |-> v] \in Contract!Requests
    OBVIOUS
  <2>2. UNCHANGED relative
    BY <1>4 DEF PosMode, Unshared
  <2> QED  BY <1>4, <2>1, <2>2, EnterAccepts DEF PosMode
<1>5. ASSUME PosNow \/ PosLast \/ PosFlag \/ PosMove \/ ModeNow \/ ModeLast \/ ModeMove
      PROVE  UNCHANGED Contract!contractVars
  BY <1>5 DEF PosNow, PosLast, PosFlag, PosMove, ModeNow, ModeLast, ModeMove, Goto, Capture,
     Set_Last_Target, Set_Run_Flag, Set_Move, Unshared
<1>6. ASSUME PosPending
      PROVE  Contract!CompletePos
  BY <1>6 DEF PosPending, PosKind, Return, Set_pending_flag, Unshared, Contract!CompletePos,
     IInv, CallbackInv
<1>7. ASSUME NEW m \in ModeMsgs, ModeSwitch(m)
      PROVE  Contract!ChangeMode(m)
  BY <1>7 DEF ModeSwitch, Set_relative, Contract!ChangeMode, IInv, CommandInv, TypeOK
<1>8. ASSUME NEW m \in ModeMsgs, ModeEnter(m)
      PROVE  \E r \in Contract!Requests : Contract!Accept(r)
  <2>1. [topic |-> "mode", v |-> Still] \in Contract!Requests
    OBVIOUS
  <2>2. UNCHANGED relative
    BY <1>8 DEF ModeEnter, Unshared
  <2> QED  BY <1>8, <2>1, <2>2, EnterAccepts DEF ModeEnter
<1>9. ASSUME ModeRelative
      PROVE  \E m \in ModeMsgs : Contract!CompleteHold(m)
  <2>1. \E p \in been : Move = Get_Position_NOW(p)
    BY <1>9 DEF ModeRelative, Return, IInv, PlaceInv, Seen
  <2>2. Contract!CompleteHold(msg.m)
    BY <1>9, <2>1 DEF ModeRelative, Return, Set_relative, Contract!CompleteHold, IInv,
       CallbackInv, TypeOK
  <2> QED  BY <1>9, <2>2 DEF ModeRelative, Return, IInv, CallbackInv
<1> QED
  BY <1>1, <1>2, <1>3, <1>4, <1>5, <1>6, <1>7, <1>8, <1>9 DEF Begin, Continue

\* Every behaviour of the chassis is a behaviour of its contract.
THEOREM ChassisImplementsContract == Spec => ImplementsContract
<1>1. Init => Contract!ContractInit
  BY SameKinematics DEF Init, Contract!ContractInit, NoMsg, Contract!NoRequest, Command,
     Contract!Command
<1>2. IInv /\ [Next]_vars => [Contract!ContractNext]_(Contract!contractVars)
  <2> SUFFICES ASSUME IInv, [Next]_vars
               PROVE  [Contract!ContractNext]_(Contract!contractVars)
    OBVIOUS
  <2>1. CASE UNCHANGED vars
    BY <2>1 DEF vars, controlVars, rosVars, Contract!contractVars
  <2>2. CASE ControlTask
    BY <2>2, ControlIsPeriod DEF Contract!ContractNext
  <2> QED  BY <2>1, <2>2, CallbackImplements DEF Next, Message, Callback
<1> QED
  BY <1>1, <1>2, InductiveInvariant, PTL DEF Spec, ImplementsContract, Contract!Contract
===============================================================================
