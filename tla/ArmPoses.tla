-------------------------------- MODULE ArmPoses --------------------------------
(***************************************************************************)
(* The poses of src/Control/Servo.cpp, as /car/servo_mode asks for them:   *)
(* fixed sequences of actions on the tray (joint 2), the arm (3 swings it, *)
(* 4 raises and lowers it), the claw (5) and the two stages of the         *)
(* platform.  The ROS task adds the actions of a pose one by one; the      *)
(* servo task carries them out in order while more are being added.  The   *)
(* queue is the one of ActionFifo, which ServoQueue implements; that an    *)
(* action is finished when the next starts is ServoQueue's OneAtATime.     *)
(*                                                                         *)
(* Nothing in the code says in which order joints may move: the sequences  *)
(* must not swing the lowered arm into the tray from whatever pose the     *)
(* sequence before left it in.                                             *)
(***************************************************************************)
EXTENDS ActionFifo

CONSTANTS
  Modes,       \* the values of /car/servo_mode
  PushSteps, LiftSteps,  \* the places /car/xy sends the stages to, in steps
  QueueBound   \* a request comes while at most this many actions are queued

ASSUME BoundAssumption == QueueBound \in Nat

ASSUME StepsAssumption == PushSteps \subseteq Nat /\ LiftSteps \subseteq Nat

VARIABLES
  todo,   \* the actions of the pose that the ROS task has still to add
  arm     \* where the joints 2 to 5 were when no action moved them

armVars == <<queue, issued, todo, arm>>

\* Joints 0xFFF0 and 0xFFF1.
Push == 65520
Lift == 65521

\* Positions of joint 3, of joint 4 and of joint 5; a stage at its switch.
Middle == 470
Side == 1500
Raised == 1770
Level == 1300
Opened == 750
Closed == 580
Home == 450

Tracked == 2..5

A(id, value) == [id |-> id, value |-> value]

Init ==
  /\ FifoInit /\ todo = <<>>
  /\ arm = [j \in Tracked |-> CASE j = 2 -> 170 [] j = 3 -> Middle
                                [] j = 4 -> 300 [] j = 5 -> Closed]
-------------------------------------------------------------------------------
Put(slot) ==
  <<A(2, slot), A(Push, 9736), A(Lift, Home), A(4, Raised), A(3, Side), A(4, Level),
    A(Lift, 5263), A(5, Opened), A(4, Raised), A(Lift, Home)>>

\* Mutant: the arm is left lowered over the tray.
Grab_StaysLow(slot) ==
  <<A(2, slot), A(Push, 9736), A(Lift, Home), A(5, Opened), A(4, Raised), A(3, Side),
    A(4, Level), A(Lift, 6578), A(5, Closed), A(Lift, Home)>>

Grab(slot) ==
  <<A(2, slot), A(Push, 9736), A(Lift, Home), A(5, Opened), A(4, Raised), A(3, Side),
    A(4, Level), A(Lift, 6578), A(5, Closed), A(Lift, Home), A(4, Raised)>>

\* Mutant: the arm is swung before it is raised.
Servo_Camera_SwingsFirst == <<A(3, Side), A(4, Raised), A(Push, 33421)>>

Servo_Camera == <<A(4, Raised), A(3, Side), A(Push, 33421)>>

Servo_Camera1 == <<A(4, Raised), A(3, Middle)>>

All_Middle == <<A(3, Middle), A(4, Level)>>

Servo_InitPos ==
  <<A(1, 2200), A(3, Middle), A(4, Level), A(2, 170), A(5, Closed)>>

Servo_Grab_Upper ==
  <<A(4, Raised), A(3, Middle), A(Push, 33421), A(5, Opened), A(Lift, 6578),
    A(4, Level), A(5, Closed)>>

Servo_Grab_Lower ==
  <<A(Push, 33421), A(3, Middle), A(4, Level), A(5, Opened), A(Lift, 39473)>>

Servo_Grab_Ground ==
  <<A(3, Middle), A(4, Level), A(5, Opened), A(Lift, 48684), A(5, Closed), A(Lift, 4210)>>

Servo_Put_Lower ==
  <<A(3, Middle), A(4, Level), A(Lift, 48684), A(5, Opened), A(Lift, Home)>>

\* The switch of callback_servo; the poses that only note their number add nothing.
Pose(mode) ==
  CASE mode = 0 -> Put(170)         [] mode = 1 -> Put(550)
    [] mode = 2 -> Put(940)         [] mode = 3 -> Grab(170)
    [] mode = 4 -> Grab(550)        [] mode = 5 -> Grab(940)
    [] mode = 6 -> Servo_Camera     [] mode = 7 -> Servo_Camera1
    [] mode = 8 -> <<A(5, Closed)>> [] mode = 9 -> <<A(5, Opened)>>
    [] mode = 11 -> Servo_Put_Lower [] mode = 12 -> Servo_InitPos
    [] mode = 13 -> Servo_Grab_Upper [] mode = 14 -> Servo_Grab_Lower
    [] mode = 15 -> All_Middle      [] mode = 16 -> Servo_Grab_Ground
    [] OTHER -> <<>>
-------------------------------------------------------------------------------
callback_servo(mode) ==
  /\ todo = <<>> /\ Len(queue) <= QueueBound
  /\ todo' = Pose(mode)
  /\ UNCHANGED <<queue, issued, arm>>

\* A coordinate that is not positive leaves its stage alone.
Stage(id, steps) == {<<>>} \cup {<<A(id, n)>> : n \in steps}

callback_xy(push, lift) ==
  /\ todo = <<>> /\ Len(queue) <= QueueBound
  /\ todo' = push \o lift
  /\ UNCHANGED <<queue, issued, arm>>

\* Mutant: an action is added behind the one in progress instead of at the end.
Servo_Add_Action_AtHead ==
  /\ todo # <<>>
  /\ todo' = Tail(todo)
  /\ queue' = IF queue = <<>> THEN <<Head(todo)>>
              ELSE <<Head(queue), Head(todo)>> \o Tail(queue)
  /\ issued' = IF queue = <<>> THEN Head(todo) ELSE issued
  /\ UNCHANGED arm

Servo_Add_Action ==
  /\ todo # <<>>
  /\ todo' = Tail(todo)
  /\ Request(Head(todo))
  /\ UNCHANGED arm

\* The joint of the action in progress has arrived when the next one starts.
Servo_Server ==
  /\ Finish
  /\ arm' = IF Head(queue).id \in Tracked
            THEN [arm EXCEPT ![Head(queue).id] = Head(queue).value] ELSE arm
  /\ UNCHANGED todo

Next ==
  \/ \E mode \in Modes : callback_servo(mode)
  \/ \E push \in Stage(Push, PushSteps), lift \in Stage(Lift, LiftSteps) :
       callback_xy(push, lift)
  \/ Servo_Add_Action
  \/ Servo_Server

Spec == Init /\ [][Next]_armVars
-------------------------------------------------------------------------------
(* Properties                                                                *)

\* Actions name known joints; the tracked ones take the positions of the table.
TypeOK ==
  /\ \A i \in 1..Len(queue) : queue[i].id \in 1..5 \cup {Push, Lift}
  /\ arm[2] \in {170, 550, 940} /\ arm[3] \in {Middle, Side}
  /\ arm[4] \in {300, Level, Raised} /\ arm[5] \in {Opened, Closed}

\* The action that is moving a joint from where it was.
Moves(j) == queue # <<>> /\ Head(queue).id = j /\ Head(queue).value # arm[j]

\* The arm swings only while it is raised, whatever poses came before: lowered, it
\* would sweep through the tray and the platform.
SwingsRaised == Moves(3) => arm[4] = Raised

\* The tray does not turn under an arm that is lowered over it.
TrayTurnsClear == Moves(2) => arm[3] = Middle \/ arm[4] = Raised

\* When everything asked for is done the arm does not rest lowered over the tray,
\* so that the next pose, whichever it is, may begin.
RestsClear == todo = <<>> /\ queue = <<>> => arm[3] = Middle \/ arm[4] = Raised
===============================================================================
