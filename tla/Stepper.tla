-------------------------------- MODULE Stepper --------------------------------
(***************************************************************************)
(* One of the two stepper axes of src/Hardware/StepperMotor.cpp (the code  *)
(* of the other differs in its names).  TIM7 calls the ISR every 50 us; a  *)
(* limit switch raises an EXTI interrupt of the same priority; a task sets *)
(* a target with an atomic load of the total and an atomic store of what   *)
(* is left, between which both interrupts may run.                         *)
(*                                                                         *)
(* Left and total count half steps, positive towards the switch; the shaft *)
(* is where the carriage is, in full steps from the switch.                *)
(***************************************************************************)
EXTENDS Integers

CONSTANTS
  Goals,       \* targets of the tasks, in steps
  Speeds,      \* timer periods per half step
  HomeGoal,    \* 450: where the ISR sends the carriage from the switch
  BootGoal,    \* -0xFFFF: where the boot sends it, beyond the switch
  Starts,      \* where the carriage may be at power-on
  MinShaft, MaxShaft,   \* the ends of the rail, where the motor stalls
  MaxBounces,  \* times the contact opens again after it has closed
  TotalBound   \* tasks set targets while the total is in -TotalBound..TotalBound

ASSUME GoalsAssumption == Goals \subseteq Int /\ HomeGoal \in Int /\ BootGoal \in Int

ASSUME SpeedsAssumption == Speeds \subseteq Int

ASSUME RailAssumption ==
  /\ MinShaft \in Int /\ MaxShaft \in Int /\ MinShaft <= 0 /\ MaxShaft >= 0
  /\ Starts \subseteq MinShaft..MaxShaft /\ MaxBounces \in Nat /\ TotalBound \in Nat

VARIABLES
  left, total,      \* current_halfstep_left_1, current_halfstep_total_1
  speed,            \* current_speed_1
  counter, state,   \* the ISR's static variables
  clear_flag,       \* clear_flag_1; clear_count_1 is 0 outside the ISR
  setter,           \* the task inside set_stepper_1
  shaft,            \* the carriage
  closed, bounces,  \* the contact of the switch
  edge,             \* the EXTI line is pending
  \* history:
  goal,             \* the last target stored
  raced,            \* whether an interrupt moved the carriage under that store
  touched,          \* the same of the call in progress
  home,             \* the shaft at the last homing, or Unknown
  rested            \* whether the tasks have kept to rests, see Next

taskVars == <<speed, setter>>
switchVars == <<closed, bounces, edge>>
vars == <<left, total, speed, counter, state, clear_flag, setter, shaft,
          closed, bounces, edge, goal, raced, touched, home, rested>>

Unknown == MaxShaft + 1

\* The half steps of a target: targets are steps away from the switch.
HalfSteps(steps) == 0 - 2 * steps

NoCall == [goal |-> 0, read |-> 0, active |-> FALSE]

\* Power-on, with StartServoTask about to store the boot's target.
Init ==
  /\ left = 0 /\ total = 0 /\ speed = 2
  /\ counter = 0 /\ state = FALSE /\ clear_flag = FALSE
  /\ setter = [goal |-> BootGoal, read |-> 0, active |-> TRUE]
  /\ shaft \in Starts
  /\ closed = (shaft <= 0) /\ bounces = 0 /\ edge = FALSE
  /\ goal = 0 /\ raced = FALSE /\ touched = FALSE /\ home = Unknown
  /\ rested = TRUE

-------------------------------------------------------------------------------
(* The timer interrupt.                                                      *)

\* Mutant: the period of the step is compared with > and reset with >=.
HalfStep_Never ==
  IF counter + 1 <= speed \/ left = 0 THEN 0 ELSE IF left > 0 THEN 1 ELSE -1

\* The half step of this period: 1 towards the switch, -1 away from it.
HalfStep ==
  IF counter + 1 < speed \/ left = 0 THEN 0 ELSE IF left > 0 THEN 1 ELSE -1

\* The driver takes a full step at a rising edge of STEP, when state is written
\* as TRUE; at the ends of the rail it stalls.
ShaftAfter(step) ==
  IF step = 0 \/ ~state \/ shaft - step \notin MinShaft..MaxShaft THEN shaft ELSE shaft - step

\* Mutant: the EXTI line is configured for the rising edge.
Switch_Rising ==
  /\ closed' = IF shaft' > 0 THEN FALSE ELSE closed \/ shaft > 0
  /\ edge' = (shaft <= 0 /\ shaft' > 0)
  /\ bounces' = IF shaft' > 0 THEN 0 ELSE bounces

\* The contact follows the carriage; a falling edge latches the EXTI line.
Switch ==
  /\ closed' = IF shaft' > 0 THEN FALSE ELSE closed \/ shaft > 0
  /\ edge' = (shaft > 0 /\ shaft' <= 0)
  /\ bounces' = IF shaft' > 0 THEN 0 ELSE bounces

\* Mutant: homing keeps the old coordinate.
Home_KeepsTotal ==
  /\ total' = total /\ left' = HalfSteps(HomeGoal)
  /\ goal' = HomeGoal /\ raced' = FALSE /\ touched' = TRUE /\ home' = shaft'

\* The target is relative to the total, which homing sets to 0.
Home ==
  /\ total' = 0 /\ left' = HalfSteps(HomeGoal)
  /\ goal' = HomeGoal /\ raced' = FALSE /\ touched' = TRUE /\ home' = shaft'

\* Mutant: only half steps towards the switch are counted.
Move_CountsOneWay(step) ==
  /\ left' = left - step /\ total' = IF step > 0 THEN total + step ELSE total
  /\ touched' = (touched \/ step # 0)
  /\ UNCHANGED <<goal, raced, home>>

Move(step) ==
  /\ left' = left - step /\ total' = total + step
  /\ touched' = (touched \/ step # 0)
  /\ UNCHANGED <<goal, raced, home>>

\* Mutant: the pin is not read again before homing.
stepper1_ISR_TrustsFlag ==
  /\ ~edge
  /\ counter' = IF counter + 1 >= speed THEN 0 ELSE counter + 1
  /\ LET step == HalfStep
     IN  /\ state' = IF step = 0 THEN state ELSE ~state
         /\ shaft' = ShaftAfter(step)
         /\ Switch
         /\ IF clear_flag THEN Home ELSE Move(step)
  /\ clear_flag' = FALSE
  /\ UNCHANGED taskVars

stepper1_ISR ==
  /\ ~edge
  /\ counter' = IF counter + 1 >= speed THEN 0 ELSE counter + 1
  /\ LET step == HalfStep
     IN  /\ state' = IF step = 0 THEN state ELSE ~state
         /\ shaft' = ShaftAfter(step)
         /\ Switch
         /\ IF clear_flag /\ closed' THEN Home ELSE Move(step)
  /\ clear_flag' = FALSE
  /\ UNCHANGED taskVars

(* The switch interrupt, and the contact.                                    *)

HAL_GPIO_EXTI_Callback ==
  /\ edge
  /\ edge' = FALSE /\ clear_flag' = TRUE
  /\ UNCHANGED <<left, total, counter, state, shaft, closed, bounces, taskVars,
                 goal, raced, touched, home>>

Open ==
  /\ closed /\ ~edge /\ bounces < MaxBounces
  /\ closed' = FALSE /\ bounces' = bounces + 1
  /\ UNCHANGED <<left, total, counter, state, clear_flag, shaft, edge, taskVars,
                 goal, raced, touched, home>>

Close ==
  /\ ~closed /\ shaft <= 0
  /\ closed' = TRUE /\ edge' = TRUE
  /\ UNCHANGED <<left, total, counter, state, clear_flag, shaft, bounces, taskVars,
                 goal, raced, touched, home>>

-------------------------------------------------------------------------------
(* The tasks.  Servo_Lock lets one call at a time in.                        *)

set_speed_1(s) ==
  /\ ~setter.active
  /\ speed' = s
  /\ UNCHANGED <<left, total, counter, state, clear_flag, setter, shaft, switchVars,
                 goal, raced, touched, home>>

Load(g) ==
  /\ ~setter.active /\ total \in -TotalBound..TotalBound
  /\ setter' = [goal |-> g, read |-> total, active |-> TRUE]
  /\ touched' = FALSE
  /\ UNCHANGED <<left, total, speed, counter, state, clear_flag, shaft, switchVars,
                 goal, raced, home>>

Store ==
  /\ setter.active
  /\ left' = HalfSteps(setter.goal) - setter.read
  /\ setter' = NoCall
  /\ goal' = setter.goal /\ raced' = touched
  /\ UNCHANGED <<total, speed, counter, state, clear_flag, shaft, switchVars, touched, home>>

-------------------------------------------------------------------------------
Interrupts == stepper1_ISR \/ HAL_GPIO_EXTI_Callback

\* The axis rests once it was homed and nothing is left to do.
Resting == left = 0 /\ ~clear_flag /\ ~edge /\ closed = (shaft <= 0) /\ home # Unknown

\* The tasks keep to rests while they set speeds and targets only there, and the
\* contact does not bounce while they do.
Interrupt == Interrupts /\ UNCHANGED rested

Bounce == Open /\ rested' = (rested /\ ~setter.active)

Settle == Close /\ UNCHANGED rested

Call ==
  /\ (\E s \in Speeds : set_speed_1(s)) \/ (\E g \in Goals : Load(g))
  /\ rested' = (rested /\ Resting)

Return == Store /\ UNCHANGED rested

Next == Interrupt \/ Bounce \/ Settle \/ Call \/ Return

\* The timer runs for ever, interrupts are served, a bouncing contact closes,
\* and a task inside set_stepper_1 returns.
Fairness == WF_vars(Interrupt) /\ WF_vars(Settle) /\ WF_vars(Return)

Spec == Init /\ [][Next]_vars

FairSpec == Spec /\ Fairness
-------------------------------------------------------------------------------
(* Properties                                                                *)

\* The variables have their C types; the half-step arithmetic stays integral.
TypeOK ==
  /\ left \in Int /\ total \in Int /\ speed \in Int /\ counter \in Nat
  /\ state \in BOOLEAN /\ clear_flag \in BOOLEAN
  /\ setter \in [goal : Int, read : Int, active : BOOLEAN]
  /\ shaft \in MinShaft..MaxShaft
  /\ closed \in BOOLEAN /\ bounces \in 0..MaxBounces /\ edge \in BOOLEAN
  /\ goal \in Int /\ raced \in BOOLEAN /\ touched \in BOOLEAN
  /\ rested \in BOOLEAN
  /\ home \in MinShaft..Unknown

\* Steps never change where the carriage is going: unless an interrupt ran a half
\* step or a homing between the load and the store of set_stepper_1, what is left
\* plus what was done is the last target, through every step and every homing.
TargetKept == ~raced => left + total = HalfSteps(goal)

\* Homing happens at the switch and nowhere else: the coordinate is only reset
\* when the contact that asked for it is still closed.
HomedAtSwitch == home # Unknown => home <= 0

\* While targets are set at rest, the carriage is where get_steps_1 says, counted
\* from the place of the last homing, to half a step and at rest exactly.
Coordinates ==
  rested /\ home # Unknown =>
    /\ 2 * (shaft - home) + total \in {-1, 0, 1}
    /\ left = 0 => 2 * (shaft - home) = -total

\* A move ends, whatever the contact does, unless the tasks disturb it.
MoveEnds == rested /\ left # 0 ~> left = 0 \/ ~rested

\* At power-on away from the switch, the boot's move finds the switch, even if its
\* contact bounces when the ISR reads it.
BootHomes == rested /\ shaft > 0 /\ home = Unknown ~> home # Unknown \/ ~rested
===============================================================================
