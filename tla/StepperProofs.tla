----------------------------- MODULE StepperProofs -----------------------------
(* Where a stepper goes, for every set of targets and speeds and every rail. *)
EXTENDS Stepper, TLAPS

USE GoalsAssumption, SpeedsAssumption, RailAssumption

\* While a task is inside set_stepper_1 its load is good until an interrupt moves
\* the carriage.
LoadInv == setter.active /\ ~touched => setter.read = total

IInv == TypeOK /\ TargetKept /\ LoadInv /\ HomedAtSwitch

LEMMA InitInv == Init => IInv
<1> SUFFICES ASSUME Init PROVE IInv
  OBVIOUS
<1>1. closed \in BOOLEAN
  <2>1. closed = (shaft <= 0)  BY Zenon DEF Init
  <2>2. (shaft <= 0) \in BOOLEAN  OBVIOUS
  <2> QED  BY <2>1, <2>2, Zenon
<1>2. /\ left = 0 /\ total = 0 /\ speed = 2 /\ counter = 0 /\ bounces = 0 /\ goal = 0
      /\ setter = [goal |-> BootGoal, read |-> 0, active |-> TRUE]
      /\ shaft \in Starts /\ home = Unknown
  BY Zenon DEF Init
<1>3. TypeOK
  <2>1. state \in BOOLEAN /\ clear_flag \in BOOLEAN /\ edge \in BOOLEAN
    BY Zenon DEF Init
  <2>2. raced \in BOOLEAN /\ touched \in BOOLEAN /\ rested \in BOOLEAN
    BY Zenon DEF Init
  <2>3. setter \in [goal : Int, read : Int, active : BOOLEAN]
    BY <1>2
  <2>4. bounces \in 0..MaxBounces /\ shaft \in MinShaft..MaxShaft /\ home \in MinShaft..Unknown
    BY <1>2 DEF Unknown
  <2> QED  BY <1>1, <1>2, <2>1, <2>2, <2>3, <2>4 DEF TypeOK
<1>4. TargetKept
  <2>1. left + total = HalfSteps(goal)
    BY <1>2 DEF HalfSteps
  <2> QED  BY <2>1, Zenon DEF TargetKept
<1>5. LoadInv
  <2>1. setter.read = total
    BY <1>2
  <2> QED  BY <2>1, Zenon DEF LoadInv
<1>6. HomedAtSwitch
  BY <1>2, Zenon DEF HomedAtSwitch
<1> QED  BY <1>3, <1>4, <1>5, <1>6 DEF IInv

\* The timer interrupt moves what is left into the total, or resets both.
LEMMA ISRInv ==
  ASSUME IInv, stepper1_ISR, rested' \in BOOLEAN
  PROVE  IInv'
<1> USE DEF IInv
<1> DEFINE step == HalfStep
<1>1. step \in {-1, 0, 1}
  BY DEF HalfStep
<1>2. shaft' \in MinShaft..MaxShaft
  BY <1>1 DEF stepper1_ISR, ShaftAfter, TypeOK
<1>3. UNCHANGED <<speed, setter>> /\ clear_flag' = FALSE
  BY DEF stepper1_ISR, taskVars
<1>4. counter' \in Nat /\ state' \in BOOLEAN
  <2>1. counter \in Nat /\ speed \in Int /\ state \in BOOLEAN
    BY DEF TypeOK
  <2>2. counter' = IF counter + 1 >= speed THEN 0 ELSE counter + 1
    BY DEF stepper1_ISR
  <2>3. state' = IF step = 0 THEN state ELSE ~state
    BY DEF stepper1_ISR
  <2>4. counter' \in Nat
    BY <2>1, <2>2
  <2>5. state' \in BOOLEAN
    BY <2>1, <2>3
  <2> QED  BY <2>4, <2>5
<1>5. closed' \in BOOLEAN /\ edge' \in BOOLEAN /\ bounces' \in 0..MaxBounces
  <2>1. /\ closed' = IF shaft' > 0 THEN FALSE ELSE closed \/ shaft > 0
        /\ edge' = (shaft > 0 /\ shaft' <= 0)
        /\ bounces' = IF shaft' > 0 THEN 0 ELSE bounces
    BY DEF stepper1_ISR, Switch
  <2>2. closed \in BOOLEAN /\ bounces \in 0..MaxBounces
    BY DEF TypeOK
  <2>3. (closed \/ shaft > 0) \in BOOLEAN /\ (shaft > 0 /\ shaft' <= 0) \in BOOLEAN
    OBVIOUS
  <2>4. closed' \in BOOLEAN
    BY <2>1, <2>3
  <2>5. edge' \in BOOLEAN
    BY <2>1, <2>3
  <2>6. bounces' \in 0..MaxBounces
    BY <2>1, <2>2
  <2> QED  BY <2>4, <2>5, <2>6
<1>6. Home \/ Move(step)
  BY DEF stepper1_ISR
<1>9. home' # home => home' <= 0
  <2>1. closed' => ~(shaft' > 0)
    BY DEF stepper1_ISR, Switch
  <2>2. home' # home => closed' /\ home' = shaft'
    BY DEF stepper1_ISR, Home, Move
  <2> QED  BY <1>2, <2>1, <2>2
<1>7. CASE Home
  <2>1. left' \in Int /\ total' \in Int /\ goal' \in Int /\ raced' = FALSE /\ touched' = TRUE
    BY <1>7 DEF Home, HalfSteps
  <2>2. home' \in MinShaft..Unknown
    BY <1>2, <1>7 DEF Home, Unknown
  <2>3. TypeOK'
    BY <1>2, <1>3, <1>4, <1>5, <2>1, <2>2 DEF TypeOK
  <2>4. TargetKept' /\ LoadInv'
    BY <1>7 DEF Home, TargetKept, LoadInv, HalfSteps
  <2>5. HomedAtSwitch'
    BY <1>2, <1>9 DEF HomedAtSwitch, TypeOK
  <2> QED  BY <2>3, <2>4, <2>5
<1>8. CASE Move(step)
  <2>1. /\ left' = left - step /\ total' = total + step
        /\ UNCHANGED <<goal, raced, home>>
    BY <1>8 DEF Move
  <2>2. left \in Int /\ total \in Int
    BY DEF TypeOK
  <2>3. left' + total' = left + total
    BY <1>1, <2>1, <2>2
  <2>4. touched' = (touched \/ step # 0)
    BY <1>8 DEF Move
  <2>5. TypeOK'
    <3>1. left' \in Int /\ total' \in Int
      BY <1>1, <2>1, <2>2
    <3>2. touched' \in BOOLEAN
      BY <2>4
    <3> QED  BY <1>2, <1>3, <1>4, <1>5, <2>1, <3>1, <3>2 DEF TypeOK
  <2>6. TargetKept'
    BY <2>1, <2>3 DEF TargetKept
  <2>7. LoadInv'
    <3> SUFFICES ASSUME setter.active, ~touched' PROVE setter.read = total'
      BY <1>3 DEF LoadInv
    <3>1. ~touched /\ step = 0
      BY <2>4
    <3> QED  BY <2>1, <2>2, <3>1 DEF LoadInv
  <2>8. HomedAtSwitch'
    BY <2>1 DEF HomedAtSwitch
  <2> QED  BY <2>5, <2>6, <2>7, <2>8
<1> QED  BY <1>6, <1>7, <1>8

\* The other steps.
LEMMA OtherInv ==
  ASSUME IInv, rested' \in BOOLEAN,
         \/ HAL_GPIO_EXTI_Callback \/ Open \/ Close \/ Store
         \/ \E s \in Speeds : set_speed_1(s)
         \/ \E g \in Goals : Load(g)
  PROVE  IInv'
<1> USE DEF IInv, TypeOK, TargetKept, LoadInv, HomedAtSwitch, taskVars, switchVars
<1>1. CASE HAL_GPIO_EXTI_Callback
  BY <1>1 DEF HAL_GPIO_EXTI_Callback
<1>2. CASE Open
  <2>1. bounces \in 0..MaxBounces /\ bounces < MaxBounces /\ bounces' = bounces + 1
    BY <1>2 DEF Open
  <2>2. bounces' \in 0..MaxBounces
    BY <2>1
  <2>3. /\ closed' = FALSE
        /\ UNCHANGED <<left, total, counter, state, clear_flag, shaft, edge, speed, setter>>
        /\ UNCHANGED <<goal, raced, touched, home>>
    BY <1>2, Zenon DEF Open
  <2> QED  BY <2>2, <2>3
<1>3. CASE Close
  BY <1>3 DEF Close
<1>4. CASE Store
  <2>1. TypeOK' /\ LoadInv'
    BY <1>4 DEF Store, NoCall, HalfSteps
  <2>2. TargetKept'
    BY <1>4 DEF Store, HalfSteps
  <2>3. HomedAtSwitch'
    BY <1>4 DEF Store
  <2> QED  BY <2>1, <2>2, <2>3
<1>5. ASSUME NEW s \in Speeds, set_speed_1(s)  PROVE IInv'
  BY <1>5 DEF set_speed_1
<1>6. ASSUME NEW g \in Goals, Load(g)  PROVE IInv'
  BY <1>6 DEF Load
<1> QED  BY <1>1, <1>2, <1>3, <1>4, <1>5, <1>6

\* The inductive invariant holds of every behaviour.
THEOREM InductiveInvariant == Spec => []IInv
<1>1. IInv /\ [Next]_vars => IInv'
  <2> SUFFICES ASSUME IInv, [Next]_vars PROVE IInv'
    OBVIOUS
  <2>1. CASE UNCHANGED vars
    BY <2>1 DEF vars, IInv, TypeOK, TargetKept, LoadInv, HomedAtSwitch
  <2>2. CASE Next
    <3>1. rested \in BOOLEAN
      BY DEF IInv, TypeOK
    <3>2. (rested /\ ~setter.active) \in BOOLEAN /\ (rested /\ Resting) \in BOOLEAN
      OBVIOUS
    <3>3. rested' \in BOOLEAN
      BY <2>2, <3>1, <3>2, Zenon DEF Next, Interrupt, Bounce, Settle, Call, Return
    <3>4. \/ stepper1_ISR \/ HAL_GPIO_EXTI_Callback \/ Open \/ Close \/ Store
          \/ \E q \in Speeds : set_speed_1(q)
          \/ \E g \in Goals : Load(g)
      BY <2>2, Zenon DEF Next, Interrupt, Interrupts, Bounce, Settle, Call, Return
    <3> QED  BY <3>3, <3>4, ISRInv, OtherInv
  <2> QED  BY <2>1, <2>2
<1> QED  BY <1>1, InitInv, PTL DEF Spec

\* The counters and the carriage keep their types and the rail.
THEOREM TypeCorrect == Spec => []TypeOK
<1>1. IInv => TypeOK
  BY DEF IInv
<1> QED  BY <1>1, InductiveInvariant, PTL

\* Unless the call was raced, what is left plus what was done is its target.
THEOREM TargetIsKept == Spec => []TargetKept
<1>1. IInv => TargetKept
  BY DEF IInv
<1> QED  BY <1>1, InductiveInvariant, PTL

\* The coordinate is only reset at the switch.
THEOREM HomingAtSwitch == Spec => []HomedAtSwitch
<1>1. IInv => HomedAtSwitch
  BY DEF IInv
<1> QED  BY <1>1, InductiveInvariant, PTL
-------------------------------------------------------------------------------
(* Where the carriage is while the tasks keep to rests.                      *)

\* How far get_steps_1 is off, in half steps.
Off == 2 * (shaft - home) + total

\* The direction of what is left.
Sign(n) == IF n > 0 THEN 1 ELSE -1

\* While the tasks keep to rests, a call finds the axis at rest and leaves it there.
RestInv ==
  rested /\ setter.active =>
    left = 0 /\ ~clear_flag /\ ~edge /\ closed = (shaft <= 0) /\ ~touched

\* Once homed, the target is a place of the rail, and the count is off by the half
\* step that the driver has yet to take or has already taken.
CoordInv ==
  rested /\ home # Unknown =>
    /\ goal \in 0..MaxShaft /\ ~raced
    /\ setter.active => setter.goal \in 0..MaxShaft
    /\ Off \in {-1, 0, 1}
    /\ Off # 0 => left # 0 /\ Off = IF state THEN Sign(left) ELSE 0 - Sign(left)

\* The timer interrupt at rest changes nothing but the counter.
LEMMA ISRRest ==
  ASSUME IInv, RestInv, stepper1_ISR, rested' = rested
  PROVE  RestInv'
<1> SUFFICES ASSUME rested, setter.active
             PROVE  left' = 0 /\ ~clear_flag' /\ ~edge' /\ closed' = (shaft' <= 0) /\ ~touched'
  <2>1. setter' = setter
    BY DEF stepper1_ISR, taskVars
  <2> QED  BY <2>1 DEF RestInv
<1>1. left = 0 /\ ~clear_flag /\ ~edge /\ closed = (shaft <= 0) /\ ~touched
  BY DEF RestInv
<1>2. HalfStep = 0
  BY <1>1 DEF HalfStep
<1>3. shaft' = shaft /\ Move(0) /\ clear_flag' = FALSE
  BY <1>1, <1>2 DEF stepper1_ISR, ShaftAfter
<1>4. shaft \in Int /\ left \in Int
  BY DEF IInv, TypeOK
<1>5. closed' = IF shaft' > 0 THEN FALSE ELSE closed \/ shaft > 0
  BY DEF stepper1_ISR, Switch
<1>6. edge' = (shaft > 0 /\ shaft' <= 0)
  BY DEF stepper1_ISR, Switch
<1>7. left' = 0
  BY <1>1, <1>3, <1>4 DEF Move
<1>8. touched' = FALSE
  BY <1>1, <1>3 DEF Move
<1>9. ~edge'
  <2>1. ~(shaft > 0 /\ shaft' <= 0)
    BY <1>3, <1>4
  <2> QED  BY <1>6, <2>1, Zenon
<1>10. closed' = (shaft' <= 0)
  <2>2. closed' = IF shaft > 0 THEN FALSE ELSE (shaft <= 0) \/ shaft > 0
    BY <1>1, <1>3, <1>5, Zenon
  <2>3. CASE shaft > 0
    <3>1. closed' = FALSE
      BY <2>2, <2>3, Zenon
    <3>2. (shaft <= 0) = FALSE
      BY <1>4, <2>3
    <3> QED  BY <1>3, <3>1, <3>2, Zenon
  <2>4. CASE ~(shaft > 0)
    <3>1. closed' = ((shaft <= 0) \/ shaft > 0) /\ shaft <= 0
      BY <1>4, <2>2, <2>4
    <3>2. closed' = TRUE
      BY <3>1, Zenon
    <3>3. (shaft <= 0) = TRUE
      BY <3>1
    <3> QED  BY <1>3, <3>2, <3>3, Zenon
  <2> QED  BY <2>3, <2>4
<1> QED  BY <1>3, <1>7, <1>8, <1>9, <1>10

\* An even count of half steps is not ended by one of them.
LEMMA HalfWay ==
  ASSUME NEW n \in Int, NEW x \in Int, n = 2 * x, n # 0
  PROVE  n - Sign(n) # 0 /\ Sign(n - Sign(n)) = Sign(n)
<1>1. CASE n > 0
  <2>1. Sign(n) = 1 /\ n - 1 > 0
    BY <1>1 DEF Sign
  <2> QED  BY <2>1 DEF Sign
<1>2. CASE n < 0
  <2>1. Sign(n) = 0 - 1 /\ n + 1 < 0
    BY <1>2 DEF Sign
  <2> QED  BY <2>1 DEF Sign
<1> QED  BY <1>1, <1>2

\* A half step keeps the count right: of two, one moves the shaft.
LEMMA ISRCoord ==
  ASSUME IInv, RestInv, CoordInv, stepper1_ISR, rested' = rested, HomeGoal \in 0..MaxShaft
  PROVE  CoordInv'
<1> DEFINE step == HalfStep
<1> USE DEF IInv
<1> SUFFICES ASSUME rested, home' # Unknown
             PROVE  CoordInv'
  BY DEF CoordInv, Unknown
<1>1. setter' = setter /\ shaft' = ShaftAfter(step) /\ shaft' \in MinShaft..MaxShaft
  <2>1. TypeOK'
    BY ISRInv DEF TypeOK
  <2> QED  BY <2>1 DEF stepper1_ISR, taskVars, TypeOK
<1>2. CASE Home /\ clear_flag
  <2>1. ~setter.active
    BY <1>2 DEF RestInv
  <2>2. home' = shaft' /\ total' = 0 /\ goal' = HomeGoal /\ ~raced'
    BY <1>2 DEF Home
  <2>3. Off' = 0
    BY <1>1, <2>2 DEF Off
  <2> QED  BY <1>1, <2>1, <2>2, <2>3 DEF CoordInv
<1>3. CASE Move(step)
  <2>1. /\ left' = left - step /\ total' = total + step
        /\ UNCHANGED <<goal, raced, home>>
    BY <1>3 DEF Move
  <2>2. /\ left \in Int /\ total \in Int /\ shaft \in MinShaft..MaxShaft
        /\ home \in MinShaft..0
    BY <2>1 DEF TypeOK, HomedAtSwitch, Unknown
  <2>3. /\ goal \in 0..MaxShaft /\ ~raced /\ left + total = 0 - 2 * goal
        /\ setter.active => setter.goal \in 0..MaxShaft
        /\ Off \in {-1, 0, 1}
        /\ Off # 0 => left # 0 /\ Off = IF state THEN Sign(left) ELSE 0 - Sign(left)
    BY <2>1 DEF CoordInv, TargetKept, HalfSteps
  <2>4. CASE step = 0
    <3>1. shaft' = shaft /\ UNCHANGED <<left, total, state>>
      BY <1>1, <2>1, <2>2, <2>4 DEF ShaftAfter, stepper1_ISR
    <3>2. Off' = Off /\ Sign(left') = Sign(left)
      BY <2>1, <3>1 DEF Off, Sign
    <3> QED  BY <1>1, <2>1, <2>3, <3>1, <3>2 DEF CoordInv
  <2>5. CASE step # 0
    <3>1. left # 0 /\ step = Sign(left)
      BY <2>2, <2>5 DEF HalfStep, Sign
    <3>2. step \in {-1, 1} /\ (step = 1 => left >= 1) /\ (step = 0 - 1 => left <= 0 - 1)
      BY <2>2, <3>1 DEF Sign
    <3>3. Off = 2 * (shaft - home) + total /\ Off' = 2 * (shaft' - home) + total'
      BY <2>1 DEF Off
    <3>4. 2 * (shaft - home - goal) = left + Off
      BY <2>2, <2>3, <3>3
    <3>5. CASE state
      <4>1. state' = FALSE
        BY <2>5, <3>5 DEF stepper1_ISR
      <4>2. Off \in {0, step}
        BY <2>3, <3>1, <3>5
      <4>3. shaft - step \in MinShaft..MaxShaft
        BY <2>2, <2>3, <3>2, <3>4, <4>2
      <4>4. shaft' = shaft - step
        BY <1>1, <2>5, <3>5, <4>3 DEF ShaftAfter
      <4>5. Off' = Off - step
        BY <2>1, <2>2, <3>2, <3>3, <4>4
      <4>6. Off = 0 => left' # 0 /\ Sign(left') = step
        <5> SUFFICES ASSUME Off = 0  PROVE left' # 0 /\ Sign(left') = step
          OBVIOUS
        <5> DEFINE x == shaft - home - goal
        <5>1. x \in Int /\ left = 2 * x
          BY <2>2, <2>3, <3>4
        <5>2. left - Sign(left) # 0 /\ Sign(left - Sign(left)) = Sign(left)
          BY <2>2, <3>1, <5>1, HalfWay
        <5> QED  BY <2>1, <3>1, <5>2
      <4> QED  BY <1>1, <2>1, <2>3, <3>2, <4>1, <4>2, <4>5, <4>6 DEF CoordInv
    <3>6. CASE ~state
      <4>1. state' = TRUE
        BY <2>5, <3>6 DEF stepper1_ISR
      <4>2. Off \in {0, 0 - step}
        BY <2>3, <3>1, <3>6
      <4>3. shaft' = shaft
        BY <1>1, <3>6 DEF ShaftAfter
      <4>4. Off' = Off + step
        BY <2>1, <2>2, <3>2, <3>3, <4>3
      <4>5. Off = 0 => left' # 0 /\ Sign(left') = step
        <5> SUFFICES ASSUME Off = 0  PROVE left' # 0 /\ Sign(left') = step
          OBVIOUS
        <5> DEFINE x == shaft - home - goal
        <5>1. x \in Int /\ left = 2 * x
          BY <2>2, <2>3, <3>4
        <5>2. left - Sign(left) # 0 /\ Sign(left - Sign(left)) = Sign(left)
          BY <2>2, <3>1, <5>1, HalfWay
        <5> QED  BY <2>1, <3>1, <5>2
      <4> QED  BY <1>1, <2>1, <2>3, <3>2, <4>1, <4>2, <4>4, <4>5 DEF CoordInv
    <3> QED  BY <3>5, <3>6
  <2> QED  BY <2>4, <2>5
<1> QED  BY <1>2, <1>3 DEF stepper1_ISR

\* The other steps leave the axis where it is.
LEMMA OtherCoord ==
  ASSUME IInv, RestInv, CoordInv, Goals \subseteq 0..MaxShaft,
         \/ HAL_GPIO_EXTI_Callback /\ UNCHANGED rested
         \/ Bounce \/ Settle \/ Call \/ Return
  PROVE  RestInv' /\ CoordInv'
<1> USE DEF taskVars, switchVars
<1>1. CASE HAL_GPIO_EXTI_Callback /\ UNCHANGED rested
  BY <1>1 DEF HAL_GPIO_EXTI_Callback, RestInv, CoordInv, Off
<1>2. CASE Bounce
  BY <1>2 DEF Bounce, Open, RestInv, CoordInv, Off
<1>3. CASE Settle
  BY <1>3 DEF Settle, Close, RestInv, CoordInv, Off
<1>4. CASE Call
  <2>1. ASSUME NEW q \in Speeds, set_speed_1(q)  PROVE RestInv' /\ CoordInv'
    BY <1>4, <2>1 DEF Call, set_speed_1, RestInv, CoordInv, Off
  <2>2. ASSUME NEW g \in Goals, Load(g)  PROVE RestInv' /\ CoordInv'
    <3>1. RestInv'
      BY <1>4, <2>2 DEF Call, Load, RestInv, Resting
    <3>2. CoordInv'
      BY <1>4, <2>2 DEF Call, Load, CoordInv, Off
    <3> QED  BY <3>1, <3>2
  <2> QED  BY <1>4, <2>1, <2>2 DEF Call
<1>5. CASE Return
  <2>1. UNCHANGED <<shaft, home, total, rested, state>> /\ setter.active
    BY <1>5 DEF Return, Store
  <2>2. setter'.active = FALSE /\ goal' = setter.goal /\ raced' = touched
    BY <1>5 DEF Return, Store, NoCall
  <2>3. RestInv'
    BY <2>2 DEF RestInv
  <2>4. CoordInv'
    <3> SUFFICES ASSUME rested, home # Unknown PROVE CoordInv'
      BY <2>1 DEF CoordInv, Unknown
    <3>1. left = 0 /\ ~touched
      BY <2>1 DEF RestInv
    <3>2. Off = 0 /\ Off' = Off
      BY <2>1, <3>1 DEF CoordInv, Off
    <3>3. setter.goal \in 0..MaxShaft
      BY <2>1 DEF CoordInv
    <3> QED  BY <2>1, <2>2, <3>1, <3>2, <3>3 DEF CoordInv
  <2> QED  BY <2>3, <2>4
<1> QED  BY <1>1, <1>2, <1>3, <1>4, <1>5

\* While targets on the rail are set at rest, get_steps_1 says where the carriage is.
THEOREM CoordinatesHold ==
  ASSUME Goals \subseteq 0..MaxShaft, HomeGoal \in 0..MaxShaft
  PROVE  Spec => []Coordinates
<1>1. Init => RestInv /\ CoordInv
  BY DEF Init, RestInv, CoordInv
<1>2. IInv /\ RestInv /\ CoordInv /\ [Next]_vars => RestInv' /\ CoordInv'
  <2> SUFFICES ASSUME IInv, RestInv, CoordInv, [Next]_vars PROVE RestInv' /\ CoordInv'
    OBVIOUS
  <2>1. CASE UNCHANGED vars
    BY <2>1 DEF vars, RestInv, CoordInv, Off
  <2>2. CASE stepper1_ISR /\ UNCHANGED rested
    BY <2>2, ISRRest, ISRCoord
  <2> QED  BY <2>1, <2>2, OtherCoord DEF Next, Interrupt, Interrupts
<1>3. IInv /\ CoordInv => Coordinates
  <2> SUFFICES ASSUME IInv, CoordInv, rested, home # Unknown
               PROVE  Off \in {-1, 0, 1} /\ (left = 0 => 2 * (shaft - home) = -total)
    BY DEF Coordinates, Off
  <2>1. left \in Int /\ total \in Int /\ shaft \in Int /\ home \in Int
    BY DEF IInv, TypeOK, Unknown
  <2>2. Off \in {-1, 0, 1} /\ (left = 0 => Off = 0)
    BY DEF CoordInv
  <2>3. Off = 0 => 2 * (shaft - home) = -total
    BY <2>1 DEF Off
  <2> QED  BY <2>2, <2>3
<1> QED  BY <1>1, <1>2, <1>3, InductiveInvariant, PTL DEF Spec
===============================================================================
