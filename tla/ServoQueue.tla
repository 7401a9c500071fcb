------------------------------ MODULE ServoQueue ------------------------------
(***************************************************************************)
(* The action queue of src/Control/Servo.cpp: a linked list that the ROS   *)
(* task appends to and the servo task, every 50 ms, advances.  Each entry  *)
(* carries the time its motor is expected to need; nothing measures        *)
(* whether the motor has arrived.  Every operation holds Servo_Lock from   *)
(* its first access to its last and is one step here.                      *)
(*                                                                         *)
(* Joints are bus servos of two protocols and steppers.  The moving arm is *)
(* part of the model: a joint moves towards its goal, in every millisecond *)
(* by the rate its last command set.                                       *)
(***************************************************************************)
EXTENDS Integers, Sequences

CONSTANTS
  Nodes, NULL,         \* addresses that new may return
  STS, SCS, Steppers,  \* joints: is_STS, the other servos, ids 0xFFF0 and 0xFFF1
  Values,              \* goals, in the joint's own unit
  Speeds,              \* values of servo_speed
  Periods,             \* speeds given to stepper actions, as the argument time
  StepsPerMs,          \* the way of a stepper in a millisecond at speed 1: 10 steps
  Default,             \* the positions that the boot assumes
  TickMod,             \* 2^32: HAL_GetTick wraps around
  Poll                 \* the servo task wakes at most this many ticks apart

Servos == STS \cup SCS
Joints == Servos \cup Steppers

ASSUME NodesAssumption == NULL \notin Nodes

\* The ids 1 to 9, of which is_STS picks some, and 0xFFF0 and 0xFFF1.
ASSUME JointsAssumption == STS \cap SCS = {} /\ Servos \cap Steppers = {}

ASSUME ValuesAssumption == Values \subseteq Int /\ Default \in [Servos -> Int]

\* change_servo_speed takes any double for any id (Servo.cpp:619): the servo speeds 0
\* and below, for which the code divides by nought or makes a negative time, and ids
\* that are no servo's are left out.  The unit of a stepper's way is a part of a step,
\* so small that at every speed the way in a millisecond is whole.
ASSUME SpeedsAssumption ==
  /\ Speeds \subseteq Nat \ {0} /\ Periods \subseteq Nat \cup {-1}
  /\ StepsPerMs \in Nat \ {0} /\ StepsPerMs % 2 = 0
  /\ \A s \in Periods : s > 0 => StepsPerMs % s = 0

ASSUME TickAssumption == TickMod \in Nat \ {0} /\ Poll \in Nat \ {0}

VARIABLES
  heap,           \* the nodes; a node that is not allocated is Free
  Current, Last,  \* the ends of the list
  time_start,     \* when the current action was commanded
  lastvalue,      \* servo_lastvalue, stepper_lastvalue1 and stepper_lastvalue2
  servo_speed,
  boot,           \* servos whose position StartServoTask has still to assume
  tick,           \* HAL_GetTick
  since,          \* ticks since the servo task last woke
  pos, goal, rate,  \* the joints
  \* history:
  order,          \* the actions requested and not finished, with their nodes
  issued,         \* the last action commanded
  from,           \* where the code believed that a waiting action will start
  lag             \* how far from there the joint was when its last action started

listVars == <<heap, Current, Last, order>>
armVars == <<goal, rate, issued, lag>>
vars == <<heap, Current, Last, time_start, lastvalue, servo_speed, boot, tick,
          since, pos, goal, rate, order, issued, from, lag>>

Free == [acts |-> <<>>, time |-> 0, speed |-> 0, Next |-> NULL, free |-> TRUE]

NoAction == [id |-> NULL, value |-> 0]

Distance(u, v) == IF u < v THEN v - u ELSE u - v

Init ==
  /\ heap = [n \in Nodes |-> Free] /\ Current = NULL /\ Last = NULL
  /\ time_start = 0 /\ lastvalue = [j \in Joints |-> 0]
  /\ servo_speed \in [Servos -> Speeds]
  /\ boot = Servos /\ tick = 0 /\ since = 0
  /\ pos \in [Joints -> Values] /\ goal = pos /\ rate = [j \in Joints |-> 0]
  /\ order = <<>> /\ issued = NoAction
  /\ from = [n \in Nodes |-> 0] /\ lag = [j \in Joints |-> 0]

-------------------------------------------------------------------------------
\* WritePos, or set_speed and set_stepper, for an action of a node: an STS servo
\* gets a speed, 1.25 times the planned one; an SCS servo the time it may take.
RateOf(node, a) ==
  CASE a.id \in STS -> (servo_speed[a.id] * 5) \div 4
    [] a.id \in SCS -> Distance(pos[a.id], a.value) \div node.time + 1
    [] OTHER -> IF node.speed <= 1 THEN StepsPerMs ELSE StepsPerMs \div node.speed

Command(node, start) ==
  LET a == node.acts[1]
  IN  /\ goal' = [goal EXCEPT ![a.id] = a.value]
      /\ rate' = [rate EXCEPT ![a.id] = RateOf(node, a)]
      /\ issued' = a /\ lag' = [lag EXCEPT ![a.id] = Distance(pos[a.id], start)]
      /\ time_start' = tick

\* Where the code believes that a joint will start from.
Believed(id) == IF id \in Steppers /\ Current = NULL THEN pos[id] ELSE lastvalue[id]

StepperSpeed(time) == IF time = -1 THEN 2 ELSE time

\* Mutant: the time is computed from the goal alone.
TimeOf_IgnoresStart(id, value, time) ==
  IF id \in Steppers
    THEN (value * StepperSpeed(time)) \div StepsPerMs
    ELSE value \div servo_speed[id] + 1

\* The milliseconds that an action is given.  A stepper's argument time is a speed.
TimeOf(id, value, time) ==
  LET distance == Distance(value, Believed(id))
  IN  IF id \in Steppers THEN (distance * StepperSpeed(time)) \div StepsPerMs
                         ELSE distance \div servo_speed[id] + 1

NewNode(id, value, time) ==
  [acts |-> <<[id |-> id, value |-> value]>>, time |-> TimeOf(id, value, time),
   speed |-> IF id \in Steppers THEN StepperSpeed(time) ELSE -1,
   Next |-> NULL, free |-> FALSE]

\* Mutant: the new node is linked from the head of the list.
Link_AfterCurrent(n, node) ==
  [m \in Nodes |-> IF m = n THEN node
                   ELSE IF m = Current THEN [heap[m] EXCEPT !.Next = n] ELSE heap[m]]

\* The new node, linked from the last one.
Link(n, node) ==
  [m \in Nodes |-> IF m = n THEN node
                   ELSE IF m = Last THEN [heap[m] EXCEPT !.Next = n] ELSE heap[m]]

Servo_Add_Action(id, value, time) ==
  \E n \in Nodes :
    LET node == NewNode(id, value, time)
    IN  /\ heap[n] = Free
        /\ lastvalue' = [lastvalue EXCEPT ![id] = value]
        /\ Last' = n
        /\ order' = Append(order, [node |-> n, act |-> node.acts[1]])
        /\ IF Current = NULL
             THEN /\ Current' = n
                  /\ Command(node, Believed(id))
                  /\ heap' = [heap EXCEPT ![n] = [node EXCEPT !.acts = <<>>]]
                  /\ UNCHANGED from
             ELSE /\ heap' = Link(n, node)
                  /\ from' = [from EXCEPT ![n] = Believed(id)]
                  /\ UNCHANGED <<Current, time_start, armVars>>
        /\ UNCHANGED <<servo_speed, boot, tick, since, pos>>

\* Mutant: the end of the wait is compared with the time, without wrapping.
Elapsed_NoWrap == tick >= time_start + heap[Current].time

\* The subtraction of the two uint32_t wraps.
Elapsed == (tick - time_start) % TickMod >= heap[Current].time

\* Mutant: Last keeps pointing to the node that is deleted.
Unlink_KeepsLast == UNCHANGED Last

\* The queue is empty again.
Unlink == Last' = IF heap[Current].Next = NULL THEN NULL ELSE Last

\* Deletes the current node and commands the next.
Advance ==
  LET next == heap[Current].Next
  IN  /\ Current' = next
      /\ Unlink
      /\ order' = Tail(order)
      /\ IF next = NULL
           THEN /\ heap' = [heap EXCEPT ![Current] = Free]
                /\ UNCHANGED <<time_start, armVars, from>>
           ELSE /\ Command(heap[next], from[next])
                /\ heap' = [heap EXCEPT ![Current] = Free, ![next].acts = <<>>]
                /\ from' = [from EXCEPT ![next] = 0]

Servo_Server ==
  /\ boot = {} /\ since > 0
  /\ since' = 0
  /\ IF Current # NULL /\ Elapsed
       THEN Advance
       ELSE UNCHANGED <<listVars, time_start, armVars, from>>
  /\ UNCHANGED <<lastvalue, servo_speed, boot, tick, pos>>

\* StartServoTask assumes the positions, a second after the ROS task was created.
update_Servo_state(id) ==
  /\ id \in boot
  /\ lastvalue' = [lastvalue EXCEPT ![id] = Default[id]]
  /\ boot' = boot \ {id}
  /\ UNCHANGED <<listVars, time_start, servo_speed, tick, since, pos, armVars, from>>

change_servo_speed(id, speed) ==
  /\ servo_speed' = [servo_speed EXCEPT ![id] = speed]
  /\ UNCHANGED <<listVars, time_start, lastvalue, boot, tick, since, pos, armVars, from>>

Is_Servo_Idle == Current = NULL

\* A millisecond passes and the joints move.
Moved(j) ==
  CASE pos[j] + rate[j] < goal[j] -> pos[j] + rate[j]
    [] pos[j] - rate[j] > goal[j] -> pos[j] - rate[j]
    [] OTHER -> goal[j]

Tick ==
  /\ since < Poll
  /\ tick' = (tick + 1) % TickMod
  /\ since' = IF boot = {} THEN since + 1 ELSE 0
  /\ pos' = [j \in Joints |-> Moved(j)]
  /\ UNCHANGED <<listVars, time_start, lastvalue, servo_speed, boot, armVars, from>>
-------------------------------------------------------------------------------
Adds ==
  \/ \E id \in Servos, value \in Values : Servo_Add_Action(id, value, -1)
  \/ \E id \in Steppers, value \in Values, time \in Periods :
       Servo_Add_Action(id, value, time)

ChangeSpeed == \E id \in Servos, speed \in Speeds : change_servo_speed(id, speed)

Boot == \E id \in Servos : update_Servo_state(id)

Next == Adds \/ Servo_Server \/ Boot \/ ChangeSpeed \/ Tick

\* The clock ticks and the servo task, once created, gets to its loop and wakes.
Fairness == WF_vars(Tick) /\ WF_vars(Servo_Server) /\ WF_vars(Boot)

Spec == Init /\ [][Next]_vars /\ Fairness

\* An arm that stands where the code assumes, whose actions come after the boot.
KnownInit ==
  /\ Init
  /\ \A j \in Servos : pos[j] = Default[j]
  /\ \A j \in Steppers : pos[j] = lastvalue[j]

KnownSpec == KnownInit /\ [][Next /\ (Adds => boot = {})]_vars

\* The speed of a servo is only changed when the queue is empty, and no stepper is
\* given the speed 0.
SteadyNext ==
  \/ \E id \in Servos, value \in Values : Servo_Add_Action(id, value, -1)
  \/ \E id \in Steppers, value \in Values, time \in Periods \ {0} :
       Servo_Add_Action(id, value, time)
  \/ Servo_Server \/ Boot \/ Tick
  \/ Is_Servo_Idle /\ ChangeSpeed

SteadySpec == Init /\ [][SteadyNext]_vars

\* Both of these.
CalmSpec == KnownInit /\ [][SteadyNext /\ (Adds => boot = {})]_vars
-------------------------------------------------------------------------------
(* Properties                                                                *)

Acts == [id : Joints, value : Values]

TypeOK ==
  /\ heap \in [Nodes -> [acts : Seq(Acts), time : Nat,
                         speed : Int, Next : Nodes \cup {NULL}, free : BOOLEAN]]
  /\ Current \in Nodes \cup {NULL} /\ Last \in Nodes \cup {NULL}
  /\ time_start \in 0..TickMod-1 /\ tick \in 0..TickMod-1 /\ since \in 0..Poll
  /\ lastvalue \in [Joints -> Int] /\ servo_speed \in [Servos -> Speeds]
  /\ boot \subseteq Servos
  /\ pos \in [Joints -> Int] /\ goal \in [Joints -> Int] /\ rate \in [Joints -> Nat]
  /\ order \in Seq([node : Nodes, act : Acts])
  /\ issued \in Acts \/ issued = NoAction
  /\ from \in [Nodes -> Int] /\ lag \in [Joints -> Nat]

Linked(i) ==
  LET node == heap[order[i].node]
  IN  /\ ~node.free
      /\ node.Next = IF i = Len(order) THEN NULL ELSE order[i + 1].node
      /\ node.acts = IF i = 1 THEN <<>> ELSE <<order[i].act>>

\* The pointers are a list of the requested actions in their order: it is empty at
\* both ends or at none, Last is its last node, every other node leads to the one
\* requested after it, no node is leaked or used after it was freed, and only the
\* head has had its action taken out and commanded.
ListIsOrder ==
  /\ order = <<>> => Current = NULL /\ Last = NULL
  /\ order # <<>> => Current = order[1].node /\ Last = order[Len(order)].node
  /\ \A i \in 1..Len(order) : Linked(i)
  /\ \A n \in Nodes : heap[n] = Free \/ \E i \in 1..Len(order) : order[i].node = n
  /\ \A i, k \in 1..Len(order) : order[i].node = order[k].node => i = k

\* Actions are commanded once each, in the order in which they were requested.
Abstract == INSTANCE ActionFifo
  WITH Actions <- Acts, queue <- [i \in 1..Len(order) |-> order[i].act]

ImplementsFifo == Abstract!Fifo

\* An action does not stay in progress for ever, across the wrap of the tick too.
ActionsEnd == \A n \in Nodes : Current = n ~> Current # n

\* One joint moves at a time: when another action starts, and when the arm reports
\* that it is idle, a joint has come as near to its goal as it had been to where the
\* code believed it when it set off; a stepper, whose time is rounded down to whole
\* milliseconds (Servo.cpp:156), may be short of that by less than the way of one.
OneAtATime ==
  \A j \in Joints : Is_Servo_Idle \/ issued.id # j =>
    \/ pos[j] = goal[j]
    \/ Distance(pos[j], goal[j]) < lag[j] + (IF j \in Steppers THEN rate[j] ELSE 1)

\* The factor on the speed of an STS servo makes the wait long enough: it has
\* arrived when the next action starts.
WaitIsEnough == \A j \in STS : Is_Servo_Idle \/ issued.id # j => pos[j] = goal[j]
===============================================================================
