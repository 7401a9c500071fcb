-------------------------------- MODULE Tasks --------------------------------
(***************************************************************************)
(* The tasks of the firmware and the locks they share, as freertos.c and   *)
(* ros_task.cpp start them and FreeRTOS schedules them: preemption by      *)
(* priority, time slices among equals, mutexes with priority inheritance.  *)
(* The control task is above all others; the servo, ROS and default tasks  *)
(* are equals; the task that blinks the LED, which a message starts, is    *)
(* below them.                                                             *)
(*                                                                         *)
(* A task is the list of the kernel calls it still has to make in its      *)
(* round; what it does between two calls is its own affair.                *)
(***************************************************************************)
EXTENDS Integers, Sequences

CONSTANTS
  Control, Servo, Ros, Default, LED,   \* the tasks
  Control_Lock, Servo_Lock, Servo_Lock_Upper,
  None                            \* nobody; the end marker of a list

ASSUME NamesAssumption ==
  /\ Control \notin {Servo, Ros, Default, LED, None}
  /\ Servo \notin {Ros, Default, LED, None}
  /\ Ros \notin {Default, LED, None} /\ Default \notin {LED, None} /\ LED # None
  /\ Control_Lock \notin {Servo_Lock, Servo_Lock_Upper, None}
  /\ Servo_Lock \notin {Servo_Lock_Upper, None} /\ Servo_Lock_Upper # None

VARIABLES
  todo,        \* the calls each task has to make
  prio,        \* uxPriority
  ready,       \* for each priority the ready tasks, from the one to run next to pxIndex
  current,     \* the running task, None when all of them wait
  waiting,     \* the lock each task is blocked on
  asleep,      \* tasks in a delay
  made,        \* locks that have been created
  owner,       \* the holder of each lock
  depth,       \* how often Servo_Lock_Upper is held
  held,        \* uxMutexesHeld
  fresh        \* the running task has not done anything since it was switched to

vars == <<todo, prio, ready, current, waiting, asleep, made, owner, depth, held, fresh>>

Tasks == {Control, Servo, Ros, Default, LED}
Locks == {Control_Lock, Servo_Lock, Servo_Lock_Upper}

\* osPriorityRealtime, osPriorityNormal and osPriorityLow.
Realtime == 3
Normal == 2
Low == 1

BasePriority(t) ==
  CASE t = Control -> Realtime
    [] t \in {Servo, Ros, Default} -> Normal
    [] t = LED -> Low
-------------------------------------------------------------------------------
(* What the tasks do.                                                        *)

Take(l) == <<"take", l>>
Give(l) == <<"give", l>>
Create(l) == <<"create", l>>
Spawn(t) == <<"spawn", t>>
Delay == <<"delay", None>>     \* for a time
DelayUntil == <<"until", None>>   \* until a moment, which may have passed
Work == <<"work", None>>       \* a time of any length, polling the servo bus

\* StartControlTask.
ControlStart == <<Create(Control_Lock), Spawn(Servo)>>
ControlRound == <<Take(Control_Lock), Give(Control_Lock), Delay>>

\* Mutant: the ROS task starts before the second lock is made.
ServoStart_RosEarly == <<Create(Servo_Lock), Spawn(Ros), Create(Servo_Lock_Upper), Delay,
                         Take(Servo_Lock), Give(Servo_Lock), Work>>

\* StartServoTask: update_Servo_state under the lock, dummy writes without it.
ServoStart == <<Create(Servo_Lock), Create(Servo_Lock_Upper), Spawn(Ros), Delay,
                Take(Servo_Lock), Give(Servo_Lock), Work>>
\* Mutant: the lock is kept over the delay.
ServoRound_Keeps == <<Take(Servo_Lock), Work, DelayUntil, Give(Servo_Lock)>>

\* Mutant: an action asks for the state of the arm.
ServoRound_Crosses == <<Take(Servo_Lock), Take(Servo_Lock_Upper), Work,
                        Give(Servo_Lock_Upper), Give(Servo_Lock), DelayUntil>>

ServoRound == <<Take(Servo_Lock), Work, Give(Servo_Lock), DelayUntil>>

\* ros_ok of ros_task.cpp: the LED task exists, which is ready or in its delay.
ros_ok == LED \in asleep \/ \E p \in DOMAIN ready : \E n \in DOMAIN ready[p] : ready[p][n] = LED

\* StartROSTask: callbacks that set the chassis or ask for a pose, which takes
\* Servo_Lock_Upper, again in a pose it calls, and Servo_Lock for each action.  Between
\* callbacks the transport sleeps.  The first /rosok that says so starts the LED task.
RosRounds ==
  { <<Delay>>,
    <<Take(Control_Lock), Give(Control_Lock), Take(Control_Lock), Give(Control_Lock), Delay>>,
    <<Take(Servo_Lock_Upper), Take(Servo_Lock_Upper), Take(Servo_Lock), Work,
      Give(Servo_Lock), Give(Servo_Lock_Upper), Take(Servo_Lock), Give(Servo_Lock),
      Give(Servo_Lock_Upper), Delay>> }
  \union (IF ros_ok THEN {} ELSE {<<Spawn(LED), Delay>>})

Rounds(t) ==
  CASE t = Control -> {ControlRound}
    [] t = Servo -> {ServoRound}
    [] t = Ros -> RosRounds
    [] t \in {Default, LED} -> {<<Delay>>}

Init ==
  /\ todo = [t \in Tasks |-> CASE t = Control -> ControlStart
                               [] t = Servo -> ServoStart
                               [] OTHER -> <<>>]
  /\ prio = [t \in Tasks |-> BasePriority(t)]
  /\ ready = <<<<None>>, <<Default, None>>, <<Control, None>>>>
  /\ current = Control
  /\ waiting = [t \in Tasks |-> None] /\ asleep = {}
  /\ made = {} /\ owner = [l \in Locks |-> None] /\ depth = 0
  /\ held = [t \in Tasks |-> 0] /\ fresh = TRUE
-------------------------------------------------------------------------------
(* The lists of the kernel: the end marker takes part in the walk.           *)

\* vListInsertEnd: before pxIndex, the last to have its turn.
Insert(list, t) == SubSeq(list, 1, Len(list) - 1) \o <<t, list[Len(list)]>>

\* uxListRemove: pxIndex goes back to the task before it.
Remove(list, t) ==
  LET n == CHOOSE n \in 1..Len(list) : list[n] = t
  IN  SubSeq(list, 1, n - 1) \o SubSeq(list, n + 1, Len(list))

\* listGET_OWNER_OF_NEXT_ENTRY passes over the end marker.
Advance(list) ==
  LET n == IF Head(list) = None THEN 2 ELSE 1
  IN  SubSeq(list, n + 1, Len(list)) \o SubSeq(list, 1, n)

\* vTaskSwitchContext: the next one of the highest priority that has ready tasks.
vTaskSwitchContext(lists) ==
  LET busy == {p \in DOMAIN lists : Len(lists[p]) > 1}
  IN  IF busy = {}
      THEN /\ ready' = lists /\ current' = None
      ELSE LET top == CHOOSE p \in busy : \A q \in busy : q <= p
           IN  /\ ready' = [lists EXCEPT ![top] = Advance(@)]
               /\ current' = ready'[top][Len(ready'[top])]

\* The running task goes on, or there is a switch.
Continue(lists, switch) ==
  IF switch
  THEN vTaskSwitchContext(lists) /\ fresh' = TRUE
  ELSE ready' = lists /\ UNCHANGED current /\ fresh' = FALSE

\* Mutant: it stays there.
Leave_Not == ready

\* The running task leaves the ready list.
Leave == [ready EXCEPT ![prio[current]] = Remove(@, current)]
-------------------------------------------------------------------------------
(* The calls.                                                                *)

\* The running task makes its next call, and is done with it.
Call(op) ==
  /\ current # None /\ todo[current] # <<>> /\ Head(todo[current])[1] = op

Arg == Head(todo[current])[2]

Done == todo' = [todo EXCEPT ![current] = Tail(@)]

\* A round begins.
Loop ==
  /\ current # None /\ todo[current] = <<>>
  /\ \E r \in Rounds(current) : todo' = [todo EXCEPT ![current] = r]
  /\ Continue(ready, FALSE)
  /\ UNCHANGED <<prio, waiting, asleep, made, owner, depth, held>>

xSemaphoreCreateMutex ==
  /\ Call("create") /\ Done
  /\ made' = made \union {Arg}
  /\ Continue(ready, FALSE)
  /\ UNCHANGED <<prio, waiting, asleep, owner, depth, held>>

osThreadNew ==
  /\ Call("spawn") /\ Done
  /\ Continue([ready EXCEPT ![prio[Arg]] = Insert(@, Arg)], prio[Arg] > prio[current])
  /\ UNCHANGED <<prio, waiting, asleep, made, owner, depth, held>>

\* A free mutex, or a recursive one that the task has.
TakeFree ==
  /\ Call("take") /\ owner[Arg] = None /\ Done
  /\ owner' = [owner EXCEPT ![Arg] = current]
  /\ held' = [held EXCEPT ![current] = @ + 1]
  /\ depth' = IF Arg = Servo_Lock_Upper THEN depth + 1 ELSE depth
  /\ Continue(ready, FALSE)
  /\ UNCHANGED <<prio, waiting, asleep, made>>

\* Mutant: a recursive mutex counts as another one.
TakeAgain_Counts ==
  /\ Call("take") /\ owner[Arg] = current /\ Arg = Servo_Lock_Upper /\ Done
  /\ depth' = depth + 1 /\ held' = [held EXCEPT ![current] = @ + 1]
  /\ Continue(ready, FALSE)
  /\ UNCHANGED <<prio, waiting, asleep, made, owner>>

TakeAgain ==
  /\ Call("take") /\ owner[Arg] = current /\ Arg = Servo_Lock_Upper /\ Done
  /\ depth' = depth + 1
  /\ Continue(ready, FALSE)
  /\ UNCHANGED <<prio, waiting, asleep, made, owner, held>>

\* Mutant: no inheritance, as with a binary semaphore.
Inherit_Never(lists, h) == UNCHANGED prio /\ vTaskSwitchContext(lists)

\* xTaskPriorityInherit: the holder h rises to the priority of the running task.
Inherit(lists, h) ==
  IF prio[h] < prio[current]
  THEN /\ prio' = [prio EXCEPT ![h] = prio[current]]
       /\ vTaskSwitchContext(
            IF waiting[h] = None /\ h \notin asleep
            THEN [lists EXCEPT ![prio[h]] = Remove(@, h), ![prio[current]] = Insert(@, h)]
            ELSE lists)
  ELSE /\ UNCHANGED prio
       /\ vTaskSwitchContext(lists)

\* xQueueSemaphoreTake blocks, and tries again when it runs on.
TakeBlocks ==
  /\ Call("take") /\ owner[Arg] \notin {None, current}
  /\ waiting' = [waiting EXCEPT ![current] = Arg]
  /\ Inherit(Leave, owner[Arg])
  /\ fresh' = TRUE
  /\ UNCHANGED <<todo, asleep, made, owner, depth, held>>

GiveOnce ==
  /\ Call("give") /\ Arg = Servo_Lock_Upper /\ depth > 1 /\ Done
  /\ depth' = depth - 1
  /\ Continue(ready, FALSE)
  /\ UNCHANGED <<prio, waiting, asleep, made, owner, held>>

\* xQueueGenericSend: the holder of no other mutex loses what it inherited, and the task
\* that waits becomes ready.
GiveUp ==
  /\ Call("give") /\ (Arg = Servo_Lock_Upper => depth = 1) /\ Done
  /\ owner' = [owner EXCEPT ![Arg] = None]
  /\ depth' = IF Arg = Servo_Lock_Upper THEN 0 ELSE depth
  /\ held' = [held EXCEPT ![current] = @ - 1]
  /\ LET base == BasePriority(current)
         falls == prio[current] # base /\ held[current] = 1
         lists == IF falls THEN [Leave EXCEPT ![base] = Insert(@, current)] ELSE ready
         W == {t \in Tasks : waiting[t] = Arg}
     IN  /\ prio' = IF falls THEN [prio EXCEPT ![current] = base] ELSE prio
         /\ IF W = {}
            THEN Continue(lists, falls) /\ UNCHANGED waiting
            ELSE LET w == CHOOSE t \in W : \A u \in W : prio[u] <= prio[t]
                 IN  /\ waiting' = [waiting EXCEPT ![w] = None]
                     /\ Continue([lists EXCEPT ![prio[w]] = Insert(@, w)],
                                 prio[w] > prio'[current])
  /\ UNCHANGED <<asleep, made>>

\* vTaskDelay.
Sleep ==
  /\ Call("delay") \/ Call("until")
  /\ Done
  /\ asleep' = asleep \union {current}
  /\ vTaskSwitchContext(Leave) /\ fresh' = TRUE
  /\ UNCHANGED <<prio, waiting, made, owner, depth, held>>

\* osDelayUntil a moment that has passed.
Late ==
  /\ Call("until") /\ Done
  /\ Continue(ready, FALSE)
  /\ UNCHANGED <<prio, waiting, asleep, made, owner, depth, held>>

\* The task polls the servo bus, for many ticks if a servo does not answer.
Poll ==
  /\ Call("work")
  /\ Continue(ready, FALSE)
  /\ UNCHANGED <<todo, prio, waiting, asleep, made, owner, depth, held>>

PollEnds ==
  /\ Call("work") /\ Done
  /\ Continue(ready, FALSE)
  /\ UNCHANGED <<prio, waiting, asleep, made, owner, depth, held>>

\* xTaskIncrementTick: a delay may end, and equals take turns.  A task that has the
\* processor gets something done before the next tick.
Tick(w) ==
  /\ current # None => ~fresh
  /\ asleep' = asleep \ {w}
  /\ LET p == IF current = None THEN 0 ELSE prio[current]
         lists == IF w \in asleep THEN [ready EXCEPT ![prio[w]] = Insert(@, w)] ELSE ready
     IN  IF (w \in asleep /\ prio[w] >= p) \/ (p > 0 /\ Len(lists[p]) > 2)
         THEN vTaskSwitchContext(lists) /\ fresh' = TRUE
         ELSE ready' = lists /\ UNCHANGED <<current, fresh>>
  /\ UNCHANGED <<todo, prio, waiting, made, owner, depth, held>>
-------------------------------------------------------------------------------
Run ==
  \/ Loop \/ xSemaphoreCreateMutex \/ osThreadNew
  \/ TakeFree \/ TakeAgain \/ TakeBlocks \/ GiveOnce \/ GiveUp
  \/ Sleep \/ Late \/ Poll \/ PollEnds

Next == Run \/ \E w \in asleep \union {None} : Tick(w)

\* The processor runs, ticks come, delays end, polling ends by its timeouts, and the servo
\* task is not late for ever: a round is late only after exchanges that timed out.
Fairness ==
  /\ WF_vars(Run) /\ WF_vars(Tick(None))
  /\ \A w \in Tasks : []<>(w \notin asleep)
  /\ \A t \in {Servo, Ros} : SF_vars(current = t /\ PollEnds)
  /\ SF_vars(current = Servo /\ Sleep)

Spec == Init /\ [][Next]_vars /\ Fairness
-------------------------------------------------------------------------------
(* Properties                                                                *)

\* A task is ready, blocked on a lock or asleep, in the list of its priority.
TypeOK ==
  /\ current \in Tasks \union {None} /\ asleep \subseteq Tasks
  /\ \A t \in Tasks : prio[t] \in Low..Realtime /\ held[t] \in 0..2
  /\ \A t \in asleep : waiting[t] = None
  /\ \A t \in Tasks, p \in Low..Realtime :
       (\E n \in DOMAIN ready[p] : ready[p][n] = t) => prio[t] = p /\ t \notin asleep
                                                      /\ waiting[t] = None

\* No task calls a lock that does not exist yet, whatever order the tasks start in.
CreatedInTime == Call("take") \/ Call("give") => Arg \in made

\* While the control task waits for Control_Lock, nobody runs but the task that has it.
ControlFirst == waiting[Control] # None => current = owner[Control_Lock]

\* A task has the control task's priority only while that waits for it.
RaisedForControl ==
  \A t \in Tasks : prio[t] # BasePriority(t) => /\ owner[Control_Lock] = t
                                                /\ waiting[Control] = Control_Lock

\* Who waits for a lock gets it, although a mutex that is given back can be taken again
\* by its last holder before the one that waits has run.
LockGranted == \A t \in {Control, Servo, Ros}, l \in Locks : waiting[t] = l ~> owner[l] = t

\* Nothing above the LED task is ready.
Quiet == \A p \in {Normal, Realtime} : Len(ready[p]) = 1

\* Every task comes round again and again: the actions of the arm go on, and so do the
\* messages and the control loop.  The LED task, once it is started, runs again and again
\* if those above it leave it the processor again and again, which nothing in the code
\* makes them do.
AllRun ==
  /\ \A t \in Tasks \ {LED} : []<>(current = t)
  /\ []<>(ros_ok /\ Quiet) => []<>(current = LED)
===============================================================================
