# A model of the H750vector8M firmware

The firmware drives a mecanum-wheeled car that carries a servo arm and two stepper stages. An
STM32H743 runs FreeRTOS; a micro-ROS node on USART1 takes commands from a host. This directory
holds TLA+ models of the firmware's own logic, the TLC configurations that check them on small
instances, and TLAPS proofs of the results that matter most. `src/...` is the repository; every
definition's lines are in `PROJECT.json` under `map`.

## The system

| Part | Source | State it keeps | Operations |
|---|---|---|---|
| Chassis control | `Control/Control.c` | mode flags `Run_Flag`, `relative`, `pending_flag`; `Move_*`, `Last_Target_*`; targets, positions and filters of four motors; all behind `Control_Lock` | `Control()` every 10 ms, wrappers `Set_*`/`Get_*` |
| ROS callbacks | `Core/Src/ros_task.cpp` | the executor, the messages | `callback_speed`, `_pos`, `_mode`, `_stop`, `_servo`, `_xy`, ...; three status timers |
| Action queue | `Control/Servo.cpp` | linked list `Current`/`Last`, `time_start`, believed positions, `servo_speed`; all behind `Servo_Lock` | `Servo_Add_Action`, `Servo_Server`, `update_Servo_state`, `change_servo_speed`, `Is_Servo_Idle` |
| Arm poses | `Control/Servo.cpp`, `callback_servo` | none of their own | 17 values of `/car/servo`, each a sequence of actions |
| Stepper axes | `Hardware/StepperMotor.cpp` | half steps left and done, speed, flags, atomics shared with two interrupts | `stepperN_ISR` (TIM7), EXTI callback, `set_stepper_N`, `set_speed_N`, `get_steps_N` |
| Tasks and boot | `Core/Src/freertos.c`, `main.c`, and the FreeRTOS kernel under them | task handles, priorities, ready lists, mutexes and their holders | control task (every 10 ms), servo task (boot, then every 50 ms), ROS task, default task, LED task (started by `callback_ros_ok`); create, take and give a lock, delay, tick |
| Interrupts and pins | `stm32h7xx_it.c`, `gpio.c`, `tim.c` | pending lines, edges, priorities | TIM7, EXTI0/1 |
| Servo bus | `Hardware/SCS*.c`, `SMSBCL.c`, and the polled half of `stm32h7xx_hal_uart.c` | shared buffer `wBuf`, states and length counter of the UART handle | `WritePos`, `writeBuf`, `Ack`, `checkHead`, `HAL_UART_Transmit`, `HAL_UART_Receive` |
| micro-ROS transport | `extra_sources/dma_transport.c`, and the DMA half of `stm32h7xx_hal_uart.c` | DMA ring, head and tail, states of the UART handle | open, close, write, read; `ros_init`'s connection loop |
| micro-ROS heap | `extra_sources/custom_memory_manager.c`, `microros_allocators.c` | blocks and their free list | malloc, free, realloc, calloc |
| micro-ROS clock | `extra_sources/microros_time.c`, the tick of `tasks.c` | tick, overflow count, ticks put off | `clock_gettime`, tick, suspend, resume |
| newlib locks | `Core/ThreadSafe` | nesting level, BASEPRI | acquire, release |
| Others | screen driver, peripheral set-up, C library hooks, vendored HAL, CMSIS, FreeRTOS, libmicroros | | not modelled |

**How they interact.** The ROS task's callbacks write the chassis variables one critical section
at a time, and the control task, of higher priority, may run a period between any two of them.
Callbacks append actions to the queue; the servo task removes them when their time has passed and
commands the next, over the servo bus or by the stepper interface. Stepper targets are written by
a task with an atomic load and an atomic store, while the timer and the limit-switch interrupts
update the same atomics. The boot, inside the servo task, homes both stages and then, a second
later, assumes positions for the servos, while the ROS task already runs.

**What is hard here.** Control periods inside callbacks; flags of an overtaken message that are
still set; interrupts inside a read-modify-write; a bouncing limit switch; a queue that is timed
and never measured; the wrap of the millisecond counter; poses requested while others are being
carried out; answers that come after their timeout; a ring that is overwritten; two tasks on one UART;
priority inversion. The full list, each at its line, is `hazards` in `PROJECT.json`.

**What makes each part correct.**

- *Chassis*: the flags and `Move` agree between callbacks; the last command is in force a period
  after its callback; a displacement is added once; a place is never taken for a displacement; a
  change to absolute mode holds a place the car was at; the speed is limited along the way.
- *Steppers*: what is left plus what was done is the target; homing happens at the switch and
  makes the coordinate the distance from it; moves end; the boot homes.
- *Action queue*: the pointers are the sequence of requested actions; each action is commanded
  once, in order; actions end; one joint moves at a time.
- *Poses*: the lowered arm is never swung; the tray does not turn below it.
- *Servo bus*: a command goes out once and whole; an acknowledgement is an answer of the servo that
  was asked; after a fault the bus comes back into step.
- *Transport*: bytes are delivered in order, and only a lap of the ring or a restart loses any.
- *Heap*: blocks in use are disjoint, the free list is sorted and joined, sizes add up.
- *Clock*: monotone across the wrap, and no tick is lost while the scheduler is suspended.
- *Tasks*: locks exist before they are used; the control task waits for the holder of its lock only;
  who waits for a lock gets it; no task above the LED task starves.

## The modules

| Module | What it models | Correspondence |
|---|---|---|
| `Kinematics` | the arithmetic of `Control.c` | operators of the same names on records of four wheels and vectors x, y, z |
| `Chassis` | the control task and the callbacks that command it | variables of the same names; `Control` is `Control()`, in its three branches; a callback is a chain of steps, one per wrapper call, `pc` says where the ROS task is |
| `ChassisContract` | what the chassis promises | a request is accepted, in progress, in force; no flags, no windows |
| `Stepper` | one axis: ISR, EXTI callback, tasks, switch, carriage | `left`, `total` are the atomics; `Load` and `Store` the two halves of `set_stepper_1` |
| `ServoQueue` | the linked list, the timer and the moving joints | heap nodes with `Next`; one action per function, each under `Servo_Lock` |
| `ActionFifo` | what the queue promises to the poses | a sequence and the last action commanded |
| `ArmPoses` | the pose sequences on an `ActionFifo` | one operator per pose function, `Pose` is the switch of `callback_servo` |
| `MicroRosHeap` | the private heap of the micro-ROS library | `hdr` is the headers in memory; one action per function of `microros_allocators.c`; `prvInsertBlockIntoFreeList`, `FirstFit`, `Take` are the pieces of `malloc` and `free` |
| `HeapContract` | what the heap promises | grants that are aligned, inside the heap and disjoint |
| `DmaTransport` | the transport of the micro-ROS client on USART1 | variables of the same names, `pos` is the DMA's place in the ring; `Receive` and `LineError` are the DMA and its interrupt; a read is `cubemx_transport_read`, `Sample`, `Delay`, `Copy`, `ReadReturns`: the statements between which a byte may arrive |
| `ServoBus` | write commands to the servos and their acknowledgements, by the servo and the ROS task | the frame is made in `wBuf` (`writeBuf`), sent cell by cell from the counter shared by both tasks (`Test`, `Send`), and the answer read by `checkHead` and `Ack` through `HAL_UART_Receive`; `Take`, `Answer`, `Arrive` are the servos and the line |
| `Tasks` | the five tasks, three mutexes and the scheduler | a task is the list of kernel calls it has still to make; `ready` are the kernel's lists in walking order; one action per kernel function |
| `RosClock` | `clock_gettime` and the tick it reads | one action per function: `clock_gettime`, `xTaskIncrementTick`, `vTaskSuspendAll`, `xTaskResumeAll` |
| `MC*` | the instances for TLC | |
| `*Proofs` | theorems and proofs | |

`ServoQueue` implements `ActionFifo` (`ImplementsFifo`), and `ArmPoses` uses `ActionFifo`: that the
poses see a queue is proved, not assumed. That an action has finished moving when the next starts,
which `ArmPoses` uses too, is `ServosArrive` for the servos, if the arm stands where the boot assumes. For the
steppers it is true to within the way of a millisecond (`OneAtATime`): six steps of the 9736 of the firmware's move
of 37 mm, which `Servo.cpp:156` gives 973 ms. `ArmPoses` does not resolve such a rest.
`Chassis` implements `ChassisContract` (`ImplementsContract`), `MicroRosHeap` implements
`HeapContract` (`ImplementsHeap`).

In most modules some variables are history: they record what a value
stands for (`moveKind`), what was asked (`cmd`, `order`), where things were (`been`, `from`, `lag`) or what interfered
(`raced`, `calm`, `early`, `rested`, `clean`). No
action's guard or effect on the program's variables reads them, except `QueueBound`-style bounds.
Definitions marked *Mutant* are plausible wrong versions of the definition that follows them; no
specification uses them.

### Abstractions

- A section under `Control_Lock` or `Servo_Lock` is one step: every access to the variables it
  covers is under the lock. The exceptions found are listed as hazards (the boot's dummy writes).
- `Get_Run_Flag` and `Get_relative` in callbacks read what only the ROS task writes, and are part
  of the step that uses them.
- The PI and PID filters and PWM are left out of `Chassis`: no command depends on them. The car
  moves by any reading in `EncoderReads` in a period. `z` is in the unit in which
  `a_PARAMETER+b_PARAMETER` is 1, and only readings whose quotients are whole are produced.
- Of the speed limit the way it is taken along is kept, as `Bias`: the static `Divider` and `Rate_A` to `Rate_D` are
  functions of the last way that was not nought. The size of the limit is left out.
- The carriage of `Stepper` takes a full step at a rising edge of STEP and stalls at the ends of the
  rail. The contact follows it, may open again `MaxBounces` times while pressed, and closes again.
- Joints of `ServoQueue` move at constant rates: an STS servo at 5/4 of the planned speed, which is the factor
  of `Servo.cpp:59`; an SCS servo so as to arrive in the time it was sent; a stepper by its timer. The way of
  a stepper is counted in parts of a step so small that its way in a millisecond is whole at every speed; the
  time it is given is rounded down as in the code. Speeds of servos are above 0 (`SpeedsAssumption`), though
  `change_servo_speed` takes any. Time inside a critical section (UART traffic) is not counted. Servo actions
  get the argument time -1, as every caller passes.
- `new` returns a free address of `Nodes`. An exhausted heap is a hazard of its own.
- `MicroRosHeap` keeps of memory its headers; a header that was absorbed is `Blank`, and so is, as one
  possible outcome, a header that the client's data was copied over, behind which the model stops. The
  byte counters of `microros_allocators.c`, which nothing reads, are left out; a product of `calloc` is
  its value.
- `ArmPoses` keeps of each joint where it stands when no action moves it.
- `DmaTransport`: a byte is its number in the stream received; what the agent's bytes mean is left to
  the client. A delay of the reader is a step between which any number of bytes may arrive.
- `ServoBus`: a cell of the buffer stands for the bytes of a frame before its checksum, or for the
  checksum; two cells are a command. One write to the buffer and one test-and-set of the UART's state are
  a step each. The line is lossy after the boot, `MaxFaults` times: a disturbed cell, a lost answer, an
  answer later than the timeout, a disturbed or overrun byte. Answers are drained before the next frame
  is out, because a frame is longer than an answer.
- `Tasks`: what a task does between kernel calls is left out, except polling the servo bus, which can last for
  many ticks. The default task only sleeps, and so does the LED task once a message has started it. The
  kernel's idle task is `current = None`; its timer task has no timer to serve. A task that is given the
  processor makes a step before the next tick; a control period is done within its 10 ms; several delays that
  end in one tick end in ticks of their own.
- `RosClock` reads the two counters in one step, because `vTaskSetTimeOutState` does so in a critical
  section. The width of the tick is a constant.

## The runs

| Run | States | What it shows |
|---|---|---|
| `chassis` | 1.35 M | all interleavings of periods with the sections of callbacks, three modes (1, 0, and a value that is neither): `FlagsMatchMove`, `CommandInForce`, `DisplacementApplied`, `LimitAlongTravel`, `ImplementsContract`; outside the windows of the callbacks (`calm`): `RunFlagSelectsKind` |
| `chassis_mode` | | `PlacesNotAdded` fails when a displacement is overtaken: see Findings |
| `stepper` | 694 K | targets set between any two interrupts, bouncing switch: `TargetKept`, `HomedAtSwitch`, `MoveEnds`, `BootHomes`; while targets are set at rest only (`rested`): `Coordinates` |
| `servo_queue` | 911 K | three nodes, a servo and a stepper, requests before and after the boot: `ListIsOrder`, `ImplementsFifo`, and `ActionsEnd` across the wrap |
| `servo_queue_calm` | 2.34 M | an STS servo, an SCS servo and a stepper from anywhere, the boot at any time, ways of one and three quarters and three and a half milliseconds: `OneAtATime` |
| `servo_queue_speed` | | `WaitIsEnough` fails when a speed is changed in between: see Findings |
| `arm_poses` | 421 K | every sequence of the 17 poses and `/car/xy`: `SwingsRaised`, `TrayTurnsClear`, `RestsClear` |
| `heap` | 13 K | every sequence of requests, returns and growing reallocations: `Tiled`, `ListIsJoined`, `Counted`, `FailsWhenFull`, `ImplementsHeap` |
| `heap_shrink` | | `FreeChecks` fails for other reallocations: see Findings |
| `transport` | 188 K | reads of any length around bytes that arrive at any time, laps, line errors, three openings: `InOrder`, `LostByLap`, `ByteTaken`, `Resyncs`, `CallsReturn` |
| `servo_bus` | 901 K | two tasks, two servos, the boot's unlocked writes, a fault of any kind: `SentOnce`, `AckMeansTaken`, `Resyncs`, `CallsReturn` |
| `tasks` | 79 K | the five tasks from the start of the scheduler, preemption between any two calls: `CreatedInTime`, `ControlFirst`, `RaisedForControl`, `LockGranted`, `AllRun` |

`servo_bus` says of commands that are *alone* what holds. The boot's dummy writes take no lock: the
second can start a transmission while the ROS task is sending, since the first one's timeout has marked the
transmitter ready (`stm32h7xx_hal_uart.c:3417`). Both then decrement one counter, which passes zero, and what
follows `wBuf` in memory goes out after the frame for another 65,535 bytes. The model has this behaviour
(`Send` past zero, cells past `Room`); its properties say that no later command suffers from it.

**Bounds.** `PosBound = 1` keeps the encoders within a pulse of the start: enough for every wheel to move both
ways, and the commands' values differ in more than that, so no two coincide by accident. Two destinations (one
with x and y) and one speed suffice to tell an old command from a new one; a third mode value shows that the
code compares with 0 and with 1 in different places. A bound of one is all that `DisplacementApplied` and
`LimitAlongTravel` need: an older pending flag, two additions, a place left by one pulse between two sections
of a callback. The rail has eight places, two behind the switch, with the boot's goal beyond the end; speeds 0
to 3 include the speeds at which a half step is taken in every period. Three nodes are a first, a middle and a
last one; two suffice where the list is not the question. `TickMod` (3, 5 or 16 instead of 2^32) exceeds every
wait, and in `servo_queue_calm` every wait plus the poll period, as 2^32 does, and makes the tick wrap within
every behaviour. A way of 7 at 4 in a millisecond is no whole number of them: the stepper's rest is met. The
servos of `servo_queue_calm` have one speed: that speeds may differ is in the theorem. `Poll` (1 or 2) lets an
action overstay, as the 50 ms do. `QueueBound = 3` lets the poses of up to four requests overlap; longer
queues add no order of actions. The heap has twelve cells of two bytes, six blocks at most: enough for a block
to be joined on either side and on both, for a rest to be split off and to be kept, and for requests that fail
though the free bytes would do. Nine bytes around a ring of four make two laps, and three openings a restart
in each phase of the reader. Three commands are a disturbed one, the next, and one that must be acknowledged
again; `Skips = 2` bytes before a head is given up, `CountMax = 4` and `Room = 4` make the counter and the
buffer overflow when two frames are built at once. `Tasks` has no bound: these are every task and lock that
the firmware's own code makes.

**Fairness.** `Stepper`: of the two interrupts taken together, of a bouncing contact coming to rest, and of a
task's store. A pending EXTI line is served before the timer: both have priority 5 and the EXTI lines have the
lower interrupt numbers. `ServoQueue`: of the tick, of the servo task, which `osDelay(50)` wakes, and of its
boot. None on requests. `DmaTransport`: a transmission ends, calls run on, and the client reads again and
again, as the executor spins; no byte has to come. `ServoBus`: the tasks run, bytes on the line arrive, a
servo in order answers. `Tasks`: the processor runs and ticks come; every delay ends; polling ends, by its
timeouts; and the servo task is not late in every one of its rounds, for it is late only after exchanges that
timed out. The LED task is promised nothing: `AllRun` says that it runs if those above it are all waiting
again and again. Without that it can starve: with a servo task and a ROS task that are never asleep at one
time it does not get the processor. `Chassis` has no liveness property and no fairness.

**Deadlock** is checked in every run but those of the heap and of the servo bus: each system has a clock,
a timer or a reader that never stops, but a failed request of the heap ends in an endless loop
(`custom_memory_manager.c:225`), and the bus rests after `MaxCmds` commands.

## What is proved

For every value of the constants that the named assumptions allow (goals, readings and messages of the
right types; a rail that holds the switch; a `NULL` that is not a node), with no other axioms:

- `ChassisProofs`: `Get_Position_NOW` inverts `Kinematic_Analysis`, and, where no wheel slips,
  `Kinematic_Analysis` inverts it. `TypeCorrect`, `FlagsAgree` (`FlagsMatchMove`), `CommandSettles`
  (`CommandInForce`), `DisplacementCounted` (`DisplacementApplied`), `TravelLimited` (`LimitAlongTravel`),
  `ChassisImplementsContract`: in every interleaving. None is inductive alone. The inductive `IInv` adds
  `CallbackInv`, what holds at each point of a callback (which flags were already written, and with what
  message); `CommandInv`, what the last command implies for the flags between callbacks, and that every
  addition but those counted by `early` is still to come or was the command's one; and `PlaceInv`, where the
  places come from: what a callback captured is a place in `been`, and `Last_Target` is either such a place or
  already the destination, with `Bias` the way between them (`WayFrom`). For a calm chassis `CalmInv` adds
  what is left after a period between callbacks: the loop and the kind of its target agree, and nothing is
  pending but the displacement that is due. From it follows `LoopFollowsItsKind` (`RunFlagSelectsKind`).
- `StepperProofs`: `TypeCorrect`, `TargetIsKept` (`TargetKept`), `HomingAtSwitch` (`HomedAtSwitch`),
  `CoordinatesHold` (`Coordinates`, for goals on the rail). The inductive invariant adds `LoadInv`: a load
  that was not disturbed still equals the total, so that the store that follows makes the sum the new target.
- `ServoQueueProofs`: `ListCorrect` (`ListIsOrder`), `QueueImplementsFifo` (`ImplementsFifo`). The inductive
  invariant is `ListIsOrder` with `ShapeInv`, the shapes of the heap and of the history. `AddFirst`, `AddLast`
  and `AdvanceInv` are the three operations on the list; `AddIsRequest` and `AdvanceIsFinish` map them to
  steps of the FIFO. `OneJointMoves` (`OneAtATime`) is about `SteadySpec`: any start, the boot at any time,
  speeds that change when the queue is empty, stepper speeds above 0. Nobody knows where the joints are, so
  the invariant `Steady` compares with what the code believed: `lag` is how far off it was when a joint's last
  action started. `Fitting`, a waiting action has the time to come from `from`, where the code takes it to
  start; `Underway`, what is left of the current way fits in what is left of its wait, through the wrap of the
  tick, but for `lag` and a rest; `Arrived`, so it is for the others without a wait. A stepper's rest is the
  way of a millisecond, since `Servo.cpp:156` rounds down. `TimeIsEnough` and `RateIsEnough` are the
  arithmetic. `ServosArrive` is about `CalmSpec`, where the arm stands as the boot assumes and actions come
  after it: each servo, STS or SCS, has arrived when the next action starts. `Known` adds a plan, with which
  `lag` is 0 (`Exact`): `Planned`, a waiting action starts where the one before it for the same servo ends, or
  from the servo's goal; `Believes`, that is where the code takes the servo to be; `Booting`, the boot assumes
  what is so.
- `DmaTransportProofs`: `TypeCorrect`, `TakenInOrder` (`InOrder`), `OnlyLapsLose` (`LostByLap`), for a ring of
  any size and reads of any length. `InOrder` is not inductive: `IInv` says where in the ring every byte lies that
  was received and not taken, how far the tail is from the head, and that a reader in step is less than a
  ring behind the DMA.
- `ArmPosesProofs`: `TypeCorrect`, `ArmSwingsRaised` (`SwingsRaised`), `TrayIsClear` (`TrayTurnsClear`),
  `ArmRestsClear` (`RestsClear`), for any modes, any steps of the stages and a queue of any length. None is
  inductive, since an action is allowed or not by where those before it leave the arm. `IInv` says that everything
  planned, `queue \o todo`, has a path of places on which each action is allowed and whose end is clear of the
  tray. A request is only made when nothing is left to add, at the end of such a path, and one lemma for each pose
  (`PutSafe`, `GrabSafe`, ...) shows it safe from every clear place; `SafeConcat` and `SafeTail` join paths and
  carry out their first action.
- `ServoBusProofs`: `TypeCorrect`, `CommandsSentOnce` (`SentOnce`), `AckedWasTaken` (`AckMeansTaken`),
  `BackInStep` (`Resyncs`), for any servos, noise, buffer of at least a frame, bytes skipped before a head (at
  least two) and number of faults. `IInv` adds three things to the types. `InUse`: what is in use is in use by
  a task, so that a command that begins alone finds the buffer empty and the UART ready. `FrameInv`: how far a
  frame that is alone has come, which cells are in the buffer, and that the cell the servos saw last is its
  first. `QuietInv`: until a servo has taken the command nothing is due, nothing is on the line once the frame
  is out, and one byte at most is left in the receiver, which is not enough for a head; so `checkHead` gives
  up. `BackInStep` adds `SyncInv`, about commands that nothing has disturbed. At rest one byte at most is left
  over, and if the command before was undisturbed too it is not 255 (`NoHead`); `HasRead(i, n)` says that all
  of servo i's answer but its first n bytes is still to come, on the line or in the receiver; `Reader` names
  the five places a call can be in: before the byte left over, past it, in the head, in the rest, and in a
  rest begun one byte too early, which only a left-over 255 can cause. Such a call ends in a bad Ack but
  leaves just the checksum, which is never 255 (`AnswerIs`), so the next command reads in step.
- `MicroRosHeapProofs`: `NoByteIsLost` (`Tiled`), `FreeListIsJoined` (`ListIsJoined`), `FreeBytesAreCounted`
  (`Counted`), `RefusedOnlyWhenFull` (`FailsWhenFull`), `HeapKeepsItsContract` (`ImplementsHeap`), `TypeCorrect` and,
  for the client whose reallocations grow, `AssertionsHold` (`FreeChecks`); for any layout and sizes. They all follow
  from `HeapStaysSound`: the blocks lie side by side, the list leads through the free ones by address, no two of them
  touch, each other block is held by one grant that fits it, and the count is the number of free bytes. An operation
  breaks this in between, when a block is on no list and nobody's, so `Sound` names the blocks on the list:
  `InsertIsLinkAndJoin` takes the insertion apart into a link and a join on either side; `LinkKeeps`, `JoinKeeps`,
  `UnlinkKeeps`, `SplitKeeps` and `MarkKeeps` say what each piece keeps and which bytes it frees; `GrantKeeps` and
  `GiveBackKeeps` put them together. The walk along the list, `Visited`, is a recursive function: `SetInduction`, from
  the well-foundedness of `<`, shows that it is one (`VisitedIs`) and that it meets the free blocks by address
  until the end marker (`WalkOnList`, `WalkReaches`), whence `IteratorFacts` and `FirstFitFacts`.
- `KernelProofs`, the tasks: `TypeCorrect` (`TypeOK`), `LocksCreatedInTime` (`CreatedInTime`),
  `ControlComesFirst` (`ControlFirst`), `OnlyRaisedForControl` (`RaisedForControl`). The tasks are the
  firmware's five, which TLC explores completely; the proofs say why. `Codes` says at each place of each
  task's rounds which locks it has (`ControlAt`, `ServoAt`, `WheelsAt`, `PoseAt`, `HelloAt`), so that nobody
  sleeps with a lock and the only call made with `Control_Lock` is to give it back (`Manners`). `Sorted` says
  that the kernel's lists have just the ready tasks, each in the list of its priority, whatever the turn of
  equals; `InsertSorted`, `LeaveSorted`, `RaiseSorted` and `SwitchOK` are the kernel's operations on them.
  `Ahead` is the point: a control task that is ready runs, whoever has `Control_Lock` is ready, and runs while
  the control task waits. From these `Ranks` follows: nobody is raised except the ROS task, at its give, with
  the control task blocked on it. `Births` orders the creation of the locks and the start of the tasks; a task
  is spawned once, the LED task by a ROS task that has started.
- `KernelProofs`, the clock: `TimespecExact`, for any number of nanoseconds, `TicksAreKept`, `ClockNeverBack`,
  `ClockNeverAhead`, for any width of the tick. There is no run of `RosClock`: the proofs cover every instance.

Only model-checked: everything temporal that needs fairness (`MoveEnds`, `BootHomes`, `ActionsEnd`,
`ByteTaken`, `LockGranted`, `AllRun`, `Resyncs` of the transport, each `CallsReturn`), which the prover does not reach.
Every safety property of a run is a theorem, except those whose runs show them violated.

## Findings

1. `PlacesNotAdded` (`ros_task.cpp:162`): `pending_flag` is only cleared by a period in relative
   position mode. The run's trace: a displacement, a speed before any period, mode 0, a destination in absolute
   mode, mode 1, a period, which adds the destination to the position.
2. `WaitIsEnough` (`Servo.cpp:59`): the wait is computed when an action is added, the speed is sent
   when it starts; a speed lowered in between makes the next action start too early.
3. `FreeChecks` (`custom_memory_manager.c:313`): a reallocation copies as many bytes as the old block has,
   with its header, whatever the new block's size; a block that is not larger by a header is overrun, and
   the header behind it is lost.

A failed request never returns `NULL`, as the allocator's interface asks, but loops; in `calloc` and
`realloc` it does so with the scheduler suspended, which stops the control task too.

Four more things the properties of `Chassis` allow because the code does them. The callbacks write `Run_Flag`
and `Move` in two critical sections, and a period in between runs the position loop on a speed or the velocity
loop on a place (`calm` excludes it; `CommandInForce` says that the period after the callback repairs it). A
period between `Set_Move` and `Set_pending_flag` that finds an older pending flag adds the displacement, and
the next period adds it again: `DisplacementApplied` says exactly when. A car that moves inside
`callback_mode` is sent back to the place it was at: `ChassisContract` says that it is a place since the
message came. A destination changed on the way to another is limited along the way between the two
destinations, which the car does not travel: the comment at `Control.c:352` warns of it, and
`LimitAlongTravel` excepts it (`stood`).

A line error of the micro-ROS link ends the reception (`stm32h7xx_hal_uart.c:2327`) and
`HAL_UART_ErrorCallback` is not overridden: once `ros_init` has succeeded nothing opens the transport
again, and the car goes on as last commanded. `ByteTaken` speaks of bytes that were received.

## Not modelled

- The PI and PID filters, clamps and PWM registers, and the arithmetic of `Get_Error`: numeric code without
  control of its own, whose results nothing else reads: that the sum of squares (`Control.c:488`) overflows
  for errors above some 23,000 pulses, and that `callback_pos` reports the error to the old target
  (`ros_task.cpp:135`), shows in the status only.
- The status messages, keys and display: output only.
- The newlib locks (`Core/ThreadSafe`): `new` and `delete` are the FreeRTOS heap, and the only user of a C
  library lock is a `printf` on an error path (`ros_task.cpp:306`).
- The FreeRTOS heap, `heap_4.c`: a failed `new` has no path in `Servo.cpp`.
- The screen driver, the peripheral set-up (`usart.c`, `dma.c`, clock trees) and the C library hooks:
  configuration and stubs without state of their own.
- HAL, CMSIS, FreeRTOS and libmicroros are vendored: of the HAL the UART functions that the servo bus and the
  transport call, and of FreeRTOS the scheduler, mutexes and tick are modelled; the rest of their several
  hundred thousand lines is not the firmware's logic and mostly not linked.
- `Servo_Add_Action_bunch` and the read, registered and broadcast commands of the servo library have no
  caller. Every `.bak` and `.orig` file and `Debug/` are leftovers of the build.

## What is left

1. `WheelLoop`: the PI filters, clamps and the limit, with the widths of `int`; `Get_Error`.
2. The heap of FreeRTOS under `new`, and the messages the ROS task reports.
