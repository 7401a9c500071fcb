------------------------------- MODULE RosClock -------------------------------
(***************************************************************************)
(* The clock of the micro-ROS library: clock_gettime of microros_time.c    *)
(* puts a 64-bit time together from the kernel's tick, a counter of few    *)
(* bits, and the number of times that has wrapped.  Ticks that come while  *)
(* the scheduler is suspended, as the heap suspends it, are made up for    *)
(* when it resumes.                                                        *)
(***************************************************************************)
EXTENDS Integers

CONSTANTS
  Wrap,                     \* 2^32: the values of TickType_t
  NANOSECONDS_PER_SECOND,   \* 10^9
  NANOSECONDS_PER_TICK      \* 10^6

VARIABLES
  xTickCount, xNumOfOverflows,
  xPendedTicks, uxSchedulerSuspended,
  tp,      \* what clock_gettime returned last
  \* history:
  ticks    \* the tick interrupts so far

clockVars == <<xTickCount, xNumOfOverflows, xPendedTicks, uxSchedulerSuspended, tp, ticks>>

\* The division of C rounds towards zero.
Quotient(a, b) == IF a >= 0 THEN a \div b ELSE 0 - ((0 - a) \div b)
Remainder(a, b) == a - b * Quotient(a, b)

UTILS_NanosecondsToTimespec(source) ==
  LET sec == Quotient(source, NANOSECONDS_PER_SECOND)
      nsec == Remainder(source, NANOSECONDS_PER_SECOND)
      carry == Quotient(nsec, NANOSECONDS_PER_SECOND) + 1
  IN  IF nsec < 0
      THEN [tv_sec |-> sec - carry, tv_nsec |-> nsec + carry * NANOSECONDS_PER_SECOND]
      ELSE [tv_sec |-> sec, tv_nsec |-> nsec]

\* A time as a number of nanoseconds.
Nanoseconds(t) == t.tv_sec * NANOSECONDS_PER_SECOND + t.tv_nsec

ClockInit ==
  /\ xTickCount = 0 /\ xNumOfOverflows = 0
  /\ xPendedTicks = 0 /\ uxSchedulerSuspended = 0
  /\ tp = [tv_sec |-> 0, tv_nsec |-> 0] /\ ticks = 0

\* The tick moves on by n, and wraps.
Count(n) ==
  /\ xTickCount' = (xTickCount + n) % Wrap
  /\ xNumOfOverflows' = xNumOfOverflows + ((xTickCount + n) \div Wrap)

xTaskIncrementTick ==
  /\ ticks' = ticks + 1
  /\ IF uxSchedulerSuspended = 0
       THEN Count(1) /\ UNCHANGED xPendedTicks
       ELSE xPendedTicks' = xPendedTicks + 1 /\ UNCHANGED <<xTickCount, xNumOfOverflows>>
  /\ UNCHANGED <<uxSchedulerSuspended, tp>>

vTaskSuspendAll ==
  /\ uxSchedulerSuspended' = uxSchedulerSuspended + 1
  /\ UNCHANGED <<xTickCount, xNumOfOverflows, xPendedTicks, tp, ticks>>

\* The outermost one counts the ticks that were put off.
xTaskResumeAll ==
  /\ uxSchedulerSuspended > 0
  /\ uxSchedulerSuspended' = uxSchedulerSuspended - 1
  /\ IF uxSchedulerSuspended = 1
       THEN Count(xPendedTicks) /\ xPendedTicks' = 0
       ELSE UNCHANGED <<xTickCount, xNumOfOverflows, xPendedTicks>>
  /\ UNCHANGED <<tp, ticks>>

\* vTaskSetTimeOutState reads both counters in one critical section.
clock_gettime ==
  /\ tp' = UTILS_NanosecondsToTimespec(
             (xNumOfOverflows * Wrap + xTickCount) * NANOSECONDS_PER_TICK)
  /\ UNCHANGED <<xTickCount, xNumOfOverflows, xPendedTicks, uxSchedulerSuspended, ticks>>

ClockNext == xTaskIncrementTick \/ vTaskSuspendAll \/ xTaskResumeAll \/ clock_gettime

ClockSpec == ClockInit /\ [][ClockNext]_clockVars
-------------------------------------------------------------------------------
(* Properties                                                                *)

\* No tick is lost or counted twice, across the wrap and while the scheduler stands.
TicksKept ==
  /\ xTickCount \in 0..Wrap - 1
  /\ xNumOfOverflows * Wrap + xTickCount + xPendedTicks = ticks
  /\ uxSchedulerSuspended = 0 => xPendedTicks = 0

\* The library never sees a time before one that it has seen, nor one in the future.
NeverBack == [][Nanoseconds(tp) <= Nanoseconds(tp')]_tp

NeverAhead == Nanoseconds(tp) <= ticks * NANOSECONDS_PER_TICK
===============================================================================
