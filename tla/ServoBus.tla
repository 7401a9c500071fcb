------------------------------- MODULE ServoBus -------------------------------
(***************************************************************************)
(* The serial bus of the servos: WritePos in Servo.cpp, the packets of     *)
(* SCS.c and the buffer of SCSerail.c over a UART polled by the HAL.  A    *)
(* task fills the shared wBuf, sends it, and waits for the servo's answer  *)
(* of six bytes; the receiver holds a single byte while nobody reads.  The *)
(* servo and ROS tasks exchange under Servo_Lock, except for the dummy     *)
(* writes of the servo task at boot, which take no lock.                   *)
(*                                                                         *)
(* A cell of wBuf stands for the bytes of a frame before its checksum, or  *)
(* for the checksum.  Answers are bytes.                                   *)
(***************************************************************************)
EXTENDS Integers, Sequences

CONSTANTS
  Server, Ros, None,   \* model values: the two tasks, and nobody or nothing
  Ids,                 \* the servos on the bus
  Absent,              \* the address of the dummy writes: no servo has it
  Skips,               \* checkHead gives up after so many bytes that are no head
  CountMax,            \* largest value of TxXferCount (uint16_t), in cells
  Noise,               \* what a disturbed byte may turn into
  Room,                \* cells of wBuf
  Dummies,             \* dummy writes at boot
  EarlyCmds, MaxCmds,  \* bounds on the commands during boot, and on all of them
  MaxFaults            \* a bound on the faults, which come after boot

ASSUME IdsAssumption == Ids \subseteq 0..253 /\ Absent \in 0..253 \ Ids

ASSUME BytesAssumption ==
  Noise \subseteq 0..255 /\ None \notin 0..255 \cup {Server, Ros} \cup ((0..253) \X {1, 2})

ASSUME SizesAssumption ==
  /\ Skips \in Nat /\ Skips >= 2
  /\ CountMax \in Nat /\ Room \in 2..CountMax

ASSUME BoundsAssumption ==
  /\ Dummies \in Nat /\ EarlyCmds \in Nat /\ MaxCmds \in Nat /\ MaxFaults \in Nat

VARIABLES
  lock,               \* the task that holds Servo_Lock
  call,               \* each task in WritePos
  wBuf, wLen,         \* the buffer all frames are built in
  TxBusy, RxBusy,     \* huart5's gState and RxState
  TxXferCount,
  boots, cmds,        \* dummy writes still to do, commands given so far
  line,               \* the last cells the servos have seen
  due, late,          \* answers each servo still has to send: in time, or too late
  wire, rdr,          \* an answer on its way, and the byte in the receiver
  \* history:
  faults, clean,      \* faults so far, and none since the last command began
  before,             \* nor in the command before it
  stray,              \* some answer was still to come when the last command began
  acked               \* the result of the last Ack

bufVars == <<wBuf, wLen, TxBusy, RxBusy, TxXferCount>>
busVars == <<line, due, late, wire, rdr>>
histVars == <<faults, clean, before, stray, acked>>
vars == <<lock, call, bufVars, boots, cmds, busVars, histVars>>

Tasks == {Server, Ros}

Idle == [pc |-> "idle", id |-> 0, at |-> 0, prev |-> 0,
         got |-> <<>>, alone |-> FALSE, whole |-> 0]

Init ==
  /\ lock = None /\ call = [t \in Tasks |-> Idle]
  /\ wBuf = [c \in 1..Room |-> None] /\ wLen = 0
  /\ TxBusy = FALSE /\ RxBusy = FALSE /\ TxXferCount = 0
  /\ boots = Dummies /\ cmds = 0
  /\ line = <<>> /\ due = [i \in Ids |-> 0] /\ late = due /\ wire = <<>> /\ rdr = None
  /\ faults = 0 /\ clean = TRUE /\ before = TRUE /\ stray = FALSE /\ acked = FALSE
-------------------------------------------------------------------------------
At(t, l) == call[t].pc = l

InCall(t) == call[t].pc \notin {"idle", "locked"}

\* A task polls the receiver, or does as soon as it has seen its frame gone.
Reading ==
  \E t \in Tasks : \/ call[t].pc \in {"head", "body", "headwait", "bodywait"}
                   \/ At(t, "test") /\ TxXferCount = 0

Fault ==
  /\ boots = 0 /\ faults < MaxFaults
  /\ faults' = faults + 1 /\ clean' = FALSE
  /\ UNCHANGED <<before, stray, acked>>

NoFault == UNCHANGED histVars

\* A command of task t to servo i begins; if the other task is in one, neither is alone.
Begin(t, i) ==
  LET alone == \A u \in Tasks : ~InCall(u)
  IN  /\ call' = [u \in Tasks |->
           IF u = t
           THEN [Idle EXCEPT !.pc = "fill", !.id = i, !.alone = alone]
           ELSE [call[u] EXCEPT !.alone = @ /\ ~InCall(u)]]
      /\ stray' = \E j \in Ids : due[j] + late[j] > 0
      /\ clean' = (alone /\ ~stray') /\ before' = clean
      /\ UNCHANGED <<faults, acked>>

\* The call of task t returns; ok says whether the Ack was good.  Nobody reads it.
End(t, ok) ==
  /\ call' = [call EXCEPT ![t] = [Idle EXCEPT !.pc = IF lock = t THEN "locked" ELSE "idle"]]
  /\ boots' = IF lock = t THEN boots ELSE boots - 1
  /\ clean' = (clean /\ call[t].alone) /\ acked' = ok
  /\ UNCHANGED <<faults, before, stray>>
-------------------------------------------------------------------------------
(* The tasks.                                                                *)

\* Servo_Server and Servo_Add_Action: both tasks take the lock, the servo task not
\* before the dummy writes are done.
xSemaphoreTake(t) ==
  /\ At(t, "idle") /\ lock = None /\ cmds < MaxCmds
  /\ t = Server => boots = 0
  /\ lock' = t
  /\ call' = [call EXCEPT ![t].pc = "locked"]
  /\ UNCHANGED <<bufVars, boots, cmds, busVars, histVars>>

xSemaphoreGive(t) ==
  /\ At(t, "locked")
  /\ lock' = None
  /\ call' = [call EXCEPT ![t].pc = "idle"]
  /\ UNCHANGED <<bufVars, boots, cmds, busVars, histVars>>

WritePos(t) ==
  /\ At(t, "locked") /\ cmds < IF boots > 0 THEN EarlyCmds ELSE MaxCmds
  /\ cmds' = cmds + 1
  /\ \E i \in Ids : Begin(t, i)
  /\ UNCHANGED <<lock, bufVars, boots, busVars>>

StartServoTask ==
  /\ At(Server, "idle") /\ boots > 0
  /\ Begin(Server, Absent)
  /\ UNCHANGED <<lock, bufVars, boots, cmds, busVars>>

\* writeSCS of the head and data, and of the checksum; a full buffer takes no more.
writeBuf(t) ==
  /\ At(t, "fill")
  /\ LET k == call[t].at + 1
     IN  /\ IF wLen < Room
            THEN wBuf' = [wBuf EXCEPT ![wLen + 1] = <<call[t].id, k>>]
                 /\ wLen' = wLen + 1
            ELSE UNCHANGED <<wBuf, wLen>>
         /\ call' = [call EXCEPT ![t].at = k, ![t].pc = IF k = 2 THEN "flush" ELSE "fill"]
  /\ UNCHANGED <<lock, TxBusy, RxBusy, TxXferCount, boots, cmds, busVars, histVars>>

\* HAL_UART_Transmit begins, or finds the transmitter busy and drops the frame.
wFlushSCS(t) ==
  /\ At(t, "flush")
  /\ IF wLen # 0 /\ ~TxBusy
     THEN /\ TxBusy' = TRUE /\ TxXferCount' = wLen
          /\ call' = [call EXCEPT ![t].pc = "test", ![t].at = 0]
          /\ UNCHANGED wLen
     ELSE /\ wLen' = 0
          /\ call' = [call EXCEPT ![t].pc = "head", ![t].at = 0]
          /\ UNCHANGED <<TxBusy, TxXferCount>>
  /\ UNCHANGED <<lock, wBuf, RxBusy, boots, cmds, busVars, histVars>>

\* Mutant: the length of the frame is not reset.
Test_KeepsLength(t) ==
  /\ At(t, "test")
  /\ IF TxXferCount > 0
     THEN /\ call' = [call EXCEPT ![t].pc = "send"]
          /\ UNCHANGED TxBusy
     ELSE /\ call' = [call EXCEPT ![t].pc = "head", ![t].at = 0]
          /\ TxBusy' = FALSE
  /\ UNCHANGED <<lock, wBuf, wLen, RxBusy, TxXferCount, boots, cmds, busVars, histVars>>

\* Another cell goes out, or the frame is complete.  The count is shared: two tasks
\* that both have a cell to go take it past zero.
Test(t) ==
  /\ At(t, "test")
  /\ IF TxXferCount > 0
     THEN /\ call' = [call EXCEPT ![t].pc = "send"]
          /\ UNCHANGED <<wLen, TxBusy>>
     ELSE /\ call' = [call EXCEPT ![t].pc = "head", ![t].at = 0]
          /\ TxBusy' = FALSE /\ wLen' = 0
  /\ UNCHANGED <<lock, wBuf, RxBusy, TxXferCount, boots, cmds, busVars, histVars>>

\* What the cell at place p of wBuf holds; past the buffer lies other memory.
CellAt(p) == IF p <= Room THEN wBuf[p] ELSE None

\* The servos see a cell.  A servo takes a command whose cells come whole, and owes an
\* answer.
Take(t, cell) ==
  LET seen == Append(line, cell)
      whole == /\ Len(seen) = 2 /\ cell # None
               /\ \A k \in 1..2 : seen[k] = <<cell[1], k>>
  IN  /\ line' = IF whole THEN <<>> ELSE IF Len(seen) = 2 THEN Tail(seen) ELSE seen
      /\ due' = IF whole /\ cell[1] \in Ids THEN [due EXCEPT ![cell[1]] = @ + 1] ELSE due
      /\ call' = [u \in Tasks |->
           [call[u] EXCEPT !.whole = IF whole /\ cell[1] = call[u].id THEN @ + 1 ELSE @,
                           !.pc = IF u = t THEN "test" ELSE @,
                           !.at = IF u = t /\ @ <= Room THEN @ + 1 ELSE @]]

\* The transmit register takes a cell, which may be disturbed on the line.  Meanwhile
\* what was left of an older answer has gone by: a frame is longer than an answer.
Send(t) ==
  /\ At(t, "send") /\ wire = <<>>
  /\ \/ Take(t, CellAt(call[t].at + 1)) /\ NoFault
     \/ Take(t, None) /\ Fault
  /\ TxXferCount' = IF TxXferCount = 0 THEN CountMax ELSE TxXferCount - 1
  /\ UNCHANGED <<lock, wBuf, wLen, TxBusy, RxBusy, boots, cmds, late, wire, rdr>>

\* readSCS, one byte for checkHead and four for the rest: a receiver in use is an error.
HAL_UART_Receive(t) ==
  /\ At(t, "head") \/ At(t, "body")
  /\ IF RxBusy
     THEN /\ End(t, FALSE)
          /\ UNCHANGED RxBusy
     ELSE /\ RxBusy' = TRUE
          /\ call' = [call EXCEPT ![t].pc = IF @ = "head" THEN "headwait" ELSE "bodywait"]
          /\ UNCHANGED <<boots, histVars>>
  /\ UNCHANGED <<lock, wBuf, wLen, TxBusy, TxXferCount, cmds, line, due, late, wire, rdr>>

\* Mutant: giving up leaves the receiver in use.
checkHead_StaysBusy(t) ==
  /\ At(t, "headwait") /\ rdr # None
  /\ rdr' = None
  /\ LET found == rdr = 255 /\ call[t].prev = 255
     IN  IF ~found /\ call[t].at = Skips
         THEN End(t, FALSE) /\ UNCHANGED RxBusy
         ELSE /\ call' = [call EXCEPT ![t].pc = IF found THEN "body" ELSE "head",
                                      ![t].prev = rdr, ![t].at = @ + 1]
              /\ RxBusy' = FALSE
              /\ UNCHANGED <<boots, histVars>>
  /\ UNCHANGED <<lock, wBuf, wLen, TxBusy, TxXferCount, cmds, line, due, late, wire>>

\* Mutant: a single byte 255 is a head.
checkHead_OneByte(t) ==
  /\ At(t, "headwait") /\ rdr # None
  /\ rdr' = None /\ RxBusy' = FALSE
  /\ LET found == rdr = 255
     IN  IF ~found /\ call[t].at = Skips
         THEN End(t, FALSE)
         ELSE /\ call' = [call EXCEPT ![t].pc = IF found THEN "body" ELSE "head",
                                      ![t].prev = rdr, ![t].at = @ + 1]
              /\ UNCHANGED <<boots, histVars>>
  /\ UNCHANGED <<lock, wBuf, wLen, TxBusy, TxXferCount, cmds, line, due, late, wire>>

\* Two bytes 255 in a row are the head.
checkHead(t) ==
  /\ At(t, "headwait") /\ rdr # None
  /\ rdr' = None /\ RxBusy' = FALSE
  /\ LET found == rdr = 255 /\ call[t].prev = 255
     IN  IF ~found /\ call[t].at = Skips
         THEN End(t, FALSE)
         ELSE /\ call' = [call EXCEPT ![t].pc = IF found THEN "body" ELSE "head",
                                      ![t].prev = rdr, ![t].at = @ + 1]
              /\ UNCHANGED <<boots, histVars>>
  /\ UNCHANGED <<lock, wBuf, wLen, TxBusy, TxXferCount, cmds, line, due, late, wire>>

\* The checksum of the bytes of a packet between head and checksum.
CheckSum(b) == 255 - ((b[1] + b[2] + b[3]) % 256)

\* The answer counts if it is the addressee's, has the right length and checksum.
Ack(t) ==
  /\ At(t, "bodywait") /\ rdr # None
  /\ rdr' = None
  /\ LET got == Append(call[t].got, rdr)
     IN  IF Len(got) = 4
         THEN /\ RxBusy' = FALSE
              /\ End(t, got[1] = call[t].id /\ got[2] = 2 /\ got[4] = CheckSum(got))
         ELSE /\ call' = [call EXCEPT ![t].got = got]
              /\ UNCHANGED <<RxBusy, boots, histVars>>
  /\ UNCHANGED <<lock, wBuf, wLen, TxBusy, TxXferCount, cmds, line, due, late, wire>>

\* Mutant: silence counts as an answer.
Timeout_Good(t) ==
  /\ At(t, "headwait") \/ At(t, "bodywait")
  /\ rdr = None /\ wire = <<>>
  /\ \A i \in Ids : due[i] = 0
  /\ TxBusy' = FALSE /\ RxBusy' = FALSE
  /\ End(t, TRUE)
  /\ UNCHANGED <<lock, wBuf, wLen, TxXferCount, cmds, line, due, late, wire, rdr>>

\* Mutant: the rest of an answer is waited for without end.
Timeout_OnlyHead(t) ==
  /\ At(t, "headwait")
  /\ rdr = None /\ wire = <<>>
  /\ \A i \in Ids : due[i] = 0
  /\ TxBusy' = FALSE /\ RxBusy' = FALSE
  /\ End(t, FALSE)
  /\ UNCHANGED <<lock, wBuf, wLen, TxXferCount, cmds, line, due, late, wire, rdr>>

\* Nothing for IOTimeOut ms: the HAL declares the transmitter ready as well, whoever uses
\* it.  A servo in order has answered by then.
Timeout(t) ==
  /\ At(t, "headwait") \/ At(t, "bodywait")
  /\ rdr = None /\ wire = <<>>
  /\ \A i \in Ids : due[i] = 0
  /\ TxBusy' = FALSE /\ RxBusy' = FALSE
  /\ End(t, FALSE)
  /\ UNCHANGED <<lock, wBuf, wLen, TxXferCount, cmds, line, due, late, wire, rdr>>
-------------------------------------------------------------------------------
(* The servos and the line (external).                                       *)

\* A servo is slower than the time the master waits.
Delay(i) ==
  /\ due[i] > 0 /\ Fault
  /\ due' = [due EXCEPT ![i] = @ - 1] /\ late' = [late EXCEPT ![i] = @ + 1]
  /\ UNCHANGED <<lock, call, bufVars, boots, cmds, line, wire, rdr>>

\* Head, ID, length, no error, checksum; or nothing, when the answer is lost.
Answer(i) == <<255, 255, i, 2, 0, CheckSum(<<i, 2, 0>>)>>

ServoAnswers(i) ==
  /\ \/ /\ due[i] > 0
        /\ due' = [due EXCEPT ![i] = @ - 1] /\ UNCHANGED late
     \/ /\ late[i] > 0
        /\ late' = [late EXCEPT ![i] = @ - 1] /\ UNCHANGED due
  /\ \/ wire' = wire \o Answer(i) /\ NoFault
     \/ UNCHANGED wire /\ Fault
  /\ UNCHANGED <<lock, call, bufVars, boots, cmds, line, rdr>>

\* A byte arrives: a task that polls takes it in time, else only the first one stays.
\* On the way it may be disturbed, or it may be lost to an overrun.
Arrive ==
  /\ wire # <<>> /\ wire' = Tail(wire)
  /\ \/ rdr = None /\ rdr' = Head(wire) /\ NoFault
     \/ rdr # None /\ ~Reading /\ UNCHANGED rdr /\ NoFault
     \/ rdr' \in (IF rdr = None THEN Noise \union {None} ELSE {rdr}) /\ Fault
  /\ UNCHANGED <<lock, call, bufVars, boots, cmds, line, due, late>>
-------------------------------------------------------------------------------
Run(t) ==
  \/ writeBuf(t) \/ wFlushSCS(t) \/ Test(t) \/ Send(t)
  \/ HAL_UART_Receive(t) \/ checkHead(t) \/ Ack(t) \/ Timeout(t)

Next ==
  \/ \E t \in Tasks : xSemaphoreTake(t) \/ xSemaphoreGive(t) \/ WritePos(t) \/ Run(t)
  \/ StartServoTask
  \/ \E i \in Ids : Delay(i) \/ ServoAnswers(i)
  \/ Arrive

\* Both tasks get the processor, bytes on the line arrive, and a servo that is not late
\* answers.
Fairness ==
  /\ \A t \in Tasks : WF_vars(Run(t))
  /\ \A i \in Ids : WF_vars(ServoAnswers(i))
  /\ WF_vars(Arrive)

Spec == Init /\ [][Next]_vars

FairSpec == Spec /\ Fairness
-------------------------------------------------------------------------------
(* Properties                                                                *)

\* The buffer is never overrun, and nothing is in use that no task uses.
TypeOK ==
  /\ lock \in Tasks \union {None}
  /\ wLen \in 0..Room /\ TxXferCount \in 0..CountMax
  /\ rdr \in (0..255) \union {None} /\ wire \in Seq(0..255)
  /\ (\A t \in Tasks : ~InCall(t)) => wLen = 0 /\ ~TxBusy /\ ~RxBusy

\* A call returns.
Returns(t) == InCall(t) /\ call'[t].pc \in {"idle", "locked"}

\* A command given while the other task is not in one goes out whole, and once, whatever
\* happened before, unless the line disturbed it.
SentOnce == [][\A t \in Tasks : Returns(t) /\ call[t].alone =>
                 call[t].whole = 1 \/ (~clean /\ call[t].whole = 0)]_vars

\* Bytes left over from earlier commands never make up an answer: an Ack of 1 means that
\* a servo has taken this very command, unless an older answer was still to come.
AckMeansTaken == [][\A t \in Tasks : Returns(t) /\ call[t].alone /\ ~stray /\ acked' =>
                      call[t].whole = 1]_vars

\* After a disturbed command the receiver may be out of step, but only for one more: the
\* second undisturbed command in a row is acknowledged.
Resyncs == [][\A t \in Tasks : Returns(t) /\ call[t].alone /\ call[t].id \in Ids
                               /\ clean /\ before => acked']_vars

\* Once the dummy writes are over, a command that has the bus to itself returns.
CallsReturn == \A t \in Tasks : InCall(t) /\ boots = 0 /\ call[t].alone ~> ~InCall(t)
===============================================================================
