---------------------------- MODULE ServoBusProofs ----------------------------
(* What the bus does with a command that has it to itself, for any servos, buffer, *)
(* noise and number of faults.                                                     *)
EXTENDS ServoBus, SequenceTheorems, TLAPS

Byte == 0..255

Places == {"idle", "locked", "fill", "flush", "test", "send",
           "head", "headwait", "body", "bodywait"}

Calls == [pc : Places, id : 0..253, at : Nat, prev : Byte,
          got : Seq(Byte), alone : BOOLEAN, whole : Nat]

\* Of the line only the last cell is kept, whatever it holds.
Types ==
  /\ lock \in Tasks \cup {None} /\ call \in [Tasks -> Calls]
  /\ wBuf = [c \in 1..Room |-> wBuf[c]]
  /\ wLen \in 0..Room /\ TxXferCount \in 0..CountMax
  /\ TxBusy \in BOOLEAN /\ RxBusy \in BOOLEAN
  /\ line = <<>> \/ line = <<line[1]>>
  /\ due \in [Ids -> Nat] /\ late \in [Ids -> Nat]
  /\ rdr \in Byte \cup {None} /\ wire \in Seq(Byte)
  /\ clean \in BOOLEAN /\ stray \in BOOLEAN

\* What is in use is in use by a task.
InUse ==
  /\ TxBusy => \E t \in Tasks : call[t].pc \in {"test", "send"}
  /\ RxBusy => \E t \in Tasks : call[t].pc \in {"headwait", "bodywait"}
  /\ wLen # 0 => \E t \in Tasks : call[t].pc \in {"fill", "flush", "test", "send"}

\* A task that is alone is in a call and the other is not.
AloneInv ==
  \A t \in Tasks : call[t].alone => InCall(t) /\ \A u \in Tasks \ {t} : ~InCall(u)

\* The cells of the command of task t are in the buffer up to the n-th.
Filled(t, n) ==
  /\ wLen = n
  /\ \A k \in 1..n : wBuf[k] = <<call[t].id, k>>

\* How far the frame of a task that is alone has come, and what the servos saw of it.
Frame(t) ==
  /\ call[t].pc = "fill" => /\ call[t].at \in 0..1 /\ Filled(t, call[t].at)
                            /\ call[t].whole = 0
  /\ call[t].pc = "flush" => Filled(t, 2) /\ call[t].whole = 0
  /\ call[t].pc \in {"test", "send"} =>
       /\ Filled(t, 2) /\ TxXferCount + call[t].at = 2
       /\ call[t].at < 2 => call[t].whole = 0
       /\ call[t].at = 1 /\ clean => line = <<<<call[t].id, 1>>>>
  /\ call[t].pc = "send" => call[t].at < 2
  /\ call[t].pc \in {"head", "headwait", "body", "bodywait"}
     \/ (call[t].pc = "test" /\ call[t].at = 2) =>
       call[t].whole = 1 \/ (~clean /\ call[t].whole = 0)

FrameInv == \A t \in Tasks : call[t].alone => Frame(t)

\* As long as no servo has taken the command, nothing answers, and only a byte that was
\* left in the receiver can be read.
Quiet(t) ==
  /\ \A i \in Ids : due[i] = 0 /\ late[i] = 0
  /\ call[t].pc \in {"fill", "flush", "test", "send"} => call[t].prev = 0
  /\ call[t].pc \in {"test", "send"} /\ call[t].at > 0 => wire = <<>>
  /\ call[t].pc \in {"head", "headwait"} =>
       /\ wire = <<>>
       /\ call[t].at = 0 => call[t].prev = 0
       /\ call[t].at > 0 => rdr = None
  /\ call[t].pc \notin {"body", "bodywait"}

QuietInv ==
  \A t \in Tasks : call[t].alone /\ ~stray /\ call[t].whole = 0 => Quiet(t)

IInv == Types /\ InUse /\ AloneInv /\ FrameInv /\ QuietInv
-------------------------------------------------------------------------------
(* Types.                                                                    *)

LEMMA IdleCall ==
  /\ Idle \in Calls /\ Idle.pc = "idle" /\ Idle.alone = FALSE
  /\ \A p \in Places, i \in 0..253, a \in BOOLEAN :
       [Idle EXCEPT !.pc = p, !.id = i, !.alone = a] \in Calls
<1>1. Idle \in Calls /\ Idle.pc = "idle" /\ Idle.alone = FALSE
  BY DEF Idle, Calls, Places, Byte
<1>2. ASSUME NEW p \in Places, NEW i \in 0..253, NEW a \in BOOLEAN
      PROVE  [Idle EXCEPT !.pc = p, !.id = i, !.alone = a] \in Calls
  <2>1. [Idle EXCEPT !.pc = p] \in Calls
    BY <1>1 DEF Calls
  <2>2. [[Idle EXCEPT !.pc = p] EXCEPT !.id = i] \in Calls
    BY <2>1 DEF Calls
  <2>3. [[[Idle EXCEPT !.pc = p] EXCEPT !.id = i] EXCEPT !.alone = a] \in Calls
    BY <2>2 DEF Calls
  <2> QED  BY <2>3
<1> QED  BY <1>1, <1>2

LEMMA InitInv == Init => IInv
<1> SUFFICES ASSUME Init PROVE IInv
  OBVIOUS
<1>1. call \in [Tasks -> Calls] /\ \A t \in Tasks : call[t] = Idle
  BY IdleCall DEF Init
<1>2. due \in [Ids -> Nat] /\ late \in [Ids -> Nat]
  BY DEF Init
<1>3. wLen \in 0..Room /\ TxXferCount \in 0..CountMax
  BY SizesAssumption DEF Init
<1>4. wBuf = [c \in 1..Room |-> wBuf[c]]
  BY DEF Init
<1>5. wire \in Seq(Byte)
  BY DEF Init
<1>6. Types
  BY <1>1, <1>2, <1>3, <1>4, <1>5 DEF Init, Types
<1>7. InUse /\ AloneInv /\ FrameInv /\ QuietInv
  BY <1>1, IdleCall DEF Init, InUse, AloneInv, FrameInv, QuietInv
<1> QED  BY <1>6, <1>7 DEF IInv

\* A checksum is a byte.
LEMMA CheckSumByte == \A a, b, c \in Byte : CheckSum(<<a, b, c>>) \in Byte
<1> SUFFICES ASSUME NEW a \in Byte, NEW b \in Byte, NEW c \in Byte
             PROVE  255 - ((a + b + c) % 256) \in Byte
  BY DEF CheckSum
<1>1. (a + b + c) % 256 \in 0..255
  BY DEF Byte
<1> QED  BY <1>1 DEF Byte

LEMMA AnswerBytes == \A i \in Ids : Answer(i) \in Seq(Byte)
<1> SUFFICES ASSUME NEW i \in Ids PROVE Answer(i) \in Seq(Byte)
  OBVIOUS
<1>1. i \in Byte /\ 2 \in Byte /\ 0 \in Byte /\ 255 \in Byte
  BY IdsAssumption DEF Byte
<1>2. CheckSum(<<i, 2, 0>>) \in Byte
  BY <1>1, CheckSumByte
<1> QED  BY <1>1, <1>2 DEF Answer

\* Of two calls at once neither is alone.
LEMMA Alone ==
  ASSUME IInv, NEW t \in Tasks, NEW u \in Tasks, InCall(t), call[u].alone
  PROVE  u = t /\ \A v \in Tasks \ {t} : ~InCall(v)
BY DEF IInv, AloneInv

\* What a command that begins does to the calls.
LEMMA BeginTypes ==
  ASSUME Types, NEW t \in Tasks, NEW i \in 0..253, Begin(t, i)
  PROVE  /\ call' \in [Tasks -> Calls] /\ clean' \in BOOLEAN /\ stray' \in BOOLEAN
         /\ call'[t] = [Idle EXCEPT !.pc = "fill", !.id = i,
                                    !.alone = \A u \in Tasks : ~InCall(u)]
         /\ \A u \in Tasks \ {t} :
              /\ call'[u].alone <=> call[u].alone /\ ~InCall(u)
              /\ call'[u].pc = call[u].pc
<1>1. call \in [Tasks -> Calls]
  BY DEF Types
<1>2. ASSUME NEW u \in Tasks
      PROVE  /\ [call[u] EXCEPT !.alone = @ /\ ~InCall(u)] \in Calls
             /\ [call[u] EXCEPT !.alone = @ /\ ~InCall(u)].pc = call[u].pc
             /\ [call[u] EXCEPT !.alone = @ /\ ~InCall(u)].alone
                  <=> call[u].alone /\ ~InCall(u)
  <2> DEFINE a == call[u].alone /\ ~InCall(u)
  <2>1. call[u] \in Calls
    BY <1>1
  <2>2. a \in BOOLEAN
    OBVIOUS
  <2> HIDE DEF a
  <2>3. /\ [call[u] EXCEPT !.alone = a] \in Calls
        /\ [call[u] EXCEPT !.alone = a].pc = call[u].pc
        /\ [call[u] EXCEPT !.alone = a].alone = a
    BY <2>1, <2>2 DEF Calls
  <2> QED  BY <2>3 DEF a
<1> DEFINE b == \A u \in Tasks : ~InCall(u)
           c == [Idle EXCEPT !.pc = "fill", !.id = i, !.alone = b]
<1>3. c \in Calls
  <2>1. b \in BOOLEAN
    OBVIOUS
  <2> HIDE DEF b
  <2> QED  BY <2>1, IdleCall DEF Places
<1>4. call' = [u \in Tasks |-> IF u = t THEN c ELSE [call[u] EXCEPT !.alone = @ /\ ~InCall(u)]]
  BY DEF Begin
<1>5. clean' \in BOOLEAN /\ stray' \in BOOLEAN
  BY DEF Begin
<1> HIDE DEF c
<1>6. call' \in [Tasks -> Calls] /\ call'[t] = c
  BY <1>2, <1>3, <1>4
<1>7. \A u \in Tasks \ {t} : /\ call'[u].alone <=> call[u].alone /\ ~InCall(u)
                             /\ call'[u].pc = call[u].pc
  BY <1>2, <1>4
<1> QED  BY <1>5, <1>6, <1>7 DEF c
-------------------------------------------------------------------------------
(* The tasks outside the bus.                                                *)

LEMMA BeginInv ==
  ASSUME IInv, NEW t \in Tasks, NEW i \in 0..253, ~InCall(t), Begin(t, i),
         UNCHANGED <<lock, bufVars, busVars>>
  PROVE  IInv'
<1> DEFINE b == \A u \in Tasks : ~InCall(u)
<1>1. Types /\ InUse /\ AloneInv
  BY DEF IInv
<1>2. /\ call' \in [Tasks -> Calls] /\ clean' \in BOOLEAN /\ stray' \in BOOLEAN
      /\ call'[t] = [Idle EXCEPT !.pc = "fill", !.id = i, !.alone = b]
      /\ \A u \in Tasks \ {t} : /\ call'[u].alone <=> call[u].alone /\ ~InCall(u)
                                /\ call'[u].pc = call[u].pc
  BY <1>1, BeginTypes
<1>3. /\ call'[t].pc = "fill" /\ call'[t].alone = b /\ call'[t].at = 0
      /\ call'[t].prev = 0 /\ call'[t].whole = 0
  BY <1>2, IdleCall DEF Idle
<1>4. \A u \in Tasks \ {t} : ~call'[u].alone
  BY <1>1, <1>2 DEF AloneInv
<1>5. Types'
  BY <1>1, <1>2 DEF Types, bufVars, busVars
<1>6. InUse'
  <2>1. \A u \in Tasks : call[u].pc \notin {"idle", "locked"} => call'[u].pc = call[u].pc
    BY <1>2 DEF InCall
  <2> QED  BY <1>1, <2>1 DEF InUse, bufVars
<1>7. AloneInv'
  BY <1>2, <1>3, <1>4 DEF AloneInv, InCall
<1>8. FrameInv'
  <2> SUFFICES ASSUME NEW u \in Tasks, call'[u].alone PROVE Frame(u)'
    BY DEF FrameInv
  <2>1. u = t /\ b
    BY <1>3, <1>4
  <2>2. wLen' = 0
    BY <1>1, <2>1 DEF InUse, InCall, bufVars
  <2>3. Filled(t, 0)'
    BY <2>2 DEF Filled
  <2> HIDE DEF b
  <2> QED  BY <1>3, <2>1, <2>3 DEF Frame
<1>9. QuietInv'
  <2>1. ~stray' => \A j \in Ids : due'[j] = 0 /\ late'[j] = 0
    <3>1. stray' = \E j \in Ids : due[j] + late[j] > 0
      BY DEF Begin
    <3>2. \A j \in Ids : due[j] \in Nat /\ late[j] \in Nat
      BY <1>1 DEF Types
    <3> QED  BY <3>1, <3>2 DEF busVars
  <2> QED  BY <1>3, <1>4, <2>1 DEF QuietInv, Quiet
<1> QED  BY <1>5, <1>6, <1>7, <1>8, <1>9 DEF IInv

LEMMA WritePosInv == ASSUME IInv, NEW t \in Tasks, WritePos(t) PROVE IInv'
<1>1. PICK i \in Ids : Begin(t, i)
  BY DEF WritePos
<1>2. i \in 0..253 /\ ~InCall(t)
  BY IdsAssumption DEF WritePos, At, InCall
<1> QED  BY <1>1, <1>2, BeginInv DEF WritePos

LEMMA StartServoTaskInv == ASSUME IInv, StartServoTask PROVE IInv'
<1>1. Absent \in 0..253 /\ ~InCall(Server) /\ Server \in Tasks
  BY IdsAssumption DEF StartServoTask, At, InCall, Tasks
<1> QED  BY <1>1, BeginInv DEF StartServoTask

\* A task that is in no call takes or gives the lock: nothing else changes.
LEMMA LockInv ==
  ASSUME IInv, NEW t \in Tasks, xSemaphoreTake(t) \/ xSemaphoreGive(t)
  PROVE  IInv'
<1>1. Types /\ InUse /\ AloneInv /\ FrameInv /\ QuietInv
  BY DEF IInv
<1>2. PICK p \in {"idle", "locked"} : call' = [call EXCEPT ![t].pc = p]
  BY DEF xSemaphoreTake, xSemaphoreGive
<1>3. ~InCall(t) /\ call[t] \in Calls /\ call \in [Tasks -> Calls]
  BY <1>1 DEF xSemaphoreTake, xSemaphoreGive, At, InCall, Types
<1>4. /\ [call[t] EXCEPT !.pc = p] \in Calls
      /\ [call[t] EXCEPT !.pc = p].pc = p
      /\ [call[t] EXCEPT !.pc = p].alone = call[t].alone
  BY <1>3 DEF Calls, Places
<1>5. /\ call' \in [Tasks -> Calls] /\ call'[t].pc = p /\ ~call'[t].alone
      /\ \A u \in Tasks \ {t} : call'[u] = call[u]
  BY <1>1, <1>2, <1>3, <1>4 DEF AloneInv
<1>6. UNCHANGED <<bufVars, busVars, histVars>> /\ lock' \in Tasks \cup {None}
  BY DEF xSemaphoreTake, xSemaphoreGive
<1>7. Types'
  BY <1>1, <1>5, <1>6 DEF Types, bufVars, busVars, histVars
<1>8. InUse'
  BY <1>1, <1>3, <1>5, <1>6 DEF InUse, InCall, bufVars
<1>9. AloneInv'
  BY <1>1, <1>5 DEF AloneInv, InCall
<1>10. FrameInv'
  BY <1>1, <1>5, <1>6 DEF FrameInv, Frame, Filled, bufVars, busVars, histVars
<1>11. QuietInv'
  BY <1>1, <1>5, <1>6 DEF QuietInv, Quiet, busVars, histVars
<1> QED  BY <1>7, <1>8, <1>9, <1>10, <1>11 DEF IInv
-------------------------------------------------------------------------------
(* A task in a call.                                                         *)

\* Its step changes its own call to c; if it is not alone, nobody is.
LEMMA StepCall ==
  ASSUME IInv, NEW t \in Tasks, InCall(t), NEW c \in Calls, call' = [call EXCEPT ![t] = c],
         c.alone => call[t].alone /\ c.pc \notin {"idle", "locked"}
  PROVE  /\ call' \in [Tasks -> Calls] /\ call'[t] = c
         /\ \A u \in Tasks \ {t} : call'[u] = call[u]
         /\ \A u \in Tasks : call'[u].alone => u = t /\ call[t].alone
         /\ AloneInv'
<1>1. call \in [Tasks -> Calls] /\ AloneInv
  BY DEF IInv, Types
<1>2. /\ call' \in [Tasks -> Calls] /\ call'[t] = c
      /\ \A u \in Tasks \ {t} : call'[u] = call[u]
  BY <1>1
<1>3. \A u \in Tasks : call'[u].alone => u = t /\ call[t].alone
  BY <1>1, <1>2 DEF AloneInv
<1>4. AloneInv'
  BY <1>1, <1>2, <1>3 DEF AloneInv, InCall
<1> QED  BY <1>2, <1>3, <1>4

\* What is left to show of such a step.
LEMMA StepInv ==
  ASSUME IInv, NEW t \in Tasks, InCall(t), NEW c \in Calls, call' = [call EXCEPT ![t] = c],
         c.alone => call[t].alone /\ c.pc \notin {"idle", "locked"},
         Types', InUse',
         c.alone => Frame(t)',
         c.alone /\ ~stray' /\ c.whole = 0 => Quiet(t)'
  PROVE  IInv'
<1>1. /\ call'[t] = c /\ AloneInv'
      /\ \A u \in Tasks : call'[u].alone => u = t /\ call[t].alone
  BY StepCall
<1>2. FrameInv'
  BY <1>1 DEF FrameInv
<1>3. QuietInv'
  BY <1>1 DEF QuietInv
<1> QED  BY <1>1, <1>2, <1>3 DEF IInv

\* What is known of a task in a call.
LEMMA InCallFacts ==
  ASSUME IInv, NEW t \in Tasks, InCall(t)
  PROVE  /\ call[t] \in Calls /\ call \in [Tasks -> Calls] /\ Types /\ InUse
         /\ call[t].alone => Frame(t)
         /\ call[t].alone /\ ~stray /\ call[t].whole = 0 => Quiet(t)
         /\ call[t].alone => \A u \in Tasks \ {t} : call[u].pc \in {"idle", "locked"}
BY DEF IInv, Types, AloneInv, FrameInv, QuietInv, InCall

LEMMA WriteBufInv == ASSUME IInv, NEW t \in Tasks, writeBuf(t) PROVE IInv'
<1> DEFINE k == call[t].at + 1
           p == IF k = 2 THEN "flush" ELSE "fill"
           c == [[call[t] EXCEPT !.at = k] EXCEPT !.pc = p]
<1>1. InCall(t) /\ call[t].pc = "fill"
  BY DEF writeBuf, At, InCall
<1>2. /\ call[t] \in Calls /\ call \in [Tasks -> Calls] /\ Types /\ InUse
      /\ call[t].alone => Frame(t)
      /\ call[t].alone /\ ~stray /\ call[t].whole = 0 => Quiet(t)
  BY <1>1, InCallFacts
<1>3. /\ c \in Calls /\ c.at = k /\ c.pc = p /\ c.alone = call[t].alone
      /\ c.whole = call[t].whole /\ c.prev = call[t].prev /\ c.id = call[t].id
  <2>1. k \in Nat /\ p \in Places /\ call[t].at \in Nat
    BY <1>2 DEF Calls, Places
  <2> HIDE DEF k, p
  <2> QED  BY <1>2, <2>1 DEF Calls
<1>4. call' = [call EXCEPT ![t] = c]
  BY <1>2 DEF writeBuf
<1> HIDE DEF c
<1>5. /\ call' \in [Tasks -> Calls] /\ call'[t] = c
      /\ \A u \in Tasks \ {t} : call'[u] = call[u]
  BY <1>1, <1>3, <1>4, StepCall
<1>6. /\ wLen < Room => wBuf' = [wBuf EXCEPT ![wLen + 1] = <<call[t].id, k>>] /\ wLen' = wLen + 1
      /\ ~(wLen < Room) => UNCHANGED <<wBuf, wLen>>
      /\ UNCHANGED <<lock, TxBusy, RxBusy, TxXferCount, boots, cmds, busVars, histVars>>
  BY DEF writeBuf
<1>7. Types'
  <2>1. wLen' \in 0..Room
    BY <1>2, <1>6, SizesAssumption DEF Types
  <2>2. wBuf' = [d \in 1..Room |-> wBuf'[d]]
    BY <1>2, <1>6 DEF Types
  <2> QED  BY <1>2, <1>5, <1>6, <2>1, <2>2 DEF Types, busVars, histVars
<1>8. InUse'
  <2>1. call'[t].pc \in {"fill", "flush"}
    BY <1>3, <1>5
  <2>2. \A u \in Tasks \ {t} : call'[u].pc = call[u].pc
    BY <1>5
  <2> HIDE DEF p
  <2> QED  BY <1>1, <1>2, <1>6, <2>1, <2>2 DEF InUse
<1>9. ASSUME c.alone PROVE Frame(t)'
  <2>1. call[t].at \in 0..1 /\ Filled(t, call[t].at) /\ call[t].whole = 0
    BY <1>1, <1>2, <1>3, <1>9 DEF Frame
  <2>2. Filled(t, call[t].at)'
    <3>1. wLen < Room /\ wLen = call[t].at
      BY <2>1, SizesAssumption DEF Filled
    <3>2. wLen' = k
      BY <3>1, <1>6
    <3>3. \A j \in 1..k : wBuf'[j] = <<call[t].id, j>>
      <4>1. wBuf = [d \in 1..Room |-> wBuf[d]] /\ Room \in Nat
        BY <1>2, SizesAssumption DEF Types
      <4>2. wBuf' = [wBuf EXCEPT ![k] = <<call[t].id, k>>] /\ k \in 1..Room
        BY <3>1, <1>6, <2>1, <4>1
      <4>3. \A j \in 1..(k - 1) : wBuf[j] = <<call[t].id, j>>
        BY <2>1 DEF Filled
      <4>4. ASSUME NEW j \in 1..k PROVE wBuf'[j] = IF j = k THEN <<call[t].id, k>> ELSE wBuf[j]
        <5>1. j \in 1..Room
          BY <4>1, <4>2
        <5> QED  BY <4>1, <4>2, <5>1
      <4>5. \A j \in 1..k : j = k \/ j \in 1..(k - 1)
        BY <2>1
      <4> QED  BY <4>3, <4>4, <4>5
    <3>4. call'[t].at = k /\ call'[t].id = call[t].id
      BY <1>3, <1>5
    <3> HIDE DEF k
    <3> QED  BY <3>2, <3>3, <3>4 DEF Filled
  <2>3. call'[t].at = k /\ call'[t].whole = 0 /\ call'[t].pc = p
    BY <1>3, <1>5, <2>1
  <2>4. CASE call[t].at = 0
    BY <2>2, <2>3, <2>4 DEF Frame
  <2>5. CASE call[t].at = 1
    BY <2>2, <2>3, <2>5 DEF Frame
  <2> QED  BY <2>1, <2>4, <2>5
<1>10. ASSUME c.alone, ~stray', c.whole = 0 PROVE Quiet(t)'
  <2>1. Quiet(t)
    BY <1>2, <1>3, <1>6, <1>10 DEF histVars
  <2>2. call'[t].pc \in {"fill", "flush"} /\ call'[t].prev = 0
    BY <1>1, <1>3, <1>5, <2>1 DEF Quiet
  <2> HIDE DEF p
  <2> QED  BY <1>6, <2>1, <2>2 DEF Quiet, busVars
<1>11. c.alone => call[t].alone /\ c.pc \notin {"idle", "locked"}
  BY <1>3
<1> QED  BY <1>1, <1>3, <1>4, <1>7, <1>8, <1>9, <1>10, <1>11, StepInv

LEMMA FlushInv == ASSUME IInv, NEW t \in Tasks, wFlushSCS(t) PROVE IInv'
<1> DEFINE p == IF wLen # 0 /\ ~TxBusy THEN "test" ELSE "head"
           c == [[call[t] EXCEPT !.pc = p] EXCEPT !.at = 0]
<1>1. InCall(t) /\ call[t].pc = "flush"
  BY DEF wFlushSCS, At, InCall
<1>2. /\ call[t] \in Calls /\ call \in [Tasks -> Calls] /\ Types /\ InUse
      /\ call[t].alone => Frame(t)
      /\ call[t].alone /\ ~stray /\ call[t].whole = 0 => Quiet(t)
      /\ call[t].alone => \A u \in Tasks \ {t} : call[u].pc \in {"idle", "locked"}
  BY <1>1, InCallFacts
<1>3. /\ c \in Calls /\ c.at = 0 /\ c.pc = p /\ c.alone = call[t].alone
      /\ c.whole = call[t].whole /\ c.prev = call[t].prev /\ c.id = call[t].id
  <2>1. p \in Places
    BY DEF Places
  <2> HIDE DEF p
  <2> QED  BY <1>2, <2>1 DEF Calls
<1>4. call' = [call EXCEPT ![t] = c]
  BY <1>2 DEF wFlushSCS
<1> HIDE DEF c
<1>5. /\ call' \in [Tasks -> Calls] /\ call'[t] = c
      /\ \A u \in Tasks \ {t} : call'[u] = call[u]
  BY <1>1, <1>3, <1>4, StepCall
<1>6. /\ p = "test" => TxBusy' = TRUE /\ TxXferCount' = wLen /\ UNCHANGED wLen
      /\ p = "head" => wLen' = 0 /\ UNCHANGED <<TxBusy, TxXferCount>>
      /\ UNCHANGED <<lock, wBuf, RxBusy, boots, cmds, busVars, histVars>>
  BY DEF wFlushSCS
<1>7. Types'
  <2>1. p = "test" \/ p = "head"
    OBVIOUS
  <2> HIDE DEF p
  <2>2. wLen' \in 0..Room /\ TxXferCount' \in 0..CountMax
    <3>1. /\ wLen \in 0..Room /\ TxXferCount \in 0..CountMax
          /\ 0 \in 0..Room /\ wLen \in 0..CountMax
      BY <1>2, SizesAssumption DEF Types
    <3> QED  BY <1>6, <2>1, <3>1
  <2>3. TxBusy' \in BOOLEAN
    BY <1>2, <1>6, <2>1 DEF Types
  <2> QED  BY <1>2, <1>5, <1>6, <2>2, <2>3 DEF Types, busVars, histVars
<1>8. InUse'
  <2>1. call'[t].pc = p /\ \A u \in Tasks \ {t} : call'[u].pc = call[u].pc
    BY <1>3, <1>5
  <2> QED  BY <1>1, <1>2, <1>6, <2>1 DEF InUse
<1>9. ASSUME c.alone PROVE Frame(t)' /\ p = "test"
  <2>1. Filled(t, 2) /\ call[t].whole = 0
    BY <1>1, <1>2, <1>3, <1>9 DEF Frame
  <2>2. p = "test"
    <3>1. wLen = 2 /\ 2 # 0
      BY <2>1 DEF Filled
    <3>2. ~TxBusy
      BY <1>1, <1>2, <1>3, <1>9 DEF InUse
    <3> QED  BY <3>1, <3>2
  <2>3. Filled(t, 2)'
    BY <1>3, <1>5, <1>6, <2>1, <2>2 DEF Filled
  <2>4. TxXferCount' = 2 /\ call'[t].at = 0 /\ call'[t].whole = 0 /\ call'[t].pc = "test"
    BY <1>3, <1>5, <1>6, <2>1, <2>2 DEF Filled
  <2> QED  BY <2>2, <2>3, <2>4 DEF Frame
<1>10. ASSUME c.alone, ~stray', c.whole = 0 PROVE Quiet(t)'
  <2>1. Quiet(t)
    BY <1>2, <1>3, <1>6, <1>10 DEF histVars
  <2>2. call'[t].pc = "test" /\ call'[t].prev = 0 /\ call'[t].at = 0
    BY <1>1, <1>3, <1>5, <1>9, <1>10, <2>1 DEF Quiet
  <2> HIDE DEF p
  <2> QED  BY <1>6, <2>1, <2>2 DEF Quiet, busVars
<1>11. c.alone => call[t].alone /\ c.pc \notin {"idle", "locked"}
  BY <1>3
<1> QED  BY <1>1, <1>3, <1>4, <1>7, <1>8, <1>9, <1>10, <1>11, StepInv

LEMMA TestInv == ASSUME IInv, NEW t \in Tasks, Test(t) PROVE IInv'
<1> DEFINE p == IF TxXferCount > 0 THEN "send" ELSE "head"
           n == IF TxXferCount > 0 THEN call[t].at ELSE 0
           c == [[call[t] EXCEPT !.pc = p] EXCEPT !.at = n]
<1>1. InCall(t) /\ call[t].pc = "test"
  BY DEF Test, At, InCall
<1>2. /\ call[t] \in Calls /\ call \in [Tasks -> Calls] /\ Types /\ InUse
      /\ call[t].alone => Frame(t)
      /\ call[t].alone /\ ~stray /\ call[t].whole = 0 => Quiet(t)
  BY <1>1, InCallFacts
<1>3. /\ c \in Calls /\ c.at = n /\ c.pc = p /\ c.alone = call[t].alone
      /\ c.whole = call[t].whole /\ c.prev = call[t].prev /\ c.id = call[t].id
  <2>1. p \in Places /\ n \in Nat
    BY <1>2 DEF Places, Calls
  <2> HIDE DEF p, n
  <2> QED  BY <1>2, <2>1 DEF Calls
<1>4. call' = [call EXCEPT ![t] = c]
  BY <1>2 DEF Test, Calls
<1> HIDE DEF c
<1>5. /\ call' \in [Tasks -> Calls] /\ call'[t] = c
      /\ \A u \in Tasks \ {t} : call'[u] = call[u]
  BY <1>1, <1>3, <1>4, StepCall
<1>6. /\ p = "send" => UNCHANGED <<TxBusy, wLen>>
      /\ p = "head" => wLen' = 0 /\ TxBusy' = FALSE
      /\ UNCHANGED <<lock, wBuf, RxBusy, TxXferCount, boots, cmds, busVars, histVars>>
  BY DEF Test
<1>7. Types'
  <2>1. p = "send" \/ p = "head"
    OBVIOUS
  <2> HIDE DEF p
  <2>2. wLen' \in 0..Room
    <3>1. wLen \in 0..Room /\ 0 \in 0..Room
      BY <1>2, SizesAssumption DEF Types
    <3> QED  BY <1>6, <2>1, <3>1
  <2>3. TxBusy' \in BOOLEAN
    BY <1>2, <1>6, <2>1 DEF Types
  <2> QED  BY <1>2, <1>5, <1>6, <2>2, <2>3 DEF Types, busVars, histVars
<1>8. InUse'
  <2>1. call'[t].pc = p /\ \A u \in Tasks \ {t} : call'[u].pc = call[u].pc
    BY <1>3, <1>5
  <2> QED  BY <1>1, <1>2, <1>6, <2>1 DEF InUse
<1>9. ASSUME c.alone PROVE Frame(t)'
  <2>1. /\ Filled(t, 2) /\ TxXferCount + call[t].at = 2
        /\ call[t].at < 2 => call[t].whole = 0
        /\ call[t].at = 1 /\ clean => line = <<<<call[t].id, 1>>>>
        /\ call[t].at = 2 => call[t].whole = 1 \/ (~clean /\ call[t].whole = 0)
    BY <1>1, <1>2, <1>3, <1>9 DEF Frame
  <2>2. TxXferCount \in Nat /\ call[t].at \in Nat
    BY <1>2, SizesAssumption DEF Types, Calls
  <2>3. /\ call'[t].at = n /\ call'[t].pc = p /\ call'[t].whole = call[t].whole
        /\ call'[t].id = call[t].id
    BY <1>3, <1>5
  <2>4. CASE TxXferCount > 0
    <3>1. call[t].at < 2 /\ p = "send" /\ n = call[t].at
      BY <2>1, <2>2, <2>4
    <3>2. Filled(t, 2)'
      BY <1>6, <2>1, <2>3, <3>1 DEF Filled
    <3> HIDE DEF p, n
    <3> QED  BY <1>6, <2>1, <2>3, <3>1, <3>2 DEF Frame, busVars, histVars
  <2>5. CASE ~(TxXferCount > 0)
    <3>1. call[t].at = 2 /\ p = "head"
      BY <2>1, <2>2, <2>5
    <3> HIDE DEF p, n
    <3> QED  BY <1>6, <2>1, <2>3, <3>1 DEF Frame, histVars
  <2> QED  BY <2>4, <2>5
<1>10. ASSUME c.alone, ~stray', c.whole = 0 PROVE Quiet(t)'
  <2>1. Quiet(t) /\ TxXferCount + call[t].at = 2
    BY <1>1, <1>2, <1>3, <1>6, <1>10 DEF histVars, Frame
  <2>2. TxXferCount \in Nat /\ call[t].at \in Nat
    BY <1>2, SizesAssumption DEF Types, Calls
  <2>3. call'[t].at = n /\ call'[t].pc = p /\ call'[t].prev = 0
    BY <1>1, <1>3, <1>5, <2>1 DEF Quiet
  <2>4. \/ p = "send" /\ n = call[t].at
        \/ p = "head" /\ n = 0 /\ call[t].at > 0
    <3>1. CASE TxXferCount > 0
      BY <3>1
    <3>2. CASE ~(TxXferCount > 0)
      <4>1. call[t].at > 0
        BY <2>1, <2>2, <3>2
      <4> QED  BY <3>2, <4>1
    <3> QED  BY <3>1, <3>2
  <2> HIDE DEF p, n
  <2> QED  BY <1>1, <1>6, <2>1, <2>3, <2>4 DEF Quiet, busVars
<1>11. c.alone => call[t].alone /\ c.pc \notin {"idle", "locked"}
  BY <1>3
<1> QED  BY <1>1, <1>3, <1>4, <1>7, <1>8, <1>9, <1>10, <1>11, StepInv
-------------------------------------------------------------------------------
(* Reading the answer.                                                       *)

Reads == {"head", "headwait", "body", "bodywait"}

\* A step that only moves a call on in its reading, with what it holds of the receiver.
LEMMA ReadInv ==
  ASSUME IInv, NEW t \in Tasks, call[t].pc \in Reads, NEW c \in Calls,
         call' = [call EXCEPT ![t] = c],
         c.pc \in Reads \/ (c.pc \in {"idle", "locked"} /\ c.alone = FALSE),
         c.alone => call[t].alone /\ c.whole = call[t].whole,
         UNCHANGED <<lock, wBuf, wLen, TxXferCount, line, due, late, wire, stray>>,
         clean' \in BOOLEAN, c.alone => clean' = clean,
         rdr' \in {rdr, None}, TxBusy' = TxBusy \/ TxBusy' = FALSE,
         RxBusy' \in BOOLEAN,
         RxBusy' => \/ c.pc \in {"headwait", "bodywait"}
                    \/ RxBusy /\ call[t].pc \notin {"headwait", "bodywait"},
         c.alone /\ ~stray /\ c.whole = 0 => Quiet(t)'
  PROVE  IInv'
<1>1. InCall(t)
  BY DEF InCall, Reads
<1>2. /\ call[t] \in Calls /\ call \in [Tasks -> Calls] /\ Types /\ InUse
      /\ call[t].alone => Frame(t)
  BY <1>1, InCallFacts
<1>3. c.alone => call[t].alone /\ c.pc \notin {"idle", "locked"}
  BY DEF Reads
<1>4. /\ call' \in [Tasks -> Calls] /\ call'[t] = c
      /\ \A u \in Tasks \ {t} : call'[u] = call[u]
  BY <1>1, <1>3, StepCall
<1>5. Types'
  <2>1. TxBusy' \in BOOLEAN
    BY <1>2 DEF Types
  <2>2. rdr' \in Byte \cup {None}
    BY <1>2 DEF Types
  <2> QED  BY <1>2, <1>4, <2>1, <2>2 DEF Types
<1>6. InUse'
  <2>1. TxBusy' => \E u \in Tasks : call'[u].pc \in {"test", "send"}
    BY <1>2, <1>4 DEF InUse, Reads
  <2>2. wLen' # 0 => \E u \in Tasks : call'[u].pc \in {"fill", "flush", "test", "send"}
    BY <1>2, <1>4 DEF InUse, Reads
  <2>3. RxBusy' => \E u \in Tasks : call'[u].pc \in {"headwait", "bodywait"}
    <3>1. CASE c.pc \in {"headwait", "bodywait"}
      BY <1>4, <3>1
    <3>2. CASE RxBusy /\ call[t].pc \notin {"headwait", "bodywait"}
      <4>1. PICK u \in Tasks : call[u].pc \in {"headwait", "bodywait"}
        BY <1>2, <3>2 DEF InUse
      <4>2. u # t
        BY <3>2, <4>1
      <4> QED  BY <1>4, <4>1, <4>2
    <3> QED  BY <3>1, <3>2
  <2> QED  BY <2>1, <2>2, <2>3 DEF InUse
<1>7. ASSUME c.alone PROVE Frame(t)'
  <2>1. call[t].whole = 1 \/ (~clean /\ call[t].whole = 0)
    BY <1>2, <1>7 DEF Frame, Reads
  <2>2. call'[t].whole = call[t].whole /\ clean' = clean /\ call'[t].pc \in Reads
    BY <1>4, <1>7
  <2> QED  BY <2>1, <2>2 DEF Frame, Reads
<1> QED  BY <1>1, <1>3, <1>5, <1>6, <1>7, StepInv

\* The call returns.
LEMMA EndInv ==
  ASSUME IInv, NEW t \in Tasks, call[t].pc \in Reads, NEW ok, End(t, ok),
         UNCHANGED <<lock, wBuf, wLen, TxXferCount, line, due, late, wire>>,
         rdr' \in {rdr, None}, TxBusy' = TxBusy \/ TxBusy' = FALSE,
         \/ RxBusy' = FALSE
         \/ UNCHANGED RxBusy /\ call[t].pc \notin {"headwait", "bodywait"}
  PROVE  IInv'
<1> DEFINE p == IF lock = t THEN "locked" ELSE "idle"
           c == [Idle EXCEPT !.pc = p]
<1>1. c \in Calls /\ c.pc = p /\ c.alone = FALSE
  <2>1. p \in Places
    BY DEF Places
  <2> HIDE DEF p
  <2> QED  BY <2>1, IdleCall DEF Calls
<1>2. call' = [call EXCEPT ![t] = c] /\ clean' \in BOOLEAN /\ stray' = stray
  BY DEF End
<1>3. Types
  BY DEF IInv
<1>4. RxBusy' \in BOOLEAN
  BY <1>3 DEF Types
<1>5. p \in {"idle", "locked"}
  OBVIOUS
<1> HIDE DEF c, p
<1>6. RxBusy' => \/ c.pc \in {"headwait", "bodywait"}
                 \/ RxBusy /\ call[t].pc \notin {"headwait", "bodywait"}
  OBVIOUS
<1>7. /\ c.pc \in Reads \/ (c.pc \in {"idle", "locked"} /\ c.alone = FALSE)
      /\ c.alone => call[t].alone /\ c.whole = call[t].whole
      /\ c.alone => clean' = clean
      /\ c.alone /\ ~stray /\ c.whole = 0 => Quiet(t)'
  BY <1>1, <1>5
<1>8. UNCHANGED <<lock, wBuf, wLen, TxXferCount, line, due, late, wire, stray>>
  BY <1>2
<1> QED  BY <1>1, <1>2, <1>4, <1>6, <1>7, <1>8, ReadInv

LEMMA ReceiveInv == ASSUME IInv, NEW t \in Tasks, HAL_UART_Receive(t) PROVE IInv'
<1>1. call[t].pc \in {"head", "body"} /\ call[t].pc \in Reads
  BY DEF HAL_UART_Receive, At, Reads
<1>2. UNCHANGED <<lock, wBuf, wLen, TxBusy, TxXferCount, cmds, line, due, late, wire, rdr>>
  BY DEF HAL_UART_Receive
<1>3. CASE RxBusy
  <2>1. End(t, FALSE) /\ UNCHANGED RxBusy
    BY <1>3 DEF HAL_UART_Receive
  <2> QED  BY <1>1, <1>2, <2>1, EndInv
<1>4. CASE ~RxBusy
  <2> DEFINE p == IF call[t].pc = "head" THEN "headwait" ELSE "bodywait"
             c == [call[t] EXCEPT !.pc = p]
  <2>1. /\ call[t] \in Calls /\ call \in [Tasks -> Calls] /\ Types
        /\ call[t].alone /\ ~stray /\ call[t].whole = 0 => Quiet(t)
    BY <1>1, InCallFacts DEF InCall
  <2>2. RxBusy' = TRUE /\ UNCHANGED histVars /\ call' = [call EXCEPT ![t] = c]
    BY <1>4, <2>1 DEF HAL_UART_Receive
  <2>3. /\ c \in Calls /\ c.pc = p /\ c.alone = call[t].alone /\ c.whole = call[t].whole
        /\ c.at = call[t].at /\ c.prev = call[t].prev
    <3>1. p \in Places
      BY DEF Places
    <3> HIDE DEF p
    <3> QED  BY <2>1, <3>1 DEF Calls
  <2> HIDE DEF c
  <2>4. ASSUME c.alone, ~stray, c.whole = 0 PROVE Quiet(t)'
    <3>1. Quiet(t)
      BY <2>1, <2>3, <2>4
    <3>2. call[t].pc = "head" /\ p = "headwait"
      BY <1>1, <3>1 DEF Quiet
    <3>3. /\ call'[t].pc = "headwait" /\ call'[t].at = call[t].at
          /\ call'[t].prev = call[t].prev
      BY <2>1, <2>2, <2>3, <3>2
    <3> QED  BY <1>2, <3>1, <3>2, <3>3 DEF Quiet
  <2>5. p \in {"headwait", "bodywait"} /\ p \in Reads
    BY DEF Reads
  <2>6. clean \in BOOLEAN /\ UNCHANGED <<clean, stray>>
    BY <2>1, <2>2 DEF Types, histVars
  <2> HIDE DEF p
  <2> QED  BY <1>1, <1>2, <2>2, <2>3, <2>4, <2>5, <2>6, ReadInv
<1> QED  BY <1>3, <1>4

LEMMA CheckHeadInv == ASSUME IInv, NEW t \in Tasks, checkHead(t) PROVE IInv'
<1> DEFINE found == rdr = 255 /\ call[t].prev = 255
           p == IF found THEN "body" ELSE "head"
           c == [[[call[t] EXCEPT !.pc = p] EXCEPT !.prev = rdr] EXCEPT !.at = call[t].at + 1]
<1>1. call[t].pc = "headwait" /\ call[t].pc \in Reads /\ InCall(t) /\ rdr # None
  BY DEF checkHead, At, Reads, InCall
<1>2. /\ call[t] \in Calls /\ call \in [Tasks -> Calls] /\ Types
      /\ call[t].alone /\ ~stray /\ call[t].whole = 0 => Quiet(t)
  BY <1>1, InCallFacts
<1>3. /\ UNCHANGED <<lock, wBuf, wLen, TxBusy, TxXferCount, cmds, line, due, late, wire>>
      /\ rdr' = None /\ RxBusy' = FALSE
  BY DEF checkHead
<1>4. CASE ~found /\ call[t].at = Skips
  <2>1. End(t, FALSE)
    BY <1>4 DEF checkHead
  <2> QED  BY <1>1, <1>3, <2>1, EndInv
<1>5. CASE ~(~found /\ call[t].at = Skips)
  <2>1. call' = [call EXCEPT ![t] = c] /\ UNCHANGED histVars
    BY <1>2, <1>5 DEF checkHead
  <2>2. /\ c \in Calls /\ c.pc = p /\ c.alone = call[t].alone /\ c.whole = call[t].whole
        /\ c.at = call[t].at + 1 /\ c.prev = rdr
    <3>1. p \in Places
      BY DEF Places
    <3>2. rdr \in Byte /\ call[t].at + 1 \in Nat
      BY <1>1, <1>2 DEF Types, Calls
    <3> HIDE DEF p
    <3> QED  BY <1>2, <3>1, <3>2 DEF Calls
  <2> HIDE DEF c
  <2>3. ASSUME c.alone, ~stray, c.whole = 0 PROVE Quiet(t)'
    <3>1. Quiet(t)
      BY <1>2, <2>2, <2>3
    <3>2. call[t].at \in Nat /\ call[t].prev = 0
      BY <1>1, <1>2, <3>1 DEF Quiet, Calls
    <3>3. p = "head" /\ call[t].at + 1 > 0
      BY <3>2
    <3>4. call'[t].pc = "head" /\ call'[t].at > 0
      BY <1>2, <2>1, <2>2, <3>3
    <3>5. /\ \A i \in Ids : due[i] = 0 /\ late[i] = 0
          /\ wire = <<>>
      BY <1>1, <3>1 DEF Quiet
    <3> HIDE DEF p, found
    <3> QED  BY <1>3, <3>4, <3>5 DEF Quiet
  <2>4. p \in {"head", "body"} /\ p \in Reads
    BY DEF Reads
  <2>5. clean \in BOOLEAN /\ UNCHANGED <<clean, stray>>
    BY <1>2, <2>1 DEF Types, histVars
  <2> HIDE DEF p, found
  <2> QED  BY <1>1, <1>3, <2>1, <2>2, <2>3, <2>4, <2>5, ReadInv
<1> QED  BY <1>4, <1>5

LEMMA AckInv == ASSUME IInv, NEW t \in Tasks, Ack(t) PROVE IInv'
<1> DEFINE got == Append(call[t].got, rdr)
           c == [call[t] EXCEPT !.got = got]
<1>1. call[t].pc = "bodywait" /\ call[t].pc \in Reads /\ InCall(t) /\ rdr # None
  BY DEF Ack, At, Reads, InCall
<1>2. /\ call[t] \in Calls /\ call \in [Tasks -> Calls] /\ Types
      /\ call[t].alone /\ ~stray /\ call[t].whole = 0 => Quiet(t)
  BY <1>1, InCallFacts
<1>3. /\ UNCHANGED <<lock, wBuf, wLen, TxBusy, TxXferCount, cmds, line, due, late, wire>>
      /\ rdr' = None
  BY DEF Ack
<1>4. CASE Len(got) = 4
  <2>1. PICK ok : End(t, ok) /\ RxBusy' = FALSE
    BY <1>4 DEF Ack
  <2> QED  BY <1>1, <1>3, <2>1, EndInv
<1>5. CASE Len(got) # 4
  <2>1. call' = [call EXCEPT ![t] = c] /\ UNCHANGED <<RxBusy, histVars>>
    BY <1>2, <1>5 DEF Ack
  <2>2. /\ c \in Calls /\ c.pc = call[t].pc /\ c.alone = call[t].alone
        /\ c.whole = call[t].whole
    <3>1. got \in Seq(Byte)
      BY <1>1, <1>2 DEF Types, Calls
    <3> HIDE DEF got
    <3> QED  BY <1>2, <3>1 DEF Calls
  <2> HIDE DEF c, got
  <2>3. ~(c.alone /\ ~stray /\ c.whole = 0)
    BY <1>1, <1>2, <2>2 DEF Quiet
  <2>4. /\ clean \in BOOLEAN /\ UNCHANGED <<clean, stray>>
        /\ RxBusy' \in BOOLEAN /\ c.pc \in {"headwait", "bodywait"}
    BY <1>1, <1>2, <2>1, <2>2 DEF Types, histVars
  <2> QED  BY <1>1, <1>3, <2>1, <2>2, <2>3, <2>4, ReadInv
<1> QED  BY <1>4, <1>5

LEMMA TimeoutInv == ASSUME IInv, NEW t \in Tasks, Timeout(t) PROVE IInv'
<1>1. call[t].pc \in Reads
  BY DEF Timeout, At, Reads
<1>2. /\ End(t, FALSE) /\ TxBusy' = FALSE /\ RxBusy' = FALSE
      /\ UNCHANGED <<lock, wBuf, wLen, TxXferCount, cmds, line, due, late, wire, rdr>>
  BY DEF Timeout
<1> QED  BY <1>1, <1>2, EndInv
-------------------------------------------------------------------------------
(* The servos and the line.                                                  *)

\* A step of the servos or the line leaves the calls and the frame alone.
LEMMA LineStepInv ==
  ASSUME IInv, UNCHANGED <<lock, call, bufVars, boots, cmds, line>>,
         NoFault \/ Fault,
         due' \in [Ids -> Nat], late' \in [Ids -> Nat], wire' \in Seq(Byte),
         rdr' \in Byte \cup {None},
         \A t \in Tasks : Quiet(t) => Quiet(t)'
  PROVE  IInv'
<1>1. Types /\ InUse /\ AloneInv /\ FrameInv /\ QuietInv
  BY DEF IInv
<1>2. /\ clean' \in BOOLEAN /\ stray' = stray /\ stray \in BOOLEAN
      /\ clean' => clean
  <2>1. clean \in BOOLEAN /\ stray \in BOOLEAN
    BY <1>1 DEF Types
  <2>2. CASE NoFault
    BY <2>1, <2>2 DEF NoFault, histVars
  <2>3. CASE Fault
    BY <2>1, <2>3 DEF Fault
  <2> QED  BY <2>2, <2>3
<1>3. Types'
  BY <1>1, <1>2 DEF Types, bufVars
<1>4. InUse' /\ AloneInv'
  BY <1>1 DEF InUse, AloneInv, InCall, bufVars
<1>5. ASSUME NEW t \in Tasks, Frame(t) PROVE Frame(t)'
  BY <1>2, <1>5 DEF Frame, Filled, bufVars
<1>6. FrameInv'
  BY <1>1, <1>5 DEF FrameInv
<1>7. QuietInv'
  BY <1>1, <1>2 DEF QuietInv
<1> QED  BY <1>3, <1>4, <1>6, <1>7 DEF IInv

LEMMA DelayInv == ASSUME IInv, NEW i \in Ids, Delay(i) PROVE IInv'
<1>1. /\ due \in [Ids -> Nat] /\ late \in [Ids -> Nat] /\ due[i] > 0
      /\ wire \in Seq(Byte) /\ rdr \in Byte \cup {None}
  BY DEF IInv, Types, Delay
<1>2. due' \in [Ids -> Nat] /\ late' \in [Ids -> Nat]
  BY <1>1 DEF Delay
<1>3. \A t \in Tasks : ~Quiet(t)
  BY <1>1 DEF Quiet
<1> QED  BY <1>1, <1>2, <1>3, LineStepInv DEF Delay

LEMMA ServoAnswersInv == ASSUME IInv, NEW i \in Ids, ServoAnswers(i) PROVE IInv'
<1>1. /\ due \in [Ids -> Nat] /\ late \in [Ids -> Nat]
      /\ wire \in Seq(Byte) /\ rdr \in Byte \cup {None}
  BY DEF IInv, Types
<1>2. due' \in [Ids -> Nat] /\ late' \in [Ids -> Nat]
  BY <1>1 DEF ServoAnswers
<1>3. \A t \in Tasks : ~Quiet(t)
  BY <1>1 DEF ServoAnswers, Quiet
<1>4. wire' \in Seq(Byte)
  <2>1. Answer(i) \in Seq(Byte)
    BY AnswerBytes
  <2>2. wire' = wire \o Answer(i) \/ wire' = wire
    BY DEF ServoAnswers
  <2>3. \A a \in Seq(Byte) : wire \o a \in Seq(Byte)
    BY <1>1
  <2> QED  BY <1>1, <2>1, <2>2, <2>3
<1>5. NoFault \/ Fault
  BY DEF ServoAnswers
<1>6. UNCHANGED <<lock, call, bufVars, boots, cmds, line, rdr>>
  BY DEF ServoAnswers
<1> QED  BY <1>1, <1>2, <1>3, <1>4, <1>5, <1>6, LineStepInv

LEMMA ArriveInv == ASSUME IInv, Arrive PROVE IInv'
<1>1. /\ due \in [Ids -> Nat] /\ late \in [Ids -> Nat]
      /\ wire \in Seq(Byte) /\ rdr \in Byte \cup {None} /\ wire # <<>>
  BY DEF IInv, Types, Arrive
<1>2. wire' \in Seq(Byte) /\ Head(wire) \in Byte
  BY <1>1 DEF Arrive
<1>3. rdr' \in Byte \cup {None}
  BY <1>1, <1>2, BytesAssumption DEF Arrive, Byte
<1>4. UNCHANGED <<lock, call, bufVars, boots, cmds, line, due, late>> /\ (NoFault \/ Fault)
  BY DEF Arrive
<1>5. ASSUME NEW t \in Tasks, Quiet(t) PROVE Quiet(t)'
  BY <1>1, <1>4, <1>5 DEF Quiet
<1> QED  BY <1>1, <1>2, <1>3, <1>4, <1>5, LineStepInv
-------------------------------------------------------------------------------
(* A cell goes out.                                                          *)

\* Of the line and the next cell.
LEMMA TwoCells ==
  ASSUME NEW a, NEW b
  PROVE  /\ Append(<<>>, b) = <<b>> /\ Append(<<a>>, b) = <<a, b>>
         /\ Len(<<b>>) = 1 /\ Len(<<a, b>>) = 2 /\ Tail(<<a, b>>) = <<b>>
         /\ <<a, b>>[1] = a /\ <<a, b>>[2] = b
<1>1. /\ Len(<<b>>) = 1 /\ Len(<<a, b>>) = 2
      /\ <<a, b>>[1] = a /\ <<a, b>>[2] = b
  OBVIOUS
<1>2. Append(<<>>, b) = <<b>>
  OBVIOUS
<1>3. Append(<<a>>, b) = <<a, b>>
  <2>1. <<a>> \in Seq({a, b}) /\ <<a, b>> \in Seq({a, b}) /\ b \in {a, b}
    OBVIOUS
  <2>2. /\ Append(<<a>>, b) \in Seq({a, b}) /\ Len(Append(<<a>>, b)) = 2
        /\ Append(<<a>>, b)[1] = a /\ Append(<<a>>, b)[2] = b
    BY <2>1
  <2>3. \A i \in 1..2 : Append(<<a>>, b)[i] = <<a, b>>[i]
    BY <1>1, <2>2
  <2> QED  BY <1>1, <2>1, <2>2, <2>3, SeqEqual
<1>4. Tail(<<a, b>>) = <<b>>
  OBVIOUS
<1> QED  BY <1>1, <1>2, <1>3, <1>4

\* The servos take a command when its last cell follows its first.
Whole(cell) ==
  LET seen == Append(line, cell)
  IN  /\ Len(seen) = 2 /\ cell # None
      /\ \A k \in 1..2 : seen[k] = <<cell[1], k>>

LEMMA TakeTypes ==
  ASSUME IInv, NEW t \in Tasks, call[t].pc = "send", NEW cell, Take(t, cell)
  PROVE  /\ call' \in [Tasks -> Calls]
         /\ line' = <<>> \/ line' = <<line'[1]>>
         /\ due' \in [Ids -> Nat] /\ (~Whole(cell) => due' = due)
         /\ \A u \in Tasks :
              /\ call'[u].whole = IF Whole(cell) /\ cell[1] = call[u].id
                                  THEN call[u].whole + 1 ELSE call[u].whole
              /\ call'[u].pc = IF u = t THEN "test" ELSE call[u].pc
              /\ call'[u].at = IF u = t /\ call[u].at <= Room
                               THEN call[u].at + 1 ELSE call[u].at
              /\ call'[u].id = call[u].id /\ call'[u].alone = call[u].alone
              /\ call'[u].prev = call[u].prev /\ call'[u].got = call[u].got
<1>1. Types
  BY DEF IInv
<1> DEFINE w(u) == IF Whole(cell) /\ cell[1] = call[u].id
                   THEN call[u].whole + 1 ELSE call[u].whole
           p(u) == IF u = t THEN "test" ELSE call[u].pc
           n(u) == IF u = t /\ call[u].at <= Room THEN call[u].at + 1 ELSE call[u].at
<1>2. call' = [u \in Tasks |-> [call[u] EXCEPT !.whole = w(u), !.pc = p(u), !.at = n(u)]]
  BY DEF Take, Whole
<1>3. \A u \in Tasks : call[u] \in Calls /\ w(u) \in Nat /\ p(u) \in Places /\ n(u) \in Nat
  BY <1>1 DEF Types, Calls, Places
<1> HIDE DEF w, p, n
<1>4. ASSUME NEW u \in Tasks
      PROVE  /\ call'[u] \in Calls /\ call'[u].whole = w(u) /\ call'[u].pc = p(u)
             /\ call'[u].at = n(u) /\ call'[u].id = call[u].id
             /\ call'[u].alone = call[u].alone /\ call'[u].prev = call[u].prev
             /\ call'[u].got = call[u].got
  <2>1. call'[u] = [call[u] EXCEPT !.whole = w(u), !.pc = p(u), !.at = n(u)]
    BY <1>2
  <2>2. call[u] \in Calls /\ w(u) \in Nat /\ p(u) \in Places /\ n(u) \in Nat
    BY <1>3
  <2>3. [call[u] EXCEPT !.whole = w(u)] \in Calls
    BY <2>2 DEF Calls
  <2>4. [[call[u] EXCEPT !.whole = w(u)] EXCEPT !.pc = p(u)] \in Calls
    BY <2>2, <2>3 DEF Calls
  <2>5. [[[call[u] EXCEPT !.whole = w(u)] EXCEPT !.pc = p(u)] EXCEPT !.at = n(u)] \in Calls
    BY <2>2, <2>4 DEF Calls
  <2>6. /\ call'[u].whole = w(u) /\ call'[u].pc = p(u) /\ call'[u].at = n(u)
        /\ call'[u].id = call[u].id /\ call'[u].alone = call[u].alone
        /\ call'[u].prev = call[u].prev /\ call'[u].got = call[u].got
    BY <2>1, <2>2 DEF Calls
  <2> QED  BY <2>1, <2>5, <2>6
<1>5. call' \in [Tasks -> Calls]
  BY <1>2, <1>4
<1>6. line' = <<>> \/ line' = <<line'[1]>>
  <2> DEFINE seen == Append(line, cell)
  <2>1. line' = <<>> \/ line' = IF Len(seen) = 2 THEN Tail(seen) ELSE seen
    BY DEF Take
  <2>2. CASE line = <<>>
    <3>1. seen = <<cell>>
      BY <2>2
    <3> QED  BY <2>1, <3>1
  <2>3. CASE line = <<line[1]>>
    <3> SUFFICES ASSUME NEW a, line = <<a>> PROVE line' = <<>> \/ line' = <<line'[1]>>
      BY <2>3
    <3>1. seen = <<a, cell>>
      BY TwoCells
    <3> QED  BY <2>1, <3>1, TwoCells
  <2> QED  BY <1>1, <2>2, <2>3 DEF Types
<1>7. due' \in [Ids -> Nat] /\ (~Whole(cell) => due' = due)
  <2>1. due' = IF Whole(cell) /\ cell[1] \in Ids THEN [due EXCEPT ![cell[1]] = @ + 1] ELSE due
    BY DEF Take, Whole
  <2>2. due \in [Ids -> Nat]
    BY <1>1 DEF Types
  <2> QED  BY <2>1, <2>2
<1> QED  BY <1>4, <1>5, <1>6, <1>7 DEF w, p, n

LEMMA SendInv == ASSUME IInv, NEW t \in Tasks, Send(t) PROVE IInv'
<1>1. call[t].pc = "send" /\ InCall(t) /\ wire = <<>>
  BY DEF Send, At, InCall
<1>2. /\ call[t] \in Calls /\ Types /\ InUse
      /\ call[t].alone => Frame(t)
      /\ call[t].alone /\ ~stray /\ call[t].whole = 0 => Quiet(t)
  BY <1>1, InCallFacts
<1>3. PICK cell : /\ Take(t, cell)
                  /\ \/ cell = CellAt(call[t].at + 1) /\ NoFault
                     \/ cell = None /\ Fault
  BY DEF Send
<1>4. /\ TxXferCount' = IF TxXferCount = 0 THEN CountMax ELSE TxXferCount - 1
      /\ UNCHANGED <<lock, wBuf, wLen, TxBusy, RxBusy, boots, cmds, late, wire, rdr>>
  BY DEF Send
<1>5. /\ call' \in [Tasks -> Calls]
      /\ line' = <<>> \/ line' = <<line'[1]>>
      /\ due' \in [Ids -> Nat] /\ (~Whole(cell) => due' = due)
      /\ \A u \in Tasks :
           /\ call'[u].whole = IF Whole(cell) /\ cell[1] = call[u].id
                               THEN call[u].whole + 1 ELSE call[u].whole
           /\ call'[u].pc = IF u = t THEN "test" ELSE call[u].pc
           /\ call'[u].at = IF u = t /\ call[u].at <= Room
                            THEN call[u].at + 1 ELSE call[u].at
           /\ call'[u].id = call[u].id /\ call'[u].alone = call[u].alone
           /\ call'[u].prev = call[u].prev
  BY <1>1, <1>3, TakeTypes
<1>6. clean' \in BOOLEAN /\ stray' = stray /\ stray' \in BOOLEAN
  BY <1>2, <1>3 DEF NoFault, Fault, histVars, Types
<1>7. Types'
  <2>1. TxXferCount' \in 0..CountMax
    BY <1>2, <1>4, SizesAssumption DEF Types
  <2> QED  BY <1>2, <1>4, <1>5, <1>6, <2>1 DEF Types
<1>8. InUse'
  BY <1>1, <1>2, <1>4, <1>5 DEF InUse
<1>9. \A u \in Tasks : call'[u].alone => u = t /\ call[t].alone
  BY <1>1, <1>5, Alone
<1>10. AloneInv'
  BY <1>1, <1>5 DEF IInv, AloneInv, InCall
<1>11. ASSUME call[t].alone PROVE Frame(t)' /\ (call'[t].whole = 0 => ~Whole(cell))
  <2>1. /\ Filled(t, 2) /\ TxXferCount + call[t].at = 2 /\ call[t].at < 2
        /\ call[t].whole = 0
        /\ call[t].at = 1 /\ clean => line = <<<<call[t].id, 1>>>>
    BY <1>1, <1>2, <1>11 DEF Frame
  <2>2. call[t].at \in 0..1 /\ Room \in Nat /\ 2 <= Room
    BY <1>2, <2>1, SizesAssumption DEF Calls
  <2>3. /\ call'[t].at = call[t].at + 1 /\ call'[t].pc = "test"
        /\ TxXferCount' + call'[t].at = 2
    BY <1>2, <1>4, <1>5, <2>1, <2>2 DEF Types
  <2>4. Filled(t, 2)'
    BY <1>4, <1>5, <2>1 DEF Filled
  <2>5. \/ cell = <<call[t].id, call[t].at + 1>> /\ cell # None /\ NoFault
        \/ cell = None /\ Fault
    <3>1. CellAt(call[t].at + 1) = <<call[t].id, call[t].at + 1>>
      BY <2>1, <2>2 DEF CellAt, Filled
    <3>2. <<call[t].id, call[t].at + 1>> \in (0..253) \X {1, 2}
      <4>1. call[t].id \in 0..253 /\ call[t].at + 1 \in {1, 2}
        BY <1>2, <2>2 DEF Calls
      <4> QED  BY <4>1
    <3> QED  BY <1>3, <3>1, <3>2, BytesAssumption
  <2>6. Whole(cell) => cell[1] = call[t].id
    BY <2>5 DEF Whole
  <2>7. call'[t].whole = IF Whole(cell) THEN 1 ELSE 0
    BY <1>5, <2>1, <2>6
  <2>8. CASE call[t].at = 0
    <3>1. ~Whole(cell)
      <4>1. ASSUME Whole(cell) PROVE FALSE
        <5>1. cell = <<call[t].id, 1>> /\ Len(Append(line, cell)) = 2
              /\ Append(line, cell)[2] = <<cell[1], 2>>
          BY <2>5, <2>8, <4>1 DEF Whole
        <5>2. line = <<line[1]>>
          BY <1>2, <5>1 DEF Types
        <5>3. Append(line, cell)[2] = cell
          <6> SUFFICES ASSUME NEW a, line = <<a>> PROVE Append(line, cell)[2] = cell
            BY <5>2
          <6> QED  BY TwoCells
        <5> QED  BY <5>1, <5>3
      <4> QED  BY <4>1
    <3>2. clean' => line' = <<<<call'[t].id, 1>>>>
      <4>1. ASSUME clean' PROVE line' = <<<<call'[t].id, 1>>>>
        <5>1. cell = <<call[t].id, 1>>
          BY <2>5, <2>8, <4>1 DEF Fault
        <5>2. line' = IF Len(Append(line, cell)) = 2 THEN Tail(Append(line, cell))
                      ELSE Append(line, cell)
          BY <1>3, <3>1 DEF Take, Whole
        <5>3. line' = <<cell>>
          <6>1. CASE line = <<>>
            BY <5>2, <6>1
          <6>2. CASE line = <<line[1]>>
            <7> SUFFICES ASSUME NEW a, line = <<a>> PROVE line' = <<cell>>
              BY <6>2
            <7>1. Append(line, cell) = <<a, cell>>
              BY TwoCells
            <7> QED  BY <5>2, <7>1, TwoCells
          <6> QED  BY <1>2, <6>1, <6>2 DEF Types
        <5> QED  BY <1>5, <5>1, <5>3
      <4> QED  BY <4>1
    <3> QED  BY <2>3, <2>4, <2>7, <2>8, <3>1, <3>2 DEF Frame
  <2>9. CASE call[t].at = 1
    <3>1. clean' => Whole(cell)
      <4>1. ASSUME clean' PROVE Whole(cell)
        <5>1. NoFault /\ cell = <<call[t].id, 2>> /\ cell # None
          BY <2>5, <2>9, <4>1 DEF Fault
        <5>2. clean
          BY <4>1, <5>1 DEF NoFault, histVars
        <5>3. line = <<<<call[t].id, 1>>>>
          BY <2>1, <2>9, <5>2
        <5>4. Append(line, cell) = <<<<call[t].id, 1>>, <<call[t].id, 2>>>>
          BY <5>1, <5>3, TwoCells
        <5>5. cell[1] = call[t].id
          BY <5>1
        <5> DEFINE seen == Append(line, cell)
        <5>6. Len(seen) = 2 /\ seen[1] = <<cell[1], 1>> /\ seen[2] = <<cell[1], 2>>
          BY <5>4, <5>5, TwoCells
        <5> HIDE DEF seen
        <5>7. \A k \in 1..2 : seen[k] = <<cell[1], k>>
          <6>1. 1..2 = {1, 2}
            OBVIOUS
          <6> QED  BY <5>6, <6>1
        <5> QED  BY <5>1, <5>6, <5>7 DEF Whole, seen
      <4> QED  BY <4>1
    <3> QED  BY <2>3, <2>4, <2>7, <2>9, <3>1 DEF Frame
  <2> QED  BY <2>2, <2>8, <2>9, <2>7
<1>12. FrameInv'
  BY <1>9, <1>11 DEF FrameInv
<1>13. ASSUME call[t].alone, ~stray', call'[t].whole = 0 PROVE Quiet(t)'
  <2>1. ~Whole(cell) /\ call[t].whole = 0
    BY <1>1, <1>2, <1>11, <1>13 DEF Frame
  <2>2. Quiet(t)
    BY <1>2, <1>6, <1>13, <2>1
  <2>3. call'[t].prev = 0 /\ call'[t].pc = "test" /\ UNCHANGED <<due, late, wire>>
    BY <1>1, <1>4, <1>5, <2>1, <2>2 DEF Quiet
  <2> QED  BY <1>1, <2>2, <2>3 DEF Quiet
<1>14. QuietInv'
  BY <1>9, <1>13 DEF QuietInv
<1> QED  BY <1>7, <1>8, <1>10, <1>12, <1>14 DEF IInv
-------------------------------------------------------------------------------
(* What it implies.                                                          *)

\* The invariant holds whatever the tasks, the servos and the line do.
THEOREM BusIsKept == Spec => []IInv
<1>1. IInv /\ [Next]_vars => IInv'
  <2> SUFFICES ASSUME IInv, [Next]_vars PROVE IInv'
    OBVIOUS
  <2>1. ASSUME NEW t \in Tasks, xSemaphoreTake(t) \/ xSemaphoreGive(t) \/ WritePos(t)
        PROVE  IInv'
    BY <2>1, LockInv, WritePosInv
  <2>2. ASSUME NEW t \in Tasks, Run(t) PROVE IInv'
    BY <2>2, WriteBufInv, FlushInv, TestInv, SendInv, ReceiveInv, CheckHeadInv, AckInv,
       TimeoutInv DEF Run
  <2>3. CASE StartServoTask
    BY <2>3, StartServoTaskInv
  <2>4. ASSUME NEW i \in Ids, Delay(i) \/ ServoAnswers(i) PROVE IInv'
    BY <2>4, DelayInv, ServoAnswersInv
  <2>5. CASE Arrive
    BY <2>5, ArriveInv
  <2>6. CASE UNCHANGED vars
    <3>1. UNCHANGED <<lock, call, bufVars, busVars, histVars>>
      BY <2>6 DEF vars
    <3>2. Types' /\ InUse' /\ AloneInv'
      BY <3>1 DEF bufVars, busVars, histVars, IInv, Types, InUse, AloneInv, InCall
    <3>3. FrameInv'
      BY <3>1 DEF bufVars, busVars, histVars, IInv, FrameInv, Frame, Filled
    <3>4. QuietInv'
      BY <3>1 DEF busVars, histVars, IInv, QuietInv, Quiet
    <3> QED  BY <3>2, <3>3, <3>4 DEF IInv
  <2> QED  BY <2>1, <2>2, <2>3, <2>4, <2>5, <2>6 DEF Next
<1> QED  BY <1>1, InitInv, PTL DEF Spec

\* The buffer and its counter stay within bounds, and nothing is in use that no task uses.
THEOREM TypeCorrect == Spec => []TypeOK
<1>1. IInv => TypeOK
  <2> SUFFICES ASSUME IInv PROVE TypeOK
    OBVIOUS
  <2>1. (\A t \in Tasks : ~InCall(t)) => wLen = 0 /\ ~TxBusy /\ ~RxBusy
    BY DEF IInv, InUse, InCall
  <2> QED  BY <2>1 DEF TypeOK, IInv, Types, Byte
<1> QED  BY <1>1, BusIsKept, PTL

\* A call returns from a step of its reading, and with a good answer only from its last
\* byte.
LEMMA ReturnStep ==
  ASSUME IInv, Next, NEW t \in Tasks, Returns(t)
  PROVE  /\ call[t].pc \in Reads /\ (call[t].pc # "bodywait" => acked' = FALSE)
         /\ HAL_UART_Receive(t) \/ checkHead(t) \/ Ack(t) \/ Timeout(t)
<1>1. call \in [Tasks -> Calls] /\ InCall(t) /\ call'[t].pc \in {"idle", "locked"}
  BY DEF IInv, Types, Returns
<1>2. call'[t] # call[t] /\ call[t].pc \notin {"idle", "locked"}
  BY <1>1 DEF InCall
<1>3. ASSUME NEW u \in Tasks, xSemaphoreTake(u) \/ xSemaphoreGive(u) PROVE FALSE
  BY <1>1, <1>2, <1>3 DEF xSemaphoreTake, xSemaphoreGive, At
<1>4. ASSUME NEW u \in Tasks, NEW i \in 0..253, Begin(u, i) PROVE FALSE
  <2>1. call'[t].pc = "fill" \/ call'[t].pc = call[t].pc
    <3>1. CASE u = t
      <4>1. call'[t] = [Idle EXCEPT !.pc = "fill", !.id = i,
                                    !.alone = \A v \in Tasks : ~InCall(v)]
        BY <1>4, <3>1, BeginTypes DEF IInv
      <4> QED  BY <4>1, IdleCall DEF Idle
    <3>2. CASE u # t
      BY <1>4, <3>2, BeginTypes DEF IInv
    <3> QED  BY <3>1, <3>2
  <2> QED  BY <1>1, <1>2, <2>1
<1>5. ASSUME NEW u \in Tasks, writeBuf(u) PROVE FALSE
  BY <1>1, <1>2, <1>5 DEF writeBuf, Calls
<1>6. ASSUME NEW u \in Tasks, wFlushSCS(u) PROVE FALSE
  BY <1>1, <1>2, <1>6 DEF wFlushSCS, Calls
<1>7. ASSUME NEW u \in Tasks, Test(u) PROVE FALSE
  BY <1>1, <1>2, <1>7 DEF Test, Calls
<1>8. ASSUME NEW u \in Tasks, Send(u) PROVE FALSE
  <2>1. call[u].pc = "send" /\ \E cell : Take(u, cell)
    BY <1>8 DEF Send, At
  <2>2. call'[t].pc = IF t = u THEN "test" ELSE call[t].pc
    BY <2>1, TakeTypes
  <2> QED  BY <1>1, <1>2, <2>2
<1>9. ASSUME NEW u \in Tasks, NEW ok, End(u, ok) PROVE u = t /\ acked' = ok
  BY <1>1, <1>2, <1>9 DEF End
<1>10. ASSUME NEW u \in Tasks, HAL_UART_Receive(u)
       PROVE  u = t /\ call[t].pc \in {"head", "body"} /\ acked' = FALSE
  <2>1. CASE End(u, FALSE)
    BY <1>9, <1>10, <2>1 DEF HAL_UART_Receive, At
  <2>2. CASE call' = [call EXCEPT ![u].pc = IF @ = "head" THEN "headwait" ELSE "bodywait"]
    BY <1>1, <1>2, <2>2 DEF Calls
  <2> QED  BY <1>10, <2>1, <2>2 DEF HAL_UART_Receive
<1>11. ASSUME NEW u \in Tasks, checkHead(u)
       PROVE  u = t /\ call[t].pc = "headwait" /\ acked' = FALSE
  <2>1. CASE End(u, FALSE)
    BY <1>9, <1>11, <2>1 DEF checkHead, At
  <2>2. CASE ~End(u, FALSE)
    <3>1. PICK p \in {"body", "head"} :
            call' = [call EXCEPT ![u].pc = p, ![u].prev = rdr, ![u].at = @ + 1]
      BY <1>11, <2>2 DEF checkHead
    <3> QED  BY <1>1, <1>2, <3>1 DEF Calls
  <2> QED  BY <2>1, <2>2
<1>12. ASSUME NEW u \in Tasks, Ack(u) PROVE u = t /\ call[t].pc = "bodywait"
  <2>1. CASE \E ok : End(u, ok)
    BY <1>9, <1>12, <2>1 DEF Ack, At
  <2>2. CASE call' = [call EXCEPT ![u].got = Append(call[u].got, rdr)]
    BY <1>1, <1>2, <2>2 DEF Calls
  <2> QED  BY <1>12, <2>1, <2>2 DEF Ack
<1>13. ASSUME NEW u \in Tasks, Timeout(u)
       PROVE  u = t /\ call[t].pc \in Reads /\ acked' = FALSE
  BY <1>9, <1>13 DEF Timeout, At, Reads
<1>14. ASSUME UNCHANGED call PROVE FALSE
  BY <1>2, <1>14
<1>15. ASSUME NEW u \in Tasks, WritePos(u) PROVE FALSE
  BY <1>4, <1>15, IdsAssumption DEF WritePos
<1>16. ASSUME StartServoTask PROVE FALSE
  BY <1>4, <1>16, IdsAssumption DEF StartServoTask, Tasks
<1>17. ASSUME (\E i \in Ids : Delay(i) \/ ServoAnswers(i)) \/ Arrive PROVE FALSE
  BY <1>14, <1>17 DEF Delay, ServoAnswers, Arrive
<1>18. ASSUME NEW u \in Tasks, Run(u)
       PROVE  /\ call[t].pc \in Reads /\ (call[t].pc # "bodywait" => acked' = FALSE)
              /\ HAL_UART_Receive(t) \/ checkHead(t) \/ Ack(t) \/ Timeout(t)
  BY <1>5, <1>6, <1>7, <1>8, <1>10, <1>11, <1>12, <1>13, <1>18 DEF Run, Reads
<1> QED  BY <1>3, <1>15, <1>16, <1>17, <1>18 DEF Next

\* A command that has the bus to itself goes out whole and once, unless the line
\* disturbed it.
THEOREM CommandsSentOnce == Spec => SentOnce
<1> DEFINE A == \A t \in Tasks : Returns(t) /\ call[t].alone =>
                  call[t].whole = 1 \/ (~clean /\ call[t].whole = 0)
<1>1. IInv /\ [Next]_vars => [A]_vars
  <2> SUFFICES ASSUME IInv, Next, NEW t \in Tasks, Returns(t), call[t].alone
               PROVE  call[t].whole = 1 \/ (~clean /\ call[t].whole = 0)
    OBVIOUS
  <2>1. call[t].pc \in Reads
    BY ReturnStep
  <2> QED  BY <2>1, InCallFacts DEF Returns, Frame, Reads
<1> QED  BY <1>1, BusIsKept, PTL DEF Spec, SentOnce

\* An Ack of 1 means that a servo has taken this command, unless an older answer was
\* still to come.
THEOREM AckedWasTaken == Spec => AckMeansTaken
<1> DEFINE A == \A t \in Tasks : Returns(t) /\ call[t].alone /\ ~stray /\ acked' =>
                  call[t].whole = 1
<1>1. IInv /\ [Next]_vars => [A]_vars
  <2> SUFFICES ASSUME IInv, Next, NEW t \in Tasks, Returns(t), call[t].alone, ~stray, acked'
               PROVE  call[t].whole = 1
    OBVIOUS
  <2>1. call[t].pc = "bodywait"
    BY ReturnStep
  <2>2. call[t].whole = 1 \/ call[t].whole = 0
    BY <2>1, InCallFacts DEF Returns, Frame
  <2>3. call[t].whole # 0
    BY <2>1, InCallFacts DEF Returns, Quiet
  <2> QED  BY <2>2, <2>3
<1> QED  BY <1>1, BusIsKept, PTL DEF Spec, AckMeansTaken
-------------------------------------------------------------------------------
(* The receiver comes back into step.                                        *)

\* The last k bytes of the answer of servo i.
Rest(i, k) == [n \in 1..k |-> Answer(i)[6 - k + n]]

NothingDue == \A i \in Ids : due[i] = 0 /\ late[i] = 0

\* At most one byte is left over, and it does not look like the beginning of a head.
NoHead ==
  /\ rdr # 255
  /\ wire = <<>> \/ (rdr = None /\ wire = <<wire[1]>> /\ wire[1] # 255)

\* Servo i still has to send its answer but for the first 6 - k bytes, and no other has.
Remains(i, k) ==
  /\ \A j \in Ids : late[j] = 0 /\ (j # i => due[j] = 0)
  /\ \/ due[i] = 0 /\ wire = Rest(i, k)
     \/ due[i] = 1 /\ wire = <<>> /\ k = 6

\* Of the answer of servo i the first n bytes are read; the next may be in the receiver.
HasRead(i, n) ==
  \E k \in 0..6 : /\ Remains(i, k)
                  /\ \/ rdr = None /\ n + k = 6
                     \/ k < 6 /\ rdr = Answer(i)[6 - k] /\ n + k = 5

\* A byte from before the command is in the receiver.
LeftOver(i) == Remains(i, 6) /\ rdr # None /\ (before => rdr # 255)

\* Before it reads; while it looks for the head, with and without the byte left over, or
\* with that byte taken for one of the head; in the rest of the answer; and in the rest
\* when it begins too early.
Reader(t) ==
  LET c == call[t]
      heading == c.pc \in {"head", "headwait"}
      reading == c.pc \in {"body", "bodywait"} /\ Len(c.got) \in 0..3
  IN  \/ /\ c.pc = "test" \/ (heading /\ c.at = 0)
         /\ c.prev = 0 /\ (LeftOver(c.id) \/ HasRead(c.id, 0))
      \/ heading /\ c.at = 1 /\ HasRead(c.id, 0) /\ (before => c.prev # 255)
      \/ heading /\ c.at \in 1..2 /\ c.prev = 255 /\ HasRead(c.id, 1)
      \/ /\ reading /\ HasRead(c.id, 2 + Len(c.got))
         /\ \A m \in 1..Len(c.got) : c.got[m] = Answer(c.id)[2 + m]
      \/ reading /\ HasRead(c.id, 1 + Len(c.got)) /\ ~before

\* How far a command that nothing has disturbed has come.
Sync(t) ==
  call[t].alone /\ clean =>
    /\ ~stray
    /\ call[t].pc \notin {"body", "bodywait"} => call[t].got = <<>>
    /\ call[t].whole = 0 /\ before => NoHead
    /\ call[t].whole = 1 => IF call[t].id \in Ids THEN Reader(t) ELSE Quiet(t)

\* After a command that nothing has disturbed nothing is due.
Rested == clean /\ (\A t \in Tasks : ~InCall(t)) => NothingDue /\ NoHead

SyncInv == Rested /\ \A t \in Tasks : Sync(t)
-------------------------------------------------------------------------------
\* The bytes of an answer: only the first two look like a head.
LEMMA AnswerIs ==
  ASSUME NEW i \in Ids
  PROVE  /\ Answer(i) \in Seq(Byte) /\ Len(Answer(i)) = 6
         /\ Answer(i)[1] = 255 /\ Answer(i)[2] = 255 /\ Answer(i)[3] = i
         /\ Answer(i)[4] = 2 /\ Answer(i)[5] = 0 /\ Answer(i)[6] = 255 - (i + 2)
         /\ Answer(i)[6] # 255
         /\ \A n \in 1..6 : Answer(i)[n] \in Byte
<1>1. CheckSum(<<i, 2, 0>>) = 255 - (i + 2)
  <2>1. i \in 0..253
    BY IdsAssumption
  <2>2. (i + 2 + 0) % 256 = i + 2
    BY <2>1
  <2>3. CheckSum(<<i, 2, 0>>) = 255 - ((i + 2 + 0) % 256)
    BY DEF CheckSum
  <2> QED  BY <2>2, <2>3
<1>2. /\ Len(Answer(i)) = 6
      /\ Answer(i)[1] = 255 /\ Answer(i)[2] = 255 /\ Answer(i)[3] = i
      /\ Answer(i)[4] = 2 /\ Answer(i)[5] = 0 /\ Answer(i)[6] = CheckSum(<<i, 2, 0>>)
  BY DEF Answer
<1>3. Answer(i) \in Seq(Byte)
  BY AnswerBytes
<1>4. \A n \in 1..6 : Answer(i)[n] \in Byte
  BY <1>2, <1>3, ElementOfSeq
<1>5. 255 - (i + 2) # 255
  BY IdsAssumption
<1> QED  BY <1>1, <1>2, <1>3, <1>4, <1>5

\* The rest of an answer loses its first byte.
LEMMA RestIs ==
  ASSUME NEW i \in Ids
  PROVE  /\ Rest(i, 0) = <<>> /\ Rest(i, 6) = Answer(i)
         /\ \A k \in 1..6 : /\ Rest(i, k) # <<>> /\ Head(Rest(i, k)) = Answer(i)[7 - k]
                            /\ Tail(Rest(i, k)) = Rest(i, k - 1)
         /\ Rest(i, 1) = <<Answer(i)[6]>>
<1>1. ASSUME NEW k \in 0..6
      PROVE  /\ Rest(i, k) \in Seq(Byte) /\ Len(Rest(i, k)) = k
             /\ \A n \in 1..k : Rest(i, k)[n] = Answer(i)[6 - k + n]
  <2>1. \A n \in 1..k : Answer(i)[6 - k + n] \in Byte
    <3> SUFFICES ASSUME NEW n \in 1..k PROVE Answer(i)[6 - k + n] \in Byte
      OBVIOUS
    <3>1. 6 - k + n \in 1..6
      OBVIOUS
    <3> QED  BY <3>1, AnswerIs
  <2>2. Rest(i, k) \in [1..k -> Byte]
    BY <2>1, Zenon DEF Rest
  <2>3. Rest(i, k) \in Seq(Byte) /\ Len(Rest(i, k)) = k
    BY <2>2, k \in Nat
  <2> QED  BY <2>3 DEF Rest
<1>2. Rest(i, 0) = <<>>
  BY <1>1, EmptySeq
<1>3. Rest(i, 6) = Answer(i)
  <2>1. Rest(i, 6) \in Seq(Byte) /\ Len(Rest(i, 6)) = 6
        /\ \A n \in 1..6 : Rest(i, 6)[n] = Answer(i)[n]
    BY <1>1
  <2> QED  BY <2>1, AnswerIs, SeqEqual
<1>4. ASSUME NEW k \in 1..6
      PROVE  /\ Rest(i, k) # <<>> /\ Head(Rest(i, k)) = Answer(i)[7 - k]
             /\ Tail(Rest(i, k)) = Rest(i, k - 1)
  <2>1. /\ Rest(i, k) \in Seq(Byte) /\ Len(Rest(i, k)) = k
        /\ \A n \in 1..k : Rest(i, k)[n] = Answer(i)[6 - k + n]
        /\ Rest(i, k - 1) \in Seq(Byte) /\ Len(Rest(i, k - 1)) = k - 1
        /\ \A n \in 1..(k - 1) : Rest(i, k - 1)[n] = Answer(i)[6 - (k - 1) + n]
    <3>1. k \in 0..6 /\ k - 1 \in 0..6
      OBVIOUS
    <3> QED  BY <1>1, <3>1, Zenon
  <2>2. Rest(i, k) # <<>>
    BY <2>1, EmptySeq
  <2>3. Head(Rest(i, k)) = Answer(i)[7 - k]
    <3>1. Head(Rest(i, k)) = Rest(i, k)[1] /\ 6 - k + 1 = 7 - k /\ 1 \in 1..k
      BY <2>1, <2>2
    <3> QED  BY <2>1, <3>1
  <2>4. /\ Tail(Rest(i, k)) \in Seq(Byte) /\ Len(Tail(Rest(i, k))) = k - 1
        /\ \A n \in 1..(k - 1) : Tail(Rest(i, k))[n] = Rest(i, k)[n + 1]
    BY <2>1, <2>2, HeadTailProperties
  <2>5. \A n \in 1..(k - 1) : Tail(Rest(i, k))[n] = Rest(i, k - 1)[n]
    <3> SUFFICES ASSUME NEW n \in 1..(k - 1)
                 PROVE  Tail(Rest(i, k))[n] = Rest(i, k - 1)[n]
      OBVIOUS
    <3>1. n + 1 \in 1..k /\ 6 - k + (n + 1) = 6 - (k - 1) + n
      OBVIOUS
    <3> QED  BY <2>1, <2>4, <3>1
  <2> QED  BY <2>1, <2>2, <2>3, <2>4, <2>5, SeqEqual
<1>5. Rest(i, 1) = <<Answer(i)[6]>>
  <2>1. /\ Rest(i, 1) \in Seq(Byte) /\ Len(Rest(i, 1)) = 1 /\ Rest(i, 1)[1] = Answer(i)[6]
    BY <1>1
  <2> QED  BY <2>1
<1> QED  BY <1>2, <1>3, <1>4, <1>5

\* A byte of the answer is taken out of the receiver.
LEMMA ReadByte ==
  ASSUME NEW i \in Ids, NEW n \in Nat, HasRead(i, n), rdr # None
  PROVE  /\ n < 6 /\ rdr = Answer(i)[n + 1]
         /\ rdr' = None /\ UNCHANGED <<due, late, wire>> => HasRead(i, n + 1)'
<1>1. PICK k \in 0..6 : Remains(i, k) /\ k < 6 /\ rdr = Answer(i)[6 - k] /\ n + k = 5
  BY DEF HasRead
<1>2. n < 6 /\ 6 - k = n + 1 /\ (n + 1) + k = 6
  BY <1>1
<1>3. ASSUME rdr' = None, UNCHANGED <<due, late, wire>> PROVE HasRead(i, n + 1)'
  <2>1. Remains(i, k)'
    BY <1>1, <1>3 DEF Remains
  <2> QED  BY <1>2, <1>3, <2>1 DEF HasRead
<1> QED  BY <1>1, <1>2, <1>3

\* The byte from before the command is taken out of the receiver.
LEMMA ReadLeftOver ==
  ASSUME NEW i \in Ids, LeftOver(i), rdr' = None, UNCHANGED <<due, late, wire>>
  PROVE  HasRead(i, 0)'
<1>1. Remains(i, 6)'
  BY DEF LeftOver, Remains
<1> QED  BY <1>1 DEF HasRead

\* As long as the answer is not read to its end, there is more to come.
LEMMA MoreToCome ==
  ASSUME NEW i \in Ids, NEW n \in Nat, HasRead(i, n), n < 6, rdr = None, due[i] = 0
  PROVE  wire # <<>>
<1>1. None \notin Byte
  BY BytesAssumption DEF Byte
<1>2. PICK k \in 0..6 : /\ Remains(i, k)
                        /\ \/ n + k = 6
                           \/ k < 6 /\ rdr = Answer(i)[6 - k]
  BY DEF HasRead
<1>3. CASE k < 6 /\ rdr = Answer(i)[6 - k]
  <2>1. 6 - k \in 1..6
    BY <1>3
  <2> QED  BY <1>1, <1>3, <2>1, AnswerIs
<1>4. CASE n + k = 6
  <2>1. k \in 1..6
    BY <1>4
  <2> QED  BY <1>2, <2>1, RestIs DEF Remains
<1> QED  BY <1>2, <1>3, <1>4

\* Bytes that arrive while a task reads, and answers that are sent, change nothing of it.
LEMMA ArriveKeeps ==
  ASSUME NEW i \in Ids, NEW n \in Nat, HasRead(i, n), rdr = None, wire # <<>>,
         wire' = Tail(wire), rdr' = Head(wire), UNCHANGED <<due, late>>
  PROVE  HasRead(i, n)'
<1>1. None \notin Byte
  BY BytesAssumption DEF Byte
<1>2. PICK k \in 0..6 : /\ Remains(i, k)
                        /\ \/ n + k = 6
                           \/ k < 6 /\ rdr = Answer(i)[6 - k]
  BY DEF HasRead
<1>3. n + k = 6
  <2>1. CASE k < 6 /\ rdr = Answer(i)[6 - k]
    <3>1. 6 - k \in 1..6
      BY <2>1
    <3> QED  BY <1>1, <2>1, <3>1, AnswerIs
  <2> QED  BY <1>2, <2>1
<1>4. due[i] = 0 /\ wire = Rest(i, k)
  BY <1>2 DEF Remains
<1>5. k \in 1..6
  BY <1>4, RestIs
<1>6. k - 1 \in 0..6 /\ k - 1 < 6 /\ 6 - (k - 1) = 7 - k /\ n + (k - 1) = 5
  BY <1>3, <1>5
<1>7. Remains(i, k - 1)'
  BY <1>2, <1>4, <1>5, RestIs DEF Remains
<1>8. rdr' = Answer(i)[6 - (k - 1)]
  BY <1>4, <1>5, <1>6, RestIs
<1> QED  BY <1>6, <1>7, <1>8 DEF HasRead

LEMMA AnswerKeeps ==
  ASSUME Types, NEW i \in Ids, NEW j \in Ids, NEW k \in 0..6, Remains(i, k),
         ServoAnswers(j), clean'
  PROVE  Remains(i, k)'
<1>1. due[j] > 0 \/ late[j] > 0
  BY DEF ServoAnswers
<1>2. j = i /\ due[i] = 1 /\ wire = <<>> /\ k = 6 /\ late[i] = 0
  BY <1>1 DEF Remains
<1>3. due' = [due EXCEPT ![i] = 0] /\ UNCHANGED late
  BY <1>2 DEF ServoAnswers
<1>4. wire' = Rest(i, 6)
  <2>1. wire' = <<>> \o Answer(i)
    BY <1>2 DEF ServoAnswers, Fault
  <2> QED  BY <2>1, AnswerIs, RestIs
<1>5. due'[i] = 0 /\ \A l \in Ids : l # i => due'[l] = due[l]
  BY <1>3 DEF Types
<1> QED  BY <1>2, <1>3, <1>4, <1>5 DEF Remains
-------------------------------------------------------------------------------
\* A step that keeps what is held of the line keeps the place of a task in its reading.
LEMMA ReaderKept ==
  ASSUME NEW t \in Tasks, call'[t] = call[t], before' = before,
         NEW i \in Ids, i = call[t].id, LeftOver(i) => LeftOver(i)',
         \A n \in Nat : HasRead(i, n) => HasRead(i, n)', Reader(t)
  PROVE  Reader(t)'
<1>1. call'[t].id = i /\ 0 \in Nat /\ 1 \in Nat
  OBVIOUS
<1>2. Len(call[t].got) \in 0..3 => 2 + Len(call[t].got) \in Nat /\ 1 + Len(call[t].got) \in Nat
  OBVIOUS
<1> DEFINE heading == call[t].pc \in {"head", "headwait"}
           reading == call[t].pc \in {"body", "bodywait"} /\ Len(call[t].got) \in 0..3
<1>3. CASE /\ call[t].pc = "test" \/ (heading /\ call[t].at = 0)
           /\ call[t].prev = 0 /\ (LeftOver(i) \/ HasRead(i, 0))
  BY <1>1, <1>3 DEF Reader
<1>4. CASE heading /\ call[t].at = 1 /\ HasRead(i, 0) /\ (before => call[t].prev # 255)
  BY <1>1, <1>4 DEF Reader
<1>5. CASE heading /\ call[t].at \in 1..2 /\ call[t].prev = 255 /\ HasRead(i, 1)
  BY <1>1, <1>5 DEF Reader
<1>6. CASE /\ reading /\ HasRead(i, 2 + Len(call[t].got))
           /\ \A m \in 1..Len(call[t].got) : call[t].got[m] = Answer(i)[2 + m]
  BY <1>1, <1>2, <1>6 DEF Reader
<1>7. CASE reading /\ HasRead(i, 1 + Len(call[t].got)) /\ ~before
  BY <1>1, <1>2, <1>7 DEF Reader
<1> QED  BY <1>3, <1>4, <1>5, <1>6, <1>7 DEF Reader

LEMMA SameLine ==
  ASSUME UNCHANGED <<due, late, wire, rdr, before>>
  PROVE  \A i \in Ids : /\ LeftOver(i) => LeftOver(i)'
                        /\ \A n \in Nat : HasRead(i, n) => HasRead(i, n)'
BY DEF LeftOver, HasRead, Remains

\* Only the task that steps can be alone in its call.
LEMMA MoveSync ==
  ASSUME IInv', NEW t \in Tasks, InCall(t)', Sync(t)'
  PROVE  SyncInv'
<1>1. AloneInv'
  BY DEF IInv
<1>2. \A u \in Tasks \ {t} : ~call'[u].alone
  BY <1>1 DEF AloneInv
<1>3. \A u \in Tasks : Sync(u)'
  BY <1>2 DEF Sync
<1> QED  BY <1>3 DEF SyncInv, Rested

\* A call of which the servos have not taken the command yet.
LEMMA NotSent ==
  ASSUME IInv', SyncInv, NEW t \in Tasks, InCall(t)',
         call'[t].alone /\ clean' =>
           /\ call[t].alone /\ clean /\ call[t].whole = 0 /\ call'[t].whole = 0
           /\ call[t].pc \notin {"body", "bodywait"} /\ call'[t].got = call[t].got,
         UNCHANGED <<before, stray, wire, rdr>>
  PROVE  SyncInv'
<1>1. Sync(t)
  BY DEF SyncInv
<1>2. Sync(t)'
  <2> SUFFICES ASSUME call'[t].alone, clean' PROVE Sync(t)'
    BY DEF Sync
  <2>1. ~stray /\ call[t].got = <<>> /\ (before => NoHead)
    BY <1>1 DEF Sync
  <2>2. before' => NoHead'
    BY <2>1 DEF NoHead
  <2> QED  BY <2>1, <2>2 DEF Sync
<1> QED  BY <1>2, MoveSync

\* The call returns.
LEMMA EndSync ==
  ASSUME IInv, NEW t \in Tasks, InCall(t), NEW ok, End(t, ok),
         call[t].alone /\ clean => NothingDue' /\ NoHead'
  PROVE  SyncInv'
<1>1. call \in [Tasks -> Calls] /\ AloneInv
  BY DEF IInv, Types
<1>2. clean' = (clean /\ call[t].alone)
  BY DEF End
<1>3. call'[t].alone = FALSE /\ \A u \in Tasks \ {t} : call'[u] = call[u]
  <2> DEFINE p == IF lock = t THEN "locked" ELSE "idle"
  <2>1. call' = [call EXCEPT ![t] = [Idle EXCEPT !.pc = p]]
    BY DEF End
  <2> HIDE DEF p
  <2>2. [Idle EXCEPT !.pc = p].alone = FALSE
    BY DEF Idle
  <2> QED  BY <1>1, <2>1, <2>2
<1>4. \A u \in Tasks : Sync(u)'
  <2>1. \A u \in Tasks : ~(call'[u].alone /\ clean')
    BY <1>1, <1>2, <1>3 DEF AloneInv
  <2> QED  BY <2>1 DEF Sync
<1>5. Rested'
  BY <1>2 DEF Rested
<1> QED  BY <1>4, <1>5 DEF SyncInv

\* A command begins.
LEMMA BeginSync ==
  ASSUME IInv, IInv', SyncInv, NEW t \in Tasks, NEW i \in 0..253, Begin(t, i),
         UNCHANGED busVars
  PROVE  SyncInv'
<1> DEFINE b == \A u \in Tasks : ~InCall(u)
<1>1. /\ call' \in [Tasks -> Calls]
      /\ call'[t] = [Idle EXCEPT !.pc = "fill", !.id = i, !.alone = b]
  BY BeginTypes DEF IInv
<1>2. /\ call'[t].pc = "fill" /\ call'[t].alone = b /\ call'[t].got = <<>>
      /\ call'[t].whole = 0
  BY <1>1 DEF Idle
<1>3. before' = clean /\ clean' = (b /\ ~stray')
  BY DEF Begin
<1>4. b /\ before' => NoHead'
  BY <1>3 DEF SyncInv, Rested, NoHead, busVars
<1> HIDE DEF b
<1>5. call'[t].alone /\ clean' => ~stray' /\ (before' => NoHead')
  BY <1>2, <1>3, <1>4
<1>6. call'[t].got = <<>> /\ call'[t].whole # 1
  BY <1>2
<1>7. Sync(t)'
  BY <1>5, <1>6, Zenon DEF Sync
<1> QED  BY <1>2, <1>7, MoveSync DEF InCall

\* A task that is in no call takes or gives the lock.
LEMMA LockSync ==
  ASSUME IInv, SyncInv, NEW t \in Tasks, xSemaphoreTake(t) \/ xSemaphoreGive(t)
  PROVE  SyncInv'
<1>1. PICK p \in {"idle", "locked"} : call' = [call EXCEPT ![t].pc = p]
  BY DEF xSemaphoreTake, xSemaphoreGive
<1>2. ~InCall(t) /\ call \in [Tasks -> Calls] /\ AloneInv
  BY DEF xSemaphoreTake, xSemaphoreGive, At, InCall, IInv, Types
<1>3. /\ call'[t].pc = p /\ call'[t].alone = call[t].alone
      /\ \A u \in Tasks \ {t} : call'[u] = call[u]
  BY <1>1, <1>2 DEF Calls
<1>4. UNCHANGED <<due, late, wire, rdr, clean, before, stray>>
  BY DEF xSemaphoreTake, xSemaphoreGive, busVars, histVars
<1>5. Rested'
  BY <1>2, <1>3, <1>4 DEF SyncInv, Rested, InCall, NothingDue, NoHead
<1>6. ASSUME NEW u \in Tasks PROVE Sync(u)'
  <2>1. CASE u = t
    BY <1>2, <1>3, <2>1 DEF Sync, AloneInv
  <2>2. CASE u # t
    <3>1. call'[u] = call[u] /\ Sync(u)
      BY <1>3, <2>2 DEF SyncInv
    <3>2. NoHead' = NoHead /\ (Quiet(u) => Quiet(u)')
      BY <1>4, <3>1 DEF NoHead, Quiet
    <3>3. call[u].id \in Ids /\ Reader(u) => Reader(u)'
      BY <1>4, <3>1, SameLine, ReaderKept
    <3> QED  BY <1>4, <3>1, <3>2, <3>3 DEF Sync
  <2> QED  BY <2>1, <2>2
<1> QED  BY <1>5, <1>6 DEF SyncInv
-------------------------------------------------------------------------------
LEMMA WriteBufSync == ASSUME IInv, IInv', SyncInv, NEW t \in Tasks, writeBuf(t) PROVE SyncInv'
<1>1. InCall(t) /\ call[t].pc = "fill"
  BY DEF writeBuf, At, InCall
<1>2. call[t] \in Calls /\ call \in [Tasks -> Calls] /\ (call[t].alone => Frame(t))
  BY <1>1, InCallFacts
<1>3. UNCHANGED <<before, stray, wire, rdr, clean>>
  BY DEF writeBuf, busVars, histVars
<1>4. PICK k \in Nat, p \in {"fill", "flush"} :
        call' = [call EXCEPT ![t].at = k, ![t].pc = p]
  <2>1. call[t].at + 1 \in Nat
    BY <1>2 DEF Calls
  <2> QED  BY <2>1 DEF writeBuf
<1>5. /\ call'[t].pc = p /\ call'[t].alone = call[t].alone
      /\ call'[t].whole = call[t].whole /\ call'[t].got = call[t].got
  BY <1>2, <1>4 DEF Calls
<1>6. call[t].alone => call[t].whole = 0
  BY <1>1, <1>2 DEF Frame
<1>7. InCall(t)'
  BY <1>5 DEF InCall
<1> QED  BY <1>1, <1>3, <1>5, <1>6, <1>7, NotSent

LEMMA FlushSync == ASSUME IInv, IInv', SyncInv, NEW t \in Tasks, wFlushSCS(t) PROVE SyncInv'
<1>1. InCall(t) /\ call[t].pc = "flush"
  BY DEF wFlushSCS, At, InCall
<1>2. call[t] \in Calls /\ call \in [Tasks -> Calls] /\ (call[t].alone => Frame(t))
  BY <1>1, InCallFacts
<1>3. UNCHANGED <<before, stray, wire, rdr, clean>>
  BY DEF wFlushSCS, busVars, histVars
<1>4. PICK p \in {"test", "head"} : call' = [call EXCEPT ![t].pc = p, ![t].at = 0]
  BY DEF wFlushSCS
<1>5. /\ call'[t].pc = p /\ call'[t].alone = call[t].alone
      /\ call'[t].whole = call[t].whole /\ call'[t].got = call[t].got
  BY <1>2, <1>4 DEF Calls
<1>6. call[t].alone => call[t].whole = 0
  BY <1>1, <1>2 DEF Frame
<1>7. InCall(t)'
  BY <1>5 DEF InCall
<1> QED  BY <1>1, <1>3, <1>5, <1>6, <1>7, NotSent

LEMMA TestSync == ASSUME IInv, IInv', SyncInv, NEW t \in Tasks, Test(t) PROVE SyncInv'
<1>1. InCall(t) /\ call[t].pc = "test"
  BY DEF Test, At, InCall
<1>2. /\ call[t] \in Calls /\ call \in [Tasks -> Calls] /\ Types
      /\ call[t].alone => Frame(t)
  BY <1>1, InCallFacts
<1>3. UNCHANGED <<due, late, before, stray, wire, rdr, clean>>
  BY DEF Test, busVars, histVars
<1>4. Sync(t)
  BY DEF SyncInv
<1>5. TxXferCount \in Nat /\ call[t].at \in Nat
  BY <1>2, SizesAssumption DEF Types, Calls
<1>6. CASE TxXferCount > 0
  <2>1. call' = [call EXCEPT ![t].pc = "send"]
    BY <1>6 DEF Test
  <2>2. /\ call'[t].pc = "send" /\ call'[t].alone = call[t].alone
        /\ call'[t].whole = call[t].whole /\ call'[t].got = call[t].got
    BY <1>2, <2>1 DEF Calls
  <2>3. call[t].alone => call[t].whole = 0
    <3>1. call[t].alone => TxXferCount + call[t].at = 2 /\ (call[t].at < 2 => call[t].whole = 0)
      BY <1>1, <1>2 DEF Frame
    <3> QED  BY <1>5, <1>6, <3>1
  <2>4. InCall(t)'
    BY <2>2 DEF InCall
  <2> QED  BY <1>1, <1>3, <2>2, <2>3, <2>4, NotSent
<1>7. CASE ~(TxXferCount > 0)
  <2>1. call' = [call EXCEPT ![t].pc = "head", ![t].at = 0]
    BY <1>7 DEF Test
  <2>2. /\ call'[t].pc = "head" /\ call'[t].alone = call[t].alone /\ call'[t].at = 0
        /\ call'[t].whole = call[t].whole /\ call'[t].got = call[t].got
        /\ call'[t].id = call[t].id /\ call'[t].prev = call[t].prev
    BY <1>2, <2>1 DEF Calls
  <2>3. ASSUME call[t].alone, clean PROVE Sync(t)'
    <3>1. TxXferCount + call[t].at = 2 /\ (call[t].at = 2 => call[t].whole = 1)
      BY <1>1, <1>2, <2>3 DEF Frame
    <3>2. call[t].at = 2 /\ call[t].whole = 1
      BY <1>5, <1>7, <3>1
    <3>3. ~stray /\ call[t].got = <<>>
      BY <1>1, <1>4, <2>3 DEF Sync
    <3>4. ASSUME call[t].id \in Ids PROVE Reader(t)'
      <4>1. call[t].prev = 0 /\ (LeftOver(call[t].id) \/ HasRead(call[t].id, 0))
        BY <1>1, <1>4, <2>3, <3>2, <3>4 DEF Sync, Reader
      <4>2. PICK i \in Ids : i = call[t].id
        BY <3>4
      <4>3. LeftOver(i)' \/ HasRead(i, 0)'
        BY <1>3, <4>1, <4>2 DEF LeftOver, HasRead, Remains
      <4> QED  BY <2>2, <4>1, <4>2, <4>3 DEF Reader
    <3>5. ASSUME call[t].id \notin Ids PROVE Quiet(t)'
      <4>1. Quiet(t)
        BY <1>4, <2>3, <3>2, <3>5 DEF Sync
      <4> QED  BY <1>1, <1>3, <2>2, <3>2, <4>1 DEF Quiet
    <3> QED  BY <1>3, <2>2, <3>2, <3>3, <3>4, <3>5 DEF Sync
  <2>4. Sync(t)' /\ InCall(t)'
    BY <1>3, <2>2, <2>3 DEF Sync, InCall
  <2> QED  BY <2>4, MoveSync
<1> QED  BY <1>6, <1>7

LEMMA SendSync == ASSUME IInv, IInv', SyncInv, NEW t \in Tasks, Send(t) PROVE SyncInv'
<1>1. call[t].pc = "send" /\ InCall(t) /\ wire = <<>>
  BY DEF Send, At, InCall
<1>2. /\ call[t] \in Calls /\ Types /\ (call[t].alone => Frame(t))
      /\ call[t].alone /\ ~stray /\ call[t].whole = 0 => Quiet(t)
  BY <1>1, InCallFacts
<1>3. PICK cell : Take(t, cell) /\ (NoFault \/ Fault)
  BY DEF Send
<1>4. UNCHANGED <<late, wire, rdr, before, stray>> /\ (clean' => clean)
  BY <1>3 DEF Send, NoFault, Fault, histVars
<1>5. /\ call'[t].whole = IF Whole(cell) /\ cell[1] = call[t].id
                          THEN call[t].whole + 1 ELSE call[t].whole
      /\ call'[t].pc = "test"
      /\ call'[t].at = IF call[t].at <= Room THEN call[t].at + 1 ELSE call[t].at
      /\ call'[t].id = call[t].id /\ call'[t].alone = call[t].alone
      /\ call'[t].prev = call[t].prev /\ call'[t].got = call[t].got
  BY <1>1, <1>3, TakeTypes
<1>6. InCall(t)' /\ (call'[t].alone => Frame(t)')
  BY <1>5 DEF InCall, IInv, FrameInv
<1>7. Sync(t)
  BY DEF SyncInv
<1>8. call[t].alone => call[t].whole = 0 /\ call[t].at \in 0..1
  BY <1>1, <1>2 DEF Frame, Calls
<1>9. CASE call[t].alone /\ clean' /\ call'[t].whole # 0
  <2>1. Whole(cell) /\ cell[1] = call[t].id /\ call'[t].whole = 1
    BY <1>5, <1>8, <1>9
  <2>2. call[t].at = 1
    <3>1. call[t].at # 0
      <4> SUFFICES ASSUME call[t].at = 0 PROVE FALSE
        OBVIOUS
      <4>1. call'[t].at < 2
        BY <1>5, SizesAssumption
      <4> QED  BY <1>5, <1>6, <1>9, <4>1 DEF Frame
    <3> QED  BY <1>8, <1>9, <3>1
  <2>3. ~stray /\ call[t].got = <<>> /\ (before => NoHead)
    BY <1>1, <1>4, <1>7, <1>8, <1>9 DEF Sync
  <2>4. Quiet(t) /\ call[t].prev = 0
    BY <1>1, <1>2, <1>8, <1>9, <2>3 DEF Quiet
  <2>5. due' = IF call[t].id \in Ids THEN [due EXCEPT ![call[t].id] = @ + 1] ELSE due
    BY <1>3, <2>1 DEF Take, Whole
  <2>6. ASSUME call[t].id \in Ids PROVE Reader(t)'
    <3>1. PICK i \in Ids : i = call[t].id
      BY <2>6
    <3>2. due'[i] = 1 /\ \A j \in Ids : late'[j] = 0 /\ (j # i => due'[j] = 0)
      BY <1>2, <1>4, <2>4, <2>5, <3>1 DEF Types, Quiet
    <3>3. Remains(i, 6)'
      BY <1>1, <1>4, <3>2 DEF Remains
    <3>4. LeftOver(i)' \/ HasRead(i, 0)'
      <4>1. CASE rdr = None
        BY <1>4, <3>3, <4>1 DEF HasRead
      <4>2. CASE rdr # None
        BY <1>4, <2>3, <3>3, <4>2 DEF LeftOver, NoHead
      <4> QED  BY <4>1, <4>2
    <3> QED  BY <1>5, <2>4, <3>1, <3>4 DEF Reader
  <2>7. ASSUME call[t].id \notin Ids PROVE Quiet(t)'
    BY <1>1, <1>4, <1>5, <2>4, <2>5, <2>7 DEF Quiet
  <2>8. Sync(t)'
    BY <1>4, <1>5, <2>1, <2>3, <2>6, <2>7 DEF Sync
  <2> QED  BY <1>6, <2>8, MoveSync
<1>10. CASE ~(call[t].alone /\ clean' /\ call'[t].whole # 0)
  BY <1>1, <1>4, <1>5, <1>6, <1>8, <1>10, NotSent
<1> QED  BY <1>9, <1>10

\* As long as a task reads there is something to be read.
LEMMA ReaderWaits ==
  ASSUME NEW t \in Tasks, call[t].id \in Ids, Reader(t), rdr = None, wire = <<>>,
         due[call[t].id] = 0
  PROVE  FALSE
<1>1. PICK i \in Ids : i = call[t].id
  OBVIOUS
<1>2. \A n \in Nat : n < 6 => ~HasRead(i, n)
  BY <1>1, MoreToCome
<1>3. ~LeftOver(i)
  BY DEF LeftOver
<1>4. ~HasRead(i, 0) /\ ~HasRead(i, 1)
  BY <1>2
<1>5. Len(call[t].got) \in 0..3 =>
        ~HasRead(i, 2 + Len(call[t].got)) /\ ~HasRead(i, 1 + Len(call[t].got))
  <2> SUFFICES ASSUME NEW l \in 0..3 PROVE ~HasRead(i, 2 + l) /\ ~HasRead(i, 1 + l)
    OBVIOUS
  <2>1. 2 + l \in Nat /\ 1 + l \in Nat /\ 2 + l < 6 /\ 1 + l < 6
    OBVIOUS
  <2> QED  BY <1>2, <2>1
<1> QED  BY <1>1, <1>3, <1>4, <1>5 DEF Reader

\* What is known of a task that reads by itself.
LEMMA ReadFacts ==
  ASSUME IInv, SyncInv, NEW t \in Tasks, call[t].pc \in Reads, call[t].alone, clean
  PROVE  /\ call[t].whole = 1 /\ ~stray
         /\ call[t].pc \in {"head", "headwait"} => call[t].got = <<>>
         /\ call[t].id \in Ids => Reader(t)
         /\ call[t].id \notin Ids => Quiet(t)
<1>1. Frame(t) /\ Sync(t)
  BY DEF IInv, FrameInv, SyncInv
<1>2. call[t].whole = 1
  BY <1>1 DEF Frame, Reads
<1> QED  BY <1>1, <1>2 DEF Sync

\* A step that moves a call on in its reading.
LEMMA ReadSync ==
  ASSUME IInv, IInv', SyncInv, NEW t \in Tasks, call[t].pc \in Reads, call'[t].pc \in Reads,
         call'[t].alone = call[t].alone, call'[t].whole = call[t].whole,
         call'[t].id = call[t].id,
         call[t].alone /\ clean =>
           /\ call'[t].pc \in {"head", "headwait"} => call'[t].got = <<>>
           /\ call[t].id \in Ids => Reader(t)'
           /\ call[t].id \notin Ids => Quiet(t)',
         UNCHANGED <<clean, stray>>
  PROVE  SyncInv'
<1>1. ASSUME call[t].alone, clean PROVE Sync(t)'
  <2>1. call'[t].whole = 1 /\ ~stray'
    BY <1>1, ReadFacts
  <2> QED  BY <1>1, <2>1 DEF Sync, Reads
<1>2. Sync(t)'
  BY <1>1 DEF Sync
<1>3. InCall(t)'
  BY DEF InCall, Reads
<1> QED  BY <1>2, <1>3, MoveSync

LEMMA TimeoutSync == ASSUME IInv, SyncInv, NEW t \in Tasks, Timeout(t) PROVE SyncInv'
<1>1. /\ call[t].pc \in {"headwait", "bodywait"} /\ call[t].pc \in Reads /\ InCall(t)
      /\ rdr = None /\ wire = <<>> /\ (\A i \in Ids : due[i] = 0)
      /\ End(t, FALSE) /\ UNCHANGED <<due, late, wire, rdr>>
  BY DEF Timeout, At, Reads, InCall
<1>2. None # 255
  BY BytesAssumption
<1>3. ASSUME call[t].alone, clean PROVE NothingDue' /\ NoHead'
  <2>1. call[t].id \notin Ids
    BY <1>1, <1>3, ReadFacts, ReaderWaits
  <2>2. Quiet(t)
    BY <1>1, <1>3, <2>1, ReadFacts
  <2> QED  BY <1>1, <1>2, <2>2 DEF Quiet, NothingDue, NoHead
<1> QED  BY <1>1, <1>3, EndSync

LEMMA ReceiveSync ==
  ASSUME IInv, IInv', SyncInv, NEW t \in Tasks, HAL_UART_Receive(t) PROVE SyncInv'
<1>1. /\ call[t].pc \in {"head", "body"} /\ call[t].pc \in Reads /\ InCall(t)
      /\ UNCHANGED <<due, late, wire, rdr>>
  BY DEF HAL_UART_Receive, At, Reads, InCall
<1>2. /\ call[t] \in Calls /\ call \in [Tasks -> Calls] /\ InUse
      /\ call[t].alone => \A u \in Tasks \ {t} : call[u].pc \in {"idle", "locked"}
  BY <1>1, InCallFacts
<1>3. CASE RxBusy
  <2>1. ~call[t].alone
    BY <1>1, <1>2, <1>3 DEF InUse
  <2>2. End(t, FALSE)
    BY <1>3 DEF HAL_UART_Receive
  <2> QED  BY <1>1, <2>1, <2>2, EndSync
<1>4. CASE ~RxBusy
  <2>1. UNCHANGED <<clean, stray, before>>
    BY <1>4 DEF HAL_UART_Receive, histVars
  <2>2. PICK p : /\ call' = [call EXCEPT ![t].pc = p]
                 /\ p = IF call[t].pc = "head" THEN "headwait" ELSE "bodywait"
    BY <1>2, <1>4 DEF HAL_UART_Receive
  <2>3. /\ call'[t].pc = p /\ call'[t].alone = call[t].alone /\ call'[t].at = call[t].at
        /\ call'[t].whole = call[t].whole /\ call'[t].got = call[t].got
        /\ call'[t].id = call[t].id /\ call'[t].prev = call[t].prev
    BY <1>2, <2>2 DEF Calls
  <2>4. p \in Reads
    BY <2>2 DEF Reads
  <2>5. ASSUME call[t].alone, clean, call[t].id \in Ids PROVE Reader(t)'
    <3>1. PICK i \in Ids : i = call[t].id
      BY <2>5
    <3>2. /\ LeftOver(i) => LeftOver(i)'
          /\ HasRead(i, 0) => HasRead(i, 0)'
          /\ HasRead(i, 1) => HasRead(i, 1)'
      BY <1>1, <2>1, SameLine
    <3>3. Len(call[t].got) \in 0..3 =>
            /\ HasRead(i, 2 + Len(call[t].got)) => HasRead(i, 2 + Len(call[t].got))'
            /\ HasRead(i, 1 + Len(call[t].got)) => HasRead(i, 1 + Len(call[t].got))'
      <4> SUFFICES ASSUME NEW l \in 0..3, l = Len(call[t].got)
                   PROVE  /\ HasRead(i, 2 + l) => HasRead(i, 2 + l)'
                          /\ HasRead(i, 1 + l) => HasRead(i, 1 + l)'
        BY <2>3
      <4>1. 2 + l \in Nat /\ 1 + l \in Nat
        OBVIOUS
      <4> QED  BY <1>1, <2>1, <4>1, SameLine
    <3>4. Reader(t)
      BY <1>1, <2>5, ReadFacts
    <3> QED  BY <1>1, <2>1, <2>2, <2>3, <3>1, <3>2, <3>3, <3>4 DEF Reader
  <2>6. ASSUME call[t].alone, clean, call[t].id \notin Ids PROVE Quiet(t)'
    <3>1. Quiet(t)
      BY <1>1, <2>6, ReadFacts
    <3> QED  BY <1>1, <2>2, <2>3, <3>1 DEF Quiet
  <2>7. call[t].alone /\ clean /\ call'[t].pc \in {"head", "headwait"} => call'[t].got = <<>>
    BY <1>1, <2>2, <2>3, ReadFacts
  <2> QED  BY <1>1, <2>1, <2>3, <2>4, <2>5, <2>6, <2>7, ReadSync
<1> QED  BY <1>3, <1>4

\* One byte on in the search for the head.
LEMMA HeadStep ==
  ASSUME NEW t \in Tasks, NEW i \in Ids, i = call[t].id, call[t] \in Calls,
         call[t].pc = "headwait", call[t].got = <<>>, rdr # None, Reader(t),
         rdr' = None, UNCHANGED <<due, late, wire, before>>,
         call'[t].id = i, call'[t].got = <<>>, call'[t].prev = rdr,
         call'[t].at = call[t].at + 1,
         call'[t].pc = IF rdr = 255 /\ call[t].prev = 255 THEN "body" ELSE "head"
  PROVE  Reader(t)'
<1>1. /\ Answer(i)[1] = 255 /\ Answer(i)[2] = 255 /\ Len(<<>>) = 0
  BY AnswerIs
<1>2. CASE call[t].at = 0 /\ call[t].prev = 0 /\ LeftOver(i)
  <2>1. HasRead(i, 0)' /\ call'[t].pc = "head" /\ call'[t].at = 1
    BY <1>2, ReadLeftOver
  <2>2. before' => call'[t].prev # 255
    BY <1>2 DEF LeftOver
  <2> QED  BY <2>1, <2>2 DEF Reader
<1>3. CASE call[t].at = 0 /\ call[t].prev = 0 /\ HasRead(i, 0)
  <2>1. rdr = Answer(i)[0 + 1] /\ HasRead(i, 0 + 1)'
    BY <1>3, ReadByte
  <2>2. rdr = 255 /\ HasRead(i, 1)'
    BY <1>1, <2>1
  <2>3. call'[t].pc = "head" /\ call'[t].at = 1 /\ call'[t].prev = 255
    BY <1>3, <2>2
  <2> QED  BY <2>2, <2>3 DEF Reader
<1>4. CASE call[t].at = 1 /\ HasRead(i, 0) /\ (before => call[t].prev # 255)
  <2>1. rdr = Answer(i)[0 + 1] /\ HasRead(i, 0 + 1)'
    BY <1>4, ReadByte
  <2>2. rdr = 255 /\ HasRead(i, 1)'
    BY <1>1, <2>1
  <2>3. CASE call[t].prev = 255
    <3>1. call'[t].pc = "body" /\ ~before' /\ Len(call'[t].got) = 0
      BY <1>1, <1>4, <2>2, <2>3
    <3> QED  BY <2>2, <3>1 DEF Reader
  <2>4. CASE call[t].prev # 255
    <3>1. call'[t].pc = "head" /\ call'[t].at = 2 /\ call'[t].prev = 255
      BY <1>4, <2>2, <2>4
    <3> QED  BY <2>2, <3>1 DEF Reader
  <2> QED  BY <2>3, <2>4
<1>5. CASE call[t].at \in 1..2 /\ call[t].prev = 255 /\ HasRead(i, 1)
  <2>1. rdr = Answer(i)[1 + 1] /\ HasRead(i, 1 + 1)'
    BY <1>5, ReadByte
  <2>2. rdr = 255 /\ HasRead(i, 2)'
    BY <1>1, <2>1
  <2>3. call'[t].pc = "body" /\ Len(call'[t].got) = 0
    BY <1>1, <1>5, <2>2
  <2> QED  BY <2>2, <2>3 DEF Reader
<1> QED  BY <1>2, <1>3, <1>4, <1>5 DEF Reader

\* The search for the head never gives up on an answer.
LEMMA NeverGivesUp ==
  ASSUME NEW t \in Tasks, NEW i \in Ids, i = call[t].id, call[t].pc = "headwait",
         rdr # None, Reader(t), ~(rdr = 255 /\ call[t].prev = 255)
  PROVE  call[t].at < 2
<1>1. Answer(i)[2] = 255
  BY AnswerIs
<1>2. HasRead(i, 1) => rdr = 255
  <2>1. HasRead(i, 1) => rdr = Answer(i)[1 + 1]
    BY ReadByte
  <2> QED  BY <1>1, <2>1
<1> QED  BY <1>2 DEF Reader

LEMMA CheckHeadSync ==
  ASSUME IInv, IInv', SyncInv, NEW t \in Tasks, checkHead(t) PROVE SyncInv'
<1>1. /\ call[t].pc = "headwait" /\ call[t].pc \in Reads /\ InCall(t) /\ rdr # None
      /\ UNCHANGED <<due, late, wire>> /\ rdr' = None
  BY DEF checkHead, At, Reads, InCall
<1>2. /\ call[t] \in Calls /\ call \in [Tasks -> Calls] /\ Types
  BY <1>1, InCallFacts
<1>3. None # 255 /\ Skips >= 2
  BY BytesAssumption, SizesAssumption
<1>4. CASE ~(rdr = 255 /\ call[t].prev = 255) /\ call[t].at = Skips
  <2>1. End(t, FALSE)
    BY <1>4 DEF checkHead
  <2>2. ASSUME call[t].alone, clean PROVE NothingDue' /\ NoHead'
    <3>1. call[t].id \notin Ids
      <4> SUFFICES ASSUME call[t].id \in Ids PROVE FALSE
        OBVIOUS
      <4>1. Reader(t)
        BY <1>1, <2>2, ReadFacts
      <4>2. call[t].at < 2
        BY <1>1, <1>4, <4>1, NeverGivesUp
      <4> QED  BY <1>3, <1>4, <4>2, SizesAssumption
    <3>2. Quiet(t)
      BY <1>1, <2>2, <3>1, ReadFacts
    <3> QED  BY <1>1, <1>3, <3>2 DEF Quiet, NothingDue, NoHead
  <2> QED  BY <1>1, <2>1, <2>2, EndSync
<1>5. CASE ~(~(rdr = 255 /\ call[t].prev = 255) /\ call[t].at = Skips)
  <2>1. UNCHANGED <<clean, stray, before>>
    BY <1>5 DEF checkHead, histVars
  <2>2. PICK p \in {"body", "head"} :
          /\ call' = [call EXCEPT ![t].pc = p, ![t].prev = rdr, ![t].at = @ + 1]
          /\ p = IF rdr = 255 /\ call[t].prev = 255 THEN "body" ELSE "head"
    BY <1>5 DEF checkHead
  <2>3. /\ call'[t].pc = p /\ call'[t].alone = call[t].alone
        /\ call'[t].at = call[t].at + 1
        /\ call'[t].whole = call[t].whole /\ call'[t].got = call[t].got
        /\ call'[t].id = call[t].id /\ call'[t].prev = rdr
    BY <1>2, <2>2 DEF Calls
  <2>4. p \in Reads
    BY DEF Reads
  <2>5. call[t].alone /\ clean => call[t].got = <<>>
    BY <1>1, ReadFacts
  <2>6. ASSUME call[t].alone, clean, call[t].id \in Ids PROVE Reader(t)'
    <3>1. Reader(t)
      BY <1>1, <2>6, ReadFacts
    <3> QED  BY <1>1, <1>2, <2>1, <2>2, <2>3, <2>5, <2>6, <3>1, HeadStep
  <2>7. ASSUME call[t].alone, clean, call[t].id \notin Ids PROVE Quiet(t)'
    <3>1. Quiet(t)
      BY <1>1, <2>7, ReadFacts
    <3>2. call[t].at \in Nat /\ call[t].prev = 0
      BY <1>1, <1>2, <3>1 DEF Quiet, Calls
    <3>3. p = "head" /\ call'[t].at > 0
      BY <2>2, <2>3, <3>2
    <3> QED  BY <1>1, <2>3, <3>1, <3>3 DEF Quiet
  <2> QED  BY <1>1, <2>1, <2>3, <2>4, <2>5, <2>6, <2>7, ReadSync
<1> QED  BY <1>4, <1>5

\* What has been read to its end leaves nothing; an answer begun too early, a checksum.
LEMMA ReadToTheEnd ==
  ASSUME NEW i \in Ids, NEW n \in 5..6, HasRead(i, n)', rdr' = None
  PROVE  NothingDue' /\ NoHead'
<1>1. None \notin Byte
  BY BytesAssumption DEF Byte
<1>2. PICK k \in 0..6 : /\ Remains(i, k)'
                        /\ \/ n + k = 6
                           \/ k < 6 /\ rdr' = Answer(i)[6 - k]
  BY DEF HasRead
<1>3. n + k = 6
  <2>1. CASE k < 6 /\ rdr' = Answer(i)[6 - k]
    <3>1. 6 - k \in 1..6
      BY <2>1
    <3> QED  BY <1>1, <2>1, <3>1, AnswerIs
  <2> QED  BY <1>2, <2>1
<1>4. k \in 0..1
  BY <1>3
<1>5. due'[i] = 0 /\ wire' = Rest(i, k)
  BY <1>2, <1>4 DEF Remains
<1>6. NothingDue'
  BY <1>2, <1>5 DEF Remains, NothingDue
<1>7. wire' = <<>> \/ (wire' = <<wire'[1]>> /\ wire'[1] # 255)
  <2>1. CASE k = 0
    BY <1>5, <2>1, RestIs
  <2>2. CASE k = 1
    <3>1. wire' = <<Answer(i)[6]>>
      BY <1>5, <2>2, RestIs
    <3> QED  BY <3>1, AnswerIs
  <2> QED  BY <1>4, <2>1, <2>2
<1>8. rdr' # 255
  BY <1>1 DEF Byte
<1> QED  BY <1>6, <1>7, <1>8 DEF NoHead

\* One byte on in the rest of an answer.
LEMMA BodyStep ==
  ASSUME NEW t \in Tasks, NEW i \in Ids, i = call[t].id, call[t] \in Calls,
         call[t].pc = "bodywait", rdr \in Byte, rdr # None, Reader(t),
         rdr' = None, UNCHANGED <<due, late, wire>>
  PROVE  \E l \in 0..3 :
           /\ l = Len(call[t].got)
           /\ \/ /\ HasRead(i, 3 + l)' /\ rdr = Answer(i)[3 + l]
                 /\ \A m \in 1..l : call[t].got[m] = Answer(i)[2 + m]
              \/ ~before /\ HasRead(i, 2 + l)'
<1>1. PICK l \in 0..3 : l = Len(call[t].got)
  BY DEF Reader
<1>2. 2 + l \in Nat /\ 1 + l \in Nat /\ (2 + l) + 1 = 3 + l /\ (1 + l) + 1 = 2 + l
  OBVIOUS
<1>3. CASE HasRead(i, 2 + l) /\ \A m \in 1..l : call[t].got[m] = Answer(i)[2 + m]
  <2>1. rdr = Answer(i)[(2 + l) + 1] /\ HasRead(i, (2 + l) + 1)'
    BY <1>2, <1>3, ReadByte
  <2>2. rdr = Answer(i)[3 + l] /\ HasRead(i, 3 + l)'
    BY <1>2, <2>1
  <2> QED  BY <1>1, <1>3, <2>2
<1>4. CASE HasRead(i, 1 + l) /\ ~before
  <2>1. HasRead(i, (1 + l) + 1)'
    BY <1>2, <1>4, ReadByte
  <2>2. HasRead(i, 2 + l)'
    BY <1>2, <2>1
  <2> QED  BY <1>1, <1>4, <2>2
<1> QED  BY <1>1, <1>3, <1>4 DEF Reader

LEMMA AckSync ==
  ASSUME IInv, IInv', SyncInv, NEW t \in Tasks, Ack(t)
  PROVE  /\ SyncInv'
         /\ call[t].alone /\ clean /\ before /\ call'[t].pc \in {"idle", "locked"} => acked'
<1> DEFINE got == Append(call[t].got, rdr)
<1>1. /\ call[t].pc = "bodywait" /\ call[t].pc \in Reads /\ InCall(t) /\ rdr # None
      /\ UNCHANGED <<due, late, wire>> /\ rdr' = None
  BY DEF Ack, At, Reads, InCall
<1>2. /\ call[t] \in Calls /\ call \in [Tasks -> Calls] /\ rdr \in Byte
      /\ call[t].got \in Seq(Byte)
  BY <1>1, InCallFacts DEF Types, Calls
<1>3. /\ got \in Seq(Byte)
      /\ Len(got) = Len(call[t].got) + 1 /\ got[Len(call[t].got) + 1] = rdr
      /\ \A m \in 1..Len(call[t].got) : got[m] = call[t].got[m]
      /\ Len(call[t].got) \in Nat
  BY <1>2, AppendProperties, LenProperties
<1>4. CASE ~(call[t].alone /\ clean)
  <2>1. CASE Len(got) = 4
    <3>1. PICK ok : End(t, ok)
      BY <2>1 DEF Ack
    <3> QED  BY <1>1, <1>4, <3>1, EndSync
  <2>2. CASE Len(got) # 4
    <3>1. call' = [call EXCEPT ![t].got = got] /\ UNCHANGED <<clean, stray>>
      BY <2>2 DEF Ack, histVars
    <3> HIDE DEF got
    <3>2. /\ call'[t].pc = call[t].pc /\ call'[t].alone = call[t].alone
          /\ call'[t].whole = call[t].whole /\ call'[t].id = call[t].id
      BY <1>2, <3>1 DEF Calls
    <3> QED  BY <1>1, <1>4, <3>1, <3>2, ReadSync
  <2> QED  BY <1>4, <2>1, <2>2
<1>5. CASE call[t].alone /\ clean
  <2>1. PICK i \in Ids : i = call[t].id
    BY <1>1, <1>5, ReadFacts DEF Quiet
  <2>2. Reader(t)
    BY <1>1, <1>5, <2>1, ReadFacts
  <2>3. PICK l \in 0..3 :
          /\ l = Len(call[t].got)
          /\ \/ /\ HasRead(i, 3 + l)' /\ rdr = Answer(i)[3 + l]
                /\ \A m \in 1..l : call[t].got[m] = Answer(i)[2 + m]
             \/ ~before /\ HasRead(i, 2 + l)'
    BY <1>1, <1>2, <2>1, <2>2, BodyStep
  <2>4. /\ Len(got) = l + 1
        /\ \A m \in 1..(l + 1) : got[m] = IF m = l + 1 THEN rdr ELSE call[t].got[m]
    BY <1>3, <2>3
  <2> HIDE DEF got
  <2>5. \/ /\ HasRead(i, 3 + l)'
           /\ \A m \in 1..(l + 1) : got[m] = Answer(i)[2 + m]
        \/ ~before /\ HasRead(i, 2 + l)'
    <3> SUFFICES ASSUME \A m \in 1..l : call[t].got[m] = Answer(i)[2 + m],
                        rdr = Answer(i)[3 + l], NEW m \in 1..(l + 1)
                 PROVE  got[m] = Answer(i)[2 + m]
      BY <2>3
    <3>1. CASE m = l + 1
      BY <2>4, <3>1
    <3>2. CASE m # l + 1
      <4>1. m \in 1..l
        BY <3>2
      <4> QED  BY <2>4, <3>2, <4>1
    <3> QED  BY <3>1, <3>2
  <2>6. CASE l = 3
    <3>1. End(t, got[1] = i /\ got[2] = 2 /\ got[4] = CheckSum(got))
      BY <2>1, <2>4, <2>6 DEF Ack, got
    <3>2. HasRead(i, 6)' \/ HasRead(i, 5)'
      BY <2>5, <2>6
    <3>3. NothingDue' /\ NoHead'
      BY <1>1, <3>2, ReadToTheEnd
    <3>4. SyncInv'
      BY <1>1, <3>1, <3>3, EndSync
    <3>5. ASSUME before PROVE acked'
      <4>1. /\ got[1] = Answer(i)[3] /\ got[2] = Answer(i)[4]
            /\ got[3] = Answer(i)[5] /\ got[4] = Answer(i)[6]
        BY <2>5, <2>6, <3>5
      <4>2. got[1] = i /\ got[2] = 2 /\ got[3] = 0 /\ got[4] = 255 - (i + 2)
        BY <4>1, AnswerIs
      <4>3. i \in 0..253
        BY IdsAssumption
      <4>4. (i + 2 + 0) % 256 = i + 2
        BY <4>3
      <4>5. got[4] = CheckSum(got)
        BY <4>2, <4>4 DEF CheckSum
      <4> QED  BY <3>1, <4>2, <4>5 DEF End
    <3> QED  BY <3>4, <3>5
  <2>7. CASE l # 3
    <3>1. call' = [call EXCEPT ![t].got = got] /\ UNCHANGED <<clean, stray, before>>
      BY <2>4, <2>7 DEF Ack, histVars, got
    <3>2. /\ call'[t].pc = call[t].pc /\ call'[t].alone = call[t].alone
          /\ call'[t].whole = call[t].whole /\ call'[t].id = call[t].id
          /\ call'[t].got = got
      BY <1>2, <3>1 DEF Calls
    <3>3. PICK k \in 1..3 : k = l + 1
      BY <2>7
    <3>4. \/ HasRead(i, 2 + k)' /\ \A m \in 1..k : got[m] = Answer(i)[2 + m]
          \/ ~before /\ HasRead(i, 1 + k)'
      <4>1. 3 + l = 2 + k /\ 2 + l = 1 + k
        BY <3>3
      <4> QED  BY <2>5, <3>3, <4>1
    <3>5. Len(call'[t].got) = k /\ call'[t].pc = "bodywait" /\ call'[t].id = i
      BY <1>1, <2>1, <2>4, <3>2, <3>3
    <3>6. Reader(t)'
      <4>1. CASE HasRead(i, 2 + k)' /\ \A m \in 1..k : got[m] = Answer(i)[2 + m]
        <5>1. HasRead(i, 2 + Len(call[t].got))'
          BY <3>5, <4>1
        <5> QED  BY <3>2, <3>5, <4>1, <5>1 DEF Reader
      <4>2. CASE ~before' /\ HasRead(i, 1 + k)'
        <5>1. HasRead(i, 1 + Len(call[t].got))'
          BY <3>5, <4>2
        <5> QED  BY <3>2, <3>5, <4>2, <5>1 DEF Reader
      <4> QED  BY <3>1, <3>4, <4>1, <4>2
    <3>7. SyncInv'
      BY <1>1, <2>1, <3>1, <3>2, <3>6, ReadSync
    <3> QED  BY <1>1, <3>2, <3>7
  <2> QED  BY <2>6, <2>7
<1> QED  BY <1>4, <1>5
-------------------------------------------------------------------------------
(* The servos and the line.                                                  *)

\* A task that has sent its command to a servo reads the answer in time.
LEMMA InTime ==
  ASSUME IInv, NEW t \in Tasks, call[t].alone, call[t].whole = 1, clean
  PROVE  Reading
<1>1. Frame(t) /\ InCall(t) /\ call[t] \in Calls
  BY DEF IInv, FrameInv, AloneInv, Types
<1>2. TxXferCount \in Nat /\ call[t].at \in Nat
  BY <1>1, SizesAssumption DEF IInv, Types, Calls
<1>3. CASE call[t].pc = "test"
  <2>1. TxXferCount = 0
    BY <1>1, <1>2, <1>3 DEF Frame
  <2> QED  BY <1>3, <2>1 DEF Reading, At
<1>4. CASE call[t].pc \in Reads
  BY <1>4 DEF Reading, Reads
<1>5. call[t].pc = "test" \/ call[t].pc \in Reads
  BY <1>1 DEF Frame, InCall, Calls, Places, Reads
<1> QED  BY <1>3, <1>4, <1>5

LEMMA LineSync ==
  ASSUME IInv, SyncInv, UNCHANGED call,
         (\E i \in Ids : Delay(i) \/ ServoAnswers(i)) \/ Arrive
  PROVE  SyncInv'
<1>1. Types /\ AloneInv
  BY DEF IInv
<1>2. CASE ~clean'
  BY <1>2 DEF SyncInv, Rested, Sync
<1>3. CASE clean' /\ \E i \in Ids : ServoAnswers(i)
  <2>1. PICK j \in Ids : ServoAnswers(j)
    BY <1>3
  <2>2. UNCHANGED <<rdr, clean, before, stray>>
    BY <1>3, <2>1 DEF ServoAnswers, NoFault, Fault, histVars
  <2>3. ~NothingDue
    BY <2>1 DEF ServoAnswers, NothingDue
  <2>4. ASSUME NEW t \in Tasks PROVE Sync(t)'
    <3> SUFFICES ASSUME call[t].alone PROVE Sync(t)'
      BY DEF Sync
    <3>1. Sync(t) /\ clean
      BY <1>3, <2>2 DEF SyncInv
    <3>2. ~Quiet(t)
      BY <2>3 DEF Quiet, NothingDue
    <3>3. call[t].whole # 0 /\ (call[t].whole = 1 => call[t].id \in Ids /\ Reader(t))
      BY <3>1, <3>2 DEF Sync, IInv, QuietInv
    <3>4. ASSUME call[t].whole = 1 PROVE Reader(t)'
      <4>1. PICK i \in Ids : i = call[t].id
        BY <3>3, <3>4
      <4>2. \A k \in 0..6 : Remains(i, k) => Remains(i, k)'
        BY <1>1, <1>3, <2>1, AnswerKeeps
      <4>3. LeftOver(i) => LeftOver(i)'
        BY <2>2, <4>2 DEF LeftOver
      <4>4. \A n \in Nat : HasRead(i, n) => HasRead(i, n)'
        BY <2>2, <4>2 DEF HasRead
      <4> QED  BY <2>2, <3>3, <3>4, <4>1, <4>3, <4>4, ReaderKept
    <3> QED  BY <2>2, <3>1, <3>3, <3>4 DEF Sync
  <2>5. Rested'
    BY <2>2, <2>3 DEF SyncInv, Rested, InCall
  <2> QED  BY <2>4, <2>5 DEF SyncInv
<1>4. CASE clean' /\ Arrive
  <2>1. /\ wire # <<>> /\ wire' = Tail(wire) /\ UNCHANGED <<due, late, clean, before, stray>>
        /\ \/ rdr = None /\ rdr' = Head(wire)
           \/ rdr # None /\ ~Reading /\ UNCHANGED rdr
    BY <1>4 DEF Arrive, NoFault, Fault, histVars
  <2>2. NoHead => NoHead'
    <3> SUFFICES ASSUME NoHead PROVE NoHead'
      OBVIOUS
    <3>1. rdr = None /\ wire = <<wire[1]>> /\ wire[1] # 255
      BY <2>1 DEF NoHead
    <3>2. rdr' = wire[1] /\ wire' = <<>>
      <4> SUFFICES ASSUME NEW b, wire = <<b>> PROVE rdr' = b /\ wire' = <<>>
        BY <3>1
      <4> QED  BY <2>1, <3>1
    <3> QED  BY <3>1, <3>2 DEF NoHead
  <2>3. Rested'
    BY <2>1, <2>2 DEF SyncInv, Rested, InCall, NothingDue
  <2>4. ASSUME NEW t \in Tasks PROVE Sync(t)'
    <3> SUFFICES ASSUME call[t].alone PROVE Sync(t)'
      BY DEF Sync
    <3>1. Sync(t) /\ clean
      BY <1>4, <2>1 DEF SyncInv
    <3>2. ASSUME call[t].whole = 1 PROVE rdr = None /\ rdr' = Head(wire)
      BY <2>1, <3>1, <3>2, InTime
    <3>3. ASSUME call[t].whole = 1, call[t].id \in Ids PROVE Reader(t)'
      <4>1. PICK i \in Ids : i = call[t].id
        BY <3>3
      <4>2. LeftOver(i) => LeftOver(i)'
        BY <3>2, <3>3 DEF LeftOver
      <4>3. \A n \in Nat : HasRead(i, n) => HasRead(i, n)'
        BY <2>1, <3>2, <3>3, ArriveKeeps
      <4>4. Reader(t)
        BY <3>1, <3>3 DEF Sync
      <4> QED  BY <2>1, <4>1, <4>2, <4>3, <4>4, ReaderKept
    <3>4. ASSUME call[t].whole = 1, call[t].id \notin Ids PROVE FALSE
      <4>1. Quiet(t) /\ Frame(t) /\ call[t] \in Calls /\ InCall(t)
        BY <1>1, <3>1, <3>4 DEF Sync, IInv, FrameInv, AloneInv, Types
      <4>2. call[t].pc \in {"test", "head", "headwait"}
        BY <3>4, <4>1 DEF Quiet, Frame, InCall, Calls, Places
      <4>3. call[t].pc = "test" => call[t].at > 0
        <5>1. call[t].pc = "test" => ~(call[t].at < 2)
          BY <3>4, <4>1 DEF Frame
        <5> QED  BY <4>1, <5>1 DEF Calls
      <4> QED  BY <2>1, <4>1, <4>2, <4>3 DEF Quiet
    <3> QED  BY <2>1, <2>2, <3>1, <3>3, <3>4 DEF Sync
  <2> QED  BY <2>3, <2>4 DEF SyncInv
<1>5. CASE clean' /\ \E i \in Ids : Delay(i)
  BY <1>5 DEF Delay, Fault
<1> QED  BY <1>2, <1>3, <1>4, <1>5
-------------------------------------------------------------------------------
LEMMA InitSync == Init => SyncInv
<1> SUFFICES ASSUME Init PROVE SyncInv
  OBVIOUS
<1>1. \A t \in Tasks : call[t] = Idle /\ ~call[t].alone
  BY IdleCall DEF Init
<1>2. None # 255
  BY BytesAssumption
<1>3. Rested
  BY <1>2 DEF Init, Rested, NothingDue, NoHead
<1> QED  BY <1>1, <1>3 DEF SyncInv, Sync

\* The second undisturbed command in a row is acknowledged, whatever the line did to the
\* commands before it.
THEOREM BackInStep == Spec => Resyncs
<1> DEFINE A == \A t \in Tasks : Returns(t) /\ call[t].alone /\ call[t].id \in Ids
                                /\ clean /\ before => acked'
<1>1. IInv /\ IInv' /\ SyncInv /\ [Next]_vars => SyncInv'
  <2> SUFFICES ASSUME IInv, IInv', SyncInv, [Next]_vars PROVE SyncInv'
    OBVIOUS
  <2>1. ASSUME NEW t \in Tasks, xSemaphoreTake(t) \/ xSemaphoreGive(t) PROVE SyncInv'
    BY <2>1, LockSync
  <2>2. ASSUME NEW t \in Tasks, WritePos(t) PROVE SyncInv'
    <3>1. PICK i \in 0..253 : Begin(t, i)
      BY <2>2, IdsAssumption DEF WritePos
    <3>2. UNCHANGED busVars
      BY <2>2 DEF WritePos
    <3> QED  BY <3>1, <3>2, BeginSync
  <2>3. CASE StartServoTask
    <3>1. Begin(Server, Absent) /\ Server \in Tasks /\ Absent \in 0..253 /\ UNCHANGED busVars
      BY <2>3, IdsAssumption DEF StartServoTask, Tasks
    <3> QED  BY <3>1, BeginSync
  <2>4. ASSUME NEW t \in Tasks, Run(t) PROVE SyncInv'
    BY <2>4, WriteBufSync, FlushSync, TestSync, SendSync, ReceiveSync, CheckHeadSync,
       AckSync, TimeoutSync DEF Run
  <2>5. CASE (\E i \in Ids : Delay(i) \/ ServoAnswers(i)) \/ Arrive
    <3>1. UNCHANGED call
      BY <2>5 DEF Delay, ServoAnswers, Arrive
    <3> QED  BY <2>5, <3>1, LineSync
  <2>6. CASE UNCHANGED vars
    <3>1. UNCHANGED <<call, due, late, wire, rdr, clean, before, stray>>
      BY <2>6 DEF vars, busVars, histVars
    <3>2. Rested'
      BY <3>1 DEF SyncInv, Rested, InCall, NothingDue, NoHead
    <3>3. ASSUME NEW t \in Tasks PROVE Sync(t)'
      <4>1. Sync(t) /\ call'[t] = call[t]
        BY <3>1 DEF SyncInv
      <4>2. NoHead' = NoHead /\ (Quiet(t) => Quiet(t)')
        BY <3>1 DEF NoHead, Quiet
      <4>3. call[t].id \in Ids /\ Reader(t) => Reader(t)'
        BY <3>1, SameLine, ReaderKept
      <4> QED  BY <3>1, <4>1, <4>2, <4>3 DEF Sync
    <3> QED  BY <3>2, <3>3 DEF SyncInv
  <2> QED  BY <2>1, <2>2, <2>3, <2>4, <2>5, <2>6 DEF Next
<1>2. IInv /\ IInv' /\ SyncInv /\ [Next]_vars => [A]_vars
  <2> SUFFICES ASSUME IInv, IInv', SyncInv, Next, NEW t \in Tasks, Returns(t),
                      call[t].alone, call[t].id \in Ids, clean, before
               PROVE  acked'
    OBVIOUS
  <2>1. /\ call[t].pc \in Reads /\ call'[t].pc \in {"idle", "locked"}
        /\ HAL_UART_Receive(t) \/ checkHead(t) \/ Ack(t) \/ Timeout(t)
    BY ReturnStep DEF Returns
  <2>2. /\ call[t] \in Calls /\ call \in [Tasks -> Calls] /\ InUse
        /\ \A u \in Tasks \ {t} : call[u].pc \in {"idle", "locked"}
    BY InCallFacts DEF Returns
  <2>3. Reader(t)
    BY <2>1, ReadFacts
  <2>4. ASSUME HAL_UART_Receive(t) PROVE FALSE
    <3>1. call[t].pc \in {"head", "body"}
      BY <2>4 DEF HAL_UART_Receive, At
    <3>2. ~RxBusy
      BY <2>2, <3>1 DEF InUse
    <3>3. PICK p \in {"headwait", "bodywait"} : call' = [call EXCEPT ![t].pc = p]
      BY <2>4, <3>2 DEF HAL_UART_Receive
    <3>4. call'[t].pc = p
      BY <2>2, <3>3 DEF Calls
    <3> QED  BY <2>1, <3>4
  <2>5. ASSUME checkHead(t) PROVE FALSE
    <3>1. call[t].pc = "headwait" /\ rdr # None
      BY <2>5 DEF checkHead, At
    <3>2. CASE ~(rdr = 255 /\ call[t].prev = 255) /\ call[t].at = Skips
      <4>1. call[t].at < 2
        BY <2>3, <3>1, <3>2, NeverGivesUp
      <4> QED  BY <3>2, <4>1, SizesAssumption
    <3>3. CASE ~(~(rdr = 255 /\ call[t].prev = 255) /\ call[t].at = Skips)
      <4>1. PICK p \in {"head", "body"} :
              call' = [call EXCEPT ![t].pc = p, ![t].prev = rdr, ![t].at = @ + 1]
        BY <2>5, <3>3 DEF checkHead
      <4>2. call'[t].pc = p
        BY <2>2, <4>1 DEF Calls
      <4> QED  BY <2>1, <4>2
    <3> QED  BY <3>2, <3>3
  <2>6. ASSUME Timeout(t) PROVE FALSE
    BY <2>3, <2>6, ReaderWaits DEF Timeout
  <2> QED  BY <2>1, <2>4, <2>5, <2>6, AckSync
<1> QED  BY <1>1, <1>2, BusIsKept, InitSync, PTL DEF Spec, Resyncs
===============================================================================
