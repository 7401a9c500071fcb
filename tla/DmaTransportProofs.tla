-------------------------- MODULE DmaTransportProofs --------------------------
(***************************************************************************)
(* What the ring of the serial transport keeps, for every size of the ring *)
(* and every read.                                                         *)
(***************************************************************************)
EXTENDS DmaTransport, TLAPS

USE SizeAssumption, ReadsAssumption, BoundsAssumption

\* The cell i places on from h.
Cell(h, i) == IF h + i < Size THEN h + i ELSE h + i - Size

\* The bytes received and not taken.
Unread == sent + 1 - next

\* The reader has seen bytes that it is still to take.
Committed == pc \in {"delay", "copy"} /\ dma_head # dma_tail

\* In step, the unread bytes lie in the ring from the reader to the DMA, at most a
\* lap of them and a lap only while the reader is about to take some, and the tail
\* it has seen is one of their ends.
RingInv ==
  next # 0 =>
    /\ Unread \in 0..Size
    /\ pos = Cell(dma_head, Unread)
    /\ \A i \in 0..(Unread - 1) : dma_buffer[Cell(dma_head, i)] = next + i
    /\ Unread = Size => Committed
    /\ Committed => \E t \in 1..Unread : t < Size /\ dma_tail = Cell(dma_head, t)

IInv == TypeOK /\ RingInv

LEMMA AfterCell ==
  ASSUME NEW c \in Cells
  PROVE  After(c) = Cell(c, 1) /\ After(c) \in Cells
<1>1. CASE c + 1 < Size
  <2>1. (c + 1) % Size = c + 1
    BY <1>1, SMT DEF Cells
  <2> QED  BY <1>1, <2>1 DEF After, Cell, Cells
<1>2. CASE c + 1 = Size
  <2>1. Size % Size = 0
    BY SMT
  <2> QED  BY <1>2, <2>1 DEF After, Cell, Cells
<1> QED  BY <1>1, <1>2 DEF Cells

\* Places on from places on.
LEMMA CellOn ==
  ASSUME NEW h \in Cells, NEW i \in 0..Size
  PROVE  /\ Cell(h, i) \in Cells
         /\ i < Size => Cell(Cell(h, i), 1) = Cell(h, i + 1)
         /\ i > 0 => Cell(Cell(h, 1), i - 1) = Cell(h, i)
         /\ Cell(h, i) = h <=> i \in {0, Size}
         /\ Cell(h, 0) = h /\ Cell(h, Size) = h
         /\ \A j \in 0..(Size - 1) : Cell(h, j) = Cell(h, i) =>
              j = i \/ (j = 0 /\ i = Size)
BY DEF Cell, Cells

\* The ring is empty and the reader in step at power-on.
LEMMA InitInv == Init => IInv
<1> SUFFICES ASSUME Init PROVE IInv
  OBVIOUS
<1>1. dma_buffer \in [Cells -> 0..sent] /\ 0 \in Cells
  BY DEF Init, Cells
<1>2. TypeOK
  <2>1. RxBusy \in BOOLEAN /\ TxBusy \in BOOLEAN /\ open \in BOOLEAN
    BY DEF Init
  <2>2. /\ dma_head = 0 /\ dma_tail = 0 /\ pos = 0 /\ opens = 0 /\ pc = "idle" /\ len = 0
        /\ timeout = 0 /\ ms_used = 0 /\ wrote = 0 /\ sent = 0 /\ next = 1
    BY DEF Init
  <2> QED  BY <1>1, <2>1, <2>2 DEF TypeOK
<1>3. RingInv
  BY DEF Init, RingInv, Unread, Committed, Cell
<1> QED  BY <1>2, <1>3 DEF IInv

\* Where the ring is empty to the reader, it is in step.
LEMMA Emptied ==
  ASSUME NEW n \in Nat, NEW h \in Cells,
         sent' = n, dma_head' = h, CaughtUp, next' = n + 1
  PROVE  RingInv'
<1>1. pos' = h
  BY DEF CaughtUp
<1>2. ~Committed'
  BY DEF CaughtUp, Committed
<1>3. Cell(h, 0) = h
  BY DEF Cell, Cells
<1>4. Unread' = 0
  BY DEF Unread
<1> QED  BY <1>1, <1>2, <1>3, <1>4 DEF RingInv, Cell

\* A byte is written behind the last unread one, or over one that is lost.
LEMMA ReceiveInv ==
  ASSUME IInv, Receive
  PROVE  IInv'
<1> USE DEF IInv
<1>1. /\ sent' = sent + 1 /\ dma_buffer' = [dma_buffer EXCEPT ![pos] = sent + 1]
      /\ pos' = After(pos) /\ UNCHANGED <<dma_head, dma_tail, pc>>
  BY DEF Receive
<1>2. next' = IF CaughtUp THEN sent' + 1 ELSE IF sent - next + 1 < Size THEN next ELSE 0
  BY DEF Receive, Track
<1>3. pos' \in Cells
  BY <1>1, AfterCell DEF TypeOK
<1>4. TypeOK'
  <2>1. dma_buffer' \in [Cells -> 0..sent']
    BY <1>1 DEF TypeOK
  <2>2. next' \in 0..(sent' + 1) /\ sent' \in Nat
    BY <1>1, <1>2 DEF TypeOK
  <2> QED  BY <1>1, <1>3, <2>1, <2>2 DEF Receive, callVars, TypeOK
<1>5. CASE CaughtUp
  BY <1>2, <1>4, <1>5, Emptied DEF TypeOK
<1>6. CASE ~CaughtUp
  <2> SUFFICES ASSUME next' # 0 PROVE RingInv'
    BY <1>4 DEF RingInv
  <2> DEFINE u == Unread
  <2>1. next' = next /\ next # 0 /\ u \in 0..(Size - 1)
    <3>1. next' = next /\ next # 0 /\ sent - next + 1 < Size
      BY <1>2, <1>6
    <3>2. u \in 0..Size
      BY <3>1 DEF RingInv
    <3> QED  BY <3>1, <3>2 DEF TypeOK, Unread
  <2>2. Unread' = u + 1
    BY <1>1, <2>1 DEF Unread, TypeOK
  <2>3. dma_head \in Cells /\ pos = Cell(dma_head, u) /\ u < Size
    BY <2>1 DEF RingInv, TypeOK
  <2>4. pos' = Cell(dma_head, u + 1)
    BY <1>1, <2>1, <2>3, AfterCell, CellOn DEF TypeOK
  <2>5. ASSUME NEW i \in 0..u  PROVE dma_buffer'[Cell(dma_head, i)] = next + i
    <3>1. Cell(dma_head, i) \in Cells
      BY <2>1, <2>3, CellOn
    <3>2. CASE i = u
      BY <1>1, <2>3, <3>1, <3>2 DEF TypeOK, Unread
    <3>3. CASE i # u
      <4>1. Cell(dma_head, i) # pos
        BY <2>1, <2>3, <3>3, CellOn
      <4>2. dma_buffer[Cell(dma_head, i)] = next + i
        BY <2>1, <3>3 DEF RingInv
      <4> QED  BY <1>1, <3>1, <4>1, <4>2 DEF TypeOK
    <3> QED  BY <3>2, <3>3
  <2>6. u + 1 = Size => Committed'
    <3> SUFFICES ASSUME u + 1 = Size PROVE Committed'
      OBVIOUS
    <3>1. pos' = dma_head
      BY <2>3, <2>4, CellOn
    <3> QED  BY <1>1, <1>6, <3>1 DEF CaughtUp, Committed
  <2>7. Committed' => \E t \in 1..(u + 1) : t < Size /\ dma_tail = Cell(dma_head, t)
    <3> SUFFICES ASSUME Committed PROVE \E t \in 1..(u + 1) : t < Size /\ dma_tail = Cell(dma_head, t)
      BY <1>1 DEF Committed
    <3>1. PICK t \in 1..u : t < Size /\ dma_tail = Cell(dma_head, t)
      BY <2>1 DEF RingInv
    <3> QED  BY <2>1, <3>1
  <2> HIDE DEF u
  <2> QED  BY <1>1, <2>1, <2>2, <2>4, <2>5, <2>6, <2>7 DEF RingInv, Cell
<1> QED  BY <1>4, <1>5, <1>6

\* The reader takes the first unread byte.
LEMMA CopyInv ==
  ASSUME IInv, Copy
  PROVE  IInv'
<1> USE DEF IInv
<1>1. /\ pc = "copy" /\ dma_head # dma_tail /\ dma_head' = After(dma_head)
      /\ UNCHANGED <<dma_buffer, dma_tail, pos, pc, sent>>
  BY DEF Copy
<1>2. next' = IF CaughtUp THEN sent' + 1 ELSE IF next = 0 THEN 0 ELSE next + 1
  BY DEF Copy, Track
<1>3. dma_head' = Cell(dma_head, 1) /\ dma_head' \in Cells
  BY <1>1, AfterCell DEF TypeOK
<1>4. ASSUME next # 0
      PROVE  \E t \in 1..Unread : t < Size /\ dma_tail = Cell(dma_head, t)
  BY <1>1, <1>4 DEF RingInv, Committed
<1>5. TypeOK'
  <2>1. next' \in 0..(sent' + 1)
    BY <1>1, <1>2, <1>4 DEF TypeOK, Unread
  <2>2. wrote' \in Nat
    BY DEF Copy, TypeOK
  <2> QED  BY <1>1, <1>3, <2>1, <2>2 DEF Copy, TypeOK
<1>6. CASE CaughtUp
  BY <1>2, <1>5, <1>6, Emptied DEF TypeOK
<1>7. CASE ~CaughtUp
  <2> SUFFICES ASSUME next # 0 PROVE RingInv'
    BY <1>2, <1>5, <1>7 DEF RingInv
  <2> DEFINE u == Unread
  <2>1. next' = next + 1 /\ u \in 1..Size /\ dma_head \in Cells
    <3>1. u \in 0..Size
      BY DEF RingInv
    <3> QED  BY <1>2, <1>4, <1>7, <3>1 DEF TypeOK
  <2>2. Unread' = u - 1
    BY <1>1, <2>1 DEF Unread, TypeOK
  <2>3. pos = Cell(dma_head', u - 1)
    <3>1. pos = Cell(dma_head, u)
      BY DEF RingInv
    <3> QED  BY <1>3, <2>1, <3>1, CellOn
  <2>4. ASSUME NEW i \in 0..(u - 2)  PROVE dma_buffer[Cell(dma_head', i)] = next + 1 + i
    <3>1. Cell(dma_head', i) = Cell(dma_head, i + 1)
      BY <1>3, <2>1, CellOn, i + 1 \in 0..Size, (i + 1) - 1 = i
    <3>2. dma_buffer[Cell(dma_head, i + 1)] = next + (i + 1)
      BY <2>1 DEF RingInv
    <3> QED  BY <3>1, <3>2 DEF TypeOK
  <2>5. Committed' => \E t \in 1..(u - 1) : t < Size /\ dma_tail = Cell(dma_head', t)
    <3> SUFFICES ASSUME Committed'
                 PROVE  \E t \in 1..(u - 1) : t < Size /\ dma_tail = Cell(dma_head', t)
      OBVIOUS
    <3>1. PICK t \in 1..u : t < Size /\ dma_tail = Cell(dma_head, t)
      BY <1>4
    <3>2. t # 1
      BY <1>1, <1>3, <3>1 DEF Committed
    <3>3. dma_tail = Cell(dma_head', t - 1)
      BY <1>3, <2>1, <3>1, CellOn
    <3>4. t - 1 \in 1..(u - 1) /\ t - 1 < Size
      BY <2>1, <3>1, <3>2
    <3> QED  BY <3>3, <3>4
  <2> HIDE DEF u
  <2>6. (u - 1) - 1 = u - 2 /\ u - 1 \in 0..Size /\ u - 1 # Size
    BY <2>1
  <2> QED  BY <1>1, <2>1, <2>2, <2>3, <2>4, <2>5, <2>6 DEF RingInv, Cell
<1> QED  BY <1>5, <1>6, <1>7

\* The reader looks where the DMA is.
LEMMA SampleInv ==
  ASSUME IInv, Sample
  PROVE  IInv'
<1> USE DEF IInv
<1>1. /\ pc = "sample" /\ pc' = "delay" /\ dma_tail' = pos
      /\ UNCHANGED <<dma_buffer, dma_head, pos, sent>>
  BY DEF Sample
<1>2. next' = IF CaughtUp THEN sent' + 1 ELSE next
  BY DEF Sample, Track
<1>3. TypeOK'
  <2>1. next' \in 0..(sent' + 1) /\ ms_used' \in Nat
    BY <1>1, <1>2 DEF Sample, TypeOK
  <2> QED  BY <1>1, <2>1 DEF Sample, TypeOK
<1>4. CASE CaughtUp
  BY <1>2, <1>3, <1>4, Emptied DEF TypeOK
<1>5. CASE ~CaughtUp
  <2> SUFFICES ASSUME next # 0 PROVE RingInv'
    BY <1>2, <1>3, <1>5 DEF RingInv
  <2>1. Unread \in 0..Size /\ Unread # Size /\ pos = Cell(dma_head, Unread)
    BY <1>1 DEF RingInv, Committed
  <2>2. dma_head # pos
    BY <1>1, <1>5 DEF CaughtUp
  <2>3. Unread # 0
    BY <2>1, <2>2 DEF TypeOK, Cell, Cells
  <2>4. Unread' = Unread /\ next' = next
    BY <1>1, <1>2, <1>5 DEF Unread
  <2>5. Unread \in 1..Unread /\ Unread < Size
    BY <2>1, <2>3
  <2>6. Committed' => \E t \in 1..Unread : t < Size /\ dma_tail' = Cell(dma_head, t)
    BY <1>1, <2>1, <2>5
  <2> QED  BY <1>1, <2>1, <2>4, <2>5, <2>6 DEF RingInv, Cell
<1> QED  BY <1>3, <1>4, <1>5

\* The other steps of the reader leave the ring as it is.
LEMMA WaitInv ==
  ASSUME IInv, Delay \/ ReadReturns
  PROVE  IInv'
<1> USE DEF IInv
<1>1. /\ UNCHANGED <<dma_buffer, dma_head, dma_tail, pos, sent>>
      /\ pc \in {"delay", "copy"} /\ pc' \in {"sample", "copy", "idle"}
      /\ pc' = "sample" => dma_head = dma_tail
  BY DEF Delay, ReadReturns
<1>2. next' = IF CaughtUp THEN sent' + 1 ELSE next
  BY DEF Delay, ReadReturns, Track
<1>3. TypeOK'
  <2>1. next' \in 0..(sent' + 1)
    BY <1>1, <1>2 DEF TypeOK
  <2> QED  BY <1>1, <2>1 DEF Delay, ReadReturns, callVars, TypeOK
<1>4. CASE CaughtUp
  BY <1>2, <1>3, <1>4, Emptied DEF TypeOK
<1>5. CASE ~CaughtUp
  <2> SUFFICES ASSUME next # 0 PROVE RingInv'
    BY <1>2, <1>3, <1>5 DEF RingInv
  <2>1. Unread' = Unread /\ next' = next
    BY <1>1, <1>2, <1>5 DEF Unread
  <2>2. Unread = Size => Committed'
    <3> SUFFICES ASSUME Unread = Size PROVE Committed'
      OBVIOUS
    <3>1. pos = dma_head /\ dma_head # dma_tail
      BY DEF RingInv, Committed, TypeOK, Cell, Cells
    <3> QED  BY <1>1, <1>5, <3>1 DEF CaughtUp, Committed
  <2>3. Committed' => Committed
    BY <1>1 DEF Committed
  <2> QED  BY <1>1, <2>1, <2>2, <2>3 DEF RingInv, Cell
<1> QED  BY <1>3, <1>4, <1>5

\* The steps of the line and the other calls.
LEMMA OtherInv ==
  ASSUME IInv,
         \/ LineError \/ TransmitComplete
         \/ cubemx_transport_open \/ cubemx_transport_close
         \/ cubemx_transport_write \/ cubemx_transport_read \/ WriteReturns
  PROVE  IInv'
<1> USE DEF IInv
<1>1. CASE cubemx_transport_open
  <2>1. TypeOK'
    BY <1>1 DEF cubemx_transport_open, Track, callVars, TypeOK, Cells
  <2>2. next' = IF CaughtUp THEN sent' + 1 ELSE 0
    BY <1>1 DEF cubemx_transport_open, Track
  <2> QED  BY <2>1, <2>2, Emptied DEF RingInv, TypeOK
<1>2. CASE \/ LineError \/ TransmitComplete \/ cubemx_transport_close
           \/ cubemx_transport_write \/ cubemx_transport_read \/ WriteReturns
  <2>1. UNCHANGED <<dma_buffer, dma_head, dma_tail, pos, sent, next>>
    BY <1>2 DEF LineError, TransmitComplete, cubemx_transport_close, cubemx_transport_write,
       cubemx_transport_read, WriteReturns
  <2>2. TypeOK'
    <3> USE DEF TypeOK, callVars
    <3>1. CASE LineError
      BY <3>1 DEF LineError
    <3>2. CASE TransmitComplete
      BY <3>2 DEF TransmitComplete
    <3>3. CASE cubemx_transport_close
      BY <3>3 DEF cubemx_transport_close
    <3>4. CASE cubemx_transport_write
      BY <3>4 DEF cubemx_transport_write
    <3>5. CASE cubemx_transport_read
      BY <3>5 DEF cubemx_transport_read
    <3>6. CASE WriteReturns
      BY <3>6 DEF WriteReturns
    <3> QED  BY <1>2, <3>1, <3>2, <3>3, <3>4, <3>5, <3>6
  <2>3. pc' = pc \/ (pc \notin {"delay", "copy"} /\ pc' \notin {"delay", "copy"})
    BY <1>2 DEF LineError, TransmitComplete, cubemx_transport_close, cubemx_transport_write,
       cubemx_transport_read, WriteReturns
  <2>4. Committed' = Committed /\ Unread' = Unread
    BY <2>1, <2>3 DEF Committed, Unread
  <2> QED  BY <2>1, <2>2, <2>4 DEF RingInv, Cell
<1> QED  BY <1>1, <1>2

\* The ring keeps the unread bytes in every behaviour.
THEOREM RingKept == Spec => []IInv
<1>1. IInv /\ [Next]_vars => IInv'
  <2> SUFFICES ASSUME IInv, [Next]_vars PROVE IInv'
    OBVIOUS
  <2>1. CASE UNCHANGED vars
    BY <2>1 DEF vars, callVars, IInv, TypeOK, RingInv, Unread, Committed, Cell
  <2> QED
    BY <2>1, ReceiveInv, CopyInv, SampleInv, WaitInv, OtherInv DEF Next, Transfer
<1> QED  BY <1>1, InitInv, PTL DEF Spec

\* The reader and the DMA stay inside the ring.
THEOREM TypeCorrect == Spec => []TypeOK
<1>1. IInv => TypeOK
  BY DEF IInv
<1> QED  BY <1>1, RingKept, PTL

\* In step, the reader takes the bytes in the order in which they came.
THEOREM TakenInOrder == Spec => []InOrder
<1>1. IInv => InOrder
  <2> SUFFICES ASSUME IInv, next \in 1..sent PROVE dma_buffer[dma_head] = next
    BY DEF InOrder
  <2>1. next # 0 /\ Unread - 1 \in Nat /\ 0 \in 0..(Unread - 1) /\ next \in Int
    BY DEF IInv, TypeOK, Unread
  <2>2. dma_buffer[Cell(dma_head, 0)] = next + 0
    BY <2>1 DEF IInv, RingInv
  <2>3. Cell(dma_head, 0) = dma_head
    BY DEF IInv, TypeOK, Cell, Cells
  <2> QED  BY <2>1, <2>2, <2>3
<1> QED  BY <1>1, RingKept, PTL

\* The reader only passes over bytes by a whole lap of the DMA.
THEOREM OnlyLapsLose == Spec => LostByLap
<1> DEFINE Step == next # 0 /\ next' # 0 /\ opens' = opens =>
                     next' \in {next, next + 1, next + Size}
<1>1. IInv /\ IInv' /\ [Next]_vars => Step
  <2> SUFFICES ASSUME IInv, IInv', [Next]_vars, next # 0, next' # 0, opens' = opens
               PROVE  next' \in {next, next + 1, next + Size}
    OBVIOUS
  <2> USE DEF IInv
  <2>0. next \in Nat /\ sent \in Nat /\ Unread \in 0..Size /\ pos = Cell(dma_head, Unread)
        /\ dma_head \in Cells /\ pos \in Cells
    BY DEF TypeOK, RingInv
  <2>1. CASE Receive
    <3>1. sent' = sent + 1 /\ dma_head' = dma_head /\ pos' = After(pos)
      BY <2>1 DEF Receive
    <3>2. next' = IF CaughtUp THEN sent' + 1 ELSE IF sent - next + 1 < Size THEN next ELSE 0
      BY <2>1 DEF Receive, Track
    <3>3. CASE CaughtUp
      <4>1. After(pos) = dma_head /\ (pc \notin {"delay", "copy"} \/ dma_head = dma_tail)
        BY <2>1, <3>1, <3>3 DEF CaughtUp, Receive
      <4>2. Unread # Size
        BY <4>1 DEF RingInv, Committed
      <4>3. Cell(dma_head, Unread + 1) = dma_head /\ Unread + 1 \in 1..Size
        BY <2>0, <4>1, <4>2, AfterCell, CellOn
      <4>4. Unread + 1 = Size
        BY <2>0, <4>3, CellOn
      <4> QED  BY <2>0, <3>1, <3>2, <3>3, <4>4 DEF Unread
    <3> QED  BY <3>2, <3>3
  <2>2. CASE Copy
    <3>1. sent' = sent /\ pos' = pos
          /\ next' = IF CaughtUp THEN sent' + 1 ELSE next + 1
      BY <2>2 DEF Copy, Track
    <3>2. CASE CaughtUp
      <4>1. pos = Cell(dma_head, 1)
        BY <2>0, <2>2, <3>1, <3>2, AfterCell DEF Copy, CaughtUp
      <4>2. Committed
        BY <2>2 DEF Copy, Committed
      <4>3. Unread # 0
        BY <2>0, <4>2 DEF RingInv
      <4>4. Unread = 1
        BY <2>0, <4>1, <4>3, CellOn DEF Cell, Cells
      <4> QED  BY <2>0, <3>1, <3>2, <4>4 DEF Unread
    <3> QED  BY <3>1, <3>2
  <2>3. CASE Sample \/ Delay \/ ReadReturns
    <3>1. sent' = sent /\ pos' = pos /\ dma_head' = dma_head
          /\ next' = IF CaughtUp THEN sent' + 1 ELSE next
      BY <2>3 DEF Sample, Delay, ReadReturns, Track
    <3>2. CASE CaughtUp
      <4>1. Cell(dma_head, Unread) = dma_head
        BY <2>0, <3>1, <3>2 DEF CaughtUp
      <4>2. Unread \in {0, Size}
        BY <2>0, <4>1 DEF Cell, Cells
      <4> QED  BY <2>0, <3>1, <3>2, <4>2 DEF Unread
    <3> QED  BY <3>1, <3>2
  <2>4. CASE cubemx_transport_open
    BY <2>4 DEF cubemx_transport_open, TypeOK
  <2>5. CASE UNCHANGED next
    BY <2>5
  <2> QED
    BY <2>1, <2>2, <2>3, <2>4, <2>5 DEF Next, Transfer, LineError, TransmitComplete,
       cubemx_transport_close, cubemx_transport_write, cubemx_transport_read, WriteReturns,
       vars
<1>2. IInv /\ IInv' /\ [Next]_vars => [Step]_vars
  BY <1>1
<1> HIDE DEF Step
<1>3. Spec => [][Step]_vars
  BY <1>2, RingKept, PTL DEF Spec
<1> QED  BY <1>3 DEF Step, LostByLap
===============================================================================
