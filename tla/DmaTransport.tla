----------------------------- MODULE DmaTransport -----------------------------
(***************************************************************************)
(* The serial transport of the micro-ROS client, dma_transport.c: the DMA  *)
(* writes what USART1 receives into a ring for ever, and the ROS task      *)
(* reads the ring from where it left off to where the DMA was when it      *)
(* looked.  Nothing tells the reader that the ring has been overwritten.   *)
(*                                                                         *)
(* A byte is its place in the stream of bytes received since power-on.     *)
(* The client opens, writes, reads, closes and opens again until the agent *)
(* answers (rclc_support_init in ros_init), and then stays open.           *)
(***************************************************************************)
EXTENDS Integers

CONSTANTS
  Size,        \* UART_DMA_BUFFER_SIZE
  Lens,        \* how much a read asks for
  Timeouts,    \* in milliseconds
  MaxBytes,    \* the agent sends so many bytes
  MaxOpens     \* the transport is opened so many times, and last stays open

ASSUME SizeAssumption == Size \in Nat /\ Size > 1

ASSUME ReadsAssumption == Lens \subseteq Nat \ {0} /\ Timeouts \subseteq Int

ASSUME BoundsAssumption == MaxBytes \in Nat /\ MaxOpens \in Nat

VARIABLES
  dma_buffer, dma_head, dma_tail,
  pos,               \* where the DMA writes next: Size minus its counter
  RxBusy, TxBusy,    \* huart1's RxState and gState
  open, opens,       \* the client's session
  pc, len, timeout, ms_used, wrote,   \* the ROS task inside read or write
  \* history:
  sent,              \* bytes received
  next               \* the byte the reader should take next, 0 while out of step

callVars == <<len, timeout, ms_used, wrote>>
vars == <<dma_buffer, dma_head, dma_tail, pos, RxBusy, TxBusy, open, opens, pc,
          callVars, sent, next>>

Cells == 0..(Size - 1)

After(cell) == (cell + 1) % Size

Init ==
  /\ dma_buffer = [c \in Cells |-> 0] /\ dma_head = 0 /\ dma_tail = 0 /\ pos = 0
  /\ RxBusy = FALSE /\ TxBusy = FALSE /\ open = FALSE /\ opens = 0
  /\ pc = "idle" /\ len = 0 /\ timeout = 0 /\ ms_used = 0 /\ wrote = 0
  /\ sent = 0 /\ next = 1
-------------------------------------------------------------------------------
\* Where the reader stands where the DMA is, and is not about to read on to an
\* earlier tail, the ring is empty to it: it goes on with the next byte to come.
\* A byte written over one not yet read, or a DMA that starts afresh elsewhere,
\* puts the reader out of step until then.
CaughtUp == dma_head' = pos' /\ (pc' \notin {"delay", "copy"} \/ dma_head' = dma_tail')

Track(n) == next' = IF CaughtUp THEN sent' + 1 ELSE n

(* The line.                                                                 *)

\* The DMA takes a byte from USART1 and wraps around at the end of the ring.
Receive ==
  /\ RxBusy /\ sent < MaxBytes
  /\ sent' = sent + 1
  /\ dma_buffer' = [dma_buffer EXCEPT ![pos] = sent + 1]
  /\ pos' = After(pos)
  /\ UNCHANGED <<dma_head, dma_tail, RxBusy, TxBusy, open, opens, pc, callVars>>
  /\ Track(IF sent - next + 1 < Size THEN next ELSE 0)

\* A framing, noise, parity or overrun error ends the reception; HAL_UART_ErrorCallback
\* is not overridden, and nothing starts the reception again before the next open.
LineError ==
  /\ RxBusy
  /\ RxBusy' = FALSE
  /\ UNCHANGED <<dma_buffer, dma_head, dma_tail, pos, TxBusy, open, opens, pc,
                 callVars, sent, next>>

\* The last byte of a transmission has left.
TransmitComplete ==
  /\ TxBusy
  /\ TxBusy' = FALSE
  /\ UNCHANGED <<dma_buffer, dma_head, dma_tail, pos, RxBusy, open, opens, pc,
                 callVars, sent, next>>
-------------------------------------------------------------------------------
(* The transport.                                                            *)

\* HAL_UART_Receive_DMA starts at the beginning of the buffer; the reader does not.
cubemx_transport_open ==
  /\ pc = "idle" /\ ~open /\ opens < MaxOpens
  /\ open' = TRUE /\ opens' = opens + 1
  /\ RxBusy' = TRUE
  /\ pos' = IF RxBusy THEN pos ELSE 0
  /\ UNCHANGED <<dma_buffer, dma_head, dma_tail, TxBusy, pc, callVars, sent>>
  /\ Track(0)

cubemx_transport_close ==
  /\ pc = "idle" /\ open /\ opens < MaxOpens
  /\ open' = FALSE
  /\ RxBusy' = FALSE /\ TxBusy' = FALSE
  /\ UNCHANGED <<dma_buffer, dma_head, dma_tail, pos, opens, pc, callVars, sent,
                 next>>

\* A write that finds the transmitter busy returns 0.
cubemx_transport_write ==
  /\ pc = "idle" /\ open /\ ~TxBusy
  /\ TxBusy' = TRUE /\ pc' = "send"
  /\ UNCHANGED <<dma_buffer, dma_head, dma_tail, pos, RxBusy, open, opens, callVars,
                 sent, next>>

\* osDelay(1) until the transmitter is ready.
WriteReturns ==
  /\ pc = "send" /\ ~TxBusy
  /\ pc' = "idle"
  /\ UNCHANGED <<dma_buffer, dma_head, dma_tail, pos, RxBusy, TxBusy, open, opens,
                 callVars, sent, next>>

cubemx_transport_read ==
  /\ pc = "idle" /\ open
  /\ pc' = "sample"
  /\ len' \in Lens /\ timeout' \in Timeouts /\ ms_used' = 0 /\ wrote' = 0
  /\ UNCHANGED <<dma_buffer, dma_head, dma_tail, pos, RxBusy, TxBusy, open, opens,
                 sent, next>>

\* Mutant: the tail is the last byte written.
Sample_OneShort ==
  /\ pc = "sample" /\ pc' = "delay"
  /\ dma_tail' = (pos + Size - 1) % Size
  /\ ms_used' = ms_used + 1
  /\ UNCHANGED <<dma_buffer, dma_head, pos, RxBusy, TxBusy, open, opens, len, timeout,
                 wrote, sent>>
  /\ Track(next)

\* Mutant: the waiting is not counted.
Sample_NoCount ==
  /\ pc = "sample" /\ pc' = "delay"
  /\ dma_tail' = pos
  /\ UNCHANGED <<dma_buffer, dma_head, pos, RxBusy, TxBusy, open, opens, callVars, sent>>
  /\ Track(next)

Sample ==
  /\ pc = "sample" /\ pc' = "delay"
  /\ dma_tail' = pos
  /\ ms_used' = ms_used + 1
  /\ UNCHANGED <<dma_buffer, dma_head, pos, RxBusy, TxBusy, open, opens, len, timeout,
                 wrote, sent>>
  /\ Track(next)

Delay ==
  /\ pc = "delay"
  /\ pc' = IF dma_head = dma_tail /\ ms_used < timeout THEN "sample" ELSE "copy"
  /\ UNCHANGED <<dma_buffer, dma_head, dma_tail, pos, RxBusy, TxBusy, open, opens,
                 callVars, sent>>
  /\ Track(next)

\* Mutant: the reader wraps around a cell too early.
Copy_WrapsShort ==
  /\ pc = "copy" /\ dma_head # dma_tail /\ wrote < len
  /\ dma_head' = (dma_head + 1) % (Size - 1)
  /\ wrote' = wrote + 1
  /\ UNCHANGED <<dma_buffer, dma_tail, pos, RxBusy, TxBusy, open, opens, pc, len,
                 timeout, ms_used, sent>>
  /\ Track(IF next = 0 THEN 0 ELSE next + 1)

\* Mutant: what does not fit into the caller's buffer is dropped.
ReadReturns_Drops ==
  /\ pc = "copy" /\ (dma_head = dma_tail \/ wrote >= len)
  /\ pc' = "idle"
  /\ dma_head' = dma_tail
  /\ UNCHANGED <<dma_buffer, dma_tail, pos, RxBusy, TxBusy, open, opens,
                 callVars, sent>>
  /\ Track(next)

Copy ==
  /\ pc = "copy" /\ dma_head # dma_tail /\ wrote < len
  /\ dma_head' = After(dma_head)
  /\ wrote' = wrote + 1
  /\ UNCHANGED <<dma_buffer, dma_tail, pos, RxBusy, TxBusy, open, opens, pc, len,
                 timeout, ms_used, sent>>
  /\ Track(IF next = 0 THEN 0 ELSE next + 1)

ReadReturns ==
  /\ pc = "copy" /\ (dma_head = dma_tail \/ wrote >= len)
  /\ pc' = "idle"
  /\ UNCHANGED <<dma_buffer, dma_head, dma_tail, pos, RxBusy, TxBusy, open, opens,
                 callVars, sent>>
  /\ Track(next)
-------------------------------------------------------------------------------
Transfer == WriteReturns \/ Sample \/ Delay \/ Copy \/ ReadReturns

Next ==
  \/ Receive \/ LineError \/ TransmitComplete
  \/ cubemx_transport_open \/ cubemx_transport_close
  \/ cubemx_transport_write \/ cubemx_transport_read
  \/ Transfer

\* A transmission ends, a call of the transport runs on, and the client reads over
\* and over again (the executor of the ROS task spins for ever).
Fairness ==
  /\ WF_vars(TransmitComplete) /\ WF_vars(Transfer)
  /\ SF_vars(cubemx_transport_read)

Spec == Init /\ [][Next]_vars

FairSpec == Spec /\ Fairness
-------------------------------------------------------------------------------
(* Properties                                                                *)

\* The reader and the DMA stay inside the ring.
TypeOK ==
  /\ dma_buffer \in [Cells -> 0..sent] /\ pos \in Cells
  /\ dma_head \in Cells /\ dma_tail \in Cells
  /\ RxBusy \in BOOLEAN /\ TxBusy \in BOOLEAN /\ open \in BOOLEAN /\ opens \in Nat
  /\ pc \in {"idle", "send", "sample", "delay", "copy"}
  /\ len \in Nat /\ timeout \in Int /\ ms_used \in Nat /\ wrote \in Nat
  /\ sent \in Nat /\ next \in 0..(sent + 1)

\* Unless bytes were written over or the DMA was started afresh since the reader last
\* saw the ring empty, the byte it would take next is the first it has not taken,
\* however the DMA runs on while it copies.
InOrder == next \in 1..sent => dma_buffer[dma_head] = next

\* Within one opening the reader passes over bytes by nothing less than a whole lap
\* of the DMA around the ring.
LostByLap ==
  [][next # 0 /\ next' # 0 /\ opens' = opens => next' \in {next, next + 1, next + Size}]_vars

\* While the transport is open, a byte that has been received is taken or lost: it is
\* never left in the ring.
ByteTaken == \A n \in 1..MaxBytes : next = n /\ sent >= n ~> next # n \/ ~open

\* A reader out of step catches up with the DMA and is in step again, once the agent
\* pauses.
Resyncs == next = 0 ~> next # 0 \/ ~open

\* Reads and writes return, whether or not anything is received.
CallsReturn == pc # "idle" ~> pc = "idle"
===============================================================================
