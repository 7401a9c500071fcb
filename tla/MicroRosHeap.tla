----------------------------- MODULE MicroRosHeap -----------------------------
(***************************************************************************)
(* The private heap of the micro-ROS library,                              *)
(* src/ROS2_Layer/extra_sources/custom_memory_manager.c, as its client     *)
(* calls it through microros_allocators.c.  Each block begins with a       *)
(* header; the free blocks are linked through their headers in the order   *)
(* of their addresses, and joined with the free blocks beside them.        *)
(*                                                                         *)
(* The operations suspend the scheduler: each is one step.  A header in    *)
(* memory that no longer is one is Blank.                                  *)
(***************************************************************************)
EXTENDS Integers, FiniteSets

CONSTANTS
  Sizes,             \* bytes that are asked for
  Align,             \* portBYTE_ALIGNMENT
  xHeapStructSize,   \* bytes of a header, aligned
  pxEnd              \* the address of the end marker; the heap begins at 0

ASSUME SizesAssumption == Sizes \subseteq Nat

ASSUME LayoutAssumption ==
  /\ Align \in Nat \ {0}
  /\ xHeapStructSize \in Nat \ {0} /\ xHeapStructSize % Align = 0
  /\ pxEnd \in Nat \ {0} /\ pxEnd % Align = 0

VARIABLES
  hdr,                    \* the headers: size, link and allocated bit
  xFreeBytesRemaining,
  xMinimumEverFreeBytesRemaining,
  live,                   \* what the client holds: [at, bytes]
  status,                 \* "running"; or "hung" and "frozen": in the endless loop of a
                          \* failed request, with the scheduler running or suspended
  asked                   \* history: the bytes of the request that failed

freeVars == <<hdr, xFreeBytesRemaining, xMinimumEverFreeBytesRemaining>>
vars == <<freeVars, live, status, asked>>

\* Addresses outside the heap.
NULL == 0 - 2
xStart == 0 - 1

Cells == {a \in 0..pxEnd-1 : a % Align = 0}
Headers == Cells \cup {xStart, pxEnd}

Header(size, next, mine) == [size |-> size, next |-> next, mine |-> mine]
Blank == Header(0, NULL, FALSE)

\* prvHeapInit, which the first request calls.
Init ==
  /\ hdr = [a \in Headers |-> CASE a = xStart -> Header(0, 0, FALSE)
                                [] a = 0 -> Header(pxEnd, pxEnd, FALSE)
                                [] OTHER -> Blank]
  /\ xFreeBytesRemaining = pxEnd /\ xMinimumEverFreeBytesRemaining = pxEnd
  /\ live = {} /\ status = "running" /\ asked = 0

-------------------------------------------------------------------------------
\* The blocks that the loops over the list visit: the n-th from xStart.
Visited(h) ==
  LET c[n \in Nat] == IF n = 0 THEN xStart ELSE h[c[n - 1]].next IN c

Steps == 0..(pxEnd \div Align)

\* The free block after which a block is inserted: the first that leads beyond it.
Iterator(block, h) ==
  LET c == Visited(h)
  IN  c[CHOOSE n \in Steps : h[c[n]].next >= block /\ \A k \in 0..n-1 : h[c[k]].next < block]

\* Mutant: the block before is extended by its own size only.
Insert_LosesSize(block, h) ==
  LET before == Iterator(block, h)
      joined == before + h[before].size = block
  IN  [h EXCEPT ![before].next = IF joined THEN @ ELSE block,
                ![block] = IF joined THEN Blank ELSE Header(@.size, h[before].next, FALSE)]

\* Mutant: the block behind is not joined.
Insert_OneSide(block, h) ==
  LET before == Iterator(block, h)
      after == h[before].next
      joined == before + h[before].size = block
      here == IF joined THEN before ELSE block
      size == IF joined THEN h[before].size + h[block].size ELSE h[block].size
  IN  [a \in Headers |->
         CASE a = here -> Header(size, after, FALSE)
           [] a = before /\ ~joined -> [h[before] EXCEPT !.next = block]
           [] a = block /\ joined -> Blank
           [] OTHER -> h[a]]

\* Links a block into the list, joined with the free block that ends where it
\* begins and with the one that begins where it ends.
prvInsertBlockIntoFreeList(block, h) ==
  LET before == Iterator(block, h)
      after == h[before].next
      front == before + h[before].size = block
      here == IF front THEN before ELSE block
      size == IF front THEN h[before].size + h[block].size ELSE h[block].size
      back == here + size = after /\ after # pxEnd
  IN  [a \in Headers |->
         CASE a = here -> IF back THEN Header(size + h[after].size, h[after].next, FALSE)
                                  ELSE Header(size, after, FALSE)
           [] a = before /\ ~front -> [h[before] EXCEPT !.next = block]
           [] (a = block /\ front) \/ (a = after /\ back) -> Blank
           [] OTHER -> h[a]]

\* The size of the block for a request: with its header, and aligned.
Wanted(bytes) ==
  IF bytes = 0 THEN 0 ELSE ((bytes + xHeapStructSize + Align - 1) \div Align) * Align

\* Mutant: a block that is not split stays in the list.
Take_KeepsWhole(before, wanted, h) ==
  LET block == h[before].next
      rest == h[block].size - wanted
      unlinked == [h EXCEPT ![before].next = h[block].next]
      split == [unlinked EXCEPT ![block].size = wanted,
                                ![block + wanted] = Header(rest, NULL, FALSE)]
      left == prvInsertBlockIntoFreeList(block + wanted, split)
  IN  IF rest > 2 * xHeapStructSize THEN [left EXCEPT ![block] = Header(@.size, NULL, TRUE)] ELSE h

\* Takes the block behind before out of the list, and gives back what is beyond the
\* wanted size if that is more than the smallest block, two headers.
Take(before, wanted, h) ==
  LET block == h[before].next
      rest == h[block].size - wanted
      unlinked == [h EXCEPT ![before].next = h[block].next]
      split == [unlinked EXCEPT ![block].size = wanted,
                                ![block + wanted] = Header(rest, NULL, FALSE)]
      left == IF rest > 2 * xHeapStructSize
              THEN prvInsertBlockIntoFreeList(block + wanted, split) ELSE unlinked
  IN  [left EXCEPT ![block] = Header(@.size, NULL, TRUE)]

\* Where the first free block that is large enough is linked from.
FirstFit(wanted) ==
  LET c == Visited(hdr)
      Stop(n) == hdr[c[n + 1]].size >= wanted \/ c[n + 1] = pxEnd
  IN  c[CHOOSE n \in Steps : Stop(n) /\ \A k \in 0..n-1 : ~Stop(k)]

Fails(bytes) ==
  \/ bytes = 0
  \/ Wanted(bytes) > xFreeBytesRemaining
  \/ hdr[FirstFit(Wanted(bytes))].next = pxEnd

\* What the client gets and what the heap becomes, of a request that does not fail.
Granted(bytes) == hdr[FirstFit(Wanted(bytes))].next + xHeapStructSize
Malloced(bytes) == Take(FirstFit(Wanted(bytes)), Wanted(bytes), hdr)

HeaderOf(l) == l.at - xHeapStructSize

\* Mutant: what remains is computed with the size before the split.
Remaining_BeforeSplit(bytes) ==
  xFreeBytesRemaining - hdr[Granted(bytes) - xHeapStructSize].size

Remaining(bytes) ==
  xFreeBytesRemaining - Malloced(bytes)[Granted(bytes) - xHeapStructSize].size

Lowest(bytes) ==
  IF Remaining(bytes) < xMinimumEverFreeBytesRemaining
  THEN Remaining(bytes) ELSE xMinimumEverFreeBytesRemaining

\* pvPortMallocMicroROS never returns NULL.
Hang(how, bytes) ==
  status' = how /\ asked' = bytes /\ UNCHANGED <<freeVars, live>>

Malloc(bytes, suspended) ==
  /\ status = "running"
  /\ \/ Fails(bytes) /\ Hang(IF suspended THEN "frozen" ELSE "hung", bytes)
     \/ /\ ~Fails(bytes)
        /\ hdr' = Malloced(bytes)
        /\ xFreeBytesRemaining' = Remaining(bytes)
        /\ xMinimumEverFreeBytesRemaining' = Lowest(bytes)
        /\ live' = live \cup {[at |-> Granted(bytes), bytes |-> bytes]}
        /\ UNCHANGED <<status, asked>>
-------------------------------------------------------------------------------
(* microros_allocators.c.  The client only gives back what it holds.         *)

microros_allocate(bytes) == Malloc(bytes, FALSE)

microros_zero_allocate(bytes) == Malloc(bytes, TRUE)

\* Mutant: the bytes given back are not counted.
microros_deallocate_NoCount(l) ==
  /\ status = "running"
  /\ live' = live \ {l}
  /\ hdr' = prvInsertBlockIntoFreeList(HeaderOf(l), [hdr EXCEPT ![HeaderOf(l)].mine = FALSE])
  /\ UNCHANGED <<xFreeBytesRemaining, xMinimumEverFreeBytesRemaining, status, asked>>

microros_deallocate(l) ==
  /\ status = "running"
  /\ live' = live \ {l}
  /\ hdr' = prvInsertBlockIntoFreeList(HeaderOf(l), [hdr EXCEPT ![HeaderOf(l)].mine = FALSE])
  /\ xFreeBytesRemaining' = xFreeBytesRemaining + hdr[HeaderOf(l)].size
  /\ UNCHANGED <<xMinimumEverFreeBytesRemaining, status, asked>>

\* The headers behind the new block that the copy overwrites: it copies as many bytes
\* as the old block has, its header included.
Overwritten(l, bytes) ==
  LET block == Granted(bytes) - xHeapStructSize
  IN  {a \in Headers : /\ a >= block + Malloced(bytes)[block].size
                       /\ a < Granted(bytes) + hdr[HeaderOf(l)].size}

Held(a) == \E l \in live : HeaderOf(l) = a

\* New memory, the copy, and the return of the old.  Behind a copy that overwrites a
\* header the model stops: the heap is what the client's data made of it.
microros_reallocate(l, bytes) ==
  /\ status = "running"
  /\ \/ Fails(bytes) /\ Hang("frozen", bytes)
     \/ /\ ~Fails(bytes) /\ UNCHANGED asked
        /\ xMinimumEverFreeBytesRemaining' = Lowest(bytes)
        /\ live' = (live \ {l}) \cup {[at |-> Granted(bytes), bytes |-> bytes]}
        /\ xFreeBytesRemaining' = Remaining(bytes) + hdr[HeaderOf(l)].size
        /\ LET copied == [a \in Headers |-> IF a \in Overwritten(l, bytes) THEN Blank
                                            ELSE Malloced(bytes)[a]]
           IN  IF \E a \in Overwritten(l, bytes) : Malloced(bytes)[a] # Blank \/ a = pxEnd
               THEN hdr' = copied /\ status' = "overwritten"
               ELSE /\ hdr' = prvInsertBlockIntoFreeList(HeaderOf(l),
                                 [copied EXCEPT ![HeaderOf(l)].mine = FALSE])
                    /\ UNCHANGED status

Next ==
  \/ \E bytes \in Sizes : microros_allocate(bytes) \/ microros_zero_allocate(bytes)
  \/ \E l \in live : microros_deallocate(l)
  \/ \E l \in live, bytes \in Sizes : microros_reallocate(l, bytes)

Spec == Init /\ [][Next]_vars

\* A client that reallocates only to a block that is larger by a header.
Grows(l, bytes) == Wanted(bytes) >= hdr[HeaderOf(l)].size + xHeapStructSize

GrowingNext ==
  \/ \E bytes \in Sizes : microros_allocate(bytes) \/ microros_zero_allocate(bytes)
  \/ \E l \in live : microros_deallocate(l)
  \/ \E l \in live, bytes \in Sizes : Grows(l, bytes) /\ microros_reallocate(l, bytes)

GrowingSpec == Init /\ [][GrowingNext]_vars
-------------------------------------------------------------------------------
(* Properties                                                                *)

Blocks == {a \in Cells : hdr[a].size > 0}
FreeBlocks == {a \in Blocks : ~hdr[a].mine}
EndOf(a) == a + hdr[a].size

\* Headers hold aligned sizes and addresses; the counts are those of a size_t.
TypeOK ==
  /\ hdr \in [Headers -> [size : Cells \cup {pxEnd}, next : Headers \cup {NULL}, mine : BOOLEAN]]
  /\ xFreeBytesRemaining \in 0..pxEnd /\ xMinimumEverFreeBytesRemaining \in 0..pxEnd
  /\ live \subseteq [at : Cells, bytes : Sizes]
  /\ status \in {"running", "hung", "frozen", "overwritten"} /\ asked \in Sizes \cup {0}

\* Through all splits and joins the blocks lie side by side from the start of the heap
\* to its end marker: no byte is lost and none belongs to two blocks.
Tiled ==
  /\ 0 \in Blocks
  /\ \A a \in Blocks : EndOf(a) \in Blocks \cup {pxEnd} /\ Blocks \cap (a+1..EndOf(a)-1) = {}

\* The list leads from each free block to the next by address, to the end marker; it
\* has every block that nobody holds, and free blocks that touch have been joined.
ListIsJoined ==
  /\ \A a \in FreeBlocks \cup {xStart} :
       /\ hdr[a].next \in FreeBlocks \cup {pxEnd} /\ hdr[a].next > a
       /\ FreeBlocks \cap (a+1..hdr[a].next-1) = {}
  /\ \A a \in FreeBlocks : EndOf(a) \notin FreeBlocks
  /\ \A a \in Blocks : hdr[a].mine <=> Held(a)

\* The count of free bytes is the number of those that lie in a free block: a request is
\* refused by the count, without a look at the list.
FreeBytes == {z \in 0..pxEnd-1 : \E a \in FreeBlocks : z \in a..EndOf(a)-1}

Counted == xFreeBytesRemaining = Cardinality(FreeBytes)

\* The two assertions of vPortFreeMicroROS hold of every block that the client may give
\* back: its header says that it is allocated and on no list.
FreeChecks ==
  \A l \in live : hdr[HeaderOf(l)].mine /\ hdr[HeaderOf(l)].next = NULL

\* A request only fails, and with it the firmware, if no free block could hold it.
FailsWhenFull ==
  status \in {"hung", "frozen"} => asked = 0 \/ \A a \in FreeBlocks : hdr[a].size < Wanted(asked)

\* The client's memory is its own: the heap implements its contract.
Contract == INSTANCE HeapContract WITH Top <- pxEnd

ImplementsHeap == Contract!Heap
===============================================================================
