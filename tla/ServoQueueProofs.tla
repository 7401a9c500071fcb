--------------------------- MODULE ServoQueueProofs ---------------------------
(* The linked list of actions, for every heap, set of joints and clock, and that its
   waits are long enough while speeds change only between actions. *)
EXTENDS ServoQueue, SequenceTheorems, TLAPS

\* What the operations rely on besides the list itself.
Entry == [node : Nodes, act : Acts]

Shape(r) == r = [acts |-> r.acts, time |-> r.time, speed |-> r.speed,
                 Next |-> r.Next, free |-> r.free]

ShapeInv ==
  /\ heap = [n \in Nodes |-> heap[n]]
  /\ \A n \in Nodes : Shape(heap[n])
  /\ order \in Seq(Entry)

IInv == ShapeInv /\ ListIsOrder

LEMMA InitInv == Init => IInv
<1> SUFFICES ASSUME Init PROVE IInv
  OBVIOUS
<1>1. /\ heap = [n \in Nodes |-> Free] /\ Current = NULL /\ Last = NULL /\ order = <<>>
  BY DEF Init
<1>2. ShapeInv
  <2>1. Shape(Free)
    BY DEF Shape, Free
  <2>2. \A n \in Nodes : heap[n] = Free
    BY <1>1
  <2>3. order \in Seq(Entry)
    BY <1>1
  <2> QED  BY <1>1, <2>1, <2>2, <2>3 DEF ShapeInv
<1>3. ListIsOrder
  <2>1. 1..Len(order) = {} /\ \A n \in Nodes : heap[n] = Free
    BY <1>1
  <2> QED  BY <1>1, <2>1 DEF ListIsOrder
<1> QED  BY <1>2, <1>3 DEF IInv

\* The nodes of the list are allocated nodes.
LEMMA Ends ==
  ASSUME IInv
  PROVE  /\ Len(order) \in Nat
         /\ \A i \in 1..Len(order) : order[i] \in Entry /\ order[i].node \in Nodes
         /\ Current = NULL <=> order = <<>>
         /\ order # <<>> <=> Len(order) > 0
         /\ order # <<>> => Current \in Nodes /\ Last \in Nodes
<1>1. order \in Seq(Entry) /\ NULL \notin Nodes
  BY NodesAssumption DEF IInv, ShapeInv
<1>2. Len(order) \in Nat /\ \A i \in 1..Len(order) : order[i] \in Entry
  BY <1>1
<1>3. \A i \in 1..Len(order) : order[i].node \in Nodes
  BY <1>2 DEF Entry
<1>4. order # <<>> <=> Len(order) > 0
  BY <1>1
<1>5. order # <<>> => Current \in Nodes /\ Last \in Nodes
  <2> SUFFICES ASSUME order # <<>> PROVE Current \in Nodes /\ Last \in Nodes
    OBVIOUS
  <2>1. 1 \in 1..Len(order) /\ Len(order) \in 1..Len(order)
    BY <1>2, <1>4
  <2>2. Current = order[1].node /\ Last = order[Len(order)].node
    BY DEF IInv, ListIsOrder
  <2> QED  BY <1>3, <2>1, <2>2
<1>6. order = <<>> => Current = NULL
  BY DEF IInv, ListIsOrder
<1> QED  BY <1>1, <1>2, <1>3, <1>4, <1>5, <1>6

LEMMA NewNodeShape ==
  ASSUME NEW id, NEW value, NEW time
  PROVE  LET r == NewNode(id, value, time)
         IN  /\ Shape(r) /\ r.Next = NULL /\ r.free = FALSE
             /\ r.acts = <<[id |-> id, value |-> value]>>
<1> DEFINE t == TimeOf(id, value, time)
           s == IF id \in Steppers THEN StepperSpeed(time) ELSE -1
<1>1. NewNode(id, value, time) =
        [acts |-> <<[id |-> id, value |-> value]>>, time |-> t, speed |-> s,
         Next |-> NULL, free |-> FALSE]
  BY DEF NewNode
<1> HIDE DEF t, s
<1> QED  BY <1>1 DEF Shape

LEMMA StartedShape ==
  ASSUME NEW r, Shape(r)
  PROVE  LET started == [r EXCEPT !.acts = <<>>]
         IN  /\ Shape(started) /\ started.acts = <<>>
             /\ started.Next = r.Next /\ started.free = r.free
BY DEF Shape

\* An action that is added to an empty list is its only node, and is commanded.
LEMMA AddFirst ==
  ASSUME IInv, NEW id \in Joints, NEW value \in Values, NEW time, NEW n \in Nodes,
         Current = NULL,
         Current' = n, Last' = n,
         order' = Append(order, [node |-> n, act |-> [id |-> id, value |-> value]]),
         heap' = [heap EXCEPT ![n] = [NewNode(id, value, time) EXCEPT !.acts = <<>>]]
  PROVE  IInv'
<1> DEFINE e == [node |-> n, act |-> [id |-> id, value |-> value]]
           w == NewNode(id, value, time)
           r == [w EXCEPT !.acts = <<>>]
<1>1. order = <<>> /\ e \in Entry
  BY Ends DEF Entry, Acts
<1>2. order' = <<e>>
  BY <1>1
<1>3. order' \in Seq(Entry) /\ Len(order') = 1 /\ order'[1] = e
  BY <1>1, <1>2
<1>4. heap = [m \in Nodes |-> heap[m]] /\ \A m \in Nodes : Shape(heap[m]) /\ heap[m] = Free
  <2>1. heap = [m \in Nodes |-> heap[m]] /\ \A m \in Nodes : Shape(heap[m])
    BY DEF IInv, ShapeInv
  <2>2. Len(order) = 0
    BY <1>1
  <2>3. \A m \in Nodes : heap[m] = Free
    BY <2>2 DEF IInv, ListIsOrder
  <2> QED  BY <2>1, <2>3
<1>5. heap' = [m \in Nodes |-> IF m = n THEN r ELSE heap[m]]
  BY <1>4
<1>6. /\ r.acts = <<>> /\ r.Next = NULL /\ r.free = FALSE
      /\ Shape(r)
  <2>1. Shape(w) /\ w.Next = NULL /\ w.free = FALSE
    BY NewNodeShape
  <2> HIDE DEF w
  <2> QED  BY <2>1, StartedShape
<1> HIDE DEF r
<1>7. ShapeInv'
  <2>1. heap' = [m \in Nodes |-> heap'[m]]
    BY <1>5
  <2>2. ASSUME NEW m \in Nodes PROVE Shape(heap'[m])
    <3>1. CASE m = n
      <4>1. heap'[m] = r
        BY <1>5, <3>1
      <4> QED  BY <1>6, <4>1
    <3>2. CASE m # n
      <4>1. heap'[m] = heap[m]
        BY <1>5, <3>2
      <4> QED  BY <1>4, <4>1
    <3> QED  BY <3>1, <3>2
  <2> QED  BY <1>3, <2>1, <2>2 DEF ShapeInv
<1>8. ListIsOrder'
  <2>1. order' # <<>> /\ Current' = order'[1].node /\ Last' = order'[Len(order')].node
    BY <1>3
  <2>2. Linked(1)'
    <3>1. order'[1].node = n /\ heap'[n] = r
      BY <1>3, <1>5
    <3>2. /\ ~heap'[order'[1].node].free
          /\ heap'[order'[1].node].Next = NULL
          /\ heap'[order'[1].node].acts = <<>>
      BY <1>6, <3>1
    <3>3. 1 = Len(order')
      BY <1>3
    <3> QED  BY <3>2, <3>3 DEF Linked
  <2>3. \A m \in Nodes : heap'[m] = Free \/ m = n
    BY <1>4, <1>5
  <2> QED  BY <1>3, <2>1, <2>2, <2>3 DEF ListIsOrder
<1> QED  BY <1>7, <1>8 DEF IInv

\* An action that is added to a list in progress goes behind its last node.
LEMMA AddLast ==
  ASSUME IInv, NEW id \in Joints, NEW value \in Values, NEW time, NEW n \in Nodes,
         Current # NULL, heap[n] = Free,
         Current' = Current, Last' = n,
         order' = Append(order, [node |-> n, act |-> [id |-> id, value |-> value]]),
         heap' = Link(n, NewNode(id, value, time))
  PROVE  IInv'
<1> DEFINE e == [node |-> n, act |-> [id |-> id, value |-> value]]
           r == NewNode(id, value, time)
           k == Len(order)
<1>1. /\ order \in Seq(Entry) /\ e \in Entry /\ k \in Nat /\ k > 0
      /\ \A i \in 1..k : order[i].node \in Nodes
  BY Ends DEF Entry, Acts, IInv, ShapeInv
<1>2. /\ order' \in Seq(Entry) /\ Len(order') = k + 1
      /\ \A i \in 1..k : order'[i] = order[i]
      /\ order'[k + 1] = e
  BY <1>1
<1>3. /\ \A m \in Nodes : Shape(heap[m])
      /\ \A i \in 1..k : Linked(i)
      /\ \A m \in Nodes : heap[m] = Free \/ \E i \in 1..k : order[i].node = m
      /\ \A i, j \in 1..k : order[i].node = order[j].node => i = j
      /\ Current = order[1].node /\ Last = order[k].node
  BY <1>1, Ends DEF IInv, ShapeInv, ListIsOrder
<1>4. \A i \in 1..k : order[i].node # n
  <2>1. heap[n].free = TRUE
    BY DEF Free
  <2>2. \A i \in 1..k : ~heap[order[i].node].free
    BY <1>3 DEF Linked
  <2> QED  BY <2>1, <2>2, Zenon
<1>5. /\ r.acts = <<e.act>> /\ r.Next = NULL /\ r.free = FALSE
      /\ Shape(r)
  <2>1. r.acts = <<[id |-> id, value |-> value]>>
    BY NewNodeShape
  <2>2. r.Next = NULL /\ r.free = FALSE /\ Shape(r)
    BY NewNodeShape
  <2>3. e.act = [id |-> id, value |-> value]
    OBVIOUS
  <2> HIDE DEF e, r
  <2> QED  BY <2>1, <2>2, <2>3
<1>6. heap' = [m \in Nodes |-> IF m = n THEN r
                               ELSE IF m = Last THEN [heap[m] EXCEPT !.Next = n] ELSE heap[m]]
  BY DEF Link
<1> HIDE DEF r
<1>7. /\ heap' = [m \in Nodes |-> heap'[m]]
      /\ heap'[n] = r
      /\ heap'[order[k].node] = [heap[order[k].node] EXCEPT !.Next = n]
      /\ \A m \in Nodes : m # n /\ m # order[k].node => heap'[m] = heap[m]
  BY <1>1, <1>3, <1>4, <1>6
<1>8. LET last == heap'[order[k].node]
      IN  /\ last.acts = heap[order[k].node].acts /\ last.Next = n
          /\ last.free = heap[order[k].node].free
          /\ Shape(last)
  <2>1. Shape(heap[order[k].node])
    BY <1>1, <1>3
  <2> QED  BY <1>7, <2>1 DEF Shape
<1>9. ShapeInv'
  <2> SUFFICES ASSUME NEW m \in Nodes PROVE Shape(heap'[m])
    BY <1>2, <1>7 DEF ShapeInv
  <2>1. CASE m = n  BY <1>5, <1>7, <2>1
  <2>2. CASE m = order[k].node  BY <1>8, <2>2
  <2>3. CASE m # n /\ m # order[k].node
    <3>1. heap'[m] = heap[m]
      BY <1>7, <2>3
    <3> QED  BY <1>3, <3>1
  <2> QED  BY <2>1, <2>2, <2>3
<1>10. ListIsOrder'
  <2>1. order' # <<>> /\ Current' = order'[1].node /\ Last' = order'[Len(order')].node
    BY <1>1, <1>2, <1>3
  <2>2. ASSUME NEW i \in 1..Len(order') PROVE Linked(i)'
    <3>1. CASE i = k + 1
      <4>1. order'[i].node = n /\ order'[i].act = e.act
        BY <1>2, <3>1
      <4>2. /\ ~heap'[order'[i].node].free
            /\ heap'[order'[i].node].Next = NULL
            /\ heap'[order'[i].node].acts = <<order'[i].act>>
        BY <1>5, <1>7, <4>1
      <4>3. i = Len(order') /\ i # 1
        BY <1>1, <1>2, <3>1
      <4> QED  BY <4>2, <4>3, Zenon DEF Linked
    <3>2. CASE i = k
      <4>1. order'[i] = order[i] /\ order'[i + 1].node = n /\ i # Len(order')
        BY <1>1, <1>2, <3>2
      <4>2. Linked(i)
        BY <1>1, <1>3, <3>2
      <4> QED  BY <1>8, <3>2, <4>1, <4>2 DEF Linked
    <3>3. CASE i \in 1..k - 1
      <4>1. /\ order'[i] = order[i] /\ order'[i + 1] = order[i + 1]
            /\ i # Len(order') /\ i # k /\ i \in 1..k
        BY <1>1, <1>2, <3>3
      <4>2. heap'[order[i].node] = heap[order[i].node]
        <5>1. order[i].node # order[k].node
          BY <1>1, <1>3, <4>1
        <5> QED  BY <1>1, <1>4, <1>7, <4>1, <5>1
      <4>3. Linked(i)
        BY <1>3, <4>1
      <4> QED  BY <4>1, <4>2, <4>3 DEF Linked
    <3> QED  BY <1>1, <1>2, <3>1, <3>2, <3>3
  <2>3. ASSUME NEW m \in Nodes, heap'[m] # Free
        PROVE  \E i \in 1..Len(order') : order'[i].node = m
    <3>1. CASE m = n
      BY <1>1, <1>2, <3>1
    <3>2. CASE m # n
      <4>1. \E i \in 1..k : order[i].node = m
        BY <1>1, <1>3, <1>7, <2>3, <3>2
      <4>2. PICK i \in 1..k : order[i].node = m
        BY <4>1
      <4> QED  BY <1>1, <1>2, <4>2
    <3> QED  BY <3>1, <3>2
  <2>4. \A i, j \in 1..Len(order') : order'[i].node = order'[j].node => i = j
    BY <1>1, <1>2, <1>3, <1>4
  <2> QED  BY <2>1, <2>2, <2>3, <2>4 DEF ListIsOrder
<1> QED  BY <1>9, <1>10 DEF IInv

\* The head of the list is freed and the node behind it is commanded.
LEMMA AdvanceInv ==
  ASSUME IInv, Current # NULL, Advance
  PROVE  IInv'
<1> DEFINE k == Len(order)
           next == heap[Current].Next
           started == [heap[next] EXCEPT !.acts = <<>>]
<1>1. /\ order \in Seq(Entry) /\ order # <<>> /\ k \in Nat /\ k > 0
      /\ \A i \in 1..k : order[i].node \in Nodes
      /\ Current \in Nodes
  BY Ends DEF IInv, ShapeInv
<1>2. /\ order' = Tail(order) /\ order' \in Seq(Entry) /\ Len(order') = k - 1
      /\ \A i \in 1..k - 1 : order'[i] = order[i + 1]
  BY <1>1 DEF Advance
<1>3. /\ heap = [m \in Nodes |-> heap[m]]
      /\ \A m \in Nodes : Shape(heap[m])
      /\ \A i \in 1..k : Linked(i)
      /\ \A m \in Nodes : heap[m] = Free \/ \E i \in 1..k : order[i].node = m
      /\ \A i, j \in 1..k : order[i].node = order[j].node => i = j
      /\ Current = order[1].node /\ Last = order[k].node
  BY <1>1 DEF IInv, ShapeInv, ListIsOrder
<1>4. next = IF k = 1 THEN NULL ELSE order[2].node
  <2>1. Linked(1)
    BY <1>1, <1>3
  <2>2. heap[order[1].node].Next = IF 1 = k THEN NULL ELSE order[1 + 1].node
    BY <2>1, Zenon DEF Linked
  <2>3. heap[order[1].node].Next = IF k = 1 THEN NULL ELSE order[2].node
    BY <2>2
  <2> QED  BY <1>3, <2>3, Zenon
<1>5. Current' = next /\ Last' = IF next = NULL THEN NULL ELSE Last
  BY DEF Advance, Unlink
<1>6. Shape(Free)
  BY DEF Free, Shape
<1>7. CASE k = 1
  <2>1. next = NULL /\ heap' = [heap EXCEPT ![Current] = Free]
    <3>1. heap[Current].Next = NULL
      BY <1>4, <1>7
    <3>2. heap[Current].Next = NULL => heap' = [heap EXCEPT ![Current] = Free]
      BY DEF Advance
    <3> QED  BY <3>1, <3>2, Zenon
  <2>2. heap' = [m \in Nodes |-> Free]
    <3>1. ASSUME NEW m \in Nodes, heap[m] # Free PROVE m = Current
      <4>1. PICK i \in 1..k : order[i].node = m
        BY <1>3, <3>1
      <4>2. i = 1
        BY <1>7, <4>1
      <4> QED  BY <1>3, <4>1, <4>2
    <3> QED  BY <1>1, <1>3, <2>1, <3>1
  <2>3. 1..Len(order') = {} /\ order' = <<>>
    BY <1>2, <1>7
  <2>4. ShapeInv'
    BY <1>2, <1>6, <2>2 DEF ShapeInv
  <2>5. ListIsOrder'
    BY <1>5, <2>1, <2>2, <2>3 DEF ListIsOrder
  <2> QED  BY <2>4, <2>5 DEF IInv
<1>8. CASE k > 1
  <2>1. /\ next = order[2].node /\ next \in Nodes /\ next # NULL /\ next # Current
        /\ 2 \in 1..k
    BY <1>1, <1>3, <1>4, <1>8, NodesAssumption
  <2>2. heap' = [heap EXCEPT ![Current] = Free, ![next].acts = <<>>]
    BY <2>1 DEF Advance
  <2> HIDE DEF next
  <2>3. /\ heap' = [m \in Nodes |-> heap'[m]]
        /\ heap'[Current] = Free /\ heap'[next] = started
        /\ \A m \in Nodes : m # Current /\ m # next => heap'[m] = heap[m]
    BY <1>1, <1>3, <2>1, <2>2
  <2>4. /\ Shape(started) /\ started.acts = <<>>
        /\ started.Next = heap[next].Next /\ started.free = heap[next].free
    <3>1. Shape(heap[next])
      BY <1>3, <2>1
    <3> QED  BY <3>1, StartedShape
  <2>5. ShapeInv'
    <3> SUFFICES ASSUME NEW m \in Nodes PROVE Shape(heap'[m])
      BY <1>2, <2>3 DEF ShapeInv
    <3>1. CASE m = Current
      <4>1. heap'[m] = Free  BY <2>3, <3>1
      <4> QED  BY <1>6, <4>1
    <3>2. CASE m = next
      <4>1. heap'[m] = started  BY <2>3, <3>2
      <4> QED  BY <2>4, <4>1
    <3>3. CASE m # Current /\ m # next
      <4>1. heap'[m] = heap[m]  BY <2>3, <3>3
      <4> QED  BY <1>3, <4>1
    <3> QED  BY <3>1, <3>2, <3>3
  <2>6. ListIsOrder'
    <3>1. order' # <<>> /\ Current' = order'[1].node /\ Last' = order'[Len(order')].node
      <4>1. Len(order') # 0 /\ order'[1] = order[2] /\ order'[Len(order')] = order[k]
        BY <1>1, <1>2, <1>8
      <4>2. order' # <<>>
        BY <4>1
      <4>3. Current' = next /\ Last' = Last
        BY <1>5, <2>1, Zenon
      <4> QED  BY <1>3, <2>1, <4>1, <4>2, <4>3, Zenon
    <3>2. ASSUME NEW i \in 1..Len(order') PROVE Linked(i)'
      <4>1. /\ i + 1 \in 1..k /\ order'[i] = order[i + 1] /\ i # k
            /\ i = Len(order') <=> i + 1 = k
            /\ i # Len(order') => order'[i + 1] = order[i + 1 + 1]
        <5>1. k \in Nat /\ Len(order') = k - 1 /\ i \in 1..k - 1
          BY <1>1, <1>2
        <5> HIDE DEF k
        <5>2. i + 1 \in 1..k /\ i # k /\ (i = Len(order') <=> i + 1 = k)
          BY <5>1
        <5>3. i # Len(order') => i + 1 \in 1..k - 1
          BY <5>1
        <5> QED  BY <1>2, <5>1, <5>2, <5>3
      <4>2. Linked(i + 1)
        BY <1>3, <4>1
      <4>3. /\ ~heap[order'[i].node].free
            /\ heap[order'[i].node].Next =
                 IF i = Len(order') THEN NULL ELSE order'[i + 1].node
            /\ i # 1 => heap[order'[i].node].acts = <<order'[i].act>>
        <5>1. i # 1 => i + 1 # 1
          BY <1>2
        <5>2. i + 1 # 1
          BY <1>2
        <5> QED  BY <4>1, <4>2, <5>2 DEF Linked
      <4>4. CASE i = 1
        <5>1. heap'[order'[i].node] = started /\ order'[i].node = next
          BY <2>1, <2>3, <4>1, <4>4
        <5> QED  BY <2>4, <4>3, <4>4, <5>1 DEF Linked
      <4>5. CASE i # 1
        <5>1. order'[i].node # Current /\ order'[i].node # next
          BY <1>1, <1>2, <1>3, <2>1, <4>1, <4>5
        <5>2. heap'[order'[i].node] = heap[order'[i].node]
          BY <1>1, <2>3, <4>1, <5>1
        <5> QED  BY <4>3, <4>5, <5>2 DEF Linked
      <4> QED  BY <4>4, <4>5
    <3>3. ASSUME NEW m \in Nodes, heap'[m] # Free
          PROVE  \E i \in 1..Len(order') : order'[i].node = m
      <4>1. m # Current
        BY <2>3, <3>3
      <4>2. PICK j \in 1..k : order[j].node = m
        <5>1. CASE m = next  BY <2>1, <5>1
        <5>2. CASE m # next
          <6>1. heap[m] # Free
            BY <2>3, <3>3, <4>1, <5>2
          <6> QED  BY <1>3, <6>1
        <5> QED  BY <5>1, <5>2
      <4>3. j # 1
        BY <1>3, <4>1, <4>2
      <4>4. j - 1 \in 1..Len(order') /\ order'[j - 1].node = m
        BY <1>1, <1>2, <4>2, <4>3
      <4> QED  BY <4>4
    <3>4. \A i, j \in 1..Len(order') : order'[i].node = order'[j].node => i = j
      BY <1>1, <1>2, <1>3
    <3> QED  BY <3>1, <3>2, <3>3, <3>4 DEF ListIsOrder
  <2> QED  BY <2>5, <2>6 DEF IInv
<1>9. k = 1 \/ k > 1
  <2>1. k \in Nat /\ k > 0
    BY <1>1, Zenon
  <2> HIDE DEF k
  <2> QED  BY <2>1
<1> QED  BY <1>7, <1>8, <1>9, Zenon

\* The other steps do not touch the list.
LEMMA StepInv == IInv /\ [Next]_vars => IInv'
<1> SUFFICES ASSUME IInv, [Next]_vars PROVE IInv'
  OBVIOUS
<1>1. CASE UNCHANGED listVars
  BY <1>1 DEF IInv, ShapeInv, ListIsOrder, Linked, Shape, listVars
<1>2. ASSUME NEW id \in Joints, NEW value \in Values, NEW time,
             Servo_Add_Action(id, value, time)
      PROVE  IInv'
  <2>1. PICK n \in Nodes :
          LET node == NewNode(id, value, time)
          IN  /\ heap[n] = Free
              /\ Last' = n
              /\ order' = Append(order, [node |-> n, act |-> node.acts[1]])
              /\ IF Current = NULL
                   THEN /\ Current' = n
                        /\ heap' = [heap EXCEPT ![n] = [node EXCEPT !.acts = <<>>]]
                   ELSE /\ heap' = Link(n, node)
                        /\ Current' = Current
    BY <1>2, Zenon DEF Servo_Add_Action
  <2>2. NewNode(id, value, time).acts[1] = [id |-> id, value |-> value]
    <3>1. NewNode(id, value, time).acts = <<[id |-> id, value |-> value]>>
      BY NewNodeShape
    <3> QED  BY <3>1
  <2>3. CASE Current = NULL
    BY <2>1, <2>2, <2>3, AddFirst, Zenon
  <2>4. CASE Current # NULL
    BY <2>1, <2>2, <2>4, AddLast, Zenon
  <2> QED  BY <2>3, <2>4
<1>3. CASE Servo_Server
  <2>1. (Current # NULL /\ Advance) \/ UNCHANGED listVars
    BY <1>3, Zenon DEF Servo_Server
  <2> QED  BY <1>1, <2>1, AdvanceInv
<1>4. CASE Adds
  BY <1>2, <1>4, Zenon DEF Adds, Joints
<1>5. CASE ChangeSpeed
  <2>1. UNCHANGED listVars
    BY <1>5, Zenon DEF ChangeSpeed, change_servo_speed
  <2> QED  BY <1>1, <2>1
<1>6. CASE Boot
  <2>1. UNCHANGED listVars
    BY <1>6, Zenon DEF Boot, update_Servo_state
  <2> QED  BY <1>1, <2>1
<1>7. CASE Tick
  <2>1. UNCHANGED listVars
    BY <1>7, Zenon DEF Tick
  <2> QED  BY <1>1, <2>1
<1>8. CASE UNCHANGED vars
  <2>1. UNCHANGED listVars
    BY <1>8, Zenon DEF vars, listVars
  <2> QED  BY <1>1, <2>1
<1> QED  BY <1>3, <1>4, <1>5, <1>6, <1>7, <1>8, Zenon DEF Next

\* The pointers of the queue are always a list of the actions in request order.
THEOREM ListCorrect == Spec => []ListIsOrder
<1>1. IInv => ListIsOrder
  BY DEF IInv
<1> QED  BY <1>1, InitInv, StepInv, PTL DEF Spec

\* The abstract queue, and what an append and a removal do to it.
Queue == [i \in 1..Len(order) |-> order[i].act]

LEMMA QueueIsSeq ==
  ASSUME IInv
  PROVE  /\ Queue \in Seq(Acts) /\ Len(Queue) = Len(order)
         /\ Queue = <<>> <=> Current = NULL
<1>1. /\ order \in Seq(Entry) /\ Len(order) \in Nat
      /\ \A i \in 1..Len(order) : order[i].act \in Acts
      /\ Current = NULL <=> order = <<>>
  BY Ends DEF IInv, ShapeInv, Entry
<1>2. Queue \in [1..Len(order) -> Acts]
  BY <1>1 DEF Queue
<1>3. Queue \in Seq(Acts) /\ Len(Queue) = Len(order)
  BY <1>1, <1>2, LenProperties, SeqDef
<1>4. Queue = <<>> <=> order = <<>>
  BY <1>1, <1>3, EmptySeq
<1> QED  BY <1>1, <1>3, <1>4

LEMMA QueueAppends ==
  ASSUME IInv, NEW n \in Nodes, NEW a \in Acts,
         order' = Append(order, [node |-> n, act |-> a])
  PROVE  Queue' = Append(Queue, a)
<1> DEFINE k == Len(order)
           e == [node |-> n, act |-> a]
<1>1. /\ order \in Seq(Entry) /\ e \in Entry /\ k \in Nat
      /\ \A i \in 1..k : order[i].act \in Acts
  BY Ends DEF IInv, ShapeInv, Entry
<1>2. Len(order') = k + 1 /\ order'[k + 1] = e /\ \A i \in 1..k : order'[i] = order[i]
  BY <1>1
<1>3. Queue \in Seq(Acts) /\ Len(Queue) = k /\ \A i \in 1..k : Queue[i] = order[i].act
  BY QueueIsSeq DEF Queue
<1>4. Queue' = [i \in 1..k + 1 |-> order'[i].act]
  BY <1>2 DEF Queue
<1>5. Append(Queue, a) \in Seq(Acts) /\ Len(Append(Queue, a)) = k + 1
  BY <1>3, AppendProperties
<1>6. \A i \in 1..k + 1 : order'[i].act = Append(Queue, a)[i]
  <2> SUFFICES ASSUME NEW i \in 1..k + 1 PROVE order'[i].act = Append(Queue, a)[i]
    OBVIOUS
  <2>1. Append(Queue, a)[i] = IF i <= k THEN Queue[i] ELSE a
    BY <1>1, <1>3, AppendProperties
  <2> QED  BY <1>1, <1>2, <1>3, <2>1
<1>7. Queue' \in Seq(Acts) /\ Len(Queue') = k + 1
  <2>1. \A i \in 1..k + 1 : order'[i].act \in Acts
    BY <1>1, <1>2
  <2>2. Queue' \in [1..k + 1 -> Acts]
    BY <1>4, <2>1
  <2> QED  BY <1>1, <2>2, LenProperties, SeqDef
<1> QED  BY <1>4, <1>5, <1>6, <1>7, SeqEqual

LEMMA QueueShrinks ==
  ASSUME IInv, Current # NULL, order' = Tail(order)
  PROVE  Queue' = Tail(Queue)
<1> DEFINE k == Len(order)
<1>1. order \in Seq(Entry) /\ k \in Nat /\ k > 0
  BY Ends DEF IInv, ShapeInv
<1>2. Len(order') = k - 1 /\ \A i \in 1..k - 1 : order'[i] = order[i + 1]
  BY <1>1
<1>3. Queue \in Seq(Acts) /\ Len(Queue) = k /\ \A i \in 1..k : Queue[i] = order[i].act
  BY QueueIsSeq DEF Queue
<1>4. Queue' = [i \in 1..k - 1 |-> order'[i].act]
  BY <1>2 DEF Queue
<1>5. /\ Tail(Queue) \in Seq(Acts) /\ Len(Tail(Queue)) = k - 1
      /\ \A i \in 1..k - 1 : Tail(Queue)[i] = Queue[i + 1]
  <2>1. Queue # <<>>
    BY <1>1, <1>3
  <2> QED  BY <1>1, <1>3, <2>1, HeadTailProperties
<1>6. \A i \in 1..k - 1 : order'[i].act = Tail(Queue)[i] /\ order'[i].act \in Acts
  <2> SUFFICES ASSUME NEW i \in 1..k - 1
               PROVE  order'[i].act = Tail(Queue)[i] /\ order'[i].act \in Acts
    OBVIOUS
  <2>1. i + 1 \in 1..k
    BY <1>1
  <2>2. Queue[i + 1] \in Acts
    BY <1>3, <2>1, ElementOfSeq
  <2> QED  BY <1>2, <1>3, <1>5, <2>1, <2>2
<1>7. Queue' \in Seq(Acts) /\ Len(Queue') = k - 1
  <2>1. Queue' \in [1..k - 1 -> Acts] /\ k - 1 \in Nat
    BY <1>1, <1>4, <1>6
  <2> QED  BY <2>1, LenProperties, SeqDef
<1> QED  BY <1>4, <1>5, <1>6, <1>7, SeqEqual

LEMMA AddIsRequest ==
  ASSUME IInv, NEW id \in Joints, NEW value \in Values, NEW time,
         Servo_Add_Action(id, value, time)
  PROVE  \E a \in Acts : Abstract!Request(a)
<1> DEFINE a == [id |-> id, value |-> value]
<1>1. NewNode(id, value, time).acts[1] = a
  <2>1. NewNode(id, value, time).acts = <<a>>
    BY NewNodeShape
  <2> QED  BY <2>1
<1>2. a \in Acts
  BY DEF Acts
<1>3. PICK n \in Nodes :
        LET node == NewNode(id, value, time)
        IN  /\ order' = Append(order, [node |-> n, act |-> node.acts[1]])
            /\ IF Current = NULL THEN issued' = node.acts[1] ELSE UNCHANGED issued
  BY Zenon DEF Servo_Add_Action, Command, armVars
<1>4. issued' = IF Current = NULL THEN a ELSE issued
  BY <1>1, <1>3
<1> HIDE DEF a
<1>5. Queue' = Append(Queue, a)
  BY <1>1, <1>2, <1>3, QueueAppends
<1>6. Queue = <<>> <=> Current = NULL
  BY QueueIsSeq
<1> QED  BY <1>2, <1>4, <1>5, <1>6 DEF Abstract!Request, Queue

LEMMA AdvanceIsFinish ==
  ASSUME IInv, Current # NULL, Advance
  PROVE  Abstract!Finish
<1> DEFINE next == heap[Current].Next
<1>1. Queue' = Tail(Queue) /\ Queue # <<>>
  BY QueueShrinks, QueueIsSeq DEF Advance
<1>2. issued' = IF next = NULL THEN issued ELSE heap[next].acts[1]
  BY DEF Advance, Command, armVars
<1>3. issued' = IF Len(Queue) > 1 THEN Queue[2] ELSE issued
  <2>1. /\ Len(Queue) = Len(order) /\ Len(order) \in Nat /\ Len(order) > 0
        /\ Current = order[1].node /\ \A i \in 1..Len(order) : Linked(i) /\ order[i].node \in Nodes
    BY QueueIsSeq, Ends DEF IInv, ListIsOrder
  <2>2. heap[order[1].node].Next = IF 1 = Len(order) THEN NULL ELSE order[1 + 1].node
    <3>1. Linked(1)
      BY <2>1
    <3> QED  BY <3>1, Zenon DEF Linked
  <2>3. CASE Len(order) = 1
    BY <1>2, <2>1, <2>2, <2>3
  <2>4. CASE Len(order) > 1
    <3>1. next = order[2].node /\ next # NULL /\ 2 \in 1..Len(order)
      BY <2>1, <2>2, <2>4, NodesAssumption
    <3>2. heap[order[2].node].acts = <<order[2].act>>
      <4>1. Linked(2) /\ 2 # 1
        BY <2>1, <3>1
      <4> QED  BY <4>1, Zenon DEF Linked
    <3>3. Queue[2] = order[2].act
      BY <3>1 DEF Queue
    <3> QED  BY <1>2, <2>1, <2>4, <3>1, <3>2, <3>3
  <2> QED  BY <2>1, <2>3, <2>4
<1> QED  BY <1>1, <1>3 DEF Abstract!Finish, Queue

LEMMA StepRefines ==
  ASSUME IInv, [Next]_vars
  PROVE  [Abstract!FifoNext]_(Abstract!fifoVars)
<1>1. CASE UNCHANGED <<order, issued>>
  BY <1>1 DEF Abstract!fifoVars
<1>2. CASE Adds
  <2>1. \E a \in Acts : Abstract!Request(a)
    BY <1>2, AddIsRequest, Zenon DEF Adds, Joints
  <2> QED  BY <2>1, Zenon DEF Abstract!FifoNext
<1>3. CASE Servo_Server
  <2>1. (Current # NULL /\ Advance) \/ UNCHANGED <<order, issued>>
    BY <1>3, Zenon DEF Servo_Server, listVars, armVars
  <2> QED  BY <1>1, <2>1, AdvanceIsFinish, Zenon DEF Abstract!FifoNext
<1>4. CASE ChangeSpeed \/ Boot \/ Tick \/ UNCHANGED vars
  <2>1. UNCHANGED <<order, issued>>
    BY <1>4, Zenon DEF ChangeSpeed, change_servo_speed, Boot, update_Servo_state, Tick,
                       vars, listVars, armVars
  <2> QED  BY <1>1, <2>1
<1> QED  BY <1>2, <1>3, <1>4, Zenon DEF Next

\* The list commands the actions in request order, each once.
THEOREM QueueImplementsFifo == Spec => ImplementsFifo
<1>1. Init => Abstract!FifoInit
  <2> SUFFICES ASSUME Init PROVE Abstract!FifoInit
    OBVIOUS
  <2>1. IInv /\ Current = NULL /\ issued = NoAction
    BY InitInv DEF Init
  <2>2. Queue = <<>>
    BY <2>1, QueueIsSeq
  <2> QED  BY <2>1, <2>2 DEF Abstract!FifoInit, Queue
<1>2. IInv /\ [Next]_vars => [Abstract!FifoNext]_(Abstract!fifoVars)
  BY StepRefines
<1> QED  BY <1>1, <1>2, InitInv, StepInv, PTL DEF Spec, ImplementsFifo, Abstract!Fifo
-------------------------------------------------------------------------------
\* The steady use of the queue: the waits are long enough for the ways that were planned.

\* What a stepper moves in a millisecond at the speed of a node.
StepRate(speed) == IF speed <= 1 THEN StepsPerMs ELSE StepsPerMs \div speed

\* The speeds at which that is a whole number.
WholeSpeeds == {s \in Nat \ {0} : StepsPerMs % s = 0}

\* The way that a wait may be short of is less than this.
Rest(id, r) == IF id \in Steppers THEN r ELSE 1

\* How far a joint comes in a millisecond, as its time was computed.
RateFor(id, speed) == IF id \in Servos THEN servo_speed[id] ELSE StepRate(speed)

Waits(i) ==
  LET r == heap[order[i].node]
  IN  /\ r.time \in Nat
      /\ order[i].act.id \in Servos => r.time # 0
      /\ order[i].act.id \in Steppers => r.speed \in WholeSpeeds

\* The time of a node is enough for the way to value from start.
Enough(id, value, start, time, speed) ==
  Distance(value, start) < RateFor(id, speed) * time + Rest(id, StepRate(speed))

Fits(i) ==
  LET r == heap[order[i].node]
  IN  Enough(order[i].act.id, order[i].act.value, from[order[i].node], r.time, r.speed)

SteadyTypes ==
  /\ tick \in 0..TickMod-1 /\ time_start \in 0..TickMod-1
  /\ goal \in [Joints -> Values] /\ lastvalue \in [Joints -> Int]
  /\ pos \in [Joints -> Int] /\ rate \in [Joints -> Nat]
  /\ servo_speed \in [Servos -> Speeds]
  /\ from \in [Nodes -> Int] /\ lag \in [Joints -> Nat]
  /\ \A i \in 1..Len(order) : Waits(i)

\* A waiting action has the time to come from where the code believes it will start.
Fitting == \A i \in 2..Len(order) : Fits(i)

\* What is left of a way fits in what is left of the wait.
Near(p, g, slack) == p = g \/ Distance(p, g) < slack

InTime(p, g, r, left, slack) == Near(p, g, slack + (IF left > 0 THEN r * left ELSE 0))

Slack(j) == lag[j] + Rest(j, rate[j])

Waited == (tick - time_start) % TickMod

Arrived ==
  \A j \in Joints : Current = NULL \/ issued.id # j => Near(pos[j], goal[j], Slack(j))

Underway ==
  \A j \in Joints :
    Current # NULL /\ issued.id = j
      => InTime(pos[j], goal[j], rate[j], heap[Current].time - Waited, Slack(j))

Steady == SteadyTypes /\ Fitting /\ Arrived /\ Underway

LEMMA DistanceFacts ==
  ASSUME NEW u \in Int, NEW v \in Int
  PROVE  /\ Distance(u, v) \in Nat /\ Distance(u, v) = Distance(v, u)
         /\ Distance(u, v) <= 0 => u = v
BY DEF Distance

LEMMA Triangle ==
  ASSUME NEW u \in Int, NEW v \in Int, NEW w \in Int
  PROVE  Distance(u, w) <= Distance(u, v) + Distance(v, w)
BY DEF Distance

\* The remainder is the one number below the divisor that leaves a multiple.
LEMMA RemainderIs ==
  ASSUME NEW a \in Int, NEW b \in Nat \ {0}, NEW k \in Int, NEW r \in 0..b - 1, a = b * k + r
  PROVE  a % b = r /\ a \div b = k
<1>1. a \div b \in Int /\ a % b \in 0..b - 1 /\ a % b = a - b * (a \div b)
  OBVIOUS
<1>2. PICK q \in Int : q = a \div b
  BY <1>1
<1>3. PICK s \in 0..b - 1 : s = a % b /\ s = a - b * q
  BY <1>1, <1>2
<1>4. b * q \in Int /\ b * k \in Int /\ b * k - b * q = b * (k - q) /\ b * (k - q) = s - r
  <2>1. b * q \in Int /\ b * k \in Int /\ b * k - b * q = b * (k - q)
    OBVIOUS
  <2> QED  BY <1>3, <2>1
<1>5. ~(k - q >= 1)
  <2> SUFFICES ASSUME k - q >= 1 PROVE FALSE
    OBVIOUS
  <2>1. b * (k - q) >= b
    OBVIOUS
  <2> QED  BY <1>4, <2>1
<1>6. ~(k - q <= 0 - 1)
  <2> SUFFICES ASSUME k - q <= 0 - 1 PROVE FALSE
    OBVIOUS
  <2>1. b * (k - q) <= 0 - b
    OBVIOUS
  <2> QED  BY <1>4, <2>1
<1>7. k = q
  BY <1>5, <1>6
<1> QED  BY <1>2, <1>3, <1>7

LEMMA QuotientIs ==
  ASSUME NEW a \in Nat, NEW b \in Nat \ {0}
  PROVE  a \div b \in Nat /\ a % b \in 0..b - 1 /\ a = b * (a \div b) + (a % b)
<1>1. a \div b \in Int /\ a % b \in 0..b - 1 /\ a % b = a - b * (a \div b)
  OBVIOUS
<1>2. PICK q \in Int : q = a \div b
  BY <1>1
<1>3. PICK s \in 0..b - 1 : s = a % b /\ s = a - b * q
  BY <1>1, <1>2
<1>4. b * q \in Int /\ a = b * q + s
  BY <1>3
<1>5. ~(q <= 0 - 1)
  <2> SUFFICES ASSUME q <= 0 - 1 PROVE FALSE
    OBVIOUS
  <2>1. b * q <= 0 - b
    OBVIOUS
  <2> QED  BY <1>4, <2>1
<1> QED  BY <1>2, <1>3, <1>4, <1>5

LEMMA FasterIsFarther ==
  ASSUME NEW r \in Nat, NEW s \in Nat, NEW t \in Nat, r <= s
  PROVE  r * t \in Nat /\ s * t \in Nat /\ r * t <= s * t
<1>1. r * t \in Nat /\ s * t \in Nat /\ (s - r) * t \in Nat /\ s * t = r * t + (s - r) * t
  OBVIOUS
<1> QED  BY <1>1

\* A time of 1 plus a rounded quotient is enough.
LEMMA RoundedUp ==
  ASSUME NEW d \in Nat, NEW s \in Nat \ {0}
  PROVE  d \div s + 1 \in Nat \ {0} /\ d <= s * (d \div s + 1) /\ d <= (d \div s + 1) * s
<1>1. PICK q \in Nat : q = d \div s
  BY QuotientIs
<1>2. PICK r \in 0..s - 1 : d = s * q + r
  BY <1>1, QuotientIs
<1>3. s * (q + 1) = s * q + s /\ (q + 1) * s = s * q + s /\ s * q \in Nat
  OBVIOUS
<1> QED  BY <1>1, <1>2, <1>3

\* The clock of a wait advances by one, or starts again when it wraps around.
LEMMA WaitedAdvances ==
  ASSUME tick \in 0..TickMod-1, time_start \in 0..TickMod-1,
         tick' = (tick + 1) % TickMod, time_start' = time_start
  PROVE  /\ Waited \in 0..TickMod-1 /\ tick' \in 0..TickMod-1
         /\ Waited' \in 0..TickMod-1
         /\ Waited' <= Waited + 1
<1> DEFINE M == TickMod
<1>1. M \in Nat \ {0}
  BY TickAssumption
<1> HIDE DEF M
<1>2. ASSUME NEW x \in 0..M - 1, NEW y \in 0..M - 1
      PROVE  (x - y) % M = IF x >= y THEN x - y ELSE x - y + M
  <2>1. CASE x >= y
    <3>1. x - y \in 0..M - 1 /\ x - y = M * 0 + (x - y) /\ x - y \in Int /\ 0 \in Int
      BY <1>1, <2>1
    <3>2. (x - y) % M = x - y
      BY <1>1, <3>1, RemainderIs
    <3> QED  BY <2>1, <3>2
  <2>2. CASE ~(x >= y)
    <3>1. /\ x - y + M \in 0..M - 1 /\ x - y = M * (0 - 1) + (x - y + M)
          /\ x - y \in Int /\ 0 - 1 \in Int
      BY <1>1, <2>2
    <3>2. (x - y) % M = x - y + M
      BY <1>1, <3>1, RemainderIs
    <3> QED  BY <2>2, <3>2
  <2> QED  BY <2>1, <2>2
<1>3. tick \in 0..M - 1 /\ time_start \in 0..M - 1 /\ tick' = (tick + 1) % M
  BY DEF M
<1>4. tick' = IF tick + 1 = M THEN 0 ELSE tick + 1
  <2>1. CASE tick + 1 = M
    <3>1. 0 \in 0..M - 1 /\ tick + 1 = M * 1 + 0 /\ tick + 1 \in Int /\ 1 \in Int
      BY <1>1, <1>3, <2>1
    <3>2. (tick + 1) % M = 0
      BY <1>1, <3>1, RemainderIs
    <3> QED  BY <1>3, <2>1, <3>2
  <2>2. CASE tick + 1 # M
    <3>1. tick + 1 \in 0..M - 1 /\ tick + 1 = M * 0 + (tick + 1) /\ tick + 1 \in Int /\ 0 \in Int
      BY <1>1, <1>3, <2>2
    <3>2. (tick + 1) % M = tick + 1
      BY <1>1, <3>1, RemainderIs
    <3> QED  BY <1>3, <2>2, <3>2
  <2> QED  BY <2>1, <2>2
<1>5. tick' \in 0..M - 1
  BY <1>1, <1>3, <1>4
<1>6. Waited = IF tick >= time_start THEN tick - time_start ELSE tick - time_start + M
  BY <1>2, <1>3 DEF Waited, M
<1>7. Waited' = IF tick' >= time_start THEN tick' - time_start ELSE tick' - time_start + M
  BY <1>2, <1>3, <1>5 DEF Waited, M
<1>8. /\ Waited \in 0..M - 1 /\ Waited' \in 0..M - 1 /\ Waited' <= Waited + 1
  BY <1>1, <1>3, <1>4, <1>6, <1>7
<1> QED  BY <1>5, <1>8 DEF M

\* A joint that is in time stays so while it moves.
LEMMA MovesInTime ==
  ASSUME NEW j \in Joints, NEW left \in Int, NEW left2 \in Int, left2 >= left - 1,
         NEW slack \in Int,
         pos[j] \in Int, goal[j] \in Int, rate[j] \in Nat
  PROVE  /\ Moved(j) \in Int
         /\ Near(pos[j], goal[j], slack) => Near(Moved(j), goal[j], slack)
         /\ InTime(pos[j], goal[j], rate[j], left, slack)
              => InTime(Moved(j), goal[j], rate[j], left2, slack)
<1>1. PICK p \in Int : p = pos[j]
  OBVIOUS
<1>2. PICK g \in Int : g = goal[j]
  OBVIOUS
<1>3. PICK r \in Nat : r = rate[j]
  OBVIOUS
<1>4. PICK q : q = Moved(j)
  OBVIOUS
<1>5. q \in Int /\ (q = g \/ (p # g /\ Distance(q, g) = Distance(p, g) - r))
  BY <1>1, <1>2, <1>3, <1>4 DEF Moved, Distance
<1>6. Distance(q, g) \in Nat /\ Distance(p, g) \in Nat
  BY <1>5, DistanceFacts
<1>7. ASSUME q # g, Near(p, g, slack) PROVE Near(q, g, slack)
  BY <1>5, <1>6, <1>7 DEF Near
<1>8. ASSUME q # g, InTime(p, g, r, left, slack) PROVE InTime(q, g, r, left2, slack)
  <2>1. CASE left > 0
    <3>1. r * left \in Int /\ Distance(p, g) < slack + r * left
      BY <1>5, <1>8, <2>1 DEF InTime, Near
    <3>2. r * (left - 1) = r * left - r /\ r * (left - 1) \in Int
      OBVIOUS
    <3>3. Distance(q, g) < slack + r * (left - 1)
      BY <1>5, <1>6, <1>8, <3>1, <3>2
    <3>4. CASE left2 > 0
      <4>1. left2 - (left - 1) \in Nat /\ left - 1 \in Nat
        BY <2>1
      <4>2. r * (left2 - (left - 1)) \in Nat
        BY <4>1
      <4>3. r * left2 = r * (left - 1) + r * (left2 - (left - 1)) /\ r * left2 \in Int
        OBVIOUS
      <4>4. r * (left - 1) <= r * left2
        BY <3>2, <4>2, <4>3
      <4>5. Distance(q, g) < slack + r * left2
        BY <1>6, <3>2, <3>3, <4>3, <4>4
      <4> QED  BY <3>4, <4>5 DEF InTime, Near
    <3>5. CASE ~(left2 > 0)
      <4>1. left = 1
        BY <2>1, <3>5
      <4>2. r * (left - 1) = 0
        BY <4>1
      <4> QED  BY <1>6, <3>3, <3>5, <4>2 DEF InTime, Near
    <3> QED  BY <3>4, <3>5
  <2>2. CASE ~(left > 0)
    <3>1. Distance(p, g) < slack
      BY <1>5, <1>8, <2>2 DEF InTime, Near
    <3>2. left2 > 0 => r * left2 \in Nat
      <4>1. left2 > 0 => left2 \in Nat
        OBVIOUS
      <4> QED  BY <4>1
    <3>3. Distance(q, g) < slack + (IF left2 > 0 THEN r * left2 ELSE 0)
      BY <1>5, <1>6, <1>8, <3>1, <3>2
    <3> QED  BY <3>3 DEF InTime, Near
  <2> QED  BY <2>1, <2>2
<1>9. q = g => Near(q, g, slack) /\ InTime(q, g, r, left2, slack)
  BY DEF Near, InTime
<1> QED  BY <1>1, <1>2, <1>3, <1>4, <1>5, <1>7, <1>8, <1>9

\* The speed of a stepper action divides the way in a millisecond.
LEMMA SpeedIsWhole ==
  ASSUME NEW time \in Periods \ {0}
  PROVE  StepperSpeed(time) \in WholeSpeeds
BY SpeedsAssumption DEF StepperSpeed, WholeSpeeds

LEMMA StepRateIs ==
  ASSUME NEW speed \in WholeSpeeds
  PROVE  /\ StepRate(speed) \in Nat \ {0} /\ StepsPerMs = speed * StepRate(speed)
         /\ speed \in Nat \ {0}
<1>1. PICK K \in Nat \ {0} : K = StepsPerMs
  BY SpeedsAssumption
<1>2. speed \in Nat \ {0} /\ K % speed = 0
  BY <1>1 DEF WholeSpeeds
<1>3. K \div speed \in Nat /\ K = speed * (K \div speed) + (K % speed)
  BY <1>2, QuotientIs
<1>4. PICK c \in Nat : c = K \div speed
  BY <1>3
<1>5. speed * c \in Nat /\ K = speed * c
  BY <1>2, <1>3, <1>4
<1>6. c # 0
  <2>1. c = 0 => speed * c = 0
    BY <1>2
  <2> QED  BY <1>5, <2>1
<1>7. StepRate(speed) = c
  <2>1. CASE speed = 1
    <3>1. c = K
      BY <1>5, <2>1
    <3> QED  BY <1>1, <2>1, <3>1 DEF StepRate
  <2>2. CASE speed # 1
    BY <1>1, <1>2, <1>4, <2>2 DEF StepRate
  <2> QED  BY <2>1, <2>2
<1> QED  BY <1>1, <1>2, <1>5, <1>6, <1>7

\* The time that is given to an action fits its way from where the code believes
\* that its joint starts; a stepper's, rounded down, but for less than a millisecond's.
LEMMA TimeIsEnough ==
  ASSUME NEW id \in Joints, NEW value \in Values, NEW time,
         id \in Steppers => time \in Periods \ {0},
         servo_speed \in [Servos -> Speeds], Believed(id) \in Int
  PROVE  LET t == TimeOf(id, value, time)
             s == StepperSpeed(time)
         IN  /\ t \in Nat
             /\ id \in Servos => t # 0 /\ \A x : Enough(id, value, Believed(id), t, x)
             /\ id \in Steppers => s \in WholeSpeeds /\ Enough(id, value, Believed(id), t, s)
<1> DEFINE start == Believed(id)
           d == Distance(value, start)
           s == StepperSpeed(time)
<1>1. value \in Int /\ start \in Int
  BY ValuesAssumption
<1>2. PICK dist \in Nat : dist = d
  BY <1>1, DistanceFacts
<1>3. CASE id \in Servos
  <2>1. id \notin Steppers
    BY <1>3, JointsAssumption
  <2>2. PICK speed \in Nat \ {0} : speed = servo_speed[id]
    BY <1>3, SpeedsAssumption
  <2>3. TimeOf(id, value, time) = dist \div speed + 1
    BY <1>2, <2>1, <2>2 DEF TimeOf
  <2>4. PICK t \in Nat \ {0} : t = dist \div speed + 1 /\ dist <= speed * t
    BY RoundedUp
  <2>5. speed * t \in Nat
    OBVIOUS
  <2>6. dist < speed * t + 1
    BY <2>4, <2>5
  <2>7. \A x : Enough(id, value, start, t, x)
    BY <1>2, <1>3, <2>1, <2>2, <2>6 DEF Enough, RateFor, Rest
  <2> QED  BY <2>1, <2>3, <2>4, <2>7
<1>4. CASE id \in Steppers
  <2>1. id \notin Servos /\ time \in Periods \ {0}
    BY <1>4, JointsAssumption
  <2>2. PICK speed \in WholeSpeeds : speed = s
    BY <2>1, SpeedIsWhole
  <2>3. PICK c \in Nat \ {0} : c = StepRate(speed) /\ StepsPerMs = speed * c
    BY StepRateIs
  <2>4. speed \in Nat \ {0}
    BY StepRateIs
  <2>5. PICK K \in Nat \ {0} : K = StepsPerMs
    BY SpeedsAssumption
  <2>6. TimeOf(id, value, time) = (dist * speed) \div K
    BY <1>2, <1>4, <2>2, <2>5 DEF TimeOf
  <2>7. dist * speed \in Nat
    BY <2>4
  <2>8. PICK t \in Nat : t = (dist * speed) \div K
    BY <2>7, QuotientIs
  <2>9. dist < c * t + c
    <3>1. PICK m \in 0..K - 1 : dist * speed = K * t + m
      BY <2>7, <2>8, QuotientIs
    <3>2. PICK e \in Nat : e = c * t
      OBVIOUS
    <3>3. K * t = speed * e
      <4>1. (speed * c) * t = speed * (c * t)
        BY <2>4
      <4> QED  BY <2>3, <2>5, <3>2, <4>1
    <3>4. /\ speed * (dist - e - c) = speed * dist - speed * e - speed * c
          /\ speed * dist \in Int /\ speed * e \in Int /\ speed * c \in Int
          /\ dist * speed = speed * dist
      BY <2>4
    <3>5. speed * (dist - e - c) < 0
      BY <2>3, <2>5, <3>1, <3>3, <3>4
    <3>6. ~(dist - e - c >= 0)
      <4> SUFFICES ASSUME dist - e - c >= 0 PROVE FALSE
        OBVIOUS
      <4>1. dist - e - c \in Nat
        OBVIOUS
      <4>2. speed * (dist - e - c) \in Nat
        BY <2>4, <4>1
      <4> QED  BY <3>5, <4>2
    <3> QED  BY <3>2, <3>6
  <2>10. Enough(id, value, start, t, speed)
    BY <1>2, <1>4, <2>1, <2>3, <2>9 DEF Enough, RateFor, Rest
  <2> QED  BY <2>1, <2>2, <2>6, <2>8, <2>10
<1> QED  BY <1>3, <1>4 DEF Joints

\* A command moves its joint fast enough for the wait of its node, but for what the
\* joint is off from where it was believed.
LEMMA RateIsEnough ==
  ASSUME NEW r, NEW a \in Acts, NEW start \in Int, a.id \in Joints,
         servo_speed \in [Servos -> Speeds], pos[a.id] \in Int,
         r.time \in Nat, a.id \in Servos => r.time # 0,
         a.id \in Steppers => r.speed \in WholeSpeeds,
         Enough(a.id, a.value, start, r.time, r.speed)
  PROVE  /\ RateOf(r, a) \in Nat
         /\ InTime(pos[a.id], a.value, RateOf(r, a), r.time,
                   Distance(pos[a.id], start) + Rest(a.id, RateOf(r, a)))
<1>1. PICK p \in Int : p = pos[a.id]
  OBVIOUS
<1>2. PICK t \in Nat : t = r.time
  OBVIOUS
<1>3. PICK v \in Int : v = a.value
  BY ValuesAssumption DEF Acts
<1>4. PICK l \in Nat : l = Distance(p, start)
  BY DistanceFacts
<1>5. PICK d \in Nat : d = Distance(p, v) /\ d = Distance(v, p)
  BY DistanceFacts
<1>6. PICK e \in Nat : e = Distance(v, start) /\ d <= l + e
  <2>1. Distance(v, start) = Distance(start, v) /\ Distance(v, start) \in Nat
    BY DistanceFacts
  <2> QED  BY <1>4, <1>5, <2>1, Triangle
<1>7. e < RateFor(a.id, r.speed) * t + Rest(a.id, StepRate(r.speed))
  BY <1>2, <1>3, <1>6 DEF Enough
<1>8. ASSUME NEW q \in Nat, RateOf(r, a) = q, d < q * t + l + Rest(a.id, q), Rest(a.id, q) \in Nat
      PROVE  /\ RateOf(r, a) \in Nat
             /\ InTime(pos[a.id], a.value, RateOf(r, a), r.time,
                       Distance(pos[a.id], start) + Rest(a.id, RateOf(r, a)))
  <2>1. q * t \in Nat /\ (t = 0 => q * t = 0)
    OBVIOUS
  <2>2. d < (l + Rest(a.id, q)) + (IF t > 0 THEN q * t ELSE 0)
    BY <1>8, <2>1
  <2> QED  BY <1>1, <1>2, <1>3, <1>4, <1>5, <1>8, <2>2 DEF InTime, Near
<1>9. CASE a.id \in STS
  <2>1. a.id \in Servos /\ a.id \notin SCS /\ a.id \notin Steppers
    BY <1>9, JointsAssumption DEF Servos
  <2>2. PICK s \in Nat \ {0} : s = servo_speed[a.id]
    BY <2>1, SpeedsAssumption
  <2>3. PICK q \in Nat : q = (s * 5) \div 4 /\ s <= q
    <3>1. (s * 5) \div 4 \in Nat /\ (s * 5) % 4 \in 0..3
          /\ s * 5 = 4 * ((s * 5) \div 4) + ((s * 5) % 4)
      <4>1. s * 5 \in Nat /\ 4 \in Nat \ {0}
        OBVIOUS
      <4>2. 4 - 1 = 3
        OBVIOUS
      <4> QED  BY <4>1, <4>2, QuotientIs
    <3> QED  BY <3>1
  <2>4. RateOf(r, a) = q
    BY <1>9, <2>1, <2>2, <2>3 DEF RateOf
  <2>5. e < s * t + 1
    BY <1>7, <2>1, <2>2 DEF RateFor, Rest
  <2>6. s * t \in Nat /\ q * t \in Nat /\ s * t <= q * t
    BY <2>3, FasterIsFarther
  <2>7. d < q * t + l + 1
    BY <1>6, <2>5, <2>6
  <2>8. Rest(a.id, q) = 1
    BY <2>1 DEF Rest
  <2> QED  BY <1>8, <2>4, <2>7, <2>8
<1>10. CASE a.id \in SCS
  <2>1. a.id \in Servos /\ a.id \notin STS /\ a.id \notin Steppers
    BY <1>10, JointsAssumption DEF Servos
  <2>2. t \in Nat \ {0}
    BY <1>2, <2>1
  <2>3. PICK q \in Nat : q = d \div t + 1 /\ d <= q * t
    BY <2>2, RoundedUp
  <2>4. RateOf(r, a) = q
    BY <1>1, <1>2, <1>3, <1>5, <1>10, <2>1, <2>3 DEF RateOf
  <2>5. Rest(a.id, q) = 1 /\ q * t \in Nat
    BY <2>1 DEF Rest
  <2>6. d < q * t + l + 1
    BY <2>3, <2>5
  <2> QED  BY <1>8, <2>4, <2>5, <2>6
<1>11. CASE a.id \notin STS /\ a.id \notin SCS
  <2>1. a.id \in Steppers /\ a.id \notin Servos
    BY <1>11 DEF Joints, Servos
  <2>2. PICK x \in WholeSpeeds : x = r.speed
    BY <2>1
  <2>3. PICK q \in Nat : q = StepRate(x)
    BY StepRateIs
  <2>4. RateOf(r, a) = q
    BY <1>11, <2>2, <2>3 DEF RateOf, StepRate
  <2>5. e < q * t + q /\ Rest(a.id, q) = q /\ q * t \in Nat
    BY <1>7, <2>1, <2>2, <2>3 DEF RateFor, Rest
  <2>6. d < q * t + l + q
    BY <1>6, <2>5
  <2> QED  BY <1>8, <2>4, <2>5, <2>6
<1> QED  BY <1>9, <1>10, <1>11

\* The list begins with the node in progress, and the next one holds its action.
LEMMA HeadOfList ==
  ASSUME IInv, Current # NULL
  PROVE  /\ Len(order) \in Nat /\ Len(order) >= 1 /\ Current = order[1].node
         /\ \A i \in 1..Len(order) : order[i].act \in Acts /\ order[i].node \in Nodes
         /\ \A i \in 2..Len(order) : order[i].node # Current
         /\ heap[Current].Next = IF Len(order) = 1 THEN NULL ELSE order[2].node
         /\ Len(order) > 1 => heap[order[2].node].acts = <<order[2].act>>
<1> DEFINE k == Len(order)
<1>1. /\ k \in Nat /\ k >= 1 /\ Current = order[1].node
      /\ \A i \in 1..k : Linked(i) /\ order[i] \in Entry
      /\ \A i, j \in 1..k : order[i].node = order[j].node => i = j
  BY Ends DEF IInv, ListIsOrder
<1>2. \A i \in 1..k : order[i].act \in Acts /\ order[i].node \in Nodes
  BY <1>1 DEF Entry
<1>3. \A i \in 2..k : order[i].node # Current
  BY <1>1
<1>4. heap[order[1].node].Next = IF 1 = k THEN NULL ELSE order[1 + 1].node
  <2>1. Linked(1)
    BY <1>1
  <2> QED  BY <2>1, Zenon DEF Linked
<1>5. k > 1 => heap[order[2].node].acts = <<order[2].act>>
  <2> SUFFICES ASSUME k > 1 PROVE heap[order[2].node].acts = <<order[2].act>>
    OBVIOUS
  <2>1. Linked(2) /\ 2 # 1
    BY <1>1
  <2> QED  BY <2>1, Zenon DEF Linked
<1> QED  BY <1>1, <1>2, <1>3, <1>4, <1>5

\* What commanding an action does to the arm.
LEMMA CommandStarts ==
  ASSUME SteadyTypes, NEW r, NEW a \in Acts, NEW start \in Int, r.acts = <<a>>,
         Command(r, start),
         r.time \in Nat, a.id \in Servos => r.time # 0,
         a.id \in Steppers => r.speed \in WholeSpeeds,
         Enough(a.id, a.value, start, r.time, r.speed)
  PROVE  /\ goal' \in [Joints -> Values] /\ rate' \in [Joints -> Nat] /\ lag' \in [Joints -> Nat]
         /\ time_start' = tick /\ issued' = a
         /\ goal'[a.id] = a.value /\ lag'[a.id] = Distance(pos[a.id], start)
         /\ \A j \in Joints : j # a.id =>
              goal'[j] = goal[j] /\ rate'[j] = rate[j] /\ lag'[j] = lag[j]
         /\ InTime(pos[a.id], goal'[a.id], rate'[a.id], r.time, Slack(a.id)')
<1>1. /\ goal \in [Joints -> Values] /\ rate \in [Joints -> Nat] /\ pos \in [Joints -> Int]
      /\ lag \in [Joints -> Nat]
      /\ servo_speed \in [Servos -> Speeds] /\ a.id \in Joints /\ a.value \in Values
  BY DEF SteadyTypes, Acts
<1>2. pos[a.id] \in Int
  BY <1>1
<1>3. PICK l \in Nat : l = Distance(pos[a.id], start)
  BY <1>2, DistanceFacts
<1>4. /\ RateOf(r, a) \in Nat
      /\ InTime(pos[a.id], a.value, RateOf(r, a), r.time, l + Rest(a.id, RateOf(r, a)))
  BY <1>1, <1>2, <1>3, RateIsEnough
<1>5. r.acts[1] = a
  OBVIOUS
<1>6. /\ goal' = [goal EXCEPT ![a.id] = a.value]
      /\ rate' = [rate EXCEPT ![a.id] = RateOf(r, a)]
      /\ lag' = [lag EXCEPT ![a.id] = l]
      /\ issued' = a /\ time_start' = tick
  BY <1>3, <1>5 DEF Command
<1>7. /\ goal'[a.id] = a.value /\ rate'[a.id] = RateOf(r, a) /\ lag'[a.id] = l
      /\ goal' \in [Joints -> Values] /\ rate' \in [Joints -> Nat] /\ lag' \in [Joints -> Nat]
      /\ \A j \in Joints : j # a.id =>
           goal'[j] = goal[j] /\ rate'[j] = rate[j] /\ lag'[j] = lag[j]
  BY <1>1, <1>4, <1>6
<1>8. Slack(a.id)' = l + Rest(a.id, RateOf(r, a))
  BY <1>7 DEF Slack, Rest
<1> QED  BY <1>3, <1>4, <1>6, <1>7, <1>8, Zenon

\* A wait that has begun now has all its time left.
LEMMA JustStarted ==
  ASSUME SteadyTypes, time_start' = tick, tick' = tick
  PROVE  Waited' = 0
<1>1. tick' = tick /\ tick - tick = 0 /\ TickMod \in Nat \ {0}
  BY TickAssumption DEF SteadyTypes
<1>2. 0 \in 0..TickMod - 1 /\ 0 = TickMod * 0 + 0
  BY <1>1
<1>3. 0 % TickMod = 0
  BY <1>1, <1>2, RemainderIs
<1> QED  BY <1>1, <1>3 DEF Waited

\* When the wait is over every joint has arrived.
LEMMA AllArrived ==
  ASSUME IInv, Steady, Current # NULL, Elapsed
  PROVE  \A j \in Joints : Near(pos[j], goal[j], Slack(j))
<1> SUFFICES ASSUME NEW j \in Joints, issued.id = j PROVE Near(pos[j], goal[j], Slack(j))
  BY DEF Steady, Arrived
<1>1. heap[Current].time \in Nat
  BY HeadOfList DEF Steady, SteadyTypes, Waits
<1>2. Waited \in Int /\ Waited >= heap[Current].time
  <2>1. tick - time_start \in Int /\ TickMod \in Nat \ {0}
    BY TickAssumption DEF Steady, SteadyTypes
  <2>2. (tick - time_start) % TickMod \in Int
    BY <2>1
  <2> QED  BY <2>2 DEF Elapsed, Waited
<1>3. ~(heap[Current].time - Waited > 0)
  BY <1>1, <1>2
<1>4. InTime(pos[j], goal[j], rate[j], heap[Current].time - Waited, Slack(j))
  BY DEF Steady, Underway
<1>5. Slack(j) \in Int
  BY DEF Steady, SteadyTypes, Slack, Rest
<1> QED  BY <1>3, <1>4, <1>5 DEF InTime

\* An action for an arm that stands still is commanded at once.
LEMMA AddFirstSteady ==
  ASSUME IInv, Steady, NEW id \in Joints, NEW value \in Values, NEW time,
         id \in Steppers => time \in Periods \ {0}, NEW n \in Nodes,
         Current = NULL,
         lastvalue' = [lastvalue EXCEPT ![id] = value],
         Current' = n,
         order' = Append(order, [node |-> n, act |-> [id |-> id, value |-> value]]),
         Command(NewNode(id, value, time), Believed(id)),
         heap' = [heap EXCEPT ![n] = [NewNode(id, value, time) EXCEPT !.acts = <<>>]],
         UNCHANGED <<servo_speed, tick, pos, from>>
  PROVE  /\ Steady'
         /\ Len(order) = 0 /\ Len(order') = 1
         /\ goal'[id] = value /\ lag'[id] = Distance(pos[id], Believed(id))
         /\ \A j \in Joints : j # id => goal'[j] = goal[j] /\ lag'[j] = lag[j]
<1> DEFINE a == [id |-> id, value |-> value]
           w == NewNode(id, value, time)
           e == [node |-> n, act |-> a]
<1>1. order = <<>> /\ heap = [m \in Nodes |-> heap[m]]
  BY Ends DEF IInv, ShapeInv
<1>2. order' = <<e>> /\ Len(order) = 0 /\ Len(order') = 1 /\ order'[1] = e
  BY <1>1
<1>3. /\ goal \in [Joints -> Values] /\ lastvalue \in [Joints -> Int]
      /\ pos \in [Joints -> Int] /\ servo_speed \in [Servos -> Speeds]
      /\ tick \in 0..TickMod-1 /\ value \in Int /\ from \in [Nodes -> Int]
  BY ValuesAssumption DEF Steady, SteadyTypes
<1>4. \A j \in Joints : Near(pos[j], goal[j], Slack(j))
  BY DEF Steady, Arrived
<1>5. a \in Acts /\ a.id = id /\ a.value = value /\ e.node = n /\ e.act = a
  BY DEF Acts
<1>6. /\ w.acts = <<a>> /\ w.time = TimeOf(id, value, time)
      /\ id \in Steppers => w.speed = StepperSpeed(time)
      /\ Shape(w)
  <2>1. w.acts = <<a>> /\ Shape(w)
    BY NewNodeShape
  <2>2. w.time = TimeOf(id, value, time)
    BY DEF NewNode
  <2>3. id \in Steppers => w.speed = StepperSpeed(time)
    BY DEF NewNode
  <2> QED  BY <2>1, <2>2, <2>3
<1> HIDE DEF w
<1>7. PICK start \in Int : start = Believed(id)
  BY <1>3 DEF Believed
<1>8. /\ w.time \in Nat
      /\ id \in Servos => w.time # 0
      /\ id \in Steppers => w.speed \in WholeSpeeds
      /\ Enough(id, value, start, w.time, w.speed)
  <2>1. LET t == TimeOf(id, value, time)
            s == StepperSpeed(time)
        IN  /\ t \in Nat
            /\ id \in Servos => t # 0 /\ \A x : Enough(id, value, Believed(id), t, x)
            /\ id \in Steppers => s \in WholeSpeeds /\ Enough(id, value, Believed(id), t, s)
    BY <1>3, <1>7, TimeIsEnough
  <2> QED  BY <1>6, <1>7, <2>1, Zenon DEF Joints
<1>9. /\ goal' \in [Joints -> Values] /\ rate' \in [Joints -> Nat] /\ lag' \in [Joints -> Nat]
      /\ time_start' = tick /\ issued' = a
      /\ goal'[id] = value /\ lag'[id] = Distance(pos[id], start)
      /\ \A j \in Joints : j # id =>
           goal'[j] = goal[j] /\ rate'[j] = rate[j] /\ lag'[j] = lag[j]
      /\ InTime(pos[id], goal'[id], rate'[id], w.time, Slack(id)')
  <2>1. SteadyTypes /\ Command(w, start)
    BY <1>7 DEF Steady, w
  <2> HIDE DEF a
  <2> QED  BY <1>5, <1>6, <1>8, <2>1, CommandStarts
<1>10. heap'[n].time = w.time /\ heap'[n].speed = w.speed
  <2>1. heap'[n] = [w EXCEPT !.acts = <<>>]
    BY <1>1 DEF w
  <2> QED  BY <1>6, <2>1 DEF Shape
<1> HIDE DEF a, e
<1>11. SteadyTypes'
  <2>1. Waits(1)'
    BY <1>2, <1>5, <1>8, <1>10 DEF Waits
  <2>2. \A i \in 1..Len(order') : i = 1
    BY <1>2
  <2>3. lastvalue' \in [Joints -> Int]
    BY <1>3
  <2> QED  BY <1>3, <1>9, <2>1, <2>2, <2>3 DEF SteadyTypes
<1>12. Fitting'
  <2>1. \A i \in 2..Len(order') : FALSE
    BY <1>2
  <2> QED  BY <2>1 DEF Fitting
<1>13. Arrived'
  <2> SUFFICES ASSUME NEW j \in Joints, Current' = NULL \/ issued'.id # j
               PROVE  Near(pos'[j], goal'[j], Slack(j)')
    BY DEF Arrived
  <2>1. j # id
    BY <1>5, <1>9, NodesAssumption
  <2>2. Slack(j)' = Slack(j) /\ goal'[j] = goal[j]
    BY <1>9, <2>1 DEF Slack, Rest
  <2> QED  BY <1>4, <2>2
<1>14. Underway'
  <2>1. Waited' = 0
    BY <1>9, JustStarted DEF Steady
  <2>2. heap'[Current'].time - Waited' = w.time
    BY <1>8, <1>10, <2>1
  <2>3. ASSUME NEW j \in Joints, issued'.id = j
        PROVE  InTime(pos'[j], goal'[j], rate'[j], heap'[Current'].time - Waited', Slack(j)')
    <3>1. j = id
      BY <1>5, <1>9, <2>3
    <3> QED  BY <1>9, <2>2, <3>1
  <2> QED  BY <2>3 DEF Underway
<1> QED  BY <1>2, <1>7, <1>9, <1>11, <1>12, <1>13, <1>14 DEF Steady

\* What an action that is added behind others leaves in the list.
LEMMA AddLastKeeps ==
  ASSUME IInv, NEW id \in Joints, NEW value \in Values, NEW time, NEW n \in Nodes,
         Current # NULL, heap[n] = Free, from \in [Nodes -> Int], Believed(id) \in Int,
         order' = Append(order, [node |-> n, act |-> [id |-> id, value |-> value]]),
         heap' = Link(n, NewNode(id, value, time)),
         from' = [from EXCEPT ![n] = Believed(id)]
  PROVE  LET k == Len(order)
         IN  /\ k \in Nat /\ k >= 1 /\ Len(order') = k + 1
             /\ order'[k + 1].act.id = id /\ order'[k + 1].act.value = value
             /\ heap'[order'[k + 1].node] = NewNode(id, value, time)
             /\ from'[order'[k + 1].node] = Believed(id)
             /\ \A i \in 1..k : /\ order'[i] = order[i]
                                /\ heap'[order[i].node].time = heap[order[i].node].time
                                /\ heap'[order[i].node].speed = heap[order[i].node].speed
                                /\ from'[order[i].node] = from[order[i].node]
             /\ Current = order[1].node
<1> DEFINE w == NewNode(id, value, time)
           e == [node |-> n, act |-> [id |-> id, value |-> value]]
<1>0. PICK k : k = Len(order)
  OBVIOUS
<1>1. /\ order \in Seq(Entry) /\ e \in Entry /\ k \in Nat /\ k >= 1
      /\ \A i \in 1..k : order[i].node \in Nodes
      /\ Current = order[1].node
  BY <1>0, HeadOfList DEF Entry, Acts, IInv, ShapeInv
<1>2. /\ Len(order') = k + 1 /\ order'[k + 1] = e
      /\ \A i \in 1..k : order'[i] = order[i]
  BY <1>0, <1>1
<1>3. \A i \in 1..k : order[i].node # n /\ Shape(heap[order[i].node])
  <2>1. heap[n].free = TRUE
    BY DEF Free
  <2>2. \A i \in 1..k : ~heap[order[i].node].free
    BY <1>0 DEF IInv, ListIsOrder, Linked
  <2>3. \A i \in 1..k : Shape(heap[order[i].node])
    BY <1>1 DEF IInv, ShapeInv
  <2> QED  BY <2>1, <2>2, <2>3, Zenon
<1>4. heap' = [m \in Nodes |-> IF m = n THEN w
                               ELSE IF m = Last THEN [heap[m] EXCEPT !.Next = n] ELSE heap[m]]
  BY DEF Link
<1>5. e.act.id = id /\ e.act.value = value /\ e.node = n
  OBVIOUS
<1> HIDE DEF w, e
<1>6. heap'[n] = w /\ from'[n] = Believed(id)
  BY <1>4
<1>7. ASSUME NEW i \in 1..k
      PROVE  /\ heap'[order[i].node].time = heap[order[i].node].time
             /\ heap'[order[i].node].speed = heap[order[i].node].speed
             /\ from'[order[i].node] = from[order[i].node]
  <2> DEFINE m == order[i].node
  <2>1. m \in Nodes /\ m # n /\ Shape(heap[m])
    BY <1>1, <1>3
  <2> HIDE DEF m
  <2>2. heap'[m] = [heap[m] EXCEPT !.Next = n] \/ heap'[m] = heap[m]
    BY <1>4, <2>1
  <2>3. heap'[m].time = heap[m].time /\ heap'[m].speed = heap[m].speed
    BY <2>1, <2>2 DEF Shape
  <2>4. from'[m] = from[m]
    BY <2>1
  <2> QED  BY <2>3, <2>4 DEF m
<1> QED  BY <1>0, <1>1, <1>2, <1>5, <1>6, <1>7 DEF w

\* An action behind others leaves their waits alone.
LEMMA AddLastSteady ==
  ASSUME IInv, Steady, NEW id \in Joints, NEW value \in Values, NEW time,
         id \in Steppers => time \in Periods \ {0}, NEW n \in Nodes,
         Current # NULL, heap[n] = Free,
         lastvalue' = [lastvalue EXCEPT ![id] = value],
         Current' = Current,
         order' = Append(order, [node |-> n, act |-> [id |-> id, value |-> value]]),
         heap' = Link(n, NewNode(id, value, time)),
         from' = [from EXCEPT ![n] = Believed(id)],
         UNCHANGED <<time_start, goal, rate, lag, issued, servo_speed, tick, pos>>
  PROVE  Steady'
<1> DEFINE w == NewNode(id, value, time)
<1>0. PICK k : k = Len(order)
  OBVIOUS
<1>1. /\ goal \in [Joints -> Values] /\ lastvalue \in [Joints -> Int]
      /\ pos \in [Joints -> Int] /\ servo_speed \in [Servos -> Speeds]
      /\ from \in [Nodes -> Int] /\ value \in Int
      /\ \A i \in 1..k : Waits(i)
  BY <1>0, ValuesAssumption DEF Steady, SteadyTypes
<1>2. PICK start \in Int : start = Believed(id)
  BY <1>1 DEF Believed
<1>3. /\ k \in Nat /\ k >= 1 /\ Len(order') = k + 1
      /\ order'[k + 1].act.id = id /\ order'[k + 1].act.value = value
      /\ heap'[order'[k + 1].node] = w /\ from'[order'[k + 1].node] = start
      /\ \A i \in 1..k : /\ order'[i] = order[i]
                         /\ heap'[order[i].node].time = heap[order[i].node].time
                         /\ heap'[order[i].node].speed = heap[order[i].node].speed
                         /\ from'[order[i].node] = from[order[i].node]
      /\ Current = order[1].node
  <2>1. LET k2 == Len(order)
        IN  /\ k2 \in Nat /\ k2 >= 1 /\ Len(order') = k2 + 1
            /\ order'[k2 + 1].act.id = id /\ order'[k2 + 1].act.value = value
            /\ heap'[order'[k2 + 1].node] = w
            /\ from'[order'[k2 + 1].node] = Believed(id)
            /\ \A i \in 1..k2 : /\ order'[i] = order[i]
                                /\ heap'[order[i].node].time = heap[order[i].node].time
                                /\ heap'[order[i].node].speed = heap[order[i].node].speed
                                /\ from'[order[i].node] = from[order[i].node]
            /\ Current = order[1].node
    BY <1>1, <1>2, AddLastKeeps
  <2> HIDE DEF w
  <2> QED  BY <1>0, <1>2, <2>1
<1>4. /\ w.time = TimeOf(id, value, time)
      /\ id \in Steppers => w.speed = StepperSpeed(time)
  BY DEF NewNode
<1> HIDE DEF w
<1>5. /\ w.time \in Nat
      /\ id \in Servos => w.time # 0
      /\ id \in Steppers => w.speed \in WholeSpeeds
      /\ Enough(id, value, start, w.time, w.speed)
  <2>1. LET t == TimeOf(id, value, time)
            s == StepperSpeed(time)
        IN  /\ t \in Nat
            /\ id \in Servos => t # 0 /\ \A x : Enough(id, value, Believed(id), t, x)
            /\ id \in Steppers => s \in WholeSpeeds /\ Enough(id, value, Believed(id), t, s)
    BY <1>1, <1>2, TimeIsEnough
  <2> QED  BY <1>2, <1>4, <2>1, Zenon DEF Joints
<1>6. \A i \in 1..k + 1 : Waits(i)'
  <2>1. Waits(k + 1)'
    BY <1>3, <1>5 DEF Waits
  <2>2. ASSUME NEW i \in 1..k PROVE Waits(i)'
    <3>1. /\ order'[i] = order[i]
          /\ heap'[order'[i].node].time = heap[order[i].node].time
          /\ heap'[order'[i].node].speed = heap[order[i].node].speed
      BY <1>3
    <3>2. Waits(i)
      BY <1>1
    <3> QED  BY <3>1, <3>2 DEF Waits
  <2>3. \A i \in 1..k + 1 : i = k + 1 \/ i \in 1..k
    BY <1>3
  <2> QED  BY <2>1, <2>2, <2>3
<1>7. SteadyTypes'
  <2>1. lastvalue' \in [Joints -> Int] /\ from' \in [Nodes -> Int]
    BY <1>1, <1>2
  <2> QED  BY <1>3, <1>6, <2>1 DEF Steady, SteadyTypes
<1>8. Fitting'
  <2> SUFFICES ASSUME NEW i \in 2..k + 1 PROVE Fits(i)'
    BY <1>3 DEF Fitting
  <2>1. CASE i = k + 1
    <3>1. /\ order'[i].act.id = id /\ order'[i].act.value = value
          /\ from'[order'[i].node] = start /\ heap'[order'[i].node] = w
      BY <1>3, <2>1
    <3>2. Enough(id, value, start, w.time, w.speed)
      BY <1>5
    <3> QED  BY <3>1, <3>2, Zenon DEF Fits, Enough, RateFor, Rest, StepRate, Distance
  <2>2. CASE i # k + 1
    <3>1. i \in 2..k /\ i \in 1..k
      BY <1>3, <2>2
    <3>2. Fits(i)
      BY <1>0, <3>1 DEF Steady, Fitting
    <3> QED  BY <1>3, <3>1, <3>2 DEF Fits, Enough, RateFor, Rest, StepRate, Distance
  <2> QED  BY <2>1, <2>2
<1>9. Arrived' /\ Underway'
  <2>1. heap'[Current'].time = heap[Current].time
    BY <1>3
  <2> QED  BY <2>1 DEF Steady, Arrived, Underway, Waited, InTime, Near, Distance, Slack, Rest
<1> QED  BY <1>7, <1>8, <1>9 DEF Steady

\* What the end of an action leaves in the list.
LEMMA AdvanceKeeps ==
  ASSUME IInv, Current # NULL, Advance, from \in [Nodes -> Int]
  PROVE  LET k == Len(order)
         IN  /\ k \in Nat /\ k >= 1
             /\ Len(order') = k - 1 /\ \A i \in 1..k - 1 : order'[i] = order[i + 1]
             /\ k = 1 => /\ Current' = NULL
                         /\ UNCHANGED <<time_start, goal, rate, lag, issued, from>>
             /\ k > 1 => /\ order[2].act \in Acts /\ order[2].node \in Nodes
                         /\ heap[order[2].node].acts = <<order[2].act>>
                         /\ Current' = order[2].node
                         /\ Command(heap[order[2].node], from[order[2].node])
             /\ \A i \in 2..k :
                  /\ heap'[order[i].node].time = heap[order[i].node].time
                  /\ heap'[order[i].node].speed = heap[order[i].node].speed
                  /\ i > 2 => from'[order[i].node] = from[order[i].node]
             /\ from' \in [Nodes -> Int]
<1>0. PICK k : k = Len(order)
  OBVIOUS
<1>1. /\ order \in Seq(Entry) /\ k \in Nat /\ k >= 1
      /\ \A i \in 1..k : order[i].act \in Acts /\ order[i].node \in Nodes
      /\ \A i \in 2..k : order[i].node # Current
      /\ heap[Current].Next = IF k = 1 THEN NULL ELSE order[2].node
      /\ k > 1 => heap[order[2].node].acts = <<order[2].act>>
  BY <1>0, HeadOfList DEF IInv, ShapeInv
<1>2. /\ Len(order') = k - 1 /\ \A i \in 1..k - 1 : order'[i] = order[i + 1]
  <2>1. order' = Tail(order) /\ order # <<>>
    BY <1>0, <1>1 DEF Advance
  <2> QED  BY <1>0, <1>1, <2>1
<1>3. CASE k = 1
  <2>1. /\ Current' = NULL
        /\ UNCHANGED <<time_start, goal, rate, lag, issued, from>>
    BY <1>1, <1>3 DEF Advance, armVars
  <2>2. \A i \in 2..k : FALSE
    BY <1>3
  <2> QED  BY <1>0, <1>1, <1>2, <1>3, <2>1, <2>2
<1>4. CASE k > 1
  <2> DEFINE next == order[2].node
  <2>1. 2 \in 1..k /\ next \in Nodes /\ next # NULL /\ heap[Current].Next = next
    BY <1>1, <1>4, NodesAssumption
  <2>2. /\ Current' = next /\ Command(heap[next], from[next])
        /\ heap' = [heap EXCEPT ![Current] = Free, ![next].acts = <<>>]
        /\ from' = [from EXCEPT ![next] = 0]
    BY <2>1 DEF Advance
  <2>3. \A i, j \in 1..k : order[i].node = order[j].node => i = j
    BY <1>0 DEF IInv, ListIsOrder
  <2>4. ASSUME NEW i \in 2..k
        PROVE  /\ heap'[order[i].node].time = heap[order[i].node].time
               /\ heap'[order[i].node].speed = heap[order[i].node].speed
               /\ i > 2 => from'[order[i].node] = from[order[i].node]
    <3> DEFINE m == order[i].node
    <3>1. m \in Nodes /\ m # Current /\ Shape(heap[m]) /\ heap = [x \in Nodes |-> heap[x]]
      <4>1. i \in 1..k
        BY <1>1
      <4> QED  BY <1>1, <4>1 DEF IInv, ShapeInv
    <3>2. i > 2 => m # next
      <4>1. i \in 1..k /\ i \in Int
        BY <1>1
      <4>2. i > 2 => i # 2
        BY <4>1
      <4> QED  BY <2>1, <2>3, <4>1, <4>2
    <3> HIDE DEF m, next
    <3>3. heap'[m] = heap[m] \/ heap'[m] = [heap[m] EXCEPT !.acts = <<>>]
      BY <2>2, <3>1
    <3>4. heap'[m].time = heap[m].time /\ heap'[m].speed = heap[m].speed
      BY <3>1, <3>3 DEF Shape
    <3>5. i > 2 => from'[m] = from[m]
      BY <2>2, <3>1, <3>2
    <3> QED  BY <3>4, <3>5 DEF m
  <2>5. from' \in [Nodes -> Int]
    <3> HIDE DEF next
    <3>1. from' = [from EXCEPT ![next] = 0] /\ from \in [Nodes -> Int]
      BY <2>2
    <3>2. from' = [x \in Nodes |-> IF x = next THEN 0 ELSE from[x]]
      BY <3>1
    <3>3. \A x \in Nodes : from[x] \in Int
      BY <3>1
    <3> QED  BY <3>2, <3>3
  <2> QED  BY <1>0, <1>1, <1>2, <1>4, <2>1, <2>2, <2>4, <2>5
<1> QED  BY <1>1, <1>3, <1>4

\* The next action starts when every joint has had its time.
LEMMA AdvanceSteady ==
  ASSUME IInv, Steady, Current # NULL, Elapsed, Advance,
         UNCHANGED <<lastvalue, servo_speed, tick, pos>>
  PROVE  Steady'
<1>0. PICK k : k = Len(order)
  OBVIOUS
<1>1. /\ goal \in [Joints -> Values] /\ lastvalue \in [Joints -> Int]
      /\ pos \in [Joints -> Int] /\ rate \in [Joints -> Nat] /\ lag \in [Joints -> Nat]
      /\ tick \in 0..TickMod-1 /\ time_start \in 0..TickMod-1 /\ from \in [Nodes -> Int]
      /\ \A i \in 1..k : Waits(i)
      /\ \A i \in 2..k : Fits(i)
  BY <1>0 DEF Steady, SteadyTypes, Fitting
<1>2. /\ k \in Nat /\ k >= 1
      /\ Len(order') = k - 1 /\ \A i \in 1..k - 1 : order'[i] = order[i + 1]
      /\ k = 1 => /\ Current' = NULL
                  /\ UNCHANGED <<time_start, goal, rate, lag, issued, from>>
      /\ k > 1 => /\ order[2].act \in Acts /\ order[2].node \in Nodes
                  /\ heap[order[2].node].acts = <<order[2].act>>
                  /\ Current' = order[2].node
                  /\ Command(heap[order[2].node], from[order[2].node])
      /\ \A i \in 2..k :
           /\ heap'[order[i].node].time = heap[order[i].node].time
           /\ heap'[order[i].node].speed = heap[order[i].node].speed
           /\ i > 2 => from'[order[i].node] = from[order[i].node]
      /\ from' \in [Nodes -> Int]
  BY <1>0, <1>1, AdvanceKeeps
<1>3. \A j \in Joints : Near(pos[j], goal[j], Slack(j))
  BY AllArrived
<1>4. CASE k = 1
  <2>1. Current' = NULL /\ UNCHANGED <<time_start, goal, rate, lag, issued, from>>
    BY <1>2, <1>4
  <2>2. (\A i \in 1..Len(order') : FALSE) /\ (\A i \in 2..Len(order') : FALSE)
    BY <1>2, <1>4
  <2>3. SteadyTypes' /\ Fitting'
    BY <2>1, <2>2 DEF Steady, SteadyTypes, Fitting
  <2>4. Arrived' /\ Underway'
    BY <1>3, <2>1 DEF Arrived, Underway, Near, Distance, Slack, Rest
  <2> QED  BY <2>3, <2>4 DEF Steady
<1>5. CASE k > 1
  <2>0. PICK a, next, r : a = order[2].act /\ next = order[2].node /\ r = heap[next]
    OBVIOUS
  <2>1. /\ a \in Acts /\ next \in Nodes /\ next # NULL /\ 2 \in 1..k /\ 2 \in 2..k
        /\ r.acts = <<a>> /\ Current' = next /\ Command(r, from[next])
    BY <1>2, <1>5, <2>0, NodesAssumption
  <2>2. /\ r.time \in Nat
        /\ a.id \in Servos => r.time # 0
        /\ a.id \in Steppers => r.speed \in WholeSpeeds
    <3>1. Waits(2)
      BY <1>1, <2>1
    <3> QED  BY <2>0, <3>1 DEF Waits
  <2>3. from[next] \in Int /\ Enough(a.id, a.value, from[next], r.time, r.speed)
    <3>1. Fits(2)
      BY <1>1, <2>1
    <3>2. Enough(a.id, a.value, from[next], r.time, r.speed)
      BY <2>0, <3>1, Zenon DEF Fits
    <3> QED  BY <1>1, <2>1, <3>2
  <2>4. /\ goal' \in [Joints -> Values] /\ rate' \in [Joints -> Nat] /\ lag' \in [Joints -> Nat]
        /\ time_start' = tick /\ issued' = a
        /\ \A j \in Joints : j # a.id =>
             goal'[j] = goal[j] /\ rate'[j] = rate[j] /\ lag'[j] = lag[j]
        /\ InTime(pos[a.id], goal'[a.id], rate'[a.id], r.time, Slack(a.id)')
    <3>1. SteadyTypes
      BY DEF Steady
    <3>2. PICK start \in Int : start = from[next]
      BY <2>3
    <3>3. Command(r, start) /\ Enough(a.id, a.value, start, r.time, r.speed)
      BY <2>1, <2>3, <3>2
    <3> QED  BY <2>1, <2>2, <3>1, <3>3, CommandStarts
  <2>5. \A i \in 1..k - 1 : i + 1 \in 2..k /\ i + 1 \in 1..k /\ order'[i] = order[i + 1]
    BY <1>2
  <2>6. ASSUME NEW i \in 1..k - 1 PROVE Waits(i)' /\ (i > 1 => Fits(i)')
    <3>1. /\ order'[i] = order[i + 1]
          /\ heap'[order'[i].node].time = heap[order[i + 1].node].time
          /\ heap'[order'[i].node].speed = heap[order[i + 1].node].speed
          /\ i > 1 => from'[order'[i].node] = from[order[i + 1].node]
      <4>1. i > 1 => i + 1 > 2
        BY <1>2
      <4> QED  BY <1>2, <2>5, <4>1
    <3>2. Waits(i + 1) /\ Fits(i + 1)
      BY <1>1, <2>5
    <3>3. Waits(i)'
      BY <3>1, <3>2 DEF Waits
    <3>4. i > 1 => Fits(i)'
      BY <3>1, <3>2, Zenon DEF Fits, Enough, RateFor, Rest, StepRate, Distance
    <3> QED  BY <3>3, <3>4
  <2>7. SteadyTypes'
    BY <1>1, <1>2, <2>4, <2>6 DEF Steady, SteadyTypes
  <2>8. Fitting'
    <3>1. \A i \in 2..k - 1 : i \in 1..k - 1 /\ i > 1
      BY <1>2
    <3> QED  BY <1>2, <2>6, <3>1 DEF Fitting
  <2>9. Arrived'
    <3> SUFFICES ASSUME NEW j \in Joints, Current' = NULL \/ issued'.id # j
                 PROVE  Near(pos'[j], goal'[j], Slack(j)')
      BY DEF Arrived
    <3>1. j # a.id
      BY <2>1, <2>4
    <3>2. Slack(j)' = Slack(j) /\ goal'[j] = goal[j]
      BY <2>4, <3>1 DEF Slack, Rest
    <3> QED  BY <1>3, <3>2
  <2>10. Underway'
    <3>1. Waited' = 0
      BY <2>4, JustStarted DEF Steady
    <3>2. heap'[Current'].time - Waited' = r.time
      <4>1. heap'[next].time = r.time
        BY <1>2, <2>0, <2>1
      <4> QED  BY <2>1, <2>2, <3>1, <4>1
    <3>3. ASSUME NEW j \in Joints, issued'.id = j
          PROVE  InTime(pos'[j], goal'[j], rate'[j], heap'[Current'].time - Waited', Slack(j)')
      <4>1. j = a.id
        BY <2>4, <3>3
      <4> QED  BY <2>4, <3>2, <4>1
    <3> QED  BY <3>3 DEF Underway
  <2> QED  BY <2>7, <2>8, <2>9, <2>10 DEF Steady
<1> QED  BY <1>2, <1>4, <1>5

\* The other operations leave the list and the goals alone.
LEMMA SameWaits ==
  ASSUME NEW i, order' = order, heap' = heap, servo_speed' = servo_speed, from' = from
  PROVE  (Waits(i)' <=> Waits(i)) /\ (Fits(i)' <=> Fits(i))
<1>1. Waits(i)' <=> Waits(i)
  BY Zenon DEF Waits
<1>2. Fits(i)' <=> Fits(i)
  BY Zenon DEF Fits, Enough, RateFor, Rest, StepRate, Distance
<1> QED  BY <1>1, <1>2

LEMMA TickSteady ==
  ASSUME IInv, Steady, Tick
  PROVE  Steady'
<1>1. /\ tick' = (tick + 1) % TickMod /\ pos' = [j \in Joints |-> Moved(j)]
      /\ UNCHANGED <<heap, Current, Last, order, time_start, lastvalue, servo_speed, boot,
                     goal, rate, issued, from, lag>>
  BY DEF Tick, listVars, armVars
<1>2. /\ goal \in [Joints -> Values] /\ pos \in [Joints -> Int] /\ rate \in [Joints -> Nat]
      /\ lag \in [Joints -> Nat]
      /\ \A j \in Joints : goal[j] \in Int
      /\ tick \in 0..TickMod-1 /\ time_start \in 0..TickMod-1
  BY ValuesAssumption DEF Steady, SteadyTypes
<1>3. Waited \in 0..TickMod-1 /\ tick' \in 0..TickMod-1 /\ Waited' \in 0..TickMod-1
      /\ Waited' <= Waited + 1
  BY <1>1, <1>2, WaitedAdvances
<1>4. \A i : (Waits(i)' <=> Waits(i)) /\ (Fits(i)' <=> Fits(i))
  BY <1>1, SameWaits
<1>5. \A j \in Joints : Slack(j) \in Int /\ Slack(j)' = Slack(j)
  BY <1>1, <1>2 DEF Slack, Rest
<1>6. \A j \in Joints : /\ Moved(j) \in Int
                        /\ Near(pos[j], goal[j], Slack(j)) => Near(Moved(j), goal[j], Slack(j))
  <2> SUFFICES ASSUME NEW j \in Joints
               PROVE  /\ Moved(j) \in Int
                      /\ Near(pos[j], goal[j], Slack(j)) => Near(Moved(j), goal[j], Slack(j))
    OBVIOUS
  <2>1. pos[j] \in Int /\ goal[j] \in Int /\ rate[j] \in Nat /\ 0 \in Int /\ 0 >= 0 - 1
        /\ Slack(j) \in Int
    BY <1>2, <1>5
  <2> QED  BY <2>1, MovesInTime
<1>7. SteadyTypes'
  <2>1. pos' \in [Joints -> Int]
    BY <1>1, <1>6
  <2> QED  BY <1>1, <1>3, <1>4, <2>1 DEF Steady, SteadyTypes
<1>8. Fitting'
  BY <1>1, <1>4 DEF Steady, Fitting
<1>9. Arrived'
  <2> SUFFICES ASSUME NEW j \in Joints, Current = NULL \/ issued.id # j
               PROVE  Near(pos'[j], goal[j], Slack(j)')
    BY <1>1 DEF Arrived
  <2>1. Near(pos[j], goal[j], Slack(j))
    BY DEF Steady, Arrived
  <2>2. pos'[j] = Moved(j)
    BY <1>1
  <2> QED  BY <1>5, <1>6, <2>1, <2>2
<1>10. Underway'
  <2> SUFFICES ASSUME NEW j \in Joints, Current # NULL, issued.id = j
               PROVE  InTime(pos'[j], goal[j], rate[j], heap[Current].time - Waited', Slack(j)')
    BY <1>1 DEF Underway
  <2>1. heap[Current].time \in Nat
    <3>1. Waits(1) /\ Current = order[1].node
      BY HeadOfList DEF Steady, SteadyTypes
    <3> QED  BY <3>1 DEF Waits
  <2>2. /\ heap[Current].time - Waited \in Int /\ heap[Current].time - Waited' \in Int
        /\ heap[Current].time - Waited' >= heap[Current].time - Waited - 1
    BY <1>3, <2>1
  <2>3. pos[j] \in Int /\ goal[j] \in Int /\ rate[j] \in Nat /\ Slack(j) \in Int
    BY <1>2, <1>5
  <2>4. InTime(pos[j], goal[j], rate[j], heap[Current].time - Waited, Slack(j))
    BY DEF Steady, Underway
  <2>5. pos'[j] = Moved(j)
    BY <1>1
  <2>6. InTime(Moved(j), goal[j], rate[j], heap[Current].time - Waited', Slack(j))
    BY <2>2, <2>3, <2>4, MovesInTime
  <2> QED  BY <1>5, <2>5, <2>6
<1> QED  BY <1>7, <1>8, <1>9, <1>10 DEF Steady

LEMMA BootSteady ==
  ASSUME Steady, Boot
  PROVE  Steady'
<1>1. PICK id \in Servos :
        /\ lastvalue' = [lastvalue EXCEPT ![id] = Default[id]]
        /\ UNCHANGED <<heap, Current, order, time_start, servo_speed, tick, pos, goal, rate,
                       issued, from, lag>>
  BY DEF Boot, update_Servo_state, listVars, armVars
<1>2. \A i : (Waits(i)' <=> Waits(i)) /\ (Fits(i)' <=> Fits(i))
  BY <1>1, SameWaits
<1>3. lastvalue' \in [Joints -> Int]
  BY <1>1, ValuesAssumption DEF Steady, SteadyTypes
<1>4. SteadyTypes' /\ Fitting'
  BY <1>1, <1>2, <1>3 DEF Steady, SteadyTypes, Fitting
<1>5. Arrived' /\ Underway'
  BY <1>1 DEF Steady, Arrived, Underway, Waited, InTime, Near, Distance, Slack, Rest
<1> QED  BY <1>4, <1>5 DEF Steady

LEMMA ChangeSpeedSteady ==
  ASSUME IInv, Steady, Is_Servo_Idle, ChangeSpeed
  PROVE  Steady'
<1>1. PICK id \in Servos, speed \in Speeds :
        /\ servo_speed' = [servo_speed EXCEPT ![id] = speed]
        /\ UNCHANGED <<heap, Current, order, time_start, lastvalue, boot, tick, pos, goal, rate,
                       issued, from, lag>>
  BY DEF ChangeSpeed, change_servo_speed, listVars, armVars
<1>2. (\A i \in 1..Len(order) : FALSE) /\ (\A i \in 2..Len(order) : FALSE)
  BY Ends DEF Is_Servo_Idle
<1>3. SteadyTypes' /\ Fitting'
  BY <1>1, <1>2 DEF Steady, SteadyTypes, Fitting
<1>4. Arrived' /\ Underway'
  BY <1>1 DEF Steady, Arrived, Underway, Waited, InTime, Near, Distance, Slack, Rest
<1> QED  BY <1>3, <1>4 DEF Steady

LEMMA StandingSteady ==
  ASSUME Steady, UNCHANGED <<heap, Current, order, time_start, lastvalue, servo_speed, tick,
                             pos, goal, rate, issued, from, lag>>
  PROVE  Steady'
<1>1. \A i : (Waits(i)' <=> Waits(i)) /\ (Fits(i)' <=> Fits(i))
  BY SameWaits
<1>2. SteadyTypes' /\ Fitting'
  BY <1>1 DEF Steady, SteadyTypes, Fitting
<1>3. Arrived' /\ Underway'
  BY DEF Steady, Arrived, Underway, Waited, InTime, Near, Distance, Slack, Rest
<1> QED  BY <1>2, <1>3 DEF Steady

LEMMA SteadyInit == Init => Steady
<1> SUFFICES ASSUME Init PROVE Steady
  OBVIOUS
<1>1. /\ Current = NULL /\ order = <<>>
      /\ time_start = 0 /\ tick = 0 /\ lastvalue = [j \in Joints |-> 0]
      /\ servo_speed \in [Servos -> Speeds]
      /\ pos \in [Joints -> Values] /\ goal = pos /\ rate = [j \in Joints |-> 0]
      /\ from = [n \in Nodes |-> 0] /\ lag = [j \in Joints |-> 0]
  BY DEF Init
<1>2. (\A i \in 1..Len(order) : FALSE) /\ (\A i \in 2..Len(order) : FALSE)
  BY <1>1
<1>3. SteadyTypes
  <2>1. pos \in [Joints -> Int]
    BY <1>1, ValuesAssumption
  <2>2. 0 \in 0..TickMod - 1
    BY TickAssumption
  <2> QED  BY <1>1, <1>2, <2>1, <2>2 DEF SteadyTypes
<1>4. Fitting /\ Arrived /\ Underway
  BY <1>1, <1>2 DEF Fitting, Arrived, Underway, Near
<1> QED  BY <1>3, <1>4 DEF Steady

LEMMA SteadyIsNext == [SteadyNext]_vars => [Next]_vars
BY DEF SteadyNext, Next, Adds

\* An action added is the first of the list, commanded at once, or the last of it.
LEMMA AddIsFirstOrLast ==
  ASSUME IInv, NEW id \in Joints, NEW value \in Values, NEW time,
         Servo_Add_Action(id, value, time)
  PROVE  \E n \in Nodes :
           /\ heap[n] = Free
           /\ lastvalue' = [lastvalue EXCEPT ![id] = value]
           /\ order' = Append(order, [node |-> n, act |-> [id |-> id, value |-> value]])
           /\ IF Current = NULL
                THEN /\ Current' = n
                     /\ Command(NewNode(id, value, time), Believed(id))
                     /\ heap' = [heap EXCEPT ![n] = [NewNode(id, value, time) EXCEPT !.acts = <<>>]]
                     /\ UNCHANGED from
                ELSE /\ heap' = Link(n, NewNode(id, value, time))
                     /\ from' = [from EXCEPT ![n] = Believed(id)]
                     /\ UNCHANGED <<Current, time_start, goal, rate, issued, lag>>
           /\ UNCHANGED <<servo_speed, boot, tick, pos>>
<1>1. PICK n \in Nodes :
        LET node == NewNode(id, value, time)
        IN  /\ heap[n] = Free
            /\ lastvalue' = [lastvalue EXCEPT ![id] = value]
            /\ order' = Append(order, [node |-> n, act |-> node.acts[1]])
            /\ IF Current = NULL
                 THEN /\ Current' = n
                      /\ Command(node, Believed(id))
                      /\ heap' = [heap EXCEPT ![n] = [node EXCEPT !.acts = <<>>]]
                      /\ UNCHANGED from
                 ELSE /\ heap' = Link(n, node)
                      /\ from' = [from EXCEPT ![n] = Believed(id)]
                      /\ UNCHANGED <<Current, time_start, armVars>>
            /\ UNCHANGED <<servo_speed, boot, tick, since, pos>>
  BY Zenon DEF Servo_Add_Action
<1>2. NewNode(id, value, time).acts[1] = [id |-> id, value |-> value]
  <2>1. NewNode(id, value, time).acts = <<[id |-> id, value |-> value]>>
    BY NewNodeShape
  <2> QED  BY <2>1
<1>3. order' = Append(order, [node |-> n, act |-> [id |-> id, value |-> value]])
  BY <1>1, <1>2, Zenon
<1>4. UNCHANGED <<servo_speed, boot, tick, pos>>
  BY <1>1
<1>5. Current # NULL => UNCHANGED <<Current, time_start, goal, rate, issued, lag>>
  BY <1>1 DEF armVars
<1> QED  BY <1>1, <1>3, <1>4, <1>5, Zenon

LEMMA SteadyStep == IInv /\ Steady /\ [SteadyNext]_vars => Steady'
<1> SUFFICES ASSUME IInv, Steady, [SteadyNext]_vars PROVE Steady'
  OBVIOUS
<1>1. ASSUME NEW id \in Joints, NEW value \in Values, NEW time,
             id \in Steppers => time \in Periods \ {0},
             Servo_Add_Action(id, value, time)
      PROVE  Steady'
  <2>1. PICK n \in Nodes :
           /\ heap[n] = Free
           /\ lastvalue' = [lastvalue EXCEPT ![id] = value]
           /\ order' = Append(order, [node |-> n, act |-> [id |-> id, value |-> value]])
           /\ IF Current = NULL
                THEN /\ Current' = n
                     /\ Command(NewNode(id, value, time), Believed(id))
                     /\ heap' = [heap EXCEPT ![n] = [NewNode(id, value, time) EXCEPT !.acts = <<>>]]
                     /\ UNCHANGED from
                ELSE /\ heap' = Link(n, NewNode(id, value, time))
                     /\ from' = [from EXCEPT ![n] = Believed(id)]
                     /\ UNCHANGED <<Current, time_start, goal, rate, issued, lag>>
           /\ UNCHANGED <<servo_speed, boot, tick, pos>>
    BY <1>1, AddIsFirstOrLast
  <2>2. CASE Current = NULL
    <3>1. UNCHANGED <<servo_speed, tick, pos, from>>
      BY <2>1, <2>2
    <3> QED  BY <1>1, <2>1, <2>2, <3>1, AddFirstSteady, Zenon
  <2>3. CASE Current # NULL
    <3>1. /\ UNCHANGED <<time_start, goal, rate, lag, issued, servo_speed, tick, pos>>
          /\ Current' = Current
      BY <2>1, <2>3
    <3> QED  BY <1>1, <2>1, <2>3, <3>1, AddLastSteady, Zenon
  <2> QED  BY <2>2, <2>3
<1>2. CASE \E id \in Servos, value \in Values : Servo_Add_Action(id, value, -1)
  <2>1. PICK id \in Servos, value \in Values : Servo_Add_Action(id, value, -1)
    BY <1>2
  <2>2. id \in Joints /\ id \notin Steppers
    BY JointsAssumption DEF Joints
  <2> QED  BY <1>1, <2>1, <2>2
<1>3. CASE \E id \in Steppers, value \in Values, time \in Periods \ {0} :
              Servo_Add_Action(id, value, time)
  BY <1>1, <1>3 DEF Joints
<1>4. CASE Servo_Server
  <2>1. CASE Current # NULL /\ Elapsed
    <3>1. Advance /\ UNCHANGED <<lastvalue, servo_speed, tick, pos>>
      BY <1>4, <2>1 DEF Servo_Server
    <3> QED  BY <2>1, <3>1, AdvanceSteady
  <2>2. CASE ~(Current # NULL /\ Elapsed)
    <3>1. UNCHANGED <<heap, Current, order, time_start, lastvalue, servo_speed, tick,
                      pos, goal, rate, issued, from, lag>>
      BY <1>4, <2>2 DEF Servo_Server, listVars, armVars
    <3> QED  BY <3>1, StandingSteady
  <2> QED  BY <2>1, <2>2
<1>5. CASE UNCHANGED vars
  <2>1. UNCHANGED <<heap, Current, order, time_start, lastvalue, servo_speed, tick,
                    pos, goal, rate, issued, from, lag>>
    BY <1>5 DEF vars
  <2> QED  BY <2>1, StandingSteady
<1> QED  BY <1>2, <1>3, <1>4, <1>5, BootSteady, TickSteady, ChangeSpeedSteady, Zenon
         DEF SteadyNext

\* One joint moves at a time, from whatever place and however early in the boot: when
\* another action starts, and when the arm reports that it is idle, every joint is as
\* near to its goal as it had been to where the code believed it, a stepper but for less
\* than the way of a millisecond: for any joints, ways, speeds, queue and width of the
\* tick, as long as speeds change only when the queue is empty and no stepper's is 0.
THEOREM OneJointMoves == SteadySpec => []OneAtATime
<1>1. Init => IInv /\ Steady
  BY InitInv, SteadyInit
<1>2. IInv /\ Steady /\ [SteadyNext]_vars => (IInv /\ Steady)'
  BY SteadyStep, SteadyIsNext, StepInv
<1>3. Steady => OneAtATime
  BY DEF Steady, Arrived, OneAtATime, Is_Servo_Idle, Near, Slack, Rest
<1> QED  BY <1>1, <1>2, <1>3, PTL DEF SteadySpec
-------------------------------------------------------------------------------
\* When the arm stands, besides, where the code assumes, and actions come after the boot,
\* every servo starts where the code believes.

\* No waiting action from i to k is for joint j.
NoneFor(j, i, k) == \A m \in i..k : order[m].act.id # j

Start(i) == from[order[i].node]

\* A waiting action will start where the one before it for the same joint ends; the
\* first of a joint, from the joint's goal.
Planned ==
  \A i \in 2..Len(order) :
    LET j == order[i].act.id
    IN  j \in Servos =>
          /\ NoneFor(j, 2, i - 1) => Start(i) = goal[j]
          /\ \A k \in 2..i - 1 : order[k].act.id = j /\ NoneFor(j, k + 1, i - 1)
                                   => Start(i) = order[k].act.value

\* The code's belief is where the last action for the joint ends.
Believes ==
  /\ \A j \in Servos \ boot : NoneFor(j, 2, Len(order)) => lastvalue[j] = goal[j]
  /\ \A k \in 2..Len(order) :
       order[k].act.id \in Servos /\ NoneFor(order[k].act.id, k + 1, Len(order))
         => lastvalue[order[k].act.id] = order[k].act.value

Booting == (boot # {} => order = <<>>) /\ \A j \in boot : goal[j] = Default[j]

Exact == \A j \in Servos : lag[j] = 0

Known == Planned /\ Believes /\ Booting /\ Exact

\* A servo that is near its goal, and set off where it was believed, is at it.
LEMMA NearIsThere ==
  ASSUME Steady, Exact, NEW j \in Servos, Near(pos[j], goal[j], Slack(j))
  PROVE  pos[j] = goal[j]
<1>1. j \in Joints /\ j \notin Steppers
  BY JointsAssumption DEF Joints
<1>2. pos[j] \in Int /\ goal[j] \in Int /\ Slack(j) = 1
  <2>1. pos[j] \in Int /\ goal[j] \in Values /\ lag[j] = 0
    BY <1>1 DEF Steady, SteadyTypes, Exact
  <2>2. Slack(j) = 1
    BY <1>1, <2>1 DEF Slack, Rest
  <2> QED  BY <2>1, <2>2, ValuesAssumption
<1>3. Distance(pos[j], goal[j]) \in Nat /\ (Distance(pos[j], goal[j]) <= 0 => pos[j] = goal[j])
  BY <1>2, DistanceFacts
<1> QED  BY <1>2, <1>3 DEF Near

LEMMA AddFirstKnown ==
  ASSUME IInv, Steady, Known, boot = {}, NEW id \in Joints, NEW value \in Values,
         Current = NULL, Len(order) = 0, Len(order') = 1,
         lastvalue' = [lastvalue EXCEPT ![id] = value],
         goal'[id] = value, lag'[id] = Distance(pos[id], Believed(id)),
         \A j \in Joints : j # id => goal'[j] = goal[j] /\ lag'[j] = lag[j],
         UNCHANGED boot
  PROVE  Known'
<1>1. /\ \A i \in 2..Len(order) : FALSE
      /\ \A i \in 2..Len(order') : FALSE
      /\ \A j \in Servos : j \in Joints /\ j \notin Steppers
      /\ lastvalue \in [Joints -> Int] /\ pos \in [Joints -> Int]
  BY JointsAssumption DEF Steady, SteadyTypes, Joints
<1>2. \A j \in Servos : lastvalue[j] = goal[j]
  BY <1>1 DEF Known, Believes, NoneFor
<1>3. Planned' /\ Believes'
  <2>1. \A j \in Servos : lastvalue'[j] = goal'[j]
    BY <1>1, <1>2
  <2> QED  BY <1>1, <2>1 DEF Planned, Believes
<1>4. Booting'
  BY DEF Booting
<1>5. Exact'
  <2> SUFFICES ASSUME NEW j \in Servos PROVE lag'[j] = 0
    BY DEF Exact
  <2>1. CASE j = id
    <3>1. Near(pos[j], goal[j], Slack(j))
      BY <1>1 DEF Steady, Arrived
    <3>2. pos[j] = goal[j]
      BY <3>1, NearIsThere DEF Known
    <3>3. Believed(j) = pos[j]
      BY <1>1, <1>2, <3>2 DEF Believed
    <3> QED  BY <1>1, <2>1, <3>3 DEF Distance
  <2>2. CASE j # id
    BY <1>1, <2>2 DEF Known, Exact
  <2> QED  BY <2>1, <2>2
<1> QED  BY <1>3, <1>4, <1>5 DEF Known

LEMMA AddLastKnown ==
  ASSUME IInv, Steady, Known, boot = {}, NEW id \in Joints, NEW value \in Values, NEW time,
         NEW n \in Nodes, Current # NULL, heap[n] = Free,
         lastvalue' = [lastvalue EXCEPT ![id] = value],
         order' = Append(order, [node |-> n, act |-> [id |-> id, value |-> value]]),
         heap' = Link(n, NewNode(id, value, time)),
         from' = [from EXCEPT ![n] = Believed(id)],
         UNCHANGED <<goal, lag, boot>>
  PROVE  Known'
<1>0. PICK k : k = Len(order)
  OBVIOUS
<1>1. /\ lastvalue \in [Joints -> Int] /\ from \in [Nodes -> Int]
      /\ \A j \in Servos : j \in Joints /\ j \notin Steppers
  BY JointsAssumption DEF Steady, SteadyTypes, Joints
<1>2. PICK start \in Int : start = Believed(id)
  BY <1>1 DEF Steady, SteadyTypes, Believed
<1>3. /\ k \in Nat /\ k >= 1 /\ Len(order') = k + 1
      /\ order'[k + 1].act.id = id /\ order'[k + 1].act.value = value
      /\ Start(k + 1)' = start
      /\ \A i \in 1..k : order'[i] = order[i] /\ Start(i)' = Start(i)
  <2>1. LET k2 == Len(order)
        IN  /\ k2 \in Nat /\ k2 >= 1 /\ Len(order') = k2 + 1
            /\ order'[k2 + 1].act.id = id /\ order'[k2 + 1].act.value = value
            /\ from'[order'[k2 + 1].node] = Believed(id)
            /\ \A i \in 1..k2 : /\ order'[i] = order[i]
                                /\ from'[order[i].node] = from[order[i].node]
    BY <1>1, <1>2, AddLastKeeps
  <2> QED  BY <1>0, <1>2, <2>1 DEF Start
<1>4. id \in Servos => start = lastvalue[id]
  BY <1>1, <1>2 DEF Believed
<1>5. \A i \in 2..k + 1 : i \in 2..k \/ i = k + 1
  BY <1>3
<1>6. ASSUME NEW j, NEW l \in 2..k + 2, NEW i \in 1..k, NoneFor(j, l, i)' PROVE NoneFor(j, l, i)
  <2>1. \A m \in l..i : m \in 1..k
    BY <1>3
  <2> QED  BY <1>3, <1>6, <2>1 DEF NoneFor
<1>7. Planned'
  <2> SUFFICES ASSUME NEW i \in 2..k + 1, NEW j \in Servos, j = order'[i].act.id
               PROVE  /\ NoneFor(j, 2, i - 1)' => Start(i)' = goal[j]
                      /\ \A l \in 2..i - 1 :
                           order'[l].act.id = j /\ NoneFor(j, l + 1, i - 1)'
                             => Start(i)' = order'[l].act.value
    BY <1>3, Zenon DEF Planned
  <2>1. /\ i - 1 \in 1..k /\ 2 \in 2..k + 2
        /\ \A l \in 2..i - 1 : l \in 2..k /\ l \in 1..k /\ l + 1 \in 2..k + 2
    BY <1>3
  <2>2. CASE i = k + 1
    <3>1. j = id /\ i - 1 = k /\ Start(i)' = lastvalue[j]
      BY <1>3, <1>4, <2>2
    <3>2. ASSUME NoneFor(j, 2, i - 1)' PROVE Start(i)' = goal[j]
      <4>1. NoneFor(j, 2, k)
        BY <1>6, <2>1, <3>1, <3>2
      <4> QED  BY <1>0, <3>1, <4>1 DEF Known, Believes
    <3>3. ASSUME NEW l \in 2..i - 1, order'[l].act.id = j, NoneFor(j, l + 1, i - 1)'
          PROVE  Start(i)' = order'[l].act.value
      <4>1. NoneFor(j, l + 1, k) /\ l \in 2..k /\ order'[l] = order[l]
        BY <1>3, <1>6, <2>1, <3>1, <3>3
      <4> QED  BY <1>0, <3>1, <3>3, <4>1 DEF Known, Believes
    <3> QED  BY <3>2, <3>3
  <2>3. CASE i # k + 1
    <3>1. i \in 2..k /\ i \in 1..k /\ order'[i] = order[i] /\ Start(i)' = Start(i)
      BY <1>3, <1>5, <2>3
    <3>2. ASSUME NoneFor(j, 2, i - 1)' PROVE Start(i)' = goal[j]
      <4>1. NoneFor(j, 2, i - 1)
        BY <1>6, <2>1, <3>2
      <4> QED  BY <1>0, <3>1, <4>1 DEF Known, Planned
    <3>3. ASSUME NEW l \in 2..i - 1, order'[l].act.id = j, NoneFor(j, l + 1, i - 1)'
          PROVE  Start(i)' = order'[l].act.value
      <4>1. NoneFor(j, l + 1, i - 1) /\ order'[l] = order[l]
        BY <1>3, <1>6, <2>1, <3>3
      <4> QED  BY <1>0, <3>1, <3>3, <4>1 DEF Known, Planned
    <3> QED  BY <3>2, <3>3
  <2> QED  BY <2>2, <2>3
<1>8. Believes'
  <2>1. \A j \in Servos : lastvalue'[j] = IF j = id THEN value ELSE lastvalue[j]
    BY <1>1
  <2>2. ASSUME NEW j \in Servos, NEW l \in 2..k + 1, NoneFor(j, l, k + 1)'
        PROVE  j # id /\ NoneFor(j, l, k)
    <3>1. k + 1 \in l..k + 1 /\ \A m \in l..k : m \in l..k + 1 /\ m \in 1..k
      BY <1>3
    <3>2. order'[k + 1].act.id # j
      BY <2>2, <3>1 DEF NoneFor
    <3> QED  BY <1>3, <2>2, <3>1, <3>2 DEF NoneFor
  <2>3. ASSUME NEW j \in Servos, NoneFor(j, 2, k + 1)' PROVE lastvalue'[j] = goal[j]
    <3>1. 2 \in 2..k + 1
      BY <1>3
    <3>2. j # id /\ NoneFor(j, 2, k)
      BY <2>2, <2>3, <3>1
    <3> QED  BY <1>0, <2>1, <3>2 DEF Known, Believes
  <2>4. ASSUME NEW l \in 2..k + 1, NEW j \in Servos, j = order'[l].act.id, NoneFor(j, l + 1, k + 1)'
        PROVE  lastvalue'[j] = order'[l].act.value
    <3>1. CASE l = k + 1
      BY <1>3, <2>1, <2>4, <3>1
    <3>2. CASE l # k + 1
      <4>1. l \in 2..k /\ l \in 1..k /\ order'[l] = order[l] /\ l + 1 \in 2..k + 1
        BY <1>3, <3>2
      <4>2. j # id /\ NoneFor(j, l + 1, k)
        BY <2>2, <2>4, <4>1
      <4> QED  BY <1>0, <2>1, <2>4, <4>1, <4>2 DEF Known, Believes
    <3> QED  BY <3>1, <3>2
  <2>5. \A j \in Servos \ boot' : NoneFor(j, 2, k + 1)' => lastvalue'[j] = goal'[j]
    BY <2>3
  <2>6. \A l \in 2..k + 1 :
          order'[l].act.id \in Servos
            /\ (\A m \in l + 1..k + 1 : order'[m].act.id # order'[l].act.id)
            => lastvalue'[order'[l].act.id] = order'[l].act.value
    BY <2>4 DEF NoneFor
  <2> QED  BY <1>3, <2>5, <2>6, Zenon DEF Believes, NoneFor
<1>9. Booting' /\ Exact'
  BY DEF Known, Booting, Exact
<1> QED  BY <1>7, <1>8, <1>9 DEF Known

LEMMA AdvanceKnown ==
  ASSUME IInv, Steady, Known, boot = {}, Current # NULL, Elapsed, Advance,
         UNCHANGED <<lastvalue, boot, pos>>
  PROVE  Known'
<1>0. PICK k : k = Len(order)
  OBVIOUS
<1>1. /\ goal \in [Joints -> Values] /\ lag \in [Joints -> Nat] /\ pos \in [Joints -> Int]
      /\ from \in [Nodes -> Int]
      /\ \A j \in Servos : j \in Joints
  BY DEF Steady, SteadyTypes, Joints
<1>2. /\ k \in Nat /\ k >= 1
      /\ Len(order') = k - 1 /\ \A i \in 1..k - 1 : order'[i] = order[i + 1]
      /\ k = 1 => UNCHANGED <<goal, lag>>
      /\ k > 1 => /\ order[2].act \in Acts
                  /\ heap[order[2].node].acts = <<order[2].act>>
                  /\ Command(heap[order[2].node], from[order[2].node])
      /\ \A i \in 2..k : i > 2 => from'[order[i].node] = from[order[i].node]
  BY <1>0, <1>1, AdvanceKeeps
<1>3. \A j \in Servos : pos[j] = goal[j]
  BY <1>1, AllArrived, NearIsThere DEF Known
<1>4. CASE k = 1
  <2>1. (\A i \in 2..Len(order') : FALSE) /\ (\A i \in 2..k : FALSE)
    BY <1>2, <1>4
  <2>2. \A j \in Servos : lastvalue[j] = goal[j]
    BY <1>0, <2>1 DEF Known, Believes, NoneFor
  <2>3. Planned' /\ Believes'
    BY <1>2, <1>4, <2>1, <2>2 DEF Planned, Believes
  <2> QED  BY <1>2, <1>4, <2>3 DEF Known, Booting, Exact
<1>5. CASE k > 1
  <2>0. PICK a, next : a = order[2].act /\ next = order[2].node
    OBVIOUS
  <2>1. /\ a \in Acts /\ 2 \in 1..k /\ 2 \in 2..k /\ k \in 2..k /\ k - 1 + 1 = k
        /\ goal' = [goal EXCEPT ![a.id] = a.value]
        /\ lag' = [lag EXCEPT ![a.id] = Distance(pos[a.id], from[next])]
    <3>1. heap[next].acts[1] = a
      BY <1>2, <1>5, <2>0
    <3>2. Command(heap[next], from[next])
      BY <1>2, <1>5, <2>0
    <3>3. /\ goal' = [goal EXCEPT ![a.id] = a.value]
          /\ lag' = [lag EXCEPT ![a.id] = Distance(pos[a.id], from[next])]
      BY <3>1, <3>2 DEF Command
    <3> QED  BY <1>2, <1>5, <2>0, <3>3
  <2>2. \A j \in Servos : goal'[j] = IF j = a.id THEN a.value ELSE goal[j]
    BY <1>1, <2>1
  <2>3. \A i \in 1..k - 1 : i + 1 \in 2..k /\ i + 1 \in 1..k /\ order'[i] = order[i + 1]
    BY <1>2
  <2>4. ASSUME NEW i \in 2..k - 1 PROVE Start(i)' = Start(i + 1)
    <3>1. i + 1 > 2 /\ i \in 1..k - 1 /\ i + 1 \in 2..k
      BY <1>2
    <3> QED  BY <1>2, <2>3, <3>1 DEF Start
  <2>5. ASSUME NEW j, NEW l \in 1..k, NEW i \in 0..k - 1, NoneFor(j, l, i)'
        PROVE  NoneFor(j, l + 1, i + 1)
    <3> SUFFICES ASSUME NEW m \in l + 1..i + 1 PROVE order[m].act.id # j
      BY DEF NoneFor
    <3>1. m - 1 \in l..i /\ m - 1 \in 1..k - 1 /\ m - 1 + 1 = m
      BY <1>2
    <3>2. order'[m - 1].act.id # j
      BY <2>5, <3>1 DEF NoneFor
    <3> QED  BY <2>3, <3>1, <3>2
  <2>6. ASSUME NEW j, NEW i \in 2..k, NoneFor(j, 3, i), j # a.id PROVE NoneFor(j, 2, i)
    <3>1. \A m \in 2..i : m = 2 \/ m \in 3..i
      BY <1>2
    <3> QED  BY <2>0, <2>6, <3>1 DEF NoneFor
  <2>7. Planned'
    <3> SUFFICES ASSUME NEW i \in 2..k - 1, NEW j \in Servos, j = order'[i].act.id
                 PROVE  /\ NoneFor(j, 2, i - 1)' => Start(i)' = goal'[j]
                        /\ \A l \in 2..i - 1 :
                             order'[l].act.id = j /\ NoneFor(j, l + 1, i - 1)'
                               => Start(i)' = order'[l].act.value
      BY <1>2, Zenon DEF Planned
    <3>1. /\ i \in 1..k - 1 /\ i + 1 \in 2..k /\ i \in 2..k /\ i - 1 \in 0..k - 1
          /\ i + 1 - 1 = i /\ i - 1 + 1 = i /\ i \in Int
          /\ 2 \in 1..k /\ 2 \in 2..i /\ 2 + 1 = 3
      BY <1>2
    <3>2. Start(i)' = Start(i + 1) /\ order'[i] = order[i + 1]
      BY <2>3, <2>4, <3>1
    <3>3. /\ NoneFor(j, 2, i) => Start(i + 1) = goal[j]
          /\ \A l \in 2..i : order[l].act.id = j /\ NoneFor(j, l + 1, i)
                               => Start(i + 1) = order[l].act.value
      BY <1>0, <3>1, <3>2 DEF Known, Planned
    <3>4. ASSUME NoneFor(j, 2, i - 1)' PROVE Start(i)' = goal'[j]
      <4>1. NoneFor(j, 3, i)
        BY <2>5, <3>1, <3>4
      <4>2. CASE j = a.id
        <5>1. Start(i + 1) = order[2].act.value
          BY <2>0, <3>1, <3>3, <4>1, <4>2
        <5> QED  BY <2>0, <2>2, <3>2, <4>2, <5>1
      <4>3. CASE j # a.id
        <5>1. NoneFor(j, 2, i)
          BY <2>6, <3>1, <4>1, <4>3
        <5> QED  BY <2>2, <3>2, <3>3, <4>3, <5>1
      <4> QED  BY <4>2, <4>3
    <3>5. ASSUME NEW l \in 2..i - 1, order'[l].act.id = j, NoneFor(j, l + 1, i - 1)'
          PROVE  Start(i)' = order'[l].act.value
      <4>1. l \in 1..k - 1 /\ l + 1 \in 2..i /\ l + 1 \in 1..k
        BY <1>2, <3>1
      <4>2. NoneFor(j, l + 1 + 1, i) /\ order'[l] = order[l + 1]
        BY <2>3, <2>5, <3>1, <3>5, <4>1
      <4> QED  BY <3>2, <3>3, <3>5, <4>1, <4>2
    <3> QED  BY <3>4, <3>5
  <2>8. Believes'
    <3>1. k - 1 \in 0..k - 1 /\ k - 1 + 1 = k /\ 2 \in 1..k /\ k \in 2..k /\ 2 + 1 = 3
      BY <1>2, <1>5
    <3>2. ASSUME NEW j \in Servos, NoneFor(j, 2, k - 1)'
          PROVE  lastvalue[j] = goal'[j]
      <4>1. NoneFor(j, 3, k)
        BY <2>5, <3>1, <3>2
      <4>2. CASE j = a.id
        <5>1. lastvalue[j] = order[2].act.value
          BY <1>0, <2>0, <2>1, <3>1, <4>1, <4>2 DEF Known, Believes
        <5> QED  BY <2>0, <2>2, <4>2, <5>1
      <4>3. CASE j # a.id
        <5>1. NoneFor(j, 2, k)
          BY <2>6, <3>1, <4>1, <4>3
        <5> QED  BY <1>0, <2>2, <4>3, <5>1 DEF Known, Believes
      <4> QED  BY <4>2, <4>3
    <3>3. ASSUME NEW l \in 2..k - 1, NEW j \in Servos, j = order'[l].act.id,
                 NoneFor(j, l + 1, k - 1)'
          PROVE  lastvalue[j] = order'[l].act.value
      <4>1. l \in 1..k - 1 /\ l + 1 \in 2..k /\ l + 1 \in 1..k
        BY <1>2
      <4>2. NoneFor(j, l + 1 + 1, k) /\ order'[l] = order[l + 1]
        BY <2>3, <2>5, <3>1, <3>3, <4>1
      <4> QED  BY <1>0, <3>3, <4>1, <4>2 DEF Known, Believes
    <3>4. \A j \in Servos \ boot' : NoneFor(j, 2, k - 1)' => lastvalue[j] = goal'[j]
      BY <3>2
    <3> QED  BY <1>2, <3>3, <3>4 DEF Believes, NoneFor
  <2>9. Exact'
    <3> SUFFICES ASSUME NEW j \in Servos PROVE lag'[j] = 0
      BY DEF Exact
    <3>1. CASE j = a.id
      <4>1. NoneFor(j, 2, 2 - 1)
        BY DEF NoneFor
      <4>2. from[next] = goal[j]
        BY <1>0, <2>0, <2>1, <3>1, <4>1 DEF Known, Planned, Start
      <4>3. lag'[j] = Distance(pos[j], pos[j])
        BY <1>1, <1>3, <2>1, <3>1, <4>2
      <4> QED  BY <1>1, <4>3 DEF Distance
    <3>2. CASE j # a.id
      BY <1>1, <2>1, <3>2 DEF Known, Exact
    <3> QED  BY <3>1, <3>2
  <2>10. Booting'
    BY DEF Booting
  <2> QED  BY <2>7, <2>8, <2>9, <2>10 DEF Known
<1> QED  BY <1>2, <1>4, <1>5

LEMMA BootKnown ==
  ASSUME Steady, Known, Boot
  PROVE  Known'
<1>1. PICK id \in Servos :
        /\ id \in boot
        /\ lastvalue' = [lastvalue EXCEPT ![id] = Default[id]]
        /\ boot' = boot \ {id}
        /\ UNCHANGED <<order, goal, from, lag>>
  BY DEF Boot, update_Servo_state, listVars, armVars
<1>2. /\ order = <<>> /\ goal[id] = Default[id] /\ id \in Joints
      /\ lastvalue \in [Joints -> Int]
      /\ \A m \in 2..Len(order) : FALSE
      /\ \A j \in Servos : j \in Joints
  BY <1>1 DEF Known, Booting, Steady, SteadyTypes, Joints
<1>3. \A j \in Servos : lastvalue'[j] = IF j = id THEN goal[j] ELSE lastvalue[j]
  BY <1>1, <1>2
<1>4. \A j \in Servos \ boot' : lastvalue'[j] = goal[j]
  BY <1>1, <1>2, <1>3 DEF Known, Believes, NoneFor
<1> QED  BY <1>1, <1>2, <1>4 DEF Known, Planned, Believes, Booting, Exact

LEMMA StandingKnown ==
  ASSUME Known, UNCHANGED <<order, lastvalue, boot, goal, from, lag>>
  PROVE  Known'
BY DEF Known, Planned, Believes, Booting, Exact, NoneFor, Start

LEMMA KnownStart == KnownInit => Known
<1> SUFFICES ASSUME KnownInit PROVE Known
  OBVIOUS
<1>1. /\ order = <<>> /\ boot = Servos /\ goal = pos
      /\ \A j \in Servos : pos[j] = Default[j] /\ j \in Joints
      /\ lag = [j \in Joints |-> 0]
  BY DEF KnownInit, Init, Joints
<1>2. \A i \in 2..Len(order) : FALSE
  BY <1>1
<1> QED  BY <1>1, <1>2 DEF Known, Planned, Believes, Booting, Exact

LEMMA KnownStep == IInv /\ Steady /\ Known /\ [SteadyNext /\ (Adds => boot = {})]_vars => Known'
<1> SUFFICES ASSUME IInv, Steady, Known, [SteadyNext /\ (Adds => boot = {})]_vars PROVE Known'
  OBVIOUS
<1>1. ASSUME NEW id \in Joints, NEW value \in Values, NEW time,
             id \in Steppers => time \in Periods \ {0}, boot = {},
             Servo_Add_Action(id, value, time)
      PROVE  Known'
  <2>1. PICK n \in Nodes :
           /\ heap[n] = Free
           /\ lastvalue' = [lastvalue EXCEPT ![id] = value]
           /\ order' = Append(order, [node |-> n, act |-> [id |-> id, value |-> value]])
           /\ IF Current = NULL
                THEN /\ Current' = n
                     /\ Command(NewNode(id, value, time), Believed(id))
                     /\ heap' = [heap EXCEPT ![n] = [NewNode(id, value, time) EXCEPT !.acts = <<>>]]
                     /\ UNCHANGED from
                ELSE /\ heap' = Link(n, NewNode(id, value, time))
                     /\ from' = [from EXCEPT ![n] = Believed(id)]
                     /\ UNCHANGED <<Current, time_start, goal, rate, issued, lag>>
           /\ UNCHANGED <<servo_speed, boot, tick, pos>>
    BY <1>1, AddIsFirstOrLast
  <2>2. CASE Current = NULL
    <3>1. UNCHANGED <<servo_speed, tick, pos, from>>
      BY <2>1, <2>2
    <3>2. /\ Len(order) = 0 /\ Len(order') = 1
          /\ goal'[id] = value /\ lag'[id] = Distance(pos[id], Believed(id))
          /\ \A j \in Joints : j # id => goal'[j] = goal[j] /\ lag'[j] = lag[j]
      BY <1>1, <2>1, <2>2, <3>1, AddFirstSteady, Zenon
    <3> QED  BY <1>1, <2>1, <2>2, <3>2, AddFirstKnown
  <2>3. CASE Current # NULL
    <3>1. UNCHANGED <<goal, lag, boot>>
      BY <2>1, <2>3
    <3> QED  BY <1>1, <2>1, <2>3, <3>1, AddLastKnown, Zenon
  <2> QED  BY <2>2, <2>3
<1>2. CASE boot = {} /\ \E id \in Servos, value \in Values : Servo_Add_Action(id, value, -1)
  <2>1. PICK id \in Servos, value \in Values : Servo_Add_Action(id, value, -1)
    BY <1>2
  <2>2. id \in Joints /\ id \notin Steppers
    BY JointsAssumption DEF Joints
  <2> QED  BY <1>1, <1>2, <2>1, <2>2
<1>3. CASE boot = {} /\ \E id \in Steppers, value \in Values, time \in Periods \ {0} :
                          Servo_Add_Action(id, value, time)
  BY <1>1, <1>3 DEF Joints
<1>4. CASE Servo_Server
  <2>1. CASE Current # NULL /\ Elapsed
    <3>1. boot = {} /\ Advance /\ UNCHANGED <<lastvalue, boot, pos>>
      BY <1>4, <2>1 DEF Servo_Server
    <3> QED  BY <2>1, <3>1, AdvanceKnown
  <2>2. CASE ~(Current # NULL /\ Elapsed)
    <3>1. UNCHANGED <<order, lastvalue, boot, goal, from, lag>>
      BY <1>4, <2>2 DEF Servo_Server, listVars, armVars
    <3> QED  BY <3>1, StandingKnown
  <2> QED  BY <2>1, <2>2
<1>5. CASE ChangeSpeed \/ Tick \/ UNCHANGED vars
  <2>1. UNCHANGED <<order, lastvalue, boot, goal, from, lag>>
    BY <1>5 DEF ChangeSpeed, change_servo_speed, Tick, vars, listVars, armVars
  <2> QED  BY <2>1, StandingKnown
<1>6. [SteadyNext /\ (Adds => boot = {})]_vars =>
        \/ boot = {} /\ \E id \in Servos, value \in Values : Servo_Add_Action(id, value, -1)
        \/ boot = {} /\ \E id \in Steppers, value \in Values, time \in Periods \ {0} :
                          Servo_Add_Action(id, value, time)
        \/ Servo_Server \/ Boot \/ Tick \/ ChangeSpeed \/ UNCHANGED vars
  BY DEF SteadyNext, Adds
<1> QED  BY <1>2, <1>3, <1>4, <1>5, <1>6, BootKnown, Zenon

\* An arm that stands where the code assumes and whose actions come after the boot: every
\* servo, of either protocol, has arrived when the next action starts and when the arm
\* reports that it is idle, whatever the ways, the speeds, the length of the queue and
\* the width of the tick: the time that Servo_Add_Action gives it is enough, also when
\* steppers come a fraction of a millisecond short.
THEOREM ServosArrive ==
  CalmSpec => [](\A j \in Servos : Is_Servo_Idle \/ issued.id # j => pos[j] = goal[j])
<1> DEFINE ServosInTime == \A j \in Servos : Is_Servo_Idle \/ issued.id # j => pos[j] = goal[j]
<1>1. KnownInit => IInv /\ Steady /\ Known
  BY InitInv, SteadyInit, KnownStart DEF KnownInit
<1>2. IInv /\ Steady /\ Known /\ [SteadyNext /\ (Adds => boot = {})]_vars
        => (IInv /\ Steady /\ Known)'
  <2>1. [SteadyNext /\ (Adds => boot = {})]_vars => [SteadyNext]_vars
    OBVIOUS
  <2> QED  BY <2>1, KnownStep, SteadyStep, SteadyIsNext, StepInv
<1>3. Steady /\ Known => ServosInTime
  <2> SUFFICES ASSUME Steady, Known, NEW j \in Servos, Is_Servo_Idle \/ issued.id # j
               PROVE  pos[j] = goal[j]
    OBVIOUS
  <2>1. Near(pos[j], goal[j], Slack(j))
    BY DEF Steady, Arrived, Is_Servo_Idle, Joints
  <2> QED  BY <2>1, NearIsThere DEF Known
<1> QED  BY <1>1, <1>2, <1>3, PTL DEF CalmSpec
===============================================================================
