----------------------------- MODULE KernelProofs -----------------------------
(***************************************************************************)
(* The tasks and their locks, for any names of theirs, and the clock that  *)
(* the micro-ROS library makes of the kernel's tick, for a tick of any     *)
(* width.                                                                  *)
(*                                                                         *)
(* Of the tasks it is shown at each place of their rounds which locks they *)
(* have; which of them are in the lists of the kernel, whatever the turn   *)
(* of equals; and that the control task, when it waits, waits for a task   *)
(* that runs and is about to give the lock back.                           *)
(***************************************************************************)
EXTENDS Tasks, RosClock, SequenceTheorems, TLAPS
-------------------------------------------------------------------------------
\* The calls of a round that come after the first k.
RestOf(r, k) == SubSeq(r, k + 1, Len(r))

\* The locks that task t has are those of S, and it has counted n.
Owns(t, S, n) == (\A l \in Locks : owner[l] = t <=> l \in S) /\ held[t] = n

Nap == <<Delay>>

RosWheels ==
  <<Take(Control_Lock), Give(Control_Lock), Take(Control_Lock), Give(Control_Lock), Delay>>

RosHello == <<Spawn(LED), Delay>>

RosPose ==
  <<Take(Servo_Lock_Upper), Take(Servo_Lock_Upper), Take(Servo_Lock), Work,
    Give(Servo_Lock), Give(Servo_Lock_Upper), Take(Servo_Lock), Give(Servo_Lock),
    Give(Servo_Lock_Upper), Delay>>

\* What a task has at each place of its rounds.
ControlBoot(k) ==
  /\ todo[Control] = RestOf(ControlStart, k) /\ Owns(Control, {}, 0)
  /\ k > 0 => Control_Lock \in made

ControlAt(k) ==
  /\ todo[Control] = RestOf(ControlRound, k) /\ Control_Lock \in made
  /\ k = 1 => Owns(Control, {Control_Lock}, 1)
  /\ k # 1 => Owns(Control, {}, 0)

ControlCode == (\E k \in 0..2 : ControlBoot(k)) \/ (\E k \in 0..3 : ControlAt(k))

ServoBoot(k) ==
  /\ todo[Servo] = RestOf(ServoStart, k)
  /\ (k > 0 => Servo_Lock \in made) /\ (k > 1 => Servo_Lock_Upper \in made)
  /\ k = 5 => Owns(Servo, {Servo_Lock}, 1)
  /\ k # 5 => Owns(Servo, {}, 0)

ServoAt(k) ==
  /\ todo[Servo] = RestOf(ServoRound, k) /\ Servo_Lock \in made /\ Servo_Lock_Upper \in made
  /\ k \in 1..2 => Owns(Servo, {Servo_Lock}, 1)
  /\ k \notin 1..2 => Owns(Servo, {}, 0)

ServoCode == (\E k \in 0..7 : ServoBoot(k)) \/ (\E k \in 0..4 : ServoAt(k))

IdleAt(t, k) == todo[t] = RestOf(Nap, k) /\ Owns(t, {}, 0)

WheelsAt(k) ==
  /\ todo[Ros] = RestOf(RosWheels, k) /\ depth = 0
  /\ k \in {1, 3} => Owns(Ros, {Control_Lock}, 1)
  /\ k \notin {1, 3} => Owns(Ros, {}, 0)

HelloAt(k) == todo[Ros] = RestOf(RosHello, k) /\ Owns(Ros, {}, 0) /\ depth = 0

PoseAt(k) ==
  /\ todo[Ros] = RestOf(RosPose, k)
  /\ k \in {0, 9, 10} => Owns(Ros, {}, 0) /\ depth = 0
  /\ k = 1 => Owns(Ros, {Servo_Lock_Upper}, 1) /\ depth = 1
  /\ k \in {2, 5} => Owns(Ros, {Servo_Lock_Upper}, 1) /\ depth = 2
  /\ k \in {3, 4} => Owns(Ros, {Servo_Lock_Upper, Servo_Lock}, 2) /\ depth = 2
  /\ k \in {6, 8} => Owns(Ros, {Servo_Lock_Upper}, 1) /\ depth = 1
  /\ k = 7 => Owns(Ros, {Servo_Lock_Upper, Servo_Lock}, 2) /\ depth = 1

RosCode ==
  \/ \E k \in 0..1 : IdleAt(Ros, k) /\ depth = 0
  \/ \E k \in 0..5 : WheelsAt(k)
  \/ \E k \in 0..10 : PoseAt(k)
  \/ \E k \in 0..2 : HelloAt(k)

\* The default task and the LED task.
IdleCode(t) == \E k \in 0..1 : IdleAt(t, k)

Codes == ControlCode /\ ServoCode /\ RosCode /\ IdleCode(Default) /\ IdleCode(LED)

Members(list) == {list[n] : n \in DOMAIN list}

\* A list of the kernel: no task twice, and the end marker.
ListOK(list) ==
  /\ list \in Seq(Tasks \cup {None}) /\ None \in Members(list)
  /\ \A m, n \in 1..Len(list) : list[m] = list[n] => m = n

Types ==
  /\ todo = [t \in Tasks |-> todo[t]] /\ prio \in [Tasks -> 1..3]
  /\ current \in Tasks \cup {None}
  /\ waiting \in [Tasks -> Locks \cup {None}] /\ asleep \subseteq Tasks
  /\ owner \in [Locks -> Tasks \cup {None}] /\ held \in [Tasks -> Int] /\ depth \in Int

\* The ready tasks.
Ready == {t \in Tasks : t \in Members(ready[prio[t]])}

\* The lists have the tasks of A, each at its priority.
Sorted(lists, pr, A) ==
  /\ lists = [p \in 1..3 |-> lists[p]]
  /\ \A p \in 1..3 : ListOK(lists[p]) /\ Members(lists[p]) = {t \in A : pr[t] = p} \cup {None}

\* A ready task is in the list of its priority, and nowhere else.
InLists ==
  /\ Sorted(ready, prio, Ready)
  /\ \A t \in Ready : t \notin asleep /\ waiting[t] = None
  /\ \A t \in asleep : waiting[t] = None

\* A task is ready, asleep or blocked; or it has not been started.
Started(t) == t \in asleep \/ waiting[t] # None \/ t \in Ready

Starting(t) == todo[t] # <<>> /\ Head(todo[t])[1] \in {"create", "spawn"}

Births ==
  /\ Starting(Control) => ~Started(Servo)
  /\ Starting(Servo) => ~Started(Ros)
  /\ Starting(Ros) => ~Started(LED)
  /\ waiting[LED] = None
  /\ Started(Servo) => Control_Lock \in made
  /\ Started(Ros) => Locks \subseteq made

\* The control task runs when it can; whoever has its lock is ready, and runs when it waits.
Ahead ==
  /\ current # None => current \in Ready
  /\ Control \in Ready => current = Control
  /\ \A t \in Tasks : owner[Control_Lock] = t => t \in Ready
  /\ waiting[Control] # None =>
       waiting[Control] = Control_Lock /\ current = owner[Control_Lock] /\ current # None
       /\ prio[current] = 3

IInv == Types /\ Codes /\ InLists /\ Births /\ Ahead /\ RaisedForControl
-------------------------------------------------------------------------------
(* The lists of the kernel.                                                  *)

\* Part of a sequence, by place.
LEMMA Slice ==
  ASSUME NEW S, NEW s \in Seq(S), NEW m \in Nat \ {0}, NEW n \in Nat, n <= Len(s), m <= n + 1
  PROVE  /\ SubSeq(s, m, n) \in Seq(S) /\ Len(SubSeq(s, m, n)) = n - m + 1
         /\ \A i \in 1..(n - m + 1) : SubSeq(s, m, n)[i] = s[i + m - 1]
<1>1. m \in Int /\ n \in Int /\ \A i \in m..n : s[i] \in S
  OBVIOUS
<1>2. /\ SubSeq(s, m, n) \in Seq(S)
      /\ Len(SubSeq(s, m, n)) = IF m <= n THEN n - m + 1 ELSE 0
      /\ \A i \in 1..(n - m + 1) : SubSeq(s, m, n)[i] = s[m + i - 1]
  BY <1>1, SubSeqProperties
<1>3. \A i \in 1..(n - m + 1) : m + i - 1 = i + m - 1
  OBVIOUS
<1> QED  BY <1>2, <1>3

\* A task joins a list in the place before the last.
LEMMA InsertOK ==
  ASSUME NEW list, ListOK(list), NEW t \in Tasks, t \notin Members(list)
  PROVE  ListOK(Insert(list, t)) /\ Members(Insert(list, t)) = Members(list) \cup {t}
<1> DEFINE S == Tasks \cup {None}
           new == Insert(list, t)
           l == Len(list)
<1>1. list \in Seq(S) /\ l \in Nat /\ l # 0
  BY DEF ListOK, Members
<1>2. SubSeq(list, 1, l - 1) \in Seq(S) /\ Len(SubSeq(list, 1, l - 1)) = l - 1
      /\ \A n \in 1..(l - 1) : SubSeq(list, 1, l - 1)[n] = list[n]
  <2> HIDE DEF S, l
  <2>1. l - 1 \in Nat /\ l - 1 <= Len(list) /\ 1 <= (l - 1) + 1 /\ (l - 1) - 1 + 1 = l - 1
    BY <1>1 DEF l
  <2>2. \A n \in 1..(l - 1) : n + 1 - 1 = n
    OBVIOUS
  <2> QED  BY <1>1, <2>1, <2>2, Slice
<1>3. <<t, list[l]>> \in Seq(S) /\ Len(<<t, list[l]>>) = 2
  BY <1>1
<1>4. /\ new \in Seq(S) /\ Len(new) = l + 1
      /\ \A n \in 1..(l - 1) : new[n] = list[n]
      /\ new[l] = t /\ new[l + 1] = list[l]
  <2> DEFINE a == SubSeq(list, 1, l - 1)
             b == <<t, list[l]>>
  <2>1. new = a \o b /\ b[1] = t /\ b[2] = list[l]
    BY DEF Insert
  <2>2. a \in Seq(S) /\ b \in Seq(S) /\ Len(a) = l - 1 /\ Len(b) = 2
    BY <1>2, <1>3
  <2>3. \A n \in 1..(l - 1) : a[n] = list[n]
    BY <1>2
  <2> HIDE DEF a, b, S, new, l
  <2>4. /\ a \o b \in Seq(S) /\ Len(a \o b) = l + 1
        /\ \A n \in 1..(l + 1) : (a \o b)[n] = IF n <= l - 1 THEN a[n] ELSE b[n - (l - 1)]
    <3>1. Len(a) + Len(b) = l + 1
      BY <1>1, <2>2
    <3>2. /\ a \o b \in Seq(S) /\ Len(a \o b) = Len(a) + Len(b)
          /\ \A n \in 1..(Len(a) + Len(b)) :
               (a \o b)[n] = IF n <= Len(a) THEN a[n] ELSE b[n - Len(a)]
      BY <2>2, ConcatProperties
    <3>3. Len(a) = l - 1
      BY <2>2
    <3> HIDE DEF a, b
    <3> QED  BY <3>1, <3>2, <3>3
  <2>5. \A n \in 1..(l - 1) : n \in 1..(l + 1) /\ n <= l - 1
    BY <1>1
  <2>6. l \in 1..(l + 1) /\ ~(l <= l - 1) /\ l - (l - 1) = 1
    BY <1>1
  <2>7. l + 1 \in 1..(l + 1) /\ ~(l + 1 <= l - 1) /\ (l + 1) - (l - 1) = 2
    BY <1>1
  <2>8. (a \o b)[l] = b[1] /\ (a \o b)[l + 1] = b[2]
    BY <2>4, <2>6, <2>7
  <2> QED  BY <2>1, <2>3, <2>4, <2>5, <2>8
<1> HIDE DEF S, new, l
<1>5. Members(list) = {list[n] : n \in 1..l} /\ Members(new) = {new[n] : n \in 1..(l + 1)}
  BY <1>1, <1>4 DEF Members, l
<1>6. Members(new) = Members(list) \cup {t}
  <2>1. \A n \in 1..l : list[n] \in Members(new)
    BY <1>1, <1>4, <1>5
  <2>2. t \in Members(new)
    BY <1>1, <1>4, <1>5
  <2>3. \A n \in 1..(l + 1) : new[n] \in Members(list) \cup {t}
    BY <1>1, <1>4, <1>5
  <2> QED  BY <1>5, <2>1, <2>2, <2>3
<1>7. \A m, n \in 1..(l + 1) : new[m] = new[n] => m = n
  <2>1. \A m, n \in 1..l : list[m] = list[n] => m = n
    BY DEF ListOK, l
  <2>2. \A m \in 1..l : list[m] # t
    BY <1>5
  <2> QED  BY <1>1, <1>4, <2>1, <2>2
<1> QED  BY <1>4, <1>6, <1>7 DEF ListOK, new, S

\* A task leaves a list.
LEMMA RemoveOK ==
  ASSUME NEW list, ListOK(list), NEW t \in Tasks, t \in Members(list)
  PROVE  ListOK(Remove(list, t)) /\ Members(Remove(list, t)) = Members(list) \ {t}
<1> DEFINE S == Tasks \cup {None}
           new == Remove(list, t)
           l == Len(list)
           k == CHOOSE n \in 1..Len(list) : list[n] = t
<1>1. list \in Seq(S) /\ l \in Nat /\ DOMAIN list = 1..l
  BY DEF ListOK
<1>2. k \in 1..l /\ list[k] = t
  BY <1>1 DEF Members
<1>3. new = SubSeq(list, 1, k - 1) \o SubSeq(list, k + 1, l)
  BY DEF Remove
<1> HIDE DEF k, S, l, new
<1> DEFINE a == SubSeq(list, 1, k - 1)
           b == SubSeq(list, k + 1, l)
<1>4. a \in Seq(S) /\ Len(a) = k - 1 /\ \A n \in 1..(k - 1) : a[n] = list[n]
  <2>1. k - 1 \in Nat /\ k - 1 <= Len(list) /\ 1 <= (k - 1) + 1 /\ (k - 1) - 1 + 1 = k - 1
    BY <1>1, <1>2 DEF l
  <2>2. \A n \in 1..(k - 1) : n + 1 - 1 = n
    OBVIOUS
  <2> QED  BY <1>1, <2>1, <2>2, Slice
<1>5. b \in Seq(S) /\ Len(b) = l - k /\ \A n \in 1..(l - k) : b[n] = list[n + k]
  <2>1. k + 1 \in Nat \ {0} /\ l <= Len(list) /\ k + 1 <= l + 1 /\ l - (k + 1) + 1 = l - k
    BY <1>1, <1>2 DEF l
  <2>2. \A n \in 1..(l - k) : n + (k + 1) - 1 = n + k
    BY <1>1, <1>2
  <2> QED  BY <1>1, <2>1, <2>2, Slice
<1>6. new = a \o b
  BY <1>3
<1> HIDE DEF a, b
<1>7. /\ new \in Seq(S) /\ Len(new) = l - 1
      /\ \A n \in 1..(l - 1) : new[n] = IF n <= k - 1 THEN a[n] ELSE b[n - (k - 1)]
  BY <1>1, <1>2, <1>4, <1>5, <1>6, ConcatProperties
<1>8. \A n \in 1..(l - 1) : new[n] = IF n < k THEN list[n] ELSE list[n + 1]
  <2> SUFFICES ASSUME NEW n \in 1..(l - 1)
               PROVE  new[n] = IF n < k THEN list[n] ELSE list[n + 1]
    OBVIOUS
  <2>1. CASE n < k
    BY <1>1, <1>2, <1>4, <1>7, <2>1
  <2>2. CASE ~(n < k)
    <3>1. n - (k - 1) \in 1..(l - k) /\ n - (k - 1) + k = n + 1
      BY <1>1, <1>2, <2>2
    <3> QED  BY <1>1, <1>2, <1>5, <1>7, <2>2, <3>1
  <2> QED  BY <2>1, <2>2
<1>9. Members(list) = {list[n] : n \in 1..l} /\ Members(new) = {new[n] : n \in 1..(l - 1)}
  BY <1>1, <1>7 DEF Members
<1>10. \A m, n \in 1..l : list[m] = list[n] => m = n
  BY DEF ListOK, l
<1>11. Members(new) = Members(list) \ {t}
  <2>1. ASSUME NEW n \in 1..(l - 1) PROVE new[n] \in Members(list) \ {t}
    <3>1. n \in 1..l /\ n + 1 \in 1..l
      BY <1>1
    <3> QED  BY <1>2, <1>8, <1>9, <1>10, <3>1
  <2>2. ASSUME NEW n \in 1..l, list[n] # t PROVE list[n] \in Members(new)
    <3>1. CASE n < k
      <4>1. n \in 1..(l - 1)
        BY <1>1, <1>2, <3>1
      <4> QED  BY <1>8, <1>9, <3>1, <4>1
    <3>2. CASE n > k
      <4>1. n - 1 \in 1..(l - 1) /\ ~(n - 1 < k) /\ n - 1 + 1 = n
        BY <1>1, <1>2, <3>2
      <4>2. new[n - 1] = list[n]
        BY <1>8, <4>1
      <4> QED  BY <1>9, <4>1, <4>2
    <3> QED  BY <1>1, <1>2, <2>2, <3>1, <3>2
  <2> QED  BY <1>9, <2>1, <2>2
<1>12. \A m, n \in 1..(l - 1) : new[m] = new[n] => m = n
  BY <1>1, <1>2, <1>8, <1>10
<1>13. None \in Members(new)
  BY <1>11, NamesAssumption DEF ListOK, Tasks
<1> QED  BY <1>7, <1>11, <1>12, <1>13 DEF ListOK, new, S

\* Only a list with a task in it has more than the end marker.
LEMMA LenOK ==
  ASSUME NEW list, ListOK(list)
  PROVE  /\ Len(list) > 1 <=> \E t \in Tasks : t \in Members(list)
         /\ \A t \in Tasks : (Members(list) \subseteq {t, None}) => Len(list) <= 2
<1>1. list \in Seq(Tasks \cup {None}) /\ Len(list) \in Nat /\ DOMAIN list = 1..Len(list)
  BY DEF ListOK
<1>2. PICK n \in 1..Len(list) : list[n] = None
  BY <1>1 DEF ListOK, Members
<1>3. \A i, j \in 1..Len(list) : list[i] = list[j] => i = j
  BY DEF ListOK
<1>4. None \notin Tasks
  BY NamesAssumption DEF Tasks
<1>5. ASSUME Len(list) > 1 PROVE \E t \in Tasks : t \in Members(list)
  <2>1. PICK m \in 1..Len(list) : m # n
    <3>1. 1 \in 1..Len(list) /\ 2 \in 1..Len(list)
      BY <1>1, <1>5
    <3> QED  BY <3>1
  <2>2. list[m] \in Tasks
    BY <1>1, <1>2, <1>3, <2>1
  <2> QED  BY <1>1, <2>2 DEF Members
<1>6. ASSUME NEW t \in Tasks, t \in Members(list) PROVE Len(list) > 1
  <2>1. PICK m \in 1..Len(list) : list[m] = t
    BY <1>1, <1>6 DEF Members
  <2> QED  BY <1>1, <1>2, <1>4, <2>1
<1>7. ASSUME NEW t \in Tasks, Members(list) \subseteq {t, None}, Len(list) > 2 PROVE FALSE
  <2>1. 1 \in 1..Len(list) /\ 2 \in 1..Len(list) /\ 3 \in 1..Len(list)
    BY <1>1, <1>7
  <2>2. list[1] \in {t, None} /\ list[2] \in {t, None} /\ list[3] \in {t, None}
    BY <1>1, <1>7, <2>1 DEF Members
  <2> QED  BY <1>3, <2>1, <2>2
<1> QED  BY <1>1, <1>5, <1>6, <1>7

\* The walk goes on to a task.
LEMMA AdvanceOK ==
  ASSUME NEW list, ListOK(list), Len(list) > 1
  PROVE  /\ ListOK(Advance(list)) /\ Members(Advance(list)) = Members(list)
         /\ Advance(list)[Len(Advance(list))] \in Tasks \cap Members(list)
<1> DEFINE S == Tasks \cup {None}
           new == Advance(list)
           l == Len(list)
           k == IF Head(list) = None THEN 2 ELSE 1
<1>1. list \in Seq(S) /\ l \in Nat /\ l > 1 /\ DOMAIN list = 1..l
  BY DEF ListOK
<1>2. new = SubSeq(list, k + 1, l) \o SubSeq(list, 1, k)
  BY DEF Advance
<1>3. \A m, n \in 1..l : list[m] = list[n] => m = n
  BY DEF ListOK
<1>4. k \in 1..l /\ list[k] # None
  <2>1. Head(list) = list[1] /\ 1 \in 1..l /\ 2 \in 1..l
    BY <1>1
  <2> QED  BY <1>3, <2>1
<1> HIDE DEF k, S, l, new
<1> DEFINE a == SubSeq(list, k + 1, l)
           b == SubSeq(list, 1, k)
<1>5. a \in Seq(S) /\ Len(a) = l - k /\ \A n \in 1..(l - k) : a[n] = list[n + k]
  <2>1. k + 1 \in Nat \ {0} /\ l <= Len(list) /\ k + 1 <= l + 1 /\ l - (k + 1) + 1 = l - k
    BY <1>1, <1>4 DEF l
  <2>2. \A n \in 1..(l - k) : n + (k + 1) - 1 = n + k
    BY <1>1, <1>4
  <2> QED  BY <1>1, <2>1, <2>2, Slice
<1>6. b \in Seq(S) /\ Len(b) = k /\ \A n \in 1..k : b[n] = list[n]
  <2>1. k \in Nat /\ k <= Len(list) /\ 1 <= k + 1 /\ k - 1 + 1 = k
    BY <1>1, <1>4 DEF l
  <2>2. \A n \in 1..k : n + 1 - 1 = n
    BY <1>1, <1>4
  <2> QED  BY <1>1, <2>1, <2>2, Slice
<1>7. new = a \o b
  BY <1>2
<1> HIDE DEF a, b
<1>8. /\ new \in Seq(S) /\ Len(new) = l
      /\ \A n \in 1..l : new[n] = IF n <= l - k THEN a[n] ELSE b[n - (l - k)]
  BY <1>1, <1>4, <1>5, <1>6, <1>7, ConcatProperties
<1>9. \A n \in 1..l : new[n] = IF n <= l - k THEN list[n + k] ELSE list[n - (l - k)]
  <2> SUFFICES ASSUME NEW n \in 1..l
               PROVE  new[n] = IF n <= l - k THEN list[n + k] ELSE list[n - (l - k)]
    OBVIOUS
  <2>1. CASE n <= l - k
    BY <1>1, <1>4, <1>5, <1>8, <2>1
  <2>2. CASE ~(n <= l - k)
    <3>1. n - (l - k) \in 1..k
      BY <1>1, <1>4, <2>2
    <3> QED  BY <1>6, <1>8, <2>2, <3>1
  <2> QED  BY <2>1, <2>2
<1>10. Members(list) = {list[n] : n \in 1..l} /\ Members(new) = {new[n] : n \in 1..l}
  BY <1>1, <1>8 DEF Members
<1>11. Members(new) = Members(list)
  <2>1. ASSUME NEW n \in 1..l PROVE new[n] \in Members(list)
    <3>1. n <= l - k => n + k \in 1..l
      BY <1>1, <1>4
    <3>2. ~(n <= l - k) => n - (l - k) \in 1..l
      BY <1>1, <1>4
    <3> QED  BY <1>9, <1>10, <3>1, <3>2
  <2>2. ASSUME NEW n \in 1..l PROVE list[n] \in Members(new)
    <3>1. CASE n > k
      <4>1. n - k \in 1..l /\ n - k <= l - k /\ n - k + k = n
        BY <1>1, <1>4, <3>1
      <4>2. new[n - k] = list[n]
        BY <1>9, <4>1
      <4> QED  BY <1>10, <4>1, <4>2
    <3>2. CASE ~(n > k)
      <4>1. k \in Int /\ l \in Int /\ n \in Int
        BY <1>1, <1>4
      <4>2. PICK j \in Int : j = n + l - k
        BY <4>1
      <4>3. j \in 1..l /\ ~(j <= l - k) /\ j - (l - k) = n
        BY <1>1, <1>4, <3>2, <4>1, <4>2
      <4>4. new[j] = list[n]
        BY <1>9, <4>3
      <4> QED  BY <1>10, <4>3, <4>4
    <3> QED  BY <3>1, <3>2
  <2> QED  BY <1>10, <2>1, <2>2
<1>12. \A m, n \in 1..l : new[m] = new[n] => m = n
  <2> SUFFICES ASSUME NEW m \in 1..l, NEW n \in 1..l, new[m] = new[n] PROVE m = n
    OBVIOUS
  <2> DEFINE p(i) == IF i <= l - k THEN i + k ELSE i - (l - k)
  <2>1. p(m) \in 1..l /\ p(n) \in 1..l /\ list[p(m)] = list[p(n)]
    BY <1>1, <1>4, <1>9
  <2>2. p(m) = p(n)
    BY <1>3, <2>1
  <2> QED  BY <1>1, <1>4, <2>2
<1>13. new[l] = list[k] /\ list[k] \in Tasks
  BY <1>1, <1>4, <1>9 DEF S
<1>14. None \in Members(list)
  BY DEF ListOK
<1> QED  BY <1>4, <1>8, <1>10, <1>11, <1>12, <1>13, <1>14 DEF ListOK, new, S

LEMMA LeaveSorted ==
  ASSUME NEW lists, NEW pr \in [Tasks -> 1..3], NEW A \in SUBSET Tasks,
         Sorted(lists, pr, A), NEW t \in A
  PROVE  Sorted([lists EXCEPT ![pr[t]] = Remove(@, t)], pr, A \ {t})
<1> DEFINE q == pr[t]
           new == [lists EXCEPT ![q] = Remove(@, t)]
<1>1. q \in 1..3 /\ t \in Tasks /\ t # None
  BY NamesAssumption DEF Tasks
<1>2. \A p \in 1..3 : ListOK(lists[p]) /\ Members(lists[p]) = {u \in A : pr[u] = p} \cup {None}
  BY DEF Sorted
<1>3. ListOK(lists[q]) /\ t \in Members(lists[q])
  BY <1>1, <1>2
<1>4. ListOK(Remove(lists[q], t)) /\ Members(Remove(lists[q], t)) = Members(lists[q]) \ {t}
  BY <1>1, <1>3, RemoveOK
<1>5. new[q] = Remove(lists[q], t) /\ \A p \in 1..3 : p # q => new[p] = lists[p]
  BY <1>1 DEF Sorted
<1>6. new = [p \in 1..3 |-> new[p]]
  BY <1>1 DEF Sorted
<1> HIDE DEF new, q
<1>7. ASSUME NEW p \in 1..3
      PROVE  ListOK(new[p]) /\ Members(new[p]) = {u \in A \ {t} : pr[u] = p} \cup {None}
  <2>1. CASE p = q
    <3>1. ListOK(new[p]) /\ Members(new[p]) = ({u \in A : pr[u] = q} \cup {None}) \ {t}
      BY <1>1, <1>2, <1>4, <1>5, <2>1
    <3> QED  BY <1>1, <2>1, <3>1 DEF q
  <2>2. CASE p # q
    BY <1>1, <1>2, <1>5, <2>2 DEF q
  <2> QED  BY <2>1, <2>2
<1> QED  BY <1>6, <1>7 DEF Sorted, new, q

LEMMA InsertSorted ==
  ASSUME NEW lists, NEW pr \in [Tasks -> 1..3], NEW A \in SUBSET Tasks,
         Sorted(lists, pr, A), NEW t \in Tasks, t \notin A
  PROVE  Sorted([lists EXCEPT ![pr[t]] = Insert(@, t)], pr, A \cup {t})
<1> DEFINE q == pr[t]
           new == [lists EXCEPT ![q] = Insert(@, t)]
<1>1. q \in 1..3 /\ t # None
  BY NamesAssumption DEF Tasks
<1>2. \A p \in 1..3 : ListOK(lists[p]) /\ Members(lists[p]) = {u \in A : pr[u] = p} \cup {None}
  BY DEF Sorted
<1>3. ListOK(lists[q]) /\ t \notin Members(lists[q])
  BY <1>1, <1>2
<1>4. ListOK(Insert(lists[q], t)) /\ Members(Insert(lists[q], t)) = Members(lists[q]) \cup {t}
  BY <1>3, InsertOK
<1>5. new[q] = Insert(lists[q], t) /\ \A p \in 1..3 : p # q => new[p] = lists[p]
  BY <1>1 DEF Sorted
<1>6. new = [p \in 1..3 |-> new[p]]
  BY <1>1 DEF Sorted
<1> HIDE DEF new, q
<1>7. ASSUME NEW p \in 1..3
      PROVE  ListOK(new[p]) /\ Members(new[p]) = {u \in A \cup {t} : pr[u] = p} \cup {None}
  <2>1. CASE p = q
    <3>1. ListOK(new[p]) /\ Members(new[p]) = ({u \in A : pr[u] = q} \cup {None}) \cup {t}
      BY <1>1, <1>2, <1>4, <1>5, <2>1
    <3> QED  BY <1>1, <2>1, <3>1 DEF q
  <2>2. CASE p # q
    BY <1>1, <1>2, <1>5, <2>2 DEF q
  <2> QED  BY <2>1, <2>2
<1> QED  BY <1>6, <1>7 DEF Sorted, new, q

LEMMA RaiseSorted ==
  ASSUME NEW lists, NEW pr \in [Tasks -> 1..3], NEW A \in SUBSET Tasks,
         Sorted(lists, pr, A), NEW t \in Tasks, t \notin A, NEW q \in 1..3
  PROVE  Sorted(lists, [pr EXCEPT ![t] = q], A)
<1>1. \A u \in A : [pr EXCEPT ![t] = q][u] = pr[u]
  OBVIOUS
<1>2. \A p \in 1..3 : {u \in A : [pr EXCEPT ![t] = q][u] = p} = {u \in A : pr[u] = p}
  BY <1>1
<1> QED  BY <1>2 DEF Sorted

LEMMA SortedIsReady ==
  ASSUME NEW A \in SUBSET Tasks, prio' \in [Tasks -> 1..3], Sorted(ready', prio', A)
  PROVE  Ready' = A
<1>1. \A p \in 1..3 : Members(ready'[p]) = {t \in A : prio'[t] = p} \cup {None}
  BY DEF Sorted
<1>2. None \notin Tasks
  BY NamesAssumption DEF Tasks
<1>3. \A t \in Tasks : t \in Members(ready'[prio'[t]]) <=> t \in A
  BY <1>1, <1>2
<1> QED  BY <1>3 DEF Ready

\* A switch leaves the ready tasks as they are and goes to one of the highest priority.
LEMMA SwitchOK ==
  ASSUME NEW lists, NEW pr \in [Tasks -> 1..3], NEW A \in SUBSET Tasks,
         Sorted(lists, pr, A), vTaskSwitchContext(lists)
  PROVE  /\ Sorted(ready', pr, A)
         /\ A = {} => current' = None
         /\ A # {} => current' \in A /\ \A t \in A : pr[t] <= pr[current']
<1> DEFINE busy == {p \in DOMAIN lists : Len(lists[p]) > 1}
           top == CHOOSE p \in busy : \A q \in busy : q <= p
<1>1. DOMAIN lists = 1..3
  BY DEF Sorted
<1>2. \A p \in 1..3 : ListOK(lists[p]) /\ Members(lists[p]) = {t \in A : pr[t] = p} \cup {None}
  BY DEF Sorted
<1>3. None \notin Tasks
  BY NamesAssumption DEF Tasks
<1>4. ASSUME NEW p \in 1..3 PROVE Len(lists[p]) > 1 <=> \E t \in A : pr[t] = p
  <2>1. Len(lists[p]) > 1 <=> \E t \in Tasks : t \in Members(lists[p])
    BY <1>2, LenOK
  <2> QED  BY <1>2, <1>3, <2>1
<1>5. busy = {p \in 1..3 : \E t \in A : pr[t] = p}
  BY <1>1, <1>4
<1>6. IF busy = {}
      THEN ready' = lists /\ current' = None
      ELSE /\ ready' = [lists EXCEPT ![top] = Advance(@)]
           /\ current' = ready'[top][Len(ready'[top])]
  BY DEF vTaskSwitchContext
<1>7. CASE busy = {}
  <2>1. A = {}
    BY <1>5, <1>7
  <2> QED  BY <1>6, <1>7, <2>1
<1>8. CASE busy # {}
  <2>1. \E p \in busy : \A q \in busy : q <= p
    BY <1>5, <1>8
  <2>2. top \in busy /\ \A q \in busy : q <= top
    BY <2>1
  <2>3. ready' = [lists EXCEPT ![top] = Advance(@)] /\ current' = ready'[top][Len(ready'[top])]
    BY <1>6, <1>8
  <2> HIDE DEF busy, top
  <2>4. top \in 1..3 /\ ListOK(lists[top]) /\ Len(lists[top]) > 1
    BY <1>2, <1>4, <1>5, <2>2
  <2>5. /\ ListOK(Advance(lists[top])) /\ Members(Advance(lists[top])) = Members(lists[top])
        /\ Advance(lists[top])[Len(Advance(lists[top]))] \in Tasks \cap Members(lists[top])
    BY <2>4, AdvanceOK
  <2>6. ready' = [p \in 1..3 |-> ready'[p]] /\ ready'[top] = Advance(lists[top])
        /\ \A p \in 1..3 : p # top => ready'[p] = lists[p]
    BY <1>1, <2>3, <2>4
  <2>7. Sorted(ready', pr, A)
    <3>1. \A p \in 1..3 : ListOK(ready'[p]) /\ Members(ready'[p]) = Members(lists[p])
      <4> SUFFICES ASSUME NEW p \in 1..3
                   PROVE  ListOK(ready'[p]) /\ Members(ready'[p]) = Members(lists[p])
        OBVIOUS
      <4>1. CASE p = top
        BY <2>5, <2>6, <4>1
      <4>2. CASE p # top
        BY <1>2, <2>6, <4>2
      <4> QED  BY <4>1, <4>2
    <3> QED  BY <1>2, <2>6, <3>1 DEF Sorted
  <2>8. current' \in Tasks /\ current' \in Members(lists[top])
    BY <2>3, <2>5, <2>6
  <2>9. current' \in A /\ pr[current'] = top
    BY <1>2, <1>3, <2>4, <2>8
  <2>10. \A t \in A : pr[t] \in busy
    BY <1>5
  <2> QED  BY <1>5, <2>2, <2>7, <2>9, <2>10
<1> QED  BY <1>7, <1>8

-------------------------------------------------------------------------------
(* The rounds.                                                               *)

LEMMA RestOK ==
  ASSUME NEW S, NEW r \in Seq(S), NEW k \in 0..Len(r)
  PROVE  /\ RestOf(r, 0) = r
         /\ k = Len(r) => RestOf(r, k) = <<>>
         /\ k < Len(r) => /\ RestOf(r, k) # <<>> /\ Head(RestOf(r, k)) = r[k + 1]
                          /\ Tail(RestOf(r, k)) = RestOf(r, k + 1)
<1>1. RestOf(r, 0) = r
  BY SubSeqFull DEF RestOf
<1>2. ASSUME k = Len(r) PROVE RestOf(r, k) = <<>>
  <2>1. k + 1 \in Int /\ Len(r) \in Int /\ k + 1 > Len(r)
    BY <1>2
  <2> QED  BY <2>1, SubSeqEmpty DEF RestOf
<1>3. ASSUME k < Len(r)
      PROVE  /\ RestOf(r, k) # <<>> /\ Head(RestOf(r, k)) = r[k + 1]
             /\ Tail(RestOf(r, k)) = RestOf(r, k + 1)
  <2>1. k + 1 \in Int /\ Len(r) \in Int /\ k + 1 <= Len(r) /\ k + 1 \in Nat \ {0} /\ Len(r) \in Nat
    BY <1>3
  <2>2. \A i \in (k + 1)..Len(r) : r[i] \in S
    BY <2>1
  <2>3. Len(RestOf(r, k)) = Len(r) - (k + 1) + 1
    BY <2>1, <1>3, Slice DEF RestOf
  <2>4. RestOf(r, k) # <<>>
    BY <2>1, <2>3
  <2>5. Head(RestOf(r, k)) = r[k + 1] /\ Tail(RestOf(r, k)) = SubSeq(r, k + 1 + 1, Len(r))
    BY <2>1, <2>2, HeadTailOfSubSeq DEF RestOf
  <2> QED  BY <2>4, <2>5 DEF RestOf
<1> QED  BY <1>1, <1>2, <1>3

\* A task at place k of a round r makes the call of that place.
LEMMA CallOK ==
  ASSUME NEW S, NEW r \in Seq(S), NEW k \in 0..Len(r), todo[current] = RestOf(r, k)
  PROVE  /\ k = Len(r) => todo[current] = <<>>
         /\ k < Len(r) => /\ todo[current] # <<>> /\ Head(todo[current]) = r[k + 1]
                          /\ Tail(todo[current]) = RestOf(r, k + 1)
BY RestOK

Ops == {"take", "give", "create", "spawn", "delay", "until", "work"}

Calls == Ops \X (Tasks \cup Locks \cup {None})

LEMMA RoundsOK ==
  /\ ControlStart \in Seq(Calls) /\ Len(ControlStart) = 2
  /\ ControlRound \in Seq(Calls) /\ Len(ControlRound) = 3
  /\ ServoStart \in Seq(Calls) /\ Len(ServoStart) = 7
  /\ ServoRound \in Seq(Calls) /\ Len(ServoRound) = 4
  /\ Nap \in Seq(Calls) /\ Len(Nap) = 1
  /\ RosWheels \in Seq(Calls) /\ Len(RosWheels) = 5
  /\ RosPose \in Seq(Calls) /\ Len(RosPose) = 10
  /\ RosHello \in Seq(Calls) /\ Len(RosHello) = 2
<1>1. /\ Delay \in Calls /\ DelayUntil \in Calls /\ Work \in Calls
      /\ \A l \in Locks : Take(l) \in Calls /\ Give(l) \in Calls /\ Create(l) \in Calls
      /\ \A t \in Tasks : Spawn(t) \in Calls
  <2>1. \A a \in Ops, b \in Tasks \cup Locks \cup {None} : <<a, b>> \in Calls
    BY DEF Calls
  <2>2. /\ "take" \in Ops /\ "give" \in Ops /\ "create" \in Ops /\ "spawn" \in Ops
        /\ "delay" \in Ops /\ "until" \in Ops /\ "work" \in Ops
    BY DEF Ops
  <2> QED  BY <2>1, <2>2 DEF Delay, DelayUntil, Work, Take, Give, Create, Spawn
<1>2. /\ Control_Lock \in Locks /\ Servo_Lock \in Locks /\ Servo_Lock_Upper \in Locks
      /\ Servo \in Tasks /\ Ros \in Tasks /\ LED \in Tasks
  BY DEF Locks, Tasks
<1>3. ControlStart \in Seq(Calls) /\ Len(ControlStart) = 2
  BY <1>1, <1>2 DEF ControlStart
<1>4. ControlRound \in Seq(Calls) /\ Len(ControlRound) = 3
  BY <1>1, <1>2 DEF ControlRound
<1>5. ServoStart \in Seq(Calls) /\ Len(ServoStart) = 7
  BY <1>1, <1>2 DEF ServoStart
<1>6. ServoRound \in Seq(Calls) /\ Len(ServoRound) = 4
  BY <1>1, <1>2 DEF ServoRound
<1>7. Nap \in Seq(Calls) /\ Len(Nap) = 1
  BY <1>1 DEF Nap
<1>8. RosWheels \in Seq(Calls) /\ Len(RosWheels) = 5
  BY <1>1, <1>2 DEF RosWheels
<1>9. RosPose \in Seq(Calls) /\ Len(RosPose) = 10
  BY <1>1, <1>2 DEF RosPose
<1>10. RosHello \in Seq(Calls) /\ Len(RosHello) = 2
  BY <1>1, <1>2 DEF RosHello
<1> QED  BY <1>3, <1>4, <1>5, <1>6, <1>7, <1>8, <1>9, <1>10

-------------------------------------------------------------------------------
(* What the calls do to the rounds and the locks.                            *)

\* What a call does to the locks.
Effect ==
  \/ /\ Call("spawn") \/ Call("delay") \/ Call("until") \/ Call("work")
     /\ UNCHANGED <<made, owner, held, depth>>
  \/ Call("create") /\ made' = made \union {Arg} /\ UNCHANGED <<owner, held, depth>>
  \/ /\ Call("take") /\ owner[Arg] = None /\ owner' = [owner EXCEPT ![Arg] = current]
     /\ held' = [held EXCEPT ![current] = @ + 1]
     /\ depth' = IF Arg = Servo_Lock_Upper THEN depth + 1 ELSE depth
     /\ UNCHANGED made
  \/ /\ Call("take") /\ owner[Arg] = current /\ Arg = Servo_Lock_Upper
     /\ depth' = depth + 1 /\ UNCHANGED <<made, owner, held>>
  \/ /\ Call("give") /\ Arg = Servo_Lock_Upper /\ depth > 1
     /\ depth' = depth - 1 /\ UNCHANGED <<made, owner, held>>
  \/ /\ Call("give") /\ (Arg = Servo_Lock_Upper => depth = 1)
     /\ owner' = [owner EXCEPT ![Arg] = None]
     /\ held' = [held EXCEPT ![current] = @ - 1]
     /\ depth' = IF Arg = Servo_Lock_Upper THEN 0 ELSE depth
     /\ UNCHANGED made

Stays == UNCHANGED <<todo, made, owner, held, depth>>

\* The running task stays where it is, begins a round or has made a call.
Goes ==
  \/ Stays
  \/ todo[current] = <<>> /\ todo'[current] \in Rounds(current)
     /\ UNCHANGED <<made, owner, held, depth>>
  \/ todo[current] # <<>> /\ todo'[current] = Tail(todo[current]) /\ Effect

LEMMA RunGoes ==
  ASSUME Types, Run
  PROVE  /\ current \in Tasks /\ current # None /\ Goes
         /\ todo' = [t \in Tasks |-> todo'[t]]
         /\ \A t \in Tasks : t # current => todo'[t] = todo[t]
<1>1. current \in Tasks /\ current # None
  BY DEF Types, Run, Loop, xSemaphoreCreateMutex, osThreadNew, TakeFree, TakeAgain, TakeBlocks,
         GiveOnce, GiveUp, Sleep, Late, Poll, PollEnds, Call
<1>2. ASSUME NEW r, todo' = [todo EXCEPT ![current] = r]
      PROVE  /\ todo'[current] = r /\ todo' = [t \in Tasks |-> todo'[t]]
             /\ \A t \in Tasks : t # current => todo'[t] = todo[t]
  BY <1>1, <1>2 DEF Types
<1>3. ASSUME UNCHANGED todo
      PROVE  /\ todo' = [t \in Tasks |-> todo'[t]]
             /\ \A t \in Tasks : t # current => todo'[t] = todo[t]
  BY <1>3 DEF Types
<1>4. \A op : Call(op) => todo[current] # <<>>
  BY DEF Call
<1>5. CASE Loop
  BY <1>1, <1>2, <1>5 DEF Loop, Goes, Effect, Stays
<1>6. CASE TakeBlocks \/ Poll
  BY <1>1, <1>3, <1>6 DEF TakeBlocks, Poll, Goes, Effect, Stays
<1>7. CASE xSemaphoreCreateMutex
  BY <1>1, <1>2, <1>4, <1>7 DEF xSemaphoreCreateMutex, Done, Goes, Effect, Stays
<1>8. CASE osThreadNew
  BY <1>1, <1>2, <1>4, <1>8 DEF osThreadNew, Done, Goes, Effect, Stays
<1>9. CASE TakeFree
  BY <1>1, <1>2, <1>4, <1>9 DEF TakeFree, Done, Goes, Effect, Stays
<1>10. CASE TakeAgain
  BY <1>1, <1>2, <1>4, <1>10 DEF TakeAgain, Done, Goes, Effect, Stays
<1>11. CASE GiveOnce
  BY <1>1, <1>2, <1>4, <1>11 DEF GiveOnce, Done, Goes, Effect, Stays
<1>12. CASE GiveUp
  BY <1>1, <1>2, <1>4, <1>12 DEF GiveUp, Done, Goes, Effect, Stays
<1>13. CASE Sleep \/ Late \/ PollEnds
  BY <1>1, <1>2, <1>4, <1>13 DEF Sleep, Late, PollEnds, Done, Goes, Effect, Stays
<1> QED  BY <1>5, <1>6, <1>7, <1>8, <1>9, <1>10, <1>11, <1>12, <1>13 DEF Run

LEMMA PlaceGoes ==
  ASSUME NEW r \in Seq(Calls), NEW k \in 0..Len(r), todo[current] = RestOf(r, k), Goes, ~Stays
  PROVE  \/ /\ k = Len(r) /\ todo'[current] \in Rounds(current)
            /\ UNCHANGED <<made, owner, held, depth>>
         \/ /\ k < Len(r) /\ Head(todo[current]) = r[k + 1]
           /\ todo[current] # <<>>
            /\ todo'[current] = RestOf(r, k + 1) /\ Effect
<1>1. CASE k = Len(r)
  <2>1. todo[current] = <<>>
    BY <1>1, CallOK
  <2> QED  BY <1>1, <2>1 DEF Goes
<1>2. CASE k < Len(r)
  <2>1. /\ todo[current] # <<>> /\ Head(todo[current]) = r[k + 1]
        /\ Tail(todo[current]) = RestOf(r, k + 1)
    BY <1>2, CallOK
  <2> QED  BY <1>2, <2>1 DEF Goes
<1> QED  BY <1>1, <1>2

LEMMA OneCall == \A op, other : Call(op) /\ Call(other) => op = other
BY DEF Call

LEMMA Distinct ==
  /\ \A t \in Tasks : t # None
  /\ Control \in Tasks /\ Servo \in Tasks /\ Ros \in Tasks /\ Default \in Tasks
  /\ LED \in Tasks
  /\ Control_Lock \in Locks /\ Servo_Lock \in Locks /\ Servo_Lock_Upper \in Locks
  /\ Control # Servo /\ Control # Ros /\ Control # Default
  /\ Servo # Ros /\ Servo # Default /\ Ros # Default
  /\ LED # Control /\ LED # Servo /\ LED # Ros /\ LED # Default
  /\ Control_Lock # Servo_Lock /\ Control_Lock # Servo_Lock_Upper
  /\ Servo_Lock # Servo_Lock_Upper
BY NamesAssumption DEF Tasks, Locks

LEMMA Bases ==
  /\ BasePriority(Control) = 3 /\ BasePriority(Servo) = 2 /\ BasePriority(Ros) = 2
  /\ BasePriority(Default) = 2 /\ BasePriority(LED) = 1
  /\ \A t \in Tasks : /\ BasePriority(t) \in 1..3
                      /\ t # Control => BasePriority(t) \in 1..2
                      /\ t \notin {Control, LED} => BasePriority(t) = 2
<1>1. /\ BasePriority(Control) = 3 /\ BasePriority(Servo) = 2 /\ BasePriority(Ros) = 2
      /\ BasePriority(Default) = 2 /\ BasePriority(LED) = 1
  BY Distinct DEF BasePriority, Realtime, Normal, Low
<1> QED  BY <1>1 DEF Tasks

\* The ROS task begins a round.
LEMMA RosBegins ==
  ASSUME todo'[Ros] \in Rounds(Ros), UNCHANGED <<made, owner, held, depth>>,
         Owns(Ros, {}, 0), depth = 0
  PROVE  RosCode'
<1>1. Rounds(Ros) = RosRounds
  BY Distinct DEF Rounds
<1>2. todo'[Ros] \in {Nap, RosWheels, RosPose, RosHello}
  BY <1>1 DEF RosRounds, Nap, RosWheels, RosPose, RosHello
<1>3. Owns(Ros, {}, 0)' /\ depth' = 0
  BY DEF Owns
<1>4. RestOf(Nap, 0) = Nap /\ RestOf(RosWheels, 0) = RosWheels /\ RestOf(RosPose, 0) = RosPose
      /\ RestOf(RosHello, 0) = RosHello
  <2>1. RestOf(Nap, 0) = Nap
    BY RestOK, RoundsOK
  <2>2. RestOf(RosWheels, 0) = RosWheels
    BY RestOK, RoundsOK
  <2>3. RestOf(RosPose, 0) = RosPose
    BY RestOK, RoundsOK
  <2>4. RestOf(RosHello, 0) = RosHello
    BY RestOK, RoundsOK
  <2> QED  BY <2>1, <2>2, <2>3, <2>4
<1>5. CASE todo'[Ros] = Nap
  BY <1>3, <1>4, <1>5 DEF RosCode, IdleAt
<1>6. CASE todo'[Ros] = RosWheels
  BY <1>3, <1>4, <1>6 DEF RosCode, WheelsAt
<1>7. CASE todo'[Ros] = RosPose
  BY <1>3, <1>4, <1>7 DEF RosCode, PoseAt
<1>8. CASE todo'[Ros] = RosHello
  BY <1>3, <1>4, <1>8 DEF RosCode, HelloAt
<1> QED  BY <1>2, <1>5, <1>6, <1>7, <1>8

LEMMA PoseCalls ==
  ASSUME current = Ros, NEW k \in 0..10, PoseAt(k)
  PROVE  /\ k = 10 => todo[current] = <<>>
         /\ k < 10 => todo[current] # <<>>
         /\ k \in {0, 1} => Call("take") /\ Arg = Servo_Lock_Upper
         /\ k \in {2, 6} => Call("take") /\ Arg = Servo_Lock
         /\ k = 3 => Call("work")
         /\ k = 9 => Call("delay")
         /\ k \in {4, 7} => Call("give") /\ Arg = Servo_Lock
         /\ k \in {5, 8} => Call("give") /\ Arg = Servo_Lock_Upper
<1>1. /\ RosPose \in Seq(Calls) /\ Len(RosPose) = 10 /\ k \in 0..Len(RosPose)
      /\ todo[current] = RestOf(RosPose, k)
  BY RoundsOK DEF PoseAt
<1>2. ASSUME k < 10 PROVE todo[current] # <<>> /\ Head(todo[current]) = RosPose[k + 1]
  <2>1. k < Len(RosPose)
    BY <1>1, <1>2
  <2> QED  BY <1>1, <2>1, CallOK
<1>3. k = 10 => todo[current] = <<>>
  BY <1>1, CallOK
<1>4. /\ k \in {0, 1} => Call("take") /\ Arg = Servo_Lock_Upper
      /\ k \in {2, 6} => Call("take") /\ Arg = Servo_Lock
      /\ k = 3 => Call("work")
      /\ k = 9 => Call("delay")
      /\ k \in {4, 7} => Call("give") /\ Arg = Servo_Lock
      /\ k \in {5, 8} => Call("give") /\ Arg = Servo_Lock_Upper
  BY <1>2, Distinct DEF Call, Arg, RosPose, Take, Give, Work, Delay
<1> QED  BY <1>2, <1>3, <1>4

LEMMA PoseGoes ==
  ASSUME Types, current = Ros, NEW k \in 0..10, PoseAt(k), Goes
  PROVE  RosCode'
<1>1. /\ RosPose \in Seq(Calls) /\ Len(RosPose) = 10 /\ k \in 0..Len(RosPose)
      /\ todo[current] = RestOf(RosPose, k)
  BY RoundsOK DEF PoseAt
<1>2. CASE Stays
  <2>1. PoseAt(k)'
    BY <1>2 DEF PoseAt, Owns, Stays
  <2> QED  BY <1>2, <2>1 DEF RosCode, Stays
<1>3. CASE ~Stays
  <2>1. \/ /\ k = Len(RosPose) /\ todo'[current] \in Rounds(current)
           /\ UNCHANGED <<made, owner, held, depth>>
        \/ /\ k < Len(RosPose) /\ Head(todo[current]) = RosPose[k + 1]
           /\ todo[current] # <<>>
           /\ todo'[current] = RestOf(RosPose, k + 1) /\ Effect
    BY <1>1, <1>3, PlaceGoes
  <2>2. CASE k = 10
    <3>1. todo'[current] \in Rounds(current) /\ UNCHANGED <<made, owner, held, depth>>
      BY <1>1, <2>1, <2>2
    <3>2. Owns(Ros, {}, 0) /\ depth = 0
      BY <2>2 DEF PoseAt
    <3> QED  BY <3>1, <3>2, RosBegins
  <2>3. CASE k < 10
    <3>1. todo'[current] = RestOf(RosPose, k + 1) /\ Effect
      BY <1>1, <2>1, <2>3
    <3>2. /\ k \in {0, 1} => Call("take") /\ Arg = Servo_Lock_Upper
          /\ k \in {2, 6} => Call("take") /\ Arg = Servo_Lock
          /\ k = 3 => Call("work")
          /\ k = 9 => Call("delay")
          /\ k \in {4, 7} => Call("give") /\ Arg = Servo_Lock
          /\ k \in {5, 8} => Call("give") /\ Arg = Servo_Lock_Upper
      BY PoseCalls
    <3>3. CASE k = 0
      BY <2>3, <3>1, <3>2, <3>3, OneCall, Distinct
         DEF Effect, RosCode, PoseAt, Owns, Locks, Types
    <3>4. CASE k = 1
      BY <2>3, <3>1, <3>2, <3>4, OneCall, Distinct
         DEF Effect, RosCode, PoseAt, Owns, Locks, Types
    <3>5. CASE k = 2
      BY <2>3, <3>1, <3>2, <3>5, OneCall, Distinct
         DEF Effect, RosCode, PoseAt, Owns, Locks, Types
    <3>6. CASE k = 6
      BY <2>3, <3>1, <3>2, <3>6, OneCall, Distinct
         DEF Effect, RosCode, PoseAt, Owns, Locks, Types
    <3>7. CASE k \in {3, 9}
      BY <2>3, <3>1, <3>2, <3>7, OneCall, Distinct
         DEF Effect, RosCode, PoseAt, Owns, Locks, Types
    <3>8. CASE k \in {4, 7}
      BY <2>3, <3>1, <3>2, <3>8, OneCall, Distinct
         DEF Effect, RosCode, PoseAt, Owns, Locks, Types
    <3>9. CASE k = 5
      BY <2>3, <3>1, <3>2, <3>9, OneCall, Distinct
         DEF Effect, RosCode, PoseAt, Owns, Locks, Types
    <3>10. CASE k = 8
      BY <2>3, <3>1, <3>2, <3>10, OneCall, Distinct
         DEF Effect, RosCode, PoseAt, Owns, Locks, Types
    <3> QED  BY <2>3, <3>3, <3>4, <3>5, <3>6, <3>7, <3>8, <3>9, <3>10
  <2> QED  BY <1>1, <2>2, <2>3
<1> QED  BY <1>2, <1>3

LEMMA WheelsCall ==
  ASSUME current = Ros, NEW k \in 0..5, WheelsAt(k)
  PROVE  /\ k = 5 => todo[current] = <<>>
         /\ k < 5 => todo[current] # <<>>
         /\ k \in {0, 2} => Call("take") /\ Arg = Control_Lock
         /\ k \in {1, 3} => Call("give") /\ Arg = Control_Lock
         /\ k = 4 => Call("delay")
<1>1. /\ RosWheels \in Seq(Calls) /\ Len(RosWheels) = 5 /\ k \in 0..Len(RosWheels)
      /\ todo[current] = RestOf(RosWheels, k)
  BY RoundsOK DEF WheelsAt
<1>2. ASSUME k < 5 PROVE todo[current] # <<>> /\ Head(todo[current]) = RosWheels[k + 1]
  <2>1. k < Len(RosWheels)
    BY <1>1, <1>2
  <2> QED  BY <1>1, <2>1, CallOK
<1>3. k = 5 => todo[current] = <<>>
  BY <1>1, CallOK
<1>4. /\ k \in {0, 2} => Call("take") /\ Arg = Control_Lock
      /\ k \in {1, 3} => Call("give") /\ Arg = Control_Lock
      /\ k = 4 => Call("delay")
  BY <1>2, Distinct DEF Call, Arg, RosWheels, Take, Give, Delay
<1> QED  BY <1>2, <1>3, <1>4

LEMMA WheelsGo ==
  ASSUME Types, current = Ros, NEW k \in 0..5, WheelsAt(k), Goes
  PROVE  RosCode'
<1>1. /\ RosWheels \in Seq(Calls) /\ Len(RosWheels) = 5 /\ k \in 0..Len(RosWheels)
      /\ todo[current] = RestOf(RosWheels, k)
  BY RoundsOK DEF WheelsAt
<1>2. CASE Stays
  <2>1. WheelsAt(k)'
    BY <1>2 DEF WheelsAt, Owns, Stays
  <2> QED  BY <1>2, <2>1 DEF RosCode, Stays
<1>3. CASE ~Stays
  <2>1. \/ /\ k = Len(RosWheels) /\ todo'[current] \in Rounds(current)
           /\ UNCHANGED <<made, owner, held, depth>>
        \/ /\ k < Len(RosWheels) /\ Head(todo[current]) = RosWheels[k + 1]
           /\ todo[current] # <<>>
           /\ todo'[current] = RestOf(RosWheels, k + 1) /\ Effect
    BY <1>1, <1>3, PlaceGoes
  <2>2. CASE k = 5
    <3>1. todo'[current] \in Rounds(current) /\ UNCHANGED <<made, owner, held, depth>>
      BY <1>1, <2>1, <2>2
    <3>2. Owns(Ros, {}, 0) /\ depth = 0
      BY <2>2 DEF WheelsAt
    <3> QED  BY <3>1, <3>2, RosBegins
  <2>3. CASE k < 5
    <3>1. todo'[current] = RestOf(RosWheels, k + 1) /\ Effect
      BY <1>1, <2>1, <2>3
    <3>2. /\ k \in {0, 2} => Call("take") /\ Arg = Control_Lock
          /\ k \in {1, 3} => Call("give") /\ Arg = Control_Lock
          /\ k = 4 => Call("delay")
      BY WheelsCall
    <3>3. CASE k = 0
      BY <2>3, <3>1, <3>2, <3>3, OneCall, Distinct
         DEF Effect, RosCode, WheelsAt, Owns, Locks, Types
    <3>4. CASE k = 2
      BY <2>3, <3>1, <3>2, <3>4, OneCall, Distinct
         DEF Effect, RosCode, WheelsAt, Owns, Locks, Types
    <3>5. CASE k = 1
      BY <2>3, <3>1, <3>2, <3>5, OneCall, Distinct
         DEF Effect, RosCode, WheelsAt, Owns, Locks, Types
    <3>6. CASE k = 3
      BY <2>3, <3>1, <3>2, <3>6, OneCall, Distinct
         DEF Effect, RosCode, WheelsAt, Owns, Locks, Types
    <3>7. CASE k = 4
      BY <2>3, <3>1, <3>2, <3>7, OneCall, Distinct
         DEF Effect, RosCode, WheelsAt, Owns, Locks, Types
    <3> QED  BY <2>3, <3>3, <3>4, <3>5, <3>6, <3>7
  <2> QED  BY <1>1, <2>2, <2>3
<1> QED  BY <1>2, <1>3

LEMMA RosNapCalls ==
  ASSUME current = Ros, NEW k \in 0..1, IdleAt(Ros, k)
  PROVE  /\ k = 1 => todo[current] = <<>>
         /\ k < 1 => todo[current] # <<>>
         /\ k = 0 => Call("delay")
<1>1. /\ Nap \in Seq(Calls) /\ Len(Nap) = 1 /\ k \in 0..Len(Nap)
      /\ todo[current] = RestOf(Nap, k)
  BY RoundsOK DEF IdleAt
<1>2. ASSUME k < 1 PROVE todo[current] # <<>> /\ Head(todo[current]) = Nap[k + 1]
  <2>1. k < Len(Nap)
    BY <1>1, <1>2
  <2> QED  BY <1>1, <2>1, CallOK
<1>3. k = 1 => todo[current] = <<>>
  BY <1>1, CallOK
<1>4. /\ k = 0 => Call("delay")
  BY <1>2, Distinct DEF Call, Arg, Nap, Delay
<1> QED  BY <1>2, <1>3, <1>4

LEMMA RosNapGoes ==
  ASSUME Types, current = Ros, NEW k \in 0..1, IdleAt(Ros, k), depth = 0, Goes
  PROVE  RosCode'
<1>1. /\ Nap \in Seq(Calls) /\ Len(Nap) = 1 /\ k \in 0..Len(Nap)
      /\ todo[current] = RestOf(Nap, k)
  BY RoundsOK DEF IdleAt
<1>2. CASE Stays
  <2>1. IdleAt(Ros, k)'
    BY <1>2 DEF IdleAt, Owns, Stays
  <2> QED  BY <1>2, <2>1 DEF RosCode, Stays
<1>3. CASE ~Stays
  <2>1. \/ /\ k = Len(Nap) /\ todo'[current] \in Rounds(current)
           /\ UNCHANGED <<made, owner, held, depth>>
        \/ /\ k < Len(Nap) /\ Head(todo[current]) = Nap[k + 1]
           /\ todo[current] # <<>>
           /\ todo'[current] = RestOf(Nap, k + 1) /\ Effect
    BY <1>1, <1>3, PlaceGoes
  <2>2. CASE k = 1
    <3>1. todo'[current] \in Rounds(current) /\ UNCHANGED <<made, owner, held, depth>>
      BY <1>1, <2>1, <2>2
    <3>2. Owns(Ros, {}, 0) /\ depth = 0
      BY <2>2 DEF IdleAt
    <3> QED  BY <3>1, <3>2, RosBegins
  <2>3. CASE k < 1
    <3>1. todo'[current] = RestOf(Nap, k + 1) /\ Effect
      BY <1>1, <2>1, <2>3
    <3>2. /\ k = 0 => Call("delay")
      BY RosNapCalls
    <3>3. CASE k = 0
      BY <2>3, <3>1, <3>2, <3>3, OneCall, Distinct
         DEF Effect, RosCode, IdleAt, Owns, Locks, Types
    <3> QED  BY <2>3, <3>3
  <2> QED  BY <1>1, <2>2, <2>3
<1> QED  BY <1>2, <1>3

LEMMA HelloCalls ==
  ASSUME current = Ros, NEW k \in 0..2, HelloAt(k)
  PROVE  /\ k = 2 => todo[current] = <<>>
         /\ k < 2 => todo[current] # <<>>
         /\ k = 0 => Call("spawn") /\ Arg = LED
         /\ k = 1 => Call("delay")
<1>1. /\ RosHello \in Seq(Calls) /\ Len(RosHello) = 2 /\ k \in 0..Len(RosHello)
      /\ todo[current] = RestOf(RosHello, k)
  BY RoundsOK DEF HelloAt
<1>2. ASSUME k < 2 PROVE todo[current] # <<>> /\ Head(todo[current]) = RosHello[k + 1]
  <2>1. k < Len(RosHello)
    BY <1>1, <1>2
  <2> QED  BY <1>1, <2>1, CallOK
<1>3. k = 2 => todo[current] = <<>>
  BY <1>1, CallOK
<1>4. /\ k = 0 => Call("spawn") /\ Arg = LED
      /\ k = 1 => Call("delay")
  BY <1>2, Distinct DEF Call, Arg, RosHello, Spawn, Delay
<1> QED  BY <1>2, <1>3, <1>4

LEMMA HelloGoes ==
  ASSUME Types, current = Ros, NEW k \in 0..2, HelloAt(k), Goes
  PROVE  RosCode'
<1>1. /\ RosHello \in Seq(Calls) /\ Len(RosHello) = 2 /\ k \in 0..Len(RosHello)
      /\ todo[current] = RestOf(RosHello, k)
  BY RoundsOK DEF HelloAt
<1>2. CASE Stays
  <2>1. HelloAt(k)'
    BY <1>2 DEF HelloAt, Owns, Stays
  <2> QED  BY <1>2, <2>1 DEF RosCode, Stays
<1>3. CASE ~Stays
  <2>1. \/ /\ k = Len(RosHello) /\ todo'[current] \in Rounds(current)
           /\ UNCHANGED <<made, owner, held, depth>>
        \/ /\ k < Len(RosHello) /\ Head(todo[current]) = RosHello[k + 1]
           /\ todo[current] # <<>>
           /\ todo'[current] = RestOf(RosHello, k + 1) /\ Effect
    BY <1>1, <1>3, PlaceGoes
  <2>2. CASE k = 2
    <3>1. todo'[current] \in Rounds(current) /\ UNCHANGED <<made, owner, held, depth>>
      BY <1>1, <2>1, <2>2
    <3>2. Owns(Ros, {}, 0) /\ depth = 0
      BY <2>2 DEF HelloAt
    <3> QED  BY <3>1, <3>2, RosBegins
  <2>3. CASE k < 2
    <3>1. todo'[current] = RestOf(RosHello, k + 1) /\ Effect
      BY <1>1, <2>1, <2>3
    <3>2. /\ k = 0 => Call("spawn") /\ Arg = LED
          /\ k = 1 => Call("delay")
      BY HelloCalls
    <3>3. CASE k = 0
      BY <2>3, <3>1, <3>2, <3>3, OneCall, Distinct
         DEF Effect, RosCode, HelloAt, Owns, Locks, Types
    <3>4. CASE k = 1
      BY <2>3, <3>1, <3>2, <3>4, OneCall, Distinct
         DEF Effect, RosCode, HelloAt, Owns, Locks, Types
    <3> QED  BY <2>3, <3>3, <3>4
  <2> QED  BY <1>1, <2>2, <2>3
<1> QED  BY <1>2, <1>3

LEMMA IdleCalls ==
  ASSUME NEW t \in {Default, LED}, current = t, NEW k \in 0..1, IdleAt(t, k)
  PROVE  /\ k = 1 => todo[current] = <<>>
         /\ k < 1 => todo[current] # <<>>
         /\ k = 0 => Call("delay")
<1>1. /\ Nap \in Seq(Calls) /\ Len(Nap) = 1 /\ k \in 0..Len(Nap)
      /\ todo[current] = RestOf(Nap, k)
  BY RoundsOK DEF IdleAt
<1>2. ASSUME k < 1 PROVE todo[current] # <<>> /\ Head(todo[current]) = Nap[k + 1]
  <2>1. k < Len(Nap)
    BY <1>1, <1>2
  <2> QED  BY <1>1, <2>1, CallOK
<1>3. k = 1 => todo[current] = <<>>
  BY <1>1, CallOK
<1>4. /\ k = 0 => Call("delay")
  BY <1>2, Distinct DEF Call, Arg, Nap, Delay
<1> QED  BY <1>2, <1>3, <1>4

LEMMA IdleGoes ==
  ASSUME Types, NEW t \in {Default, LED}, current = t, NEW k \in 0..1, IdleAt(t, k), Goes
  PROVE  IdleCode(t)'
<1>1. /\ Nap \in Seq(Calls) /\ Len(Nap) = 1 /\ k \in 0..Len(Nap)
      /\ todo[current] = RestOf(Nap, k)
  BY RoundsOK DEF IdleAt
<1>2. CASE Stays
  <2>1. IdleAt(t, k)'
    BY <1>2 DEF IdleAt, Owns, Stays
  <2> QED  BY <1>2, <2>1 DEF IdleCode, Stays
<1>3. CASE ~Stays
  <2>1. \/ /\ k = Len(Nap) /\ todo'[current] \in Rounds(current)
           /\ UNCHANGED <<made, owner, held, depth>>
        \/ /\ k < Len(Nap) /\ Head(todo[current]) = Nap[k + 1]
           /\ todo[current] # <<>>
           /\ todo'[current] = RestOf(Nap, k + 1) /\ Effect
    BY <1>1, <1>3, PlaceGoes
  <2>2. CASE k = 1
    <3>1. todo'[current] \in Rounds(current) /\ UNCHANGED <<made, owner, held, depth>>
      BY <1>1, <2>1, <2>2
    <3>2. todo'[t] = RestOf(Nap, 0)
      <4>1. Rounds(t) = {Nap}
        BY Distinct DEF Rounds, Nap
      <4>2. RestOf(Nap, 0) = Nap
        BY RestOK, RoundsOK
      <4> QED  BY <3>1, <4>1, <4>2
    <3> QED  BY <2>2, <3>1, <3>2 DEF IdleCode, IdleAt, Owns
  <2>3. CASE k < 1
    <3>1. todo'[current] = RestOf(Nap, k + 1) /\ Effect
      BY <1>1, <2>1, <2>3
    <3>2. /\ k = 0 => Call("delay")
      BY IdleCalls
    <3>3. CASE k = 0
      BY <2>3, <3>1, <3>2, <3>3, OneCall, Distinct
         DEF Effect, IdleCode, IdleAt, Owns, Locks, Types
    <3> QED  BY <2>3, <3>3
  <2> QED  BY <1>1, <2>2, <2>3
<1> QED  BY <1>2, <1>3

LEMMA ControlBootCalls ==
  ASSUME current = Control, NEW k \in 0..2, ControlBoot(k)
  PROVE  /\ k = 2 => todo[current] = <<>>
         /\ k < 2 => todo[current] # <<>>
         /\ k = 0 => Call("create") /\ Arg = Control_Lock
         /\ k = 1 => Call("spawn") /\ Arg = Servo
<1>1. /\ ControlStart \in Seq(Calls) /\ Len(ControlStart) = 2 /\ k \in 0..Len(ControlStart)
      /\ todo[current] = RestOf(ControlStart, k)
  BY RoundsOK DEF ControlBoot
<1>2. ASSUME k < 2 PROVE todo[current] # <<>> /\ Head(todo[current]) = ControlStart[k + 1]
  <2>1. k < Len(ControlStart)
    BY <1>1, <1>2
  <2> QED  BY <1>1, <2>1, CallOK
<1>3. k = 2 => todo[current] = <<>>
  BY <1>1, CallOK
<1>4. /\ k = 0 => Call("create") /\ Arg = Control_Lock
      /\ k = 1 => Call("spawn") /\ Arg = Servo
  BY <1>2, Distinct DEF Call, Arg, ControlStart, Create, Spawn
<1> QED  BY <1>2, <1>3, <1>4

LEMMA ControlBootGoes ==
  ASSUME Types, current = Control, NEW k \in 0..2, ControlBoot(k), Goes
  PROVE  ControlCode'
<1>1. /\ ControlStart \in Seq(Calls) /\ Len(ControlStart) = 2 /\ k \in 0..Len(ControlStart)
      /\ todo[current] = RestOf(ControlStart, k)
  BY RoundsOK DEF ControlBoot
<1>2. CASE Stays
  <2>1. ControlBoot(k)'
    BY <1>2 DEF ControlBoot, Owns, Stays
  <2> QED  BY <1>2, <2>1 DEF ControlCode, Stays
<1>3. CASE ~Stays
  <2>1. \/ /\ k = Len(ControlStart) /\ todo'[current] \in Rounds(current)
           /\ UNCHANGED <<made, owner, held, depth>>
        \/ /\ k < Len(ControlStart) /\ Head(todo[current]) = ControlStart[k + 1]
           /\ todo[current] # <<>>
           /\ todo'[current] = RestOf(ControlStart, k + 1) /\ Effect
    BY <1>1, <1>3, PlaceGoes
  <2>2. CASE k = 2
    <3>1. todo'[current] \in Rounds(current) /\ UNCHANGED <<made, owner, held, depth>>
      BY <1>1, <2>1, <2>2
    <3>2. todo'[Control] = RestOf(ControlRound, 0)
      <4>1. Rounds(Control) = {ControlRound}
        BY Distinct DEF Rounds
      <4>2. RestOf(ControlRound, 0) = ControlRound
        BY RestOK, RoundsOK
      <4> QED  BY <3>1, <4>1, <4>2
    <3> QED  BY <2>2, <3>1, <3>2 DEF ControlCode, ControlBoot, ControlAt, Owns
  <2>3. CASE k < 2
    <3>1. todo'[current] = RestOf(ControlStart, k + 1) /\ Effect
      BY <1>1, <2>1, <2>3
    <3>2. /\ k = 0 => Call("create") /\ Arg = Control_Lock
          /\ k = 1 => Call("spawn") /\ Arg = Servo
      BY ControlBootCalls
    <3>3. CASE k = 0
      BY <2>3, <3>1, <3>2, <3>3, OneCall, Distinct
         DEF Effect, ControlCode, ControlBoot, Owns, Locks, Types
    <3>4. CASE k = 1
      BY <2>3, <3>1, <3>2, <3>4, OneCall, Distinct
         DEF Effect, ControlCode, ControlBoot, Owns, Locks, Types
    <3> QED  BY <2>3, <3>3, <3>4
  <2> QED  BY <1>1, <2>2, <2>3
<1> QED  BY <1>2, <1>3

LEMMA ControlCalls ==
  ASSUME current = Control, NEW k \in 0..3, ControlAt(k)
  PROVE  /\ k = 3 => todo[current] = <<>>
         /\ k < 3 => todo[current] # <<>>
         /\ k = 0 => Call("take") /\ Arg = Control_Lock
         /\ k = 1 => Call("give") /\ Arg = Control_Lock
         /\ k = 2 => Call("delay")
<1>1. /\ ControlRound \in Seq(Calls) /\ Len(ControlRound) = 3 /\ k \in 0..Len(ControlRound)
      /\ todo[current] = RestOf(ControlRound, k)
  BY RoundsOK DEF ControlAt
<1>2. ASSUME k < 3 PROVE todo[current] # <<>> /\ Head(todo[current]) = ControlRound[k + 1]
  <2>1. k < Len(ControlRound)
    BY <1>1, <1>2
  <2> QED  BY <1>1, <2>1, CallOK
<1>3. k = 3 => todo[current] = <<>>
  BY <1>1, CallOK
<1>4. /\ k = 0 => Call("take") /\ Arg = Control_Lock
      /\ k = 1 => Call("give") /\ Arg = Control_Lock
      /\ k = 2 => Call("delay")
  BY <1>2, Distinct DEF Call, Arg, ControlRound, Take, Give, Delay
<1> QED  BY <1>2, <1>3, <1>4

LEMMA ControlGoes ==
  ASSUME Types, current = Control, NEW k \in 0..3, ControlAt(k), Goes
  PROVE  ControlCode'
<1>1. /\ ControlRound \in Seq(Calls) /\ Len(ControlRound) = 3 /\ k \in 0..Len(ControlRound)
      /\ todo[current] = RestOf(ControlRound, k)
  BY RoundsOK DEF ControlAt
<1>2. CASE Stays
  <2>1. ControlAt(k)'
    BY <1>2 DEF ControlAt, Owns, Stays
  <2> QED  BY <1>2, <2>1 DEF ControlCode, Stays
<1>3. CASE ~Stays
  <2>1. \/ /\ k = Len(ControlRound) /\ todo'[current] \in Rounds(current)
           /\ UNCHANGED <<made, owner, held, depth>>
        \/ /\ k < Len(ControlRound) /\ Head(todo[current]) = ControlRound[k + 1]
           /\ todo[current] # <<>>
           /\ todo'[current] = RestOf(ControlRound, k + 1) /\ Effect
    BY <1>1, <1>3, PlaceGoes
  <2>2. CASE k = 3
    <3>1. todo'[current] \in Rounds(current) /\ UNCHANGED <<made, owner, held, depth>>
      BY <1>1, <2>1, <2>2
    <3>2. todo'[Control] = RestOf(ControlRound, 0)
      <4>1. Rounds(Control) = {ControlRound}
        BY Distinct DEF Rounds
      <4>2. RestOf(ControlRound, 0) = ControlRound
        BY RestOK, RoundsOK
      <4> QED  BY <3>1, <4>1, <4>2
    <3> QED  BY <2>2, <3>1, <3>2 DEF ControlCode, ControlAt, Owns
  <2>3. CASE k < 3
    <3>1. todo'[current] = RestOf(ControlRound, k + 1) /\ Effect
      BY <1>1, <2>1, <2>3
    <3>2. /\ k = 0 => Call("take") /\ Arg = Control_Lock
          /\ k = 1 => Call("give") /\ Arg = Control_Lock
          /\ k = 2 => Call("delay")
      BY ControlCalls
    <3>3. CASE k = 0
      BY <2>3, <3>1, <3>2, <3>3, OneCall, Distinct
         DEF Effect, ControlCode, ControlAt, Owns, Locks, Types
    <3>4. CASE k = 1
      BY <2>3, <3>1, <3>2, <3>4, OneCall, Distinct
         DEF Effect, ControlCode, ControlAt, Owns, Locks, Types
    <3>5. CASE k = 2
      BY <2>3, <3>1, <3>2, <3>5, OneCall, Distinct
         DEF Effect, ControlCode, ControlAt, Owns, Locks, Types
    <3> QED  BY <2>3, <3>3, <3>4, <3>5
  <2> QED  BY <1>1, <2>2, <2>3
<1> QED  BY <1>2, <1>3

LEMMA ServoBootCalls ==
  ASSUME current = Servo, NEW k \in 0..7, ServoBoot(k)
  PROVE  /\ k = 7 => todo[current] = <<>>
         /\ k < 7 => todo[current] # <<>>
         /\ k = 0 => Call("create") /\ Arg = Servo_Lock
         /\ k = 1 => Call("create") /\ Arg = Servo_Lock_Upper
         /\ k = 2 => Call("spawn") /\ Arg = Ros
         /\ k = 3 => Call("delay")
         /\ k = 4 => Call("take") /\ Arg = Servo_Lock
         /\ k = 5 => Call("give") /\ Arg = Servo_Lock
         /\ k = 6 => Call("work")
<1>1. /\ ServoStart \in Seq(Calls) /\ Len(ServoStart) = 7 /\ k \in 0..Len(ServoStart)
      /\ todo[current] = RestOf(ServoStart, k)
  BY RoundsOK DEF ServoBoot
<1>2. ASSUME k < 7 PROVE todo[current] # <<>> /\ Head(todo[current]) = ServoStart[k + 1]
  <2>1. k < Len(ServoStart)
    BY <1>1, <1>2
  <2> QED  BY <1>1, <2>1, CallOK
<1>3. k = 7 => todo[current] = <<>>
  BY <1>1, CallOK
<1>4. /\ k = 0 => Call("create") /\ Arg = Servo_Lock
      /\ k = 1 => Call("create") /\ Arg = Servo_Lock_Upper
      /\ k = 2 => Call("spawn") /\ Arg = Ros
      /\ k = 3 => Call("delay")
      /\ k = 4 => Call("take") /\ Arg = Servo_Lock
      /\ k = 5 => Call("give") /\ Arg = Servo_Lock
      /\ k = 6 => Call("work")
  BY <1>2, Distinct DEF Call, Arg, ServoStart, Create, Spawn, Take, Give, Delay, Work
<1> QED  BY <1>2, <1>3, <1>4

LEMMA ServoBootGoes ==
  ASSUME Types, current = Servo, NEW k \in 0..7, ServoBoot(k), Goes
  PROVE  ServoCode'
<1>1. /\ ServoStart \in Seq(Calls) /\ Len(ServoStart) = 7 /\ k \in 0..Len(ServoStart)
      /\ todo[current] = RestOf(ServoStart, k)
  BY RoundsOK DEF ServoBoot
<1>2. CASE Stays
  <2>1. ServoBoot(k)'
    BY <1>2 DEF ServoBoot, Owns, Stays
  <2> QED  BY <1>2, <2>1 DEF ServoCode, Stays
<1>3. CASE ~Stays
  <2>1. \/ /\ k = Len(ServoStart) /\ todo'[current] \in Rounds(current)
           /\ UNCHANGED <<made, owner, held, depth>>
        \/ /\ k < Len(ServoStart) /\ Head(todo[current]) = ServoStart[k + 1]
           /\ todo[current] # <<>>
           /\ todo'[current] = RestOf(ServoStart, k + 1) /\ Effect
    BY <1>1, <1>3, PlaceGoes
  <2>2. CASE k = 7
    <3>1. todo'[current] \in Rounds(current) /\ UNCHANGED <<made, owner, held, depth>>
      BY <1>1, <2>1, <2>2
    <3>2. todo'[Servo] = RestOf(ServoRound, 0)
      <4>1. Rounds(Servo) = {ServoRound}
        BY Distinct DEF Rounds
      <4>2. RestOf(ServoRound, 0) = ServoRound
        BY RestOK, RoundsOK
      <4> QED  BY <3>1, <4>1, <4>2
    <3> QED  BY <2>2, <3>1, <3>2 DEF ServoCode, ServoBoot, ServoAt, Owns
  <2>3. CASE k < 7
    <3>1. todo'[current] = RestOf(ServoStart, k + 1) /\ Effect
      BY <1>1, <2>1, <2>3
    <3>2. /\ k = 0 => Call("create") /\ Arg = Servo_Lock
          /\ k = 1 => Call("create") /\ Arg = Servo_Lock_Upper
          /\ k = 2 => Call("spawn") /\ Arg = Ros
          /\ k = 3 => Call("delay")
          /\ k = 4 => Call("take") /\ Arg = Servo_Lock
          /\ k = 5 => Call("give") /\ Arg = Servo_Lock
          /\ k = 6 => Call("work")
      BY ServoBootCalls
    <3>3. CASE k = 0
      BY <2>3, <3>1, <3>2, <3>3, OneCall, Distinct
         DEF Effect, ServoCode, ServoBoot, Owns, Locks, Types
    <3>4. CASE k = 1
      BY <2>3, <3>1, <3>2, <3>4, OneCall, Distinct
         DEF Effect, ServoCode, ServoBoot, Owns, Locks, Types
    <3>5. CASE k \in {2, 3, 6}
      BY <2>3, <3>1, <3>2, <3>5, OneCall, Distinct
         DEF Effect, ServoCode, ServoBoot, Owns, Locks, Types
    <3>6. CASE k = 4
      BY <2>3, <3>1, <3>2, <3>6, OneCall, Distinct
         DEF Effect, ServoCode, ServoBoot, Owns, Locks, Types
    <3>7. CASE k = 5
      BY <2>3, <3>1, <3>2, <3>7, OneCall, Distinct
         DEF Effect, ServoCode, ServoBoot, Owns, Locks, Types
    <3> QED  BY <2>3, <3>3, <3>4, <3>5, <3>6, <3>7
  <2> QED  BY <1>1, <2>2, <2>3
<1> QED  BY <1>2, <1>3

LEMMA ServoCalls ==
  ASSUME current = Servo, NEW k \in 0..4, ServoAt(k)
  PROVE  /\ k = 4 => todo[current] = <<>>
         /\ k < 4 => todo[current] # <<>>
         /\ k = 0 => Call("take") /\ Arg = Servo_Lock
         /\ k = 1 => Call("work")
         /\ k = 2 => Call("give") /\ Arg = Servo_Lock
         /\ k = 3 => Call("until")
<1>1. /\ ServoRound \in Seq(Calls) /\ Len(ServoRound) = 4 /\ k \in 0..Len(ServoRound)
      /\ todo[current] = RestOf(ServoRound, k)
  BY RoundsOK DEF ServoAt
<1>2. ASSUME k < 4 PROVE todo[current] # <<>> /\ Head(todo[current]) = ServoRound[k + 1]
  <2>1. k < Len(ServoRound)
    BY <1>1, <1>2
  <2> QED  BY <1>1, <2>1, CallOK
<1>3. k = 4 => todo[current] = <<>>
  BY <1>1, CallOK
<1>4. /\ k = 0 => Call("take") /\ Arg = Servo_Lock
      /\ k = 1 => Call("work")
      /\ k = 2 => Call("give") /\ Arg = Servo_Lock
      /\ k = 3 => Call("until")
  BY <1>2, Distinct DEF Call, Arg, ServoRound, Take, Give, Work, DelayUntil
<1> QED  BY <1>2, <1>3, <1>4

LEMMA ServoGoes ==
  ASSUME Types, current = Servo, NEW k \in 0..4, ServoAt(k), Goes
  PROVE  ServoCode'
<1>1. /\ ServoRound \in Seq(Calls) /\ Len(ServoRound) = 4 /\ k \in 0..Len(ServoRound)
      /\ todo[current] = RestOf(ServoRound, k)
  BY RoundsOK DEF ServoAt
<1>2. CASE Stays
  <2>1. ServoAt(k)'
    BY <1>2 DEF ServoAt, Owns, Stays
  <2> QED  BY <1>2, <2>1 DEF ServoCode, Stays
<1>3. CASE ~Stays
  <2>1. \/ /\ k = Len(ServoRound) /\ todo'[current] \in Rounds(current)
           /\ UNCHANGED <<made, owner, held, depth>>
        \/ /\ k < Len(ServoRound) /\ Head(todo[current]) = ServoRound[k + 1]
           /\ todo[current] # <<>>
           /\ todo'[current] = RestOf(ServoRound, k + 1) /\ Effect
    BY <1>1, <1>3, PlaceGoes
  <2>2. CASE k = 4
    <3>1. todo'[current] \in Rounds(current) /\ UNCHANGED <<made, owner, held, depth>>
      BY <1>1, <2>1, <2>2
    <3>2. todo'[Servo] = RestOf(ServoRound, 0)
      <4>1. Rounds(Servo) = {ServoRound}
        BY Distinct DEF Rounds
      <4>2. RestOf(ServoRound, 0) = ServoRound
        BY RestOK, RoundsOK
      <4> QED  BY <3>1, <4>1, <4>2
    <3> QED  BY <2>2, <3>1, <3>2 DEF ServoCode, ServoAt, Owns
  <2>3. CASE k < 4
    <3>1. todo'[current] = RestOf(ServoRound, k + 1) /\ Effect
      BY <1>1, <2>1, <2>3
    <3>2. /\ k = 0 => Call("take") /\ Arg = Servo_Lock
          /\ k = 1 => Call("work")
          /\ k = 2 => Call("give") /\ Arg = Servo_Lock
          /\ k = 3 => Call("until")
      BY ServoCalls
    <3>3. CASE k = 0
      BY <2>3, <3>1, <3>2, <3>3, OneCall, Distinct
         DEF Effect, ServoCode, ServoAt, Owns, Locks, Types
    <3>4. CASE k \in {1, 3}
      BY <2>3, <3>1, <3>2, <3>4, OneCall, Distinct
         DEF Effect, ServoCode, ServoAt, Owns, Locks, Types
    <3>5. CASE k = 2
      BY <2>3, <3>1, <3>2, <3>5, OneCall, Distinct
         DEF Effect, ServoCode, ServoAt, Owns, Locks, Types
    <3> QED  BY <2>3, <3>3, <3>4, <3>5
  <2> QED  BY <1>1, <2>2, <2>3
<1> QED  BY <1>2, <1>3

-------------------------------------------------------------------------------
\* What the rounds are like, for the next call of the running task.
Manners ==
  /\ Call("take") \/ Call("give") =>
       \/ current = Control /\ Arg = Control_Lock /\ Control_Lock \in made
       \/ current = Servo /\ Arg = Servo_Lock /\ Servo_Lock \in made
       \/ current = Ros /\ Arg \in Locks
  /\ Call("give") => owner[Arg] = current
  /\ Call("delay") \/ Call("until") => \A l \in Locks : owner[l] # current
  /\ owner[Control_Lock] = current => Call("give") /\ Arg = Control_Lock /\ held[current] = 1
  /\ Call("spawn") => \/ current = Control /\ Arg = Servo /\ Control_Lock \in made
                      \/ /\ current = Servo /\ Arg = Ros
                         /\ {Servo_Lock, Servo_Lock_Upper} \subseteq made
                      \/ current = Ros /\ Arg = LED

LEMMA CodesHaveManners ==
  ASSUME Types, Codes, current # None
  PROVE  Manners
<1>0. current \in Tasks
  BY DEF Types
<1>1. CASE current = Control
  <2>1. ASSUME NEW k \in 0..2, ControlBoot(k) PROVE Manners
    BY <1>1, <2>1, ControlBootCalls, OneCall, Distinct DEF ControlBoot, Owns, Manners, Call
  <2>2. ASSUME NEW k \in 0..3, ControlAt(k) PROVE Manners
    BY <1>1, <2>2, ControlCalls, OneCall, Distinct DEF ControlAt, Owns, Manners, Call
  <2> QED  BY <2>1, <2>2 DEF Codes, ControlCode
<1>2. CASE current = Servo
  <2>1. ASSUME NEW k \in 0..7, ServoBoot(k) PROVE Manners
    BY <1>2, <2>1, ServoBootCalls, OneCall, Distinct DEF ServoBoot, Owns, Manners, Call
  <2>2. ASSUME NEW k \in 0..4, ServoAt(k) PROVE Manners
    BY <1>2, <2>2, ServoCalls, OneCall, Distinct DEF ServoAt, Owns, Manners, Call
  <2> QED  BY <2>1, <2>2 DEF Codes, ServoCode
<1>3. CASE current = Ros
  <2>1. ASSUME NEW k \in 0..1, IdleAt(Ros, k) PROVE Manners
    BY <1>3, <2>1, RosNapCalls, OneCall, Distinct DEF IdleAt, Owns, Manners, Call
  <2>2. ASSUME NEW k \in 0..5, WheelsAt(k) PROVE Manners
    BY <1>3, <2>2, WheelsCall, OneCall, Distinct DEF WheelsAt, Owns, Manners, Call
  <2>3. ASSUME NEW k \in 0..10, PoseAt(k) PROVE Manners
    BY <1>3, <2>3, PoseCalls, OneCall, Distinct DEF PoseAt, Owns, Manners, Call
  <2>4. ASSUME NEW k \in 0..2, HelloAt(k) PROVE Manners
    BY <1>3, <2>4, HelloCalls, OneCall, Distinct DEF HelloAt, Owns, Manners, Call
  <2> QED  BY <2>1, <2>2, <2>3, <2>4 DEF Codes, RosCode
<1>4. CASE current \in {Default, LED}
  <2>1. ASSUME NEW k \in 0..1, IdleAt(current, k) PROVE Manners
    BY <1>4, <2>1, IdleCalls, OneCall, Distinct DEF IdleAt, Owns, Manners, Call
  <2> QED  BY <1>4, <2>1 DEF Codes, IdleCode
<1> QED  BY <1>0, <1>1, <1>2, <1>3, <1>4 DEF Tasks

\* Who can have which lock.
LEMMA Owners ==
  ASSUME Types, Codes
  PROVE  /\ owner[Control_Lock] \in {None, Control, Ros}
         /\ owner[Servo_Lock] \in {None, Servo, Ros}
         /\ owner[Servo_Lock_Upper] \in {None, Ros}
         /\ \A t \in Tasks : held[t] \in 0..2
<1>1. \A l \in Locks : owner[l] \in {Control, Servo, Ros, Default, LED, None}
  BY DEF Types, Tasks
<1>2. held[Control] \in 0..2 /\ \A l \in Locks : owner[l] = Control => l = Control_Lock
  BY Distinct DEF Codes, ControlCode, ControlBoot, ControlAt, Owns
<1>3. held[Servo] \in 0..2 /\ \A l \in Locks : owner[l] = Servo => l = Servo_Lock
  BY Distinct DEF Codes, ServoCode, ServoBoot, ServoAt, Owns
<1>4. /\ held[Default] \in 0..2 /\ held[LED] \in 0..2
      /\ \A l \in Locks : owner[l] \notin {Default, LED}
  BY Distinct DEF Codes, IdleCode, IdleAt, Owns
<1>5. held[Ros] \in 0..2
  BY Distinct DEF Codes, RosCode, IdleAt, WheelsAt, PoseAt, HelloAt, Owns
<1> QED  BY <1>1, <1>2, <1>3, <1>4, <1>5, Distinct DEF Tasks

\* The running task does not touch the locks of the others.
LEMMA OthersKeep ==
  ASSUME Types, Manners, current \in Tasks, Goes
  PROVE  /\ made \subseteq made'
         /\ owner' \in [Locks -> Tasks \cup {None}] /\ held' \in [Tasks -> Int] /\ depth' \in Int
         /\ \A t \in Tasks : t # current => /\ held'[t] = held[t]
                                            /\ \A l \in Locks : owner'[l] = t <=> owner[l] = t
         /\ current # Ros => depth' = depth
<1>1. CASE Stays
  BY <1>1 DEF Types, Stays
<1>2. CASE UNCHANGED <<made, owner, held, depth>>
  BY <1>2 DEF Types
<1>3. CASE Effect
  <2>1. Call("take") \/ Call("give") => Arg \in Locks /\ (current # Ros => Arg # Servo_Lock_Upper)
    BY Distinct DEF Manners
  <2>2. current # None
    BY Distinct
  <2>3. CASE UNCHANGED <<owner, held, depth>> /\ made \subseteq made'
    BY <2>3 DEF Types
  <2>4. CASE /\ Call("take") /\ owner[Arg] = None /\ owner' = [owner EXCEPT ![Arg] = current]
             /\ held' = [held EXCEPT ![current] = @ + 1]
             /\ depth' = IF Arg = Servo_Lock_Upper THEN depth + 1 ELSE depth
             /\ UNCHANGED made
    BY <2>1, <2>2, <2>4, Distinct DEF Types
  <2>5. CASE /\ (Call("take") \/ Call("give")) /\ Arg = Servo_Lock_Upper
             /\ depth' \in {depth + 1, depth - 1} /\ UNCHANGED <<made, owner, held>>
    BY <2>1, <2>5 DEF Types
  <2>6. CASE /\ Call("give") /\ owner' = [owner EXCEPT ![Arg] = None]
             /\ held' = [held EXCEPT ![current] = @ - 1]
             /\ depth' = IF Arg = Servo_Lock_Upper THEN 0 ELSE depth
             /\ UNCHANGED made
    <3>1. owner[Arg] = current
      BY <2>6 DEF Manners
    <3> QED  BY <2>1, <2>2, <2>6, <3>1, Distinct DEF Types
  <2> QED  BY <1>3, <2>3, <2>4, <2>5, <2>6 DEF Effect
<1> QED  BY <1>1, <1>2, <1>3 DEF Goes

LEMMA CodeKept ==
  ASSUME made \subseteq made', Codes
  PROVE  /\ /\ todo'[Control] = todo[Control] /\ held'[Control] = held[Control]
            /\ \A l \in Locks : owner'[l] = Control <=> owner[l] = Control
            => ControlCode'
         /\ /\ todo'[Servo] = todo[Servo] /\ held'[Servo] = held[Servo]
            /\ \A l \in Locks : owner'[l] = Servo <=> owner[l] = Servo
            => ServoCode'
         /\ \A t \in {Default, LED} :
              /\ todo'[t] = todo[t] /\ held'[t] = held[t]
              /\ \A l \in Locks : owner'[l] = t <=> owner[l] = t
              => IdleCode(t)'
         /\ /\ todo'[Ros] = todo[Ros] /\ held'[Ros] = held[Ros] /\ depth' = depth
            /\ \A l \in Locks : owner'[l] = Ros <=> owner[l] = Ros
            => RosCode'
<1>1. ASSUME /\ todo'[Control] = todo[Control] /\ held'[Control] = held[Control]
             /\ \A l \in Locks : owner'[l] = Control <=> owner[l] = Control
      PROVE  ControlCode'
  <2>1. \A S, n : Owns(Control, S, n) => Owns(Control, S, n)'
    BY <1>1 DEF Owns
  <2>2. CASE \E k \in 0..2 : ControlBoot(k)
    BY <1>1, <2>1, <2>2 DEF ControlCode, ControlBoot
  <2>3. CASE \E k \in 0..3 : ControlAt(k)
    BY <1>1, <2>1, <2>3 DEF ControlCode, ControlAt
  <2> QED  BY <2>2, <2>3 DEF Codes, ControlCode
<1>2. ASSUME /\ todo'[Servo] = todo[Servo] /\ held'[Servo] = held[Servo]
             /\ \A l \in Locks : owner'[l] = Servo <=> owner[l] = Servo
      PROVE  ServoCode'
  <2>1. \A S, n : Owns(Servo, S, n) => Owns(Servo, S, n)'
    BY <1>2 DEF Owns
  <2>2. CASE \E k \in 0..7 : ServoBoot(k)
    BY <1>2, <2>1, <2>2 DEF ServoCode, ServoBoot
  <2>3. CASE \E k \in 0..4 : ServoAt(k)
    BY <1>2, <2>1, <2>3 DEF ServoCode, ServoAt
  <2> QED  BY <2>2, <2>3 DEF Codes, ServoCode
<1>3. ASSUME NEW t \in {Default, LED},
             /\ todo'[t] = todo[t] /\ held'[t] = held[t]
             /\ \A l \in Locks : owner'[l] = t <=> owner[l] = t
      PROVE  IdleCode(t)'
  BY <1>3 DEF Codes, IdleCode, IdleAt, Owns
<1>4. ASSUME /\ todo'[Ros] = todo[Ros] /\ held'[Ros] = held[Ros] /\ depth' = depth
             /\ \A l \in Locks : owner'[l] = Ros <=> owner[l] = Ros
      PROVE  RosCode'
  <2>1. \A S, n : Owns(Ros, S, n) => Owns(Ros, S, n)'
    BY <1>4 DEF Owns
  <2>2. CASE \E k \in 0..1 : IdleAt(Ros, k) /\ depth = 0
    BY <1>4, <2>1, <2>2 DEF RosCode, IdleAt
  <2>3. CASE \E k \in 0..5 : WheelsAt(k)
    BY <1>4, <2>1, <2>3 DEF RosCode, WheelsAt
  <2>4. CASE \E k \in 0..10 : PoseAt(k)
    BY <1>4, <2>1, <2>4 DEF RosCode, PoseAt
  <2>5. CASE \E k \in 0..2 : HelloAt(k)
    BY <1>4, <2>1, <2>5 DEF RosCode, HelloAt
  <2> QED  BY <2>2, <2>3, <2>4, <2>5 DEF Codes, RosCode
<1> QED  BY <1>1, <1>2, <1>3, <1>4

\* Every task stays in its rounds, whoever runs.
LEMMA RunKeepsCodes ==
  ASSUME Types, Codes, Run
  PROVE  /\ Codes' /\ made \subseteq made'
         /\ owner' \in [Locks -> Tasks \cup {None}] /\ held' \in [Tasks -> Int] /\ depth' \in Int
<1>1. /\ current \in Tasks /\ current # None /\ Goes
      /\ \A t \in Tasks : t # current => todo'[t] = todo[t]
  BY RunGoes
<1>2. Manners
  BY <1>1, CodesHaveManners
<1>3. /\ made \subseteq made'
      /\ owner' \in [Locks -> Tasks \cup {None}] /\ held' \in [Tasks -> Int] /\ depth' \in Int
      /\ \A t \in Tasks : t # current => /\ held'[t] = held[t]
                                         /\ \A l \in Locks : owner'[l] = t <=> owner[l] = t
      /\ current # Ros => depth' = depth
  BY <1>1, <1>2, OthersKeep
<1>4. ControlCode'
  <2>1. CASE current = Control
    BY <1>1, <2>1, ControlBootGoes, ControlGoes DEF Codes, ControlCode
  <2>2. CASE current # Control
    BY <1>1, <1>3, <2>2, CodeKept, Distinct
  <2> QED  BY <2>1, <2>2
<1>5. ServoCode'
  <2>1. CASE current = Servo
    BY <1>1, <2>1, ServoBootGoes, ServoGoes DEF Codes, ServoCode
  <2>2. CASE current # Servo
    BY <1>1, <1>3, <2>2, CodeKept, Distinct
  <2> QED  BY <2>1, <2>2
<1>6. RosCode'
  <2>1. CASE current = Ros
    BY <1>1, <2>1, RosNapGoes, WheelsGo, PoseGoes, HelloGoes DEF Codes, RosCode
  <2>2. CASE current # Ros
    BY <1>1, <1>3, <2>2, CodeKept, Distinct
  <2> QED  BY <2>1, <2>2
<1>7. ASSUME NEW t \in {Default, LED} PROVE IdleCode(t)'
  <2>1. CASE current = t
    BY <1>1, <2>1, IdleGoes DEF Codes, IdleCode
  <2>2. CASE current # t
    BY <1>1, <1>3, <2>2, CodeKept, Distinct
  <2> QED  BY <2>1, <2>2
<1> QED  BY <1>3, <1>4, <1>5, <1>6, <1>7 DEF Codes

-------------------------------------------------------------------------------
(* Who is ready and who runs.                                                *)

\* Nobody is raised but the ROS task, and that only while the control task waits for it.
LEMMA Ranks ==
  ASSUME Types, Codes, InLists, Ahead, RaisedForControl
  PROVE  /\ prio[Control] = 3
         /\ waiting[Control] = None => \A t \in Tasks : prio[t] = BasePriority(t)
         /\ waiting[Control] # None =>
              /\ current = Ros /\ owner[Control_Lock] = Ros /\ prio[Ros] = 3 /\ held[Ros] = 1
              /\ Call("give") /\ Arg = Control_Lock /\ waiting[Control] = Control_Lock
              /\ prio[Servo] = 2 /\ prio[Default] = 2 /\ prio[LED] = 1
<1>0. Control_Lock # None
  BY NamesAssumption
<1>1. owner[Control_Lock] = Control => waiting[Control] = None
  BY Distinct DEF Ahead, InLists
<1>2. prio[Control] = 3
  BY <1>0, <1>1, Distinct, Bases DEF RaisedForControl
<1>3. waiting[Control] = None => \A t \in Tasks : prio[t] = BasePriority(t)
  BY <1>0 DEF RaisedForControl
<1>4. ASSUME waiting[Control] # None
      PROVE  /\ current = Ros /\ owner[Control_Lock] = Ros /\ prio[Ros] = 3 /\ held[Ros] = 1
             /\ Call("give") /\ Arg = Control_Lock /\ waiting[Control] = Control_Lock
             /\ prio[Servo] = 2 /\ prio[Default] = 2 /\ prio[LED] = 1
  <2>1. /\ waiting[Control] = Control_Lock /\ current = owner[Control_Lock] /\ current # None
        /\ prio[current] = 3
    BY <1>4 DEF Ahead
  <2>2. current = Ros
    BY <1>1, <1>4, <2>1, Owners
  <2>3. Manners
    BY <2>1, CodesHaveManners
  <2>4. Call("give") /\ Arg = Control_Lock /\ held[Ros] = 1
    BY <2>1, <2>2, <2>3 DEF Manners
  <2>5. prio[Servo] = 2 /\ prio[Default] = 2 /\ prio[LED] = 1
    BY <2>1, <2>2, Distinct, Bases DEF RaisedForControl
  <2> QED  BY <2>1, <2>2, <2>4, <2>5
<1> QED  BY <1>2, <1>3, <1>4

\* What makes the lists and the running task right when nobody is raised.
Order(A) ==
  /\ A \subseteq Tasks
  /\ \A t \in A : t \notin asleep' /\ waiting'[t] = None
  /\ \A t \in asleep' : waiting'[t] = None
  /\ prio' \in [Tasks -> 1..3] /\ \A t \in Tasks : prio'[t] = BasePriority(t)
  /\ waiting'[Control] = None
  /\ \A t \in Tasks : owner'[Control_Lock] = t => t \in A

LEMMA Settles ==
  ASSUME NEW A, Order(A), NEW lists, Sorted(lists, prio', A), vTaskSwitchContext(lists)
  PROVE  /\ InLists' /\ Ahead' /\ RaisedForControl' /\ Ready' = A
         /\ current' \in Tasks \cup {None}
<1>1. prio' \in [Tasks -> 1..3] /\ A \in SUBSET Tasks
  BY DEF Order
<1>2. /\ Sorted(ready', prio', A)
      /\ A = {} => current' = None
      /\ A # {} => current' \in A /\ \A t \in A : prio'[t] <= prio'[current']
  BY <1>1, SwitchOK
<1>3. Ready' = A
  BY <1>1, <1>2, SortedIsReady
<1>4. InLists'
  BY <1>2, <1>3 DEF InLists, Order
<1>5. current' # None => current' \in A
  BY <1>2
<1>6. ASSUME Control \in A PROVE current' = Control
  <2>1. current' \in A /\ prio'[Control] <= prio'[current']
    BY <1>2, <1>6
  <2>2. prio'[Control] = 3 /\ prio'[current'] = BasePriority(current') /\ current' \in Tasks
    BY <1>1, <2>1, Distinct, Bases DEF Order
  <2> QED  BY <2>1, <2>2, Bases
<1>7. Ahead'
  BY <1>3, <1>5, <1>6 DEF Ahead, Order
<1>8. RaisedForControl'
  BY DEF RaisedForControl, Order
<1> QED  BY <1>1, <1>2, <1>3, <1>4, <1>7, <1>8

LEMMA Continues ==
  ASSUME NEW A, Order(A), Sorted(ready', prio', A), current' = current,
         current \in Tasks \cup {None},
         current # None => current \in A,
         Control \in A => current = Control
  PROVE  /\ InLists' /\ Ahead' /\ RaisedForControl' /\ Ready' = A
         /\ current' \in Tasks \cup {None}
<1>1. prio' \in [Tasks -> 1..3] /\ A \in SUBSET Tasks
  BY DEF Order
<1>2. Ready' = A
  BY <1>1, SortedIsReady
<1>3. InLists'
  BY <1>2 DEF InLists, Order
<1>4. Ahead'
  BY <1>2 DEF Ahead, Order
<1>5. RaisedForControl'
  BY DEF RaisedForControl, Order
<1> QED  BY <1>1, <1>2, <1>3, <1>4, <1>5
-------------------------------------------------------------------------------
(* The tasks start one after the other.                                      *)

LEMMA RestEnds ==
  ASSUME NEW S, NEW r \in Seq(S), NEW n \in Nat, Len(r) = n
  PROVE  RestOf(r, n) = <<>>
<1>1. n \in 0..Len(r) /\ n = Len(r)
  OBVIOUS
<1> QED  BY <1>1, RestOK

LEMMA StartsEnd ==
  ASSUME Codes, todo[current] # <<>>, todo'[current] = Tail(todo[current]),
         NEW t \in {Control, Servo}, current = t, Starting(t)'
  PROVE  Starting(t) /\ ~Call("spawn")
<1>1. CASE t = Control
  <2>1. ASSUME NEW k \in 0..2, ControlBoot(k) PROVE Starting(t) /\ ~Call("spawn")
    <3>1. CASE k = 0
      BY <1>1, <2>1, <3>1, ControlBootCalls, OneCall DEF Call, Starting
    <3>2. CASE k = 1
      <4>1. k \in 0..Len(ControlStart) /\ ControlStart \in Seq(Calls) /\ k < Len(ControlStart)
            /\ todo[current] = RestOf(ControlStart, k)
        BY <1>1, <2>1, <3>2, RoundsOK DEF ControlBoot
      <4>2. todo'[current] = RestOf(ControlStart, k + 1)
        BY <4>1, CallOK
      <4>3. RestOf(ControlStart, 2) = <<>>
        BY RoundsOK, RestEnds
      <4> QED  BY <3>2, <4>2, <4>3 DEF Starting
    <3>3. CASE k = 2
      BY <1>1, <2>1, <3>3, ControlBootCalls
    <3> QED  BY <3>1, <3>2, <3>3
  <2>2. ASSUME NEW k \in 0..3, ControlAt(k) PROVE FALSE
    <3>1. k \in 0..Len(ControlRound) /\ ControlRound \in Seq(Calls) /\ Len(ControlRound) = 3
          /\ todo[current] = RestOf(ControlRound, k)
      BY <1>1, <2>2, RoundsOK DEF ControlAt
    <3>2. k < 3
      BY <1>1, <2>2, ControlCalls
    <3>3. todo'[current] = RestOf(ControlRound, k + 1)
      BY <3>1, <3>2, CallOK
    <3>4. CASE k = 2
      <4>1. RestOf(ControlRound, 3) = <<>>
        BY RoundsOK, RestEnds
      <4> QED  BY <3>3, <3>4, <4>1 DEF Starting
    <3>5. CASE k < 2
      <4>1. k + 1 \in 0..Len(ControlRound) /\ k + 1 < Len(ControlRound)
        BY <3>1, <3>5
      <4>2. Head(todo'[current]) = ControlRound[k + 1 + 1]
        BY <3>1, <3>3, <4>1, RestOK
      <4>3. ControlRound[k + 1 + 1][1] \in {"give", "delay"}
        BY <3>5 DEF ControlRound, Give, Delay
      <4> QED  BY <4>2, <4>3 DEF Starting
    <3> QED  BY <3>2, <3>4, <3>5
  <2> QED  BY <2>1, <2>2 DEF Codes, ControlCode
<1>2. CASE t = Servo
  <2>1. ASSUME NEW k \in 0..7, ServoBoot(k) PROVE Starting(t) /\ ~Call("spawn")
    <3>1. CASE k \in {0, 1}
      BY <1>2, <2>1, <3>1, ServoBootCalls, OneCall DEF Call, Starting
    <3>2. CASE k > 1
      <4>1. k < 7
        BY <1>2, <2>1, ServoBootCalls
      <4>2. k \in 0..Len(ServoStart) /\ ServoStart \in Seq(Calls) /\ Len(ServoStart) = 7
            /\ todo[current] = RestOf(ServoStart, k)
        BY <1>2, <2>1, RoundsOK DEF ServoBoot
      <4>3. todo'[current] = RestOf(ServoStart, k + 1)
        BY <4>1, <4>2, CallOK
      <4>4. CASE k = 6
        <5>1. RestOf(ServoStart, 7) = <<>>
          BY RoundsOK, RestEnds
        <5> QED  BY <4>3, <4>4, <5>1 DEF Starting
      <4>5. CASE k < 6
        <5>1. k + 1 \in 0..Len(ServoStart) /\ k + 1 < Len(ServoStart)
          BY <4>2, <4>5
        <5>2. Head(todo'[current]) = ServoStart[k + 1 + 1]
          BY <4>2, <4>3, <5>1, RestOK
        <5>3. ServoStart[k + 1 + 1][1] \in {"delay", "take", "give", "work"}
          BY <3>2, <4>5 DEF ServoStart, Give, Delay, Take, Work
        <5> QED  BY <5>2, <5>3 DEF Starting
      <4> QED  BY <4>1, <4>4, <4>5
    <3> QED  BY <3>1, <3>2
  <2>2. ASSUME NEW k \in 0..4, ServoAt(k) PROVE FALSE
    <3>1. k \in 0..Len(ServoRound) /\ ServoRound \in Seq(Calls) /\ Len(ServoRound) = 4
          /\ todo[current] = RestOf(ServoRound, k)
      BY <1>2, <2>2, RoundsOK DEF ServoAt
    <3>2. k < 4
      BY <1>2, <2>2, ServoCalls
    <3>3. todo'[current] = RestOf(ServoRound, k + 1)
      BY <3>1, <3>2, CallOK
    <3>4. CASE k = 3
      <4>1. RestOf(ServoRound, 4) = <<>>
        BY RoundsOK, RestEnds
      <4> QED  BY <3>3, <3>4, <4>1 DEF Starting
    <3>5. CASE k < 3
      <4>1. k + 1 \in 0..Len(ServoRound) /\ k + 1 < Len(ServoRound)
        BY <3>1, <3>5
      <4>2. Head(todo'[current]) = ServoRound[k + 1 + 1]
        BY <3>1, <3>3, <4>1, RestOK
      <4>3. ServoRound[k + 1 + 1][1] \in {"work", "give", "until"}
        BY <3>5 DEF ServoRound, Give, Work, DelayUntil
      <4> QED  BY <4>2, <4>3 DEF Starting
    <3> QED  BY <3>2, <3>4, <3>5
  <2> QED  BY <2>1, <2>2 DEF Codes, ServoCode
<1> QED  BY <1>1, <1>2

LEMMA StartingGoes ==
  ASSUME Types, Codes, Run, NEW t \in {Control, Servo}
  PROVE  /\ Starting(t)' => Starting(t)
         /\ osThreadNew /\ current = t => ~Starting(t)'
<1>1. /\ current \in Tasks /\ Goes /\ t \in Tasks
      /\ \A u \in Tasks : u # current => todo'[u] = todo[u]
  BY RunGoes, Distinct
<1>2. ASSUME t # current, Starting(t)' PROVE Starting(t)
  <2>1. todo'[t] = todo[t]
    BY <1>1, <1>2
  <2> QED  BY <1>2, <2>1 DEF Starting
<1>3. ASSUME t = current, Starting(t)' PROVE Starting(t)
  <2>1. CASE Stays
    BY <1>3, <2>1 DEF Stays, Starting
  <2>2. CASE todo'[t] \in Rounds(t)
    <3>1. todo'[t] \in {ControlRound, ServoRound}
      BY <2>2, Distinct DEF Rounds
    <3>2. Head(ControlRound)[1] = "take" /\ Head(ServoRound)[1] = "take"
      BY DEF ControlRound, ServoRound, Take
    <3>3. Head(todo'[t])[1] = "take"
      BY <3>1, <3>2
    <3> QED  BY <1>3, <3>3 DEF Starting
  <2>3. CASE todo[t] # <<>> /\ todo'[t] = Tail(todo[t])
    BY <1>3, <2>3, StartsEnd
  <2> QED  BY <1>1, <1>3, <2>1, <2>2, <2>3 DEF Goes
<1>4. ASSUME osThreadNew, current = t, Starting(t)' PROVE FALSE
  <2>1. Call("spawn") /\ todo[current] # <<>> /\ todo'[current] = Tail(todo[current])
    BY <1>1, <1>4 DEF osThreadNew, Call, Done, Types
  <2> QED  BY <1>4, <2>1, StartsEnd
<1> QED  BY <1>2, <1>3, <1>4

\* The ROS task goes to start the LED task only when nobody has.
LEMMA RosStarts ==
  ASSUME IInv, Run
  PROVE  /\ Starting(Ros)' => Starting(Ros) \/ ~Started(LED)
         /\ osThreadNew /\ Starting(Ros)' => Starting(Ros) /\ current # Ros
<1>1. /\ current \in Tasks /\ Goes
      /\ \A u \in Tasks : u # current => todo'[u] = todo[u]
  BY RunGoes DEF IInv
<1>2. Types /\ Codes /\ InLists /\ Births
  BY DEF IInv
<1>3. ASSUME ~ros_ok PROVE ~Started(LED)
  <2>1. prio[LED] \in DOMAIN ready
    BY <1>2, Distinct DEF Types, InLists, Sorted
  <2>2. LED \notin Members(ready[prio[LED]])
    BY <1>3, <2>1 DEF ros_ok, Members
  <2>3. LED \notin asleep
    BY <1>3 DEF ros_ok
  <2> QED  BY <1>2, <2>2, <2>3 DEF Started, Ready, Births
<1>4. ASSUME current = Ros, todo[Ros] = <<>>, todo'[Ros] \in Rounds(Ros), Starting(Ros)'
      PROVE  ~Started(LED)
  <2>1. Rounds(Ros) = RosRounds
    BY Distinct DEF Rounds
  <2>2. \/ todo'[Ros] \in {Nap, RosWheels, RosPose}
        \/ ~ros_ok
    BY <1>4, <2>1 DEF RosRounds, Nap, RosWheels, RosPose
  <2>3. Head(Nap)[1] = "delay" /\ Head(RosWheels)[1] = "take" /\ Head(RosPose)[1] = "take"
    BY DEF Nap, RosWheels, RosPose, Take, Delay
  <2>4. todo'[Ros] \notin {Nap, RosWheels, RosPose}
    BY <1>4, <2>3 DEF Starting
  <2> QED  BY <1>3, <2>2, <2>4
<1>5. ASSUME current = Ros, todo[Ros] # <<>>, todo'[Ros] = Tail(todo[Ros]), Starting(Ros)'
      PROVE  FALSE
  <2>1. ASSUME NEW r \in Seq(Calls), NEW k \in 0..Len(r), todo[Ros] = RestOf(r, k),
               \A i \in 2..Len(r) : r[i][1] \notin {"create", "spawn"}
        PROVE  FALSE
    <3>1. k < Len(r) /\ todo'[Ros] = RestOf(r, k + 1)
      BY <1>5, <2>1, CallOK
    <3>2. CASE k + 1 = Len(r)
      <4>1. RestOf(r, Len(r)) = <<>>
        BY RestEnds
      <4> QED  BY <1>5, <3>1, <3>2, <4>1 DEF Starting
    <3>3. CASE k + 1 < Len(r)
      <4>1. k + 1 \in 0..Len(r) /\ k + 2 \in 2..Len(r) /\ k + 1 + 1 = k + 2
        BY <3>1, <3>3
      <4>2. Head(RestOf(r, k + 1)) = r[k + 2]
        BY <3>3, <4>1, RestOK
      <4> QED  BY <1>5, <2>1, <3>1, <4>1, <4>2 DEF Starting
    <3> QED  BY <3>1, <3>2, <3>3
  <2>2. CASE \E k \in 0..1 : IdleAt(Ros, k)
    <3>1. \A i \in 2..Len(Nap) : Nap[i][1] \notin {"create", "spawn"}
      BY RoundsOK
    <3> QED  BY <2>1, <2>2, <3>1, RoundsOK DEF IdleAt
  <2>3. CASE \E k \in 0..5 : WheelsAt(k)
    <3>1. \A i \in 2..Len(RosWheels) : RosWheels[i][1] \notin {"create", "spawn"}
      BY RoundsOK DEF RosWheels, Take, Give, Delay
    <3> QED  BY <2>1, <2>3, <3>1, RoundsOK DEF WheelsAt
  <2>4. CASE \E k \in 0..10 : PoseAt(k)
    <3>1. \A i \in 2..Len(RosPose) : RosPose[i][1] \notin {"create", "spawn"}
      BY RoundsOK DEF RosPose, Take, Give, Work, Delay
    <3> QED  BY <2>1, <2>4, <3>1, RoundsOK DEF PoseAt
  <2>5. CASE \E k \in 0..2 : HelloAt(k)
    <3>1. \A i \in 2..Len(RosHello) : RosHello[i][1] \notin {"create", "spawn"}
      BY RoundsOK DEF RosHello, Delay
    <3> QED  BY <2>1, <2>5, <3>1, RoundsOK DEF HelloAt
  <2> QED  BY <1>2, <2>2, <2>3, <2>4, <2>5 DEF Codes, RosCode
<1>6. ASSUME todo'[Ros] = todo[Ros], Starting(Ros)' PROVE Starting(Ros)
  BY <1>6 DEF Starting
<1>7. ASSUME Starting(Ros)' PROVE Starting(Ros) \/ ~Started(LED)
  BY <1>1, <1>4, <1>5, <1>6, <1>7, Distinct DEF Goes, Stays
<1>8. ASSUME osThreadNew, Starting(Ros)' PROVE Starting(Ros) /\ current # Ros
  <2>1. todo[current] # <<>> /\ todo'[current] = Tail(todo[current])
    BY <1>1, <1>2, <1>8 DEF osThreadNew, Call, Done, Types
  <2>2. current # Ros
    BY <1>5, <1>8, <2>1
  <2> QED  BY <1>1, <1>6, <1>8, <2>2, Distinct
<1> QED  BY <1>7, <1>8

LEMMA BirthsKept ==
  ASSUME Births, made \subseteq made', waiting'[LED] = None,
         Started(Servo)' => Started(Servo), Started(Ros)' => Started(Ros),
         Started(LED)' => Started(LED),
         Starting(Control)' => Starting(Control), Starting(Servo)' => Starting(Servo),
         Starting(Ros)' => Starting(Ros) \/ ~Started(LED)
  PROVE  Births'
BY DEF Births

-------------------------------------------------------------------------------
(* The steps.                                                                *)

\* Calls that neither wait nor wake.
StillRun == Loop \/ xSemaphoreCreateMutex \/ TakeFree \/ TakeAgain \/ GiveOnce \/ Late
            \/ Poll \/ PollEnds

LEMMA StillLeaves ==
  ASSUME StillRun
  PROVE  /\ UNCHANGED <<ready, current, prio, waiting, asleep>>
         /\ TakeFree \/ UNCHANGED owner
BY DEF StillRun, Loop, xSemaphoreCreateMutex, TakeFree, TakeAgain, GiveOnce, Late, Poll, PollEnds,
       Continue

LEMMA StillKeeps ==
  ASSUME IInv, StillRun
  PROVE  IInv'
<1>0. Types /\ Codes /\ InLists /\ Births /\ Ahead /\ RaisedForControl
  BY DEF IInv
<1>1. Run
  BY DEF StillRun, Run
<1>2. /\ UNCHANGED <<ready, current, prio, waiting, asleep>>
      /\ TakeFree \/ UNCHANGED owner
  BY StillLeaves
<1>3. /\ Codes' /\ made \subseteq made'
      /\ owner' \in [Locks -> Tasks \cup {None}] /\ held' \in [Tasks -> Int] /\ depth' \in Int
  BY <1>0, <1>1, RunKeepsCodes
<1>4. /\ current \in Tasks /\ current # None
      /\ todo' = [t \in Tasks |-> todo'[t]]
  BY <1>0, <1>1, RunGoes
<1>5. Types'
  BY <1>0, <1>2, <1>3, <1>4 DEF Types
<1>6. Ready' = Ready
  BY <1>2 DEF Ready
<1>7. InLists'
  BY <1>0, <1>2, <1>6 DEF InLists
<1>8. \A t : Started(t)' => Started(t)
  BY <1>2, <1>6 DEF Started
<1>9. Births'
  <2>1. Starting(Control)' => Starting(Control)
    BY <1>0, <1>1, StartingGoes
  <2>2. Starting(Servo)' => Starting(Servo)
    BY <1>0, <1>1, StartingGoes
  <2>3. Starting(Ros)' => Starting(Ros) \/ ~Started(LED)
    BY <1>1, RosStarts
  <2>4. waiting'[LED] = None
    BY <1>0, <1>2 DEF Births
  <2> QED  BY <1>0, <1>3, <1>8, <2>1, <2>2, <2>3, <2>4, BirthsKept
<1>10. /\ \A t \in Tasks : owner'[Control_Lock] = t => owner[Control_Lock] = t \/ t = current
       /\ waiting[Control] # None => owner'[Control_Lock] = owner[Control_Lock]
  <2>1. CASE UNCHANGED owner
    BY <2>1
  <2>2. CASE TakeFree
    <3>1. Call("take") /\ owner' = [owner EXCEPT ![Arg] = current]
      BY <2>2 DEF TakeFree
    <3>2. \A t \in Tasks : owner'[Control_Lock] = t => owner[Control_Lock] = t \/ t = current
      BY <1>0, <3>1, Distinct DEF Types
    <3>3. waiting[Control] # None => FALSE
      BY <1>0, <3>1, Ranks, OneCall
    <3> QED  BY <3>2, <3>3
  <2> QED  BY <1>2, <2>1, <2>2
<1>11. current \in Ready
  BY <1>0, <1>4 DEF Ahead
<1>12. Ahead'
  BY <1>0, <1>2, <1>6, <1>10, <1>11 DEF Ahead
<1>13. RaisedForControl'
  <2>1. CASE waiting[Control] = None
    BY <1>0, <1>2, <2>1, Ranks DEF RaisedForControl
  <2>2. CASE waiting[Control] # None
    BY <1>0, <1>2, <1>10, <2>2 DEF RaisedForControl
  <2> QED  BY <2>1, <2>2
<1> QED  BY <1>3, <1>5, <1>7, <1>9, <1>12, <1>13 DEF IInv

\* What is left to show of a call that waits or wakes.
LEMMA CallKeeps ==
  ASSUME IInv, Run, InLists', Ahead', RaisedForControl',
         current' \in Tasks \cup {None}, prio' \in [Tasks -> 1..3],
         waiting' \in [Tasks -> Locks \cup {None}], asleep' \subseteq Tasks,
         waiting'[LED] = None, Started(LED)' => Started(LED),
         Started(Servo)' => Started(Servo), Started(Ros)' => Started(Ros)
  PROVE  IInv'
<1>0. Types /\ Codes /\ Births
  BY DEF IInv
<1>1. /\ Codes' /\ made \subseteq made'
      /\ owner' \in [Locks -> Tasks \cup {None}] /\ held' \in [Tasks -> Int] /\ depth' \in Int
  BY <1>0, RunKeepsCodes
<1>2. todo' = [t \in Tasks |-> todo'[t]]
  BY <1>0, RunGoes
<1>3. Types'
  BY <1>1, <1>2 DEF Types
<1>4. Starting(Control)' => Starting(Control)
  BY <1>0, StartingGoes
<1>5. Starting(Servo)' => Starting(Servo)
  BY <1>0, StartingGoes
<1>6. Births'
  <2>1. Starting(Ros)' => Starting(Ros) \/ ~Started(LED)
    BY RosStarts
  <2> QED  BY <1>0, <1>1, <1>4, <1>5, <2>1, BirthsKept
<1> QED  BY <1>1, <1>3, <1>6 DEF IInv

\* osThreadNew starts a task below the control task.
LEMMA osThreadNewKeeps ==
  ASSUME IInv, osThreadNew
  PROVE  IInv'
<1>0. Types /\ Codes /\ InLists /\ Births /\ Ahead /\ RaisedForControl /\ Run
  BY DEF IInv, Run
<1> DEFINE lists == [ready EXCEPT ![prio[Arg]] = Insert(@, Arg)]
<1>1. /\ Call("spawn") /\ current # None
      /\ Continue(lists, prio[Arg] > prio[current])
      /\ UNCHANGED <<prio, waiting, asleep, made, owner>>
  BY DEF osThreadNew, Call
<1>2. current \in Tasks /\ current \in Ready
  BY <1>0, <1>1 DEF Types, Ahead
<1>3. Manners
  BY <1>0, <1>1, CodesHaveManners
<1>4. \/ current = Control /\ Arg = Servo /\ Control_Lock \in made
      \/ current = Servo /\ Arg = Ros /\ {Servo_Lock, Servo_Lock_Upper} \subseteq made
      \/ current = Ros /\ Arg = LED
  BY <1>1, <1>3 DEF Manners
<1>5. waiting[Control] = None /\ \A t \in Tasks : prio[t] = BasePriority(t)
  BY <1>0, <1>1, Ranks, OneCall
<1>6. Starting(current)
  BY <1>1 DEF Starting, Call
<1>7. Arg \in Tasks /\ ~Started(Arg) /\ Arg # Control
  BY <1>0, <1>4, <1>6, Distinct DEF Births
<1>8. Arg \notin Ready /\ Arg \notin asleep /\ waiting[Arg] = None
  BY <1>7 DEF Started
<1>9. Sorted(lists, prio, Ready \cup {Arg})
  <2>1. Sorted(ready, prio, Ready) /\ prio \in [Tasks -> 1..3] /\ Ready \in SUBSET Tasks
    BY <1>0 DEF InLists, Types, Ready
  <2> QED  BY <1>7, <1>8, <2>1, InsertSorted
<1>10. ~(prio[Arg] > prio[current])
  <2>1. prio[Arg] = BasePriority(Arg) /\ prio[current] = BasePriority(current)
    BY <1>2, <1>5, <1>7
  <2> QED  BY <1>4, <2>1, Bases
<1>11. ready' = lists /\ current' = current
  BY <1>1, <1>10 DEF Continue
<1> HIDE DEF lists
<1>12. Order(Ready \cup {Arg})
  BY <1>0, <1>1, <1>5, <1>7, <1>8 DEF Order, InLists, Types, Ready, Ahead
<1>13. Sorted(ready', prio', Ready \cup {Arg})
  BY <1>1, <1>9, <1>11
<1>14. Control \in Ready \cup {Arg} => current = Control
  BY <1>0, <1>7 DEF Ahead
<1>15. /\ InLists' /\ Ahead' /\ RaisedForControl' /\ Ready' = Ready \cup {Arg}
       /\ current' \in Tasks \cup {None}
  BY <1>2, <1>11, <1>12, <1>13, <1>14, Continues
<1>16. Types' /\ Codes'
  <2>1. /\ Codes' /\ made \subseteq made'
        /\ owner' \in [Locks -> Tasks \cup {None}] /\ held' \in [Tasks -> Int] /\ depth' \in Int
    BY <1>0, RunKeepsCodes
  <2>2. todo' = [t \in Tasks |-> todo'[t]]
    BY <1>0, RunGoes
  <2> QED  BY <1>0, <1>1, <1>15, <2>1, <2>2 DEF Types
<1>17. Births'
  <2>1. /\ Starting(Control)' => Starting(Control)
        /\ current = Control => ~Starting(Control)'
    BY <1>0, StartingGoes
  <2>2. /\ Starting(Servo)' => Starting(Servo)
        /\ current = Servo => ~Starting(Servo)'
    BY <1>0, StartingGoes
  <2>3. \A t : Started(t)' <=> Started(t) \/ t = Arg
    BY <1>1, <1>15 DEF Started
  <2>4. current = Servo => Started(Servo)
    BY <1>2 DEF Started
  <2>5. Started(Servo)' => Control_Lock \in made'
    BY <1>0, <1>1, <1>4, <2>3, Distinct DEF Births
  <2>6. Started(Ros)' => Locks \subseteq made'
    BY <1>0, <1>1, <1>4, <2>3, <2>4, Distinct DEF Births, Locks
  <2>7. Starting(Control)' => ~Started(Servo)'
    BY <1>0, <1>4, <2>1, <2>3, Distinct DEF Births
  <2>8. Starting(Servo)' => ~Started(Ros)'
    BY <1>0, <1>4, <2>2, <2>3, Distinct DEF Births
  <2>9. Starting(Ros)' => Starting(Ros) /\ current # Ros
    BY <1>0, RosStarts
  <2>10. Starting(Ros)' => ~Started(LED)'
    BY <1>0, <1>4, <2>3, <2>9, Distinct DEF Births
  <2>11. waiting'[LED] = None
    BY <1>0, <1>1 DEF Births
  <2> QED  BY <2>5, <2>6, <2>7, <2>8, <2>10, <2>11 DEF Births
<1> QED  BY <1>15, <1>16, <1>17 DEF IInv

\* vTaskDelay: the task leaves, with no lock.
LEMMA SleepKeeps ==
  ASSUME IInv, Sleep
  PROVE  IInv'
<1>0. Types /\ Codes /\ InLists /\ Births /\ Ahead /\ RaisedForControl /\ Run
  BY DEF IInv, Run
<1>1. /\ Call("delay") \/ Call("until")
      /\ current # None /\ asleep' = asleep \union {current} /\ vTaskSwitchContext(Leave)
      /\ UNCHANGED <<prio, waiting, owner>>
  BY DEF Sleep, Call
<1>2. current \in Tasks /\ current \in Ready
  BY <1>0, <1>1 DEF Types, Ahead
<1>3. \A l \in Locks : owner[l] # current
  BY <1>0, <1>1, CodesHaveManners DEF Manners
<1>4. waiting[Control] = None /\ \A t \in Tasks : prio[t] = BasePriority(t)
  BY <1>0, <1>1, Ranks, OneCall
<1> DEFINE A == Ready \ {current}
<1>5. Sorted(Leave, prio, A)
  <2>1. Sorted(ready, prio, Ready) /\ prio \in [Tasks -> 1..3] /\ Ready \in SUBSET Tasks
    BY <1>0 DEF InLists, Types, Ready
  <2> QED  BY <1>2, <2>1, LeaveSorted DEF Leave
<1>6. Order(A)
  BY <1>0, <1>1, <1>2, <1>3, <1>4, Distinct DEF Order, InLists, Types, Ready, Ahead
<1> HIDE DEF A
<1>7. Sorted(Leave, prio', A)
  BY <1>1, <1>5
<1>8. /\ InLists' /\ Ahead' /\ RaisedForControl' /\ Ready' = A
      /\ current' \in Tasks \cup {None}
  BY <1>1, <1>6, <1>7, Settles
<1>9. \A t : Started(t)' => Started(t)
  BY <1>1, <1>2, <1>8 DEF Started, A
<1>10. /\ prio' \in [Tasks -> 1..3] /\ waiting' \in [Tasks -> Locks \cup {None}]
       /\ asleep' \subseteq Tasks /\ waiting'[LED] = None
  BY <1>0, <1>1, <1>2 DEF Types, Births
<1> QED  BY <1>0, <1>8, <1>9, <1>10, CallKeeps

\* xQueueSemaphoreTake blocks: the ROS task runs with the control task's priority when that
\* waits for it, and nobody else is raised.
LEMMA TakeBlocksKeeps ==
  ASSUME IInv, TakeBlocks
  PROVE  IInv'
<1>0. Types /\ Codes /\ InLists /\ Births /\ Ahead /\ RaisedForControl /\ Run
  BY DEF IInv, Run
<1>1. /\ Call("take") /\ current # None /\ owner[Arg] \notin {None, current}
      /\ waiting' = [waiting EXCEPT ![current] = Arg]
      /\ Inherit(Leave, owner[Arg])
      /\ UNCHANGED <<asleep, owner>>
  BY DEF TakeBlocks, Call
<1>2. current \in Tasks /\ current \in Ready
  BY <1>0, <1>1 DEF Types, Ahead
<1>3. Manners
  BY <1>0, <1>1, CodesHaveManners
<1>4. waiting[Control] = None /\ \A t \in Tasks : prio[t] = BasePriority(t)
  BY <1>0, <1>1, Ranks, OneCall
<1>5. \/ current = Control /\ Arg = Control_Lock /\ owner[Arg] = Ros
      \/ current \in {Servo, Ros} /\ owner[Arg] \in {Servo, Ros}
  <2>1. CASE current = Control
    <3>1. Arg = Control_Lock
      BY <1>1, <1>3, <2>1, Distinct DEF Manners
    <3> QED  BY <1>0, <1>1, <2>1, <3>1, Owners
  <2>2. CASE current = Servo
    <3>1. Arg = Servo_Lock
      BY <1>1, <1>3, <2>2, Distinct DEF Manners
    <3> QED  BY <1>0, <1>1, <2>2, <3>1, Owners
  <2>3. CASE current = Ros
    <3>1. Arg \in Locks
      BY <1>1, <1>3, <2>3, Distinct DEF Manners
    <3>2. Arg # Control_Lock
      BY <1>0, <1>1, <2>3, Owners, Distinct DEF Ahead
    <3> QED  BY <1>0, <1>1, <2>3, <3>1, <3>2, Owners DEF Locks
  <2>4. current \notin {Default, LED}
    BY <1>1, <1>3, Distinct DEF Manners
  <2> QED  BY <1>2, <2>1, <2>2, <2>3, <2>4 DEF Tasks
<1>6. Arg \in Locks /\ Arg # None
  BY <1>1, <1>3, <1>5, NamesAssumption, Distinct DEF Manners, Locks
<1>7. Sorted(ready, prio, Ready) /\ prio \in [Tasks -> 1..3] /\ Ready \in SUBSET Tasks
  BY <1>0 DEF InLists, Types, Ready
<1> DEFINE A == Ready \ {current}
<1>8. Sorted(Leave, prio, A)
  BY <1>2, <1>7, LeaveSorted DEF Leave
<1>9. waiting' \in [Tasks -> Locks \cup {None}] /\ asleep' \subseteq Tasks
  BY <1>0, <1>1, <1>2, <1>6 DEF Types
<1>10. owner[Control_Lock] # current /\ waiting'[LED] = None
  BY <1>0, <1>1, <1>3, <1>5, OneCall, Distinct DEF Manners, Births, Types
<1>11. CASE current = Control
  <2> DEFINE B == A \ {Ros}
             L == Leave
             L1 == [L EXCEPT ![prio[Ros]] = Remove(@, Ros)]
             raised == [prio EXCEPT ![Ros] = prio[current]]
             L2 == [L1 EXCEPT ![prio[current]] = Insert(@, Ros)]
             L3 == [L EXCEPT ![prio[Ros]] = Remove(@, Ros), ![prio[current]] = Insert(@, Ros)]
  <2>1. owner[Control_Lock] = Ros /\ Arg = Control_Lock
    BY <1>5, <1>11, Distinct
  <2>2. Ros \in Ready /\ Ros \in A /\ waiting[Ros] = None /\ Ros \notin asleep
    BY <1>0, <1>11, <2>1, Distinct DEF Ahead, InLists
  <2>3. prio[Ros] = 2 /\ prio[current] = 3
    BY <1>4, <1>11, Distinct, Bases
  <2>4. prio' = raised /\ vTaskSwitchContext(L3)
    <3>1. Inherit(Leave, Ros)
      <4>1. owner[Arg] = Ros
        BY <2>1
      <4> QED  BY <1>1, <4>1
    <3>2. prio[Ros] < prio[current]
      BY <2>3
    <3>3. /\ prio' = raised
          /\ vTaskSwitchContext(IF waiting[Ros] = None /\ Ros \notin asleep THEN L3 ELSE Leave)
      BY <3>1, <3>2, Zenon DEF Inherit
    <3>4. (IF waiting[Ros] = None /\ Ros \notin asleep THEN L3 ELSE Leave) = L3
      BY <2>2, Zenon
    <3> QED  BY <3>3, <3>4, Zenon
  <2>5. Sorted(L1, prio, B)
    <3> HIDE DEF A, L
    <3>1. Sorted(L, prio, A) /\ A \in SUBSET Tasks
      BY <1>7, <1>8 DEF A, L
    <3> QED  BY <1>7, <2>2, <3>1, LeaveSorted
  <2>6. raised \in [Tasks -> 1..3] /\ raised[Ros] = 3 /\ B \in SUBSET Tasks /\ Ros \notin B
    BY <1>7, <2>3, Distinct
  <2>7. Sorted(L1, raised, B)
    <3> HIDE DEF B, L1
    <3>1. prio[current] \in 1..3
      BY <2>3
    <3> QED  BY <1>7, <2>5, <2>6, <3>1, RaiseSorted, Distinct
  <2>8. Sorted([L1 EXCEPT ![raised[Ros]] = Insert(@, Ros)], raised, B \cup {Ros})
    <3> HIDE DEF B, L1, raised
    <3> QED  BY <2>6, <2>7, InsertSorted, Distinct
  <2>9. L3 = [L1 EXCEPT ![raised[Ros]] = Insert(@, Ros)] /\ B \cup {Ros} = A
    <3>1. L3 = L2
      <4> HIDE DEF L
      <4> QED  BY <2>3
    <3> QED  BY <2>2, <2>3, <2>6, <3>1
  <2> HIDE DEF L, L1, L2, L3, B
  <2>10. Sorted(L3, prio', A) /\ vTaskSwitchContext(L3) /\ prio' \in [Tasks -> 1..3]
         /\ A \in SUBSET Tasks
    BY <1>7, <2>4, <2>6, <2>8, <2>9
  <2>11. /\ Ros \in A /\ prio'[Ros] = 3
         /\ \A t \in Tasks : t \notin {Ros, Control} =>
              prio'[t] = BasePriority(t) /\ prio'[t] \in 1..2
    BY <1>4, <1>7, <2>2, <2>4, <2>6, Bases
  <2> HIDE DEF A, raised
  <2>12. /\ Sorted(ready', prio', A) /\ current' \in A
         /\ \A t \in A : prio'[t] <= prio'[current']
    BY <2>10, <2>11, SwitchOK
  <2>13. Ready' = A
    BY <2>10, <2>12, SortedIsReady
  <2>14. Control \notin A /\ A \subseteq Ready
    BY <1>11 DEF A
  <2>15. current' = Ros
    <3>1. prio'[Ros] <= prio'[current'] /\ current' \in Tasks /\ current' # Control
      BY <2>10, <2>11, <2>12, <2>14
    <3> QED  BY <2>11, <3>1
  <2>16. /\ waiting'[Control] = Control_Lock
         /\ \A t \in Tasks : t # Control => waiting'[t] = waiting[t]
    BY <1>0, <1>1, <1>11, <2>1, Distinct DEF Types
  <2>17. InLists'
    <3>1. Control \notin asleep
      BY <1>0, <1>2, <1>11 DEF InLists
    <3> QED  BY <1>0, <1>1, <2>12, <2>13, <2>14, <2>16, <3>1 DEF InLists, Types, Ready
  <2>18. Ahead'
    <3>1. \A t \in Tasks : owner'[Control_Lock] = t => t \in A
      BY <1>1, <2>1, <2>11
    <3> QED  BY <1>1, <2>1, <2>11, <2>12, <2>13, <2>14, <2>15, <2>16, <3>1, Distinct DEF Ahead
  <2>19. RaisedForControl'
    <3>1. prio'[Control] = BasePriority(Control)
      BY <1>7, <1>4, <2>4, Distinct DEF raised
    <3> QED  BY <1>1, <2>1, <2>11, <2>16, <3>1 DEF RaisedForControl
  <2>20. Started(Servo)' => Started(Servo)
    BY <1>1, <2>13, <2>14, <2>16, Distinct DEF Started
  <2>21. Started(Ros)' => Started(Ros)
    BY <1>1, <2>13, <2>14, <2>16, Distinct DEF Started
  <2>22. Started(LED)' => Started(LED)
    BY <1>1, <2>13, <2>14, <2>16, Distinct DEF Started
  <2> QED  BY <1>0, <1>9, <1>10, <2>10, <2>15, <2>17, <2>18, <2>19, <2>20, <2>21, <2>22,
              CallKeeps, Distinct
<1>12. CASE current # Control
  <2>1. prio' = prio /\ vTaskSwitchContext(Leave)
    <3>1. current \in {Servo, Ros} /\ owner[Arg] \in {Servo, Ros}
      BY <1>5, <1>12
    <3>2. prio[current] = 2 /\ prio[owner[Arg]] = 2
      BY <1>4, <3>1, Distinct, Bases
    <3> QED  BY <1>1, <3>2 DEF Inherit
  <2>2. \A t \in Tasks : t # current => waiting'[t] = waiting[t]
    BY <1>0, <1>1 DEF Types
  <2>3. \A t \in asleep : t # current
    BY <1>0, <1>2 DEF InLists
  <2>4. Order(A)
    BY <1>0, <1>1, <1>4, <1>7, <1>10, <1>12, <2>1, <2>2, <2>3, Distinct
       DEF Order, InLists, Types, Ready, Ahead
  <2> HIDE DEF A
  <2>5. Sorted(Leave, prio', A)
    BY <1>8, <2>1
  <2>6. /\ InLists' /\ Ahead' /\ RaisedForControl' /\ Ready' = A
        /\ current' \in Tasks \cup {None}
    BY <2>1, <2>4, <2>5, Settles
  <2>7. \A t \in Tasks : Started(t)' => Started(t)
    BY <1>1, <1>2, <2>2, <2>6 DEF Started, A
  <2> QED  BY <1>0, <1>7, <1>9, <1>10, <2>1, <2>6, <2>7, CallKeeps, Distinct
<1> QED  BY <1>11, <1>12

\* xQueueGenericSend gives a lock back.
LEMMA GiveUpKeeps ==
  ASSUME IInv, GiveUp
  PROVE  IInv'
<1>0. Types /\ Codes /\ InLists /\ Births /\ Ahead /\ RaisedForControl /\ Run
  BY DEF IInv, Run
<1> DEFINE base == BasePriority(current)
           falls == prio[current] # base /\ held[current] = 1
           L == IF falls THEN [Leave EXCEPT ![base] = Insert(@, current)] ELSE ready
           W == {t \in Tasks : waiting[t] = Arg}
           w == CHOOSE t \in W : \A u \in W : prio[u] <= prio[t]
           L2 == [L EXCEPT ![prio[w]] = Insert(@, w)]
<1>1. /\ Call("give") /\ current # None /\ owner' = [owner EXCEPT ![Arg] = None]
      /\ prio' = IF falls THEN [prio EXCEPT ![current] = base] ELSE prio
      /\ UNCHANGED <<asleep, made>>
  BY DEF GiveUp, Call
<1>2. IF W = {}
      THEN Continue(L, falls) /\ UNCHANGED waiting
      ELSE waiting' = [waiting EXCEPT ![w] = None] /\ Continue(L2, prio[w] > prio'[current])
  BY DEF GiveUp
<1> HIDE DEF base, falls, L, W, w, L2
<1>3. current \in Tasks /\ current \in Ready
  BY <1>0, <1>1 DEF Types, Ahead
<1>4. Manners
  BY <1>0, <1>1, CodesHaveManners
<1>5. Arg \in Locks /\ Arg # None /\ owner[Arg] = current
  BY <1>1, <1>4, NamesAssumption, Distinct DEF Manners, Locks
<1>6. Sorted(ready, prio, Ready) /\ prio \in [Tasks -> 1..3] /\ Ready \in SUBSET Tasks
  BY <1>0 DEF InLists, Types, Ready
<1>7. \A t \in Tasks : owner'[Control_Lock] = t => t \in Ready
  BY <1>0, <1>1, <1>5, Distinct DEF Ahead, Types
<1>8. \A t \in W : t \in Tasks /\ waiting[t] = Arg /\ t \notin Ready /\ t \notin asleep
  BY <1>0, <1>5 DEF W, InLists
<1>9. ASSUME W # {} PROVE w \in W /\ \A u \in W : prio[u] <= prio[w]
  <2>1. PICK t \in W : TRUE
    BY <1>9
  <2>2. \A u \in W : prio[u] \in 1..3
    BY <1>6, <1>8
  <2>3. \E v \in W : \A u \in W : prio[u] <= prio[v]
    <3>1. CASE \E v \in W : prio[v] = 3
      BY <2>2, <3>1
    <3>2. CASE (\A v \in W : prio[v] # 3) /\ \E v \in W : prio[v] = 2
      <4>1. \A v \in W : prio[v] \in 1..2
        BY <2>2, <3>2
      <4> QED  BY <3>2, <4>1
    <3>3. CASE \A v \in W : prio[v] = 1
      BY <2>1, <3>3
    <3> QED  BY <2>2, <3>1, <3>2, <3>3
  <2> QED  BY <2>3 DEF w
<1>10. W # {} => waiting' = [waiting EXCEPT ![w] = None]
  BY <1>2
<1>11. W = {} => waiting' = waiting
  BY <1>2
<1>12. waiting' \in [Tasks -> Locks \cup {None}] /\ waiting'[LED] = None
  BY <1>0, <1>8, <1>9, <1>10, <1>11, Distinct DEF Types, Births
\* The control task waits for the lock and gets to run.
<1>13. CASE waiting[Control] # None
  <2>1. /\ current = Ros /\ prio[Ros] = 3 /\ held[Ros] = 1 /\ Arg = Control_Lock
        /\ waiting[Control] = Control_Lock /\ prio[Servo] = 2 /\ prio[Default] = 2 /\ prio[LED] = 1
        /\ prio[Control] = 3
    BY <1>0, <1>13, Ranks
  <2>2. base = 2 /\ falls
    BY <2>1, Distinct, Bases DEF base, falls
  <2>3. Control \in W
    BY <2>1, Distinct DEF W
  <2>4. w = Control
    <3>1. prio[Control] <= prio[w] /\ w \in Tasks /\ w \notin Ready
      BY <1>8, <1>9, <2>3
    <3>2. w # Ros
      BY <1>3, <2>1, <3>1
    <3> QED  BY <2>1, <3>1, <3>2 DEF Tasks
  <2> DEFINE K == Leave
             down == [prio EXCEPT ![current] = base]
             B == Ready \ {current}
  <2>5. prio' = down /\ L = [K EXCEPT ![base] = Insert(@, current)]
    BY <1>1, <2>2 DEF L
  <2>6. Sorted(K, prio, B)
    BY <1>3, <1>6, LeaveSorted DEF Leave
  <2>7. down \in [Tasks -> 1..3] /\ down[current] = 2 /\ B \in SUBSET Tasks /\ current \notin B
    BY <1>3, <1>6, <2>2
  <2>8. \A t \in Tasks : down[t] = BasePriority(t)
    BY <1>3, <1>6, <2>1, <2>2, Distinct, Bases DEF Tasks
  <2>9. Sorted(K, down, B)
    <3> HIDE DEF K, B
    <3>1. base \in 1..3
      BY <2>2
    <3> QED  BY <1>3, <1>6, <2>6, <2>7, <3>1, RaiseSorted
  <2>10. Sorted([K EXCEPT ![down[current]] = Insert(@, current)], down, B \cup {current})
    <3> HIDE DEF K, B, down
    <3> QED  BY <1>3, <2>7, <2>9, InsertSorted
  <2>11. Sorted(L, down, Ready)
    <3>1. B \cup {current} = Ready
      BY <1>3
    <3>2. L = [K EXCEPT ![down[current]] = Insert(@, current)]
      BY <2>2, <2>5, <2>7
    <3> HIDE DEF K, B, down
    <3> QED  BY <2>10, <3>1, <3>2
  <2>12. Sorted([L EXCEPT ![down[Control]] = Insert(@, Control)], down, Ready \cup {Control})
    <3> HIDE DEF down
    <3>1. Control \notin Ready
      BY <1>8, <2>3
    <3> QED  BY <1>6, <2>7, <2>11, <3>1, InsertSorted, Distinct
  <2>13. L2 = [L EXCEPT ![down[Control]] = Insert(@, Control)]
    <3>1. down[Control] = prio[Control]
      BY <2>1, <2>8, Distinct, Bases
    <3> QED  BY <2>4, <3>1 DEF L2
  <2> DEFINE A == Ready \cup {Control}
  <2>14. Continue(L2, prio[w] > prio'[current]) /\ prio[w] > prio'[current]
    <3>1. prio[w] > prio'[current]
      BY <2>1, <2>4, <2>5, <2>7
    <3> QED  BY <1>2, <2>3, <3>1
  <2>15. vTaskSwitchContext(L2)
    BY <2>14 DEF Continue
  <2>16. waiting'[Control] = None /\ \A t \in Tasks : t # Control => waiting'[t] = waiting[t]
    BY <1>0, <1>10, <2>3, <2>4, Distinct DEF Types
  <2>17. Control \notin asleep
    BY <1>8, <2>3
  <2>18. Order(A)
    <3> HIDE DEF down
    <3> QED  BY <1>0, <1>1, <1>6, <1>7, <2>5, <2>7, <2>8, <2>16, <2>17, Distinct
                DEF Order, InLists, Types
  <2>19. Sorted(L2, prio', A)
    BY <2>5, <2>12, <2>13
  <2> HIDE DEF A
  <2>20. /\ InLists' /\ Ahead' /\ RaisedForControl' /\ Ready' = A
         /\ current' \in Tasks \cup {None}
    BY <2>15, <2>18, <2>19, Settles
  <2>21. \A t \in Tasks : Started(t)' => Started(t)
    BY <1>1, <1>13, <2>16, <2>20 DEF Started, A
  <2> QED  BY <1>0, <1>1, <1>12, <2>5, <2>7, <2>20, <2>21, CallKeeps, Distinct DEF Types
\* Nobody is raised, and the control task does not wait.
<1>14. CASE waiting[Control] = None
  <2>1. \A t \in Tasks : prio[t] = BasePriority(t)
    BY <1>0, <1>14, Ranks
  <2>2. ~falls
    BY <1>3, <2>1 DEF falls, base
  <2>3. prio' = prio /\ L = ready
    BY <1>1, <2>2 DEF L
  <2>4. CASE W = {}
    <3>1. ready' = ready /\ current' = current /\ waiting' = waiting
      <4>1. Continue(L, falls)
        BY <1>2, <2>4
      <4> QED  BY <1>11, <2>2, <2>3, <2>4, <4>1 DEF Continue
    <3>2. Order(Ready)
      BY <1>0, <1>1, <1>6, <1>7, <1>14, <2>1, <2>3, <3>1 DEF Order, InLists, Types
    <3>3. Sorted(ready', prio', Ready)
      BY <1>6, <2>3, <3>1
    <3>4. Control \in Ready => current = Control
      BY <1>0 DEF Ahead
    <3>5. /\ InLists' /\ Ahead' /\ RaisedForControl' /\ Ready' = Ready
          /\ current' \in Tasks \cup {None}
      BY <1>3, <3>1, <3>2, <3>3, <3>4, Continues
    <3>6. \A t \in Tasks : Started(t)' => Started(t)
      BY <1>1, <3>1, <3>5 DEF Started
    <3> QED  BY <1>0, <1>1, <1>6, <1>12, <2>3, <3>5, <3>6, CallKeeps, Distinct DEF Types
  <2>5. CASE W # {}
    <3>1. w \in Tasks /\ w # Control /\ w \notin Ready /\ w \notin asleep /\ waiting[w] # None
      BY <1>5, <1>8, <1>9, <1>14, <2>5
    <3>2. ~(prio[w] > prio'[current])
      <4>1. prio[w] \in 1..2 /\ prio[current] = BasePriority(current)
        BY <1>3, <2>1, <3>1, Bases
      <4>2. current # LED
        BY <1>1, <1>4, Distinct DEF Manners
      <4> QED  BY <1>3, <2>3, <4>1, <4>2, Bases
    <3>3. ready' = L2 /\ current' = current
      <4>1. Continue(L2, prio[w] > prio'[current])
        BY <1>2, <2>5
      <4> QED  BY <3>2, <4>1 DEF Continue
    <3>4. waiting'[w] = None /\ \A t \in Tasks : t # w => waiting'[t] = waiting[t]
      BY <1>0, <1>10, <2>5, <3>1 DEF Types
    <3> DEFINE A == Ready \cup {w}
    <3>5. Sorted(L2, prio, A)
      <4>1. L2 = [ready EXCEPT ![prio[w]] = Insert(@, w)]
        BY <2>3 DEF L2
      <4> QED  BY <1>6, <3>1, <4>1, InsertSorted
    <3>6. Order(A)
      BY <1>0, <1>1, <1>6, <1>7, <1>14, <2>1, <2>3, <3>1, <3>4, Distinct DEF Order, InLists, Types
    <3>7. Control \in A => current = Control
      BY <1>0, <3>1 DEF Ahead
    <3>8. current \in A
      BY <1>3
    <3> HIDE DEF A
    <3>9. Sorted(ready', prio', A)
      BY <2>3, <3>3, <3>5
    <3>10. /\ InLists' /\ Ahead' /\ RaisedForControl' /\ Ready' = A
           /\ current' \in Tasks \cup {None}
      BY <1>3, <3>3, <3>6, <3>7, <3>8, <3>9, Continues
    <3>11. \A t \in Tasks : Started(t)' => Started(t)
      BY <1>1, <3>1, <3>4, <3>10 DEF Started, A
    <3> QED  BY <1>0, <1>1, <1>6, <1>12, <2>3, <3>10, <3>11, CallKeeps, Distinct DEF Types
  <2> QED  BY <2>4, <2>5
<1> QED  BY <1>13, <1>14
-------------------------------------------------------------------------------
\* xTaskIncrementTick makes one task ready, and equals take turns.
LEMMA TickKeeps ==
  ASSUME IInv, NEW w \in asleep \cup {None}, Tick(w)
  PROVE  IInv'
<1>0. Types /\ Codes /\ InLists /\ Births /\ Ahead /\ RaisedForControl
  BY DEF IInv
<1> DEFINE p == IF current = None THEN 0 ELSE prio[current]
           L == IF w \in asleep THEN [ready EXCEPT ![prio[w]] = Insert(@, w)] ELSE ready
           switch == (w \in asleep /\ prio[w] >= p) \/ (p > 0 /\ Len(L[p]) > 2)
           A == Ready \cup (asleep \cap {w})
<1>1. /\ asleep' = asleep \ {w}
      /\ UNCHANGED <<todo, prio, waiting, made, owner, depth, held>>
  BY DEF Tick
<1>2. IF switch THEN vTaskSwitchContext(L) ELSE ready' = L /\ current' = current
  BY Zenon DEF Tick
<1>3. Sorted(ready, prio, Ready) /\ prio \in [Tasks -> 1..3] /\ Ready \in SUBSET Tasks
  BY <1>0 DEF InLists, Types, Ready
<1>4. w \in asleep => w \in Tasks /\ w \notin Ready /\ waiting[w] = None
  BY <1>0 DEF InLists, Types
<1>5. Sorted(L, prio', A)
  <2>1. CASE w \in asleep
    <3>1. L = [ready EXCEPT ![prio[w]] = Insert(@, w)] /\ A = Ready \cup {w}
      BY <2>1
    <3> HIDE DEF L, A
    <3> QED  BY <1>1, <1>3, <1>4, <2>1, <3>1, InsertSorted
  <2>2. CASE w \notin asleep
    <3>1. L = ready /\ A = Ready
      BY <2>2
    <3> HIDE DEF L, A
    <3> QED  BY <1>1, <1>3, <3>1
  <2> QED  BY <2>1, <2>2
<1>6. A \subseteq Tasks /\ Ready \subseteq A /\ A \cap asleep' = {}
      /\ \A t \in A : waiting[t] = None
  BY <1>0, <1>1, <1>3, <1>4 DEF InLists
<1>7. \A t : t \in A \/ t \in asleep' <=> t \in Ready \/ t \in asleep
  BY <1>1
<1> HIDE DEF L, A, switch
<1>8. ASSUME InLists', Ahead', RaisedForControl', Ready' = A, current' \in Tasks \cup {None}
      PROVE  IInv'
  <2>1. Types'
    BY <1>0, <1>1, <1>8 DEF Types
  <2>2. Codes'
    BY <1>0, <1>1, CodeKept DEF Codes
  <2>3. \A t : Started(t)' <=> Started(t)
    BY <1>1, <1>7, <1>8 DEF Started
  <2>4. \A t : Starting(t)' <=> Starting(t)
    BY <1>1 DEF Starting
  <2>5. Births'
    BY <1>0, <1>1, <2>3, <2>4, BirthsKept DEF Births
  <2> QED  BY <1>8, <2>1, <2>2, <2>5 DEF IInv
<1>9. CASE waiting[Control] = None
  <2>1. \A t \in Tasks : prio[t] = BasePriority(t)
    BY <1>0, <1>9, Ranks
  <2>2. Order(A)
    <3>1. \A t \in Tasks : owner'[Control_Lock] = t => t \in A
      BY <1>0, <1>1, <1>6 DEF Ahead
    <3> QED  BY <1>0, <1>1, <1>3, <1>6, <1>9, <2>1, <3>1 DEF Order, InLists
  <2>3. CASE switch
    <3>1. vTaskSwitchContext(L)
      BY <1>2, <2>3
    <3> QED  BY <1>5, <1>8, <2>2, <3>1, Settles
  <2>4. CASE ~switch
    <3>1. ready' = L /\ current' = current
      BY <1>2, <2>4
    <3>2. current \in Tasks \cup {None} /\ (current # None => current \in A)
      BY <1>0, <1>6 DEF Types, Ahead
    <3>3. ASSUME Control \in A PROVE current = Control
      <4>1. CASE Control \in Ready
        BY <1>0, <4>1 DEF Ahead
      <4>2. CASE Control \notin Ready
        <5>1. w = Control /\ w \in asleep
          BY <3>3, <4>2 DEF A
        <5>2. prio[w] = 3 /\ (p = 0 \/ p \in 1..3)
          BY <1>3, <2>1, <3>2, <5>1, Distinct, Bases
        <5> QED  BY <2>4, <5>1, <5>2 DEF switch
      <4> QED  BY <4>1, <4>2
    <3>4. Sorted(ready', prio', A)
      BY <1>5, <3>1
    <3> QED  BY <1>8, <2>2, <3>1, <3>2, <3>3, <3>4, Continues
  <2> QED  BY <2>3, <2>4
\* The task that has the lock goes on.
<1>10. CASE waiting[Control] # None
  <2>1. /\ current = Ros /\ owner[Control_Lock] = Ros /\ prio[Ros] = 3
        /\ prio[Servo] = 2 /\ prio[Default] = 2 /\ prio[LED] = 1 /\ waiting[Control] = Control_Lock
    BY <1>0, <1>10, Ranks
  <2>2. p = 3
    BY <2>1, Distinct
  <2>3. Control \notin A
    BY <1>6, <1>10
  <2>4. ~(w \in asleep /\ prio[w] >= p)
    BY <1>4, <1>10, <2>1, <2>2, <1>0 DEF Tasks, Ahead
  <2>5. ~(Len(L[p]) > 2)
    <3>1. ListOK(L[3]) /\ Members(L[3]) = {t \in A : prio'[t] = 3} \cup {None}
      BY <1>5 DEF Sorted
    <3>2. Members(L[3]) \subseteq {Ros, None}
      BY <1>1, <1>6, <2>1, <2>3, <3>1 DEF Tasks
    <3>3. Len(L[3]) <= 2 /\ Len(L[3]) \in Nat
      BY <3>1, <3>2, LenOK, Distinct DEF ListOK
    <3> QED  BY <2>2, <3>3
  <2>6. ~switch
    BY <2>4, <2>5 DEF switch
  <2>7. ready' = L /\ current' = current
    BY <1>2, <2>6
  <2>8. Ready' = A
    <3>1. Sorted(ready', prio', A) /\ prio' \in [Tasks -> 1..3] /\ A \in SUBSET Tasks
      BY <1>1, <1>3, <1>5, <1>6, <2>7
    <3> QED  BY <3>1, SortedIsReady
  <2>9. InLists'
    BY <1>0, <1>1, <1>5, <1>6, <2>7, <2>8 DEF InLists
  <2>10. Ahead'
    BY <1>0, <1>1, <1>6, <2>1, <2>3, <2>7, <2>8, Distinct DEF Ahead
  <2>11. RaisedForControl'
    BY <1>0, <1>1 DEF RaisedForControl
  <2> QED  BY <1>8, <2>1, <2>7, <2>8, <2>9, <2>10, <2>11, Distinct
<1> QED  BY <1>9, <1>10

-------------------------------------------------------------------------------
LEMMA InitInv == Init => IInv
<1> SUFFICES ASSUME Init PROVE IInv
  OBVIOUS
<1>1. /\ todo[Control] = ControlStart /\ todo[Servo] = ServoStart
      /\ todo[Ros] = <<>> /\ todo[Default] = <<>> /\ todo[LED] = <<>>
  BY Distinct DEF Init
<1>2. \A t \in Tasks : prio[t] = BasePriority(t) /\ waiting[t] = None /\ held[t] = 0
  BY DEF Init
<1>3. /\ ready = <<<<None>>, <<Default, None>>, <<Control, None>>>> /\ current = Control
      /\ asleep = {} /\ depth = 0 /\ \A l \in Locks : owner[l] = None
  BY DEF Init
<1>4. Types
  BY <1>3, Distinct, Bases DEF Init, Types
<1>5. \A t \in Tasks : Owns(t, {}, 0)
  BY <1>2, <1>3, Distinct DEF Owns
<1>6. Codes
  <2>1. RestOf(ControlStart, 0) = ControlStart
    BY RestOK, RoundsOK
  <2>2. RestOf(ServoStart, 0) = ServoStart
    BY RestOK, RoundsOK
  <2>3. RestOf(Nap, 1) = <<>>
    BY RestEnds, RoundsOK
  <2>4. ControlCode
    BY <1>1, <1>5, <2>1, Distinct DEF ControlCode, ControlBoot
  <2>5. ServoCode
    BY <1>1, <1>5, <2>2, Distinct DEF ServoCode, ServoBoot
  <2>6. RosCode
    BY <1>1, <1>3, <1>5, <2>3, Distinct DEF RosCode, IdleAt
  <2>7. IdleCode(Default) /\ IdleCode(LED)
    BY <1>1, <1>5, <2>3, Distinct DEF IdleCode, IdleAt
  <2> QED  BY <2>4, <2>5, <2>6, <2>7 DEF Codes
<1>7. /\ ready = [p \in 1..3 |-> ready[p]]
      /\ ready[1] = <<None>> /\ ready[2] = <<Default, None>> /\ ready[3] = <<Control, None>>
  BY <1>3
<1>8. ASSUME NEW t \in Tasks PROVE ListOK(<<t, None>>) /\ Members(<<t, None>>) = {t, None}
  <2> DEFINE s == <<t, None>>
  <2>1. s \in Seq(Tasks \cup {None}) /\ Len(s) = 2 /\ s[1] = t /\ s[2] = None /\ t # None
        /\ DOMAIN s = 1..2
    BY Distinct
  <2> HIDE DEF s
  <2>2. Members(s) = {t, None}
    BY <2>1 DEF Members
  <2>3. ListOK(s)
    BY <2>1, <2>2 DEF ListOK
  <2> QED  BY <2>2, <2>3 DEF s
<1>9. /\ ListOK(ready[1]) /\ Members(ready[1]) = {None}
      /\ ListOK(ready[2]) /\ Members(ready[2]) = {Default, None}
      /\ ListOK(ready[3]) /\ Members(ready[3]) = {Control, None}
  <2>1. ListOK(<<None>>) /\ Members(<<None>>) = {None}
    BY DEF ListOK, Members
  <2> QED  BY <1>7, <1>8, <2>1, Distinct
<1>10. prio[Control] = 3 /\ prio[Servo] = 2 /\ prio[Ros] = 2 /\ prio[Default] = 2 /\ prio[LED] = 1
  BY <1>2, Distinct, Bases
<1>11. Ready = {Control, Default}
  BY <1>9, <1>10, Distinct DEF Ready, Tasks
<1>12. Sorted(ready, prio, Ready)
  BY <1>7, <1>9, <1>10, <1>11, Distinct DEF Sorted
<1>13. InLists
  BY <1>2, <1>3, <1>11, <1>12, Distinct DEF InLists
<1>14. Ahead
  BY <1>2, <1>3, <1>11, Distinct DEF Ahead
<1>15. Births
  BY <1>1, <1>2, <1>3, <1>11, Distinct DEF Births, Started, Starting
<1>16. RaisedForControl
  BY <1>2 DEF RaisedForControl
<1> QED  BY <1>4, <1>6, <1>13, <1>14, <1>15, <1>16 DEF IInv

LEMMA StepInv == IInv /\ [Next]_vars => IInv'
<1> SUFFICES ASSUME IInv, [Next]_vars PROVE IInv'
  OBVIOUS
<1>1. CASE Run
  <2>1. CASE StillRun
    BY <2>1, StillKeeps
  <2>2. CASE osThreadNew
    BY <2>2, osThreadNewKeeps
  <2>3. CASE TakeBlocks
    BY <2>3, TakeBlocksKeeps
  <2>4. CASE GiveUp
    BY <2>4, GiveUpKeeps
  <2>5. CASE Sleep
    BY <2>5, SleepKeeps
  <2> QED  BY <1>1, <2>1, <2>2, <2>3, <2>4, <2>5 DEF Run, StillRun
<1>2. CASE \E w \in asleep \cup {None} : Tick(w)
  BY <1>2, TickKeeps
<1>3. CASE UNCHANGED vars
  <2>1. Types' /\ Ready' = Ready
    BY <1>3 DEF IInv, Types, Ready, vars
  <2>2. Codes'
    BY <1>3, CodeKept DEF IInv, Codes, vars
  <2>3. InLists' /\ Ahead' /\ RaisedForControl'
    BY <1>3, <2>1 DEF IInv, InLists, Ahead, RaisedForControl, vars
  <2>4. Births'
    BY <1>3, <2>1 DEF IInv, Births, Started, Starting, vars
  <2> QED  BY <2>1, <2>2, <2>3, <2>4 DEF IInv
<1> QED  BY <1>1, <1>2, <1>3 DEF Next

LEMMA Inv == Spec => []IInv
<1>1. Spec => Init /\ [][Next]_vars
  BY DEF Spec
<1> QED  BY <1>1, InitInv, StepInv, PTL

\* A task is ready, blocked on a lock or asleep, and in the list of its priority.
THEOREM TypeCorrect == Spec => []TypeOK
<1>1. IInv => TypeOK
  <2> SUFFICES ASSUME IInv PROVE TypeOK
    OBVIOUS
  <2>1. Types /\ Codes /\ InLists
    BY DEF IInv
  <2>2. \A t \in Tasks : held[t] \in 0..2
    BY <2>1, Owners
  <2>3. \A t \in Tasks : prio[t] \in Low..Realtime
    BY <2>1 DEF Types, Low, Realtime
  <2>4. ASSUME NEW t \in Tasks, NEW p \in Low..Realtime,
               NEW n \in DOMAIN ready[p], ready[p][n] = t
        PROVE  prio[t] = p /\ t \notin asleep /\ waiting[t] = None
    <3>1. p \in 1..3 /\ t \in Members(ready[p])
      BY <2>4 DEF Members, Low, Realtime
    <3> QED  BY <2>1, <3>1, Distinct DEF InLists, Sorted
  <2> QED  BY <2>1, <2>2, <2>3, <2>4 DEF TypeOK, Types, InLists
<1> QED  BY <1>1, Inv, PTL

\* No task calls a lock that does not exist yet: freertos.c makes the locks in the tasks
\* that run first, and starts the others when they are made.
THEOREM LocksCreatedInTime == Spec => []CreatedInTime
<1>1. IInv => CreatedInTime
  <2> SUFFICES ASSUME IInv, Call("take") \/ Call("give") PROVE Arg \in made
    BY DEF CreatedInTime
  <2>1. Manners /\ current # None
    BY CodesHaveManners DEF IInv, Call
  <2>2. current = Ros => Started(Ros)
    BY <2>1 DEF IInv, Ahead, Started
  <2> QED  BY <2>1, <2>2 DEF Manners, IInv, Births
<1> QED  BY <1>1, Inv, PTL

\* While the control task waits for Control_Lock, the processor is with the task that has it:
\* no task of lower priority makes the control loop wait longer.
THEOREM ControlComesFirst == Spec => []ControlFirst
<1>1. IInv => ControlFirst
  BY DEF IInv, Ahead, ControlFirst
<1> QED  BY <1>1, Inv, PTL

\* Inheritance is for the control task, and ends with the lock it was for.
THEOREM OnlyRaisedForControl == Spec => []RaisedForControl
<1>1. IInv => RaisedForControl
  BY DEF IInv
<1> QED  BY <1>1, Inv, PTL
-------------------------------------------------------------------------------
(* The clock of the micro-ROS library. *)

\* What the conversion and the counters rely on.
Sizes ==
  Wrap \in Nat \ {0} /\ NANOSECONDS_PER_SECOND \in Nat \ {0} /\ NANOSECONDS_PER_TICK \in Nat

LEMMA Division ==
  ASSUME NEW a \in Nat, NEW b \in Nat \ {0}
  PROVE  a \div b \in Nat /\ a % b \in 0..b - 1 /\ a = b * (a \div b) + (a % b)
<1>1. a \div b \in Int /\ a % b \in 0..b - 1
  OBVIOUS
<1>2. a = b * (a \div b) + (a % b)
  <2>1. b > 0 /\ a % b = a - b * (a \div b)
    OBVIOUS
  <2>2. b * (a \div b) \in Int
    BY <1>1
  <2> QED  BY <1>1, <2>1, <2>2
<1>3. ASSUME NEW q \in Int, NEW r \in 0..b - 1, a = b * q + r PROVE q >= 0
  <2> SUFFICES ASSUME q <= 0 - 1 PROVE FALSE
    BY <1>3
  <2>1. b * q <= b * (0 - 1) /\ b * (0 - 1) = 0 - b /\ b * q \in Int
    OBVIOUS
  <2> QED  BY <1>3, <2>1
<1> QED  BY <1>1, <1>2, <1>3

LEMMA QuotientBounds ==
  ASSUME NEW a \in Int, NEW b \in Nat \ {0}
  PROVE  LET q == Quotient(a, b)
             r == Remainder(a, b)
         IN  /\ q \in Int /\ r \in Int /\ b * q \in Int
             /\ a = b * q + r
             /\ a >= 0 => 0 <= r /\ r < b
             /\ a < 0 => 0 - b < r /\ r <= 0
<1>1. CASE a >= 0
  <2>1. PICK p \in Nat : p = a \div b
    BY <1>1, Division
  <2>2. Quotient(a, b) = p
    BY <1>1, <2>1 DEF Quotient
  <2>3. a % b \in 0..b - 1 /\ a = b * p + (a % b)
    BY <1>1, <2>1, Division
  <2>4. b * p \in Nat
    OBVIOUS
  <2> QED  BY <1>1, <2>2, <2>3, <2>4 DEF Remainder
<1>2. CASE ~(a >= 0)
  <2>1. 0 - a \in Nat
    BY <1>2
  <2>2. PICK p \in Nat : p = (0 - a) \div b
    BY <2>1, Division
  <2>3. Quotient(a, b) = 0 - p
    BY <1>2, <2>2 DEF Quotient
  <2>4. (0 - a) % b \in 0..b - 1 /\ 0 - a = b * p + ((0 - a) % b)
    BY <2>1, <2>2, Division
  <2>5. b * p \in Nat /\ b * (0 - p) = 0 - b * p /\ 0 - p \in Int
    OBVIOUS
  <2>6. a = b * (0 - p) - ((0 - a) % b)
    BY <2>4, <2>5
  <2> QED  BY <1>2, <2>3, <2>4, <2>5, <2>6 DEF Remainder
<1> QED  BY <1>1, <1>2

\* The conversion is exact for times before the epoch too: the nanoseconds are never
\* negative and nothing is lost (UTILS_NanosecondsToTimespec).
THEOREM TimespecExact ==
  ASSUME Sizes, NEW source \in Int
  PROVE  LET t == UTILS_NanosecondsToTimespec(source)
         IN  /\ t.tv_sec \in Int /\ t.tv_nsec \in 0..NANOSECONDS_PER_SECOND - 1
             /\ Nanoseconds(t) = source
<1> DEFINE S == NANOSECONDS_PER_SECOND
           sec == Quotient(source, S)
           nsec == Remainder(source, S)
           carry == Quotient(nsec, S) + 1
           t == UTILS_NanosecondsToTimespec(source)
<1>0. S \in Nat \ {0}
  BY DEF Sizes
<1>1. /\ sec \in Int /\ nsec \in Int /\ S * sec \in Int /\ source = S * sec + nsec
      /\ 0 - S < nsec /\ nsec < S
  BY <1>0, QuotientBounds
<1>2. t = IF nsec < 0
          THEN [tv_sec |-> sec - carry, tv_nsec |-> nsec + carry * S]
          ELSE [tv_sec |-> sec, tv_nsec |-> nsec]
  BY DEF UTILS_NanosecondsToTimespec
<1> HIDE DEF S, sec, nsec
<1>3. ASSUME nsec < 0 PROVE carry = 1
  <2> DEFINE n == 0 - nsec
  <2>1. n \in 0..S - 1 /\ n \in Nat
    BY <1>0, <1>1, <1>3
  <2>2. n \div S = 0
    BY <1>0, <2>1
  <2> QED  BY <1>1, <1>3, <2>2 DEF Quotient
<1>4. sec * S = S * sec
  BY <1>0, <1>1
<1> HIDE DEF carry, t
<1>5. CASE nsec < 0
  <2>1. carry = 1
    BY <1>3, <1>5
  <2>2. t = [tv_sec |-> sec - 1, tv_nsec |-> nsec + 1 * S]
    BY <1>2, <1>5, <2>1
  <2>3. t.tv_sec = sec - 1 /\ t.tv_nsec = nsec + S
    BY <1>0, <2>2
  <2>4. (sec - 1) * S = S * sec - S
    BY <1>0, <1>1
  <2>5. Nanoseconds(t) = (sec - 1) * S + (nsec + S)
    BY <2>3 DEF Nanoseconds, S
  <2>6. Nanoseconds(t) = source
    BY <1>0, <1>1, <2>4, <2>5
  <2> QED  BY <1>0, <1>1, <1>5, <2>3, <2>6 DEF t, S
<1>6. CASE ~(nsec < 0)
  <2>1. t.tv_sec = sec /\ t.tv_nsec = nsec
    BY <1>2, <1>6
  <2>2. Nanoseconds(t) = sec * S + nsec
    BY <2>1 DEF Nanoseconds, S
  <2> QED  BY <1>0, <1>1, <1>4, <1>6, <2>1, <2>2 DEF t, S
<1> QED  BY <1>5, <1>6 DEF t

\* The counters hold as many ticks after a count as before it and n more.
LEMMA CountAdds ==
  ASSUME NEW w \in Nat \ {0}, NEW o \in Nat, NEW x \in 0..w - 1, NEW n \in Nat
  PROVE  /\ (x + n) % w \in 0..w - 1 /\ o + ((x + n) \div w) \in Nat
         /\ (o + ((x + n) \div w)) * w + ((x + n) % w) = o * w + x + n
<1>1. PICK q \in Nat : q = (x + n) \div w
  BY Division
<1>2. (x + n) % w \in 0..w - 1 /\ x + n = w * q + ((x + n) % w)
  BY <1>1, Division
<1>3. (o + q) * w = o * w + w * q /\ o * w \in Nat /\ w * q \in Nat
  OBVIOUS
<1> QED  BY <1>1, <1>2, <1>3

\* The ticks that the clock counts.
Counted == xNumOfOverflows * Wrap + xTickCount

\* The time returned last is of ticks that have been counted.
ClockInv ==
  /\ xNumOfOverflows \in Nat /\ xPendedTicks \in Nat /\ uxSchedulerSuspended \in Nat
  /\ ticks \in Nat /\ TicksKept
  /\ Nanoseconds(tp) \in Int /\ Nanoseconds(tp) <= Counted * NANOSECONDS_PER_TICK

LEMMA IInvFacts ==
  ASSUME Sizes, ClockInv
  PROVE  /\ xNumOfOverflows \in Nat /\ xPendedTicks \in Nat
         /\ uxSchedulerSuspended \in Nat /\ ticks \in Nat
         /\ xTickCount \in 0..Wrap - 1 /\ Counted \in Nat
         /\ Counted + xPendedTicks = ticks /\ (uxSchedulerSuspended = 0 => xPendedTicks = 0)
         /\ Nanoseconds(tp) \in Int /\ Nanoseconds(tp) <= Counted * NANOSECONDS_PER_TICK
<1>1. xNumOfOverflows \in Nat /\ xTickCount \in 0..Wrap - 1
  BY DEF ClockInv, TicksKept
<1>2. xNumOfOverflows * Wrap \in Nat
  BY <1>1 DEF Sizes
<1>3. Counted \in Nat
  BY <1>1, <1>2 DEF Counted, Sizes
<1> QED  BY <1>1, <1>3 DEF ClockInv, TicksKept, Counted

LEMMA ClockInitInv == ASSUME Sizes, ClockInit PROVE ClockInv
<1>1. Nanoseconds(tp) = 0
  BY DEF ClockInit, Nanoseconds, Sizes
<1> QED  BY <1>1 DEF ClockInit, ClockInv, TicksKept, Counted, Sizes

\* What the clock counts grows by what a step counts.
LEMMA CountInv ==
  ASSUME Sizes, ClockInv, NEW n \in Nat, Count(n)
  PROVE  /\ xTickCount' \in 0..Wrap - 1 /\ xNumOfOverflows' \in Nat
         /\ Counted \in Nat /\ Counted' = Counted + n
<1>1. xTickCount \in 0..Wrap - 1 /\ xNumOfOverflows \in Nat
  BY DEF ClockInv, TicksKept
<1>2. xNumOfOverflows * Wrap \in Nat
  BY <1>1 DEF Sizes
<1>3. Counted \in Nat /\ Counted = xNumOfOverflows * Wrap + xTickCount
  BY <1>1, <1>2 DEF Counted, Sizes
<1>4. /\ xTickCount' \in 0..Wrap - 1 /\ xNumOfOverflows' \in Nat
      /\ xNumOfOverflows' * Wrap + xTickCount' = xNumOfOverflows * Wrap + xTickCount + n
  <2>0. Wrap \in Nat \ {0}
    BY DEF Sizes
  <2>1. /\ (xTickCount + n) % Wrap \in 0..Wrap - 1
        /\ xNumOfOverflows + ((xTickCount + n) \div Wrap) \in Nat
        /\ (xNumOfOverflows + ((xTickCount + n) \div Wrap)) * Wrap + ((xTickCount + n) % Wrap)
             = xNumOfOverflows * Wrap + xTickCount + n
    BY <1>1, <2>0, CountAdds, Zenon
  <2> QED  BY <2>1 DEF Count
<1> QED  BY <1>2, <1>3, <1>4 DEF Counted

\* The counters move on by n ticks.
Moved(n) ==
  /\ xTickCount' \in 0..Wrap - 1 /\ xNumOfOverflows' \in Nat
  /\ Counted' = Counted + n

LEMMA ClockStepInv ==
  ASSUME Sizes, ClockInv, [ClockNext]_clockVars
  PROVE  ClockInv' /\ Nanoseconds(tp) <= Nanoseconds(tp')
<1>1. /\ xNumOfOverflows \in Nat /\ xPendedTicks \in Nat /\ uxSchedulerSuspended \in Nat
      /\ ticks \in Nat /\ xTickCount \in 0..Wrap - 1 /\ Counted \in Nat
      /\ Counted + xPendedTicks = ticks /\ (uxSchedulerSuspended = 0 => xPendedTicks = 0)
      /\ Nanoseconds(tp) \in Int /\ Nanoseconds(tp) <= Counted * NANOSECONDS_PER_TICK
  BY IInvFacts
<1>2. ASSUME NEW n \in Nat, Moved(n), UNCHANGED tp,
             xPendedTicks' \in Nat, uxSchedulerSuspended' \in Nat, ticks' \in Nat,
             Counted + n + xPendedTicks' = ticks',
             uxSchedulerSuspended' = 0 => xPendedTicks' = 0
      PROVE  ClockInv' /\ Nanoseconds(tp) <= Nanoseconds(tp')
  <2>1. Nanoseconds(tp)' = Nanoseconds(tp) /\ Nanoseconds(tp') = Nanoseconds(tp)
    BY <1>2 DEF Nanoseconds
  <2>2. Nanoseconds(tp)' <= Counted' * NANOSECONDS_PER_TICK
    BY <1>1, <1>2, <2>1 DEF Moved, Sizes
  <2>3. TicksKept'
    <3>1. Counted' + xPendedTicks' = ticks'
      BY <1>2 DEF Moved
    <3> QED  BY <1>2, <3>1 DEF TicksKept, Counted, Moved
  <2> QED  BY <1>1, <1>2, <2>1, <2>2, <2>3 DEF ClockInv, Moved
<1>3. ASSUME UNCHANGED <<xTickCount, xNumOfOverflows>> PROVE Moved(0)
  BY <1>1, <1>3 DEF Counted, Moved
<1>4. ASSUME NEW n \in Nat, Count(n) PROVE Moved(n)
  BY <1>4, CountInv DEF Moved
<1>5. CASE xTaskIncrementTick
  <2>1. CASE uxSchedulerSuspended = 0
    <3>1. Moved(1)
      BY <1>4, <1>5, <2>1 DEF xTaskIncrementTick
    <3>2. /\ UNCHANGED <<tp, xPendedTicks, uxSchedulerSuspended>> /\ ticks' = ticks + 1
      BY <1>5, <2>1 DEF xTaskIncrementTick
    <3>3. 1 \in Nat /\ Counted + 1 + xPendedTicks' = ticks' /\ ticks' \in Nat
      BY <1>1, <3>2
    <3> QED  BY <1>1, <1>2, <3>1, <3>2, <3>3
  <2>2. CASE uxSchedulerSuspended # 0
    <3>1. /\ UNCHANGED <<tp, uxSchedulerSuspended>> /\ ticks' = ticks + 1
          /\ xPendedTicks' = xPendedTicks + 1 /\ Moved(0)
      BY <1>3, <1>5, <2>2 DEF xTaskIncrementTick
    <3>2. /\ 0 \in Nat /\ Counted + 0 + xPendedTicks' = ticks' /\ ticks' \in Nat
          /\ xPendedTicks' \in Nat
      BY <1>1, <3>1
    <3> QED  BY <1>1, <1>2, <2>2, <3>1, <3>2
  <2> QED  BY <2>1, <2>2
<1>6. CASE vTaskSuspendAll
  <2>1. /\ UNCHANGED <<tp, ticks, xPendedTicks>> /\ Moved(0)
        /\ uxSchedulerSuspended' = uxSchedulerSuspended + 1
    BY <1>3, <1>6 DEF vTaskSuspendAll
  <2>2. 0 \in Nat /\ Counted + 0 + xPendedTicks' = ticks' /\ uxSchedulerSuspended' \in Nat \ {0}
    BY <1>1, <2>1
  <2> QED  BY <1>1, <1>2, <2>1, <2>2
<1>7. CASE xTaskResumeAll
  <2>1. /\ UNCHANGED <<tp, ticks>> /\ uxSchedulerSuspended > 0
        /\ uxSchedulerSuspended' = uxSchedulerSuspended - 1
    BY <1>7 DEF xTaskResumeAll
  <2>2. CASE uxSchedulerSuspended = 1
    <3>1. Moved(xPendedTicks) /\ xPendedTicks' = 0
      BY <1>1, <1>4, <1>7, <2>2 DEF xTaskResumeAll
    <3>2. Counted + xPendedTicks + xPendedTicks' = ticks' /\ uxSchedulerSuspended' \in Nat
      BY <1>1, <2>1, <3>1
    <3> QED  BY <1>1, <1>2, <2>1, <3>1, <3>2
  <2>3. CASE uxSchedulerSuspended # 1
    <3>1. Moved(0) /\ UNCHANGED xPendedTicks
      BY <1>3, <1>7, <2>3 DEF xTaskResumeAll
    <3>2. /\ 0 \in Nat /\ Counted + 0 + xPendedTicks' = ticks'
          /\ uxSchedulerSuspended' \in Nat \ {0}
      BY <1>1, <2>1, <2>3, <3>1
    <3> QED  BY <1>1, <1>2, <2>1, <3>1, <3>2
  <2> QED  BY <2>2, <2>3
<1>8. CASE clock_gettime
  <2>1. UNCHANGED <<xTickCount, xNumOfOverflows, xPendedTicks, uxSchedulerSuspended, ticks>>
    BY <1>8 DEF clock_gettime
  <2>2. Counted * NANOSECONDS_PER_TICK \in Int
    BY <1>1 DEF Sizes
  <2>3. Nanoseconds(tp') = Counted * NANOSECONDS_PER_TICK
    BY <1>8, <2>2, TimespecExact DEF clock_gettime, Counted
  <2>4. Nanoseconds(tp)' = Nanoseconds(tp')
    BY DEF Nanoseconds
  <2>5. Counted' = Counted /\ TicksKept'
    BY <2>1 DEF Counted, TicksKept, ClockInv
  <2> QED  BY <1>1, <2>1, <2>2, <2>3, <2>4, <2>5 DEF ClockInv
<1>9. CASE UNCHANGED clockVars
  <2>1. Moved(0) /\ UNCHANGED <<tp, xPendedTicks, uxSchedulerSuspended, ticks>>
    BY <1>3, <1>9 DEF clockVars
  <2>2. 0 \in Nat /\ Counted + 0 + xPendedTicks' = ticks'
    BY <1>1, <2>1
  <2> QED  BY <1>1, <1>2, <2>1, <2>2
<1> QED  BY <1>5, <1>6, <1>7, <1>8, <1>9 DEF ClockNext

\* No tick is lost or counted twice by the two counters, across the wrap and while the
\* scheduler is suspended.
THEOREM TicksAreKept ==
  ASSUME Sizes
  PROVE  ClockSpec => []TicksKept
<1>1. ClockInit => ClockInv
  BY ClockInitInv
<1>2. ClockInv /\ [ClockNext]_clockVars => ClockInv'
  BY ClockStepInv
<1>3. ClockInv => TicksKept
  BY DEF ClockInv
<1> QED  BY <1>1, <1>2, <1>3, PTL DEF ClockSpec

\* clock_gettime never returns a time before one it has returned.
THEOREM ClockNeverBack ==
  ASSUME Sizes
  PROVE  ClockSpec => NeverBack
<1>1. ClockInit => ClockInv
  BY ClockInitInv
<1>2. ClockInv /\ [ClockNext]_clockVars => ClockInv'
  BY ClockStepInv
<1>3. ClockInv /\ [ClockNext]_clockVars => [Nanoseconds(tp) <= Nanoseconds(tp')]_tp
  BY ClockStepInv
<1> QED  BY <1>1, <1>2, <1>3, PTL DEF ClockSpec, NeverBack

\* Nor one that has not come yet.
THEOREM ClockNeverAhead ==
  ASSUME Sizes
  PROVE  ClockSpec => []NeverAhead
<1>1. ClockInit => ClockInv
  BY ClockInitInv
<1>2. ClockInv /\ [ClockNext]_clockVars => ClockInv'
  BY ClockStepInv
<1>3. ClockInv => NeverAhead
  <2> SUFFICES ASSUME ClockInv PROVE NeverAhead
    OBVIOUS
  <2>1. /\ Counted \in Nat /\ xPendedTicks \in Nat /\ Counted + xPendedTicks = ticks
        /\ Nanoseconds(tp) \in Int /\ Nanoseconds(tp) <= Counted * NANOSECONDS_PER_TICK
    BY IInvFacts
  <2>2. ticks * NANOSECONDS_PER_TICK
          = Counted * NANOSECONDS_PER_TICK + xPendedTicks * NANOSECONDS_PER_TICK
    BY <2>1 DEF Sizes
  <2>3. Counted * NANOSECONDS_PER_TICK \in Nat /\ xPendedTicks * NANOSECONDS_PER_TICK \in Nat
    BY <2>1 DEF Sizes
  <2> QED  BY <2>1, <2>2, <2>3 DEF NeverAhead
<1> QED  BY <1>1, <1>2, <1>3, PTL DEF ClockSpec
===============================================================================
