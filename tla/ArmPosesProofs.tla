---------------------------- MODULE ArmPosesProofs ----------------------------
(* The arm is safe whatever poses are asked for, in whatever order and at whatever *)
(* time: every pose is safe from where any other may have left the arm.            *)
EXTENDS ArmPoses, SequenceTheorems, TLAPS

\* The actions of the table.
Acts ==
  {a \in [id : 1..5 \cup {Push, Lift}, value : Nat] :
     /\ a.id = 2 => a.value \in {170, 550, 940}
     /\ a.id = 3 => a.value \in {Middle, Side}
     /\ a.id = 4 => a.value \in {Level, Raised}
     /\ a.id = 5 => a.value \in {Opened, Closed}}

\* Where the arm is: which way it points, and how high.
Places == [swing : {Middle, Side}, height : {300, Level, Raised}]

Now == [swing |-> arm[3], height |-> arm[4]]

Clear(s) == s.swing = Middle \/ s.height = Raised

\* What an action does to the arm, and when it may.
After(s, a) ==
  [swing |-> IF a.id = 3 THEN a.value ELSE s.swing,
   height |-> IF a.id = 4 THEN a.value ELSE s.height]

Allowed(s, a) ==
  /\ a.id = 3 /\ a.value # s.swing => s.height = Raised
  /\ a.id = 2 => Clear(s)

\* The places that the actions q lead through from s, each of them allowed.
Path(p, s, q) ==
  /\ p \in [0..Len(q) -> Places] /\ p[0] = s
  /\ \A i \in 1..Len(q) : Allowed(p[i - 1], q[i]) /\ p[i] = After(p[i - 1], q[i])

Safe(s, q) == \E p \in [0..Len(q) -> Places] : Path(p, s, q) /\ Clear(p[Len(q)])

\* What is planned, in the queue and by the ROS task, is safe to its end.
IInv ==
  /\ queue \in Seq(Acts) /\ todo \in Seq(Acts)
  /\ arm \in [Tracked -> Nat] /\ Now \in Places
  /\ arm[2] \in {170, 550, 940} /\ arm[5] \in {Opened, Closed}
  /\ Safe(Now, queue \o todo)
-------------------------------------------------------------------------------
(* Sequences of actions.                                                     *)

\* A safe sequence stays safe when a sequence follows that is safe from every place
\* that is clear.
LEMMA SafeConcat ==
  ASSUME NEW s, NEW q \in Seq(Acts), NEW r \in Seq(Acts), Safe(s, q),
         \A t \in Places : Clear(t) => Safe(t, r)
  PROVE  Safe(s, q \o r)
<1> DEFINE m == Len(q)
           n == Len(r)
<1>1. PICK p \in [0..m -> Places] : Path(p, s, q) /\ Clear(p[m])
  BY DEF Safe
<1>2. m \in Nat /\ n \in Nat /\ p[m] \in Places
  OBVIOUS
<1>3. PICK o \in [0..n -> Places] : Path(o, p[m], r) /\ Clear(o[n])
  BY <1>1, <1>2 DEF Safe
<1> DEFINE w == [i \in 0..(m + n) |-> IF i <= m THEN p[i] ELSE o[i - m]]
<1>4. Len(q \o r) = m + n /\ \A i \in 1..(m + n) :
        (q \o r)[i] = IF i <= m THEN q[i] ELSE r[i - m]
  OBVIOUS
<1>5. w \in [0..(m + n) -> Places]
  BY <1>2
<1>6. o[0] = p[m] /\ p[0] = s
  BY <1>1, <1>3 DEF Path
<1>7. ASSUME NEW i \in 1..(m + n)
      PROVE  Allowed(w[i - 1], (q \o r)[i]) /\ w[i] = After(w[i - 1], (q \o r)[i])
  <2>1. CASE i <= m
    <3>1. i \in 1..m /\ w[i - 1] = p[i - 1] /\ w[i] = p[i] /\ (q \o r)[i] = q[i]
      BY <1>2, <1>4, <2>1
    <3>2. Allowed(p[i - 1], q[i]) /\ p[i] = After(p[i - 1], q[i])
      BY <1>1, <3>1 DEF Path
    <3> QED  BY <3>1, <3>2
  <2>2. CASE i > m
    <3>1. i - m \in 1..n /\ w[i] = o[i - m] /\ (q \o r)[i] = r[i - m]
      BY <1>2, <1>4, <2>2
    <3>2. w[i - 1] = o[(i - m) - 1]
      BY <1>2, <1>6, <2>2
    <3>3. Allowed(o[(i - m) - 1], r[i - m]) /\ o[i - m] = After(o[(i - m) - 1], r[i - m])
      BY <1>3, <3>1 DEF Path
    <3> QED  BY <3>1, <3>2, <3>3
  <2> QED  BY <1>2, <2>1, <2>2
<1>8. w[0] = s
  BY <1>2, <1>6
<1>9. Clear(w[m + n])
  <2>1. CASE n = 0
    BY <1>1, <1>2, <2>1
  <2>2. CASE n > 0
    BY <1>2, <1>3, <2>2
  <2> QED  BY <1>2, <2>1, <2>2
<1> HIDE DEF w
<1>10. Path(w, s, q \o r)
  BY <1>4, <1>5, <1>7, <1>8 DEF Path
<1> QED  BY <1>4, <1>5, <1>9, <1>10 DEF Safe

\* What is left of a safe sequence is safe from where the first action leads.
LEMMA SafeTail ==
  ASSUME NEW s, NEW q \in Seq(Acts), q # <<>>, Safe(s, q)
  PROVE  /\ Allowed(s, q[1])
         /\ After(s, q[1]) \in Places
         /\ Safe(After(s, q[1]), Tail(q))
<1> DEFINE n == Len(q)
<1>1. n \in Nat /\ n >= 1
  OBVIOUS
<1>2. PICK p \in [0..n -> Places] : Path(p, s, q) /\ Clear(p[n])
  BY DEF Safe
<1>3. p[0] = s /\ 1 \in 1..n /\ \A i \in 1..n : /\ Allowed(p[i - 1], q[i])
                                                /\ p[i] = After(p[i - 1], q[i])
  BY <1>1, <1>2 DEF Path
<1>4. Allowed(s, q[1]) /\ p[1] = After(s, q[1])
  <2>1. Allowed(p[1 - 1], q[1]) /\ p[1] = After(p[1 - 1], q[1])
    BY <1>3
  <2> QED  BY <1>3, <2>1
<1>5. p[1] \in Places
  BY <1>1
<1> DEFINE w == [i \in 0..(n - 1) |-> p[i + 1]]
<1>6. Len(Tail(q)) = n - 1 /\ \A i \in 1..(n - 1) : Tail(q)[i] = q[i + 1]
  BY <1>1
<1>7. w \in [0..(n - 1) -> Places] /\ w[0] = p[1] /\ w[n - 1] = p[n]
  BY <1>1
<1>8. ASSUME NEW i \in 1..(n - 1)
      PROVE  Allowed(w[i - 1], Tail(q)[i]) /\ w[i] = After(w[i - 1], Tail(q)[i])
  <2>1. i + 1 \in 1..n /\ w[i - 1] = p[(i + 1) - 1] /\ w[i] = p[i + 1]
    BY <1>1
  <2>2. Allowed(p[(i + 1) - 1], q[i + 1]) /\ p[i + 1] = After(p[(i + 1) - 1], q[i + 1])
    BY <1>3, <2>1
  <2> QED  BY <1>6, <2>1, <2>2
<1> HIDE DEF w
<1>9. Path(w, p[1], Tail(q))
  BY <1>6, <1>7, <1>8 DEF Path
<1> QED  BY <1>2, <1>4, <1>5, <1>6, <1>7, <1>9 DEF Safe
-------------------------------------------------------------------------------
(* Every pose is safe from every place that is clear.                        *)

\* The places may be given.
LEMMA SafeByPlaces ==
  ASSUME NEW s, NEW q, NEW n \in Nat, Len(q) = n, NEW p \in [0..n -> Places],
         p[0] = s, Clear(p[n]),
         \A i \in 1..n : Allowed(p[i - 1], q[i]) /\ p[i] = After(p[i - 1], q[i])
  PROVE  Safe(s, q)
BY DEF Safe, Path

\* Actions that neither swing the arm nor raise nor lower it nor turn the tray.
LEMMA OthersSafe ==
  ASSUME NEW s \in Places, Clear(s), NEW q \in Seq(Acts),
         \A i \in 1..Len(q) : q[i].id \notin 2..4
  PROVE  Safe(s, q)
<1> DEFINE n == Len(q)
           p == [i \in 0..n |-> s]
<1>1. n \in Nat /\ p \in [0..n -> Places] /\ p[0] = s /\ p[n] = s
  OBVIOUS
<1>2. s = [swing |-> s.swing, height |-> s.height]
  BY DEF Places
<1>3. ASSUME NEW i \in 1..n
      PROVE  Allowed(p[i - 1], q[i]) /\ p[i] = After(p[i - 1], q[i])
  <2>1. p[i - 1] = s /\ p[i] = s /\ q[i].id \notin 2..4
    BY <1>1
  <2> HIDE DEF p
  <2> QED  BY <1>2, <2>1 DEF Allowed, After
<1> HIDE DEF p
<1> QED  BY <1>1, <1>3, SafeByPlaces

LEMMA PutSafe ==
  ASSUME NEW s \in Places, Clear(s), NEW slot \in {170, 550, 940}
  PROVE  Put(slot) \in Seq(Acts) /\ Safe(s, Put(slot))
<1> DEFINE q == Put(slot)
           p == [i \in 0..10 |->
                  [swing |-> IF i < 5 THEN s.swing ELSE Side,
                   height |-> IF i < 4 THEN s.height ELSE IF i < 6 THEN Raised
                              ELSE IF i < 9 THEN Level ELSE Raised]]
<1>1. /\ Len(q) = 10
      /\ q[1] = A(2, slot) /\ q[2] = A(Push, 9736) /\ q[3] = A(Lift, Home)
      /\ q[4] = A(4, Raised) /\ q[5] = A(3, Side) /\ q[6] = A(4, Level)
      /\ q[7] = A(Lift, 5263) /\ q[8] = A(5, Opened) /\ q[9] = A(4, Raised)
      /\ q[10] = A(Lift, Home)
  BY DEF Put
<1>2. q \in Seq(Acts)
  BY DEF Put, A, Acts, Push, Lift, Home, Raised, Side, Level, Middle, Opened, Closed
<1>3. p \in [0..10 -> Places]
  BY DEF Places, Side, Level, Raised, Middle
<1>4. p[0] = s /\ Clear(p[10])
  BY DEF Places, Clear
<1> HIDE DEF q
<1>5. ASSUME NEW i \in 1..10
      PROVE  Allowed(p[i - 1], q[i]) /\ p[i] = After(p[i - 1], q[i])
  <2>1. /\ q[i].id = 2 => i = 1
        /\ IF i = 5 THEN q[i].id = 3 /\ q[i].value = Side ELSE q[i].id # 3
        /\ IF i \in {4, 6, 9} THEN q[i].id = 4 /\ q[i].value = (IF i = 4 THEN Raised
                                                                ELSE (IF i = 6 THEN Level ELSE Raised))
           ELSE q[i].id # 4
    BY <1>1 DEF A, Push, Lift
  <2>2. /\ p[i - 1] = [swing |-> IF i < 6 THEN s.swing ELSE Side,
                       height |-> IF i < 5 THEN s.height ELSE IF i < 7 THEN Raised
                                  ELSE IF i < 10 THEN Level ELSE Raised]
        /\ p[i] = [swing |-> IF i < 5 THEN s.swing ELSE Side,
                   height |-> IF i < 4 THEN s.height ELSE IF i < 6 THEN Raised
                              ELSE IF i < 9 THEN Level ELSE Raised]
    OBVIOUS
  <2> HIDE DEF p
  <2>3. Allowed(p[i - 1], q[i])
    BY <2>1, <2>2 DEF Allowed, Clear
  <2>4. p[i] = After(p[i - 1], q[i])
    BY <2>1, <2>2 DEF After
  <2> QED  BY <2>3, <2>4
<1> HIDE DEF p
<1>6. Len(q) = 10
  BY <1>1
<1>7. Path(p, s, q)
  BY <1>3, <1>4, <1>5, <1>6 DEF Path
<1>8. Safe(s, q)
  BY <1>3, <1>4, <1>6, <1>7 DEF Safe
<1> QED  BY <1>2, <1>8 DEF q

LEMMA GrabSafe ==
  ASSUME NEW s \in Places, Clear(s), NEW slot \in {170, 550, 940}
  PROVE  Grab(slot) \in Seq(Acts) /\ Safe(s, Grab(slot))
<1> DEFINE q == Grab(slot)
           p == [i \in 0..11 |->
                  [swing |-> IF i < 6 THEN s.swing ELSE Side,
                   height |-> IF i < 5 THEN s.height ELSE IF i < 7 THEN Raised
                              ELSE IF i < 11 THEN Level ELSE Raised]]
<1>1. /\ Len(q) = 11
      /\ q[1] = A(2, slot) /\ q[2] = A(Push, 9736) /\ q[3] = A(Lift, Home)
      /\ q[4] = A(5, Opened) /\ q[5] = A(4, Raised) /\ q[6] = A(3, Side)
      /\ q[7] = A(4, Level) /\ q[8] = A(Lift, 6578) /\ q[9] = A(5, Closed)
      /\ q[10] = A(Lift, Home) /\ q[11] = A(4, Raised)
  BY DEF Grab
<1>2. q \in Seq(Acts)
  BY DEF Grab, A, Acts, Push, Lift, Home, Raised, Side, Level, Middle, Opened, Closed
<1>3. p \in [0..11 -> Places]
  BY DEF Places, Side, Level, Raised, Middle
<1>4. p[0] = s /\ Clear(p[11])
  BY DEF Places, Clear
<1> HIDE DEF q
<1>5. ASSUME NEW i \in 1..11
      PROVE  Allowed(p[i - 1], q[i]) /\ p[i] = After(p[i - 1], q[i])
  <2>1. /\ q[i].id = 2 => i = 1
        /\ IF i = 6 THEN q[i].id = 3 /\ q[i].value = Side ELSE q[i].id # 3
        /\ IF i \in {5, 7, 11} THEN q[i].id = 4 /\ q[i].value = (IF i = 5 THEN Raised
                                                                 ELSE (IF i = 7 THEN Level ELSE Raised))
           ELSE q[i].id # 4
    BY <1>1 DEF A, Push, Lift
  <2>2. /\ p[i - 1] = [swing |-> IF i < 7 THEN s.swing ELSE Side,
                       height |-> IF i < 6 THEN s.height ELSE IF i < 8 THEN Raised
                                  ELSE IF i < 12 THEN Level ELSE Raised]
        /\ p[i] = [swing |-> IF i < 6 THEN s.swing ELSE Side,
                   height |-> IF i < 5 THEN s.height ELSE IF i < 7 THEN Raised
                              ELSE IF i < 11 THEN Level ELSE Raised]
    OBVIOUS
  <2> HIDE DEF p
  <2>3. Allowed(p[i - 1], q[i])
    BY <2>1, <2>2 DEF Allowed, Clear
  <2>4. p[i] = After(p[i - 1], q[i])
    BY <2>1, <2>2 DEF After
  <2> QED  BY <2>3, <2>4
<1> HIDE DEF p
<1>6. Len(q) = 11
  BY <1>1
<1>7. Path(p, s, q)
  BY <1>3, <1>4, <1>5, <1>6 DEF Path
<1>8. Safe(s, q)
  BY <1>3, <1>4, <1>6, <1>7 DEF Safe
<1> QED  BY <1>2, <1>8 DEF q

LEMMA CameraSafe ==
  ASSUME NEW s \in Places, Clear(s)
  PROVE  Servo_Camera \in Seq(Acts) /\ Safe(s, Servo_Camera)
<1> DEFINE q == Servo_Camera
           p == [i \in 0..3 |->
                  [swing |-> IF i < 2 THEN s.swing ELSE Side,
                   height |-> IF i < 1 THEN s.height ELSE Raised]]
<1>1. /\ Len(q) = 3
      /\ q[1] = A(4, Raised) /\ q[2] = A(3, Side) /\ q[3] = A(Push, 33421)
  BY DEF Servo_Camera
<1>2. q \in Seq(Acts)
  BY DEF Servo_Camera, A, Acts, Push, Lift, Home, Raised, Side, Level, Middle, Opened, Closed
<1>3. p \in [0..3 -> Places]
  BY DEF Places, Side, Level, Raised, Middle
<1>4. p[0] = s /\ Clear(p[3])
  BY DEF Places, Clear
<1> HIDE DEF q
<1>5. ASSUME NEW i \in 1..3
      PROVE  Allowed(p[i - 1], q[i]) /\ p[i] = After(p[i - 1], q[i])
  <2>1. /\ q[i].id # 2
        /\ IF i = 2 THEN q[i].id = 3 /\ q[i].value = Side ELSE q[i].id # 3
        /\ IF i = 1 THEN q[i].id = 4 /\ q[i].value = Raised
           ELSE q[i].id # 4
    BY <1>1 DEF A, Push, Lift
  <2>2. /\ p[i - 1] = [swing |-> IF i < 3 THEN s.swing ELSE Side,
                       height |-> IF i < 2 THEN s.height ELSE Raised]
        /\ p[i] = [swing |-> IF i < 2 THEN s.swing ELSE Side,
                   height |-> IF i < 1 THEN s.height ELSE Raised]
    OBVIOUS
  <2> HIDE DEF p
  <2>3. Allowed(p[i - 1], q[i])
    BY <2>1, <2>2 DEF Allowed, Clear
  <2>4. p[i] = After(p[i - 1], q[i])
    BY <2>1, <2>2 DEF After
  <2> QED  BY <2>3, <2>4
<1> HIDE DEF p
<1>6. Len(q) = 3
  BY <1>1
<1>7. Path(p, s, q)
  BY <1>3, <1>4, <1>5, <1>6 DEF Path
<1>8. Safe(s, q)
  BY <1>3, <1>4, <1>6, <1>7 DEF Safe
<1> QED  BY <1>2, <1>8 DEF q

LEMMA Camera1Safe ==
  ASSUME NEW s \in Places, Clear(s)
  PROVE  Servo_Camera1 \in Seq(Acts) /\ Safe(s, Servo_Camera1)
<1> DEFINE q == Servo_Camera1
           p == [i \in 0..2 |->
                  [swing |-> IF i < 2 THEN s.swing ELSE Middle,
                   height |-> IF i < 1 THEN s.height ELSE Raised]]
<1>1. /\ Len(q) = 2
      /\ q[1] = A(4, Raised) /\ q[2] = A(3, Middle)
  BY DEF Servo_Camera1
<1>2. q \in Seq(Acts)
  BY DEF Servo_Camera1, A, Acts, Push, Lift, Home, Raised, Side, Level, Middle, Opened, Closed
<1>3. p \in [0..2 -> Places]
  BY DEF Places, Side, Level, Raised, Middle
<1>4. p[0] = s /\ Clear(p[2])
  BY DEF Places, Clear
<1> HIDE DEF q
<1>5. ASSUME NEW i \in 1..2
      PROVE  Allowed(p[i - 1], q[i]) /\ p[i] = After(p[i - 1], q[i])
  <2>1. /\ q[i].id # 2
        /\ IF i = 2 THEN q[i].id = 3 /\ q[i].value = Middle ELSE q[i].id # 3
        /\ IF i = 1 THEN q[i].id = 4 /\ q[i].value = Raised
           ELSE q[i].id # 4
    BY <1>1 DEF A, Push, Lift
  <2>2. /\ p[i - 1] = [swing |-> IF i < 3 THEN s.swing ELSE Middle,
                       height |-> IF i < 2 THEN s.height ELSE Raised]
        /\ p[i] = [swing |-> IF i < 2 THEN s.swing ELSE Middle,
                   height |-> IF i < 1 THEN s.height ELSE Raised]
    OBVIOUS
  <2> HIDE DEF p
  <2>3. Allowed(p[i - 1], q[i])
    BY <2>1, <2>2 DEF Allowed, Clear
  <2>4. p[i] = After(p[i - 1], q[i])
    BY <2>1, <2>2 DEF After
  <2> QED  BY <2>3, <2>4
<1> HIDE DEF p
<1>6. Len(q) = 2
  BY <1>1
<1>7. Path(p, s, q)
  BY <1>3, <1>4, <1>5, <1>6 DEF Path
<1>8. Safe(s, q)
  BY <1>3, <1>4, <1>6, <1>7 DEF Safe
<1> QED  BY <1>2, <1>8 DEF q

LEMMA AllMiddleSafe ==
  ASSUME NEW s \in Places, Clear(s)
  PROVE  All_Middle \in Seq(Acts) /\ Safe(s, All_Middle)
<1> DEFINE q == All_Middle
           p == [i \in 0..2 |->
                  [swing |-> IF i < 1 THEN s.swing ELSE Middle,
                   height |-> IF i < 2 THEN s.height ELSE Level]]
<1>1. /\ Len(q) = 2
      /\ q[1] = A(3, Middle) /\ q[2] = A(4, Level)
  BY DEF All_Middle
<1>2. q \in Seq(Acts)
  BY DEF All_Middle, A, Acts, Push, Lift, Home, Raised, Side, Level, Middle, Opened, Closed
<1>3. p \in [0..2 -> Places]
  BY DEF Places, Side, Level, Raised, Middle
<1>4. p[0] = s /\ Clear(p[2])
  BY DEF Places, Clear
<1> HIDE DEF q
<1>5. ASSUME NEW i \in 1..2
      PROVE  Allowed(p[i - 1], q[i]) /\ p[i] = After(p[i - 1], q[i])
  <2>1. /\ q[i].id # 2
        /\ IF i = 1 THEN q[i].id = 3 /\ q[i].value = Middle ELSE q[i].id # 3
        /\ IF i = 2 THEN q[i].id = 4 /\ q[i].value = Level
           ELSE q[i].id # 4
    BY <1>1 DEF A, Push, Lift
  <2>2. /\ p[i - 1] = [swing |-> IF i < 2 THEN s.swing ELSE Middle,
                       height |-> IF i < 3 THEN s.height ELSE Level]
        /\ p[i] = [swing |-> IF i < 1 THEN s.swing ELSE Middle,
                   height |-> IF i < 2 THEN s.height ELSE Level]
    OBVIOUS
  <2> HIDE DEF p
  <2>3. Allowed(p[i - 1], q[i])
    BY <2>1, <2>2 DEF Allowed, Clear
  <2>4. p[i] = After(p[i - 1], q[i])
    BY <2>1, <2>2 DEF After
  <2> QED  BY <2>3, <2>4
<1> HIDE DEF p
<1>6. Len(q) = 2
  BY <1>1
<1>7. Path(p, s, q)
  BY <1>3, <1>4, <1>5, <1>6 DEF Path
<1>8. Safe(s, q)
  BY <1>3, <1>4, <1>6, <1>7 DEF Safe
<1> QED  BY <1>2, <1>8 DEF q

LEMMA InitPosSafe ==
  ASSUME NEW s \in Places, Clear(s)
  PROVE  Servo_InitPos \in Seq(Acts) /\ Safe(s, Servo_InitPos)
<1> DEFINE q == Servo_InitPos
           p == [i \in 0..5 |->
                  [swing |-> IF i < 2 THEN s.swing ELSE Middle,
                   height |-> IF i < 3 THEN s.height ELSE Level]]
<1>1. /\ Len(q) = 5
      /\ q[1] = A(1, 2200) /\ q[2] = A(3, Middle) /\ q[3] = A(4, Level)
      /\ q[4] = A(2, 170) /\ q[5] = A(5, Closed)
  BY DEF Servo_InitPos
<1>2. q \in Seq(Acts)
  BY DEF Servo_InitPos, A, Acts, Push, Lift, Home, Raised, Side, Level, Middle, Opened, Closed
<1>3. p \in [0..5 -> Places]
  BY DEF Places, Side, Level, Raised, Middle
<1>4. p[0] = s /\ Clear(p[5])
  BY DEF Places, Clear
<1> HIDE DEF q
<1>5. ASSUME NEW i \in 1..5
      PROVE  Allowed(p[i - 1], q[i]) /\ p[i] = After(p[i - 1], q[i])
  <2>1. /\ q[i].id = 2 => i = 4
        /\ IF i = 2 THEN q[i].id = 3 /\ q[i].value = Middle ELSE q[i].id # 3
        /\ IF i = 3 THEN q[i].id = 4 /\ q[i].value = Level
           ELSE q[i].id # 4
    BY <1>1 DEF A, Push, Lift
  <2>2. /\ p[i - 1] = [swing |-> IF i < 3 THEN s.swing ELSE Middle,
                       height |-> IF i < 4 THEN s.height ELSE Level]
        /\ p[i] = [swing |-> IF i < 2 THEN s.swing ELSE Middle,
                   height |-> IF i < 3 THEN s.height ELSE Level]
    OBVIOUS
  <2> HIDE DEF p
  <2>3. Allowed(p[i - 1], q[i])
    BY <2>1, <2>2 DEF Allowed, Clear
  <2>4. p[i] = After(p[i - 1], q[i])
    BY <2>1, <2>2 DEF After
  <2> QED  BY <2>3, <2>4
<1> HIDE DEF p
<1>6. Len(q) = 5
  BY <1>1
<1>7. Path(p, s, q)
  BY <1>3, <1>4, <1>5, <1>6 DEF Path
<1>8. Safe(s, q)
  BY <1>3, <1>4, <1>6, <1>7 DEF Safe
<1> QED  BY <1>2, <1>8 DEF q

LEMMA GrabUpperSafe ==
  ASSUME NEW s \in Places, Clear(s)
  PROVE  Servo_Grab_Upper \in Seq(Acts) /\ Safe(s, Servo_Grab_Upper)
<1> DEFINE q == Servo_Grab_Upper
           p == [i \in 0..7 |->
                  [swing |-> IF i < 2 THEN s.swing ELSE Middle,
                   height |-> IF i < 1 THEN s.height ELSE IF i < 6 THEN Raised ELSE Level]]
<1>1. /\ Len(q) = 7
      /\ q[1] = A(4, Raised) /\ q[2] = A(3, Middle) /\ q[3] = A(Push, 33421)
      /\ q[4] = A(5, Opened) /\ q[5] = A(Lift, 6578) /\ q[6] = A(4, Level)
      /\ q[7] = A(5, Closed)
  BY DEF Servo_Grab_Upper
<1>2. q \in Seq(Acts)
  BY DEF Servo_Grab_Upper, A, Acts, Push, Lift, Home, Raised, Side, Level,
      Middle, Opened, Closed
<1>3. p \in [0..7 -> Places]
  BY DEF Places, Side, Level, Raised, Middle
<1>4. p[0] = s /\ Clear(p[7])
  BY DEF Places, Clear
<1> HIDE DEF q
<1>5. ASSUME NEW i \in 1..7
      PROVE  Allowed(p[i - 1], q[i]) /\ p[i] = After(p[i - 1], q[i])
  <2>1. /\ q[i].id # 2
        /\ IF i = 2 THEN q[i].id = 3 /\ q[i].value = Middle ELSE q[i].id # 3
        /\ IF i \in {1, 6} THEN q[i].id = 4 /\ q[i].value = (IF i = 1 THEN Raised ELSE Level)
           ELSE q[i].id # 4
    BY <1>1 DEF A, Push, Lift
  <2>2. /\ p[i - 1] = [swing |-> IF i < 3 THEN s.swing ELSE Middle,
                       height |-> IF i < 2 THEN s.height ELSE IF i < 7 THEN Raised ELSE Level]
        /\ p[i] = [swing |-> IF i < 2 THEN s.swing ELSE Middle,
                   height |-> IF i < 1 THEN s.height ELSE IF i < 6 THEN Raised ELSE Level]
    OBVIOUS
  <2> HIDE DEF p
  <2>3. Allowed(p[i - 1], q[i])
    BY <2>1, <2>2 DEF Allowed, Clear
  <2>4. p[i] = After(p[i - 1], q[i])
    BY <2>1, <2>2 DEF After
  <2> QED  BY <2>3, <2>4
<1> HIDE DEF p
<1>6. Len(q) = 7
  BY <1>1
<1>7. Path(p, s, q)
  BY <1>3, <1>4, <1>5, <1>6 DEF Path
<1>8. Safe(s, q)
  BY <1>3, <1>4, <1>6, <1>7 DEF Safe
<1> QED  BY <1>2, <1>8 DEF q

LEMMA GrabLowerSafe ==
  ASSUME NEW s \in Places, Clear(s)
  PROVE  Servo_Grab_Lower \in Seq(Acts) /\ Safe(s, Servo_Grab_Lower)
<1> DEFINE q == Servo_Grab_Lower
           p == [i \in 0..5 |->
                  [swing |-> IF i < 2 THEN s.swing ELSE Middle,
                   height |-> IF i < 3 THEN s.height ELSE Level]]
<1>1. /\ Len(q) = 5
      /\ q[1] = A(Push, 33421) /\ q[2] = A(3, Middle) /\ q[3] = A(4, Level)
      /\ q[4] = A(5, Opened) /\ q[5] = A(Lift, 39473)
  BY DEF Servo_Grab_Lower
<1>2. q \in Seq(Acts)
  BY DEF Servo_Grab_Lower, A, Acts, Push, Lift, Home, Raised, Side, Level,
      Middle, Opened, Closed
<1>3. p \in [0..5 -> Places]
  BY DEF Places, Side, Level, Raised, Middle
<1>4. p[0] = s /\ Clear(p[5])
  BY DEF Places, Clear
<1> HIDE DEF q
<1>5. ASSUME NEW i \in 1..5
      PROVE  Allowed(p[i - 1], q[i]) /\ p[i] = After(p[i - 1], q[i])
  <2>1. /\ q[i].id # 2
        /\ IF i = 2 THEN q[i].id = 3 /\ q[i].value = Middle ELSE q[i].id # 3
        /\ IF i = 3 THEN q[i].id = 4 /\ q[i].value = Level
           ELSE q[i].id # 4
    BY <1>1 DEF A, Push, Lift
  <2>2. /\ p[i - 1] = [swing |-> IF i < 3 THEN s.swing ELSE Middle,
                       height |-> IF i < 4 THEN s.height ELSE Level]
        /\ p[i] = [swing |-> IF i < 2 THEN s.swing ELSE Middle,
                   height |-> IF i < 3 THEN s.height ELSE Level]
    OBVIOUS
  <2> HIDE DEF p
  <2>3. Allowed(p[i - 1], q[i])
    BY <2>1, <2>2 DEF Allowed, Clear
  <2>4. p[i] = After(p[i - 1], q[i])
    BY <2>1, <2>2 DEF After
  <2> QED  BY <2>3, <2>4
<1> HIDE DEF p
<1>6. Len(q) = 5
  BY <1>1
<1>7. Path(p, s, q)
  BY <1>3, <1>4, <1>5, <1>6 DEF Path
<1>8. Safe(s, q)
  BY <1>3, <1>4, <1>6, <1>7 DEF Safe
<1> QED  BY <1>2, <1>8 DEF q

LEMMA GrabGroundSafe ==
  ASSUME NEW s \in Places, Clear(s)
  PROVE  Servo_Grab_Ground \in Seq(Acts) /\ Safe(s, Servo_Grab_Ground)
<1> DEFINE q == Servo_Grab_Ground
           p == [i \in 0..6 |->
                  [swing |-> IF i < 1 THEN s.swing ELSE Middle,
                   height |-> IF i < 2 THEN s.height ELSE Level]]
<1>1. /\ Len(q) = 6
      /\ q[1] = A(3, Middle) /\ q[2] = A(4, Level) /\ q[3] = A(5, Opened)
      /\ q[4] = A(Lift, 48684) /\ q[5] = A(5, Closed) /\ q[6] = A(Lift, 4210)
  BY DEF Servo_Grab_Ground
<1>2. q \in Seq(Acts)
  BY DEF Servo_Grab_Ground, A, Acts, Push, Lift, Home, Raised, Side, Level,
      Middle, Opened, Closed
<1>3. p \in [0..6 -> Places]
  BY DEF Places, Side, Level, Raised, Middle
<1>4. p[0] = s /\ Clear(p[6])
  BY DEF Places, Clear
<1> HIDE DEF q
<1>5. ASSUME NEW i \in 1..6
      PROVE  Allowed(p[i - 1], q[i]) /\ p[i] = After(p[i - 1], q[i])
  <2>1. /\ q[i].id # 2
        /\ IF i = 1 THEN q[i].id = 3 /\ q[i].value = Middle ELSE q[i].id # 3
        /\ IF i = 2 THEN q[i].id = 4 /\ q[i].value = Level
           ELSE q[i].id # 4
    BY <1>1 DEF A, Push, Lift
  <2>2. /\ p[i - 1] = [swing |-> IF i < 2 THEN s.swing ELSE Middle,
                       height |-> IF i < 3 THEN s.height ELSE Level]
        /\ p[i] = [swing |-> IF i < 1 THEN s.swing ELSE Middle,
                   height |-> IF i < 2 THEN s.height ELSE Level]
    OBVIOUS
  <2> HIDE DEF p
  <2>3. Allowed(p[i - 1], q[i])
    BY <2>1, <2>2 DEF Allowed, Clear
  <2>4. p[i] = After(p[i - 1], q[i])
    BY <2>1, <2>2 DEF After
  <2> QED  BY <2>3, <2>4
<1> HIDE DEF p
<1>6. Len(q) = 6
  BY <1>1
<1>7. Path(p, s, q)
  BY <1>3, <1>4, <1>5, <1>6 DEF Path
<1>8. Safe(s, q)
  BY <1>3, <1>4, <1>6, <1>7 DEF Safe
<1> QED  BY <1>2, <1>8 DEF q

LEMMA PutLowerSafe ==
  ASSUME NEW s \in Places, Clear(s)
  PROVE  Servo_Put_Lower \in Seq(Acts) /\ Safe(s, Servo_Put_Lower)
<1> DEFINE q == Servo_Put_Lower
           p == [i \in 0..5 |->
                  [swing |-> IF i < 1 THEN s.swing ELSE Middle,
                   height |-> IF i < 2 THEN s.height ELSE Level]]
<1>1. /\ Len(q) = 5
      /\ q[1] = A(3, Middle) /\ q[2] = A(4, Level) /\ q[3] = A(Lift, 48684)
      /\ q[4] = A(5, Opened) /\ q[5] = A(Lift, Home)
  BY DEF Servo_Put_Lower
<1>2. q \in Seq(Acts)
  BY DEF Servo_Put_Lower, A, Acts, Push, Lift, Home, Raised, Side, Level,
      Middle, Opened, Closed
<1>3. p \in [0..5 -> Places]
  BY DEF Places, Side, Level, Raised, Middle
<1>4. p[0] = s /\ Clear(p[5])
  BY DEF Places, Clear
<1> HIDE DEF q
<1>5. ASSUME NEW i \in 1..5
      PROVE  Allowed(p[i - 1], q[i]) /\ p[i] = After(p[i - 1], q[i])
  <2>1. /\ q[i].id # 2
        /\ IF i = 1 THEN q[i].id = 3 /\ q[i].value = Middle ELSE q[i].id # 3
        /\ IF i = 2 THEN q[i].id = 4 /\ q[i].value = Level
           ELSE q[i].id # 4
    BY <1>1 DEF A, Push, Lift
  <2>2. /\ p[i - 1] = [swing |-> IF i < 2 THEN s.swing ELSE Middle,
                       height |-> IF i < 3 THEN s.height ELSE Level]
        /\ p[i] = [swing |-> IF i < 1 THEN s.swing ELSE Middle,
                   height |-> IF i < 2 THEN s.height ELSE Level]
    OBVIOUS
  <2> HIDE DEF p
  <2>3. Allowed(p[i - 1], q[i])
    BY <2>1, <2>2 DEF Allowed, Clear
  <2>4. p[i] = After(p[i - 1], q[i])
    BY <2>1, <2>2 DEF After
  <2> QED  BY <2>3, <2>4
<1> HIDE DEF p
<1>6. Len(q) = 5
  BY <1>1
<1>7. Path(p, s, q)
  BY <1>3, <1>4, <1>5, <1>6 DEF Path
<1>8. Safe(s, q)
  BY <1>3, <1>4, <1>6, <1>7 DEF Safe
<1> QED  BY <1>2, <1>8 DEF q
\* Whatever the mode, the pose is a safe sequence of actions of the table.
LEMMA PoseSafe ==
  ASSUME NEW mode, NEW s \in Places, Clear(s)
  PROVE  Pose(mode) \in Seq(Acts) /\ Safe(s, Pose(mode))
<1>1. CASE mode \in 0..2
  <2>1. \/ mode = 0 /\ Pose(mode) = Put(170)
        \/ mode = 1 /\ Pose(mode) = Put(550)
        \/ mode = 2 /\ Pose(mode) = Put(940)
    BY <1>1 DEF Pose
  <2> QED  BY <2>1, PutSafe
<1>2. CASE mode \in 3..5
  <2>1. \/ mode = 3 /\ Pose(mode) = Grab(170)
        \/ mode = 4 /\ Pose(mode) = Grab(550)
        \/ mode = 5 /\ Pose(mode) = Grab(940)
    BY <1>2 DEF Pose
  <2> QED  BY <2>1, GrabSafe
<1>3. CASE mode \in {8, 9}
  <2>1. PICK a \in {A(5, Closed), A(5, Opened)} : Pose(mode) = <<a>>
    BY <1>3 DEF Pose
  <2>2. a \in Acts /\ a.id = 5
    BY <2>1 DEF A, Acts, Closed, Opened, Push, Lift
  <2>3. <<a>> \in Seq(Acts) /\ \A i \in 1..Len(<<a>>) : <<a>>[i].id \notin 2..4
    BY <2>2
  <2> QED  BY <2>1, <2>3, OthersSafe
<1>4. CASE mode \in {6, 7, 11, 12, 13, 14, 15, 16}
  <2>1. Pose(mode) \in {Servo_Camera, Servo_Camera1, Servo_Put_Lower, Servo_InitPos,
                        Servo_Grab_Upper, Servo_Grab_Lower, All_Middle, Servo_Grab_Ground}
    BY <1>4 DEF Pose
  <2> QED  BY <2>1, CameraSafe, Camera1Safe, PutLowerSafe, InitPosSafe, GrabUpperSafe,
              GrabLowerSafe, AllMiddleSafe, GrabGroundSafe
<1>5. CASE mode \notin 0..9 /\ mode \notin 11..16
  <2>1. Pose(mode) = <<>>
    BY <1>5 DEF Pose
  <2>2. <<>> \in Seq(Acts) /\ \A i \in 1..Len(<<>>) : <<>>[i].id \notin 2..4
    OBVIOUS
  <2> QED  BY <2>1, <2>2, OthersSafe
<1> QED  BY <1>1, <1>2, <1>3, <1>4, <1>5

\* What /car/xy asks for moves neither arm nor tray.
LEMMA StagesSafe ==
  ASSUME NEW push \in Stage(Push, PushSteps), NEW lift \in Stage(Lift, LiftSteps),
         NEW s \in Places, Clear(s)
  PROVE  push \o lift \in Seq(Acts) /\ Safe(s, push \o lift)
<1> DEFINE Others == {a \in Acts : a.id \notin 2..4}
<1>1. \A n \in Nat : A(Push, n) \in Others /\ A(Lift, n) \in Others
  BY DEF A, Acts, Push, Lift
<1> HIDE DEF Others
<1>2. push \in Seq(Others) /\ lift \in Seq(Others)
  <2>1. ASSUME NEW id \in {Push, Lift}, NEW steps \in {PushSteps, LiftSteps},
               NEW q \in Stage(id, steps)
        PROVE  q \in Seq(Others)
    <3>1. q = <<>> \/ \E n \in Nat : q = <<A(id, n)>>
      BY StepsAssumption DEF Stage
    <3>2. CASE q = <<>>
      BY <3>2
    <3>3. ASSUME NEW n \in Nat, q = <<A(id, n)>> PROVE q \in Seq(Others)
      <4>1. A(id, n) \in Others
        BY <1>1
      <4> QED  BY <3>3, <4>1
    <3> QED  BY <3>1, <3>2, <3>3
  <2> QED  BY <2>1
<1>3. push \o lift \in Seq(Others)
  BY <1>2
<1>4. /\ push \o lift \in Seq(Acts)
      /\ \A i \in 1..Len(push \o lift) : (push \o lift)[i].id \notin 2..4
  <2>1. Others \subseteq Acts /\ \A a \in Others : a.id \notin 2..4
    BY DEF Others
  <2> QED  BY <1>3, <2>1
<1> QED  BY <1>4, OthersSafe
-------------------------------------------------------------------------------
(* The invariant.                                                            *)

LEMMA InitInv == Init => IInv
<1> SUFFICES ASSUME Init PROVE IInv
  OBVIOUS
<1>1. queue = <<>> /\ todo = <<>>
  BY DEF Init, FifoInit
<1>2. /\ arm \in [Tracked -> Nat] /\ arm[2] = 170 /\ arm[3] = Middle /\ arm[4] = 300
      /\ arm[5] = Closed
  BY DEF Init, Tracked, Middle, Closed
<1>3. Now \in Places /\ Clear(Now)
  BY <1>2 DEF Now, Places, Clear
<1>4. <<>> \in Seq(Acts) /\ <<>> \o <<>> = <<>> /\ \A i \in 1..Len(<<>>) : <<>>[i].id \notin 2..4
  OBVIOUS
<1>5. Safe(Now, <<>> \o <<>>)
  BY <1>3, <1>4, OthersSafe
<1> QED  BY <1>1, <1>2, <1>3, <1>5 DEF IInv

\* A request adds a safe sequence behind what is planned.
LEMMA RequestInv ==
  ASSUME IInv, todo = <<>>, UNCHANGED <<queue, arm>>,
         todo' \in Seq(Acts), \A s \in Places : Clear(s) => Safe(s, todo')
  PROVE  IInv'
<1>1. queue \o todo = queue /\ queue \in Seq(Acts)
  BY DEF IInv
<1>2. Safe(Now, queue)
  BY <1>1 DEF IInv
<1>3. Safe(Now, queue \o todo')
  BY <1>1, <1>2, SafeConcat
<1>4. Now' = Now
  BY DEF Now
<1> QED  BY <1>3, <1>4 DEF IInv

\* An action that passes from the ROS task to the queue stays where it is in the plan.
LEMMA AddInv == ASSUME IInv, Servo_Add_Action PROVE IInv'
<1>1. /\ todo # <<>> /\ todo' = Tail(todo) /\ queue' = Append(queue, Head(todo))
      /\ arm' = arm
  BY DEF Servo_Add_Action, Request
<1>2. queue \in Seq(Acts) /\ todo \in Seq(Acts)
  BY DEF IInv
<1>3. queue' \in Seq(Acts) /\ todo' \in Seq(Acts) /\ queue' \o todo' = queue \o todo
  BY <1>1, <1>2
<1>4. Now' = Now
  BY <1>1 DEF Now
<1> QED  BY <1>1, <1>3, <1>4 DEF IInv

\* The action that is done takes the arm to the next place of the path.
LEMMA ServerInv == ASSUME IInv, Servo_Server PROVE IInv'
<1> DEFINE a == Head(queue)
           q == queue \o todo
<1>1. queue # <<>> /\ queue' = Tail(queue) /\ todo' = todo
  BY DEF Servo_Server, Finish
<1>2. queue \in Seq(Acts) /\ todo \in Seq(Acts) /\ a \in Acts
  BY <1>1 DEF IInv
<1>3. q \in Seq(Acts) /\ q # <<>> /\ q[1] = a /\ Tail(q) = queue' \o todo'
      /\ queue' \in Seq(Acts)
  BY <1>1, <1>2
<1>4. After(Now, a) \in Places /\ Safe(After(Now, a), queue' \o todo')
  <2>1. Safe(Now, q)
    BY DEF IInv
  <2> HIDE DEF q, a
  <2> QED  BY <1>3, <2>1, SafeTail
<1>5. arm' = IF a.id \in Tracked THEN [arm EXCEPT ![a.id] = a.value] ELSE arm
  BY DEF Servo_Server
<1>6. /\ arm' \in [Tracked -> Nat]
      /\ \A j \in Tracked : arm'[j] = IF a.id = j THEN a.value ELSE arm[j]
  <2>1. arm \in [Tracked -> Nat] /\ a.value \in Nat
    BY <1>2 DEF IInv, Acts
  <2> HIDE DEF a
  <2> QED  BY <1>5, <2>1
<1>7. Now' = After(Now, a)
  BY <1>6 DEF Now, After, Tracked
<1>8. arm'[2] \in {170, 550, 940} /\ arm'[5] \in {Opened, Closed}
  <2>1. arm[2] \in {170, 550, 940} /\ arm[5] \in {Opened, Closed}
    BY DEF IInv
  <2>2. (a.id = 2 => a.value \in {170, 550, 940}) /\ (a.id = 5 => a.value \in {Opened, Closed})
    BY <1>2 DEF Acts
  <2> HIDE DEF a
  <2> QED  BY <1>6, <2>1, <2>2 DEF Tracked
<1> QED  BY <1>1, <1>2, <1>3, <1>4, <1>6, <1>7, <1>8 DEF IInv

\* What is planned is safe in every behaviour.
THEOREM PlanIsSafe == Spec => []IInv
<1>1. IInv /\ [Next]_armVars => IInv'
  <2> SUFFICES ASSUME IInv, [Next]_armVars PROVE IInv'
    OBVIOUS
  <2>1. ASSUME NEW mode \in Modes, callback_servo(mode) PROVE IInv'
    <3>1. /\ todo = <<>> /\ UNCHANGED <<queue, arm>> /\ todo' = Pose(mode)
      BY <2>1 DEF callback_servo
    <3>2. /\ Pose(mode) \in Seq(Acts)
          /\ \A s \in Places : Clear(s) => Safe(s, Pose(mode))
      <4>1. Clear([swing |-> Middle, height |-> Raised])
            /\ [swing |-> Middle, height |-> Raised] \in Places
        BY DEF Clear, Places
      <4> QED  BY <4>1, PoseSafe
    <3> QED  BY <3>1, <3>2, RequestInv
  <2>2. ASSUME NEW push \in Stage(Push, PushSteps), NEW lift \in Stage(Lift, LiftSteps),
               callback_xy(push, lift)
        PROVE  IInv'
    <3>1. /\ todo = <<>> /\ UNCHANGED <<queue, arm>> /\ todo' = push \o lift
      BY <2>2 DEF callback_xy
    <3>2. /\ push \o lift \in Seq(Acts)
          /\ \A s \in Places : Clear(s) => Safe(s, push \o lift)
      <4>1. Clear([swing |-> Middle, height |-> Raised])
            /\ [swing |-> Middle, height |-> Raised] \in Places
        BY DEF Clear, Places
      <4> QED  BY <4>1, StagesSafe
    <3> QED  BY <3>1, <3>2, RequestInv
  <2>3. CASE UNCHANGED armVars
    BY <2>3 DEF armVars, IInv, Now
  <2> QED  BY <2>1, <2>2, <2>3, AddInv, ServerInv DEF Next
<1> QED  BY <1>1, InitInv, PTL DEF Spec
-------------------------------------------------------------------------------
(* What it implies.                                                          *)

\* The next action is allowed where the arm is.
LEMMA HeadAllowed ==
  ASSUME IInv, queue # <<>>
  PROVE  Head(queue) \in Acts /\ Allowed(Now, Head(queue))
<1> DEFINE q == queue \o todo
<1>1. queue \in Seq(Acts) /\ todo \in Seq(Acts)
  BY DEF IInv
<1>2. q \in Seq(Acts) /\ q # <<>> /\ q[1] = Head(queue) /\ Head(queue) \in Acts
  BY <1>1
<1>3. Safe(Now, q)
  BY DEF IInv
<1> HIDE DEF q
<1> QED  BY <1>2, <1>3, SafeTail

\* The queue holds known actions and the joints take the places of the table.
THEOREM TypeCorrect == Spec => []TypeOK
<1>1. IInv => TypeOK
  <2> SUFFICES ASSUME IInv PROVE TypeOK
    OBVIOUS
  <2>1. \A i \in 1..Len(queue) : queue[i].id \in 1..5 \cup {Push, Lift}
    <3>1. \A i \in 1..Len(queue) : queue[i] \in Acts
      BY DEF IInv
    <3> QED  BY <3>1 DEF Acts
  <2>2. arm[3] \in {Middle, Side} /\ arm[4] \in {300, Level, Raised}
    BY DEF IInv, Now, Places
  <2> QED  BY <2>1, <2>2 DEF TypeOK, IInv
<1> QED  BY <1>1, PlanIsSafe, PTL

\* The arm is only swung while it is raised, for any modes, messages and queue.
THEOREM ArmSwingsRaised == Spec => []SwingsRaised
<1>1. IInv => SwingsRaised
  BY HeadAllowed DEF SwingsRaised, Moves, Allowed, Now
<1> QED  BY <1>1, PlanIsSafe, PTL

\* The tray never turns under a lowered arm.
THEOREM TrayIsClear == Spec => []TrayTurnsClear
<1>1. IInv => TrayTurnsClear
  BY HeadAllowed DEF TrayTurnsClear, Moves, Allowed, Clear, Now
<1> QED  BY <1>1, PlanIsSafe, PTL

\* Once everything is done the arm is clear of the tray.
THEOREM ArmRestsClear == Spec => []RestsClear
<1>1. IInv => RestsClear
  <2> SUFFICES ASSUME IInv, todo = <<>>, queue = <<>> PROVE Clear(Now)
    BY DEF RestsClear, Clear, Now
  <2>1. queue \o todo = <<>> /\ Len(<<>>) = 0
    OBVIOUS
  <2>2. PICK p \in [0..0 -> Places] : Path(p, Now, <<>>) /\ Clear(p[0])
    BY <2>1 DEF IInv, Safe
  <2> QED  BY <2>2 DEF Path
<1> QED  BY <1>1, PlanIsSafe, PTL
===============================================================================
