------------------------------ MODULE Kinematics ------------------------------
(***************************************************************************)
(* The arithmetic of the mecanum base, src/Control/Control.c.              *)
(*                                                                         *)
(* A motion of the car is a vector [x, y, z]; a position, an encoder       *)
(* reading or a target of the four motors is a record [A, B, C, D].  Units *)
(* are encoder pulses.  The code multiplies z by a_PARAMETER+b_PARAMETER   *)
(* on the way to the wheels and divides by it on the way back: z is        *)
(* measured here in the unit in which that factor is 1.                    *)
(***************************************************************************)
EXTENDS Integers

Vec    == [x : Int, y : Int, z : Int]
Wheels == [A : Int, B : Int, C : Int, D : Int]

Still == [x |-> 0, y |-> 0, z |-> 0]

Minus(u, v) == [x |-> u.x - v.x, y |-> u.y - v.y, z |-> u.z - v.z]

Plus(p, q) == [A |-> p.A + q.A, B |-> p.B + q.B, C |-> p.C + q.C, D |-> p.D + q.D]

\* Kinematic_Analysis and, for the rates, Kinematic_Analysis2.
Kinematic_Analysis(v) ==
  [A |-> v.y - v.x - v.z,
   B |-> v.y + v.x - v.z,
   C |-> v.y - v.x + v.z,
   D |-> v.y + v.x + v.z]

\* Mutant: the displacement is taken from the origin.
FromOrigin(p, v) == Kinematic_Analysis(v)

Kinematic_Analysis_Relative(p, v) == Plus(p, Kinematic_Analysis(v))

\* The wheel readings of which Get_Position_NOW's quotients are integers.  The
\* code divides doubles; the models only produce readings of this form.
Divisible(p) ==
  /\ (p.B - p.A) % 2 = 0
  /\ (p.B + p.C) % 2 = 0
  /\ (p.C - p.A + p.D - p.B) % 4 = 0

Get_Position_NOW(p) ==
  [x |-> (p.B - p.A) \div 2,
   y |-> (p.B + p.C) \div 2,
   z |-> (p.C - p.A + p.D - p.B) \div 4]

\* The four wheels agree on one rigid motion of the car: none has slipped.
NoSlip(p) == p.A + p.D = p.B + p.C
===============================================================================
