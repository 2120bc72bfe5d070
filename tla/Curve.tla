--------------------------------- MODULE Curve ---------------------------------
(***************************************************************************)
(* The formulas for points of curves/prj_pt.c and curves/prj_pt_monty.c,   *)
(* and the affine group law they are to compute.  Field elements are the   *)
(* numbers their nn hold, the field operations those of module Fp (exact   *)
(* where ProductsCorrect holds).  Elements are kept either plain or in     *)
(* Montgomery form, multiplied by R; the two sets of functions differ only *)
(* in the multiplication they call and the curve constants they read, so   *)
(* each formula has the form as a parameter.                               *)
(***************************************************************************)
EXTENDS Integers, FiniteSets

CONSTANTS
  p,   (* The prime of the field.                                            *)
  R    (* The Montgomery radix, the words of p as a power of the base.       *)

ASSUME FieldAssumption ==
  /\ p \in Nat /\ p > 3 /\ \A d \in 2..(p - 1) : p % d # 0
  /\ R \in Nat /\ R % p # 0

Field == 0..(p - 1)

\* The prover has no exponentiation.
ASSUME PowersAssumption == \A e \in Field : e^2 = e * e /\ e^3 = e * e * e

Elements == 0..p            \* p is left by fp_neg(0)
Forms == {"plain", "monty"}

Inverse == [e \in 1..(p - 1) |-> CHOOSE i \in 1..(p - 1) : (e * i) % p = 1]

fp_add(e, f) == IF e + f >= p THEN e + f - p ELSE e + f
fp_sub_NoBorrow(e, f) == e - f    \* faulty: p is never added
fp_sub(e, f) == IF e < f THEN e + p - f ELSE e - f
fp_neg(e) == p - e
fp_mul(e, f) == (e * f) % p
fp_inv(e) == Inverse[e]     \* its callers see to it that e is not 0, or exit
fp_mul_redc1(e, f) == (e * f * Inverse[R % p]) % p
fp_redcify(e) == (e * R) % p
fp_unredcify(e) == fp_mul_redc1(e, 1)

fp_eq_or_opp(e, f) == e = f \/ e = fp_neg(f)

Mul(form, e, f) == IF form = "monty" THEN fp_mul_redc1(e, f) ELSE fp_mul(e, f)

-----------------------------------------------------------------------------

\* Faulty: b is added once only.
ec_shortw_crv_init_TwiceB(a, b) ==
  LET b3 == fp_add(b, b)
  IN  [a |-> [plain |-> a, monty |-> fp_redcify(a)],
       b |-> b,
       b3 |-> [plain |-> b3, monty |-> fp_redcify(b3)]]

\* ec_shortw_crv_init: the curve y^2 = x^3 + ax + b, 3b, and both in Montgomery form.
ec_shortw_crv_init(a, b) ==
  LET b3 == fp_add(fp_add(b, b), b)
  IN  [a |-> [plain |-> a, monty |-> fp_redcify(a)],
       b |-> b,
       b3 |-> [plain |-> b3, monty |-> fp_redcify(b3)]]

is_on_curve(crv, x, y) ==
  fp_mul(y, y) = fp_add(fp_mul(fp_mul(x, x), x), fp_add(fp_mul(crv.a.plain, x), crv.b))

Point(x, y, z) == [X |-> x, Y |-> y, Z |-> z]
prj_pt_zero == Point(0, 1, 0)
prj_pt_iszero(P) == P.Z = 0

(***************************************************************************)
(* The complete formulas.  x, y and z are what the fields of out hold when *)
(* they serve as temporaries.                                              *)
(***************************************************************************)

CompleteAdd(form, crv, P, Q) ==
  LET e \odot f == Mul(form, e, f)
      e \oplus f == fp_add(e, f)
      e \ominus f == fp_sub(e, f)
      a == crv.a[form]
      b3 == crv.b3[form]
      t0 == P.X \odot Q.X
      t1 == P.Y \odot Q.Y
      t2 == P.Z \odot Q.Z
      t3 == ((P.X \oplus P.Y) \odot (Q.X \oplus Q.Y)) \ominus (t0 \oplus t1)
      t4 == ((P.X \oplus P.Z) \odot (Q.X \oplus Q.Z)) \ominus (t0 \oplus t2)
      t5 == ((P.Y \oplus P.Z) \odot (Q.Y \oplus Q.Z)) \ominus (t1 \oplus t2)
      x == t1 \ominus ((b3 \odot t2) \oplus (a \odot t4))
      z == t1 \oplus ((b3 \odot t2) \oplus (a \odot t4))
      at2 == a \odot t2
      u1 == ((t0 \oplus t0) \oplus t0) \oplus at2
      u4 == (b3 \odot t4) \oplus (a \odot (t0 \ominus at2))
  IN  Point((t3 \odot x) \ominus (t5 \odot u4),
            (x \odot z) \oplus (u1 \odot u4),
            (t5 \odot z) \oplus (t3 \odot u1))

\* Q is the point whose Y and Z the code reads after it has written those of out.
CompleteDblReading(form, crv, P, Q) ==
  LET e \odot f == Mul(form, e, f)
      e \oplus f == fp_add(e, f)
      e \ominus f == fp_sub(e, f)
      a == crv.a[form]
      b3 == crv.b3[form]
      t0 == P.X \odot P.X
      t1 == P.Y \odot P.Y
      t3 == (P.X \odot P.Y) \oplus (P.X \odot P.Y)
      z == (P.X \odot P.Z) \oplus (P.X \odot P.Z)
      y == (a \odot z) \oplus (b3 \odot (P.Z \odot P.Z))
      at2 == a \odot (P.Z \odot P.Z)
      u3 == (a \odot (t0 \ominus at2)) \oplus (b3 \odot z)
      u0 == (((t0 \oplus t0) \oplus t0) \oplus at2) \odot u3
      u2 == (Q.Y \odot Q.Z) \oplus (Q.Y \odot Q.Z)
      z3 == (u2 \odot t1) \oplus (u2 \odot t1)
  IN  Point((t3 \odot (t1 \ominus y)) \ominus (u2 \odot u3),
            ((t1 \ominus y) \odot (t1 \oplus y)) \oplus u0,
            z3 \oplus z3)

\* Faulty: without the copy of an aliased output.
CompleteDbl_NoCopy(form, crv, P) ==
  LET written == CompleteDblReading(form, crv, P, P)
  IN  CompleteDblReading(form, crv, P, Point(0, written.Y, fp_add(P.X, P.X)))

CompleteDbl(form, crv, P) == CompleteDblReading(form, crv, P, P)

(***************************************************************************)
(* The formulas of the build with NO_USE_COMPLETE_FORMULAS, for points     *)
(* that are not at infinity and, for the addition, not equal or opposite.  *)
(***************************************************************************)

CmoAdd(form, P, Q) ==
  LET e \odot f == Mul(form, e, f)
      e \ominus f == fp_sub(e, f)
      Y1Z2 == P.Y \odot Q.Z
      X1Z2 == P.X \odot Q.Z
      Z1Z2 == P.Z \odot Q.Z
      u == (Q.Y \odot P.Z) \ominus Y1Z2
      v == (Q.X \odot P.Z) \ominus X1Z2
      vv == v \odot v
      vvv == v \odot vv
      R2 == vv \odot X1Z2
      A == (((u \odot u) \odot Z1Z2) \ominus vvv) \ominus R2 \ominus R2
  IN  Point(v \odot A,
            (u \odot (R2 \ominus A)) \ominus (vvv \odot Y1Z2),
            vvv \odot Z1Z2)

CmoDbl(form, crv, P) ==
  LET e \odot f == Mul(form, e, f)
      e \oplus f == fp_add(e, f)
      e \ominus f == fp_sub(e, f)
      XX == P.X \odot P.X
      w == (((crv.a[form] \odot (P.Z \odot P.Z)) \oplus XX) \oplus XX) \oplus XX
      s == (P.Y \odot P.Z) \oplus (P.Y \odot P.Z)
      R1 == P.Y \odot s
      RR == R1 \odot R1
      B == (((R1 \oplus P.X) \odot (R1 \oplus P.X)) \ominus XX) \ominus RR
      h == ((w \odot w) \ominus B) \ominus B
  IN  Point(h \odot s,
            ((w \odot (B \ominus h)) \ominus RR) \ominus RR,
            s \odot (s \odot s))

-----------------------------------------------------------------------------
(***************************************************************************)
(* The public functions.  Both comparisons use the Montgomery product      *)
(* whatever the form is: a common factor does not matter to them.          *)
(***************************************************************************)

Builds == {"complete", "cmo"}

prj_pt_cmp(P, Q) ==
  IF /\ fp_mul_redc1(P.X, Q.Z) = fp_mul_redc1(Q.X, P.Z)
     /\ fp_mul_redc1(P.Y, Q.Z) = fp_mul_redc1(Q.Y, P.Z)
  THEN 0 ELSE 1

\* Faulty: only the abscissas are compared.
prj_pt_eq_or_opp_XOnly(P, Q) == fp_mul_redc1(P.X, Q.Z) = fp_mul_redc1(Q.X, P.Z)

prj_pt_eq_or_opp(P, Q) ==
  /\ fp_mul_redc1(P.X, Q.Z) = fp_mul_redc1(Q.X, P.Z)
  /\ fp_eq_or_opp(fp_mul_redc1(P.Y, Q.Z), fp_mul_redc1(Q.Y, P.Z))

prj_pt_dbl(build, form, crv, P) ==
  IF build = "complete" THEN CompleteDbl(form, crv, P)
  ELSE IF prj_pt_iszero(P) THEN prj_pt_zero ELSE CmoDbl(form, crv, P)

\* What prj_pt_init leaves of the coordinates, which are those of no point.
prj_pt_init == Point(0, 0, 0)

\* prj_pt_init(out); prj_pt_copy(out, Q): an operand that is out is gone by then.
InitAndCopy(Q, outIsQ) == IF outIsQ THEN prj_pt_init ELSE Q

\* outIsP and outIsQ tell which of the operands the output is.
prj_pt_add(build, form, crv, P, Q, outIsP, outIsQ) ==
  CASE build = "complete" -> CompleteAdd(form, crv, P, Q)
    [] build = "cmo" /\ prj_pt_iszero(P) -> InitAndCopy(Q, outIsQ)
    [] build = "cmo" /\ ~prj_pt_iszero(P) /\ prj_pt_iszero(Q) -> InitAndCopy(P, outIsP)
    [] OTHER -> IF ~prj_pt_eq_or_opp(P, Q) THEN CmoAdd(form, P, Q)
                ELSE IF prj_pt_cmp(P, Q) = 0 THEN prj_pt_dbl(build, form, crv, P)
                ELSE prj_pt_zero

\* For points that are not at infinity.
prj_pt_normalize(P) ==
  IF P.Z = 1 THEN P
  ELSE Point(fp_mul(P.X, fp_inv(P.Z)), fp_mul(P.Y, fp_inv(P.Z)), 1)
prj_pt_to_aff(P) == <<fp_mul(P.X, fp_inv(P.Z)), fp_mul(P.Y, fp_inv(P.Z))>>

\* prj_pt_is_on_curve: "exits" because the dummy (a : b : a_monty) that stands
\* in for the point at infinity is converted too.
prj_pt_is_on_curve(crv, P) ==
  IF prj_pt_iszero(P)
  THEN IF crv.a.monty = 0 THEN "exits" ELSE "yes"
  ELSE LET A == prj_pt_to_aff(P)
       IN  IF is_on_curve(crv, A[1], A[2]) THEN "yes" ELSE "no"

\* The coordinates converted one by one, as the scalar multiplications do.
Redcified(P) == Point(fp_redcify(P.X), fp_redcify(P.Y), fp_redcify(P.Z))
Unredcified(P) == Point(fp_unredcify(P.X), fp_unredcify(P.Y), fp_unredcify(P.Z))

-----------------------------------------------------------------------------
(***************************************************************************)
(* Jacobian points (x/z^2, y/z^3), in Montgomery form.  The doubling reads *)
(* no constant of the curve: the factor 3 (X - Z^2)(X + Z^2) is that of    *)
(* a = -3.                                                                 *)
(***************************************************************************)

jprj_pt_dbl_monty(P) ==
  LET e \odot f == fp_mul_redc1(e, f)
      e \oplus f == fp_add(e, f)
      e \ominus f == fp_sub(e, f)
      z2 == P.Z \odot P.Z
      x2 == (P.X \oplus z2) \odot (P.X \ominus z2)
      M == (x2 \oplus x2) \oplus x2
      yy == (P.Y \odot P.Y) \oplus (P.Y \odot P.Y)
      y4 == (yy \odot yy) \oplus (yy \odot yy)
      S == (yy \oplus yy) \odot P.X
      X == ((M \odot M) \ominus S) \ominus S
      Z == P.Z \odot P.Y
  IN  IF prj_pt_iszero(P) THEN prj_pt_zero
      ELSE Point(X, ((S \ominus X) \odot M) \ominus y4, Z \oplus Z)

JacobianSum(P, Q, h, r, u1, s1) ==
  LET e \odot f == fp_mul_redc1(e, f)
      e \ominus f == fp_sub(e, f)
      h2 == h \odot h
      h3 == h2 \odot h
      u == u1 \odot h2
      X == (((r \odot r) \ominus h3) \ominus u) \ominus u
  IN  Point(X, ((u \ominus X) \odot r) \ominus (s1 \odot h3), (P.Z \odot Q.Z) \odot h)

\* Faulty: equal points are not doubled.
jprj_pt_add_monty_NoEqual(P, Q) ==
  LET e \odot f == fp_mul_redc1(e, f)
      z1 == P.Z \odot P.Z
      z2 == Q.Z \odot Q.Z
      u1 == P.X \odot z2
      s1 == P.Y \odot (z2 \odot Q.Z)
  IN  IF prj_pt_iszero(P) THEN Q
      ELSE IF prj_pt_iszero(Q) THEN P
      ELSE JacobianSum(P, Q, fp_sub(Q.X \odot z1, u1),
                       fp_sub(Q.Y \odot (z1 \odot P.Z), s1), u1, s1)

jprj_pt_add_monty(P, Q) ==
  LET e \odot f == fp_mul_redc1(e, f)
      z1 == P.Z \odot P.Z
      z2 == Q.Z \odot Q.Z
      u1 == P.X \odot z2
      s1 == P.Y \odot (z2 \odot Q.Z)
      h == fp_sub(Q.X \odot z1, u1)
      r == fp_sub(Q.Y \odot (z1 \odot P.Z), s1)
  IN  IF prj_pt_iszero(P) THEN Q
      ELSE IF prj_pt_iszero(Q) THEN P
      ELSE IF h = 0 /\ r = 0 THEN jprj_pt_dbl_monty(P)
      ELSE JacobianSum(P, Q, h, r, u1, s1)

-----------------------------------------------------------------------------
(***************************************************************************)
(* The group the formulas are about: infinity and the pairs of residues    *)
(* that satisfy the equation, with chord and tangent.                      *)
(***************************************************************************)

Infinity == <<>>

OnCurve(crv, A) ==
  A = Infinity \/ (A[2]^2 - (A[1]^3 + crv.a.plain * A[1] + crv.b)) % p = 0

Group(crv) == {Infinity} \cup {A \in Field \X Field : OnCurve(crv, A)}

\* The slope of the line through A and B, or of the tangent.
Slope(crv, A, B) ==
  IF A = B THEN (3 * A[1]^2 + crv.a.plain) * Inverse[(2 * A[2]) % p]
  ELSE (B[2] - A[2]) * Inverse[(B[1] - A[1]) % p]

Plus(crv, A, B) ==
  IF A = Infinity THEN B
  ELSE IF B = Infinity THEN A
  ELSE IF A[1] = B[1] /\ (A[2] + B[2]) % p = 0 THEN Infinity
  ELSE LET l == Slope(crv, A, B) % p
           x == (l^2 - A[1] - B[1]) % p
       IN  <<x, (l * (A[1] - x) - A[2]) % p>>

Opposite(A) == IF A = Infinity THEN A ELSE <<A[1], (p - A[2]) % p>>

\* The affine point of projective and of Jacobian coordinates, plain or not
\* (the factor R is in all three).
Affine(P) ==
  IF P.Z % p = 0 THEN Infinity
  ELSE LET i == Inverse[P.Z % p] IN <<(P.X * i) % p, (P.Y * i) % p>>

JacobianAffine(P) ==
  IF P.Z % p = 0 THEN Infinity
  ELSE LET i == Inverse[fp_unredcify(P.Z)]
       IN  <<(fp_unredcify(P.X) * i^2) % p, (fp_unredcify(P.Y) * i^3) % p>>
=============================================================================
