--------------------------------- MODULE PrjPt ---------------------------------
(***************************************************************************)
(* Points as callers use them: any sequence of the operations of           *)
(* curves/prj_pt.c, curves/prj_pt_monty.c and curves/aff_pt.c on a few     *)
(* projective points and one affine point of the same curve.  An output    *)
(* may be one of the inputs.                                               *)
(*                                                                         *)
(* Beside the coordinates the module keeps the point they are meant to be, *)
(* by the group law.  The code can leave coordinates that are no longer    *)
(* those of any point meant; they are Lost then, and so is what is         *)
(* computed from them.                                                     *)
(*                                                                         *)
(* Callers hand plain coordinates to the functions in Montgomery form      *)
(* without converting them, and then the results to the plain ones: an     *)
(* addition or a doubling may be of either form at any time.               *)
(***************************************************************************)
EXTENDS Curve

CONSTANTS
  Regs,      (* The projective points.                                       *)
  Setups,    (* Builds and curves: records with build, a and b.              *)
  Imports,   (* Coordinates that are imported; p stands for all above.       *)
  Uninit,    (* A point without its magic.                                   *)
  Lost       (* What coordinates mean that are those of no point meant.      *)

\* The complete formulas are those of curves without points of order 2.
ASSUME SetupAssumption ==
  \A s \in Setups :
    /\ s.build \in Builds /\ s.a \in Field /\ s.b \in Field
    /\ (4 * s.a^3 + 27 * s.b^2) % p # 0
    /\ s.build = "complete" =>
         \A x \in Field : ~OnCurve(ec_shortw_crv_init(s.a, s.b), <<x, 0>>)

Triples == [X : Elements, Y : Elements, Z : Elements]

ASSUME ImportAssumption ==
  /\ Imports \subseteq Triples
  /\ Uninit \notin Triples \cup (Field \X Field)
  /\ Lost \notin {Infinity} \cup (Field \X Field)

VARIABLES
  build, crv,
  pt,       (* The projective points.                                        *)
  aff,      (* The affine point.                                             *)
  val, aval,(* The points meant, or Lost: history that no code reads.        *)
  exited    (* Whether a MUST_HAVE has stopped the program.                  *)

vars == <<build, crv, pt, aff, val, aval, exited>>

Init ==
  /\ \E s \in Setups : build = s.build /\ crv = ec_shortw_crv_init(s.a, s.b)
  /\ pt = [r \in Regs |-> Uninit]
  /\ aff = Uninit
  /\ val = [r \in Regs |-> Infinity]
  /\ aval = Infinity
  /\ exited = FALSE

Initialized(r) == pt[r] # Uninit

Exits == exited' = TRUE /\ UNCHANGED <<build, crv, pt, aff, val, aval>>

\* The point o becomes P, and is to mean the point v.
Writes(o, P, v) ==
  /\ pt' = [pt EXCEPT ![o] = P]
  /\ val' = [val EXCEPT ![o] = v]
  /\ UNCHANGED <<build, crv, aff, aval, exited>>

-----------------------------------------------------------------------------

\* prj_pt_import_from_buf, a buffer of the right length.  A coordinate that is
\* not below p stops the program; a point that is not on the curve is wiped.
\* The check takes all coordinates with Z = 0 for infinity.
Import(o, P) ==
  IF p \in {P.X, P.Y, P.Z} \/ prj_pt_is_on_curve(crv, P) = "exits" THEN Exits
  ELSE IF prj_pt_is_on_curve(crv, P) = "no" THEN Writes(o, Uninit, Infinity)
  ELSE Writes(o, P, IF P.Z = 0 /\ (P.X # 0 \/ P.Y = 0) THEN Lost ELSE Affine(P))

Zero(o) ==
  /\ Initialized(o)
  /\ Writes(o, prj_pt_zero, Infinity)

Copy(o, i) ==
  /\ Initialized(i)
  /\ Writes(o, pt[i], val[i])

\* The sum that is meant.
Sum(A, B) == IF Lost \in {A, B} THEN Lost ELSE Plus(crv, A, B)

\* The addition with NO_USE_COMPLETE_FORMULAS has infinity for one operand and
\* zeroes the other one, which is the output too, before it is copied.
LosesOperand(o, i, j) ==
  build = "cmo" /\ IF val[i] = Infinity THEN o = j ELSE val[j] = Infinity /\ o = i

\* prj_pt_add and prj_pt_add_monty.
Add(form, o, i, j) ==
  /\ Initialized(i) /\ Initialized(j)
  /\ Writes(o, prj_pt_add(build, form, crv, pt[i], pt[j], o = i, o = j),
            IF LosesOperand(o, i, j) THEN Lost ELSE Sum(val[i], val[j]))

\* prj_pt_dbl and prj_pt_dbl_monty.
Dbl(form, o, i) ==
  /\ Initialized(i)
  /\ Writes(o, prj_pt_dbl(build, form, crv, pt[i]), Sum(val[i], val[i]))

\* The blinding of the masked loops, by a random l of fp_get_random.
Blind(o, i, l) ==
  /\ Initialized(i)
  /\ Writes(o, Point(fp_mul_redc1(pt[i].X, l), fp_mul_redc1(pt[i].Y, l),
                     fp_mul_redc1(pt[i].Z, l)), val[i])

Normalize(o) ==
  /\ Initialized(o)
  /\ IF prj_pt_iszero(pt[o]) THEN Exits
     ELSE Writes(o, prj_pt_normalize(pt[o]), val[o])

ToAff(i) ==
  /\ Initialized(i)
  /\ IF prj_pt_iszero(pt[i]) THEN Exits
     ELSE /\ aff' = prj_pt_to_aff(pt[i])
          /\ aval' = val[i]
          /\ UNCHANGED <<build, crv, pt, val, exited>>

\* ec_shortw_aff_to_prj.
AffToPrj(o) ==
  /\ aff # Uninit
  /\ IF is_on_curve(crv, aff[1], aff[2])
     THEN Writes(o, Point(aff[1], aff[2], 1), aval)
     ELSE Exits

\* Faulty: a point that is not on the curve is kept.
AffImport_Unchecked(x, y) ==
  IF p \in {x, y} THEN Exits
  ELSE /\ aff' = <<x, y>>
       /\ aval' = <<x, y>>
       /\ UNCHANGED <<build, crv, pt, val, exited>>

\* aff_pt_import_from_buf.
AffImport(x, y) ==
  IF p \in {x, y} THEN Exits
  ELSE /\ LET on == is_on_curve(crv, x, y)
          IN  /\ aff' = IF on THEN <<x, y>> ELSE Uninit
              /\ aval' = IF on THEN <<x, y>> ELSE Infinity
       /\ UNCHANGED <<build, crv, pt, val, exited>>

\* The MUST_HAVE of prj_pt_export_to_buf; an export that succeeds changes nothing.
ExportExits(i) ==
  /\ Initialized(i)
  /\ prj_pt_is_on_curve(crv, pt[i]) # "yes"
  /\ Exits

Next ==
  /\ ~exited
  /\ \/ \E o \in Regs :
          \/ \E P \in Imports : Import(o, P)
          \/ Zero(o)
          \/ Normalize(o)
          \/ ToAff(o)
          \/ AffToPrj(o)
          \/ ExportExits(o)
          \/ \E i \in Regs :
               \/ Copy(o, i)
               \/ \E l \in 1..(p - 1) : Blind(o, i, l)
               \/ \E f \in Forms : Dbl(f, o, i) \/ \E j \in Regs : Add(f, o, i, j)
     \/ \E x, y \in 0..p : AffImport(x, y)

Spec == Init /\ [][Next]_vars

-----------------------------------------------------------------------------

TypeOK ==
  /\ build \in Builds
  /\ pt \in [Regs -> Triples \cup {Uninit}]
  /\ aff \in (Field \X Field) \cup {Uninit}
  /\ val \in [Regs -> Group(crv) \cup {Lost}]
  /\ aval \in Group(crv) \cup {Lost}
  /\ exited \in BOOLEAN

Meant(r) == Initialized(r) /\ val[r] # Lost

\* After any sequence of additions, doublings, copies and conversions, in both
\* builds, with both sets of functions mixed at will and any outputs aliased, each
\* point is the one that the group law gives, but for what the additions of
\* LosesOperand and imported coordinates (X : Y : 0) have lost.  Infinity is only ever
\* held as (0 : Y : 0) with Y # 0, the one triple with Z = 0 for which the complete
\* formulas are right.
GroupLaw ==
  \A r \in Regs : Meant(r) =>
    /\ Affine(pt[r]) = val[r]
    /\ prj_pt_iszero(pt[r]) <=> val[r] = Infinity
    /\ prj_pt_iszero(pt[r]) => pt[r].X = 0 /\ pt[r].Y # 0

\* The two comparisons decide equality and opposition of the points, infinity
\* included, without a division (prj_pt.c, prj_pt_cmp and
\* prj_pt_eq_or_opp), of points that are not lost.
ComparisonsCorrect ==
  \A r, s \in Regs :
    Meant(r) /\ Meant(s) =>
      /\ prj_pt_cmp(pt[r], pt[s]) = 0 <=> val[r] = val[s]
      /\ prj_pt_eq_or_opp(pt[r], pt[s]) <=> val[r] \in {val[s], Opposite(val[s])}

\* What the library has computed from imported points, and not lost, can be
\* exported and imported again: the checks of export, import and affine conversion
\* accept it, but for the exit at infinity when a = 0.
Reimportable ==
  /\ \A r \in Regs : Meant(r) =>
       \/ prj_pt_is_on_curve(crv, pt[r]) = "yes"
       \/ crv.a.plain = 0 /\ val[r] = Infinity
  /\ aff # Uninit /\ aval # Lost => aff = aval /\ is_on_curve(crv, aff[1], aff[2])
=============================================================================
