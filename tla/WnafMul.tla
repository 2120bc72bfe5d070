-------------------------------- MODULE WnafMul --------------------------------
(***************************************************************************)
(* prj_pt_ec_mult_wnaf of curves/prj_pt_monty.c, the double multiplication *)
(* [m]in1 + [n]in3 of the signature verification: signed digits of both    *)
(* scalars, tables of the odd multiples of both points, and one loop of    *)
(* Jacobian doublings and additions over both sequences of digits.         *)
(***************************************************************************)
EXTENDS Curve, Sequences

CONSTANTS
  Setups,     (* Curves: records with a, b and the points 0, G, 2G, ..       *)
  Scalars,    (* The scalars m and n.                                        *)
  Windows,    (* The widths of the digits; the code has 5.                   *)
  Inputs,     (* The points in1 and in3, as multiples of the generator.      *)
  Scales,     (* The Z of their projective coordinates.                      *)
  WNAF_SIZE   (* Entries of m_wnag and n_wnag; the code has 512.             *)

\* The points are those of a cyclic group, in the order of their multiples of
\* the generator.
ASSUME SetupAssumption ==
  \A s \in Setups :
    LET c == ec_shortw_crv_init(s.a, s.b)
        N == Len(s.points)
    IN  /\ s.a \in Field /\ s.b \in Field /\ (4 * s.a^3 + 27 * s.b^2) % p # 0
        /\ s.points \in Seq({Infinity} \cup (Field \X Field)) /\ N > 2
        /\ \A k \in 1..N : /\ OnCurve(c, s.points[k])
                           /\ s.points[k] = Infinity <=> k = 1
        /\ \A k, l \in 1..N :
             Plus(c, s.points[k], s.points[l]) = s.points[((k + l - 2) % N) + 1]

ASSUME InputAssumption ==
  /\ Scalars \subseteq Nat /\ Windows \subseteq Nat \ {0, 1}
  /\ Inputs \subseteq Nat /\ Scales \subseteq 1..(p - 1)

\* The digits of a scalar below 2^(WNAF_SIZE - 1) fit the arrays.
ASSUME SizeAssumption ==
  WNAF_SIZE \in Nat \ {0} /\ \A s \in Setups : Len(s.points) < 2^(WNAF_SIZE - 1)

\* Facts of arithmetic that the proofs of WnafProofs use.
ASSUME PowersOfTwo ==
  /\ 2^0 = 1
  /\ \A e \in Windows \cup {WNAF_SIZE} : \A j \in 0..e :
       2^j \in Nat \ {0} /\ 2^(j + 1) = 2 * 2^j

VARIABLES
  pc,       (* "call", "mul", "loop", "done", "exit_normalize", "exit_inv"   *)
  setup,    (* The curve.                                                    *)
  window,
  m, n,     (* The scalars.                                                  *)
  k1, k3,   (* in1 and in3 as multiples of the generator; not in the code.   *)
  in1, in3, (* The points.                                                   *)
  pre_comp_m, pre_comp_n,   (* The tables of points.                         *)
  m_wnag, n_wnag,           (* The digits, from the lowest.                  *)
  i,        (* Iterations left: the loop index of the code plus 1.           *)
  out

inputs == <<setup, window, m, n, k1, k3, in1, in3>>
tables == <<pre_comp_m, pre_comp_n, m_wnag, n_wnag>>
vars == <<pc, inputs, tables, i, out>>

crv == ec_shortw_crv_init(setup.a, setup.b)

order == Len(setup.points)
Times(k) == setup.points[(k % order) + 1]

-----------------------------------------------------------------------------
(***************************************************************************)
(* Digits.                                                                 *)
(***************************************************************************)

\* Faulty: the threshold is 1 << window.
Digit_Late(w, t) ==
  IF t % 2 = 0 THEN 0
  ELSE IF t % 2^w > 2^w THEN (t % 2^w) - 2^w ELSE t % 2^w

\* The digit of the lowest bit of t: 0, or the odd number nearest to 0 that
\* leaves a multiple of 2^w.
Digit(w, t) ==
  IF t % 2 = 0 THEN 0
  ELSE IF t % 2^w > 2^(w - 1) THEN (t % 2^w) - 2^w ELSE t % 2^w

\* Faulty: the carry of a negative digit is lost.
ecmult_wnaf_NoCarry(w, t0) ==
  LET digits[t \in 0..t0] ==
        IF t = 0 THEN <<>>
        ELSE <<Digit(w, t)>> \o digits[(IF t % 2 = 0 THEN t ELSE t - (t % 2^w)) \div 2]
  IN  digits[t0]

ecmult_wnaf(w, t0) ==
  LET digits[t \in 0..t0] ==
        IF t = 0 THEN <<>> ELSE <<Digit(w, t)>> \o digits[(t - Digit(w, t)) \div 2]
  IN  digits[t0]

\* P, 3P, .. for the digits 1, 3, .. 2^(w - 1) - 1.
get_pre_comp_points(P, size) ==
  LET in2 == jprj_pt_dbl_monty(P)
      table[j \in 1..size] ==
        IF j = 1 THEN <<P>>
        ELSE LET t == table[j - 1] IN Append(t, jprj_pt_add_monty(t[j - 1], in2))
  IN  table[size]

-----------------------------------------------------------------------------

Init ==
  /\ pc = "call"
  /\ setup \in Setups /\ window \in Windows
  /\ m = 0 /\ n = 0 /\ k1 = 0 /\ k3 = 0
  /\ in1 = prj_pt_zero /\ in3 = prj_pt_zero /\ out = prj_pt_zero
  /\ pre_comp_m = <<>> /\ pre_comp_n = <<>> /\ m_wnag = <<>> /\ n_wnag = <<>>
  /\ i = 0

\* The projective coordinates of an affine point with the given Z.
Scaled(A, z) ==
  IF A = Infinity THEN Point(0, z, 0) ELSE Point((A[1] * z) % p, (A[2] * z) % p, z)

Call ==
  /\ pc = "call"
  /\ m' \in Scalars /\ n' \in Scalars
  /\ k1' \in Inputs /\ k3' \in Inputs
  /\ \E z \in Scales : in1' = Scaled(Times(k1'), 1) /\ in3' = Scaled(Times(k3'), z)
  /\ pc' = "mul"
  /\ UNCHANGED <<setup, window, tables, i, out>>

\* The MUST_HAVE of prj_pt_normalize.
NormalizeExits ==
  /\ pc = "mul"
  /\ prj_pt_iszero(in1) \/ prj_pt_iszero(in3)
  /\ pc' = "exit_normalize"
  /\ UNCHANGED <<inputs, tables, i, out>>

\* Faulty: in3 is not brought to Z = 1 first.
Prepare_NotNormalized ==
  /\ pc = "mul"
  /\ ~prj_pt_iszero(in1) /\ ~prj_pt_iszero(in3)
  /\ pre_comp_m' = get_pre_comp_points(Redcified(prj_pt_normalize(in1)), 2^(window - 2))
  /\ pre_comp_n' = get_pre_comp_points(Redcified(in3), 2^(window - 2))
  /\ m_wnag' = ecmult_wnaf(window, m % order)
  /\ n_wnag' = ecmult_wnaf(window, n % order)
  /\ i' = IF Len(m_wnag') > Len(n_wnag') THEN Len(m_wnag') ELSE Len(n_wnag')
  /\ out' = prj_pt_zero
  /\ pc' = "loop"
  /\ UNCHANGED inputs

Prepare ==
  /\ pc = "mul"
  /\ ~prj_pt_iszero(in1) /\ ~prj_pt_iszero(in3)
  /\ pre_comp_m' = get_pre_comp_points(Redcified(prj_pt_normalize(in1)), 2^(window - 2))
  /\ pre_comp_n' = get_pre_comp_points(Redcified(prj_pt_normalize(in3)), 2^(window - 2))
  /\ m_wnag' = ecmult_wnaf(window, m % order)
  /\ n_wnag' = ecmult_wnaf(window, n % order)
  /\ i' = IF Len(m_wnag') > Len(n_wnag') THEN Len(m_wnag') ELSE Len(n_wnag')
  /\ out' = prj_pt_zero
  /\ pc' = "loop"
  /\ UNCHANGED inputs

neg_pt(P) == [P EXCEPT !.Y = fp_neg(P.Y)]

\* Adds the table entry of the digit at position j, if there is one.
AddDigit(P, wnag, pre_comp, j) ==
  IF j > Len(wnag) \/ wnag[j] = 0 THEN P
  ELSE IF wnag[j] > 0 THEN jprj_pt_add_monty(P, pre_comp[(wnag[j] + 1) \div 2])
  ELSE jprj_pt_add_monty(P, neg_pt(pre_comp[(1 - wnag[j]) \div 2]))

\* One iteration: doubling, then the digits of m and of n.
Iterate ==
  /\ pc = "loop" /\ i > 0
  /\ out' = AddDigit(AddDigit(jprj_pt_dbl_monty(out), m_wnag, pre_comp_m, i),
                     n_wnag, pre_comp_n, i)
  /\ i' = i - 1
  /\ UNCHANGED <<pc, inputs, tables>>

\* Back from Montgomery form, to affine coordinates with Z = 1.
Finish ==
  /\ pc = "loop" /\ i = 0
  /\ LET P == Unredcified(out)
         zinv == fp_inv(P.Z)
         zinv2 == fp_mul(zinv, zinv)
     IN  IF prj_pt_iszero(P) THEN pc' = "exit_inv" /\ UNCHANGED out
         ELSE /\ out' = Point(fp_mul(P.X, zinv2), fp_mul(P.Y, fp_mul(zinv, zinv2)), 1)
              /\ pc' = "done"
  /\ UNCHANGED <<inputs, tables, i>>

\* The caller has the result and may call again.
Return ==
  /\ pc = "done"
  /\ pc' = "call"
  /\ m' = 0 /\ n' = 0 /\ k1' = 0 /\ k3' = 0
  /\ in1' = prj_pt_zero /\ in3' = prj_pt_zero /\ out' = prj_pt_zero
  /\ pre_comp_m' = <<>> /\ pre_comp_n' = <<>> /\ m_wnag' = <<>> /\ n_wnag' = <<>>
  /\ UNCHANGED <<setup, window, i>>

Next == Call \/ NormalizeExits \/ Prepare \/ Iterate \/ Finish \/ Return

Spec == Init /\ [][Next]_vars

-----------------------------------------------------------------------------

Ended == {"done", "exit_normalize", "exit_inv"}
Triples == [X : Elements, Y : Elements, Z : Elements]

TypeOK ==
  /\ pc \in {"call", "mul", "loop"} \cup Ended
  /\ setup \in Setups /\ window \in Windows
  /\ m \in Nat /\ n \in Nat /\ k1 \in Inputs \cup {0} /\ k3 \in Inputs \cup {0}
  /\ {in1, in3, out} \subseteq Triples
  /\ pre_comp_m \in Seq(Triples) /\ pre_comp_n \in Seq(Triples)
  /\ m_wnag \in Seq(Int) /\ n_wnag \in Seq(Int)
  /\ i \in 0..WNAF_SIZE

\* The value of the c highest digits.
TopValue(ds, c) ==
  LET value[l \in 0..Len(ds)] ==
        IF l = 0 THEN 0 ELSE ds[Len(ds) + 1 - l] + 2 * value[l - 1]
  IN  value[c]

\* The value of the digits from position j on.
ValueFrom(ds, j) == IF j > Len(ds) THEN 0 ELSE TopValue(ds, Len(ds) + 1 - j)

\* A digit is 0 or odd and indexes the table, and of any w consecutive
\* digits at most one is not 0.
WellFormed(w, ds) ==
  \A j \in 1..Len(ds) : ds[j] # 0 =>
    /\ ds[j] % 2 = 1 /\ -(2^(w - 1)) < ds[j] /\ ds[j] < 2^(w - 1)
    /\ \A l \in (j + 1)..(j + w - 1) : l <= Len(ds) => ds[l] = 0

\* The signed digits are the scalar modulo the order, within the bounds of the
\* table of points, so sparse that the loop adds once in window steps; and they
\* are at most one more than its bits, so that the arrays hold them
\* (prj_pt_monty.c, ecmult_wnaf: m_wnag and n_wnag are written unchecked).
DigitsCorrect ==
  pc = "loop" =>
    /\ ValueFrom(m_wnag, 1) = m % order /\ ValueFrom(n_wnag, 1) = n % order
    /\ WellFormed(window, m_wnag) /\ WellFormed(window, n_wnag)
    /\ Len(m_wnag) <= WNAF_SIZE /\ Len(n_wnag) <= WNAF_SIZE

\* In the loop the Jacobian point is the multiple given by the digits consumed,
\* whether the sums meet infinity, equal or opposite points on the way or not
\* (prj_pt_monty.c, _jprj_pt_add_monty and its three special cases).
LoopInv ==
  pc = "loop" =>
    JacobianAffine(out) =
      Times(ValueFrom(m_wnag, i + 1) * k1 + ValueFrom(n_wnag, i + 1) * k3)

\* The function stops the program for an input or a result at infinity only.
ExitsOnlyAtInfinity ==
  /\ pc = "exit_normalize" => k1 % order = 0 \/ k3 % order = 0
  /\ pc = "exit_inv" => (m * k1 + n * k3) % order = 0

\* "7. Compute W' = uG + vY" (ecdsa.c): the point returned is [m]in1 + [n]in3.
ResultCorrect == pc = "done" => Affine(out) = Times(m * k1 + n * k3)

(***************************************************************************)
(* The abstract multiplication, with the logarithm of the result.          *)
(***************************************************************************)

Abstract == INSTANCE PointMul WITH
  phase <- CASE pc \in {"mul", "loop"} -> "busy"
             [] pc \in {"exit_normalize", "exit_inv"} -> "exit"
             [] OTHER -> pc,
  order <- order,
  scalar <- m * k1 + n * k3,
  result <- IF pc = "done"
            THEN CHOOSE k \in 0..(order - 1) : Times(k) = Affine(out)
            ELSE 0

\* The double multiplication implements the abstract one, for the combination
\* of its inputs.
ImplementsPointMul == Abstract!Spec
=============================================================================
