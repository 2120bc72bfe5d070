------------------------------ MODULE ScalarMul ------------------------------
(***************************************************************************)
(* Masked scalar multiplication of a projective point: the Montgomery      *)
(* ladder and the Double and Add Always loop of curves/prj_pt_monty.c (the *)
(* loops of curves/prj_pt.c are the same with the plain field product),    *)
(* with the scalar whose most significant bit is fixed first, and the      *)
(* blinded entry point that adds a random multiple of the group order.     *)
(*                                                                         *)
(* Every point the functions handle is a multiple of their input point;    *)
(* the point [k]in is represented by the integer k, so that the group      *)
(* formulas are + and doubling.  Two integers stand for the same point iff *)
(* they are congruent modulo the order of the input point (inord).         *)
(* Module PrjPt shows that the formulas are right, but for the addition    *)
(* with NO_USE_COMPLETE_FORMULAS into an operand: that is kept here.       *)
(***************************************************************************)
EXTENDS Integers

CONSTANTS
  Builds,         (* Records: the loop, and whether the formulas are         *)
                  (* complete.                                               *)
  Order,          (* crv->order: the number of points of the curve.          *)
  GenOrder,       (* ec_gen_order: the order of the generator.               *)
  NN_MAX_BIT_LEN, (* Capacity of an nn, in bits.                             *)
  Scalars,        (* The scalars m a caller may pass.                        *)
  Unset           (* Content of a point that nothing has been written to.    *)

Loops == {"ladder", "always"}   \* USE_MONTY_LADDER, USE_DOUBLE_ADD_ALWAYS

ASSUME BuildAssumption == Builds \subseteq [loop : Loops, complete : BOOLEAN]

\* A fact of arithmetic about the powers of two that an nn can hold.
ASSUME PowersOfTwo ==
  /\ NN_MAX_BIT_LEN \in Nat
  /\ 2^0 = 1
  /\ \A i \in 0..NN_MAX_BIT_LEN : 2^i \in Nat \ {0} /\ 2^(i + 1) = 2 * 2^i

ASSUME OrderAssumption ==
  /\ Order \in Nat \ {0}
  /\ GenOrder \in 1..Order
  /\ \E h \in 1..Order : Order = h * GenOrder        \* h is the cofactor

\* nn_config.h gives an nn three times the words of the order: every scalar,
\* blinded or with its most significant bit fixed, fits.
ASSUME CapacityAssumption ==
  /\ 3 * (Order * Order) < 2^NN_MAX_BIT_LEN
  /\ Scalars \subseteq Nat
  /\ \A m \in Scalars : m + GenOrder * GenOrder < 2^NN_MAX_BIT_LEN
  /\ Unset \notin Int

VARIABLES
  build,  (* The build in use.                                               *)
  pc,     (* "call", "mul", "ladder", "always", "done", "exit_rand", "exit_curve" *)
  azero,  (* TRUE iff the curve coefficient a is 0.                          *)
  inord,  (* Order of the input point.                                       *)
  m,      (* The scalar the caller asked for.                                *)
  mult,   (* The scalar handed to the loop: m, or b * q + m when blinded.    *)
  mfix,   (* m_msb_fixed.                                                    *)
  mlen,   (* Bits of m_msb_fixed still to be processed.                      *)
  rbit,   (* The current bit of the masking random r.                        *)
  T,      (* The three working points.                                       *)
  out     (* The result.                                                     *)

vars == <<build, pc, azero, inord, m, mult, mfix, mlen, rbit, T, out>>

Bits == {0, 1}
Points == Int
Xor(a, b) == (a + b) % 2
Unwritten == [i \in 0..2 |-> Unset]

(***************************************************************************)
(* Numbers.                                                                *)
(***************************************************************************)

\* The number of bits of v: 0 for 0, else the position of its top bit plus 1.
nn_bitlen(v) ==
  CHOOSE len \in 0..NN_MAX_BIT_LEN :
    v < 2^len /\ (len = 0 \/ 2^(len - 1) <= v)

nn_getbit(v, bit) == (v \div 2^bit) % 2

\* Faulty variants: the second addition forgotten; nn_sub for nn_add; the order
\* of the generator for that of the curve.
MsbFixed_AddedOnce(s) ==
  IF s < Order THEN s + Order
  ELSE IF s < Order * Order THEN s + Order * Order ELSE s
MsbFixed_Subtracted(s) == IF s < Order THEN s - Order ELSE s
MsbFixed_WrongOrder(s) ==
  IF nn_bitlen(s + GenOrder) = nn_bitlen(GenOrder) THEN s + 2 * GenOrder ELSE s + GenOrder

\* m' = m + q or m + 2q, whichever is one bit longer than q; the same with
\* q^2 for a scalar in q .. q^2 - 1; a longer scalar is kept as it is.
MsbFixed(s) ==
  LET Fixed(q) == IF nn_bitlen(s + q) = nn_bitlen(q) THEN s + q + q ELSE s + q
  IN  IF s < Order THEN Fixed(Order)
      ELSE IF s < Order * Order THEN Fixed(Order * Order)
      ELSE s

Blinded_ByMask(b, q, s) == b * s + q  \* faulty: the operands swapped

\* The scalar of the blinded multiplication, with the random b and q.
Blinded(b, q, s) == b * q + s

(***************************************************************************)
(* Points.                                                                 *)
(***************************************************************************)

prj_pt_iszero(k) == k % inord = 0

prj_pt_dbl_monty(k) == 2 * k

\* Without the complete formulas, when j is at infinity the output is zeroed and k
\* copied to it.  If the output is k nothing is left but Z = 0, which is taken for
\* the point at infinity from then on.
prj_pt_add_monty(j, k, outIsK) ==
  IF ~build.complete /\ outIsK /\ prj_pt_iszero(j) THEN 0 ELSE j + k

OnCurveCheckExits_Always(k) == prj_pt_iszero(k)  \* faulty: no dummy at all

\* prj_pt_is_on_curve tests, instead of the point at infinity, the dummy
\* (a : b : a_monty), and prj_pt_to_aff exits on a point whose Z is 0.
OnCurveCheckExits(k) == azero /\ prj_pt_iszero(k)

(***************************************************************************)
(* The loop bodies.  Registers are overwritten in the order of the code.   *)
(***************************************************************************)

\* Faulty: the next mask bit selects the register to double.
LadderBody_NextMask(P, mbit, r, rnext) ==
  LET x == Xor(mbit, rnext)
      A == [P EXCEPT ![2] = 2 * P[x], ![1] = P[0] + P[1]]
      B == [A EXCEPT ![0] = A[2 - x]]
  IN  [B EXCEPT ![1] = B[1 + x]]

LadderBody(P, mbit, r, rnext) ==
  LET A == [P EXCEPT ![2] = prj_pt_dbl_monty(P[Xor(mbit, r)])]
      B == [A EXCEPT ![1] = prj_pt_add_monty(A[0], A[1], TRUE)]
      C == [B EXCEPT ![0] = B[2 - Xor(mbit, rnext)]]
  IN  [C EXCEPT ![1] = C[1 + Xor(mbit, rnext)]]

AlwaysBody(P, mbit, r, rnext) ==
  LET A == [P EXCEPT ![r] = prj_pt_dbl_monty(P[r])]
      B == [A EXCEPT ![1 - r] = prj_pt_add_monty(A[r], A[2], FALSE)]
  IN  [B EXCEPT ![rnext] = B[Xor(mbit, r)]]

-----------------------------------------------------------------------------

\* The complete formulas are those for points without one of order 2 among their
\* multiples.
Init ==
  /\ build \in Builds
  /\ pc = "call"
  /\ azero \in BOOLEAN
  /\ inord \in {d \in 1..Order : Order % d = 0 /\ (build.complete => d % 2 = 1)}
  /\ m = 0 /\ mult = 0 /\ mfix = 0 /\ mlen = 0 /\ rbit = 0
  /\ T = Unwritten
  /\ out = Unset

\* prj_pt_mul_monty(out, s, in).
Call ==
  /\ pc = "call"
  /\ \E s \in Scalars : m' = s /\ mult' = s
  /\ pc' = "mul"
  /\ UNCHANGED <<build, azero, inord, mfix, mlen, rbit, T, out>>

\* prj_pt_mul_monty_blind(out, s, in, b, q), whose callers pass the generator
\* for in, its order for q and for b a random of ]0,q[.
CallBlind ==
  /\ pc = "call"
  /\ inord = GenOrder
  /\ \E s \in Scalars, b \in 1..(GenOrder - 1) :
       m' = s /\ mult' = Blinded(b, GenOrder, s)
  /\ pc' = "mul"
  /\ UNCHANGED <<build, azero, inord, mfix, mlen, rbit, T, out>>

\* The randoms r or l cannot be had: MUST_HAVE stops the program.
RandomFails ==
  /\ pc = "mul"
  /\ ~OnCurveCheckExits(1)
  /\ pc' = "exit_rand"
  /\ UNCHANGED <<build, azero, inord, m, mult, mfix, mlen, rbit, T, out>>

\* The check that the input is on the curve stops the program.
InputCheckExits ==
  /\ pc = "mul"
  /\ OnCurveCheckExits(1)
  /\ pc' = "exit_curve"
  /\ UNCHANGED <<build, azero, inord, m, mult, mfix, mlen, rbit, T, out>>

\* Everything before the loop.  The case mlen = 0 of the code is left out:
\* MsbFixed is never 0 (theorem MsbFixedHasTopBit).
Prologue ==
  /\ pc = "mul"
  /\ ~OnCurveCheckExits(1)
  /\ mfix' = MsbFixed(mult)
  /\ mlen' = nn_bitlen(mfix') - 1
  /\ rbit' \in Bits
  /\ T' = IF build.loop = "ladder"
          THEN [Unwritten EXCEPT ![rbit'] = 1, ![1 - rbit'] = prj_pt_dbl_monty(1)]
          ELSE [Unwritten EXCEPT ![2] = 1, ![rbit'] = 1]
  /\ pc' = build.loop
  /\ UNCHANGED <<build, azero, inord, m, mult, out>>

\* One iteration of while (mlen > 0).
LadderStep ==
  /\ pc = "ladder"
  /\ mlen > 0
  /\ mlen' = mlen - 1
  /\ rbit' \in Bits
  /\ T' = LadderBody(T, nn_getbit(mfix, mlen'), rbit, rbit')
  /\ UNCHANGED <<build, pc, azero, inord, m, mult, mfix, out>>

\* Faulty: a zero bit is skipped before the loop counter is decremented.
AlwaysStep_Stuck ==
  LET mbit == nn_getbit(mfix, mlen - 1)
  IN  /\ pc = "always"
      /\ mlen > 0
      /\ mlen' = mlen - mbit
      /\ rbit' \in Bits
      /\ T' = IF mbit = 1 THEN AlwaysBody(T, mbit, rbit, rbit') ELSE T
      /\ UNCHANGED <<build, pc, azero, inord, m, mult, mfix, out>>

AlwaysStep ==
  /\ pc = "always"
  /\ mlen > 0
  /\ mlen' = mlen - 1
  /\ rbit' \in Bits
  /\ T' = AlwaysBody(T, nn_getbit(mfix, mlen'), rbit, rbit')
  /\ UNCHANGED <<build, pc, azero, inord, m, mult, mfix, out>>

\* After the loop: copy T[r[0]] to out and check that it is on the curve.
Epilogue ==
  /\ pc \in Loops
  /\ mlen = 0
  /\ out' = T[rbit]
  /\ pc' = IF OnCurveCheckExits(T[rbit]) THEN "exit_curve" ELSE "done"
  /\ UNCHANGED <<build, azero, inord, m, mult, mfix, mlen, rbit, T>>

\* The caller has the result and may call again.
Return ==
  /\ pc = "done"
  /\ pc' = "call"
  /\ m' = 0 /\ mult' = 0 /\ mfix' = 0 /\ mlen' = 0 /\ rbit' = 0
  /\ T' = Unwritten
  /\ out' = Unset
  /\ UNCHANGED <<build, azero, inord>>

Run ==
  \/ RandomFails
  \/ InputCheckExits
  \/ Prologue
  \/ LadderStep
  \/ AlwaysStep
  \/ Epilogue

Next == Call \/ CallBlind \/ Run \/ Return

Spec == Init /\ [][Next]_vars

\* The code runs on without waiting for anything once it is called.
FairSpec == Spec /\ WF_vars(Run)

-----------------------------------------------------------------------------

Ended == {"done", "exit_rand", "exit_curve"}

TypeOK ==
  /\ build \in Builds
  /\ pc \in {"call", "mul"} \cup Loops \cup Ended
  /\ azero \in BOOLEAN
  /\ inord \in 1..Order
  /\ m \in Nat /\ mult \in Nat /\ mfix \in Nat
  /\ mlen \in 0..NN_MAX_BIT_LEN
  /\ rbit \in Bits
  /\ T \in [0..2 -> Points \cup {Unset}]
  /\ out \in Points \cup {Unset}

\* In the loops the register that the mask bit designates holds the multiple
\* given by the scalar bits already consumed, whatever the bits of the mask
\* were; the other ladder register is one step ahead of it, and Double and Add
\* Always never loses the input point in T[2] (prj_pt_monty.c, both loops).
LoopInv ==
  /\ pc \in Loops =>
       /\ mlen < NN_MAX_BIT_LEN
       /\ mfix = MsbFixed(mult)
       /\ T[rbit] = mfix \div 2^mlen
  /\ pc \in Loops => pc = build.loop
  /\ pc = "ladder" => T[1 - rbit] = T[rbit] + 1
  /\ pc = "always" => T[2] = 1

\* The scalar of the loop differs from the one asked for by a multiple of the
\* order of the input point, fits an nn, and its top-bit-fixed form is what has
\* been multiplied when the loop is over.
CallInv ==
  /\ \E h \in 1..Order : Order = h * inord
  /\ pc # "call" =>
       /\ mult < 2^NN_MAX_BIT_LEN
       /\ \E c \in 0..mult : mult = m + c * inord
  /\ pc = "done" => out = MsbFixed(mult)
  /\ pc = "exit_curve" => azero /\ (inord = 1 \/ MsbFixed(mult) % inord = 0)

\* The inductive invariant.
IInv == TypeOK /\ LoopInv /\ CallInv

\* The point returned is [m]in: fixing the top bit with the curve order, or
\* blinding with the generator order, changes the scalar and never the result.
ResultCorrect ==
  pc = "done" => out \in Int /\ (out - m) % inord = 0

\* The number of loop iterations depends on the order of the curve alone, for
\* every scalar below q^2: what the comment above both loops promises against
\* timing leaks ("performed in constant time wrt the size of the scalar m").
IterationsFixed ==
  pc \in Loops =>
    /\ mult < Order => nn_bitlen(mfix) = nn_bitlen(Order) + 1
    /\ mult \in Order..(Order * Order - 1) =>
         nn_bitlen(mfix) = nn_bitlen(Order * Order) + 1

\* The on-curve checks of the function stop the program only on curves with
\* a = 0, and there only for the point at infinity.
CheckExitsOnlyAtInfinity ==
  pc = "exit_curve" => azero /\ (inord = 1 \/ m % inord = 0)

\* A call that was made ends: with a result or with the exit of the program.
CallEnds == pc = "mul" ~> pc \in Ended

(***************************************************************************)
(* What a caller may rely on: the function is one step that delivers       *)
(* [m]in, or stops the program.                                            *)
(***************************************************************************)

Phase == IF pc \in {"mul"} \cup Loops THEN "busy"
         ELSE IF pc \in {"exit_rand", "exit_curve"} THEN "exit" ELSE pc

Abstract == INSTANCE PointMul WITH
  phase <- Phase,
  order <- inord,
  scalar <- m,
  result <- IF pc = "done" THEN out % inord ELSE 0

\* The masked loops implement the abstract multiplication.
ImplementsPointMul == Abstract!Spec
=============================================================================
