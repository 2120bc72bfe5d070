------------------------------- MODULE MCPrjPt -------------------------------
(***************************************************************************)
(* The field of 5 elements.  Curves of 7 points (a = -3) and of 9 (a = 1)  *)
(* for the complete formulas; for the others one of 7, one of 6 with       *)
(* a = 0, and y^2 = x^3 - x, all whose 8 points have order 2 or 4.         *)
(***************************************************************************)
EXTENDS PrjPt, TLC

Setup(bld, a, b) == [build |-> bld, a |-> a, b |-> b]
MCSetups ==
  {Setup("complete", 2, 1), Setup("complete", 1, 1),
   Setup("cmo", 2, 1), Setup("cmo", 0, 1), Setup("cmo", 4, 0)}

AllTriples == [X : 0..p, Y : 0..p, Z : 0..p]

\* All affine points of the plane in two scalings, infinity, coordinates that are
\* too large, and (0 : 0 : 0), which the formulas never leave again.
MCImports ==
  {P \in AllTriples : p \notin {P.X, P.Y, P.Z} /\ P.Z \in {1, 3}}
    \cup {Point(0, y, 0) : y \in 0..(p - 1)}
    \cup {Point(p, 1, 1), Point(1, p, 1), Point(0, 1, p)}

Symmetry == Permutations(Regs)
=============================================================================
