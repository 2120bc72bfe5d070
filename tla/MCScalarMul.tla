----------------------------- MODULE MCScalarMul -----------------------------
(***************************************************************************)
(* A curve of 6 points with a generator of order 3, so that all the orders *)
(* of input points (1, 2, 3, 6; the even ones without complete formulas)   *)
(* occur, and scalars on both sides of the order (6), of its square (36)   *)
(* and of the powers of two in between.                                    *)
(* The ladder without complete formulas has a run of its own, on a curve   *)
(* of 5 points.                                                            *)
(***************************************************************************)
EXTENDS ScalarMul

Build(loop, complete) == [loop |-> loop, complete |-> complete]
MCBuilds == {Build("ladder", TRUE), Build("always", TRUE), Build("always", FALSE)}
IncompleteLadder == {Build("ladder", FALSE)}

MCScalars == 0..40
=============================================================================
