--------------------------------- MODULE MCFp ---------------------------------
(***************************************************************************)
(* Fp with interchangeable registers.                                      *)
(***************************************************************************)
EXTENDS Fp, TLC

Symmetry == Permutations(Regs)
=============================================================================
