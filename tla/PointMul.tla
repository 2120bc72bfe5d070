------------------------------- MODULE PointMul -------------------------------
(***************************************************************************)
(* What prj_pt_mul and its variants promise: given a scalar and a point of *)
(* the given order they deliver the multiple of the point by the scalar,   *)
(* here the residue of the scalar modulo that order, in one step; or the   *)
(* program stops.                                                          *)
(***************************************************************************)
EXTENDS Integers

VARIABLES
  phase,   (* "call", "busy", "done" or "exit"                             *)
  order,   (* order of the input point                                     *)
  scalar,
  result

vars == <<phase, order, scalar, result>>

Init ==
  /\ phase = "call"
  /\ order \in Nat \ {0}
  /\ scalar = 0
  /\ result = 0

Request ==
  /\ phase = "call"
  /\ phase' = "busy"
  /\ scalar' \in Nat
  /\ UNCHANGED <<order, result>>

Deliver ==
  /\ phase = "busy"
  /\ phase' = "done"
  /\ result' = scalar % order
  /\ UNCHANGED <<order, scalar>>

Stop ==
  /\ phase = "busy"
  /\ phase' = "exit"
  /\ UNCHANGED <<order, scalar, result>>

Return ==
  /\ phase = "done"
  /\ phase' = "call"
  /\ scalar' = 0
  /\ result' = 0
  /\ UNCHANGED order

Next == Request \/ Deliver \/ Stop \/ Return

Spec == Init /\ [][Next]_vars
=============================================================================
