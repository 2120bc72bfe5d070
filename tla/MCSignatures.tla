------------------------------ MODULE MCSignatures ------------------------------
(***************************************************************************)
(* Two curves of 7 points with a = -3, as prj_pt_ec_mult_wnaf needs it:    *)
(* y^2 = x^3 - 3x + 1 over 5 elements with the generator (0, 1), for r = 0,*)
(* and y^2 = x^3 - 3x + 10 over 11 elements with (10, 10), for abscissas   *)
(* above q.  A digest of three bytes of two bits is longer than q, whose   *)
(* numbers have two bytes.                                                 *)
(***************************************************************************)
EXTENDS Signatures

MCCurves == {<<0, 1, 3, 3, 1, 0>>, <<10, 2, 8, 8, 2, 10>>}
MCChunks == {<<0>>, <<0, 0>>}
MCMessages == {<<>>, <<0>>, <<0, 0>>}

\* Prefixes, messages and repetitions change the digest, and digests have all
\* the residues modulo q and modulo 16, 0 among them.
MCHash(pre, msg, n) ==
  LET p == CASE pre[1] = "" -> 0
             [] pre[1] = "xy" -> pre[2]
             [] pre[1] = "x" -> 8 + pre[2]
             [] pre[1] = "Y" -> 20 + pre[2]
  IN  (21 + 27 * p + 14 * Len(msg) + 8 * p * Len(msg) + 35 * (n - 1)) % 64

\* One of the fixed sources of rand.c, and a random one.
MCBuilds == {[blinding |-> FALSE, source |-> {3}],
             [blinding |-> FALSE, source |-> 1..6],
             [blinding |-> TRUE, source |-> 1..6]}

MCEcMaps == {[type |-> 1, name |-> "FRP256V1"], [type |-> 2, name |-> "SECP256R1"]}
=============================================================================
