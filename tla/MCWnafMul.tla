------------------------------ MODULE MCWnafMul ------------------------------
(***************************************************************************)
(* Two curves of 61 points over the field of 59 elements: the scalars have *)
(* 6 bits and up to 7 digits.  The first has a = -3, the second a = 6.     *)
(***************************************************************************)
EXTENDS WnafMul

\* 0, G, 2G, .. (k-1)G.
MCPoints(c, G, k) ==
  LET first[j \in 1..k] ==
        IF j = 1 THEN <<Infinity>>
        ELSE LET t == first[j - 1] IN Append(t, Plus(c, t[j - 1], G))
  IN  first[k]

MCSetup(a, b, G) ==
  [a |-> a, b |-> b, points |-> MCPoints(ec_shortw_crv_init(a, b), G, 61)]

MCSetups == {MCSetup(56, 46, <<0, 20>>)}
MCOtherA == {MCSetup(6, 1, <<0, 1>>)}

\* On both sides of the halves of windows and of powers of two, the last
\* residues, the order and a scalar above it.
MCScalars == {0, 1, 2, 3, 5, 7, 12, 15, 16, 17, 21, 29, 31, 32, 33, 43, 48, 59, 60, 61, 62}
=============================================================================
