------------------------------- MODULE MCNnArith -------------------------------
(***************************************************************************)
(* Words of 4 bits; numbers of 1 to 3 words, among them the words at which *)
(* estimates, carries and normalisation change.                            *)
(***************************************************************************)
EXTENDS NnArith

MCLoads ==
  [wlen : {1}, val : {0, 1, 5, 15}]
    \cup [wlen : {2}, val : {0, 1, 16, 127, 128, 135, 240, 255}]
    \cup [wlen : {3}, val : {0, 15, 273, 2047, 2048, 2055, 3841, 4095}]
=============================================================================
