----------------------------- MODULE MCHashStream -----------------------------
(***************************************************************************)
(* Bytes of 4 bits and blocks of 4 or 8 bytes.  The counter of the first   *)
(* function is one word of two bytes, that of the second two words of one  *)
(* byte, which 16 bytes wrap.                                              *)
(***************************************************************************)
EXTENDS HashStream

Alg(family, block, word, words, big) ==
  [family |-> family, block |-> block, word |-> word, words |-> words, big |-> big]

MCAlgs ==
  {Alg("sha2", 8, 2, 1, FALSE), Alg("sha2", 4, 1, 2, FALSE),
   Alg("sha3", 6, 2, 1, FALSE), Alg("sha3", 6, 2, 1, TRUE), Alg("copy", 4, 2, 1, FALSE)}

\* No byte comes twice within 16; 8 is the mark of the padding, 6 that of SHA-3.
MCTexts == {[j \in 1..18 |-> (5 * j) % 16], [j \in 1..9 |-> (11 * j + 6) % 16]}
=============================================================================
