-------------------------------- MODULE Ecfsdsa --------------------------------
(***************************************************************************)
(* EC-FSDSA: sig/ecfsdsa.c.  The first half of a signature is a point: r   *)
(* is k for [k]G, and 0 or q for coordinates that are no point of the      *)
(* curve, q if one of them is not below p.                                 *)
(***************************************************************************)
EXTENDS SigContext

ecfsdsa_init_pub_key(x) == [type |-> "ECFSDSA", y |-> x % q]
ecfsdsa_siglen(p_len) == 2 * p_len + BYTECEIL(QBits)

ecfsdsa_e(c) == Digest(c) % q

\* Step 7, with k and e multiplied by b, and s unblinded.
ecfsdsa_s(e, k, b) == (nn_modinv(b) * ((k * b) + (((e * b) % q) * priv.x))) % q

\* Steps 1 to 5: r is hashed before the message.  Step 4 has nothing to do, no
\* point has two null coordinates.
_ecfsdsa_sign_init(k) ==
  /\ conf.alg = "ECFSDSA" /\ k \in conf.source
  /\ SignOpens(<<"xy", k>>, k)

_ecfsdsa_sign_update(chunk) == conf.alg = "ECFSDSA" /\ ec_sign_update(chunk)

\* Faulty: s is not tested.
_ecfsdsa_sign_finalize_NullS(siglen, b) ==
  /\ conf.alg = "ECFSDSA"
  /\ Idle /\ sign.pc = "open"
  /\ conf.blinding \/ b = 1
  /\ LET s == ecfsdsa_s(ecfsdsa_e(sign), sign.k, b)
     IN  IF siglen # ecfsdsa_siglen(1) \/ b = 0 THEN SignRefused ELSE SignReturns(sign.k, s)

\* b is 0 if the random source has failed.  A null s is an error: the point
\* was drawn by init.
_ecfsdsa_sign_finalize(siglen, b) ==
  /\ conf.alg = "ECFSDSA"
  /\ Idle /\ sign.pc = "open"
  /\ conf.blinding \/ b = 1
  /\ IF siglen # ecfsdsa_siglen(1) \/ b = 0 \/ ecfsdsa_s(ecfsdsa_e(sign), sign.k, b) = 0
     THEN SignRefused
     ELSE SignReturns(sign.k, ecfsdsa_s(ecfsdsa_e(sign), sign.k, b))

\* fp_import_from_buf stops the program on a coordinate that is not below p.
_ecfsdsa_verify_init(in) ==
  /\ conf.alg = "ECFSDSA" /\ Verifiable
  /\ CASE in.r = q -> Exits("coordinate")
       [] in.r = 0 -> VerifyRefused(in)
       [] in.r \in Scalars -> IF in.s \in Scalars THEN VerifyOpens(in, <<"xy", in.r>>)
                              ELSE VerifyRefused(in)

_ecfsdsa_verify_update(chunk) == conf.alg = "ECFSDSA" /\ ec_verify_update(chunk)

\* Steps 3 to 5: W' = sG + eY with e = -h.
ecfsdsa_W_prime(c) == uG_vY(c.sig.s, nn_mod_neg(Digest(c)))

\* Steps 6 and 7.
_ecfsdsa_verify_finalize ==
  /\ conf.alg = "ECFSDSA"
  /\ LET W == ecfsdsa_W_prime(verify) IN VerdictOn(W, W = verify.sig.r)

EcfsdsaNext ==
  \/ \E k \in Scalars : _ecfsdsa_sign_init(k)
  \/ \E chunk \in Chunks : _ecfsdsa_sign_update(chunk)
  \/ \E siglen \in {ecfsdsa_siglen(1), 0}, b \in conf.source \cup {1} \cup (IF Failing THEN {0} ELSE {}) :
       _ecfsdsa_sign_finalize(siglen, b)
  \/ \E chunk \in Chunks : _ecfsdsa_verify_update(chunk)
  \/ _ecfsdsa_verify_finalize

\* s = k + h y with x = y.
EcfsdsaValid(y, msg, r, s) ==
  /\ r \in Scalars
  /\ s \in Scalars /\ s = (r + Hash(<<"xy", r>>, msg, 1) * y) % q
=============================================================================
