-------------------------------- MODULE Ecgdsa ---------------------------------
(* EC-GDSA: sig/ecgdsa.c.                                                  *)
EXTENDS SigContext

\* nn_modinv, which stops the program on a multiple of q.
ecgdsa_init_pub_key(x) ==
  IF x % q = 0 THEN [type |-> "exit", y |-> 0]
  ELSE [type |-> "ECGDSA", y |-> nn_modinv(x % q)]
ecgdsa_siglen == 2 * BYTECEIL(QBits)

\* Faulty: the quotient is taken for the remainder.
ecgdsa_r_Quotient(k) == Abscissa(k) \div q

ecgdsa_r(k) == Abscissa(k) % q

\* Faulty: s is not unblinded.
ecgdsa_s_Blind(e, k, b, r) == (priv.x * (k * ((r * b) % q) + e)) % q

\* Step 7, for e already multiplied by b, and s unblinded.
ecgdsa_s(e, k, b, r) == (nn_modinv(b) * ((priv.x * (k * ((r * b) % q) + e)) % q)) % q

_ecgdsa_sign_init == conf.alg = "ECGDSA" /\ SignOpens(NoPrefix, 1)

_ecgdsa_sign_update(chunk) == conf.alg = "ECGDSA" /\ ec_sign_update(chunk)

\* Up to step 2: e = -h.
_ecgdsa_sign_finalize(siglen) ==
  /\ conf.alg = "ECGDSA"
  /\ IF siglen = ecgdsa_siglen THEN SignReachesRestart(nn_mod_neg(Digest(sign))) ELSE SignRefused

\* Steps 3 to 9: a null s restarts with e in its blinded form.
EcgdsaAttempt(k, b) ==
  /\ conf.alg = "ECGDSA" /\ Draws(k, b)
  /\ LET r == ecgdsa_r(k)
         e == (sign.e * b) % q
         s == ecgdsa_s(e, k, b, r)
     IN  IF r = 0 THEN SignRestarts(sign)
         ELSE IF s = 0 THEN SignRestarts([sign EXCEPT !.e = e, !.redo = @ \/ conf.blinding])
         ELSE SignReturns(r, s)

_ecgdsa_verify_init(in) ==
  /\ conf.alg = "ECGDSA" /\ Verifiable
  /\ IF in.r \in Scalars /\ in.s \in Scalars THEN VerifyOpens(in, NoPrefix) ELSE VerifyRefused(in)

_ecgdsa_verify_update(chunk) == conf.alg = "ECGDSA" /\ ec_verify_update(chunk)

\* Steps 3 to 6: here e = h.
ecgdsa_W_prime(c) ==
  LET e == Digest(c) % q
      rinv == nn_modinv(c.sig.r)
  IN  uG_vY(rinv * e, rinv * c.sig.s)

\* Steps 7 and 8.
_ecgdsa_verify_finalize ==
  /\ conf.alg = "ECGDSA"
  /\ LET W == ecgdsa_W_prime(verify) IN VerdictOn(W, ecgdsa_r(W) = verify.sig.r)

EcgdsaNext ==
  \/ _ecgdsa_sign_init
  \/ \E chunk \in Chunks : _ecgdsa_sign_update(chunk)
  \/ \E siglen \in {ecgdsa_siglen, 0} : _ecgdsa_sign_finalize(siglen)
  \/ \E k, b \in Scalars : EcgdsaAttempt(k, b)
  \/ \E chunk \in Chunks : _ecgdsa_verify_update(chunk)
  \/ _ecgdsa_verify_finalize

EcgdsaRestarts(k, b) ==
  LET r == ecgdsa_r(k) IN r = 0 \/ ecgdsa_s((sign.e * b) % q, k, b, r) = 0

\* Some k gives r, and y s = k r - h, with x y = 1.
EcgdsaValid(y, msg, r, s) ==
  \E k \in Scalars :
    /\ r = ecgdsa_r(k) /\ r # 0
    /\ s \in Scalars /\ (y * s + Hash(NoPrefix, msg, 1)) % q = (k * r) % q
=============================================================================
