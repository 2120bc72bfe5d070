-------------------------------- MODULE Ecrdsa ---------------------------------
(* EC-RDSA: sig/ecrdsa.c.                                                  *)
EXTENDS SigContext

ecrdsa_init_pub_key(x) == [type |-> "ECRDSA", y |-> x % q]
ecrdsa_siglen == 2 * BYTECEIL(QBits)

ecrdsa_r(k) == Abscissa(k) % q

\* Step 6: a null e becomes 1.
ecrdsa_e(digest) == IF digest % q = 0 THEN 1 ELSE digest % q

\* Step 7, with r and e multiplied by b, and s unblinded.
ecrdsa_s(e, k, b, r) ==
  (nn_modinv(b) * ((((r * b) % q) * priv.x) + (k * ((e * b) % q)))) % q

_ecrdsa_sign_init == conf.alg = "ECRDSA" /\ SignOpens(NoPrefix, 1)

_ecrdsa_sign_update(chunk) == conf.alg = "ECRDSA" /\ ec_sign_update(chunk)

_ecrdsa_sign_finalize(siglen) ==
  /\ conf.alg = "ECRDSA"
  /\ IF siglen = ecrdsa_siglen THEN SignReachesRestart(0) ELSE SignRefused

\* Steps 2 to 8.  The hash is finalized after the test of r, so the attempt
\* after a null s finalizes the same hash context once more.
EcrdsaAttempt(k, b) ==
  /\ conf.alg = "ECRDSA" /\ Draws(k, b)
  /\ LET r == ecrdsa_r(k)
         e == ecrdsa_e(Hash(sign.pre, sign.m, sign.finals + 1))
         s == ecrdsa_s(e, k, b, r)
     IN  IF r = 0 THEN SignRestarts(sign)
         ELSE IF s = 0 THEN SignRestarts([sign EXCEPT !.finals = IF @ < MaxFinals THEN @ + 1 ELSE @, !.redo = TRUE])
         ELSE SignReturns(r, s)

_ecrdsa_verify_init(in) ==
  /\ conf.alg = "ECRDSA" /\ Verifiable
  /\ IF in.r \in Scalars /\ in.s \in Scalars THEN VerifyOpens(in, NoPrefix) ELSE VerifyRefused(in)

_ecrdsa_verify_update(chunk) == conf.alg = "ECRDSA" /\ ec_verify_update(chunk)

\* Steps 3 to 6: W' = uG + vY with v = -(r / e).
ecrdsa_W_prime(c) ==
  LET e == nn_modinv(ecrdsa_e(Digest(c)))
  IN  uG_vY(e * c.sig.s, nn_mod_neg(e * c.sig.r))

\* Steps 7 and 8.
_ecrdsa_verify_finalize ==
  /\ conf.alg = "ECRDSA"
  /\ LET W == ecrdsa_W_prime(verify) IN VerdictOn(W, ecrdsa_r(W) = verify.sig.r)

EcrdsaNext ==
  \/ _ecrdsa_sign_init
  \/ \E chunk \in Chunks : _ecrdsa_sign_update(chunk)
  \/ \E siglen \in {ecrdsa_siglen, 0} : _ecrdsa_sign_finalize(siglen)
  \/ \E k, b \in Scalars : EcrdsaAttempt(k, b)
  \/ \E chunk \in Chunks : _ecrdsa_verify_update(chunk)
  \/ _ecrdsa_verify_finalize

EcrdsaRestarts(k, b) ==
  LET r == ecrdsa_r(k)
      e == ecrdsa_e(Hash(sign.pre, sign.m, sign.finals + 1))
  IN  r = 0 \/ ecrdsa_s(e, k, b, r) = 0

\* Some k gives r, and s = r x + k e with x = y.
EcrdsaValid(y, msg, r, s) ==
  \E k \in Scalars :
    /\ r = ecrdsa_r(k) /\ r # 0
    /\ s \in Scalars /\ s = (r * y + k * ecrdsa_e(Hash(NoPrefix, msg, 1))) % q
=============================================================================
