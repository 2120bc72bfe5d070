--------------------------------- MODULE Ecdsa ---------------------------------
(* ECDSA: sig/ecdsa.c.                                                     *)
EXTENDS SigContext

ecdsa_init_pub_key(x) == [type |-> "ECDSA", y |-> x % q]
ecdsa_siglen == 2 * BYTECEIL(QBits)

\* Steps 2 and 3: the leftmost bits of the hash, reduced modulo q.
ecdsa_e(c) ==
  LET bits == ByteBits * HashBytes
      rshift == IF bits > QBits THEN bits - QBits ELSE 0
  IN  (Digest(c) \div 2^rshift) % q

ecdsa_r(k) == Abscissa(k) % q

\* Steps 8 and 9, for e already multiplied by b.  b is 1 without blinding.
ecdsa_xr(b, r) == (priv.x * ((r * b) % q)) % q
ecdsa_s(e, k, b, r) == (nn_modinv((k * b) % q) * ((ecdsa_xr(b, r) + e) % q)) % q

_ecdsa_sign_init == conf.alg = "ECDSA" /\ SignOpens(NoPrefix, 1)

_ecdsa_sign_update(chunk) == conf.alg = "ECDSA" /\ ec_sign_update(chunk)

_ecdsa_sign_finalize(siglen) ==
  /\ conf.alg = "ECDSA"
  /\ IF siglen = ecdsa_siglen THEN SignReachesRestart(ecdsa_e(sign)) ELSE SignRefused

\* Steps 4 to 11.  A null r restarts before e is replaced by its blinded form,
\* the two other tests after it.
EcdsaAttempt(k, b) ==
  /\ conf.alg = "ECDSA" /\ Draws(k, b)
  /\ LET r == ecdsa_r(k)
         e == (sign.e * b) % q
         s == ecdsa_s(e, k, b, r)
     IN  IF r = 0 THEN SignRestarts(sign)
         ELSE IF e = ecdsa_xr(b, r) \/ s = 0
         THEN SignRestarts([sign EXCEPT !.e = e, !.redo = @ \/ conf.blinding])
         ELSE SignReturns(r, s)

\* in is the buffer of the signer, or any other pair of numbers; anything out
\* of ]0,q[ is refused.
_ecdsa_verify_init(in) ==
  /\ conf.alg = "ECDSA" /\ Verifiable
  /\ IF in.r \in Scalars /\ in.s \in Scalars THEN VerifyOpens(in, NoPrefix) ELSE VerifyRefused(in)

_ecdsa_verify_update(chunk) == conf.alg = "ECDSA" /\ ec_verify_update(chunk)

\* Steps 5 to 7: W' = uG + vY.
ecdsa_W_prime(c) ==
  LET sinv == nn_modinv(c.sig.s) IN uG_vY(sinv * ecdsa_e(c), sinv * c.sig.r)

\* Steps 9 and 10.  prj_pt_ec_mult_wnaf normalises Y and W', so the program
\* stops before step 8 if one of them is at infinity.
_ecdsa_verify_finalize ==
  /\ conf.alg = "ECDSA"
  /\ LET W == IF pub.y = 0 THEN 0 ELSE ecdsa_W_prime(verify)
     IN  VerdictOn(W, ecdsa_r(W) = verify.sig.r)

EcdsaNext ==
  \/ _ecdsa_sign_init
  \/ \E chunk \in Chunks : _ecdsa_sign_update(chunk)
  \/ \E siglen \in {ecdsa_siglen, 0} : _ecdsa_sign_finalize(siglen)
  \/ \E k, b \in Scalars : EcdsaAttempt(k, b)
  \/ \E chunk \in Chunks : _ecdsa_verify_update(chunk)
  \/ _ecdsa_verify_finalize

\* Whether an attempt of the signer would restart.
EcdsaRestarts(k, b) ==
  LET r == ecdsa_r(k)
      e == (sign.e * b) % q
  IN  r = 0 \/ e = ecdsa_xr(b, r) \/ ecdsa_s(e, k, b, r) = 0

\* What a signature is for the public key [y]G: some k gives r, and
\* s k = e + x r with x = y.
EcdsaValid(y, msg, r, s) ==
  \E k \in Scalars :
    /\ r = ecdsa_r(k) /\ r # 0
    /\ s \in Scalars /\ (s * k) % q = (ecdsa_e([pre |-> NoPrefix, m |-> msg]) + y * r) % q
=============================================================================
