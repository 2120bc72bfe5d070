-------------------------------- MODULE Eckcdsa --------------------------------
(* EC-KCDSA: sig/eckcdsa.c.                                                *)
EXTENDS SigContext

\* nn_modinv, which stops the program on a multiple of q.
eckcdsa_init_pub_key(x) ==
  IF x % q = 0 THEN [type |-> "exit", y |-> 0]
  ELSE [type |-> "ECKCDSA", y |-> nn_modinv(x % q)]

R_LEN == IF HashBytes < BYTECEIL(QBits) THEN HashBytes ELSE BYTECEIL(QBits)
eckcdsa_siglen == R_LEN + BYTECEIL(QBits)

\* The last R_LEN bytes of a digest, which buf_lshift moves to the front.
buf_lshift(h) == h % 2^(ByteBits * R_LEN)

\* Step 1: the certificate data z is made of the coordinates of Y.
z_of(y) == <<"Y", y>>

\* Steps 5 and 6.
eckcdsa_r(k) == buf_lshift(Hash(<<"x", Abscissa(k)>>, <<>>, 1))

\* Step 7: the exclusive or of two strings of bits.
Bit(n, i) == (n \div 2^i) % 2
XorBits(m, n) ==
  LET upto[i \in 0..(ByteBits * R_LEN)] ==
        IF i = 0 THEN 0
        ELSE upto[i - 1] + (IF Bit(m, i - 1) # Bit(n, i - 1) THEN 2^(i - 1) ELSE 0)
  IN  upto[ByteBits * R_LEN]
eckcdsa_e(r, h) == XorBits(r, h) % q

\* Step 8, with k and e multiplied by b, and s unblinded.
eckcdsa_s(e, k, b) ==
  (nn_modinv(b) * ((priv.x * (((k * b) % q) + q - ((e * b) % q))) % q)) % q

\* Y is converted to affine coordinates.
_eckcdsa_sign_init ==
  /\ conf.alg = "ECKCDSA"
  /\ IF pub.y \in {0, NoPoint}
     THEN Idle /\ verify.pc # "open" /\ KeysMatch
          /\ Exits(IF pub.y = 0 THEN "infinity" ELSE "unset")
     ELSE SignOpens(z_of(pub.y), 1)

_eckcdsa_sign_update(chunk) == conf.alg = "ECKCDSA" /\ ec_sign_update(chunk)

\* Steps 1 and 2; the local e of the model holds hzm.
_eckcdsa_sign_finalize(siglen) ==
  /\ conf.alg = "ECKCDSA"
  /\ IF siglen = eckcdsa_siglen THEN SignReachesRestart(buf_lshift(Digest(sign)))
     ELSE SignRefused

\* Steps 3 to 10: hzm is cleared once e is computed, so the attempt after a
\* null s works with h = 0.
EckcdsaAttempt(k, b) ==
  /\ conf.alg = "ECKCDSA" /\ Draws(k, b)
  /\ LET r == eckcdsa_r(k)
         s == eckcdsa_s(eckcdsa_e(r, sign.e), k, b)
     IN  IF s = 0 THEN SignRestarts([sign EXCEPT !.e = 0, !.redo = TRUE])
         ELSE SignReturns(r, s)

\* Any string may come as r.
_eckcdsa_verify_init(in) ==
  /\ conf.alg = "ECKCDSA" /\ Verifiable
  /\ IF in.s \notin Scalars THEN VerifyRefused(in)
     ELSE IF pub.y = 0 THEN Exits("infinity")
     ELSE IF pub.y = NoPoint THEN Exits("unset")
     ELSE VerifyOpens(in, z_of(pub.y))

_eckcdsa_verify_update(chunk) == conf.alg = "ECKCDSA" /\ ec_verify_update(chunk)

\* Steps 3 to 6: W' = sY + eG.
eckcdsa_W_prime(c) == uG_vY(eckcdsa_e(c.sig.r, buf_lshift(Digest(c))), c.sig.s)

\* Steps 7 to 9.
_eckcdsa_verify_finalize ==
  /\ conf.alg = "ECKCDSA"
  /\ LET W == eckcdsa_W_prime(verify) IN VerdictOn(W, eckcdsa_r(W) = verify.sig.r)

EckcdsaNext ==
  \/ _eckcdsa_sign_init
  \/ \E chunk \in Chunks : _eckcdsa_sign_update(chunk)
  \/ \E siglen \in {eckcdsa_siglen, 0} : _eckcdsa_sign_finalize(siglen)
  \/ \E k, b \in Scalars : EckcdsaAttempt(k, b)
  \/ \E chunk \in Chunks : _eckcdsa_verify_update(chunk)
  \/ _eckcdsa_verify_finalize

EckcdsaRestarts(k, b) == eckcdsa_s(eckcdsa_e(eckcdsa_r(k), sign.e), k, b) = 0

\* Some k gives r, and y s = k - e, with x y = 1.
EckcdsaValid(y, msg, r, s) ==
  \E k \in Scalars :
    /\ r = eckcdsa_r(k)
    /\ s \in Scalars /\ (y * s + eckcdsa_e(r, buf_lshift(Hash(z_of(y), msg, 1)))) % q = k
=============================================================================
