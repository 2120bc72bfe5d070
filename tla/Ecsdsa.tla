-------------------------------- MODULE Ecsdsa ---------------------------------
(***************************************************************************)
(* EC-SDSA and its optimized form EC-OSDSA, which hashes the abscissa of W *)
(* only: sig/ecsdsa_common.c behind sig/ecsdsa.c and sig/ecosdsa.c.        *)
(***************************************************************************)
EXTENDS SigContext

Sdsa == {"ECSDSA", "ECOSDSA"}

__ecsdsa_init_pub_key(key_type, x) == [type |-> key_type, y |-> x % q]
__ecsdsa_siglen == HashBytes + BYTECEIL(QBits)

\* What precedes the message: Wx || Wy, or Wx.
W_prefix(alg, k) == IF alg = "ECOSDSA" THEN <<"x", Abscissa(k)>> ELSE <<"xy", k>>

\* Step 6, with k and e multiplied by b, and s unblinded.
ecsdsa_s(e, k, b) == (nn_modinv(b) * ((k * b) + (priv.x * ((e * b) % q)))) % q

\* Steps 1 to 3.
__ecsdsa_sign_init(k) ==
  /\ conf.alg \in Sdsa /\ k \in conf.source
  /\ SignOpens(W_prefix(conf.alg, k), k)

__ecsdsa_sign_update(chunk) == conf.alg \in Sdsa /\ ec_sign_update(chunk)

\* Steps 3 to 8.  b is 0 if the random source has failed.
__ecsdsa_sign_finalize(siglen, b) ==
  /\ conf.alg \in Sdsa
  /\ Idle /\ sign.pc = "open"
  /\ conf.blinding \/ b = 1
  /\ LET r == Digest(sign)
         s == ecsdsa_s(r % q, sign.k, b)
     IN  IF siglen # __ecsdsa_siglen \/ b = 0 \/ r % q = 0 \/ s = 0
         THEN SignRefused ELSE SignReturns(r, s)

\* Faulty: e is not tested.
__ecsdsa_verify_init_NullE(in) ==
  /\ conf.alg \in Sdsa /\ Verifiable
  /\ LET e == nn_mod_neg(in.r)
         W == uG_vY(in.s, e)
     IN  IF in.s \notin Scalars THEN VerifyRefused(in)
         ELSE IF pub.y = NoPoint THEN Exits("unset")
         ELSE IF W = 0 THEN Exits("infinity")
         ELSE VerifyOpens(in, W_prefix(conf.alg, W))

\* Steps 1 to 4: W' = sG + eY with e = -r is computed before the message.
__ecsdsa_verify_init(in) ==
  /\ conf.alg \in Sdsa /\ Verifiable
  /\ LET e == nn_mod_neg(in.r)
         W == uG_vY(in.s, e)
     IN  IF in.s \notin Scalars \/ e = 0 THEN VerifyRefused(in)
         ELSE IF pub.y = NoPoint THEN Exits("unset")
         ELSE IF W = 0 THEN Exits("infinity")
         ELSE VerifyOpens(in, W_prefix(conf.alg, W))

__ecsdsa_verify_update(chunk) == conf.alg \in Sdsa /\ ec_verify_update(chunk)

\* Step 6: the digests are compared whole.
__ecsdsa_verify_finalize == conf.alg \in Sdsa /\ Verdict(Digest(verify) = verify.sig.r)

EcsdsaNext ==
  \/ \E k \in Scalars : __ecsdsa_sign_init(k)
  \/ \E chunk \in Chunks : __ecsdsa_sign_update(chunk)
  \/ \E siglen \in {__ecsdsa_siglen, 0}, b \in conf.source \cup {1} \cup (IF Failing THEN {0} ELSE {}) :
       __ecsdsa_sign_finalize(siglen, b)
  \/ \E chunk \in Chunks : __ecsdsa_verify_update(chunk)
  \/ __ecsdsa_verify_finalize

\* Some k gives r, its digest with the message, and s = k + r y with x = y.
EcsdsaValid(y, msg, r, s) ==
  \E k \in Scalars :
    /\ r = Hash(W_prefix(conf.alg, k), msg, 1) /\ r % q # 0
    /\ s \in Scalars /\ s = (k + r * y) % q
=============================================================================
