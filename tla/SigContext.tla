------------------------------- MODULE SigContext -------------------------------
(***************************************************************************)
(* What the signature schemes of src/sig share: the contexts of signer and *)
(* verifier, the key pair they point to, the hash state, and the exits of  *)
(* the interface of sig_algs.c.  Ecdsa, Ecgdsa, Eckcdsa, Ecfsdsa, Ecsdsa   *)
(* and Ecrdsa add one scheme each, Keys the keys, Signatures all of them.  *)
(*                                                                         *)
(* The point [k]G is represented by k modulo its prime order q, 0 being    *)
(* infinity, and its affine abscissa by conf.crv[k].  A hash state is what *)
(* it has absorbed, and the hash function is a parameter.                  *)
(***************************************************************************)
EXTENDS Integers, Sequences

CONSTANTS
  q,          (* ec_gen_order.                                               *)
  QBits,      (* ec_gen_order_bitlen.                                        *)
  Curves,     (* Curves with a # 0: the abscissas of G, 2G, .. (q-1)G.       *)
  ByteBits,   (* Bits of a byte: 8 in the code.                              *)
  HashBytes,  (* digest_size.                                                *)
  Hash(_,_,_),(* The digest, as a number, of a prefix and a message, for the *)
              (* n-th time the same hash context is finalized.               *)
  Messages,   (* Messages.                                                   *)
  MaxLen,     (* Bound on the length of a message.                           *)
  Chunks,     (* The pieces a message is fed in.                             *)
  MaxFinals,  (* Bound on how often the hash is finalized again, counted.    *)
  Keys,       (* Bound on the private keys that are generated.               *)
  Builds,     (* The builds: blinding, USE_SIG_BLINDING, and source, the set *)
              (* of what the random source may return.                       *)
  NoMsg       (* Not a message.                                              *)

Scalars == 1..(q - 1)      \* ]0,q[
Residues == 0..(q - 1)
Digests == 0..(2^(ByteBits * HashBytes) - 1)

NoPoint == q + 1           \* The y of a public key whose last import was refused.

Looping == {"ECDSA", "ECGDSA", "ECKCDSA", "ECRDSA"}  \* k is drawn by finalize
Algs == Looping \cup {"ECFSDSA", "ECSDSA", "ECOSDSA"}

\* What is hashed before a message: nothing, the point [k]G, its abscissa, or
\* the certificate data, made of the public key.
NoPrefix == <<"", 0>>
Prefixes ==
  {NoPrefix} \cup {<<"xy", k>> : k \in Scalars} \cup {<<"x", c[k]>> : c \in Curves, k \in Scalars}
             \cup {<<"Y", y>> : y \in Scalars}

ASSUME CurveAssumption ==
  /\ q \in Nat /\ q > 2 /\ \A d \in 2..(q - 1) : q % d # 0
  /\ \A c \in Curves :
       c \in [Scalars -> Nat] /\ \A k \in Scalars : c[q - k] = c[k]

ASSUME HashAssumption ==
  /\ QBits \in Nat /\ ByteBits \in Nat \ {0} /\ HashBytes \in Nat
  /\ MaxLen \in Nat /\ MaxFinals \in Nat
  /\ Chunks \subseteq Messages /\ <<>> \in Messages
  /\ \A msg \in Messages, c \in Chunks :
       Len(msg \o c) <= MaxLen => msg \o c \in Messages
  /\ NoMsg \notin Messages
  /\ \A pre \in Prefixes, msg \in Messages, n \in 1..(MaxFinals + 1) :
       Hash(pre, msg, n) \in Digests

\* The powers of two that shift a digest are numbers.
ASSUME PowersOfTwo == \A i \in 0..(ByteBits * HashBytes) : 2^i \in Nat \ {0}

ASSUME RandomAssumption ==
  /\ Keys \subseteq Scalars
  /\ \A build \in Builds :
       build.blinding \in BOOLEAN /\ build.source # {} /\ build.source \subseteq Scalars

VARIABLES
  conf,    (* What does not change: alg, the sig_type of the calls, crv, the *)
           (* curve, and blinding and source, the build.                     *)
  priv,    (* The private key: its type, "none" without its magic, and x.    *)
  pub,     (* The public key: its type, and the point y.                     *)
  pair,    (* The last call on the key pair, "none" once a session has begun *)
           (* with it; no code reads it.                                     *)
  sign,    (* The signer: its context and the locals of its functions.       *)
  sig,     (* The signature of the last session.                             *)
  verify,  (* The verifier: context, then the verdict on it.                 *)
  exited   (* Whether a MUST_HAVE has stopped the program, and which.        *)

vars == <<conf, priv, pub, pair, sign, sig, verify, exited>>
keys == <<conf, priv, pub, pair>>
KeysUsed == pair' = "none" /\ UNCHANGED <<conf, priv, pub>>

(***************************************************************************)
(* sign.pc is "closed", "open", or "draw" at the label restart; pre and m  *)
(* are what was hashed, finals how often the hash was finalized, e and k   *)
(* the locals of these names.  sign.redo and sig.redo record that a        *)
(* restart has spoiled what the next attempt starts from, and sig.of for   *)
(* which message the buffer is a signature; no code reads them.            *)
(***************************************************************************)
NoSign == [pc |-> "closed", pre |-> NoPrefix, m |-> <<>>, finals |-> 0, e |-> 0, k |-> 1,
           redo |-> FALSE]
NoSig == [r |-> 0, s |-> 0, of |-> NoMsg, redo |-> FALSE]
NoVerify == [pc |-> "closed", pre |-> NoPrefix, m |-> <<>>, sig |-> NoSig]

-----------------------------------------------------------------------------

nn_modinv(a) == CHOOSE i \in Scalars : (a * i) % q = 1
nn_mod_neg(a) == IF a % q = 0 THEN 0 ELSE q - (a % q)

BYTECEIL(bits) == (bits + ByteBits - 1) \div ByteBits
Digest(c) == Hash(c.pre, c.m, 1)
Abscissa(k) == conf.crv[k]

\* prj_pt_mul_monty, prj_pt_add_monty: multiples of G and of Y.
uG_vY(u, v) == ((u % q) + (v % q) * pub.y) % q

\* The calls come one after the other.
Idle == exited = "no" /\ sign.pc \in {"closed", "open"}
KeysMatch == priv.type = conf.alg /\ pub.type = conf.alg

Exits(why) == exited' = why /\ UNCHANGED <<keys, sign, sig, verify>>

-----------------------------------------------------------------------------

\* Faulty: the types of the keys are not compared.
SignOpens_AnyType(pre, k) ==
  /\ Idle /\ verify.pc # "open" /\ priv.type # "none" /\ pub.type # "none"
  /\ sign' = [NoSign EXCEPT !.pc = "open", !.pre = pre, !.k = k]
  /\ sig' = NoSig
  /\ verify' = NoVerify
  /\ KeysUsed
  /\ UNCHANGED exited

\* A session begins with a fresh context and buffer, one session at a time;
\* pre is what the scheme hashes before the message, k what it draws for it.
SignOpens(pre, k) ==
  /\ Idle /\ verify.pc # "open" /\ KeysMatch
  /\ sign' = [NoSign EXCEPT !.pc = "open", !.pre = pre, !.k = k]
  /\ sig' = NoSig
  /\ verify' = NoVerify
  /\ KeysUsed
  /\ UNCHANGED exited

\* The keys are of another scheme, the hash is unknown, or the random source
\* fails: the context is wiped.
ec_sign_init_fails ==
  /\ Idle /\ verify.pc # "open" /\ priv.type # "none" /\ pub.type # "none"
  /\ sign' = NoSign
  /\ sig' = NoSig
  /\ verify' = NoVerify
  /\ KeysUsed
  /\ UNCHANGED exited

\* key_pair_check_initialized.
key_pair_check_exits ==
  /\ Idle /\ (priv.type = "none" \/ pub.type = "none")
  /\ Exits("misuse")

ec_sign_update(chunk) ==
  /\ Idle /\ sign.pc = "open" /\ Len(sign.m \o chunk) <= MaxLen
  /\ sign' = [sign EXCEPT !.m = @ \o chunk]
  /\ UNCHANGED <<keys, sig, verify, exited>>

\* update and finalize of a context without its magic.
ClosedSignUsed ==
  /\ Idle /\ sign.pc = "closed"
  /\ Exits("misuse")

\* siglen is not the one of the scheme.
SignRefused ==
  /\ Idle /\ sign.pc = "open"
  /\ sign' = NoSign
  /\ UNCHANGED <<keys, sig, verify, exited>>

\* finalize of a scheme that loops, up to the label restart, with e computed.
SignReachesRestart(e) ==
  /\ Idle /\ sign.pc = "open"
  /\ sign' = [sign EXCEPT !.pc = "draw", !.e = e]
  /\ UNCHANGED <<keys, sig, verify, exited>>

\* What an attempt draws: the mask b only with blinding.
Draws(k, b) ==
  /\ sign.pc = "draw"
  /\ k \in conf.source
  /\ IF conf.blinding THEN b \in conf.source ELSE b = 1

SignRestarts(redone) ==
  /\ sign' = redone
  /\ UNCHANGED <<keys, sig, verify, exited>>

SignReturns(r, s) ==
  /\ sig' = [r |-> r, s |-> s, of |-> sign.m, redo |-> sign.redo]
  /\ sign' = NoSign
  /\ UNCHANGED <<keys, verify, exited>>

\* The two sources of rand.c that return always the same bytes never fail.
Failing == \E k, l \in conf.source : k # l
DrawFails ==
  /\ sign.pc = "draw" /\ Failing
  /\ sign' = NoSign
  /\ UNCHANGED <<keys, sig, verify, exited>>

-----------------------------------------------------------------------------

Verifiable == Idle /\ sign.pc = "closed" /\ pub.type = conf.alg

VerifyOpens(in, pre) ==
  /\ verify' = [NoVerify EXCEPT !.pc = "open", !.pre = pre, !.sig = in]
  /\ KeysUsed
  /\ UNCHANGED <<sign, sig, exited>>

\* verify_init of a scheme refuses the signature: the context is wiped, in is
\* kept for the properties.
VerifyRefused(in) ==
  /\ verify' = [NoVerify EXCEPT !.pc = "refused", !.sig = in]
  /\ KeysUsed
  /\ UNCHANGED <<sign, sig, exited>>

\* A wrong length, type or hash.
ec_verify_init_fails ==
  /\ Idle /\ sign.pc = "closed" /\ pub.type # "none"
  /\ verify' = NoVerify
  /\ KeysUsed
  /\ UNCHANGED <<sign, sig, exited>>

pub_key_check_exits ==
  /\ Idle /\ sign.pc = "closed" /\ pub.type = "none"
  /\ Exits("misuse")

ec_verify_update(chunk) ==
  /\ Idle /\ verify.pc = "open" /\ Len(verify.m \o chunk) <= MaxLen
  /\ verify' = [verify EXCEPT !.m = @ \o chunk]
  /\ UNCHANGED <<keys, sign, sig, exited>>

\* update and finalize of a context without its magic.
ClosedVerifyUsed ==
  /\ Idle /\ verify.pc # "open"
  /\ Exits("misuse")

\* The end of finalize: the context is wiped whatever the verdict is.
Verdict(accepted) ==
  /\ Idle /\ verify.pc = "open"
  /\ verify' = [verify EXCEPT !.pc = IF accepted THEN "accepted" ELSE "rejected"]
  /\ UNCHANGED <<keys, sign, sig, exited>>

\* finalize computes W from Y, which prj_pt_check_initialized looks at, and
\* converts it to affine coordinates, which stops the program at infinity.
VerdictOn(W, accepted) ==
  /\ Idle /\ verify.pc = "open"
  /\ CASE pub.y = NoPoint -> Exits("unset")
       [] pub.y # NoPoint /\ W = 0 -> Exits("infinity")
       [] pub.y # NoPoint /\ W # 0 -> Verdict(accepted)
=============================================================================
