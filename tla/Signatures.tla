------------------------------- MODULE Signatures -------------------------------
(***************************************************************************)
(* Keys, signers and verifiers together: the interface of sig/sig_algs.c   *)
(* with the scheme the keys are for behind it.  Keys are made, imported    *)
(* and replaced; sessions sign and verify, what was signed or anything     *)
(* else, and may be refused, fail or stop the program at every call.       *)
(***************************************************************************)
EXTENDS Keys

Init ==
  /\ \E alg \in Algs, crv \in Curves, build \in Builds :
       conf = [alg |-> alg, crv |-> crv, blinding |-> build.blinding, source |-> build.source]
  /\ priv = [type |-> "none", x |-> 0]
  /\ pub = [type |-> "none", y |-> 0]
  /\ pair = "none"
  /\ sign = NoSign
  /\ sig = NoSig
  /\ verify = NoVerify
  /\ exited = "no"

\* What a verifier may be given besides the last signature: any pair of
\* numbers, if it has a public key only.
Forged ==
  LET halves == CASE conf.alg = "ECKCDSA" -> 0..(2^(ByteBits * R_LEN) - 1)
                  [] conf.alg \in Sdsa -> Digests
                  [] OTHER -> 0..q
  IN  [r : halves, s : 0..q, of : {NoMsg}, redo : {FALSE}]

ec_verify_init(in) ==
  \/ _ecdsa_verify_init(in)
  \/ _ecgdsa_verify_init(in)
  \/ _eckcdsa_verify_init(in)
  \/ _ecfsdsa_verify_init(in)
  \/ __ecsdsa_verify_init(in)
  \/ _ecrdsa_verify_init(in)

Next ==
  \/ KeysNext
  \/ EcdsaNext
  \/ EcgdsaNext
  \/ EckcdsaNext
  \/ EcfsdsaNext
  \/ EcsdsaNext
  \/ EcrdsaNext
  \/ key_pair_check_exits
  \/ ec_sign_init_fails
  \/ ClosedSignUsed
  \/ DrawFails
  \/ sig # NoSig /\ ec_verify_init(sig)
  \/ priv.type = "none" /\ verify = NoVerify /\ \E in \in Forged : ec_verify_init(in)
  \/ ec_verify_init_fails
  \/ pub_key_check_exits
  \/ ClosedVerifyUsed

Spec == Init /\ [][Next]_vars

-----------------------------------------------------------------------------

\* What a signature (r, s) of a message is for the public key [y]G.
Valid(y, msg, r, s) ==
  CASE conf.alg = "ECDSA"   -> EcdsaValid(y, msg, r, s)
    [] conf.alg = "ECGDSA"  -> EcgdsaValid(y, msg, r, s)
    [] conf.alg = "ECKCDSA" -> EckcdsaValid(y, msg, r, s)
    [] conf.alg = "ECFSDSA" -> EcfsdsaValid(y, msg, r, s)
    [] conf.alg \in Sdsa    -> EcsdsaValid(y, msg, r, s)
    [] conf.alg = "ECRDSA"  -> EcrdsaValid(y, msg, r, s)

\* Whether the next attempt of the signer would restart.
Restarts(k, b) ==
  CASE conf.alg = "ECDSA"   -> EcdsaRestarts(k, b)
    [] conf.alg = "ECGDSA"  -> EcgdsaRestarts(k, b)
    [] conf.alg = "ECKCDSA" -> EckcdsaRestarts(k, b)
    [] conf.alg = "ECRDSA"  -> EcrdsaRestarts(k, b)

\* The variables have their types, an open session has matching keys, and a
\* verifier that has been opened holds numbers a valid signature may consist
\* of.
TypeOK ==
  /\ priv.type \in KeyTypes \cup {"none"} /\ priv.x \in Nat
  /\ pub.type \in KeyTypes \cup {"none"} /\ pub.y \in Residues \cup {NoPoint}
  /\ pair \in {"none", "whole", "halves", "undrawn", "refused"}
  /\ sign.pc \in {"closed", "open", "draw"} /\ sign.m \in Messages
  /\ sign.e \in Nat /\ sign.k \in Scalars /\ sign.finals \in 0..MaxFinals
  /\ sign.pc # "closed" => KeysMatch
  /\ sign.pc = "draw" => conf.alg \in Looping
  /\ sig.of \in Messages \cup {NoMsg}
  /\ verify.pc \in {"closed", "refused", "open", "accepted", "rejected"}
  /\ verify.m \in Messages
  /\ verify.pc # "closed" => pub.type = conf.alg
  /\ verify.pc \in {"open", "accepted", "rejected"} => verify.sig.s \in Scalars
  /\ exited \in {"no", "misuse", "infinity", "coordinate", "inverse", "unset"}

\* A key pair that the last call on it computed as a whole, with a random
\* source that answered, is coherent (ec_key_pair_gen and the imports of a
\* private key, whatever earlier calls have left in the pair).
WholePairCoherent == pair = "whole" => Coherent

\* A signature that is returned is one of the message for the public key, if
\* the keys are coherent and no restart has spoiled the signer's values.
SignatureValid ==
  (sig.of # NoMsg /\ Coherent /\ ~sig.redo) => Valid(pub.y, sig.of, sig.r, sig.s)

\* ec_verify accepts what satisfies the equation of the scheme, and only that;
\* what its init refuses is valid for no message.
VerdictCorrect ==
  /\ verify.pc \in {"accepted", "rejected"} =>
       (verify.pc = "accepted" <=> Valid(pub.y, verify.m, verify.sig.r, verify.sig.s))
  /\ verify.pc = "refused" /\ pub.y # NoPoint =>
       \A msg \in Messages : ~Valid(pub.y, msg, verify.sig.r, verify.sig.s)

\* ec_verify accepts a signature that ec_sign has returned for the message,
\* and never stops the program on one unless the public key is infinity (sign
\* and verify hash and reduce the same things, in separate functions of every
\* scheme; no import refuses x = 0).
SignedIsAccepted ==
  (verify.sig.of # NoMsg /\ Coherent /\ ~verify.sig.redo) =>
    /\ (verify.pc \in {"accepted", "rejected"} /\ verify.m = verify.sig.of
          => verify.pc = "accepted")
    /\ verify.pc # "refused"
    /\ (verify.pc = "open" /\ verify.m = verify.sig.of /\ pub.y # 0
          => exited # "infinity")

\* The loop of sign_finalize can be left: whatever message is to be signed,
\* some draw of a random source does not come back to the label restart.
SignerCanFinish ==
  (sign.pc = "draw" /\ Failing /\ priv.x % q # 0) =>
    \E k, b \in conf.source : ~Restarts(k, IF conf.blinding THEN b ELSE 1)

\* A structured private key that is exported and imported again is the key it
\* was, for the algorithm and the curve it was exported for and no other.
StructuredKeysReimport ==
  priv.type \in Algs =>
    \A name, other \in Names, type \in KeyTypes :
      LET buf == ec_structured_key_export("EC_PRIVKEY", priv.type, name, priv.x)
      IN  buf.kind # "refused" =>
            /\ buf.key = priv.x
            /\ StructureFits(buf, "EC_PRIVKEY", type, other) <=>
                 type = priv.type /\ other = name

-----------------------------------------------------------------------------

\* ec_sign returns signatures of the message, restarts or not: the signers go
\* back to a step of the standard's algorithm, as their comments say
\* ("10. If s is 0, restart the process at step 4", sig/ecdsa.c:347).
RestartedSignatureValid ==
  (sig.of # NoMsg /\ Coherent) => Valid(pub.y, sig.of, sig.r, sig.s)

\* In ECDSA a W' at infinity makes the verifier reject the signature
\* ("8. If W' is the point at infinity, reject the signature",
\* sig/ecdsa.c:601).
InfinityRejected == conf.alg = "ECDSA" /\ exited = "infinity" => pub.y = 0
=============================================================================
