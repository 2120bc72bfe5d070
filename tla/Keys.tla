---------------------------------- MODULE Keys ----------------------------------
(***************************************************************************)
(* The keys: sig/ec_key.c, init_pubkey_from_privkey of sig/sig_algs.c and  *)
(* the table of curves of curves/curves.c that structured keys name.       *)
(*                                                                         *)
(* A buffer of a private key is the number in it, one of a public key the  *)
(* point.  A structured buffer has three bytes in front: kind, algorithm   *)
(* and curve.                                                              *)
(***************************************************************************)
EXTENDS Ecdsa, Ecgdsa, Eckcdsa, Ecfsdsa, Ecsdsa, Ecrdsa

CONSTANTS
  PrivBufs,      (* Bound on the numbers private keys are imported from.       *)
  PubBufs,       (* Bound on the points public keys are imported from, with    *)
                 (* the two codes below.                                       *)
  ec_maps,       (* The known curves: their types and names.                   *)
  UNKNOWN_CURVE, (* The type of no curve.                                      *)
  Unlisted,      (* Names of curves that the table does not list.              *)
  curve_name     (* The name in the parameters the calls are given.            *)

CurveTypes == {map.type : map \in ec_maps}
Names == {map.name : map \in ec_maps} \cup Unlisted

ASSUME KeysAssumption ==
  /\ PrivBufs \subseteq Nat /\ PubBufs \subseteq Residues
  /\ UNKNOWN_CURVE \notin CurveTypes /\ curve_name \in Names
  /\ \A map1, map2 \in ec_maps : map1.type = map2.type <=> map1.name = map2.name

TooLarge == q       \* coordinates that are not below p; NoPoint, of no point

UNKNOWN_SIG_ALG == "UNKNOWN_SIG_ALG"
KeyTypes == {conf.alg, UNKNOWN_SIG_ALG}

-----------------------------------------------------------------------------

ec_get_curve_type_by_name(name) ==
  IF \E map \in ec_maps : map.name = name
  THEN (CHOOSE map \in ec_maps : map.name = name).type
  ELSE UNKNOWN_CURVE

ec_check_curve_type_and_name(type, name) ==
  \E map \in ec_maps : map.type = type /\ map.name = name

-----------------------------------------------------------------------------
(* Structured keys.  The kind "refused" stands for the result -1.            *)

ec_structured_key_export(kind, type, name, key) ==
  LET crv == ec_get_curve_type_by_name(name)
  IN  IF crv = UNKNOWN_CURVE THEN [kind |-> "refused"]
      ELSE [kind |-> kind, alg |-> type, crv |-> crv, key |-> key]

\* Faulty: the curve is not checked.
StructureFits_AnyCurve(buf, kind, type, name) == buf.kind = kind /\ buf.alg = type

StructureFits(buf, kind, type, name) ==
  /\ buf.kind = kind
  /\ buf.alg = type
  /\ ec_check_curve_type_and_name(buf.crv, name)

-----------------------------------------------------------------------------

\* The initialisers of public keys, one per scheme.
InitPubKey(type, x) ==
  CASE type = "ECDSA"   -> ecdsa_init_pub_key(x)
    [] type = "ECGDSA"  -> ecgdsa_init_pub_key(x)
    [] type = "ECKCDSA" -> eckcdsa_init_pub_key(x)
    [] type = "ECFSDSA" -> ecfsdsa_init_pub_key(x)
    [] type \in Sdsa    -> __ecsdsa_init_pub_key(type, x)
    [] type = "ECRDSA"  -> ecrdsa_init_pub_key(x)

\* What becomes of the public key and of the pair, which is "whole" if the
\* public key comes from the private one, "undrawn" if 0 is returned although
\* the mask could not be drawn and the public key was left as it was, "refused"
\* if -1 is.
init_pubkey_from_privkey(key, drawn) ==
  IF key.type \notin Algs THEN [pub |-> pub, pair |-> "refused"]
  ELSE IF ~drawn THEN [pub |-> pub, pair |-> "undrawn"]
  ELSE [pub |-> InitPubKey(key.type, key.x), pair |-> "whole"]

\* No session is open, whose context would point to the keys.  Sessions begin
\* from here, and a refused one comes back here.
Quiet == exited = "no" /\ sign.pc = "closed" /\ sig = NoSig /\ verify = NoVerify

SetKeys(newpriv, newpub, newpair) ==
  IF newpub.type = "exit" THEN Exits("inverse")
  ELSE /\ priv' = newpriv
       /\ pub' = newpub
       /\ pair' = newpair
       /\ UNCHANGED <<conf, sign, sig, verify, exited>>

KeysRefused == SetKeys(priv, pub, "refused")

\* Faulty: the public key is computed first, from the old private key.
ImportPriv_StalePriv(type, x, drawn) ==
  LET new == init_pubkey_from_privkey(IF priv.type = type THEN priv ELSE [type |-> type, x |-> x],
                                      drawn)
  IN  SetKeys([type |-> type, x |-> x], new.pub, new.pair)

\* The private key is set first, and stays whatever comes of the public one.
ImportPriv(type, x, drawn) ==
  LET new == init_pubkey_from_privkey([type |-> type, x |-> x], drawn)
  IN  SetKeys([type |-> type, x |-> x], new.pub, new.pair)

\* prj_pt_import_from_buf writes a point and takes it back if it is not on the
\* curve: a key that was set keeps its type and its magic, and has no point.
ImportPub(type, y, newpair) ==
  CASE y = TooLarge -> Exits("coordinate")
    [] y = NoPoint -> SetKeys(priv, IF pub.type = "none" THEN pub ELSE [pub EXCEPT !.y = NoPoint],
                              "refused")
    [] y \in PubBufs -> SetKeys(priv, [type |-> type, y |-> y], newpair)

\* Two draws: the private key, then the mask of init_pub_key.
ec_key_pair_gen(type, x, drawn) ==
  /\ Quiet /\ x \in conf.source
  /\ ImportPriv(type, x, drawn)

\* The first draw fails.
ec_key_pair_gen_fails == Quiet /\ Failing /\ KeysRefused

ec_key_pair_import_from_priv_key_buf(type, x, drawn) == Quiet /\ ImportPriv(type, x, drawn)

\* A buffer that does not fit is refused before anything is written.
ec_structured_key_pair_import_from_priv_key_buf(buf, type, drawn) ==
  /\ Quiet
  /\ IF StructureFits(buf, "EC_PRIVKEY", type, curve_name) THEN ImportPriv(type, buf.key, drawn)
     ELSE KeysRefused

\* No check at all.
ec_priv_key_import_from_buf(type, x) == Quiet /\ SetKeys([type |-> type, x |-> x], pub, "halves")

ec_structured_priv_key_import_from_buf(buf, type) ==
  /\ Quiet
  /\ IF StructureFits(buf, "EC_PRIVKEY", type, curve_name)
     THEN SetKeys([type |-> type, x |-> buf.key], pub, "halves")
     ELSE KeysRefused

ec_pub_key_import_from_buf(type, y) == Quiet /\ ImportPub(type, y, "halves")

ec_structured_pub_key_import_from_buf(buf, type) ==
  /\ Quiet
  /\ IF StructureFits(buf, "EC_PUBKEY", type, curve_name) THEN ImportPub(type, buf.key, "halves")
     ELSE KeysRefused

\* The public half is written before the private half is looked at.
ec_structured_key_pair_import_from_buf(privbuf, pubbuf, type) ==
  /\ Quiet
  /\ CASE ~StructureFits(pubbuf, "EC_PUBKEY", type, curve_name) -> KeysRefused
       [] ~StructureFits(privbuf, "EC_PRIVKEY", type, curve_name) ->
            ImportPub(type, pubbuf.key, "refused")
       [] pubbuf.key \in PubBufs ->
            SetKeys([type |-> type, x |-> privbuf.key], [type |-> type, y |-> pubbuf.key], "halves")
       [] OTHER -> ImportPub(type, pubbuf.key, "refused")

-----------------------------------------------------------------------------

Structures(kind, contents) ==
  [kind : {kind}, alg : KeyTypes, crv : CurveTypes, key : contents]
PrivStructures == Structures("EC_PRIVKEY", PrivBufs)
PubStructures == Structures("EC_PUBKEY", PubBufs \cup {TooLarge, NoPoint})

\* Whether the random source answers the second time.
Answers == IF Failing THEN BOOLEAN ELSE {TRUE}

KeysNext ==
  \/ \E type \in KeyTypes, x \in Keys, drawn \in Answers : ec_key_pair_gen(type, x, drawn)
  \/ ec_key_pair_gen_fails
  \/ \E type \in KeyTypes, x \in PrivBufs, drawn \in Answers :
       ec_key_pair_import_from_priv_key_buf(type, x, drawn)
  \/ \E buf \in PrivStructures \cup PubStructures, drawn \in Answers :
       ec_structured_key_pair_import_from_priv_key_buf(buf, conf.alg, drawn)
  \/ \E type \in KeyTypes, x \in PrivBufs : ec_priv_key_import_from_buf(type, x)
  \/ \E buf \in PrivStructures \cup PubStructures :
       ec_structured_priv_key_import_from_buf(buf, conf.alg)
  \/ \E type \in KeyTypes, y \in PubBufs \cup {TooLarge, NoPoint} :
       ec_pub_key_import_from_buf(type, y)
  \/ \E buf \in PrivStructures \cup PubStructures :
       ec_structured_pub_key_import_from_buf(buf, conf.alg)
  \/ \E privbuf \in PrivStructures, pubbuf \in PubStructures :
       ec_structured_key_pair_import_from_buf(privbuf, pubbuf, conf.alg)

\* Whether the public key is a point, the one of the private key: y = x, or
\* x y = 1.
Coherent ==
  /\ priv.type = pub.type /\ priv.type \in Algs /\ pub.y # NoPoint
  /\ IF priv.type \in {"ECGDSA", "ECKCDSA"} THEN (priv.x * pub.y) % q = 1
     ELSE pub.y = priv.x % q
=============================================================================
