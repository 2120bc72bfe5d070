---------------------------- MODULE SignatureProofs ----------------------------
(***************************************************************************)
(* Proofs about Signatures: for every prime order, curve, hash function,   *)
(* message and build, what a session of a signer returns is a signature,   *)
(* and what a session of a verifier says of one is right, whatever keys    *)
(* were imported before and whatever calls came in between.                *)
(***************************************************************************)
EXTENDS Signatures, NumberLemmas

-----------------------------------------------------------------------------
(* The inductive invariant, part by part.                                    *)

Plain == {"ECDSA", "ECGDSA", "ECRDSA"}  \* Schemes that hash the message only.

SignPcs == {"closed", "open", "draw"}
VerifyPcs == {"closed", "refused", "open", "accepted", "rejected"}
Pairs == {"none", "whole", "halves", "undrawn", "refused"}
ExitCodes == {"no", "misuse", "infinity", "coordinate", "inverse", "unset"}

Confs == [alg : Algs, crv : Curves, blinding : BOOLEAN, source : SUBSET Scalars]
Signers ==
  [pc : SignPcs, pre : Prefixes, m : Messages, finals : 0..MaxFinals, e : Nat, k : Scalars,
   redo : BOOLEAN]
Signed == [r : Nat, s : Nat, of : Messages \cup {NoMsg}, redo : BOOLEAN]
Verifiers == [pc : VerifyPcs, pre : Prefixes, m : Messages, sig : Signed]

\* The variables have their types, and EC-FSDSA returns a point of the curve.
Typed ==
  /\ conf \in Confs
  /\ priv \in [type : KeyTypes \cup {"none"}, x : Nat]
  /\ pub \in [type : KeyTypes \cup {"none"}, y : Residues \cup {NoPoint}]
  /\ pair \in Pairs
  /\ sign \in Signers
  /\ sig \in Signed
  /\ conf.alg = "ECFSDSA" => sig.r \in Residues
  /\ verify \in Verifiers
  /\ exited \in ExitCodes

\* What the signer hashes before the message.
SignPrefix ==
  /\ conf.alg \in Plain => sign.pre = NoPrefix
  /\ conf.alg = "ECKCDSA" => pub.y \in Scalars /\ sign.pre = z_of(pub.y)
  /\ conf.alg = "ECFSDSA" => sign.pre = <<"xy", sign.k>>
  /\ conf.alg \in Sdsa => sign.pre = W_prefix(conf.alg, sign.k)

\* What finalize has computed before the label restart.
SignNumber ==
  /\ conf.alg = "ECDSA" => sign.e = ecdsa_e(sign)
  /\ conf.alg = "ECGDSA" => sign.e = nn_mod_neg(Digest(sign))
  /\ conf.alg = "ECKCDSA" => sign.e = buf_lshift(Digest(sign))
  /\ conf.alg = "ECRDSA" => sign.finals = 0

\* An open signer has the keys it began with, and no verifier is open.
Signing ==
  sign.pc # "closed" =>
    /\ KeysMatch /\ verify = NoVerify /\ sig = NoSig
    /\ SignPrefix
    /\ sign.pc = "open" => sign.finals = 0
    /\ sign.pc = "draw" => conf.alg \in Looping /\ (~sign.redo => SignNumber)

\* What the verifier hashes before the message, and what its init has checked.
VerifyPrefix ==
  /\ conf.alg \in Plain => verify.pre = NoPrefix /\ verify.sig.r \in Scalars
  /\ conf.alg = "ECKCDSA" => pub.y \in Scalars /\ verify.pre = z_of(pub.y)
  /\ conf.alg = "ECFSDSA" => verify.pre = <<"xy", verify.sig.r>> /\ verify.sig.r \in Scalars
  /\ conf.alg \in Sdsa =>
       LET W == uG_vY(verify.sig.s, nn_mod_neg(verify.sig.r))
       IN  /\ pub.y # NoPoint /\ W # 0 /\ verify.sig.r % q # 0
           /\ verify.pre = W_prefix(conf.alg, W)

\* A verifier has the keys it began with and the last signature, or one that
\* no signer has returned.
Verifying ==
  /\ verify.pc # "closed" => pub.type = conf.alg
  /\ verify.pc \in {"open", "accepted", "rejected"} => verify.sig.s \in Scalars /\ VerifyPrefix
  /\ verify.pc \in {"accepted", "rejected"} => pub.y # NoPoint
  /\ verify.sig.of # NoMsg => verify.sig = sig

IInv ==
  /\ Typed /\ Signing /\ Verifying
  /\ WholePairCoherent /\ SignatureValid /\ VerdictCorrect /\ SignedIsAccepted

-----------------------------------------------------------------------------
(* Arithmetic modulo q.                                                      *)

\* The residue of a number.
R(x) == x % q

\* Residues are numbers below q, their own residues, and congruence respects
\* sums and products.
LEMMA ResType ==
  ASSUME NEW x \in Nat
  PROVE  R(x) \in Residues /\ R(R(x)) = R(x) /\ (x \in Residues => R(x) = x)
<1>1. q \in Nat \ {0}
  BY CurveAssumption
<1>2. R(x) \in 0..(q - 1)
  BY ONLY <1>1, x \in Nat, DivMod DEF R
<1>3. ASSUME NEW y \in 0..(q - 1)
      PROVE  R(y) = y
  BY ONLY <1>1, <1>3, SmallMod DEF R
<1> QED
  BY <1>2, <1>3 DEF Residues

\* Congruent numbers have congruent sums.
LEMMA ResAdd ==
  ASSUME NEW x \in Nat, NEW y \in Nat, NEW u \in Nat, NEW v \in Nat, R(x) = R(u), R(y) = R(v)
  PROVE  R(x + y) = R(u + v)
<1>1. q \in Nat \ {0}
  BY CurveAssumption
<1>2. ASSUME NEW a \in Nat, NEW b \in Nat
      PROVE  R(R(a) + b) = R(a + b)
  BY ONLY <1>1, <1>2, ModAdd DEF R
<1>3. R(x + y) = R(R(u) + y) /\ R(u + y) = R(R(u) + y)
  BY <1>2
<1>4. R(y + u) = R(R(v) + u) /\ R(v + u) = R(R(v) + u)
  BY <1>2
<1>5. y + u = u + y /\ v + u = u + v
  OBVIOUS
<1> QED
  BY <1>3, <1>4, <1>5

\* Congruent numbers have congruent products.
LEMMA ResMul ==
  ASSUME NEW x \in Nat, NEW y \in Nat, NEW u \in Nat, NEW v \in Nat, R(x) = R(u), R(y) = R(v)
  PROVE  R(x * y) = R(u * v)
<1>1. q \in Nat \ {0}
  BY CurveAssumption
<1>2. ASSUME NEW a \in Nat, NEW b \in Nat
      PROVE  R(R(a) * b) = R(a * b)
  BY ONLY <1>1, <1>2, ModMul DEF R
<1>3. R(x * y) = R(R(u) * y) /\ R(u * y) = R(R(u) * y)
  BY <1>2
<1>4. R(y * u) = R(R(v) * u) /\ R(v * u) = R(R(v) * u)
  BY <1>2
<1>5. y * u = u * y /\ v * u = u * v
  BY SMT
<1> QED
  BY <1>3, <1>4, <1>5

\* One factor or summand may be replaced.  Sum and product have names here, by
\* which the provers find the numbers to use these facts for.
Times(a, x) == a * x
Plus(a, x) == a + x

\* Congruence respects a product,
LEMMA ResTimes ==
  ASSUME NEW a \in Nat, NEW x \in Nat, NEW y \in Nat, R(x) = R(y)
  PROVE  R(Times(a, x)) = R(Times(a, y))
<1>1. R(x * a) = R(y * a)
  BY ResMul
<1>2. a * x = x * a /\ a * y = y * a
  BY SMT
<1> QED
  BY <1>1, <1>2 DEF Times

\* and a sum.
LEMMA ResPlus ==
  ASSUME NEW a \in Nat, NEW x \in Nat, NEW y \in Nat, R(x) = R(y)
  PROVE  R(Plus(a, x)) = R(Plus(a, y))
<1>1. R(x + a) = R(y + a)
  BY ResAdd
<1>2. a + x = x + a /\ a + y = y + a
  OBVIOUS
<1> QED
  BY <1>1, <1>2 DEF Plus

\* A summand both sides have may be dropped.
LEMMA ResCancel ==
  ASSUME NEW x \in Nat, NEW y \in Nat, NEW z \in Nat, R(x + z) = R(y + z)
  PROVE  R(x) = R(y)
<1> DEFINE a == x + z
           b == y + z
<1>1. q \in Nat \ {0} /\ a % q = b % q
  BY CurveAssumption DEF R
<1>2. x \in Nat /\ y \in Nat /\ z \in Nat /\ a \in Nat /\ b \in Nat
      /\ x <= a /\ a - x = b - y
  OBVIOUS
<1> HIDE DEF a, b
<1>3. x % q = y % q
  BY ONLY <1>1, <1>2, ModCancel
<1> QED
  BY <1>3 DEF R

\* nn_modinv inverts every number below the prime q but 0.
LEMMA Inverse ==
  ASSUME NEW a \in Scalars
  PROVE  nn_modinv(a) \in Scalars /\ R(a * nn_modinv(a)) = 1
<1>1. q \in Nat /\ q > 1 /\ \A d \in 2..(q - 1) : q % d # 0
  BY CurveAssumption
<1>2. a \in 1..(q - 1)
  BY DEF Scalars
<1>3. \E i \in 1..(q - 1) : (a * i) % q = 1
  BY ONLY <1>1, <1>2, PrimeInverse
<1>4. \E i \in Scalars : (a * i) % q = 1
  BY ONLY <1>3 DEF Scalars
<1> QED
  BY ONLY <1>4 DEF nn_modinv, R

\* A factor that is not 0 and that both sides have may be dropped.
LEMMA ResDivide ==
  ASSUME NEW a \in Scalars, NEW x \in Nat, NEW y \in Nat, R(a * x) = R(a * y)
  PROVE  R(x) = R(y)
<1> DEFINE i == nn_modinv(a)
<1>1. a \in Nat /\ i \in Nat /\ R(a * i) = 1
  BY Inverse, CurveAssumption DEF Scalars
<1> HIDE DEF i
<1>2. ASSUME NEW z \in Nat
      PROVE  R(z) = R(i * (a * z))
  <2> DEFINE ai == a * i
  <2>1. ai \in Nat /\ i * (a * z) = ai * z /\ z = 1 * z
    BY <1>1, SMT
  <2> HIDE DEF ai
  <2>2. R(ai) = R(1)
    BY <1>1, <2>1, ResType DEF ai
  <2>3. R(ai * z) = R(1 * z)
    BY ONLY <2>1, <2>2, 1 \in Nat, z \in Nat, ResMul
  <2> QED
    BY <2>1, <2>3
<1>3. R(i * (a * x)) = R(i * (a * y))
  <2> DEFINE ax == a * x
             ay == a * y
  <2>1. ax \in Nat /\ ay \in Nat /\ i \in Nat
    BY <1>1, SMT
  <2>2. R(ax) = R(ay)
    OBVIOUS
  <2> HIDE DEF ax, ay
  <2>3. R(Times(i, ax)) = R(Times(i, ay))
    BY ONLY <2>1, <2>2, ResTimes
  <2> QED
    BY <2>3 DEF ax, ay, Times
<1> QED
  BY <1>2, <1>3

\* A product is a multiple of the prime q only if a factor is.
LEMMA ResProduct ==
  ASSUME NEW a \in Scalars, NEW b \in Scalars
  PROVE  R(a * b) \in Scalars
<1>1. a \in Nat /\ b \in Nat /\ a * b \in Nat /\ 0 \in Nat /\ a * 0 = 0 /\ b \in Residues
  BY CurveAssumption, SMT DEF Scalars, Residues
<1>2. ASSUME R(a * b) = 0
      PROVE  FALSE
  <2>1. R(0) = 0
    BY ResType, CurveAssumption DEF Residues
  <2>2. R(a * b) = R(a * 0)
    BY <1>1, <1>2, <2>1
  <2>3. R(b) = R(0)
    BY ONLY <1>1, <2>2, a \in Scalars, ResDivide
  <2> QED
    BY <1>1, <2>1, <2>3, ResType DEF Scalars
<1>3. R(a * b) \in Residues
  BY <1>1, ResType
<1> QED
  BY <1>2, <1>3 DEF Residues, Scalars

\* nn_mod_neg negates.
LEMMA Negative ==
  ASSUME NEW x \in Nat
  PROVE  /\ nn_mod_neg(x) \in Residues /\ R(nn_mod_neg(x) + x) = 0
         /\ nn_mod_neg(x) = 0 <=> x % q = 0
<1> DEFINE r == R(x)
           n == nn_mod_neg(x)
<1>1. q \in Nat \ {0} /\ r \in 0..(q - 1) /\ R(r) = r /\ r \in Nat
  BY CurveAssumption, ResType DEF Residues
<1>2. n = IF r = 0 THEN 0 ELSE q - r
  BY DEF nn_mod_neg, R
<1> HIDE DEF n
<1>3. n \in Residues /\ n \in Nat /\ (n = 0 <=> r = 0) /\ (n + r = 0 \/ n + r = q)
  BY <1>1, <1>2 DEF Residues
<1>4. R(0) = 0 /\ R(q) = 0
  <2>1. (0 + q * 1) % q = 0 % q /\ 0 % q = 0 /\ 0 + q * 1 = q
    <3>1. 0 \in Nat /\ 1 \in Nat /\ 0 \in 0..(q - 1)
      BY <1>1
    <3> QED
      BY ONLY <1>1, <3>1, AddMultiple, SmallMod
  <2> QED
    BY <2>1 DEF R
<1>5. R(n + x) = R(n + r)
  BY <1>1, <1>3, ResAdd
<1> QED
  BY <1>3, <1>4, <1>5 DEF n, R

\* What a number that was multiplied by the mask is worth once it is unblinded.
LEMMA Unblind ==
  ASSUME NEW b \in Scalars, NEW t \in Nat, NEW u \in Nat, R(t) = R(b * u)
  PROVE  R(nn_modinv(b) * t) = R(u)
<1> DEFINE i == nn_modinv(b)
           c == b * i
           bu == b * u
<1>1. b \in Nat /\ i \in Nat /\ c \in Nat /\ bu \in Nat /\ R(c) = R(1) /\ 1 \in Nat
  <2>1. b \in Nat /\ i \in Nat /\ R(b * i) = 1
    BY Inverse, CurveAssumption DEF Scalars
  <2>2. 1 \in Nat /\ 1 \in Residues
    BY CurveAssumption DEF Residues
  <2>3. b * i \in Nat /\ b * u \in Nat
    BY <2>1, SMT
  <2> QED
    BY <2>1, <2>2, <2>3, ResType
<1>2. R(t) = R(bu)
  OBVIOUS
<1> HIDE DEF i
<1>3. i * bu = c * u /\ 1 * u = u
  BY <1>1, SMT
<1> HIDE DEF c, bu
<1>4. R(Times(i, t)) = R(Times(i, bu))
  BY ONLY <1>1, <1>2, t \in Nat, ResTimes
<1>5. R(Times(u, c)) = R(Times(u, 1))
  BY ONLY <1>1, u \in Nat, ResTimes
<1>6. i * bu = u * c /\ u * 1 = u
  BY <1>1, <1>3, SMT
<1> QED
  BY <1>4, <1>5, <1>6 DEF i, Times

\* The blinded product and sum that the schemes compute: x rb + k eb.
LEMMA Blinded ==
  ASSUME NEW b \in Nat, NEW u \in Nat, NEW v \in Nat, NEW x \in Nat, NEW y \in Nat
  PROVE  /\ R(x * R(u * b) + y * R(v * b)) = R(b * (x * u + y * v))
         /\ x * R(u * b) + y * R(v * b) \in Nat
<1> DEFINE ub == u * b
           vb == v * b
<1>1. ub \in Nat /\ vb \in Nat
  BY SMT
<1>2. x * ub + y * vb = b * (x * u + y * v)
  BY SMT
<1> HIDE DEF ub, vb
<1>3. R(ub) \in Nat /\ R(R(ub)) = R(ub) /\ R(vb) \in Nat /\ R(R(vb)) = R(vb)
  BY <1>1, ResType DEF Residues
<1>4. R(Times(x, R(ub))) = R(Times(x, ub))
  BY ONLY <1>1, <1>3, x \in Nat, ResTimes
<1>5. R(Times(y, R(vb))) = R(Times(y, vb))
  BY ONLY <1>1, <1>3, y \in Nat, ResTimes
<1> DEFINE s == x * R(ub)
           t == y * R(vb)
           ss == x * ub
           tt == y * vb
<1>6. s \in Nat /\ t \in Nat /\ ss \in Nat /\ tt \in Nat
  BY <1>1, <1>3, SMT
<1>7. R(s) = R(ss) /\ R(t) = R(tt)
  BY <1>4, <1>5 DEF Times
<1>8. s + t \in Nat
  BY <1>6
<1> HIDE DEF s, t, ss, tt
<1>9. R(s + t) = R(ss + tt)
  BY ONLY <1>6, <1>7, ResAdd
<1> QED
  BY <1>2, <1>8, <1>9 DEF s, t, ss, tt, ub, vb

\* Step 9 of ECDSA.
LEMMA EcdsaEquation ==
  ASSUME NEW x \in Nat, NEW y \in Nat, R(x) = R(y), NEW e \in Nat, NEW r \in Nat,
         NEW k \in Scalars, NEW b \in Scalars, NEW s,
         s = R(nn_modinv(R(k * b)) * R(R(x * R(r * b)) + R(e * b)))
  PROVE  s \in Residues /\ R(s * k) = R(e + y * r)
<1> DEFINE c == R(k * b)
           i == nn_modinv(c)
           xrb == x * R(r * b)
           t == R(R(xrb) + R(e * b))
           u == x * r + e
<1>1. k \in Nat /\ b \in Nat /\ k * b \in Nat /\ r * b \in Nat /\ e * b \in Nat
  BY CurveAssumption, SMT DEF Scalars
<1>2. c \in Scalars /\ c \in Nat /\ R(c) = R(k * b)
  <2>1. c \in Scalars
    BY ResProduct
  <2> QED
    BY <1>1, <2>1, ResType, CurveAssumption DEF Scalars
<1>3. i \in Nat
  BY <1>2, Inverse, CurveAssumption DEF Scalars
<1>4. t \in Nat /\ R(t) = R(b * u)
  <2> DEFINE eb == R(e * b)
  <2>1. eb \in Nat /\ R(r * b) \in Nat
    BY <1>1, ResType DEF Residues
  <2>2. xrb \in Nat
    BY <2>1, SMT
  <2>3. R(xrb) \in Nat /\ R(R(xrb)) = R(xrb)
    BY <2>2, ResType DEF Residues
  <2>4. R(x * R(r * b) + 1 * R(e * b)) = R(b * (x * r + 1 * e))
    BY <1>1, Blinded
  <2>5. 1 * R(e * b) = eb /\ 1 * e = e
    BY <2>1
  <2> HIDE DEF xrb, eb
  <2>6. R(Plus(eb, R(xrb))) = R(Plus(eb, xrb))
    BY ONLY <2>1, <2>2, <2>3, ResPlus
  <2>7. Plus(eb, R(xrb)) = R(xrb) + eb /\ Plus(eb, xrb) = xrb + eb /\ R(xrb) + eb \in Nat
    BY <2>1, <2>2, <2>3 DEF Plus
  <2>8. R(R(xrb) + eb) \in Nat /\ R(R(R(xrb) + eb)) = R(R(xrb) + eb)
    BY ONLY <2>7, ResType, CurveAssumption DEF Residues
  <2> QED
    BY <2>4, <2>5, <2>6, <2>7, <2>8 DEF xrb, eb
<1>5. u \in Nat /\ u * b \in Nat /\ R(u) = R(e + y * r)
  <2> DEFINE xr == x * r
             yr == y * r
  <2>1. xr \in Nat /\ yr \in Nat /\ Times(r, x) = xr /\ Times(r, y) = yr
    BY SMT DEF Times
  <2>2. R(Times(r, x)) = R(Times(r, y))
    BY ONLY r \in Nat, x \in Nat, y \in Nat, R(x) = R(y), ResTimes
  <2> HIDE DEF xr, yr
  <2>3. R(xr) = R(yr)
    BY <2>1, <2>2
  <2>4. R(Plus(e, xr)) = R(Plus(e, yr))
    BY ONLY <2>1, <2>3, e \in Nat, ResPlus
  <2>5. Plus(e, xr) = u /\ Plus(e, yr) = e + y * r /\ u \in Nat
    BY <2>1 DEF Plus, xr, yr
  <2>6. u * b \in Nat
    BY <1>1, <2>5, SMT
  <2> QED
    BY <2>4, <2>5, <2>6
<1> HIDE DEF t, u
<1>6. s = R(i * t)
  BY DEF t
<1> HIDE DEF i
<1> DEFINE it == i * t
           tk == t * k
           bu == b * u
           kb == k * b
<1>7. it \in Nat /\ tk \in Nat /\ bu \in Nat /\ kb \in Nat
  BY <1>1, <1>3, <1>4, <1>5, SMT
<1>8. /\ Times(k, it) = Times(i, tk) /\ Times(k, t) = tk
      /\ Times(k, bu) = Times(u, kb) /\ Times(u, c) = c * u
  BY <1>1, <1>2, <1>3, <1>4, <1>5, SMT DEF Times
<1>9. R(s) = R(it) /\ s \in Residues /\ s \in Nat /\ Times(k, s) = s * k
  BY <1>1, <1>6, <1>7, ResType, SMT DEF Residues, Times
<1>10. R(t) = R(bu) /\ R(kb) = R(c)
  BY <1>2, <1>4
<1> HIDE DEF it, tk, bu, kb, c
<1>11. R(Times(k, s)) = R(Times(k, it))
  BY ONLY <1>1, <1>7, <1>9, ResTimes
<1>12. R(Times(k, t)) = R(Times(k, bu))
  BY ONLY <1>1, <1>4, <1>7, <1>10, ResTimes
<1>13. R(Times(u, kb)) = R(Times(u, c))
  BY ONLY <1>2, <1>5, <1>7, <1>10, ResTimes
<1>14. R(tk) = R(c * u)
  BY <1>8, <1>12, <1>13
<1>15. R(i * tk) = R(u)
  <2>1. R(nn_modinv(c) * tk) = R(u)
    BY ONLY <1>2, <1>5, <1>7, <1>14, Unblind
  <2> QED
    BY <2>1 DEF i
<1> QED
  BY <1>5, <1>8, <1>9, <1>11, <1>15 DEF Times

\* What the schemes but ECDSA return, once it is unblinded.
LEMMA Unblinded ==
  ASSUME NEW b \in Scalars, NEW t \in Nat, NEW u \in Nat, R(t) = R(b * u),
         NEW s, s = R(nn_modinv(b) * t)
  PROVE  s \in Residues /\ R(s) = R(u)
<1> DEFINE it == nn_modinv(b) * t
<1>1. R(it) = R(u)
  BY Unblind
<1>2. it \in Nat
  <2>1. nn_modinv(b) \in Nat
    BY Inverse, CurveAssumption DEF Scalars
  <2> QED
    BY <2>1, SMT
<1> HIDE DEF it
<1>3. R(it) \in Residues /\ R(R(it)) = R(it)
  BY ONLY <1>2, ResType
<1>4. s = R(it)
  BY DEF it
<1> QED
  BY <1>1, <1>3, <1>4

\* Equal remainders of a sum whose second product has a congruent factor.
LEMMA ResLinear ==
  ASSUME NEW x \in Nat, NEW y \in Nat, R(x) = R(y), NEW u \in Nat, NEW e \in Nat
  PROVE  R(u + e * x) = R(u + e * y) /\ u + e * x \in Nat
<1> DEFINE ex == e * x
           ey == e * y
<1>1. ex \in Nat /\ ey \in Nat /\ Times(e, x) = ex /\ Times(e, y) = ey
  BY SMT DEF Times
<1>2. R(Times(e, x)) = R(Times(e, y))
  BY ONLY x \in Nat, y \in Nat, e \in Nat, R(x) = R(y), ResTimes
<1> HIDE DEF ex, ey
<1>3. R(Plus(u, ex)) = R(Plus(u, ey))
  <2>1. R(ex) = R(ey)
    BY <1>1, <1>2
  <2> QED
    BY ONLY <1>1, <2>1, u \in Nat, ResPlus
<1>4. u + ex \in Nat
  BY <1>1
<1> QED
  BY <1>3, <1>4 DEF Plus, ex, ey

\* A product with a number that is 1 modulo q.
LEMMA ResUnit ==
  ASSUME NEW c \in Nat, R(c) = 1, NEW u \in Nat
  PROVE  R(c * u) = R(u)
<1>1. 1 \in Nat /\ R(1) = 1
  BY ResType, CurveAssumption DEF Residues
<1>2. R(c) = R(1)
  BY <1>1
<1>3. R(Times(u, c)) = R(Times(u, 1))
  BY ONLY <1>1, <1>2, c \in Nat, u \in Nat, ResTimes
<1>4. u * c = c * u /\ u * 1 = u
  BY SMT
<1> QED
  BY <1>3, <1>4 DEF Times

\* Step 7 of EC-GDSA, where x y = 1 and e = -h.
LEMMA EcgdsaEquation ==
  ASSUME NEW x \in Nat, NEW y \in Nat, R(x * y) = 1, NEW e \in Nat, NEW h \in Nat, R(e + h) = 0,
         NEW r \in Nat, NEW k \in Scalars, NEW b \in Scalars, NEW s,
         s = R(nn_modinv(b) * R(x * (k * R(r * b) + R(e * b))))
  PROVE  s \in Residues /\ R(y * s + h) = R(k * r)
<1> DEFINE z == k * R(r * b) + R(e * b)
           xz == x * z
           kr == k * r
           u == kr + e
           xu == x * u
<1>1. k \in Nat /\ b \in Nat /\ r * b \in Nat /\ e * b \in Nat
  BY CurveAssumption, SMT DEF Scalars
<1>2. z \in Nat /\ R(z) = R(b * u)
  <2>1. R(k * R(r * b) + 1 * R(e * b)) = R(b * (k * r + 1 * e))
        /\ k * R(r * b) + 1 * R(e * b) \in Nat
    BY <1>1, Blinded
  <2>2. R(e * b) \in Nat
    BY <1>1, ResType DEF Residues
  <2>3. 1 * R(e * b) = R(e * b) /\ 1 * e = e
    BY <2>2
  <2> QED
    BY <2>1, <2>3
<1> HIDE DEF z
<1>3. kr \in Nat /\ u \in Nat /\ xu \in Nat /\ xz \in Nat
  BY <1>1, <1>2, SMT
<1> HIDE DEF kr
<1>4. R(xz) \in Nat /\ R(R(xz)) = R(b * xu)
  <2> DEFINE bu == b * u
  <2>1. bu \in Nat /\ Times(x, bu) = b * xu
    BY <1>1, <1>3, SMT DEF Times
  <2>2. R(z) = R(bu)
    BY <1>2
  <2> HIDE DEF bu, xu, u
  <2>3. R(Times(x, z)) = R(Times(x, bu))
    BY ONLY <1>2, <2>1, <2>2, x \in Nat, ResTimes
  <2>4. Times(x, z) = xz
    BY DEF Times
  <2> HIDE DEF xz
  <2>5. R(xz) \in Nat /\ R(R(xz)) = R(xz)
    BY <1>3, ResType DEF Residues
  <2> QED
    BY <2>1, <2>3, <2>4, <2>5
<1>5. s = R(nn_modinv(b) * R(xz))
  BY DEF z
<1> HIDE DEF xz, xu
<1>6. s \in Residues /\ R(s) = R(xu)
  BY ONLY <1>3, <1>4, <1>5, b \in Scalars, Unblinded
<1>7. s \in Nat
  BY <1>6 DEF Residues
<1>8. R(h + y * s) = R(h + y * xu) /\ h + y * s \in Nat
  BY ONLY <1>3, <1>6, <1>7, y \in Nat, h \in Nat, ResLinear
<1> DEFINE xy == x * y
<1>9. y * xu = xy * u /\ xy \in Nat
  BY <1>3, SMT DEF xu
<1>10. R(xy) = 1
  OBVIOUS
<1> HIDE DEF xy, u
<1> DEFINE w == xy * u
           ys == y * s
<1>11. w \in Nat /\ ys \in Nat
  BY <1>3, <1>7, <1>9, SMT
<1>12. R(w) = R(u)
  BY ONLY <1>3, <1>9, <1>10, ResUnit DEF w
<1> HIDE DEF w
<1>13. R(Plus(h, w)) = R(Plus(h, u))
  BY ONLY <1>3, <1>11, <1>12, h \in Nat, ResPlus
<1> DEFINE eh == e + h
<1>14. R(Plus(kr, eh)) = R(Plus(kr, 0))
  <2>1. eh \in Nat /\ 0 \in Nat /\ R(eh) = R(0)
    BY ResType, CurveAssumption DEF Residues
  <2> HIDE DEF eh
  <2> QED
    BY ONLY <1>3, <2>1, ResPlus
<1>15. Plus(h, u) = Plus(kr, eh) /\ Plus(kr, 0) = kr /\ y * s + h = h + y * s
  BY <1>3, <1>11 DEF Plus, u
<1> QED
  BY <1>6, <1>8, <1>9, <1>13, <1>14, <1>15 DEF kr, w, Plus

\* Step 8 of EC-KCDSA, where x y = 1.
LEMMA EckcdsaEquation ==
  ASSUME NEW x \in Nat, NEW y \in Nat, R(x * y) = 1, NEW e \in Residues,
         NEW k \in Scalars, NEW b \in Scalars, NEW s,
         s = R(nn_modinv(b) * R(x * (R(k * b) + q - R(e * b))))
  PROVE  s \in Residues /\ R(y * s + e) = k
<1> DEFINE i == nn_modinv(b)
           z == R(k * b) + q - R(e * b)
           xz == x * z
           iz == i * z
           xiz == x * iz
           ys == y * s
           eb == e * b
           kb == k * b
<1>1. /\ k \in Nat /\ b \in Nat /\ i \in Nat /\ e \in Nat /\ k \in Residues /\ R(k) = k
      /\ q \in Nat /\ eb \in Nat /\ kb \in Nat
  <2>1. k \in Nat /\ b \in Nat /\ i \in Nat /\ e \in Nat /\ k \in Residues /\ q \in Nat
    BY Inverse, CurveAssumption DEF Scalars, Residues
  <2>2. eb \in Nat /\ kb \in Nat
    BY <2>1, SMT
  <2>3. R(k) = k
    BY <2>1, ResType
  <2> QED
    BY <2>1, <2>2, <2>3
<1>2. R(kb) \in Residues /\ R(eb) \in Residues /\ R(R(kb)) = R(kb) /\ R(R(eb)) = R(eb)
  BY ONLY <1>1, ResType
<1> HIDE DEF eb, kb
<1>3. z \in Nat /\ z + R(eb) = R(kb) + q
  BY <1>1, <1>2 DEF Residues, eb, kb
<1> HIDE DEF z
<1>4. R(z + eb) = R(kb)
  <2>1. R(Plus(z, R(eb))) = R(Plus(z, eb))
    BY <1>1, <1>2, <1>3, ResPlus DEF Residues
  <2>2. R(Plus(R(kb), q)) = R(Plus(R(kb), 0))
    <3>1. R(q) = R(0)
      <4>1. q \in Nat \ {0} /\ 0 \in Nat /\ 1 \in Nat
        BY CurveAssumption
      <4>2. (0 + q * 1) % q = 0 % q
        BY ONLY <4>1, AddMultiple
      <4>3. 0 + q * 1 = q
        BY <4>1
      <4> QED
        BY <4>2, <4>3 DEF R
    <3>2. R(kb) \in Nat /\ 0 \in Nat
      BY <1>2 DEF Residues
    <3> QED
      BY ONLY <1>1, <3>1, <3>2, ResPlus
  <2>3. Plus(R(kb), 0) = R(kb)
    BY <1>2 DEF Plus, Residues
  <2> QED
    BY <1>2, <1>3, <2>1, <2>2, <2>3 DEF Plus
<1> HIDE DEF i
<1>5. xz \in Nat /\ iz \in Nat /\ xiz \in Nat
  BY <1>1, <1>3, SMT
<1>6. R(xz) \in Nat /\ R(R(xz)) = R(xz)
  BY ONLY <1>5, ResType, CurveAssumption DEF Residues
<1>7. s \in Residues /\ s \in Nat /\ R(s) = R(xiz)
  <2> DEFINE t == i * R(xz)
  <2>1. t \in Nat
    BY <1>1, <1>6, SMT
  <2>2. s = R(t)
    BY DEF z, i, eb, kb
  <2> HIDE DEF t
  <2>3. s \in Residues /\ R(s) = R(t)
    BY ONLY <2>1, <2>2, ResType
  <2>4. R(Times(i, R(xz))) = R(Times(i, xz))
    BY ONLY <1>1, <1>5, <1>6, ResTimes
  <2>5. Times(i, xz) = xiz
    BY <1>1, <1>3, SMT DEF Times
  <2> QED
    BY <2>3, <2>4, <2>5 DEF t, Times, Residues
<1>8. ys \in Nat /\ R(ys) = R(iz)
  <2> DEFINE xy == x * y
  <2>1. xy \in Nat /\ ys \in Nat /\ R(xy) = 1
    BY <1>7, SMT
  <2>2. y * xiz = xy * iz
    BY <1>5, SMT
  <2>3. Times(y, s) = ys /\ Times(y, xiz) = xy * iz
    BY <2>2 DEF Times
  <2> HIDE DEF ys, xy, xiz, iz
  <2>4. R(Times(y, s)) = R(Times(y, xiz))
    BY ONLY <1>5, <1>7, y \in Nat, ResTimes
  <2>5. R(xy * iz) = R(iz)
    BY ONLY <1>5, <2>1, ResUnit
  <2> QED
    BY <2>1, <2>3, <2>4, <2>5
<1> DEFINE ieb == i * eb
           zeb == z + eb
           ikb == i * kb
           izeb == i * zeb
<1>9. ieb \in Nat /\ zeb \in Nat /\ ikb \in Nat /\ izeb \in Nat /\ izeb = iz + ieb
  BY <1>1, <1>3, SMT
<1>10. R(ieb) = R(e) /\ R(ikb) = R(k)
  <2>1. R(eb) = R(b * e) /\ R(kb) = R(b * k)
    <3>1. eb = b * e /\ kb = b * k
      BY <1>1, SMT DEF eb, kb
    <3> QED
      BY <3>1
  <2>2. R(nn_modinv(b) * eb) = R(e)
    BY <1>1, <2>1, Unblind
  <2>3. R(nn_modinv(b) * kb) = R(k)
    BY <1>1, <2>1, Unblind
  <2> QED
    BY <2>2, <2>3 DEF i
<1>11. R(izeb) = R(ikb)
  <2>1. R(zeb) = R(kb)
    BY <1>4
  <2>2. Times(i, zeb) = izeb /\ Times(i, kb) = ikb
    BY DEF Times
  <2> HIDE DEF zeb, izeb, ikb
  <2>3. R(Times(i, zeb)) = R(Times(i, kb))
    BY ONLY <1>1, <1>9, <2>1, ResTimes
  <2> QED
    BY <2>2, <2>3
<1> HIDE DEF ieb, zeb, ikb, izeb, ys, iz
<1>12. R(ys + e) = R(iz + ieb)
  BY ONLY <1>1, <1>5, <1>8, <1>9, <1>10, ResAdd
<1> QED
  BY <1>1, <1>7, <1>9, <1>10, <1>11, <1>12 DEF ys

\* Step 7 of EC-FSDSA and step 6 of EC-SDSA, whose order of the sum differs.
LEMMA SdsaEquation ==
  ASSUME NEW x \in Nat, NEW y \in Nat, R(x) = R(y), NEW h \in Nat,
         NEW k \in Scalars, NEW b \in Scalars, NEW s,
         \/ s = R(nn_modinv(b) * ((k * b) + (R(R(h) * b) * x)))
         \/ s = R(nn_modinv(b) * ((k * b) + (x * R(R(h) * b))))
  PROVE  s \in Residues /\ s = R(k + h * y)
<1> DEFINE e == R(h)
           z == x * R(e * b) + k * R(1 * b)
           u == k + e * x
<1>1. k \in Nat /\ b \in Nat /\ e \in Nat /\ 1 * b = b /\ b \in Residues /\ R(e) = R(h)
  BY ResType, CurveAssumption DEF Scalars, Residues
<1>2. R(b) = b
  BY <1>1, ResType
<1> HIDE DEF e
<1>3. z \in Nat /\ R(z) = R(b * (x * e + k * 1))
  <2>1. ASSUME NEW v \in Nat
        PROVE  /\ R(x * R(e * b) + k * R(v * b)) = R(b * (x * e + k * v))
               /\ x * R(e * b) + k * R(v * b) \in Nat
    BY <1>1, Blinded
  <2> QED
    BY <2>1
<1>4. u \in Nat /\ x * e + k * 1 = u
  BY <1>1, SMT
<1>5. z = (k * b) + (R(e * b) * x) /\ z = (k * b) + (x * R(e * b))
  <2> DEFINE rb == R(e * b)
  <2>1. rb \in Nat
    <3>1. e * b \in Nat
      BY <1>1, SMT
    <3> QED
      BY <3>1, ResType DEF Residues
  <2>2. z = x * rb + k * b
    BY <1>1, <1>2
  <2> HIDE DEF rb, z
  <2> QED
    BY <1>1, <2>1, <2>2, SMT DEF rb
<1> HIDE DEF z
<1>6. s = R(nn_modinv(b) * z)
  BY <1>5 DEF e
<1>7. R(z) = R(b * u)
  BY <1>3, <1>4
<1> HIDE DEF u
<1>8. s \in Residues /\ R(s) = R(u)
  BY ONLY <1>3, <1>4, <1>6, <1>7, b \in Scalars, Unblinded
<1>9. R(s) = s
  BY <1>8, ResType DEF Residues
<1>10. R(k + e * x) = R(k + e * y)
  BY ONLY <1>1, x \in Nat, y \in Nat, R(x) = R(y), ResLinear
<1>11. R(k + y * e) = R(k + y * h)
  BY ONLY <1>1, y \in Nat, h \in Nat, ResLinear
<1>12. k + y * e = k + e * y /\ k + y * h = k + h * y
  BY <1>1, SMT
<1> QED
  BY <1>8, <1>9, <1>10, <1>11, <1>12 DEF u

\* Step 7 of EC-RDSA.
LEMMA EcrdsaEquation ==
  ASSUME NEW x \in Nat, NEW y \in Nat, R(x) = R(y), NEW e \in Nat, NEW r \in Nat,
         NEW k \in Scalars, NEW b \in Scalars, NEW s,
         s = R(nn_modinv(b) * ((R(r * b) * x) + (k * R(e * b))))
  PROVE  s \in Residues /\ s = R(r * y + k * e)
<1> DEFINE z == x * R(r * b) + k * R(e * b)
           ke == k * e
           u == ke + r * x
<1>1. k \in Nat /\ b \in Nat
  BY CurveAssumption DEF Scalars
<1>2. ke \in Nat
  BY <1>1, SMT
<1>3. z \in Nat /\ R(z) = R(b * (x * r + k * e))
  BY <1>1, Blinded
<1>4. u \in Nat /\ x * r + k * e = u
  BY <1>1, SMT
<1>5. z = (R(r * b) * x) + (k * R(e * b))
  <2> DEFINE rb == R(r * b)
  <2>1. rb \in Nat
    <3>1. r * b \in Nat
      BY <1>1, SMT
    <3> QED
      BY <3>1, ResType DEF Residues
  <2>2. x * rb = rb * x
    BY <2>1, SMT
  <2> QED
    BY <2>2
<1> HIDE DEF z
<1>6. s = R(nn_modinv(b) * z)
  BY <1>5
<1>7. R(z) = R(b * u)
  BY <1>3, <1>4
<1> HIDE DEF u, ke
<1>8. s \in Residues /\ R(s) = R(u)
  BY ONLY <1>3, <1>4, <1>6, <1>7, b \in Scalars, Unblinded
<1>9. R(s) = s
  BY <1>8, ResType DEF Residues
<1>10. R(ke + r * x) = R(ke + r * y)
  BY ONLY <1>2, r \in Nat, x \in Nat, y \in Nat, R(x) = R(y), ResLinear
<1>11. ke + r * y = r * y + k * e
  BY <1>1, SMT DEF ke
<1> QED
  BY <1>8, <1>9, <1>10, <1>11 DEF u

\* The sum of a multiple of G and one of Y, as uG_vY computes it.
LEMMA Combination ==
  ASSUME NEW u \in Nat, NEW v \in Nat, NEW y \in Nat, NEW W, W = R(R(u) + R(v) * y)
  PROVE  W \in Residues /\ W \in Nat /\ R(W) = R(u + v * y) /\ R(W) = W
<1> DEFINE vy == v * y
           rvy == R(v) * y
           n == R(u) + rvy
<1>1. R(u) \in Nat /\ R(v) \in Nat /\ R(R(u)) = R(u) /\ R(R(v)) = R(v)
  BY ResType DEF Residues
<1>2. vy \in Nat /\ rvy \in Nat /\ n \in Nat /\ Times(y, R(v)) = rvy /\ Times(y, v) = vy
  BY <1>1, SMT DEF Times
<1>3. R(Times(y, R(v))) = R(Times(y, v))
  BY ONLY <1>1, v \in Nat, y \in Nat, ResTimes
<1> HIDE DEF vy, rvy
<1>4. R(R(u) + rvy) = R(u + vy)
  <2>1. R(rvy) = R(vy)
    BY <1>2, <1>3
  <2> QED
    BY ONLY <1>1, <1>2, <2>1, u \in Nat, ResAdd
<1>5. W = R(n)
  BY DEF rvy
<1> HIDE DEF n
<1>6. R(n) \in Residues /\ R(R(n)) = R(n)
  BY ONLY <1>2, ResType
<1> QED
  BY <1>4, <1>5, <1>6 DEF n, vy, Residues

\* Residues are equal if they are congruent.
LEMMA SameResidue ==
  ASSUME NEW x \in Residues, NEW y \in Residues, R(x) = R(y)
  PROVE  x = y
BY ResType DEF Residues

\* W' = (u/d) G + (v/d) Y is the only W with d W = u + v y.
Quotient(d, u, v, y) == R(R(nn_modinv(d) * u) + R(nn_modinv(d) * v) * y)

\* W' is a residue, and no other residue solves the equation.
LEMMA QuotientUnique ==
  ASSUME NEW d \in Scalars, NEW u \in Nat, NEW v \in Nat, NEW y \in Nat
  PROVE  /\ Quotient(d, u, v, y) \in Residues
         /\ \A k \in Residues : R(d * k) = R(u + v * y) <=> k = Quotient(d, u, v, y)
<1> DEFINE W == Quotient(d, u, v, y)
           i == nn_modinv(d)
           iu == i * u
           iv == i * v
           c == d * i
<1>1. d \in Nat /\ i \in Nat /\ R(c) = 1
  BY Inverse, CurveAssumption DEF Scalars
<1> HIDE DEF i
<1>2. iu \in Nat /\ iv \in Nat /\ c \in Nat
  BY <1>1, SMT
<1>3. W = R(R(iu) + R(iv) * y)
  BY DEF i, Quotient
<1> HIDE DEF iu, iv, c, W
<1>4. W \in Residues /\ W \in Nat /\ R(W) = R(iu + iv * y)
  BY ONLY <1>2, <1>3, y \in Nat, Combination
<1> DEFINE w == iu + iv * y
           n == u + v * y
<1>5. w \in Nat /\ n \in Nat
  BY <1>2, SMT
<1>6. d * w = c * n
  BY <1>1, SMT DEF iu, iv, c
<1> HIDE DEF w, n
<1>7. R(Times(d, W)) = R(Times(d, w))
  <2>1. R(W) = R(w)
    BY <1>4 DEF w
  <2> QED
    BY ONLY <1>1, <1>4, <1>5, <2>1, ResTimes
<1>8. R(c * n) = R(n)
  BY ONLY <1>1, <1>2, <1>5, ResUnit
<1>9. R(d * W) = R(n)
  BY <1>6, <1>7, <1>8 DEF Times
<1>10. ASSUME NEW k \in Residues, R(d * k) = R(n)
       PROVE  k = W
  <2>1. k \in Nat /\ R(d * k) = R(d * W)
    BY <1>9, <1>10, CurveAssumption DEF Residues
  <2>2. R(k) = R(W)
    BY ONLY <1>4, <2>1, d \in Scalars, ResDivide
  <2> QED
    BY <1>4, <2>2, SameResidue
<1> QED
  BY <1>4, <1>9, <1>10 DEF n, W

\* The equations of the schemes, which say how k belongs to a signature.
EcdsaFits(k, e, y, r, s) == R(s * k) = R(e + y * r)
EcgdsaFits(k, h, y, r, s) == R(y * s + h) = R(k * r)
EckcdsaFits(k, e, y, s) == R(y * s + e) = k
SdsaFits(k, h, y, s) == s = R(k + h * y)
EcrdsaFits(k, e, y, r, s) == s = R(r * y + k * e)

\* Steps 5 to 7 of ECDSA.
LEMMA EcdsaUnique ==
  ASSUME NEW s \in Scalars, NEW e \in Nat, NEW r \in Nat, NEW y \in Nat,
         NEW W, W = Quotient(s, e, r, y)
  PROVE  /\ W \in Residues
         /\ \A k \in Residues : EcdsaFits(k, e, y, r, s) <=> k = W
<1>2. /\ Quotient(s, e, r, y) \in Residues
      /\ \A k \in Residues : R(s * k) = R(e + r * y) <=> k = Quotient(s, e, r, y)
  BY QuotientUnique
<1>3. r * y = y * r
  BY SMT
<1> QED
  BY <1>2, <1>3 DEF EcdsaFits

\* Steps 3 to 6 of EC-GDSA.
LEMMA EcgdsaUnique ==
  ASSUME NEW r \in Scalars, NEW h \in Nat, NEW s \in Nat, NEW y \in Nat,
         NEW W, W = Quotient(r, R(h), s, y)
  PROVE  /\ W \in Residues
         /\ \A k \in Residues : EcgdsaFits(k, h, y, r, s) <=> k = W
<1> DEFINE e == R(h)
           sy == s * y
<1>1. e \in Nat /\ R(e) = R(h) /\ sy \in Nat
  BY ResType, SMT DEF Residues
<1>2. W = Quotient(r, e, s, y)
  OBVIOUS
<1> HIDE DEF e
<1>3. /\ W \in Residues
      /\ \A k \in Residues : R(r * k) = R(e + s * y) <=> k = W
  <2>1. /\ Quotient(r, e, s, y) \in Residues
        /\ \A k \in Residues : R(r * k) = R(e + s * y) <=> k = Quotient(r, e, s, y)
    BY <1>1, QuotientUnique
  <2> QED
    BY <1>2, <2>1
<1> HIDE DEF sy
<1>4. R(Plus(sy, e)) = R(Plus(sy, h))
  BY ONLY <1>1, h \in Nat, ResPlus
<1>5. Plus(sy, e) = e + s * y /\ Plus(sy, h) = y * s + h
  <2>1. s * y = y * s
    BY SMT
  <2> QED
    BY <1>1, <2>1 DEF Plus, sy
<1>6. \A k \in Residues : r * k = k * r
  BY CurveAssumption, SMT DEF Scalars, Residues
<1> QED
  BY <1>3, <1>4, <1>5, <1>6 DEF EcgdsaFits

\* Steps 3 to 5 of EC-FSDSA and 3 to 4 of EC-SDSA.
Difference(s, h, y) == R(R(s) + R(nn_mod_neg(h)) * y)

\* W' = s G - h Y is the only k with s = k + h y.
LEMMA SdsaUnique ==
  ASSUME NEW s \in Scalars, NEW h \in Nat, NEW y \in Nat,
         NEW W, W = Difference(s, h, y)
  PROVE  /\ W \in Residues
         /\ \A k \in Residues : SdsaFits(k, h, y, s) <=> k = W
<1> DEFINE n == nn_mod_neg(h)
           hy == h * y
           ny == n * y
           nh == n + h
           nhy == nh * y
<1>1. s \in Nat /\ R(s) = s /\ n \in Nat /\ R(nh) = 0
  BY ResType, Negative, CurveAssumption DEF Scalars, Residues
<1> HIDE DEF n
<1>2. hy \in Nat /\ ny \in Nat /\ nh \in Nat /\ nhy \in Nat /\ ny + hy = nhy
  BY <1>1, SMT
<1>3. W = R(R(s) + R(n) * y)
  BY DEF n, Difference
<1>4. W \in Residues /\ W \in Nat /\ R(W) = R(s + n * y)
  BY ONLY <1>1, <1>3, y \in Nat, Combination
<1> DEFINE sny == s + ny
<1>5. sny \in Nat /\ R(W) = R(sny)
  BY <1>1, <1>2, <1>4
<1> HIDE DEF hy, nhy, ny, nh, sny
<1>6. R(nhy) = R(0)
  <2>1. 0 \in Nat /\ R(0) = 0
    BY ResType, CurveAssumption DEF Residues
  <2>2. R(Times(y, nh)) = R(Times(y, 0))
    BY <1>1, <1>2, <2>1, ResTimes
  <2>3. Times(y, nh) = nhy /\ Times(y, 0) = 0
    BY <1>2, SMT DEF Times, nhy
  <2> QED
    BY <2>2, <2>3
<1>7. R(Plus(hy, W)) = R(Plus(hy, sny))
  BY ONLY <1>2, <1>4, <1>5, ResPlus
<1>8. R(Plus(s, nhy)) = R(Plus(s, 0))
  BY ONLY <1>1, <1>2, <1>6, 0 \in Nat, ResPlus
<1>9. Plus(hy, sny) = Plus(s, nhy) /\ Plus(s, 0) = s /\ Plus(hy, W) = W + hy
  BY <1>1, <1>2, <1>4 DEF Plus, sny
<1>10. R(W + hy) = s
  BY <1>1, <1>7, <1>8, <1>9
<1>11. ASSUME NEW k \in Residues, s = R(k + hy)
       PROVE  k = W
  <2>1. k \in Nat /\ R(k + hy) = R(W + hy)
    BY <1>10, <1>11, CurveAssumption DEF Residues
  <2>2. R(k) = R(W)
    BY ONLY <1>2, <1>4, <2>1, ResCancel
  <2> QED
    BY <1>4, <2>2, SameResidue
<1> QED
  BY <1>4, <1>10, <1>11 DEF hy, SdsaFits

\* Steps 3 to 6 of EC-RDSA.
Solution(e, r, s, y) == R(R(nn_modinv(e) * s) + R(nn_mod_neg(nn_modinv(e) * r)) * y)

\* W' = (s/e) G - (r/e) Y is the only k with s = r y + k e.
LEMMA EcrdsaUnique ==
  ASSUME NEW e \in Scalars, NEW r \in Nat, NEW s \in Scalars, NEW y \in Nat,
         NEW W, W = Solution(e, r, s, y)
  PROVE  /\ W \in Residues
         /\ \A k \in Residues : EcrdsaFits(k, e, y, r, s) <=> k = W
<1> DEFINE i == nn_modinv(e)
           ei == e * i
           is == i * s
           ir == i * r
           n == nn_mod_neg(ir)
           ny == n * y
           iry == ir * y
           ry == r * y
           nir == n + ir
<1>1. e \in Nat /\ s \in Nat /\ R(s) = s /\ i \in Nat /\ R(ei) = 1
  BY Inverse, ResType, CurveAssumption DEF Scalars, Residues
<1> HIDE DEF i
<1>2. ei \in Nat /\ is \in Nat /\ ir \in Nat /\ iry \in Nat /\ ry \in Nat
  BY <1>1, SMT
<1> HIDE DEF ir
<1>3. n \in Nat /\ R(nir) = 0
  BY <1>2, Negative DEF Residues
<1>4. W = R(R(is) + R(n) * y)
  BY DEF n, ir, i, Solution
<1> HIDE DEF n, is, ei
<1>5. W \in Residues /\ W \in Nat /\ R(W) = R(is + n * y)
  BY ONLY <1>2, <1>3, <1>4, y \in Nat, Combination
<1>6. ny \in Nat /\ nir \in Nat /\ ny + iry = nir * y
  BY <1>2, <1>3, SMT
<1> HIDE DEF ny, nir
<1>7. R(ny + iry) = R(0)
  <2>1. 0 \in Nat /\ R(0) = 0
    BY ResType, CurveAssumption DEF Residues
  <2>2. R(Times(y, nir)) = R(Times(y, 0))
    BY <1>3, <1>6, <2>1, ResTimes
  <2>3. Times(y, nir) = nir * y /\ Times(y, 0) = 0
    BY <1>6, SMT DEF Times
  <2> QED
    BY <1>6, <2>2, <2>3
<1> DEFINE a == is + ny
           z == ny + iry
           m == W + iry
<1>8. a \in Nat /\ z \in Nat /\ m \in Nat /\ R(W) = R(a) /\ R(z) = R(0)
  BY <1>2, <1>5, <1>6, <1>7 DEF ny
<1>9. R(m) = R(is)
  <2>1. Plus(iry, W) = m /\ Plus(iry, a) = Plus(is, z) /\ Plus(is, 0) = is
    BY <1>2, <1>5, <1>6 DEF Plus
  <2> HIDE DEF a, z, m, iry
  <2>2. R(Plus(iry, W)) = R(Plus(iry, a))
    BY ONLY <1>2, <1>5, <1>8, ResPlus
  <2>3. R(Plus(is, z)) = R(Plus(is, 0))
    BY ONLY <1>2, <1>8, 0 \in Nat, ResPlus
  <2> QED
    BY <2>1, <2>2, <2>3
<1>10. R(Times(e, m)) = R(Times(e, is))
  BY ONLY <1>1, <1>2, <1>8, <1>9, ResTimes
<1> DEFINE ew == e * W
           eiry == ei * ry
<1>11. /\ ew \in Nat /\ eiry \in Nat /\ Times(e, m) = ew + eiry /\ Times(e, is) = ei * s
  <2>1. e * (W + iry) = e * W + (e * i) * (r * y) /\ e * (i * s) = (e * i) * s
    BY <1>1, <1>2, <1>5, SMT DEF ir
  <2>2. ew \in Nat /\ eiry \in Nat
    BY <1>1, <1>2, <1>5, SMT
  <2> QED
    BY <2>1, <2>2 DEF Times, is, ei
<1>12. R(eiry) = R(ry) /\ R(ei * s) = R(s)
  BY ONLY <1>1, <1>2, ResUnit
<1> HIDE DEF eiry, ew, ry
<1>13. R(ew + ry) = s
  <2>1. R(Plus(ew, eiry)) = R(Plus(ew, ry))
    BY ONLY <1>2, <1>11, <1>12, ResPlus DEF eiry
  <2> QED
    BY <1>1, <1>10, <1>11, <1>12, <2>1 DEF Plus
<1>14. ASSUME NEW k \in Residues
       PROVE  s = R(ry + k * e) <=> k = W
  <2> DEFINE ek == e * k
  <2>1. k \in Nat /\ ek \in Nat /\ ry + k * e = ek + ry
    <3>1. k \in Nat
      BY CurveAssumption DEF Residues
    <3>2. k * e = ek /\ ek \in Nat
      BY <1>1, <3>1, SMT
    <3> QED
      BY <1>2, <3>1, <3>2
  <2>2. ASSUME k = W
        PROVE  s = R(ek + ry)
    BY <1>13, <2>2 DEF ew
  <2> HIDE DEF ek
  <2>3. ASSUME s = R(ek + ry)
        PROVE  k = W
    <3>1. R(ek + ry) = R(ew + ry)
      BY <1>13, <2>3
    <3>2. R(ek) = R(ew)
      BY ONLY <1>2, <1>11, <2>1, <3>1, ResCancel
    <3>3. R(e * k) = R(e * W)
      BY <3>2 DEF ek, ew
    <3>4. R(k) = R(W)
      BY ONLY <1>5, <2>1, <3>3, e \in Scalars, ResDivide
    <3> QED
      BY <1>5, <3>4, SameResidue
  <2> QED
    BY <2>1, <2>2, <2>3
<1> QED
  BY <1>5, <1>14 DEF ry, EcrdsaFits

-----------------------------------------------------------------------------
(* What the schemes hash and compute are numbers.                            *)

\* The exclusive or of two strings of bits is a number.
LEMMA XorType ==
  ASSUME NEW m, NEW n
  PROVE  XorBits(m, n) \in Nat
<1> DEFINE N == ByteBits * R_LEN
           c == [i \in 1..N |-> IF Bit(m, i - 1) # Bit(n, i - 1) THEN 2^(i - 1) ELSE 0]
           Body(f, i) == IF i = 0 THEN 0
                         ELSE f[i - 1] + (IF Bit(m, i - 1) # Bit(n, i - 1) THEN 2^(i - 1) ELSE 0)
<1>1. N \in Nat /\ N <= ByteBits * HashBytes
  <2>1. R_LEN \in Nat /\ R_LEN <= HashBytes
    <3>1. BYTECEIL(QBits) \in Nat
      <4>1. QBits + ByteBits - 1 \in Nat /\ ByteBits \in Nat \ {0}
        BY HashAssumption
      <4> QED
        BY ONLY <4>1, DivMod DEF BYTECEIL
    <3> QED
      BY <3>1, HashAssumption DEF R_LEN
  <2>2. ByteBits \in Nat /\ HashBytes \in Nat
    BY HashAssumption
  <2> HIDE DEF R_LEN
  <2> QED
    BY ONLY <2>1, <2>2, SMT
<1>2. c \in [1..N -> Nat]
  <2>1. ASSUME NEW i \in 1..N
        PROVE  2^(i - 1) \in Nat
    <3>1. i - 1 \in 0..(ByteBits * HashBytes)
      <4> DEFINE B == ByteBits * HashBytes
      <4>1. B \in Nat
        BY HashAssumption, SMT
      <4> HIDE DEF B, N
      <4> QED
        BY <1>1, <4>1 DEF B
    <3> QED
      BY ONLY <3>1, PowersOfTwo
  <2> HIDE DEF N
  <2> QED
    BY <2>1
<1> HIDE DEF N
<1>3. ASSUME NEW f
      PROVE  [i \in 0..N |-> Body(f, i)]
             = [i \in 0..N |-> IF i = 0 THEN 0 ELSE f[i - 1] + c[i]]
  <2>1. ASSUME NEW i \in 0..N, i # 0
        PROVE  Body(f, i) = f[i - 1] + c[i]
    <3>1. i \in 1..N
      BY <1>1, <2>1
    <3>2. c[i] = IF Bit(m, i - 1) # Bit(n, i - 1) THEN 2^(i - 1) ELSE 0
      BY <3>1
    <3> HIDE DEF c
    <3> QED
      BY <2>1, <3>2
  <2>2. Body(f, 0) = 0
    OBVIOUS
  <2> HIDE DEF Body, c
  <2> QED
    BY <2>1, <2>2
<1> HIDE DEF c
<1>4. /\ \E f : f = [i \in 0..N |-> IF i = 0 THEN 0 ELSE f[i - 1] + c[i]]
      /\ \A f : f = [i \in 0..N |-> IF i = 0 THEN 0 ELSE f[i - 1] + c[i]] => f[N] \in Nat
  BY ONLY <1>1, <1>2, PartialSums
<1> HIDE DEF Body
<1>5. /\ \E f : f = [i \in 0..N |-> Body(f, i)]
      /\ \A f : f = [i \in 0..N |-> Body(f, i)] => f[N] \in Nat
  <2>1. PICK f : f = [i \in 0..N |-> IF i = 0 THEN 0 ELSE f[i - 1] + c[i]]
    BY ONLY <1>4
  <2>2. f = [i \in 0..N |-> Body(f, i)]
    <3>1. [i \in 0..N |-> Body(f, i)] = [i \in 0..N |-> IF i = 0 THEN 0 ELSE f[i - 1] + c[i]]
      BY ONLY <1>3
    <3> QED
      BY ONLY <2>1, <3>1
  <2>3. ASSUME NEW g, g = [i \in 0..N |-> Body(g, i)]
        PROVE  g[N] \in Nat
    <3>1. [i \in 0..N |-> Body(g, i)] = [i \in 0..N |-> IF i = 0 THEN 0 ELSE g[i - 1] + c[i]]
      BY ONLY <1>3
    <3>2. g = [i \in 0..N |-> IF i = 0 THEN 0 ELSE g[i - 1] + c[i]]
      BY ONLY <2>3, <3>1
    <3> QED
      BY ONLY <1>4, <3>2
  <2> QED
    BY ONLY <2>2, <2>3
<1> DEFINE upto == CHOOSE f : f = [i \in 0..N |-> Body(f, i)]
<1>6. upto[N] \in Nat
  <2>1. upto = [i \in 0..N |-> Body(upto, i)]
    BY ONLY <1>5
  <2> HIDE DEF upto
  <2> QED
    BY ONLY <1>5, <2>1
<1>7. XorBits(m, n) = upto[N]
  BY DEF XorBits, upto, N, Body
<1> QED
  BY <1>6, <1>7

\* Digests are numbers, whichever prefix is hashed before the message.
LEMMA HashType ==
  ASSUME NEW pre \in Prefixes, NEW msg \in Messages, NEW n \in 1..(MaxFinals + 1)
  PROVE  Hash(pre, msg, n) \in Nat
<1>1. Hash(pre, msg, n) \in Digests
  BY HashAssumption
<1> QED
  BY <1>1 DEF Digests

\* So is the digest of a context that is finalized once.
LEMMA FirstDigest ==
  ASSUME NEW pre \in Prefixes, NEW msg \in Messages
  PROVE  Hash(pre, msg, 1) \in Nat
<1>1. 1 \in 1..(MaxFinals + 1)
  BY HashAssumption
<1> QED
  BY <1>1, HashType

\* The prefixes of the schemes are prefixes, and abscissas are numbers.
LEMMA PrefixType ==
  ASSUME NEW k \in Scalars
  PROVE  <<"xy", k>> \in Prefixes /\ z_of(k) \in Prefixes
BY DEF Prefixes, z_of

\* The abscissa of a point is a number, and what a scheme makes of it a prefix.
LEMMA AbscissaType ==
  ASSUME conf \in Confs, NEW k \in Scalars
  PROVE  /\ Abscissa(k) \in Nat /\ <<"x", Abscissa(k)>> \in Prefixes
         /\ \A alg : W_prefix(alg, k) \in Prefixes
<1>1. conf.crv \in Curves
  BY DEF Confs
<1>2. Abscissa(k) \in Nat
  BY <1>1, CurveAssumption DEF Abscissa
<1>3. <<"x", Abscissa(k)>> \in Prefixes
  BY <1>1 DEF Prefixes, Abscissa
<1> QED
  BY <1>2, <1>3, PrefixType DEF W_prefix

\* The numbers that the schemes compute from a digest.
LEMMA ShiftType ==
  ASSUME NEW h \in Nat
  PROVE  buf_lshift(h) \in Nat
<1> DEFINE N == ByteBits * R_LEN
           B == ByteBits * HashBytes
<1>1. N \in 0..B
  <2>1. R_LEN \in Nat /\ R_LEN <= HashBytes
    <3>1. QBits + ByteBits - 1 \in Nat /\ ByteBits \in Nat \ {0}
      BY HashAssumption
    <3>2. BYTECEIL(QBits) \in Nat
      BY ONLY <3>1, DivMod DEF BYTECEIL
    <3> QED
      BY <3>2, HashAssumption DEF R_LEN
  <2>2. ByteBits \in Nat /\ HashBytes \in Nat
    BY HashAssumption
  <2> HIDE DEF R_LEN
  <2> QED
    BY ONLY <2>1, <2>2, SMT
<1>2. 2^N \in Nat \ {0}
  BY <1>1, PowersOfTwo
<1> DEFINE p == 2^N
<1>3. p \in Nat \ {0}
  BY <1>2
<1> HIDE DEF p
<1>4. h % p \in Nat
  BY ONLY <1>3, h \in Nat, DivMod
<1> QED
  BY <1>4 DEF buf_lshift, p

\* The leftmost bits of a digest, reduced.
LEMMA EcdsaNumber ==
  ASSUME NEW c, Digest(c) \in Nat
  PROVE  ecdsa_e(c) \in Residues
<1> DEFINE bits == ByteBits * HashBytes
           rshift == IF bits > QBits THEN bits - QBits ELSE 0
           p == 2^rshift
           h == Digest(c)
<1>1. bits \in Nat /\ QBits \in Nat
  BY HashAssumption, SMT
<1>2. rshift \in 0..bits
  <2> HIDE DEF bits
  <2> QED
    BY <1>1
<1>3. p \in Nat \ {0} /\ h \in Nat
  BY <1>2, PowersOfTwo
<1> HIDE DEF p, h
<1>4. h \div p \in Nat
  BY ONLY <1>3, DivMod
<1>5. R(h \div p) \in Residues
  BY <1>4, ResType
<1> QED
  BY <1>5 DEF ecdsa_e, p, h, R

\* The exclusive or, reduced.
LEMMA EckcdsaNumber ==
  ASSUME NEW r, NEW h
  PROVE  eckcdsa_e(r, h) \in Residues
BY XorType, ResType DEF eckcdsa_e, R

\* The digest, reduced, or 1.
LEMMA EcrdsaNumber ==
  ASSUME NEW h \in Nat
  PROVE  ecrdsa_e(h) \in Scalars
<1>1. R(h) \in Residues /\ 1 \in Scalars
  BY ResType, CurveAssumption DEF Scalars
<1> QED
  BY <1>1 DEF ecrdsa_e, R, Residues, Scalars

\* A session starts from nothing.
LEMMA FreshTypes ==
  /\ NoSig \in Signed /\ NoVerify \in Verifiers /\ NoSign \in Signers
  /\ \A pre \in Prefixes, k \in Scalars :
       [NoSign EXCEPT !.pc = "open", !.pre = pre, !.k = k] \in Signers
  /\ \A pre \in Prefixes, in \in Signed :
       [NoVerify EXCEPT !.pc = "open", !.pre = pre, !.sig = in] \in Verifiers
  /\ \A in \in Signed : [NoVerify EXCEPT !.pc = "refused", !.sig = in] \in Verifiers
<1>1. 1 \in Scalars /\ NoPrefix \in Prefixes /\ <<>> \in Messages /\ 0 \in 0..MaxFinals
  BY CurveAssumption, HashAssumption DEF Scalars, Prefixes
<1>2. NoSig \in Signed
  BY DEF NoSig, Signed
<1> HIDE DEF NoPrefix, NoSig, Signed
<1>3. NoVerify \in Verifiers
  BY <1>1, <1>2 DEF NoVerify, Verifiers, VerifyPcs
<1>4. NoSign \in Signers
  BY <1>1 DEF NoSign, Signers, SignPcs
<1>5. \A pre \in Prefixes, k \in Scalars :
        [NoSign EXCEPT !.pc = "open", !.pre = pre, !.k = k] \in Signers
  BY <1>1 DEF NoSign, Signers, SignPcs
<1>6. \A pre \in Prefixes, in \in Signed :
        [NoVerify EXCEPT !.pc = "open", !.pre = pre, !.sig = in] \in Verifiers
  BY <1>1 DEF NoVerify, Verifiers, VerifyPcs
<1>7. \A in \in Signed : [NoVerify EXCEPT !.pc = "refused", !.sig = in] \in Verifiers
  BY <1>1 DEF NoVerify, Verifiers, VerifyPcs
<1> QED
  BY <1>2, <1>3, <1>4, <1>5, <1>6, <1>7

-----------------------------------------------------------------------------
(* The steps the schemes share preserve the invariant.                       *)

\* What a signature is depends on the curve and the scheme only.
LEMMA ValidSame ==
  ASSUME UNCHANGED conf, NEW y, NEW msg, NEW r, NEW s
  PROVE  Valid(y, msg, r, s)' <=> Valid(y, msg, r, s)
BY DEF Valid, EcdsaValid, EcgdsaValid, EckcdsaValid, EcfsdsaValid, EcsdsaValid, EcrdsaValid,
       ecdsa_r, ecgdsa_r, eckcdsa_r, ecrdsa_r, W_prefix, Abscissa

\* So is what is hashed before the message.
LEMMA PrefixSame ==
  ASSUME UNCHANGED conf, NEW alg, NEW k
  PROVE  W_prefix(alg, k)' = W_prefix(alg, k)
BY DEF W_prefix, Abscissa

\* A call on the keys, between sessions.
LEMMA KeysStep ==
  ASSUME IInv, Quiet, NEW newpriv, NEW newpub, NEW newpair,
         SetKeys(newpriv, newpub, newpair),
         newpriv \in [type : KeyTypes \cup {"none"}, x : Nat],
         newpub.type # "exit" =>
           /\ newpub \in [type : KeyTypes \cup {"none"}, y : Residues \cup {NoPoint}]
           /\ newpair \in Pairs
           /\ newpair = "whole" => Coherent'
  PROVE  IInv'
<1>1. CASE newpub.type = "exit"
  <2>1. exited' = "inverse" /\ UNCHANGED <<conf, priv, pub, pair, sign, sig, verify>>
    BY <1>1 DEF SetKeys, Exits, keys
  <2>2. verify.pc = "closed" /\ sign.pc = "closed" /\ sig.of = NoMsg /\ verify.sig.of = NoMsg
    BY DEF Quiet, NoVerify, NoSig
  <2>3. Typed'
    BY <2>1 DEF IInv, Typed, KeyTypes, ExitCodes
  <2>4. Signing' /\ Verifying'
    BY <2>1, <2>2 DEF Signing, Verifying
  <2>5. WholePairCoherent'
    BY <2>1 DEF IInv, WholePairCoherent, Coherent
  <2>6. SignatureValid' /\ VerdictCorrect' /\ SignedIsAccepted'
    BY <2>1, <2>2 DEF SignatureValid, VerdictCorrect, SignedIsAccepted
  <2> QED
    BY <2>3, <2>4, <2>5, <2>6 DEF IInv
<1>2. CASE newpub.type # "exit"
  <2>1. /\ priv' = newpriv /\ pub' = newpub /\ pair' = newpair
        /\ UNCHANGED <<conf, sign, sig, verify, exited>>
    BY <1>2 DEF SetKeys
  <2>2. verify.pc = "closed" /\ sign.pc = "closed" /\ sig.of = NoMsg /\ verify.sig.of = NoMsg
    BY DEF Quiet, NoVerify, NoSig
  <2>3. Typed'
    BY <1>2, <2>1 DEF IInv, Typed, KeyTypes
  <2>4. Signing' /\ Verifying'
    BY <2>1, <2>2 DEF Signing, Verifying
  <2>5. WholePairCoherent'
    BY <1>2, <2>1 DEF WholePairCoherent
  <2>6. SignatureValid' /\ VerdictCorrect' /\ SignedIsAccepted'
    BY <2>1, <2>2 DEF SignatureValid, VerdictCorrect, SignedIsAccepted
  <2> QED
    BY <2>3, <2>4, <2>5, <2>6 DEF IInv
<1> QED
  BY <1>1, <1>2

\* The program stops: at infinity only on something no signer has returned.
LEMMA ExitStep ==
  ASSUME IInv, NEW why \in ExitCodes, Exits(why),
         \/ why # "infinity"
         \/ verify.pc # "open" \/ verify.sig.of = NoMsg \/ ~Coherent \/ verify.sig.redo
         \/ verify.m # verify.sig.of \/ pub.y = 0
  PROVE  IInv'
<1>1. exited' = why /\ UNCHANGED <<conf, priv, pub, pair, sign, sig, verify>>
  BY DEF Exits, keys
<1>2. Typed'
  BY <1>1 DEF IInv, Typed, KeyTypes
<1>3. Signing'
  <2>1. SignPrefix' <=> SignPrefix
    BY <1>1, PrefixSame DEF SignPrefix
  <2>2. SignNumber' <=> SignNumber
    BY <1>1 DEF SignNumber, Digest
  <2> QED
    BY <1>1, <2>1, <2>2 DEF IInv, Signing, KeysMatch
<1>4. Verifying'
  <2>1. VerifyPrefix' <=> VerifyPrefix
    BY <1>1, PrefixSame DEF VerifyPrefix, uG_vY
  <2> QED
    BY <1>1, <2>1 DEF IInv, Verifying
<1>5. Coherent' <=> Coherent
  BY <1>1 DEF Coherent
<1>6. WholePairCoherent'
  BY <1>1, <1>5 DEF IInv, WholePairCoherent
<1>7. SignatureValid'
  BY <1>1, <1>5, ValidSame DEF IInv, SignatureValid
<1>8. VerdictCorrect'
  BY <1>1, ValidSame DEF IInv, VerdictCorrect
<1>9. SignedIsAccepted'
  BY <1>1, <1>5 DEF IInv, SignedIsAccepted
<1> QED
  BY <1>2, <1>3, <1>4, <1>6, <1>7, <1>8, <1>9 DEF IInv

\* What the invariant says of signatures and verifiers.
Sessions == Verifying /\ SignatureValid /\ VerdictCorrect /\ SignedIsAccepted

\* It holds where there is no signature and no verifier.
LEMMA FreshSession ==
  ASSUME sig' = NoSig, verify' = NoVerify
  PROVE  Sessions'
<1>1. verify'.pc = "closed" /\ sig'.of = NoMsg /\ verify'.sig.of = NoMsg
  BY DEF NoVerify, NoSig
<1> QED
  BY <1>1 DEF Sessions, Verifying, SignatureValid, VerdictCorrect, SignedIsAccepted

\* The sessions stay right where neither they nor the keys change.
LEMMA SameSession ==
  ASSUME Sessions, UNCHANGED <<conf, priv, pub, sig, verify, exited>>
  PROVE  Sessions'
<1>1. Verifying'
  <2>1. VerifyPrefix' <=> VerifyPrefix
    BY PrefixSame DEF VerifyPrefix, uG_vY
  <2> QED
    BY <2>1 DEF Sessions, Verifying
<1>2. Coherent' <=> Coherent
  BY DEF Coherent
<1>3. SignatureValid'
  BY <1>2, ValidSame DEF Sessions, SignatureValid
<1>4. VerdictCorrect'
  BY ValidSame DEF Sessions, VerdictCorrect
<1>5. SignedIsAccepted'
  BY <1>2 DEF Sessions, SignedIsAccepted
<1> QED
  BY <1>1, <1>3, <1>4, <1>5 DEF Sessions

\* The prefix a signer has to begin with.
PrefixFits(pre, k) ==
  /\ conf.alg \in Plain => pre = NoPrefix
  /\ conf.alg = "ECKCDSA" => pub.y \in Scalars /\ pre = z_of(pub.y)
  /\ conf.alg = "ECFSDSA" => pre = <<"xy", k>>
  /\ conf.alg \in Sdsa => pre = W_prefix(conf.alg, k)

\* sign_init opens a session.
LEMMA OpenStep ==
  ASSUME IInv, NEW pre \in Prefixes, NEW k \in Scalars, SignOpens(pre, k), PrefixFits(pre, k)
  PROVE  IInv'
<1>1. /\ KeysMatch /\ sign' = [NoSign EXCEPT !.pc = "open", !.pre = pre, !.k = k]
      /\ sig' = NoSig /\ verify' = NoVerify /\ pair' = "none" /\ UNCHANGED <<conf, priv, pub, exited>>
  BY DEF SignOpens, KeysUsed
<1>2. Typed'
  <2>1. NoSig.r = 0 /\ 0 \in Residues
    BY CurveAssumption DEF NoSig, Residues
  <2>2. sign' \in Signers /\ sig' \in Signed /\ verify' \in Verifiers /\ sig'.r \in Residues
    BY <1>1, <2>1, FreshTypes
  <2>3. pair' \in Pairs
    BY <1>1 DEF Pairs
  <2> QED
    BY <1>1, <2>2, <2>3 DEF IInv, Typed, KeyTypes
<1>3. Signing'
  <2>1. sign'.pc = "open" /\ sign'.pre = pre /\ sign'.k = k /\ sign'.finals = 0
    BY <1>1 DEF NoSign
  <2>2. SignPrefix'
    BY <1>1, <2>1, PrefixSame DEF SignPrefix, PrefixFits
  <2>3. KeysMatch'
    BY <1>1 DEF KeysMatch
  <2> QED
    BY <1>1, <2>1, <2>2, <2>3 DEF Signing
<1>4. WholePairCoherent'
  BY <1>1 DEF WholePairCoherent
<1> QED
  BY <1>1, <1>2, <1>3, <1>4, FreshSession DEF IInv, Sessions

\* sign_init refuses.
LEMMA SignInitFailsStep ==
  ASSUME IInv, ec_sign_init_fails
  PROVE  IInv'
<1>1. /\ sign' = NoSign /\ sig' = NoSig /\ verify' = NoVerify /\ pair' = "none"
      /\ UNCHANGED <<conf, priv, pub, exited>>
  BY DEF ec_sign_init_fails, KeysUsed
<1>2. Typed'
  <2>1. NoSig.r = 0 /\ 0 \in Residues
    BY CurveAssumption DEF NoSig, Residues
  <2>2. sign' \in Signers /\ sig' \in Signed /\ verify' \in Verifiers /\ sig'.r \in Residues
    BY <1>1, <2>1, FreshTypes
  <2>3. pair' \in Pairs
    BY <1>1 DEF Pairs
  <2> QED
    BY <1>1, <2>2, <2>3 DEF IInv, Typed, KeyTypes
<1>3. Signing'
  BY <1>1 DEF Signing, NoSign
<1>4. WholePairCoherent'
  BY <1>1 DEF WholePairCoherent
<1> QED
  BY <1>1, <1>2, <1>3, <1>4, FreshSession DEF IInv, Sessions

\* The signer alone moves: it takes a piece of the message, reaches the label
\* restart, goes back to it, or is wiped.
LEMMA SignerStep ==
  ASSUME IInv, UNCHANGED <<keys, sig, verify, exited>>, sign' \in Signers,
         sign'.pc # "closed" =>
           /\ sign.pc # "closed" /\ sign'.pre = sign.pre /\ sign'.k = sign.k
           /\ sign'.pc = "open" => sign'.finals = 0
           /\ sign'.pc = "draw" => conf.alg \in Looping /\ (~sign'.redo => SignNumber')
  PROVE  IInv'
<1>1. UNCHANGED <<conf, priv, pub, pair, sig, verify, exited>>
  BY DEF keys
<1>2. Typed'
  BY <1>1 DEF IInv, Typed, KeyTypes
<1>3. Signing'
  <2>1. ASSUME sign'.pc # "closed"
        PROVE  SignPrefix' /\ KeysMatch' /\ verify' = NoVerify /\ sig' = NoSig
    <3>1. SignPrefix /\ KeysMatch /\ verify = NoVerify /\ sig = NoSig
      BY <2>1 DEF IInv, Signing
    <3>2. SignPrefix'
      BY <1>1, <2>1, <3>1, PrefixSame DEF SignPrefix
    <3> QED
      BY <1>1, <3>1, <3>2 DEF KeysMatch
  <2> QED
    BY <1>1, <2>1 DEF Signing
<1>4. WholePairCoherent'
  BY <1>1 DEF IInv, WholePairCoherent, Coherent
<1> QED
  BY <1>1, <1>2, <1>3, <1>4, SameSession DEF IInv, Sessions

\* sign_update takes a piece of the message.
LEMMA SignUpdateStep ==
  ASSUME IInv, NEW chunk \in Chunks, ec_sign_update(chunk)
  PROVE  IInv'
<1>1. /\ sign.pc = "open" /\ sign' = [sign EXCEPT !.m = sign.m \o chunk]
      /\ UNCHANGED <<keys, sig, verify, exited>> /\ Len(sign.m \o chunk) <= MaxLen
  BY DEF ec_sign_update
<1>2. sign \in Signers /\ sign.m \in Messages
  BY DEF IInv, Typed, Signers
<1>3. sign.m \o chunk \in Messages
  BY <1>1, <1>2, HashAssumption
<1> DEFINE m == sign.m \o chunk
<1>4. sign' = [sign EXCEPT !.m = m] /\ m \in Messages
  BY <1>1, <1>3
<1> HIDE DEF m
<1>5. /\ sign' \in Signers /\ sign'.pc = "open" /\ sign'.pre = sign.pre /\ sign'.k = sign.k
      /\ sign'.finals = sign.finals
  BY <1>1, <1>2, <1>4 DEF Signers
<1>6. sign.finals = 0
  BY <1>1 DEF IInv, Signing
<1> QED
  BY <1>1, <1>5, <1>6, SignerStep

\* finalize refuses, or the random source fails.
LEMMA SignStopsStep ==
  ASSUME IInv, SignRefused \/ DrawFails
  PROVE  IInv'
<1>1. sign' = NoSign /\ UNCHANGED <<keys, sig, verify, exited>>
  BY DEF SignRefused, DrawFails
<1>2. sign' \in Signers /\ sign'.pc = "closed"
  BY <1>1, FreshTypes DEF NoSign
<1> QED
  BY <1>1, <1>2, SignerStep

\* finalize reaches the label restart with e.
LEMMA SignReachesStep ==
  ASSUME IInv, NEW e \in Nat, SignReachesRestart(e), conf.alg \in Looping,
         SignNumber'
  PROVE  IInv'
<1>1. /\ sign.pc = "open" /\ sign' = [sign EXCEPT !.pc = "draw", !.e = e]
      /\ UNCHANGED <<keys, sig, verify, exited>>
  BY DEF SignReachesRestart
<1>2. sign \in Signers
  BY DEF IInv, Typed
<1>3. sign' \in Signers /\ sign'.pc = "draw" /\ sign'.pre = sign.pre /\ sign'.k = sign.k
  BY <1>1, <1>2 DEF Signers, SignPcs
<1> QED
  BY <1>1, <1>3, SignerStep

\* An attempt goes back to the label restart.
LEMMA SignRestartsStep ==
  ASSUME IInv, NEW redone \in Signers, SignRestarts(redone), sign.pc = "draw",
         redone.pc = "draw", redone.pre = sign.pre, redone.k = sign.k,
         ~redone.redo => SignNumber'
  PROVE  IInv'
<1>1. sign' = redone /\ UNCHANGED <<keys, sig, verify, exited>>
  BY DEF SignRestarts
<1>2. conf.alg \in Looping
  BY DEF IInv, Signing
<1> QED
  BY <1>1, <1>2, SignerStep

\* sign_finalize returns a signature.
LEMMA SignReturnsStep ==
  ASSUME IInv, sign.pc # "closed", NEW r \in Nat, NEW s \in Nat, SignReturns(r, s),
         conf.alg = "ECFSDSA" => r \in Residues,
         Coherent /\ ~sign.redo => Valid(pub.y, sign.m, r, s)
  PROVE  IInv'
<1>1. /\ sig' = [r |-> r, s |-> s, of |-> sign.m, redo |-> sign.redo] /\ sign' = NoSign
      /\ UNCHANGED <<conf, priv, pub, pair, verify, exited>>
  BY DEF SignReturns, keys
<1>2. verify = NoVerify /\ sign.m \in Messages /\ sign.redo \in BOOLEAN
  BY DEF IInv, Signing, Typed, Signers
<1>3. Typed'
  <2>1. sig' \in Signed /\ sig'.r = r
    BY <1>1, <1>2 DEF Signed
  <2>2. sign' \in Signers
    BY <1>1, FreshTypes
  <2> QED
    BY <1>1, <2>1, <2>2 DEF IInv, Typed, KeyTypes
<1>4. Signing'
  BY <1>1 DEF Signing, NoSign
<1>5. WholePairCoherent'
  BY <1>1 DEF IInv, WholePairCoherent, Coherent
<1>6. SignatureValid'
  <2>1. Coherent' <=> Coherent
    BY <1>1 DEF Coherent
  <2>2. sig'.r = r /\ sig'.s = s /\ sig'.of = sign.m /\ sig'.redo = sign.redo /\ pub' = pub
    BY <1>1
  <2> QED
    BY <1>1, <2>1, <2>2, ValidSame DEF SignatureValid
<1>7. Verifying' /\ VerdictCorrect' /\ SignedIsAccepted'
  <2>1. verify'.pc = "closed" /\ verify'.sig.of = NoMsg
    BY <1>1, <1>2 DEF NoVerify, NoSig
  <2> QED
    BY <2>1 DEF Verifying, VerdictCorrect, SignedIsAccepted
<1> QED
  BY <1>3, <1>4, <1>5, <1>6, <1>7 DEF IInv

\* What a verifier may be given.
Given(in) ==
  /\ in \in Signed /\ (in = sig \/ in.of = NoMsg)
  /\ conf.alg = "ECFSDSA" => in.r \in 0..q

\* The prefix a verifier has to begin with, and what its init has to check.
VerifyFits(in, pre) ==
  /\ conf.alg \in Plain => pre = NoPrefix /\ in.r \in Scalars
  /\ conf.alg = "ECKCDSA" => pub.y \in Scalars /\ pre = z_of(pub.y)
  /\ conf.alg = "ECFSDSA" => pre = <<"xy", in.r>> /\ in.r \in Scalars
  /\ conf.alg \in Sdsa =>
       LET W == uG_vY(in.s, nn_mod_neg(in.r))
       IN  pub.y # NoPoint /\ W # 0 /\ in.r % q # 0 /\ pre = W_prefix(conf.alg, W)

\* A verifier opens, refuses or is wiped.  No signer is open, the keys stay.
LEMMA VerifierStep ==
  ASSUME IInv, sign.pc = "closed", KeysUsed, UNCHANGED <<sign, sig, exited>>, verify' \in Verifiers,
         Verifying', VerdictCorrect', SignedIsAccepted'
  PROVE  IInv'
<1>1. UNCHANGED <<conf, priv, pub>> /\ pair' = "none"
  BY DEF KeysUsed
<1>2. Typed'
  BY <1>1 DEF IInv, Typed, KeyTypes, Pairs
<1>3. Signing' /\ WholePairCoherent'
  BY <1>1 DEF Signing, WholePairCoherent
<1>4. SignatureValid'
  <2>1. Coherent' <=> Coherent
    BY <1>1 DEF Coherent
  <2> QED
    BY <1>1, <2>1, ValidSame DEF IInv, SignatureValid
<1> QED
  BY <1>2, <1>3, <1>4 DEF IInv

\* verify_init opens a session.
LEMMA VerifyOpensStep ==
  ASSUME IInv, Verifiable, NEW in, Given(in), in.s \in Scalars, NEW pre \in Prefixes,
         VerifyFits(in, pre), VerifyOpens(in, pre)
  PROVE  IInv'
<1>1. /\ verify' = [NoVerify EXCEPT !.pc = "open", !.pre = pre, !.sig = in]
      /\ KeysUsed /\ UNCHANGED <<sign, sig, exited>> /\ in \in Signed
      /\ sign.pc = "closed" /\ exited = "no" /\ pub.type = conf.alg
  BY DEF VerifyOpens, Given, Verifiable, Idle
<1>2. UNCHANGED <<conf, priv, pub>>
  BY <1>1 DEF KeysUsed
<1>3. verify' \in Verifiers
  BY <1>1, FreshTypes
<1>4. verify'.pc = "open" /\ verify'.pre = pre /\ verify'.sig = in
  BY <1>1 DEF NoVerify
<1>5. Verifying'
  <2>1. VerifyPrefix'
    BY <1>2, <1>4, PrefixSame DEF VerifyPrefix, VerifyFits, uG_vY
  <2>2. in.of # NoMsg => in = sig'
    BY <1>1 DEF Given
  <2> QED
    BY <1>1, <1>2, <1>4, <2>1, <2>2 DEF Verifying
<1>6. VerdictCorrect'
  BY <1>4 DEF VerdictCorrect
<1>7. SignedIsAccepted'
  BY <1>1, <1>4 DEF SignedIsAccepted
<1> QED
  BY <1>1, <1>3, <1>5, <1>6, <1>7, VerifierStep

\* verify_init refuses what is valid for no message.
LEMMA VerifyRefusedStep ==
  ASSUME IInv, Verifiable, NEW in, Given(in), VerifyRefused(in),
         pub.y # NoPoint => \A msg \in Messages : ~Valid(pub.y, msg, in.r, in.s)
  PROVE  IInv'
<1>1. /\ verify' = [NoVerify EXCEPT !.pc = "refused", !.sig = in]
      /\ KeysUsed /\ UNCHANGED <<sign, sig, exited>> /\ in \in Signed
      /\ sign.pc = "closed" /\ exited = "no" /\ pub.type = conf.alg
  BY DEF VerifyRefused, Given, Verifiable, Idle
<1>2. UNCHANGED <<conf, priv, pub>>
  BY <1>1 DEF KeysUsed
<1>3. verify' \in Verifiers
  BY <1>1, FreshTypes
<1>4. verify'.pc = "refused" /\ verify'.sig = in
  BY <1>1 DEF NoVerify
<1>5. in.of # NoMsg => in = sig
  BY DEF Given
<1>6. Verifying'
  BY <1>1, <1>2, <1>4, <1>5 DEF Verifying
<1>7. VerdictCorrect'
  BY <1>2, <1>4, ValidSame DEF VerdictCorrect
<1>8. SignedIsAccepted'
  <2>1. ASSUME in.of # NoMsg, Coherent, ~in.redo
        PROVE  FALSE
    <3>1. sig \in Signed /\ SignatureValid
      BY DEF IInv, Typed
    <3>2. sig.of \in Messages /\ pub.y # NoPoint
      BY <1>5, <2>1, <3>1 DEF Signed, Coherent
    <3>3. Valid(pub.y, sig.of, sig.r, sig.s)
      BY <1>5, <2>1, <3>1 DEF SignatureValid
    <3> QED
      BY <1>5, <2>1, <3>2, <3>3
  <2>2. Coherent' <=> Coherent
    BY <1>2 DEF Coherent
  <2> QED
    BY <1>4, <2>1, <2>2 DEF SignedIsAccepted
<1> QED
  BY <1>1, <1>3, <1>6, <1>7, <1>8, VerifierStep

\* verify_init fails for another reason.
LEMMA VerifyInitFailsStep ==
  ASSUME IInv, ec_verify_init_fails
  PROVE  IInv'
<1>1. verify' = NoVerify /\ KeysUsed /\ UNCHANGED <<sign, sig, exited>> /\ sign.pc = "closed"
  BY DEF ec_verify_init_fails
<1>2. verify' \in Verifiers /\ verify'.pc = "closed" /\ verify'.sig.of = NoMsg
  BY <1>1, FreshTypes DEF NoVerify, NoSig
<1>3. Verifying' /\ VerdictCorrect' /\ SignedIsAccepted'
  BY <1>2 DEF Verifying, VerdictCorrect, SignedIsAccepted
<1> QED
  BY <1>1, <1>2, <1>3, VerifierStep

\* An open verifier takes a piece of the message or comes to its verdict.
LEMMA VerifierMoves ==
  ASSUME IInv, Idle, verify.pc = "open", UNCHANGED <<keys, sign, sig, exited>>,
         verify' \in Verifiers, verify'.pre = verify.pre, verify'.sig = verify.sig,
         \/ verify'.pc = "open"
         \/ /\ verify'.pc \in {"accepted", "rejected"} /\ pub.y # NoPoint
            /\ verify'.pc = "accepted"
                 <=> Valid(pub.y, verify.m, verify.sig.r, verify.sig.s)
            /\ verify'.m = verify.m
  PROVE  IInv'
<1>1. UNCHANGED <<conf, priv, pub, pair, sign, sig, exited>> /\ exited = "no"
  BY DEF keys, Idle
<1>2. sign.pc = "closed"
  BY DEF IInv, Signing, NoVerify
<1>3. Typed'
  BY <1>1 DEF IInv, Typed, KeyTypes
<1>4. Signing'
  BY <1>1, <1>2 DEF Signing
<1>5. Coherent' <=> Coherent
  BY <1>1 DEF Coherent
<1>6. WholePairCoherent' /\ SignatureValid'
  BY <1>1, <1>5, ValidSame DEF IInv, WholePairCoherent, SignatureValid
<1>7. Verifying'
  <2>1. VerifyPrefix' <=> VerifyPrefix
    BY <1>1, PrefixSame DEF VerifyPrefix, uG_vY
  <2> QED
    BY <1>1, <2>1 DEF IInv, Verifying
<1>8. VerdictCorrect'
  BY <1>1, ValidSame DEF VerdictCorrect
<1>9. SignedIsAccepted'
  <2>1. ASSUME verify.sig.of # NoMsg, Coherent, ~verify.sig.redo, verify.m = verify.sig.of
        PROVE  Valid(pub.y, verify.m, verify.sig.r, verify.sig.s)
    <3>1. verify.sig = sig /\ SignatureValid
      BY <2>1 DEF IInv, Verifying
    <3> QED
      BY <2>1, <3>1 DEF SignatureValid
  <2> QED
    BY <1>1, <1>5, <2>1 DEF SignedIsAccepted
<1> QED
  BY <1>3, <1>4, <1>6, <1>7, <1>8, <1>9 DEF IInv

\* verify_update takes a piece of the message.
LEMMA VerifyUpdateStep ==
  ASSUME IInv, NEW chunk \in Chunks, ec_verify_update(chunk)
  PROVE  IInv'
<1> DEFINE m == verify.m \o chunk
<1>1. /\ Idle /\ verify.pc = "open" /\ verify' = [verify EXCEPT !.m = m]
      /\ UNCHANGED <<keys, sign, sig, exited>> /\ Len(m) <= MaxLen
  BY DEF ec_verify_update
<1>2. verify \in Verifiers /\ verify.m \in Messages
  BY DEF IInv, Typed, Verifiers
<1>3. m \in Messages
  BY <1>1, <1>2, HashAssumption
<1> HIDE DEF m
<1>4. /\ verify' \in Verifiers /\ verify'.pc = "open"
      /\ verify'.pre = verify.pre /\ verify'.sig = verify.sig
  BY <1>1, <1>2, <1>3 DEF Verifiers
<1> QED
  BY <1>1, <1>4, VerifierMoves

\* verify_finalize accepts what is valid, and nothing else.
LEMMA VerdictStep ==
  ASSUME IInv, NEW accepted, accepted \in BOOLEAN, Verdict(accepted), pub.y # NoPoint,
         accepted <=> Valid(pub.y, verify.m, verify.sig.r, verify.sig.s)
  PROVE  IInv'
<1> DEFINE pc == IF accepted THEN "accepted" ELSE "rejected"
<1>1. /\ Idle /\ verify.pc = "open" /\ verify' = [verify EXCEPT !.pc = pc]
      /\ UNCHANGED <<keys, sign, sig, exited>>
  BY DEF Verdict
<1>2. verify \in Verifiers
  BY DEF IInv, Typed
<1>3. pc \in {"accepted", "rejected"} /\ (pc = "accepted" <=> accepted)
  OBVIOUS
<1> HIDE DEF pc
<1>4. /\ verify' \in Verifiers /\ verify'.pc = pc /\ verify'.m = verify.m
      /\ verify'.pre = verify.pre /\ verify'.sig = verify.sig
  BY <1>1, <1>2, <1>3 DEF Verifiers, VerifyPcs
<1> QED
  BY <1>1, <1>3, <1>4, VerifierMoves

\* The verdict that VerdictOn comes to, if W is the only k that fits.
LEMMA VerdictOnStep ==
  ASSUME IInv, NEW W \in Residues, NEW accepted, accepted \in BOOLEAN, VerdictOn(W, accepted),
         pub.y # NoPoint /\ W # 0 =>
           (accepted <=> Valid(pub.y, verify.m, verify.sig.r, verify.sig.s)),
         pub.y # NoPoint /\ pub.y # 0 /\ W = 0 =>
           ~Valid(pub.y, verify.m, verify.sig.r, verify.sig.s)
  PROVE  IInv'
<1>1. CASE pub.y = NoPoint
  <2>1. Exits("unset") /\ "unset" \in ExitCodes
    BY <1>1 DEF VerdictOn, ExitCodes
  <2> QED
    BY <2>1, ExitStep
<1>2. CASE pub.y # NoPoint /\ W = 0
  <2>1. Exits("infinity") /\ "infinity" \in ExitCodes
    BY <1>2 DEF VerdictOn, ExitCodes
  <2>2. ASSUME verify.sig.of # NoMsg, Coherent, ~verify.sig.redo, verify.m = verify.sig.of,
               pub.y # 0
        PROVE  FALSE
    <3>1. verify.sig = sig /\ SignatureValid
      BY <2>2 DEF IInv, Verifying
    <3>2. Valid(pub.y, verify.m, verify.sig.r, verify.sig.s)
      BY <2>2, <3>1 DEF SignatureValid
    <3> QED
      BY <1>2, <2>2, <3>2
  <2> QED
    BY <2>1, <2>2, ExitStep
<1>3. CASE pub.y # NoPoint /\ W # 0
  <2>1. Verdict(accepted)
    BY <1>3 DEF VerdictOn
  <2> QED
    BY <1>3, <2>1, VerdictStep
<1> QED
  BY <1>1, <1>2, <1>3

-----------------------------------------------------------------------------
(* ECDSA.                                                                    *)

\* What the contexts hold in the states of the invariant.
LEMMA SignTypes ==
  ASSUME IInv
  PROVE  /\ conf \in Confs /\ sign \in Signers /\ sign.pre \in Prefixes /\ sign.m \in Messages
         /\ sign.e \in Nat /\ sign.k \in Scalars /\ Digest(sign) \in Nat
         /\ priv.x \in Nat /\ pub.y \in Nat /\ pub.y \in Residues \cup {NoPoint}
         /\ conf.source \subseteq Scalars
         /\ sign.pc # "closed" => KeysMatch /\ SignPrefix
<1>1. /\ conf \in Confs /\ sign \in Signers
      /\ priv \in [type : KeyTypes \cup {"none"}, x : Nat]
      /\ pub \in [type : KeyTypes \cup {"none"}, y : Residues \cup {NoPoint}]
  BY DEF IInv, Typed
<1>2. sign.pre \in Prefixes /\ sign.m \in Messages /\ sign.e \in Nat /\ sign.k \in Scalars
  BY <1>1 DEF Signers
<1>3. Digest(sign) \in Nat
  BY <1>2, FirstDigest DEF Digest
<1>4. priv.x \in Nat /\ pub.y \in Nat /\ pub.y \in Residues \cup {NoPoint}
  BY <1>1, CurveAssumption DEF Residues, NoPoint
<1>5. conf.source \subseteq Scalars
  BY <1>1 DEF Confs
<1>6. sign.pc # "closed" => KeysMatch /\ SignPrefix
  BY DEF IInv, Signing
<1> QED
  BY <1>1, <1>2, <1>3, <1>4, <1>5, <1>6

\* What an open verifier holds.
LEMMA VerifyTypes ==
  ASSUME IInv, verify.pc = "open"
  PROVE  /\ conf \in Confs /\ verify \in Verifiers /\ verify.m \in Messages
         /\ verify.pre \in Prefixes /\ Digest(verify) \in Nat
         /\ verify.sig.r \in Nat /\ verify.sig.s \in Scalars /\ verify.sig.s \in Nat
         /\ pub.y \in Nat /\ VerifyPrefix /\ pub.type = conf.alg
<1>1. /\ conf \in Confs /\ verify \in Verifiers
      /\ pub \in [type : KeyTypes \cup {"none"}, y : Residues \cup {NoPoint}]
  BY DEF IInv, Typed
<1>2. verify.pre \in Prefixes /\ verify.m \in Messages /\ verify.sig \in Signed
  BY <1>1 DEF Verifiers
<1>3. Digest(verify) \in Nat
  BY <1>2, FirstDigest DEF Digest
<1>4. pub.y \in Nat
  BY <1>1, CurveAssumption DEF Residues, NoPoint
<1>5. verify.sig.r \in Nat /\ verify.sig.s \in Nat
  BY <1>2 DEF Signed
<1>6. verify.sig.s \in Scalars /\ VerifyPrefix /\ pub.type = conf.alg
  BY DEF IInv, Verifying
<1> QED
  BY <1>1, <1>2, <1>3, <1>4, <1>5, <1>6

\* The numbers of an attempt, and what it is to be coherent, in ECDSA.
LEMMA EcdsaAttemptEquation ==
  ASSUME IInv, conf.alg = "ECDSA", NEW k \in Scalars, NEW b \in Scalars, Draws(k, b)
  PROVE  LET r == ecdsa_r(k)
             s == ecdsa_s((sign.e * b) % q, k, b, r)
         IN  /\ r \in Residues /\ s \in Residues
             /\ Coherent /\ ~sign.redo => R(s * k) = R(ecdsa_e(sign) + pub.y * r)
<1> DEFINE r == ecdsa_r(k)
           s == ecdsa_s((sign.e * b) % q, k, b, r)
<1>1. r \in Residues /\ r \in Nat
  <2>1. Abscissa(k) \in Nat
    BY SignTypes, AbscissaType
  <2> QED
    BY <2>1, ResType DEF ecdsa_r, R, Residues
<1> HIDE DEF r
<1>2. s = R(nn_modinv(R(k * b)) * R(R(priv.x * R(r * b)) + R(sign.e * b)))
  BY DEF ecdsa_s, ecdsa_xr, R
<1> HIDE DEF s
<1> DEFINE x == priv.x
           e == sign.e
<1>3. x \in Nat /\ e \in Nat /\ s = R(nn_modinv(R(k * b)) * R(R(x * R(r * b)) + R(e * b)))
  BY <1>2, SignTypes
<1> HIDE DEF x, e
<1>4. ASSUME NEW y \in Nat, R(x) = R(y)
      PROVE  s \in Residues /\ R(s * k) = R(e + y * r)
  BY ONLY <1>1, <1>3, <1>4, k \in Scalars, b \in Scalars, EcdsaEquation
<1>5. ASSUME Coherent, ~sign.redo
      PROVE  R(s * k) = R(ecdsa_e(sign) + pub.y * r)
  <2>1. sign.pc = "draw"
    BY DEF Draws
  <2>2. pub.y = R(x) /\ pub.y \in Nat
    <3>1. priv.type = "ECDSA"
      BY <2>1, SignTypes DEF KeysMatch
    <3> QED
      BY <1>5, <3>1, SignTypes DEF Coherent, R, x
  <2>3. R(x) = R(pub.y)
    BY <1>3, <2>2, ResType
  <2>4. e = ecdsa_e(sign)
    BY <1>5, <2>1 DEF IInv, Signing, SignNumber, e
  <2> DEFINE y == pub.y
  <2>5. y \in Nat /\ R(x) = R(y)
    BY <2>2, <2>3
  <2> HIDE DEF y
  <2>6. R(s * k) = R(e + y * r)
    BY <1>4, <2>5
  <2> QED
    BY <2>4, <2>6 DEF y
<1> QED
  BY <1>1, <1>3, <1>4, <1>5 DEF r, s

\* What a signature is in ECDSA.
LEMMA EcdsaMeans ==
  ASSUME conf.alg = "ECDSA", NEW y, NEW msg, NEW r, NEW s
  PROVE  Valid(y, msg, r, s)
           <=> \E k \in Scalars :
                 /\ r = ecdsa_r(k) /\ r # 0 /\ s \in Scalars
                 /\ EcdsaFits(k, ecdsa_e([pre |-> NoPrefix, m |-> msg]), y, r, s)
<1>1. Valid(y, msg, r, s) <=> EcdsaValid(y, msg, r, s)
  BY DEF Valid, Sdsa
<1> QED
  BY <1>1 DEF EcdsaValid, EcdsaFits, R

\* An attempt of ECDSA restarts, or returns a signature.
LEMMA EcdsaAttemptStep ==
  ASSUME IInv, NEW k \in Scalars, NEW b \in Scalars, EcdsaAttempt(k, b)
  PROVE  IInv'
<1> DEFINE r == ecdsa_r(k)
           e == (sign.e * b) % q
           s == ecdsa_s(e, k, b, r)
           redone == [sign EXCEPT !.e = e, !.redo = sign.redo \/ conf.blinding]
<1>1. conf.alg = "ECDSA" /\ Draws(k, b) /\ sign.pc = "draw"
  BY DEF EcdsaAttempt, Draws
<1>2. /\ r \in Residues /\ s \in Residues
      /\ Coherent /\ ~sign.redo => R(s * k) = R(ecdsa_e(sign) + pub.y * r)
  BY <1>1, EcdsaAttemptEquation
<1>3. e \in Residues
  <2>1. sign.e * b \in Nat
    <3>1. sign.e \in Nat /\ b \in Nat
      BY SignTypes, CurveAssumption DEF Scalars
    <3> QED
      BY <3>1, SMT
  <2> QED
    BY <2>1, ResType DEF R
<1>4. \/ r = 0 /\ SignRestarts(sign)
      \/ SignRestarts(redone)
      \/ r # 0 /\ s # 0 /\ SignReturns(r, s)
  BY DEF EcdsaAttempt
<1> HIDE DEF r, s
<1>5. CASE SignRestarts(sign)
  <2>1. sign \in Signers /\ sign' = sign
    BY <1>5, SignTypes DEF SignRestarts
  <2>2. ~sign.redo => SignNumber'
    <3>1. UNCHANGED conf
      BY <1>5 DEF SignRestarts, keys
    <3> QED
      BY <1>1, <2>1, <3>1 DEF IInv, Signing, SignNumber, Digest, ecdsa_e
  <2> QED
    BY <1>1, <1>5, <2>1, <2>2, SignRestartsStep
<1>6. CASE SignRestarts(redone)
  <2>1. sign \in Signers /\ conf \in Confs
    BY SignTypes
  <2>2. redone \in Signers
    <3>1. e \in Nat /\ conf.blinding \in BOOLEAN
      BY <1>3, <2>1, CurveAssumption DEF Confs, Residues
    <3> HIDE DEF e
    <3> QED
      BY <2>1, <3>1 DEF Signers
  <2>3. redone.pc = "draw" /\ redone.pre = sign.pre /\ redone.k = sign.k
    BY <1>1, <2>1 DEF Signers
  <2>4. ~redone.redo => SignNumber'
    <3>1. ASSUME ~redone.redo
          PROVE  ~sign.redo /\ b = 1
      BY <1>1, <2>1, <3>1 DEF Signers, Confs, Draws
    <3>2. ASSUME ~redone.redo
          PROVE  redone.e = ecdsa_e(sign)
      <4>1. sign.e = ecdsa_e(sign)
        BY <1>1, <3>1, <3>2 DEF IInv, Signing, SignNumber
      <4>2. sign.e \in Residues /\ sign.e \in Nat
        BY <4>1, SignTypes, EcdsaNumber
      <4>3. e = R(sign.e)
        <5>1. sign.e * b = sign.e
          BY <3>1, <3>2, <4>2
        <5> QED
          BY <5>1 DEF R
      <4>4. e = sign.e
        BY <4>2, <4>3, ResType
      <4> QED
        BY <2>1, <4>1, <4>4 DEF Signers
    <3>3. sign' = redone /\ UNCHANGED conf
      BY <1>6 DEF SignRestarts, keys
    <3>4. ecdsa_e(redone) = ecdsa_e(sign)
      BY <2>1 DEF ecdsa_e, Digest, Signers
    <3>5. ecdsa_e(sign)' = ecdsa_e(redone)
      BY <3>3 DEF ecdsa_e, Digest
    <3> HIDE DEF redone
    <3> QED
      BY <1>1, <3>2, <3>3, <3>4, <3>5 DEF SignNumber
  <2> HIDE DEF redone
  <2> QED
    BY <1>1, <1>6, <2>2, <2>3, <2>4, SignRestartsStep
<1>7. CASE r # 0 /\ s # 0 /\ SignReturns(r, s)
  <2>1. r \in Nat /\ s \in Nat /\ s \in Scalars
    BY <1>2, <1>7, CurveAssumption DEF Residues, Scalars
  <2>2. ASSUME Coherent, ~sign.redo
        PROVE  Valid(pub.y, sign.m, r, s)
    <3>1. sign.pre = NoPrefix
      BY <1>1, SignTypes DEF SignPrefix, Plain
    <3>2. ecdsa_e([pre |-> NoPrefix, m |-> sign.m]) = ecdsa_e(sign)
      BY <3>1 DEF ecdsa_e, Digest
    <3>3. EcdsaFits(k, ecdsa_e([pre |-> NoPrefix, m |-> sign.m]), pub.y, r, s)
      BY <1>2, <2>2, <3>2 DEF EcdsaFits
    <3> QED
      BY <1>1, <1>7, <2>1, <3>3, EcdsaMeans DEF r
  <2> QED
    BY <1>1, <1>7, <2>1, <2>2, SignReturnsStep
<1> QED
  BY <1>4, <1>5, <1>6, <1>7

\* The numbers of the verifier: W' is the only k that fits.
LEMMA EcdsaVerdict ==
  ASSUME IInv, conf.alg = "ECDSA", verify.pc = "open", NEW W,
         W = IF pub.y = 0 THEN 0 ELSE ecdsa_W_prime(verify)
  PROVE  /\ W \in Residues
         /\ pub.y # 0 \/ W # 0 =>
              (Valid(pub.y, verify.m, verify.sig.r, verify.sig.s)
                 <=> W # 0 /\ ecdsa_r(W) = verify.sig.r)
<1>1. /\ pub.y \in Nat /\ verify.sig.s \in Scalars /\ verify.sig.r \in Nat /\ 0 \in Residues
      /\ verify.sig.r \in Scalars /\ verify.pre = NoPrefix
  BY VerifyTypes, CurveAssumption DEF VerifyPrefix, Plain, Residues
<1> DEFINE e == ecdsa_e(verify)
           s == verify.sig.s
           r == verify.sig.r
           y == pub.y
<1>2. e \in Nat /\ s \in Scalars /\ r \in Nat /\ y \in Nat
  BY <1>1, VerifyTypes, EcdsaNumber DEF Residues
<1>3. CASE pub.y # 0
  <2>1. W = Quotient(s, e, r, y)
    BY <1>3 DEF ecdsa_W_prime, uG_vY, Quotient, R
  <2> HIDE DEF e, s, r, y
  <2>2. /\ W \in Residues
        /\ \A k \in Residues : EcdsaFits(k, e, y, r, s) <=> k = W
    BY ONLY <1>2, <2>1, EcdsaUnique
  <2>3. ecdsa_e([pre |-> NoPrefix, m |-> verify.m]) = e
    BY <1>1 DEF ecdsa_e, Digest, e
  <2>4. \A k \in Scalars : k \in Residues
    BY CurveAssumption DEF Scalars, Residues
  <2>5. Valid(pub.y, verify.m, verify.sig.r, verify.sig.s)
          <=> \E k \in Scalars : r = ecdsa_r(k) /\ r # 0 /\ s \in Scalars /\ EcdsaFits(k, e, y, r, s)
    BY <2>3, EcdsaMeans DEF s, r, y
  <2>6. r # 0 /\ (W # 0 => W \in Scalars) /\ 0 \notin Scalars
    BY <1>1, <2>2, CurveAssumption DEF r, Scalars, Residues
  <2>7. Valid(pub.y, verify.m, verify.sig.r, verify.sig.s) <=> W \in Scalars /\ ecdsa_r(W) = r
    BY <1>2, <2>2, <2>4, <2>5, <2>6
  <2> QED
    BY <2>2, <2>6, <2>7 DEF r
<1>4. CASE pub.y = 0
  BY <1>1, <1>4
<1> QED
  BY <1>3, <1>4

\* The verifier refuses numbers out of ]0,q[, which no signature consists of.
LEMMA EcdsaVerifyInitStep ==
  ASSUME IInv, NEW in, Given(in), _ecdsa_verify_init(in)
  PROVE  IInv'
<1>1. conf.alg = "ECDSA" /\ Verifiable
  BY DEF _ecdsa_verify_init
<1>2. CASE in.r \in Scalars /\ in.s \in Scalars
  <2>1. VerifyOpens(in, NoPrefix) /\ NoPrefix \in Prefixes
    BY <1>2 DEF _ecdsa_verify_init, Prefixes
  <2>2. VerifyFits(in, NoPrefix)
    BY <1>1, <1>2 DEF VerifyFits, Plain, Sdsa
  <2> QED
    BY <1>1, <1>2, <2>1, <2>2, VerifyOpensStep
<1>3. CASE ~ (in.r \in Scalars /\ in.s \in Scalars)
  <2>1. VerifyRefused(in)
    BY <1>3 DEF _ecdsa_verify_init
  <2>2. ASSUME NEW msg \in Messages, Valid(pub.y, msg, in.r, in.s)
        PROVE  FALSE
    <3> DEFINE y == pub.y
               r == in.r
               s == in.s
    <3>3. Valid(y, msg, r, s)
      BY <2>2
    <3> HIDE DEF y, r, s
    <3>4. PICK k \in Scalars :
            /\ r = ecdsa_r(k) /\ r # 0 /\ s \in Scalars
            /\ EcdsaFits(k, ecdsa_e([pre |-> NoPrefix, m |-> msg]), y, r, s)
      BY <1>1, <3>3, EcdsaMeans
    <3>1. k \in Scalars /\ in.r = ecdsa_r(k) /\ in.r # 0 /\ in.s \in Scalars
      BY <3>4 DEF r, s
    <3>2. ecdsa_r(k) \in Residues
      <4>1. Abscissa(k) \in Nat
        BY SignTypes, AbscissaType
      <4> QED
        BY <4>1, ResType DEF ecdsa_r, R
    <3> QED
      BY <1>3, <3>1, <3>2, CurveAssumption DEF Residues, Scalars
  <2> QED
    BY <1>1, <2>1, <2>2, VerifyRefusedStep
<1> QED
  BY <1>2, <1>3

\* Every step of ECDSA preserves the invariant.
LEMMA EcdsaStep ==
  ASSUME IInv, EcdsaNext
  PROVE  IInv'
<1>1. CASE _ecdsa_sign_init
  <2>1. conf.alg = "ECDSA" /\ SignOpens(NoPrefix, 1)
    BY <1>1 DEF _ecdsa_sign_init
  <2>2. NoPrefix \in Prefixes /\ 1 \in Scalars
    BY CurveAssumption DEF Prefixes, Scalars
  <2>3. PrefixFits(NoPrefix, 1)
    BY <2>1 DEF PrefixFits, Plain, Sdsa
  <2> QED
    BY <2>1, <2>2, <2>3, OpenStep
<1>2. ASSUME NEW chunk \in Chunks, _ecdsa_sign_update(chunk)
      PROVE  IInv'
  BY <1>2, SignUpdateStep DEF _ecdsa_sign_update
<1>3. ASSUME NEW siglen, _ecdsa_sign_finalize(siglen)
      PROVE  IInv'
  <2>1. CASE SignRefused
    BY <2>1, SignStopsStep
  <2>2. CASE SignReachesRestart(ecdsa_e(sign))
    <3>1. ecdsa_e(sign) \in Nat
      BY SignTypes, EcdsaNumber, CurveAssumption DEF Residues
    <3>2. conf.alg = "ECDSA" /\ conf' = conf /\ conf.alg \in Looping
      BY <1>3, <2>2 DEF _ecdsa_sign_finalize, SignReachesRestart, keys, Looping
    <3>3. sign' = [sign EXCEPT !.pc = "draw", !.e = ecdsa_e(sign)]
      BY <2>2 DEF SignReachesRestart
    <3>4. sign'.e = ecdsa_e(sign) /\ sign'.pre = sign.pre /\ sign'.m = sign.m
      BY <3>3, SignTypes DEF Signers
    <3>5. ecdsa_e(sign)' = ecdsa_e(sign)
      BY <3>4 DEF ecdsa_e, Digest
    <3>6. SignNumber'
      BY <3>2, <3>4, <3>5 DEF SignNumber
    <3> QED
      BY <2>2, <3>1, <3>2, <3>6, SignReachesStep
  <2> QED
    BY <1>3, <2>1, <2>2 DEF _ecdsa_sign_finalize
<1>4. ASSUME NEW k \in Scalars, NEW b \in Scalars, EcdsaAttempt(k, b)
      PROVE  IInv'
  BY <1>4, EcdsaAttemptStep
<1>5. ASSUME NEW chunk \in Chunks, _ecdsa_verify_update(chunk)
      PROVE  IInv'
  BY <1>5, VerifyUpdateStep DEF _ecdsa_verify_update
<1>6. CASE _ecdsa_verify_finalize
  <2> DEFINE W == IF pub.y = 0 THEN 0 ELSE ecdsa_W_prime(verify)
             accepted == ecdsa_r(W) = verify.sig.r
  <2>1. conf.alg = "ECDSA" /\ VerdictOn(W, accepted) /\ accepted \in BOOLEAN
    BY <1>6 DEF _ecdsa_verify_finalize
  <2>2. verify.pc = "open"
    BY <2>1 DEF VerdictOn
  <2>3. /\ W \in Residues
        /\ pub.y # 0 \/ W # 0 =>
             (Valid(pub.y, verify.m, verify.sig.r, verify.sig.s)
                <=> W # 0 /\ ecdsa_r(W) = verify.sig.r)
    BY <2>1, <2>2, EcdsaVerdict
  <2>4. accepted <=> ecdsa_r(W) = verify.sig.r
    OBVIOUS
  <2> HIDE DEF W, accepted
  <2> QED
    BY <2>1, <2>3, <2>4, VerdictOnStep
<1> QED
  BY <1>1, <1>2, <1>3, <1>4, <1>5, <1>6 DEF EcdsaNext

-----------------------------------------------------------------------------
(* EC-GDSA.                                                                  *)

\* What a signature is in EC-GDSA.
LEMMA EcgdsaMeans ==
  ASSUME conf.alg = "ECGDSA", NEW y, NEW msg, NEW r, NEW s
  PROVE  Valid(y, msg, r, s)
           <=> \E k \in Scalars :
                 /\ r = ecgdsa_r(k) /\ r # 0 /\ s \in Scalars
                 /\ EcgdsaFits(k, Hash(NoPrefix, msg, 1), y, r, s)
<1>1. Valid(y, msg, r, s) <=> EcgdsaValid(y, msg, r, s)
  BY DEF Valid, Sdsa
<1> QED
  BY <1>1 DEF EcgdsaValid, EcgdsaFits, R

\* The numbers of an attempt.
LEMMA EcgdsaAttemptEquation ==
  ASSUME IInv, conf.alg = "ECGDSA", NEW k \in Scalars, NEW b \in Scalars, Draws(k, b)
  PROVE  LET r == ecgdsa_r(k)
             s == ecgdsa_s((sign.e * b) % q, k, b, r)
         IN  /\ r \in Residues /\ s \in Residues
             /\ Coherent /\ ~sign.redo => EcgdsaFits(k, Digest(sign), pub.y, r, s)
<1> DEFINE r == ecgdsa_r(k)
           s == ecgdsa_s((sign.e * b) % q, k, b, r)
<1>1. r \in Residues /\ r \in Nat
  <2>1. Abscissa(k) \in Nat
    BY SignTypes, AbscissaType
  <2> QED
    BY <2>1, ResType DEF ecgdsa_r, R, Residues
<1> HIDE DEF r
<1>2. s = R(nn_modinv(b) * R(priv.x * (k * R(r * b) + R(sign.e * b))))
  BY DEF ecgdsa_s, R
<1> HIDE DEF s
<1> DEFINE x == priv.x
           e == sign.e
           h == Digest(sign)
<1>3. /\ x \in Nat /\ e \in Nat /\ h \in Nat
      /\ s = R(nn_modinv(b) * R(x * (k * R(r * b) + R(e * b))))
  BY <1>2, SignTypes
<1> HIDE DEF x, e, h
<1>4. s \in Residues
  <2> DEFINE rb == R(r * b)
             eb == R(e * b)
             t == R(x * (k * rb + eb))
  <2>1. k \in Nat /\ b \in Nat /\ nn_modinv(b) \in Nat
    BY Inverse, CurveAssumption DEF Scalars
  <2>2. r * b \in Nat /\ e * b \in Nat
    BY <1>1, <1>3, <2>1, SMT
  <2>3. rb \in Nat /\ eb \in Nat
    BY <2>2, ResType DEF Residues
  <2> HIDE DEF rb, eb
  <2>4. x * (k * rb + eb) \in Nat
    BY <1>3, <2>1, <2>3, SMT
  <2>5. t \in Nat
    BY <2>4, ResType DEF Residues
  <2> HIDE DEF t
  <2>6. nn_modinv(b) * t \in Nat
    BY <2>1, <2>5, SMT
  <2>7. R(nn_modinv(b) * t) \in Residues
    BY <2>6, ResType
  <2> QED
    BY <1>3, <2>7 DEF t, rb, eb
<1>5. ASSUME Coherent, ~sign.redo
      PROVE  EcgdsaFits(k, h, pub.y, r, s)
  <2> DEFINE y == pub.y
  <2>1. sign.pc = "draw"
    BY DEF Draws
  <2>2. R(x * y) = 1 /\ y \in Nat
    <3>1. priv.type = "ECGDSA"
      BY <2>1, SignTypes DEF KeysMatch
    <3> QED
      BY <1>5, <3>1, SignTypes DEF Coherent, R, x
  <2>3. e = nn_mod_neg(h)
    BY <1>5, <2>1 DEF IInv, Signing, SignNumber, e, h
  <2>4. R(e + h) = 0
    BY <1>3, <2>3, Negative
  <2> HIDE DEF y
  <2>5. R(y * s + h) = R(k * r)
    BY ONLY <1>1, <1>3, <2>2, <2>4, k \in Scalars, b \in Scalars, EcgdsaEquation
  <2> QED
    BY <2>5 DEF y, EcgdsaFits
<1> QED
  BY <1>1, <1>4, <1>5 DEF r, s, h

\* An attempt restarts, or returns a signature.
LEMMA EcgdsaAttemptStep ==
  ASSUME IInv, NEW k \in Scalars, NEW b \in Scalars, EcgdsaAttempt(k, b)
  PROVE  IInv'
<1> DEFINE r == ecgdsa_r(k)
           e == (sign.e * b) % q
           s == ecgdsa_s(e, k, b, r)
           redone == [sign EXCEPT !.e = e, !.redo = sign.redo \/ conf.blinding]
<1>1. conf.alg = "ECGDSA" /\ Draws(k, b) /\ sign.pc = "draw"
  BY DEF EcgdsaAttempt, Draws
<1>2. /\ r \in Residues /\ s \in Residues
      /\ Coherent /\ ~sign.redo => EcgdsaFits(k, Digest(sign), pub.y, r, s)
  BY <1>1, EcgdsaAttemptEquation
<1>3. e \in Residues
  <2>1. sign.e * b \in Nat
    <3>1. sign.e \in Nat /\ b \in Nat
      BY SignTypes, CurveAssumption DEF Scalars
    <3> QED
      BY <3>1, SMT
  <2> QED
    BY <2>1, ResType DEF R
<1>4. \/ r = 0 /\ SignRestarts(sign)
      \/ SignRestarts(redone)
      \/ r # 0 /\ s # 0 /\ SignReturns(r, s)
  BY DEF EcgdsaAttempt
<1> HIDE DEF r, s
<1>5. CASE SignRestarts(sign)
  <2>1. sign \in Signers /\ sign' = sign
    BY <1>5, SignTypes DEF SignRestarts
  <2>2. ~sign.redo => SignNumber'
    <3>1. UNCHANGED conf
      BY <1>5 DEF SignRestarts, keys
    <3> QED
      BY <1>1, <2>1, <3>1 DEF IInv, Signing, SignNumber, Digest
  <2> QED
    BY <1>1, <1>5, <2>1, <2>2, SignRestartsStep
<1>6. CASE SignRestarts(redone)
  <2>1. sign \in Signers /\ conf \in Confs
    BY SignTypes
  <2>2. redone \in Signers
    <3>1. e \in Nat /\ conf.blinding \in BOOLEAN
      BY <1>3, <2>1, CurveAssumption DEF Confs, Residues
    <3> HIDE DEF e
    <3> QED
      BY <2>1, <3>1 DEF Signers
  <2>3. redone.pc = "draw" /\ redone.pre = sign.pre /\ redone.k = sign.k
    BY <1>1, <2>1 DEF Signers
  <2>4. ~redone.redo => SignNumber'
    <3>1. ASSUME ~redone.redo
          PROVE  ~sign.redo /\ b = 1
      BY <1>1, <2>1, <3>1 DEF Signers, Confs, Draws
    <3>2. ASSUME ~redone.redo
          PROVE  redone.e = nn_mod_neg(Digest(sign))
      <4>1. sign.e = nn_mod_neg(Digest(sign))
        BY <1>1, <3>1, <3>2 DEF IInv, Signing, SignNumber
      <4>2. sign.e \in Residues /\ sign.e \in Nat
        BY <4>1, SignTypes, Negative
      <4>3. e = R(sign.e)
        <5>1. sign.e * b = sign.e
          BY <3>1, <3>2, <4>2
        <5> QED
          BY <5>1 DEF R
      <4>4. e = sign.e
        BY <4>2, <4>3, ResType
      <4> QED
        BY <2>1, <4>1, <4>4 DEF Signers
    <3>3. sign' = redone /\ UNCHANGED conf
      BY <1>6 DEF SignRestarts, keys
    <3>4. Digest(redone) = Digest(sign)
      BY <2>1 DEF Digest, Signers
    <3>5. Digest(sign)' = Digest(redone)
      BY <3>3 DEF Digest
    <3> HIDE DEF redone
    <3> QED
      BY <1>1, <3>2, <3>3, <3>4, <3>5 DEF SignNumber
  <2> HIDE DEF redone
  <2> QED
    BY <1>1, <1>6, <2>2, <2>3, <2>4, SignRestartsStep
<1>7. CASE r # 0 /\ s # 0 /\ SignReturns(r, s)
  <2>1. r \in Nat /\ s \in Nat /\ s \in Scalars
    BY <1>2, <1>7, CurveAssumption DEF Residues, Scalars
  <2>2. ASSUME Coherent, ~sign.redo
        PROVE  Valid(pub.y, sign.m, r, s)
    <3>1. sign.pre = NoPrefix
      BY <1>1, SignTypes DEF SignPrefix, Plain
    <3>2. EcgdsaFits(k, Hash(NoPrefix, sign.m, 1), pub.y, r, s)
      BY <1>2, <2>2, <3>1 DEF Digest
    <3> QED
      BY <1>1, <1>7, <2>1, <3>2, EcgdsaMeans DEF r
  <2> QED
    BY <1>1, <1>7, <2>1, <2>2, SignReturnsStep
<1> QED
  BY <1>4, <1>5, <1>6, <1>7

\* The numbers of the verifier: W' is the only k that fits.
LEMMA EcgdsaVerdict ==
  ASSUME IInv, conf.alg = "ECGDSA", verify.pc = "open", NEW W, W = ecgdsa_W_prime(verify)
  PROVE  /\ W \in Residues
         /\ Valid(pub.y, verify.m, verify.sig.r, verify.sig.s)
              <=> W # 0 /\ ecgdsa_r(W) = verify.sig.r
<1>1. /\ pub.y \in Nat /\ verify.sig.s \in Scalars /\ verify.sig.s \in Nat /\ 0 \in Residues
      /\ verify.sig.r \in Scalars /\ verify.pre = NoPrefix
  BY VerifyTypes, CurveAssumption DEF VerifyPrefix, Plain, Residues
<1> DEFINE h == Digest(verify)
           s == verify.sig.s
           r == verify.sig.r
           y == pub.y
<1>2. h \in Nat /\ s \in Scalars /\ s \in Nat /\ r \in Scalars /\ y \in Nat
  BY <1>1, VerifyTypes
<1>3. W = Quotient(r, R(h), s, y)
  BY DEF ecgdsa_W_prime, uG_vY, Quotient, R
<1>4. Hash(NoPrefix, verify.m, 1) = h
  BY <1>1 DEF Digest
<1> HIDE DEF h, s, r, y
<1>5. /\ W \in Residues
      /\ \A k \in Residues : EcgdsaFits(k, h, y, r, s) <=> k = W
  BY ONLY <1>2, <1>3, EcgdsaUnique
<1>6. \A k \in Scalars : k \in Residues
  BY CurveAssumption DEF Scalars, Residues
<1>7. Valid(pub.y, verify.m, verify.sig.r, verify.sig.s)
        <=> \E k \in Scalars : r = ecgdsa_r(k) /\ r # 0 /\ s \in Scalars /\ EcgdsaFits(k, h, y, r, s)
  BY <1>4, EcgdsaMeans DEF s, r, y
<1>8. r # 0 /\ (W # 0 => W \in Scalars) /\ 0 \notin Scalars
  BY <1>2, <1>5, CurveAssumption DEF Scalars, Residues
<1>9. Valid(pub.y, verify.m, verify.sig.r, verify.sig.s) <=> W \in Scalars /\ ecgdsa_r(W) = r
  BY <1>2, <1>5, <1>6, <1>7, <1>8
<1> QED
  BY <1>5, <1>8, <1>9 DEF r

\* The verifier refuses numbers out of ]0,q[, which no signature consists of.
LEMMA EcgdsaVerifyInitStep ==
  ASSUME IInv, NEW in, Given(in), _ecgdsa_verify_init(in)
  PROVE  IInv'
<1>1. conf.alg = "ECGDSA" /\ Verifiable
  BY DEF _ecgdsa_verify_init
<1>2. CASE in.r \in Scalars /\ in.s \in Scalars
  <2>1. VerifyOpens(in, NoPrefix) /\ NoPrefix \in Prefixes
    BY <1>2 DEF _ecgdsa_verify_init, Prefixes
  <2>2. VerifyFits(in, NoPrefix)
    BY <1>1, <1>2 DEF VerifyFits, Plain, Sdsa
  <2> QED
    BY <1>1, <1>2, <2>1, <2>2, VerifyOpensStep
<1>3. CASE ~ (in.r \in Scalars /\ in.s \in Scalars)
  <2>1. VerifyRefused(in)
    BY <1>3 DEF _ecgdsa_verify_init
  <2>2. ASSUME NEW msg \in Messages, Valid(pub.y, msg, in.r, in.s)
        PROVE  FALSE
    <3> DEFINE y == pub.y
               r == in.r
               s == in.s
    <3>1. Valid(y, msg, r, s)
      BY <2>2
    <3> HIDE DEF y, r, s
    <3>2. PICK k \in Scalars :
            /\ r = ecgdsa_r(k) /\ r # 0 /\ s \in Scalars
            /\ EcgdsaFits(k, Hash(NoPrefix, msg, 1), y, r, s)
      BY <1>1, <3>1, EcgdsaMeans
    <3>3. in.r = ecgdsa_r(k) /\ in.r # 0 /\ in.s \in Scalars
      BY <3>2 DEF r, s
    <3>4. ecgdsa_r(k) \in Residues
      <4>1. Abscissa(k) \in Nat
        BY SignTypes, AbscissaType
      <4> QED
        BY <4>1, ResType DEF ecgdsa_r, R
    <3> QED
      BY <1>3, <3>3, <3>4, CurveAssumption DEF Residues, Scalars
  <2> QED
    BY <1>1, <2>1, <2>2, VerifyRefusedStep
<1> QED
  BY <1>2, <1>3

\* Every step of EC-GDSA preserves the invariant.
LEMMA EcgdsaStep ==
  ASSUME IInv, EcgdsaNext
  PROVE  IInv'
<1>1. CASE _ecgdsa_sign_init
  <2>1. conf.alg = "ECGDSA" /\ SignOpens(NoPrefix, 1)
    BY <1>1 DEF _ecgdsa_sign_init
  <2>2. NoPrefix \in Prefixes /\ 1 \in Scalars
    BY CurveAssumption DEF Prefixes, Scalars
  <2>3. PrefixFits(NoPrefix, 1)
    BY <2>1 DEF PrefixFits, Plain, Sdsa
  <2> QED
    BY <2>1, <2>2, <2>3, OpenStep
<1>2. ASSUME NEW chunk \in Chunks, _ecgdsa_sign_update(chunk)
      PROVE  IInv'
  BY <1>2, SignUpdateStep DEF _ecgdsa_sign_update
<1>3. ASSUME NEW siglen, _ecgdsa_sign_finalize(siglen)
      PROVE  IInv'
  <2> DEFINE e == nn_mod_neg(Digest(sign))
  <2>1. CASE SignRefused
    BY <2>1, SignStopsStep
  <2>2. CASE SignReachesRestart(e)
    <3>1. e \in Nat
      BY SignTypes, Negative, CurveAssumption DEF Residues
    <3>2. conf.alg = "ECGDSA" /\ conf' = conf /\ conf.alg \in Looping
      BY <1>3, <2>2 DEF _ecgdsa_sign_finalize, SignReachesRestart, keys, Looping
    <3>3. sign' = [sign EXCEPT !.pc = "draw", !.e = e]
      BY <2>2 DEF SignReachesRestart
    <3>4. sign'.e = e /\ sign'.pre = sign.pre /\ sign'.m = sign.m
      BY <3>3, SignTypes DEF Signers
    <3>5. Digest(sign)' = Digest(sign)
      BY <3>4 DEF Digest
    <3>6. SignNumber'
      BY <3>2, <3>4, <3>5 DEF SignNumber
    <3> QED
      BY <2>2, <3>1, <3>2, <3>6, SignReachesStep
  <2> QED
    BY <1>3, <2>1, <2>2 DEF _ecgdsa_sign_finalize
<1>4. ASSUME NEW k \in Scalars, NEW b \in Scalars, EcgdsaAttempt(k, b)
      PROVE  IInv'
  BY <1>4, EcgdsaAttemptStep
<1>5. ASSUME NEW chunk \in Chunks, _ecgdsa_verify_update(chunk)
      PROVE  IInv'
  BY <1>5, VerifyUpdateStep DEF _ecgdsa_verify_update
<1>6. CASE _ecgdsa_verify_finalize
  <2> DEFINE W == ecgdsa_W_prime(verify)
             accepted == ecgdsa_r(W) = verify.sig.r
  <2>1. conf.alg = "ECGDSA" /\ VerdictOn(W, accepted) /\ accepted \in BOOLEAN
    BY <1>6 DEF _ecgdsa_verify_finalize
  <2>2. verify.pc = "open"
    BY <2>1 DEF VerdictOn
  <2>3. /\ W \in Residues
        /\ Valid(pub.y, verify.m, verify.sig.r, verify.sig.s)
             <=> W # 0 /\ ecgdsa_r(W) = verify.sig.r
    BY <2>1, <2>2, EcgdsaVerdict
  <2>4. accepted <=> ecgdsa_r(W) = verify.sig.r
    OBVIOUS
  <2> HIDE DEF W, accepted
  <2> QED
    BY <2>1, <2>3, <2>4, VerdictOnStep
<1> QED
  BY <1>1, <1>2, <1>3, <1>4, <1>5, <1>6 DEF EcgdsaNext

-----------------------------------------------------------------------------
(* EC-RDSA.                                                                  *)

\* What a signature is in EC-RDSA.
LEMMA EcrdsaMeans ==
  ASSUME conf.alg = "ECRDSA", NEW y, NEW msg, NEW r, NEW s
  PROVE  Valid(y, msg, r, s)
           <=> \E k \in Scalars :
                 /\ r = ecrdsa_r(k) /\ r # 0 /\ s \in Scalars
                 /\ EcrdsaFits(k, ecrdsa_e(Hash(NoPrefix, msg, 1)), y, r, s)
<1>1. Valid(y, msg, r, s) <=> EcrdsaValid(y, msg, r, s)
  BY DEF Valid, Sdsa
<1> QED
  BY <1>1 DEF EcrdsaValid, EcrdsaFits, R

\* The numbers of an attempt.
LEMMA EcrdsaAttemptEquation ==
  ASSUME IInv, conf.alg = "ECRDSA", NEW k \in Scalars, NEW b \in Scalars, Draws(k, b)
  PROVE  LET r == ecrdsa_r(k)
             s == ecrdsa_s(ecrdsa_e(Hash(sign.pre, sign.m, sign.finals + 1)), k, b, r)
         IN  /\ r \in Residues /\ s \in Residues
             /\ Coherent /\ ~sign.redo => EcrdsaFits(k, ecrdsa_e(Digest(sign)), pub.y, r, s)
<1> DEFINE r == ecrdsa_r(k)
           h == Hash(sign.pre, sign.m, sign.finals + 1)
           e == ecrdsa_e(h)
           s == ecrdsa_s(e, k, b, r)
           x == priv.x
<1>1. r \in Residues /\ r \in Nat
  <2>1. Abscissa(k) \in Nat
    BY SignTypes, AbscissaType
  <2> QED
    BY <2>1, ResType DEF ecrdsa_r, R, Residues
<1> HIDE DEF r
<1>2. s = R(nn_modinv(b) * ((R(r * b) * x) + (k * R(e * b))))
  BY DEF ecrdsa_s, R
<1>3. x \in Nat /\ e \in Nat
  <2>1. sign.finals + 1 \in 1..(MaxFinals + 1) /\ sign.pre \in Prefixes /\ sign.m \in Messages
    BY SignTypes, HashAssumption DEF Signers
  <2>2. h \in Nat
    BY <2>1, HashType
  <2> HIDE DEF h
  <2>3. e \in Scalars
    BY <2>2, EcrdsaNumber
  <2> HIDE DEF e
  <2>4. e \in Nat
    BY <2>3, CurveAssumption DEF Scalars
  <2> QED
    BY <2>4, SignTypes
<1> HIDE DEF s, x, e
<1>4. ASSUME NEW y \in Nat, R(x) = R(y)
      PROVE  s \in Residues /\ s = R(r * y + k * e)
  BY ONLY <1>1, <1>2, <1>3, <1>4, k \in Scalars, b \in Scalars, EcrdsaEquation
<1>5. ASSUME Coherent, ~sign.redo
      PROVE  EcrdsaFits(k, ecrdsa_e(Digest(sign)), pub.y, r, s)
  <2> DEFINE y == pub.y
  <2>1. sign.pc = "draw"
    BY DEF Draws
  <2>2. y = R(x) /\ y \in Nat
    <3>1. priv.type = "ECRDSA"
      BY <2>1, SignTypes DEF KeysMatch
    <3> QED
      BY <1>5, <3>1, SignTypes DEF Coherent, R, x
  <2>3. R(x) = R(y)
    BY <1>3, <2>2, ResType
  <2>4. e = ecrdsa_e(Digest(sign))
    <3>1. sign.finals = 0
      BY <1>5, <2>1 DEF IInv, Signing, SignNumber
    <3>2. sign.finals + 1 = 1
      BY <3>1
    <3> QED
      BY <3>2 DEF Digest, e
  <2> HIDE DEF y
  <2>5. s = R(r * y + k * e)
    BY <1>4, <2>2, <2>3
  <2> QED
    BY <2>4, <2>5 DEF y, EcrdsaFits
<1> QED
  BY <1>1, <1>3, <1>4, <1>5 DEF r, s, e

\* An attempt restarts, or returns a signature.
LEMMA EcrdsaAttemptStep ==
  ASSUME IInv, NEW k \in Scalars, NEW b \in Scalars, EcrdsaAttempt(k, b)
  PROVE  IInv'
<1> DEFINE r == ecrdsa_r(k)
           e == ecrdsa_e(Hash(sign.pre, sign.m, sign.finals + 1))
           s == ecrdsa_s(e, k, b, r)
           finals == IF sign.finals < MaxFinals THEN sign.finals + 1 ELSE sign.finals
           redone == [sign EXCEPT !.finals = finals, !.redo = TRUE]
<1>1. conf.alg = "ECRDSA" /\ Draws(k, b) /\ sign.pc = "draw"
  BY DEF EcrdsaAttempt, Draws
<1>2. /\ r \in Residues /\ s \in Residues
      /\ Coherent /\ ~sign.redo => EcrdsaFits(k, ecrdsa_e(Digest(sign)), pub.y, r, s)
  BY <1>1, EcrdsaAttemptEquation
<1>3. \/ r = 0 /\ SignRestarts(sign)
      \/ SignRestarts(redone)
      \/ r # 0 /\ s # 0 /\ SignReturns(r, s)
  BY DEF EcrdsaAttempt
<1> HIDE DEF r, s, e
<1>4. CASE SignRestarts(sign)
  <2>1. sign \in Signers /\ sign' = sign
    BY <1>4, SignTypes DEF SignRestarts
  <2>2. ~sign.redo => SignNumber'
    <3>1. UNCHANGED conf
      BY <1>4 DEF SignRestarts, keys
    <3> QED
      BY <1>1, <2>1, <3>1 DEF IInv, Signing, SignNumber
  <2> QED
    BY <1>1, <1>4, <2>1, <2>2, SignRestartsStep
<1>5. CASE SignRestarts(redone)
  <2>1. sign \in Signers /\ sign.finals \in 0..MaxFinals
    BY SignTypes DEF Signers
  <2>2. finals \in 0..MaxFinals
    BY <2>1, HashAssumption
  <2> HIDE DEF finals
  <2>3. redone \in Signers
    BY <2>1, <2>2 DEF Signers
  <2>4. redone.pc = "draw" /\ redone.pre = sign.pre /\ redone.k = sign.k /\ redone.redo
    BY <1>1, <2>1 DEF Signers
  <2> HIDE DEF redone
  <2> QED
    BY <1>1, <1>5, <2>3, <2>4, SignRestartsStep
<1>6. CASE r # 0 /\ s # 0 /\ SignReturns(r, s)
  <2>1. r \in Nat /\ s \in Nat /\ s \in Scalars
    BY <1>2, <1>6, CurveAssumption DEF Residues, Scalars
  <2>2. ASSUME Coherent, ~sign.redo
        PROVE  Valid(pub.y, sign.m, r, s)
    <3>1. sign.pre = NoPrefix
      BY <1>1, SignTypes DEF SignPrefix, Plain
    <3>2. EcrdsaFits(k, ecrdsa_e(Hash(NoPrefix, sign.m, 1)), pub.y, r, s)
      BY <1>2, <2>2, <3>1 DEF Digest
    <3> QED
      BY <1>1, <1>6, <2>1, <3>2, EcrdsaMeans DEF r
  <2> QED
    BY <1>1, <1>6, <2>1, <2>2, SignReturnsStep
<1> QED
  BY <1>3, <1>4, <1>5, <1>6

\* The numbers of the verifier: W' is the only k that fits.
LEMMA EcrdsaVerdict ==
  ASSUME IInv, conf.alg = "ECRDSA", verify.pc = "open", NEW W, W = ecrdsa_W_prime(verify)
  PROVE  /\ W \in Residues
         /\ Valid(pub.y, verify.m, verify.sig.r, verify.sig.s)
              <=> W # 0 /\ ecrdsa_r(W) = verify.sig.r
<1>1. /\ pub.y \in Nat /\ verify.sig.s \in Scalars /\ verify.sig.r \in Nat /\ 0 \in Residues
      /\ verify.sig.r \in Scalars /\ verify.pre = NoPrefix
  BY VerifyTypes, CurveAssumption DEF VerifyPrefix, Plain, Residues
<1> DEFINE e == ecrdsa_e(Digest(verify))
           s == verify.sig.s
           r == verify.sig.r
           y == pub.y
<1>2. e \in Scalars /\ s \in Scalars /\ r \in Nat /\ r \in Scalars /\ y \in Nat
  BY <1>1, VerifyTypes, EcrdsaNumber
<1>3. W = Solution(e, r, s, y)
  BY DEF ecrdsa_W_prime, uG_vY, Solution, R
<1>4. ecrdsa_e(Hash(NoPrefix, verify.m, 1)) = e
  BY <1>1 DEF Digest
<1> HIDE DEF e, s, r, y
<1>5. /\ W \in Residues
      /\ \A k \in Residues : EcrdsaFits(k, e, y, r, s) <=> k = W
  BY ONLY <1>2, <1>3, EcrdsaUnique
<1>6. \A k \in Scalars : k \in Residues
  BY CurveAssumption DEF Scalars, Residues
<1>7. Valid(pub.y, verify.m, verify.sig.r, verify.sig.s)
        <=> \E k \in Scalars : r = ecrdsa_r(k) /\ r # 0 /\ s \in Scalars /\ EcrdsaFits(k, e, y, r, s)
  BY <1>4, EcrdsaMeans DEF s, r, y
<1>8. r # 0 /\ (W # 0 => W \in Scalars) /\ 0 \notin Scalars
  BY <1>2, <1>5, CurveAssumption DEF Scalars, Residues
<1>9. Valid(pub.y, verify.m, verify.sig.r, verify.sig.s) <=> W \in Scalars /\ ecrdsa_r(W) = r
  BY <1>2, <1>5, <1>6, <1>7, <1>8
<1> QED
  BY <1>5, <1>8, <1>9 DEF r

\* The verifier refuses numbers out of ]0,q[, which no signature consists of.
LEMMA EcrdsaVerifyInitStep ==
  ASSUME IInv, NEW in, Given(in), _ecrdsa_verify_init(in)
  PROVE  IInv'
<1>1. conf.alg = "ECRDSA" /\ Verifiable
  BY DEF _ecrdsa_verify_init
<1>2. CASE in.r \in Scalars /\ in.s \in Scalars
  <2>1. VerifyOpens(in, NoPrefix) /\ NoPrefix \in Prefixes
    BY <1>2 DEF _ecrdsa_verify_init, Prefixes
  <2>2. VerifyFits(in, NoPrefix)
    BY <1>1, <1>2 DEF VerifyFits, Plain, Sdsa
  <2> QED
    BY <1>1, <1>2, <2>1, <2>2, VerifyOpensStep
<1>3. CASE ~ (in.r \in Scalars /\ in.s \in Scalars)
  <2>1. VerifyRefused(in)
    BY <1>3 DEF _ecrdsa_verify_init
  <2>2. ASSUME NEW msg \in Messages, Valid(pub.y, msg, in.r, in.s)
        PROVE  FALSE
    <3> DEFINE y == pub.y
               r == in.r
               s == in.s
    <3>1. Valid(y, msg, r, s)
      BY <2>2
    <3> HIDE DEF y, r, s
    <3>2. PICK k \in Scalars :
            /\ r = ecrdsa_r(k) /\ r # 0 /\ s \in Scalars
            /\ EcrdsaFits(k, ecrdsa_e(Hash(NoPrefix, msg, 1)), y, r, s)
      BY <1>1, <3>1, EcrdsaMeans
    <3>3. in.r = ecrdsa_r(k) /\ in.r # 0 /\ in.s \in Scalars
      BY <3>2 DEF r, s
    <3>4. ecrdsa_r(k) \in Residues
      <4>1. Abscissa(k) \in Nat
        BY SignTypes, AbscissaType
      <4> QED
        BY <4>1, ResType DEF ecrdsa_r, R
    <3> QED
      BY <1>3, <3>3, <3>4, CurveAssumption DEF Residues, Scalars
  <2> QED
    BY <1>1, <2>1, <2>2, VerifyRefusedStep
<1> QED
  BY <1>2, <1>3

\* Every step of EC-RDSA preserves the invariant.
LEMMA EcrdsaStep ==
  ASSUME IInv, EcrdsaNext
  PROVE  IInv'
<1>1. CASE _ecrdsa_sign_init
  <2>1. conf.alg = "ECRDSA" /\ SignOpens(NoPrefix, 1)
    BY <1>1 DEF _ecrdsa_sign_init
  <2>2. NoPrefix \in Prefixes /\ 1 \in Scalars
    BY CurveAssumption DEF Prefixes, Scalars
  <2>3. PrefixFits(NoPrefix, 1)
    BY <2>1 DEF PrefixFits, Plain, Sdsa
  <2> QED
    BY <2>1, <2>2, <2>3, OpenStep
<1>2. ASSUME NEW chunk \in Chunks, _ecrdsa_sign_update(chunk)
      PROVE  IInv'
  BY <1>2, SignUpdateStep DEF _ecrdsa_sign_update
<1>3. ASSUME NEW siglen, _ecrdsa_sign_finalize(siglen)
      PROVE  IInv'
  <2>1. CASE SignRefused
    BY <2>1, SignStopsStep
  <2>2. CASE SignReachesRestart(0)
    <3>1. conf.alg = "ECRDSA" /\ conf' = conf /\ conf.alg \in Looping /\ 0 \in Nat
      BY <1>3, <2>2 DEF _ecrdsa_sign_finalize, SignReachesRestart, keys, Looping
    <3>2. sign.pc = "open" /\ sign' = [sign EXCEPT !.pc = "draw", !.e = 0]
      BY <2>2 DEF SignReachesRestart
    <3>3. sign'.finals = sign.finals
      BY <3>2, SignTypes DEF Signers
    <3>4. sign.finals = 0
      BY <3>2 DEF IInv, Signing
    <3>5. SignNumber'
      BY <3>1, <3>3, <3>4 DEF SignNumber
    <3> QED
      BY <2>2, <3>1, <3>5, SignReachesStep
  <2> QED
    BY <1>3, <2>1, <2>2 DEF _ecrdsa_sign_finalize
<1>4. ASSUME NEW k \in Scalars, NEW b \in Scalars, EcrdsaAttempt(k, b)
      PROVE  IInv'
  BY <1>4, EcrdsaAttemptStep
<1>5. ASSUME NEW chunk \in Chunks, _ecrdsa_verify_update(chunk)
      PROVE  IInv'
  BY <1>5, VerifyUpdateStep DEF _ecrdsa_verify_update
<1>6. CASE _ecrdsa_verify_finalize
  <2> DEFINE W == ecrdsa_W_prime(verify)
             accepted == ecrdsa_r(W) = verify.sig.r
  <2>1. conf.alg = "ECRDSA" /\ VerdictOn(W, accepted) /\ accepted \in BOOLEAN
    BY <1>6 DEF _ecrdsa_verify_finalize
  <2>2. verify.pc = "open"
    BY <2>1 DEF VerdictOn
  <2>3. /\ W \in Residues
        /\ Valid(pub.y, verify.m, verify.sig.r, verify.sig.s)
             <=> W # 0 /\ ecrdsa_r(W) = verify.sig.r
    BY <2>1, <2>2, EcrdsaVerdict
  <2>4. accepted <=> ecrdsa_r(W) = verify.sig.r
    OBVIOUS
  <2> HIDE DEF W, accepted
  <2> QED
    BY <2>1, <2>3, <2>4, VerdictOnStep
<1> QED
  BY <1>1, <1>2, <1>3, <1>4, <1>5, <1>6 DEF EcrdsaNext

-----------------------------------------------------------------------------
(* EC-KCDSA.                                                                 *)

\* What a signature is in EC-KCDSA.
LEMMA EckcdsaMeans ==
  ASSUME conf.alg = "ECKCDSA", NEW y, NEW msg, NEW r, NEW s
  PROVE  Valid(y, msg, r, s)
           <=> \E k \in Scalars :
                 /\ r = eckcdsa_r(k) /\ s \in Scalars
                 /\ EckcdsaFits(k, eckcdsa_e(r, buf_lshift(Hash(z_of(y), msg, 1))), y, s)
<1>1. Valid(y, msg, r, s) <=> EckcdsaValid(y, msg, r, s)
  BY DEF Valid, Sdsa
<1> QED
  BY <1>1 DEF EckcdsaValid, EckcdsaFits, R

\* The digest of an abscissa is a number.
LEMMA EckcdsaFirstHalf ==
  ASSUME IInv, NEW k \in Scalars
  PROVE  eckcdsa_r(k) \in Nat
<1>1. <<"x", Abscissa(k)>> \in Prefixes /\ <<>> \in Messages
  BY SignTypes, AbscissaType, HashAssumption
<1>2. Hash(<<"x", Abscissa(k)>>, <<>>, 1) \in Nat
  BY <1>1, FirstDigest
<1> QED
  BY <1>2, ShiftType DEF eckcdsa_r

\* The numbers of an attempt.
LEMMA EckcdsaAttemptEquation ==
  ASSUME IInv, conf.alg = "ECKCDSA", NEW k \in Scalars, NEW b \in Scalars, Draws(k, b)
  PROVE  LET e == eckcdsa_e(eckcdsa_r(k), sign.e)
             s == eckcdsa_s(e, k, b)
         IN  /\ s \in Residues
             /\ Coherent => EckcdsaFits(k, e, pub.y, s)
<1> DEFINE e == eckcdsa_e(eckcdsa_r(k), sign.e)
           s == eckcdsa_s(e, k, b)
           x == priv.x
           y == pub.y
<1>1. s = R(nn_modinv(b) * R(x * (R(k * b) + q - R(e * b))))
  BY DEF eckcdsa_s, R
<1>2. e \in Residues /\ x \in Nat /\ y \in Nat
  BY EckcdsaNumber, SignTypes
<1> HIDE DEF e, s, x, y
<1>3. s \in Residues
  <2> DEFINE kb == R(k * b)
             eb == R(e * b)
             z == kb + q - eb
             t == R(x * z)
  <2>1. k \in Nat /\ b \in Nat /\ nn_modinv(b) \in Nat /\ e \in Nat /\ q \in Nat
    BY <1>2, Inverse, CurveAssumption DEF Scalars, Residues
  <2>2. k * b \in Nat /\ e * b \in Nat
    BY <2>1, SMT
  <2>3. kb \in Residues /\ eb \in Residues
    BY <2>2, ResType
  <2> HIDE DEF kb, eb
  <2>4. z \in Nat
    BY <2>1, <2>3 DEF Residues
  <2> HIDE DEF z
  <2>5. x * z \in Nat
    BY <1>2, <2>4, SMT
  <2>6. t \in Nat
    BY <2>5, ResType DEF Residues
  <2> HIDE DEF t
  <2>7. nn_modinv(b) * t \in Nat
    BY <2>1, <2>6, SMT
  <2>8. R(nn_modinv(b) * t) \in Residues
    BY <2>7, ResType
  <2> QED
    BY <1>1, <2>8 DEF t, z, kb, eb
<1>4. ASSUME Coherent
      PROVE  EckcdsaFits(k, e, y, s)
  <2>1. R(x * y) = 1
    <3>1. sign.pc = "draw"
      BY DEF Draws
    <3>2. priv.type = "ECKCDSA"
      BY <3>1, SignTypes DEF KeysMatch
    <3> QED
      BY <1>4, <3>2 DEF Coherent, R, x, y
  <2>2. R(y * s + e) = k
    BY ONLY <1>1, <1>2, <2>1, k \in Scalars, b \in Scalars, EckcdsaEquation
  <2> QED
    BY <2>2 DEF EckcdsaFits
<1> QED
  BY <1>3, <1>4 DEF e, s, y

\* An attempt restarts, or returns a signature.
LEMMA EckcdsaAttemptStep ==
  ASSUME IInv, NEW k \in Scalars, NEW b \in Scalars, EckcdsaAttempt(k, b)
  PROVE  IInv'
<1> DEFINE r == eckcdsa_r(k)
           e == eckcdsa_e(r, sign.e)
           s == eckcdsa_s(e, k, b)
           redone == [sign EXCEPT !.e = 0, !.redo = TRUE]
<1>1. conf.alg = "ECKCDSA" /\ Draws(k, b) /\ sign.pc = "draw"
  BY DEF EckcdsaAttempt, Draws
<1>2. s \in Residues /\ (Coherent => EckcdsaFits(k, e, pub.y, s))
  BY <1>1, EckcdsaAttemptEquation
<1>3. r \in Nat
  BY EckcdsaFirstHalf
<1>4. SignRestarts(redone) \/ (s # 0 /\ SignReturns(r, s))
  BY DEF EckcdsaAttempt
<1> HIDE DEF s
<1>5. CASE SignRestarts(redone)
  <2>1. redone \in Signers
    BY SignTypes DEF Signers
  <2>2. redone.pc = "draw" /\ redone.pre = sign.pre /\ redone.k = sign.k /\ redone.redo
    BY <1>1, SignTypes DEF Signers
  <2> HIDE DEF redone
  <2> QED
    BY <1>1, <1>5, <2>1, <2>2, SignRestartsStep
<1>6. CASE s # 0 /\ SignReturns(r, s)
  <2>1. s \in Nat /\ s \in Scalars
    BY <1>2, <1>6, CurveAssumption DEF Residues, Scalars
  <2>2. ASSUME Coherent, ~sign.redo
        PROVE  Valid(pub.y, sign.m, r, s)
    <3>1. sign.pre = z_of(pub.y)
      BY <1>1, SignTypes DEF SignPrefix
    <3>2. sign.e = buf_lshift(Digest(sign))
      BY <1>1, <2>2 DEF IInv, Signing, SignNumber
    <3>3. EckcdsaFits(k, eckcdsa_e(r, buf_lshift(Hash(z_of(pub.y), sign.m, 1))), pub.y, s)
      BY <1>2, <2>2, <3>1, <3>2 DEF Digest
    <3> QED
      BY <1>1, <2>1, <3>3, EckcdsaMeans DEF r
  <2> HIDE DEF r
  <2> QED
    BY <1>1, <1>3, <1>6, <2>1, <2>2, SignReturnsStep
<1> QED
  BY <1>4, <1>5, <1>6

\* The numbers of the verifier: W' is the only k that fits.
LEMMA EckcdsaVerdict ==
  ASSUME IInv, conf.alg = "ECKCDSA", verify.pc = "open", NEW W, W = eckcdsa_W_prime(verify)
  PROVE  /\ W \in Residues
         /\ Valid(pub.y, verify.m, verify.sig.r, verify.sig.s)
              <=> W # 0 /\ eckcdsa_r(W) = verify.sig.r
<1> DEFINE s == verify.sig.s
           r == verify.sig.r
           y == pub.y
           e == eckcdsa_e(r, buf_lshift(Digest(verify)))
<1>1. /\ y \in Nat /\ s \in Scalars /\ s \in Nat /\ verify.pre = z_of(y)
      /\ e \in Residues /\ e \in Nat
  BY VerifyTypes, EckcdsaNumber, CurveAssumption DEF VerifyPrefix, Residues
<1>2. W = R(R(e) + R(s) * y)
  BY DEF eckcdsa_W_prime, uG_vY, R
<1>3. eckcdsa_e(r, buf_lshift(Hash(z_of(y), verify.m, 1))) = e
  BY <1>1 DEF Digest
<1>4. Valid(pub.y, verify.m, verify.sig.r, verify.sig.s)
        <=> \E k \in Scalars : r = eckcdsa_r(k) /\ s \in Scalars /\ EckcdsaFits(k, e, y, s)
  BY <1>3, EckcdsaMeans
<1> HIDE DEF s, r, y, e
<1>5. W \in Residues /\ R(W) = R(e + s * y) /\ R(W) = W
  BY ONLY <1>1, <1>2, Combination
<1>6. e + s * y = y * s + e
  BY <1>1, SMT
<1>7. \A k : EckcdsaFits(k, e, y, s) <=> k = W
  BY <1>5, <1>6 DEF EckcdsaFits
<1>8. (W # 0 => W \in Scalars) /\ 0 \notin Scalars
  BY <1>5, CurveAssumption DEF Scalars, Residues
<1>9. Valid(pub.y, verify.m, verify.sig.r, verify.sig.s) <=> W \in Scalars /\ eckcdsa_r(W) = r
  BY <1>1, <1>4, <1>7
<1> QED
  BY <1>5, <1>8, <1>9 DEF r

\* The verifier refuses an s out of ]0,q[, and stops at a Y without coordinates.
LEMMA EckcdsaVerifyInitStep ==
  ASSUME IInv, NEW in, Given(in), _eckcdsa_verify_init(in)
  PROVE  IInv'
<1>1. conf.alg = "ECKCDSA" /\ Verifiable
  BY DEF _eckcdsa_verify_init
<1>2. CASE in.s \notin Scalars
  <2>1. VerifyRefused(in)
    BY <1>2 DEF _eckcdsa_verify_init
  <2>2. ASSUME NEW msg \in Messages, Valid(pub.y, msg, in.r, in.s)
        PROVE  FALSE
    <3>1. EckcdsaValid(pub.y, msg, in.r, in.s)
      BY <1>1, <2>2 DEF Valid, Sdsa
    <3> QED
      BY <1>2, <3>1 DEF EckcdsaValid
  <2> QED
    BY <1>1, <2>1, <2>2, VerifyRefusedStep
<1>3. CASE in.s \in Scalars /\ pub.y = 0
  <2>1. Exits("infinity") /\ "infinity" \in ExitCodes
    BY <1>3 DEF _eckcdsa_verify_init, ExitCodes
  <2> QED
    BY <1>3, <2>1, ExitStep
<1>4. CASE in.s \in Scalars /\ pub.y # 0 /\ pub.y = NoPoint
  <2>1. Exits("unset") /\ "unset" \in ExitCodes
    BY <1>4 DEF _eckcdsa_verify_init, ExitCodes
  <2> QED
    BY <2>1, ExitStep
<1>5. CASE in.s \in Scalars /\ pub.y # 0 /\ pub.y # NoPoint
  <2>1. VerifyOpens(in, z_of(pub.y))
    BY <1>5 DEF _eckcdsa_verify_init
  <2>2. pub.y \in Scalars /\ z_of(pub.y) \in Prefixes
    <3>1. pub.y \in Scalars
      BY <1>5, SignTypes, CurveAssumption DEF Residues, Scalars
    <3> QED
      BY <3>1, PrefixType
  <2>3. VerifyFits(in, z_of(pub.y))
    BY <1>1, <2>2 DEF VerifyFits, Plain, Sdsa
  <2> QED
    BY <1>1, <1>5, <2>1, <2>2, <2>3, VerifyOpensStep
<1> QED
  BY <1>2, <1>3, <1>4, <1>5

\* Every step of EC-KCDSA preserves the invariant.
LEMMA EckcdsaStep ==
  ASSUME IInv, EckcdsaNext
  PROVE  IInv'
<1>1. CASE _eckcdsa_sign_init
  <2>1. conf.alg = "ECKCDSA" /\ verify.pc # "open"
    BY <1>1 DEF _eckcdsa_sign_init, SignOpens
  <2>2. CASE pub.y \in {0, NoPoint}
    <3>1. Exits("infinity") \/ Exits("unset")
      BY <1>1, <2>2 DEF _eckcdsa_sign_init
    <3>2. "infinity" \in ExitCodes /\ "unset" \in ExitCodes
      BY DEF ExitCodes
    <3> QED
      BY <2>1, <3>1, <3>2, ExitStep
  <2>3. CASE pub.y \notin {0, NoPoint}
    <3>1. SignOpens(z_of(pub.y), 1)
      BY <1>1, <2>3 DEF _eckcdsa_sign_init
    <3>2. pub.y \in Scalars /\ 1 \in Scalars
      BY <2>3, SignTypes, CurveAssumption DEF Residues, Scalars
    <3>3. z_of(pub.y) \in Prefixes
      BY <3>2, PrefixType
    <3>4. PrefixFits(z_of(pub.y), 1)
      BY <2>1, <3>2 DEF PrefixFits, Plain, Sdsa
    <3> QED
      BY <3>1, <3>2, <3>3, <3>4, OpenStep
  <2> QED
    BY <2>2, <2>3
<1>2. ASSUME NEW chunk \in Chunks, _eckcdsa_sign_update(chunk)
      PROVE  IInv'
  BY <1>2, SignUpdateStep DEF _eckcdsa_sign_update
<1>3. ASSUME NEW siglen, _eckcdsa_sign_finalize(siglen)
      PROVE  IInv'
  <2> DEFINE e == buf_lshift(Digest(sign))
  <2>1. CASE SignRefused
    BY <2>1, SignStopsStep
  <2>2. CASE SignReachesRestart(e)
    <3>1. e \in Nat
      BY SignTypes, ShiftType
    <3>2. conf.alg = "ECKCDSA" /\ conf' = conf /\ conf.alg \in Looping
      BY <1>3, <2>2 DEF _eckcdsa_sign_finalize, SignReachesRestart, keys, Looping
    <3>3. sign' = [sign EXCEPT !.pc = "draw", !.e = e]
      BY <2>2 DEF SignReachesRestart
    <3>4. sign'.e = e /\ sign'.pre = sign.pre /\ sign'.m = sign.m
      BY <3>3, SignTypes DEF Signers
    <3>5. Digest(sign)' = Digest(sign)
      BY <3>4 DEF Digest
    <3>6. SignNumber'
      BY <3>2, <3>4, <3>5 DEF SignNumber
    <3> QED
      BY <2>2, <3>1, <3>2, <3>6, SignReachesStep
  <2> QED
    BY <1>3, <2>1, <2>2 DEF _eckcdsa_sign_finalize
<1>4. ASSUME NEW k \in Scalars, NEW b \in Scalars, EckcdsaAttempt(k, b)
      PROVE  IInv'
  BY <1>4, EckcdsaAttemptStep
<1>5. ASSUME NEW chunk \in Chunks, _eckcdsa_verify_update(chunk)
      PROVE  IInv'
  BY <1>5, VerifyUpdateStep DEF _eckcdsa_verify_update
<1>6. CASE _eckcdsa_verify_finalize
  <2> DEFINE W == eckcdsa_W_prime(verify)
             accepted == eckcdsa_r(W) = verify.sig.r
  <2>1. conf.alg = "ECKCDSA" /\ VerdictOn(W, accepted) /\ accepted \in BOOLEAN
    BY <1>6 DEF _eckcdsa_verify_finalize
  <2>2. verify.pc = "open"
    BY <2>1 DEF VerdictOn
  <2>3. /\ W \in Residues
        /\ Valid(pub.y, verify.m, verify.sig.r, verify.sig.s)
             <=> W # 0 /\ eckcdsa_r(W) = verify.sig.r
    BY <2>1, <2>2, EckcdsaVerdict
  <2>4. accepted <=> eckcdsa_r(W) = verify.sig.r
    OBVIOUS
  <2> HIDE DEF W, accepted
  <2> QED
    BY <2>1, <2>3, <2>4, VerdictOnStep
<1> QED
  BY <1>1, <1>2, <1>3, <1>4, <1>5, <1>6 DEF EckcdsaNext

-----------------------------------------------------------------------------
(* EC-FSDSA.                                                                 *)

\* What a signature is in EC-FSDSA.
LEMMA EcfsdsaMeans ==
  ASSUME conf.alg = "ECFSDSA", NEW y, NEW msg, NEW r, NEW s
  PROVE  Valid(y, msg, r, s)
           <=> /\ r \in Scalars /\ s \in Scalars
               /\ SdsaFits(r, Hash(<<"xy", r>>, msg, 1), y, s)
<1>1. Valid(y, msg, r, s) <=> EcfsdsaValid(y, msg, r, s)
  BY DEF Valid, Sdsa
<1> QED
  BY <1>1 DEF EcfsdsaValid, SdsaFits, R

\* The numbers of sign_finalize.
LEMMA EcfsdsaAttemptEquation ==
  ASSUME IInv, conf.alg = "ECFSDSA", sign.pc # "closed", NEW b \in Scalars
  PROVE  LET s == ecfsdsa_s(ecfsdsa_e(sign), sign.k, b)
         IN  /\ s \in Residues
             /\ Coherent => SdsaFits(sign.k, Digest(sign), pub.y, s)
<1> DEFINE k == sign.k
           h == Digest(sign)
           x == priv.x
           s == ecfsdsa_s(ecfsdsa_e(sign), k, b)
<1>1. s = R(nn_modinv(b) * ((k * b) + (R(R(h) * b) * x)))
  BY DEF ecfsdsa_s, ecfsdsa_e, R
<1>2. x \in Nat /\ h \in Nat /\ k \in Scalars
  BY SignTypes
<1> HIDE DEF k, h, x, s
<1>3. ASSUME NEW y \in Nat, R(x) = R(y)
      PROVE  s \in Residues /\ s = R(k + h * y)
  BY ONLY <1>1, <1>2, <1>3, b \in Scalars, SdsaEquation
<1>4. ASSUME Coherent
      PROVE  SdsaFits(k, h, pub.y, s)
  <2> DEFINE y == pub.y
  <2>1. y = R(x) /\ y \in Nat
    <3>1. priv.type = "ECFSDSA"
      BY SignTypes DEF KeysMatch
    <3> QED
      BY <1>4, <3>1, SignTypes DEF Coherent, R, x
  <2>2. R(x) = R(y)
    BY <1>2, <2>1, ResType
  <2> HIDE DEF y
  <2>3. s = R(k + h * y)
    BY <1>3, <2>1, <2>2
  <2> QED
    BY <2>3 DEF y, SdsaFits
<1> QED
  BY <1>2, <1>3, <1>4 DEF s, k, h

\* What the random source returns for the mask.
LEMMA MaskType ==
  ASSUME IInv, NEW b \in conf.source \cup {1} \cup (IF Failing THEN {0} ELSE {}), b # 0
  PROVE  b \in Scalars
BY SignTypes, CurveAssumption DEF Scalars

\* sign_finalize refuses, or returns a signature.
LEMMA EcfsdsaFinalizeStep ==
  ASSUME IInv, NEW siglen, NEW b \in conf.source \cup {1} \cup (IF Failing THEN {0} ELSE {}),
         _ecfsdsa_sign_finalize(siglen, b)
  PROVE  IInv'
<1> DEFINE s == ecfsdsa_s(ecfsdsa_e(sign), sign.k, b)
<1>1. conf.alg = "ECFSDSA" /\ sign.pc = "open"
  BY DEF _ecfsdsa_sign_finalize
<1>2. SignRefused \/ (b # 0 /\ s # 0 /\ SignReturns(sign.k, s))
  BY DEF _ecfsdsa_sign_finalize
<1>3. CASE SignRefused
  BY <1>3, SignStopsStep
<1>4. CASE b # 0 /\ s # 0 /\ SignReturns(sign.k, s)
  <2>1. b \in Scalars
    BY <1>4, MaskType
  <2>2. s \in Residues /\ (Coherent => SdsaFits(sign.k, Digest(sign), pub.y, s))
    BY <1>1, <2>1, EcfsdsaAttemptEquation
  <2> HIDE DEF s
  <2>3. s \in Nat /\ s \in Scalars
    BY <1>4, <2>2, CurveAssumption DEF Residues, Scalars
  <2>4. sign.k \in Scalars /\ sign.k \in Nat /\ sign.k \in Residues
    BY SignTypes, CurveAssumption DEF Residues, Scalars
  <2>5. ASSUME Coherent, ~sign.redo
        PROVE  Valid(pub.y, sign.m, sign.k, s)
    <3>1. sign.pre = <<"xy", sign.k>>
      BY <1>1, SignTypes DEF SignPrefix
    <3>2. SdsaFits(sign.k, Hash(<<"xy", sign.k>>, sign.m, 1), pub.y, s)
      BY <2>2, <2>5, <3>1 DEF Digest
    <3> QED
      BY <1>1, <2>3, <2>4, <3>2, EcfsdsaMeans
  <2> QED
    BY <1>1, <1>4, <2>3, <2>4, <2>5, SignReturnsStep
<1> QED
  BY <1>2, <1>3, <1>4

\* The numbers of the verifier: W' is the only k that fits.
LEMMA EcfsdsaVerdict ==
  ASSUME IInv, conf.alg = "ECFSDSA", verify.pc = "open", NEW W, W = ecfsdsa_W_prime(verify)
  PROVE  /\ W \in Residues
         /\ Valid(pub.y, verify.m, verify.sig.r, verify.sig.s) <=> W # 0 /\ W = verify.sig.r
<1> DEFINE h == Digest(verify)
           s == verify.sig.s
           r == verify.sig.r
           y == pub.y
<1>1. /\ y \in Nat /\ s \in Scalars /\ h \in Nat /\ r \in Scalars /\ verify.pre = <<"xy", r>>
      /\ Hash(<<"xy", r>>, verify.m, 1) = h
  BY VerifyTypes DEF VerifyPrefix, Digest
<1>2. W = Difference(s, h, y)
  BY DEF ecfsdsa_W_prime, uG_vY, Difference, R
<1>3. Valid(y, verify.m, r, s) <=> SdsaFits(r, h, y, s)
  BY <1>1, EcfsdsaMeans
<1> HIDE DEF h, s, r, y
<1>4. /\ W \in Residues
      /\ \A k \in Residues : SdsaFits(k, h, y, s) <=> k = W
  BY ONLY <1>1, <1>2, SdsaUnique
<1>5. r \in Residues /\ r # 0
  BY <1>1, CurveAssumption DEF Scalars, Residues
<1>6. Valid(y, verify.m, r, s) <=> W # 0 /\ W = r
  BY <1>3, <1>4, <1>5
<1> QED
  BY <1>4, <1>6 DEF r, s, y

\* The verifier refuses what is no point, and stops at coordinates that are not
\* below p.
LEMMA EcfsdsaVerifyInitStep ==
  ASSUME IInv, NEW in, Given(in), _ecfsdsa_verify_init(in)
  PROVE  IInv'
<1>1. conf.alg = "ECFSDSA" /\ Verifiable
  BY DEF _ecfsdsa_verify_init
<1>2. in.r = q \/ in.r = 0 \/ in.r \in Scalars
  BY <1>1, CurveAssumption DEF Given, Scalars
<1>3. 0 # q /\ q \notin Scalars /\ 0 \notin Scalars
  BY CurveAssumption DEF Scalars
<1>4. CASE in.r = q
  <2>1. Exits("coordinate") /\ "coordinate" \in ExitCodes
    BY <1>3, <1>4 DEF _ecfsdsa_verify_init, ExitCodes
  <2> QED
    BY <2>1, ExitStep
<1>5. CASE in.r = 0 \/ (in.r \in Scalars /\ in.s \notin Scalars)
  <2>1. VerifyRefused(in)
    BY <1>3, <1>5 DEF _ecfsdsa_verify_init
  <2>2. ASSUME NEW msg \in Messages, Valid(pub.y, msg, in.r, in.s)
        PROVE  FALSE
    <3>1. EcfsdsaValid(pub.y, msg, in.r, in.s)
      BY <1>1, <2>2 DEF Valid, Sdsa
    <3> QED
      BY <1>3, <1>5, <3>1 DEF EcfsdsaValid
  <2> QED
    BY <1>1, <2>1, <2>2, VerifyRefusedStep
<1>6. CASE in.r \in Scalars /\ in.s \in Scalars
  <2>1. VerifyOpens(in, <<"xy", in.r>>) /\ <<"xy", in.r>> \in Prefixes
    BY <1>3, <1>6, PrefixType DEF _ecfsdsa_verify_init
  <2>2. VerifyFits(in, <<"xy", in.r>>)
    BY <1>1, <1>6 DEF VerifyFits, Plain, Sdsa
  <2> QED
    BY <1>1, <1>6, <2>1, <2>2, VerifyOpensStep
<1> QED
  BY <1>2, <1>4, <1>5, <1>6

\* Every step of EC-FSDSA preserves the invariant.
LEMMA EcfsdsaStep ==
  ASSUME IInv, EcfsdsaNext
  PROVE  IInv'
<1>1. ASSUME NEW k \in Scalars, _ecfsdsa_sign_init(k)
      PROVE  IInv'
  <2>1. conf.alg = "ECFSDSA" /\ SignOpens(<<"xy", k>>, k)
    BY <1>1 DEF _ecfsdsa_sign_init
  <2>2. <<"xy", k>> \in Prefixes
    BY PrefixType
  <2>3. PrefixFits(<<"xy", k>>, k)
    BY <2>1 DEF PrefixFits, Plain, Sdsa
  <2> QED
    BY <2>1, <2>2, <2>3, OpenStep
<1>2. ASSUME NEW chunk \in Chunks, _ecfsdsa_sign_update(chunk)
      PROVE  IInv'
  BY <1>2, SignUpdateStep DEF _ecfsdsa_sign_update
<1>3. ASSUME NEW siglen, NEW b \in conf.source \cup {1} \cup (IF Failing THEN {0} ELSE {}),
             _ecfsdsa_sign_finalize(siglen, b)
      PROVE  IInv'
  BY <1>3, EcfsdsaFinalizeStep
<1>4. ASSUME NEW chunk \in Chunks, _ecfsdsa_verify_update(chunk)
      PROVE  IInv'
  BY <1>4, VerifyUpdateStep DEF _ecfsdsa_verify_update
<1>5. CASE _ecfsdsa_verify_finalize
  <2> DEFINE W == ecfsdsa_W_prime(verify)
             accepted == W = verify.sig.r
  <2>1. conf.alg = "ECFSDSA" /\ VerdictOn(W, accepted) /\ accepted \in BOOLEAN
    BY <1>5 DEF _ecfsdsa_verify_finalize
  <2>2. verify.pc = "open"
    BY <2>1 DEF VerdictOn
  <2>3. /\ W \in Residues
        /\ Valid(pub.y, verify.m, verify.sig.r, verify.sig.s) <=> W # 0 /\ W = verify.sig.r
    BY <2>1, <2>2, EcfsdsaVerdict
  <2>4. accepted <=> W = verify.sig.r
    OBVIOUS
  <2> HIDE DEF W, accepted
  <2> QED
    BY <2>1, <2>3, <2>4, VerdictOnStep
<1> QED
  BY <1>1, <1>2, <1>3, <1>4, <1>5 DEF EcfsdsaNext

-----------------------------------------------------------------------------
(* EC-SDSA and EC-OSDSA.                                                     *)

\* What a signature is in EC-SDSA and EC-OSDSA.
LEMMA EcsdsaMeans ==
  ASSUME conf.alg \in Sdsa, NEW y, NEW msg, NEW r, NEW s
  PROVE  Valid(y, msg, r, s)
           <=> \E k \in Scalars :
                 /\ r = Hash(W_prefix(conf.alg, k), msg, 1) /\ r % q # 0 /\ s \in Scalars
                 /\ SdsaFits(k, r, y, s)
<1>1. Valid(y, msg, r, s) <=> EcsdsaValid(y, msg, r, s)
  BY DEF Valid, Sdsa
<1> QED
  BY <1>1 DEF EcsdsaValid, SdsaFits, R

\* The numbers of sign_finalize.
LEMMA EcsdsaAttemptEquation ==
  ASSUME IInv, conf.alg \in Sdsa, sign.pc # "closed", NEW b \in Scalars
  PROVE  LET s == ecsdsa_s(Digest(sign) % q, sign.k, b)
         IN  /\ s \in Residues
             /\ Coherent => SdsaFits(sign.k, Digest(sign), pub.y, s)
<1> DEFINE k == sign.k
           h == Digest(sign)
           x == priv.x
           s == ecsdsa_s(h % q, k, b)
<1>1. s = R(nn_modinv(b) * ((k * b) + (x * R(R(h) * b))))
  BY DEF ecsdsa_s, R
<1>2. x \in Nat /\ h \in Nat /\ k \in Scalars
  BY SignTypes
<1> HIDE DEF k, h, x, s
<1>3. ASSUME NEW y \in Nat, R(x) = R(y)
      PROVE  s \in Residues /\ s = R(k + h * y)
  BY ONLY <1>1, <1>2, <1>3, b \in Scalars, SdsaEquation
<1>4. ASSUME Coherent
      PROVE  SdsaFits(k, h, pub.y, s)
  <2> DEFINE y == pub.y
  <2>1. y = R(x) /\ y \in Nat
    <3>1. priv.type \in {"ECSDSA", "ECOSDSA"}
      BY SignTypes DEF KeysMatch, Sdsa
    <3> QED
      BY <1>4, <3>1, SignTypes DEF Coherent, R, x
  <2>2. R(x) = R(y)
    BY <1>2, <2>1, ResType
  <2> HIDE DEF y
  <2>3. s = R(k + h * y)
    BY <1>3, <2>1, <2>2
  <2> QED
    BY <2>3 DEF y, SdsaFits
<1> QED
  BY <1>2, <1>3, <1>4 DEF s, k, h

\* sign_finalize refuses, or returns a signature.
LEMMA EcsdsaFinalizeStep ==
  ASSUME IInv, NEW siglen, NEW b \in conf.source \cup {1} \cup (IF Failing THEN {0} ELSE {}),
         __ecsdsa_sign_finalize(siglen, b)
  PROVE  IInv'
<1> DEFINE r == Digest(sign)
           s == ecsdsa_s(r % q, sign.k, b)
<1>1. conf.alg \in Sdsa /\ sign.pc = "open"
  BY DEF __ecsdsa_sign_finalize
<1>2. SignRefused \/ (b # 0 /\ r % q # 0 /\ s # 0 /\ SignReturns(r, s))
  BY DEF __ecsdsa_sign_finalize
<1>3. CASE SignRefused
  BY <1>3, SignStopsStep
<1>4. CASE b # 0 /\ r % q # 0 /\ s # 0 /\ SignReturns(r, s)
  <2>1. b \in Scalars
    BY <1>4, MaskType
  <2>2. s \in Residues /\ (Coherent => SdsaFits(sign.k, r, pub.y, s))
    BY <1>1, <2>1, EcsdsaAttemptEquation
  <2> HIDE DEF s
  <2>3. s \in Nat /\ s \in Scalars
    BY <1>4, <2>2, CurveAssumption DEF Residues, Scalars
  <2>4. sign.k \in Scalars /\ r \in Nat /\ conf.alg # "ECFSDSA"
    BY <1>1, SignTypes DEF Sdsa
  <2>5. ASSUME Coherent, ~sign.redo
        PROVE  Valid(pub.y, sign.m, r, s)
    <3>1. sign.pre = W_prefix(conf.alg, sign.k)
      BY <1>1, SignTypes DEF SignPrefix
    <3>2. r = Hash(W_prefix(conf.alg, sign.k), sign.m, 1)
      BY <3>1 DEF Digest
    <3> HIDE DEF r
    <3> QED
      BY <1>1, <1>4, <2>2, <2>3, <2>4, <2>5, <3>2, EcsdsaMeans
  <2> HIDE DEF r
  <2> QED
    BY <1>1, <1>4, <2>3, <2>4, <2>5, SignReturnsStep
<1> QED
  BY <1>2, <1>3, <1>4

\* The point the verifier computes first is the only k that fits.
LEMMA EcsdsaPoint ==
  ASSUME IInv, NEW r \in Nat, NEW s \in Scalars, NEW W, W = uG_vY(s, nn_mod_neg(r))
  PROVE  /\ W \in Residues
         /\ \A k \in Residues : SdsaFits(k, r, pub.y, s) <=> k = W
<1> DEFINE y == pub.y
<1>1. y \in Nat
  BY SignTypes
<1>2. W = Difference(s, r, y)
  BY DEF uG_vY, Difference, R
<1> HIDE DEF y
<1>3. /\ W \in Residues
      /\ \A k \in Residues : SdsaFits(k, r, y, s) <=> k = W
  BY ONLY <1>1, <1>2, r \in Nat, s \in Scalars, SdsaUnique
<1> QED
  BY <1>3 DEF y

\* The verdict is right: the digests are equal exactly for a signature.
LEMMA EcsdsaVerdict ==
  ASSUME IInv, conf.alg \in Sdsa, verify.pc = "open"
  PROVE  /\ pub.y # NoPoint
         /\ Valid(pub.y, verify.m, verify.sig.r, verify.sig.s) <=> Digest(verify) = verify.sig.r
<1> DEFINE s == verify.sig.s
           r == verify.sig.r
           y == pub.y
           W == uG_vY(s, nn_mod_neg(r))
<1>1. /\ pub.y # NoPoint /\ W # 0 /\ r % q # 0 /\ verify.pre = W_prefix(conf.alg, W)
      /\ r \in Nat /\ s \in Scalars
  BY VerifyTypes DEF VerifyPrefix
<1>2. Digest(verify) = Hash(W_prefix(conf.alg, W), verify.m, 1)
  BY <1>1 DEF Digest
<1>3. Valid(y, verify.m, r, s)
        <=> \E k \in Scalars :
              /\ r = Hash(W_prefix(conf.alg, k), verify.m, 1) /\ r % q # 0 /\ s \in Scalars
              /\ SdsaFits(k, r, y, s)
  BY EcsdsaMeans
<1>4. W \in Residues /\ \A k \in Residues : SdsaFits(k, r, y, s) <=> k = W
  BY <1>1, EcsdsaPoint
<1> HIDE DEF W, s, r, y
<1>5. W \in Scalars /\ \A k \in Scalars : k \in Residues
  BY <1>1, <1>4, CurveAssumption DEF Scalars, Residues
<1>6. Valid(y, verify.m, r, s) <=> r = Hash(W_prefix(conf.alg, W), verify.m, 1)
  BY <1>1, <1>3, <1>4, <1>5
<1> QED
  BY <1>1, <1>2, <1>6 DEF y, r, s

\* The verifier refuses numbers that cannot be a signature, and stops at a point
\* without coordinates, which no signature leads to.
LEMMA EcsdsaVerifyInitStep ==
  ASSUME IInv, NEW in, Given(in), in = sig \/ verify = NoVerify, __ecsdsa_verify_init(in)
  PROVE  IInv'
<1> DEFINE e == nn_mod_neg(in.r)
           W == uG_vY(in.s, e)
<1>1. conf.alg \in Sdsa /\ Verifiable /\ in.r \in Nat
  BY DEF __ecsdsa_verify_init, Given, Signed
<1>2. e = 0 <=> in.r % q = 0
  BY <1>1, Negative
<1>3. CASE in.s \notin Scalars \/ e = 0
  <2>1. VerifyRefused(in)
    BY <1>3 DEF __ecsdsa_verify_init
  <2>2. ASSUME NEW msg \in Messages, Valid(pub.y, msg, in.r, in.s)
        PROVE  FALSE
    <3>1. EcsdsaValid(pub.y, msg, in.r, in.s)
      BY <1>1, <2>2 DEF Valid, Sdsa
    <3> QED
      BY <1>2, <1>3, <3>1 DEF EcsdsaValid
  <2> QED
    BY <1>1, <2>1, <2>2, VerifyRefusedStep
<1>4. CASE in.s \in Scalars /\ e # 0 /\ pub.y = NoPoint
  <2>1. Exits("unset") /\ "unset" \in ExitCodes
    BY <1>4 DEF __ecsdsa_verify_init, ExitCodes
  <2> QED
    BY <2>1, ExitStep
<1>5. CASE in.s \in Scalars /\ e # 0 /\ pub.y # NoPoint /\ W = 0
  <2>1. Exits("infinity") /\ "infinity" \in ExitCodes
    BY <1>5 DEF __ecsdsa_verify_init, ExitCodes
  <2>2. ASSUME verify.pc = "open", verify.sig.of # NoMsg, Coherent, ~verify.sig.redo
        PROVE  FALSE
    <3>1. verify # NoVerify
      BY <2>2 DEF NoVerify
    <3>2. verify.sig = sig /\ in = sig /\ SignatureValid
      BY <2>2, <3>1 DEF IInv, Verifying
    <3>3. Valid(pub.y, sig.of, in.r, in.s)
      BY <2>2, <3>2 DEF SignatureValid
    <3>4. PICK k \in Scalars : SdsaFits(k, in.r, pub.y, in.s)
      BY <1>1, <3>3, EcsdsaMeans
    <3>5. \A l \in Residues : SdsaFits(l, in.r, pub.y, in.s) <=> l = W
      BY <1>1, <1>5, EcsdsaPoint
    <3> HIDE DEF W
    <3> QED
      BY <1>5, <3>4, <3>5, CurveAssumption DEF Scalars, Residues
  <2> QED
    BY <2>1, <2>2, ExitStep
<1>6. CASE in.s \in Scalars /\ e # 0 /\ pub.y # NoPoint /\ W # 0
  <2>1. VerifyOpens(in, W_prefix(conf.alg, W))
    BY <1>6 DEF __ecsdsa_verify_init
  <2>2. W \in Residues
    BY <1>1, <1>6, EcsdsaPoint
  <2>3. VerifyFits(in, W_prefix(conf.alg, W))
    BY <1>1, <1>2, <1>6 DEF VerifyFits, Plain, Sdsa
  <2> HIDE DEF W
  <2>4. W \in Scalars
    BY <1>6, <2>2, CurveAssumption DEF Scalars, Residues
  <2>5. W_prefix(conf.alg, W) \in Prefixes
    BY <2>4, SignTypes, AbscissaType
  <2> QED
    BY <1>1, <1>6, <2>1, <2>3, <2>5, VerifyOpensStep
<1> QED
  BY <1>3, <1>4, <1>5, <1>6

\* Every step of EC-SDSA and EC-OSDSA preserves the invariant.
LEMMA EcsdsaStep ==
  ASSUME IInv, EcsdsaNext
  PROVE  IInv'
<1>1. ASSUME NEW k \in Scalars, __ecsdsa_sign_init(k)
      PROVE  IInv'
  <2>1. conf.alg \in Sdsa /\ SignOpens(W_prefix(conf.alg, k), k)
    BY <1>1 DEF __ecsdsa_sign_init
  <2>2. W_prefix(conf.alg, k) \in Prefixes
    BY SignTypes, AbscissaType
  <2>3. PrefixFits(W_prefix(conf.alg, k), k)
    BY <2>1 DEF PrefixFits, Plain, Sdsa
  <2> QED
    BY <2>1, <2>2, <2>3, OpenStep
<1>2. ASSUME NEW chunk \in Chunks, __ecsdsa_sign_update(chunk)
      PROVE  IInv'
  BY <1>2, SignUpdateStep DEF __ecsdsa_sign_update
<1>3. ASSUME NEW siglen, NEW b \in conf.source \cup {1} \cup (IF Failing THEN {0} ELSE {}),
             __ecsdsa_sign_finalize(siglen, b)
      PROVE  IInv'
  BY <1>3, EcsdsaFinalizeStep
<1>4. ASSUME NEW chunk \in Chunks, __ecsdsa_verify_update(chunk)
      PROVE  IInv'
  BY <1>4, VerifyUpdateStep DEF __ecsdsa_verify_update
<1>5. CASE __ecsdsa_verify_finalize
  <2> DEFINE accepted == Digest(verify) = verify.sig.r
  <2>1. conf.alg \in Sdsa /\ Verdict(accepted) /\ accepted \in BOOLEAN
    BY <1>5 DEF __ecsdsa_verify_finalize
  <2>2. verify.pc = "open"
    BY <2>1 DEF Verdict
  <2>3. /\ pub.y # NoPoint
        /\ accepted <=> Valid(pub.y, verify.m, verify.sig.r, verify.sig.s)
    BY <2>1, <2>2, EcsdsaVerdict
  <2> HIDE DEF accepted
  <2> QED
    BY <2>1, <2>3, VerdictStep
<1> QED
  BY <1>1, <1>2, <1>3, <1>4, <1>5 DEF EcsdsaNext

-----------------------------------------------------------------------------
(* The calls on the keys.                                                    *)

\* The public key of a private one is its point, the one that is coherent.
LEMMA InitPubKeyType ==
  ASSUME NEW type \in Algs, NEW x \in Nat, NEW p, p = InitPubKey(type, x), p.type # "exit"
  PROVE  /\ p \in [type : {type}, y : Residues]
         /\ IF type \in {"ECGDSA", "ECKCDSA"} THEN (x * p.y) % q = 1 ELSE p.y = x % q
<1>1. R(x) \in Residues
  BY ResType
<1>2. CASE type \in {"ECGDSA", "ECKCDSA"}
  <2> DEFINE i == nn_modinv(R(x))
  <2>1. x % q # 0 /\ p = [type |-> type, y |-> i]
    BY <1>2 DEF InitPubKey, ecgdsa_init_pub_key, eckcdsa_init_pub_key, Sdsa, R
  <2>2. R(x) \in Scalars /\ R(x) \in Nat
    BY <1>1, <2>1, CurveAssumption DEF Scalars, Residues, R
  <2>3. i \in Scalars /\ R(R(x) * i) = 1
    BY <2>2, Inverse
  <2>4. i \in Nat /\ i \in Residues
    BY <2>3, CurveAssumption DEF Scalars, Residues
  <2> HIDE DEF i
  <2>5. R(Times(i, R(x))) = R(Times(i, x))
    <3>1. R(R(x)) = R(x)
      BY ResType
    <3> QED
      BY ONLY <2>2, <2>4, <3>1, x \in Nat, ResTimes
  <2>6. Times(i, R(x)) = R(x) * i /\ Times(i, x) = x * i
    BY ONLY <2>2, <2>4, x \in Nat, SMT DEF Times
  <2>7. (x * i) % q = 1
    BY <2>3, <2>5, <2>6 DEF R
  <2> QED
    BY <1>2, <2>1, <2>4, <2>7
<1>3. CASE type \notin {"ECGDSA", "ECKCDSA"}
  <2>1. p = [type |-> type, y |-> R(x)]
    BY <1>3 DEF InitPubKey, ecdsa_init_pub_key, ecfsdsa_init_pub_key, __ecsdsa_init_pub_key,
                ecrdsa_init_pub_key, Sdsa, Algs, Looping, R
  <2> QED
    BY <1>1, <1>3, <2>1 DEF R
<1> QED
  BY <1>2, <1>3

\* What the keys are typed as.
LEMMA KeyTypesHold ==
  ASSUME IInv
  PROVE  /\ priv \in [type : KeyTypes \cup {"none"}, x : Nat]
         /\ pub \in [type : KeyTypes \cup {"none"}, y : Residues \cup {NoPoint}]
         /\ conf.alg \in Algs /\ conf.alg \in KeyTypes
BY DEF IInv, Typed, Confs, KeyTypes

\* A call is refused before anything is written.
LEMMA KeysRefusedStep ==
  ASSUME IInv, Quiet, KeysRefused
  PROVE  IInv'
<1>1. SetKeys(priv, pub, "refused") /\ "refused" \in Pairs
  BY DEF KeysRefused, Pairs
<1> QED
  BY <1>1, KeyTypesHold, KeysStep

\* A private key is set, and its public key computed.
LEMMA ImportPrivStep ==
  ASSUME IInv, Quiet, NEW type \in KeyTypes, NEW x \in Nat, NEW drawn, ImportPriv(type, x, drawn)
  PROVE  IInv'
<1> DEFINE key == [type |-> type, x |-> x]
           new == init_pubkey_from_privkey(key, drawn)
           p == InitPubKey(type, x)
<1>1. SetKeys(key, new.pub, new.pair) /\ key \in [type : KeyTypes \cup {"none"}, x : Nat]
  BY DEF ImportPriv
<1>2. CASE type \notin Algs \/ ~drawn
  <2>1. new.pub = pub /\ new.pair \in Pairs /\ new.pair # "whole"
    BY <1>2 DEF init_pubkey_from_privkey, Pairs
  <2> HIDE DEF new, key
  <2> QED
    BY <1>1, <2>1, KeyTypesHold, KeysStep
<1>3. CASE type \in Algs /\ drawn
  <2>1. new.pub = p /\ new.pair = "whole" /\ "whole" \in Pairs
    BY <1>3 DEF init_pubkey_from_privkey, Pairs
  <2>2. ASSUME p.type # "exit"
        PROVE  /\ p \in [type : KeyTypes \cup {"none"}, y : Residues \cup {NoPoint}]
               /\ Coherent'
    <3>1. /\ p \in [type : {type}, y : Residues]
          /\ IF type \in {"ECGDSA", "ECKCDSA"} THEN (x * p.y) % q = 1 ELSE p.y = x % q
      BY <1>3, <2>2, InitPubKeyType
    <3>2. priv' = key /\ pub' = p
      BY <1>1, <2>1, <2>2 DEF SetKeys
    <3> HIDE DEF p
    <3>3. p.type = type /\ p.y \in Residues /\ p.y # NoPoint
      BY <3>1, CurveAssumption DEF Residues, NoPoint
    <3>4. priv'.type = type /\ priv'.x = x
      BY <3>2
    <3> QED
      BY <1>3, <3>1, <3>2, <3>3, <3>4 DEF Coherent
  <2> HIDE DEF new, key, p
  <2> QED
    BY <1>1, <2>1, <2>2, KeysStep
<1> QED
  BY <1>2, <1>3

\* A public key is set, or what is there loses its point.
LEMMA ImportPubStep ==
  ASSUME IInv, Quiet, NEW type \in KeyTypes, NEW y \in PubBufs \cup {TooLarge, NoPoint},
         NEW newpair \in Pairs, newpair # "whole", ImportPub(type, y, newpair)
  PROVE  IInv'
<1>1. \A z \in PubBufs : z \in Residues /\ z # TooLarge /\ z # NoPoint
  BY KeysAssumption, CurveAssumption DEF Residues, TooLarge, NoPoint
<1>2. TooLarge # NoPoint
  BY CurveAssumption DEF TooLarge, NoPoint
<1>3. CASE y = TooLarge
  <2>1. Exits("coordinate") /\ "coordinate" \in ExitCodes
    BY <1>1, <1>2, <1>3 DEF ImportPub, ExitCodes
  <2> QED
    BY <2>1, ExitStep
<1>4. CASE y = NoPoint
  <2> DEFINE p == IF pub.type = "none" THEN pub ELSE [pub EXCEPT !.y = NoPoint]
  <2>1. SetKeys(priv, p, "refused") /\ "refused" \in Pairs
    BY <1>1, <1>2, <1>4 DEF ImportPub, Pairs
  <2>2. p \in [type : KeyTypes \cup {"none"}, y : Residues \cup {NoPoint}]
    BY KeyTypesHold
  <2> HIDE DEF p
  <2> QED
    BY <2>1, <2>2, KeyTypesHold, KeysStep
<1>5. CASE y \in PubBufs
  <2> DEFINE p == [type |-> type, y |-> y]
  <2>1. SetKeys(priv, p, newpair)
    BY <1>1, <1>2, <1>5 DEF ImportPub
  <2>2. p \in [type : KeyTypes \cup {"none"}, y : Residues \cup {NoPoint}]
    BY <1>1, <1>5
  <2> HIDE DEF p
  <2> QED
    BY <2>1, <2>2, KeyTypesHold, KeysStep
<1> QED
  BY <1>3, <1>4, <1>5

\* What a structured buffer contains.
LEMMA StructureTypes ==
  ASSUME NEW buf \in PrivStructures \cup PubStructures, NEW type, NEW name
  PROVE  /\ buf.key \in Nat
         /\ StructureFits(buf, "EC_PUBKEY", type, name) => buf.key \in PubBufs \cup {TooLarge, NoPoint}
<1>1. \A z \in PubBufs \cup {TooLarge, NoPoint} : z \in Nat
  BY KeysAssumption, CurveAssumption DEF Residues, TooLarge, NoPoint
<1>2. CASE buf \in PrivStructures
  <2>1. buf.key \in PrivBufs /\ buf.kind = "EC_PRIVKEY"
    BY <1>2 DEF PrivStructures, Structures
  <2> QED
    BY <2>1, KeysAssumption DEF StructureFits
<1>3. CASE buf \in PubStructures
  <2>1. buf.key \in PubBufs \cup {TooLarge, NoPoint}
    BY <1>3 DEF PubStructures, Structures
  <2> QED
    BY <1>1, <2>1
<1> QED
  BY <1>2, <1>3

\* Every call on the keys preserves the invariant.
LEMMA KeysNextStep ==
  ASSUME IInv, KeysNext
  PROVE  IInv'
<1>1. conf.alg \in KeyTypes /\ "halves" \in Pairs /\ "refused" \in Pairs
      /\ "halves" # "whole" /\ "refused" # "whole"
  BY DEF KeyTypes, Pairs
<1>2. ASSUME NEW type \in KeyTypes, NEW x \in Keys, NEW drawn, ec_key_pair_gen(type, x, drawn)
      PROVE  IInv'
  <2>1. Quiet /\ ImportPriv(type, x, drawn) /\ x \in Nat
    BY <1>2, RandomAssumption, CurveAssumption DEF ec_key_pair_gen, Scalars
  <2> QED
    BY <2>1, ImportPrivStep
<1>3. CASE ec_key_pair_gen_fails
  BY <1>3, KeysRefusedStep DEF ec_key_pair_gen_fails
<1>4. ASSUME NEW type \in KeyTypes, NEW x \in PrivBufs, NEW drawn,
             ec_key_pair_import_from_priv_key_buf(type, x, drawn)
      PROVE  IInv'
  <2>1. Quiet /\ ImportPriv(type, x, drawn) /\ x \in Nat
    BY <1>4, KeysAssumption DEF ec_key_pair_import_from_priv_key_buf
  <2> QED
    BY <2>1, ImportPrivStep
<1>5. ASSUME NEW buf \in PrivStructures \cup PubStructures, NEW drawn,
             ec_structured_key_pair_import_from_priv_key_buf(buf, conf.alg, drawn)
      PROVE  IInv'
  <2>1. Quiet /\ (ImportPriv(conf.alg, buf.key, drawn) \/ KeysRefused) /\ buf.key \in Nat
    BY <1>5, StructureTypes DEF ec_structured_key_pair_import_from_priv_key_buf
  <2> QED
    BY <1>1, <2>1, ImportPrivStep, KeysRefusedStep
<1>6. ASSUME NEW type \in KeyTypes, NEW x \in Nat, Quiet,
             SetKeys([type |-> type, x |-> x], pub, "halves")
      PROVE  IInv'
  <2> DEFINE key == [type |-> type, x |-> x]
  <2>1. SetKeys(key, pub, "halves") /\ key \in [type : KeyTypes \cup {"none"}, x : Nat]
    BY <1>6
  <2> HIDE DEF key
  <2> QED
    BY <1>1, <1>6, <2>1, KeyTypesHold, KeysStep
<1>7. ASSUME NEW type \in KeyTypes, NEW x \in PrivBufs, ec_priv_key_import_from_buf(type, x)
      PROVE  IInv'
  <2>1. Quiet /\ SetKeys([type |-> type, x |-> x], pub, "halves") /\ x \in Nat
    BY <1>7, KeysAssumption DEF ec_priv_key_import_from_buf
  <2> QED
    BY <1>6, <2>1
<1>8. ASSUME NEW buf \in PrivStructures \cup PubStructures,
             ec_structured_priv_key_import_from_buf(buf, conf.alg)
      PROVE  IInv'
  <2>1. /\ Quiet /\ buf.key \in Nat
        /\ KeysRefused \/ SetKeys([type |-> conf.alg, x |-> buf.key], pub, "halves")
    BY <1>8, StructureTypes DEF ec_structured_priv_key_import_from_buf
  <2> QED
    BY <1>1, <1>6, <2>1, KeysRefusedStep
<1>9. ASSUME NEW type \in KeyTypes, NEW y \in PubBufs \cup {TooLarge, NoPoint},
             ec_pub_key_import_from_buf(type, y)
      PROVE  IInv'
  <2>1. Quiet /\ ImportPub(type, y, "halves")
    BY <1>9 DEF ec_pub_key_import_from_buf
  <2> QED
    BY <1>1, <2>1, ImportPubStep
<1>10. ASSUME NEW buf \in PrivStructures \cup PubStructures,
              ec_structured_pub_key_import_from_buf(buf, conf.alg)
       PROVE  IInv'
  <2>1. /\ Quiet
        /\ \/ KeysRefused
           \/ /\ ImportPub(conf.alg, buf.key, "halves")
              /\ buf.key \in PubBufs \cup {TooLarge, NoPoint}
    BY <1>10, StructureTypes DEF ec_structured_pub_key_import_from_buf
  <2> QED
    BY <1>1, <2>1, ImportPubStep, KeysRefusedStep
<1>11. ASSUME NEW privbuf \in PrivStructures, NEW pubbuf \in PubStructures,
              ec_structured_key_pair_import_from_buf(privbuf, pubbuf, conf.alg)
       PROVE  IInv'
  <2> DEFINE newpriv == [type |-> conf.alg, x |-> privbuf.key]
             newpub == [type |-> conf.alg, y |-> pubbuf.key]
  <2>1. /\ Quiet /\ privbuf.key \in Nat /\ pubbuf.key \in PubBufs \cup {TooLarge, NoPoint}
        /\ \/ KeysRefused
           \/ ImportPub(conf.alg, pubbuf.key, "refused")
           \/ pubbuf.key \in PubBufs /\ SetKeys(newpriv, newpub, "halves")
    <3>1. privbuf.key \in Nat /\ pubbuf.key \in PubBufs \cup {TooLarge, NoPoint}
      BY StructureTypes DEF PubStructures, Structures
    <3> QED
      BY <1>11, <3>1 DEF ec_structured_key_pair_import_from_buf
  <2>2. CASE pubbuf.key \in PubBufs /\ SetKeys(newpriv, newpub, "halves")
    <3>1. newpriv \in [type : KeyTypes \cup {"none"}, x : Nat]
      BY <1>1, <2>1
    <3>2. newpub \in [type : KeyTypes \cup {"none"}, y : Residues \cup {NoPoint}]
      BY <1>1, <2>2, KeysAssumption
    <3> HIDE DEF newpriv, newpub
    <3> QED
      BY <1>1, <2>1, <2>2, <3>1, <3>2, KeysStep
  <2> QED
    BY <1>1, <2>1, <2>2, ImportPubStep, KeysRefusedStep
<1> QED
  BY <1>2, <1>3, <1>4, <1>5, <1>7, <1>8, <1>9, <1>10, <1>11 DEF KeysNext

-----------------------------------------------------------------------------
(* The theorems.                                                             *)

\* A signature that no signer has returned is a pair of numbers.
LEMMA ForgedGiven ==
  ASSUME IInv, NEW in \in Forged
  PROVE  Given(in)
<1> DEFINE halves == CASE conf.alg = "ECKCDSA" -> 0..(2^(ByteBits * R_LEN) - 1)
                       [] conf.alg \in Sdsa -> Digests
                       [] OTHER -> 0..q
<1>1. in \in [r : halves, s : 0..q, of : {NoMsg}, redo : {FALSE}]
  BY DEF Forged
<1>2. \A r \in halves : r \in Nat
  BY CurveAssumption DEF Digests
<1>3. \A s \in 0..q : s \in Nat
  OBVIOUS
<1>4. conf.alg = "ECFSDSA" => halves = 0..q
  BY DEF Sdsa
<1> HIDE DEF halves
<1>5. in \in Signed /\ in.of = NoMsg /\ in.r \in halves
  BY <1>1, <1>2, <1>3 DEF Signed
<1> QED
  BY <1>4, <1>5 DEF Given

\* The buffer of the signer may be given, too.
LEMMA SigGiven ==
  ASSUME IInv
  PROVE  Given(sig)
BY CurveAssumption DEF IInv, Typed, Given, Residues

\* verify_init of any scheme preserves the invariant.
LEMMA VerifyInitStep ==
  ASSUME IInv, NEW in, Given(in), in = sig \/ verify = NoVerify, ec_verify_init(in)
  PROVE  IInv'
BY EcdsaVerifyInitStep, EcgdsaVerifyInitStep, EckcdsaVerifyInitStep, EcfsdsaVerifyInitStep,
   EcsdsaVerifyInitStep, EcrdsaVerifyInitStep DEF ec_verify_init

\* The program stops at an object that is not initialised.
LEMMA MisuseStep ==
  ASSUME IInv, Exits("misuse")
  PROVE  IInv'
<1>1. "misuse" \in ExitCodes
  BY DEF ExitCodes
<1> QED
  BY <1>1, ExitStep

\* A step that changes nothing.
LEMMA StutterStep ==
  ASSUME IInv, UNCHANGED vars
  PROVE  IInv'
<1>1. exited' = exited /\ Exits(exited) /\ exited \in ExitCodes
  BY DEF vars, Exits, keys, IInv, Typed
<1>2. ASSUME exited = "infinity"
      PROVE  \/ verify.pc # "open" \/ verify.sig.of = NoMsg \/ ~Coherent \/ verify.sig.redo
             \/ verify.m # verify.sig.of \/ pub.y = 0
  BY <1>2 DEF IInv, SignedIsAccepted
<1> QED
  BY <1>1, <1>2, ExitStep

\* A session starts from keys that are not set.
LEMMA InitInv == Init => IInv
<1> SUFFICES ASSUME Init PROVE IInv
  OBVIOUS
<1>1. /\ priv = [type |-> "none", x |-> 0] /\ pub = [type |-> "none", y |-> 0] /\ pair = "none"
      /\ sign = NoSign /\ sig = NoSig /\ verify = NoVerify /\ exited = "no"
  BY DEF Init
<1>2. conf \in Confs
  <2>1. PICK alg \in Algs, crv \in Curves, build \in Builds :
          conf = [alg |-> alg, crv |-> crv, blinding |-> build.blinding, source |-> build.source]
    BY DEF Init
  <2>2. build.blinding \in BOOLEAN /\ build.source \in SUBSET Scalars
    BY RandomAssumption
  <2> QED
    BY <2>1, <2>2 DEF Confs
<1>3. 0 \in Residues
  BY CurveAssumption DEF Residues
<1>4. /\ priv \in [type : KeyTypes \cup {"none"}, x : Nat]
      /\ pub \in [type : KeyTypes \cup {"none"}, y : Residues \cup {NoPoint}]
  BY <1>1, <1>3
<1>5. Typed
  BY <1>1, <1>2, <1>3, <1>4, FreshTypes DEF Typed, Pairs, ExitCodes, NoSig
<1>6. verify.pc = "closed" /\ sign.pc = "closed" /\ sig.of = NoMsg /\ verify.sig.of = NoMsg
  BY <1>1 DEF NoVerify, NoSign, NoSig
<1>7. Signing /\ Verifying /\ WholePairCoherent
  BY <1>1, <1>6 DEF Signing, Verifying, WholePairCoherent
<1>8. SignatureValid /\ VerdictCorrect /\ SignedIsAccepted
  BY <1>6 DEF SignatureValid, VerdictCorrect, SignedIsAccepted
<1> QED
  BY <1>5, <1>7, <1>8 DEF IInv

\* The invariant is inductive.
LEMMA NextInv == IInv /\ [Next]_vars => IInv'
<1> SUFFICES ASSUME IInv, [Next]_vars PROVE IInv'
  OBVIOUS
<1>1. CASE KeysNext
  BY <1>1, KeysNextStep
<1>2. CASE EcdsaNext
  BY <1>2, EcdsaStep
<1>3. CASE EcgdsaNext
  BY <1>3, EcgdsaStep
<1>4. CASE EckcdsaNext
  BY <1>4, EckcdsaStep
<1>5. CASE EcfsdsaNext
  BY <1>5, EcfsdsaStep
<1>6. CASE EcsdsaNext
  BY <1>6, EcsdsaStep
<1>7. CASE EcrdsaNext
  BY <1>7, EcrdsaStep
<1>8. CASE key_pair_check_exits
  BY <1>8, MisuseStep DEF key_pair_check_exits
<1>9. CASE ec_sign_init_fails
  BY <1>9, SignInitFailsStep
<1>10. CASE ClosedSignUsed
  BY <1>10, MisuseStep DEF ClosedSignUsed
<1>11. CASE DrawFails
  BY <1>11, SignStopsStep
<1>12. CASE sig # NoSig /\ ec_verify_init(sig)
  BY <1>12, SigGiven, VerifyInitStep
<1>13. CASE priv.type = "none" /\ verify = NoVerify /\ \E in \in Forged : ec_verify_init(in)
  BY <1>13, ForgedGiven, VerifyInitStep
<1>14. CASE ec_verify_init_fails
  BY <1>14, VerifyInitFailsStep
<1>15. CASE pub_key_check_exits
  BY <1>15, MisuseStep DEF pub_key_check_exits
<1>16. CASE ClosedVerifyUsed
  BY <1>16, MisuseStep DEF ClosedVerifyUsed
<1>17. CASE UNCHANGED vars
  BY <1>17, StutterStep
<1> QED
  BY <1>1, <1>2, <1>3, <1>4, <1>5, <1>6, <1>7, <1>8, <1>9, <1>10, <1>11, <1>12, <1>13, <1>14,
     <1>15, <1>16, <1>17 DEF Next

\* IInv holds in every state of every sequence of calls.
THEOREM Inductive == Spec => []IInv
<1> QED
  BY InitInv, NextInv, PTL DEF Spec

\* The variables keep their types, and a session the keys it began with.
THEOREM TypeCorrect == Spec => []TypeOK
<1>1. IInv => TypeOK
  <2> SUFFICES ASSUME IInv PROVE TypeOK
    OBVIOUS
  <2>1. /\ priv \in [type : KeyTypes \cup {"none"}, x : Nat]
        /\ pub \in [type : KeyTypes \cup {"none"}, y : Residues \cup {NoPoint}]
        /\ pair \in Pairs /\ sign \in Signers /\ sig \in Signed /\ verify \in Verifiers
        /\ exited \in ExitCodes
    BY DEF IInv, Typed
  <2>2. /\ sign.pc \in {"closed", "open", "draw"} /\ sign.m \in Messages
        /\ sign.e \in Nat /\ sign.k \in Scalars /\ sign.finals \in 0..MaxFinals
    BY <2>1 DEF Signers, SignPcs
  <2>3. sig.of \in Messages \cup {NoMsg} /\ verify.m \in Messages /\ verify.pc \in VerifyPcs
    BY <2>1 DEF Signed, Verifiers
  <2>4. /\ sign.pc # "closed" => KeysMatch
        /\ sign.pc = "draw" => conf.alg \in Looping
        /\ verify.pc # "closed" => pub.type = conf.alg
        /\ verify.pc \in {"open", "accepted", "rejected"} => verify.sig.s \in Scalars
    BY DEF IInv, Signing, Verifying
  <2> QED
    BY <2>1, <2>2, <2>3, <2>4 DEF TypeOK, Pairs, ExitCodes, VerifyPcs
<1> QED
  BY <1>1, Inductive, PTL

\* Whatever was imported before, a pair that a call has computed as a whole is
\* coherent: no call leaves one half of an older pair behind.
THEOREM WholePairs == Spec => []WholePairCoherent
<1>1. IInv => WholePairCoherent
  BY DEF IInv
<1> QED
  BY <1>1, Inductive, PTL

\* In each of the seven schemes, for every order, curve, hash function, build
\* and number of restarts, what sign_finalize returns satisfies the equation of
\* the scheme, the masks of the blinding cancelling out.
THEOREM SignaturesAreValid == Spec => []SignatureValid
<1>1. IInv => SignatureValid
  BY DEF IInv
<1> QED
  BY <1>1, Inductive, PTL

\* The verifier of each scheme accepts what satisfies its equation and nothing
\* else, and refuses at init only what no message can make valid.
THEOREM VerdictsAreCorrect == Spec => []VerdictCorrect
<1>1. IInv => VerdictCorrect
  BY DEF IInv
<1> QED
  BY <1>1, Inductive, PTL

\* A signature that was returned is accepted for its message, and stops the
\* program at infinity only if the public key is infinity.
THEOREM SignedAreAccepted == Spec => []SignedIsAccepted
<1>1. IInv => SignedIsAccepted
  BY DEF IInv
<1> QED
  BY <1>1, Inductive, PTL

\* Whatever curves the table lists, a structured private key is imported as the
\* key it was, for its own algorithm and curve only.
THEOREM StructuredKeys == Spec => []StructuredKeysReimport
<1>1. StructuredKeysReimport
  <2> SUFFICES ASSUME priv.type \in Algs, NEW name \in Names, NEW other \in Names,
                      NEW type \in KeyTypes, NEW buf,
                      buf = ec_structured_key_export("EC_PRIVKEY", priv.type, name, priv.x),
                      buf.kind # "refused"
               PROVE  /\ buf.key = priv.x
                      /\ StructureFits(buf, "EC_PRIVKEY", type, other) <=>
                           type = priv.type /\ other = name
    BY DEF StructuredKeysReimport
  <2> DEFINE crv == ec_get_curve_type_by_name(name)
             map == CHOOSE m \in ec_maps : m.name = name
  <2>1. crv # UNKNOWN_CURVE
    BY DEF ec_structured_key_export
  <2>2. buf = [kind |-> "EC_PRIVKEY", alg |-> priv.type, crv |-> crv, key |-> priv.x]
    BY <2>1 DEF ec_structured_key_export
  <2>3. map \in ec_maps /\ map.name = name /\ crv = map.type
    BY <2>1 DEF ec_get_curve_type_by_name
  <2> HIDE DEF crv, map
  <2>4. ec_check_curve_type_and_name(crv, other) <=> other = name
    BY <2>3, KeysAssumption DEF ec_check_curve_type_and_name
  <2> QED
    BY <2>2, <2>4 DEF StructureFits
<1> QED
  BY <1>1, PTL
=============================================================================
