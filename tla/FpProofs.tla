-------------------------------- MODULE FpProofs --------------------------------
(***************************************************************************)
(* Proofs about Fp: for every prime, word size and number of registers,    *)
(* operations compute in the field, whatever widths earlier operations     *)
(* left and whichever registers are shared.                                *)
(***************************************************************************)
EXTENDS Fp, NumberLemmas

-----------------------------------------------------------------------------
(* Powers of the base, and the context of the field.                         *)

\* The powers of B.
LEMMA PowB ==
  /\ NN_MAX_WORD_LEN \in Nat
  /\ B \in Nat /\ B > 1 /\ B^0 = 1 /\ B^1 = B
  /\ \A n \in 0..NN_MAX_WORD_LEN : B^n \in Nat \ {0} /\ B^(n + 1) = B * B^n
  /\ \A m, n \in Nat : m + n <= NN_MAX_WORD_LEN => B^(m + n) = B^m * B^n
<1>1. NN_MAX_WORD_LEN \in Nat /\ NN_MAX_WORD_LEN >= 1 /\ WORD_BITS \in Nat \ {0}
  BY FieldAssumption
<1>2. B \in Nat /\ B > 1
  <2>1. WORD_BITS - 1 \in 0..(WORD_BITS * NN_MAX_WORD_LEN) /\ (WORD_BITS - 1) + 1 = WORD_BITS
    BY <1>1
  <2>2. 2^WORD_BITS = 2 * 2^(WORD_BITS - 1) /\ 2^(WORD_BITS - 1) \in Nat \ {0}
    BY <2>1, PowersAssumption
  <2> QED
    BY <2>2 DEF B
<1>3. B^0 = 1 /\ \A n \in 0..NN_MAX_WORD_LEN : B^n \in Nat \ {0} /\ B^(n + 1) = B * B^n
  BY PowersAssumption
<1>4. PowersOf(B, NN_MAX_WORD_LEN)
  BY <1>3 DEF PowersOf
<1>5. B^1 = B
  <2>1. 0 \in 0..NN_MAX_WORD_LEN /\ 0 + 1 = 1
    BY <1>1
  <2>2. B^(0 + 1) = B * B^0
    BY ONLY <1>3, <2>1
  <2> QED
    BY <1>2, <1>3, <2>1, <2>2
<1>6. ASSUME NEW m \in Nat, NEW n \in Nat, m + n <= NN_MAX_WORD_LEN
      PROVE  B^(m + n) = B^m * B^n
  BY ONLY <1>1, <1>2, <1>4, <1>6, PowerSum
<1> QED
  BY <1>1, <1>2, <1>3, <1>5, <1>6

\* More words hold larger numbers.
LEMMA PowMonotone ==
  ASSUME NEW m \in 0..NN_MAX_WORD_LEN, NEW n \in 0..NN_MAX_WORD_LEN, m <= n
  PROVE  B^m <= B^n
<1>1. NN_MAX_WORD_LEN \in Nat
  BY PowB
<1>2. n - m \in Nat /\ m + (n - m) = n /\ n - m \in 0..NN_MAX_WORD_LEN /\ m \in Nat
  BY <1>1
<1>3. B^n = B^m * B^(n - m) /\ B^m \in Nat /\ B^(n - m) \in Nat \ {0}
  <2>1. B^(m + (n - m)) = B^m * B^(n - m)
    BY <1>1, <1>2, PowB
  <2> QED
    BY <1>2, <2>1, PowB
<1> QED
  BY ONLY <1>3

\* The length of p.
LEMMA LengthOfP ==
  /\ PWlen \in 2..NN_MAX_WORD_LEN /\ P < B^PWlen /\ (PWlen = 2 \/ B^(PWlen - 1) <= P)
  /\ 3 * PWlen <= NN_MAX_WORD_LEN
  /\ P \in Nat /\ P > 2
<1> DEFINE L == {n \in 2..NN_MAX_WORD_LEN : P < B^n}
           Least(n) == P < B^n /\ (n = 2 \/ B^(n - 1) <= P)
<1>1. NN_MAX_WORD_LEN \in Nat /\ NN_MAX_WORD_LEN >= 2 /\ P < B^NN_MAX_WORD_LEN
      /\ NN_MAX_WORD_LEN >= 3 * PWlen /\ P \in Nat /\ P > 2
  BY FieldAssumption
<1>2. L \subseteq Nat /\ L # {}
  BY <1>1
<1>3. PICK x \in L : \A y \in L : x <= y
  <2> HIDE DEF L
  <2> QED
    BY <1>2, SmallestElement
<1>4. x \in 2..NN_MAX_WORD_LEN /\ Least(x)
  <2>1. x \in 2..NN_MAX_WORD_LEN /\ P < B^x
    OBVIOUS
  <2>2. ASSUME x # 2
        PROVE  B^(x - 1) <= P
    <3>1. x - 1 \in 2..NN_MAX_WORD_LEN /\ ~ (x <= x - 1)
      BY <1>1, <2>1, <2>2
    <3>2. x - 1 \notin L
      BY <1>3, <3>1
    <3>3. ~ (P < B^(x - 1))
      BY <3>1, <3>2
    <3>4. B^(x - 1) \in Nat
      BY <3>1, PowB
    <3> QED
      BY <1>1, <3>3, <3>4
  <2> QED
    BY <2>1, <2>2
<1>5. PWlen = CHOOSE n \in 2..NN_MAX_WORD_LEN : Least(n)
  BY DEF PWlen
<1>6. PWlen \in 2..NN_MAX_WORD_LEN /\ Least(PWlen)
  <2> HIDE DEF Least
  <2> QED
    BY ONLY <1>4, <1>5
<1> QED
  BY <1>1, <1>6

\* p is odd, and a number that p does not divide is prime to it.
LEMMA OddP == P % 2 = 1 /\ 2 * ((P \div 2) + 1) = P + 1
<1>1. P \in Nat /\ P > 2 /\ \A d \in 2..(P - 1) : P % d # 0
  BY FieldAssumption
<1>2. P % 2 # 0
  BY <1>1
<1> QED
  BY <1>1, <1>2

\* mpinv is -1/p modulo B.
LEMMA MpinvCorrect == mpinv \in 0..(B - 1) /\ (mpinv * P + 1) % B = 0
<1> DEFINE N == WORD_BITS
           Inv(w, n) == (w * P + 1) % 2^n = 0
           L == {n \in 0..N : ~\E w \in Nat : Inv(w, n)}
<1>1. P \in Nat /\ P > 2 /\ P % 2 = 1 /\ N \in Nat /\ N <= WORD_BITS * NN_MAX_WORD_LEN
      /\ WORD_BITS * NN_MAX_WORD_LEN \in Nat
  BY OddP, FieldAssumption
<1>2. 2^0 = 1 /\ \A i \in 0..N : 2^i \in Nat \ {0} /\ 2^(i + 1) = 2 * 2^i
  <2>1. \A i \in 0..N : i \in 0..(WORD_BITS * NN_MAX_WORD_LEN)
    BY <1>1
  <2> QED
    BY ONLY <2>1, PowersAssumption
<1>3. ASSUME L # {}
      PROVE  FALSE
  <2>1. PICK x \in L : \A y \in L : x <= y
    <3>1. L \subseteq Nat
      OBVIOUS
    <3> HIDE DEF L
    <3> QED
      BY ONLY <1>3, <3>1, SmallestElement
  <2>2. x \in 0..N /\ ~\E w \in Nat : Inv(w, x)
    OBVIOUS
  <2>3. x # 0
    <3>1. ASSUME x = 0
          PROVE  FALSE
      <4>1. (0 * P + 1) % 1 = 0
        BY <1>1
      <4> QED
        BY <1>2, <2>2, <3>1, <4>1
    <3> QED
      BY <3>1
  <2>4. x - 1 \in 0..N /\ (x - 1) + 1 = x /\ ~ (x <= x - 1)
    BY <1>1, <2>2, <2>3
  <2>5. PICK w \in Nat : Inv(w, x - 1)
    <3> HIDE DEF Inv
    <3> QED
      BY <2>1, <2>4
  <2> DEFINE h == 2^(x - 1)
             c == (w * P + 1) \div h
  <2>6. h \in Nat \ {0} /\ 2^x = 2 * h
    BY <1>2, <2>4
  <2>7. (w * P + 1) % h = 0 /\ w * P + 1 \in Nat
    BY <1>1, <2>5
  <2> HIDE DEF h
  <2>8. c \in Nat /\ w * P + 1 = h * c
    <3> DEFINE n == w * P + 1
    <3>1. n \in Nat /\ n % h = 0
      BY <2>7
    <3> HIDE DEF n
    <3>2. /\ n \div h \in Nat
          /\ n % h \in 0..(h - 1)
          /\ n = h * (n \div h) + (n % h)
      BY ONLY <2>6, <3>1, DivMod, Zenon
    <3>3. n = h * (n \div h)
      BY ONLY <2>6, <3>1, <3>2
    <3> QED
      BY ONLY <3>2, <3>3 DEF n, c
  <2> HIDE DEF c
  <2>9. \E v, k \in Nat : v * P + 1 = (2 * h) * k
    <3>1. CASE c % 2 = 0
      <4>1. PICK k \in Nat : c = 2 * k
        BY ONLY <2>8, <3>1
      <4>2. h * (2 * k) = (2 * h) * k
        BY ONLY <2>6, <4>1
      <4> QED
        BY ONLY <2>8, <4>1, <4>2
    <3>2. CASE c % 2 # 0
      <4>1. PICK k \in Nat : c + P = 2 * k
        <5>1. c = 2 * (c \div 2) + 1 /\ c \div 2 \in Nat
          BY ONLY <2>8, <3>2
        <5>2. P = 2 * (P \div 2) + 1 /\ P \div 2 \in Nat
          BY ONLY <1>1
        <5>3. c + P = 2 * ((c \div 2) + (P \div 2) + 1)
          BY ONLY <5>1, <5>2
        <5>4. (c \div 2) + (P \div 2) + 1 \in Nat
          BY ONLY <5>1, <5>2
        <5> QED
          BY ONLY <5>3, <5>4
      <4>2. w + h \in Nat /\ (w + h) * P + 1 = (w * P + 1) + h * P
        BY ONLY <1>1, <2>6
      <4>3. h * c + h * P = h * (c + P)
        BY ONLY <1>1, <2>6, <2>8
      <4>4. h * (2 * k) = (2 * h) * k
        BY ONLY <2>6, <4>1
      <4>5. (w + h) * P + 1 = (2 * h) * k
        BY ONLY <2>8, <4>1, <4>2, <4>3, <4>4
      <4> QED
        BY ONLY <4>1, <4>2, <4>5
    <3> QED
      BY <3>1, <3>2
  <2>10. PICK v \in Nat, k \in Nat : v * P + 1 = (2 * h) * k
    BY ONLY <2>9
  <2>11. (v * P + 1) % (2 * h) = 0
    <3>1. 2 * h \in Nat \ {0} /\ v * P + 1 \in Nat /\ 0 \in 0..(2 * h - 1)
          /\ v * P + 1 = (2 * h) * k + 0
      BY ONLY <1>1, <2>6, <2>10
    <3> DEFINE n == v * P + 1
               d == 2 * h
    <3>2. n \in Nat /\ d \in Nat \ {0} /\ 0 \in 0..(d - 1) /\ n = d * k + 0
      BY ONLY <3>1
    <3> HIDE DEF n, d
    <3>3. n % d = 0
      BY ONLY <2>10, <3>2, DivUnique
    <3> QED
      BY ONLY <3>3 DEF n, d
  <2> QED
    BY <2>2, <2>6, <2>10, <2>11
<1>4. PICK w \in Nat : (w * P + 1) % B = 0
  <2>1. N \in 0..N /\ N \notin L
    <3> HIDE DEF L
    <3> QED
      BY <1>1, <1>3
  <2> QED
    BY <2>1 DEF B
<1>5. \E z \in 0..(B - 1) : (z * P + 1) % B = 0
  <2>1. B \in Nat \ {0}
    BY PowB
  <2> DEFINE z == w % B
             k == w \div B
  <2>2. z \in 0..(B - 1) /\ k \in Nat /\ w = B * k + z
    BY ONLY <2>1, <1>4, DivMod
  <2> HIDE DEF z, k
  <2>3. w * P + 1 = (z * P + 1) + B * (k * P) /\ k * P \in Nat /\ z * P + 1 \in Nat
    BY ONLY <1>1, <2>1, <2>2
  <2>4. ((z * P + 1) + B * (k * P)) % B = (z * P + 1) % B
    BY ONLY <2>1, <2>3, AddMultiple
  <2> QED
    BY <1>4, <2>2, <2>3, <2>4
<1> QED
  BY <1>5 DEF mpinv

\* The constants of the context.
LEMMA ConstantTypes ==
  /\ p = [wlen |-> PWlen, val |-> P]
  /\ R \in Nat \ {0} /\ R > P
  /\ r_square.wlen = PWlen /\ r_square.val \in 0..(P - 1)
  /\ DOMAIN Constants = {"p", "r_square", "one", "r", "mp1d2"}
  /\ Constants["p"] = p /\ Constants["r_square"] = r_square
  /\ Constants["one"] = [wlen |-> 1, val |-> 1]
  /\ Constants["r"] = [wlen |-> PWlen, val |-> R % P] /\ R % P \in 0..(P - 1)
  /\ Constants["mp1d2"] = [wlen |-> PWlen, val |-> (P \div 2) + 1]
<1>1. R \in Nat \ {0} /\ R > P
  BY LengthOfP, PowB DEF R
<1>2. P \in Nat \ {0} /\ R * R \in Nat
  BY <1>1, LengthOfP
<1>3. (R * R) % P \in 0..(P - 1) /\ R % P \in 0..(P - 1)
  BY ONLY <1>1, <1>2, DivMod
<1> QED
  BY <1>1, <1>3 DEF p, r_square, Constants

-----------------------------------------------------------------------------
(* Numbers with clean storage, and stores.                                   *)

Nn == [wlen : 0..NN_MAX_WORD_LEN, val : Nat]

\* The words past the length are 0.
Clean(a) == a \in Nn /\ a.val < B^a.wlen

Names == Regs \cup DOMAIN Constants \cup Locals
Stores == [nn : [Names -> Nn], ok : BOOLEAN]

\* T is S after out was set to a; what is in W may have changed too.
Sets(S, T, W, out, a) ==
  /\ T \in Stores /\ T.nn[out] = a
  /\ \A x \in Names \ W : T.nn[x] = S.nn[x]

\* Reading a clean number over at least its length gives the number.
LEMMA LowClean ==
  ASSUME NEW a, Clean(a)
  PROVE  /\ a.wlen \in 0..NN_MAX_WORD_LEN /\ a.val \in Nat /\ Value(a) = a.val
         /\ \A n \in a.wlen..NN_MAX_WORD_LEN : Low(a, n) = a.val /\ a.val < B^n
<1>1. a.wlen \in 0..NN_MAX_WORD_LEN /\ a.val \in Nat /\ a.val < B^a.wlen
  BY DEF Clean, Nn
<1>2. NN_MAX_WORD_LEN \in Nat
  BY PowB
<1>3. ASSUME NEW n \in a.wlen..NN_MAX_WORD_LEN
      PROVE  Low(a, n) = a.val /\ a.val < B^n
  <2>1. n \in 0..NN_MAX_WORD_LEN /\ a.wlen <= n
    BY <1>1, <1>2
  <2>2. B^a.wlen <= B^n /\ B^n \in Nat \ {0} /\ B^a.wlen \in Nat
    BY <1>1, <2>1, PowB, PowMonotone
  <2>3. a.val < B^n
    BY <1>1, <2>2
  <2>4. a.val \in 0..(B^n - 1)
    BY ONLY <1>1, <2>2, <2>3
  <2>5. a.val % B^n = a.val
    BY ONLY <2>2, <2>4, SmallMod
  <2> QED
    BY <2>3, <2>5 DEF Low
<1>4. Value(a) = a.val
  BY <1>1, <1>2, <1>3 DEF Value
<1> QED
  BY <1>1, <1>3, <1>4

\* Writing at least the words of a clean number replaces it.
LEMMA WithWordsClean ==
  ASSUME NEW a, Clean(a), NEW n \in a.wlen..NN_MAX_WORD_LEN, NEW v \in Nat
  PROVE  WithWords(a, n, v) = [wlen |-> a.wlen, val |-> v % B^n]
<1>1. Low(a, n) = a.val /\ a.val \in Nat /\ a.wlen \in 0..NN_MAX_WORD_LEN
  BY LowClean
<1>2. a = [wlen |-> a.wlen, val |-> a.val]
  BY DEF Clean, Nn
<1>3. B^n \in Nat \ {0}
  BY <1>1, PowB
<1>4. v % B^n \in Nat
  BY ONLY <1>3, v \in Nat, DivMod
<1>5. (v % B^n) + (a.val - Low(a, n)) = v % B^n
  BY ONLY <1>1, <1>4
<1> QED
  BY <1>2, <1>5 DEF WithWords

\* Numbers that fit keep their value when the length is set.
LEMMA SetWlenFits ==
  ASSUME NEW a, Clean(a), NEW n \in 0..NN_MAX_WORD_LEN, a.val < B^n
  PROVE  nn_set_wlen(a, n) = [wlen |-> n, val |-> a.val] /\ Clean([wlen |-> n, val |-> a.val])
<1>1. a.val \in Nat /\ B^n \in Nat \ {0}
  BY LowClean, PowB
<1>2. a.val \in 0..(B^n - 1)
  BY ONLY <1>1, a.val < B^n
<1>3. Low(a, n) = a.val
  BY ONLY <1>1, <1>2, SmallMod DEF Low
<1>4. a = [wlen |-> a.wlen, val |-> a.val]
  BY DEF Clean, Nn
<1>5. nn_set_wlen(a, n) = [wlen |-> n, val |-> a.val]
  BY <1>3, <1>4 DEF nn_set_wlen
<1> QED
  BY <1>1, <1>5 DEF Clean, Nn

\* The larger of two lengths.
LEMMA MaxWlenBounds ==
  ASSUME NEW a, NEW b, a.wlen \in 0..NN_MAX_WORD_LEN, b.wlen \in 0..NN_MAX_WORD_LEN
  PROVE  /\ MaxWlen(a, b) \in 0..NN_MAX_WORD_LEN
         /\ a.wlen <= MaxWlen(a, b) /\ b.wlen <= MaxWlen(a, b)
         /\ MaxWlen(a, b) = a.wlen \/ MaxWlen(a, b) = b.wlen
BY PowB DEF MaxWlen

\* Clean numbers are compared by value.
LEMMA CompareClean ==
  ASSUME NEW a, NEW b, Clean(a), Clean(b)
  PROVE  /\ nn_less(a, b) <=> a.val < b.val
         /\ nn_equal(a, b) <=> a.val = b.val
         /\ nn_iszero(a) <=> a.val = 0
<1> DEFINE n == MaxWlen(a, b)
<1>1. a.wlen \in 0..NN_MAX_WORD_LEN /\ b.wlen \in 0..NN_MAX_WORD_LEN /\ Value(a) = a.val
  BY LowClean
<1>2. n \in a.wlen..NN_MAX_WORD_LEN /\ n \in b.wlen..NN_MAX_WORD_LEN
  BY <1>1, MaxWlenBounds
<1>3. Low(a, n) = a.val /\ Low(b, n) = b.val
  BY <1>2, LowClean
<1> QED
  BY <1>1, <1>3 DEF nn_less, nn_equal, nn_iszero

\* Zero of any length.
LEMMA InitClean ==
  ASSUME NEW n \in 0..NN_MAX_WORD_LEN
  PROVE  Clean(nn_init(n)) /\ nn_init(n).wlen = n /\ nn_init(n).val = 0
<1>1. B^n \in Nat \ {0}
  BY PowB
<1> QED
  BY <1>1 DEF Clean, Nn, nn_init

\* Writing a number to a store.
LEMMA PutSets ==
  ASSUME NEW S \in Stores, NEW out \in Names, NEW a \in Nn
  PROVE  Sets(S, Put(S, out, a), {out}, out, a) /\ Put(S, out, a).ok = S.ok
BY DEF Sets, Stores, Put

\* A condition leaves the numbers alone.
LEMMA MustHaveKeeps ==
  ASSUME NEW S \in Stores, NEW cond \in BOOLEAN
  PROVE  /\ MustHave(S, cond) \in Stores /\ MustHave(S, cond).nn = S.nn
         /\ MustHave(S, cond).ok = (S.ok /\ cond)
BY DEF Stores, MustHave

-----------------------------------------------------------------------------
(* Addition and subtraction.                                                 *)

\* Resizing one clean number of a store.
LEMMA SetWlenSets ==
  ASSUME NEW S \in Stores, NEW out \in Names, Clean(S.nn[out]),
         NEW n \in 0..NN_MAX_WORD_LEN, S.nn[out].val < B^n
  PROVE  /\ Sets(S, SetWlen(S, out, n), {out}, out, [wlen |-> n, val |-> S.nn[out].val])
         /\ SetWlen(S, out, n).ok = S.ok
<1> DEFINE a == [wlen |-> n, val |-> S.nn[out].val]
<1>1. nn_set_wlen(S.nn[out], n) = a /\ Clean(a)
  BY SetWlenFits
<1>2. a \in Nn
  BY <1>1 DEF Clean
<1> QED
  BY <1>1, <1>2, PutSets DEF SetWlen

\* Before a word loop the operands keep their values, and out is clean.
LEMMA PrepareKeeps ==
  ASSUME NEW S \in Stores, NEW out \in Names, NEW in1 \in Names, NEW in2 \in Names,
         Clean(S.nn[in1]), Clean(S.nn[in2]),
         NEW m \in 0..MaxWlen(S.nn[in1], S.nn[in2]),
         out \in {in1, in2} => S.nn[out].val < B^m
  PROVE  LET n == MaxWlen(S.nn[in1], S.nn[in2])
             T == Prepare(S, out, in1, in2, n, m)
         IN  /\ T \in Stores /\ T.ok = S.ok
             /\ Clean(T.nn[out]) /\ T.nn[out].wlen = (IF out \in {in1, in2} THEN m ELSE n)
             /\ Low(T.nn[in1], n) = S.nn[in1].val /\ Low(T.nn[in2], n) = S.nn[in2].val
             /\ \A x \in Names \ {out} : T.nn[x] = S.nn[x]
<1> DEFINE n == MaxWlen(S.nn[in1], S.nn[in2])
           T == Prepare(S, out, in1, in2, n, m)
<1> SUFFICES /\ T \in Stores /\ T.ok = S.ok
             /\ Clean(T.nn[out]) /\ T.nn[out].wlen = (IF out \in {in1, in2} THEN m ELSE n)
             /\ Low(T.nn[in1], n) = S.nn[in1].val /\ Low(T.nn[in2], n) = S.nn[in2].val
             /\ \A x \in Names \ {out} : T.nn[x] = S.nn[x]
  OBVIOUS
<1>1. /\ n \in 0..NN_MAX_WORD_LEN
      /\ n \in S.nn[in1].wlen..NN_MAX_WORD_LEN /\ n \in S.nn[in2].wlen..NN_MAX_WORD_LEN
  <2>1. S.nn[in1].wlen \in 0..NN_MAX_WORD_LEN /\ S.nn[in2].wlen \in 0..NN_MAX_WORD_LEN
    BY LowClean
  <2> QED
    BY <2>1, MaxWlenBounds
<1>0. m \in 0..n /\ m \in 0..NN_MAX_WORD_LEN
  <2>1. m \in 0..n /\ NN_MAX_WORD_LEN \in Nat
    BY PowB
  <2> HIDE DEF n
  <2> QED
    BY <1>1, <2>1
<1> HIDE DEF n
<1>2. /\ Low(S.nn[in1], n) = S.nn[in1].val /\ S.nn[in1].val < B^n
      /\ Low(S.nn[in2], n) = S.nn[in2].val /\ S.nn[in2].val < B^n
      /\ S.nn[in1].val \in Nat /\ S.nn[in2].val \in Nat
  BY <1>1, LowClean
<1>3. CASE out \in {in1, in2}
  <2>1. T = SetWlen(S, out, m)
    BY <1>3 DEF Prepare
  <2>2. Clean(S.nn[out]) /\ S.nn[out].val < B^m /\ S.nn[out].val \in Nat
    BY <1>2, <1>3
  <2> DEFINE a == [wlen |-> m, val |-> S.nn[out].val]
  <2>3. Sets(S, T, {out}, out, a) /\ T.ok = S.ok
    BY <1>0, <2>1, <2>2, SetWlenSets
  <2>4. Clean(a)
    BY <1>0, <2>2, SetWlenFits
  <2>5. Low(a, n) = S.nn[out].val
    <3>1. n \in a.wlen..NN_MAX_WORD_LEN
      BY <1>0, <1>1
    <3> HIDE DEF a
    <3>2. Low(a, n) = a.val
      BY <2>4, <3>1, LowClean
    <3> QED
      BY <3>2 DEF a
  <2> HIDE DEF T
  <2>6. \A x \in {in1, in2} : Low(T.nn[x], n) = S.nn[x].val
    BY <1>2, <2>3, <2>5 DEF Sets
  <2> QED
    BY <1>3, <2>3, <2>4, <2>6 DEF Sets
<1>4. CASE out \notin {in1, in2}
  <2>1. T = Put(S, out, nn_init(n))
    BY <1>4 DEF Prepare
  <2>2. Clean(nn_init(n)) /\ nn_init(n).wlen = n
    BY <1>1, InitClean
  <2>3. Sets(S, T, {out}, out, nn_init(n)) /\ T.ok = S.ok
    BY <2>1, <2>2, PutSets DEF Clean
  <2> HIDE DEF T
  <2> QED
    BY <1>2, <1>4, <2>2, <2>3 DEF Sets
<1> QED
  BY <1>3, <1>4

\* The sum of two clean numbers, with one more word if it needs one.
Sum(a, b) ==
  [wlen |-> IF a.val + b.val < B^MaxWlen(a, b) THEN MaxWlen(a, b) ELSE MaxWlen(a, b) + 1,
   val |-> a.val + b.val]

LEMMA SumClean ==
  ASSUME NEW a, NEW b, Clean(a), Clean(b), MaxWlen(a, b) < NN_MAX_WORD_LEN
  PROVE  Clean(Sum(a, b))
<1> DEFINE n == MaxWlen(a, b)
<1>1. a.wlen \in 0..NN_MAX_WORD_LEN /\ b.wlen \in 0..NN_MAX_WORD_LEN
      /\ a.val \in Nat /\ b.val \in Nat /\ NN_MAX_WORD_LEN \in Nat
  BY LowClean, PowB
<1>2. n \in 0..NN_MAX_WORD_LEN /\ n \in a.wlen..NN_MAX_WORD_LEN /\ n \in b.wlen..NN_MAX_WORD_LEN
      /\ n + 1 \in 0..NN_MAX_WORD_LEN
  BY <1>1, MaxWlenBounds
<1> HIDE DEF n
<1>3. a.val < B^n /\ b.val < B^n
  BY <1>2, LowClean
<1>4. B^n \in Nat /\ B^(n + 1) = B * B^n /\ B \in Nat /\ B > 1
  BY <1>2, PowB
<1>5. a.val + b.val < B^(n + 1)
  <2> DEFINE W == B^n
  <2>1. B * W >= 2 * W /\ W \in Nat /\ a.val < W /\ b.val < W
    BY <1>3, <1>4
  <2> HIDE DEF W
  <2>2. a.val + b.val < B * W
    BY ONLY <1>1, <1>4, <2>1
  <2> QED
    BY <1>4, <2>2 DEF W
<1> QED
  BY <1>1, <1>2, <1>5 DEF Sum, Clean, Nn, n

LEMMA CndAdd ==
  ASSUME NEW S \in Stores, NEW out \in Names, NEW in1 \in Names, NEW in2 \in Names,
         Clean(S.nn[in1]), Clean(S.nn[in2]),
         MaxWlen(S.nn[in1], S.nn[in2]) < NN_MAX_WORD_LEN
  PROVE  LET T == nn_cnd_add(TRUE, S, out, in1, in2)
             a == Sum(S.nn[in1], S.nn[in2])
         IN  Sets(S, T, {out}, out, a) /\ Clean(a) /\ T.ok = S.ok
<1> DEFINE n == MaxWlen(S.nn[in1], S.nn[in2])
           T == Prepare(S, out, in1, in2, n, n)
           sum == S.nn[in1].val + S.nn[in2].val
           c == WithWords(T.nn[out], n, sum)
           a == Sum(S.nn[in1], S.nn[in2])
           U == nn_cnd_add(TRUE, S, out, in1, in2)
<1> SUFFICES Sets(S, U, {out}, out, a) /\ U.ok = S.ok
  BY SumClean
<1>1. /\ T \in Stores /\ T.ok = S.ok
      /\ Clean(T.nn[out]) /\ T.nn[out].wlen = n
      /\ Low(T.nn[in1], n) = S.nn[in1].val /\ Low(T.nn[in2], n) = S.nn[in2].val
      /\ \A x \in Names \ {out} : T.nn[x] = S.nn[x]
  <2>1. n \in 0..n /\ (out \in {in1, in2} => S.nn[out].val < B^n)
    <3>1. S.nn[in1].wlen \in 0..NN_MAX_WORD_LEN /\ S.nn[in2].wlen \in 0..NN_MAX_WORD_LEN
      BY LowClean
    <3>2. n \in S.nn[in1].wlen..NN_MAX_WORD_LEN /\ n \in S.nn[in2].wlen..NN_MAX_WORD_LEN
      BY <3>1, MaxWlenBounds
    <3> HIDE DEF n
    <3> QED
      BY <3>1, <3>2, LowClean
  <2> QED
    BY <2>1, PrepareKeeps
<1>2. S.nn[in1].wlen \in 0..NN_MAX_WORD_LEN /\ S.nn[in2].wlen \in 0..NN_MAX_WORD_LEN
      /\ sum \in Nat /\ NN_MAX_WORD_LEN \in Nat
  <2>1. /\ S.nn[in1].val \in Nat /\ S.nn[in1].wlen \in 0..NN_MAX_WORD_LEN
        /\ S.nn[in2].val \in Nat /\ S.nn[in2].wlen \in 0..NN_MAX_WORD_LEN
    BY LowClean
  <2>2. NN_MAX_WORD_LEN \in Nat
    BY PowB
  <2> QED
    BY ONLY <2>1, <2>2
<1>3. n \in 0..NN_MAX_WORD_LEN /\ n + 1 \in 0..NN_MAX_WORD_LEN /\ n # NN_MAX_WORD_LEN
  <2>1. n \in 0..NN_MAX_WORD_LEN /\ n < NN_MAX_WORD_LEN
    BY <1>2, MaxWlenBounds
  <2> HIDE DEF n
  <2> QED
    BY <1>2, <2>1
<1>4. U = IF sum < B^n THEN Put(T, out, c)
          ELSE Put(T, out, [WithWords(c, n + 1, sum) EXCEPT !.wlen = n + 1])
  <2> HIDE DEF T
  <2>1. U = IF sum < B^n THEN Put(T, out, c)
            ELSE IF n = NN_MAX_WORD_LEN THEN MustHave(T, FALSE)
            ELSE Put(T, out, [WithWords(c, n + 1, sum) EXCEPT !.wlen = n + 1])
    BY <1>1 DEF nn_cnd_add, T
  <2> QED
    BY <1>3, <2>1
<1>5. a \in Nn /\ a.val = sum /\ a.wlen = IF sum < B^n THEN n ELSE n + 1
  BY SumClean DEF Clean, Sum
<1>6. c = [wlen |-> n, val |-> sum % B^n]
  <2> HIDE DEF T, n, sum
  <2>1. n \in T.nn[out].wlen..NN_MAX_WORD_LEN
    BY <1>1, <1>3
  <2> QED
    BY <1>1, <1>2, <2>1, WithWordsClean
<1>7. B^n \in Nat \ {0} /\ B^(n + 1) \in Nat \ {0}
  BY <1>3, PowB
<1>8. CASE sum < B^n
  <2>1. sum % B^n = sum
    <3> HIDE DEF n, sum
    <3>1. sum \in 0..(B^n - 1)
      BY ONLY <1>2, <1>7, <1>8
    <3> QED
      BY ONLY <1>7, <3>1, SmallMod
  <2>2. c = a
    BY <1>5, <1>6, <1>8, <2>1 DEF Nn
  <2>3. U = Put(T, out, a)
    BY <1>4, <1>8, <2>2
  <2>4. Sets(T, Put(T, out, a), {out}, out, a) /\ Put(T, out, a).ok = T.ok
    BY <1>1, <1>5, PutSets
  <2> HIDE DEF T, U, a
  <2> QED
    BY <1>1, <2>3, <2>4 DEF Sets
<1>9. CASE ~ (sum < B^n)
  <2>1. Clean(c)
    <3>1. sum % B^n \in 0..(B^n - 1)
      <4> HIDE DEF n, sum
      <4> QED
        BY ONLY <1>2, <1>7, DivMod
    <3> HIDE DEF n, sum, c
    <3> QED
      BY <1>3, <1>6, <1>7, <3>1 DEF Clean, Nn
  <2>2. WithWords(c, n + 1, sum) = [wlen |-> n, val |-> sum % B^(n + 1)]
    <3> HIDE DEF n, sum, c
    <3>1. c.wlen = n /\ n + 1 \in c.wlen..NN_MAX_WORD_LEN
      BY <1>3, <1>6
    <3> QED
      BY <1>2, <2>1, <3>1, WithWordsClean
  <2>3. sum % B^(n + 1) = sum
    <3>1. sum < B^(n + 1)
      BY <1>5, <1>9, SumClean DEF Clean
    <3> HIDE DEF n, sum
    <3>2. sum \in 0..(B^(n + 1) - 1)
      BY ONLY <1>2, <1>7, <3>1
    <3> QED
      BY ONLY <1>7, <3>2, SmallMod
  <2>4. [WithWords(c, n + 1, sum) EXCEPT !.wlen = n + 1] = a
    <3>1. a = [wlen |-> n + 1, val |-> sum]
      BY <1>5, <1>9 DEF Nn
    <3> HIDE DEF a, c, n, sum
    <3> QED
      BY <2>2, <2>3, <3>1
  <2>5. U = Put(T, out, a)
    BY <1>4, <1>9, <2>4
  <2>6. Sets(T, Put(T, out, a), {out}, out, a) /\ Put(T, out, a).ok = T.ok
    BY <1>1, <1>5, PutSets
  <2> HIDE DEF T, U, a
  <2> QED
    BY <1>1, <2>5, <2>6 DEF Sets
<1> QED
  BY <1>8, <1>9

\* The difference of two clean numbers is clean in the length of the larger one.
Difference(S, out, in1, in2) ==
  [wlen |-> IF out \in {in1, in2} THEN S.nn[in1].wlen ELSE MaxWlen(S.nn[in1], S.nn[in2]),
   val |-> S.nn[in1].val - S.nn[in2].val]

LEMMA CndSub ==
  ASSUME NEW S \in Stores, NEW out \in Names, NEW in1 \in Names, NEW in2 \in Names,
         Clean(S.nn[in1]), Clean(S.nn[in2]), S.nn[in2].val <= S.nn[in1].val
  PROVE  LET T == nn_cnd_sub(TRUE, S, out, in1, in2)
             a == Difference(S, out, in1, in2)
         IN  Sets(S, T, {out}, out, a) /\ Clean(a) /\ T.ok = S.ok
<1> DEFINE n == MaxWlen(S.nn[in1], S.nn[in2])
           m == S.nn[in1].wlen
           T == Prepare(S, out, in1, in2, n, m)
           diff == S.nn[in1].val - S.nn[in2].val
           len == IF out \in {in1, in2} THEN m ELSE n
           a == [wlen |-> len, val |-> diff]
           U == nn_cnd_sub(TRUE, S, out, in1, in2)
<1> SUFFICES Sets(S, U, {out}, out, a) /\ Clean(a) /\ U.ok = S.ok
  BY DEF Difference
<1>1. /\ m \in 0..NN_MAX_WORD_LEN /\ S.nn[in2].wlen \in 0..NN_MAX_WORD_LEN
      /\ S.nn[in1].val \in Nat /\ S.nn[in2].val \in Nat
      /\ S.nn[in1].val < B^m /\ diff \in Nat /\ NN_MAX_WORD_LEN \in Nat
  <2>1. /\ m \in 0..NN_MAX_WORD_LEN /\ S.nn[in2].wlen \in 0..NN_MAX_WORD_LEN
        /\ S.nn[in1].val \in Nat /\ S.nn[in2].val \in Nat
    BY LowClean
  <2>2. S.nn[in1].val < B^m
    BY DEF Clean
  <2> QED
    BY <2>1, <2>2, PowB
<1>2. n \in m..NN_MAX_WORD_LEN /\ m \in 0..n /\ n \in 0..NN_MAX_WORD_LEN
  BY <1>1, MaxWlenBounds
<1>3. diff < B^m /\ diff < B^n /\ len \in 0..NN_MAX_WORD_LEN /\ (len = m \/ len = n)
      /\ B^m \in Nat /\ B^n \in Nat \ {0}
  <2>1. B^m <= B^n /\ B^m \in Nat /\ B^n \in Nat \ {0}
    BY <1>1, <1>2, PowB, PowMonotone
  <2> HIDE DEF n
  <2> QED
    BY <1>1, <1>2, <2>1
<1>4. Clean(a) /\ a \in Nn
  <2> HIDE DEF n, m, diff
  <2> QED
    BY <1>1, <1>3 DEF Clean, Nn
<1>5. /\ T \in Stores /\ T.ok = S.ok
      /\ Clean(T.nn[out]) /\ T.nn[out].wlen = len
      /\ Low(T.nn[in1], n) = S.nn[in1].val /\ Low(T.nn[in2], n) = S.nn[in2].val
      /\ \A x \in Names \ {out} : T.nn[x] = S.nn[x]
  <2>1. out \in {in1, in2} => S.nn[out].val < B^m
    <3> HIDE DEF m
    <3> QED
      BY <1>1, <1>3
  <2> QED
    BY <1>2, <2>1, PrepareKeeps
<1>6. U = MustHave(Put(T, out, WithWords(T.nn[out], n, diff)), diff >= 0)
  <2> HIDE DEF T
  <2> QED
    BY <1>5 DEF nn_cnd_sub, T
<1>7. WithWords(T.nn[out], n, diff) = a
  <2>1. diff % B^n = diff
    <3> HIDE DEF n, diff
    <3>1. diff \in 0..(B^n - 1)
      BY ONLY <1>1, <1>3
    <3> QED
      BY ONLY <1>3, <3>1, SmallMod
  <2> HIDE DEF T, n, diff, m
  <2>2. n \in T.nn[out].wlen..NN_MAX_WORD_LEN
    BY <1>1, <1>2, <1>5
  <2> QED
    BY <1>1, <1>5, <2>1, <2>2, WithWordsClean
<1>8. Sets(T, Put(T, out, a), {out}, out, a) /\ Put(T, out, a).ok = T.ok
  BY <1>4, <1>5, PutSets
<1>9. Put(T, out, a) \in Stores
  BY <1>8 DEF Sets
<1>10. U \in Stores /\ U.nn = Put(T, out, a).nn /\ U.ok = (T.ok /\ TRUE)
  <2> DEFINE V == Put(T, out, a)
             nonneg == diff >= 0
  <2>1. nonneg = TRUE /\ nonneg \in BOOLEAN
    BY <1>1
  <2>2. U = MustHave(V, nonneg) /\ V \in Stores /\ V.ok = T.ok
    BY <1>6, <1>7, <1>8, <1>9
  <2> HIDE DEF T, a, U, diff, V, nonneg
  <2>3. U \in Stores /\ U.nn = V.nn /\ U.ok = (V.ok /\ nonneg)
    BY ONLY <2>1, <2>2, MustHaveKeeps
  <2> QED
    BY <2>1, <2>2, <2>3 DEF V
<1>11. T.ok \in BOOLEAN
  BY <1>5 DEF Stores
<1> HIDE DEF T, U, a
<1> QED
  BY <1>4, <1>5, <1>8, <1>10, <1>11 DEF Sets

-----------------------------------------------------------------------------
(* Sums and differences modulo p.                                            *)

\* An element: at most p, in at most one word more than p.
Elem(a) == Clean(a) /\ a.wlen <= PWlen + 1 /\ a.val <= P

Outs == Names \ DOMAIN Constants

\* The constants of the context are in place.
Context(S) == S \in Stores /\ \A c \in DOMAIN Constants : S.nn[c] = Constants[c]

\* The length of p, and of twice p.
LEMMA RoomForSums ==
  /\ PWlen \in Nat /\ PWlen >= 2 /\ PWlen + 4 <= NN_MAX_WORD_LEN /\ NN_MAX_WORD_LEN \in Nat
  /\ \A n \in 0..(PWlen + 3) : n \in 0..NN_MAX_WORD_LEN
  /\ P \in Nat /\ P > 2 /\ P < B^PWlen /\ 2 * P < B^(PWlen + 1)
<1>1. PWlen \in 2..NN_MAX_WORD_LEN /\ P < B^PWlen /\ 3 * PWlen <= NN_MAX_WORD_LEN
      /\ P \in Nat /\ P > 2 /\ NN_MAX_WORD_LEN \in Nat
  BY LengthOfP, PowB
<1>2. B^(PWlen + 1) = B * B^PWlen /\ B^PWlen \in Nat /\ B \in Nat /\ B > 1
  BY <1>1, PowB
<1>3. 2 * P < B^(PWlen + 1)
  <2> DEFINE W == B^PWlen
  <2>1. W \in Nat /\ P < W /\ B^(PWlen + 1) = B * W
    BY <1>1, <1>2
  <2> HIDE DEF W
  <2>2. B * W >= 2 * W
    BY ONLY <1>2, <2>1
  <2> QED
    BY ONLY <1>1, <1>2, <2>1, <2>2
<1> QED
  BY <1>1, <1>3

\* p in a store, and elements.
LEMMA StoreOfP ==
  ASSUME NEW S, Context(S)
  PROVE  /\ "p" \in Names /\ "one" \in Names /\ "r_square" \in Names
         /\ "r" \in Names /\ "mp1d2" \in Names
         /\ S.nn["p"] = p /\ Elem(p) /\ p.wlen = PWlen /\ p.val = P
         /\ S.nn["one"] = [wlen |-> 1, val |-> 1] /\ Elem([wlen |-> 1, val |-> 1])
<1>1. /\ p.wlen = PWlen /\ p.val = P /\ p = [wlen |-> PWlen, val |-> P]
      /\ Constants["p"] = p /\ Constants["one"] = [wlen |-> 1, val |-> 1]
      /\ DOMAIN Constants = {"p", "r_square", "one", "r", "mp1d2"}
  BY ConstantTypes
<1>2. S.nn["p"] = p /\ S.nn["one"] = [wlen |-> 1, val |-> 1]
  BY <1>1 DEF Context
<1>3. Elem(p)
  BY <1>1, RoomForSums DEF Elem, Clean, Nn
<1>4. Elem([wlen |-> 1, val |-> 1])
  <2>1. 1 \in 0..NN_MAX_WORD_LEN /\ 1 < B^1 /\ 1 <= PWlen + 1 /\ 1 <= P
    BY RoomForSums, PowB
  <2> QED
    BY <2>1 DEF Elem, Clean, Nn
<1> QED
  BY <1>1, <1>2, <1>3, <1>4 DEF Names

\* A sum of two elements fits one word more than p.
LEMMA SumOfElems ==
  ASSUME NEW a, NEW b, Elem(a), Elem(b)
  PROVE  /\ MaxWlen(a, b) < NN_MAX_WORD_LEN
         /\ Clean(Sum(a, b)) /\ Sum(a, b).wlen <= PWlen + 1 /\ Sum(a, b).val = a.val + b.val
         /\ a.val \in Nat /\ b.val \in Nat /\ a.val <= P /\ b.val <= P
<1> DEFINE n == MaxWlen(a, b)
<1>1. /\ a.wlen \in 0..NN_MAX_WORD_LEN /\ b.wlen \in 0..NN_MAX_WORD_LEN
      /\ a.wlen <= PWlen + 1 /\ b.wlen <= PWlen + 1
      /\ a.val \in Nat /\ b.val \in Nat /\ a.val <= P /\ b.val <= P
  BY LowClean DEF Elem
<1>2. n \in 0..NN_MAX_WORD_LEN /\ n <= PWlen + 1
  BY <1>1, MaxWlenBounds
<1> HIDE DEF n
<1>3. n < NN_MAX_WORD_LEN
  BY <1>2, RoomForSums
<1>4. Clean(Sum(a, b))
  BY <1>3, SumClean DEF Elem, n
<1>5. Sum(a, b).wlen = (IF a.val + b.val < B^n THEN n ELSE n + 1) /\ Sum(a, b).val = a.val + b.val
  BY DEF Sum, n
<1>6. ASSUME n = PWlen + 1
      PROVE  a.val + b.val < B^n
  <2>1. a.val + b.val <= 2 * P /\ 2 * P < B^(PWlen + 1) /\ B^(PWlen + 1) \in Nat /\ P \in Nat
    BY <1>1, RoomForSums, PowB
  <2> QED
    BY <1>1, <1>6, <2>1
<1>7. Sum(a, b).wlen <= PWlen + 1
  BY <1>2, <1>5, <1>6, RoomForSums
<1> QED
  BY <1>1, <1>3, <1>4, <1>5, <1>7 DEF n

\* The subtraction of p that ends an addition.
LEMMA FinalSub ==
  ASSUME NEW S, Context(S), NEW out \in Outs, Clean(S.nn[out]),
         S.nn[out].wlen <= PWlen + 1, S.nn[out].val <= 2 * P
  PROVE  LET T == nn_cnd_sub(~nn_less(S.nn[out], p), S, out, out, "p")
             v == S.nn[out].val
         IN  /\ Sets(S, T, {out}, out,
                     [wlen |-> S.nn[out].wlen, val |-> IF v < P THEN v ELSE v - P])
             /\ T.ok = S.ok /\ Elem(T.nn[out])
<1> DEFINE v == S.nn[out].val
           T == nn_cnd_sub(~nn_less(S.nn[out], p), S, out, out, "p")
           a == [wlen |-> S.nn[out].wlen, val |-> IF v < P THEN v ELSE v - P]
<1> SUFFICES Sets(S, T, {out}, out, a) /\ T.ok = S.ok /\ Elem(a)
  BY DEF Sets
<1>1. /\ S \in Stores /\ out \in Names /\ "p" \in Names /\ S.nn["p"] = p
      /\ Clean(p) /\ p.wlen = PWlen /\ p.val = P /\ v \in Nat /\ P \in Nat
      /\ nn_less(S.nn[out], p) <=> v < P
  <2>1. /\ S \in Stores /\ out \in Names /\ "p" \in Names /\ S.nn["p"] = p
        /\ Clean(p) /\ p.wlen = PWlen /\ p.val = P
    BY StoreOfP DEF Context, Outs, Elem
  <2>2. v \in Nat
    BY LowClean
  <2> QED
    BY <2>1, <2>2, CompareClean, RoomForSums
<1>2. CASE v < P
  <2>1. T = Put(S, out, S.nn[out])
    BY <1>1, <1>2 DEF nn_cnd_sub
  <2>2. S.nn[out] \in Nn
    BY DEF Clean
  <2>3. a = S.nn[out]
    BY <1>2, <2>2 DEF Nn
  <2>4. Sets(S, T, {out}, out, S.nn[out]) /\ T.ok = S.ok
    BY <1>1, <2>1, <2>2, PutSets
  <2>5. Elem(a)
    BY <1>1, <1>2, <2>3 DEF Elem
  <2> HIDE DEF T, a
  <2> QED
    BY <2>3, <2>4, <2>5
<1>3. CASE ~ (v < P)
  <2>1. T = nn_cnd_sub(TRUE, S, out, out, "p")
    BY <1>1, <1>3
  <2>2. S.nn["p"].val <= S.nn[out].val /\ Clean(S.nn["p"])
    BY <1>1, <1>3
  <2> DEFINE c == Difference(S, out, out, "p")
  <2> DEFINE U == nn_cnd_sub(TRUE, S, out, out, "p")
  <2>6. Sets(S, U, {out}, out, c) /\ Clean(c) /\ U.ok = S.ok
    BY ONLY <1>1, <2>2, Clean(S.nn[out]), CndSub
  <2>3. Sets(S, T, {out}, out, c) /\ Clean(c) /\ T.ok = S.ok
    <3> HIDE DEF T, U, c
    <3> QED
      BY <2>1, <2>6 DEF U
  <2>4. c = a
    BY <1>1, <1>3 DEF Difference
  <2>5. a.val <= P /\ a.wlen <= PWlen + 1
    BY <1>1, <1>3
  <2> HIDE DEF T, a, c
  <2> QED
    BY <2>3, <2>4, <2>5 DEF Elem
<1> QED
  BY <1>2, <1>3

\* T is S after an element v was written to out.
Computes(S, T, W, out, v) ==
  /\ Sets(S, T, W, out, T.nn[out]) /\ T.ok = S.ok
  /\ Elem(T.nn[out]) /\ T.nn[out].val = v

\* One write after another.
LEMMA SetsCompose ==
  ASSUME NEW S, NEW T, NEW U, NEW V, NEW W, NEW X, NEW o1, NEW o2, NEW a, NEW b,
         Sets(S, T, V, o1, a), Sets(T, U, W, o2, b), V \subseteq X, W \subseteq X
  PROVE  Sets(S, U, X, o2, b)
BY DEF Sets

\* Writes to registers and locals leave the context alone.
LEMMA SetsContext ==
  ASSUME NEW S, NEW T, NEW W \in SUBSET Outs, NEW out, NEW a, Context(S), Sets(S, T, W, out, a)
  PROVE  Context(T)
<1>1. DOMAIN Constants \subseteq Names /\ W \cap DOMAIN Constants = {}
  BY DEF Names, Outs
<1> QED
  BY <1>1 DEF Sets, Context

\* nn_mod_add adds modulo p; p itself may remain of p + p.
Reduced(v) == IF v < P THEN v ELSE v - P

LEMMA AddComputes ==
  ASSUME NEW S, Context(S), NEW out \in Outs, NEW in1 \in Names, NEW in2 \in Names,
         Elem(S.nn[in1]), Elem(S.nn[in2])
  PROVE  Computes(S, nn_mod_add(S, out, in1, in2), {out}, out,
                  Reduced(S.nn[in1].val + S.nn[in2].val))
<1> DEFINE v == S.nn[in1].val + S.nn[in2].val
           c == Sum(S.nn[in1], S.nn[in2])
           T == nn_cnd_add(TRUE, S, out, in1, in2)
           U == nn_cnd_sub(~nn_less(T.nn[out], p), T, out, out, "p")
<1>1. /\ Clean(c) /\ c.wlen <= PWlen + 1 /\ c.val = v /\ c.val <= 2 * P
      /\ MaxWlen(S.nn[in1], S.nn[in2]) < NN_MAX_WORD_LEN
      /\ Clean(S.nn[in1]) /\ Clean(S.nn[in2])
  BY SumOfElems, RoomForSums DEF Elem
<1>2. S \in Stores /\ out \in Names /\ {out} \in SUBSET Outs
  BY DEF Context, Outs
<1>3. Sets(S, T, {out}, out, c) /\ T.ok = S.ok
  BY ONLY <1>1, <1>2, in1 \in Names, in2 \in Names, CndAdd
<1> HIDE DEF c, T
<1>4. Context(T) /\ T.nn[out] = c
  BY ONLY <1>2, <1>3, Context(S), SetsContext DEF Sets
<1>5. /\ Sets(T, U, {out}, out, [wlen |-> c.wlen, val |-> IF c.val < P THEN c.val ELSE c.val - P])
      /\ U.ok = T.ok /\ Elem(U.nn[out])
  BY ONLY <1>1, <1>4, out \in Outs, FinalSub
<1>6. nn_mod_add(S, out, in1, in2) = U
  BY DEF nn_mod_add, T, U
<1> HIDE DEF U
<1>7. Sets(S, U, {out}, out, U.nn[out]) /\ U.nn[out].val = (IF c.val < P THEN c.val ELSE c.val - P)
  BY ONLY <1>3, <1>5, SetsCompose DEF Sets
<1>8. Computes(S, U, {out}, out, Reduced(v))
  <2> HIDE DEF v
  <2> QED
    BY ONLY <1>1, <1>3, <1>5, <1>7 DEF Computes, Reduced
<1> QED
  BY <1>6, <1>8

\* The opposite is p - in.
LEMMA NegComputes ==
  ASSUME NEW S, Context(S), NEW out \in Outs, NEW in \in Names, Elem(S.nn[in])
  PROVE  Computes(S, NegStore(S, out, in), {out}, out, P - S.nn[in].val)
<1> DEFINE T == NegStore(S, out, in)
           c == Difference(S, out, "p", in)
<1>1. /\ S \in Stores /\ out \in Names /\ "p" \in Names /\ S.nn["p"] = p
      /\ Clean(p) /\ p.wlen = PWlen /\ p.val = P /\ Clean(S.nn[in])
      /\ S.nn[in].val \in Nat /\ S.nn[in].val <= P /\ S.nn[in].wlen \in 0..NN_MAX_WORD_LEN
      /\ S.nn[in].wlen <= PWlen + 1
  BY StoreOfP, LowClean DEF Context, Outs, Elem
<1>2. S.nn[in].val <= S.nn["p"].val /\ Clean(S.nn["p"])
  BY <1>1
<1> DEFINE U == nn_cnd_sub(TRUE, S, out, "p", in)
<1>3. Sets(S, U, {out}, out, c) /\ Clean(c) /\ U.ok = S.ok
  <2>1. S \in Stores /\ out \in Names /\ "p" \in Names /\ Clean(S.nn[in])
    BY <1>1
  <2> QED
    BY ONLY <1>2, <2>1, in \in Names, CndSub
<1>4. Sets(S, T, {out}, out, c) /\ Clean(c) /\ T.ok = S.ok
  <2> HIDE DEF c
  <2> QED
    BY <1>3 DEF NegStore
<1> HIDE DEF T
<1>5. c.val = P - S.nn[in].val /\ c.val <= P /\ c.wlen <= PWlen + 1
  <2>1. MaxWlen(S.nn["p"], S.nn[in]) <= PWlen + 1
    BY <1>1, RoomForSums DEF MaxWlen
  <2> QED
    BY <1>1, <2>1, RoomForSums DEF Difference
<1> HIDE DEF c
<1>6. Computes(S, T, {out}, out, P - S.nn[in].val)
  BY ONLY <1>4, <1>5 DEF Computes, Sets, Elem
<1> QED
  BY <1>6 DEF T

\* An element that is copied into a register or a local.
LEMMA PutElem ==
  ASSUME NEW S \in Stores, NEW out \in Names, NEW a, Elem(a)
  PROVE  Computes(S, Put(S, out, a), {out}, out, a.val) /\ Put(S, out, a).nn[out] = a
<1>1. a \in Nn
  BY DEF Elem, Clean
<1>2. Sets(S, Put(S, out, a), {out}, out, a) /\ Put(S, out, a).ok = S.ok
  BY <1>1, PutSets
<1> QED
  BY <1>2 DEF Computes, Sets

\* What nn_mod_sub leaves after it has added p if necessary.
LEMMA AddP ==
  ASSUME NEW S, Context(S), NEW out \in Outs, NEW in1 \in Names, NEW cond \in BOOLEAN,
         Elem(S.nn[in1])
  PROVE  LET T == nn_cnd_add(cond, S, out, in1, "p")
         IN  /\ Sets(S, T, {out}, out, T.nn[out]) /\ T.ok = S.ok
             /\ Clean(T.nn[out]) /\ T.nn[out].wlen <= PWlen + 1
             /\ T.nn[out].val = S.nn[in1].val + (IF cond THEN P ELSE 0)
<1> DEFINE T == nn_cnd_add(cond, S, out, in1, "p")
           v == S.nn[in1].val
<1> SUFFICES /\ Sets(S, T, {out}, out, T.nn[out]) /\ T.ok = S.ok
             /\ Clean(T.nn[out]) /\ T.nn[out].wlen <= PWlen + 1
             /\ T.nn[out].val = v + (IF cond THEN P ELSE 0)
  OBVIOUS
<1>1. /\ S \in Stores /\ out \in Names /\ "p" \in Names /\ S.nn["p"] = p /\ Elem(S.nn["p"])
      /\ Clean(S.nn["p"]) /\ Clean(S.nn[in1]) /\ p.val = P /\ v \in Nat /\ P \in Nat
      /\ S.nn[in1].wlen <= PWlen + 1
  BY StoreOfP, LowClean, RoomForSums DEF Context, Outs, Elem
<1>2. CASE cond
  <2> DEFINE U == nn_cnd_add(TRUE, S, out, in1, "p")
             c == Sum(S.nn[in1], S.nn["p"])
  <2>1. Clean(c) /\ c.wlen <= PWlen + 1 /\ c.val = v + S.nn["p"].val
        /\ MaxWlen(S.nn[in1], S.nn["p"]) < NN_MAX_WORD_LEN
    BY <1>1, SumOfElems
  <2>2. Sets(S, U, {out}, out, c) /\ U.ok = S.ok
    <3>1. S \in Stores /\ out \in Names /\ "p" \in Names
      BY <1>1
    <3> QED
      BY ONLY <3>1, <1>1, <2>1, in1 \in Names, CndAdd
  <2>3. T = U
    BY <1>2 DEF nn_cnd_add
  <2> HIDE DEF T, U, c
  <2> QED
    BY <1>1, <1>2, <2>1, <2>2, <2>3 DEF Sets
<1>3. CASE ~cond
  <2>1. T = Put(S, out, S.nn[in1])
    BY <1>3 DEF nn_cnd_add
  <2>2. S.nn[in1] \in Nn
    BY <1>1 DEF Clean
  <2>3. Sets(S, T, {out}, out, S.nn[in1]) /\ T.ok = S.ok
    BY <1>1, <2>1, <2>2, PutSets
  <2> HIDE DEF T
  <2> QED
    BY <1>1, <1>3, <2>3 DEF Sets
<1> QED
  BY <1>2, <1>3

\* nn_mod_sub subtracts modulo p; out may be either operand.
LEMMA SubComputes ==
  ASSUME NEW S, Context(S), NEW out \in Outs, NEW in1 \in Names, NEW in2 \in Names,
         "cpy" \notin {out, in1, in2}, Elem(S.nn[in1]), Elem(S.nn[in2])
  PROVE  Computes(S, nn_mod_sub(S, out, in1, in2), {out, "cpy"}, out,
                  (S.nn[in1].val - S.nn[in2].val)
                    + (IF S.nn[in1].val < S.nn[in2].val THEN P ELSE 0))
<1> DEFINE other == IF in2 = out THEN "cpy" ELSE in2
           T == IF in2 = out THEN Put(S, "cpy", S.nn[in2]) ELSE S
           less == nn_less(T.nn[in1], T.nn[other])
           U == nn_cnd_add(less, T, out, in1, "p")
           V == nn_cnd_sub(TRUE, U, out, out, other)
           v1 == S.nn[in1].val
           v2 == S.nn[in2].val
           w == (v1 - v2) + (IF v1 < v2 THEN P ELSE 0)
<1>1. /\ S \in Stores /\ out \in Names /\ "cpy" \in Outs /\ "cpy" \in Names /\ other \in Names
      /\ other # out /\ {out} \in SUBSET Outs /\ {"cpy"} \in SUBSET Outs
      /\ v1 \in 0..P /\ v2 \in 0..P /\ P \in Nat
  <2>1. S \in Stores /\ out \in Names
    BY DEF Context, Outs
  <2>2. "cpy" \in Names /\ "cpy" \notin DOMAIN Constants
    BY ConstantTypes DEF Names, Locals
  <2>3. v1 \in 0..P /\ v2 \in 0..P /\ P \in Nat
    BY LowClean, RoomForSums DEF Elem
  <2> QED
    BY <2>1, <2>2, <2>3 DEF Outs
<1>2. /\ Context(T) /\ Sets(S, T, {"cpy"}, "cpy", T.nn["cpy"]) /\ T.ok = S.ok
      /\ T.nn[in1] = S.nn[in1] /\ T.nn[other] = S.nn[in2]
  <2>1. CASE in2 = out
    <3>1. T = Put(S, "cpy", S.nn[in2])
      BY <2>1
    <3> HIDE DEF T
    <3>2. S.nn[in2] \in Nn
      BY DEF Elem, Clean
    <3>3. Sets(S, T, {"cpy"}, "cpy", S.nn[in2]) /\ T.ok = S.ok
      BY <1>1, <3>1, <3>2, PutSets
    <3>4. Context(T)
      BY ONLY <1>1, <3>3, Context(S), SetsContext
    <3> QED
      BY <2>1, <3>3, <3>4 DEF Sets
  <2>2. CASE in2 # out
    BY <1>1, <2>2 DEF Sets
  <2> QED
    BY <2>1, <2>2
<1>3. less \in BOOLEAN /\ (less <=> v1 < v2)
  <2> HIDE DEF T
  <2>1. Clean(T.nn[in1]) /\ Clean(T.nn[other])
    BY <1>2 DEF Elem
  <2>2. less <=> T.nn[in1].val < T.nn[other].val
    BY ONLY <2>1, CompareClean
  <2>3. less \in BOOLEAN
    BY DEF nn_less
  <2> QED
    BY <1>2, <2>2, <2>3
<1> HIDE DEF T, less
<1>4. /\ Sets(T, U, {out}, out, U.nn[out]) /\ U.ok = T.ok
      /\ Clean(U.nn[out]) /\ U.nn[out].wlen <= PWlen + 1
      /\ U.nn[out].val = v1 + (IF less THEN P ELSE 0)
  <2>1. Elem(T.nn[in1]) /\ T.nn[in1].val = v1
    BY <1>2
  <2>2. /\ Sets(T, U, {out}, out, U.nn[out]) /\ U.ok = T.ok
        /\ Clean(U.nn[out]) /\ U.nn[out].wlen <= PWlen + 1
        /\ U.nn[out].val = T.nn[in1].val + (IF less THEN P ELSE 0)
    BY ONLY <1>2, <1>3, <2>1, out \in Outs, in1 \in Names, AddP
  <2> HIDE DEF U
  <2> QED
    BY <2>1, <2>2
<1> HIDE DEF U, other
<1>5. U \in Stores /\ U.nn[other] = S.nn[in2] /\ Clean(U.nn[other])
      /\ U.nn[other].val <= U.nn[out].val
  <2>1. U \in Stores /\ U.nn[other] = T.nn[other]
    BY <1>1, <1>4 DEF Sets
  <2>2. v2 <= U.nn[out].val
    BY <1>1, <1>3, <1>4
  <2> QED
    BY <1>2, <2>1, <2>2 DEF Elem
<1> DEFINE d == Difference(U, out, out, other)
<1>6. Sets(U, V, {out}, out, d) /\ Clean(d) /\ V.ok = U.ok
  <2>1. /\ U \in Stores /\ out \in Names /\ other \in Names
        /\ Clean(U.nn[out]) /\ Clean(U.nn[other]) /\ U.nn[other].val <= U.nn[out].val
    BY <1>1, <1>4, <1>5
  <2> QED
    BY ONLY <2>1, CndSub
<1>7. d.val = w /\ d.val <= P /\ d.wlen <= PWlen + 1
  <2>1. d.val = U.nn[out].val - v2 /\ d.wlen = U.nn[out].wlen
    BY <1>5 DEF Difference
  <2>2. (less <=> v1 < v2) /\ U.nn[out].val = v1 + (IF less THEN P ELSE 0)
    BY <1>3, <1>4
  <2> HIDE DEF v1, v2
  <2>3. U.nn[out].val - v2 = w /\ w <= P
    BY <1>1, <2>2
  <2> QED
    BY <1>4, <2>1, <2>3
<1>8. nn_mod_sub(S, out, in1, in2) = V
  BY DEF nn_mod_sub, V, U, T, less, other
<1> HIDE DEF V, d, w
<1>9. Sets(S, V, {out, "cpy"}, out, d)
  <2>1. Sets(S, U, {out, "cpy"}, out, U.nn[out])
    BY ONLY <1>2, <1>4, SetsCompose
  <2> QED
    BY ONLY <1>6, <2>1, SetsCompose
<1>10. Computes(S, V, {out, "cpy"}, out, w)
  BY ONLY <1>2, <1>4, <1>6, <1>7, <1>9 DEF Computes, Sets, Elem
<1> QED
  BY <1>8, <1>10 DEF w

\* Elements fit the length of p.
LEMMA SetWlenComputes ==
  ASSUME NEW S \in Stores, NEW out \in Names, Clean(S.nn[out]), S.nn[out].val <= P
  PROVE  Computes(S, SetWlen(S, out, PWlen), {out}, out, S.nn[out].val)
<1> DEFINE T == SetWlen(S, out, PWlen)
           a == [wlen |-> PWlen, val |-> S.nn[out].val]
<1>1. S.nn[out].val \in Nat /\ S.nn[out].val < B^PWlen /\ PWlen \in 0..NN_MAX_WORD_LEN
      /\ PWlen <= PWlen + 1
  <2>1. B^PWlen \in Nat
    BY RoomForSums, PowB
  <2> QED
    BY <2>1, LowClean, RoomForSums
<1>2. Sets(S, T, {out}, out, a) /\ T.ok = S.ok
  BY <1>1, SetWlenSets
<1>3. Elem(a)
  BY <1>1, SetWlenFits DEF Elem
<1> HIDE DEF T
<1> QED
  BY <1>2, <1>3 DEF Computes, Sets, T

\* A clean number is given one word more than p.
LEMMA WidenSets ==
  ASSUME NEW S \in Stores, NEW out \in Names, Clean(S.nn[out]), S.nn[out].val < B^(PWlen + 1)
  PROVE  /\ Sets(S, SetWlen(S, out, PWlen + 1), {out}, out,
                 [wlen |-> PWlen + 1, val |-> S.nn[out].val])
         /\ SetWlen(S, out, PWlen + 1).ok = S.ok
         /\ Clean([wlen |-> PWlen + 1, val |-> S.nn[out].val])
BY RoomForSums, SetWlenSets, SetWlenFits

\* nn_mod_inc adds 1 modulo p.
LEMMA IncComputes ==
  ASSUME NEW S, Context(S), NEW out \in Outs, NEW in \in Names, Elem(S.nn[in])
  PROVE  Computes(S, nn_mod_inc(S, out, in), {out}, out, Reduced(S.nn[in].val + 1))
<1> DEFINE v == S.nn[in].val + 1
           T == nn_cnd_add(TRUE, S, out, in, "one")
           U == SetWlen(T, out, PWlen + 1)
           V == nn_cnd_sub(~nn_less(U.nn[out], p), U, out, out, "p")
           W == SetWlen(V, out, PWlen)
           c == Sum(S.nn[in], S.nn["one"])
           d == [wlen |-> PWlen + 1, val |-> v]
<1>1. /\ S \in Stores /\ out \in Names /\ "one" \in Names /\ {out} \in SUBSET Outs
      /\ Elem(S.nn["one"]) /\ S.nn["one"].val = 1 /\ Clean(S.nn[in]) /\ Clean(S.nn["one"])
  BY StoreOfP DEF Context, Outs, Elem
<1>2. /\ Clean(c) /\ c.wlen <= PWlen + 1 /\ c.val = v /\ v \in Nat /\ v <= 2 * P
      /\ MaxWlen(S.nn[in], S.nn["one"]) < NN_MAX_WORD_LEN
  BY <1>1, SumOfElems, RoomForSums
<1>3. Sets(S, T, {out}, out, c) /\ T.ok = S.ok
  BY ONLY <1>1, <1>2, in \in Names, CndAdd
<1> HIDE DEF T, c, v
<1>4. Context(T) /\ T.nn[out] = c /\ T \in Stores
  BY ONLY <1>1, <1>3, Context(S), SetsContext DEF Sets
<1>5. Clean(T.nn[out]) /\ T.nn[out].val < B^(PWlen + 1) /\ T.nn[out].val = v
  <2>1. B^(PWlen + 1) \in Nat
    BY RoomForSums, PowB
  <2> QED
    BY <1>2, <1>4, <2>1, RoomForSums
<1>6. Sets(T, U, {out}, out, d) /\ U.ok = T.ok /\ Clean(d)
  BY ONLY <1>1, <1>4, <1>5, WidenSets
<1> HIDE DEF U
<1>7. Context(U) /\ U.nn[out] = d
  BY ONLY <1>1, <1>4, <1>6, SetsContext DEF Sets
<1> DEFINE e == [wlen |-> U.nn[out].wlen, val |-> IF U.nn[out].val < P THEN U.nn[out].val
                                                  ELSE U.nn[out].val - P]
<1>8. Sets(U, V, {out}, out, e) /\ V.ok = U.ok /\ Elem(V.nn[out])
  <2>1. Clean(U.nn[out]) /\ U.nn[out].wlen <= PWlen + 1 /\ U.nn[out].val <= 2 * P
    BY <1>2, <1>6, <1>7, RoomForSums
  <2> QED
    BY ONLY <1>7, <2>1, out \in Outs, FinalSub
<1>9. e.val = Reduced(v)
  BY <1>7 DEF Reduced
<1> HIDE DEF V, e
<1>10. V \in Stores /\ V.nn[out] = e /\ Clean(V.nn[out]) /\ V.nn[out].val <= P
  BY <1>8 DEF Sets, Elem
<1>11. Computes(V, W, {out}, out, V.nn[out].val)
  BY ONLY <1>1, <1>10, SetWlenComputes
<1> HIDE DEF W
<1>12. Sets(S, W, {out}, out, W.nn[out])
  <2>1. Sets(S, U, {out}, out, d)
    BY ONLY <1>3, <1>6, SetsCompose
  <2>2. Sets(S, V, {out}, out, e)
    BY ONLY <1>8, <2>1, SetsCompose
  <2> QED
    BY ONLY <1>11, <2>2, SetsCompose DEF Computes
<1>13. Computes(S, W, {out}, out, Reduced(v))
  BY ONLY <1>3, <1>6, <1>8, <1>9, <1>10, <1>11, <1>12 DEF Computes
<1>14. nn_mod_inc(S, out, in) = W
  BY DEF nn_mod_inc, nn_inc, T, U, V, W
<1> QED
  BY <1>13, <1>14 DEF v

\* nn_dec subtracts 1 from a number of one word more than p.
LEMMA DecSets ==
  ASSUME NEW S \in Stores, NEW out \in Names, Clean(S.nn[out]), S.nn[out].wlen = PWlen + 1,
         S.nn[out].val > 0
  PROVE  /\ Sets(S, nn_dec(S, out, out), {out}, out,
                 [wlen |-> PWlen + 1, val |-> S.nn[out].val - 1])
         /\ nn_dec(S, out, out).ok = S.ok
         /\ Clean([wlen |-> PWlen + 1, val |-> S.nn[out].val - 1])
<1> DEFINE n == PWlen + 1
           T == SetWlen(S, out, n)
           diff == Low(T.nn[out], n) - 1
           nonneg == diff >= 0
           a == [wlen |-> n, val |-> S.nn[out].val - 1]
           V == Put(T, out, WithWords(T.nn[out], n, diff))
           U == nn_dec(S, out, out)
<1>1. /\ n \in 0..NN_MAX_WORD_LEN /\ S.nn[out].val \in Nat /\ S.nn[out].val < B^n
      /\ B^n \in Nat \ {0}
  <2>1. n \in 0..NN_MAX_WORD_LEN
    BY RoomForSums
  <2>2. S.nn[out].val < B^n
    BY DEF Clean
  <2> QED
    BY <2>1, <2>2, LowClean, PowB
<1> HIDE DEF n
<1>2. S.nn[out] = [wlen |-> n, val |-> S.nn[out].val]
  BY DEF Clean, Nn, n
<1>3. Sets(S, T, {out}, out, S.nn[out]) /\ T.ok = S.ok
  <2>1. Sets(S, T, {out}, out, [wlen |-> n, val |-> S.nn[out].val]) /\ T.ok = S.ok
    BY <1>1, SetWlenSets
  <2> HIDE DEF T
  <2> QED
    BY <1>2, <2>1
<1> HIDE DEF T
<1>4. T \in Stores /\ T.nn[out] = S.nn[out]
  BY <1>3 DEF Sets
<1>5. diff = S.nn[out].val - 1 /\ nonneg = TRUE /\ nonneg \in BOOLEAN /\ diff \in Nat
  <2>1. n \in S.nn[out].wlen..NN_MAX_WORD_LEN
    BY <1>1 DEF n
  <2>2. Low(S.nn[out], n) = S.nn[out].val
    BY <2>1, LowClean
  <2> QED
    BY <1>1, <1>4, <2>2
<1> HIDE DEF diff, nonneg
<1>6. WithWords(T.nn[out], n, diff) = a
  <2>1. n \in S.nn[out].wlen..NN_MAX_WORD_LEN /\ S.nn[out].wlen = n
    BY <1>1 DEF n
  <2>2. WithWords(S.nn[out], n, diff) = [wlen |-> n, val |-> diff % B^n]
    BY <1>5, <2>1, WithWordsClean
  <2>3. diff \in 0..(B^n - 1)
    BY <1>1, <1>5
  <2>4. diff % B^n = diff
    BY ONLY <1>1, <2>3, SmallMod
  <2> QED
    BY <1>4, <1>5, <2>2, <2>4
<1>7. Clean(a) /\ a \in Nn
  <2>1. S.nn[out].val - 1 \in Nat /\ S.nn[out].val - 1 < B^n
    BY <1>1
  <2> QED
    BY <1>1, <2>1 DEF Clean, Nn
<1>8. Sets(T, V, {out}, out, a) /\ V.ok = T.ok
  BY <1>4, <1>6, <1>7, PutSets
<1>9. U = MustHave(V, nonneg)
  BY <1>4, <1>2 DEF nn_dec, V, T, diff, nonneg, n
<1> HIDE DEF V, U, a
<1>10. U \in Stores /\ U.nn = V.nn /\ U.ok = (V.ok /\ nonneg) /\ V.ok \in BOOLEAN
  <2>1. V \in Stores
    BY <1>8 DEF Sets
  <2> QED
    BY <1>5, <1>9, <2>1, MustHaveKeeps DEF Stores
<1>11. Sets(S, U, {out}, out, a) /\ U.ok = S.ok
  BY <1>3, <1>5, <1>8, <1>10 DEF Sets
<1> QED
  BY <1>7, <1>11 DEF U, a, n

\* nn_mod_dec subtracts 1 modulo p.
LEMMA DecComputes ==
  ASSUME NEW S, Context(S), NEW out \in Outs, NEW in \in Names, Elem(S.nn[in])
  PROVE  Computes(S, nn_mod_dec(S, out, in), {out}, out,
                  (IF S.nn[in].val = 0 THEN P ELSE S.nn[in].val) - 1)
<1> DEFINE v == IF S.nn[in].val = 0 THEN P ELSE S.nn[in].val
           zero == nn_iszero(S.nn[in])
           T == nn_cnd_add(zero, S, out, in, "p")
           U == SetWlen(T, out, PWlen + 1)
           V == nn_dec(U, out, out)
           W == SetWlen(V, out, PWlen)
           d == [wlen |-> PWlen + 1, val |-> v]
           e == [wlen |-> PWlen + 1, val |-> v - 1]
<1>1. /\ S \in Stores /\ out \in Names /\ {out} \in SUBSET Outs
      /\ S.nn[in].val \in 0..P /\ P \in Nat /\ P > 2 /\ v \in 1..P
      /\ zero \in BOOLEAN /\ (zero <=> S.nn[in].val = 0)
  <2>1. S \in Stores /\ out \in Names /\ {out} \in SUBSET Outs /\ Clean(S.nn[in])
        /\ S.nn[in].val \in 0..P
    BY LowClean DEF Context, Outs, Elem
  <2> QED
    BY <2>1, RoomForSums, CompareClean DEF nn_iszero
<1> HIDE DEF zero
<1>2. /\ Sets(S, T, {out}, out, T.nn[out]) /\ T.ok = S.ok
      /\ Clean(T.nn[out]) /\ T.nn[out].wlen <= PWlen + 1
      /\ T.nn[out].val = S.nn[in].val + (IF zero THEN P ELSE 0)
  BY ONLY <1>1, Context(S), out \in Outs, in \in Names, Elem(S.nn[in]), AddP
<1>3. T.nn[out].val = v
  BY <1>1, <1>2
<1> HIDE DEF T, v
<1>4. Context(T) /\ T \in Stores /\ T.nn[out].val < B^(PWlen + 1)
  <2>1. Context(T)
    BY ONLY <1>1, <1>2, Context(S), SetsContext
  <2>2. v < B^(PWlen + 1)
    <3>1. B^(PWlen + 1) \in Nat
      BY RoomForSums, PowB
    <3> QED
      BY <1>1, <3>1, RoomForSums
  <2> QED
    BY <1>2, <1>3, <2>1, <2>2 DEF Sets
<1>5. Sets(T, U, {out}, out, d) /\ U.ok = T.ok /\ Clean(d)
  <2> DEFINE dd == [wlen |-> PWlen + 1, val |-> T.nn[out].val]
  <2>1. Sets(T, U, {out}, out, dd) /\ U.ok = T.ok /\ Clean(dd)
    BY ONLY <1>1, <1>2, <1>4, WidenSets
  <2> HIDE DEF U
  <2> QED
    BY <1>3, <2>1
<1> HIDE DEF U
<1>6. U \in Stores /\ U.nn[out] = d /\ d.wlen = PWlen + 1 /\ d.val = v
  BY <1>5 DEF Sets
<1>7. Sets(U, V, {out}, out, e) /\ V.ok = U.ok /\ Clean(e)
  <2> DEFINE ee == [wlen |-> PWlen + 1, val |-> U.nn[out].val - 1]
  <2>1. Clean(U.nn[out]) /\ U.nn[out].wlen = PWlen + 1 /\ U.nn[out].val > 0
    BY <1>1, <1>5, <1>6
  <2>2. Sets(U, V, {out}, out, ee) /\ V.ok = U.ok /\ Clean(ee)
    BY ONLY <1>1, <1>6, <2>1, DecSets
  <2> HIDE DEF V
  <2> QED
    BY <1>6, <2>2
<1>8. e.val = v - 1 /\ v - 1 <= P
  BY <1>1
<1> HIDE DEF V, d, e
<1>9. V \in Stores /\ V.nn[out] = e /\ Clean(V.nn[out]) /\ V.nn[out].val <= P
  BY <1>7, <1>8 DEF Sets
<1>10. Computes(V, W, {out}, out, V.nn[out].val)
  BY ONLY <1>1, <1>9, SetWlenComputes
<1> HIDE DEF W
<1>11. Sets(S, W, {out}, out, W.nn[out])
  <2>1. Sets(S, U, {out}, out, d)
    BY ONLY <1>2, <1>5, SetsCompose
  <2>2. Sets(S, V, {out}, out, e)
    BY ONLY <1>7, <2>1, SetsCompose
  <2> QED
    BY ONLY <1>10, <2>2, SetsCompose DEF Computes
<1>12. Computes(S, W, {out}, out, v - 1)
  BY ONLY <1>2, <1>5, <1>7, <1>8, <1>9, <1>10, <1>11 DEF Computes
<1>13. nn_mod_dec(S, out, in) = W
  BY DEF nn_mod_dec, zero, T, U, V, W
<1> QED
  BY <1>12, <1>13 DEF v

-----------------------------------------------------------------------------
(* Montgomery's product.                                                     *)

\* p leaves room in its words: its top word is not all ones.  Without this a
\* product of two operands that are wider than p may lose a carry.
Room == (B + 1) * P <= B^(PWlen + 1)

\* The division of x + y by the base b when x is cut to d = b W: its words
\* below W, and the two carries on top of them.
Carried(b, W, d, x, y) ==
  LET u == (x % d) + y
      c == (x \div d) + (u \div d)
  IN  ((u \div b) % W) + (c % b) * W

\* No carry is lost when the quotient is less than 2 W.
LEMMA CarriesAddUp ==
  ASSUME NEW b \in Nat, b > 1, NEW W \in Nat \ {0}, NEW d \in Nat \ {0}, d = b * W,
         NEW x \in Nat, NEW y \in Nat, x + y < b * (2 * W)
  PROVE  Carried(b, W, d, x, y) = (x + y) \div b
<1> DEFINE k == x \div d
           t == x % d
           u == t + y
           h == u \div b
           c == k + (u \div d)
           z == (x + y) \div b
<1>0. Carried(b, W, d, x, y) = (h % W) + (c % b) * W
  BY DEF Carried
<1>1. c = k + (u \div d) /\ u = t + y
  OBVIOUS
<1> HIDE DEF u, c
<1>2. k \in Nat /\ t \in 0..(d - 1) /\ x = d * k + t
  BY ONLY d \in Nat \ {0}, x \in Nat, DivMod
<1> HIDE DEF k, t
<1>3. u \in Nat /\ x + y = u + b * (W * k) /\ W * k \in Nat
  <2>1. d * k = b * (W * k) /\ W * k \in Nat
    <3>1. (b * W) * k = b * (W * k) /\ W * k \in Nat
      BY ONLY <1>2, b \in Nat, W \in Nat \ {0}
    <3> QED
      BY ONLY <3>1, d = b * W
  <2> QED
    BY ONLY <1>1, <1>2, <2>1, y \in Nat, d \in Nat
<1>4. z = h + W * k /\ h \in Nat
  <2>1. b \in Nat \ {0}
    BY b > 1
  <2> DEFINE j == W * k
  <2>2. j \in Nat
    BY <1>3
  <2>0. u \in Nat
    BY <1>3
  <2> HIDE DEF j
  <2>3. (u + b * j) \div b = (u \div b) + j
    BY ONLY <2>0, <2>1, <2>2, AddMultiple
  <2>4. u \div b \in Nat
    BY ONLY <1>3, <2>1, DivMod
  <2> QED
    BY ONLY <1>3, <2>3, <2>4 DEF z, h, j
<1>5. u \div d = h \div W
  <2>1. b \in Nat \ {0}
    BY b > 1
  <2>2. u \div (b * W) = (u \div b) \div W
    BY ONLY <1>3, <2>1, W \in Nat \ {0}, DivDiv
  <2> QED
    BY ONLY <2>2, d = b * W DEF h
<1> HIDE DEF h
<1>6. h = W * (h \div W) + (h % W) /\ h \div W \in Nat /\ h % W \in 0..(W - 1)
  BY ONLY <1>4, W \in Nat \ {0}, DivMod
<1>7. z = W * c + (h % W) /\ c \in Nat
  <2> DEFINE g == h \div W
             r == h % W
  <2>1. h = W * g + r /\ g \in Nat /\ r \in Nat /\ c = k + g
    BY ONLY <1>1, <1>5, <1>6
  <2> HIDE DEF g, r
  <2>2. c \in Nat /\ W * c = W * k + W * g
    BY ONLY <1>2, <2>1, W \in Nat \ {0}
  <2>3. z = W * c + r
    BY ONLY <1>2, <1>3, <1>4, <2>1, <2>2, W \in Nat \ {0}
  <2> QED
    BY <2>2, <2>3 DEF r
<1>8. z \in Nat /\ z < 2 * W
  <2> DEFINE n == x + y
  <2>1. n \in Nat /\ b \in Nat \ {0} /\ n < b * (2 * W)
    BY b > 1
  <2> HIDE DEF n
  <2>2. n \div b \in Nat /\ n = b * (n \div b) + (n % b) /\ n % b \in 0..(b - 1)
    BY ONLY <2>1, DivMod
  <2>3. b * (n \div b) < b * (2 * W)
    BY ONLY <2>1, <2>2
  <2> DEFINE e == n \div b
  <2>4. e \in Nat /\ b * e < b * (2 * W)
    BY <2>2, <2>3
  <2> HIDE DEF e
  <2>5. e < 2 * W
    BY ONLY <2>1, <2>4, W \in Nat \ {0}
  <2> QED
    BY <2>4, <2>5 DEF e, n
<1>9. c < 2
  <2> DEFINE r == h % W
  <2>1. r \in Nat /\ z = W * c + r
    BY <1>6, <1>7
  <2> HIDE DEF r, z
  <2>2. ASSUME c >= 2
        PROVE  W * c >= 2 * W
    BY ONLY <1>7, <2>2, W \in Nat \ {0}
  <2>3. W * c \in Nat
    BY ONLY <1>7, W \in Nat \ {0}
  <2> QED
    BY ONLY <1>7, <1>8, <2>1, <2>2, <2>3, W \in Nat \ {0}
<1>10. c % b = c
  <2>1. c \in 0..(b - 1) /\ b \in Nat \ {0}
    BY <1>7, <1>9, b > 1
  <2> QED
    BY ONLY <2>1, SmallMod
<1> DEFINE r == h % W
<1>11. r \in Nat
  BY <1>6
<1>12. z = W * c + r
  BY <1>7
<1> HIDE DEF r, z
<1>13. r + c * W = z
  BY ONLY <1>7, <1>11, <1>12, W \in Nat \ {0}
<1> QED
  BY <1>0, <1>10, <1>13 DEF r, z

\* The multiple of p that makes a number divisible by B.
RedcFactor(x) == ((x % B) * mpinv) % B

LEMMA RedcDivides ==
  ASSUME NEW x \in Nat
  PROVE  RedcFactor(x) \in 0..(B - 1) /\ (x + RedcFactor(x) * P) % B = 0
<1> DEFINE m == RedcFactor(x)
           k == x \div B
           r == x % B
           l == (mpinv * P + 1) \div B
           j == (r * mpinv) \div B
<1>1. B \in Nat \ {0} /\ P \in Nat /\ mpinv \in Nat /\ (mpinv * P + 1) % B = 0
  BY PowB, RoomForSums, MpinvCorrect
<1>2. k \in Nat /\ r \in Nat /\ x = B * k + r
  BY ONLY <1>1, x \in Nat, DivMod
<1>3. l \in Nat /\ mpinv * P + 1 = B * l
  <2> DEFINE n == mpinv * P + 1
  <2>1. n \in Nat /\ n % B = 0
    BY <1>1
  <2> HIDE DEF n
  <2>2. /\ n \div B \in Nat
        /\ n % B \in 0..(B - 1)
        /\ n = B * (n \div B) + (n % B)
    BY ONLY <1>1, <2>1, DivMod, Zenon
  <2>3. n = B * (n \div B)
    BY ONLY <1>1, <2>1, <2>2
  <2> QED
    BY <2>2, <2>3 DEF n
<1>4. j \in Nat /\ m \in 0..(B - 1) /\ r * mpinv = B * j + m
  <2> DEFINE n == r * mpinv
  <2>1. n \in Nat
    BY <1>1, <1>2
  <2>2. m = n % B
    BY DEF RedcFactor
  <2> HIDE DEF n
  <2>3. n \div B \in Nat /\ n % B \in 0..(B - 1) /\ n = B * (n \div B) + (n % B)
    BY ONLY <1>1, <2>1, DivMod
  <2> HIDE DEF m
  <2> QED
    BY <2>2, <2>3 DEF n
<1> HIDE DEF k, r, l, j, m
<1>5. (x + m * P) + B * (j * P) = B * (k + r * l)
  <2>1. (r * mpinv) * P = (B * j + m) * P /\ (B * j + m) * P = B * (j * P) + m * P
    BY ONLY <1>1, <1>4
  <2>2. r * (mpinv * P + 1) = r * (B * l) /\ r * (B * l) = B * (r * l)
    BY ONLY <1>1, <1>2, <1>3
  <2>3. r * (mpinv * P + 1) = (r * mpinv) * P + r
    BY ONLY <1>1, <1>2
  <2>4. B * (k + r * l) = B * k + B * (r * l)
    BY ONLY <1>1, <1>2, <1>3
  <2>5. m * P \in Nat /\ B * (j * P) \in Nat /\ B * (r * l) \in Nat /\ B * k \in Nat
    BY ONLY <1>1, <1>2, <1>3, <1>4
  <2> QED
    BY ONLY <1>2, <2>1, <2>2, <2>3, <2>4, <2>5
<1> DEFINE n == x + m * P
           g == j * P
           h == k + r * l
<1>6. n \in Nat /\ g \in Nat /\ h \in Nat /\ n + B * g = B * h
  BY <1>1, <1>2, <1>3, <1>4, <1>5
<1> HIDE DEF n, g, h
<1>7. (n + B * g) % B = n % B
  BY ONLY <1>1, <1>6, AddMultiple
<1>8. (B * h) % B = 0
  <2>1. B * h \in Nat /\ 0 \in 0..(B - 1) /\ B * h = B * h + 0
    BY ONLY <1>1, <1>6
  <2> QED
    BY ONLY <1>1, <1>6, <2>1, DivUnique
<1>9. n % B = 0
  BY ONLY <1>6, <1>7, <1>8
<1> QED
  BY <1>4, <1>9 DEF m, n

FitsIn(x, W, d, e) ==
  /\ (x % e) % d = x % d
  /\ (x % e) - ((x % e) % d) = 0
  /\ x \div e = x \div d
  /\ (x % e) % B = x % B

\* What an iteration does to its sum x, when x fits in the words that it is
\* cut to: PWlen + 1 words, or one more if it is less than B^(PWlen + 1).
LEMMA RedcFits ==
  ASSUME NEW x \in Nat, NEW W \in Nat \ {0}, NEW d \in Nat \ {0}, d = B * W,
         NEW e \in Nat \ {0}, e = d \/ (x < d /\ d <= e)
  PROVE  FitsIn(x, W, d, e)
<1>0. B \in Nat \ {0}
  BY PowB
<1> SUFFICES /\ (x % e) % d = x % d
             /\ (x % e) - ((x % e) % d) = 0
             /\ x \div e = x \div d
             /\ (x % e) % B = x % B
  BY DEF FitsIn
<1>1. CASE x < d /\ d <= e
  <2>1. x \in 0..(d - 1) /\ x \in 0..(e - 1)
    BY <1>1
  <2>2. x % d = x /\ x \div d = 0 /\ x % e = x /\ x \div e = 0
    BY ONLY <2>1, d \in Nat \ {0}, e \in Nat \ {0}, SmallMod
  <2> QED
    BY ONLY <2>2, x \in Nat
<1>2. CASE e = d
  <2> DEFINE r == x % d
             g == x \div d
             k == W * g
  <2>1. r \in 0..(d - 1) /\ g \in Nat /\ x = d * g + r
    BY ONLY d \in Nat \ {0}, x \in Nat, DivMod
  <2>2. r % d = r
    BY ONLY <2>1, d \in Nat \ {0}, SmallMod
  <2> HIDE DEF r, g
  <2>3. k \in Nat /\ x = r + B * k
    <3>1. d * g = B * (W * g) /\ B * (W * g) \in Nat /\ k \in Nat
      BY ONLY <1>0, <2>1, W \in Nat \ {0}, d = B * W
    <3> QED
      BY ONLY <2>1, <3>1 DEF k
  <2> HIDE DEF k
  <2>4. (r + B * k) % B = r % B
    <3>1. r \in Nat
      BY ONLY <2>1
    <3> QED
      BY ONLY <1>0, <2>3, <3>1, AddMultiple
  <2>5. r % B = x % B /\ r - (r % d) = 0
    BY ONLY <2>1, <2>2, <2>3, <2>4
  <2> QED
    BY ONLY <1>2, <2>2, <2>5 DEF r
<1> QED
  BY <1>1, <1>2

\* One iteration computes (acc + ai b + m p) / B, and stays below 2 p.
LEMMA RedcIterates ==
  ASSUME NEW acc \in 0..(2 * P - 1), NEW ai \in 0..(B - 1), NEW b, Elem(b),
         Room \/ b.wlen <= PWlen
  PROVE  /\ RedcIteration(acc, ai, b) \in 0..(2 * P - 1)
         /\ \E m \in Nat : B * RedcIteration(acc, ai, b) = (acc + ai * b.val) + m * P
<1> DEFINE top == IF b.wlen > PWlen THEN b.wlen ELSE PWlen
           W == B^PWlen
           d == B^(PWlen + 1)
           e == B^(top + 1)
           x == acc + ai * b.val
           m == RedcFactor(x)
           y == m * P
           n == x + y
           s == (acc % e) + ai * Value(b)
           t == s % e
           u == (t % d) + RedcFactor(t) * P
           c == (s \div e) + (u \div d)
           z == RedcIteration(acc, ai, b)
<1>1. /\ b.wlen \in Nat /\ b.wlen <= PWlen + 1 /\ b.val \in Nat /\ b.val <= P /\ Value(b) = b.val
      /\ P \in Nat /\ P > 2 /\ B \in Nat /\ B > 1 /\ B \in Nat \ {0} /\ PWlen \in Nat
      /\ W \in Nat \ {0} /\ P < W /\ d = B * W /\ d \in Nat \ {0} /\ 2 * P < d
  <2>1. b.wlen \in 0..NN_MAX_WORD_LEN /\ b.val \in Nat /\ Value(b) = b.val
    BY LowClean DEF Elem
  <2>2. PWlen \in 0..NN_MAX_WORD_LEN /\ PWlen + 1 \in 0..NN_MAX_WORD_LEN
    BY RoomForSums
  <2>3. W \in Nat \ {0} /\ d = B * W /\ d \in Nat \ {0}
    BY <2>2, PowB
  <2> QED
    BY <2>1, <2>3, RoomForSums, PowB DEF Elem
<1>2. e \in Nat \ {0} /\ d <= e /\ (top = PWlen \/ (top = PWlen + 1 /\ Room))
  <2>1. top = PWlen \/ (top = PWlen + 1 /\ Room)
    BY <1>1
  <2>2. top + 1 \in 0..NN_MAX_WORD_LEN /\ PWlen + 1 \in 0..NN_MAX_WORD_LEN
        /\ PWlen + 1 <= top + 1
    <3> HIDE DEF top
    <3> QED
      BY <1>1, <2>1, RoomForSums
  <2> HIDE DEF top
  <2> QED
    BY <2>1, <2>2, PowB, PowMonotone
<1>3. x \in Nat /\ x < (B + 1) * P
  <2>1. ai * b.val <= (B - 1) * P /\ ai * b.val \in Nat
    <3> DEFINE v == b.val
    <3>1. v \in 0..P
      BY <1>1
    <3> HIDE DEF v
    <3>2. ai * v <= ai * P /\ ai * P <= (B - 1) * P /\ ai * v \in Nat /\ ai * P \in Nat
      BY ONLY <1>1, <3>1, ai \in 0..(B - 1)
    <3> QED
      BY ONLY <1>1, <3>2 DEF v
  <2>2. (B + 1) * P = (B - 1) * P + 2 * P /\ (B - 1) * P \in Nat
    BY <1>1
  <2> QED
    BY <1>1, <2>1, <2>2
<1>4. z = ((u \div B) % W) + (c % B) * W + (t - (t % d))
  BY DEF RedcIteration, RedcFactor
<1>5. s = x
  <2>1. acc \in 0..(e - 1)
    <3> HIDE DEF e, d
    <3> QED
      BY <1>1, <1>2
  <2>2. acc % e = acc
    <3> HIDE DEF e, d
    <3> QED
      BY ONLY <1>2, <2>1, SmallMod
  <2> QED
    BY <1>1, <2>2
<1>6. e = d \/ (x < d /\ d <= e)
  <2>1. CASE top = PWlen
    BY <2>1
  <2>2. CASE Room
    <3>1. (B + 1) * P <= d
      BY <2>2 DEF Room
    <3> HIDE DEF d, e, x
    <3> QED
      BY <1>1, <1>2, <1>3, <3>1
  <2> QED
    BY <1>2, <2>1, <2>2
<1> HIDE DEF z, d, e, W, x, top
<1>7. t % d = x % d /\ t - (t % d) = 0 /\ s \div e = x \div d /\ t % B = x % B
  <2>1. FitsIn(x, W, d, e)
    BY ONLY <1>1, <1>2, <1>3, <1>6, RedcFits
  <2> HIDE DEF s
  <2> QED
    BY ONLY <1>5, <2>1 DEF FitsIn
<1> HIDE DEF s, t
<1>8. m \in 0..(B - 1) /\ (x + m * P) % B = 0 /\ RedcFactor(t) = m
  <2>1. RedcFactor(t) = m
    BY ONLY <1>7 DEF RedcFactor, m
  <2> QED
    BY ONLY <1>3, <2>1, RedcDivides
<1> HIDE DEF m
<1>9. u = (x % d) + y /\ c = (x \div d) + (u \div d)
  <2>1. u = (x % d) + y
    BY ONLY <1>7, <1>8
  <2> HIDE DEF u
  <2> QED
    BY ONLY <1>7, <2>1
<1> HIDE DEF u, c
<1>10. y \in Nat /\ y <= (B - 1) * P
  BY ONLY <1>1, <1>8
<1>11. x + y < B * (2 * P) /\ x + y < B * (2 * W)
  <2>1. (B + 1) * P + (B - 1) * P = B * (2 * P) /\ (B + 1) * P \in Nat /\ (B - 1) * P \in Nat
    BY ONLY <1>1
  <2>2. B * (2 * P) <= B * (2 * W) /\ B * (2 * P) \in Nat /\ B * (2 * W) \in Nat
    BY ONLY <1>1
  <2> HIDE DEF y
  <2> QED
    BY ONLY <1>1, <1>3, <1>10, <2>1, <2>2
<1>12. n \in Nat /\ n % B = 0 /\ n < B * (2 * P)
  BY <1>3, <1>8, <1>10, <1>11
<1>13. ((u \div B) % W) + (c % B) * W = n \div B
  <2> HIDE DEF y
  <2>1. Carried(B, W, d, x, y) = (x + y) \div B
    BY ONLY <1>1, <1>3, <1>10, <1>11, CarriesAddUp
  <2> QED
    BY ONLY <1>9, <2>1 DEF Carried, n
<1> HIDE DEF n
<1>14. /\ n \div B \in Nat
       /\ n % B \in 0..(B - 1)
       /\ n = B * (n \div B) + (n % B)
  BY ONLY <1>1, <1>12, DivMod, Zenon
<1>15. z = n \div B
  <2> DEFINE l == ((u \div B) % W) + (c % B) * W
             r == t - (t % d)
  <2>1. z = l + r /\ l = n \div B /\ r = 0
    BY ONLY <1>4, <1>7, <1>13
  <2> HIDE DEF l, r
  <2> QED
    BY ONLY <1>14, <2>1
<1>16. n = B * z /\ z \in Nat
  <2>1. B * z \in Nat
    BY ONLY <1>1, <1>14, <1>15
  <2> QED
    BY ONLY <1>12, <1>14, <1>15, <2>1
<1>17. z < 2 * P
  BY ONLY <1>1, <1>12, <1>16
<1>18. B * z = x + m * P /\ m \in Nat
  BY <1>8, <1>16 DEF n
<1>19. z \in 0..(2 * P - 1)
  BY ONLY <1>1, <1>16, <1>17
<1>20. \E i \in Nat : B * z = x + i * P
  BY ONLY <1>18, Zenon
<1> QED
  BY ONLY <1>19, <1>20, Zenon DEF x, z

\* The words of a number below the i-th, and the i-th.
LEMMA NextWord ==
  ASSUME NEW n \in Nat, NEW d \in Nat \ {0}, NEW b \in Nat \ {0}
  PROVE  n % (b * d) = (n % d) + d * ((n \div d) % b)
<1> DEFINE q == n \div d
           r == n % d
           h == q \div b
           w == q % b
<1>1. q \in Nat /\ r \in 0..(d - 1) /\ n = d * q + r
  BY DivMod
<1>2. h \in Nat /\ w \in 0..(b - 1) /\ q = b * h + w
  BY ONLY <1>1, b \in Nat \ {0}, DivMod
<1> HIDE DEF q, r, h, w
<1> DEFINE s == r + d * w
           e == b * d
<1>3. e \in Nat \ {0} /\ s \in 0..(e - 1) /\ n = e * h + s
  <2>1. d * w <= d * (b - 1) /\ d * w \in Nat /\ d * (b - 1) = d * b - d /\ d * b \in Nat
    BY ONLY <1>2, b \in Nat \ {0}, d \in Nat \ {0}
  <2>2. d * q = d * (b * h) + d * w /\ d * (b * h) = e * h /\ e * h \in Nat
    BY ONLY <1>2, b \in Nat \ {0}, d \in Nat \ {0}
  <2>3. e = d * b /\ e \in Nat \ {0}
    BY ONLY b \in Nat \ {0}, d \in Nat \ {0}
  <2> HIDE DEF e
  <2> QED
    BY ONLY <1>1, <2>1, <2>2, <2>3, d \in Nat \ {0}
<1> HIDE DEF e, s
<1>4. n % e = s
  BY ONLY <1>2, <1>3, n \in Nat, DivUnique
<1> QED
  BY <1>4 DEF e, s, r, w, q

\* The words of a one after the other: acc R = a b modulo p.
LEMMA RedcLoopReduces ==
  ASSUME NEW a, Elem(a), NEW b, Elem(b), Room \/ b.wlen <= PWlen
  PROVE  /\ RedcLoop(a, b) \in 0..(2 * P - 1)
         /\ \E k \in Nat : R * RedcLoop(a, b) = a.val * b.val + k * P
<1> DEFINE V == 0..(2 * P - 1)
           w(i) == (a.val \div B^(i - 1)) % B
           F == [q \in (1..PWlen) \X V |-> RedcIteration(q[2], w(q[1]), b)]
           prev == [i \in 1..PWlen |-> i - 1]
           Body(acc) == [i \in 0..PWlen |-> IF i = 0 THEN 0
                                           ELSE RedcIteration(acc[i - 1], w(i), b)]
           g == CHOOSE acc : acc = Body(acc)
<1>1. /\ PWlen \in Nat /\ PWlen > 0 /\ P \in Nat /\ P > 2 /\ B \in Nat \ {0}
      /\ a.val \in Nat /\ b.val \in Nat /\ a.val <= P
      /\ R \in Nat /\ P < R /\ R = B^PWlen /\ B^0 = 1
      /\ \A i \in 1..PWlen : /\ B^(i - 1) \in Nat \ {0} /\ B^i = B * B^(i - 1)
                             /\ B^i \in Nat \ {0}
  <2>1. a.val \in Nat /\ b.val \in Nat /\ a.val <= P
    BY LowClean DEF Elem
  <2>2. PWlen \in 0..NN_MAX_WORD_LEN /\ PWlen > 0
    BY RoomForSums
  <2>3. ASSUME NEW i \in 1..PWlen
        PROVE  B^(i - 1) \in Nat \ {0} /\ B^i = B * B^(i - 1) /\ B^i \in Nat \ {0}
    <3>1. i - 1 \in 0..NN_MAX_WORD_LEN /\ i \in 0..NN_MAX_WORD_LEN /\ (i - 1) + 1 = i
      BY <2>2, RoomForSums
    <3>2. B^(i - 1) \in Nat \ {0} /\ B^((i - 1) + 1) = B * B^(i - 1) /\ B^i \in Nat \ {0}
      BY <3>1, PowB
    <3> QED
      BY <3>1, <3>2
  <2> QED
    BY <2>1, <2>2, <2>3, RoomForSums, PowB DEF R
<1>2. \A i \in 1..PWlen : w(i) \in 0..(B - 1)
  <2> TAKE i \in 1..PWlen
  <2> DEFINE d == B^(i - 1)
  <2>1. d \in Nat \ {0}
    BY <1>1
  <2> HIDE DEF d
  <2>2. a.val \div d \in Nat
    BY ONLY <1>1, <2>1, DivMod
  <2>3. (a.val \div d) % B \in 0..(B - 1)
    BY ONLY <1>1, <2>2, DivMod
  <2> QED
    BY <2>3 DEF d
<1>3. \A i \in 1..PWlen, v \in V :
        /\ RedcIteration(v, w(i), b) \in V
        /\ \E m \in Nat : B * RedcIteration(v, w(i), b) = (v + w(i) * b.val) + m * P
  <2> HIDE DEF w
  <2> QED
    BY <1>2, RedcIterates
<1> HIDE DEF w
<1>4. \E acc : acc = Body(acc)
  <2>1. F \in [((0 + 1)..PWlen) \X V -> V] /\ 0 \in V
    BY <1>1, <1>3
  <2>2. \A i \in (0 + 1)..PWlen : prev[i] \in 0..(i - 1)
    OBVIOUS
  <2>3. \A i \in 1..PWlen, v \in V : F[<<i, v>>] = RedcIteration(v, w(i), b)
    OBVIOUS
  <2> HIDE DEF F, V
  <2>4. PICK f \in [0..PWlen -> V] :
          f[0] = 0 /\ \A i \in (0 + 1)..PWlen : f[i] = F[<<i, f[prev[i]]>>]
    <3> HIDE DEF prev
    <3>1. 0 \in Nat /\ PWlen \in Nat /\ 0 <= PWlen
      BY <1>1
    <3>2. Definable(0, PWlen, V, 0, F, prev)
      BY ONLY <2>1, <2>2, <3>1, RecursionExists
    <3> QED
      BY <3>2 DEF Definable
  <2>5. \A i \in 1..PWlen : f[i] = RedcIteration(f[i - 1], w(i), b)
    <3> TAKE i \in 1..PWlen
    <3>1. i - 1 \in 0..PWlen /\ prev[i] = i - 1 /\ i \in (0 + 1)..PWlen
      BY <1>1
    <3>2. f[i - 1] \in V
      BY <3>1
    <3> QED
      BY <2>3, <2>4, <3>1, <3>2
  <2>6. f = Body(f)
    BY <2>4, <2>5
  <2> QED
    BY <2>6
<1>5. g = Body(g)
  BY <1>4
<1>6. g[0] = 0 /\ \A i \in 1..PWlen : g[i] = RedcIteration(g[i - 1], w(i), b)
  <2> HIDE DEF g
  <2> QED
    BY <1>1, <1>5
<1>7. RedcLoop(a, b) = g[PWlen]
  BY DEF RedcLoop, w
<1> HIDE DEF g, V
<1> DEFINE Good(i) == g[i] \in V /\ \E k \in Nat : B^i * g[i] = (a.val % B^i) * b.val + k * P
           L == {i \in 0..PWlen : Good(i)}
<1>8. 0 \in L
  <2>1. 0 \in V
    BY <1>1 DEF V
  <2>2. a.val % B^0 = 0
    <3>1. 1 \in Nat \ {0}
      OBVIOUS
    <3>2. a.val % 1 \in 0..(1 - 1)
      BY ONLY <1>1, <3>1, DivMod
    <3> QED
      BY <1>1, <3>2
  <2>3. B^0 * g[0] = (a.val % B^0) * b.val + 0 * P
    BY <1>1, <1>6, <2>2
  <2> QED
    BY <1>1, <1>6, <2>1, <2>3
<1>9. ASSUME NEW i \in (0 + 1)..PWlen, \A j \in 0..(i - 1) : j \in L
      PROVE  i \in L
  <2> DEFINE d == B^(i - 1)
             v == g[i - 1]
             n == g[i]
             wi == w(i)
             low == a.val % d
             bv == b.val
  <2>1. i \in 1..PWlen /\ i \in 0..PWlen
    OBVIOUS
  <2>2. Good(i - 1)
    <3>1. i - 1 \in 0..(i - 1)
      OBVIOUS
    <3> HIDE DEF Good
    <3> QED
      BY <1>9, <3>1
  <2>3. v \in V /\ \E k \in Nat : d * v = low * bv + k * P
    BY <2>2
  <2>4. n \in V /\ \E m \in Nat : B * n = (v + wi * bv) + m * P
    <3>1. n = RedcIteration(v, w(i), b)
      BY <1>6, <2>1
    <3> HIDE DEF v, n
    <3> QED
      BY <1>3, <2>1, <2>3, <3>1
  <2>5. d \in Nat \ {0} /\ B^i = B * d /\ wi \in 0..(B - 1) /\ bv \in Nat
    BY <1>1, <1>2, <2>1
  <2>6. a.val % B^i = low + d * wi /\ low \in Nat
    <3> DEFINE av == a.val
    <3>1. av \in Nat
      BY <1>1
    <3>2. wi = (av \div d) % B
      BY DEF w
    <3> HIDE DEF av, d
    <3>3. av % (B * d) = (av % d) + d * ((av \div d) % B)
      BY ONLY <1>1, <2>5, <3>1, NextWord
    <3>4. av % d \in Nat
      BY ONLY <2>5, <3>1, DivMod
    <3> QED
      BY <2>5, <3>2, <3>3, <3>4 DEF av
  <2> HIDE DEF v, n, d, wi, low, bv
  <2>7. PICK k \in Nat : d * v = low * bv + k * P
    BY ONLY <2>3
  <2>8. PICK m \in Nat : B * n = (v + wi * bv) + m * P
    BY ONLY <2>4
  <2>9. v \in Nat /\ n \in Nat /\ P \in Nat /\ B \in Nat
    BY <1>1, <2>3, <2>4 DEF V
  <2>10. B^i * n = (low + d * wi) * bv + (k + d * m) * P
    <3>1. (B * d) * n = d * (B * n)
      BY ONLY <2>5, <2>9
    <3>2. d * (B * n) = d * v + d * (wi * bv) + d * (m * P)
      BY ONLY <2>5, <2>8, <2>9
    <3>3. d * (wi * bv) = (d * wi) * bv /\ d * (m * P) = (d * m) * P
      BY ONLY <2>5, <2>9
    <3> DEFINE dw == d * wi
               dm == d * m
    <3>4. dw \in Nat /\ dm \in Nat
      BY ONLY <2>5
    <3>5. d * (B * n) = low * bv + k * P + dw * bv + dm * P
      BY ONLY <2>7, <3>2, <3>3
    <3> HIDE DEF dw, dm
    <3>6. low * bv + k * P + dw * bv + dm * P = (low + dw) * bv + (k + dm) * P
      BY ONLY <2>5, <2>6, <2>9, <3>4
    <3> QED
      BY ONLY <2>5, <3>1, <3>5, <3>6 DEF dw, dm
  <2>11. k + d * m \in Nat
    BY ONLY <2>5
  <2>12. \E kk \in Nat : B^i * n = (a.val % B^i) * bv + kk * P
    BY ONLY <2>6, <2>10, <2>11
  <2>13. Good(i)
    BY <2>4, <2>12 DEF n, bv
  <2> HIDE DEF Good
  <2> QED
    BY <2>1, <2>13
<1>10. PWlen \in L
  <2> HIDE DEF L
  <2>1. 0 \in Nat /\ PWlen \in 0..PWlen /\ PWlen \in Nat
    BY <1>1
  <2>2. \A i \in 0..PWlen : i \in L
    BY ONLY <1>8, <1>9, <2>1, CountingInduction
  <2> QED
    BY <2>1, <2>2
<1>11. a.val % R = a.val
  <2>1. a.val \in 0..(R - 1) /\ R \in Nat \ {0}
    BY <1>1
  <2> QED
    BY ONLY <2>1, SmallMod
<1> QED
  <2>1. Good(PWlen)
    BY <1>10
  <2>2. RedcLoop(a, b) \in V /\ \E k \in Nat : R * RedcLoop(a, b) = (a.val % R) * b.val + k * P
    BY <1>1, <1>7, <2>1
  <2> QED
    BY <1>11, <2>2 DEF V

\* T is S after Montgomery's product of v1 and v2 was written to out.
Multiplies(S, T, out, v1, v2) ==
  /\ Computes(S, T, {out, "cpy"}, out, T.nn[out].val)
  /\ T.nn[out].wlen = PWlen
  /\ T.nn[out].val \in 0..(P - 1)
  /\ (T.nn[out].val * R) % P = (v1 * v2) % P

\* The residue of a number below 2 p.
LEMMA ReducedResidue ==
  ASSUME NEW v \in 0..(2 * P - 1), NEW k \in Nat, NEW q \in Nat, R * v = q + k * P
  PROVE  Reduced(v) \in 0..(P - 1) /\ (Reduced(v) * R) % P = q % P
<1> DEFINE w == Reduced(v)
           j == IF v < P THEN 0 ELSE R
           wr == w * R
<1>1. P \in Nat \ {0} /\ R \in Nat
  BY RoomForSums, PowB DEF R
<1>2. w \in 0..(P - 1) /\ v = w + (IF v < P THEN 0 ELSE P)
  BY <1>1 DEF Reduced
<1>3. wr \in Nat /\ j \in Nat /\ wr + P * j = q + P * k
  <2>1. CASE v < P
    <3>1. v = w
      BY <1>2, <2>1
    <3> HIDE DEF w
    <3>2. w * R = R * v /\ w * R \in Nat /\ k * P = P * k
      BY ONLY <1>1, <1>2, <3>1, k \in Nat
    <3> QED
      BY <1>1, <2>1, <3>2
  <2>2. CASE ~ (v < P)
    <3>1. v = w + P
      BY <1>2, <2>2
    <3> HIDE DEF w
    <3>2. R * v = w * R + P * R /\ w * R \in Nat /\ k * P = P * k
      BY ONLY <1>1, <1>2, <3>1, k \in Nat
    <3> QED
      BY <1>1, <2>2, <3>2
  <2> QED
    BY <2>1, <2>2
<1> HIDE DEF wr, j
<1>4. (wr + P * j) % P = wr % P /\ (q + P * k) % P = q % P
  BY ONLY <1>1, <1>3, q \in Nat, k \in Nat, AddMultiple
<1> QED
  BY <1>2, <1>3, <1>4 DEF wr, w

\* nn_mul_redc1 multiplies when one operand has no more words than p, or p
\* leaves room.
LEMMA MulComputes ==
  ASSUME NEW S, Context(S), NEW out \in Outs, NEW in1 \in Names, NEW in2 \in Names,
         Elem(S.nn[in1]), Elem(S.nn[in2]),
         Room \/ S.nn[in1].wlen <= PWlen \/ S.nn[in2].wlen <= PWlen
  PROVE  Multiplies(S, nn_mul_redc1(S, out, in1, in2), out, S.nn[in1].val, S.nn[in2].val)
<1> DEFINE acc == RedcWords(S, in1, in2)
           v1 == S.nn[in1].val
           v2 == S.nn[in2].val
           c == [wlen |-> PWlen + 1, val |-> acc]
           T == Put(S, "cpy", c)
           U == nn_cnd_sub(~nn_less(T.nn["cpy"], p), T, "cpy", "cpy", "p")
           less == nn_less(U.nn["cpy"], p)
           e == [U.nn["cpy"] EXCEPT !.wlen = PWlen]
           V == Put(U, out, e)
           X == MustHave(V, less)
           w == Reduced(acc)
<1>1. /\ S \in Stores /\ out \in Names /\ "cpy" \in Outs /\ "cpy" \in Names
      /\ v1 \in Nat /\ v2 \in Nat /\ P \in Nat /\ P > 2 /\ P < R /\ R \in Nat
      /\ PWlen + 1 \in 0..NN_MAX_WORD_LEN /\ PWlen \in 0..NN_MAX_WORD_LEN
      /\ 2 * P < B^(PWlen + 1) /\ B^(PWlen + 1) \in Nat
  <2>1. S \in Stores /\ out \in Names
    BY DEF Context, Outs
  <2>2. "cpy" \in Names /\ "cpy" \notin DOMAIN Constants
    BY ConstantTypes DEF Names, Locals
  <2>3. v1 \in Nat /\ v2 \in Nat
    BY LowClean DEF Elem
  <2> QED
    BY <2>1, <2>2, <2>3, RoomForSums, PowB DEF Outs, R
<1>2. acc \in 0..(2 * P - 1) /\ \E k \in Nat : R * acc = v1 * v2 + k * P
  <2>1. CASE S.nn[in1].wlen <= S.nn[in2].wlen
    <3> DEFINE a == S.nn[in2]
               b == S.nn[in1]
    <3>1. Elem(a) /\ Elem(b) /\ (Room \/ b.wlen <= PWlen) /\ acc = RedcLoop(a, b)
      <4>1. a.wlen \in Nat /\ b.wlen \in Nat /\ PWlen \in Nat
        BY LowClean, RoomForSums DEF Elem
      <4> QED
        BY <2>1, <4>1 DEF RedcWords
    <3>2. v1 * v2 = v2 * v1
      BY <1>1
    <3> HIDE DEF a, b, acc
    <3>3. acc \in 0..(2 * P - 1) /\ \E k \in Nat : R * acc = a.val * b.val + k * P
      BY <3>1, RedcLoopReduces
    <3> QED
      BY <3>2, <3>3 DEF a, b
  <2>2. CASE ~ (S.nn[in1].wlen <= S.nn[in2].wlen)
    <3> DEFINE a == S.nn[in1]
               b == S.nn[in2]
    <3>1. Elem(a) /\ Elem(b) /\ (Room \/ b.wlen <= PWlen) /\ acc = RedcLoop(a, b)
      <4>1. a.wlen \in Nat /\ b.wlen \in Nat /\ PWlen \in Nat
        BY LowClean, RoomForSums DEF Elem
      <4> QED
        BY <2>2, <4>1 DEF RedcWords
    <3> HIDE DEF a, b, acc
    <3>3. acc \in 0..(2 * P - 1) /\ \E k \in Nat : R * acc = a.val * b.val + k * P
      BY <3>1, RedcLoopReduces
    <3> QED
      BY <3>3 DEF a, b
  <2> QED
    BY <2>1, <2>2
<1>3. w \in 0..(P - 1) /\ (w * R) % P = (v1 * v2) % P
  <2>1. PICK k \in Nat : R * acc = v1 * v2 + k * P
    BY <1>2
  <2> DEFINE q == v1 * v2
  <2>2. q \in Nat
    BY <1>1
  <2> HIDE DEF q, acc
  <2>3. R * acc = q + k * P
    BY <2>1 DEF q
  <2>4. Reduced(acc) \in 0..(P - 1) /\ (Reduced(acc) * R) % P = q % P
    BY ONLY <1>2, <2>2, <2>3, ReducedResidue
  <2> QED
    BY <2>4 DEF q
<1>4. nn_mul_redc1(S, out, in1, in2) = X
  BY DEF nn_mul_redc1
<1> HIDE DEF acc
<1>5. Clean(c) /\ c \in Nn /\ c.wlen = PWlen + 1 /\ c.val = acc
  BY <1>1, <1>2 DEF Clean, Nn
<1> HIDE DEF c, X
<1>6. Sets(S, T, {"cpy"}, "cpy", c) /\ T.ok = S.ok
  BY ONLY <1>1, <1>5, PutSets
<1> HIDE DEF T
<1>7. Context(T) /\ T.nn["cpy"] = c
  BY ONLY <1>1, <1>6, Context(S), SetsContext DEF Sets
<1> DEFINE d == [wlen |-> T.nn["cpy"].wlen,
                 val |-> IF T.nn["cpy"].val < P THEN T.nn["cpy"].val ELSE T.nn["cpy"].val - P]
<1>8. Sets(T, U, {"cpy"}, "cpy", d) /\ U.ok = T.ok /\ Elem(U.nn["cpy"])
  <2>1. Clean(T.nn["cpy"]) /\ T.nn["cpy"].wlen <= PWlen + 1 /\ T.nn["cpy"].val <= 2 * P
    BY <1>1, <1>2, <1>5, <1>7
  <2> QED
    BY ONLY <1>1, <1>7, <2>1, FinalSub
<1>9. d = [wlen |-> PWlen + 1, val |-> w]
  BY <1>5, <1>7 DEF Reduced
<1> HIDE DEF U, d, w
<1>10. U \in Stores /\ U.nn["cpy"] = [wlen |-> PWlen + 1, val |-> w] /\ Clean(U.nn["cpy"])
  BY <1>8, <1>9 DEF Sets, Elem
<1>11. less \in BOOLEAN /\ less
  <2>1. Clean(p) /\ p.val = P
    BY StoreOfP DEF Elem
  <2>2. nn_less(U.nn["cpy"], p) <=> U.nn["cpy"].val < p.val
    BY ONLY <1>10, <2>1, CompareClean
  <2>3. U.nn["cpy"].val < p.val
    BY <1>1, <1>3, <1>10, <2>1
  <2> QED
    BY <2>2, <2>3 DEF nn_less
<1>12. e = [wlen |-> PWlen, val |-> w] /\ Elem(e) /\ e.val = w /\ e.wlen = PWlen
  <2>1. e = [wlen |-> PWlen, val |-> w]
    BY <1>10
  <2>2. w \in Nat /\ w < B^PWlen /\ w <= P
    BY <1>1, <1>3 DEF R
  <2> HIDE DEF e
  <2> QED
    BY <1>1, <2>1, <2>2 DEF Elem, Clean, Nn
<1> HIDE DEF less, e
<1>13. Sets(U, V, {out}, out, e) /\ V.ok = U.ok
  <2>1. e \in Nn
    BY <1>12 DEF Elem, Clean
  <2> QED
    BY ONLY <1>1, <1>10, <2>1, PutSets
<1> HIDE DEF V
<1>14. X \in Stores /\ X.nn = V.nn /\ X.ok = S.ok
  <2>1. V \in Stores /\ V.ok \in BOOLEAN
    BY <1>13 DEF Sets, Stores
  <2> QED
    BY <1>6, <1>8, <1>11, <1>13, <2>1, MustHaveKeeps DEF X
<1>15. Sets(S, X, {out, "cpy"}, out, e)
  <2>1. Sets(S, U, {out, "cpy"}, "cpy", d)
    BY ONLY <1>6, <1>8, SetsCompose
  <2>2. Sets(S, V, {out, "cpy"}, out, e)
    BY ONLY <1>13, <2>1, SetsCompose
  <2> QED
    BY ONLY <1>14, <2>2 DEF Sets
<1>16. X.nn[out] = e
  BY ONLY <1>15 DEF Sets
<1>17. Multiplies(S, X, out, v1, v2)
  BY ONLY <1>3, <1>12, <1>14, <1>15, <1>16 DEF Multiplies, Computes
<1> QED
  BY <1>4, <1>17

-----------------------------------------------------------------------------
(* The field: inverses modulo p.                                             *)

\* Numbers that are not multiples of p have inverses.
LEMMA InverseExists ==
  ASSUME NEW a \in Nat, a % P # 0
  PROVE  \E i \in 1..(P - 1) : (a * i) % P = 1
<1> DEFINE r == a % P
<1>1. P \in Nat \ {0} /\ P > 1 /\ \A d \in 2..(P - 1) : P % d # 0
  BY RoomForSums, FieldAssumption
<1>2. r \in 0..(P - 1)
  BY ONLY <1>1, a \in Nat, DivMod
<1>3. r \in 1..(P - 1)
  BY <1>2
<1> HIDE DEF r
<1>4. PICK i \in 1..(P - 1) : (r * i) % P = 1
  BY ONLY <1>1, <1>3, PrimeInverse
<1>5. (r * i) % P = (a * i) % P
  <2>1. i \in Nat
    BY <1>1
  <2> QED
    BY ONLY <1>1, <2>1, a \in Nat, ModMul DEF r
<1> QED
  BY <1>4, <1>5

\* Factors that are not multiples of p cancel.
LEMMA CancelP ==
  ASSUME NEW a \in Nat, a % P # 0, NEW x \in Nat, NEW y \in Nat, (x * a) % P = (y * a) % P
  PROVE  x % P = y % P
<1>1. P \in Nat \ {0} /\ P > 2
  BY RoomForSums
<1>2. PICK i \in 1..(P - 1) : (a * i) % P = 1
  BY InverseExists
<1>3. i \in Nat
  BY <1>1
<1>4. ASSUME NEW z \in Nat
      PROVE  (((z * a) % P) * i) % P = z % P
  <2> DEFINE za == z * a
             ai == a * i
  <2>1. za \in Nat /\ ai \in Nat /\ za * i = ai * z
    BY <1>3
  <2> HIDE DEF za, ai
  <2>2. ((za % P) * i) % P = (za * i) % P
    BY ONLY <1>1, <1>3, <2>1, ModMul
  <2>3. ((ai % P) * z) % P = (ai * z) % P
    BY ONLY <1>1, <2>1, z \in Nat, ModMul
  <2>4. ai % P = 1 /\ 1 * z = z
    BY <1>2 DEF ai
  <2> QED
    BY ONLY <2>1, <2>2, <2>3, <2>4 DEF za
<1> DEFINE xa == (x * a) % P
           ya == (y * a) % P
<1>5. (xa * i) % P = x % P /\ (ya * i) % P = y % P /\ xa = ya
  BY <1>4
<1> HIDE DEF xa, ya
<1> QED
  BY ONLY <1>5

\* p does not divide a product of numbers that it does not divide.
LEMMA ProductNotZero ==
  ASSUME NEW x \in Nat, NEW y \in Nat, x % P # 0, y % P # 0
  PROVE  (x * y) % P # 0
<1>1. P \in Nat \ {0}
  BY RoomForSums
<1>2. ASSUME (x * y) % P = 0
      PROVE  FALSE
  <2>1. 0 * y = 0 /\ 0 % P = 0
    <3>1. 0 \in 0..(P - 1)
      BY <1>1
    <3> QED
      BY ONLY <1>1, <3>1, SmallMod, y \in Nat
  <2>2. (x * y) % P = (0 * y) % P
    BY <1>2, <2>1
  <2>3. 0 \in Nat
    OBVIOUS
  <2>4. x % P = 0 % P
    BY ONLY <2>2, <2>3, x \in Nat, y \in Nat, y % P # 0, CancelP
  <2> QED
    BY <2>1, <2>4
<1> QED
  BY <1>2

\* Neither does it divide a power of 2.
LEMMA PowersNotZero ==
  /\ \A i \in 0..WORD_BITS : (2^i) % P # 0
  /\ \A n \in 0..PWlen : (B^n) % P # 0
<1>1. /\ P \in Nat \ {0} /\ P > 2 /\ PWlen \in Nat /\ WORD_BITS \in Nat
      /\ 2^0 = 1 /\ B^0 = 1 /\ B = 2^WORD_BITS
  BY RoomForSums, PowB, PowersAssumption, FieldAssumption DEF B
<1>2. 1 % P # 0 /\ 2 % P # 0
  <2>1. 1 \in 0..(P - 1) /\ 2 \in 0..(P - 1)
    BY <1>1
  <2>2. 1 % P = 1 /\ 2 % P = 2
    BY ONLY <1>1, <2>1, SmallMod
  <2> QED
    BY <2>2
<1>3. \A i \in 0..WORD_BITS : (2^i) % P # 0
  <2> DEFINE L == {i \in 0..WORD_BITS : (2^i) % P # 0}
  <2>1. 0 \in L
    BY <1>1, <1>2
  <2>2. ASSUME NEW i \in (0 + 1)..WORD_BITS, \A j \in 0..(i - 1) : j \in L
        PROVE  i \in L
    <3> DEFINE j == i - 1
               q == 2^j
    <3>1. j \in L /\ j \in 0..WORD_BITS /\ i = j + 1
      BY <2>2
    <3>2. j \in 0..(WORD_BITS * NN_MAX_WORD_LEN)
      <4>1. WORD_BITS * NN_MAX_WORD_LEN >= WORD_BITS /\ WORD_BITS * NN_MAX_WORD_LEN \in Nat
        <5>1. NN_MAX_WORD_LEN \in Nat /\ NN_MAX_WORD_LEN >= 1
          BY RoomForSums
        <5> QED
          BY <1>1, <5>1
      <4> QED
        BY <1>1, <3>1, <4>1
    <3>3. q \in Nat /\ 2^(j + 1) = 2 * q
      <4> HIDE DEF j
      <4> QED
        BY <3>2, PowersAssumption
    <3>4. q % P # 0
      BY <3>1
    <3> HIDE DEF q, j
    <3>5. 2 \in Nat
      OBVIOUS
    <3>6. (2 * q) % P # 0
      BY ONLY <1>2, <3>3, <3>4, <3>5, ProductNotZero
    <3>7. (2^i) % P # 0
      BY <3>1, <3>3, <3>6
    <3> QED
      BY <3>7
  <2>3. 0 \in Nat
    OBVIOUS
  <2>4. \A i \in 0..WORD_BITS : i \in L
    <3> HIDE DEF L
    <3> QED
      BY ONLY <1>1, <2>1, <2>2, <2>3, CountingInduction
  <2> QED
    BY <2>4
<1>4. B % P # 0 /\ B \in Nat
  BY <1>1, <1>3, PowB
<1>5. \A n \in 0..PWlen : (B^n) % P # 0
  <2> DEFINE L == {n \in 0..PWlen : (B^n) % P # 0}
  <2>1. 0 \in L
    <3>0. B^0 = 1 /\ PWlen \in Nat
      BY ONLY <1>1
    <3>1. (B^0) % P # 0 /\ 0 \in 0..PWlen
      BY ONLY <1>2, <3>0
    <3> QED
      BY <3>1
  <2>2. ASSUME NEW i \in (0 + 1)..PWlen, \A j \in 0..(i - 1) : j \in L
        PROVE  i \in L
    <3> DEFINE j == i - 1
               q == B^j
    <3>1. j \in L /\ j \in 0..PWlen /\ i = j + 1
      BY <2>2
    <3>2. j \in 0..NN_MAX_WORD_LEN
      BY <3>1, RoomForSums
    <3>3. q \in Nat /\ B^(j + 1) = B * q
      <4> HIDE DEF j
      <4> QED
        BY <3>2, PowB
    <3>4. q % P # 0
      BY <3>1
    <3> HIDE DEF q, j
    <3>5. (B * q) % P # 0
      BY ONLY <1>4, <3>3, <3>4, ProductNotZero
    <3>6. (B^i) % P # 0
      BY <3>1, <3>3, <3>5
    <3> QED
      BY <3>6
  <2>3. 0 \in Nat
    OBVIOUS
  <2>4. \A i \in 0..PWlen : i \in L
    <3> HIDE DEF L
    <3> QED
      BY ONLY <1>1, <2>1, <2>2, <2>3, CountingInduction
  <2> QED
    BY <2>4
<1> QED
  BY <1>3, <1>5

\* Numbers without common divisors, by Bezout's equation.
Coprime(a, b) == \E i, j \in Int : i * a + j * b = 1

\* What the loop of nn_modinv_odd keeps: a = u x and b = v x modulo p.
Coefs(x, a, b, u, v) ==
  /\ a \in 0..P /\ b \in 0..P /\ u \in 0..(P - 1) /\ v \in 0..(P - 1)
  /\ b % 2 = 1
  /\ (u * x) % P = a % P /\ (v * x) % P = b % P
  /\ Coprime(a, b)

LEMMA CoprimeSteps ==
  ASSUME NEW a \in Nat, NEW b \in Nat, Coprime(a, b)
  PROVE  /\ Coprime(b, a)
         /\ Coprime(a - b, b)
         /\ \A h \in Nat : a = 2 * h => Coprime(h, b)
         /\ a = 0 => b = 1
<1>1. PICK i \in Int, j \in Int : i * a + j * b = 1
  BY DEF Coprime
<1>2. Coprime(b, a)
  <2>1. j * b + i * a = 1
    BY <1>1
  <2> QED
    BY <2>1 DEF Coprime
<1>3. Coprime(a - b, b)
  <2>1. i * (a - b) = i * a - i * b /\ (j + i) * b = j * b + i * b
    OBVIOUS
  <2>2. i * (a - b) + (j + i) * b = 1 /\ j + i \in Int
    <3>1. i * a \in Int /\ i * b \in Int /\ j * b \in Int
      OBVIOUS
    <3> QED
      BY <1>1, <2>1, <3>1
  <2> QED
    BY <2>2 DEF Coprime
<1>4. ASSUME NEW h \in Nat, a = 2 * h
      PROVE  Coprime(h, b)
  <2>1. (2 * i) * h + j * b = 1 /\ 2 * i \in Int
    <3>1. (2 * i) * h = i * (2 * h)
      OBVIOUS
    <3> QED
      BY <1>1, <1>4, <3>1
  <2> QED
    BY <2>1 DEF Coprime
<1>5. ASSUME a = 0
      PROVE  b = 1
  <2>1. j * b = 1
    BY <1>1, <1>5
  <2> QED
    BY ONLY <2>1, j \in Int, b \in Nat
<1> QED
  BY <1>2, <1>3, <1>4, <1>5

\* The exchange of the two pairs.
LEMMA CoefsSwap ==
  ASSUME NEW x \in Nat, NEW a, NEW b, NEW u, NEW v, Coefs(x, a, b, u, v), a % 2 = 1
  PROVE  Coefs(x, b, a, v, u)
<1>1. a \in Nat /\ b \in Nat /\ Coprime(a, b)
  BY RoomForSums DEF Coefs
<1>2. Coprime(b, a)
  BY ONLY <1>1, CoprimeSteps
<1> QED
  BY <1>2 DEF Coefs

\* u - v modulo p.
SubMod(u, v) == IF u < v THEN u + (P - v) ELSE u - v

\* The subtraction of the smaller pair.
LEMMA CoefsSub ==
  ASSUME NEW x \in Nat, NEW a, NEW b, NEW u, NEW v, Coefs(x, a, b, u, v), a % 2 = 1, b <= a
  PROVE  Coefs(x, a - b, b, SubMod(u, v), v) /\ (a - b) % 2 = 0
<1> DEFINE w == SubMod(u, v)
           j == IF u < v THEN x ELSE 0
           wx == w * x
           vx == v * x
           ux == u * x
           d == a - b
<1>1. /\ P \in Nat \ {0} /\ a \in 0..P /\ b \in 0..P /\ u \in 0..(P - 1) /\ v \in 0..(P - 1)
      /\ b % 2 = 1 /\ ux % P = a % P /\ vx % P = b % P /\ Coprime(a, b)
  BY RoomForSums DEF Coefs
<1>2. w \in 0..(P - 1) /\ w + v = u + (IF u < v THEN P ELSE 0)
  BY <1>1 DEF SubMod
<1>3. /\ wx \in Nat /\ vx \in Nat /\ ux \in Nat /\ j \in Nat /\ d \in Nat /\ a = b + d
      /\ wx + vx = ux + P * j
  <2>1. CASE u < v
    <3>1. w + v = u + P
      BY <1>2, <2>1
    <3> HIDE DEF w
    <3>2. (w + v) * x = w * x + v * x /\ (u + P) * x = u * x + P * x
          /\ w * x \in Nat /\ v * x \in Nat /\ u * x \in Nat
      BY ONLY <1>1, <1>2, x \in Nat
    <3> QED
      BY <1>1, <2>1, <3>1, <3>2
  <2>2. CASE ~ (u < v)
    <3>1. w + v = u
      BY <1>1, <1>2, <2>2
    <3> HIDE DEF w
    <3>2. (w + v) * x = w * x + v * x
          /\ w * x \in Nat /\ v * x \in Nat /\ u * x \in Nat
      BY ONLY <1>1, <1>2, x \in Nat
    <3>3. wx + vx = ux
      BY <3>1, <3>2
    <3>4. P * 0 = 0 /\ d \in Nat /\ a = b + d
      BY <1>1
    <3>5. wx \in Nat /\ vx \in Nat /\ ux \in Nat /\ j = 0
      BY <2>2, <3>2
    <3> HIDE DEF wx, vx, ux, j, d
    <3> QED
      BY ONLY <3>3, <3>4, <3>5
  <2> QED
    BY <2>1, <2>2
<1> HIDE DEF w, wx, vx, ux, j, d
<1>4. (wx + vx) % P = a % P
  <2>1. (ux + P * j) % P = ux % P
    <3>1. P \in Nat \ {0} /\ ux \in Nat /\ j \in Nat
      BY ONLY <1>1, <1>3
    <3> QED
      BY ONLY <3>1, AddMultiple
  <2> QED
    BY ONLY <1>1, <1>3, <2>1
<1>5. (d + vx) % P = a % P
  <2>1. ((vx % P) + d) % P = (vx + d) % P
    BY ONLY <1>1, <1>3, ModAdd
  <2>2. b \in Nat
    BY ONLY <1>1
  <2>3. ((b % P) + d) % P = (b + d) % P
    BY ONLY <1>1, <1>3, <2>2, ModAdd
  <2>4. d + vx = vx + d
    BY ONLY <1>3
  <2> QED
    BY ONLY <1>1, <1>3, <2>1, <2>3, <2>4
<1>6. wx % P = d % P
  <2> DEFINE m == wx + vx
             n == d + vx
  <2>1. m \in Nat /\ n \in Nat /\ wx <= m /\ m - wx = n - d /\ m % P = n % P
    BY ONLY <1>3, <1>4, <1>5
  <2>2. P \in Nat \ {0} /\ wx \in Nat /\ d \in Nat
    BY ONLY <1>1, <1>3
  <2> HIDE DEF m, n
  <2> QED
    BY ONLY <2>1, <2>2, ModCancel, Zenon
<1>7. d % 2 = 0 /\ d \in 0..P
  BY <1>1, a % 2 = 1, b <= a DEF d
<1>8. Coprime(d, b)
  <2>1. a \in Nat /\ b \in Nat
    BY <1>1
  <2> QED
    BY <1>1, <2>1, CoprimeSteps DEF d
<1> QED
  BY <1>1, <1>2, <1>6, <1>7, <1>8 DEF Coefs, w, wx, vx, d

\* u / 2 modulo p.
HalfMod(u) == IF u % 2 = 1 THEN (u \div 2) + ((P \div 2) + 1) ELSE u \div 2

\* The halving of both.
LEMMA CoefsHalve ==
  ASSUME NEW x \in Nat, NEW a, NEW b, NEW u, NEW v, Coefs(x, a, b, u, v), a % 2 = 0
  PROVE  Coefs(x, a \div 2, b, HalfMod(u), v) /\ a = 2 * (a \div 2)
<1> DEFINE w == HalfMod(u)
           j == IF u % 2 = 1 THEN x ELSE 0
           wx == w * x
           ux == u * x
           h == a \div 2
<1>1. /\ P \in Nat \ {0} /\ a \in 0..P /\ b \in 0..P /\ u \in 0..(P - 1) /\ v \in 0..(P - 1)
      /\ b % 2 = 1 /\ ux % P = a % P /\ (v * x) % P = b % P /\ Coprime(a, b)
  BY RoomForSums DEF Coefs
<1>2. w \in 0..(P - 1) /\ 2 * w = u + (IF u % 2 = 1 THEN P ELSE 0)
  BY <1>1, OddP DEF HalfMod
<1>3. a = 2 * h /\ h \in 0..P
  BY <1>1, a % 2 = 0
<1>4. wx \in Nat /\ ux \in Nat /\ j \in Nat /\ h \in Nat /\ wx * 2 = ux + P * j
  <2>1. CASE u % 2 = 1
    <3>1. 2 * w = u + P
      BY <1>2, <2>1
    <3> HIDE DEF w, h
    <3>2. (2 * w) * x = (w * x) * 2 /\ (u + P) * x = u * x + P * x
          /\ w * x \in Nat /\ u * x \in Nat
      BY ONLY <1>1, <1>2, x \in Nat
    <3> QED
      BY <1>3, <2>1, <3>1, <3>2
  <2>2. CASE u % 2 # 1
    <3>1. 2 * w = u
      BY <1>1, <1>2, <2>2
    <3> HIDE DEF w, h
    <3>2. (2 * w) * x = (w * x) * 2 /\ w * x \in Nat /\ u * x \in Nat
      BY ONLY <1>1, <1>2, x \in Nat
    <3>3. wx * 2 = ux
      BY <3>1, <3>2
    <3>4. P * 0 = 0
      BY <1>1
    <3>5. wx \in Nat /\ ux \in Nat /\ j = 0 /\ h \in Nat
      BY <1>3, <2>2, <3>2
    <3> HIDE DEF wx, ux, j, h
    <3> QED
      BY ONLY <3>3, <3>4, <3>5
  <2> QED
    BY <2>1, <2>2
<1> HIDE DEF w, wx, ux, j, h
<1>5. (wx * 2) % P = (h * 2) % P
  <2>1. (ux + P * j) % P = ux % P
    <3>1. P \in Nat \ {0} /\ ux \in Nat /\ j \in Nat
      BY ONLY <1>1, <1>4
    <3> QED
      BY ONLY <3>1, AddMultiple
  <2>2. h * 2 = a
    BY ONLY <1>3
  <2> QED
    BY ONLY <1>1, <1>4, <2>1, <2>2
<1>6. 2 % P # 0
  <2>1. P \in Nat \ {0} /\ 2 \in 0..(P - 1)
    BY RoomForSums
  <2>2. 2 % P = 2
    BY ONLY <2>1, SmallMod
  <2> QED
    BY <2>2
<1>7. wx % P = h % P
  <2>1. 2 \in Nat
    OBVIOUS
  <2> QED
    BY ONLY <1>4, <1>5, <1>6, <2>1, CancelP
<1>8. Coprime(h, b)
  <2>1. a \in Nat /\ b \in Nat
    BY <1>1
  <2> QED
    BY <1>1, <1>3, <1>4, <2>1, CoprimeSteps
<1>9. Coefs(x, h, b, w, v)
  BY <1>1, <1>2, <1>3, <1>7, <1>8 DEF Coefs, wx
<1> QED
  BY <1>3, <1>9 DEF h, w

-----------------------------------------------------------------------------
(* nn_modinv_odd on a store.                                                 *)

\* A condition that is met.
LEMMA MustHaveTrue ==
  ASSUME NEW S \in Stores, NEW cond \in BOOLEAN, cond
  PROVE  MustHave(S, cond) = S
BY DEF Stores, MustHave

\* The names that the inversion uses beside its output.
Scratch == {"a", "b", "u", "cpy"}
Targets == Outs \ Scratch

LEMMA ScratchNames ==
  /\ Scratch \subseteq Outs /\ "inv" \in Targets /\ Outs \subseteq Names
  /\ "p" \in Names /\ "p" \notin Outs /\ "mp1d2" \in Names /\ "mp1d2" \notin Outs
  /\ "r" \in Names /\ "r" \notin Outs /\ "one" \in Names /\ "r_square" \in Names
  /\ Regs \subseteq Targets
<1>1. DOMAIN Constants = {"p", "r_square", "one", "r", "mp1d2"}
  BY ConstantTypes
<1> HIDE DEF Constants
<1>2. Scratch \subseteq Outs /\ "inv" \in Targets
  BY <1>1 DEF Outs, Names, Locals, Scratch, Targets
<1>3. Regs \subseteq Targets
  BY <1>1, NamesAssumption DEF Outs, Names, Locals, Scratch, Targets
<1> QED
  BY <1>1, <1>2, <1>3 DEF Outs, Names

\* The exchange of two clean numbers.
LEMMA SwappedClean ==
  ASSUME NEW m, NEW n, Clean(m), Clean(n)
  PROVE  Swapped(m, n) = n
<1> DEFINE k == MaxWlen(m, n)
<1>1. m.wlen \in 0..NN_MAX_WORD_LEN /\ n.wlen \in 0..NN_MAX_WORD_LEN /\ n.val \in Nat
  BY LowClean
<1>2. k \in m.wlen..NN_MAX_WORD_LEN /\ k \in n.wlen..NN_MAX_WORD_LEN /\ k \in 0..NN_MAX_WORD_LEN
  BY <1>1, MaxWlenBounds
<1> HIDE DEF k
<1>3. Low(n, k) = n.val /\ n.val < B^k
  BY <1>2, LowClean
<1>4. WithWords(m, k, n.val) = [wlen |-> m.wlen, val |-> n.val % B^k]
  BY <1>1, <1>2, WithWordsClean
<1>5. n.val % B^k = n.val
  <2>1. B^k \in Nat \ {0}
    BY <1>2, PowB
  <2>2. n.val \in 0..(B^k - 1)
    BY ONLY <1>1, <1>3, <2>1
  <2> QED
    BY ONLY <2>1, <2>2, SmallMod
<1>6. n = [wlen |-> n.wlen, val |-> n.val]
  BY DEF Clean, Nn
<1>7. Swapped(m, n) = [[wlen |-> m.wlen, val |-> n.val] EXCEPT !.wlen = n.wlen]
  BY <1>3, <1>4, <1>5 DEF Swapped, k
<1> QED
  BY <1>6, <1>7

\* The parity of a clean number, and its half.
LEMMA HalvedClean ==
  ASSUME NEW m, Clean(m)
  PROVE  /\ nn_isodd(m) <=> m.val % 2 = 1
         /\ Halved(m) = [wlen |-> m.wlen, val |-> m.val \div 2]
         /\ Clean(Halved(m))
<1>1. m.wlen \in 0..NN_MAX_WORD_LEN /\ m.val \in Nat /\ Value(m) = m.val /\ m.val < B^m.wlen
  BY LowClean DEF Clean
<1>2. nn_isodd(m) <=> m.val % 2 = 1
  <2>1. CASE m.wlen = 0
    <3>1. m.val = 0
      BY <1>1, <2>1, PowB
    <3> QED
      BY <2>1, <3>1 DEF nn_isodd
  <2>2. CASE m.wlen # 0
    BY <2>2 DEF nn_isodd
  <2> QED
    BY <2>1, <2>2
<1> DEFINE h == m.val \div 2
           W == B^m.wlen
<1>3. h \in Nat /\ h < W /\ W \in Nat \ {0} /\ h \in 0..(W - 1)
  <2>1. h \in Nat /\ h <= m.val
    BY <1>1
  <2>2. W \in Nat \ {0}
    BY <1>1, PowB
  <2> HIDE DEF h
  <2> QED
    BY <1>1, <2>1, <2>2
<1>4. h % W = h
  <2> HIDE DEF h, W
  <2> QED
    BY ONLY <1>3, SmallMod
<1>5. WithWords(m, m.wlen, h) = [wlen |-> m.wlen, val |-> h % W]
  <2>1. m.wlen \in m.wlen..NN_MAX_WORD_LEN
    BY <1>1
  <2> QED
    BY <1>3, <2>1, WithWordsClean
<1>6. Halved(m) = [wlen |-> m.wlen, val |-> h]
  BY <1>1, <1>4, <1>5 DEF Halved
<1> QED
  BY <1>1, <1>2, <1>3, <1>6 DEF Clean, Nn

\* A residue with no more words than p.
Small(n) == Clean(n) /\ n.wlen <= PWlen /\ n.val < P

\* T is S with the four numbers of the loop in their places.
InverseState(S, T, out, a, b, u, v) ==
  /\ T \in Stores /\ T.ok = S.ok
  /\ \A y \in Names \ (Scratch \cup {out}) : T.nn[y] = S.nn[y]
  /\ T.nn["a"] = [wlen |-> PWlen, val |-> a] /\ T.nn["b"] = [wlen |-> PWlen, val |-> b]
  /\ Small(T.nn["u"]) /\ T.nn["u"].val = u
  /\ Small(T.nn[out]) /\ T.nn[out].val = v

\* What the steps below read of such a store.
LEMMA StateFacts ==
  ASSUME NEW S, Context(S), NEW out \in Targets, NEW T,
         NEW a \in 0..P, NEW b \in 0..P, NEW u, NEW v, InverseState(S, T, out, a, b, u, v)
  PROVE  /\ Context(T) /\ T \in Stores
         /\ out \in Names /\ out \in Outs /\ out \notin Scratch
         /\ "a" \in Names /\ "b" \in Names /\ "u" \in Names /\ "cpy" \in Names
         /\ Clean(T.nn["a"]) /\ Clean(T.nn["b"]) /\ Clean(T.nn["u"]) /\ Clean(T.nn[out])
         /\ u \in Nat /\ v \in Nat /\ u < P /\ v < P
<1>1. /\ out \in Names /\ out \in Outs /\ out \notin Scratch
      /\ "a" \in Names /\ "b" \in Names /\ "u" \in Names /\ "cpy" \in Names
      /\ Scratch \cup {out} \in SUBSET Outs
  BY ScratchNames DEF Targets, Scratch
<1>2. Context(T)
  <2>1. Sets(S, T, Scratch \cup {out}, out, T.nn[out])
    BY DEF Sets, InverseState
  <2> QED
    BY ONLY <1>1, <2>1, Context(S), SetsContext
<1>3. \A n \in 0..P : Clean([wlen |-> PWlen, val |-> n])
  <2>1. PWlen \in 0..NN_MAX_WORD_LEN /\ P \in Nat /\ B^PWlen \in Nat /\ P < B^PWlen
    BY RoomForSums, PowB
  <2> QED
    BY <2>1 DEF Clean, Nn
<1>4. Clean(T.nn["a"]) /\ Clean(T.nn["b"]) /\ Clean(T.nn["u"]) /\ Clean(T.nn[out])
  BY <1>3 DEF InverseState, Small
<1>5. u \in Nat /\ v \in Nat /\ u < P /\ v < P
  BY <1>4, LowClean DEF InverseState, Small
<1> QED
  BY <1>1, <1>2, <1>4, <1>5 DEF InverseState

LEMMA SwapState ==
  ASSUME NEW S, Context(S), NEW out \in Targets, NEW T,
         NEW a \in 0..P, NEW b \in 0..P, NEW u, NEW v, InverseState(S, T, out, a, b, u, v)
  PROVE  IF a % 2 = 1 /\ a < b THEN InverseState(S, SwapSmaller(T, out), out, b, a, v, u)
         ELSE SwapSmaller(T, out) = T
<1>1. /\ T \in Stores /\ out \in Names /\ out \notin Scratch
      /\ "a" \in Names /\ "b" \in Names /\ "u" \in Names
      /\ Clean(T.nn["a"]) /\ Clean(T.nn["b"]) /\ Clean(T.nn["u"]) /\ Clean(T.nn[out])
  BY StateFacts
<1>2. T.nn["a"].val = a /\ T.nn["b"].val = b
  BY DEF InverseState
<1>3. nn_isodd(T.nn["a"]) /\ nn_less(T.nn["a"], T.nn["b"]) <=> a % 2 = 1 /\ a < b
  BY <1>1, <1>2, HalvedClean, CompareClean
<1>4. CASE a % 2 = 1 /\ a < b
  <2> DEFINE U == SwapSmaller(T, out)
             nn == [T.nn EXCEPT !["a"] = T.nn["b"], !["b"] = T.nn["a"],
                                !["u"] = T.nn[out], ![out] = T.nn["u"]]
  <2>1. /\ Swapped(T.nn["a"], T.nn["b"]) = T.nn["b"] /\ Swapped(T.nn["b"], T.nn["a"]) = T.nn["a"]
        /\ Swapped(T.nn["u"], T.nn[out]) = T.nn[out] /\ Swapped(T.nn[out], T.nn["u"]) = T.nn["u"]
    BY <1>1, SwappedClean
  <2>2. out # "a" /\ out # "b" /\ out # "u"
    BY <1>1 DEF Scratch
  <2>3. T.nn \in [Names -> Nn] /\ T = [nn |-> T.nn, ok |-> T.ok] /\ T.ok \in BOOLEAN
    BY <1>1 DEF Stores
  <2>4. U = [T EXCEPT !.nn = nn]
    <3>1. nn_isodd(T.nn["a"]) /\ nn_less(T.nn["a"], T.nn["b"])
      BY <1>3, <1>4
    <3>2. U = [T EXCEPT !.nn["a"] = Swapped(T.nn["a"], T.nn["b"]),
                        !.nn["b"] = Swapped(T.nn["b"], T.nn["a"]),
                        !.nn["u"] = Swapped(T.nn["u"], T.nn[out]),
                        !.nn[out] = Swapped(T.nn[out], T.nn["u"])]
      BY ONLY <3>1 DEF SwapSmaller, U
    <3>3. U = [T EXCEPT !.nn["a"] = T.nn["b"], !.nn["b"] = T.nn["a"],
                        !.nn["u"] = T.nn[out], !.nn[out] = T.nn["u"]]
      <4> HIDE DEF U
      <4> QED
        BY ONLY <2>1, <3>2
    <3> HIDE DEF U
    <3> QED
      BY ONLY <2>3, <3>3
  <2> HIDE DEF U
  <2>5. U.nn = nn /\ U.ok = T.ok /\ U = [nn |-> nn, ok |-> T.ok]
    <3> HIDE DEF nn
    <3> QED
      BY <2>3, <2>4
  <2>6. /\ nn["a"] = T.nn["b"] /\ nn["b"] = T.nn["a"] /\ nn["u"] = T.nn[out] /\ nn[out] = T.nn["u"]
        /\ \A y \in Names \ {"a", "b", "u", out} : nn[y] = T.nn[y]
    BY <1>1, <2>2, <2>3
  <2>7. nn \in [Names -> Nn]
    BY <1>1, <2>2, <2>3
  <2> HIDE DEF nn
  <2>8. U \in Stores
    BY <2>3, <2>5, <2>7 DEF Stores
  <2>9. InverseState(S, U, out, b, a, v, u)
    BY <2>2, <2>5, <2>6, <2>8 DEF InverseState, Scratch
  <2> QED
    BY <1>4, <2>9 DEF U
<1>5. CASE ~ (a % 2 = 1 /\ a < b)
  <2>1. SwapSmaller(T, out) = T
    BY <1>3, <1>5 DEF SwapSmaller
  <2> QED
    BY <1>5, <2>1
<1> QED
  BY <1>4, <1>5

LEMMA SubtractCoefState ==
  ASSUME NEW S, Context(S), NEW out \in Targets, NEW T,
         NEW a \in 0..P, NEW b \in 0..P, NEW u, NEW v, InverseState(S, T, out, a, b, u, v)
  PROVE  InverseState(S, SubtractCoef(T, out), out, a, b, SubMod(u, v), v)
<1>1. /\ Context(T) /\ T \in Stores /\ out \in Names /\ out \in Outs /\ out \notin Scratch
      /\ "a" \in Names /\ "b" \in Names /\ "u" \in Names /\ "cpy" \in Names
      /\ Clean(T.nn["u"]) /\ Clean(T.nn[out]) /\ u \in Nat /\ v \in Nat /\ u < P /\ v < P
      /\ "p" \in Names /\ T.nn["p"] = p /\ Clean(p) /\ p.wlen = PWlen /\ p.val = P
      /\ Scratch \subseteq Names
  BY StateFacts, StoreOfP, ScratchNames DEF Elem
<1>2. /\ T.nn["u"].val = u /\ T.nn[out].val = v
      /\ T.nn["u"].wlen <= PWlen /\ T.nn[out].wlen <= PWlen
      /\ T.nn["u"].wlen \in Nat /\ T.nn[out].wlen \in Nat
  BY <1>1, LowClean DEF InverseState, Small
<1>3. nn_less(T.nn["u"], T.nn[out]) <=> u < v
  BY <1>1, <1>2, CompareClean
<1>4. P \in Nat /\ PWlen \in Nat /\ P < B^PWlen /\ PWlen < NN_MAX_WORD_LEN /\ B^PWlen \in Nat
  BY RoomForSums, PowB
<1>5. CASE u < v
  <2> DEFINE U == nn_cnd_sub(TRUE, T, "cpy", "p", out)
             V == nn_cnd_add(TRUE, U, "u", "u", "cpy")
             c == Difference(T, "cpy", "p", out)
             d == Sum(U.nn["u"], U.nn["cpy"])
  <2>1. SubtractCoef(T, out) = V
    BY <1>3, <1>5 DEF SubtractCoef
  <2>2. Sets(T, U, {"cpy"}, "cpy", c) /\ Clean(c) /\ U.ok = T.ok
    <3>1. Clean(T.nn["p"]) /\ T.nn[out].val <= T.nn["p"].val
      BY <1>1, <1>2, <1>4
    <3>2. T \in Stores /\ "cpy" \in Names /\ "p" \in Names /\ out \in Names /\ Clean(T.nn[out])
      BY <1>1
    <3> QED
      BY ONLY <3>1, <3>2, CndSub
  <2>3. c.wlen = PWlen /\ c.val = P - v
    <3>1. "cpy" \notin {"p", out}
      BY <1>1 DEF Scratch
    <3>2. MaxWlen(T.nn["p"], T.nn[out]) = PWlen
      BY <1>1, <1>2, <1>4 DEF MaxWlen
    <3> QED
      BY <1>1, <1>2, <3>1, <3>2 DEF Difference
  <2> HIDE DEF U, V, c
  <2>4. /\ U \in Stores /\ U.ok = S.ok
        /\ \A y \in Names \ (Scratch \cup {out}) : U.nn[y] = S.nn[y]
        /\ U.nn["cpy"] = c /\ \A y \in (Scratch \cup {out}) \ {"cpy"} : U.nn[y] = T.nn[y]
    <3>1. "cpy" \in Scratch
      BY DEF Scratch
    <3> QED
      BY <1>1, <2>2, <3>1 DEF InverseState, Sets
  <2>5. U.nn["u"] = T.nn["u"] /\ U.nn["a"] = T.nn["a"] /\ U.nn["b"] = T.nn["b"]
        /\ U.nn[out] = T.nn[out]
    BY <1>1, <2>4 DEF Scratch
  <2>6. /\ MaxWlen(U.nn["u"], U.nn["cpy"]) = PWlen
        /\ Clean(U.nn["u"]) /\ Clean(U.nn["cpy"])
    BY <1>1, <1>2, <1>4, <2>2, <2>3, <2>4, <2>5 DEF MaxWlen
  <2>7. Sets(U, V, {"u"}, "u", d) /\ Clean(d) /\ V.ok = U.ok
    <3>1. U \in Stores /\ "u" \in Names /\ "cpy" \in Names
          /\ MaxWlen(U.nn["u"], U.nn["cpy"]) < NN_MAX_WORD_LEN
      BY <1>1, <1>4, <2>4, <2>6
    <3> QED
      BY ONLY <2>6, <3>1, CndAdd DEF V
  <2>8. d.val = SubMod(u, v) /\ d.wlen = PWlen /\ d.val < P
    <3>1. d.val = u + (P - v) /\ u + (P - v) < P
      BY <1>1, <1>2, <1>4, <1>5, <2>3, <2>4, <2>5 DEF Sum
    <3>2. U.nn["u"].val + U.nn["cpy"].val = d.val
      BY DEF Sum
    <3>3. U.nn["u"].val + U.nn["cpy"].val < B^PWlen
      BY <1>1, <1>4, <3>1, <3>2
    <3> QED
      BY <1>5, <2>6, <3>1, <3>3 DEF Sum, SubMod
  <2> HIDE DEF d
  <2>9. Small(d)
    BY <1>4, <2>7, <2>8 DEF Small
  <2>10. V \in Stores /\ V.nn["u"] = d /\ \A y \in Names \ {"u"} : V.nn[y] = U.nn[y]
    BY <2>7 DEF Sets
  <2>11. "u" \in Scratch \cup {out} /\ "u" # out /\ out # "a" /\ out # "b"
    BY <1>1 DEF Scratch
  <2>12. InverseState(S, V, out, a, b, SubMod(u, v), v)
    BY <1>1, <2>4, <2>5, <2>7, <2>8, <2>9, <2>10, <2>11 DEF InverseState
  <2> QED
    BY <2>1, <2>12
<1>6. CASE ~ (u < v)
  <2> DEFINE U == nn_cnd_sub(TRUE, T, "u", "u", out)
             c == Difference(T, "u", "u", out)
  <2>1. SubtractCoef(T, out) = U
    BY <1>3, <1>6 DEF SubtractCoef
  <2>2. Sets(T, U, {"u"}, "u", c) /\ Clean(c) /\ U.ok = T.ok
    <3>1. T.nn[out].val <= T.nn["u"].val
      BY <1>1, <1>2, <1>6
    <3>2. T \in Stores /\ "u" \in Names /\ out \in Names /\ Clean(T.nn["u"]) /\ Clean(T.nn[out])
      BY <1>1
    <3> QED
      BY ONLY <3>1, <3>2, CndSub
  <2>3. c.wlen <= PWlen /\ c.val = SubMod(u, v) /\ c.val < P
    BY <1>1, <1>2, <1>4, <1>6 DEF Difference, SubMod
  <2> HIDE DEF U, c
  <2>4. Small(c)
    BY <2>2, <2>3 DEF Small
  <2>5. U \in Stores /\ U.nn["u"] = c /\ \A y \in Names \ {"u"} : U.nn[y] = T.nn[y]
    BY <2>2 DEF Sets
  <2>6. "u" \in Scratch \cup {out} /\ "u" # out /\ out # "a" /\ out # "b"
    BY <1>1 DEF Scratch
  <2>7. InverseState(S, U, out, a, b, SubMod(u, v), v)
    BY <1>1, <2>2, <2>3, <2>4, <2>5, <2>6 DEF InverseState
  <2> QED
    BY <2>1, <2>7
<1> QED
  BY <1>5, <1>6

LEMMA SubtractOddState ==
  ASSUME NEW S, Context(S), NEW out \in Targets, NEW T,
         NEW a \in 0..P, NEW b \in 0..P, NEW u, NEW v, InverseState(S, T, out, a, b, u, v),
         a % 2 = 1 => b <= a
  PROVE  IF a % 2 = 1 THEN InverseState(S, SubtractOdd(T, out), out, a - b, b, SubMod(u, v), v)
         ELSE SubtractOdd(T, out) = T
<1>1. /\ T \in Stores /\ out \notin Scratch /\ out \in Names
      /\ "a" \in Names /\ "b" \in Names
      /\ Clean(T.nn["a"]) /\ Clean(T.nn["b"])
  BY StateFacts
<1>2. T.nn["a"] = [wlen |-> PWlen, val |-> a] /\ T.nn["b"] = [wlen |-> PWlen, val |-> b]
  BY DEF InverseState
<1>3. nn_isodd(T.nn["a"]) <=> a % 2 = 1
  BY <1>1, <1>2, HalvedClean
<1>4. CASE a % 2 = 1
  <2> DEFINE U == nn_cnd_sub(TRUE, T, "a", "a", "b")
             c == Difference(T, "a", "a", "b")
  <2>1. Sets(T, U, {"a"}, "a", c) /\ Clean(c) /\ U.ok = T.ok
    <3>1. /\ T \in Stores /\ "a" \in Names /\ "b" \in Names
          /\ Clean(T.nn["a"]) /\ Clean(T.nn["b"]) /\ T.nn["b"].val <= T.nn["a"].val
      BY <1>1, <1>2, <1>4
    <3> QED
      BY ONLY <3>1, CndSub
  <2>2. c = [wlen |-> PWlen, val |-> a - b]
    BY <1>2 DEF Difference
  <2> HIDE DEF U, c
  <2>3. U \in Stores /\ U.nn["a"] = c /\ \A y \in Names \ {"a"} : U.nn[y] = T.nn[y]
    BY <2>1 DEF Sets
  <2>4. "a" \in Scratch \cup {out} /\ "a" # out /\ "u" \in Names
    BY <1>1, ScratchNames DEF Scratch
  <2>5. InverseState(S, U, out, a - b, b, u, v)
    BY <1>1, <2>1, <2>2, <2>3, <2>4 DEF InverseState
  <2>6. a - b \in 0..P
    BY <1>4, RoomForSums
  <2> DEFINE V == SubtractCoef(U, out)
  <2>7. InverseState(S, V, out, a - b, b, SubMod(u, v), v)
    <3> DEFINE d == a - b
    <3>1. d \in 0..P /\ InverseState(S, U, out, d, b, u, v)
      BY <2>5, <2>6
    <3> HIDE DEF d
    <3> QED
      BY ONLY <3>1, Context(S), out \in Targets, b \in 0..P, SubtractCoefState DEF d
  <2>8. SubtractOdd(T, out) = V
    BY <1>3, <1>4 DEF SubtractOdd, U
  <2> QED
    BY <1>4, <2>7, <2>8
<1>5. CASE a % 2 # 1
  <2>1. SubtractOdd(T, out) = T
    BY <1>3, <1>5 DEF SubtractOdd
  <2> QED
    BY <1>5, <2>1
<1> QED
  BY <1>4, <1>5

LEMMA HalveState ==
  ASSUME NEW S, Context(S), NEW out \in Targets, NEW T,
         NEW a \in 0..P, NEW b \in 0..P, NEW u, NEW v, InverseState(S, T, out, a, b, u, v),
         a % 2 = 0
  PROVE  InverseState(S, HalveBoth(T), out, a \div 2, b, HalfMod(u), v)
<1>1. /\ Context(T) /\ T \in Stores /\ out \notin Scratch /\ out \in Names
      /\ "a" \in Names /\ "u" \in Names /\ "b" \in Names
      /\ Clean(T.nn["a"]) /\ Clean(T.nn["u"]) /\ u \in Nat /\ u < P
      /\ "mp1d2" \in Names /\ "mp1d2" \notin Scratch \cup {out}
  BY StateFacts, ScratchNames
<1>2. /\ T.nn["a"] = [wlen |-> PWlen, val |-> a] /\ T.nn["u"].val = u
      /\ T.nn["u"].wlen <= PWlen /\ T.nn["u"].wlen \in Nat
  BY <1>1, LowClean DEF InverseState, Small
<1>3. (nn_isodd(T.nn["a"]) <=> a % 2 = 1) /\ (nn_isodd(T.nn["u"]) <=> u % 2 = 1)
  BY <1>1, <1>2, HalvedClean
<1>4. /\ P \in Nat /\ PWlen \in 0..NN_MAX_WORD_LEN /\ PWlen \in Nat /\ P < B^PWlen
      /\ PWlen < NN_MAX_WORD_LEN /\ B^PWlen \in Nat
  BY RoomForSums, PowB
<1> DEFINE odd == nn_isodd(T.nn["u"])
           M == MustHave(T, ~nn_isodd(T.nn["a"]))
           H == [M EXCEPT !.nn["a"] = Halved(T.nn["a"]), !.nn["u"] = Halved(T.nn["u"])]
           V == nn_cnd_add(odd, H, "u", "u", "mp1d2")
<1>5. HalveBoth(T) = V
  BY DEF HalveBoth
<1>6. M = T
  <2>1. ~nn_isodd(T.nn["a"]) /\ (~nn_isodd(T.nn["a"])) \in BOOLEAN
    BY <1>3, a % 2 = 0
  <2> QED
    BY <1>1, <2>1, MustHaveTrue
<1>7. /\ Halved(T.nn["a"]) = [wlen |-> PWlen, val |-> a \div 2] /\ Clean(Halved(T.nn["a"]))
      /\ Halved(T.nn["u"]) = [wlen |-> T.nn["u"].wlen, val |-> u \div 2]
      /\ Clean(Halved(T.nn["u"]))
  BY <1>1, <1>2, HalvedClean
<1> DEFINE ha == Halved(T.nn["a"])
           hu == Halved(T.nn["u"])
<1>8. ha \in Nn /\ hu \in Nn
  BY <1>7 DEF Clean
<1> HIDE DEF M, ha, hu
<1>9. /\ H \in Stores /\ H.ok = T.ok /\ H.nn["a"] = ha /\ H.nn["u"] = hu
      /\ \A y \in Names \ {"a", "u"} : H.nn[y] = T.nn[y]
  <2>1. H = [T EXCEPT !.nn["a"] = ha, !.nn["u"] = hu]
    BY <1>6 DEF ha, hu
  <2> HIDE DEF H
  <2> QED
    BY <1>1, <1>8, <2>1 DEF Stores
<1> HIDE DEF H
<1>10. V = nn_cnd_add(odd, H, "u", "u", "mp1d2")
  OBVIOUS
<1>11. HalfMod(u) \in 0..(P - 1) /\ 2 * (u \div 2) <= u /\ u \div 2 \in Nat
  BY <1>1, <1>4, OddP DEF HalfMod
<1>12. "a" # out /\ "b" # out /\ "u" # out /\ "a" \in Scratch /\ "u" \in Scratch
  BY <1>1 DEF Scratch
<1>13. CASE u % 2 = 1
  <2> DEFINE W == nn_cnd_add(TRUE, H, "u", "u", "mp1d2")
             d == Sum(H.nn["u"], H.nn["mp1d2"])
  <2>1. V = W
    BY <1>3, <1>13
  <2>2. H.nn["mp1d2"] = [wlen |-> PWlen, val |-> (P \div 2) + 1] /\ Clean(H.nn["mp1d2"])
    <3>1. T.nn["mp1d2"] = [wlen |-> PWlen, val |-> (P \div 2) + 1]
      <4>1. Constants["mp1d2"] = [wlen |-> PWlen, val |-> (P \div 2) + 1]
            /\ "mp1d2" \in DOMAIN Constants
        BY ConstantTypes
      <4> QED
        BY <1>1, <4>1 DEF Context
    <3>2. H.nn["mp1d2"] = T.nn["mp1d2"]
      BY <1>1, <1>9, <1>12
    <3>3. (P \div 2) + 1 \in Nat /\ (P \div 2) + 1 < P
      BY OddP, RoomForSums
    <3> QED
      BY <1>4, <3>1, <3>2, <3>3 DEF Clean, Nn
  <2>3. MaxWlen(H.nn["u"], H.nn["mp1d2"]) = PWlen
    BY <1>2, <1>4, <1>7, <1>9, <2>2 DEF MaxWlen, hu
  <2>4. Sets(H, W, {"u"}, "u", d) /\ Clean(d) /\ W.ok = H.ok
    <3>1. /\ H \in Stores /\ "u" \in Names /\ "mp1d2" \in Names
          /\ Clean(H.nn["u"]) /\ Clean(H.nn["mp1d2"])
          /\ MaxWlen(H.nn["u"], H.nn["mp1d2"]) < NN_MAX_WORD_LEN
      BY <1>1, <1>4, <1>7, <1>9, <2>2, <2>3 DEF hu
    <3> QED
      BY ONLY <3>1, CndAdd
  <2>5. d.val = HalfMod(u) /\ d.wlen = PWlen
    <3>1. H.nn["u"].val + H.nn["mp1d2"].val = HalfMod(u)
      BY <1>7, <1>9, <1>13, <2>2 DEF HalfMod, hu
    <3>2. HalfMod(u) < B^PWlen
      BY <1>4, <1>11
    <3> QED
      BY <2>3, <3>1, <3>2 DEF Sum
  <2> HIDE DEF W, d
  <2>6. Small(d)
    BY <1>4, <1>11, <2>4, <2>5 DEF Small
  <2>7. W \in Stores /\ W.nn["u"] = d /\ \A y \in Names \ {"u"} : W.nn[y] = H.nn[y]
    BY <2>4 DEF Sets
  <2>8. InverseState(S, W, out, a \div 2, b, HalfMod(u), v)
    BY <1>1, <1>7, <1>9, <1>12, <2>4, <2>5, <2>6, <2>7 DEF InverseState, ha
  <2> QED
    BY <1>5, <2>1, <2>8
<1>14. CASE u % 2 # 1
  <2>1. V = Put(H, "u", H.nn["u"])
    BY <1>3, <1>14 DEF nn_cnd_add
  <2>2. HalfMod(u) = u \div 2
    BY <1>14 DEF HalfMod
  <2> HIDE DEF V
  <2>3. Sets(H, V, {"u"}, "u", hu) /\ V.ok = H.ok
    BY <1>1, <1>8, <1>9, <2>1, PutSets
  <2>4. V \in Stores /\ V.nn["u"] = hu /\ \A y \in Names \ {"u"} : V.nn[y] = H.nn[y]
    BY <2>3 DEF Sets
  <2>5. Small(hu) /\ hu.val = HalfMod(u)
    BY <1>2, <1>4, <1>7, <1>11, <2>2 DEF Small, hu
  <2>6. InverseState(S, V, out, a \div 2, b, HalfMod(u), v)
    BY <1>1, <1>7, <1>9, <1>12, <2>3, <2>4, <2>5 DEF InverseState, ha
  <2> QED
    BY <1>5, <2>6
<1> QED
  BY <1>13, <1>14

\* One iteration keeps the congruences and halves the product a b at least.
LEMMA StepState ==
  ASSUME NEW S, Context(S), NEW out \in Targets, NEW T, NEW x \in Nat,
         NEW a, NEW b, NEW u, NEW v, InverseState(S, T, out, a, b, u, v),
         Coefs(x, a, b, u, v), a # 0
  PROVE  \E c, d, s, t : /\ InverseState(S, InverseStep(T, out), out, c, d, s, t)
                         /\ Coefs(x, c, d, s, t)
                         /\ 2 * (c * d) <= a * b
<1>1. a \in 0..P /\ b \in 0..P /\ b % 2 = 1 /\ P \in Nat
  BY RoomForSums DEF Coefs
<1>2. /\ T \in Stores /\ Clean(T.nn["a"]) /\ Clean(T.nn["b"])
      /\ T.nn["a"].val = a /\ T.nn["b"].val = b
  BY <1>1, StateFacts DEF InverseState
<1> DEFINE M == MustHave(T, nn_isodd(T.nn["b"]))
           U == SwapSmaller(M, out)
           V == SubtractOdd(U, out)
           W == HalveBoth(V)
           X == CoefsReduced(W, out)
<1>3. InverseStep(T, out) = X
  <2>1. ~nn_iszero(T.nn["a"])
    BY <1>2, CompareClean, a # 0
  <2> QED
    BY <2>1 DEF InverseStep
<1>4. M = T
  <2>1. nn_isodd(T.nn["b"]) /\ nn_isodd(T.nn["b"]) \in BOOLEAN
    BY <1>1, <1>2, HalvedClean
  <2> QED
    BY <1>2, <2>1, MustHaveTrue
<1> HIDE DEF M, X
<1>5. PICK a1, b1, u1, v1 : /\ InverseState(S, U, out, a1, b1, u1, v1)
                            /\ Coefs(x, a1, b1, u1, v1)
                            /\ a1 % 2 = 1 => b1 <= a1
                            /\ a1 * b1 = a * b
  <2>1. IF a % 2 = 1 /\ a < b THEN InverseState(S, SwapSmaller(T, out), out, b, a, v, u)
        ELSE SwapSmaller(T, out) = T
    BY ONLY <1>1, Context(S), out \in Targets, InverseState(S, T, out, a, b, u, v), SwapState
  <2>2. CASE a % 2 = 1 /\ a < b
    <3>1. InverseState(S, U, out, b, a, v, u)
      BY <1>4, <2>1, <2>2
    <3>2. Coefs(x, b, a, v, u)
      BY <2>2, CoefsSwap
    <3>3. a <= b /\ b * a = a * b
      BY <1>1, <2>2
    <3> QED
      BY <3>1, <3>2, <3>3
  <2>3. CASE ~ (a % 2 = 1 /\ a < b)
    <3>1. InverseState(S, U, out, a, b, u, v)
      BY <1>4, <2>1, <2>3
    <3>2. a % 2 = 1 => b <= a
      BY <1>1, <2>3
    <3> QED
      BY <3>1, <3>2
  <2> QED
    BY <2>2, <2>3
<1> HIDE DEF U
<1>6. a1 \in 0..P /\ b1 \in 0..P /\ a1 \in Nat /\ b1 \in Nat
  BY <1>1, <1>5 DEF Coefs
<1>7. PICK a2, u2 : /\ InverseState(S, V, out, a2, b1, u2, v1)
                    /\ Coefs(x, a2, b1, u2, v1)
                    /\ a2 % 2 = 0 /\ a2 * b1 <= a1 * b1
  <2>1. IF a1 % 2 = 1 THEN InverseState(S, V, out, a1 - b1, b1, SubMod(u1, v1), v1)
        ELSE V = U
    BY ONLY <1>5, <1>6, Context(S), out \in Targets, SubtractOddState
  <2>2. CASE a1 % 2 = 1
    <3>1. Coefs(x, a1 - b1, b1, SubMod(u1, v1), v1) /\ (a1 - b1) % 2 = 0
      BY <1>5, <2>2, CoefsSub
    <3>2. (a1 - b1) * b1 <= a1 * b1
      <4>1. (a1 - b1) * b1 = a1 * b1 - b1 * b1 /\ a1 * b1 \in Nat /\ b1 * b1 \in Nat
        BY <1>6
      <4> QED
        BY <4>1
    <3> QED
      BY <2>1, <2>2, <3>1, <3>2
  <2>3. CASE a1 % 2 # 1
    <3>1. a1 % 2 = 0 /\ a1 * b1 <= a1 * b1
      BY <1>6, <2>3
    <3> QED
      BY <1>5, <2>1, <2>3, <3>1
  <2> QED
    BY <2>2, <2>3
<1> HIDE DEF V
<1> DEFINE c == a2 \div 2
           s == HalfMod(u2)
<1>8. a2 \in 0..P
  BY <1>7 DEF Coefs
<1>9. InverseState(S, W, out, c, b1, s, v1)
  BY ONLY <1>6, <1>7, <1>8, Context(S), out \in Targets, HalveState
<1>10. Coefs(x, c, b1, s, v1) /\ a2 = 2 * c
  BY <1>7, CoefsHalve
<1> HIDE DEF W, c, s
<1>11. 2 * (c * b1) <= a * b
  <2>1. c \in Nat
    BY <1>1, <1>10 DEF Coefs
  <2>2. a2 * b1 = 2 * (c * b1)
    BY <1>6, <1>10, <2>1
  <2> QED
    BY <1>5, <1>7, <2>2
<1>12. X = W
  <2> DEFINE cond == nn_less(W.nn["u"], p) /\ nn_less(W.nn[out], p)
  <2>1. W \in Stores /\ Small(W.nn["u"]) /\ Small(W.nn[out])
    BY <1>9 DEF InverseState
  <2>2. Clean(p) /\ p.val = P
    BY StoreOfP DEF Elem
  <2>3. nn_less(W.nn["u"], p) /\ nn_less(W.nn[out], p)
    BY <2>1, <2>2, CompareClean DEF Small
  <2>4. cond /\ cond \in BOOLEAN
    BY <2>3
  <2>5. MustHave(W, cond) = W
    BY <2>1, <2>4, MustHaveTrue
  <2> QED
    BY <2>5 DEF X, CoefsReduced
<1> QED
  BY <1>3, <1>9, <1>10, <1>11, <1>12

\* R^2 is the power of 2 that the number of iterations is the exponent of.
LEMMA IterationsOfInverse ==
  /\ 2 * PWlen * WORD_BITS \in Nat
  /\ 2^(2 * PWlen * WORD_BITS) = R * R
  /\ 2^0 = 1
  /\ \A i \in 0..(2 * PWlen * WORD_BITS) : 2^i \in Nat \ {0} /\ 2^(i + 1) = 2 * 2^i
<1> DEFINE w == WORD_BITS
           M == w * NN_MAX_WORD_LEN
           N == 2 * PWlen * w
<1>1. w \in Nat \ {0} /\ PWlen \in Nat /\ NN_MAX_WORD_LEN \in Nat /\ 3 * PWlen <= NN_MAX_WORD_LEN
      /\ B = 2^w /\ B^0 = 1 /\ M \in Nat
  <2>1. M \in Nat
    BY FieldAssumption
  <2>2. 3 * PWlen <= NN_MAX_WORD_LEN
    BY LengthOfP
  <2> QED
    BY <2>1, <2>2, FieldAssumption, RoomForSums, PowersAssumption DEF B
<1>2. PowersOf(2, M) /\ 2^0 = 1 /\ \A i \in 0..M : 2^i \in Nat \ {0} /\ 2^(i + 1) = 2 * 2^i
  BY PowersAssumption DEF PowersOf
<1> HIDE DEF M
<1>3. ASSUME NEW n \in 0..NN_MAX_WORD_LEN
      PROVE  w * n \in Nat /\ w * n <= M
  BY ONLY <1>1, <1>3 DEF M
<1> DEFINE L == {n \in 0..PWlen : B^n = 2^(w * n)}
<1>4. 0 \in L
  <2>1. w * 0 = 0
    BY <1>1
  <2>2. 0 \in 0..PWlen
    BY ONLY <1>1
  <2>3. B^0 = 1 /\ 2^0 = 1
    BY ONLY <1>1, <1>2
  <2>4. B^0 = 2^(w * 0)
    BY ONLY <2>1, <2>3
  <2> QED
    BY <2>2, <2>4
<1>5. ASSUME NEW i \in (0 + 1)..PWlen, \A j \in 0..(i - 1) : j \in L
      PROVE  i \in L
  <2> DEFINE j == i - 1
  <2>1. j \in L /\ j \in 0..PWlen /\ i = j + 1 /\ j \in Nat /\ i \in 0..PWlen
    BY <1>1, <1>5
  <2>2. B^j = 2^(w * j)
    BY <2>1
  <2> HIDE DEF j
  <2>3. j \in 0..NN_MAX_WORD_LEN /\ i \in 0..NN_MAX_WORD_LEN
    BY ONLY <1>1, <2>1
  <2>4. B^(j + 1) = B * B^j
    BY <2>3, PowB
  <2> DEFINE wj == w * j
  <2>5. w * i = w + wj /\ wj \in Nat /\ w + wj <= M
    <3>1. w * i <= M /\ wj \in Nat
      BY <1>3, <2>3
    <3>2. w * i = w + wj
      BY ONLY <1>1, <2>1
    <3> QED
      BY <3>1, <3>2
  <2> HIDE DEF wj
  <2>6. 2^(w + wj) = 2^w * 2^wj
    <3>1. w \in Nat /\ 2 \in Nat
      BY <1>1
    <3> QED
      BY ONLY <1>1, <1>2, <2>5, <3>1, PowerSum
  <2>7. B^i = 2^(w * i)
    <3>1. B^i = B * B^j
      BY <2>1, <2>4
    <3>2. B^j = 2^wj
      BY <2>2 DEF wj
    <3>3. 2^(w * i) = 2^w * 2^wj
      BY <2>5, <2>6
    <3> QED
      BY ONLY <1>1, <3>1, <3>2, <3>3
  <2> QED
    BY <2>1, <2>7
<1>6. B^PWlen = 2^(w * PWlen)
  <2>1. 0 \in Nat /\ PWlen \in 0..PWlen
    BY <1>1
  <2>2. \A n \in 0..PWlen : n \in L
    <3> HIDE DEF L
    <3> QED
      BY ONLY <1>1, <1>4, <1>5, <2>1, CountingInduction
  <2> QED
    BY <2>1, <2>2
<1> DEFINE h == w * PWlen
<1>7. N = h + h /\ h \in Nat /\ N \in Nat /\ N <= M
  <2>1. 2 * PWlen \in 0..NN_MAX_WORD_LEN
    BY <1>1
  <2>2. w * (2 * PWlen) <= M
    BY <1>3, <2>1
  <2>3. w * (2 * PWlen) = N /\ N = h + h /\ h \in Nat
    BY ONLY <1>1
  <2> QED
    BY <2>2, <2>3
<1> HIDE DEF h, N
<1>8. 2^(h + h) = 2^h * 2^h
  <2>1. 2 \in Nat /\ h + h <= M
    BY <1>7
  <2> QED
    BY ONLY <1>1, <1>2, <1>7, <2>1, PowerSum
<1>9. 2^N = R * R
  <2>1. R = 2^h
    BY <1>6 DEF R, h
  <2> QED
    BY ONLY <1>7, <1>8, <2>1
<1>10. \A i \in 0..N : 2^i \in Nat \ {0} /\ 2^(i + 1) = 2 * 2^i
  <2>1. \A i \in 0..N : i \in 0..M
    BY <1>1, <1>7
  <2> QED
    BY <1>2, <2>1
<1> QED
  BY <1>2, <1>7, <1>9, <1>10 DEF N

\* The loop ends with a = 0 and b = 1.
LEMMA LoopComputes ==
  ASSUME NEW S, Context(S), NEW out \in Targets, NEW T, NEW x \in Nat,
         NEW a0, NEW b0, NEW u0, NEW v0, InverseState(S, T, out, a0, b0, u0, v0),
         Coefs(x, a0, b0, u0, v0), a0 * b0 < R * R
  PROVE  \E u, v : InverseState(S, InverseLoop(T, out), out, 0, 1, u, v) /\ Coefs(x, 0, 1, u, v)
<1> DEFINE N == 2 * PWlen * WORD_BITS
           Kept(Z, a, b, u, v) == InverseState(S, Z, out, a, b, u, v) /\ Coefs(x, a, b, u, v)
           V == {Z \in Stores : \E a, b, u, v : Kept(Z, a, b, u, v)}
           F == [q \in (1..N) \X V |-> InverseStep(q[2], out)]
           prev == [i \in 1..N |-> i - 1]
           Body(f) == [cnt \in 0..N |-> IF cnt = 0 THEN T ELSE InverseStep(f[cnt - 1], out)]
           g == CHOOSE f : f = Body(f)
<1>1. /\ N \in Nat /\ 2^N = R * R /\ 2^0 = 1
      /\ \A i \in 0..N : 2^i \in Nat \ {0} /\ 2^(i + 1) = 2 * 2^i
  BY IterationsOfInverse
<1> HIDE DEF N
<1>2. ASSUME NEW Z, NEW a, NEW b, NEW u, NEW v, Kept(Z, a, b, u, v)
      PROVE  \E c, d, s, t : Kept(InverseStep(Z, out), c, d, s, t) /\ 2 * (c * d) <= a * b
  <2>1. InverseState(S, Z, out, a, b, u, v) /\ Coefs(x, a, b, u, v)
    BY <1>2
  <2>2. CASE a # 0
    BY ONLY <2>1, <2>2, Context(S), out \in Targets, x \in Nat, StepState
  <2>3. CASE a = 0
    <3>1. a \in 0..P /\ b \in 0..P
      BY <2>1 DEF Coefs
    <3>2. Clean(Z.nn["a"]) /\ Z.nn["a"].val = a
      BY <2>1, <3>1, StateFacts DEF InverseState
    <3>3. InverseStep(Z, out) = Z
      BY <2>3, <3>2, CompareClean DEF InverseStep
    <3>4. 2 * (a * b) <= a * b
      BY <2>3, <3>1, RoomForSums
    <3> QED
      BY <2>1, <3>3, <3>4
  <2> QED
    BY <2>2, <2>3
<1>3. T \in V
  <2>1. Kept(T, a0, b0, u0, v0) /\ T \in Stores
    BY DEF InverseState
  <2> HIDE DEF Kept
  <2> QED
    BY <2>1
<1>4. \A Z \in V : InverseStep(Z, out) \in V
  <2> TAKE Z \in V
  <2>1. PICK a, b, u, v : Kept(Z, a, b, u, v)
    <3> HIDE DEF Kept
    <3> QED
      OBVIOUS
  <2>2. PICK c, d, s, t : Kept(InverseStep(Z, out), c, d, s, t)
    BY ONLY <1>2, <2>1
  <2>3. InverseStep(Z, out) \in Stores
    BY <2>2 DEF InverseState
  <2> HIDE DEF Kept
  <2> QED
    BY <2>2, <2>3
<1> HIDE DEF V
<1>5. \E f : f = Body(f)
  <2>1. F \in [((0 + 1)..N) \X V -> V] /\ T \in V
    BY <1>3, <1>4
  <2>2. \A i \in (0 + 1)..N : prev[i] \in 0..(i - 1)
    OBVIOUS
  <2>3. \A i \in 1..N, Z \in V : F[<<i, Z>>] = InverseStep(Z, out)
    OBVIOUS
  <2> HIDE DEF F
  <2>4. PICK f \in [0..N -> V] :
          f[0] = T /\ \A i \in (0 + 1)..N : f[i] = F[<<i, f[prev[i]]>>]
    <3> HIDE DEF prev
    <3>1. 0 \in Nat /\ N \in Nat /\ 0 <= N
      BY <1>1
    <3>2. F \in [((0 + 1)..N) \X V -> V]
      BY <2>1
    <3>3. T \in V
      BY <2>1
    <3>4. Definable(0, N, V, T, F, prev)
      BY ONLY <2>2, <3>1, <3>2, <3>3, RecursionExists
    <3> QED
      BY <3>4 DEF Definable
  <2>5. \A i \in 1..N : f[i] = InverseStep(f[i - 1], out)
    <3> TAKE i \in 1..N
    <3>1. i - 1 \in 0..N /\ prev[i] = i - 1 /\ i \in (0 + 1)..N
      BY <1>1
    <3>2. f[i - 1] \in V
      BY <3>1
    <3> QED
      BY <2>3, <2>4, <3>1, <3>2
  <2>6. f = Body(f)
    BY <2>4, <2>5
  <2> QED
    BY <2>6
<1>6. g = Body(g)
  BY <1>5
<1>7. InverseLoop(T, out) = g[N]
  BY DEF InverseLoop, N
<1>8. g[0] = T /\ \A i \in 1..N : g[i] = InverseStep(g[i - 1], out)
  <2> HIDE DEF g
  <2> QED
    BY <1>1, <1>6
<1> HIDE DEF g
<1> DEFINE Good(i) == \E a, b, u, v : Kept(g[i], a, b, u, v) /\ (a * b) * 2^i < R * R
           L == {i \in 0..N : Good(i)}
<1>9. 0 \in L
  <2>1. Kept(g[0], a0, b0, u0, v0)
    BY <1>8
  <2>2. (a0 * b0) * 2^0 < R * R
    <3>1. a0 * b0 \in Nat
      BY RoomForSums DEF Coefs
    <3> DEFINE ab == a0 * b0
    <3>2. ab \in Nat /\ ab < R * R
      BY <3>1
    <3> HIDE DEF ab
    <3>3. ab * 2^0 = ab
      BY ONLY <1>1, <3>2
    <3> QED
      BY <3>2, <3>3 DEF ab
  <2> HIDE DEF Kept
  <2> QED
    BY <1>1, <2>1, <2>2
<1>10. ASSUME NEW i \in (0 + 1)..N, \A j \in 0..(i - 1) : j \in L
       PROVE  i \in L
  <2> DEFINE j == i - 1
             q == 2^j
  <2>1. j \in L /\ j \in 0..N /\ i = j + 1 /\ i \in 0..N /\ i \in 1..N
    BY <1>1, <1>10
  <2>2. PICK a, b, u, v : Kept(g[j], a, b, u, v) /\ (a * b) * q < R * R
    <3> HIDE DEF Kept
    <3> QED
      BY <2>1
  <2>3. q \in Nat /\ 2^i = 2 * q
    <3> HIDE DEF j
    <3> QED
      BY <1>1, <2>1
  <2>4. g[i] = InverseStep(g[j], out)
    BY <1>8, <2>1
  <2> HIDE DEF q, j
  <2>5. PICK c, d, s, t : Kept(g[i], c, d, s, t) /\ 2 * (c * d) <= a * b
    BY ONLY <1>2, <2>2, <2>4
  <2>6. c * d \in Nat /\ a * b \in Nat /\ R * R \in Nat
    <3>1. a \in Nat /\ b \in Nat /\ c \in Nat /\ d \in Nat
      BY <2>2, <2>5, RoomForSums DEF Coefs
    <3>2. R \in Nat
      BY ConstantTypes
    <3> QED
      BY <3>1, <3>2
  <2>7. (c * d) * 2^i < R * R
    <3> DEFINE cd == c * d
               ab == a * b
               rr == R * R
    <3>1. cd \in Nat /\ ab \in Nat /\ rr \in Nat /\ 2 * cd <= ab /\ ab * q < rr
      BY <2>2, <2>5, <2>6
    <3> HIDE DEF cd, ab, rr
    <3>2. cd * (2 * q) = (2 * cd) * q /\ (2 * cd) * q <= ab * q
          /\ (2 * cd) * q \in Nat /\ ab * q \in Nat
      BY ONLY <2>3, <3>1
    <3>3. cd * (2 * q) < rr
      BY ONLY <3>1, <3>2
    <3> QED
      BY <2>3, <3>3 DEF cd, rr
  <2> HIDE DEF Kept
  <2> QED
    BY <2>1, <2>5, <2>7
<1>11. Good(N)
  <2>1. 0 \in Nat /\ N \in 0..N
    BY <1>1
  <2>2. \A i \in 0..N : i \in L
    <3> HIDE DEF L
    <3> QED
      BY ONLY <1>1, <1>9, <1>10, <2>1, CountingInduction
  <2> HIDE DEF Good
  <2> QED
    BY <2>1, <2>2
<1>12. PICK a, b, u, v : Kept(g[N], a, b, u, v) /\ (a * b) * 2^N < R * R
  BY <1>11
<1>13. a \in Nat /\ b \in Nat /\ b % 2 = 1 /\ R * R \in Nat /\ R * R > 0 /\ Coprime(a, b)
  <2>1. R \in Nat \ {0}
    BY ConstantTypes
  <2>2. R * R \in Nat /\ R * R > 0
    BY <2>1
  <2> QED
    BY <1>12, <2>2, RoomForSums DEF Coefs
<1>14. a = 0
  <2> DEFINE rr == R * R
  <2>1. rr \in Nat /\ rr > 0 /\ (a * b) * rr < rr
    BY <1>1, <1>12, <1>13
  <2> HIDE DEF rr
  <2>2. ASSUME a # 0
        PROVE  FALSE
    <3>1. a >= 1 /\ b >= 1
      BY ONLY <1>13, <2>2
    <3> DEFINE ab == a * b
    <3>2. ab \in Nat /\ ab >= 1
      BY ONLY <1>13, <3>1
    <3>3. ab * rr < rr
      BY <2>1
    <3> HIDE DEF ab
    <3>4. ab * rr >= rr
      BY ONLY <2>1, <3>2
    <3>5. ab * rr \in Nat
      BY ONLY <2>1, <3>2
    <3> QED
      BY ONLY <2>1, <3>3, <3>4, <3>5
  <2> QED
    BY <2>2
<1>15. b = 1
  BY <1>13, <1>14, CoprimeSteps
<1> QED
  BY <1>7, <1>12, <1>14, <1>15

\* Nothing happens when a is zero from the start.
LEMMA LoopIdle ==
  ASSUME NEW T, nn_iszero(T.nn["a"]), NEW out
  PROVE  InverseLoop(T, out) = T
<1> DEFINE N == 2 * PWlen * WORD_BITS
           Body(f) == [cnt \in 0..N |-> IF cnt = 0 THEN T ELSE InverseStep(f[cnt - 1], out)]
           f0 == [cnt \in 0..N |-> T]
           g == CHOOSE f : f = Body(f)
<1>1. N \in Nat
  BY IterationsOfInverse
<1> HIDE DEF N
<1>2. InverseStep(T, out) = T
  BY DEF InverseStep
<1>3. f0 = Body(f0)
  <2>1. ASSUME NEW cnt \in 0..N
        PROVE  T = IF cnt = 0 THEN T ELSE InverseStep(f0[cnt - 1], out)
    <3>1. CASE cnt = 0
      BY <3>1
    <3>2. CASE cnt # 0
      <4>1. cnt - 1 \in 0..N
        BY <1>1, <3>2
      <4>2. f0[cnt - 1] = T
        BY <4>1
      <4> HIDE DEF f0
      <4> QED
        BY <1>2, <3>2, <4>2
    <3> QED
      BY <3>1, <3>2
  <2> QED
    BY <2>1
<1>4. g = Body(g)
  <2> HIDE DEF f0
  <2> QED
    BY <1>3
<1>5. InverseLoop(T, out) = g[N]
  BY DEF InverseLoop, N
<1>6. g[0] = T /\ \A i \in 1..N : g[i] = InverseStep(g[i - 1], out)
  <2> HIDE DEF g
  <2> QED
    BY <1>1, <1>4
<1> HIDE DEF g
<1> DEFINE L == {i \in 0..N : g[i] = T}
<1>7. 0 \in L
  BY <1>1, <1>6
<1>8. ASSUME NEW i \in (0 + 1)..N, \A j \in 0..(i - 1) : j \in L
      PROVE  i \in L
  <2>1. i - 1 \in 0..(i - 1) /\ i \in 1..N /\ i \in 0..N
    BY <1>1
  <2>2. g[i - 1] = T
    BY <1>8, <2>1
  <2> QED
    BY <1>2, <1>6, <2>1, <2>2
<1>9. N \in L
  <2>1. 0 \in Nat /\ N \in 0..N
    BY <1>1
  <2>2. \A i \in 0..N : i \in L
    <3> HIDE DEF L
    <3> QED
      BY ONLY <1>1, <1>7, <1>8, <2>1, CountingInduction
  <2> QED
    BY <2>1, <2>2
<1> QED
  BY <1>5, <1>9

\* T is S after the inverse of v was written to out.
Inverts(S, T, out, v) ==
  /\ T \in Stores /\ T.ok = S.ok
  /\ \A y \in Names \ (Scratch \cup {out}) : T.nn[y] = S.nn[y]
  /\ Small(T.nn[out])
  /\ (T.nn[out].val * v) % P = 1

\* A MUST_HAVE has failed on the way to T; what is in out is a number still.
Stops(S, T, out) ==
  /\ T \in Stores /\ ~T.ok
  /\ \A y \in Names \ (Scratch \cup {out}) : T.nn[y] = S.nn[y]
  /\ Small(T.nn[out])

\* The numbers that the loop starts with.
LEMMA CoefsStart ==
  ASSUME NEW x \in 1..(P - 1)
  PROVE  Coefs(x, x, P, 1, 0) /\ x * P < R * R
<1>1. P \in Nat /\ P > 2 /\ P \in Nat \ {0} /\ P % 2 = 1 /\ R \in Nat /\ P < R /\ x \in Nat
  BY RoomForSums, OddP, ConstantTypes
<1>2. x % P = x /\ P % P = 0 /\ 0 % P = 0
  <2>1. x \in 0..(P - 1) /\ 0 \in 0..(P - 1) /\ P = P * 1 + 0 /\ 1 \in Nat
    BY <1>1
  <2>2. x % P = x /\ 0 % P = 0
    BY ONLY <1>1, <2>1, SmallMod
  <2>3. P % P = 0
    BY ONLY <1>1, <2>1, DivUnique
  <2> QED
    BY <2>2, <2>3
<1>3. Coprime(x, P)
  <2>1. x % P # 0
    BY <1>1, <1>2
  <2>2. PICK i \in 1..(P - 1) : (x * i) % P = 1
    BY <1>1, <2>1, InverseExists
  <2> DEFINE n == x * i
             k == n \div P
  <2>3. n \in Nat /\ i \in Nat
    BY <1>1
  <2>4. n % P = 1
    BY <2>2
  <2> HIDE DEF n
  <2>5. k \in Nat /\ n = P * k + (n % P)
    BY ONLY <1>1, <2>3, DivMod
  <2> HIDE DEF k
  <2>6. i * x + (-k) * P = 1
    <3>1. i * x = n /\ (-k) * P = -(P * k) /\ P * k \in Nat
      BY ONLY <1>1, <2>3, <2>5 DEF n
    <3>2. n = P * k + 1
      BY ONLY <2>4, <2>5
    <3> QED
      BY ONLY <3>1, <3>2
  <2> DEFINE kk == -k
  <2>7. i \in Int /\ kk \in Int /\ i * x + kk * P = 1
    BY <2>3, <2>5, <2>6
  <2> HIDE DEF kk
  <2> QED
    BY <2>7 DEF Coprime
<1>4. (1 * x) % P = x % P /\ (0 * x) % P = P % P
  <2>1. 1 * x = x /\ 0 * x = 0
    BY <1>1
  <2> QED
    BY <1>2, <2>1
<1>5. x * P < R * R
  <2>1. x * P <= x * R /\ x * R < R * R /\ x * P \in Nat /\ x * R \in Nat /\ R * R \in Nat
    BY <1>1
  <2> QED
    BY <2>1
<1> QED
  BY <1>1, <1>3, <1>4, <1>5 DEF Coefs

\* nn_modinv inverts what is not a multiple of p, if it is not out itself.
LEMMA InverseComputes ==
  ASSUME NEW S, Context(S), NEW out \in Targets, NEW in \in Names, Elem(S.nn[in])
  PROVE  IF in = out \/ S.nn[in].val % P = 0 THEN Stops(S, InverseStore(S, out, in), out)
         ELSE Inverts(S, InverseStore(S, out, in), out, S.nn[in].val)
<1> DEFINE T == Put(S, out, nn_init(0))
           v == S.nn[in].val
           n == IF in = out THEN 0 ELSE v
           x == n % P
           xx == [wlen |-> PWlen, val |-> Value(T.nn[in]) % P]
           M == MustHave(T, ~nn_iszero(xx))
           U == [M EXCEPT !.nn["a"] = xx, !.nn["b"] = p, !.nn["u"] = [wlen |-> 1, val |-> 1]]
           V == InverseLoop(U, out)
           W == InverseEnd(V)
<1>1. /\ S \in Stores /\ out \in Names /\ out \notin Scratch
      /\ "a" \in Names /\ "b" \in Names /\ "u" \in Names
      /\ P \in Nat /\ P > 2 /\ P \in Nat \ {0} /\ PWlen \in 0..NN_MAX_WORD_LEN
      /\ P < B^PWlen /\ B^PWlen \in Nat /\ v \in Nat /\ Value(S.nn[in]) = v /\ n \in Nat
  <2>1. v \in Nat /\ Value(S.nn[in]) = v
    BY LowClean DEF Elem
  <2>2. S \in Stores /\ out \in Names /\ out \notin Scratch
        /\ "a" \in Names /\ "b" \in Names /\ "u" \in Names
    BY ScratchNames DEF Context, Targets, Scratch
  <2> QED
    BY <2>1, <2>2, RoomForSums, PowB
<1>2. Clean(nn_init(0)) /\ nn_init(0).wlen = 0 /\ nn_init(0).val = 0 /\ nn_init(0) \in Nn
  <2>1. 0 \in 0..NN_MAX_WORD_LEN
    BY RoomForSums
  <2> QED
    BY <2>1, InitClean DEF Clean
<1>3. Sets(S, T, {out}, out, nn_init(0)) /\ T.ok = S.ok /\ T \in Stores
  BY <1>1, <1>2, PutSets DEF Sets
<1> HIDE DEF T
<1>4. xx = [wlen |-> PWlen, val |-> x] /\ x \in 0..(P - 1)
  <2>1. Value(T.nn[in]) = n
    <3>1. CASE in = out
      BY <1>2, <1>3, <3>1, LowClean DEF Sets
    <3>2. CASE in # out
      BY <1>1, <1>3, <3>2 DEF Sets
    <3> QED
      BY <3>1, <3>2
  <2>2. x \in 0..(P - 1)
    <3> HIDE DEF n
    <3> QED
      BY ONLY <1>1, DivMod
  <2> QED
    BY <2>1, <2>2
<1>5. Clean(xx) /\ xx.val = x /\ xx \in Nn
  BY <1>1, <1>4 DEF Clean, Nn
<1>6. nn_iszero(xx) <=> x = 0
  BY <1>5, CompareClean
<1> HIDE DEF xx
<1>7. /\ M \in Stores /\ M.nn = T.nn /\ M.ok = (T.ok /\ x # 0)
  <2>1. (~nn_iszero(xx)) \in BOOLEAN
    BY DEF nn_iszero
  <2>2. T.ok \in BOOLEAN
    BY <1>3 DEF Stores
  <2> QED
    BY <1>3, <1>6, <2>1, <2>2, MustHaveKeeps
<1> HIDE DEF M
<1>8. p \in Nn /\ [wlen |-> 1, val |-> 1] \in Nn /\ p = [wlen |-> PWlen, val |-> P]
  BY StoreOfP, ConstantTypes DEF Elem, Clean
<1>9. /\ U \in Stores /\ U.ok = M.ok
      /\ U.nn["a"] = xx /\ U.nn["b"] = p /\ U.nn["u"] = [wlen |-> 1, val |-> 1]
      /\ \A y \in Names \ {"a", "b", "u"} : U.nn[y] = T.nn[y]
  BY <1>1, <1>5, <1>7, <1>8 DEF Stores
<1>10. InverseStart(S, out, in) = U
  BY DEF InverseStart, U, M, xx, T
<1> HIDE DEF U
<1>11. InverseStore(S, out, in) = W
  BY <1>10 DEF InverseStore
<1>12. CASE x = 0
  <2>1. V = U
    BY <1>6, <1>9, <1>12, LoopIdle
  <2>2. Stops(S, W, out)
    <3> HIDE DEF V
    <3>1. V \in Stores /\ V.ok = FALSE
      BY <1>7, <1>9, <1>12, <2>1
    <3>2. /\ W.ok = (V.ok /\ (nn_iszero(V.nn["a"]) /\ Value(V.nn["b"]) = 1))
          /\ W.nn = V.nn /\ W \in Stores
      <4>1. (nn_iszero(V.nn["a"]) /\ Value(V.nn["b"]) = 1) \in BOOLEAN
        OBVIOUS
      <4> QED
        BY <3>1, <4>1, MustHaveKeeps DEF InverseEnd
    <3>3. Small(nn_init(0)) /\ U.nn[out] = nn_init(0)
      <4>1. U.nn[out] = nn_init(0)
        BY <1>1, <1>3, <1>9 DEF Sets, Scratch
      <4> QED
        BY <1>1, <1>2, <4>1, RoomForSums DEF Small
    <3>4. \A y \in Names \ (Scratch \cup {out}) : U.nn[y] = S.nn[y]
      BY <1>3, <1>9 DEF Sets, Scratch
    <3> HIDE DEF W
    <3> QED
      BY <2>1, <3>1, <3>2, <3>3, <3>4 DEF Stops
  <2>3. in = out \/ v % P = 0
    BY <1>12
  <2> HIDE DEF W
  <2> QED
    BY <1>11, <2>2, <2>3
<1>13. CASE x # 0
  <2>1. x \in 1..(P - 1)
    BY <1>1, <1>4, <1>13
  <2>2. in # out /\ x = v % P
    <3>1. CASE in = out
      <4>1. 0 \in 0..(P - 1)
        BY <1>1
      <4>2. 0 % P = 0
        BY ONLY <1>1, <4>1, SmallMod
      <4> QED
        BY <1>13, <3>1, <4>2
    <3> QED
      BY <3>1
  <2>3. Coefs(x, x, P, 1, 0) /\ x * P < R * R
    <3> HIDE DEF x
    <3> QED
      BY <2>1, CoefsStart
  <2> HIDE DEF x
  <2>4. InverseState(S, U, out, x, P, 1, 0)
    <3>1. U.ok = S.ok
      <4>1. S.ok \in BOOLEAN
        BY <1>1 DEF Stores
      <4> QED
        BY <1>3, <1>7, <1>9, <1>13, <4>1
    <3>2. \A y \in Names \ (Scratch \cup {out}) : U.nn[y] = S.nn[y]
      BY <1>3, <1>9 DEF Sets, Scratch
    <3>3. Small([wlen |-> 1, val |-> 1])
      <4>1. Clean([wlen |-> 1, val |-> 1])
        BY StoreOfP DEF Elem
      <4> QED
        BY <4>1, RoomForSums DEF Small
    <3>4. U.nn[out] = nn_init(0)
      BY <1>1, <1>3, <1>9 DEF Sets, Scratch
    <3>5. Small(nn_init(0))
      BY <1>1, <1>2, RoomForSums DEF Small
    <3> QED
      BY <1>2, <1>4, <1>8, <1>9, <3>1, <3>2, <3>3, <3>4, <3>5 DEF InverseState
  <2>5. PICK u, w : InverseState(S, V, out, 0, 1, u, w) /\ Coefs(x, 0, 1, u, w)
    <3>1. x \in Nat
      BY <2>1
    <3> QED
      BY ONLY <2>3, <2>4, <3>1, Context(S), out \in Targets, LoopComputes
  <2> HIDE DEF V
  <2>6. W = V
    <3>1. V \in Stores /\ Clean(V.nn["a"]) /\ Clean(V.nn["b"])
          /\ V.nn["a"].val = 0 /\ V.nn["b"].val = 1
      <4>1. 0 \in 0..P /\ 1 \in 0..P
        BY <1>1
      <4> QED
        BY <2>5, <4>1, StateFacts DEF InverseState
    <3> DEFINE cond == nn_iszero(V.nn["a"]) /\ Value(V.nn["b"]) = 1
    <3>2. cond
      BY <3>1, CompareClean, LowClean
    <3>3. cond \in BOOLEAN
      OBVIOUS
    <3>4. W = MustHave(V, cond)
      BY DEF InverseEnd
    <3> HIDE DEF cond
    <3> QED
      BY <3>1, <3>2, <3>3, <3>4, MustHaveTrue
  <2>7. (w * v) % P = 1
    <3>1. (w * x) % P = 1 % P /\ w \in Nat
      BY <1>1, <2>5 DEF Coefs
    <3>2. 1 % P = 1
      <4>1. 1 \in 0..(P - 1)
        BY <1>1
      <4> QED
        BY ONLY <1>1, <4>1, SmallMod
    <3> HIDE DEF v
    <3>3. ((v % P) * w) % P = (v * w) % P
      BY ONLY <1>1, <3>1, ModMul
    <3>4. v * w = w * v /\ x * w = w * x
      BY <1>1, <2>1, <3>1
    <3> QED
      BY <2>2, <3>1, <3>2, <3>3, <3>4
  <2>8. Inverts(S, V, out, v)
    BY <2>5, <2>7 DEF Inverts, InverseState
  <2>9. v % P # 0
    BY <1>13, <2>2
  <2> HIDE DEF W, v
  <2> QED
    BY <1>11, <2>2, <2>6, <2>8, <2>9 DEF v
<1> QED
  BY <1>12, <1>13

-----------------------------------------------------------------------------
(* Plain products, quotients and powers.                                     *)

\* The storage holds a product of two elements, shifted as p is for a division.
MulRoom == 2 * PWlen + 2 + ShiftWords < NN_MAX_WORD_LEN

LEMMA ShiftWordsEnough ==
  ShiftWords \in 0..PWlen /\ 2 * P * B^ShiftWords >= B^PWlen
<1> DEFINE L == {n \in 0..PWlen : 2 * P * B^n >= B^PWlen}
<1>1. /\ PWlen \in Nat /\ P \in Nat /\ P > 2
      /\ \A n \in 0..PWlen : n \in 0..NN_MAX_WORD_LEN /\ B^n \in Nat \ {0}
  BY RoomForSums, PowB
<1>2. PWlen \in L
  <2> DEFINE W == B^PWlen
  <2>1. W \in Nat
    BY <1>1
  <2> HIDE DEF W
  <2>2. 2 * P * W >= W
    BY ONLY <1>1, <2>1
  <2> QED
    BY <1>1, <2>2 DEF W
<1>3. PICK n \in L : \A m \in L : n <= m
  <2>1. L \subseteq Nat /\ L # {}
    <3>1. L \subseteq Nat
      BY <1>1
    <3> HIDE DEF L
    <3> QED
      BY <1>2, <3>1
  <2> HIDE DEF L
  <2> QED
    BY ONLY <2>1, SmallestElement
<1>4. n \in 0..PWlen /\ 2 * P * B^n >= B^PWlen
  OBVIOUS
<1>5. n = 0 \/ 2 * P * B^(n - 1) < B^PWlen
  <2>1. ASSUME n # 0
        PROVE  2 * P * B^(n - 1) < B^PWlen
    <3>1. n - 1 \in 0..PWlen /\ ~ (n <= n - 1)
      BY <1>1, <1>4, <2>1
    <3>2. ~ (2 * P * B^(n - 1) >= B^PWlen)
      BY <1>3, <3>1
    <3> DEFINE q == B^(n - 1)
               W == B^PWlen
    <3>3. q \in Nat /\ W \in Nat /\ ~ (2 * P * q >= W)
      BY <1>1, <3>1, <3>2
    <3> HIDE DEF q, W
    <3>4. 2 * P * q < W
      <4>1. 2 * P * q \in Nat
        BY ONLY <1>1, <3>3
      <4> QED
        BY ONLY <3>3, <4>1
    <3> QED
      BY <3>4 DEF q, W
  <2> QED
    BY <2>1
<1> HIDE DEF L
<1> QED
  BY <1>4, <1>5 DEF ShiftWords

\* A product that is too short to be reduced is less than p.
LEMMA ShortProduct ==
  ASSUME NEW n \in Nat, n + ShiftWords < PWlen
  PROVE  B^n <= P
<1> DEFINE s == ShiftWords
           W == B^n
           X == B^s
           Y == B^PWlen
<1>1. s \in 0..PWlen /\ 2 * P * X >= Y
  BY ShiftWordsEnough
<1> HIDE DEF s
<1>2. PWlen \in Nat /\ NN_MAX_WORD_LEN \in Nat /\ PWlen <= NN_MAX_WORD_LEN /\ P \in Nat
      /\ B \in Nat /\ B > 1
  BY RoomForSums, PowB
<1>3. n + s \in Nat /\ n + s + 1 <= PWlen /\ s \in Nat /\ n \in 0..NN_MAX_WORD_LEN
      /\ s \in 0..NN_MAX_WORD_LEN /\ n + s \in 0..NN_MAX_WORD_LEN
      /\ n + s + 1 \in 0..NN_MAX_WORD_LEN /\ PWlen \in 0..NN_MAX_WORD_LEN
      /\ n + s <= NN_MAX_WORD_LEN
  BY <1>1, <1>2 DEF s
<1>4. B^(n + s) = W * X /\ W \in Nat \ {0} /\ X \in Nat \ {0} /\ Y \in Nat
  BY <1>3, PowB
<1>5. B^(n + s + 1) = B * (W * X)
  <2> DEFINE m == n + s
  <2>1. m \in 0..NN_MAX_WORD_LEN /\ B^m = W * X
    BY <1>3, <1>4
  <2> HIDE DEF m
  <2>2. B^(m + 1) = B * B^m
    BY <2>1, PowB
  <2> QED
    BY <2>1, <2>2 DEF m
<1>6. B^(n + s + 1) <= Y
  BY <1>3, PowMonotone
<1> HIDE DEF W, X, Y
<1>7. B * (W * X) <= 2 * P * X
  <2>1. B * (W * X) \in Nat /\ 2 * P * X \in Nat
    BY ONLY <1>2, <1>4
  <2> QED
    BY ONLY <1>1, <1>4, <1>5, <1>6, <2>1
<1>8. (B * W) * X <= (2 * P) * X
  BY ONLY <1>2, <1>4, <1>7
<1>9. B * W <= 2 * P
  <2> DEFINE c == B * W
             d == 2 * P
  <2>1. c \in Nat /\ d \in Nat /\ c * X <= d * X
    BY <1>2, <1>4, <1>8
  <2> HIDE DEF c, d
  <2>2. c <= d
    BY ONLY <1>4, <2>1
  <2> QED
    BY <2>2 DEF c, d
<1>10. 2 * W <= B * W
  BY ONLY <1>2, <1>4
<1>11. W <= P
  <2>1. B * W \in Nat
    BY ONLY <1>2, <1>4
  <2> QED
    BY ONLY <1>2, <1>4, <1>9, <1>10, <2>1
<1> QED
  BY <1>11 DEF W

\* fp_mul multiplies modulo p.
LEMMA PlainMulComputes ==
  ASSUME NEW S, Context(S), NEW out \in Outs, NEW in1 \in Names, NEW in2 \in Names,
         Elem(S.nn[in1]), Elem(S.nn[in2]), MulRoom
  PROVE  /\ Computes(S, MulStore(S, out, in1, in2), {out}, out,
                     (S.nn[in1].val * S.nn[in2].val) % P)
         /\ Small(MulStore(S, out, in1, in2).nn[out])
<1> DEFINE n1 == S.nn[in1].wlen
           n2 == S.nn[in2].wlen
           v1 == S.nn[in1].val
           v2 == S.nn[in2].val
           n == n1 + n2
           v == v1 * v2
           prod == [wlen |-> n, val |-> v]
           r == IF n + ShiftWords < PWlen THEN prod ELSE [wlen |-> PWlen, val |-> v % P]
           cond == n + ShiftWords < NN_MAX_WORD_LEN
           T == MulStore(S, out, in1, in2)
           U == Put(S, out, r)
<1>1. /\ n1 \in Nat /\ n2 \in Nat /\ n1 <= PWlen + 1 /\ n2 <= PWlen + 1
      /\ v1 \in Nat /\ v2 \in Nat /\ v1 < B^n1 /\ v2 < B^n2
      /\ Value(S.nn[in1]) = v1 /\ Value(S.nn[in2]) = v2
  BY LowClean DEF Elem, Clean
<1>2. /\ PWlen \in Nat /\ NN_MAX_WORD_LEN \in Nat /\ P \in Nat \ {0}
      /\ PWlen <= NN_MAX_WORD_LEN /\ P < B^PWlen /\ B^PWlen \in Nat
      /\ ShiftWords \in Nat /\ S \in Stores /\ out \in Names
  BY RoomForSums, PowB, ShiftWordsEnough DEF Context, Outs
<1>3. T = MustHave(U, cond)
  BY <1>1 DEF MulStore, nn_mod_unshifted
<1>4. cond /\ n \in 0..NN_MAX_WORD_LEN /\ n \in Nat
  BY <1>1, <1>2 DEF MulRoom
<1>5. v \in Nat /\ v < B^n
  <2> DEFINE W1 == B^n1
             W2 == B^n2
  <2>1. B^n = W1 * W2 /\ W1 \in Nat /\ W2 \in Nat
    <3>1. n1 + n2 <= NN_MAX_WORD_LEN /\ n1 \in 0..NN_MAX_WORD_LEN /\ n2 \in 0..NN_MAX_WORD_LEN
      <4>1. n1 + n2 <= NN_MAX_WORD_LEN
        BY <1>4
      <4> HIDE DEF n, n1, n2
      <4> QED
        BY ONLY <1>1, <1>2, <4>1
    <3> QED
      BY <1>1, <3>1, PowB
  <2>2. v1 \in Nat /\ v2 \in Nat /\ v1 < W1 /\ v2 < W2
    BY <1>1
  <2> HIDE DEF W1, W2, v1, v2
  <2>3. v1 * v2 <= v1 * W2 /\ v1 * v2 \in Nat /\ v1 * W2 \in Nat
    BY ONLY <2>1, <2>2
  <2>4. v1 * W2 < W1 * W2 /\ W1 * W2 \in Nat
    BY ONLY <2>1, <2>2
  <2> QED
    BY ONLY <2>1, <2>3, <2>4
<1> HIDE DEF v, n, cond
<1>6. v % P \in 0..(P - 1)
  BY ONLY <1>2, <1>5, DivMod
<1>7. Small(r) /\ r.val = v % P
  <2>1. CASE n + ShiftWords < PWlen
    <3>1. B^n <= P
      BY <1>4, <2>1, ShortProduct
    <3>2. v < P /\ n <= PWlen /\ n \in 0..NN_MAX_WORD_LEN
      <4>1. B^n \in Nat
        BY <1>4, PowB
      <4> QED
        BY <1>2, <1>4, <1>5, <2>1, <3>1, <4>1
    <3>3. v % P = v
      <4>1. v \in 0..(P - 1)
        BY <1>2, <1>5, <3>2
      <4> QED
        BY ONLY <1>2, <4>1, SmallMod
    <3>4. r = [wlen |-> n, val |-> v]
      BY <2>1
    <3> HIDE DEF r
    <3> QED
      BY <1>5, <3>2, <3>3, <3>4 DEF Small, Clean, Nn
  <2>2. CASE ~ (n + ShiftWords < PWlen)
    <3>1. r = [wlen |-> PWlen, val |-> v % P]
      BY <2>2
    <3> DEFINE m == v % P
    <3>2. m \in 0..(P - 1)
      BY <1>6
    <3> HIDE DEF r, m
    <3>3. r = [wlen |-> PWlen, val |-> m] /\ m \in Nat /\ m < P /\ m < B^PWlen
      BY <1>2, <3>1, <3>2 DEF m
    <3> QED
      BY <1>2, <3>3 DEF Small, Clean, Nn, m
  <2> QED
    BY <2>1, <2>2
<1> HIDE DEF r
<1>8. Elem(r)
  <2>1. r.wlen \in Nat
    BY <1>7, LowClean DEF Small
  <2>2. r.val \in Nat
    BY <1>7, LowClean DEF Small
  <2>3. PWlen \in Nat /\ P \in Nat
    BY <1>2
  <2>4. Clean(r) /\ r.wlen <= PWlen /\ r.val < P
    BY <1>7 DEF Small
  <2> QED
    BY ONLY <2>1, <2>2, <2>3, <2>4 DEF Elem
<1>9. Computes(S, U, {out}, out, r.val) /\ U.nn[out] = r
  <2>1. S \in Stores /\ out \in Names
    BY <1>2
  <2> QED
    BY ONLY <1>8, <2>1, PutElem
<1> HIDE DEF U
<1>10. T = U
  <2>1. U \in Stores /\ cond \in BOOLEAN
    BY <1>9 DEF Computes, Sets, cond
  <2> QED
    BY <1>3, <1>4, <2>1, MustHaveTrue
<1> HIDE DEF T
<1>11. Computes(S, T, {out}, out, v % P) /\ Small(T.nn[out])
  BY <1>7, <1>9, <1>10
<1> QED
  BY <1>11 DEF v, T

\* Equal residues have equal multiples.
LEMMA SameTimes ==
  ASSUME NEW a \in Nat, NEW b \in Nat, NEW c \in Nat, a % P = b % P
  PROVE  (a * c) % P = (b * c) % P
<1>1. P \in Nat \ {0}
  BY RoomForSums
<1>2. ((a % P) * c) % P = (a * c) % P
  BY ONLY <1>1, a \in Nat, c \in Nat, ModMul
<1>3. ((b % P) * c) % P = (b * c) % P
  BY ONLY <1>1, b \in Nat, c \in Nat, ModMul
<1> QED
  BY ONLY <1>2, <1>3, a % P = b % P

\* The constants r_square, r and one are elements of the length of p at most.
LEMMA ContextElems ==
  ASSUME NEW S, Context(S)
  PROVE  /\ Elem(S.nn["r_square"]) /\ S.nn["r_square"].wlen = PWlen
         /\ S.nn["r_square"].val \in Nat /\ S.nn["r_square"].val % P = (R * R) % P
         /\ Small(S.nn["r"]) /\ S.nn["r"].val = R % P /\ S.nn["r"].wlen = PWlen
         /\ Elem(S.nn["one"]) /\ S.nn["one"].wlen <= PWlen /\ S.nn["one"].val = 1
<1>1. /\ P \in Nat \ {0} /\ P > 2 /\ P < B^PWlen /\ B^PWlen \in Nat /\ PWlen \in 0..NN_MAX_WORD_LEN
      /\ PWlen <= PWlen + 1 /\ PWlen >= 2 /\ R \in Nat /\ R * R \in Nat
  BY RoomForSums, PowB, ConstantTypes
<1>2. /\ S.nn["r_square"] = r_square /\ S.nn["r"] = [wlen |-> PWlen, val |-> R % P]
      /\ R % P \in 0..(P - 1)
  <2>1. \A c \in DOMAIN Constants : S.nn[c] = Constants[c]
    BY DEF Context
  <2> HIDE DEF Constants
  <2> QED
    BY <2>1, ConstantTypes
<1>3. r_square = [wlen |-> PWlen, val |-> (R * R) % P] /\ (R * R) % P \in 0..(P - 1)
  <2>1. (R * R) % P \in 0..(P - 1)
    BY ONLY <1>1, DivMod
  <2> QED
    BY <2>1 DEF r_square
<1>4. ASSUME NEW m \in 0..(P - 1)
      PROVE  Small([wlen |-> PWlen, val |-> m]) /\ Elem([wlen |-> PWlen, val |-> m])
  BY <1>1 DEF Small, Elem, Clean, Nn
<1>5. ((R * R) % P) % P = (R * R) % P
  BY ONLY <1>1, <1>3, SmallMod
<1> DEFINE m == (R * R) % P
           k == R % P
<1>6. /\ m \in 0..(P - 1) /\ k \in 0..(P - 1) /\ m % P = (R * R) % P
      /\ S.nn["r_square"] = [wlen |-> PWlen, val |-> m] /\ S.nn["r"] = [wlen |-> PWlen, val |-> k]
  BY <1>2, <1>3, <1>5
<1> HIDE DEF m, k
<1>7. Elem(S.nn["r_square"]) /\ Small(S.nn["r"]) /\ m \in Nat
  BY <1>4, <1>6
<1>8. Elem(S.nn["one"]) /\ S.nn["one"] = [wlen |-> 1, val |-> 1]
  BY StoreOfP
<1>9. S.nn["r"].val = R % P
  BY <1>6 DEF k
<1> QED
  BY <1>1, <1>6, <1>7, <1>8, <1>9

\* The product with r_square is the Montgomery form.
LEMMA RedcifyComputes ==
  ASSUME NEW S, Context(S), NEW out \in Outs, NEW in \in Names, Elem(S.nn[in])
  PROVE  /\ Computes(S, nn_mul_redc1(S, out, in, "r_square"), {out, "cpy"}, out,
                     (S.nn[in].val * R) % P)
         /\ Small(nn_mul_redc1(S, out, in, "r_square").nn[out])
<1> DEFINE T == nn_mul_redc1(S, out, in, "r_square")
           v == S.nn[in].val
           r2 == S.nn["r_square"].val
           t == T.nn[out].val
<1>1. Elem(S.nn["r_square"]) /\ S.nn["r_square"].wlen <= PWlen /\ "r_square" \in Names
      /\ r2 \in Nat /\ r2 % P = (R * R) % P
  BY ContextElems, StoreOfP, RoomForSums
<1>2. Multiplies(S, T, out, v, r2)
  BY ONLY <1>1, Context(S), out \in Outs, in \in Names, Elem(S.nn[in]), MulComputes
<1> HIDE DEF T
<1>3. P \in Nat \ {0} /\ P > 2 /\ R \in Nat /\ R * R \in Nat /\ v \in Nat /\ R % P # 0
  <2>1. v \in Nat
    BY LowClean DEF Elem
  <2>2. R % P # 0
    BY PowersNotZero, RoomForSums DEF R
  <2> QED
    BY <2>1, <2>2, RoomForSums, ConstantTypes
<1>4. t \in 0..(P - 1) /\ (t * R) % P = (v * r2) % P /\ t \in Nat
  BY <1>2, <1>3 DEF Multiplies
<1> HIDE DEF r2, v, t
<1>5. (v * r2) % P = ((v * R) * R) % P
  <2> DEFINE rr == R * R
  <2>1. (r2 * v) % P = (rr * v) % P
    <3>1. rr \in Nat /\ r2 % P = rr % P
      BY <1>1, <1>3
    <3> HIDE DEF rr
    <3> QED
      BY ONLY <1>1, <1>3, <3>1, SameTimes
  <2>2. r2 * v = v * r2 /\ rr * v = (v * R) * R
    BY ONLY <1>1, <1>3
  <2> QED
    BY ONLY <2>1, <2>2
<1> DEFINE vr == v * R
<1>6. t % P = vr % P
  <2>1. vr \in Nat /\ (t * R) % P = (vr * R) % P
    BY <1>3, <1>4, <1>5
  <2>2. R \in Nat /\ R % P # 0 /\ t \in Nat
    BY <1>3, <1>4
  <2> HIDE DEF vr
  <2> QED
    BY ONLY <2>1, <2>2, CancelP
<1>7. t % P = t
  BY ONLY <1>3, <1>4, SmallMod
<1>8. t = vr % P
  BY ONLY <1>6, <1>7
<1>9. Computes(S, T, {out, "cpy"}, out, t) /\ Small(T.nn[out])
  <2>1. Clean(T.nn[out]) /\ T.nn[out].wlen = PWlen /\ T.nn[out].val < P
    BY <1>2, <1>3, <1>4 DEF Multiplies, Computes, Elem, t
  <2> QED
    BY <1>2, <2>1, RoomForSums DEF Multiplies, Small, t
<1> HIDE DEF T
<1>10. Computes(S, T, {out, "cpy"}, out, (v * R) % P)
  BY <1>8, <1>9 DEF vr
<1> QED
  BY <1>9, <1>10 DEF T, v

\* The product with one is the number of a Montgomery form.
LEMMA UnredcifyComputes ==
  ASSUME NEW S, Context(S), NEW out \in Outs, NEW in \in Names, Elem(S.nn[in])
  PROVE  Multiplies(S, nn_mul_redc1(S, out, in, "one"), out, S.nn[in].val, 1)
<1>1. Elem(S.nn["one"]) /\ S.nn["one"].wlen <= PWlen /\ S.nn["one"].val = 1 /\ "one" \in Names
  BY ContextElems, StoreOfP
<1>2. Multiplies(S, nn_mul_redc1(S, out, in, "one"), out, S.nn[in].val, S.nn["one"].val)
  BY ONLY <1>1, Context(S), out \in Outs, in \in Names, Elem(S.nn[in]), MulComputes
<1> QED
  BY <1>1, <1>2

\* T is S after the quotient of n by d was written to out, if there is one.
Divides(S, T, out, n, d) ==
  /\ T \in Stores
  /\ \A y \in Names \ (Scratch \cup {"inv", out}) : T.nn[y] = S.nn[y]
  /\ Small(T.nn[out])
  /\ IF d % P = 0 THEN ~T.ok ELSE T.ok = S.ok /\ (T.nn[out].val * d) % P = n % P

\* fp_div multiplies by the inverse.
LEMMA DivComputes ==
  ASSUME NEW S, Context(S), NEW out \in Outs, NEW num \in Regs, NEW den \in Regs,
         Elem(S.nn[num]), Elem(S.nn[den]), MulRoom
  PROVE  Divides(S, DivStore(S, out, num, den), out, S.nn[num].val, S.nn[den].val)
<1> DEFINE I == InverseStore(S, "inv", den)
           T == MulStore(I, out, num, "inv")
           n == S.nn[num].val
           d == S.nn[den].val
           i == I.nn["inv"].val
           t == T.nn[out].val
<1>1. /\ "inv" \in Targets /\ "inv" \in Names /\ num \in Names /\ den \in Names
      /\ out \in Names /\ den # "inv" /\ num \notin Scratch \cup {"inv"}
      /\ Scratch \cup {"inv"} \in SUBSET Outs
  <2>1. Regs \subseteq Targets /\ "inv" \notin Regs
    BY ScratchNames, NamesAssumption DEF Locals
  <2> QED
    BY <2>1, ScratchNames DEF Targets
<1>2. IF d % P = 0 THEN Stops(S, I, "inv") ELSE Inverts(S, I, "inv", d)
  <2>1. IF den = "inv" \/ d % P = 0 THEN Stops(S, I, "inv") ELSE Inverts(S, I, "inv", d)
    BY ONLY <1>1, Context(S), Elem(S.nn[den]), InverseComputes
  <2> QED
    BY <1>1, <2>1
<1> HIDE DEF I
<1>3. /\ I \in Stores /\ Small(I.nn["inv"])
      /\ \A y \in Names \ (Scratch \cup {"inv"}) : I.nn[y] = S.nn[y]
  BY <1>2 DEF Stops, Inverts
<1>4. Context(I)
  <2>1. Sets(S, I, Scratch \cup {"inv"}, "inv", I.nn["inv"])
    BY <1>3 DEF Sets
  <2> QED
    BY ONLY <1>1, <2>1, Context(S), SetsContext
<1>5. Elem(I.nn["inv"]) /\ i \in Nat /\ I.nn[num] = S.nn[num]
  <2>1. i \in Nat /\ I.nn["inv"].wlen \in Nat
    BY <1>3, LowClean DEF Small
  <2>2. Elem(I.nn["inv"])
    BY <1>3, <2>1, RoomForSums DEF Small, Elem
  <2> QED
    BY <1>1, <1>3, <2>1, <2>2
<1>6. Computes(I, T, {out}, out, (n * i) % P) /\ Small(T.nn[out])
  <2>1. /\ Computes(I, T, {out}, out, (I.nn[num].val * I.nn["inv"].val) % P)
        /\ Small(T.nn[out])
    <3>1. Elem(I.nn[num])
      BY <1>5
    <3> QED
      BY ONLY <1>1, <1>4, <1>5, <3>1, out \in Outs, MulRoom, PlainMulComputes
  <2> QED
    BY <1>5, <2>1
<1>7. DivStore(S, out, num, den) = T
  BY DEF DivStore, I
<1> HIDE DEF T
<1>8. /\ T \in Stores /\ T.ok = I.ok /\ t = (n * i) % P
      /\ \A y \in Names \ (Scratch \cup {"inv", out}) : T.nn[y] = S.nn[y]
  BY <1>3, <1>6 DEF Computes, Sets
<1>9. n \in Nat /\ d \in Nat /\ P \in Nat \ {0}
  BY LowClean, RoomForSums DEF Elem
<1>10. IF d % P = 0 THEN ~T.ok ELSE T.ok = S.ok /\ (t * d) % P = n % P
  <2>1. CASE d % P = 0
    BY <1>2, <1>8, <2>1 DEF Stops
  <2>2. CASE d % P # 0
    <3>1. T.ok = S.ok /\ (i * d) % P = 1
      BY <1>2, <1>8, <2>2 DEF Inverts
    <3> DEFINE m == n * i
               e == i * d
    <3>2. m \in Nat /\ e \in Nat /\ m * d = e * n /\ 1 * n = n /\ e % P = 1 /\ t = m % P
      <4>1. e % P = 1 /\ t = m % P
        BY <1>8, <3>1
      <4> HIDE DEF i, n, d
      <4>2. m \in Nat /\ e \in Nat /\ m * d = e * n /\ 1 * n = n
        BY ONLY <1>5, <1>9
      <4> QED
        BY <4>1, <4>2
    <3> HIDE DEF m, e, t, i, d, n
    <3>3. ((m % P) * d) % P = (m * d) % P
      BY ONLY <1>9, <3>2, ModMul
    <3>4. ((e % P) * n) % P = (e * n) % P
      BY ONLY <1>9, <3>2, ModMul
    <3>5. (t * d) % P = n % P
      BY ONLY <3>2, <3>3, <3>4
    <3> QED
      BY <2>2, <3>1, <3>5
  <2> QED
    BY <2>1, <2>2
<1>11. Divides(S, T, out, n, d)
  BY <1>6, <1>8, <1>10 DEF Divides
<1> QED
  BY <1>7, <1>11

\* T is S after the Montgomery form of a quotient was written to out.
MontyDivides(S, T, out, n, d) ==
  /\ T \in Stores
  /\ \A y \in Names \ (Scratch \cup {"inv", out}) : T.nn[y] = S.nn[y]
  /\ Elem(T.nn[out])
  /\ IF d % P = 0 THEN ~T.ok
     ELSE /\ T.ok = S.ok
          /\ \E q \in 0..(P - 1) : (q * d) % P = n % P /\ T.nn[out].val = (q * R) % P

\* fp_div_monty gives the quotient its Montgomery form.
LEMMA DivMontyComputes ==
  ASSUME NEW S, Context(S), NEW out \in Outs, NEW num \in Regs, NEW den \in Regs,
         Elem(S.nn[num]), Elem(S.nn[den]), MulRoom
  PROVE  MontyDivides(S, DivMontyStore(S, out, num, den), out, S.nn[num].val, S.nn[den].val)
<1> DEFINE c == ~nn_iszero(S.nn[den])
           M == MustHave(S, c)
           D == DivStore(M, "a", num, den)
           T == nn_mul_redc1(D, out, "a", "r_square")
           n == S.nn[num].val
           d == S.nn[den].val
           q == D.nn["a"].val
<1>1. /\ S \in Stores /\ "a" \in Outs /\ "a" \in Names /\ "a" \in Scratch /\ "cpy" \in Scratch
      /\ out \in Names /\ Scratch \cup {"inv"} \in SUBSET Outs
      /\ P \in Nat \ {0}
  BY ScratchNames, RoomForSums DEF Scratch, Targets, Context
<1>2. c \in BOOLEAN /\ (c <=> d # 0)
  <2>1. Clean(S.nn[den])
    BY DEF Elem
  <2>2. nn_iszero(S.nn[den]) <=> d = 0
    BY <2>1, CompareClean
  <2> QED
    BY <2>2
<1> HIDE DEF c
<1>3. M \in Stores /\ M.nn = S.nn /\ M.ok = (S.ok /\ c)
  BY <1>1, <1>2, MustHaveKeeps
<1> HIDE DEF M
<1>4. Context(M) /\ Elem(M.nn[num]) /\ Elem(M.nn[den])
  BY <1>3 DEF Context
<1>5. Divides(M, D, "a", n, d)
  <2>1. Divides(M, D, "a", M.nn[num].val, M.nn[den].val)
    BY ONLY <1>1, <1>4, num \in Regs, den \in Regs, MulRoom, DivComputes
  <2> QED
    BY <1>3, <2>1
<1>6. DivMontyStore(S, out, num, den) = T
  BY DEF DivMontyStore, T, D, M, c
<1> HIDE DEF D
<1>7. /\ D \in Stores /\ Small(D.nn["a"])
      /\ \A y \in Names \ (Scratch \cup {"inv"}) : D.nn[y] = S.nn[y]
  BY <1>1, <1>3, <1>5 DEF Divides
<1>8. Context(D)
  <2>1. Sets(S, D, Scratch \cup {"inv"}, "a", D.nn["a"])
    BY <1>7 DEF Sets
  <2> QED
    BY ONLY <1>1, <2>1, Context(S), SetsContext
<1>9. Elem(D.nn["a"]) /\ q \in 0..(P - 1)
  <2>1. q \in Nat /\ D.nn["a"].wlen \in Nat
    BY <1>7, LowClean DEF Small
  <2>2. Elem(D.nn["a"])
    BY <1>7, <2>1, RoomForSums DEF Small, Elem
  <2> QED
    BY <1>7, <2>1, <2>2, RoomForSums DEF Small
<1>10. Computes(D, T, {out, "cpy"}, out, (q * R) % P)
  BY ONLY <1>1, <1>8, <1>9, out \in Outs, RedcifyComputes
<1> HIDE DEF T, q
<1>11. /\ T \in Stores /\ T.ok = D.ok /\ Elem(T.nn[out]) /\ T.nn[out].val = (q * R) % P
       /\ \A y \in Names \ (Scratch \cup {"inv", out}) : T.nn[y] = S.nn[y]
  BY <1>1, <1>7, <1>10 DEF Computes, Sets
<1>12. CASE d % P = 0
  BY <1>5, <1>6, <1>11, <1>12 DEF Divides, MontyDivides
<1>13. CASE d % P # 0
  <2>1. d # 0
    <3>1. 0 \in 0..(P - 1)
      BY <1>1
    <3>2. 0 % P = 0
      BY ONLY <1>1, <3>1, SmallMod
    <3> QED
      BY <1>13, <3>2
  <2>2. M.ok = S.ok
    <3>1. S.ok \in BOOLEAN
      BY <1>1 DEF Stores
    <3> QED
      BY <1>2, <1>3, <2>1, <3>1
  <2>3. T.ok = S.ok /\ (q * d) % P = n % P
    BY <1>5, <1>11, <1>13, <2>2 DEF Divides, q
  <2> HIDE DEF n, d
  <2>4. MontyDivides(S, T, out, n, d)
    BY <1>9, <1>11, <1>13, <2>3 DEF MontyDivides
  <2> QED
    BY <1>6, <2>4 DEF n, d
<1> QED
  BY <1>12, <1>13

\* Powers of a residue.
LEMMA PowersOfResidue ==
  ASSUME NEW x \in 0..(P - 1), NEW exp \in Exponents, exp # 0
  PROVE  /\ exp \in Nat \ {0} /\ x^1 = x
         /\ \A n \in 1..exp : x^n \in Nat
         /\ \A n \in 1..exp : 2 * n <= exp => x^(2 * n) = x^n * x^n
         /\ \A n \in 1..exp : 2 * n + 1 <= exp => x^(2 * n + 1) = (x^n * x^n) * x
<1>1. exp \in Nat \ {0} /\ P \in Nat /\ x \in Nat
  <2>1. Exponents \subseteq Nat
    BY FieldAssumption
  <2>2. P \in Nat
    BY RoomForSums
  <2> QED
    BY <2>1, <2>2
<1>2. (\A n \in 1..exp : x^n \in Nat) /\ \A n \in 1..(exp - 1) : x^(n + 1) = x * x^n
  BY PowersAssumption
<1>3. x^1 = x
  BY PowersAssumption
<1> DEFINE pow == [n \in 1..exp |-> x^n]
<1>4. /\ \A n \in 1..exp : pow[n] = x^n /\ pow[n] \in Nat
      /\ pow[1] = x /\ \A n \in 1..(exp - 1) : pow[n + 1] = x * pow[n]
  <2>1. \A n \in 1..(exp - 1) : n \in 1..exp /\ n + 1 \in 1..exp
    BY <1>1
  <2>2. 1 \in 1..exp
    BY <1>1
  <2> QED
    BY <1>2, <1>3, <2>1, <2>2
<1> HIDE DEF pow
<1>5. ASSUME NEW m \in 1..exp
      PROVE  \A n \in 1..exp : m + n <= exp => pow[m + n] = pow[m] * pow[n]
  <2> DEFINE L == {n \in 1..exp : m + n <= exp => pow[m + n] = pow[m] * pow[n]}
  <2>1. pow[m] \in Nat
    BY <1>4
  <2>2. 1 \in L
    <3>1. pow[1] = x
      BY <1>4
    <3>2. ASSUME m + 1 <= exp
          PROVE  pow[m + 1] = pow[m] * pow[1]
      <4>1. m \in 1..(exp - 1)
        BY <1>1, <3>2
      <4>2. pow[m + 1] = x * pow[m]
        BY <1>4, <4>1
      <4> DEFINE y == pow[m]
      <4>3. x * y = y * x
        BY <1>1, <2>1
      <4> QED
        BY <3>1, <4>2, <4>3
    <3>3. 1 \in 1..exp
      BY <1>1
    <3> QED
      BY <3>2, <3>3
  <2>3. ASSUME NEW n \in (1 + 1)..exp, \A j \in 1..(n - 1) : j \in L
        PROVE  n \in L
    <3> DEFINE j == n - 1
    <3>1. j \in 1..(n - 1) /\ j \in 1..exp /\ n \in 1..exp /\ n = j + 1 /\ m + n = (m + j) + 1
      BY <1>1
    <3>2. j \in L
      BY <2>3, <3>1
    <3> HIDE DEF j
    <3>3. ASSUME m + n <= exp
          PROVE  pow[m + n] = pow[m] * pow[n]
      <4>1. m + j <= exp /\ m + j \in 1..exp
        BY <1>1, <3>1, <3>3
      <4>2. pow[m + j] = pow[m] * pow[j]
        BY <3>2, <4>1
      <4>3. pow[(m + j) + 1] = x * pow[m + j] /\ pow[j + 1] = x * pow[j] /\ pow[j] \in Nat
        <5>1. m + j \in 1..(exp - 1) /\ j \in 1..(exp - 1)
          BY <1>1, <3>1, <3>3
        <5> QED
          BY <1>4, <3>1, <5>1
      <4> DEFINE y == pow[m]
                 z == pow[j]
      <4>4. y \in Nat /\ z \in Nat /\ pow[m + n] = x * (y * z) /\ pow[n] = x * z
        BY <2>1, <3>1, <4>2, <4>3
      <4> HIDE DEF y, z
      <4>5. x * (y * z) = y * (x * z)
        BY ONLY <1>1, <4>4
      <4> QED
        BY <4>4, <4>5 DEF y
    <3> QED
      BY <3>1, <3>3
  <2>4. \A n \in 1..exp : n \in L
    <3>1. 1 \in Nat /\ exp \in Nat
      BY <1>1
    <3> HIDE DEF L
    <3> QED
      BY ONLY <2>2, <2>3, <3>1, CountingInduction
  <2> QED
    BY <2>4
<1>6. ASSUME NEW n \in 1..exp, 2 * n <= exp
      PROVE  x^(2 * n) = x^n * x^n
  <2>1. n + n = 2 * n /\ n + n \in 1..exp /\ n + n <= exp
    BY <1>1, <1>6
  <2>2. pow[n + n] = pow[n] * pow[n]
    BY <1>5, <2>1
  <2> QED
    BY <1>4, <2>1, <2>2
<1>7. ASSUME NEW n \in 1..exp, 2 * n + 1 <= exp
      PROVE  x^(2 * n + 1) = (x^n * x^n) * x
  <2>1. 2 * n <= exp /\ 2 * n \in 1..(exp - 1)
    BY <1>1, <1>7
  <2>2. x^(2 * n) = x^n * x^n /\ x^(2 * n + 1) = x * x^(2 * n)
    BY <1>2, <1>6, <2>1
  <2> DEFINE y == x^n * x^n
  <2>3. y \in Nat
    <3> DEFINE z == x^n
    <3>1. z \in Nat
      BY <1>2
    <3>2. y = z * z
      OBVIOUS
    <3> HIDE DEF y, z
    <3> QED
      BY ONLY <3>1, <3>2
  <2>4. x^(2 * n + 1) = x * y
    BY <2>2
  <2> HIDE DEF y
  <2>5. x * y = y * x
    BY <1>1, <2>3
  <2> QED
    BY <2>4, <2>5 DEF y
<1> QED
  BY <1>1, <1>2, <1>3, <1>6, <1>7

\* n is the Montgomery form of x.
MontyOf(n, x) == Small(n) /\ n.val = (x * R) % P

\* Montgomery's product of two Montgomery forms.
LEMMA MontyProduct ==
  ASSUME NEW S, Context(S), NEW out \in Outs, NEW in1 \in Names, NEW in2 \in Names,
         NEW x \in Nat, NEW y \in Nat, MontyOf(S.nn[in1], x), MontyOf(S.nn[in2], y)
  PROVE  /\ Computes(S, nn_mul_redc1(S, out, in1, in2), {out, "cpy"}, out,
                     nn_mul_redc1(S, out, in1, in2).nn[out].val)
         /\ MontyOf(nn_mul_redc1(S, out, in1, in2).nn[out], x * y)
<1> DEFINE T == nn_mul_redc1(S, out, in1, in2)
           v1 == S.nn[in1].val
           v2 == S.nn[in2].val
           t == T.nn[out].val
           xr == x * R
           yr == y * R
           z == x * y
           zr == z * R
<1>1. /\ P \in Nat \ {0} /\ P > 2 /\ R \in Nat /\ PWlen \in Nat
      /\ xr \in Nat /\ yr \in Nat /\ z \in Nat /\ zr \in Nat
  BY RoomForSums, ConstantTypes
<1>2. R % P # 0
  BY PowersNotZero, RoomForSums DEF R
<1>3. /\ v1 = xr % P /\ v2 = yr % P /\ v1 \in Nat /\ v2 \in Nat
      /\ Elem(S.nn[in1]) /\ Elem(S.nn[in2])
      /\ S.nn[in1].wlen <= PWlen /\ S.nn[in2].wlen <= PWlen
  <2>1. v1 \in Nat /\ v2 \in Nat /\ S.nn[in1].wlen \in Nat /\ S.nn[in2].wlen \in Nat
    BY LowClean DEF MontyOf, Small
  <2> QED
    BY <1>1, <2>1 DEF MontyOf, Small, Elem
<1>4. Multiplies(S, T, out, v1, v2)
  BY ONLY <1>3, Context(S), out \in Outs, in1 \in Names, in2 \in Names, MulComputes
<1> HIDE DEF T
<1>5. t \in 0..(P - 1) /\ t \in Nat /\ (t * R) % P = (v1 * v2) % P
  BY <1>1, <1>4 DEF Multiplies
<1>6. (v1 * v2) % P = (zr * R) % P
  <2> HIDE DEF xr, yr, v1, v2
  <2>1. ((xr % P) * v2) % P = (xr * v2) % P
    BY ONLY <1>1, <1>3, ModMul
  <2>2. ((yr % P) * xr) % P = (yr * xr) % P
    BY ONLY <1>1, ModMul
  <2>3. xr * v2 = v2 * xr
    BY ONLY <1>1, <1>3
  <2>4. yr * xr = zr * R
    BY ONLY <1>1, x \in Nat, y \in Nat DEF xr, yr, zr, z
  <2> HIDE DEF zr
  <2> QED
    BY ONLY <1>3, <2>1, <2>2, <2>3, <2>4
<1> HIDE DEF t, zr, v1, v2
<1>7. t % P = zr % P
  <2>1. R \in Nat /\ zr \in Nat
    BY <1>1
  <2>2. (t * R) % P = (zr * R) % P /\ t \in Nat
    BY <1>5, <1>6
  <2> QED
    BY ONLY <1>2, <2>1, <2>2, CancelP
<1>8. t % P = t
  BY ONLY <1>1, <1>5, SmallMod
<1>9. t = (z * R) % P
  BY ONLY <1>7, <1>8 DEF zr
<1>10. Small(T.nn[out])
  <2>1. Clean(T.nn[out]) /\ T.nn[out].wlen = PWlen /\ T.nn[out].val < P
    BY <1>1, <1>4, <1>5 DEF Multiplies, Computes, Elem, t
  <2> QED
    BY <1>1, <2>1 DEF Small
<1>11. MontyOf(T.nn[out], z)
  BY <1>9, <1>10 DEF MontyOf, t
<1>12. Computes(S, T, {out, "cpy"}, out, T.nn[out].val)
  BY <1>4 DEF Multiplies
<1> QED
  BY <1>11, <1>12 DEF T

\* T is S after the loop of fp_pow has worked on the powers of x up to y.
PowState(S, T, x, y) ==
  /\ T \in Stores /\ T.ok = S.ok
  /\ \A z \in Names \ Scratch : T.nn[z] = S.nn[z]
  /\ MontyOf(T.nn["a"], x) /\ MontyOf(T.nn["b"], y)

\* One iteration squares, and multiplies by the base when the bit is 1.
LEMMA PowStepState ==
  ASSUME NEW S, Context(S), NEW T, NEW x \in Nat, NEW y \in Nat, PowState(S, T, x, y),
         NEW bit \in 0..1
  PROVE  PowState(S, PowStep(T, bit), x, IF bit = 1 THEN (y * y) * x ELSE y * y)
<1> DEFINE U == nn_mul_redc1(T, "u", "b", "b")
           sel == IF bit = 1 THEN "a" ELSE "r"
           f == IF bit = 1 THEN x ELSE 1
           V == nn_mul_redc1(U, "b", "u", sel)
           yy == y * y
<1>1. /\ "a" \in Names /\ "b" \in Outs /\ "b" \in Names /\ "u" \in Outs /\ "u" \in Names
      /\ "cpy" \in Scratch /\ "a" \in Scratch /\ "b" \in Scratch /\ "u" \in Scratch
      /\ {"u", "cpy"} \in SUBSET Outs /\ Scratch \in SUBSET Outs
      /\ "r" \in Names /\ "r" \notin Outs
  BY ScratchNames DEF Scratch
<1>2. Context(T)
  <2>1. Sets(S, T, Scratch, "b", T.nn["b"])
    BY DEF PowState, Sets
  <2> QED
    BY ONLY <1>1, <2>1, Context(S), SetsContext
<1>3. /\ Computes(T, U, {"u", "cpy"}, "u", U.nn["u"].val)
      /\ MontyOf(U.nn["u"], yy)
  BY ONLY <1>1, <1>2, y \in Nat, PowState(S, T, x, y), MontyProduct DEF PowState
<1> HIDE DEF U
<1>4. Context(U) /\ U \in Stores /\ U.ok = T.ok
      /\ \A z \in Names \ {"u", "cpy"} : U.nn[z] = T.nn[z]
  <2>1. Sets(T, U, {"u", "cpy"}, "u", U.nn["u"])
    BY <1>3 DEF Computes
  <2>2. Context(U)
    BY ONLY <1>1, <1>2, <2>1, SetsContext
  <2> QED
    BY <1>3, <2>2 DEF Computes, Sets
<1>5. yy \in Nat /\ f \in Nat
  BY y \in Nat, x \in Nat
<1>6. sel \in Names /\ MontyOf(U.nn[sel], f)
  <2>1. CASE bit = 1
    <3>1. U.nn["a"] = T.nn["a"]
      BY <1>1, <1>4
    <3> QED
      BY <1>1, <2>1, <3>1 DEF PowState
  <2>2. CASE bit # 1
    <3>1. Small(U.nn["r"]) /\ U.nn["r"].val = R % P
      BY <1>4, ContextElems
    <3>2. 1 * R = R
      BY ConstantTypes
    <3>3. MontyOf(U.nn["r"], 1)
      BY <3>1, <3>2 DEF MontyOf
    <3> QED
      BY <1>1, <2>2, <3>3
  <2> QED
    BY <2>1, <2>2
<1>7. PowStep(T, bit) = V
  BY DEF PowStep, V, U, sel
<1> HIDE DEF sel, f, yy
<1>8. /\ Computes(U, V, {"b", "cpy"}, "b", V.nn["b"].val)
      /\ MontyOf(V.nn["b"], yy * f)
  BY ONLY <1>1, <1>3, <1>4, <1>5, <1>6, MontyProduct
<1> HIDE DEF V
<1>9. yy * f = IF bit = 1 THEN (y * y) * x ELSE y * y
  <2>1. CASE bit = 1
    BY <2>1 DEF yy, f
  <2>2. CASE bit # 1
    <3>1. yy * 1 = yy
      BY <1>5
    <3> QED
      BY <2>2, <3>1 DEF yy, f
  <2> QED
    BY <2>1, <2>2
<1>10. V.nn["a"] = T.nn["a"]
  BY <1>1, <1>4, <1>8 DEF Computes, Sets
<1>11. PowState(S, V, x, yy * f)
  <2>1. V \in Stores /\ V.ok = S.ok
    BY <1>4, <1>8 DEF Computes, Sets, PowState
  <2>2. \A z \in Names \ Scratch : V.nn[z] = S.nn[z]
    <3> TAKE z \in Names \ Scratch
    <3>1. z \in Names \ {"u", "cpy"} /\ z \in Names \ {"b", "cpy"}
      BY <1>1
    <3> QED
      BY <1>4, <1>8, <3>1 DEF Computes, Sets, PowState
  <2> QED
    BY <1>8, <1>10, <2>1, <2>2 DEF PowState
<1> QED
  BY <1>7, <1>9, <1>11

\* The loop ends with the power, in Montgomery form.
LEMMA PowLoopComputes ==
  ASSUME NEW S, Context(S), NEW T, NEW x \in 0..(P - 1), NEW exp \in Exponents, exp # 0,
         PowState(S, PowStart(T), x, x)
  PROVE  PowState(S, PowLoop(T, exp), x, x^exp)
<1> DEFINE N == exp
           T0 == PowStart(T)
           V == {Z \in Stores : \E y \in Nat : PowState(S, Z, x, y)}
           F == [q \in (2..N) \X V |-> PowStep(q[2], q[1] % 2)]
           prev == [i \in 2..N |-> i \div 2]
           Body(f) == [e \in 1..N |-> IF e = 1 THEN T0 ELSE PowStep(f[e \div 2], e % 2)]
           g == CHOOSE f : f = Body(f)
<1>1. /\ N \in Nat \ {0} /\ x^1 = x /\ x \in Nat
      /\ \A n \in 1..N : x^n \in Nat
      /\ \A n \in 1..N : 2 * n <= N => x^(2 * n) = x^n * x^n
      /\ \A n \in 1..N : 2 * n + 1 <= N => x^(2 * n + 1) = (x^n * x^n) * x
  <2>1. x \in Nat
    BY RoomForSums
  <2> QED
    BY <2>1, PowersOfResidue
<1>2. \A i \in 2..N : i \div 2 \in 1..(i - 1) /\ i \div 2 \in 1..N /\ i % 2 \in 0..1
                      /\ i = 2 * (i \div 2) + (i % 2)
  <2> TAKE i \in 2..N
  <2> DEFINE h == i \div 2
             bit == i % 2
  <2>0. N \in Nat
    BY <1>1
  <2>1. i \in Nat /\ i >= 2 /\ i <= N /\ 2 \in Nat \ {0} /\ N \in Nat
    BY ONLY <2>0, i \in 2..N
  <2>2. h \in Nat /\ bit \in 0..1 /\ i = 2 * h + bit
    <3>1. h \in Nat /\ bit \in 0..(2 - 1) /\ i = 2 * h + bit
      BY ONLY <2>1, DivMod
    <3> QED
      BY <3>1
  <2> HIDE DEF h, bit
  <2>3. h \in 1..(i - 1) /\ h \in 1..N
    BY ONLY <2>1, <2>2
  <2> QED
    BY <2>2, <2>3 DEF h, bit
<1>3. PowLoop(T, exp) = g[N]
  BY DEF PowLoop
<1> HIDE DEF N, T0
<1>4. ASSUME NEW Z, NEW y \in Nat, PowState(S, Z, x, y), NEW bit \in 0..1
      PROVE  PowState(S, PowStep(Z, bit), x, IF bit = 1 THEN (y * y) * x ELSE y * y)
  BY ONLY <1>1, <1>4, Context(S), PowStepState
<1>5. T0 \in V
  <2>1. PowState(S, T0, x, x)
    BY DEF T0
  <2>2. T0 \in Stores
    BY <2>1 DEF PowState
  <2> QED
    BY <1>1, <2>1, <2>2
<1>6. \A Z \in V, bit \in 0..1 : PowStep(Z, bit) \in V
  <2> TAKE Z \in V, bit \in 0..1
  <2>1. PICK y \in Nat : PowState(S, Z, x, y)
    OBVIOUS
  <2> DEFINE w == IF bit = 1 THEN (y * y) * x ELSE y * y
  <2>2. PowState(S, PowStep(Z, bit), x, w)
    BY <1>4, <2>1
  <2>3. w \in Nat
    BY <1>1
  <2> HIDE DEF w
  <2>4. PowStep(Z, bit) \in Stores
    BY <2>2 DEF PowState
  <2> QED
    BY <2>2, <2>3, <2>4
<1> HIDE DEF V
<1>7. \E f : f = Body(f)
  <2>1. F \in [((1 + 1)..N) \X V -> V]
    BY <1>2, <1>6
  <2>2. \A i \in (1 + 1)..N : prev[i] \in 1..(i - 1)
    BY <1>2
  <2>3. \A i \in 2..N, Z \in V : F[<<i, Z>>] = PowStep(Z, i % 2)
    OBVIOUS
  <2> HIDE DEF F
  <2>4. PICK f \in [1..N -> V] : f[1] = T0 /\ \A i \in (1 + 1)..N : f[i] = F[<<i, f[prev[i]]>>]
    <3> HIDE DEF prev
    <3>1. 1 \in Nat /\ N \in Nat /\ 1 <= N
      BY <1>1
    <3>2. Definable(1, N, V, T0, F, prev)
      BY ONLY <1>5, <2>1, <2>2, <3>1, RecursionExists
    <3> QED
      BY <3>2 DEF Definable
  <2>5. \A i \in 2..N : f[i] = PowStep(f[i \div 2], i % 2)
    <3> TAKE i \in 2..N
    <3>1. i \div 2 \in 1..N /\ prev[i] = i \div 2 /\ i \in (1 + 1)..N
      BY <1>2
    <3>2. f[i \div 2] \in V
      BY <3>1
    <3> QED
      BY <2>3, <2>4, <3>1, <3>2
  <2>6. f = Body(f)
    <3>1. \A e \in 1..N : e = 1 \/ e \in 2..N
      BY <1>1
    <3> QED
      BY <2>4, <2>5, <3>1
  <2> QED
    BY <2>6
<1>8. g = Body(g)
  BY <1>7
<1>9. g[1] = T0 /\ \A i \in 2..N : g[i] = PowStep(g[i \div 2], i % 2)
  <2>1. \A e \in 1..N : g[e] = IF e = 1 THEN T0 ELSE PowStep(g[e \div 2], e % 2)
    <3> HIDE DEF g
    <3> QED
      BY <1>8
  <2>2. 1 \in 1..N /\ \A i \in 2..N : i \in 1..N /\ i # 1
    BY <1>1
  <2> HIDE DEF g
  <2> QED
    BY ONLY <2>1, <2>2
<1> HIDE DEF g
<1> DEFINE L == {i \in 1..N : PowState(S, g[i], x, x^i)}
<1>10. 1 \in L
  BY <1>1, <1>9 DEF T0
<1>11. ASSUME NEW i \in (1 + 1)..N, \A j \in 1..(i - 1) : j \in L
       PROVE  i \in L
  <2> DEFINE h == i \div 2
             bit == i % 2
             y == x^h
  <2>1. /\ h \in 1..(i - 1) /\ h \in 1..N /\ bit \in 0..1 /\ i = 2 * h + bit
        /\ g[i] = PowStep(g[h], bit) /\ i <= N /\ i \in 1..N
    <3>1. N \in Nat
      BY <1>1
    <3>2. i \in 2..N /\ i \in 1..N /\ i <= N
      BY ONLY <3>1, i \in (1 + 1)..N
    <3>3. h \in 1..(i - 1) /\ h \in 1..N /\ bit \in 0..1 /\ i = 2 * h + bit
      BY ONLY <1>2, <3>2
    <3>4. g[i] = PowStep(g[h], bit)
      BY ONLY <1>9, <3>2
    <3> QED
      BY <3>2, <3>3, <3>4
  <2> HIDE DEF h, bit
  <2>2. PowState(S, g[h], x, y) /\ y \in Nat
    BY <1>1, <1>11, <2>1
  <2> HIDE DEF y
  <2>3. PowState(S, g[i], x, IF bit = 1 THEN (y * y) * x ELSE y * y)
    <3>1. PowState(S, PowStep(g[h], bit), x, IF bit = 1 THEN (y * y) * x ELSE y * y)
      BY ONLY <1>4, <2>1, <2>2
    <3> QED
      BY <2>1, <3>1
  <2>4. x^i = IF bit = 1 THEN (y * y) * x ELSE y * y
    <3>1. CASE bit = 1
      BY <1>1, <2>1, <3>1 DEF y
    <3>2. CASE bit # 1
      <4>1. i = 2 * h
        BY <2>1, <3>2
      <4>2. x^(2 * h) = y * y
        BY <1>1, <2>1, <4>1 DEF y
      <4> QED
        BY <3>2, <4>1, <4>2
    <3> QED
      BY <3>1, <3>2
  <2> QED
    BY <2>1, <2>3, <2>4
<1>12. N \in L
  <2>1. 1 \in Nat /\ N \in Nat /\ N \in 1..N
    BY <1>1
  <2>2. \A i \in 1..N : i \in L
    <3> HIDE DEF L
    <3> QED
      BY ONLY <1>10, <1>11, <2>1, CountingInduction
  <2> QED
    BY <2>1, <2>2
<1> QED
  BY <1>3, <1>12 DEF N

\* T is S after v was written to out, with the locals in between.
Results(S, T, out, v) ==
  /\ T \in Stores /\ T.ok = S.ok
  /\ \A y \in Names \ (Scratch \cup {"inv", out}) : T.nn[y] = S.nn[y]
  /\ Elem(T.nn[out]) /\ T.nn[out].val = v

\* fp_pow raises to a power.
LEMMA PowComputes ==
  ASSUME NEW S, Context(S), NEW out \in Targets, NEW base \in Names, Elem(S.nn[base]),
         NEW exp \in Exponents, exp # 0
  PROVE  Results(S, PowStore(S, out, base, exp), out, ((S.nn[base].val % P)^exp) % P)
<1> DEFINE v == S.nn[base].val
           x == v % P
           M == nn_mul_redc1(S, "a", base, "r_square")
           U == PowStart(M)
           V == PowLoop(M, exp)
           T == nn_mul_redc1(V, out, "b", "one")
           y == x^exp
           t == T.nn[out].val
<1>1. /\ "a" \in Names /\ "a" \in Outs /\ "b" \in Outs /\ "b" \in Names
      /\ "cpy" \in Scratch /\ "a" \in Scratch /\ "b" \in Scratch
      /\ out \in Outs /\ out \in Names /\ out \notin Scratch /\ "one" \in Names
      /\ {"a", "cpy"} \in SUBSET Outs /\ {"b"} \in SUBSET Outs /\ Scratch \in SUBSET Outs
  BY ScratchNames DEF Scratch, Targets
<1>2. /\ P \in Nat \ {0} /\ P > 2 /\ R \in Nat /\ PWlen \in Nat /\ v \in Nat
  BY RoomForSums, ConstantTypes, LowClean DEF Elem
<1>3. R % P # 0
  BY PowersNotZero, RoomForSums DEF R
<1>4. x \in 0..(P - 1) /\ x \in Nat
  <2> HIDE DEF v
  <2>1. x \in 0..(P - 1)
    BY ONLY <1>2, DivMod
  <2> QED
    BY ONLY <1>2, <2>1
<1>5. (v * R) % P = (x * R) % P
  <2> HIDE DEF v
  <2> QED
    BY ONLY <1>2, ModMul DEF x
<1>6. Computes(S, M, {"a", "cpy"}, "a", (v * R) % P) /\ Small(M.nn["a"])
  BY ONLY <1>1, Context(S), Elem(S.nn[base]), base \in Names, RedcifyComputes
<1> HIDE DEF M
<1>7. /\ M \in Stores /\ M.ok = S.ok /\ MontyOf(M.nn["a"], x)
      /\ \A z \in Names \ {"a", "cpy"} : M.nn[z] = S.nn[z]
  BY <1>5, <1>6 DEF Computes, Sets, MontyOf
<1>8. PowState(S, U, x, x)
  <2>1. M.nn["a"] \in Nn
    BY <1>6 DEF Small, Clean
  <2>2. Sets(M, U, {"b"}, "b", M.nn["a"]) /\ U.ok = M.ok
    BY <1>1, <1>7, <2>1, PutSets DEF PowStart
  <2>3. U.nn["a"] = M.nn["a"] /\ U.nn["b"] = M.nn["a"] /\ U \in Stores
    BY <1>1, <2>2 DEF Sets
  <2>4. \A z \in Names \ Scratch : U.nn[z] = S.nn[z]
    BY <1>1, <1>7, <2>2 DEF Sets
  <2> HIDE DEF U, x
  <2> QED
    BY <1>7, <2>2, <2>3, <2>4 DEF PowState
<1>9. PowState(S, V, x, y)
  <2> HIDE DEF x
  <2> QED
    BY ONLY <1>4, <1>8, Context(S), exp \in Exponents, exp # 0, PowLoopComputes DEF U, V, y
<1>10. y \in Nat
  <2>1. exp \in Nat \ {0} /\ \A n \in 1..exp : x^n \in Nat
    <3> HIDE DEF x
    <3> QED
      BY ONLY <1>4, exp \in Exponents, exp # 0, PowersOfResidue
  <2>2. exp \in 1..exp
    <3>1. exp \in Nat \ {0}
      BY <2>1
    <3> QED
      BY ONLY <3>1
  <2> HIDE DEF x
  <2> QED
    BY ONLY <2>1, <2>2 DEF y
<1> HIDE DEF V, x, y
<1>11. Context(V)
  <2>1. Sets(S, V, Scratch, "b", V.nn["b"])
    BY <1>9 DEF PowState, Sets
  <2> QED
    BY ONLY <1>1, <2>1, Context(S), SetsContext
<1> DEFINE vb == V.nn["b"].val
<1>12. Elem(V.nn["b"]) /\ vb = (y * R) % P /\ vb \in Nat
  <2>1. Small(V.nn["b"]) /\ vb = (y * R) % P
    BY <1>9 DEF PowState, MontyOf
  <2>2. vb \in Nat /\ V.nn["b"].wlen \in Nat
    BY <2>1, LowClean DEF Small
  <2> QED
    BY <1>2, <2>1, <2>2 DEF Small, Elem
<1>13. Multiplies(V, T, out, vb, 1)
  BY ONLY <1>1, <1>11, <1>12, UnredcifyComputes
<1>14. PowStore(S, out, base, exp) = T
  BY DEF PowStore, T, V, M
<1> HIDE DEF T, vb
<1>15. t \in 0..(P - 1) /\ t \in Nat /\ (t * R) % P = (vb * 1) % P
  BY <1>2, <1>13 DEF Multiplies
<1>16. t = y % P
  <2> DEFINE yr == y * R
  <2>1. yr \in Nat
    BY <1>2, <1>10
  <2> HIDE DEF t
  <2>2. vb * 1 = vb /\ vb = yr % P
    BY <1>12
  <2>3. yr % P \in 0..(P - 1)
    <3> HIDE DEF yr
    <3> QED
      BY ONLY <1>2, <2>1, DivMod
  <2>4. vb % P = vb
    <3>1. vb \in 0..(P - 1)
      BY <2>2, <2>3
    <3> QED
      BY ONLY <1>2, <3>1, SmallMod
  <2>5. (t * R) % P = (y * R) % P
    BY <1>15, <2>2, <2>4 DEF yr
  <2>6. R \in Nat /\ t \in Nat
    BY <1>2, <1>15
  <2>7. t % P = y % P
    BY ONLY <1>3, <1>10, <2>5, <2>6, CancelP
  <2>8. t % P = t
    BY ONLY <1>2, <1>15, SmallMod
  <2> QED
    BY <2>7, <2>8
<1>17. Results(S, T, out, t)
  <2>1. T \in Stores /\ T.ok = S.ok /\ Elem(T.nn[out])
    BY <1>9, <1>13 DEF Multiplies, Computes, Sets, PowState
  <2>2. \A z \in Names \ (Scratch \cup {"inv", out}) : T.nn[z] = S.nn[z]
    BY <1>1, <1>9, <1>13 DEF Multiplies, Computes, Sets, PowState
  <2> QED
    BY <2>1, <2>2 DEF Results
<1> QED
  BY <1>14, <1>16, <1>17 DEF x, y, v

-----------------------------------------------------------------------------
(* The elements of the program, and the store that an operation starts from.  *)

Elems(r) == r \in [Regs -> Nn] /\ \A x \in Regs : Elem(r[x])

\* The invariants of Fp, together, say that the registers are elements.
LEMMA ElemsAreBounded ==
  ASSUME NEW r
  PROVE  Elems(r) <=>
           /\ r \in [Regs -> [wlen : 0..NN_MAX_WORD_LEN, val : 0..(B^NN_MAX_WORD_LEN - 1)]]
           /\ \A x \in Regs : r[x].wlen <= PWlen + 1 /\ r[x].val < B^r[x].wlen
           /\ \A x \in Regs : Value(r[x]) <= P
<1> DEFINE W == B^NN_MAX_WORD_LEN
           Words == [wlen : 0..NN_MAX_WORD_LEN, val : 0..(W - 1)]
<1>1. W \in Nat \ {0} /\ NN_MAX_WORD_LEN \in Nat
  <2>1. NN_MAX_WORD_LEN \in 0..NN_MAX_WORD_LEN
    BY RoomForSums
  <2> QED
    BY <2>1, PowB
<1>2. ASSUME NEW a, Clean(a)
      PROVE  a \in Words
  <2>1. NN_MAX_WORD_LEN \in a.wlen..NN_MAX_WORD_LEN /\ a.wlen \in 0..NN_MAX_WORD_LEN
    BY <1>1, <1>2 DEF Clean, Nn
  <2>2. a.val < W /\ a.val \in Nat
    <3>1. \A n \in a.wlen..NN_MAX_WORD_LEN : a.val < B^n
      BY ONLY <1>2, LowClean
    <3>2. a.val \in Nat
      BY <1>2 DEF Clean, Nn
    <3> QED
      BY <2>1, <3>1, <3>2
  <2> HIDE DEF W
  <2> QED
    BY <1>1, <1>2, <2>2 DEF Clean, Nn
<1> HIDE DEF W
<1>3. Words \subseteq Nn
  BY <1>1 DEF Nn
<1>4. ASSUME Elems(r)
      PROVE  /\ r \in [Regs -> Words]
             /\ \A x \in Regs : r[x].wlen <= PWlen + 1 /\ r[x].val < B^r[x].wlen
             /\ \A x \in Regs : Value(r[x]) <= P
  <2>1. \A x \in Regs : r[x] \in Words
    BY <1>2, <1>4 DEF Elems, Elem
  <2>2. r \in [Regs -> Words]
    <3> HIDE DEF Words
    <3> QED
      BY <1>4, <2>1 DEF Elems
  <2>3. \A x \in Regs : Value(r[x]) = r[x].val
    BY <1>4, LowClean DEF Elems, Elem
  <2> QED
    BY <1>4, <2>2, <2>3 DEF Elems, Elem, Clean
<1>5. ASSUME r \in [Regs -> Words],
             \A x \in Regs : r[x].wlen <= PWlen + 1 /\ r[x].val < B^r[x].wlen,
             \A x \in Regs : Value(r[x]) <= P
      PROVE  Elems(r)
  <2>1. \A x \in Regs : r[x] \in Nn
    BY <1>3, <1>5
  <2>2. \A x \in Regs : Clean(r[x])
    BY <1>5, <2>1 DEF Clean
  <2>3. \A x \in Regs : Value(r[x]) = r[x].val
    BY <2>2, LowClean
  <2>4. r \in [Regs -> Nn]
    <3> HIDE DEF Words
    <3> QED
      BY <1>5, <2>1
  <2> QED
    BY <1>5, <2>2, <2>3, <2>4 DEF Elems, Elem
<1> QED
  BY <1>4, <1>5 DEF W

\* The store of elements has the constants of the context in place.
LEMMA StoreOfElems ==
  ASSUME NEW r, Elems(r)
  PROVE  /\ Context(Store(r)) /\ Store(r) \in Stores /\ Store(r).ok = TRUE
         /\ \A x \in Regs : /\ x \in Names /\ x \in Outs /\ x \in Targets
                            /\ Store(r).nn[x] = r[x] /\ Elem(Store(r).nn[x])
<1> DEFINE nn == [x \in Names |-> CASE x \in Regs -> r[x]
                                    [] x \in DOMAIN Constants -> Constants[x]
                                    [] x \in Locals -> nn_init(0)]
<1>1. Store(r) = [nn |-> nn, ok |-> TRUE]
  BY DEF Store, Names
<1>2. \A x \in Regs : nn[x] = r[x]
  <2>1. Regs \subseteq Names /\ \A x \in Regs : x \notin DOMAIN Constants /\ x \notin Locals
    BY NamesAssumption DEF Names
  <2> HIDE DEF Constants, Locals, Names
  <2> QED
    BY <2>1
<1>3. \A x \in DOMAIN Constants : nn[x] = Constants[x]
  <2>1. DOMAIN Constants \subseteq Names /\ \A x \in DOMAIN Constants : x \notin Regs /\ x \notin Locals
    <3>1. \A x \in DOMAIN Constants : x \notin Locals
      BY ConstantTypes DEF Locals
    <3> QED
      BY <3>1, NamesAssumption DEF Names
  <2> HIDE DEF Constants, Locals, Names
  <2> QED
    BY <2>1
<1>4. \A x \in Locals : nn[x] = nn_init(0)
  <2>1. Locals \subseteq Names /\ \A x \in Locals : x \notin Regs /\ x \notin DOMAIN Constants
    <3>1. \A x \in Locals : x \notin DOMAIN Constants
      BY ConstantTypes DEF Locals
    <3> QED
      BY <3>1, NamesAssumption DEF Names
  <2> HIDE DEF Constants, Locals, Names
  <2> QED
    BY <2>1
<1>5. nn \in [Names -> Nn]
  <2>1. \A x \in Regs : r[x] \in Nn
    BY DEF Elems
  <2>2. \A x \in DOMAIN Constants : Constants[x] \in Nn
    <3> DEFINE half == (P \div 2) + 1
    <3>1. PWlen \in 0..NN_MAX_WORD_LEN /\ 1 \in 0..NN_MAX_WORD_LEN /\ P \in Nat /\ half \in Nat
      BY RoomForSums
    <3>2. R % P \in Nat /\ (R * R) % P \in Nat
      BY <3>1, ConstantTypes DEF r_square
    <3> HIDE DEF half
    <3>3. Constants["p"] \in Nn
      BY <3>1, ConstantTypes DEF Nn
    <3>4. Constants["one"] \in Nn
      BY <3>1, ConstantTypes DEF Nn
    <3>5. Constants["r"] \in Nn
      BY <3>1, <3>2, ConstantTypes DEF Nn
    <3>6. Constants["r_square"] \in Nn
      BY <3>1, <3>2, ConstantTypes DEF Nn, r_square
    <3>7. Constants["mp1d2"] \in Nn
      BY <3>1, ConstantTypes DEF Nn, half
    <3> QED
      BY <3>3, <3>4, <3>5, <3>6, <3>7, ConstantTypes
  <2>3. nn_init(0) \in Nn
    BY RoomForSums, InitClean DEF Clean
  <2>4. \A x \in Names : nn[x] \in Nn
    <3> HIDE DEF nn, Constants, Locals
    <3> QED
      BY <1>2, <1>3, <1>4, <2>1, <2>2, <2>3 DEF Names
  <2> QED
    BY <2>4
<1> HIDE DEF nn
<1>6. Store(r) \in Stores
  BY <1>1, <1>5 DEF Stores
<1>7. Context(Store(r))
  BY <1>1, <1>3, <1>6 DEF Context
<1>8. \A x \in Regs : x \in Names /\ x \in Outs /\ x \in Targets
  BY ScratchNames DEF Targets
<1> QED
  BY <1>1, <1>2, <1>6, <1>7, <1>8 DEF Elems

\* T is the store of r after v was written to the register out.
Writes(r, T, out, v) ==
  /\ T \in Stores /\ T.ok = TRUE
  /\ \A x \in Regs \ {out} : T.nn[x] = r[x]
  /\ Elem(T.nn[out]) /\ T.nn[out].val = v

LEMMA ComputesWrites ==
  ASSUME NEW r, Elems(r), NEW out \in Regs, NEW T, NEW W, W \subseteq Scratch \cup {"inv", out},
         NEW v, Computes(Store(r), T, W, out, v)
  PROVE  Writes(r, T, out, v)
<1>1. Store(r).ok = TRUE /\ \A x \in Regs : x \in Names /\ Store(r).nn[x] = r[x]
  BY StoreOfElems
<1>2. \A x \in Regs : x \notin Scratch \cup {"inv"}
  BY ScratchNames, NamesAssumption DEF Targets, Locals
<1>3. \A x \in Regs \ {out} : x \in Names \ W
  BY <1>1, <1>2
<1> QED
  BY <1>1, <1>3 DEF Computes, Sets, Writes

LEMMA ResultsWrites ==
  ASSUME NEW r, Elems(r), NEW out \in Regs, NEW T, NEW v, Results(Store(r), T, out, v)
  PROVE  Writes(r, T, out, v)
<1>1. Store(r).ok = TRUE /\ \A x \in Regs : x \in Names /\ Store(r).nn[x] = r[x]
  BY StoreOfElems
<1>2. \A x \in Regs \ {out} : x \in Names \ (Scratch \cup {"inv", out})
  BY <1>1, ScratchNames, NamesAssumption DEF Targets, Locals
<1> QED
  BY <1>1, <1>2 DEF Results, Writes

\* What the operations write.
LEMMA AdditionWrites ==
  ASSUME NEW r, Elems(r), NEW out \in Regs, NEW in1 \in Regs, NEW in2 \in Regs
  PROVE  /\ Writes(r, nn_mod_add(Store(r), out, in1, in2), out,
                   Reduced(r[in1].val + r[in2].val))
         /\ Writes(r, nn_mod_sub(Store(r), out, in1, in2), out,
                   (r[in1].val - r[in2].val) + (IF r[in1].val < r[in2].val THEN P ELSE 0))
         /\ Writes(r, nn_mod_inc(Store(r), out, in1), out, Reduced(r[in1].val + 1))
         /\ Writes(r, nn_mod_dec(Store(r), out, in1), out,
                   (IF r[in1].val = 0 THEN P ELSE r[in1].val) - 1)
         /\ Writes(r, NegStore(Store(r), out, in1), out, P - r[in1].val)
<1> DEFINE S == Store(r)
<1>1. Context(S) /\ \A x \in Regs : x \in Names /\ x \in Outs /\ S.nn[x] = r[x] /\ Elem(S.nn[x])
  BY StoreOfElems
<1>2. "cpy" \notin {out, in1, in2} /\ {out} \subseteq Scratch \cup {"inv", out}
      /\ {out, "cpy"} \subseteq Scratch \cup {"inv", out}
  BY NamesAssumption DEF Locals, Scratch
<1> HIDE DEF S
<1>3. /\ out \in Outs /\ in1 \in Names /\ in2 \in Names
      /\ Elem(S.nn[in1]) /\ Elem(S.nn[in2]) /\ S.nn[in1] = r[in1] /\ S.nn[in2] = r[in2]
  BY <1>1
<1>4. Writes(r, nn_mod_add(S, out, in1, in2), out, Reduced(S.nn[in1].val + S.nn[in2].val))
  <2>1. Computes(S, nn_mod_add(S, out, in1, in2), {out}, out, Reduced(S.nn[in1].val + S.nn[in2].val))
    BY ONLY <1>1, <1>3, AddComputes
  <2> QED
    BY <1>2, <2>1, ComputesWrites DEF S
<1>5. Writes(r, nn_mod_sub(S, out, in1, in2), out,
             (S.nn[in1].val - S.nn[in2].val) + (IF S.nn[in1].val < S.nn[in2].val THEN P ELSE 0))
  <2>1. Computes(S, nn_mod_sub(S, out, in1, in2), {out, "cpy"}, out,
             (S.nn[in1].val - S.nn[in2].val) + (IF S.nn[in1].val < S.nn[in2].val THEN P ELSE 0))
    BY ONLY <1>1, <1>2, <1>3, SubComputes
  <2> QED
    BY <1>2, <2>1, ComputesWrites DEF S
<1>6. Writes(r, nn_mod_inc(S, out, in1), out, Reduced(S.nn[in1].val + 1))
  <2>1. Computes(S, nn_mod_inc(S, out, in1), {out}, out, Reduced(S.nn[in1].val + 1))
    BY ONLY <1>1, <1>3, IncComputes
  <2> QED
    BY <1>2, <2>1, ComputesWrites DEF S
<1>7. Writes(r, nn_mod_dec(S, out, in1), out, (IF S.nn[in1].val = 0 THEN P ELSE S.nn[in1].val) - 1)
  <2>1. Computes(S, nn_mod_dec(S, out, in1), {out}, out,
                 (IF S.nn[in1].val = 0 THEN P ELSE S.nn[in1].val) - 1)
    BY ONLY <1>1, <1>3, DecComputes
  <2> QED
    BY <1>2, <2>1, ComputesWrites DEF S
<1>8. Writes(r, NegStore(S, out, in1), out, P - S.nn[in1].val)
  <2>1. Computes(S, NegStore(S, out, in1), {out}, out, P - S.nn[in1].val)
    BY ONLY <1>1, <1>3, NegComputes
  <2> QED
    BY <1>2, <2>1, ComputesWrites DEF S
<1> QED
  BY <1>3, <1>4, <1>5, <1>6, <1>7, <1>8 DEF S

\* Products: those of Montgomery, and the plain one.
LEMMA ProductWrites ==
  ASSUME NEW r, Elems(r), NEW out \in Regs, NEW in1 \in Regs, NEW in2 \in Regs, Room, MulRoom
  PROVE  /\ \E v \in 0..(P - 1) :
              /\ Writes(r, nn_mul_redc1(Store(r), out, in1, in2), out, v)
              /\ (v * R) % P = (r[in1].val * r[in2].val) % P
         /\ Writes(r, nn_mul_redc1(Store(r), out, in1, "r_square"), out, (r[in1].val * R) % P)
         /\ \E v \in 0..(P - 1) :
              /\ Writes(r, nn_mul_redc1(Store(r), out, in1, "one"), out, v)
              /\ (v * R) % P = r[in1].val % P
         /\ Writes(r, MulStore(Store(r), out, in1, in2), out, (r[in1].val * r[in2].val) % P)
<1> DEFINE S == Store(r)
<1>1. Context(S) /\ \A x \in Regs : x \in Names /\ x \in Outs /\ S.nn[x] = r[x] /\ Elem(S.nn[x])
  BY StoreOfElems
<1>2. {out} \subseteq Scratch \cup {"inv", out} /\ {out, "cpy"} \subseteq Scratch \cup {"inv", out}
  BY DEF Scratch
<1> HIDE DEF S
<1>3. /\ out \in Outs /\ in1 \in Names /\ in2 \in Names
      /\ Elem(S.nn[in1]) /\ Elem(S.nn[in2]) /\ S.nn[in1] = r[in1] /\ S.nn[in2] = r[in2]
  BY <1>1
<1>4. \E v \in 0..(P - 1) :
        /\ Writes(r, nn_mul_redc1(S, out, in1, in2), out, v)
        /\ (v * R) % P = (S.nn[in1].val * S.nn[in2].val) % P
  <2> DEFINE T == nn_mul_redc1(S, out, in1, in2)
  <2>1. Multiplies(S, T, out, S.nn[in1].val, S.nn[in2].val)
    BY ONLY <1>1, <1>3, Room, MulComputes
  <2>2. Writes(r, T, out, T.nn[out].val)
    BY <1>2, <2>1, ComputesWrites DEF Multiplies, S
  <2> HIDE DEF T
  <2>3. /\ T.nn[out].val \in 0..(P - 1)
        /\ (T.nn[out].val * R) % P = (S.nn[in1].val * S.nn[in2].val) % P
    BY <2>1 DEF Multiplies
  <2> QED
    BY <2>2, <2>3 DEF T
<1>5. Writes(r, nn_mul_redc1(S, out, in1, "r_square"), out, (S.nn[in1].val * R) % P)
  <2>1. Computes(S, nn_mul_redc1(S, out, in1, "r_square"), {out, "cpy"}, out, (S.nn[in1].val * R) % P)
    BY ONLY <1>1, <1>3, RedcifyComputes
  <2> QED
    BY <1>2, <2>1, ComputesWrites DEF S
<1>6. \E v \in 0..(P - 1) :
        /\ Writes(r, nn_mul_redc1(S, out, in1, "one"), out, v)
        /\ (v * R) % P = S.nn[in1].val % P
  <2> DEFINE T == nn_mul_redc1(S, out, in1, "one")
  <2>1. Multiplies(S, T, out, S.nn[in1].val, 1)
    BY ONLY <1>1, <1>3, UnredcifyComputes
  <2>2. Writes(r, T, out, T.nn[out].val)
    BY <1>2, <2>1, ComputesWrites DEF Multiplies, S
  <2> HIDE DEF T
  <2>3. S.nn[in1].val * 1 = S.nn[in1].val
    <3>1. S.nn[in1].val \in Nat
      BY <1>3, LowClean DEF Elem
    <3> QED
      BY <3>1
  <2>4. /\ T.nn[out].val \in 0..(P - 1)
        /\ (T.nn[out].val * R) % P = S.nn[in1].val % P
    BY <2>1, <2>3 DEF Multiplies
  <2> QED
    BY <2>2, <2>4 DEF T
<1>7. Writes(r, MulStore(S, out, in1, in2), out, (S.nn[in1].val * S.nn[in2].val) % P)
  <2>1. Computes(S, MulStore(S, out, in1, in2), {out}, out, (S.nn[in1].val * S.nn[in2].val) % P)
    BY ONLY <1>1, <1>3, MulRoom, PlainMulComputes
  <2> QED
    BY <1>2, <2>1, ComputesWrites DEF S
<1> QED
  BY <1>3, <1>4, <1>5, <1>6, <1>7 DEF S

LEMMA SmallElem ==
  ASSUME NEW a, Small(a)
  PROVE  Elem(a) /\ a.val \in 0..(P - 1)
<1>1. a.val \in Nat /\ a.wlen \in Nat
  BY LowClean DEF Small
<1> QED
  BY <1>1, RoomForSums DEF Small, Elem

\* Inverses, quotients and powers.
LEMMA QuotientWrites ==
  ASSUME NEW r, Elems(r), NEW out \in Regs, NEW in1 \in Regs, NEW in2 \in Regs, MulRoom
  PROVE  /\ IF out = in1 \/ r[in1].val % P = 0 THEN ~InverseStore(Store(r), out, in1).ok
            ELSE \E q \in 0..(P - 1) : /\ Writes(r, InverseStore(Store(r), out, in1), out, q)
                                       /\ (q * r[in1].val) % P = 1
         /\ IF r[in2].val % P = 0 THEN ~DivStore(Store(r), out, in1, in2).ok
            ELSE \E q \in 0..(P - 1) : /\ Writes(r, DivStore(Store(r), out, in1, in2), out, q)
                                       /\ (q * r[in2].val) % P = r[in1].val % P
         /\ IF r[in2].val % P = 0 THEN ~DivMontyStore(Store(r), out, in1, in2).ok
            ELSE \E q \in 0..(P - 1) :
                   /\ Writes(r, DivMontyStore(Store(r), out, in1, in2), out, (q * R) % P)
                   /\ (q * r[in2].val) % P = r[in1].val % P
         /\ \A exp \in Exponents \ {0} :
              Writes(r, PowStore(Store(r), out, in1, exp), out, ((r[in1].val % P)^exp) % P)
<1> DEFINE S == Store(r)
<1>1. Context(S) /\ \A x \in Regs : /\ x \in Names /\ x \in Outs /\ x \in Targets
                                    /\ S.nn[x] = r[x] /\ Elem(S.nn[x])
  BY StoreOfElems
<1>2. Scratch \cup {out} \subseteq Scratch \cup {"inv", out}
  OBVIOUS
<1>3. ASSUME NEW T, NEW v, Results(S, T, out, v)
      PROVE  Writes(r, T, out, v)
  BY <1>3, ResultsWrites
<1> HIDE DEF S
<1>4. /\ out \in Outs /\ out \in Targets /\ in1 \in Names /\ in2 \in Names
      /\ Elem(S.nn[in1]) /\ Elem(S.nn[in2]) /\ S.nn[in1] = r[in1] /\ S.nn[in2] = r[in2]
  BY <1>1
<1> DEFINE v1 == r[in1].val
           v2 == r[in2].val
<1>5. IF out = in1 \/ v1 % P = 0 THEN ~InverseStore(S, out, in1).ok
      ELSE \E q \in 0..(P - 1) : Writes(r, InverseStore(S, out, in1), out, q) /\ (q * v1) % P = 1
  <2> DEFINE T == InverseStore(S, out, in1)
  <2>1. IF in1 = out \/ S.nn[in1].val % P = 0 THEN Stops(S, T, out)
        ELSE Inverts(S, T, out, S.nn[in1].val)
    BY ONLY <1>1, <1>4, InverseComputes
  <2> HIDE DEF T
  <2>2. CASE out = in1 \/ v1 % P = 0
    <3>1. ~T.ok
      BY <1>4, <2>1, <2>2 DEF Stops
    <3> QED
      BY <2>2, <3>1 DEF T
  <2>3. CASE ~ (out = in1 \/ v1 % P = 0)
    <3>1. Inverts(S, T, out, v1)
      BY <1>4, <2>1, <2>3
    <3>2. Elem(T.nn[out]) /\ T.nn[out].val \in 0..(P - 1)
      BY <3>1, SmallElem DEF Inverts
    <3>3. Results(S, T, out, T.nn[out].val)
      BY <1>2, <3>1, <3>2 DEF Inverts, Results
    <3>4. Writes(r, T, out, T.nn[out].val) /\ (T.nn[out].val * v1) % P = 1
      BY <1>3, <3>1, <3>3 DEF Inverts
    <3> QED
      BY <2>3, <3>2, <3>4 DEF T
  <2> QED
    BY <2>2, <2>3
<1>6. IF v2 % P = 0 THEN ~DivStore(S, out, in1, in2).ok
      ELSE \E q \in 0..(P - 1) : /\ Writes(r, DivStore(S, out, in1, in2), out, q)
                                 /\ (q * v2) % P = v1 % P
  <2> DEFINE T == DivStore(S, out, in1, in2)
  <2>1. Divides(S, T, out, v1, v2)
    <3>1. Divides(S, T, out, S.nn[in1].val, S.nn[in2].val)
      BY ONLY <1>1, <1>4, in1 \in Regs, in2 \in Regs, MulRoom, DivComputes
    <3> QED
      BY <1>4, <3>1
  <2> HIDE DEF T
  <2>2. CASE v2 % P = 0
    <3>1. ~T.ok
      BY <2>1, <2>2 DEF Divides
    <3> QED
      BY <2>2, <3>1 DEF T
  <2>3. CASE v2 % P # 0
    <3>1. Elem(T.nn[out]) /\ T.nn[out].val \in 0..(P - 1)
      BY <2>1, SmallElem DEF Divides
    <3>2. Results(S, T, out, T.nn[out].val)
      BY <2>1, <2>3, <3>1 DEF Divides, Results
    <3>3. Writes(r, T, out, T.nn[out].val) /\ (T.nn[out].val * v2) % P = v1 % P
      BY <1>3, <2>1, <2>3, <3>2 DEF Divides
    <3> QED
      BY <2>3, <3>1, <3>3 DEF T
  <2> QED
    BY <2>2, <2>3
<1>7. IF v2 % P = 0 THEN ~DivMontyStore(S, out, in1, in2).ok
      ELSE \E q \in 0..(P - 1) : /\ Writes(r, DivMontyStore(S, out, in1, in2), out, (q * R) % P)
                                 /\ (q * v2) % P = v1 % P
  <2> DEFINE T == DivMontyStore(S, out, in1, in2)
  <2>1. MontyDivides(S, T, out, v1, v2)
    <3>1. MontyDivides(S, T, out, S.nn[in1].val, S.nn[in2].val)
      BY ONLY <1>1, <1>4, in1 \in Regs, in2 \in Regs, MulRoom, DivMontyComputes
    <3> QED
      BY <1>4, <3>1
  <2> HIDE DEF T
  <2>2. CASE v2 % P = 0
    <3>1. ~T.ok
      BY <2>1, <2>2 DEF MontyDivides
    <3> QED
      BY <2>2, <3>1 DEF T
  <2>3. CASE v2 % P # 0
    <3>1. PICK q \in 0..(P - 1) : (q * v2) % P = v1 % P /\ T.nn[out].val = (q * R) % P
      BY <2>1, <2>3 DEF MontyDivides
    <3>2. Results(S, T, out, (q * R) % P)
      BY <2>1, <2>3, <3>1 DEF MontyDivides, Results
    <3>3. Writes(r, T, out, (q * R) % P)
      BY <1>3, <3>2
    <3> QED
      BY <2>3, <3>1, <3>3 DEF T
  <2> QED
    BY <2>2, <2>3
<1>8. \A exp \in Exponents \ {0} : Writes(r, PowStore(S, out, in1, exp), out, ((v1 % P)^exp) % P)
  <2> TAKE exp \in Exponents \ {0}
  <2>1. exp \in Exponents /\ exp # 0
    OBVIOUS
  <2>2. Results(S, PowStore(S, out, in1, exp), out, ((S.nn[in1].val % P)^exp) % P)
    BY ONLY <1>1, <1>4, <2>1, PowComputes
  <2> QED
    BY <1>3, <1>4, <2>2
<1> QED
  BY <1>5, <1>6, <1>7, <1>8 DEF S

\* Elements that are set, copied or selected.
LEMMA SettingWrites ==
  ASSUME NEW r, Elems(r), NEW out \in Regs
  PROVE  /\ \A v \in 0..P, n \in {PWlen, PWlen + 1} :
              LET T == SetWlen(MustHave(Put(Store(r), out, [wlen |-> n, val |-> v]), v < P), out, PWlen)
              IN  T.ok => Writes(r, T, out, v)
         /\ \A v \in 0..P :
              LET T == MustHave(Put(Store(r), out, [wlen |-> PWlen, val |-> v]), v < P)
              IN  T.ok => Writes(r, T, out, v)
         /\ \A v \in 0..(P - 1) : Writes(r, Put(Store(r), out, [wlen |-> PWlen, val |-> v]), out, v)
         /\ \A in \in Regs : Writes(r, Put(Store(r), out, r[in]), out, r[in].val)
         /\ \A in \in Regs :
              Writes(r, Put(Store(r), out, [wlen |-> PWlen, val |-> Low(r[in], PWlen)]), out, r[in].val)
<1> DEFINE S == Store(r)
<1>1. S \in Stores /\ out \in Names /\ {out} \subseteq Scratch \cup {"inv", out}
      /\ \A x \in Regs : Elem(r[x]) /\ r[x].val \in 0..P
  <2>1. \A x \in Regs : r[x].val \in Nat /\ r[x].val <= P
    BY LowClean DEF Elems, Elem
  <2>2. S \in Stores /\ out \in Names
    BY StoreOfElems
  <2>3. P \in Nat
    BY RoomForSums
  <2> HIDE DEF S
  <2> QED
    BY <2>1, <2>2, <2>3 DEF Elems
<1>2. /\ P \in Nat /\ PWlen \in Nat /\ P < B^PWlen /\ B^PWlen \in Nat \ {0}
      /\ P < B^(PWlen + 1) /\ B^(PWlen + 1) \in Nat
      /\ PWlen \in 0..NN_MAX_WORD_LEN /\ PWlen + 1 \in 0..NN_MAX_WORD_LEN
  <2>1. /\ P \in Nat /\ PWlen \in Nat /\ P < B^PWlen /\ 2 * P < B^(PWlen + 1)
        /\ PWlen \in 0..NN_MAX_WORD_LEN /\ PWlen + 1 \in 0..NN_MAX_WORD_LEN
    BY RoomForSums
  <2>2. B^PWlen \in Nat \ {0} /\ B^(PWlen + 1) \in Nat
    BY <2>1, PowB
  <2> QED
    BY <2>1, <2>2
<1>3. \A v \in 0..P, n \in {PWlen, PWlen + 1} : Elem([wlen |-> n, val |-> v])
  BY <1>2 DEF Elem, Clean, Nn
<1>4. ASSUME NEW a, Elem(a)
      PROVE  /\ Computes(S, Put(S, out, a), {out}, out, a.val) /\ Put(S, out, a).nn[out] = a
             /\ Writes(r, Put(S, out, a), out, a.val)
  <2>1. Computes(S, Put(S, out, a), {out}, out, a.val) /\ Put(S, out, a).nn[out] = a
    BY ONLY <1>1, <1>4, PutElem
  <2> QED
    BY <1>1, <2>1, ComputesWrites
<1> HIDE DEF S
<1>5. ASSUME NEW v \in 0..P, NEW n \in {PWlen, PWlen + 1}
      PROVE  LET M == MustHave(Put(S, out, [wlen |-> n, val |-> v]), v < P)
                 T == SetWlen(M, out, PWlen)
             IN  /\ T.ok => Writes(r, T, out, v)
                 /\ M.ok => Writes(r, M, out, v)
  <2> DEFINE a == [wlen |-> n, val |-> v]
             U == Put(S, out, a)
             M == MustHave(U, v < P)
             T == SetWlen(M, out, PWlen)
  <2>1. Elem(a) /\ a.val = v
    BY <1>3
  <2> HIDE DEF a
  <2>2. Computes(S, U, {out}, out, v) /\ U.nn[out] = a /\ Writes(r, U, out, v)
    BY <1>4, <2>1
  <2>3. U \in Stores /\ (v < P) \in BOOLEAN
    BY <2>2 DEF Writes
  <2> HIDE DEF U
  <2>4. M \in Stores /\ M.nn = U.nn /\ M.ok = (U.ok /\ v < P)
    BY <2>3, MustHaveKeeps
  <2> HIDE DEF M
  <2>5. M.ok => Writes(r, M, out, v)
    BY <2>2, <2>4 DEF Writes
  <2>6. Clean(M.nn[out]) /\ M.nn[out].val <= P /\ M.nn[out].val = v
    BY <2>1, <2>2, <2>4 DEF Elem
  <2>7. Computes(M, T, {out}, out, v)
    BY <1>1, <2>4, <2>6, SetWlenComputes
  <2> HIDE DEF T
  <2>8. T.ok => Writes(r, T, out, v)
    <3>1. \A x \in Regs \ {out} : x \in Names \ {out}
      BY DEF Names
    <3> QED
      BY <2>2, <2>4, <2>7, <3>1 DEF Computes, Sets, Writes
  <2> QED
    BY <2>5, <2>8 DEF T, M, U, a
<1>6. \A in \in Regs : Low(r[in], PWlen) = r[in].val
  <2> TAKE in \in Regs
  <2> DEFINE v == r[in].val
             W == B^PWlen
  <2>1. v \in 0..(W - 1) /\ W \in Nat \ {0}
    BY <1>1, <1>2
  <2> HIDE DEF W
  <2>2. v % W = v
    <3> HIDE DEF v
    <3> QED
      BY ONLY <2>1, SmallMod
  <2> QED
    BY <2>2 DEF Low, W
<1>7. \A v \in 0..P : Writes(r, Put(S, out, [wlen |-> PWlen, val |-> v]), out, v)
  <2> TAKE v \in 0..P
  <2> DEFINE a == [wlen |-> PWlen, val |-> v]
  <2>1. Elem(a) /\ a.val = v
    BY <1>3
  <2> HIDE DEF a
  <2>2. Writes(r, Put(S, out, a), out, v)
    BY <1>4, <2>1
  <2> QED
    BY <2>2 DEF a
<1>8. \A in \in Regs : Writes(r, Put(S, out, r[in]), out, r[in].val)
  BY <1>1, <1>4
<1>9. \A in \in Regs : Writes(r, Put(S, out, [wlen |-> PWlen, val |-> Low(r[in], PWlen)]), out, r[in].val)
  BY <1>1, <1>6, <1>7
<1>10. \A v \in 0..(P - 1) : v \in 0..P
  BY <1>2
<1>11. \A v \in 0..(P - 1) : Writes(r, Put(S, out, [wlen |-> PWlen, val |-> v]), out, v)
  BY <1>7, <1>10
<1> QED
  BY <1>5, <1>8, <1>9, <1>11 DEF S

-----------------------------------------------------------------------------
(* The inductive invariant.                                                  *)

\* The three invariants of the elements hold together.
IInv == TypeOK /\ WidthBounded /\ ValueBounded

LEMMA InvariantIsElems ==
  /\ IInv <=> exited \in BOOLEAN /\ Elems(reg)
  /\ IInv' <=> exited' \in BOOLEAN /\ Elems(reg')
BY ElemsAreBounded DEF IInv, TypeOK, WidthBounded, ValueBounded

\* An operation that returns leaves elements, and one that stops changes none.
LEMMA ReturnsKeeps ==
  ASSUME Elems(reg), exited \in BOOLEAN, NEW T, NEW out \in Regs, Returns(T),
         T.ok => \E v : Writes(reg, T, out, v)
  PROVE  Elems(reg') /\ exited' \in BOOLEAN
<1>1. CASE T.ok
  <2>1. PICK v : Writes(reg, T, out, v)
    BY <1>1
  <2>2. reg' = [x \in Regs |-> T.nn[x]] /\ exited' = exited
    BY <1>1 DEF Returns
  <2>3. \A x \in Regs : Elem(T.nn[x])
    BY <2>1 DEF Writes, Elems
  <2>4. \A x \in Regs : T.nn[x] \in Nn
    BY <2>3 DEF Elem, Clean
  <2> QED
    BY <2>2, <2>3, <2>4 DEF Elems
<1>2. CASE ~T.ok
  BY <1>2 DEF Returns
<1> QED
  BY <1>1, <1>2

LEMMA InitialElems == Init => IInv
<1> SUFFICES ASSUME Init
             PROVE  exited \in BOOLEAN /\ Elems(reg)
  BY InvariantIsElems
<1>1. Clean(nn_init(PWlen)) /\ nn_init(PWlen).wlen = PWlen /\ nn_init(PWlen).val = 0
  BY RoomForSums, InitClean
<1>2. Elem(nn_init(PWlen)) /\ nn_init(PWlen) \in Nn
  BY <1>1, RoomForSums DEF Elem, Clean
<1> QED
  BY <1>2 DEF Init, Elems

\* Every operation keeps the invariant.
LEMMA StepKeepsElems ==
  ASSUME Room, MulRoom, IInv, [Next]_vars
  PROVE  IInv'
<1> SUFFICES exited' \in BOOLEAN /\ Elems(reg')
  BY InvariantIsElems
<1>1. exited \in BOOLEAN /\ Elems(reg)
  BY InvariantIsElems
<1>2. CASE UNCHANGED vars
  BY <1>1, <1>2 DEF vars
<1>3. ASSUME NEW out \in Regs, NEW v \in 0..P, NEW n \in {PWlen, PWlen + 1}, fp_set_nn(out, v, n)
      PROVE  exited' \in BOOLEAN /\ Elems(reg')
  BY <1>1, <1>3, SettingWrites, ReturnsKeeps DEF fp_set_nn
<1>4. ASSUME NEW out \in Regs, NEW v \in 0..P, fp_import_from_buf(out, v)
      PROVE  exited' \in BOOLEAN /\ Elems(reg')
  BY <1>1, <1>4, SettingWrites, ReturnsKeeps DEF fp_import_from_buf
<1>5. ASSUME NEW out \in Regs, NEW v \in 0..(P - 1), fp_get_random(out, v)
      PROVE  exited' \in BOOLEAN /\ Elems(reg')
  BY <1>1, <1>5, SettingWrites, ReturnsKeeps DEF fp_get_random
<1>6. ASSUME NEW out \in Regs, NEW in \in Regs, fp_copy(out, in)
      PROVE  exited' \in BOOLEAN /\ Elems(reg')
  BY <1>1, <1>6, SettingWrites, ReturnsKeeps DEF fp_copy
<1>7. ASSUME NEW out \in Regs, NEW in \in Regs, fp_tabselect(out, in)
      PROVE  exited' \in BOOLEAN /\ Elems(reg')
  BY <1>1, <1>7, SettingWrites, ReturnsKeeps DEF fp_tabselect
<1>8. ASSUME NEW out \in Regs, NEW in \in Regs, fp_inc(out, in)
      PROVE  exited' \in BOOLEAN /\ Elems(reg')
  BY <1>1, <1>8, AdditionWrites, ReturnsKeeps DEF fp_inc
<1>9. ASSUME NEW out \in Regs, NEW in \in Regs, fp_dec(out, in)
      PROVE  exited' \in BOOLEAN /\ Elems(reg')
  BY <1>1, <1>9, AdditionWrites, ReturnsKeeps DEF fp_dec
<1>10. ASSUME NEW out \in Regs, NEW in \in Regs, fp_neg(out, in)
       PROVE  exited' \in BOOLEAN /\ Elems(reg')
  BY <1>1, <1>10, AdditionWrites, ReturnsKeeps DEF fp_neg
<1>11. ASSUME NEW out \in Regs, NEW in \in Regs, fp_redcify(out, in)
       PROVE  exited' \in BOOLEAN /\ Elems(reg')
  BY <1>1, <1>11, ProductWrites, ReturnsKeeps DEF fp_redcify
<1>12. ASSUME NEW out \in Regs, NEW in \in Regs, fp_unredcify(out, in)
       PROVE  exited' \in BOOLEAN /\ Elems(reg')
  BY <1>1, <1>12, ProductWrites, ReturnsKeeps DEF fp_unredcify
<1>13. ASSUME NEW out \in Regs, NEW in \in Regs, fp_inv(out, in)
       PROVE  exited' \in BOOLEAN /\ Elems(reg')
  BY <1>1, <1>13, QuotientWrites, ReturnsKeeps DEF fp_inv
<1>14. ASSUME NEW out \in Regs, NEW in \in Regs, NEW exp \in Exponents, fp_pow(out, in, exp)
       PROVE  exited' \in BOOLEAN /\ Elems(reg')
  <2>1. CASE exp = 0
    <3> DEFINE T == PowStore(Store(reg), out, in, exp)
    <3>1. Store(reg) \in Stores
      BY <1>1, StoreOfElems
    <3>2. ~T.ok
      BY <2>1, <3>1, MustHaveKeeps DEF PowStore
    <3> HIDE DEF T
    <3>3. Returns(T)
      BY <1>14 DEF fp_pow, T
    <3> QED
      BY <1>1, <3>2, <3>3, ReturnsKeeps
  <2>2. CASE exp # 0
    <3>1. exp \in Exponents \ {0}
      BY <2>2
    <3> DEFINE T == PowStore(Store(reg), out, in, exp)
    <3>2. \A e \in Exponents \ {0} :
            Writes(reg, PowStore(Store(reg), out, in, e), out, ((reg[in].val % P)^e) % P)
      BY ONLY <1>1, out \in Regs, in \in Regs, MulRoom, QuotientWrites
    <3>3. \E v : Writes(reg, T, out, v)
      BY <3>1, <3>2
    <3> HIDE DEF T
    <3>4. Returns(T)
      BY <1>14 DEF fp_pow, T
    <3> QED
      BY <1>1, <3>3, <3>4, ReturnsKeeps
  <2> QED
    BY <2>1, <2>2
<1>15. ASSUME NEW out \in Regs, NEW in1 \in Regs, NEW in2 \in Regs, fp_add(out, in1, in2)
       PROVE  exited' \in BOOLEAN /\ Elems(reg')
  BY <1>1, <1>15, AdditionWrites, ReturnsKeeps DEF fp_add
<1>16. ASSUME NEW out \in Regs, NEW in1 \in Regs, NEW in2 \in Regs, fp_sub(out, in1, in2)
       PROVE  exited' \in BOOLEAN /\ Elems(reg')
  BY <1>1, <1>16, AdditionWrites, ReturnsKeeps DEF fp_sub
<1>17. ASSUME NEW out \in Regs, NEW in1 \in Regs, NEW in2 \in Regs, fp_mul_redc1(out, in1, in2)
       PROVE  exited' \in BOOLEAN /\ Elems(reg')
  BY <1>1, <1>17, ProductWrites, ReturnsKeeps DEF fp_mul_redc1
<1>18. ASSUME NEW out \in Regs, NEW in1 \in Regs, NEW in2 \in Regs, fp_mul(out, in1, in2)
       PROVE  exited' \in BOOLEAN /\ Elems(reg')
  BY <1>1, <1>18, ProductWrites, ReturnsKeeps DEF fp_mul
<1>19. ASSUME NEW out \in Regs, NEW in1 \in Regs, NEW in2 \in Regs, fp_div(out, in1, in2)
       PROVE  exited' \in BOOLEAN /\ Elems(reg')
  BY <1>1, <1>19, QuotientWrites, ReturnsKeeps DEF fp_div
<1>20. ASSUME NEW out \in Regs, NEW in1 \in Regs, NEW in2 \in Regs, fp_div_monty(out, in1, in2)
       PROVE  exited' \in BOOLEAN /\ Elems(reg')
  BY <1>1, <1>20, QuotientWrites, ReturnsKeeps DEF fp_div_monty
<1> QED
  BY <1>2, <1>3, <1>4, <1>5, <1>6, <1>7, <1>8, <1>9, <1>10, <1>11, <1>12, <1>13, <1>14, <1>15,
     <1>16, <1>17, <1>18, <1>19, <1>20 DEF Next

\* Every reachable register holds an element.
THEOREM Inductive ==
  ASSUME Room, MulRoom
  PROVE  Spec => []IInv
<1>1. Init => IInv
  BY InitialElems
<1>2. IInv /\ [Next]_vars => IInv'
  BY StepKeepsElems
<1> QED
  BY <1>1, <1>2, PTL DEF Spec

\* What every register holds has the type of an nn.
THEOREM TypeCorrect ==
  ASSUME Room, MulRoom
  PROVE  Spec => []TypeOK
<1>1. IInv => TypeOK
  BY DEF IInv
<1> QED
  BY <1>1, Inductive, PTL

\* The words past the length of an element are zero, and no element is longer
\* than one word more than p.
THEOREM WidthIsBounded ==
  ASSUME Room, MulRoom
  PROVE  Spec => []WidthBounded
<1>1. IInv => WidthBounded
  BY DEF IInv
<1> QED
  BY <1>1, Inductive, PTL

\* No element exceeds p.
THEOREM ValueIsBounded ==
  ASSUME Room, MulRoom
  PROVE  Spec => []ValueBounded
<1>1. IInv => ValueBounded
  BY DEF IInv
<1> QED
  BY <1>1, Inductive, PTL

-----------------------------------------------------------------------------
(* The operations compute in the field.                                      *)

\* Numbers that differ by a multiple of p have the same residue.
LEMMA SameResidue ==
  ASSUME NEW a \in Int, NEW b \in Int, NEW k \in Int, a = b + P * k
  PROVE  a % P = b % P
<1>1. P \in Nat \ {0}
  BY RoomForSums
<1> DEFINE q == b \div P
           m == b % P
<1>2. q \in Int /\ m \in 0..(P - 1) /\ b = P * q + m
  BY ONLY <1>1, b \in Int, SMT
<1> HIDE DEF q, m
<1>3. a = P * (q + k) + m
  BY ONLY <1>1, <1>2, k \in Int, a = b + P * k
<1> DEFINE j == q + k
<1>4. j \in Int /\ a = P * j + m
  BY ONLY <1>2, <1>3, k \in Int
<1> HIDE DEF j
<1>5. a % P = m
  BY ONLY <1>1, <1>2, <1>4, a \in Int, SMT
<1> QED
  BY <1>5 DEF m

\* Residues of the registers.
LEMMA ResidueFacts ==
  ASSUME Elems(reg), NEW x \in Regs
  PROVE  /\ reg[x].val \in 0..P /\ Value(reg[x]) = reg[x].val
         /\ Residue(x) = reg[x].val % P /\ Residue(x) \in 0..(P - 1)
         /\ \E k \in Nat : reg[x].val = Residue(x) + P * k
<1> DEFINE v == reg[x].val
<1>1. P \in Nat \ {0}
  BY RoomForSums
<1>2. Value(reg[x]) = v /\ v \in Nat /\ v <= P
  BY LowClean DEF Elems, Elem
<1>3. Residue(x) = v % P
  BY <1>2 DEF Residue
<1> HIDE DEF v
<1>4. v % P \in 0..(P - 1) /\ v = P * (v \div P) + (v % P) /\ v \div P \in Nat
  BY ONLY <1>1, <1>2, DivMod
<1> DEFINE k == v \div P
           m == v % P
<1>5. k \in Nat /\ m \in Nat /\ v = P * k + m
  BY <1>1, <1>4
<1> HIDE DEF k, m
<1>6. v = m + P * k
  BY ONLY <1>1, <1>5
<1>7. v \in 0..P /\ m \in 0..(P - 1) /\ Residue(x) = m
  BY <1>1, <1>2, <1>3, <1>4 DEF m
<1>8. \E j \in Nat : v = Residue(x) + P * j
  BY <1>5, <1>6, <1>7
<1> QED
  BY <1>2, <1>3, <1>7, <1>8 DEF v

\* An operation that writes v gives what is congruent to v.
LEMMA WritesGives ==
  ASSUME NEW T, NEW out \in Regs, NEW v, NEW w, Writes(reg, T, out, v), v % P = w % P
  PROVE  Gives(T, out, w)
<1>1. Value(T.nn[out]) = v
  BY LowClean DEF Writes, Elem
<1> QED
  BY <1>1 DEF Gives, Writes

LEMMA AdditionsAreCorrect == IInv => AdditionsCorrect
<1> SUFFICES ASSUME IInv, NEW out \in Regs, NEW in1 \in Regs, NEW in2 \in Regs
             PROVE  LET S == Store(reg) IN
                    /\ Gives(nn_mod_add(S, out, in1, in2), out, Residue(in1) + Residue(in2))
                    /\ Gives(nn_mod_sub(S, out, in1, in2), out, Residue(in1) - Residue(in2))
                    /\ Gives(nn_mod_inc(S, out, in1), out, Residue(in1) + 1)
                    /\ Gives(nn_mod_dec(S, out, in1), out, Residue(in1) - 1)
                    /\ Gives(NegStore(S, out, in1), out, -Residue(in1))
  BY DEF AdditionsCorrect
<1> DEFINE v1 == reg[in1].val
           v2 == reg[in2].val
           r1 == Residue(in1)
           r2 == Residue(in2)
<1>1. Elems(reg)
  BY InvariantIsElems
<1>2. P \in Nat \ {0} /\ P > 2
  BY RoomForSums
<1>3. /\ v1 \in 0..P /\ v2 \in 0..P /\ r1 \in 0..(P - 1) /\ r2 \in 0..(P - 1)
      /\ \E k \in Nat : v1 = r1 + P * k
      /\ \E k \in Nat : v2 = r2 + P * k
  BY <1>1, ResidueFacts
<1>4. PICK k1 \in Nat : v1 = r1 + P * k1
  BY <1>3
<1>5. PICK k2 \in Nat : v2 = r2 + P * k2
  BY <1>3
<1>6. /\ Writes(reg, nn_mod_add(Store(reg), out, in1, in2), out, Reduced(v1 + v2))
      /\ Writes(reg, nn_mod_sub(Store(reg), out, in1, in2), out,
                (v1 - v2) + (IF v1 < v2 THEN P ELSE 0))
      /\ Writes(reg, nn_mod_inc(Store(reg), out, in1), out, Reduced(v1 + 1))
      /\ Writes(reg, nn_mod_dec(Store(reg), out, in1), out, (IF v1 = 0 THEN P ELSE v1) - 1)
      /\ Writes(reg, NegStore(Store(reg), out, in1), out, P - v1)
  BY <1>1, AdditionWrites
<1> HIDE DEF v1, v2, r1, r2
<1>7. v1 \in Int /\ v2 \in Int /\ r1 \in Int /\ r2 \in Int /\ k1 \in Int /\ k2 \in Int /\ P \in Int
  BY ONLY <1>2, <1>3, <1>4, <1>5
<1>8. Reduced(v1 + v2) % P = (r1 + r2) % P
  <2> DEFINE a == Reduced(v1 + v2)
             b == r1 + r2
             k == (k1 + k2) - (IF v1 + v2 < P THEN 0 ELSE 1)
  <2>1. a \in Int /\ b \in Int /\ k \in Int /\ a = b + P * k
    BY <1>4, <1>5, <1>7 DEF Reduced
  <2> HIDE DEF a, b, k
  <2>2. a % P = b % P
    BY ONLY <2>1, SameResidue
  <2> QED
    BY <2>2 DEF a, b
<1>9. ((v1 - v2) + (IF v1 < v2 THEN P ELSE 0)) % P = (r1 - r2) % P
  <2> DEFINE a == (v1 - v2) + (IF v1 < v2 THEN P ELSE 0)
             b == r1 - r2
             k == (k1 - k2) + (IF v1 < v2 THEN 1 ELSE 0)
  <2>1. a \in Int /\ b \in Int /\ k \in Int /\ a = b + P * k
    BY <1>4, <1>5, <1>7
  <2> HIDE DEF a, b, k
  <2>2. a % P = b % P
    BY ONLY <2>1, SameResidue
  <2> QED
    BY <2>2 DEF a, b
<1>10. Reduced(v1 + 1) % P = (r1 + 1) % P
  <2> DEFINE a == Reduced(v1 + 1)
             b == r1 + 1
             k == k1 - (IF v1 + 1 < P THEN 0 ELSE 1)
  <2>1. a \in Int /\ b \in Int /\ k \in Int /\ a = b + P * k
    BY <1>4, <1>7 DEF Reduced
  <2> HIDE DEF a, b, k
  <2>2. a % P = b % P
    BY ONLY <2>1, SameResidue
  <2> QED
    BY <2>2 DEF a, b
<1>11. ((IF v1 = 0 THEN P ELSE v1) - 1) % P = (r1 - 1) % P
  <2> DEFINE a == (IF v1 = 0 THEN P ELSE v1) - 1
             b == r1 - 1
             k == k1 + (IF v1 = 0 THEN 1 ELSE 0)
  <2>1. a \in Int /\ b \in Int /\ k \in Int /\ a = b + P * k
    BY <1>4, <1>7
  <2> HIDE DEF a, b, k
  <2>2. a % P = b % P
    BY ONLY <2>1, SameResidue
  <2> QED
    BY <2>2 DEF a, b
<1>12. (P - v1) % P = (-r1) % P
  <2> DEFINE a == P - v1
             b == -r1
             k == 1 - k1
  <2>1. a \in Int /\ b \in Int /\ k \in Int /\ a = b + P * k
    BY <1>4, <1>7
  <2> HIDE DEF a, b, k
  <2>2. a % P = b % P
    BY ONLY <2>1, SameResidue
  <2> QED
    BY <2>2 DEF a, b
<1> QED
  BY <1>6, <1>8, <1>9, <1>10, <1>11, <1>12, WritesGives DEF r1, r2

\* Sums, differences and opposites are those of the field, in every state.
THEOREM AdditionsHold ==
  ASSUME Room, MulRoom
  PROVE  Spec => []AdditionsCorrect
BY AdditionsAreCorrect, Inductive, PTL

LEMMA EqOrOppIsCorrect == IInv => EqOrOppCorrect
<1> SUFFICES ASSUME IInv, NEW in1 \in Regs, NEW in2 \in Regs
             PROVE  fp_eq_or_opp(in1, in2) <=>
                      \/ Residue(in1) = Residue(in2)
                      \/ (Residue(in1) + Residue(in2)) % P = 0
  BY DEF EqOrOppCorrect
<1> DEFINE v1 == reg[in1].val
           v2 == reg[in2].val
           r1 == Residue(in1)
           r2 == Residue(in2)
           S == Store(reg)
           T == NegStore(S, "cpy", in2)
<1>1. Elems(reg)
  BY InvariantIsElems
<1>2. P \in Nat \ {0} /\ P > 2
  BY RoomForSums
<1>3. /\ v1 \in 0..P /\ v2 \in 0..P /\ r1 = v1 % P /\ r2 = v2 % P
  BY <1>1, ResidueFacts
<1>4. ASSUME NEW v \in 0..P
      PROVE  v % P = IF v = P THEN 0 ELSE v
  <2>1. CASE v = P
    <3>1. 0 \in 0..(P - 1) /\ v \in Nat /\ 1 \in Nat /\ v = P * 1 + 0
      BY <1>2, <2>1
    <3>2. v % P = 0
      BY ONLY <1>2, <3>1, DivUnique
    <3> QED
      BY <2>1, <3>2
  <2>2. CASE v # P
    <3>1. v \in 0..(P - 1)
      BY <1>2, <2>2
    <3>2. v % P = v
      BY ONLY <1>2, <3>1, SmallMod
    <3> QED
      BY <2>2, <3>2
  <2> QED
    BY <2>1, <2>2
<1>5. r1 = (IF v1 = P THEN 0 ELSE v1) /\ r2 = (IF v2 = P THEN 0 ELSE v2)
  <2> HIDE DEF v1, v2, r1, r2
  <2> QED
    BY <1>3, <1>4
<1>6. Clean(reg[in1]) /\ Clean(reg[in2]) /\ Clean(T.nn["cpy"]) /\ T.nn["cpy"].val = P - v2
  <2>1. Context(S) /\ in2 \in Names /\ S.nn[in2] = reg[in2] /\ Elem(S.nn[in2])
    BY <1>1, StoreOfElems
  <2>2. "cpy" \in Outs
    BY ScratchNames DEF Scratch
  <2> HIDE DEF S
  <2>3. Computes(S, T, {"cpy"}, "cpy", P - S.nn[in2].val)
    BY ONLY <2>1, <2>2, NegComputes
  <2> HIDE DEF T
  <2> QED
    BY <1>1, <2>1, <2>3 DEF Computes, Elem, Elems
<1> DEFINE a == reg[in1]
           b == reg[in2]
           c == T.nn["cpy"]
<1>7. fp_eq_or_opp(in1, in2) <=> nn_equal(a, b) \/ nn_equal(a, c)
  BY DEF fp_eq_or_opp
<1>8. nn_equal(a, b) <=> v1 = v2
  <2>1. nn_equal(a, b) <=> a.val = b.val
    <3> HIDE DEF a, b
    <3> QED
      BY ONLY <1>6, CompareClean DEF a, b
  <2> QED
    BY <2>1
<1> HIDE DEF T
<1>9. nn_equal(a, c) <=> v1 = P - v2
  <2>1. Clean(a) /\ Clean(c) /\ c.val = P - v2 /\ a.val = v1
    BY <1>6
  <2> HIDE DEF a, c
  <2>2. nn_equal(a, c) <=> a.val = c.val
    BY ONLY <2>1, CompareClean
  <2> QED
    BY <2>1, <2>2
<1> HIDE DEF v1, v2, r1, r2, a, b, c, S
<1> DEFINE s == r1 + r2
<1>10. s % P = 0 <=> s = 0 \/ s = P
  <2>1. s \in Nat /\ s < 2 * P
    BY ONLY <1>2, <1>3, <1>5
  <2> HIDE DEF s
  <2>2. CASE s <= P
    <3>1. s % P = IF s = P THEN 0 ELSE s
      <4>1. s \in 0..P
        BY <1>2, <2>1, <2>2
      <4> QED
        BY ONLY <1>4, <4>1
    <3> QED
      BY ONLY <1>2, <2>1, <2>2, <3>1
  <2>3. CASE s > P
    <3> DEFINE t == s - P
    <3>1. t \in 0..(P - 1) /\ 1 \in Nat /\ s = P * 1 + t /\ t # 0
      BY ONLY <1>2, <2>1, <2>3
    <3> HIDE DEF t
    <3>2. s % P = t
      BY ONLY <1>2, <2>1, <3>1, DivUnique
    <3> QED
      BY ONLY <1>2, <2>1, <2>3, <3>1, <3>2
  <2> QED
    BY ONLY <1>2, <2>1, <2>2, <2>3
<1>11. v1 = v2 \/ v1 = P - v2 <=> r1 = r2 \/ s = 0 \/ s = P
  BY ONLY <1>2, <1>3, <1>5
<1> QED
  BY <1>7, <1>8, <1>9, <1>10, <1>11 DEF r1, r2

\* fp_eq_or_opp compares in the field, in every state.
THEOREM EqOrOppHolds ==
  ASSUME Room, MulRoom
  PROVE  Spec => []EqOrOppCorrect
BY EqOrOppIsCorrect, Inductive, PTL

LEMMA ModMod ==
  ASSUME NEW n \in Nat
  PROVE  (n % P) % P = n % P /\ n % P \in 0..(P - 1) /\ n % P \in Nat
<1>1. P \in Nat \ {0}
  BY RoomForSums
<1> DEFINE m == n % P
<1>2. m \in 0..(P - 1)
  BY ONLY <1>1, n \in Nat, DivMod
<1> HIDE DEF m
<1>3. m % P = m /\ m \in Nat
  BY ONLY <1>1, <1>2, SmallMod
<1> QED
  BY <1>2, <1>3 DEF m

\* Quotients in the field are unique.
Ratio(n, d) == CHOOSE w \in 0..(P - 1) : (w * d) % P = n % P

LEMMA RatioUnique ==
  ASSUME NEW n \in Nat, NEW d \in Nat, d % P # 0, NEW v \in 0..(P - 1), (v * d) % P = n % P
  PROVE  Ratio(n, d) = v
<1> DEFINE w == Ratio(n, d)
<1>1. P \in Nat \ {0}
  BY RoomForSums
<1>2. w \in 0..(P - 1) /\ (w * d) % P = n % P
  BY DEF Ratio
<1> HIDE DEF w
<1>3. w \in Nat /\ v \in Nat
  BY <1>1, <1>2
<1>4. (w * d) % P = (v * d) % P
  BY <1>2
<1>5. w % P = v % P
  BY ONLY <1>3, <1>4, d \in Nat, d % P # 0, CancelP
<1>6. w % P = w /\ v % P = v
  BY ONLY <1>1, <1>2, v \in 0..(P - 1), SmallMod
<1> QED
  BY <1>5, <1>6 DEF w

\* The products that ProductsCorrect names.
LEMMA ProductsAreCorrect ==
  ASSUME Room, MulRoom, IInv, NEW out \in Regs, NEW in1 \in Regs, NEW in2 \in Regs
  PROVE  LET S == Store(reg) IN
         /\ Gives(nn_mul_redc1(S, out, in1, in2), out, Ratio(Residue(in1) * Residue(in2), R))
         /\ Gives(MulStore(S, out, in1, in2), out, Residue(in1) * Residue(in2))
         /\ Gives(nn_mul_redc1(S, out, in1, "r_square"), out, Residue(in1) * R)
         /\ Gives(nn_mul_redc1(S, out, in1, "one"), out, Ratio(Residue(in1), R))
<1> DEFINE S == Store(reg)
           v1 == reg[in1].val
           v2 == reg[in2].val
           r1 == Residue(in1)
           r2 == Residue(in2)
           v12 == v1 * v2
           r12 == r1 * r2
<1>1. Elems(reg)
  BY InvariantIsElems
<1>2. P \in Nat \ {0} /\ R \in Nat
  BY RoomForSums, ConstantTypes
<1>3. R % P # 0
  BY PowersNotZero, RoomForSums DEF R
<1>4. /\ v1 \in 0..P /\ v2 \in 0..P /\ r1 = v1 % P /\ r2 = v2 % P
      /\ r1 \in 0..(P - 1) /\ r2 \in 0..(P - 1)
  BY <1>1, ResidueFacts
<1>5. /\ \E v \in 0..(P - 1) :
           Writes(reg, nn_mul_redc1(S, out, in1, in2), out, v) /\ (v * R) % P = v12 % P
      /\ Writes(reg, nn_mul_redc1(S, out, in1, "r_square"), out, (v1 * R) % P)
      /\ \E v \in 0..(P - 1) :
           Writes(reg, nn_mul_redc1(S, out, in1, "one"), out, v) /\ (v * R) % P = v1 % P
      /\ Writes(reg, MulStore(S, out, in1, in2), out, v12 % P)
  BY <1>1, ProductWrites
<1> HIDE DEF S, v1, v2, r1, r2
<1>6. v1 \in Nat /\ v2 \in Nat /\ r1 \in Nat /\ r2 \in Nat
  BY ONLY <1>2, <1>4
<1>7. v12 \in Nat /\ r12 \in Nat /\ r12 % P = v12 % P
  <2>1. ((v1 % P) * r2) % P = (v1 * r2) % P
    BY ONLY <1>2, <1>6, ModMul
  <2>2. ((v2 % P) * v1) % P = (v2 * v1) % P
    BY ONLY <1>2, <1>6, ModMul
  <2>3. v1 * r2 = r2 * v1 /\ v2 * v1 = v1 * v2
    BY ONLY <1>6
  <2>4. (v1 * v2) % P = (r1 * r2) % P
    BY ONLY <1>4, <2>1, <2>2, <2>3
  <2>5. v12 \in Nat /\ r12 \in Nat
    BY ONLY <1>6 DEF v12, r12
  <2> QED
    BY <2>4, <2>5
<1> HIDE DEF v12, r12
<1>8. Gives(nn_mul_redc1(S, out, in1, in2), out, Ratio(r12, R))
  <2>1. PICK v \in 0..(P - 1) :
          Writes(reg, nn_mul_redc1(S, out, in1, in2), out, v) /\ (v * R) % P = v12 % P
    BY <1>5
  <2>2. (v * R) % P = r12 % P
    BY <1>7, <2>1
  <2>3. Ratio(r12, R) = v
    BY ONLY <1>2, <1>3, <1>7, <2>2, RatioUnique
  <2> QED
    BY <2>1, <2>3, WritesGives
<1>9. Gives(nn_mul_redc1(S, out, in1, "one"), out, Ratio(r1, R))
  <2>1. PICK v \in 0..(P - 1) :
          Writes(reg, nn_mul_redc1(S, out, in1, "one"), out, v) /\ (v * R) % P = v1 % P
    BY <1>5
  <2>2. r1 % P = v1 % P
    BY <1>4, <1>6, ModMod
  <2>3. (v * R) % P = r1 % P
    BY <2>1, <2>2
  <2>4. Ratio(r1, R) = v
    BY ONLY <1>2, <1>3, <1>6, <2>3, RatioUnique
  <2> QED
    BY <2>1, <2>4, WritesGives
<1>10. Gives(nn_mul_redc1(S, out, in1, "r_square"), out, r1 * R)
  <2>1. ((v1 % P) * R) % P = (v1 * R) % P
    BY ONLY <1>2, <1>6, ModMul
  <2>2. v1 * R \in Nat
    BY ONLY <1>2, <1>6
  <2>3. ((v1 * R) % P) % P = (r1 * R) % P
    BY <1>4, <2>1, <2>2, ModMod
  <2> DEFINE a == (v1 * R) % P
             b == r1 * R
  <2>4. Writes(reg, nn_mul_redc1(S, out, in1, "r_square"), out, a) /\ a % P = b % P
    BY <1>5, <2>3
  <2> HIDE DEF a, b
  <2>5. Gives(nn_mul_redc1(S, out, in1, "r_square"), out, b)
    BY <2>4, WritesGives
  <2> QED
    BY <2>5 DEF b
<1>11. Gives(MulStore(S, out, in1, in2), out, r12)
  <2> DEFINE a == v12 % P
  <2>1. Writes(reg, MulStore(S, out, in1, in2), out, a) /\ a % P = r12 % P
    BY <1>5, <1>7, ModMod
  <2> HIDE DEF a
  <2> QED
    BY <2>1, WritesGives
<1> QED
  BY <1>8, <1>9, <1>10, <1>11 DEF S, r1, r2, r12

\* The quotients and powers that ProductsCorrect names.
LEMMA QuotientsAreCorrect ==
  ASSUME MulRoom, IInv, NEW out \in Regs, NEW in1 \in Regs
  PROVE  LET S == Store(reg) IN
         /\ IF Residue(in1) = 0 THEN ~DivMontyStore(S, out, out, in1).ok
            ELSE Gives(DivMontyStore(S, out, out, in1), out, Ratio(Residue(out), Residue(in1)) * R)
         /\ IF Residue(in1) = 0 \/ out = in1 THEN ~InverseStore(S, out, in1).ok
            ELSE Gives(InverseStore(S, out, in1), out, Ratio(1, Residue(in1)))
         /\ \A exp \in Exponents \ {0} :
              Gives(PowStore(S, out, in1, exp), out, Residue(in1)^exp)
<1> DEFINE S == Store(reg)
           v1 == reg[in1].val
           v2 == reg[out].val
           r1 == Residue(in1)
           r2 == Residue(out)
<1>1. Elems(reg)
  BY InvariantIsElems
<1>2. P \in Nat \ {0} /\ P > 2 /\ R \in Nat
  BY RoomForSums, ConstantTypes
<1>3. /\ v1 \in 0..P /\ v2 \in 0..P /\ r1 = v1 % P /\ r2 = v2 % P
      /\ r1 \in 0..(P - 1) /\ r2 \in 0..(P - 1)
  BY <1>1, ResidueFacts
<1>4. /\ IF out = in1 \/ v1 % P = 0 THEN ~InverseStore(S, out, in1).ok
         ELSE \E q \in 0..(P - 1) : /\ Writes(reg, InverseStore(S, out, in1), out, q)
                                    /\ (q * v1) % P = 1
      /\ IF v1 % P = 0 THEN ~DivMontyStore(S, out, out, in1).ok
         ELSE \E q \in 0..(P - 1) :
                /\ Writes(reg, DivMontyStore(S, out, out, in1), out, (q * R) % P)
                /\ (q * v1) % P = v2 % P
      /\ \A exp \in Exponents \ {0} :
           Writes(reg, PowStore(S, out, in1, exp), out, ((v1 % P)^exp) % P)
  BY <1>1, QuotientWrites
<1> HIDE DEF S, v1, v2, r1, r2
<1>5. v1 \in Nat /\ v2 \in Nat /\ r1 \in Nat /\ r2 \in Nat /\ r1 % P = r1 /\ r2 % P = v2 % P
  <2>1. v1 \in Nat /\ v2 \in Nat /\ r1 \in Nat /\ r2 \in Nat
    BY ONLY <1>2, <1>3
  <2> QED
    BY <1>3, <2>1, ModMod
<1>6. ASSUME NEW q \in 0..(P - 1)
      PROVE  (q * r1) % P = (q * v1) % P
  <2>1. q \in Nat
    BY <1>2
  <2>2. ((v1 % P) * q) % P = (v1 * q) % P
    BY ONLY <1>2, <1>5, <2>1, ModMul
  <2>3. v1 * q = q * v1 /\ r1 * q = q * r1
    BY ONLY <1>5, <2>1
  <2> QED
    BY ONLY <1>3, <2>2, <2>3
<1>7. IF r1 = 0 THEN ~DivMontyStore(S, out, out, in1).ok
      ELSE Gives(DivMontyStore(S, out, out, in1), out, Ratio(r2, r1) * R)
  <2>1. CASE r1 = 0
    BY <1>3, <1>4, <2>1
  <2>2. CASE r1 # 0
    <3>1. PICK q \in 0..(P - 1) :
            /\ Writes(reg, DivMontyStore(S, out, out, in1), out, (q * R) % P)
            /\ (q * v1) % P = v2 % P
      BY <1>3, <1>4, <2>2
    <3>2. (q * r1) % P = r2 % P /\ r1 % P # 0
      BY <1>5, <1>6, <2>2, <3>1
    <3>3. Ratio(r2, r1) = q
      BY ONLY <1>5, <3>2, RatioUnique
    <3> DEFINE a == (q * R) % P
               b == q * R
    <3>4. b \in Nat
      BY <1>2
    <3>5. a % P = b % P
      <4> HIDE DEF b
      <4> QED
        BY ONLY <3>4, ModMod DEF b
    <3>6. Writes(reg, DivMontyStore(S, out, out, in1), out, a)
      BY <3>1
    <3> HIDE DEF a, b
    <3>7. Gives(DivMontyStore(S, out, out, in1), out, b)
      BY <3>5, <3>6, WritesGives
    <3> QED
      BY <2>2, <3>3, <3>7 DEF b
  <2> QED
    BY <2>1, <2>2
<1>8. IF r1 = 0 \/ out = in1 THEN ~InverseStore(S, out, in1).ok
      ELSE Gives(InverseStore(S, out, in1), out, Ratio(1, r1))
  <2>1. CASE r1 = 0 \/ out = in1
    BY <1>3, <1>4, <2>1
  <2>2. CASE ~ (r1 = 0 \/ out = in1)
    <3>1. PICK q \in 0..(P - 1) :
            Writes(reg, InverseStore(S, out, in1), out, q) /\ (q * v1) % P = 1
      BY <1>3, <1>4, <2>2
    <3>2. 1 % P = 1
      <4>1. 1 \in 0..(P - 1)
        BY <1>2
      <4> QED
        BY ONLY <1>2, <4>1, SmallMod
    <3>3. (q * r1) % P = 1 % P /\ r1 % P # 0 /\ 1 \in Nat
      BY <1>5, <1>6, <2>2, <3>1, <3>2
    <3>4. Ratio(1, r1) = q
      BY ONLY <1>5, <3>3, RatioUnique
    <3> QED
      BY <2>2, <3>1, <3>4, WritesGives
  <2> QED
    BY <2>1, <2>2
<1>9. ASSUME NEW exp \in Exponents \ {0}
      PROVE  Gives(PowStore(S, out, in1, exp), out, r1^exp)
  <2> DEFINE y == r1^exp
             a == y % P
  <2>1. y \in Nat
    <3>1. exp \in Nat \ {0} /\ \A n \in 1..exp : r1^n \in Nat
      BY ONLY <1>3, exp \in Exponents \ {0}, PowersOfResidue
    <3>2. exp \in 1..exp
      <4>1. exp \in Nat \ {0}
        BY <3>1
      <4> QED
        BY ONLY <4>1
    <3> QED
      BY <3>1, <3>2
  <2>2. Writes(reg, PowStore(S, out, in1, exp), out, a)
    BY <1>3, <1>4
  <2> HIDE DEF y
  <2>3. a % P = y % P
    BY <2>1, ModMod
  <2> HIDE DEF a
  <2>4. Gives(PowStore(S, out, in1, exp), out, y)
    BY <2>2, <2>3, WritesGives
  <2> QED
    BY <2>4 DEF y
<1> QED
  BY <1>7, <1>8, <1>9 DEF S, r1, r2

\* Products, inverses, quotients and powers are those of the field, in every
\* state.
THEOREM ProductsHold ==
  ASSUME Room, MulRoom
  PROVE  Spec => []ProductsCorrect
<1>1. IInv => ProductsCorrect
  <2> SUFFICES ASSUME IInv, NEW out \in Regs, NEW in1 \in Regs
               PROVE  LET S == Store(reg) IN
                 /\ \A in2 \in Regs :
                      /\ Gives(nn_mul_redc1(S, out, in1, in2), out,
                               Ratio(Residue(in1) * Residue(in2), R))
                      /\ Gives(MulStore(S, out, in1, in2), out, Residue(in1) * Residue(in2))
                 /\ Gives(nn_mul_redc1(S, out, in1, "r_square"), out, Residue(in1) * R)
                 /\ Gives(nn_mul_redc1(S, out, in1, "one"), out, Ratio(Residue(in1), R))
                 /\ IF Residue(in1) = 0 THEN ~DivMontyStore(S, out, out, in1).ok
                    ELSE Gives(DivMontyStore(S, out, out, in1), out,
                               Ratio(Residue(out), Residue(in1)) * R)
                 /\ IF Residue(in1) = 0 \/ out = in1 THEN ~InverseStore(S, out, in1).ok
                    ELSE Gives(InverseStore(S, out, in1), out, Ratio(1, Residue(in1)))
                 /\ \A exp \in Exponents \ {0} :
                      Gives(PowStore(S, out, in1, exp), out, Residue(in1)^exp)
    BY Zenon DEF ProductsCorrect, Ratio
  <2>1. \A in2 \in Regs :
          /\ Gives(nn_mul_redc1(Store(reg), out, in1, in2), out,
                   Ratio(Residue(in1) * Residue(in2), R))
          /\ Gives(MulStore(Store(reg), out, in1, in2), out, Residue(in1) * Residue(in2))
    BY ProductsAreCorrect
  <2>2. /\ Gives(nn_mul_redc1(Store(reg), out, in1, "r_square"), out, Residue(in1) * R)
        /\ Gives(nn_mul_redc1(Store(reg), out, in1, "one"), out, Ratio(Residue(in1), R))
    BY ProductsAreCorrect
  <2> QED
    BY <2>1, <2>2, QuotientsAreCorrect
<1> QED
  BY <1>1, Inductive, PTL
=============================================================================
