--------------------------- MODULE HashStreamProofs ---------------------------
(***************************************************************************)
(* Proofs about HashStream, for every block length, word size, byte order, *)
(* message and cutting of it: what the counter, the padding, the copies    *)
(* and the indices compute; the inductive invariant, one lemma for each    *)
(* group of actions; its consequences.                                     *)
(***************************************************************************)
EXTENDS HashStream, NumberLemmas

-----------------------------------------------------------------------------
(***************************************************************************)
(* The algebra of concatenation and of the two parts a sequence is cut     *)
(* into.  The operators name those of Sequences so that a proof may use    *)
(* their laws only.                                                        *)
(***************************************************************************)

Cat(s, t) == s \o t
Take(s, n) == SubSeq(s, 1, n)
Drop(s, n) == SubSeq(s, n + 1, Len(s))

\* A concatenation is a sequence.
LEMMA CatType ==
  ASSUME NEW S, NEW s \in Seq(S), NEW t \in Seq(S)
  PROVE  Cat(s, t) \in Seq(S) /\ Len(Cat(s, t)) = Len(s) + Len(t)
BY DEF Cat

\* The elements of a concatenation.
LEMMA CatElements ==
  ASSUME NEW S, NEW s \in Seq(S), NEW t \in Seq(S)
  PROVE  \A j \in 1..(Len(s) + Len(t)) :
           Cat(s, t)[j] = IF j <= Len(s) THEN s[j] ELSE t[j - Len(s)]
BY DEF Cat

\* Concatenation is associative.
LEMMA CatAssoc ==
  ASSUME NEW S, NEW s \in Seq(S), NEW t \in Seq(S), NEW u \in Seq(S)
  PROVE  Cat(Cat(s, t), u) = Cat(s, Cat(t, u))
BY DEF Cat

\* The empty sequence is its unit.
LEMMA CatEmpty ==
  ASSUME NEW S, NEW s \in Seq(S)
  PROVE  Cat(s, <<>>) = s /\ Cat(<<>>, s) = s /\ <<>> \in Seq(S) /\ Len(<<>>) = 0
BY DEF Cat

\* Sequences with the same elements are equal.
LEMMA SameElements ==
  ASSUME NEW S, NEW s \in Seq(S), NEW t \in Seq(S), Len(s) = Len(t),
         \A j \in 1..Len(s) : s[j] = t[j]
  PROVE  s = t
BY SMT

\* The two parts of a sequence.
LEMMA CutType ==
  ASSUME NEW S, NEW s \in Seq(S), NEW n \in 0..Len(s)
  PROVE  /\ Take(s, n) \in Seq(S) /\ Len(Take(s, n)) = n
         /\ Drop(s, n) \in Seq(S) /\ Len(Drop(s, n)) = Len(s) - n
         /\ \A j \in 1..n : Take(s, n)[j] = s[j]
         /\ \A j \in 1..(Len(s) - n) : Drop(s, n)[j] = s[n + j]
BY DEF Take, Drop

\* The parts together are the sequence.
LEMMA TakeDrop ==
  ASSUME NEW S, NEW s \in Seq(S), NEW n \in 0..Len(s)
  PROVE  Cat(Take(s, n), Drop(s, n)) = s
<1> DEFINE x == Take(s, n)
           y == Drop(s, n)
           z == Cat(x, y)
<1>1. /\ x \in Seq(S) /\ Len(x) = n /\ y \in Seq(S) /\ Len(y) = Len(s) - n
      /\ \A j \in 1..n : x[j] = s[j]
      /\ \A j \in 1..(Len(s) - n) : y[j] = s[n + j]
  BY CutType
<1>2. n \in Nat /\ Len(s) \in Nat /\ n <= Len(s)
  OBVIOUS
<1> HIDE DEF x, y
<1>3. /\ z \in Seq(S) /\ Len(z) = Len(x) + Len(y)
      /\ \A j \in 1..(Len(x) + Len(y)) : z[j] = IF j <= Len(x) THEN x[j] ELSE y[j - Len(x)]
  BY <1>1, CatType, CatElements
<1> HIDE DEF z
<1>4. Len(z) = Len(s)
  BY <1>1, <1>2, <1>3
<1>5. \A j \in 1..Len(z) : z[j] = s[j]
  <2> TAKE j \in 1..Len(z)
  <2>1. z[j] = IF j <= n THEN x[j] ELSE y[j - n]
    BY <1>1, <1>2, <1>3, <1>4
  <2>2. CASE j <= n
    BY <1>1, <1>2, <1>4, <2>1, <2>2
  <2>3. CASE ~ (j <= n)
    <3>1. j - n \in 1..(Len(s) - n) /\ n + (j - n) = j
      BY <1>2, <1>4, <2>3
    <3> QED
      BY <1>1, <2>1, <2>3, <3>1
  <2> QED
    BY <2>2, <2>3
<1> QED
  BY <1>3, <1>4, <1>5, SameElements DEF z, x, y

\* All of a sequence and nothing of it.
LEMMA TakeAll ==
  ASSUME NEW S, NEW s \in Seq(S)
  PROVE  Take(s, Len(s)) = s /\ Take(s, 0) = <<>>
BY DEF Take

\* A longer beginning.
LEMMA TakeMore ==
  ASSUME NEW S, NEW s \in Seq(S), NEW m \in Nat, NEW n \in Nat, m + n <= Len(s)
  PROVE  /\ Take(s, m + n) = Cat(Take(s, m), SubSeq(s, m + 1, m + n))
         /\ SubSeq(s, m + 1, m + n) \in Seq(S) /\ Len(SubSeq(s, m + 1, m + n)) = n
BY DEF Take, Cat

\* The elements of a middle part.
LEMMA MiddleElements ==
  ASSUME NEW S, NEW s \in Seq(S), NEW m \in Nat, NEW n \in Nat, m + n <= Len(s),
         NEW r, r = SubSeq(s, m + 1, m + n)
  PROVE  r \in Seq(S) /\ Len(r) = n /\ \A j \in 1..n : r[j] = s[m + j]
OBVIOUS

-----------------------------------------------------------------------------
(***************************************************************************)
(* The counter and its bytes.                                              *)
(***************************************************************************)

\* The powers of two in WordValues and BigEndian.
LEMMA WordPowers ==
  ASSUME NEW a \in Algs
  PROVE  /\ ByteBits \in Nat /\ ByteBits > 3 /\ LengthBytes(a) \in Nat /\ a.word \in Nat \ {0}
         /\ a.word <= LengthBytes(a)
         /\ \A i, j \in 0..(ByteBits * LengthBytes(a)) :
              i + j <= ByteBits * LengthBytes(a) => 2^(i + j) = 2^i * 2^j
         /\ \A i \in 0..(ByteBits * LengthBytes(a)) : 2^i \in Nat \ {0}
         /\ WordValues(a) \in Nat \ {0}
<1>1. ByteBits \in Nat /\ ByteBits > 3
  BY TextAssumption
<1>2. a.word \in Nat \ {0} /\ a.words \in {1, 2}
  BY AlgAssumption
<1>3. LengthBytes(a) \in Nat /\ a.word <= LengthBytes(a)
  <2>1. LengthBytes(a) = a.word \/ LengthBytes(a) = a.word + a.word
    BY <1>2 DEF LengthBytes
  <2> QED
    BY <1>2, <2>1
<1> DEFINE N == ByteBits * LengthBytes(a)
<1>4. N \in Nat /\ ByteBits * a.word \in 0..N
  <2>1. N \in Nat /\ ByteBits * a.word \in Nat
    BY <1>1, <1>2, <1>3
  <2>2. LengthBytes(a) = a.word \/ LengthBytes(a) = a.word + a.word
    BY <1>2 DEF LengthBytes
  <2>3. N = ByteBits * a.word \/ N = ByteBits * a.word + ByteBits * a.word
    BY <1>1, <1>2, <2>2
  <2> QED
    BY <2>1, <2>3
<1>5. 2^0 = 1 /\ \A i \in 0..N : 2^i \in Nat \ {0} /\ 2^(i + 1) = 2 * 2^i
  BY PowersOfTwo
<1> HIDE DEF N
<1>6. \A i, j \in 0..N : i + j <= N => 2^(i + j) = 2^i * 2^j
  <2>1. ASSUME NEW i \in Nat, NEW j \in Nat, i + j <= N
        PROVE  2^(i + j) = 2^i * 2^j
    <3>1. 2 \in Nat /\ PowersOf(2, N)
      BY <1>5 DEF PowersOf
    <3> QED
      BY ONLY <1>4, <2>1, <3>1, PowerSum
  <2> QED
    BY <1>4, <2>1
<1>7. WordValues(a) \in Nat \ {0}
  BY <1>4, <1>5 DEF WordValues
<1> QED
  BY <1>1, <1>2, <1>3, <1>5, <1>6, <1>7 DEF N

\* The bytes of h W + l are those of h and those of l (PUT_MUL8_UINT128_BE).
LEMMA BigEndianSplit ==
  ASSUME NEW a \in Algs, a.words = 2,
         NEW h \in Nat, NEW l \in 0..(WordValues(a) - 1)
  PROVE  BigEndian(h, a.word) \o BigEndian(l, a.word)
           = BigEndian(h * WordValues(a) + l, LengthBytes(a))
<1> DEFINE w == a.word
           W == WordValues(a)
           D == 2^ByteBits
           v == h * W + l
           hi == BigEndian(h, w)
           lo == BigEndian(l, w)
           all == BigEndian(v, w + w)
<1>1. /\ ByteBits \in Nat /\ ByteBits > 3 /\ w \in Nat \ {0} /\ W \in Nat \ {0}
      /\ LengthBytes(a) = w + w
      /\ \A i, j \in 0..(ByteBits * (w + w)) :
           i + j <= ByteBits * (w + w) => 2^(i + j) = 2^i * 2^j
      /\ \A i \in 0..(ByteBits * (w + w)) : 2^i \in Nat \ {0}
      /\ W = 2^(ByteBits * w)
  <2>1. LengthBytes(a) = w + w
    BY WordPowers DEF LengthBytes
  <2> QED
    BY <2>1, WordPowers DEF WordValues
<1> HIDE DEF w, W
<1>2. l \in 0..(W - 1) /\ l \in Nat /\ v \in Nat
  <2>1. l \in 0..(W - 1)
    BY DEF W
  <2>2. h * W \in Nat
    BY <1>1
  <2> QED
    BY <1>1, <2>1, <2>2
<1> HIDE DEF v
<1>3. ASSUME NEW j \in 1..w PROVE hi[j] = all[j]
  <2> DEFINE e == ByteBits * (w - j)
             p == 2^e
  <2>1. e \in 0..(ByteBits * (w + w)) /\ ByteBits * w \in 0..(ByteBits * (w + w))
        /\ ByteBits * (w + w - j) = ByteBits * w + e
        /\ ByteBits * w + e <= ByteBits * (w + w)
    <3>1. w - j \in Nat /\ w - j <= w
      BY <1>1
    <3>2. e \in Nat /\ e <= ByteBits * w
      BY <1>1, <3>1
    <3>3. ByteBits * w \in Nat /\ ByteBits * (w + w) = ByteBits * w + ByteBits * w
      BY <1>1
    <3>4. ByteBits * (w + w - j) = ByteBits * w + e
      <4>1. w + w - j = w + (w - j) /\ w - j \in Int
        BY <1>1
      <4> QED
        BY <1>1, <4>1
    <3> QED
      BY <3>2, <3>3, <3>4
  <2>2. 2^(ByteBits * (w + w - j)) = W * p /\ p \in Nat \ {0}
    BY <1>1, <2>1
  <2> HIDE DEF e, p
  <2>3. v \div (W * p) = (v \div W) \div p
    <3>1. v \in Nat /\ W \in Nat \ {0} /\ p \in Nat \ {0}
      BY <1>1, <1>2, <2>2
    <3> QED
      BY ONLY <3>1, DivDiv
  <2>4. v \div W = h
    <3>1. v = W * h + l
      BY <1>1 DEF v
    <3> QED
      BY <1>1, <1>2, <3>1, DivUnique
  <2>5. hi[j] = (h \div p) % D
    BY <1>1 DEF BigEndian, p, e
  <2>6. j \in 1..(w + w)
    BY <1>1
  <2>7. all[j] = (v \div 2^(ByteBits * (w + w - j))) % D
    BY <1>1, <1>2, <2>6 DEF BigEndian
  <2> QED
    BY <2>2, <2>3, <2>4, <2>5, <2>7
<1>4. ASSUME NEW j \in 1..w PROVE lo[j] = all[w + j]
  <2> DEFINE e == ByteBits * (w - j)
             f == ByteBits * (j - 1)
             p == 2^e
             k == 2^f
  <2>1. /\ e \in 0..(ByteBits * (w + w)) /\ f \in 0..(ByteBits * (w + w))
        /\ ByteBits + f \in 0..(ByteBits * (w + w)) /\ ByteBits \in 0..(ByteBits * (w + w))
        /\ ByteBits * w = e + (ByteBits + f)
        /\ e + (ByteBits + f) <= ByteBits * (w + w)
    <3>1. w - j \in Nat /\ j - 1 \in Nat
      BY <1>1
    <3>2. e \in Nat /\ f \in Nat
      BY <1>1, <3>1
    <3>3. ByteBits * (w + w) = ByteBits * w + ByteBits * w
      BY <1>1
    <3>4. ByteBits * w = e + (ByteBits + f)
      BY <1>1
    <3> QED
      BY <1>1, <3>2, <3>3, <3>4
  <2> HIDE DEF e, f
  <2>2. p \in Nat \ {0} /\ k \in Nat \ {0} /\ D \in Nat \ {0} /\ W = p * (D * k)
    <3>1. 2^(ByteBits + f) = D * k
      BY <1>1, <2>1
    <3>2. W = p * 2^(ByteBits + f)
      BY <1>1, <2>1
    <3>3. p \in Nat \ {0} /\ k \in Nat \ {0} /\ D \in Nat \ {0}
      BY <1>1, <2>1
    <3> QED
      BY <3>1, <3>2, <3>3
  <2>3. w + w - (w + j) = w - j
    BY <1>1
  <2>a. w + j \in 1..(w + w)
    BY <1>1
  <2>b. all[w + j] = (v \div 2^(ByteBits * (w + w - (w + j)))) % D
    BY <1>1, <1>2, <2>a DEF BigEndian
  <2>4. all[w + j] = (v \div p) % D
    BY <2>3, <2>b DEF e
  <2>5. lo[j] = (l \div p) % D
    BY DEF BigEndian, e
  <2> HIDE DEF p, k, D
  <2>6. v \div p = (l \div p) + (D * (k * h))
    <3>1. v = l + p * (D * (k * h))
      BY <1>1, <1>2, <2>2 DEF v
    <3>2. D * (k * h) \in Nat
      BY <2>2
    <3> DEFINE x == D * (k * h)
    <3>3. x \in Nat /\ l \in Nat /\ p \in Nat \ {0}
      BY <1>2, <2>2, <3>2
    <3> HIDE DEF x
    <3>4. (l + p * x) \div p = (l \div p) + x
      BY ONLY <3>3, AddMultiple
    <3> QED
      BY <3>1, <3>4 DEF x
  <2>7. ((l \div p) + (D * (k * h))) % D = (l \div p) % D
    <3>1. l \div p \in Nat /\ k * h \in Nat
      <4>1. l \in Nat /\ p \in Nat \ {0} /\ k \in Nat /\ h \in Nat
        BY <1>2, <2>2
      <4>2. l \div p \in Nat
        BY <4>1, DivMod
      <4> QED
        BY <4>1, <4>2
    <3> QED
      BY <2>2, <3>1, AddMultiple
  <2> QED
    BY <2>4, <2>5, <2>6, <2>7
<1>5. hi \o lo = all
  <2>1. hi = [j \in 1..w |-> hi[j]] /\ lo = [j \in 1..w |-> lo[j]]
        /\ all = [j \in 1..(w + w) |-> all[j]]
    BY DEF BigEndian
  <2> HIDE DEF hi, lo, all
  <2>2. Len(hi) = w /\ Len(lo) = w /\ Len(all) = w + w
    BY <1>1, <2>1
  <2>3. hi \o lo = [j \in 1..(w + w) |-> IF j <= w THEN hi[j] ELSE lo[j - w]]
    BY <1>1, <2>1, <2>2, SMTT(30)
  <2>4. \A j \in 1..(w + w) : all[j] = IF j <= w THEN hi[j] ELSE lo[j - w]
    <3> TAKE j \in 1..(w + w)
    <3>1. CASE j <= w
      BY <1>1, <1>3, <3>1
    <3>2. CASE ~(j <= w)
      <4>1. j - w \in 1..w /\ w + (j - w) = j
        BY <1>1, <3>2
      <4>2. lo[j - w] = all[w + (j - w)]
        BY <1>4, <4>1
      <4> QED
        BY <3>2, <4>1, <4>2
    <3> QED
      BY <3>1, <3>2
  <2> QED
    BY <2>1, <2>3, <2>4
<1> QED
  BY <1>1, <1>5 DEF v, W, w

\* The capacity of the counter, for both sizes.
LEMMA CounterCapacity ==
  ASSUME NEW a \in Algs
  PROVE  LET W == WordValues(a)
         IN  /\ W \in Nat \ {0}
             /\ a.words = 1 => 2^(ByteBits * LengthBytes(a)) = W
             /\ a.words = 2 => 2^(ByteBits * LengthBytes(a)) = W * W
             /\ W \div 8 \in Nat \ {0} /\ W = 8 * (W \div 8)
             /\ a.words \in {1, 2}
<1> DEFINE W == WordValues(a)
<1>1. /\ ByteBits \in Nat /\ ByteBits > 3 /\ a.word \in Nat \ {0} /\ LengthBytes(a) \in Nat
      /\ a.word <= LengthBytes(a)
      /\ \A i, j \in 0..(ByteBits * LengthBytes(a)) :
           i + j <= ByteBits * LengthBytes(a) => 2^(i + j) = 2^i * 2^j
      /\ \A i \in 0..(ByteBits * LengthBytes(a)) : 2^i \in Nat \ {0}
      /\ W \in Nat \ {0}
  BY WordPowers
<1>2. a.words \in {1, 2}
  BY AlgAssumption
<1> DEFINE e == ByteBits * a.word
           N == ByteBits * LengthBytes(a)
<1>3. /\ e \in Nat /\ e > 3 /\ N \in Nat /\ e <= N
      /\ a.words = 1 => N = e
      /\ a.words = 2 => N = e + e
  <2>1. e \in Nat /\ e > 3 /\ N \in Nat
    <3>1. e >= ByteBits
      BY <1>1
    <3> QED
      BY <1>1, <3>1
  <2>2. a.words = 1 => LengthBytes(a) = a.word
    BY <1>1 DEF LengthBytes
  <2>3. a.words = 2 => LengthBytes(a) = a.word + a.word
    BY <1>1 DEF LengthBytes
  <2>4. a.words = 2 => N = e + e
    BY <1>1, <2>3
  <2> QED
    BY <1>2, <2>1, <2>2, <2>4
<1>4. W = 2^e
  BY DEF WordValues
<1>5. /\ \A i, j \in 0..N : i + j <= N => 2^(i + j) = 2^i * 2^j
      /\ \A i \in 0..N : 2^i \in Nat \ {0}
      /\ 2^0 = 1
      /\ \A i \in 0..N : 2^(i + 1) = 2 * 2^i
  BY <1>1, PowersOfTwo
<1> HIDE DEF e, N, W
<1>6. a.words = 1 => 2^N = W
  BY <1>3, <1>4
<1>7. a.words = 2 => 2^N = W * W
  BY <1>3, <1>4, <1>5
<1>8. \E k \in Nat \ {0} : W = 8 * k
  <2>1. 2^3 = 8
    <3>1. 0 \in 0..N /\ 1 \in 0..N /\ 2 \in 0..N /\ 0 + 1 = 1 /\ 1 + 1 = 2 /\ 2 + 1 = 3
      BY <1>3
    <3>2. 2^(0 + 1) = 2 * 2^0 /\ 2^(1 + 1) = 2 * 2^1 /\ 2^(2 + 1) = 2 * 2^2
      BY <1>5, <3>1
    <3> QED
      BY <1>5, <3>1, <3>2
  <2>2. 3 \in 0..N /\ e - 3 \in 0..N /\ 3 + (e - 3) = e /\ e <= N
    BY <1>3
  <2>3. 2^(3 + (e - 3)) = 2^3 * 2^(e - 3) /\ 2^(e - 3) \in Nat \ {0}
    BY <1>5, <2>2
  <2> QED
    BY <1>4, <2>1, <2>2, <2>3
<1>9. W \div 8 \in Nat \ {0} /\ W = 8 * (W \div 8)
  BY <1>8
<1> QED
  BY <1>1, <1>2, <1>6, <1>7, <1>9 DEF N, W

\* Adding a chunk to the counter of bytes, with the carry into its high word
\* (ctx->sha256_total, ADD_UINT128_UINT64).
LEMMA CounterAdds ==
  ASSUME NEW a \in Algs,
         NEW c \in (0..(WordValues(a) - 1)) \X (0..(WordValues(a) - 1)),
         NEW m \in 0..MaxChunk,
         8 * (c[1] + WordValues(a) * c[2] + m) < 2^(ByteBits * LengthBytes(a))
  PROVE  LET d == ADD_UINT128_UINT64(a, c, m)
         IN  /\ d \in (0..(WordValues(a) - 1)) \X (0..(WordValues(a) - 1))
             /\ d[1] + WordValues(a) * d[2] = c[1] + WordValues(a) * c[2] + m
<1> DEFINE W == WordValues(a)
           low == (c[1] + m) % W
           d == ADD_UINT128_UINT64(a, c, m)
<1>1. /\ W \in Nat \ {0} /\ a.words \in {1, 2} /\ MaxChunk \in Nat /\ MaxChunk < W
      /\ a.words = 1 => 8 * (c[1] + W * c[2] + m) < W
      /\ a.words = 2 => 8 * (c[1] + W * c[2] + m) < W * W
  BY CounterCapacity, AlgAssumption, TextAssumption
<1>2. c[1] \in 0..(W - 1) /\ c[2] \in 0..(W - 1) /\ m \in 0..(W - 1)
  BY <1>1
<1>3. d = <<low, IF a.words = 2 /\ low < m THEN (c[2] + 1) % W ELSE c[2]>>
  BY DEF ADD_UINT128_UINT64
<1> HIDE DEF W, d
<1>4. W * c[2] \in Nat
  BY <1>1, <1>2
<1>5. CASE c[1] + m < W
  <2>1. low = c[1] + m /\ ~ (low < m)
    BY <1>1, <1>2, <1>5, SmallMod
  <2> QED
    BY <1>1, <1>2, <1>3, <1>4, <2>1 DEF W, d
<1>6. CASE c[1] + m >= W
  <2>1. low = c[1] + m - W /\ low < m /\ low \in 0..(W - 1)
    <3>1. c[1] + m = W * 1 + (c[1] + m - W) /\ c[1] + m - W \in 0..(W - 1) /\ c[1] + m \in Nat
      BY <1>1, <1>2, <1>6
    <3>2. (c[1] + m) % W = c[1] + m - W
      BY <1>1, <3>1, DivUnique
    <3> QED
      BY <1>1, <1>2, <3>1, <3>2
  <2>2. a.words = 2
    <3>1. ASSUME a.words = 1 PROVE FALSE
      BY <1>1, <1>2, <1>4, <1>6, <3>1
    <3> QED
      BY <1>1, <3>1
  <2>3. c[2] + 1 < W
    <3>1. ASSUME c[2] + 1 = W PROVE FALSE
      <4>1. W * c[2] = W * W - W
        <5>1. c[2] = W - 1
          BY <1>2, <3>1
        <5>2. W * (W - 1) = W * W - W
          BY <1>1
        <5> QED
          BY <5>1, <5>2
      <4>2. W * W \in Nat
        BY <1>1
      <4> QED
        BY <1>1, <1>2, <1>6, <2>2, <4>1, <4>2
    <3>2. W \in Nat /\ c[2] \in Nat /\ c[2] < W
      BY <1>1, <1>2
    <3> QED
      BY <3>1, <3>2
  <2>4. (c[2] + 1) % W = c[2] + 1
    BY <1>1, <1>2, <2>3, SmallMod
  <2>5. W * (c[2] + 1) = W * c[2] + W
    BY <1>1, <1>2
  <2> HIDE DEF low
  <2>6. d = <<low, c[2] + 1>>
    BY <1>3, <2>1, <2>2, <2>4
  <2> QED
    BY <1>1, <1>2, <1>4, <2>1, <2>3, <2>5, <2>6 DEF W, d
<1> QED
  BY <1>1, <1>2, <1>5, <1>6

\* The length field holds the length of the message in bits.
LEMMA LengthField ==
  ASSUME NEW a \in Algs,
         NEW c \in (0..(WordValues(a) - 1)) \X (0..(WordValues(a) - 1)),
         NEW n \in Nat, n = c[1] + WordValues(a) * c[2],
         8 * n < 2^(ByteBits * LengthBytes(a))
  PROVE  PutLength(a, c) = BigEndian(8 * n, LengthBytes(a))
<1> DEFINE W == WordValues(a)
           V == W \div 8
           low == (c[1] * 8) % W
           high == ((c[1] \div V) + c[2] * 8) % W
<1>1. /\ W \in Nat \ {0} /\ a.words \in {1, 2} /\ V \in Nat \ {0} /\ W = 8 * V
      /\ a.words = 1 => 8 * n < W
      /\ a.words = 2 => 8 * n < W * W
  BY CounterCapacity
<1>2. c[1] \in 0..(W - 1) /\ c[2] \in 0..(W - 1) /\ n = c[1] + W * c[2]
  OBVIOUS
<1>3. PutLength(a, c) = IF a.words = 1 THEN BigEndian(low, a.word)
                        ELSE BigEndian(high, a.word) \o BigEndian(low, a.word)
  BY DEF PutLength
<1> HIDE DEF W, V
<1>4. CASE a.words = 1
  <2>1. c[2] = 0
    <3>1. ASSUME c[2] >= 1 PROVE FALSE
      <4>1. W * c[2] >= W
        BY <1>1, <1>2, <3>1
      <4> QED
        BY <1>1, <1>2, <1>4, <4>1
    <3> QED
      BY <1>1, <1>2, <3>1
  <2>2. n = c[1] /\ c[1] * 8 \in 0..(W - 1)
    BY <1>1, <1>2, <1>4, <2>1
  <2>3. low = 8 * n
    BY <1>1, <2>2, SmallMod
  <2>4. LengthBytes(a) = a.word
    BY <1>4, AlgAssumption DEF LengthBytes
  <2> QED
    BY <1>3, <1>4, <2>3, <2>4
<1>5. CASE a.words = 2
  <2> DEFINE k == c[1] \div V
             r == c[1] % V
  <2>1. k \in Nat /\ r \in 0..(V - 1) /\ c[1] = V * k + r
    <3>1. c[1] \in Nat
      BY <1>1, <1>2
    <3> QED
      BY <1>1, <3>1, DivMod
  <2> HIDE DEF k, r
  <2>2. c[1] * 8 = W * k + 8 * r /\ 8 * r \in 0..(W - 1) /\ c[1] * 8 \in Nat
    <3>1. 8 * (V * k) = W * k /\ V * k \in Nat
      BY <1>1, <2>1
    <3> QED
      BY <1>1, <1>2, <2>1, <3>1
  <2>3. low = 8 * r
    <3> DEFINE x == c[1] * 8
               y == 8 * r
    <3>1. W \in Nat \ {0} /\ x \in Nat /\ k \in Nat /\ y \in 0..(W - 1) /\ x = W * k + y
      BY <1>1, <2>1, <2>2
    <3> HIDE DEF x, y
    <3>2. x % W = y
      BY <3>1, DivUnique
    <3> QED
      BY <3>2 DEF x, y
  <2> HIDE DEF low
  <2>4. 8 * n = W * (k + c[2] * 8) + 8 * r
    <3>1. 8 * (W * c[2]) = W * (c[2] * 8) /\ W * c[2] \in Nat
      BY <1>1, <1>2
    <3>2. W * (k + c[2] * 8) = W * k + W * (c[2] * 8)
      BY <1>1, <1>2, <2>1
    <3>3. c[1] \in Nat /\ W * k \in Nat /\ W * c[2] \in Nat /\ r \in Nat
      BY <1>1, <1>2, <2>1
    <3>4. 8 * n = c[1] * 8 + 8 * (W * c[2])
      BY <1>2, <3>3
    <3>5. W * (c[2] * 8) \in Nat
      BY <3>1, <3>3
    <3> QED
      BY <2>2, <3>1, <3>2, <3>3, <3>4, <3>5
  <2>5. k + c[2] * 8 \in 0..(W - 1)
    <3>1. k + c[2] * 8 \in Nat
      BY <1>1, <1>2, <2>1
    <3>2. ASSUME k + c[2] * 8 >= W PROVE FALSE
      <4>1. W * (k + c[2] * 8) >= W * W
        BY <1>1, <3>1, <3>2
      <4> QED
        BY <1>1, <1>5, <2>1, <2>2, <2>4, <3>1, <4>1
    <3> QED
      BY <1>1, <3>1, <3>2
  <2>6. high = k + c[2] * 8
    BY <1>1, <2>5, SmallMod DEF k
  <2>7. high \in Nat /\ low \in 0..(W - 1) /\ 8 * n = high * W + low
    <3>1. (k + c[2] * 8) * W = W * (k + c[2] * 8)
      BY <1>1, <2>5
    <3> QED
      BY <2>2, <2>3, <2>4, <2>5, <2>6, <3>1
  <2> HIDE DEF high
  <2>8. BigEndian(high, a.word) \o BigEndian(low, a.word)
          = BigEndian(high * W + low, LengthBytes(a))
    BY <1>5, <2>7, BigEndianSplit DEF W
  <2> QED
    BY <1>3, <1>5, <2>7, <2>8
<1> QED
  BY <1>1, <1>4, <1>5

-----------------------------------------------------------------------------
(***************************************************************************)
(* Copies and paddings.                                                    *)
(***************************************************************************)

\* What the cells of the sequences hold.
Val == (Byte \cup {Junk}) \cup SUBSET Byte

\* The cells of a buffer after a copy within it.
LEMMA CopyCells ==
  ASSUME NEW buf \in Seq(Val), NEW data \in Seq(Val), NEW offset \in Nat,
         offset + Len(data) <= Len(buf),
         NEW r, r = local_memcpy(buf, offset, data)
  PROVE  /\ r \in Seq(Val) /\ Len(r) = Len(buf)
         /\ \A j \in 1..Len(buf) :
              r[j] = IF j \in (offset + 1)..(offset + Len(data)) THEN data[j - offset]
                     ELSE buf[j]
<1> DEFINE end == offset + Len(data)
<1>1. Len(data) \in Nat /\ Len(buf) \in Nat /\ end \in Nat /\ end <= Len(buf)
  OBVIOUS
<1>2. r = [j \in 1..Len(buf) |-> IF j \in (offset + 1)..end THEN data[j - offset] ELSE buf[j]]
  <2>1. (IF end > Len(buf) THEN end ELSE Len(buf)) = Len(buf)
    BY <1>1
  <2> QED
    BY <2>1 DEF local_memcpy
<1> HIDE DEF end
<1>3. \A j \in 1..Len(buf) :
        (IF j \in (offset + 1)..end THEN data[j - offset] ELSE buf[j]) \in Val
  <2> TAKE j \in 1..Len(buf)
  <2>1. CASE j \in (offset + 1)..end
    <3>1. j - offset \in 1..Len(data)
      BY <1>1, <2>1 DEF end
    <3> QED
      BY <2>1, <3>1
  <2>2. CASE ~(j \in (offset + 1)..end)
    BY <2>2
  <2> QED
    BY <2>1, <2>2
<1>4. r \in Seq(Val) /\ Len(r) = Len(buf)
  BY <1>1, <1>2, <1>3
<1> QED
  BY <1>2, <1>4 DEF end

\* What a copy within the buffer leaves up to its end.
LEMMA CopyInside ==
  ASSUME NEW buf \in Seq(Val), NEW data \in Seq(Val), NEW offset \in Nat,
         offset + Len(data) <= Len(buf),
         NEW r, r = local_memcpy(buf, offset, data)
  PROVE  /\ r \in Seq(Val) /\ Len(r) = Len(buf)
         /\ Take(r, offset + Len(data)) = Cat(Take(buf, offset), data)
<1> DEFINE end == offset + Len(data)
           x == Take(r, end)
           y == Cat(Take(buf, offset), data)
<1>1. Len(data) \in Nat /\ Len(buf) \in Nat /\ end \in Nat /\ end <= Len(buf)
  OBVIOUS
<1>2. /\ r \in Seq(Val) /\ Len(r) = Len(buf)
      /\ \A j \in 1..Len(buf) :
           r[j] = IF j \in (offset + 1)..end THEN data[j - offset] ELSE buf[j]
  BY CopyCells
<1>3. end = offset + Len(data)
  OBVIOUS
<1> HIDE DEF end
<1>4. x \in Seq(Val) /\ Len(x) = end /\ \A j \in 1..end : x[j] = r[j]
  <2>1. end \in 0..Len(r)
    BY <1>1, <1>2
  <2> QED
    <3>1. r \in Seq(Val)
      BY <1>2
    <3> QED
      BY ONLY <2>1, <3>1, CutType
<1>5. /\ y \in Seq(Val) /\ Len(y) = end
      /\ \A j \in 1..end : y[j] = IF j <= offset THEN buf[j] ELSE data[j - offset]
  <2> DEFINE z == Take(buf, offset)
  <2>1. offset \in 0..Len(buf)
    BY <1>1, <1>3
  <2>2. z \in Seq(Val) /\ Len(z) = offset /\ \A j \in 1..offset : z[j] = buf[j]
    BY <2>1, CutType
  <2> HIDE DEF z
  <2>3. /\ y \in Seq(Val) /\ Len(y) = Len(z) + Len(data)
        /\ \A j \in 1..(Len(z) + Len(data)) :
             y[j] = IF j <= Len(z) THEN z[j] ELSE data[j - Len(z)]
    <3>1. z \in Seq(Val)
      BY <2>2
    <3>2. Cat(z, data) \in Seq(Val) /\ Len(Cat(z, data)) = Len(z) + Len(data)
      BY <3>1, CatType
    <3>3. \A j \in 1..(Len(z) + Len(data)) :
            Cat(z, data)[j] = IF j <= Len(z) THEN z[j] ELSE data[j - Len(z)]
      BY <3>1, CatElements
    <3> QED
      BY <3>2, <3>3 DEF z
  <2> HIDE DEF y
  <2> QED
    BY <1>1, <1>3, <2>2, <2>3
<1> HIDE DEF x, y
<1>6. \A j \in 1..Len(x) : x[j] = y[j]
  <2> TAKE j \in 1..Len(x)
  <2>1. j \in 1..Len(buf) /\ j \in 1..end /\ (j \in (offset + 1)..end <=> ~ (j <= offset))
    BY <1>1, <1>4
  <2>2. r[j] = IF j <= offset THEN buf[j] ELSE data[j - offset]
    BY <1>2, <2>1
  <2> QED
    BY <1>4, <1>5, <2>1, <2>2
<1>7. x = y
  BY <1>4, <1>5, <1>6, SameElements
<1> QED
  BY <1>2, <1>3, <1>7 DEF x, y

\* Bytes of numbers are bytes.
LEMMA BigEndianType ==
  ASSUME NEW v \in Nat, NEW size \in Nat, 2^ByteBits \in Nat \ {0},
         \A j \in 1..size : 2^(ByteBits * (size - j)) \in Nat \ {0}
  PROVE  BigEndian(v, size) \in Seq(Byte) /\ Len(BigEndian(v, size)) = size
<1> DEFINE D == 2^ByteBits
<1>1. ASSUME NEW j \in 1..size
      PROVE  (v \div 2^(ByteBits * (size - j))) % D \in Byte
  <2> DEFINE p == 2^(ByteBits * (size - j))
  <2>1. p \in Nat \ {0} /\ D \in Nat \ {0}
    OBVIOUS
  <2> HIDE DEF p, D
  <2>2. v \div p \in Nat
    BY <2>1, DivMod
  <2>3. (v \div p) % D \in 0..(D - 1)
    BY <2>1, <2>2, DivMod
  <2> QED
    BY <2>3 DEF p, D, Byte
<1>2. BigEndian(v, size) = [j \in 1..size |-> (v \div 2^(ByteBits * (size - j))) % D]
  BY DEF BigEndian
<1> HIDE DEF D
<1> DEFINE f(j) == (v \div 2^(ByteBits * (size - j))) % D
<1>3. \A j \in 1..size : f(j) \in Byte
  BY <1>1
<1> HIDE DEF f
<1>4. [j \in 1..size |-> f(j)] \in Seq(Byte) /\ Len([j \in 1..size |-> f(j)]) = size
  BY <1>3
<1> QED
  BY <1>2, <1>4 DEF f

\* The marks of the paddings are bytes and differ.
LEMMA Marks ==
  ASSUME NEW a \in Algs
  PROVE  /\ 2^(ByteBits - 1) \in Byte /\ 2^(ByteBits - 1) # 6
         /\ 0 \in Byte /\ 6 \in Byte
<1> DEFINE N == ByteBits * LengthBytes(a)
<1>1. /\ ByteBits \in Nat /\ ByteBits > 3 /\ LengthBytes(a) \in Nat /\ a.word \in Nat \ {0}
      /\ a.word <= LengthBytes(a)
  BY WordPowers
<1>2. N \in Nat /\ ByteBits <= N
  <2>1. LengthBytes(a) >= 1
    BY <1>1
  <2> QED
    BY <1>1, <2>1
<1>3. /\ \A i, j \in 0..N : i + j <= N => 2^(i + j) = 2^i * 2^j
      /\ \A i \in 0..N : 2^i \in Nat \ {0} /\ 2^(i + 1) = 2 * 2^i
      /\ 2^0 = 1
  BY WordPowers, PowersOfTwo
<1> HIDE DEF N
<1>4. 2^3 = 8
  <2>1. 0 \in 0..N /\ 1 \in 0..N /\ 2 \in 0..N /\ 0 + 1 = 1 /\ 1 + 1 = 2 /\ 2 + 1 = 3
    BY <1>1, <1>2
  <2>2. 2^(0 + 1) = 2 * 2^0 /\ 2^(1 + 1) = 2 * 2^1 /\ 2^(2 + 1) = 2 * 2^2
    BY <1>3, <2>1
  <2> QED
    BY <1>3, <2>1, <2>2
<1>5. 2^(ByteBits - 1) >= 8 /\ 2^(ByteBits - 1) \in Nat
  <2>1. /\ 3 \in 0..N /\ ByteBits - 4 \in 0..N /\ 3 + (ByteBits - 4) = ByteBits - 1
        /\ 3 + (ByteBits - 4) <= N
    BY <1>1, <1>2
  <2>2. 2^(3 + (ByteBits - 4)) = 2^3 * 2^(ByteBits - 4) /\ 2^(ByteBits - 4) \in Nat \ {0}
    BY <1>3, <2>1
  <2> QED
    BY <1>4, <2>1, <2>2
<1>6. 2^ByteBits = 2 * 2^(ByteBits - 1)
  <2>1. ByteBits - 1 \in 0..N /\ (ByteBits - 1) + 1 = ByteBits
    BY <1>1, <1>2
  <2>2. 2^((ByteBits - 1) + 1) = 2 * 2^(ByteBits - 1)
    BY <1>3, <2>1
  <2> QED
    BY <2>1, <2>2
<1> QED
  BY <1>5, <1>6 DEF Byte

\* Fill is the number of zeros that reaches the end of a block.
LEMMA FillUnique ==
  ASSUME NEW b \in Nat \ {0}, NEW n \in Nat, NEW k \in 0..(b - 1), (n + k) % b = 0
  PROVE  (CHOOSE j \in 0..(b - 1) : (n + j) % b = 0) = k
<1>1. ASSUME NEW i \in 0..(b - 1), NEW j \in 0..(b - 1), (n + i) % b = 0, (n + j) % b = 0, i < j
      PROVE  FALSE
  <2> DEFINE x == (n + i) \div b
             y == (n + j) \div b
  <2>1. x \in Nat /\ y \in Nat /\ n + i = b * x /\ n + j = b * y
    <3>1. n + i \in Nat /\ n + j \in Nat
      OBVIOUS
    <3>2. n + i = b * x + ((n + i) % b) /\ x \in Nat
      BY <3>1, DivMod
    <3>3. n + j = b * y + ((n + j) % b) /\ y \in Nat
      BY <3>1, DivMod
    <3>4. b * x \in Nat /\ b * y \in Nat
      BY <3>2, <3>3
    <3> QED
      BY <1>1, <3>2, <3>3, <3>4
  <2> HIDE DEF x, y
  <2>2. b * x < b * y /\ b * y < b * x + b
    BY <1>1, <2>1
  <2>3. y >= x + 1
    BY <2>1, <2>2
  <2>4. b * y >= b * (x + 1) /\ b * (x + 1) = b * x + b
    BY <2>1, <2>3
  <2> QED
    BY <2>1, <2>2, <2>4
<1>2. \A j \in 0..(b - 1) : (n + j) % b = 0 => j = k
  <2> TAKE j \in 0..(b - 1)
  <2> HAVE (n + j) % b = 0
  <2>1. ~ (j < k) /\ ~ (k < j)
    BY <1>1
  <2> QED
    BY <2>1
<1> QED
  BY <1>2

\* The size of the padding, from the number of zeros that ends a block.
LEMMA PaddingSize ==
  ASSUME NEW b \in Nat \ {0}, NEW L \in Nat, L < b, NEW p \in 0..(b - 1),
         NEW k \in 0..(b - 1), (p + (1 + L) + k) % b = 0
  PROVE  p + 1 + k + L = IF p > b - 1 - L THEN 2 * b ELSE b
<1> DEFINE n == p + (1 + L) + k
           x == n \div b
<1>1. n \in Nat /\ n % b = 0
  OBVIOUS
<1> HIDE DEF n
<1>2. x \in Nat /\ n = b * x
  BY <1>1, DivMod
<1> HIDE DEF x
<1>3. n = p + 1 + k + L
  BY DEF n
<1>4. 0 < n /\ n < b + b + b
  BY <1>3
<1>5. x # 0
  BY <1>2, <1>4
<1>6. x < 3
  <2>1. ASSUME x >= 3 PROVE FALSE
    <3>1. b * x >= b * 3 /\ b * 3 = b + b + b
      BY <1>2, <2>1
    <3> QED
      BY <1>2, <1>4, <3>1
  <2> QED
    BY <1>2, <2>1
<1>7. n = b \/ n = b + b
  <2>1. x = 1 \/ x = 2
    BY <1>2, <1>5, <1>6
  <2> QED
    BY <1>2, <2>1
<1>8. CASE p > b - 1 - L
  BY <1>3, <1>7, <1>8
<1>9. CASE ~ (p > b - 1 - L)
  BY <1>3, <1>7, <1>9
<1> QED
  BY <1>8, <1>9

\* A copy replaces the part of the buffer that it covers.
LEMMA CopyOver ==
  ASSUME NEW x \in Seq(Val), NEW y \in Seq(Val), NEW z \in Seq(Val), NEW d \in Seq(Val),
         Len(y) = Len(d)
  PROVE  local_memcpy(Cat(x, Cat(y, z)), Len(x), d) = Cat(x, Cat(d, z))
<1> DEFINE yz == Cat(y, z)
           dz == Cat(d, z)
           buf == Cat(x, yz)
           w == Cat(x, dz)
           r == local_memcpy(buf, Len(x), d)
<1>1. Len(x) \in Nat /\ Len(y) \in Nat /\ Len(z) \in Nat /\ Len(d) \in Nat
  OBVIOUS
<1>2. /\ yz \in Seq(Val) /\ Len(yz) = Len(y) + Len(z)
      /\ \A j \in 1..(Len(y) + Len(z)) : yz[j] = IF j <= Len(y) THEN y[j] ELSE z[j - Len(y)]
  BY CatType, CatElements
<1>3. /\ dz \in Seq(Val) /\ Len(dz) = Len(d) + Len(z)
      /\ \A j \in 1..(Len(d) + Len(z)) : dz[j] = IF j <= Len(d) THEN d[j] ELSE z[j - Len(d)]
  BY CatType, CatElements
<1> HIDE DEF yz, dz
<1>4. /\ buf \in Seq(Val) /\ Len(buf) = Len(x) + Len(yz)
      /\ \A j \in 1..(Len(x) + Len(yz)) : buf[j] = IF j <= Len(x) THEN x[j] ELSE yz[j - Len(x)]
  <2>1. yz \in Seq(Val)
    BY <1>2
  <2> QED
    BY <2>1, CatType, CatElements
<1>5. /\ w \in Seq(Val) /\ Len(w) = Len(x) + Len(dz)
      /\ \A j \in 1..(Len(x) + Len(dz)) : w[j] = IF j <= Len(x) THEN x[j] ELSE dz[j - Len(x)]
  <2>1. dz \in Seq(Val)
    BY <1>3
  <2> QED
    BY <2>1, CatType, CatElements
<1> HIDE DEF buf, w
<1>6. /\ r \in Seq(Val) /\ Len(r) = Len(buf)
      /\ \A j \in 1..Len(buf) :
           r[j] = IF j \in (Len(x) + 1)..(Len(x) + Len(d)) THEN d[j - Len(x)] ELSE buf[j]
  <2>1. buf \in Seq(Val) /\ Len(x) + Len(d) <= Len(buf)
    BY <1>1, <1>2, <1>4
  <2> QED
    BY <1>1, <2>1, CopyCells
<1> HIDE DEF r
<1>7. \A j \in 1..Len(r) : r[j] = w[j]
  <2> TAKE j \in 1..Len(r)
  <2>1. j \in Nat /\ j \in 1..Len(buf) /\ j \in 1..(Len(x) + Len(yz)) /\ j \in 1..(Len(x) + Len(dz))
    BY <1>1, <1>2, <1>3, <1>4, <1>6
  <2>2. r[j] = IF j \in (Len(x) + 1)..(Len(x) + Len(d)) THEN d[j - Len(x)] ELSE buf[j]
    BY <1>6, <2>1
  <2>3. CASE j <= Len(x)
    <3>1. w[j] = x[j] /\ buf[j] = x[j]
      BY <1>4, <1>5, <2>1, <2>3
    <3>2. r[j] = buf[j]
      BY <1>1, <2>1, <2>2, <2>3
    <3> QED
      BY <3>1, <3>2
  <2>4. CASE j \in (Len(x) + 1)..(Len(x) + Len(d))
    <3>1. w[j] = dz[j - Len(x)]
      BY <1>1, <1>5, <2>1, <2>4
    <3>2. j - Len(x) \in 1..(Len(d) + Len(z)) /\ j - Len(x) <= Len(d)
      BY <1>1, <2>4
    <3> QED
      BY <1>3, <2>2, <2>4, <3>1, <3>2
  <2>5. CASE j > Len(x) + Len(d)
    <3>1. w[j] = dz[j - Len(x)] /\ buf[j] = yz[j - Len(x)]
      BY <1>1, <1>4, <1>5, <2>1, <2>5
    <3>2. j - Len(x) \in 1..(Len(d) + Len(z)) /\ ~ (j - Len(x) <= Len(d))
      BY <1>1, <1>2, <2>1, <2>5
    <3>3. r[j] = buf[j]
      BY <1>1, <2>1, <2>2, <2>5
    <3> QED
      BY <1>2, <1>3, <3>1, <3>2, <3>3
  <2> QED
    BY <1>1, <2>1, <2>3, <2>4, <2>5
<1>8. r = w
  <2>1. Len(r) = Len(w)
    BY <1>2, <1>3, <1>4, <1>5, <1>6
  <2> QED
    BY <1>5, <1>6, <1>7, <2>1, SameElements
<1> QED
  BY <1>8 DEF r, w, buf, yz, dz

\* Zeros from two runs of zeros.
LEMMA ZerosSplit ==
  ASSUME NEW n \in Nat, NEW m \in Nat, 0 \in Val
  PROVE  /\ Zeros(n) \in Seq(Val) /\ Len(Zeros(n)) = n
         /\ Zeros(n + m) = Cat(Zeros(n), Zeros(m))
BY DEF Zeros, Cat

\* The three copies of sha256_final into a block of zeros: what waits, the mark
\* and the length, with k zeros between them.
LEMMA ThreeCopies ==
  ASSUME NEW waiting \in Seq(Val), NEW m \in Seq(Val), NEW field \in Seq(Val), NEW k \in Nat,
         0 \in Val
  PROVE  local_memcpy(local_memcpy(local_memcpy(Zeros(Len(waiting) + Len(m) + k + Len(field)),
                                                0, waiting),
                                   Len(waiting), m),
                      Len(waiting) + Len(m) + k, field)
           = Cat(Cat(Cat(waiting, m), Zeros(k)), field)
<1> DEFINE p == Len(waiting)
           q == Len(m)
           L == Len(field)
           zp == Zeros(p)
           zq == Zeros(q)
           zk == Zeros(k)
           zL == Zeros(L)
           zkL == Zeros(k + L)
           zqkL == Zeros(q + (k + L))
           zall == Zeros(p + (q + (k + L)))
           empty == <<>>
<1>1. p \in Nat /\ q \in Nat /\ L \in Nat /\ k \in Nat
      /\ p + q + k + L = p + (q + (k + L)) /\ Len(waiting) = p /\ Len(m) = q /\ Len(field) = L
  OBVIOUS
<1> HIDE DEF p, q, L
<1>2. /\ zp \in Seq(Val) /\ Len(zp) = p /\ zq \in Seq(Val) /\ Len(zq) = q
      /\ zk \in Seq(Val) /\ Len(zk) = k /\ zL \in Seq(Val) /\ Len(zL) = L
      /\ zkL \in Seq(Val) /\ zqkL \in Seq(Val)
      /\ zkL = Cat(zk, zL) /\ zqkL = Cat(zq, zkL) /\ zall = Cat(zp, zqkL)
  <2>1. k + L \in Nat /\ q + (k + L) \in Nat
    BY <1>1
  <2> QED
    BY <1>1, <2>1, ZerosSplit
<1>3. empty \in Seq(Val) /\ Len(empty) = 0 /\ \A s \in Seq(Val) : Cat(s, empty) = s /\ Cat(empty, s) = s
  BY CatEmpty
<1> HIDE DEF zp, zq, zk, zL, zkL, zqkL, zall, empty
<1>4. zall = Cat(empty, Cat(zp, zqkL))
  <2>1. Cat(zp, zqkL) \in Seq(Val)
    BY <1>2, CatType
  <2> QED
    BY <1>2, <1>3, <2>1
<1>5. local_memcpy(zall, 0, waiting) = Cat(waiting, Cat(zq, zkL))
  <2>1. local_memcpy(Cat(empty, Cat(zp, zqkL)), Len(empty), waiting)
          = Cat(empty, Cat(waiting, zqkL))
    <3>1. empty \in Seq(Val) /\ zp \in Seq(Val) /\ zqkL \in Seq(Val) /\ Len(zp) = Len(waiting)
      BY <1>1, <1>2, <1>3
    <3> QED
      BY <3>1, CopyOver
  <2>2. Cat(waiting, zqkL) \in Seq(Val)
    BY <1>2, CatType
  <2> QED
    BY <1>2, <1>3, <1>4, <2>1, <2>2
<1> DEFINE x == Cat(Cat(waiting, m), zk)
<1>6. local_memcpy(Cat(waiting, Cat(zq, zkL)), p, m) = Cat(x, Cat(zL, empty))
  <2>1. local_memcpy(Cat(waiting, Cat(zq, zkL)), Len(waiting), m) = Cat(waiting, Cat(m, zkL))
    BY <1>1, <1>2, CopyOver
  <2>2. Cat(waiting, Cat(m, zkL)) = Cat(Cat(waiting, m), zkL)
    BY <1>2, CatAssoc
  <2>3. Cat(waiting, m) \in Seq(Val)
    BY CatType
  <2>4. Cat(Cat(waiting, m), Cat(zk, zL)) = Cat(x, zL)
    BY <1>2, <2>3, CatAssoc
  <2> QED
    BY <1>1, <1>2, <1>3, <2>1, <2>2, <2>4
<1>7. x \in Seq(Val) /\ Len(x) = p + q + k
  <2>1. Cat(waiting, m) \in Seq(Val) /\ Len(Cat(waiting, m)) = p + q
    BY <1>1, CatType
  <2>2. zk \in Seq(Val) /\ Len(zk) = k
    BY <1>2
  <2>3. x \in Seq(Val) /\ Len(x) = Len(Cat(waiting, m)) + Len(zk)
    BY <2>1, <2>2, CatType
  <2> QED
    BY <2>1, <2>2, <2>3
<1> HIDE DEF x
<1>8. local_memcpy(Cat(x, Cat(zL, empty)), p + q + k, field) = Cat(x, field)
  <2>1. local_memcpy(Cat(x, Cat(zL, empty)), Len(x), field) = Cat(x, Cat(field, empty))
    <3>1. x \in Seq(Val) /\ zL \in Seq(Val) /\ empty \in Seq(Val) /\ Len(zL) = Len(field)
      BY <1>1, <1>2, <1>3, <1>7
    <3> QED
      BY <3>1, CopyOver
  <2> QED
    BY <1>3, <1>7, <2>1
<1>9. Zeros(Len(waiting) + Len(m) + k + Len(field)) = zall
  BY <1>1 DEF zall
<1> QED
  BY <1>1, <1>5, <1>6, <1>8, <1>9 DEF x, zk

\* last_padded_block holds the bytes that wait, the mark, zeros and the length.
LEMMA PaddingLayout ==
  ASSUME NEW a \in Algs, a.family = "sha2", NEW c, c[1] \in Nat,
         NEW buf \in Seq(Val), Len(buf) = a.block,
         PutLength(a, c) \in Seq(Val), Len(PutLength(a, c)) = LengthBytes(a),
         NEW k \in 0..(a.block - 1), ((c[1] % a.block) + (1 + LengthBytes(a)) + k) % a.block = 0
  PROVE  LET present == c[1] % a.block
             padding == sha2_padding(a, c, buf)
         IN  /\ padding = Cat(Cat(Cat(Take(buf, present), <<2^(ByteBits - 1)>>), Zeros(k)),
                             PutLength(a, c))
             /\ padding \in Seq(Val)
             /\ Len(padding) \in {a.block, 2 * a.block}
<1> DEFINE b == a.block
           L == LengthBytes(a)
           p == c[1] % b
           size == IF p > b - 1 - L THEN 2 * b ELSE b
           m == <<2^(ByteBits - 1)>>
           waiting == Take(buf, p)
           field == PutLength(a, c)
           padding == sha2_padding(a, c, buf)
<1>1. /\ b \in Nat \ {0} /\ L \in Nat /\ L < b
      /\ 0 \in Val
  BY AlgAssumption, WordPowers, Marks DEF Val
<1>2. m \in Seq(Val) /\ Len(m) = 1
  <2>1. 2^(ByteBits - 1) \in Val
    BY Marks DEF Val
  <2> QED
    BY <2>1
<1>3. p \in 0..(b - 1)
  BY <1>1, DivMod
<1>4. padding = local_memcpy(local_memcpy(local_memcpy(Zeros(size), 0, waiting), p, m),
                             size - L, field)
  BY DEF sha2_padding, Take
<1>5. field \in Seq(Val) /\ Len(field) = L
  OBVIOUS
<1>6. p + 1 + k + L = size
  <2>1. k \in 0..(b - 1) /\ (p + (1 + L) + k) % b = 0
    OBVIOUS
  <2> HIDE DEF b, L, p
  <2> QED
    BY <1>1, <1>3, <2>1, PaddingSize
<1>7. size \in Nat /\ size \in {b, 2 * b} /\ k \in Nat
  <2>1. k \in 0..(b - 1)
    OBVIOUS
  <2> HIDE DEF b, L, p
  <2> QED
    BY <1>1, <2>1
<1>8. waiting \in Seq(Val) /\ Len(waiting) = p
  <2>1. buf \in Seq(Val) /\ p \in 0..Len(buf)
    BY <1>1, <1>3
  <2> QED
    BY <2>1, CutType
<1> HIDE DEF b, L, p, size, m, waiting, field, padding
<1>9. Len(waiting) + Len(m) + k + Len(field) = size /\ Len(waiting) + Len(m) + k = size - L
  BY <1>1, <1>2, <1>3, <1>5, <1>6, <1>7, <1>8
<1>10. padding = Cat(Cat(Cat(waiting, m), Zeros(k)), field)
  <2>1. waiting \in Seq(Val) /\ m \in Seq(Val) /\ field \in Seq(Val) /\ k \in Nat /\ 0 \in Val
    BY <1>1, <1>2, <1>5, <1>7, <1>8
  <2>2. local_memcpy(local_memcpy(local_memcpy(Zeros(Len(waiting) + Len(m) + k + Len(field)),
                                               0, waiting),
                                  Len(waiting), m),
                     Len(waiting) + Len(m) + k, field)
          = Cat(Cat(Cat(waiting, m), Zeros(k)), field)
    BY <2>1, ThreeCopies
  <2> QED
    BY <1>4, <1>8, <1>9, <2>2
<1>11. padding \in Seq(Val) /\ Len(padding) = size
  <2> DEFINE z == Zeros(k)
             x == Cat(waiting, m)
             y == Cat(x, z)
  <2>1. z \in Seq(Val) /\ Len(z) = k
    BY <1>1, <1>7, ZerosSplit
  <2> HIDE DEF z
  <2>2. x \in Seq(Val) /\ Len(x) = Len(waiting) + Len(m)
    BY <1>2, <1>8, CatType
  <2> HIDE DEF x
  <2>3. y \in Seq(Val) /\ Len(y) = Len(x) + k
    BY <2>1, <2>2, CatType
  <2> HIDE DEF y
  <2>4. Cat(y, field) \in Seq(Val) /\ Len(Cat(y, field)) = Len(y) + Len(field)
    BY <1>5, <2>3, CatType
  <2>5. padding = Cat(y, field)
    BY <1>10 DEF y, x, z
  <2> QED
    BY <1>9, <2>2, <2>3, <2>4, <2>5
<1> QED
  BY <1>7, <1>10, <1>11 DEF waiting, m, field, padding, p, b, size, L

-----------------------------------------------------------------------------
(***************************************************************************)
(* The bytes of the Keccak state.                                          *)
(***************************************************************************)

\* SWAP64_Idx stays in the state and is its own inverse.
LEMMA SwapInverse ==
  ASSUME NEW a \in Algs, a.family = "sha3", NEW j \in 0..(a.block - 1)
  PROVE  /\ SWAP64_Idx(a, j) \in 0..(a.block - 1)
         /\ SWAP64_Idx(a, SWAP64_Idx(a, j)) = j
<1> DEFINE b == a.block
           w == a.word
           q == j \div w
           r == j % w
           B == b \div w
           k == SWAP64_Idx(a, j)
<1>1. b \in Nat \ {0} /\ w \in Nat \ {0} /\ b % w = 0 /\ a.big \in BOOLEAN
  BY AlgAssumption
<1>2. j \in Nat /\ j < b
  BY <1>1
<1>3. CASE a.big = FALSE
  BY <1>3 DEF SWAP64_Idx
<1>4. CASE a.big = TRUE
  <2>1. \A i : SWAP64_Idx(a, i) = (i - (i % w)) + (w - 1) - (i % w)
    BY <1>4 DEF SWAP64_Idx
  <2> HIDE DEF b, w, k
  <2>2. q \in Nat /\ r \in 0..(w - 1) /\ j = w * q + r
    BY <1>1, <1>2, DivMod
  <2>3. B \in Nat /\ b = w * B
    <3>1. b = w * B + (b % w) /\ B \in Nat
      BY <1>1, DivMod
    <3>2. w * B \in Nat
      BY <1>1, <3>1
    <3> QED
      BY <1>1, <3>1, <3>2
  <2>4. k = w * q + (w - 1 - r)
    <3>1. k = (j - r) + (w - 1) - r
      BY <2>1 DEF k
    <3>2. w * q \in Nat
      BY <1>1, <2>2
    <3> QED
      BY <1>1, <2>2, <3>1, <3>2
  <2> HIDE DEF q, r, B
  <2>5. q < B
    <3>1. ASSUME q >= B PROVE FALSE
      <4>1. w * q >= w * B /\ w * q \in Nat
        BY <1>1, <2>2, <2>3, <3>1
      <4> QED
        BY <1>2, <2>2, <2>3, <4>1
    <3> QED
      BY <2>2, <2>3, <3>1
  <2>6. k \in 0..(b - 1)
    <3>1. w * (q + 1) <= w * B /\ w * (q + 1) = w * q + w /\ w * q \in Nat
      BY <1>1, <2>2, <2>3, <2>5
    <3> QED
      BY <1>1, <2>2, <2>3, <2>4, <3>1
  <2>7. k % w = w - 1 - r
    <3> DEFINE rr == w - 1 - r
    <3>1. rr \in 0..(w - 1) /\ k \in Nat /\ w \in Nat \ {0} /\ q \in Nat /\ k = w * q + rr
      BY <1>1, <2>2, <2>4, <2>6
    <3> HIDE DEF rr
    <3>2. k % w = rr
      BY <3>1, DivUnique
    <3> QED
      BY <3>2 DEF rr
  <2>8. SWAP64_Idx(a, k) = j
    <3>1. SWAP64_Idx(a, k) = (k - (w - 1 - r)) + (w - 1) - (w - 1 - r)
      BY <2>1, <2>7
    <3>2. w * q \in Nat
      BY <1>1, <2>2
    <3> QED
      BY <1>1, <2>2, <2>4, <3>1, <3>2
  <2> QED
    BY <2>6, <2>8 DEF k, b
<1> QED
  BY <1>1, <1>3, <1>4

\* The lanes of a cleared state are empty, on both kinds of machines.
LEMMA LanesUntouched ==
  ASSUME NEW a \in Algs, a.family = "sha3"
  PROVE  /\ Untouched(a) \in Seq(Val) /\ Len(Untouched(a)) = a.block
         /\ \A j \in 1..a.block : Untouched(a)[j] \in SUBSET Byte
         /\ \A j \in 1..a.block : Lanes(a, Untouched(a))[j] = {}
<1>1. a.block \in Nat \ {0}
  BY AlgAssumption
<1>2. {} \in Val /\ {} \in SUBSET Byte
  BY DEF Val
<1>3. Untouched(a) = [j \in 1..a.block |-> {}]
  BY DEF Untouched
<1>4. ASSUME NEW j \in 1..a.block PROVE Lanes(a, Untouched(a))[j] = {}
  <2>1. j - 1 \in 0..(a.block - 1)
    BY <1>1
  <2>2. SWAP64_Idx(a, j - 1) + 1 \in 1..a.block
    BY <1>1, <2>1, SwapInverse
  <2>3. Lanes(a, Untouched(a))[j] = Untouched(a)[SWAP64_Idx(a, j - 1) + 1]
    BY DEF Lanes
  <2> QED
    BY <1>3, <2>2, <2>3
<1>5. Untouched(a) \in Seq(Val) /\ Len(Untouched(a)) = a.block
  <2> DEFINE empty == {}
             n == a.block
  <2>1. empty \in Val /\ n \in Nat /\ Untouched(a) = [j \in 1..n |-> empty]
    BY <1>1, <1>2, <1>3
  <2> HIDE DEF empty, n
  <2>2. Untouched(a) \in Seq(Val) /\ Len(Untouched(a)) = n
    BY <2>1
  <2> QED
    BY <2>2 DEF n
<1>6. \A j \in 1..a.block : Untouched(a)[j] \in SUBSET Byte
  BY <1>2, <1>3
<1> QED
  BY <1>4, <1>5, <1>6

\* The lanes of a state are a sequence of sets of bytes.
LEMMA LanesType ==
  ASSUME NEW a \in Algs, a.family = "sha3", NEW state,
         \A j \in 1..a.block : state[j] \in SUBSET Byte
  PROVE  /\ Lanes(a, state) \in Seq(Val) /\ Len(Lanes(a, state)) = a.block
         /\ \A j \in 1..a.block : Lanes(a, state)[j] \in SUBSET Byte
<1>1. a.block \in Nat \ {0} /\ SUBSET Byte \subseteq Val
  BY AlgAssumption DEF Val
<1> DEFINE f(j) == state[SWAP64_Idx(a, j - 1) + 1]
<1>2. \A j \in 1..a.block : f(j) \in SUBSET Byte
  <2> TAKE j \in 1..a.block
  <2>1. j - 1 \in 0..(a.block - 1)
    BY <1>1
  <2>2. SWAP64_Idx(a, j - 1) + 1 \in 1..a.block
    BY <1>1, <2>1, SwapInverse
  <2> QED
    BY <2>2
<1>3. Lanes(a, state) = [j \in 1..a.block |-> f(j)]
  BY DEF Lanes
<1> HIDE DEF f
<1>4. \A j \in 1..a.block : f(j) \in Val
  BY <1>1, <1>2
<1>5. Lanes(a, state) \in Seq(Val) /\ Len(Lanes(a, state)) = a.block
  BY <1>1, <1>3, <1>4
<1>6. \A j \in 1..a.block : Lanes(a, state)[j] = f(j)
  BY <1>3
<1> QED
  BY <1>2, <1>5, <1>6

\* A state of Keccak.
State(a, s) ==
  s \in Seq(Val) /\ Len(s) = a.block /\ \A j \in 1..a.block : s[j] \in SUBSET Byte

Toggle(lane, byte) == SymmetricDifference(lane, {byte})

\* Xoring a byte at an index changes that lane only.
LEMMA LanesXor ==
  ASSUME NEW a \in Algs, a.family = "sha3", NEW state, State(a, state),
         NEW idx \in 0..(a.block - 1), NEW byte \in Byte
  PROVE  /\ State(a, XorByte(a, state, idx, byte))
         /\ \A j \in 1..a.block :
              Lanes(a, XorByte(a, state, idx, byte))[j] =
                IF j = idx + 1 THEN Toggle(Lanes(a, state)[j], byte) ELSE Lanes(a, state)[j]
<1> DEFINE x == XorByte(a, state, idx, byte)
           at == SWAP64_Idx(a, idx) + 1
<1>0. /\ state \in Seq(Val) /\ Len(state) = a.block
      /\ \A j \in 1..a.block : state[j] \in SUBSET Byte
  BY DEF State
<1>1. a.block \in Nat \ {0} /\ SUBSET Byte \subseteq Val
  BY AlgAssumption DEF Val
<1>2. at \in 1..a.block
  BY <1>1, SwapInverse
<1>3. x = [state EXCEPT ![at] = SymmetricDifference(state[at], {byte})]
  BY DEF XorByte
<1> HIDE DEF x
<1>4. SymmetricDifference(state[at], {byte}) \in SUBSET Byte
  BY <1>0, <1>2 DEF SymmetricDifference
<1> DEFINE new == SymmetricDifference(state[at], {byte})
<1>5. x \in Seq(Val) /\ Len(x) = a.block
  <2>1. new \in Val
    BY <1>1, <1>4
  <2> HIDE DEF new
  <2> QED
    BY <1>0, <1>1, <1>2, <1>3, <2>1 DEF new
<1>6. \A j \in 1..a.block : x[j] = IF j = at THEN new ELSE state[j]
  <2> HIDE DEF new
  <2> QED
    BY <1>0, <1>1, <1>2, <1>3 DEF new
<1>7. \A j \in 1..a.block : x[j] \in SUBSET Byte
  BY <1>0, <1>4, <1>6
<1>8. ASSUME NEW j \in 1..a.block
      PROVE  Lanes(a, x)[j] = IF j = idx + 1 THEN Toggle(Lanes(a, state)[j], byte)
                              ELSE Lanes(a, state)[j]
  <2> DEFINE k == SWAP64_Idx(a, j - 1) + 1
  <2>1. j - 1 \in 0..(a.block - 1)
    BY <1>1
  <2>2. k \in 1..a.block
    BY <1>1, <2>1, SwapInverse
  <2>3. Lanes(a, x)[j] = x[k] /\ Lanes(a, state)[j] = state[k]
    BY DEF Lanes
  <2>4. k = at <=> j = idx + 1
    <3>1. SWAP64_Idx(a, SWAP64_Idx(a, j - 1)) = j - 1 /\ SWAP64_Idx(a, SWAP64_Idx(a, idx)) = idx
          /\ SWAP64_Idx(a, j - 1) \in Int /\ SWAP64_Idx(a, idx) \in Int
      BY <1>1, <2>1, SwapInverse
    <3>2. CASE j = idx + 1
      <4>1. j - 1 = idx
        BY <1>1, <3>2
      <4> QED
        BY <3>2, <4>1
    <3>3. CASE k = at
      <4>1. SWAP64_Idx(a, j - 1) = SWAP64_Idx(a, idx)
        BY <3>1, <3>3
      <4>2. j - 1 = idx
        BY <3>1, <4>1
      <4> QED
        BY <1>1, <3>3, <4>2
    <3> QED
      BY <3>2, <3>3
  <2> HIDE DEF k, at
  <2> QED
    BY <1>6, <2>2, <2>3, <2>4 DEF Toggle
<1>9. State(a, x)
  BY <1>5, <1>7 DEF State
<1> QED
  BY <1>8, <1>9 DEF x

-----------------------------------------------------------------------------
(***************************************************************************)
(* The inductive invariant.  Beyond StreamInv and DigestCorrect it says    *)
(* which family is where, that what an update has left to treat after the  *)
(* block it completed starts at an empty buffer or does not fill it, and   *)
(* what the counter of the other two families counts.                      *)
(***************************************************************************)

Typed ==
  /\ alg \in Algs /\ text \in Texts /\ fed \in 0..Len(text)
  /\ pc \in {"none", "open", "fill", "blocks", "absorb", "copy", "final"}
  /\ count \in (0..(WordValues(alg) - 1)) \X (0..(WordValues(alg) - 1))
  /\ buffer \in Seq(Val) /\ Len(buffer) = alg.block
  /\ (pc = "none" => alg.family # "sha3") => \A j \in 1..alg.block : buffer[j] \in Cells
  /\ left \in 0..(alg.block - 1)
  /\ input \in Seq(Byte) /\ Len(input) <= MaxChunk /\ Len(input) <= fed
  /\ absorbed \in Seq(Val) /\ Len(absorbed) % alg.block = 0

Control ==
  /\ pc \in {"fill", "blocks"} => alg.family = "sha2"
  /\ pc = "absorb" => alg.family = "sha3" /\ input # <<>>
  /\ pc = "copy" => alg.family = "copy"
  /\ pc \in {"none", "open", "final"} => input = <<>>
  /\ pc = "blocks" => left = 0 \/ left + Len(input) < alg.block

Waiting == IF pc = "blocks" THEN left ELSE count[1] % alg.block
Treated == fed - Len(input)
Counted == IF pc = "fill" THEN Treated ELSE fed

Sha2Stream ==
  alg.family = "sha2" /\ pc \in {"open", "fill", "blocks"} =>
    /\ Cat(Cat(absorbed, Take(buffer, Waiting)), input) = Take(text, fed)
    /\ count[1] + WordValues(alg) * count[2] = Counted

Sha3Stream ==
  alg.family = "sha3" /\ pc \in {"open", "absorb"} =>
    /\ count[1] < alg.block
    /\ Cat(Cat(absorbed, Take(Lanes(alg, buffer), count[1])), Singletons(input))
         = Singletons(Take(text, fed))
    /\ \A j \in (count[1] + 1)..alg.block : Lanes(alg, buffer)[j] = {}

CopyStream ==
  alg.family = "copy" /\ pc \in {"open", "copy"} =>
    /\ count[1] = IF Treated < alg.block THEN Treated ELSE alg.block
    /\ Take(buffer, count[1]) = Take(text, count[1])
    /\ input = SubSeq(text, Treated + 1, Treated + Len(input))

IInv == Typed /\ Control /\ Sha2Stream /\ Sha3Stream /\ CopyStream /\ DigestCorrect

\* What the lemmas below use of the assumptions on the functions and texts.
LEMMA AlgFacts ==
  ASSUME NEW a \in Algs
  PROVE  /\ a.block \in Nat \ {0} /\ WordValues(a) \in Nat \ {0} /\ a.block < WordValues(a)
         /\ MaxChunk \in Nat /\ MaxChunk < WordValues(a)
         /\ a.family \in {"sha2", "sha3", "copy"}
         /\ Texts \subseteq Seq(Byte) /\ Seq(Byte) \subseteq Seq(Val)
<1>1. Byte \subseteq Val
  BY DEF Val
<1>2. Seq(Byte) \subseteq Seq(Val)
  BY <1>1
<1> QED
  BY <1>2, AlgAssumption, CounterCapacity, TextAssumption

\* Before the first init.
LEMMA InitInv == Init => IInv
<1> SUFFICES ASSUME Init PROVE IInv
  OBVIOUS
<1>1. /\ alg \in Algs /\ pc = "none" /\ text \in Texts /\ fed = 0 /\ count = <<0, 0>> /\ left = 0
      /\ buffer = [j \in 1..alg.block |-> Junk] /\ input = <<>> /\ absorbed = <<>>
  BY DEF Init
<1>2. alg.block \in Nat \ {0} /\ WordValues(alg) \in Nat \ {0} /\ MaxChunk \in Nat
      /\ Texts \subseteq Seq(Byte)
  BY <1>1, AlgFacts
<1>3. Typed
  <2>1. buffer \in Seq(Val) /\ Len(buffer) = alg.block
    <3>1. Junk \in Val
      BY DEF Val
    <3> QED
      BY <1>1, <1>2, <3>1, SMTT(30)
  <2>2. absorbed \in Seq(Val) /\ Len(absorbed) % alg.block = 0
    <3>1. 0 % alg.block = 0
      BY <1>2
    <3> QED
      BY <1>1, <3>1
  <2>3. fed \in 0..Len(text) /\ input \in Seq(Byte) /\ Len(input) <= MaxChunk /\ Len(input) <= fed
    BY <1>1, <1>2
  <2>4. count \in (0..(WordValues(alg) - 1)) \X (0..(WordValues(alg) - 1))
    BY <1>1, <1>2
  <2>5. left \in 0..(alg.block - 1)
    BY <1>1, <1>2
  <2>6. alg.family # "sha3" => \A j \in 1..alg.block : buffer[j] \in Cells
    BY <1>1 DEF Cells
  <2> QED
    BY <1>1, <2>1, <2>2, <2>3, <2>4, <2>5, <2>6 DEF Typed
<1>4. Control /\ Sha2Stream /\ Sha3Stream /\ CopyStream /\ DigestCorrect
  BY <1>1 DEF Control, Sha2Stream, Sha3Stream, CopyStream, DigestCorrect
<1> QED
  BY <1>3, <1>4 DEF IInv

\* The singletons of a concatenation.
LEMMA SingletonsCat ==
  ASSUME NEW s \in Seq(Byte), NEW t \in Seq(Byte)
  PROVE  /\ Singletons(Cat(s, t)) = Cat(Singletons(s), Singletons(t))
         /\ Singletons(s) \in Seq(Val) /\ Len(Singletons(s)) = Len(s)
         /\ Singletons(<<>>) = <<>>
<1>1. \A x \in Seq(Byte) : Singletons(x) \in Seq(Val) /\ Len(Singletons(x)) = Len(x)
                           /\ \A j \in 1..Len(x) : Singletons(x)[j] = {x[j]}
  <2> TAKE x \in Seq(Byte)
  <2>1. Len(x) \in Nat /\ \A j \in 1..Len(x) : {x[j]} \in Val
    BY DEF Val
  <2> QED
    BY <2>1 DEF Singletons
<1> DEFINE u == Cat(s, t)
           x == Singletons(u)
           v == Singletons(s)
           w == Singletons(t)
           y == Cat(v, w)
<1>2. u \in Seq(Byte) /\ Len(u) = Len(s) + Len(t) /\ Len(s) \in Nat /\ Len(t) \in Nat
  <2>1. u \in Seq(Byte) /\ Len(u) = Len(s) + Len(t)
    BY CatType
  <2> HIDE DEF u
  <2> QED
    BY <2>1
<1>3. \A j \in 1..(Len(s) + Len(t)) : u[j] = IF j <= Len(s) THEN s[j] ELSE t[j - Len(s)]
  BY CatElements
<1> HIDE DEF u
<1>4. /\ v \in Seq(Val) /\ Len(v) = Len(s) /\ w \in Seq(Val) /\ Len(w) = Len(t)
      /\ x \in Seq(Val) /\ Len(x) = Len(s) + Len(t)
  BY <1>1, <1>2
<1>5. y \in Seq(Val) /\ Len(y) = Len(v) + Len(w)
      /\ \A j \in 1..(Len(v) + Len(w)) : y[j] = IF j <= Len(v) THEN v[j] ELSE w[j - Len(v)]
  <2>1. v \in Seq(Val) /\ w \in Seq(Val)
    BY <1>4
  <2> HIDE DEF v, w
  <2>2. y \in Seq(Val) /\ Len(y) = Len(v) + Len(w)
    BY <2>1, CatType
  <2>3. \A j \in 1..(Len(v) + Len(w)) : y[j] = IF j <= Len(v) THEN v[j] ELSE w[j - Len(v)]
    BY <2>1, CatElements
  <2> QED
    BY <2>2, <2>3
<1>6. \A j \in 1..Len(x) : x[j] = y[j]
  <2> TAKE j \in 1..Len(x)
  <2>1. j \in 1..(Len(s) + Len(t)) /\ x[j] = {u[j]}
    BY <1>1, <1>2, <1>4
  <2>2. y[j] = IF j <= Len(s) THEN v[j] ELSE w[j - Len(s)]
    BY <1>4, <1>5, <2>1
  <2>3. j <= Len(s) => v[j] = {s[j]}
    BY <1>1, <1>2, <2>1
  <2>4. ~ (j <= Len(s)) => w[j - Len(s)] = {t[j - Len(s)]}
    <3>1. ~ (j <= Len(s)) => j - Len(s) \in 1..Len(t)
      BY <1>2, <2>1
    <3> QED
      BY <1>1, <3>1
  <2> QED
    BY <1>3, <2>1, <2>2, <2>3, <2>4
<1> HIDE DEF x, y
<1>7. x = y
  <2>1. Len(x) = Len(y)
    BY <1>4, <1>5
  <2> QED
    BY <1>4, <1>5, <1>6, <2>1, SameElements
<1>8. Singletons(<<>>) = <<>>
  BY DEF Singletons
<1> QED
  BY <1>1, <1>7, <1>8 DEF x, y, u, v, w

\* hfunc_init, at any moment between two calls.
LEMMA HashInitInv ==
  ASSUME IInv, NEW t \in Texts, hash_init(t)
  PROVE  IInv'
<1>1. /\ pc \in {"none", "open", "final"} /\ pc' = "open" /\ text' = t /\ fed' = 0
      /\ count' = <<0, 0>> /\ absorbed' = <<>> /\ alg' = alg /\ left' = left /\ input' = input
      /\ buffer' = IF alg.family = "sha3" THEN Untouched(alg) ELSE buffer
  BY DEF hash_init
<1>2. alg \in Algs /\ left \in 0..(alg.block - 1) /\ input = <<>>
  BY <1>1 DEF IInv, Typed, Control
<1>3. alg.block \in Nat \ {0} /\ WordValues(alg) \in Nat \ {0} /\ MaxChunk \in Nat
      /\ t \in Seq(Byte)
  BY <1>2, AlgFacts
<1>4. /\ buffer' \in Seq(Val) /\ Len(buffer') = alg.block
      /\ \A j \in 1..alg.block : buffer'[j] \in Cells
  <2>1. CASE alg.family = "sha3"
    <3>1. Cells = SUBSET Byte
      BY <2>1 DEF Cells
    <3> QED
      BY <1>1, <1>2, <2>1, <3>1, LanesUntouched
  <2>2. CASE alg.family # "sha3"
    BY <1>1, <2>2 DEF IInv, Typed
  <2> QED
    BY <2>1, <2>2
<1>5. <<>> \in Seq(Val) /\ Len(<<>>) = 0 /\ Cat(<<>>, <<>>) = <<>>
      /\ Take(t, 0) = <<>> /\ Take(buffer', 0) = <<>>
  BY <1>3, <1>4, CatEmpty, TakeAll
<1>6. Typed'
  <2>1. Cells' = Cells
    BY <1>1 DEF Cells
  <2>2. 0 % alg.block = 0
    BY <1>3
  <2>3. count' \in (0..(WordValues(alg) - 1)) \X (0..(WordValues(alg) - 1))
    BY <1>1, <1>3
  <2>4. fed' \in 0..Len(text') /\ input' \in Seq(Byte) /\ Len(input') <= MaxChunk /\ Len(input') <= fed'
    BY <1>1, <1>2, <1>3, <1>5
  <2>5. WordValues(alg') = WordValues(alg)
    BY <1>1
  <2> QED
    BY <1>1, <1>2, <1>4, <1>5, <2>1, <2>2, <2>3, <2>4, <2>5 DEF Typed
<1>7. Control'
  BY <1>1, <1>2 DEF Control
<1>8. Sha2Stream'
  <2>1. Waiting' = 0 /\ Counted' = 0
    <3>1. 0 % alg.block = 0
      BY <1>3
    <3> QED
      BY <1>1, <3>1 DEF Waiting, Counted
  <2>2. count'[1] + WordValues(alg) * count'[2] = 0
    BY <1>1, <1>3
  <2> QED
    BY <1>1, <1>2, <1>5, <2>1, <2>2 DEF Sha2Stream
<1>9. Sha3Stream'
  <2>1. CASE alg.family = "sha3"
    <3>1. count'[1] = 0 /\ Singletons(<<>>) = <<>>
      BY <1>1, <1>3, SingletonsCat
    <3>2. Lanes(alg, buffer') \in Seq(Val) /\ \A j \in 1..alg.block : Lanes(alg, buffer')[j] = {}
      BY <1>1, <1>2, <2>1, LanesUntouched, LanesType
    <3>3. Take(Lanes(alg, buffer'), 0) = <<>>
      BY <3>2, TakeAll
    <3>4. count'[1] < alg.block /\ 0 + 1 = 1
      BY <1>3, <3>1
    <3> QED
      BY <1>1, <1>2, <1>5, <3>1, <3>2, <3>3, <3>4 DEF Sha3Stream
  <2>2. CASE alg.family # "sha3"
    BY <1>1, <2>2 DEF Sha3Stream
  <2> QED
    BY <2>1, <2>2
<1>10. CopyStream'
  <2>1. SubSeq(t, 0 + 1, 0 + 0) = <<>>
    BY <1>3
  <2>2. count'[1] = 0 /\ Treated' = 0 /\ Len(input') = 0 /\ 0 < alg.block
    <3>1. Len(input') = 0 /\ fed' = 0
      BY <1>1, <1>2, <1>5
    <3>2. count'[1] = 0
      BY <1>1
    <3>3. Treated' = 0
      BY <3>1 DEF Treated
    <3> QED
      BY <1>3, <3>1, <3>2, <3>3
  <2>3. input' = SubSeq(text', Treated' + 1, Treated' + Len(input'))
    BY <1>1, <1>2, <2>1, <2>2
  <2>4. Take(buffer', count'[1]) = Take(text', count'[1])
    BY <1>1, <1>5, <2>2
  <2>5. count'[1] = IF Treated' < alg'.block THEN Treated' ELSE alg'.block
    BY <1>1, <2>2
  <2> QED
    BY <2>3, <2>4, <2>5 DEF CopyStream
<1>11. DigestCorrect'
  BY <1>1 DEF DigestCorrect
<1> QED
  BY <1>6, <1>7, <1>8, <1>9, <1>10, <1>11 DEF IInv

\* hfunc_update is called.
LEMMA HashUpdateInv ==
  ASSUME IInv, NEW n \in 0..MaxChunk, hash_update(n)
  PROVE  IInv'
<1>1. /\ pc = "open" /\ fed + n <= Len(text)
      /\ input' = SubSeq(text, fed + 1, fed + n) /\ fed' = fed + n
      /\ alg' = alg /\ text' = text /\ count' = count /\ buffer' = buffer /\ left' = left
      /\ absorbed' = absorbed
  BY DEF hash_update
<1>2. /\ alg \in Algs /\ text \in Texts /\ fed \in 0..Len(text) /\ input = <<>>
      /\ absorbed \in Seq(Val) /\ Len(buffer) = alg.block /\ buffer \in Seq(Val)
  BY <1>1 DEF IInv, Typed, Control
<1>3. /\ MaxChunk \in Nat /\ n \in Nat /\ n <= MaxChunk /\ text \in Seq(Byte) /\ text \in Seq(Val)
      /\ fed \in Nat /\ Len(text) \in Nat /\ alg.block \in Nat \ {0}
      /\ alg.family \in {"sha2", "sha3", "copy"}
  <2>1. /\ MaxChunk \in Nat /\ text \in Seq(Byte) /\ text \in Seq(Val) /\ alg.block \in Nat \ {0}
        /\ alg.family \in {"sha2", "sha3", "copy"}
    BY <1>2, AlgFacts
  <2> QED
    BY <1>2, <2>1
<1>4. pc' = CASE n = 0 -> "open"
              [] n > 0 /\ alg.family = "sha2" -> "fill"
              [] n > 0 /\ alg.family = "sha3" -> "absorb"
              [] n > 0 /\ alg.family = "copy" -> "copy"
  BY DEF hash_update
<1>5. \/ n = 0 /\ pc' = "open"
      \/ n > 0 /\ alg.family = "sha2" /\ pc' = "fill"
      \/ n > 0 /\ alg.family = "sha3" /\ pc' = "absorb"
      \/ n > 0 /\ alg.family = "copy" /\ pc' = "copy"
  <2>1. CASE n = 0
    BY <1>3, <1>4, <2>1
  <2>2. CASE n > 0 /\ alg.family = "sha2"
    BY <1>3, <1>4, <2>2
  <2>3. CASE n > 0 /\ alg.family = "sha3"
    BY <1>3, <1>4, <2>3
  <2>4. CASE n > 0 /\ alg.family = "copy"
    BY <1>3, <1>4, <2>4
  <2> QED
    BY <1>3, <2>1, <2>2, <2>3, <2>4
<1>6. /\ input' \in Seq(Byte) /\ Len(input') = n
      /\ Take(text, fed + n) = Cat(Take(text, fed), input')
      /\ Take(text, fed) \in Seq(Byte)
  <2>1. text \in Seq(Byte) /\ fed \in Nat /\ n \in Nat /\ fed + n <= Len(text)
    BY <1>1, <1>3
  <2> DEFINE x == SubSeq(text, fed + 1, fed + n)
  <2>2. x \in Seq(Byte) /\ Len(x) = n /\ Take(text, fed + n) = Cat(Take(text, fed), x)
    <3>1. Take(text, fed + n) = Cat(Take(text, fed), x)
      <4>1. SubSeq(text, 1, fed + n) = SubSeq(text, 1, fed) \o x
        BY ONLY <2>1
      <4> QED
        BY <4>1 DEF Take, Cat
    <3>2. x = SubSeq(text, fed + 1, fed + n)
      OBVIOUS
    <3> HIDE DEF x
    <3>3. x \in Seq(Byte) /\ Len(x) = n
      BY ONLY <2>1, <3>2, MiddleElements
    <3> QED
      BY <3>1, <3>3
  <2>3. Take(text, fed) \in Seq(Byte)
    BY <1>2, <2>1, CutType
  <2>4. input' = x
    BY <1>1
  <2> QED
    BY <2>2, <2>3, <2>4
<1>7. Typed'
  <2>1. Cells' = Cells
    BY <1>1 DEF Cells
  <2>2. fed' \in 0..Len(text') /\ Len(input') <= MaxChunk /\ Len(input') <= fed'
    BY <1>1, <1>2, <1>3, <1>6
  <2>3. WordValues(alg') = WordValues(alg)
    BY <1>1
  <2>4. pc' \in {"none", "open", "fill", "blocks", "absorb", "copy", "final"} /\ pc' # "none"
        /\ pc # "none"
    BY <1>1, <1>5
  <2> QED
    BY <1>1, <1>6, <2>1, <2>2, <2>3, <2>4 DEF IInv, Typed
<1>8. Control'
  <2>1. n = 0 => input' = <<>>
    BY <1>6
  <2>2. n > 0 => input' # <<>>
    BY <1>6
  <2>3. alg' = alg
    BY <1>1
  <2> QED
    BY <1>3, <1>5, <2>1, <2>2, <2>3 DEF Control
<1>9. Treated' = fed /\ (n = 0 => fed' = fed)
  BY <1>1, <1>3, <1>6 DEF Treated
<1>10. Sha2Stream'
  <2>1. CASE alg.family = "sha2"
    <3>1. pc' \in {"open", "fill"} /\ Waiting' = Waiting /\ Counted' = Counted
      BY <1>1, <1>3, <1>5, <1>9, <2>1 DEF Waiting, Counted
    <3>2. /\ Cat(Cat(absorbed, Take(buffer, Waiting)), <<>>) = Take(text, fed)
          /\ count[1] + WordValues(alg) * count[2] = Counted
      BY <1>1, <1>2, <2>1 DEF IInv, Sha2Stream
    <3>3. Cat(absorbed, Take(buffer, Waiting)) \in Seq(Val)
      <4>1. Waiting \in 0..Len(buffer)
        BY <1>1, <1>2, <1>3, SMTT(30) DEF IInv, Typed, Waiting
      <4> QED
        BY <1>2, <4>1, CutType, CatType
    <3>4. Cat(absorbed, Take(buffer, Waiting)) = Take(text, fed)
      BY <3>2, <3>3, CatEmpty
    <3> QED
      BY <1>1, <1>6, <3>1, <3>2, <3>4 DEF Sha2Stream
  <2>2. CASE alg.family # "sha2"
    BY <1>1, <2>2 DEF Sha2Stream
  <2> QED
    BY <2>1, <2>2
<1>11. Sha3Stream'
  <2>1. CASE alg.family = "sha3"
    <3> DEFINE lanes == Lanes(alg, buffer)
               done == Cat(absorbed, Take(lanes, count[1]))
    <3>1. /\ count[1] < alg.block
          /\ Cat(done, Singletons(<<>>)) = Singletons(Take(text, fed))
          /\ \A j \in (count[1] + 1)..alg.block : lanes[j] = {}
      BY <1>1, <1>2, <2>1 DEF IInv, Sha3Stream
    <3>2. done \in Seq(Val)
      <4>1. lanes \in Seq(Val) /\ Len(lanes) = alg.block
        <5>1. Cells = SUBSET Byte /\ pc # "none"
          BY <1>1, <2>1 DEF Cells
        <5>2. \A j \in 1..alg.block : buffer[j] \in SUBSET Byte
          BY <2>1, <5>1 DEF IInv, Typed
        <5> QED
          BY <1>2, <2>1, <5>2, LanesType
      <4>2. count[1] \in 0..Len(lanes)
        BY <1>3, <3>1, <4>1 DEF IInv, Typed
      <4> HIDE DEF lanes
      <4> QED
        BY <1>2, <4>1, <4>2, CutType, CatType
    <3> HIDE DEF done
    <3>3. done = Singletons(Take(text, fed))
      BY <1>6, <3>1, <3>2, SingletonsCat, CatEmpty
    <3>4. Singletons(Take(text, fed')) = Cat(Singletons(Take(text, fed)), Singletons(input'))
      BY <1>1, <1>6, SingletonsCat
    <3>5. Cat(Cat(absorbed', Take(Lanes(alg', buffer'), count'[1])), Singletons(input'))
            = Singletons(Take(text', fed'))
      BY <1>1, <3>3, <3>4 DEF done
    <3> QED
      BY <1>1, <3>1, <3>5 DEF Sha3Stream
  <2>2. CASE alg.family # "sha3"
    BY <1>1, <2>2 DEF Sha3Stream
  <2> QED
    BY <2>1, <2>2
<1>12. CopyStream'
  <2>1. CASE alg.family = "copy"
    <3>1. Treated = fed
      <4>1. Len(input) = 0
        BY <1>2
      <4> QED
        BY <1>3, <4>1 DEF Treated
    <3>2. /\ count[1] = IF fed < alg.block THEN fed ELSE alg.block
          /\ Take(buffer, count[1]) = Take(text, count[1])
      BY <1>1, <2>1, <3>1 DEF IInv, CopyStream
    <3>3. input' = SubSeq(text', Treated' + 1, Treated' + Len(input'))
      BY <1>1, <1>6, <1>9
    <3> QED
      BY <1>1, <1>9, <3>2, <3>3 DEF CopyStream
  <2>2. CASE alg.family # "copy"
    BY <1>1, <2>2 DEF CopyStream
  <2> QED
    BY <2>1, <2>2
<1>13. DigestCorrect'
  BY <1>5 DEF DigestCorrect
<1> QED
  BY <1>7, <1>8, <1>10, <1>11, <1>12, <1>13 DEF IInv

\* Whole blocks do not change the remainder.
LEMMA BlockRemainder ==
  ASSUME NEW b \in Nat \ {0}, NEW m \in Nat, m % b = 0, NEW r \in 0..(b - 1)
  PROVE  (m + r) % b = r
<1> DEFINE x == m \div b
           n == m + r
<1>1. x \in Nat /\ m = b * x
  BY DivMod
<1>2. n \in Nat /\ n = b * x + r
  BY <1>1
<1> HIDE DEF n, x
<1>3. n % b = r
  BY <1>1, <1>2, DivUnique
<1> QED
  BY <1>3 DEF n

\* Neither does the high word of the counter: a block divides its modulus.
LEMMA CounterRemainder ==
  ASSUME NEW a \in Algs, a.family = "sha2", NEW c, c[1] \in Nat, c[2] \in Nat
  PROVE  (c[1] + WordValues(a) * c[2]) % a.block = c[1] % a.block
<1> DEFINE b == a.block
           W == WordValues(a)
           y == W \div b
           z == y * c[2]
<1>1. b \in Nat \ {0} /\ W \in Nat /\ W % b = 0
  BY AlgFacts, AlgAssumption
<1> HIDE DEF b, W
<1>2. y \in Nat /\ W = b * y
  <2>1. y \in Nat /\ W = b * y + (W % b)
    BY <1>1, DivMod
  <2>2. b * y \in Nat
    BY <1>1, <2>1
  <2> HIDE DEF y
  <2> QED
    BY <1>1, <2>1, <2>2
<1> HIDE DEF y
<1>3. z \in Nat /\ c[1] + W * c[2] = c[1] + b * z
  BY <1>2, <1>1
<1> HIDE DEF z
<1>4. (c[1] + b * z) % b = c[1] % b
  <2> DEFINE n == c[1]
  <2>1. n \in Nat /\ b \in Nat \ {0} /\ z \in Nat
    BY <1>1, <1>3
  <2> HIDE DEF n
  <2>2. (n + b * z) % b = n % b
    BY ONLY <2>1, AddMultiple
  <2> QED
    BY <2>2 DEF n
<1> QED
  BY <1>3, <1>4 DEF b, W

\* sha256_update up to its loop.
LEMMA Sha2FillInv ==
  ASSUME IInv, Sha2Fill
  PROVE  IInv'
<1> DEFINE b == alg.block
           W == WordValues(alg)
           present == count[1] % b
           fill == b - present
           block == local_memcpy(buffer, present, SubSeq(input, 1, fill))
           completes == present > 0 /\ Len(input) >= fill
           data == Take(input, fill)
           waits == Take(buffer, present)
<1>1. /\ pc = "fill" /\ pc' = "blocks"
      /\ count' = ADD_UINT128_UINT64(alg, count, Len(input))
      /\ left' = IF completes THEN 0 ELSE present
      /\ buffer' = IF completes THEN block ELSE buffer
      /\ absorbed' = IF completes THEN absorbed \o block ELSE absorbed
      /\ input' = IF completes THEN SubSeq(input, fill + 1, Len(input)) ELSE input
      /\ alg' = alg /\ text' = text /\ fed' = fed
  BY DEF Sha2Fill
<1>2. /\ alg \in Algs /\ text \in Texts /\ fed \in 0..Len(text) /\ alg.family = "sha2"
      /\ count \in (0..(W - 1)) \X (0..(W - 1))
      /\ buffer \in Seq(Val) /\ Len(buffer) = b
      /\ \A j \in 1..b : buffer[j] \in Cells
      /\ input \in Seq(Byte) /\ Len(input) <= MaxChunk /\ Len(input) <= fed
      /\ absorbed \in Seq(Val) /\ Len(absorbed) % b = 0
  BY <1>1 DEF IInv, Typed, Control
<1>3. /\ b \in Nat \ {0} /\ W \in Nat \ {0} /\ MaxChunk \in Nat
      /\ input \in Seq(Val) /\ text \in Seq(Byte) /\ count[1] \in Nat /\ count[2] \in Nat
      /\ Len(input) \in Nat /\ fed \in Nat
  <2>1. /\ b \in Nat \ {0} /\ W \in Nat \ {0} /\ MaxChunk \in Nat
        /\ input \in Seq(Val) /\ text \in Seq(Byte)
    BY <1>2, AlgFacts
  <2> QED
    BY <1>2, <2>1
<1>4. present \in 0..(b - 1) /\ fill \in 1..b /\ present + fill = b
  <2>1. present \in 0..(b - 1)
    BY <1>3, DivMod
  <2> HIDE DEF present
  <2> QED
    BY <1>3, <2>1
<1>5. /\ Cat(Cat(absorbed, waits), input) = Take(text, fed)
      /\ count[1] + W * count[2] = fed - Len(input)
  BY <1>1, <1>2 DEF IInv, Sha2Stream, Waiting, Counted, Treated
<1>6. waits \in Seq(Val) /\ Len(waits) = present
  <2>1. present \in 0..Len(buffer)
    BY <1>2, <1>4
  <2> QED
    BY <1>2, <2>1, CutType
<1> HIDE DEF present
\* The counter.
<1>7. /\ count' \in (0..(W - 1)) \X (0..(W - 1))
      /\ count'[1] + W * count'[2] = fed
  <2>1. 8 * (count[1] + W * count[2] + Len(input)) < 2^(ByteBits * LengthBytes(alg))
    <3>1. 8 * Len(text) < 2^(ByteBits * LengthBytes(alg))
      BY <1>2, TextAssumption
    <3>2. count[1] + W * count[2] + Len(input) = fed /\ fed <= Len(text) /\ Len(text) \in Nat
      BY <1>2, <1>3, <1>5
    <3>3. 2^(ByteBits * LengthBytes(alg)) \in Nat
      <4>1. ByteBits * LengthBytes(alg) \in 0..(ByteBits * LengthBytes(alg))
        BY <1>2, WordPowers
      <4> QED
        BY <1>2, <4>1, PowersOfTwo
    <3> HIDE DEF W
    <3> QED
      BY <1>3, <3>1, <3>2, <3>3
  <2>2. Len(input) \in 0..MaxChunk
    BY <1>2, <1>3
  <2>3. LET d == ADD_UINT128_UINT64(alg, count, Len(input))
        IN  /\ d \in (0..(W - 1)) \X (0..(W - 1))
            /\ d[1] + W * d[2] = count[1] + W * count[2] + Len(input)
    BY <1>2, <2>1, <2>2, CounterAdds
  <2> QED
    BY <1>1, <1>3, <1>5, <2>3
\* The block that the input completes.
<1>8. ASSUME completes
      PROVE  /\ block \in Seq(Val) /\ Len(block) = b /\ \A j \in 1..b : block[j] \in Cells
             /\ block = Cat(waits, data)
             /\ data \in Seq(Val) /\ Drop(input, fill) \in Seq(Val)
             /\ Cat(data, Drop(input, fill)) = input
             /\ Drop(input, fill) \in Seq(Byte) /\ Len(Drop(input, fill)) = Len(input) - fill
  <2>1. fill \in 0..Len(input)
    BY <1>3, <1>4, <1>8
  <2>2. /\ data \in Seq(Val) /\ data \in Seq(Byte) /\ Len(data) = fill
        /\ Drop(input, fill) \in Seq(Val)
        /\ Drop(input, fill) \in Seq(Byte) /\ Len(Drop(input, fill)) = Len(input) - fill
    <3>1. input \in Seq(Val) /\ input \in Seq(Byte)
      BY <1>2, <1>3
    <3>2. data \in Seq(Val) /\ Len(data) = fill /\ Drop(input, fill) \in Seq(Val)
          /\ Len(Drop(input, fill)) = Len(input) - fill
      BY <2>1, <3>1, CutType
    <3>3. data \in Seq(Byte) /\ Drop(input, fill) \in Seq(Byte)
      BY <2>1, <3>1, CutType
    <3> QED
      BY <3>2, <3>3
  <2>3. Cat(data, Drop(input, fill)) = input
    BY <1>3, <2>1, TakeDrop
  <2>4. block = local_memcpy(buffer, present, data)
    BY DEF Take
  <2> HIDE DEF data, block, fill
  <2>5. /\ block \in Seq(Val) /\ Len(block) = Len(buffer)
        /\ Take(block, present + Len(data)) = Cat(Take(buffer, present), data)
    <3>1. present \in Nat /\ present + Len(data) <= Len(buffer)
      BY <1>2, <1>4, <2>2
    <3>2. buffer \in Seq(Val) /\ data \in Seq(Val)
      BY <1>2, <2>2
    <3> QED
      BY <2>4, <3>1, <3>2, CopyInside
  <2>6. block = Cat(waits, data)
    <3>1. present + Len(data) = Len(block)
      BY <1>2, <1>4, <2>2, <2>5
    <3> QED
      BY <2>5, <3>1, TakeAll
  <2>7. \A j \in 1..b : block[j] \in Cells
    <3> TAKE j \in 1..b
    <3>1. block[j] = IF j \in (present + 1)..(present + Len(data)) THEN data[j - present]
                     ELSE buffer[j]
      <4>1. present \in Nat /\ present + Len(data) <= Len(buffer) /\ j \in 1..Len(buffer)
        BY <1>2, <1>4, <2>2
      <4>2. buffer \in Seq(Val) /\ data \in Seq(Val)
        BY <1>2, <2>2
      <4> QED
        BY <2>4, <4>1, <4>2, CopyCells
    <3>2. CASE j \in (present + 1)..(present + Len(data))
      <4>1. j - present \in 1..Len(data)
        BY <1>4, <2>2, <3>2
      <4>2. data[j - present] \in Byte
        BY <2>2, <4>1
      <4> QED
        BY <1>2, <3>1, <3>2, <4>2 DEF Cells
    <3>3. CASE ~ (j \in (present + 1)..(present + Len(data)))
      BY <1>2, <3>1, <3>3
    <3> QED
      BY <3>2, <3>3
  <2> QED
    BY <1>2, <2>2, <2>3, <2>5, <2>6, <2>7
<1> HIDE DEF block, data, waits, fill
<1>9. Typed'
  <2>1. Cells' = Cells /\ W = WordValues(alg')
    BY <1>1 DEF Cells
  <2>2. CASE completes
    <3>1. /\ buffer' = block /\ left' = 0 /\ absorbed' = Cat(absorbed, block)
          /\ input' = Drop(input, fill)
      BY <1>1, <2>2 DEF Cat, Drop
    <3>2. Cat(absorbed, block) \in Seq(Val) /\ Len(Cat(absorbed, block)) % b = 0
      <4>1. Cat(absorbed, block) \in Seq(Val) /\ Len(Cat(absorbed, block)) = Len(absorbed) + b
        <5>1. absorbed \in Seq(Val) /\ block \in Seq(Val) /\ Len(block) = b
          BY <1>2, <1>8, <2>2
        <5> QED
          BY <5>1, CatType
      <4>2. (Len(absorbed) + b * 1) % b = Len(absorbed) % b /\ b * 1 = b
        <5>1. Len(absorbed) \in Nat /\ b * 1 = b
          BY <1>2, <1>3
        <5> QED
          BY <1>3, <5>1, AddMultiple
      <4> QED
        BY <1>2, <4>1, <4>2
    <3>3. Len(input') <= MaxChunk /\ Len(input') <= fed /\ input' \in Seq(Byte)
      <4>1. input' \in Seq(Byte) /\ Len(input') = Len(input) - fill
        BY <1>8, <2>2, <3>1
      <4>2. Len(input) \in Nat /\ fill \in Nat /\ MaxChunk \in Nat /\ fed \in Nat
            /\ Len(input) <= MaxChunk /\ Len(input) <= fed
        BY <1>2, <1>3, <1>4
      <4> QED
        BY <4>1, <4>2
    <3>4. left' \in 0..(b - 1)
      BY <1>3, <3>1
    <3> QED
      BY <1>1, <1>2, <1>7, <1>8, <2>1, <2>2, <3>1, <3>2, <3>3, <3>4 DEF Typed
  <2>3. CASE ~ completes
    BY <1>1, <1>2, <1>4, <1>7, <2>1, <2>3 DEF Typed
  <2> QED
    BY <2>2, <2>3
<1>10. Control'
  <2>1. left' = 0 \/ left' + Len(input') < b
    <3>1. CASE completes
      BY <1>1, <3>1
    <3>2. CASE ~ completes
      BY <1>1, <1>3, <1>4, <3>2 DEF fill
    <3> QED
      BY <3>1, <3>2
  <2> QED
    BY <1>1, <1>2, <2>1 DEF Control
<1>11. Sha2Stream'
  <2>1. Waiting' = left' /\ Counted' = fed
    BY <1>1 DEF Waiting, Counted
  <2>2. CASE completes
    <3>1. /\ buffer' = block /\ left' = 0 /\ absorbed' = Cat(absorbed, block)
          /\ input' = Drop(input, fill)
      BY <1>1, <2>2 DEF Cat, Drop
    <3>2. Take(buffer', left') = <<>>
      BY <1>8, <2>2, <3>1, TakeAll
    <3>3. Cat(absorbed, block) \in Seq(Val) /\ Cat(Cat(absorbed, block), <<>>) = Cat(absorbed, block)
      BY <1>2, <1>8, <2>2, CatType, CatEmpty
    <3>4. Cat(absorbed, block) = Cat(Cat(absorbed, waits), data)
      BY <1>2, <1>6, <1>8, <2>2, CatAssoc
    <3>5. Cat(Cat(Cat(absorbed, waits), data), Drop(input, fill)) = Cat(Cat(absorbed, waits), input)
      <4>1. Cat(absorbed, waits) \in Seq(Val)
        BY <1>2, <1>6, CatType
      <4> QED
        BY <1>8, <2>2, <4>1, CatAssoc
    <3> QED
      BY <1>1, <1>5, <1>7, <2>1, <3>1, <3>2, <3>3, <3>4, <3>5 DEF Sha2Stream
  <2>3. CASE ~ completes
    BY <1>1, <1>5, <1>7, <2>1, <2>3 DEF Sha2Stream, waits
  <2> QED
    BY <2>2, <2>3
<1>12. Sha3Stream' /\ CopyStream' /\ DigestCorrect'
  BY <1>1, <1>2 DEF Sha3Stream, CopyStream, DigestCorrect
<1> QED
  BY <1>9, <1>10, <1>11, <1>12 DEF IInv

\* One iteration of its loop.
LEMMA Sha2BlockInv ==
  ASSUME IInv, Sha2Block
  PROVE  IInv'
<1> DEFINE b == alg.block
           data == Take(input, b)
           rest == Drop(input, b)
<1>1. /\ pc = "blocks" /\ Len(input) >= b
      /\ absorbed' = Cat(absorbed, data) /\ input' = rest
      /\ alg' = alg /\ pc' = pc /\ text' = text /\ fed' = fed /\ count' = count
      /\ buffer' = buffer /\ left' = left
  BY DEF Sha2Block, Cat, Take, Drop
<1>2. /\ alg \in Algs /\ alg.family = "sha2" /\ fed \in 0..Len(text)
      /\ buffer \in Seq(Val) /\ Len(buffer) = b /\ left \in 0..(b - 1)
      /\ input \in Seq(Byte) /\ Len(input) <= MaxChunk /\ Len(input) <= fed
      /\ absorbed \in Seq(Val) /\ Len(absorbed) % b = 0
      /\ left = 0 \/ left + Len(input) < b
  BY <1>1 DEF IInv, Typed, Control
<1>3. b \in Nat \ {0} /\ input \in Seq(Val) /\ Len(input) \in Nat
  <2>1. b \in Nat \ {0} /\ input \in Seq(Val)
    BY <1>2, AlgFacts
  <2> QED
    BY <1>2, <2>1
<1>4. left = 0
  BY <1>1, <1>2, <1>3
<1>5. /\ data \in Seq(Val) /\ Len(data) = b
      /\ rest \in Seq(Val) /\ rest \in Seq(Byte) /\ Len(rest) = Len(input) - b
      /\ Cat(data, rest) = input
  <2>1. b \in 0..Len(input)
    BY <1>1, <1>3
  <2>2. data \in Seq(Val) /\ Len(data) = b /\ rest \in Seq(Val) /\ Len(rest) = Len(input) - b
    <3>1. input \in Seq(Val)
      BY <1>3
    <3> QED
      BY ONLY <2>1, <3>1, CutType
  <2>3. rest \in Seq(Byte)
    BY <1>2, <2>1, CutType
  <2>4. Cat(data, rest) = input
    BY <1>3, <2>1, TakeDrop
  <2> QED
    BY <2>2, <2>3, <2>4
<1> HIDE DEF data, rest
<1>6. Typed'
  <2>1. Cat(absorbed, data) \in Seq(Val) /\ Len(Cat(absorbed, data)) % b = 0
    <3>1. absorbed \in Seq(Val) /\ data \in Seq(Val) /\ Len(data) = b
      BY <1>2, <1>5
    <3>2. Cat(absorbed, data) \in Seq(Val) /\ Len(Cat(absorbed, data)) = Len(absorbed) + b * 1
      <4>1. Cat(absorbed, data) \in Seq(Val) /\ Len(Cat(absorbed, data)) = Len(absorbed) + Len(data)
        BY <3>1, CatType
      <4> QED
        BY <1>3, <3>1, <4>1
    <3>3. (Len(absorbed) + b * 1) % b = Len(absorbed) % b
      <4>1. Len(absorbed) \in Nat
        BY <3>1
      <4> QED
        BY <1>3, <4>1, AddMultiple
    <3> QED
      BY <1>2, <3>2, <3>3
  <2>2. input' \in Seq(Byte) /\ Len(input') <= MaxChunk /\ Len(input') <= fed
    <3>1. MaxChunk \in Nat /\ fed \in Nat
      BY <1>2, AlgFacts
    <3>2. Len(input') = Len(input) - b /\ input' \in Seq(Byte)
      BY <1>1, <1>5
    <3> QED
      BY <1>2, <1>3, <3>1, <3>2
  <2>3. Cells' = Cells /\ WordValues(alg') = WordValues(alg)
    BY <1>1 DEF Cells
  <2> QED
    BY <1>1, <2>1, <2>2, <2>3 DEF IInv, Typed
<1>7. Control'
  BY <1>1, <1>2, <1>4 DEF Control
<1>8. Sha2Stream'
  <2> DEFINE done == Cat(absorbed, Take(buffer, left))
  <2>1. Waiting' = Waiting /\ Waiting = left /\ Counted' = Counted
    BY <1>1 DEF Waiting, Counted, Treated
  <2>2. /\ Cat(done, input) = Take(text, fed)
        /\ count[1] + WordValues(alg) * count[2] = Counted
    BY <1>1, <1>2, <2>1 DEF IInv, Sha2Stream
  <2>3. Take(buffer, left) = <<>> /\ Take(buffer', left') = <<>>
    BY <1>1, <1>2, <1>4, TakeAll
  <2>4. done = absorbed
    BY <1>2, <2>3, CatEmpty
  <2>5. Cat(Cat(absorbed, data), <<>>) = Cat(absorbed, data)
    <3>1. Cat(absorbed, data) \in Seq(Val)
      BY <1>2, <1>5, CatType
    <3> QED
      BY <3>1, CatEmpty
  <2>6. Cat(Cat(absorbed, data), rest) = Cat(absorbed, input)
    BY <1>2, <1>5, CatAssoc
  <2> QED
    BY <1>1, <1>2, <2>1, <2>2, <2>3, <2>4, <2>5, <2>6 DEF Sha2Stream
<1>9. Sha3Stream' /\ CopyStream' /\ DigestCorrect'
  BY <1>1, <1>2 DEF Sha3Stream, CopyStream, DigestCorrect
<1> QED
  BY <1>6, <1>7, <1>8, <1>9 DEF IInv

\* The rest of the input waits in the buffer.
LEMMA Sha2RestInv ==
  ASSUME IInv, Sha2Rest
  PROVE  IInv'
<1> DEFINE b == alg.block
           W == WordValues(alg)
           waits == Take(buffer, left)
           present == count[1] % b
<1>1. /\ pc = "blocks" /\ Len(input) < b /\ pc' = "open" /\ input' = <<>>
      /\ buffer' = IF input = <<>> THEN buffer ELSE local_memcpy(buffer, left, input)
      /\ alg' = alg /\ text' = text /\ fed' = fed /\ count' = count
      /\ left' = left /\ absorbed' = absorbed
  BY DEF Sha2Rest
<1>2. /\ alg \in Algs /\ alg.family = "sha2" /\ fed \in 0..Len(text) /\ text \in Texts
      /\ buffer \in Seq(Val) /\ Len(buffer) = b /\ left \in 0..(b - 1)
      /\ \A j \in 1..b : buffer[j] \in Cells
      /\ count \in (0..(W - 1)) \X (0..(W - 1))
      /\ input \in Seq(Byte) /\ Len(input) <= fed
      /\ absorbed \in Seq(Val) /\ Len(absorbed) % b = 0
      /\ left = 0 \/ left + Len(input) < b
  BY <1>1 DEF IInv, Typed, Control
<1>3. /\ b \in Nat \ {0} /\ W \in Nat \ {0} /\ W % b = 0 /\ MaxChunk \in Nat
      /\ input \in Seq(Val) /\ Len(input) \in Nat /\ left \in Nat /\ text \in Seq(Byte)
      /\ Len(absorbed) \in Nat /\ count[1] \in Nat /\ count[2] \in Nat /\ fed \in Nat
  <2>1. /\ b \in Nat \ {0} /\ W \in Nat \ {0} /\ input \in Seq(Val) /\ MaxChunk \in Nat
        /\ text \in Seq(Byte)
    BY <1>2, AlgFacts
  <2>2. W % b = 0
    BY <1>2, AlgAssumption
  <2> QED
    BY <1>2, <2>1, <2>2
<1>4. left + Len(input) \in 0..(b - 1)
  BY <1>1, <1>2, <1>3, SMTT(30)
<1>5. /\ Cat(Cat(absorbed, waits), input) = Take(text, fed)
      /\ count[1] + W * count[2] = fed
  BY <1>1, <1>2 DEF IInv, Sha2Stream, Waiting, Counted
<1>6. waits \in Seq(Val) /\ Len(waits) = left
  <2>1. left \in 0..Len(buffer)
    BY <1>2, <1>3
  <2> QED
    BY <1>2, <2>1, CutType
<1>7. present = left + Len(input)
  <2>1. Len(absorbed) + left + Len(input) = fed
    <3>1. Len(Take(text, fed)) = fed
      BY <1>2, <1>3, CutType
    <3>2. Cat(absorbed, waits) \in Seq(Val) /\ Len(Cat(absorbed, waits)) = Len(absorbed) + left
      <4>1. absorbed \in Seq(Val) /\ waits \in Seq(Val)
        BY <1>2, <1>6
      <4> QED
        BY <1>6, <4>1, CatType
    <3>3. Len(Cat(Cat(absorbed, waits), input)) = Len(absorbed) + left + Len(input)
      BY <1>3, <3>2, CatType
    <3> QED
      BY <1>5, <3>1, <3>3
  <2> DEFINE m == Len(absorbed)
             r == left + Len(input)
             c == count[1]
             h == count[2]
  <2>2. /\ m \in Nat /\ m % b = 0 /\ r \in 0..(b - 1) /\ c \in Nat /\ h \in Nat
        /\ c + W * h = m + r
    BY <1>2, <1>3, <1>4, <1>5, <2>1
  <2>3. b \in Nat \ {0}
    BY <1>3
  <2>4. (c + W * h) % b = c % b
    <3>1. count[1] \in Nat /\ count[2] \in Nat
      BY <1>3
    <3> QED
      BY <1>2, <3>1, CounterRemainder
  <2> HIDE DEF m, r, c, h, b, W
  <2>5. (m + r) % b = r
    <3>1. m \in Nat /\ m % b = 0 /\ r \in 0..(b - 1)
      BY <2>2
    <3> QED
      BY <2>3, <3>1, BlockRemainder
  <2>6. c % b = r
    BY <2>2, <2>4, <2>5
  <2> QED
    BY <2>6 DEF c, r, b
<1> HIDE DEF waits, present
<1>8. /\ buffer' \in Seq(Val) /\ Len(buffer') = b /\ \A j \in 1..b : buffer'[j] \in Cells
      /\ Take(buffer', present) = Cat(waits, input)
  <2>1. CASE input = <<>>
    <3>1. present = left /\ buffer' = buffer
      <4>1. Len(input) = 0
        BY <2>1
      <4> QED
        BY <1>1, <1>3, <1>7, <2>1, <4>1
    <3>2. Cat(waits, <<>>) = waits
      BY <1>6, CatEmpty
    <3> QED
      BY <1>2, <2>1, <3>1, <3>2 DEF waits
  <2>2. CASE input # <<>>
    <3>1. buffer' = local_memcpy(buffer, left, input)
      BY <1>1, <2>2
    <3>2. /\ buffer \in Seq(Val) /\ input \in Seq(Val) /\ left \in Nat
          /\ left + Len(input) <= Len(buffer)
      BY <1>2, <1>3, <1>4
    <3>3. /\ buffer' \in Seq(Val) /\ Len(buffer') = Len(buffer)
          /\ Take(buffer', left + Len(input)) = Cat(Take(buffer, left), input)
      BY <3>1, <3>2, CopyInside
    <3>4. \A j \in 1..Len(buffer) :
            buffer'[j] = IF j \in (left + 1)..(left + Len(input)) THEN input[j - left]
                         ELSE buffer[j]
      BY <3>1, <3>2, CopyCells
    <3>5. \A j \in 1..b : buffer'[j] \in Cells
      <4> TAKE j \in 1..b
      <4>1. CASE j \in (left + 1)..(left + Len(input))
        <5>1. j - left \in 1..Len(input)
          BY <1>3, <4>1
        <5>2. input[j - left] \in Byte
          BY <1>2, <5>1
        <5> QED
          BY <1>2, <3>4, <4>1, <5>2 DEF Cells
      <4>2. CASE ~ (j \in (left + 1)..(left + Len(input)))
        BY <1>2, <3>4, <4>2
      <4> QED
        BY <4>1, <4>2
    <3> QED
      BY <1>2, <1>7, <3>3, <3>5 DEF waits
  <2> QED
    BY <2>1, <2>2
<1>9. Typed'
  <2>1. Cells' = Cells /\ WordValues(alg') = WordValues(alg)
    BY <1>1 DEF Cells
  <2>2. input' \in Seq(Byte) /\ Len(input') <= MaxChunk /\ Len(input') <= fed
    <3>1. Len(<<>>) = 0 /\ <<>> \in Seq(Byte)
      OBVIOUS
    <3> QED
      BY <1>1, <1>3, <3>1
  <2> QED
    BY <1>1, <1>8, <2>1, <2>2 DEF IInv, Typed
<1>10. Control'
  BY <1>1 DEF Control
<1>11. Sha2Stream'
  <2>1. Waiting' = present /\ Counted' = fed
    BY <1>1 DEF Waiting, Counted, present
  <2>2. Cat(absorbed, Cat(waits, input)) = Cat(Cat(absorbed, waits), input)
    BY <1>2, <1>3, <1>6, CatAssoc
  <2>3. Cat(Cat(absorbed, Cat(waits, input)), <<>>) = Cat(absorbed, Cat(waits, input))
    <3>1. Cat(waits, input) \in Seq(Val)
      BY <1>3, <1>6, CatType
    <3>2. Cat(absorbed, Cat(waits, input)) \in Seq(Val)
      BY <1>2, <3>1, CatType
    <3> QED
      BY <3>2, CatEmpty
  <2> QED
    BY <1>1, <1>5, <1>8, <2>1, <2>2, <2>3 DEF Sha2Stream
<1>12. Sha3Stream' /\ CopyStream' /\ DigestCorrect'
  BY <1>1, <1>2 DEF Sha3Stream, CopyStream, DigestCorrect
<1> QED
  BY <1>9, <1>10, <1>11, <1>12 DEF IInv

\* One iteration of _sha3_update.
LEMMA Sha3ByteInv ==
  ASSUME IInv, Sha3Byte
  PROVE  IInv'
<1> DEFINE b == alg.block
           byte == Head(input)
           state == XorByte(alg, buffer, count[1], byte)
           full == count[1] + 1 = b
           lanes == Lanes(alg, buffer)
           next == Lanes(alg, state)
           done == Take(lanes, count[1])
           rest == Tail(input)
           one == <<{byte}>>
<1>1. /\ pc = "absorb"
      /\ count' = <<IF full THEN 0 ELSE count[1] + 1, 0>>
      /\ buffer' = IF full THEN Untouched(alg) ELSE state
      /\ absorbed' = IF full THEN Cat(absorbed, next) ELSE absorbed
      /\ input' = rest
      /\ pc' = IF Len(input) = 1 THEN "open" ELSE "absorb"
      /\ alg' = alg /\ text' = text /\ fed' = fed /\ left' = left
  BY DEF Sha3Byte, Cat
<1>2. /\ alg \in Algs /\ alg.family = "sha3" /\ fed \in 0..Len(text) /\ text \in Texts
      /\ buffer \in Seq(Val) /\ Len(buffer) = b /\ \A j \in 1..b : buffer[j] \in SUBSET Byte
      /\ count \in (0..(WordValues(alg) - 1)) \X (0..(WordValues(alg) - 1))
      /\ input \in Seq(Byte) /\ input # <<>> /\ Len(input) <= MaxChunk /\ Len(input) <= fed
      /\ absorbed \in Seq(Val) /\ Len(absorbed) % b = 0
  BY <1>1 DEF IInv, Typed, Control, Cells
<1>3. /\ b \in Nat \ {0} /\ b < WordValues(alg) /\ WordValues(alg) \in Nat
      /\ text \in Seq(Byte) /\ MaxChunk \in Nat
  BY <1>2, AlgFacts
<1>4. /\ count[1] \in 0..(b - 1)
      /\ Cat(Cat(absorbed, done), Singletons(input)) = Singletons(Take(text, fed))
      /\ \A j \in (count[1] + 1)..b : lanes[j] = {}
  <2>1. count[1] \in Nat /\ count[1] < b
    BY <1>1, <1>2, <1>3 DEF IInv, Sha3Stream
  <2> QED
    BY <1>1, <1>2, <1>3, <2>1, SMTT(30) DEF IInv, Sha3Stream
<1>5. /\ byte \in Byte /\ rest \in Seq(Byte) /\ Len(rest) = Len(input) - 1
      /\ input = Cat(<<byte>>, rest) /\ Len(input) \in Nat \ {0}
      /\ (Len(input) = 1 <=> rest = <<>>)
  <2>1. input \in Seq(Byte) /\ input # <<>>
    BY <1>2
  <2>2. byte \in Byte /\ rest \in Seq(Byte) /\ Len(rest) = Len(input) - 1
        /\ Len(input) \in Nat \ {0}
    BY <2>1
  <2>3. input = Cat(<<byte>>, rest)
    BY <2>1 DEF Cat
  <2>4. Len(input) = 1 <=> rest = <<>>
    <3> HIDE DEF rest
    <3> QED
      BY <2>2
  <2> QED
    BY <2>2, <2>3, <2>4
<1> HIDE DEF byte, rest
<1>6. /\ one \in Seq(Val) /\ Len(one) = 1 /\ one[1] = {byte}
      /\ Singletons(input) = Cat(one, Singletons(rest))
      /\ Singletons(rest) \in Seq(Val)
  <2>1. {byte} \in Val
    BY <1>5 DEF Val
  <2>2. <<byte>> \in Seq(Byte) /\ Singletons(<<byte>>) = one
    BY <1>5 DEF Singletons
  <2>3. Singletons(Cat(<<byte>>, rest)) = Cat(Singletons(<<byte>>), Singletons(rest))
        /\ Singletons(rest) \in Seq(Val)
    BY <1>5, <2>2, SingletonsCat
  <2>4. Singletons(input) = Cat(one, Singletons(rest))
    BY <1>5, <2>2, <2>3
  <2>5. one \in Seq(Val) /\ Len(one) = 1 /\ one[1] = {byte}
    <3> DEFINE c == {byte}
    <3>1. c \in Val /\ one = <<c>>
      BY <2>1
    <3> HIDE DEF c
    <3>2. <<c>> \in Seq(Val) /\ Len(<<c>>) = 1 /\ <<c>>[1] = c
      BY <3>1
    <3> QED
      BY <3>1, <3>2 DEF c
  <2> QED
    BY <2>3, <2>4, <2>5
<1>7. /\ lanes \in Seq(Val) /\ Len(lanes) = b
  BY <1>2, LanesType
<1>8. /\ state \in Seq(Val) /\ Len(state) = b
      /\ \A j \in 1..b : state[j] \in SUBSET Byte
      /\ \A j \in 1..b : next[j] = IF j = count[1] + 1 THEN Toggle(lanes[j], byte) ELSE lanes[j]
  <2>1. alg \in Algs /\ alg.family = "sha3" /\ count[1] \in 0..(alg.block - 1) /\ byte \in Byte
    BY <1>2, <1>4, <1>5
  <2>2. State(alg, buffer)
    BY <1>2 DEF State
  <2>3. /\ State(alg, state)
        /\ \A j \in 1..alg.block :
             next[j] = IF j = count[1] + 1 THEN Toggle(lanes[j], byte) ELSE lanes[j]
    BY <2>1, <2>2, LanesXor
  <2> QED
    BY <2>3 DEF State
<1>9. next \in Seq(Val) /\ Len(next) = b
  BY <1>2, <1>8, LanesType
<1> HIDE DEF state, lanes, one, next
\* The byte is the next lane, the ones after it stay empty.
<1>10. /\ done \in Seq(Val) /\ Len(done) = count[1]
       /\ Take(next, count[1] + 1) = Cat(done, one)
       /\ \A j \in (count[1] + 2)..b : next[j] = {}
  <2>1. count[1] \in 0..Len(lanes) /\ count[1] + 1 \in 0..Len(next) /\ count[1] \in Nat
    BY <1>3, <1>4, <1>7, <1>9
  <2>2. done \in Seq(Val) /\ Len(done) = count[1] /\ \A j \in 1..count[1] : done[j] = lanes[j]
    BY <1>7, <2>1, CutType
  <2> DEFINE x == Take(next, count[1] + 1)
             y == Cat(done, one)
  <2>3. x \in Seq(Val) /\ Len(x) = count[1] + 1 /\ \A j \in 1..(count[1] + 1) : x[j] = next[j]
    BY <1>9, <2>1, CutType
  <2> HIDE DEF done
  <2>4. y \in Seq(Val) /\ Len(y) = count[1] + 1
        /\ \A j \in 1..(count[1] + 1) : y[j] = IF j <= count[1] THEN done[j] ELSE one[j - count[1]]
    <3>1. done \in Seq(Val) /\ one \in Seq(Val) /\ Len(done) = count[1] /\ Len(one) = 1
      BY <1>6, <2>2
    <3>2. y \in Seq(Val) /\ Len(y) = Len(done) + Len(one)
      BY <3>1, CatType
    <3>3. \A j \in 1..(Len(done) + Len(one)) :
            y[j] = IF j <= Len(done) THEN done[j] ELSE one[j - Len(done)]
      BY <3>1, CatElements
    <3> QED
      BY <3>1, <3>2, <3>3
  <2> HIDE DEF x, y
  <2>5. \A j \in 1..Len(x) : x[j] = y[j]
    <3> TAKE j \in 1..Len(x)
    <3>1. j \in 1..(count[1] + 1) /\ j \in 1..b
      BY <1>3, <1>4, <2>3
    <3>2. CASE j <= count[1]
      <4>1. j # count[1] + 1 /\ j \in 1..count[1]
        BY <2>1, <3>1, <3>2
      <4> QED
        BY <1>8, <2>2, <2>3, <2>4, <3>1, <3>2, <4>1
    <3>3. CASE j = count[1] + 1
      <4>1. next[j] = Toggle({}, byte)
        <5>1. j \in (count[1] + 1)..b
          BY <1>3, <1>4, <3>1, <3>3
        <5>2. lanes[j] = {}
          BY <1>4, <5>1
        <5>3. next[j] = Toggle(lanes[j], byte)
          BY <1>8, <3>1, <3>3
        <5> QED
          BY <5>2, <5>3
      <4>2. Toggle({}, byte) = {byte}
        BY DEF Toggle, SymmetricDifference
      <4>3. ~ (j <= count[1]) /\ j - count[1] = 1
        BY <2>1, <3>3
      <4> QED
        BY <1>6, <2>3, <2>4, <3>1, <4>1, <4>2, <4>3
    <3> QED
      BY <2>1, <3>1, <3>2, <3>3
  <2>6. x = y
    <3>1. Len(x) = Len(y)
      BY <2>3, <2>4
    <3> QED
      BY <2>3, <2>4, <2>5, <3>1, SameElements
  <2>7. \A j \in (count[1] + 2)..b : next[j] = {}
    <3> TAKE j \in (count[1] + 2)..b
    <3>1. j \in 1..b /\ j # count[1] + 1 /\ j \in (count[1] + 1)..b
      BY <1>3, <2>1
    <3> QED
      BY <1>4, <1>8, <3>1
  <2> QED
    BY <2>2, <2>6, <2>7 DEF x, y
<1>11. Cat(Cat(absorbed, Cat(done, one)), Singletons(rest)) = Singletons(Take(text, fed))
  <2>1. Cat(absorbed, done) \in Seq(Val)
    BY <1>2, <1>10, CatType
  <2>2. Cat(Cat(Cat(absorbed, done), one), Singletons(rest)) = Cat(Cat(absorbed, done), Cat(one, Singletons(rest)))
    BY <1>6, <2>1, CatAssoc
  <2>3. Cat(Cat(absorbed, done), one) = Cat(absorbed, Cat(done, one))
    BY <1>2, <1>6, <1>10, CatAssoc
  <2> QED
    BY <1>4, <1>6, <2>2, <2>3
<1> HIDE DEF done
<1>12. /\ buffer' \in Seq(Val) /\ Len(buffer') = b /\ \A j \in 1..b : buffer'[j] \in SUBSET Byte
       /\ count'[1] \in 0..(b - 1) /\ count'[2] = 0 /\ count' = <<count'[1], count'[2]>>
       /\ absorbed' \in Seq(Val) /\ Len(absorbed') % b = 0
       /\ Cat(absorbed', Take(Lanes(alg, buffer'), count'[1])) = Cat(absorbed, Cat(done, one))
       /\ \A j \in (count'[1] + 1)..b : Lanes(alg, buffer')[j] = {}
  <2>1. CASE full
    <3>1. /\ buffer' = Untouched(alg) /\ absorbed' = Cat(absorbed, next) /\ count' = <<0, 0>>
      BY <1>1, <2>1
    <3>2. /\ buffer' \in Seq(Val) /\ Len(buffer') = b /\ \A j \in 1..b : buffer'[j] \in SUBSET Byte
          /\ \A j \in 1..b : Lanes(alg, buffer')[j] = {}
      BY <1>2, <3>1, LanesUntouched
    <3>3. next = Cat(done, one)
      BY <1>9, <1>10, <2>1, TakeAll
    <3>4. absorbed' \in Seq(Val) /\ Len(absorbed') = Len(absorbed) + b * 1
      <4>1. absorbed' \in Seq(Val) /\ Len(absorbed') = Len(absorbed) + Len(next)
        BY <1>2, <1>9, <3>1, CatType
      <4> QED
        BY <1>3, <1>9, <4>1
    <3>5. Len(absorbed') % b = 0
      <4>1. Len(absorbed) \in Nat
        BY <1>2
      <4>2. (Len(absorbed) + b * 1) % b = Len(absorbed) % b
        BY <1>3, <4>1, AddMultiple
      <4>3. Len(absorbed) % b = 0
        BY <1>2
      <4> QED
        BY <3>4, <4>2, <4>3
    <3>6. Take(Lanes(alg, buffer'), 0) = <<>> /\ Cat(absorbed', <<>>) = absorbed'
      <4>1. Lanes(alg, buffer') \in Seq(Val)
        BY <1>2, <3>2, LanesType
      <4> QED
        BY <3>4, <4>1, TakeAll, CatEmpty
    <3>7. count'[1] = 0 /\ count'[2] = 0 /\ count' = <<count'[1], count'[2]>> /\ 0 \in 0..(b - 1)
      BY <1>3, <3>1
    <3> QED
      BY <3>1, <3>2, <3>3, <3>4, <3>5, <3>6, <3>7
  <2>2. CASE ~ full
    <3>1. buffer' = state /\ absorbed' = absorbed /\ count' = <<count[1] + 1, 0>>
      BY <1>1, <2>2
    <3>2. count'[1] = count[1] + 1 /\ count'[2] = 0 /\ count' = <<count'[1], count'[2]>>
      BY <3>1
    <3>3. count[1] + 1 \in 0..(b - 1) /\ (count[1] + 1) + 1 = count[1] + 2
      BY <1>3, <1>4, <2>2
    <3>4. Lanes(alg, buffer') = next
      BY <3>1 DEF next
    <3> QED
      BY <1>2, <1>8, <1>10, <3>1, <3>2, <3>3, <3>4
  <2> QED
    BY <2>1, <2>2
<1> HIDE DEF full
<1>13. Typed'
  <2>1. Cells' = SUBSET Byte /\ WordValues(alg') = WordValues(alg)
    BY <1>1, <1>2 DEF Cells
  <2>2. count' \in (0..(WordValues(alg) - 1)) \X (0..(WordValues(alg) - 1))
    <3>1. count'[1] \in 0..(WordValues(alg) - 1) /\ count'[2] \in 0..(WordValues(alg) - 1)
      BY <1>3, <1>12
    <3> QED
      BY <1>12, <3>1
  <2>3. input' \in Seq(Byte) /\ Len(input') <= MaxChunk /\ Len(input') <= fed
    BY <1>1, <1>2, <1>3, <1>5
  <2>4. pc' \in {"none", "open", "fill", "blocks", "absorb", "copy", "final"}
    BY <1>1
  <2> QED
    BY <1>1, <1>2, <1>12, <2>1, <2>2, <2>3, <2>4 DEF IInv, Typed
<1>14. Control'
  BY <1>1, <1>2, <1>5 DEF Control
<1>15. Sha3Stream'
  <2>1. count'[1] < b
    BY <1>3, <1>12
  <2> QED
    BY <1>1, <1>2, <1>11, <1>12, <2>1 DEF Sha3Stream
<1>16. Sha2Stream' /\ CopyStream' /\ DigestCorrect'
  BY <1>1, <1>2 DEF Sha2Stream, CopyStream, DigestCorrect
<1> QED
  BY <1>13, <1>14, <1>15, <1>16 DEF IInv

\* A copy stops at the end of the digest.
LEMMA CopyUpdateInv ==
  ASSUME IInv, copy256_update
  PROVE  IInv'
<1> DEFINE b == alg.block
           c == count[1]
           len == Len(input)
           left_bytes == b - (c % (2 * b))
           n == IF len >= left_bytes THEN left_bytes ELSE len
           data == Take(input, n)
           part == SubSeq(text, c + 1, c + n)
<1>1. /\ pc = "copy" /\ pc' = "open" /\ input' = <<>>
      /\ buffer' = local_memcpy(buffer, c, data)
      /\ count' = <<c + n, 0>>
      /\ alg' = alg /\ text' = text /\ fed' = fed /\ left' = left /\ absorbed' = absorbed
      /\ output' = output
  BY DEF copy256_update, Take
<1>2. /\ alg \in Algs /\ alg.family = "copy" /\ fed \in 0..Len(text) /\ text \in Texts
      /\ buffer \in Seq(Val) /\ Len(buffer) = b /\ \A j \in 1..b : buffer[j] \in Cells
      /\ count \in (0..(WordValues(alg) - 1)) \X (0..(WordValues(alg) - 1))
      /\ input \in Seq(Byte) /\ len <= MaxChunk /\ len <= fed
      /\ absorbed \in Seq(Val) /\ Len(absorbed) % b = 0
  BY <1>1 DEF IInv, Typed, Control
<1>3. /\ b \in Nat \ {0} /\ b < WordValues(alg) /\ WordValues(alg) \in Nat
      /\ text \in Seq(Byte) /\ text \in Seq(Val) /\ input \in Seq(Val) /\ MaxChunk \in Nat
      /\ c \in Nat /\ len \in Nat /\ fed \in Nat /\ Len(text) \in Nat /\ fed <= Len(text)
  <2>1. /\ b \in Nat \ {0} /\ b < WordValues(alg) /\ WordValues(alg) \in Nat
        /\ text \in Seq(Byte) /\ text \in Seq(Val) /\ input \in Seq(Val) /\ MaxChunk \in Nat
    BY <1>2, AlgFacts
  <2> QED
    BY <1>2, <2>1
<1>4. /\ c = IF fed - len < b THEN fed - len ELSE b
      /\ Take(buffer, c) = Take(text, c)
      /\ input = SubSeq(text, (fed - len) + 1, (fed - len) + len)
  BY <1>1, <1>2 DEF IInv, CopyStream, Treated
<1> HIDE DEF c, len, b
<1>5. left_bytes = b - c
  <2>1. c \in 0..(2 * b - 1) /\ 2 * b \in Nat \ {0}
    BY <1>2, <1>3, <1>4
  <2>2. c % (2 * b) = c
    BY <2>1, SmallMod
  <2> QED
    BY <2>2
<1> HIDE DEF left_bytes
<1>6. /\ n \in Nat /\ n <= len /\ c + n <= b /\ c + n <= fed /\ c <= fed - len
      /\ (n > 0 => c = fed - len)
      /\ c + n = IF fed < b THEN fed ELSE b
  BY <1>2, <1>3, <1>4, <1>5
<1> HIDE DEF n
<1>7. data \in Seq(Byte) /\ data \in Seq(Val) /\ Len(data) = n /\ \A j \in 1..n : data[j] = input[j]
  <2>1. n \in 0..Len(input) /\ input \in Seq(Byte) /\ input \in Seq(Val)
    BY <1>2, <1>3, <1>6 DEF len
  <2>2. data \in Seq(Val) /\ Len(data) = n /\ \A j \in 1..n : data[j] = input[j]
    BY <2>1, CutType
  <2>3. data \in Seq(Byte)
    BY <2>1, CutType
  <2> QED
    BY <2>2, <2>3
<1>8. /\ part \in Seq(Val) /\ Len(part) = n /\ \A j \in 1..n : part[j] = text[c + j]
      /\ Take(text, c + n) = Cat(Take(text, c), part)
  <2>1. c + n <= Len(text) /\ c \in Nat /\ n \in Nat /\ text \in Seq(Val)
    BY <1>3, <1>6
  <2>5. part = SubSeq(text, c + 1, c + n)
    OBVIOUS
  <2> HIDE DEF part
  <2>2. part \in Seq(Val) /\ Len(part) = n /\ \A j \in 1..n : part[j] = text[c + j]
    BY ONLY <2>1, <2>5
  <2>3. Take(text, c + n) = Cat(Take(text, c), part)
    BY <2>1, <2>5, TakeMore
  <2> QED
    BY <2>2, <2>3
<1>9. \A j \in 1..len : input[j] = text[(fed - len) + j]
  <2> DEFINE m == fed - len
  <2>1. m \in Nat /\ m + len <= Len(text) /\ text \in Seq(Val) /\ input = SubSeq(text, m + 1, m + len)
    BY <1>2, <1>3, <1>4
  <2> HIDE DEF m
  <2>2. \A j \in 1..len : input[j] = text[m + j]
    BY <1>3, <2>1, MiddleElements
  <2> QED
    BY <2>2 DEF m
<1> HIDE DEF data, part
<1>10. data = part
  <2>1. \A j \in 1..Len(data) : data[j] = part[j]
    <3> TAKE j \in 1..Len(data)
    <3>1. j \in 1..n /\ j \in 1..len /\ n > 0
      BY <1>3, <1>6, <1>7
    <3>2. data[j] = text[(fed - len) + j] /\ part[j] = text[c + j] /\ c = fed - len
      BY <1>6, <1>7, <1>8, <1>9, <3>1
    <3> QED
      BY <3>2
  <2>2. Len(data) = Len(part)
    BY <1>7, <1>8
  <2> QED
    BY <1>7, <1>8, <2>1, <2>2, SameElements
<1>11. /\ buffer' \in Seq(Val) /\ Len(buffer') = b /\ \A j \in 1..b : buffer'[j] \in Cells
       /\ Take(buffer', c + n) = Take(text, c + n)
  <2>1. /\ buffer \in Seq(Val) /\ data \in Seq(Val) /\ c \in Nat /\ c + Len(data) <= Len(buffer)
        /\ buffer' = local_memcpy(buffer, c, data)
    BY <1>1, <1>2, <1>3, <1>6, <1>7
  <2>2. /\ buffer' \in Seq(Val) /\ Len(buffer') = Len(buffer)
        /\ Take(buffer', c + Len(data)) = Cat(Take(buffer, c), data)
    BY <2>1, CopyInside
  <2>3. \A j \in 1..Len(buffer) :
          buffer'[j] = IF j \in (c + 1)..(c + Len(data)) THEN data[j - c] ELSE buffer[j]
    BY <2>1, CopyCells
  <2>4. \A j \in 1..b : buffer'[j] \in Cells
    <3> TAKE j \in 1..b
    <3>1. CASE j \in (c + 1)..(c + Len(data))
      <4>1. j - c \in 1..Len(data)
        BY <1>3, <1>7, <3>1
      <4>2. data[j - c] \in Byte
        BY <1>7, <4>1
      <4> QED
        BY <1>2, <2>3, <3>1, <4>2 DEF Cells
    <3>2. CASE ~ (j \in (c + 1)..(c + Len(data)))
      BY <1>2, <2>3, <3>2
    <3> QED
      BY <3>1, <3>2
  <2> QED
    BY <1>2, <1>4, <1>7, <1>8, <1>10, <2>2, <2>4
<1>12. Typed'
  <2>1. Cells' = Cells /\ WordValues(alg') = WordValues(alg)
    BY <1>1 DEF Cells
  <2>2. count' \in (0..(WordValues(alg) - 1)) \X (0..(WordValues(alg) - 1))
    <3>1. c + n \in 0..(WordValues(alg) - 1) /\ 0 \in 0..(WordValues(alg) - 1)
      BY <1>3, <1>6
    <3> QED
      BY <1>1, <3>1
  <2>3. input' \in Seq(Byte) /\ Len(input') <= MaxChunk /\ Len(input') <= fed
    <3>1. Len(<<>>) = 0 /\ <<>> \in Seq(Byte)
      OBVIOUS
    <3> QED
      BY <1>1, <1>3, <3>1
  <2> QED
    BY <1>1, <1>11, <2>1, <2>2, <2>3 DEF IInv, Typed, b
<1>13. Control'
  BY <1>1 DEF Control
<1>14. CopyStream'
  <2>1. Treated' = fed /\ Len(input') = 0
    <3>1. Len(<<>>) = 0
      OBVIOUS
    <3> QED
      BY <1>1, <1>3, <3>1 DEF Treated
  <2>2. count'[1] = c + n
    BY <1>1
  <2>3. input' = SubSeq(text', Treated' + 1, Treated' + Len(input'))
    <3>1. SubSeq(text, fed + 1, fed + 0) = <<>>
      BY <1>3
    <3> QED
      BY <1>1, <2>1, <3>1
  <2> QED
    BY <1>1, <1>6, <1>11, <2>1, <2>2, <2>3 DEF CopyStream, b
<1>15. Sha2Stream' /\ Sha3Stream' /\ DigestCorrect'
  BY <1>1, <1>2 DEF Sha2Stream, Sha3Stream, DigestCorrect
<1> QED
  BY <1>12, <1>13, <1>14, <1>15 DEF IInv

\* The digest of "copy".
LEMMA CopyFinalInv ==
  ASSUME IInv, copy256_final
  PROVE  IInv'
<1> DEFINE b == alg.block
<1>1. /\ pc = "open" /\ pc' = "final" /\ alg.family = "copy" /\ output' = buffer
      /\ alg' = alg /\ text' = text /\ fed' = fed /\ count' = count /\ buffer' = buffer
      /\ left' = left /\ input' = input /\ absorbed' = absorbed
  BY DEF copy256_final
<1>2. /\ alg \in Algs /\ fed \in 0..Len(text) /\ text \in Texts
      /\ buffer \in Seq(Val) /\ Len(buffer) = b /\ input = <<>>
  BY <1>1 DEF IInv, Typed, Control
<1>3. b \in Nat \ {0} /\ fed \in Nat
  <2>1. b \in Nat \ {0} /\ text \in Seq(Byte)
    BY <1>2, AlgFacts
  <2> QED
    BY <1>2, <2>1
<1>4. fed >= b => output' = SubSeq(text, 1, b)
  <2> HAVE fed >= b
  <2>1. Treated = fed
    <3>1. Len(<<>>) = 0
      OBVIOUS
    <3> QED
      BY <1>2, <1>3, <3>1 DEF Treated
  <2>2. count[1] = IF Treated < b THEN Treated ELSE b
    BY <1>1 DEF IInv, CopyStream
  <2>3. count[1] = b
    BY <1>3, <2>1, <2>2
  <2>4. Take(buffer, count[1]) = Take(text, count[1])
    BY <1>1 DEF IInv, CopyStream
  <2>5. Take(buffer, b) = buffer
    BY <1>2, TakeAll
  <2> QED
    BY <1>1, <2>3, <2>4, <2>5 DEF Take
<1>5. Typed'
  <2>1. Cells' = Cells
    BY <1>1 DEF Cells
  <2> QED
    BY <1>1, <2>1 DEF IInv, Typed
<1>6. Control' /\ Sha2Stream' /\ Sha3Stream' /\ CopyStream'
  BY <1>1, <1>2 DEF Control, Sha2Stream, Sha3Stream, CopyStream
<1>7. DigestCorrect'
  BY <1>1, <1>4 DEF DigestCorrect
<1> QED
  BY <1>5, <1>6, <1>7 DEF IInv

\* Some number of zeros reaches the end of a block.
LEMMA FillExists ==
  ASSUME NEW b \in Nat \ {0}, NEW n \in Nat
  PROVE  \E k \in 0..(b - 1) : (n + k) % b = 0
<1> DEFINE x == n \div b
           r == n % b
<1>1. x \in Nat /\ r \in 0..(b - 1) /\ n = b * x + r
  BY DivMod
<1> HIDE DEF x, r
<1>2. CASE r = 0
  <2>1. n % b = 0 /\ n + 0 = n /\ 0 \in 0..(b - 1)
    BY <1>2 DEF r
  <2> QED
    BY <2>1
<1>3. CASE r # 0
  <2> DEFINE k == b - r
             m == n + k
  <2>1. k \in 0..(b - 1) /\ m \in Nat /\ m = b * (x + 1) + 0
    <3>1. b * (x + 1) = b * x + b /\ b * x \in Nat
      BY <1>1
    <3>2. b - r \in 0..(b - 1)
      BY <1>1, <1>3
    <3> QED
      BY <1>1, <3>1, <3>2
  <2>2. x + 1 \in Nat /\ 0 \in 0..(b - 1)
    BY <1>1
  <2>3. k \in 0..(b - 1) /\ m = n + k
    BY <2>1
  <2> HIDE DEF k, m
  <2>4. m % b = 0
    BY <2>1, <2>2, DivUnique
  <2> QED
    BY <2>3, <2>4
<1> QED
  BY <1>2, <1>3

\* Whole blocks do not change what reaches the end of a block.
LEMMA RestEndsBlock ==
  ASSUME NEW b \in Nat \ {0}, NEW n \in Nat, NEW e \in Nat, ((n % b) + e) % b = 0
  PROVE  (n + e) % b = 0
<1> DEFINE x == n \div b
           r == n % b
           y == r + e
<1>1. x \in Nat /\ r \in 0..(b - 1) /\ n = b * x + r
  BY DivMod
<1>2. y % b = 0
  OBVIOUS
<1> HIDE DEF x, r
<1>3. y \in Nat /\ n + e = y + b * x
  <2>1. b * x \in Nat
    BY <1>1
  <2> QED
    BY <1>1, <2>1
<1> HIDE DEF y
<1>4. b \in Nat \ {0} /\ x \in Nat /\ y \in Nat
  BY <1>1, <1>3
<1>5. (y + b * x) % b = y % b
  BY ONLY <1>4, AddMultiple
<1> QED
  BY <1>2, <1>3, <1>5

\* The zeros of a message are those of what waits of it in a buffer.
LEMMA FillOfRest ==
  ASSUME alg.block \in Nat \ {0}, NEW msg, Len(msg) \in Nat, NEW size \in Nat,
         NEW k \in 0..(alg.block - 1), (Len(msg) + size + k) % alg.block = 0
  PROVE  Fill(msg, size) = k
<1> DEFINE b == alg.block
           m == Len(msg) + size
<1>0. b \in Nat \ {0} /\ k \in 0..(b - 1)
  OBVIOUS
<1>1. m \in Nat /\ (m + k) % b = 0
  OBVIOUS
<1>2. Fill(msg, size) = CHOOSE j \in 0..(b - 1) : (m + j) % b = 0
  BY DEF Fill
<1> HIDE DEF m, b
<1>3. (CHOOSE j \in 0..(b - 1) : (m + j) % b = 0) = k
  BY ONLY <1>0, <1>1, FillUnique
<1> QED
  BY <1>2, <1>3

\* The length field of sha256_final: the length in bits of the message.
LEMMA FieldType ==
  ASSUME NEW a \in Algs, NEW v \in Nat
  PROVE  /\ BigEndian(v, LengthBytes(a)) \in Seq(Byte)
         /\ Len(BigEndian(v, LengthBytes(a))) = LengthBytes(a)
<1> DEFINE L == LengthBytes(a)
           N == ByteBits * L
<1>1. ByteBits \in Nat /\ L \in Nat \ {0}
  <2>1. ByteBits \in Nat /\ L \in Nat /\ a.word \in Nat \ {0} /\ a.word <= L
    BY WordPowers
  <2> QED
    BY <2>1
<1>2. \A i \in 0..N : 2^i \in Nat \ {0}
  BY WordPowers
<1>3. 2^ByteBits \in Nat \ {0}
  <2>1. ByteBits \in 0..N
    BY <1>1
  <2> QED
    BY <1>2, <2>1
<1>4. \A j \in 1..L : 2^(ByteBits * (L - j)) \in Nat \ {0}
  <2> TAKE j \in 1..L
  <2> DEFINE i == L - j
  <2>1. i \in Nat /\ i <= L
    BY <1>1
  <2> HIDE DEF i
  <2>2. ByteBits * i \in 0..N
    <3> HIDE DEF L
    <3> QED
      BY <1>1, <2>1
  <2>3. 2^(ByteBits * i) \in Nat \ {0}
    BY <1>2, <2>2
  <2> QED
    BY <2>3 DEF i
<1>5. L \in Nat
  BY <1>1
<1> HIDE DEF L, N
<1>6. BigEndian(v, L) \in Seq(Byte) /\ Len(BigEndian(v, L)) = L
  BY <1>3, <1>4, <1>5, BigEndianType
<1> QED
  BY <1>6 DEF L

\* What sha256_final makes absorb is the padded message.
LEMMA Sha2FinalInv ==
  ASSUME IInv, sha2_final
  PROVE  IInv'
<1> DEFINE b == alg.block
           L == LengthBytes(alg)
           W == WordValues(alg)
           p == count[1] % b
           waits == Take(buffer, p)
           mark == <<2^(ByteBits - 1)>>
           field == PutLength(alg, count)
           padding == sha2_padding(alg, count, buffer)
           whole == Cat(absorbed, padding)
<1>1. /\ pc = "open" /\ pc' = "final" /\ alg.family = "sha2"
      /\ absorbed' = whole /\ output' = whole
      /\ alg' = alg /\ text' = text /\ fed' = fed /\ count' = count /\ buffer' = buffer
      /\ left' = left /\ input' = input
  BY DEF sha2_final, Cat
<1>2. /\ alg \in Algs /\ fed \in 0..Len(text) /\ text \in Texts
      /\ buffer \in Seq(Val) /\ Len(buffer) = b /\ input = <<>>
      /\ count \in (0..(W - 1)) \X (0..(W - 1))
      /\ absorbed \in Seq(Val) /\ Len(absorbed) % b = 0
  BY <1>1 DEF IInv, Typed, Control
<1>3. /\ b \in Nat \ {0} /\ W \in Nat \ {0} /\ L \in Nat
      /\ text \in Seq(Byte) /\ text \in Seq(Val) /\ fed \in Nat /\ fed <= Len(text)
      /\ count[1] \in Nat /\ count[2] \in Nat /\ Seq(Byte) \subseteq Seq(Val)
  <2>1. /\ b \in Nat \ {0} /\ W \in Nat \ {0} /\ L \in Nat
        /\ text \in Seq(Byte) /\ text \in Seq(Val) /\ Seq(Byte) \subseteq Seq(Val)
    BY <1>2, AlgFacts, WordPowers
  <2> QED
    BY <1>2, <2>1
<1>4. p \in 0..(b - 1)
  BY <1>3, DivMod
<1>5. waits \in Seq(Val) /\ Len(waits) = p
  <2>1. p \in 0..Len(buffer)
    BY <1>2, <1>4
  <2> QED
    BY <1>2, <2>1, CutType
<1>6. /\ Cat(absorbed, waits) = Take(text, fed)
      /\ count[1] + W * count[2] = fed
  <2>1. /\ Cat(Cat(absorbed, waits), <<>>) = Take(text, fed)
        /\ count[1] + W * count[2] = fed
    BY <1>1, <1>2 DEF IInv, Sha2Stream, Waiting, Counted
  <2>2. Cat(absorbed, waits) \in Seq(Val)
    BY <1>2, <1>5, CatType
  <2>3. Cat(Cat(absorbed, waits), <<>>) = Cat(absorbed, waits)
    BY <2>2, CatEmpty
  <2> QED
    BY <2>1, <2>3
<1>7. Len(Take(text, fed)) = fed
  <2>1. fed \in 0..Len(text)
    BY <1>2
  <2> QED
    BY <1>3, <2>1, CutType
\* The length.
<1>8. /\ field = BigEndian(8 * fed, L)
      /\ field \in Seq(Val) /\ Len(field) = L
  <2>1. 8 * fed < 2^(ByteBits * L)
    <3>1. 8 * Len(text) < 2^(ByteBits * L)
      BY <1>1, <1>2, TextAssumption
    <3>2. 2^(ByteBits * L) \in Nat
      <4>1. ByteBits * L \in 0..(ByteBits * L)
        BY <1>2, WordPowers
      <4> QED
        BY <1>2, <4>1, PowersOfTwo
    <3>3. Len(text) \in Nat
      BY <1>3
    <3> QED
      BY <1>3, <3>1, <3>2, <3>3
  <2>2. field = BigEndian(8 * fed, L)
    <3>1. fed = count[1] + W * count[2]
      BY <1>6
    <3> QED
      BY <1>2, <1>3, <2>1, <3>1, LengthField, SMTT(30)
  <2>3. BigEndian(8 * fed, L) \in Seq(Byte) /\ Len(BigEndian(8 * fed, L)) = L
    <3>1. 8 * fed \in Nat
      BY <1>3
    <3> QED
      BY <1>2, <3>1, FieldType
  <2> QED
    BY <1>3, <2>2, <2>3
\* The zeros.
<1>9. PICK k \in 0..(b - 1) : ((p + (1 + L)) + k) % b = 0
  <2>1. p + (1 + L) \in Nat
    BY <1>3, <1>4
  <2> QED
    BY <1>3, <2>1, FillExists
<1>10. Fill(Take(text, fed), 1 + L) = k
  <2>1. fed % b = p
    <3>1. (count[1] + W * count[2]) % b = p
      BY <1>1, <1>2, <1>3, CounterRemainder
    <3> QED
      BY <1>6, <3>1
  <2> DEFINE size == 1 + L
             msg == Take(text, fed)
  <2>2. (fed + size + k) % b = 0
    <3> DEFINE e == size + k
    <3>1. ((fed % b) + e) % b = 0
      <4> HIDE DEF b, L, p
      <4> QED
        BY <1>3, <1>4, <1>9, <2>1
    <3>2. e \in Nat /\ fed + size + k = fed + e
      BY <1>3, <1>9
    <3> HIDE DEF e, b
    <3>3. (fed + e) % b = 0
      BY <1>3, <3>1, <3>2, RestEndsBlock
    <3> QED
      BY <3>2, <3>3
  <2>3. /\ size \in Nat /\ k \in 0..(alg.block - 1) /\ Len(msg) \in Nat /\ alg.block \in Nat \ {0}
        /\ (Len(msg) + size + k) % alg.block = 0
    BY <1>3, <1>7, <1>9, <2>2, SMTT(30)
  <2> HIDE DEF size, msg
  <2>4. Fill(msg, size) = k
    BY ONLY <2>3, FillOfRest
  <2> QED
    BY <2>4 DEF size, msg
\* The padding.
<1>11. /\ padding = Cat(Cat(Cat(waits, mark), Zeros(k)), field)
       /\ padding \in Seq(Val) /\ Len(padding) \in {b, 2 * b}
  <2>1. alg \in Algs /\ alg.family = "sha2" /\ count[1] \in Nat /\ buffer \in Seq(Val)
        /\ Len(buffer) = alg.block
    BY <1>1, <1>2, <1>3
  <2>2. PutLength(alg, count) \in Seq(Val) /\ Len(PutLength(alg, count)) = LengthBytes(alg)
    BY <1>8
  <2>3. k \in 0..(alg.block - 1)
        /\ ((count[1] % alg.block) + (1 + LengthBytes(alg)) + k) % alg.block = 0
    BY <1>9
  <2> QED
    BY <2>1, <2>2, <2>3, PaddingLayout
<1>12. mark \in Seq(Val) /\ Zeros(k) \in Seq(Val)
  <2> DEFINE h == 2^(ByteBits - 1)
  <2>1. h \in Val /\ 0 \in Val /\ k \in Nat
    <3>1. h \in Byte /\ 0 \in Byte
      BY <1>2, Marks
    <3> QED
      BY <1>3, <1>9, <3>1 DEF Val
  <2>2. Zeros(k) \in Seq(Val)
    <3>1. 0 \in Nat
      OBVIOUS
    <3> QED
      BY <2>1, <3>1, ZerosSplit
  <2> HIDE DEF h
  <2>3. <<h>> \in Seq(Val)
    BY <2>1
  <2> QED
    BY <2>2, <2>3 DEF h
<1> DEFINE zeros == Zeros(k)
<1> HIDE DEF waits, mark, field, padding, zeros, p, L
<1>13. whole = Cat(Cat(Cat(Take(text, fed), mark), zeros), field)
  <2>1. zeros \in Seq(Val)
    BY <1>12 DEF zeros
  <2>2. Cat(waits, mark) \in Seq(Val)
    BY <1>5, <1>12, CatType
  <2>3. Cat(Cat(waits, mark), zeros) \in Seq(Val)
    BY <2>1, <2>2, CatType
  <2>4. whole = Cat(Cat(absorbed, Cat(Cat(waits, mark), zeros)), field)
    <3>1. whole = Cat(absorbed, Cat(Cat(Cat(waits, mark), zeros), field))
      BY <1>11 DEF zeros
    <3> QED
      BY <1>2, <1>8, <2>3, <3>1, CatAssoc
  <2>5. Cat(absorbed, Cat(Cat(waits, mark), zeros)) = Cat(Cat(absorbed, Cat(waits, mark)), zeros)
    BY <1>2, <2>1, <2>2, CatAssoc
  <2>6. Cat(absorbed, Cat(waits, mark)) = Cat(Cat(absorbed, waits), mark)
    BY <1>2, <1>5, <1>12, CatAssoc
  <2> QED
    BY <1>6, <2>4, <2>5, <2>6
<1>14. whole = Sha2Padded(Message)
  BY <1>7, <1>8, <1>10, <1>13 DEF Sha2Padded, Message, Cat, Take, mark, field, zeros, L
<1>15. whole \in Seq(Val) /\ Len(whole) % b = 0
  <2>1. whole \in Seq(Val) /\ Len(whole) = Len(absorbed) + Len(padding)
    BY <1>2, <1>11, CatType
  <2>2. PICK x \in Nat : Len(padding) = b * x
    <3>1. CASE Len(padding) = b
      BY <1>3, <3>1
    <3>2. CASE Len(padding) = 2 * b
      BY <1>3, <3>2
    <3> QED
      BY <1>11, <3>1, <3>2
  <2>3. Len(absorbed) \in Nat
    BY <1>2
  <2>4. (Len(absorbed) + b * x) % b = Len(absorbed) % b
    BY <1>3, <2>3, AddMultiple
  <2> QED
    BY <1>2, <2>1, <2>2, <2>4
<1>16. Typed'
  <2>1. Cells' = Cells
    BY <1>1 DEF Cells
  <2> HIDE DEF whole
  <2> QED
    BY <1>1, <1>15, <2>1 DEF IInv, Typed
<1>17. Control' /\ Sha2Stream' /\ Sha3Stream' /\ CopyStream'
  BY <1>1, <1>2 DEF Control, Sha2Stream, Sha3Stream, CopyStream
<1>18. DigestCorrect'
  <2> HIDE DEF whole
  <2>1. Sha2Padded(Message)' = Sha2Padded(Message)
    BY <1>1 DEF Sha2Padded, Message, Fill
  <2> QED
    BY <1>1, <1>14, <2>1 DEF DigestCorrect
<1> QED
  BY <1>16, <1>17, <1>18 DEF IInv

\* What FIPS 202 adds to a message: its end is k lanes after the first mark.
LastLanes(k, mark) ==
  IF k = 0 THEN <<{6, mark}>>
  ELSE <<{6}>> \o [j \in 1..(k - 1) |-> {}] \o <<{mark}>>

\* Its lanes.
LEMMA LastLanesCells ==
  ASSUME NEW k \in Nat, NEW mark, {6, mark} \in Val, {6} \in Val, {mark} \in Val, {} \in Val
  PROVE  /\ LastLanes(k, mark) \in Seq(Val) /\ Len(LastLanes(k, mark)) = k + 1
         /\ \A j \in 1..(k + 1) :
              LastLanes(k, mark)[j] = IF k = 0 THEN {6, mark}
                                      ELSE IF j = 1 THEN {6} ELSE IF j = k + 1 THEN {mark} ELSE {}
<1> DEFINE both == {6, mark}
           six == {6}
           one == {mark}
           none == {}
           n == k - 1
           nothing == [j \in 1..n |-> none]
<1>1. both \in Val /\ six \in Val /\ one \in Val /\ none \in Val
  OBVIOUS
<1>2. LastLanes(k, mark) = IF k = 0 THEN <<both>> ELSE Cat(Cat(<<six>>, nothing), <<one>>)
  BY DEF LastLanes, Cat
<1>3. k # 0 => n \in Nat /\ k + 1 = n + 2
  OBVIOUS
<1> HIDE DEF both, six, one, none, n
<1>4. CASE k = 0
  <2>1. /\ <<both>> \in Seq(Val) /\ Len(<<both>>) = 1 /\ <<both>>[1] = both
    BY <1>1
  <2>2. LastLanes(k, mark) = <<both>>
    BY <1>2, <1>4
  <2>3. \A j \in 1..(k + 1) : j = 1
    BY <1>4
  <2> DEFINE s == <<both>>
  <2> HIDE DEF s
  <2>4. \A j \in 1..(k + 1) : LastLanes(k, mark)[j] = both
    BY <2>1, <2>2, <2>3 DEF s
  <2>5. LastLanes(k, mark) \in Seq(Val) /\ Len(LastLanes(k, mark)) = k + 1
    <3>1. s \in Seq(Val) /\ Len(s) = 1 /\ LastLanes(k, mark) = s
      BY <2>1, <2>2 DEF s
    <3> QED
      BY <1>4, <3>1
  <2> QED
    BY <1>4, <2>4, <2>5 DEF both
<1>5. CASE k # 0
  <2> DEFINE x == Cat(<<six>>, nothing)
             y == Cat(x, <<one>>)
  <2>1. /\ <<six>> \in Seq(Val) /\ Len(<<six>>) = 1 /\ <<six>>[1] = six
        /\ <<one>> \in Seq(Val) /\ Len(<<one>>) = 1 /\ <<one>>[1] = one
    BY <1>1
  <2>2. nothing \in Seq(Val) /\ Len(nothing) = n /\ \A j \in 1..n : nothing[j] = none
    BY <1>1, <1>3, <1>5
  <2> DEFINE s == <<six>>
             o == <<one>>
  <2>3. x = Cat(s, nothing) /\ y = Cat(x, o)
    OBVIOUS
  <2>4. /\ s \in Seq(Val) /\ Len(s) = 1 /\ s[1] = six
        /\ o \in Seq(Val) /\ Len(o) = 1 /\ o[1] = one
    BY <2>1
  <2> HIDE DEF s, o, nothing, x, y
  <2>5. x \in Seq(Val) /\ Len(x) = Len(s) + Len(nothing)
    BY <2>2, <2>3, <2>4, CatType
  <2>6. \A j \in 1..(Len(s) + Len(nothing)) :
          x[j] = IF j <= Len(s) THEN s[j] ELSE nothing[j - Len(s)]
    BY <2>2, <2>3, <2>4, CatElements
  <2>7. y \in Seq(Val) /\ Len(y) = Len(x) + Len(o)
    BY <2>3, <2>4, <2>5, CatType
  <2>8. \A j \in 1..(Len(x) + Len(o)) : y[j] = IF j <= Len(x) THEN x[j] ELSE o[j - Len(x)]
    BY <2>3, <2>4, <2>5, CatElements
  <2>9. Len(y) = k + 1 /\ Len(x) = k
    BY <1>3, <1>5, <2>2, <2>4, <2>5, <2>7
  <2>10. \A j \in 1..(k + 1) : y[j] = IF j = 1 THEN six ELSE IF j = k + 1 THEN one ELSE none
    <3> TAKE j \in 1..(k + 1)
    <3>0. y[j] = IF j <= Len(x) THEN x[j] ELSE o[j - Len(x)]
      BY <2>4, <2>8, <2>9
    <3>1. CASE j = 1
      <4>1. x[j] = s[j]
        BY <1>3, <1>5, <2>2, <2>4, <2>6, <3>1
      <4>2. j <= k
        BY <1>5, <3>1
      <4> QED
        BY <2>4, <2>9, <3>0, <3>1, <4>1, <4>2
    <3>2. CASE j = k + 1
      <4>1. ~ (j <= k) /\ j - k = 1 /\ j # 1
        BY <1>5, <3>2
      <4> QED
        BY <2>4, <2>9, <3>0, <3>2, <4>1
    <3>3. CASE j # 1 /\ j # k + 1
      <4>1. j - 1 \in 1..n /\ j <= k /\ ~ (j <= 1) /\ j \in 1..(1 + n)
        BY <1>3, <1>5, <3>3
      <4>2. x[j] = nothing[j - 1]
        BY <2>2, <2>4, <2>6, <4>1
      <4> QED
        BY <2>2, <2>9, <3>0, <3>3, <4>1, <4>2
    <3> QED
      BY <3>1, <3>2, <3>3
  <2>11. LastLanes(k, mark) = y
    BY <1>2, <1>5 DEF y, x, s, o
  <2> QED
    BY <1>5, <2>7, <2>9, <2>10, <2>11 DEF six, one, none
<1> QED
  BY <1>4, <1>5

\* The two marks of _sha3_finalize end the lanes that are filled.
LEMMA Sha3Padding ==
  ASSUME NEW a \in Algs, a.family = "sha3", NEW state, State(a, state),
         NEW c \in 0..(a.block - 1), NEW mark \in Byte, mark # 6, 6 \in Byte,
         \A j \in (c + 1)..a.block : Lanes(a, state)[j] = {},
         NEW padded, padded = XorByte(a, XorByte(a, state, c, 6), a.block - 1, mark)
  PROVE  /\ Lanes(a, padded) \in Seq(Val) /\ Len(Lanes(a, padded)) = a.block
         /\ Lanes(a, padded) = Cat(Take(Lanes(a, state), c), LastLanes(a.block - 1 - c, mark))
<1> DEFINE b == a.block
           k == b - 1 - c
           first == XorByte(a, state, c, 6)
           lanes == Lanes(a, state)
           lanes1 == Lanes(a, first)
           lanes2 == Lanes(a, padded)
           six == {6}
           one == {mark}
           both == {6, mark}
           tail == LastLanes(k, mark)
<1>1. b \in Nat \ {0} /\ c \in 0..(b - 1) /\ k \in Nat /\ c + k + 1 = b /\ c \in Nat
  <2>1. b \in Nat \ {0}
    BY AlgFacts
  <2> QED
    BY <2>1
<1>2. /\ State(a, first)
      /\ \A j \in 1..b : lanes1[j] = IF j = c + 1 THEN Toggle(lanes[j], 6) ELSE lanes[j]
  BY LanesXor
<1>3. /\ State(a, padded)
      /\ \A j \in 1..b : lanes2[j] = IF j = b THEN Toggle(lanes1[j], mark) ELSE lanes1[j]
  <2>1. b - 1 \in 0..(a.block - 1) /\ padded = XorByte(a, first, b - 1, mark)
    BY <1>1
  <2> DEFINE e == b - 1
  <2>2. e \in 0..(a.block - 1) /\ padded = XorByte(a, first, e, mark) /\ e + 1 = b
    BY <1>1, <2>1
  <2> HIDE DEF e, first
  <2>3. /\ State(a, padded)
        /\ \A j \in 1..a.block :
             lanes2[j] = IF j = e + 1 THEN Toggle(lanes1[j], mark) ELSE lanes1[j]
    BY <1>2, <2>2, LanesXor
  <2> QED
    BY <2>2, <2>3
<1>4. /\ lanes \in Seq(Val) /\ Len(lanes) = b /\ lanes2 \in Seq(Val) /\ Len(lanes2) = b
      /\ \A j \in (c + 1)..b : lanes[j] = {}
  <2>1. lanes \in Seq(Val) /\ Len(lanes) = b
    BY LanesType DEF State
  <2>2. lanes2 \in Seq(Val) /\ Len(lanes2) = b
    BY <1>3, LanesType DEF State
  <2> QED
    BY <2>1, <2>2
<1>5. /\ Toggle({}, 6) = six /\ Toggle({}, mark) = one /\ Toggle(six, mark) = both
  BY DEF Toggle, SymmetricDifference
<1>6. /\ tail \in Seq(Val) /\ Len(tail) = k + 1
      /\ \A j \in 1..(k + 1) :
           tail[j] = IF k = 0 THEN both ELSE IF j = 1 THEN six ELSE IF j = k + 1 THEN one ELSE {}
  <2>1. six \in Val /\ one \in Val /\ both \in Val /\ {} \in Val
    BY DEF Val
  <2> HIDE DEF k
  <2> QED
    BY <1>1, <2>1, LastLanesCells
<1> HIDE DEF b, k, first, lanes, lanes1, lanes2, six, one, both, tail
\* The lanes before the first mark stay, those after it are the marks and zeros.
<1>7. \A j \in 1..c : lanes2[j] = lanes[j]
  <2> TAKE j \in 1..c
  <2>1. j \in 1..b /\ j # b /\ j # c + 1
    BY <1>1
  <2> QED
    BY <1>2, <1>3, <2>1
<1>8. \A j \in 1..(k + 1) : lanes2[c + j] = tail[j]
  <2> TAKE j \in 1..(k + 1)
  <2>1. c + j \in 1..b /\ c + j \in (c + 1)..b /\ (c + j = b <=> j = k + 1) /\ (c + j = c + 1 <=> j = 1)
    BY <1>1
  <2> DEFINE i == c + j
  <2>2. i \in 1..b /\ i \in (c + 1)..b /\ (i = b <=> j = k + 1) /\ (i = c + 1 <=> j = 1)
    BY <2>1
  <2> HIDE DEF i
  <2>3. lanes1[i] = IF j = 1 THEN six ELSE {}
    BY <1>2, <1>4, <1>5, <2>2
  <2>4. lanes2[i] = IF j = k + 1 THEN Toggle(lanes1[i], mark) ELSE lanes1[i]
    BY <1>3, <2>2
  <2>5. lanes2[i] = IF k = 0 THEN both ELSE IF j = 1 THEN six ELSE IF j = k + 1 THEN one ELSE {}
    <3>1. CASE k = 0
      BY <1>1, <1>5, <2>3, <2>4, <3>1
    <3>2. CASE k # 0 /\ j = 1
      BY <1>1, <1>5, <2>3, <2>4, <3>2
    <3>3. CASE k # 0 /\ j # 1
      BY <1>1, <1>5, <2>3, <2>4, <3>3
    <3> QED
      BY <3>1, <3>2, <3>3
  <2> QED
    BY <1>6, <2>5 DEF i
<1>9. Take(lanes2, c) = Take(lanes, c)
  <2> DEFINE x == Take(lanes2, c)
             y == Take(lanes, c)
  <2>1. c \in 0..Len(lanes) /\ c \in 0..Len(lanes2)
    BY <1>1, <1>4
  <2>2. x \in Seq(Val) /\ Len(x) = c /\ \A j \in 1..c : x[j] = lanes2[j]
    BY <1>4, <2>1, CutType, SMTT(30)
  <2>3. y \in Seq(Val) /\ Len(y) = c /\ \A j \in 1..c : y[j] = lanes[j]
    BY <1>4, <2>1, CutType, SMTT(30)
  <2> HIDE DEF x, y
  <2>4. x = y
    <3>1. Len(x) = Len(y) /\ \A j \in 1..Len(x) : x[j] = y[j]
      BY <1>7, <2>2, <2>3
    <3> QED
      BY <2>2, <2>3, <3>1, SameElements
  <2> QED
    BY <2>4 DEF x, y
<1>10. Drop(lanes2, c) = tail
  <2> DEFINE x == Drop(lanes2, c)
  <2>1. c \in 0..Len(lanes2) /\ Len(lanes2) - c = k + 1
    BY <1>1, <1>4
  <2>2. x \in Seq(Val) /\ Len(x) = Len(lanes2) - c /\ \A j \in 1..(Len(lanes2) - c) : x[j] = lanes2[c + j]
    <3>1. lanes2 \in Seq(Val)
      BY <1>4
    <3> QED
      BY ONLY <2>1, <3>1, CutType
  <2> HIDE DEF x
  <2>3. Len(x) = Len(tail) /\ \A j \in 1..Len(x) : x[j] = tail[j]
    BY <1>6, <1>8, <2>1, <2>2
  <2>4. x = tail
    BY <1>6, <2>2, <2>3, SameElements
  <2> QED
    BY <2>4 DEF x
<1>11. Cat(Take(lanes2, c), Drop(lanes2, c)) = lanes2
  <2>1. c \in 0..Len(lanes2)
    BY <1>1, <1>4
  <2> QED
    BY <1>4, <2>1, TakeDrop
<1> QED
  BY <1>4, <1>9, <1>10, <1>11 DEF lanes, lanes2, tail, k, b

\* What _sha3_finalize makes the permutation absorb is the padded message.
LEMMA Sha3FinalInv ==
  ASSUME IInv, _sha3_finalize
  PROVE  IInv'
<1> DEFINE b == alg.block
           c == count[1]
           k == b - 1 - c
           mark == 2^(ByteBits - 1)
           padded == XorByte(alg, XorByte(alg, buffer, c, 6), b - 1, mark)
           last == Lanes(alg, padded)
           lanes == Lanes(alg, buffer)
           done == Take(lanes, c)
           whole == Cat(absorbed, last)
           msg == Take(text, fed)
<1>1. /\ pc = "open" /\ pc' = "final" /\ alg.family = "sha3"
      /\ absorbed' = whole /\ output' = whole /\ buffer' = Untouched(alg)
      /\ alg' = alg /\ text' = text /\ fed' = fed /\ count' = count
      /\ left' = left /\ input' = input
  BY DEF _sha3_finalize, Cat
<1>2. /\ alg \in Algs /\ fed \in 0..Len(text) /\ text \in Texts
      /\ buffer \in Seq(Val) /\ Len(buffer) = b /\ input = <<>>
      /\ \A j \in 1..b : buffer[j] \in SUBSET Byte
      /\ count \in (0..(WordValues(alg) - 1)) \X (0..(WordValues(alg) - 1))
      /\ absorbed \in Seq(Val) /\ Len(absorbed) % b = 0
  BY <1>1 DEF IInv, Typed, Control, Cells
<1>3. /\ b \in Nat \ {0} /\ text \in Seq(Byte) /\ fed \in Nat /\ Len(absorbed) \in Nat
  <2>1. /\ b \in Nat \ {0} /\ text \in Seq(Byte)
    BY <1>2, AlgFacts
  <2> QED
    BY <1>2, <2>1
<1>4. /\ c \in 0..(b - 1) /\ c \in Nat
      /\ Cat(Cat(absorbed, done), Singletons(<<>>)) = Singletons(msg)
      /\ \A j \in (c + 1)..b : lanes[j] = {}
  <2>1. WordValues(alg) \in Nat
    BY <1>2, AlgFacts
  <2>2. c \in Nat
    BY <1>2, <2>1
  <2>3. c < b
    BY <1>1 DEF IInv, Sha3Stream
  <2>4. c \in 0..(b - 1)
    BY <1>3, <2>2, <2>3
  <2> QED
    BY <1>1, <1>2, <2>2, <2>4 DEF IInv, Sha3Stream
<1>5. msg \in Seq(Byte) /\ Len(msg) = fed
  <2>1. fed \in 0..Len(text)
    BY <1>2
  <2> QED
    BY <1>3, <2>1, CutType
<1>6. lanes \in Seq(Val) /\ Len(lanes) = b
  BY <1>1, <1>2, LanesType
<1>7. done \in Seq(Val) /\ Len(done) = c
  <2>1. c \in 0..Len(lanes)
    BY <1>4, <1>6
  <2> QED
    BY <1>6, <2>1, CutType
<1>8. /\ Cat(absorbed, done) = Singletons(msg)
      /\ Len(absorbed) + c = fed
  <2>1. Singletons(<<>>) = <<>>
    BY DEF Singletons
  <2>2. Cat(absorbed, done) \in Seq(Val) /\ Len(Cat(absorbed, done)) = Len(absorbed) + c
    <3>1. Cat(absorbed, done) \in Seq(Val) /\ Len(Cat(absorbed, done)) = Len(absorbed) + Len(done)
      BY <1>2, <1>7, CatType
    <3> QED
      BY <1>7, <3>1
  <2>3. Cat(Cat(absorbed, done), <<>>) = Cat(absorbed, done)
    BY <2>2, CatEmpty
  <2>4. Cat(absorbed, done) = Singletons(msg)
    BY <1>4, <2>1, <2>3
  <2>5. Len(Singletons(msg)) = fed
    BY <1>3, <1>5 DEF Singletons
  <2> QED
    BY <2>2, <2>4, <2>5
<1>9. /\ last \in Seq(Val) /\ Len(last) = b
      /\ last = Cat(done, LastLanes(k, mark))
  <2>1. mark \in Byte /\ mark # 6 /\ 6 \in Byte
    BY <1>2, Marks
  <2>2. State(alg, buffer)
    BY <1>2 DEF State
  <2>3. /\ alg \in Algs /\ alg.family = "sha3" /\ c \in 0..(alg.block - 1)
        /\ \A j \in (c + 1)..alg.block : Lanes(alg, buffer)[j] = {}
        /\ padded = XorByte(alg, XorByte(alg, buffer, c, 6), alg.block - 1, mark)
    BY <1>1, <1>2, <1>4
  <2> HIDE DEF padded, c, mark
  <2>4. /\ Lanes(alg, padded) \in Seq(Val) /\ Len(Lanes(alg, padded)) = alg.block
        /\ Lanes(alg, padded)
             = Cat(Take(Lanes(alg, buffer), c), LastLanes(alg.block - 1 - c, mark))
    BY <2>1, <2>2, <2>3, Sha3Padding
  <2> QED
    BY <2>4
<1> HIDE DEF last, done, lanes, msg, mark, padded
<1>10. Fill(msg, 1) = k
  <2>1. (fed + 1 + k) % b = 0
    <3> DEFINE m == Len(absorbed)
    <3>1. m \in Nat /\ b \in Nat \ {0} /\ 1 \in Nat /\ m % b = 0
      BY <1>2, <1>3
    <3>2. fed + 1 + k = m + b * 1
      BY <1>3, <1>4, <1>8, SMTT(30)
    <3> HIDE DEF m, b, k
    <3>3. (m + b * 1) % b = m % b
      BY ONLY <3>1, AddMultiple
    <3> QED
      BY <3>1, <3>2, <3>3
  <2>2. /\ 1 \in Nat /\ k \in 0..(alg.block - 1) /\ Len(msg) \in Nat /\ alg.block \in Nat \ {0}
        /\ (Len(msg) + 1 + k) % alg.block = 0
    BY <1>3, <1>4, <1>5, <2>1
  <2> HIDE DEF k
  <2> QED
    BY ONLY <2>2, FillOfRest
<1>11. whole = Cat(Singletons(msg), LastLanes(k, mark))
  <2>1. LastLanes(k, mark) \in Seq(Val)
    <3>1. mark \in Byte /\ 6 \in Byte
      BY <1>2, Marks DEF mark
    <3>2. {6, mark} \in Val /\ {6} \in Val /\ {mark} \in Val /\ {} \in Val
      BY <3>1 DEF Val
    <3>3. k \in Nat
      BY <1>3, <1>4
    <3> HIDE DEF k
    <3> QED
      BY <3>2, <3>3, LastLanesCells
  <2>2. Cat(absorbed, Cat(done, LastLanes(k, mark))) = Cat(Cat(absorbed, done), LastLanes(k, mark))
    BY <1>2, <1>7, <2>1, CatAssoc
  <2> QED
    BY <1>8, <1>9, <2>2
<1>12. whole = Sha3Padded(Message)
  <2>1. Message = msg
    BY DEF Message, msg, Take
  <2> HIDE DEF k
  <2>2. Sha3Padded(msg) = Singletons(msg) \o LastLanes(k, mark)
    BY <1>10 DEF Sha3Padded, LastLanes, mark
  <2> QED
    BY <1>11, <2>1, <2>2 DEF Cat
<1>13. whole \in Seq(Val) /\ Len(whole) % b = 0
  <2>1. whole \in Seq(Val) /\ Len(whole) = Len(absorbed) + Len(last)
    BY <1>2, <1>9, CatType
  <2> DEFINE m == Len(absorbed)
  <2>2. m \in Nat /\ b \in Nat \ {0} /\ 1 \in Nat /\ m % b = 0 /\ Len(whole) = m + b * 1
    BY <1>2, <1>3, <1>9, <2>1, SMTT(30)
  <2> HIDE DEF m, b, whole
  <2>3. (m + b * 1) % b = m % b
    BY ONLY <2>2, AddMultiple
  <2> QED
    BY <2>1, <2>2, <2>3
<1> HIDE DEF whole
<1>14. Typed'
  <2>1. Cells' = SUBSET Byte
    BY <1>1 DEF Cells
  <2>2. /\ buffer' \in Seq(Val) /\ Len(buffer') = b /\ \A j \in 1..b : buffer'[j] \in SUBSET Byte
    BY <1>1, <1>2, LanesUntouched
  <2> QED
    BY <1>1, <1>13, <2>1, <2>2 DEF IInv, Typed
<1>15. Control' /\ Sha2Stream' /\ Sha3Stream' /\ CopyStream'
  BY <1>1, <1>2 DEF Control, Sha2Stream, Sha3Stream, CopyStream
<1>16. DigestCorrect'
  <2>1. Sha3Padded(Message)' = Sha3Padded(Message)
    BY <1>1 DEF Sha3Padded, Message, Fill, Singletons
  <2> QED
    BY <1>1, <1>12, <2>1 DEF DigestCorrect
<1> QED
  BY <1>14, <1>15, <1>16 DEF IInv

\* Steps that change nothing.
LEMMA StutterInv ==
  ASSUME IInv, UNCHANGED vars
  PROVE  IInv'
<1>1. /\ alg' = alg /\ pc' = pc /\ text' = text /\ fed' = fed /\ count' = count /\ buffer' = buffer
      /\ left' = left /\ input' = input /\ absorbed' = absorbed /\ output' = output
  BY DEF vars
<1>2. Typed'
  BY <1>1 DEF IInv, Typed, Cells
<1>3. Control'
  BY <1>1 DEF IInv, Control
<1>4. Sha2Stream'
  BY <1>1 DEF IInv, Sha2Stream, Waiting, Counted, Treated
<1>5. Sha3Stream'
  BY <1>1 DEF IInv, Sha3Stream
<1>6. CopyStream'
  BY <1>1 DEF IInv, CopyStream, Treated
<1>7. DigestCorrect'
  BY <1>1 DEF IInv, DigestCorrect, Sha2Padded, Sha3Padded, Message, Fill, Singletons
<1> QED
  BY <1>2, <1>3, <1>4, <1>5, <1>6, <1>7 DEF IInv

-----------------------------------------------------------------------------
(***************************************************************************)
(* The theorems.                                                           *)
(***************************************************************************)

\* IInv holds in every state of every stream.
THEOREM Inductive == Spec => []IInv
<1>1. Init => IInv
  BY InitInv
<1>2. IInv /\ [Next]_vars => IInv'
  <2> SUFFICES ASSUME IInv, [Next]_vars PROVE IInv'
    OBVIOUS
  <2>1. CASE \E t \in Texts : hash_init(t)
    BY <2>1, HashInitInv
  <2>2. CASE \E n \in 0..MaxChunk : hash_update(n)
    BY <2>2, HashUpdateInv
  <2>3. CASE Sha2Fill
    BY <2>3, Sha2FillInv
  <2>4. CASE Sha2Block
    BY <2>4, Sha2BlockInv
  <2>5. CASE Sha2Rest
    BY <2>5, Sha2RestInv
  <2>6. CASE Sha3Byte
    BY <2>6, Sha3ByteInv
  <2>7. CASE copy256_update
    BY <2>7, CopyUpdateInv
  <2>8. CASE sha2_final
    BY <2>8, Sha2FinalInv
  <2>9. CASE _sha3_finalize
    BY <2>9, Sha3FinalInv
  <2>10. CASE copy256_final
    BY <2>10, CopyFinalInv
  <2>11. CASE UNCHANGED vars
    BY <2>11, StutterInv
  <2> QED
    BY <2>1, <2>2, <2>3, <2>4, <2>5, <2>6, <2>7, <2>8, <2>9, <2>10, <2>11 DEF Next
<1> QED
  BY <1>1, <1>2, PTL DEF Spec

\* The variables keep their types: in particular no copy of an update or a final
\* leaves the buffer, and the counter stays within its words.
THEOREM TypeCorrect == Spec => []TypeOK
<1>1. IInv => TypeOK
  BY DEF IInv, Typed, TypeOK
<1> QED
  BY <1>1, Inductive, PTL

\* Whatever the cutting of the message into updates, nothing of it is lost,
\* repeated or reordered, and the counter is its length.
THEOREM StreamCorrect == Spec => []StreamInv
<1>1. IInv => StreamInv
  <2> SUFFICES ASSUME IInv PROVE StreamInv
    OBVIOUS
  <2>1. ASSUME alg.family = "sha2", pc \in {"open", "fill", "blocks"}
        PROVE  LET waiting == IF pc = "blocks" THEN left ELSE count[1] % alg.block
                   counted == IF pc = "fill" THEN fed - Len(input) ELSE fed
               IN  /\ absorbed \o SubSeq(buffer, 1, waiting) \o input = Message
                   /\ count[1] + WordValues(alg) * count[2] = counted
    BY <2>1 DEF IInv, Sha2Stream, Waiting, Counted, Treated, Message, Cat, Take
  <2>2. ASSUME alg.family = "sha3", pc \in {"open", "absorb"}
        PROVE  /\ absorbed \o SubSeq(Lanes(alg, buffer), 1, count[1]) \o Singletons(input)
                    = Singletons(Message)
               /\ \A j \in (count[1] + 1)..alg.block : Lanes(alg, buffer)[j] = {}
    BY <2>2 DEF IInv, Sha3Stream, Message, Cat, Take
  <2> QED
    BY <2>1, <2>2 DEF StreamInv
<1> QED
  BY <1>1, Inductive, PTL

\* A digest depends on the message only and is that of the message padded as
\* FIPS 180-4 and FIPS 202 say, for every block size, word size, byte order,
\* message and cutting that the assumptions allow.
THEOREM DigestIsStandard == Spec => []DigestCorrect
<1>1. IInv => DigestCorrect
  BY DEF IInv
<1> QED
  BY <1>1, Inductive, PTL
=============================================================================
