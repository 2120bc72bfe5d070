------------------------------- MODULE WnafProofs -------------------------------
(***************************************************************************)
(* Proofs about the double multiplication of WnafMul: the digits, the      *)
(* tables, the loop, and the abstract multiplication it implements.        *)
(***************************************************************************)
EXTENDS WnafMul, CurveLemmas

-----------------------------------------------------------------------------
(* One digit.                                                                *)

LEMMA WindowPowers ==
  ASSUME NEW w \in Windows
  PROVE  /\ w \in Nat /\ w >= 2 /\ 2^w = 2 * 2^(w - 1) /\ 2^(w - 1) = 2 * 2^(w - 2)
         /\ 2^w \in Nat \ {0} /\ 2^(w - 1) \in Nat \ {0} /\ 2^(w - 2) \in Nat \ {0}
<1>1. w \in Nat /\ w >= 2
  BY InputAssumption
<1>2. w - 1 \in 0..w /\ w - 2 \in 0..w /\ w \in 0..w /\ (w - 1) + 1 = w /\ (w - 2) + 1 = w - 1
  BY <1>1
<1>3. \A j \in 0..w : 2^j \in Nat \ {0} /\ 2^(j + 1) = 2 * 2^j
  BY PowersOfTwo
<1> QED
  BY <1>1, <1>2, <1>3

\* Of two powers one divides the other.
LEMMA PowerRatio ==
  ASSUME NEW w \in Windows, NEW a \in Nat, NEW b \in Nat, a <= b, b <= w \/ b <= WNAF_SIZE
  PROVE  /\ 2^a \in Nat \ {0} /\ 2^b \in Nat \ {0}
         /\ \E c \in Nat \ {0} : 2^b = 2^a * c
<1>1. PICK e \in Windows \cup {WNAF_SIZE} : b <= e
  OBVIOUS
<1>2. e \in Nat
  BY <1>1, InputAssumption, SizeAssumption
<1>3. PowersOf(2, e)
  BY <1>1, PowersOfTwo DEF PowersOf
<1>4. b - a \in Nat /\ a + (b - a) = b /\ a \in 0..e /\ b \in 0..e /\ b - a \in 0..e /\ 2 \in Nat
  BY <1>1, <1>2
<1>5. 2^(a + (b - a)) = 2^a * 2^(b - a)
  BY <1>1, <1>2, <1>3, <1>4, PowerSum
<1> QED
  BY <1>3, <1>4, <1>5 DEF PowersOf

\* A digit and what it leaves.
LEMMA DigitStep ==
  ASSUME NEW w \in Windows, NEW t \in Nat \ {0}
  PROVE  LET d == Digit(w, t)
             u == (t - d) \div 2
         IN  /\ d \in Int /\ u \in Nat /\ u < t /\ t = d + 2 * u
             /\ d = 0 <=> t % 2 = 0
             /\ d # 0 => /\ d % 2 = 1 /\ -(2^(w - 1)) < d /\ d < 2^(w - 1)
                         /\ u % 2^(w - 1) = 0
<1> DEFINE W == 2^(w - 1)
           V == 2^(w - 2)
           d == Digit(w, t)
           u == (t - d) \div 2
           r == t % 2^w
           q == t \div 2^w
<1>1. W \in Nat \ {0} /\ V \in Nat \ {0} /\ W = 2 * V /\ 2^w = 2 * W /\ 2^w \in Nat \ {0}
  BY WindowPowers
<1>2. q \in Nat /\ r \in 0..(2 * W - 1) /\ t = (2 * W) * q + r
  <2> DEFINE M == 2^w
  <2>1. M \in Nat \ {0} /\ M = 2 * W
    BY <1>1
  <2> HIDE DEF M
  <2>2. t \div M \in Nat /\ t % M \in 0..(M - 1) /\ t = M * (t \div M) + (t % M)
    BY <2>1, DivMod
  <2> QED
    BY <2>1, <2>2 DEF M
<1>3. d = IF t % 2 = 0 THEN 0 ELSE IF r > W THEN r - 2 * W ELSE r
  BY <1>1 DEF Digit
<1> HIDE DEF W, V, d, r, q
<1>4. CASE t % 2 = 0
  <2>1. d = 0
    BY <1>3, <1>4
  <2>2. t - 0 = t /\ t \div 2 \in Nat /\ t \div 2 < t /\ t = 0 + 2 * (t \div 2)
    BY <1>4
  <2> QED
    BY <1>4, <2>1, <2>2 DEF d
<1>5. CASE t % 2 # 0
  <2>1. r % 2 = 1 /\ r # W
    <3>1. t = 2 * (W * q) + r /\ W * q \in Nat
      BY <1>1, <1>2
    <3> QED
      BY <1>1, <1>2, <1>5, <3>1
  <2>2. CASE r > W
    <3>1. d = r - 2 * W
      BY <1>3, <1>5, <2>2
    <3>2. t - d = 2 * (W * (q + 1)) /\ W * (q + 1) \in Nat
      BY <1>1, <1>2, <3>1
    <3>3. u = W * (q + 1)
      BY <3>2
    <3>4. d % 2 = 1
      BY <1>1, <1>2, <2>1, <3>1
    <3>5. u % W = 0
      <4>1. u = W * (q + 1) + 0 /\ 0 \in 0..(W - 1) /\ q + 1 \in Nat /\ u \in Nat
        BY <1>1, <1>2, <3>2, <3>3
      <4> QED
        BY ONLY <1>1, <4>1, DivUnique
    <3>6. u < t
      <4>1. 2 * u = t - d /\ -d < W /\ t >= r
        BY <1>1, <1>2, <2>2, <3>1, <3>2, <3>3
      <4> QED
        BY <1>1, <1>2, <2>2, <3>2, <3>3, <4>1
    <3> QED
      BY <1>1, <1>2, <1>5, <2>2, <3>1, <3>2, <3>3, <3>4, <3>5, <3>6 DEF W, d
  <2>3. CASE r < W
    <3>1. d = r
      BY <1>1, <1>2, <1>3, <1>5, <2>3
    <3>2. t - d = 2 * (W * q) /\ W * q \in Nat
      BY <1>1, <1>2, <3>1
    <3>3. u = W * q
      BY <3>2
    <3>5. u % W = 0
      <4>1. u = W * q + 0 /\ 0 \in 0..(W - 1) /\ u \in Nat /\ q \in Nat
        BY <1>1, <1>2, <3>2, <3>3
      <4> QED
        BY ONLY <1>1, <4>1, DivUnique
    <3>6. u < t /\ t = d + 2 * u
      BY <1>1, <1>2, <2>1, <3>1, <3>2, <3>3
    <3> QED
      BY <1>1, <1>2, <1>5, <2>1, <2>3, <3>1, <3>2, <3>3, <3>5, <3>6 DEF W, d
  <2> QED
    BY <1>1, <1>2, <2>1, <2>2, <2>3
<1> QED
  BY <1>4, <1>5

\* What is left is at most half the next power of two.
LEMMA DigitBound ==
  ASSUME NEW w \in Windows, NEW t \in Nat \ {0}, NEW k \in 1..WNAF_SIZE, t <= 2^k
  PROVE  (t - Digit(w, t)) \div 2 <= 2^(k - 1)
<1> DEFINE W == 2^(w - 1)
           K == 2^(k - 1)
           d == Digit(w, t)
           u == (t - d) \div 2
           r == t % 2^w
           q == t \div 2^w
<1>0. k \in Nat /\ k >= 1 /\ k <= WNAF_SIZE /\ WNAF_SIZE \in Nat /\ w \in Nat /\ w >= 2
  BY SizeAssumption, WindowPowers
<1>1. W \in Nat \ {0} /\ 2^w = 2 * W /\ 2^w \in Nat \ {0} /\ K \in Nat \ {0} /\ 2^k = 2 * K
  <2>1. k - 1 \in 0..WNAF_SIZE /\ (k - 1) + 1 = k
    BY <1>0
  <2> QED
    BY <2>1, PowersOfTwo, WindowPowers
<1>2. q \in Nat /\ r \in 0..(2 * W - 1) /\ t = (2 * W) * q + r
  <2> DEFINE M == 2^w
  <2>1. M \in Nat \ {0} /\ M = 2 * W
    BY <1>1
  <2> HIDE DEF M
  <2>2. t \div M \in Nat /\ t % M \in 0..(M - 1) /\ t = M * (t \div M) + (t % M)
    BY <2>1, DivMod
  <2> QED
    BY <2>1, <2>2 DEF M
<1>3. d = IF t % 2 = 0 THEN 0 ELSE IF r > W THEN r - 2 * W ELSE r
  BY <1>1 DEF Digit
<1>4. (\E c \in Nat \ {0} : K = W * c) \/ (\E c \in Nat \ {0} : W = K * c)
  <2>1. CASE w - 1 <= k - 1
    <3>1. w - 1 \in Nat /\ k - 1 \in Nat /\ k - 1 <= WNAF_SIZE
      BY <1>0
    <3> QED
      BY ONLY <2>1, <3>1, w \in Windows, PowerRatio
  <2>2. CASE k - 1 <= w - 1
    <3>1. w - 1 \in Nat /\ k - 1 \in Nat /\ w - 1 <= w
      BY <1>0
    <3> QED
      BY ONLY <2>2, <3>1, w \in Windows, PowerRatio
  <2> QED
    BY <1>0, <2>1, <2>2
<1>5. t <= 2 * K
  BY <1>1
<1> HIDE DEF W, K, d, r, q
<1>8. d \in Int
  BY <1>1, <1>2, <1>3
<1>6. CASE d >= 0
  <2>1. t - d \in Int /\ t - d <= 2 * K
    BY <1>1, <1>5, <1>6, <1>8
  <2>2. u <= K
    BY <1>1, <2>1
  <2> QED
    BY ONLY <2>2 DEF K, d
<1>7. CASE d < 0
  <2>1. d = r - 2 * W /\ r > W
    BY <1>1, <1>2, <1>3, <1>7
  <2>2. u = W * (q + 1) /\ W * (q + 1) \in Nat
    <3>1. t - d = 2 * (W * (q + 1)) /\ W * (q + 1) \in Nat
      BY <1>1, <1>2, <2>1
    <3> QED
      BY <3>1
  <2>3. (2 * W) * q + r <= 2 * K
    BY <1>2, <1>5
  <2>4. ASSUME NEW c \in Nat \ {0}, K = W * c
        PROVE  W * (q + 1) <= K
    <3>1. q < c
      <4>1. ASSUME q >= c PROVE FALSE
        <5>1. PICK x \in Nat : q = c + x
          <6>1. q - c \in Nat /\ q = c + (q - c)
            BY <1>2, <4>1
          <6> QED
            BY <6>1
        <5>2. (2 * W) * q = 2 * K + (2 * W) * x /\ (2 * W) * x >= 0
          BY <1>1, <2>4, <5>1
        <5> QED
          BY <1>1, <1>2, <2>1, <2>3, <5>2
      <4> QED
        BY <1>2, <4>1
    <3>2. PICK x \in Nat : c = (q + 1) + x
      <4>1. c - (q + 1) \in Nat /\ c = (q + 1) + (c - (q + 1))
        BY <1>2, <3>1
      <4> QED
        BY <4>1
    <3>3. K = W * (q + 1) + W * x /\ W * x >= 0
      BY <1>1, <1>2, <2>4, <3>2
    <3> QED
      BY <1>1, <2>2, <3>3
  <2>5. ASSUME NEW c \in Nat \ {0}, W = K * c
        PROVE  W * (q + 1) <= K
    <3>1. c = 1
      <4>1. ASSUME c >= 2 PROVE FALSE
        <5>1. PICK x \in Nat : c = 2 + x
          <6>1. c - 2 \in Nat /\ c = 2 + (c - 2)
            BY <4>1
          <6> QED
            BY <6>1
        <5>2. W = 2 * K + K * x /\ K * x >= 0
          BY <1>1, <2>5, <5>1
        <5>3. (2 * W) * q >= 0
          BY <1>1, <1>2
        <5> QED
          BY <1>1, <1>2, <2>1, <2>3, <5>2, <5>3
      <4> QED
        BY <4>1
    <3>2. K = W * 1
      BY <1>1, <2>5, <3>1
    <3> QED
      BY <2>4, <3>2
  <2>6. W * (q + 1) <= K
    BY ONLY <1>4, <2>4, <2>5
  <2> QED
    BY ONLY <2>2, <2>6 DEF K, d
<1> QED
  BY <1>6, <1>7, <1>8 DEF K, d

-----------------------------------------------------------------------------
(* The value of digits.                                                      *)

LEMMA TopValues ==
  ASSUME NEW ds \in Seq(Int)
  PROVE  /\ TopValue(ds, 0) = 0
         /\ \A l \in 0..Len(ds) : TopValue(ds, l) \in Int
         /\ \A l \in 1..Len(ds) :
              TopValue(ds, l) = ds[Len(ds) + 1 - l] + 2 * TopValue(ds, l - 1)
<1> DEFINE N == Len(ds)
           F == [q \in (1..N) \X Int |-> ds[N + 1 - q[1]] + 2 * q[2]]
           prev == [l \in 1..N |-> l - 1]
           Body(v) == [l \in 0..N |-> IF l = 0 THEN 0 ELSE ds[N + 1 - l] + 2 * v[l - 1]]
           g == CHOOSE v : v = Body(v)
<1>1. N \in Nat /\ \A l \in 1..N : ds[N + 1 - l] \in Int
  <2>1. N \in Nat /\ \A l \in 1..N : N + 1 - l \in 1..N
    OBVIOUS
  <2> QED
    BY <2>1
<1> HIDE DEF N
<1>2. PICK f \in [0..N -> Int] :
        f[0] = 0 /\ \A l \in (0 + 1)..N : f[l] = F[<<l, f[prev[l]]>>]
  <2>1. F \in [((0 + 1)..N) \X Int -> Int] /\ 0 \in Int /\ 0 \in Nat /\ 0 <= N
    BY <1>1
  <2>2. \A l \in (0 + 1)..N : prev[l] \in 0..(l - 1)
    BY <1>1
  <2> HIDE DEF F, prev
  <2>3. Definable(0, N, Int, 0, F, prev)
    BY ONLY <1>1, <2>1, <2>2, RecursionExists
  <2> QED
    BY <2>3 DEF Definable
<1>3. \A l \in 1..N : f[l] = ds[N + 1 - l] + 2 * f[l - 1]
  <2> TAKE l \in 1..N
  <2>1. prev[l] = l - 1 /\ l \in (0 + 1)..N /\ l - 1 \in 0..N
    BY <1>1
  <2>2. f[l - 1] \in Int
    BY <2>1
  <2>3. F[<<l, f[l - 1]>>] = ds[N + 1 - l] + 2 * f[l - 1]
    BY <2>2
  <2> HIDE DEF F, prev
  <2> QED
    BY <1>2, <2>1, <2>3
<1>4. f = Body(f)
  BY <1>1, <1>2, <1>3
<1>5. g = Body(g)
  BY <1>4
<1>6. \A c : TopValue(ds, c) = g[c]
  BY DEF TopValue, N
<1> HIDE DEF g
<1>7. g[0] = 0 /\ \A l \in 1..N : g[l] = ds[N + 1 - l] + 2 * g[l - 1]
  BY <1>1, <1>5
<1>8. \A l \in 0..N : g[l] \in Int
  <2> DEFINE L == {l \in 0..N : g[l] \in Int}
  <2>1. 0 \in L
    BY <1>1, <1>7
  <2>2. \A l \in (0 + 1)..N : (\A j \in 0..(l - 1) : j \in L) => l \in L
    <3> TAKE l \in (0 + 1)..N
    <3> HAVE \A j \in 0..(l - 1) : j \in L
    <3>1. l - 1 \in 0..(l - 1) /\ l \in 1..N
      BY <1>1
    <3>2. g[l - 1] \in Int /\ ds[N + 1 - l] \in Int
      BY <1>1, <3>1
    <3> QED
      BY <1>7, <3>1, <3>2
  <2> HIDE DEF L
  <2>3. 0 \in Nat
    OBVIOUS
  <2>4. \A l \in 0..N : l \in L
    BY ONLY <1>1, <2>1, <2>2, <2>3, CountingInduction
  <2> QED
    BY <2>4 DEF L
<1> QED
  BY <1>6, <1>7, <1>8 DEF N

\* A digit put below others does not change their value.
LEMMA ConsValue ==
  ASSUME NEW ds \in Seq(Int), NEW d \in Int
  PROVE  LET es == <<d>> \o ds
         IN  /\ es \in Seq(Int) /\ Len(es) = Len(ds) + 1 /\ es[1] = d
             /\ \A j \in 2..Len(es) : es[j] = ds[j - 1]
             /\ TopValue(es, Len(es)) = d + 2 * TopValue(ds, Len(ds))
<1> DEFINE es == <<d>> \o ds
           N == Len(ds)
<1>1. es \in Seq(Int) /\ Len(es) = N + 1 /\ es[1] = d /\ N \in Nat
      /\ \A j \in 2..Len(es) : es[j] = ds[j - 1]
  OBVIOUS
<1> HIDE DEF es, N
<1>2. \A l \in 0..N : TopValue(es, l) = TopValue(ds, l)
  <2> DEFINE L == {l \in 0..N : TopValue(es, l) = TopValue(ds, l)}
  <2>1. 0 \in L
    BY <1>1, TopValues
  <2>2. \A l \in (0 + 1)..N : (\A j \in 0..(l - 1) : j \in L) => l \in L
    <3> TAKE l \in (0 + 1)..N
    <3> HAVE \A j \in 0..(l - 1) : j \in L
    <3>1. l - 1 \in 0..(l - 1) /\ l \in 1..N /\ l \in 1..(N + 1) /\ l \in 0..N
      BY <1>1
    <3>2. TopValue(es, l - 1) = TopValue(ds, l - 1)
      BY <3>1
    <3>3. es[(N + 1) + 1 - l] = ds[N + 1 - l]
      <4>1. (N + 1) + 1 - l \in 2..(N + 1) /\ ((N + 1) + 1 - l) - 1 = N + 1 - l
        BY <1>1, <3>1
      <4> QED
        BY <1>1, <4>1
    <3>4. TopValue(es, l) = es[(N + 1) + 1 - l] + 2 * TopValue(es, l - 1)
      BY <1>1, <3>1, TopValues
    <3>5. TopValue(ds, l) = ds[N + 1 - l] + 2 * TopValue(ds, l - 1)
      BY <1>1, <3>1, TopValues DEF N
    <3> QED
      BY <3>1, <3>2, <3>3, <3>4, <3>5
  <2> HIDE DEF L
  <2>3. 0 \in Nat
    OBVIOUS
  <2>4. \A l \in 0..N : l \in L
    BY ONLY <1>1, <2>1, <2>2, <2>3, CountingInduction
  <2> QED
    BY <2>4 DEF L
<1>3. TopValue(es, N + 1) = es[(N + 1) + 1 - (N + 1)] + 2 * TopValue(es, (N + 1) - 1)
  <2>1. N + 1 \in 1..(N + 1)
    BY <1>1
  <2> QED
    BY <1>1, <2>1, TopValues
<1>4. (N + 1) + 1 - (N + 1) = 1 /\ (N + 1) - 1 = N /\ N \in 0..N
  BY <1>1
<1>5. TopValue(es, N + 1) = d + 2 * TopValue(ds, N)
  BY <1>1, <1>2, <1>3, <1>4
<1> QED
  BY <1>1, <1>5 DEF es, N

\* From one position to the next.
LEMMA ValueStep ==
  ASSUME NEW ds \in Seq(Int), NEW j \in Nat \ {0}
  PROVE  /\ ValueFrom(ds, j) \in Int /\ ValueFrom(ds, j + 1) \in Int
         /\ ValueFrom(ds, j) = (IF j > Len(ds) THEN 0 ELSE ds[j]) + 2 * ValueFrom(ds, j + 1)
<1> DEFINE N == Len(ds)
<1>1. N \in Nat
  OBVIOUS
<1>2. CASE j > N
  BY <1>1, <1>2 DEF ValueFrom
<1>3. CASE j <= N
  <2> DEFINE l == N + 1 - j
  <2>1. l \in 1..N /\ l \in 0..N /\ l - 1 \in 0..N /\ N + 1 - l = j /\ l - 1 = N + 1 - (j + 1)
    BY <1>1, <1>3
  <2>2. TopValue(ds, l) = ds[j] + 2 * TopValue(ds, l - 1)
        /\ TopValue(ds, l) \in Int /\ TopValue(ds, l - 1) \in Int
    <3> HIDE DEF l
    <3> QED
      BY <2>1, TopValues
  <2>3. ValueFrom(ds, j) = TopValue(ds, l)
    BY <1>1, <1>3 DEF ValueFrom
  <2>4. ValueFrom(ds, j + 1) = TopValue(ds, l - 1)
    <3>1. CASE j + 1 > N
      <4>1. l - 1 = 0
        BY <1>1, <1>3, <3>1
      <4> QED
        BY <3>1, <4>1, TopValues DEF ValueFrom
    <3>2. CASE ~(j + 1 > N)
      BY <1>1, <2>1, <3>2 DEF ValueFrom
    <3> QED
      BY <3>1, <3>2
  <2> QED
    BY <1>1, <1>3, <2>2, <2>3, <2>4
<1> QED
  BY <1>1, <1>2, <1>3

-----------------------------------------------------------------------------
(* All digits of a scalar.                                                   *)

\* What the digits of t are to be: the two last parts are what the next digit
\* needs to know of those it is put below.
DigitsOf(w, t, ds) ==
  /\ ds \in Seq(Int) /\ TopValue(ds, Len(ds)) = t /\ WellFormed(w, ds)
  /\ t = 0 => Len(ds) = 0
  /\ \A k \in 0..w : t % 2^k = 0 => \A l \in 1..k : l <= Len(ds) => ds[l] = 0
  /\ \A k \in 0..WNAF_SIZE : t <= 2^k => Len(ds) <= k + 1

LEMMA NoDigits ==
  ASSUME NEW w \in Windows
  PROVE  DigitsOf(w, 0, <<>>)
<1>1. <<>> \in Seq(Int) /\ Len(<<>>) = 0
  OBVIOUS
<1>2. TopValue(<<>>, 0) = 0
  BY <1>1, TopValues
<1>3. w \in Nat /\ WNAF_SIZE \in Nat
  BY WindowPowers, SizeAssumption
<1> QED
  BY <1>1, <1>2, <1>3 DEF DigitsOf, WellFormed

\* If 2^k divides t, k > 0, then t is even and 2^(k - 1) divides its half.
LEMMA HalfMultiple ==
  ASSUME NEW w \in Windows, NEW t \in Nat, NEW k \in 1..w, t % 2^k = 0
  PROVE  t % 2 = 0 /\ (t \div 2) % 2^(k - 1) = 0
<1> DEFINE K == 2^(k - 1)
           M == 2^k
           q == t \div M
<1>1. K \in Nat \ {0} /\ M = 2 * K /\ M \in Nat \ {0}
  <2>1. w \in Nat
    BY WindowPowers
  <2>2. k - 1 \in 0..w /\ (k - 1) + 1 = k
    BY <2>1
  <2>3. 2^(k - 1) \in Nat \ {0} /\ 2^((k - 1) + 1) = 2 * 2^(k - 1)
    BY <2>2, PowersOfTwo
  <2> QED
    BY <2>2, <2>3
<1> HIDE DEF M, K
<1>2. q \in Nat /\ t = M * q
  <2>1. q \in Nat /\ t = M * q + (t % M) /\ t % M = 0
    BY <1>1, DivMod DEF M
  <2> QED
    BY <1>1, <2>1
<1> HIDE DEF q
<1>3. t = 2 * (K * q) /\ K * q \in Nat
  BY <1>1, <1>2
<1>4. t % 2 = 0 /\ t \div 2 = K * q
  BY <1>3
<1>5. (K * q) % K = 0
  <2>1. K * q = K * q + 0 /\ 0 \in 0..(K - 1)
    BY <1>1, <1>3
  <2> QED
    BY ONLY <1>1, <1>2, <1>3, <2>1, DivUnique
<1> QED
  BY <1>4, <1>5 DEF K

LEMMA ConsDigits ==
  ASSUME NEW w \in Windows, NEW t \in Nat \ {0}, NEW ds,
         DigitsOf(w, (t - Digit(w, t)) \div 2, ds)
  PROVE  DigitsOf(w, t, <<Digit(w, t)>> \o ds)
<1> DEFINE d == Digit(w, t)
           u == (t - d) \div 2
           es == <<d>> \o ds
           W == 2^(w - 1)
<1>1. /\ d \in Int /\ u \in Nat /\ u < t /\ t = d + 2 * u
      /\ d = 0 <=> t % 2 = 0
      /\ d # 0 => d % 2 = 1 /\ -W < d /\ d < W /\ u % W = 0
  BY DigitStep
<1>2. /\ ds \in Seq(Int) /\ TopValue(ds, Len(ds)) = u /\ WellFormed(w, ds)
      /\ u = 0 => Len(ds) = 0
      /\ \A k \in 0..w : u % 2^k = 0 => \A l \in 1..k : l <= Len(ds) => ds[l] = 0
      /\ \A k \in 0..WNAF_SIZE : u <= 2^k => Len(ds) <= k + 1
  BY DEF DigitsOf
<1>3. /\ es \in Seq(Int) /\ Len(es) = Len(ds) + 1 /\ es[1] = d /\ Len(ds) \in Nat
      /\ \A j \in 2..Len(es) : es[j] = ds[j - 1]
      /\ TopValue(es, Len(es)) = d + 2 * u
  BY <1>1, <1>2, ConsValue
<1>4. w \in Nat /\ w >= 2 /\ WNAF_SIZE \in Nat /\ W \in Nat \ {0}
  BY WindowPowers, SizeAssumption
<1>5. \A k \in 1..WNAF_SIZE : t <= 2^k => u <= 2^(k - 1)
  BY DigitBound
<1>6. \A k \in 1..w : t % 2^k = 0 => t % 2 = 0 /\ (t \div 2) % 2^(k - 1) = 0
  BY HalfMultiple
<1> HIDE DEF d, es
<1>7. t % 2 = 0 => u = t \div 2
  BY <1>1
<1> HIDE DEF u
<1>8. WellFormed(w, es)
  <2> SUFFICES ASSUME NEW j \in 1..Len(es), es[j] # 0
               PROVE  /\ es[j] % 2 = 1 /\ -W < es[j] /\ es[j] < W
                      /\ \A l \in (j + 1)..(j + w - 1) : l <= Len(es) => es[l] = 0
    BY DEF WellFormed
  <2>1. CASE j = 1
    <3>1. d # 0 /\ es[j] = d
      BY <1>3, <2>1
    <3>2. \A l \in 1..(w - 1) : l <= Len(ds) => ds[l] = 0
      <4>1. w - 1 \in 0..w
        BY <1>4
      <4> QED
        BY <1>1, <1>2, <3>1, <4>1
    <3>3. ASSUME NEW l \in 2..w, l <= Len(es)
          PROVE  es[l] = 0
      <4>1. l \in 2..Len(es) /\ l - 1 \in 1..(w - 1) /\ l - 1 <= Len(ds)
        BY <1>3, <1>4, <3>3
      <4> QED
        BY <1>3, <3>2, <4>1
    <3>4. (j + 1)..(j + w - 1) = 2..w
      BY <1>4, <2>1
    <3> QED
      BY <1>1, <3>1, <3>3, <3>4
  <2>2. CASE j # 1
    <3>1. j - 1 \in 1..Len(ds) /\ es[j] = ds[j - 1]
      BY <1>3, <2>2
    <3>2. /\ ds[j - 1] % 2 = 1 /\ -W < ds[j - 1] /\ ds[j - 1] < W
          /\ \A l \in ((j - 1) + 1)..((j - 1) + w - 1) : l <= Len(ds) => ds[l] = 0
      BY <1>2, <3>1 DEF WellFormed
    <3>3. ASSUME NEW l \in (j + 1)..(j + w - 1), l <= Len(es)
          PROVE  es[l] = 0
      <4>1. l \in 2..Len(es) /\ l - 1 \in ((j - 1) + 1)..((j - 1) + w - 1) /\ l - 1 <= Len(ds)
        BY <1>3, <1>4, <3>3
      <4> QED
        BY <1>3, <3>2, <4>1
    <3> QED
      BY <3>1, <3>2, <3>3
  <2> QED
    BY <2>1, <2>2
<1>9. ASSUME NEW k \in 0..w, t % 2^k = 0, NEW l \in 1..k, l <= Len(es)
      PROVE  es[l] = 0
  <2>1. k \in 1..w /\ k - 1 \in 0..w
    BY <1>4, <1>9
  <2>2. d = 0 /\ u % 2^(k - 1) = 0
    BY <1>1, <1>6, <1>7, <1>9, <2>1
  <2>3. CASE l = 1
    BY <1>3, <2>2, <2>3
  <2>4. CASE l # 1
    <3>1. l \in 2..Len(es) /\ l - 1 \in 1..(k - 1) /\ l - 1 <= Len(ds)
      BY <1>3, <1>9, <2>1, <2>4
    <3> QED
      BY <1>2, <1>3, <2>1, <2>2, <3>1
  <2> QED
    BY <2>3, <2>4
<1>10. ASSUME NEW k \in 0..WNAF_SIZE, t <= 2^k
       PROVE  Len(es) <= k + 1
  <2>1. CASE k = 0
    <3>1. t <= 1
      BY <1>10, <2>1, PowersOfTwo
    <3>2. u = 0
      BY <1>1, <3>1
    <3> QED
      BY <1>2, <1>3, <2>1, <3>2
  <2>2. CASE k # 0
    <3>1. k \in 1..WNAF_SIZE /\ k - 1 \in 0..WNAF_SIZE
      BY <1>4, <2>2
    <3>2. Len(ds) <= (k - 1) + 1
      BY <1>2, <1>5, <1>10, <3>1
    <3> QED
      BY <1>3, <3>1, <3>2
  <2> QED
    BY <2>1, <2>2
<1>11. TopValue(es, Len(es)) = t /\ t # 0
  BY <1>1, <1>3
<1>12. DigitsOf(w, t, es)
  BY <1>3, <1>8, <1>9, <1>10, <1>11 DEF DigitsOf
<1> QED
  BY <1>12 DEF es, d

\* ecmult_wnaf gives the digits of its scalar.
LEMMA Digits ==
  ASSUME NEW w \in Windows, NEW t0 \in Nat
  PROVE  DigitsOf(w, t0, ecmult_wnaf(w, t0))
<1> DEFINE V == Seq(Int)
           F == [q \in (1..t0) \X V |-> <<Digit(w, q[1])>> \o q[2]]
           prev == [t \in 1..t0 |-> (t - Digit(w, t)) \div 2]
           Body(v) == [t \in 0..t0 |->
                         IF t = 0 THEN <<>>
                         ELSE <<Digit(w, t)>> \o v[(t - Digit(w, t)) \div 2]]
           g == CHOOSE v : v = Body(v)
<1>1. \A t \in 1..t0 : Digit(w, t) \in Int /\ prev[t] \in 0..(t - 1) /\ prev[t] \in 0..t0
                       /\ prev[t] = (t - Digit(w, t)) \div 2
  <2> TAKE t \in 1..t0
  <2>1. t \in Nat \ {0}
    OBVIOUS
  <2>2. Digit(w, t) \in Int /\ (t - Digit(w, t)) \div 2 \in Nat /\ (t - Digit(w, t)) \div 2 < t
    BY <2>1, DigitStep
  <2> DEFINE u == (t - Digit(w, t)) \div 2
  <2>3. prev[t] = u
    OBVIOUS
  <2> HIDE DEF prev, u
  <2>4. u \in 0..(t - 1) /\ u \in 0..t0
    BY <2>1, <2>2 DEF u
  <2> QED
    BY <2>2, <2>3, <2>4 DEF u
<1>2. PICK f \in [0..t0 -> V] :
        f[0] = <<>> /\ \A t \in (0 + 1)..t0 : f[t] = F[<<t, f[prev[t]]>>]
  <2>1. F \in [((0 + 1)..t0) \X V -> V]
    <3>1. \A q \in (1..t0) \X V : <<Digit(w, q[1])>> \o q[2] \in V
      <4> TAKE q \in (1..t0) \X V
      <4>1. Digit(w, q[1]) \in Int /\ q[2] \in Seq(Int)
        BY <1>1
      <4> QED
        BY ONLY <4>1, ConsValue
    <3> HIDE DEF V
    <3> QED
      BY <3>1
  <2>2. <<>> \in V /\ 0 \in Nat /\ 0 <= t0 /\ \A t \in (0 + 1)..t0 : prev[t] \in 0..(t - 1)
    BY <1>1
  <2> HIDE DEF F, prev, V
  <2>3. Definable(0, t0, V, <<>>, F, prev)
    BY ONLY <2>1, <2>2, t0 \in Nat, RecursionExists
  <2> QED
    BY <2>3 DEF Definable
<1>3. \A t \in 1..t0 : f[t] = <<Digit(w, t)>> \o f[(t - Digit(w, t)) \div 2]
  <2> TAKE t \in 1..t0
  <2>1. prev[t] = (t - Digit(w, t)) \div 2 /\ prev[t] \in 0..t0 /\ t \in (0 + 1)..t0
    BY <1>1
  <2> HIDE DEF prev, V
  <2>2. f[prev[t]] \in V
    BY <2>1
  <2>3. F[<<t, f[prev[t]]>>] = <<Digit(w, t)>> \o f[prev[t]]
    BY <2>2
  <2> HIDE DEF F
  <2> QED
    BY <1>2, <2>1, <2>3
<1> HIDE DEF prev, F, V
<1>4. f = Body(f)
  BY <1>2, <1>3
<1>5. g = Body(g)
  BY <1>4
<1>6. ecmult_wnaf(w, t0) = g[t0]
  BY DEF ecmult_wnaf
<1> HIDE DEF g
<1>7. g[0] = <<>> /\ \A t \in 1..t0 : g[t] = <<Digit(w, t)>> \o g[(t - Digit(w, t)) \div 2]
  <2>1. \A t \in 0..t0 : g[t] = IF t = 0 THEN <<>>
                                 ELSE <<Digit(w, t)>> \o g[(t - Digit(w, t)) \div 2]
    <3> DEFINE E(t) == IF t = 0 THEN <<>>
                       ELSE <<Digit(w, t)>> \o g[(t - Digit(w, t)) \div 2]
    <3>1. g = [t \in 0..t0 |-> E(t)]
      BY <1>5
    <3> HIDE DEF E
    <3>2. \A t \in 0..t0 : g[t] = E(t)
      BY <3>1
    <3> QED
      BY <3>2 DEF E
  <2>2. 0 \in 0..t0 /\ \A t \in 1..t0 : t \in 0..t0 /\ t # 0
    OBVIOUS
  <2> QED
    BY <2>1, <2>2
<1>8. \A t \in 0..t0 : DigitsOf(w, t, g[t])
  <2> DEFINE L == {t \in 0..t0 : DigitsOf(w, t, g[t])}
  <2>1. 0 \in L
    BY <1>7, NoDigits
  <2>2. \A t \in (0 + 1)..t0 : (\A j \in 0..(t - 1) : j \in L) => t \in L
    <3> TAKE t \in (0 + 1)..t0
    <3> HAVE \A j \in 0..(t - 1) : j \in L
    <3> DEFINE u == (t - Digit(w, t)) \div 2
    <3>1. u \in 0..(t - 1) /\ t \in 1..t0 /\ t \in 0..t0 /\ t \in Nat \ {0}
      BY <1>1
    <3>2. DigitsOf(w, u, g[u])
      BY <3>1
    <3>3. DigitsOf(w, t, <<Digit(w, t)>> \o g[u])
      BY <3>1, <3>2, ConsDigits
    <3> QED
      BY <1>7, <3>1, <3>3
  <2> HIDE DEF L
  <2>3. 0 \in Nat
    OBVIOUS
  <2>4. \A t \in 0..t0 : t \in L
    BY ONLY <2>1, <2>2, <2>3, t0 \in Nat, CountingInduction
  <2> QED
    BY <2>4 DEF L
<1> QED
  BY <1>6, <1>8

-----------------------------------------------------------------------------
(* The multiples of the generator.                                           *)

CurveOf(s) == ec_shortw_crv_init(s.a, s.b)
OrderOf(s) == Len(s.points)
Mult(s, k) == s.points[(k % OrderOf(s)) + 1]

\* Remainders of integers.
LEMMA IntMod ==
  ASSUME NEW N \in Nat \ {0}, NEW x \in Int
  PROVE  x % N \in 0..(N - 1) /\ x \div N \in Int /\ x = N * (x \div N) + (x % N)
OBVIOUS

LEMMA IntModUnique ==
  ASSUME NEW N \in Nat \ {0}, NEW x \in Int, NEW q \in Int, NEW r \in 0..(N - 1), x = N * q + r
  PROVE  x % N = r
OBVIOUS

LEMMA IntModSame ==
  ASSUME NEW N \in Nat \ {0}, NEW x \in Int, NEW y \in Int, NEW q \in Int, y = x + N * q
  PROVE  y % N = x % N
<1> DEFINE r == x % N
           d == x \div N
<1>1. r \in 0..(N - 1) /\ d \in Int /\ x = N * d + r
  BY IntMod
<1> HIDE DEF r, d
<1>2. y = N * (d + q) + r /\ d + q \in Int
  BY <1>1
<1>3. y % N = r
  BY ONLY <1>1, <1>2, N \in Nat \ {0}, y \in Int, IntModUnique
<1> QED
  BY <1>3 DEF r

LEMMA IntModSum ==
  ASSUME NEW N \in Nat \ {0}, NEW x \in Int, NEW y \in Int
  PROVE  ((x % N) + (y % N)) % N = (x + y) % N
<1> DEFINE r == x % N
           d == x \div N
           s == y % N
           e == y \div N
<1>1. r \in 0..(N - 1) /\ d \in Int /\ x = N * d + r /\ s \in 0..(N - 1) /\ e \in Int /\ y = N * e + s
  BY IntMod
<1> HIDE DEF r, d, s, e
<1>2. x + y = (r + s) + N * (d + e) /\ d + e \in Int /\ r + s \in Int /\ x + y \in Int
  BY <1>1
<1>3. (x + y) % N = (r + s) % N
  BY ONLY <1>2, N \in Nat \ {0}, IntModSame
<1> QED
  BY <1>3 DEF r, s

LEMMA GroupTable ==
  ASSUME NEW s \in Setups
  PROVE  /\ OrderOf(s) \in Nat \ {0} /\ OrderOf(s) > 2
         /\ CurveOf(s).a.plain = s.a /\ CurveOf(s).b = s.b /\ s.a \in Int /\ s.b \in Int
         /\ \A k \in Int : /\ Mult(s, k) = Infinity \/ Mult(s, k) \in Pairs
                           /\ OnCurve(CurveOf(s), Mult(s, k))
                           /\ Mult(s, k) = Infinity <=> k % OrderOf(s) = 0
         /\ \A j, k \in Int : Plus(CurveOf(s), Mult(s, j), Mult(s, k)) = Mult(s, j + k)
<1> DEFINE c == CurveOf(s)
           N == OrderOf(s)
<1>1. /\ s.a \in Field /\ s.b \in Field /\ s.points \in Seq({Infinity} \cup (Field \X Field))
      /\ N > 2
      /\ \A k \in 1..N : OnCurve(c, s.points[k]) /\ (s.points[k] = Infinity <=> k = 1)
      /\ \A k, l \in 1..N : Plus(c, s.points[k], s.points[l]) = s.points[((k + l - 2) % N) + 1]
  BY SetupAssumption DEF CurveOf, OrderOf
<1>2. N \in Nat
  BY <1>1 DEF OrderOf
<1>3. c.a.plain = s.a /\ c.b = s.b
  BY DEF CurveOf, ec_shortw_crv_init
<1>4. \A k \in 1..N : s.points[k] \in {Infinity} \cup (Field \X Field)
  BY <1>1 DEF OrderOf
<1> HIDE DEF c, N
<1>5. \A k \in Int : k % N \in 0..(N - 1) /\ (k % N) + 1 \in 1..N
  <2>1. N \in Nat \ {0}
    BY <1>1, <1>2
  <2> QED
    BY <2>1
<1>6. ASSUME NEW k \in Int
      PROVE  /\ Mult(s, k) = Infinity \/ Mult(s, k) \in Pairs
             /\ OnCurve(c, Mult(s, k))
             /\ Mult(s, k) = Infinity <=> k % N = 0
  <2>1. Mult(s, k) = s.points[(k % N) + 1]
    BY DEF Mult, N
  <2>2. (k % N) + 1 \in 1..N /\ (k % N) \in Int
    BY <1>5
  <2>3. (k % N) + 1 = 1 <=> k % N = 0
    BY <2>2
  <2> QED
    BY <1>1, <1>4, <2>1, <2>2, <2>3 DEF Pairs
<1>7. ASSUME NEW j \in Int, NEW k \in Int
      PROVE  Plus(c, Mult(s, j), Mult(s, k)) = Mult(s, j + k)
  <2> DEFINE x == j % N
             y == k % N
  <2>1. x \in 0..(N - 1) /\ y \in 0..(N - 1) /\ x + 1 \in 1..N /\ y + 1 \in 1..N
    BY <1>5
  <2>2. (x + y) % N = (j + k) % N
    <3>1. N \in Nat \ {0}
      BY <1>1, <1>2
    <3> QED
      BY <3>1, IntModSum
  <2>3. Mult(s, j) = s.points[x + 1] /\ Mult(s, k) = s.points[y + 1]
        /\ Mult(s, j + k) = s.points[((j + k) % N) + 1]
    BY DEF Mult, N
  <2> HIDE DEF x, y
  <2>4. Plus(c, s.points[x + 1], s.points[y + 1])
          = s.points[(((x + 1) + (y + 1) - 2) % N) + 1]
    BY <1>1, <2>1
  <2>5. (x + 1) + (y + 1) - 2 = x + y
    BY <1>2, <2>1
  <2> QED
    BY <2>2, <2>3, <2>4, <2>5
<1>8. s.a \in Int /\ s.b \in Int
  BY <1>1, ElementsInt
<1> QED
  BY <1>1, <1>2, <1>3, <1>6, <1>7, <1>8 DEF c, N

\* Only the residue of the factor matters.
LEMMA MultSame ==
  ASSUME NEW s \in Setups, NEW j \in Int, NEW k \in Int, NEW q \in Int, k = j + OrderOf(s) * q
  PROVE  Mult(s, k) = Mult(s, j)
<1>1. OrderOf(s) \in Nat \ {0}
  BY GroupTable
<1>2. k % OrderOf(s) = j % OrderOf(s)
  BY ONLY <1>1, j \in Int, k \in Int, q \in Int, k = j + OrderOf(s) * q, IntModSame
<1> QED
  BY <1>2 DEF Mult

\* The opposite of a multiple.
LEMMA MultOpposite ==
  ASSUME NEW s \in Setups, NEW k \in Int
  PROVE  Opposite(Mult(s, k)) = Mult(s, -k)
<1> DEFINE c == CurveOf(s)
           A == Mult(s, k)
           B == Mult(s, -k)
<1>1. /\ A = Infinity \/ A \in Pairs
      /\ B = Infinity \/ B \in Pairs
      /\ Plus(c, A, B) = Infinity
  <2>1. k + (-k) = 0 /\ -k \in Int /\ 0 \in Int
    OBVIOUS
  <2>2. OrderOf(s) \in Nat \ {0}
    BY GroupTable
  <2>3. 0 % OrderOf(s) = 0
    BY <2>2
  <2>4. Mult(s, 0) = Infinity
    BY <2>1, <2>3, GroupTable
  <2> QED
    BY <2>1, <2>4, GroupTable
<1> HIDE DEF A, B
<1>2. CASE A = Infinity
  BY <1>1, <1>2 DEF Plus, Opposite, A, B
<1>3. CASE A # Infinity
  <2>1. A \in Pairs /\ B \in Pairs /\ A[1] = B[1] /\ (A[2] + B[2]) % p = 0
    <3>1. B # Infinity
      BY <1>1, <1>3 DEF Plus
    <3>2. ASSUME ~(A[1] = B[1] /\ (A[2] + B[2]) % p = 0)
          PROVE  FALSE
      <4>1. \E x, y : Plus(c, A, B) = <<x, y>>
        BY <1>3, <3>1, <3>2 DEF Plus
      <4> QED
        BY <1>1, <4>1 DEF Infinity
    <3> QED
      BY <1>1, <1>3, <3>1, <3>2
  <2>2. /\ A[1] \in Field /\ A[2] \in Int /\ B[2] \in Field /\ B[2] \in Int
        /\ B = <<B[1], B[2]>>
    BY <2>1, PairsInt
  <2>3. (p - A[2]) % p = B[2]
    <3>1. p - A[2] \in Int /\ p - A[2] = B[2] + (p - (A[2] + B[2])) /\ p \in Int
          /\ A[2] + B[2] \in Int
      BY <2>2, PBounds
    <3>2. Cong(A[2] + B[2], 0) /\ Cong(B[2], B[2]) /\ Cong(p, 0) /\ 0 \in Int
      BY <2>1, PBounds DEF Cong
    <3>3. Cong(p - (A[2] + B[2]), 0 - 0) /\ 0 - 0 = 0 /\ p - (A[2] + B[2]) \in Int
      BY ONLY <3>1, <3>2, CongSub
    <3>4. Cong(B[2] + (p - (A[2] + B[2])), B[2] + 0) /\ B[2] + 0 = B[2]
      <4>1. Cong(p - (A[2] + B[2]), 0)
        BY <3>3
      <4> QED
        BY ONLY <2>2, <3>2, <3>3, <4>1, CongAdd
    <3>5. Cong(p - A[2], B[2])
      BY <3>1, <3>4
    <3> QED
      BY <2>2, <3>1, <3>5, ModOf
  <2> QED
    BY <1>3, <2>1, <2>2, <2>3 DEF Opposite, A, B
<1> QED
  BY <1>2, <1>3

\* Different residues give different points.
LEMMA MultInjective ==
  ASSUME NEW s \in Setups, NEW j \in Int, NEW k \in Int, Mult(s, j) = Mult(s, k)
  PROVE  j % OrderOf(s) = k % OrderOf(s)
<1> DEFINE N == OrderOf(s)
           c == CurveOf(s)
<1>1. N \in Nat \ {0} /\ -k \in Int /\ j + (-k) \in Int /\ k + (-k) = 0 /\ 0 \in Int
  BY GroupTable
<1>2. Mult(s, j + (-k)) = Mult(s, k + (-k))
  <2>1. Plus(c, Mult(s, j), Mult(s, -k)) = Mult(s, j + (-k))
    BY <1>1, GroupTable
  <2>2. Plus(c, Mult(s, k), Mult(s, -k)) = Mult(s, k + (-k))
    BY <1>1, GroupTable
  <2> QED
    BY <2>1, <2>2
<1>3. Mult(s, j + (-k)) = Infinity
  <2>1. 0 % N = 0
    BY <1>1
  <2> QED
    BY <1>1, <1>2, <2>1, GroupTable
<1>4. (j + (-k)) % N = 0
  BY <1>1, <1>3, GroupTable
<1> HIDE DEF N
<1>5. PICK q \in Int : j + (-k) = N * q
  <2> DEFINE q == (j + (-k)) \div N
             r == (j + (-k)) % N
  <2>1. q \in Int /\ j + (-k) = N * q + r /\ r = 0
    BY <1>1, <1>4, IntMod
  <2> HIDE DEF q, r
  <2>2. N * q + 0 = N * q
    BY <1>1, <2>1
  <2> QED
    BY <2>1, <2>2
<1>6. j = k + N * q
  BY <1>1, <1>5
<1>7. j % N = k % N
  BY ONLY <1>1, <1>6, j \in Int, k \in Int, q \in Int, IntModSame
<1> QED
  BY <1>7 DEF N

LEMMA MultCompatible ==
  ASSUME NEW s \in Setups, NEW j \in Int, NEW k \in Int
  PROVE  Compatible(Mult(s, j), Mult(s, k))
<1> DEFINE c == CurveOf(s)
           A == Mult(s, j)
           B == Mult(s, k)
<1>1. /\ c.a.plain \in Int /\ c.b \in Int
      /\ A = Infinity \/ A \in Pairs
      /\ B = Infinity \/ B \in Pairs
      /\ OnCurve(c, A) /\ OnCurve(c, B)
  BY GroupTable
<1> HIDE DEF c, A, B
<1>2. Compatible(A, B)
  BY <1>1, CurveCompatible
<1> QED
  BY <1>2 DEF A, B

\* The curves for which the doubling is right.
MinusThree(s) == s.a = p - 3

\* Doubling and adding multiples on such a curve.
LEMMA MultFormulas ==
  ASSUME NEW s \in Setups, MinusThree(s), NEW P, NEW Q, NEW j \in Int, NEW k \in Int,
         IsJacobian(P, Mult(s, j)), IsJacobian(Q, Mult(s, k))
  PROVE  /\ IsJacobian(jprj_pt_dbl_monty(P), Mult(s, 2 * j))
         /\ IsJacobian(jprj_pt_add_monty(P, Q), Mult(s, j + k))
         /\ IsJacobian([Q EXCEPT !.Y = fp_neg(Q.Y)], Mult(s, -k))
<1> DEFINE c == CurveOf(s)
           A == Mult(s, j)
           B == Mult(s, k)
<1>1. c.a.plain \in Int /\ Cong(c.a.plain, -3)
  <2>1. c.a.plain = p - 3 /\ c.a.plain \in Int
    BY GroupTable DEF MinusThree
  <2>2. p - 3 = -3 + p * 1 /\ -3 \in Int /\ 1 \in Int /\ p - 3 \in Int
    BY PBounds
  <2>3. Cong(p - 3, -3)
    BY ONLY <2>2, CongOf
  <2> QED
    BY <2>1, <2>3
<1>2. /\ A = Infinity \/ A \in Pairs
      /\ B = Infinity \/ B \in Pairs
      /\ Compatible(A, B)
      /\ Plus(c, A, A) = Mult(s, 2 * j) /\ Plus(c, A, B) = Mult(s, j + k)
      /\ Opposite(B) = Mult(s, -k)
  <2>1. j + j = 2 * j
    OBVIOUS
  <2>2. A = Infinity \/ A \in Pairs
    BY GroupTable
  <2>3. B = Infinity \/ B \in Pairs
    BY GroupTable
  <2>4. Plus(c, A, A) = Mult(s, j + j) /\ Plus(c, A, B) = Mult(s, j + k)
    BY GroupTable
  <2>5. Compatible(A, B)
    BY MultCompatible
  <2>6. Opposite(B) = Mult(s, -k)
    BY MultOpposite
  <2> QED
    BY <2>1, <2>2, <2>3, <2>4, <2>5, <2>6
<1>3. IsJacobian(P, A) /\ IsJacobian(Q, B)
  OBVIOUS
<1> HIDE DEF A, B, c
<1>4. IsJacobian(jprj_pt_dbl_monty(P), Plus(c, A, A))
  BY ONLY <1>1, <1>2, <1>3, JacobianDouble
<1>5. IsJacobian(jprj_pt_add_monty(P, Q), Plus(c, A, B))
  BY ONLY <1>1, <1>2, <1>3, JacobianAdd
<1>6. IsJacobian([Q EXCEPT !.Y = fp_neg(Q.Y)], Opposite(B))
  BY ONLY <1>2, <1>3, JacobianOpposite
<1> QED
  BY <1>2, <1>4, <1>5, <1>6

-----------------------------------------------------------------------------
(* The tables.                                                               *)

LEMMA TriplesAre == Triples = Coordinates
BY DEF Triples, Coordinates

\* get_pre_comp_points gives the point, and each next entry is the last one and
\* twice the point.
LEMMA TableSteps ==
  ASSUME NEW P \in Coordinates, NEW size \in Nat \ {0}
  PROVE  LET t == get_pre_comp_points(P, size)
         IN  /\ t \in Seq(Coordinates) /\ Len(t) = size /\ t[1] = P
             /\ \A l \in 2..size : t[l] = jprj_pt_add_monty(t[l - 1], jprj_pt_dbl_monty(P))
<1> DEFINE D == jprj_pt_dbl_monty(P)
           V == Seq(Coordinates)
           F == [q \in (2..size) \X V |->
                   IF q[1] - 1 \in 1..Len(q[2])
                   THEN Append(q[2], jprj_pt_add_monty(q[2][q[1] - 1], D))
                   ELSE q[2]]
           prev == [j \in 2..size |-> j - 1]
           E(v, j) == IF j = 1 THEN <<P>>
                      ELSE Append(v[j - 1], jprj_pt_add_monty(v[j - 1][j - 1], D))
           g == CHOOSE v : v = [j \in 1..size |-> E(v, j)]
<1>0. D \in Coordinates /\ size \in Nat /\ size >= 1 /\ <<P>> \in V
  BY CoordinatesClosed
<1> HIDE DEF D
<1>1. \A t \in V : \A l \in 1..Len(t) : Append(t, jprj_pt_add_monty(t[l], D)) \in V
  <2> TAKE t \in V
  <2> TAKE l \in 1..Len(t)
  <2>1. t[l] \in Coordinates
    OBVIOUS
  <2> DEFINE Q == jprj_pt_add_monty(t[l], D)
  <2>2. Q \in Coordinates
    BY <1>0, <2>1, CoordinatesClosed
  <2> HIDE DEF Q
  <2>3. Append(t, Q) \in V
    BY <2>2
  <2> QED
    BY <2>3 DEF Q
<1>2. PICK f \in [1..size -> V] :
        f[1] = <<P>> /\ \A j \in (1 + 1)..size : f[j] = F[<<j, f[prev[j]]>>]
  <2>1. F \in [((1 + 1)..size) \X V -> V]
    <3> DEFINE G(q) == IF q[1] - 1 \in 1..Len(q[2])
                       THEN Append(q[2], jprj_pt_add_monty(q[2][q[1] - 1], D))
                       ELSE q[2]
    <3>1. \A q \in (2..size) \X V : G(q) \in V
      <4> TAKE q \in (2..size) \X V
      <4>1. q[2] \in V
        OBVIOUS
      <4> HIDE DEF V
      <4> QED
        BY <1>1, <4>1
    <3> HIDE DEF G, V
    <3>2. [q \in (2..size) \X V |-> G(q)] \in [(2..size) \X V -> V]
      BY <3>1
    <3>3. 1 + 1 = 2
      OBVIOUS
    <3> QED
      BY <3>2, <3>3 DEF G
  <2>2. \A j \in (1 + 1)..size : prev[j] \in 1..(j - 1)
    OBVIOUS
  <2>3. 1 \in Nat
    OBVIOUS
  <2> HIDE DEF F, prev, V
  <2>4. Definable(1, size, V, <<P>>, F, prev)
    BY ONLY <1>0, <2>1, <2>2, <2>3, RecursionExists
  <2> QED
    BY <2>4 DEF Definable
<1>3. \A j \in 2..size :
        f[j] = IF j - 1 \in 1..Len(f[j - 1])
               THEN Append(f[j - 1], jprj_pt_add_monty(f[j - 1][j - 1], D))
               ELSE f[j - 1]
  <2> TAKE j \in 2..size
  <2>1. prev[j] = j - 1 /\ j - 1 \in 1..size /\ j \in (1 + 1)..size
    BY <1>0
  <2> DEFINE t == f[j - 1]
             q == <<j, t>>
  <2> HIDE DEF prev, V
  <2>2. t \in V /\ f[j] = F[q]
    BY <1>2, <2>1
  <2>3. q \in (2..size) \X V /\ q[1] = j /\ q[2] = t
    BY <2>2
  <2> QED
    BY <2>2, <2>3
<1> HIDE DEF F, prev
<1>4. \A j \in 1..size : Len(f[j]) = j
  <2> DEFINE L == {j \in 1..size : Len(f[j]) = j}
  <2>1. 1 \in L
    <3>1. Len(<<P>>) = 1 /\ 1 \in 1..size
      BY <1>0
    <3> HIDE DEF V
    <3> QED
      BY <1>2, <3>1
  <2>2. \A j \in (1 + 1)..size : (\A x \in 1..(j - 1) : x \in L) => j \in L
    <3> TAKE j \in (1 + 1)..size
    <3> HAVE \A x \in 1..(j - 1) : x \in L
    <3>1. j - 1 \in 1..(j - 1) /\ j - 1 \in 1..size /\ j \in 1..size /\ j \in 2..size
      BY <1>0
    <3>2. Len(f[j - 1]) = j - 1 /\ f[j - 1] \in Seq(Coordinates)
      BY <3>1
    <3>3. f[j] = Append(f[j - 1], jprj_pt_add_monty(f[j - 1][j - 1], D))
      BY <1>3, <3>1, <3>2
    <3>4. Len(f[j]) = (j - 1) + 1
      BY <3>2, <3>3
    <3> QED
      BY <3>1, <3>4
  <2> HIDE DEF L
  <2>3. 1 \in Nat
    OBVIOUS
  <2>4. \A j \in 1..size : j \in L
    BY ONLY <1>0, <2>1, <2>2, <2>3, CountingInduction
  <2> QED
    BY <2>4 DEF L
<1>5. f = [j \in 1..size |-> E(f, j)]
  <2>1. \A j \in 1..size : f[j] = E(f, j)
    <3> TAKE j \in 1..size
    <3>1. CASE j = 1
      BY <1>2, <3>1
    <3>2. CASE j # 1
      <4>1. j \in 2..size /\ j - 1 \in 1..size /\ j - 1 \in 1..(j - 1)
        BY <1>0, <3>2
      <4> QED
        BY <1>3, <1>4, <3>2, <4>1
    <3> QED
      BY <3>1, <3>2
  <2> HIDE DEF E
  <2> QED
    BY <1>2, <2>1
<1>6. g = [j \in 1..size |-> E(g, j)]
  <2> HIDE DEF E
  <2> QED
    BY <1>5
<1>7. get_pre_comp_points(P, size) = g[size]
  BY DEF get_pre_comp_points, D
<1> HIDE DEF g
<1>8. g[1] = <<P>> /\ \A j \in 2..size : g[j] = Append(g[j - 1], jprj_pt_add_monty(g[j - 1][j - 1], D))
  <2>1. \A j \in 1..size : g[j] = E(g, j)
    <3> HIDE DEF E
    <3> QED
      BY <1>6
  <2>2. 1 \in 1..size /\ \A j \in 2..size : j \in 1..size /\ j # 1
    BY <1>0
  <2> QED
    BY <2>1, <2>2
<1> HIDE DEF E
<1> DEFINE Right(t, j) == /\ t \in V /\ Len(t) = j /\ t[1] = P
                          /\ \A l \in 2..j : t[l] = jprj_pt_add_monty(t[l - 1], D)
<1>9. \A j \in 1..size : Right(g[j], j)
  <2> DEFINE L == {j \in 1..size : Right(g[j], j)}
  <2>1. 1 \in L
    <3>1. Len(<<P>>) = 1 /\ <<P>>[1] = P /\ 2..1 = {} /\ 1 \in 1..size
      BY <1>0
    <3> QED
      BY <1>0, <1>8, <3>1
  <2>2. \A j \in (1 + 1)..size : (\A x \in 1..(j - 1) : x \in L) => j \in L
    <3> TAKE j \in (1 + 1)..size
    <3> HAVE \A x \in 1..(j - 1) : x \in L
    <3> DEFINE t == g[j - 1]
               Q == jprj_pt_add_monty(t[j - 1], D)
    <3>1. j - 1 \in 1..(j - 1) /\ j - 1 \in 1..size /\ j \in 1..size /\ j \in 2..size
      BY <1>0
    <3>2. Right(t, j - 1)
      BY <3>1
    <3>3. g[j] = Append(t, Q)
      BY <1>8, <3>1
    <3>4. t[j - 1] \in Coordinates
      BY <3>1, <3>2
    <3>5. Q \in Coordinates
      BY <1>0, <3>4, CoordinatesClosed
    <3> HIDE DEF Q, t
    <3>6. /\ Append(t, Q) \in Seq(Coordinates) /\ Len(Append(t, Q)) = j
          /\ Append(t, Q)[j] = Q /\ \A l \in 1..(j - 1) : Append(t, Q)[l] = t[l]
      BY <3>1, <3>2, <3>5
    <3>7. ASSUME NEW l \in 2..j
          PROVE  g[j][l] = jprj_pt_add_monty(g[j][l - 1], D)
      <4>1. l - 1 \in 1..(j - 1)
        BY <3>1
      <4>2. g[j][l - 1] = t[l - 1]
        BY <3>3, <3>6, <4>1
      <4>3. CASE l = j
        BY <3>3, <3>6, <4>2, <4>3 DEF Q
      <4>4. CASE l # j
        <5>1. l \in 2..(j - 1) /\ l \in 1..(j - 1)
          BY <3>1, <4>4
        <5> QED
          BY <3>2, <3>3, <3>6, <4>2, <5>1
      <4> QED
        BY <4>3, <4>4
    <3>8. g[j][1] = P
      <4>1. 1 \in 1..(j - 1)
        BY <3>1
      <4> QED
        BY <3>2, <3>3, <3>6, <4>1
    <3> QED
      BY <3>1, <3>3, <3>6, <3>7, <3>8
  <2> HIDE DEF L
  <2>3. 1 \in Nat
    OBVIOUS
  <2>4. \A j \in 1..size : j \in L
    BY ONLY <1>0, <2>1, <2>2, <2>3, CountingInduction
  <2> QED
    BY <2>4 DEF L
<1>10. Right(g[size], size)
  BY <1>0, <1>9
<1> QED
  BY <1>7, <1>10 DEF D

\* The entries of a table are odd multiples.
IsTable(s, k, t, size) ==
  t \in Seq(Coordinates) /\ Len(t) = size
  /\ \A l \in 1..size : IsJacobian(t[l], Mult(s, (2 * l - 1) * k))

LEMMA Table ==
  ASSUME NEW s \in Setups, MinusThree(s), NEW k \in Int, NEW P, IsJacobian(P, Mult(s, k)),
         NEW size \in Nat \ {0}
  PROVE  IsTable(s, k, get_pre_comp_points(P, size), size)
<1> DEFINE t == get_pre_comp_points(P, size)
           D == jprj_pt_dbl_monty(P)
<1>1. /\ t \in Seq(Coordinates) /\ Len(t) = size /\ t[1] = P
      /\ \A l \in 2..size : t[l] = jprj_pt_add_monty(t[l - 1], D)
  BY TableSteps DEF IsJacobian
<1>2. IsJacobian(D, Mult(s, 2 * k)) /\ 2 * k \in Int
  <2>1. IsJacobian(jprj_pt_dbl_monty(P), Mult(s, 2 * k))
    BY ONLY s \in Setups, MinusThree(s), k \in Int, IsJacobian(P, Mult(s, k)), MultFormulas
  <2> QED
    BY <2>1
<1> HIDE DEF t, D
<1>3. \A l \in 1..size : IsJacobian(t[l], Mult(s, (2 * l - 1) * k))
  <2> DEFINE L == {l \in 1..size : IsJacobian(t[l], Mult(s, (2 * l - 1) * k))}
  <2>1. 1 \in L
    <3>1. (2 * 1 - 1) * k = k /\ 1 \in 1..size
      OBVIOUS
    <3> QED
      BY <1>1, <3>1
  <2>2. \A l \in (1 + 1)..size : (\A x \in 1..(l - 1) : x \in L) => l \in L
    <3> TAKE l \in (1 + 1)..size
    <3> HAVE \A x \in 1..(l - 1) : x \in L
    <3> DEFINE y == (2 * (l - 1) - 1) * k
    <3>1. l - 1 \in 1..(l - 1) /\ l \in 2..size /\ l \in 1..size
      OBVIOUS
    <3>2. IsJacobian(t[l - 1], Mult(s, y)) /\ y \in Int
      BY <3>1
    <3>3. y + 2 * k = (2 * l - 1) * k
      OBVIOUS
    <3> HIDE DEF y
    <3>4. IsJacobian(jprj_pt_add_monty(t[l - 1], D), Mult(s, y + 2 * k))
      BY <1>2, <3>2, MultFormulas
    <3> QED
      BY <1>1, <3>1, <3>3, <3>4
  <2> HIDE DEF L
  <2>3. 1 \in Nat /\ size \in Nat
    OBVIOUS
  <2>4. \A l \in 1..size : l \in L
    BY ONLY <2>1, <2>2, <2>3, CountingInduction
  <2> QED
    BY <2>4 DEF L
<1> QED
  BY <1>1, <1>3 DEF IsTable, t

-----------------------------------------------------------------------------
(* One digit of the loop.                                                    *)

\* The entry a digit selects.
LEMMA DigitIndex ==
  ASSUME NEW w \in Windows, NEW d \in Int, d # 0, d % 2 = 1, -(2^(w - 1)) < d, d < 2^(w - 1)
  PROVE  LET l == IF d > 0 THEN (d + 1) \div 2 ELSE (1 - d) \div 2
         IN  l \in 1..2^(w - 2) /\ 2 * l - 1 = IF d > 0 THEN d ELSE -d
<1> DEFINE V == 2^(w - 2)
<1>1. V \in Nat \ {0} /\ 2^(w - 1) = 2 * V
  BY WindowPowers
<1>2. -(2 * V) < d /\ d < 2 * V
  BY <1>1
<1> HIDE DEF V
<1>3. PICK e \in Int : d = 2 * e + 1
  <2>1. d \div 2 \in Int /\ d = 2 * (d \div 2) + 1
    OBVIOUS
  <2> QED
    BY <2>1
<1>4. CASE d > 0
  <2>1. (d + 1) \div 2 = e + 1
    BY <1>3
  <2>2. e + 1 \in 1..V /\ 2 * (e + 1) - 1 = d
    BY <1>1, <1>2, <1>3, <1>4
  <2> QED
    BY <1>4, <2>1, <2>2 DEF V
<1>5. CASE d < 0
  <2>1. (1 - d) \div 2 = -e
    BY <1>3
  <2>2. -e \in 1..V /\ 2 * (-e) - 1 = -d
    BY <1>1, <1>2, <1>3, <1>5
  <2> QED
    BY <1>5, <2>1, <2>2 DEF V
<1> QED
  BY <1>4, <1>5

\* The digit at position j, 0 beyond the last.
DigitAt(ds, j) == IF j > Len(ds) THEN 0 ELSE ds[j]

LEMMA AddDigitElements ==
  ASSUME NEW w \in Windows, NEW ds \in Seq(Int), WellFormed(w, ds),
         NEW t \in Seq(Coordinates), Len(t) = 2^(w - 2),
         NEW P \in Coordinates, NEW j \in Nat \ {0}
  PROVE  AddDigit(P, ds, t, j) \in Coordinates
<1> DEFINE d == ds[j]
<1>1. CASE j > Len(ds) \/ d = 0
  BY <1>1 DEF AddDigit
<1>2. CASE ~(j > Len(ds) \/ d = 0)
  <2> DEFINE l == IF d > 0 THEN (d + 1) \div 2 ELSE (1 - d) \div 2
  <2>1. j \in 1..Len(ds) /\ d \in Int
    BY <1>2
  <2>2. d # 0 /\ d % 2 = 1 /\ -(2^(w - 1)) < d /\ d < 2^(w - 1)
    BY <1>2, <2>1 DEF WellFormed
  <2>3. AddDigit(P, ds, t, j) = IF d > 0 THEN jprj_pt_add_monty(P, t[l])
                                ELSE jprj_pt_add_monty(P, neg_pt(t[l]))
    BY <1>2 DEF AddDigit
  <2> HIDE DEF d
  <2>4. l \in 1..Len(t)
    BY <2>1, <2>2, DigitIndex
  <2> HIDE DEF l
  <2> DEFINE Q == t[l]
  <2>5. Q \in Coordinates
    BY <2>4
  <2> HIDE DEF Q
  <2>6. neg_pt(Q) \in Coordinates
    <3>1. fp_neg(Q.Y) \in Elements
      BY <2>5, PBounds DEF Coordinates, Elements, fp_neg
    <3> QED
      BY <2>5, <3>1 DEF Coordinates, neg_pt
  <2> QED
    BY <2>3, <2>5, <2>6, CoordinatesClosed DEF Q
<1> QED
  BY <1>1, <1>2

LEMMA AddDigitRight ==
  ASSUME NEW w \in Windows, NEW ds \in Seq(Int), WellFormed(w, ds),
         NEW s \in Setups, MinusThree(s), NEW k \in Int, NEW t, IsTable(s, k, t, 2^(w - 2)),
         NEW P, NEW x \in Int, IsJacobian(P, Mult(s, x)), NEW j \in Nat \ {0}
  PROVE  /\ DigitAt(ds, j) \in Int
         /\ IsJacobian(AddDigit(P, ds, t, j), Mult(s, x + DigitAt(ds, j) * k))
<1> DEFINE d == ds[j]
<1>1. CASE j > Len(ds) \/ d = 0
  <2>1. x + 0 * k = x
    OBVIOUS
  <2> QED
    BY <1>1, <2>1 DEF AddDigit, DigitAt
<1>2. CASE ~(j > Len(ds) \/ d = 0)
  <2> DEFINE l == IF d > 0 THEN (d + 1) \div 2 ELSE (1 - d) \div 2
             y == (2 * l - 1) * k
  <2>1. j \in 1..Len(ds) /\ d \in Int /\ DigitAt(ds, j) = d
    BY <1>2 DEF DigitAt
  <2>2. d # 0 /\ d % 2 = 1 /\ -(2^(w - 1)) < d /\ d < 2^(w - 1)
    BY <1>2, <2>1 DEF WellFormed
  <2>3. AddDigit(P, ds, t, j) = IF d > 0 THEN jprj_pt_add_monty(P, t[l])
                                ELSE jprj_pt_add_monty(P, neg_pt(t[l]))
    BY <1>2 DEF AddDigit
  <2> HIDE DEF d
  <2>4. l \in 1..2^(w - 2) /\ 2 * l - 1 = IF d > 0 THEN d ELSE -d
    BY <2>1, <2>2, DigitIndex
  <2> HIDE DEF l
  <2>5. IsJacobian(t[l], Mult(s, y))
    BY <2>4 DEF IsTable
  <2>6. y \in Int /\ y = IF d > 0 THEN d * k ELSE -(d * k)
    <3> DEFINE c == 2 * l - 1
    <3>1. d * k \in Int /\ (-d) * k = -(d * k) /\ -(d * k) \in Int
      BY <2>1
    <3>2. c = (IF d > 0 THEN d ELSE -d) /\ y = c * k
      BY <2>4
    <3> HIDE DEF c, y
    <3> QED
      BY <2>1, <3>1, <3>2
  <2> HIDE DEF y
  <2>7. CASE d > 0
    <3>1. IsJacobian(jprj_pt_add_monty(P, t[l]), Mult(s, x + y))
      BY <2>5, <2>6, MultFormulas
    <3> QED
      BY <2>1, <2>3, <2>6, <2>7, <3>1
  <2>8. CASE ~(d > 0)
    <3>1. IsJacobian(neg_pt(t[l]), Mult(s, -y))
      BY <2>5, <2>6, MultFormulas DEF neg_pt
    <3>2. -y \in Int /\ x + (-y) = x + d * k
      <4>1. d * k \in Int /\ y = -(d * k)
        BY <2>1, <2>6, <2>8
      <4> QED
        BY <4>1
    <3> HIDE DEF neg_pt
    <3>3. IsJacobian(jprj_pt_add_monty(P, neg_pt(t[l])), Mult(s, x + (-y)))
      BY <3>1, <3>2, MultFormulas
    <3> QED
      BY <2>1, <2>3, <2>8, <3>2, <3>3
  <2> QED
    BY <2>7, <2>8
<1> QED
  BY <1>1, <1>2

-----------------------------------------------------------------------------
(* The inputs and the result.                                                *)

LEMMA InputPoint ==
  ASSUME NEW s \in Setups, NEW k \in Int, NEW z \in 1..(p - 1), NEW P, P = Scaled(Mult(s, k), z)
  PROVE  /\ P \in Coordinates
         /\ prj_pt_iszero(P) <=> k % OrderOf(s) = 0
         /\ ~prj_pt_iszero(P) => IsJacobian(Redcified(prj_pt_normalize(P)), Mult(s, k))
<1> DEFINE A == Mult(s, k)
<1>1. /\ A = Infinity \/ A \in Pairs
      /\ A = Infinity <=> k % OrderOf(s) = 0
  BY GroupTable
<1>2. z \in Elements /\ 0 \in Elements /\ z # 0 /\ z \in Int
  BY PBounds DEF Elements
<1> HIDE DEF A
<1>3. P = Scaled(A, z)
  BY DEF A
<1>4. CASE A = Infinity
  <2>1. P = Point(0, z, 0)
    BY <1>3, <1>4 DEF Scaled
  <2>2. P \in Coordinates /\ prj_pt_iszero(P)
    BY <1>2, <2>1 DEF Point, Coordinates, prj_pt_iszero
  <2> QED
    BY <1>1, <1>4, <2>2
<1>5. CASE A # Infinity
  <2>1. A \in Pairs /\ P = Point((A[1] * z) % p, (A[2] * z) % p, z)
    BY <1>1, <1>3, <1>5 DEF Scaled
  <2>2. (A[1] * z) % p \in Elements /\ (A[2] * z) % p \in Elements
    <3>1. A[1] \in Int /\ A[2] \in Int
      BY <2>1, PairsInt
    <3>2. A[1] * z \in Int /\ A[2] * z \in Int
      BY <1>2, <3>1
    <3> QED
      BY ONLY <3>2, CongMod, ElementsInt
  <2>3. P \in Coordinates /\ ~prj_pt_iszero(P)
    BY <1>2, <2>1, <2>2 DEF Point, Coordinates, prj_pt_iszero
  <2>4. prj_pt_normalize(P) = Point(A[1], A[2], 1)
    BY <2>1, Normalized
  <2>5. IsJacobian(Redcified(prj_pt_normalize(P)), A)
    BY <2>1, <2>4, Converted
  <2> QED
    BY <1>1, <1>5, <2>3, <2>5 DEF A
<1> QED
  BY <1>4, <1>5

\* The conversion at the end gives elements, for all curves.
LEMMA FinishElements ==
  ASSUME NEW P \in Coordinates
  PROVE  LET U == Unredcified(P)
             j == fp_inv(U.Z)
             k == fp_mul(j, j)
         IN  ~prj_pt_iszero(U) =>
               Point(fp_mul(U.X, k), fp_mul(U.Y, fp_mul(j, k)), 1) \in Coordinates
<1> DEFINE U == Unredcified(P)
           j == fp_inv(U.Z)
           k == fp_mul(j, j)
<1>1. U.X \in Int /\ U.Y \in Int /\ U.Z \in Field
  <2>1. \A e \in Elements : fp_unredcify(e) \in Field /\ fp_unredcify(e) \in Int
    <3> TAKE e \in Elements
    <3>1. PICK x \in Field : Rep("monty", e, x)
      BY RepExists DEF Forms
    <3> QED
      BY <3>1, Unredcify, ElementsInt
  <2>2. P.X \in Elements /\ P.Y \in Elements /\ P.Z \in Elements
    BY DEF Coordinates
  <2> QED
    BY <2>1, <2>2 DEF Unredcified, Point
<1> SUFFICES ASSUME ~prj_pt_iszero(U)
             PROVE  Point(fp_mul(U.X, k), fp_mul(U.Y, fp_mul(j, k)), 1) \in Coordinates
  OBVIOUS
<1>2. j \in Int
  <2>1. U.Z # 0 /\ U.Z \in Int /\ U.Z % p = U.Z
    BY <1>1, ModOf, ElementsInt DEF prj_pt_iszero, Cong
  <2>2. ~Cong(U.Z, 0)
    BY <2>1, PBounds DEF Cong
  <2> HIDE DEF U
  <2> QED
    BY <2>1, <2>2, InverseOf DEF fp_inv
<1> HIDE DEF U, j
<1>3. \A e \in Int, f \in Int : fp_mul(e, f) \in Int /\ fp_mul(e, f) \in Elements
  <2> TAKE e \in Int, f \in Int
  <2>1. e * f \in Int
    OBVIOUS
  <2> QED
    BY ONLY <2>1, CongMod, ElementsInt DEF fp_mul
<1>4. k \in Int
  BY <1>2, <1>3
<1> HIDE DEF k
<1>5. fp_mul(U.X, k) \in Elements /\ fp_mul(U.Y, fp_mul(j, k)) \in Elements /\ 1 \in Elements
  <2>1. fp_mul(j, k) \in Int
    BY <1>2, <1>3, <1>4
  <2>2. fp_mul(U.X, k) \in Elements /\ fp_mul(U.Y, fp_mul(j, k)) \in Elements
    BY ONLY <1>1, <1>3, <1>4, <2>1
  <2> QED
    BY <2>2, PBounds DEF Elements
<1>6. Point(fp_mul(U.X, k), fp_mul(U.Y, fp_mul(j, k)), 1) \in Coordinates
  BY <1>5 DEF Point, Coordinates
<1> QED
  BY <1>6

\* A combination of scalars is a natural number.
LEMMA ProductsAdded ==
  ASSUME NEW a \in Nat, NEW b \in Nat, NEW k \in Nat, NEW l \in Nat
  PROVE  a * k + b * l \in Nat
OBVIOUS

\* Reducing the scalars does not change the multiple they stand for.
ReducedAlike(N, a, b, k, l) ==
  /\ (a % N) * k + (b % N) * l \in Nat
  /\ (a * k + b * l) % N = ((a % N) * k + (b % N) * l) % N

LEMMA Combination ==
  ASSUME NEW N \in Nat \ {0}, NEW a \in Nat, NEW b \in Nat, NEW k \in Nat, NEW l \in Nat
  PROVE  ReducedAlike(N, a, b, k, l)
<1> DEFINE r == a % N
           d == a \div N
           s == b % N
           e == b \div N
<1>1. r \in 0..(N - 1) /\ d \in Nat /\ a = N * d + r /\ s \in 0..(N - 1) /\ e \in Nat /\ b = N * e + s
  BY DivMod
<1> HIDE DEF r, d, s, e
<1>2. a * k + b * l = (r * k + s * l) + N * (d * k + e * l) /\ d * k + e * l \in Int
  BY <1>1
<1>3. a * k + b * l \in Int /\ r * k + s * l \in Nat
  BY <1>1
<1> DEFINE x == r * k + s * l
           y == a * k + b * l
           q == d * k + e * l
<1>4. N \in Nat \ {0} /\ x \in Int /\ y \in Int /\ q \in Int /\ y = x + N * q
  BY <1>2, <1>3
<1> HIDE DEF x, y, q
<1>5. y % N = x % N
  BY ONLY <1>4, IntModSame
<1> QED
  BY <1>3, <1>5 DEF r, s, x, y, ReducedAlike

-----------------------------------------------------------------------------
(* The invariant.                                                            *)

TableSize == 2^(window - 2)

\* What holds on every curve: the inputs have the coordinates of the points
\* they are to be, the digits are those of the scalars, the tables are complete.
BaseInv ==
  /\ TypeOK
  /\ pc = "mul" => \E z \in Scales : /\ in1 = Scaled(Mult(setup, k1), 1)
                                     /\ in3 = Scaled(Mult(setup, k3), z)
  /\ pc = "loop" => /\ m_wnag = ecmult_wnaf(window, m % OrderOf(setup))
                    /\ n_wnag = ecmult_wnaf(window, n % OrderOf(setup))
                    /\ Len(pre_comp_m) = TableSize /\ Len(pre_comp_n) = TableSize
  /\ pc = "exit_normalize" => k1 % OrderOf(setup) = 0 \/ k3 % OrderOf(setup) = 0

Consumed == ValueFrom(m_wnag, i + 1) * k1 + ValueFrom(n_wnag, i + 1) * k3

\* What holds on a curve with a = -3: the tables hold the odd multiples, and the
\* point of the loop is the multiple consumed so far.
CurveInv ==
  /\ pc = "loop" => /\ IsTable(setup, k1, pre_comp_m, TableSize)
                    /\ IsTable(setup, k3, pre_comp_n, TableSize)
                    /\ IsJacobian(out, Mult(setup, Consumed))
  /\ pc = "done" => Affine(out) = Mult(setup, m * k1 + n * k3)
  /\ pc = "exit_inv" => (m * k1 + n * k3) % OrderOf(setup) = 0

IInv == BaseInv /\ CurveInv

LEMMA TypeFacts ==
  ASSUME TypeOK
  PROVE  /\ setup \in Setups /\ window \in Windows /\ OrderOf(setup) \in Nat \ {0}
         /\ m \in Nat /\ n \in Nat /\ k1 \in Nat /\ k3 \in Nat
         /\ in1 \in Coordinates /\ in3 \in Coordinates /\ out \in Coordinates
         /\ i \in Nat /\ TableSize \in Nat \ {0}
<1>1. setup \in Setups /\ window \in Windows /\ m \in Nat /\ n \in Nat
      /\ k1 \in Inputs \cup {0} /\ k3 \in Inputs \cup {0} /\ i \in 0..WNAF_SIZE
      /\ in1 \in Triples /\ in3 \in Triples /\ out \in Triples
  BY DEF TypeOK
<1>2. OrderOf(setup) \in Nat \ {0}
  BY <1>1, GroupTable
<1>3. TableSize \in Nat \ {0}
  BY <1>1, WindowPowers DEF TableSize
<1>4. Inputs \subseteq Nat /\ WNAF_SIZE \in Nat
  BY InputAssumption, SizeAssumption
<1> QED
  BY <1>1, <1>2, <1>3, <1>4, TriplesAre

\* The digits of the two residues fit the arrays.
LEMMA ResidueDigits ==
  ASSUME NEW s \in Setups, NEW w \in Windows, NEW a \in Nat
  PROVE  LET ds == ecmult_wnaf(w, a % OrderOf(s))
         IN  /\ ds \in Seq(Int) /\ WellFormed(w, ds) /\ Len(ds) <= WNAF_SIZE
             /\ ValueFrom(ds, 1) = a % OrderOf(s)
<1> DEFINE N == OrderOf(s)
           t == a % N
           ds == ecmult_wnaf(w, t)
<1>1. N \in Nat \ {0} /\ N < 2^(WNAF_SIZE - 1) /\ WNAF_SIZE \in Nat \ {0}
  BY GroupTable, SizeAssumption DEF OrderOf
<1> HIDE DEF N
<1>2. t \in Nat /\ t < N
  BY <1>1
<1> HIDE DEF t
<1>3. DigitsOf(w, t, ds)
  BY <1>2, Digits
<1> HIDE DEF ds
<1>4. t <= 2^(WNAF_SIZE - 1) /\ WNAF_SIZE - 1 \in 0..WNAF_SIZE /\ (WNAF_SIZE - 1) + 1 = WNAF_SIZE
  <2>1. WNAF_SIZE - 1 \in 0..WNAF_SIZE
    BY <1>1
  <2>2. 2^(WNAF_SIZE - 1) \in Nat
    BY <2>1, PowersOfTwo
  <2> QED
    BY <1>1, <1>2, <2>1, <2>2
<1>5. Len(ds) <= WNAF_SIZE
  <2>1. Len(ds) <= (WNAF_SIZE - 1) + 1
    BY <1>3, <1>4 DEF DigitsOf
  <2> QED
    BY <1>4, <2>1
<1>6. ds \in Seq(Int) /\ WellFormed(w, ds) /\ TopValue(ds, Len(ds)) = t /\ (t = 0 => Len(ds) = 0)
  BY <1>3 DEF DigitsOf
<1>7. ValueFrom(ds, 1) = t
  <2>1. Len(ds) \in Nat
    BY <1>6
  <2>2. CASE Len(ds) = 0
    <3>1. TopValue(ds, 0) = 0
      BY <1>6, TopValues
    <3>2. t = 0
      BY <1>6, <2>2, <3>1
    <3> QED
      BY <2>2, <3>2 DEF ValueFrom
  <2>3. CASE Len(ds) # 0
    <3>1. Len(ds) + 1 - 1 = Len(ds) /\ ~(1 > Len(ds))
      BY <2>1, <2>3
    <3> QED
      BY <1>6, <3>1 DEF ValueFrom
  <2> QED
    BY <2>2, <2>3
<1> QED
  BY <1>5, <1>6, <1>7 DEF ds, t, N

\* The digits, for all curves.
LEMMA DigitsInv ==
  ASSUME BaseInv, pc = "loop"
  PROVE  /\ m_wnag \in Seq(Int) /\ WellFormed(window, m_wnag) /\ Len(m_wnag) <= WNAF_SIZE
         /\ n_wnag \in Seq(Int) /\ WellFormed(window, n_wnag) /\ Len(n_wnag) <= WNAF_SIZE
         /\ ValueFrom(m_wnag, 1) = m % OrderOf(setup)
         /\ ValueFrom(n_wnag, 1) = n % OrderOf(setup)
BY TypeFacts, ResidueDigits DEF BaseInv

-----------------------------------------------------------------------------
(* The steps, on every curve.                                                *)

LEMMA InitBase == Init => BaseInv
<1> SUFFICES ASSUME Init
             PROVE  BaseInv
  OBVIOUS
<1>1. prj_pt_zero \in Triples
  BY ZeroIsInfinity, TriplesAre
<1>2. <<>> \in Seq(Triples) /\ <<>> \in Seq(Int) /\ 0 \in 0..WNAF_SIZE
  BY SizeAssumption
<1>3. TypeOK
  BY <1>1, <1>2 DEF Init, TypeOK
<1> QED
  BY <1>3 DEF Init, BaseInv

LEMMA CallBase ==
  ASSUME BaseInv, Call
  PROVE  BaseInv'
<1>1. TypeOK
  BY DEF BaseInv
<1>2. /\ m' \in Nat /\ n' \in Nat /\ k1' \in Inputs /\ k3' \in Inputs /\ k1' \in Int /\ k3' \in Int
      /\ setup' = setup /\ window' = window /\ i' = i /\ out' = out /\ pc' = "mul"
      /\ pre_comp_m' = pre_comp_m /\ pre_comp_n' = pre_comp_n
      /\ m_wnag' = m_wnag /\ n_wnag' = n_wnag
  BY InputAssumption DEF Call, tables
<1>3. PICK z \in Scales : /\ in1' = Scaled(Mult(setup, k1'), 1)
                          /\ in3' = Scaled(Mult(setup, k3'), z)
  BY DEF Call, Times, order, Mult, OrderOf
<1>4. in1' \in Coordinates /\ in3' \in Coordinates
  <2>1. z \in 1..(p - 1) /\ 1 \in 1..(p - 1) /\ setup \in Setups
    BY <1>1, InputAssumption, PBounds DEF TypeOK
  <2> QED
    BY <1>2, <1>3, <2>1, InputPoint
<1>5. TypeOK'
  BY <1>1, <1>2, <1>4, TriplesAre DEF TypeOK
<1> QED
  BY <1>2, <1>3, <1>5 DEF BaseInv

LEMMA NormalizeExitsBase ==
  ASSUME BaseInv, NormalizeExits
  PROVE  BaseInv'
<1>1. TypeOK /\ pc = "mul" /\ pc' = "exit_normalize" /\ UNCHANGED <<inputs, tables, i, out>>
  BY DEF BaseInv, NormalizeExits
<1>2. TypeOK'
  BY <1>1 DEF TypeOK, inputs, tables, Ended
<1>3. k1 % OrderOf(setup) = 0 \/ k3 % OrderOf(setup) = 0
  <2>1. PICK z \in Scales : /\ in1 = Scaled(Mult(setup, k1), 1)
                            /\ in3 = Scaled(Mult(setup, k3), z)
    BY <1>1 DEF BaseInv
  <2>2. z \in 1..(p - 1) /\ 1 \in 1..(p - 1) /\ setup \in Setups /\ k1 \in Int /\ k3 \in Int
    BY <1>1, TypeFacts, InputAssumption, PBounds
  <2>3. prj_pt_iszero(in1) <=> k1 % OrderOf(setup) = 0
    BY ONLY <2>1, <2>2, InputPoint
  <2>4. prj_pt_iszero(in3) <=> k3 % OrderOf(setup) = 0
    BY ONLY <2>1, <2>2, InputPoint
  <2> QED
    BY <2>3, <2>4 DEF NormalizeExits
<1> QED
  BY <1>1, <1>2, <1>3 DEF BaseInv, inputs

\* What Prepare finds and leaves.
LEMMA PreparePoints ==
  ASSUME BaseInv, Prepare
  PROVE  LET P == Redcified(prj_pt_normalize(in1))
             Q == Redcified(prj_pt_normalize(in3))
         IN  /\ IsJacobian(P, Mult(setup, k1)) /\ IsJacobian(Q, Mult(setup, k3))
             /\ pre_comp_m' = get_pre_comp_points(P, TableSize)
             /\ pre_comp_n' = get_pre_comp_points(Q, TableSize)
             /\ m_wnag' = ecmult_wnaf(window, m % OrderOf(setup))
             /\ n_wnag' = ecmult_wnaf(window, n % OrderOf(setup))
<1>1. TypeOK /\ pc = "mul"
  BY DEF BaseInv, Prepare
<1>2. PICK z \in Scales : /\ in1 = Scaled(Mult(setup, k1), 1)
                          /\ in3 = Scaled(Mult(setup, k3), z)
  BY <1>1 DEF BaseInv
<1>3. z \in 1..(p - 1) /\ 1 \in 1..(p - 1) /\ setup \in Setups /\ k1 \in Int /\ k3 \in Int
  BY <1>1, TypeFacts, InputAssumption, PBounds
<1>4. ~prj_pt_iszero(in1) /\ ~prj_pt_iszero(in3)
  BY DEF Prepare
<1>5. IsJacobian(Redcified(prj_pt_normalize(in1)), Mult(setup, k1))
  BY ONLY <1>2, <1>3, <1>4, InputPoint
<1>6. IsJacobian(Redcified(prj_pt_normalize(in3)), Mult(setup, k3))
  BY ONLY <1>2, <1>3, <1>4, InputPoint
<1> QED
  BY <1>5, <1>6 DEF Prepare, TableSize, order, OrderOf

LEMMA PrepareBase ==
  ASSUME BaseInv, Prepare
  PROVE  BaseInv'
<1> DEFINE P == Redcified(prj_pt_normalize(in1))
           Q == Redcified(prj_pt_normalize(in3))
<1>1. /\ TypeOK /\ setup \in Setups /\ window \in Windows /\ TableSize \in Nat \ {0}
      /\ m \in Nat /\ n \in Nat
  BY TypeFacts DEF BaseInv
<1>2. /\ UNCHANGED inputs /\ out' = prj_pt_zero /\ pc' = "loop"
      /\ i' = IF Len(m_wnag') > Len(n_wnag') THEN Len(m_wnag') ELSE Len(n_wnag')
  BY DEF Prepare
<1>3. /\ P \in Coordinates /\ Q \in Coordinates
      /\ pre_comp_m' = get_pre_comp_points(P, TableSize)
      /\ pre_comp_n' = get_pre_comp_points(Q, TableSize)
      /\ m_wnag' = ecmult_wnaf(window, m % OrderOf(setup))
      /\ n_wnag' = ecmult_wnaf(window, n % OrderOf(setup))
  BY PreparePoints DEF IsJacobian
<1> HIDE DEF P, Q
<1>4. /\ pre_comp_m' \in Seq(Coordinates) /\ Len(pre_comp_m') = TableSize
      /\ pre_comp_n' \in Seq(Coordinates) /\ Len(pre_comp_n') = TableSize
  BY <1>1, <1>3, TableSteps
<1>5. /\ m_wnag' \in Seq(Int) /\ Len(m_wnag') <= WNAF_SIZE
      /\ n_wnag' \in Seq(Int) /\ Len(n_wnag') <= WNAF_SIZE
  BY <1>1, <1>3, ResidueDigits
<1>6. i' \in 0..WNAF_SIZE
  <2>1. Len(m_wnag') \in Nat /\ Len(n_wnag') \in Nat /\ WNAF_SIZE \in Nat
    BY <1>5, SizeAssumption
  <2> QED
    BY <1>2, <1>5, <2>1
<1>7. TypeOK'
  BY <1>1, <1>2, <1>4, <1>5, <1>6, ZeroIsInfinity, TriplesAre DEF TypeOK, inputs
<1>8. m' = m /\ n' = n /\ setup' = setup /\ window' = window /\ TableSize' = TableSize
  BY <1>2 DEF inputs, TableSize
<1> QED
  BY <1>2, <1>3, <1>4, <1>7, <1>8 DEF BaseInv

LEMMA IterateBase ==
  ASSUME BaseInv, Iterate
  PROVE  BaseInv'
<1> DEFINE P == jprj_pt_dbl_monty(out)
           Q == AddDigit(P, m_wnag, pre_comp_m, i)
<1>1. /\ TypeOK /\ pc = "loop" /\ pc' = pc /\ UNCHANGED <<inputs, tables>>
      /\ i > 0 /\ i' = i - 1 /\ out' = AddDigit(Q, n_wnag, pre_comp_n, i)
  BY DEF BaseInv, Iterate
<1>2. /\ window \in Windows /\ out \in Coordinates /\ i \in Nat \ {0}
      /\ m_wnag \in Seq(Int) /\ n_wnag \in Seq(Int)
      /\ WellFormed(window, m_wnag) /\ WellFormed(window, n_wnag)
      /\ pre_comp_m \in Seq(Coordinates) /\ Len(pre_comp_m) = 2^(window - 2)
      /\ pre_comp_n \in Seq(Coordinates) /\ Len(pre_comp_n) = 2^(window - 2)
  <2>1. pre_comp_m \in Seq(Coordinates) /\ pre_comp_n \in Seq(Coordinates)
    BY <1>1, TriplesAre DEF TypeOK
  <2>2. Len(pre_comp_m) = 2^(window - 2) /\ Len(pre_comp_n) = 2^(window - 2)
    BY <1>1 DEF BaseInv, TableSize
  <2>3. i \in Nat \ {0} /\ window \in Windows /\ out \in Coordinates
    BY <1>1, TypeFacts
  <2> QED
    BY <1>1, <2>1, <2>2, <2>3, DigitsInv
<1>3. P \in Coordinates
  BY <1>2, CoordinatesClosed
<1> HIDE DEF P
<1>4. Q \in Coordinates
  BY ONLY <1>2, <1>3, AddDigitElements
<1> HIDE DEF Q
<1>5. out' \in Coordinates
  BY ONLY <1>1, <1>2, <1>4, AddDigitElements
<1>6. i' \in 0..WNAF_SIZE
  BY <1>1, SizeAssumption DEF TypeOK
<1>7. TypeOK'
  BY <1>1, <1>5, <1>6, TriplesAre DEF TypeOK, inputs, tables
<1>8. /\ m' = m /\ n' = n /\ setup' = setup /\ window' = window /\ TableSize' = TableSize
      /\ m_wnag' = m_wnag /\ n_wnag' = n_wnag
      /\ pre_comp_m' = pre_comp_m /\ pre_comp_n' = pre_comp_n
  BY <1>1 DEF inputs, tables, TableSize
<1> QED
  BY <1>1, <1>7, <1>8 DEF BaseInv

LEMMA FinishBase ==
  ASSUME BaseInv, Finish
  PROVE  BaseInv'
<1>1. TypeOK /\ out \in Coordinates /\ pc' \in {"done", "exit_inv"} /\ UNCHANGED <<inputs, tables, i>>
  BY TypeFacts DEF BaseInv, Finish
<1>2. out' \in Coordinates
  <2> DEFINE U == Unredcified(out)
             j == fp_inv(U.Z)
             k == fp_mul(j, j)
             D == Point(fp_mul(U.X, k), fp_mul(U.Y, fp_mul(j, k)), 1)
  <2>1. CASE prj_pt_iszero(U)
    <3>1. out' = out
      BY <2>1 DEF Finish
    <3> QED
      BY <1>1, <3>1
  <2>2. CASE ~prj_pt_iszero(U)
    <3>1. out' = D
      BY <2>2 DEF Finish
    <3>2. D \in Coordinates
      BY <1>1, <2>2, FinishElements
    <3> QED
      BY <3>1, <3>2
  <2> QED
    BY <2>1, <2>2
<1>3. TypeOK'
  BY <1>1, <1>2, TriplesAre DEF TypeOK, inputs, tables, Ended
<1> QED
  BY <1>1, <1>3 DEF BaseInv

LEMMA ReturnBase ==
  ASSUME BaseInv, Return
  PROVE  BaseInv'
<1>1. TypeOK
  BY DEF BaseInv
<1>2. prj_pt_zero \in Triples
  BY ZeroIsInfinity, TriplesAre
<1>3. <<>> \in Seq(Triples) /\ <<>> \in Seq(Int)
  OBVIOUS
<1>4. TypeOK'
  BY <1>1, <1>2, <1>3 DEF Return, TypeOK
<1> QED
  BY <1>4 DEF Return, BaseInv

LEMMA StutterBase ==
  ASSUME BaseInv, UNCHANGED vars
  PROVE  BaseInv'
BY DEF BaseInv, TypeOK, vars, inputs, tables, TableSize

LEMMA NextBase == BaseInv /\ [Next]_vars => BaseInv'
BY CallBase, NormalizeExitsBase, PrepareBase, IterateBase, FinishBase, ReturnBase, StutterBase
   DEF Next

-----------------------------------------------------------------------------
(* The steps, on curves with a = -3.                                         *)

AllMinusThree == \A s \in Setups : MinusThree(s)

LEMMA PrepareCurve ==
  ASSUME AllMinusThree, IInv, Prepare
  PROVE  CurveInv'
<1> DEFINE P == Redcified(prj_pt_normalize(in1))
           Q == Redcified(prj_pt_normalize(in3))
<1>1. BaseInv /\ BaseInv'
  BY PrepareBase DEF IInv
<1>2. /\ setup \in Setups /\ MinusThree(setup) /\ TableSize \in Nat \ {0}
      /\ k1 \in Int /\ k3 \in Int
  BY <1>1, TypeFacts DEF BaseInv, AllMinusThree
<1>3. /\ IsJacobian(P, Mult(setup, k1)) /\ IsJacobian(Q, Mult(setup, k3))
      /\ pre_comp_m' = get_pre_comp_points(P, TableSize)
      /\ pre_comp_n' = get_pre_comp_points(Q, TableSize)
  BY <1>1, PreparePoints
<1> HIDE DEF P, Q
<1>4. /\ UNCHANGED inputs /\ out' = prj_pt_zero /\ pc' = "loop"
      /\ i' = IF Len(m_wnag') > Len(n_wnag') THEN Len(m_wnag') ELSE Len(n_wnag')
  BY DEF Prepare
<1>5. IsTable(setup, k1, pre_comp_m', TableSize) /\ IsTable(setup, k3, pre_comp_n', TableSize)
  BY <1>2, <1>3, Table
<1>6. Consumed' = 0
  <2>1. m_wnag' \in Seq(Int) /\ n_wnag' \in Seq(Int)
    BY <1>1 DEF BaseInv, TypeOK
  <2>2. Len(m_wnag') \in Nat /\ Len(n_wnag') \in Nat
    BY <2>1
  <2>3. i' + 1 > Len(m_wnag') /\ i' + 1 > Len(n_wnag')
    BY <1>4, <2>2
  <2>4. ValueFrom(m_wnag', i' + 1) = 0 /\ ValueFrom(n_wnag', i' + 1) = 0
    BY <2>3 DEF ValueFrom
  <2>5. k1' = k1 /\ k3' = k3
    BY <1>4 DEF inputs
  <2>6. 0 * k1 + 0 * k3 = 0
    BY <1>2
  <2> QED
    BY <2>4, <2>5, <2>6 DEF Consumed
<1>7. Mult(setup, 0) = Infinity
  <2>1. OrderOf(setup) \in Nat \ {0}
    BY <1>2, GroupTable
  <2>2. 0 % OrderOf(setup) = 0
    BY <2>1
  <2> QED
    BY <1>2, <2>2, GroupTable
<1>8. setup' = setup /\ k1' = k1 /\ k3' = k3 /\ TableSize' = TableSize
  BY <1>4 DEF inputs, TableSize
<1> QED
  BY <1>4, <1>5, <1>6, <1>7, <1>8, ZeroIsInfinity DEF CurveInv

LEMMA IterateCurve ==
  ASSUME AllMinusThree, IInv, Iterate
  PROVE  CurveInv'
<1> DEFINE P == jprj_pt_dbl_monty(out)
           Q == AddDigit(P, m_wnag, pre_comp_m, i)
           D == AddDigit(Q, n_wnag, pre_comp_n, i)
           a == DigitAt(m_wnag, i)
           b == DigitAt(n_wnag, i)
           x == Consumed
           u == ValueFrom(m_wnag, i + 1)
           v == ValueFrom(n_wnag, i + 1)
<1>1. /\ BaseInv /\ pc = "loop" /\ pc' = pc /\ UNCHANGED <<inputs, tables>>
      /\ i > 0 /\ i' = i - 1 /\ out' = D
  BY DEF IInv, Iterate
<1>2. /\ setup \in Setups /\ MinusThree(setup) /\ window \in Windows /\ i \in Nat \ {0}
      /\ k1 \in Int /\ k3 \in Int
      /\ m_wnag \in Seq(Int) /\ n_wnag \in Seq(Int)
      /\ WellFormed(window, m_wnag) /\ WellFormed(window, n_wnag)
  <2>1. /\ setup \in Setups /\ window \in Windows /\ i \in Nat /\ k1 \in Int /\ k3 \in Int
    BY <1>1, TypeFacts DEF BaseInv
  <2> QED
    BY <1>1, <2>1, DigitsInv DEF AllMinusThree
<1>3. /\ IsTable(setup, k1, pre_comp_m, 2^(window - 2))
      /\ IsTable(setup, k3, pre_comp_n, 2^(window - 2))
      /\ IsJacobian(out, Mult(setup, x))
  BY <1>1 DEF IInv, CurveInv, TableSize
<1>4. /\ u \in Int /\ v \in Int /\ x = u * k1 + v * k3
      /\ ValueFrom(m_wnag, i) = a + 2 * u /\ ValueFrom(n_wnag, i) = b + 2 * v
  BY <1>2, ValueStep DEF Consumed, DigitAt
<1> HIDE DEF x, u, v
<1>5. x \in Int /\ 2 * x \in Int
  BY <1>2, <1>4
<1>6. IsJacobian(P, Mult(setup, 2 * x))
  BY ONLY <1>2, <1>3, <1>5, MultFormulas
<1> HIDE DEF P
<1>7. a \in Int /\ IsJacobian(Q, Mult(setup, 2 * x + a * k1))
  BY ONLY <1>2, <1>3, <1>5, <1>6, AddDigitRight
<1> HIDE DEF Q, a
<1> DEFINE y == 2 * x + a * k1
<1>8. y \in Int
  BY <1>2, <1>5, <1>7
<1> HIDE DEF y
<1>9. IsJacobian(Q, Mult(setup, y))
  BY <1>7 DEF y
<1>10. b \in Int /\ IsJacobian(D, Mult(setup, y + b * k3))
  BY ONLY <1>2, <1>3, <1>8, <1>9, AddDigitRight
<1> HIDE DEF D, b
<1>11. Consumed' = y + b * k3
  <2>1. m_wnag' = m_wnag /\ n_wnag' = n_wnag /\ k1' = k1 /\ k3' = k3 /\ i' + 1 = i
    BY <1>1, <1>2 DEF inputs, tables
  <2>2. Consumed' = ValueFrom(m_wnag, i) * k1 + ValueFrom(n_wnag, i) * k3
    BY <2>1 DEF Consumed
  <2>3. (a + 2 * u) * k1 + (b + 2 * v) * k3 = (2 * (u * k1 + v * k3) + a * k1) + b * k3
    BY <1>2, <1>4, <1>7, <1>10
  <2> QED
    BY <1>4, <2>2, <2>3 DEF y
<1>12. setup' = setup /\ k1' = k1 /\ k3' = k3 /\ TableSize' = TableSize
       /\ pre_comp_m' = pre_comp_m /\ pre_comp_n' = pre_comp_n
  BY <1>1 DEF inputs, tables, TableSize
<1> QED
  BY <1>1, <1>3, <1>10, <1>11, <1>12 DEF CurveInv, TableSize

LEMMA FinishCurve ==
  ASSUME IInv, Finish
  PROVE  CurveInv'
<1> DEFINE U == Unredcified(out)
           z == fp_inv(U.Z)
           y == fp_mul(z, z)
           D == Point(fp_mul(U.X, y), fp_mul(U.Y, fp_mul(z, y)), 1)
           N == OrderOf(setup)
           V == (m % N) * k1 + (n % N) * k3
           S == m * k1 + n * k3
           A == Mult(setup, V)
<1>1. /\ BaseInv /\ pc = "loop" /\ i = 0 /\ UNCHANGED <<inputs, tables, i>>
      /\ IF prj_pt_iszero(U) THEN pc' = "exit_inv" ELSE out' = D /\ pc' = "done"
  BY DEF IInv, Finish
<1>2. setup \in Setups /\ N \in Nat \ {0} /\ m \in Nat /\ n \in Nat /\ k1 \in Nat /\ k3 \in Nat
  BY <1>1, TypeFacts DEF BaseInv
<1>3. IsJacobian(out, A)
  <2>1. Consumed = V
    <3>1. ValueFrom(m_wnag, 1) = m % N /\ ValueFrom(n_wnag, 1) = n % N /\ i + 1 = 1
      BY <1>1, DigitsInv
    <3> QED
      BY <3>1 DEF Consumed
  <2> QED
    BY <1>1, <2>1 DEF IInv, CurveInv
<1>4. S \in Int /\ V \in Int /\ S % N = V % N /\ A = Mult(setup, S)
  <2> HIDE DEF N
  <2>1. S \in Nat
    BY ONLY <1>2, ProductsAdded, Zenon
  <2>2. V \in Nat /\ S % N = V % N
    <3>1. ReducedAlike(N, m, n, k1, k3)
      BY ONLY <1>2, Combination
    <3> QED
      BY <3>1 DEF ReducedAlike
  <2> HIDE DEF S, V
  <2>3. S % N = V % N /\ S \in Int /\ V \in Int
    BY <2>1, <2>2
  <2> QED
    BY <2>3 DEF Mult, N
<1>5. /\ prj_pt_iszero(U) <=> A = Infinity
      /\ A # Infinity => D \in Coordinates /\ Affine(D) = A
  BY <1>3, BackToAffine
<1>6. A = Infinity <=> V % N = 0
  <2> HIDE DEF V
  <2> QED
    BY <1>2, <1>4, GroupTable
<1>7. m' = m /\ n' = n /\ k1' = k1 /\ k3' = k3 /\ setup' = setup
  BY <1>1 DEF inputs
<1> HIDE DEF U, D, A
<1>8. CASE prj_pt_iszero(U)
  <2>1. pc' = "exit_inv" /\ S % N = 0
    BY <1>1, <1>4, <1>5, <1>6, <1>8
  <2> QED
    BY <1>7, <2>1 DEF CurveInv
<1>9. CASE ~prj_pt_iszero(U)
  <2>1. pc' = "done" /\ out' = D /\ Affine(D) = Mult(setup, S)
    BY <1>1, <1>4, <1>5, <1>9
  <2> QED
    BY <1>7, <2>1 DEF CurveInv
<1> QED
  BY <1>8, <1>9

LEMMA InitIInv == Init => IInv
BY InitBase DEF IInv, CurveInv, Init

LEMMA NextIInv ==
  ASSUME AllMinusThree
  PROVE  IInv /\ [Next]_vars => IInv'
<1> SUFFICES ASSUME IInv, [Next]_vars
             PROVE  IInv'
  OBVIOUS
<1>1. BaseInv'
  BY NextBase DEF IInv
<1>2. CASE Call
  BY <1>1, <1>2 DEF Call, IInv, CurveInv
<1>3. CASE NormalizeExits
  BY <1>1, <1>3 DEF NormalizeExits, IInv, CurveInv
<1>4. CASE Prepare
  BY <1>1, <1>4, PrepareCurve DEF IInv
<1>5. CASE Iterate
  BY <1>1, <1>5, IterateCurve DEF IInv
<1>6. CASE Finish
  BY <1>1, <1>6, FinishCurve DEF IInv
<1>7. CASE Return
  BY <1>1, <1>7 DEF Return, IInv, CurveInv
<1>8. CASE UNCHANGED vars
  BY <1>1, <1>8 DEF IInv, CurveInv, Consumed, TableSize, vars, inputs, tables
<1> QED
  BY <1>2, <1>3, <1>4, <1>5, <1>6, <1>7, <1>8 DEF Next

-----------------------------------------------------------------------------
(* What follows on every curve.                                              *)

\* The inputs, the digits and the tables are what they are to be in every
\* reachable state, whatever the curve.
THEOREM InductiveOnAllCurves == Spec => []BaseInv
<1>1. Init => BaseInv
  BY InitBase
<1>2. BaseInv /\ [Next]_vars => BaseInv'
  BY NextBase
<1> QED
  BY <1>1, <1>2, PTL DEF Spec

\* Every variable keeps its type: no digit, table entry or loop index leaves its
\* range.
THEOREM TypeCorrect == Spec => []TypeOK
<1>1. BaseInv => TypeOK
  BY DEF BaseInv
<1> QED
  BY <1>1, InductiveOnAllCurves, PTL

\* ecmult_wnaf writes digits that represent the scalar, index the table, are
\* sparse, and fit the array it writes unchecked.
THEOREM DigitsAreCorrect == Spec => []DigitsCorrect
<1>1. BaseInv => DigitsCorrect
  BY DigitsInv DEF DigitsCorrect, order, OrderOf
<1> QED
  BY <1>1, InductiveOnAllCurves, PTL

-----------------------------------------------------------------------------
(* What follows on curves with a = -3.                                       *)

\* The tables and the point of the loop are multiples in every reachable state.
THEOREM Inductive ==
  ASSUME AllMinusThree
  PROVE  Spec => []IInv
<1>1. Init => IInv
  BY InitIInv
<1>2. IInv /\ [Next]_vars => IInv'
  BY NextIInv
<1> QED
  BY <1>1, <1>2, PTL DEF Spec

\* _jprj_pt_add_monty and _jprj_pt_dbl_monty keep the point of the loop at the
\* multiple the consumed digits give, through all special cases.
THEOREM LoopIsCorrect ==
  ASSUME AllMinusThree
  PROVE  Spec => []LoopInv
<1>1. IInv => LoopInv
  BY JacobianIs DEF IInv, CurveInv, LoopInv, Consumed, Times, order, Mult, OrderOf
<1> QED
  BY <1>1, Inductive, PTL

\* prj_pt_ec_mult_wnaf stops the program only for an input or a result at
\* infinity.
THEOREM ExitsAreJustified ==
  ASSUME AllMinusThree
  PROVE  Spec => []ExitsOnlyAtInfinity
<1>1. IInv => ExitsOnlyAtInfinity
  BY DEF IInv, BaseInv, CurveInv, ExitsOnlyAtInfinity, order, OrderOf
<1> QED
  BY <1>1, Inductive, PTL

\* The point prj_pt_ec_mult_wnaf returns is [m]in1 + [n]in3.
THEOREM ResultIsCorrect ==
  ASSUME AllMinusThree
  PROVE  Spec => []ResultCorrect
<1>1. IInv => ResultCorrect
  BY DEF IInv, CurveInv, ResultCorrect, Times, order, Mult, OrderOf
<1> QED
  BY <1>1, Inductive, PTL

-----------------------------------------------------------------------------
(* The abstract multiplication.                                              *)

LEMMA AbstractInit == Init => Abstract!Init
BY GroupTable DEF Init, Abstract!Init, order, OrderOf

\* The logarithm of a multiple.
LEMMA Logarithm ==
  ASSUME NEW s \in Setups, NEW S \in Int
  PROVE  (CHOOSE k \in 0..(OrderOf(s) - 1) : Mult(s, k) = Mult(s, S)) = S % OrderOf(s)
<1> DEFINE N == OrderOf(s)
           r == S % N
           c == CHOOSE k \in 0..(N - 1) : Mult(s, k) = Mult(s, S)
<1>1. N \in Nat \ {0}
  BY GroupTable
<1>2. \A k \in 0..(N - 1) : k \in Int /\ k % N = k
  <2> HIDE DEF N
  <2> QED
    BY <1>1
<1>3. r \in 0..(N - 1)
  <2> HIDE DEF N
  <2> QED
    BY <1>1
<1>4. Mult(s, r) = Mult(s, S)
  BY <1>2, <1>3 DEF Mult
<1> HIDE DEF r
<1>5. c \in 0..(N - 1) /\ Mult(s, c) = Mult(s, S)
  <2> HIDE DEF N
  <2> QED
    BY <1>3, <1>4
<1> HIDE DEF c
<1>6. c % N = S % N
  BY <1>2, <1>5, MultInjective
<1> QED
  BY <1>2, <1>5, <1>6 DEF c

\* A step is a step of PointMul or does not change what PointMul sees.
LEMMA AbstractStep ==
  ASSUME AllMinusThree
  PROVE  IInv /\ [Next]_vars => [Abstract!Next]_(Abstract!vars)
<1> SUFFICES ASSUME IInv, [Next]_vars
             PROVE  Abstract!Next \/ UNCHANGED Abstract!vars
  OBVIOUS
<1> USE DEF Abstract!vars, Ended
<1>1. TypeOK /\ setup \in Setups /\ IInv'
  BY NextIInv DEF IInv, BaseInv, TypeOK
<1>2. CASE Call
  <2>1. pc = "call" /\ pc' = "mul" /\ setup' = setup
        /\ m' \in Nat /\ n' \in Nat /\ k1' \in Nat /\ k3' \in Nat
    BY <1>2, InputAssumption DEF Call
  <2>2. m' * k1' + n' * k3' \in Nat
    BY ONLY <2>1, ProductsAdded, ZenonT(60)
  <2>3. Abstract!Request
    BY <2>1, <2>2 DEF Abstract!Request, order
  <2> QED
    BY <2>3 DEF Abstract!Next
<1>3. CASE NormalizeExits
  <2>1. pc = "mul" /\ pc' = "exit_normalize" /\ UNCHANGED inputs
    BY <1>3 DEF NormalizeExits
  <2>2. Abstract!Stop
    BY <2>1 DEF Abstract!Stop, order, inputs
  <2> QED
    BY <2>2 DEF Abstract!Next
<1>4. CASE Prepare
  <2>1. pc = "mul" /\ pc' = "loop" /\ UNCHANGED inputs
    BY <1>4 DEF Prepare
  <2> QED
    BY <2>1 DEF order, inputs
<1>5. CASE Iterate
  <2>1. pc = "loop" /\ pc' = "loop" /\ UNCHANGED inputs
    BY <1>5 DEF Iterate
  <2> QED
    BY <2>1 DEF order, inputs
<1>6. CASE Finish
  <2>1. pc = "loop" /\ pc' \in {"done", "exit_inv"} /\ UNCHANGED inputs
    BY <1>6 DEF Finish
  <2>2. CASE pc' = "exit_inv"
    <3>1. Abstract!Stop
      BY <2>1, <2>2 DEF Abstract!Stop, order, inputs
    <3> QED
      BY <3>1 DEF Abstract!Next
  <2>3. CASE pc' = "done"
    <3> DEFINE S == m * k1 + n * k3
    <3>1. S \in Int
      BY <1>1, TypeFacts
    <3>2. Affine(out') = Mult(setup, S) /\ setup' = setup
      BY <1>1, <2>1, <2>3 DEF IInv, CurveInv, inputs
    <3> HIDE DEF S
    <3>3. (CHOOSE k \in 0..(OrderOf(setup) - 1) : Mult(setup, k) = Mult(setup, S))
            = S % OrderOf(setup)
      BY <1>1, <3>1, Logarithm
    <3>4. (CHOOSE k \in 0..(order' - 1) : Times(k)' = Affine(out')) = S % order
      BY <3>2, <3>3 DEF Times, order, Mult, OrderOf
    <3>5. Abstract!Deliver
      BY <2>1, <2>3, <3>4 DEF Abstract!Deliver, order, inputs, S
    <3> QED
      BY <3>5 DEF Abstract!Next
  <2> QED
    BY <2>1, <2>2, <2>3
<1>7. CASE Return
  <2>1. /\ pc = "done" /\ pc' = "call" /\ setup' = setup
        /\ m' = 0 /\ n' = 0 /\ k1' = 0 /\ k3' = 0
    BY <1>7 DEF Return
  <2>2. m' * k1' + n' * k3' = 0
    BY <2>1
  <2>3. Abstract!Return
    BY <2>1, <2>2 DEF Abstract!Return, order
  <2> QED
    BY <2>3 DEF Abstract!Next
<1>8. CASE UNCHANGED vars
  BY <1>8 DEF vars, inputs, order, Times
<1> QED
  BY <1>2, <1>3, <1>4, <1>5, <1>6, <1>7, <1>8 DEF Next

\* A caller cannot tell the double multiplication from one made in one step.
THEOREM Refinement ==
  ASSUME AllMinusThree
  PROVE  Spec => ImplementsPointMul
<1>1. Init => Abstract!Init
  BY AbstractInit
<1>2. IInv /\ [Next]_vars => [Abstract!Next]_(Abstract!vars)
  BY AbstractStep
<1> QED
  BY <1>1, <1>2, Inductive, PTL DEF Spec, ImplementsPointMul, Abstract!Spec
=============================================================================
