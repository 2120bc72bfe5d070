----------------------------- MODULE NumberLemmas -----------------------------
(***************************************************************************)
(* Facts about natural numbers that the proofs of several modules use:     *)
(* division with remainder, congruence and inverses modulo a prime, powers *)
(* of two, and sums.  Induction is by the smallest counterexample.         *)
(***************************************************************************)
EXTENDS Integers, WellFoundedInduction, TLAPS

\* Division with remainder.
LEMMA DivMod ==
  ASSUME NEW n \in Nat, NEW d \in Nat \ {0}
  PROVE  /\ n \div d \in Nat
         /\ n % d \in 0..(d - 1)
         /\ n = d * (n \div d) + (n % d)
BY SMT

\* Quotient and remainder are determined by the equation they satisfy.
LEMMA DivUnique ==
  ASSUME NEW n \in Nat, NEW d \in Nat \ {0}, NEW k \in Nat, NEW r \in 0..(d - 1),
         n = d * k + r
  PROVE  n \div d = k /\ n % d = r
BY SMT

\* Multiples of the divisor do not change the remainder.
LEMMA AddMultiple ==
  ASSUME NEW n \in Nat, NEW d \in Nat \ {0}, NEW k \in Nat
  PROVE  (n + d * k) % d = n % d /\ (n + d * k) \div d = (n \div d) + k
<1> DEFINE r == n % d
           m == n \div d
<1>1. m \in Nat /\ r \in 0..(d - 1) /\ n = d * m + r
  BY DivMod
<1> HIDE DEF r, m
<1>2. n + d * k = d * (m + k) + r /\ m + k \in Nat /\ n + d * k \in Nat
  BY <1>1
<1>3. (n + d * k) \div d = m + k /\ (n + d * k) % d = r
  BY <1>1, <1>2, DivUnique
<1> QED
  BY <1>3 DEF r, m

\* A number below the divisor is its own remainder.
LEMMA SmallMod ==
  ASSUME NEW d \in Nat \ {0}, NEW n \in 0..(d - 1)
  PROVE  n % d = n /\ n \div d = 0
BY SMT

\* Dividing by a product is dividing twice.
LEMMA DivDiv ==
  ASSUME NEW n \in Nat, NEW d \in Nat \ {0}, NEW e \in Nat \ {0}
  PROVE  n \div (d * e) = (n \div d) \div e
<1> DEFINE m == n \div d
           r == n % d
           mm == m \div e
           rr == m % e
<1>1. m \in Nat /\ r \in 0..(d - 1) /\ n = d * m + r
  BY DivMod
<1>2. mm \in Nat /\ rr \in 0..(e - 1) /\ m = e * mm + rr
  BY <1>1, DivMod
<1> HIDE DEF m, r, mm, rr
<1>3. d * e \in Nat \ {0}
  BY SMT
<1>4. n = (d * e) * mm + (d * rr + r)
  BY <1>1, <1>2, SMT
<1>5. d * rr + r \in 0..((d * e) - 1)
  <2>1. d * rr \in Nat /\ d * rr <= d * (e - 1)
    BY <1>2, SMT
  <2>2. d * (e - 1) = (d * e) - d
    BY SMT
  <2> QED
    BY <1>1, <1>3, <2>1, <2>2
<1>6. n \div (d * e) = mm
  BY <1>2, <1>3, <1>4, <1>5, DivUnique
<1> QED
  BY <1>6 DEF m, mm

\* A set of naturals that is not empty has a smallest element.
LEMMA SmallestElement ==
  ASSUME NEW L, L \subseteq Nat, L # {}
  PROVE  \E x \in L : \A y \in L : x <= y
<1> DEFINE R == {ss \in Nat \X Nat : ss[1] < ss[2]}
<1>1. IsWellFoundedOn(R, Nat)
  BY NatLessThanWellFounded DEF OpToRel
<1> HIDE DEF R
<1>2. PICK x \in L : \A y \in L : ~ (<<y, x>> \in R)
  BY <1>1, WFMin
<1>3. \A y \in L : ~ (y < x)
  BY <1>2 DEF R
<1> QED
  BY <1>2, <1>3

\* The recursion of the powers of base up to its N-th.
PowersOf(base, N) ==
  base^0 = 1 /\ \A i \in 0..N : base^i \in Nat \ {0} /\ base^(i + 1) = base * base^i

\* Exponents are added when powers are multiplied.
LEMMA PowerSum ==
  ASSUME NEW N \in Nat, NEW base \in Nat, PowersOf(base, N),
         NEW a \in Nat, NEW b \in Nat, a + b <= N
  PROVE  base^(a + b) = base^a * base^b
<1>0. base^0 = 1 /\ \A i \in 0..N : base^i \in Nat \ {0} /\ base^(i + 1) = base * base^i
  BY DEF PowersOf
<1> DEFINE L == {j \in 0..b : base^(a + j) # base^a * base^j}
<1>1. ASSUME L # {} PROVE FALSE
  <2>1. PICK x \in L : \A y \in L : x <= y
    <3>1. L \subseteq Nat
      OBVIOUS
    <3> QED
      BY <1>1, <3>1, SmallestElement
  <2>2. x \in 0..b /\ base^(a + x) # base^a * base^x
    OBVIOUS
  <2>3. x # 0
    <3>1. ASSUME x = 0 PROVE FALSE
      <4>1. a + x = a /\ base^x = 1 /\ base^a \in Nat
        BY <1>0, <3>1
      <4> QED
        BY <2>2, <4>1
    <3> QED
      BY <3>1
  <2>4. x - 1 \in 0..b /\ (x - 1) + 1 = x /\ (a + (x - 1)) + 1 = a + x
        /\ x - 1 \in 0..N /\ a + (x - 1) \in 0..N /\ a \in 0..N
    BY <2>2, <2>3
  <2>5. base^(a + (x - 1)) = base^a * base^(x - 1)
    BY <2>1, <2>4
  <2>6. base^(a + x) = base * base^(a + (x - 1)) /\ base^x = base * base^(x - 1)
    BY <1>0, <2>4
  <2>7. base^a \in Nat /\ base^(x - 1) \in Nat
    BY <1>0, <2>4
  <2>8. \A X, Y \in Nat : base * (X * Y) = X * (base * Y)
    BY ONLY base \in Nat
  <2> QED
    BY ONLY <2>2, <2>5, <2>6, <2>7, <2>8
<1>2. b \notin L
  BY <1>1
<1> QED
  BY <1>2

\* Remainders are equal if and only if one number is the other and a multiple.
LEMMA EqualRemainders ==
  ASSUME NEW n \in Nat \ {0}, NEW x \in Nat, NEW y \in Nat, x <= y
  PROVE  x % n = y % n <=> \E k \in Nat : y = x + n * k
<1>1. ASSUME NEW k \in Nat, y = x + n * k
      PROVE  x % n = y % n
  BY <1>1, AddMultiple
<1>2. ASSUME x % n = y % n
      PROVE  \E k \in Nat : y = x + n * k
  <2> DEFINE r == x % n
             u == x \div n
             v == y \div n
  <2>1. u \in Nat /\ v \in Nat /\ r \in 0..(n - 1) /\ x = n * u + r
    BY DivMod
  <2>2. y = n * v + r
    BY <1>2, DivMod
  <2> HIDE DEF r, u, v
  <2>3. ~ (v < u)
    <3>1. ASSUME v < u
          PROVE  FALSE
      <4>1. n * u - n * v = n * (u - v) /\ u - v >= 1
        BY <2>1, <3>1, SMT
      <4>2. n * (u - v) >= n
        BY <2>1, <4>1, SMT
      <4>3. n * u \in Nat /\ n * v \in Nat
        BY <2>1, SMT
      <4> QED
        BY <2>1, <2>2, <4>1, <4>2, <4>3
    <3> QED
      BY <3>1
  <2>4. v - u \in Nat /\ n * (v - u) = n * v - n * u
    BY <2>1, <2>3, SMT
  <2>5. y = x + n * (v - u)
    <3>1. n * u \in Nat /\ n * v \in Nat
      BY <2>1, SMT
    <3> QED
      BY <2>1, <2>2, <2>4, <3>1
  <2> QED
    BY <2>4, <2>5
<1> QED
  BY <1>1, <1>2

\* A summand may be replaced by its remainder.
LEMMA ModAdd ==
  ASSUME NEW n \in Nat \ {0}, NEW x \in Nat, NEW y \in Nat
  PROVE  ((x % n) + y) % n = (x + y) % n
<1> DEFINE r == x % n
           u == x \div n
<1>1. u \in Nat /\ r \in 0..(n - 1) /\ x = n * u + r
  BY DivMod
<1> HIDE DEF r, u
<1> DEFINE z == r + y
<1>2. z \in Nat /\ x + y = z + n * u
  <2>1. n * u \in Nat
    BY <1>1, SMT
  <2> QED
    BY <1>1, <2>1
<1> HIDE DEF z
<1>3. n \in Nat \ {0} /\ u \in Nat /\ z \in Nat
  BY <1>1, <1>2
<1>4. (z + n * u) % n = z % n
  BY ONLY <1>3, AddMultiple
<1>5. (x + y) % n = z % n
  BY <1>2, <1>4
<1> QED
  BY <1>5 DEF z, r

\* A factor may be replaced by its remainder.
LEMMA ModMul ==
  ASSUME NEW n \in Nat \ {0}, NEW x \in Nat, NEW y \in Nat
  PROVE  ((x % n) * y) % n = (x * y) % n
<1> DEFINE r == x % n
           u == x \div n
<1>1. u \in Nat /\ r \in 0..(n - 1) /\ x = n * u + r
  BY DivMod
<1> HIDE DEF r, u
<1> DEFINE z == r * y
           w == u * y
<1>2. z \in Nat /\ w \in Nat /\ x * y = z + n * w
  BY <1>1, SMT
<1> HIDE DEF z, w
<1>3. n \in Nat \ {0}
  OBVIOUS
<1>4. (z + n * w) % n = z % n
  BY ONLY <1>2, <1>3, AddMultiple
<1>5. (x * y) % n = z % n
  BY <1>2, <1>4
<1> QED
  BY <1>5 DEF z, r

\* The same may be taken away from both sides.
LEMMA ModCancel ==
  ASSUME NEW n \in Nat \ {0}, NEW x \in Nat, NEW y \in Nat, NEW a \in Nat, NEW b \in Nat,
         x <= a, a - x = b - y, a % n = b % n
  PROVE  x % n = y % n
<1> DEFINE z == a - x
<1>0. z \in Nat /\ a = x + z /\ b = y + z
  OBVIOUS
<1> HIDE DEF z
<1>1. ASSUME NEW u \in Nat, NEW v \in Nat, u <= v, (u + z) % n = (v + z) % n
      PROVE  u % n = v % n
  <2> DEFINE uz == u + z
             vz == v + z
  <2>1. uz \in Nat /\ vz \in Nat /\ uz <= vz /\ uz % n = vz % n
    BY <1>0, <1>1
  <2> HIDE DEF uz, vz
  <2>2. PICK k \in Nat : vz = uz + n * k
    BY <2>1, EqualRemainders
  <2>3. v = u + n * k
    <3>1. n * k \in Nat
      BY SMT
    <3> QED
      BY <1>0, <2>2, <3>1 DEF uz, vz
  <2> QED
    BY <1>1, <2>3, EqualRemainders
<1>2. CASE x <= y
  BY <1>0, <1>1, <1>2
<1>3. CASE y <= x
  BY <1>0, <1>1, <1>3
<1> QED
  BY <1>2, <1>3

\* What is not 0 has an inverse modulo a prime.
LEMMA PrimeInverse ==
  ASSUME NEW p \in Nat, p > 1, \A d \in 2..(p - 1) : p % d # 0,
         NEW a \in 1..(p - 1)
  PROVE  \E i \in 1..(p - 1) : (a * i) % p = 1
<1> DEFINE L == {d \in 1..(p - 1) : \E i \in Nat : (a * i) % p = d}
<1>1. a \in L
  <2>1. a * 1 = a /\ a % p = a
    BY SmallMod
  <2> QED
    BY <2>1
<1>2. PICK d \in L : \A e \in L : d <= e
  <2>1. L \subseteq Nat
    BY DEF L
  <2> HIDE DEF L
  <2>2. L # {}
    BY ONLY <1>1
  <2> QED
    BY ONLY <2>1, <2>2, SmallestElement
<1>3. d \in 1..(p - 1)
  OBVIOUS
<1>4. PICK i \in Nat : (a * i) % p = d
  OBVIOUS
<1>5. d = 1
  <2>1. ASSUME d # 1
        PROVE  FALSE
    <3> DEFINE u == p \div d
               v == p % d
    <3>1. v # 0 /\ d \in Nat \ {0}
      BY <1>3, <2>1
    <3>2. u \in Nat /\ v \in 0..(d - 1) /\ p = d * u + v
      BY <3>1, DivMod
    <3> HIDE DEF u, v
    <3> DEFINE w == (p - 1) * u
               du == d * u
    <3>3. w \in Nat /\ du \in Nat /\ du >= 1
      BY <1>3, <3>2, SMT
    <3>4. d * w = v + p * (du - 1)
      <4>1. d * w = p * du - du
        BY <1>3, <3>2, SMT
      <4>2. p * (du - 1) = p * du - p
        BY <3>3, SMT
      <4>3. p * du \in Nat
        BY <3>3, SMT
      <4> QED
        BY <3>2, <3>3, <4>1, <4>2, <4>3
    <3> HIDE DEF w, du
    <3>5. (d * w) % p = v
      <4>1. du - 1 \in Nat /\ v \in 0..(p - 1)
        BY <1>3, <3>2, <3>3
      <4> DEFINE m == du - 1
      <4>2. v \in Nat /\ m \in Nat /\ p \in Nat \ {0}
        BY <4>1
      <4> HIDE DEF m
      <4>3. (v + p * m) % p = v % p
        BY ONLY <4>2, AddMultiple
      <4>4. v % p = v
        BY ONLY <4>1, <4>2, SmallMod
      <4> QED
        BY <3>4, <4>3, <4>4 DEF m
    <3>6. (a * (i * w)) % p = v
      <4> DEFINE ai == a * i
      <4>1. ai \in Nat /\ a * (i * w) = ai * w /\ ai % p = d
        BY <1>4, <3>3, SMT
      <4> HIDE DEF ai
      <4>2. ai \in Nat /\ w \in Nat /\ p \in Nat \ {0}
        BY <3>3, <4>1
      <4>3. ((ai % p) * w) % p = (ai * w) % p
        BY ONLY <4>2, ModMul
      <4> QED
        BY <3>5, <4>1, <4>3
    <3>7. i * w \in Nat
      BY <3>3, SMT
    <3>8. v \in 1..(p - 1)
      BY <1>3, <3>1, <3>2
    <3>9. v \in L
      BY ONLY <3>6, <3>7, <3>8
    <3> HIDE DEF L
    <3>10. d <= v
      BY ONLY <1>2, <3>9
    <3> QED
      BY ONLY <1>3, <3>2, <3>8, <3>10
  <2> QED
    BY <2>1
<1> HIDE DEF L
<1>6. (a * (i % p)) % p = 1
  <2> DEFINE j == i % p
  <2>1. j \in Nat /\ a * j = j * a /\ a * i = i * a
    BY DivMod, SMT
  <2>2. (j * a) % p = (i * a) % p
    <3>1. p \in Nat \ {0} /\ i \in Nat /\ a \in Nat
      OBVIOUS
    <3> QED
      BY ONLY <3>1, ModMul
  <2> QED
    BY <1>4, <1>5, <2>1, <2>2
<1>7. i % p \in 0..(p - 1)
  BY DivMod
<1>8. i % p # 0
  <2>1. ASSUME i % p = 0
        PROVE  FALSE
    <3>1. a * (i % p) = 0 /\ 0 % p = 0
      BY <2>1, SmallMod
    <3> QED
      BY <1>6, <3>1
  <2> QED
    BY <2>1
<1> DEFINE j == i % p
<1>9. j \in 1..(p - 1) /\ (a * j) % p = 1
  BY <1>6, <1>7, <1>8
<1> HIDE DEF j
<1> QED
  BY ONLY <1>9

\* There is a function of sums, and its values are numbers.
LEMMA PartialSums ==
  ASSUME NEW N \in Nat, NEW c \in [1..N -> Nat]
  PROVE  /\ \E f : f = [i \in 0..N |-> IF i = 0 THEN 0 ELSE f[i - 1] + c[i]]
         /\ \A f : f = [i \in 0..N |-> IF i = 0 THEN 0 ELSE f[i - 1] + c[i]] => f[N] \in Nat
<1> DEFINE Sums(g, k) == /\ g \in [0..k -> Nat]
                         /\ \A i \in 0..k : g[i] = IF i = 0 THEN 0 ELSE g[i - 1] + c[i]
           L == {k \in 0..N : ~\E g : Sums(g, k)}
<1>1. ASSUME L # {}
      PROVE  FALSE
  <2>1. PICK x \in L : \A y \in L : x <= y
    <3>1. L \subseteq Nat
      OBVIOUS
    <3> HIDE DEF L
    <3> QED
      BY ONLY <1>1, <3>1, SmallestElement
  <2>2. x \in 0..N /\ ~\E g : Sums(g, x)
    OBVIOUS
  <2>3. x # 0
    <3>1. ASSUME x = 0
          PROVE  FALSE
      <4>1. Sums([i \in 0..0 |-> 0], 0)
        OBVIOUS
      <4> HIDE DEF Sums
      <4> QED
        BY <2>2, <3>1, <4>1
    <3> QED
      BY <3>1
  <2>4. x - 1 \in 0..N /\ ~ (x <= x - 1)
    BY <2>2, <2>3
  <2>5. PICK g : Sums(g, x - 1)
    <3> HIDE DEF Sums
    <3> QED
      BY <2>1, <2>4
  <2> DEFINE h == [i \in 0..x |-> IF i = x THEN g[x - 1] + c[x] ELSE g[i]]
  <2>6. g[x - 1] \in Nat /\ c[x] \in Nat
    BY <2>2, <2>3, <2>5
  <2>7. h \in [0..x -> Nat]
    BY <2>2, <2>5, <2>6
  <2>8. ASSUME NEW i \in 0..x
        PROVE  h[i] = IF i = 0 THEN 0 ELSE h[i - 1] + c[i]
    <3>1. CASE i = x
      BY <2>2, <2>3, <3>1
    <3>2. CASE i # x
      BY <2>2, <2>5, <3>2
    <3> QED
      BY <3>1, <3>2
  <2>9. Sums(h, x)
    <3> HIDE DEF h
    <3> QED
      BY <2>7, <2>8
  <2> HIDE DEF Sums
  <2> QED
    BY <2>2, <2>9
<1>2. PICK g : Sums(g, N)
  <2>1. N \in 0..N /\ N \notin L
    <3> HIDE DEF L
    <3> QED
      BY <1>1
  <2> HIDE DEF Sums
  <2> QED
    BY <2>1
<1>3. g = [i \in 0..N |-> IF i = 0 THEN 0 ELSE g[i - 1] + c[i]]
  BY <1>2
<1>4. ASSUME NEW f, f = [i \in 0..N |-> IF i = 0 THEN 0 ELSE f[i - 1] + c[i]]
      PROVE  f[N] \in Nat
  <2> DEFINE M == {i \in 0..N : f[i] \notin Nat}
  <2>1. ASSUME M # {}
        PROVE  FALSE
    <3>1. PICK x \in M : \A y \in M : x <= y
      <4>1. M \subseteq Nat
        OBVIOUS
      <4> HIDE DEF M
      <4> QED
        BY ONLY <2>1, <4>1, SmallestElement
    <3>2. x \in 0..N /\ f[x] \notin Nat /\ f[x] = IF x = 0 THEN 0 ELSE f[x - 1] + c[x]
      <4>1. x \in 0..N /\ f[x] \notin Nat
        OBVIOUS
      <4> QED
        BY ONLY <1>4, <4>1
    <3>3. x # 0
      BY <3>2
    <3>4. x - 1 \in 0..N /\ ~ (x <= x - 1) /\ c[x] \in Nat
      BY <3>2, <3>3
    <3>5. f[x - 1] \in Nat
      BY ONLY <3>1, <3>4
    <3> QED
      BY <3>2, <3>3, <3>4, <3>5
  <2> QED
    BY <2>1
<1> QED
  BY <1>3, <1>4

\* A set with lo that holds i when it holds what is before i holds lo..N.
LEMMA CountingInduction ==
  ASSUME NEW lo \in Nat, NEW N \in Nat, NEW L, lo \in L,
         \A i \in (lo + 1)..N : (\A j \in lo..(i - 1) : j \in L) => i \in L
  PROVE  \A i \in lo..N : i \in L
<1> DEFINE M == {i \in lo..N : i \notin L}
<1>1. ASSUME M # {}
      PROVE  FALSE
  <2>1. M \subseteq Nat
    OBVIOUS
  <2>2. PICK x \in M : \A y \in M : x <= y
    <3> HIDE DEF M
    <3> QED
      BY ONLY <1>1, <2>1, SmallestElement
  <2>3. x \in lo..N /\ x \notin L
    OBVIOUS
  <2>4. x \in (lo + 1)..N
    BY <2>3
  <2>5. ASSUME NEW j \in lo..(x - 1)
        PROVE  j \in L
    <3>1. j \in lo..N /\ ~ (x <= j)
      BY <2>3
    <3> QED
      BY <2>2, <3>1
  <2> QED
    BY <2>3, <2>4, <2>5
<1> QED
  BY <1>1

\* There is a function that starts with x0, and whose value in i is found from
\* the one in prev[i].
Definable(lo, N, V, x0, F, prev) ==
  \E f \in [lo..N -> V] : f[lo] = x0 /\ \A i \in (lo + 1)..N : f[i] = F[<<i, f[prev[i]]>>]

\* A function defined by recursion on smaller numbers exists.
LEMMA RecursionExists ==
  ASSUME NEW lo \in Nat, NEW N \in Nat, lo <= N, NEW V, NEW x0 \in V,
         NEW F \in [((lo + 1)..N) \X V -> V],
         NEW prev, \A i \in (lo + 1)..N : prev[i] \in lo..(i - 1)
  PROVE  Definable(lo, N, V, x0, F, prev)
<1> DEFINE Found(k) == \E f \in [lo..k -> V] :
             f[lo] = x0 /\ \A i \in (lo + 1)..k : f[i] = F[<<i, f[prev[i]]>>]
           L == {k \in lo..N : Found(k)}
<1>1. lo \in L
  <2> DEFINE f == [i \in lo..lo |-> x0]
  <2>1. f \in [lo..lo -> V] /\ f[lo] = x0 /\ \A i \in (lo + 1)..lo : f[i] = F[<<i, f[prev[i]]>>]
    OBVIOUS
  <2>2. Found(lo)
    <3> HIDE DEF f
    <3> QED
      BY <2>1
  <2> QED
    BY <2>2
<1>2. ASSUME NEW x \in (lo + 1)..N, \A j \in lo..(x - 1) : j \in L
      PROVE  x \in L
  <2>1. PICK f \in [lo..(x - 1) -> V] :
          f[lo] = x0 /\ \A i \in (lo + 1)..(x - 1) : f[i] = F[<<i, f[prev[i]]>>]
    <3>1. x - 1 \in L
      <4>1. x - 1 \in lo..(x - 1)
        OBVIOUS
      <4> HIDE DEF L
      <4> QED
        BY <1>2, <4>1
    <3> QED
      BY <3>1
  <2> DEFINE y == F[<<x, f[prev[x]]>>]
             g == [i \in lo..x |-> IF i = x THEN y ELSE f[i]]
  <2>2. y \in V
    <3>1. prev[x] \in lo..(x - 1)
      OBVIOUS
    <3>2. f[prev[x]] \in V
      BY <3>1
    <3> QED
      BY <3>2
  <2> HIDE DEF y
  <2>3. g \in [lo..x -> V] /\ g[lo] = x0
    BY <2>1, <2>2
  <2>4. ASSUME NEW i \in (lo + 1)..x
        PROVE  g[i] = F[<<i, g[prev[i]]>>]
    <3>1. prev[i] \in lo..(i - 1) /\ i \in lo..x /\ prev[i] \in lo..(x - 1)
      OBVIOUS
    <3>2. g[prev[i]] = f[prev[i]]
      BY <3>1
    <3>3. CASE i = x
      BY <3>1, <3>2, <3>3 DEF y
    <3>4. CASE i # x
      <4>1. g[i] = f[i] /\ i \in (lo + 1)..(x - 1)
        BY <3>1, <3>4
      <4> HIDE DEF g
      <4> QED
        BY <2>1, <3>2, <4>1
    <3> QED
      BY <3>3, <3>4
  <2>5. Found(x)
    <3> HIDE DEF g
    <3> QED
      BY <2>3, <2>4
  <2> HIDE DEF Found
  <2> QED
    BY <2>5
<1>3. N \in L
  <2>1. \A i \in lo..N : i \in L
    <3> HIDE DEF L
    <3> QED
      BY ONLY <1>1, <1>2, lo \in Nat, N \in Nat, CountingInduction
  <2> HIDE DEF L
  <2> QED
    BY <2>1
<1> QED
  BY <1>3 DEF Definable
=============================================================================
