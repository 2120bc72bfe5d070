------------------------------ MODULE CurveLemmas ------------------------------
(***************************************************************************)
(* The field and the formulas of Curve: what the operations on elements    *)
(* compute, in both forms, and which points the formulas give.             *)
(***************************************************************************)
EXTENDS Curve, NumberLemmas

-----------------------------------------------------------------------------
(* Congruence modulo p.                                                      *)

Cong(x, y) == x % p = y % p

LEMMA PBounds == p \in Nat /\ p > 3 /\ p \in Nat \ {0} /\ R \in Nat /\ R % p # 0
BY FieldAssumption

\* A remainder of any integer is a residue.
LEMMA ModInt ==
  ASSUME NEW x \in Int
  PROVE  x % p \in Field /\ x \div p \in Int /\ x = p * (x \div p) + (x % p)
<1>1. p \in Nat \ {0}
  BY PBounds
<1> QED
  BY <1>1 DEF Field

\* Quotient and remainder of any integer are determined.
LEMMA ModUnique ==
  ASSUME NEW x \in Int, NEW k \in Int, NEW r \in Field, x = p * k + r
  PROVE  x % p = r
<1>1. p \in Nat \ {0}
  BY PBounds
<1> QED
  BY <1>1 DEF Field

\* Congruent integers differ by a multiple of p.
LEMMA CongMeans ==
  ASSUME NEW x \in Int, NEW y \in Int
  PROVE  Cong(x, y) <=> \E k \in Int : x = y + p * k
<1> DEFINE r == y % p
           m == y \div p
           n == x \div p
<1>0. p \in Nat
  BY PBounds
<1>1. r \in Field /\ m \in Int /\ y = p * m + r /\ n \in Int /\ x = p * n + (x % p) /\ r \in Int
  BY ModInt DEF Field
<1> HIDE DEF r, m, n
<1>2. ASSUME NEW k \in Int, x = y + p * k
      PROVE  x % p = r
  <2>1. x = p * (m + k) + r /\ m + k \in Int
    BY <1>0, <1>1, <1>2
  <2> QED
    BY ONLY <1>1, <2>1, x \in Int, ModUnique
<1>3. ASSUME x % p = r
      PROVE  \E k \in Int : x = y + p * k
  <2>1. x = y + p * (n - m) /\ n - m \in Int
    BY <1>0, <1>1, <1>3
  <2> QED
    BY <2>1
<1> QED
  BY <1>2, <1>3 DEF Cong, r

LEMMA CongOf ==
  ASSUME NEW x \in Int, NEW y \in Int, NEW k \in Int, x = y + p * k
  PROVE  Cong(x, y)
BY CongMeans

\* Congruence is a congruence.
LEMMA CongAdd ==
  ASSUME NEW x \in Int, NEW y \in Int, NEW u \in Int, NEW v \in Int, Cong(x, y), Cong(u, v)
  PROVE  Cong(x + u, y + v)
<1>0. p \in Nat
  BY PBounds
<1>1. PICK k \in Int : x = y + p * k
  BY CongMeans
<1>2. PICK l \in Int : u = v + p * l
  BY CongMeans
<1>3. x + u = (y + v) + p * (k + l) /\ k + l \in Int /\ x + u \in Int /\ y + v \in Int
  BY <1>0, <1>1, <1>2
<1> QED
  BY ONLY <1>3, CongOf

LEMMA CongSub ==
  ASSUME NEW x \in Int, NEW y \in Int, NEW u \in Int, NEW v \in Int, Cong(x, y), Cong(u, v)
  PROVE  Cong(x - u, y - v)
<1>0. p \in Nat
  BY PBounds
<1>1. PICK k \in Int : x = y + p * k
  BY CongMeans
<1>2. PICK l \in Int : u = v + p * l
  BY CongMeans
<1>3. x - u = (y - v) + p * (k - l) /\ k - l \in Int /\ x - u \in Int /\ y - v \in Int
  BY <1>0, <1>1, <1>2
<1> QED
  BY ONLY <1>3, CongOf

LEMMA CongMul ==
  ASSUME NEW x \in Int, NEW y \in Int, NEW u \in Int, NEW v \in Int, Cong(x, y), Cong(u, v)
  PROVE  Cong(x * u, y * v)
<1>0. p \in Nat
  BY PBounds
<1>1. PICK k \in Int : x = y + p * k
  BY CongMeans
<1>2. PICK l \in Int : u = v + p * l
  BY CongMeans
<1>3. x * u = (y * v) + p * (k * v + y * l + p * k * l)
  BY <1>0, <1>1, <1>2
<1>4. k * v + y * l + p * k * l \in Int /\ x * u \in Int /\ y * v \in Int
  BY <1>0, <1>1, <1>2
<1> QED
  BY ONLY <1>3, <1>4, CongOf

LEMMA CongMod ==
  ASSUME NEW x \in Int
  PROVE  x % p \in Field /\ x % p \in Int /\ Cong(x % p, x) /\ Cong(x, x % p)
<1>1. x % p \in Field /\ x \div p \in Int /\ x = p * (x \div p) + (x % p)
  BY ModInt
<1>2. x % p \in Int
  BY <1>1 DEF Field
<1> DEFINE m == x \div p
           r == x % p
<1> HIDE DEF m
<1>3. x = r + p * m /\ m \in Int /\ r \in Int
  BY <1>1, <1>2, PBounds DEF m
<1>4. Cong(x, r)
  BY ONLY <1>3, x \in Int, CongOf
<1> QED
  BY <1>1, <1>2, <1>4 DEF Cong

\* Residues are congruent only if they are equal.
LEMMA CongField ==
  ASSUME NEW x \in Field, NEW y \in Field, Cong(x, y)
  PROVE  x = y
<1>1. \A z \in Field : z % p = z
  <2>1. \A z \in Field : z \in Int /\ 0 \in Int /\ z = p * 0 + z
    BY PBounds DEF Field
  <2> QED
    BY ONLY <2>1, ModUnique
<1> QED
  BY <1>1 DEF Cong

\* What is not 0 modulo p has an inverse.
LEMMA InverseOf ==
  ASSUME NEW x \in Int, ~Cong(x, 0)
  PROVE  /\ x % p \in 1..(p - 1) /\ Inverse[x % p] \in 1..(p - 1)
         /\ Inverse[x % p] \in Field /\ Inverse[x % p] \in Int
         /\ Cong(x * Inverse[x % p], 1)
<1> DEFINE e == x % p
           i == Inverse[e]
<1>1. e \in Field /\ Cong(x, e)
  BY CongMod
<1>2. e \in 1..(p - 1)
  <2>1. 0 % p = 0
    BY PBounds
  <2>2. e # 0
    BY <2>1 DEF Cong
  <2> QED
    BY <1>1, <2>2, PBounds DEF Field
<1> HIDE DEF e
<1>3. \E j \in 1..(p - 1) : (e * j) % p = 1
  <2>1. p \in Nat /\ p > 1 /\ \A d \in 2..(p - 1) : p % d # 0
    BY FieldAssumption
  <2> QED
    BY ONLY <1>2, <2>1, PrimeInverse
<1>4. i = CHOOSE j \in 1..(p - 1) : (e * j) % p = 1
  BY <1>2 DEF Inverse
<1>5. i \in 1..(p - 1) /\ (e * i) % p = 1
  BY ONLY <1>3, <1>4
<1> HIDE DEF i
<1>6. Cong(e * i, 1)
  <2>1. 1 % p = 1
    BY PBounds
  <2> QED
    BY <1>5, <2>1 DEF Cong
<1>7. e \in Int /\ i \in Int /\ i \in Field
  BY <1>2, <1>5, PBounds DEF Field
<1>8. Cong(i, i)
  BY DEF Cong
<1>9. Cong(x * i, e * i)
  BY ONLY <1>1, <1>7, <1>8, x \in Int, CongMul
<1>10. Cong(x * i, 1)
  BY <1>6, <1>9 DEF Cong
<1> QED
  BY <1>2, <1>5, <1>7, <1>10 DEF e, i

\* A factor that is not 0 modulo p can be cancelled.
LEMMA CongCancel ==
  ASSUME NEW x \in Int, NEW y \in Int, NEW z \in Int, ~Cong(z, 0), Cong(x * z, y * z)
  PROVE  Cong(x, y)
<1> DEFINE i == Inverse[z % p]
<1>1. i \in Int /\ Cong(z * i, 1)
  BY InverseOf
<1> HIDE DEF i
<1>2. Cong((x * z) * i, (y * z) * i)
  <2>1. Cong(i, i) /\ x * z \in Int /\ y * z \in Int
    BY DEF Cong
  <2> QED
    BY ONLY <1>1, <2>1, Cong(x * z, y * z), CongMul
<1>3. \A v \in Int : Cong((v * z) * i, v)
  <2> TAKE v \in Int
  <2>1. Cong(v, v) /\ z * i \in Int /\ 1 \in Int
    BY <1>1 DEF Cong
  <2>2. Cong(v * (z * i), v * 1)
    BY ONLY <1>1, <2>1, v \in Int, CongMul
  <2>3. v * (z * i) = (v * z) * i /\ v * 1 = v
    BY <1>1
  <2> QED
    BY <2>2, <2>3
<1> QED
  BY <1>2, <1>3 DEF Cong

\* A product is 0 modulo p only if a factor is.
LEMMA CongZero ==
  ASSUME NEW x \in Int, NEW y \in Int, Cong(x * y, 0)
  PROVE  Cong(x, 0) \/ Cong(y, 0)
<1>1. ASSUME ~Cong(y, 0)
      PROVE  Cong(x, 0)
  <2>1. 0 * y = 0 /\ 0 \in Int
    OBVIOUS
  <2> QED
    BY ONLY <1>1, <2>1, Cong(x * y, 0), x \in Int, y \in Int, CongCancel
<1> QED
  BY <1>1

-----------------------------------------------------------------------------
(* Elements in either form.                                                  *)

\* What 1 is in a form.
Unit(form) == IF form = "monty" THEN R ELSE 1

\* The element e stands for the integer x in the form.
Rep(form, e, x) == e \in Elements /\ x \in Int /\ Cong(e, x * Unit(form))

LEMMA UnitNotZero ==
  ASSUME NEW form \in Forms
  PROVE  Unit(form) \in Int /\ Unit(form) \in Nat /\ ~Cong(Unit(form), 0)
<1>1. 0 % p = 0 /\ 1 % p = 1 /\ R \in Nat /\ R % p # 0
  BY PBounds
<1> QED
  BY <1>1 DEF Unit, Cong, Forms

LEMMA ElementsInt == Elements \subseteq Int /\ Field \subseteq Elements /\ Field \subseteq Int
BY PBounds DEF Elements, Field

\* Sums.
LEMMA RepAdd ==
  ASSUME NEW form \in Forms, NEW e, NEW f, NEW x, NEW y, Rep(form, e, x), Rep(form, f, y)
  PROVE  Rep(form, fp_add(e, f), x + y)
<1> DEFINE u == Unit(form)
           s == fp_add(e, f)
<1>1. /\ e \in Elements /\ f \in Elements /\ x \in Int /\ y \in Int
      /\ Cong(e, x * u) /\ Cong(f, y * u) /\ u \in Int /\ p \in Nat
  BY UnitNotZero, PBounds DEF Rep
<1> HIDE DEF u
<1>2. s \in Elements /\ s \in Int /\ \E k \in Int : s = (e + f) + p * k
  <2>1. s \in Elements /\ s \in Int
    BY <1>1 DEF fp_add, Elements
  <2>2. s = (e + f) + p * 0 \/ s = (e + f) + p * (-1)
    BY <1>1 DEF fp_add, Elements
  <2> QED
    BY <2>1, <2>2
<1> HIDE DEF s
<1>3. e \in Int /\ f \in Int /\ x * u \in Int /\ y * u \in Int /\ e + f \in Int
  BY <1>1, ElementsInt
<1>4. Cong(s, e + f)
  BY ONLY <1>2, <1>3, CongOf
<1>5. Cong(e + f, x * u + y * u)
  BY ONLY <1>1, <1>3, CongAdd
<1>6. x * u + y * u = (x + y) * u /\ x + y \in Int
  BY <1>1
<1>7. Cong(s, (x + y) * u)
  BY <1>4, <1>5, <1>6 DEF Cong
<1> QED
  BY <1>2, <1>6, <1>7 DEF Rep, s, u

\* Differences.
LEMMA RepSub ==
  ASSUME NEW form \in Forms, NEW e, NEW f, NEW x, NEW y, Rep(form, e, x), Rep(form, f, y)
  PROVE  Rep(form, fp_sub(e, f), x - y)
<1> DEFINE u == Unit(form)
           s == fp_sub(e, f)
<1>1. /\ e \in Elements /\ f \in Elements /\ x \in Int /\ y \in Int
      /\ Cong(e, x * u) /\ Cong(f, y * u) /\ u \in Int /\ p \in Nat
  BY UnitNotZero, PBounds DEF Rep
<1> HIDE DEF u
<1>2. s \in Elements /\ s \in Int /\ \E k \in Int : s = (e - f) + p * k
  <2>1. s \in Elements /\ s \in Int
    BY <1>1 DEF fp_sub, Elements
  <2>2. s = (e - f) + p * 0 \/ s = (e - f) + p * 1
    BY <1>1 DEF fp_sub, Elements
  <2> QED
    BY <2>1, <2>2
<1> HIDE DEF s
<1>3. e \in Int /\ f \in Int /\ x * u \in Int /\ y * u \in Int /\ e - f \in Int
  BY <1>1, ElementsInt
<1>4. Cong(s, e - f)
  BY ONLY <1>2, <1>3, CongOf
<1>5. Cong(e - f, x * u - y * u)
  BY ONLY <1>1, <1>3, CongSub
<1>6. x * u - y * u = (x - y) * u /\ x - y \in Int
  BY <1>1
<1>7. Cong(s, (x - y) * u)
  BY <1>4, <1>5, <1>6 DEF Cong
<1> QED
  BY <1>2, <1>6, <1>7 DEF Rep, s, u

\* Products.
LEMMA RepMul ==
  ASSUME NEW form \in Forms, NEW e, NEW f, NEW x, NEW y, Rep(form, e, x), Rep(form, f, y)
  PROVE  Rep(form, Mul(form, e, f), x * y) /\ Mul(form, e, f) \in Field
<1> DEFINE u == Unit(form)
           s == Mul(form, e, f)
           i == Inverse[R % p]
<1>1. /\ e \in Int /\ f \in Int /\ x \in Int /\ y \in Int
      /\ Cong(e, x * u) /\ Cong(f, y * u) /\ u \in Int /\ p \in Nat /\ R \in Int
  BY UnitNotZero, PBounds, ElementsInt DEF Rep
<1>2. i \in Int /\ Cong(R * i, 1)
  <2>1. ~Cong(R, 0)
    BY PBounds DEF Cong
  <2> QED
    BY <1>1, <2>1, InverseOf
<1>3. e * f \in Int /\ (x * u) \in Int /\ (y * u) \in Int /\ x * y \in Int
  BY <1>1
<1>4. Cong(e * f, (x * u) * (y * u)) /\ (x * u) * (y * u) \in Int
  <2> HIDE DEF u
  <2>1. (x * u) * (y * u) \in Int
    BY <1>3
  <2> QED
    BY ONLY <1>1, <1>3, <2>1, CongMul
<1>5. s \in Field /\ Cong(s, (x * y) * u)
  <2>1. CASE form = "monty"
    <3>1. u = R /\ s = (e * f * i) % p
      BY <2>1 DEF Unit, Mul, fp_mul_redc1
    <3> HIDE DEF u, s, i
    <3>2. e * f * i \in Int
      BY <1>2, <1>3
    <3>3. s \in Field /\ Cong(s, e * f * i)
      BY ONLY <3>1, <3>2, CongMod
    <3>4. Cong(i, i) /\ Cong(x * y * R, x * y * R)
      BY DEF Cong
    <3>5. Cong((e * f) * i, ((x * R) * (y * R)) * i)
      BY ONLY <1>2, <1>3, <1>4, <3>1, <3>4, CongMul
    <3>6. ((x * R) * (y * R)) * i = (x * y * R) * (R * i) /\ x * y * R \in Int /\ R * i \in Int
      BY <1>1, <1>2
    <3>7. Cong((x * y * R) * (R * i), (x * y * R) * 1) /\ (x * y * R) * 1 = (x * y) * u
      <4>1. 1 \in Int /\ (x * y * R) * 1 = (x * y) * R
        BY <1>1
      <4> QED
        BY ONLY <1>2, <3>1, <3>4, <3>6, <4>1, CongMul
    <3> QED
      BY <3>3, <3>5, <3>6, <3>7 DEF Cong
  <2>2. CASE form = "plain"
    <3>1. u = 1 /\ s = (e * f) % p
      BY <2>2 DEF Unit, Mul, fp_mul
    <3>2. s \in Field /\ Cong(s, e * f)
      BY ONLY <1>3, <3>1, CongMod
    <3>3. (x * 1) * (y * 1) = (x * y) * 1
      BY <1>1
    <3> QED
      BY <1>4, <3>1, <3>2, <3>3 DEF Cong
  <2> QED
    BY <2>1, <2>2 DEF Forms
<1>6. s \in Elements
  BY <1>5, ElementsInt
<1> QED
  BY <1>3, <1>5, <1>6 DEF Rep, s, u

\* Every element stands for an integer, in either form.
LEMMA RepExists ==
  ASSUME NEW form \in Forms, NEW e \in Elements
  PROVE  \E x \in Field : Rep(form, e, x)
<1> DEFINE u == Unit(form)
           i == Inverse[u % p]
           x == (e * i) % p
<1>1. e \in Int /\ u \in Int /\ i \in Int /\ Cong(u * i, 1)
  BY UnitNotZero, ElementsInt, InverseOf
<1> HIDE DEF u, i
<1>2. e * i \in Int
  BY <1>1
<1>3. x \in Field /\ x \in Int /\ Cong(x, e * i)
  BY ONLY <1>2, CongMod
<1> HIDE DEF x
<1>4. Cong(u, u) /\ Cong(e, e)
  BY DEF Cong
<1>5. Cong(x * u, (e * i) * u)
  BY ONLY <1>1, <1>2, <1>3, <1>4, CongMul
<1>6. (e * i) * u = e * (u * i) /\ u * i \in Int /\ e * 1 = e /\ 1 \in Int
  BY <1>1
<1>7. Cong(e * (u * i), e * 1)
  BY ONLY <1>1, <1>4, <1>6, CongMul
<1>8. Cong(e, x * u)
  BY <1>5, <1>6, <1>7 DEF Cong
<1> QED
  BY <1>3, <1>8 DEF Rep, u

\* Elements stand for congruent integers only if they are congruent.
LEMMA RepCong ==
  ASSUME NEW form \in Forms, NEW e, NEW f, NEW x, NEW y, Rep(form, e, x), Rep(form, f, y)
  PROVE  Cong(x, y) <=> Cong(e, f)
<1> DEFINE u == Unit(form)
<1>1. /\ x \in Int /\ y \in Int /\ Cong(e, x * u) /\ Cong(f, y * u) /\ u \in Int /\ ~Cong(u, 0)
  BY UnitNotZero DEF Rep
<1> HIDE DEF u
<1>2. Cong(u, u)
  BY DEF Cong
<1>3. ASSUME Cong(x, y)
      PROVE  Cong(x * u, y * u)
  BY ONLY <1>1, <1>2, <1>3, CongMul
<1>4. ASSUME Cong(x * u, y * u)
      PROVE  Cong(x, y)
  BY ONLY <1>1, <1>4, CongCancel
<1> QED
  BY <1>1, <1>3, <1>4 DEF Cong

\* Of the residues only 0 stands for 0.
LEMMA RepZero ==
  ASSUME NEW form \in Forms, NEW e \in Field, NEW x, Rep(form, e, x)
  PROVE  e = 0 <=> Cong(x, 0)
<1>1. 0 \in Field /\ 0 \in Elements /\ 0 \in Int
  BY PBounds, ElementsInt DEF Field
<1>2. Rep(form, 0, 0)
  <2>1. 0 * Unit(form) = 0
    BY UnitNotZero
  <2> QED
    BY <1>1, <2>1 DEF Rep, Cong
<1>3. Cong(x, 0) <=> Cong(e, 0)
  BY <1>2, RepCong
<1> QED
  BY <1>1, <1>3, CongField DEF Cong

\* Sums and differences of residues are residues.
LEMMA FieldSums ==
  ASSUME NEW e \in Field, NEW f \in Field
  PROVE  fp_add(e, f) \in Field /\ fp_sub(e, f) \in Field
<1>1. p \in Nat /\ e \in 0..(p - 1) /\ f \in 0..(p - 1)
  BY PBounds DEF Field
<1>2. fp_add(e, f) \in 0..(p - 1)
  BY <1>1 DEF fp_add
<1>3. fp_sub(e, f) \in 0..(p - 1)
  BY <1>1 DEF fp_sub
<1> QED
  BY <1>2, <1>3 DEF Field
-----------------------------------------------------------------------------
(* Conversions between the forms.                                            *)

\* What an element stands for is known modulo p only.
LEMMA RepSame ==
  ASSUME NEW form \in Forms, NEW e, NEW x, NEW y \in Int, Rep(form, e, x), Cong(x, y)
  PROVE  Rep(form, e, y)
<1> DEFINE u == Unit(form)
<1>1. e \in Elements /\ x \in Int /\ Cong(e, x * u) /\ u \in Int /\ Cong(u, u)
  BY UnitNotZero DEF Rep, Cong
<1> HIDE DEF u
<1>2. Cong(x * u, y * u)
  BY ONLY <1>1, y \in Int, Cong(x, y), CongMul
<1> QED
  BY <1>1, <1>2 DEF Rep, Cong, u

\* A plain element stands for itself.
LEMMA RepPlain ==
  ASSUME NEW e \in Elements
  PROVE  /\ Rep("plain", e, e)
         /\ \A x \in Int : Rep("plain", e, x) <=> Cong(e, x)
<1>1. e \in Int /\ Unit("plain") = 1 /\ \A x \in Int : x * 1 = x
  BY ElementsInt DEF Unit
<1> QED
  BY <1>1 DEF Rep, Cong

\* A common form is of no importance to a product with a plain element.
LEMMA Redcify ==
  ASSUME NEW e, NEW x, Rep("plain", e, x)
  PROVE  fp_redcify(e) \in Field /\ Rep("monty", fp_redcify(e), x)
<1>1. e \in Elements /\ e \in Int /\ x \in Int /\ Cong(e, x) /\ R \in Int /\ Unit("monty") = R
  BY RepPlain, ElementsInt, PBounds DEF Rep, Unit
<1>2. Cong(e * R, x * R) /\ e * R \in Int
  <2>1. Cong(R, R)
    BY DEF Cong
  <2> QED
    BY ONLY <1>1, <2>1, CongMul
<1>3. fp_redcify(e) \in Field /\ Cong(fp_redcify(e), e * R)
  BY <1>2, CongMod DEF fp_redcify
<1> QED
  BY <1>1, <1>2, <1>3, ElementsInt DEF Rep, Cong

LEMMA Unredcify ==
  ASSUME NEW e, NEW x, Rep("monty", e, x)
  PROVE  fp_unredcify(e) \in Field /\ Rep("plain", fp_unredcify(e), x)
<1> DEFINE i == Inverse[R % p]
           s == fp_unredcify(e)
<1>1. e \in Elements /\ e \in Int /\ x \in Int /\ Cong(e, x * R) /\ R \in Int
  BY ElementsInt, PBounds DEF Rep, Unit
<1>2. i \in Int /\ Cong(R * i, 1) /\ Cong(i, i) /\ Cong(x, x)
  <2>1. ~Cong(R, 0)
    BY PBounds DEF Cong
  <2> QED
    BY <1>1, <2>1, InverseOf DEF Cong
<1>3. s = (e * i) % p
  <2>1. e * 1 = e
    BY <1>1
  <2> QED
    BY <2>1 DEF fp_unredcify, fp_mul_redc1
<1> HIDE DEF i, s
<1>4. e * i \in Int /\ x * R \in Int /\ R * i \in Int /\ 1 \in Int /\ x * 1 = x
      /\ (x * R) * i = x * (R * i)
  BY <1>1, <1>2
<1>5. s \in Field /\ Cong(s, e * i)
  BY ONLY <1>3, <1>4, CongMod
<1>6. Cong(e * i, (x * R) * i)
  BY ONLY <1>1, <1>2, <1>4, CongMul
<1>7. Cong(x * (R * i), x * 1)
  BY ONLY <1>1, <1>2, <1>4, CongMul
<1>8. Cong(s, x)
  BY <1>4, <1>5, <1>6, <1>7 DEF Cong
<1>9. s \in Elements
  BY <1>5, ElementsInt
<1> QED
  BY <1>1, <1>5, <1>8, <1>9, RepPlain DEF s

-----------------------------------------------------------------------------
(* The group law.                                                            *)

Pairs == Field \X Field

LEMMA PairsInt ==
  ASSUME NEW A \in Pairs
  PROVE  /\ A[1] \in Field /\ A[2] \in Field /\ A[1] \in Int /\ A[2] \in Int
         /\ A = <<A[1], A[2]>> /\ A # Infinity
<1>1. A[1] \in Field /\ A[2] \in Field /\ A = <<A[1], A[2]>>
  BY DEF Pairs
<1>2. \A x, y : <<x, y>> # Infinity
  BY DEF Infinity
<1> QED
  BY <1>1, <1>2, ElementsInt

\* C is where the line through A with slope l says that A + B is.
OnLine(A, B, C, l) ==
  /\ C \in Pairs /\ l \in Int
  /\ Cong(C[1], l * l - A[1] - B[1])
  /\ Cong(C[2], l * (A[1] - C[1]) - A[2])

\* A and B with different abscissas.
LEMMA PlusChord ==
  ASSUME NEW crv, NEW A \in Pairs, NEW B \in Pairs, A[1] # B[1]
  PROVE  \E l \in Int : /\ Cong(l * (B[1] - A[1]), B[2] - A[2])
                        /\ OnLine(A, B, Plus(crv, A, B), l)
<1> DEFINE d == B[1] - A[1]
           e == B[2] - A[2]
           i == Inverse[d % p]
           l == Slope(crv, A, B) % p
           q == l * l - A[1] - B[1]
           x == q % p
           r == l * (A[1] - x) - A[2]
<1>1. /\ A[1] \in Field /\ B[1] \in Field /\ A[1] \in Int /\ A[2] \in Int /\ B[1] \in Int /\ B[2] \in Int
      /\ A # B /\ A # Infinity /\ B # Infinity /\ d \in Int /\ e \in Int
  BY PairsInt
<1>2. ~Cong(d, 0)
  <2>1. ASSUME Cong(d, 0) PROVE FALSE
    <3>1. Cong(A[1], A[1]) /\ 0 \in Int /\ d + A[1] = B[1] /\ 0 + A[1] = A[1]
      BY <1>1 DEF Cong
    <3>2. Cong(d + A[1], 0 + A[1])
      BY ONLY <1>1, <2>1, <3>1, CongAdd
    <3> QED
      BY <1>1, <3>1, <3>2, CongField
  <2> QED
    BY <2>1
<1>3. i \in Int /\ Cong(d * i, 1) /\ Slope(crv, A, B) = e * i
  BY <1>1, <1>2, InverseOf DEF Slope
<1> HIDE DEF d, e, i
<1>4. e * i \in Int /\ e * 1 = e /\ (e * i) * d = e * (d * i) /\ d * i \in Int /\ 1 \in Int
  BY <1>1, <1>3
<1>5. l \in Field /\ l \in Int /\ Cong(l, e * i)
  BY ONLY <1>3, <1>4, CongMod
<1> HIDE DEF l
<1>6. Cong(l * d, e)
  <2>1. Cong(d, d) /\ Cong(e, e)
    BY DEF Cong
  <2>2. Cong(l * d, (e * i) * d)
    BY ONLY <1>1, <1>4, <1>5, <2>1, CongMul
  <2>3. Cong(e * (d * i), e * 1)
    BY ONLY <1>1, <1>3, <1>4, <2>1, CongMul
  <2> QED
    BY <1>4, <2>2, <2>3 DEF Cong
<1>7. q \in Int /\ l^2 = l * l
  BY <1>1, <1>5, PowersAssumption
<1> HIDE DEF q
<1>8. x \in Field /\ x \in Int /\ Cong(x, q)
  BY ONLY <1>7, CongMod
<1> HIDE DEF x
<1>9. r \in Int
  BY <1>1, <1>5, <1>8
<1>10. r % p \in Field /\ Cong(r % p, r)
  BY ONLY <1>9, CongMod
<1>11. Plus(crv, A, B) = <<x, r % p>>
  BY <1>1, <1>7 DEF Plus, l, x, q
<1>12. OnLine(A, B, <<x, r % p>>, l)
  BY <1>5, <1>8, <1>10 DEF OnLine, Pairs, q
<1> QED
  BY <1>5, <1>6, <1>11, <1>12 DEF d, e

\* A twice.
LEMMA PlusTangent ==
  ASSUME NEW crv, crv.a.plain \in Int, NEW A \in Pairs, ~Cong(2 * A[2], 0)
  PROVE  \E l \in Int : /\ Cong(l * (2 * A[2]), 3 * (A[1] * A[1]) + crv.a.plain)
                        /\ OnLine(A, A, Plus(crv, A, A), l)
<1> DEFINE d == 2 * A[2]
           e == 3 * (A[1] * A[1]) + crv.a.plain
           i == Inverse[d % p]
           l == Slope(crv, A, A) % p
           q == l * l - A[1] - A[1]
           x == q % p
           r == l * (A[1] - x) - A[2]
<1>1. /\ A[1] \in Field /\ A[1] \in Int /\ A[2] \in Int
      /\ A # Infinity /\ d \in Int /\ e \in Int /\ A[2] + A[2] = d
  BY PairsInt
<1>3. i \in Int /\ Cong(d * i, 1) /\ Slope(crv, A, A) = e * i
  <2>1. A[1]^2 = A[1] * A[1]
    BY <1>1, PowersAssumption
  <2> QED
    BY <1>1, <2>1, InverseOf DEF Slope
<1>2. (A[2] + A[2]) % p # 0
  <2>1. 0 % p = 0
    BY PBounds
  <2> QED
    BY <1>1, <2>1 DEF Cong
<1> HIDE DEF d, e, i
<1>4. e * i \in Int /\ e * 1 = e /\ (e * i) * d = e * (d * i) /\ d * i \in Int /\ 1 \in Int
  BY <1>1, <1>3
<1>5. l \in Field /\ l \in Int /\ Cong(l, e * i)
  BY ONLY <1>3, <1>4, CongMod
<1> HIDE DEF l
<1>6. Cong(l * d, e)
  <2>1. Cong(d, d) /\ Cong(e, e)
    BY DEF Cong
  <2>2. Cong(l * d, (e * i) * d)
    BY ONLY <1>1, <1>4, <1>5, <2>1, CongMul
  <2>3. Cong(e * (d * i), e * 1)
    BY ONLY <1>1, <1>3, <1>4, <2>1, CongMul
  <2> QED
    BY <1>4, <2>2, <2>3 DEF Cong
<1>7. q \in Int /\ l^2 = l * l
  BY <1>1, <1>5, PowersAssumption
<1> HIDE DEF q
<1>8. x \in Field /\ x \in Int /\ Cong(x, q)
  BY ONLY <1>7, CongMod
<1> HIDE DEF x
<1>9. r \in Int
  BY <1>1, <1>5, <1>8
<1>10. r % p \in Field /\ Cong(r % p, r)
  BY ONLY <1>9, CongMod
<1>11. Plus(crv, A, A) = <<x, r % p>>
  BY <1>1, <1>2, <1>7 DEF Plus, l, x, q
<1>12. OnLine(A, A, <<x, r % p>>, l)
  BY <1>5, <1>8, <1>10 DEF OnLine, Pairs, q
<1> QED
  BY <1>5, <1>6, <1>11, <1>12 DEF d, e
-----------------------------------------------------------------------------
(* Jacobian coordinates.                                                     *)

LEMMA MontyMul ==
  ASSUME NEW e, NEW f, NEW x, NEW y, Rep("monty", e, x), Rep("monty", f, y)
  PROVE  Rep("monty", fp_mul_redc1(e, f), x * y) /\ fp_mul_redc1(e, f) \in Field
<1>1. "monty" \in Forms /\ Mul("monty", e, f) = fp_mul_redc1(e, f)
  BY DEF Forms, Mul
<1> QED
  BY <1>1, RepMul

LEMMA MontyAdd ==
  ASSUME NEW e, NEW f, NEW x, NEW y, Rep("monty", e, x), Rep("monty", f, y)
  PROVE  Rep("monty", fp_add(e, f), x + y)
BY RepAdd DEF Forms

LEMMA MontySub ==
  ASSUME NEW e, NEW f, NEW x, NEW y, Rep("monty", e, x), Rep("monty", f, y)
  PROVE  Rep("monty", fp_sub(e, f), x - y)
BY RepSub DEF Forms

LEMMA MontySame ==
  ASSUME NEW e, NEW x, NEW y \in Int, Rep("monty", e, x), Cong(x, y)
  PROVE  Rep("monty", e, y)
BY RepSame DEF Forms

\* The operations of the form stay within the elements.
LEMMA ElementOps ==
  ASSUME NEW e \in Elements, NEW f \in Elements
  PROVE  fp_add(e, f) \in Elements /\ fp_sub(e, f) \in Elements /\ fp_mul_redc1(e, f) \in Elements
<1>1. PICK x \in Field : Rep("monty", e, x)
  BY RepExists DEF Forms
<1>2. PICK y \in Field : Rep("monty", f, y)
  BY RepExists DEF Forms
<1> QED
  BY <1>1, <1>2, MontyAdd, MontySub, MontyMul DEF Rep

Coordinates == [X : Elements, Y : Elements, Z : Elements]

\* P has the coordinates (x z^2, y z^3, z) of the pair A.
JacobianOf(P, A, z) ==
  /\ A \in Pairs /\ ~Cong(z, 0)
  /\ Rep("monty", P.X, A[1] * (z * z))
  /\ Rep("monty", P.Y, A[2] * (z * z * z))
  /\ Rep("monty", P.Z, z)

\* P stands for the point A.
IsJacobian(P, A) ==
  /\ P \in Coordinates /\ P.Z \in Field
  /\ IF A = Infinity THEN P.Z = 0 ELSE \E z : JacobianOf(P, A, z)

\* The factor of the tangent of a curve with a = -3.
LEMMA TangentFactor ==
  ASSUME NEW x \in Int, NEW y \in Int, NEW z \in Int, NEW l \in Int, NEW a \in Int,
         Cong(a, -3), Cong(l * (2 * y), 3 * (x * x) + a)
  PROVE  Cong(3 * ((x * (z * z) + z * z) * (x * (z * z) - z * z)), l * (2 * y * (z * z * z * z)))
<1> DEFINE t == z * z * z * z
           v == 3 * (x * x)
           s == l * (2 * y)
<1>1. t \in Int /\ v \in Int /\ s \in Int /\ -3 \in Int
  OBVIOUS
<1>2. /\ 3 * ((x * (z * z) + z * z) * (x * (z * z) - z * z)) = (v + (-3)) * t
      /\ l * (2 * y * (z * z * z * z)) = s * t
  OBVIOUS
<1>3. Cong(s, v + a)
  OBVIOUS
<1> HIDE DEF t, v, s
<1>4. Cong(v, v) /\ Cong(t, t)
  BY DEF Cong
<1>5. Cong(v + a, v + (-3))
  BY ONLY <1>1, <1>4, Cong(a, -3), a \in Int, CongAdd
<1>6. Cong(s, v + (-3)) /\ v + (-3) \in Int
  BY <1>1, <1>3, <1>5 DEF Cong
<1>7. Cong(s * t, (v + (-3)) * t)
  BY ONLY <1>1, <1>4, <1>6, CongMul
<1> QED
  BY <1>2, <1>7 DEF Cong

\* From the slope and the abscissa to the coordinates of the sum: X and Y are
\* what the formulas give for a line of slope l through (x, y), in terms of the
\* new z.
LEMMA LineCoordinates ==
  ASSUME NEW A \in Pairs, NEW B \in Pairs, NEW C, NEW l, OnLine(A, B, C, l), NEW w \in Int
  PROVE  /\ Cong((l * w) * (l * w) - (A[1] + B[1]) * (w * w), C[1] * (w * w))
         /\ Cong((A[1] * (w * w) - C[1] * (w * w)) * (l * w) - A[2] * (w * w * w), C[2] * (w * w * w))
         /\ C[1] * (w * w) \in Int /\ C[2] * (w * w * w) \in Int /\ C \in Pairs /\ C # Infinity
<1> DEFINE v == w * w
           t == w * w * w
           f == l * l - A[1] - B[1]
           g == l * (A[1] - C[1]) - A[2]
<1>1. /\ C \in Pairs /\ C # Infinity /\ l \in Int /\ Cong(C[1], f) /\ Cong(C[2], g)
      /\ A[1] \in Int /\ A[2] \in Int /\ B[1] \in Int /\ C[1] \in Int /\ C[2] \in Int
  BY PairsInt DEF OnLine
<1>2. v \in Int /\ t \in Int /\ f \in Int /\ g \in Int
  BY <1>1
<1>3. /\ (l * w) * (l * w) - (A[1] + B[1]) * (w * w) = f * v
      /\ (A[1] * (w * w) - C[1] * (w * w)) * (l * w) - A[2] * (w * w * w) = g * t
  BY <1>1
<1> HIDE DEF v, t, f, g
<1>4. Cong(v, v) /\ Cong(t, t)
  BY DEF Cong
<1>5. Cong(C[1] * v, f * v) /\ Cong(C[2] * t, g * t)
  BY ONLY <1>1, <1>2, <1>4, CongMul
<1>6. C[1] * v \in Int /\ C[2] * t \in Int
  BY <1>1, <1>2
<1> QED
  BY <1>1, <1>3, <1>5, <1>6 DEF Cong, v, t

LEMMA ZeroIsInfinity ==
  /\ prj_pt_zero \in Coordinates /\ prj_pt_zero.Z = 0 /\ prj_pt_iszero(prj_pt_zero)
  /\ IsJacobian(prj_pt_zero, Infinity)
<1>1. 0 \in Elements /\ 1 \in Elements /\ 0 \in Field
  BY PBounds DEF Elements, Field
<1>2. prj_pt_zero \in Coordinates /\ prj_pt_zero.Z = 0
  BY <1>1 DEF prj_pt_zero, Point, Coordinates
<1> QED
  BY <1>1, <1>2 DEF IsJacobian, prj_pt_iszero

\* Of coordinates, z is 0 at infinity only.
LEMMA JacobianZ ==
  ASSUME NEW P, NEW A, IsJacobian(P, A)
  PROVE  prj_pt_iszero(P) <=> A = Infinity
<1>1. ASSUME A # Infinity
      PROVE  P.Z # 0
  <2>1. PICK z : JacobianOf(P, A, z)
    BY <1>1 DEF IsJacobian
  <2>2. P.Z \in Field /\ Rep("monty", P.Z, z) /\ ~Cong(z, 0) /\ "monty" \in Forms
    BY <2>1 DEF IsJacobian, JacobianOf, Forms
  <2> QED
    BY ONLY <2>2, RepZero
<1> QED
  BY <1>1 DEF IsJacobian, prj_pt_iszero

\* Coordinates with a z that is 0 are those of infinity.
LEMMA AtInfinity ==
  ASSUME NEW P \in Coordinates, P.Z \in Field, NEW z, Rep("monty", P.Z, z), Cong(z, 0)
  PROVE  IsJacobian(P, Infinity)
<1>1. P.Z = 0
  BY RepZero DEF Forms
<1> QED
  BY <1>1 DEF IsJacobian

\* Doubling on a curve with a = -3.
LEMMA JacobianDouble ==
  ASSUME NEW crv, crv.a.plain \in Int, Cong(crv.a.plain, -3),
         NEW P, NEW A, IsJacobian(P, A), A = Infinity \/ A \in Pairs
  PROVE  IsJacobian(jprj_pt_dbl_monty(P), Plus(crv, A, A))
<1> DEFINE z2 == fp_mul_redc1(P.Z, P.Z)
           x2 == fp_mul_redc1(fp_add(P.X, z2), fp_sub(P.X, z2))
           M == fp_add(fp_add(x2, x2), x2)
           yy == fp_add(fp_mul_redc1(P.Y, P.Y), fp_mul_redc1(P.Y, P.Y))
           y4 == fp_add(fp_mul_redc1(yy, yy), fp_mul_redc1(yy, yy))
           S == fp_mul_redc1(fp_add(yy, yy), P.X)
           X == fp_sub(fp_sub(fp_mul_redc1(M, M), S), S)
           Y == fp_sub(fp_mul_redc1(fp_sub(S, X), M), y4)
           Z == fp_mul_redc1(P.Z, P.Y)
           D == jprj_pt_dbl_monty(P)
<1>1. CASE A = Infinity
  <2>1. D = prj_pt_zero
    BY <1>1, JacobianZ DEF jprj_pt_dbl_monty
  <2>2. Plus(crv, A, A) = Infinity
    BY <1>1 DEF Plus
  <2> QED
    BY <2>1, <2>2, ZeroIsInfinity
<1>2. CASE A \in Pairs
  <2>1. A # Infinity /\ A[1] \in Int /\ A[2] \in Int
    BY <1>2, PairsInt
  <2>2. PICK z : JacobianOf(P, A, z)
    BY <2>1 DEF IsJacobian
  <2>3. D = Point(X, Y, fp_add(Z, Z))
    BY <2>1, JacobianZ DEF jprj_pt_dbl_monty
  <2> HIDE DEF D
  <2> DEFINE x == A[1]
             y == A[2]
             w == 2 * y * (z * z * z * z)
             s == x * (z * z)
  <2>4. z \in Int /\ ~Cong(z, 0) /\ x \in Int /\ y \in Int /\ w \in Int /\ s \in Int
    BY <2>1, <2>2 DEF JacobianOf, Rep
  <2>5. Rep("monty", P.X, s) /\ Rep("monty", P.Y, y * (z * z * z)) /\ Rep("monty", P.Z, z)
    BY <2>2 DEF JacobianOf
  <2>6. Rep("monty", Z, z * (y * (z * z * z))) /\ Z \in Field
    BY ONLY <2>5, MontyMul
  <2>7. Rep("monty", fp_add(Z, Z), w) /\ fp_add(Z, Z) \in Field
    <3>1. Rep("monty", fp_add(Z, Z), z * (y * (z * z * z)) + z * (y * (z * z * z)))
      BY ONLY <2>6, MontyAdd
    <3>2. z * (y * (z * z * z)) + z * (y * (z * z * z)) = w
      BY <2>4
    <3>3. fp_add(Z, Z) \in Field
      BY ONLY <2>6, FieldSums
    <3> QED
      BY <3>1, <3>2, <3>3
  <2>8. CASE Cong(2 * y, 0)
    <3>1. Cong(w, 0)
      <4>1. Cong(z * z * z * z, z * z * z * z) /\ 2 * y \in Int /\ z * z * z * z \in Int
            /\ w = (2 * y) * (z * z * z * z) /\ 0 * (z * z * z * z) = 0 /\ 0 \in Int
        BY <2>4 DEF Cong
      <4>2. Cong((2 * y) * (z * z * z * z), 0 * (z * z * z * z))
        BY ONLY <2>8, <4>1, CongMul
      <4> QED
        BY <4>1, <4>2
    <3>2. Plus(crv, A, A) = Infinity
      <4>1. (y + y) % p = 0
        <5>1. 2 * y = y + y /\ 0 % p = 0
          BY <2>4, PBounds
        <5> QED
          BY <2>8, <5>1 DEF Cong
      <4> QED
        BY <2>1, <4>1 DEF Plus
    <3>3. X \in Elements /\ Y \in Elements
      <4>1. P.X \in Elements /\ P.Y \in Elements /\ P.Z \in Elements
        BY <2>5 DEF Rep
      <4>2. z2 \in Elements /\ fp_mul_redc1(P.Y, P.Y) \in Elements
        BY ONLY <4>1, ElementOps
      <4>3. x2 \in Elements /\ yy \in Elements
        BY ONLY <4>1, <4>2, ElementOps
      <4>4. M \in Elements /\ S \in Elements /\ fp_mul_redc1(yy, yy) \in Elements
        BY ONLY <4>1, <4>3, ElementOps
      <4> HIDE DEF M, S
      <4>5. X \in Elements /\ y4 \in Elements
        BY ONLY <4>4, ElementOps
      <4> HIDE DEF X, y4
      <4> QED
        BY ONLY <4>4, <4>5, ElementOps
    <3>4. D \in Coordinates /\ D.Z = fp_add(Z, Z)
      BY <2>3, <2>7, <3>3, ElementsInt DEF Point, Coordinates
    <3> QED
      BY ONLY <2>7, <3>1, <3>2, <3>4, AtInfinity DEF D
  <2>9. CASE ~Cong(2 * y, 0)
    <3>1. PICK l \in Int : /\ Cong(l * (2 * y), 3 * (x * x) + crv.a.plain)
                          /\ OnLine(A, A, Plus(crv, A, A), l)
      BY <1>2, <2>9, PlusTangent
    <3> DEFINE C == Plus(crv, A, A)
    <3>2. Rep("monty", z2, z * z)
      BY ONLY <2>5, MontyMul
    <3>3. Rep("monty", x2, (s + z * z) * (s - z * z))
      BY ONLY <2>5, <3>2, MontyAdd, MontySub, MontyMul
    <3>4. Rep("monty", M, l * w)
      <4> DEFINE q == (s + z * z) * (s - z * z)
      <4>1. Rep("monty", M, (q + q) + q)
        BY ONLY <3>3, MontyAdd
      <4>2. (q + q) + q = 3 * q /\ l * w \in Int
        BY <2>4
      <4>3. Cong(3 * q, l * w)
        BY <2>4, <3>1, TangentFactor
      <4> HIDE DEF q, w
      <4> QED
        BY ONLY <4>1, <4>2, <4>3, MontySame
    <3> DEFINE e == y * (z * z * z)
    <3>5. Rep("monty", yy, e * e + e * e)
      <4>1. Rep("monty", fp_mul_redc1(P.Y, P.Y), e * e)
        BY ONLY <2>5, MontyMul
      <4> QED
        BY ONLY <4>1, MontyAdd
    <3>6. Rep("monty", y4, y * (w * w * w))
      <4> DEFINE q == e * e + e * e
      <4>1. Rep("monty", fp_mul_redc1(yy, yy), q * q)
        BY ONLY <3>5, MontyMul
      <4>2. Rep("monty", y4, q * q + q * q)
        BY ONLY <4>1, MontyAdd
      <4>3. q * q + q * q = y * (w * w * w)
        BY <2>4
      <4> QED
        BY <4>2, <4>3
    <3>7. Rep("monty", S, x * (w * w))
      <4> DEFINE q == e * e + e * e
      <4>1. Rep("monty", S, (q + q) * s)
        BY ONLY <2>5, <3>5, MontyAdd, MontyMul
      <4>2. (q + q) * s = x * (w * w)
        BY <2>4
      <4> QED
        BY <4>1, <4>2
    <3> HIDE DEF M, S, y4, yy, x2, z2, C
    <3>8. /\ Cong((l * w) * (l * w) - (x + x) * (w * w), C[1] * (w * w))
          /\ Cong((x * (w * w) - C[1] * (w * w)) * (l * w) - y * (w * w * w), C[2] * (w * w * w))
          /\ C[1] * (w * w) \in Int /\ C[2] * (w * w * w) \in Int /\ C \in Pairs /\ C # Infinity
      BY <1>2, <2>4, <3>1, LineCoordinates DEF C
    <3> HIDE DEF x, y, w
    <3>9. Rep("monty", X, C[1] * (w * w))
      <4>1. Rep("monty", X, (l * w) * (l * w) - x * (w * w) - x * (w * w))
        BY ONLY <3>4, <3>7, MontySub, MontyMul
      <4>2. (l * w) * (l * w) - x * (w * w) - x * (w * w) = (l * w) * (l * w) - (x + x) * (w * w)
        BY <2>4
      <4> HIDE DEF X
      <4> QED
        BY ONLY <3>8, <4>1, <4>2, MontySame
    <3> HIDE DEF X
    <3>10. Rep("monty", Y, C[2] * (w * w * w))
      <4>1. Rep("monty", Y, (x * (w * w) - C[1] * (w * w)) * (l * w) - y * (w * w * w))
        BY ONLY <3>4, <3>6, <3>7, <3>9, MontySub, MontyMul
      <4> HIDE DEF Y
      <4> QED
        BY ONLY <3>8, <4>1, MontySame
    <3>11. ~Cong(w, 0)
      <4>1. 2 * y \in Int /\ z * z \in Int /\ z * z * z * z \in Int /\ w = (2 * y) * (z * z * z * z)
            /\ z * z * z * z = (z * z) * (z * z)
        BY <2>4 DEF w
      <4> QED
        BY ONLY <2>4, <2>9, <4>1, CongZero
    <3>12. D \in Coordinates /\ D.Z = fp_add(Z, Z) /\ D.X = X /\ D.Y = Y
      BY <2>3, <2>7, <3>9, <3>10, ElementsInt DEF Point, Coordinates, Rep
    <3>13. JacobianOf(D, C, w)
      BY <2>7, <3>8, <3>9, <3>10, <3>11, <3>12 DEF JacobianOf
    <3> QED
      BY <2>7, <3>8, <3>12, <3>13 DEF IsJacobian, C, D
  <2> QED
    BY <2>8, <2>9
<1> QED
  BY <1>1, <1>2

\* Residues differ if and only if their difference is not 0, in any scale.
LEMMA DifferenceZero ==
  ASSUME NEW x1 \in Field, NEW x2 \in Field, NEW w \in Int, ~Cong(w, 0)
  PROVE  /\ Cong((x2 - x1) * (w * w), 0) <=> x1 = x2
         /\ Cong((x2 - x1) * (w * w * w), 0) <=> x1 = x2
<1> DEFINE d == x2 - x1
           v == w * w
<1>1. x1 \in Int /\ x2 \in Int /\ d \in Int /\ v \in Int /\ d + x1 = x2 /\ 0 + x1 = x1 /\ 0 \in Int
      /\ d * (w * w * w) = (d * v) * w /\ d * v \in Int
  BY ElementsInt
<1>2. x1 = x2 => d * v = 0 /\ (d * v) * w = 0
  BY <1>1
<1>3. ASSUME Cong(d, 0)
      PROVE  x1 = x2
  <2> HIDE DEF d
  <2>1. Cong(x1, x1)
    BY DEF Cong
  <2>2. Cong(d + x1, 0 + x1)
    BY ONLY <1>1, <1>3, <2>1, CongAdd
  <2> QED
    BY <1>1, <2>2, CongField
<1> HIDE DEF d
<1>4. ~Cong(v, 0)
  BY CongZero DEF v
<1> HIDE DEF v
<1>5. Cong(d * v, 0) => x1 = x2
  BY ONLY <1>1, <1>3, <1>4, CongZero
<1>6. Cong((d * v) * w, 0) => x1 = x2
  BY ONLY <1>1, <1>5, w \in Int, ~Cong(w, 0), CongZero
<1> QED
  BY <1>1, <1>2, <1>5, <1>6 DEF Cong, v, d

\* Pairs that are equal or opposite when their abscissas are equal, as the
\* points of a curve are.
Compatible(A, B) ==
  /\ A = Infinity \/ A \in Pairs
  /\ B = Infinity \/ B \in Pairs
  /\ A # Infinity /\ B # Infinity /\ A[1] = B[1] => A = B \/ Cong(A[2] + B[2], 0)

\* Adding in all cases.
LEMMA JacobianAdd ==
  ASSUME NEW crv, crv.a.plain \in Int, Cong(crv.a.plain, -3),
         NEW P, NEW Q, NEW A, NEW B, IsJacobian(P, A), IsJacobian(Q, B), Compatible(A, B)
  PROVE  IsJacobian(jprj_pt_add_monty(P, Q), Plus(crv, A, B))
<1> DEFINE z1 == fp_mul_redc1(P.Z, P.Z)
           z2 == fp_mul_redc1(Q.Z, Q.Z)
           u1 == fp_mul_redc1(P.X, z2)
           s1 == fp_mul_redc1(P.Y, fp_mul_redc1(z2, Q.Z))
           h == fp_sub(fp_mul_redc1(Q.X, z1), u1)
           r == fp_sub(fp_mul_redc1(Q.Y, fp_mul_redc1(z1, P.Z)), s1)
           h2 == fp_mul_redc1(h, h)
           h3 == fp_mul_redc1(h2, h)
           U == fp_mul_redc1(u1, h2)
           X == fp_sub(fp_sub(fp_sub(fp_mul_redc1(r, r), h3), U), U)
           Y == fp_sub(fp_mul_redc1(fp_sub(U, X), r), fp_mul_redc1(s1, h3))
           Z == fp_mul_redc1(fp_mul_redc1(P.Z, Q.Z), h)
           D == jprj_pt_add_monty(P, Q)
<1>1. CASE A = Infinity
  <2>1. D = Q
    BY <1>1, JacobianZ DEF jprj_pt_add_monty
  <2>2. Plus(crv, A, B) = B
    BY <1>1 DEF Plus
  <2> QED
    BY <2>1, <2>2
<1>2. CASE A # Infinity /\ B = Infinity
  <2>1. D = P
    BY <1>2, JacobianZ DEF jprj_pt_add_monty
  <2>2. Plus(crv, A, B) = A
    BY <1>2 DEF Plus
  <2> QED
    BY <2>1, <2>2
<1>3. CASE A # Infinity /\ B # Infinity
  <2>1. A \in Pairs /\ B \in Pairs
    BY <1>3 DEF Compatible
  <2>2. /\ A[1] \in Field /\ A[2] \in Field /\ A[1] \in Int /\ A[2] \in Int /\ A = <<A[1], A[2]>>
        /\ B[1] \in Field /\ B[2] \in Field /\ B[1] \in Int /\ B[2] \in Int /\ B = <<B[1], B[2]>>
    BY <2>1, PairsInt
  <2>3. PICK u : JacobianOf(P, A, u)
    BY <1>3 DEF IsJacobian
  <2>4. PICK v : JacobianOf(Q, B, v)
    BY <1>3 DEF IsJacobian
  <2> DEFINE x1 == A[1]
             y1 == A[2]
             x2 == B[1]
             y2 == B[2]
             w == u * v
             d == (x2 - x1) * (w * w)
             e == (y2 - y1) * (w * w * w)
  <2>5. /\ u \in Int /\ v \in Int /\ w \in Int /\ d \in Int /\ e \in Int
        /\ x1 \in Int /\ y1 \in Int /\ x2 \in Int /\ y2 \in Int
    BY <2>2, <2>3, <2>4 DEF JacobianOf, Rep
  <2>6. /\ Rep("monty", P.X, x1 * (u * u)) /\ Rep("monty", P.Y, y1 * (u * u * u)) /\ Rep("monty", P.Z, u)
        /\ Rep("monty", Q.X, x2 * (v * v)) /\ Rep("monty", Q.Y, y2 * (v * v * v)) /\ Rep("monty", Q.Z, v)
    BY <2>3, <2>4 DEF JacobianOf
  <2>7. ~Cong(w, 0)
    BY <2>3, <2>4, <2>5, CongZero DEF JacobianOf
  <2> HIDE DEF w
  <2>8. Rep("monty", z1, u * u) /\ Rep("monty", z2, v * v)
    BY ONLY <2>6, MontyMul
  <2>9. Rep("monty", u1, x1 * (w * w)) /\ u1 \in Field
    <3>1. Rep("monty", u1, (x1 * (u * u)) * (v * v)) /\ u1 \in Field
      BY ONLY <2>6, <2>8, MontyMul
    <3>2. (x1 * (u * u)) * (v * v) = x1 * (w * w)
      BY <2>5 DEF w
    <3> QED
      BY <3>1, <3>2
  <2>10. Rep("monty", s1, y1 * (w * w * w)) /\ s1 \in Field
    <3>1. Rep("monty", s1, (y1 * (u * u * u)) * ((v * v) * v)) /\ s1 \in Field
      BY ONLY <2>6, <2>8, MontyMul
    <3>2. (y1 * (u * u * u)) * ((v * v) * v) = y1 * (w * w * w)
      BY <2>5 DEF w
    <3> QED
      BY <3>1, <3>2
  <2>11. Rep("monty", h, d) /\ h \in Field
    <3>1. /\ Rep("monty", fp_mul_redc1(Q.X, z1), (x2 * (v * v)) * (u * u))
          /\ fp_mul_redc1(Q.X, z1) \in Field
      BY ONLY <2>6, <2>8, MontyMul
    <3>2. Rep("monty", h, (x2 * (v * v)) * (u * u) - x1 * (w * w))
      BY ONLY <2>9, <3>1, MontySub
    <3>3. (x2 * (v * v)) * (u * u) - x1 * (w * w) = d
      BY <2>5 DEF w
    <3>4. h \in Field
      BY ONLY <2>9, <3>1, FieldSums
    <3> QED
      BY <3>2, <3>3, <3>4
  <2>12. Rep("monty", r, e) /\ r \in Field
    <3>1. /\ Rep("monty", fp_mul_redc1(Q.Y, fp_mul_redc1(z1, P.Z)), (y2 * (v * v * v)) * ((u * u) * u))
          /\ fp_mul_redc1(Q.Y, fp_mul_redc1(z1, P.Z)) \in Field
      BY ONLY <2>6, <2>8, MontyMul
    <3>2. Rep("monty", r, (y2 * (v * v * v)) * ((u * u) * u) - y1 * (w * w * w))
      BY ONLY <2>10, <3>1, MontySub
    <3>3. (y2 * (v * v * v)) * ((u * u) * u) - y1 * (w * w * w) = e
      BY <2>5 DEF w
    <3>4. r \in Field
      BY ONLY <2>10, <3>1, FieldSums
    <3> QED
      BY <3>2, <3>3, <3>4
  <2>13. h = 0 <=> x1 = x2
    <3>1. h = 0 <=> Cong(d, 0)
      BY <2>11, RepZero DEF Forms
    <3>2. Cong(d, 0) <=> x1 = x2
      BY <2>2, <2>5, <2>7, DifferenceZero
    <3> QED
      BY <3>1, <3>2
  <2>14. r = 0 <=> y1 = y2
    <3>1. r = 0 <=> Cong(e, 0)
      BY <2>12, RepZero DEF Forms
    <3>2. Cong(e, 0) <=> y1 = y2
      BY <2>2, <2>5, <2>7, DifferenceZero
    <3> QED
      BY <3>1, <3>2
  <2>15. D = IF h = 0 /\ r = 0 THEN jprj_pt_dbl_monty(P) ELSE Point(X, Y, Z)
    <3>1. ~prj_pt_iszero(P) /\ ~prj_pt_iszero(Q)
      BY <1>3, JacobianZ
    <3> QED
      BY <3>1 DEF jprj_pt_add_monty, JacobianSum
  <2>16. Rep("monty", Z, w * d) /\ Z \in Field
    <3>1. Rep("monty", fp_mul_redc1(P.Z, Q.Z), w)
      BY ONLY <2>6, MontyMul DEF w
    <3> QED
      BY ONLY <2>11, <3>1, MontyMul
  <2> HIDE DEF D, Z, h, r, u1, s1
  <2>17. X \in Elements /\ Y \in Elements
    <3>1. h \in Elements /\ r \in Elements /\ u1 \in Elements /\ s1 \in Elements
      BY <2>9, <2>10, <2>11, <2>12, ElementsInt
    <3>2. h2 \in Elements
      BY ONLY <3>1, ElementOps
    <3>3. h3 \in Elements /\ U \in Elements
      BY ONLY <3>1, <3>2, ElementOps
    <3> HIDE DEF h3, U
    <3>4. X \in Elements
      BY ONLY <3>1, <3>3, ElementOps
    <3> HIDE DEF X
    <3> QED
      BY ONLY <3>1, <3>3, <3>4, ElementOps
  <2>18. Point(X, Y, Z) \in Coordinates /\ Point(X, Y, Z).Z = Z /\ Point(X, Y, Z).X = X
         /\ Point(X, Y, Z).Y = Y
    BY <2>16, <2>17, ElementsInt DEF Point, Coordinates
  <2>19. CASE x1 = x2 /\ y1 = y2
    <3>1. A = B /\ D = jprj_pt_dbl_monty(P)
      BY <2>2, <2>13, <2>14, <2>15, <2>19
    <3> QED
      BY <2>1, <3>1, JacobianDouble DEF D
  <2>20. CASE x1 = x2 /\ y1 # y2
    <3>1. D = Point(X, Y, Z)
      BY <2>14, <2>15, <2>20
    <3>2. Cong(w * d, 0)
      <4>1. d = 0
        BY <2>5, <2>20
      <4>2. w * d = 0
        BY <2>5, <4>1
      <4> QED
        BY <4>2 DEF Cong
    <3>3. Plus(crv, A, B) = Infinity
      <4>1. Cong(y1 + y2, 0)
        BY <1>3, <2>20 DEF Compatible
      <4>2. (y1 + y2) % p = 0
        BY <4>1, PBounds DEF Cong
      <4> QED
        BY <1>3, <2>20, <4>2 DEF Plus
    <3> QED
      BY <2>16, <2>18, <3>1, <3>2, <3>3, AtInfinity DEF D
  <2>21. CASE x1 # x2
    <3> DEFINE C == Plus(crv, A, B)
               W == w * d
    <3>1. D = Point(X, Y, Z)
      BY <2>13, <2>15, <2>21
    <3>2. PICK l \in Int : Cong(l * (x2 - x1), y2 - y1) /\ OnLine(A, B, C, l)
      BY <2>1, <2>21, PlusChord
    <3> HIDE DEF C
    <3>3. W \in Int /\ ~Cong(W, 0)
      <4>1. ~Cong(d, 0)
        BY <2>2, <2>5, <2>7, <2>21, DifferenceZero
      <4> HIDE DEF d
      <4> QED
        BY ONLY <2>5, <2>7, <4>1, CongZero
    <3>4. /\ Cong((l * W) * (l * W) - (x1 + x2) * (W * W), C[1] * (W * W))
          /\ Cong((x1 * (W * W) - C[1] * (W * W)) * (l * W) - y1 * (W * W * W), C[2] * (W * W * W))
          /\ C[1] * (W * W) \in Int /\ C[2] * (W * W * W) \in Int /\ C \in Pairs /\ C # Infinity
      BY <2>1, <3>2, <3>3, LineCoordinates
    <3>5. Rep("monty", r, l * W)
      <4>1. Cong(e, l * W) /\ l * W \in Int
        <5> DEFINE c == w * w * w
                   f == l * (x2 - x1)
                   g == y2 - y1
        <5>1. c \in Int /\ f \in Int /\ g \in Int /\ e = g * c /\ l * W = f * c
          BY <2>5
        <5>2. Cong(c, c) /\ Cong(g, f)
          BY <3>2 DEF Cong
        <5> HIDE DEF c, f, g
        <5>3. Cong(g * c, f * c) /\ f * c \in Int
          BY ONLY <5>1, <5>2, CongMul
        <5> QED
          BY <5>1, <5>3
      <4> HIDE DEF e
      <4> QED
        BY ONLY <2>12, <4>1, MontySame
    <3>6. Rep("monty", h2, d * d)
      BY ONLY <2>11, MontyMul
    <3>7. Rep("monty", h3, (x2 - x1) * (W * W))
      <4>1. Rep("monty", h3, (d * d) * d)
        BY ONLY <2>11, <3>6, MontyMul
      <4>2. (d * d) * d = (x2 - x1) * (W * W)
        BY <2>5
      <4> QED
        BY <4>1, <4>2
    <3>8. Rep("monty", U, x1 * (W * W))
      <4>1. Rep("monty", U, (x1 * (w * w)) * (d * d))
        BY ONLY <2>9, <3>6, MontyMul
      <4>2. (x1 * (w * w)) * (d * d) = x1 * (W * W)
        BY <2>5
      <4> QED
        BY <4>1, <4>2
    <3>9. Rep("monty", fp_mul_redc1(s1, h3), y1 * (W * W * W))
      <4>1. Rep("monty", fp_mul_redc1(s1, h3), (y1 * (w * w * w)) * ((x2 - x1) * (W * W)))
        BY ONLY <2>10, <3>7, MontyMul
      <4>2. (y1 * (w * w * w)) * ((x2 - x1) * (W * W)) = y1 * (W * W * W)
        BY <2>5
      <4> QED
        BY <4>1, <4>2
    <3> HIDE DEF h3, U, h2, W, x1, x2, y1, y2
    <3>10. Rep("monty", X, C[1] * (W * W))
      <4>1. Rep("monty", X, (l * W) * (l * W) - (x2 - x1) * (W * W) - x1 * (W * W) - x1 * (W * W))
        BY ONLY <3>5, <3>7, <3>8, MontySub, MontyMul
      <4>2. (l * W) * (l * W) - (x2 - x1) * (W * W) - x1 * (W * W) - x1 * (W * W)
              = (l * W) * (l * W) - (x1 + x2) * (W * W)
        BY <2>5, <3>3
      <4> HIDE DEF X
      <4> QED
        BY ONLY <3>4, <4>1, <4>2, MontySame
    <3> HIDE DEF X
    <3>11. Rep("monty", Y, C[2] * (W * W * W))
      <4>1. Rep("monty", Y, (x1 * (W * W) - C[1] * (W * W)) * (l * W) - y1 * (W * W * W))
        BY ONLY <3>5, <3>8, <3>9, <3>10, MontySub, MontyMul
      <4> HIDE DEF Y
      <4> QED
        BY ONLY <3>4, <4>1, MontySame
    <3>12. JacobianOf(D, C, W)
      BY <2>16, <2>18, <3>1, <3>3, <3>4, <3>10, <3>11 DEF JacobianOf, W
    <3> QED
      BY <2>16, <2>18, <3>1, <3>4, <3>12 DEF IsJacobian, C, D
  <2> QED
    BY <2>19, <2>20, <2>21
<1> QED
  BY <1>1, <1>2, <1>3
-----------------------------------------------------------------------------
(* To and from Jacobian coordinates.                                         *)

\* A factor and its inverse.
LEMMA Unscale ==
  ASSUME NEW x \in Int, NEW z \in Int, NEW i \in Int, Cong(z * i, 1)
  PROVE  /\ Cong((x * z) * i, x)
         /\ Cong((x * (z * z)) * (i * i), x)
         /\ Cong((x * (z * z * z)) * (i * i * i), x)
<1> DEFINE q == z * i
<1>0. p \in Nat /\ q \in Int
  BY PBounds
<1>1. PICK k \in Int : q = 1 + p * k
  <2>1. 1 \in Int
    OBVIOUS
  <2> QED
    BY ONLY <1>0, <2>1, Cong(z * i, 1), CongMeans
<1>2. /\ (x * z) * i = x * q
      /\ (x * (z * z)) * (i * i) = x * (q * q)
      /\ (x * (z * z * z)) * (i * i * i) = x * (q * q * q)
  OBVIOUS
<1> HIDE DEF q
<1>3. /\ x * q = x + p * (x * k)
      /\ x * (q * q) = x + p * (x * (2 * k + p * k * k))
      /\ x * (q * q * q) = x + p * (x * (3 * k + 3 * (p * k * k) + p * p * k * k * k))
  BY <1>0, <1>1
<1>4. /\ x * k \in Int /\ x * (2 * k + p * k * k) \in Int
      /\ x * (3 * k + 3 * (p * k * k) + p * p * k * k * k) \in Int
      /\ x * q \in Int /\ x * (q * q) \in Int /\ x * (q * q * q) \in Int
  BY <1>0, <1>1
<1> QED
  BY ONLY <1>2, <1>3, <1>4, x \in Int, CongOf

\* A residue is what any remainder congruent to it is.
LEMMA ModOf ==
  ASSUME NEW x \in Int, NEW y \in Field, Cong(x, y)
  PROVE  x % p = y
<1>1. x % p \in Field /\ Cong(x % p, x)
  BY CongMod
<1> QED
  BY <1>1, CongField DEF Cong

LEMMA InverseOfOne == Inverse[1] = 1
<1>1. 1 \in Int /\ 1 % p = 1 /\ 0 % p = 0
  BY PBounds
<1>2. Inverse[1] \in Field /\ Inverse[1] \in Int /\ Cong(1 * Inverse[1], 1)
  BY <1>1, InverseOf DEF Cong
<1>3. 1 * Inverse[1] = Inverse[1] /\ 1 \in Field
  BY <1>2, PBounds DEF Field
<1> QED
  BY <1>2, <1>3, CongField

\* The affine point that coordinates stand for.
LEMMA JacobianIs ==
  ASSUME NEW P, NEW A, IsJacobian(P, A)
  PROVE  JacobianAffine(P) = A
<1>0. P.Z \in Field /\ P.Z % p = P.Z
  BY ModOf, ElementsInt DEF IsJacobian, Cong
<1>1. CASE A = Infinity
  BY <1>0, <1>1 DEF IsJacobian, JacobianAffine
<1>2. CASE A # Infinity
  <2>1. PICK z : JacobianOf(P, A, z)
    BY <1>2 DEF IsJacobian
  <2>2. P.Z # 0
    BY <1>2, JacobianZ DEF prj_pt_iszero
  <2> DEFINE X == fp_unredcify(P.X)
             Y == fp_unredcify(P.Y)
             Z == fp_unredcify(P.Z)
             i == Inverse[Z]
             x == A[1]
             y == A[2]
  <2>3. x \in Field /\ y \in Field /\ x \in Int /\ y \in Int /\ A = <<x, y>>
    BY <2>1, PairsInt DEF JacobianOf
  <2>4. z \in Int /\ ~Cong(z, 0) /\ X \in Int /\ Y \in Int /\ Z \in Field /\ Z \in Int
        /\ Cong(X, x * (z * z)) /\ Cong(Y, y * (z * z * z)) /\ Cong(Z, z)
    BY <2>1, Unredcify, RepPlain, ElementsInt DEF JacobianOf, Rep
  <2>5. /\ i \in Field /\ i \in Int /\ Cong(z * i, 1)
    <3>1. z % p = Z
      BY <2>4, ModOf DEF Cong
    <3> QED
      BY <2>4, <3>1, InverseOf
  <2>6. i^2 = i * i /\ i^3 = i * i * i
    BY <2>5, PowersAssumption
  <2>7. JacobianAffine(P) = <<(X * (i * i)) % p, (Y * (i * i * i)) % p>>
    BY <1>0, <2>2, <2>6 DEF JacobianAffine
  <2> HIDE DEF X, Y, Z, i, x, y
  <2>8. z * z \in Int /\ z * z * z \in Int /\ i * i \in Int /\ i * i * i \in Int
        /\ Cong(i * i, i * i) /\ Cong(i * i * i, i * i * i)
        /\ x * (z * z) \in Int /\ y * (z * z * z) \in Int
        /\ X * (i * i) \in Int /\ Y * (i * i * i) \in Int
    BY <2>3, <2>4, <2>5 DEF Cong
  <2>9. Cong(X * (i * i), (x * (z * z)) * (i * i))
    BY ONLY <2>4, <2>8, CongMul
  <2>10. Cong(Y * (i * i * i), (y * (z * z * z)) * (i * i * i))
    BY ONLY <2>4, <2>8, CongMul
  <2>11. Cong((x * (z * z)) * (i * i), x) /\ Cong((y * (z * z * z)) * (i * i * i), y)
    BY ONLY <2>3, <2>4, <2>5, Unscale
  <2>12. (X * (i * i)) % p = x
    BY <2>3, <2>8, <2>9, <2>11, ModOf DEF Cong
  <2>13. (Y * (i * i * i)) % p = y
    BY <2>3, <2>8, <2>10, <2>11, ModOf DEF Cong
  <2> QED
    BY <2>3, <2>7, <2>12, <2>13
<1> QED
  BY <1>1, <1>2

\* From Jacobian coordinates to affine ones with Z = 1.
LEMMA BackToAffine ==
  ASSUME NEW P, NEW A, IsJacobian(P, A)
  PROVE  LET U == Unredcified(P)
             i == fp_inv(U.Z)
             j == fp_mul(i, i)
             D == Point(fp_mul(U.X, j), fp_mul(U.Y, fp_mul(i, j)), 1)
         IN  /\ prj_pt_iszero(U) <=> A = Infinity
             /\ A # Infinity => D \in Coordinates /\ Affine(D) = A
<1> DEFINE U == Unredcified(P)
           i == fp_inv(U.Z)
           j == fp_mul(i, i)
           D == Point(fp_mul(U.X, j), fp_mul(U.Y, fp_mul(i, j)), 1)
<1>0. U.X = fp_unredcify(P.X) /\ U.Y = fp_unredcify(P.Y) /\ U.Z = fp_unredcify(P.Z)
  BY DEF Unredcified, Point
<1>1. CASE A = Infinity
  <2>1. P.Z = 0 /\ Inverse[R % p] \in Int
    <3>1. R \in Int /\ ~Cong(R, 0)
      BY PBounds DEF Cong
    <3> QED
      BY <1>1, <3>1, InverseOf DEF IsJacobian
  <2>2. U.Z = 0
    BY <1>0, <2>1, PBounds DEF fp_unredcify, fp_mul_redc1
  <2> QED
    BY <1>1, <2>2 DEF prj_pt_iszero
<1>2. CASE A # Infinity
  <2>1. PICK z : JacobianOf(P, A, z)
    BY <1>2 DEF IsJacobian
  <2> DEFINE x == A[1]
             y == A[2]
  <2>2. x \in Field /\ y \in Field /\ x \in Int /\ y \in Int /\ A = <<x, y>>
    BY <2>1, PairsInt DEF JacobianOf
  <2>3. z \in Int /\ ~Cong(z, 0) /\ U.X \in Int /\ U.Y \in Int /\ U.Z \in Field /\ U.Z \in Int
        /\ Cong(U.X, x * (z * z)) /\ Cong(U.Y, y * (z * z * z)) /\ Cong(U.Z, z)
    <3> HIDE DEF U
    <3>1. z \in Int /\ ~Cong(z, 0)
      BY <2>1 DEF JacobianOf, Rep
    <3>2. /\ Rep("plain", U.X, x * (z * z)) /\ Rep("plain", U.Y, y * (z * z * z))
          /\ Rep("plain", U.Z, z) /\ U.Z \in Field
      BY <1>0, <2>1, Unredcify DEF JacobianOf
    <3> QED
      BY <3>1, <3>2, RepPlain, ElementsInt DEF Rep
  <2>4. i \in Field /\ i \in Int /\ Cong(z * i, 1)
    <3>1. z % p = U.Z
      BY <2>3, ModOf DEF Cong
    <3> QED
      BY <2>3, <3>1, InverseOf DEF fp_inv
  <2>5. ~prj_pt_iszero(U)
    BY <2>3 DEF prj_pt_iszero, Cong
  <2> HIDE DEF U, i, x, y
  <2>6. j \in Int /\ Cong(j, i * i) /\ i * i \in Int
    <3>1. i * i \in Int
      BY <2>4
    <3> QED
      BY ONLY <3>1, CongMod DEF fp_mul, j
  <2> DEFINE k == fp_mul(i, j)
  <2>7. k \in Int /\ Cong(k, i * i * i) /\ i * i * i \in Int
    <3>1. i * j \in Int /\ i * i * i \in Int /\ i * i * i = i * (i * i) /\ Cong(i, i)
      BY <2>4, <2>6 DEF Cong
    <3>2. Cong(i * j, i * (i * i))
      <4> HIDE DEF j
      <4> QED
        BY ONLY <2>4, <2>6, <3>1, CongMul
    <3>3. k \in Int /\ Cong(k, i * j)
      BY ONLY <3>1, CongMod DEF fp_mul, k
    <3> QED
      BY <3>1, <3>2, <3>3 DEF Cong
  <2> HIDE DEF j, k
  <2>8. /\ x * (z * z) \in Int /\ y * (z * z * z) \in Int
        /\ U.X * j \in Int /\ U.Y * k \in Int
    BY <2>2, <2>3, <2>6, <2>7
  <2>9. Cong(U.X * j, (x * (z * z)) * (i * i))
    BY ONLY <2>3, <2>6, <2>8, CongMul
  <2>10. Cong(U.Y * k, (y * (z * z * z)) * (i * i * i))
    BY ONLY <2>3, <2>7, <2>8, CongMul
  <2>11. Cong((x * (z * z)) * (i * i), x) /\ Cong((y * (z * z * z)) * (i * i * i), y)
    BY ONLY <2>2, <2>3, <2>4, Unscale
  <2>12. (U.X * j) % p = x
    BY <2>2, <2>8, <2>9, <2>11, ModOf DEF Cong
  <2>13. (U.Y * k) % p = y
    BY <2>2, <2>8, <2>10, <2>11, ModOf DEF Cong
  <2>14. D = Point(x, y, 1)
    BY <2>12, <2>13 DEF fp_mul, k
  <2>15. 1 \in Elements /\ 1 % p = 1 /\ x \in Elements /\ y \in Elements
    BY <2>2, PBounds, ElementsInt DEF Elements
  <2>16. Affine(Point(x, y, 1)) = A
    <3>1. (x * 1) % p = x /\ (y * 1) % p = y
      BY <2>2, ModOf DEF Cong
    <3> QED
      BY <2>2, <2>15, <3>1, InverseOfOne DEF Affine, Point
  <2>17. Point(x, y, 1) \in Coordinates
    BY <2>15 DEF Point, Coordinates
  <2> QED
    BY <1>2, <2>5, <2>14, <2>16, <2>17 DEF U, i, j
<1> QED
  BY <1>1, <1>2

\* An affine point, from projective coordinates to Z = 1.
LEMMA Normalized ==
  ASSUME NEW A \in Pairs, NEW z \in 1..(p - 1)
  PROVE  prj_pt_normalize(Point((A[1] * z) % p, (A[2] * z) % p, z)) = Point(A[1], A[2], 1)
<1> DEFINE i == Inverse[z]
           P == Point((A[1] * z) % p, (A[2] * z) % p, z)
<1>1. /\ A[1] \in Field /\ A[2] \in Field /\ A[1] \in Int /\ A[2] \in Int
      /\ z \in Int /\ z \in Field
  BY PairsInt, PBounds DEF Field
<1>2. z % p = z
  BY <1>1, ModOf DEF Cong
<1>3. i \in Int /\ Cong(z * i, 1)
  <2>1. ~Cong(z, 0)
    BY <1>2, PBounds DEF Cong
  <2> QED
    BY <1>1, <1>2, <2>1, InverseOf
<1> HIDE DEF i
<1>4. ASSUME NEW x \in Field
      PROVE  /\ (x * 1) % p = x
             /\ fp_mul((x * z) % p, i) = x
  <2>1. x \in Int /\ x * 1 = x /\ x * z \in Int /\ (x * z) % p \in Int /\ Cong(i, i)
        /\ Cong((x * z) % p, x * z)
    BY <1>1, ElementsInt, CongMod DEF Cong
  <2>2. Cong(((x * z) % p) * i, (x * z) * i)
    BY ONLY <1>3, <2>1, CongMul
  <2>3. Cong((x * z) * i, x)
    BY <1>1, <1>3, <2>1, Unscale
  <2>4. ((x * z) % p) * i \in Int
    BY ONLY <1>3, <2>1
  <2> QED
    BY <2>1, <2>2, <2>3, <2>4, ModOf DEF Cong, fp_mul
<1>5. CASE z = 1
  BY <1>1, <1>4, <1>5 DEF prj_pt_normalize, Point
<1>6. CASE z # 1
  <2>1. fp_inv(z) = i
    BY DEF fp_inv, i
  <2> QED
    BY <1>1, <1>4, <1>6, <2>1 DEF prj_pt_normalize, Point
<1> QED
  BY <1>5, <1>6

\* Affine coordinates with Z = 1 are Jacobian coordinates.
LEMMA Converted ==
  ASSUME NEW A \in Pairs
  PROVE  IsJacobian(Redcified(Point(A[1], A[2], 1)), A)
<1> DEFINE D == Redcified(Point(A[1], A[2], 1))
<1>1. /\ A[1] \in Elements /\ A[2] \in Elements /\ A[1] \in Int /\ A[2] \in Int /\ A # Infinity
      /\ 1 \in Elements /\ 1 \in Int
      /\ A[1] * (1 * 1) = A[1] /\ A[2] * (1 * 1 * 1) = A[2]
  BY PairsInt, ElementsInt, PBounds DEF Elements
<1>2. D.X = fp_redcify(A[1]) /\ D.Y = fp_redcify(A[2]) /\ D.Z = fp_redcify(1)
      /\ D = Point(fp_redcify(A[1]), fp_redcify(A[2]), fp_redcify(1))
  BY DEF Redcified, Point
<1>3. /\ D.X \in Field /\ D.Y \in Field /\ D.Z \in Field
      /\ Rep("monty", D.X, A[1]) /\ Rep("monty", D.Y, A[2]) /\ Rep("monty", D.Z, 1)
  BY <1>1, <1>2, RepPlain, Redcify
<1>4. ~Cong(1, 0)
  BY PBounds DEF Cong
<1>5. JacobianOf(D, A, 1)
  BY <1>1, <1>3, <1>4 DEF JacobianOf
<1>6. D \in Coordinates
  BY <1>2, <1>3, ElementsInt DEF Point, Coordinates
<1> QED
  BY <1>1, <1>3, <1>5, <1>6 DEF IsJacobian

\* The opposite point.
LEMMA JacobianOpposite ==
  ASSUME NEW P, NEW A, IsJacobian(P, A), A = Infinity \/ A \in Pairs
  PROVE  IsJacobian([P EXCEPT !.Y = fp_neg(P.Y)], Opposite(A))
<1> DEFINE D == [P EXCEPT !.Y = fp_neg(P.Y)]
           e == P.Y
           n == fp_neg(e)
<1>1. e \in Elements /\ e \in Int /\ n \in Elements /\ n = p - e /\ n \in Int /\ p \in Nat
  BY PBounds DEF IsJacobian, Coordinates, Elements, fp_neg
<1>2. D \in Coordinates /\ D.X = P.X /\ D.Y = n /\ D.Z = P.Z
  BY <1>1 DEF IsJacobian, Coordinates
<1> HIDE DEF n
<1>3. ASSUME NEW x, Rep("monty", e, x)
      PROVE  Rep("monty", n, -x)
  <2>1. x \in Int /\ Cong(e, x * R) /\ R \in Int
    BY <1>3, PBounds DEF Rep, Unit
  <2>2. Cong(p, 0)
    BY PBounds DEF Cong
  <2>3. 0 \in Int /\ p \in Int /\ x * R \in Int
    BY <1>1, <2>1
  <2>4. Cong(p - e, 0 - x * R)
    BY ONLY <1>1, <2>1, <2>2, <2>3, CongSub
  <2>5. 0 - x * R = (-x) * R /\ -x \in Int
    BY <2>1
  <2> QED
    BY <1>1, <2>4, <2>5 DEF Rep, Unit
<1>4. CASE A = Infinity
  BY <1>2, <1>4 DEF IsJacobian, Opposite
<1>5. CASE A \in Pairs
  <2> DEFINE y == (p - A[2]) % p
             B == <<A[1], y>>
  <2>1. A[1] \in Field /\ A[1] \in Int /\ A[2] \in Int /\ A # Infinity
    BY <1>5, PairsInt
  <2>2. PICK z : JacobianOf(P, A, z)
    BY <2>1 DEF IsJacobian
  <2>3. y \in Field /\ y \in Int /\ Cong(y, -A[2])
    <3>1. p - A[2] \in Int /\ -A[2] \in Int /\ p - A[2] = -A[2] + p * 1 /\ 1 \in Int
      BY <1>1, <2>1
    <3>2. y \in Field /\ y \in Int /\ Cong(y, p - A[2])
      BY ONLY <3>1, CongMod DEF y
    <3>3. Cong(p - A[2], -A[2])
      BY ONLY <3>1, CongOf
    <3> QED
      BY <3>2, <3>3 DEF Cong
  <2> HIDE DEF y
  <2>4. B \in Pairs /\ B # Infinity /\ Opposite(A) = B /\ B[1] = A[1] /\ B[2] = y
    BY <2>1, <2>3 DEF Pairs, Opposite, Infinity, y
  <2> DEFINE t == z * z * z
  <2>5. z \in Int /\ t \in Int /\ Rep("monty", e, A[2] * t)
    BY <2>2 DEF JacobianOf, Rep
  <2> HIDE DEF t
  <2>6. Rep("monty", n, -(A[2] * t))
    BY <1>3, <2>5
  <2>7. -(A[2] * t) = (-A[2]) * t /\ -A[2] \in Int /\ y * t \in Int /\ (-A[2]) * t \in Int
    BY <2>1, <2>3, <2>5
  <2>8. Cong((-A[2]) * t, y * t)
    <3>1. Cong(t, t) /\ Cong(-A[2], y)
      BY <2>3 DEF Cong
    <3> QED
      BY ONLY <2>3, <2>5, <2>7, <3>1, CongMul
  <2>9. Rep("monty", n, y * t)
    <3>1. Rep("monty", n, (-A[2]) * t)
      BY <2>6, <2>7
    <3> QED
      BY ONLY <2>7, <2>8, <3>1, MontySame
  <2>10. JacobianOf(D, B, z)
    BY <1>2, <2>2, <2>4, <2>9 DEF JacobianOf, t
  <2> QED
    BY <1>2, <2>4, <2>10 DEF IsJacobian
<1> QED
  BY <1>4, <1>5

\* The points of a curve that have the same abscissa are equal or opposite.
LEMMA CurveCompatible ==
  ASSUME NEW crv, crv.a.plain \in Int, crv.b \in Int, NEW A, NEW B,
         A = Infinity \/ A \in Pairs, B = Infinity \/ B \in Pairs,
         OnCurve(crv, A), OnCurve(crv, B)
  PROVE  Compatible(A, B)
<1> SUFFICES ASSUME A # Infinity, B # Infinity, A[1] = B[1]
             PROVE  A = B \/ Cong(A[2] + B[2], 0)
  BY DEF Compatible
<1> DEFINE x == A[1]
           y == A[2]
           v == B[2]
           f == x * x * x + crv.a.plain * x + crv.b
<1>1. /\ x \in Field /\ y \in Field /\ v \in Field /\ x \in Int /\ y \in Int /\ v \in Int
      /\ A = <<x, y>> /\ B = <<x, v>>
  BY PairsInt
<1>2. f \in Int
  BY <1>1
<1>3. Cong(y * y - f, 0) /\ Cong(v * v - f, 0)
  <2>1. x^3 = x * x * x /\ y^2 = y * y /\ v^2 = v * v /\ 0 % p = 0
    BY <1>1, PowersAssumption, PBounds
  <2> QED
    BY <1>1, <2>1 DEF OnCurve, Cong
<1> HIDE DEF x, y, v, f
<1>4. /\ y * y - f \in Int /\ v * v - f \in Int /\ 0 \in Int /\ y - v \in Int /\ y + v \in Int
      /\ (y * y - f) - (v * v - f) = (y - v) * (y + v) /\ 0 - 0 = 0
  BY <1>1, <1>2
<1>5. Cong((y * y - f) - (v * v - f), 0 - 0)
  BY ONLY <1>3, <1>4, CongSub
<1>6. Cong((y - v) * (y + v), 0)
  BY <1>4, <1>5
<1>7. Cong(y - v, 0) \/ Cong(y + v, 0)
  BY ONLY <1>4, <1>6, CongZero
<1>8. ASSUME Cong(y - v, 0)
      PROVE  y = v
  <2>1. Cong(v, v) /\ (y - v) + v = y /\ 0 + v = v
    BY <1>1 DEF Cong
  <2>2. Cong((y - v) + v, 0 + v)
    BY ONLY <1>1, <1>4, <1>8, <2>1, CongAdd
  <2> QED
    BY <1>1, <2>1, <2>2, CongField
<1> QED
  BY <1>1, <1>7, <1>8 DEF y, v, x

\* The formulas stay within the coordinates, for all curves.
LEMMA CoordinatesClosed ==
  ASSUME NEW P \in Coordinates, NEW Q \in Coordinates
  PROVE  jprj_pt_dbl_monty(P) \in Coordinates /\ jprj_pt_add_monty(P, Q) \in Coordinates
<1>1. \A x, y, z \in Elements : Point(x, y, z) \in Coordinates
  BY DEF Point, Coordinates
<1>2. \A D \in Coordinates : D.X \in Elements /\ D.Y \in Elements /\ D.Z \in Elements
  BY DEF Coordinates
<1>3. ASSUME NEW D \in Coordinates
      PROVE  jprj_pt_dbl_monty(D) \in Coordinates
  <2> DEFINE z2 == fp_mul_redc1(D.Z, D.Z)
             x2 == fp_mul_redc1(fp_add(D.X, z2), fp_sub(D.X, z2))
             M == fp_add(fp_add(x2, x2), x2)
             yy == fp_add(fp_mul_redc1(D.Y, D.Y), fp_mul_redc1(D.Y, D.Y))
             y4 == fp_add(fp_mul_redc1(yy, yy), fp_mul_redc1(yy, yy))
             S == fp_mul_redc1(fp_add(yy, yy), D.X)
             X == fp_sub(fp_sub(fp_mul_redc1(M, M), S), S)
             Y == fp_sub(fp_mul_redc1(fp_sub(S, X), M), y4)
             Z == fp_mul_redc1(D.Z, D.Y)
  <2>1. jprj_pt_dbl_monty(D) = IF prj_pt_iszero(D) THEN prj_pt_zero ELSE Point(X, Y, fp_add(Z, Z))
    BY DEF jprj_pt_dbl_monty
  <2>2. D.X \in Elements /\ D.Y \in Elements /\ D.Z \in Elements
    BY <1>2
  <2>3. z2 \in Elements /\ yy \in Elements /\ Z \in Elements
    BY ONLY <2>2, ElementOps
  <2> HIDE DEF z2, yy, Z
  <2>4. x2 \in Elements /\ y4 \in Elements /\ S \in Elements
    BY ONLY <2>2, <2>3, ElementOps
  <2> HIDE DEF x2, y4, S
  <2>5. M \in Elements
    BY ONLY <2>4, ElementOps
  <2> HIDE DEF M
  <2>6. X \in Elements
    BY ONLY <2>4, <2>5, ElementOps
  <2> HIDE DEF X
  <2>7. Y \in Elements /\ fp_add(Z, Z) \in Elements
    BY ONLY <2>3, <2>4, <2>5, <2>6, ElementOps
  <2> QED
    BY <1>1, <2>1, <2>6, <2>7, ZeroIsInfinity
<1>4. jprj_pt_add_monty(P, Q) \in Coordinates
  <2> DEFINE z1 == fp_mul_redc1(P.Z, P.Z)
             z2 == fp_mul_redc1(Q.Z, Q.Z)
             u1 == fp_mul_redc1(P.X, z2)
             s1 == fp_mul_redc1(P.Y, fp_mul_redc1(z2, Q.Z))
             h == fp_sub(fp_mul_redc1(Q.X, z1), u1)
             r == fp_sub(fp_mul_redc1(Q.Y, fp_mul_redc1(z1, P.Z)), s1)
             h2 == fp_mul_redc1(h, h)
             h3 == fp_mul_redc1(h2, h)
             U == fp_mul_redc1(u1, h2)
             X == fp_sub(fp_sub(fp_sub(fp_mul_redc1(r, r), h3), U), U)
             Y == fp_sub(fp_mul_redc1(fp_sub(U, X), r), fp_mul_redc1(s1, h3))
             Z == fp_mul_redc1(fp_mul_redc1(P.Z, Q.Z), h)
             D == jprj_pt_add_monty(P, Q)
  <2>1. D \in {Q, P, jprj_pt_dbl_monty(P), Point(X, Y, Z)}
    BY DEF jprj_pt_add_monty, JacobianSum
  <2>2. P.X \in Elements /\ P.Y \in Elements /\ P.Z \in Elements
        /\ Q.X \in Elements /\ Q.Y \in Elements /\ Q.Z \in Elements
    BY <1>2
  <2> HIDE DEF D
  <2>3. z1 \in Elements /\ z2 \in Elements
    BY ONLY <2>2, ElementOps
  <2> HIDE DEF z1, z2
  <2>4. u1 \in Elements /\ s1 \in Elements
    BY ONLY <2>2, <2>3, ElementOps
  <2> HIDE DEF u1, s1
  <2>5. h \in Elements /\ r \in Elements
    BY ONLY <2>2, <2>3, <2>4, ElementOps
  <2> HIDE DEF h, r
  <2>6. h2 \in Elements
    BY ONLY <2>5, ElementOps
  <2> HIDE DEF h2
  <2>7. h3 \in Elements /\ U \in Elements /\ Z \in Elements
    BY ONLY <2>2, <2>4, <2>5, <2>6, ElementOps
  <2> HIDE DEF h3, U, Z
  <2>8. X \in Elements
    BY ONLY <2>5, <2>7, ElementOps
  <2> HIDE DEF X
  <2>9. Y \in Elements
    BY ONLY <2>4, <2>5, <2>7, <2>8, ElementOps
  <2> QED
    BY <1>1, <1>3, <2>1, <2>7, <2>8, <2>9 DEF D
<1> QED
  BY <1>3, <1>4
=============================================================================
