------------------------------ MODULE PrjPtProofs ------------------------------
(***************************************************************************)
(* Proofs about points: the formulas of both builds and both forms against *)
(* the law of chord and tangent, and the invariants of PrjPt.              *)
(***************************************************************************)
EXTENDS PrjPt, CurveLemmas

-----------------------------------------------------------------------------
(* Curves and their points.                                                  *)

\* A curve as ec_shortw_crv_init leaves it.
IsCurve(c) ==
  /\ c.a.plain \in Field /\ c.b \in Field
  /\ \A form \in Forms : /\ c.a[form] \in Field /\ Rep(form, c.a[form], c.a.plain)
                         /\ c.b3[form] \in Field /\ Rep(form, c.b3[form], 3 * c.b)
  /\ c.a.monty = 0 <=> c.a.plain = 0
  /\ ~Cong(4 * (c.a.plain * c.a.plain * c.a.plain) + 27 * (c.b * c.b), 0)

LEMMA CurveInit ==
  ASSUME NEW a \in Field, NEW b \in Field, (4 * a^3 + 27 * b^2) % p # 0
  PROVE  IsCurve(ec_shortw_crv_init(a, b))
<1> DEFINE c == ec_shortw_crv_init(a, b)
           b3 == fp_add(fp_add(b, b), b)
<1>1. /\ c.a.plain = a /\ c.a.monty = fp_redcify(a) /\ c.a["plain"] = a /\ c.a["monty"] = fp_redcify(a)
      /\ c.b = b /\ c.b3["plain"] = b3 /\ c.b3["monty"] = fp_redcify(b3)
  BY DEF ec_shortw_crv_init
<1>2. a \in Elements /\ b \in Elements /\ a \in Int /\ b \in Int
  BY ElementsInt
<1>3. Rep("plain", a, a) /\ Rep("plain", b, b)
  BY <1>2, RepPlain
<1>4. Rep("plain", b3, 3 * b) /\ b3 \in Field
  <2>1. Rep("plain", b3, (b + b) + b)
    BY <1>3, RepAdd DEF Forms
  <2>2. (b + b) + b = 3 * b
    BY <1>2
  <2> QED
    BY <2>1, <2>2, FieldSums
<1>5. /\ fp_redcify(a) \in Field /\ Rep("monty", fp_redcify(a), a)
      /\ fp_redcify(b3) \in Field /\ Rep("monty", fp_redcify(b3), 3 * b)
  BY <1>3, <1>4, Redcify
<1>6. fp_redcify(a) = 0 <=> a = 0
  <2>1. fp_redcify(a) = 0 <=> Cong(a, 0)
    BY <1>5, RepZero DEF Forms
  <2>2. Cong(a, 0) <=> a = 0
    BY CongField, PBounds DEF Cong, Field
  <2> QED
    BY <2>1, <2>2
<1>7. ~Cong(4 * (a * a * a) + 27 * (b * b), 0)
  BY PowersAssumption, PBounds DEF Cong
<1>8. \A form \in Forms : /\ c.a[form] \in Field /\ Rep(form, c.a[form], a)
                          /\ c.b3[form] \in Field /\ Rep(form, c.b3[form], 3 * b)
  BY <1>1, <1>3, <1>4, <1>5 DEF Forms
<1> HIDE DEF c
<1> QED
  BY <1>1, <1>6, <1>7, <1>8 DEF IsCurve, c

\* The equation of the curve.
Equation(c, x, y) == Cong(y * y, x * x * x + c.a.plain * x + c.b)

LEMMA PointOnCurve ==
  ASSUME NEW c, c.a.plain \in Int, c.b \in Int, NEW A \in Pairs
  PROVE  /\ OnCurve(c, A) <=> Equation(c, A[1], A[2])
         /\ A \in Group(c) <=> OnCurve(c, A)
<1> DEFINE x == A[1]
           y == A[2]
           f == x * x * x + c.a.plain * x + c.b
           s == y * y
<1>1. x \in Field /\ y \in Field /\ x \in Int /\ y \in Int /\ A # Infinity
  BY PairsInt
<1>0. x^3 = x * x * x /\ y^2 = s /\ 0 % p = 0
  BY <1>1, PowersAssumption, PBounds
<1>2. f \in Int /\ s \in Int /\ s - f \in Int /\ 0 \in Int
  BY <1>1
<1>3. OnCurve(c, A) <=> Cong(s - f, 0)
  BY <1>0, <1>1, <1>2 DEF OnCurve, Cong
<1> HIDE DEF s, f
<1>4. Cong(s - f, 0) => Cong(s, f)
  <2>1. Cong(f, f) /\ (s - f) + f = s /\ 0 + f = f
    BY <1>2 DEF Cong
  <2>2. Cong(s - f, 0) => Cong((s - f) + f, 0 + f)
    BY ONLY <1>2, <2>1, CongAdd
  <2> QED
    BY <2>1, <2>2
<1>5. Cong(s, f) => Cong(s - f, 0)
  <2>1. Cong(f, f) /\ f - f = 0
    BY <1>2 DEF Cong
  <2>2. Cong(s, f) => Cong(s - f, f - f)
    BY ONLY <1>2, <2>1, CongSub
  <2> QED
    BY <2>1, <2>2
<1>6. A \in Group(c) <=> OnCurve(c, A)
  BY <1>1 DEF Group, Pairs
<1> QED
  BY <1>3, <1>4, <1>5, <1>6 DEF Equation, s, f

LEMMA GroupPoints ==
  ASSUME NEW c, c.a.plain \in Int, c.b \in Int, NEW A \in Group(c)
  PROVE  /\ OnCurve(c, A)
         /\ A # Infinity => A \in Pairs /\ Equation(c, A[1], A[2])
<1>1. CASE A = Infinity
  <2>1. OnCurve(c, A)
    BY <1>1 DEF OnCurve
  <2> QED
    BY <1>1, <2>1
<1>2. CASE A # Infinity
  <2>1. A \in Pairs
    BY <1>2 DEF Group, Pairs
  <2> QED
    BY <2>1, PointOnCurve
<1> QED
  BY <1>1, <1>2

\* The opposite of a point is one.
LEMMA OppositePoint ==
  ASSUME NEW c, c.a.plain \in Int, c.b \in Int, NEW A \in Group(c), A # Infinity
  PROVE  /\ Opposite(A) \in Group(c) /\ Opposite(A) \in Pairs
         /\ Opposite(A)[1] = A[1] /\ Cong(Opposite(A)[2], -A[2])
<1> DEFINE y == (p - A[2]) % p
           B == <<A[1], y>>
           f == A[1] * A[1] * A[1] + c.a.plain * A[1] + c.b
<1>1. /\ A \in Pairs /\ Equation(c, A[1], A[2])
      /\ A[1] \in Field /\ A[1] \in Int /\ A[2] \in Int /\ p \in Nat
  BY GroupPoints, PairsInt, PBounds
<1>2. y \in Field /\ y \in Int /\ Cong(y, -A[2])
  <2>1. p - A[2] \in Int /\ -A[2] \in Int /\ p - A[2] = -A[2] + p * 1 /\ 1 \in Int
    BY <1>1
  <2>2. y \in Field /\ y \in Int /\ Cong(y, p - A[2])
    BY ONLY <2>1, CongMod DEF y
  <2>3. Cong(p - A[2], -A[2])
    BY ONLY <2>1, CongOf
  <2> QED
    BY <2>2, <2>3 DEF Cong
<1> HIDE DEF y
<1>3. B \in Pairs /\ B[1] = A[1] /\ B[2] = y /\ Opposite(A) = B
  BY <1>1, <1>2 DEF Pairs, Opposite, y
<1>4. Equation(c, A[1], y)
  <2>1. Cong(y * y, (-A[2]) * (-A[2])) /\ (-A[2]) * (-A[2]) = A[2] * A[2]
    <3>1. -A[2] \in Int /\ (-A[2]) * (-A[2]) = A[2] * A[2]
      BY <1>1
    <3>2. Cong(y * y, (-A[2]) * (-A[2]))
      BY ONLY <1>2, <3>1, CongMul
    <3> QED
      BY <3>1, <3>2
  <2> QED
    BY <1>1, <2>1 DEF Equation, Cong
<1> HIDE DEF B
<1>5. B \in Group(c)
  BY <1>3, <1>4, PointOnCurve
<1> QED
  BY <1>2, <1>3, <1>5

\* Congruent coordinates and coefficients satisfy the same equation.
LEMMA EquationCong ==
  ASSUME NEW x \in Int, NEW y \in Int, NEW a \in Int, NEW b \in Int,
         NEW u \in Int, NEW v \in Int, NEW d \in Int, NEW e \in Int,
         Cong(x, u), Cong(y, v), Cong(a, d), Cong(b, e)
  PROVE  /\ Cong(y * y, v * v)
         /\ Cong(x * x * x + a * x + b, u * u * u + d * u + e)
<1>0. p \in Nat
  BY PBounds
<1>1. /\ \E i \in Int : x = u + p * i
      /\ \E j \in Int : y = v + p * j
      /\ \E k \in Int : a = d + p * k
      /\ \E l \in Int : b = e + p * l
  BY CongMeans
<1>2. PICK i \in Int : x = u + p * i
  BY <1>1
<1>3. PICK j \in Int : y = v + p * j
  BY <1>1
<1>4. PICK k \in Int : a = d + p * k
  BY <1>1
<1>5. PICK l \in Int : b = e + p * l
  BY <1>1
<1>6. y * y \in Int /\ v * v \in Int /\ y * y = v * v + p * (2 * v * j + p * j * j)
      /\ 2 * v * j + p * j * j \in Int
  BY <1>0, <1>3
<1> DEFINE n == 3 * u * u * i + 3 * u * p * i * i + p * p * i * i * i + d * i + k * u + p * k * i + l
<1>7. /\ x * x * x + a * x + b = (u * u * u + d * u + e) + p * n
      /\ x * x * x + a * x + b \in Int /\ u * u * u + d * u + e \in Int /\ n \in Int
  BY <1>0, <1>2, <1>4, <1>5
<1> HIDE DEF n
<1> QED
  BY ONLY <1>6, <1>7, CongOf

\* The line through two points with different abscissas.  The coordinates and the
\* coefficients of the curve are polynomials, modulo p, in x and the parameters
\* d, l and h: the abscissas are x and x + d, the slope is l, the first ordinate
\* is d h.
ChordA(x, d, l, h) ==
  2 * (d * h) * l + l * l * d - (x * x + x * (x + d) + (x + d) * (x + d))
ChordB(x, d, l, h) == (d * h) * (d * h) - x * x * x - ChordA(x, d, l, h) * x
ThirdX(x, d, l) == l * l - x - (x + d)
ThirdY(x, d, l, h) == l * (x - ThirdX(x, d, l)) - d * h

LEMMA ChordTypes ==
  ASSUME NEW x \in Int, NEW d \in Int, NEW l \in Int, NEW h \in Int
  PROVE  /\ ChordA(x, d, l, h) \in Int /\ ChordB(x, d, l, h) \in Int
         /\ ThirdX(x, d, l) \in Int /\ ThirdY(x, d, l, h) \in Int
BY DEF ChordA, ChordB, ThirdX, ThirdY

Chord(c, A, B, C, d, l, h) ==
  /\ d \in Int /\ l \in Int /\ h \in Int /\ ~Cong(d, 0) /\ B[1] = A[1] + d
  /\ Cong(A[2], d * h) /\ Cong(B[2], d * (h + l))
  /\ Cong(c.a.plain, ChordA(A[1], d, l, h)) /\ Cong(c.b, ChordB(A[1], d, l, h))
  /\ C \in Pairs /\ Cong(C[1], ThirdX(A[1], d, l)) /\ Cong(C[2], ThirdY(A[1], d, l, h))

\* The coefficients from two points on a line.
LEMMA ChordCoefficients ==
  ASSUME NEW a \in Int, NEW b \in Int, NEW x \in Int, NEW d \in Int, NEW l \in Int, NEW h \in Int,
         NEW y \in Int, NEW v \in Int, ~Cong(d, 0), Cong(y, d * h), Cong(v, d * (h + l)),
         Cong(y * y, x * x * x + a * x + b),
         Cong(v * v, (x + d) * (x + d) * (x + d) + a * (x + d) + b)
  PROVE  Cong(a, ChordA(x, d, l, h)) /\ Cong(b, ChordB(x, d, l, h))
<1> DEFINE e == ChordA(x, d, l, h)
           f == x * x * x + a * x + b
           g == (x + d) * (x + d) * (x + d) + a * (x + d) + b
<1>0. p \in Nat /\ e \in Int /\ f \in Int /\ g \in Int /\ y * y \in Int /\ v * v \in Int
      /\ d * h \in Int /\ d * (h + l) \in Int /\ 0 \in Int /\ a - e \in Int
  <2>1. e \in Int
    BY ChordTypes
  <2> HIDE DEF e
  <2> QED
    BY <2>1, PBounds
<1>1. /\ \E i \in Int : y = d * h + p * i
      /\ \E j \in Int : v = d * (h + l) + p * j
      /\ \E k \in Int : y * y = f + p * k
      /\ \E m \in Int : v * v = g + p * m
  <2>1. \E i \in Int : y = d * h + p * i
    BY ONLY <1>0, y \in Int, Cong(y, d * h), CongMeans
  <2>2. \E j \in Int : v = d * (h + l) + p * j
    BY ONLY <1>0, v \in Int, Cong(v, d * (h + l)), CongMeans
  <2>3. Cong(y * y, f) /\ Cong(v * v, g)
    OBVIOUS
  <2> HIDE DEF f, g
  <2>4. \E k \in Int : y * y = f + p * k
    BY ONLY <1>0, <2>3, CongMeans
  <2>5. \E m \in Int : v * v = g + p * m
    BY ONLY <1>0, <2>3, CongMeans
  <2> QED
    BY <2>1, <2>2, <2>4, <2>5
<1>2. PICK i \in Int : y = d * h + p * i
  BY <1>1
<1>3. PICK j \in Int : v = d * (h + l) + p * j
  BY <1>1
<1>4. PICK k \in Int : y * y = f + p * k
  BY <1>1
<1>5. PICK m \in Int : v * v = g + p * m
  BY <1>1
<1> DEFINE n == 2 * (d * (h + l)) * j + p * j * j - 2 * (d * h) * i - p * i * i + k - m
<1>6. (a - e) * d = 0 * d + p * n /\ n \in Int /\ (a - e) * d \in Int /\ 0 * d \in Int
  BY <1>0, <1>2, <1>3, <1>4, <1>5 DEF ChordA
<1> HIDE DEF n, e
<1>7. Cong(a - e, 0)
  <2>1. Cong((a - e) * d, 0 * d)
    BY ONLY <1>6, CongOf
  <2> QED
    BY ONLY <1>0, <2>1, ~Cong(d, 0), d \in Int, CongCancel
<1>8. PICK q \in Int : a - e = 0 + p * q
  BY <1>0, <1>7, CongMeans
<1>9. a = e + p * q
  BY <1>0, <1>8
<1> DEFINE r == 2 * (d * h) * i + p * i * i - q * x - k
<1>10. b = ChordB(x, d, l, h) + p * r /\ r \in Int
  BY <1>0, <1>2, <1>4, <1>9 DEF ChordB, e
<1> HIDE DEF r
<1>11. Cong(b, ChordB(x, d, l, h))
  BY ONLY <1>10, ChordTypes, CongOf, b \in Int, x \in Int, d \in Int, l \in Int, h \in Int
<1>12. Cong(a, e)
  BY ONLY <1>0, <1>9, CongOf, a \in Int
<1> QED
  BY <1>11, <1>12 DEF e

\* Another slope that is congruent.
LEMMA ThirdCong ==
  ASSUME NEW x \in Int, NEW d \in Int, NEW h \in Int, NEW l \in Int, NEW m \in Int, Cong(l, m)
  PROVE  Cong(ThirdY(x, d, l, h), ThirdY(x, d, m, h))
<1>0. p \in Nat
  BY PBounds
<1>1. PICK k \in Int : l = m + p * k
  BY <1>0, CongMeans
<1> DEFINE n == (x - (m * m - x - (x + d))) * k - (2 * m * k + p * k * k) * (m + p * k)
<1>2. ThirdY(x, d, l, h) = ThirdY(x, d, m, h) + p * n /\ n \in Int
  BY <1>0, <1>1 DEF ThirdX, ThirdY
<1> HIDE DEF n
<1> QED
  BY ONLY <1>2, x \in Int, d \in Int, h \in Int, l \in Int, m \in Int, ChordTypes, CongOf

\* Where a line meets the curve for the third time, from the abscissa it has.
LEMMA ThirdPoint ==
  ASSUME NEW A \in Pairs, NEW B \in Pairs, NEW C, NEW l, OnLine(A, B, C, l),
         NEW d \in Int, NEW y \in Int, B[1] = A[1] + d, Cong(A[2], y)
  PROVE  /\ C \in Pairs /\ Cong(C[1], ThirdX(A[1], d, l))
         /\ Cong(C[2], l * (A[1] - ThirdX(A[1], d, l)) - y)
<1> DEFINE x == A[1]
           u == C[1]
           t == ThirdX(x, d, l)
<1>1. /\ C \in Pairs /\ l \in Int /\ x \in Int /\ A[2] \in Int /\ u \in Int /\ C[2] \in Int
      /\ Cong(u, l * l - x - (x + d)) /\ Cong(C[2], l * (x - u) - A[2])
  BY PairsInt DEF OnLine
<1>2. Cong(u, t) /\ t \in Int
  BY <1>1 DEF ThirdX
<1> HIDE DEF x, u, t
<1>3. Cong(x, x) /\ Cong(l, l) /\ x - u \in Int /\ x - t \in Int
      /\ l * (x - u) \in Int /\ l * (x - t) \in Int
  BY <1>1, <1>2 DEF Cong
<1>4. Cong(x - u, x - t)
  BY ONLY <1>1, <1>2, <1>3, CongSub
<1>5. Cong(l * (x - u), l * (x - t))
  BY ONLY <1>1, <1>3, <1>4, CongMul
<1>6. Cong(l * (x - u) - A[2], l * (x - t) - y)
  BY ONLY <1>1, <1>3, <1>5, y \in Int, Cong(A[2], y), CongSub
<1> QED
  BY <1>1, <1>2, <1>6 DEF Cong, x, u, t

LEMMA ChordOf ==
  ASSUME NEW c, IsCurve(c), NEW A \in Group(c), NEW B \in Group(c), A # Infinity, B # Infinity,
         NEW C, NEW l \in Int, NEW d \in Int, NEW h \in Int, B[1] = A[1] + d, ~Cong(d, 0),
         Cong(l * (B[1] - A[1]), B[2] - A[2]), OnLine(A, B, C, l), Cong(A[2], d * h)
  PROVE  Chord(c, A, B, C, d, l, h)
<1> DEFINE x == A[1]
           y == A[2]
           v == B[2]
           a == c.a.plain
           b == c.b
<1>1. /\ A \in Pairs /\ B \in Pairs /\ x \in Int /\ y \in Int /\ v \in Int /\ a \in Int /\ b \in Int
      /\ Cong(y * y, x * x * x + a * x + b)
      /\ Cong(v * v, (x + d) * (x + d) * (x + d) + a * (x + d) + b)
  <2>1. a \in Int /\ b \in Int
    BY ElementsInt DEF IsCurve
  <2> QED
    BY <2>1, GroupPoints, PairsInt DEF Equation
<1>2. Cong(v, d * (h + l))
  <2>1. /\ l * (B[1] - x) = l * d /\ v - y \in Int /\ (v - y) + y = v /\ l * d + d * h = d * (h + l)
        /\ l * d \in Int /\ d * h \in Int
    BY <1>1
  <2>2. Cong(v - y, l * d)
    BY <2>1 DEF Cong
  <2> HIDE DEF y, v
  <2>3. Cong((v - y) + y, l * d + d * h)
    BY ONLY <1>1, <2>1, <2>2, Cong(y, d * h), CongAdd DEF y
  <2> QED
    BY <2>1, <2>3
<1> HIDE DEF x, y, v, a, b
<1>3. Cong(a, ChordA(x, d, l, h)) /\ Cong(b, ChordB(x, d, l, h))
  BY <1>1, <1>2, ChordCoefficients DEF y
<1>4. d * h \in Int
  OBVIOUS
<1>5. C \in Pairs /\ Cong(C[1], ThirdX(x, d, l)) /\ Cong(C[2], ThirdY(x, d, l, h))
  BY <1>1, <1>4, ThirdPoint DEF ThirdY, x
<1> QED
  BY <1>2, <1>3, <1>5 DEF Chord, x, v, a, b

\* Two points with different abscissas, their sum and their difference.
LEMMA ChordPoints ==
  ASSUME NEW c, IsCurve(c), NEW A \in Group(c), NEW B \in Group(c), A # Infinity, B # Infinity,
         A[1] # B[1]
  PROVE  \E d, l, m, h \in Int :
           /\ Chord(c, A, B, Plus(c, A, B), d, l, h)
           /\ Chord(c, A, Opposite(B), Plus(c, A, Opposite(B)), d, m, h)
           /\ Cong(m, -(2 * h) - l)
<1> DEFINE x == A[1]
           y == A[2]
           d == B[1] - A[1]
           i == Inverse[d % p]
           h == y * i
           O == Opposite(B)
<1>1. /\ A \in Pairs /\ B \in Pairs /\ O \in Pairs /\ O \in Group(c) /\ O # Infinity
      /\ O[1] = B[1] /\ Cong(O[2], -B[2])
      /\ x \in Field /\ x \in Int /\ y \in Int /\ B[1] \in Field /\ B[1] \in Int /\ B[2] \in Int /\ O[2] \in Int
      /\ d \in Int /\ B[1] = x + d
  <2>1. c.a.plain \in Int /\ c.b \in Int
    BY ElementsInt DEF IsCurve
  <2>2. A \in Pairs /\ B \in Pairs /\ O \in Pairs /\ O \in Group(c) /\ O[1] = B[1] /\ Cong(O[2], -B[2])
    BY <2>1, GroupPoints, OppositePoint
  <2> HIDE DEF O
  <2>3. O # Infinity /\ O[2] \in Int /\ x \in Field /\ x \in Int /\ y \in Int
        /\ B[1] \in Field /\ B[1] \in Int /\ B[2] \in Int
    BY <2>2, PairsInt
  <2> QED
    BY <2>2, <2>3
<1> HIDE DEF O
<1>2. ~Cong(d, 0)
  <2>1. ASSUME Cong(d, 0) PROVE FALSE
    <3>1. Cong(x, x) /\ 0 \in Int /\ d + x = B[1] /\ 0 + x = x
      BY <1>1 DEF Cong
    <3>2. Cong(d + x, 0 + x)
      BY ONLY <1>1, <2>1, <3>1, CongAdd
    <3> QED
      BY <1>1, <3>1, <3>2, CongField
  <2> QED
    BY <2>1
<1>3. i \in Int /\ Cong(d * i, 1)
  BY <1>1, <1>2, InverseOf
<1> HIDE DEF i
<1>4. h \in Int /\ Cong(y, d * h)
  <2>1. Cong(y, y) /\ d * i \in Int /\ 1 \in Int /\ y * 1 = y /\ y * (d * i) = d * h /\ h \in Int
    BY <1>1, <1>3 DEF Cong
  <2>2. Cong(y * (d * i), y * 1)
    BY ONLY <1>1, <1>3, <2>1, CongMul
  <2> QED
    BY <2>1, <2>2 DEF Cong
<1> HIDE DEF h
<1>5. PICK l \in Int : Cong(l * (B[1] - A[1]), B[2] - A[2]) /\ OnLine(A, B, Plus(c, A, B), l)
  BY <1>1, PlusChord
<1>6. PICK m \in Int : Cong(m * (O[1] - A[1]), O[2] - A[2]) /\ OnLine(A, O, Plus(c, A, O), m)
  BY <1>1, PlusChord
<1>7. Chord(c, A, B, Plus(c, A, B), d, l, h)
  BY <1>1, <1>2, <1>4, <1>5, ChordOf DEF x
<1>8. Chord(c, A, O, Plus(c, A, O), d, m, h)
  <2>1. O[1] = A[1] + d
    BY <1>1
  <2> HIDE DEF d
  <2> QED
    BY <1>1, <1>2, <1>4, <1>6, <2>1, ChordOf
<1>9. Cong(m, -(2 * h) - l)
  <2> DEFINE s == d * (h + l)
             t == d * (h + m)
             n == -(2 * h) - l
  <2>1. Cong(B[2], s) /\ Cong(O[2], t)
    BY <1>7, <1>8 DEF Chord
  <2>2. /\ s \in Int /\ t \in Int /\ n \in Int /\ -B[2] \in Int /\ -B[2] = 0 - B[2] /\ 0 \in Int
        /\ Cong(0, 0) /\ t - d * h = m * d /\ (0 - s) - d * h = n * d /\ d * h \in Int
        /\ 0 - s \in Int /\ m * d \in Int /\ n * d \in Int /\ Cong(d * h, d * h)
    BY <1>1, <1>4, <1>5, <1>6 DEF Cong
  <2> HIDE DEF s, t, n, d
  <2>3. Cong(0 - B[2], 0 - s)
    BY ONLY <1>1, <2>1, <2>2, CongSub
  <2>4. Cong(t, 0 - s)
    BY <1>1, <2>1, <2>2, <2>3 DEF Cong
  <2>5. Cong(t - d * h, (0 - s) - d * h)
    BY ONLY <2>2, <2>4, CongSub
  <2>6. Cong(m * d, n * d)
    BY <2>2, <2>5
  <2> QED
    BY ONLY <1>1, <1>2, <1>6, <2>2, <2>6, CongCancel DEF n
<1> QED
  BY <1>1, <1>4, <1>7, <1>8, <1>9 DEF O

\* The tangent of slope l at (x, y).
TangentA(x, l, y) == 2 * y * l - 3 * (x * x)
TangentB(x, l, y) == y * y - x * x * x - TangentA(x, l, y) * x
TangentY(x, l, y) == l * (x - ThirdX(x, 0, l)) - y

LEMMA TangentTypes ==
  ASSUME NEW x \in Int, NEW l \in Int, NEW y \in Int
  PROVE  /\ TangentA(x, l, y) \in Int /\ TangentB(x, l, y) \in Int
         /\ ThirdX(x, 0, l) \in Int /\ TangentY(x, l, y) \in Int
BY DEF TangentA, TangentB, ThirdX, TangentY

Tangent(c, A, C, l) ==
  /\ l \in Int
  /\ Cong(c.a.plain, TangentA(A[1], l, A[2])) /\ Cong(c.b, TangentB(A[1], l, A[2]))
  /\ C \in Pairs /\ Cong(C[1], ThirdX(A[1], 0, l)) /\ Cong(C[2], TangentY(A[1], l, A[2]))

LEMMA TangentPoint ==
  ASSUME NEW c, IsCurve(c), NEW A \in Group(c), A # Infinity, ~Cong(2 * A[2], 0)
  PROVE  \E l \in Int : Tangent(c, A, Plus(c, A, A), l)
<1> DEFINE x == A[1]
           y == A[2]
           a == c.a.plain
           b == c.b
           C == Plus(c, A, A)
<1>1. /\ A \in Pairs /\ x \in Int /\ y \in Int /\ a \in Int /\ b \in Int
      /\ Cong(y * y, x * x * x + a * x + b)
  <2>1. a \in Int /\ b \in Int
    BY ElementsInt DEF IsCurve
  <2> QED
    BY <2>1, GroupPoints, PairsInt DEF Equation
<1>2. PICK l \in Int : Cong(l * (2 * y), 3 * (x * x) + a) /\ OnLine(A, A, C, l)
  BY <1>1, PlusTangent
<1> HIDE DEF C
<1>3. C \in Pairs /\ Cong(C[1], ThirdX(x, 0, l)) /\ Cong(C[2], TangentY(x, l, y))
  <2>1. A[1] = A[1] + 0 /\ 0 \in Int /\ y \in Int /\ Cong(A[2], y)
    BY <1>1 DEF Cong
  <2> HIDE DEF x, y
  <2> QED
    BY <1>1, <1>2, <2>1, ThirdPoint DEF TangentY, x
<1> HIDE DEF x, y, a, b
<1>4. p \in Nat /\ l * (2 * y) \in Int /\ 3 * (x * x) + a \in Int
      /\ y * y \in Int /\ x * x * x + a * x + b \in Int
  BY <1>1, PBounds
<1>5. PICK k \in Int : l * (2 * y) = (3 * (x * x) + a) + p * k
  BY ONLY <1>2, <1>4, CongMeans
<1>6. PICK j \in Int : y * y = (x * x * x + a * x + b) + p * j
  BY ONLY <1>1, <1>4, CongMeans
<1>7. a = TangentA(x, l, y) + p * (-k) /\ -k \in Int
  BY <1>1, <1>4, <1>5 DEF TangentA
<1>8. b = TangentB(x, l, y) + p * (k * x - j) /\ k * x - j \in Int
  <2> DEFINE t == TangentA(x, l, y)
  <2>1. t \in Int /\ a = t + p * (-k) /\ TangentB(x, l, y) = y * y - x * x * x - t * x
    BY <1>1, <1>2, <1>7, TangentTypes DEF TangentB
  <2> HIDE DEF t
  <2>2. b = y * y - x * x * x - a * x - p * j
    BY <1>1, <1>4, <1>6
  <2>3. b = (y * y - x * x * x - t * x) + p * (k * x - j)
    BY <1>1, <1>4, <2>1, <2>2
  <2> QED
    BY <1>1, <2>1, <2>3
<1>9. Cong(a, TangentA(x, l, y)) /\ Cong(b, TangentB(x, l, y))
  BY ONLY <1>1, <1>2, <1>7, <1>8, TangentTypes, CongOf
<1> QED
  BY <1>3, <1>9 DEF Tangent, C, x, y, a, b

\* Three ways to add two points that are not infinity.
LEMMA PlusCases ==
  ASSUME NEW c, IsCurve(c), NEW A \in Group(c), NEW B \in Group(c), A # Infinity, B # Infinity
  PROVE  \/ A[1] # B[1]
         \/ A = B /\ ~Cong(2 * A[2], 0)
         \/ A[1] = B[1] /\ Cong(A[2] + B[2], 0) /\ Plus(c, A, B) = Infinity
<1>1. /\ c.a.plain \in Int /\ c.b \in Int /\ OnCurve(c, A) /\ OnCurve(c, B)
      /\ A \in Pairs /\ B \in Pairs /\ A[2] \in Int /\ B[2] \in Int
  <2>1. c.a.plain \in Int /\ c.b \in Int
    BY ElementsInt DEF IsCurve
  <2> QED
    BY <2>1, GroupPoints, PairsInt
<1>2. Compatible(A, B)
  BY <1>1, CurveCompatible
<1>3. ASSUME A[1] = B[1], Cong(A[2] + B[2], 0)
      PROVE  Plus(c, A, B) = Infinity
  <2>1. (A[2] + B[2]) % p = 0
    BY <1>3, PBounds DEF Cong
  <2> QED
    BY <1>3, <2>1 DEF Plus
<1>4. ASSUME A = B, Cong(2 * A[2], 0)
      PROVE  Cong(A[2] + B[2], 0)
  <2>1. 2 * A[2] = A[2] + B[2]
    BY <1>1, <1>4
  <2> QED
    BY <1>4, <2>1
<1> QED
  BY <1>2, <1>3, <1>4 DEF Compatible

\* The line meets the curve in points of the curve.
LEMMA ThirdOnCurve ==
  ASSUME NEW x \in Int, NEW d \in Int, NEW l \in Int, NEW h \in Int
  PROVE  LET u == ThirdX(x, d, l)
             v == ThirdY(x, d, l, h)
         IN  v * v = u * u * u + ChordA(x, d, l, h) * u + ChordB(x, d, l, h)
BY DEF ThirdX, ThirdY, ChordA, ChordB

LEMMA TangentOnCurve ==
  ASSUME NEW x \in Int, NEW l \in Int, NEW y \in Int
  PROVE  LET u == ThirdX(x, 0, l)
             v == TangentY(x, l, y)
         IN  v * v = u * u * u + TangentA(x, l, y) * u + TangentB(x, l, y)
BY DEF ThirdX, TangentY, TangentA, TangentB

LEMMA OnCurveFrom ==
  ASSUME NEW c, c.a.plain \in Int, c.b \in Int, NEW C \in Pairs,
         NEW u \in Int, NEW v \in Int, NEW d \in Int, NEW e \in Int,
         Cong(C[1], u), Cong(C[2], v), Cong(c.a.plain, d), Cong(c.b, e),
         v * v = u * u * u + d * u + e
  PROVE  C \in Group(c)
<1> DEFINE x == C[1]
           y == C[2]
           a == c.a.plain
           b == c.b
<1>1. /\ x \in Int /\ y \in Int /\ a \in Int /\ b \in Int
      /\ Cong(x, u) /\ Cong(y, v) /\ Cong(a, d) /\ Cong(b, e)
  BY PairsInt
<1> HIDE DEF x, y, a, b
<1>2. Cong(y * y, v * v) /\ Cong(x * x * x + a * x + b, u * u * u + d * u + e)
  BY ONLY <1>1, u \in Int, v \in Int, d \in Int, e \in Int, EquationCong
<1>3. Cong(y * y, x * x * x + a * x + b)
  BY <1>2 DEF Cong
<1> QED
  BY <1>3, PointOnCurve DEF Equation, x, y, a, b

\* The sum of two points of the curve is one.
LEMMA PlusClosed ==
  ASSUME NEW c, IsCurve(c), NEW A \in Group(c), NEW B \in Group(c)
  PROVE  Plus(c, A, B) \in Group(c)
<1>1. c.a.plain \in Int /\ c.b \in Int /\ Infinity \in Group(c)
  BY ElementsInt DEF IsCurve, Group
<1>2. CASE A = Infinity \/ B = Infinity
  BY <1>2 DEF Plus
<1>3. CASE A # Infinity /\ B # Infinity /\ A[1] # B[1]
  <2>1. PICK d, l, m, h \in Int : Chord(c, A, B, Plus(c, A, B), d, l, h)
    BY <1>3, ChordPoints
  <2>2. A[1] \in Int
    BY <1>1, <1>3, GroupPoints, PairsInt
  <2> DEFINE u == ThirdX(A[1], d, l)
             v == ThirdY(A[1], d, l, h)
             e == ChordA(A[1], d, l, h)
             f == ChordB(A[1], d, l, h)
             C == Plus(c, A, B)
  <2>3. /\ u \in Int /\ v \in Int /\ e \in Int /\ f \in Int /\ v * v = u * u * u + e * u + f
    BY <2>2, ChordTypes, ThirdOnCurve
  <2>4. C \in Pairs /\ Cong(C[1], u) /\ Cong(C[2], v) /\ Cong(c.a.plain, e) /\ Cong(c.b, f)
    BY <2>1 DEF Chord
  <2> HIDE DEF u, v, e, f, C
  <2>5. C \in Group(c)
    BY ONLY <1>1, <2>3, <2>4, OnCurveFrom
  <2> QED
    BY <2>5 DEF C
<1>4. CASE A # Infinity /\ A = B /\ ~Cong(2 * A[2], 0)
  <2>1. PICK l \in Int : Tangent(c, A, Plus(c, A, A), l)
    BY <1>4, TangentPoint
  <2>2. A[1] \in Int /\ A[2] \in Int
    BY <1>1, <1>4, GroupPoints, PairsInt
  <2> DEFINE u == ThirdX(A[1], 0, l)
             v == TangentY(A[1], l, A[2])
             e == TangentA(A[1], l, A[2])
             f == TangentB(A[1], l, A[2])
             C == Plus(c, A, A)
  <2>3. /\ u \in Int /\ v \in Int /\ e \in Int /\ f \in Int /\ v * v = u * u * u + e * u + f
    BY <2>2, TangentTypes, TangentOnCurve
  <2>4. C \in Pairs /\ Cong(C[1], u) /\ Cong(C[2], v) /\ Cong(c.a.plain, e) /\ Cong(c.b, f)
    BY <2>1 DEF Tangent
  <2> HIDE DEF u, v, e, f, C
  <2>5. C \in Group(c)
    BY ONLY <1>1, <2>3, <2>4, OnCurveFrom
  <2> QED
    BY <1>4, <2>5 DEF C
<1> QED
  BY <1>1, <1>2, <1>3, <1>4, PlusCases

-----------------------------------------------------------------------------
(* Projective coordinates.                                                   *)

Residues == [X : Field, Y : Field, Z : Field]

\* P stands for the point A.
IsProjective(P, A) ==
  /\ P \in Residues
  /\ IF A = Infinity THEN P.X = 0 /\ P.Y # 0 /\ P.Z = 0
     ELSE A \in Pairs /\ P.Z # 0 /\ Cong(P.X, A[1] * P.Z) /\ Cong(P.Y, A[2] * P.Z)

LEMMA ResiduesInt ==
  ASSUME NEW P \in Residues
  PROVE  /\ P.X \in Field /\ P.Y \in Field /\ P.Z \in Field
         /\ P.X \in Int /\ P.Y \in Int /\ P.Z \in Int
         /\ P.X \in Elements /\ P.Y \in Elements /\ P.Z \in Elements
         /\ P = Point(P.X, P.Y, P.Z)
BY ElementsInt DEF Residues, Point

\* A residue is 0 modulo p only if it is 0.
LEMMA ResidueZero ==
  ASSUME NEW x \in Field
  PROVE  Cong(x, 0) <=> x = 0
BY CongField, PBounds DEF Cong, Field

\* P has the coordinates (x, y, z) in the form.
Stands(form, P, x, y, z) ==
  P \in Residues /\ Rep(form, P.X, x) /\ Rep(form, P.Y, y) /\ Rep(form, P.Z, z)

\* The coordinates of a pair in a form, scaled by some z.
LEMMA FromProjective ==
  ASSUME NEW form \in Forms, NEW P, NEW A, IsProjective(P, A)
  PROVE  /\ A # Infinity => \E z \in Int : ~Cong(z, 0) /\ Stands(form, P, A[1] * z, A[2] * z, z)
         /\ A = Infinity => \E y \in Int : ~Cong(y, 0) /\ Stands(form, P, 0, y, 0)
<1>1. P \in Residues
  BY DEF IsProjective
<1>2. CASE A # Infinity
  <2>1. /\ A \in Pairs /\ P.Z # 0 /\ Cong(P.X, A[1] * P.Z) /\ Cong(P.Y, A[2] * P.Z)
        /\ A[1] \in Int /\ A[2] \in Int
    BY <1>2, PairsInt DEF IsProjective
  <2>2. PICK z \in Field : Rep(form, P.Z, z)
    BY <1>1, ResiduesInt, RepExists
  <2>3. z \in Int /\ ~Cong(z, 0)
    BY <1>1, <2>1, <2>2, ResiduesInt, RepZero, ElementsInt
  <2>4. ASSUME NEW e \in Elements, NEW x \in Int, Cong(e, x * P.Z)
        PROVE  Rep(form, e, x * z)
    <3> DEFINE u == Unit(form)
               f == P.Z
    <3>1. f \in Int /\ u \in Int /\ Cong(f, z * u) /\ z * u \in Int /\ x * f \in Int /\ Cong(x, x)
          /\ x * (z * u) = (x * z) * u /\ x * z \in Int
      BY <1>1, <2>2, <2>3, <2>4, ResiduesInt, UnitNotZero DEF Rep, Cong
    <3> HIDE DEF u, f
    <3>2. Cong(x * f, x * (z * u))
      BY ONLY <2>4, <3>1, CongMul
    <3>3. Cong(e, (x * z) * u)
      BY <2>4, <3>1, <3>2 DEF Cong, f
    <3> QED
      BY <2>4, <3>1, <3>3 DEF Rep, u
  <2>5. Stands(form, P, A[1] * z, A[2] * z, z)
    BY <1>1, <2>1, <2>2, <2>4, ResiduesInt DEF Stands
  <2> QED
    BY <1>2, <2>3, <2>5
<1>3. CASE A = Infinity
  <2>1. P.X = 0 /\ P.Y # 0 /\ P.Z = 0
    BY <1>3 DEF IsProjective
  <2>2. PICK y \in Field : Rep(form, P.Y, y)
    BY <1>1, ResiduesInt, RepExists
  <2>3. y \in Int /\ ~Cong(y, 0)
    BY <1>1, <2>1, <2>2, ResiduesInt, RepZero, ElementsInt
  <2>4. Rep(form, 0, 0)
    <3>1. 0 * Unit(form) = 0 /\ 0 \in Elements
      BY UnitNotZero, PBounds DEF Elements
    <3> QED
      BY <3>1 DEF Rep, Cong
  <2> QED
    BY <1>1, <1>3, <2>1, <2>2, <2>3, <2>4 DEF Stands
<1> QED
  BY <1>2, <1>3

\* The pair that coordinates scaled by t stand for.
LEMMA ToPair ==
  ASSUME NEW form \in Forms, NEW P, NEW C \in Pairs, NEW x \in Int, NEW y \in Int, NEW t \in Int,
         Stands(form, P, x * t, y * t, t), ~Cong(t, 0), Cong(C[1], x), Cong(C[2], y)
  PROVE  IsProjective(P, C)
<1>1. /\ P \in Residues /\ Rep(form, P.Z, t) /\ C[1] \in Int /\ C[2] \in Int /\ C # Infinity
  BY PairsInt DEF Stands
<1>2. P.Z # 0
  BY <1>1, ResiduesInt, RepZero
<1>3. ASSUME NEW e \in Elements, NEW i \in Int, NEW j \in Int, Rep(form, e, i * t), Cong(j, i)
      PROVE  Cong(e, j * P.Z)
  <2> DEFINE u == Unit(form)
             f == P.Z
  <2>1. f \in Int /\ u \in Int /\ Cong(f, t * u) /\ t * u \in Int /\ e \in Int
        /\ Cong(e, (i * t) * u) /\ (i * t) * u = i * (t * u)
    BY <1>1, <1>3, ResiduesInt, UnitNotZero, ElementsInt DEF Rep
  <2> HIDE DEF u, f
  <2>2. Cong(j * f, i * (t * u))
    BY ONLY <1>3, <2>1, CongMul
  <2> QED
    BY <2>1, <2>2 DEF Cong, f
<1>4. Cong(P.X, C[1] * P.Z) /\ Cong(P.Y, C[2] * P.Z)
  BY <1>1, <1>3, ResiduesInt DEF Stands
<1> QED
  BY <1>1, <1>2, <1>4 DEF IsProjective

LEMMA ToInfinity ==
  ASSUME NEW form \in Forms, NEW P, NEW y, Stands(form, P, 0, y, 0), ~Cong(y, 0)
  PROVE  IsProjective(P, Infinity)
<1>1. P.X \in Field /\ P.Y \in Field /\ P.Z \in Field
  BY ResiduesInt DEF Stands
<1>2. P.X = 0 /\ P.Y # 0 /\ P.Z = 0
  <2>1. Cong(0, 0)
    BY DEF Cong
  <2> QED
    BY <1>1, <2>1, RepZero DEF Stands
<1> QED
  BY <1>2 DEF IsProjective, Stands

\* Products and sums of what stands for numbers, as residues.
RepField(form, e, x) == e \in Field /\ Rep(form, e, x)

LEMMA MulField ==
  ASSUME NEW form \in Forms, NEW e, NEW f, NEW x, NEW y, RepField(form, e, x), RepField(form, f, y)
  PROVE  RepField(form, Mul(form, e, f), x * y)
BY RepMul DEF RepField

LEMMA AddField ==
  ASSUME NEW form \in Forms, NEW e, NEW f, NEW x, NEW y, RepField(form, e, x), RepField(form, f, y)
  PROVE  RepField(form, fp_add(e, f), x + y)
BY RepAdd, FieldSums DEF RepField

LEMMA SubField ==
  ASSUME NEW form \in Forms, NEW e, NEW f, NEW x, NEW y, RepField(form, e, x), RepField(form, f, y)
  PROVE  RepField(form, fp_sub(e, f), x - y)
BY RepSub, FieldSums DEF RepField

\* The coefficients in a form, known modulo p.
LEMMA CurveFields ==
  ASSUME NEW c, IsCurve(c), NEW form \in Forms, NEW a \in Int, NEW b \in Int,
         Cong(c.a.plain, a), Cong(c.b, b)
  PROVE  RepField(form, c.a[form], a) /\ RepField(form, c.b3[form], 3 * b)
<1>1. /\ c.a[form] \in Field /\ Rep(form, c.a[form], c.a.plain)
      /\ c.b3[form] \in Field /\ Rep(form, c.b3[form], 3 * c.b)
      /\ c.b \in Field
  BY DEF IsCurve
<1>2. c.b \in Int /\ Cong(3, 3)
  BY <1>1, ElementsInt DEF Cong
<1>3. 3 * b \in Int /\ 3 * c.b \in Int /\ 3 \in Int
  BY <1>2
<1>4. Cong(3 * c.b, 3 * b)
  BY ONLY <1>2, <1>3, b \in Int, Cong(c.b, b), CongMul
<1> QED
  BY <1>1, <1>3, <1>4, RepSame DEF RepField

\* What the complete addition computes, in terms of the coordinates.
SumS(a, b, X, Z, U, W) == (3 * b) * (Z * W) + a * (X * W + U * Z)
SumU(a, b, X, Z, U, W) == (3 * b) * (X * W + U * Z) + a * (X * U - a * (Z * W))
SumX(a, b, X, Y, Z, U, V, W) ==
  (X * V + U * Y) * (Y * V - SumS(a, b, X, Z, U, W)) - (Y * W + V * Z) * SumU(a, b, X, Z, U, W)
SumY(a, b, X, Y, Z, U, V, W) ==
  (Y * V - SumS(a, b, X, Z, U, W)) * (Y * V + SumS(a, b, X, Z, U, W))
    + (3 * (X * U) + a * (Z * W)) * SumU(a, b, X, Z, U, W)
SumZ(a, b, X, Y, Z, U, V, W) ==
  (Y * W + V * Z) * (Y * V + SumS(a, b, X, Z, U, W)) + (X * V + U * Y) * (3 * (X * U) + a * (Z * W))

LEMMA CompleteAdds ==
  ASSUME NEW c, IsCurve(c), NEW form \in Forms, NEW a \in Int, NEW b \in Int,
         Cong(c.a.plain, a), Cong(c.b, b), NEW P, NEW Q,
         NEW X \in Int, NEW Y \in Int, NEW Z \in Int, NEW U \in Int, NEW V \in Int, NEW W \in Int,
         Stands(form, P, X, Y, Z), Stands(form, Q, U, V, W)
  PROVE  Stands(form, CompleteAdd(form, c, P, Q), SumX(a, b, X, Y, Z, U, V, W),
                SumY(a, b, X, Y, Z, U, V, W), SumZ(a, b, X, Y, Z, U, V, W))
<1> DEFINE e \odot f == Mul(form, e, f)
           e \oplus f == fp_add(e, f)
           e \ominus f == fp_sub(e, f)
           ca == c.a[form]
           cb == c.b3[form]
           t0 == P.X \odot Q.X
           t1 == P.Y \odot Q.Y
           t2 == P.Z \odot Q.Z
           t3 == ((P.X \oplus P.Y) \odot (Q.X \oplus Q.Y)) \ominus (t0 \oplus t1)
           t4 == ((P.X \oplus P.Z) \odot (Q.X \oplus Q.Z)) \ominus (t0 \oplus t2)
           t5 == ((P.Y \oplus P.Z) \odot (Q.Y \oplus Q.Z)) \ominus (t1 \oplus t2)
           x == t1 \ominus ((cb \odot t2) \oplus (ca \odot t4))
           z == t1 \oplus ((cb \odot t2) \oplus (ca \odot t4))
           at2 == ca \odot t2
           u1 == ((t0 \oplus t0) \oplus t0) \oplus at2
           u4 == (cb \odot t4) \oplus (ca \odot (t0 \ominus at2))
           D == Point((t3 \odot x) \ominus (t5 \odot u4),
                      (x \odot z) \oplus (u1 \odot u4),
                      (t5 \odot z) \oplus (t3 \odot u1))
           s == SumS(a, b, X, Z, U, W)
           u == SumU(a, b, X, Z, U, W)
<1>0. CompleteAdd(form, c, P, Q) = D
  BY DEF CompleteAdd
<1> DEFINE RF(e, i) == RepField(form, e, i)
<1>1. /\ RF(P.X, X) /\ RF(P.Y, Y) /\ RF(P.Z, Z)
      /\ RF(Q.X, U) /\ RF(Q.Y, V) /\ RF(Q.Z, W) /\ RF(ca, a) /\ RF(cb, 3 * b)
  BY CurveFields, ResiduesInt DEF Stands, RepField
<1>2. \A e, f, i, j : RF(e, i) /\ RF(f, j) =>
        RF(e \odot f, i * j) /\ RF(e \oplus f, i + j) /\ RF(e \ominus f, i - j)
  BY MulField, AddField, SubField
<1> HIDE DEF RF
<1>3. RF(t0, X * U) /\ RF(t1, Y * V) /\ RF(t2, Z * W)
  BY ONLY <1>1, <1>2
<1> HIDE DEF t0, t1, t2
<1>4. RF(t3, X * V + U * Y)
  <2>1. RF(t3, (X + Y) * (U + V) - (X * U + Y * V))
    BY ONLY <1>1, <1>2, <1>3
  <2>2. (X + Y) * (U + V) - (X * U + Y * V) = X * V + U * Y
    OBVIOUS
  <2> QED
    BY <2>1, <2>2
<1>5. RF(t4, X * W + U * Z)
  <2>1. RF(t4, (X + Z) * (U + W) - (X * U + Z * W))
    BY ONLY <1>1, <1>2, <1>3
  <2>2. (X + Z) * (U + W) - (X * U + Z * W) = X * W + U * Z
    OBVIOUS
  <2> QED
    BY <2>1, <2>2
<1>6. RF(t5, Y * W + V * Z)
  <2>1. RF(t5, (Y + Z) * (V + W) - (Y * V + Z * W))
    BY ONLY <1>1, <1>2, <1>3
  <2>2. (Y + Z) * (V + W) - (Y * V + Z * W) = Y * W + V * Z
    OBVIOUS
  <2> QED
    BY <2>1, <2>2
<1> HIDE DEF t3, t4, t5
<1>7. RF(x, Y * V - s) /\ RF(z, Y * V + s)
  BY ONLY <1>1, <1>2, <1>3, <1>5 DEF SumS
<1>8. RF(at2, a * (Z * W))
  BY ONLY <1>1, <1>2, <1>3
<1> HIDE DEF at2
<1>9. RF(u1, 3 * (X * U) + a * (Z * W))
  <2>1. RF(u1, ((X * U + X * U) + X * U) + a * (Z * W))
    BY ONLY <1>2, <1>3, <1>8
  <2>2. ((X * U + X * U) + X * U) + a * (Z * W) = 3 * (X * U) + a * (Z * W)
    OBVIOUS
  <2> QED
    BY <2>1, <2>2
<1>10. RF(u4, u)
  BY ONLY <1>1, <1>2, <1>3, <1>5, <1>8 DEF SumU
<1> HIDE DEF x, z, u1, u4, s, u
<1>11. /\ RF((t3 \odot x) \ominus (t5 \odot u4), (X * V + U * Y) * (Y * V - s) - (Y * W + V * Z) * u)
       /\ RF((x \odot z) \oplus (u1 \odot u4), (Y * V - s) * (Y * V + s) + (3 * (X * U) + a * (Z * W)) * u)
       /\ RF((t5 \odot z) \oplus (t3 \odot u1), (Y * W + V * Z) * (Y * V + s) + (X * V + U * Y) * (3 * (X * U) + a * (Z * W)))
  BY ONLY <1>2, <1>4, <1>6, <1>7, <1>9, <1>10
<1> QED
  BY <1>0, <1>11 DEF RF, RepField, Stands, Residues, Point, SumX, SumY, SumZ, s, u

-----------------------------------------------------------------------------
(* The complete formulas.                                                    *)

\* There is no point of order 2.
NoOrderTwo(c) == \A x \in Field : ~OnCurve(c, <<x, 0>>)

LEMMA OrdinateNotZero ==
  ASSUME NEW c, NoOrderTwo(c), c.a.plain \in Int, c.b \in Int, NEW A \in Group(c), A # Infinity
  PROVE  ~Cong(A[2], 0) /\ ~Cong(2 * A[2], 0)
<1>1. A \in Pairs /\ A[1] \in Field /\ A[2] \in Field /\ A[2] \in Int /\ A = <<A[1], A[2]>> /\ OnCurve(c, A)
  BY GroupPoints, PairsInt
<1>2. ~Cong(A[2], 0)
  BY <1>1, ResidueZero DEF NoOrderTwo
<1>3. ~Cong(2, 0)
  BY PBounds, ResidueZero DEF Field
<1> QED
  BY <1>1, <1>2, <1>3, CongZero

\* The polynomials are homogeneous in the coordinates of each point.
LEMMA SumScaled ==
  ASSUME NEW a \in Int, NEW b \in Int, NEW x \in Int, NEW y \in Int, NEW z \in Int,
         NEW u \in Int, NEW v \in Int, NEW w \in Int
  PROVE  LET s == (z * w) * (z * w)
         IN  /\ SumX(a, b, x * z, y * z, z, u * w, v * w, w) = SumX(a, b, x, y, 1, u, v, 1) * s
             /\ SumY(a, b, x * z, y * z, z, u * w, v * w, w) = SumY(a, b, x, y, 1, u, v, 1) * s
             /\ SumZ(a, b, x * z, y * z, z, u * w, v * w, w) = SumZ(a, b, x, y, 1, u, v, 1) * s
BY SMTT(60) DEF SumX, SumY, SumZ, SumS, SumU

\* The complete addition of scaled coordinates.
LEMMA CompleteScaled ==
  ASSUME NEW c, IsCurve(c), NEW form \in Forms, NEW a \in Int, NEW b \in Int,
         Cong(c.a.plain, a), Cong(c.b, b), NEW P, NEW Q,
         NEW x \in Int, NEW y \in Int, NEW z \in Int, NEW u \in Int, NEW v \in Int, NEW w \in Int,
         NEW X, NEW Y, NEW U, NEW V, X = x * z, Y = y * z, U = u * w, V = v * w,
         Stands(form, P, X, Y, z), Stands(form, Q, U, V, w),
         NEW i \in Int, NEW j \in Int, NEW k \in Int, NEW t \in Int,
         SumX(a, b, x, y, 1, u, v, 1) = i * t,
         SumY(a, b, x, y, 1, u, v, 1) = j * t,
         SumZ(a, b, x, y, 1, u, v, 1) = k * t
  PROVE  LET r == t * ((z * w) * (z * w))
         IN  Stands(form, CompleteAdd(form, c, P, Q), i * r, j * r, k * r)
<1> DEFINE s == (z * w) * (z * w)
<1>1. X \in Int /\ Y \in Int /\ U \in Int /\ V \in Int /\ s \in Int
  OBVIOUS
<1>2. Stands(form, CompleteAdd(form, c, P, Q), SumX(a, b, X, Y, z, U, V, w),
             SumY(a, b, X, Y, z, U, V, w), SumZ(a, b, X, Y, z, U, V, w))
  BY <1>1, CompleteAdds
<1>3. /\ SumX(a, b, X, Y, z, U, V, w) = SumX(a, b, x, y, 1, u, v, 1) * s
      /\ SumY(a, b, X, Y, z, U, V, w) = SumY(a, b, x, y, 1, u, v, 1) * s
      /\ SumZ(a, b, X, Y, z, U, V, w) = SumZ(a, b, x, y, 1, u, v, 1) * s
  BY SumScaled
<1> HIDE DEF s
<1>4. (i * t) * s = i * (t * s) /\ (j * t) * s = j * (t * s) /\ (k * t) * s = k * (t * s)
  BY <1>1
<1> QED
  BY <1>2, <1>3, <1>4 DEF s

\* What they are on a tangent, and for opposite points.
LEMMA SumOfTangent ==
  ASSUME NEW x \in Int, NEW l \in Int, NEW y \in Int
  PROVE  LET a == TangentA(x, l, y)
             b == TangentB(x, l, y)
             t == 8 * (y * y * y)
         IN  /\ SumX(a, b, x, y, 1, x, y, 1) = ThirdX(x, 0, l) * t
             /\ SumY(a, b, x, y, 1, x, y, 1) = TangentY(x, l, y) * t
             /\ SumZ(a, b, x, y, 1, x, y, 1) = t
BY SMTT(60) DEF SumX, SumY, SumZ, SumS, SumU, TangentA, TangentB, ThirdX, TangentY

LEMMA SumOfOpposites ==
  ASSUME NEW x \in Int, NEW l \in Int, NEW y \in Int
  PROVE  LET a == TangentA(x, l, y)
             b == TangentB(x, l, y)
         IN  /\ SumX(a, b, x, y, 1, x, -y, 1) = 0
             /\ SumY(a, b, x, y, 1, x, -y, 1) = TangentY(x, l, y) * (8 * (y * y * y))
             /\ SumZ(a, b, x, y, 1, x, -y, 1) = 0
BY SMTT(60) DEF SumX, SumY, SumZ, SumS, SumU, TangentA, TangentB, ThirdX, TangentY

\* Products of factors that are not 0 modulo p.
LEMMA NotZeroMul ==
  ASSUME NEW x \in Int, NEW y \in Int, ~Cong(x, 0), ~Cong(y, 0)
  PROVE  x * y \in Int /\ ~Cong(x * y, 0)
BY CongZero

LEMMA CubeNotZero ==
  ASSUME NEW x \in Int, ~Cong(x, 0)
  PROVE  x * x * x \in Int /\ ~Cong(x * x * x, 0)
<1>1. x * x \in Int /\ ~Cong(x * x, 0)
  BY NotZeroMul
<1> QED
  BY <1>1, NotZeroMul

LEMMA SquareNotZero ==
  ASSUME NEW z \in Int, NEW w \in Int, ~Cong(z, 0), ~Cong(w, 0)
  PROVE  (z * w) * (z * w) \in Int /\ ~Cong((z * w) * (z * w), 0)
<1>1. z * w \in Int /\ ~Cong(z * w, 0)
  BY NotZeroMul
<1> QED
  BY <1>1, NotZeroMul

LEMMA EightNotZero == 8 \in Int /\ ~Cong(8, 0)
<1>1. 2 \in Int /\ ~Cong(2, 0)
  BY PBounds, ResidueZero DEF Field
<1>2. 2 * 2 * 2 = 8
  OBVIOUS
<1> QED
  BY <1>1, <1>2, CubeNotZero

\* Coordinates that are only known modulo p.
LEMMA StandsSame ==
  ASSUME NEW form \in Forms, NEW P, NEW x, NEW y, NEW z, Stands(form, P, x, y, z),
         NEW u \in Int, NEW v \in Int, Cong(x, u), Cong(y, v)
  PROVE  Stands(form, P, u, v, z)
BY RepSame DEF Stands

\* The coordinates of a pair, with others for its numbers.
LEMMA PairStands ==
  ASSUME NEW form \in Forms, NEW P, NEW A \in Pairs, NEW x \in Int, NEW y \in Int, NEW z \in Int,
         Cong(A[1], x), Cong(A[2], y), Stands(form, P, A[1] * z, A[2] * z, z)
  PROVE  Stands(form, P, x * z, y * z, z)
<1>1. A[1] \in Int /\ A[2] \in Int /\ Cong(z, z)
  BY PairsInt DEF Cong
<1>2. Cong(A[1] * z, x * z)
  BY ONLY <1>1, CongMul, x \in Int, z \in Int, Cong(A[1], x)
<1>3. Cong(A[2] * z, y * z)
  BY ONLY <1>1, CongMul, y \in Int, z \in Int, Cong(A[2], y)
<1> QED
  BY <1>2, <1>3, StandsSame

\* The complete addition of points with different abscissas: their difference is
\* not of order 2, which keeps Z from 0.
LEMMA CompleteChord ==
  ASSUME NEW c, IsCurve(c), NoOrderTwo(c), NEW form \in Forms,
         NEW A \in Group(c), NEW B \in Group(c), A # Infinity, B # Infinity, A[1] # B[1],
         NEW P, NEW Q, IsProjective(P, A), IsProjective(Q, B)
  PROVE  IsProjective(CompleteAdd(form, c, P, Q), Plus(c, A, B))
<1>1. PICK d, l, m, h \in Int : /\ Chord(c, A, B, Plus(c, A, B), d, l, h)
                                /\ Chord(c, A, Opposite(B), Plus(c, A, Opposite(B)), d, m, h)
                                /\ Cong(m, -(2 * h) - l)
  BY ChordPoints
<1>2. PICK z \in Int : ~Cong(z, 0) /\ Stands(form, P, A[1] * z, A[2] * z, z)
  BY FromProjective
<1>3. PICK w \in Int : ~Cong(w, 0) /\ Stands(form, Q, B[1] * w, B[2] * w, w)
  BY FromProjective
<1> DEFINE x == A[1]
           a == ChordA(x, d, l, h)
           b == ChordB(x, d, l, h)
           n == -(2 * h) - l
           g == ThirdY(x, d, n, h)
           s == (z * w) * (z * w)
           q == g * (d * d * d)
           t == q * s
           y == d * h
           f == x + d
           e == d * (h + l)
           C == Plus(c, A, B)
           D == CompleteAdd(form, c, P, Q)
           u == ThirdX(x, d, l)
           v == ThirdY(x, d, l, h)
<1>4. c.a.plain \in Int /\ c.b \in Int /\ A \in Pairs /\ B \in Pairs /\ x \in Int /\ B[1] = x + d
  <2>1. c.a.plain \in Int /\ c.b \in Int
    BY ElementsInt DEF IsCurve
  <2> QED
    BY <1>1, <2>1, GroupPoints, PairsInt DEF Chord
<1>5. /\ Cong(A[2], d * h) /\ Cong(B[2], d * (h + l)) /\ ~Cong(d, 0)
      /\ Cong(c.a.plain, a) /\ Cong(c.b, b)
      /\ C \in Pairs /\ Cong(C[1], u) /\ Cong(C[2], v)
  BY <1>1 DEF Chord
<1>6. n \in Int /\ a \in Int /\ b \in Int /\ g \in Int /\ u \in Int /\ v \in Int
      /\ d * h \in Int /\ d * (h + l) \in Int /\ x + d \in Int
  <2>1. n \in Int /\ d * h \in Int /\ d * (h + l) \in Int /\ x + d \in Int
    BY <1>4
  <2> HIDE DEF n, x
  <2>2. a \in Int /\ b \in Int /\ u \in Int /\ v \in Int
    BY ONLY <1>4, d \in Int, l \in Int, h \in Int, ChordTypes
  <2>3. g \in Int
    BY ONLY <1>4, <2>1, d \in Int, h \in Int, ChordTypes
  <2> QED
    BY <2>1, <2>2, <2>3
<1>7. ~Cong(g, 0)
  <2> DEFINE O == Opposite(B)
             E == Plus(c, A, O)
  <2>1. O \in Group(c)
    BY <1>4, OppositePoint
  <2>2. E \in Group(c)
    BY <2>1, PlusClosed
  <2>3. E \in Pairs /\ Cong(E[2], ThirdY(x, d, m, h))
    BY <1>1 DEF Chord
  <2>4. ~Cong(E[2], 0)
    BY <1>4, <2>2, <2>3, PairsInt, OrdinateNotZero
  <2>5. Cong(ThirdY(x, d, m, h), g)
    BY <1>1, <1>4, <1>6, ThirdCong
  <2> QED
    BY <2>3, <2>4, <2>5 DEF Cong
<1>8. Stands(form, P, x * z, (d * h) * z, z) /\ Stands(form, Q, (x + d) * w, (d * (h + l)) * w, w)
  <2>1. Cong(A[1], x) /\ Cong(B[1], x + d)
    BY <1>4 DEF Cong
  <2> HIDE DEF x
  <2> QED
    BY <1>2, <1>3, <1>4, <1>5, <1>6, <2>1, PairStands
<1>9. /\ SumX(a, b, x, y, 1, f, e, 1) = u * q
      /\ SumY(a, b, x, y, 1, f, e, 1) = v * q
      /\ SumZ(a, b, x, y, 1, f, e, 1) = q
  <2> HIDE DEF x
  <2> QED
    BY ONLY <1>4, d \in Int, l \in Int, h \in Int, SMTT(60)
       DEF SumX, SumY, SumZ, SumS, SumU, ChordA, ChordB, ThirdX, ThirdY
<1> HIDE DEF a, b, n, u, v, x
<1>10. d * d * d \in Int /\ ~Cong(d * d * d, 0) /\ s \in Int /\ ~Cong(s, 0)
  BY <1>2, <1>3, <1>5, CubeNotZero, SquareNotZero
<1>11. q \in Int /\ ~Cong(q, 0)
  <2> HIDE DEF g
  <2> QED
    BY ONLY <1>6, <1>7, <1>10, NotZeroMul
<1> HIDE DEF g, q, y, f, e
<1>12. Stands(form, D, u * t, v * t, t)
  <2> DEFINE X == x * z
             Y == y * z
             U == f * w
             V == e * w
  <2>1. Stands(form, P, X, Y, z) /\ Stands(form, Q, U, V, w)
    BY <1>8 DEF y, f, e
  <2>2. /\ y \in Int /\ f \in Int /\ e \in Int /\ 1 \in Int
        /\ SumX(a, b, x, y, 1, f, e, 1) = u * q
        /\ SumY(a, b, x, y, 1, f, e, 1) = v * q
        /\ SumZ(a, b, x, y, 1, f, e, 1) = 1 * q
    BY <1>6, <1>9, <1>11 DEF y, f, e
  <2>3. X = x * z /\ Y = y * z /\ U = f * w /\ V = e * w
    OBVIOUS
  <2> HIDE DEF X, Y, U, V
  <2>4. Stands(form, D, u * t, v * t, 1 * t)
    BY ONLY <1>4, <1>5, <1>6, <1>11, <2>1, <2>2, <2>3, CompleteScaled, IsCurve(c),
            form \in Forms, z \in Int, w \in Int, Zenon
  <2>5. 1 * t = t
    BY <1>10, <1>11
  <2> QED
    BY <2>4, <2>5
<1>13. t \in Int /\ ~Cong(t, 0)
  BY ONLY <1>10, <1>11, NotZeroMul DEF q
<1> HIDE DEF t, C, D
<1>14. IsProjective(D, C)
  BY <1>5, <1>6, <1>12, <1>13, ToPair
<1> QED
  BY <1>14 DEF C, D

\* The numbers of a tangent and its coordinates.
LEMMA TangentTerms ==
  ASSUME NEW c, IsCurve(c), NoOrderTwo(c), NEW A \in Group(c), A # Infinity
  PROVE  \E l \in Int : /\ Tangent(c, A, Plus(c, A, A), l)
                        /\ ~Cong(TangentY(A[1], l, A[2]), 0)
                        /\ A \in Pairs /\ A[1] \in Int /\ A[2] \in Int
                        /\ 8 * (A[2] * A[2] * A[2]) \in Int /\ ~Cong(8 * (A[2] * A[2] * A[2]), 0)
<1>1. c.a.plain \in Int /\ c.b \in Int
  BY ElementsInt DEF IsCurve
<1>2. A \in Pairs /\ A[1] \in Int /\ A[2] \in Int /\ ~Cong(A[2], 0) /\ ~Cong(2 * A[2], 0)
  BY <1>1, GroupPoints, PairsInt, OrdinateNotZero
<1>3. PICK l \in Int : Tangent(c, A, Plus(c, A, A), l)
  BY <1>2, TangentPoint
<1>4. ~Cong(TangentY(A[1], l, A[2]), 0)
  <2> DEFINE C == Plus(c, A, A)
  <2>1. C \in Pairs /\ Cong(C[2], TangentY(A[1], l, A[2]))
    BY <1>3 DEF Tangent
  <2>2. ~Cong(C[2], 0)
    BY <1>1, <2>1, PlusClosed, PairsInt, OrdinateNotZero
  <2> QED
    BY <2>1, <2>2 DEF Cong
<1>5. 8 * (A[2] * A[2] * A[2]) \in Int /\ ~Cong(8 * (A[2] * A[2] * A[2]), 0)
  BY <1>2, CubeNotZero, EightNotZero, NotZeroMul
<1> QED
  BY <1>2, <1>3, <1>4, <1>5

\* The complete addition of equal points, and of opposite ones.
LEMMA CompleteTangent ==
  ASSUME NEW c, IsCurve(c), NoOrderTwo(c), NEW form \in Forms, NEW A \in Group(c), A # Infinity,
         NEW P, NEW Q, IsProjective(P, A), IsProjective(Q, A)
  PROVE  IsProjective(CompleteAdd(form, c, P, Q), Plus(c, A, A))
<1> DEFINE x == A[1]
           y == A[2]
<1>1. PICK l \in Int : /\ Tangent(c, A, Plus(c, A, A), l) /\ A \in Pairs /\ x \in Int /\ y \in Int
                       /\ 8 * (y * y * y) \in Int /\ ~Cong(8 * (y * y * y), 0)
  BY TangentTerms
<1>2. PICK z \in Int : ~Cong(z, 0) /\ Stands(form, P, x * z, y * z, z)
  BY FromProjective
<1>3. PICK w \in Int : ~Cong(w, 0) /\ Stands(form, Q, x * w, y * w, w)
  BY FromProjective
<1> DEFINE a == TangentA(x, l, y)
           b == TangentB(x, l, y)
           r == 8 * (y * y * y)
           s == (z * w) * (z * w)
           t == r * s
           C == Plus(c, A, A)
           D == CompleteAdd(form, c, P, Q)
           u == ThirdX(x, 0, l)
           v == TangentY(x, l, y)
<1>4. /\ Cong(c.a.plain, a) /\ Cong(c.b, b) /\ C \in Pairs /\ Cong(C[1], u) /\ Cong(C[2], v)
      /\ a \in Int /\ b \in Int /\ u \in Int /\ v \in Int
  BY <1>1, TangentTypes DEF Tangent
<1> HIDE DEF x, y
<1>5. /\ SumX(a, b, x, y, 1, x, y, 1) = u * r
      /\ SumY(a, b, x, y, 1, x, y, 1) = v * r
      /\ SumZ(a, b, x, y, 1, x, y, 1) = r
  BY ONLY <1>1, SumOfTangent, l \in Int
<1>6. r \in Int /\ ~Cong(r, 0) /\ s \in Int /\ ~Cong(s, 0)
  BY <1>1, <1>2, <1>3, SquareNotZero
<1> HIDE DEF a, b, u, v, r
<1>7. Stands(form, D, u * t, v * t, t)
  <2> DEFINE X == x * z
             Y == y * z
             U == x * w
             V == y * w
  <2>1. Stands(form, P, X, Y, z) /\ Stands(form, Q, U, V, w)
    BY <1>2, <1>3
  <2>2. /\ 1 \in Int
        /\ SumX(a, b, x, y, 1, x, y, 1) = u * r
        /\ SumY(a, b, x, y, 1, x, y, 1) = v * r
        /\ SumZ(a, b, x, y, 1, x, y, 1) = 1 * r
    BY <1>5, <1>6
  <2>3. X = x * z /\ Y = y * z /\ U = x * w /\ V = y * w
    OBVIOUS
  <2> HIDE DEF X, Y, U, V
  <2>4. Stands(form, D, u * t, v * t, 1 * t)
    BY ONLY <1>1, <1>4, <1>6, <2>1, <2>2, <2>3, CompleteScaled, IsCurve(c),
            form \in Forms, z \in Int, w \in Int, Zenon
  <2>5. 1 * t = t
    BY <1>6
  <2> QED
    BY <2>4, <2>5
<1>8. t \in Int /\ ~Cong(t, 0)
  BY ONLY <1>6, NotZeroMul
<1> HIDE DEF t, C, D
<1>9. IsProjective(D, C)
  BY <1>4, <1>7, <1>8, ToPair
<1> QED
  BY <1>9 DEF C, D

LEMMA CompleteOpposites ==
  ASSUME NEW c, IsCurve(c), NoOrderTwo(c), NEW form \in Forms, NEW A \in Group(c), A # Infinity,
         NEW B \in Group(c), B # Infinity, A[1] = B[1], Cong(A[2] + B[2], 0),
         NEW P, NEW Q, IsProjective(P, A), IsProjective(Q, B)
  PROVE  IsProjective(CompleteAdd(form, c, P, Q), Infinity)
<1> DEFINE x == A[1]
           y == A[2]
<1>1. PICK l \in Int : /\ Tangent(c, A, Plus(c, A, A), l) /\ A \in Pairs /\ x \in Int /\ y \in Int
                       /\ 8 * (y * y * y) \in Int /\ ~Cong(8 * (y * y * y), 0)
                       /\ ~Cong(TangentY(x, l, y), 0)
  BY TangentTerms
<1>2. PICK z \in Int : ~Cong(z, 0) /\ Stands(form, P, x * z, y * z, z)
  BY FromProjective
<1>3. PICK w \in Int : ~Cong(w, 0) /\ Stands(form, Q, B[1] * w, B[2] * w, w)
  BY FromProjective
<1> DEFINE a == TangentA(x, l, y)
           b == TangentB(x, l, y)
           r == 8 * (y * y * y)
           s == (z * w) * (z * w)
           D == CompleteAdd(form, c, P, Q)
           v == TangentY(x, l, y)
<1>4. /\ Cong(c.a.plain, a) /\ Cong(c.b, b) /\ a \in Int /\ b \in Int /\ v \in Int /\ ~Cong(v, 0)
  BY <1>1, TangentTypes DEF Tangent
<1>5. /\ SumX(a, b, x, y, 1, x, -y, 1) = 0
      /\ SumY(a, b, x, y, 1, x, -y, 1) = v * r
      /\ SumZ(a, b, x, y, 1, x, -y, 1) = 0
  <2> HIDE DEF x, y
  <2> QED
    BY ONLY <1>1, SumOfOpposites, l \in Int
<1>6. r \in Int /\ ~Cong(r, 0) /\ s \in Int /\ ~Cong(s, 0)
  BY <1>1, <1>2, <1>3, SquareNotZero
<1>7. Stands(form, Q, x * w, (-y) * w, w) /\ -y \in Int
  <2>0. B \in Pairs /\ B[2] \in Int /\ B[1] = x
    <3>1. c.a.plain \in Int /\ c.b \in Int
      BY ElementsInt DEF IsCurve
    <3> QED
      BY <3>1, GroupPoints, PairsInt
  <2>1. Cong(B[2], -y)
    <3>1. y + B[2] \in Int /\ 0 \in Int /\ Cong(y, y) /\ (y + B[2]) - y = B[2] /\ 0 - y = -y
      BY <1>1, <2>0 DEF Cong
    <3>2. Cong(y + B[2], 0)
      OBVIOUS
    <3> HIDE DEF y
    <3>3. Cong((y + B[2]) - y, 0 - y)
      BY ONLY <1>1, <3>1, <3>2, CongSub
    <3> QED
      BY <3>1, <3>3
  <2>2. -y \in Int /\ Cong(B[1], x)
    BY <1>1, <2>0 DEF Cong
  <2> HIDE DEF x, y
  <2> QED
    BY <1>1, <1>3, <2>0, <2>1, <2>2, PairStands
<1> HIDE DEF a, b, v, r, x, y
<1>8. Stands(form, D, 0, v * (r * s), 0)
  <2> DEFINE X == x * z
             Y == y * z
             U == x * w
             o == -y
             V == o * w
  <2>1. Stands(form, P, X, Y, z) /\ Stands(form, Q, U, V, w)
    BY <1>2, <1>7
  <2>2. 0 \in Int /\ 0 = 0 * r /\ o \in Int
    BY <1>6, <1>7
  <2>3. X = x * z /\ Y = y * z /\ U = x * w /\ V = o * w
    OBVIOUS
  <2>4. /\ SumX(a, b, x, y, 1, x, o, 1) = 0 * r
        /\ SumY(a, b, x, y, 1, x, o, 1) = v * r
        /\ SumZ(a, b, x, y, 1, x, o, 1) = 0 * r
    BY <1>5, <2>2
  <2> HIDE DEF X, Y, U, V, o
  <2>5. Stands(form, D, 0 * (r * s), v * (r * s), 0 * (r * s))
    BY <1>1, <1>4, <1>6, <2>1, <2>2, <2>3, <2>4, CompleteScaled
  <2>6. 0 * (r * s) = 0
    BY <1>6
  <2> QED
    BY <2>5, <2>6
<1>9. r * s \in Int /\ ~Cong(r * s, 0)
  BY ONLY <1>6, NotZeroMul
<1>10. v * (r * s) \in Int /\ ~Cong(v * (r * s), 0)
  BY ONLY <1>4, <1>9, NotZeroMul
<1> QED
  BY <1>8, <1>10, ToInfinity

\* Adding infinity.
LEMMA CompleteInfinity ==
  ASSUME NEW c, IsCurve(c), NoOrderTwo(c), NEW form \in Forms, NEW B \in Group(c),
         NEW P, NEW Q, IsProjective(P, Infinity), IsProjective(Q, B)
  PROVE  /\ IsProjective(CompleteAdd(form, c, P, Q), B)
         /\ IsProjective(CompleteAdd(form, c, Q, P), B)
<1>1. PICK y \in Int : ~Cong(y, 0) /\ Stands(form, P, 0, y, 0)
  BY FromProjective
<1> DEFINE a == c.a.plain
           b == c.b
<1>2. a \in Int /\ b \in Int /\ Cong(a, a) /\ Cong(b, b) /\ 0 \in Int
  <2>1. a \in Int /\ b \in Int
    BY ElementsInt DEF IsCurve
  <2> QED
    BY <2>1 DEF Cong
<1>3. ASSUME NEW u \in Int, NEW v \in Int, NEW w \in Int, Stands(form, Q, u, v, w)
      PROVE  LET t == y * y * v
             IN  /\ Stands(form, CompleteAdd(form, c, P, Q), u * t, v * t, w * t)
                 /\ Stands(form, CompleteAdd(form, c, Q, P), u * t, v * t, w * t)
  <2> HIDE DEF a, b
  <2>1. Stands(form, CompleteAdd(form, c, P, Q), SumX(a, b, 0, y, 0, u, v, w),
               SumY(a, b, 0, y, 0, u, v, w), SumZ(a, b, 0, y, 0, u, v, w))
    BY <1>1, <1>2, <1>3, CompleteAdds DEF a, b
  <2>2. Stands(form, CompleteAdd(form, c, Q, P), SumX(a, b, u, v, w, 0, y, 0),
               SumY(a, b, u, v, w, 0, y, 0), SumZ(a, b, u, v, w, 0, y, 0))
    BY <1>1, <1>2, <1>3, CompleteAdds DEF a, b
  <2>3. /\ SumX(a, b, 0, y, 0, u, v, w) = u * (y * y * v) /\ SumX(a, b, u, v, w, 0, y, 0) = u * (y * y * v)
        /\ SumY(a, b, 0, y, 0, u, v, w) = v * (y * y * v) /\ SumY(a, b, u, v, w, 0, y, 0) = v * (y * y * v)
        /\ SumZ(a, b, 0, y, 0, u, v, w) = w * (y * y * v) /\ SumZ(a, b, u, v, w, 0, y, 0) = w * (y * y * v)
    BY ONLY <1>2, y \in Int, u \in Int, v \in Int, w \in Int, SMTT(60) DEF SumX, SumY, SumZ, SumS, SumU
  <2> QED
    BY <2>1, <2>2, <2>3
<1>4. CASE B = Infinity
  <2>1. PICK v \in Int : ~Cong(v, 0) /\ Stands(form, Q, 0, v, 0)
    BY <1>4, FromProjective
  <2> DEFINE t == y * y * v
  <2>2. /\ Stands(form, CompleteAdd(form, c, P, Q), 0 * t, v * t, 0 * t)
        /\ Stands(form, CompleteAdd(form, c, Q, P), 0 * t, v * t, 0 * t)
    BY <1>2, <1>3, <2>1
  <2>3. y * y \in Int /\ ~Cong(y * y, 0)
    BY <1>1, NotZeroMul
  <2>4. t \in Int /\ ~Cong(t, 0)
    BY ONLY <2>1, <2>3, NotZeroMul
  <2> HIDE DEF t
  <2>5. v * t \in Int /\ ~Cong(v * t, 0) /\ 0 * t = 0
    BY <2>1, <2>4, NotZeroMul
  <2> QED
    BY <1>4, <2>2, <2>5, ToInfinity
<1>5. CASE B # Infinity
  <2>0. B \in Pairs /\ B[1] \in Int /\ B[2] \in Int /\ ~Cong(B[2], 0)
    BY <1>2, <1>5, GroupPoints, PairsInt, OrdinateNotZero
  <2>1. PICK w \in Int : ~Cong(w, 0) /\ Stands(form, Q, B[1] * w, B[2] * w, w)
    BY <1>5, FromProjective
  <2> DEFINE v == B[2] * w
             t == y * y * v
             s == w * t
  <2>2. v \in Int /\ ~Cong(v, 0)
    BY <2>0, <2>1, NotZeroMul
  <2>3. B[1] * w \in Int
    BY <2>0, <2>1
  <2>4. /\ Stands(form, CompleteAdd(form, c, P, Q), (B[1] * w) * t, v * t, s)
        /\ Stands(form, CompleteAdd(form, c, Q, P), (B[1] * w) * t, v * t, s)
    BY <1>3, <2>1, <2>2, <2>3
  <2>5. y * y \in Int /\ ~Cong(y * y, 0)
    BY <1>1, NotZeroMul
  <2> HIDE DEF v
  <2>6. t \in Int /\ ~Cong(t, 0)
    BY ONLY <2>2, <2>5, NotZeroMul
  <2> HIDE DEF t
  <2>7. s \in Int /\ ~Cong(s, 0)
    BY ONLY <2>1, <2>6, NotZeroMul
  <2>8. (B[1] * w) * t = B[1] * s /\ v * t = B[2] * s
    BY <2>0, <2>1, <2>6 DEF v
  <2> HIDE DEF s
  <2>9. Cong(B[1], B[1]) /\ Cong(B[2], B[2])
    BY DEF Cong
  <2> QED
    BY <2>0, <2>4, <2>7, <2>8, <2>9, ToPair
<1> QED
  BY <1>4, <1>5

\* The complete addition, of any two points.
LEMMA CompleteAddCorrect ==
  ASSUME NEW c, IsCurve(c), NoOrderTwo(c), NEW form \in Forms, NEW A \in Group(c), NEW B \in Group(c),
         NEW P, NEW Q, IsProjective(P, A), IsProjective(Q, B)
  PROVE  IsProjective(CompleteAdd(form, c, P, Q), Plus(c, A, B))
<1>1. CASE A = Infinity
  BY <1>1, CompleteInfinity DEF Plus
<1>2. CASE A # Infinity /\ B = Infinity
  BY <1>2, CompleteInfinity DEF Plus
<1>3. CASE A # Infinity /\ B # Infinity
  <2>1. CASE A[1] # B[1]
    BY <1>3, <2>1, CompleteChord
  <2>2. CASE A = B
    BY <1>3, <2>2, CompleteTangent
  <2>3. CASE A[1] = B[1] /\ Cong(A[2] + B[2], 0) /\ Plus(c, A, B) = Infinity
    BY <1>3, <2>3, CompleteOpposites
  <2> QED
    BY <1>3, <2>1, <2>2, <2>3, PlusCases
<1> QED
  BY <1>1, <1>2, <1>3

\* The complete doubling computes the same polynomials, but for Z.
LEMMA CompleteDbls ==
  ASSUME NEW c, IsCurve(c), NEW form \in Forms, NEW a \in Int, NEW b \in Int,
         Cong(c.a.plain, a), Cong(c.b, b), NEW P,
         NEW X \in Int, NEW Y \in Int, NEW Z \in Int, Stands(form, P, X, Y, Z)
  PROVE  Stands(form, CompleteDbl(form, c, P), SumX(a, b, X, Y, Z, X, Y, Z),
                SumY(a, b, X, Y, Z, X, Y, Z), 8 * (Y * Y * Y) * Z)
<1> DEFINE e \odot f == Mul(form, e, f)
           e \oplus f == fp_add(e, f)
           e \ominus f == fp_sub(e, f)
           ca == c.a[form]
           cb == c.b3[form]
           t0 == P.X \odot P.X
           t1 == P.Y \odot P.Y
           t3 == (P.X \odot P.Y) \oplus (P.X \odot P.Y)
           z == (P.X \odot P.Z) \oplus (P.X \odot P.Z)
           y == (ca \odot z) \oplus (cb \odot (P.Z \odot P.Z))
           at2 == ca \odot (P.Z \odot P.Z)
           u3 == (ca \odot (t0 \ominus at2)) \oplus (cb \odot z)
           u0 == (((t0 \oplus t0) \oplus t0) \oplus at2) \odot u3
           u2 == (P.Y \odot P.Z) \oplus (P.Y \odot P.Z)
           z3 == (u2 \odot t1) \oplus (u2 \odot t1)
           D == Point((t3 \odot (t1 \ominus y)) \ominus (u2 \odot u3),
                      ((t1 \ominus y) \odot (t1 \oplus y)) \oplus u0,
                      z3 \oplus z3)
           s == SumS(a, b, X, Z, X, Z)
           u == SumU(a, b, X, Z, X, Z)
<1>0. CompleteDbl(form, c, P) = D
  BY DEF CompleteDbl, CompleteDblReading
<1> DEFINE RF(e, i) == RepField(form, e, i)
<1>1. RF(P.X, X) /\ RF(P.Y, Y) /\ RF(P.Z, Z) /\ RF(ca, a) /\ RF(cb, 3 * b)
  BY CurveFields, ResiduesInt DEF Stands, RepField
<1>2. \A e, f, i, j : RF(e, i) /\ RF(f, j) =>
        RF(e \odot f, i * j) /\ RF(e \oplus f, i + j) /\ RF(e \ominus f, i - j)
  BY MulField, AddField, SubField
<1> HIDE DEF RF
<1>3. RF(t0, X * X) /\ RF(t1, Y * Y)
  BY ONLY <1>1, <1>2
<1>4. RF(t3, X * Y + X * Y) /\ RF(z, X * Z + X * Z) /\ RF(u2, Y * Z + Y * Z)
  BY ONLY <1>1, <1>2
<1>5. RF(P.Z \odot P.Z, Z * Z)
  BY ONLY <1>1, <1>2
<1> HIDE DEF t0, t1, t3, z, u2
<1>6. RF(y, s)
  <2>1. RF(y, a * (X * Z + X * Z) + (3 * b) * (Z * Z))
    BY ONLY <1>1, <1>2, <1>4, <1>5
  <2>2. s \in Int /\ a * (X * Z + X * Z) + (3 * b) * (Z * Z) = s
    BY DEF SumS
  <2> QED
    BY <2>1, <2>2
<1>7. RF(at2, a * (Z * Z))
  BY ONLY <1>1, <1>2, <1>5
<1> HIDE DEF y, at2
<1>8. RF(u3, u)
  <2>1. RF(u3, a * (X * X - a * (Z * Z)) + (3 * b) * (X * Z + X * Z))
    BY ONLY <1>1, <1>2, <1>3, <1>4, <1>7
  <2>2. a * (X * X - a * (Z * Z)) + (3 * b) * (X * Z + X * Z) = u
    BY DEF SumU
  <2> QED
    BY <2>1, <2>2
<1> HIDE DEF u3
<1>9. RF(((t0 \oplus t0) \oplus t0) \oplus at2, 3 * (X * X) + a * (Z * Z))
  <2>1. RF(((t0 \oplus t0) \oplus t0) \oplus at2, ((X * X + X * X) + X * X) + a * (Z * Z))
    BY ONLY <1>2, <1>3, <1>7
  <2>2. ((X * X + X * X) + X * X) + a * (Z * Z) = 3 * (X * X) + a * (Z * Z)
    OBVIOUS
  <2> QED
    BY <2>1, <2>2
<1>10. RF(u0, (3 * (X * X) + a * (Z * Z)) * u)
  BY ONLY <1>2, <1>8, <1>9
<1> HIDE DEF u0
<1>11. RF(z3, (Y * Z + Y * Z) * (Y * Y) + (Y * Z + Y * Z) * (Y * Y))
  BY ONLY <1>2, <1>3, <1>4
<1> HIDE DEF z3, s, u
<1>12. /\ RF((t3 \odot (t1 \ominus y)) \ominus (u2 \odot u3),
             (X * Y + X * Y) * (Y * Y - s) - (Y * Z + Y * Z) * u)
       /\ RF(((t1 \ominus y) \odot (t1 \oplus y)) \oplus u0,
             (Y * Y - s) * (Y * Y + s) + (3 * (X * X) + a * (Z * Z)) * u)
  BY ONLY <1>2, <1>3, <1>4, <1>6, <1>8, <1>10
<1>13. RF(z3 \oplus z3, 8 * (Y * Y * Y) * Z)
  <2>1. RF(z3 \oplus z3, ((Y * Z + Y * Z) * (Y * Y) + (Y * Z + Y * Z) * (Y * Y))
                           + ((Y * Z + Y * Z) * (Y * Y) + (Y * Z + Y * Z) * (Y * Y)))
    BY ONLY <1>2, <1>11
  <2>2. ((Y * Z + Y * Z) * (Y * Y) + (Y * Z + Y * Z) * (Y * Y))
          + ((Y * Z + Y * Z) * (Y * Y) + (Y * Z + Y * Z) * (Y * Y)) = 8 * (Y * Y * Y) * Z
    OBVIOUS
  <2> QED
    BY <2>1, <2>2
<1> QED
  BY <1>0, <1>12, <1>13 DEF RF, RepField, Stands, Residues, Point, SumX, SumY, s, u

\* The complete doubling, of any point.
LEMMA CompleteDblCorrect ==
  ASSUME NEW c, IsCurve(c), NoOrderTwo(c), NEW form \in Forms, NEW A \in Group(c),
         NEW P, IsProjective(P, A)
  PROVE  IsProjective(CompleteDbl(form, c, P), Plus(c, A, A))
<1>1. CASE A = Infinity
  <2>1. PICK y \in Int : ~Cong(y, 0) /\ Stands(form, P, 0, y, 0)
    BY <1>1, FromProjective
  <2> DEFINE a == c.a.plain
             b == c.b
             D == CompleteDbl(form, c, P)
             r == y * y * y
  <2>2. a \in Int /\ b \in Int /\ 0 \in Int /\ Cong(a, a) /\ Cong(b, b)
    <3>1. a \in Int /\ b \in Int
      BY ElementsInt DEF IsCurve
    <3> QED
      BY <3>1 DEF Cong
  <2>3. Stands(form, D, SumX(a, b, 0, y, 0, 0, y, 0), SumY(a, b, 0, y, 0, 0, y, 0), 8 * r * 0)
    BY <2>1, <2>2, CompleteDbls
  <2> HIDE DEF a, b
  <2>4. SumX(a, b, 0, y, 0, 0, y, 0) = 0 * r /\ SumY(a, b, 0, y, 0, 0, y, 0) = y * r
    BY ONLY <2>2, y \in Int DEF SumX, SumY, SumS, SumU
  <2>5. r \in Int /\ ~Cong(r, 0)
    BY <2>1, CubeNotZero
  <2> HIDE DEF r
  <2>6. y * r \in Int /\ ~Cong(y * r, 0) /\ 0 * r = 0 /\ 8 * r * 0 = 0
    BY <2>1, <2>5, NotZeroMul
  <2>7. Plus(c, A, A) = Infinity
    BY <1>1 DEF Plus
  <2> QED
    BY <2>3, <2>4, <2>6, <2>7, ToInfinity
<1>2. CASE A # Infinity
  <2> DEFINE x == A[1]
             y == A[2]
  <2>1. PICK l \in Int : /\ Tangent(c, A, Plus(c, A, A), l) /\ A \in Pairs /\ x \in Int /\ y \in Int
                         /\ 8 * (y * y * y) \in Int /\ ~Cong(8 * (y * y * y), 0)
    BY <1>2, TangentTerms
  <2>2. PICK z \in Int : ~Cong(z, 0) /\ Stands(form, P, x * z, y * z, z)
    BY <1>2, FromProjective
  <2> DEFINE a == TangentA(x, l, y)
             b == TangentB(x, l, y)
             s == (z * z) * (z * z)
             r == 8 * (y * y * y)
             t == r * s
             C == Plus(c, A, A)
             D == CompleteDbl(form, c, P)
             u == ThirdX(x, 0, l)
             v == TangentY(x, l, y)
             X == x * z
             Y == y * z
  <2>3. /\ Cong(c.a.plain, a) /\ Cong(c.b, b) /\ C \in Pairs /\ Cong(C[1], u) /\ Cong(C[2], v)
        /\ a \in Int /\ b \in Int /\ u \in Int /\ v \in Int
    BY <2>1, TangentTypes DEF Tangent
  <2>4. s \in Int /\ ~Cong(s, 0) /\ X \in Int /\ Y \in Int
    <3> HIDE DEF x, y
    <3> QED
      BY <2>1, <2>2, SquareNotZero
  <2>5. t \in Int /\ ~Cong(t, 0)
    BY ONLY <2>1, <2>4, NotZeroMul
  <2>6. Stands(form, P, X, Y, z)
    BY <2>2
  <2>7. SumX(a, b, X, Y, z, X, Y, z) = u * t /\ SumY(a, b, X, Y, z, X, Y, z) = v * t /\ 8 * (Y * Y * Y) * z = t
    <3> HIDE DEF x, y
    <3> QED
      BY ONLY <2>1, z \in Int, l \in Int, SMTT(60)
         DEF SumX, SumY, SumS, SumU, TangentA, TangentB, ThirdX, TangentY
  <2> HIDE DEF a, b, u, v, t, X, Y, C
  <2>8. Stands(form, D, u * t, v * t, t)
    BY <2>3, <2>4, <2>6, <2>7, CompleteDbls
  <2> HIDE DEF D
  <2>9. IsProjective(D, C)
    BY <2>3, <2>5, <2>8, ToPair
  <2> QED
    BY <2>9 DEF C, D
<1> QED
  BY <1>1, <1>2

-----------------------------------------------------------------------------
(* The formulas of the other build.                                          *)

CmoA(X, Z, W, i, j) == ((i * i) * (Z * W) - j * (j * j)) - (j * j) * (X * W) - (j * j) * (X * W)

LEMMA CmoAdds ==
  ASSUME NEW form \in Forms, NEW P, NEW Q,
         NEW X \in Int, NEW Y \in Int, NEW Z \in Int, NEW U \in Int, NEW V \in Int, NEW W \in Int,
         Stands(form, P, X, Y, Z), Stands(form, Q, U, V, W)
  PROVE  LET i == V * Z - Y * W
             j == U * Z - X * W
             k == CmoA(X, Z, W, i, j)
         IN  Stands(form, CmoAdd(form, P, Q), j * k,
                    i * ((j * j) * (X * W) - k) - (j * (j * j)) * (Y * W), (j * (j * j)) * (Z * W))
<1> DEFINE e \odot f == Mul(form, e, f)
           e \ominus f == fp_sub(e, f)
           Y1Z2 == P.Y \odot Q.Z
           X1Z2 == P.X \odot Q.Z
           Z1Z2 == P.Z \odot Q.Z
           u == (Q.Y \odot P.Z) \ominus Y1Z2
           v == (Q.X \odot P.Z) \ominus X1Z2
           vv == v \odot v
           vvv == v \odot vv
           R2 == vv \odot X1Z2
           A == (((u \odot u) \odot Z1Z2) \ominus vvv) \ominus R2 \ominus R2
           D == Point(v \odot A, (u \odot (R2 \ominus A)) \ominus (vvv \odot Y1Z2), vvv \odot Z1Z2)
           i == V * Z - Y * W
           j == U * Z - X * W
           k == CmoA(X, Z, W, i, j)
<1>0. CmoAdd(form, P, Q) = D
  BY DEF CmoAdd
<1> DEFINE RF(e, n) == RepField(form, e, n)
<1>1. /\ RF(P.X, X) /\ RF(P.Y, Y) /\ RF(P.Z, Z) /\ RF(Q.X, U) /\ RF(Q.Y, V) /\ RF(Q.Z, W)
  BY ResiduesInt DEF Stands, RepField
<1>2. \A e, f, m, n : RF(e, m) /\ RF(f, n) =>
        RF(e \odot f, m * n) /\ RF(e \ominus f, m - n)
  BY MulField, SubField
<1> HIDE DEF RF
<1>3. RF(Y1Z2, Y * W) /\ RF(X1Z2, X * W) /\ RF(Z1Z2, Z * W) /\ RF(Q.Y \odot P.Z, V * Z) /\ RF(Q.X \odot P.Z, U * Z)
  BY ONLY <1>1, <1>2
<1> HIDE DEF Y1Z2, X1Z2, Z1Z2
<1>4. RF(u, i) /\ RF(v, j)
  BY ONLY <1>2, <1>3
<1> HIDE DEF u, v, i, j
<1>5. RF(vv, j * j)
  BY ONLY <1>2, <1>4
<1> HIDE DEF vv
<1>6. RF(vvv, j * (j * j)) /\ RF(R2, (j * j) * (X * W)) /\ RF(u \odot u, i * i)
  BY ONLY <1>2, <1>3, <1>4, <1>5
<1> HIDE DEF vvv, R2
<1>7. RF((u \odot u) \odot Z1Z2, (i * i) * (Z * W))
  BY ONLY <1>2, <1>3, <1>6
<1>8. RF(A, k)
  BY ONLY <1>2, <1>6, <1>7 DEF CmoA
<1> HIDE DEF A, k
<1>9. /\ RF(v \odot A, j * k)
      /\ RF((u \odot (R2 \ominus A)) \ominus (vvv \odot Y1Z2), i * ((j * j) * (X * W) - k) - (j * (j * j)) * (Y * W))
      /\ RF(vvv \odot Z1Z2, (j * (j * j)) * (Z * W))
  BY ONLY <1>2, <1>3, <1>4, <1>6, <1>8
<1> QED
  BY <1>0, <1>9 DEF RF, RepField, Stands, Residues, Point, k, i, j

\* Its addition, of points with different abscissas.
LEMMA CmoChord ==
  ASSUME NEW c, IsCurve(c), NEW form \in Forms,
         NEW A \in Group(c), NEW B \in Group(c), A # Infinity, B # Infinity, A[1] # B[1],
         NEW P, NEW Q, IsProjective(P, A), IsProjective(Q, B)
  PROVE  IsProjective(CmoAdd(form, P, Q), Plus(c, A, B))
<1>1. PICK d, l, m, h \in Int : /\ Chord(c, A, B, Plus(c, A, B), d, l, h)
                                /\ Chord(c, A, Opposite(B), Plus(c, A, Opposite(B)), d, m, h)
                                /\ Cong(m, -(2 * h) - l)
  BY ChordPoints
<1>2. PICK z \in Int : ~Cong(z, 0) /\ Stands(form, P, A[1] * z, A[2] * z, z)
  BY FromProjective
<1>3. PICK w \in Int : ~Cong(w, 0) /\ Stands(form, Q, B[1] * w, B[2] * w, w)
  BY FromProjective
<1> DEFINE x == A[1]
           C == Plus(c, A, B)
           D == CmoAdd(form, P, Q)
           u == ThirdX(x, d, l)
           v == ThirdY(x, d, l, h)
           q == (z * w) * (z * w)
           s == q * q
           t == (d * d * d) * s
<1>4. A \in Pairs /\ B \in Pairs /\ x \in Int /\ B[1] = x + d
  <2>1. c.a.plain \in Int /\ c.b \in Int
    BY ElementsInt DEF IsCurve
  <2> QED
    BY <1>1, <2>1, GroupPoints, PairsInt DEF Chord
<1>5. /\ Cong(A[2], d * h) /\ Cong(B[2], d * (h + l)) /\ ~Cong(d, 0)
      /\ C \in Pairs /\ Cong(C[1], u) /\ Cong(C[2], v)
  BY <1>1 DEF Chord
<1>6. u \in Int /\ v \in Int /\ d * h \in Int /\ d * (h + l) \in Int /\ x + d \in Int
  <2>1. d * h \in Int /\ d * (h + l) \in Int /\ x + d \in Int
    BY <1>4
  <2> HIDE DEF x
  <2> QED
    BY ONLY <1>4, <2>1, d \in Int, l \in Int, h \in Int, ChordTypes
<1>7. Stands(form, P, x * z, (d * h) * z, z) /\ Stands(form, Q, (x + d) * w, (d * (h + l)) * w, w)
  <2>1. Cong(A[1], x) /\ Cong(B[1], x + d)
    BY <1>4 DEF Cong
  <2> HIDE DEF x
  <2> QED
    BY <1>2, <1>3, <1>4, <1>5, <1>6, <2>1, PairStands
<1>8. t \in Int /\ ~Cong(t, 0)
  <2>1. d * d * d \in Int /\ ~Cong(d * d * d, 0)
    BY <1>5, CubeNotZero
  <2>2. q \in Int /\ ~Cong(q, 0)
    BY <1>2, <1>3, SquareNotZero
  <2> HIDE DEF q
  <2>3. s \in Int /\ ~Cong(s, 0)
    BY ONLY <2>2, NotZeroMul
  <2> QED
    BY ONLY <2>1, <2>3, NotZeroMul
<1> HIDE DEF x
<1> DEFINE X == x * z
           Y == (d * h) * z
           U == (x + d) * w
           V == (d * (h + l)) * w
           i == V * z - Y * w
           j == U * z - X * w
           k == CmoA(X, z, w, i, j)
           kx == j * k
           ky == i * ((j * j) * (X * w) - k) - (j * (j * j)) * (Y * w)
           kz == (j * (j * j)) * (z * w)
<1>9. Stands(form, P, X, Y, z) /\ Stands(form, Q, U, V, w)
  BY <1>7
<1>10. X \in Int /\ Y \in Int /\ U \in Int /\ V \in Int
  BY <1>4
<1>11. kx = u * t /\ ky = v * t /\ kz = t
  <2>1. i = d * l * (z * w) /\ j = d * (z * w)
    BY ONLY <1>4, d \in Int, l \in Int, h \in Int, z \in Int, w \in Int
  <2>2. k = (d * d) * ((z * w) * ((z * w) * (z * w))) * (l * l - d - x - x)
    <3> HIDE DEF i, j
    <3> QED
      BY ONLY <1>4, <2>1, d \in Int, l \in Int, z \in Int, w \in Int, SMTT(60) DEF CmoA
  <2> HIDE DEF i, j, k
  <2> QED
    BY ONLY <1>4, <2>1, <2>2, d \in Int, l \in Int, h \in Int, z \in Int, w \in Int, SMTT(60) DEF ThirdX, ThirdY
<1> HIDE DEF X, Y, U, V
<1>12. Stands(form, D, kx, ky, kz)
  BY ONLY <1>9, <1>10, CmoAdds, form \in Forms, z \in Int, w \in Int
<1> HIDE DEF kx, ky, kz, t, u, v, C, D
<1>13. Stands(form, D, u * t, v * t, t)
  BY <1>11, <1>12
<1>14. IsProjective(D, C)
  BY <1>5, <1>6, <1>8, <1>13, ToPair
<1> QED
  BY <1>14 DEF C, D

LEMMA CmoDbls ==
  ASSUME NEW c, IsCurve(c), NEW form \in Forms, NEW a \in Int, Cong(c.a.plain, a), NEW P,
         NEW X \in Int, NEW Y \in Int, NEW Z \in Int, Stands(form, P, X, Y, Z)
  PROVE  LET w == a * (Z * Z) + 3 * (X * X)
             s == 2 * (Y * Z)
             B == 2 * (Y * s * X)
             h == w * w - 2 * B
         IN  Stands(form, CmoDbl(form, c, P), h * s,
                    w * (B - h) - 2 * ((Y * s) * (Y * s)), s * (s * s))
<1> DEFINE e \odot f == Mul(form, e, f)
           e \oplus f == fp_add(e, f)
           e \ominus f == fp_sub(e, f)
           ca == c.a[form]
           XX == P.X \odot P.X
           ew == (((ca \odot (P.Z \odot P.Z)) \oplus XX) \oplus XX) \oplus XX
           es == (P.Y \odot P.Z) \oplus (P.Y \odot P.Z)
           R1 == P.Y \odot es
           RR == R1 \odot R1
           eB == (((R1 \oplus P.X) \odot (R1 \oplus P.X)) \ominus XX) \ominus RR
           eh == ((ew \odot ew) \ominus eB) \ominus eB
           D == Point(eh \odot es, ((ew \odot (eB \ominus eh)) \ominus RR) \ominus RR, es \odot (es \odot es))
           w == a * (Z * Z) + 3 * (X * X)
           s == 2 * (Y * Z)
           r == Y * s
           B == 2 * (r * X)
           h == w * w - 2 * B
<1>0. CmoDbl(form, c, P) = D
  BY DEF CmoDbl
<1> DEFINE RF(e, n) == RepField(form, e, n)
<1>1. RF(P.X, X) /\ RF(P.Y, Y) /\ RF(P.Z, Z) /\ RF(ca, a)
  <2>1. c.a[form] \in Field /\ Rep(form, c.a[form], c.a.plain)
    BY DEF IsCurve
  <2>2. RF(ca, a)
    BY <2>1, RepSame DEF RepField
  <2> QED
    BY <2>2, ResiduesInt DEF Stands, RepField
<1>2. \A e, f, m, n : RF(e, m) /\ RF(f, n) =>
        RF(e \odot f, m * n) /\ RF(e \oplus f, m + n) /\ RF(e \ominus f, m - n)
  BY MulField, AddField, SubField
<1> HIDE DEF RF
<1>3. RF(XX, X * X) /\ RF(P.Z \odot P.Z, Z * Z) /\ RF(P.Y \odot P.Z, Y * Z)
  BY ONLY <1>1, <1>2
<1> HIDE DEF XX
<1>4. RF(ew, w)
  <2>1. RF(ca \odot (P.Z \odot P.Z), a * (Z * Z))
    BY ONLY <1>1, <1>2, <1>3
  <2>2. RF(ew, ((a * (Z * Z) + X * X) + X * X) + X * X)
    BY ONLY <1>2, <1>3, <2>1
  <2>3. ((a * (Z * Z) + X * X) + X * X) + X * X = w
    OBVIOUS
  <2> QED
    BY <2>2, <2>3
<1>5. RF(es, s)
  <2>1. RF(es, Y * Z + Y * Z)
    BY ONLY <1>2, <1>3
  <2>2. Y * Z + Y * Z = s
    OBVIOUS
  <2> QED
    BY <2>1, <2>2
<1> HIDE DEF ew, es
<1>6. s \in Int /\ w \in Int
  OBVIOUS
<1> HIDE DEF s, w
<1>7. RF(R1, r) /\ r \in Int
  <2>1. RF(R1, r)
    BY ONLY <1>1, <1>2, <1>5
  <2> QED
    BY <1>6, <2>1
<1> HIDE DEF R1, r
<1>8. RF(RR, r * r)
  BY ONLY <1>2, <1>7
<1> HIDE DEF RR
<1>9. RF(eB, B) /\ B \in Int
  <2>1. RF(eB, ((r + X) * (r + X) - X * X) - r * r)
    BY ONLY <1>1, <1>2, <1>3, <1>7, <1>8
  <2>2. ((r + X) * (r + X) - X * X) - r * r = B /\ B \in Int
    BY <1>7
  <2> QED
    BY <2>1, <2>2
<1> HIDE DEF eB, B
<1>10. RF(eh, h) /\ h \in Int
  <2>1. RF(eh, (w * w - B) - B)
    BY ONLY <1>2, <1>4, <1>9
  <2>2. (w * w - B) - B = h /\ h \in Int
    BY <1>6, <1>9
  <2> QED
    BY <2>1, <2>2
<1> HIDE DEF eh, h
<1>11. RF(((ew \odot (eB \ominus eh)) \ominus RR) \ominus RR, w * (B - h) - 2 * (r * r))
  <2>1. RF(((ew \odot (eB \ominus eh)) \ominus RR) \ominus RR, (w * (B - h) - r * r) - r * r)
    BY ONLY <1>2, <1>4, <1>8, <1>9, <1>10
  <2>2. (w * (B - h) - r * r) - r * r = w * (B - h) - 2 * (r * r)
    BY <1>6, <1>7, <1>9, <1>10
  <2> QED
    BY <2>1, <2>2
<1>12. RF(eh \odot es, h * s) /\ RF(es \odot (es \odot es), s * (s * s))
  BY ONLY <1>2, <1>5, <1>10
<1>13. Stands(form, D, h * s, w * (B - h) - 2 * (r * r), s * (s * s))
  BY <1>11, <1>12 DEF RF, RepField, Stands, Residues, Point
<1> QED
  BY <1>0, <1>13 DEF w, s, r, B, h

\* On a curve that is not singular, no tangent of an ordinate 0 is horizontal.
LEMMA TangentNotZero ==
  ASSUME NEW c, IsCurve(c), NEW A \in Group(c), A # Infinity, A[2] = 0
  PROVE  ~Cong(c.a.plain + 3 * (A[1] * A[1]), 0)
<1> DEFINE a == c.a.plain
           b == c.b
           x == A[1]
           f == x * x * x + a * x + b
           g == a + 3 * (x * x)
           q == 4 * (a * a * a) + 27 * (b * b)
<1>0. a \in Int /\ b \in Int /\ ~Cong(q, 0)
  BY ElementsInt DEF IsCurve
<1>1. x \in Int /\ Cong(0 * 0, f)
  BY <1>0, GroupPoints, PairsInt DEF Equation
<1> HIDE DEF a, b, x
<1>2. ASSUME Cong(g, 0) PROVE FALSE
  <2>0. f \in Int /\ g \in Int /\ 0 \in Int /\ 0 * 0 = 0 /\ q \in Int /\ p \in Int
    BY <1>0, <1>1, PBounds
  <2> HIDE DEF f, g
  <2>1. PICK k \in Int : g = 0 + p * k
    BY ONLY <1>2, <2>0, CongMeans
  <2>2. PICK m \in Int : 0 = f + p * m
    <3>1. Cong(0, f)
      BY <1>1, <2>0
    <3> QED
      BY ONLY <2>0, <3>1, CongMeans
  <2> DEFINE i == p * k
             j == p * m
             e == k * (4 * (i * i) - 9 * (i * (x * x)))
                    + m * (27 * j - 108 * (x * x * x) + 54 * (i * x))
  <2>3. a = i - 3 * (x * x) /\ i \in Int
    BY <1>0, <1>1, <2>0, <2>1 DEF g
  <2>4. b = 2 * (x * x * x) - i * x - j /\ j \in Int
    BY <1>0, <1>1, <2>0, <2>2, <2>3 DEF f
  <2>5. e \in Int
    BY <1>1, <2>3, <2>4
  <2>6. q = 0 + p * e
    <3>1. p * e = i * (4 * (i * i) - 9 * (i * (x * x))) + j * (27 * j - 108 * (x * x * x) + 54 * (i * x))
      BY ONLY <1>1, <2>0, k \in Int, m \in Int
    <3> HIDE DEF i, j, e
    <3> QED
      BY ONLY <1>1, <2>0, <2>3, <2>4, <3>1
  <2> HIDE DEF e, q
  <2> QED
    BY <1>0, <2>0, <2>5, <2>6, CongOf
<1> QED
  BY <1>2 DEF g, a, x

\* The doubling, of a point that is not infinity: where the tangent is vertical the
\* result is infinity.
LEMMA CmoTangent ==
  ASSUME NEW c, IsCurve(c), NEW form \in Forms, NEW A \in Group(c), A # Infinity,
         NEW P, IsProjective(P, A)
  PROVE  IsProjective(CmoDbl(form, c, P), Plus(c, A, A))
<1> DEFINE x == A[1]
           y == A[2]
           C == Plus(c, A, A)
           D == CmoDbl(form, c, P)
<1>1. A \in Pairs /\ x \in Int /\ y \in Int /\ y \in Field /\ c.a.plain \in Int
  <2>1. c.a.plain \in Int /\ c.b \in Int
    BY ElementsInt DEF IsCurve
  <2> QED
    BY <2>1, GroupPoints, PairsInt
<1>2. PICK z \in Int : ~Cong(z, 0) /\ Stands(form, P, x * z, y * z, z)
  BY FromProjective
<1>3. CASE ~Cong(y, 0)
  <2>1. ~Cong(2 * y, 0)
    <3>1. ~Cong(2, 0) /\ 2 \in Int
      BY PBounds, ResidueZero DEF Field
    <3> HIDE DEF y
    <3> QED
      BY ONLY <1>1, <1>3, <3>1, CongZero
  <2>2. PICK l \in Int : Tangent(c, A, C, l)
    BY <2>1, TangentPoint
  <2> DEFINE a == TangentA(x, l, y)
             u == ThirdX(x, 0, l)
             v == TangentY(x, l, y)
             q == (z * z) * (z * z)
             r == 8 * (y * y * y)
             s == q * (z * z)
             t == r * s
  <2>3. /\ Cong(c.a.plain, a) /\ C \in Pairs /\ Cong(C[1], u) /\ Cong(C[2], v)
        /\ a \in Int /\ u \in Int /\ v \in Int
    BY <1>1, <2>2, TangentTypes DEF Tangent
  <2> HIDE DEF x, y
  <2>4. t \in Int /\ ~Cong(t, 0)
    <3>1. q \in Int /\ ~Cong(q, 0)
      BY <1>2, SquareNotZero
    <3>2. z * z \in Int /\ ~Cong(z * z, 0)
      BY <1>2, NotZeroMul
    <3>3. r \in Int /\ ~Cong(r, 0)
      BY <1>1, <1>3, CubeNotZero, EightNotZero, NotZeroMul
    <3> HIDE DEF q, r
    <3>4. s \in Int /\ ~Cong(s, 0)
      BY ONLY <3>1, <3>2, NotZeroMul
    <3> QED
      BY ONLY <3>3, <3>4, NotZeroMul
  <2> DEFINE X == x * z
             Y == y * z
             i == a * (z * z) + 3 * (X * X)
             j == 2 * (Y * z)
             B == 2 * (Y * j * X)
             h == i * i - 2 * B
             kx == h * j
             ky == i * (B - h) - 2 * ((Y * j) * (Y * j))
             kz == j * (j * j)
  <2>5. Stands(form, P, X, Y, z) /\ X \in Int /\ Y \in Int
    BY <1>1, <1>2
  <2>6. kx = u * t /\ ky = v * t /\ kz = t
    <3>1. i = 2 * (y * l) * (z * z) /\ j = 2 * y * (z * z) /\ Y * j = 2 * (y * y) * (z * z * z)
      BY ONLY <1>1, l \in Int, z \in Int, SMTT(60) DEF TangentA
    <3>2. B = 4 * (x * (y * y)) * ((z * z) * (z * z))
      <4> HIDE DEF i, j
      <4> QED
        BY ONLY <1>1, <3>1, z \in Int
    <3>3. h = 4 * (y * y) * ((z * z) * (z * z)) * (l * l - 2 * x)
      <4> HIDE DEF i, j, B
      <4> QED
        BY ONLY <1>1, <3>1, <3>2, l \in Int, z \in Int
    <3> HIDE DEF i, j, B, h
    <3> QED
      BY ONLY <1>1, <3>1, <3>2, <3>3, l \in Int, z \in Int, SMTT(60) DEF ThirdX, TangentY
  <2> HIDE DEF X, Y
  <2>7. Stands(form, D, kx, ky, kz)
    <3> HIDE DEF a
    <3> QED
      BY ONLY <2>3, <2>5, CmoDbls, IsCurve(c), form \in Forms, z \in Int
  <2> HIDE DEF kx, ky, kz, t, u, v, C, D
  <2>8. Stands(form, D, u * t, v * t, t)
    BY <2>6, <2>7
  <2>9. IsProjective(D, C)
    BY <2>3, <2>4, <2>8, ToPair
  <2> QED
    BY <2>9 DEF C, D
<1>4. CASE Cong(y, 0)
  <2>1. y = 0
    BY <1>1, <1>4, ResidueZero
  <2>2. C = Infinity
    <3>1. (y + y) % p = 0
      BY <2>1, PBounds
    <3> QED
      BY <3>1 DEF Plus
  <2> DEFINE a == c.a.plain
             X == x * z
             g == (a + 3 * (x * x)) * (z * z)
             i == a * (z * z) + 3 * (X * X)
             j == 2 * (0 * z)
             B == 2 * (0 * j * X)
             h == i * i - 2 * B
             kx == h * j
             ky == i * (B - h) - 2 * ((0 * j) * (0 * j))
             kz == j * (j * j)
             n == (-1) * (g * g * g)
  <2>3. ~Cong(a + 3 * (x * x), 0)
    BY <2>1, TangentNotZero
  <2> HIDE DEF x, y
  <2>4. g \in Int /\ ~Cong(g, 0)
    <3>1. a + 3 * (x * x) \in Int
      BY <1>1
    <3>2. z * z \in Int /\ ~Cong(z * z, 0)
      BY <1>2, NotZeroMul
    <3> QED
      BY ONLY <2>3, <3>1, <3>2, NotZeroMul
  <2>5. n \in Int /\ ~Cong(n, 0)
    <3> HIDE DEF g
    <3>1. g * g * g \in Int /\ ~Cong(g * g * g, 0)
      BY <2>4, CubeNotZero
    <3>2. -1 \in Int /\ ~Cong(-1, 0)
      <4>1. (-1) * (-1) = 1 /\ (-1) * 0 = 0 /\ -1 \in Int /\ 0 \in Int /\ 1 \in Int /\ Cong(-1, -1)
        BY DEF Cong
      <4>2. ~Cong(1, 0)
        BY PBounds, ResidueZero DEF Field
      <4>3. Cong(-1, 0) => Cong((-1) * (-1), (-1) * 0)
        BY ONLY <4>1, CongMul
      <4> QED
        BY <4>1, <4>2, <4>3
    <3> QED
      BY ONLY <3>1, <3>2, NotZeroMul
  <2>6. Stands(form, P, X, 0, z) /\ X \in Int /\ Cong(a, a) /\ 0 \in Int
    <3>1. X \in Int /\ 0 * z = 0
      BY <1>1
    <3> QED
      BY <1>2, <2>1, <3>1 DEF Cong
  <2>7. kx = 0 /\ ky = n /\ kz = 0
    <3>1. i = g /\ j = 0 /\ g \in Int
      BY ONLY <1>1, z \in Int
    <3>2. B = 0
      <4> HIDE DEF j
      <4> QED
        BY ONLY <2>6, <3>1
    <3>3. h = g * g
      <4> HIDE DEF i, g, B
      <4> QED
        BY ONLY <3>1, <3>2
    <3> HIDE DEF i, j, B, h, g
    <3> QED
      BY ONLY <3>1, <3>2, <3>3
  <2> HIDE DEF X
  <2>8. Stands(form, D, kx, ky, kz)
    <3> HIDE DEF a
    <3>1. Cong(c.a.plain, a) /\ a \in Int
      BY <1>1, <2>6 DEF a
    <3> QED
      BY ONLY <2>6, <3>1, CmoDbls, IsCurve(c), form \in Forms, z \in Int
  <2> HIDE DEF kx, ky, kz, n
  <2> QED
    BY <2>2, <2>5, <2>7, <2>8, ToInfinity
<1> QED
  BY <1>3, <1>4

-----------------------------------------------------------------------------
(* The comparisons, and the two functions as callers see them.               *)

\* Residues are equal, or opposite, when what they stand for is so modulo p.
LEMMA SameResidues ==
  ASSUME NEW form \in Forms, NEW e, NEW f, NEW i, NEW j, RepField(form, e, i), RepField(form, f, j)
  PROVE  /\ e = f <=> Cong(i, j)
         /\ fp_eq_or_opp(e, f) <=> Cong(i, j) \/ Cong(i, -j)
<1>1. /\ e \in Field /\ f \in Field /\ e \in Int /\ f \in Int /\ i \in Int /\ j \in Int
      /\ Rep(form, e, i) /\ Rep(form, f, j)
  BY ElementsInt DEF RepField, Rep
<1>2. ASSUME NEW g \in Field, NEW k, Rep(form, g, k)
      PROVE  e = g <=> Cong(i, k)
  <2>1. Cong(i, k) <=> Cong(e, g)
    BY <1>1, <1>2, RepCong
  <2>2. Cong(e, g) => e = g
    BY <1>1, CongField
  <2> QED
    BY <2>1, <2>2 DEF Cong
<1>3. fp_sub(0, f) \in Field /\ Rep(form, fp_sub(0, f), -j)
  <2>1. 0 \in Field /\ 0 \in Elements /\ 0 \in Int /\ 0 * Unit(form) = 0
    BY PBounds, UnitNotZero DEF Field, Elements
  <2>2. Rep(form, 0, 0)
    BY <2>1 DEF Rep, Cong
  <2>3. Rep(form, fp_sub(0, f), 0 - j) /\ 0 - j = -j
    BY <1>1, <2>2, RepSub
  <2> QED
    BY <1>1, <2>1, <2>3, FieldSums
<1>4. fp_eq_or_opp(e, f) <=> e = f \/ e = fp_sub(0, f)
  BY <1>1, PBounds DEF fp_eq_or_opp, fp_neg, fp_sub, Field
<1> QED
  BY <1>1, <1>2, <1>3, <1>4

LEMMA ProjectiveZero ==
  ASSUME NEW P, NEW A, IsProjective(P, A)
  PROVE  /\ prj_pt_iszero(P) <=> A = Infinity
         /\ P.Z = 0 <=> A = Infinity
BY DEF IsProjective, prj_pt_iszero

\* The products that are compared, for two points that are not infinity.
LEMMA ComparedProducts ==
  ASSUME NEW P, NEW A \in Pairs, NEW Q, NEW B \in Pairs, IsProjective(P, A), IsProjective(Q, B)
  PROVE  /\ fp_mul_redc1(P.X, Q.Z) = fp_mul_redc1(Q.X, P.Z) <=> A[1] = B[1]
         /\ fp_mul_redc1(P.Y, Q.Z) = fp_mul_redc1(Q.Y, P.Z) <=> A[2] = B[2]
         /\ fp_eq_or_opp(fp_mul_redc1(P.Y, Q.Z), fp_mul_redc1(Q.Y, P.Z))
              <=> A[2] = B[2] \/ Cong(A[2], -B[2])
<1>0. "monty" \in Forms /\ \A e, f : fp_mul_redc1(e, f) = Mul("monty", e, f)
  BY DEF Forms, Mul
<1>1. /\ A[1] \in Field /\ A[2] \in Field /\ A[1] \in Int /\ A[2] \in Int /\ A # Infinity
      /\ B[1] \in Field /\ B[2] \in Field /\ B[1] \in Int /\ B[2] \in Int /\ B # Infinity
  BY PairsInt
<1>2. PICK z \in Int : ~Cong(z, 0) /\ Stands("monty", P, A[1] * z, A[2] * z, z)
  BY <1>0, <1>1, FromProjective
<1>3. PICK w \in Int : ~Cong(w, 0) /\ Stands("monty", Q, B[1] * w, B[2] * w, w)
  BY <1>0, <1>1, FromProjective
<1>4. /\ RepField("monty", P.X, A[1] * z) /\ RepField("monty", P.Y, A[2] * z) /\ RepField("monty", P.Z, z)
      /\ RepField("monty", Q.X, B[1] * w) /\ RepField("monty", Q.Y, B[2] * w) /\ RepField("monty", Q.Z, w)
  BY <1>2, <1>3, ResiduesInt DEF Stands, RepField
<1>5. z * w \in Int /\ ~Cong(z * w, 0)
  BY <1>2, <1>3, NotZeroMul
<1>6. ASSUME NEW x \in Int, NEW y \in Int
      PROVE  Cong((x * z) * w, (y * w) * z) <=> Cong(x, y)
  <2>1. (x * z) * w = x * (z * w) /\ (y * w) * z = y * (z * w)
    OBVIOUS
  <2>2. Cong(x * (z * w), y * (z * w)) => Cong(x, y)
    BY ONLY <1>5, <1>6, CongCancel
  <2>3. Cong(x, y) => Cong(x * (z * w), y * (z * w))
    <3>1. Cong(z * w, z * w)
      BY DEF Cong
    <3> QED
      BY ONLY <1>5, <1>6, <3>1, CongMul
  <2> QED
    BY <2>1, <2>2, <2>3
<1>7. fp_mul_redc1(P.X, Q.Z) = fp_mul_redc1(Q.X, P.Z) <=> A[1] = B[1]
  <2>1. /\ RepField("monty", fp_mul_redc1(P.X, Q.Z), (A[1] * z) * w)
        /\ RepField("monty", fp_mul_redc1(Q.X, P.Z), (B[1] * w) * z)
    BY <1>0, <1>4, MulField
  <2>2. fp_mul_redc1(P.X, Q.Z) = fp_mul_redc1(Q.X, P.Z) <=> Cong(A[1], B[1])
    <3>1. fp_mul_redc1(P.X, Q.Z) = fp_mul_redc1(Q.X, P.Z) <=> Cong((A[1] * z) * w, (B[1] * w) * z)
      <4> DEFINE i == (A[1] * z) * w
                 j == (B[1] * w) * z
                 e == fp_mul_redc1(P.X, Q.Z)
                 f == fp_mul_redc1(Q.X, P.Z)
      <4>1. RepField("monty", e, i) /\ RepField("monty", f, j)
        BY <2>1
      <4> HIDE DEF i, j, e, f
      <4>2. e = f <=> Cong(i, j)
        BY <1>0, <4>1, SameResidues
      <4> QED
        BY <4>2 DEF i, j, e, f
    <3>2. Cong((A[1] * z) * w, (B[1] * w) * z) <=> Cong(A[1], B[1])
      BY ONLY <1>1, <1>6
    <3> QED
      BY <3>1, <3>2
  <2>3. Cong(A[1], B[1]) <=> A[1] = B[1]
    BY <1>1, CongField DEF Cong
  <2> QED
    BY <2>2, <2>3
<1>8. /\ RepField("monty", fp_mul_redc1(P.Y, Q.Z), (A[2] * z) * w)
      /\ RepField("monty", fp_mul_redc1(Q.Y, P.Z), (B[2] * w) * z)
  BY <1>0, <1>4, MulField
<1>9. Cong((A[2] * z) * w, (B[2] * w) * z) <=> A[2] = B[2]
  <2>1. Cong(A[2], B[2]) <=> A[2] = B[2]
    BY <1>1, CongField DEF Cong
  <2> QED
    BY <1>1, <1>6, <2>1
<1>10. Cong((A[2] * z) * w, -((B[2] * w) * z)) <=> Cong(A[2], -B[2])
  <2>1. -B[2] \in Int /\ ((-B[2]) * w) * z = -((B[2] * w) * z)
    BY <1>1
  <2>2. Cong((A[2] * z) * w, ((-B[2]) * w) * z) <=> Cong(A[2], -B[2])
    BY ONLY <1>1, <1>6, <2>1
  <2> QED
    BY <2>1, <2>2
<1> QED
  BY <1>0, <1>7, <1>8, <1>9, <1>10, SameResidues

\* prj_pt_cmp and prj_pt_eq_or_opp.
LEMMA Compared ==
  ASSUME NEW c, IsCurve(c), NEW A \in Group(c), NEW B \in Group(c),
         NEW P, NEW Q, IsProjective(P, A), IsProjective(Q, B)
  PROVE  /\ prj_pt_cmp(P, Q) = 0 <=> A = B
         /\ prj_pt_eq_or_opp(P, Q) <=> A \in {B, Opposite(B)}
<1>1. c.a.plain \in Int /\ c.b \in Int
  BY ElementsInt DEF IsCurve
<1>2. CASE A # Infinity /\ B # Infinity
  <2>1. /\ A \in Pairs /\ B \in Pairs /\ A = <<A[1], A[2]>> /\ B = <<B[1], B[2]>>
        /\ A[2] \in Int /\ B[2] \in Int
    BY <1>1, <1>2, GroupPoints, PairsInt
  <2>2. A = B <=> A[1] = B[1] /\ A[2] = B[2]
    BY <2>1
  <2>3. A = Opposite(B) <=> A[1] = B[1] /\ Cong(A[2], -B[2])
    <3> DEFINE O == Opposite(B)
    <3>1. O \in Pairs /\ O[1] = B[1] /\ Cong(O[2], -B[2])
      BY <1>1, <1>2, OppositePoint
    <3> HIDE DEF O
    <3>2. O = <<O[1], O[2]>> /\ O[2] \in Field /\ A[2] \in Field
      BY <2>1, <3>1, PairsInt
    <3>3. Cong(A[2], -B[2]) <=> Cong(A[2], O[2])
      BY <3>1 DEF Cong
    <3>4. Cong(A[2], O[2]) <=> A[2] = O[2]
      BY <3>2, CongField DEF Cong
    <3>5. A = O <=> A[1] = O[1] /\ A[2] = O[2]
      BY <2>1, <3>2
    <3> QED
      BY <3>1, <3>3, <3>4, <3>5 DEF O
  <2> QED
    BY <2>1, <2>2, <2>3, ComparedProducts DEF prj_pt_cmp, prj_pt_eq_or_opp
<1>3. ASSUME NEW e \in Field
      PROVE  fp_mul_redc1(e, 0) = 0 /\ fp_mul_redc1(0, e) = 0
  <2>1. Inverse[R % p] \in Int /\ e \in Int
    BY InverseOf, PBounds, ElementsInt, UnitNotZero DEF Unit, Forms
  <2>2. e * 0 * Inverse[R % p] = 0 /\ 0 * e * Inverse[R % p] = 0 /\ 0 % p = 0
    BY <2>1, PBounds
  <2> QED
    BY <2>2 DEF fp_mul_redc1
<1>4. ASSUME NEW e \in Field, NEW f \in Field, e # 0, f # 0
      PROVE  fp_mul_redc1(e, f) \in Field /\ fp_mul_redc1(e, f) # 0
  <2>0. "monty" \in Forms /\ fp_mul_redc1(e, f) = Mul("monty", e, f) /\ e \in Elements /\ f \in Elements
    BY ElementsInt DEF Forms, Mul
  <2>1. PICK x \in Field : Rep("monty", e, x)
    BY <2>0, RepExists
  <2>2. PICK y \in Field : Rep("monty", f, y)
    BY <2>0, RepExists
  <2>3. ~Cong(x, 0) /\ ~Cong(y, 0) /\ x \in Int /\ y \in Int
    BY <1>4, <2>0, <2>1, <2>2, RepZero, ElementsInt
  <2>4. ~Cong(x * y, 0)
    BY <2>3, NotZeroMul
  <2>5. Rep("monty", fp_mul_redc1(e, f), x * y) /\ fp_mul_redc1(e, f) \in Field
    BY <2>0, <2>1, <2>2, RepMul
  <2> QED
    BY <2>0, <2>4, <2>5, RepZero
<1>5. ASSUME NEW e \in Field, e # 0
      PROVE  ~fp_eq_or_opp(e, 0) /\ ~fp_eq_or_opp(0, e)
  BY <1>5, PBounds DEF fp_eq_or_opp, fp_neg, Field
<1>6. fp_eq_or_opp(0, 0)
  BY DEF fp_eq_or_opp
<1>7. P.X \in Field /\ P.Y \in Field /\ P.Z \in Field /\ Q.X \in Field /\ Q.Y \in Field /\ Q.Z \in Field
  BY ResiduesInt DEF IsProjective
<1>8. CASE A = Infinity /\ B = Infinity
  <2>1. P.X = 0 /\ P.Z = 0 /\ Q.X = 0 /\ Q.Z = 0
    BY <1>8 DEF IsProjective
  <2> QED
    BY <1>3, <1>6, <1>7, <1>8, <2>1 DEF prj_pt_cmp, prj_pt_eq_or_opp
<1>9. CASE A = Infinity /\ B # Infinity
  <2>1. P.X = 0 /\ P.Z = 0 /\ P.Y # 0 /\ Q.Z # 0
    BY <1>9 DEF IsProjective
  <2>2. Opposite(B) # Infinity
    BY <1>1, <1>9, OppositePoint, PairsInt
  <2> QED
    BY <1>3, <1>4, <1>5, <1>7, <1>9, <2>1, <2>2 DEF prj_pt_cmp, prj_pt_eq_or_opp
<1>10. CASE A # Infinity /\ B = Infinity
  <2>1. Q.X = 0 /\ Q.Z = 0 /\ Q.Y # 0 /\ P.Z # 0
    BY <1>10 DEF IsProjective
  <2>2. Opposite(B) = Infinity
    BY <1>10 DEF Opposite
  <2> QED
    BY <1>3, <1>4, <1>5, <1>7, <1>10, <2>1, <2>2 DEF prj_pt_cmp, prj_pt_eq_or_opp
<1> QED
  BY <1>2, <1>8, <1>9, <1>10

LEMMA ZeroProjective == IsProjective(prj_pt_zero, Infinity) /\ prj_pt_zero \in Residues
BY PBounds DEF IsProjective, prj_pt_zero, Point, Residues, Field

LEMMA DblCorrect ==
  ASSUME NEW c, IsCurve(c), NEW bld \in Builds, bld = "complete" => NoOrderTwo(c),
         NEW form \in Forms, NEW A \in Group(c), NEW P, IsProjective(P, A)
  PROVE  IsProjective(prj_pt_dbl(bld, form, c, P), Plus(c, A, A))
<1>1. CASE bld = "complete"
  BY <1>1, CompleteDblCorrect DEF prj_pt_dbl
<1>2. CASE bld # "complete" /\ A = Infinity
  BY <1>2, ProjectiveZero, ZeroProjective DEF prj_pt_dbl, Plus
<1>3. CASE bld # "complete" /\ A # Infinity
  BY <1>3, ProjectiveZero, CmoTangent DEF prj_pt_dbl
<1> QED
  BY <1>1, <1>2, <1>3

\* The sum of two points, unless the operand that would be copied is the output.
LEMMA AddCorrect ==
  ASSUME NEW c, IsCurve(c), NEW bld \in Builds, bld = "complete" => NoOrderTwo(c),
         NEW form \in Forms, NEW A \in Group(c), NEW B \in Group(c),
         NEW P, NEW Q, IsProjective(P, A), IsProjective(Q, B),
         NEW outIsP \in BOOLEAN, NEW outIsQ \in BOOLEAN,
         ~(bld = "cmo" /\ IF A = Infinity THEN outIsQ ELSE B = Infinity /\ outIsP)
  PROVE  IsProjective(prj_pt_add(bld, form, c, P, Q, outIsP, outIsQ), Plus(c, A, B))
<1>0. c.a.plain \in Int /\ c.b \in Int
  BY ElementsInt DEF IsCurve
<1>1. CASE bld = "complete"
  BY <1>1, CompleteAddCorrect DEF prj_pt_add
<1>2. CASE bld = "cmo" /\ A = Infinity
  BY <1>2, ProjectiveZero DEF prj_pt_add, InitAndCopy, Plus
<1>3. CASE bld = "cmo" /\ A # Infinity /\ B = Infinity
  BY <1>3, ProjectiveZero DEF prj_pt_add, InitAndCopy, Plus
<1>4. CASE bld = "cmo" /\ A # Infinity /\ B # Infinity
  <2>0. /\ ~prj_pt_iszero(P) /\ ~prj_pt_iszero(Q)
        /\ prj_pt_add(bld, form, c, P, Q, outIsP, outIsQ)
             = IF ~prj_pt_eq_or_opp(P, Q) THEN CmoAdd(form, P, Q)
               ELSE IF prj_pt_cmp(P, Q) = 0 THEN prj_pt_dbl(bld, form, c, P)
               ELSE prj_pt_zero
    BY <1>4, ProjectiveZero DEF prj_pt_add
  <2>1. prj_pt_cmp(P, Q) = 0 <=> A = B
    BY Compared
  <2>2. prj_pt_eq_or_opp(P, Q) <=> A \in {B, Opposite(B)}
    BY Compared
  <2>3. A \in Pairs /\ B \in Pairs /\ A[2] \in Int /\ B[2] \in Int /\ Opposite(B) \in Pairs
        /\ Opposite(B)[1] = B[1] /\ Cong(Opposite(B)[2], -B[2])
    BY <1>0, <1>4, GroupPoints, OppositePoint, PairsInt
  <2>4. CASE A \notin {B, Opposite(B)}
    <3>1. ASSUME A[1] = B[1] PROVE FALSE
      <4>1. Cong(A[2] + B[2], 0)
        BY <1>4, <2>4, <3>1, PlusCases
      <4>2. /\ (A[2] + B[2]) - B[2] = A[2] /\ 0 - B[2] = -B[2] /\ A[2] + B[2] \in Int
            /\ 0 \in Int /\ Cong(B[2], B[2])
        BY <2>3 DEF Cong
      <4>3. Cong((A[2] + B[2]) - B[2], 0 - B[2])
        BY ONLY <2>3, <4>1, <4>2, CongSub
      <4>4. Cong(A[2], Opposite(B)[2])
        BY <2>3, <4>2, <4>3 DEF Cong
      <4>5. A[2] = Opposite(B)[2]
        BY <2>3, <4>4, PairsInt, CongField
      <4>6. A = <<A[1], A[2]>> /\ Opposite(B) = <<Opposite(B)[1], Opposite(B)[2]>>
        BY <2>3, PairsInt
      <4> QED
        BY <2>3, <2>4, <3>1, <4>5, <4>6
    <3> QED
      BY <1>4, <2>0, <2>2, <2>4, <3>1, CmoChord
  <2>5. CASE A = B
    BY <2>0, <2>1, <2>2, <2>5, DblCorrect
  <2>6. CASE A = Opposite(B) /\ A # B
    <3>1. Cong(A[2] + B[2], 0)
      <4>1. Cong(A[2], -B[2]) /\ Cong(B[2], B[2]) /\ -B[2] \in Int /\ (-B[2]) + B[2] = 0
        BY <2>3, <2>6 DEF Cong
      <4>2. Cong(A[2] + B[2], (-B[2]) + B[2])
        BY ONLY <2>3, <4>1, CongAdd
      <4> QED
        BY <4>1, <4>2
    <3>2. (A[2] + B[2]) % p = 0
      BY <3>1, PBounds DEF Cong
    <3>3. Plus(c, A, B) = Infinity
      BY <1>4, <2>3, <2>6, <3>2 DEF Plus
    <3> QED
      BY <2>0, <2>1, <2>2, <2>6, <3>3, ZeroProjective
  <2> QED
    BY <2>4, <2>5, <2>6
<1> QED
  BY <1>1, <1>2, <1>3, <1>4 DEF Builds

(* Coordinates that are those of no point are still computed with.           *)

LEMMA ResiduesStand ==
  ASSUME NEW form \in Forms, NEW P \in Residues
  PROVE  \E x, y, z \in Int : Stands(form, P, x, y, z)
<1>1. P.X \in Elements /\ P.Y \in Elements /\ P.Z \in Elements /\ Field \subseteq Int
  BY ResiduesInt, ElementsInt
<1>2. PICK x, y, z \in Field : Rep(form, P.X, x) /\ Rep(form, P.Y, y) /\ Rep(form, P.Z, z)
  BY <1>1, RepExists
<1> QED
  BY <1>1, <1>2 DEF Stands

LEMMA DblResidues ==
  ASSUME NEW c, IsCurve(c), NEW bld \in Builds, NEW form \in Forms, NEW P \in Residues
  PROVE  prj_pt_dbl(bld, form, c, P) \in Residues
<1>1. c.a.plain \in Int /\ c.b \in Int /\ Cong(c.a.plain, c.a.plain) /\ Cong(c.b, c.b)
  BY ElementsInt DEF IsCurve, Cong
<1>2. PICK x, y, z \in Int : Stands(form, P, x, y, z)
  BY ResiduesStand
<1>3. CompleteDbl(form, c, P) \in Residues
  BY <1>1, <1>2, CompleteDbls DEF Stands
<1>4. CmoDbl(form, c, P) \in Residues
  BY <1>1, <1>2, CmoDbls DEF Stands
<1> QED
  BY <1>3, <1>4, ZeroProjective DEF prj_pt_dbl

LEMMA AddResidues ==
  ASSUME NEW c, IsCurve(c), NEW bld \in Builds, NEW form \in Forms,
         NEW P \in Residues, NEW Q \in Residues, NEW outIsP \in BOOLEAN, NEW outIsQ \in BOOLEAN
  PROVE  prj_pt_add(bld, form, c, P, Q, outIsP, outIsQ) \in Residues
<1>1. c.a.plain \in Int /\ c.b \in Int /\ Cong(c.a.plain, c.a.plain) /\ Cong(c.b, c.b)
  BY ElementsInt DEF IsCurve, Cong
<1>2. PICK x, y, z \in Int : Stands(form, P, x, y, z)
  BY ResiduesStand
<1>3. PICK u, v, w \in Int : Stands(form, Q, u, v, w)
  BY ResiduesStand
<1>4. CompleteAdd(form, c, P, Q) \in Residues
  <2> DEFINE a == c.a.plain
             b == c.b
  <2>1. Stands(form, CompleteAdd(form, c, P, Q), SumX(a, b, x, y, z, u, v, w),
               SumY(a, b, x, y, z, u, v, w), SumZ(a, b, x, y, z, u, v, w))
    BY <1>1, <1>2, <1>3, CompleteAdds
  <2> QED
    BY <2>1 DEF Stands
<1>5. CmoAdd(form, P, Q) \in Residues
  BY <1>2, <1>3, CmoAdds DEF Stands
<1>6. InitAndCopy(P, outIsP) \in Residues /\ InitAndCopy(Q, outIsQ) \in Residues
  BY PBounds DEF InitAndCopy, prj_pt_init, Point, Residues, Field
<1> QED
  BY <1>4, <1>5, <1>6, DblResidues, ZeroProjective DEF prj_pt_add, Builds

-----------------------------------------------------------------------------
(* Conversions.                                                              *)

\* The affine point of projective coordinates, as the code computes it and as the
\* law has it.
LEMMA AffineIs ==
  ASSUME NEW P, NEW A, IsProjective(P, A)
  PROVE  /\ Affine(P) = A
         /\ A # Infinity => prj_pt_to_aff(P) = A
<1>1. P.X \in Int /\ P.Y \in Int /\ P.Z \in Int /\ P.Z \in Field
  BY ResiduesInt DEF IsProjective
<1>2. P.Z % p = P.Z
  BY <1>1, PBounds DEF Field
<1>3. CASE A = Infinity
  BY <1>2, <1>3, ProjectiveZero DEF Affine
<1>4. CASE A # Infinity
  <2> DEFINE z == P.Z
             i == Inverse[z]
  <2>1. A \in Pairs /\ z # 0 /\ Cong(P.X, A[1] * z) /\ Cong(P.Y, A[2] * z)
    BY <1>4 DEF IsProjective
  <2>2. A[1] \in Field /\ A[2] \in Field /\ A[1] \in Int /\ A[2] \in Int /\ A = <<A[1], A[2]>>
    BY <2>1, PairsInt
  <2>3. i \in Int /\ Cong(z * i, 1)
    BY <1>1, <1>2, <2>1, ResidueZero, InverseOf
  <2> HIDE DEF i, z
  <2>4. z \in Int /\ Cong(i, i)
    BY <1>1 DEF Cong, z
  <2>5. ASSUME NEW e \in Int, NEW x \in Field, NEW k \in Int, k = x, Cong(e, x * z)
        PROVE  (e * i) % p = x
    <3>1. x * z \in Int /\ e * i \in Int /\ (x * z) * i \in Int /\ x \in Int
      BY <2>3, <2>4, <2>5
    <3>2. Cong(e * i, (x * z) * i)
      BY ONLY <2>3, <2>4, <2>5, <3>1, CongMul
    <3>3. Cong((x * z) * i, x)
      BY ONLY <2>3, <2>4, <3>1, Unscale
    <3>4. Cong(e * i, x)
      BY <3>2, <3>3 DEF Cong
    <3> QED
      BY ONLY <3>1, <3>4, x \in Field, ModOf
  <2>6. (P.X * i) % p = A[1] /\ (P.Y * i) % p = A[2]
    BY <1>1, <2>1, <2>2, <2>5
  <2> QED
    BY <1>2, <1>4, <2>1, <2>2, <2>6 DEF Affine, prj_pt_to_aff, fp_mul, fp_inv, i, z
<1> QED
  BY <1>3, <1>4

\* prj_pt_normalize.
LEMMA NormalizeCorrect ==
  ASSUME NEW P, NEW A, IsProjective(P, A), A # Infinity
  PROVE  IsProjective(prj_pt_normalize(P), A)
<1>1. A \in Pairs /\ prj_pt_to_aff(P) = A
  BY AffineIs DEF IsProjective
<1>2. A[1] \in Field /\ A[2] \in Field /\ A[1] \in Int /\ A[2] \in Int
  BY <1>1, PairsInt
<1>3. fp_mul(P.X, fp_inv(P.Z)) = A[1] /\ fp_mul(P.Y, fp_inv(P.Z)) = A[2]
  BY <1>1 DEF prj_pt_to_aff
<1>4. 1 \in Field /\ A[1] * 1 = A[1] /\ A[2] * 1 = A[2]
  BY <1>2, PBounds DEF Field
<1>5. IsProjective(Point(A[1], A[2], 1), A)
  BY <1>1, <1>2, <1>4, PairsInt DEF IsProjective, Point, Residues, Cong
<1> QED
  BY <1>3, <1>5 DEF prj_pt_normalize

\* The pair as coordinates with Z = 1.
LEMMA AffineProjective ==
  ASSUME NEW A \in Pairs
  PROVE  IsProjective(Point(A[1], A[2], 1), A)
<1>1. A[1] \in Field /\ A[2] \in Field /\ A[1] \in Int /\ A[2] \in Int /\ A # Infinity
  BY PairsInt
<1>2. 1 \in Field /\ A[1] * 1 = A[1] /\ A[2] * 1 = A[2]
  BY <1>1, PBounds DEF Field
<1> QED
  BY <1>1, <1>2 DEF IsProjective, Point, Residues, Cong

\* Coordinates multiplied by the same residue other than 0.
LEMMA BlindCorrect ==
  ASSUME NEW P, NEW A, IsProjective(P, A), NEW l \in 1..(p - 1)
  PROVE  IsProjective(Point(fp_mul_redc1(P.X, l), fp_mul_redc1(P.Y, l), fp_mul_redc1(P.Z, l)), A)
<1> DEFINE D == Point(fp_mul_redc1(P.X, l), fp_mul_redc1(P.Y, l), fp_mul_redc1(P.Z, l))
<1>0. "monty" \in Forms /\ \A e, f : fp_mul_redc1(e, f) = Mul("monty", e, f)
  BY DEF Forms, Mul
<1>1. l \in Field /\ l # 0 /\ l \in Elements
  BY PBounds DEF Field, Elements
<1>2. PICK k \in Field : Rep("monty", l, k)
  BY <1>0, <1>1, RepExists
<1>3. k \in Int /\ ~Cong(k, 0) /\ RepField("monty", l, k)
  BY <1>0, <1>1, <1>2, RepZero, ElementsInt DEF RepField
<1>4. ASSUME NEW x, NEW y, NEW z, Stands("monty", P, x, y, z)
      PROVE  Stands("monty", D, x * k, y * k, z * k)
  <2>1. RepField("monty", P.X, x) /\ RepField("monty", P.Y, y) /\ RepField("monty", P.Z, z)
    BY <1>4, ResiduesInt DEF Stands, RepField
  <2>2. /\ RepField("monty", fp_mul_redc1(P.X, l), x * k)
        /\ RepField("monty", fp_mul_redc1(P.Y, l), y * k)
        /\ RepField("monty", fp_mul_redc1(P.Z, l), z * k)
    BY <1>0, <1>3, <2>1, MulField
  <2> QED
    BY <2>2 DEF RepField, Stands, Residues, Point
<1>5. CASE A = Infinity
  <2>1. PICK y \in Int : ~Cong(y, 0) /\ Stands("monty", P, 0, y, 0)
    BY <1>0, <1>5, FromProjective
  <2>2. Stands("monty", D, 0 * k, y * k, 0 * k)
    BY <1>4, <2>1
  <2> DEFINE v == y * k
  <2>3. 0 * k = 0 /\ v \in Int /\ ~Cong(v, 0)
    BY <1>3, <2>1, NotZeroMul
  <2> HIDE DEF D
  <2>4. Stands("monty", D, 0, v, 0)
    BY <2>2, <2>3
  <2> HIDE DEF v
  <2>5. IsProjective(D, Infinity)
    BY <1>0, <2>3, <2>4, ToInfinity
  <2> QED
    BY <1>5, <2>5 DEF D
<1>6. CASE A # Infinity
  <2>1. PICK z \in Int : ~Cong(z, 0) /\ Stands("monty", P, A[1] * z, A[2] * z, z)
    BY <1>0, <1>6, FromProjective
  <2>2. A \in Pairs /\ A[1] \in Int /\ A[2] \in Int
    BY <1>6, PairsInt DEF IsProjective
  <2> DEFINE t == z * k
  <2>3. Stands("monty", D, (A[1] * z) * k, (A[2] * z) * k, t)
    BY <1>4, <2>1
  <2>4. t \in Int /\ ~Cong(t, 0)
    BY <1>3, <2>1, NotZeroMul
  <2>5. (A[1] * z) * k = A[1] * t /\ (A[2] * z) * k = A[2] * t
    BY <1>3, <2>1, <2>2
  <2>6. Cong(A[1], A[1]) /\ Cong(A[2], A[2])
    BY DEF Cong
  <2> HIDE DEF D, t
  <2>7. IsProjective(D, A)
    BY <1>0, <2>2, <2>3, <2>4, <2>5, <2>6, ToPair
  <2> QED
    BY <2>7 DEF D
<1> QED
  BY <1>5, <1>6

\* The check of the code decides the equation.
LEMMA CheckedOnCurve ==
  ASSUME NEW c, IsCurve(c), NEW A \in Pairs
  PROVE  is_on_curve(c, A[1], A[2]) <=> A \in Group(c)
<1> DEFINE x == A[1]
           y == A[2]
           a == c.a.plain
           b == c.b
           e == fp_mul(y, y)
           f == fp_add(fp_mul(fp_mul(x, x), x), fp_add(fp_mul(a, x), b))
           i == y * y
           j == (x * x) * x + (a * x + b)
           RF(g, k) == RepField("plain", g, k)
<1>0. "plain" \in Forms /\ \A g, k : fp_mul(g, k) = Mul("plain", g, k)
  BY DEF Forms, Mul
<1>1. a \in Int /\ b \in Int /\ a \in Field /\ b \in Field /\ x \in Field /\ y \in Field /\ x \in Int /\ y \in Int
  BY ElementsInt, PairsInt DEF IsCurve
<1>2. \A g \in Field : RF(g, g)
  BY ElementsInt, RepPlain DEF RepField
<1>3. \A g, h, m, n : RF(g, m) /\ RF(h, n) => RF(fp_mul(g, h), m * n) /\ RF(fp_add(g, h), m + n)
  BY <1>0, MulField, AddField
<1> HIDE DEF RF
<1>4. RF(x, x) /\ RF(y, y) /\ RF(a, a) /\ RF(b, b)
  BY ONLY <1>1, <1>2
<1>5. RF(e, i) /\ RF(f, j)
  <2> HIDE DEF x, y, a, b
  <2>1. RF(e, i) /\ RF(fp_mul(x, x), x * x) /\ RF(fp_mul(a, x), a * x)
    BY ONLY <1>3, <1>4
  <2>2. RF(fp_mul(fp_mul(x, x), x), (x * x) * x) /\ RF(fp_add(fp_mul(a, x), b), a * x + b)
    BY ONLY <1>3, <1>4, <2>1
  <2>3. RF(f, j)
    BY ONLY <1>3, <2>2
  <2> QED
    BY <2>1, <2>3
<1>6. e = f <=> Cong(i, j)
  <2> HIDE DEF e, f, i, j
  <2> QED
    BY <1>0, <1>5, SameResidues DEF RF
<1>7. Cong(i, j) <=> Equation(c, x, y)
  <2>1. j = x * x * x + a * x + b
    BY <1>1
  <2> HIDE DEF j
  <2> QED
    BY <2>1 DEF Equation
<1>8. is_on_curve(c, x, y) <=> e = f
  BY DEF is_on_curve
<1> HIDE DEF e, f
<1> QED
  BY <1>1, <1>6, <1>7, <1>8, PointOnCurve

\* What the code says of a point of the group, and of coordinates from outside.
LEMMA OnCurveYes ==
  ASSUME NEW c, IsCurve(c), NEW A \in Group(c), NEW P, IsProjective(P, A)
  PROVE  prj_pt_is_on_curve(c, P) = "yes" \/ (c.a.plain = 0 /\ A = Infinity)
<1>1. CASE A = Infinity
  BY <1>1, ProjectiveZero DEF prj_pt_is_on_curve, IsCurve
<1>2. CASE A # Infinity
  <2>1. A \in Pairs /\ prj_pt_to_aff(P) = A /\ ~prj_pt_iszero(P)
    BY <1>2, AffineIs, ProjectiveZero DEF IsProjective
  <2>2. is_on_curve(c, A[1], A[2])
    BY <2>1, CheckedOnCurve
  <2> QED
    BY <2>1, <2>2 DEF prj_pt_is_on_curve
<1> QED
  BY <1>1, <1>2

LEMMA OutsidePoint ==
  ASSUME NEW c, IsCurve(c), NEW P \in Residues, P.Z = 0 => P.X = 0 /\ P.Y # 0
  PROVE  /\ IsProjective(P, Affine(P))
         /\ prj_pt_is_on_curve(c, P) = "yes" => Affine(P) \in Group(c)
<1>1. P.X \in Int /\ P.Y \in Int /\ P.Z \in Int /\ P.Z \in Field
  BY ResiduesInt
<1>2. P.Z % p = P.Z
  BY <1>1, PBounds DEF Field
<1>3. CASE P.Z = 0
  <2>1. Affine(P) = Infinity
    BY <1>2, <1>3 DEF Affine
  <2> QED
    BY <1>3, <2>1 DEF IsProjective, Group
<1>4. CASE P.Z # 0
  <2> DEFINE z == P.Z
             i == Inverse[z]
             A == <<(P.X * i) % p, (P.Y * i) % p>>
  <2>1. Affine(P) = A /\ prj_pt_to_aff(P) = A /\ ~prj_pt_iszero(P)
    BY <1>2, <1>4 DEF Affine, prj_pt_to_aff, fp_mul, fp_inv, prj_pt_iszero
  <2>2. i \in Int /\ Cong(z * i, 1)
    BY <1>1, <1>2, <1>4, ResidueZero, InverseOf
  <2> HIDE DEF i, z
  <2>3. z \in Int
    BY <1>1 DEF z
  <2>4. ASSUME NEW e \in Int
        PROVE  (e * i) % p \in Field /\ (e * i) % p \in Int /\ Cong(e, ((e * i) % p) * z)
    <3> DEFINE r == (e * i) % p
    <3>1. e * i \in Int /\ (e * i) * z = e * (z * i) /\ z * i \in Int /\ 1 \in Int /\ e * 1 = e
          /\ Cong(e, e) /\ Cong(z, z)
      BY <2>2, <2>3, <2>4 DEF Cong
    <3>2. r \in Field /\ r \in Int /\ Cong(r, e * i)
      BY ONLY <3>1, CongMod
    <3> HIDE DEF r
    <3>3. Cong(r * z, (e * i) * z)
      BY ONLY <2>3, <3>1, <3>2, CongMul
    <3>4. Cong(e * (z * i), e * 1)
      BY ONLY <2>2, <2>4, <3>1, CongMul
    <3>5. Cong(e, r * z)
      BY <3>1, <3>3, <3>4 DEF Cong
    <3> QED
      BY <3>2, <3>5 DEF r
  <2>5. A \in Pairs /\ A[1] = (P.X * i) % p /\ A[2] = (P.Y * i) % p
    BY <1>1, <2>4 DEF Pairs
  <2>6. Cong(P.X, A[1] * z) /\ Cong(P.Y, A[2] * z)
    BY <1>1, <2>4, <2>5
  <2> HIDE DEF A
  <2>7. IsProjective(P, A)
    BY <1>4, <2>5, <2>6, PairsInt DEF IsProjective, z
  <2>8. prj_pt_is_on_curve(c, P) = "yes" => is_on_curve(c, A[1], A[2])
    BY <2>1 DEF prj_pt_is_on_curve
  <2> QED
    BY <2>1, <2>5, <2>7, <2>8, CheckedOnCurve
<1> QED
  BY <1>3, <1>4

LEMMA ToAffResidues ==
  ASSUME NEW P \in Residues, ~prj_pt_iszero(P)
  PROVE  prj_pt_to_aff(P) \in Pairs /\ prj_pt_normalize(P) \in Residues
<1>1. P.X \in Int /\ P.Y \in Int /\ P.Z \in Int /\ P.Z \in Field /\ P.Z # 0
  BY ResiduesInt DEF prj_pt_iszero
<1>2. P.Z % p = P.Z /\ ~Cong(P.Z, 0)
  BY <1>1, ResidueZero, PBounds DEF Field
<1>3. fp_inv(P.Z) \in Int
  BY <1>1, <1>2, InverseOf DEF fp_inv
<1>4. \A e, i \in Int : fp_mul(e, i) \in Field
  BY ModInt DEF fp_mul
<1>5. 1 \in Field
  BY PBounds DEF Field
<1> QED
  BY <1>1, <1>3, <1>4, <1>5 DEF prj_pt_to_aff, prj_pt_normalize, Point, Pairs, Residues

LEMMA BlindResidues ==
  ASSUME NEW P \in Residues, NEW l \in 1..(p - 1)
  PROVE  Point(fp_mul_redc1(P.X, l), fp_mul_redc1(P.Y, l), fp_mul_redc1(P.Z, l)) \in Residues
<1>1. l \in Elements /\ P.X \in Elements /\ P.Y \in Elements /\ P.Z \in Elements
  BY ResiduesInt, PBounds DEF Elements
<1>2. "monty" \in Forms /\ \A e, f : fp_mul_redc1(e, f) = Mul("monty", e, f)
  BY DEF Forms, Mul
<1>3. \A e, f \in Elements : fp_mul_redc1(e, f) \in Field
  BY <1>2, RepExists, RepMul
<1> QED
  BY <1>1, <1>3 DEF Point, Residues

-----------------------------------------------------------------------------
(* The invariants.                                                           *)

\* What GroupLaw needs to be kept: the coordinates are reduced and, unless they are
\* lost, stand for a point of the curve, which is not singular and, for the complete
\* formulas, has no point of order 2.
IInv ==
  /\ build \in Builds /\ exited \in BOOLEAN
  /\ IsCurve(crv)
  /\ build = "complete" => NoOrderTwo(crv)
  /\ pt \in [Regs -> Residues \cup {Uninit}]
  /\ val \in [Regs -> Group(crv) \cup {Lost}]
  /\ \A r \in Regs : Meant(r) => IsProjective(pt[r], val[r])
  /\ aff \in Pairs \cup {Uninit}
  /\ aval \in Group(crv) \cup {Lost}
  /\ aff # Uninit /\ aval # Lost => aff = aval

LEMMA LostNotGroup == ASSUME NEW c PROVE Lost \notin Group(c)
BY ImportAssumption DEF Group

LEMMA InitIInv == Init => IInv
<1> SUFFICES ASSUME Init PROVE IInv
  OBVIOUS
<1>1. PICK s \in Setups : build = s.build /\ crv = ec_shortw_crv_init(s.a, s.b)
  BY DEF Init
<1>2. /\ s.build \in Builds /\ s.a \in Field /\ s.b \in Field
      /\ (4 * s.a^3 + 27 * s.b^2) % p # 0
      /\ s.build = "complete" => NoOrderTwo(ec_shortw_crv_init(s.a, s.b))
  BY SetupAssumption DEF NoOrderTwo
<1>3. IsCurve(crv)
  BY <1>1, <1>2, CurveInit
<1>4. Infinity \in Group(crv)
  BY DEF Group
<1> QED
  BY <1>1, <1>2, <1>3, <1>4 DEF Init, IInv, Initialized, Meant

\* An operation that writes a point, of coordinates that stand for it or are lost.
LEMMA WritesIInv ==
  ASSUME IInv, NEW o \in Regs, NEW P, NEW v, Writes(o, P, v),
         \/ P = Uninit /\ v \in Group(crv)
         \/ P \in Residues /\ v = Lost
         \/ IsProjective(P, v) /\ v \in Group(crv)
  PROVE  IInv'
<1>1. P \in Residues \cup {Uninit} /\ v \in Group(crv) \cup {Lost}
  BY DEF IsProjective
<1>2. /\ pt' \in [Regs -> Residues \cup {Uninit}]
      /\ val' \in [Regs -> Group(crv) \cup {Lost}]
  BY <1>1 DEF IInv, Writes
<1>3. ASSUME NEW r \in Regs, Meant(r)' PROVE IsProjective(pt'[r], val'[r])
  <2>1. CASE r = o
    <3>1. pt'[r] = P /\ val'[r] = v /\ P # Uninit /\ v # Lost
      BY <1>3, <2>1 DEF IInv, Writes, Initialized, Meant
    <3> QED
      BY <3>1
  <2>2. CASE r # o
    <3>1. pt'[r] = pt[r] /\ val'[r] = val[r] /\ Meant(r)
      BY <1>3, <2>2 DEF IInv, Writes, Initialized, Meant
    <3> QED
      BY <3>1 DEF IInv
  <2> QED
    BY <2>1, <2>2
<1> QED
  BY <1>2, <1>3 DEF IInv, Writes

LEMMA ExitsIInv ==
  ASSUME IInv, Exits
  PROVE  IInv'
BY DEF IInv, Exits, Initialized, Meant

\* What is held by a point that is in use.
LEMMA HeldPoint ==
  ASSUME IInv, NEW r \in Regs, Initialized(r)
  PROVE  /\ IsCurve(crv) /\ pt[r] \in Residues
         /\ val[r] = Lost \/ (IsProjective(pt[r], val[r]) /\ val[r] \in Group(crv))
BY DEF IInv, Initialized, Meant

LEMMA NextIInv == IInv /\ [Next]_vars => IInv'
<1> SUFFICES ASSUME IInv, [Next]_vars PROVE IInv'
  OBVIOUS
<1>0. /\ IsCurve(crv) /\ build \in Builds /\ (build = "complete" => NoOrderTwo(crv))
      /\ Infinity \in Group(crv)
  BY DEF IInv, Group
<1>1. ASSUME NEW o \in Regs, NEW P \in Imports, Import(o, P) PROVE IInv'
  <2>1. /\ P.X \in Elements /\ P.Y \in Elements /\ P.Z \in Elements
        /\ P \in [X : Elements, Y : Elements, Z : Elements]
    BY ImportAssumption DEF Triples
  <2>2. CASE p \in {P.X, P.Y, P.Z} \/ prj_pt_is_on_curve(crv, P) = "exits"
    BY <1>1, <2>2, ExitsIInv DEF Import
  <2>3. CASE /\ ~(p \in {P.X, P.Y, P.Z} \/ prj_pt_is_on_curve(crv, P) = "exits")
             /\ prj_pt_is_on_curve(crv, P) = "no"
    BY <1>0, <1>1, <2>3, WritesIInv DEF Import
  <2>4. CASE /\ ~(p \in {P.X, P.Y, P.Z} \/ prj_pt_is_on_curve(crv, P) = "exits")
             /\ prj_pt_is_on_curve(crv, P) # "no"
    <3>1. prj_pt_is_on_curve(crv, P) = "yes"
      BY <2>4 DEF prj_pt_is_on_curve
    <3>2. \A e \in Elements : e # p => e \in Field
      BY PBounds DEF Elements, Field
    <3>3. P \in Residues
      BY <2>1, <2>4, <3>2 DEF Residues
    <3>4. CASE P.Z = 0 /\ (P.X # 0 \/ P.Y = 0)
      <4>1. Writes(o, P, Lost)
        BY <1>1, <2>4, <3>4 DEF Import
      <4> QED
        BY <3>3, <4>1, WritesIInv
    <3>5. CASE ~(P.Z = 0 /\ (P.X # 0 \/ P.Y = 0))
      <4>1. IsProjective(P, Affine(P)) /\ Affine(P) \in Group(crv)
        BY <1>0, <2>1, <3>1, <3>3, <3>5, OutsidePoint
      <4>2. Writes(o, P, Affine(P))
        BY <1>1, <2>4, <3>5 DEF Import
      <4> QED
        BY <4>1, <4>2, WritesIInv
    <3> QED
      BY <3>4, <3>5
  <2> QED
    BY <2>2, <2>3, <2>4
<1>2. ASSUME NEW o \in Regs, Zero(o) PROVE IInv'
  BY <1>0, <1>2, ZeroProjective, WritesIInv DEF Zero
<1>3. ASSUME NEW o \in Regs, Normalize(o) PROVE IInv'
  <2>1. /\ pt[o] \in Residues
        /\ val[o] = Lost \/ (IsProjective(pt[o], val[o]) /\ val[o] \in Group(crv))
    BY <1>3, HeldPoint DEF Normalize
  <2>2. CASE prj_pt_iszero(pt[o])
    BY <1>3, <2>2, ExitsIInv DEF Normalize
  <2>3. CASE ~prj_pt_iszero(pt[o])
    <3>1. prj_pt_normalize(pt[o]) \in Residues
      BY <2>1, <2>3, ToAffResidues
    <3>2. val[o] # Lost => IsProjective(prj_pt_normalize(pt[o]), val[o])
      BY <2>1, <2>3, ProjectiveZero, NormalizeCorrect
    <3>3. Writes(o, prj_pt_normalize(pt[o]), val[o])
      BY <1>3, <2>3 DEF Normalize
    <3> QED
      BY <2>1, <3>1, <3>2, <3>3, WritesIInv
  <2> QED
    BY <2>2, <2>3
<1>4. ASSUME NEW i \in Regs, ToAff(i) PROVE IInv'
  <2>1. /\ pt[i] \in Residues
        /\ val[i] = Lost \/ (IsProjective(pt[i], val[i]) /\ val[i] \in Group(crv))
    BY <1>4, HeldPoint DEF ToAff
  <2>2. CASE prj_pt_iszero(pt[i])
    BY <1>4, <2>2, ExitsIInv DEF ToAff
  <2>3. CASE ~prj_pt_iszero(pt[i])
    <3>1. prj_pt_to_aff(pt[i]) \in Pairs
      BY <2>1, <2>3, ToAffResidues
    <3>2. val[i] # Lost => prj_pt_to_aff(pt[i]) = val[i]
      BY <2>1, <2>3, ProjectiveZero, AffineIs
    <3>3. /\ aff' = prj_pt_to_aff(pt[i]) /\ aval' = val[i]
          /\ UNCHANGED <<build, crv, pt, val, exited>>
      BY <1>4, <2>3 DEF ToAff
    <3> QED
      BY <2>1, <3>1, <3>2, <3>3 DEF IInv, Initialized, Meant
  <2> QED
    BY <2>2, <2>3
<1>5. ASSUME NEW o \in Regs, AffToPrj(o) PROVE IInv'
  <2>1. CASE is_on_curve(crv, aff[1], aff[2])
    <3>1. /\ aff \in Pairs /\ aval \in Group(crv) \cup {Lost}
          /\ aval # Lost => aff = aval
      BY <1>5 DEF AffToPrj, IInv
    <3>2. IsProjective(Point(aff[1], aff[2], 1), aff)
      BY <3>1, AffineProjective
    <3>3. Writes(o, Point(aff[1], aff[2], 1), aval)
      BY <1>5, <2>1 DEF AffToPrj
    <3>4. Point(aff[1], aff[2], 1) \in Residues
      BY <3>2 DEF IsProjective
    <3> QED
      BY <3>1, <3>2, <3>3, <3>4, WritesIInv
  <2>2. CASE ~is_on_curve(crv, aff[1], aff[2])
    BY <1>5, <2>2, ExitsIInv DEF AffToPrj
  <2> QED
    BY <2>1, <2>2
<1>6. ASSUME NEW o \in Regs, ExportExits(o) PROVE IInv'
  BY <1>6, ExitsIInv DEF ExportExits
<1>7. ASSUME NEW o \in Regs, NEW i \in Regs, Copy(o, i) PROVE IInv'
  BY <1>7, HeldPoint, WritesIInv DEF Copy
<1>8. ASSUME NEW o \in Regs, NEW i \in Regs, NEW l \in 1..(p - 1), Blind(o, i, l) PROVE IInv'
  <2> DEFINE D == Point(fp_mul_redc1(pt[i].X, l), fp_mul_redc1(pt[i].Y, l), fp_mul_redc1(pt[i].Z, l))
  <2>1. /\ pt[i] \in Residues
        /\ val[i] = Lost \/ (IsProjective(pt[i], val[i]) /\ val[i] \in Group(crv))
    BY <1>8, HeldPoint DEF Blind
  <2>2. D \in Residues /\ (val[i] # Lost => IsProjective(D, val[i]))
    BY <2>1, BlindResidues, BlindCorrect
  <2>3. Writes(o, D, val[i])
    BY <1>8 DEF Blind
  <2> QED
    BY <2>1, <2>2, <2>3, WritesIInv
<1>9. ASSUME NEW o \in Regs, NEW i \in Regs, NEW f \in Forms, Dbl(f, o, i) PROVE IInv'
  <2> DEFINE D == prj_pt_dbl(build, f, crv, pt[i])
  <2>1. /\ pt[i] \in Residues
        /\ val[i] = Lost \/ (IsProjective(pt[i], val[i]) /\ val[i] \in Group(crv))
    BY <1>9, HeldPoint DEF Dbl
  <2>2. Writes(o, D, Sum(val[i], val[i]))
    BY <1>9 DEF Dbl
  <2>3. CASE val[i] = Lost
    <3>1. D \in Residues /\ Sum(val[i], val[i]) = Lost
      BY <1>0, <2>1, <2>3, DblResidues DEF Sum
    <3> QED
      BY <2>2, <3>1, WritesIInv
  <2>4. CASE val[i] # Lost
    <3>1. Sum(val[i], val[i]) = Plus(crv, val[i], val[i])
      BY <2>4 DEF Sum
    <3>2. IsProjective(D, Plus(crv, val[i], val[i])) /\ Plus(crv, val[i], val[i]) \in Group(crv)
      BY <1>0, <2>1, <2>4, DblCorrect, PlusClosed
    <3> QED
      BY <2>2, <3>1, <3>2, WritesIInv
  <2> QED
    BY <2>3, <2>4
<1>10. ASSUME NEW o \in Regs, NEW i \in Regs, NEW f \in Forms, NEW j \in Regs, Add(f, o, i, j) PROVE IInv'
  <2> DEFINE D == prj_pt_add(build, f, crv, pt[i], pt[j], o = i, o = j)
             v == IF LosesOperand(o, i, j) THEN Lost ELSE Sum(val[i], val[j])
  <2>1. /\ pt[i] \in Residues
        /\ val[i] = Lost \/ (IsProjective(pt[i], val[i]) /\ val[i] \in Group(crv))
        /\ pt[j] \in Residues
        /\ val[j] = Lost \/ (IsProjective(pt[j], val[j]) /\ val[j] \in Group(crv))
    BY <1>10, HeldPoint DEF Add
  <2>2. Writes(o, D, v)
    BY <1>10 DEF Add
  <2>3. CASE LosesOperand(o, i, j) \/ Lost \in {val[i], val[j]}
    <3>1. v = Lost
      BY <2>3 DEF Sum
    <3>2. D \in Residues
      BY <1>0, <2>1, AddResidues
    <3> QED
      BY <2>2, <3>1, <3>2, WritesIInv
  <2>4. CASE ~LosesOperand(o, i, j) /\ Lost \notin {val[i], val[j]}
    <3>1. v = Plus(crv, val[i], val[j])
      BY <2>4 DEF Sum
    <3>2. /\ IsProjective(pt[i], val[i]) /\ val[i] \in Group(crv)
          /\ IsProjective(pt[j], val[j]) /\ val[j] \in Group(crv)
      BY <2>1, <2>4
    <3>3. ~(build = "cmo" /\ IF val[i] = Infinity THEN o = j ELSE val[j] = Infinity /\ o = i)
      BY <2>4 DEF LosesOperand
    <3>4. IsProjective(D, Plus(crv, val[i], val[j]))
      BY <1>0, <3>2, <3>3, AddCorrect
    <3>5. Plus(crv, val[i], val[j]) \in Group(crv)
      BY <1>0, <3>2, PlusClosed
    <3> QED
      BY <2>2, <3>1, <3>4, <3>5, WritesIInv
  <2> QED
    BY <2>3, <2>4
<1>11. ASSUME NEW x \in 0..p, NEW y \in 0..p, AffImport(x, y) PROVE IInv'
  <2>1. CASE p \in {x, y}
    BY <1>11, <2>1, ExitsIInv DEF AffImport
  <2>2. CASE p \notin {x, y}
    <3> DEFINE A == <<x, y>>
    <3>1. A \in Pairs /\ A[1] = x /\ A[2] = y
      BY <2>2, PBounds DEF Pairs, Field
    <3>2. is_on_curve(crv, x, y) => A \in Group(crv)
      BY <1>0, <3>1, CheckedOnCurve
    <3>3. /\ aff' = IF is_on_curve(crv, x, y) THEN A ELSE Uninit
          /\ aval' = IF is_on_curve(crv, x, y) THEN A ELSE Infinity
          /\ UNCHANGED <<build, crv, pt, val, exited>>
      BY <1>11, <2>2 DEF AffImport
    <3> HIDE DEF A
    <3>4. /\ aval' \in Group(crv) /\ aff' \in Pairs \cup {Uninit}
          /\ aff' # Uninit => aff' = aval'
      BY <1>0, <3>1, <3>2, <3>3
    <3> QED
      BY <3>3, <3>4 DEF IInv, Initialized, Meant
  <2> QED
    BY <2>1, <2>2
<1>12. CASE UNCHANGED vars
  BY <1>12 DEF vars, IInv, Initialized, Meant
<1>13. CASE Next
  BY <1>1, <1>2, <1>3, <1>4, <1>5, <1>6, <1>7, <1>8, <1>9, <1>10, <1>11, <1>13 DEF Next
<1> QED
  BY <1>12, <1>13

\* The coordinates of any point in use are reduced, and stand for the point that the
\* group law gives, which is one of the curve, unless an addition of LosesOperand or an
\* import of coordinates (X : Y : 0) has lost it.
THEOREM Inductive == Spec => []IInv
<1>1. Init => IInv
  BY InitIInv
<1>2. IInv /\ [Next]_vars => IInv'
  BY NextIInv
<1> QED
  BY <1>1, <1>2, PTL DEF Spec

\* Every coordinate is an element of the field, every value a point of the curve or
\* lost.
THEOREM PointTypes == Spec => []TypeOK
<1>1. IInv => TypeOK
  <2> SUFFICES ASSUME IInv PROVE TypeOK
    OBVIOUS
  <2>1. Residues \subseteq Triples
    BY ElementsInt DEF Residues, Triples
  <2>2. pt \in [Regs -> Triples \cup {Uninit}]
    BY <2>1 DEF IInv
  <2> QED
    BY <2>2 DEF IInv, TypeOK, Pairs
<1> QED
  BY <1>1, Inductive, PTL

\* The formulas of both builds and both forms, mixed at will and with any outputs
\* aliased, compute the law of chord and tangent, on any curve and field of the
\* assumptions, for all points that no addition of LosesOperand (the operand copied is
\* the output, with NO_USE_COMPLETE_FORMULAS) and no import of (X : Y : 0) has lost.
THEOREM ComputesTheGroupLaw == Spec => []GroupLaw
<1>1. IInv => GroupLaw
  <2> SUFFICES ASSUME IInv, NEW r \in Regs, Meant(r)
               PROVE  /\ Affine(pt[r]) = val[r]
                      /\ prj_pt_iszero(pt[r]) <=> val[r] = Infinity
                      /\ prj_pt_iszero(pt[r]) => pt[r].X = 0 /\ pt[r].Y # 0
    BY DEF GroupLaw
  <2>1. IsProjective(pt[r], val[r])
    BY DEF IInv
  <2>2. val[r] = Infinity => pt[r].X = 0 /\ pt[r].Y # 0
    BY <2>1 DEF IsProjective
  <2> QED
    BY <2>1, <2>2, AffineIs, ProjectiveZero
<1> QED
  BY <1>1, Inductive, PTL

\* The comparisons by cross products decide equality and opposition of the points,
\* infinity included, of points that are not lost.
THEOREM ComparisonsDecide == Spec => []ComparisonsCorrect
<1>1. IInv => ComparisonsCorrect
  <2> SUFFICES ASSUME IInv, NEW r \in Regs, NEW s \in Regs, Meant(r), Meant(s)
               PROVE  /\ prj_pt_cmp(pt[r], pt[s]) = 0 <=> val[r] = val[s]
                      /\ prj_pt_eq_or_opp(pt[r], pt[s]) <=> val[r] \in {val[s], Opposite(val[s])}
    BY DEF ComparisonsCorrect
  <2>1. /\ IsCurve(crv)
        /\ IsProjective(pt[r], val[r]) /\ val[r] \in Group(crv)
        /\ IsProjective(pt[s], val[s]) /\ val[s] \in Group(crv)
    BY DEF IInv, Meant
  <2> QED
    BY <2>1, Compared
<1> QED
  BY <1>1, Inductive, PTL

\* What has been computed and is not lost passes the checks of export, import and
\* conversion, but for the exit at infinity when a = 0.
THEOREM ResultsReimportable == Spec => []Reimportable
<1>1. IInv => Reimportable
  <2> SUFFICES ASSUME IInv PROVE Reimportable
    OBVIOUS
  <2>1. ASSUME NEW r \in Regs, Meant(r)
        PROVE  prj_pt_is_on_curve(crv, pt[r]) = "yes" \/ (crv.a.plain = 0 /\ val[r] = Infinity)
    BY <2>1, OnCurveYes DEF IInv, Meant
  <2>2. ASSUME aff # Uninit, aval # Lost PROVE aff = aval /\ is_on_curve(crv, aff[1], aff[2])
    BY <2>2, CheckedOnCurve DEF IInv
  <2> QED
    BY <2>1, <2>2 DEF Reimportable
<1> QED
  BY <1>1, Inductive, PTL
=============================================================================
