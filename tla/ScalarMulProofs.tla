--------------------------- MODULE ScalarMulProofs ---------------------------
(***************************************************************************)
(* Proofs about ScalarMul, for every group order, generator order, scalar, *)
(* mask and blinding value, in three parts: arithmetic of bit lengths and  *)
(* of the top bit trick; the inductive invariant IInv, one lemma for each  *)
(* group of actions; its consequences and the refinement of PointMul.      *)
(* Induction on bit positions is by the smallest counterexample (WFMin).   *)
(*                                                                         *)
(* The ladder is the one of the builds with the complete formulas: without *)
(* them its addition can lose a point (run scalar_mul_ladder).             *)
(***************************************************************************)
EXTENDS ScalarMul, WellFoundedInduction, TLAPS

LadderComplete == \A b \in Builds : b.loop = "ladder" => b.complete

-----------------------------------------------------------------------------
(***************************************************************************)
(* Arithmetic.                                                             *)
(***************************************************************************)

\* Division with remainder, as nn_getbit and the residues of points use it.
LEMMA DivMod ==
  ASSUME NEW n \in Nat, NEW d \in Nat \ {0}
  PROVE  /\ n \div d \in Nat
         /\ n % d \in 0..(d - 1)
         /\ n = d * (n \div d) + (n % d)
BY SMT

\* Quotient and remainder are determined by the equation they satisfy.
LEMMA DivUnique ==
  ASSUME NEW n \in Nat, NEW d \in Nat \ {0}, NEW q \in Nat, NEW r \in 0..(d - 1),
         n = d * q + r
  PROVE  n \div d = q /\ n % d = r
BY SMT

\* Dividing by d rather than 2d uncovers one more bit.
LEMMA HalveDivisor ==
  ASSUME NEW n \in Nat, NEW d \in Nat \ {0}
  PROVE  n \div d = 2 * (n \div (2 * d)) + ((n \div d) % 2)
BY SMT

\* nn_bitlen is defined: the CHOOSE of every number that fits an nn has a
\* witness.  The least length that is large enough is one.
LEMMA BitLenExists ==
  ASSUME NEW v \in Nat, v < 2^NN_MAX_BIT_LEN
  PROVE  /\ nn_bitlen(v) \in 0..NN_MAX_BIT_LEN
         /\ v < 2^nn_bitlen(v)
         /\ nn_bitlen(v) = 0 \/ 2^(nn_bitlen(v) - 1) <= v
<1> DEFINE L == {len \in 0..NN_MAX_BIT_LEN : v < 2^len}
           R == {ss \in Nat \X Nat : ss[1] < ss[2]}
<1>1. NN_MAX_BIT_LEN \in L /\ L \subseteq Nat
  BY PowersOfTwo
<1>a. IsWellFoundedOn(R, Nat)
  BY NatLessThanWellFounded DEF OpToRel
<1> HIDE DEF L, R
<1>2. PICK x \in L : \A y \in L : ~ (<<y, x>> \in R)
  <2>1. L # {}
    BY <1>1
  <2> QED
    BY <1>1, <1>a, <2>1, WFMin
<1>3. \A y \in L : ~ (y < x)
  BY <1>1, <1>2 DEF R
<1>4. x = 0 \/ 2^(x - 1) <= v
  <2>1. CASE x # 0
    <3>1. x - 1 \in 0..NN_MAX_BIT_LEN /\ x - 1 < x
      BY <2>1, PowersOfTwo DEF L
    <3>2. x - 1 \notin L
      BY <1>3, <3>1
    <3>3. 2^(x - 1) \in Nat
      BY <3>1, PowersOfTwo
    <3> QED
      BY <3>1, <3>2, <3>3 DEF L
  <2> QED
    BY <2>1
<1>5. x \in 0..NN_MAX_BIT_LEN /\ v < 2^x
  BY DEF L
<1> QED
  BY <1>4, <1>5 DEF nn_bitlen

\* Powers of two are strictly increasing.
LEMMA PowMonotone ==
  ASSUME NEW a \in 0..NN_MAX_BIT_LEN, NEW b \in 0..NN_MAX_BIT_LEN, a < b
  PROVE  2 * 2^a <= 2^b
<1> DEFINE L == {i \in (a + 1)..NN_MAX_BIT_LEN : 2^i < 2 * 2^a}
           R == {ss \in Nat \X Nat : ss[1] < ss[2]}
<1>1. L \subseteq Nat
  BY PowersOfTwo
<1>2. IsWellFoundedOn(R, Nat)
  BY NatLessThanWellFounded DEF OpToRel
<1>3. ASSUME L # {} PROVE FALSE
  <2> HIDE DEF L, R
  <2>1. PICK x \in L : \A y \in L : ~ (<<y, x>> \in R)
    BY <1>1, <1>2, <1>3, WFMin
  <2>2. x \in (a + 1)..NN_MAX_BIT_LEN /\ 2^x < 2 * 2^a
    BY DEF L
  <2>3. x # a + 1
    BY <2>2, PowersOfTwo
  <2>4. x - 1 \in (a + 1)..NN_MAX_BIT_LEN /\ x - 1 \in Nat /\ x \in Nat
    BY <2>2, <2>3, PowersOfTwo
  <2>5. x - 1 \notin L
    <3>1. <<x - 1, x>> \in R
      BY <2>4 DEF R
    <3> QED
      BY <2>1, <3>1
  <2>6. ~ (2^(x - 1) < 2 * 2^a)
    BY <2>4, <2>5 DEF L
  <2>7. 2^(x - 1) \in Nat /\ 2^x \in Nat /\ 2^a \in Nat /\ 2^x = 2 * 2^(x - 1)
    <3>1. x - 1 \in 0..NN_MAX_BIT_LEN /\ x \in 0..NN_MAX_BIT_LEN /\ (x - 1) + 1 = x
      BY <2>2, <2>4, PowersOfTwo
    <3> QED
      BY <3>1, PowersOfTwo
  <2> QED
    BY <2>2, <2>6, <2>7
<1>4. b \in (a + 1)..NN_MAX_BIT_LEN /\ b \notin L
  BY <1>3, PowersOfTwo
<1>5. 2^b \in Nat /\ 2^a \in Nat
  BY PowersOfTwo
<1> QED
  BY <1>4, <1>5

\* nn_bitlen is determined by the position of the top bit.
LEMMA BitLenUnique ==
  ASSUME NEW v \in Nat, NEW len \in 1..NN_MAX_BIT_LEN,
         2^(len - 1) <= v, v < 2^len
  PROVE  nn_bitlen(v) = len
<1>1. len \in 0..NN_MAX_BIT_LEN /\ len - 1 \in 0..NN_MAX_BIT_LEN /\ len # 0
  BY PowersOfTwo
<1>2. ASSUME NEW k \in 0..NN_MAX_BIT_LEN, v < 2^k, k = 0 \/ 2^(k - 1) <= v
      PROVE  k = len
  <2>1. 2^len \in Nat /\ 2^(len - 1) \in Nat \ {0} /\ 2^k \in Nat /\ 2^0 = 1
    BY <1>1, <1>2, PowersOfTwo
  <2>2. CASE k < len
    <3>1. 2^k <= 2^(len - 1)
      <4>1. CASE k = len - 1
        BY <4>1, <2>1
      <4>2. CASE k < len - 1
        BY <4>2, <2>1, <1>1, <1>2, PowMonotone
      <4> QED
        BY <2>2, <4>1, <4>2, <1>1, <1>2
    <3> QED
      BY <3>1, <2>1, <1>2
  <2>3. CASE k > len
    <3>0. k # 0 /\ k - 1 \in 0..NN_MAX_BIT_LEN
      BY <2>3, <1>1, PowersOfTwo
    <3>1. 2^len <= 2^(k - 1) /\ 2^(k - 1) \in Nat
      <4>0. 2^(k - 1) \in Nat
        BY <3>0, PowersOfTwo
      <4>1. CASE len = k - 1
        BY <4>1, <2>1
      <4>2. CASE len < k - 1
        BY <4>0, <4>2, <2>1, <1>1, <3>0, PowMonotone
      <4> QED
        BY <2>3, <4>0, <4>1, <4>2, <1>1, <1>2
    <3> QED
      BY <3>0, <3>1, <2>1, <1>2
  <2> QED
    BY <2>2, <2>3, <1>1, <1>2, PowersOfTwo
<1>3. nn_bitlen(v) = CHOOSE k \in 0..NN_MAX_BIT_LEN :
                       v < 2^k /\ (k = 0 \/ 2^(k - 1) <= v)
  BY DEF nn_bitlen
<1> QED
  BY <1>1, <1>2, <1>3

\* One loop iteration consumes one more bit of the scalar.
LEMMA PrefixStep ==
  ASSUME NEW v \in Nat, NEW i \in 0..NN_MAX_BIT_LEN
  PROVE  /\ v \div 2^i = 2 * (v \div 2^(i + 1)) + nn_getbit(v, i)
         /\ nn_getbit(v, i) \in Bits
         /\ v \div 2^i \in Nat
<1>1. 2^i \in Nat \ {0} /\ 2^(i + 1) = 2 * 2^i
  BY PowersOfTwo
<1> DEFINE d == 2^i
<1>2. v \div d = 2 * (v \div (2 * d)) + ((v \div d) % 2)
  BY <1>1, HalveDivisor
<1>3. v \div d \in Nat
  BY <1>1, DivMod
<1>4. (v \div d) % 2 \in {0, 1}
  BY <1>3
<1> QED
  BY <1>1, <1>2, <1>3, <1>4 DEF nn_getbit, Bits

\* Before the loop, exactly the top bit of the scalar has been consumed.
LEMMA TopBit ==
  ASSUME NEW v \in Nat \ {0}, v < 2^NN_MAX_BIT_LEN
  PROVE  /\ nn_bitlen(v) \in 1..NN_MAX_BIT_LEN
         /\ v \div 2^(nn_bitlen(v) - 1) = 1
<1> DEFINE len == nn_bitlen(v)
<1>1. /\ len \in 0..NN_MAX_BIT_LEN
      /\ v < 2^len
      /\ len = 0 \/ 2^(len - 1) <= v
  BY BitLenExists
<1> HIDE DEF len
<1>2. len # 0
  <2>1. ASSUME len = 0 PROVE FALSE
    <3>1. 2^len = 1
      BY <2>1, PowersOfTwo
    <3> QED
      BY <1>1, <3>1
  <2> QED
    BY <2>1
<1>3. /\ len - 1 \in 0..NN_MAX_BIT_LEN /\ (len - 1) + 1 = len
  BY <1>1, <1>2, PowersOfTwo
<1>4. 2^(len - 1) \in Nat \ {0} /\ 2^len = 2 * 2^(len - 1)
  BY <1>3, PowersOfTwo
<1>5. v \div 2^(len - 1) = 1
  BY <1>1, <1>2, <1>4
<1> QED
  BY <1>1, <1>2, <1>5, PowersOfTwo DEF len

\* The bounds on the order and its square that the capacity of an nn gives.
LEMMA OrderSquare ==
  /\ Order \in Nat \ {0} /\ Order * Order \in Nat \ {0}
  /\ Order <= Order * Order
  /\ 3 * Order < 2^NN_MAX_BIT_LEN
  /\ 3 * (Order * Order) < 2^NN_MAX_BIT_LEN
  /\ 2^NN_MAX_BIT_LEN \in Nat
<1>1. Order \in Nat \ {0}
  BY OrderAssumption
<1>2. Order * Order \in Nat \ {0} /\ Order <= Order * Order
  BY <1>1
<1>3. 2^NN_MAX_BIT_LEN \in Nat
  BY PowersOfTwo
<1> QED
  BY <1>1, <1>2, <1>3, CapacityAssumption

\* The top bit trick for one modulus: the sum is one bit longer than q.
LEMMA FixedByModulus ==
  ASSUME NEW q \in Nat \ {0}, 3 * q < 2^NN_MAX_BIT_LEN, NEW s \in Nat, s < q,
         NEW r, r = IF nn_bitlen(s + q) = nn_bitlen(q) THEN s + q + q ELSE s + q
  PROVE  /\ r \in Nat \ {0}
         /\ r < 2^NN_MAX_BIT_LEN
         /\ r = s + q \/ r = s + 2 * q
         /\ nn_bitlen(r) = nn_bitlen(q) + 1
<1> DEFINE len == nn_bitlen(q)
<1>0. 2^NN_MAX_BIT_LEN \in Nat /\ NN_MAX_BIT_LEN \in Nat /\ 2^0 = 1
  BY PowersOfTwo
<1>1. r \in Nat \ {0} /\ r < 2^NN_MAX_BIT_LEN /\ (r = s + q \/ r = s + 2 * q)
  BY <1>0
<1>2. /\ len \in 0..NN_MAX_BIT_LEN
      /\ q < 2^len
      /\ len = 0 \/ 2^(len - 1) <= q
  BY <1>0, BitLenExists
<1>3. /\ nn_bitlen(s + q) \in 0..NN_MAX_BIT_LEN
      /\ s + q < 2^nn_bitlen(s + q)
  <2>1. s + q \in Nat /\ s + q < 2^NN_MAX_BIT_LEN
    BY <1>0
  <2> QED
    BY <2>1, BitLenExists
<1> HIDE DEF len
<1>4. len # 0
  <2>1. ASSUME len = 0 PROVE FALSE
    <3>1. 2^len = 1
      BY <1>0, <2>1
    <3> QED
      BY <1>2, <3>1
  <2> QED
    BY <2>1
<1>5. /\ len - 1 \in 0..NN_MAX_BIT_LEN /\ (len - 1) + 1 = len
      /\ len \in 1..NN_MAX_BIT_LEN
  BY <1>0, <1>2, <1>4
<1>6. /\ 2^(len - 1) \in Nat \ {0} /\ 2^len = 2 * 2^(len - 1)
      /\ 2^len \in Nat \ {0} /\ 2^(len + 1) = 2 * 2^len
  BY <1>5, <1>2, PowersOfTwo
<1>7. len # NN_MAX_BIT_LEN
  <2>1. 2^len <= 2 * q
    BY <1>2, <1>4, <1>6
  <2> QED
    BY <2>1, <1>0, <1>6
<1>8. len + 1 \in 1..NN_MAX_BIT_LEN /\ (len + 1) - 1 = len
  BY <1>0, <1>5, <1>7
<1>9. 2^len <= r /\ r < 2^(len + 1)
  <2>1. CASE nn_bitlen(s + q) = len
    <3>1. s + q < 2^len /\ r = s + q + q
      BY <2>1, <1>3 DEF len
    <3> QED
      BY <3>1, <1>2, <1>4, <1>6
  <2>2. CASE nn_bitlen(s + q) # len
    <3>1. r = s + q
      BY <2>2 DEF len
    <3>2. ~ (s + q < 2^len)
      <4>1. 2^(len - 1) <= s + q
        BY <1>2, <1>4, <1>6
      <4> QED
        BY <4>1, <2>2, <1>5, BitLenUnique
    <3> QED
      BY <3>1, <3>2, <1>2, <1>6
  <2> QED
    BY <2>1, <2>2
<1>10. nn_bitlen(r) = len + 1
  BY <1>1, <1>8, <1>9, BitLenUnique
<1> QED
  BY <1>1, <1>10 DEF len

\* Fixing the top bit: the branch of the code that finds mlen = 0 is dead, and
\* the scalar has changed by a multiple of the order of the curve.
LEMMA MsbFixedHasTopBit ==
  ASSUME NEW s \in Nat, s < 2^NN_MAX_BIT_LEN
  PROVE  /\ MsbFixed(s) \in Nat \ {0}
         /\ MsbFixed(s) < 2^NN_MAX_BIT_LEN
         /\ \E c \in Nat : MsbFixed(s) = s + c * Order
         /\ s < Order => nn_bitlen(MsbFixed(s)) = nn_bitlen(Order) + 1
         /\ s \in Order..(Order * Order - 1) =>
              nn_bitlen(MsbFixed(s)) = nn_bitlen(Order * Order) + 1
<1> DEFINE Fixed(q) == IF nn_bitlen(s + q) = nn_bitlen(q) THEN s + q + q ELSE s + q
<1>0. MsbFixed(s) = IF s < Order THEN Fixed(Order)
                    ELSE IF s < Order * Order THEN Fixed(Order * Order) ELSE s
  BY DEF MsbFixed
<1>1. CASE s < Order
  <2>1. MsbFixed(s) = Fixed(Order)
    BY <1>0, <1>1
  <2>2. /\ MsbFixed(s) \in Nat \ {0}
        /\ MsbFixed(s) < 2^NN_MAX_BIT_LEN
        /\ MsbFixed(s) = s + Order \/ MsbFixed(s) = s + 2 * Order
        /\ nn_bitlen(MsbFixed(s)) = nn_bitlen(Order) + 1
    BY <1>1, <2>1, OrderSquare, FixedByModulus
  <2>3. \E c \in Nat : MsbFixed(s) = s + c * Order
    <3>1. 1 \in Nat /\ 2 \in Nat /\ Order = 1 * Order
      BY OrderSquare
    <3> QED
      BY <2>2, <3>1
  <2> QED
    BY <1>1, <2>2, <2>3, OrderSquare
<1>2. CASE ~ (s < Order) /\ s < Order * Order
  <2>1. MsbFixed(s) = Fixed(Order * Order)
    BY <1>0, <1>2
  <2>2. /\ MsbFixed(s) \in Nat \ {0}
        /\ MsbFixed(s) < 2^NN_MAX_BIT_LEN
        /\ MsbFixed(s) = s + Order * Order \/ MsbFixed(s) = s + 2 * (Order * Order)
        /\ nn_bitlen(MsbFixed(s)) = nn_bitlen(Order * Order) + 1
    BY <1>2, <2>1, OrderSquare, FixedByModulus
  <2>3. \E c \in Nat : MsbFixed(s) = s + c * Order
    <3>1. Order \in Nat /\ 2 * Order \in Nat /\ 2 * (Order * Order) = (2 * Order) * Order
      BY OrderSquare
    <3> QED
      BY <2>2, <3>1
  <2> QED
    BY <1>2, <2>2, <2>3, OrderSquare
<1>3. CASE ~ (s < Order) /\ ~ (s < Order * Order)
  <2>1. MsbFixed(s) = s /\ s \in Nat \ {0}
    BY <1>0, <1>3, OrderSquare
  <2>2. s = s + 0 * Order
    BY OrderSquare
  <2> QED
    BY <1>3, <2>1, <2>2, OrderSquare
<1> QED
  BY <1>1, <1>2, <1>3

\* Adding a multiple of the order of a point does not change the point.
LEMMA SameResidue ==
  ASSUME NEW n \in Nat, NEW d \in Nat \ {0}, NEW c \in Nat
  PROVE  (n + c * d) % d = n % d
<1>1. /\ n \div d \in Nat /\ n % d \in 0..(d - 1)
      /\ n = d * (n \div d) + (n % d)
  BY DivMod
<1>2. n + c * d = d * ((n \div d) + c) + (n % d)
  BY <1>1
<1>3. n + c * d \in Nat /\ (n \div d) + c \in Nat
  BY <1>1
<1> QED
  BY <1>1, <1>2, <1>3, DivUnique

\* One iteration of the ladder: <<k, k + 1>> becomes <<2k + b, 2k + b + 1>>.
LEMMA LadderBodyStep ==
  ASSUME build.complete,
         NEW P \in [0..2 -> Points \cup {Unset}], NEW k \in Nat,
         NEW b \in Bits, NEW r \in Bits, NEW rn \in Bits,
         P[r] = k, P[1 - r] = k + 1
  PROVE  /\ LadderBody(P, b, r, rn) \in [0..2 -> Points \cup {Unset}]
         /\ LadderBody(P, b, r, rn)[rn] = 2 * k + b
         /\ LadderBody(P, b, r, rn)[1 - rn] = 2 * k + b + 1
<1>1. \A x, y \in Bits : Xor(x, y) = IF x = y THEN 0 ELSE 1
  BY DEF Bits, Xor
<1>2. P[0] \in Int /\ P[1] \in Int /\ P[0] + P[1] = 2 * k + 1
  BY DEF Bits, Points
<1>3. P[Xor(b, r)] = k + b
  BY <1>1 DEF Bits
<1> DEFINE A == [P EXCEPT ![2] = prj_pt_dbl_monty(P[Xor(b, r)])]
           B == [A EXCEPT ![1] = prj_pt_add_monty(A[0], A[1], TRUE)]
           C == [B EXCEPT ![0] = B[2 - Xor(b, rn)]]
           D == [C EXCEPT ![1] = C[1 + Xor(b, rn)]]
<1>4. LadderBody(P, b, r, rn) = D
  BY DEF LadderBody
<1>5. /\ B \in [0..2 -> Points \cup {Unset}]
      /\ B[1] = 2 * k + 1 /\ B[2] = 2 * k + 2 * b
  BY <1>2, <1>3 DEF prj_pt_dbl_monty, prj_pt_add_monty, Points, Bits
<1> HIDE DEF B
<1>6. CASE b = rn
  <2>1. Xor(b, rn) = 0
    BY <1>1, <1>6
  <2>2. D \in [0..2 -> Points \cup {Unset}] /\ D[0] = B[2] /\ D[1] = B[1]
    BY <1>5, <2>1
  <2> QED
    BY <1>4, <1>5, <1>6, <2>2 DEF Bits
<1>7. CASE b # rn
  <2>1. Xor(b, rn) = 1
    BY <1>1, <1>7
  <2>2. D \in [0..2 -> Points \cup {Unset}] /\ D[0] = B[1] /\ D[1] = B[2]
    BY <1>5, <2>1
  <2> QED
    BY <1>4, <1>5, <1>7, <2>2 DEF Bits
<1> QED
  BY <1>6, <1>7

\* One iteration of Double and Add Always: k becomes 2k + b.
LEMMA AlwaysBodyStep ==
  ASSUME NEW P \in [0..2 -> Points \cup {Unset}], NEW k \in Nat,
         NEW b \in Bits, NEW r \in Bits, NEW rn \in Bits,
         P[r] = k, P[2] = 1
  PROVE  /\ AlwaysBody(P, b, r, rn) \in [0..2 -> Points \cup {Unset}]
         /\ AlwaysBody(P, b, r, rn)[rn] = 2 * k + b
         /\ AlwaysBody(P, b, r, rn)[2] = 1
<1>1. \A x, y \in Bits : Xor(x, y) = IF x = y THEN 0 ELSE 1
  BY DEF Bits, Xor
<1> DEFINE A == [P EXCEPT ![r] = prj_pt_dbl_monty(P[r])]
           B == [A EXCEPT ![1 - r] = prj_pt_add_monty(A[r], A[2], FALSE)]
           C == [B EXCEPT ![rn] = B[Xor(b, r)]]
<1>2. AlwaysBody(P, b, r, rn) = C
  BY DEF AlwaysBody
<1>3. /\ B \in [0..2 -> Points \cup {Unset}]
      /\ B[r] = 2 * k /\ B[1 - r] = 2 * k + 1 /\ B[2] = 1
  BY DEF prj_pt_dbl_monty, prj_pt_add_monty, Points, Bits
<1> HIDE DEF B
<1>4. B[Xor(b, r)] = 2 * k + b
  BY <1>1, <1>3 DEF Bits
<1>5. C \in [0..2 -> Points \cup {Unset}] /\ C[rn] = 2 * k + b /\ C[2] = 1
  BY <1>3, <1>4 DEF Points, Bits
<1> QED
  BY <1>2, <1>5

-----------------------------------------------------------------------------
(***************************************************************************)
(* The inductive invariant IInv.                                           *)
(***************************************************************************)

\* What the assumptions on the constants give for the initial states.
LEMMA DivisorHasCofactor ==
  ASSUME NEW d \in 1..Order, Order % d = 0
  PROVE  \E h \in 1..Order : Order = h * d
<1>1. Order \in Nat \ {0} /\ d \in Nat \ {0}
  BY OrderAssumption
<1>2. /\ Order \div d \in Nat
      /\ Order = d * (Order \div d) + (Order % d)
  BY <1>1, DivMod
<1> DEFINE h == Order \div d
<1> HIDE DEF h
<1>3. h \in Nat /\ Order = d * h
  BY <1>1, <1>2 DEF h
<1>4. h # 0
  BY <1>1, <1>3
<1>5. h <= Order /\ d * h = h * d
  BY <1>1, <1>3, <1>4
<1> QED
  BY <1>1, <1>3, <1>4, <1>5

\* Everything the steps need of the scalar that a call passes to the loop.
LEMMA ScalarBounds ==
  ASSUME NEW s \in Scalars
  PROVE  /\ s \in Nat
         /\ s < 2^NN_MAX_BIT_LEN
         /\ \A b \in 1..(GenOrder - 1) :
              /\ Blinded(b, GenOrder, s) \in Nat
              /\ Blinded(b, GenOrder, s) < 2^NN_MAX_BIT_LEN
              /\ b \in 0..Blinded(b, GenOrder, s)
<1>1. /\ s \in Nat /\ s + GenOrder * GenOrder < 2^NN_MAX_BIT_LEN
      /\ GenOrder \in Nat \ {0}
      /\ 2^NN_MAX_BIT_LEN \in Nat
  BY CapacityAssumption, OrderAssumption, PowersOfTwo
<1>2. GenOrder * GenOrder \in Nat
  BY <1>1
<1>3. ASSUME NEW b \in 1..(GenOrder - 1)
      PROVE  /\ b * GenOrder \in Nat
             /\ b * GenOrder <= GenOrder * GenOrder
             /\ b <= b * GenOrder
  BY <1>1, <1>3
<1>4. ASSUME NEW b \in 1..(GenOrder - 1)
      PROVE  /\ Blinded(b, GenOrder, s) \in Nat
             /\ Blinded(b, GenOrder, s) < 2^NN_MAX_BIT_LEN
             /\ b \in 0..Blinded(b, GenOrder, s)
  BY <1>1, <1>2, <1>3 DEF Blinded
<1> QED
  BY <1>1, <1>2, <1>4

\* The invariant holds when nothing has been called yet.
THEOREM InitIInv == Init => IInv
<1> SUFFICES ASSUME Init PROVE IInv
  OBVIOUS
<1>1. TypeOK
  BY OrderAssumption, PowersOfTwo DEF Init, TypeOK, Unwritten, Bits, Points
<1>2. LoopInv
  BY DEF Init, LoopInv, Loops
<1>3. CallInv
  BY DivisorHasCofactor DEF Init, CallInv
<1> QED
  BY <1>1, <1>2, <1>3 DEF IInv

\* Both entry points hand the loop a scalar that fits an nn and stands for the
\* same multiple of the input point.
LEMMA EntryIInv ==
  ASSUME IInv, Call \/ CallBlind
  PROVE  IInv'
<1> USE DEF IInv
<1>0. pc = "call" /\ pc' = "mul" /\ inord \in Nat \ {0}
  BY OrderAssumption DEF Call, CallBlind, TypeOK
<1>1. CASE Call
  <2>1. PICK s \in Scalars : m' = s /\ mult' = s
    BY <1>1 DEF Call
  <2>2. s \in Nat /\ s < 2^NN_MAX_BIT_LEN
    BY ScalarBounds
  <2>3. TypeOK'
    BY <1>1, <2>1, <2>2 DEF Call, TypeOK
  <2>4. LoopInv'
    BY <1>0 DEF LoopInv, Loops
  <2>5. CallInv'
    <3>1. mult' = m' + 0 * inord /\ 0 \in 0..mult'
      BY <1>0, <2>1, <2>2
    <3> QED
      BY <1>0, <1>1, <2>1, <2>2, <3>1 DEF Call, CallInv
  <2> QED
    BY <2>3, <2>4, <2>5
<1>2. CASE CallBlind
  <2>1. PICK s \in Scalars, b \in 1..(GenOrder - 1) :
          m' = s /\ mult' = Blinded(b, GenOrder, s)
    BY <1>2 DEF CallBlind
  <2>2. /\ s \in Nat /\ mult' \in Nat /\ mult' < 2^NN_MAX_BIT_LEN
        /\ b \in 0..mult'
    BY <2>1, ScalarBounds
  <2>3. TypeOK'
    BY <1>2, <2>1, <2>2 DEF CallBlind, TypeOK
  <2>4. LoopInv'
    BY <1>0 DEF LoopInv, Loops
  <2>5. CallInv'
    <3>1. inord' = GenOrder /\ inord = GenOrder
      BY <1>2 DEF CallBlind
    <3>2. mult' = m' + b * inord'
      BY <1>0, <2>1, <2>2, <3>1 DEF Blinded
    <3> QED
      BY <1>0, <1>2, <2>2, <3>1, <3>2 DEF CallBlind, CallInv
  <2> QED
    BY <2>3, <2>4, <2>5
<1> QED
  BY <1>1, <1>2

\* What precedes the loops leaves the register that the mask bit designates
\* with the input point: exactly the top bit of the scalar is consumed.
LEMMA PrologueIInv ==
  ASSUME IInv, Prologue
  PROVE  IInv'
<1> USE DEF IInv
<1>0. /\ pc = "mul" /\ pc' = build.loop /\ build' = build /\ rbit' \in Bits
      /\ build \in Builds /\ build.loop \in Loops
      /\ mult \in Nat /\ mult < 2^NN_MAX_BIT_LEN /\ mult' = mult
  BY BuildAssumption DEF Prologue, TypeOK, CallInv
<1>1. mfix' = MsbFixed(mult) /\ mfix' \in Nat \ {0} /\ mfix' < 2^NN_MAX_BIT_LEN
  BY <1>0, MsbFixedHasTopBit DEF Prologue
<1>2. mlen' \in 0..(NN_MAX_BIT_LEN - 1) /\ mfix' \div 2^mlen' = 1
  <2>1. mlen' = nn_bitlen(mfix') - 1
    BY DEF Prologue
  <2> QED
    BY <1>1, <2>1, TopBit, PowersOfTwo
<1>3. /\ T' \in [0..2 -> Points \cup {Unset}] /\ T'[rbit'] = 1
      /\ build.loop = "ladder" => T'[1 - rbit'] = T'[rbit'] + 1
      /\ build.loop = "always" => T'[2] = 1
  <2>1. CASE build.loop = "ladder"
    <3>1. T' = [Unwritten EXCEPT ![rbit'] = 1, ![1 - rbit'] = 2]
      BY <2>1 DEF Prologue, prj_pt_dbl_monty
    <3>2. /\ T' \in [0..2 -> Points \cup {Unset}]
          /\ T'[rbit'] = 1 /\ T'[1 - rbit'] = 2
      <4>1. \A r \in Bits :
              LET P == [Unwritten EXCEPT ![r] = 1, ![1 - r] = 2]
              IN  /\ P \in [0..2 -> Points \cup {Unset}]
                  /\ P[r] = 1 /\ P[1 - r] = 2
        BY DEF Unwritten, Points, Bits
      <4> QED
        BY <1>0, <3>1, <4>1
    <3> QED
      BY <2>1, <3>2
  <2>2. CASE build.loop = "always"
    BY <1>0, <2>2 DEF Prologue, Unwritten, Points, Bits
  <2> QED
    BY <1>0, <2>1, <2>2 DEF Loops
<1>4. TypeOK'
  BY <1>0, <1>1, <1>2, <1>3, PowersOfTwo DEF Prologue, TypeOK
<1>5. LoopInv'
  <2>1. mlen' < NN_MAX_BIT_LEN
    BY <1>2, PowersOfTwo
  <2> QED
    BY <1>0, <1>1, <1>2, <1>3, <2>1 DEF LoopInv
<1>6. CallInv'
  BY <1>0 DEF Prologue, CallInv, Loops
<1> QED
  BY <1>4, <1>5, <1>6

\* One iteration of either loop consumes one more bit of the scalar, whatever
\* mask bit it draws.
LEMMA LoopStepIInv ==
  ASSUME LadderComplete, IInv, LadderStep \/ AlwaysStep
  PROVE  IInv'
<1> USE DEF IInv
<1>0. /\ pc \in Loops /\ pc' = pc /\ build \in Builds /\ build' = build /\ pc = build.loop
      /\ rbit \in Bits /\ rbit' \in Bits
      /\ mfix \in Nat /\ mfix' = mfix /\ mult' = mult
      /\ T \in [0..2 -> Points \cup {Unset}]
      /\ mfix = MsbFixed(mult) /\ T[rbit] = mfix \div 2^mlen
  BY DEF LadderStep, AlwaysStep, Loops, TypeOK, LoopInv
<1>1. /\ mlen' \in 0..(NN_MAX_BIT_LEN - 1) /\ mlen' + 1 = mlen
  BY <1>0, PowersOfTwo DEF LadderStep, AlwaysStep, TypeOK, LoopInv
<1>2. /\ mfix \div 2^mlen' = 2 * T[rbit] + nn_getbit(mfix, mlen')
      /\ nn_getbit(mfix, mlen') \in Bits
      /\ T[rbit] \in Nat
  <2>1. mlen' \in 0..NN_MAX_BIT_LEN /\ mlen \in 0..NN_MAX_BIT_LEN
    BY <1>1, PowersOfTwo
  <2> QED
    BY <1>0, <1>1, <2>1, PrefixStep
<1>3. /\ T' \in [0..2 -> Points \cup {Unset}]
      /\ T'[rbit'] = mfix \div 2^mlen'
      /\ pc = "ladder" => T'[1 - rbit'] = T'[rbit'] + 1
      /\ pc = "always" => T'[2] = 1
  <2>1. CASE LadderStep
    <3>1. /\ pc = "ladder" /\ build.complete /\ T[1 - rbit] = T[rbit] + 1
          /\ T' = LadderBody(T, nn_getbit(mfix, mlen'), rbit, rbit')
      BY <2>1, <1>0 DEF LadderStep, LoopInv, LadderComplete
    <3>2. /\ T' \in [0..2 -> Points \cup {Unset}]
          /\ T'[rbit'] = 2 * T[rbit] + nn_getbit(mfix, mlen')
          /\ T'[1 - rbit'] = 2 * T[rbit] + nn_getbit(mfix, mlen') + 1
      BY <1>0, <1>2, <3>1, LadderBodyStep
    <3> QED
      BY <1>2, <3>1, <3>2
  <2>2. CASE AlwaysStep
    <3>1. /\ pc = "always" /\ T[2] = 1
          /\ T' = AlwaysBody(T, nn_getbit(mfix, mlen'), rbit, rbit')
      BY <2>2, <1>0 DEF AlwaysStep, LoopInv
    <3>2. /\ T' \in [0..2 -> Points \cup {Unset}]
          /\ T'[rbit'] = 2 * T[rbit] + nn_getbit(mfix, mlen')
          /\ T'[2] = 1
      BY <1>0, <1>2, <3>1, AlwaysBodyStep
    <3> QED
      BY <1>2, <3>1, <3>2
  <2> QED
    BY <2>1, <2>2
<1>4. TypeOK'
  <2>1. mlen' \in 0..NN_MAX_BIT_LEN
    BY <1>1, PowersOfTwo
  <2> QED
    BY <1>0, <1>3, <2>1 DEF LadderStep, AlwaysStep, TypeOK
<1>5. LoopInv'
  <2>1. mlen' < NN_MAX_BIT_LEN
    BY <1>1, PowersOfTwo
  <2> QED
    BY <1>0, <1>3, <2>1 DEF LoopInv
<1>6. CallInv'
  <2>1. pc' # "done" /\ pc' # "exit_curve" /\ pc # "call"
    BY <1>0 DEF Loops
  <2> QED
    BY <2>1 DEF LadderStep, AlwaysStep, CallInv
<1> QED
  BY <1>4, <1>5, <1>6

\* When the loop is over, all the bits of the scalar have been consumed.
LEMMA EpilogueIInv ==
  ASSUME IInv, Epilogue
  PROVE  IInv'
<1> USE DEF IInv
<1>0. /\ pc \in Loops /\ mlen = 0 /\ out' = T[rbit] /\ pc # "call"
      /\ pc' \in {"done", "exit_curve"} /\ inord \in Nat \ {0}
      /\ mult \in Nat /\ mult < 2^NN_MAX_BIT_LEN /\ mult' = mult
  BY OrderAssumption DEF Epilogue, TypeOK, Loops, CallInv
<1>1. T[rbit] = MsbFixed(mult) /\ MsbFixed(mult) \in Nat
  <2>1. 2^0 = 1 /\ MsbFixed(mult) \in Nat
    BY <1>0, PowersOfTwo, MsbFixedHasTopBit
  <2>2. T[rbit] = MsbFixed(mult) \div 1
    BY <1>0, <2>1 DEF LoopInv
  <2> QED
    BY <2>1, <2>2
<1>2. TypeOK'
  BY <1>0, <1>1 DEF Epilogue, TypeOK, Loops, Ended, Points
<1>3. LoopInv'
  BY <1>0 DEF LoopInv, Loops
<1>4. CallInv'
  BY <1>0, <1>1 DEF Epilogue, CallInv, OnCurveCheckExits, prj_pt_iszero
<1> QED
  BY <1>2, <1>3, <1>4

\* Every step of the system, and a step that leaves the state unchanged,
\* preserves the invariant.
LEMMA NextIInv == LadderComplete /\ IInv /\ [Next]_vars => IInv'
<1> SUFFICES ASSUME LadderComplete, IInv, [Next]_vars PROVE IInv'
  OBVIOUS
<1>1. CASE Call \/ CallBlind
  BY <1>1, EntryIInv
<1>2. CASE RandomFails
  BY <1>2 DEF RandomFails, IInv, TypeOK, LoopInv, CallInv, Loops, Ended
<1>3. CASE InputCheckExits
  <2>1. azero /\ inord = 1
    <3>1. inord \in Nat \ {0}
      BY OrderAssumption DEF IInv, TypeOK
    <3>2. azero /\ 1 % inord = 0
      BY <1>3 DEF InputCheckExits, OnCurveCheckExits, prj_pt_iszero
    <3>3. ASSUME inord # 1 PROVE FALSE
      <4>1. 1 \in 0..(inord - 1) /\ 1 = inord * 0 + 1
        BY <3>1, <3>3
      <4>2. 1 % inord = 1
        BY <3>1, <4>1, DivUnique
      <4> QED
        BY <3>2, <4>2
    <3> QED
      BY <3>2, <3>3
  <2> QED
    BY <1>3, <2>1 DEF InputCheckExits, IInv, TypeOK, LoopInv, CallInv, Loops, Ended
<1>4. CASE Prologue
  BY <1>4, PrologueIInv
<1>5. CASE LadderStep \/ AlwaysStep
  BY <1>5, LoopStepIInv
<1>6. CASE Epilogue
  BY <1>6, EpilogueIInv
<1>7. CASE Return
  <2>1. TypeOK'
    BY <1>7, PowersOfTwo DEF Return, IInv, TypeOK, Unwritten, Points, Bits
  <2>2. LoopInv' /\ CallInv'
    BY <1>7 DEF Return, IInv, LoopInv, CallInv, Loops
  <2> QED
    BY <2>1, <2>2 DEF IInv
<1>8. CASE UNCHANGED vars
  BY <1>8 DEF vars, IInv, TypeOK, LoopInv, CallInv
<1> QED
  BY <1>1, <1>2, <1>3, <1>4, <1>5, <1>6, <1>7, <1>8 DEF Next, Run

\* The masked loops keep their registers consistent in every reachable state, the
\* ladder with the complete formulas, Double and Add Always with either.
THEOREM InductiveInvariant ==
  ASSUME LadderComplete
  PROVE  Spec => []IInv
<1>1. Init => IInv
  BY InitIInv
<1>2. IInv /\ [Next]_vars => IInv'
  BY NextIInv
<1> QED
  BY <1>1, <1>2, PTL DEF Spec

\* Type correctness: no register index, bit position or length leaves its range.
THEOREM TypeCorrect ==
  ASSUME LadderComplete
  PROVE  Spec => []TypeOK
<1>1. IInv => TypeOK
  BY DEF IInv
<1> QED
  BY <1>1, InductiveInvariant, PTL

-----------------------------------------------------------------------------
(***************************************************************************)
(* What the invariant gives a caller.                                      *)
(***************************************************************************)

\* The scalar of the loop, top bit fixed, and the scalar asked for differ by a
\* multiple of the order of the input point.
LEMMA SamePoint ==
  ASSUME IInv, pc # "call"
  PROVE  /\ inord \in Nat \ {0} /\ m \in Nat
         /\ \E c \in Nat : MsbFixed(mult) = m + c * inord
         /\ MsbFixed(mult) % inord = m % inord
<1>1. /\ inord \in Nat \ {0} /\ m \in Nat /\ mult \in Nat
      /\ mult < 2^NN_MAX_BIT_LEN
  BY OrderAssumption DEF IInv, TypeOK, CallInv
<1>2. PICK h \in 1..Order : Order = h * inord
  BY DEF IInv, CallInv
<1>3. PICK c \in 0..mult : mult = m + c * inord
  BY DEF IInv, CallInv
<1>4. PICK e \in Nat : MsbFixed(mult) = mult + e * Order
  BY <1>1, MsbFixedHasTopBit
<1>5. h \in Nat /\ c \in Nat /\ e \in Nat
  BY <1>1, OrderAssumption
<1>6. /\ e * h \in Nat /\ c + e * h \in Nat
      /\ e * (h * inord) = (e * h) * inord
      /\ c * inord + (e * h) * inord = (c + e * h) * inord
  BY <1>1, <1>5
<1>7. MsbFixed(mult) = m + (c + e * h) * inord
  <2>1. c * inord \in Nat /\ (e * h) * inord \in Nat
    BY <1>1, <1>5, <1>6
  <2>2. MsbFixed(mult) = (m + c * inord) + (e * h) * inord
    BY <1>2, <1>3, <1>4, <1>6
  <2> QED
    BY <1>1, <1>6, <2>1, <2>2
<1>8. MsbFixed(mult) % inord = m % inord
  <2>1. PICK k \in Nat : MsbFixed(mult) = m + k * inord
    BY <1>6, <1>7
  <2>2. (m + k * inord) % inord = m % inord
    BY <1>1, SameResidue
  <2> QED
    BY <2>1, <2>2
<1> QED
  BY <1>1, <1>6, <1>7, <1>8

\* For every order, scalar, mask and blinding value, the point that is returned
\* is the multiple of the input that was asked for, by the ladder with the complete
\* formulas and by Double and Add Always with either.
THEOREM Correctness ==
  ASSUME LadderComplete
  PROVE  Spec => []ResultCorrect
<1>1. IInv => ResultCorrect
  <2> SUFFICES ASSUME IInv, pc = "done"
               PROVE  out \in Int /\ (out - m) % inord = 0
    BY DEF ResultCorrect
  <2>1. /\ inord \in Nat \ {0} /\ m \in Nat
        /\ \E c \in Nat : MsbFixed(mult) = m + c * inord
    BY SamePoint
  <2>2. out = MsbFixed(mult)
    BY DEF IInv, CallInv
  <2>3. PICK c \in Nat : out = m + c * inord
    BY <2>1, <2>2
  <2>4. c * inord \in Nat /\ inord * c = c * inord
    BY <2>1
  <2>5. out - m = inord * c + 0 /\ out - m \in Nat /\ 0 \in 0..(inord - 1)
    BY <2>1, <2>3, <2>4
  <2>6. (out - m) % inord = 0
    BY <2>1, <2>5, DivUnique
  <2> QED
    BY <2>1, <2>3, <2>4, <2>6
<1> QED
  BY <1>1, InductiveInvariant, PTL

\* For every order and every scalar below its square, the loops run a number of
\* iterations that the scalar does not influence.
THEOREM ConstantIterations ==
  ASSUME LadderComplete
  PROVE  Spec => []IterationsFixed
<1>1. IInv => IterationsFixed
  <2> SUFFICES ASSUME IInv, pc \in Loops
               PROVE  /\ mult < Order => nn_bitlen(mfix) = nn_bitlen(Order) + 1
                      /\ mult \in Order..(Order * Order - 1) =>
                           nn_bitlen(mfix) = nn_bitlen(Order * Order) + 1
    BY DEF IterationsFixed
  <2>1. /\ mult \in Nat /\ mult < 2^NN_MAX_BIT_LEN /\ mfix = MsbFixed(mult)
    BY DEF IInv, TypeOK, LoopInv, CallInv, Loops
  <2> QED
    BY <2>1, MsbFixedHasTopBit
<1> QED
  BY <1>1, InductiveInvariant, PTL

\* The on-curve checks stop the program on curves with a = 0 only, and there
\* only when the input or the result is the point at infinity.
THEOREM CheckExits ==
  ASSUME LadderComplete
  PROVE  Spec => []CheckExitsOnlyAtInfinity
<1>1. IInv => CheckExitsOnlyAtInfinity
  <2> SUFFICES ASSUME IInv, pc = "exit_curve"
               PROVE  azero /\ (inord = 1 \/ m % inord = 0)
    BY DEF CheckExitsOnlyAtInfinity
  <2>1. azero /\ (inord = 1 \/ MsbFixed(mult) % inord = 0)
    BY DEF IInv, CallInv
  <2>2. MsbFixed(mult) % inord = m % inord
    BY SamePoint
  <2> QED
    BY <2>1, <2>2
<1> QED
  BY <1>1, InductiveInvariant, PTL

-----------------------------------------------------------------------------
(***************************************************************************)
(* The masked loops implement the one-step multiplication of PointMul.     *)
(***************************************************************************)

\* An initial state is one of PointMul.
LEMMA AbstractInit == Init => Abstract!Init
BY OrderAssumption DEF Init, Abstract!Init, Phase, Loops

\* A step is a step of PointMul or does not change what PointMul sees.
LEMMA AbstractStep == IInv /\ [Next]_vars => [Abstract!Next]_(Abstract!vars)
<1> SUFFICES ASSUME IInv, [Next]_vars
             PROVE  Abstract!Next \/ UNCHANGED Abstract!vars
  OBVIOUS
<1> USE DEF Abstract!vars, Phase, Loops
<1>1. CASE Call \/ CallBlind
  <2>1. m' \in Nat /\ pc = "call" /\ pc' = "mul" /\ inord' = inord
    BY <1>1, ScalarBounds DEF Call, CallBlind
  <2>2. Abstract!Request
    BY <2>1 DEF Abstract!Request
  <2> QED
    BY <2>2 DEF Abstract!Next
<1>2. CASE RandomFails \/ InputCheckExits
  <2>1. Abstract!Stop
    BY <1>2 DEF RandomFails, InputCheckExits, Abstract!Stop
  <2> QED
    BY <2>1 DEF Abstract!Next
<1>3. CASE Prologue
  <2>1. build.loop \in Loops
    BY BuildAssumption DEF IInv, TypeOK
  <2> QED
    BY <1>3, <2>1 DEF Prologue
<1>4. CASE LadderStep \/ AlwaysStep
  BY <1>4 DEF LadderStep, AlwaysStep
<1>5. CASE Epilogue
  <2>1. /\ pc \in Loops /\ inord' = inord /\ m' = m
        /\ pc' \in {"done", "exit_curve"}
    BY <1>5 DEF Epilogue
  <2>2. CASE pc' = "exit_curve"
    <3>1. Abstract!Stop
      BY <2>1, <2>2 DEF Abstract!Stop
    <3> QED
      BY <3>1 DEF Abstract!Next
  <2>3. CASE pc' = "done"
    <3>1. out' = MsbFixed(mult)
      <4>1. IInv'
        BY <1>5, EpilogueIInv
      <4>2. mult' = mult
        BY <1>5 DEF Epilogue
      <4> QED
        BY <2>3, <4>1, <4>2 DEF IInv, CallInv
    <3>2. MsbFixed(mult) % inord = m % inord
      BY <2>1, SamePoint
    <3>3. Abstract!Deliver
      BY <2>1, <2>3, <3>1, <3>2 DEF Abstract!Deliver
    <3> QED
      BY <3>3 DEF Abstract!Next
  <2> QED
    BY <2>1, <2>2, <2>3
<1>6. CASE Return
  <2>1. Abstract!Return
    BY <1>6 DEF Return, Abstract!Return
  <2> QED
    BY <2>1 DEF Abstract!Next
<1>7. CASE UNCHANGED vars
  BY <1>7 DEF vars
<1> QED
  BY <1>1, <1>2, <1>3, <1>4, <1>5, <1>6, <1>7 DEF Next, Run

\* Whatever the masks and the blinding, a caller cannot tell the loops, the ladder
\* with the complete formulas, from a multiplication made in one step.
THEOREM Refinement ==
  ASSUME LadderComplete
  PROVE  Spec => ImplementsPointMul
<1>1. Init => Abstract!Init
  BY AbstractInit
<1>2. IInv /\ [Next]_vars => [Abstract!Next]_(Abstract!vars)
  BY AbstractStep
<1> QED
  BY <1>1, <1>2, InductiveInvariant, PTL DEF Spec, ImplementsPointMul, Abstract!Spec
=============================================================================
