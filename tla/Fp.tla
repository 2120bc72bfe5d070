---------------------------------- MODULE Fp ----------------------------------
(***************************************************************************)
(* Elements of the prime field, down to their words: the functions of the  *)
(* files in fp/ on a few registers, with the nn functions they call        *)
(* (nn/nn.c, nn_add.c, nn_mul_redc1.c, nn_modinv.c), for every way of using*)
(* the same register as input and as output.                               *)
(*                                                                         *)
(* An nn is its number of words wlen and val, the number that ALL the      *)
(* words of its storage form, those past wlen included.  A loop that adds  *)
(* n words with carries computes the sum of the numbers in these words     *)
(* modulo B^n, and its carry out is the quotient by B^n.                   *)
(***************************************************************************)
EXTENDS Integers

CONSTANTS
  WORD_BITS,       (* WORDSIZE.                                            *)
  P,               (* The prime of the field context.                      *)
  NN_MAX_WORD_LEN, (* Words of storage of an nn.                           *)
  Regs,            (* The fp elements of the program.                      *)
  Exponents        (* Bound on the exponents.                              *)

B == 2^WORD_BITS

\* fp_ctx_init_from_p gives p two words at least.
PWlen == CHOOSE n \in 2..NN_MAX_WORD_LEN : P < B^n /\ (n = 2 \/ B^(n - 1) <= P)

ASSUME FieldAssumption ==
  /\ WORD_BITS \in Nat \ {0}
  /\ P \in Nat /\ P > 2 /\ \A d \in 2..(P - 1) : P % d # 0
  /\ P % B # 0
  /\ NN_MAX_WORD_LEN \in Nat \ {0, 1} /\ P < B^NN_MAX_WORD_LEN
  /\ NN_MAX_WORD_LEN >= 3 * PWlen       \* nn_config.h
  /\ Exponents \subseteq Nat

\* Facts of arithmetic that the proofs of FpProofs use.
ASSUME PowersAssumption ==
  /\ 2^0 = 1 /\ B^0 = 1
  /\ \A i \in 0..(WORD_BITS * NN_MAX_WORD_LEN) : 2^i \in Nat \ {0} /\ 2^(i + 1) = 2 * 2^i
  /\ \A n \in 0..NN_MAX_WORD_LEN : B^n \in Nat \ {0} /\ B^(n + 1) = B * B^n
  /\ \A x \in 0..(P - 1), e \in Exponents :
       /\ x^1 = x
       /\ \A n \in 1..e : x^n \in Nat
       /\ \A n \in 1..(e - 1) : x^(n + 1) = x * x^n

VARIABLES
  reg,     (* The fp_val of each fp element.                               *)
  exited   (* A MUST_HAVE has stopped the program.                         *)

vars == <<reg, exited>>

(***************************************************************************)
(* nn.c.                                                                   *)
(***************************************************************************)

\* The number in the first n words of a; the number that a stands for.
Low(a, n) == a.val % B^n
Value(a) == Low(a, a.wlen)

\* a with its first n words replaced by those of v.
WithWords(a, n, v) == [a EXCEPT !.val = (v % B^n) + (a.val - Low(a, n))]

nn_init(wlen) == [wlen |-> wlen, val |-> 0]

\* Words are cleared only when the length changes.
nn_set_wlen(a, n) == IF a.wlen = n THEN a ELSE [wlen |-> n, val |-> Low(a, n)]

MaxWlen(a, b) == IF a.wlen >= b.wlen THEN a.wlen ELSE b.wlen

\* nn_cmp(a, b) < 0 and = 0: the words of both are read up to the larger length.
nn_less(a, b) == Low(a, MaxWlen(a, b)) < Low(b, MaxWlen(a, b))

nn_equal_SameWlen(a, b) == a.wlen = b.wlen /\ Value(a) = Value(b)  \* faulty
nn_equal(a, b) == Low(a, MaxWlen(a, b)) = Low(b, MaxWlen(a, b))

nn_iszero(a) == Value(a) = 0
nn_isodd(a) == a.wlen # 0 /\ a.val % 2 = 1

\* a with the words and the length of b in nn_cnd_swap.
Swapped(a, b) == [WithWords(a, MaxWlen(a, b), Low(b, MaxWlen(a, b))) EXCEPT !.wlen = b.wlen]

\* nn_rshift_fixedlen by 1.
Halved(a) == WithWords(a, a.wlen, Value(a) \div 2)

(***************************************************************************)
(* The nn functions act on a store: what every pointer in scope points to, *)
(* and whether all the MUST_HAVE conditions so far were met.  The pointers *)
(* are the registers, the constants of the context and local variables.    *)
(***************************************************************************)

R == B^PWlen
p == [wlen |-> PWlen, val |-> P]
r_square == [wlen |-> PWlen, val |-> (R * R) % P]
mpinv == CHOOSE w \in 0..(B - 1) : (w * P + 1) % B = 0

Constants ==
  [p |-> p, r_square |-> r_square, one |-> [wlen |-> 1, val |-> 1],
   r |-> [wlen |-> PWlen, val |-> R % P], mp1d2 |-> [wlen |-> PWlen, val |-> (P \div 2) + 1]]
Locals == {"cpy", "a", "b", "u", "inv"}

ASSUME NamesAssumption == Regs \cap (DOMAIN Constants \cup Locals) = {}

Store(regs) ==
  [nn |-> [x \in Regs \cup DOMAIN Constants \cup Locals |->
             CASE x \in Regs -> regs[x]
               [] x \in DOMAIN Constants -> Constants[x]
               [] x \in Locals -> nn_init(0)],
   ok |-> TRUE]

Put(S, out, a) == [S EXCEPT !.nn[out] = a]
MustHave(S, cond) == [S EXCEPT !.ok = @ /\ cond]
SetWlen(S, out, n) == Put(S, out, nn_set_wlen(S.nn[out], n))

\* out before a word loop: cleared, or resized when it is also an input.
Prepare(S, out, in1, in2, fresh, aliased) ==
  IF out \in {in1, in2} THEN SetWlen(S, out, aliased) ELSE Put(S, out, nn_init(fresh))

(***************************************************************************)
(* nn_add.c.                                                               *)
(***************************************************************************)

\* Faulty: the carry out is thrown away.
nn_cnd_add_NoCarry(cnd, S, out, in1, in2) ==
  IF ~cnd THEN Put(S, out, S.nn[in1])
  ELSE LET n == MaxWlen(S.nn[in1], S.nn[in2])
           T == Prepare(S, out, in1, in2, n, n)
       IN  Put(T, out, WithWords(T.nn[out], n, Low(T.nn[in1], n) + Low(T.nn[in2], n)))

\* Faulty: one more word whatever the carry is, and no test that it exists.
nn_cnd_add_Grows(cnd, S, out, in1, in2) ==
  IF ~cnd THEN Put(S, out, S.nn[in1])
  ELSE LET n == MaxWlen(S.nn[in1], S.nn[in2])
           T == Prepare(S, out, in1, in2, n, n)
           sum == Low(T.nn[in1], n) + Low(T.nn[in2], n)
       IN  Put(T, out, [WithWords(T.nn[out], n + 1, sum) EXCEPT !.wlen = n + 1])

\* The carry out becomes one more word, and there must be room for it.
nn_cnd_add(cnd, S, out, in1, in2) ==
  IF ~cnd THEN Put(S, out, S.nn[in1])
  ELSE LET n == MaxWlen(S.nn[in1], S.nn[in2])
           T == Prepare(S, out, in1, in2, n, n)
           sum == Low(T.nn[in1], n) + Low(T.nn[in2], n)
           a == WithWords(T.nn[out], n, sum)
       IN  IF sum < B^n THEN Put(T, out, a)
           ELSE IF n = NN_MAX_WORD_LEN THEN MustHave(T, FALSE)
           ELSE Put(T, out, [WithWords(a, n + 1, sum) EXCEPT !.wlen = n + 1])

nn_cnd_sub(cnd, S, out, in1, in2) ==
  IF ~cnd THEN Put(S, out, S.nn[in1])
  ELSE LET n == MaxWlen(S.nn[in1], S.nn[in2])
           T == Prepare(S, out, in1, in2, n, S.nn[in1].wlen)
           diff == Low(T.nn[in1], n) - Low(T.nn[in2], n)
       IN  MustHave(Put(T, out, WithWords(T.nn[out], n, diff)), diff >= 0)

nn_inc(S, out, in1) == nn_cnd_add(TRUE, S, out, in1, "one")

nn_dec(S, out, in1) ==
  LET n == S.nn[in1].wlen
      T == SetWlen(S, out, n)
      diff == Low(T.nn[in1], n) - 1
  IN  MustHave(Put(T, out, WithWords(T.nn[out], n, diff)), diff >= 0)

\* Faulty: the sum is not compared with p.
nn_mod_add_NoSub(S, out, in1, in2) == nn_cnd_add(TRUE, S, out, in1, in2)

\* Without the calls of nn_set_wlen that this fork has removed.
nn_mod_add(S, out, in1, in2) ==
  LET T == nn_cnd_add(TRUE, S, out, in1, in2)
  IN  nn_cnd_sub(~nn_less(T.nn[out], p), T, out, out, "p")

nn_mod_inc(S, out, in1) ==
  LET T == SetWlen(nn_inc(S, out, in1), out, PWlen + 1)
  IN  SetWlen(nn_cnd_sub(~nn_less(T.nn[out], p), T, out, out, "p"), out, PWlen)

\* Faulty: in2 is read after it has been overwritten by in1 + p.
nn_mod_sub_NoCopy(S, out, in1, in2) ==
  LET T == nn_cnd_add(nn_less(S.nn[in1], S.nn[in2]), S, out, in1, "p")
  IN  nn_cnd_sub(TRUE, T, out, out, in2)

nn_mod_sub(S, out, in1, in2) ==
  LET in2_ == IF in2 = out THEN "cpy" ELSE in2
      T == IF in2 = out THEN Put(S, "cpy", S.nn[in2]) ELSE S
      U == nn_cnd_add(nn_less(T.nn[in1], T.nn[in2_]), T, out, in1, "p")
  IN  nn_cnd_sub(TRUE, U, out, out, in2_)

nn_mod_dec(S, out, in1) ==
  LET T == SetWlen(nn_cnd_add(nn_iszero(S.nn[in1]), S, out, in1, "p"), out, PWlen + 1)
  IN  SetWlen(nn_dec(T, out, out), out, PWlen)

(***************************************************************************)
(* nn_mul_redc1.c: Montgomery's product.                                   *)
(***************************************************************************)

\* One iteration: acc is the number so far, ai a word of a.  First acc + ai*b,
\* whose words run up to index top, with the carry out of that word; then the
\* addition of a multiple of p and the division by B, on the words up to index
\* len = PWlen only.  The two carries go to word len; the words of acc past
\* word len stay where they are.
RedcIteration(acc, ai, b) ==
  LET top == IF b.wlen > PWlen THEN b.wlen ELSE PWlen
      s == (acc % B^(top + 1)) + ai * Value(b)
      t == s % B^(top + 1)
      u == (t % B^(PWlen + 1)) + (((t % B) * mpinv) % B) * P
      carries == (s \div B^(top + 1)) + (u \div B^(PWlen + 1))
  IN  ((u \div B) % B^PWlen)
        + (carries % B) * B^PWlen
        + (t - (t % B^(PWlen + 1)))

RedcLoop(a, b) ==
  LET acc[i \in 0..PWlen] ==
        IF i = 0 THEN 0 ELSE RedcIteration(acc[i - 1], (a.val \div B^(i - 1)) % B, b)
  IN  acc[PWlen]

\* a is the longer operand.
RedcWords(S, in1, in2) ==
  IF S.nn[in1].wlen <= S.nn[in2].wlen
  THEN RedcLoop(S.nn[in2], S.nn[in1]) ELSE RedcLoop(S.nn[in1], S.nn[in2])

\* Faulty: the reduced number is not compared with p.
nn_mul_redc1_NoFinalSub(S, out, in1, in2) ==
  Put(S, out, [wlen |-> PWlen, val |-> RedcWords(S, in1, in2)])

nn_mul_redc1(S, out, in1, in2) ==
  LET T == Put(S, "cpy", [wlen |-> PWlen + 1, val |-> RedcWords(S, in1, in2)])
      U == nn_cnd_sub(~nn_less(T.nn["cpy"], p), T, "cpy", "cpy", "p")
  IN  MustHave(Put(U, out, [U.nn["cpy"] EXCEPT !.wlen = PWlen]), nn_less(U.nn["cpy"], p))

-----------------------------------------------------------------------------
(***************************************************************************)
(* nn_modinv.c: the inverse modulo p, which is uu = out.  u and uu have the*)
(* lengths that the operations give them: this fork does not set them.     *)
(***************************************************************************)

\* nn_modinv clears out before it reads x: there is no inverse in place.
InverseStart(S, out, in) ==
  LET T == Put(S, out, nn_init(0))
      x == [wlen |-> PWlen, val |-> Value(T.nn[in]) % P]
  IN  [MustHave(T, ~nn_iszero(x))
         EXCEPT !.nn["a"] = x, !.nn["b"] = p, !.nn["u"] = [wlen |-> 1, val |-> 1]]

\* a = u x and b = uu x modulo p, and b is odd.
SwapSmaller(S, out) ==
  IF nn_isodd(S.nn["a"]) /\ nn_less(S.nn["a"], S.nn["b"])
  THEN [S EXCEPT !.nn["a"] = Swapped(S.nn["a"], S.nn["b"]), !.nn["b"] = Swapped(S.nn["b"], S.nn["a"]),
                 !.nn["u"] = Swapped(S.nn["u"], S.nn[out]), !.nn[out] = Swapped(S.nn[out], S.nn["u"])]
  ELSE S

\* u - uu; p - uu is added instead of a negative number.
SubtractCoef(S, out) ==
  IF nn_less(S.nn["u"], S.nn[out])
  THEN nn_cnd_add(TRUE, nn_cnd_sub(TRUE, S, "cpy", "p", out), "u", "u", "cpy")
  ELSE nn_cnd_sub(TRUE, S, "u", "u", out)

SubtractOdd(S, out) ==
  IF nn_isodd(S.nn["a"]) THEN SubtractCoef(nn_cnd_sub(TRUE, S, "a", "a", "b"), out) ELSE S

\* Half of an odd u is that of u - 1 plus the inverse of 2.
HalveBoth(S) ==
  nn_cnd_add(nn_isodd(S.nn["u"]),
             [MustHave(S, ~nn_isodd(S.nn["a"]))
                EXCEPT !.nn["a"] = Halved(S.nn["a"]), !.nn["u"] = Halved(S.nn["u"])],
             "u", "u", "mp1d2")

CoefsReduced(S, out) == MustHave(S, nn_less(S.nn["u"], p) /\ nn_less(S.nn[out], p))

\* The loop ends when a is zero.
InverseStep(S, out) ==
  IF nn_iszero(S.nn["a"]) THEN S
  ELSE CoefsReduced(HalveBoth(SubtractOdd(SwapSmaller(
         MustHave(S, nn_isodd(S.nn["b"])), out), out)), out)

\* fp_inv requires that the greatest common divisor is 1.
InverseEnd(S) == MustHave(S, nn_iszero(S.nn["a"]) /\ Value(S.nn["b"]) = 1)

InverseLoop(S, out) ==
  LET loop[cnt \in 0..(2 * PWlen * WORD_BITS)] ==
        IF cnt = 0 THEN S ELSE InverseStep(loop[cnt - 1], out)
  IN  loop[2 * PWlen * WORD_BITS]

InverseStore(S, out, in) == InverseEnd(InverseLoop(InverseStart(S, out, in), out))

(***************************************************************************)
(* fp_mul.c and fp_pow.c.  The words of nn_mul and nn_mod_unshifted are    *)
(* those of NnWords and NnDiv; here are the lengths.                       *)
(***************************************************************************)

\* BIT_LEN_WORDS(p_shift), p_shift being what makes the top bit of p 1.
ShiftWords == CHOOSE n \in 0..PWlen :
                /\ 2 * P * B^n >= B^PWlen
                /\ n = 0 \/ 2 * P * B^(n - 1) < B^PWlen

nn_mod_unshifted(S, out, prod) ==
  LET r == IF prod.wlen + ShiftWords < PWlen THEN prod
           ELSE [wlen |-> PWlen, val |-> prod.val % P]
  IN  MustHave(Put(S, out, r), prod.wlen + ShiftWords < NN_MAX_WORD_LEN)

MulStore(S, out, in1, in2) ==
  nn_mod_unshifted(S, out, [wlen |-> S.nn[in1].wlen + S.nn[in2].wlen,
                            val |-> Value(S.nn[in1]) * Value(S.nn[in2])])

DivStore(S, out, num, den) == MulStore(InverseStore(S, "inv", den), out, num, "inv")

\* tmp of fp_div_monty is a.
DivMontyStore(S, out, num, den) ==
  nn_mul_redc1(DivStore(MustHave(S, ~nn_iszero(S.nn[den])), "a", num, den), out, "a", "r_square")

\* out_monty is b, base_monty is a, and fp_tabselect selects it or r.
PowStep(S, expbit) ==
  nn_mul_redc1(nn_mul_redc1(S, "u", "b", "b"), "b", "u", IF expbit = 1 THEN "a" ELSE "r")

PowStart(S) == Put(S, "b", S.nn["a"])

\* The prefixes e of the exponent, from its top bit on.
PowLoop(S, exp) ==
  LET loop[e \in 1..exp] == IF e = 1 THEN PowStart(S) ELSE PowStep(loop[e \div 2], e % 2)
  IN  loop[exp]

PowStore(S, out, base, exp) ==
  IF exp = 0 THEN MustHave(S, FALSE)
  ELSE nn_mul_redc1(PowLoop(nn_mul_redc1(S, "a", base, "r_square"), exp), out, "b", "one")

-----------------------------------------------------------------------------
(***************************************************************************)
(* The fp functions.                                                       *)
(***************************************************************************)

\* fp_init of every element.
Init ==
  /\ reg = [x \in Regs |-> nn_init(PWlen)]
  /\ exited = FALSE

\* The call left the store S, or stopped the program.
Returns(S) ==
  /\ ~exited
  /\ IF S.ok THEN reg' = [x \in Regs |-> S.nn[x]] /\ UNCHANGED exited
     ELSE exited' = TRUE /\ UNCHANGED reg

\* fp_set_nn of a number of n words; fp_zero and fp_one are two cases of it.
fp_set_nn(out, v, n) ==
  Returns(SetWlen(MustHave(Put(Store(reg), out, [wlen |-> n, val |-> v]), v < P), out, PWlen))

\* The callers pass a buffer with as many words as p.
fp_import_from_buf(out, v) ==
  Returns(MustHave(Put(Store(reg), out, [wlen |-> PWlen, val |-> v]), v < P))

\* A failing random source leaves the 0 of fp_init.
fp_get_random(out, v) == Returns(Put(Store(reg), out, [wlen |-> PWlen, val |-> v]))

fp_copy(out, in) == Returns(Put(Store(reg), out, reg[in]))

\* out takes the words of the selected element up to the length of p.
fp_tabselect(out, in) ==
  Returns(Put(Store(reg), out, [wlen |-> PWlen, val |-> Low(reg[in], PWlen)]))

fp_add(out, in1, in2) == Returns(nn_mod_add(Store(reg), out, in1, in2))
fp_sub(out, in1, in2) == Returns(nn_mod_sub(Store(reg), out, in1, in2))
fp_inc(out, in) == Returns(nn_mod_inc(Store(reg), out, in))
fp_dec(out, in) == Returns(nn_mod_dec(Store(reg), out, in))

\* p - in, which is p for 0.
NegStore(S, out, in) == nn_cnd_sub(TRUE, S, out, "p", in)
fp_neg(out, in) == Returns(NegStore(Store(reg), out, in))

\* fp_sqr_redc1 is the case in1 = in2.
fp_mul_redc1(out, in1, in2) == Returns(nn_mul_redc1(Store(reg), out, in1, in2))
fp_redcify(out, in) == Returns(nn_mul_redc1(Store(reg), out, in, "r_square"))
fp_unredcify(out, in) == Returns(nn_mul_redc1(Store(reg), out, in, "one"))

\* fp_sqr is the case in1 = in2.
fp_mul(out, in1, in2) == Returns(MulStore(Store(reg), out, in1, in2))
fp_inv(out, in) == Returns(InverseStore(Store(reg), out, in))
fp_div(out, num, den) == Returns(DivStore(Store(reg), out, num, den))
fp_div_monty(out, num, den) == Returns(DivMontyStore(Store(reg), out, num, den))
fp_pow(out, base, exp) == Returns(PowStore(Store(reg), out, base, exp))

fp_iszero(in) == nn_iszero(reg[in])
fp_eq_or_opp(in1, in2) ==
  LET S == NegStore(Store(reg), "cpy", in2)
  IN  nn_equal(reg[in1], reg[in2]) \/ nn_equal(reg[in1], S.nn["cpy"])

Next ==
  \E out \in Regs :
    \/ \E v \in 0..P, n \in {PWlen, PWlen + 1} : fp_set_nn(out, v, n)
    \/ \E v \in 0..P : fp_import_from_buf(out, v)
    \/ \E v \in 0..(P - 1) : fp_get_random(out, v)
    \/ \E in \in Regs :
         \/ fp_copy(out, in)
         \/ fp_tabselect(out, in)
         \/ fp_inc(out, in)
         \/ fp_dec(out, in)
         \/ fp_neg(out, in)
         \/ fp_redcify(out, in)
         \/ fp_unredcify(out, in)
         \/ fp_inv(out, in)
         \/ \E exp \in Exponents : fp_pow(out, in, exp)
    \/ \E in1, in2 \in Regs :
         \/ fp_add(out, in1, in2)
         \/ fp_sub(out, in1, in2)
         \/ fp_mul_redc1(out, in1, in2)
         \/ fp_mul(out, in1, in2)
         \/ fp_div(out, in1, in2)
         \/ fp_div_monty(out, in1, in2)

Spec == Init /\ [][Next]_vars

-----------------------------------------------------------------------------

TypeOK ==
  /\ exited \in BOOLEAN
  /\ reg \in [Regs -> [wlen : 0..NN_MAX_WORD_LEN, val : 0..(B^NN_MAX_WORD_LEN - 1)]]

\* "our memory managment model assumes that storage arrays only contains zeros
\* past the wlen index" (nn_add.c), and no element outgrows the one word more
\* than p that Montgomery's product and the additions expect, however many
\* operations widen it.  (Inverses may have fewer words than p.)
WidthBounded ==
  \A x \in Regs :
    /\ reg[x].wlen <= PWlen + 1
    /\ reg[x].val < B^reg[x].wlen

\* An element is a residue, or p itself: never more, so that one subtraction
\* of p is enough everywhere.
ValueBounded == \A x \in Regs : Value(reg[x]) <= P

Residue(x) == Value(reg[x]) % P

\* The result S of an operation is w modulo p in out, and nothing else changed.
Gives(S, out, w) ==
  /\ S.ok
  /\ Value(S.nn[out]) % P = w % P
  /\ \A x \in Regs \ {out} : S.nn[x] = reg[x]

\* Sums, differences, successors, predecessors and opposites are those of the
\* field, whichever registers are shared and whatever widths earlier operations
\* left, and no MUST_HAVE stops them.
AdditionsCorrect ==
  \A out, in1 \in Regs :
    LET S == Store(reg) IN
    /\ \A in2 \in Regs :
         /\ Gives(nn_mod_add(S, out, in1, in2), out, Residue(in1) + Residue(in2))
         /\ Gives(nn_mod_sub(S, out, in1, in2), out, Residue(in1) - Residue(in2))
    /\ Gives(nn_mod_inc(S, out, in1), out, Residue(in1) + 1)
    /\ Gives(nn_mod_dec(S, out, in1), out, Residue(in1) - 1)
    /\ Gives(NegStore(S, out, in1), out, -Residue(in1))

\* Montgomery's product is the product divided by R, and the plain products,
\* inverses, quotients and powers are those of the field, under the same
\* conditions and for operands that are wider than p, as the fork's nn_mod_add
\* leaves them, or narrower, as its nn_modinv_odd does.  Only inverses in place
\* and inverses of zero stop the program.
\* "Thus, the nn_set_wlen operation is redundant" (nn_add.c, nn_mod_add).
ProductsCorrect ==
  \A out, in1 \in Regs :
    LET Divided(n) == CHOOSE w \in 0..(P - 1) : (w * R) % P = n % P
        Quotient(n, d) == CHOOSE w \in 0..(P - 1) : (w * d) % P = n % P
        S == Store(reg)
    IN  /\ \A in2 \in Regs :
             /\ Gives(nn_mul_redc1(S, out, in1, in2), out, Divided(Residue(in1) * Residue(in2)))
             /\ Gives(MulStore(S, out, in1, in2), out, Residue(in1) * Residue(in2))
        /\ Gives(nn_mul_redc1(S, out, in1, "r_square"), out, Residue(in1) * R)
        /\ Gives(nn_mul_redc1(S, out, in1, "one"), out, Divided(Residue(in1)))
        /\ IF Residue(in1) = 0 THEN ~DivMontyStore(S, out, out, in1).ok
           ELSE Gives(DivMontyStore(S, out, out, in1), out, Quotient(Residue(out), Residue(in1)) * R)
        /\ IF Residue(in1) = 0 \/ out = in1 THEN ~InverseStore(S, out, in1).ok
           ELSE Gives(InverseStore(S, out, in1), out, Quotient(1, Residue(in1)))
        /\ \A exp \in Exponents \ {0} :
             Gives(PowStore(S, out, in1, exp), out, Residue(in1)^exp)

\* fp_eq_or_opp tells elements that are equal or opposite in the field, even
\* when one of the two is stored as p and the other as 0.
EqOrOppCorrect ==
  \A in1, in2 \in Regs :
    fp_eq_or_opp(in1, in2) <=>
      \/ Residue(in1) = Residue(in2)
      \/ (Residue(in1) + Residue(in2)) % P = 0
=============================================================================
