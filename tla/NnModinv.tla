-------------------------------- MODULE NnModinv --------------------------------
(***************************************************************************)
(* Inverses: nn/nn_modinv.c, and the constants of Montgomery's product that*)
(* nn_compute_redc1_coefs of nn/nn_mul_redc1.c computes with them.         *)
(***************************************************************************)
EXTENDS NnDiv

\* The number v with no more words than it needs.
Normalized(v) ==
  nn_normalize([wlen |-> NN_MAX_WORD_LEN, val |-> v])

-----------------------------------------------------------------------------
(* Modulo an odd number: binary Euclid.                                      *)

\* Faulty: uu is not exchanged with u.
BinaryStep_NoSwap(s, m) ==
  LET odd == s.a % 2 = 1
      a == IF odd THEN (IF s.a < s.b THEN s.b - s.a ELSE s.a - s.b) ELSE s.a
      u == IF odd THEN (IF s.u < s.uu THEN s.u + m - s.uu ELSE s.u - s.uu) ELSE s.u
  IN  [s EXCEPT !.a = a \div 2,
                !.b = IF odd /\ s.a < s.b THEN s.a ELSE s.b,
                !.u = (u \div 2) + (IF u % 2 = 1 THEN (m \div 2) + 1 ELSE 0)]

\* a = u x and b = uu x modulo m, and b is odd.  An odd a is replaced by the
\* difference and b by the smaller of the two; then a is halved, and u with it.
BinaryStep(s, m) ==
  LET odd == s.a % 2 = 1
      t == IF odd /\ s.a < s.b THEN [s EXCEPT !.a = s.b, !.b = s.a, !.u = s.uu, !.uu = s.u]
           ELSE s
      a == IF odd THEN t.a - t.b ELSE t.a
      u == IF ~odd THEN t.u ELSE IF t.u < t.uu THEN t.u + (m - t.uu) ELSE t.u - t.uu
      half == (u \div 2) + (IF u % 2 = 1 THEN (m \div 2) + 1 ELSE 0)
  IN  [t EXCEPT !.a = a \div 2, !.u = half,
                !.ok = @ /\ s.b % 2 = 1 /\ a % 2 = 0 /\ half < m /\ t.uu < m]

RECURSIVE BinaryLoop(_, _, _)
BinaryLoop(s, m, cnt) ==
  IF cnt = 0 THEN s
  ELSE LET t == BinaryStep(s, m)
       IN  IF t.a = 0 \/ ~t.ok THEN t ELSE BinaryLoop(t, m, cnt - 1)

NoInverse(ok) == [ret |-> 0, out |-> nn_init(0), ok |-> ok]

\* The loop has ended with the greatest common divisor in b.
OddInverse(s) ==
  LET ret == IF s.b = 1 THEN 1 ELSE 0
  IN  [ret |-> ret, out |-> Normalized(ret * s.uu), ok |-> s.ok /\ s.a = 0]

nn_modinv_odd(x, m) ==
  IF nn_isodd(m) /\ Value(x) < Value(m) /\ ~nn_iszero(x)
  THEN OddInverse(BinaryLoop([a |-> Value(x), b |-> Value(m), u |-> 1, uu |-> 0, ok |-> TRUE],
                             Value(m), 2 * m.wlen * WORD_BITS))
  ELSE NoInverse(FALSE)

ModinvReduced(x_mod_m, m) ==
  IF x_mod_m.ok THEN nn_modinv_odd(x_mod_m.r, m) ELSE NoInverse(FALSE)

\* The coefficient of x modulo m, with its sign.
SignedInverse(u, sign, m) ==
  [ret |-> 1, ok |-> u.ok,
   out |-> Normalized(IF sign = -1 THEN Value(m) - Value(u.r) ELSE Value(u.r))]

\* x is odd and m is even: the extended Euclid's coefficient of x.
ModinvEven(e, m) ==
  IF ~e.ok THEN NoInverse(FALSE)
  ELSE IF Value(e.g) # 1 THEN NoInverse(TRUE)
  ELSE SignedInverse(nn_mod(Normalized(e.u), m), e.sign, m)

nn_modinv(x, m) ==
  CASE nn_isodd(m) /\ Value(x) < Value(m) -> nn_modinv_odd(x, m)
    [] nn_isodd(m) /\ Value(x) >= Value(m) -> ModinvReduced(nn_mod(x, m), m)
    [] ~nn_isodd(m) /\ ~nn_isodd(x) -> NoInverse(TRUE)
    [] ~nn_isodd(m) /\ nn_isodd(x) -> ModinvEven(nn_xgcd(x, m), m)

-----------------------------------------------------------------------------
(* Modulo a power of two: Hensel lifting.                                    *)

\* A - B modulo 2^(the bits of A), with a word above A against the borrow.
nn_sub_mod_2exp(A, b) == (A.val + B^A.wlen - b.val) % B^A.wlen

\* out on n words becomes 2 out - out^2 x, its precision doubles.
HenselStep(out, x, n) ==
  LET o == nn_set_wlen(out, n)
      tmp_mul == nn_mul_low(nn_mul_low(o, o, n), x, n)
  IN  [wlen |-> n, val |-> nn_sub_mod_2exp(nn_lshift_fixedlen(o, o, 1), tmp_mul)]

\* cnt bits are right: in one word up to its size, then doubling the words.
RECURSIVE HenselLoop(_, _, _, _)
HenselLoop(out, x, cnt, exp) ==
  IF cnt < WORD_BITS /\ cnt < exp
  THEN HenselLoop(HenselStep(out, x, 1), x, 2 * cnt, exp)
  ELSE IF cnt < (exp + 1) \div 2
  THEN HenselLoop(HenselStep(out, x, 2 * out.wlen), x, 2 * cnt, exp)
  ELSE out

\* Numbers of more than one word take a last step to all their words.
Completed(out, x, exp) ==
  IF exp > WORD_BITS THEN HenselStep(out, x, BIT_LEN_WORDS(exp)) ELSE out

\* exp is not 0: the last line of the code would mask the word before the first.
nn_modinv_2exp(x, exp) ==
  IF nn_isodd(x)
  THEN [ret |-> 1, out |-> [Completed(HenselLoop(nn_one, x, 1, exp), x, exp)
                              EXCEPT !.val = @ % 2^exp]]
  ELSE [ret |-> 0, out |-> nn_init(0)]

-----------------------------------------------------------------------------

\* Faulty: the inverse is not negated.
RedcCoefs_Positive(r, r_square, inverse) ==
  [r |-> r.r, r_square |-> r_square.r, mpinv |-> inverse, ok |-> r.ok /\ r_square.ok]

\* mpinv is the opposite of the inverse of p.
RedcCoefs(r, r_square, inverse) ==
  [r |-> r.r, r_square |-> r_square.r, mpinv |-> (B - inverse) % B, ok |-> r.ok /\ r_square.ok]

SquareModulo(p, r) ==
  RedcCoefs(r, nn_mod(nn_mul(r.r, r.r), p), nn_modinv_2exp(p, WORD_BITS).out.val)

\* r is 2^rounded modulo p.
nn_compute_redc1_coefs(p_in) ==
  LET p == TwoWords(p_in)
      rounded == WORD_BITS * p.wlen
      coefs == SquareModulo(p, nn_mod(nn_lshift(nn_one, nn_one, rounded), p))
  IN  [coefs EXCEPT !.ok = @ /\ NN_MAX_WORD_LEN * WORD_BITS >= 2 * rounded]
=============================================================================
