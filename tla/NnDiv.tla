--------------------------------- MODULE NnDiv ---------------------------------
(***************************************************************************)
(* Division: nn/nn_div.c.  The quotient is computed word by word, each     *)
(* estimated from two words of the remainder and a reciprocal of the       *)
(* divisor and corrected at most once.                                     *)
(*                                                                         *)
(* The field ok of a result tells whether all the MUST_HAVE conditions were*)
(* met.  Loops that add, subtract or compare n words are written with the  *)
(* numbers in these words; the product that is subtracted goes word by     *)
(* word.  Outputs that are inputs too are copied in the code.              *)
(***************************************************************************)
EXTENDS NnWords

HWORD == 2^(WORD_BITS \div 2)
Double == B * B        \* numbers of two words

\* The n words of a from word shift on.
Part(a, shift, n) == (a \div B^shift) % B^n

-----------------------------------------------------------------------------
(* The reciprocal.                                                           *)

\* One digit of WORD_DIVREM, a half word: est is too large by at most 2 for
\* subtracting that many times unit from rest.
HalfDigit(est, unit, rest) ==
  LET f[j \in 0..2] ==
        IF j = 0 THEN [digit |-> est, prod |-> (est * unit) % Double]
        ELSE LET s == f[j - 1]
             IN  IF s.prod > rest
                 THEN [digit |-> (s.digit - 1) % B, prod |-> (s.prod - unit) % Double]
                 ELSE s
  IN  f[2]

HalfWordMin(w) == IF w > HWORD - 1 THEN HWORD - 1 ELSE w

\* What is left of s after the digit d of b, and whether the digit fits.
TakeDigit(s, d, unit) ==
  [q |-> ((s.q * HWORD) % B) + d.digit, r |-> s.r - d.prod,
   ok |-> s.ok /\ d.prod <= s.r /\ s.r - d.prod < unit]

NextDigit(s, b, scale) ==
  LET est == HalfWordMin(((s.r \div (HWORD * scale)) % B) \div (b \div HWORD))
  IN  TakeDigit(s, HalfDigit(est, b * scale, s.r), b * scale)

DigitsChecked(div, al, b) == [div EXCEPT !.ok = @ /\ (div.q * b + div.r) % B = al]

\* Two words by one: the high digit, then the low one.
WORD_DIVREM(ah, al, b) ==
  LET start == [q |-> 0, r |-> ah * B + al, ok |-> TRUE]
  IN  IF b < B \div 2 THEN [start EXCEPT !.ok = FALSE]
      ELSE DigitsChecked(NextDigit(NextDigit(start, b, HWORD), b, 1), al, b)

\* Faulty: the carry above the two words is dropped.
RecipOfLow_NoCarry(div, dh, dl) ==
  LET rest == (div.r * B + div.q * (B - 1 - dl)) % Double
      more == IF dl = B - 1 THEN 0 ELSE rest \div (dh * B + dl + 1)
  IN  [v |-> (div.q + more) % B, ok |-> div.ok]

\* div is the division of the high words.  The last loop counts how often the
\* divisor goes into what is left, a number of two words and a carry.
RecipOfLow(div, dh, dl) ==
  LET rest == div.r * B + div.q * (B - 1 - dl)
      more == IF dl = B - 1 THEN 0 ELSE rest \div (dh * B + dl + 1)
  IN  [v |-> (div.q + more) % B, ok |-> div.ok]

wreciprocal(dh, dl) ==
  RecipOfLow(IF dh = B - 1 THEN [q |-> 0, r |-> B - 1 - dl, ok |-> TRUE]
             ELSE WORD_DIVREM(B - 1 - dh, B - 1 - dl, dh + 1),
             dh, dl)

-----------------------------------------------------------------------------
(* Division by a normalized number.                                          *)

\* out - w * in from word shift on, and the word still to be subtracted.
nn_submul_word_shift(out, in, w, shift) ==
  LET f[i \in 0..in.wlen] ==
        IF i = 0 THEN [out |-> out, borrow |-> 0]
        ELSE LET s == f[i - 1]
                 prod == word(in, i - 1) * w + s.borrow
                 old == Part(s.out, shift + i - 1, 1)
                 new == (old - prod) % B
             IN  [out |-> s.out + (new - old) * B^(shift + i - 1),
                  borrow |-> (prod \div B) + (IF new > old THEN 1 ELSE 0)]
  IN  f[in.wlen]

\* <rh, rl> * (v + B) from its third word on, as the carries are propagated.
Estimate(rh, rl, v) ==
  LET qh == ((rl * v) \div B) + ((rh * v) % B)
      rl2 == (qh % B) + rl
  IN  (((rh * v) \div B) + (qh \div B) + ((rh + (rl2 \div B)) % B)) % B

\* Faulty: the estimate is never corrected.
Correct_Never(s, i, b, qstar, sub) ==
  [q |-> s.q + qstar * B^(i - b.wlen - 1),
   r |-> (sub.out - sub.borrow * B^(i - 1)) % B^(i - 1), ok |-> s.ok]

\* A single correction must cancel the word of index i - 1 and leave less than b.
Correct(s, i, b, qstar, sub) ==
  LET shift == i - b.wlen - 1
      r1 == sub.out - sub.borrow * B^(i - 1)
      small == Part(r1, i - 1, 1) # 0 \/ Part(r1, shift, b.wlen) >= Value(b)
      part == Part(r1, shift, b.wlen) - (IF small THEN Value(b) ELSE 0)
      borrow == IF part < 0 THEN 1 ELSE 0
  IN  [q |-> s.q + ((qstar + (IF small THEN 1 ELSE 0)) % B) * B^shift,
       r |-> (r1 % B^shift) + (part % B^b.wlen) * B^shift,
       ok |-> /\ s.ok
              /\ Part(sub.out, i - 1, 1) >= sub.borrow
              /\ Part(r1, i - 1, 1) = borrow
              /\ part % B^b.wlen < Value(b)]

\* One iteration, for the word of index i - 1 of the remainder.
QuotientWord(s, i, b, v) ==
  LET qstar == Estimate(Part(s.r, i - 1, 1), Part(s.r, i - 2, 1), v)
  IN  Correct(s, i, b, qstar, nn_submul_word_shift(s.r, b, qstar, i - b.wlen - 1))

Exited == [q |-> nn_init(0), r |-> nn_init(0), ok |-> FALSE]

QuotientWords(a, b, v) ==
  LET f[i \in Nat] == IF i = a.wlen THEN [q |-> 0, r |-> a.val, ok |-> TRUE]
                      ELSE QuotientWord(f[i + 1], i + 1, b, v)
  IN  f[b.wlen]

\* The quotient and the remainder on their words.
OnWords(last, qlen, rlen) ==
  [last EXCEPT !.q = [wlen |-> qlen, val |-> @], !.r = [wlen |-> rlen, val |-> @]]

_nn_divrem_normalized(a, b, v) ==
  IF /\ b.wlen > 0
     /\ word(b, b.wlen - 1) >= B \div 2
     /\ a.wlen > b.wlen
     /\ Part(a.val, a.wlen - b.wlen, b.wlen) < Value(b)
  THEN OnWords(QuotientWords(a, b, v), a.wlen - b.wlen, b.wlen)
  ELSE Exited

\* The division of the shifted number, larger being the top word of the quotient.
DivideReduced(reduced, larger, b_norm, v) ==
  LET top == reduced.wlen - b_norm.wlen
      div == IF top = 0 THEN [q |-> nn_init(0), r |-> reduced, ok |-> TRUE]
             ELSE _nn_divrem_normalized(reduced, b_norm, v)
  IN  [div EXCEPT !.q = [wlen |-> top + 1, val |-> @.val + larger * B^top],
                  !.ok = @ /\ Part(reduced.val, top, b_norm.wlen) < Value(b_norm)]

ShiftedBack(div, b_norm, cnt) ==
  [div EXCEPT !.r = nn_set_wlen(nn_rshift_fixedlen(@, @, cnt), b_norm.wlen)]

\* The top of a shifted like b is made smaller than b first; whether that took
\* a subtraction is the top word of the quotient.
DivideShifted(a_shift, b_norm, v, cnt) ==
  LET top == a_shift.wlen - b_norm.wlen
      larger == IF Part(a_shift.val, top, b_norm.wlen) >= Value(b_norm) THEN 1 ELSE 0
      reduced == [a_shift EXCEPT !.val = @ - larger * Value(b_norm) * B^top]
  IN  ShiftedBack(DivideReduced(reduced, larger, b_norm, v), b_norm, cnt)

_nn_divrem_unshifted(a, b_norm, v, cnt) ==
  LET new_wlen == a.wlen + BIT_LEN_WORDS(cnt)
  IN  IF new_wlen >= NN_MAX_WORD_LEN THEN Exited
      ELSE IF new_wlen < b_norm.wlen THEN [q |-> nn_init(0), r |-> a, ok |-> TRUE]
      ELSE DivideShifted(nn_lshift_fixedlen(nn_init(new_wlen), a, cnt), b_norm, v, cnt)

Remainder(div) == [r |-> div.r, ok |-> div.ok]

nn_mod_unshifted(a, b_norm, v, cnt) == Remainder(_nn_divrem_unshifted(a, b_norm, v, cnt))

-----------------------------------------------------------------------------
(* Division by any number.                                                   *)

DivideByReciprocal(a, b_normalized, recip, cnt) ==
  IF recip.ok THEN _nn_divrem_unshifted(a, b_normalized, recip.v, cnt) ELSE Exited

\* The reciprocal is the one of the two top words.
DivideNormalized(a, b_normalized, cnt) ==
  LET n == b_normalized.wlen
  IN  DivideByReciprocal(a, b_normalized,
        wreciprocal(word(b_normalized, n - 1), word(b_normalized, n - 2)), cnt)

NormalizedBy(a, b, cnt) ==
  DivideNormalized(a, nn_lshift_fixedlen(nn_init(b.wlen), b, cnt), cnt)

\* A divisor of one word is given a second one.
_nn_divrem(a, b) ==
  LET wide == IF b.wlen = 1 THEN nn_set_wlen(b, 2) ELSE b
  IN  IF nn_iszero(b) THEN Exited ELSE NormalizedBy(a, wide, nn_clz(wide))

nn_divrem(a, b) ==
  [_nn_divrem(a, b) EXCEPT !.q = nn_normalize(@), !.r = nn_normalize(@)]

nn_mod(a, b) == Remainder(nn_divrem(a, b))

\* A number of at least two words.
TwoWords(p) == IF p.wlen < 2 THEN nn_set_wlen(p, 2) ELSE p

ReciprocalOfTop(top) == wreciprocal(Part(top.val, 1, 1), Part(top.val, 0, 1))

DivCoefs(p_normalized, p_shift, recip) ==
  [p_normalized |-> p_normalized, p_shift |-> p_shift, p_reciprocal |-> recip.v, ok |-> recip.ok]

NormalizedCoefs(p_normalized, p_shift, rounded) ==
  DivCoefs(p_normalized, p_shift,
           ReciprocalOfTop(nn_rshift(nn_init(0), p_normalized, rounded - 2 * WORD_BITS)))

\* What fp_ctx_init_from_p computes once for a prime.
nn_compute_div_coefs(p_in) ==
  LET p == TwoWords(p_in)
      rounded == WORD_BITS * p.wlen
      p_shift == rounded - nn_bitlen(p)
  IN  NormalizedCoefs(nn_lshift(nn_init(0), p, p_shift), p_shift, rounded)

-----------------------------------------------------------------------------
(* Euclid's algorithm.                                                       *)

\* One half of the loop: c becomes c mod d, and the coefficients v1 and v2 get q
\* times the ones of d: a = u1 c + v1 d and b = u2 c + v2 d throughout.  (The code
\* writes the two halves out with the names exchanged; swap tells which is next.)
EuclidStep(s, div) ==
  [s EXCEPT !.c = s.d, !.d = div.r,
            !.u1 = div.q.val * s.u1 + s.v1, !.v1 = s.u1,
            !.u2 = div.q.val * s.u2 + s.v2, !.v2 = s.u2,
            !.swap = ~s.swap, !.ok = @ /\ div.ok]

RECURSIVE EuclidLoop(_)
EuclidLoop(s) ==
  IF nn_iszero(s.d) \/ ~s.ok
  THEN [g |-> s.c, u |-> s.v2, v |-> s.v1, sign |-> IF s.swap THEN -1 ELSE 1, ok |-> s.ok]
  ELSE EuclidLoop(EuclidStep(s, nn_divrem(s.c, s.d)))

\* For a >= b: g = u a - v b if sign is 1, g = v b - u a if it is -1.
_nn_xgcd(a, b) ==
  EuclidLoop([c |-> a, d |-> b, u1 |-> 1, v1 |-> 0, u2 |-> 0, v2 |-> 1,
              swap |-> FALSE, ok |-> TRUE])

\* Faulty: the sign is not changed with the order.
Exchanged_Sign(x) == [x EXCEPT !.u = x.v, !.v = x.u]

Exchanged(x) == [x EXCEPT !.u = x.v, !.v = x.u, !.sign = -x.sign]

nn_xgcd(a, b) ==
  IF Value(a) >= Value(b) THEN _nn_xgcd(a, b) ELSE Exchanged(_nn_xgcd(b, a))

Divisor(x) == [g |-> x.g, ok |-> x.ok]
nn_gcd(a, b) == Divisor(nn_xgcd(a, b))
=============================================================================
