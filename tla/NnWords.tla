-------------------------------- MODULE NnWords --------------------------------
(***************************************************************************)
(* Multiprecision numbers: the shifts and the bits of nn/nn_logical.c and  *)
(* the schoolbook product of nn/nn_mul.c, word by word, with what they use *)
(* of nn/nn.c and words/words.h.                                           *)
(*                                                                         *)
(* As in Fp, an nn is its number of words wlen and val, the number that all*)
(* the words of its storage form.  A shift in place reads a word before it *)
(* overwrites it, so its result is that of a shift into another number.    *)
(***************************************************************************)
EXTENDS Integers, Sequences, Bitwise

CONSTANTS
  WORD_BITS,        (* WORDSIZE.                                           *)
  ClzBits,          (* The width wclz is written for: 64 in the code.      *)
  NN_MAX_WORD_LEN   (* Words of storage of an nn.                          *)

B == 2^WORD_BITS
Words == 0..(B - 1)

ASSUME WordsAssumption ==
  /\ WORD_BITS \in Nat /\ WORD_BITS > 0 /\ WORD_BITS % 2 = 0
  /\ ClzBits \in {WORD_BITS, 2 * WORD_BITS}
  /\ NN_MAX_WORD_LEN \in Nat /\ NN_MAX_WORD_LEN >= 2

(***************************************************************************)
(* nn.c and words.h.                                                       *)
(***************************************************************************)

BIT_LEN_WORDS(bits) == (bits + WORD_BITS - 1) \div WORD_BITS

Value(a) == a.val % B^a.wlen
word(a, i) == IF i \in 0..(a.wlen - 1) THEN (a.val \div B^i) % B ELSE 0

\* The number whose words are w[0], .. w[n - 1].
FromWords(n, w) ==
  LET f[i \in 0..n] == IF i = 0 THEN 0 ELSE f[i - 1] + w[i - 1] * B^(i - 1)
  IN  f[n]

\* a with the number formed by its words replaced; those past wlen stay.
WithValue(a, v) == [a EXCEPT !.val = v + (@ - (@ % B^a.wlen))]

nn_init(wlen) == [wlen |-> wlen, val |-> 0]
nn_set_word_value(w) == [wlen |-> 1, val |-> w]
nn_one == nn_set_word_value(1)

\* Words are cleared only when the length changes.
nn_set_wlen(a, n) == IF a.wlen = n THEN a ELSE [wlen |-> n, val |-> a.val % B^n]

nn_normalize(a) ==
  [a EXCEPT !.wlen = CHOOSE n \in 0..a.wlen :
                       /\ \A i \in n..(a.wlen - 1) : word(a, i) = 0
                       /\ n = 0 \/ word(a, n - 1) # 0]

nn_iszero(a) == Value(a) = 0
nn_isodd(a) == a.wlen # 0 /\ a.val % 2 = 1

WLSHIFT(w, c) == IF c >= WORD_BITS THEN 0 ELSE (w * 2^c) % B
WRSHIFT(w, c) == IF c >= WORD_BITS THEN 0 ELSE w \div 2^c

(***************************************************************************)
(* nn_logical.c: bits.                                                     *)
(***************************************************************************)

\* For h the half of ClzBits, its quarter, .. and 1: a word with h leading zeros
\* is shifted by them.  If ClzBits is not WORD_BITS, C does not define the first
\* shift, but all words are below all thresholds.
wclz(A) ==
  LET f[h \in 1..ClzBits] ==
        IF h = ClzBits THEN [c |-> 0, A |-> A]
        ELSE LET s == f[2 * h]
             IN  IF s.A >= 2^(ClzBits - h) THEN s ELSE [c |-> s.c + h, A |-> (s.A * 2^h) % B]
  IN  IF A = 0 THEN ClzBits ELSE f[1].c

nn_clz(a) ==
  LET n == nn_normalize(a).wlen
  IN  (a.wlen - n) * WORD_BITS + (IF n = 0 THEN 0 ELSE wclz(word(a, n - 1)))

nn_bitlen(a) ==
  LET n == nn_normalize(a).wlen
  IN  IF n = 0 THEN 0 ELSE n * WORD_BITS - wclz(word(a, n - 1))

nn_getbit(a, bit) == (word(a, bit \div WORD_BITS) \div 2^(bit % WORD_BITS)) % 2

(***************************************************************************)
(* nn_logical.c: shifts and rotations.                                     *)
(***************************************************************************)

\* The n low words of a shifted, each made of the parts of two words, which do
\* not overlap.
LeftShifted(a, cnt, n) ==
  LET dec == cnt \div WORD_BITS
      hshift == cnt % WORD_BITS
  IN  FromWords(n, [i \in 0..(n - 1) |->
        WLSHIFT(word(a, i - dec), hshift) + WRSHIFT(word(a, i - dec - 1), WORD_BITS - hshift)])

\* Faulty: the part of the neighbour is left out.
RightShifted_OnePart(a, cnt, n) ==
  FromWords(n, [i \in 0..(n - 1) |->
    WRSHIFT(word(a, i + (cnt \div WORD_BITS)), cnt % WORD_BITS)])

RightShifted(a, cnt, n) ==
  LET dec == cnt \div WORD_BITS
      lshift == cnt % WORD_BITS
  IN  FromWords(n, [i \in 0..(n - 1) |->
        WRSHIFT(word(a, i + dec), lshift) + WLSHIFT(word(a, i + dec + 1), WORD_BITS - lshift)])

\* What is shifted above the words of out is lost.
nn_lshift_fixedlen(out, in, cnt) == WithValue(out, LeftShifted(in, cnt, out.wlen))
nn_rshift_fixedlen(out, in, cnt) == WithValue(out, RightShifted(in, cnt, out.wlen))

\* out is in itself, or nn_init(0).  Its words past the new length stay.
nn_lshift(out, in, cnt) ==
  LET needed == BIT_LEN_WORDS(cnt + nn_bitlen(in))
      owlen == IF needed < NN_MAX_WORD_LEN THEN needed ELSE NN_MAX_WORD_LEN
  IN  WithValue([out EXCEPT !.wlen = owlen], LeftShifted(in, cnt, owlen))

\* Faulty: the words past the new length stay.
nn_rshift_Unclean(out, in, cnt) ==
  LET bitlen == nn_bitlen(in)
      owlen == IF cnt > bitlen THEN 0 ELSE BIT_LEN_WORDS(bitlen - cnt)
  IN  WithValue([out EXCEPT !.wlen = owlen], RightShifted(in, cnt, owlen))

\* Its words past the new length are cleared.
nn_rshift(out, in, cnt) ==
  LET bitlen == nn_bitlen(in)
      owlen == IF cnt > bitlen THEN 0 ELSE BIT_LEN_WORDS(bitlen - cnt)
  IN  [wlen |-> owlen, val |-> RightShifted(in, cnt, owlen)]

\* The words of the longer number are read in both.
Bitwise2(op(_, _), a, b) ==
  LET n == IF a.wlen < b.wlen THEN b.wlen ELSE a.wlen
  IN  [wlen |-> n, val |-> op(a.val % B^n, b.val % B^n)]

nn_xor(a, b) == Bitwise2(LAMBDA v, w : v ^^ w, a, b)
nn_or(a, b) == Bitwise2(LAMBDA v, w : v | w, a, b)
nn_and(a, b) == Bitwise2(LAMBDA v, w : v & w, a, b)
nn_not(a) == [wlen |-> a.wlen, val |-> B^a.wlen - 1 - Value(a)]

\* The shift to the left by lcnt and the one to the right by rcnt together,
\* cut to bitlen bits.
Rotated(in, lcnt, rcnt, bitlen) ==
  LET owlen == BIT_LEN_WORDS(bitlen)
      tmp == nn_set_wlen(nn_lshift(nn_init(0), in, lcnt), owlen)
      out == nn_xor(nn_set_wlen(nn_rshift(nn_init(0), in, rcnt), owlen), tmp)
  IN  [out EXCEPT !.val = @ % 2^bitlen]

nn_rrot(in, cnt, bitlen) == Rotated(in, bitlen - cnt, cnt, bitlen)
nn_lrot(in, cnt, bitlen) == Rotated(in, cnt, bitlen - cnt, bitlen)

(***************************************************************************)
(* nn_mul.c: the product on wlimit words.                                  *)
(***************************************************************************)

\* Faulty: the carry out of the row is dropped.
AddRow_NoCarry(out, x, in2, i, wlimit) ==
  LET n == i + in2.wlen
      sum == out + x * Value(in2) * B^i
  IN  (IF n >= wlimit THEN sum ELSE (out - (out % B^n)) + (sum % B^n)) % B^wlimit

\* The inner loop adds word x times in2 at word i of out.  The carry of the last
\* word that was added goes to the word after the last one of in2.
AddRow(out, x, in2, i, wlimit) ==
  LET f[j \in 0..in2.wlen] ==
        IF j = 0 THEN [out |-> out, carry |-> 0]
        ELSE LET pos == i + j - 1
                 prod == x * word(in2, j - 1) + f[j - 1].carry
                 sum == ((f[j - 1].out \div B^pos) % B) + (prod % B)
             IN  IF pos >= wlimit THEN f[j - 1]
                 ELSE [out |-> f[j - 1].out + (prod % B) * B^pos - (sum \div B) * B^(pos + 1),
                       carry |-> ((prod \div B) + (sum \div B)) % B]
      top == IF in2.wlen = 0 THEN 1 ELSE i + in2.wlen
      last == f[in2.wlen]
      sum == ((last.out \div B^top) % B) + last.carry
  IN  IF top >= wlimit THEN last.out
      ELSE last.out + last.carry * B^top - (sum \div B) * B^(top + 1)

nn_mul_low(in1, in2, wlimit) ==
  LET f[i \in 0..in1.wlen] ==
        IF i = 0 THEN 0 ELSE AddRow(f[i - 1], word(in1, i - 1), in2, i - 1, wlimit)
  IN  [wlen |-> wlimit, val |-> f[in1.wlen]]

\* nn_sqr is the product of a number with itself.
nn_mul(in1, in2) == nn_mul_low(in1, in2, in1.wlen + in2.wlen)
nn_mul_word(in, w) == nn_mul(in, nn_set_word_value(w))
=============================================================================
