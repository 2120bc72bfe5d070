-------------------------------- MODULE NnArith --------------------------------
(***************************************************************************)
(* A program that calls the functions of NnWords, NnDiv and NnModinv on two*)
(* numbers a and b, in any order, the outputs replacing the inputs.  The   *)
(* invariants say what every function would return for the numbers that    *)
(* the calls so far have left, of whatever lengths.                        *)
(***************************************************************************)
EXTENDS NnModinv

CONSTANTS
  Loads,     (* Bound on the numbers that are imported: nn's.              *)
  MaxWlen,   (* Bound on the length of the numbers.                        *)
  MaxCalls,  (* Bound on the calls.                                        *)
  Counts     (* Bound on the shift counts.                                 *)

ASSUME ArithAssumption ==
  /\ MaxWlen \in Nat /\ 2 * MaxWlen < NN_MAX_WORD_LEN
  /\ \A load \in Loads : load.wlen \in 0..MaxWlen /\ load.val \in 0..(B^load.wlen - 1)
  /\ MaxCalls \in Nat /\ Counts \subseteq Nat

VARIABLES
  a, b,    (* The numbers.                                                 *)
  calls,   (* How many calls have been made on them.                       *)
  exited   (* A MUST_HAVE has stopped the program.                         *)

vars == <<a, b, calls, exited>>

\* nn_init_from_buf: buffers of a whole number of words.
Init ==
  /\ a \in Loads /\ b \in Loads
  /\ calls = 0
  /\ exited = FALSE

Calls(ok, newa, newb) ==
  /\ ~exited /\ calls < MaxCalls
  /\ newa.wlen <= MaxWlen /\ newb.wlen <= MaxWlen
  /\ calls' = calls + 1
  /\ IF ok THEN a' = newa /\ b' = newb /\ UNCHANGED exited
     ELSE exited' = TRUE /\ UNCHANGED <<a, b>>

\* What becomes of the numbers, by the outcome of the call.
Divided(div) == Calls(div.ok, div.q, div.r)
Reduced(mod) == Calls(mod.ok, mod.r, b)
Common(gcd) == Calls(gcd.ok, gcd.g, b)
Inverted(inv) == Calls(inv.ok, inv.out, b)

Next ==
  \/ \E cnt \in Counts :
       \/ Calls(TRUE, nn_lshift(a, a, cnt), b)
       \/ Calls(TRUE, nn_rshift(a, a, cnt), b)
       \/ Calls(TRUE, nn_rshift(nn_init(0), b, cnt), b)
       \/ Calls(TRUE, nn_lshift_fixedlen(a, b, cnt), b)
       \/ Calls(TRUE, nn_rshift_fixedlen(a, b, cnt), b)
       \/ \E bitlen \in Counts :
            /\ bitlen > cnt
            /\ \/ Calls(TRUE, nn_rrot(a, cnt, bitlen), b)
               \/ Calls(TRUE, nn_lrot(a, cnt, bitlen), b)
  \/ Calls(TRUE, nn_xor(a, b), b)
  \/ Calls(TRUE, nn_or(a, b), b)
  \/ Calls(TRUE, nn_and(a, b), b)
  \/ Calls(TRUE, nn_not(a), b)
  \/ Calls(TRUE, nn_normalize(a), b)
  \/ Calls(a.wlen + b.wlen <= NN_MAX_WORD_LEN, nn_mul(a, b), b)
  \/ Divided(nn_divrem(a, b))
  \/ Reduced(nn_mod(a, b))
  \/ Common(nn_gcd(a, b))
  \/ Inverted(nn_modinv(a, b))
  \/ \E exp \in Counts \ {0} : Calls(TRUE, nn_modinv_2exp(a, exp).out, b)

Spec == Init /\ [][Next]_vars

-----------------------------------------------------------------------------

\* The words of the storage past the length are zero, whatever was called
\* before ("our memory managment model assumes that storage arrays only
\* contains zeros past the wlen index", nn/nn_add.c).
TypeOK ==
  /\ \A n \in {a, b} : n.wlen \in 0..NN_MAX_WORD_LEN /\ n.val \in 0..(B^n.wlen - 1)
  /\ calls \in 0..MaxCalls /\ exited \in BOOLEAN

\* Shifts multiply and divide by powers of 2 on the words they have, rotations
\* rotate numbers of bitlen bits, and nn_bitlen and nn_clz measure what is
\* left, across the borders of words.
ShiftsCorrect ==
  /\ nn_bitlen(a) + nn_clz(a) = a.wlen * WORD_BITS
  /\ Value(a) < 2^nn_bitlen(a) /\ (Value(a) # 0 => Value(a) >= 2^(nn_bitlen(a) - 1))
  /\ \A cnt \in Counts :
       /\ Value(nn_lshift(nn_init(0), a, cnt)) = (Value(a) * 2^cnt) % B^NN_MAX_WORD_LEN
       /\ Value(nn_rshift(nn_init(0), a, cnt)) = Value(a) \div 2^cnt
       /\ Value(nn_lshift_fixedlen(b, a, cnt)) = (Value(a) * 2^cnt) % B^b.wlen
       /\ Value(nn_rshift_fixedlen(b, a, cnt)) = (Value(a) \div 2^cnt) % B^b.wlen
       /\ \A bitlen \in Counts :
            (cnt < bitlen /\ Value(a) < 2^bitlen) =>
              /\ \A i \in 0..(bitlen - 1) :
                   nn_getbit(nn_rrot(a, cnt, bitlen), i) = nn_getbit(a, (i + cnt) % bitlen)
              /\ nn_lrot(nn_rrot(a, cnt, bitlen), cnt, bitlen).val = Value(a)

\* The product on wlimit words is the product modulo B^wlimit: no carry gets
\* lost between the rows.
ProductsCorrect ==
  \A wlimit \in 0..NN_MAX_WORD_LEN :
    nn_mul_low(a, b, wlimit).val = (Value(a) * Value(b)) % B^wlimit

\* The reciprocal is floor(B^3 / (d + 1)) - B for the two words d, as the
\* quotient words are estimated with.
ReciprocalCorrect ==
  (b.wlen = 2 /\ Value(b) >= Double \div 2) =>
    LET recip == wreciprocal(word(b, 1), word(b, 0))
    IN  recip.ok /\ recip.v = (B^3 \div (Value(b) + 1)) - B

\* The division by a number that is not zero ends with quotient and remainder
\* and meets every MUST_HAVE of its quotient words, with lengths, leading
\* zeros and tops of all kinds.
Divides(div) ==
  /\ div.ok
  /\ Value(a) = Value(div.q) * Value(b) + Value(div.r)
  /\ Value(div.r) < Value(b)

DivisionCorrect == ~nn_iszero(b) => Divides(nn_divrem(a, b))

\* The constants that are computed once for a prime make nn_mod_unshifted the
\* remainder, and they are the ones of Montgomery's product.
Reduces(div) ==
  LET mod == nn_mod_unshifted(a, div.p_normalized, div.p_reciprocal, div.p_shift)
  IN  div.ok /\ mod.ok /\ Value(mod.r) = Value(a) % Value(b)

IsMontgomery(redc, R) ==
  /\ redc.ok
  /\ Value(redc.r) = R % Value(b)
  /\ Value(redc.r_square) = (R * R) % Value(b)
  /\ (redc.mpinv * Value(b) + 1) % B = 0

CoefsCorrect ==
  LET n == IF b.wlen < 2 THEN 2 ELSE b.wlen
  IN  (nn_isodd(b) /\ Value(b) > 1 /\ 3 * n < NN_MAX_WORD_LEN) =>
        Reduces(nn_compute_div_coefs(b)) /\ IsMontgomery(nn_compute_redc1_coefs(b), B^n)

\* The greatest common divisor is the combination of the two numbers that the
\* coefficients and the sign say.
Combines(e) ==
  /\ e.ok
  /\ Value(e.g) = e.sign * (e.u * Value(a) - e.v * Value(b))
  /\ Value(e.g) = 0 => nn_iszero(a) /\ nn_iszero(b)
  /\ Value(e.g) # 0 => Value(a) % Value(e.g) = 0 /\ Value(b) % Value(e.g) = 0

GcdCorrect == Combines(nn_xgcd(a, b))

\* nn_modinv returns the inverse where there is one, and 0 where there is none,
\* except that it stops the program if an odd modulus divides x; nn_modinv_2exp
\* lifts the inverse of an odd number to any number of bits.
IsInverse(inv) ==
  /\ inv.ok <=> ~(nn_isodd(b) /\ Value(a) % Value(b) = 0)
  /\ inv.ok =>
       /\ Value(inv.out) < Value(b)
       /\ inv.ret = 1 <=> Value(nn_gcd(a, b).g) = 1
       /\ IF inv.ret = 1 THEN (Value(inv.out) * Value(a)) % Value(b) = 1
          ELSE Value(inv.out) = 0

IsLifted(lifted, exp) ==
  /\ lifted.ret = 1 <=> nn_isodd(a)
  /\ lifted.ret = 1 =>
       (lifted.out.val * Value(a)) % 2^exp = 1 /\ lifted.out.val < 2^exp

InverseCorrect ==
  /\ \A exp \in Counts \ {0} : IsLifted(nn_modinv_2exp(a, exp), exp)
  /\ ~nn_iszero(b) => IsInverse(nn_modinv(a, b))
=============================================================================
