# A verification project for libecc

libecc is a C library for elliptic curve signatures. This directory holds TLA+
modules translated from its source, configurations that check them on small
instances with TLC, and theorems about them proved with TLAPS. Paths below are
those of the repository, from its `src/` directory on.

## The system

The library is sequential: no threads, no allocation, no persistent state. Its
layers call downwards only, every object belongs to its caller, and a broken
precondition (`MUST_HAVE`) stops the program. What is hard in it is not
interleaving but long sequences of legal calls, shared arguments, restarts that
tests never reach, and carries, widths and boundaries of numbers.

| component | state it keeps | operations | hard behaviour | what makes it correct |
|---|---|---|---|---|
| words, nn (`src/nn`) | `nn`: a fixed array of words, the number `wlen` of those in use, a magic number | add, subtract, compare, shift, rotate, multiply, divide, gcd, invert, Montgomery product, random numbers | any argument may be the output; words past `wlen` are read; the fork removed the calls that restored `wlen`; estimated quotient words; constants of one word size | storage is 0 past `wlen`, widths are bounded, the results are those of arithmetic |
| fp (`src/fp`) | `fp`: an `nn` and its context (p, Montgomery constants) | import, copy, select, add, sub, inc, dec, neg, Montgomery product, to and from Montgomery form, inverse, power | the same; operands up to one word wider than p | elements stay at most p, every operation is that of the field |
| curves (`src/curves`) | projective points: three `fp` and the curve | complete addition and doubling, conversion, on-curve test, masked ladder, masked Double and Add Always, blinded multiplication, wNAF double multiplication | masks move the registers at each step; the scalar is first given a fixed length; infinity | the multiple asked for, in a number of steps that leaks nothing |
| signatures (`src/sig`) | `ec_sign_context`, `ec_verify_context` (magic, hash state, r and s) | init, update, finalize, for seven schemes | restarts with used locals, a random source that fails or never changes, blinding, contexts used after their end | what the signer returns is a signature, the verifier accepts exactly those |
| keys (`src/sig/ec_key.c`) | key pairs with a type and a magic | generate, import, export, plain and structured | partly initialised pairs, refused imports over keys that were set, keys that no import checks | a public key belongs to its private key |
| hash (`src/hash`) | running state, block buffer, total length | init, update, final | cutting of the message, padding at the end of a block | the digest does not depend on how the message was cut |
| curve tables, print, tests, examples | none | | | |

Calls: `sig` calls `hash` through function pointers, `curves` for points and
`nn` for numbers modulo q; `curves` calls `fp`, `fp` calls `nn`. The random
source (`external_deps/rand.c`) is called by `nn_rand.c`. In this repository it
returns the same bytes at every call on Unix and leaves the buffer untouched in
the WITH_CKB build; the models keep both that and a varying, failing source.

The hazards, each at its line, are in `PROJECT.json`.

## Modules

### ScalarMul, PointMul: masked scalar multiplication

`ScalarMul` models `_prj_pt_mul_ltr_monty_ladder` and
`_prj_pt_mul_ltr_monty_dbl_add_always` with their entry points
`prj_pt_mul_monty` and `prj_pt_mul_monty_blind`; the same loops with other field
functions are in `prj_pt.c`. A point the functions handle is a multiple of the
input, represented by the integer multiplier, so the formulas are addition and
doubling of integers; two integers are the same point iff congruent modulo the order
of the input. `build` says which loop is compiled, and with which formulas: without
the complete ones an addition into its second operand loses that operand when the
first is at infinity (`prj_pt_add_monty`; the ladder adds in this way, Double and Add
Always does not). The complete formulas are used for points of odd order only. The
other variables are the locals of the functions:
the scalar, its form with fixed top bit (`mfix`), the bits left (`mlen`), the
current mask bit (`rbit`; the masking random is chosen bit by bit when read),
the registers `T`. One action is one iteration; `Prologue` and `Epilogue` are
what stands before and after the loop, `RandomFails` and `InputCheckExits` the
ways the prologue stops the program. The projective mask l does not change the
point and is left out.

`PointMul` is the promise: one step from a request to the residue of the scalar
modulo the order. `ImplementsPointMul` is the refinement.

### Fp: field elements down to their words

`Fp` models the functions of the files in `fp/` on a set of registers, with
`nn_add.c`, the parts of `nn.c` they use, the Montgomery product of
`nn_mul_redc1.c` and the inversion of `nn_modinv.c`. An `nn` is its `wlen` and
the number that all its storage forms. Every function works on a store
(registers, constants and local variables) in the order of the code, so aliasing
is not a special case. The carries of the Montgomery loop are kept where the
code keeps them: `RedcIteration` has the first inner loop, which runs to the
longer of p and the second operand, and the second one, which runs to p only.
Word loops are sums with carry: `% B^n` is what stays and `\div B^n` what is
carried. The words of plain products and of their division by p are those of
`NnWords` and `NnDiv`; `Fp` has their lengths. Inputs of `fp_set_nn` and
`fp_import_from_buf` go up to p, one more than is legal, so that their
`MUST_HAVE` fires.

This fork has removed the calls of `nn_set_wlen` from `nn_mod_add`, `nn_mod_sub`
and `nn_modinv_odd`. Sums are therefore up to one word wider than p and inverses
may have fewer words; `WidthBounded` says how far this goes and the other
properties that no later operation minds. `fp_inv(x, x)` stops the program, since
`nn_modinv` clears its output before it reads its input; no caller does it.

### SigContext, the schemes, Keys, Signatures: keys and signatures

`SigContext` holds what the seven schemes share: the variables (key pair, signer,
signature, verifier), the contexts opened, fed, finalised and wiped, refusals,
and the `MUST_HAVE` exits of `sig_algs.c`. One module for each source file adds
its scheme: `Ecdsa`, `Ecgdsa`, `Eckcdsa`, `Ecfsdsa`, `Ecsdsa` (with EC-OSDSA)
and `Ecrdsa`. Their names are those of the code: `_ecdsa_sign_finalize` is the
function up to the label `restart`, `EcdsaAttempt` one pass from there to the
next `goto restart` or the end, in the order of the code: what is drawn, which
tests come before and after a value is blinded, cleared or finalised. The
schemes that draw k in init have no attempts and return an error instead.
Points are their discrete logarithms, the parameter `Curves` gives their
abscissas, and `Hash` is the hash function of a prefix and a message, for the
n-th time the same hash context is finalized. Multiplications are exact, so the ladder
without complete formulas is not among the builds here. `prj_pt_ec_mult_wnaf` is the sum
it computes, and its exit at infinity. `of`, `redo` and `pair` only record
history for the properties.

`Keys` adds `ec_key.c`: a pair is generated or imported, whole or in halves, plain
or structured, over whatever earlier calls have left in it. A call may fail
before, between or after the two halves are written (`init_pubkey_from_privkey`
returns 0 even if the mask could not be drawn, a refused point leaves a public
key without a point), and each outcome of the code is an outcome here.
Structured keys carry kind, algorithm and curve; curves are looked up as in
`curves.c`.

`Signatures` composes all of it: Init, Next, and what a valid signature of each
scheme is, stated apart from the code as an equation between r, s, the digest
and the logarithm of the public key.

### NnWords, NnDiv, NnModinv, NnArith: arithmetic down to words

`NnWords` has the shifts, rotations, bits and products of `nn_logical.c` and
`nn_mul.c`, `NnDiv` the division, its reciprocal and Euclid's algorithm of
`nn_div.c`, `NnModinv` the inverses of `nn_modinv.c` and the Montgomery
constants. They are operators: a number is its `wlen` and the number that its
storage forms, as in `Fp`; a result has a field `ok` that is FALSE if one of the
`MUST_HAVE` conditions would stop the program. The size of a word and the size
`wclz` is written for are parameters. Where a carry, an estimate or a correction
can go wrong the model works word by word (`AddRow`, `nn_submul_word_shift`,
`QuotientWord`, `WORD_DIVREM`, `HenselStep`); loops that only add, subtract or
compare n words are operations on the numbers in them. Outputs that are inputs
too are copied in the code, so the operators return values.

`NnArith` is a program that calls these functions on two numbers in any order,
so that the lengths and leading zeros are those that calls leave. Its invariants
say what each function would return for the numbers at hand. Callers never give
`nn_modinv_2exp` an exponent of 0 (it would mask the word before the first) and
never let the output of `nn_modinv` be its input.

### Curve, PrjPt: points and the group law

`Curve` has no state: it holds the formulas of `prj_pt.c` and `prj_pt_monty.c`
(complete, and those of the build with NO_USE_COMPLETE_FORMULAS), the Jacobian
ones, comparisons, conversions and the on-curve test, with each field element as
its number; `p` itself is an element, since `fp_neg` leaves it. The plain
functions and those in Montgomery form have the same text up to the product and
the constants they call, so each formula takes the form as a parameter.
Temporaries the code reuses are separate names, unless reuse can matter:
`CompleteDblReading` keeps apart the point read and the point overwritten, and
the copy made of an aliased output is what makes them equal. The affine law of
chord and tangent (`Plus`) stands beside them. The field operations are those
that `Fp` shows correct word by word; where `fp_redc_carry` shows them wrong,
`Curve` does not apply.

`PrjPt` is any sequence of these operations on a few points, with outputs that may be
inputs. `val` records the points meant. With NO_USE_COMPLETE_FORMULAS the addition
initialises its output, and so zeroes it, before it copies an operand to it
(`InitAndCopy`), and an import takes any coordinates with Z = 0 for infinity. Both
leave coordinates of no point; `val` says `Lost` then (`LosesOperand`, `Import`), and
`Lost` for what is computed from them. The coordinates are those of the code in any
case. The functions that multiply by a scalar hand plain coordinates to
the Montgomery functions without converting them, which leaves the point
unchanged because all three coordinates gain the same factor; so an `Add` or a
`Dbl` is of either form at any time. `Blind` is the random scaling of the masked
loops. That loops over such steps give the multiple asked for is `ScalarMul`.

### WnafMul: double multiplication

`WnafMul` models `prj_pt_ec_mult_wnaf` with `ecmult_wnaf` and
`get_pre_comp_points`, on the coordinates of `Curve`: `Prepare` is everything up
to the loop, `Iterate` one iteration, `Finish` the conversion after it,
`NormalizeExits` and `Finish` the two ways the program stops. The window is 5 in
the code and a variable here. It implements `PointMul` for the sum of the two
multiples, which is what `SigContext` takes it for. A curve is given with the list
of the multiples of a generator; `SetupAssumption` has TLC evaluate that `Plus` adds
the numbers of two points of the list. The code has no such list, it only names the
point a number means.

### HashStream: hash functions

`HashStream` models init, update and final of the three families behind
`hash_mapping`. The state that a compression function works on is the sequence
of what it was given (`absorbed`), so equal digests are equal sequences. For
SHA-2, `Sha2Fill`, `Sha2Block` and `Sha2Rest` are the three parts of update; the
four source files have the same text up to constants and the width of the
counter, which are parameters. For SHA-3 one action is one byte; the state is
kept as memory and read as 64-bit words in either byte order, and each byte is
the set of what was xored into it. For `copy.c` the digest is the buffer.
`Message` is known from `text` and `fed`, which no code reads.

### MC modules

`MCScalarMul`, `MCFp`, `MCPrjPt`, `MCWnafMul`, `MCHashStream`, `MCSignatures` and
`MCNnArith` give the parameters their values.

### Proof modules

`ScalarMulProofs`, `FpProofs`, `HashStreamProofs`, `SignatureProofs`, `WnafProofs`
and `PrjPtProofs` extend the component they are about. `NumberLemmas` (division with
remainder, congruence, inverses modulo a prime, powers, sums, counting, functions
defined by recursion) and `CurveLemmas` (what the field operations of `Curve` do in
either form, equality modulo p of products and sums, chord and tangent, the Jacobian
formulas) hold what they share.

## Runs

| run | question | bounds |
|---|---|---|
| `scalar_mul` | do the ladder with the complete formulas, and Double and Add Always with either, give [m]in, in how many iterations, do they end, do they implement `PointMul` | curve order 6, generator order 3, input points of order 1 and 3, without the complete formulas also 2 and 6, scalars 0..40: both sides of q, q^2 and every power of two below; all masks |
| `scalar_mul_ladder` (violation) | does the ladder of the build with NO_USE_COMPLETE_FORMULAS give [m]in | curve order 5, otherwise the same |
| `fp` | do field operations compute in the field after any sequence | words of 2 bits, p = 11 in two words, three registers, storage of 7 words, exponents 0 and 5: every reachable state, every aliasing |
| `fp_redc_carry` (violation) | do Montgomery products of wide operands stay right when p fills its words | p = 61 in three words, two registers |
| `signatures` | are signatures valid, verdicts right, own signatures accepted, public keys those of the private ones, structured keys read as written; can a signer always finish | the 7 points of two curves with a = -3, over 5 and over 11 elements; the seven schemes; three builds (blinding or not, a random or a fixed source); private keys 3 and 5 generated, 0 and 9 imported, public keys infinity, two points and two that are refused; messages of at most two bytes in all cuttings, digests of 6 bits; all nonces and masks; every (r, s) as a forgery |
| `restart` (violation) | the same validity without excepting signers that have restarted | the same |
| `infinity` (violation) | is a W' at infinity rejected by the ECDSA verification | the same |
| `points` | is every point the one of the group law after any sequence of operations, but for what an aliased addition to infinity with NO_USE_COMPLETE_FORMULAS or an import of (0 : 0 : 0) loses | the field of 5 elements; complete formulas on curves of 7 and 9 points, the others on curves of 7, 6 (a = 0) and 8 points (full 2-torsion); two points and an affine one, all scalings |
| `wnaf` | are the digits, each step and the result right | a curve of 61 points with a = -3, windows 3 and 5, 21 scalars on both sides of windows, powers of two and the order, points equal, opposite and at infinity |
| `wnaf_other_a` (violation) | the same on a curve with another a | a = 6, 61 points |
| `hash_stream` | does the digest depend on the message only | five functions with blocks of 4 to 8 bytes of 4 bits, all cuttings of texts of 18 and 9 bytes, over any earlier content of the buffer |
| `nn_arith` | are shifts, products, division, gcd and inverses those of arithmetic, and do the checks in the division hold | words of 4 bits, storage of 7 words, 20 numbers of 1 to 3 words in all pairs, then any two calls on them |

Why the bounds are enough. In `scalar_mul` every branch of the fixing of the top
bit, scalars equivalent to 0, and cofactor 2 occur; the theorems remove the
bounds. In `fp` sums overflow their two words (10 + 10 > 15), so carries, wide
elements and the stored p all occur. p = 11 does not fill its words, and there
`ProductsCorrect` holds; p = 61 does, and there it fails: the two carries of the
Montgomery loop both reach word len. On the 64-bit build this needs two operands
of p.wlen + 1 words; the same computation compiled from the source with the prime
of secp192r1 gives the same wrong result. In `signatures` the first curve has the
abscissa 0 and the second 8 and 10, so r = 0 and abscissas above q occur; with 7
residues each test of a scheme for 0 or equality is met, and so is every restart.
A digest is longer than q, takes all values modulo q, and has two bytes of q in
it, so that cutting and shifting digests matter. Keys change between sessions only
(contexts point to them), and pairs (r, s) that were not signed are given to
verifiers that have no private key, which loses nothing as a verifier never reads
one. In `nn_arith` words of 4 bits have half words of 2 bits, so every branch of
the two-digit division of words and of the reciprocal occurs; the 20 numbers are
those around 0, the half and the full word in each position, where estimates are
corrected and carries run; numbers of three words by two and by one give quotients
of one to three words. The integers of TLC allow no more than 7 words of this
size. `points` runs through every state of two points in every scaling, so every
aliasing and every pair of points meets every formula; the complete formulas are
meant for curves without points of order 2, which `SetupAssumption` says of theirs.
It imports every point of the plane in two scalings, infinity in every scaling, and
(0 : 0 : 0); the other coordinates with Z = 0 are in the theorems only. In `scalar_mul` the ladder of the other build is left to
`scalar_mul_ladder`, and the complete formulas have input points of odd order. In
`wnaf` the scalars have up to 7 digits, all the entries
that `WNAF_SIZE` gives, and opposite and equal inputs make the sums meet infinity,
equal and opposite points. In `hash_stream` the low word of the second counter
wraps, updates complete blocks exactly, and paddings of one and of two blocks
occur, as does the mark of a SHA-3 padding of one byte. One session is open at a
time (the contexts share nothing but the key) and the caller gives a fresh buffer
to each signature.

The storage of `MCFp` is one word more than three times the length of p: with
exactly three times, a product of two sums of a p of two words would be as long
as the storage, which the `MUST_HAVE` of `_nn_divrem_unshifted` refuses. The
curves of the repository have three words and more in every build, and there
three times the length of p leaves room for it. The exponent 5 has both bits
and an even and an odd prefix; 0 is refused.

The registers of `MCFp` are interchangeable and only invariants are checked
there, so `Symmetry` is sound. `CHECK_DEADLOCK FALSE` stands in every
configuration because `MUST_HAVE` may stop the program.

Fairness. `ScalarMul!FairSpec` has weak fairness of the function's own steps
(`Run`) and none of the caller's: a C function that was called runs on. No other
run uses fairness.

## What the violations show

* Elements left wider than p by the fork's `nn_mod_add` lose a carry in
  `_nn_mul_redc1`, so the removed `nn_set_wlen` was not redundant.
* A signer that restarts signs something else than the message: with blinding
  ECDSA (steps 8 and 10) and ECGDSA keep the masked e; ECKCDSA has cleared h and
  ECRDSA finalizes the hash once more, in every build. Restarts have a
  probability near 1/q.
* An ECDSA verification whose point is at infinity ends with the program, in the
  inversion of `prj_pt_ec_mult_wnaf`, instead of the rejection of its step 8. The
  other schemes name no such step.
* With NO_USE_COMPLETE_FORMULAS the addition of infinity to A, written to A, leaves
  (0 : 0 : 0), since the output is initialised before the operand is copied to it. The
  coordinates pass as infinity, and compare equal to every point. The ladder adds in
  this way, and meets infinity when some leading bits of the scalar with its fixed top
  bit are a multiple of the order: for the scalars 0 and 1 if q + 1 has as many bits
  as q, and for scalars above the order. For 1 half of the masks give infinity instead
  of the input; the source compiled in this configuration does so with the generator
  of secp256r1. Double and Add Always is not affected, nor are the complete formulas.
* The Jacobian doubling of `prj_pt_ec_mult_wnaf` is right for a = -3 only, and
  every scheme verifies with it on every curve. The default configuration
  (`lib_ecc_config.h`) has SECP256R1, where a = -3.

## What the models showed besides

These have no run of their own.

* `prj_pt_import_from_buf` accepts all coordinates with Z = 0, since
  `prj_pt_is_on_curve` takes them for infinity, although no curve has (1 : 0 : 0), and
  (0 : 0 : 0) is no point at all. They are `Lost` in `PrjPt`.
* `wclz` counts for words of 64 bits (`nn/nn_logical.c:400`), while `README.md:251`
  promises words of 16, 32 and 64. In the builds with smaller words divisors are not
  normalised and the first division fails: with `ClzBits = 8` instead of 4 in
  `MCNnArith.cfg` TLC finds `DivisionCorrect` violated.
* `prj_pt_is_on_curve` stops the program for the point at infinity when a = 0:
  its dummy point then has Z = 0 (`CheckExitsOnlyAtInfinity` says it stops for
  nothing else). The comment at `curves/prj_pt.c:102` calls infinity trivially on
  the curve.
* `init_pubkey_from_privkey` returns 0 when the mask of `init_pub_key` could not
  be drawn, so `ec_key_pair_gen` may return 0 with an uninitialised public key, or
  with the one that was there before; `WholePairCoherent` and `SignatureValid` except these
  pairs.
* With a random source that always returns the same bytes, as the one of this
  repository, a restart that changes nothing is repeated for ever;
  `SignerCanFinish` is about the others.
* No import of a private key refuses 0. Its public key is infinity, or the
  inversion of ECGDSA and ECKCDSA stops the program.
* `nn_modinv` stops the program if an odd modulus divides x, where the comment
  above it promises 0.

`fp_neg(0)` is p, which `fp_iszero` does not recognise; `fp_eq_or_opp` still
answers right (`EqOrOppCorrect`), and the other callers negate ordinates that are
never 0.

## Proofs

Each theorem holds for every value of the constants that satisfies the named
assumptions of the component's module, which TLC evaluates in its runs. Each
inductive invariant was checked by TLC on the component's run before its proof.
A power of two is a number, and twice the one before it: the prover has no
exponentiation, so `PowersOfTwo` (`PowersAssumption` in `Fp`) states this wherever
it is needed.

### Masked scalar multiplication

`ScalarMulProofs` assumes `PowersOfTwo`, `OrderAssumption` and
`CapacityAssumption`: any order, generator order, capacity and set of scalars. Its
theorems have the hypothesis `LadderComplete`: no build has the ladder without the
complete formulas. Double and Add Always may have either. The hypothesis cannot be
left out (the run `scalar_mul_ladder`).

* `InductiveInvariant`: `Spec => []IInv`. `ResultCorrect` is not inductive: it
  says nothing inside the loops. `IInv` adds that the register designated by the
  mask is the multiple given by the bits consumed, that the other ladder
  register is one ahead, that Double and Add Always keeps the input in `T[2]`,
  and that the scalar differs from the one asked for by a multiple of the order
  of the input.
* `TypeCorrect`, `Correctness`, `ConstantIterations`, `CheckExits`: the type
  invariant and the safety invariants of the run.
* `Refinement`: `Spec => ImplementsPointMul`.

The lemmas on numbers (bit length, prefixes of a binary number) come first; then
`MsbFixedHasTopBit`, the heart of `ConstantIterations`; then one lemma per loop
body and per action.

### Prime field

`FpProofs` assumes `FieldAssumption` (any odd prime, any word size, a storage for
three times the words of p), `PowersAssumption` (facts of arithmetic about powers of
2, of the base and of numbers below p) and `NamesAssumption` (registers are not
constants of the context or local variables). Its theorems have two more
hypotheses:

* `Room`: p leaves room in its words, (B + 1) p <= B^(n + 1) for n words. It excludes
  the primes whose top word has no zero bit. With words of 64 bits these are the
  primes of secp192r1 and secp384r1; those of secp224r1, secp256r1, secp521r1, FRP256v1,
  GOST and Brainpool are covered. It cannot be left out: with p = 61 and words of two
  bits, TLC finds `ProductsCorrect` violated (the run `fp_redc_carry`).
* `MulRoom`: a plain product of two elements one word wider than p, shifted for the
  division, is shorter than the storage.

What is proved:

* `Inductive`: `Spec => []IInv`, where `IInv` is `TypeOK`, `WidthBounded` and
  `ValueBounded`. No one of them is inductive alone: the width stays bounded because
  the sum of two numbers up to p has at most one word more, and numbers stay at
  most p because the words beyond the width are zero when they are read.
* `TypeCorrect`, `WidthIsBounded`, `ValueIsBounded`: these three.
* `AdditionsHold`, `EqOrOppHolds`, `ProductsHold`: `AdditionsCorrect`,
  `EqOrOppCorrect` and `ProductsCorrect`, for every aliasing.

Most of the proof is about operators on a store. `Computes`, `Multiplies`,
`Inverts`, `Divides` and `Results` say that an operation takes a store with the
context in place to one where the output holds the number meant, everything but
its local variables is as before and the program goes on; `Stops` says that it does
not. There is one lemma of this form for each function, from `nn_cnd_add` up to
`fp_pow`, and the actions follow from them. Three parts have an argument of their
own:

* The Montgomery loop. An iteration keeps the accumulator below 2p
  (`RedcIterates`), so that one final subtraction is enough. With a second operand
  wider than p this needs `Room`: then nothing reaches the carry that the second
  inner loop does not read (`RedcFits`, `CarriesAddUp`). `RedcLoopReduces` shows
  that the result times R is the product.
* The inverse. Some combination of a and b is 1 throughout (`Coprime`), so b is 1
  when a is 0; u and uu are their coefficients modulo p (`Coefs`). Each iteration
  at least halves a times b (`StepState`), which is below R^2 at first, so a is 0
  before the count runs out (`LoopComputes`).
* The power. After the leading bits e of the exponent the accumulator is the
  Montgomery form of the base to the e.

### Hash functions

`HashStreamProofs` assumes `AlgAssumption` (a block is shorter than what a counter
word counts; for SHA-2 the blocks divide that range and the length fits in one
block; for SHA-3 words divide blocks), `TextAssumption` (messages short enough for
the length field) and `PowersOfTwo`: any functions of the three families, any
texts, and every cutting of them.

* `Inductive`: `Spec => []IInv`.
* `TypeCorrect`, `StreamCorrect`, `DigestIsStandard`: `TypeOK`, `StreamInv` and
  `DigestCorrect`.

`DigestCorrect` speaks of finished digests only, and `StreamInv` of the times
between calls. `IInv` says what holds inside update too: what was
absorbed, the bytes of the buffer that wait, and the input not yet treated make
up the message (`Sha2Stream`, `Sha3Stream`, `CopyStream`); how many bytes wait
(`Waiting`) is read from the counter, which in `Sha2Fill` lags behind by the
input; and what remains after a completed block does not fill the buffer again.
The lemmas go from the counter and its bytes over the padding (one or two
blocks, the length at their end), the copies into the buffer and the byte of a
64-bit word that an index of the sponge means, to one lemma per group of actions.

### Signatures and keys

`SignatureProofs` assumes `CurveAssumption` (q an odd prime; a point and its
opposite have the same abscissa; nothing else is known of abscissas),
`HashAssumption` (a digest is a number of `HashBytes` bytes; nothing else is known
of the hash function), `KeysAssumption`, `RandomAssumption` and `PowersOfTwo`: any
curve of prime order, any hash function, any build and any random source.

* `Inductive`: `Spec => []IInv`.
* `TypeCorrect`: `TypeOK`.
* `WholePairs`: `WholePairCoherent`, whatever was imported, refused or generated.
* `SignaturesAreValid`: `SignatureValid`. What a signer returns satisfies the
  equation of its scheme, if it has not restarted.
* `VerdictsAreCorrect`: `VerdictCorrect`. A verifier accepts what satisfies the
  equation and rejects the rest.
* `SignedAreAccepted`: `SignedIsAccepted`.
* `StructuredKeys`: `StructuredKeysReimport`.

The four properties of sessions are not inductive together: they say nothing
while a session is open. `IInv` adds `Signing` (the keys are those
the signer began with, the prefix hashed is the one of the nonce or of the
key, and what finalize computed before the label `restart` is the number the scheme
defines, as long as there was no restart) and `Verifying` (the prefix hashed is
the one that init reads from the signature, the ranges it checked hold, and a
signature that a signer returned is still the last one).

The arithmetic modulo q comes first: sums, products, opposites, inverses, the
uniqueness of a quotient. Then come what the schemes hash and the steps that they
share (open, feed, refuse, wipe, exit). Each scheme has a section of its own with
the same parts: what validity means as an equation (`...Means`), why an attempt
satisfies it whatever masks it drew (`...AttemptEquation`; the masks cancel), the
attempt and the verdict as steps, and the action of the scheme. Verdicts rest on
the equation having one solution W', so that a comparison of abscissas or of
digests decides it. The calls on keys follow, and the theorems.

### Points

`PrjPtProofs` assumes `FieldAssumption` (p a prime above 3, a Montgomery constant it
does not divide), `PowersAssumption`, `SetupAssumption` (curves that are not
singular and, for the complete formulas, have no point of order 2) and
`ImportAssumption` (imports are triples of elements, and names of no point are not
points): any field, any curve, any imports and any number of points. What is said of
a point is said of those that are not `Lost`.

* `Inductive`: `Spec => []IInv`.
* `PointTypes`: `TypeOK`.
* `ComputesTheGroupLaw`: `GroupLaw`, for any sequence of operations of both forms
  and any aliasing. With the complete formulas no operation but an import of
  (X : Y : 0) loses a point; without them only the aliased addition to infinity does
  besides.
* `ComparisonsDecide`: `ComparisonsCorrect`.
* `ResultsReimportable`: `Reimportable`.

`GroupLaw` is not inductive: the formulas are right only for points of the curve with
reduced coordinates, whose curve keeps its coefficients in both forms. `IInv` says
this, and that (X : Y : Z) is one scaling of the point meant (`IsProjective`), if it
is not lost; of lost ones it says that the coordinates are elements.

The proof of the formulas has three parts. They are homogeneous (`SumScaled`), so it
suffices to look at points with Z = 1. On a chord, the coordinates of both points
and the coefficients of the curve are polynomials in the abscissa and the ordinate
of one point, the difference of abscissas d, and the slope (`ChordPoints`); on a
tangent, in x, y and the slope. Written so, X : Y : Z and the third
point differ by one factor t, by polynomial identities which the prover
checks in small pieces. What remains is that t is not 0. For the complete addition t
is d^3 times the ordinate of A - B, which is not 0 since no point has order 2. When
A = B the ordinate is the one of 2A, and opposite points are treated in the same way.
In the other build t is d^3 or 8y^3 and powers of the coordinates Z; a
vertical tangent gives infinity because the curve is not singular
(`TangentNotZero`). Comparisons are cross products (`ComparedProducts`).

### Double multiplication

`WnafProofs` assumes `FieldAssumption`, `PowersAssumption`, `SetupAssumption` (curves
that are not singular, each with the multiples of a generator of its cyclic group
and their sums), `InputAssumption`, `SizeAssumption` (the order has fewer bits than the
arrays have entries) and `PowersOfTwo`: any field, any curve, any window, any scalars
and points. That the points with `Plus` are a group rests on the associativity of
`Plus`, which is not proved here; `SetupAssumption` states what is used of it.

On every curve:

* `InductiveOnAllCurves`: `Spec => []BaseInv`.
* `TypeCorrect`, `DigitsAreCorrect`: `TypeOK` and `DigitsCorrect`.

On curves with a = -3, the hypothesis `AllMinusThree`, which the setups of the run
`wnaf` satisfy and the run `wnaf_other_a` shows to be needed:

* `Inductive`: `Spec => []IInv`, where `IInv` is `BaseInv` and `CurveInv`.
* `LoopIsCorrect`, `ExitsAreJustified`: `LoopInv` and `ExitsOnlyAtInfinity`.
* `ResultIsCorrect`: the point returned is [m]in1 + [n]in3.
* `Refinement`: `Spec => ImplementsPointMul`.

`LoopInv` says nothing of the tables that the loop adds from, nor of what comes
before and after the loop. `BaseInv` adds that the inputs are scalings of the points
meant and the digits those of the scalars, `CurveInv` that the tables hold the odd
multiples and the point of the loop the multiple of the digits consumed. The lemmas
go from the digits (the digits written and the rest of the scalar keep their
sum, which bounds their number) over the tables and the Jacobian formulas, with
infinity and equal or opposite points, to one lemma per action.

### What is only model-checked

* `CallEnds`, the termination of a multiplication: liveness under fairness.
* `SignerCanFinish`: which nonces finish a signature depends on the abscissas and
  on the hash function. It holds for the instances of the runs and not for
  every value of the constants.
* `NnWords`, `NnDiv`, `NnModinv` and so `NnArith`: recursion over words, and bits.

## Not modelled

The compression functions of the hash functions, structured signatures
(three bytes copied and compared, as in structured keys), exports of public
keys. Curve constants, printing, time, assembly, tests and examples: no state or
control of interest. Compiler and processor (constant time at the machine level)
are beyond these models.

## Plan

Modelled in this order: the masked loops, the field, ECDSA, the points, the wNAF,
the hash functions, the other schemes and the keys, division and inverses. Proved
in this order: the masked loops, the hash functions, the signatures and keys, the
field, the double multiplication, the points. What is left without a theorem is
the arithmetic of `NnArith`, whose recursive operators would first have to become
recursive functions, and its proofs inductions over words.
