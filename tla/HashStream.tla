------------------------------- MODULE HashStream -------------------------------
(***************************************************************************)
(* The streams of the hash functions behind hash_mapping (hash_algs.h):    *)
(* init, any number of updates, final.  A compression function or Keccak   *)
(* permutation is free: the state it works on is the sequence of what it   *)
(* has absorbed.  Three families share the interface:                      *)
(*   "sha2"   sha224.c, sha256.c, sha384.c and sha512_core.c: a buffer for *)
(*            the bytes that do not fill a block, a counter of bytes, and  *)
(*            a padding that ends with the length in bits;                 *)
(*   "sha3"   sha3.c: bytes are xored into the state one by one;           *)
(*   "copy"   copy.c: the first bytes of the message are the digest.       *)
(***************************************************************************)
EXTENDS Integers, Sequences

CONSTANTS
  Algs,      (* Hash functions: records with family, block (its bytes, or    *)
             (* those of the digest of "copy"), word (bytes of a u64), words *)
             (* (of the counter) and big (the byte order of the machine).    *)
  ByteBits,  (* Bits of a byte: 8 in the code.                               *)
  Texts,     (* What callers hash the beginnings of.                         *)
  MaxChunk,  (* Bound on the length of an input: a u32.                      *)
  Junk       (* The content of storage never written.                        *)

Byte == 0..(2^ByteBits - 1)
WordValues(a) == 2^(ByteBits * a.word)
LengthBytes(a) == a.words * a.word

ASSUME AlgAssumption ==
  \A a \in Algs :
    /\ a.family \in {"sha2", "sha3", "copy"}
    /\ a.block \in Nat \ {0} /\ a.word \in Nat \ {0} /\ a.words \in {1, 2} /\ a.big \in BOOLEAN
    /\ a.block < WordValues(a)
    /\ a.family = "sha2" => WordValues(a) % a.block = 0 /\ LengthBytes(a) < a.block
    /\ a.family = "sha3" => a.block % a.word = 0
    /\ MaxChunk < WordValues(a)

\* The number of bits of a message fits the length field.
ASSUME TextAssumption ==
  /\ ByteBits \in Nat /\ ByteBits > 3 /\ MaxChunk \in Nat
  /\ Texts \subseteq Seq(Byte) /\ Junk \notin Byte
  /\ \A t \in Texts, a \in Algs : a.family = "sha2" => 8 * Len(t) < 2^(ByteBits * LengthBytes(a))

\* A fact of arithmetic that the proofs of HashStreamProofs use.
ASSUME PowersOfTwo ==
  /\ 2^0 = 1
  /\ \A a \in Algs : \A i \in 0..(ByteBits * LengthBytes(a)) :
       2^i \in Nat \ {0} /\ 2^(i + 1) = 2 * 2^i

VARIABLES
  alg,
  pc,        (* "none", "open", "fill", "blocks", "absorb", "copy", "final"   *)
  text, fed, (* The message is the first fed bytes of text; not in the code. *)
  count,     (* The counter, low word first; sha3_idx; copied_bytes.         *)
  buffer,    (* The buffer; the Keccak state, each byte as the set of what   *)
             (* was xored into it since the last permutation.                *)
  left,      (* The local of this name.                                      *)
  input,     (* What the current update has yet to treat.                    *)
  absorbed,  (* What the compression function or the permutation was given.  *)
  output     (* The digest, by what it depends on.                           *)

vars == <<alg, pc, text, fed, count, buffer, left, input, absorbed, output>>

Message == SubSeq(text, 1, fed)

-----------------------------------------------------------------------------

\* The pointer arithmetic of the code: a copy may leave the buffer.
local_memcpy(buf, offset, data) ==
  LET end == offset + Len(data)
  IN  [j \in 1..(IF end > Len(buf) THEN end ELSE Len(buf)) |->
         IF j \in (offset + 1)..end THEN data[j - offset] ELSE buf[j]]

\* Two words of sha512_core.c; the single one of sha256.c has no second word.
ADD_UINT128_UINT64(a, c, n) ==
  LET low == (c[1] + n) % WordValues(a)
  IN  <<low, IF a.words = 2 /\ low < n THEN (c[2] + 1) % WordValues(a) ELSE c[2]>>

\* The last bytes of a number, highest first.
BigEndian(v, size) == [j \in 1..size |-> (v \div 2^(ByteBits * (size - j))) % 2^ByteBits]

\* 8 times the counter: PUT_UINT64_BE of sha256.c or PUT_MUL8_UINT128_BE.
PutLength(a, c) ==
  LET W == WordValues(a)
      low == (c[1] * 8) % W
      high == ((c[1] \div (W \div 8)) + c[2] * 8) % W
  IN  IF a.words = 1 THEN BigEndian(low, a.word)
      ELSE BigEndian(high, a.word) \o BigEndian(low, a.word)

\* The byte of memory that holds byte j of the Keccak lanes.
SWAP64_Idx(a, j) == IF a.big THEN (j - (j % a.word)) + (a.word - 1) - (j % a.word) ELSE j

Zeros(size) == [j \in 1..size |-> 0]
Untouched(a) == [j \in 1..a.block |-> {}]
Lanes(a, state) == [j \in 1..a.block |-> state[SWAP64_Idx(a, j - 1) + 1]]
SymmetricDifference(S, T) == (S \ T) \cup (T \ S)
XorByte(a, state, idx, byte) ==
  [state EXCEPT ![SWAP64_Idx(a, idx) + 1] = SymmetricDifference(@, {byte})]

-----------------------------------------------------------------------------

Init ==
  /\ alg \in Algs
  /\ pc = "none"
  /\ text \in Texts /\ fed = 0
  /\ count = <<0, 0>> /\ left = 0
  /\ buffer = [j \in 1..alg.block |-> Junk]
  /\ input = <<>> /\ absorbed = <<>> /\ output = <<>>

\* hfunc_init: only Keccak's state is cleared, a buffer keeps what it holds.
hash_init(t) ==
  /\ pc \in {"none", "open", "final"}
  /\ pc' = "open"
  /\ text' = t /\ fed' = 0
  /\ count' = <<0, 0>>
  /\ buffer' = IF alg.family = "sha3" THEN Untouched(alg) ELSE buffer
  /\ absorbed' = <<>> /\ output' = <<>>
  /\ UNCHANGED <<alg, left, input>>

\* hfunc_update is called with n bytes.
hash_update(n) ==
  /\ pc = "open" /\ fed + n <= Len(text)
  /\ input' = SubSeq(text, fed + 1, fed + n)
  /\ fed' = fed + n
  /\ pc' = CASE n = 0 -> "open"
             [] n > 0 /\ alg.family = "sha2" -> "fill"
             [] n > 0 /\ alg.family = "sha3" -> "absorb"
             [] n > 0 /\ alg.family = "copy" -> "copy"
  /\ UNCHANGED <<alg, text, count, buffer, left, absorbed, output>>

\* Faulty: an input that completes the block exactly does not count.
Sha2Fill_Greater ==
  LET present == count[1] % alg.block
      fill == alg.block - present
      block == local_memcpy(buffer, present, SubSeq(input, 1, fill))
      completes == present > 0 /\ Len(input) > fill
  IN  /\ pc = "fill"
      /\ count' = ADD_UINT128_UINT64(alg, count, Len(input))
      /\ left' = IF completes THEN 0 ELSE present
      /\ buffer' = IF completes THEN block ELSE buffer
      /\ absorbed' = IF completes THEN absorbed \o block ELSE absorbed
      /\ input' = IF completes THEN SubSeq(input, fill + 1, Len(input)) ELSE input
      /\ pc' = "blocks"
      /\ UNCHANGED <<alg, text, fed, output>>

\* sha256_update up to its loop: the counter, and the block that waits for its end.
Sha2Fill ==
  LET present == count[1] % alg.block
      fill == alg.block - present
      block == local_memcpy(buffer, present, SubSeq(input, 1, fill))
      completes == present > 0 /\ Len(input) >= fill
  IN  /\ pc = "fill"
      /\ count' = ADD_UINT128_UINT64(alg, count, Len(input))
      /\ left' = IF completes THEN 0 ELSE present
      /\ buffer' = IF completes THEN block ELSE buffer
      /\ absorbed' = IF completes THEN absorbed \o block ELSE absorbed
      /\ input' = IF completes THEN SubSeq(input, fill + 1, Len(input)) ELSE input
      /\ pc' = "blocks"
      /\ UNCHANGED <<alg, text, fed, output>>

\* One iteration of the loop.
Sha2Block ==
  /\ pc = "blocks" /\ Len(input) >= alg.block
  /\ absorbed' = absorbed \o SubSeq(input, 1, alg.block)
  /\ input' = SubSeq(input, alg.block + 1, Len(input))
  /\ UNCHANGED <<alg, pc, text, fed, count, buffer, left, output>>

\* The rest waits in the buffer.
Sha2Rest ==
  /\ pc = "blocks" /\ Len(input) < alg.block
  /\ buffer' = IF input = <<>> THEN buffer ELSE local_memcpy(buffer, left, input)
  /\ input' = <<>>
  /\ pc' = "open"
  /\ UNCHANGED <<alg, text, fed, count, left, absorbed, output>>

\* One iteration of _sha3_update.
Sha3Byte ==
  LET state == XorByte(alg, buffer, count[1], Head(input))
      full == count[1] + 1 = alg.block
  IN  /\ pc = "absorb"
      /\ count' = <<IF full THEN 0 ELSE count[1] + 1, 0>>
      /\ buffer' = IF full THEN Untouched(alg) ELSE state
      /\ absorbed' = IF full THEN absorbed \o Lanes(alg, state) ELSE absorbed
      /\ input' = Tail(input)
      /\ pc' = IF Len(input) = 1 THEN "open" ELSE "absorb"
      /\ UNCHANGED <<alg, text, fed, left, output>>

\* Faulty: what is left of the buffer does not bound the copy.
copy256_update_Unbounded ==
  /\ pc = "copy"
  /\ buffer' = local_memcpy(buffer, count[1], input)
  /\ count' = <<count[1] + Len(input), 0>>
  /\ input' = <<>>
  /\ pc' = "open"
  /\ UNCHANGED <<alg, text, fed, left, absorbed, output>>

copy256_update ==
  LET left_bytes == alg.block - (count[1] % (2 * alg.block))
      n == IF Len(input) >= left_bytes THEN left_bytes ELSE Len(input)
  IN  /\ pc = "copy"
      /\ buffer' = local_memcpy(buffer, count[1], SubSeq(input, 1, n))
      /\ count' = <<count[1] + n, 0>>
      /\ input' = <<>>
      /\ pc' = "open"
      /\ UNCHANGED <<alg, text, fed, left, absorbed, output>>

\* Faulty: the length is let overlap the mark of the padding.
sha2_padding_Overlap(a, c, buf) ==
  LET present == c[1] % a.block
      size == IF present > a.block - LengthBytes(a) THEN 2 * a.block ELSE a.block
      marked == local_memcpy(local_memcpy(Zeros(size), 0, SubSeq(buf, 1, present)),
                             present, <<2^(ByteBits - 1)>>)
  IN  local_memcpy(marked, size - LengthBytes(a), PutLength(a, c))

\* last_padded_block of sha256_final, one block or two.
sha2_padding(a, c, buf) ==
  LET present == c[1] % a.block
      size == IF present > a.block - 1 - LengthBytes(a) THEN 2 * a.block ELSE a.block
      marked == local_memcpy(local_memcpy(Zeros(size), 0, SubSeq(buf, 1, present)),
                             present, <<2^(ByteBits - 1)>>)
  IN  local_memcpy(marked, size - LengthBytes(a), PutLength(a, c))

sha2_final ==
  /\ pc = "open" /\ alg.family = "sha2"
  /\ absorbed' = absorbed \o sha2_padding(alg, count, buffer)
  /\ output' = absorbed'
  /\ pc' = "final"
  /\ UNCHANGED <<alg, text, fed, count, buffer, left, input>>

_sha3_finalize ==
  LET padded == XorByte(alg, XorByte(alg, buffer, count[1], 6), alg.block - 1, 2^(ByteBits - 1))
  IN  /\ pc = "open" /\ alg.family = "sha3"
      /\ absorbed' = absorbed \o Lanes(alg, padded)
      /\ output' = absorbed'
      /\ buffer' = Untouched(alg)
      /\ pc' = "final"
      /\ UNCHANGED <<alg, text, fed, count, left, input>>

copy256_final ==
  /\ pc = "open" /\ alg.family = "copy"
  /\ output' = buffer
  /\ pc' = "final"
  /\ UNCHANGED <<alg, text, fed, count, buffer, left, input, absorbed>>

Next ==
  \/ \E t \in Texts : hash_init(t)
  \/ \E n \in 0..MaxChunk : hash_update(n)
  \/ Sha2Fill \/ Sha2Block \/ Sha2Rest
  \/ Sha3Byte
  \/ copy256_update
  \/ sha2_final \/ _sha3_finalize \/ copy256_final

Spec == Init /\ [][Next]_vars

-----------------------------------------------------------------------------

Cells == IF alg.family = "sha3" THEN SUBSET Byte ELSE Byte \cup {Junk}

\* The buffer never grows: no copy leaves it.
TypeOK ==
  /\ alg \in Algs /\ text \in Texts /\ fed \in 0..Len(text)
  /\ pc \in {"none", "open", "fill", "blocks", "absorb", "copy", "final"}
  /\ count \in (0..(WordValues(alg) - 1)) \X (0..(WordValues(alg) - 1))
  /\ Len(buffer) = alg.block
  /\ pc # "none" => \A j \in 1..alg.block : buffer[j] \in Cells
  /\ left \in 0..(alg.block - 1)
  /\ input \in Seq(Byte)
  /\ Len(absorbed) % alg.block = 0

(***************************************************************************)
(* What a digest is to depend on: FIPS 180-4 and FIPS 202 pad the message  *)
(* with a mark, as few zeros as reach the end of a block, and the length   *)
(* or a last mark.                                                         *)
(***************************************************************************)

Singletons(s) == [j \in 1..Len(s) |-> {s[j]}]

\* The least number of zeros after msg and size more bytes.
Fill(msg, size) == CHOOSE k \in 0..(alg.block - 1) : (Len(msg) + size + k) % alg.block = 0

Sha2Padded(msg) ==
  msg \o <<2^(ByteBits - 1)>> \o Zeros(Fill(msg, 1 + LengthBytes(alg)))
      \o BigEndian(8 * Len(msg), LengthBytes(alg))

Sha3Padded(msg) ==
  LET k == Fill(msg, 1)
      mark == 2^(ByteBits - 1)
  IN  Singletons(msg) \o
      (IF k = 0 THEN <<{6, mark}>> ELSE <<{6}>> \o [j \in 1..(k - 1) |-> {}] \o <<{mark}>>)

\* What was absorbed, what waits in the buffer and what the current call has
\* still to treat are the message, in this order, for every cutting of it, and
\* the counter is its length (sha256_update, sha512_core_update, _sha3_update).
StreamInv ==
  /\ alg.family = "sha2" /\ pc \in {"open", "fill", "blocks"} =>
       LET waiting == IF pc = "blocks" THEN left ELSE count[1] % alg.block
           counted == IF pc = "fill" THEN fed - Len(input) ELSE fed
       IN  /\ absorbed \o SubSeq(buffer, 1, waiting) \o input = Message
           /\ count[1] + WordValues(alg) * count[2] = counted
  /\ alg.family = "sha3" /\ pc \in {"open", "absorb"} =>
       /\ absorbed \o SubSeq(Lanes(alg, buffer), 1, count[1]) \o Singletons(input)
            = Singletons(Message)
       /\ \A j \in (count[1] + 1)..alg.block : Lanes(alg, buffer)[j] = {}

\* The digest depends on the message only, as the standards say: on neither the
\* cutting, nor what the buffer held before, nor the byte order of the machine.
\* That of "copy" does if the message is long enough.
DigestCorrect ==
  pc = "final" =>
    CASE alg.family = "sha2" -> output = Sha2Padded(Message)
      [] alg.family = "sha3" -> output = Sha3Padded(Message)
      [] alg.family = "copy" -> fed >= alg.block => output = SubSeq(text, 1, alg.block)
=============================================================================
