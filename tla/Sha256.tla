------------------------------- MODULE Sha256 -------------------------------
(***************************************************************************)
(* SHA-256 as SoftwareCryptoProvider computes it.  A byte or a 32-bit word *)
(* is the set of its one-bits, bit 0 the least significant; a message is a *)
(* sequence of bytes.  The 64-byte block buffer is filled anew for each    *)
(* block, so it is a function of the message and the block's start.        *)
(* (Names are chosen so that MCSoftwareCryptoProvider can extend this      *)
(* module and the other two of the provider.)                              *)
(***************************************************************************)
EXTENDS Integers, Sequences, FiniteSetsExt

CONSTANTS
  Messages,           \* the messages hashed; the empty one is a null pointer, too
  KnownAnswers,       \* published digests: a function from some of the messages
  LittleEndianHost    \* how the host keeps a uint32_t in memory

VARIABLES
  data,               \* the message of the call
  digest_out,         \* the digest buffer
  hash_status         \* what the call returned, "none" before it

hash_vars == <<data, digest_out, hash_status>>

Byte8 == SUBSET (0 .. 7)
Word32 == SUBSET (0 .. 31)

ASSUME MessageAssumption == Messages \subseteq Seq(Byte8)

\* The one-bits of n below 2^width.  (By halves, since 2^31 is beyond TLC.)
BitsOf(n, width) ==
  LET from[b \in 0 .. width, rest \in Nat] ==
        IF b = width \/ rest = 0 THEN {}
        ELSE {bit \in {b} : rest % 2 = 1} \cup from[b + 1, rest \div 2]
  IN  from[0, n]

\* The literal 0xhhhhllll is written W(\hhhhh, \hllll).
W(high, low) == {b + 16 : b \in BitsOf(high, 16)} \cup BitsOf(low, 16)

kSha256K == <<
  W(\h428A, \h2F98), W(\h7137, \h4491), W(\hB5C0, \hFBCF), W(\hE9B5, \hDBA5),
  W(\h3956, \hC25B), W(\h59F1, \h11F1), W(\h923F, \h82A4), W(\hAB1C, \h5ED5),
  W(\hD807, \hAA98), W(\h1283, \h5B01), W(\h2431, \h85BE), W(\h550C, \h7DC3),
  W(\h72BE, \h5D74), W(\h80DE, \hB1FE), W(\h9BDC, \h06A7), W(\hC19B, \hF174),
  W(\hE49B, \h69C1), W(\hEFBE, \h4786), W(\h0FC1, \h9DC6), W(\h240C, \hA1CC),
  W(\h2DE9, \h2C6F), W(\h4A74, \h84AA), W(\h5CB0, \hA9DC), W(\h76F9, \h88DA),
  W(\h983E, \h5152), W(\hA831, \hC66D), W(\hB003, \h27C8), W(\hBF59, \h7FC7),
  W(\hC6E0, \h0BF3), W(\hD5A7, \h9147), W(\h06CA, \h6351), W(\h1429, \h2967),
  W(\h27B7, \h0A85), W(\h2E1B, \h2138), W(\h4D2C, \h6DFC), W(\h5338, \h0D13),
  W(\h650A, \h7354), W(\h766A, \h0ABB), W(\h81C2, \hC92E), W(\h9272, \h2C85),
  W(\hA2BF, \hE8A1), W(\hA81A, \h664B), W(\hC24B, \h8B70), W(\hC76C, \h51A3),
  W(\hD192, \hE819), W(\hD699, \h0624), W(\hF40E, \h3585), W(\h106A, \hA070),
  W(\h19A4, \hC116), W(\h1E37, \h6C08), W(\h2748, \h774C), W(\h34B0, \hBCB5),
  W(\h391C, \h0CB3), W(\h4ED8, \hAA4A), W(\h5B9C, \hCA4F), W(\h682E, \h6FF3),
  W(\h748F, \h82EE), W(\h78A5, \h636F), W(\h84C8, \h7814), W(\h8CC7, \h0208),
  W(\h90BE, \hFFFA), W(\hA450, \h6CEB), W(\hBEF9, \hA3F7), W(\hC671, \h78F2)>>
kSha256InitHash == <<
  W(\h6A09, \hE667), W(\hBB67, \hAE85), W(\h3C6E, \hF372), W(\hA54F, \hF53A),
  W(\h510E, \h527F), W(\h9B05, \h688C), W(\h1F83, \hD9AB), W(\h5BE0, \hCD19)>>

-----------------------------------------------------------------------------
(* Words: rotation, shift (of up to 64 bits), addition modulo 2^32, loads   *)
(* and stores.                                                             *)

Rotr32(w, n) == {(b - n) % 32 : b \in w}
Shr(w, n) == {b \in 0 .. 63 : b + n \in w}
Not(w) == (0 .. 31) \ w

\* The carries out of bit 31 are dropped.
Plus(v, w) ==
  LET add[x, y \in Word32] ==
        IF y = {} THEN x ELSE add[SymDiff(x, y), {b + 1 : b \in (x \cap y) \ {31}}]
  IN  add[v, w]

Xor3(u, v, w) == SymDiff(SymDiff(u, v), w)

\* Where byte i (1..4) of a uint32_t in memory starts within the word.
BitOffset(i) == IF LittleEndianHost THEN 8 * (i - 1) ELSE 8 * (4 - i)
WordFromMemory(bytes) == UNION {{b + BitOffset(i) : b \in bytes[i]} : i \in 1 .. 4}
WordToMemory(w) == [i \in 1 .. 4 |-> {b \in 0 .. 7 : b + BitOffset(i) \in w}]

Bswap32(w) == {8 * (3 - (b \div 8)) + (b % 8) : b \in w}

\* Mutant: the bytes are taken as they lie.
LoadUnswapped(bytes) == WordFromMemory(bytes)

\* memcpy and a byte swap, whatever the host.
LoadBe32(bytes) == Bswap32(WordFromMemory(bytes))

\* Mutant: the word is shifted, and not cut down to a byte.
StoredUncut(w) == [i \in 1 .. 4 |-> {b - BitOffset(i) : b \in Bswap32(w)}]

StoreBe32(w) == WordToMemory(Bswap32(w))

-----------------------------------------------------------------------------
(* Padding and blocks.                                                     *)

\* Mutant: no room is kept for the byte that ends the message.
PaddedLenTight(message) == ((Len(message) + 8 + 63) \div 64) * 64

padded_len(message) == ((Len(message) + 9 + 63) \div 64) * 64

\* Byte idx of the padded message, counted from 0: the message, 0x80, zeros, and
\* the length in bits, a 64-bit number, cut into bytes.
PaddedByte(message, idx) ==
  LET bit_len == BitsOf(8 * Len(message), 64)
      shift == (7 - (idx - (padded_len(message) - 8))) * 8
  IN  IF idx < Len(message) THEN message[idx + 1]
      ELSE IF idx = Len(message) THEN {7}
      ELSE IF idx >= padded_len(message) - 8 THEN Shr(bit_len, shift) \cap (0 .. 7)
      ELSE {}

Block(message, block_start) == [j \in 1 .. 64 |-> PaddedByte(message, block_start + j - 1)]

-----------------------------------------------------------------------------
(* Message schedule and compression.                                       *)

Sigma0(w) == Xor3(Rotr32(w, 7), Rotr32(w, 18), Shr(w, 3))
Sigma1(w) == Xor3(Rotr32(w, 17), Rotr32(w, 19), Shr(w, 10))

\* The schedule with one more word.
Extended(w) ==
  LET t == Len(w) + 1 IN
  Append(w, Plus(Plus(w[t - 16], Sigma0(w[t - 15])), Plus(w[t - 7], Sigma1(w[t - 2]))))

Schedule(block) ==
  LET extend[w \in Seq(Word32)] == IF Len(w) = 64 THEN w ELSE extend[Extended(w)]
  IN  extend[[i \in 1 .. 16 |-> LoadBe32(SubSeq(block, 4 * i - 3, 4 * i))]]

\* One round on the working variables <<a, b, c, d, e, f, g, hh>>.
Round(v, k, w) ==
  LET S1 == Xor3(Rotr32(v[5], 6), Rotr32(v[5], 11), Rotr32(v[5], 25))
      ch == SymDiff(v[5] \cap v[6], Not(v[5]) \cap v[7])
      temp1 == Plus(Plus(Plus(v[8], S1), Plus(ch, k)), w)
      S0 == Xor3(Rotr32(v[1], 2), Rotr32(v[1], 13), Rotr32(v[1], 22))
      maj == Xor3(v[1] \cap v[2], v[1] \cap v[3], v[2] \cap v[3])
  IN  <<Plus(temp1, Plus(S0, maj)), v[1], v[2], v[3], Plus(v[4], temp1), v[5], v[6], v[7]>>

\* The 64 rounds on the working variables v, with the schedule w.
Rounds(v0, w) ==
  LET from[t \in 1 .. 65, v \in [1 .. 8 -> Word32]] ==
        IF t = 65 THEN v ELSE from[t + 1, Round(v, kSha256K[t], w[t])]
  IN  from[1, v0]

\* Mutant: the chaining value is not added to the result.
CompressedOnly(h, w) == Rounds(h, w)

\* The chaining value after a block with the schedule w.
Compressed(h, w) ==
  LET last == Rounds(h, w) IN [i \in 1 .. 8 |-> Plus(h[i], last[i])]

\* The chaining value after the last block.
Chained(message) ==
  LET blocks == padded_len(message) \div 64
      chain[n \in 0 .. blocks, h \in [1 .. 8 -> Word32]] ==
        IF n = blocks THEN h
        ELSE chain[n + 1, Compressed(h, Schedule(Block(message, 64 * n)))]
  IN  chain[0, kSha256InitHash]

\* The digest, four bytes of each word.
Stored(words) ==
  [i \in 1 .. 32 |-> StoreBe32(words[((i - 1) \div 4) + 1])[((i - 1) % 4) + 1]]

Sha256Of(message) == Stored(Chained(message))

-----------------------------------------------------------------------------
(* The operation.                                                          *)

ZeroDigest == [i \in 1 .. 32 |-> {}]

\* Nothing is kept between calls, so that one call is all there is to see.
HashInit ==
  /\ data \in Messages
  /\ digest_out = ZeroDigest
  /\ hash_status = "none"

ComputeSha256 ==
  /\ hash_status = "none"
  /\ \/ data = <<>> /\ hash_status' = "kInvalidParam" /\ UNCHANGED digest_out
     \/ data # <<>> /\ hash_status' = "kOk" /\ digest_out' = Sha256Of(data)
  /\ UNCHANGED data

HashSpec == HashInit /\ [][ComputeSha256]_hash_vars

-----------------------------------------------------------------------------
(* FIPS 180-4, and what is claimed of the code.                            *)

\* The bytes the compression sees, block after block.
Hashed(message) ==
  [i \in 1 .. (64 * (padded_len(message) \div 64)) |->
     Block(message, 64 * ((i - 1) \div 64))[((i - 1) % 64) + 1]]

\* A byte sequence as bits, the most significant bit of each byte first.
BitString(bytes) ==
  [i \in 1 .. (8 * Len(bytes)) |-> (7 - ((i - 1) % 8)) \in bytes[((i - 1) \div 8) + 1]]

\* 5.1.1: a one bit, the fewest zero bits that leave 64 bits of the last block,
\* and in these the length of the message, the most significant bit first.
ZeroBits(l) == CHOOSE k \in 0 .. 511 : (l + 1 + k) % 512 = 448
LengthField(l) == [i \in 1 .. 64 |-> 64 - i \in BitsOf(l, 64)]
StandardPadding(bits) ==
  bits \o <<TRUE>> \o [i \in 1 .. ZeroBits(Len(bits)) |-> FALSE] \o LengthField(Len(bits))

\* What is hashed and what is put out are bytes.
HashTypeOK ==
  /\ data \in Seq(Byte8)
  /\ digest_out \in [1 .. 32 -> Byte8]
  /\ hash_status \in {"none", "kOk", "kInvalidParam"}

\* The blocks the compression sees are the standard's padding of the message,
\* at every length: no byte is lost or hashed twice, and the length never
\* collides with the message, at 55, 56 and 64 bytes and in later blocks.
PaddingStandard ==
  hash_status = "kOk" => BitString(Hashed(data)) = StandardPadding(BitString(data))

\* cpp:7 "SHA-256 follows FIPS PUB 180-4", in portable C++: the digest is the published
\* one wherever one is known.
AnswersKnown ==
  hash_status = "kOk" /\ data \in DOMAIN KnownAnswers => digest_out = KnownAnswers[data]
=============================================================================
