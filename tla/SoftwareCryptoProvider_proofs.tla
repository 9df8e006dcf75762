-------------------- MODULE SoftwareCryptoProvider_proofs --------------------
(***************************************************************************)
(* Theorems about signature verification and key derivation, for every     *)
(* length of digest, nonce, client id and block, and every set of bytes:   *)
(* what the code lays into its buffers at computed offsets is the          *)
(* concatenation of the parts, so that parts of fixed lengths can be read  *)
(* back.  Digests are equal when their inputs are, as the model has it.    *)
(*                                                                         *)
(* The last sections are about SHA-256 itself: the bytes it hashes are the *)
(* padding of FIPS 180-4, for messages of every length.  No more is        *)
(* assumed of the 64 bits of the length than that code and standard mean   *)
(* the same ones.                                                          *)
(***************************************************************************)
EXTENDS Sha256, SoftwareCryptoProvider, TLAPS

-----------------------------------------------------------------------------
(* Strings of bytes of a given length.                                     *)

OfLength(f, n) == f = [i \in 1 .. n |-> f[i]]

\* Such a string is a sequence of that length.
LEMMA LengthOf ==
  ASSUME NEW n \in Nat, NEW f, OfLength(f, n)
  PROVE  /\ DOMAIN f = 1 .. n /\ Len(f) = n
         /\ f \in Seq({f[i] : i \in 1 .. n})
<1>1. f \in [1 .. n -> {f[i] : i \in 1 .. n}]
  BY DEF OfLength
<1>2. f \in Seq({f[i] : i \in 1 .. n})
  BY <1>1
<1> QED
  BY <1>1, <1>2

\* Two that agree in every byte are one.
LEMMA SameBytes ==
  ASSUME NEW n, NEW f, NEW g, OfLength(f, n), OfLength(g, n),
         \A i \in 1 .. n : f[i] = g[i]
  PROVE  f = g
BY DEF OfLength

\* A copy keeps the length of the buffer,
LEMMA CopyLength ==
  ASSUME NEW n \in Nat, NEW buffer, OfLength(buffer, n), NEW offset, NEW bytes
  PROVE  OfLength(memcpy(buffer, offset, bytes), n)
BY LengthOf DEF memcpy, OfLength

\* and changes the bytes it covers.
LEMMA Copied ==
  ASSUME NEW n \in Nat, NEW m \in Nat, NEW offset \in Nat,
         NEW buffer, OfLength(buffer, n), NEW bytes, OfLength(bytes, m)
  PROVE  \A i \in 1 .. n :
           memcpy(buffer, offset, bytes)[i] =
             IF i - offset \in 1 .. m THEN bytes[i - offset] ELSE buffer[i]
<1>1. Len(buffer) = n /\ Len(bytes) = m
  BY LengthOf
<1> QED
  BY <1>1 DEF memcpy

\* Concatenation, under a name the provers know nothing of but what is proved here.
Joint(a, b) == a \o b

\* A concatenation is as long as its parts together,
LEMMA JoinLength ==
  ASSUME NEW n \in Nat, NEW m \in Nat, NEW size \in Nat, size = n + m,
         NEW a, OfLength(a, n), NEW b, OfLength(b, m)
  PROVE  OfLength(Joint(a, b), size)
<1> DEFINE S == {a[i] : i \in 1 .. n} \cup {b[i] : i \in 1 .. m}
<1>1. a \in [1 .. n -> S] /\ b \in [1 .. m -> S]
  BY DEF OfLength
<1>2. Len(a) = n /\ Len(b) = m
  BY LengthOf
<1> HIDE DEF S
<1>3. a \in Seq(S) /\ b \in Seq(S)
  BY <1>1
<1>4. a \o b \in Seq(S) /\ Len(a \o b) = size
  BY <1>2, <1>3
<1> QED
  BY <1>4 DEF OfLength, Joint

\* and has the bytes of the first and then those of the second.
LEMMA Joined ==
  ASSUME NEW n \in Nat, NEW m \in Nat, NEW size \in Nat, size = n + m,
         NEW a, OfLength(a, n), NEW b, OfLength(b, m)
  PROVE  \A i \in 1 .. size : Joint(a, b)[i] = IF i <= n THEN a[i] ELSE b[i - n]
<1> DEFINE S == {a[j] : j \in 1 .. n} \cup {b[j] : j \in 1 .. m}
<1>1. a \in [1 .. n -> S] /\ b \in [1 .. m -> S]
  BY DEF OfLength
<1>2. Len(a) = n /\ Len(b) = m
  BY LengthOf
<1> HIDE DEF S
<1>3. a \in Seq(S) /\ b \in Seq(S)
  BY <1>1
<1> QED
  BY <1>2, <1>3 DEF Joint

\* Parts of fixed lengths can be read back.
LEMMA PartsReadBack ==
  ASSUME NEW n \in Nat, NEW m \in Nat,
         NEW a, OfLength(a, n), NEW c, OfLength(c, n),
         NEW b, OfLength(b, m), NEW d, OfLength(d, m), Joint(a, b) = Joint(c, d)
  PROVE  a = c /\ b = d
<1>1. PICK size \in Nat : size = n + m
  OBVIOUS
<1>2. \A i \in 1 .. size : Joint(a, b)[i] = IF i <= n THEN a[i] ELSE b[i - n]
  BY <1>1, Joined
<1>3. \A i \in 1 .. size : Joint(c, d)[i] = IF i <= n THEN c[i] ELSE d[i - n]
  BY <1>1, Joined
<1>4. ASSUME NEW i \in 1 .. n PROVE a[i] = c[i]
  <2>1. i \in 1 .. size /\ i <= n
    BY <1>1
  <2> QED
    BY <1>2, <1>3, <2>1
<1>5. ASSUME NEW i \in 1 .. m PROVE b[i] = d[i]
  <2>1. n + i \in 1 .. size /\ ~(n + i <= n) /\ (n + i) - n = i
    BY <1>1
  <2> QED
    BY <1>2, <1>3, <2>1
<1>6. a = c
  BY <1>4, SameBytes
<1>7. b = d
  BY <1>5, SameBytes
<1> QED
  BY <1>6, <1>7

\* Two copies, one at the start and one at n, whatever was in the buffer.
LEMMA Overlaid ==
  ASSUME NEW n \in Nat, NEW m \in Nat, NEW size \in Nat,
         NEW a, OfLength(a, n), NEW b, OfLength(b, m), NEW buffer, OfLength(buffer, size)
  PROVE  LET both == memcpy(memcpy(buffer, 0, a), n, b)
         IN  /\ OfLength(both, size)
             /\ \A i \in 1 .. size :
                  both[i] = IF i - n \in 1 .. m THEN b[i - n]
                            ELSE IF i \in 1 .. n THEN a[i] ELSE buffer[i]
<1> DEFINE one == memcpy(buffer, 0, a)
           both == memcpy(one, n, b)
<1>1. OfLength(one, size)
  BY CopyLength
<1>2. \A i \in 1 .. size : one[i] = IF i - 0 \in 1 .. n THEN a[i - 0] ELSE buffer[i]
  BY Copied
<1> HIDE DEF one
<1>3. OfLength(both, size)
  BY <1>1, CopyLength
<1>4. \A i \in 1 .. size : both[i] = IF i - n \in 1 .. m THEN b[i - n] ELSE one[i]
  BY <1>1, Copied
<1> HIDE DEF both
<1>5. \A i \in 1 .. size :
        both[i] = IF i - n \in 1 .. m THEN b[i - n]
                  ELSE IF i \in 1 .. n THEN a[i] ELSE buffer[i]
  BY <1>2, <1>4
<1> QED
  BY <1>3, <1>5 DEF both, one

\* Two parts laid end to end in a buffer of their size are their concatenation.
LEMMA TwoParts ==
  ASSUME NEW n \in Nat, NEW m \in Nat, NEW size \in Nat, size = n + m,
         NEW a, OfLength(a, n), NEW b, OfLength(b, m), NEW buffer, OfLength(buffer, size)
  PROVE  memcpy(memcpy(buffer, 0, a), n, b) = Joint(a, b)
<1>1. OfLength(Joint(a, b), size)
  BY JoinLength
<1>2. \A i \in 1 .. size : Joint(a, b)[i] = IF i <= n THEN a[i] ELSE b[i - n]
  BY Joined
<1>3. PICK both : both = memcpy(memcpy(buffer, 0, a), n, b)
  OBVIOUS
<1>4. /\ OfLength(both, size)
      /\ \A i \in 1 .. size :
           both[i] = IF i - n \in 1 .. m THEN b[i - n]
                     ELSE IF i \in 1 .. n THEN a[i] ELSE buffer[i]
  BY <1>3, Overlaid
<1>5. ASSUME NEW i \in 1 .. size PROVE both[i] = Joint(a, b)[i]
  BY <1>2, <1>4
<1> QED
  BY <1>1, <1>3, <1>4, <1>5, SameBytes

\* The same of three parts.
LEMMA ThreeParts ==
  ASSUME NEW n \in Nat, NEW m \in Nat, NEW l \in Nat,
         NEW size \in Nat, NEW offset \in Nat, offset = n + m, size = offset + l,
         NEW a, OfLength(a, n), NEW b, OfLength(b, m), NEW c, OfLength(c, l),
         NEW buffer, OfLength(buffer, size)
  PROVE  memcpy(memcpy(memcpy(buffer, 0, a), n, b), offset, c) = Joint(a, Joint(b, c))
<1>1. PICK two : two = memcpy(memcpy(buffer, 0, a), n, b)
  OBVIOUS
<1>2. /\ OfLength(two, size)
      /\ \A i \in 1 .. size :
           two[i] = IF i - n \in 1 .. m THEN b[i - n]
                    ELSE IF i \in 1 .. n THEN a[i] ELSE buffer[i]
  BY <1>1, Overlaid
<1>3. PICK all : all = memcpy(two, offset, c)
  OBVIOUS
<1>4. OfLength(all, size)
  <2>1. OfLength(memcpy(two, offset, c), size)
    BY <1>2, CopyLength
  <2> QED
    BY <1>3, <2>1
<1>5. \A i \in 1 .. size : all[i] = IF i - offset \in 1 .. l THEN c[i - offset] ELSE two[i]
  <2>1. \A i \in 1 .. size :
          memcpy(two, offset, c)[i] = IF i - offset \in 1 .. l THEN c[i - offset] ELSE two[i]
    BY <1>2, Copied
  <2> QED
    BY <1>3, <2>1
<1>6. PICK rest \in Nat : rest = m + l
  OBVIOUS
<1>7. PICK bc : bc = Joint(b, c)
  OBVIOUS
<1>8. /\ OfLength(bc, rest)
      /\ \A i \in 1 .. rest : bc[i] = IF i <= m THEN b[i] ELSE c[i - m]
  <2>1. OfLength(Joint(b, c), rest)
    BY <1>6, JoinLength
  <2>2. \A i \in 1 .. rest : Joint(b, c)[i] = IF i <= m THEN b[i] ELSE c[i - m]
    BY <1>6, Joined
  <2> QED
    BY <1>7, <2>1, <2>2
<1>9. size = n + rest
  BY <1>6
<1>10. /\ OfLength(Joint(a, bc), size)
       /\ \A i \in 1 .. size : Joint(a, bc)[i] = IF i <= n THEN a[i] ELSE bc[i - n]
  <2>1. OfLength(Joint(a, bc), size)
    BY <1>8, <1>9, JoinLength
  <2>2. \A i \in 1 .. size : Joint(a, bc)[i] = IF i <= n THEN a[i] ELSE bc[i - n]
    BY <1>8, <1>9, Joined
  <2> QED
    BY <2>1, <2>2
<1>11. ASSUME NEW i \in 1 .. size PROVE all[i] = Joint(a, bc)[i]
  <2>1. CASE i <= n
    BY <1>2, <1>5, <1>10, <2>1
  <2>2. CASE ~(i <= n) /\ i <= offset
    <3>1. /\ i - n \in 1 .. m /\ i - n \in 1 .. rest /\ i - n <= m
          /\ ~(i - offset \in 1 .. l)
      BY <1>6, <2>2
    <3> QED
      BY <1>2, <1>5, <1>8, <1>10, <2>2, <3>1
  <2>3. CASE ~(i <= offset)
    <3>1. /\ i - offset \in 1 .. l /\ i - n \in 1 .. rest /\ ~(i <= n) /\ ~(i - n <= m)
          /\ (i - n) - m = i - offset
      BY <1>6, <2>3
    <3> QED
      BY <1>5, <1>8, <1>10, <3>1
  <2> QED
    BY <2>1, <2>2, <2>3
<1>12. all = Joint(a, bc)
  BY <1>4, <1>10, <1>11, SameBytes
<1> QED
  BY <1>1, <1>3, <1>7, <1>12

-----------------------------------------------------------------------------
(* What is hashed, and what can be told from a digest.                     *)

\* Parts and their lengths.
LEMMA PartLengths ==
  /\ kSha256DigestLen \in Nat /\ kNonceLen \in Nat /\ kClientIdLen \in Nat
  /\ HmacBlockLen \in Nat /\ 1 \in 1 .. kSha256DigestLen
  /\ OfLength(kMockMasterSalt, kSha256DigestLen)
  /\ OfLength(kHkdfInfo, 1) /\ OfLength(<<Byte("01")>>, 1) /\ Len(kHkdfInfo) = 1
  /\ \A n : OfLength(Buffer(n), n)
  /\ \A x : OfLength(Sha256Impl(x), kSha256DigestLen)
  /\ \A v, x : OfLength(PadBlock(v, x), HmacBlockLen)
  /\ \A n \in Nonces : OfLength(n, kNonceLen)
  /\ \A c \in ClientIds : OfLength(c, kClientIdLen)
<1>1. /\ kSha256DigestLen \in Nat /\ kNonceLen \in Nat /\ kClientIdLen \in Nat
      /\ HmacBlockLen \in Nat /\ 1 \in 1 .. kSha256DigestLen
  BY LengthAssumption
<1>2. OfLength(kMockMasterSalt, kSha256DigestLen)
  BY DEF OfLength, kMockMasterSalt, Named
<1>3. OfLength(kHkdfInfo, 1) /\ OfLength(<<Byte("01")>>, 1) /\ Len(kHkdfInfo) = 1
  BY DEF OfLength, kHkdfInfo
<1>4. \A n : OfLength(Buffer(n), n)
  BY DEF OfLength, Buffer
<1>5. \A x : OfLength(Sha256Impl(x), kSha256DigestLen)
  BY DEF OfLength, Sha256Impl
<1>6. \A v, x : OfLength(PadBlock(v, x), HmacBlockLen)
  BY DEF OfLength, PadBlock
<1>7. \A n \in Nonces : OfLength(n, kNonceLen)
  BY DEF OfLength, Nonces
<1>8. \A c \in ClientIds : OfLength(c, kClientIdLen)
  BY DEF OfLength, ClientIds
<1> QED
  BY <1>1, <1>2, <1>3, <1>4, <1>5, <1>6, <1>7, <1>8

\* A digest has one input.
LEMMA DigestReadBack ==
  ASSUME NEW x, NEW y, Sha256Impl(x) = Sha256Impl(y)
  PROVE  x = y
<1>1. Sha256Impl(x)[1] = <<"sha256", 1, x>> /\ Sha256Impl(y)[1] = <<"sha256", 1, y>>
  BY PartLengths DEF Sha256Impl
<1>2. <<"sha256", 1, x>> = <<"sha256", 1, y>>
  BY <1>1
<1> QED
  BY <1>2

\* A block padded with a digest has one digest in it.
LEMMA PadReadBack ==
  ASSUME NEW v, NEW x, NEW y, PadBlock(v, Sha256Impl(x)) = PadBlock(v, Sha256Impl(y))
  PROVE  Sha256Impl(x) = Sha256Impl(y)
<1>1. ASSUME NEW z PROVE PadBlock(v, Sha256Impl(z))[1] = <<"xor", v, <<"sha256", 1, z>>>>
  <2>1. 1 \in 1 .. HmacBlockLen /\ 1 <= kSha256DigestLen
    BY LengthAssumption
  <2>2. PadBlock(v, Sha256Impl(z))[1] = Xored(v, Sha256Impl(z)[1])
    BY <2>1 DEF PadBlock
  <2>3. Sha256Impl(z)[1] = <<"sha256", 1, z>>
    BY PartLengths DEF Sha256Impl
  <2>4. <<"sha256", 1, z>> # Zero
    BY DEF Zero, Byte
  <2> QED
    BY <2>2, <2>3, <2>4 DEF Xored
<1>2. <<"xor", v, <<"sha256", 1, x>>>> = <<"xor", v, <<"sha256", 1, y>>>>
  BY <1>1
<1> QED
  BY <1>2

\* The challenge digest is over a concatenation,
LEMMA ChallengeInput ==
  ASSUME NEW n \in Nonces, NEW c \in ClientIds
  PROVE  ComputeChallengeDigest(n, c) = Sha256Impl(Joint(n, c))
<1>1. PICK size \in Nat : size = kNonceLen + kClientIdLen
  BY PartLengths
<1>2. memcpy(memcpy(Buffer(size), 0, n), kNonceLen, c) = Joint(n, c)
  BY <1>1, PartLengths, TwoParts
<1> QED
  BY <1>1, <1>2 DEF ComputeChallengeDigest

\* and so are the two halves of a signature, the second laid over the first.
LEMMA SignatureInputs ==
  ASSUME NEW d, OfLength(d, kSha256DigestLen)
  PROVE  /\ CombinedForR(d) = Joint(d, kMockMasterSalt)
         /\ CombinedForS(d) = Joint(kMockMasterSalt, d)
<1>1. PICK size \in Nat : size = kSha256DigestLen + kSha256DigestLen
  BY PartLengths
<1>2. size = 2 * kSha256DigestLen
  BY <1>1, PartLengths
<1>3. CombinedForR(d) = Joint(d, kMockMasterSalt)
  <2>1. memcpy(memcpy(Buffer(size), 0, d), kSha256DigestLen, kMockMasterSalt)
          = Joint(d, kMockMasterSalt)
    BY <1>1, PartLengths, TwoParts
  <2> QED
    BY <1>2, <2>1 DEF CombinedForR
<1>4. CombinedForS(d) = Joint(kMockMasterSalt, d)
  <2>1. OfLength(CombinedForR(d), size)
    BY <1>1, <1>3, PartLengths, JoinLength
  <2>2. memcpy(memcpy(CombinedForR(d), 0, kMockMasterSalt), kSha256DigestLen, d)
          = Joint(kMockMasterSalt, d)
    BY <1>1, <2>1, PartLengths, TwoParts
  <2> QED
    BY <2>2 DEF CombinedForS
<1> QED
  BY <1>3, <1>4

\* So are the inputs of the key derivation.
LEMMA DerivationInputs ==
  ASSUME NEW n \in Nonces, NEW c \in ClientIds, NEW key, NEW x
  PROVE  /\ InnerInput(n, c) = Joint(PadBlock("36", kMockMasterSalt), Joint(n, c))
         /\ OuterInput(key, Sha256Impl(x)) = Joint(PadBlock("5C", key), Sha256Impl(x))
         /\ ExpandInner(key) =
              Joint(PadBlock("36", key), Joint(kHkdfInfo, <<Byte("01")>>))
<1>1. InnerInput(n, c) = Joint(PadBlock("36", kMockMasterSalt), Joint(n, c))
  <2>1. PICK offset \in Nat : offset = HmacBlockLen + kNonceLen
    BY PartLengths
  <2>2. PICK size \in Nat : size = offset + kClientIdLen
    BY PartLengths
  <2>3. memcpy(memcpy(memcpy(Buffer(size), 0, PadBlock("36", kMockMasterSalt)),
                      HmacBlockLen, n), offset, c)
          = Joint(PadBlock("36", kMockMasterSalt), Joint(n, c))
    BY <2>1, <2>2, PartLengths, ThreeParts
  <2> QED
    BY <2>1, <2>2, <2>3 DEF InnerInput
<1>2. OuterInput(key, Sha256Impl(x)) = Joint(PadBlock("5C", key), Sha256Impl(x))
  <2>1. PICK size \in Nat : size = HmacBlockLen + kSha256DigestLen
    BY PartLengths
  <2>2. memcpy(memcpy(Buffer(size), 0, PadBlock("5C", key)), HmacBlockLen, Sha256Impl(x))
          = Joint(PadBlock("5C", key), Sha256Impl(x))
    BY <2>1, PartLengths, TwoParts
  <2> QED
    BY <2>1, <2>2 DEF OuterInput
<1>3. ExpandInner(key) = Joint(PadBlock("36", key), Joint(kHkdfInfo, <<Byte("01")>>))
  <2>1. PICK offset \in Nat : offset = HmacBlockLen + Len(kHkdfInfo)
    BY PartLengths
  <2>2. PICK size \in Nat : size = offset + 1
    OBVIOUS
  <2>3. offset = HmacBlockLen + 1
    BY <2>1, PartLengths
  <2>4. memcpy(memcpy(memcpy(Buffer(size), 0, PadBlock("36", key)), HmacBlockLen, kHkdfInfo),
               offset, <<Byte("01")>>)
          = Joint(PadBlock("36", key), Joint(kHkdfInfo, <<Byte("01")>>))
    BY <2>2, <2>3, PartLengths, ThreeParts
  <2> QED
    BY <2>1, <2>2, <2>4 DEF ExpandInner
<1> QED
  BY <1>1, <1>2, <1>3

-----------------------------------------------------------------------------
(* Signatures and keys.                                                    *)

\* Two handshakes with the same nonce and client are the same.
LEMMA HandshakeIs ==
  ASSUME NEW g \in Handshakes, NEW h \in Handshakes
  PROVE  /\ g.nonce \in Nonces /\ g.client \in ClientIds
         /\ Joint(g.nonce, g.client) = Joint(h.nonce, h.client) => g = h
<1>1. /\ g.nonce \in Nonces /\ g.client \in ClientIds
      /\ h.nonce \in Nonces /\ h.client \in ClientIds
      /\ g.nonce = h.nonce /\ g.client = h.client => g = h
  BY DEF Handshakes
<1>2. ASSUME Joint(g.nonce, g.client) = Joint(h.nonce, h.client)
      PROVE  g.nonce = h.nonce /\ g.client = h.client
  BY <1>1, <1>2, PartLengths, PartsReadBack
<1> QED
  BY <1>1, <1>2

\* The digest a node signs is of one handshake only.
LEMMA DigestsDiffer ==
  ASSUME NEW g \in Handshakes, NEW h \in Handshakes, DigestOf(g) = DigestOf(h)
  PROVE  g = h
<1>1. /\ DigestOf(g) = Sha256Impl(Joint(g.nonce, g.client))
      /\ DigestOf(h) = Sha256Impl(Joint(h.nonce, h.client))
  BY HandshakeIs, ChallengeInput DEF DigestOf
<1> QED
  BY <1>1, DigestReadBack, HandshakeIs

\* What a node computes for its signature.
LEMMA NodeSignatureIs ==
  ASSUME NEW d, OfLength(d, kSha256DigestLen)
  PROVE  /\ NodeSignature(d) =
              Joint(Sha256Impl(CombinedForR(d)), Sha256Impl(CombinedForS(d)))
         /\ OfLength(NodeSignature(d), 2 * kSha256DigestLen)
<1>1. NodeSignature(d) = Joint(Sha256Impl(CombinedForR(d)), Sha256Impl(CombinedForS(d)))
  <2>1. NodeSignature(d) =
          Joint(Sha256Impl(Joint(d, kMockMasterSalt)), Sha256Impl(Joint(kMockMasterSalt, d)))
    BY DEF NodeSignature, Joint
  <2>2. CombinedForR(d) = Joint(d, kMockMasterSalt) /\ CombinedForS(d) = Joint(kMockMasterSalt, d)
    BY SignatureInputs
  <2> QED
    BY <2>1, <2>2
<1>2. PICK size \in Nat : size = kSha256DigestLen + kSha256DigestLen
  BY PartLengths
<1>3. OfLength(Joint(Sha256Impl(CombinedForR(d)), Sha256Impl(CombinedForS(d))), size)
  BY <1>2, PartLengths, JoinLength
<1>4. size = 2 * kSha256DigestLen
  BY <1>2, PartLengths
<1> QED
  BY <1>1, <1>3, <1>4

\* The comparison, byte by byte and half by half, finds just this signature.
LEMMA MatchesOnlyItsOwn ==
  ASSUME NEW d, OfLength(d, kSha256DigestLen), OfLength(signature, 2 * kSha256DigestLen)
  PROVE  SignatureMatches(d) <=> signature = NodeSignature(d)
<1>1. PICK r : r = Sha256Impl(CombinedForR(d))
  OBVIOUS
<1>2. PICK s : s = Sha256Impl(CombinedForS(d))
  OBVIOUS
<1>3. PICK size \in Nat : size = kSha256DigestLen + kSha256DigestLen
  BY PartLengths
<1>4. OfLength(r, kSha256DigestLen) /\ OfLength(s, kSha256DigestLen)
  BY <1>1, <1>2, PartLengths
<1>5. /\ OfLength(signature, size) /\ OfLength(Joint(r, s), size)
      /\ NodeSignature(d) = Joint(r, s)
  <2>1. size = 2 * kSha256DigestLen
    BY <1>3, PartLengths
  <2> QED
    BY <1>1, <1>2, <2>1, NodeSignatureIs
<1>6. \A i \in 1 .. size :
        Joint(r, s)[i] = IF i <= kSha256DigestLen THEN r[i] ELSE s[i - kSha256DigestLen]
  BY <1>3, <1>4, PartLengths, Joined
<1>7. SignatureMatches(d) <=>
        \A i \in 1 .. kSha256DigestLen :
          signature[i] = r[i] /\ signature[i + kSha256DigestLen] = s[i]
  BY <1>1, <1>2 DEF SignatureMatches
<1>8. ASSUME SignatureMatches(d) PROVE signature = Joint(r, s)
  <2>1. ASSUME NEW i \in 1 .. size PROVE signature[i] = Joint(r, s)[i]
    <3>1. CASE i <= kSha256DigestLen
      <4>1. i \in 1 .. kSha256DigestLen
        BY <3>1
      <4> QED
        BY <1>6, <1>7, <1>8, <3>1, <4>1
    <3>2. CASE ~(i <= kSha256DigestLen)
      <4>1. /\ i - kSha256DigestLen \in 1 .. kSha256DigestLen
            /\ (i - kSha256DigestLen) + kSha256DigestLen = i
        BY <1>3, <3>2, PartLengths
      <4> QED
        BY <1>6, <1>7, <1>8, <3>2, <4>1
    <3> QED
      BY <3>1, <3>2
  <2> QED
    BY <1>5, <2>1, SameBytes
<1>9. ASSUME signature = Joint(r, s) PROVE SignatureMatches(d)
  <2>1. ASSUME NEW i \in 1 .. kSha256DigestLen
        PROVE  signature[i] = r[i] /\ signature[i + kSha256DigestLen] = s[i]
    <3>1. /\ i \in 1 .. size /\ i <= kSha256DigestLen
          /\ i + kSha256DigestLen \in 1 .. size /\ ~(i + kSha256DigestLen <= kSha256DigestLen)
          /\ (i + kSha256DigestLen) - kSha256DigestLen = i
      BY <1>3, PartLengths
    <3> QED
      BY <1>6, <1>9, <3>1
  <2> QED
    BY <1>7, <2>1
<1> QED
  BY <1>5, <1>8, <1>9

\* A signature is of one digest.
LEMMA SignaturesDiffer ==
  ASSUME NEW d, OfLength(d, kSha256DigestLen), NEW e, OfLength(e, kSha256DigestLen),
         NodeSignature(d) = NodeSignature(e)
  PROVE  d = e
<1>1. Joint(Sha256Impl(CombinedForR(d)), Sha256Impl(CombinedForS(d)))
        = Joint(Sha256Impl(CombinedForR(e)), Sha256Impl(CombinedForS(e)))
  BY NodeSignatureIs
<1>2. Sha256Impl(CombinedForR(d)) = Sha256Impl(CombinedForR(e))
  BY <1>1, PartLengths, PartsReadBack
<1>3. CombinedForR(d) = CombinedForR(e)
  BY <1>2, DigestReadBack
<1>4. Joint(d, kMockMasterSalt) = Joint(e, kMockMasterSalt)
  <2>1. CombinedForR(d) = Joint(d, kMockMasterSalt) /\ CombinedForR(e) = Joint(e, kMockMasterSalt)
    BY SignatureInputs
  <2> QED
    BY <1>3, <2>1
<1> QED
  BY <1>4, PartLengths, PartsReadBack

\* The session key is HKDF's of nonce and client id: HMAC, by concatenation, over
\* what HMAC extracts.
LEMMA HmacIs ==
  ASSUME NEW key, OfLength(key, kSha256DigestLen), NEW text
  PROVE  Hmac(key, text) =
           Sha256Impl(Joint(PadBlock("5C", key),
                            Sha256Impl(Joint(PadBlock("36", key), text))))
<1>1. Len(key) = kSha256DigestLen
  BY PartLengths, LengthOf
<1> QED
  BY <1>1 DEF Hmac, Joint, PadBlock

\* The key the code derives is that one,
LEMMA SessionKeyIs ==
  ASSUME NEW n \in Nonces, NEW c \in ClientIds
  PROVE  /\ Prk(n, c) = HkdfExtract(kMockMasterSalt, n \o c)
         /\ SessionKey(n, c) =
              HkdfExpandFirst(HkdfExtract(kMockMasterSalt, n \o c), kHkdfInfo)
<1>1. PICK prk : prk = Prk(n, c)
  OBVIOUS
<1>2. prk = HkdfExtract(kMockMasterSalt, Joint(n, c)) /\ OfLength(prk, kSha256DigestLen)
  <2>1. prk = Sha256Impl(Joint(PadBlock("5C", kMockMasterSalt),
                Sha256Impl(Joint(PadBlock("36", kMockMasterSalt), Joint(n, c)))))
    BY <1>1, DerivationInputs DEF Prk
  <2>2. prk = HkdfExtract(kMockMasterSalt, Joint(n, c))
    BY <2>1, HmacIs, PartLengths DEF HkdfExtract
  <2> QED
    BY <2>1, <2>2, PartLengths
<1>3. SessionKey(n, c) =
        Sha256Impl(Joint(PadBlock("5C", prk),
          Sha256Impl(Joint(PadBlock("36", prk), Joint(kHkdfInfo, <<Byte("01")>>)))))
  BY <1>1, DerivationInputs DEF SessionKey
<1>4. SessionKey(n, c) = Hmac(prk, Joint(kHkdfInfo, <<Byte("01")>>))
  BY <1>2, <1>3, HmacIs
<1> QED
  BY <1>1, <1>2, <1>4 DEF HkdfExpandFirst, Joint

\* and no other handshake has it.
LEMMA KeysDiffer ==
  ASSUME NEW g \in Handshakes, NEW h \in Handshakes,
         SessionKey(g.nonce, g.client) = SessionKey(h.nonce, h.client)
  PROVE  g = h
<1> DEFINE Input(p) == Joint(PadBlock("36", kMockMasterSalt), Joint(p.nonce, p.client))
           Outer(p) == Joint(PadBlock("5C", kMockMasterSalt), Sha256Impl(Input(p)))
           Inner(p) == Joint(PadBlock("36", Sha256Impl(Outer(p))),
                             Joint(kHkdfInfo, <<Byte("01")>>))
<1>1. ASSUME NEW p \in Handshakes
      PROVE  SessionKey(p.nonce, p.client) =
               Sha256Impl(Joint(PadBlock("5C", Sha256Impl(Outer(p))), Sha256Impl(Inner(p))))
  <2>1. p.nonce \in Nonces /\ p.client \in ClientIds
    BY HandshakeIs
  <2>2. Prk(p.nonce, p.client) = Sha256Impl(Outer(p))
    BY <2>1, DerivationInputs DEF Prk
  <2> QED
    BY <2>1, <2>2, DerivationInputs DEF SessionKey
<1> HIDE DEF Inner
<1>2. PadBlock("5C", Sha256Impl(Outer(g))) = PadBlock("5C", Sha256Impl(Outer(h)))
  <2>1. Joint(PadBlock("5C", Sha256Impl(Outer(g))), Sha256Impl(Inner(g)))
          = Joint(PadBlock("5C", Sha256Impl(Outer(h))), Sha256Impl(Inner(h)))
    BY <1>1, DigestReadBack
  <2> HIDE DEF Outer
  <2> QED
    BY <2>1, PartLengths, PartsReadBack
<1>3. Outer(g) = Outer(h)
  <2> HIDE DEF Outer
  <2> QED
    BY <1>2, PadReadBack, DigestReadBack
<1>4. Input(g) = Input(h)
  <2> HIDE DEF Input
  <2>1. Sha256Impl(Input(g)) = Sha256Impl(Input(h))
    BY <1>3, PartLengths, PartsReadBack
  <2> QED
    BY <2>1, DigestReadBack
<1>5. Joint(g.nonce, g.client) = Joint(h.nonce, h.client)
  <2>1. PICK size \in Nat : size = kNonceLen + kClientIdLen
    BY PartLengths
  <2>2. /\ OfLength(Joint(g.nonce, g.client), size)
        /\ OfLength(Joint(h.nonce, h.client), size)
    BY <2>1, HandshakeIs, PartLengths, JoinLength
  <2> QED
    BY <1>4, <2>2, PartLengths, PartsReadBack
<1> QED
  BY <1>5, HandshakeIs

-----------------------------------------------------------------------------
(* Theorems.                                                               *)

\* What the two calls return is about the handshake they were called with.
IInv ==
  /\ handshake \in Handshakes
  /\ OfLength(signature, 2 * kSha256DigestLen)
  /\ status = "kOk" =>
       public_key = kMockEccPublicKey /\ SignatureMatches(DigestOf(handshake))
  /\ status = "kVerifyFailed" =>
       ~(public_key = kMockEccPublicKey /\ SignatureMatches(DigestOf(handshake)))
  /\ key_out \in {Buffer(kSha256DigestLen), SessionKey(handshake.nonce, handshake.client)}

\* A signature that arrives, damaged or not, is as long as one should be.
LEMMA InitIInv == CallsInit => IInv
<1> SUFFICES ASSUME CallsInit PROVE IInv
  OBVIOUS
<1>1. ASSUME NEW h \in Handshakes
      PROVE  OfLength(NodeSignature(DigestOf(h)), 2 * kSha256DigestLen)
  <2>1. OfLength(DigestOf(h), kSha256DigestLen)
    BY HandshakeIs, ChallengeInput, PartLengths DEF DigestOf
  <2> QED
    BY <2>1, NodeSignatureIs
<1>2. ASSUME NEW sig, OfLength(sig, 2 * kSha256DigestLen), NEW d \in Damaged(sig)
      PROVE  OfLength(d, 2 * kSha256DigestLen)
  <2>1. DOMAIN sig = 1 .. 2 * kSha256DigestLen
    BY <1>2 DEF OfLength
  <2> QED
    BY <1>2, <2>1 DEF Damaged, OfLength
<1>3. OfLength(signature, 2 * kSha256DigestLen)
  BY <1>1, <1>2 DEF CallsInit, Signatures
<1> QED
  BY <1>3 DEF CallsInit, IInv

\* Neither call disturbs what the other returned.
LEMMA NextIInv == IInv /\ [CallsNext]_call_vars => IInv'
<1> SUFFICES ASSUME IInv, [CallsNext]_call_vars PROVE IInv'
  OBVIOUS
<1> USE DEF IInv
<1>1. CASE VerifyEccSignature
  BY <1>1 DEF VerifyEccSignature, SignatureMatches
<1>2. CASE DeriveSessionKey
  <2>1. PICK key : key = SessionKey(handshake.nonce, handshake.client)
    OBVIOUS
  <2>2. OfLength(key, kSha256DigestLen)
    BY <2>1, PartLengths DEF SessionKey
  <2>3. OfLength(key_out, kSha256DigestLen)
    BY <2>1, <2>2, PartLengths
  <2>4. OfLength(memcpy(key_out, 0, key), kSha256DigestLen)
    BY <2>3, PartLengths, CopyLength
  <2>5. ASSUME NEW i \in 1 .. kSha256DigestLen PROVE memcpy(key_out, 0, key)[i] = key[i]
    <3>1. memcpy(key_out, 0, key)[i] =
            IF i - 0 \in 1 .. kSha256DigestLen THEN key[i - 0] ELSE key_out[i]
      BY <2>2, <2>3, PartLengths, Copied
    <3> QED
      BY <3>1, PartLengths
  <2>6. memcpy(key_out, 0, key) = key
    BY <2>2, <2>4, <2>5, SameBytes
  <2> QED
    BY <1>2, <2>1, <2>6 DEF DeriveSessionKey, SignatureMatches
<1>3. CASE UNCHANGED call_vars
  BY <1>3 DEF call_vars, SignatureMatches
<1> QED
  BY <1>1, <1>2, <1>3 DEF CallsNext

\* IInv is an invariant of the two calls.
THEOREM Invariance == CallsSpec => []IInv
<1>1. CallsInit => IInv
  BY InitIInv
<1>2. IInv /\ [CallsNext]_call_vars => IInv'
  BY NextIInv
<1> QED
  BY <1>1, <1>2, PTL DEF CallsSpec

\* For every length, a signature is accepted only from the known key and for the
\* very handshake it was made for, and the genuine one is accepted.
THEOREM SignaturesBound == CallsSpec => []SignatureBindsHandshake
<1>1. IInv => SignatureBindsHandshake
  <2> SUFFICES ASSUME IInv PROVE SignatureBindsHandshake
    OBVIOUS
  <2>1. ASSUME NEW h \in Handshakes PROVE OfLength(DigestOf(h), kSha256DigestLen)
    BY HandshakeIs, ChallengeInput, PartLengths DEF DigestOf
  <2>2. SignatureMatches(DigestOf(handshake))
          <=> signature = NodeSignature(DigestOf(handshake))
    BY <2>1, MatchesOnlyItsOwn DEF IInv
  <2>3. ASSUME NEW h \in Handshakes, signature = NodeSignature(DigestOf(handshake)),
               signature = NodeSignature(DigestOf(h))
        PROVE  h = handshake
    <3>1. DigestOf(h) = DigestOf(handshake)
      BY <2>1, <2>3, SignaturesDiffer DEF IInv
    <3> QED
      BY <3>1, DigestsDiffer DEF IInv
  <2> QED
    BY <2>2, <2>3 DEF IInv, SignatureBindsHandshake
<1> QED
  BY <1>1, Invariance, PTL

\* For every length, two handshakes that differ in the nonce or in the client have
\* different session keys.
THEOREM SessionKeysSeparate == CallsSpec => []KeysSeparate
<1>1. IInv => KeysSeparate
  BY KeysDiffer DEF IInv, KeysSeparate, Derived
<1> QED
  BY <1>1, Invariance, PTL

\* For every length, the key is HKDF-SHA-256 of nonce and client id.
THEOREM KeysAreHkdf == CallsSpec => []KeyIsHkdf
<1>1. IInv => KeyIsHkdf
  <2>1. IInv => handshake.nonce \in Nonces /\ handshake.client \in ClientIds
    BY HandshakeIs DEF IInv
  <2> QED
    BY <2>1, SessionKeyIs DEF IInv, KeyIsHkdf, Derived
<1> QED
  BY <1>1, Invariance, PTL

-----------------------------------------------------------------------------
(* SHA-256: what is hashed, byte by byte and bit by bit.                   *)

\* How long the padded message is, and where its blocks end.
LEMMA PaddedLength ==
  ASSUME NEW message, Len(message) \in Nat
  PROVE  /\ padded_len(message) \in Nat
         /\ padded_len(message) % 64 = 0
         /\ 64 * (padded_len(message) \div 64) = padded_len(message)
         /\ Len(message) + 9 <= padded_len(message)
         /\ padded_len(message) <= Len(message) + 72
BY DEF padded_len

\* A byte of the padded message is met in one block, at one place.
LEMMA HashedBytes ==
  ASSUME NEW message, Len(message) \in Nat
  PROVE  /\ DOMAIN Hashed(message) = 1 .. padded_len(message)
         /\ Len(Hashed(message)) = padded_len(message)
         /\ \A i \in 1 .. padded_len(message) :
              Hashed(message)[i] = PaddedByte(message, i - 1)
<1>1. /\ 64 * (padded_len(message) \div 64) = padded_len(message)
      /\ padded_len(message) \in Nat
  BY PaddedLength
<1>2. Hashed(message) = [i \in 1 .. padded_len(message) |-> Hashed(message)[i]]
  BY <1>1 DEF Hashed
<1>3. ASSUME NEW i \in 1 .. padded_len(message)
      PROVE  Hashed(message)[i] = PaddedByte(message, i - 1)
  <2>1. /\ (i - 1) \div 64 \in Nat /\ (i - 1) % 64 \in 0 .. 63
        /\ 64 * ((i - 1) \div 64) + ((i - 1) % 64) = i - 1
    BY <1>1
  <2> DEFINE start == 64 * ((i - 1) \div 64)
             j == ((i - 1) % 64) + 1
  <2>2. j \in 1 .. 64 /\ start + j - 1 = i - 1
    BY <2>1
  <2>3. Hashed(message)[i] = Block(message, start)[j]
    BY <1>1 DEF Hashed
  <2> HIDE DEF start, j
  <2>4. Block(message, start)[j] = PaddedByte(message, start + j - 1)
    BY <2>2 DEF Block
  <2> QED
    BY <2>2, <2>3, <2>4
<1>4. OfLength(Hashed(message), padded_len(message))
  BY <1>2 DEF OfLength
<1> QED
  BY <1>1, <1>3, <1>4, LengthOf

\* The bits of a byte sequence.
LEMMA BitStringIs ==
  ASSUME NEW bytes, NEW n \in Nat, Len(bytes) = n
  PROVE  /\ OfLength(BitString(bytes), 8 * n)
         /\ \A i \in 1 .. (8 * n) :
              BitString(bytes)[i] = ((7 - ((i - 1) % 8)) \in bytes[((i - 1) \div 8) + 1])
BY DEF BitString, OfLength

\* The zero bits of the standard's padding of n bytes to p.
LEMMA ZeroBitsAre ==
  ASSUME NEW n \in Nat, NEW p \in Nat, p % 64 = 0, n + 9 <= p, p <= n + 72
  PROVE  ZeroBits(8 * n) = 8 * p - 8 * n - 65
<1>1. PICK k \in Int : k = 8 * p - 8 * n - 65
  OBVIOUS
<1>2. PICK q \in Int : 8 * p = 512 * q
  <2>1. p = 64 * (p \div 64) /\ p \div 64 \in Int
    OBVIOUS
  <2> QED
    BY <2>1
<1>3. k \in 0 .. 511 /\ 8 * n + 1 + k = 512 * (q - 1) + 448
  BY <1>1, <1>2
<1>4. (8 * n + 1 + k) % 512 = 448
  BY <1>3
<1>5. ASSUME NEW m \in 0 .. 511, (8 * n + 1 + m) % 512 = 448 PROVE m = k
  <2>1. PICK r \in Int : 8 * n + 1 + m = 512 * r + 448
    <3>1. /\ 8 * n + 1 + m = 512 * ((8 * n + 1 + m) \div 512) + 448
          /\ (8 * n + 1 + m) \div 512 \in Int
      BY <1>5
    <3> QED
      BY <3>1
  <2>2. m - k = 512 * (r - q + 1)
    BY <1>3, <2>1
  <2>3. PICK d \in Int : d = r - q + 1
    BY <2>1
  <2> QED
    BY <1>3, <2>2, <2>3
<1>6. ZeroBits(8 * n) = k
  BY <1>3, <1>4, <1>5 DEF ZeroBits
<1> QED
  BY <1>1, <1>6

\* The bits of the standard's padding of n bytes to p.
LEMMA StandardPaddingIs ==
  ASSUME NEW n \in Nat, NEW p \in Nat, p % 64 = 0, n + 9 <= p, p <= n + 72,
         NEW bits, OfLength(bits, 8 * n)
  PROVE  /\ OfLength(StandardPadding(bits), 8 * p)
         /\ \A i \in 1 .. (8 * p) :
              StandardPadding(bits)[i] =
                IF i <= 8 * n THEN bits[i]
                ELSE IF i <= 8 * p - 64 THEN i = 8 * n + 1
                ELSE 8 * p - i \in BitsOf(8 * n, 64)
<1>1. PICK l \in Nat, k \in Nat : l = 8 * n /\ k = 8 * p - 8 * n - 65
  OBVIOUS
<1>2. PICK m1 \in Nat, m2 \in Nat, m3 \in Nat :
        m1 = l + 1 /\ m2 = m1 + k /\ m3 = m2 + 64
  OBVIOUS
<1> DEFINE one == <<TRUE>>
           zeros == [i \in 1 .. k |-> FALSE]
           length == LengthField(l)
           b1 == Joint(bits, one)
           b2 == Joint(b1, zeros)
           b3 == Joint(b2, length)
<1>3. StandardPadding(bits) = b3
  <2>1. Len(bits) = l
    BY <1>1, LengthOf
  <2>2. ZeroBits(l) = k
    BY <1>1, ZeroBitsAre
  <2> QED
    BY <2>1, <2>2 DEF StandardPadding, Joint
<1>4. OfLength(bits, l) /\ OfLength(one, 1) /\ OfLength(zeros, k) /\ OfLength(length, 64)
  BY <1>1 DEF OfLength, LengthField
<1>5. /\ one[1] = TRUE
      /\ \A i \in 1 .. k : zeros[i] = FALSE
      /\ \A i \in 1 .. 64 : length[i] = (64 - i \in BitsOf(l, 64))
  BY DEF LengthField
<1> HIDE DEF one, zeros, length
<1>6. /\ OfLength(b1, m1)
      /\ \A i \in 1 .. m1 : b1[i] = IF i <= l THEN bits[i] ELSE one[i - l]
  BY <1>2, <1>4, JoinLength, Joined
<1> HIDE DEF b1
<1>7. /\ OfLength(b2, m2)
      /\ \A i \in 1 .. m2 : b2[i] = IF i <= m1 THEN b1[i] ELSE zeros[i - m1]
  BY <1>2, <1>4, <1>6, JoinLength, Joined
<1> HIDE DEF b2
<1>8. /\ OfLength(b3, m3)
      /\ \A i \in 1 .. m3 : b3[i] = IF i <= m2 THEN b2[i] ELSE length[i - m2]
  BY <1>2, <1>4, <1>7, JoinLength, Joined
<1> HIDE DEF b3
<1>9. m3 = 8 * p /\ m2 = 8 * p - 64 /\ m1 = 8 * n + 1
  BY <1>1, <1>2
<1>10. ASSUME NEW i \in 1 .. m3
       PROVE  b3[i] = IF i <= l THEN bits[i]
                      ELSE IF i <= m2 THEN i = m1
                      ELSE m3 - i \in BitsOf(l, 64)
  <2>1. CASE i <= l
    <3>1. i \in 1 .. m1 /\ i \in 1 .. m2 /\ i <= m1 /\ i <= m2
      BY <1>2, <2>1
    <3> QED
      BY <1>6, <1>7, <1>8, <2>1, <3>1
  <2>2. CASE i = m1
    <3>1. i \in 1 .. m1 /\ i \in 1 .. m2 /\ i <= m1 /\ i <= m2 /\ ~(i <= l) /\ i - l = 1
      BY <1>2, <2>2
    <3> QED
      BY <1>5, <1>6, <1>7, <1>8, <2>2, <3>1
  <2>3. CASE m1 < i /\ i <= m2
    <3>1. i \in 1 .. m2 /\ ~(i <= m1) /\ ~(i <= l) /\ i - m1 \in 1 .. k /\ i # m1
      BY <1>2, <2>3
    <3> QED
      BY <1>5, <1>7, <1>8, <2>3, <3>1
  <2>4. CASE m2 < i
    <3>1. ~(i <= m2) /\ ~(i <= l) /\ i - m2 \in 1 .. 64 /\ 64 - (i - m2) = m3 - i
      BY <1>2, <2>4
    <3> QED
      BY <1>5, <1>8, <3>1
  <2> QED
    BY <1>2, <2>1, <2>2, <2>3, <2>4
<1> QED
  BY <1>1, <1>3, <1>8, <1>9, <1>10

\* A message of n bytes that is padded to p.
PaddedTo(message, n, p) == Len(message) = n /\ padded_len(message) = p

\* Bit r of byte idx of the padded message, the most significant one being bit 0, is
\* bit i of the standard's padding of n bytes to p.
BitAsStandard(message, n, p, idx, r, i) ==
  (7 - r) \in PaddedByte(message, idx) <=>
    IF i <= 8 * n THEN (7 - r) \in message[idx + 1]
    ELSE IF i <= 8 * p - 64 THEN i = 8 * n + 1
    ELSE 8 * p - i \in BitsOf(8 * n, 64)

\* Every bit of the padded message is the standard's.
LEMMA PaddedBit ==
  ASSUME NEW message, NEW n \in Nat, NEW p \in Nat, n + 9 <= p, PaddedTo(message, n, p),
         NEW idx \in Nat, NEW r \in 0 .. 7, NEW i \in Nat, i = 8 * idx + r + 1
  PROVE  BitAsStandard(message, n, p, idx, r, i)
<1>1. CASE idx < n
  <2>1. i <= 8 * n
    BY <1>1
  <2>2. PaddedByte(message, idx) = message[idx + 1]
    BY <1>1 DEF PaddedByte, PaddedTo
  <2> QED
    BY <2>1, <2>2 DEF BitAsStandard
<1>2. CASE idx = n
  <2>1. ~(i <= 8 * n) /\ i <= 8 * p - 64 /\ (i = 8 * n + 1 <=> 7 - r = 7)
    BY <1>2
  <2>2. PaddedByte(message, idx) = {7}
    BY <1>2 DEF PaddedByte, PaddedTo
  <2> QED
    BY <2>1, <2>2 DEF BitAsStandard
<1>3. CASE idx > n /\ idx < p - 8
  <2>1. ~(i <= 8 * n) /\ i <= 8 * p - 64 /\ i # 8 * n + 1
    BY <1>3
  <2>2. PaddedByte(message, idx) = {}
    BY <1>3 DEF PaddedByte, PaddedTo
  <2> QED
    BY <2>1, <2>2 DEF BitAsStandard
<1>4. CASE idx >= p - 8
  <2> DEFINE shift == (7 - (idx - (p - 8))) * 8
  <2>1. ~(i <= 8 * n) /\ ~(i <= 8 * p - 64) /\ ~(idx < n) /\ idx # n
    BY <1>4
  <2>2. (7 - r) + shift = 8 * p - i /\ 7 - r \in 0 .. 63 /\ 7 - r \in 0 .. 7
    OBVIOUS
  <2>3. PaddedByte(message, idx) = Shr(BitsOf(8 * n, 64), shift) \cap (0 .. 7)
    BY <1>4, <2>1 DEF PaddedByte, PaddedTo
  <2> HIDE DEF shift
  <2> QED
    BY <2>1, <2>2, <2>3 DEF Shr, BitAsStandard
<1> QED
  BY <1>1, <1>2, <1>3, <1>4

\* What is hashed is the standard's padding of the message.
LEMMA PaddingOfAnyLength ==
  ASSUME NEW message, Len(message) \in Nat
  PROVE  BitString(Hashed(message)) = StandardPadding(BitString(message))
<1>1. PICK n \in Nat, p \in Nat :
        PaddedTo(message, n, p) /\ p % 64 = 0 /\ n + 9 <= p /\ p <= n + 72
  BY PaddedLength DEF PaddedTo
<1>2. /\ OfLength(BitString(message), 8 * n)
      /\ \A i \in 1 .. (8 * n) :
           BitString(message)[i] = ((7 - ((i - 1) % 8)) \in message[((i - 1) \div 8) + 1])
  BY <1>1, BitStringIs DEF PaddedTo
<1>3. OfLength(BitString(message), 8 * n)
  BY <1>2
<1>4. /\ OfLength(StandardPadding(BitString(message)), 8 * p)
      /\ \A i \in 1 .. (8 * p) :
           StandardPadding(BitString(message))[i] =
             IF i <= 8 * n THEN BitString(message)[i]
             ELSE IF i <= 8 * p - 64 THEN i = 8 * n + 1
             ELSE 8 * p - i \in BitsOf(8 * n, 64)
  BY <1>1, <1>3, StandardPaddingIs
<1>5. /\ Len(Hashed(message)) = p
      /\ \A i \in 1 .. p : Hashed(message)[i] = PaddedByte(message, i - 1)
  BY <1>1, HashedBytes DEF PaddedTo
<1>6. /\ OfLength(BitString(Hashed(message)), 8 * p)
      /\ \A i \in 1 .. (8 * p) :
           BitString(Hashed(message))[i] =
             ((7 - ((i - 1) % 8)) \in Hashed(message)[((i - 1) \div 8) + 1])
  BY <1>5, BitStringIs
<1>7. ASSUME NEW i \in 1 .. (8 * p)
      PROVE  BitString(Hashed(message))[i] = StandardPadding(BitString(message))[i]
  <2>1. PICK idx \in 0 .. (p - 1), r \in 0 .. 7 :
          idx = (i - 1) \div 8 /\ r = (i - 1) % 8 /\ i = 8 * idx + r + 1
    <3>1. /\ (i - 1) \div 8 \in 0 .. (p - 1) /\ (i - 1) % 8 \in 0 .. 7
          /\ i = 8 * ((i - 1) \div 8) + ((i - 1) % 8) + 1
      OBVIOUS
    <3> QED
      BY <3>1
  <2>2. BitString(Hashed(message))[i] = ((7 - r) \in Hashed(message)[idx + 1])
    BY <1>6, <2>1
  <2>3. ASSUME i <= 8 * n PROVE BitString(message)[i] = ((7 - r) \in message[idx + 1])
    <3>1. i \in 1 .. (8 * n)
      BY <2>3
    <3>2. BitString(message)[i] = ((7 - ((i - 1) % 8)) \in message[((i - 1) \div 8) + 1])
      BY <1>2, <3>1
    <3> QED
      BY <2>1, <3>2, Zenon
  <2>4. Hashed(message)[idx + 1] = PaddedByte(message, idx)
    <3>1. idx + 1 \in 1 .. p /\ idx + 1 - 1 = idx
      OBVIOUS
    <3> QED
      BY <1>5, <3>1
  <2>5. (7 - r) \in PaddedByte(message, idx) <=>
          IF i <= 8 * n THEN (7 - r) \in message[idx + 1]
          ELSE IF i <= 8 * p - 64 THEN i = 8 * n + 1
          ELSE 8 * p - i \in BitsOf(8 * n, 64)
    <3>1. idx \in Nat /\ i \in Nat /\ i = 8 * idx + r + 1
      BY <2>1
    <3>2. PaddedTo(message, n, p) /\ n + 9 <= p
      BY <1>1
    <3>3. BitAsStandard(message, n, p, idx, r, i)
      BY <3>1, <3>2, PaddedBit
    <3> QED
      BY <3>3 DEF BitAsStandard
  <2> QED
    BY <1>4, <2>2, <2>3, <2>4, <2>5
<1> QED
  BY <1>4, <1>6, <1>7, SameBytes

\* A digest is made of bytes, whatever the message.
LEMMA DigestBytes == ASSUME NEW message PROVE Sha256Of(message) \in [1 .. 32 -> Byte8]
<1>1. ASSUME NEW w, NEW i \in 1 .. 4 PROVE StoreBe32(w)[i] \in Byte8
  BY DEF StoreBe32, WordToMemory, Byte8
<1>2. ASSUME NEW words PROVE Stored(words) \in [1 .. 32 -> Byte8]
  <2>1. ASSUME NEW i \in 1 .. 32
        PROVE  StoreBe32(words[((i - 1) \div 4) + 1])[((i - 1) % 4) + 1] \in Byte8
    <3>1. ((i - 1) % 4) + 1 \in 1 .. 4
      OBVIOUS
    <3> QED
      BY <1>1, <3>1
  <2> QED
    BY <2>1 DEF Stored
<1> QED
  BY <1>2 DEF Sha256Of

-----------------------------------------------------------------------------
(* Theorems about ComputeSha256.                                           *)

\* Message and digest are bytes.
THEOREM HashTyped == HashSpec => []HashTypeOK
<1>1. HashInit => HashTypeOK
  BY MessageAssumption DEF HashInit, HashTypeOK, ZeroDigest, Byte8
<1>2. HashTypeOK /\ [ComputeSha256]_hash_vars => HashTypeOK'
  BY DigestBytes DEF HashTypeOK, ComputeSha256, hash_vars
<1> QED
  BY <1>1, <1>2, PTL DEF HashSpec

\* At every length the blocks hashed are the message padded as FIPS 180-4 has it.
THEOREM PaddingIsStandard == HashSpec => []PaddingStandard
<1>1. HashTypeOK => PaddingStandard
  <2>1. data \in Seq(Byte8) => Len(data) \in Nat
    OBVIOUS
  <2> QED
    BY <2>1, PaddingOfAnyLength DEF HashTypeOK, PaddingStandard
<1> QED
  BY <1>1, HashTyped, PTL
=============================================================================
