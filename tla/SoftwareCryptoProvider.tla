----------------------- MODULE SoftwareCryptoProvider -----------------------
(***************************************************************************)
(* Signature verification and key derivation of SoftwareCryptoProvider:    *)
(* what is laid into which buffer at which offset before it is hashed.     *)
(* SHA-256 is a constructor here (Sha256 has the function itself): two     *)
(* digests are equal when they have the same input.  Bytes are symbols,    *)
(* and the lengths are constants, so that short buffers show an overlap    *)
(* as long ones would.                                                     *)
(***************************************************************************)
EXTENDS Integers, Sequences

CONSTANTS
  kSha256DigestLen,     \* also the length of the salt and of a session key
  kNonceLen, kClientIdLen,
  HmacBlockLen,         \* 64 in the code
  NonceBytes, ClientBytes,   \* the values of a nonce's and of a client id's bytes
  PublicKeys, kMockEccPublicKey

ASSUME LengthAssumption ==
  /\ {kSha256DigestLen, kNonceLen, kClientIdLen, HmacBlockLen} \subseteq Nat \ {0}
  /\ kSha256DigestLen <= HmacBlockLen
ASSUME KeyAssumption == kMockEccPublicKey \in PublicKeys

VARIABLES
  handshake,    \* the nonce and the client id both calls are about
  signature, public_key,   \* the further arguments of VerifyEccSignature
  status,       \* what VerifyEccSignature returned
  key_out       \* what DeriveSessionKey wrote

call_vars == <<handshake, signature, public_key, status, key_out>>

Byte(v) == <<"byte", v>>
Zero == Byte("00")
Named(name, n) == [i \in 1 .. n |-> <<"secret", name, i>>]
kMockMasterSalt == Named("salt", kSha256DigestLen)
kHkdfInfo == <<Byte("info")>>

Nonces == [1 .. kNonceLen -> {Byte(v) : v \in NonceBytes}]
ClientIds == [1 .. kClientIdLen -> {Byte(v) : v \in ClientBytes}]

Sha256Impl(bytes) == [i \in 1 .. kSha256DigestLen |-> <<"sha256", i, bytes>>]
Xored(v, byte) == IF byte = Zero THEN Byte(v) ELSE <<"xor", v, byte>>

Buffer(n) == [i \in 1 .. n |-> Zero]
memcpy(buffer, offset, bytes) ==
  [i \in 1 .. Len(buffer) |->
     IF i - offset \in 1 .. Len(bytes) THEN bytes[i - offset] ELSE buffer[i]]

-----------------------------------------------------------------------------
(* VerifyEccSignature.                                                     *)

\* The engine's digest of nonce and client id.
ComputeChallengeDigest(nonce, client) ==
  Sha256Impl(memcpy(memcpy(Buffer(kNonceLen + kClientIdLen), 0, nonce), kNonceLen, client))

CombinedForR(digest) ==
  memcpy(memcpy(Buffer(2 * kSha256DigestLen), 0, digest), kSha256DigestLen, kMockMasterSalt)

\* The buffer is used again, with what the first part left in it.
CombinedForS(digest) ==
  memcpy(memcpy(CombinedForR(digest), 0, kMockMasterSalt), kSha256DigestLen, digest)

\* Mutant: the second half of the signature is not looked at.
SignatureMatchesR(digest) ==
  \A i \in 1 .. kSha256DigestLen : signature[i] = Sha256Impl(CombinedForR(digest))[i]

SignatureMatches(digest) ==
  \A i \in 1 .. kSha256DigestLen :
    /\ signature[i] = Sha256Impl(CombinedForR(digest))[i]
    /\ signature[i + kSha256DigestLen] = Sha256Impl(CombinedForS(digest))[i]

-----------------------------------------------------------------------------
(* DeriveSessionKey.                                                       *)

PadBlock(v, key) ==
  [i \in 1 .. HmacBlockLen |-> IF i <= kSha256DigestLen THEN Xored(v, key[i]) ELSE Byte(v)]

\* Mutant: the client id overlaps the end of the nonce.
InnerInputOverlapping(nonce, client) ==
  memcpy(memcpy(memcpy(Buffer(HmacBlockLen + kNonceLen + kClientIdLen),
                       0, PadBlock("36", kMockMasterSalt)),
                HmacBlockLen, nonce),
         HmacBlockLen + kNonceLen - 1, client)

InnerInput(nonce, client) ==
  memcpy(memcpy(memcpy(Buffer(HmacBlockLen + kNonceLen + kClientIdLen),
                       0, PadBlock("36", kMockMasterSalt)),
                HmacBlockLen, nonce),
         HmacBlockLen + kNonceLen, client)

OuterInput(key, inner_hash) ==
  memcpy(memcpy(Buffer(HmacBlockLen + kSha256DigestLen), 0, PadBlock("5C", key)),
         HmacBlockLen, inner_hash)

Prk(nonce, client) ==
  Sha256Impl(OuterInput(kMockMasterSalt, Sha256Impl(InnerInput(nonce, client))))

ExpandInner(prk) ==
  memcpy(memcpy(memcpy(Buffer(HmacBlockLen + Len(kHkdfInfo) + 1), 0, PadBlock("36", prk)),
                HmacBlockLen, kHkdfInfo),
         HmacBlockLen + Len(kHkdfInfo), <<Byte("01")>>)

\* Mutant: the expansion starts from the salt again.
SessionKeyFromSalt(nonce, client) ==
  Sha256Impl(OuterInput(kMockMasterSalt, Sha256Impl(ExpandInner(Prk(nonce, client)))))

SessionKey(nonce, client) ==
  Sha256Impl(OuterInput(Prk(nonce, client), Sha256Impl(ExpandInner(Prk(nonce, client)))))

-----------------------------------------------------------------------------
(* The operations.  A zone node signs the digest with the scheme the test  *)
(* peers use; its signature may be damaged, or stem from another handshake. *)

NodeSignature(digest) ==
  Sha256Impl(digest \o kMockMasterSalt) \o Sha256Impl(kMockMasterSalt \o digest)

Handshakes == [nonce : Nonces, client : ClientIds]
DigestOf(h) == ComputeChallengeDigest(h.nonce, h.client)

Damaged(sig) ==
  {[sig EXCEPT ![i] = Zero] : i \in DOMAIN sig}
    \cup {[i \in DOMAIN sig |-> sig[((i - 1) % kSha256DigestLen) + 1]]}
Signatures ==
  LET genuine == {NodeSignature(DigestOf(h)) : h \in Handshakes}
  IN  genuine \cup UNION {Damaged(sig) : sig \in genuine}

\* The provider keeps nothing between calls: one handshake shows everything.  (Named
\* so that MCSoftwareCryptoProvider can extend this module and the register's.)
CallsInit ==
  /\ handshake \in Handshakes
  /\ signature \in Signatures
  /\ public_key \in PublicKeys
  /\ status = "none"
  /\ key_out = Buffer(kSha256DigestLen)

VerifyEccSignature ==
  /\ status' = IF public_key = kMockEccPublicKey /\ SignatureMatches(DigestOf(handshake))
               THEN "kOk" ELSE "kVerifyFailed"
  /\ UNCHANGED <<handshake, signature, public_key, key_out>>

DeriveSessionKey ==
  /\ key_out' = memcpy(key_out, 0, SessionKey(handshake.nonce, handshake.client))
  /\ UNCHANGED <<handshake, signature, public_key, status>>

CallsNext == VerifyEccSignature \/ DeriveSessionKey

CallsSpec == CallsInit /\ [][CallsNext]_call_vars

-----------------------------------------------------------------------------
(* What the engine relies on when it takes the signature over a challenge, *)
(* and the key derived from it, for the pair of nonce and client.          *)

\* A signature is accepted only from the known key and for the very handshake it
\* was made for: every byte of both halves is compared, over the digest of this
\* nonce and this client; and the genuine one is accepted.
SignatureBindsHandshake ==
  /\ status = "kOk" =>
       /\ public_key = kMockEccPublicKey
       /\ \A h \in Handshakes : signature = NodeSignature(DigestOf(h)) => h = handshake
       /\ \E h \in Handshakes : signature = NodeSignature(DigestOf(h))
  /\ status = "kVerifyFailed" =>
       public_key # kMockEccPublicKey \/ signature # NodeSignature(DigestOf(handshake))

Derived == key_out # Buffer(kSha256DigestLen)

\* Two handshakes that differ in the nonce or in the client never get one key,
\* wherever nonce and client id meet in the buffer.
KeysSeparate ==
  Derived => \A h \in Handshakes : SessionKey(h.nonce, h.client) = key_out => h = handshake

\* RFC 2104 and RFC 5869, by concatenation.
Hmac(key, text) ==
  LET Padded(v) == [i \in 1 .. HmacBlockLen |->
                       IF i <= Len(key) THEN Xored(v, key[i]) ELSE Byte(v)]
  IN  Sha256Impl(Padded("5C") \o Sha256Impl(Padded("36") \o text))
HkdfExtract(salt, ikm) == Hmac(salt, ikm)
HkdfExpandFirst(prk, info) == Hmac(prk, info \o <<Byte("01")>>)

\* hpp:197: the session key is HKDF-SHA-256 of nonce and client id, in the buffers
\* and with the offsets of the code.
KeyIsHkdf ==
  Derived =>
    key_out = HkdfExpandFirst(HkdfExtract(kMockMasterSalt, handshake.nonce \o handshake.client),
                              kHkdfInfo)
=============================================================================
