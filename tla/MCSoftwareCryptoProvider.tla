---------------------- MODULE MCSoftwareCryptoProvider ----------------------
(***************************************************************************)
(* The whole of SoftwareCryptoProvider for TLC.  The register is all it    *)
(* keeps between calls, so that its operations cannot disturb one another: *)
(* a behaviour draws nonces, or hashes a message, or verifies signatures   *)
(* and derives keys, and the variables of the other operations stay as     *)
(* they are.                                                               *)
(***************************************************************************)
EXTENDS MCGaloisLfsr, Sha256, Sha256Answers, SoftwareCryptoProvider

VARIABLE operation   \* what this behaviour is about

provider_vars == <<operation, vars, hash_vars, call_vars>>

IdleLfsr == lfsr_state_ = {0} /\ seeded = {0} /\ drawn = 0 /\ past = {}
IdleHash == data = <<>> /\ digest_out = ZeroDigest /\ hash_status = "none"
IdleCalls ==
  /\ handshake = CHOOSE h \in Handshakes : TRUE
  /\ signature = Buffer(2 * kSha256DigestLen)
  /\ public_key = kMockEccPublicKey
  /\ status = "none"
  /\ key_out = Buffer(kSha256DigestLen)

ProviderInit ==
  \/ operation = "nonces" /\ Init /\ IdleHash /\ IdleCalls
  \/ operation = "hash" /\ IdleLfsr /\ HashInit /\ IdleCalls
  \/ operation = "keys" /\ IdleLfsr /\ IdleHash /\ CallsInit

ProviderNext ==
  /\ \/ operation = "nonces" /\ GenerateRandomNonce /\ UNCHANGED <<hash_vars, call_vars>>
     \/ operation = "hash" /\ ComputeSha256 /\ UNCHANGED <<vars, call_vars>>
     \/ /\ operation = "keys"
        /\ VerifyEccSignature \/ DeriveSessionKey
        /\ UNCHANGED <<vars, hash_vars>>
  /\ UNCHANGED operation

ProviderSpec == ProviderInit /\ [][ProviderNext]_provider_vars

=============================================================================
