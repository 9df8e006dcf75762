\* The feedback polynomial of this mask factors, as that of the code's mask does: there
\* are cycles of 105, 15, 7 and 1.  No property here counts nonces, hence FullPeriod.
CONSTANTS
  Width = 8
  Mask = {7, 5, 2}
  WordsPerNonce = 8
  Seeds <- EverySeed
  FullPeriod = 1
  MaxLength = 130
  Messages <- ShortMessages
  KnownAnswers <- Answers
  LittleEndianHost = TRUE
  kSha256DigestLen = 2
  kNonceLen = 2
  kClientIdLen = 1
  HmacBlockLen = 3
  NonceBytes = {"00", "a"}
  ClientBytes = {"00", "a", "b"}
  PublicKeys = {mock, other}
  kMockEccPublicKey = mock
SPECIFICATION ProviderSpec
INVARIANTS
  TypeOK
  HashTypeOK
  NeverZero
  NoEarlyRepeat
  PaddingStandard
  AnswersKnown
  SignatureBindsHandshake
  KeysSeparate
  KeyIsHkdf
\* A hash is one call, and the behaviour ends.
CHECK_DEADLOCK FALSE
