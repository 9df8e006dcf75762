CONSTANTS
  Clients = {c1, c2, stranger}
  ZeroId = zero
  Peers = {c1, c2}
  MaxNonces = 3
SPECIFICATION Spec
INVARIANTS
  TypeOK
  AuthenticatedPeerProven
  RevokedIsSanitised
PROPERTIES
  ChallengeUsedOnce
  ChallengeStable
