CONSTANTS
  Clients = {c1, c2, c3, c4}
  ZeroId = zero
  Keys = {k1}
  ZeroKey = erased
  kMaxActiveSessions = 3
  kTokenLifetimeMs = 1
  kMaxAnomalyCount = 2
  CounterMax = 3
  TickPeriod = 1
  TimeModulus = 3
SPECIFICATION Spec
SYMMETRY IdSymmetry
INVARIANTS
  TypeOK
  OrderMatchesTable
  OldestFirst
  SessionsReachable
  NoSessionWhileLocked
  AgeExact
  StaleWindowBounded
  SecretsErased
PROPERTIES
  LockoutPermanent
  NotifiedOnce
  ImplementsSessionTable
