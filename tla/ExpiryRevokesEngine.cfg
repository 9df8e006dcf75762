CONSTANTS
  Clients = {c1, c2, stranger}
  ZeroId = zero
  ZeroKey = erased
  Peers = {c1, c2}
  MaxNonces = 2
  ZoneSlots = 2
  kMaxActiveSessions = 2
  kTokenLifetimeMs = 0
  kMaxAnomalyCount = 2
  CounterMax = 2
  TickPeriod = 1
  TimeModulus = 2
SPECIFICATION Spec
SYMMETRY IdSymmetry
PROPERTY ExpiryRevokesEngine
