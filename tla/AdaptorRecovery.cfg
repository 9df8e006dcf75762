CONSTANTS
  Clients = {c1}
  ZeroId = zero
  ZeroKey = erased
  Peers = {c1}
  MaxNonces = 3
  ZoneSlots = 1
  kMaxActiveSessions = 1
  kTokenLifetimeMs = 0
  kMaxAnomalyCount = 2
  CounterMax = 2
  TickPeriod = 1
  TimeModulus = 2
SPECIFICATION RecoverySpec
PROPERTIES
  SessionRegained
  SessionsDoNotLinger
