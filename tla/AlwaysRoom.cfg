CONSTANTS
  Clients = {c1, c2, c3}
  ZeroId = zero
  Keys = {k1}
  ZeroKey = erased
  kMaxActiveSessions = 2
  kTokenLifetimeMs = 1
  kMaxAnomalyCount = 2
  CounterMax = 3
  TickPeriod = 1
  TimeModulus = 3
SPECIFICATION AuditSpec
INVARIANT AlwaysRoom
