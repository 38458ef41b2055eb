SPECIFICATION Spec
CONSTANTS
  d1 = d1
  d2 = d2
  d3 = d3
  s1 = s1
  s2 = s2
  p1 = p1
  r1 = r1
  r2 = r2
  Null = Null
  Deliveries = {d1, d2}
  Subscriptions = {s1}
  Plugins = {p1}
  Replicas = {r1, r2}
  SubOf <- MCSubOf
  PluginOf <- MCPluginOf
  Skew <- MCSkewed
  MaxAttempts <- MCMaxAttempts
  WireMaxAttempt = 3
  ClaimLimit = 2
  LeaseTime = 2
  OpenTime = 1
  FailureThreshold = 1
  MaxFailureCount = 3
  MaxRetryDelay = 1
  MaxOutstandingPerPlugin = 1
  MaxOutstandingPerSubscription = 1
  MaxClock = 4
  MaxRevision = 1
INVARIANTS
  TypeOK
  LeaseIffDelivering
  HalfOpenHasLiveProbe
  CircuitMatchesFailures
PROPERTIES
  DeliveredIsFinal
  CircuitAdmitsOneProbe
  QuotaExceededOnlyByRequeue
SYMMETRY Symmetry
