SPECIFICATION DispatcherSpec
CONSTANTS
  d1 = d1
  d2 = d2
  d3 = d3
  s1 = s1
  s2 = s2
  p1 = p1
  r1 = r1
  r2 = r2
  Null = Null
  Deliveries = {d1, d2}
  Subscriptions = {s1}
  Plugins = {p1}
  Replicas = {r1, r2}
  SubOf <- MCSubOf
  PluginOf <- MCPluginOf
  Skew <- MCSynchronized
  MaxAttempts <- MCMaxAttempts
  WireMaxAttempt = 3
  ClaimLimit = 2
  LeaseTime = 2
  OpenTime = 1
  FailureThreshold = 2
  MaxFailureCount = 3
  MaxRetryDelay = 1
  MaxOutstandingPerPlugin = 2
  MaxOutstandingPerSubscription = 2
  MaxClock = 2
  MaxRevision = 0
INVARIANTS
  DispatcherTypeOK
PROPERTIES
  DeliveryPromise
  AwaitedReceiptMatches
SYMMETRY Symmetry
