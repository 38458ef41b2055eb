SPECIFICATION DispatcherSpec
CONSTANTS
  d1 = d1
  d2 = d2
  d3 = d3
  s1 = s1
  s2 = s2
  p1 = p1
  r1 = r1
  r2 = r2
  Null = Null
  Deliveries = {d1, d3}
  Subscriptions = {s1, s2}
  Plugins = {p1}
  Replicas = {r1}
  SubOf <- MCSubOf
  PluginOf <- MCPluginOf
  Skew <- MCSynchronized
  MaxAttempts <- MCMaxAttempts
  WireMaxAttempt = 2
  ClaimLimit = 2
  LeaseTime = 1
  OpenTime = 1
  FailureThreshold = 2
  MaxFailureCount = 3
  MaxRetryDelay = 1
  MaxOutstandingPerPlugin = 2
  MaxOutstandingPerSubscription = 2
  MaxClock = 3
  MaxRevision = 0
INVARIANTS
  NoDeliveryBlocksAnother
