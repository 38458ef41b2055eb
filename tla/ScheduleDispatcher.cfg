SPECIFICATION DispatcherSpec
CONSTANTS
  j1 = j1
  j2 = j2
  k1 = k1
  k2 = k2
  r1 = r1
  r2 = r2
  Null = Null
  Replicas = {r1, r2}
  Skew <- MCSkewed
  Interval <- MCInterval
  MaxAttempts <- MCMaxAttempts
  LeaseTime = 2
  MaxRetryDelay = 1
  Jobs = {j1, j2}
  Commands = {k1, k2}
  ClaimLimit = 1
  MaxClock = 4
  MaxRevision = 2
INVARIANTS
  DispatcherTypeOK
  OneOwnerPerAttempt
PROPERTIES
  SchedulePromise
  ReceiptMatchesAttempt
