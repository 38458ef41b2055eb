SPECIFICATION Spec
CONSTANTS
  q1 = q1
  q2 = q2
  q3 = q3
  h1 = h1
  h2 = h2
  o1 = o1
  o2 = o2
  s1 = s1
  l1 = l1
  l2 = l2
  l3 = l3
  Null = Null
  Requests = {q1, q2, q3}
  Hosts = {h1, h2}
  Operations = {o1, o2}
  Subjects = {s1}
  Leases = {l1, l2, l3}
  HostOf <- MCHostOf
  OpsOf <- MCOpsOf
  SubjectOf <- MCSubjectOf
  Skew <- MCInStep
  WindowTime = 2
  MaxPerPlugin = 3
  MaxPerSubject = 2
  MaxConcurrent = 2
  MaxBuckets = 1
  LeaseTime = 2
  MaxAttempts = 2
  Threshold = 1
  OpenTime = 1
  MaxTracked = 1
  MaxClock = 2
SYMMETRY MCSymmetry
INVARIANTS
  TypeOK
  ConcurrencyLimit
  WithinPolicy
  ProbeFlagHasProbe
PROPERTIES
  OpenCircuitKept
