SPECIFICATION Spec
CONSTANTS
  w1 = w1
  w2 = w2
  Null = Null
  Workers = {w1, w2}
  Managers = {}
  OwnerOf <- MCOwnEach
  LastPlan = 2
  Plan <- MCPlan
  LeaseTime = 1
  MaxClock = 2
  MaxRevision = 6
INVARIANT
  LivePlanKept
