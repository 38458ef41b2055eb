SPECIFICATION Spec
CONSTANTS
  Installations = {1, 2}
  Managers = {a1, a2}
  LastRetried = 1
  LastExpiry = 1
  None = None
SYMMETRY Interchangeable
CHECK_DEADLOCK FALSE
INVARIANTS
  TypeOK
  LeaseHoldsDeployment
  ApprovalPinsReview
  HeldExecutionIsApproved
PROPERTIES
  LeaseEndsByHolderOrClock
  ApprovalPromise
