SPECIFICATION FairSpec
CONSTANTS
  Installations = {1, 2}
  Managers = {a1}
  LastRetried = 1
  LastExpiry = 2
  None = None
CHECK_DEADLOCK FALSE
PROPERTIES
  RequestsAreAnswered
  ApprovalsAreCarriedOut
