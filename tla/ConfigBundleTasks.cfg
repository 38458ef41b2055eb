SPECIFICATION Spec
CONSTANTS
  a1 = a1
  a2 = a2
  w1 = w1
  w2 = w2
  Null = Null
  Applies = {a1, a2}
  Workers = {w1, w2}
  Pages = 3
  Needs <- MCNeeds
  Serves <- MCServes
  MaxFaults = 1
CHECK_DEADLOCK FALSE
INVARIANTS
  TypeOK
  CursorCovers
  CompletedIsMade
  QuietIsReplayed
PROPERTIES
  SettledStays
