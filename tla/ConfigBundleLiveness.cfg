SPECIFICATION FairSpec
CONSTANTS
  a1 = a1
  a2 = a2
  w1 = w1
  w2 = w2
  Null = Null
  Applies = {a1}
  Workers = {w1, w2}
  Pages = 2
  Needs <- MCNeedsBoth
  Serves <- MCServesAll
  MaxFaults = 2
CHECK_DEADLOCK FALSE
PROPERTIES
  TasksSettle
