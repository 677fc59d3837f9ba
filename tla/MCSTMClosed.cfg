SPECIFICATION Spec
CONSTANTS
  tm_group = tm
  r1 = r1
  r2 = r2
  TM = tm
  RMs <- MCRMs
  Groups <- MCGroups
  Links <- MCLinks
  LeaderChanges <- OneGroup
  MayAbort = {}
  MaxGen = 1
CHECK_DEADLOCK FALSE
INVARIANTS ClosedFindsES
