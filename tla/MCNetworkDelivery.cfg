SPECIFICATION LiveSpec
CONSTANTS
  g1 = g1
  g2 = g2
  Groups <- MCGroups
  Links <- MCLinks
  LeaderChanges <- MCLeaderChanges
  MaxGen = 2
  MaxSent = 2
INVARIANTS NoGap PersistedBeforeDelivered BufferUnblocks
PROPERTIES EventuallyDelivered
CHECK_DEADLOCK FALSE
