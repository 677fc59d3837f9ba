SPECIFICATION LiveSpec
CONSTANTS
  tm_group = tm
  r1 = r1
  r2 = r2
  TM = tm
  RMs <- MCRMs
  Groups <- MCGroups
  Links <- MCLinks
  LeaderChanges <- OneGroup
  MayAbort <- MCRMs
  MaxGen = 1
CHECK_DEADLOCK FALSE
INVARIANTS TypeOK PLmExpected FollowersAgree ReplyIsOutcome
PROPERTIES ImplementsTransactionCommit PreparedIsResolved
