SPECIFICATION LiveSpec
CONSTANTS
  tm_group = tm
  r1 = r1
  r2 = r2
  TM = tm
  RMs <- MCRMs
  Groups <- MCGroups
  Links <- MCLinks
  LeaderChanges <- OneGroup
  MayAbort = {r1}
  MaxGen = 1
CHECK_DEADLOCK FALSE
INVARIANTS TypeOK FollowersAgree ClosedMeansResolved ReplyIsOutcome UnwrapsFindES
PROPERTIES ImplementsTransactionCommit PreparedIsClosed
