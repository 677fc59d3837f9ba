SPECIFICATION Spec
CONSTANTS
  NoKey = NoKey
  HalfRange = 4
  KeyCols <- MCKeyCols
  KeyVals <- MCKeyVals
  OtherVals <- MCOtherVals
  Leaves <- MCLeaves
  GrowOps <- MCGrowOps
  MaxGrow = 0
  SplitAt = {0}
  RowKeys <- MCRowKeys
  RowVals = {"x", "y"}
  MaxTs = 3
  MaxStages = 3
  JoinQueries <- MCJoinQueries
  JoinTables <- MCJoinTables
  JoinContexts <- MCJoinContexts
  FirstKeyCols <- MCFirstKeyCols
  MaxEvents = 4
CHECK_DEADLOCK FALSE
INVARIANTS
  SnapshotIsReplay
