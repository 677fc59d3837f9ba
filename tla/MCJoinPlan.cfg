SPECIFICATION JoinSpec
CONSTANTS
  NoKey = NoKey
  HalfRange = 4
  KeyCols <- MCKeyCols
  KeyVals <- MCKeyVals
  OtherVals <- MCOtherVals
  Leaves <- MCLeaves
  GrowOps <- MCGrowOps
  MaxGrow = 2
  SplitAt = {0}
  RowKeys <- MCRowKeys
  RowVals = {"x", "y"}
  MaxTs = 3
  MaxStages = 3
  MaxEvents = 4
  JoinQueries <- MCJoinQueries
  JoinTables <- MCJoinTables
  JoinContexts <- MCJoinContexts
  FirstKeyCols <- MCFirstKeyCols
CHECK_DEADLOCK FALSE
INVARIANTS
  PlanComplete
