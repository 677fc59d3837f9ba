SPECIFICATION Spec
CONSTANTS
  Writers = {"w1", "w2", "w3"}
  Reads = {"r1", "r2"}
  Plan <- MCPlan
  InitCols = {"a"}
  AlterCol = "a"
  NewRows = {2}
  Timestamps <- MCTimestamps
  Subqueries = {"w2"}
  WaitsFor <- MCWaitsFor
  Scenarios <- MCLostStage
CHECK_DEADLOCK FALSE
INVARIANT CommitsWhole
