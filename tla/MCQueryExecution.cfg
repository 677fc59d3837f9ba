SPECIFICATION Spec
CONSTANTS
    Coord = "Coord"
    Tablets = {"T1", "T2"}
    Plans <- MCPlans
    Errors = {"RuntimeError", "TimestampConflict", "InvalidQueryPlan"}
    MaxErrors = 1
    MaxChanges = 1
    MaxAttempts = 2
CHECK_DEADLOCK FALSE
INVARIANTS
    TypeOK
    CommitsAllWrites
    NoLateralError
    NothingLeft
PROPERTIES
    AnsweredOnce
