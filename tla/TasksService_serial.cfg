\* Mutations of one task do not overlap.
CONSTANTS
    t1 = t1  t2 = t2  r1 = r1  r2 = r2  r3 = r3  r4 = r4
    NoRow = NoRow
    NoTask = NoTask
    Task <- MCTwoTasks
    Request <- MCFourRequests
    Field <- MCField
    Value <- MCValue
    NewRows <- MCNewRows
    Dtos <- MCDtos
    OneWriterPerTask = TRUE
    MaxFaults = 1
SYMMETRY Symmetry
SPECIFICATION Spec
INVARIANTS
    FateExplained
    ColumnsExplained
    LastEventIsCurrent
PROPERTY KeepsHistory
CHECK_DEADLOCK FALSE
