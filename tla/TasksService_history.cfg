\* Does the audit log tell who changed what, when requests overlap?
CONSTANTS
    t1 = t1  t2 = t2  r1 = r1  r2 = r2  r3 = r3  r4 = r4
    NoRow = NoRow
    NoTask = NoTask
    Task <- MCOneTask
    Request <- MCThreeRequests
    Field <- MCField
    Value <- MCValue
    NewRows <- MCNewRows
    Dtos <- MCDtos
    OneWriterPerTask = FALSE
    MaxFaults = 0
SPECIFICATION Spec
INVARIANT ColumnsExplained
CHECK_DEADLOCK FALSE
