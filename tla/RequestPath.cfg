\* Every request in turn; two of them while a list is read page by page.
CONSTANTS
    Environments <- MCEnvironments
    Together <- MCTogether
    MaxRetries = 3
    MaxRestarts = 1
    MaxFaults = 1
    Slot <- MCSlot
    Plain <- MCPlain
    Probe <- MCProbe
    Odd <- MCOdd
    Size <- MCSize
    Column <- MCColumn
    Filter <- MCFilter
    MaxRows = 3
SPECIFICATION Spec
INVARIANTS
    TypeOK
    BackoffAsDefined
    ServiceAgreesWithPipe
    StatusKept
    TrailUnbroken
    WalkComplete
PROPERTIES
    StartsInOrder
    StartsIfReachable
    RequestsAnswered
CHECK_DEADLOCK FALSE
