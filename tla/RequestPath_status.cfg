\* The comment of auth-gateway.service.ts on the status codes it preserves.
CONSTANTS
    Environments <- MCEnvironments
    Together <- MCTogether
    MaxRetries = 3
    MaxRestarts = 1
    MaxFaults = 1
    Slot <- MCSlot
    Plain <- MCPlain
    Probe <- MCProbe
    Odd <- MCOdd
    Size <- MCSize
    Column <- MCColumn
    Filter <- MCFilter
    MaxRows = 3
SPECIFICATION Spec
INVARIANTS
    StatusKeptByAuth
CHECK_DEADLOCK FALSE
