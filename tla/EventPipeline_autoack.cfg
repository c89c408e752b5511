\* The deployed configuration: neither bootstrap sets noAck.
CONSTANTS
    e1 = e1  e2 = e2  u1 = u1  u2 = u2  s1 = s1  s2 = s2
    NoUser = NoUser
    NoEvent = NoEvent
    Event <- MCEvent
    User <- MCUser
    Slot <- MCSlot
    Payloads <- MCPayloads
    NoAck = TRUE
    MaxFaults = 1
SYMMETRY Symmetry
SPECIFICATION Spec
INVARIANTS
    TypeOK
    StoredBeforeRelay
    DuplicatesArePaidFor
    OnlyConcernedUsersNotified
CHECK_DEADLOCK FALSE
