\* Does a failed save come back, as the README says, in the deployed mode?
CONSTANTS
    e1 = e1  e2 = e2  u1 = u1  u2 = u2  s1 = s1  s2 = s2
    NoUser = NoUser
    NoEvent = NoEvent
    Event <- MCOneEvent
    User <- MCUser
    Slot <- MCSlot
    Payloads <- MCPayloads
    NoAck = TRUE
    MaxFaults = 1
SPECIFICATION Spec
PROPERTY FailureIsRedelivered
CHECK_DEADLOCK FALSE
