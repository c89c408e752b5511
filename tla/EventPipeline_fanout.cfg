\* Are notifications stored before the WebSocket fan-out?
CONSTANTS
    e1 = e1  e2 = e2  u1 = u1  u2 = u2  s1 = s1  s2 = s2
    NoUser = NoUser
    NoEvent = NoEvent
    Event <- MCOneEvent
    User <- MCUser
    Slot <- MCSlot
    Payloads <- MCPayloads
    NoAck = FALSE
    MaxFaults = 0
SPECIFICATION Spec
INVARIANT StoredBeforeFanOut
CHECK_DEADLOCK FALSE
