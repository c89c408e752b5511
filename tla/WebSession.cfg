\* One browser with two requests in flight, and other clients of the accounts.
CONSTANTS
    u1 = u1  u2 = u2  e1 = e1  e2 = e2  c1 = c1  c2 = c2  c3 = c3  c4 = c4
    r1 = r1  r2 = r2
    NoAccount = NoAccount
    Removed = Removed
    NoToken = NoToken
    NoUser = NoUser
    NoSession = NoSession
    NoCall = NoCall
    User <- MCUser
    Email <- MCEmail
    Call <- MCCall
    Request <- MCRequest
    OtherOps <- MCOtherOps
    MaxOthers = 1
    MaxFaults = 1
SPECIFICATION Spec
INVARIANTS
    TypeOK
    OnlyLogoutEndsSessions
    RegisteredOnce
    SessionRenewable
PROPERTY RequestsEnd
CHECK_DEADLOCK FALSE
