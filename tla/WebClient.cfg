\* The pages of the web client, one of their parts at a time.
CONSTANTS
    t1 = t1  t2 = t2
    NoData = NoData  NoZone = NoZone  NoDate = NoDate  Closed = Closed
    NoRequest = NoRequest
    Scene = {"form", "tasks", "pages", "bell"}
    Zone <- MCZone
    Day <- MCDay
    MaxRepeats = 2
    Task <- MCTask
    Opened = t1
    Slice <- MCFirstPage
    MaxVersion = 3
    MaxChanges = 2
    MaxLosses = 1
    TaskView <- MCTaskView
    EntrySize = 1
    MaxRows = 2
    MaxEntries = 3
    MaxMoves = 1
    MaxFetches = 2
    MaxFails = 1
    DefaultLimit = 2
    MaxTotal = 4
    MaxFaults = 1
INIT MCInit
NEXT Next
INVARIANTS
    TypeOK
    DueDateDrift
    DayFilterExact
    RowsExplained
    ReadYourWrites
    RangesSound
    OwnCommentShown
    NotificationsAnnounced
CHECK_DEADLOCK FALSE
