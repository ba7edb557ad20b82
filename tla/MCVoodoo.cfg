SPECIFICATION FairSpec
CONSTANTS
    FifoSize = 2
    WakeAbove = 1
    ParamSize = 1
    RoomMargin = 2
    WakeBelow = 4
    Renderers = 1
INVARIANTS
    FlushSeesAll
    NoTearing
    SwapsCounted
PROPERTIES
    EachOnce
    Progress
    CloseReturns
CHECK_DEADLOCK FALSE
