SPECIFICATION FairSpec
CONSTANT MaxSaves = 2
INVARIANTS
    AckIsFresh
    PauseHolds
    ResetApplies
PROPERTY PauseReturns
CHECK_DEADLOCK FALSE
