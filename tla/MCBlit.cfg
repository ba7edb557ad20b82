SPECIFICATION FairSpec
CONSTANTS
    Frames = {f1, f2}
    NoFrame = NoFrame
    CleanSwitch = TRUE
INVARIANTS NoTearing
PROPERTIES ImplementsSlot FrameLeaves CloseReturns
