SPECIFICATION Spec
CONSTANTS
    N = 3  Cascade = 1  Redirect = 1
    Isa = Isa  Isa2 = Isa2  PciA = PciA  PciB = PciB
    EdgeSources <- EdgesOnly
    LevelSources = {}
    Wire <- EdgeWire
    Masks <- MCMasks
    PinnedLines = {0}
    Uses = {"rotate", "setpriority", "aeoi", "ocw3", "smm", "extint"}
INVARIANTS NonSpecificEndsLatest PinnedNotDelivered
