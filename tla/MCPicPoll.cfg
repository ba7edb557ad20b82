SPECIFICATION Spec
CONSTANTS
    N = 3  Cascade = 1  Redirect = 1
    Isa = Isa  Isa2 = Isa2  PciA = PciA  PciB = PciB
    EdgeSources <- MCEdge
    LevelSources <- MCLevel
    Wire <- MCWire
    Masks <- MCMasks
    PinnedLines = {}
    Uses = {"poll", "ocw3"}
INVARIANT FrozenOnlyDuringPoll
