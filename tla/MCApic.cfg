SPECIFICATION Spec
CONSTANTS
    N = 3
    Here = Here  NoAddress = NoAddress
    EdgeVectors = {49}
    LevelVectors = {51, 65}
    LocalVectors = {52}
    TPRs = {0, 48}
    Addresses = {Here}
    Programs <- MCPrograms
INVARIANTS TypeOK RefusedIsUntakeable LevelIsSent EoiWillCome EdgesKept
