CONSTANTS
    LaneBase = 4
    MemLanes = 4
    RegMax = 2
    MTVEC = 12
    Programs <- ControlPrograms
    Memories <- OneMem
    Inputs <- QuietInputs
    BtbEntries = 2
    RAS_N = 2
    BhtEntries = 2
    GhrMod = 2
    BhtIndex <- XorIndex
    DivCycles = 3
SPECIFICATION FairSpec
INVARIANTS BtbSound PredictedIsControl
PROPERTIES ImplementsIsa Progress
