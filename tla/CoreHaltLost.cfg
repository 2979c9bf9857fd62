CONSTANTS
    LaneBase = 4
    MemLanes = 4
    RegMax = 2
    MTVEC = 12
    Programs <- MdPrograms
    Memories <- OneMem
    Inputs <- HaltInputs
    BtbEntries = 2
    RAS_N = 2
    BhtEntries = 2
    GhrMod = 2
    BhtIndex <- XorIndex
    DivCycles = 3
SPECIFICATION FairSpec
PROPERTIES FrozenStays
