CONSTANTS
    LaneBase = 4
    MemLanes = 4
    RegMax = 2
    MTVEC = 8
    Programs <- PipelinePrograms
    Memories <- OneMem
    Inputs <- PipelineInputs
    BtbEntries = 2
    RAS_N = 2
    BhtEntries = 2
    GhrMod = 2
    BhtIndex <- XorIndex
    DivCycles = 3
SPECIFICATION HaltEnvSpec
INVARIANTS TypeOK BeatsPaired MdInStep MdOperandsFresh
PROPERTIES ImplementsIsa TrapVectors FrozenStays HaltReached
