SPECIFICATION MCSpec
CONSTANTS
    Builds <- MCBuilds
    TimeMod = 1048576
    Starts = {0, 1048000}
    Durations = {342465}
    TicksPerSec = 100000000
    RunCounts = {1, 2, 3}
    Elapsed = {450, 569, 900, 1300}
    MemSize = 5
INVARIANTS CoreMarkDataWhole CoreMarkRestored CoreMarkValidated DhrystoneRunsAlike LibcExact
