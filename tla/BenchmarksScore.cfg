SPECIFICATION MCSpec
CONSTANTS
    Builds <- MCBuilds
    TimeMod = 1048576
    Starts = {0}
    Durations = {487804}
    TicksPerSec = 100000000
    RunCounts = {1}
    Elapsed = {450}
    MemSize = 2
INVARIANT CoreMarkScoreInThousandths
