\* One candidate fails on rank one alone.
SPECIFICATION FairSpec
CONSTANTS
    P = 2
    N = 2
    FourD = {"B"}
    Warmup = 0
    Iterations = 1
    Verify = FALSE
    Fates <- NoFailure
    Millis <- SameTime
    Alone <- FirstOfRankOne
    DiskFails = FALSE
    Requests <- OneSweep
    Jobs = 1
PROPERTY EveryRankEnds
CHECK_DEADLOCK FALSE
