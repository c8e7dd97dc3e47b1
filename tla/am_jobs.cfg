\* Two jobs of two ranks on one file, of three or four axes, with crashes, a disk
\* that fails, and every outcome of the candidates that the ranks share.
SPECIFICATION FairSpec
CONSTANTS
    P = 2
    N = 2
    FourD = {"B"}
    Warmup = 0
    Iterations = 1
    Verify = TRUE
    Fates <- Outcomes
    Millis <- Times
    Alone <- Everywhere
    DiskFails = TRUE
    Requests <- MixedJobs
    Jobs = 2
INVARIANTS TypeOK InStep FastestSelected CacheWhole AllOrNone
PROPERTIES SweptOnce EveryRankEnds
