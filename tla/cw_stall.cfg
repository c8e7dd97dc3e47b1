\* Window one, three and two chunks, sends that complete after the match.
SPECIFICATION FairSpec
CONSTANTS
    P = 2
    W = 1
    Count <- Own_5
    Backward = FALSE
    Interleaved = FALSE
    ShortCircuit = FALSE
    UnpackPeer = FALSE
    Buffered = FALSE
PROPERTY EveryRankReturns
CHECK_DEADLOCK FALSE
