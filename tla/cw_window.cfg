\* Window two, three and two chunks, the backward caller with per-peer
\* unpacking: sends start peer by peer, requests are drained in between, and
\* may complete at the post or only after the match.
SPECIFICATION FairSpec
CONSTANTS
    P = 2
    W = 2
    Count <- Peers_5
    Backward = TRUE
    Interleaved = TRUE
    ShortCircuit = TRUE
    UnpackPeer = TRUE
    Buffered = FALSE
INVARIANTS TypeOK InPlace SendSlotHeld UnpackAfterArrival
PROPERTIES DeliverySpec EveryRankReturns
