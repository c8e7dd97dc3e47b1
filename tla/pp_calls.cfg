CONSTANTS
    P1 = 2
    P2 = 2
    Setups <- MCSetups
    Cells = 6
SPECIFICATION FairSpec
INVARIANTS TypeOK SourceHeld ResultRight NothingPending DrainReady
PROPERTIES AllEnd
CHECK_DEADLOCK FALSE
