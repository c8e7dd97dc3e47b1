CONSTANTS
    P1 = 2
    P2 = 2
    Setups <- MCOverlapping
    Cells = 5
SPECIFICATION Spec
INVARIANTS ResultRight
CHECK_DEADLOCK FALSE
