\* Two ranks with four and three planes, a credit of two, rendezvous sends.  The stall
\* is a state without successor; AlwaysMoves says what is wrong with it.
SPECIFICATION Spec
CONSTANTS
    P = 2
    Planes <- Seven
    Credit = 2
    Lanes = 1
    Eager = {}
INVARIANT AlwaysMoves
CHECK_DEADLOCK FALSE
