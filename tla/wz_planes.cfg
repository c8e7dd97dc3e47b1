\* Two ranks with three and two planes, a window and a credit of two, one lane or two,
\* the sends of rank 1 copied by MPI at the post.
SPECIFICATION PipeSpec
CONSTANTS
    P = 2
    Planes <- Five
    Credit = 2
    Window = 2
    Lanes = 1
    PlanLanes = 2
    Eager <- FromOne
INVARIANTS TransformedOnce NothingBehind ReadsArrived SendsTransformed ForwardMoves
