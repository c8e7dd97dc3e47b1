\* Every call of MCTransfers, and every layout of MCLayouts.  A call ends, and so does
\* the carrying of its cells: no step is left then.
SPECIFICATION TransposeSpec
CONSTANTS
    Jobs <- MCJobs
    Script <- Scripted
    Empty = Empty
    Clash = Clash
INVARIANTS NoRace EndsAgree ResultRight ReceivesFirst NoOverlap MessageWhole Transposed
PROPERTY Returns
CHECK_DEADLOCK FALSE
