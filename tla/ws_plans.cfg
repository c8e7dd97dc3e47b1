\* Two plans of three sizes, over one pool or on their own, in memory for one
\* large plan but not for two.
SPECIFICATION Spec
CONSTANTS
    Plans = {p, q}
    Sizes <- Mixed
    None = None
    Capacity = 8
    HostCapacity = 3
    Reserve = 1
SYMMETRY PlanSymmetry
INVARIANTS LeaseHeld BoundLive
PROPERTY PoolStable
