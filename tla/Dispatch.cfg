SPECIFICATION Spec
CHECK_DEADLOCK FALSE
CONSTANTS
    d1 = d1  d2 = d2  w1 = w1  w2 = w2  r1 = r1  r2 = r2  a1 = a1  a2 = a2  None = None
    Clients = {w1, w2, r1, r2}
    Capabilities = {"execute", "review"}
    Needs <- MCNeeds
    MaxRuntimes = 2
    MaxGenerations = 3
    PoolFaults = {"start", "creator", "destroy", "handle", "dispose"}
    Dispatches = {d1, d2}
    Worker <- MCWorker
    Reviewer <- MCReviewer
    Assignments = {a1, a2}
    CanRetry = {a1}
    MustMerge = {a2}
SYMMETRY MCSymmetry
INVARIANTS
    LeaseIsExclusive CapacityIsKept DisposedLeavesNothing NothingIsLeasedAtRest ExecutedOnce
PROPERTIES
    SettledIsFinal
