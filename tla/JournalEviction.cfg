SPECIFICATION FairSpec
CONSTANTS
    c1 = c1  c2 = c2  c3 = c3
    p1 = p1  p2 = p2  p3 = p3
    k1 = k1  k2 = k2  f1 = f1  f2 = f2
    NoProcess = NoProcess
    NoInput = NoInput
    Processes = {p1, p2}
    Callers = {c1, c2}
    Inputs <- MCOneInput
    Tokens = {1, 2, 3, 4, 5}
    Kinds = {"append"}
    Faults = {"read"}
    PidReuse = TRUE
    MaxCrashes = 2
    EvictorsDie = FALSE
    MaxReplaces = 0
INVARIANTS
    MutualExclusion
PROPERTIES
    DeadLockIsEvicted
