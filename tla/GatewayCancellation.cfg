SPECIFICATION FairSpec
CONSTANTS
    c1 = c1  c2 = c2  c3 = c3
    o1 = o1  o2 = o2  k1 = k1  k2 = k2
    NoIntent = NoIntent
    Intents <- MCOneIntent
    ResumeInputs <- MCResumeInputs
    Callers = {c1, c2, c3}
    Calls = {"submit", "execute", "requestCancel", "settle"}
    Faults = {}
    HydrateFirst = FALSE
    MaxEpoch = 2
    MaxObjects = 1
INVARIANTS
    CancelledIsUntouched
PROPERTIES
    ExecutorFence LockIsServed
