SPECIFICATION Spec
CONSTANTS
    c1 = c1  c2 = c2  c3 = c3
    o1 = o1  o2 = o2  k1 = k1  k2 = k2
    NoIntent = NoIntent
    Intents <- MCOneIntent
    ResumeInputs <- MCResumeInputs
    Callers = {c1, c2}
    Calls = {"submit", "execute", "resume", "requestCancel", "settle", "resolve", "readControl", "crash"}
    Faults = {"reject", "lostAck", "publish"}
    HydrateFirst = TRUE
    MaxEpoch = 2
    MaxObjects = 2
INVARIANTS
    EffectAtMostOnce BlockedIsResumable LeaseReleasedAtRest RecoveryStateIsDurable
PROPERTIES
    StoppedNeverRuns
CONSTRAINT UntilOvertaken
SYMMETRY CallerSymmetry
