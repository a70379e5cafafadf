SPECIFICATION Spec
CONSTANTS
    c1 = c1  c2 = c2  c3 = c3
    o1 = o1  o2 = o2  k1 = k1  k2 = k2
    NoIntent = NoIntent
    Intents <- MCOneKey
    ResumeInputs <- MCResumeInputs
    Callers = {c1, c2, c3}
    Calls = {"submit", "execute", "resume", "resolve", "readControl", "crash"}
    Faults = {"reject", "publish"}
    HydrateFirst = TRUE
    MaxEpoch = 2
    MaxObjects = 2
INVARIANTS
    OneHandPerOperation OneOperationPerKey CacheMatchesJournal
PROPERTIES
    ImplementsContract
CONSTRAINT UntilOvertaken
SYMMETRY CallerSymmetry
