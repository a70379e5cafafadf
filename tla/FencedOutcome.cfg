SPECIFICATION Spec
CONSTANTS
    c1 = c1  c2 = c2  c3 = c3
    o1 = o1  o2 = o2  k1 = k1  k2 = k2
    NoIntent = NoIntent
    Intents <- MCOneIntent
    ResumeInputs <- MCResumeInputs
    Callers = {c1, c2}
    Calls = {"submit", "execute", "requestCancel"}
    Faults = {}
    HydrateFirst = FALSE
    MaxEpoch = 1
    MaxObjects = 1
PROPERTIES
    FencedOutcomeIsNeverDurable
