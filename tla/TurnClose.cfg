SPECIFICATION Spec
CONSTANTS
    c1 = c1  c2 = c2  c3 = c3
    v1 = v1  v2 = v2
    Turn = Turn
    NoInputs = NoInputs
    NoCheckpoint = NoCheckpoint
    Children = {c1, c2}
    Inputs = {v1, v2}
    Decisions = {"continue", "complete"}
    MaxFacts = 2
    MaxCrashes = 2
INVARIANTS
    RecordsFollowTheirOrder LoopFollowsRecords ProgressIsTrue
PROPERTIES
    ClosingIsFinal ImplementsContract
SYMMETRY Symmetric
CHECK_DEADLOCK FALSE
