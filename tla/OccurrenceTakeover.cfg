SPECIFICATION FairSpec
CONSTANTS
    NoOccurrence = NoOccurrence
    Slots = 1
    Limit = 1
    LatePolicy = "skip"
    BusyPolicy = "skip"
    MaxRevision = 2
    Actions = {"modify"}
    Results = {"success"}
    Period = 2
    Generations = 2
    Waits = TRUE
    LiveTakeover = TRUE
    Faults = {"dispatch", "receipt", "expiry", "crash"}
INVARIANTS
    ExecutedOnce
PROPERTIES
    OutcomeIsTheOwners ClaimIsSettled
CHECK_DEADLOCK FALSE
