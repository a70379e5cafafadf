SPECIFICATION Spec
CONSTANTS
    NoOccurrence = NoOccurrence
    Slots = 2
    Limit = 2
    LatePolicy = "run-once"
    BusyPolicy = "idle-reminder"
    MaxRevision = 3
    Actions = {"pause", "modify", "cancel"}
    Results = {"success"}
    Period = 2
    Generations = 2
    Waits = TRUE
    LiveTakeover = FALSE
    Faults = {"receipt", "crash"}
INVARIANTS
    SettledIsReceipt ProgressIsEarned
PROPERTIES
    ClosedNeverRuns
CHECK_DEADLOCK FALSE
