SPECIFICATION Spec
CHECK_DEADLOCK FALSE
CONSTANTS
    b1 = b1  b2 = b2  b3 = b3  b4 = b4
    Bindings = {b1, b2, b3, b4}
    Configs <- MCConfigs
    MaxAttempts = 4
    MaxStarts = 3
    Faults = {"persist", "driver", "execute", "close", "publish"}
INVARIANTS
    AdmittedBeforeExecution RetryAvoidsExcluded UnsettledIsNotPassed
