SPECIFICATION Spec
CONSTANTS
    s1 = s1  s2 = s2  s3 = s3  m1 = m1  m2 = m2  w1 = w1  w2 = w2
    NoStream = NoStream
    Streams = {s1, s2}
    Messages = {m1, m2}
    Workers = {w1, w2}
    Publications <- MCPublications
    RetryLimit = 2
    MaxCalls = 3
    MaxChanges = 1
    Bindings = {"deliver", "rejected"}
    Barriered = {m1}
    Results = {"applied", "rejected", "retry"}
INVARIANTS
    AppliedIsSettled RetriesAreBounded FailedIsDeadLettered
PROPERTIES
    ImplementsContract
SYMMETRY Symmetric
CHECK_DEADLOCK FALSE
