SPECIFICATION Spec
CONSTANTS
    Resources = {m, s}
    Native = {m}
    Writable = {m}
    Candidate = s
    Scenarios <- MCScenarios
    MaxAdapters = 4
    MaxAttempts = 1
    m = m
    s = s
INVARIANT
    RollbackNeverPanics
