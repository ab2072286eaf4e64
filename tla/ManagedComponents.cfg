SPECIFICATION Spec
CONSTANTS
    JobDeadline = 2
    MaxInputAge = 2
    Warmup = 1
    MaxTime = 2
    MaxGeneration = 2
    MaxJobs = 5
    MaxPanics = 1
    Controlled = {"Transform"}
CHECK_DEADLOCK FALSE
INVARIANTS
    NothingRestsOnBad
    AnswersAreOwed
