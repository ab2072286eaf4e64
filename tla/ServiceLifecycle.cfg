SPECIFICATION FairSpec
CONSTANTS
    Resources = {m, s}
    Native = {m}
    Writable = {m}
    Candidate = s
    Scenarios <- MCScenarios
    MaxAdapters = 4
    MaxAttempts = 1
    m = m
    s = s
INVARIANTS
    FenceHolds
    NothingIsLeftBehind
    CleanExitIsHonest
PROPERTIES
    PortsAreWatched
    ReleaseIsEarned
    EvidenceIsKept
    WorkEnds
