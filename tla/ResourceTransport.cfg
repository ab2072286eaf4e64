SPECIFICATION FairSpec
CONSTANTS
    MaxQueued = 1
    RequestLen = 2
    ResponseLen = 1
    RecoveryTimeout = 1
    None = None
    MaxTransaction = 2
    MaxGeneration = 3
    Ttls = {2}
    Timeouts = {1}
    AdmitUntil = 0
    MaxTime = 2
INVARIANTS
    Accounted
    StartsAreHonest
    SentOnce
PROPERTIES
    CleanBoundary
    EveryTransactionEnds
