SPECIFICATION Spec
CONSTANTS
    ManualOwners = {alice}
    AutomaticOwners = {pid}
    MaxEpoch = 4
    MaxDispatch = 3
    MaxLease = 2
    MaxTtl = 2
    None = None
    Physical = TRUE
    Evidence = "Acknowledgement"
    MaxQueued = 1
    RequestLen = 1
    ResponseLen = 1
    RecoveryTimeout = 1
    QueueTtl = 1
    Timeout = 1
    LeaseLifetime = 2
    MaxTickGap = 1
    ProposalTtl = 1
    ProgressAge = 1
    Required = TRUE
    AcquiresReads = FALSE
    MaxTransaction = 2
    MaxGeneration = 1
    MaxInstance = 1
    MaxTime = 2
INVARIANTS
    PreparationIsExclusive
    LeaseHasRunningOwner
PROPERTIES
    RecordingIsRequired
