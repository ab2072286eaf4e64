SPECIFICATION Spec
CONSTANTS
    ManualOwners = {manual}
    AutomaticOwners = {automatic}
    MaxEpoch = 5
    MaxDispatch = 5
    MaxLease = 2
    MaxTtl = 2
    None = None
    MaxTime = 2
    MaxInstance = 2
    MaxAttempt = 2
INVARIANTS
    DisarmedIsProved
PROPERTIES
    NoSafeResend
    NormalSendIsOwned
