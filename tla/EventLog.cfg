SPECIFICATION FairSpec
CONSTANTS
    Targets = {1, 2}
    Signals = {2}
    Prepared = {2}
    Data = {0, 1}
    Initial = 0
    MaxVersion = 2
    Clients = {ui}
    Filters = {{1, 2}, {2}}
    RingLimit = 2
    MaxSequence = 3
    ScanLimit = 2
    OfferLimit = 1
    PageLimit = 1
    EventQueue = 2
    Lifetime = 1
    MaxReservation = 2
    MaxToken = 3
    MaxTime = 1
    None = None
INVARIANTS
    ReadersSeeTheRecord
    CommitHasRoom
PROPERTIES
    Follows
