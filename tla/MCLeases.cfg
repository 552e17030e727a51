CONSTANTS
    NoOne = NoOne
    Principals = {r1, r2}
    Durations = {1, 2}
    MaxClock = 3
    MaxRevision = 7
    Nobody = Nobody
    Runtimes = {r1, r2}
    Payloads = {e}
    Limits = {1, 2, 3}
    LeaseTimes = {1, 2}
    MaxTime = 2
    MaxEvents = 4
    MaxClaims = 4
SPECIFICATION Spec
SYMMETRY RuntimeSymmetry
INVARIANTS
    NoRevival
    NewestAuthority
    LedgerExplainsRow
    SoleConsumer
    TakeoverFences
PROPERTIES
    AuthorityHandover
    FifoDelivery
