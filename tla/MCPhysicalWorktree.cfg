CONSTANTS
    NoOne = NoOne
    Principals = {r1, r2}
    Durations = {1}
    MaxClock = 1
    MaxRevision = 4
    MaxExecutions = 2
    MaxActivations = 1
SPECIFICATION Spec
SYMMETRY RuntimeSymmetry
INVARIANTS
    AuthorityLossIsFinal
    CleanPublication
    PhysicalExclusion
PROPERTY
    ImplementsLease
