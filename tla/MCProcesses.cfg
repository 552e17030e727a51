CONSTANTS
    MaxStarts = 2
    MaxHosts = 2
    MaxBusy = 1
    t1 = t1
    Policies = {"restricted", "default", "allow"}
    Causes = {"attention", "run"}
    Plans <- SomePlans
    Tools = {t1}
    Limit = 1
    MaxFrames = 5
SPECIFICATION Spec
INVARIANTS
    ExecutionSafety
    SessionSafety
PROPERTIES
    ExecutionSettles
    SessionEnds
CHECK_DEADLOCK FALSE
