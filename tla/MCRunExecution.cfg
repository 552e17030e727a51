CONSTANTS
    Runtimes = {r1}
    Nobody = Nobody
    Payloads = {0, 1, 2}
    Limits = {1}
    LeaseTimes = {1}
    ActivationTimes = {1}
    MaxTime = 1
    MaxEvents = 4
    MaxClaims = 2
    MaxInputs = 2
    MaxGenerations = 2
    MaxAttempts = 1
SPECIFICATION Spec
INVARIANT RunSafety
PROPERTY RevisionGuardsDecisions
