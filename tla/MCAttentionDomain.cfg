CONSTANTS
    Attentions = {x, y}
    NoAttention = NoAttention
    Durations = {1, 2}
    MaxClock = 3
    MaxLeases = 3
    MaxAttempts = 3
SPECIFICATION Spec
SYMMETRY AttentionSymmetry
INVARIANT DomainSafety
PROPERTY DecidedOnce
