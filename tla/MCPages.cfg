SPECIFICATION Spec
CONSTANTS
    Attentions = {1, 2}
    Traced = FALSE
    MaxInputs = 2
    MaxGeneration = 1
    MaxActivity = 1
    MaxEvents = 13
    Limit = 1
INVARIANTS
    PastIsTold
    PagesAddUp
CHECK_DEADLOCK FALSE
