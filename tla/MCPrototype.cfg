SPECIFICATION Spec
CONSTANTS
    Seeds <- MCSeeds
    MaxNewRuns = 2
    MaxSent = 1
    Demo <- DemoProduct
    MaxStreams = 2
    MaxMessages = 4
    MaxReplies = 1
    MaxTasks = 2
    Focus <- MCFocus
INVARIANTS
    PrototypeIsSound
PROPERTIES
    WorkGoesOn
CHECK_DEADLOCK FALSE
