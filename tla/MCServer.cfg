SPECIFICATION Spec
CONSTANTS
    HasExecutor = TRUE
    Faults = {"log", "recover", "listen", "pass", "request", "service", "executor"}
    MaxHostFaults = 3
    MaxCloses = 3
    MaxRequests = 2
    MaxPasses = 2
    Sizes = {1, 2, 3}
    MaxLine = 2
    MaxBytes = 3
    MaxPending = 2
    MaxLogEvents = 4
    MaxLogFaults = 2
    MaxCrashes = 1
    Batch = 2
    Buffer = 2
    MaxEvents = 3
    MaxStreams = 2
    MaxFailures = 1
INVARIANTS
    HostIsSafe
    StreamSafety
PROPERTIES
    StepsAreSound
    EveryoneIsAnswered
    StreamsComeToAnEnd
CHECK_DEADLOCK FALSE
