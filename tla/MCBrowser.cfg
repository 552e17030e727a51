SPECIFICATION Spec
CONSTANTS
    Threads = {a, b}
    Home = a
    Run = Run
    NoThread = NoThread
    MaxEvents = 1
    MaxUser = 2
    MaxFailures = 1
    Composers = {"composer"}
    Controls = {"cancel"}
    Operations = {"edit"}
    Posts = {"reply"}
    ann = ann
    bob = bob
    Principals = {ann, bob}
    Nobody = nobody
    MaxSessions = 2
    MaxSubmits = 2
    MaxFaults = 1
    MaxMoves = 1
    MaxReloads = 1
INVARIANTS
    ProjectionSafety
    CommandSafety
PROPERTIES
    InvalidationsEnd
    CallsEnd
CHECK_DEADLOCK FALSE
