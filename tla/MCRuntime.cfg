CONSTANTS
    h1 = h1
    Host1 = h1
    Hosts = {h1, h2}
    Nobody = Nobody
    Adapters = {TRUE, FALSE}
    Withdrawals = {TRUE, FALSE}
    MaxInputs = 2
    MaxFaults = 1
    Projects <- MCProjects
    ProjectOrder <- MCProjectOrder
    ProjectOf <- MCProjectOf
    DomainOf <- MCDomainOf
    Concurrency = 1
    PageSize = 2
    Reserve = 1
    BufferLimit = 2
    ProjectLimit = 1
    Contended = {3}
    MaxInterruptions = 1
SPECIFICATION Spec
INVARIANTS
    DeliveryIsSafe
    DiscoverySafety
PROPERTIES
    EventsAreConsumed
    EveryAttentionDecided
CHECK_DEADLOCK FALSE
