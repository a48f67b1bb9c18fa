SPECIFICATION FairSpec

CONSTANTS
    Node <- MCNode
    Clients <- MCClients
    MaxHooks = 2
    MaxRequests = 3
    ServerStartsFirst = TRUE

INVARIANTS
    StoppedAtLiveBreakpoint
    NothingLeft

PROPERTIES
    LossReleasesTick
    DestructorReturns

CHECK_DEADLOCK FALSE
