SPECIFICATION FairSpec

CONSTANTS
    MaxTimers = 2
    MaxDelay = 2
    MaxCount = 2
    Kinds <- MCKinds
    ChildAnswers <- MCChildAnswers

INVARIANTS
    NoHandlerLost
    NoMissedDeadline
    NoHaltInsideTick
    NotEarly

PROPERTIES
    HandlersExecutedOnce
    RunningEnds
    DestructorEnds
