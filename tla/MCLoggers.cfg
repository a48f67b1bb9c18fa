SPECIFICATION FairSpec

CONSTANTS
    Node <- MCNode
    Kinds <- MCKinds
    Relative = FALSE
    MaxTime = 3
    MaxRecords = 3
    MaxSessions = 2

INVARIANTS
    KeysUnique

PROPERTIES
    WrittenInOrder
    DestructorEnds

CHECK_DEADLOCK FALSE
