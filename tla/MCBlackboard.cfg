SPECIFICATION FairSpec

CONSTANTS
    Board <- MCBoard
    Root = "root"
    Parent <- MCParent
    Key <- MCKey
    Private <- MCPrivate
    AtKey <- MCAtKey
    Remap <- MCRemap
    AutoRemap <- MCAutoRemap
    InitialKeys <- MCInitialKeys
    Thread <- MCThread
    Ops <- MCOps
    Ports <- MCPorts
    Watched <- MCWatched
    MaxWrites = 2

INVARIANTS
    RemappingKept
    WrittenIsFound
    NoChangeMissed

PROPERTIES
    DeclaredTypeKept
    CallsReturn

CHECK_DEADLOCK FALSE
