CONSTANTS
    Node <- MCNode
    Roots = {1, 8, 15, 24}
    Children <- MCChildren
    Parent <- MCParent
    Above <- MCAbove
    Kind <- MCKind
    Answers <- MCAnswers
    PreConds <- MCPreConds
    PreTick = {}
    PostTick = {}
    Throwing = {9, 17}
    MaxCount = 1
    Wakers = {4}
    Limit <- MCLimit
    FailLimit <- MCFailLimit
    Otherwise <- MCOtherwise
    MultipleRunningThrows = FALSE

SPECIFICATION Spec

INVARIANTS
    TypeOK
    AnswersFollowChildren
    RunningHasRunningParent
    HaltReachesRunning
    ReactiveRunsOne

PROPERTIES
    ExecutedOnlyOnce
