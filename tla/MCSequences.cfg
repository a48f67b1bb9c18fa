CONSTANTS
    Node <- MCNode
    Roots = {1, 8, 15, 25}
    Children <- MCChildren
    Parent <- MCParent
    Above <- MCAbove
    Kind <- MCKind
    Answers <- MCAnswers
    PreConds <- MCPreConds
    PreTick = {3}
    PostTick = {7}
    Throwing = {5, 9, 10, 13, 22, 26, 29}
    MaxCount = 1
    Wakers = {}
    Limit <- MCLimit
    FailLimit <- MCFailLimit
    Otherwise <- MCOtherwise
    MultipleRunningThrows = TRUE

SPECIFICATION FairSpec

INVARIANTS
    AnswersFollowChildren
    CompletedChildNotRepeated
    TickedNodeIsReset
    NoLeftovers
    BusyOrWoken
    RunningHasRunningParent

PROPERTIES
    TickReturns
