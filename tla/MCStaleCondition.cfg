CONSTANTS
    Node <- MCNode
    Roots = {1}
    Children <- MCChildren
    Parent <- MCParent
    Above <- MCAbove
    Kind <- MCKind
    Answers <- MCAnswers
    PreConds <- MCPreConds
    PreTick = {}
    PostTick = {}
    Throwing = {}
    MaxCount = 1
    Wakers = {}
    Limit <- MCLimit
    FailLimit <- MCLimit
    Otherwise <- MCOtherwise
    MultipleRunningThrows = FALSE

SPECIFICATION Spec

INVARIANTS
    ConditionIsFresh
