SPECIFICATION FairSpec

CONSTANTS
    MaxRuns = 3
    Kinds <- MCKinds
    Outcomes <- MCOutcomes

INVARIANTS
    OneTick
    AnswersOwnExecution

PROPERTIES
    TickWhileRunningEnds
