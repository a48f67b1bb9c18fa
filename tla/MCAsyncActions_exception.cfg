SPECIFICATION FairSpec

CONSTANTS
    MaxRuns = 3
    Kinds <- MCKinds
    Outcomes <- MCOutcomes

INVARIANT ExceptionLeavesIdle
