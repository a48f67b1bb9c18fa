SPECIFICATION Spec

CONSTANTS
    Type <- MCType
    Values <- MCValues
    Wide = 6
    Digits = 4
    MaxExponent = 6

INVARIANTS
    FitsDeclaredType
    ReadIsWritten
