SPECIFICATION Spec

CONSTANTS
    NodeType <- MCNodeType
    Builtin <- MCBuiltin
    Element <- MCElement
    Document <- MCDocument
    Resolve <- MCResolve
    Files <- MCFiles
    Texts <- MCTexts
    DefaultId <- MCDefaultId
    Cwd = "top"
    Rules <- MCRules
    UidRange = 16
    MaxDocuments = 2
    MaxChanges = 2

INVARIANTS
    IncludesAreRelative
    UidsAndPathsUnique
    CreationRepeatable
