SPECIFICATION Spec
CONSTANTS
    a = a
    ab = ab
    Absent = Absent
    NoEnd = NoEnd
    Paths <- TwoPaths
    Indexed <- TwoPaths
    StartsWith <- Prefixed
    Lines <- TheirLines
    Contents <- TwoContents
    Ranges <- Whole
    Around = 1
    TokensPerSymbol = 5
    Budgets <- SomeBudgets
    MaxEdits = 2
    MaxCached = 2
INVARIANTS
    ContextTypeOK
    ServedSinceInvalidate
    SymbolShown
    IndexFromOneWalk
    ViewsFit
