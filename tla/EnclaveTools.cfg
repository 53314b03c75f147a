CONSTANTS
    HeapBlocks = 39
    MaxCalls = 8
    Constraint = 3
    Polynomials <- SixFive
    BlockBits = 7
    MaxLen = 8
    RefColumns = 4
    MaxBits = 18
    KeyBlockBits = 2
    ValueBits = 5
    Trailers <- FewBits
SPECIFICATION ToolSpec
INVARIANTS ToolsSound PuncturingUndone CallsAreBounded
PROPERTY ImplementsMaxLikelihood
