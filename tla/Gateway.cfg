SPECIFICATION Spec
CONSTANTS
    c1 = c1
    c2 = c2
    Conns = {c1, c2}
    NoOne = NoOne
    Paths <- MCPaths
    MaxModels = 2
    Requests <- MCRequests
    StopMaxLen = 3
    TokenMaxLen = 2

INVARIANT AnsweredOnce
INVARIANT OwnGeneration
INVARIANT IdsUnique
INVARIANT StopExact
PROPERTY EveryRequestEnds
CHECK_DEADLOCK FALSE
