SPECIFICATION FairSpec
CONSTANTS
    Process = {w1, w2}
    Thread = {w1, w2, t}
    ProcOf <- MCPools
    Symbol = {a, b}
    Quote = {q1}
    None = None
    MaxOpen = 1
    RepairLots = FALSE
    ReadsFail = FALSE
    MaxSignals = 1
    MaxId = 2
    MaxQty = 2
INVARIANT WaitsAreOrdered
PROPERTY CycleEnds
