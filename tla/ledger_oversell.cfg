SPECIFICATION Spec
CONSTANTS
    Process = {w1, w2}
    Thread = {w1, w2}
    ProcOf <- MCReplicas
    Symbol = {a}
    Quote = {q1, q2}
    None = None
    MaxOpen = 1
    RepairLots = TRUE
    ReadsFail = FALSE
    MaxSignals = 1
    MaxId = 3
    MaxQty = 2
INVARIANT NeverNaked
