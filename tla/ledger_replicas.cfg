SPECIFICATION Spec
CONSTANTS
    Process = {w1, w2}
    Thread = {w1, w2}
    ProcOf <- MCReplicas
    Symbol = {a}
    Quote = {q1, q2, q3}
    None = None
    MaxOpen = 1
    RepairLots = FALSE
    ReadsFail = TRUE
    MaxSignals = 1
    MaxId = 3
    MaxQty = 2
SYMMETRY MCSymmetry
CONSTRAINT MCFewDeclined
INVARIANTS TypeOK ExecutedOnce LotLedgerBalances
PROPERTIES DeclinedStaysDeclined OnlyStaleClosesUnbalance
