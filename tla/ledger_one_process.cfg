SPECIFICATION Spec
CONSTANTS
    Process = {p}
    Thread = {t1, t2}
    ProcOf <- MCOneProcess
    Symbol = {a, b}
    Quote = {q1, q2}
    None = None
    MaxOpen = 1
    RepairLots = FALSE
    ReadsFail = FALSE
    MaxSignals = 1
    MaxId = 4
    MaxQty = 2
SYMMETRY MCSymmetry
INVARIANTS LotsMatchPosition PositionLimit
PROPERTY BookSpec
