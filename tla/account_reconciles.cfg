SPECIFICATION Spec
CONSTANTS
    Worker = {w}
    Symbol = {a, b}
    Start = 5
    OldDebt = 2
    MaxMoney = 9
    MaxTime = 2
    MaxTrades = 3
    Mark <- MCMark
    Period = 1
    Fee <- MCFee
    Interest <- MCInterest
    Reserve <- MCReserve
    AllocReserve <- MCAllocReserve
    MaxPosition <- MCMaxPosition
    MaxGross <- MCMaxGross
SYMMETRY MCSymmetry
PROPERTY SnapshotReconciles
