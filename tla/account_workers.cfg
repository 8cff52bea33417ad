SPECIFICATION Spec
CONSTANTS
    Worker = {w1, w2}
    Symbol = {a, b}
    Start = 5
    OldDebt = 2
    MaxMoney = 7
    MaxTime = 2
    MaxTrades = 4
    Mark <- MCOneMark
    Period = 1
    Fee <- MCFee
    Interest <- MCInterest
    Reserve <- MCReserve
    AllocReserve <- MCAllocReserve
    MaxPosition <- MCMaxPosition
    MaxGross <- MCMaxGross
SYMMETRY MCSymmetry
INVARIANTS TypeOK CashFlowBalances ChargedOnce PeakCoversSnapshot
PROPERTIES DebtGrowsByInterest OnlyStaleSalesMisstate
