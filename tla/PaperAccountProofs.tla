-------------------------- MODULE PaperAccountProofs --------------------------
(***************************************************************************)
(* Proofs about PaperAccount for any workers, symbols, amounts and rates.  *)
(***************************************************************************)
EXTENDS PaperAccount, AccountSums, TLAPS

\* The inductive invariant: types, the flow of money, and the time charged.
MoneyInv == MoneyOK /\ WorkersOK /\ CashFlowBalances /\ ChargedOnce

\* Amounts: what a sale repays, and what a purchase takes out of cash.
LEMMA RepaymentBound ==
    ASSUME NEW d \in Nat, NEW net \in Nat
    PROVE  Repayment(d, net) \in Nat /\ Repayment(d, net) <= d
           /\ Repayment(d, net) <= net
BY DEF Repayment

LEMMA NetBound ==
    ASSUME NEW v \in Money
    PROVE  Fee[v] \in Nat /\ NetProceeds(v) \in Nat
           /\ v = NetProceeds(v) + Fee[v]
<1>1. v \in Nat
  BY AmountAssumption DEF Money
<1>2. Fee[v] \in Nat /\ Fee[v] <= v
  <2>1. Fee[v] \in Money /\ Fee[v] <= v
    BY RateAssumption
  <2>2. QED
    BY <2>1, AmountAssumption DEF Money
<1>3. QED
  BY <1>1, <1>2 DEF NetProceeds

LEMMA CashUsedBound ==
    ASSUME NEW c \in Nat, NEW e \in Money, NEW total \in Nat
    PROVE  /\ CashUsed(c, e, total) \in Nat
           /\ CashUsed(c, e, total) <= c /\ CashUsed(c, e, total) <= total
           /\ Reserve[e] + total <= c => CashUsed(c, e, total) = total
<1>1. Reserve[e] \in Money
  BY RateAssumption
<1>2. Reserve[e] \in Nat
  BY <1>1, AmountAssumption DEF Money
<1>3. QED
  BY <1>2 DEF CashUsed

LEMMA MoneyInit == Init => MoneyInv
BY AmountAssumption
DEF Init, MoneyInv, MoneyOK, WorkersOK, CashFlowBalances, ChargedOnce, Money,
    Clock, PC, Row, NoRow, NoRows

\* The reports: only the accrual touches money.
LEMMA ReportMoney ==
    ASSUME MoneyInv, NEW w \in Worker, Report(w)
    PROVE  MoneyInv'
<1> USE DEF MoneyInv, MoneyOK, WorkersOK, portfolio, positions, history, reports
<1>a. /\ NoRow \in Row /\ LockedRow(w) \in Row
      /\ \A l \in PC : [pc EXCEPT ![w] = l] \in [Worker -> PC]
      /\ \A r \in Row : [seen EXCEPT ![w] = r] \in [Worker -> Row]
      /\ [rows EXCEPT ![w] = NoRows] \in [Worker -> [Symbol -> Nat]]
  BY AmountAssumption DEF NoRow, NoRows, LockedRow, Row, Money, Clock
<1>b. {"idle", "pass", "read", "known", "valued", "peaked"} \subseteq PC
  BY DEF PC
<1>1. CASE \/ ReadPortfolio(w) \/ SkipAccrual(w) \/ ReadPositions(w)
           \/ RaisePeak(w) \/ InsertSnapshot(w) \/ Drop(w)
  <2>1. UNCHANGED <<portfolio, positions, history, now, charged>>
    BY <1>1
    DEF ReadPortfolio, SkipAccrual, ReadPositions, RaisePeak, InsertSnapshot, Drop
  <2>2. pc' \in [Worker -> PC]
    BY <1>1, <1>a, <1>b
    DEF ReadPortfolio, SkipAccrual, ReadPositions, RaisePeak, InsertSnapshot,
        Drop, Done, Goto
  <2>3. seen' \in [Worker -> Row] /\ rows' \in [Worker -> [Symbol -> Nat]]
    BY <1>1, <1>a
    DEF ReadPortfolio, SkipAccrual, ReadPositions, RaisePeak, InsertSnapshot,
        Drop, Done
  <2>4. QED
    BY <2>1, <2>2, <2>3 DEF CashFlowBalances, ChargedOnce
<1>2. CASE Accrue(w)
  <2>1. /\ UNCHANGED <<cash, positions, history, now, rows>>
        /\ pc' \in [Worker -> PC]
    BY <1>2, <1>a, <1>b DEF Accrue, Goto
  <2>2. CurrentRow(w) = LockedRow(w) /\ CurrentRow(w).debt = debt
        /\ CurrentRow(w).stamp = stamp /\ now - stamp \in Clock
    BY AmountAssumption DEF CurrentRow, LockedRow, Clock, ChargedOnce
  <2>3. CASE Due(CurrentRow(w)) /\ Charge(CurrentRow(w)) > 0
    <3> DEFINE i == Charge(CurrentRow(w))
               row == [CurrentRow(w) EXCEPT !.debt = @ + i, !.stamp = now]
    <3>1. i \in Nat
      BY <2>2, AmountAssumption, RateAssumption DEF Charge, Money
    <3>2. /\ debt + i \in Money
          /\ debt' = debt + i /\ interest' = interest + i /\ stamp' = now
          /\ charged' = charged + (now - stamp)
          /\ seen' = [seen EXCEPT ![w] = AccruedRow(w, row)]
      BY <1>2, <2>2, <2>3 DEF Accrue
    <3>3. row \in Row
      BY <2>2, <3>2, <1>a DEF Row, LockedRow
    <3> HIDE DEF i, row
    <3>4. seen' \in [Worker -> Row]
      BY <3>2, <3>3, <1>a DEF AccruedRow
    <3>5. MoneyOK' /\ WorkersOK'
      BY <2>1, <3>1, <3>2, <3>4, AmountAssumption DEF ChargedOnce, Clock
    <3>6. CashFlowBalances'
      BY <2>1, <3>1, <3>2, AmountAssumption DEF CashFlowBalances, Money
    <3>7. ChargedOnce'
      BY <2>1, <3>2, AmountAssumption DEF ChargedOnce, Clock
    <3>8. QED
      BY <3>5, <3>6, <3>7
  <2>4. CASE ~ (Due(CurrentRow(w)) /\ Charge(CurrentRow(w)) > 0)
    <3>1. /\ UNCHANGED <<debt, interest, stamp, charged>>
          /\ seen' = [seen EXCEPT ![w] = CurrentRow(w)]
      BY <1>2, <2>4 DEF Accrue
    <3>2. seen' \in [Worker -> Row]
      BY <2>2, <3>1, <1>a
    <3>3. QED
      BY <2>1, <3>1, <3>2 DEF CashFlowBalances, ChargedOnce
  <2>5. QED
    BY <2>3, <2>4
<1>3. QED
  BY <1>1, <1>2 DEF Report

\* The trades: what leaves cash enters the totals of the trades.
LEMMA TradeMoney ==
    ASSUME MoneyInv, NEW w \in Worker, Trade(w)
    PROVE  MoneyInv'
<1> USE DEF MoneyInv, MoneyOK, WorkersOK
<1>a. /\ cash \in Nat /\ debt \in Nat /\ Start \in Nat /\ OldDebt \in Nat
      /\ MaxMoney \in Nat /\ cash <= MaxMoney /\ debt <= MaxMoney
      /\ \A x \in Mark : x \in Money /\ x \in Nat
      /\ \A v \in 1..MaxMoney : v \in Money /\ v \in Nat
  BY AmountAssumption DEF Money
<1>c. /\ spent \in Nat /\ proceeds \in Nat /\ buyFees \in Nat /\ sellFees \in Nat
      /\ interest \in Nat
      /\ cash + spent + buyFees + sellFees + interest + OldDebt
            = Start + proceeds + debt
  BY DEF CashFlowBalances
<1>b. Done(w) => /\ pc' \in [Worker -> PC] /\ seen' \in [Worker -> Row]
                 /\ rows' \in [Worker -> [Symbol -> Nat]]
  <2>1. NoRow \in Row /\ NoRows \in [Symbol -> Nat] /\ "idle" \in PC
    BY AmountAssumption DEF NoRow, NoRows, Row, Money, Clock, PC
  <2>2. QED
    BY <2>1 DEF Done, Goto
<1>1. ASSUME NEW s \in Symbol, NEW x \in Mark, Sell(w, s, x) PROVE MoneyInv'
  <2> DEFINE net == NetProceeds(x)
             repaid == Repayment(debt, net)
  <2>1. Fee[x] \in Nat /\ net \in Nat /\ x = net + Fee[x] /\ x \in Nat
    BY <1>a, NetBound
  <2>2. repaid \in Nat /\ repaid <= debt /\ repaid <= net
    BY <1>a, <2>1, RepaymentBound
  <2>3. /\ cash + x \in Money /\ cash' = cash + net - repaid
        /\ debt' = debt - repaid
        /\ val' = [val EXCEPT ![s] = 0] /\ cost' = [cost EXCEPT ![s] = 0]
        /\ proceeds' = proceeds + x /\ sellFees' = sellFees + Fee[x]
        /\ realized' = realized + RealizedPnl(rows[w][s], x)
        /\ ntrades' = ntrades + 1 /\ rows' = [rows EXCEPT ![w][s] = 0]
        /\ UNCHANGED <<interest, stamp, spent, buyFees, now, pc, seen, charged>>
    BY <1>1 DEF Sell
  <2>4. /\ RealizedPnl(rows[w][s], x) \in Int
        /\ rows' \in [Worker -> [Symbol -> Nat]]
    <3>1. rows[w][s] \in Int
      OBVIOUS
    <3>2. rows' \in [Worker -> [Symbol -> Nat]]
      BY <2>3
    <3>3. QED
      BY <2>1, <3>1, <3>2 DEF RealizedPnl
  <2> HIDE DEF net, repaid
  <2>5. cash' \in Money /\ debt' \in Money
    BY <1>a, <2>1, <2>2, <2>3 DEF Money
  <2>6. val' \in [Symbol -> Money] /\ cost' \in [Symbol -> Nat]
    BY <1>a, <2>3 DEF Money
  <2>7. MoneyOK' /\ WorkersOK' /\ ChargedOnce'
    <3>1. MoneyOK'
      BY <2>1, <2>3, <2>4, <2>5, <2>6
    <3>2. WorkersOK'
      BY <2>3, <2>4
    <3>3. QED
      BY <2>3, <3>1, <3>2 DEF ChargedOnce
  <2>8. CashFlowBalances'
    <3> HIDE DEF MoneyInv, MoneyOK, WorkersOK
    <3>1. QED
      BY <1>a, <1>c, <2>1, <2>2, <2>3 DEF CashFlowBalances
  <2>9. QED
    BY <2>7, <2>8
<1>2. ASSUME NEW s \in Symbol, NEW v \in 1..MaxMoney, NEW m \in Mark \cup {0},
             Buy(w, s, v, m)
      PROVE  MoneyInv'
  <2> DEFINE e == cash + Gross - debt
             total == v + Fee[v]
             used == CashUsed(cash, e, total)
  <2>1. v \in Nat /\ Fee[v] \in Nat /\ total \in Nat /\ e \in Money
    BY <1>2, <1>a, NetBound DEF Buy, Affordable
  <2>2. used \in Nat /\ used <= cash /\ used <= total
    BY <1>a, <2>1, CashUsedBound
  <2>3. /\ m + v \in Money /\ debt + (total - used) \in Money
        /\ cash' = cash - used /\ debt' = debt + (total - used)
        /\ val' = [val EXCEPT ![s] = m + v] /\ cost' = [cost EXCEPT ![s] = @ + v]
        /\ spent' = spent + v /\ buyFees' = buyFees + Fee[v]
        /\ ntrades' = ntrades + 1 /\ Done(w)
        /\ UNCHANGED <<interest, stamp, proceeds, sellFees, realized, now,
                       charged>>
    BY <1>2 DEF Buy
  <2>4. total = v + Fee[v]
    OBVIOUS
  <2> HIDE DEF e, total, used
  <2>5. cash' \in Money /\ debt' \in Money
    BY <1>a, <2>2, <2>3 DEF Money
  <2>6. val' \in [Symbol -> Money] /\ cost' \in [Symbol -> Nat]
    BY <2>1, <2>3
  <2>7. MoneyOK' /\ WorkersOK' /\ ChargedOnce'
    <3>1. MoneyOK'
      BY <2>1, <2>3, <2>5, <2>6
    <3>2. WorkersOK'
      <4>1. now' \in Clock /\ charged' \in Nat
        BY <2>3
      <4>2. /\ pc' \in [Worker -> PC] /\ seen' \in [Worker -> Row]
            /\ rows' \in [Worker -> [Symbol -> Nat]]
        BY <1>b, <2>3
      <4>3. QED
        BY <4>1, <4>2
    <3>3. QED
      BY <2>3, <3>1, <3>2 DEF ChargedOnce
  <2>8. CashFlowBalances'
    <3> HIDE DEF MoneyInv, MoneyOK, WorkersOK
    <3>1. /\ cash' = cash - used /\ debt' = debt + (total - used)
          /\ spent' = spent + v /\ buyFees' = buyFees + Fee[v]
          /\ UNCHANGED <<interest, proceeds, sellFees>>
      BY <2>3
    <3>2. /\ cash \in Nat /\ debt \in Nat /\ Start \in Nat /\ OldDebt \in Nat
          /\ v \in Nat /\ Fee[v] \in Nat /\ used \in Nat
      BY <1>a, <2>1, <2>2
    <3>3. QED
      BY <1>c, <2>4, <3>1, <3>2 DEF CashFlowBalances
  <2>9. QED
    BY <2>7, <2>8
<1>3. ASSUME NEW r \in Symbol, NEW s \in Symbol, NEW x \in Mark,
             NEW v \in 1..MaxMoney, NEW m \in Mark \cup {0},
             Rotate(w, r, x, s, v, m)
      PROVE  MoneyInv'
  <2> DEFINE net == NetProceeds(x)
             repaid == Repayment(debt, net)
             c == cash + net - repaid
             d == debt - repaid
             e == c + (Gross - val[r]) - d
             total == v + Fee[v]
             used == CashUsed(c, e, total)
  <2>1. /\ Fee[x] \in Nat /\ net \in Nat /\ x = net + Fee[x] /\ x \in Nat
        /\ v \in Nat /\ Fee[v] \in Nat /\ total \in Nat
    BY <1>a, NetBound
  <2>2. repaid \in Nat /\ repaid <= debt /\ repaid <= net
    BY <1>a, <2>1, RepaymentBound
  <2>3. c \in Nat /\ d \in Nat
    BY <1>a, <2>1, <2>2
  <2>4. e \in Money
    BY <1>3, <1>a DEF Rotate, Affordable
  <2>5. used \in Nat /\ used <= c /\ used <= total
    BY <2>1, <2>3, <2>4, CashUsedBound
  <2>6. /\ cash + x \in Money /\ d + (total - used) \in Money
        /\ cash' = c - used /\ debt' = d + (total - used)
        /\ spent' = spent + v /\ buyFees' = buyFees + Fee[v]
        /\ proceeds' = proceeds + x /\ sellFees' = sellFees + Fee[x]
        /\ realized' = realized + RealizedPnl(cost[r], x)
        /\ ntrades' = ntrades + 2 /\ Done(w)
        /\ UNCHANGED <<interest, stamp, now, charged>>
    BY <1>3 DEF Rotate
  <2>7. RealizedPnl(cost[r], x) \in Int
    BY <2>1 DEF RealizedPnl
  <2>8. c = cash + net - repaid /\ d = debt - repaid /\ total = v + Fee[v]
    OBVIOUS
  <2>9. val' \in [Symbol -> Money] /\ cost' \in [Symbol -> Nat]
    <3>1. /\ m + v \in Money /\ 0 \in Money
          /\ val' = [val EXCEPT ![r] = 0, ![s] = m + v]
      BY <1>3, <1>a DEF Rotate, Money
    <3>2. val' \in [Symbol -> Money]
      BY <3>1
    <3>3. [cost EXCEPT ![r] = 0] \in [Symbol -> Nat]
      OBVIOUS
    <3>4. \A g \in [Symbol -> Nat] : [g EXCEPT ![s] = g[s] + v] \in [Symbol -> Nat]
      BY <2>1
    <3>5. \E g \in [Symbol -> Nat] : cost' = [g EXCEPT ![s] = g[s] + v]
      <4> DEFINE g == [cost EXCEPT ![r] = 0]
      <4>1. cost' = [g EXCEPT ![s] = g[s] + v]
        BY <1>3 DEF Rotate
      <4> HIDE DEF g
      <4>2. QED
        BY <3>3, <4>1 DEF g
    <3>6. QED
      BY <3>2, <3>4, <3>5
  <2> HIDE DEF net, repaid, c, d, e, total, used
  <2>10. cash' \in Money /\ debt' \in Money
    BY <1>a, <2>1, <2>2, <2>3, <2>5, <2>6, <2>8 DEF Money
  <2>11. MoneyOK' /\ WorkersOK' /\ ChargedOnce'
    <3>1. MoneyOK'
      BY <2>1, <2>6, <2>7, <2>9, <2>10
    <3>2. WorkersOK'
      BY <1>b, <2>6
    <3>3. QED
      BY <2>6, <3>1, <3>2 DEF ChargedOnce
  <2>12. CashFlowBalances'
    <3> HIDE DEF MoneyInv, MoneyOK, WorkersOK
    <3>1. QED
      BY <1>a, <1>c, <2>1, <2>2, <2>3, <2>5, <2>6, <2>8 DEF CashFlowBalances
  <2>13. QED
    BY <2>11, <2>12
<1>4. ASSUME NEW s \in Symbol, NEW m \in Mark, MarkPosition(w, s, m)
      PROVE  MoneyInv'
  <2>1. /\ val' = [val EXCEPT ![s] = m]
        /\ UNCHANGED <<portfolio, cost, history, now, local, charged>>
    BY <1>4 DEF MarkPosition
  <2>2. val' \in [Symbol -> Money]
    BY <1>a, <2>1
  <2>3. QED
    BY <2>1, <2>2 DEF portfolio, history, local, CashFlowBalances, ChargedOnce
<1>5. ASSUME ReadRows(w) PROVE MoneyInv'
  <2>1. /\ UNCHANGED <<portfolio, positions, history, now, seen, charged>>
        /\ pc' = [pc EXCEPT ![w] = "pass"] /\ rows' = [rows EXCEPT ![w] = cost]
    BY <1>5 DEF ReadRows, Goto
  <2>2. pc' \in [Worker -> PC] /\ rows' \in [Worker -> [Symbol -> Nat]]
    BY <2>1 DEF PC
  <2>3. QED
    BY <2>1, <2>2 DEF portfolio, positions, history, CashFlowBalances, ChargedOnce
<1>6. QED
  BY <1>1, <1>2, <1>3, <1>4, <1>5 DEF Trade

LEMMA MoneyNext == MoneyInv /\ [Next]_vars => MoneyInv'
<1> SUFFICES ASSUME MoneyInv, [Next]_vars PROVE MoneyInv'
  OBVIOUS
<1>1. ASSUME NEW w \in Worker, Report(w) \/ Trade(w) PROVE MoneyInv'
  BY <1>1, ReportMoney, TradeMoney
<1>2. CASE Tick
  BY <1>2, AmountAssumption
  DEF Tick, MoneyInv, MoneyOK, WorkersOK, CashFlowBalances, ChargedOnce,
      portfolio, positions, history, local, Clock
<1>3. CASE UNCHANGED vars
  BY <1>3
  DEF vars, MoneyInv, MoneyOK, WorkersOK, CashFlowBalances, ChargedOnce,
      portfolio, positions, history, local
<1>4. QED
  BY <1>1, <1>2, <1>3 DEF Next

LEMMA MoneyInvariant == Spec => []MoneyInv
BY MoneyInit, MoneyNext, PTL DEF Spec

\* Cash, debt and every total stay amounts: in particular neither cash nor
\* debt is ever negative.
THEOREM AmountsStayAmounts == Spec => []MoneyOK
<1>1. MoneyInv => MoneyOK
  BY DEF MoneyInv
<1>2. QED
  BY <1>1, MoneyInvariant, PTL

\* No trade, rotation or accrual loses or invents money.
THEOREM MoneyIsConserved == Spec => []CashFlowBalances
<1>1. MoneyInv => CashFlowBalances
  BY DEF MoneyInv
<1>2. QED
  BY <1>1, MoneyInvariant, PTL

\* No moment is charged interest twice, however many workers find it due.
THEOREM InterestChargedOnce == Spec => []ChargedOnce
<1>1. MoneyInv => ChargedOnce
  BY DEF MoneyInv
<1>2. QED
  BY <1>1, MoneyInvariant, PTL
---------------------------------------------------------------------------
(* Purchases are paid for in cash *)

\* A purchase that passes the checks fits, with its fee, into the cash above
\* the reserve.
LEMMA AffordableInCash ==
    ASSUME FeeFits, NEW c \in Nat, NEW e \in 1..MaxMoney, NEW kept \in Nat,
           NEW v \in 1..MaxMoney,
           kept + v <= MaxPosition[e], AllocReserve[e] <= c - v
    PROVE  CashUsed(c, e, v + Fee[v]) = v + Fee[v]
<1>1. e \in Money /\ v \in Money /\ v \in Nat
  BY AmountAssumption DEF Money
<1>2. /\ MaxPosition[e] \in Nat /\ AllocReserve[e] \in Money
      /\ Reserve[e] \in Money /\ Fee[v] \in Nat
  BY <1>1, RateAssumption, NetBound
<1>3. AllocReserve[e] \in Nat /\ Reserve[e] \in Nat
  BY <1>2, AmountAssumption DEF Money
<1>4. Reserve[e] + Fee[v] <= AllocReserve[e]
  <2>1. v <= MaxPosition[e]
    BY <1>1, <1>2
  <2>2. QED
    BY <2>1 DEF FeeFits
<1>5. v + Fee[v] \in Nat /\ Reserve[e] + (v + Fee[v]) <= c
  BY <1>1, <1>2, <1>3, <1>4
<1>6. QED
  BY <1>1, <1>5, CashUsedBound

LEMMA BuyBorrowsNothing ==
    ASSUME FeeFits, MoneyInv, NEW w \in Worker, NEW s \in Symbol,
           NEW v \in 1..MaxMoney, NEW m \in Mark \cup {0}, Buy(w, s, v, m)
    PROVE  debt' = debt
<1>a. /\ cash \in Nat /\ debt \in Nat /\ val[s] \in Nat
      /\ v \in Money /\ v \in Nat
  BY AmountAssumption DEF MoneyInv, MoneyOK, Money
<1> DEFINE e == cash + Gross - debt
           total == v + Fee[v]
           used == CashUsed(cash, e, total)
<1>1. /\ e \in 1..MaxMoney /\ val[s] + v <= MaxPosition[e]
      /\ AllocReserve[e] <= cash - v
      /\ debt' = debt + (total - used)
  BY DEF Buy, Affordable
<1> HIDE DEF e
<1>2. total \in Nat /\ used = total
  BY <1>a, <1>1, NetBound, AffordableInCash
<1> HIDE DEF total, used
<1>3. QED
  BY <1>a, <1>1, <1>2

LEMMA RotationBorrowsNothing ==
    ASSUME FeeFits, MoneyInv, NEW w \in Worker, NEW r \in Symbol,
           NEW s \in Symbol, NEW x \in Mark, NEW v \in 1..MaxMoney,
           NEW m \in Mark \cup {0}, Rotate(w, r, x, s, v, m)
    PROVE  debt' \in Nat /\ debt' <= debt
<1>a. /\ cash \in Nat /\ debt \in Nat /\ x \in Money /\ val[s] \in Nat
      /\ v \in Money /\ v \in Nat
  BY AmountAssumption DEF MoneyInv, MoneyOK, Money
<1> DEFINE net == NetProceeds(x)
           repaid == Repayment(debt, net)
           c == cash + net - repaid
           d == debt - repaid
           e == c + (Gross - val[r]) - d
           total == v + Fee[v]
           used == CashUsed(c, e, total)
<1>1. net \in Nat /\ repaid \in Nat /\ repaid <= debt /\ repaid <= net
  BY <1>a, NetBound, RepaymentBound
<1>2. c \in Nat /\ d \in Nat /\ d <= debt
  BY <1>a, <1>1
<1>3. /\ e \in 1..MaxMoney /\ val[s] + v <= MaxPosition[e]
      /\ AllocReserve[e] <= c - v
      /\ debt' = d + (total - used)
  BY DEF Rotate, Affordable
<1> HIDE DEF net, repaid, c, d, e
<1>4. total \in Nat /\ used = total
  BY <1>a, <1>2, <1>3, NetBound, AffordableInCash
<1> HIDE DEF total, used
<1>5. QED
  BY <1>a, <1>2, <1>3, <1>4

\* What a step may do to the debt and to the interest charged.
DebtStep ==
    debt' > debt \/ interest' # interest =>
        debt > 0 /\ debt' - debt = interest' - interest /\ spent' = spent

LEMMA OnlyInterestAddsDebt ==
    ASSUME FeeFits, MoneyInv, Next
    PROVE  DebtStep
<1>a. debt \in Nat /\ interest \in Nat
  BY AmountAssumption DEF MoneyInv, MoneyOK, Money
<1>b. ASSUME debt' \in Nat, debt' <= debt, interest' = interest PROVE DebtStep
  BY <1>a, <1>b DEF DebtStep
<1>1. ASSUME NEW w \in Worker, Accrue(w) PROVE DebtStep
  <2>1. CASE Due(CurrentRow(w)) /\ Charge(CurrentRow(w)) > 0
    <3>1. CurrentRow(w).debt = debt /\ Charge(CurrentRow(w)) \in Nat
      <4>1. CurrentRow(w).debt = debt /\ CurrentRow(w).stamp = stamp
        BY DEF CurrentRow, LockedRow
      <4>2. debt \in Money /\ now - stamp \in Clock
        BY AmountAssumption
        DEF MoneyInv, MoneyOK, WorkersOK, ChargedOnce, Clock
      <4>3. Interest[debt][now - stamp] \in Money
        BY <4>2, RateAssumption
      <4>4. QED
        BY <4>1, <4>3, AmountAssumption DEF Charge, Money
    <3>2. /\ debt' = debt + Charge(CurrentRow(w)) /\ debt > 0
          /\ interest' = interest + Charge(CurrentRow(w)) /\ spent' = spent
      BY <1>1, <2>1, <3>1 DEF Accrue, Due, history
    <3>3. QED
      BY <1>a, <3>1, <3>2 DEF DebtStep
  <2>2. CASE ~ (Due(CurrentRow(w)) /\ Charge(CurrentRow(w)) > 0)
    <3>1. debt' = debt /\ interest' = interest
      BY <1>1, <2>2 DEF Accrue
    <3>2. QED
      BY <1>a, <1>b, <3>1
  <2>3. QED
    BY <2>1, <2>2
<1>2. ASSUME NEW w \in Worker, Report(w), ~ Accrue(w) PROVE DebtStep
  <2>1. debt' = debt /\ interest' = interest
    BY <1>2 DEF Report, ReadPortfolio, SkipAccrual, ReadPositions, RaisePeak,
                InsertSnapshot, Drop, portfolio
  <2>2. QED
    BY <1>a, <1>b, <2>1
<1>3. ASSUME NEW w \in Worker, NEW s \in Symbol, NEW x \in Mark, Sell(w, s, x)
      PROVE  DebtStep
  <2>1. x \in Money
    BY AmountAssumption DEF Money
  <2>2. NetProceeds(x) \in Nat
    BY <2>1, NetBound
  <2>3. debt' = debt - Repayment(debt, NetProceeds(x)) /\ interest' = interest
    BY <1>3 DEF Sell
  <2>4. /\ Repayment(debt, NetProceeds(x)) \in Nat
        /\ Repayment(debt, NetProceeds(x)) <= debt
    BY <1>a, <2>2, RepaymentBound
  <2>5. debt' \in Nat /\ debt' <= debt
    BY <1>a, <2>3, <2>4
  <2>6. QED
    BY <1>b, <2>3, <2>5
<1>4. ASSUME NEW w \in Worker, NEW s \in Symbol, NEW v \in 1..MaxMoney,
             NEW m \in Mark \cup {0}, Buy(w, s, v, m)
      PROVE  DebtStep
  <2>1. debt' = debt /\ interest' = interest
    BY <1>4, BuyBorrowsNothing DEF Buy
  <2>2. QED
    BY <1>a, <1>b, <2>1
<1>5. ASSUME NEW w \in Worker, NEW r \in Symbol, NEW s \in Symbol,
             NEW x \in Mark, NEW v \in 1..MaxMoney, NEW m \in Mark \cup {0},
             Rotate(w, r, x, s, v, m)
      PROVE  DebtStep
  BY <1>b, <1>5, RotationBorrowsNothing DEF Rotate
<1>6. CASE \/ Tick \/ \E w \in Worker : ReadRows(w)
           \/ \E w \in Worker, s \in Symbol, m \in Mark : MarkPosition(w, s, m)
  <2>1. debt' = debt /\ interest' = interest
    BY <1>6 DEF Tick, ReadRows, MarkPosition, portfolio
  <2>2. QED
    BY <1>a, <1>b, <2>1
<1>7. QED
  BY <1>1, <1>2, <1>3, <1>4, <1>5, <1>6 DEF Next, Trade

\* When the fee fits between the two reserves, as with the configured rates,
\* the debt of an account only ever grows by interest on the debt there is: no
\* purchase borrows (_buy), and the accrual never charges from a stamp that is
\* older than the debt (_accrue_paper_margin_interest).
THEOREM OnlyInterestIndebts ==
    ASSUME FeeFits PROVE Spec => DebtGrowsByInterest
<1>1. MoneyInv /\ [Next]_vars => [DebtStep]_vars
  BY OnlyInterestAddsDebt
<1>2. QED
  BY <1>1, MoneyInvariant, PTL DEF Spec, DebtGrowsByInterest, DebtStep

\* An account without margin debt and interest.
Unencumbered == debt = 0 /\ interest = 0

\* An account that starts without debt never has any, nor pays interest: it is
\* in fact the cash account its profile says.
THEOREM CashAccountStaysOne ==
    ASSUME FeeFits, OldDebt = 0 PROVE Spec => []Unencumbered
<1>1. Init => Unencumbered
  BY DEF Init, Unencumbered
<1>2. MoneyInv /\ MoneyInv' /\ Unencumbered /\ [Next]_vars => Unencumbered'
  <2> SUFFICES ASSUME MoneyInv, MoneyInv', Unencumbered, [Next]_vars
               PROVE  Unencumbered'
    OBVIOUS
  <2>1. debt' \in Nat
    BY AmountAssumption DEF MoneyInv, MoneyOK, Money
  <2>2. CASE Next
    <3>1. DebtStep
      BY <2>2, OnlyInterestAddsDebt
    <3>2. QED
      BY <2>1, <3>1 DEF DebtStep, Unencumbered
  <2>3. CASE UNCHANGED vars
    BY <2>3 DEF vars, portfolio, Unencumbered
  <2>4. QED
    BY <2>2, <2>3
<1>3. QED
  BY <1>1, <1>2, MoneyInvariant, PTL DEF Spec
---------------------------------------------------------------------------
(* Equity *)

LEMMA SumsAreInts ==
    ASSUME MoneyOK
    PROVE  /\ val \in [Symbol -> Int] /\ cost \in [Symbol -> Int]
           /\ Gross \in Int /\ SumFunction(cost) \in Int
<1>1. val \in [Symbol -> Int] /\ cost \in [Symbol -> Int]
  BY AmountAssumption DEF MoneyOK, Money
<1>2. QED
  BY <1>1, SumType, SymbolAssumption DEF Gross

\* The sums after one position has changed.
LEMMA SumsChange ==
    ASSUME MoneyOK, NEW s \in Symbol, NEW a \in Int, NEW b \in Int
    PROVE  /\ SumFunction([val EXCEPT ![s] = a]) = Gross - val[s] + a
           /\ SumFunction([cost EXCEPT ![s] = b]) = SumFunction(cost) - cost[s] + b
<1>1. val \in [Symbol -> Int] /\ cost \in [Symbol -> Int]
  BY SumsAreInts
<1>2. SumFunction([val EXCEPT ![s] = a]) = SumFunction(val) - val[s] + a
  BY <1>1, SumExcept, SymbolAssumption
<1>3. SumFunction([cost EXCEPT ![s] = b]) = SumFunction(cost) - cost[s] + b
  BY <1>1, SumExcept, SymbolAssumption
<1>4. QED
  BY <1>2, <1>3 DEF Gross

\* Everything that the change of equity is explained with is an integer.
LEMMA AccountIsInts ==
    ASSUME MoneyOK
    PROVE  /\ cash \in Int /\ debt \in Int /\ interest \in Int /\ buyFees \in Int
           /\ realized \in Int /\ Start \in Int /\ OldDebt \in Int
           /\ Gross \in Int /\ SumFunction(cost) \in Int /\ Unexplained \in Int
<1>1. /\ cash \in Int /\ debt \in Int /\ interest \in Int /\ buyFees \in Int
      /\ realized \in Int /\ Start \in Int /\ OldDebt \in Int
      /\ Gross \in Int /\ SumFunction(cost) \in Int
  BY SumsAreInts, AmountAssumption DEF MoneyOK, Money
<1>2. QED
  BY <1>1 DEF Unexplained

LEMMA NothingMoves ==
    ASSUME UNCHANGED <<cash, debt, interest, val, cost, buyFees, realized>>
    PROVE  Unexplained' = Unexplained
BY DEF Unexplained, Gross

\* The accrual adds as much to the debt as to the interest; no other report
\* touches the account.
LEMMA ReportUnexplained ==
    ASSUME MoneyInv, NEW w \in Worker, Report(w)
    PROVE  Unexplained' = Unexplained
<1>1. CASE UNCHANGED <<cash, debt, interest, val, cost, buyFees, realized>>
  BY <1>1, NothingMoves
<1>2. CASE Accrue(w)
  <2>1. UNCHANGED <<cash, val, cost, buyFees, realized>>
    BY <1>2 DEF Accrue, positions, history
  <2>2. CASE UNCHANGED <<debt, interest>>
    BY <1>1, <2>1, <2>2
  <2>3. CASE Due(CurrentRow(w)) /\ Charge(CurrentRow(w)) > 0
    <3> DEFINE i == Charge(CurrentRow(w))
    <3>1. debt' = debt + i /\ interest' = interest + i
      BY <1>2, <2>3 DEF Accrue
    <3>2. i \in Int
      <4>1. /\ CurrentRow(w).debt \in Money
            /\ now - CurrentRow(w).stamp \in Clock
        BY AmountAssumption
        DEF CurrentRow, LockedRow, Clock, ChargedOnce, MoneyInv, MoneyOK, WorkersOK
      <4>2. Interest[CurrentRow(w).debt][now - CurrentRow(w).stamp] \in Money
        BY <4>1, RateAssumption
      <4>3. QED
        BY <4>2, AmountAssumption DEF Charge, Money
    <3>3. /\ cash \in Int /\ debt \in Int /\ interest \in Int /\ buyFees \in Int
          /\ realized \in Int /\ Start \in Int /\ OldDebt \in Int
          /\ Gross \in Int /\ SumFunction(cost) \in Int
      BY AccountIsInts DEF MoneyInv
    <3> HIDE DEF i
    <3>4. Gross' = Gross /\ SumFunction(cost') = SumFunction(cost)
      BY <2>1 DEF Gross
    <3>5. QED
      BY <2>1, <3>1, <3>2, <3>3, <3>4 DEF Unexplained
  <2>4. QED
    BY <1>2, <2>2, <2>3 DEF Accrue
<1>3. QED
  BY <1>1, <1>2 DEF Report, ReadPortfolio, SkipAccrual, ReadPositions, RaisePeak,
                    InsertSnapshot, Drop, portfolio, positions, history

\* A sale leaves unexplained by how much the cost of the row that was read
\* differs from that of the row it deletes.
LEMMA SaleUnexplained ==
    ASSUME MoneyInv, NEW w \in Worker, NEW s \in Symbol, NEW x \in Mark, Sell(w, s, x)
    PROVE  Unexplained' = Unexplained + rows[w][s] - cost[s]
<1> DEFINE repaid == Repayment(debt, NetProceeds(x))
           C == SumFunction(cost)
<1>0. MoneyOK /\ x \in Money /\ x \in Nat /\ cost[s] \in Int /\ val[s] \in Int
      /\ rows[w][s] \in Int
  BY AmountAssumption DEF MoneyInv, MoneyOK, WorkersOK, Money
<1>1. /\ cash' = cash + NetProceeds(x) - repaid /\ debt' = debt - repaid
      /\ val' = [val EXCEPT ![s] = 0] /\ cost' = [cost EXCEPT ![s] = 0]
      /\ realized' = realized + RealizedPnl(rows[w][s], x)
      /\ UNCHANGED <<interest, buyFees>>
  BY DEF Sell
<1>2. /\ Fee[x] \in Int /\ NetProceeds(x) = x - Fee[x] /\ repaid \in Int
      /\ RealizedPnl(rows[w][s], x) = x - rows[w][s] - Fee[x]
  <2>1. debt \in Int
    BY <1>0, AccountIsInts
  <2>2. QED
    BY <1>0, <2>1, NetBound DEF NetProceeds, RealizedPnl, Repayment
<1> HIDE DEF repaid
<1>3. Gross' = Gross - val[s] /\ SumFunction(cost') = C - cost[s]
  <2>0. PICK z \in Int : z = 0
    OBVIOUS
  <2>a. val' = [val EXCEPT ![s] = z] /\ cost' = [cost EXCEPT ![s] = z]
    BY <1>1, <2>0
  <2>b. Gross \in Int /\ SumFunction(cost) \in Int
    BY <1>0, AccountIsInts
  <2> HIDE DEF C
  <2>1. SumFunction(val') = Gross - val[s] + z
    BY <1>0, <2>a, SumsChange
  <2>2. SumFunction(cost') = SumFunction(cost) - cost[s] + z
    BY <1>0, <2>a, SumsChange
  <2>3. QED
    BY <1>0, <2>b, <2>0, <2>1, <2>2 DEF Gross, C
<1>4. /\ cash \in Int /\ debt \in Int /\ interest \in Int /\ buyFees \in Int
      /\ realized \in Int /\ Start \in Int /\ OldDebt \in Int
      /\ Gross \in Int /\ C \in Int
  BY <1>0, AccountIsInts
<1>5. Unexplained = (cash + Gross - debt) - (Start - OldDebt)
                        - (realized + (Gross - C) - buyFees - interest)
  BY DEF Unexplained
<1>6. Unexplained' = (cash' + Gross' - debt') - (Start - OldDebt)
                        - (realized' + (Gross' - SumFunction(cost')) - buyFees' - interest')
  BY DEF Unexplained
<1> HIDE DEF C
<1>7. QED
  BY <1>0, <1>1, <1>2, <1>3, <1>4, <1>5, <1>6

\* A purchase takes its value and its fee out of cash, or borrows it.
LEMMA BuyUnexplained ==
    ASSUME MoneyInv, NEW w \in Worker, NEW s \in Symbol, NEW v \in 1..MaxMoney,
           NEW m \in Mark \cup {0}, Buy(w, s, v, m)
    PROVE  Unexplained' = Unexplained
<1> DEFINE C == SumFunction(cost)
           total == v + Fee[v]
           e == cash + Gross - debt
           used == CashUsed(cash, e, total)
<1>0. /\ MoneyOK /\ v \in Money /\ v \in Nat /\ m \in Nat
      /\ cost[s] \in Int /\ val[s] \in Int
  BY AmountAssumption DEF MoneyInv, MoneyOK, Money
<1>a. /\ cash \in Int /\ debt \in Int /\ interest \in Int /\ buyFees \in Int
      /\ realized \in Int /\ Start \in Int /\ OldDebt \in Int
      /\ Gross \in Int /\ C \in Int
  BY <1>0, AccountIsInts
<1>1. /\ cash' = cash - used /\ debt' = debt + (total - used)
      /\ val' = [val EXCEPT ![s] = m + v] /\ cost' = [cost EXCEPT ![s] = cost[s] + v]
      /\ buyFees' = buyFees + Fee[v]
      /\ UNCHANGED <<interest, realized>>
      /\ e \in 1..MaxMoney
  BY DEF Buy, Affordable
<1>2. Fee[v] \in Int /\ total = v + Fee[v] /\ used \in Int
  <2>1. Fee[v] \in Nat /\ cash \in Nat /\ total \in Nat /\ e \in Money
    BY <1>0, <1>1, NetBound, AmountAssumption DEF MoneyOK, Money
  <2> HIDE DEF e
  <2>2. used \in Nat
    BY <2>1, CashUsedBound
  <2> HIDE DEF used
  <2>3. QED
    BY <2>1, <2>2
<1> HIDE DEF used, total, e
<1>3. Gross' = Gross - val[s] + (m + v) /\ SumFunction(cost') = C - cost[s] + (cost[s] + v)
  <2>1. m + v \in Int /\ cost[s] + v \in Int
    BY <1>0
  <2> HIDE DEF C
  <2>2. SumFunction(cost') = SumFunction(cost) - cost[s] + (cost[s] + v)
    BY <1>0, <1>1, <2>1, SumsChange
  <2>3. SumFunction(val') = Gross - val[s] + (m + v)
    BY <1>0, <1>1, <2>1, SumsChange
  <2>4. QED
    BY <2>2, <2>3 DEF Gross, C
<1>4. Unexplained = (cash + Gross - debt) - (Start - OldDebt)
                        - (realized + (Gross - C) - buyFees - interest)
  BY DEF Unexplained
<1>5. Unexplained' = (cash' + Gross' - debt') - (Start - OldDebt)
                        - (realized' + (Gross' - SumFunction(cost')) - buyFees' - interest')
  BY DEF Unexplained
<1> HIDE DEF C
<1>6. QED
  BY <1>0, <1>a, <1>1, <1>2, <1>3, <1>4, <1>5

\* A rotation does both, and sells the row it has locked.
LEMMA RotationUnexplained ==
    ASSUME MoneyInv, NEW w \in Worker, NEW r \in Symbol, NEW s \in Symbol,
           NEW x \in Mark, NEW v \in 1..MaxMoney, NEW m \in Mark \cup {0},
           Rotate(w, r, x, s, v, m)
    PROVE  Unexplained' = Unexplained
<1> DEFINE C == SumFunction(cost)
           net == NetProceeds(x)
           repaid == Repayment(debt, net)
           c == cash + net - repaid
           d == debt - repaid
           e == c + (Gross - val[r]) - d
           total == v + Fee[v]
           used == CashUsed(c, e, total)
<1>0. /\ MoneyOK /\ v \in Money /\ v \in Nat /\ m \in Nat /\ x \in Money /\ x \in Nat
      /\ cost \in [Symbol -> Nat] /\ val \in [Symbol -> Nat]
  BY AmountAssumption DEF MoneyInv, MoneyOK, Money
<1>a. /\ cash \in Int /\ debt \in Int /\ interest \in Int /\ buyFees \in Int
      /\ realized \in Int /\ Start \in Int /\ OldDebt \in Int
      /\ Gross \in Int /\ C \in Int
  BY <1>0, AccountIsInts
<1>1. /\ cash' = c - used /\ debt' = d + (total - used)
      /\ val' = [val EXCEPT ![r] = 0, ![s] = m + v]
      /\ cost' = [cost EXCEPT ![r] = 0, ![s] = @ + v]
      /\ buyFees' = buyFees + Fee[v] /\ realized' = realized + RealizedPnl(cost[r], x)
      /\ UNCHANGED interest
      /\ e \in 1..MaxMoney /\ r # s
  BY DEF Rotate, Affordable
<1>2. /\ Fee[x] \in Nat /\ net \in Nat /\ net = x - Fee[x] /\ Fee[v] \in Nat
      /\ debt \in Nat /\ cash \in Nat /\ total \in Nat /\ e \in Money
      /\ RealizedPnl(cost[r], x) = x - cost[r] - Fee[x]
  BY <1>0, <1>1, NetBound, AmountAssumption DEF NetProceeds, RealizedPnl, MoneyOK, Money
<1>3. repaid \in Nat /\ repaid <= debt /\ repaid <= net
  BY <1>2, RepaymentBound
<1>4. c \in Nat /\ d \in Nat
  BY <1>2, <1>3
<1>5. used \in Nat
  <2>1. total \in Nat /\ e \in Money
    BY <1>2
  <2> HIDE DEF c, d, e, total
  <2>2. QED
    BY <1>4, <2>1, CashUsedBound
<1>6. c = cash + net - repaid /\ d = debt - repaid /\ total = v + Fee[v]
  OBVIOUS
<1> HIDE DEF net, repaid, c, d, e, total, used
<1>7. /\ Gross' = Gross - val[r] - val[s] + (m + v)
      /\ SumFunction(cost') = C - cost[r] + v
  <2> DEFINE f == [val EXCEPT ![r] = 0]
             g == [cost EXCEPT ![r] = 0]
  <2>1. /\ f \in [Symbol -> Int] /\ f[s] = val[s] /\ val' = [f EXCEPT ![s] = m + v]
        /\ g \in [Symbol -> Int] /\ g[s] = cost[s]
        /\ cost' = [g EXCEPT ![s] = cost[s] + v]
    <3>1. /\ f \in [Symbol -> Int] /\ f[s] = val[s]
          /\ g \in [Symbol -> Int] /\ g[s] = cost[s]
      BY <1>0, <1>1
    <3>2. val' = [f EXCEPT ![s] = m + v] /\ cost' = [g EXCEPT ![s] = g[s] + v]
      BY <1>1
    <3> HIDE DEF f, g
    <3>3. QED
      BY <3>1, <3>2
  <2>2. SumFunction(f) = Gross - val[r] + 0 /\ SumFunction(g) = C - cost[r] + 0
    <3>1. MoneyOK /\ 0 \in Int
      BY <1>0
    <3>2. QED
      BY <3>1, SumsChange
  <2> HIDE DEF f, g
  <2>3. m + v \in Int /\ cost[s] + v \in Int
    BY <1>0
  <2>4. SumFunction(val') = SumFunction(f) - f[s] + (m + v)
    BY <2>1, <2>3, SumExcept, SymbolAssumption
  <2>5. SumFunction(cost') = SumFunction(g) - g[s] + (cost[s] + v)
    BY <2>1, <2>3, SumExcept, SymbolAssumption
  <2>6. cost[s] \in Int /\ cost[r] \in Int /\ val[r] \in Int /\ val[s] \in Int
    BY <1>0
  <2> HIDE DEF C
  <2>7. SumFunction(cost') = C - cost[r] + v
    BY <1>0, <1>a, <2>1, <2>2, <2>5, <2>6
  <2>8. Gross' = Gross - val[r] - val[s] + (m + v)
    BY <1>0, <1>a, <2>1, <2>2, <2>4, <2>6 DEF Gross
  <2>9. QED
    BY <2>7, <2>8
<1>8. Unexplained = (cash + Gross - debt) - (Start - OldDebt)
                        - (realized + (Gross - C) - buyFees - interest)
  BY DEF Unexplained
<1>9. Unexplained' = (cash' + Gross' - debt') - (Start - OldDebt)
                        - (realized' + (Gross' - SumFunction(cost')) - buyFees' - interest')
  BY DEF Unexplained
<1>10. cost[r] \in Int /\ Gross' \in Int
  BY <1>0, <1>a, <1>7
<1> HIDE DEF C
<1>11. QED
  BY <1>0, <1>a, <1>1, <1>2, <1>3, <1>5, <1>6, <1>7, <1>8, <1>9, <1>10

LEMMA MarkUnexplained ==
    ASSUME MoneyInv, NEW w \in Worker, NEW s \in Symbol, NEW m \in Mark,
           MarkPosition(w, s, m)
    PROVE  Unexplained' = Unexplained
<1>1. /\ val' = [val EXCEPT ![s] = m]
      /\ UNCHANGED <<cash, debt, interest, cost, buyFees, realized>>
  BY DEF MarkPosition, portfolio, history
<1>2. MoneyOK /\ m \in Int /\ val[s] \in Int
  BY AmountAssumption DEF MoneyInv, MoneyOK, Money
<1>3. Gross' = Gross - val[s] + m
  <2>1. SumFunction(val') = SumFunction(val) - val[s] + m
    BY <1>1, <1>2, SumsAreInts, SumExcept, SymbolAssumption
  <2>2. QED
    BY <2>1 DEF Gross
<1>4. /\ cash \in Int /\ debt \in Int /\ interest \in Int /\ buyFees \in Int
      /\ realized \in Int /\ Start \in Int /\ OldDebt \in Int
      /\ Gross \in Int /\ SumFunction(cost) \in Int
  BY <1>2, AccountIsInts
<1>5. SumFunction(cost') = SumFunction(cost)
  BY <1>1
<1>6. QED
  BY <1>1, <1>2, <1>3, <1>4, <1>5 DEF Unexplained

\* Only a sale can leave anything unexplained.
LEMMA OthersExplain ==
    ASSUME MoneyInv, [Next]_vars,
           \A w \in Worker, s \in Symbol, x \in Mark : ~ Sell(w, s, x)
    PROVE  Unexplained' = Unexplained
<1>1. CASE \E w \in Worker : Report(w)
  BY <1>1, ReportUnexplained
<1>2. CASE \E w \in Worker : Trade(w)
  <2>1. PICK w \in Worker : Trade(w)
    BY <1>2
  <2>2. CASE ReadRows(w)
    BY <2>2, NothingMoves DEF ReadRows, portfolio, positions, history
  <2>3. QED
    BY <2>1, <2>2, BuyUnexplained, RotationUnexplained, MarkUnexplained DEF Trade
<1>3. CASE Tick \/ UNCHANGED vars
  BY <1>3, NothingMoves DEF Tick, vars, portfolio, positions, history
<1>4. QED
  BY <1>1, <1>2, <1>3 DEF Next

\* For any workers and symbols: purchases, rotations, marks and accruals explain
\* every change of equity they make, in the equation of
\* paper_accounting_reconciliation_runtime.py; only a sale of a row that is no
\* longer what was read (_execute_close_position) does not, and by its staleness.
THEOREM StaleSalesAlone == Spec => OnlyStaleSalesMisstate
<1> DEFINE Misstated == \E w \in Worker, s \in Symbol, x \in Mark :
               /\ Sell(w, s, x)
               /\ Unexplained' = Unexplained + rows[w][s] - cost[s]
<1>1. MoneyInv /\ [Next]_vars => [Unexplained' # Unexplained => Misstated]_vars
  <2> SUFFICES ASSUME MoneyInv, [Next]_vars, Unexplained' # Unexplained
               PROVE  Misstated
    OBVIOUS
  <2>1. PICK w \in Worker, s \in Symbol, x \in Mark : Sell(w, s, x)
    BY OthersExplain
  <2>2. Unexplained' = Unexplained + rows[w][s] - cost[s]
    BY <2>1, SaleUnexplained
  <2>3. QED
    BY <2>1, <2>2
<1>2. QED
  BY <1>1, MoneyInvariant, PTL DEF Spec, OnlyStaleSalesMisstate

\* What a lone worker's pass has read, and not sold, is what there is.
RowsFresh == \A w \in Worker, s \in Symbol : rows[w][s] > 0 => rows[w][s] = cost[s]

LEMMA RowsStayFresh ==
    ASSUME \A v, w \in Worker : v = w, MoneyInv, RowsFresh, [Next]_vars
    PROVE  RowsFresh'
<1>0. /\ rows \in [Worker -> [Symbol -> Nat]] /\ cost \in [Symbol -> Nat]
  BY DEF MoneyInv, MoneyOK, WorkersOK
<1>1. CASE UNCHANGED <<rows, cost>>
  BY <1>1 DEF RowsFresh
<1>2. ASSUME NEW w \in Worker, Done(w) PROVE RowsFresh'
  <2>1. rows' = [rows EXCEPT ![w] = NoRows]
    BY <1>2 DEF Done
  <2>2. QED
    BY <1>0, <2>1 DEF NoRows, RowsFresh
<1>3. ASSUME NEW w \in Worker, Report(w) PROVE RowsFresh'
  <2>1. CASE InsertSnapshot(w) \/ Drop(w)
    BY <1>2, <2>1 DEF InsertSnapshot, Drop
  <2>2. QED
    BY <1>1, <1>3, <2>1
    DEF Report, ReadPortfolio, SkipAccrual, Accrue, ReadPositions, RaisePeak, positions
<1>4. ASSUME NEW w \in Worker, Trade(w) PROVE RowsFresh'
  <2>1. CASE ReadRows(w)
    <3>1. rows' = [rows EXCEPT ![w] = cost] /\ cost' = cost
      BY <2>1 DEF ReadRows, positions
    <3>2. QED
      BY <1>0, <3>1 DEF RowsFresh
  <2>2. ASSUME NEW s \in Symbol, NEW x \in Mark, Sell(w, s, x) PROVE RowsFresh'
    <3>1. rows' = [rows EXCEPT ![w][s] = 0] /\ cost' = [cost EXCEPT ![s] = 0]
      BY <2>2 DEF Sell
    <3>2. ASSUME NEW v \in Worker, NEW q \in Symbol, rows'[v][q] > 0
          PROVE  rows'[v][q] = cost'[q]
      <4>1. v = w
        OBVIOUS
      <4>2. q # s /\ rows'[v][q] = rows[v][q] /\ cost'[q] = cost[q]
        BY <1>0, <3>1, <3>2, <4>1
      <4>3. QED
        BY <3>2, <4>2 DEF RowsFresh
    <3>3. QED
      BY <3>2 DEF RowsFresh
  <2>3. CASE \/ \E s \in Symbol, v \in 1..MaxMoney, m \in Mark \cup {0} : Buy(w, s, v, m)
             \/ \E r, s \in Symbol, x \in Mark, v \in 1..MaxMoney, m \in Mark \cup {0} :
                    Rotate(w, r, x, s, v, m)
    BY <1>2, <2>3 DEF Buy, Rotate
  <2>4. CASE \E s \in Symbol, m \in Mark : MarkPosition(w, s, m)
    BY <1>1, <2>4 DEF MarkPosition, local
  <2>5. QED
    BY <1>4, <2>1, <2>2, <2>3, <2>4 DEF Trade
<1>5. CASE Tick \/ UNCHANGED vars
  BY <1>1, <1>5 DEF Tick, vars, positions, local
<1>6. QED
  BY <1>3, <1>4, <1>5 DEF Next

\* With one worker, and any number of positions, the equation holds after every
\* trade, mark and accrual: no result is counted twice and none is lost.
THEOREM EveryChangeExplained ==
    ASSUME \A v, w \in Worker : v = w
    PROVE  Spec => []ChangeExplained
<1>1. Init => RowsFresh /\ ChangeExplained
  <2> SUFFICES ASSUME Init PROVE RowsFresh /\ ChangeExplained
    OBVIOUS
  <2>1. RowsFresh
    BY DEF Init, RowsFresh, NoRows
  <2>2. Gross = 0 /\ SumFunction(cost) = 0
    BY SumZero, SymbolAssumption DEF Init, NoRows, Gross
  <2>3. /\ cash = Start /\ debt = OldDebt /\ interest = 0 /\ buyFees = 0
        /\ realized = 0 /\ Start \in Int /\ OldDebt \in Int
    BY AmountAssumption DEF Init, Money
  <2>4. QED
    BY <2>1, <2>2, <2>3 DEF ChangeExplained, Unexplained
<1>2. MoneyInv /\ RowsFresh /\ ChangeExplained /\ [Next]_vars
          => RowsFresh' /\ ChangeExplained'
  <2> SUFFICES ASSUME MoneyInv, RowsFresh, ChangeExplained, [Next]_vars
               PROVE  ChangeExplained'
    BY RowsStayFresh
  <2>1. ASSUME NEW w \in Worker, NEW s \in Symbol, NEW x \in Mark, Sell(w, s, x)
        PROVE  ChangeExplained'
    <3>1. rows[w][s] = cost[s] /\ cost[s] \in Int
      BY <2>1 DEF Sell, RowsFresh, MoneyInv, MoneyOK
    <3>2. Unexplained' = 0 + cost[s] - cost[s]
      BY <2>1, <3>1, SaleUnexplained DEF ChangeExplained
    <3>3. QED
      BY <3>1, <3>2 DEF ChangeExplained
  <2>2. QED
    BY <2>1, OthersExplain DEF ChangeExplained
<1>3. QED
  BY <1>1, <1>2, MoneyInvariant, PTL DEF Spec
---------------------------------------------------------------------------
(* Reports *)

\* A worker that has raised the peak records no more than the peak.
PeakInv ==
    /\ peak \in Int /\ snap \in Int /\ equity \in [Worker -> Int]
    /\ PeakCoversSnapshot
    /\ \A w \in Worker : pc[w] = "peaked" => equity[w] <= peak

LEMMA PeakNext ==
    ASSUME MoneyInv, PeakInv, [Next]_vars
    PROVE  PeakInv'
<1> USE DEF PeakInv, PeakCoversSnapshot
<1>0. pc \in [Worker -> PC]
  BY DEF MoneyInv, WorkersOK
<1>1. ASSUME NEW w \in Worker, Done(w), UNCHANGED <<peak, snap>> PROVE PeakInv'
  <2>1. /\ equity' = [equity EXCEPT ![w] = 0]
        /\ pc' = [pc EXCEPT ![w] = "idle"]
    BY <1>1 DEF Done, Goto
  <2>2. QED
    BY <1>0, <1>1, <2>1
<1>2. ASSUME NEW w \in Worker, Report(w) PROVE PeakInv'
  <2>1. CASE ReadPortfolio(w) \/ SkipAccrual(w) \/ Accrue(w)
    <3>1. /\ UNCHANGED <<peak, snap, equity>>
          /\ \E l \in PC : l # "peaked" /\ pc' = [pc EXCEPT ![w] = l]
      BY <2>1 DEF ReadPortfolio, SkipAccrual, Accrue, Goto, reports, PC
    <3>2. QED
      BY <1>0, <3>1
  <2>2. CASE ReadPositions(w)
    <3>1. /\ equity' = [equity EXCEPT ![w] = seen[w].cash + Gross - seen[w].debt]
          /\ pc' = [pc EXCEPT ![w] = "valued"] /\ UNCHANGED <<peak, snap>>
      BY <2>2 DEF ReadPositions, Goto, reports
    <3>2. seen[w].cash + Gross - seen[w].debt \in Int
      <4>1. seen[w].cash \in Int /\ seen[w].debt \in Int
        BY AmountAssumption DEF MoneyInv, WorkersOK, Row, Money
      <4>2. QED
        BY <4>1, SumsAreInts DEF MoneyInv
    <3>3. QED
      BY <1>0, <3>1, <3>2
  <2>3. CASE RaisePeak(w)
    <3>1. /\ peak' = IF equity[w] > peak THEN equity[w] ELSE peak
          /\ pc' = [pc EXCEPT ![w] = "peaked"] /\ UNCHANGED <<snap, equity>>
      BY <2>3 DEF RaisePeak, PeakAfter, Goto
    <3>2. peak' \in Int /\ peak <= peak' /\ equity[w] <= peak'
      BY <3>1
    <3>3. \A v \in Worker : v # w => pc'[v] = pc[v]
      BY <1>0, <3>1
    <3>4. \A v \in Worker : pc'[v] = "peaked" => equity[v] <= peak'
      <4>1. ASSUME NEW v \in Worker, pc'[v] = "peaked" PROVE equity[v] <= peak'
        <5>1. CASE v = w
          BY <3>2, <5>1
        <5>2. CASE v # w
          <6>1. equity[v] <= peak /\ equity[v] \in Int
            BY <3>3, <4>1, <5>2
          <6>2. QED
            BY <3>2, <6>1
        <5>3. QED
          BY <5>1, <5>2
      <4>2. QED
        BY <4>1
    <3>5. QED
      BY <3>1, <3>2, <3>4
  <2>4. CASE InsertSnapshot(w)
    <3>1. /\ pc[w] = "peaked" /\ snap' = equity[w] /\ UNCHANGED peak
          /\ equity' = [equity EXCEPT ![w] = 0]
          /\ pc' = [pc EXCEPT ![w] = "idle"]
      BY <2>4 DEF InsertSnapshot, Done, Goto
    <3>2. QED
      BY <1>0, <3>1
  <2>5. CASE Drop(w)
    BY <1>1, <2>5 DEF Drop, reports
  <2>6. QED
    BY <1>2, <2>1, <2>2, <2>3, <2>4, <2>5 DEF Report
<1>3. ASSUME NEW w \in Worker, Trade(w) PROVE PeakInv'
  <2>1. CASE \/ \E s \in Symbol, v \in 1..MaxMoney, m \in Mark \cup {0} : Buy(w, s, v, m)
             \/ \E r, s \in Symbol, x \in Mark, v \in 1..MaxMoney, m \in Mark \cup {0} :
                    Rotate(w, r, x, s, v, m)
    BY <1>1, <2>1 DEF Buy, Rotate, reports
  <2>2. CASE \/ \E s \in Symbol, x \in Mark : Sell(w, s, x)
             \/ \E s \in Symbol, m \in Mark : MarkPosition(w, s, m)
    BY <2>2 DEF Sell, MarkPosition, reports, local
  <2>3. CASE ReadRows(w)
    <3>1. /\ pc' = [pc EXCEPT ![w] = "pass"] /\ UNCHANGED <<peak, snap, equity>>
      BY <2>3 DEF ReadRows, Goto, reports
    <3>2. QED
      BY <1>0, <3>1
  <2>4. QED
    BY <1>3, <2>1, <2>2, <2>3 DEF Trade
<1>4. CASE Tick \/ UNCHANGED vars
  BY <1>4 DEF Tick, vars, reports, local
<1>5. QED
  BY <1>2, <1>3, <1>4 DEF Next

LEMMA PeakInvariant == Spec => [](MoneyInv /\ PeakInv)
<1>1. Init => PeakInv
  BY DEF Init, PeakInv, PeakCoversSnapshot
<1>2. QED
  BY <1>1, MoneyInit, MoneyNext, PeakNext, PTL DEF Spec

\* Every stored amount, and every report computed from it, keeps its type.
THEOREM AccountTypeCorrect == Spec => []TypeOK
<1>1. MoneyInv /\ PeakInv => TypeOK
  BY DEF MoneyInv, PeakInv, TypeOK
<1>2. QED
  BY <1>1, PeakInvariant, PTL

\* No equity is recorded above peak_equity, however many workers report and
\* wherever they stop (portfolio_equity, then the equity_snapshots row).
THEOREM PeakIsHighest == Spec => []PeakCoversSnapshot
<1>1. PeakInv => PeakCoversSnapshot
  BY DEF PeakInv
<1>2. QED
  BY <1>1, PeakInvariant, PTL

\* What a lone worker has read of the account is what the account is.
FreshInv ==
    \A w \in Worker :
        /\ pc[w] \in {"read", "known"} => seen[w].cash = cash /\ seen[w].debt = debt
        /\ pc[w] \in {"valued", "peaked"} => equity[w] = cash + Gross - debt

LEMMA FreshNext ==
    ASSUME \A v, w \in Worker : v = w, MoneyInv, PeakInv, FreshInv, [Next]_vars
    PROVE  FreshInv'
<1>0. /\ pc \in [Worker -> PC] /\ seen \in [Worker -> Row]
      /\ equity \in [Worker -> Int]
  BY DEF MoneyInv, WorkersOK, PeakInv
<1>1. ASSUME NEW w \in Worker, pc'[w] \in {"idle", "pass"} PROVE FreshInv'
  BY <1>1 DEF FreshInv
<1>2. ASSUME NEW w \in Worker, Report(w) PROVE FreshInv'
  <2>1. CASE ReadPortfolio(w)
    <3>1. /\ pc' = [pc EXCEPT ![w] = "read"] /\ seen' = [seen EXCEPT ![w] = LockedRow(w)]
          /\ UNCHANGED <<cash, debt>>
      BY <2>1 DEF ReadPortfolio, Goto, portfolio
    <3>2. QED
      BY <1>0, <3>1 DEF FreshInv, LockedRow
  <2>2. CASE SkipAccrual(w)
    <3>1. /\ pc[w] = "read" /\ pc' = [pc EXCEPT ![w] = "known"]
          /\ UNCHANGED <<cash, debt, seen>>
      BY <2>2 DEF SkipAccrual, Goto, portfolio
    <3>2. QED
      BY <1>0, <3>1 DEF FreshInv
  <2>3. CASE Accrue(w)
    <3>1. pc' = [pc EXCEPT ![w] = "known"] /\ cash' = cash
      BY <2>3 DEF Accrue, Goto
    <3>2. seen'[w].cash = cash /\ seen'[w].debt = debt'
      <4>1. CASE Due(CurrentRow(w)) /\ Charge(CurrentRow(w)) > 0
        <5>1. /\ debt' = debt + Charge(CurrentRow(w))
              /\ seen' = [seen EXCEPT ![w] =
                     AccruedRow(w, [CurrentRow(w) EXCEPT
                         !.debt = CurrentRow(w).debt + Charge(CurrentRow(w)), !.stamp = now])]
          BY <2>3, <4>1 DEF Accrue
        <5>2. CurrentRow(w) = [cash |-> cash, debt |-> debt, stamp |-> stamp]
          BY DEF CurrentRow, LockedRow
        <5>3. QED
          BY <1>0, <5>1, <5>2 DEF AccruedRow
      <4>2. CASE ~ (Due(CurrentRow(w)) /\ Charge(CurrentRow(w)) > 0)
        BY <1>0, <2>3, <4>2 DEF Accrue, CurrentRow, LockedRow
      <4>3. QED
        BY <4>1, <4>2
    <3>3. QED
      BY <1>0, <3>1, <3>2 DEF FreshInv
  <2>4. CASE ReadPositions(w)
    <3>1. /\ pc[w] = "known" /\ pc' = [pc EXCEPT ![w] = "valued"]
          /\ equity' = [equity EXCEPT ![w] = seen[w].cash + Gross - seen[w].debt]
          /\ UNCHANGED <<cash, debt, val>>
      BY <2>4 DEF ReadPositions, Goto, portfolio, positions
    <3>2. seen[w].cash = cash /\ seen[w].debt = debt
      BY <3>1 DEF FreshInv
    <3>3. QED
      BY <1>0, <3>1, <3>2 DEF FreshInv, Gross
  <2>5. CASE RaisePeak(w)
    <3>1. /\ pc[w] = "valued" /\ pc' = [pc EXCEPT ![w] = "peaked"]
          /\ UNCHANGED <<cash, debt, val, equity>>
      BY <2>5 DEF RaisePeak, Goto, portfolio, positions
    <3>2. QED
      BY <1>0, <3>1 DEF FreshInv, Gross
  <2>6. CASE InsertSnapshot(w) \/ Drop(w)
    BY <1>0, <1>1, <2>6 DEF InsertSnapshot, Drop, Done, Goto
  <2>7. QED
    BY <1>2, <2>1, <2>2, <2>3, <2>4, <2>5, <2>6 DEF Report
<1>3. ASSUME NEW w \in Worker, Trade(w) PROVE FreshInv'
  <2>1. CASE \/ ReadRows(w) \/ \E s \in Symbol, x \in Mark : Sell(w, s, x)
             \/ \E s \in Symbol, m \in Mark : MarkPosition(w, s, m)
    <3>1. pc'[w] = "pass"
      BY <1>0, <2>1 DEF ReadRows, Sell, MarkPosition, Goto, local
    <3>2. QED
      BY <1>1, <3>1
  <2>2. CASE \/ \E s \in Symbol, v \in 1..MaxMoney, m \in Mark \cup {0} : Buy(w, s, v, m)
             \/ \E r, s \in Symbol, x \in Mark, v \in 1..MaxMoney, m \in Mark \cup {0} :
                    Rotate(w, r, x, s, v, m)
    <3>1. Done(w)
      BY <2>2 DEF Buy, Rotate
    <3>2. QED
      BY <1>0, <1>1, <3>1 DEF Done, Goto
  <2>3. QED
    BY <1>3, <2>1, <2>2 DEF Trade
<1>4. CASE Tick \/ UNCHANGED vars
  BY <1>4 DEF Tick, vars, FreshInv, portfolio, positions, local, Gross
<1>5. QED
  BY <1>2, <1>3, <1>4 DEF Next

\* With one worker, whatever the number of positions, an equity snapshot is the
\* equity at the moment it is recorded.
THEOREM LoneSnapshotIsTrue ==
    ASSUME \A v, w \in Worker : v = w
    PROVE  Spec => SnapshotIsTrue
<1>1. Init => FreshInv
  BY DEF Init, FreshInv
<1>2. MoneyInv /\ PeakInv /\ FreshInv /\ [Next]_vars => FreshInv'
  BY FreshNext
<1>3. FreshInv /\ [Next]_vars =>
          [\A w \in Worker : InsertSnapshot(w) => snap' = cash + Gross - debt]_vars
  <2>1. ASSUME FreshInv, NEW w \in Worker, InsertSnapshot(w)
        PROVE  snap' = cash + Gross - debt
    BY <2>1 DEF FreshInv, InsertSnapshot
  <2>2. QED
    BY <2>1
<1>4. QED
  BY <1>1, <1>2, <1>3, PeakInvariant, PTL DEF Spec, SnapshotIsTrue

\* The equity a lone worker records is the one accounting_invariants computes,
\* with interest taken off as well, for an account that starts without debt:
\* the two differ only by the interest on a debt of an earlier profile.
THEOREM CashAccountReconciles ==
    ASSUME FeeFits, OldDebt = 0, \A v, w \in Worker : v = w
    PROVE  Spec => SnapshotReconciles
<1> DEFINE True == \A w \in Worker : InsertSnapshot(w) => snap' = cash + Gross - debt
           Reconciles == \A w \in Worker : InsertSnapshot(w) => snap' = EquityEquation
<1>1. MoneyInv /\ Unencumbered /\ True => Reconciles
  <2>1. ASSUME MoneyInv, Unencumbered
        PROVE  cash + Gross - debt = EquityEquation
    <3>1. cash \in Int /\ Gross \in Int /\ debt = 0 /\ interest = 0
      BY <2>1, SumsAreInts, AmountAssumption
      DEF MoneyInv, MoneyOK, Money, Unencumbered
    <3>2. QED
      BY <3>1 DEF EquityEquation
  <2>2. QED
    BY <2>1
<1>2. MoneyInv /\ Unencumbered /\ [True]_vars => [Reconciles]_vars
  BY <1>1
<1>3. QED
  BY <1>2, MoneyInvariant, CashAccountStaysOne, LoneSnapshotIsTrue, PTL
  DEF SnapshotIsTrue, SnapshotReconciles
===========================================================================
