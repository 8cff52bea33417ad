----------------------------- MODULE PaperAccount -----------------------------
(***************************************************************************)
(* The money of one paper market: the portfolios row (cash, margin debt,   *)
(* interest), the value and cost of its positions, and the equity history  *)
(* computed from them (paper_broker.py, oracle_bot.py, and the fee wrappers *)
(* of paper_execution_accounting.py).                                      *)
(*                                                                         *)
(* A worker here is a worker process: what its threads do to the account   *)
(* is serialised by trade_cycle_lock.  A trade is one transaction that     *)
(* holds the portfolio row; PaperLedger says when it may happen, this      *)
(* module what it does to the money.  A sale is nevertheless one of the    *)
(* position row its pass had read before, whatever has become of that row. *)
(* The helpers that read the account use one connection for every          *)
(* statement.                                                              *)
(*                                                                         *)
(* Money is in whole units.  A position is its value at its current price  *)
(* and its cost at its average price; percentages are given as functions.  *)
(***************************************************************************)
EXTENDS Integers, FiniteSets, Functions

CONSTANTS
    Worker,       \* worker processes of this market
    Symbol,       \* tradable symbols
    Start,        \* starting_balance
    OldDebt,      \* margin debt of a row written by an earlier profile
    MaxMoney,     \* bound: any amount of money
    MaxTime,      \* bound: the clock
    MaxTrades,    \* bound: trades
    Mark,         \* values a position may be marked at
    Period,       \* PAPER_MARGIN_INTEREST_ACCRUAL_SECONDS
    Fee,          \* fee on a fill of a given value
    Interest,     \* interest on a debt over a time
    Reserve,      \* MIN_CASH_RESERVE_PCT of an equity
    AllocReserve, \* STOCK_ or CRYPTO_MIN_CASH_RESERVE_PCT of an equity
    MaxPosition,  \* largest position the allocator allows on an equity
    MaxGross      \* leverage_limit * PAPER_MAX_MARGIN_UTILIZATION_PCT of it

Money == 0..MaxMoney
Clock == 0..MaxTime

ASSUME SymbolAssumption == IsFiniteSet(Symbol)
ASSUME AmountAssumption ==
    /\ MaxMoney \in Nat /\ MaxTime \in Nat /\ MaxTrades \in Nat
    /\ Start \in Money /\ OldDebt \in Money
    /\ Mark \subseteq 1..MaxMoney
    /\ Period \in Nat \ {0}
ASSUME RateAssumption ==
    /\ Fee \in [Money -> Money]
    /\ \A v \in Money : Fee[v] <= v
    /\ Interest \in [Money -> [Clock -> Money]]
    /\ Reserve \in [Money -> Money]
    /\ AllocReserve \in [Money -> Money]
    /\ MaxPosition \in [Money -> Nat]
    /\ MaxGross \in [Money -> Nat]

VARIABLES
    cash, debt, interest, stamp, \* the portfolios row
    peak,                        \* its peak_equity
    val, cost,                   \* positions: value at current_price, cost
    spent, proceeds,             \* value of the BUY and of the SELL trades
    buyFees, sellFees,           \* fees of the BUY and of the SELL trades
    realized,                    \* realized_pnl of the SELL trades
    ntrades,                     \* number of trades
    snap,                        \* equity of the last equity_snapshots row
    now,                         \* the time
    pc, seen, equity,            \* a worker's step, row read, equity computed
    rows,                        \* cost of the positions its pass has read
    charged                      \* time interest was ever charged for

portfolio == <<cash, debt, interest, stamp>>
positions == <<val, cost>>
history   == <<spent, proceeds, buyFees, sellFees, realized, ntrades>>
reports   == <<peak, snap>>
local     == <<pc, seen, equity, rows>>
vars == <<portfolio, positions, history, reports, now, local, charged>>

PC == {"idle", "pass", "read", "known", "valued", "peaked"}
Row == [cash : Money, debt : Money, stamp : Clock]

\* The portfolios row, the positions and the totals of the trades; cash and
\* debt, in particular, never become negative.
MoneyOK ==
    /\ cash \in Money /\ debt \in Money /\ interest \in Nat /\ stamp \in Clock
    /\ val \in [Symbol -> Money] /\ cost \in [Symbol -> Nat]
    /\ spent \in Nat /\ proceeds \in Nat
    /\ buyFees \in Nat /\ sellFees \in Nat
    /\ realized \in Int /\ ntrades \in Nat

WorkersOK ==
    /\ now \in Clock /\ charged \in Nat
    /\ pc \in [Worker -> PC]
    /\ seen \in [Worker -> Row]
    /\ rows \in [Worker -> [Symbol -> Nat]]

\* The type invariant.
TypeOK == /\ MoneyOK /\ WorkersOK
          /\ peak \in Int /\ snap \in Int
          /\ equity \in [Worker -> Int]

NoRow == [cash |-> 0, debt |-> 0, stamp |-> 0]
NoRows == [s \in Symbol |-> 0]
LockedRow(w) == [cash |-> cash, debt |-> debt, stamp |-> stamp]

Init ==
    /\ cash = Start /\ debt = OldDebt /\ interest = 0 /\ stamp = 0
    /\ val = NoRows /\ cost = NoRows
    /\ spent = 0 /\ proceeds = 0 /\ buyFees = 0 /\ sellFees = 0
    /\ realized = 0 /\ ntrades = 0
    /\ peak = 0 /\ snap = 0
    /\ now = 0 /\ charged = 0
    /\ pc = [w \in Worker |-> "idle"]
    /\ seen = [w \in Worker |-> NoRow]
    /\ equity = [w \in Worker |-> 0]
    /\ rows = [w \in Worker |-> NoRows]

Holds(s) == val[s] > 0
Gross == SumFunction(val)
Goto(w, l) == pc' = [pc EXCEPT ![w] = l]

\* What a call had read is gone when it returns.
Done(w) ==
    /\ Goto(w, "idle")
    /\ seen' = [seen EXCEPT ![w] = NoRow]
    /\ equity' = [equity EXCEPT ![w] = 0]
    /\ rows' = [rows EXCEPT ![w] = NoRows]
---------------------------------------------------------------------------
(* portfolio_equity, and the equity snapshot *)

ReadPortfolio(w) ==
    /\ pc[w] = "idle"
    /\ seen' = [seen EXCEPT ![w] = LockedRow(w)]
    /\ Goto(w, "read")
    /\ UNCHANGED <<portfolio, positions, history, reports, now, equity, rows,
                   charged>>

Due(row) == row.debt > 0 /\ now - row.stamp >= Period

\* The row the accrual works on: the one its transaction has locked.
\* Mutant: the one the caller had read.
StaleRow(w) == seen[w]
CurrentRow(w) == LockedRow(w)

\* The row the caller goes on with.
\* Mutant: the caller keeps the row from before the accrual.
KeepSeen(w, row) == seen[w]
AccruedRow(w, row) == row

Charge(row) == Interest[row.debt][now - row.stamp]

\* Nothing is due, or the exception handler returns what was passed in.
SkipAccrual(w) ==
    /\ pc[w] = "read"
    /\ Goto(w, "known")
    /\ UNCHANGED <<portfolio, positions, history, reports, now, seen, equity,
                   rows, charged>>

Accrue(w) ==
    LET row == CurrentRow(w) IN
    /\ pc[w] = "read" /\ Due(seen[w])
    /\ Goto(w, "known")
    /\ IF Due(row) /\ Charge(row) > 0
       THEN /\ debt + Charge(row) \in Money
            /\ debt' = debt + Charge(row)
            /\ interest' = interest + Charge(row)
            /\ stamp' = now
            /\ charged' = charged + (now - row.stamp)
            /\ seen' = [seen EXCEPT ![w] =
                   AccruedRow(w, [row EXCEPT !.debt = @ + Charge(row),
                                             !.stamp = now])]
       ELSE /\ seen' = [seen EXCEPT ![w] = row]
            /\ UNCHANGED <<debt, interest, stamp, charged>>
    /\ UNCHANGED <<cash, positions, history, reports, now, equity, rows>>

\* build_account, from the row read before and the positions read now.
ReadPositions(w) ==
    /\ pc[w] = "known"
    /\ equity' = [equity EXCEPT ![w] = seen[w].cash + Gross - seen[w].debt]
    /\ seen' = [seen EXCEPT ![w] = NoRow]
    /\ Goto(w, "valued")
    /\ UNCHANGED <<portfolio, positions, history, reports, now, rows, charged>>

\* Mutant: the peak is overwritten.
LastEquity(w) == equity[w]
PeakAfter(w) == IF equity[w] > peak THEN equity[w] ELSE peak

RaisePeak(w) ==
    /\ pc[w] = "valued"
    /\ peak' = PeakAfter(w)
    /\ Goto(w, "peaked")
    /\ UNCHANGED <<portfolio, positions, history, snap, now, seen, equity, rows,
                   charged>>

InsertSnapshot(w) ==
    /\ pc[w] = "peaked"
    /\ snap' = equity[w]
    /\ Done(w)
    /\ UNCHANGED <<portfolio, positions, history, peak, now, charged>>

\* The pass is over; or whoever asked for the equity wanted no snapshot; or an
\* exception ended it; or the process is restarted.
Drop(w) ==
    /\ pc[w] # "idle"
    /\ Done(w)
    /\ UNCHANGED <<portfolio, positions, history, reports, now, charged>>
---------------------------------------------------------------------------
(* Trades *)

\* Mutant: an earlier debt is not what limits the repayment.
AllProceeds(d, net) == net
Repayment(d, net) == IF d <= net THEN d ELSE net

\* What a purchase takes from cash: all of it above the reserve; the rest is debt.
CashUsed(c, e, total) ==
    LET spare == IF c > Reserve[e] THEN c - Reserve[e] ELSE 0
    IN IF spare <= total THEN spare ELSE total

\* Mutant: the fee is recorded but not taken from the proceeds.
GrossProceeds(v) == v
NetProceeds(v) == v - Fee[v]

\* The result of a sale for x of a position that cost k.
\* Mutant: the exit fee is not charged to it.
GrossPnl(k, x) == x - k
RealizedPnl(k, x) == x - k - Fee[x]

\* The checks on the account of the locked rows that bound a purchase of value
\* v: exposure, position size, the allocator's reserve, and the safeguard's.
\* Mutant: the allocator does not keep its reserve back.
SafeguardOnly(c, d, gross, kept, v) ==
    LET e == c + gross - d IN
    /\ e \in 1..MaxMoney
    /\ gross + v <= MaxGross[e] /\ kept + v <= MaxPosition[e]
    /\ Reserve[e] <= c - v
Affordable(c, d, gross, kept, v) ==
    LET e == c + gross - d IN
    /\ e \in 1..MaxMoney
    /\ gross + v <= MaxGross[e] /\ kept + v <= MaxPosition[e]
    /\ AllocReserve[e] <= c - v
    /\ Reserve[e] <= c - v

\* A price or exit pass, or a SELL signal, reads the positions it may close.
ReadRows(w) ==
    /\ pc[w] = "idle"
    /\ rows' = [rows EXCEPT ![w] = cost]
    /\ Goto(w, "pass")
    /\ UNCHANGED <<portfolio, positions, history, reports, now, seen, equity,
                   charged>>

\* The row that was read is sold for x, its quantity at the exit price.  The
\* position may have been sold or enlarged since: what there is of it is
\* deleted, and cash, trade and result are those of the row that was read.
Sell(w, s, x) ==
    LET repaid == Repayment(debt, NetProceeds(x)) IN
    /\ pc[w] = "pass" /\ rows[w][s] > 0 /\ ntrades < MaxTrades
    /\ cash + x \in Money
    /\ cash' = cash + NetProceeds(x) - repaid
    /\ debt' = debt - repaid
    /\ val' = [val EXCEPT ![s] = 0]
    /\ cost' = [cost EXCEPT ![s] = 0]
    /\ proceeds' = proceeds + x
    /\ sellFees' = sellFees + Fee[x]
    /\ realized' = realized + RealizedPnl(rows[w][s], x)
    /\ ntrades' = ntrades + 1
    /\ rows' = [rows EXCEPT ![w][s] = 0]
    /\ UNCHANGED <<interest, stamp, spent, buyFees, reports, now, pc, seen, equity,
                   charged>>

\* The position, if there is one already, is revalued at the price paid.
Buy(w, s, v, m) ==
    LET e == cash + Gross - debt
        total == v + Fee[v]
        used == CashUsed(cash, e, total)
    IN
    /\ pc[w] = "known" /\ ntrades < MaxTrades
    /\ v \in 1..MaxMoney /\ (m > 0 <=> Holds(s)) /\ m + v \in Money
    /\ Affordable(cash, debt, Gross, val[s], v)
    /\ debt + (total - used) \in Money
    /\ cash' = cash - used
    /\ debt' = debt + (total - used)
    /\ val' = [val EXCEPT ![s] = m + v]
    /\ cost' = [cost EXCEPT ![s] = @ + v]
    /\ spent' = spent + v
    /\ buyFees' = buyFees + Fee[v]
    /\ ntrades' = ntrades + 1
    /\ Done(w)
    /\ UNCHANGED <<interest, stamp, proceeds, sellFees, realized, reports, now,
                   charged>>

\* The sale and the purchase are one transaction, of the rows it has locked;
\* the purchase is checked against the account the sale leaves behind.
Rotate(w, r, x, s, v, m) ==
    LET repaid == Repayment(debt, NetProceeds(x))
        c == cash + NetProceeds(x) - repaid
        d == debt - repaid
        gross == Gross - val[r]
        total == v + Fee[v]
        used == CashUsed(c, c + gross - d, total)
    IN
    /\ pc[w] = "known" /\ ntrades + 1 < MaxTrades
    /\ Holds(r) /\ r # s
    /\ v \in 1..MaxMoney /\ (m > 0 <=> Holds(s)) /\ m + v \in Money
    /\ cash + x \in Money
    /\ Affordable(c, d, gross, val[s], v)
    /\ d + (total - used) \in Money
    /\ cash' = c - used
    /\ debt' = d + (total - used)
    /\ val' = [val EXCEPT ![r] = 0, ![s] = m + v]
    /\ cost' = [cost EXCEPT ![r] = 0, ![s] = @ + v]
    /\ spent' = spent + v
    /\ proceeds' = proceeds + x
    /\ buyFees' = buyFees + Fee[v]
    /\ sellFees' = sellFees + Fee[x]
    /\ realized' = realized + RealizedPnl(cost[r], x)
    /\ ntrades' = ntrades + 2
    /\ Done(w)
    /\ UNCHANGED <<interest, stamp, reports, now, charged>>

\* update_prices marks a position it has read to a verified price, if the
\* position is still there.
MarkPosition(w, s, m) ==
    /\ pc[w] = "pass" /\ rows[w][s] > 0 /\ Holds(s)
    /\ val' = [val EXCEPT ![s] = m]
    /\ UNCHANGED <<portfolio, cost, history, reports, now, local, charged>>

Tick ==
    /\ now < MaxTime
    /\ now' = now + 1
    /\ UNCHANGED <<portfolio, positions, history, reports, local, charged>>
---------------------------------------------------------------------------
Report(w) == \/ ReadPortfolio(w) \/ SkipAccrual(w) \/ Accrue(w)
             \/ ReadPositions(w) \/ RaisePeak(w) \/ InsertSnapshot(w) \/ Drop(w)

Trade(w) ==
    \/ ReadRows(w)
    \/ \E s \in Symbol, x \in Mark : Sell(w, s, x)
    \/ \E s \in Symbol, v \in 1..MaxMoney, m \in Mark \cup {0} : Buy(w, s, v, m)
    \/ \E r, s \in Symbol, x \in Mark, v \in 1..MaxMoney, m \in Mark \cup {0} :
           Rotate(w, r, x, s, v, m)
    \/ \E s \in Symbol, m \in Mark : MarkPosition(w, s, m)

Next == (\E w \in Worker : Report(w) \/ Trade(w)) \/ Tick

Spec == Init /\ [][Next]_vars
---------------------------------------------------------------------------
(* Properties *)

\* The portfolios row is what the trades and the interest made of it: no trade
\* or accrual loses or invents money, whichever workers' transactions it is
\* interleaved with.
CashFlowBalances ==
    cash + spent + buyFees + sellFees + interest + OldDebt
        = Start + proceeds + debt

\* The change from starting capital is realized results plus unrealized
\* results, less entry fees and interest, each counted once
\* (paper_accounting_reconciliation_runtime.py computes it from the tables).
\* What it leaves unexplained:
Unexplained ==
    (cash + Gross - debt) - (Start - OldDebt)
        - (realized + (Gross - SumFunction(cost)) - buyFees - interest)

\* With one worker nothing is: what its passes have read is still what there is.
ChangeExplained == Unexplained = 0

\* With several, a sale of a position that another worker has sold or enlarged
\* since it was read is the only step that leaves something unexplained, and
\* what it leaves is the difference of cost between the row read and the row
\* deleted: no purchase, rotation, mark or accrual adds to it.
OnlyStaleSalesMisstate ==
    [][Unexplained' # Unexplained =>
        \E w \in Worker, s \in Symbol, x \in Mark :
            /\ Sell(w, s, x)
            /\ Unexplained' = Unexplained + rows[w][s] - cost[s]]_vars

\* Interest is charged for every moment at most once, although workers decide
\* that it is due from a row they read before they lock it.
ChargedOnce == charged = stamp /\ stamp <= now

\* peak_equity is raised before the snapshot is inserted, in a transaction of
\* its own: no recorded equity exceeds it, whatever stops a worker in between.
PeakCoversSnapshot == snap <= peak

\* The fee of a purchase fits between the allocator's reserve and the
\* safeguard's.
FeeFits ==
    \A e, v \in 1..MaxMoney :
        v <= MaxPosition[e] => Reserve[e] + Fee[v] <= AllocReserve[e]

\* The bounds on a purchase are made on its value and its cost includes a fee:
\* it is still paid for out of cash alone.  The debt grows by the interest on a
\* debt that is there, and by nothing else: once repaid it does not come back,
\* and no interest is charged from a stamp older than the debt.
DebtGrowsByInterest ==
    [][debt' > debt \/ interest' # interest =>
        debt > 0 /\ debt' - debt = interest' - interest /\ spent' = spent]_vars

\* With one worker, an equity snapshot is the equity of the account at the
\* moment it is recorded, although the account was read in several pieces.
SnapshotIsTrue ==
    [][\A w \in Worker : InsertSnapshot(w) => snap' = cash + Gross - debt]_vars

\* What test_capital_readiness_suite.py says equity is: margin debt and accrued
\* interest are both taken off (accounting_invariants.equity_equation).
EquityEquation == cash + Gross - debt - interest
SnapshotReconciles ==
    [][\A w \in Worker : InsertSnapshot(w) => snap' = EquityEquation]_vars
=============================================================================
