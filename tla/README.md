# Oracle trading platform: TLA+ models and proofs

This directory holds a formal model of the paper-trading core of the platform and
of the services it stands on: specifications, configurations for the TLC model
checker, and proofs that the TLA+ proof system (TLAPS) checks. Everything is
translated from the Python code at this commit; `PROJECT.json` names, for every
definition, the lines it stands for.

## 1. The system

Two worker processes (stock and crypto, `market_worker.run_worker`) scan their
market, decide on trades, and execute them against a *paper* account held in
PostgreSQL; a web process displays the tables. Live trading is off by default
and goes through proposals and a broker order journal.

| Component | State it keeps | Operations | Hard behaviour | Correct means | Module |
|---|---|---|---|---|---|
| Paper ledger and execution (`oracle_bot.py`, `market_worker.py`, `database.connect`) | `positions`, `position_lots`, `execution_claims`, `trades`, cooldown; the process's `trade_cycle_lock`; the portfolio row lock | price pass, exit pass, SELL and BUY signals, close, purchase, rotation | three trading threads, replicas, stale reads, claims, lock order, crashes | no position sold twice, no decision executed twice, lots match positions, position limit, no thread stuck | `PaperLedger`, `TradeBook` |
| Paper account (`paper_broker.py`, `capital_allocator.py`, `paper_execution_accounting.py`) | `portfolios` row, position values and costs, `equity_snapshots`, peak | sale, purchase, rotation, accrual, valuation, snapshot | one report reads on three connections and writes on two; accrual decided on a stale row; a sale of a row read earlier | money conserved, every change explained, interest once, snapshot true | `PaperAccount` |
| Broker order journal, reconciliation (`broker_order_journal.py`, `broker_reconciliation.py`) | `broker_order_journal`, `broker_reconciliation_runs` | create, transition, submit timeout, reconcile | lost requests, late answers, stale snapshots, restart, two creators | no order sent twice, nothing closed that is live, everything over gets closed | `OrderJournal`, `OrderLife` |
| Provider ledger (`global_adaptive_engine.py`, `provider_router.py`) and Alpaca recovery (`alpaca_auth_recovery.py`) | `provider_budget_ledger`, `alpaca_auth_recovery_receipts`, cooldowns of a process | reserve, mark, look up; claim, probe, finish | a pool of threads that check, reserve, then send; several pages under one reservation; claim then HTTP; midnight; crash, new credentials | budgets kept, one probe per pair, cooldowns kept | `ProviderLedger`, `ProviderBook` |
| Worker scheduler (`run_worker`), bootstrap, migrations, retention (`database.py`, `migration_runtime_safety.py`) | futures, stop event, `trade_cycle_lock`; advisory locks, `schema_migrations`; `signals`, `forecasts` | bootstrap, migrate, maintain, collect, launch, pulse, stop; store, buy, trim | processes starting together, outage, kill, stop while a scan trades, retention against a purchase | one migrator, scans go on, a stop is obeyed, evidence kept | `MarketWorker` |
| FIFO lots (`profit_attribution.py`, `paper_fee_policy.py`) | lots | consume, repair | repair on a second connection | oldest first, quantity and cost conserved | quantity only, in `PaperLedger` |
| Order proposals | in-memory proposal | create, approve, reject, expire | expiry racing approval | approved only when fresh | not modelled |
| Budgets in memory, cache | counters, entries | allow, cached call | threads, limits | budgets kept | not modelled |
| Kraken feed | session advisory lock, books | claim, publish, reconnect | standby takes over | one publisher | not modelled |
| Pricing receipts, AEVE generations, model registry | bounded maps, generation rows, status log | see `PROJECT.json` | eviction, two workers advancing | one receipt per fill, one active generation | not modelled |
| Signals, forecasts, brains, risk gates, market data | model state | scoring | numerical | - | a nondeterministic choice |
| Shadow research, Robinhood adapters, dashboard, scripts, tests | reports | - | I/O only | - | not modelled |

Components meet in the database and in memory: worker threads call
`process_signals`, which calls `_buy` and `_close_position`; these call the
claim, lot and accounting helpers on the same connection; providers and models
only supply the signals and quotes. A scan stores a signal and its forecast
before it trades on them, and a purchase then refers to them. `PROJECT.json`
lists the components with their sources and, under "hazards", what can go wrong
at which line.

## 2. The modules

**`TradeBook`** is the promise: holdings bought one unit at a time, sold once and
whole, exchanged in one step, never more than `MaxOpen` of them. No processes,
no locks.

**`PaperLedger`** is the code. Threads belong to processes (`ProcOf`). A thread
idles until it gets `trade_cycle_lock` (`Acquire`), then runs the price pass and
the exit pass (`BeginPass`, `DecideExit`, `EndPass`), then up to `MaxSignals`
signals (`SellSignal`, `BuySignal`), then releases the lock (`EndCycle`).

* A close is `CloseClaim` (insert the claim) -> `CloseLock` (row lock) ->
  `CloseCommit`, `CloseDecline`, `CloseRaise` or `CloseFail`. `snap[t]` is the
  position as the caller read it, before the transaction: the quantity sold is
  the one in `snap[t]`, as in the code.
* A purchase is `RejectBuy`, `AdmitBuy` or `AdmitRotation` (the unlocked reads)
  -> `BuyLock` -> `BuyClaim` -> `RotClaim` for a rotation -> `BuyCommit`,
  `RotateCommit`, `BuyDecline` or `BuyFail`. Note the opposite order of row lock
  and claim.
* `held[t]` are the keys inserted by an open transaction. Another transaction
  that inserts one of them waits (`ClaimFree`): for the advisory lock of
  `_try_execution_claim`, and for the unique index behind it. `Decline` is
  `return` inside `with connect()`: it **commits**, so the claim stays, with
  status 'claimed', and nothing is executed. `Rollback` is an exception.
* `Crash` is a restart by the platform at any point, `DeadlockVictim` the
  deadlock detector of PostgreSQL, `CooldownExpires` time passing.
* `ReadsFail`: `recent_trade` and `_open_position_count` swallow exceptions and
  answer "no trade" and "0". With the constant TRUE either check may be skipped
  at any time. (`recent_trade` is also replaced by one that allows more in the
  crypto learning mode, which the same constant covers for the cooldown.)
* `RepairLots`: the atomic repair of missing lots is installed.

**`PaperAccount`** is the money of one market; a worker here is a worker process,
whose threads `trade_cycle_lock` serialises. `Sell`, `Buy` and `Rotate` are whole
transactions (they hold the portfolio row; `PaperLedger` says when they happen).
`ReadRows` is a pass reading the positions it may close. `Sell` then sells the
row in `rows[w]`, not the one in the table: its cost gives the result and its
quantity the proceeds, and both are booked even if the row is gone or has grown,
as in `_execute_close_position`. `Rotate` reads what it sells inside its own
transaction, and may add to a symbol that is held. A report is
in steps because the code opens a connection for each: `ReadPortfolio` ->
`SkipAccrual` or `Accrue` -> `ReadPositions` -> `RaisePeak` -> `InsertSnapshot`,
and may stop anywhere (`Drop`, which also ends a pass). A purchase starts from a report, as `_buy` calls
`portfolio_equity` first, and is then checked again on the locked rows
(`Affordable`). Percentages are functions on amounts, so theorems do not depend
on their values. `charged` is a history variable: the time interest was ever
charged for. The two modules are separate on purpose: each property talks of
one side only, and composing them multiplies states without a property to gain.

**`OrderJournal`** puts three kinds of actors around the journal.

* A *submitter* is external: nothing in `src/` sends an order yet. It follows the
  protocol the journal's states and tests prescribe. `Lookup` and `Insert` are
  the two halves of `create()` (`FOR UPDATE` locks nothing while there is no row,
  so two creators meet at the primary key); then `Prepare`, `BeginSubmit`
  (SUBMITTING is durable before the request leaves), `Send`, and `Answer` or
  `SubmitTimeout`. Every `transition()` is one transaction on the locked row:
  one step (`Transition`), or an exception that changes nothing
  (`TransitionRaises`).
* The *broker* is external: it accepts, loses, fills, cancels and fails orders as
  it likes, and calls an order by words of its own, one of which ("HELD")
  `normalize_remote_state` does not know.
* A *reconciler* fetches the broker's orders, reads the unfinished rows, and
  makes one transition for each, oldest first (`SkipLocal`, `ReconcileRow`); a
  transition that is not allowed ends the pass with nothing recorded
  (`AbortPass`). `snap` and `seen` are what it read, however old.

`sends` and `sent` are history variables: the requests ever sent, and for what.

**`OrderLife`** is what the journal promises its readers, with no processes,
messages or crashes: an order is recorded with one intent, requested once, filled
little by little, and ends once, filled in full, refused without a fill, or
cancelled with what it has. `OrderJournal` implements it (`LifeSpec`) with
`Phase`, which folds the states before the request, and those from the request to
the end, into one each: a reader of the table cannot rely on the difference,
since an answer, a timeout and a reconciliation move an order among them in any
order.

**`ProviderLedger`** is one provider's rows, one for each UTC date, the processes
that share them, and the threads each process routes from (`ProcOf`; the scan
pools of `market_worker.py`). A process starts with the recovery, in its main thread: `BeginClaim` and
`CommitClaim` (one transaction, in two steps because it reads the cooldowns
twice), `Probe` (one request, as the recovery asks for one page at most, outside
of any transaction), `Finish` or `FinishFails`. Then its threads route calls,
each thread one at a time: `Check` -> `ReserveWide` -> `ReserveHistory` -> `Send`
-> `RecordFailure`. A step `Send` is one HTTP request: `iex_stock_history` sends
one for each page of its answer, up to `Pages`, under the one reservation. The
cooldown in memory (`local`) is the process's, shared by its threads. A `Crash`
starts the process again with credentials of the operator's choice. Rows are records (`Row`); a cooldown
recorded on a date nobody has reserved on makes a row without capacity
("marker"). History variables: `probes`, `calls` (calls begun, by the date
they are charged to), `limit` (the last rate limit recorded on a row) and `late`
(requests a thread sends while a cooldown is in force).

**`ProviderBook`** is what that promises whoever pays for the calls, with no rows,
locks, cooldowns or crashes: a call is paid for before its first request is sent,
from the budget of the date it is charged to; a pair of credentials is claimed and
its call paid for in one step, tried once, and judged by that attempt. It counts
calls, not HTTP requests: the code pays for the former only.
`ProviderLedger` implements it (`ProviderBookSpec`); `Phase` tells a claim whose
request has been sent (TRIED) from one whose request has not, which the receipts
do not.

**`MarketWorker`** is a process: the main thread through bootstrap
(`LockBootstrap`, `UpToDate`, `BeginMigrations`, `CommitMigrations`,
`BootFails`), the loop (`Top`, the maintenance steps, `Collect`, `Launch`,
`Pulse`, `Wait`), and `Exit`; and one scan thread of each kind, which stores a
signal and a forecast and buys on them (`SaveSignal`, `SaveForecast`,
`LockTrading`, `Buy`, `CommitBuy`). Pages run the migrations only, and without
the bootstrap lock, as `healthcheck.py` and the proposals page do. Retention is
`TrimSignals`, `TrimForecasts` and `CommitTrim`: it takes its advisory lock only
if no purchase holds it, chooses the rows, and deletes them; a purchase, or a
forecast, that comes meanwhile waits. What a scan trades is in `PaperLedger`;
here a purchase is the reference it leaves.

`MCPaperLedger`, `MCPaperAccount`, `MCProviderLedger` and `MCMarketWorker` give the
constants for TLC (`OrderJournal` needs only model values);
`PaperLedgerProofs`, `PaperLedgerBookProofs`, `PaperAccountProofs`, `AccountSums`
(sums over positions), `OrderJournalProofs`, `ProviderLedgerProofs` and
`MarketWorkerProofs` hold the theorems. Operators marked "mistake" or "Mutant" are plausible bugs;
`PROJECT.json` pairs each property with one that makes TLC find it violated.

## 3. What is checked

| Run | Instance | Shows |
|---|---|---|
| `ledger_one_process` | 1 process, 2 threads, 2 symbols, 2 quotes, limit 1 | `LotsMatchPosition`, `PositionLimit`; refinement `BookSpec` |
| `ledger_replicas` | 2 processes, 1 symbol, 3 quotes, failing reads | `TypeOK`, `ExecutedOnce`, `LotLedgerBalances`, `DeclinedStaysDeclined`, `OnlyStaleClosesUnbalance` |
| `ledger_contention` | 2 processes, 3 threads (two share a process), 2 symbols, 1 quote, 2 rows | `WaitsAreOrdered`; liveness: `CycleEnds` |
| `account_workers` | 2 workers, 2 symbols, one mark, 4 trades, clock to 2, amounts to 7 | `CashFlowBalances`, `ChargedOnce`, `PeakCoversSnapshot`, `DebtGrowsByInterest`, `OnlyStaleSalesMisstate` |
| `account_one_worker` | 1 worker, two marks, amounts to 9 | `ChangeExplained`, `SnapshotIsTrue` |
| `orders_reconcile` | 1 order, 2 intents, 2 submitters, 1 reconciler, quantity 2, 1 crash | `SubmittedOnce`, `SentAsJournalled`, `ClosedIsTrue`, `FillsFollowBroker`, `PassMeansConfirmed`; refinement `LifeSpec`; liveness: `OverGetsClosed` |
| `provider_recovery` | 2 processes, 2 threads, calls of 2 pages, 2 pairs (one accepted), budget 3, a midnight, 1 crash | `ProbedOnce`, `OneStraggler`, `CooldownsPreserved`; refinement `ProviderBookSpec` |
| `worker_lifecycle` | 1 worker with both scans, 1 page of an older build, 2 migrations, 3 candidates | `SchemaReady`, `EvidenceKept`; liveness: `ScansGoOn`, `StopsWhenAsked` |
| `ledger_oversell` | 2 processes, 1 symbol, 2 quotes | **violated**: `NeverNaked` |
| `ledger_limit_unread` | as the first, failing reads | **violated**: `PositionLimit` |
| `account_reconciles` | 1 worker | **violated**: `SnapshotReconciles` |
| `orders_stuck` | 1 order, 1 submitter, 1 reconciler | **violated**: `RestartReconciles` |

**Bounds.** *Ledger:* `MaxSignals` = 1 signal per cycle (the thread begins any number of
cycles, so longer sequences occur across cycles), `MaxId` 2 to 4 rows ever
inserted, `MaxQty` 2 units per position, which make the tables finite. One open
position and two symbols make the limit bind at once and force rotations; two
quotes let two threads decide differently about the same position; three quotes
leave room for one declined decision and its retry (`MCFewDeclined` keeps at most
one declined key in the replica run). Two threads suffice for every pairwise
race; `ledger_contention` has a third, which waits for `trade_cycle_lock` while the
other thread of its process and the other process are in the deadlock of a close
and a rotation. The theorems do not bound the number. *Account:* starting capital
5, an old debt of 2, two marks and four trades allow gain, loss, repayment in
part and in whole, and two accrual periods; two workers get one mark, which is
enough for both to sell the row they have read of one position, or for one to
sell it after the other has added to it; the gross limit is that of an
account with leverage 2, so that it is cash, not exposure, that bounds purchases.
*Orders:* one order is enough for the safety properties, each of which is about
one order and its actors; two submitters with two intents meet in `create()`, and
quantity 2 allows a partial fill. Two reconcilers, which the theorems cover, take
7.6 million states. *Providers:* a permission cooldown of 5 ticks and a rate limit
of 2 within a day of 7 ticks and a clock to 8 let a cooldown end, be hidden under
another, and cross midnight; budget 3 is spent by two threads and a recovery. Both
threads belong to one process, so that they share its cooldown in memory and can
both be past the check; the other process recovers, which is how processes meet.
The run begins with the pair that is refused (`MCRotation`), and its one crash may
bring the other; two pages instead of five make a call of several requests. The
theorems cover any processes, threads and pages. *Workers:* three candidates, of
which one is older than the build, with one row to keep and one of overshoot, make
retention delete while two scans store and buy.

**Symmetry** is used for symbols and quotes (and workers or threads) in runs
without liveness; the specifications treat them alike.

**Deadlock** is checked in every run; the models never stop. (`ProviderLedger` can
always crash or route, a `MarketWorker` process that is down starts again.)

**Fairness.**

* `FairSpec` of `PaperLedger`, in `ledger_contention` only. Strong fairness of each
  thread's own steps: the operating system schedules threads, and PostgreSQL queues
  the waiters of a lock, so one that can go on again and again does; the lock of
  a process is released by a thread inside, which is a step of that thread. Weak
  fairness of the deadlock detector, which runs after `deadlock_timeout`. Nothing
  is assumed of new cycles, failures, crashes and cooldowns. Without the detector,
  or with a transaction that is not closed, `CycleEnds` fails.
* `SpecFair` of `OrderJournal`: reconciliation is run again and again (that is what
  it is for), a request is delivered or lost some day, and the broker ends every
  order some day. Nothing is assumed of submitters, which may stop for ever.
  `SpecDiligent`, of the violated run, assumes in addition that a submitter
  which does not crash goes on, so that the counterexample needs a crash.
* `SpecFair` of `MarketWorker`: strong fairness of the main thread and of each scan
  thread. Their locks are PostgreSQL's, which are queued, and `trade_cycle_lock`,
  which is free whenever the main thread sleeps between pulses. A scan that could
  be launched over and over falls due some day and is not paused for ever.
  Nothing is assumed of crashes, restarts, stops and outages.

### Findings

1. `ledger_oversell`. The claim key contains the quote and the price, so two
   processes that decide from different quotes get different claims. The second
   close waits for the row lock and then sells the quantity it read before: the
   DELETE matches no row, the lots are made up, the SELL is recorded, the cash is
   credited. This needs two processes of one market (a redeploy in which the old
   instance still runs, or replicas). Three theorems bound it: whatever the number
   of processes, a close of a position that has changed since it was read is the
   only step that puts the books out of balance (`OneCauseOfImbalance`) and the only
   one that misstates the equity of the account (`StaleSalesAlone`), and within one
   process `trade_cycle_lock` excludes it (`OneProcessIsNeverNaked`).
2. `ledger_limit_unread`. A failed count of open positions counts as none, and
   nothing after it counts again.
3. `account_reconciles`. Interest is part of `margin_debt` already; the accounting
   invariants and the reconciliation take it off a second time. Debt exists only
   on rows from earlier margin profiles: an account that starts without debt never
   has any (`CashAccountStaysOne`), and reconciles (`CashAccountReconciles`).
4. `orders_stuck`. SUBMITTING has no transition to CANCELED. A submitter crashes
   after its request; the broker accepts the order, and cancels it before any
   reconciliation has seen it live. From then on every pass raises at that row, closes
   none after it and records nothing, so that a PASS recorded earlier remains the
   latest. `OverGetsClosed`, which holds, says that this is the only way an
   order that is over stays open. Both halves are proved as well: such an order is
   never closed and no run is recorded any more (`CancelledBlocksForGood`), and a pass
   can close every other order it is told is over (`OnlyStuckOrdersBlock`). (A pass also raises on SUBMITTED when the broker
   still says "new", but that ends by itself when the order moves on.)

## 4. What is proved

TLAPS checks these for every value of the constants, under the named ASSUMEs of
the modules (finite symbols, natural bounds, fees no larger than the fill).

**Claims, any number of processes** (`PaperLedgerProofs`). `TypeCorrect`,
`ClaimsStayExclusive`, `EveryDecisionExecutedOnce`, `DeclinedIsFinal`. The
inductive invariant `ClaimInv` adds to the properties `HeldOK`: what a thread has
inserted and locked, by where it stands. Without it nothing says that a commit
completes a key that is not in the table yet. `completed` is finite in every
state, which lets `ExecutedOnce` count. `LocksAreOrdered` adds `TradeLockInv` (a
process's lock is owned by one of its threads, inside a cycle) and gives every
place of a thread a rank: whoever waits, for the trade lock, the portfolio row or
a claim, waits for a thread of higher rank, except in the deadlock of a close and
a rotation (`Deadlocked`). That the detector resolves only this one is
therefore enough for any number of processes.

**The book, one process** (`PaperLedgerBookProofs`). `LotsBalance` needs types
only and holds for any number of processes. So does `OneCauseOfImbalance`: of the
commits only that of a close needs a hypothesis, that the position is still as it
was read (`Stale` is its negation). `NoDoubleSale`, `OneProcessIsNeverNaked`,
`OneProcessNeverDeadlocks`, `LotsAreNeverMadeUp`, `LimitHolds` and
`LedgerImplementsBook` assume `OneProcess` (all threads belong to one process),
`LimitHolds` and `LedgerImplementsBook` also `~ReadsFail`. The
inductive invariant `BookInv` is `BookOK` for every thread: a thread that is not
idle owns the trade lock, so all others are idle (`OthersQuiet`); what it read is
as it read it; a symbol it is closing is open and not among those it has still
to visit; a purchase that did not rotate still has a place. From it every commit
is a step of `TradeBook`, every other step a stutter, which is the refinement.

**Sums** (`AccountSums`). Equity contains a sum over the positions, which the
community modules define by recursion over sets. That the recursion defines a
function at all (`AddsExist`, `SumsAdd`), that the order of the addends does not
matter (`AnyFirst`), that the sum is an integer (`SumType`) and how it changes with
one value (`SumExcept`) are proved for every finite set. The prover cannot
instantiate an induction principle over predicates; each induction looks instead
at a minimal counterexample among the subsets (`MinimalSubset`, from the library's
`WFMin` and `FS_StrictSubsetOrderingWellFounded`).

**Money, any number of workers and finitely many symbols** (`PaperAccountProofs`).
`AmountsStayAmounts`, `MoneyIsConserved`, `InterestChargedOnce`: one invariant, one
step per kind of trade and report. `StaleSalesAlone` follows what the equity leaves
unexplained through every step, with the lemmas about sums: a sale changes it by
the cost of the row it had read less the cost of the row it deletes, any other
step not at all. `EveryChangeExplained` assumes that there is one worker; then the
two rows are the same (`RowsFresh`: nobody else trades while it is in its pass), and
nothing is ever left unexplained. `AccountTypeCorrect` and `PeakIsHighest` add that whoever has raised the peak
will not record more (`PeakInv`). `LoneSnapshotIsTrue` assumes that there is one
worker; then what a worker has read is what the account is (`FreshInv`).
`OnlyInterestIndebts` assumes `FeeFits`: for a position of at most the
allowed size, purchase reserve plus fee is at most the allocator's reserve.
The defaults (purchase reserve 5 %, allocator reserve 10 % for crypto and 15 %
for stocks, position at most 12 % of equity) satisfy it for any fee rate up to
41 % of the fill; the module of the runs assumes it too. From it no purchase
borrows, so that debt comes from interest on debt alone and no stamp is older
than the debt it charges. `CashAccountStaysOne` assumes `OldDebt = 0` in addition,
and `CashAccountReconciles` a single worker as well: the state in which finding 3
cannot occur.

**Orders, any number of orders, submitters and reconcilers** (`OrderJournalProofs`).
`NeverSubmittedTwice`, `JournalTellsIntent`, `ClosedOrdersAreOver`,
`FillsAreTheBrokers`, `PassIsConfirmed`. None of them is inductive. `JournalInv`
adds: who works on an order works on a row that exists and has its intent, and
whoever is about to send is alone and first (`SubmitterInv`, `OneSender`); what
was sent, is under way and is known to the broker agree (`SentInv`); and, the
heart of it, every report of the broker, however old, whether in a reconciler's
snapshot or in a late answer, is behind the order it is about and final if it
says the order is over (`ReportInv`). From this a transition can only close an
order that is over. The proof of a step has two kinds of leaves: steps of the
broker, which keep old reports behind, and transitions, for which
`TransitionFacts` collects what the table allows. `PassMeansConfirmed` rests on
`PassInv` besides: a pass without a discrepancy has confirmed what it has taken.
`JournalImplementsLife` is the refinement, for any number of orders: a step
inserts a row, sends a request, or makes one transition, or changes nothing a
reader sees (`LifeKinds`). `WordInv` (the broker's word for an order agrees with
what it has filled) makes the end of an order agree with its fills.
`CancelledBlocksForGood` follows a blocked order through every step of every
actor: nobody is left that could answer for it, and every later report says
cancelled. `OnlyStuckOrdersBlock` looks, with `ReportInv`, through the pairs of
journal state and final word that can meet in a pass, however old either is.

**The provider ledger, any number of processes, threads, pages and pairs, any day length**
(`ProviderLedgerProofs`). `NeverProbedTwice`, `RateLimitsSurvive`,
`StragglersBounded`, `BudgetRespected`. `RecoveryInv` says what a recovery may
still rely on: while it claims, the rows it holds are as it read them
(`ClaimInv`); once it has claimed, a row that still carries the time stamp it had
is an old authentication failure with no rate limit behind it, or is of a later
date (`PendingInv`), because every write of a row raises its time stamp
(`RowInv`). Each of the other theorems adds one invariant: `ProbeInv` (two
recoveries under way have different pairs), `LateInv` (a thread that has still to
reserve has sent nothing during the cooldown, and one inside a call no more than
the pages it has got), `BudgetInv` (calls begun, and the paid ones still to
begin, are within what was paid), which counts recoveries and threads with the
library's theorems about cardinality. `LedgerImplementsBook` is the
refinement of `ProviderBook`, one lemma for each kind of step: from `ProbeInv` a
claimed pair has one recovery and at most one request, from `BudgetInv` a call
that begins has been paid for.

**Workers and pages, any number** (`MarketWorkerProofs`). `WorkerTypeCorrect`,
`SchemaIsReady`, `EvidenceStays`. `WorkerInv` has one part for each: who holds
`trade_cycle_lock` is where the code holds it (`TradeInv`, part of the type
invariant); whoever migrates holds the lock and has read the schema as it still
is (`SchemaInv`), so that the bootstrap lock, which pages do not take, is not
needed; a purchase that commits excludes retention, and the rows retention is
deleting have no reference (`EvidenceInv`). `NobodyWaitsInACircle` adds `LockInv`
(the owners of the bootstrap lock and of the migration lock are where the code
holds them) and ranks the places of main threads, scans and pages: a wait always
goes upwards (`WaitsAreOrdered`), so none closes a circle. For each part a frame
lemma says what
a step must leave alone to keep it, and most steps follow from it.

**Only model-checked.** Liveness (`CycleEnds`, `OverGetsClosed`, `ScansGoOn`,
`StopsWhenAsked`), because fairness is beyond the prover. The violated properties,
of which `NeverNaked`, `PositionLimit` and `SnapshotReconciles` are proved under the
assumptions that exclude the violation, and `RestartReconciles`, a liveness property.

**Proved, and in no run of its own.** `ClaimsExclusive`, on which `ExecutedOnce`
rests; `BooksBalance` and `WithinBudget`, which `BookSpec`
and `ProviderBookSpec` imply; `BlockedForGood`, `ClosableUnlessStuck` and `NoCircle`,
which TLC was asked on the instances of `orders_reconcile` and `worker_lifecycle`
before they were proved.

## 5. Abstractions, and what is not modelled

*Ledger.* A purchase is of one unit and lots are open quantity: which lot a sale takes is
not seen. Quotes are identities. A claim is keyed by side, symbol, quote and,
for a sale, position row; a quote that carries the same price and identity gives
the same key as in the code. Gates may refuse at the point they are called, for
no reason given. The post-commit memory writes, the attribution columns and the
optimizer are left out. A commit whose acknowledgement is lost is covered: a
thread goes on in the same way after a transaction that committed and after one
that failed, and keeps nothing of the difference, so the commit step stands for
both. The same holds of a failure after the commit (`oracle_bot.py:3178`).

*Account.* Money is integral, so rounding is exact. A sale is for any marked value, as
the exit price is not tied to the mark of the row. Margin calls, leverage beyond
the gross limit and purchases that borrow by design are outside.

*Orders.* The fetch of the remote orders is one step: the broker's list is that of
one moment, though it may be old when it is used. Average price, fees, payload
and the lookup by the broker's identifier are left out, as are abandoning an
order before it is sent, and `PersistentOrderJournal.reconcile` and
`has_conflict`, which nothing in `src/` calls.

*Providers.* One provider and one capability. A reservation pays for a call, and
`iex_stock_history` sends up to five HTTP requests in one (`max_pages`; the recovery
asks for one page). So `WithinBudget` and `ProviderBook` bound calls: the number
of HTTP requests charged to a date may reach `Pages` times its budget, and a thread
goes on with the pages of its call during a cooldown that was recorded after it
began, which is why `OneStraggler` allows `Pages` late requests of a thread, and not one. No two writes of a row carry the same
timestamp (the code compares microseconds). The exception in
`CooldownsPreserved` is real: `recover_alpaca_authentication` reads the
cooldowns twice (`alpaca_auth_recovery.py:126` and `:143`), and keeps what it
read last; a cooldown recorded in between on a row of the next UTC date, which
it could not lock because it did not exist, is taken for one it has looked at
and cleared on success.

*Workers.* A scan follows one candidate. `initialize_database` consists of
statements that may be repeated and is left out; so are the intelligence and
Brain-learning futures, which follow the pattern of the scans and store
elsewhere, and the status texts. Due times, pauses and the length of waits are
choices. An error of the bootstrap that is not transient ends the process, which
is `Crash`. A purchase does not check that its signal is still stored: with 6000
rows kept it is, and the model lets retention be faster than a scan, so
`EvidenceKept` speaks of references that have been stored. When the status says
"stopped" a scan may still be trading, because the executors are shut down
without waiting and the interpreter joins their threads afterwards (`Exit`).
The code does not promise otherwise and no property forbids it: `StopsWhenAsked` says
that such scans do not keep the process from ending. The
run has one worker; the theorems have any number.

*Not modelled.* Numerical code (signals, forecasts, risk gates, quote validation,
technical indicators) is a choice of its result. The FIFO order and the fees of
lots are data the present properties do not tell apart. The budgets in memory and
the cache (`api_budget.py`, `cache.py`), proposals, the Kraken feed, pricing
receipts, AEVE generations and the model registry are state machines of their
own that do not touch the state above; each stands in `PROJECT.json` with its
reason, and their hazards are listed there without a property. Research,
adapters and dashboard keep no state that anything modelled reads.

## 6. Plan

1. *Done:* `PaperLedger`, `TradeBook`, `PaperAccount`, `OrderJournal`,
   `OrderLife`, `ProviderLedger`, `ProviderBook`, `MarketWorker`, their runs, and the proofs of their safety
   properties.
2. `FifoLots`: consumption and repair over sequences of lots as functions, checked
   against a reference definition; theorem: quantity is conserved by a step.
3. `FeedOwner` (Kraken), `Generations` (AEVE), `PricingReceipts`: one module each,
   smaller.
4. In `PaperAccount`: margin profiles whose purchases borrow by design. With the
   present profiles they do not (`OnlyInterestIndebts`), so that an accrual stamp
   older than the debt does no harm.
