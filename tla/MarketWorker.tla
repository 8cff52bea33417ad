----------------------------- MODULE MarketWorker -----------------------------
(***************************************************************************)
(* The processes of a market worker: bootstrap of the database, the always-*)
(* on loop that launches and collects scans, the scans themselves as far as*)
(* they store and use evidence, the scheduled retention of that evidence,  *)
(* and the end of the process (market_worker, database, migrations).       *)
(*                                                                         *)
(* A worker is one main thread and one executor thread per kind of scan. A *)
(* scan follows one candidate: it stores a signal, perhaps its forecast,   *)
(* and perhaps buys on it.  Pages (the dashboard, healthcheck) only run the*)
(* migrations, and without the bootstrap lock.  A lock of a transaction or *)
(* of a connection ends with it, so a crash frees every lock of a process. *)
(* A step is a transaction, except where a lock is held over two of them.  *)
(***************************************************************************)
EXTENDS Naturals, FiniteSets

CONSTANTS
    Worker, Page,
    Migration,
    Shipped,      \* the migrations in the build of each process
    MaxSignal,    \* bound: candidates that are stored,
    Stored,       \* of them by earlier builds
    Keep, Slack,  \* rows retention keeps, and the overshoot it waits for
    Limit         \* rows a retention pass deletes (five batches)

Process == Worker \cup Page
Kind == {"deep", "fast"}
Id == 1..MaxSignal

ASSUME WorkerAssumption ==
    /\ Shipped \in [Process -> SUBSET Migration]
    /\ MaxSignal \in Nat /\ Stored \in 0..MaxSignal
    /\ Keep \in Nat \ {0} /\ Slack \in Nat \ {0} /\ Limit \in Nat \ {0}
    /\ Worker \cap Page = {} /\ "none" \notin Process

VARIABLES
    schema,   \* schema_migrations
    ran,      \* times each migration's SQL has been committed
    signal, forecast, \* the row of each candidate: unused, row or gone
    lot,      \* candidates a lot and the trade ledger refer to
    bootLock, migrationLock, maintenanceLock,
    pc,       \* main thread, or page
    existing, \* migrations a process has read as applied
    doomed,   \* rows its retention is deleting
    scan,     \* the scan thread of each kind, with its future
    held,     \* the candidate of each scan, 0 for none
    trading,  \* trade_cycle_lock
    stop      \* stop_event

tables == <<schema, ran, signal, forecast, lot>>
locks == <<bootLock, migrationLock, maintenanceLock>>
vars == <<tables, locks, pc, existing, doomed, scan, held, trading, stop>>

PC == {"down", "start", "boot", "migrate", "top",
       "signals", "trim signals", "forecasts", "trim forecasts",
       "collect", "launch", "pulse", "pulsing", "wait", "exit"}
Boot == {"start", "boot", "migrate"}
Loop == PC \ (Boot \cup {"down", "exit"})
Finished == {"done", "failed"}
Running == {"signal", "forecast", "ready", "trade", "commit"}
ScanState == {"none"} \cup Running \cup Finished

TypeOK ==
    /\ schema \subseteq Migration /\ ran \in [Migration -> Nat]
    /\ signal \in [Id -> {"unused", "row", "gone"}]
    /\ forecast \in [Id -> {"unused", "row", "gone"}]
    /\ lot \subseteq Id
    /\ bootLock \in Worker \cup {"none"} /\ maintenanceLock \in Worker \cup {"none"}
    /\ migrationLock \in Process \cup {"none"}
    /\ pc \in [Process -> PC]
    /\ existing \in [Process -> SUBSET Migration] /\ doomed \in [Worker -> SUBSET Id]
    /\ scan \in [Worker -> [Kind -> ScanState]]
    /\ held \in [Worker -> [Kind -> 0..MaxSignal]]
    /\ trading \in [Worker -> {"none", "main"} \cup Kind]
    /\ stop \in [Worker -> BOOLEAN]
    /\ \A p \in Worker :
        /\ trading[p] = "main" <=> pc[p] = "pulsing"
        /\ \A k \in Kind : trading[p] = k <=> scan[p][k] \in {"trade", "commit"}

NoScan == [k \in Kind |-> "none"]
NotHeld == [k \in Kind |-> 0]
Init ==
    /\ schema = {} /\ ran = [m \in Migration |-> 0]
    /\ signal = [i \in Id |-> IF i <= Stored THEN "row" ELSE "unused"]
    /\ \E S \in SUBSET (1..Stored) :
           forecast = [i \in Id |-> IF i \in S THEN "row" ELSE "unused"]
    /\ lot = {}
    /\ bootLock = "none" /\ migrationLock = "none" /\ maintenanceLock = "none"
    /\ pc = [p \in Process |-> "start"]
    /\ existing = [p \in Process |-> {}] /\ doomed = [p \in Worker |-> {}]
    /\ scan = [p \in Worker |-> NoScan] /\ held = [p \in Worker |-> NotHeld]
    /\ trading = [p \in Worker |-> "none"] /\ stop = [p \in Worker |-> FALSE]

Go(p, l) == pc' = [pc EXCEPT ![p] = l]
Released(p, lock) == IF lock = p THEN "none" ELSE lock

-------------------------------------------------------------------------------
(* Bootstrap.                                                              *)

\* bootstrap_database_with_lock: initialize_database follows, with statements
\* that may be repeated.
LockBootstrap(p) ==
    /\ p \in Worker /\ pc[p] = "start" /\ bootLock = "none"
    /\ bootLock' = p
    /\ Go(p, "boot")
    /\ UNCHANGED <<tables, migrationLock, maintenanceLock, existing, doomed, scan,
                   held, trading, stop>>

\* safe_run_migrations, under its transaction lock: read what is applied,
Alone == TRUE  \* mistake: the transaction lock is not taken
MigrationsFree == migrationLock = "none"
Asked(p) == pc[p] = IF p \in Worker THEN "boot" ELSE "start"
Bootstrapped(p) ==
    /\ bootLock' = Released(p, bootLock)
    /\ Go(p, IF p \in Worker THEN "top" ELSE "start")
    /\ existing' = [existing EXCEPT ![p] = {}]
    /\ UNCHANGED <<signal, forecast, lot, maintenanceLock, doomed, scan, held,
                   trading, stop>>
UpToDate(p) ==
    /\ Asked(p) /\ MigrationsFree /\ Shipped[p] \subseteq schema
    /\ Bootstrapped(p)
    /\ UNCHANGED <<schema, ran, migrationLock>>
BeginMigrations(p) ==
    /\ Asked(p) /\ MigrationsFree /\ ~(Shipped[p] \subseteq schema)
    /\ migrationLock' = p
    /\ existing' = [existing EXCEPT ![p] = schema]
    /\ Go(p, "migrate")
    /\ UNCHANGED <<tables, bootLock, maintenanceLock, doomed, scan, held, trading, stop>>

\* and apply and record the rest.
CommitMigrations(p) ==
    LET new == Shipped[p] \ existing[p] IN
    /\ pc[p] = "migrate"
    /\ schema' = schema \cup new
    /\ ran' = [m \in Migration |-> IF m \in new THEN ran[m] + 1 ELSE ran[m]]
    /\ migrationLock' = Released(p, migrationLock)
    /\ Bootstrapped(p)

\* An outage: rolled back, and a worker waits for the database again.
BootFails(p) ==
    /\ pc[p] \in {"boot", "migrate"}
    /\ migrationLock' = Released(p, migrationLock)
    /\ bootLock' = Released(p, bootLock)
    /\ existing' = [existing EXCEPT ![p] = {}]
    /\ Go(p, IF p \in Worker /\ stop[p] THEN "exit" ELSE "start")
    /\ UNCHANGED <<tables, maintenanceLock, doomed, scan, held, trading, stop>>

-------------------------------------------------------------------------------
(* The loop of the main thread.                                            *)

Idle == <<tables, locks, existing, doomed, scan, held, trading, stop>>

\* Maintenance may be due, and is skipped when another worker is at it.
Top(p) ==
    /\ pc[p] = "top"
    /\ \/ stop[p] /\ Go(p, "exit") /\ UNCHANGED maintenanceLock
       \/ ~stop[p] /\ Go(p, "collect") /\ UNCHANGED maintenanceLock
       \/ /\ ~stop[p] /\ maintenanceLock = "none"
          /\ maintenanceLock' = p /\ Go(p, "signals")
    /\ UNCHANGED <<tables, bootLock, migrationLock, existing, doomed, scan, held,
                   trading, stop>>

\* Finished futures are collected, deep first; the status of each is written,
\* which may fail and ends the cycle.
Succeeded(p) == {k \in Kind : scan[p][k] = "done"}  \* mistake: failures are left
Done(p) == {k \in Kind : scan[p][k] \in Finished}
Collected(p, S) == scan' = [scan EXCEPT ![p] = [k \in Kind |-> IF k \in S THEN "none" ELSE @[k]]]
Collect(p) ==
    /\ pc[p] = "collect"
    /\ \/ Collected(p, Done(p)) /\ Go(p, "launch")
       \/ \E k \in Done(p) :
            /\ Collected(p, IF k = "deep" THEN {"deep"} ELSE Done(p))
            /\ Go(p, "wait")
    /\ UNCHANGED <<tables, locks, existing, doomed, held, trading, stop>>

\* Scans that are due are launched, unless opportunity scans are paused.
Launch(p, due) ==
    /\ pc[p] = "launch"
    /\ \A k \in due : scan[p][k] = "none"
    /\ scan' = [scan EXCEPT ![p] = [k \in Kind |-> IF k \in due THEN "signal" ELSE @[k]]]
    /\ Go(p, "pulse")
    /\ UNCHANGED <<tables, locks, existing, doomed, held, trading, stop>>

\* trade_cycle_lock.
NotMain(p) == trading[p] # "main"  \* mistake: scans do not exclude each other
TradingFree(p) == trading[p] = "none"
Locked(p) == trading  \* mistake: an exception leaves the lock taken
Unlocked(p) == [trading EXCEPT ![p] = "none"]

\* live_position_pulse: prices and stops under trade_cycle_lock, if there are
\* positions.
SkipPulse(p) == pc[p] = "pulse" /\ Go(p, "wait") /\ UNCHANGED Idle
Pulse(p) ==
    /\ pc[p] = "pulse" /\ TradingFree(p)
    /\ trading' = [trading EXCEPT ![p] = "main"]
    /\ Go(p, "pulsing")
    /\ UNCHANGED <<tables, locks, existing, doomed, scan, held, stop>>
EndPulse(p) ==
    /\ pc[p] = "pulsing"
    /\ trading' = Unlocked(p)
    /\ Go(p, "wait")
    /\ UNCHANGED <<tables, locks, existing, doomed, scan, held, stop>>

\* Until the next pulse, or after an error; the wait ends early on a stop.
Wait(p) == pc[p] = "wait" /\ Go(p, IF stop[p] THEN "exit" ELSE "top") /\ UNCHANGED Idle

\* The interpreter joins the executor threads before the process ends.
Exit(p) ==
    /\ pc[p] = "exit"
    /\ \A k \in Kind : scan[p][k] \notin Running
    /\ scan' = [scan EXCEPT ![p] = NoScan]
    /\ Go(p, "down")
    /\ UNCHANGED <<tables, locks, existing, doomed, held, trading, stop>>

-------------------------------------------------------------------------------
(* Retention, one transaction for each table.                              *)

\* _entry_evidence_retention_sql
UnlinkedSignals == {i \in Id : signal[i] = "row" /\ i \notin lot /\ forecast[i] # "row"}
UnlinkedForecasts == {i \in Id : forecast[i] = "row" /\ i \notin lot}

\* _retention_cleanup_due and the batches: the oldest rows beyond the newest
\* Keep, at most Limit.
Newer(S, i) == {j \in S : j > i}
Older(S, i) == {j \in S : j < i}
Excess(S) ==
    IF Cardinality(S) <= Keep + Slack THEN {}
    ELSE LET old == {i \in S : Cardinality(Newer(S, i)) >= Keep}
         IN  {i \in old : Cardinality(Older(old, i)) < Limit}

\* pg_try_advisory_xact_lock: no entry writer and no other retention.
Writers == {p \in Worker : \E k \in Kind : scan[p][k] = "commit"}
Trimmers == {p \in Worker : pc[p] \in {"trim signals", "trim forecasts"}}
NoTrimmer == Trimmers = {}  \* mistake: writers are not looked at
NoWriter == Writers \cup Trimmers = {}

Trim(p, at, S, delete, next) ==
    /\ pc[p] = at
    /\ IF NoWriter /\ Excess(S) # {}
       THEN doomed' = [doomed EXCEPT ![p] = Excess(S)] /\ Go(p, delete)
       ELSE Go(p, next) /\ UNCHANGED doomed
    /\ UNCHANGED <<tables, locks, existing, scan, held, trading, stop>>
TrimSignals(p) == Trim(p, "signals", UnlinkedSignals, "trim signals", "forecasts")
TrimForecasts(p) == Trim(p, "forecasts", UnlinkedForecasts, "trim forecasts", "collect")
DropRows(p, rows) == [i \in Id |-> IF i \in doomed[p] THEN "gone" ELSE rows[i]]
CommitTrim(p) ==
    /\ \/ /\ pc[p] = "trim signals" /\ Go(p, "forecasts")
          /\ signal' = DropRows(p, signal) /\ UNCHANGED <<forecast, maintenanceLock>>
       \/ /\ pc[p] = "trim forecasts" /\ Go(p, "collect")
          /\ forecast' = DropRows(p, forecast) /\ UNCHANGED signal
          /\ maintenanceLock' = Released(p, maintenanceLock)
    /\ doomed' = [doomed EXCEPT ![p] = {}]
    /\ UNCHANGED <<schema, ran, lot, bootLock, migrationLock, existing, scan, held,
                   trading, stop>>
\* Errors are logged; retention is tried again when it is due next.
MaintenanceFails(p) ==
    /\ pc[p] \in {"signals", "trim signals", "forecasts", "trim forecasts"}
    /\ Go(p, "collect")
    /\ maintenanceLock' = Released(p, maintenanceLock)
    /\ doomed' = [doomed EXCEPT ![p] = {}]
    /\ UNCHANGED <<tables, bootLock, migrationLock, existing, scan, held, trading, stop>>

-------------------------------------------------------------------------------
(* fast_scan_market, scan_market.                                          *)

Step(p, k, from, to) == scan[p][k] = from /\ scan' = [scan EXCEPT ![p][k] = to]
Hold(p, k, i) == held' = [held EXCEPT ![p][k] = i]
Main == <<locks, pc, existing, doomed, stop>>

\* save_json_signal, with or without a forecast to follow.
SaveSignal(p, k) ==
    /\ \E i \in Id :
        /\ signal[i] = "unused" /\ \A j \in 1..(i - 1) : signal[j] # "unused"
        /\ signal' = [signal EXCEPT ![i] = "row"] /\ Hold(p, k, i)
    /\ Step(p, k, "signal", "forecast") \/ Step(p, k, "signal", "ready")
    /\ UNCHANGED <<schema, ran, forecast, lot, Main, trading>>

\* No candidate, a failed write or a stop: what there is goes to the trades.  An
\* exception ends the scan.
NoSignal(p, k) ==
    /\ Step(p, k, "signal", "ready") \/ Step(p, k, "signal", "failed")
    /\ UNCHANGED <<tables, Main, held, trading>>

\* save_forecast waits for retention; a candidate whose forecast was not stored
\* is not handed on.
SaveForecast(p, k) ==
    /\ Step(p, k, "forecast", "ready")
    /\ \/ /\ Trimmers = {}
          /\ forecast' = [forecast EXCEPT ![held[p][k]] = "row"] /\ UNCHANGED held
       \/ Hold(p, k, 0) /\ UNCHANGED forecast
    /\ UNCHANGED <<schema, ran, signal, lot, Main, trading>>

LockTrading(p, k) ==
    /\ Step(p, k, "ready", "trade") /\ TradingFree(p)
    /\ trading' = [trading EXCEPT ![p] = k]
    /\ UNCHANGED <<tables, Main, held>>

\* _record_buy_attribution: the shared lock, to the end of the purchase.  That
\* the signal is still there is not looked at.
Buy(p, k) ==
    /\ held[p][k] # 0 /\ Trimmers = {}
    /\ Step(p, k, "trade", "commit")
    /\ UNCHANGED <<tables, Main, held, trading>>

CommitBuy(p, k) ==
    /\ lot' = lot \cup {held[p][k]}
    /\ Step(p, k, "commit", "done")
    /\ Hold(p, k, 0) /\ trading' = Unlocked(p)
    /\ UNCHANGED <<schema, ran, signal, forecast, Main>>

\* Nothing is bought, or the purchase is rolled back, or the cycle fails.
EndScan(p, k) ==
    /\ \E from \in {"trade", "commit"}, to \in Finished : Step(p, k, from, to)
    /\ Hold(p, k, 0) /\ trading' = Unlocked(p)
    /\ UNCHANGED <<tables, Main>>

-------------------------------------------------------------------------------
(* The process.                                                            *)

\* SIGTERM: stop_event is set, and read by a bootstrap that is waiting.
RequestStop(p) ==
    /\ pc[p] # "down" /\ ~stop[p]
    /\ stop' = [stop EXCEPT ![p] = TRUE]
    /\ UNCHANGED <<tables, locks, pc, existing, doomed, scan, held, trading>>
StopBoot(p) == pc[p] = "start" /\ stop[p] /\ Go(p, "exit") /\ UNCHANGED Idle

\* A crash, or SIGKILL.
Crash(p) ==
    /\ pc[p] # "down"
    /\ Go(p, "down")
    /\ bootLock' = Released(p, bootLock)
    /\ migrationLock' = Released(p, migrationLock)
    /\ maintenanceLock' = Released(p, maintenanceLock)
    /\ existing' = [existing EXCEPT ![p] = {}] /\ doomed' = [doomed EXCEPT ![p] = {}]
    /\ scan' = [scan EXCEPT ![p] = NoScan] /\ held' = [held EXCEPT ![p] = NotHeld]
    /\ trading' = Unlocked(p)
    /\ UNCHANGED <<tables, stop>>

\* restartPolicyType ALWAYS
Restart(p) ==
    /\ pc[p] = "down"
    /\ Go(p, "start")
    /\ stop' = [stop EXCEPT ![p] = FALSE]
    /\ UNCHANGED <<tables, locks, existing, doomed, scan, held, trading>>

Bootstrap(p) ==
    \/ LockBootstrap(p) \/ UpToDate(p) \/ BeginMigrations(p) \/ CommitMigrations(p)
    \/ BootFails(p)
Launches(p) == \E due \in SUBSET Kind : Launch(p, due)
Maintain(p) == TrimSignals(p) \/ TrimForecasts(p) \/ CommitTrim(p) \/ MaintenanceFails(p)
Cycle(p) ==
    \/ Top(p) \/ Collect(p) \/ Launches(p) \/ SkipPulse(p) \/ Pulse(p) \/ EndPulse(p)
    \/ Wait(p) \/ Maintain(p)
Scan(p, k) ==
    \/ SaveSignal(p, k) \/ NoSignal(p, k) \/ SaveForecast(p, k)
    \/ LockTrading(p, k) \/ Buy(p, k) \/ CommitBuy(p, k) \/ EndScan(p, k)

MainThread(p) == Bootstrap(p) \/ Cycle(p) \/ StopBoot(p) \/ Exit(p)

Next ==
    \/ \E p \in Page : Bootstrap(p)
    \/ \E p \in Worker :
        \/ MainThread(p) \/ RequestStop(p) \/ Crash(p) \/ Restart(p)
        \/ \E k \in Kind : Scan(p, k)

\* Threads go on.  Locks of the database are queued, and trade_cycle_lock is
\* free whenever the main thread sleeps, so who waits for one gets it.  A scan
\* that could be launched over and over falls due, and is not paused for ever.
Fairness ==
    \A p \in Worker :
        /\ SF_vars(MainThread(p))
        /\ \A k \in Kind :
            /\ SF_vars(Scan(p, k))
            /\ SF_vars(\E due \in SUBSET Kind : k \in due /\ Launch(p, due))

Spec == Init /\ [][Next]_vars
SpecFair == Spec /\ Fairness

-------------------------------------------------------------------------------
(* What the worker promises.                                               *)

\* Whoever starts, fails or is killed in the middle, a migration is committed
\* at most once, and a worker does not scan on a schema older than its build.
SchemaReady ==
    /\ \A m \in Migration : ran[m] = IF m \in schema THEN 1 ELSE 0
    /\ \A p \in Worker : pc[p] \in Loop => Shipped[p] \subseteq schema

\* Retention never takes a signal or a forecast away from a lot, nor a signal
\* from a forecast, even when the reference is stored while it runs.
EvidenceKept ==
    [][\A i \in Id :
        /\ signal[i] = "row" /\ (i \in lot \/ (forecast[i] = "row" /\ forecast'[i] = "row")) =>
               signal'[i] = "row"
        /\ forecast[i] = "row" /\ i \in lot => forecast'[i] = "row"]_vars

\* The threads of all processes, and the step each is at.
Thread == (Process \X {"main"}) \cup (Worker \X Kind)
At(t) == IF t[2] = "main" THEN pc[t[1]] ELSE scan[t[1]][t[2]]

\* t waits for u: for the bootstrap lock, the migration lock, trade_cycle_lock,
\* the end of retention, or, when the process ends, for a scan.
WaitsFor(t, u) ==
    \/ At(t) = "start" /\ t[1] \in Worker /\ u = <<bootLock, "main">>
    \/ t[2] = "main" /\ Asked(t[1]) /\ u = <<migrationLock, "main">>
    \/ /\ t[1] \in Worker /\ At(t) \in {"pulse", "ready"}
       /\ u = <<t[1], trading[t[1]]>>
    \/ At(t) \in {"forecast", "trade"} /\ u[2] = "main" /\ u[1] \in Trimmers
    \/ At(t) = "exit" /\ u[1] = t[1] /\ At(u) \in Running

\* The order of the waits.
Rank(l) == CASE l \in {"start", "exit"} -> 0
             [] l \in {"boot", "pulse", "ready"} -> 1
             [] l \in {"forecast", "trade"} -> 2
             [] OTHER -> 3

WaitsAreOrdered ==
    \A t, u \in Thread : WaitsFor(t, u) => Rank(At(t)) < Rank(At(u))

\* No threads wait for each other in a circle: of any of them, one can go on as
\* far as the others are concerned.  Locks of the database, locks of a process
\* and the joins at its end are waited for in one order, which no part of the
\* code sees as a whole and no database could enforce.
NoCircle ==
    \A S \in SUBSET Thread : S # {} => \E t \in S : \A u \in S : ~WaitsFor(t, u)

\* Scans go on: a failed scan, a failed status write, retention or a pulse never
\* keeps the worker from launching the next scan of either kind.
ScansGoOn ==
    \A p \in Worker, k \in Kind :
        []<>(pc[p] \notin Loop \/ stop[p] \/ scan[p][k] = "signal")

\* A worker that is asked to stop ends, whatever it is doing.
StopsWhenAsked == \A p \in Worker : stop[p] ~> pc[p] = "down"
===============================================================================
