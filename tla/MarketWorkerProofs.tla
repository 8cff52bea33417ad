-------------------------- MODULE MarketWorkerProofs --------------------------
(***************************************************************************)
(* Proofs about the processes of a market worker, for any number of        *)
(* workers, pages, migrations and candidates: the types, the readiness of  *)
(* the schema, and the evidence that retention keeps.  Liveness is left to *)
(* the model checker.                                                      *)
(***************************************************************************)
EXTENDS MarketWorker, TLAPS

\* The plain types, and who holds trade_cycle_lock: together, TypeOK.
Types ==
    /\ schema \subseteq Migration /\ ran \in [Migration -> Nat]
    /\ signal \in [Id -> {"unused", "row", "gone"}]
    /\ forecast \in [Id -> {"unused", "row", "gone"}]
    /\ lot \subseteq Id
    /\ bootLock \in Worker \cup {"none"} /\ maintenanceLock \in Worker \cup {"none"}
    /\ migrationLock \in Process \cup {"none"}
    /\ pc \in [Process -> PC]
    /\ existing \in [Process -> SUBSET Migration] /\ doomed \in [Worker -> SUBSET Id]
    /\ scan \in [Worker -> [Kind -> ScanState]]
    /\ held \in [Worker -> [Kind -> 0..MaxSignal]]
    /\ trading \in [Worker -> {"none", "main"} \cup Kind]
    /\ stop \in [Worker -> BOOLEAN]
TradeInv ==
    \A p \in Worker :
        /\ trading[p] = "main" <=> pc[p] = "pulsing"
        /\ \A k \in Kind : trading[p] = k <=> scan[p][k] \in {"trade", "commit"}

\* Who migrates holds the lock, and has read the schema as it still is; who is
\* in the loop has migrated.
SchemaInv ==
    /\ \A m \in Migration : ran[m] = IF m \in schema THEN 1 ELSE 0
    /\ \A p \in Process : pc[p] = "migrate" => migrationLock = p /\ existing[p] = schema
    /\ \A p \in Worker : pc[p] \in Loop => Shipped[p] \subseteq schema

\* A purchase that commits excludes retention; what retention is deleting has
\* stayed without a reference since it was chosen.
Deleting == {"trim signals", "trim forecasts"}
EvidenceInv ==
    /\ \A p \in Worker, k \in Kind :
        scan[p][k] = "commit" => held[p][k] # 0 /\ \A q \in Worker : pc[q] \notin Deleting
    /\ \A p \in Worker : pc[p] \in Deleting => doomed[p] \cap lot = {}
    /\ \A p \in Worker : pc[p] = "trim signals" => \A i \in doomed[p] : forecast[i] # "row"

WorkerInv == Types /\ TradeInv /\ SchemaInv /\ EvidenceInv

\* What the parts are made of.
LEMMA TypesAndTrade == TypeOK <=> Types /\ TradeInv
  BY DEF TypeOK, Types, TradeInv

LEMMA WorkersAreProcesses ==
  /\ Worker \subseteq Process /\ "none" \notin Process
  /\ \A p \in Process : Shipped[p] \subseteq Migration
  BY WorkerAssumption DEF WorkerAssumption, Process

-------------------------------------------------------------------------------
(* What a step must leave alone to keep each part.                         *)

LEMMA TradeFrame ==
  ASSUME TradeInv, UNCHANGED trading,
         \A q \in Worker : pc'[q] = "pulsing" <=> pc[q] = "pulsing",
         \A q \in Worker, j \in Kind :
            scan'[q][j] \in {"trade", "commit"} <=> scan[q][j] \in {"trade", "commit"}
  PROVE  TradeInv'
<1> SUFFICES ASSUME NEW p \in Worker
             PROVE  /\ trading'[p] = "main" <=> pc'[p] = "pulsing"
                    /\ \A k \in Kind : trading'[p] = k <=> scan'[p][k] \in {"trade", "commit"}
  BY DEF TradeInv
<1>1. trading'[p] = "main" <=> pc'[p] = "pulsing"
  BY DEF TradeInv
<1>2. ASSUME NEW k \in Kind  PROVE trading'[p] = k <=> scan'[p][k] \in {"trade", "commit"}
  <2>1. trading[p] = k <=> scan[p][k] \in {"trade", "commit"}
    BY DEF TradeInv
  <2>2. scan'[p][k] \in {"trade", "commit"} <=> scan[p][k] \in {"trade", "commit"}
    OBVIOUS
  <2> QED  BY <2>1, <2>2
<1> QED  BY <1>1, <1>2

LEMMA SchemaFrame ==
  ASSUME SchemaInv, UNCHANGED <<schema, ran>>,
         \A q \in Process : pc'[q] = "migrate" =>
            pc[q] = "migrate" /\ existing'[q] = existing[q] /\ migrationLock' = migrationLock,
         \A q \in Worker : pc'[q] \in Loop => pc[q] \in Loop
  PROVE  SchemaInv'
  BY DEF SchemaInv

LEMMA EvidenceFrame ==
  ASSUME EvidenceInv, UNCHANGED <<lot, forecast>>,
         \A q \in Worker : pc'[q] \in Deleting => pc'[q] = pc[q] /\ doomed'[q] = doomed[q],
         \A q \in Worker, j \in Kind : scan'[q][j] = "commit" =>
            scan[q][j] = "commit" /\ held'[q][j] = held[q][j]
  PROVE  EvidenceInv'
<1>1. ASSUME NEW q \in Worker, NEW j \in Kind, scan'[q][j] = "commit"
      PROVE  held'[q][j] # 0 /\ \A r \in Worker : pc'[r] \notin Deleting
  BY <1>1 DEF EvidenceInv
<1>2. ASSUME NEW q \in Worker, pc'[q] \in Deleting
      PROVE  doomed'[q] \cap lot' = {}
  BY <1>2 DEF EvidenceInv
<1>3. ASSUME NEW q \in Worker, pc'[q] = "trim signals"
      PROVE  \A i \in doomed'[q] : forecast'[i] # "row"
  BY <1>3 DEF EvidenceInv, Deleting
<1> QED  BY <1>1, <1>2, <1>3 DEF EvidenceInv

\* Moving one scan, and the candidate it holds.
LEMMA ScanMoves ==
  ASSUME NEW p \in Worker, NEW k \in Kind, NEW from, NEW to \in ScanState,
         Types, Step(p, k, from, to)
  PROVE  /\ scan' \in [Worker -> [Kind -> ScanState]] /\ scan[p][k] = from
         /\ \A q \in Worker, j \in Kind :
              scan'[q][j] = IF q = p /\ j = k THEN to ELSE scan[q][j]
  BY DEF Types, Step

LEMMA HoldMoves ==
  ASSUME NEW p \in Worker, NEW k \in Kind, NEW i \in 0..MaxSignal, Types, Hold(p, k, i)
  PROVE  /\ held' \in [Worker -> [Kind -> 0..MaxSignal]]
         /\ \A q \in Worker, j \in Kind :
              held'[q][j] = IF q = p /\ j = k THEN i ELSE held[q][j]
  BY DEF Types, Hold

LEMMA CollectedMoves ==
  ASSUME NEW p \in Worker, NEW S \in SUBSET Kind, Types, Collected(p, S)
  PROVE  /\ scan' \in [Worker -> [Kind -> ScanState]]
         /\ \A q \in Worker, j \in Kind :
              scan'[q][j] = IF q = p /\ j \in S THEN "none" ELSE scan[q][j]
  BY DEF Types, Collected, ScanState

-------------------------------------------------------------------------------
(* One lemma for each action. *)

LEMMA LockBootstrapKeeps ==
  ASSUME NEW p \in Process, WorkerInv, LockBootstrap(p)
  PROVE  WorkerInv'
<1> USE WorkersAreProcesses DEF WorkerInv
<1>1. Types'
  BY DEF Types, Kind, PC, Boot, Loop, ScanState, Running, Finished, Deleting, LockBootstrap, tables, locks, Main, Idle, Go, Released, Id
<1>2. TradeInv'
  BY DEF Types, TradeInv, Kind, PC, Boot, Loop, ScanState, Running, Finished, Deleting, LockBootstrap, tables, locks, Main, Idle, Go, Released
<1>3. SchemaInv'
  BY DEF Types, SchemaInv, Kind, PC, Boot, Loop, ScanState, Running, Finished, Deleting, LockBootstrap, tables, locks, Main, Idle, Go, Released
<1>4. EvidenceInv'
  BY DEF Types, EvidenceInv, Kind, PC, Boot, Loop, ScanState, Running, Finished, Deleting, LockBootstrap, tables, locks, Main, Idle, Go, Released
<1> QED  BY <1>1, <1>2, <1>3, <1>4

LEMMA UpToDateKeeps ==
  ASSUME NEW p \in Process, WorkerInv, UpToDate(p)
  PROVE  WorkerInv'
<1> USE WorkersAreProcesses DEF WorkerInv
<1>1. Types'
  BY DEF Types, Kind, PC, Boot, Loop, ScanState, Running, Finished, Deleting, UpToDate, tables, locks, Main, Idle, Go, Released, Asked, MigrationsFree, Bootstrapped, Id
<1>2. TradeInv'
  BY DEF Types, TradeInv, Kind, PC, Boot, Loop, ScanState, Running, Finished, Deleting, UpToDate, tables, locks, Main, Idle, Go, Released, Asked, MigrationsFree, Bootstrapped
<1>3. SchemaInv'
  BY DEF Types, SchemaInv, Kind, PC, Boot, Loop, ScanState, Running, Finished, Deleting, UpToDate, tables, locks, Main, Idle, Go, Released, Asked, MigrationsFree, Bootstrapped
<1>4. EvidenceInv'
  <2>1. \A q \in Worker : pc'[q] \in Deleting => pc'[q] = pc[q] /\ doomed'[q] = doomed[q]
    BY WorkersAreProcesses DEF Types, Deleting, UpToDate, Idle, Main, Go, Bootstrapped
  <2> QED  BY <2>1, EvidenceFrame DEF UpToDate, tables, Idle, Main, Bootstrapped
<1> QED  BY <1>1, <1>2, <1>3, <1>4

LEMMA BeginMigrationsKeeps ==
  ASSUME NEW p \in Process, WorkerInv, BeginMigrations(p)
  PROVE  WorkerInv'
<1> USE WorkersAreProcesses DEF WorkerInv
<1>1. Types'
  BY DEF Types, Kind, PC, Boot, Loop, ScanState, Running, Finished, Deleting, BeginMigrations, tables, locks, Main, Idle, Go, Released, Asked, MigrationsFree, Id
<1>2. TradeInv'
  BY DEF Types, TradeInv, Kind, PC, Boot, Loop, ScanState, Running, Finished, Deleting, BeginMigrations, tables, locks, Main, Idle, Go, Released, Asked, MigrationsFree
<1>3. SchemaInv'
  BY DEF Types, SchemaInv, Kind, PC, Boot, Loop, ScanState, Running, Finished, Deleting, BeginMigrations, tables, locks, Main, Idle, Go, Released, Asked, MigrationsFree
<1>4. EvidenceInv'
  BY DEF Types, EvidenceInv, Kind, PC, Boot, Loop, ScanState, Running, Finished, Deleting, BeginMigrations, tables, locks, Main, Idle, Go, Released, Asked, MigrationsFree
<1> QED  BY <1>1, <1>2, <1>3, <1>4

LEMMA CommitMigrationsKeeps ==
  ASSUME NEW p \in Process, WorkerInv, CommitMigrations(p)
  PROVE  WorkerInv'
<1> USE WorkersAreProcesses DEF WorkerInv
<1>1. Types'
  <2> DEFINE new == Shipped[p] \ existing[p]
  <2>1. new \subseteq Migration /\ schema' = schema \cup new
    BY DEF Types, CommitMigrations
  <2>2. ran' = [m \in Migration |-> IF m \in new THEN ran[m] + 1 ELSE ran[m]]
    BY DEF CommitMigrations
  <2> HIDE DEF new
  <2>3. schema' \subseteq Migration /\ ran' \in [Migration -> Nat]
    BY <2>1, <2>2 DEF Types
  <2>4. UNCHANGED <<signal, forecast, lot, maintenanceLock, doomed, scan, held, trading, stop>>
    BY DEF CommitMigrations, Bootstrapped
  <2>5. /\ bootLock' \in Worker \cup {"none"} /\ migrationLock' \in Process \cup {"none"}
        /\ pc' \in [Process -> PC] /\ existing' \in [Process -> SUBSET Migration]
    BY DEF Types, CommitMigrations, Bootstrapped, Released, Go, PC
  <2> QED  BY <2>3, <2>4, <2>5 DEF Types
<1>2. TradeInv'
  BY DEF Types, TradeInv, Kind, PC, Boot, Loop, ScanState, Running, Finished, Deleting, CommitMigrations, tables, locks, Main, Idle, Go, Released, Bootstrapped
<1>3. SchemaInv'
  <2>1. /\ pc[p] = "migrate" /\ migrationLock = p /\ existing[p] = schema
        /\ \A q \in Process : pc[q] = "migrate" => q = p
    BY DEF CommitMigrations, SchemaInv
  <2>2. /\ schema' = schema \cup Shipped[p]
        /\ \A m \in Migration : ran'[m] = IF m \in Shipped[p] \ schema THEN ran[m] + 1 ELSE ran[m]
    BY <2>1 DEF CommitMigrations
  <2>3. \A m \in Migration : ran'[m] = IF m \in schema' THEN 1 ELSE 0
    BY <2>2 DEF SchemaInv, Types
  <2>4. \A q \in Process : pc'[q] = IF q = p THEN (IF p \in Worker THEN "top" ELSE "start") ELSE pc[q]
    BY DEF Types, CommitMigrations, Bootstrapped, Go
  <2>5. \A q \in Process : pc'[q] # "migrate"
    BY <2>1, <2>4
  <2>6. ASSUME NEW q \in Worker, pc'[q] \in Loop  PROVE Shipped[q] \subseteq schema'
    <3>1. CASE q = p  BY <3>1, <2>2
    <3>2. CASE q # p  BY <3>2, <2>2, <2>4, <2>6 DEF SchemaInv
    <3> QED  BY <3>1, <3>2
  <2> QED  BY <2>3, <2>5, <2>6 DEF SchemaInv
<1>4. EvidenceInv'
  <2>1. UNCHANGED <<lot, forecast, scan, held, doomed>>
    BY DEF CommitMigrations, Bootstrapped
  <2>2. \A q \in Worker : pc'[q] \in Deleting => pc'[q] = pc[q]
    BY DEF Types, Deleting, CommitMigrations, Bootstrapped, Go
  <2> QED  BY <2>1, <2>2, EvidenceFrame
<1> QED  BY <1>1, <1>2, <1>3, <1>4

LEMMA BootFailsKeeps ==
  ASSUME NEW p \in Process, WorkerInv, BootFails(p)
  PROVE  WorkerInv'
<1> USE WorkersAreProcesses DEF WorkerInv
<1>1. Types'
  BY DEF Types, Kind, PC, Boot, Loop, ScanState, Running, Finished, Deleting, BootFails, tables, locks, Main, Idle, Go, Released, Id
<1>2. TradeInv'
  BY DEF Types, TradeInv, Kind, PC, Boot, Loop, ScanState, Running, Finished, Deleting, BootFails, tables, locks, Main, Idle, Go, Released
<1>3. SchemaInv'
  BY DEF Types, SchemaInv, Kind, PC, Boot, Loop, ScanState, Running, Finished, Deleting, BootFails, tables, locks, Main, Idle, Go, Released
<1>4. EvidenceInv'
  <2>1. \A q \in Worker : pc'[q] \in Deleting => pc'[q] = pc[q] /\ doomed'[q] = doomed[q]
    BY DEF Types, Deleting, BootFails, Go
  <2>2. UNCHANGED <<lot, forecast, scan, held>>
    BY DEF BootFails, tables
  <2> QED  BY <2>1, <2>2, EvidenceFrame
<1> QED  BY <1>1, <1>2, <1>3, <1>4

LEMMA TopKeeps ==
  ASSUME NEW p \in Worker, WorkerInv, Top(p)
  PROVE  WorkerInv'
<1> USE WorkersAreProcesses DEF WorkerInv
<1>a. /\ pc[p] = "top" /\ pc' = [pc EXCEPT ![p] = pc'[p]]
      /\ pc'[p] \in {"exit", "collect", "signals"} 
      /\ maintenanceLock' \in {maintenanceLock, p}
      /\ UNCHANGED <<tables, bootLock, migrationLock, existing, doomed, scan, held, trading, stop>>
  BY DEF Types, Top, Go
<1>1. Types'
  BY <1>a DEF Types, PC, tables
<1>2. TradeInv'
  BY <1>a, TradeFrame DEF Types
<1>3. SchemaInv'
  BY <1>a, SchemaFrame DEF Types, Loop, PC, Boot, tables
<1>4. EvidenceInv'
  BY <1>a, EvidenceFrame DEF Types, Deleting, tables
<1> QED  BY <1>1, <1>2, <1>3, <1>4

LEMMA CollectKeeps ==
  ASSUME NEW p \in Worker, WorkerInv, Collect(p)
  PROVE  WorkerInv'
<1> USE WorkersAreProcesses DEF WorkerInv
<1>a. PICK S \in SUBSET Kind : Collected(p, S) /\ S \subseteq Done(p)
  <2>1. Done(p) \subseteq Kind
    BY DEF Done
  <2>2. CASE Collected(p, Done(p))  BY <2>1, <2>2
  <2>3. CASE \E k \in Done(p) : Collected(p, IF k = "deep" THEN {"deep"} ELSE Done(p))
    BY <2>1, <2>3
  <2> QED  BY <2>2, <2>3 DEF Collect
<1>b. /\ pc[p] = "collect" /\ pc' = [pc EXCEPT ![p] = pc'[p]] /\ pc'[p] \in {"launch", "wait"}
      /\ UNCHANGED <<tables, locks, existing, doomed, held, trading, stop>>
  BY DEF Types, Collect, Go
<1>c. /\ scan' \in [Worker -> [Kind -> ScanState]]
      /\ \A q \in Worker, j \in Kind : scan'[q][j] \in Running \/ scan[q][j] \in Running =>
            scan'[q][j] = scan[q][j]
  <2>1. \A j \in S : scan[p][j] \in Finished
    BY <1>a DEF Done
  <2> QED  BY <1>a, <2>1, CollectedMoves DEF Finished, Running
<1>1. Types'
  <2>1. pc' \in [Process -> PC]
    BY <1>b DEF Types, PC
  <2> QED  BY <1>b, <1>c, <2>1 DEF Types, tables, locks
<1>2. TradeInv'
  <2>1. \A q \in Worker, j \in Kind :
            scan'[q][j] \in {"trade", "commit"} <=> scan[q][j] \in {"trade", "commit"}
    BY <1>c DEF Running
  <2> QED  BY <1>b, <2>1, TradeFrame DEF Types
<1>3. SchemaInv'
  BY <1>b, SchemaFrame DEF Types, Loop, PC, Boot, tables, locks
<1>4. EvidenceInv'
  <2>1. \A q \in Worker, j \in Kind : scan'[q][j] = "commit" => scan[q][j] = "commit"
    BY <1>c DEF Running
  <2> QED  BY <1>b, <2>1, EvidenceFrame DEF Types, Deleting, tables
<1> QED  BY <1>1, <1>2, <1>3, <1>4

LEMMA LaunchKeeps ==
  ASSUME NEW p \in Worker, NEW due \in SUBSET Kind, WorkerInv, Launch(p, due)
  PROVE  WorkerInv'
<1> USE WorkersAreProcesses DEF WorkerInv
<1>a. /\ pc[p] = "launch" /\ pc' = [pc EXCEPT ![p] = "pulse"]
      /\ UNCHANGED <<tables, locks, existing, doomed, held, trading, stop>>
  BY DEF Launch, Go
<1>b. /\ scan' \in [Worker -> [Kind -> ScanState]]
      /\ \A q \in Worker, j \in Kind : 
            \/ scan'[q][j] = scan[q][j]
            \/ scan[q][j] = "none" /\ scan'[q][j] = "signal"
  <2>1. scan' = [scan EXCEPT ![p] = [j \in Kind |-> IF j \in due THEN "signal" ELSE scan[p][j]]]
    BY DEF Launch, Types
  <2>2. "signal" \in ScanState /\ \A j \in due : scan[p][j] = "none"
    BY DEF Launch, ScanState, Running
  <2>3. [j \in Kind |-> IF j \in due THEN "signal" ELSE scan[p][j]] \in [Kind -> ScanState]
    BY <2>2 DEF Types
  <2>4. scan' \in [Worker -> [Kind -> ScanState]]
    BY <2>1, <2>3 DEF Types
  <2>5. \A j \in Kind : scan'[p][j] = IF j \in due THEN "signal" ELSE scan[p][j]
    BY <2>1 DEF Types
  <2>6. \A q \in Worker : q # p => scan'[q] = scan[q]
    BY <2>1 DEF Types
  <2> QED  BY <2>2, <2>4, <2>5, <2>6
<1>1. Types'
  BY <1>a, <1>b DEF Types, PC, tables, locks
<1>2. TradeInv'
  <2>1. \A q \in Worker, j \in Kind :
            scan'[q][j] \in {"trade", "commit"} <=> scan[q][j] \in {"trade", "commit"}
    BY <1>b
  <2> QED  BY <1>a, <2>1, TradeFrame DEF Types
<1>3. SchemaInv'
  BY <1>a, SchemaFrame DEF Types, Loop, PC, Boot, tables, locks
<1>4. EvidenceInv'
  <2>1. \A q \in Worker, j \in Kind : scan'[q][j] = "commit" => scan[q][j] = "commit"
    BY <1>b
  <2> QED  BY <1>a, <2>1, EvidenceFrame DEF Types, Deleting, tables
<1> QED  BY <1>1, <1>2, <1>3, <1>4

LEMMA SkipPulseKeeps ==
  ASSUME NEW p \in Worker, WorkerInv, SkipPulse(p)
  PROVE  WorkerInv'
<1> USE WorkersAreProcesses DEF WorkerInv
<1>1. Types'
  BY DEF Types, Kind, PC, Boot, Loop, ScanState, Running, Finished, Deleting, SkipPulse, tables, locks, Main, Idle, Go, Released, Id
<1>2. TradeInv'
  BY DEF Types, TradeInv, Kind, PC, Boot, Loop, ScanState, Running, Finished, Deleting, SkipPulse, tables, locks, Main, Idle, Go, Released
<1>3. SchemaInv'
  BY DEF Types, SchemaInv, Kind, PC, Boot, Loop, ScanState, Running, Finished, Deleting, SkipPulse, tables, locks, Main, Idle, Go, Released
<1>4. EvidenceInv'
  BY DEF Types, EvidenceInv, Kind, PC, Boot, Loop, ScanState, Running, Finished, Deleting, SkipPulse, tables, locks, Main, Idle, Go, Released
<1> QED  BY <1>1, <1>2, <1>3, <1>4

LEMMA PulseKeeps ==
  ASSUME NEW p \in Worker, WorkerInv, Pulse(p)
  PROVE  WorkerInv'
<1> USE WorkersAreProcesses DEF WorkerInv
<1>1. Types'
  BY DEF Types, Kind, PC, Boot, Loop, ScanState, Running, Finished, Deleting, Pulse, tables, locks, Main, Idle, Go, Released, TradingFree, Id
<1>2. TradeInv'
  BY DEF Types, TradeInv, Kind, PC, Boot, Loop, ScanState, Running, Finished, Deleting, Pulse, tables, locks, Main, Idle, Go, Released, TradingFree
<1>3. SchemaInv'
  BY DEF Types, SchemaInv, Kind, PC, Boot, Loop, ScanState, Running, Finished, Deleting, Pulse, tables, locks, Main, Idle, Go, Released, TradingFree
<1>4. EvidenceInv'
  BY DEF Types, EvidenceInv, Kind, PC, Boot, Loop, ScanState, Running, Finished, Deleting, Pulse, tables, locks, Main, Idle, Go, Released, TradingFree
<1> QED  BY <1>1, <1>2, <1>3, <1>4

LEMMA EndPulseKeeps ==
  ASSUME NEW p \in Worker, WorkerInv, EndPulse(p)
  PROVE  WorkerInv'
<1> USE WorkersAreProcesses DEF WorkerInv
<1>1. Types'
  BY DEF Types, Kind, PC, Boot, Loop, ScanState, Running, Finished, Deleting, EndPulse, tables, locks, Main, Idle, Go, Released, Unlocked, Id
<1>2. TradeInv'
  BY DEF Types, TradeInv, Kind, PC, Boot, Loop, ScanState, Running, Finished, Deleting, EndPulse, tables, locks, Main, Idle, Go, Released, Unlocked
<1>3. SchemaInv'
  BY DEF Types, SchemaInv, Kind, PC, Boot, Loop, ScanState, Running, Finished, Deleting, EndPulse, tables, locks, Main, Idle, Go, Released, Unlocked
<1>4. EvidenceInv'
  BY DEF Types, EvidenceInv, Kind, PC, Boot, Loop, ScanState, Running, Finished, Deleting, EndPulse, tables, locks, Main, Idle, Go, Released, Unlocked
<1> QED  BY <1>1, <1>2, <1>3, <1>4

LEMMA WaitKeeps ==
  ASSUME NEW p \in Worker, WorkerInv, Wait(p)
  PROVE  WorkerInv'
<1> USE WorkersAreProcesses DEF WorkerInv
<1>1. Types'
  BY DEF Types, Kind, PC, Boot, Loop, ScanState, Running, Finished, Deleting, Wait, tables, locks, Main, Idle, Go, Released, Id
<1>2. TradeInv'
  BY DEF Types, TradeInv, Kind, PC, Boot, Loop, ScanState, Running, Finished, Deleting, Wait, tables, locks, Main, Idle, Go, Released
<1>3. SchemaInv'
  BY DEF Types, SchemaInv, Kind, PC, Boot, Loop, ScanState, Running, Finished, Deleting, Wait, tables, locks, Main, Idle, Go, Released
<1>4. EvidenceInv'
  BY DEF Types, EvidenceInv, Kind, PC, Boot, Loop, ScanState, Running, Finished, Deleting, Wait, tables, locks, Main, Idle, Go, Released
<1> QED  BY <1>1, <1>2, <1>3, <1>4

LEMMA ExitKeeps ==
  ASSUME NEW p \in Worker, WorkerInv, Exit(p)
  PROVE  WorkerInv'
<1> USE WorkersAreProcesses DEF WorkerInv
<1>1. Types'
  BY DEF Types, Kind, PC, Boot, Loop, ScanState, Running, Finished, Deleting, Exit, tables, locks, Main, Idle, Go, Released, NoScan, Id
<1>2. TradeInv'
  BY DEF Types, TradeInv, Kind, PC, Boot, Loop, ScanState, Running, Finished, Deleting, Exit, tables, locks, Main, Idle, Go, Released, NoScan
<1>3. SchemaInv'
  BY DEF Types, SchemaInv, Kind, PC, Boot, Loop, ScanState, Running, Finished, Deleting, Exit, tables, locks, Main, Idle, Go, Released, NoScan
<1>4. EvidenceInv'
  BY DEF Types, EvidenceInv, Kind, PC, Boot, Loop, ScanState, Running, Finished, Deleting, Exit, tables, locks, Main, Idle, Go, Released, NoScan
<1> QED  BY <1>1, <1>2, <1>3, <1>4

LEMMA TrimSignalsKeeps ==
  ASSUME NEW p \in Worker, WorkerInv, TrimSignals(p)
  PROVE  WorkerInv'
<1> USE WorkersAreProcesses DEF WorkerInv
<1> DEFINE D == Excess(UnlinkedSignals)
<1>a. D \subseteq UnlinkedSignals /\ UnlinkedSignals \subseteq Id
  BY DEF Excess, UnlinkedSignals
<1>b. /\ pc[p] = "signals"
      /\ \/ NoWriter /\ doomed' = [doomed EXCEPT ![p] = D] /\ pc' = [pc EXCEPT ![p] = "trim signals"]
         \/ doomed' = doomed /\ pc' = [pc EXCEPT ![p] = "forecasts"]
      /\ UNCHANGED <<tables, locks, existing, scan, held, trading, stop>>
  BY DEF TrimSignals, Trim, Go
<1> HIDE DEF D
<1>1. Types'
  <2>1. pc' \in [Process -> PC]
    BY <1>b DEF Types, PC
  <2>2. doomed' \in [Worker -> SUBSET Id]
    BY <1>a, <1>b DEF Types
  <2> QED  BY <1>b, <2>1, <2>2 DEF Types, tables, locks
<1>2. TradeInv'
  BY <1>b, TradeFrame DEF Types
<1>3. SchemaInv'
  BY <1>b, SchemaFrame DEF Types, Loop, PC, Boot, tables, locks
<1>4. EvidenceInv'
  <2>1. CASE doomed' = doomed /\ pc' = [pc EXCEPT ![p] = "forecasts"]
    BY <1>b, <2>1, EvidenceFrame DEF Types, Deleting, tables
  <2>2. CASE NoWriter /\ doomed' = [doomed EXCEPT ![p] = D] /\ pc' = [pc EXCEPT ![p] = "trim signals"]
    <3>1. \A q \in Worker, k \in Kind : scan'[q][k] # "commit"
      BY <1>b, <2>2 DEF NoWriter, Writers
    <3>2. /\ doomed'[p] = D /\ pc'[p] = "trim signals" /\ UNCHANGED <<lot, forecast>>
          /\ \A q \in Worker : q # p => doomed'[q] = doomed[q] /\ pc'[q] = pc[q]
      BY <1>b, <2>2 DEF Types, tables
    <3>3. D \cap lot = {} /\ \A i \in D : forecast[i] # "row"
      BY <1>a DEF UnlinkedSignals
    <3> QED  BY <3>1, <3>2, <3>3 DEF EvidenceInv
  <2> QED  BY <1>b, <2>1, <2>2
<1> QED  BY <1>1, <1>2, <1>3, <1>4

LEMMA TrimForecastsKeeps ==
  ASSUME NEW p \in Worker, WorkerInv, TrimForecasts(p)
  PROVE  WorkerInv'
<1> USE WorkersAreProcesses DEF WorkerInv
<1> DEFINE D == Excess(UnlinkedForecasts)
<1>a. D \subseteq UnlinkedForecasts /\ UnlinkedForecasts \subseteq Id
  BY DEF Excess, UnlinkedForecasts
<1>b. /\ pc[p] = "forecasts"
      /\ \/ NoWriter /\ doomed' = [doomed EXCEPT ![p] = D] /\ pc' = [pc EXCEPT ![p] = "trim forecasts"]
         \/ doomed' = doomed /\ pc' = [pc EXCEPT ![p] = "collect"]
      /\ UNCHANGED <<tables, locks, existing, scan, held, trading, stop>>
  BY DEF TrimForecasts, Trim, Go
<1> HIDE DEF D
<1>1. Types'
  <2>1. pc' \in [Process -> PC]
    BY <1>b DEF Types, PC
  <2>2. doomed' \in [Worker -> SUBSET Id]
    BY <1>a, <1>b DEF Types
  <2> QED  BY <1>b, <2>1, <2>2 DEF Types, tables, locks
<1>2. TradeInv'
  BY <1>b, TradeFrame DEF Types
<1>3. SchemaInv'
  BY <1>b, SchemaFrame DEF Types, Loop, PC, Boot, tables, locks
<1>4. EvidenceInv'
  <2>1. CASE doomed' = doomed /\ pc' = [pc EXCEPT ![p] = "collect"]
    BY <1>b, <2>1, EvidenceFrame DEF Types, Deleting, tables
  <2>2. CASE NoWriter /\ doomed' = [doomed EXCEPT ![p] = D] /\ pc' = [pc EXCEPT ![p] = "trim forecasts"]
    <3>1. \A q \in Worker, k \in Kind : scan'[q][k] # "commit"
      BY <1>b, <2>2 DEF NoWriter, Writers
    <3>2. /\ doomed'[p] = D /\ pc'[p] = "trim forecasts" /\ UNCHANGED <<lot, forecast>>
          /\ \A q \in Worker : q # p => doomed'[q] = doomed[q] /\ pc'[q] = pc[q]
      BY <1>b, <2>2 DEF Types, tables
    <3>3. D \cap lot = {}
      BY <1>a DEF UnlinkedForecasts
    <3> QED  BY <3>1, <3>2, <3>3 DEF EvidenceInv
  <2> QED  BY <1>b, <2>1, <2>2
<1> QED  BY <1>1, <1>2, <1>3, <1>4

LEMMA CommitTrimKeeps ==
  ASSUME NEW p \in Worker, WorkerInv, CommitTrim(p)
  PROVE  WorkerInv'
<1> USE WorkersAreProcesses DEF WorkerInv
<1>a. /\ pc[p] \in Deleting
      /\ \/ /\ pc[p] = "trim signals" /\ pc' = [pc EXCEPT ![p] = "forecasts"]
            /\ signal' = DropRows(p, signal) /\ UNCHANGED <<forecast, maintenanceLock>>
         \/ /\ pc[p] = "trim forecasts" /\ pc' = [pc EXCEPT ![p] = "collect"]
            /\ forecast' = DropRows(p, forecast) /\ UNCHANGED signal
            /\ maintenanceLock' \in {maintenanceLock, "none"}
      /\ doomed' = [doomed EXCEPT ![p] = {}]
      /\ UNCHANGED <<schema, ran, lot, bootLock, migrationLock, existing, scan, held, trading, stop>>
  BY DEF CommitTrim, Go, Released, Deleting
<1>b. /\ DropRows(p, signal) \in [Id -> {"unused", "row", "gone"}]
      /\ DropRows(p, forecast) \in [Id -> {"unused", "row", "gone"}]
      /\ \A i \in Id : DropRows(p, forecast)[i] = "row" => forecast[i] = "row"
  BY DEF DropRows, Types
<1>1. Types'
  <2>1. signal' \in [Id -> {"unused", "row", "gone"}] /\ forecast' \in [Id -> {"unused", "row", "gone"}]
    BY <1>a, <1>b DEF Types
  <2>2. /\ pc' \in [Process -> PC] /\ maintenanceLock' \in Worker \cup {"none"}
        /\ doomed' \in [Worker -> SUBSET Id]
    BY <1>a DEF Types, PC
  <2> QED  BY <1>a, <2>1, <2>2 DEF Types
<1>2. TradeInv'
  BY <1>a, TradeFrame DEF Types, Deleting
<1>3. SchemaInv'
  BY <1>a, SchemaFrame DEF Types, Loop, PC, Boot, Deleting
<1>4. EvidenceInv'
  <2>1. \A i \in Id : forecast'[i] = "row" => forecast[i] = "row"
    BY <1>a, <1>b
  <2>2. \A q \in Worker : /\ pc'[q] \in Deleting => pc[q] = pc'[q]
                          /\ doomed'[q] \subseteq doomed[q] /\ doomed'[q] \subseteq Id
    BY <1>a DEF Types, Deleting
  <2> QED  BY <1>a, <2>1, <2>2 DEF EvidenceInv, Deleting
<1> QED  BY <1>1, <1>2, <1>3, <1>4

LEMMA MaintenanceFailsKeeps ==
  ASSUME NEW p \in Worker, WorkerInv, MaintenanceFails(p)
  PROVE  WorkerInv'
<1> USE WorkersAreProcesses DEF WorkerInv
<1>1. Types'
  BY DEF Types, Kind, PC, Boot, Loop, ScanState, Running, Finished, Deleting, MaintenanceFails, tables, locks, Main, Idle, Go, Released, Id
<1>2. TradeInv'
  BY DEF Types, TradeInv, Kind, PC, Boot, Loop, ScanState, Running, Finished, Deleting, MaintenanceFails, tables, locks, Main, Idle, Go, Released
<1>3. SchemaInv'
  BY DEF Types, SchemaInv, Kind, PC, Boot, Loop, ScanState, Running, Finished, Deleting, MaintenanceFails, tables, locks, Main, Idle, Go, Released
<1>4. EvidenceInv'
  <2>1. \A q \in Worker : pc'[q] \in Deleting => pc'[q] = pc[q] /\ doomed'[q] = doomed[q]
    BY DEF Types, Deleting, MaintenanceFails, Go
  <2> QED  BY <2>1, EvidenceFrame DEF MaintenanceFails, tables
<1> QED  BY <1>1, <1>2, <1>3, <1>4

LEMMA SaveSignalKeeps ==
  ASSUME NEW p \in Worker, NEW k \in Kind, WorkerInv, SaveSignal(p, k)
  PROVE  WorkerInv'
<1> USE WorkersAreProcesses DEF WorkerInv
<1>a. PICK to \in {"forecast", "ready"} : Step(p, k, "signal", to)
  BY DEF SaveSignal
<1>b. UNCHANGED <<schema, ran, bootLock, migrationLock, maintenanceLock, pc, existing, doomed, stop, forecast, lot, trading>>
  BY DEF SaveSignal, Main, locks, tables
<1>c. /\ scan' \in [Worker -> [Kind -> ScanState]] /\ scan[p][k] = "signal"
      /\ \A q \in Worker, j \in Kind :
            scan'[q][j] = IF q = p /\ j = k THEN to ELSE scan[q][j]
  BY <1>a, ScanMoves DEF ScanState, Running, Finished
<1>d. /\ signal' \in [Id -> {"unused", "row", "gone"}]
      /\ held' \in [Worker -> [Kind -> 0..MaxSignal]]
      /\ \A q \in Worker, j \in Kind : (q = p /\ j = k) \/ held'[q][j] = held[q][j]
  <2>1. PICK i \in Id : signal' = [signal EXCEPT ![i] = "row"] /\ Hold(p, k, i)
    BY DEF SaveSignal
  <2>2. i \in 0..MaxSignal
    BY WorkerAssumption DEF Id, WorkerAssumption
  <2>3. signal' \in [Id -> {"unused", "row", "gone"}]
    BY <2>1 DEF Types
  <2> QED  BY <2>1, <2>2, <2>3, HoldMoves
<1>1. Types'
  BY <1>b, <1>c, <1>d DEF Types
<1>2. TradeInv'
  <2>1. \A q \in Worker, j \in Kind :
            scan'[q][j] \in {"trade", "commit"} <=> scan[q][j] \in {"trade", "commit"}
    BY <1>c
  <2> QED  BY <1>b, <2>1, TradeFrame
<1>3. SchemaInv'
  BY <1>b, SchemaFrame
<1>4. EvidenceInv'
  <2>1. \A q \in Worker, j \in Kind : scan'[q][j] = "commit" =>
            scan[q][j] = "commit" /\ held'[q][j] = held[q][j]
    BY <1>c, <1>d
  <2> QED  BY <1>b, <2>1, EvidenceFrame
<1> QED  BY <1>1, <1>2, <1>3, <1>4

LEMMA NoSignalKeeps ==
  ASSUME NEW p \in Worker, NEW k \in Kind, WorkerInv, NoSignal(p, k)
  PROVE  WorkerInv'
<1> USE WorkersAreProcesses DEF WorkerInv
<1>a. PICK to \in {"ready", "failed"} : Step(p, k, "signal", to)
  BY DEF NoSignal
<1>b. UNCHANGED <<schema, ran, bootLock, migrationLock, maintenanceLock, pc, existing, doomed, stop, signal, forecast, lot, held, trading>>
  BY DEF NoSignal, Main, locks, tables
<1>c. /\ scan' \in [Worker -> [Kind -> ScanState]] /\ scan[p][k] = "signal"
      /\ \A q \in Worker, j \in Kind :
            scan'[q][j] = IF q = p /\ j = k THEN to ELSE scan[q][j]
  BY <1>a, ScanMoves DEF ScanState, Running, Finished
<1>1. Types'
  BY <1>b, <1>c DEF Types
<1>2. TradeInv'
  <2>1. \A q \in Worker, j \in Kind :
            scan'[q][j] \in {"trade", "commit"} <=> scan[q][j] \in {"trade", "commit"}
    BY <1>c
  <2> QED  BY <1>b, <2>1, TradeFrame
<1>3. SchemaInv'
  BY <1>b, SchemaFrame
<1>4. EvidenceInv'
  <2>1. \A q \in Worker, j \in Kind : scan'[q][j] = "commit" => scan[q][j] = "commit"
    BY <1>c
  <2> QED  BY <1>b, <2>1, EvidenceFrame
<1> QED  BY <1>1, <1>2, <1>3, <1>4

LEMMA SaveForecastKeeps ==
  ASSUME NEW p \in Worker, NEW k \in Kind, WorkerInv, SaveForecast(p, k)
  PROVE  WorkerInv'
<1> USE WorkersAreProcesses DEF WorkerInv
<1>a. PICK to \in {"ready"} : Step(p, k, "forecast", to)
  BY DEF SaveForecast
<1>b. UNCHANGED <<schema, ran, bootLock, migrationLock, maintenanceLock, pc, existing, doomed, stop, signal, lot, trading>>
  BY DEF SaveForecast, Main, locks, tables
<1>c. /\ scan' \in [Worker -> [Kind -> ScanState]] /\ scan[p][k] = "forecast"
      /\ \A q \in Worker, j \in Kind :
            scan'[q][j] = IF q = p /\ j = k THEN to ELSE scan[q][j]
  BY <1>a, ScanMoves DEF ScanState, Running, Finished
<1>d. /\ held' \in [Worker -> [Kind -> 0..MaxSignal]]
      /\ \A q \in Worker, j \in Kind : (q = p /\ j = k) \/ held'[q][j] = held[q][j]
      /\ \/ forecast' = forecast
         \/ Trimmers = {} /\ forecast' = [forecast EXCEPT ![held[p][k]] = "row"]
  <2>1. 0 \in 0..MaxSignal
    BY WorkerAssumption DEF WorkerAssumption
  <2>2. CASE /\ Trimmers = {} /\ UNCHANGED held
             /\ forecast' = [forecast EXCEPT ![held[p][k]] = "row"]
    BY <2>2 DEF Types
  <2>3. CASE Hold(p, k, 0) /\ UNCHANGED forecast
    <3>1. Hold(p, k, 0)  BY <2>3
    <3>2. /\ held' \in [Worker -> [Kind -> 0..MaxSignal]]
          /\ \A q \in Worker, j \in Kind :
               held'[q][j] = IF q = p /\ j = k THEN 0 ELSE held[q][j]
      BY <2>1, <3>1, HoldMoves
    <3> QED  BY <2>3, <3>2
  <2> QED  BY <2>2, <2>3 DEF SaveForecast
<1>1. Types'
  <2>1. forecast' \in [Id -> {"unused", "row", "gone"}]
    BY <1>d DEF Types
  <2> QED  BY <1>b, <1>c, <1>d, <2>1 DEF Types
<1>2. TradeInv'
  <2>1. \A q \in Worker, j \in Kind :
            scan'[q][j] \in {"trade", "commit"} <=> scan[q][j] \in {"trade", "commit"}
    BY <1>c
  <2> QED  BY <1>b, <2>1, TradeFrame
<1>3. SchemaInv'
  BY <1>b, SchemaFrame
<1>4. EvidenceInv'
  <2>1. \A q \in Worker, j \in Kind : scan'[q][j] = "commit" =>
            scan[q][j] = "commit" /\ held'[q][j] = held[q][j]
    BY <1>c, <1>d
  <2>2. CASE UNCHANGED forecast
    BY <1>b, <2>1, <2>2, EvidenceFrame
  <2>3. CASE Trimmers = {}
    <3>1. \A q \in Worker : pc[q] \notin Deleting
      BY <2>3 DEF Trimmers, Deleting
    <3>2. \A q \in Worker : pc'[q] \notin Deleting
      BY <1>b, <3>1
    <3>3. \A q \in Worker, j \in Kind : scan'[q][j] = "commit" => held'[q][j] # 0
      <4>1. \A q \in Worker, j \in Kind : scan[q][j] = "commit" => held[q][j] # 0
        BY DEF EvidenceInv
      <4> QED  BY <2>1, <4>1
    <3> QED  BY <3>2, <3>3 DEF EvidenceInv, Deleting
  <2> QED  BY <1>d, <2>2, <2>3
<1> QED  BY <1>1, <1>2, <1>3, <1>4

LEMMA LockTradingKeeps ==
  ASSUME NEW p \in Worker, NEW k \in Kind, WorkerInv, LockTrading(p, k)
  PROVE  WorkerInv'
<1> USE WorkersAreProcesses DEF WorkerInv
<1>1. Types'
  BY DEF Types, Kind, PC, Boot, Loop, ScanState, Running, Finished, Deleting, LockTrading, tables, locks, Main, Idle, Go, Released, Step, TradingFree, Id
<1>2. TradeInv'
  BY DEF Types, TradeInv, Kind, PC, Boot, Loop, ScanState, Running, Finished, Deleting, LockTrading, tables, locks, Main, Idle, Go, Released, Step, TradingFree
<1>3. SchemaInv'
  BY DEF Types, SchemaInv, Kind, PC, Boot, Loop, ScanState, Running, Finished, Deleting, LockTrading, tables, locks, Main, Idle, Go, Released, Step, TradingFree
<1>4. EvidenceInv'
  <2>1. \A q \in Worker, j \in Kind : scan'[q][j] = "commit" => scan[q][j] = "commit"
    BY DEF Types, LockTrading, Step
  <2> QED  BY <2>1, EvidenceFrame DEF LockTrading, tables, Main
<1> QED  BY <1>1, <1>2, <1>3, <1>4

LEMMA BuyKeeps ==
  ASSUME NEW p \in Worker, NEW k \in Kind, WorkerInv, Buy(p, k)
  PROVE  WorkerInv'
<1> USE WorkersAreProcesses DEF WorkerInv
<1>a. PICK to \in {"commit"} : Step(p, k, "trade", to)
  BY DEF Buy
<1>b. UNCHANGED <<schema, ran, bootLock, migrationLock, maintenanceLock, pc, existing, doomed, stop, signal, forecast, lot, held, trading>>
  BY DEF Buy, Main, locks, tables
<1>c. /\ scan' \in [Worker -> [Kind -> ScanState]] /\ scan[p][k] = "trade"
      /\ \A q \in Worker, j \in Kind :
            scan'[q][j] = IF q = p /\ j = k THEN to ELSE scan[q][j]
  BY <1>a, ScanMoves DEF ScanState, Running, Finished
<1>1. Types'
  BY <1>b, <1>c DEF Types
<1>2. TradeInv'
  <2>1. \A q \in Worker, j \in Kind :
            scan'[q][j] \in {"trade", "commit"} <=> scan[q][j] \in {"trade", "commit"}
    BY <1>c
  <2> QED  BY <1>b, <2>1, TradeFrame
<1>3. SchemaInv'
  BY <1>b, SchemaFrame
<1>4. EvidenceInv'
  <2>1. held[p][k] # 0 /\ \A q \in Worker : pc[q] \notin Deleting
    BY DEF Buy, Trimmers, Deleting
  <2>2. \A q \in Worker : pc'[q] \notin Deleting
    BY <1>b, <2>1
  <2>3. ASSUME NEW q \in Worker, NEW j \in Kind, scan'[q][j] = "commit"
        PROVE  held'[q][j] # 0
    <3>1. CASE q = p /\ j = k  BY <1>b, <2>1, <3>1
    <3>2. CASE ~(q = p /\ j = k)
      <4>1. scan[q][j] = "commit"  BY <1>c, <2>3, <3>2
      <4>2. held[q][j] # 0  BY <4>1 DEF EvidenceInv
      <4> QED  BY <1>b, <4>2
    <3> QED  BY <3>1, <3>2
  <2> QED  BY <2>2, <2>3 DEF EvidenceInv, Deleting
<1> QED  BY <1>1, <1>2, <1>3, <1>4

LEMMA CommitBuyKeeps ==
  ASSUME NEW p \in Worker, NEW k \in Kind, WorkerInv, CommitBuy(p, k)
  PROVE  WorkerInv'
<1> USE WorkersAreProcesses DEF WorkerInv
<1>a. PICK to \in {"done"} : Step(p, k, "commit", to)
  BY DEF CommitBuy
<1>b. UNCHANGED <<schema, ran, bootLock, migrationLock, maintenanceLock, pc, existing, doomed, stop, signal, forecast>>
  BY DEF CommitBuy, Main, locks, tables
<1>c. /\ scan' \in [Worker -> [Kind -> ScanState]] /\ scan[p][k] = "commit"
      /\ \A q \in Worker, j \in Kind :
            scan'[q][j] = IF q = p /\ j = k THEN to ELSE scan[q][j]
  BY <1>a, ScanMoves DEF ScanState, Running, Finished
<1>d. trading' = [trading EXCEPT ![p] = "none"] /\ Hold(p, k, 0)
  BY DEF CommitBuy, Unlocked
<1>e. /\ held' \in [Worker -> [Kind -> 0..MaxSignal]]
      /\ \A q \in Worker, j \in Kind : (q = p /\ j = k) \/ held'[q][j] = held[q][j]
  <2>1. 0 \in 0..MaxSignal
    BY WorkerAssumption DEF WorkerAssumption
  <2> QED  BY <2>1, <1>d, HoldMoves
<1>f. held[p][k] \in Id /\ \A q \in Worker : pc[q] \notin Deleting
  <2>1. held[p][k] # 0 /\ \A q \in Worker : pc[q] \notin Deleting
    BY <1>c DEF EvidenceInv
  <2>2. held[p][k] \in 0..MaxSignal
    BY DEF Types
  <2> QED  BY <2>1, <2>2, WorkerAssumption DEF Id, WorkerAssumption
<1>1. Types'
  <2>1. lot' \subseteq Id
    BY <1>f DEF CommitBuy, Types
  <2> QED  BY <1>b, <1>c, <1>d, <1>e, <2>1 DEF Types
<1>2. TradeInv'
  <2>1. trading[p] = k /\ k \notin {"none", "main"} /\ pc[p] # "pulsing"
    BY <1>c DEF TradeInv, Kind
  <2>2. trading'[p] = "none" /\ \A q \in Worker : q # p => trading'[q] = trading[q]
    BY <1>d DEF Types
  <2>3. \A j \in Kind : scan'[p][j] \notin {"trade", "commit"}
    <3>1. \A j \in Kind : j # k => scan[p][j] \notin {"trade", "commit"}
      BY <2>1 DEF TradeInv
    <3> QED  BY <3>1, <1>c
  <2>4. \A q \in Worker, j \in Kind : q # p => scan'[q][j] = scan[q][j]
    BY <1>c
  <2>5. "none" \notin Kind
    BY DEF Kind
  <2>6. ASSUME NEW q \in Worker
        PROVE  /\ trading'[q] = "main" <=> pc'[q] = "pulsing"
               /\ \A j \in Kind : trading'[q] = j <=> scan'[q][j] \in {"trade", "commit"}
    <3>1. CASE q = p  BY <1>b, <2>1, <2>2, <2>3, <2>5, <3>1
    <3>2. CASE q # p  BY <1>b, <2>2, <2>4, <3>2 DEF TradeInv
    <3> QED  BY <3>1, <3>2
  <2> QED  BY <2>6 DEF TradeInv
<1>3. SchemaInv'
  BY <1>b, SchemaFrame
<1>4. EvidenceInv'
  <2>1. \A q \in Worker, j \in Kind : scan'[q][j] = "commit" =>
            scan[q][j] = "commit" /\ held'[q][j] = held[q][j]
    BY <1>c, <1>e
  <2>2. \A q \in Worker : pc'[q] \notin Deleting
    BY <1>b, <1>f
  <2>3. \A q \in Worker, j \in Kind : scan'[q][j] = "commit" => held'[q][j] # 0
    <3>1. \A q \in Worker, j \in Kind : scan[q][j] = "commit" => held[q][j] # 0
      BY DEF EvidenceInv
    <3> QED  BY <2>1, <3>1
  <2> QED  BY <2>2, <2>3 DEF EvidenceInv, Deleting
<1> QED  BY <1>1, <1>2, <1>3, <1>4

LEMMA EndScanKeeps ==
  ASSUME NEW p \in Worker, NEW k \in Kind, WorkerInv, EndScan(p, k)
  PROVE  WorkerInv'
<1> USE WorkersAreProcesses DEF WorkerInv
<1>a. PICK from \in {"trade", "commit"}, to \in Finished : Step(p, k, from, to)
  BY DEF EndScan
<1>b. UNCHANGED <<schema, ran, bootLock, migrationLock, maintenanceLock, pc, existing, doomed, stop, signal, forecast, lot>>
  BY DEF EndScan, Main, locks, tables
<1>c. /\ scan' \in [Worker -> [Kind -> ScanState]] /\ scan[p][k] \in {"trade", "commit"}
      /\ to \notin {"trade", "commit"}
      /\ \A q \in Worker, j \in Kind :
            scan'[q][j] = IF q = p /\ j = k THEN to ELSE scan[q][j]
  BY <1>a, ScanMoves DEF ScanState, Finished
<1>d. trading' = [trading EXCEPT ![p] = "none"] /\ Hold(p, k, 0)
  BY DEF EndScan, Unlocked
<1>e. /\ held' \in [Worker -> [Kind -> 0..MaxSignal]]
      /\ \A q \in Worker, j \in Kind : (q = p /\ j = k) \/ held'[q][j] = held[q][j]
  <2>1. 0 \in 0..MaxSignal
    BY WorkerAssumption DEF WorkerAssumption
  <2> QED  BY <2>1, <1>d, HoldMoves
<1>1. Types'
  BY <1>b, <1>c, <1>d, <1>e DEF Types
<1>2. TradeInv'
  <2>1. trading[p] = k /\ k \notin {"none", "main"} /\ pc[p] # "pulsing"
    BY <1>c DEF TradeInv, Kind
  <2>2. trading'[p] = "none" /\ \A q \in Worker : q # p => trading'[q] = trading[q]
    BY <1>d DEF Types
  <2>3. \A j \in Kind : scan'[p][j] \notin {"trade", "commit"}
    <3>1. \A j \in Kind : j # k => scan[p][j] \notin {"trade", "commit"}
      BY <2>1 DEF TradeInv
    <3> QED  BY <3>1, <1>c
  <2>4. \A q \in Worker, j \in Kind : q # p => scan'[q][j] = scan[q][j]
    BY <1>c
  <2>5. "none" \notin Kind
    BY DEF Kind
  <2>6. ASSUME NEW q \in Worker
        PROVE  /\ trading'[q] = "main" <=> pc'[q] = "pulsing"
               /\ \A j \in Kind : trading'[q] = j <=> scan'[q][j] \in {"trade", "commit"}
    <3>1. CASE q = p  BY <1>b, <2>1, <2>2, <2>3, <2>5, <3>1
    <3>2. CASE q # p  BY <1>b, <2>2, <2>4, <3>2 DEF TradeInv
    <3> QED  BY <3>1, <3>2
  <2> QED  BY <2>6 DEF TradeInv
<1>3. SchemaInv'
  BY <1>b, SchemaFrame
<1>4. EvidenceInv'
  <2>1. \A q \in Worker, j \in Kind : scan'[q][j] = "commit" =>
            scan[q][j] = "commit" /\ held'[q][j] = held[q][j]
    BY <1>c, <1>e
  <2> QED  BY <1>b, <2>1, EvidenceFrame
<1> QED  BY <1>1, <1>2, <1>3, <1>4

LEMMA RequestStopKeeps ==
  ASSUME NEW p \in Worker, WorkerInv, RequestStop(p)
  PROVE  WorkerInv'
<1> USE WorkersAreProcesses DEF WorkerInv
<1>1. Types'
  BY DEF Types, Kind, PC, Boot, Loop, ScanState, Running, Finished, Deleting, RequestStop, tables, locks, Main, Idle, Go, Released, Id
<1>2. TradeInv'
  BY DEF Types, TradeInv, Kind, PC, Boot, Loop, ScanState, Running, Finished, Deleting, RequestStop, tables, locks, Main, Idle, Go, Released
<1>3. SchemaInv'
  BY DEF Types, SchemaInv, Kind, PC, Boot, Loop, ScanState, Running, Finished, Deleting, RequestStop, tables, locks, Main, Idle, Go, Released
<1>4. EvidenceInv'
  BY DEF Types, EvidenceInv, Kind, PC, Boot, Loop, ScanState, Running, Finished, Deleting, RequestStop, tables, locks, Main, Idle, Go, Released
<1> QED  BY <1>1, <1>2, <1>3, <1>4

LEMMA StopBootKeeps ==
  ASSUME NEW p \in Worker, WorkerInv, StopBoot(p)
  PROVE  WorkerInv'
<1> USE WorkersAreProcesses DEF WorkerInv
<1>1. Types'
  BY DEF Types, Kind, PC, Boot, Loop, ScanState, Running, Finished, Deleting, StopBoot, tables, locks, Main, Idle, Go, Released, Id
<1>2. TradeInv'
  BY DEF Types, TradeInv, Kind, PC, Boot, Loop, ScanState, Running, Finished, Deleting, StopBoot, tables, locks, Main, Idle, Go, Released
<1>3. SchemaInv'
  BY DEF Types, SchemaInv, Kind, PC, Boot, Loop, ScanState, Running, Finished, Deleting, StopBoot, tables, locks, Main, Idle, Go, Released
<1>4. EvidenceInv'
  BY DEF Types, EvidenceInv, Kind, PC, Boot, Loop, ScanState, Running, Finished, Deleting, StopBoot, tables, locks, Main, Idle, Go, Released
<1> QED  BY <1>1, <1>2, <1>3, <1>4

LEMMA CrashKeeps ==
  ASSUME NEW p \in Worker, WorkerInv, Crash(p)
  PROVE  WorkerInv'
<1> USE WorkersAreProcesses DEF WorkerInv
<1>1. Types'
  <2>1. 0 \in 0..MaxSignal /\ "none" \in ScanState /\ "down" \in PC
    BY WorkerAssumption DEF WorkerAssumption, ScanState, PC
  <2>2. NoScan \in [Kind -> ScanState] /\ NotHeld \in [Kind -> 0..MaxSignal]
    BY <2>1 DEF NoScan, NotHeld
  <2>3. /\ scan' \in [Worker -> [Kind -> ScanState]] /\ held' \in [Worker -> [Kind -> 0..MaxSignal]]
        /\ pc' \in [Process -> PC] /\ existing' \in [Process -> SUBSET Migration]
        /\ doomed' \in [Worker -> SUBSET Id]
    BY <2>1, <2>2 DEF Crash, Types, Go
  <2>4. /\ bootLock' \in Worker \cup {"none"} /\ maintenanceLock' \in Worker \cup {"none"}
        /\ migrationLock' \in Process \cup {"none"}
        /\ trading' \in [Worker -> {"none", "main"} \cup Kind]
    BY DEF Crash, Types, Released, Unlocked
  <2> QED  BY <2>3, <2>4 DEF Crash, Types, tables
<1>2. TradeInv'
  BY DEF Types, TradeInv, Kind, PC, Boot, Loop, ScanState, Running, Finished, Deleting, Crash, tables, locks, Main, Idle, Go, Released, NoScan, NotHeld, Unlocked
<1>3. SchemaInv'
  BY DEF Types, SchemaInv, Kind, PC, Boot, Loop, ScanState, Running, Finished, Deleting, Crash, tables, locks, Main, Idle, Go, Released, NoScan, NotHeld, Unlocked
<1>4. EvidenceInv'
  BY DEF Types, EvidenceInv, Kind, PC, Boot, Loop, ScanState, Running, Finished, Deleting, Crash, tables, locks, Main, Idle, Go, Released, NoScan, NotHeld, Unlocked
<1> QED  BY <1>1, <1>2, <1>3, <1>4

LEMMA RestartKeeps ==
  ASSUME NEW p \in Worker, WorkerInv, Restart(p)
  PROVE  WorkerInv'
<1> USE WorkersAreProcesses DEF WorkerInv
<1>1. Types'
  BY DEF Types, Kind, PC, Boot, Loop, ScanState, Running, Finished, Deleting, Restart, tables, locks, Main, Idle, Go, Released, Id
<1>2. TradeInv'
  BY DEF Types, TradeInv, Kind, PC, Boot, Loop, ScanState, Running, Finished, Deleting, Restart, tables, locks, Main, Idle, Go, Released
<1>3. SchemaInv'
  BY DEF Types, SchemaInv, Kind, PC, Boot, Loop, ScanState, Running, Finished, Deleting, Restart, tables, locks, Main, Idle, Go, Released
<1>4. EvidenceInv'
  BY DEF Types, EvidenceInv, Kind, PC, Boot, Loop, ScanState, Running, Finished, Deleting, Restart, tables, locks, Main, Idle, Go, Released
<1> QED  BY <1>1, <1>2, <1>3, <1>4

-------------------------------------------------------------------------------
(* The specification. *)

LEMMA InitEstablishes == Init => WorkerInv
<1> SUFFICES ASSUME Init PROVE WorkerInv
  OBVIOUS
<1> USE WorkersAreProcesses, WorkerAssumption DEF WorkerAssumption, Init, NoScan, NotHeld
<1>1. Types
  <2>1. 0 \in 0..MaxSignal /\ "none" \in ScanState /\ "start" \in PC
    BY DEF ScanState, PC
  <2>2. /\ scan \in [Worker -> [Kind -> ScanState]] /\ held \in [Worker -> [Kind -> 0..MaxSignal]]
        /\ pc \in [Process -> PC]
    BY <2>1
  <2>3. /\ signal \in [Id -> {"unused", "row", "gone"}]
        /\ forecast \in [Id -> {"unused", "row", "gone"}]
    OBVIOUS
  <2> QED  BY <2>2, <2>3 DEF Types
<1>2. TradeInv
  BY DEF TradeInv, Kind
<1>3. SchemaInv
  BY DEF SchemaInv, Loop, Boot
<1>4. EvidenceInv
  BY DEF EvidenceInv, Deleting
<1> QED  BY <1>1, <1>2, <1>3, <1>4 DEF WorkerInv

LEMMA NextKeeps == WorkerInv /\ [Next]_vars => WorkerInv'
<1> SUFFICES ASSUME WorkerInv, [Next]_vars PROVE WorkerInv'
  OBVIOUS
<1>1. ASSUME NEW p \in Process, Bootstrap(p) PROVE WorkerInv'
  BY <1>1, LockBootstrapKeeps, UpToDateKeeps, BeginMigrationsKeeps,
     CommitMigrationsKeeps, BootFailsKeeps DEF Bootstrap
<1>2. ASSUME NEW p \in Worker, Cycle(p) PROVE WorkerInv'
  BY <1>2, TopKeeps, CollectKeeps, LaunchKeeps, SkipPulseKeeps, PulseKeeps,
     EndPulseKeeps, WaitKeeps, TrimSignalsKeeps, TrimForecastsKeeps,
     CommitTrimKeeps, MaintenanceFailsKeeps DEF Cycle, Launches, Maintain
<1>3. ASSUME NEW p \in Worker, NEW k \in Kind, Scan(p, k) PROVE WorkerInv'
  BY <1>3, SaveSignalKeeps, NoSignalKeeps, SaveForecastKeeps, LockTradingKeeps,
     BuyKeeps, CommitBuyKeeps, EndScanKeeps DEF Scan
<1>4. ASSUME NEW p \in Worker, MainThread(p) PROVE WorkerInv'
  BY <1>1, <1>2, <1>4, StopBootKeeps, ExitKeeps, WorkersAreProcesses DEF MainThread
<1>5. CASE UNCHANGED vars
  <2> USE <1>5 DEF WorkerInv, vars, tables, locks
  <2>1. Types'  BY DEF Types
  <2>2. TradeInv'  BY TradeFrame
  <2>3. SchemaInv'  BY SchemaFrame
  <2>4. EvidenceInv'  BY EvidenceFrame
  <2> QED  BY <2>1, <2>2, <2>3, <2>4
<1>6. CASE Next
  BY <1>1, <1>3, <1>4, <1>6, RequestStopKeeps, CrashKeeps, RestartKeeps DEF Next, Process
<1> QED  BY <1>5, <1>6

\* The inductive invariant of the worker's processes.
THEOREM WorkerInvariant == Spec => []WorkerInv
  BY InitEstablishes, NextKeeps, PTL DEF Spec

\* Every variable keeps its type, and trade_cycle_lock belongs to exactly the
\* thread that is trading with it (market_worker).
THEOREM WorkerTypeCorrect == Spec => []TypeOK
<1>1. WorkerInv => TypeOK
  BY TypesAndTrade DEF WorkerInv
<1> QED  BY <1>1, WorkerInvariant, PTL

\* No migration is ever committed twice, and no worker is in its loop on a
\* schema older than its build, for any number of workers and pages
\* (safe_run_migrations, bootstrap_database_with_lock).
THEOREM SchemaIsReady == Spec => []SchemaReady
<1>1. WorkerInv => SchemaReady
  BY DEF WorkerInv, SchemaInv, SchemaReady
<1> QED  BY <1>1, WorkerInvariant, PTL

\* Retention never deletes a row that a lot or a forecast refers to, for any
\* number of scans and retention passes (_apply_retention_policy,
\* _record_buy_attribution).
THEOREM EvidenceStays == Spec => EvidenceKept
<1> DEFINE Kept == \A i \in Id :
        /\ signal[i] = "row" /\ (i \in lot \/ (forecast[i] = "row" /\ forecast'[i] = "row")) =>
               signal'[i] = "row"
        /\ forecast[i] = "row" /\ i \in lot => forecast'[i] = "row"
<1>1. WorkerInv /\ [Next]_vars => [Kept]_vars
  <2> SUFFICES ASSUME WorkerInv, Next PROVE Kept
    OBVIOUS
  <2> DEFINE Same == UNCHANGED <<signal, forecast>>
  <2>0. Same => Kept
    OBVIOUS
  <2> HIDE DEF Kept
  <2>1. ASSUME NEW p \in Process, Bootstrap(p) PROVE Same
    BY <2>1 DEF Bootstrap, LockBootstrap, UpToDate, BeginMigrations, CommitMigrations,
       BootFails, Bootstrapped, tables
  <2>2. ASSUME NEW p \in Worker, CommitTrim(p) PROVE Kept
    <3>1. /\ pc[p] \in Deleting => doomed[p] \cap lot = {}
          /\ pc[p] = "trim signals" => \A i \in doomed[p] : forecast[i] # "row"
      BY DEF WorkerInv, EvidenceInv
    <3>2. CASE /\ pc[p] = "trim signals" /\ signal' = DropRows(p, signal)
               /\ UNCHANGED forecast
      BY <3>1, <3>2 DEF Kept, DropRows, Deleting
    <3>3. CASE /\ pc[p] = "trim forecasts" /\ forecast' = DropRows(p, forecast)
               /\ UNCHANGED signal
      BY <3>1, <3>3 DEF Kept, DropRows, Deleting
    <3> QED  BY <2>2, <3>2, <3>3 DEF CommitTrim
  <2>3. ASSUME NEW p \in Worker, Cycle(p), ~CommitTrim(p) PROVE Same
    BY <2>3 DEF Cycle, Launches, Maintain, Top, Collect, Launch, SkipPulse, Pulse, EndPulse,
       Wait, TrimSignals, TrimForecasts, Trim, MaintenanceFails, Idle, tables
  <2>4. ASSUME NEW p \in Worker, NEW k \in Kind, Scan(p, k) PROVE Kept
    <3>1. CASE SaveSignal(p, k)
      BY <3>1 DEF SaveSignal, Kept, WorkerInv, Types
    <3>2. CASE SaveForecast(p, k)
      <4>1. UNCHANGED signal /\ (UNCHANGED forecast \/ forecast' = [forecast EXCEPT ![held[p][k]] = "row"])
        BY <3>2 DEF SaveForecast
      <4> QED  BY <4>1 DEF Kept, WorkerInv, Types
    <3>3. CASE NoSignal(p, k) \/ LockTrading(p, k) \/ Buy(p, k) \/ CommitBuy(p, k) \/ EndScan(p, k)
      <4>1. Same
        BY <3>3 DEF NoSignal, LockTrading, Buy, CommitBuy, EndScan, tables
      <4> QED  BY <4>1, <2>0
    <3> QED  BY <2>4, <3>1, <3>2, <3>3 DEF Scan
  <2>5. ASSUME NEW p \in Worker,
               StopBoot(p) \/ Exit(p) \/ RequestStop(p) \/ Crash(p) \/ Restart(p)
        PROVE  Same
    BY <2>5 DEF StopBoot, Exit, RequestStop, Crash, Restart, Idle, tables
  <2>6. ASSUME NEW p \in Worker, MainThread(p) PROVE Kept
    BY <2>0, <2>1, <2>2, <2>3, <2>5, <2>6, WorkersAreProcesses DEF MainThread
  <2> QED  BY <2>0, <2>1, <2>4, <2>5, <2>6 DEF Next, Process
<1>2. Spec => [][Kept]_vars
  BY <1>1, WorkerInvariant, PTL DEF Spec
<1> QED  BY <1>2 DEF EvidenceKept

-------------------------------------------------------------------------------
(* The order of the waits.                                                 *)

\* Who holds a lock of the database is where the code holds it.
LockInv ==
    /\ bootLock # "none" => pc[bootLock] \in {"boot", "migrate"}
    /\ migrationLock # "none" => pc[migrationLock] = "migrate"

LEMMA LockFrame ==
  ASSUME WorkerInv, LockInv, UNCHANGED <<bootLock, migrationLock>>,
         \A q \in Process : pc[q] \in {"boot", "migrate"} => pc'[q] = pc[q]
  PROVE  LockInv'
<1>1. /\ bootLock # "none" => bootLock \in Process
      /\ migrationLock # "none" => migrationLock \in Process
  BY WorkersAreProcesses DEF WorkerInv, Types
<1> QED  BY <1>1 DEF LockInv

\* The bootstrap takes its locks at the step that it goes to, and frees them when
\* it leaves; the process that ends frees all.
LEMMA BootstrapKeepsLocks ==
  ASSUME WorkerInv, LockInv, NEW p \in Process, Bootstrap(p) \/ (p \in Worker /\ Crash(p))
  PROVE  LockInv'
<1> USE WorkersAreProcesses
<1>0. /\ pc \in [Process -> PC] /\ "none" \notin Process
      /\ bootLock \in Worker \cup {"none"} /\ migrationLock \in Process \cup {"none"}
      /\ Worker \subseteq Process
  BY DEF WorkerInv, Types
<1>1. CASE LockBootstrap(p)
  BY <1>0, <1>1 DEF LockBootstrap, Go, LockInv
<1>2. CASE UpToDate(p)
  BY <1>0, <1>2 DEF UpToDate, MigrationsFree, Bootstrapped, Released, Go, LockInv
<1>3. CASE BeginMigrations(p)
  BY <1>0, <1>3 DEF BeginMigrations, MigrationsFree, Go, LockInv
<1>4. CASE CommitMigrations(p)
  BY <1>0, <1>4 DEF CommitMigrations, Bootstrapped, Released, Go, LockInv
<1>5. CASE BootFails(p)
  BY <1>0, <1>5 DEF BootFails, Released, Go, LockInv
<1>6. CASE Crash(p)
  BY <1>0, <1>6 DEF Crash, Released, Go, LockInv
<1> QED  BY <1>1, <1>2, <1>3, <1>4, <1>5, <1>6 DEF Bootstrap

LEMMA NextKeepsLocks ==
  ASSUME WorkerInv, LockInv, [Next]_vars
  PROVE  LockInv'
<1> USE WorkersAreProcesses
<1> DEFINE Frame == /\ UNCHANGED <<bootLock, migrationLock>>
                    /\ \A q \in Process : pc[q] \in {"boot", "migrate"} => pc'[q] = pc[q]
<1>0. pc \in [Process -> PC]
  BY DEF WorkerInv, Types
<1>1. Frame => LockInv'
  BY LockFrame
<1>2. ASSUME NEW p \in Process, NEW l, Go(p, l), pc[p] \notin {"boot", "migrate"}
      PROVE  \A q \in Process : pc[q] \in {"boot", "migrate"} => pc'[q] = pc[q]
  BY <1>0, <1>2 DEF Go
<1>3. ASSUME NEW p \in Worker, Cycle(p) PROVE Frame
  <2>1. pc[p] \notin {"boot", "migrate"} /\ UNCHANGED <<bootLock, migrationLock>>
    BY <1>3 DEF Cycle, Launches, Maintain, Top, Collect, Launch, SkipPulse, Pulse,
       EndPulse, Wait, TrimSignals, TrimForecasts, Trim, CommitTrim, MaintenanceFails,
       Idle, locks
  <2>2. \E l : Go(p, l)
    BY <1>3 DEF Cycle, Launches, Maintain, Top, Collect, Launch, SkipPulse, Pulse,
       EndPulse, Wait, TrimSignals, TrimForecasts, Trim, CommitTrim, MaintenanceFails
  <2> QED  BY <1>2, <2>1, <2>2
<1>4. ASSUME NEW p \in Worker, NEW k \in Kind, Scan(p, k) PROVE Frame
  BY <1>4 DEF Scan, SaveSignal, NoSignal, SaveForecast, LockTrading, Buy, CommitBuy,
     EndScan, Main, locks
<1>5. ASSUME NEW p \in Worker, StopBoot(p) \/ Exit(p) \/ RequestStop(p) \/ Restart(p)
      PROVE  Frame
  BY <1>0, <1>5 DEF StopBoot, Exit, RequestStop, Restart, Idle, locks, Go
<1>6. CASE UNCHANGED vars
  BY <1>1, <1>6 DEF vars, locks
<1> HIDE DEF Frame
<1>7. CASE Next
  BY <1>1, <1>3, <1>4, <1>5, <1>7, BootstrapKeepsLocks DEF Next, MainThread, Process
<1> QED  BY <1>6, <1>7

\* For any number of workers and pages, no threads wait for each other in a
\* circle: not for the bootstrap lock, the migrations, trade_cycle_lock, retention,
\* or the scans a process joins at its end (bootstrap_database_with_lock,
\* safe_run_migrations, fast_scan_market, run_worker).
THEOREM NobodyWaitsInACircle == Spec => []NoCircle
<1>1. WorkerInv /\ LockInv => WaitsAreOrdered
  <2> SUFFICES ASSUME WorkerInv, LockInv, NEW t \in Thread, NEW u \in Thread,
                      WaitsFor(t, u)
               PROVE  Rank(At(t)) < Rank(At(u))
    BY DEF WaitsAreOrdered
  <2>0. /\ t[1] \in Process /\ u[1] \in Process /\ "none" \notin Process
        /\ t[2] = "main" \/ (t[2] \in Kind /\ t[1] \in Worker)
        /\ u[2] = "main" \/ (u[2] \in Kind /\ u[1] \in Worker)
        /\ "main" \notin Kind
    BY WorkersAreProcesses DEF Thread, Kind
  <2>1. CASE At(t) = "start" /\ t[1] \in Worker /\ u = <<bootLock, "main">>
    <3>1. At(u) \in {"boot", "migrate"}
      BY <2>0, <2>1 DEF At, LockInv
    <3> QED  BY <2>1, <3>1 DEF Rank
  <2>2. CASE t[2] = "main" /\ Asked(t[1]) /\ u = <<migrationLock, "main">>
    <3>1. At(u) = "migrate" /\ At(t) \in {"boot", "start"}
      BY <2>0, <2>2 DEF At, LockInv, Asked
    <3> QED  BY <3>1 DEF Rank
  <2>3. CASE /\ t[1] \in Worker /\ At(t) \in {"pulse", "ready"}
             /\ u = <<t[1], trading[t[1]]>>
    <3>1. /\ trading[t[1]] = "main" => pc[t[1]] = "pulsing"
          /\ \A k \in Kind : trading[t[1]] = k => scan[t[1]][k] \in {"trade", "commit"}
      BY <2>3 DEF WorkerInv, TradeInv
    <3>2. At(u) \in {"pulsing", "trade", "commit"}
      BY <2>0, <2>3, <3>1 DEF At
    <3> QED  BY <2>3, <3>2 DEF Rank
  <2>4. CASE At(t) \in {"forecast", "trade"} /\ u[2] = "main" /\ u[1] \in Trimmers
    <3>1. At(u) \in {"trim signals", "trim forecasts"}
      BY <2>4 DEF At, Trimmers
    <3>2. Rank(At(t)) = 2
      BY <2>4 DEF Rank
    <3>3. Rank(At(u)) = 3
      BY <3>1 DEF Rank
    <3> QED  BY <3>2, <3>3
  <2>5. CASE At(t) = "exit" /\ u[1] = t[1] /\ At(u) \in Running
    <3>1. At(u) \in {"signal", "forecast", "ready", "trade", "commit"}
      BY <2>5 DEF Running
    <3> QED  BY <2>5, <3>1 DEF Rank
  <2> QED  BY <2>1, <2>2, <2>3, <2>4, <2>5 DEF WaitsFor
<1>2. WaitsAreOrdered => NoCircle
  <2> SUFFICES ASSUME WaitsAreOrdered, NEW S \in SUBSET Thread, S # {}
               PROVE  \E t \in S : \A u \in S : ~WaitsFor(t, u)
    BY DEF NoCircle
  <2>1. \A t, u \in S : WaitsFor(t, u) => Rank(At(t)) < Rank(At(u))
    BY DEF WaitsAreOrdered
  <2>2. \A t \in S : Rank(At(t)) \in 0..3
    BY DEF Rank
  <2>3. PICK t \in S : \A u \in S : Rank(At(u)) <= Rank(At(t))
    <3> DEFINE R(n) == \E t \in S : Rank(At(t)) = n
    <3>1. CASE R(3)
      BY <2>2, <3>1
    <3>2. CASE ~R(3) /\ R(2)
      BY <2>2, <3>2
    <3>3. CASE ~R(3) /\ ~R(2) /\ R(1)
      BY <2>2, <3>3
    <3>4. CASE ~R(3) /\ ~R(2) /\ ~R(1)
      BY <2>2, <3>4
    <3> QED  BY <3>1, <3>2, <3>3, <3>4
  <2>4. ASSUME NEW u \in S PROVE ~WaitsFor(t, u)
    <3>1. Rank(At(u)) <= Rank(At(t)) /\ Rank(At(u)) \in Nat /\ Rank(At(t)) \in Nat
      BY <2>2, <2>3
    <3> QED  BY <2>1, <3>1
  <2> QED  BY <2>4
<1>3. Init => LockInv
  BY DEF Init, LockInv
<1>4. WorkerInv /\ LockInv /\ [Next]_vars => LockInv'
  BY NextKeepsLocks
<1> QED  BY <1>1, <1>2, <1>3, <1>4, WorkerInvariant, PTL DEF Spec
===============================================================================
