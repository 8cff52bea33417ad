----------------------------- MODULE PaperLedger -----------------------------
(***************************************************************************)
(* The paper ledger of one market: positions, open lots, execution claims  *)
(* and the portfolio row lock in PostgreSQL, and the threads of one or     *)
(* more worker processes that trade against them (oracle_bot.py,           *)
(* market_worker.py).                                                      *)
(*                                                                         *)
(* A worker thread (deep scan, fast scan or position pulse) trades inside  *)
(* its process's trade_cycle_lock.  A cycle first runs two exit passes     *)
(* (update_prices, risk_exits), each over the positions it read when the   *)
(* pass began, and then its signals.  Every execution is one database      *)
(* transaction that inserts a claim, takes the portfolio row lock and      *)
(* either commits, declines - which commits too, leaving the claim behind  *)
(* - or rolls back.                                                        *)
(*                                                                         *)
(* Money, prices and fees are left to PaperAccount.  A purchase is of one  *)
(* unit; the lots of a symbol are represented by their open quantity.      *)
(***************************************************************************)
EXTENDS Naturals, FiniteSets

CONSTANTS
    Process,      \* worker processes (replicas) of this market
    Thread,       \* their trading threads
    ProcOf,       \* the process of a thread
    Symbol,       \* tradable symbols
    Quote,        \* identities of a quote, with the signal it came with
    None,         \* no lock owner, symbol or quote
    MaxOpen,      \* DEFAULT_MAX_OPEN_POSITIONS + EXTRA_OPEN_POSITIONS
    RepairLots,   \* paper_sell_lot_atomic_repair is installed (crypto worker)
    ReadsFail,    \* a read of the cooldown or of the position count may fail
    MaxSignals,   \* bound: signals handled in one cycle
    MaxId,        \* bound: position rows ever inserted
    MaxQty        \* bound: quantity of a position

ASSUME ProcOfAssumption == ProcOf \in [Thread -> Process]
ASSUME SymbolAssumption == IsFiniteSet(Symbol)
ASSUME NoneAssumption ==
    None \notin Thread /\ None \notin Symbol /\ None \notin Quote
ASSUME BoundAssumption ==
    MaxOpen \in Nat /\ MaxSignals \in Nat /\ MaxId \in Nat /\ MaxQty \in Nat
ASSUME SwitchAssumption == RepairLots \in BOOLEAN /\ ReadsFail \in BOOLEAN

VARIABLES
    pc,          \* where a thread is in its cycle
    phase,       \* which part of the cycle it has reached
    snap, todo,  \* the positions it read, and those it has still to visit
    order,       \* the execution it is working on
    left,        \* signals left in this cycle
    held,        \* claim keys its open transaction inserted (and has locked)
    tradeLock,   \* owner of each process's trade_cycle_lock
    pfLock,      \* the thread whose transaction holds the portfolio row
    claims,      \* committed rows of execution_claims
    completed,   \* those with status 'completed'
    pos,         \* the positions table
    lots,        \* open quantity in position_lots
    nextId,      \* next positions.id
    cooling,     \* symbols with a trade younger than the cooldown
    bought, sold,\* quantities over the rows of trades
    trades,      \* number of rows of trades
    fabricated   \* lot quantity sales made up because lots were missing

locals  == <<pc, phase, snap, todo, order, left>>
locks   == <<held, tradeLock, pfLock>>
tables  == <<claims, completed, pos, lots, nextId, cooling,
             bought, sold, trades, fabricated>>
vars    == <<locals, locks, tables>>
---------------------------------------------------------------------------
(* Data *)

Position == [id : Nat, qty : Nat]
Closed   == [id |-> 0, qty |-> 0]
NoPositions == [s \in Symbol |-> Closed]

IsOpen(s)   == pos[s].qty > 0
OpenSymbols == {s \in Symbol : IsOpen(s)}

Order == [sym : Symbol \cup {None}, quote : Quote \cup {None},
          rot : Symbol \cup {None}, rotQuote : Quote \cup {None},
          adding : BOOLEAN]
NoOrder == [sym |-> None, quote |-> None, rot |-> None, rotQuote |-> None,
            adding |-> FALSE]
Intent(s, q, a) == [NoOrder EXCEPT !.sym = s, !.quote = q, !.adding = a]

\* A claim key digests side, symbol, price and quote identity; that of a sale
\* also digests the position it closes.
Key == [side : {"BUY", "SELL"}, sym : Symbol, quote : Quote, id : Nat]
BuyKey(s, q)      == [side |-> "BUY", sym |-> s, quote |-> q, id |-> 0]
SellKey(s, q, id) == [side |-> "SELL", sym |-> s, quote |-> q, id |-> id]

\* The key of a close is made from the position the thread read; that of a
\* rotation from the position row its transaction has locked.
CloseKey(t) ==
    SellKey(order[t].sym, order[t].quote, snap[t][order[t].sym].id)
EntryKey(t) == BuyKey(order[t].sym, order[t].quote)
RotKey(t)   ==
    SellKey(order[t].rot, order[t].rotQuote, pos[order[t].rot].id)

PC == {"idle", "cycle", "pass", "claim", "lock", "sell",
       "limit", "buylock", "buyclaim", "rotclaim", "buy"}
Phase == {"prices", "risk", "signals"}

After(ph) == IF ph = "prices" THEN "risk" ELSE "signals"

LocalsOK ==
    /\ pc \in [Thread -> PC]
    /\ phase \in [Thread -> Phase]
    /\ snap \in [Thread -> [Symbol -> Position]]
    /\ todo \in [Thread -> SUBSET Symbol]
    /\ order \in [Thread -> Order]
    /\ left \in [Thread -> Nat]

LocksOK ==
    /\ held \in [Thread -> SUBSET Key]
    /\ tradeLock \in [Process -> Thread \cup {None}]
    /\ pfLock \in Thread \cup {None}

TablesOK ==
    /\ claims \in SUBSET Key
    /\ completed \in SUBSET Key
    /\ pos \in [Symbol -> Position]
    /\ lots \in [Symbol -> Nat]
    /\ nextId \in Nat
    /\ cooling \in SUBSET Symbol
    /\ bought \in [Symbol -> Nat]
    /\ sold \in [Symbol -> Nat]
    /\ trades \in Nat
    /\ fabricated \in [Symbol -> Nat]

\* A thread that is working on an execution knows its symbol and its quote.
OrderOK ==
    \A t \in Thread :
        /\ pc[t] \notin {"idle", "cycle", "pass"} =>
              order[t].sym \in Symbol /\ order[t].quote \in Quote
        /\ order[t].rot # None =>
              /\ order[t].rot \in Symbol /\ order[t].rotQuote \in Quote
              /\ order[t].rot # order[t].sym
        /\ pc[t] = "rotclaim" => order[t].rot # None

\* The type invariant.
TypeOK == LocalsOK /\ LocksOK /\ TablesOK /\ OrderOK

Init ==
    /\ pc = [t \in Thread |-> "idle"]
    /\ phase = [t \in Thread |-> "prices"]
    /\ snap = [t \in Thread |-> NoPositions]
    /\ todo = [t \in Thread |-> {}]
    /\ order = [t \in Thread |-> NoOrder]
    /\ left = [t \in Thread |-> 0]
    /\ held = [t \in Thread |-> {}]
    /\ tradeLock = [p \in Process |-> None]
    /\ pfLock = None
    /\ claims = {} /\ completed = {}
    /\ pos = NoPositions
    /\ lots = [s \in Symbol |-> 0]
    /\ nextId = 1
    /\ cooling = {}
    /\ bought = [s \in Symbol |-> 0]
    /\ sold = [s \in Symbol |-> 0]
    /\ trades = 0
    /\ fabricated = [s \in Symbol |-> 0]
---------------------------------------------------------------------------
(* Locks, claims and the three ways a transaction ends *)

\* Mutant: the cycle does not take trade_cycle_lock.
NoTradeLock(p) == p \in Process
TradeLockFree(p) == tradeLock[p] = None

\* pg_advisory_xact_lock and the INSERT wait for a transaction that holds the
\* same key.
ClaimFree(t, k) == \A u \in Thread \ {t} : k \notin held[u]

\* ON CONFLICT DO NOTHING returned no row.
\* Mutants: the conflict is not noticed; only completed claims conflict.
NoConflict(k) == k \notin Key
ConflictIfCompleted(k) == k \in completed
AlreadyClaimed(k) == k \in claims

Goto(t, l) == pc' = [pc EXCEPT ![t] = l]

\* Mutant: the transaction is left open.
KeepRow(t) == UNCHANGED pfLock
ReleaseRow(t) == pfLock' = IF pfLock = t THEN None ELSE pfLock

\* The transaction is over: its row lock and advisory locks are gone.
EndTransaction(t, l) ==
    /\ Goto(t, l)
    /\ order' = [order EXCEPT ![t] = NoOrder]
    /\ held' = [held EXCEPT ![t] = {}]
    /\ ReleaseRow(t)
    /\ UNCHANGED <<phase, snap, todo, left, tradeLock>>

\* `return` inside `with connect()` commits: the claims inserted so far stay,
\* with status 'claimed', although nothing was executed.
Decline(t, l) ==
    /\ EndTransaction(t, l)
    /\ claims' = claims \cup held[t]
    /\ UNCHANGED <<completed, pos, lots, nextId, cooling, bought, sold,
                   trades, fabricated>>

\* An exception rolls everything back, the claims included.
Rollback(t, l) ==
    /\ EndTransaction(t, l)
    /\ UNCHANGED tables
---------------------------------------------------------------------------
(* The trading cycle *)

Acquire(t) ==
    /\ pc[t] = "idle"
    /\ TradeLockFree(ProcOf[t])
    /\ tradeLock' = [tradeLock EXCEPT ![ProcOf[t]] = t]
    /\ Goto(t, "cycle")
    /\ left' = [left EXCEPT ![t] = MaxSignals]
    /\ UNCHANGED <<phase, snap, todo, order, held, pfLock, tables>>

\* update_prices and risk_exits read all positions once and then visit them.
BeginPass(t) ==
    /\ pc[t] = "cycle" /\ phase[t] \in {"prices", "risk"}
    /\ snap' = [snap EXCEPT ![t] = pos]
    /\ todo' = [todo EXCEPT ![t] = OpenSymbols]
    /\ Goto(t, "pass")
    /\ UNCHANGED <<phase, order, left, locks, tables>>

\* A SELL signal reads the position it is about.
SellSignal(t, s) ==
    /\ pc[t] = "cycle" /\ phase[t] = "signals" /\ left[t] > 0
    /\ IsOpen(s)
    /\ snap' = [snap EXCEPT ![t] = pos]
    /\ todo' = [todo EXCEPT ![t] = {s}]
    /\ left' = [left EXCEPT ![t] = @ - 1]
    /\ Goto(t, "pass")
    /\ UNCHANGED <<phase, order, locks, tables>>

\* The rules for a visited position ask for its close.
DecideExit(t, s, q) ==
    /\ pc[t] = "pass" /\ s \in todo[t]
    /\ todo' = [todo EXCEPT ![t] = @ \ {s}]
    /\ order' = [order EXCEPT ![t] = Intent(s, q, FALSE)]
    /\ Goto(t, "claim")
    /\ UNCHANGED <<phase, snap, left, locks, tables>>

\* The other positions are left alone, and the next part of the cycle begins.
EndPass(t) ==
    /\ pc[t] = "pass"
    /\ phase' = [phase EXCEPT ![t] = After(@)]
    /\ snap' = [snap EXCEPT ![t] = NoPositions]
    /\ todo' = [todo EXCEPT ![t] = {}]
    /\ Goto(t, "cycle")
    /\ UNCHANGED <<order, left, locks, tables>>

EndCycle(t) ==
    /\ pc[t] = "cycle" /\ phase[t] = "signals"
    /\ tradeLock' = [tradeLock EXCEPT ![ProcOf[t]] = None]
    /\ phase' = [phase EXCEPT ![t] = "prices"]
    /\ left' = [left EXCEPT ![t] = 0]
    /\ Goto(t, "idle")
    /\ UNCHANGED <<snap, todo, order, held, pfLock, tables>>
---------------------------------------------------------------------------
(* Closing a position: _execute_close_position *)

CloseClaim(t) ==
    /\ pc[t] = "claim"
    /\ ClaimFree(t, CloseKey(t))
    /\ IF AlreadyClaimed(CloseKey(t))
       THEN Decline(t, "pass")
       ELSE /\ held' = [held EXCEPT ![t] = {CloseKey(t)}]
            /\ Goto(t, "lock")
            /\ UNCHANGED <<phase, snap, todo, order, left, tradeLock, pfLock,
                           tables>>

CloseLock(t) ==
    /\ pc[t] = "lock"
    /\ pfLock = None
    /\ pfLock' = t
    /\ Goto(t, "sell")
    /\ UNCHANGED <<phase, snap, todo, order, left, held, tradeLock, tables>>

\* The portfolio is missing or the risk gate refuses.
CloseDecline(t) == pc[t] = "sell" /\ Decline(t, "pass")

\* Lots are consumed up to the quantity sold.  Missing lots are made up from
\* the position the caller passed in: by a synthetic lot when there is none,
\* by the atomic repair when it is installed; otherwise the sale raises.
\* Mutants: lots are not consumed; are overdrawn; a made-up lot goes unwritten.
LotsUntouched(s, want) == lots[s]
LotsOverdrawn(s, want) == lots[s] - want
NothingMissing(s, want) == 0
CanSell(s, want) == lots[s] >= want \/ lots[s] = 0 \/ RepairLots
LotsAfter(s, want) == IF lots[s] >= want THEN lots[s] - want ELSE 0
Missing(s, want) == IF lots[s] >= want THEN 0 ELSE want - lots[s]

\* The quantity sold is the one that was read before the transaction began.
\* Mutant: one unit is sold although the whole row is deleted.
SellOneUnit(t) == 1
SaleQty(t) == snap[t][order[t].sym].qty

CloseCommit(t) ==
    LET s == order[t].sym IN
    /\ pc[t] = "sell"
    /\ CanSell(s, SaleQty(t))
    /\ pos' = [pos EXCEPT ![s] = Closed]
    /\ lots' = [lots EXCEPT ![s] = LotsAfter(s, SaleQty(t))]
    /\ fabricated' = [fabricated EXCEPT ![s] = @ + Missing(s, SaleQty(t))]
    /\ sold' = [sold EXCEPT ![s] = @ + SaleQty(t)]
    /\ trades' = trades + 1
    /\ cooling' = cooling \cup {s}
    /\ claims' = claims \cup held[t]
    /\ completed' = completed \cup {CloseKey(t)}
    /\ EndTransaction(t, "pass")
    /\ UNCHANGED <<nextId, bought>>

CloseRaise(t) ==
    /\ pc[t] = "sell" /\ ~ CanSell(order[t].sym, SaleQty(t))
    /\ Rollback(t, "pass")

\* The connection fails, or a statement or an attribution step raises.
CloseFail(t) == pc[t] \in {"claim", "lock", "sell"} /\ Rollback(t, "pass")
---------------------------------------------------------------------------
(* Opening a position: the BUY branch of process_signals, and _buy *)

\* existing_position is read before the cooldown and the limit are checked.
BuySignal(t, s, q) ==
    /\ pc[t] = "cycle" /\ phase[t] = "signals" /\ left[t] > 0
    /\ order' = [order EXCEPT ![t] = Intent(s, q, IsOpen(s))]
    /\ left' = [left EXCEPT ![t] = @ - 1]
    /\ Goto(t, "limit")
    /\ UNCHANGED <<phase, snap, todo, locks, tables>>

CoolingDown(s) == s \in cooling
\* Mutant: off by one.
AtMostLimit == Cardinality(OpenSymbols) <= MaxOpen
BelowLimit == Cardinality(OpenSymbols) < MaxOpen

\* When their query raises, recent_trade answers None and _open_position_count
\* answers 0: the failed read lets the purchase through.
SeemsCool(s) == ReadsFail \/ ~ CoolingDown(s)
SeemsBelowLimit == ReadsFail \/ BelowLimit

\* The reads that decide whether _buy is called at all, and whether it has to
\* rotate: none of them is made under a database lock.
RejectBuy(t) ==
    /\ pc[t] = "limit"
    /\ order' = [order EXCEPT ![t] = NoOrder]
    /\ Goto(t, "cycle")
    /\ UNCHANGED <<phase, snap, todo, left, locks, tables>>

AdmitBuy(t) ==
    /\ pc[t] = "limit"
    /\ SeemsCool(order[t].sym)
    /\ order[t].adding \/ SeemsBelowLimit
    /\ Goto(t, "buylock")
    /\ UNCHANGED <<phase, snap, todo, order, left, locks, tables>>

AdmitRotation(t, r, q) ==
    /\ pc[t] = "limit"
    /\ SeemsCool(order[t].sym)
    /\ ~ order[t].adding /\ ~ BelowLimit
    /\ IsOpen(r) /\ r # order[t].sym
    /\ order' = [order EXCEPT ![t].rot = r, ![t].rotQuote = q]
    /\ Goto(t, "buylock")
    /\ UNCHANGED <<phase, snap, todo, left, locks, tables>>

BuyLock(t) ==
    /\ pc[t] = "buylock"
    /\ pfLock = None
    /\ pfLock' = t
    /\ Goto(t, "buyclaim")
    /\ UNCHANGED <<phase, snap, todo, order, left, held, tradeLock, tables>>

BuyClaim(t) ==
    /\ pc[t] = "buyclaim"
    /\ ClaimFree(t, EntryKey(t))
    /\ IF AlreadyClaimed(EntryKey(t))
       THEN Decline(t, "cycle")
       ELSE /\ held' = [held EXCEPT ![t] = {EntryKey(t)}]
            /\ Goto(t, IF order[t].rot = None THEN "buy" ELSE "rotclaim")
            /\ UNCHANGED <<phase, snap, todo, order, left, tradeLock, pfLock,
                           tables>>

\* The positions are locked now: is the rotation candidate still open?
RotationOpen(t) == IsOpen(order[t].rot)

RotClaim(t) ==
    /\ pc[t] = "rotclaim"
    /\ RotationOpen(t)
    /\ ClaimFree(t, RotKey(t))
    /\ IF AlreadyClaimed(RotKey(t))
       THEN Decline(t, "cycle")
       ELSE /\ held' = [held EXCEPT ![t] = @ \cup {RotKey(t)}]
            /\ Goto(t, "buy")
            /\ UNCHANGED <<phase, snap, todo, order, left, tradeLock, pfLock,
                           tables>>

\* The candidate is gone, or a quote, sizing, safeguard or risk check refuses.
BuyDecline(t) == pc[t] \in {"rotclaim", "buy"} /\ Decline(t, "cycle")

\* The row a purchase leaves behind: the existing one, one unit larger, or a
\* new one.
Bought(s) == IF IsOpen(s) THEN [pos[s] EXCEPT !.qty = @ + 1]
                          ELSE [id |-> nextId, qty |-> 1]

BuyCommit(t) ==
    LET s == order[t].sym IN
    /\ pc[t] = "buy" /\ order[t].rot = None
    /\ nextId < MaxId /\ pos[s].qty < MaxQty
    /\ pos' = [pos EXCEPT ![s] = Bought(s)]
    /\ nextId' = IF IsOpen(s) THEN nextId ELSE nextId + 1
    /\ lots' = [lots EXCEPT ![s] = @ + 1]
    /\ bought' = [bought EXCEPT ![s] = @ + 1]
    /\ trades' = trades + 1
    /\ cooling' = cooling \cup {s}
    /\ claims' = claims \cup held[t]
    /\ completed' = completed \cup {EntryKey(t)}
    /\ EndTransaction(t, "cycle")
    /\ UNCHANGED <<sold, fabricated>>

\* The outgoing sale and the purchase are one transaction; the sale is of the
\* quantity in the locked position row.
RotateCommit(t) ==
    LET s == order[t].sym
        r == order[t].rot
        want == pos[r].qty
    IN
    /\ pc[t] = "buy" /\ r # None
    /\ nextId < MaxId /\ pos[s].qty < MaxQty
    /\ CanSell(r, want)
    /\ pos' = [pos EXCEPT ![r] = Closed, ![s] = Bought(s)]
    /\ nextId' = IF IsOpen(s) THEN nextId ELSE nextId + 1
    /\ lots' = [lots EXCEPT ![r] = LotsAfter(r, want), ![s] = @ + 1]
    /\ fabricated' = [fabricated EXCEPT ![r] = @ + Missing(r, want)]
    /\ bought' = [bought EXCEPT ![s] = @ + 1]
    /\ sold' = [sold EXCEPT ![r] = @ + want]
    /\ trades' = trades + 2
    /\ cooling' = cooling \cup {r, s}
    /\ claims' = claims \cup held[t]
    /\ completed' = completed \cup {RotKey(t), EntryKey(t)}
    /\ EndTransaction(t, "cycle")

BuyFail(t) ==
    pc[t] \in {"buylock", "buyclaim", "rotclaim", "buy"} /\ Rollback(t, "cycle")
---------------------------------------------------------------------------
(* The environment *)

\* A close holds a claim and waits for the portfolio row; a rotation holds the
\* portfolio row and waits for the same claim.  PostgreSQL cancels one of them.
Deadlocked(t, u) ==
    /\ pc[t] = "lock" /\ pfLock = u
    /\ pc[u] = "rotclaim" /\ RotationOpen(u) /\ RotKey(u) \in held[t]

DeadlockVictim(t, u) ==
    /\ Deadlocked(t, u)
    /\ Rollback(t, "pass") \/ Rollback(u, "cycle")

\* A worker is killed or redeployed: its connections close, its transactions
\* roll back, its threads start again from nothing.
Crash(p) ==
    LET mine == {t \in Thread : ProcOf[t] = p}
        Fresh(f, v) == [t \in Thread |-> IF t \in mine THEN v ELSE f[t]]
    IN
    /\ \E t \in mine : pc[t] # "idle"
    /\ pc' = Fresh(pc, "idle")
    /\ phase' = Fresh(phase, "prices")
    /\ snap' = Fresh(snap, NoPositions)
    /\ todo' = Fresh(todo, {})
    /\ order' = Fresh(order, NoOrder)
    /\ left' = Fresh(left, 0)
    /\ held' = Fresh(held, {})
    /\ tradeLock' = [tradeLock EXCEPT ![p] = None]
    /\ pfLock' = IF pfLock \in mine THEN None ELSE pfLock
    /\ UNCHANGED tables

CooldownExpires(s) ==
    /\ s \in cooling
    /\ cooling' = cooling \ {s}
    /\ UNCHANGED <<locals, locks, claims, completed, pos, lots, nextId,
                   bought, sold, trades, fabricated>>
---------------------------------------------------------------------------
Close(t) == CloseClaim(t) \/ CloseLock(t) \/ CloseDecline(t) \/ CloseCommit(t)
            \/ CloseRaise(t)

Open(t) == \/ RejectBuy(t) \/ AdmitBuy(t)
           \/ \E r \in Symbol, q \in Quote : AdmitRotation(t, r, q)
           \/ BuyLock(t) \/ BuyClaim(t) \/ RotClaim(t) \/ BuyDecline(t)
           \/ BuyCommit(t) \/ RotateCommit(t)

Cycle(t) == \/ BeginPass(t) \/ EndPass(t) \/ EndCycle(t)
            \/ \E s \in Symbol : SellSignal(t, s)
            \/ \E s \in Symbol, q \in Quote : DecideExit(t, s, q)
                                              \/ BuySignal(t, s, q)

Step(t) == Cycle(t) \/ Close(t) \/ Open(t)

Next == \/ \E t \in Thread : Acquire(t) \/ Step(t) \/ CloseFail(t) \/ BuyFail(t)
        \/ \E t, u \in Thread : DeadlockVictim(t, u)
        \/ \E p \in Process : Crash(p)
        \/ \E s \in Symbol : CooldownExpires(s)

Spec == Init /\ [][Next]_vars

\* Threads are scheduled, and PostgreSQL serves the waiters of a row or
\* advisory lock in turn, so a step that is possible again and again is taken;
\* the deadlock detector always runs.  Nothing makes a new cycle start, a
\* transaction fail, a process crash or a cooldown end.
Fairness == /\ \A t \in Thread : SF_vars(Step(t))
            /\ \A t, u \in Thread : WF_vars(DeadlockVictim(t, u))

FairSpec == Spec /\ Fairness
---------------------------------------------------------------------------
(* Properties of any number of processes *)

\* A claim key inserted by an open transaction is in nobody else's open
\* transaction and in no committed row (_try_execution_claim): two workers
\* that reach the same decision from the same quote cannot both act on it.
ClaimsExclusive ==
    \A t \in Thread :
        /\ held[t] \cap claims = {}
        /\ \A u \in Thread \ {t} : held[t] \cap held[u] = {}

\* What a thread's open transaction has inserted and locked, by where it is.
HeldOK(t) ==
    /\ pc[t] \in {"idle", "cycle", "pass", "claim", "limit", "buylock",
                  "buyclaim"} => held[t] = {}
    /\ pc[t] \in {"lock", "sell"} => held[t] = {CloseKey(t)}
    /\ pc[t] = "rotclaim" => held[t] = {EntryKey(t)}
    /\ pc[t] = "buy" => held[t] = IF order[t].rot = None THEN {EntryKey(t)}
                                  ELSE {EntryKey(t), RotKey(t)}
    /\ pfLock = t <=> pc[t] \in {"sell", "buyclaim", "rotclaim", "buy"}

\* Every row of trades has a completed claim of its own: no decision is
\* executed twice, whatever threads, crashes and retries do.
ExecutedOnce ==
    /\ completed \subseteq claims
    /\ trades = Cardinality(completed)

\* Every unit in a SELL row came out of a lot, and every lot came from a BUY
\* row or was made up by a sale (_record_sell_attribution, atomic repair).
LotLedgerBalances ==
    \A s \in Symbol : bought[s] + fabricated[s] = sold[s] + lots[s]

\* The inductive invariant behind the two properties of claims.
ClaimInv ==
    /\ TypeOK
    /\ \A t \in Thread : HeldOK(t)
    /\ ClaimsExclusive
    /\ ExecutedOnce
    /\ IsFiniteSet(completed)

\* A decision that was declined after its claim was inserted keeps the claim
\* as 'claimed' and is never executed later: retrying it is a duplicate.
DeclinedStaysDeclined ==
    [][\A k \in claims \ completed : k \notin completed']_vars

\* t waits for something u holds: the trade lock of their process, the portfolio
\* row, or a claim key.
WaitsFor(t, u) ==
    /\ t # u
    /\ \/ pc[t] = "idle" /\ tradeLock[ProcOf[t]] = u
       \/ pc[t] \in {"lock", "buylock"} /\ pfLock = u
       \/ pc[t] = "claim" /\ CloseKey(t) \in held[u]
       \/ pc[t] = "buyclaim" /\ EntryKey(t) \in held[u]
       \/ pc[t] = "rotclaim" /\ RotationOpen(t) /\ RotKey(t) \in held[u]

\* The order in which locks are taken.
Rank(l) == CASE l = "idle" -> 0
             [] l \in {"claim", "buylock"} -> 1
             [] l = "lock" -> 2
             [] l = "rotclaim" -> 3
             [] OTHER -> 4

\* Trade lock, portfolio row and claim keys are waited for in one order, so
\* that no cycle of waits arises, but for one pair: a close and a rotation of
\* the same position, which the database detects.  A cycle through the trade
\* lock, in particular, no database would see.
WaitsAreOrdered ==
    \A t, u \in Thread :
        WaitsFor(t, u) => Rank(pc[t]) < Rank(pc[u]) \/ Deadlocked(u, t)

\* A thread that took the trade lock gives it back: no wait for a row or
\* advisory lock, deadlock or crash of another worker keeps it forever.
CycleEnds == \A t \in Thread : pc[t] # "idle" ~> pc[t] = "idle"

\* "Never create a short/naked paper position" (paper_sell_execution_router.py):
\* no more of a symbol is sold than was bought.
NeverNaked == \A s \in Symbol : sold[s] <= bought[s]
---------------------------------------------------------------------------
(* Properties of a market traded by a single process *)

\* What was bought was sold or is still held: the position a thread read when
\* its pass began is still there, unchanged, when it is sold.
BooksBalance == \A s \in Symbol : bought[s] = sold[s] + pos[s].qty

\* The open lots of a symbol are exactly its position, so no sale ever has to
\* make one up.
LotsMatchPosition ==
    \A s \in Symbol : lots[s] = pos[s].qty /\ fabricated[s] = 0

\* Books that are out of balance have one cause, with any number of processes:
\* a close of a position that is no longer as it was read.  No purchase and no
\* rotation, which work on the locked rows, adds to it.
Stale(t) == snap[t][order[t].sym].qty # pos[order[t].sym].qty
OnlyStaleClosesUnbalance ==
    [][\A s \in Symbol :
        bought'[s] + sold[s] + pos[s].qty # bought[s] + sold'[s] + pos'[s].qty
        => \E t \in Thread : order[t].sym = s /\ Stale(t) /\ CloseCommit(t)]_vars

\* The limit process_signals checks long before the purchase, with no lock on
\* the tables, still holds when the purchase commits (provided the check is
\* made: see SeemsBelowLimit).
PositionLimit == Cardinality(OpenSymbols) <= MaxOpen
LimitKept == ReadsFail \/ PositionLimit

\* What a thread that holds the trade lock knows about the tables: the
\* positions it has still to visit or is closing are as it read them, and what
\* it decided about an entry still holds.
BookOK(t) ==
    /\ pc[t] # "idle" => tradeLock[ProcOf[t]] = t
    /\ pc[t] \notin {"pass", "claim", "lock", "sell"} => todo[t] = {}
    /\ \A s \in todo[t] : IsOpen(s) /\ snap[t][s] = pos[s]
    /\ pc[t] \in {"claim", "lock", "sell"} =>
          /\ IsOpen(order[t].sym) /\ order[t].sym \notin todo[t]
          /\ snap[t][order[t].sym] = pos[order[t].sym]
    /\ pc[t] \in {"limit", "buylock", "buyclaim", "rotclaim", "buy"} =>
          (order[t].adding <=> IsOpen(order[t].sym))
    /\ pc[t] = "limit" => order[t].rot = None
    /\ pc[t] \in {"buylock", "buyclaim", "rotclaim", "buy"} =>
          IF order[t].rot = None
          THEN order[t].adding \/ SeemsBelowLimit
          ELSE /\ ~ order[t].adding
               /\ order[t].rot # order[t].sym /\ IsOpen(order[t].rot)

\* The inductive invariant of a market with one process.
BookInv ==
    /\ TypeOK
    /\ \A t \in Thread : BookOK(t)
    /\ BooksBalance
    /\ LotsMatchPosition
    /\ LimitKept

\* The ledger implements the book it promises.
Book == INSTANCE TradeBook WITH holding <- [s \in Symbol |-> pos[s].qty]
BookSpec == Book!Spec
=============================================================================
