-------------------------- MODULE PaperLedgerProofs --------------------------
(***************************************************************************)
(* Proofs about PaperLedger for every number of processes, threads,        *)
(* symbols and quotes, and every bound.                                    *)
(***************************************************************************)
EXTENDS PaperLedger, FiniteSetTheorems, TLAPS

---------------------------------------------------------------------------
(* Type correctness *)

\* How a transaction ends keeps the types of everything it touches.
LEMMA EndTransactionType ==
    ASSUME TypeOK, NEW t \in Thread, NEW l \in PC, EndTransaction(t, l),
           l \in {"pass", "cycle"}
    PROVE  LocalsOK' /\ LocksOK' /\ OrderOK'
<1>1. NoOrder \in Order
  BY DEF NoOrder, Order
<1>2. LocalsOK'
  BY <1>1 DEF TypeOK, LocalsOK, EndTransaction, Goto
<1>3. LocksOK'
  BY DEF TypeOK, LocksOK, EndTransaction, ReleaseRow
<1>4. OrderOK'
  BY NoneAssumption
  DEF TypeOK, LocalsOK, OrderOK, EndTransaction, Goto, NoOrder, PC
<1>5. QED
  BY <1>2, <1>3, <1>4

LEMMA DeclineType ==
    ASSUME TypeOK, NEW t \in Thread, NEW l \in PC, Decline(t, l),
           l \in {"pass", "cycle"}
    PROVE  TypeOK'
<1>1. LocalsOK' /\ LocksOK' /\ OrderOK'
  BY EndTransactionType DEF Decline
<1>2. TablesOK'
  BY DEF TypeOK, TablesOK, LocksOK, Decline
<1>3. QED
  BY <1>1, <1>2 DEF TypeOK

LEMMA RollbackType ==
    ASSUME TypeOK, NEW t \in Thread, NEW l \in PC, Rollback(t, l),
           l \in {"pass", "cycle"}
    PROVE  TypeOK'
<1>1. LocalsOK' /\ LocksOK' /\ OrderOK'
  BY EndTransactionType DEF Rollback
<1>2. TablesOK'
  BY DEF TypeOK, TablesOK, Rollback, tables
<1>3. QED
  BY <1>1, <1>2 DEF TypeOK

LEMMA KeyType ==
    ASSUME TypeOK, NEW t \in Thread
    PROVE  /\ pc[t] \in {"claim", "lock", "sell"} => CloseKey(t) \in Key
           /\ pc[t] \in {"buyclaim", "rotclaim", "buy"} => EntryKey(t) \in Key
           /\ order[t].rot # None => RotKey(t) \in Key
<1>1. ASSUME NEW s \in Symbol, NEW q \in Quote, NEW id \in Nat
      PROVE  BuyKey(s, q) \in Key /\ SellKey(s, q, id) \in Key
  BY DEF BuyKey, SellKey, Key
<1>2. \A s \in Symbol : pos[s].id \in Nat /\ snap[t][s].id \in Nat
  BY DEF TypeOK, LocalsOK, TablesOK, Position
<1>3. pc[t] \in {"claim", "lock", "sell"} => CloseKey(t) \in Key
  BY <1>1, <1>2 DEF TypeOK, OrderOK, CloseKey
<1>4. pc[t] \in {"buyclaim", "rotclaim", "buy"} => EntryKey(t) \in Key
  BY <1>1 DEF TypeOK, OrderOK, EntryKey
<1>5. order[t].rot # None => RotKey(t) \in Key
  BY <1>1, <1>2 DEF TypeOK, OrderOK, RotKey
<1>6. QED
  BY <1>3, <1>4, <1>5

LEMMA CloseType ==
    ASSUME TypeOK, NEW t \in Thread, Close(t) \/ CloseFail(t)
    PROVE  TypeOK'
<1> USE DEF TypeOK
<1> "pass" \in PC /\ "lock" \in PC /\ "sell" \in PC
  BY DEF PC
<1>1. CASE CloseClaim(t)
  <2>1. CASE Decline(t, "pass")
    BY <2>1, DeclineType
  <2>2. CASE /\ held' = [held EXCEPT ![t] = {CloseKey(t)}]
             /\ Goto(t, "lock")
             /\ UNCHANGED <<phase, snap, todo, order, left, tradeLock, pfLock,
                            tables>>
    <3>1. CloseKey(t) \in Key
      BY <1>1, KeyType DEF CloseClaim
    <3>2. LocalsOK' /\ LocksOK' /\ TablesOK'
      BY <2>2, <3>1 DEF LocalsOK, LocksOK, TablesOK, Goto, tables
    <3>3. OrderOK'
      BY <1>1, <2>2 DEF CloseClaim, OrderOK, LocalsOK, Goto, tables
    <3>4. QED
      BY <3>2, <3>3
  <2>3. QED
    BY <1>1, <2>1, <2>2 DEF CloseClaim
<1>2. CASE CloseLock(t)
  <2>1. LocalsOK' /\ LocksOK' /\ TablesOK'
    BY <1>2 DEF CloseLock, LocalsOK, LocksOK, TablesOK, Goto, tables
  <2>2. OrderOK'
    BY <1>2 DEF CloseLock, OrderOK, LocalsOK, Goto, tables
  <2>3. QED
    BY <2>1, <2>2
<1>3. CASE CloseDecline(t)
  BY <1>3, DeclineType DEF CloseDecline
<1>4. CASE CloseCommit(t)
  <2>1. /\ pc[t] = "sell" /\ order[t].sym \in Symbol
        /\ EndTransaction(t, "pass") /\ CloseKey(t) \in Key
    BY <1>4, KeyType DEF CloseCommit, OrderOK
  <2>2. LocalsOK' /\ LocksOK' /\ OrderOK'
    BY <2>1, EndTransactionType
  <2>3. SaleQty(t) \in Nat
    BY <2>1 DEF SaleQty, LocalsOK, Position
  <2>4. \A s \in Symbol : /\ LotsAfter(s, SaleQty(t)) \in Nat
                          /\ Missing(s, SaleQty(t)) \in Nat
    BY <2>3 DEF LotsAfter, Missing, TablesOK
  <2>5. pos' \in [Symbol -> Position]
    BY <1>4, <2>1 DEF CloseCommit, TablesOK, Closed, Position
  <2>6. /\ lots' \in [Symbol -> Nat] /\ sold' \in [Symbol -> Nat]
        /\ fabricated' \in [Symbol -> Nat]
    BY <1>4, <2>1, <2>3, <2>4 DEF CloseCommit, TablesOK
  <2>7. TablesOK'
    BY <1>4, <2>1, <2>5, <2>6 DEF CloseCommit, TablesOK, LocksOK
  <2>8. QED
    BY <2>2, <2>7
<1>5. CASE CloseRaise(t)
  BY <1>5, RollbackType DEF CloseRaise
<1>6. CASE CloseFail(t)
  BY <1>6, RollbackType DEF CloseFail
<1>7. QED
  BY <1>1, <1>2, <1>3, <1>4, <1>5, <1>6 DEF Close

LEMMA OpenType ==
    ASSUME TypeOK, NEW t \in Thread, Open(t) \/ BuyFail(t)
    PROVE  TypeOK'
<1> USE DEF TypeOK
<1> "cycle" \in PC /\ "buylock" \in PC /\ "buyclaim" \in PC
    /\ "rotclaim" \in PC /\ "buy" \in PC
  BY DEF PC
<1>a. NoOrder \in Order /\ NoOrder.rot = None
  BY DEF NoOrder, Order
<1>1. CASE RejectBuy(t)
  <2>1. LocalsOK' /\ LocksOK' /\ TablesOK'
    BY <1>1, <1>a
    DEF RejectBuy, LocalsOK, LocksOK, TablesOK, Goto, locks, tables
  <2>2. OrderOK'
    BY <1>1, <1>a DEF RejectBuy, OrderOK, LocalsOK, Goto
  <2>3. QED
    BY <2>1, <2>2
<1>2. CASE AdmitBuy(t)
  <2>1. LocalsOK' /\ LocksOK' /\ TablesOK'
    BY <1>2 DEF AdmitBuy, LocalsOK, LocksOK, TablesOK, Goto, locks, tables
  <2>2. OrderOK'
    BY <1>2 DEF AdmitBuy, OrderOK, LocalsOK, Goto
  <2>3. QED
    BY <2>1, <2>2
<1>3. ASSUME NEW r \in Symbol, NEW q \in Quote, AdmitRotation(t, r, q)
      PROVE  TypeOK'
  <2>1. order' \in [Thread -> Order]
    BY <1>3 DEF AdmitRotation, LocalsOK, Order
  <2>2. LocalsOK' /\ LocksOK' /\ TablesOK'
    BY <1>3, <2>1
    DEF AdmitRotation, LocalsOK, LocksOK, TablesOK, Goto, locks, tables
  <2>3. \A u \in Thread :
           /\ order'[u].sym = order[u].sym /\ order'[u].quote = order[u].quote
           /\ u # t => order'[u] = order[u]
    BY <1>3 DEF AdmitRotation, LocalsOK, Order
  <2>4. order'[t].rot = r /\ order'[t].rotQuote = q
    BY <1>3 DEF AdmitRotation, LocalsOK, Order
  <2>5. OrderOK'
    BY <1>3, <2>3, <2>4 DEF AdmitRotation, OrderOK, LocalsOK, Goto
  <2>6. QED
    BY <2>2, <2>5
<1>4. CASE BuyLock(t)
  <2>1. LocalsOK' /\ LocksOK' /\ TablesOK'
    BY <1>4 DEF BuyLock, LocalsOK, LocksOK, TablesOK, Goto, tables
  <2>2. OrderOK'
    BY <1>4 DEF BuyLock, OrderOK, LocalsOK, Goto
  <2>3. QED
    BY <2>1, <2>2
<1>5. CASE BuyClaim(t)
  <2>1. CASE Decline(t, "cycle")
    BY <2>1, DeclineType
  <2>2. CASE /\ held' = [held EXCEPT ![t] = {EntryKey(t)}]
             /\ Goto(t, IF order[t].rot = None THEN "buy" ELSE "rotclaim")
             /\ UNCHANGED <<phase, snap, todo, order, left, tradeLock, pfLock,
                            tables>>
    <3>1. EntryKey(t) \in Key
      BY <1>5, KeyType DEF BuyClaim
    <3>2. LocalsOK' /\ LocksOK' /\ TablesOK'
      BY <2>2, <3>1 DEF LocalsOK, LocksOK, TablesOK, Goto, tables
    <3>3. OrderOK'
      BY <1>5, <2>2 DEF BuyClaim, OrderOK, LocalsOK, Goto
    <3>4. QED
      BY <3>2, <3>3
  <2>3. QED
    BY <1>5, <2>1, <2>2 DEF BuyClaim
<1>6. CASE RotClaim(t)
  <2>1. CASE Decline(t, "cycle")
    BY <2>1, DeclineType
  <2>2. CASE /\ held' = [held EXCEPT ![t] = @ \cup {RotKey(t)}]
             /\ Goto(t, "buy")
             /\ UNCHANGED <<phase, snap, todo, order, left, tradeLock, pfLock,
                            tables>>
    <3>1. RotKey(t) \in Key
      BY <1>6, KeyType DEF RotClaim, OrderOK
    <3>2. LocalsOK' /\ LocksOK' /\ TablesOK'
      BY <2>2, <3>1 DEF LocalsOK, LocksOK, TablesOK, Goto, tables
    <3>3. OrderOK'
      BY <1>6, <2>2 DEF RotClaim, OrderOK, LocalsOK, Goto
    <3>4. QED
      BY <3>2, <3>3
  <2>3. QED
    BY <1>6, <2>1, <2>2 DEF RotClaim
<1>7. CASE BuyDecline(t)
  BY <1>7, DeclineType DEF BuyDecline
<1>8. ASSUME NEW s \in Symbol PROVE Bought(s) \in Position
  BY DEF Bought, Position, TablesOK
<1>9. CASE BuyCommit(t)
  <2>1. /\ order[t].sym \in Symbol /\ EndTransaction(t, "cycle")
        /\ EntryKey(t) \in Key
    BY <1>9, KeyType DEF BuyCommit, OrderOK
  <2>2. LocalsOK' /\ LocksOK' /\ OrderOK'
    BY <2>1, EndTransactionType
  <2>3. pos' \in [Symbol -> Position]
    BY <1>9, <2>1, <1>8 DEF BuyCommit, TablesOK
  <2>4. TablesOK'
    BY <1>9, <2>1, <2>3 DEF BuyCommit, TablesOK, LocksOK
  <2>5. QED
    BY <2>2, <2>4
<1>10. CASE RotateCommit(t)
  <2>1. /\ order[t].sym \in Symbol /\ order[t].rot \in Symbol
        /\ EndTransaction(t, "cycle")
        /\ EntryKey(t) \in Key /\ RotKey(t) \in Key
    BY <1>10, KeyType DEF RotateCommit, OrderOK
  <2>2. LocalsOK' /\ LocksOK' /\ OrderOK'
    BY <2>1, EndTransactionType
  <2>3. pos' \in [Symbol -> Position]
    BY <1>10, <2>1, <1>8 DEF RotateCommit, TablesOK, Closed, Position
  <2>4. pos[order[t].rot].qty \in Nat
    BY <2>1 DEF TablesOK, Position
  <2>5. \A s \in Symbol : /\ LotsAfter(s, pos[order[t].rot].qty) \in Nat
                          /\ Missing(s, pos[order[t].rot].qty) \in Nat
    BY <2>4 DEF LotsAfter, Missing, TablesOK
  <2>6. /\ lots' \in [Symbol -> Nat] /\ sold' \in [Symbol -> Nat]
        /\ fabricated' \in [Symbol -> Nat] /\ bought' \in [Symbol -> Nat]
    BY <1>10, <2>1, <2>4, <2>5 DEF RotateCommit, TablesOK
  <2>7. TablesOK'
    BY <1>10, <2>1, <2>3, <2>6 DEF RotateCommit, TablesOK, LocksOK
  <2>8. QED
    BY <2>2, <2>7
<1>11. CASE BuyFail(t)
  BY <1>11, RollbackType DEF BuyFail
<1>12. QED
  BY <1>1, <1>2, <1>3, <1>4, <1>5, <1>6, <1>7, <1>9, <1>10, <1>11 DEF Open

LEMMA IntentType ==
    ASSUME NEW s \in Symbol, NEW q \in Quote, NEW a \in BOOLEAN
    PROVE  /\ Intent(s, q, a) \in Order
           /\ Intent(s, q, a).sym = s /\ Intent(s, q, a).quote = q
           /\ Intent(s, q, a).rot = None /\ Intent(s, q, a).adding = a
BY DEF Intent, NoOrder, Order

LEMMA CycleType ==
    ASSUME TypeOK, NEW t \in Thread, Cycle(t) \/ Acquire(t)
    PROVE  TypeOK'
<1> USE DEF TypeOK
<1> /\ "idle" \in PC /\ "cycle" \in PC /\ "pass" \in PC /\ "claim" \in PC
    /\ "limit" \in PC
  BY DEF PC
<1>a. NoPositions \in [Symbol -> Position] /\ OpenSymbols \in SUBSET Symbol
  BY DEF NoPositions, Closed, Position, OpenSymbols
<1>b. \A ph \in Phase : After(ph) \in Phase
  BY DEF After, Phase
<1>1. CASE Acquire(t)
  <2>1. LocalsOK' /\ LocksOK' /\ TablesOK'
    BY <1>1, BoundAssumption, ProcOfAssumption
    DEF Acquire, LocalsOK, LocksOK, TablesOK, Goto, tables
  <2>2. OrderOK'
    BY <1>1 DEF Acquire, OrderOK, LocalsOK, Goto
  <2>3. QED
    BY <2>1, <2>2
<1>2. CASE BeginPass(t)
  <2>1. LocalsOK' /\ LocksOK' /\ TablesOK'
    BY <1>2, <1>a DEF BeginPass, LocalsOK, LocksOK, TablesOK, Goto, locks, tables
  <2>2. OrderOK'
    BY <1>2 DEF BeginPass, OrderOK, LocalsOK, Goto
  <2>3. QED
    BY <2>1, <2>2
<1>3. CASE EndPass(t)
  <2>1. LocalsOK' /\ LocksOK' /\ TablesOK'
    BY <1>3, <1>a, <1>b
    DEF EndPass, LocalsOK, LocksOK, TablesOK, Goto, locks, tables
  <2>2. OrderOK'
    BY <1>3 DEF EndPass, OrderOK, LocalsOK, Goto
  <2>3. QED
    BY <2>1, <2>2
<1>4. CASE EndCycle(t)
  <2>1. LocalsOK' /\ LocksOK' /\ TablesOK'
    BY <1>4, ProcOfAssumption
    DEF EndCycle, LocalsOK, LocksOK, TablesOK, Goto, tables, Phase
  <2>2. OrderOK'
    BY <1>4 DEF EndCycle, OrderOK, LocalsOK, Goto
  <2>3. QED
    BY <2>1, <2>2
<1>5. ASSUME NEW s \in Symbol, SellSignal(t, s) PROVE TypeOK'
  <2>1. LocalsOK' /\ LocksOK' /\ TablesOK'
    BY <1>5 DEF SellSignal, LocalsOK, LocksOK, TablesOK, Goto, locks, tables
  <2>2. OrderOK'
    BY <1>5 DEF SellSignal, OrderOK, LocalsOK, Goto
  <2>3. QED
    BY <2>1, <2>2
<1>6. ASSUME NEW s \in Symbol, NEW q \in Quote, DecideExit(t, s, q)
      PROVE  TypeOK'
  <2>1. LocalsOK' /\ LocksOK' /\ TablesOK'
    BY <1>6, IntentType
    DEF DecideExit, LocalsOK, LocksOK, TablesOK, Goto, locks, tables
  <2>2. /\ order'[t].sym = s /\ order'[t].quote = q /\ order'[t].rot = None
        /\ \A u \in Thread \ {t} : order'[u] = order[u]
    BY <1>6, IntentType DEF DecideExit, LocalsOK
  <2>3. OrderOK'
    BY <1>6, <2>2 DEF DecideExit, OrderOK, LocalsOK, Goto
  <2>4. QED
    BY <2>1, <2>3
<1>7. ASSUME NEW s \in Symbol, NEW q \in Quote, BuySignal(t, s, q)
      PROVE  TypeOK'
  <2>1. IsOpen(s) \in BOOLEAN
    BY DEF IsOpen
  <2>2. LocalsOK' /\ LocksOK' /\ TablesOK'
    BY <1>7, <2>1, IntentType
    DEF BuySignal, LocalsOK, LocksOK, TablesOK, Goto, locks, tables
  <2>3. OrderOK'
    BY <1>7, <2>1, IntentType DEF BuySignal, OrderOK, LocalsOK, Goto
  <2>4. QED
    BY <2>2, <2>3
<1>8. QED
  BY <1>1, <1>2, <1>3, <1>4, <1>5, <1>6, <1>7 DEF Cycle

LEMMA CrashType ==
    ASSUME TypeOK, NEW p \in Process, Crash(p)
    PROVE  TypeOK'
<1>1. NoOrder \in Order /\ NoPositions \in [Symbol -> Position]
  BY DEF NoOrder, Order, NoPositions, Position, Closed
<1>2. "idle" \in PC /\ "prices" \in Phase
  BY DEF PC, Phase
<1>3. LocalsOK'
  BY <1>1, <1>2 DEF Crash, TypeOK, LocalsOK
<1>4. LocksOK' /\ TablesOK'
  BY DEF Crash, TypeOK, LocksOK, TablesOK, tables
<1>5. OrderOK'
  BY NoneAssumption DEF Crash, TypeOK, OrderOK, LocalsOK, NoOrder
<1>6. QED
  BY <1>3, <1>4, <1>5 DEF TypeOK

LEMMA TypeInit == Init => TypeOK
<1> SUFFICES ASSUME Init PROVE TypeOK
  OBVIOUS
<1>1. NoOrder \in Order /\ NoOrder.rot = None
      /\ NoPositions \in [Symbol -> Position]
  BY DEF NoOrder, Order, NoPositions, Position, Closed
<1>2. LocalsOK /\ LocksOK
  BY <1>1 DEF Init, LocalsOK, LocksOK, PC, Phase
<1>3. TablesOK /\ OrderOK
  BY <1>1 DEF Init, TablesOK, OrderOK
<1>4. QED
  BY <1>2, <1>3 DEF TypeOK

LEMMA TypeNext == TypeOK /\ [Next]_vars => TypeOK'
<1> SUFFICES ASSUME TypeOK, [Next]_vars PROVE TypeOK'
  OBVIOUS
<1>1. ASSUME NEW t \in Thread, Acquire(t) \/ Cycle(t) PROVE TypeOK'
  BY <1>1, CycleType
<1>2. ASSUME NEW t \in Thread, Close(t) \/ CloseFail(t) PROVE TypeOK'
  BY <1>2, CloseType
<1>3. ASSUME NEW t \in Thread, Open(t) \/ BuyFail(t) PROVE TypeOK'
  BY <1>3, OpenType
<1>4. ASSUME NEW t \in Thread, NEW u \in Thread, DeadlockVictim(t, u)
      PROVE  TypeOK'
  BY <1>4, RollbackType DEF DeadlockVictim, PC
<1>5. ASSUME NEW p \in Process, Crash(p) PROVE TypeOK'
  BY <1>5, CrashType
<1>6. ASSUME NEW s \in Symbol, CooldownExpires(s) PROVE TypeOK'
  BY <1>6 DEF CooldownExpires, TypeOK, LocalsOK, LocksOK, TablesOK, OrderOK,
              locals, locks
<1>7. CASE UNCHANGED vars
  BY <1>7 DEF vars, locals, locks, tables, TypeOK, LocalsOK, LocksOK,
              TablesOK, OrderOK
<1>8. QED
  BY <1>1, <1>2, <1>3, <1>4, <1>5, <1>6, <1>7 DEF Next, Step

\* The type invariant of the ledger: every variable keeps its type, and a
\* thread that executes an order knows the symbol and the quote of its claim.
THEOREM TypeCorrect == Spec => []TypeOK
BY TypeInit, TypeNext, PTL DEF Spec
---------------------------------------------------------------------------
(* Claims are exclusive, and every trade has one of its own *)

\* A step that leaves a thread and the rotation candidate it has locked alone
\* leaves what it holds in order.
LEMMA HeldFrame ==
    ASSUME NEW u \in Thread, HeldOK(u),
           pc'[u] = pc[u], order'[u] = order[u], snap'[u] = snap[u],
           held'[u] = held[u], pfLock' = u <=> pfLock = u,
           pos' = pos \/ pc[u] # "buy"
    PROVE  HeldOK(u)'
<1>1. CloseKey(u)' = CloseKey(u) /\ EntryKey(u)' = EntryKey(u)
  BY DEF CloseKey, EntryKey
<1>2. pos' = pos => RotKey(u)' = RotKey(u)
  BY DEF RotKey
<1>3. QED
  BY <1>1, <1>2 DEF HeldOK

\* Only the transaction that holds the portfolio row changes positions, so its
\* end leaves every other thread's claims in order.
LEMMA EndTransactionHeld ==
    ASSUME ClaimInv, NEW t \in Thread, NEW l \in {"pass", "cycle"},
           EndTransaction(t, l), pos' = pos \/ pfLock = t
    PROVE  \A u \in Thread : HeldOK(u)'
<1> USE DEF ClaimInv, TypeOK, LocalsOK, LocksOK
<1>1. HeldOK(t)'
  BY NoneAssumption DEF EndTransaction, Goto, ReleaseRow, HeldOK
<1>2. ASSUME NEW u \in Thread \ {t} PROVE HeldOK(u)'
  <2>1. pc'[u] = pc[u] /\ order'[u] = order[u] /\ snap'[u] = snap[u]
        /\ held'[u] = held[u]
    BY DEF EndTransaction, Goto
  <2>2. pfLock' = u <=> pfLock = u
    BY NoneAssumption DEF EndTransaction, ReleaseRow
  <2>3. pfLock = t => pc[u] # "buy"
    BY DEF HeldOK
  <2>4. QED
    BY <2>1, <2>2, <2>3, HeldFrame
<1>3. QED
  BY <1>1, <1>2

\* A transaction that ends by committing its claims, or by dropping them,
\* keeps claims exclusive.
LEMMA EndTransactionExclusive ==
    ASSUME ClaimInv, NEW t \in Thread, held' = [held EXCEPT ![t] = {}],
           claims' \in {claims, claims \cup held[t]}
    PROVE  ClaimsExclusive'
BY DEF ClaimInv, ClaimsExclusive, TypeOK, LocksOK

LEMMA DeclineClaims ==
    ASSUME ClaimInv, NEW t \in Thread, NEW l \in {"pass", "cycle"},
           Decline(t, l)
    PROVE  ClaimInv'
<1>1. TypeOK'
  BY DeclineType DEF ClaimInv, PC
<1>2. \A u \in Thread : HeldOK(u)'
  BY EndTransactionHeld DEF Decline
<1>3. ClaimsExclusive'
  BY EndTransactionExclusive DEF Decline, EndTransaction
<1>4. ExecutedOnce' /\ IsFiniteSet(completed')
  BY DEF ClaimInv, ExecutedOnce, Decline
<1>5. QED
  BY <1>1, <1>2, <1>3, <1>4 DEF ClaimInv

LEMMA RollbackClaims ==
    ASSUME ClaimInv, NEW t \in Thread, NEW l \in {"pass", "cycle"},
           Rollback(t, l)
    PROVE  ClaimInv'
<1>1. TypeOK'
  BY RollbackType DEF ClaimInv, PC
<1>2. \A u \in Thread : HeldOK(u)'
  BY EndTransactionHeld DEF Rollback, tables
<1>3. ClaimsExclusive'
  BY EndTransactionExclusive DEF Rollback, EndTransaction, tables
<1>4. ExecutedOnce' /\ IsFiniteSet(completed')
  BY DEF ClaimInv, ExecutedOnce, Rollback, tables
<1>5. QED
  BY <1>1, <1>2, <1>3, <1>4 DEF ClaimInv

\* The counting step: a key that is in no committed row is new to completed.
LEMMA CompleteOne ==
    ASSUME IsFiniteSet(completed), trades = Cardinality(completed),
           NEW k, k \notin completed
    PROVE  /\ IsFiniteSet(completed \cup {k})
           /\ trades + 1 = Cardinality(completed \cup {k})
BY FS_AddElement

LEMMA CompleteTwo ==
    ASSUME IsFiniteSet(completed), trades = Cardinality(completed),
           trades \in Nat,
           NEW k, NEW j, k \notin completed, j \notin completed, j # k
    PROVE  /\ IsFiniteSet(completed \cup {k, j})
           /\ trades + 2 = Cardinality(completed \cup {k, j})
<1>1. /\ IsFiniteSet(completed \cup {k})
      /\ Cardinality(completed \cup {k}) = trades + 1
  BY FS_AddElement
<1>2. j \notin completed \cup {k}
  OBVIOUS
<1>3. /\ IsFiniteSet((completed \cup {k}) \cup {j})
      /\ Cardinality((completed \cup {k}) \cup {j}) = trades + 1 + 1
  BY <1>1, <1>2, FS_AddElement
<1>4. (completed \cup {k}) \cup {j} = completed \cup {k, j}
  OBVIOUS
<1>5. trades + 1 + 1 = trades + 2
  OBVIOUS
<1>6. QED
  BY <1>3, <1>4, <1>5

\* Inserting a claim that nobody has inserted keeps claims exclusive.
LEMMA InsertExclusive ==
    ASSUME ClaimInv, NEW t \in Thread, NEW k, ClaimFree(t, k),
           ~ AlreadyClaimed(k), held' = [held EXCEPT ![t] = held[t] \cup {k}],
           claims' = claims
    PROVE  ClaimsExclusive'
BY DEF ClaimInv, ClaimsExclusive, ClaimFree, AlreadyClaimed, TypeOK, LocksOK

\* A step that touches neither claims nor trades, and of the threads only t.
LEMMA QuietStep ==
    ASSUME ClaimInv, TypeOK', NEW t \in Thread, HeldOK(t)',
           \A u \in Thread \ {t} :
               /\ pc'[u] = pc[u] /\ order'[u] = order[u] /\ snap'[u] = snap[u]
               /\ pfLock' = u <=> pfLock = u,
           held' = held, UNCHANGED tables
    PROVE  ClaimInv'
<1>1. \A u \in Thread : HeldOK(u)'
  BY HeldFrame DEF ClaimInv, tables
<1>2. ClaimsExclusive' /\ ExecutedOnce' /\ IsFiniteSet(completed')
  BY DEF ClaimInv, ClaimsExclusive, ExecutedOnce, tables
<1>3. QED
  BY <1>1, <1>2 DEF ClaimInv

LEMMA CloseClaims ==
    ASSUME ClaimInv, NEW t \in Thread, Close(t) \/ CloseFail(t)
    PROVE  ClaimInv'
<1>a. TypeOK' /\ TypeOK /\ HeldOK(t)
  BY CloseType DEF ClaimInv
<1>1. CASE CloseClaim(t)
  <2>1. CASE Decline(t, "pass")
    BY <2>1, DeclineClaims
  <2>2. CASE /\ ~ AlreadyClaimed(CloseKey(t))
             /\ held' = [held EXCEPT ![t] = {CloseKey(t)}]
             /\ Goto(t, "lock")
             /\ UNCHANGED <<phase, snap, todo, order, left, tradeLock, pfLock,
                            tables>>
    <3>1. held[t] = {} /\ pfLock # t
      BY <1>1, <1>a DEF CloseClaim, HeldOK
    <3>2. held' = [held EXCEPT ![t] = held[t] \cup {CloseKey(t)}]
      BY <2>2, <3>1
    <3>3. ClaimsExclusive'
      BY <1>1, <2>2, <3>2, InsertExclusive DEF CloseClaim, tables
    <3>4. HeldOK(t)'
      BY <1>a, <2>2, <3>1
      DEF HeldOK, Goto, CloseKey, TypeOK, LocalsOK, LocksOK
    <3>5. \A u \in Thread \ {t} : HeldOK(u)'
      BY <1>a, <2>2, HeldFrame
      DEF ClaimInv, Goto, TypeOK, LocalsOK, LocksOK, tables
    <3>6. ExecutedOnce' /\ IsFiniteSet(completed')
      BY <2>2 DEF ClaimInv, ExecutedOnce, tables
    <3>7. QED
      BY <1>a, <3>3, <3>4, <3>5, <3>6 DEF ClaimInv
  <2>3. QED
    BY <1>1, <2>1, <2>2 DEF CloseClaim
<1>2. CASE CloseLock(t)
  <2>1. HeldOK(t)'
    BY <1>2, <1>a
    DEF CloseLock, HeldOK, Goto, CloseKey, TypeOK, LocalsOK, LocksOK
  <2>2. \A u \in Thread \ {t} :
            /\ pc'[u] = pc[u] /\ order'[u] = order[u] /\ snap'[u] = snap[u]
            /\ pfLock' = u <=> pfLock = u
    BY <1>2, <1>a, NoneAssumption DEF CloseLock, Goto, TypeOK, LocalsOK
  <2>3. held' = held /\ UNCHANGED tables
    BY <1>2 DEF CloseLock
  <2>4. QED
    BY <1>a, <2>1, <2>2, <2>3, QuietStep
<1>3. CASE CloseDecline(t)
  BY <1>3, DeclineClaims DEF CloseDecline
<1>4. CASE CloseCommit(t)
  <2>1. /\ pc[t] = "sell" /\ EndTransaction(t, "pass")
        /\ claims' = claims \cup held[t]
        /\ completed' = completed \cup {CloseKey(t)} /\ trades' = trades + 1
    BY <1>4 DEF CloseCommit
  <2>2. held[t] = {CloseKey(t)} /\ pfLock = t
    BY <2>1, <1>a DEF HeldOK
  <2>3. \A u \in Thread : HeldOK(u)'
    BY <2>1, <2>2, EndTransactionHeld
  <2>4. ClaimsExclusive'
    BY <2>1, EndTransactionExclusive DEF EndTransaction
  <2>5. CloseKey(t) \notin completed
    BY <2>2 DEF ClaimInv, ClaimsExclusive, ExecutedOnce
  <2>6. IsFiniteSet(completed') /\ trades' = Cardinality(completed')
    BY <2>1, <2>5, CompleteOne DEF ClaimInv, ExecutedOnce
  <2>7. completed' \subseteq claims'
    BY <2>1, <2>2 DEF ClaimInv, ExecutedOnce
  <2>8. QED
    BY <1>a, <2>3, <2>4, <2>6, <2>7 DEF ClaimInv, ExecutedOnce
<1>5. CASE CloseRaise(t)
  BY <1>5, RollbackClaims DEF CloseRaise
<1>6. CASE CloseFail(t)
  BY <1>6, RollbackClaims DEF CloseFail
<1>7. QED
  BY <1>1, <1>2, <1>3, <1>4, <1>5, <1>6 DEF Close

LEMMA OpenClaims ==
    ASSUME ClaimInv, NEW t \in Thread, Open(t) \/ BuyFail(t)
    PROVE  ClaimInv'
<1>a. TypeOK' /\ TypeOK /\ HeldOK(t)
  BY OpenType DEF ClaimInv
<1> DEFINE Others == \A u \in Thread \ {t} :
               /\ pc'[u] = pc[u] /\ order'[u] = order[u] /\ snap'[u] = snap[u]
               /\ pfLock' = u <=> pfLock = u
<1>1. CASE RejectBuy(t) \/ AdmitBuy(t)
  <2>1. Others /\ held' = held /\ UNCHANGED tables
    BY <1>1, <1>a DEF RejectBuy, AdmitBuy, Goto, TypeOK, LocalsOK, locks, tables
  <2>2. HeldOK(t)'
    BY <1>1, <1>a
    DEF RejectBuy, AdmitBuy, HeldOK, Goto, TypeOK, LocalsOK, locks
  <2>3. QED
    BY <1>a, <2>1, <2>2, QuietStep
<1>2. ASSUME NEW r \in Symbol, NEW q \in Quote, AdmitRotation(t, r, q)
      PROVE  ClaimInv'
  <2>1. Others /\ held' = held /\ UNCHANGED tables
    BY <1>2, <1>a DEF AdmitRotation, Goto, TypeOK, LocalsOK, locks, tables
  <2>2. HeldOK(t)'
    BY <1>2, <1>a DEF AdmitRotation, HeldOK, Goto, TypeOK, LocalsOK, locks
  <2>3. QED
    BY <1>a, <2>1, <2>2, QuietStep
<1>3. CASE BuyLock(t)
  <2>1. Others /\ held' = held /\ UNCHANGED tables
    BY <1>3, <1>a, NoneAssumption DEF BuyLock, Goto, TypeOK, LocalsOK, tables
  <2>2. HeldOK(t)'
    BY <1>3, <1>a DEF BuyLock, HeldOK, Goto, TypeOK, LocalsOK
  <2>3. QED
    BY <1>a, <2>1, <2>2, QuietStep
<1>4. ASSUME NEW k, ClaimFree(t, k), ~ AlreadyClaimed(k),
             held' = [held EXCEPT ![t] = held[t] \cup {k}],
             NEW l, Goto(t, l), HeldOK(t)',
             UNCHANGED <<phase, snap, todo, order, left, tradeLock, pfLock,
                         tables>>
      PROVE  ClaimInv'
  <2>1. ClaimsExclusive'
    BY <1>4, InsertExclusive DEF tables
  <2>2. \A u \in Thread \ {t} : HeldOK(u)'
    BY <1>4, <1>a, HeldFrame
    DEF ClaimInv, Goto, TypeOK, LocalsOK, LocksOK, tables
  <2>3. ExecutedOnce' /\ IsFiniteSet(completed')
    BY <1>4 DEF ClaimInv, ExecutedOnce, tables
  <2>4. QED
    BY <1>4, <1>a, <2>1, <2>2, <2>3 DEF ClaimInv
<1>5. CASE BuyClaim(t)
  <2>1. CASE Decline(t, "cycle")
    BY <2>1, DeclineClaims
  <2>2. CASE /\ ~ AlreadyClaimed(EntryKey(t))
             /\ held' = [held EXCEPT ![t] = {EntryKey(t)}]
             /\ Goto(t, IF order[t].rot = None THEN "buy" ELSE "rotclaim")
             /\ UNCHANGED <<phase, snap, todo, order, left, tradeLock, pfLock,
                            tables>>
    <3>1. held[t] = {} /\ pfLock = t
      BY <1>5, <1>a DEF BuyClaim, HeldOK
    <3>2. held' = [held EXCEPT ![t] = held[t] \cup {EntryKey(t)}]
      BY <2>2, <3>1
    <3>3. HeldOK(t)'
      BY <1>a, <2>2, <3>1
      DEF HeldOK, Goto, EntryKey, TypeOK, LocalsOK, LocksOK
    <3>4. QED
      BY <1>4, <1>5, <2>2, <3>2, <3>3 DEF BuyClaim
  <2>3. QED
    BY <1>5, <2>1, <2>2 DEF BuyClaim
<1>6. CASE RotClaim(t)
  <2>1. CASE Decline(t, "cycle")
    BY <2>1, DeclineClaims
  <2>2. CASE /\ ~ AlreadyClaimed(RotKey(t))
             /\ held' = [held EXCEPT ![t] = @ \cup {RotKey(t)}]
             /\ Goto(t, "buy")
             /\ UNCHANGED <<phase, snap, todo, order, left, tradeLock, pfLock,
                            tables>>
    <3>1. held[t] = {EntryKey(t)} /\ pfLock = t /\ order[t].rot # None
      BY <1>6, <1>a DEF RotClaim, HeldOK, TypeOK, OrderOK
    <3>2. EntryKey(t)' = EntryKey(t) /\ RotKey(t)' = RotKey(t)
      BY <2>2 DEF EntryKey, RotKey, tables
    <3>3. held'[t] = {EntryKey(t), RotKey(t)}
      BY <2>2, <3>1, <1>a DEF TypeOK, LocksOK
    <3>4. HeldOK(t)'
      BY <1>a, <2>2, <3>1, <3>2, <3>3 DEF HeldOK, Goto, TypeOK, LocalsOK
    <3>5. QED
      BY <1>4, <1>6, <2>2, <3>4 DEF RotClaim
  <2>3. QED
    BY <1>6, <2>1, <2>2 DEF RotClaim
<1>7. CASE BuyDecline(t)
  BY <1>7, DeclineClaims DEF BuyDecline
<1>8. CASE BuyCommit(t)
  <2>1. /\ pc[t] = "buy" /\ EndTransaction(t, "cycle") /\ order[t].rot = None
        /\ claims' = claims \cup held[t]
        /\ completed' = completed \cup {EntryKey(t)} /\ trades' = trades + 1
    BY <1>8 DEF BuyCommit
  <2>2. held[t] = {EntryKey(t)} /\ pfLock = t
    BY <2>1, <1>a DEF HeldOK
  <2>3. \A u \in Thread : HeldOK(u)'
    BY <2>1, <2>2, EndTransactionHeld
  <2>4. ClaimsExclusive'
    BY <2>1, EndTransactionExclusive DEF EndTransaction
  <2>5. EntryKey(t) \notin completed
    BY <2>2 DEF ClaimInv, ClaimsExclusive, ExecutedOnce
  <2>6. IsFiniteSet(completed') /\ trades' = Cardinality(completed')
    BY <2>1, <2>5, CompleteOne DEF ClaimInv, ExecutedOnce
  <2>7. completed' \subseteq claims'
    BY <2>1, <2>2 DEF ClaimInv, ExecutedOnce
  <2>8. QED
    BY <1>a, <2>3, <2>4, <2>6, <2>7 DEF ClaimInv, ExecutedOnce
<1>9. CASE RotateCommit(t)
  <2>1. /\ pc[t] = "buy" /\ EndTransaction(t, "cycle") /\ order[t].rot # None
        /\ claims' = claims \cup held[t]
        /\ completed' = completed \cup {RotKey(t), EntryKey(t)}
        /\ trades' = trades + 2
    BY <1>9 DEF RotateCommit
  <2>2. held[t] = {EntryKey(t), RotKey(t)} /\ pfLock = t
    BY <2>1, <1>a DEF HeldOK
  <2>3. \A u \in Thread : HeldOK(u)'
    BY <2>1, <2>2, EndTransactionHeld
  <2>4. ClaimsExclusive'
    BY <2>1, EndTransactionExclusive DEF EndTransaction
  <2>5. RotKey(t) \notin completed /\ EntryKey(t) \notin completed
    BY <2>2 DEF ClaimInv, ClaimsExclusive, ExecutedOnce
  <2>6. RotKey(t) # EntryKey(t)
    BY DEF RotKey, EntryKey, SellKey, BuyKey
  <2>7. trades \in Nat
    BY <1>a DEF TypeOK, TablesOK
  <2>8. IsFiniteSet(completed') /\ trades' = Cardinality(completed')
    BY <2>1, <2>5, <2>6, <2>7, CompleteTwo DEF ClaimInv, ExecutedOnce
  <2>9. completed' \subseteq claims'
    BY <2>1, <2>2 DEF ClaimInv, ExecutedOnce
  <2>10. QED
    BY <1>a, <2>3, <2>4, <2>8, <2>9 DEF ClaimInv, ExecutedOnce
<1>10. CASE BuyFail(t)
  BY <1>10, RollbackClaims DEF BuyFail
<1>11. QED
  BY <1>1, <1>2, <1>3, <1>5, <1>6, <1>7, <1>8, <1>9, <1>10 DEF Open

LEMMA CycleClaims ==
    ASSUME ClaimInv, NEW t \in Thread, Cycle(t) \/ Acquire(t)
    PROVE  ClaimInv'
<1>a. TypeOK' /\ TypeOK /\ HeldOK(t)
  BY CycleType DEF ClaimInv
<1>1. held' = held /\ pfLock' = pfLock /\ UNCHANGED tables
  BY DEF Cycle, Acquire, BeginPass, EndPass, EndCycle, SellSignal, DecideExit,
         BuySignal, locks
<1>2. \A u \in Thread \ {t} :
          pc'[u] = pc[u] /\ order'[u] = order[u] /\ snap'[u] = snap[u]
  BY <1>a DEF Cycle, Acquire, BeginPass, EndPass, EndCycle, SellSignal,
              DecideExit, BuySignal, Goto, TypeOK, LocalsOK
<1>3. pc[t] \in {"idle", "cycle", "pass"}
      /\ pc'[t] \in {"idle", "cycle", "pass", "claim", "limit"}
  BY <1>a DEF Cycle, Acquire, BeginPass, EndPass, EndCycle, SellSignal,
              DecideExit, BuySignal, Goto, TypeOK, LocalsOK
<1>4. HeldOK(t)'
  BY <1>a, <1>1, <1>3 DEF HeldOK
<1>5. QED
  BY <1>a, <1>1, <1>2, <1>4, QuietStep

LEMMA CrashClaims ==
    ASSUME ClaimInv, NEW p \in Process, Crash(p)
    PROVE  ClaimInv'
<1>a. TypeOK' /\ TypeOK
  BY CrashType DEF ClaimInv
<1>1. ASSUME NEW u \in Thread, ProcOf[u] = p PROVE HeldOK(u)'
  <2>1. pc'[u] = "idle" /\ held'[u] = {} /\ pfLock' # u
    BY <1>1, NoneAssumption DEF Crash
  <2>2. QED
    BY <2>1 DEF HeldOK
<1>2. ASSUME NEW u \in Thread, ProcOf[u] # p PROVE HeldOK(u)'
  <2>1. /\ pc'[u] = pc[u] /\ order'[u] = order[u] /\ snap'[u] = snap[u]
        /\ held'[u] = held[u]
    BY <1>2 DEF Crash
  <2>2. pfLock' = u <=> pfLock = u
    BY <1>2, NoneAssumption DEF Crash
  <2>3. QED
    BY <2>1, <2>2, HeldFrame DEF ClaimInv, Crash, tables
<1>3. \A u \in Thread : held'[u] = {} \/ held'[u] = held[u]
  BY DEF Crash
<1>4. ClaimsExclusive' /\ ExecutedOnce' /\ IsFiniteSet(completed')
  BY <1>3 DEF ClaimInv, ClaimsExclusive, ExecutedOnce, Crash, tables
<1>5. QED
  BY <1>a, <1>1, <1>2, <1>4 DEF ClaimInv

LEMMA ClaimInit == Init => ClaimInv
<1> SUFFICES ASSUME Init PROVE ClaimInv
  OBVIOUS
<1>1. \A t \in Thread : HeldOK(t)
  BY NoneAssumption DEF Init, HeldOK
<1>2. ClaimsExclusive /\ ExecutedOnce /\ IsFiniteSet(completed)
  BY FS_EmptySet DEF Init, ClaimsExclusive, ExecutedOnce
<1>3. QED
  BY <1>1, <1>2, TypeInit DEF ClaimInv

LEMMA ClaimNext == ClaimInv /\ [Next]_vars => ClaimInv'
<1> SUFFICES ASSUME ClaimInv, [Next]_vars PROVE ClaimInv'
  OBVIOUS
<1>1. ASSUME NEW t \in Thread, Acquire(t) \/ Cycle(t) PROVE ClaimInv'
  BY <1>1, CycleClaims
<1>2. ASSUME NEW t \in Thread, Close(t) \/ CloseFail(t) PROVE ClaimInv'
  BY <1>2, CloseClaims
<1>3. ASSUME NEW t \in Thread, Open(t) \/ BuyFail(t) PROVE ClaimInv'
  BY <1>3, OpenClaims
<1>4. ASSUME NEW t \in Thread, NEW u \in Thread, DeadlockVictim(t, u)
      PROVE  ClaimInv'
  BY <1>4, RollbackClaims DEF DeadlockVictim
<1>5. ASSUME NEW p \in Process, Crash(p) PROVE ClaimInv'
  BY <1>5, CrashClaims
<1>6. CASE UNCHANGED <<locals, locks, claims, completed, pos, trades>>
  <2>1. TypeOK'
    BY TypeNext DEF ClaimInv
  <2>2. \A u \in Thread : HeldOK(u)'
    BY <1>6, HeldFrame DEF ClaimInv, locals, locks
  <2>3. ClaimsExclusive' /\ ExecutedOnce' /\ IsFiniteSet(completed')
    BY <1>6 DEF ClaimInv, ClaimsExclusive, ExecutedOnce, locks
  <2>4. QED
    BY <2>1, <2>2, <2>3 DEF ClaimInv
<1>7. (\E s \in Symbol : CooldownExpires(s)) \/ UNCHANGED vars
      => UNCHANGED <<locals, locks, claims, completed, pos, trades>>
  BY DEF CooldownExpires, vars, tables
<1>8. QED
  BY <1>1, <1>2, <1>3, <1>4, <1>5, <1>6, <1>7 DEF Next, Step

LEMMA ClaimInvariant == Spec => []ClaimInv
BY ClaimInit, ClaimNext, PTL DEF Spec

\* Whatever the number of processes, no two transactions hold the same claim
\* and none holds one that is committed.
THEOREM ClaimsStayExclusive == Spec => []ClaimsExclusive
<1>1. ClaimInv => ClaimsExclusive
  BY DEF ClaimInv
<1>2. QED
  BY <1>1, ClaimInvariant, PTL

\* Whatever the number of processes, and whatever fails, crashes or is
\* retried, the rows of trades and the completed claims are in one-to-one
\* correspondence.
THEOREM EveryDecisionExecutedOnce == Spec => []ExecutedOnce
<1>1. ClaimInv => ExecutedOnce
  BY DEF ClaimInv
<1>2. QED
  BY <1>1, ClaimInvariant, PTL

\* A claim that was committed without being executed is never executed.
THEOREM DeclinedIsFinal == Spec => DeclinedStaysDeclined
<1> DEFINE Stays == \A k \in claims \ completed : k \notin completed'
<1>1. ClaimInv /\ [Next]_vars => [Stays]_vars
  <2> SUFFICES ASSUME ClaimInv, Next, NEW k \in claims \ completed
               PROVE  k \notin completed'
    BY DEF vars
  <2>1. ASSUME NEW t \in Thread, CloseCommit(t) PROVE k \notin completed'
    <3>1. held[t] = {CloseKey(t)} /\ completed' = completed \cup {CloseKey(t)}
      BY <2>1 DEF CloseCommit, ClaimInv, HeldOK
    <3>2. QED
      BY <3>1 DEF ClaimInv, ClaimsExclusive
  <2>2. ASSUME NEW t \in Thread, BuyCommit(t) PROVE k \notin completed'
    <3>1. held[t] = {EntryKey(t)} /\ completed' = completed \cup {EntryKey(t)}
      BY <2>2 DEF BuyCommit, ClaimInv, HeldOK
    <3>2. QED
      BY <3>1 DEF ClaimInv, ClaimsExclusive
  <2>3. ASSUME NEW t \in Thread, RotateCommit(t) PROVE k \notin completed'
    <3>1. /\ held[t] = {EntryKey(t), RotKey(t)}
          /\ completed' = completed \cup {RotKey(t), EntryKey(t)}
      BY <2>3 DEF RotateCommit, ClaimInv, HeldOK
    <3>2. QED
      BY <3>1 DEF ClaimInv, ClaimsExclusive
  <2>4. CASE completed' = completed
    BY <2>4
  <2>5. ASSUME NEW t \in Thread,
               Acquire(t) \/ Cycle(t) \/ CloseClaim(t) \/ CloseLock(t)
               \/ CloseDecline(t) \/ CloseRaise(t) \/ CloseFail(t)
        PROVE  completed' = completed
    BY <2>5 DEF Acquire, Cycle, BeginPass, EndPass, EndCycle, SellSignal,
                DecideExit, BuySignal, CloseClaim, CloseLock, CloseDecline,
                CloseRaise, CloseFail, Decline, Rollback, tables
  <2>6. ASSUME NEW t \in Thread,
               RejectBuy(t) \/ AdmitBuy(t) \/ BuyLock(t) \/ BuyClaim(t)
               \/ RotClaim(t) \/ BuyDecline(t) \/ BuyFail(t)
               \/ \E r \in Symbol, q \in Quote : AdmitRotation(t, r, q)
        PROVE  completed' = completed
    BY <2>6 DEF RejectBuy, AdmitBuy, AdmitRotation, BuyLock, BuyClaim, RotClaim,
                BuyDecline, BuyFail, Decline, Rollback, tables
  <2>7. ASSUME \/ \E t, u \in Thread : DeadlockVictim(t, u)
               \/ \E p \in Process : Crash(p)
               \/ \E s \in Symbol : CooldownExpires(s)
        PROVE  completed' = completed
    BY <2>7 DEF DeadlockVictim, Crash, CooldownExpires, Rollback, tables
  <2>8. QED
    BY <2>1, <2>2, <2>3, <2>4, <2>5, <2>6, <2>7 DEF Next, Step, Close, Open
<1>2. QED
  BY <1>1, ClaimInvariant, PTL DEF Spec, DeclinedStaysDeclined
---------------------------------------------------------------------------
(* The order of the locks *)

\* trade_cycle_lock, for any processes: a thread in a cycle has its process's,
\* and a lock that is taken is taken by a thread of its process in a cycle.
TradeLockInv ==
    /\ \A t \in Thread : pc[t] # "idle" => tradeLock[ProcOf[t]] = t
    /\ \A p \in Process : tradeLock[p] # None =>
           pc[tradeLock[p]] # "idle" /\ ProcOf[tradeLock[p]] = p

\* Within a cycle the trade lock stays where it is.
LEMMA TradeLockFrame ==
    ASSUME TypeOK, TradeLockInv, NEW t \in Thread, NEW l \in PC \ {"idle"},
           pc[t] # "idle", Goto(t, l), tradeLock' = tradeLock
    PROVE  TradeLockInv'
BY DEF TypeOK, LocalsOK, LocksOK, TradeLockInv, Goto

LEMMA CycleTradeLock ==
    ASSUME TypeOK, TradeLockInv, NEW t \in Thread, Acquire(t) \/ Cycle(t)
    PROVE  TradeLockInv'
<1>a. ProcOf[t] \in Process /\ t # None
  BY ProcOfAssumption, NoneAssumption
<1>1. CASE Acquire(t)
  <2>1. /\ tradeLock' = [tradeLock EXCEPT ![ProcOf[t]] = t]
        /\ pc' = [pc EXCEPT ![t] = "cycle"]
        /\ pc[t] = "idle" /\ tradeLock[ProcOf[t]] = None
    BY <1>1 DEF Acquire, Goto, TradeLockFree
  <2>2. \A u \in Thread : pc'[u] # "idle" => tradeLock'[ProcOf[u]] = u
    BY <1>a, <2>1, NoneAssumption DEF TypeOK, LocalsOK, LocksOK, TradeLockInv
  <2>3. ASSUME NEW p \in Process, tradeLock'[p] # None
        PROVE  pc'[tradeLock'[p]] # "idle" /\ ProcOf[tradeLock'[p]] = p
    BY <1>a, <2>1, <2>3 DEF TypeOK, LocalsOK, LocksOK, TradeLockInv
  <2>4. QED
    BY <2>2, <2>3 DEF TradeLockInv
<1>2. CASE EndCycle(t)
  <2>1. /\ tradeLock' = [tradeLock EXCEPT ![ProcOf[t]] = None]
        /\ pc' = [pc EXCEPT ![t] = "idle"]
        /\ tradeLock[ProcOf[t]] = t
    BY <1>2 DEF EndCycle, Goto, TradeLockInv
  <2>2. \A u \in Thread : pc'[u] # "idle" => tradeLock'[ProcOf[u]] = u
    BY <1>a, <2>1 DEF TypeOK, LocalsOK, LocksOK, TradeLockInv
  <2>3. ASSUME NEW p \in Process, tradeLock'[p] # None
        PROVE  pc'[tradeLock'[p]] # "idle" /\ ProcOf[tradeLock'[p]] = p
    <3>1. tradeLock'[p] = tradeLock[p] /\ p # ProcOf[t]
      BY <1>a, <2>1, <2>3 DEF TypeOK, LocksOK
    <3>2. QED
      BY <2>1, <2>3, <3>1 DEF TypeOK, LocalsOK, LocksOK, TradeLockInv
  <2>4. QED
    BY <2>2, <2>3 DEF TradeLockInv
<1>3. CASE \/ BeginPass(t) \/ EndPass(t)
           \/ \E s \in Symbol : SellSignal(t, s)
           \/ \E s \in Symbol, q \in Quote : DecideExit(t, s, q) \/ BuySignal(t, s, q)
  <2>1. /\ tradeLock' = tradeLock /\ pc[t] # "idle"
        /\ \E l \in PC \ {"idle"} : Goto(t, l)
    BY <1>3 DEF BeginPass, EndPass, SellSignal, DecideExit, BuySignal, locks, PC
  <2>2. QED
    BY <2>1, TradeLockFrame
<1>4. QED
  BY <1>1, <1>2, <1>3 DEF Cycle

LEMMA TransactionTradeLock ==
    ASSUME TypeOK, TradeLockInv, NEW t \in Thread,
           Close(t) \/ CloseFail(t) \/ Open(t) \/ BuyFail(t)
    PROVE  TradeLockInv'
<1>1. CASE Close(t) \/ CloseFail(t)
  <2>1. /\ tradeLock' = tradeLock /\ pc[t] # "idle"
        /\ \E l \in PC \ {"idle"} : Goto(t, l)
    BY <1>1 DEF Close, CloseFail, CloseClaim, CloseLock, CloseDecline,
                CloseCommit, CloseRaise, Decline, Rollback, EndTransaction, PC
  <2>2. QED
    BY <2>1, TradeLockFrame
<1>2. CASE Open(t) \/ BuyFail(t)
  <2>1. /\ tradeLock' = tradeLock /\ pc[t] # "idle"
        /\ \E l \in PC \ {"idle"} : Goto(t, l)
    BY <1>2 DEF Open, BuyFail, RejectBuy, AdmitBuy, AdmitRotation, BuyLock,
                BuyClaim, RotClaim, BuyDecline, BuyCommit, RotateCommit,
                Decline, Rollback, EndTransaction, locks, PC
  <2>2. QED
    BY <2>1, TradeLockFrame
<1>3. QED
  BY <1>1, <1>2

LEMMA CrashTradeLock ==
    ASSUME TypeOK, TradeLockInv, NEW p \in Process, Crash(p)
    PROVE  TradeLockInv'
<1>1. /\ tradeLock' = [tradeLock EXCEPT ![p] = None]
      /\ \A u \in Thread : pc'[u] = IF ProcOf[u] = p THEN "idle" ELSE pc[u]
  BY DEF Crash
<1>2. \A u \in Thread : pc'[u] # "idle" => tradeLock'[ProcOf[u]] = u
  BY <1>1, ProcOfAssumption DEF TypeOK, LocksOK, TradeLockInv
<1>3. ASSUME NEW q \in Process, tradeLock'[q] # None
      PROVE  pc'[tradeLock'[q]] # "idle" /\ ProcOf[tradeLock'[q]] = q
  <2>1. q # p /\ tradeLock'[q] = tradeLock[q]
    BY <1>1, <1>3 DEF TypeOK, LocksOK
  <2>2. tradeLock[q] \in Thread
    BY <1>3, <2>1 DEF TypeOK, LocksOK
  <2>3. QED
    BY <1>1, <1>3, <2>1, <2>2 DEF TradeLockInv
<1>4. QED
  BY <1>2, <1>3 DEF TradeLockInv

LEMMA TradeLockNext == TypeOK /\ TradeLockInv /\ [Next]_vars => TradeLockInv'
<1> SUFFICES ASSUME TypeOK, TradeLockInv, [Next]_vars PROVE TradeLockInv'
  OBVIOUS
<1>1. ASSUME NEW t \in Thread, Acquire(t) \/ Step(t) \/ CloseFail(t) \/ BuyFail(t)
      PROVE  TradeLockInv'
  BY <1>1, CycleTradeLock, TransactionTradeLock DEF Step
<1>2. ASSUME NEW t \in Thread, NEW u \in Thread, DeadlockVictim(t, u)
      PROVE  TradeLockInv'
  <2>1. PICK v \in Thread, l \in PC \ {"idle"} :
            pc[v] # "idle" /\ Goto(v, l) /\ tradeLock' = tradeLock
    BY <1>2 DEF DeadlockVictim, Deadlocked, Rollback, EndTransaction, PC
  <2>2. QED
    BY <2>1, TradeLockFrame
<1>3. ASSUME NEW p \in Process, Crash(p) PROVE TradeLockInv'
  BY <1>3, CrashTradeLock
<1>4. CASE UNCHANGED vars \/ \E s \in Symbol : CooldownExpires(s)
  BY <1>4 DEF vars, CooldownExpires, locals, locks, TradeLockInv
<1>5. QED
  BY <1>1, <1>2, <1>3, <1>4 DEF Next

LEMMA TradeLockInvariant == Spec => []TradeLockInv
<1>1. Init => TradeLockInv
  BY DEF Init, TradeLockInv
<1>2. QED
  BY <1>1, TradeLockNext, TypeCorrect, PTL DEF Spec

\* Where the threads that hold something stand.
LEMMA Holders ==
    ASSUME ClaimInv, NEW u \in Thread
    PROVE  /\ pfLock = u => Rank(pc[u]) \in {3, 4}
           /\ \A k \in held[u] :
                  \/ pc[u] = "lock"
                  \/ pfLock = u /\ (k.side = "BUY" => pc[u] # "sell")
           /\ pc[u] = "lock" => \A k \in held[u] : k.side = "SELL"
           /\ held[u] # {} => Rank(pc[u]) >= 2
<1>1. HeldOK(u) /\ pc[u] \in PC
  BY DEF ClaimInv, TypeOK, LocalsOK
<1>2. CloseKey(u).side = "SELL" /\ EntryKey(u).side = "BUY" /\ RotKey(u).side = "SELL"
  BY DEF CloseKey, EntryKey, RotKey, SellKey, BuyKey
<1>3. QED
  BY <1>1, <1>2 DEF HeldOK, Rank, PC

LEMMA LocksInOrder ==
    ASSUME ClaimInv, TradeLockInv, NEW t \in Thread, NEW u \in Thread,
           WaitsFor(t, u)
    PROVE  Rank(pc[t]) < Rank(pc[u]) \/ Deadlocked(u, t)
<1>a. /\ t # u /\ pc[t] \in PC /\ pc[u] \in PC /\ HeldOK(t) /\ HeldOK(u)
      /\ ProcOf[t] \in Process
  BY ProcOfAssumption DEF WaitsFor, ClaimInv, TypeOK, LocalsOK
<1>1. CASE pc[t] = "idle" /\ tradeLock[ProcOf[t]] = u
  <2>1. pc[u] # "idle"
    BY <1>a, <1>1, NoneAssumption DEF TradeLockInv
  <2>2. QED
    BY <1>a, <1>1, <2>1 DEF Rank, PC
<1>2. CASE pc[t] \in {"lock", "buylock"} /\ pfLock = u
  BY <1>2, Holders DEF Rank
<1>3. CASE pc[t] = "claim" /\ CloseKey(t) \in held[u]
  <2>1. Rank(pc[u]) >= 2 /\ Rank(pc[t]) = 1
    BY <1>3, Holders DEF Rank
  <2>2. Rank(pc[u]) \in Nat
    BY DEF Rank
  <2>3. QED
    BY <2>1, <2>2
\* The portfolio row is locked first, so nobody else has a BUY key.
<1>4. CASE pc[t] = "buyclaim" /\ EntryKey(t) \in held[u]
  <2>1. pfLock = t /\ EntryKey(t).side = "BUY"
    BY <1>a, <1>4 DEF HeldOK, EntryKey, BuyKey
  <2>2. QED
    BY <1>a, <1>4, <2>1, Holders
\* The portfolio row is locked first, so it is a close that has the key.
<1>5. CASE pc[t] = "rotclaim" /\ RotationOpen(t) /\ RotKey(t) \in held[u]
  <2>1. pfLock = t
    BY <1>a, <1>5 DEF HeldOK
  <2>2. pc[u] = "lock"
    BY <1>a, <1>5, <2>1, Holders
  <2>3. QED
    BY <1>5, <2>1, <2>2 DEF Deadlocked
<1>6. QED
  BY <1>1, <1>2, <1>3, <1>4, <1>5 DEF WaitsFor

\* For any processes and threads: whoever waits for the trade lock, the
\* portfolio row or a claim waits for a thread that is further on, or is half
\* of the one deadlock there is, a close against a rotation of the same
\* position (_execute_close_position, _buy).  The deadlock detector of the
\* database is all that is needed, also between threads of several processes.
THEOREM LocksAreOrdered == Spec => []WaitsAreOrdered
<1>1. ClaimInv /\ TradeLockInv => WaitsAreOrdered
  BY LocksInOrder DEF WaitsAreOrdered
<1>2. QED
  BY <1>1, ClaimInvariant, TradeLockInvariant, PTL
=============================================================================
