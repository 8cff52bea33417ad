------------------------ MODULE PaperLedgerBookProofs ------------------------
(***************************************************************************)
(* Proofs about what PaperLedger keeps in its books: for any processes,    *)
(* that sales and lots balance; for a market traded by one process, that   *)
(* nothing is sold twice, that lots match positions, that the position     *)
(* limit holds, and that the ledger implements TradeBook.                  *)
(***************************************************************************)
EXTENDS PaperLedgerProofs

\* What the trades, lots and positions of the ledger are made of.
Books == <<pos, lots, bought, sold, fabricated>>

\* Only the three kinds of commit write them.
LEMMA OnlyCommitsWrite ==
    ASSUME Next,
           \A t \in Thread :
               ~ (CloseCommit(t) \/ BuyCommit(t) \/ RotateCommit(t))
    PROVE  UNCHANGED Books
<1> USE DEF Books, tables
<1>1. ASSUME NEW t \in Thread, Acquire(t) \/ Cycle(t) PROVE UNCHANGED Books
  BY <1>1 DEF Acquire, Cycle, BeginPass, EndPass, EndCycle, SellSignal,
              DecideExit, BuySignal
<1>2. ASSUME NEW t \in Thread, Close(t) \/ CloseFail(t) PROVE UNCHANGED Books
  BY <1>2 DEF Close, CloseClaim, CloseLock, CloseDecline, CloseRaise,
              CloseFail, Decline, Rollback
<1>3. ASSUME NEW t \in Thread, Open(t) \/ BuyFail(t) PROVE UNCHANGED Books
  BY <1>3 DEF Open, RejectBuy, AdmitBuy, AdmitRotation, BuyLock, BuyClaim,
              RotClaim, BuyDecline, BuyFail, Decline, Rollback
<1>4. ASSUME \/ \E t, u \in Thread : DeadlockVictim(t, u)
             \/ \E p \in Process : Crash(p)
             \/ \E s \in Symbol : CooldownExpires(s)
      PROVE  UNCHANGED Books
  BY <1>4 DEF DeadlockVictim, Crash, CooldownExpires, Rollback
<1>5. QED
  BY <1>1, <1>2, <1>3, <1>4 DEF Next, Step

\* Consuming a quantity from the lots and making up what is missing.
LEMMA LotArithmetic ==
    ASSUME TypeOK, NEW s \in Symbol, NEW want \in Nat
    PROVE  /\ LotsAfter(s, want) \in Nat /\ Missing(s, want) \in Nat
           /\ lots[s] + Missing(s, want) = want + LotsAfter(s, want)
           /\ lots[s] = want => LotsAfter(s, want) = 0 /\ Missing(s, want) = 0
BY DEF LotsAfter, Missing, TypeOK, TablesOK
---------------------------------------------------------------------------
(* Lots, for any number of processes *)

LEMMA LotNext ==
    TypeOK /\ LotLedgerBalances /\ [Next]_vars => LotLedgerBalances'
<1> SUFFICES ASSUME TypeOK, LotLedgerBalances, [Next]_vars
             PROVE  LotLedgerBalances'
  OBVIOUS
<1>a. /\ lots \in [Symbol -> Nat] /\ bought \in [Symbol -> Nat]
      /\ sold \in [Symbol -> Nat] /\ fabricated \in [Symbol -> Nat]
      /\ \A x \in Symbol : bought[x] + fabricated[x] = sold[x] + lots[x]
  BY DEF TypeOK, TablesOK, LotLedgerBalances
<1>1. ASSUME NEW t \in Thread, CloseCommit(t) PROVE LotLedgerBalances'
  <2> DEFINE s == order[t].sym
             want == SaleQty(t)
             after == LotsAfter(s, want)
             more == Missing(s, want)
  <2>1. s \in Symbol /\ want \in Nat
    BY <1>1 DEF CloseCommit, TypeOK, OrderOK, SaleQty, LocalsOK, Position
  <2>2. after \in Nat /\ more \in Nat /\ lots[s] + more = want + after
    BY <2>1, LotArithmetic
  <2>3. /\ lots' = [lots EXCEPT ![s] = after]
        /\ fabricated' = [fabricated EXCEPT ![s] = @ + more]
        /\ sold' = [sold EXCEPT ![s] = @ + want]
        /\ bought' = bought
    BY <1>1 DEF CloseCommit
  <2> HIDE DEF s, want, after, more
  <2>4. ASSUME NEW x \in Symbol
        PROVE  bought'[x] + fabricated'[x] = sold'[x] + lots'[x]
    <3>1. CASE x = s
      BY <1>a, <2>1, <2>2, <2>3, <3>1
    <3>2. CASE x # s
      BY <1>a, <2>3, <3>2
    <3>3. QED
      BY <3>1, <3>2
  <2>5. QED
    BY <2>4 DEF LotLedgerBalances
<1>2. ASSUME NEW t \in Thread, BuyCommit(t) PROVE LotLedgerBalances'
  <2>1. /\ lots' = [lots EXCEPT ![order[t].sym] = @ + 1]
        /\ bought' = [bought EXCEPT ![order[t].sym] = @ + 1]
        /\ sold' = sold /\ fabricated' = fabricated
    BY <1>2 DEF BuyCommit
  <2>2. ASSUME NEW x \in Symbol
        PROVE  bought'[x] + fabricated'[x] = sold'[x] + lots'[x]
    BY <1>a, <2>1
  <2>3. QED
    BY <2>2 DEF LotLedgerBalances
<1>3. ASSUME NEW t \in Thread, RotateCommit(t) PROVE LotLedgerBalances'
  <2> DEFINE s == order[t].sym
             r == order[t].rot
             want == pos[r].qty
             after == LotsAfter(r, want)
             more == Missing(r, want)
  <2>1. s \in Symbol /\ r \in Symbol /\ want \in Nat /\ r # s
    BY <1>3 DEF RotateCommit, TypeOK, TablesOK, OrderOK, Position
  <2>2. after \in Nat /\ more \in Nat /\ lots[r] + more = want + after
    BY <2>1, LotArithmetic
  <2>3. /\ lots' = [lots EXCEPT ![r] = after, ![s] = @ + 1]
        /\ fabricated' = [fabricated EXCEPT ![r] = @ + more]
        /\ bought' = [bought EXCEPT ![s] = @ + 1]
        /\ sold' = [sold EXCEPT ![r] = @ + want]
    BY <1>3 DEF RotateCommit
  <2> HIDE DEF s, r, want, after, more
  <2>4. ASSUME NEW x \in Symbol
        PROVE  bought'[x] + fabricated'[x] = sold'[x] + lots'[x]
    <3>1. CASE x = r
      BY <1>a, <2>1, <2>2, <2>3, <3>1
    <3>2. CASE x = s
      BY <1>a, <2>1, <2>3, <3>2
    <3>3. CASE x # r /\ x # s
      BY <1>a, <2>3, <3>3
    <3>4. QED
      BY <3>1, <3>2, <3>3
  <2>5. QED
    BY <2>4 DEF LotLedgerBalances
<1>4. CASE UNCHANGED Books
  BY <1>4 DEF Books, LotLedgerBalances
<1>5. CASE UNCHANGED vars
  BY <1>5 DEF vars, tables, LotLedgerBalances
<1>6. QED
  BY <1>1, <1>2, <1>3, <1>4, <1>5, OnlyCommitsWrite

\* Every unit in a SELL row was taken from a lot, and every lot was bought or
\* is on record as made up: for any processes, with or without lot repair.
THEOREM LotsBalance == Spec => []LotLedgerBalances
<1>1. Init => LotLedgerBalances
  BY DEF Init, LotLedgerBalances
<1>2. QED
  BY <1>1, LotNext, TypeCorrect, PTL DEF Spec
---------------------------------------------------------------------------
(* Books out of balance, for any number of processes *)

\* What a step adds to one side of the books of s only.
Unbalances(s) ==
    bought'[s] + sold[s] + pos[s].qty # bought[s] + sold'[s] + pos'[s].qty

LEMMA PurchaseBalances ==
    ASSUME TypeOK, NEW t \in Thread, BuyCommit(t) \/ RotateCommit(t),
           NEW x \in Symbol
    PROVE  ~ Unbalances(x)
<1> DEFINE s == order[t].sym
           r == order[t].rot
<1>a. /\ pos \in [Symbol -> Position] /\ pos[x].qty \in Nat
      /\ bought \in [Symbol -> Nat] /\ sold \in [Symbol -> Nat]
      /\ bought[x] \in Nat /\ sold[x] \in Nat
  BY DEF TypeOK, TablesOK, Position
<1>b. Bought(s).qty = (IF IsOpen(s) THEN pos[s].qty + 1 ELSE 1)
  BY DEF Bought, TypeOK, TablesOK, Position
<1>c. s \in Symbol /\ pos[s].qty \in Nat /\ (~ IsOpen(s) => pos[s].qty = 0)
  BY DEF BuyCommit, RotateCommit, TypeOK, OrderOK, TablesOK, Position, IsOpen
<1>1. CASE BuyCommit(t)
  <2>1. /\ pos' = [pos EXCEPT ![s] = Bought(s)]
        /\ bought' = [bought EXCEPT ![s] = @ + 1] /\ sold' = sold
    BY <1>1 DEF BuyCommit
  <2> HIDE DEF s
  <2>2. CASE x = s
    BY <1>a, <1>b, <1>c, <2>1, <2>2 DEF Unbalances
  <2>3. CASE x # s
    BY <1>a, <2>1, <2>3 DEF Unbalances
  <2>4. QED
    BY <2>2, <2>3
<1>2. CASE RotateCommit(t)
  <2>1. /\ pos' = [pos EXCEPT ![r] = Closed, ![s] = Bought(s)]
        /\ bought' = [bought EXCEPT ![s] = @ + 1]
        /\ sold' = [sold EXCEPT ![r] = @ + pos[r].qty]
        /\ r \in Symbol /\ r # s
    BY <1>2 DEF RotateCommit, TypeOK, OrderOK
  <2> HIDE DEF s, r
  <2>2. CASE x = s
    BY <1>a, <1>b, <1>c, <2>1, <2>2 DEF Unbalances
  <2>3. CASE x = r
    BY <1>a, <2>1, <2>3 DEF Unbalances, Closed
  <2>4. CASE x # s /\ x # r
    BY <1>a, <2>1, <2>4 DEF Unbalances
  <2>5. QED
    BY <2>2, <2>3, <2>4
<1>3. QED
  BY <1>1, <1>2

LEMMA FreshCloseBalances ==
    ASSUME TypeOK, NEW t \in Thread, CloseCommit(t), NEW x \in Symbol,
           Unbalances(x)
    PROVE  order[t].sym = x /\ Stale(t)
<1> DEFINE s == order[t].sym
<1>a. /\ pos \in [Symbol -> Position] /\ pos[x].qty \in Nat
      /\ bought[x] \in Nat /\ sold \in [Symbol -> Nat] /\ sold[x] \in Nat
  BY DEF TypeOK, TablesOK, Position
<1>b. s \in Symbol
  BY DEF TypeOK, OrderOK, CloseCommit
<1>c. snap[t][s].qty \in Nat
  BY <1>b DEF TypeOK, LocalsOK, Position
<1>1. /\ pos' = [pos EXCEPT ![s] = Closed] /\ bought' = bought
      /\ sold' = [sold EXCEPT ![s] = @ + snap[t][s].qty]
  BY DEF CloseCommit, SaleQty
<1> HIDE DEF s
<1>2. x = s
  BY <1>a, <1>b, <1>1 DEF Unbalances
<1>3. snap[t][s].qty # pos[s].qty
  BY <1>a, <1>c, <1>1, <1>2 DEF Unbalances, Closed
<1>4. QED
  BY <1>2, <1>3 DEF Stale, s

\* Whatever the processes interleave, a sale of more than there is has one
\* cause: _execute_close_position sells the quantity its pass has read, and
\* the position has changed since.  Purchases, and rotations that sell the
\* locked row (_buy), keep the books in balance without any help.
THEOREM OneCauseOfImbalance == Spec => OnlyStaleClosesUnbalance
<1> DEFINE Cause ==
        \A s \in Symbol : Unbalances(s) =>
            \E t \in Thread : order[t].sym = s /\ Stale(t) /\ CloseCommit(t)
<1>1. TypeOK /\ [Next]_vars => [Cause]_vars
  <2> SUFFICES ASSUME TypeOK, Next, NEW s \in Symbol, Unbalances(s)
               PROVE  \E t \in Thread :
                          order[t].sym = s /\ Stale(t) /\ CloseCommit(t)
    OBVIOUS
  <2>1. CASE UNCHANGED Books
    <3>1. bought[s] + sold[s] + pos[s].qty = bought[s] + sold[s] + pos[s].qty
      OBVIOUS
    <3>2. QED
      BY <2>1, <3>1 DEF Books, Unbalances
  <2>2. CASE \E t \in Thread : BuyCommit(t) \/ RotateCommit(t)
    BY <2>2, PurchaseBalances
  <2>3. CASE \E t \in Thread : CloseCommit(t)
    BY <2>3, FreshCloseBalances
  <2>4. QED
    BY <2>1, <2>2, <2>3, OnlyCommitsWrite
<1>2. QED
  BY <1>1, TypeCorrect, PTL DEF Spec, OnlyStaleClosesUnbalance, Unbalances
---------------------------------------------------------------------------
(* One process *)

OneProcess == \A t, u \in Thread : ProcOf[t] = ProcOf[u]

Quiet(u) == pc[u] = "idle" /\ todo[u] = {}

\* The trade lock leaves every other thread idle.
LEMMA OthersQuiet ==
    ASSUME OneProcess, BookInv, NEW t \in Thread,
           pc[t] # "idle" \/ TradeLockFree(ProcOf[t])
    PROVE  \A u \in Thread \ {t} : Quiet(u)
BY NoneAssumption DEF OneProcess, BookInv, BookOK, Quiet, TradeLockFree

\* A step in which t alone moves, none of t's reads is outdated and the other
\* threads stay idle.
LEMMA BookFrame ==
    ASSUME BookInv, TypeOK', NEW t \in Thread, BookOK(t)',
           \A u \in Thread \ {t} : Quiet(u),
           \A u \in Thread \ {t} : pc'[u] = pc[u] /\ todo'[u] = todo[u],
           BooksBalance', LotsMatchPosition', LimitKept'
    PROVE  BookInv'
<1>1. \A u \in Thread \ {t} : BookOK(u)'
  BY DEF Quiet, BookOK
<1>2. QED
  BY <1>1 DEF BookInv

LEMMA SameBooks ==
    ASSUME BookInv, UNCHANGED Books
    PROVE  /\ BooksBalance' /\ LotsMatchPosition' /\ LimitKept'
           /\ \A s \in Symbol : IsOpen(s)' <=> IsOpen(s)
           /\ OpenSymbols' = OpenSymbols /\ SeemsBelowLimit' = SeemsBelowLimit
BY DEF BookInv, Books, BooksBalance, LotsMatchPosition, LimitKept,
       PositionLimit, IsOpen, OpenSymbols, SeemsBelowLimit, BelowLimit

\* The end of a transaction leaves its thread in the cycle, or in the pass
\* with the positions it has still to visit.
LEMMA EndTransactionBook ==
    ASSUME BookInv, NEW t \in Thread, NEW l \in {"pass", "cycle"},
           EndTransaction(t, l), pc[t] # "idle",
           l = "cycle" => todo[t] = {},
           \A s \in todo[t] : pos'[s] = pos[s]
    PROVE  /\ BookOK(t)'
           /\ \A u \in Thread \ {t} : pc'[u] = pc[u] /\ todo'[u] = todo[u]
<1>1. /\ pc'[t] = l /\ order'[t] = NoOrder /\ todo' = todo /\ snap' = snap
      /\ tradeLock' = tradeLock
      /\ \A u \in Thread \ {t} : pc'[u] = pc[u]
  BY DEF EndTransaction, Goto, BookInv, TypeOK, LocalsOK
<1>2. BookOK(t)'
  BY <1>1 DEF BookInv, BookOK, IsOpen, TypeOK, LocalsOK
<1>3. QED
  BY <1>1, <1>2

LEMMA CleanEndBook ==
    ASSUME OneProcess, BookInv, TypeOK', NEW t \in Thread,
           \/ pc[t] \in {"claim", "lock", "sell"}
              /\ (Decline(t, "pass") \/ Rollback(t, "pass"))
           \/ pc[t] \in {"buylock", "buyclaim", "rotclaim", "buy"}
              /\ (Decline(t, "cycle") \/ Rollback(t, "cycle"))
    PROVE  BookInv'
<1>1. UNCHANGED Books /\ pc[t] # "idle"
  BY DEF Decline, Rollback, Books, tables
<1>2. PICK l \in {"pass", "cycle"} :
          EndTransaction(t, l) /\ (l = "cycle" => todo[t] = {})
  BY DEF Decline, Rollback, BookInv, BookOK
<1>3. /\ BookOK(t)'
      /\ \A u \in Thread \ {t} : pc'[u] = pc[u] /\ todo'[u] = todo[u]
  BY <1>1, <1>2, EndTransactionBook DEF Books
<1>4. QED
  BY <1>1, <1>3, SameBooks, OthersQuiet, BookFrame

\* How opening, closing or swapping a symbol changes the number held.
LEMMA CountOpen ==
          /\ IsFiniteSet(OpenSymbols) /\ Cardinality(OpenSymbols) \in Nat
          /\ \A s \in OpenSymbols :
                Cardinality(OpenSymbols \ {s}) = Cardinality(OpenSymbols) - 1
          /\ \A s \in Symbol \ OpenSymbols :
                Cardinality(OpenSymbols \cup {s}) = Cardinality(OpenSymbols) + 1
          /\ \A r \in OpenSymbols, s \in Symbol \ OpenSymbols :
                Cardinality((OpenSymbols \ {r}) \cup {s})
                  = Cardinality(OpenSymbols)
<1>1. IsFiniteSet(OpenSymbols)
  BY SymbolAssumption, FS_Subset DEF OpenSymbols
<1>2. Cardinality(OpenSymbols) \in Nat
  BY <1>1, FS_CardinalityType
<1>3. ASSUME NEW r \in OpenSymbols
      PROVE  /\ IsFiniteSet(OpenSymbols \ {r})
             /\ Cardinality(OpenSymbols \ {r}) = Cardinality(OpenSymbols) - 1
  BY <1>1, FS_RemoveElement
<1>4. ASSUME NEW s \in Symbol \ OpenSymbols
      PROVE  Cardinality(OpenSymbols \cup {s}) = Cardinality(OpenSymbols) + 1
  BY <1>1, FS_AddElement
<1>5. ASSUME NEW r \in OpenSymbols, NEW s \in Symbol \ OpenSymbols
      PROVE  Cardinality((OpenSymbols \ {r}) \cup {s}) = Cardinality(OpenSymbols)
  <2>1. s \notin OpenSymbols \ {r}
    BY <1>5
  <2>2. Cardinality((OpenSymbols \ {r}) \cup {s})
          = Cardinality(OpenSymbols \ {r}) + 1
    BY <1>3, <2>1, FS_AddElement
  <2>3. QED
    BY <1>2, <1>3, <2>2
<1>6. QED
  BY <1>1, <1>2, <1>3, <1>4, <1>5

LEMMA HeldIsOpen == Book!Held = OpenSymbols /\ Book!Held' = OpenSymbols'
BY DEF Book!Held, OpenSymbols, IsOpen

\* Selling a position sells all of it, from lots that are all there.
LEMMA CloseCommitBooks ==
    ASSUME BookInv, NEW t \in Thread, CloseCommit(t)
    PROVE  /\ BooksBalance' /\ LotsMatchPosition' /\ LimitKept'
           /\ Book!Sell(order[t].sym)
<1> DEFINE s == order[t].sym
<1>1. /\ s \in Symbol /\ IsOpen(s) /\ SaleQty(t) = pos[s].qty
      /\ pc[t] = "sell"
  BY DEF CloseCommit, BookInv, BookOK, TypeOK, OrderOK, SaleQty
<1>2. pos \in [Symbol -> Position] /\ pos[s].qty \in Nat
  BY <1>1 DEF BookInv, TypeOK, TablesOK, Position
<1>3. LotsAfter(s, SaleQty(t)) = 0 /\ Missing(s, SaleQty(t)) = 0
  BY <1>1, <1>2, LotArithmetic DEF BookInv, LotsMatchPosition
<1>4. /\ pos' = [pos EXCEPT ![s] = Closed]
      /\ lots' = [lots EXCEPT ![s] = 0]
      /\ fabricated' = [fabricated EXCEPT ![s] = @ + 0]
      /\ sold' = [sold EXCEPT ![s] = @ + pos[s].qty]
      /\ bought' = bought
  BY <1>1, <1>3 DEF CloseCommit
<1>5. /\ lots \in [Symbol -> Nat] /\ bought \in [Symbol -> Nat]
      /\ sold \in [Symbol -> Nat] /\ fabricated \in [Symbol -> Nat]
  BY DEF BookInv, TypeOK, TablesOK
<1> HIDE DEF s
<1>6. BooksBalance'
  BY <1>1, <1>2, <1>4, <1>5 DEF BookInv, BooksBalance, Closed
<1>7. LotsMatchPosition'
  BY <1>1, <1>2, <1>4, <1>5 DEF BookInv, LotsMatchPosition, Closed
<1>8. OpenSymbols' = OpenSymbols \ {s} /\ s \in OpenSymbols
  BY <1>1, <1>2, <1>4 DEF OpenSymbols, IsOpen, Closed
<1>9. LimitKept'
  BY <1>8, CountOpen, BoundAssumption DEF BookInv, LimitKept, PositionLimit
<1>10. Book!Sell(s)
  <2>1. s \in Book!Held
    BY <1>8, HeldIsOpen
  <2>2. [x \in Symbol |-> pos[x].qty]'
          = [[x \in Symbol |-> pos[x].qty] EXCEPT ![s] = 0]
    BY <1>1, <1>2, <1>4 DEF Closed
  <2>3. [x \in Symbol |-> pos[x].qty][s] = pos[s].qty
    BY <1>1
  <2>4. QED
    BY <1>4, <2>1, <2>2, <2>3 DEF Book!Sell
<1>11. QED
  BY <1>6, <1>7, <1>9, <1>10 DEF s

\* A purchase adds one unit to a position, or opens one below the limit.
LEMMA BuyCommitBooks ==
    ASSUME BookInv, NEW t \in Thread, BuyCommit(t)
    PROVE  /\ BooksBalance' /\ LotsMatchPosition' /\ LimitKept'
           /\ ReadsFail \/ Book!Buy(order[t].sym)
<1> DEFINE s == order[t].sym
<1>1. s \in Symbol /\ pc[t] = "buy" /\ (IsOpen(s) \/ SeemsBelowLimit)
  BY DEF BuyCommit, BookInv, BookOK, TypeOK, OrderOK
<1>2. pos \in [Symbol -> Position] /\ pos[s].qty \in Nat
  BY <1>1 DEF BookInv, TypeOK, TablesOK, Position
<1>3. Bought(s).qty = pos[s].qty + 1
  BY <1>2 DEF Bought, IsOpen, Position
<1>4. /\ pos' = [pos EXCEPT ![s] = Bought(s)]
      /\ lots' = [lots EXCEPT ![s] = @ + 1]
      /\ bought' = [bought EXCEPT ![s] = @ + 1]
      /\ sold' = sold /\ fabricated' = fabricated
  BY DEF BuyCommit
<1>5. /\ lots \in [Symbol -> Nat] /\ bought \in [Symbol -> Nat]
      /\ sold \in [Symbol -> Nat] /\ fabricated \in [Symbol -> Nat]
  BY DEF BookInv, TypeOK, TablesOK
<1> HIDE DEF s
<1>6. BooksBalance'
  BY <1>1, <1>2, <1>3, <1>4, <1>5 DEF BookInv, BooksBalance
<1>7. LotsMatchPosition'
  BY <1>1, <1>2, <1>3, <1>4, <1>5 DEF BookInv, LotsMatchPosition
<1>8. OpenSymbols' = OpenSymbols \cup {s} /\ (s \in OpenSymbols <=> IsOpen(s))
  BY <1>1, <1>2, <1>3, <1>4 DEF OpenSymbols, IsOpen
<1>9. LimitKept'
  <2>1. CASE IsOpen(s)
    BY <1>8, <2>1 DEF BookInv, LimitKept, PositionLimit, OpenSymbols
  <2>2. CASE ~ IsOpen(s) /\ BelowLimit
    BY <1>1, <1>8, <2>2, CountOpen, BoundAssumption
    DEF LimitKept, PositionLimit, BelowLimit
  <2>3. QED
    BY <1>1, <2>1, <2>2 DEF LimitKept, SeemsBelowLimit
<1>10. ReadsFail \/ Book!Buy(s)
  <2> SUFFICES ASSUME ~ ReadsFail PROVE Book!Buy(s)
    OBVIOUS
  <2>1. s \in Book!Held \/ Cardinality(Book!Held) < MaxOpen
    BY <1>1, <1>8, HeldIsOpen DEF SeemsBelowLimit, BelowLimit
  <2>2. [x \in Symbol |-> pos[x].qty]'
          = [[x \in Symbol |-> pos[x].qty] EXCEPT ![s] = @ + 1]
    BY <1>1, <1>2, <1>3, <1>4
  <2>3. QED
    BY <1>4, <2>1, <2>2 DEF Book!Buy, Book!Cardinality, Cardinality
<1>11. QED
  BY <1>6, <1>7, <1>9, <1>10 DEF s

\* A rotation gives the place of one position to another symbol.
LEMMA RotateCommitBooks ==
    ASSUME BookInv, NEW t \in Thread, RotateCommit(t)
    PROVE  /\ BooksBalance' /\ LotsMatchPosition' /\ LimitKept'
           /\ Book!Rotate(order[t].rot, order[t].sym)
<1> DEFINE s == order[t].sym
           r == order[t].rot
<1>1. /\ s \in Symbol /\ r \in Symbol /\ r # s /\ pc[t] = "buy"
      /\ IsOpen(r) /\ ~ IsOpen(s)
  BY DEF RotateCommit, BookInv, BookOK, TypeOK, OrderOK
<1>2. /\ pos \in [Symbol -> Position]
      /\ pos[s].qty \in Nat /\ pos[r].qty \in Nat /\ pos[s].qty = 0
  BY <1>1 DEF BookInv, TypeOK, TablesOK, Position, IsOpen
<1>3. Bought(s).qty = 1
  BY <1>1 DEF Bought
<1>4. LotsAfter(r, pos[r].qty) = 0 /\ Missing(r, pos[r].qty) = 0
  BY <1>1, <1>2, LotArithmetic DEF BookInv, LotsMatchPosition
<1>5. /\ pos' = [pos EXCEPT ![r] = Closed, ![s] = Bought(s)]
      /\ lots' = [lots EXCEPT ![r] = 0, ![s] = @ + 1]
      /\ fabricated' = [fabricated EXCEPT ![r] = @ + 0]
      /\ bought' = [bought EXCEPT ![s] = @ + 1]
      /\ sold' = [sold EXCEPT ![r] = @ + pos[r].qty]
  BY <1>4 DEF RotateCommit
<1>6. /\ lots \in [Symbol -> Nat] /\ bought \in [Symbol -> Nat]
      /\ sold \in [Symbol -> Nat] /\ fabricated \in [Symbol -> Nat]
  BY DEF BookInv, TypeOK, TablesOK
<1> HIDE DEF s, r
<1>7. BooksBalance'
  BY <1>1, <1>2, <1>3, <1>5, <1>6 DEF BookInv, BooksBalance, Closed
<1>8. LotsMatchPosition'
  BY <1>1, <1>2, <1>3, <1>5, <1>6 DEF BookInv, LotsMatchPosition, Closed
<1>9. /\ OpenSymbols' = (OpenSymbols \ {r}) \cup {s}
      /\ r \in OpenSymbols /\ s \notin OpenSymbols
  BY <1>1, <1>2, <1>3, <1>5 DEF OpenSymbols, IsOpen, Closed
<1>10. LimitKept'
  BY <1>1, <1>9, CountOpen DEF BookInv, LimitKept, PositionLimit
<1>11. Book!Rotate(r, s)
  <2>1. r \in Book!Held /\ s \notin Book!Held
    BY <1>9, HeldIsOpen
  <2>2. [x \in Symbol |-> pos[x].qty]'
          = [[x \in Symbol |-> pos[x].qty] EXCEPT ![r] = 0, ![s] = 1]
    BY <1>1, <1>2, <1>3, <1>5 DEF Closed
  <2>3. [x \in Symbol |-> pos[x].qty][r] = pos[r].qty
    BY <1>1
  <2>4. QED
    BY <1>5, <2>1, <2>2, <2>3 DEF Book!Rotate
<1>12. QED
  BY <1>7, <1>8, <1>10, <1>11 DEF s, r

\* The three commits keep the invariant: the positions t has still to visit
\* are not the ones it trades.
LEMMA CommitBook ==
    ASSUME OneProcess, BookInv, TypeOK', NEW t \in Thread,
           CloseCommit(t) \/ BuyCommit(t) \/ RotateCommit(t)
    PROVE  BookInv'
<1>1. BooksBalance' /\ LotsMatchPosition' /\ LimitKept'
  BY CloseCommitBooks, BuyCommitBooks, RotateCommitBooks
<1>2. \A u \in Thread \ {t} : Quiet(u)
  BY OthersQuiet DEF CloseCommit, BuyCommit, RotateCommit
<1>3. CASE CloseCommit(t)
  <2>1. /\ pc[t] = "sell" /\ EndTransaction(t, "pass")
        /\ pos' = [pos EXCEPT ![order[t].sym] = Closed]
        /\ order[t].sym \notin todo[t] /\ todo[t] \subseteq Symbol
    BY <1>3 DEF CloseCommit, BookInv, BookOK, TypeOK, LocalsOK
  <2>2. \A s \in todo[t] : pos'[s] = pos[s]
    BY <2>1 DEF BookInv, TypeOK, TablesOK
  <2>3. /\ BookOK(t)'
        /\ \A u \in Thread \ {t} : pc'[u] = pc[u] /\ todo'[u] = todo[u]
    BY <2>1, <2>2, EndTransactionBook
  <2>4. QED
    BY <1>1, <1>2, <2>3, BookFrame
<1>4. CASE BuyCommit(t) \/ RotateCommit(t)
  <2>1. pc[t] = "buy" /\ EndTransaction(t, "cycle") /\ todo[t] = {}
    BY <1>4 DEF BuyCommit, RotateCommit, BookInv, BookOK
  <2>2. /\ BookOK(t)'
        /\ \A u \in Thread \ {t} : pc'[u] = pc[u] /\ todo'[u] = todo[u]
    BY <2>1, EndTransactionBook
  <2>3. QED
    BY <1>1, <1>2, <2>2, BookFrame
<1>5. QED
  BY <1>3, <1>4

\* A step of t that leaves the books alone.
LEMMA IdleBooks ==
    ASSUME OneProcess, BookInv, TypeOK', NEW t \in Thread, UNCHANGED Books,
           pc[t] # "idle" \/ TradeLockFree(ProcOf[t]),
           \A u \in Thread \ {t} : pc'[u] = pc[u] /\ todo'[u] = todo[u],
           BookOK(t)'
    PROVE  BookInv'
BY SameBooks, OthersQuiet, BookFrame

LEMMA CycleBook ==
    ASSUME OneProcess, BookInv, TypeOK', NEW t \in Thread, Acquire(t) \/ Cycle(t)
    PROVE  BookInv'
<1> USE DEF Books, Goto, locks, tables
<1>a. TypeOK /\ LocalsOK /\ LocksOK /\ BookOK(t)
  BY DEF BookInv, TypeOK
<1>1. CASE Acquire(t)
  <2>1. BookOK(t)'
    BY <1>1, <1>a, ProcOfAssumption
    DEF Acquire, BookOK, LocalsOK, LocksOK
  <2>2. QED
    BY <1>1, <1>a, <2>1, IdleBooks DEF Acquire, LocalsOK
<1>2. CASE BeginPass(t)
  <2>1. BookOK(t)'
    BY <1>2, <1>a DEF BeginPass, BookOK, LocalsOK, OpenSymbols, IsOpen
  <2>2. QED
    BY <1>2, <1>a, <2>1, IdleBooks DEF BeginPass, LocalsOK
<1>3. CASE EndPass(t)
  <2>1. BookOK(t)'
    BY <1>3, <1>a DEF EndPass, BookOK, LocalsOK
  <2>2. QED
    BY <1>3, <1>a, <2>1, IdleBooks DEF EndPass, LocalsOK
<1>4. CASE EndCycle(t)
  <2>1. BookOK(t)'
    BY <1>4, <1>a DEF EndCycle, BookOK, LocalsOK
  <2>2. QED
    BY <1>4, <1>a, <2>1, IdleBooks DEF EndCycle, LocalsOK
<1>5. ASSUME NEW s \in Symbol, SellSignal(t, s) PROVE BookInv'
  <2>1. BookOK(t)'
    BY <1>5, <1>a DEF SellSignal, BookOK, LocalsOK, IsOpen
  <2>2. QED
    BY <1>5, <1>a, <2>1, IdleBooks DEF SellSignal, LocalsOK
<1>6. ASSUME NEW s \in Symbol, NEW q \in Quote, DecideExit(t, s, q)
      PROVE  BookInv'
  <2>1. order'[t].sym = s
    BY <1>6, <1>a, IntentType DEF DecideExit, LocalsOK
  <2>2. BookOK(t)'
    BY <1>6, <1>a, <2>1 DEF DecideExit, BookOK, LocalsOK, IsOpen
  <2>3. QED
    BY <1>6, <1>a, <2>2, IdleBooks DEF DecideExit, LocalsOK
<1>7. ASSUME NEW s \in Symbol, NEW q \in Quote, BuySignal(t, s, q)
      PROVE  BookInv'
  <2>1. IsOpen(s) \in BOOLEAN
    BY DEF IsOpen
  <2>2. /\ order'[t].sym = s /\ order'[t].rot = None
        /\ order'[t].adding = IsOpen(s)
    BY <1>7, <1>a, <2>1, IntentType DEF BuySignal, LocalsOK
  <2>3. BookOK(t)'
    BY <1>7, <1>a, <2>2 DEF BuySignal, BookOK, LocalsOK, IsOpen
  <2>4. QED
    BY <1>7, <1>a, <2>3, IdleBooks DEF BuySignal, LocalsOK
<1>8. QED
  BY <1>1, <1>2, <1>3, <1>4, <1>5, <1>6, <1>7 DEF Cycle

LEMMA CloseBook ==
    ASSUME OneProcess, BookInv, TypeOK', NEW t \in Thread,
           Close(t) \/ CloseFail(t)
    PROVE  BookInv'
<1> USE DEF Books, Goto, tables
<1>a. LocalsOK /\ BookOK(t)
  BY DEF BookInv, TypeOK
<1>1. CASE CloseClaim(t)
  <2>1. CASE Decline(t, "pass")
    BY <1>1, <2>1, CleanEndBook DEF CloseClaim
  <2>2. CASE /\ held' = [held EXCEPT ![t] = {CloseKey(t)}]
             /\ Goto(t, "lock")
             /\ UNCHANGED <<phase, snap, todo, order, left, tradeLock, pfLock,
                            tables>>
    <3>1. BookOK(t)'
      BY <1>1, <1>a, <2>2 DEF CloseClaim, BookOK, LocalsOK, IsOpen
    <3>2. QED
      BY <1>1, <1>a, <2>2, <3>1, IdleBooks DEF CloseClaim, LocalsOK
  <2>3. QED
    BY <1>1, <2>1, <2>2 DEF CloseClaim
<1>2. CASE CloseLock(t)
  <2>1. BookOK(t)'
    BY <1>2, <1>a DEF CloseLock, BookOK, LocalsOK, IsOpen
  <2>2. QED
    BY <1>2, <1>a, <2>1, IdleBooks DEF CloseLock, LocalsOK
<1>3. CASE CloseDecline(t) \/ CloseRaise(t) \/ CloseFail(t)
  BY <1>3, CleanEndBook DEF CloseDecline, CloseRaise, CloseFail
<1>4. CASE CloseCommit(t)
  BY <1>4, CommitBook
<1>5. QED
  BY <1>1, <1>2, <1>3, <1>4 DEF Close

LEMMA OpenBook ==
    ASSUME OneProcess, BookInv, TypeOK', NEW t \in Thread,
           Open(t) \/ BuyFail(t)
    PROVE  BookInv'
<1> USE DEF Books, Goto, locks, tables
<1>a. LocalsOK /\ BookOK(t) /\ (pc[t] # "idle" => todo[t] = {} \/ pc[t] \in
                                  {"pass", "claim", "lock", "sell"})
  BY DEF BookInv, TypeOK, BookOK
<1>1. CASE RejectBuy(t)
  <2>1. BookOK(t)'
    BY <1>1, <1>a DEF RejectBuy, BookOK, LocalsOK
  <2>2. QED
    BY <1>1, <1>a, <2>1, IdleBooks DEF RejectBuy, LocalsOK
<1>2. CASE AdmitBuy(t)
  <2>1. BookOK(t)'
    BY <1>2, <1>a DEF AdmitBuy, BookOK, LocalsOK, IsOpen, SeemsBelowLimit,
                      BelowLimit, OpenSymbols
  <2>2. QED
    BY <1>2, <1>a, <2>1, IdleBooks DEF AdmitBuy, LocalsOK
<1>3. ASSUME NEW r \in Symbol, NEW q \in Quote, AdmitRotation(t, r, q)
      PROVE  BookInv'
  <2>1. /\ order'[t].sym = order[t].sym /\ order'[t].rot = r
        /\ order'[t].adding = order[t].adding
    BY <1>3, <1>a DEF AdmitRotation, LocalsOK, Order
  <2>2. BookOK(t)'
    BY <1>3, <1>a, <2>1, NoneAssumption
    DEF AdmitRotation, BookOK, LocalsOK, IsOpen
  <2>3. QED
    BY <1>3, <1>a, <2>2, IdleBooks DEF AdmitRotation, LocalsOK
<1>4. CASE BuyLock(t)
  <2>1. BookOK(t)'
    BY <1>4, <1>a DEF BuyLock, BookOK, LocalsOK, IsOpen, SeemsBelowLimit,
                      BelowLimit, OpenSymbols
  <2>2. QED
    BY <1>4, <1>a, <2>1, IdleBooks DEF BuyLock, LocalsOK
<1>5. ASSUME BuyClaim(t) \/ RotClaim(t) PROVE BookInv'
  <2>1. CASE Decline(t, "cycle")
    BY <1>5, <2>1, CleanEndBook DEF BuyClaim, RotClaim
  <2>2. CASE ~ Decline(t, "cycle")
    <3>1. /\ pc[t] \in {"buyclaim", "rotclaim"} /\ pc'[t] \in {"buy", "rotclaim"}
          /\ \A u \in Thread \ {t} : pc'[u] = pc[u]
          /\ UNCHANGED <<todo, order, tradeLock, tables>>
      BY <1>5, <1>a, <2>2 DEF BuyClaim, RotClaim, LocalsOK
    <3>2. BookOK(t)'
      BY <1>a, <3>1 DEF BookOK, IsOpen, SeemsBelowLimit, BelowLimit, OpenSymbols
    <3>3. QED
      BY <3>1, <3>2, IdleBooks
  <2>3. QED
    BY <2>1, <2>2
<1>6. CASE BuyDecline(t) \/ BuyFail(t)
  BY <1>6, CleanEndBook DEF BuyDecline, BuyFail
<1>7. CASE BuyCommit(t) \/ RotateCommit(t)
  BY <1>7, CommitBook
<1>8. QED
  BY <1>1, <1>2, <1>3, <1>4, <1>5, <1>6, <1>7 DEF Open

\* A crash takes the trade lock, and with it all that was known, away.
LEMMA CrashBook ==
    ASSUME OneProcess, BookInv, TypeOK', NEW p \in Process, Crash(p)
    PROVE  BookInv'
<1>1. UNCHANGED Books
  BY DEF Crash, tables, Books
<1>2. \A t \in Thread : pc'[t] = "idle" /\ todo'[t] = {}
  BY DEF Crash, OneProcess
<1>3. \A t \in Thread : BookOK(t)'
  BY <1>2 DEF BookOK
<1>4. QED
  BY <1>1, <1>3, SameBooks DEF BookInv

LEMMA BookInit == Init => BookInv
<1> SUFFICES ASSUME Init PROVE BookInv
  OBVIOUS
<1>1. TypeOK
  BY TypeInit
<1>2. \A t \in Thread : BookOK(t)
  BY DEF Init, BookOK
<1>3. BooksBalance /\ LotsMatchPosition
  BY DEF Init, BooksBalance, LotsMatchPosition, NoPositions, Closed
<1>4. OpenSymbols = {}
  BY DEF Init, OpenSymbols, IsOpen, NoPositions, Closed
<1>5. LimitKept
  BY <1>4, FS_EmptySet, BoundAssumption DEF LimitKept, PositionLimit
<1>6. QED
  BY <1>1, <1>2, <1>3, <1>5 DEF BookInv

LEMMA BookNext == OneProcess /\ BookInv /\ [Next]_vars => BookInv'
<1> SUFFICES ASSUME OneProcess, BookInv, [Next]_vars PROVE BookInv'
  OBVIOUS
<1>1. TypeOK'
  BY TypeNext DEF BookInv
<1>2. ASSUME NEW t \in Thread,
             Acquire(t) \/ Step(t) \/ CloseFail(t) \/ BuyFail(t)
      PROVE  BookInv'
  BY <1>1, <1>2, CycleBook, CloseBook, OpenBook DEF Step
<1>3. ASSUME NEW t \in Thread, NEW u \in Thread, DeadlockVictim(t, u)
      PROVE  BookInv'
  BY <1>1, <1>3, CleanEndBook DEF DeadlockVictim, Deadlocked
<1>4. ASSUME NEW p \in Process, Crash(p) PROVE BookInv'
  BY <1>1, <1>4, CrashBook
<1>5. ASSUME \/ \E s \in Symbol : CooldownExpires(s)
             \/ UNCHANGED vars
      PROVE  BookInv'
  <2>1. UNCHANGED <<locals, locks, Books>>
    BY <1>5 DEF CooldownExpires, vars, locals, locks, tables, Books
  <2>2. ASSUME NEW t \in Thread PROVE BookOK(t)'
    <3>1. /\ pc' = pc /\ todo' = todo /\ snap' = snap /\ order' = order
          /\ tradeLock' = tradeLock /\ pos' = pos
      BY <2>1 DEF locals, locks, Books
    <3>2. BookOK(t) /\ SeemsBelowLimit' = SeemsBelowLimit
      BY <2>1, SameBooks DEF BookInv
    <3>3. QED
      BY <3>1, <3>2 DEF BookOK, IsOpen
  <2>3. QED
    BY <1>1, <2>1, <2>2, SameBooks DEF BookInv
<1>6. QED
  BY <1>2, <1>3, <1>4, <1>5 DEF Next

LEMMA BookInvariant == ASSUME OneProcess PROVE Spec => []BookInv
<1>1. Init => BookInv
  BY BookInit
<1>2. BookInv /\ [Next]_vars => BookInv'
  BY BookNext
<1>3. QED
  BY <1>1, <1>2, PTL DEF Spec

\* One process never sells a quantity it does not hold, nor sells a holding
\* twice: what was bought was sold or is held.
THEOREM NoDoubleSale == ASSUME OneProcess PROVE Spec => []BooksBalance
<1>1. BookInv => BooksBalance
  BY DEF BookInv
<1>2. QED
  BY <1>1, BookInvariant, PTL

\* With one process no sale makes up a lot, with or without lot repair.
THEOREM LotsAreNeverMadeUp ==
    ASSUME OneProcess PROVE Spec => []LotsMatchPosition
<1>1. BookInv => LotsMatchPosition
  BY DEF BookInv
<1>2. QED
  BY <1>1, BookInvariant, PTL

\* With one process the limit checked outside the transaction still holds when
\* the transaction commits, if no read behind the check fails.
THEOREM LimitHolds ==
    ASSUME OneProcess, ~ ReadsFail PROVE Spec => []PositionLimit
<1>1. BookInv => PositionLimit
  BY DEF BookInv, LimitKept
<1>2. QED
  BY <1>1, BookInvariant, PTL

\* "Never create a short/naked paper position" (paper_sell_execution_router.py)
\* is true of a market that one process trades.
THEOREM OneProcessIsNeverNaked == ASSUME OneProcess PROVE Spec => []NeverNaked
<1>1. BookInv => NeverNaked
  <2> SUFFICES ASSUME BookInv, NEW s \in Symbol PROVE sold[s] <= bought[s]
    BY DEF NeverNaked
  <2>1. /\ bought[s] = sold[s] + pos[s].qty
        /\ sold[s] \in Nat /\ pos[s].qty \in Nat
    BY DEF BookInv, BooksBalance, TypeOK, TablesOK, Position
  <2>2. QED
    BY <2>1
<1>2. QED
  BY <1>1, BookInvariant, PTL

\* Nor does one process ever meet the deadlock of a close and a rotation: its
\* trade_cycle_lock keeps the two apart.
THEOREM OneProcessNeverDeadlocks ==
    ASSUME OneProcess PROVE Spec => []~ \E t, u \in Thread : Deadlocked(t, u)
<1>1. BookInv => ~ \E t, u \in Thread : Deadlocked(t, u)
  <2> SUFFICES ASSUME BookInv, NEW t \in Thread, NEW u \in Thread,
                      Deadlocked(t, u)
               PROVE  FALSE
    OBVIOUS
  <2>1. pc[t] = "lock" /\ pc[u] = "rotclaim"
    BY DEF Deadlocked
  <2>2. t # u /\ pc[u] # "idle"
    BY <2>1
  <2>3. QED
    BY <2>1, <2>2, OthersQuiet DEF Quiet
<1>2. QED
  BY <1>1, BookInvariant, PTL
---------------------------------------------------------------------------
(* The ledger implements the book *)

LEMMA BookStep ==
    ASSUME BookInv, ~ ReadsFail, [Next]_vars PROVE [Book!Next]_(Book!vars)
<1>1. ASSUME NEW t \in Thread,
             CloseCommit(t) \/ BuyCommit(t) \/ RotateCommit(t)
      PROVE  Book!Next
  <2>1. pc[t] \in {"sell", "buy"}
    BY <1>1 DEF CloseCommit, BuyCommit, RotateCommit
  <2>2. order[t].sym \in Symbol /\ (order[t].rot # None => order[t].rot \in Symbol)
    BY <2>1 DEF BookInv, TypeOK, OrderOK
  <2>3. CASE CloseCommit(t)
    BY <2>2, <2>3, CloseCommitBooks DEF Book!Next, Book!Sell
  <2>4. CASE BuyCommit(t)
    BY <2>2, <2>4, BuyCommitBooks
    DEF Book!Next, Book!Buy, Book!Cardinality, Cardinality
  <2>5. CASE RotateCommit(t)
    <3>1. order[t].rot \in Symbol
      BY <2>2, <2>5 DEF RotateCommit
    <3>2. QED
      BY <2>2, <2>5, <3>1, RotateCommitBooks DEF Book!Next, Book!Rotate
  <2>6. QED
    BY <1>1, <2>3, <2>4, <2>5
<1>2. CASE UNCHANGED Books \/ UNCHANGED vars
  BY <1>2 DEF Books, vars, tables, Book!vars
<1>3. QED
  BY <1>1, <1>2, OnlyCommitsWrite

\* With one process, whatever its threads, transactions, failures and crashes
\* do, the holdings change only by a purchase below the limit, by the sale of
\* a whole holding, or by a rotation (if no read behind the limit fails).
THEOREM LedgerImplementsBook ==
    ASSUME OneProcess, ~ ReadsFail PROVE Spec => BookSpec
<1>1. Init => Book!Init
  BY DEF Init, Book!Init, NoPositions, Closed
<1>2. BookInv /\ [Next]_vars => [Book!Next]_(Book!vars)
  BY BookStep
<1>3. QED
  BY <1>1, <1>2, BookInvariant, PTL DEF Spec, BookSpec, Book!Spec
=============================================================================
