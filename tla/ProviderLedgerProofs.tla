------------------------- MODULE ProviderLedgerProofs -------------------------
(***************************************************************************)
(* Proofs about ProviderLedger for any processes, threads, credentials,    *)
(* budgets, numbers of pages, durations and lengths of a day.              *)
(***************************************************************************)
EXTENDS ProviderLedger, FiniteSetTheorems, TLAPS

LEMMA Dates ==
    /\ \A t \in Time : Date(t) \in Day
    /\ \A s, t \in Time : s <= t => Date(s) <= Date(t)
<1>1. \A t \in Nat : t \div DayLength \in Nat
  BY LedgerAssumption, SMT
<1>2. \A s, t \in Nat : s <= t => (s \div DayLength) <= (t \div DayLength)
  BY LedgerAssumption, SMTT(30)
<1>3. QED
  BY <1>1, <1>2, LedgerAssumption DEF Date, Day, Time

\* The write of a row keeps it a row, and never lowers its cooldown.
LEMMA MarkedRow ==
    ASSUME NEW r \in Row, NEW a \in {Auth, Limited}, NEW t \in Nat
    PROVE  /\ Marked(r, a, t) \in Row
           /\ Marked(r, a, t).updated = t
           /\ Marked(r, a, t).until >= r.until
           /\ Marked(r, a, t).until > t
<1>1. Duration(a) \in Nat \ {0}
  BY LedgerAssumption DEF Duration
<1>2. QED
  BY <1>1 DEF Marked, Max2, Row

LEMMA ReservedRow ==
    ASSUME NEW r \in Row, NEW t \in Nat, HasCapacity(r, t)
    PROVE  /\ Reserved(r, t) \in Row
           /\ Reserved(r, t).updated = t
           /\ Reserved(r, t).until = r.until
           /\ Reserved(r, t).failure = r.failure
<1> DEFINE m == Initialized(r, t)
<1>1. /\ m \in Row /\ m.used = r.used /\ m.until = r.until /\ m.failure = r.failure
  BY DEF Initialized, Row
<1>2. m.used + 1 \in 0..Budget
  BY <1>1, LedgerAssumption DEF HasCapacity, BelowBudget, Row
<1>3. Reserved(r, t) = [m EXCEPT !.used = @ + 1, !.updated = t]
  BY DEF Reserved
<1> HIDE DEF m
<1>4. QED
  BY <1>1, <1>2, <1>3 DEF Row

-------------------------------------------------------------------------------
(* The rows a recovery has seen.                                           *)

\* What a claim has read is still so, for the rows it holds and for older ones;
\* every cooldown in force is an old authentication failure.
ClaimInv ==
    \A p \in Worker : pc[p] = "claim" =>
        LET s == started[p] IN
        /\ 0 < s /\ s <= now
        /\ \A d \in Day : d <= Date(s) \/ expected[p][d].until > 0 =>
               wide[d] = expected[p][d]
        /\ HasCapacity(expected[p][Date(s)], s)
        /\ expected[p][Date(s)].updated < s
        /\ used[Date(s)] < Budget
        /\ \A d \in Day : expected[p][d].until > s =>
               expected[p][d].failure = Auth /\ expected[p][d].updated <= s /\ limit[d] <= s
OneClaim ==
    \A p, q \in Worker : pc[p] = "claim" /\ pc[q] = "claim" => p = q

\* What a claim has committed: a row that still has the time stamp it had then
\* is an authentication failure with no rate limit behind it, unless it is of
\* a later date.
Clean(p, d) ==
    /\ expected[p][d].failure = Auth
    /\ expected[p][d].updated <= started[p]
    /\ limit[d] <= started[p]
PendingInv ==
    \A p \in Worker : pc[p] \in {"probe", "finish"} =>
        \A d \in Day : expected[p][d].until > 0 =>
            /\ wide[d].until > 0
            /\ expected[p][d].updated <= wide[d].updated
            /\ wide[d].updated = expected[p][d].updated =>
                   d > Date(started[p]) \/ Clean(p, d)

\* Time stamps are in the past, and a rate limit counts from its time stamp.
RowInv ==
    \A d \in Day : wide[d].updated <= now /\ limit[d] <= wide[d].updated + Rate

\* An answer is there when it is needed.
AnswerInv ==
    \A p \in Worker :
        /\ pc[p] = "finish" => answer[p] # "none"
        /\ pc[p] = "finish" /\ answer[p] = "bars" => pair[p] \in Good

RecoveryInv ==
    TypeOK /\ ClaimInv /\ OneClaim /\ PendingInv /\ RowInv /\ AnswerInv

-------------------------------------------------------------------------------
(* Types.                                                                  *)

LEMMA TypeFacts ==
    ASSUME TypeOK
    PROVE  /\ now \in Nat /\ now \in Time /\ 0 \in Time /\ 0 \in Day /\ Date(now) \in Day
           /\ \A p \in Worker : started[p] \in Nat /\ Date(started[p]) \in Day
           /\ NoRows \in [Day -> Row] /\ NoRow \in Row
           /\ \A d \in Day : d \in Nat
<1>1. now \in Time /\ \A p \in Worker : started[p] \in Time
  BY DEF TypeOK
<1>2. Time \subseteq Nat /\ 0 \in Time /\ MaxTime \in Time
  BY LedgerAssumption DEF Time
<1>3. NoRow \in Row
  BY LedgerAssumption DEF NoRow, Row
<1>4. \A t \in Time : Date(t) \in Day
  BY Dates
<1>5. \A d \in Day : d \in Nat
  BY DEF Day
<1>6. 0 \in Day
  BY <1>2, <1>4, <1>5 DEF Day
<1>7. QED
  BY <1>1, <1>2, <1>3, <1>4, <1>5, <1>6 DEF NoRows

LEMMA MarkType ==
    ASSUME TypeOK, NEW a \in {Auth, Limited}, Mark(a)
    PROVE  wide' \in [Day -> Row] /\ limit' \in [Day -> Nat]
<1>1. now \in Nat /\ Date(now) \in Day
  BY TypeFacts
<1>2. Marked(wide[Date(now)], a, now) \in Row
  BY <1>1, MarkedRow DEF TypeOK
<1>3. wide' \in [Day -> Row]
  BY <1>1, <1>2 DEF Mark, TypeOK
<1>4. now + Rate \in Nat
  BY <1>1, LedgerAssumption
<1>5. limit' \in [Day -> Nat]
  BY <1>1, <1>4 DEF Mark, TypeOK
<1>6. QED
  BY <1>3, <1>5

\* A thread that routes leaves the recoveries alone.
LEMMA RouteKeeps ==
    ASSUME NEW t \in Thread, Route(t)
    PROVE  /\ UNCHANGED <<now, receipt, pc, pair, answer, started, expected>>
           /\ UNCHANGED <<probes, crashes>>
<1> USE DEF ledger, process, counts
<1>1. CASE Check(t) \/ ReserveWide(t) \/ ReserveHistory(t) \/ Refused(t)
  BY <1>1 DEF Check, ReserveWide, ReserveHistory, Refused
<1>2. ASSUME NEW a \in Outcome, Send(t, a)
      PROVE  /\ UNCHANGED <<now, receipt, pc, pair, answer, started, expected>>
             /\ UNCHANGED <<probes, crashes>>
  BY <1>2 DEF Send
<1>3. ASSUME NEW a \in {Auth, Limited}, RecordFailure(t, a)
      PROVE  /\ UNCHANGED <<now, receipt, pc, pair, answer, started, expected>>
             /\ UNCHANGED <<probes, crashes>>
  BY <1>3 DEF RecordFailure
<1>4. QED
  BY <1>1, <1>2, <1>3 DEF Route

\* A request is followed by that of the next page, or ends its call.
LEMMA SendMoves ==
    ASSUME NEW t \in Thread, NEW a \in Outcome, Send(t, a)
    PROVE  \/ /\ page' = [page EXCEPT ![t] = page[t] + 1] /\ page[t] + 1 < Pages
              /\ step' = step /\ day' = day
           \/ /\ page' = [page EXCEPT ![t] = 0] /\ day' = [day EXCEPT ![t] = 0]
              /\ \E l \in {"check", Auth, Limited} : step' = [step EXCEPT ![t] = l]
<1>1. CASE /\ page[t] + 1 < Pages
           /\ page' = [page EXCEPT ![t] = @ + 1] /\ UNCHANGED <<step, day>>
  BY <1>1
<1>2. ASSUME NEW l \in {"check", Auth, Limited}, EndCall(t, l)
      PROVE  /\ page' = [page EXCEPT ![t] = 0] /\ day' = [day EXCEPT ![t] = 0]
             /\ \E k \in {"check", Auth, Limited} : step' = [step EXCEPT ![t] = k]
  BY <1>2 DEF EndCall, Move
<1>3. QED
  BY <1>1, <1>2, Zenon DEF Send

LEMMA TypeStep ==
    ASSUME RecoveryInv, [Next]_vars
    PROVE  TypeOK'
<1> USE DEF ledger, process, routing, counts
<1>0. /\ now \in Nat /\ now \in Time /\ 0 \in Time /\ 0 \in Day /\ Date(now) \in Day
      /\ \A p \in Worker : started[p] \in Nat /\ Date(started[p]) \in Day
      /\ NoRows \in [Day -> Row] /\ NoRow \in Row
      /\ \A d \in Day : d \in Nat
  BY TypeFacts DEF RecoveryInv
<1>1. ASSUME NEW p \in Worker, BeginClaim(p) PROVE TypeOK'
  BY <1>0, <1>1 DEF BeginClaim, Go, RecoveryInv, TypeOK, PC
<1>2. ASSUME NEW p \in Worker, CommitClaim(p) PROVE TypeOK'
  <2> DEFINE d == Date(started[p])
  <2>1. /\ wide[d] = expected[p][d] /\ HasCapacity(expected[p][d], started[p])
        /\ used[d] < Budget
    <3>1. d <= d /\ d \in Day
      BY <1>0
    <3>2. QED
      BY <1>2, <3>1 DEF CommitClaim, RecoveryInv, ClaimInv
  <2>2. Reserved(wide[d], started[p]) \in Row
    BY <1>0, <2>1, ReservedRow DEF RecoveryInv, TypeOK
  <2>3. wide' \in [Day -> Row]
    BY <1>0, <1>2, <2>2 DEF CommitClaim, RecoveryInv, TypeOK
  <2>4. used' \in [Day -> 0..Budget]
    <3>1. used[d] + 1 \in 0..Budget
      BY <1>0, <2>1, LedgerAssumption DEF RecoveryInv, TypeOK
    <3>2. used' = [used EXCEPT ![d] = used[d] + 1]
      BY <1>2 DEF CommitClaim, Paid
    <3>3. QED
      BY <1>0, <3>1, <3>2 DEF RecoveryInv, TypeOK
  <2>5. expected' \in [Worker -> [Day -> Row]]
    BY <1>0, <1>2, <2>3 DEF CommitClaim, ActiveIn, RecoveryInv, TypeOK
  <2>6. QED
    BY <1>0, <1>2, <2>3, <2>4, <2>5 DEF CommitClaim, Go, RecoveryInv, TypeOK, PC
<1>3. ASSUME NEW p \in Worker, SkipRecovery(p) PROVE TypeOK'
  BY <1>0, <1>3 DEF SkipRecovery, Done, Go, RecoveryInv, TypeOK, PC
<1>4. ASSUME NEW p \in Worker, NEW a \in Outcome, Probe(p, a) PROVE TypeOK'
  BY <1>0, <1>4 DEF Probe, Go, RecoveryInv, TypeOK, PC
<1>5. ASSUME NEW p \in Worker, Finish(p) PROVE TypeOK'
  <2>1. wide' \in [Day -> Row] /\ limit' \in [Day -> Nat]
    <3>1. CASE answer[p] \in {Auth, Limited} /\ Mark(answer[p])
      BY <3>1, MarkType DEF RecoveryInv
    <3>2. CASE wide' = [d \in Day |->
                           IF expected[p][d].until = 0 THEN wide[d]
                           ELSE [wide[d] EXCEPT !.until = now, !.updated = now]]
               /\ UNCHANGED limit
      BY <1>0, <3>2 DEF RecoveryInv, TypeOK, Row
    <3>3. CASE UNCHANGED <<wide, limit>>
      BY <3>3 DEF RecoveryInv, TypeOK
    <3>4. QED
      BY <1>5, <3>1, <3>2, <3>3 DEF Finish
  <2>2. /\ receipt' \in [Cred -> {"none", "CLAIMED", "DONE", "AUTHENTICATED"}]
        /\ late' \in [Thread -> Nat]
    <3>1. \/ /\ receipt' = [receipt EXCEPT ![pair[p]] = "AUTHENTICATED"]
             /\ late' = [t \in Thread |-> 0]
          \/ receipt' = [receipt EXCEPT ![pair[p]] = "DONE"] /\ late' = late
      BY <1>5, Zenon DEF Finish
    <3>2. receipt' \in [Cred -> {"none", "CLAIMED", "DONE", "AUTHENTICATED"}]
      BY <3>1 DEF RecoveryInv, TypeOK
    <3>3. CASE late' = [t \in Thread |-> 0]
      BY <3>2, <3>3
    <3>4. CASE late' = late
      BY <3>2, <3>4 DEF RecoveryInv, TypeOK
    <3>5. QED
      BY <3>1, <3>3, <3>4
  <2>3. QED
    BY <1>0, <1>5, <2>1, <2>2 DEF Finish, Done, Go, RecoveryInv, TypeOK, PC
<1>6. ASSUME NEW p \in Worker, FinishFails(p) PROVE TypeOK'
  BY <1>0, <1>6 DEF FinishFails, Done, Go, RecoveryInv, TypeOK, PC
<1>7. ASSUME NEW t \in Thread, Check(t) PROVE TypeOK'
  BY <1>0, <1>7 DEF Check, Move, RecoveryInv, TypeOK, Step
<1>8. ASSUME NEW t \in Thread, ReserveWide(t) PROVE TypeOK'
  <2>1. Reserved(wide[Date(now)], now) \in Row
    BY <1>0, <1>8, ReservedRow DEF ReserveWide, RecoveryInv, TypeOK
  <2>2. wide' \in [Day -> Row]
    BY <1>0, <1>8, <2>1 DEF ReserveWide, RecoveryInv, TypeOK
  <2>3. QED
    BY <1>0, <1>8, <2>2 DEF ReserveWide, Move, RecoveryInv, TypeOK, Step
<1>9. ASSUME NEW t \in Thread, ReserveHistory(t) PROVE TypeOK'
  <2>1. used' \in [Day -> 0..Budget]
    <3>1. used[Date(now)] + 1 \in 0..Budget
      BY <1>0, <1>9, LedgerAssumption DEF ReserveHistory, BelowBudget, RecoveryInv, TypeOK
    <3>2. used' = [used EXCEPT ![Date(now)] = used[Date(now)] + 1]
      BY <1>9 DEF ReserveHistory, Paid
    <3>3. QED
      BY <1>0, <3>1, <3>2 DEF RecoveryInv, TypeOK
  <2>2. QED
    BY <1>0, <1>9, <2>1 DEF ReserveHistory, Move, RecoveryInv, TypeOK, Step
<1>10. ASSUME NEW t \in Thread, Refused(t) PROVE TypeOK'
  BY <1>0, <1>10 DEF Refused, Move, RecoveryInv, TypeOK, Step
<1>11. ASSUME NEW t \in Thread, NEW a \in Outcome, Send(t, a) PROVE TypeOK'
  <2>1. calls' \in [Day -> Nat] /\ late' \in [Thread -> Nat]
    BY <1>11 DEF Send, RecoveryInv, TypeOK
  <2>2. step' \in [Thread -> Step] /\ day' \in [Thread -> Day]
    BY <1>0, <1>11, SendMoves DEF RecoveryInv, TypeOK, Step
  <2>3. page' \in [Thread -> 0..(Pages - 1)]
    <3>1. 0 \in 0..(Pages - 1) /\ page[t] \in 0..(Pages - 1) /\ Pages \in Nat
      BY LedgerAssumption DEF RecoveryInv, TypeOK
    <3>2. CASE page' = [page EXCEPT ![t] = page[t] + 1] /\ page[t] + 1 < Pages
      <4>1. page[t] + 1 \in 0..(Pages - 1)
        BY <3>1, <3>2
      <4>2. QED
        BY <3>2, <4>1 DEF RecoveryInv, TypeOK
    <3>3. CASE page' = [page EXCEPT ![t] = 0]
      BY <3>1, <3>3 DEF RecoveryInv, TypeOK
    <3>4. QED
      BY <1>11, <3>2, <3>3, SendMoves
  <2>4. QED
    BY <1>0, <1>11, <2>1, <2>2, <2>3 DEF Send, RecoveryInv, TypeOK
<1>12. ASSUME NEW t \in Thread, NEW a \in {Auth, Limited}, RecordFailure(t, a)
       PROVE  TypeOK'
  <2>0. now + Duration(a) \in Nat /\ ProcOf[t] \in Worker
    BY <1>0, LedgerAssumption DEF Duration
  <2>1. wide' \in [Day -> Row] /\ limit' \in [Day -> Nat]
    <3>1. CASE Mark(a)
      BY <3>1, MarkType DEF RecoveryInv
    <3>2. CASE UNCHANGED <<wide, limit>>
      BY <3>2 DEF RecoveryInv, TypeOK
    <3>3. QED
      BY <1>12, <3>1, <3>2 DEF RecordFailure
  <2>2. local' \in [Worker -> Nat]
    BY <1>12, <2>0 DEF RecordFailure, Max2, RecoveryInv, TypeOK
  <2>3. QED
    BY <1>0, <1>12, <2>1, <2>2 DEF RecordFailure, Move, RecoveryInv, TypeOK, Step
<1>13. ASSUME NEW p \in Worker, NEW c \in Cred, Crash(p, c) PROVE TypeOK'
  <2>1. /\ step' \in [Thread -> Step] /\ day' \in [Thread -> Day]
        /\ page' \in [Thread -> 0..(Pages - 1)]
    BY <1>0, <1>13, LedgerAssumption DEF Crash, RecoveryInv, TypeOK, Step
  <2>2. QED
    BY <1>0, <1>13, <2>1, LedgerAssumption DEF Crash, RecoveryInv, TypeOK, PC
<1>14. CASE Tick
  BY <1>0, <1>14, LedgerAssumption DEF Tick, RecoveryInv, TypeOK, Time
<1>15. CASE UNCHANGED vars
  BY <1>15 DEF vars, RecoveryInv, TypeOK
<1>16. QED
  BY <1>1, <1>2, <1>3, <1>4, <1>5, <1>6, <1>7, <1>8, <1>9, <1>10, <1>11, <1>12,
     <1>13, <1>14, <1>15 DEF Next, Recover, Route

-------------------------------------------------------------------------------
(* What a step does to the rows, and to one worker.                        *)

\* A row that is written gets a later time stamp, and is not one that a claim
\* which goes on has read and holds.
Kept(d) == wide'[d] = wide[d] /\ limit'[d] = limit[d]
Written(d) ==
    /\ wide[d].updated < wide'[d].updated /\ wide'[d].updated <= now
    /\ limit'[d] <= wide'[d].updated + Rate
    /\ wide[d].until > 0 => wide'[d].until > 0
    /\ \A q \in Worker : pc[q] = "claim" /\ pc'[q] = "claim" =>
           d > Date(started[q]) /\ expected[q][d].until = 0

LEMMA FreeRow ==
    ASSUME RecoveryInv, NEW d \in Day, RowFree(d),
           d = Date(now) \/ wide[d].until > 0,
           NEW q \in Worker, pc[q] = "claim"
    PROVE  d > Date(started[q]) /\ expected[q][d].until = 0
<1>1. /\ started[q] \in Time /\ started[q] <= now
      /\ \A e \in Day : e <= Date(started[q]) => wide[e] = expected[q][e]
      /\ expected[q][d].until \in Nat /\ now \in Time
  BY DEF RecoveryInv, TypeOK, ClaimInv, Row
<1>2. Date(started[q]) <= Date(now) /\ Date(started[q]) \in Day /\ Date(now) \in Day
  BY <1>1, Dates
<1>3. d \in Nat /\ Date(started[q]) \in Nat
  BY <1>2 DEF Day
<1>4. d # Date(started[q]) /\ expected[q][d].until = 0
  BY <1>1 DEF RowFree, Holds
<1>5. ASSUME d < Date(started[q]) PROVE FALSE
  BY <1>1, <1>2, <1>3, <1>4, <1>5 DEF Day
<1>6. QED
  BY <1>3, <1>4, <1>5

LEMMA MarkWrites ==
    ASSUME RecoveryInv, NEW a \in {Auth, Limited}, Mark(a), NEW d \in Day
    PROVE  Kept(d) \/ Written(d)
<1> DEFINE e == Date(now)
<1>1. now \in Nat /\ e \in Day /\ wide[e] \in Row
  BY TypeFacts DEF RecoveryInv, TypeOK
<1>2. CASE d # e
  BY <1>1, <1>2 DEF Mark, Kept, RecoveryInv, TypeOK
<1>3. CASE d = e
  <2>1. /\ wide'[d] = Marked(wide[d], a, now)
        /\ wide[d].updated < now /\ RowFree(d)
    BY <1>1, <1>3 DEF Mark, Writable, RecoveryInv, TypeOK
  <2>2. wide'[d].updated = now /\ wide'[d].until > now
    BY <1>1, <1>3, <2>1, MarkedRow
  <2>3. limit'[d] <= now + Rate
    <3>1. CASE a = Limited
      BY <1>1, <1>3, <3>1, LedgerAssumption DEF Mark, RecoveryInv, TypeOK
    <3>2. CASE a # Limited
      <4>1. limit' = limit
        BY <3>2 DEF Mark
      <4>2. limit[d] <= wide[d].updated + Rate /\ limit[d] \in Nat /\ wide[d].updated \in Nat
        BY <1>1, <1>3 DEF RecoveryInv, RowInv, TypeOK, Row
      <4>3. QED
        BY <1>1, <2>1, <4>1, <4>2, LedgerAssumption
    <3>3. QED
      BY <3>1, <3>2
  <2>4. wide'[d].until > 0
    <3>1. wide'[d] \in Row
      BY <1>1, <1>3, <2>1, MarkedRow
    <3>2. wide'[d].until \in Nat
      BY <3>1 DEF Row
    <3>3. QED
      BY <1>1, <2>2, <3>2
  <2>5. QED
    BY <1>1, <1>3, <2>1, <2>2, <2>3, <2>4, FreeRow DEF Written
<1>4. QED
  BY <1>2, <1>3

LEMMA RowStep ==
    ASSUME RecoveryInv, [Next]_vars, NEW d \in Day
    PROVE  Kept(d) \/ Written(d)
<1> USE DEF ledger, process, routing, counts
<1>0. /\ now \in Nat /\ Date(now) \in Day /\ wide[d] \in Row /\ limit[d] \in Nat
      /\ limit[d] <= wide[d].updated + Rate
      /\ wide[d].updated \in Nat /\ wide[d].until \in Nat
      /\ \A p \in Worker : Date(started[p]) \in Day /\ started[p] \in Nat
  BY TypeFacts DEF RecoveryInv, RowInv, TypeOK, Row
<1>1. CASE UNCHANGED <<wide, limit>>
  BY <1>1 DEF Kept
<1>2. ASSUME NEW p \in Worker, CommitClaim(p) PROVE Kept(d) \/ Written(d)
  <2> DEFINE e == Date(started[p])
  <2>1. wide' = [wide EXCEPT ![e] = Reserved(@, started[p])] /\ limit' = limit
    BY <1>2 DEF CommitClaim
  <2>2. CASE d # e
    BY <1>0, <2>1, <2>2 DEF Kept, RecoveryInv, TypeOK
  <2>3. CASE d = e
    <3>1. /\ wide[d] = expected[p][d] /\ HasCapacity(expected[p][d], started[p])
          /\ expected[p][d].updated < started[p] /\ started[p] <= now
      <4>1. e <= e
        BY <1>0 DEF Day
      <4>2. QED
        BY <1>0, <1>2, <2>3, <4>1 DEF CommitClaim, RecoveryInv, ClaimInv
    <3>2. wide'[d] = Reserved(wide[d], started[p])
      BY <1>0, <2>1, <2>3 DEF RecoveryInv, TypeOK
    <3>3. wide'[d].updated = started[p] /\ wide'[d].until = wide[d].until
      BY <1>0, <3>1, <3>2, ReservedRow
    <3>4. \A q \in Worker : ~(pc[q] = "claim" /\ pc'[q] = "claim")
      BY <1>2 DEF CommitClaim, Go, RecoveryInv, OneClaim, TypeOK
    <3>5. limit'[d] <= wide'[d].updated + Rate
      BY <1>0, <2>1, <3>1, <3>3, LedgerAssumption
    <3>6. QED
      BY <3>1, <3>3, <3>4, <3>5 DEF Written
  <2>4. QED
    BY <2>2, <2>3
<1>3. ASSUME NEW p \in Worker, Finish(p) PROVE Kept(d) \/ Written(d)
  <2>1. CASE answer[p] \in {Auth, Limited} /\ Mark(answer[p])
    BY <2>1, MarkWrites
  <2>2. CASE /\ wide' = [e \in Day |->
                            IF expected[p][e].until = 0 THEN wide[e]
                            ELSE [wide[e] EXCEPT !.until = now, !.updated = now]]
             /\ \A e \in Day : expected[p][e].until > 0 => wide[e].updated < now
             /\ UNCHANGED limit
    <3>0. /\ expected[p][d].until \in Nat /\ pc[p] = "finish"
          /\ wide[d].until > 0 => RowFree(d)
      <4>1. expected[p][d].until \in Nat
        BY DEF RecoveryInv, TypeOK, Row
      <4>2. pc[p] = "finish" /\ \A e \in Day : wide[e].until > 0 => RowFree(e)
        BY <1>3, Zenon DEF Finish
      <4>3. QED
        BY <4>1, <4>2
    <3>1. CASE expected[p][d].until = 0
      BY <2>2, <3>1 DEF Kept
    <3>2. CASE expected[p][d].until # 0
      <4>1. /\ wide'[d].updated = now /\ wide'[d].until = now
            /\ wide[d].updated < now
        <5>1. wide'[d] = [wide[d] EXCEPT !.until = now, !.updated = now]
          BY <2>2, <3>2
        <5>2. wide[d].updated < now
          <6>1. expected[p][d].until > 0
            BY <3>0, <3>2
          <6>2. QED
            BY <2>2, <6>1, Zenon
        <5>3. QED
          BY <1>0, <5>1, <5>2 DEF Row
      <4>2. wide[d].until > 0
        BY <3>0, <3>2 DEF RecoveryInv, PendingInv
      <4>3. \A q \in Worker : pc[q] = "claim" =>
                d > Date(started[q]) /\ expected[q][d].until = 0
        BY <3>0, <4>2, FreeRow
      <4>4. limit'[d] <= now + Rate /\ now > 0
        <5>1. limit'[d] = limit[d]
          BY <2>2
        <5>2. now > 0
          BY <1>0 DEF RecoveryInv, TypeOK
        <5>3. QED
          BY <1>0, <4>1, <5>1, <5>2, LedgerAssumption
      <4>5. QED
        BY <1>0, <4>1, <4>3, <4>4 DEF Written
    <3>3. QED
      BY <3>1, <3>2
  <2>3. CASE UNCHANGED <<wide, limit>>
    BY <1>1, <2>3
  <2>4. QED
    BY <1>3, <2>1, <2>2, <2>3, Zenon DEF Finish
<1>4. ASSUME NEW t \in Thread, ReserveWide(t) PROVE Kept(d) \/ Written(d)
  <2>1. CASE d # Date(now)
    BY <1>0, <1>4, <2>1 DEF ReserveWide, Kept, RecoveryInv, TypeOK
  <2>2. CASE d = Date(now)
    <3>1. /\ wide'[d] = Reserved(wide[d], now) /\ wide[d].updated < now
          /\ HasCapacity(wide[d], now) /\ RowFree(d) /\ limit' = limit
      BY <1>0, <1>4, <2>2 DEF ReserveWide, Writable, RecoveryInv, TypeOK
    <3>2. wide'[d].updated = now /\ wide'[d].until = wide[d].until
      BY <1>0, <3>1, ReservedRow
    <3>3. limit'[d] <= now + Rate
      BY <1>0, <3>1, LedgerAssumption
    <3>4. QED
      BY <1>0, <2>2, <3>1, <3>2, <3>3, FreeRow DEF Written
  <2>3. QED
    BY <2>1, <2>2
<1>5. ASSUME NEW t \in Thread, NEW a \in {Auth, Limited}, RecordFailure(t, a)
      PROVE  Kept(d) \/ Written(d)
  <2>1. CASE Mark(a)
    BY <2>1, MarkWrites
  <2>2. CASE UNCHANGED <<wide, limit>>
    BY <1>1, <2>2
  <2>3. QED
    BY <1>5, <2>1, <2>2 DEF RecordFailure
<1>6. ASSUME NEW p \in Worker, NEW a \in Outcome, Probe(p, a)
      PROVE  UNCHANGED <<wide, limit>>
  BY <1>6 DEF Probe
<1>7. ASSUME NEW p \in Worker, NEW c \in Cred, Crash(p, c)
      PROVE  UNCHANGED <<wide, limit>>
  BY <1>7 DEF Crash
<1>8. ASSUME NEW p \in Worker, BeginClaim(p) \/ SkipRecovery(p) \/ FinishFails(p)
      PROVE  UNCHANGED <<wide, limit>>
  BY <1>8 DEF BeginClaim, SkipRecovery, FinishFails
<1>9. ASSUME NEW t \in Thread, Check(t) \/ ReserveHistory(t) \/ Refused(t)
      PROVE  UNCHANGED <<wide, limit>>
  BY <1>9 DEF Check, ReserveHistory, Refused
<1>10. ASSUME NEW t \in Thread, NEW a \in Outcome, Send(t, a)
       PROVE  UNCHANGED <<wide, limit>>
  BY <1>10 DEF Send
<1>11. Tick \/ UNCHANGED vars => UNCHANGED <<wide, limit>>
  BY DEF Tick, vars
<1>12. QED
  BY <1>1, <1>2, <1>3, <1>4, <1>5, <1>6, <1>7, <1>8, <1>9, <1>10, <1>11
     DEF Next, Recover, Route

\* A process that is claiming, or has claimed, has just begun to, or has what it
\* had.
Holding(q) ==
    /\ started'[q] = started[q] /\ expected'[q] = expected[q]
    /\ pc[q] = "claim" => used'[Date(started[q])] = used[Date(started[q])]
Phases(q) ==
    /\ pc'[q] = "claim" => BeginClaim(q) \/ (pc[q] = "claim" /\ Holding(q))
    /\ pc'[q] \in {"probe", "finish"} =>
           CommitClaim(q) \/ (pc[q] \in {"probe", "finish"} /\ Holding(q))

LEMMA PhaseStep ==
    ASSUME RecoveryInv, [Next]_vars, NEW q \in Worker
    PROVE  Phases(q)
<1> USE DEF ledger, process, routing, counts
<1>0. /\ Date(started[q]) \in Day /\ Date(now) \in Day
      /\ pc \in [Worker -> PC] /\ used \in [Day -> 0..Budget]
      /\ started \in [Worker -> Time] /\ expected \in [Worker -> [Day -> Row]]
  BY TypeFacts DEF RecoveryInv, TypeOK
<1>1. ASSUME NEW p \in Worker, BeginClaim(p) PROVE Phases(q)
  BY <1>0, <1>1 DEF BeginClaim, Go, Phases, Holding
<1>2. ASSUME NEW p \in Worker, CommitClaim(p) PROVE Phases(q)
  <2>1. CASE p = q
    BY <1>0, <1>2, <2>1 DEF CommitClaim, Go, Phases
  <2>2. CASE p # q
    BY <1>0, <1>2, <2>2 DEF CommitClaim, Go, Phases, Holding, RecoveryInv, OneClaim
  <2>3. QED
    BY <2>1, <2>2
<1>3. ASSUME NEW p \in Worker, SkipRecovery(p) PROVE Phases(q)
  BY <1>0, <1>3 DEF SkipRecovery, Done, Go, Phases, Holding
<1>4. ASSUME NEW p \in Worker, NEW a \in Outcome, Probe(p, a) PROVE Phases(q)
  BY <1>0, <1>4 DEF Probe, Go, Phases, Holding
<1>5. ASSUME NEW p \in Worker, Finish(p) PROVE Phases(q)
  <2>1. /\ pc' = [pc EXCEPT ![p] = "on"] /\ used' = used
        /\ started' = [started EXCEPT ![p] = 0]
        /\ expected' = [expected EXCEPT ![p] = NoRows]
    BY <1>5, Zenon DEF Finish, Done, Go
  <2>2. QED
    BY <1>0, <2>1 DEF Phases, Holding
<1>6. ASSUME NEW p \in Worker, FinishFails(p) PROVE Phases(q)
  BY <1>0, <1>6 DEF FinishFails, Done, Go, Phases, Holding
<1>7. ASSUME NEW t \in Thread, Route(t) PROVE Phases(q)
  <2>1. UNCHANGED <<pc, started, expected>>
    BY <1>7, RouteKeeps
  <2>2. pc[q] = "claim" => used'[Date(started[q])] = used[Date(started[q])]
    <3>1. CASE ReserveHistory(t)
      BY <1>0, <3>1 DEF ReserveHistory, Paid
    <3>2. CASE used' = used
      BY <3>2
    <3>3. QED
      BY <1>7, <3>1, <3>2 DEF Route, Check, ReserveWide, Refused, Send, RecordFailure
  <2>3. QED
    BY <2>1, <2>2 DEF Phases, Holding
<1>8. ASSUME NEW p \in Worker, NEW c \in Cred, Crash(p, c) PROVE Phases(q)
  BY <1>0, <1>8 DEF Crash, Phases, Holding
<1>9. CASE Tick
  BY <1>0, <1>9 DEF Tick, Phases, Holding
<1>10. CASE UNCHANGED vars
  BY <1>0, <1>10 DEF vars, Phases, Holding
<1>11. QED
  BY <1>1, <1>2, <1>3, <1>4, <1>5, <1>6, <1>7, <1>8, <1>9, <1>10 DEF Next, Recover

-------------------------------------------------------------------------------
(* The invariant.                                                          *)

LEMMA TimeStep ==
    ASSUME RecoveryInv, [Next]_vars
    PROVE  now' \in Nat /\ now <= now'
<1>1. now \in Nat
  BY TypeFacts DEF RecoveryInv
<1>2. now' = now \/ now' = now + 1
  BY RouteKeeps DEF Next, Recover, BeginClaim, CommitClaim, SkipRecovery, Probe, Finish,
     FinishFails, Crash, Tick, vars
<1>3. QED
  BY <1>1, <1>2

LEMMA ClaimStep ==
    ASSUME RecoveryInv, [Next]_vars
    PROVE  ClaimInv'
<1> SUFFICES ASSUME NEW p \in Worker, pc'[p] = "claim"
             PROVE  LET s == started'[p] IN
                    /\ 0 < s /\ s <= now'
                    /\ \A d \in Day : d <= Date(s) \/ expected'[p][d].until > 0 =>
                           wide'[d] = expected'[p][d]
                    /\ HasCapacity(expected'[p][Date(s)], s)
                    /\ expected'[p][Date(s)].updated < s
                    /\ used'[Date(s)] < Budget
                    /\ \A d \in Day : expected'[p][d].until > s =>
                           expected'[p][d].failure = Auth
                           /\ expected'[p][d].updated <= s /\ limit'[d] <= s
  BY DEF ClaimInv
<1>0. /\ now \in Nat /\ now \in Time \ {0} /\ now' \in Nat /\ now <= now' /\ Date(now) \in Day
      /\ started[p] \in Nat /\ Date(started[p]) \in Day /\ used \in [Day -> 0..Budget]
      /\ \A d \in Day : /\ d \in Nat /\ wide[d].updated \in Nat /\ limit[d] \in Nat
                        /\ expected[p][d].until \in Nat
  BY TimeStep, TypeFacts DEF RecoveryInv, TypeOK, Row
<1>1. CASE BeginClaim(p)
  <2>1. /\ started'[p] = now /\ expected'[p] = wide /\ UNCHANGED <<wide, used, limit>>
        /\ wide[Date(now)].updated < now /\ HasCapacity(wide[Date(now)], now)
        /\ BelowBudget(used[Date(now)])
    BY <1>1 DEF BeginClaim, Writable, ledger, counts, RecoveryInv, TypeOK
  <2>2. ASSUME NEW d \in Day, wide[d].until > now
        PROVE  wide[d].failure = Auth /\ wide[d].updated <= now /\ limit[d] <= now
    <3>1. wide[d].failure = Auth /\ now - wide[d].updated >= Rate
      BY <1>1, <2>2 DEF BeginClaim, Eligible, EligibleRow, OldEnough
    <3>2. wide[d].updated <= now /\ limit[d] <= wide[d].updated + Rate
      BY DEF RecoveryInv, RowInv
    <3>3. QED
      BY <1>0, <3>1, <3>2, LedgerAssumption
  <2>3. used[Date(now)] < Budget
    BY <1>0, <2>1, LedgerAssumption DEF BelowBudget
  <2>4. QED
    BY <1>0, <2>1, <2>2, <2>3
<1>2. CASE pc[p] = "claim" /\ Holding(p)
  <2> DEFINE s == started[p]
  <2>1. /\ 0 < s /\ s <= now
        /\ \A d \in Day : d <= Date(s) \/ expected[p][d].until > 0 =>
               wide[d] = expected[p][d]
        /\ HasCapacity(expected[p][Date(s)], s)
        /\ expected[p][Date(s)].updated < s
        /\ used[Date(s)] < Budget
        /\ \A d \in Day : expected[p][d].until > s =>
               expected[p][d].failure = Auth /\ expected[p][d].updated <= s /\ limit[d] <= s
    BY <1>2 DEF RecoveryInv, ClaimInv
  <2>2. started'[p] = s /\ expected'[p] = expected[p] /\ used'[Date(s)] = used[Date(s)]
    BY <1>2 DEF Holding
  <2>3. ASSUME NEW d \in Day, d <= Date(s) \/ expected[p][d].until > 0
        PROVE  wide'[d] = wide[d] /\ limit'[d] = limit[d]
    <3>1. CASE Kept(d)
      BY <3>1 DEF Kept
    <3>2. CASE Written(d)
      <4>1. d > Date(s) /\ expected[p][d].until = 0
        BY <1>2, <3>2 DEF Written
      <4>2. QED
        BY <1>0, <2>3, <4>1
    <3>3. QED
      BY <3>1, <3>2, RowStep
  <2>4. \A d \in Day : expected[p][d].until > s => expected[p][d].until > 0
    BY <1>0
  <2>5. s <= now'
    BY <1>0, <2>1
  <2> HIDE DEF s
  <2>6. QED
    BY <2>1, <2>2, <2>3, <2>4, <2>5
<1>3. QED
  BY <1>1, <1>2, PhaseStep DEF Phases

LEMMA OneClaimStep ==
    ASSUME RecoveryInv, [Next]_vars
    PROVE  OneClaim'
<1> SUFFICES ASSUME NEW p \in Worker, NEW q \in Worker, pc'[p] = "claim", pc'[q] = "claim"
             PROVE  p = q
  BY DEF OneClaim
<1>1. ASSUME NEW r \in Worker, BeginClaim(r), NEW u \in Worker, pc'[u] = "claim"
      PROVE  u = r
  BY <1>1 DEF BeginClaim, Go, RecoveryInv, TypeOK
<1>2. QED
  BY <1>1, PhaseStep DEF Phases, RecoveryInv, OneClaim

LEMMA PendingStep ==
    ASSUME RecoveryInv, [Next]_vars
    PROVE  PendingInv'
<1> SUFFICES ASSUME NEW p \in Worker, pc'[p] \in {"probe", "finish"},
                    NEW d \in Day, expected'[p][d].until > 0
             PROVE  /\ wide'[d].until > 0
                    /\ expected'[p][d].updated <= wide'[d].updated
                    /\ wide'[d].updated = expected'[p][d].updated =>
                           \/ d > Date(started'[p])
                           \/ /\ expected'[p][d].failure = Auth
                              /\ expected'[p][d].updated <= started'[p]
                              /\ limit'[d] <= started'[p]
  BY DEF PendingInv, Clean
<1>0. /\ started[p] \in Nat /\ Date(started[p]) \in Day /\ d \in Nat
      /\ wide[d].updated \in Nat /\ limit[d] \in Nat /\ now \in Nat
      /\ wide[d] \in Row /\ expected[p][d].updated \in Nat
      /\ wide \in [Day -> Row] /\ expected \in [Worker -> [Day -> Row]]
  BY TypeFacts DEF RecoveryInv, TypeOK, Row
<1>t. wide' \in [Day -> Row]
  BY TypeStep DEF TypeOK
<1>1. CASE CommitClaim(p)
  <2> DEFINE s == started[p]
             e == Date(s)
  <2>1. /\ expected'[p] = ActiveIn(wide', s) /\ started'[p] = s /\ limit' = limit
        /\ wide' = [wide EXCEPT ![e] = Reserved(@, s)] /\ pc[p] = "claim"
    BY <1>0, <1>1 DEF CommitClaim, counts
  <2>2. wide'[d].until > s /\ expected'[p][d] = wide'[d]
    <3>1. expected'[p][d] = IF wide'[d].until > s THEN wide'[d] ELSE NoRow
      BY <2>1 DEF ActiveIn
    <3>2. NoRow.until = 0
      BY DEF NoRow
    <3>3. QED
      BY <3>1, <3>2
  <2>3. ASSUME d <= e
        PROVE  wide'[d].failure = Auth /\ wide'[d].updated <= s /\ limit[d] <= s
    <3>1. /\ wide[d] = expected[p][d]
          /\ HasCapacity(expected[p][e], s)
          /\ expected[p][d].until > s =>
               expected[p][d].failure = Auth /\ expected[p][d].updated <= s /\ limit[d] <= s
      BY <2>1, <2>3 DEF RecoveryInv, ClaimInv
    <3>2. CASE d = e
      <4>1. wide'[d] = Reserved(wide[d], s) /\ HasCapacity(wide[d], s)
        BY <1>0, <2>1, <3>1, <3>2
      <4>2. /\ wide'[d].updated = s /\ wide'[d].until = wide[d].until
            /\ wide'[d].failure = wide[d].failure
        BY <1>0, <4>1, ReservedRow
      <4>3. QED
        BY <1>0, <2>2, <3>1, <4>2
    <3>3. CASE d # e
      <4>1. wide'[d] = wide[d]
        BY <1>0, <2>1, <3>3
      <4>2. QED
        BY <2>2, <3>1, <4>1
    <3>4. QED
      BY <3>2, <3>3
  <2>4. wide'[d].until > 0 /\ wide'[d].updated <= wide'[d].updated
    BY <1>0, <1>t, <2>2 DEF Row
  <2>5. d <= e \/ d > e
    BY <1>0 DEF Day
  <2> HIDE DEF s, e
  <2>6. QED
    BY <2>1, <2>2, <2>3, <2>4, <2>5 DEF e
<1>2. CASE pc[p] \in {"probe", "finish"} /\ Holding(p)
  <2>1. /\ expected'[p] = expected[p] /\ started'[p] = started[p]
        /\ expected[p][d].until > 0
    BY <1>2 DEF Holding
  <2>2. /\ wide[d].until > 0
        /\ expected[p][d].updated <= wide[d].updated
        /\ wide[d].updated = expected[p][d].updated =>
               d > Date(started[p]) \/ Clean(p, d)
    BY <1>2, <2>1 DEF RecoveryInv, PendingInv
  <2>3. CASE Kept(d)
    BY <2>1, <2>2, <2>3 DEF Kept, Clean
  <2>4. CASE Written(d)
    <3>1. /\ wide[d].updated < wide'[d].updated /\ wide'[d].until > 0
          /\ wide'[d].updated \in Nat
      BY <1>t, <2>2, <2>4 DEF Written, Row
    <3>2. expected[p][d].updated < wide'[d].updated
      BY <1>0, <2>2, <3>1
    <3>3. QED
      BY <1>0, <2>1, <3>1, <3>2
  <2>5. QED
    BY <2>3, <2>4, RowStep
<1>3. QED
  BY <1>1, <1>2, PhaseStep DEF Phases

LEMMA RowInvStep ==
    ASSUME RecoveryInv, [Next]_vars
    PROVE  RowInv'
<1> SUFFICES ASSUME NEW d \in Day
             PROVE  wide'[d].updated <= now' /\ limit'[d] <= wide'[d].updated + Rate
  BY DEF RowInv
<1>1. now \in Nat /\ now' \in Nat /\ now <= now'
  BY TimeStep, TypeFacts DEF RecoveryInv
<1>2. wide[d].updated \in Nat /\ wide'[d].updated \in Nat
  BY TypeStep DEF RecoveryInv, TypeOK, Row
<1>3. CASE Kept(d)
  BY <1>1, <1>2, <1>3 DEF Kept, RecoveryInv, RowInv
<1>4. CASE Written(d)
  BY <1>1, <1>2, <1>4 DEF Written
<1>5. QED
  BY <1>3, <1>4, RowStep

LEMMA AnswerStep ==
    ASSUME RecoveryInv, [Next]_vars
    PROVE  AnswerInv'
<1> USE DEF AnswerInv, ledger, process, routing, counts
<1>0. /\ AnswerInv /\ pc \in [Worker -> PC] /\ pair \in [Worker -> Cred]
      /\ answer \in [Worker -> Outcome \cup {"none"}]
  BY DEF RecoveryInv, TypeOK
<1>1. ASSUME NEW p \in Worker, BeginClaim(p) PROVE AnswerInv'
  BY <1>0, <1>1 DEF BeginClaim, Go
<1>2. ASSUME NEW p \in Worker, CommitClaim(p) PROVE AnswerInv'
  BY <1>0, <1>2 DEF CommitClaim, Go
<1>3. ASSUME NEW p \in Worker, SkipRecovery(p) PROVE AnswerInv'
  BY <1>0, <1>3 DEF SkipRecovery, Done, Go
<1>4. ASSUME NEW p \in Worker, NEW a \in Outcome, Probe(p, a) PROVE AnswerInv'
  <2>1. /\ a # "none" /\ (a = "bars" => pair[p] \in Good)
        /\ pc' = [pc EXCEPT ![p] = "finish"] /\ answer' = [answer EXCEPT ![p] = a]
        /\ pair' = pair
    BY <1>4 DEF Probe, Go, Answers, Outcome, Auth, Limited
  <2>2. QED
    BY <1>0, <2>1
<1>5. ASSUME NEW p \in Worker, Finish(p) PROVE AnswerInv'
  <2>1. /\ pc' = [pc EXCEPT ![p] = "on"] /\ answer' = [answer EXCEPT ![p] = "none"]
        /\ pair' = pair
    BY <1>5, Zenon DEF Finish, Done, Go
  <2>2. QED
    BY <1>0, <2>1
<1>6. ASSUME NEW p \in Worker, FinishFails(p) PROVE AnswerInv'
  BY <1>0, <1>6 DEF FinishFails, Done, Go
<1>7. ASSUME NEW t \in Thread, Route(t) PROVE AnswerInv'
  BY <1>0, <1>7, RouteKeeps
<1>8. ASSUME NEW p \in Worker, NEW c \in Cred, Crash(p, c) PROVE AnswerInv'
  BY <1>0, <1>8 DEF Crash
<1>9. CASE Tick
  BY <1>0, <1>9 DEF Tick
<1>10. CASE UNCHANGED vars
  BY <1>0, <1>10 DEF vars
<1>11. QED
  BY <1>1, <1>2, <1>3, <1>4, <1>5, <1>6, <1>7, <1>8, <1>9, <1>10 DEF Next, Recover

\* The initial states.
LEMMA RecoveryInit == Init => RecoveryInv
<1> SUFFICES ASSUME Init PROVE RecoveryInv
  OBVIOUS
<1>1. /\ NoRow \in Row /\ 0 \in Time /\ 1 \in Time /\ 0 \in Nat
      /\ MaxCrashes \in Nat /\ Budget \in Nat /\ Rate \in Nat /\ 0 \in 0..(Pages - 1)
  BY LedgerAssumption DEF NoRow, Row, Time
<1>2. 0 \in Day
  <2>1. MaxTime \in Time
    BY LedgerAssumption DEF Time
  <2>2. Date(MaxTime) \in Day
    BY <2>1, Dates
  <2>3. QED
    BY <2>2 DEF Day
<1>3. TypeOK
  BY <1>1, <1>2 DEF Init, TypeOK, NoRows, PC, Step
<1>4. RowInv
  BY <1>1 DEF Init, RowInv, NoRows, NoRow
<1>5. ClaimInv /\ OneClaim /\ PendingInv /\ AnswerInv
  BY DEF Init, ClaimInv, OneClaim, PendingInv, AnswerInv
<1>6. QED
  BY <1>3, <1>4, <1>5 DEF RecoveryInv

\* The rows, receipts and counters keep their types, and what a recovery knows
\* of the rows stays true.
THEOREM RecoveryInvariant == Spec => []RecoveryInv
<1>1. RecoveryInv /\ [Next]_vars => RecoveryInv'
  BY TypeStep, ClaimStep, OneClaimStep, PendingStep, RowInvStep, AnswerStep DEF RecoveryInv
<1>2. QED
  BY <1>1, RecoveryInit, PTL DEF Spec

\* Every row keeps its capacity, and every variable its type: reserve_provider_
\* budget_db and mark_provider_cooldown_db never corrupt the ledger.
THEOREM LedgerTypeCorrect == Spec => []TypeOK
<1>1. RecoveryInv => TypeOK
  BY DEF RecoveryInv
<1>2. QED
  BY <1>1, RecoveryInvariant, PTL

-------------------------------------------------------------------------------
(* A pair is probed at most once.                                          *)

ProbeInv ==
    /\ \A p \in Worker :
        /\ pc[p] = "claim" => receipt[pair[p]] = "none"
        /\ pc[p] = "probe" => receipt[pair[p]] = "CLAIMED" /\ probes[pair[p]] = 0
        /\ pc[p] = "finish" => receipt[pair[p]] = "CLAIMED" /\ probes[pair[p]] = 1
    /\ \A p, q \in Worker :
        p # q /\ pc[p] \in {"probe", "finish"} /\ pc[q] \in {"probe", "finish"} =>
            pair[p] # pair[q]
    /\ ProbedOnce

Quiet ==
    /\ receipt' = receipt /\ probes' = probes
    /\ \A q \in Worker : pc'[q] \in {"claim", "probe", "finish"} =>
           pc'[q] = pc[q] /\ pair'[q] = pair[q]

LEMMA ProbeStep ==
    ASSUME RecoveryInv, ProbeInv, [Next]_vars
    PROVE  ProbeInv'
<1> USE DEF ledger, process, routing, counts
<1>0. /\ pc \in [Worker -> PC] /\ pair \in [Worker -> Cred] /\ probes \in [Cred -> Nat]
      /\ receipt \in [Cred -> {"none", "CLAIMED", "DONE", "AUTHENTICATED"}]
  BY DEF RecoveryInv, TypeOK
<1>q. Quiet => ProbeInv'
  BY <1>0 DEF Quiet, ProbeInv, ProbedOnce
<1>1. ASSUME NEW p \in Worker, BeginClaim(p) PROVE ProbeInv'
  <2>1. /\ pc' = [pc EXCEPT ![p] = "claim"] /\ receipt[pair[p]] = "none"
        /\ receipt' = receipt /\ probes' = probes /\ pair' = pair
    BY <1>1 DEF BeginClaim, Go, NeverClaimed
  <2>2. QED
    BY <1>0, <2>1 DEF ProbeInv, ProbedOnce
<1>2. ASSUME NEW p \in Worker, CommitClaim(p) PROVE ProbeInv'
  <2>1. /\ pc' = [pc EXCEPT ![p] = "probe"]
        /\ receipt' = [receipt EXCEPT ![pair[p]] = "CLAIMED"]
        /\ probes' = probes /\ pair' = pair
        /\ pc[p] = "claim" /\ \A q \in Worker : pc[q] = "claim" => q = p
    BY <1>2 DEF CommitClaim, Go, RecoveryInv, OneClaim
  <2>2. receipt[pair[p]] = "none" /\ probes[pair[p]] = 0
    BY <1>0, <2>1 DEF ProbeInv, ProbedOnce
  <2>3. QED
    BY <1>0, <2>1, <2>2 DEF ProbeInv, ProbedOnce
<1>3. ASSUME NEW p \in Worker, SkipRecovery(p) PROVE Quiet
  BY <1>0, <1>3 DEF SkipRecovery, Done, Go, Quiet
<1>4. ASSUME NEW p \in Worker, NEW a \in Outcome, Probe(p, a) PROVE ProbeInv'
  <2>1. /\ pc' = [pc EXCEPT ![p] = "finish"]
        /\ probes' = [probes EXCEPT ![pair[p]] = @ + 1]
        /\ receipt' = receipt /\ pair' = pair /\ pc[p] = "probe"
    BY <1>4 DEF Probe, Go
  <2>2. /\ receipt[pair[p]] = "CLAIMED" /\ probes[pair[p]] = 0
        /\ \A q \in Worker : q # p /\ pc[q] \in {"claim", "probe", "finish"} =>
               pair[q] # pair[p]
    BY <1>0, <2>1 DEF ProbeInv
  <2>3. probes'[pair[p]] = 1 /\ \A c \in Cred : c # pair[p] => probes'[c] = probes[c]
    BY <1>0, <2>1, <2>2
  <2>4. QED
    BY <1>0, <2>1, <2>2, <2>3 DEF ProbeInv, ProbedOnce
<1>5. ASSUME NEW p \in Worker, Finish(p) PROVE ProbeInv'
  <2>1. /\ pc' = [pc EXCEPT ![p] = "on"] /\ probes' = probes /\ pair' = pair
        /\ pc[p] = "finish"
        /\ \/ /\ answer[p] = "bars"
              /\ receipt' = [receipt EXCEPT ![pair[p]] = "AUTHENTICATED"]
           \/ receipt' = [receipt EXCEPT ![pair[p]] = "DONE"]
    BY <1>5, Zenon DEF Finish, Done, Go
  <2>2. /\ receipt[pair[p]] = "CLAIMED" /\ probes[pair[p]] = 1
        /\ \A q \in Worker : q # p /\ pc[q] \in {"claim", "probe", "finish"} =>
               pair[q] # pair[p]
        /\ answer[p] = "bars" => pair[p] \in Good
    BY <1>0, <2>1 DEF ProbeInv, RecoveryInv, AnswerInv
  <2>3. QED
    BY <1>0, <2>1, <2>2 DEF ProbeInv, ProbedOnce
<1>6. ASSUME NEW p \in Worker, FinishFails(p) PROVE Quiet
  BY <1>0, <1>6 DEF FinishFails, Done, Go, Quiet
<1>7. ASSUME NEW t \in Thread, Route(t) PROVE Quiet
  BY <1>7, RouteKeeps DEF Quiet
<1>8. ASSUME NEW p \in Worker, NEW c \in Cred, Crash(p, c) PROVE Quiet
  BY <1>0, <1>8 DEF Crash, Quiet
<1>9. CASE Tick
  BY <1>0, <1>9, <1>q DEF Tick, Quiet
<1>10. CASE UNCHANGED vars
  BY <1>0, <1>10, <1>q DEF vars, Quiet
<1>11. QED
  BY <1>q, <1>1, <1>2, <1>3, <1>4, <1>5, <1>6, <1>7, <1>8, <1>9, <1>10 DEF Next, Recover

LEMMA ProbeInvariant == Spec => []ProbeInv
<1>1. Init => ProbeInv
  BY DEF Init, ProbeInv, ProbedOnce
<1>2. RecoveryInv /\ ProbeInv /\ [Next]_vars => ProbeInv'
  BY ProbeStep
<1>3. QED
  BY <1>1, <1>2, RecoveryInvariant, PTL DEF Spec

\* alpaca_auth_recovery.recover sends at most one request for a pair, ever,
\* however many processes start, crash and start again.
THEOREM NeverProbedTwice == Spec => []ProbedOnce
<1>1. ProbeInv => ProbedOnce
  BY DEF ProbeInv
<1>2. QED
  BY <1>1, ProbeInvariant, PTL

-------------------------------------------------------------------------------
(* Only a recovery that was answered ends a cooldown early.                *)

Cleared(p) ==
    /\ pc[p] = "finish" /\ answer[p] = "bars" /\ Unchanged(p)
    /\ wide' = [d \in Day |->
                   IF expected[p][d].until = 0 THEN wide[d]
                   ELSE [wide[d] EXCEPT !.until = now, !.updated = now]]
    /\ late' = [t \in Thread |-> 0] /\ now' = now /\ pc' = [pc EXCEPT ![p] = "on"]

LEMMA MarkRaises ==
    ASSUME TypeOK, NEW a \in {Auth, Limited}, Mark(a), NEW d \in Day
    PROVE  wide'[d].until >= wide[d].until
<1>1. now \in Nat /\ Date(now) \in Day /\ wide[d] \in Row
  BY TypeFacts DEF TypeOK
<1>2. CASE d = Date(now)
  <2>1. wide'[d] = Marked(wide[d], a, now)
    BY <1>1, <1>2 DEF Mark, TypeOK
  <2>2. QED
    BY <1>1, <2>1, MarkedRow
<1>3. CASE d # Date(now)
  BY <1>1, <1>3 DEF Mark, TypeOK, Row
<1>4. QED
  BY <1>2, <1>3

LEMMA ReserveKeeps ==
    ASSUME TypeOK, NEW e \in Day, NEW t \in Nat, HasCapacity(wide[e], t),
           wide' = [wide EXCEPT ![e] = Reserved(@, t)], NEW d \in Day
    PROVE  wide'[d].until = wide[d].until
<1>1. wide[e] \in Row /\ wide \in [Day -> Row]
  BY DEF TypeOK
<1>2. wide'[e] = Reserved(wide[e], t) /\ (d # e => wide'[d] = wide[d])
  BY <1>1
<1>3. QED
  BY <1>1, <1>2, ReservedRow

LEMMA CooldownStep ==
    ASSUME RecoveryInv, [Next]_vars
    PROVE  \/ \A d \in Day : wide'[d].until >= wide[d].until
           \/ \E p \in Worker : Cleared(p)
<1> USE DEF ledger, process, routing, counts
<1> DEFINE Raised == \A d \in Day : wide'[d].until >= wide[d].until
<1>0. /\ TypeOK /\ now \in Nat /\ Date(now) \in Day
      /\ \A d \in Day : wide[d] \in Row /\ wide[d].until \in Nat
      /\ \A p \in Worker : started[p] \in Nat /\ Date(started[p]) \in Day
  BY TypeFacts DEF RecoveryInv, TypeOK, Row
<1>1. wide' = wide => Raised
  BY <1>0
<1>2. ASSUME NEW p \in Worker, CommitClaim(p) PROVE Raised
  <2> DEFINE e == Date(started[p])
  <2>1. wide[e] = expected[p][e] /\ HasCapacity(expected[p][e], started[p])
    <3>1. e <= e
      BY <1>0 DEF Day
    <3>2. QED
      BY <1>0, <1>2, <3>1 DEF CommitClaim, RecoveryInv, ClaimInv
  <2>2. wide' = [wide EXCEPT ![e] = Reserved(@, started[p])]
    BY <1>2 DEF CommitClaim
  <2>3. \A d \in Day : wide'[d].until = wide[d].until
    BY <1>0, <2>1, <2>2, ReserveKeeps
  <2>4. QED
    BY <1>0, <2>3
<1>3. ASSUME NEW p \in Worker, Finish(p) PROVE Raised \/ Cleared(p)
  <2>1. /\ pc[p] = "finish" /\ now' = now /\ pc' = [pc EXCEPT ![p] = "on"]
        /\ \/ /\ answer[p] = "bars" /\ Unchanged(p)
              /\ wide' = [d \in Day |->
                             IF expected[p][d].until = 0 THEN wide[d]
                             ELSE [wide[d] EXCEPT !.until = now, !.updated = now]]
              /\ late' = [t \in Thread |-> 0]
           \/ answer[p] \in {Auth, Limited} /\ Mark(answer[p])
           \/ wide' = wide
    BY <1>3, Zenon DEF Finish, Done, Go
  <2>2. CASE answer[p] \in {Auth, Limited} /\ Mark(answer[p])
    BY <1>0, <2>2, MarkRaises
  <2>3. QED
    BY <1>1, <2>1, <2>2, Zenon DEF Cleared
<1>4. ASSUME NEW t \in Thread, ReserveWide(t) PROVE Raised
  <2>1. /\ HasCapacity(wide[Date(now)], now)
        /\ wide' = [wide EXCEPT ![Date(now)] = Reserved(@, now)]
    BY <1>4 DEF ReserveWide
  <2>2. \A d \in Day : wide'[d].until = wide[d].until
    BY <1>0, <2>1, ReserveKeeps
  <2>3. QED
    BY <1>0, <2>2
<1>5. ASSUME NEW t \in Thread, NEW a \in {Auth, Limited}, RecordFailure(t, a) PROVE Raised
  <2>1. CASE Mark(a)
    BY <1>0, <2>1, MarkRaises
  <2>2. QED
    BY <1>1, <1>5, <2>1 DEF RecordFailure
<1>6. ASSUME NEW p \in Worker, NEW a \in Outcome, Probe(p, a) PROVE wide' = wide
  BY <1>6 DEF Probe
<1>7. ASSUME NEW p \in Worker, NEW c \in Cred, Crash(p, c) PROVE wide' = wide
  BY <1>7 DEF Crash
<1>8. ASSUME NEW p \in Worker, BeginClaim(p) \/ SkipRecovery(p) \/ FinishFails(p)
      PROVE  wide' = wide
  BY <1>8 DEF BeginClaim, SkipRecovery, FinishFails
<1>9. ASSUME NEW t \in Thread, Check(t) \/ ReserveHistory(t) \/ Refused(t)
      PROVE  wide' = wide
  BY <1>9 DEF Check, ReserveHistory, Refused
<1>10. ASSUME NEW t \in Thread, NEW a \in Outcome, Send(t, a) PROVE wide' = wide
  BY <1>10 DEF Send
<1>11. Tick \/ UNCHANGED vars => wide' = wide
  BY DEF Tick, vars
<1> HIDE DEF Raised
<1>12. Raised \/ \E p \in Worker : Cleared(p)
  BY <1>1, <1>2, <1>3, <1>4, <1>5, <1>6, <1>7, <1>8, <1>9, <1>10, <1>11
     DEF Next, Recover, Route
<1>13. QED
  BY <1>12 DEF Raised

Preserved ==
    \A d \in Day :
        wide[d].until > now /\ wide'[d].until < wide[d].until =>
            \E p \in Worker :
                /\ pc[p] = "finish" /\ pair[p] \in Good
                /\ \/ d > Date(started[p])
                   \/ /\ wide[d].failure = Auth
                      /\ wide[d].updated <= started[p] /\ limit[d] <= started[p]

LEMMA PreservedStep ==
    ASSUME RecoveryInv, [Next]_vars
    PROVE  Preserved
<1> SUFFICES ASSUME NEW d \in Day, wide[d].until > now, wide'[d].until < wide[d].until
             PROVE  \E p \in Worker :
                        /\ pc[p] = "finish" /\ pair[p] \in Good
                        /\ \/ d > Date(started[p])
                           \/ /\ wide[d].failure = Auth
                              /\ wide[d].updated <= started[p] /\ limit[d] <= started[p]
  BY DEF Preserved
<1>1. wide[d].until \in Nat /\ wide'[d].until \in Nat /\ now \in Nat
  BY TypeStep, TypeFacts DEF RecoveryInv, TypeOK, Row
<1>2. PICK p \in Worker : Cleared(p)
  BY <1>1, CooldownStep
<1>3. pc[p] = "finish" /\ pair[p] \in Good
  BY <1>2 DEF Cleared, RecoveryInv, AnswerInv
<1>4. Guards(ActiveIn(wide, now))[d] = Guards(expected[p])[d]
  BY <1>2 DEF Cleared, Unchanged
<1>5. /\ wide[d].failure = expected[p][d].failure
      /\ wide[d].until = expected[p][d].until
      /\ wide[d].updated = expected[p][d].updated
  BY <1>4 DEF Guards, ActiveIn
<1>6. d > Date(started[p]) \/ Clean(p, d)
  BY <1>1, <1>3, <1>5 DEF RecoveryInv, PendingInv
<1>7. QED
  BY <1>3, <1>5, <1>6 DEF Clean

\* A cooldown in force is ended early only by a recovery with an accepted pair,
\* and never while a rate limit may be behind it (the exception is a row of a
\* later date than the claim's).
THEOREM RateLimitsSurvive == Spec => CooldownsPreserved
<1>1. RecoveryInv /\ [Next]_vars => [Preserved]_vars
  BY PreservedStep
<1>2. QED
  BY <1>1, RecoveryInvariant, PTL DEF Spec, CooldownsPreserved, Preserved

-------------------------------------------------------------------------------
(* No more than the pages of one call per thread while a cooldown is in    *)
(* force.                                                                  *)

\* Requests that a thread may already have counted against the cooldown: none
\* before its call, and in its call those of the pages it has got.
Counted(t) ==
    IF step[t] \in {"wide", "history"} THEN 0
    ELSE IF step[t] = "send" THEN page[t] ELSE Pages
LateInv ==
    \A t \in Thread : late[t] <= Counted(t) /\ (~InForce(now) => late[t] = 0)

\* Steps that neither count a request nor begin to route one.
Idle ==
    /\ late' = late
    /\ \A t \in Thread : Counted(t) <= (Counted(t))'

LEMMA CountedNat ==
    ASSUME TypeOK, NEW t \in Thread
    PROVE  Counted(t) \in Nat /\ Counted(t) <= Pages /\ (step[t] = "send" => page[t] + 1 <= Pages)
<1>1. page[t] \in Nat /\ page[t] + 1 <= Pages /\ Pages \in Nat
  BY LedgerAssumption DEF TypeOK
<1>2. QED
  BY <1>1 DEF Counted

LEMMA LateStep ==
    ASSUME RecoveryInv, LateInv, [Next]_vars
    PROVE  LateInv'
<1> USE DEF ledger, process, routing, counts
<1>0. /\ TypeOK /\ TypeOK' /\ now \in Nat /\ late \in [Thread -> Nat]
      /\ step \in [Thread -> Step] /\ page \in [Thread -> 0..(Pages - 1)]
      /\ \A d \in Day : wide[d].until \in Nat /\ wide'[d].until \in Nat
      /\ \A t \in Thread : /\ Counted(t) \in Nat /\ (Counted(t))' \in Nat
                           /\ Counted(t) <= Pages
                           /\ late[t] \in Nat /\ late[t] <= Counted(t)
      /\ Pages \in Nat
  <2>1. TypeOK /\ TypeOK'
    BY TypeStep DEF RecoveryInv
  <2>2. \A t \in Thread : Counted(t) \in Nat /\ Counted(t) <= Pages
    BY <2>1, CountedNat
  <2>3. \A t \in Thread : (Counted(t))' \in Nat
    <3>1. /\ page' \in [Thread -> 0..(Pages - 1)] /\ Pages \in Nat
          /\ \A t \in Thread : page'[t] \in Nat
      BY <2>1, LedgerAssumption DEF TypeOK
    <3>2. QED
      BY <3>1 DEF Counted
  <2>4. /\ now \in Nat
        /\ \A d \in Day : wide[d].until \in Nat /\ wide'[d].until \in Nat
    BY <2>1, TypeFacts DEF TypeOK, Row
  <2>5. /\ late \in [Thread -> Nat] /\ step \in [Thread -> Step]
        /\ page \in [Thread -> 0..(Pages - 1)]
    BY <2>1 DEF TypeOK
  <2>6. \A t \in Thread : late[t] \in Nat /\ late[t] <= Counted(t)
    BY <2>5 DEF LateInv
  <2>7. QED
    BY <2>1, <2>2, <2>3, <2>4, <2>5, <2>6, LedgerAssumption
\* Nothing is counted after the step.
<1>z. (\A t \in Thread : late'[t] = 0) => LateInv'
  BY <1>0 DEF LateInv
<1>1. ASSUME NEW p \in Worker, Cleared(p) PROVE LateInv'
  BY <1>1, <1>z DEF Cleared
<1>2. CASE Tick
  <2>1. now' = now + 1 /\ wide' = wide /\ step' = step /\ page' = page
    BY <1>2 DEF Tick
  <2>2. CASE InForce(now + 1)
    <3>1. late' = late
      BY <1>2, <2>2 DEF Tick
    <3>2. InForce(now) /\ (InForce(now))'
      BY <1>0, <2>1, <2>2 DEF InForce
    <3>3. \A t \in Thread : (Counted(t))' = Counted(t)
      BY <2>1 DEF Counted
    <3>4. QED
      BY <3>1, <3>2, <3>3 DEF LateInv
  <2>3. CASE ~InForce(now + 1)
    <3>1. late' = [t \in Thread |-> 0]
      BY <1>2, <2>3 DEF Tick
    <3>2. QED
      BY <1>z, <3>1
  <2>4. QED
    BY <2>2, <2>3
<1>3. CASE now' = now /\ \A d \in Day : wide'[d].until >= wide[d].until
  <2>0. InForce(now) => (InForce(now))'
    <3>1. SUFFICES ASSUME NEW d \in Day, wide[d].until > now
                   PROVE  wide'[d].until > now'
      BY DEF InForce
    <3>2. QED
      BY <1>0, <1>3, <3>1
  <2>q. Idle => LateInv'
    <3>1. SUFFICES ASSUME Idle, NEW t \in Thread
                   PROVE  late'[t] <= (Counted(t))' /\ (~(InForce(now))' => late'[t] = 0)
      BY DEF LateInv
    <3>2. late'[t] = late[t] /\ Counted(t) <= (Counted(t))'
      BY <3>1 DEF Idle
    <3>3. ~InForce(now) => late[t] = 0
      BY DEF LateInv
    <3>4. QED
      BY <1>0, <2>0, <3>2, <3>3
  \* A recovery, or a step that no thread takes.
  <2>1. step' = step /\ page' = page /\ late' = late => Idle
    BY <1>0 DEF Idle, Counted
  <2>2. ASSUME NEW p \in Worker, Recover(p) PROVE LateInv'
    <3>1. CASE Finish(p)
      <4>1. \/ step' = step /\ page' = page /\ late' = late
            \/ late' = [t \in Thread |-> 0]
        BY <3>1 DEF Finish
      <4>2. QED
        BY <1>z, <2>q, <2>1, <4>1
    <3>2. CASE \E a \in Outcome : Probe(p, a)
      BY <2>q, <2>1, <3>2 DEF Probe
    <3>3. CASE BeginClaim(p) \/ CommitClaim(p) \/ SkipRecovery(p) \/ FinishFails(p)
      BY <2>q, <2>1, <3>3 DEF BeginClaim, CommitClaim, SkipRecovery, FinishFails
    <3>4. QED
      BY <2>2, <3>1, <3>2, <3>3 DEF Recover
  <2>3. ASSUME NEW t \in Thread, Check(t) PROVE LateInv'
    <3>1. late' = late /\ wide' = wide /\ page' = page
      BY <2>3 DEF Check
    <3>2. CASE InForce(now)
      <4>1. step' = step
        BY <1>0, <2>3, <3>2 DEF Check, At, CooldownActive, Move
      <4>2. QED
        BY <2>q, <2>1, <3>1, <4>1
    <3>3. CASE ~InForce(now)
      BY <1>z, <3>1, <3>3 DEF LateInv
    <3>4. QED
      BY <3>2, <3>3
  <2>4. ASSUME NEW t \in Thread, NEW l \in Step, At(t, "wide") \/ At(t, "history"),
               Move(t, l), page' = page, late' = late
        PROVE  Idle
    <3>1. \A u \in Thread : u # t => step'[u] = step[u]
      BY <1>0, <2>4 DEF Move
    <3>2. Counted(t) = 0
      BY <2>4 DEF At, Counted
    <3>3. \A u \in Thread : u # t => (Counted(u))' = Counted(u)
      BY <2>4, <3>1 DEF Counted
    <3>4. QED
      BY <1>0, <2>4, <3>2, <3>3 DEF Idle
  <2>5. ASSUME NEW t \in Thread, ReserveWide(t) \/ ReserveHistory(t) \/ Refused(t)
        PROVE  LateInv'
    <3>1. PICK l \in Step : /\ At(t, "wide") \/ At(t, "history")
                            /\ Move(t, l) /\ page' = page /\ late' = late
      BY <2>5 DEF ReserveWide, ReserveHistory, Refused, Step
    <3>2. QED
      BY <2>q, <2>4, <3>1
  <2>6. ASSUME NEW t \in Thread, NEW a \in Outcome, Send(t, a) PROVE LateInv'
    <3>0. /\ step[t] = "send" /\ Counted(t) = page[t] /\ page[t] \in Nat
          /\ page[t] + 1 <= Pages
          /\ late' = IF InForce(now) THEN [late EXCEPT ![t] = @ + 1] ELSE late
      BY <1>0, <2>6, CountedNat DEF Send, At, Counted
    \* There is room for one more request after it.
    <3>1. /\ (Counted(t))' >= page[t] + 1
          /\ \A u \in Thread : u # t => (Counted(u))' = Counted(u)
      <4>1. CASE /\ page' = [page EXCEPT ![t] = page[t] + 1]
                 /\ step' = step
        <5>1. page'[t] = page[t] + 1 /\ \A u \in Thread : u # t => page'[u] = page[u]
          BY <1>0, <4>1
        <5>2. QED
          BY <3>0, <4>1, <5>1 DEF Counted
      <4>2. CASE /\ page' = [page EXCEPT ![t] = 0]
                 /\ \E l \in {"check", Auth, Limited} : step' = [step EXCEPT ![t] = l]
        <5>1. step'[t] \notin {"wide", "history", "send"}
          BY <1>0, <4>2 DEF Auth, Limited
        <5>2. \A u \in Thread : u # t => page'[u] = page[u] /\ step'[u] = step[u]
          BY <1>0, <4>2
        <5>3. (Counted(t))' = Pages
          BY <5>1 DEF Counted
        <5>4. \A u \in Thread : u # t => (Counted(u))' = Counted(u)
          BY <5>2 DEF Counted
        <5>5. QED
          BY <1>0, <3>0, <5>3, <5>4
      <4>3. QED
        BY <2>6, <4>1, <4>2, SendMoves
    <3>2. CASE InForce(now)
      <4>1. late'[t] = late[t] + 1 /\ \A u \in Thread : u # t => late'[u] = late[u]
        BY <1>0, <3>0, <3>2
      <4>2. late'[t] <= (Counted(t))'
        BY <1>0, <3>0, <3>1, <4>1
      <4>3. \A u \in Thread : late'[u] <= (Counted(u))'
        BY <1>0, <3>1, <4>1, <4>2
      <4>4. QED
        BY <2>0, <3>2, <4>3 DEF LateInv
    <3>3. CASE ~InForce(now)
      BY <1>z, <3>0, <3>3 DEF LateInv
    <3>4. QED
      BY <3>2, <3>3
  <2>7. ASSUME NEW t \in Thread, NEW a \in {Auth, Limited}, RecordFailure(t, a)
        PROVE  LateInv'
    <3>1. /\ step' = [step EXCEPT ![t] = "check"] /\ page' = page /\ late' = late
      BY <2>7 DEF RecordFailure, Move
    <3>2. \A u \in Thread : u # t => (Counted(u))' = Counted(u)
      BY <1>0, <3>1 DEF Counted
    <3>3. (Counted(t))' = Pages
      BY <1>0, <3>1 DEF Counted
    <3>4. Idle
      BY <1>0, <3>1, <3>2, <3>3 DEF Idle
    <3>5. QED
      BY <2>q, <3>4
  <2>8. ASSUME NEW p \in Worker, NEW c \in Cred, Crash(p, c) PROVE LateInv'
    <3>1. /\ step' = [t \in Thread |-> IF ProcOf[t] = p THEN "check" ELSE step[t]]
          /\ page' = [t \in Thread |-> IF ProcOf[t] = p THEN 0 ELSE page[t]]
          /\ late' = late
      BY <2>8 DEF Crash
    <3>2. \A t \in Thread : (Counted(t))' = Pages \/ (Counted(t))' = Counted(t)
      BY <3>1 DEF Counted
    <3>3. Idle
      BY <1>0, <3>1, <3>2 DEF Idle
    <3>4. QED
      BY <2>q, <3>3
  <2>9. CASE UNCHANGED vars
    BY <2>9, <2>q, <2>1 DEF vars
  <2>10. QED
    BY <1>2, <2>2, <2>3, <2>5, <2>6, <2>7, <2>8, <2>9 DEF Next, Route
<1>4. Tick \/ now' = now
  BY RouteKeeps DEF Next, Recover, BeginClaim, CommitClaim, SkipRecovery, Probe, Finish,
     FinishFails, Crash, vars
<1>5. QED
  BY <1>1, <1>2, <1>3, <1>4, CooldownStep

\* While a cooldown is in force, on whatever date, a thread gets no more out
\* than the pages of the one call it had checked before the cooldown was
\* recorded: provider_cooldown_active_db looks at every row.
THEOREM StragglersBounded == Spec => []OneStraggler
<1>1. Init => LateInv
  <2> SUFFICES ASSUME Init, NEW t \in Thread PROVE late[t] = 0 /\ late[t] <= Counted(t)
    BY DEF LateInv
  <2>1. late[t] = 0 /\ step[t] = "check"
    BY DEF Init
  <2>2. QED
    BY <2>1, LedgerAssumption DEF Counted
<1>2. RecoveryInv /\ LateInv /\ [Next]_vars => LateInv'
  BY LateStep
<1>3. RecoveryInv /\ LateInv => OneStraggler
  <2> SUFFICES ASSUME TypeOK, LateInv, NEW t \in Thread PROVE late[t] <= Pages
    BY DEF RecoveryInv, OneStraggler
  <2>1. /\ late[t] \in Nat /\ late[t] <= Counted(t)
        /\ Counted(t) \in Nat /\ Counted(t) <= Pages
    BY CountedNat DEF TypeOK, LateInv
  <2>2. QED
    BY <2>1, LedgerAssumption
<1>4. QED
  BY <1>1, <1>2, <1>3, RecoveryInvariant, PTL DEF Spec

-------------------------------------------------------------------------------
(* The calls of a date stay within its budget.                             *)

\* Recoveries and threads that have paid for a call of date d and not made it
\* yet.
Probing(d) == {p \in Worker : pc[p] = "probe" /\ Date(started[p]) = d}
Calling(d) == {t \in Thread : step[t] = "send" /\ page[t] = 0 /\ day[t] = d}
InFlight(d) == Cardinality(Probing(d)) + Cardinality(Calling(d))
BudgetInv == \A d \in Day : calls[d] + InFlight(d) <= used[d]

LEMMA Smaller ==
    ASSUME NEW F, IsFiniteSet(F), NEW S \in SUBSET F, NEW U \in SUBSET F, U \subseteq S
    PROVE  Cardinality(U) \in Nat /\ Cardinality(S) \in Nat /\ Cardinality(U) <= Cardinality(S)
<1>1. IsFiniteSet(S) /\ IsFiniteSet(U)
  BY FS_Subset
<1>2. QED
  BY <1>1, FS_Subset, FS_CardinalityType

LEMMA OneMore ==
    ASSUME NEW F, IsFiniteSet(F), NEW S \in SUBSET F, NEW U \in SUBSET F, NEW p \in F,
           U \subseteq S \cup {p}
    PROVE  /\ Cardinality(U) \in Nat /\ Cardinality(S) \in Nat
           /\ Cardinality(U) <= Cardinality(S) + 1
<1>1. IsFiniteSet(S)
  BY FS_Subset
<1>2. Cardinality(S \cup {p}) <= Cardinality(S) + 1 /\ Cardinality(S) \in Nat
  <2>1. Cardinality(S) \in Nat
    BY <1>1, FS_CardinalityType
  <2>2. Cardinality(S \cup {p}) = Cardinality(S) \/ Cardinality(S \cup {p}) = Cardinality(S) + 1
    BY <1>1, FS_AddElement
  <2>3. QED
    BY <2>1, <2>2
<1>3. Cardinality(U) <= Cardinality(S \cup {p}) /\ Cardinality(U) \in Nat
      /\ Cardinality(S \cup {p}) \in Nat
  BY Smaller
<1>4. QED
  BY <1>2, <1>3

LEMMA OneLess ==
    ASSUME NEW F, IsFiniteSet(F), NEW S \in SUBSET F, NEW U \in SUBSET F, NEW p \in S,
           U \subseteq S \ {p}
    PROVE  /\ Cardinality(U) \in Nat /\ Cardinality(S) \in Nat
           /\ Cardinality(U) + 1 <= Cardinality(S)
<1>1. IsFiniteSet(S)
  BY FS_Subset
<1>2. Cardinality(S \ {p}) = Cardinality(S) - 1 /\ Cardinality(S) \in Nat
  BY <1>1, FS_RemoveElement, FS_CardinalityType
<1>3. Cardinality(U) <= Cardinality(S \ {p}) /\ Cardinality(U) \in Nat
  BY Smaller
<1>4. QED
  BY <1>2, <1>3

\* Three kinds of steps.
Withdraws ==
    /\ calls' = calls /\ used' = used
    /\ \A d \in Day : (InFlight(d))' <= InFlight(d)
Pays(e) ==
    /\ calls' = calls /\ used' = [used EXCEPT ![e] = @ + 1]
    /\ \A d \in Day : (InFlight(d))' <= IF d = e THEN InFlight(d) + 1 ELSE InFlight(d)
Spends(e) ==
    /\ calls' = [calls EXCEPT ![e] = @ + 1] /\ used' = used
    /\ \A d \in Day :
           IF d = e THEN (InFlight(d))' + 1 <= InFlight(d) ELSE (InFlight(d))' <= InFlight(d)

LEMMA FlightNat ==
    ASSUME NEW d \in Day
    PROVE  /\ Cardinality(Probing(d)) \in Nat /\ Cardinality(Calling(d)) \in Nat
           /\ InFlight(d) \in Nat
<1>1. /\ Probing(d) \in SUBSET Worker /\ Calling(d) \in SUBSET Thread
      /\ IsFiniteSet(Worker) /\ IsFiniteSet(Thread)
  BY LedgerAssumption DEF Probing, Calling
<1>2. Cardinality(Probing(d)) \in Nat /\ Cardinality(Calling(d)) \in Nat
  BY <1>1, FS_Subset, FS_CardinalityType
<1>3. QED
  BY <1>2 DEF InFlight

LEMMA FlightNatNext ==
    ASSUME NEW d \in Day
    PROVE  /\ Cardinality((Probing(d))') \in Nat /\ Cardinality((Calling(d))') \in Nat
           /\ (InFlight(d))' = Cardinality((Probing(d))') + Cardinality((Calling(d))')
           /\ (InFlight(d))' \in Nat
<1>1. /\ (Probing(d))' \in SUBSET Worker /\ (Calling(d))' \in SUBSET Thread
      /\ IsFiniteSet(Worker) /\ IsFiniteSet(Thread)
  BY LedgerAssumption DEF Probing, Calling
<1>2. Cardinality((Probing(d))') \in Nat /\ Cardinality((Calling(d))') \in Nat
  BY <1>1, FS_Subset, FS_CardinalityType
<1>3. QED
  BY <1>2 DEF InFlight

LEMMA Accounts ==
    ASSUME TypeOK, BudgetInv, NEW e \in Day, Withdraws \/ Pays(e) \/ Spends(e)
    PROVE  BudgetInv'
<1> SUFFICES ASSUME NEW d \in Day
             PROVE  calls'[d] + (InFlight(d))' <= used'[d]
  BY DEF BudgetInv
<1>0. /\ calls \in [Day -> Nat] /\ used \in [Day -> 0..Budget] /\ Budget \in Nat
      /\ calls[d] + InFlight(d) <= used[d]
      /\ InFlight(d) \in Nat /\ (InFlight(d))' \in Nat
  BY LedgerAssumption, FlightNat, FlightNatNext DEF TypeOK, BudgetInv
<1>1. CASE Withdraws
  BY <1>0, <1>1 DEF Withdraws
<1>2. CASE Pays(e)
  <2>1. CASE d = e
    BY <1>0, <1>2, <2>1 DEF Pays
  <2>2. CASE d # e
    BY <1>0, <1>2, <2>2 DEF Pays
  <2>3. QED
    BY <2>1, <2>2
<1>3. CASE Spends(e)
  <2>1. CASE d = e
    BY <1>0, <1>3, <2>1 DEF Spends
  <2>2. CASE d # e
    BY <1>0, <1>3, <2>2 DEF Spends
  <2>3. QED
    BY <2>1, <2>2
<1>4. QED
  BY <1>1, <1>2, <1>3

\* A set that shrinks, or stays, does not add to what is in flight.
LEMMA Fewer ==
    ASSUME NEW d \in Day,
           (Probing(d))' \subseteq Probing(d), (Calling(d))' \subseteq Calling(d)
    PROVE  (InFlight(d))' <= InFlight(d)
<1>1. /\ Probing(d) \in SUBSET Worker /\ Calling(d) \in SUBSET Thread
      /\ (Probing(d))' \in SUBSET Worker /\ (Calling(d))' \in SUBSET Thread
      /\ IsFiniteSet(Worker) /\ IsFiniteSet(Thread)
  BY LedgerAssumption DEF Probing, Calling
<1>2. /\ Cardinality((Probing(d))') <= Cardinality(Probing(d))
      /\ Cardinality((Calling(d))') <= Cardinality(Calling(d))
  BY <1>1, Smaller
<1>3. QED
  BY <1>2, FlightNat, FlightNatNext DEF InFlight

LEMMA ProbingStep ==
    ASSUME NEW d \in Day, NEW p \in Worker, (Calling(d))' = Calling(d)
    PROVE  /\ (Probing(d))' \subseteq Probing(d) \cup {p} => (InFlight(d))' <= InFlight(d) + 1
           /\ p \in Probing(d) /\ (Probing(d))' \subseteq Probing(d) \ {p} =>
                  (InFlight(d))' + 1 <= InFlight(d)
<1>1. /\ Probing(d) \in SUBSET Worker /\ (Probing(d))' \in SUBSET Worker
      /\ IsFiniteSet(Worker)
  BY LedgerAssumption DEF Probing
<1>2. /\ Cardinality(Probing(d)) \in Nat /\ Cardinality(Calling(d)) \in Nat
      /\ InFlight(d) = Cardinality(Probing(d)) + Cardinality(Calling(d))
      /\ Cardinality((Probing(d))') \in Nat /\ Cardinality((Calling(d))') \in Nat
      /\ (InFlight(d))' = Cardinality((Probing(d))') + Cardinality((Calling(d))')
      /\ Cardinality((Calling(d))') = Cardinality(Calling(d))
  BY FlightNat, FlightNatNext DEF InFlight
<1>3. ASSUME (Probing(d))' \subseteq Probing(d) \cup {p}
      PROVE  (InFlight(d))' <= InFlight(d) + 1
  <2>1. Cardinality((Probing(d))') <= Cardinality(Probing(d)) + 1
    BY <1>1, <1>3, OneMore
  <2>2. QED
    BY <1>2, <2>1
<1>4. ASSUME p \in Probing(d), (Probing(d))' \subseteq Probing(d) \ {p}
      PROVE  (InFlight(d))' + 1 <= InFlight(d)
  <2>1. Cardinality((Probing(d))') + 1 <= Cardinality(Probing(d))
    BY <1>1, <1>4, OneLess
  <2>2. QED
    BY <1>2, <2>1
<1>5. QED
  BY <1>3, <1>4

LEMMA CallingStep ==
    ASSUME NEW d \in Day, NEW t \in Thread, (Probing(d))' = Probing(d)
    PROVE  /\ (Calling(d))' \subseteq Calling(d) \cup {t} => (InFlight(d))' <= InFlight(d) + 1
           /\ t \in Calling(d) /\ (Calling(d))' \subseteq Calling(d) \ {t} =>
                  (InFlight(d))' + 1 <= InFlight(d)
<1>1. /\ Calling(d) \in SUBSET Thread /\ (Calling(d))' \in SUBSET Thread
      /\ IsFiniteSet(Thread)
  BY LedgerAssumption DEF Calling
<1>2. /\ Cardinality(Probing(d)) \in Nat /\ Cardinality(Calling(d)) \in Nat
      /\ InFlight(d) = Cardinality(Probing(d)) + Cardinality(Calling(d))
      /\ Cardinality((Probing(d))') \in Nat /\ Cardinality((Calling(d))') \in Nat
      /\ (InFlight(d))' = Cardinality((Probing(d))') + Cardinality((Calling(d))')
      /\ Cardinality((Probing(d))') = Cardinality(Probing(d))
  BY FlightNat, FlightNatNext DEF InFlight
<1>3. ASSUME (Calling(d))' \subseteq Calling(d) \cup {t}
      PROVE  (InFlight(d))' <= InFlight(d) + 1
  <2>1. Cardinality((Calling(d))') <= Cardinality(Calling(d)) + 1
    BY <1>1, <1>3, OneMore
  <2>2. QED
    BY <1>2, <2>1
<1>4. ASSUME t \in Calling(d), (Calling(d))' \subseteq Calling(d) \ {t}
      PROVE  (InFlight(d))' + 1 <= InFlight(d)
  <2>1. Cardinality((Calling(d))') + 1 <= Cardinality(Calling(d))
    BY <1>1, <1>4, OneLess
  <2>2. QED
    BY <1>2, <2>1
<1>5. QED
  BY <1>3, <1>4

LEMMA BudgetStep ==
    ASSUME RecoveryInv, BudgetInv, [Next]_vars
    PROVE  BudgetInv'
<1> USE DEF ledger, process, routing, counts
<1>0. /\ TypeOK /\ pc \in [Worker -> PC] /\ started \in [Worker -> Time]
      /\ step \in [Thread -> Step] /\ day \in [Thread -> Day]
      /\ page \in [Thread -> 0..(Pages - 1)]
      /\ 0 \in Day /\ Date(now) \in Day
      /\ \A p \in Worker : Date(started[p]) \in Day
  BY TypeFacts DEF RecoveryInv, TypeOK
<1>a. ASSUME NEW e \in Day, Withdraws \/ Pays(e) \/ Spends(e) PROVE BudgetInv'
  BY <1>0, <1>a, Accounts
\* Nobody begins to owe a call.
<1>w. ASSUME calls' = calls, used' = used,
             \A p \in Worker : pc'[p] = "probe" => pc[p] = "probe" /\ started'[p] = started[p],
             \A t \in Thread : step'[t] = "send" /\ page'[t] = 0 =>
                 step[t] = "send" /\ page[t] = 0 /\ day'[t] = day[t]
      PROVE  BudgetInv'
  <2>1. ASSUME NEW d \in Day PROVE (InFlight(d))' <= InFlight(d)
    <3>1. (Probing(d))' \subseteq Probing(d)
      BY <1>w DEF Probing
    <3>2. (Calling(d))' \subseteq Calling(d)
      BY <1>w DEF Calling
    <3>3. QED
      BY <3>1, <3>2, Fewer
  <2>2. Withdraws
    BY <1>w, <2>1 DEF Withdraws
  <2>3. QED
    BY <1>0, <1>a, <2>2
<1>1. ASSUME NEW p \in Worker, BeginClaim(p) PROVE BudgetInv'
  BY <1>0, <1>1, <1>w DEF BeginClaim, Go
<1>2. ASSUME NEW p \in Worker, CommitClaim(p) PROVE BudgetInv'
  <2>a. PICK e \in Day : e = Date(started[p])
    BY <1>0
  <2>1. /\ calls' = calls /\ used' = [used EXCEPT ![e] = @ + 1]
        /\ pc' = [pc EXCEPT ![p] = "probe"] /\ started' = started
        /\ UNCHANGED <<step, page, day>>
    BY <1>2, <2>a DEF CommitClaim, Go, Paid
  <2>2. ASSUME NEW d \in Day
        PROVE  (InFlight(d))' <= IF d = e THEN InFlight(d) + 1 ELSE InFlight(d)
    <3>1. (Calling(d))' = Calling(d)
      BY <2>1 DEF Calling
    <3>2. (Probing(d))' \subseteq IF d = e THEN Probing(d) \cup {p} ELSE Probing(d)
      BY <1>0, <2>a, <2>1 DEF Probing
    <3>3. QED
      BY <3>1, <3>2, Fewer, ProbingStep
  <2>3. QED
    BY <1>a, <2>1, <2>2 DEF Pays
<1>3. ASSUME NEW p \in Worker, SkipRecovery(p) \/ FinishFails(p) PROVE BudgetInv'
  BY <1>0, <1>3, <1>w DEF SkipRecovery, FinishFails, Done, Go
<1>4. ASSUME NEW p \in Worker, NEW a \in Outcome, Probe(p, a) PROVE BudgetInv'
  <2>a. PICK e \in Day : e = Date(started[p])
    BY <1>0
  <2>1. /\ calls' = [calls EXCEPT ![e] = @ + 1] /\ used' = used
        /\ pc[p] = "probe" /\ pc' = [pc EXCEPT ![p] = "finish"] /\ started' = started
        /\ UNCHANGED <<step, page, day>>
    BY <1>4, <2>a DEF Probe, Go
  <2>2. ASSUME NEW d \in Day
        PROVE  IF d = e THEN (InFlight(d))' + 1 <= InFlight(d)
               ELSE (InFlight(d))' <= InFlight(d)
    <3>1. (Calling(d))' = Calling(d)
      BY <2>1 DEF Calling
    <3>2. /\ (Probing(d))' \subseteq Probing(d) \ {p}
          /\ d = e => p \in Probing(d)
      BY <1>0, <2>a, <2>1 DEF Probing
    <3>3. QED
      BY <3>1, <3>2, Fewer, ProbingStep
  <2>3. QED
    BY <1>a, <2>1, <2>2 DEF Spends
<1>5. ASSUME NEW p \in Worker, Finish(p) PROVE BudgetInv'
  <2>1. /\ pc' = [pc EXCEPT ![p] = "on"] /\ started' = [started EXCEPT ![p] = 0]
        /\ calls' = calls /\ used' = used /\ UNCHANGED <<step, page, day>>
    BY <1>5 DEF Finish, Done, Go
  <2>2. QED
    BY <1>0, <2>1, <1>w
<1>6. ASSUME NEW t \in Thread, Check(t) \/ ReserveWide(t) \/ Refused(t) PROVE BudgetInv'
  <2>1. /\ \E l \in {"check", "wide", "history"} : step' = [step EXCEPT ![t] = l]
        /\ UNCHANGED <<calls, used, pc, started, page, day>>
    BY <1>6 DEF Check, ReserveWide, Refused, Move
  <2>2. QED
    BY <1>0, <2>1, <1>w
<1>7. ASSUME NEW t \in Thread, ReserveHistory(t) PROVE BudgetInv'
  <2>a. PICK e \in Day : e = Date(now)
    BY <1>0
  <2>1. /\ calls' = calls /\ used' = [used EXCEPT ![e] = @ + 1]
        /\ step' = [step EXCEPT ![t] = "send"] /\ day' = [day EXCEPT ![t] = e]
        /\ page' = page /\ UNCHANGED <<pc, started>>
    BY <1>7, <2>a DEF ReserveHistory, Move, Paid
  <2>2. ASSUME NEW d \in Day
        PROVE  (InFlight(d))' <= IF d = e THEN InFlight(d) + 1 ELSE InFlight(d)
    <3>1. (Probing(d))' = Probing(d)
      BY <2>1 DEF Probing
    <3>2. (Calling(d))' \subseteq IF d = e THEN Calling(d) \cup {t} ELSE Calling(d)
      BY <1>0, <2>1 DEF Calling
    <3>3. QED
      BY <3>1, <3>2, Fewer, CallingStep
  <2>3. QED
    BY <1>a, <2>1, <2>2 DEF Pays
<1>8. ASSUME NEW t \in Thread, NEW a \in Outcome, Send(t, a) PROVE BudgetInv'
  <2>a. PICK e \in Day : e = day[t]
    BY <1>0
  <2>1. /\ step[t] = "send" /\ used' = used /\ UNCHANGED <<pc, started>>
        /\ calls' = IF page[t] = 0 THEN [calls EXCEPT ![e] = @ + 1] ELSE calls
    BY <1>8, <2>a DEF Send, At
  \* The call is no longer owed, and the other threads are as they were.
  <2>2. /\ ~(step'[t] = "send" /\ page'[t] = 0)
        /\ \A u \in Thread : u # t =>
               step'[u] = step[u] /\ page'[u] = page[u] /\ day'[u] = day[u]
    <3>1. CASE page' = [page EXCEPT ![t] = page[t] + 1] /\ step' = step /\ day' = day
      <4>1. page[t] + 1 # 0
        BY <1>0
      <4>2. QED
        BY <1>0, <3>1, <4>1
    <3>2. CASE /\ page' = [page EXCEPT ![t] = 0] /\ day' = [day EXCEPT ![t] = 0]
               /\ \E l \in {"check", Auth, Limited} : step' = [step EXCEPT ![t] = l]
      BY <1>0, <3>2 DEF Auth, Limited
    <3>3. QED
      BY <1>8, <3>1, <3>2, SendMoves
  <2>3. ASSUME NEW d \in Day
        PROVE  /\ (Probing(d))' = Probing(d)
               /\ (Calling(d))' \subseteq Calling(d) \ {t}
               /\ page[t] = 0 /\ d = e => t \in Calling(d)
    <3>1. (Probing(d))' = Probing(d)
      BY <2>1 DEF Probing
    <3>2. (Calling(d))' \subseteq Calling(d) \ {t}
      BY <2>2 DEF Calling
    <3>3. QED
      BY <2>a, <2>1, <3>1, <3>2 DEF Calling
  <2>4. CASE page[t] = 0
    <3>1. Spends(e)
      BY <2>1, <2>3, <2>4, Fewer, CallingStep DEF Spends
    <3>2. QED
      BY <1>a, <3>1
  <2>5. CASE page[t] # 0
    <3>1. \A d \in Day : (InFlight(d))' <= InFlight(d)
      BY <2>3, Fewer
    <3>2. Withdraws
      BY <2>1, <2>5, <3>1 DEF Withdraws
    <3>3. QED
      BY <1>a, <3>2
  <2>6. QED
    BY <2>4, <2>5
<1>9. ASSUME NEW t \in Thread, NEW a \in {Auth, Limited}, RecordFailure(t, a)
      PROVE  BudgetInv'
  <2>1. /\ step' = [step EXCEPT ![t] = "check"]
        /\ UNCHANGED <<calls, used, pc, started, page, day>>
    BY <1>9 DEF RecordFailure, Move
  <2>2. QED
    BY <1>0, <2>1, <1>w
<1>10. ASSUME NEW p \in Worker, NEW c \in Cred, Crash(p, c) PROVE BudgetInv'
  <2>1. /\ pc' = [pc EXCEPT ![p] = "start"] /\ started' = [started EXCEPT ![p] = 0]
        /\ step' = [t \in Thread |-> IF ProcOf[t] = p THEN "check" ELSE step[t]]
        /\ page' = [t \in Thread |-> IF ProcOf[t] = p THEN 0 ELSE page[t]]
        /\ day' = [t \in Thread |-> IF ProcOf[t] = p THEN 0 ELSE day[t]]
        /\ calls' = calls /\ used' = used
    BY <1>10 DEF Crash
  <2>2. QED
    BY <1>0, <2>1, <1>w
<1>11. CASE Tick \/ UNCHANGED vars
  BY <1>11, <1>w DEF Tick, vars
<1>12. QED
  BY <1>1, <1>2, <1>3, <1>4, <1>5, <1>6, <1>7, <1>8, <1>9, <1>10, <1>11
     DEF Next, Recover, Route

\* No date's calls exceed its budget: a call is paid for first, by one
\* transaction, and a call that was paid for is made at most once.  The further
\* pages of a call that is routed are not charged.
THEOREM BudgetRespected == Spec => []WithinBudget
<1>1. Init => BudgetInv
  <2> SUFFICES ASSUME Init, NEW d \in Day
               PROVE  calls[d] + InFlight(d) <= used[d]
    BY DEF BudgetInv
  <2>1. calls[d] = 0 /\ used[d] = 0 /\ Probing(d) = {} /\ Calling(d) = {}
    BY DEF Init, Probing, Calling
  <2>2. InFlight(d) = 0
    BY <2>1, FS_EmptySet DEF InFlight
  <2>3. QED
    BY <2>1, <2>2
<1>2. RecoveryInv /\ BudgetInv /\ [Next]_vars => BudgetInv'
  BY BudgetStep
<1>3. RecoveryInv /\ BudgetInv => WithinBudget
  <2> SUFFICES ASSUME TypeOK, BudgetInv, NEW d \in Day
               PROVE  calls[d] <= used[d] /\ used[d] <= Budget
    BY DEF RecoveryInv, WithinBudget
  <2>1. InFlight(d) \in Nat
    BY FlightNat
  <2>2. calls[d] \in Nat /\ used[d] \in 0..Budget /\ calls[d] + InFlight(d) <= used[d]
    BY DEF TypeOK, BudgetInv
  <2>3. QED
    BY <2>1, <2>2, LedgerAssumption
<1>4. QED
  BY <1>1, <1>2, <1>3, RecoveryInvariant, PTL DEF Spec

-------------------------------------------------------------------------------
(* The ledger implements the book of a provider.                           *)

BookPhase == [c \in Cred |-> Phase(c)]

LEMMA OnePhaseChanges ==
    ASSUME NEW c \in Cred,
           \A b \in Cred \ {c} : receipt'[b] = receipt[b] /\ probes'[b] = probes[b]
    PROVE  BookPhase' = [BookPhase EXCEPT ![c] = Phase(c)']
BY DEF BookPhase, Phase

LEMMA CommitClaimBooks ==
    ASSUME RecoveryInv, RecoveryInv', ProbeInv, NEW p \in Worker, CommitClaim(p)
    PROVE  Book!Next
<1>a. PICK c \in Cred : c = pair[p]
  BY DEF RecoveryInv, TypeOK
<1>b. PICK d \in Day : d = Date(started[p])
  BY TypeFacts DEF RecoveryInv
<1>0. /\ receipt \in [Cred -> {"none", "CLAIMED", "DONE", "AUTHENTICATED"}]
      /\ used \in [Day -> 0..Budget] /\ used' \in [Day -> 0..Budget]
      /\ Budget \in Nat
  BY LedgerAssumption DEF RecoveryInv, TypeOK
<1>1. /\ receipt' = [receipt EXCEPT ![c] = "CLAIMED"]
      /\ used' = [used EXCEPT ![d] = used[d] + 1]
      /\ UNCHANGED <<probes, calls>>
  BY <1>a, <1>b DEF CommitClaim, Paid, counts
<1>2. receipt[c] = "none" /\ probes[c] = 0
  <2>1. receipt[c] = "none" /\ ProbedOnce
    BY <1>a DEF CommitClaim, ProbeInv
  <2>2. QED
    BY <2>1 DEF ProbedOnce
<1>3. used[d] < Budget
  BY <1>0, <1>1
<1>4. Phase(c) = "none" /\ Phase(c)' = "CLAIMED"
  BY <1>0, <1>1, <1>2 DEF Phase
<1>5. BookPhase' = [BookPhase EXCEPT ![c] = "CLAIMED"]
  BY <1>0, <1>1, <1>4, OnePhaseChanges
<1>6. Book!Claim(c, d)
  BY <1>1, <1>3, <1>4, <1>5 DEF Book!Claim, Book!Becomes, Book!Charge, BookPhase
<1>7. QED
  BY <1>6 DEF Book!Next

\* Whoever sends has paid: the budget as it is after the step says so.
LEMMA SpendBooks ==
    ASSUME TypeOK, WithinBudget', NEW d \in Day, UNCHANGED used,
           calls' = [calls EXCEPT ![d] = calls[d] + 1]
    PROVE  Book!Spend(d)
<1>1. calls[d] \in Nat /\ used[d] \in Nat /\ calls \in [Day -> Nat]
  BY LedgerAssumption DEF TypeOK
<1>2. calls'[d] <= used[d]
  BY DEF WithinBudget
<1>3. calls[d] < used[d]
  BY <1>1, <1>2
<1>4. QED
  BY <1>3 DEF Book!Spend

LEMMA ProbeBooks ==
    ASSUME RecoveryInv, ProbeInv, WithinBudget', NEW p \in Worker, NEW a \in Outcome,
           Probe(p, a)
    PROVE  Book!Next
<1>a. PICK c \in Cred : c = pair[p]
  BY DEF RecoveryInv, TypeOK
<1>b. PICK d \in Day : d = Date(started[p])
  BY TypeFacts DEF RecoveryInv
<1>0. TypeOK /\ probes \in [Cred -> Nat]
  BY DEF RecoveryInv, TypeOK
<1>1. /\ probes' = [probes EXCEPT ![c] = probes[c] + 1]
      /\ calls' = [calls EXCEPT ![d] = calls[d] + 1]
      /\ UNCHANGED <<receipt, used>>
  BY <1>a, <1>b DEF Probe, ledger
<1>2. receipt[c] = "CLAIMED" /\ probes[c] = 0
  BY <1>a DEF Probe, ProbeInv
<1>3. Phase(c) = "CLAIMED" /\ Phase(c)' = "TRIED"
  BY <1>0, <1>1, <1>2 DEF Phase
<1>4. BookPhase' = [BookPhase EXCEPT ![c] = "TRIED"]
  BY <1>0, <1>1, <1>3, OnePhaseChanges
<1>5. Book!Spend(d)
  BY <1>0, <1>1, SpendBooks
<1>6. Book!Try(c, d)
  BY <1>3, <1>4, <1>5 DEF Book!Try, Book!Becomes, BookPhase
<1>7. QED
  BY <1>6 DEF Book!Next

LEMMA FinishBooks ==
    ASSUME RecoveryInv, ProbeInv, ProbeInv', NEW p \in Worker, Finish(p)
    PROVE  Book!Next
<1>a. PICK c \in Cred : c = pair[p]
  BY DEF RecoveryInv, TypeOK
<1>0. receipt \in [Cred -> {"none", "CLAIMED", "DONE", "AUTHENTICATED"}]
  BY DEF RecoveryInv, TypeOK
<1>1. /\ UNCHANGED <<used, probes, calls>>
      /\ \E v \in {"DONE", "AUTHENTICATED"} : receipt' = [receipt EXCEPT ![c] = v]
  BY <1>a DEF Finish
<1>2. PICK v \in {"DONE", "AUTHENTICATED"} : receipt' = [receipt EXCEPT ![c] = v]
  BY <1>1
<1>3. receipt[c] = "CLAIMED" /\ probes[c] = 1
  BY <1>a DEF Finish, ProbeInv
<1>4. v = "AUTHENTICATED" => c \in Good
  BY <1>0, <1>2 DEF ProbeInv, ProbedOnce
<1>5. Phase(c) = "TRIED" /\ Phase(c)' = v
  BY <1>0, <1>2, <1>3 DEF Phase
<1>6. BookPhase' = [BookPhase EXCEPT ![c] = v]
  BY <1>1, <1>2, <1>5, OnePhaseChanges
<1>7. Book!Judge(c, v)
  BY <1>1, <1>4, <1>5, <1>6 DEF Book!Judge, Book!Becomes, BookPhase
<1>8. QED
  BY <1>7 DEF Book!Next

LEMMA RouteBooks ==
    ASSUME RecoveryInv, RecoveryInv', WithinBudget', NEW t \in Thread, Route(t)
    PROVE  Book!Next \/ UNCHANGED <<receipt, probes, used, calls>>
<1>0. /\ TypeOK /\ used \in [Day -> 0..Budget] /\ used' \in [Day -> 0..Budget]
      /\ Budget \in Nat /\ Date(now) \in Day /\ day[t] \in Day
  BY LedgerAssumption, TypeFacts DEF RecoveryInv, TypeOK
<1>1. CASE ReserveHistory(t)
  <2>a. PICK d \in Day : d = Date(now)
    BY <1>0
  <2>1. used' = [used EXCEPT ![d] = used[d] + 1] /\ UNCHANGED <<receipt, probes, calls>>
    BY <1>1, <2>a DEF ReserveHistory, Paid, counts
  <2>2. used[d] < Budget
    BY <1>0, <2>1
  <2>3. Book!Reserve(d)
    BY <2>1, <2>2 DEF Book!Reserve, Book!Charge, Phase
  <2>4. QED
    BY <2>3 DEF Book!Next
<1>2. ASSUME NEW a \in Outcome, Send(t, a)
      PROVE  Book!Next \/ UNCHANGED <<receipt, probes, used, calls>>
  <2>a. PICK d \in Day : d = day[t]
    BY <1>0
  <2>1. /\ UNCHANGED <<receipt, probes, used>>
        /\ calls' = IF page[t] = 0 THEN [calls EXCEPT ![d] = calls[d] + 1] ELSE calls
    BY <1>2, <2>a DEF Send, ledger
  <2>2. CASE page[t] = 0
    <3>1. calls' = [calls EXCEPT ![d] = calls[d] + 1]
      BY <2>1, <2>2
    <3>2. Book!Call(d)
      BY <1>0, <2>1, <3>1, SpendBooks DEF Book!Call, Phase
    <3>3. QED
      BY <3>2 DEF Book!Next
  <2>3. CASE page[t] # 0
    BY <2>1, <2>3
  <2>4. QED
    BY <2>2, <2>3
<1>3. ASSUME NEW a \in {Auth, Limited}, RecordFailure(t, a)
      PROVE  UNCHANGED <<receipt, probes, used, calls>>
  BY <1>3 DEF RecordFailure
<1>4. CASE Check(t) \/ ReserveWide(t) \/ Refused(t)
  BY <1>4 DEF Check, ReserveWide, Refused, ledger, counts
<1>5. QED
  BY <1>1, <1>2, <1>3, <1>4 DEF Route

\* For any processes, threads, pairs, crashes, restarts and midnights, a step of
\* the ledger charges one call, makes one that was paid for, claims, tries or
\* judges one pair, or changes nothing of that: the further pages of a call are
\* not charged (reserve_provider_budget_db, recover_alpaca_authentication,
\* route_history).
THEOREM LedgerImplementsBook == Spec => ProviderBookSpec
<1>1. Init => Book!Init
  BY DEF Init, Book!Init, Phase
<1>2. /\ RecoveryInv /\ RecoveryInv' /\ ProbeInv /\ ProbeInv' /\ WithinBudget'
      /\ [Next]_vars
      => [Book!Next]_(Book!vars)
  <2> SUFFICES ASSUME RecoveryInv, RecoveryInv', ProbeInv, ProbeInv', WithinBudget',
                      [Next]_vars
               PROVE  [Book!Next]_(Book!vars)
    OBVIOUS
  <2>1. CASE UNCHANGED <<receipt, probes, used, calls>>
    BY <2>1 DEF Book!vars, Phase
  <2>2. ASSUME NEW p \in Worker, Recover(p) PROVE [Book!Next]_(Book!vars)
    <3>1. CASE CommitClaim(p) \/ Finish(p) \/ \E a \in Outcome : Probe(p, a)
      BY <3>1, CommitClaimBooks, FinishBooks, ProbeBooks
    <3>2. CASE BeginClaim(p) \/ SkipRecovery(p) \/ FinishFails(p)
      BY <2>1, <3>2 DEF BeginClaim, SkipRecovery, FinishFails, ledger, counts
    <3>3. QED
      BY <2>2, <3>1, <3>2 DEF Recover
  <2>3. ASSUME NEW t \in Thread, Route(t) PROVE [Book!Next]_(Book!vars)
    BY <2>1, <2>3, RouteBooks
  <2>4. CASE \E p \in Worker, c \in Cred : Crash(p, c)
    BY <2>1, <2>4 DEF Crash, ledger, counts
  <2>5. CASE Tick
    BY <2>1, <2>5 DEF Tick, ledger, counts
  <2>6. CASE UNCHANGED vars
    BY <2>1, <2>6 DEF vars, ledger, counts
  <2>7. QED
    BY <2>2, <2>3, <2>4, <2>5, <2>6 DEF Next
<1>3. QED
  BY <1>1, <1>2, RecoveryInvariant, ProbeInvariant, BudgetRespected, PTL
     DEF Spec, ProviderBookSpec, Book!Spec

===============================================================================
