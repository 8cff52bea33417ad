---------------------------- MODULE ProviderLedger ----------------------------
(***************************************************************************)
(* The budget and cooldown ledger of one provider (global_adaptive_engine),*)
(* shared by every process; the calls that are routed to that provider     *)
(* (provider_router.route_history); and the recovery of rotated            *)
(* credentials (alpaca_auth_recovery).                                     *)
(*                                                                         *)
(* A process starts with the recovery, in its main thread, and then routes *)
(* from a pool of threads.  A crash starts it again, perhaps with another  *)
(* pair of credentials.  One reservation pays for a call of                *)
(* iex_stock_history, which sends a request for each page of its answer;   *)
(* the call of the recovery is a single request.  The ledger has one row   *)
(* per capability and UTC date.  reserve and mark are transactions of one  *)
(* row: one step each.  The first transaction of the recovery is two       *)
(* steps, because rows of another date may appear between its two reads of *)
(* the cooldowns; it holds the advisory lock and the rows it has read      *)
(* meanwhile.  The provider is external: it answers as it likes but does   *)
(* not accept a pair outside Good.                                         *)
(***************************************************************************)
EXTENDS Integers, FiniteSets

CONSTANTS
    Worker,       \* processes
    Thread, ProcOf,  \* the threads that route, and the process of each
    Pages,        \* max_pages of iex_stock_history
    Cred, Good,   \* credential pairs, and those the provider accepts
    Budget,       \* ALPACA_IEX_DAILY_REQUEST_BUDGET
    Rate, Perm,   \* PROVIDER_RATE_LIMIT_COOLDOWN_SECONDS, PROVIDER_PERMISSION_...
    DayLength,    \* ticks of a UTC day
    MaxTime, MaxCrashes   \* bounds

ASSUME LedgerAssumption ==
    /\ IsFiniteSet(Worker) /\ IsFiniteSet(Thread)
    /\ ProcOf \in [Thread -> Worker] /\ Pages \in Nat \ {0}
    /\ Good \subseteq Cred
    /\ Budget \in Nat \ {0} /\ MaxCrashes \in Nat  \* a budget of 0 sends nothing
    /\ Rate \in Nat \ {0} /\ Perm \in Nat /\ Rate < Perm
    /\ DayLength \in Nat \ {0} /\ MaxTime \in Nat \ {0}

Auth == "authentication failed"
Limited == "rate limited"
More == "next page"  \* bars, and the token of a next page
Outcome == {"bars", More, "invalid", Auth, Limited, "failed"}

Time == 0..MaxTime
Date(t) == t \div DayLength
Day == 0..Date(MaxTime)

VARIABLES
    now,
    wide,      \* the provider-wide row of each date
    used,      \* requests_used of the history row of each date
    receipt,   \* status of alpaca_auth_recovery_receipts
    pc, pair,  \* a process: its step, its credentials,
    answer,    \* what the provider answered to its recovery,
    started, expected,  \* start of its recovery, cooldowns it has reserved,
    local,     \* _provider_cooldowns
    step,      \* a thread: its step, or the failure it has to record,
    day, page, \* date its call is charged to, pages it has got
    probes, calls, \* calls made: per pair by recoveries, per date
    limit,     \* end of the last rate limit recorded on a row
    late,      \* requests of a thread during the cooldown in force
    crashes

ledger == <<wide, used, receipt>>
process == <<pc, pair, answer, started, expected>>
routing == <<step, day, page>>
counts == <<probes, calls, limit>>
vars == <<now, ledger, process, local, routing, counts, late, crashes>>

\* A row: absent, made by a cooldown ("marker", capacity 0), or by a
\* reservation; cooldown_until and updated_at, 0 for none.
Row == [mode : {"absent", "marker", "live"}, used : 0..Budget,
        failure : {"none", Auth, Limited}, until : Nat, updated : Nat]
NoRow == [mode |-> "absent", used |-> 0, failure |-> "none",
          until |-> 0, updated |-> 0]
PC == {"start", "claim", "probe", "finish", "on"}
Step == {"check", "wide", "history", "send", Auth, Limited}

TypeOK ==
    /\ now \in Time \ {0}
    /\ wide \in [Day -> Row] /\ used \in [Day -> 0..Budget]
    /\ receipt \in [Cred -> {"none", "CLAIMED", "DONE", "AUTHENTICATED"}]
    /\ pc \in [Worker -> PC] /\ pair \in [Worker -> Cred]
    /\ answer \in [Worker -> Outcome \cup {"none"}]
    /\ started \in [Worker -> Time] /\ expected \in [Worker -> [Day -> Row]]
    /\ local \in [Worker -> Nat]
    /\ step \in [Thread -> Step] /\ day \in [Thread -> Day]
    /\ page \in [Thread -> 0..(Pages - 1)]
    /\ probes \in [Cred -> Nat] /\ calls \in [Day -> Nat] /\ limit \in [Day -> Nat]
    /\ late \in [Thread -> Nat] /\ crashes \in 0..MaxCrashes

NoRows == [d \in Day |-> NoRow]
Init ==
    /\ now = 1
    /\ wide = NoRows /\ used = [d \in Day |-> 0]
    /\ receipt = [c \in Cred |-> "none"]
    /\ pc = [p \in Worker |-> "start"]
    /\ \E c \in Cred : pair = [p \in Worker |-> c]  \* one environment
    /\ answer = [p \in Worker |-> "none"]
    /\ started = [p \in Worker |-> 0] /\ expected = [p \in Worker |-> NoRows]
    /\ local = [p \in Worker |-> 0]
    /\ step = [t \in Thread |-> "check"]
    /\ day = [t \in Thread |-> 0] /\ page = [t \in Thread |-> 0]
    /\ probes = [c \in Cred |-> 0]
    /\ calls = [d \in Day |-> 0] /\ limit = [d \in Day |-> 0]
    /\ late = [t \in Thread |-> 0] /\ crashes = 0

-------------------------------------------------------------------------------
(* Rows.                                                                   *)

Max2(a, b) == IF a >= b THEN a ELSE b
Duration(a) == IF a = Auth THEN Perm ELSE Rate
InForce(t) == \E d \in Day : wide[d].until > t

\* provider_cooldown_active_db: the latest cooldown of any date.
TodayOnly(t) == wide[Date(t)].until > t  \* mistake: today's row only
CooldownActive(t) == InForce(t)

\* The rows a recovery has locked while it claims: those with a cooldown, and
\* those of its date.
Holds(p, d) == d = Date(started[p]) \/ expected[p][d].until > 0
RowFree(d) == \A q \in Worker : pc[q] = "claim" => ~Holds(q, d)
\* No two writes of one row carry the same timestamp.
Writable(d) == RowFree(d) /\ wide[d].updated < now

\* reserve_provider_budget_db: a row is made on first use, and a mere marker
\* gets its capacity once its cooldown is over.
Initialized(r, t) ==
    IF r.mode = "absent" \/ (r.mode = "marker" /\ r.until <= t)
    THEN [r EXCEPT !.mode = "live"] ELSE r
AtBudget(n) == n <= Budget  \* mistake: one call too many
BelowBudget(n) == n < Budget
HasCapacity(r, t) == Initialized(r, t).mode = "live" /\ BelowBudget(r.used)
Reserved(r, t) == [Initialized(r, t) EXCEPT !.used = @ + 1, !.updated = t]
Unpaid(d) == used  \* mistake: the update is lost
Paid(d) == [used EXCEPT ![d] = @ + 1]

\* mark_provider_cooldown_db, on today's row.
Marked(r, a, t) ==
    [mode    |-> IF r.mode = "absent" THEN "marker" ELSE r.mode,
     used    |-> r.used,
     failure |-> IF r.until > t + Duration(a) THEN r.failure ELSE a,
     until   |-> Max2(r.until, t + Duration(a)),
     updated |-> t]
Mark(a) ==
    LET d == Date(now) IN
    /\ Writable(d)
    /\ wide' = [wide EXCEPT ![d] = Marked(@, a, now)]
    /\ limit' = IF a = Limited THEN [limit EXCEPT ![d] = now + Rate] ELSE limit

-------------------------------------------------------------------------------
(* The recovery of a rotated pair.                                         *)

Go(p, l) == pc' = [pc EXCEPT ![p] = l]
\* A process that is done with the recovery starts its threads.
Done(p) ==
    /\ Go(p, "on")
    /\ started' = [started EXCEPT ![p] = 0]
    /\ expected' = [expected EXCEPT ![p] = NoRows]
    /\ answer' = [answer EXCEPT ![p] = "none"]

\* _active(conn, t) on rows w.
ActiveIn(w, t) == [d \in Day |-> IF w[d].until > t THEN w[d] ELSE NoRow]

\* _eligible: every cooldown in force is an old, unmixed HTTP 401.
OldEnough(r) == now - r.updated >= Rate
EligibleRow(r) == r.failure = Auth /\ OldEnough(r) /\ r.until - r.updated = Perm
Eligible == InForce(now) /\ \A d \in Day : wide[d].until > now => EligibleRow(wide[d])

\* Whatever its receipt says, a pair that has one is not tried again.
NotFinished(c) ==  \* mistake: an interrupted attempt is repeated
    receipt[c] \in {"none", "CLAIMED"}
NeverClaimed(c) == receipt[c] = "none"

\* First transaction, up to the reservations.
BeginClaim(p) ==
    LET d == Date(now) IN
    /\ pc[p] = "start"
    /\ \A q \in Worker : pc[q] # "claim"
    /\ Eligible /\ NeverClaimed(pair[p])
    /\ Writable(d) /\ HasCapacity(wide[d], now) /\ BelowBudget(used[d])
    /\ Go(p, "claim")
    /\ started' = [started EXCEPT ![p] = now]
    /\ expected' = [expected EXCEPT ![p] = wide]
    /\ UNCHANGED <<now, ledger, pair, answer, local, routing, counts, late, crashes>>

\* The cooldowns are read again, and the claim is committed with the requests
\* it has reserved.
CommitClaim(p) ==
    LET d == Date(started[p]) IN
    /\ pc[p] = "claim"
    /\ wide' = [wide EXCEPT ![d] = Reserved(@, started[p])]
    /\ used' = Paid(d)
    /\ expected' = [expected EXCEPT ![p] = ActiveIn(wide', started[p])]
    /\ receipt' = [receipt EXCEPT ![pair[p]] = "CLAIMED"]
    /\ Go(p, "probe")
    /\ UNCHANGED <<now, pair, answer, started, local, routing, counts, late, crashes>>

\* Any check that fails, another recovery under way, no budget, or a database
\* error: nothing is written.
SkipRecovery(p) ==
    /\ pc[p] \in {"start", "claim"}
    /\ Done(p)
    /\ UNCHANGED <<now, ledger, pair, local, routing, counts, late, crashes>>

\* What the provider may answer to a pair.
Answers(c) ==
    {"failed", Limited} \cup IF c \in Good THEN {"bars", "invalid", More} ELSE {Auth}

\* The one request, outside of any transaction: max_pages is 1, so an answer
\* with a next page is a failure.
Probe(p, a) ==
    LET d == Date(started[p]) IN
    /\ pc[p] = "probe" /\ a \in Answers(pair[p]) \ {More}
    /\ answer' = [answer EXCEPT ![p] = a]
    /\ probes' = [probes EXCEPT ![pair[p]] = @ + 1]
    /\ calls' = [calls EXCEPT ![d] = @ + 1]
    /\ Go(p, "finish")
    /\ UNCHANGED <<now, ledger, pair, started, expected, local, routing, limit,
                   late, crashes>>

\* Second transaction.  The cooldowns are as they were claimed:
Guards(w) == [d \in Day |-> <<w[d].failure, w[d].until, w[d].updated>>]
ReasonOnly(p) ==  \* mistake: only the reasons are compared
    \A d \in Day : ActiveIn(wide, now)[d].failure = expected[p][d].failure
Unchanged(p) == Guards(ActiveIn(wide, now)) = Guards(expected[p])
Finish(p) ==
    /\ pc[p] = "finish"
    /\ \A d \in Day : wide[d].until > 0 => RowFree(d)
    /\ Done(p)
    /\ \/ /\ answer[p] = "bars" /\ Unchanged(p)
          /\ \A d \in Day : expected[p][d].until > 0 => wide[d].updated < now
          /\ wide' = [d \in Day |->
                         IF expected[p][d].until = 0 THEN wide[d]
                         ELSE [wide[d] EXCEPT !.until = now, !.updated = now]]
          /\ receipt' = [receipt EXCEPT ![pair[p]] = "AUTHENTICATED"]
          /\ late' = [t \in Thread |-> 0] /\ UNCHANGED limit
       \/ /\ \/ answer[p] \in {Auth, Limited} /\ Mark(answer[p])
             \/ /\ answer[p] \in {"invalid", "failed"} \/ (answer[p] = "bars" /\ ~Unchanged(p))
                /\ UNCHANGED <<wide, limit>>
          /\ receipt' = [receipt EXCEPT ![pair[p]] = "DONE"]
          /\ UNCHANGED late
    /\ UNCHANGED <<now, used, pair, local, routing, probes, calls, crashes>>

\* A database error: the claim stays as it is.
FinishFails(p) ==
    /\ pc[p] = "finish"
    /\ Done(p)
    /\ UNCHANGED <<now, ledger, pair, local, routing, counts, late, crashes>>

-------------------------------------------------------------------------------
(* A thread that routes to the provider.                                   *)

At(t, l) == pc[ProcOf[t]] = "on" /\ step[t] = l
Move(t, l) == step' = [step EXCEPT ![t] = l]

\* While the shared cooldown or the process's own is in force, the call goes to
\* another provider.
Check(t) ==
    /\ At(t, "check")
    /\ Move(t, IF CooldownActive(now) \/ local[ProcOf[t]] > now THEN "check" ELSE "wide")
    /\ UNCHANGED <<now, ledger, process, local, day, page, counts, late, crashes>>

ReserveWide(t) ==
    LET d == Date(now) IN
    /\ At(t, "wide")
    /\ Writable(d) /\ wide[d].until <= now /\ HasCapacity(wide[d], now)
    /\ wide' = [wide EXCEPT ![d] = Reserved(@, now)]
    /\ Move(t, "history")
    /\ UNCHANGED <<now, used, receipt, process, local, day, page, counts, late, crashes>>

ReserveHistory(t) ==
    LET d == Date(now) IN
    /\ At(t, "history")
    /\ \A q \in Worker : pc[q] = "claim" => Date(started[q]) # d
    /\ BelowBudget(used[d])
    /\ used' = Paid(d)
    /\ day' = [day EXCEPT ![t] = d]
    /\ Move(t, "send")
    /\ UNCHANGED <<now, wide, receipt, process, local, page, counts, late, crashes>>

\* Refused, or the ledger cannot be reached: fail closed.
Refused(t) ==
    /\ At(t, "wide") \/ At(t, "history")
    /\ Move(t, "check")
    /\ UNCHANGED <<now, ledger, process, local, day, page, counts, late, crashes>>

\* The call ends and leaves step l: a failure to record, or the next symbol.
EndCall(t, l) ==
    /\ Move(t, l)
    /\ day' = [day EXCEPT ![t] = 0] /\ page' = [page EXCEPT ![t] = 0]

\* One request of the call, the first or that of a next page.  The last page
\* allowed must be the last there is.
Send(t, a) ==
    /\ At(t, "send") /\ a \in Answers(pair[ProcOf[t]])
    /\ calls' = IF page[t] = 0 THEN [calls EXCEPT ![day[t]] = @ + 1] ELSE calls
    /\ late' = IF InForce(now) THEN [late EXCEPT ![t] = @ + 1] ELSE late
    /\ \/ /\ a = More /\ page[t] + 1 < Pages
          /\ page' = [page EXCEPT ![t] = @ + 1] /\ UNCHANGED <<step, day>>
       \/ a = More /\ page[t] + 1 = Pages /\ EndCall(t, "check")
       \/ a \in {Auth, Limited} /\ EndCall(t, a)
       \/ a \notin {More, Auth, Limited} /\ EndCall(t, "check")
    /\ UNCHANGED <<now, ledger, process, local, probes, limit, crashes>>

\* _mark_provider_limited, then the shared cooldown, unless the database fails.
RecordFailure(t, a) ==
    /\ At(t, a)
    /\ local' = [local EXCEPT ![ProcOf[t]] = Max2(@, now + Duration(a))]
    /\ Mark(a) \/ UNCHANGED <<wide, limit>>
    /\ Move(t, "check")
    /\ UNCHANGED <<now, used, receipt, process, day, page, probes, calls, late, crashes>>

-------------------------------------------------------------------------------
\* A process is killed and started again, with a pair of the operator's choice.
Crash(p, c) ==
    LET Of(f, v) == [t \in Thread |-> IF ProcOf[t] = p THEN v ELSE f[t]] IN
    /\ crashes < MaxCrashes
    /\ crashes' = crashes + 1
    /\ pc' = [pc EXCEPT ![p] = "start"] /\ pair' = [pair EXCEPT ![p] = c]
    /\ started' = [started EXCEPT ![p] = 0]
    /\ expected' = [expected EXCEPT ![p] = NoRows]
    /\ answer' = [answer EXCEPT ![p] = "none"]
    /\ local' = [local EXCEPT ![p] = 0]
    /\ step' = Of(step, "check") /\ day' = Of(day, 0) /\ page' = Of(page, 0)
    /\ UNCHANGED <<now, ledger, counts, late>>

Tick ==
    /\ now < MaxTime
    /\ now' = now + 1
    /\ late' = IF InForce(now + 1) THEN late ELSE [t \in Thread |-> 0]
    /\ UNCHANGED <<ledger, process, local, routing, counts, crashes>>

Recover(p) ==
    \/ BeginClaim(p) \/ CommitClaim(p) \/ SkipRecovery(p)
    \/ Finish(p) \/ FinishFails(p)
    \/ \E a \in Outcome : Probe(p, a)

Route(t) ==
    \/ Check(t) \/ ReserveWide(t) \/ ReserveHistory(t) \/ Refused(t)
    \/ \E a \in Outcome : Send(t, a)
    \/ \E a \in {Auth, Limited} : RecordFailure(t, a)

Next ==
    \/ Tick
    \/ \E p \in Worker : Recover(p) \/ \E c \in Cred : Crash(p, c)
    \/ \E t \in Thread : Route(t)

Spec == Init /\ [][Next]_vars

-------------------------------------------------------------------------------
(* What the ledger and the recovery promise.                               *)

\* A pair is probed at most once, whatever processes start together, crash in
\* between and start again on another date; the receipt never claims more
\* than happened.
ProbedOnce ==
    \A c \in Cred :
        /\ probes[c] <= 1
        /\ receipt[c] = "none" => probes[c] = 0
        /\ receipt[c] = "AUTHENTICATED" => probes[c] = 1 /\ c \in Good

\* The calls charged to a date stay within its budget: reservations of threads
\* and recoveries race, and a cooldown may make the row first.  A call that is
\* routed may be Pages requests.
WithinBudget ==
    \A d \in Day : calls[d] <= used[d] /\ used[d] <= Budget

\* A cooldown in force ends early only for a pair that was accepted, and only
\* when it was an authentication failure with nothing recorded on its row
\* since the claim began, nor a rate limit it might hide.  The exception is a
\* row of a later date than the claim's, which may appear between the two
\* reads of the claim and is then taken for one of its own.
CooldownsPreserved ==
    [][\A d \in Day :
        wide[d].until > now /\ wide'[d].until < wide[d].until =>
            \E p \in Worker :
                /\ pc[p] = "finish" /\ pair[p] \in Good
                /\ \/ d > Date(started[p])
                   \/ /\ wide[d].failure = Auth
                      /\ wide[d].updated <= started[p] /\ limit[d] <= started[p]]_vars

\* While a cooldown is in force, across midnight too, no thread gets more out
\* than the pages of the one call it had checked before the cooldown was
\* recorded.
OneStraggler == \A t \in Thread : late[t] <= Pages

\* The ledger and the recovery implement the book of a provider: whatever
\* processes and threads race, crash and start again, a call is paid before its
\* first request is sent and a pair is claimed, tried once and judged by its
\* own attempt.
Phase(c) == IF receipt[c] = "CLAIMED" /\ probes[c] > 0 THEN "TRIED" ELSE receipt[c]
Book == INSTANCE ProviderBook WITH phase <- [c \in Cred |-> Phase(c)], charged <- used
ProviderBookSpec == Book!Spec
===============================================================================
