----------------------------- MODULE OrderJournal -----------------------------
(***************************************************************************)
(* The durable journal of broker orders (broker_order_journal.py) and its  *)
(* reconciliation with the broker (broker_reconciliation.py).              *)
(*                                                                         *)
(* The repository never submits an order: the submitter and the broker are *)
(* external.  The submitter follows the protocol that the journal's states *)
(* and its tests prescribe: create, SUBMITTING, request, then the answer   *)
(* or mark_submit_timeout.  A request may be lost, an answer may be late,  *)
(* and every process may crash and start again with the journal as its     *)
(* only memory.  The broker moves an order on at any time.                 *)
(*                                                                         *)
(* transition() is one transaction that holds the row: one step.  create() *)
(* locks a row that may not exist yet: two steps.  A pass fetches the      *)
(* remote orders, reads the unfinished rows, and makes one transition per  *)
(* row; an exception ends it, and nothing is recorded.                     *)
(***************************************************************************)
EXTENDS Naturals

CONSTANTS
    Id,          \* client_order_id
    Intent,      \* symbol, side, quantity and notional of an order
    Submitter,   \* external processes that submit orders
    Reconciler,  \* processes that reconcile
    Quantity,    \* units an order asks for
    MaxCrashes   \* bound: crashes of submitters and reconcilers

\* What the broker calls an order; "HELD" stands for every word that
\* normalize_remote_state does not know, "NONE" for no such order.
Word == {"NONE", "NEW", "HELD", "CONFIRMED", "PARTIAL", "COMPLETE",
         "CANCELLED", "FAILED"}
Over == {"COMPLETE", "CANCELLED", "FAILED"}

ASSUME JournalAssumption ==
    /\ Id # {} /\ Intent # {}
    /\ Quantity \in Nat \ {0}
    /\ MaxCrashes \in Nat

VARIABLES
    state, intent, filled,  \* the journal: one row per client_order_id
    created, rows,          \* created_at of a row, number of rows
    lastRun,                \* status of the last broker_reconciliation_runs row
    remote, done,           \* the broker: its word for an order, units filled
    wire,                   \* requests on their way to the broker
    sends, sent,            \* requests ever sent per order, and their intent
    spc, oid, want, reply,  \* a submitter: its step, its order, its intent,
                            \* the broker's answer
    rpc, snap, todo, seen, disc, \* a reconciler: its step, the remote orders,
                            \* rows to go, states read, discrepancies found
    crashes

journal   == <<state, intent, filled, created, rows>>
broker    == <<remote, done, wire, sends, sent>>
submitter == <<spc, oid, want, reply>>
reconciler == <<rpc, snap, todo, seen, disc>>
vars == <<journal, lastRun, broker, submitter, reconciler, crashes>>

Unknown == "UNKNOWN_RECONCILE_REQUIRED"
PreSubmission == {"CREATED", "PREFLIGHT", "PREVIEWED"}
BrokerVisible == {"SUBMITTING", "SUBMITTED", "OPEN", "PARTIALLY_FILLED", Unknown}
Terminal == {"FILLED", "CANCELED", "REJECTED"}
OrderState == PreSubmission \cup BrokerVisible \cup Terminal

\* _ALLOWED_TRANSITIONS
Results == {"SUBMITTED", "OPEN", "PARTIALLY_FILLED", "FILLED", "REJECTED", Unknown}
Allowed ==
    [o \in OrderState |->
        CASE o = "CREATED"   -> {"PREFLIGHT", "PREVIEWED", "SUBMITTING",
                                 "CANCELED", "REJECTED"}
          [] o = "PREFLIGHT" -> {"PREVIEWED", "SUBMITTING", "CANCELED", "REJECTED"}
          [] o = "PREVIEWED" -> {"SUBMITTING", "CANCELED", "REJECTED"}
          [] o = "SUBMITTING" -> Results
          [] o = "SUBMITTED" -> (Results \cup {"CANCELED"}) \ {"SUBMITTED"}
          [] o = "OPEN"      -> (Results \cup {"CANCELED"}) \ {"SUBMITTED"}
          [] o = "PARTIALLY_FILLED" ->
                 (Results \cup {"CANCELED"}) \ {"SUBMITTED", "OPEN"}
          [] o = Unknown     -> Results \cup {"CANCELED"}
          [] o \in Terminal  -> {o}]

\* normalize_remote_state
Normalized(w) ==
    CASE w = "NEW"       -> "SUBMITTED"
      [] w = "CONFIRMED" -> "OPEN"
      [] w = "PARTIAL"   -> "PARTIALLY_FILLED"
      [] w = "COMPLETE"  -> "FILLED"
      [] w = "CANCELLED" -> "CANCELED"
      [] w = "FAILED"    -> "REJECTED"
      [] OTHER           -> Unknown

RemoteOrder == [word : Word, done : 0..Quantity]
NoOrder == [word |-> "NONE", done |-> 0]
Remote(i) == [word |-> remote[i], done |-> done[i]]

SPC == {"idle", "insert", "created", "send", "wait"}
RPC == {"idle", "fetched", "pass"}

TypeOK ==
    /\ state \in [Id -> OrderState \cup {"NONE"}]
    /\ intent \in [Id -> Intent] /\ filled \in [Id -> 0..Quantity]
    /\ created \in [Id -> Nat] /\ rows \in Nat
    /\ lastRun \in {"NEVER_RUN", "PASS", "FAIL_CLOSED"}
    /\ remote \in [Id -> Word] /\ done \in [Id -> 0..Quantity]
    /\ wire \in SUBSET Id
    /\ sends \in [Id -> Nat] /\ sent \in [Id -> Intent]
    /\ spc \in [Submitter -> SPC]
    /\ oid \in [Submitter -> Id] /\ want \in [Submitter -> Intent]
    /\ reply \in [Submitter -> RemoteOrder]
    /\ rpc \in [Reconciler -> RPC]
    /\ snap \in [Reconciler -> [Id -> RemoteOrder]]
    /\ todo \in [Reconciler -> SUBSET Id]
    /\ seen \in [Reconciler -> [Id -> OrderState \cup {"NONE"}]]
    /\ disc \in [Reconciler -> BOOLEAN]
    /\ crashes \in 0..MaxCrashes

SomeIntent == CHOOSE x \in Intent : TRUE
SomeId == CHOOSE i \in Id : TRUE

Init ==
    /\ state = [i \in Id |-> "NONE"]
    /\ intent = [i \in Id |-> SomeIntent]
    /\ filled = [i \in Id |-> 0]
    /\ created = [i \in Id |-> 0] /\ rows = 0
    /\ lastRun = "NEVER_RUN"
    /\ remote = [i \in Id |-> "NONE"] /\ done = [i \in Id |-> 0]
    /\ wire = {}
    /\ sends = [i \in Id |-> 0] /\ sent = [i \in Id |-> SomeIntent]
    /\ spc = [s \in Submitter |-> "idle"]
    /\ oid = [s \in Submitter |-> SomeId]
    /\ want = [s \in Submitter |-> SomeIntent]
    /\ reply = [s \in Submitter |-> NoOrder]
    /\ rpc = [r \in Reconciler |-> "idle"]
    /\ snap = [r \in Reconciler |-> [i \in Id |-> NoOrder]]
    /\ todo = [r \in Reconciler |-> {}]
    /\ seen = [r \in Reconciler |-> [i \in Id |-> "NONE"]]
    /\ disc = [r \in Reconciler |-> FALSE]
    /\ crashes = 0

-------------------------------------------------------------------------------
(* transition(): one transaction on the locked row.                        *)

Max2(a, b) == IF a >= b THEN a ELSE b
FilledSum(i, n) == filled[i] + n  \* mistake: reports are added up
LastFilled(i, n) == n             \* mistake: the last report wins
FilledAfter(i, n) == Max2(filled[i], n)

\* Mistake: a retry may go back to SUBMITTING.
CanRetry(i, o) ==
    state[i] # "NONE" /\ (o \in Allowed[state[i]] \/ o = "SUBMITTING")
CanTransition(i, o) == state[i] # "NONE" /\ o \in Allowed[state[i]]
Transition(i, o, n) ==
    /\ CanTransition(i, o)
    /\ state' = [state EXCEPT ![i] = o]
    /\ filled' = [filled EXCEPT ![i] = FilledAfter(i, n)]
    /\ UNCHANGED <<intent, created, rows>>
\* KeyError or RuntimeError: the transaction rolls back.
TransitionRaises(i, o) == ~CanTransition(i, o) /\ UNCHANGED journal

-------------------------------------------------------------------------------
(* Submitting an order.                                                    *)

Goto(s, l) == spc' = [spc EXCEPT ![s] = l] /\ UNCHANGED <<oid, want, reply>>
\* A submitter that is done with an order, well or badly, remembers nothing.
Leave(s) ==
    /\ spc' = [spc EXCEPT ![s] = "idle"]
    /\ oid' = [oid EXCEPT ![s] = SomeId]
    /\ want' = [want EXCEPT ![s] = SomeIntent]
    /\ reply' = [reply EXCEPT ![s] = NoOrder]

\* create(): the row exists already, with the same intent or another one.
AnyIntent(i, x) == TRUE  \* mistake: the intent is not compared
SameIntent(i, x) == intent[i] = x
Lookup(s, i, x) ==
    /\ spc[s] = "idle"
    /\ \/ state[i] = "NONE" /\ spc' = [spc EXCEPT ![s] = "insert"]
       \/ /\ state[i] # "NONE" /\ SameIntent(i, x)
          /\ spc' = [spc EXCEPT ![s] = "created"]
    /\ oid' = [oid EXCEPT ![s] = i] /\ want' = [want EXCEPT ![s] = x]
    /\ UNCHANGED <<reply, journal, lastRun, broker, reconciler, crashes>>

Overwritten(i) == FALSE  \* mistake: INSERT ... ON CONFLICT DO UPDATE
\* The primary key: of two inserts of one client_order_id the second raises.
KeyTaken(i) == state[i] # "NONE"
Insert(s) ==
    LET i == oid[s] IN
    /\ spc[s] = "insert"
    /\ \/ /\ KeyTaken(i)
          /\ Leave(s) /\ UNCHANGED journal
       \/ /\ ~KeyTaken(i)
          /\ state' = [state EXCEPT ![i] = "CREATED"]
          /\ intent' = [intent EXCEPT ![i] = want[s]]
          /\ created' = [created EXCEPT ![i] = rows] /\ rows' = rows + 1
          /\ Goto(s, "created") /\ UNCHANGED filled
    /\ UNCHANGED <<lastRun, broker, reconciler, crashes>>

\* Local progress before the request: preflight and preview.
Prepare(s, o) ==
    /\ spc[s] = "created"
    /\ o \in {"PREFLIGHT", "PREVIEWED"}
    /\ Transition(oid[s], o, 0)
    /\ UNCHANGED <<lastRun, broker, submitter, reconciler, crashes>>

\* SUBMITTING is durable before the request leaves; who cannot make this
\* transition does not send.
BeginSubmit(s) ==
    /\ spc[s] = "created"
    /\ \/ Transition(oid[s], "SUBMITTING", 0) /\ Goto(s, "send")
       \/ TransitionRaises(oid[s], "SUBMITTING") /\ Leave(s)
    /\ UNCHANGED <<lastRun, broker, reconciler, crashes>>

Send(s) ==
    LET i == oid[s] IN
    /\ spc[s] = "send"
    /\ wire' = wire \cup {i}
    /\ sends' = [sends EXCEPT ![i] = @ + 1]
    /\ sent' = [sent EXCEPT ![i] = want[s]]
    /\ Goto(s, "wait")
    /\ UNCHANGED <<journal, lastRun, remote, done, reconciler, crashes>>

\* The answer to the request arrives, however late, and is journalled.
Answer(s) ==
    LET o == Normalized(reply[s].word) IN
    /\ spc[s] = "wait" /\ reply[s] # NoOrder
    /\ Transition(oid[s], o, reply[s].done) \/ TransitionRaises(oid[s], o)
    /\ Leave(s)
    /\ UNCHANGED <<lastRun, broker, reconciler, crashes>>

\* mark_submit_timeout
SubmitTimeout(s) ==
    /\ spc[s] = "wait"
    /\ Transition(oid[s], Unknown, 0) \/ TransitionRaises(oid[s], Unknown)
    /\ Leave(s)
    /\ UNCHANGED <<lastRun, broker, reconciler, crashes>>

-------------------------------------------------------------------------------
(* The broker.                                                             *)

Elsewhere == UNCHANGED <<journal, lastRun, sends, sent, spc, oid, want,
                         reconciler, crashes>>
BrokerOnly == Elsewhere /\ UNCHANGED reply

\* A request is accepted, filled at once, or refused, and the broker answers
\* to whoever still waits.
Accept(i, w) ==
    /\ i \in wire
    /\ w \in {"NEW", "COMPLETE", "FAILED"}
    /\ wire' = wire \ {i}
    /\ remote' = [remote EXCEPT ![i] = w]
    /\ done' = [done EXCEPT ![i] = IF w = "COMPLETE" THEN Quantity ELSE 0]
    /\ reply' = [s \in Submitter |->
                    IF spc[s] = "wait" /\ oid[s] = i
                    THEN [word |-> w, done |-> done'[i]] ELSE reply[s]]
    /\ Elsewhere

Lose(i) ==
    /\ i \in wire /\ wire' = wire \ {i}
    /\ BrokerOnly /\ UNCHANGED <<remote, done>>

Live(i) == remote[i] \notin Over \cup {"NONE"}

\* An order rests, is held back, or is partly filled.
Progress(i, w) ==
    /\ Live(i)
    /\ \/ w = "HELD" /\ remote[i] = "NEW" /\ UNCHANGED done
       \/ w = "CONFIRMED" /\ remote[i] \in {"NEW", "HELD"} /\ UNCHANGED done
       \/ /\ w = "PARTIAL" /\ done[i] + 1 < Quantity
          /\ done' = [done EXCEPT ![i] = @ + 1]
    /\ remote' = [remote EXCEPT ![i] = w]
    /\ BrokerOnly /\ UNCHANGED wire

\* An order is filled, cancelled with what it has, or fails unfilled.
EndOrder(i, w) ==
    /\ Live(i) /\ w \in Over
    /\ w = "FAILED" => done[i] = 0
    /\ remote' = [remote EXCEPT ![i] = w]
    /\ done' = [done EXCEPT ![i] = IF w = "COMPLETE" THEN Quantity ELSE @]
    /\ BrokerOnly /\ UNCHANGED wire

-------------------------------------------------------------------------------
(* Reconciliation.                                                         *)

PassOnly == UNCHANGED <<broker, submitter, crashes>>
EndPass(r) ==
    /\ rpc' = [rpc EXCEPT ![r] = "idle"]
    /\ todo' = [todo EXCEPT ![r] = {}]
    /\ snap' = [snap EXCEPT ![r] = [i \in Id |-> NoOrder]]
    /\ seen' = [seen EXCEPT ![r] = [i \in Id |-> "NONE"]]
    /\ disc' = [disc EXCEPT ![r] = FALSE]

\* The caller fetches the remote orders before it asks for a reconciliation.
Fetch(r) ==
    /\ rpc[r] = "idle"
    /\ snap' = [snap EXCEPT ![r] = [i \in Id |-> Remote(i)]]
    /\ rpc' = [rpc EXCEPT ![r] = "fetched"]
    /\ PassOnly /\ UNCHANGED <<journal, lastRun, todo, seen, disc>>

\* journal.unfinished(): each row as it is now, to be taken oldest first.
Unfinished == {i \in Id : state[i] \notin Terminal \cup {"NONE"}}
ReadLocal(r) ==
    /\ rpc[r] = "fetched"
    /\ todo' = [todo EXCEPT ![r] = Unfinished]
    /\ seen' = [seen EXCEPT ![r] = state]
    /\ disc' = [disc EXCEPT ![r] = FALSE]
    /\ rpc' = [rpc EXCEPT ![r] = "pass"]
    /\ PassOnly /\ UNCHANGED <<journal, lastRun, snap>>

\* The next row of a pass.
IsNext(r, i) ==
    /\ rpc[r] = "pass" /\ i \in todo[r]
    /\ \A j \in todo[r] : created[i] <= created[j]
Taken(r, i) ==
    /\ todo' = [todo EXCEPT ![r] = @ \ {i}]
    /\ UNCHANGED <<rpc, snap, seen>>

\* Mistake: an order is held to be unsent until the broker acknowledges it.
UntilAnswered(r, i) == seen[r][i] \in PreSubmission \cup {"SUBMITTING"}
\* What was never sent is left alone.
LocalOnly(r, i) == seen[r][i] \in PreSubmission
SkipLocal(r, i) ==
    /\ IsNext(r, i) /\ LocalOnly(r, i)
    /\ Taken(r, i) /\ UNCHANGED disc
    /\ PassOnly /\ UNCHANGED <<journal, lastRun>>

MissingIsRejected(r, i) ==  \* mistake: what the broker does not list, failed
    IF snap[r][i] = NoOrder THEN "REJECTED" ELSE Normalized(snap[r][i].word)
\* What a row becomes, given the remote orders that were fetched.
Verdict(r, i) ==
    IF snap[r][i] = NoOrder THEN Unknown ELSE Normalized(snap[r][i].word)
UnknownWord(r, i) ==  \* mistake: a missing order is no discrepancy
    snap[r][i] # NoOrder /\ Verdict(r, i) = Unknown
Discrepancy(r, i) == Verdict(r, i) = Unknown

ReconcileRow(r, i) ==
    /\ IsNext(r, i) /\ ~LocalOnly(r, i)
    /\ Transition(i, Verdict(r, i), snap[r][i].done)
    /\ Taken(r, i)
    /\ disc' = [disc EXCEPT ![r] = @ \/ Discrepancy(r, i)]
    /\ PassOnly /\ UNCHANGED lastRun

\* The transition is not allowed: the exception ends the pass.
AbortPass(r, i) ==
    /\ IsNext(r, i) /\ ~LocalOnly(r, i)
    /\ TransitionRaises(i, Verdict(r, i))
    /\ EndPass(r)
    /\ PassOnly /\ UNCHANGED lastRun

\* account_number_present is up to the caller.
RunStatus(r, account) ==
    IF account /\ ~disc[r] THEN "PASS" ELSE "FAIL_CLOSED"
RecordRun(r, account) ==
    /\ rpc[r] = "pass" /\ todo[r] = {}
    /\ lastRun' = RunStatus(r, account)
    /\ EndPass(r)
    /\ PassOnly /\ UNCHANGED journal

-------------------------------------------------------------------------------
(* Crashes: only the journal, and what is under way, survives.             *)

CrashSubmitter(s) ==
    /\ spc[s] # "idle" /\ crashes < MaxCrashes
    /\ crashes' = crashes + 1
    /\ Leave(s)
    /\ UNCHANGED <<journal, lastRun, broker, reconciler>>

CrashReconciler(r) ==
    /\ rpc[r] # "idle" /\ crashes < MaxCrashes
    /\ crashes' = crashes + 1
    /\ EndPass(r)
    /\ UNCHANGED <<journal, lastRun, broker, submitter>>

-------------------------------------------------------------------------------
Submit(s) ==
    \/ \E i \in Id, x \in Intent : Lookup(s, i, x)
    \/ Insert(s) \/ BeginSubmit(s) \/ Send(s) \/ Answer(s) \/ SubmitTimeout(s)
    \/ \E o \in OrderState : Prepare(s, o)

BrokerMoves(i) ==
    \/ Lose(i)
    \/ \E w \in Word : Accept(i, w) \/ Progress(i, w) \/ EndOrder(i, w)

Work(r) ==
    \/ Fetch(r) \/ ReadLocal(r)
    \/ \E i \in Id : SkipLocal(r, i) \/ ReconcileRow(r, i) \/ AbortPass(r, i)
    \/ \E account \in BOOLEAN : RecordRun(r, account)

Next ==
    \/ \E s \in Submitter : Submit(s) \/ CrashSubmitter(s)
    \/ \E i \in Id : BrokerMoves(i)
    \/ \E r \in Reconciler : Work(r) \/ CrashReconciler(r)

Spec == Init /\ [][Next]_vars

\* Reconciliation is run again and again, and every request is delivered or
\* lost; nothing is assumed of the submitters.
Prompt == /\ \A r \in Reconciler : WF_vars(Work(r))
          /\ \A i \in Id : WF_vars(Lose(i) \/ \E w \in Word : Accept(i, w))
\* The broker ends every order some day.
BrokerEnds == \A i \in Id : WF_vars(\E w \in Word : EndOrder(i, w))

SpecFair == Spec /\ Prompt /\ BrokerEnds

\* In addition, a submitter that does not crash goes on.
SpecDiligent ==
    SpecFair /\ \A s \in Submitter :
        WF_vars(Insert(s) \/ BeginSubmit(s) \/ Send(s) \/ Answer(s) \/ SubmitTimeout(s))

-------------------------------------------------------------------------------
(* What the journal promises.                                              *)

\* An order is requested at most once, whatever crashes, timeouts and blind
\* retries happen: only one submitter ever makes it SUBMITTING.
SubmittedOnce == \A i \in Id : sends[i] <= 1

\* What the broker was asked for is what the journal says, however many
\* submitters used the same client_order_id for different intents.
SentAsJournalled ==
    \A i \in Id : sends[i] > 0 => state[i] # "NONE" /\ sent[i] = intent[i]

\* An order the journal has closed is over at the broker, in the same way and
\* with the same quantity filled: no stale snapshot, late answer, timeout or
\* lost request closes an order that is live, or on its way to become so.
ClosedIsTrue ==
    \A i \in Id : state[i] \in Terminal =>
        Normalized(remote[i]) = state[i] /\ filled[i] = done[i]

\* The quantity filled never decreases and is never ahead of the broker, in
\* whatever order two reconcilers and a late answer report it.
FillsFollowBroker ==
    [][\A i \in Id : filled[i] <= filled'[i] /\ filled'[i] <= done'[i]]_vars

\* A run recorded as PASS found every order it took for sent, and knew the
\* word the broker used for it.
PassMeansConfirmed ==
    [][\A r \in Reconciler :
        /\ rpc[r] = "pass" /\ todo[r] = {} /\ rpc'[r] = "idle"
        /\ lastRun' = "PASS" /\ crashes' = crashes
        => \A i \in Id : seen[r][i] \in BrokerVisible =>
               Normalized(snap[r][i].word) # Unknown]_vars

\* SUBMITTING -> CANCELED is not an allowed transition: an order that was
\* cancelled at the broker before any answer was journalled cannot be closed.
Stuck(i) == state[i] = "SUBMITTING" /\ remote[i] = "CANCELLED"

\* Such an order is blocked once nobody waits for its answer, no snapshot from
\* before the cancellation is left, and no pass is beyond it.
Blocked(i) ==
    /\ Stuck(i)
    /\ \A s \in Submitter : oid[s] = i => spc[s] # "wait"
    /\ \A r \in Reconciler :
        /\ rpc[r] # "idle" => snap[r][i].word = "CANCELLED"
        /\ rpc[r] = "pass" => i \in todo[r] /\ seen[r][i] = "SUBMITTING"

\* Nothing repairs it: no retry of the submission, no restart, no later pass.
\* And no pass is recorded any more, so that the status of an earlier one, even
\* PASS, stays the last.
BlockedForGood ==
    [][\A i \in Id : Blocked(i) => Blocked(i)' /\ lastRun' = lastRun]_vars

\* A pass that reports an order to be over can close it, whatever happened to
\* its row since it was read: nothing but a stuck order makes such a pass fail.
ClosableUnlessStuck ==
    \A r \in Reconciler, i \in Id :
        rpc[r] = "pass" /\ i \in todo[r] /\ snap[r][i].word \in Over =>
            CanTransition(i, Verdict(r, i)) \/ Stuck(i)

\* An order that is over at the broker is closed in the journal some day, also
\* when its submitter crashed or timed out, unless a stuck order makes every
\* pass fail.
OverGetsClosed ==
    \A i \in Id :
        remote[i] \in Over ~> state[i] \in Terminal \/ \E j \in Id : Stuck(j)

\* The same without the exception: what restart reconciliation is for.
RestartReconciles ==
    \A i \in Id : remote[i] \in Over ~> state[i] \in Terminal

\* The journal implements the life of an order: whatever its actors interleave,
\* what a reader sees is a recording, one request, fills, and one end.
Phase(i) ==
    IF state[i] \in Terminal \cup {"NONE"} THEN state[i]
    ELSE IF sends[i] = 0 THEN "RECORDED" ELSE "REQUESTED"
Life == INSTANCE OrderLife WITH phase <- [i \in Id |-> Phase(i)]
LifeSpec == Life!Spec
===============================================================================
