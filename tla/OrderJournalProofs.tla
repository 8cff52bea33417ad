-------------------------- MODULE OrderJournalProofs --------------------------
(***************************************************************************)
(* Proofs about OrderJournal for any orders, intents, submitters,          *)
(* reconcilers and quantities.                                             *)
(***************************************************************************)
EXTENDS OrderJournal, TLAPS

\* A submitter works on a row that exists and has its intent; an answer is
\* there only while it waits; an order about to be sent was never sent, and
\* nobody else is about to send it.
SubmitterInv ==
    \A s \in Submitter :
        /\ spc[s] \in {"created", "send", "wait"} =>
               state[oid[s]] # "NONE" /\ want[s] = intent[oid[s]]
        /\ spc[s] # "wait" => reply[s] = NoOrder
        /\ spc[s] = "send" =>
               sends[oid[s]] = 0 /\ state[oid[s]] \notin PreSubmission
OneSender ==
    \A s, t \in Submitter :
        spc[s] = "send" /\ spc[t] = "send" /\ oid[s] = oid[t] => s = t

\* What was sent, what is under way and what the broker knows.
SentInv ==
    \A i \in Id :
        /\ state[i] \in PreSubmission \cup {"NONE"} => sends[i] = 0
        /\ sends[i] = 0 => i \notin wire /\ remote[i] = "NONE"
        /\ i \in wire => remote[i] = "NONE"
        /\ remote[i] = "NONE" => done[i] = 0
        /\ filled[i] <= done[i]

\* A report of the broker, however old, is behind the order it is about, and
\* final when it says that the order is over.
Follows(p, i) ==
    /\ p.done <= done[i]
    /\ p.word \in Over => p.word = remote[i] /\ p.done = done[i]
ReportInv ==
    /\ \A r \in Reconciler, i \in Id : Follows(snap[r][i], i)
    /\ \A s \in Submitter : Follows(reply[s], oid[s])

\* A pass has no discrepancy: what it has taken for sent so far is confirmed.
PassInv ==
    \A r \in Reconciler : rpc[r] = "pass" /\ ~disc[r] =>
        \A i \in Id : seen[r][i] \in BrokerVisible =>
            i \in todo[r] \/ Normalized(snap[r][i].word) # Unknown

\* The inductive invariant.
JournalInv ==
    /\ TypeOK /\ SubmitterInv /\ OneSender /\ SentInv /\ ReportInv
    /\ SubmittedOnce /\ SentAsJournalled /\ ClosedIsTrue

-------------------------------------------------------------------------------
(* The transition table and the broker's words.                            *)

LEMMA AllowedFacts ==
    ASSUME NEW o \in OrderState, NEW n \in Allowed[o]
    PROVE  /\ n \in OrderState
           /\ n \in PreSubmission => o \in PreSubmission
           /\ n = "SUBMITTING" => o \in PreSubmission
           /\ o \in Terminal => n = o
BY DEF Allowed, OrderState, PreSubmission, BrokerVisible, Terminal, Results, Unknown

LEMMA NormalizedFacts ==
    ASSUME NEW w \in Word
    PROVE  /\ Normalized(w) \in BrokerVisible \cup Terminal
           /\ Normalized(w) # "SUBMITTING"
           /\ Normalized(w) \in Terminal <=> w \in Over
           /\ Normalized(w) \notin PreSubmission
BY DEF Normalized, Word, Over, Terminal, BrokerVisible, PreSubmission, Unknown

\* What a transition does to the journal, when the quantity it reports is not
\* ahead of the broker, and final if the new state is.
Report(i, o, n) ==
    /\ n \in 0..Quantity /\ n <= done[i]
    /\ o \in Terminal => Normalized(remote[i]) = o /\ n = done[i]

LEMMA TransitionFacts ==
    ASSUME TypeOK, SentInv, ClosedIsTrue, NEW i \in Id, NEW o, NEW n,
           Transition(i, o, n), Report(i, o, n)
    PROVE  /\ state' \in [Id -> OrderState \cup {"NONE"}]
           /\ filled' \in [Id -> 0..Quantity]
           /\ \A j \in Id : filled[j] <= filled'[j] /\ filled'[j] <= done[j]
           /\ \A j \in Id : state'[j] \in Terminal =>
                  Normalized(remote[j]) = state'[j] /\ filled'[j] = done[j]
           /\ \A j \in Id : state'[j] = "NONE" <=> state[j] = "NONE"
           /\ \A j \in Id : state'[j] \in PreSubmission => state[j] \in PreSubmission
           /\ o \in OrderState /\ state[i] \in OrderState /\ o \in Allowed[state[i]]
           /\ state'[i] = o
<1> USE DEF TypeOK, SentInv, Report
<1>1. /\ state[i] \in OrderState /\ o \in Allowed[state[i]]
      /\ state' = [state EXCEPT ![i] = o]
      /\ filled' = [filled EXCEPT ![i] = FilledAfter(i, n)]
  BY DEF Transition, CanTransition
<1>2. /\ o \in OrderState /\ o # "NONE"
      /\ o \in PreSubmission => state[i] \in PreSubmission
      /\ state[i] \in Terminal => o = state[i]
  BY <1>1, AllowedFacts DEF OrderState, PreSubmission, BrokerVisible, Terminal, Unknown
<1>3. /\ FilledAfter(i, n) \in 0..Quantity
      /\ filled[i] <= FilledAfter(i, n) /\ FilledAfter(i, n) <= done[i]
      /\ n = done[i] => FilledAfter(i, n) = done[i]
  <2>1. filled[i] \in 0..Quantity /\ done[i] \in 0..Quantity /\ filled[i] <= done[i]
    OBVIOUS
  <2>2. n \in 0..Quantity /\ n <= done[i]
    OBVIOUS
  <2> HIDE DEF TypeOK, SentInv, Report
  <2>3. QED
    BY <2>1, <2>2, JournalAssumption DEF FilledAfter, Max2
<1>4. /\ state' \in [Id -> OrderState \cup {"NONE"}]
      /\ filled' \in [Id -> 0..Quantity]
  BY <1>1, <1>2, <1>3
<1>5. \A j \in Id : filled[j] <= filled'[j] /\ filled'[j] <= done[j]
  BY <1>1, <1>3
<1>6. \A j \in Id : state'[j] \in Terminal =>
          Normalized(remote[j]) = state'[j] /\ filled'[j] = done[j]
  BY <1>1, <1>3 DEF ClosedIsTrue
<1>7. \A j \in Id : /\ state'[j] = "NONE" <=> state[j] = "NONE"
                    /\ state'[j] \in PreSubmission => state[j] \in PreSubmission
  BY <1>1, <1>2 DEF OrderState, PreSubmission, BrokerVisible, Terminal, Unknown
<1>8. QED
  BY <1>1, <1>2, <1>4, <1>5, <1>6, <1>7

\* A report of the broker that follows the order.
LEMMA FollowingReport ==
    ASSUME TypeOK, NEW i \in Id, NEW p \in RemoteOrder, Follows(p, i)
    PROVE  Report(i, Normalized(p.word), p.done)
<1>1. p.word \in Word /\ p.done \in 0..Quantity
  BY DEF RemoteOrder
<1>2. Normalized(p.word) \in Terminal => p.word \in Over
  BY <1>1, NormalizedFacts
<1>3. QED
  BY <1>1, <1>2 DEF Report, Follows

LEMMA NoReport ==
    ASSUME TypeOK, NEW i \in Id, NEW o, o \notin Terminal
    PROVE  Report(i, o, 0)
<1>1. done[i] \in 0..Quantity
  BY DEF TypeOK
<1>2. QED
  BY <1>1, JournalAssumption DEF Report

-------------------------------------------------------------------------------
(* The submitters.                                                         *)

\* What a submitter remembers once it has left an order.
LEMMA LeaveFacts ==
    ASSUME TypeOK, SubmitterInv, OneSender, NEW s \in Submitter, NEW i \in Id, Leave(s)
    PROVE  /\ spc' \in [Submitter -> SPC] /\ oid' \in [Submitter -> Id]
           /\ want' \in [Submitter -> Intent] /\ reply' \in [Submitter -> RemoteOrder]
           /\ spc'[s] = "idle" /\ reply'[s] = NoOrder
           /\ \A u \in Submitter \ {s} :
                  /\ spc'[u] = spc[u] /\ oid'[u] = oid[u]
                  /\ want'[u] = want[u] /\ reply'[u] = reply[u]
<1>1. SomeId \in Id
  BY DEF SomeId
<1>2. want[s] \in Intent /\ SomeIntent \in Intent
  BY DEF TypeOK, SomeIntent
<1>3. NoOrder \in RemoteOrder
  BY JournalAssumption DEF NoOrder, RemoteOrder, Word
<1>4. QED
  BY <1>1, <1>2, <1>3 DEF Leave, TypeOK, SPC

LEMMA NoOrderFollows ==
    ASSUME TypeOK, NEW i \in Id
    PROVE  Follows(NoOrder, i)
<1>1. done[i] \in 0..Quantity
  BY DEF TypeOK
<1>2. QED
  BY <1>1, JournalAssumption DEF Follows, NoOrder, Over

LEMMA LookupStep ==
    ASSUME JournalInv, NEW s \in Submitter, NEW i \in Id, NEW x \in Intent,
           Lookup(s, i, x)
    PROVE  JournalInv'
<1> USE DEF JournalInv
<1>1. /\ UNCHANGED <<state, intent, filled, created, rows, lastRun, remote, done,
                     wire, sends, sent, rpc, snap, todo, seen, disc, crashes, reply>>
      /\ spc' \in [Submitter -> SPC] /\ oid' \in [Submitter -> Id]
      /\ want' \in [Submitter -> Intent]
      /\ spc'[s] \in {"insert", "created"} /\ spc[s] = "idle"
      /\ oid'[s] = i /\ want'[s] = x
      /\ spc'[s] = "created" => state[i] # "NONE" /\ intent[i] = x
      /\ \A u \in Submitter \ {s} :
             spc'[u] = spc[u] /\ oid'[u] = oid[u] /\ want'[u] = want[u]
  BY DEF Lookup, TypeOK, SPC, SameIntent, journal, broker, reconciler
<1>2. TypeOK'
  BY <1>1 DEF TypeOK
<1>3. SubmitterInv' /\ OneSender'
  BY <1>1 DEF SubmitterInv, OneSender
<1>4. ReportInv'
  <2>1. reply[s] = NoOrder
    BY <1>1 DEF SubmitterInv
  <2>2. \A u \in Submitter : Follows(reply[u], oid'[u])
    BY <1>1, <2>1, NoOrderFollows DEF ReportInv
  <2>3. QED
    BY <1>1, <2>2 DEF ReportInv, Follows
<1>5. SentInv' /\ SubmittedOnce' /\ SentAsJournalled' /\ ClosedIsTrue'
  BY <1>1 DEF SentInv, SubmittedOnce, SentAsJournalled, ClosedIsTrue
<1>6. QED
  BY <1>2, <1>3, <1>4, <1>5

LEMMA InsertStep ==
    ASSUME JournalInv, NEW s \in Submitter, Insert(s)
    PROVE  JournalInv'
<1> USE DEF JournalInv
<1>0. /\ UNCHANGED <<lastRun, remote, done, wire, sends, sent, rpc, snap, todo, seen,
                     disc, crashes>>
      /\ spc[s] = "insert" /\ oid[s] \in Id
  BY DEF Insert, broker, reconciler, TypeOK
<1>1. CASE KeyTaken(oid[s])
  <2>1. Leave(s) /\ UNCHANGED <<state, intent, filled, created, rows>>
    BY <1>1 DEF Insert, journal
  <2>2. TypeOK'
    BY <1>0, <2>1, LeaveFacts DEF TypeOK
  <2>3. SubmitterInv' /\ OneSender'
    BY <1>0, <2>1, LeaveFacts DEF SubmitterInv, OneSender
  <2>4. ReportInv'
    <3>1. oid'[s] \in Id
      BY <1>0, <2>1, LeaveFacts
    <3>2. \A u \in Submitter : Follows(reply'[u], oid'[u])
      BY <1>0, <2>1, <3>1, LeaveFacts, NoOrderFollows DEF ReportInv
    <3>3. QED
      BY <1>0, <3>2 DEF ReportInv, Follows
  <2>5. SentInv' /\ SubmittedOnce' /\ SentAsJournalled' /\ ClosedIsTrue'
    BY <1>0, <2>1 DEF SentInv, SubmittedOnce, SentAsJournalled, ClosedIsTrue
  <2>6. QED
    BY <2>2, <2>3, <2>4, <2>5
<1>2. CASE ~KeyTaken(oid[s])
  <2> DEFINE i == oid[s]
  <2>1. /\ state' = [state EXCEPT ![i] = "CREATED"]
        /\ intent' = [intent EXCEPT ![i] = want[s]]
        /\ created' = [created EXCEPT ![i] = rows] /\ rows' = rows + 1
        /\ spc' = [spc EXCEPT ![s] = "created"]
        /\ UNCHANGED <<filled, oid, want, reply>>
        /\ state[i] = "NONE"
    BY <1>2 DEF Insert, Goto, KeyTaken
  <2>2. TypeOK'
    BY <1>0, <2>1 DEF TypeOK, OrderState, PreSubmission, SPC
  <2>3. SubmitterInv' /\ OneSender'
    BY <1>0, <2>1 DEF SubmitterInv, OneSender, TypeOK
  <2>4. ReportInv'
    BY <1>0, <2>1 DEF ReportInv, Follows
  <2>5. SentInv' /\ SubmittedOnce' /\ SentAsJournalled' /\ ClosedIsTrue'
    BY <1>0, <2>1 DEF SentInv, SubmittedOnce, SentAsJournalled, ClosedIsTrue, TypeOK,
                      PreSubmission, Terminal
  <2>6. QED
    BY <2>2, <2>3, <2>4, <2>5
<1>3. QED
  BY <1>1, <1>2

\* What every transition preserves.
LEMMA RowChange ==
    ASSUME JournalInv, NEW i \in Id, NEW o, NEW n,
           Transition(i, o, n), Report(i, o, n), UNCHANGED broker
    PROVE  /\ SubmittedOnce' /\ SentAsJournalled' /\ ClosedIsTrue' /\ SentInv'
           /\ state' \in [Id -> OrderState \cup {"NONE"}]
           /\ filled' \in [Id -> 0..Quantity]
           /\ UNCHANGED <<intent, created, rows, remote, done, wire, sends, sent>>
           /\ \A j \in Id : state'[j] = "NONE" <=> state[j] = "NONE"
           /\ \A j \in Id : state'[j] \in PreSubmission => state[j] \in PreSubmission
<1> USE DEF JournalInv
<1>1. UNCHANGED <<intent, created, rows, remote, done, wire, sends, sent>>
  BY DEF Transition, broker
<1>2. SubmittedOnce'
  BY <1>1 DEF SubmittedOnce
<1>3. SentAsJournalled'
  BY <1>1, TransitionFacts DEF SentAsJournalled
<1>4. ClosedIsTrue'
  BY <1>1, TransitionFacts DEF ClosedIsTrue
<1>5. SentInv'
  BY <1>1, TransitionFacts DEF SentInv
<1>6. QED
  BY <1>1, <1>2, <1>3, <1>4, <1>5, TransitionFacts

\* Nothing but the rows changes, and those only as RowChange allows.
LEMMA PrepareStep ==
    ASSUME JournalInv, NEW s \in Submitter, NEW o \in OrderState, Prepare(s, o)
    PROVE  JournalInv'
<1> USE DEF JournalInv
<1>0. oid[s] \in Id /\ o \notin Terminal /\ o # "SUBMITTING"
  BY DEF Prepare, TypeOK, Terminal
<1>1. /\ Transition(oid[s], o, 0) /\ UNCHANGED broker /\ Report(oid[s], o, 0)
      /\ UNCHANGED <<lastRun, spc, oid, want, reply, rpc, snap, todo, seen, disc,
                     crashes>>
  BY <1>0, NoReport DEF Prepare, submitter, reconciler
<1>2. TypeOK'
  BY <1>0, <1>1, RowChange DEF TypeOK
<1>3. SubmitterInv' /\ OneSender'
  BY <1>0, <1>1, RowChange DEF SubmitterInv, OneSender, TypeOK
<1>4. ReportInv'
  BY <1>0, <1>1, RowChange DEF ReportInv, Follows
<1>5. QED
  BY <1>0, <1>1, <1>2, <1>3, <1>4, RowChange

\* Whatever happens to its row, a submitter that leaves knows nothing.
LEMMA LeaveStep ==
    ASSUME JournalInv, NEW s \in Submitter, Leave(s),
           UNCHANGED <<lastRun, broker, reconciler>>, crashes' \in 0..MaxCrashes,
           \/ UNCHANGED journal
           \/ \E o \in OrderState, n \in Nat :
                  Transition(oid[s], o, n) /\ Report(oid[s], o, n)
    PROVE  JournalInv'
<1> USE DEF JournalInv
<1>0. oid[s] \in Id /\ oid'[s] \in Id
  BY LeaveFacts DEF TypeOK
<1>1. /\ SubmittedOnce' /\ SentAsJournalled' /\ ClosedIsTrue' /\ SentInv'
      /\ state' \in [Id -> OrderState \cup {"NONE"}]
      /\ filled' \in [Id -> 0..Quantity]
      /\ UNCHANGED <<intent, created, rows, remote, done, wire, sends, sent>>
      /\ \A j \in Id : state'[j] = "NONE" <=> state[j] = "NONE"
      /\ \A j \in Id : state'[j] \in PreSubmission => state[j] \in PreSubmission
  <2>1. CASE UNCHANGED journal
    BY <2>1 DEF journal, broker, SubmittedOnce, SentAsJournalled, ClosedIsTrue,
                SentInv, TypeOK
  <2>2. CASE \E o \in OrderState, n \in Nat :
                 Transition(oid[s], o, n) /\ Report(oid[s], o, n)
    BY <1>0, <2>2, RowChange
  <2>3. QED
    BY <2>1, <2>2
<1>2. UNCHANGED <<lastRun, rpc, snap, todo, seen, disc>>
  BY DEF reconciler
<1>3. TypeOK'
  BY <1>0, <1>1, <1>2, LeaveFacts DEF TypeOK
<1>4. SubmitterInv' /\ OneSender'
  <2>1. /\ spc'[s] = "idle" /\ reply'[s] = NoOrder
        /\ \A u \in Submitter \ {s} :
               /\ spc'[u] = spc[u] /\ oid'[u] = oid[u]
               /\ want'[u] = want[u] /\ reply'[u] = reply[u]
    BY <1>0, LeaveFacts
  <2>2. \A u \in Submitter : oid[u] \in Id
    BY DEF TypeOK
  <2>3. SubmitterInv'
    BY <1>1, <2>1, <2>2 DEF SubmitterInv
  <2>4. OneSender'
    BY <2>1 DEF OneSender
  <2>5. QED
    BY <2>3, <2>4
<1>5. ReportInv'
  <2>1. \A u \in Submitter : Follows(reply'[u], oid'[u])
    BY <1>0, LeaveFacts, NoOrderFollows DEF ReportInv
  <2>2. QED
    BY <1>1, <1>2, <2>1 DEF ReportInv, Follows
<1>6. QED
  BY <1>1, <1>3, <1>4, <1>5

LEMMA BeginSubmitStep ==
    ASSUME JournalInv, NEW s \in Submitter, BeginSubmit(s)
    PROVE  JournalInv'
<1> USE DEF JournalInv
<1>0. oid[s] \in Id /\ UNCHANGED <<lastRun, broker, reconciler, crashes>>
      /\ crashes \in 0..MaxCrashes /\ spc[s] = "created"
  BY DEF BeginSubmit, TypeOK
<1>1. CASE TransitionRaises(oid[s], "SUBMITTING") /\ Leave(s)
  BY <1>0, <1>1, LeaveStep DEF TransitionRaises
<1>2. CASE Transition(oid[s], "SUBMITTING", 0) /\ Goto(s, "send")
  <2>1. Report(oid[s], "SUBMITTING", 0)
    BY <1>0, NoReport DEF Terminal
  <2>2. /\ spc' = [spc EXCEPT ![s] = "send"] /\ UNCHANGED <<oid, want, reply>>
        /\ UNCHANGED <<lastRun, rpc, snap, todo, seen, disc, crashes>>
    BY <1>0, <1>2 DEF Goto, reconciler
  <2>3. /\ state[oid[s]] \in PreSubmission /\ state'[oid[s]] = "SUBMITTING"
        /\ sends[oid[s]] = 0
    <3>1. /\ state[oid[s]] \in OrderState /\ "SUBMITTING" \in Allowed[state[oid[s]]]
          /\ state'[oid[s]] = "SUBMITTING"
      BY <1>0, <1>2, <2>1, TransitionFacts
    <3>2. QED
      BY <1>0, <3>1, AllowedFacts DEF SentInv
  <2>4. TypeOK'
    BY <1>0, <1>2, <2>1, <2>2, RowChange DEF TypeOK, SPC
  <2>5. SubmitterInv'
    BY <1>0, <1>2, <2>1, <2>2, <2>3, RowChange DEF SubmitterInv, TypeOK, PreSubmission
  <2>6. OneSender'
    BY <1>0, <2>2, <2>3 DEF SubmitterInv, OneSender, TypeOK
  <2>7. ReportInv'
    BY <1>0, <1>2, <2>1, <2>2, RowChange DEF ReportInv, Follows
  <2>8. QED
    BY <1>0, <1>2, <2>1, <2>4, <2>5, <2>6, <2>7, RowChange
<1>3. QED
  BY <1>1, <1>2 DEF BeginSubmit

LEMMA SendStep ==
    ASSUME JournalInv, NEW s \in Submitter, Send(s)
    PROVE  JournalInv'
<1> USE DEF JournalInv
<1> DEFINE i == oid[s]
<1>0. /\ i \in Id /\ spc[s] = "send"
      /\ wire' = wire \cup {i} /\ sends' = [sends EXCEPT ![i] = @ + 1]
      /\ sent' = [sent EXCEPT ![i] = want[s]]
      /\ spc' = [spc EXCEPT ![s] = "wait"] /\ UNCHANGED <<oid, want, reply>>
      /\ UNCHANGED <<state, intent, filled, created, rows, lastRun, remote, done, rpc,
                     snap, todo, seen, disc, crashes>>
  BY DEF Send, Goto, TypeOK, journal, reconciler
<1>1. /\ sends[i] = 0 /\ state[i] \notin PreSubmission /\ state[i] # "NONE"
      /\ want[s] = intent[i] /\ remote[i] = "NONE"
  BY <1>0 DEF SubmitterInv, SentInv
<1>2. TypeOK'
  BY <1>0 DEF TypeOK, SPC
<1>3. SubmitterInv'
  BY <1>0, <1>1 DEF SubmitterInv, OneSender, TypeOK
<1>4. OneSender'
  BY <1>0 DEF OneSender, TypeOK
<1>5. SentInv' /\ SubmittedOnce'
  BY <1>0, <1>1 DEF SentInv, SubmittedOnce, TypeOK
<1>6. SentAsJournalled' /\ ClosedIsTrue'
  BY <1>0, <1>1 DEF SentAsJournalled, ClosedIsTrue, TypeOK
<1>7. ReportInv'
  BY <1>0 DEF ReportInv, Follows
<1>8. QED
  BY <1>2, <1>3, <1>4, <1>5, <1>6, <1>7

\* The answer follows the order it is about; a timeout says nothing of it.
LEMMA AnswerStep ==
    ASSUME JournalInv, NEW s \in Submitter, Answer(s) \/ SubmitTimeout(s)
    PROVE  JournalInv'
<1>0. TypeOK /\ ReportInv /\ oid[s] \in Id /\ reply[s] \in RemoteOrder
      /\ crashes \in 0..MaxCrashes
  BY DEF JournalInv, TypeOK
<1>1. Report(oid[s], Normalized(reply[s].word), reply[s].done)
  BY <1>0, FollowingReport DEF ReportInv
<1>2. Report(oid[s], Unknown, 0) /\ Unknown \in OrderState
  BY <1>0, NoReport DEF Unknown, Terminal, OrderState, BrokerVisible
<1>3. Normalized(reply[s].word) \in OrderState /\ reply[s].done \in Nat
  BY <1>0, JournalAssumption, NormalizedFacts DEF RemoteOrder, OrderState
<1>4. /\ Leave(s) /\ UNCHANGED <<lastRun, broker, reconciler>>
      /\ crashes' \in 0..MaxCrashes
  BY <1>0 DEF Answer, SubmitTimeout
<1>5. \/ UNCHANGED journal
      \/ \E o \in OrderState, n \in Nat :
             Transition(oid[s], o, n) /\ Report(oid[s], o, n)
  BY <1>1, <1>2, <1>3 DEF Answer, SubmitTimeout, TransitionRaises
<1>6. QED
  BY <1>4, <1>5, LeaveStep

-------------------------------------------------------------------------------
(* The broker.                                                             *)

LEMMA AcceptStep ==
    ASSUME JournalInv, NEW i \in Id, NEW w \in Word, Accept(i, w)
    PROVE  JournalInv'
<1> USE DEF JournalInv
<1>0. /\ i \in wire /\ w \in {"NEW", "COMPLETE", "FAILED"} /\ wire' = wire \ {i}
      /\ remote' = [remote EXCEPT ![i] = w]
      /\ done' = [done EXCEPT ![i] = IF w = "COMPLETE" THEN Quantity ELSE 0]
      /\ reply' = [s \in Submitter |->
             IF spc[s] = "wait" /\ oid[s] = i
             THEN [word |-> w, done |-> done'[i]] ELSE reply[s]]
      /\ UNCHANGED <<state, intent, filled, created, rows, lastRun, sends, sent, spc,
                     oid, want, rpc, snap, todo, seen, disc, crashes>>
  BY DEF Accept, Elsewhere, journal, reconciler
<1>1. /\ remote[i] = "NONE" /\ done[i] = 0 /\ filled[i] <= 0 /\ sends[i] # 0
  BY <1>0 DEF SentInv
<1>2. done' \in [Id -> 0..Quantity] /\ done'[i] \in 0..Quantity
  BY <1>0, JournalAssumption DEF TypeOK
<1>3. reply' \in [Submitter -> RemoteOrder]
  BY <1>0, <1>2 DEF TypeOK, RemoteOrder
<1>4. TypeOK'
  BY <1>0, <1>2, <1>3 DEF TypeOK
<1>5. SubmitterInv' /\ OneSender'
  BY <1>0 DEF SubmitterInv, OneSender
<1>6. SentInv'
  <2>1. filled[i] \in Nat /\ filled[i] <= done'[i]
    BY <1>0, <1>1, <1>2, JournalAssumption DEF TypeOK
  <2>2. QED
    BY <1>0, <1>1, <2>1 DEF SentInv, TypeOK
<1>7. ReportInv'
  <2>1. \A p : Follows(p, i) => p.done <= 0 /\ p.word \notin Over
    BY <1>1 DEF Follows, Over
  <2>2. \A r \in Reconciler, j \in Id : Follows(snap[r][j], j)'
    <3>1. SUFFICES ASSUME NEW r \in Reconciler, NEW j \in Id
                   PROVE  Follows(snap[r][j], j)'
      OBVIOUS
    <3>2. CASE j = i
      <4>1. snap[r][i].done \in Nat /\ snap[r][i].done <= 0 /\ snap[r][i].word \notin Over
        BY <2>1, JournalAssumption DEF ReportInv, TypeOK, RemoteOrder
      <4>2. snap[r][i].done <= done'[i]
        BY <4>1, <1>2, JournalAssumption
      <4>3. QED
        BY <1>0, <3>2, <4>1, <4>2 DEF Follows
    <3>3. CASE j # i
      BY <1>0, <3>3 DEF ReportInv, Follows, TypeOK
    <3>4. QED
      BY <3>2, <3>3
  <2>3. \A s \in Submitter : Follows(reply[s], oid[s])'
    <3>1. SUFFICES ASSUME NEW s \in Submitter
                   PROVE  Follows(reply[s], oid[s])'
      OBVIOUS
    <3>2. CASE spc[s] = "wait" /\ oid[s] = i
      <4>1. reply'[s] = [word |-> w, done |-> done'[i]] /\ oid'[s] = i
        BY <1>0, <3>2
      <4>2. done'[i] <= done'[i] /\ remote'[i] = w
        BY <1>0, <1>2, JournalAssumption DEF TypeOK
      <4>3. QED
        BY <4>1, <4>2 DEF Follows
    <3>3. CASE oid[s] # i
      BY <1>0, <3>3 DEF ReportInv, Follows, TypeOK
    <3>4. CASE oid[s] = i /\ spc[s] # "wait"
      <4>1. reply'[s] = NoOrder /\ oid'[s] = i
        BY <1>0, <3>4 DEF SubmitterInv
      <4>2. QED
        BY <1>2, <4>1, JournalAssumption DEF Follows, NoOrder, Over
    <3>5. QED
      BY <3>2, <3>3, <3>4
  <2>4. QED
    BY <2>2, <2>3 DEF ReportInv
<1>8. SubmittedOnce' /\ SentAsJournalled'
  BY <1>0 DEF SubmittedOnce, SentAsJournalled
<1>9. ClosedIsTrue'
  <2>1. state[i] \notin Terminal
    BY <1>1 DEF ClosedIsTrue, Normalized, Terminal, Unknown
  <2>2. QED
    BY <1>0, <2>1 DEF ClosedIsTrue, TypeOK
<1>10. QED
  BY <1>4, <1>5, <1>6, <1>7, <1>8, <1>9

\* An order that is not over moves on: it only fills further.
LEMMA LiveStep ==
    ASSUME JournalInv, NEW i \in Id, Live(i), NEW w \in Word, w # "NONE",
           remote' = [remote EXCEPT ![i] = w], NEW d \in 0..Quantity, done[i] <= d,
           done' = [done EXCEPT ![i] = d],
           BrokerOnly, UNCHANGED wire
    PROVE  JournalInv'
<1> USE DEF JournalInv
<1>0. UNCHANGED <<state, intent, filled, created, rows, lastRun, sends, sent, spc, reply,
                  oid, want, rpc, snap, todo, seen, disc, crashes, wire>>
  BY DEF BrokerOnly, Elsewhere, journal, reconciler
<1>1. remote[i] \notin Over /\ remote[i] # "NONE"
  BY DEF Live
<1>2. TypeOK'
  BY <1>0 DEF TypeOK
<1>3. SubmitterInv' /\ OneSender' /\ SubmittedOnce' /\ SentAsJournalled'
  BY <1>0 DEF SubmitterInv, OneSender, SubmittedOnce, SentAsJournalled
<1>4. \A p \in RemoteOrder, j \in Id : Follows(p, j) => Follows(p, j)'
  <2>1. SUFFICES ASSUME NEW p \in RemoteOrder, NEW j \in Id, Follows(p, j)
                 PROVE  p.done <= done'[j]
                        /\ (p.word \in Over => p.word = remote'[j] /\ p.done = done'[j])
    BY DEF Follows
  <2>2. p.done \in Nat /\ done[j] \in Nat /\ d \in Nat
    BY JournalAssumption DEF RemoteOrder, TypeOK
  <2>3. CASE j = i
    BY <1>1, <2>1, <2>2, <2>3 DEF Follows, TypeOK
  <2>4. CASE j # i
    BY <2>1, <2>4 DEF Follows, TypeOK
  <2>5. QED
    BY <2>3, <2>4
<1>5. ReportInv'
  BY <1>0, <1>4 DEF ReportInv, TypeOK
<1>6. SentInv'
  <2>1. filled[i] <= d
    BY JournalAssumption DEF SentInv, TypeOK
  <2>2. QED
    BY <1>0, <1>1, <2>1 DEF SentInv, TypeOK
<1>7. ClosedIsTrue'
  <2>1. state[i] \notin Terminal
    BY <1>1, NormalizedFacts DEF ClosedIsTrue, TypeOK
  <2>2. QED
    BY <1>0, <2>1 DEF ClosedIsTrue, TypeOK
<1>8. QED
  BY <1>2, <1>3, <1>5, <1>6, <1>7

LEMMA BrokerStep ==
    ASSUME JournalInv, NEW i \in Id, BrokerMoves(i)
    PROVE  JournalInv'
<1>0. /\ done \in [Id -> 0..Quantity] /\ Quantity \in Nat
      /\ done[i] \in Nat
  BY JournalAssumption DEF JournalInv, TypeOK
<1>1. CASE Lose(i)
  BY <1>1 DEF Lose, BrokerOnly, Elsewhere, JournalInv, TypeOK, SubmitterInv, OneSender,
              SentInv, ReportInv, Follows, SubmittedOnce, SentAsJournalled, ClosedIsTrue,
              journal, reconciler
<1>2. ASSUME NEW w \in Word, Accept(i, w) PROVE JournalInv'
  BY <1>2, AcceptStep
<1>3. ASSUME NEW w \in Word, Progress(i, w) PROVE JournalInv'
  <2>0. /\ Live(i) /\ w # "NONE" /\ BrokerOnly /\ UNCHANGED wire
        /\ remote' = [remote EXCEPT ![i] = w]
    BY <1>3 DEF Progress
  <2>1. CASE UNCHANGED done
    <3>1. done' = [done EXCEPT ![i] = done[i]] /\ done[i] \in 0..Quantity
          /\ done[i] <= done[i]
      BY <1>0, <2>1
    <3>2. QED
      BY <2>0, <3>1, LiveStep
  <2>2. CASE done' = [done EXCEPT ![i] = @ + 1] /\ done[i] + 1 < Quantity
    <3>1. done' = [done EXCEPT ![i] = done[i] + 1] /\ done[i] + 1 \in 0..Quantity
          /\ done[i] <= done[i] + 1
      BY <1>0, <2>2
    <3>2. QED
      BY <2>0, <3>1, LiveStep
  <2>3. QED
    BY <1>3, <2>1, <2>2 DEF Progress
<1>4. ASSUME NEW w \in Word, EndOrder(i, w) PROVE JournalInv'
  <2>0. /\ Live(i) /\ w # "NONE" /\ BrokerOnly /\ UNCHANGED wire
        /\ remote' = [remote EXCEPT ![i] = w]
    BY <1>4 DEF EndOrder, Over
  <2> DEFINE d == IF w = "COMPLETE" THEN Quantity ELSE done[i]
  <2>1. done' = [done EXCEPT ![i] = d]
    BY <1>4 DEF EndOrder
  <2>2. d \in 0..Quantity /\ done[i] <= d
    BY <1>0
  <2> HIDE DEF d
  <2>3. QED
    BY <2>0, <2>1, <2>2, LiveStep
<1>5. QED
  BY <1>1, <1>2, <1>3, <1>4 DEF BrokerMoves

-------------------------------------------------------------------------------
(* The reconcilers.                                                        *)

\* A pass changes rows as RowChange allows, and its own variables.
LEMMA ReconcilerOnly ==
    ASSUME JournalInv, NEW r \in Reconciler, PassOnly,
           rpc' \in [Reconciler -> RPC], todo' \in [Reconciler -> SUBSET Id],
           snap' \in [Reconciler -> [Id -> RemoteOrder]],
           seen' \in [Reconciler -> [Id -> OrderState \cup {"NONE"}]],
           disc' \in [Reconciler -> BOOLEAN],
           lastRun' \in {"NEVER_RUN", "PASS", "FAIL_CLOSED"},
           \A q \in Reconciler, i \in Id : Follows(snap'[q][i], i),
           \/ UNCHANGED journal
           \/ \E i \in Id, o \in OrderState, n \in Nat :
                  Transition(i, o, n) /\ Report(i, o, n)
    PROVE  JournalInv'
<1> USE DEF JournalInv
<1>1. /\ SubmittedOnce' /\ SentAsJournalled' /\ ClosedIsTrue' /\ SentInv'
      /\ state' \in [Id -> OrderState \cup {"NONE"}]
      /\ filled' \in [Id -> 0..Quantity]
      /\ UNCHANGED <<intent, created, rows, remote, done, wire, sends, sent>>
      /\ \A j \in Id : state'[j] = "NONE" <=> state[j] = "NONE"
      /\ \A j \in Id : state'[j] \in PreSubmission => state[j] \in PreSubmission
  <2>1. CASE UNCHANGED journal
    BY <2>1 DEF PassOnly, journal, broker, SubmittedOnce, SentAsJournalled,
                ClosedIsTrue, SentInv, TypeOK
  <2>2. CASE \E i \in Id, o \in OrderState, n \in Nat :
                 Transition(i, o, n) /\ Report(i, o, n)
    BY <2>2, RowChange DEF PassOnly
  <2>3. QED
    BY <2>1, <2>2
<1>2. UNCHANGED <<spc, oid, want, reply, crashes>>
  BY DEF PassOnly, submitter
<1>3. TypeOK'
  BY <1>1, <1>2 DEF TypeOK
<1>4. SubmitterInv' /\ OneSender'
  BY <1>1, <1>2 DEF SubmitterInv, OneSender, TypeOK
<1>5. ReportInv'
  BY <1>1, <1>2 DEF ReportInv, Follows
<1>6. QED
  BY <1>1, <1>3, <1>4, <1>5

\* A reconciler that ends a pass, in any way, forgets it.
LEMMA EndPassFacts ==
    ASSUME JournalInv, NEW r \in Reconciler, EndPass(r)
    PROVE  /\ rpc' \in [Reconciler -> RPC] /\ todo' \in [Reconciler -> SUBSET Id]
           /\ snap' \in [Reconciler -> [Id -> RemoteOrder]]
           /\ seen' \in [Reconciler -> [Id -> OrderState \cup {"NONE"}]]
           /\ disc' \in [Reconciler -> BOOLEAN]
           /\ \A q \in Reconciler, i \in Id : Follows(snap'[q][i], i)
           /\ rpc'[r] = "idle"
           /\ \A q \in Reconciler \ {r} :
                  /\ rpc'[q] = rpc[q] /\ todo'[q] = todo[q] /\ snap'[q] = snap[q]
                  /\ seen'[q] = seen[q] /\ disc'[q] = disc[q]
<1>1. NoOrder \in RemoteOrder
  BY JournalAssumption DEF NoOrder, RemoteOrder, Word
<1>2. \A i \in Id : Follows(NoOrder, i)
  BY NoOrderFollows DEF JournalInv
<1>3. /\ rpc \in [Reconciler -> RPC] /\ todo \in [Reconciler -> SUBSET Id]
      /\ snap \in [Reconciler -> [Id -> RemoteOrder]]
      /\ seen \in [Reconciler -> [Id -> OrderState \cup {"NONE"}]]
      /\ disc \in [Reconciler -> BOOLEAN]
      /\ \A q \in Reconciler, i \in Id : Follows(snap[q][i], i)
  BY DEF JournalInv, TypeOK, ReportInv
<1>4. QED
  BY <1>1, <1>2, <1>3 DEF EndPass, RPC

LEMMA VerdictReport ==
    ASSUME JournalInv, NEW r \in Reconciler, NEW i \in Id
    PROVE  /\ Report(i, Verdict(r, i), snap[r][i].done)
           /\ Verdict(r, i) \in OrderState
           /\ snap[r][i].done \in Nat
           /\ Verdict(r, i) = Normalized(snap[r][i].word)
<1>1. snap[r][i] \in RemoteOrder /\ Follows(snap[r][i], i) /\ TypeOK
  BY DEF JournalInv, TypeOK, ReportInv
<1>2. Verdict(r, i) = Normalized(snap[r][i].word)
  BY DEF Verdict, NoOrder, Normalized
<1>3. snap[r][i].word \in Word /\ snap[r][i].done \in Nat
  BY <1>1, JournalAssumption DEF RemoteOrder
<1>4. Normalized(snap[r][i].word) \in OrderState
  BY <1>3, NormalizedFacts DEF OrderState
<1>5. QED
  BY <1>1, <1>2, <1>3, <1>4, FollowingReport

LEMMA WorkStep ==
    ASSUME JournalInv, NEW r \in Reconciler, Work(r)
    PROVE  JournalInv'
<1>0. /\ rpc \in [Reconciler -> RPC] /\ todo \in [Reconciler -> SUBSET Id]
      /\ snap \in [Reconciler -> [Id -> RemoteOrder]]
      /\ seen \in [Reconciler -> [Id -> OrderState \cup {"NONE"}]]
      /\ disc \in [Reconciler -> BOOLEAN]
      /\ lastRun \in {"NEVER_RUN", "PASS", "FAIL_CLOSED"}
      /\ state \in [Id -> OrderState \cup {"NONE"}]
      /\ \A q \in Reconciler, i \in Id : Follows(snap[q][i], i)
  BY DEF JournalInv, TypeOK, ReportInv
<1>1. CASE Fetch(r)
  <2>1. \A i \in Id : Remote(i) \in RemoteOrder /\ Follows(Remote(i), i)
    BY JournalAssumption DEF JournalInv, TypeOK, Remote, RemoteOrder, Follows
  <2>2. /\ snap' \in [Reconciler -> [Id -> RemoteOrder]]
        /\ \A q \in Reconciler, i \in Id : Follows(snap'[q][i], i)
    BY <1>0, <1>1, <2>1 DEF Fetch
  <2>3. rpc' \in [Reconciler -> RPC]
    BY <1>0, <1>1 DEF Fetch, RPC
  <2>4. PassOnly /\ UNCHANGED journal /\ UNCHANGED <<lastRun, todo, seen, disc>>
    BY <1>1 DEF Fetch
  <2>5. QED
    BY <1>0, <2>2, <2>3, <2>4, ReconcilerOnly
<1>2. CASE ReadLocal(r)
  <2>1. /\ rpc' \in [Reconciler -> RPC] /\ todo' \in [Reconciler -> SUBSET Id]
        /\ seen' \in [Reconciler -> [Id -> OrderState \cup {"NONE"}]]
        /\ disc' \in [Reconciler -> BOOLEAN]
    BY <1>0, <1>2 DEF ReadLocal, Unfinished, RPC
  <2>2. PassOnly /\ UNCHANGED journal /\ UNCHANGED <<lastRun, snap>>
    BY <1>2 DEF ReadLocal
  <2>3. QED
    BY <1>0, <2>1, <2>2, ReconcilerOnly
<1>3. ASSUME NEW i \in Id, SkipLocal(r, i) PROVE JournalInv'
  <2>1. todo' \in [Reconciler -> SUBSET Id]
    BY <1>0, <1>3 DEF SkipLocal, Taken
  <2>2. PassOnly /\ UNCHANGED journal /\ UNCHANGED <<lastRun, snap, seen, disc, rpc>>
    BY <1>3 DEF SkipLocal, Taken
  <2>3. QED
    BY <1>0, <2>1, <2>2, ReconcilerOnly
<1>4. ASSUME NEW i \in Id, ReconcileRow(r, i) PROVE JournalInv'
  <2>1. todo' \in [Reconciler -> SUBSET Id]
    BY <1>0, <1>4 DEF ReconcileRow, Taken
  <2>2. disc' \in [Reconciler -> BOOLEAN]
    <3>1. \A q \in Reconciler : disc[q] \in BOOLEAN
      BY <1>0
    <3>2. disc' = [disc EXCEPT ![r] = disc[r] \/ Discrepancy(r, i)]
      BY <1>4 DEF ReconcileRow
    <3>3. (disc[r] \/ Discrepancy(r, i)) \in BOOLEAN
      BY <3>1
    <3>4. QED
      BY <1>0, <3>2, <3>3
  <2>3. PassOnly /\ UNCHANGED <<lastRun, snap, seen, rpc>>
        /\ Transition(i, Verdict(r, i), snap[r][i].done)
    BY <1>4 DEF ReconcileRow, Taken
  <2>4. \E j \in Id, o \in OrderState, n \in Nat : Transition(j, o, n) /\ Report(j, o, n)
    BY <2>3, VerdictReport
  <2>5. QED
    BY <1>0, <2>1, <2>2, <2>3, <2>4, ReconcilerOnly
<1>5. ASSUME NEW i \in Id, AbortPass(r, i) PROVE JournalInv'
  BY <1>0, <1>5, EndPassFacts, ReconcilerOnly DEF AbortPass, TransitionRaises
<1>6. ASSUME NEW account \in BOOLEAN, RecordRun(r, account) PROVE JournalInv'
  BY <1>0, <1>6, EndPassFacts, ReconcilerOnly DEF RecordRun, RunStatus
<1>7. QED
  BY <1>1, <1>2, <1>3, <1>4, <1>5, <1>6 DEF Work

LEMMA CrashReconcilerStep ==
    ASSUME JournalInv, NEW r \in Reconciler, CrashReconciler(r)
    PROVE  JournalInv'
<1>1. /\ EndPass(r) /\ UNCHANGED <<journal, lastRun, broker, submitter>>
      /\ crashes' \in 0..MaxCrashes
  BY JournalAssumption DEF CrashReconciler, JournalInv, TypeOK
<1>2. TypeOK'
  BY <1>1, EndPassFacts DEF JournalInv, TypeOK, journal, broker, submitter
<1>3. ReportInv'
  BY <1>1, EndPassFacts DEF JournalInv, ReportInv, Follows, broker, submitter
<1>4. SubmitterInv' /\ OneSender' /\ SentInv' /\ SubmittedOnce' /\ SentAsJournalled'
      /\ ClosedIsTrue'
  BY <1>1 DEF JournalInv, SubmitterInv, OneSender, SentInv, SubmittedOnce,
              SentAsJournalled, ClosedIsTrue, journal, broker, submitter
<1>5. QED
  BY <1>2, <1>3, <1>4 DEF JournalInv

-------------------------------------------------------------------------------
(* The invariant, and what follows from it.                                *)

LEMMA JournalInit ==
    ASSUME NEW i0 \in Id, NEW x0 \in Intent, Init
    PROVE  JournalInv
<1>1. SomeId \in Id /\ SomeIntent \in Intent
  BY DEF SomeId, SomeIntent
<1>2. NoOrder \in RemoteOrder
  BY JournalAssumption DEF NoOrder, RemoteOrder, Word
<1>3. TypeOK
  BY <1>1, <1>2, JournalAssumption DEF Init, TypeOK, SPC, RPC, Word
<1>4. ReportInv
  <2>1. \A i \in Id : Follows(NoOrder, i)
    BY <1>3, NoOrderFollows
  <2>2. QED
    BY <1>1, <2>1 DEF Init, ReportInv
<1>5. SubmitterInv /\ OneSender /\ SentInv
  BY DEF Init, SubmitterInv, OneSender, SentInv
<1>6. SubmittedOnce /\ SentAsJournalled /\ ClosedIsTrue
  BY DEF Init, SubmittedOnce, SentAsJournalled, ClosedIsTrue, Terminal
<1>7. QED
  BY <1>3, <1>4, <1>5, <1>6 DEF JournalInv

LEMMA CrashSubmitterStep ==
    ASSUME JournalInv, NEW s \in Submitter, CrashSubmitter(s)
    PROVE  JournalInv'
<1>1. Leave(s) /\ UNCHANGED <<journal, lastRun, broker, reconciler>>
      /\ crashes' \in 0..MaxCrashes
  BY JournalAssumption DEF CrashSubmitter, JournalInv, TypeOK
<1>2. QED
  BY <1>1, LeaveStep

LEMMA JournalStep ==
    ASSUME JournalInv, [Next]_vars
    PROVE  JournalInv'
<1>1. ASSUME NEW s \in Submitter, Submit(s) PROVE JournalInv'
  BY <1>1, LookupStep, InsertStep, BeginSubmitStep, SendStep, AnswerStep, PrepareStep
  DEF Submit
<1>2. ASSUME NEW s \in Submitter, CrashSubmitter(s) PROVE JournalInv'
  BY <1>2, CrashSubmitterStep
<1>3. ASSUME NEW i \in Id, BrokerMoves(i) PROVE JournalInv'
  BY <1>3, BrokerStep
<1>4. ASSUME NEW r \in Reconciler, Work(r) \/ CrashReconciler(r) PROVE JournalInv'
  BY <1>4, WorkStep, CrashReconcilerStep
<1>5. CASE UNCHANGED vars
  BY <1>5 DEF vars, journal, broker, submitter, reconciler, JournalInv, TypeOK,
              SubmitterInv, OneSender, SentInv, ReportInv, Follows, SubmittedOnce,
              SentAsJournalled, ClosedIsTrue
<1>6. QED
  BY <1>1, <1>2, <1>3, <1>4, <1>5 DEF Next

\* The invariant of the journal, of what is under way, and of the passes'
\* snapshots (every transaction of broker_order_journal.py keeps it).
THEOREM JournalInvariant == Spec => []JournalInv
<1>1. Init => JournalInv
  BY JournalInit, JournalAssumption
<1>2. JournalInv /\ [Next]_vars => JournalInv'
  BY JournalStep
<1>3. QED
  BY <1>1, <1>2, PTL DEF Spec

\* Types: every variable of the journal and of its actors keeps its type.
THEOREM TypeCorrect == Spec => []TypeOK
BY JournalInvariant, PTL DEF JournalInv

\* No client_order_id is requested twice (transition() to SUBMITTING).
THEOREM NeverSubmittedTwice == Spec => []SubmittedOnce
BY JournalInvariant, PTL DEF JournalInv

\* The broker was asked for the journalled intent (create()).
THEOREM JournalTellsIntent == Spec => []SentAsJournalled
BY JournalInvariant, PTL DEF JournalInv

\* A closed row agrees with the broker (transition(), the passes, timeouts).
THEOREM ClosedOrdersAreOver == Spec => []ClosedIsTrue
BY JournalInvariant, PTL DEF JournalInv

\* The quantity filled: only a transition changes it, and never down.
LEMMA FillsGrow ==
    ASSUME JournalInv, [Next]_vars
    PROVE  \A i \in Id : filled[i] <= filled'[i]
<1>1. \A i \in Id : filled[i] \in Nat
  BY JournalAssumption DEF JournalInv, TypeOK
<1>2. CASE UNCHANGED filled
  BY <1>1, <1>2
<1>3. ASSUME NEW i \in Id, NEW o, NEW n \in Nat, Transition(i, o, n)
      PROVE  \A j \in Id : filled[j] <= filled'[j]
  <2>1. filled' = [filled EXCEPT ![i] = FilledAfter(i, n)]
    BY <1>3 DEF Transition
  <2>2. filled[i] <= FilledAfter(i, n)
    BY <1>1 DEF FilledAfter, Max2
  <2>3. \A j \in Id : filled'[j] = IF j = i THEN FilledAfter(i, n) ELSE filled[j]
    BY <2>1 DEF JournalInv, TypeOK
  <2>4. QED
    BY <1>1, <2>2, <2>3
<1>4. \/ UNCHANGED filled
      \/ \E i \in Id, o \in OrderState, n \in Nat : Transition(i, o, n)
  <2>0. /\ \A s \in Submitter : oid[s] \in Id /\ reply[s].done \in Nat
        /\ \A r \in Reconciler, i \in Id : snap[r][i].done \in Nat
    BY JournalAssumption DEF JournalInv, TypeOK, RemoteOrder
  <2>1. ASSUME NEW s \in Submitter, Submit(s) \/ CrashSubmitter(s)
        PROVE  \/ UNCHANGED filled
               \/ \E i \in Id, o \in OrderState, n \in Nat : Transition(i, o, n)
    <3>0. /\ "SUBMITTING" \in OrderState /\ Unknown \in OrderState
          /\ Normalized(reply[s].word) \in OrderState
      BY NormalizedFacts DEF JournalInv, TypeOK, RemoteOrder, OrderState, BrokerVisible
    <3>1. CASE \E i \in Id, x \in Intent : Lookup(s, i, x)
      BY <3>1 DEF Lookup, journal
    <3>2. CASE Insert(s)
      BY <3>2 DEF Insert, journal
    <3>3. CASE BeginSubmit(s)
      BY <2>0, <3>0, <3>3 DEF BeginSubmit, TransitionRaises, journal
    <3>4. CASE Send(s)
      BY <3>4 DEF Send, journal
    <3>5. CASE Answer(s)
      BY <2>0, <3>0, <3>5 DEF Answer, TransitionRaises, journal
    <3>6. CASE SubmitTimeout(s)
      BY <2>0, <3>0, <3>6 DEF SubmitTimeout, TransitionRaises, journal
    <3>7. CASE \E o \in OrderState : Prepare(s, o)
      BY <2>0, <3>7 DEF Prepare
    <3>8. CASE CrashSubmitter(s)
      BY <3>8 DEF CrashSubmitter, journal
    <3>9. QED
      BY <2>1, <3>1, <3>2, <3>3, <3>4, <3>5, <3>6, <3>7, <3>8 DEF Submit
  <2>2. ASSUME NEW i \in Id, BrokerMoves(i) PROVE UNCHANGED filled
    BY <2>2 DEF BrokerMoves, Lose, Accept, Progress, EndOrder, BrokerOnly, Elsewhere,
                journal
  <2>3. ASSUME NEW r \in Reconciler, Work(r) \/ CrashReconciler(r)
        PROVE  \/ UNCHANGED filled
               \/ \E i \in Id, o \in OrderState, n \in Nat : Transition(i, o, n)
    <3>1. CASE Fetch(r) \/ ReadLocal(r) \/ CrashReconciler(r)
      BY <3>1 DEF Fetch, ReadLocal, CrashReconciler, journal
    <3>2. CASE \E i \in Id : SkipLocal(r, i) \/ AbortPass(r, i)
      BY <3>2 DEF SkipLocal, AbortPass, TransitionRaises, journal
    <3>3. CASE \E i \in Id : ReconcileRow(r, i)
      <4>1. \A i \in Id : Verdict(r, i) \in OrderState
        BY NormalizedFacts DEF JournalInv, TypeOK, RemoteOrder, Verdict, OrderState,
                               BrokerVisible
      <4>2. QED
        BY <2>0, <3>3, <4>1 DEF ReconcileRow
    <3>4. CASE \E account \in BOOLEAN : RecordRun(r, account)
      BY <3>4 DEF RecordRun, journal
    <3>5. QED
      BY <2>3, <3>1, <3>2, <3>3, <3>4 DEF Work
  <2>4. CASE UNCHANGED vars
    BY <2>4 DEF vars, journal
  <2>5. QED
    BY <2>1, <2>2, <2>3, <2>4 DEF Next
<1>5. QED
  BY <1>2, <1>3, <1>4

\* Late and stale reports of fills neither undo one another nor invent a fill.
THEOREM FillsAreTheBrokers == Spec => FillsFollowBroker
<1>1. JournalInv /\ JournalInv' /\ [Next]_vars =>
          [\A i \in Id : filled[i] <= filled'[i] /\ filled'[i] <= done'[i]]_vars
  <2>1. SUFFICES ASSUME JournalInv, JournalInv', [Next]_vars
                 PROVE  \A i \in Id : filled[i] <= filled'[i] /\ filled'[i] <= done'[i]
    OBVIOUS
  <2>2. \A i \in Id : filled'[i] <= done'[i]
    BY <2>1 DEF JournalInv, SentInv
  <2>3. QED
    BY <2>1, <2>2, FillsGrow
<1>2. QED
  BY <1>1, JournalInvariant, PTL DEF Spec, FillsFollowBroker

LEMMA PassStep ==
    ASSUME JournalInv, PassInv, [Next]_vars
    PROVE  PassInv'
<1> DEFINE Confirmed(r) ==
        rpc[r] = "pass" /\ ~disc[r] => \A i \in Id : seen[r][i] \in BrokerVisible =>
            i \in todo[r] \/ Normalized(snap[r][i].word) # Unknown
<1>0. /\ rpc \in [Reconciler -> RPC] /\ todo \in [Reconciler -> SUBSET Id]
      /\ snap \in [Reconciler -> [Id -> RemoteOrder]]
      /\ seen \in [Reconciler -> [Id -> OrderState \cup {"NONE"}]]
      /\ disc \in [Reconciler -> BOOLEAN]
      /\ \A r \in Reconciler : Confirmed(r)
  BY DEF JournalInv, TypeOK, PassInv
<1>1. CASE UNCHANGED reconciler
  BY <1>0, <1>1 DEF reconciler, PassInv
<1>2. ASSUME NEW r \in Reconciler, EndPass(r) PROVE PassInv'
  <2>1. /\ rpc'[r] = "idle"
        /\ \A q \in Reconciler \ {r} :
               /\ rpc'[q] = rpc[q] /\ todo'[q] = todo[q] /\ snap'[q] = snap[q]
               /\ seen'[q] = seen[q] /\ disc'[q] = disc[q]
    BY <1>2, EndPassFacts
  <2>2. QED
    BY <1>0, <2>1 DEF PassInv
<1>3. ASSUME NEW r \in Reconciler, Work(r) PROVE PassInv'
  <2>1. CASE Fetch(r)
    BY <1>0, <2>1 DEF Fetch, PassInv
  <2>2. CASE ReadLocal(r)
    <3>1. \A i \in Id : state[i] \in BrokerVisible => i \in Unfinished
      BY DEF Unfinished, BrokerVisible, Terminal, Unknown
    <3>2. QED
      BY <1>0, <2>2, <3>1 DEF ReadLocal, PassInv
  <2>3. ASSUME NEW i \in Id, SkipLocal(r, i) PROVE PassInv'
    <3>1. seen[r][i] \notin BrokerVisible
      BY <2>3 DEF SkipLocal, LocalOnly, PreSubmission, BrokerVisible, Unknown
    <3>2. QED
      BY <1>0, <2>3, <3>1 DEF SkipLocal, Taken, PassInv
  <2>4. ASSUME NEW i \in Id, ReconcileRow(r, i) PROVE PassInv'
    <3>1. Verdict(r, i) = Normalized(snap[r][i].word)
      BY VerdictReport
    <3>2. /\ disc' = [disc EXCEPT ![r] = disc[r] \/ Discrepancy(r, i)]
          /\ todo' = [todo EXCEPT ![r] = todo[r] \ {i}]
          /\ UNCHANGED <<rpc, snap, seen>>
      BY <2>4 DEF ReconcileRow, Taken
    <3>3. ~disc'[r] => ~disc[r] /\ Normalized(snap[r][i].word) # Unknown
      BY <1>0, <3>1, <3>2 DEF Discrepancy
    <3>4. \A q \in Reconciler \ {r} : disc'[q] = disc[q] /\ todo'[q] = todo[q]
      BY <1>0, <3>2
    <3>5. QED
      BY <1>0, <3>2, <3>3, <3>4 DEF PassInv
  <2>5. QED
    BY <1>2, <1>3, <2>1, <2>2, <2>3, <2>4 DEF Work, AbortPass, RecordRun
<1>4. ASSUME NEW r \in Reconciler, CrashReconciler(r) PROVE PassInv'
  BY <1>2, <1>4 DEF CrashReconciler
<1>5. ASSUME NEW s \in Submitter, Submit(s) \/ CrashSubmitter(s)
      PROVE  UNCHANGED reconciler
  BY <1>5 DEF Submit, CrashSubmitter, Lookup, Insert, Prepare, BeginSubmit, Send,
              Answer, SubmitTimeout
<1>6. ASSUME NEW i \in Id, BrokerMoves(i) PROVE UNCHANGED reconciler
  BY <1>6 DEF BrokerMoves, Lose, Accept, Progress, EndOrder, BrokerOnly, Elsewhere
<1>7. QED
  BY <1>1, <1>3, <1>4, <1>5, <1>6 DEF Next, vars

\* A PASS is only ever recorded by a pass that confirmed every sent order.
THEOREM PassIsConfirmed == Spec => PassMeansConfirmed
<1>1. Init => PassInv
  BY DEF Init, PassInv
<1> DEFINE A == \A r \in Reconciler :
        /\ rpc[r] = "pass" /\ todo[r] = {} /\ rpc'[r] = "idle"
        /\ lastRun' = "PASS" /\ crashes' = crashes
        => \A i \in Id : seen[r][i] \in BrokerVisible =>
               Normalized(snap[r][i].word) # Unknown
<1>2. JournalInv /\ PassInv /\ [Next]_vars => [A]_vars
  <2>1. SUFFICES ASSUME JournalInv, PassInv, Next, NEW r \in Reconciler,
                        rpc[r] = "pass", todo[r] = {}, rpc'[r] = "idle",
                        lastRun' = "PASS", crashes' = crashes,
                        NEW i \in Id, seen[r][i] \in BrokerVisible
                 PROVE  Normalized(snap[r][i].word) # Unknown
    BY DEF A
  <2>0. /\ rpc \in [Reconciler -> RPC] /\ crashes \in Nat
        /\ rpc'[r] # rpc[r]
    BY <2>1, JournalAssumption DEF JournalInv, TypeOK
  <2>2. ~ UNCHANGED reconciler
    BY <2>0 DEF reconciler
  <2>3. \A s \in Submitter : ~ Submit(s) /\ ~ CrashSubmitter(s)
    BY <2>2 DEF Submit, CrashSubmitter, Lookup, Insert, Prepare, BeginSubmit, Send,
                Answer, SubmitTimeout
  <2>4. \A j \in Id : ~ BrokerMoves(j)
    BY <2>2 DEF BrokerMoves, Lose, Accept, Progress, EndOrder, BrokerOnly, Elsewhere
  <2>5. \A q \in Reconciler : ~ CrashReconciler(q)
    BY <2>0, <2>1 DEF CrashReconciler
  <2>6. PICK q \in Reconciler : Work(q)
    BY <2>1, <2>3, <2>4, <2>5 DEF Next
  <2>7. q = r
    <3>1. SUFFICES ASSUME q # r PROVE rpc'[r] = rpc[r]
      BY <2>0
    <3>2. QED
      BY <2>0, <2>6, <3>1 DEF Work, Fetch, ReadLocal, SkipLocal, ReconcileRow, Taken,
                              AbortPass, RecordRun, EndPass
  <2>8. PICK account \in BOOLEAN : RecordRun(r, account)
    BY <2>0, <2>1, <2>6, <2>7 DEF Work, Fetch, ReadLocal, SkipLocal, ReconcileRow, Taken,
                                  AbortPass, IsNext
  <2>9. ~disc[r]
    BY <2>1, <2>8 DEF RecordRun, RunStatus
  <2>10. QED
    BY <2>1, <2>9 DEF PassInv
<1>3. JournalInv /\ PassInv /\ [Next]_vars => PassInv'
  BY PassStep
<1>4. QED
  BY <1>1, <1>2, <1>3, JournalInvariant, PTL DEF Spec, PassMeansConfirmed

-------------------------------------------------------------------------------
(* The journal implements the life of an order.                            *)

\* The broker's word agrees with what it has filled.
WordInv ==
    \A i \in Id : /\ remote[i] = "COMPLETE" => done[i] = Quantity
                  /\ remote[i] = "FAILED" => done[i] = 0

LEMMA WordStep ==
    ASSUME JournalInv, WordInv, [Next]_vars
    PROVE  WordInv'
<1>0. remote \in [Id -> Word] /\ done \in [Id -> 0..Quantity]
  BY DEF JournalInv, TypeOK
<1>1. CASE UNCHANGED <<remote, done>>
  BY <1>1 DEF WordInv
<1>2. ASSUME NEW i \in Id, BrokerMoves(i) PROVE WordInv'
  <2>1. CASE Lose(i)
    BY <1>1, <2>1 DEF Lose
  <2>2. ASSUME NEW w \in Word, Accept(i, w) PROVE WordInv'
    <3>1. /\ remote' = [remote EXCEPT ![i] = w]
          /\ done' = [done EXCEPT ![i] = IF w = "COMPLETE" THEN Quantity ELSE 0]
      BY <2>2 DEF Accept
    <3>2. QED
      BY <1>0, <3>1 DEF WordInv
  <2>3. ASSUME NEW w \in Word, Progress(i, w) PROVE WordInv'
    <3>1. /\ remote' = [remote EXCEPT ![i] = w]
          /\ w \notin {"COMPLETE", "FAILED"}
          /\ \A j \in Id \ {i} : done'[j] = done[j]
      BY <1>0, <2>3 DEF Progress
    <3>2. QED
      BY <1>0, <3>1 DEF WordInv
  <2>4. ASSUME NEW w \in Word, EndOrder(i, w) PROVE WordInv'
    <3>1. /\ remote' = [remote EXCEPT ![i] = w]
          /\ done' = [done EXCEPT ![i] = IF w = "COMPLETE" THEN Quantity ELSE done[i]]
          /\ w = "FAILED" => done[i] = 0
      BY <2>4 DEF EndOrder
    <3>2. QED
      BY <1>0, <3>1 DEF WordInv
  <2>5. QED
    BY <1>2, <2>1, <2>2, <2>3, <2>4 DEF BrokerMoves
<1>3. ASSUME NEW s \in Submitter, Submit(s) \/ CrashSubmitter(s)
      PROVE  UNCHANGED <<remote, done>>
  BY <1>3 DEF Submit, CrashSubmitter, Lookup, Insert, Prepare, BeginSubmit, Send,
              Answer, SubmitTimeout, broker
<1>4. ASSUME NEW r \in Reconciler, Work(r) \/ CrashReconciler(r)
      PROVE  UNCHANGED <<remote, done>>
  BY <1>4 DEF Work, Fetch, ReadLocal, SkipLocal, ReconcileRow, AbortPass, RecordRun,
              CrashReconciler, PassOnly, broker
<1>5. QED
  BY <1>1, <1>2, <1>3, <1>4 DEF Next, vars, broker

\* A step leaves the lives of all orders alone, or inserts a row, or sends a
\* request, or makes one transition.
Transits(i) ==
    /\ \E o \in OrderState, n \in Nat : Transition(i, o, n)
    /\ UNCHANGED <<sends, remote, done>>

LEMMA LifeKinds ==
    ASSUME JournalInv, [Next]_vars
    PROVE  \/ UNCHANGED <<state, intent, filled, sends>>
           \/ \E s \in Submitter : Insert(s) \/ Send(s)
           \/ \E i \in Id : Transits(i)
<1> DEFINE Same == UNCHANGED <<state, intent, filled, sends>>
<1>0. /\ \A s \in Submitter : oid[s] \in Id /\ reply[s].done \in Nat
      /\ \A r \in Reconciler, i \in Id : snap[r][i].done \in Nat
  BY JournalAssumption DEF JournalInv, TypeOK, RemoteOrder
<1>1. ASSUME NEW s \in Submitter, Submit(s) \/ CrashSubmitter(s)
      PROVE  Same \/ Insert(s) \/ Send(s) \/ \E i \in Id : Transits(i)
  <2>0. /\ "SUBMITTING" \in OrderState /\ Unknown \in OrderState
        /\ Normalized(reply[s].word) \in OrderState
    BY NormalizedFacts DEF JournalInv, TypeOK, RemoteOrder, OrderState, BrokerVisible
  <2>1. CASE \E i \in Id, x \in Intent : Lookup(s, i, x)
    BY <2>1 DEF Lookup, journal, broker
  <2>2. CASE Insert(s) \/ Send(s)
    BY <2>2
  <2>3. CASE BeginSubmit(s)
    BY <1>0, <2>0, <2>3 DEF BeginSubmit, TransitionRaises, Transits, journal, broker
  <2>4. CASE Answer(s)
    BY <1>0, <2>0, <2>4 DEF Answer, TransitionRaises, Transits, journal, broker
  <2>5. CASE SubmitTimeout(s)
    BY <1>0, <2>0, <2>5 DEF SubmitTimeout, TransitionRaises, Transits, journal, broker
  <2>6. CASE \E o \in OrderState : Prepare(s, o)
    BY <1>0, <2>6 DEF Prepare, Transits, broker
  <2>7. CASE CrashSubmitter(s)
    BY <2>7 DEF CrashSubmitter, journal, broker
  <2>8. QED
    BY <1>1, <2>1, <2>2, <2>3, <2>4, <2>5, <2>6, <2>7 DEF Submit
<1>2. ASSUME NEW i \in Id, BrokerMoves(i) PROVE Same
  BY <1>2 DEF BrokerMoves, Lose, Accept, Progress, EndOrder, BrokerOnly, Elsewhere, journal
<1>3. ASSUME NEW r \in Reconciler, Work(r) \/ CrashReconciler(r)
      PROVE  Same \/ \E i \in Id : Transits(i)
  <2>1. CASE Fetch(r) \/ ReadLocal(r) \/ CrashReconciler(r)
    BY <2>1 DEF Fetch, ReadLocal, CrashReconciler, PassOnly, journal, broker
  <2>2. CASE \E i \in Id : SkipLocal(r, i) \/ AbortPass(r, i)
    BY <2>2 DEF SkipLocal, AbortPass, TransitionRaises, PassOnly, journal, broker
  <2>3. CASE \E i \in Id : ReconcileRow(r, i)
    <3>1. \A i \in Id : Verdict(r, i) \in OrderState
      BY NormalizedFacts DEF JournalInv, TypeOK, RemoteOrder, Verdict, OrderState,
                             BrokerVisible
    <3>2. QED
      BY <1>0, <2>3, <3>1 DEF ReconcileRow, Transits, PassOnly, broker
  <2>4. CASE \E account \in BOOLEAN : RecordRun(r, account)
    BY <2>4 DEF RecordRun, PassOnly, journal, broker
  <2>5. QED
    BY <1>3, <2>1, <2>2, <2>3, <2>4 DEF Work
<1>4. CASE UNCHANGED vars
  BY <1>4 DEF vars, journal, broker
<1>5. QED
  BY <1>1, <1>2, <1>3, <1>4 DEF Next

\* The phases when one order changes.
LEMMA PhaseChange ==
    ASSUME NEW i \in Id,
           \A j \in Id \ {i} : state'[j] = state[j] /\ sends'[j] = sends[j]
    PROVE  [j \in Id |-> Phase(j)]' =
               [[j \in Id |-> Phase(j)] EXCEPT ![i] = Phase(i)']
BY DEF Phase

LEMMA InsertLife ==
    ASSUME JournalInv, NEW s \in Submitter, Insert(s)
    PROVE  [Life!Next]_(Life!vars)
<1>a. PICK i \in Id : i = oid[s]
  BY DEF JournalInv, TypeOK
<1>0. /\ want[s] \in Intent
      /\ state \in [Id -> OrderState \cup {"NONE"}]
      /\ intent \in [Id -> Intent]
      /\ "CREATED" \notin Terminal \cup {"NONE"}
  BY DEF JournalInv, TypeOK, Terminal
<1>1. CASE KeyTaken(i)
  BY <1>a, <1>1 DEF Insert, journal, broker, Phase, Life!vars
<1>2. CASE ~KeyTaken(i)
  <2>1. /\ state[i] = "NONE"
        /\ state' = [state EXCEPT ![i] = "CREATED"]
        /\ intent' = [intent EXCEPT ![i] = want[s]]
        /\ UNCHANGED <<filled, sends>>
    BY <1>a, <1>2 DEF Insert, KeyTaken, broker
  <2>2. sends[i] = 0
    BY <1>0, <2>1 DEF JournalInv, SentInv
  <2>3. Phase(i) = "NONE" /\ Phase(i)' = "RECORDED"
    BY <1>0, <2>1, <2>2 DEF Phase
  <2>4. [j \in Id |-> Phase(j)]' = [[j \in Id |-> Phase(j)] EXCEPT ![i] = "RECORDED"]
    BY <1>0, <2>1, <2>3, PhaseChange
  <2>5. Life!Record(i, want[s])
    BY <1>0, <2>1, <2>3, <2>4 DEF Life!Record
  <2>6. QED
    BY <1>0, <2>5 DEF Life!Next
<1>3. QED
  BY <1>1, <1>2

LEMMA SendLife ==
    ASSUME JournalInv, NEW s \in Submitter, Send(s)
    PROVE  [Life!Next]_(Life!vars)
<1>a. PICK i \in Id : i = oid[s]
  BY DEF JournalInv, TypeOK
<1>0. state \in [Id -> OrderState \cup {"NONE"}] /\ sends \in [Id -> Nat]
  BY DEF JournalInv, TypeOK
<1>1. /\ spc[s] = "send"
      /\ sends' = [sends EXCEPT ![i] = sends[i] + 1]
      /\ UNCHANGED <<state, intent, filled>>
  BY <1>a DEF Send, journal
<1>2. sends[i] = 0 /\ state[i] # "NONE"
  BY <1>a, <1>1 DEF JournalInv, SubmitterInv
<1>3. state[i] \notin Terminal
  <2>1. remote[i] = "NONE"
    BY <1>0, <1>2 DEF JournalInv, SentInv
  <2>2. QED
    BY <1>0, <2>1 DEF JournalInv, ClosedIsTrue, Normalized, Terminal, Unknown
<1>4. Phase(i) = "RECORDED" /\ Phase(i)' = "REQUESTED"
  BY <1>0, <1>1, <1>2, <1>3 DEF Phase
<1>5. [j \in Id |-> Phase(j)]' = [[j \in Id |-> Phase(j)] EXCEPT ![i] = "REQUESTED"]
  BY <1>0, <1>1, <1>4, PhaseChange
<1>6. Life!Request(i)
  BY <1>0, <1>1, <1>4, <1>5 DEF Life!Request
<1>7. QED
  BY <1>0, <1>6 DEF Life!Next

\* A transition of an order that was never sent changes nothing a reader sees; of
\* one that was, it is a fill or the end; of one that is over, nothing.
LEMMA TransitionLife ==
    ASSUME JournalInv, JournalInv', WordInv, NEW i \in Id, Transits(i)
    PROVE  [Life!Next]_(Life!vars)
<1>1. PICK o \in OrderState, n \in Nat : Transition(i, o, n)
  BY DEF Transits
<1>0. /\ state \in [Id -> OrderState \cup {"NONE"}]
      /\ filled \in [Id -> 0..Quantity] /\ filled' \in [Id -> 0..Quantity]
      /\ sends \in [Id -> Nat] /\ done \in [Id -> 0..Quantity]
      /\ remote \in [Id -> Word]
      /\ UNCHANGED <<sends, remote, done>>
      /\ Quantity \in Nat
  BY JournalAssumption DEF JournalInv, TypeOK, Transits
<1>2. /\ state[i] \in OrderState /\ o \in Allowed[state[i]]
      /\ state' = [state EXCEPT ![i] = o]
      /\ UNCHANGED intent
      /\ \A j \in Id \ {i} : filled'[j] = filled[j]
      /\ filled[i] <= filled'[i]
  <2>1. /\ state[i] # "NONE" /\ o \in Allowed[state[i]]
        /\ state' = [state EXCEPT ![i] = o] /\ UNCHANGED intent
        /\ filled' = [filled EXCEPT ![i] = FilledAfter(i, n)]
    BY <1>1 DEF Transition, CanTransition
  <2>2. filled[i] <= FilledAfter(i, n)
    BY <1>0 DEF FilledAfter, Max2
  <2>3. QED
    BY <1>0, <2>1, <2>2
<1>3. /\ state[i] \in Terminal => o = state[i]
      /\ "NONE" \notin OrderState
  BY <1>2, AllowedFacts DEF OrderState, PreSubmission, BrokerVisible, Terminal, Unknown
<1>4. /\ state[i] \in Terminal =>
             Normalized(remote[i]) = state[i] /\ filled[i] = done[i]
      /\ o \in Terminal => Normalized(remote[i]) = o /\ filled'[i] = done[i]
      /\ sends[i] = 0 => remote[i] = "NONE"
      /\ remote[i] = "NONE" => done[i] = 0
      /\ filled'[i] <= done[i]
  BY <1>0, <1>2 DEF JournalInv, ClosedIsTrue, SentInv
<1>5. [j \in Id |-> Phase(j)]' = [[j \in Id |-> Phase(j)] EXCEPT ![i] = Phase(i)']
  BY <1>0, <1>2, PhaseChange
<1>6. \A j \in Id : j # i => Phase(j)' = Phase(j)
  BY <1>0, <1>2 DEF Phase
<1>7. CASE filled'[i] = filled[i] /\ Phase(i)' = Phase(i)
  <2>1. filled' = filled
    BY <1>0, <1>2, <1>7
  <2>2. [j \in Id |-> Phase(j)]' = [j \in Id |-> Phase(j)]
    BY <1>6, <1>7
  <2>3. QED
    BY <1>2, <2>1, <2>2 DEF Life!vars
<1>8. CASE state[i] \in Terminal
  <2>1. filled'[i] = filled[i]
    BY <1>3, <1>4, <1>8
  <2>2. Phase(i)' = Phase(i)
    BY <1>0, <1>2, <1>3, <1>8 DEF Phase
  <2>3. QED
    BY <1>7, <2>1, <2>2
<1>9. CASE state[i] \notin Terminal /\ o \notin Terminal
  <2>1. Phase(i)' = Phase(i)
    BY <1>0, <1>2, <1>3, <1>9 DEF Phase
  <2>2. CASE filled'[i] = filled[i]
    BY <1>7, <2>1, <2>2
  <2>3. CASE filled'[i] # filled[i]
    <3>1. filled[i] < filled'[i] /\ filled'[i] \in 0..Quantity
      BY <1>0, <1>2, <2>3
    <3>2. sends[i] # 0
      <4>1. done[i] # 0
        BY <1>0, <1>4, <3>1
      <4>2. QED
        BY <1>4, <4>1
    <3>3. Phase(i) = "REQUESTED"
      BY <1>2, <1>3, <1>9, <3>2 DEF Phase
    <3>4. /\ filled' = [filled EXCEPT ![i] = filled'[i]]
          /\ [j \in Id |-> Phase(j)]' = [j \in Id |-> Phase(j)]
      BY <1>0, <1>2, <1>6, <2>1
    <3>5. Life!Fill(i, filled'[i])
      BY <1>0, <1>2, <3>1, <3>3, <3>4 DEF Life!Fill
    <3>6. QED
      BY <3>1, <3>5 DEF Life!Next
  <2>4. QED
    BY <2>2, <2>3
<1>10. CASE state[i] \notin Terminal /\ o \in Terminal
  <2>1. /\ remote[i] # "NONE" /\ sends[i] # 0
        /\ o = "FILLED" => filled'[i] = Quantity
        /\ o = "REJECTED" => filled'[i] = 0
    <3>1. /\ remote[i] \in Over
          /\ o = "FILLED" => remote[i] = "COMPLETE"
          /\ o = "REJECTED" => remote[i] = "FAILED"
      BY <1>0, <1>4, <1>10 DEF Normalized, Word, Over, Terminal, Unknown
    <3>2. QED
      BY <1>4, <1>10, <3>1 DEF WordInv, Over
  <2>2. Phase(i) = "REQUESTED" /\ Phase(i)' = o
    BY <1>0, <1>2, <1>3, <1>10, <2>1 DEF Phase
  <2>3. filled' = [filled EXCEPT ![i] = filled'[i]]
    BY <1>0, <1>2
  <2>4. o \in Life!Ends
    BY <1>10 DEF Terminal, Life!Ends
  <2>5. /\ filled'[i] \in 0..Quantity
        /\ [j \in Id |-> Phase(j)]' = [[j \in Id |-> Phase(j)] EXCEPT ![i] = o]
    BY <1>0, <1>5, <2>2
  <2>6. Life!End(i, o, filled'[i])
    BY <1>0, <1>2, <2>1, <2>2, <2>3, <2>4, <2>5 DEF Life!End
  <2>7. QED
    BY <2>4, <2>5, <2>6 DEF Life!Next
<1>11. QED
  BY <1>8, <1>9, <1>10

\* For any submitters, reconcilers, crashes and lost, late or stale messages, the
\* journal's rows go through the life of an order (PersistentOrderJournal).
THEOREM JournalImplementsLife == Spec => LifeSpec
<1>1. Init => WordInv /\ Life!Init
  <2>1. SUFFICES ASSUME Init PROVE WordInv /\ Life!Init
    OBVIOUS
  <2>2. SomeIntent \in Intent
    BY JournalAssumption DEF SomeIntent
  <2>3. WordInv
    <3>1. ASSUME NEW i \in Id
          PROVE  remote[i] # "COMPLETE" /\ remote[i] # "FAILED"
      BY <2>1 DEF Init
    <3>2. QED
      BY <3>1, Zenon DEF WordInv
  <2>4. [i \in Id |-> Phase(i)] = [i \in Id |-> "NONE"]
    BY <2>1 DEF Init, Phase
  <2>5. QED
    BY <2>1, <2>2, <2>3, <2>4 DEF Init, Life!Init
<1>2. JournalInv /\ WordInv /\ [Next]_vars => WordInv'
  BY WordStep
<1>3. JournalInv /\ JournalInv' /\ WordInv /\ [Next]_vars => [Life!Next]_(Life!vars)
  <2>1. SUFFICES ASSUME JournalInv, JournalInv', WordInv, [Next]_vars
                 PROVE  [Life!Next]_(Life!vars)
    OBVIOUS
  <2>2. CASE UNCHANGED <<state, intent, filled, sends>>
    BY <2>2 DEF Life!vars, Phase
  <2>3. QED
    BY <2>1, <2>2, LifeKinds, InsertLife, SendLife, TransitionLife
<1>4. QED
  BY <1>1, <1>2, <1>3, JournalInvariant, PTL DEF Spec, LifeSpec, Life!Spec

-------------------------------------------------------------------------------
(* An order cancelled before its answer was journalled blocks for good.    *)

\* A blocked order can only be given a result: none of the states that a
\* preparation, a retry or the broker's report asks for is one.
LEMMA BlockedFacts ==
    ASSUME JournalInv, NEW i \in Id, Blocked(i)
    PROVE  /\ state[i] = "SUBMITTING" /\ remote[i] = "CANCELLED"
           /\ state[i] \notin Terminal \cup {"NONE"}
           /\ i \notin wire /\ ~Live(i)
           /\ \A s \in Submitter : oid[s] = i => spc[s] \notin {"send", "wait"}
           /\ \A o \in {"PREFLIGHT", "PREVIEWED", "SUBMITTING", "CANCELED"} :
                  ~CanTransition(i, o)
<1>1. state[i] = "SUBMITTING" /\ remote[i] = "CANCELLED"
  BY DEF Blocked, Stuck
<1>2. i \notin wire /\ sends[i] # 0 /\ ~Live(i)
  BY <1>1 DEF JournalInv, SentInv, Live, Over
<1>3. \A s \in Submitter : oid[s] = i => spc[s] \notin {"send", "wait"}
  BY <1>2 DEF Blocked, JournalInv, SubmitterInv
<1>4. \A o \in {"PREFLIGHT", "PREVIEWED", "SUBMITTING", "CANCELED"} :
          ~CanTransition(i, o)
  BY <1>1 DEF CanTransition, Allowed, OrderState, PreSubmission, BrokerVisible,
              Terminal, Results, Unknown
<1>5. state[i] \notin Terminal \cup {"NONE"}
  BY <1>1 DEF Terminal
<1>6. QED
  BY <1>1, <1>2, <1>3, <1>4, <1>5

LEMMA OtherRow ==
    ASSUME TypeOK, NEW i \in Id, NEW j, j # i, NEW o, NEW n, Transition(j, o, n)
    PROVE  state'[i] = state[i]
BY DEF Transition, TypeOK

\* No submitter touches the row of a blocked order or waits for it again.
LEMMA SubmitterLeavesBlocked ==
    ASSUME JournalInv, NEW i \in Id, Blocked(i),
           NEW s \in Submitter, Submit(s) \/ CrashSubmitter(s)
    PROVE  /\ state'[i] = state[i]
           /\ \A u \in Submitter : oid'[u] = i => spc'[u] # "wait"
           /\ UNCHANGED <<remote, lastRun, reconciler>>
<1>0. /\ UNCHANGED <<remote, lastRun, reconciler>>
      /\ \A u \in Submitter : oid[u] = i => spc[u] # "wait"
      /\ TypeOK
  BY DEF Submit, CrashSubmitter, Lookup, Insert, Prepare, BeginSubmit, Send, Answer,
         SubmitTimeout, broker, Blocked, JournalInv
<1> DEFINE Waits(u) == oid'[u] = i /\ spc'[u] = "wait"
           Done == state'[i] = state[i] /\ \A u \in Submitter : ~Waits(u)
<1> SUFFICES Done
  BY <1>0
<1>1. ASSUME Leave(s) PROVE \A u \in Submitter : ~Waits(u)
  BY <1>0, <1>1 DEF Leave, TypeOK
<1>2. CASE \E j \in Id, x \in Intent : Lookup(s, j, x)
  BY <1>0, <1>2 DEF Lookup, TypeOK, journal
<1>3. CASE Insert(s)
  <2>1. CASE KeyTaken(oid[s])
    BY <1>1, <1>3, <2>1 DEF Insert, journal
  <2>2. CASE ~KeyTaken(oid[s])
    <3>1. oid[s] # i
      BY <2>2, BlockedFacts DEF KeyTaken
    <3>2. QED
      BY <1>0, <1>3, <2>2, <3>1 DEF Insert, Goto, TypeOK
  <2>3. QED
    BY <2>1, <2>2
<1>4. CASE \E o \in OrderState : Prepare(s, o)
  <2>1. PICK o \in {"PREFLIGHT", "PREVIEWED"} : Prepare(s, o)
    BY <1>4 DEF Prepare
  <2>2. Transition(oid[s], o, 0) /\ UNCHANGED <<spc, oid>>
    BY <2>1 DEF Prepare, submitter
  <2>3. oid[s] # i
    BY <2>2, BlockedFacts DEF Transition
  <2>4. QED
    BY <1>0, <2>2, <2>3, OtherRow
<1>5. CASE BeginSubmit(s)
  <2>1. CASE TransitionRaises(oid[s], "SUBMITTING") /\ Leave(s)
    BY <1>1, <2>1 DEF TransitionRaises, journal
  <2>2. CASE Transition(oid[s], "SUBMITTING", 0) /\ Goto(s, "send")
    <3>1. oid[s] # i
      BY <2>2, BlockedFacts DEF Transition
    <3>2. state'[i] = state[i]
      BY <1>0, <2>2, <3>1, OtherRow
    <3>3. \A u \in Submitter : ~Waits(u)
      BY <1>0, <2>2, <3>1 DEF Goto, TypeOK
    <3>4. QED
      BY <3>2, <3>3
  <2>3. QED
    BY <1>5, <2>1, <2>2 DEF BeginSubmit
<1>6. CASE Send(s)
  <2>1. oid[s] # i
    BY <1>6, BlockedFacts DEF Send
  <2>2. QED
    BY <1>0, <1>6, <2>1 DEF Send, Goto, TypeOK, journal
<1>7. CASE Answer(s) \/ SubmitTimeout(s)
  <2>1. oid[s] # i /\ Leave(s)
    BY <1>0, <1>7 DEF Answer, SubmitTimeout
  <2>2. \/ \E o \in OrderState, n \in Nat : Transition(oid[s], o, n)
        \/ UNCHANGED journal
    <3>1. Normalized(reply[s].word) \in OrderState /\ Unknown \in OrderState
      BY <1>0, NormalizedFacts DEF TypeOK, RemoteOrder, OrderState, BrokerVisible
    <3>2. reply[s].done \in Nat
      BY <1>0, JournalAssumption DEF TypeOK, RemoteOrder
    <3>3. QED
      BY <1>7, <3>1, <3>2 DEF Answer, SubmitTimeout, TransitionRaises
  <2>3. state'[i] = state[i]
    BY <1>0, <2>1, <2>2, OtherRow DEF journal
  <2>4. QED
    BY <1>1, <2>1, <2>3
<1>8. CASE CrashSubmitter(s)
  BY <1>1, <1>8 DEF CrashSubmitter, journal
<1>9. QED
  BY <1>2, <1>3, <1>4, <1>5, <1>6, <1>7, <1>8 DEF Submit

\* The broker has ended a blocked order, and its request has arrived.
LEMMA BrokerLeavesBlocked ==
    ASSUME JournalInv, NEW i \in Id, Blocked(i), NEW j \in Id, BrokerMoves(j)
    PROVE  /\ remote'[i] = remote[i]
           /\ UNCHANGED <<state, spc, oid, lastRun, reconciler>>
<1>1. UNCHANGED <<state, spc, oid, lastRun, reconciler>>
  BY DEF BrokerMoves, Lose, Accept, Progress, EndOrder, BrokerOnly, Elsewhere, journal
<1>2. CASE Lose(j)
  BY <1>1, <1>2 DEF Lose
<1>3. CASE \E w \in Word : Accept(j, w) \/ Progress(j, w) \/ EndOrder(j, w)
  <2>1. i # j
    BY <1>3, BlockedFacts DEF Accept, Progress, EndOrder
  <2>2. QED
    BY <1>1, <1>3, <2>1 DEF Accept, Progress, EndOrder, JournalInv, TypeOK
<1>4. QED
  BY <1>1, <1>2, <1>3 DEF BrokerMoves

\* A pass takes its snapshot after the cancellation, finds the order unfinished,
\* and ends with an exception at the latest when it comes to it.
PassSees(r, i) ==
    /\ rpc[r] # "idle" => snap[r][i].word = "CANCELLED"
    /\ rpc[r] = "pass" => i \in todo[r] /\ seen[r][i] = "SUBMITTING"

LEMMA ReconcilerLeavesBlocked ==
    ASSUME JournalInv, NEW i \in Id, Blocked(i),
           NEW r \in Reconciler, Work(r) \/ CrashReconciler(r)
    PROVE  /\ state'[i] = state[i]
           /\ \A q \in Reconciler : PassSees(q, i)'
           /\ UNCHANGED <<remote, spc, oid, lastRun>>
<1>0. /\ TypeOK /\ UNCHANGED <<remote, spc, oid>>
      /\ \A q \in Reconciler : PassSees(q, i)
  BY DEF Work, Fetch, ReadLocal, SkipLocal, ReconcileRow, AbortPass, RecordRun,
         CrashReconciler, PassOnly, broker, submitter, Blocked, PassSees, JournalInv
<1>1. CASE Fetch(r)
  BY <1>0, <1>1, BlockedFacts DEF Fetch, Remote, PassSees, TypeOK, journal
<1>2. CASE ReadLocal(r)
  <2>1. i \in Unfinished /\ state[i] = "SUBMITTING"
    BY BlockedFacts DEF Unfinished
  <2>2. QED
    BY <1>0, <1>2, <2>1 DEF ReadLocal, PassSees, TypeOK, journal
<1>3. CASE \E j \in Id : SkipLocal(r, j) \/ ReconcileRow(r, j)
  <2>1. PICK j \in Id : SkipLocal(r, j) \/ ReconcileRow(r, j)
    BY <1>3
  <2>2. j # i
    <3>1. CASE SkipLocal(r, j)
      BY <1>0, <3>1 DEF SkipLocal, IsNext, LocalOnly, PassSees, PreSubmission
    <3>2. CASE ReconcileRow(r, j)
      <4>1. j = i => Verdict(r, j) = "CANCELED"
        BY <1>0, <3>2, JournalAssumption DEF ReconcileRow, IsNext, PassSees, Verdict,
                                              NoOrder, Normalized
      <4>2. QED
        BY <3>2, <4>1, BlockedFacts DEF ReconcileRow, Transition
    <3>3. QED
      BY <2>1, <3>1, <3>2
  <2>3. /\ UNCHANGED <<rpc, snap, seen, lastRun>>
        /\ todo' = [todo EXCEPT ![r] = @ \ {j}]
    BY <2>1 DEF SkipLocal, ReconcileRow, Taken
  <2>4. \A q \in Reconciler : PassSees(q, i)'
    BY <1>0, <2>2, <2>3 DEF PassSees, TypeOK
  <2>5. state'[i] = state[i]
    BY <1>0, <2>1, <2>2, OtherRow DEF SkipLocal, ReconcileRow, journal
  <2>6. QED
    BY <1>0, <2>3, <2>4, <2>5
<1>4. CASE EndPass(r) /\ UNCHANGED <<state, lastRun>>
  BY <1>0, <1>4 DEF EndPass, PassSees, TypeOK
<1>5. CASE \E j \in Id : AbortPass(r, j)
  BY <1>4, <1>5 DEF AbortPass, TransitionRaises, journal
<1>6. CASE CrashReconciler(r)
  BY <1>4, <1>6 DEF CrashReconciler, journal
<1>7. CASE \E account \in BOOLEAN : RecordRun(r, account)
  BY <1>0, <1>7 DEF RecordRun, PassSees
<1>8. QED
  BY <1>1, <1>2, <1>3, <1>5, <1>6, <1>7 DEF Work

\* For any submitters, reconcilers, crashes and retries: an order the broker
\* cancelled before its answer was journalled is never closed, and no pass is
\* recorded after it has blocked (reconcile_after_restart, _ALLOWED_TRANSITIONS).
THEOREM CancelledBlocksForGood == Spec => BlockedForGood
<1> DEFINE A == \A i \in Id : Blocked(i) => Blocked(i)' /\ lastRun' = lastRun
<1>1. JournalInv /\ [Next]_vars => [A]_vars
  <2>1. SUFFICES ASSUME JournalInv, Next, NEW i \in Id, Blocked(i)
                 PROVE  Blocked(i)' /\ lastRun' = lastRun
    OBVIOUS
  <2>2. /\ Stuck(i)
        /\ \A u \in Submitter : oid[u] = i => spc[u] # "wait"
        /\ \A q \in Reconciler : PassSees(q, i)
    BY <2>1 DEF Blocked, PassSees
  <2>3. CASE \E s \in Submitter : Submit(s) \/ CrashSubmitter(s)
    BY <2>1, <2>2, <2>3, SubmitterLeavesBlocked DEF Blocked, Stuck, PassSees, reconciler
  <2>4. CASE \E j \in Id : BrokerMoves(j)
    BY <2>1, <2>2, <2>4, BrokerLeavesBlocked DEF Blocked, Stuck, PassSees, reconciler
  <2>5. CASE \E r \in Reconciler : Work(r) \/ CrashReconciler(r)
    BY <2>1, <2>2, <2>5, ReconcilerLeavesBlocked DEF Blocked, Stuck, PassSees
  <2>6. QED
    BY <2>1, <2>3, <2>4, <2>5 DEF Next
<1>2. QED
  BY <1>1, JournalInvariant, PTL DEF Spec, BlockedForGood

\* Every other row takes the end that the broker reports.
LEMMA EndIsAllowed ==
    ASSUME NEW o \in BrokerVisible \cup Terminal, NEW w \in Over,
           o \in Terminal => Normalized(w) = o
    PROVE  Normalized(w) \in Allowed[o] \/ (o = "SUBMITTING" /\ w = "CANCELLED")
BY DEF Allowed, OrderState, PreSubmission, BrokerVisible, Terminal, Results, Unknown,
       Normalized, Over

\* For any submitters, reconcilers, crashes and stale snapshots, an order reported
\* to be over is closed by the pass that reports it, or was cancelled before its
\* answer was journalled: _ALLOWED_TRANSITIONS blocks nothing else.
THEOREM OnlyStuckOrdersBlock == Spec => []ClosableUnlessStuck
<1>1. JournalInv => ClosableUnlessStuck
  <2>1. SUFFICES ASSUME JournalInv, NEW r \in Reconciler, NEW i \in Id,
                        snap[r][i].word \in Over
                 PROVE  CanTransition(i, Verdict(r, i)) \/ Stuck(i)
    BY DEF ClosableUnlessStuck
  <2>2. snap[r][i].word = remote[i] /\ remote[i] \in Over
    BY <2>1 DEF JournalInv, ReportInv, Follows
  <2>3. Verdict(r, i) = Normalized(remote[i])
    BY <2>1, <2>2 DEF Verdict, NoOrder, Over
  <2>4. /\ state[i] \in BrokerVisible \cup Terminal
        /\ state[i] # "NONE"
    <3>1. state[i] \in OrderState \cup {"NONE"}
      BY <2>1 DEF JournalInv, TypeOK
    <3>2. state[i] \notin PreSubmission \cup {"NONE"}
      <4>1. SentInv /\ remote[i] # "NONE"
        BY <2>1, <2>2 DEF JournalInv, Over
      <4>2. QED
        BY <4>1 DEF SentInv
    <3>3. QED
      BY <3>1, <3>2, Zenon DEF OrderState
  <2>5. state[i] \in Terminal => Normalized(remote[i]) = state[i]
    BY <2>1 DEF JournalInv, ClosedIsTrue
  <2>6. \/ Normalized(remote[i]) \in Allowed[state[i]]
        \/ state[i] = "SUBMITTING" /\ remote[i] = "CANCELLED"
    BY <2>2, <2>4, <2>5, EndIsAllowed
  <2>7. QED
    BY <2>3, <2>4, <2>6 DEF CanTransition, Stuck
<1>2. QED
  BY <1>1, JournalInvariant, PTL
===============================================================================
