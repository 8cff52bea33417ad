----------------------------- MODULE ProviderBook -----------------------------
(***************************************************************************)
(* What the provider ledger and the recovery of credentials promise, with  *)
(* no processes, threads, rows, locks, cooldowns or crashes: a call is paid*)
(* for before it is made, from the budget of the date it is charged to; a  *)
(* pair of credentials is claimed, and its call paid for, in one step,     *)
(* tried at most once, and judged by that attempt alone.  What a call is   *)
(* worth is not said: a call that is routed may be several requests, the   *)
(* call of the recovery is one.  ProviderLedger implements it.             *)
(***************************************************************************)
EXTENDS Naturals

CONSTANTS Cred, Good,   \* credential pairs, and those the provider accepts
          Day, Budget   \* dates, and the calls each may be charged

VARIABLES phase,    \* "none", "CLAIMED", "TRIED", or how a pair was judged
          charged,  \* calls charged to a date
          calls     \* calls made on its account

vars == <<phase, charged, calls>>

Init ==
    /\ phase = [c \in Cred |-> "none"]
    /\ charged = [d \in Day |-> 0] /\ calls = [d \in Day |-> 0]

Charge(d) ==
    /\ charged[d] < Budget
    /\ charged' = [charged EXCEPT ![d] = @ + 1]
    /\ UNCHANGED calls
Spend(d) ==
    /\ calls[d] < charged[d]
    /\ calls' = [calls EXCEPT ![d] = @ + 1]
    /\ UNCHANGED charged

Becomes(c, from, to) == phase[c] = from /\ phase' = [phase EXCEPT ![c] = to]

Reserve(d) == Charge(d) /\ UNCHANGED phase
Call(d) == Spend(d) /\ UNCHANGED phase

Claim(c, d) == Becomes(c, "none", "CLAIMED") /\ Charge(d)
Try(c, d) == Becomes(c, "CLAIMED", "TRIED") /\ Spend(d)
Judge(c, v) ==
    /\ v = "AUTHENTICATED" => c \in Good
    /\ Becomes(c, "TRIED", v)
    /\ UNCHANGED <<charged, calls>>

Next ==
    \/ \E d \in Day :
        \/ Reserve(d) \/ Call(d)
        \/ \E c \in Cred : Claim(c, d) \/ Try(c, d)
    \/ \E c \in Cred, v \in {"DONE", "AUTHENTICATED"} : Judge(c, v)

Spec == Init /\ [][Next]_vars
===============================================================================
