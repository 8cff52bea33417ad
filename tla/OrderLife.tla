------------------------------ MODULE OrderLife ------------------------------
(***************************************************************************)
(* What the order journal promises to whoever reads it, with no processes, *)
(* messages, timeouts or crashes: an order is recorded with one intent,    *)
(* requested once, filled little by little, and ends once, in a way that   *)
(* agrees with its fills.  OrderJournal implements it.                     *)
(***************************************************************************)
EXTENDS Naturals

CONSTANTS Id, Intent, Quantity

VARIABLES phase,   \* "NONE", "RECORDED", "REQUESTED", or how the order ended
          intent,  \* what it asks for
          filled   \* quantity filled

vars == <<phase, intent, filled>>

Ends == {"FILLED", "CANCELED", "REJECTED"}

Init ==
    /\ phase = [i \in Id |-> "NONE"]
    /\ intent \in [Id -> Intent]
    /\ filled = [i \in Id |-> 0]

Record(i, x) ==
    /\ phase[i] = "NONE"
    /\ phase' = [phase EXCEPT ![i] = "RECORDED"]
    /\ intent' = [intent EXCEPT ![i] = x]
    /\ UNCHANGED filled

Request(i) ==
    /\ phase[i] = "RECORDED"
    /\ phase' = [phase EXCEPT ![i] = "REQUESTED"]
    /\ UNCHANGED <<intent, filled>>

Fill(i, n) ==
    /\ phase[i] = "REQUESTED"
    /\ filled[i] < n /\ n <= Quantity
    /\ filled' = [filled EXCEPT ![i] = n]
    /\ UNCHANGED <<phase, intent>>

\* An order is filled in full, is refused without a fill, or is cancelled with
\* what it has.
End(i, w, n) ==
    /\ phase[i] = "REQUESTED" /\ w \in Ends
    /\ filled[i] <= n /\ n <= Quantity
    /\ w = "FILLED" => n = Quantity
    /\ w = "REJECTED" => n = 0
    /\ phase' = [phase EXCEPT ![i] = w]
    /\ filled' = [filled EXCEPT ![i] = n]
    /\ UNCHANGED intent

Next ==
    \E i \in Id :
        \/ \E x \in Intent : Record(i, x)
        \/ Request(i)
        \/ \E n \in 0..Quantity : Fill(i, n) \/ \E w \in Ends : End(i, w, n)

Spec == Init /\ [][Next]_vars
=============================================================================
