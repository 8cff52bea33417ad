------------------------------ MODULE TradeBook ------------------------------
(***************************************************************************)
(* What the paper ledger of one market promises, with no processes, locks  *)
(* or claims: a book of holdings in which a holding is bought one unit at  *)
(* a time, is sold once and as a whole, and in which no more than MaxOpen  *)
(* symbols are held.  PaperLedger implements it when one process trades.   *)
(***************************************************************************)
EXTENDS Naturals, FiniteSets

CONSTANTS Symbol,    \* the tradable symbols of the market
          MaxOpen    \* how many of them may be held at once

VARIABLES holding,   \* quantity held
          bought,    \* quantity ever bought
          sold       \* quantity ever sold

vars == <<holding, bought, sold>>

Held == {s \in Symbol : holding[s] > 0}

Init ==
    /\ holding = [s \in Symbol |-> 0]
    /\ bought  = [s \in Symbol |-> 0]
    /\ sold    = [s \in Symbol |-> 0]

\* A new holding needs a free place; adding to a holding does not.
Buy(s) ==
    /\ s \in Held \/ Cardinality(Held) < MaxOpen
    /\ holding' = [holding EXCEPT ![s] = @ + 1]
    /\ bought' = [bought EXCEPT ![s] = @ + 1]
    /\ UNCHANGED sold

\* A sale empties the holding: nothing is left to be sold a second time.
Sell(s) ==
    /\ s \in Held
    /\ holding' = [holding EXCEPT ![s] = 0]
    /\ sold' = [sold EXCEPT ![s] = @ + holding[s]]
    /\ UNCHANGED bought

\* One holding gives up its place to a symbol that is not held, in one step.
Rotate(out, in) ==
    /\ out \in Held /\ in \notin Held
    /\ holding' = [holding EXCEPT ![out] = 0, ![in] = 1]
    /\ sold' = [sold EXCEPT ![out] = @ + holding[out]]
    /\ bought' = [bought EXCEPT ![in] = @ + 1]

Next ==
    \/ \E s \in Symbol : Buy(s) \/ Sell(s)
    \/ \E out, in \in Symbol : Rotate(out, in)

Spec == Init /\ [][Next]_vars
=============================================================================
