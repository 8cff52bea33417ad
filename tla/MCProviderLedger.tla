--------------------------- MODULE MCProviderLedger ---------------------------
(* ProviderLedger for TLC: a process that routes from two interchangeable  *)
(* threads, and another that only recovers.                                *)
EXTENDS ProviderLedger, TLC

CONSTANTS w1, w2, t1, t2

MCProcOf == t1 :> w1 @@ t2 :> w1
MCSymmetry == Permutations({t1, t2})

\* The run begins with a pair the provider does not accept; the one crash may
\* bring the pair that it does.
MCRotation == crashes = 0 => \A p \in Worker : pair[p] \notin Good
===============================================================================
