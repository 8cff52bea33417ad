---------------------------- MODULE MCPaperLedger ----------------------------
(***************************************************************************)
(* Instances of PaperLedger for TLC: one process with several threads,     *)
(* several single-threaded processes (replicas of a worker), or both.      *)
(***************************************************************************)
EXTENDS PaperLedger, TLC

\* All threads belong to one process.
MCOneProcess == [t \in Thread |-> CHOOSE p \in Process : TRUE]

\* Every thread is a process of its own (Process and Thread are the same set).
MCReplicas == [t \in Thread |-> t]

\* A thread named like a process belongs to it, any other to one of them.
MCPools == [t \in Thread |-> IF t \in Process THEN t ELSE CHOOSE p \in Process : TRUE]

\* Bound of the replica runs: decisions declined after their claim.
MCFewDeclined == Cardinality(claims \ completed) <= 1

MCSymmetry == Permutations(Symbol) \cup Permutations(Quote)
=============================================================================
