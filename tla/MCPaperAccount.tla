---------------------------- MODULE MCPaperAccount ----------------------------
(***************************************************************************)
(* Instances of PaperAccount for TLC: small amounts, rates of the shape of *)
(* the configured ones, and an allocator reserve that exceeds the purchase *)
(* reserve by exactly the largest fee that can be due.                     *)
(***************************************************************************)
EXTENDS PaperAccount, TLC

MCMark == {2, 5}
MCOneMark == {3}
MCFee == [v \in Money |-> IF v >= 2 THEN 1 ELSE 0]
MCInterest == [d \in Money |-> [t \in Clock |-> IF d > 0 THEN t ELSE 0]]
MCReserve == [e \in Money |-> e \div 5]
MCAllocReserve == [e \in Money |-> e \div 5 + 1]
MCMaxPosition == [e \in Money |-> (e * 3) \div 5]
MCMaxGross == [e \in Money |-> (e * 8) \div 5]

\* The fee fits between the two reserves.
ASSUME FeeFits

MCSymmetry == Permutations(Worker) \cup Permutations(Symbol)
=============================================================================
