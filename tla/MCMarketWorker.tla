---------------------------- MODULE MCMarketWorker ----------------------------
(* A small instance of MarketWorker: a page of an older build.             *)
EXTENDS MarketWorker

MCWorker == {"stock"}
MCPage == {"page"}
MCMigration == {"m1", "m2"}
MCShipped == [p \in MCWorker \cup MCPage |-> IF p = "page" THEN {"m1"} ELSE MCMigration]
===============================================================================
