------------------------------ MODULE MCServer ------------------------------
(* Two requests on two connections: two metadata readers can starve the pool, *)
(* a scraper can stall another request and the publisher.                     *)
EXTENDS Server

MCRequests == {"r1", "r2"}
MCMixes ==
  {[r1 |-> "metadata", r2 |-> "metadata"], [r1 |-> "metadata", r2 |-> "transaction"],
   [r1 |-> "metrics", r2 |-> "plain"], [r1 |-> "metrics", r2 |-> "metadata"],
   [r1 |-> "readiness", r2 |-> "transaction"]}
=============================================================================
