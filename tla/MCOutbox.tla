------------------------------ MODULE MCOutbox ------------------------------
(* Symmetry for the runs of Outbox that check no liveness. *)
EXTENDS Outbox, TLC

Symmetric == Permutations(Records) \cup Permutations(Publishers)
=============================================================================
