-------------------------- MODULE MCMergeRequestBot --------------------------
(* Small instances of MergeRequestBot for TLC. *)
EXTENDS MergeRequestBot

CONSTANTS j1, j2, c

OneCommit == [j \in Jobs |-> c]
=============================================================================
