----------------------------- MODULE MCRegistry -----------------------------
(* Sources that differ in nothing the compiler keeps, for the runs of Registry. *)
EXTENDS Registry, TLC

CONSTANT i1

MCImageOf == [s \in Sources |-> i1]

Symmetric == Permutations(Calls) \cup Permutations(Modules)
=============================================================================
