------------------------- MODULE MCRuntimeInventory -------------------------
(* Small instances of RuntimeInventory for TLC. *)
EXTENDS RuntimeInventory, TLC

CONSTANTS m, v1, s

\* The service uses one version, in either environment.
SomeInputs == {[service |-> s, environment |-> e, refs |-> <<<<m, v1>>>>] : e \in Environments}

Symmetry == Permutations(Reporters) \cup Permutations(Environments)
=============================================================================
