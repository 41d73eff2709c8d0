------------------------------ MODULE MCPolicy ------------------------------
(* A changed module and a consumer, in a production environment and in staging. *)
EXTENDS Policy

CONSTANTS m1, m2

MCCanonical == [e \in {"Production ", "staging", "production", "prod"} |->
                  IF e = "Production " THEN "production" ELSE e]
=============================================================================
