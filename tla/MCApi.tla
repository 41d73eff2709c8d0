-------------------------------- MODULE MCApi --------------------------------
(* Two tokens, so that an actor may be another one's, and one repetition. *)
EXTENDS Api

MCTokens == {"ci", "ops"}
MCServices == {"registry", "runtime", "governance"}
=============================================================================
