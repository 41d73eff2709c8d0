------------------------------ MODULE MCPages ------------------------------
(* Two modules, one of them used by the services, for the run of Pages. *)
EXTENDS Pages

MCModuleNames == <<"order", "user">>
MCInventories == {{<<"order", "v1">>}, {<<"order", "v2">>, <<"user", "v1">>}}
=============================================================================
