-------------------------- MODULE MCDependencyGraph --------------------------
(* Descriptors with every kind of reference, for the run of DependencyGraph. *)
EXTENDS DependencyGraph, TLC

Ref(site, source, name) == [site |-> site, source |-> source, name |-> name]

\* Two providers of the name user, one of them with a reference of its own, and
\* consumers of it that import it twice and name it in a field and
\* a method; nobody provides billing.
MCDescriptors ==
  {[defs |-> {<<"file", "user">>, <<"symbol", "user">>},
    refs |-> {Ref(1, "import", "timestamp")}],
   [defs |-> {<<"file", "order">>},
    refs |-> {Ref(1, "import", "user"), Ref(2, "import", "user"),
              Ref(3, "type_reference", "user"), Ref(4, "method_reference", "user"),
              Ref(5, "import", "billing")}]}

Symmetric == Permutations(Modules) \cup Permutations(Versions)
=============================================================================
