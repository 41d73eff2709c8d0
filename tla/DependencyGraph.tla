-------------------------- MODULE DependencyGraph --------------------------
(***************************************************************************)
(* The dependency graph (internal/usecase/dependencygraph/service.go and   *)
(* postgres/dependency_graph.go): what the publish of a version stores     *)
(* about the names it refers to, and what is later read from it.           *)
(*                                                                         *)
(* A publish takes created_at from the clock, reads the provider index     *)
(* inside its transaction and commits the version, its descriptor          *)
(* metadata, edges, unresolved entries and outbox record together.  The    *)
(* metadata of a version never changes, so the files and symbols listed    *)
(* for the versions of the index are those the index names.  Registry has  *)
(* the races of several calls for the same version; here a version has one *)
(* publish in flight.  A version stands for its id.                        *)
(*                                                                         *)
(* Every stored version has status published, from its INSERT on.  To      *)
(* deprecate it (UpdateDeprecation, module_versions.go:59-74) writes three *)
(* columns that no statement of this module reads: a deprecated version    *)
(* stays the latest, a provider and an affected consumer.                  *)
(***************************************************************************)
EXTENDS Integers, Sequences, FiniteSets

CONSTANTS
  Modules,      \* module names
  Versions,     \* version strings
  Descriptors,  \* descriptor metadata that a source may compile to
  WellKnown,    \* names below google/protobuf and google.protobuf
  Requests,     \* requests that rebuild the edges of a version or read the graph
  MaxTime,      \* bound on the clock, which moves at every publish
  Null

Source == {"import", "type_reference", "method_reference"}

MV == Modules \X Versions

\* A row of module_versions; knew is what was stored when its publish began.
VersionRow == [desc : Descriptors, createdAt : Nat, knew : SUBSET MV]

ASSUME DependencyAssumption ==
  /\ MaxTime \in Nat
  /\ Null \notin VersionRow
  /\ \A d \in Descriptors : \A ref \in d.refs : ref.source \in Source

VARIABLES
  version,     \* module_versions with their proto_ tables
  edges,       \* module_dependencies
  unresolved,  \* unresolved_proto_dependencies
  outbox,      \* versions whose dependencies-updated record is written
  now,         \* the clock
  publish,     \* the publish of each version
  request      \* what each other request is doing

graph == <<edges, unresolved, outbox>>
vars == <<version, graph, now, publish, request>>

VersionsOf(m) == {m} \X Versions
Stored(mv) == version[mv] # Null

Init ==
  /\ version = [mv \in MV |-> Null]
  /\ edges = {}
  /\ unresolved = {}
  /\ outbox = {}
  /\ now = 0
  /\ publish = [mv \in MV |-> Null]
  /\ request = [r \in Requests |-> Null]

-----------------------------------------------------------------------------
(* Resolution. *)

\* Mutant: the oldest version counts as the latest.
LatestPublished_Oldest(m) ==
  {mv \in VersionsOf(m) : /\ Stored(mv)
                          /\ \A other \in VersionsOf(m) : Stored(other) =>
                               version[other].createdAt >= version[mv].createdAt}

\* DISTINCT ON (module_id) ... WHERE status = published ORDER BY created_at DESC;
\* empty when the module has no version.
LatestPublished(m) ==
  {mv \in VersionsOf(m) : /\ Stored(mv)
                          /\ \A other \in VersionsOf(m) : Stored(other) =>
                               version[other].createdAt <= version[mv].createdAt}

\* buildProviderIndex: the latest versions of all modules but the consumer's.
ProviderIndex(consumer) == UNION {LatestPublished(m) : m \in Modules \ {consumer}}

\* What a descriptor defines: files, and messages, enums and services at any depth.
Defines(desc, ref) == <<IF ref.source = "import" THEN "file" ELSE "symbol", ref.name>> \in desc.defs

\* The references that resolveDependencies looks up.
External(desc) == {ref \in desc.refs : ref.name \notin WellKnown /\ ~Defines(desc, ref)}

Providers(ref, index) == {mv \in index : Defines(version[mv].desc, ref)}

\* Mutant: of several providers the first is taken.
Dependencies_Guessed(consumer, desc, index) ==
  {[consumer |-> consumer, provider |-> CHOOSE mv \in Providers(ref, index) : TRUE,
    source |-> ref.source, name |-> ref.name] :
     ref \in {r \in External(desc) : Providers(r, index) # {}}}

\* addDependency: one edge for each provider, source and name.
Dependencies(consumer, desc, index) ==
  {[consumer |-> consumer, provider |-> CHOOSE mv \in Providers(ref, index) : TRUE,
    source |-> ref.source, name |-> ref.name] :
     ref \in {r \in External(desc) : Cardinality(Providers(r, index)) = 1}}

\* Mutant: only references without a provider are recorded.
Unresolved_NotFound(consumer, desc, index) ==
  {[consumer |-> consumer, ref |-> ref, reason |-> "provider_not_found"] :
     ref \in {r \in External(desc) : Providers(r, index) = {}}}

\* addUnresolved: an entry of its own for every reference.
Unresolved(consumer, desc, index) ==
  {[consumer |-> consumer, ref |-> ref,
    reason |-> IF Providers(ref, index) = {} THEN "provider_not_found" ELSE "ambiguous_provider"] :
     ref \in {r \in External(desc) : Cardinality(Providers(r, index)) # 1}}

\* The rows of the version are deleted and the new ones inserted.
ReplaceByConsumerModuleVersion(rows, consumer, new) ==
  {row \in rows : row.consumer # consumer} \cup new

\* storeResolvedDependencies: the replacement, then the outbox record, whose dedup
\* key names the version; a second one undoes the replacement.
StoreResolved(consumer, desc, index) ==
  IF consumer \in outbox THEN UNCHANGED graph
  ELSE /\ edges' = ReplaceByConsumerModuleVersion(edges, consumer, Dependencies(consumer, desc, index))
       /\ unresolved' = ReplaceByConsumerModuleVersion(unresolved, consumer, Unresolved(consumer, desc, index))
       /\ outbox' = outbox \cup {consumer}

-----------------------------------------------------------------------------
(* Publishing and rebuilding. *)

\* created_at is read before the transaction; no two readings are equal.
BeginPublish(mv, desc) ==
  /\ ~Stored(mv) /\ publish[mv] = Null
  /\ now < MaxTime
  /\ publish' = [publish EXCEPT ![mv] =
       [desc |-> desc, createdAt |-> now, knew |-> {o \in MV : Stored(o)}, index |-> Null]]
  /\ now' = now + 1
  /\ UNCHANGED <<version, graph, request>>

\* RebuildPublishedModuleVersionDependencies reads the index in the transaction.
ReadIndex(mv) ==
  /\ publish[mv] # Null /\ publish[mv].index = Null
  /\ publish' = [publish EXCEPT ![mv].index = ProviderIndex(mv[1])]
  /\ UNCHANGED <<version, graph, now, request>>

CommitPublish(mv) ==
  /\ publish[mv] # Null /\ publish[mv].index # Null
  /\ version' = [version EXCEPT ![mv] =
       [desc |-> publish[mv].desc, createdAt |-> publish[mv].createdAt,
        knew |-> publish[mv].knew]]
  /\ StoreResolved(mv, publish[mv].desc, publish[mv].index)
  /\ publish' = [publish EXCEPT ![mv] = Null]
  /\ UNCHANGED <<now, request>>

\* The transaction fails; the version may be published again.
AbortPublish(mv) ==
  /\ publish[mv] # Null
  /\ publish' = [publish EXCEPT ![mv] = Null]
  /\ UNCHANGED <<version, graph, now, request>>

Running(r, op) == request[r] # Null /\ request[r].op = op

\* RebuildModuleVersionDependencies reads the index before its transaction.
BeginRebuild(r, mv) ==
  /\ Stored(mv) /\ request[r] = Null
  /\ request' = [request EXCEPT ![r] =
       [op |-> "rebuild", consumer |-> mv, index |-> ProviderIndex(mv[1])]]
  /\ UNCHANGED <<version, graph, now, publish>>

EndRebuild(r) ==
  /\ Running(r, "rebuild")
  /\ StoreResolved(request[r].consumer, version[request[r].consumer].desc, request[r].index)
  /\ request' = [request EXCEPT ![r] = Null]
  /\ UNCHANGED <<version, now, publish>>

-----------------------------------------------------------------------------
(* Queries. *)

ListUpstreamByModule(m) == {e \in edges : e.consumer[1] = m}
ListDownstreamByModule(m) == {e \in edges : e.provider[1] = m}
ListUnresolvedByModule(m) == {u \in unresolved : u.consumer[1] = m}

\* ListAffectedModules: any version of the provider, only the latest of a consumer.
ListAffectedModules(provider, latest) ==
  {e.consumer[1] : e \in {d \in ListDownstreamByModule(provider) : d.consumer \in latest}}

\* Mutant: the unresolved entries are read before the edges.
GraphReads_UnresolvedFirst == <<"unresolved", "downstream", "upstream">>

\* The three statements of GetModuleDependencyGraph, outside any transaction.
GraphReads == <<"upstream", "downstream", "unresolved">>

GraphRead(m, list) ==
  CASE list = "upstream" -> ListUpstreamByModule(m)
    [] list = "downstream" -> ListDownstreamByModule(m)
    [] list = "unresolved" -> ListUnresolvedByModule(m)

NoAnswer(m) == [op |-> "graph", module |-> m, step |-> 1,
                upstream |-> {}, downstream |-> {}, unresolved |-> {}]

AfterRead(answer) ==
  LET list == GraphReads[answer.step]
  IN [answer EXCEPT !.step = @ + 1, ![list] = GraphRead(answer.module, list)]

\* GetModuleDependencyGraph of a module that exists.
BeginGraph(r, m) ==
  /\ request[r] = Null
  /\ request' = [request EXCEPT ![r] = AfterRead(NoAnswer(m))]
  /\ UNCHANGED <<version, graph, now, publish>>

ReadGraph(r) ==
  /\ Running(r, "graph") /\ request[r].step <= Len(GraphReads)
  /\ request' = [request EXCEPT ![r] = AfterRead(request[r])]
  /\ UNCHANGED <<version, graph, now, publish>>

\* The answer is sent.
EndGraph(r) ==
  /\ Running(r, "graph") /\ request[r].step > Len(GraphReads)
  /\ request' = [request EXCEPT ![r] = Null]
  /\ UNCHANGED <<version, graph, now, publish>>

Next ==
  \/ \E mv \in MV :
       \/ \E desc \in Descriptors : BeginPublish(mv, desc)
       \/ ReadIndex(mv)
       \/ CommitPublish(mv)
       \/ AbortPublish(mv)
  \/ \E r \in Requests :
       \/ \E mv \in MV : BeginRebuild(r, mv)
       \/ EndRebuild(r)
       \/ \E m \in Modules : BeginGraph(r, m)
       \/ ReadGraph(r)
       \/ EndGraph(r)

Spec == Init /\ [][Next]_vars

-----------------------------------------------------------------------------
(* Properties. *)

Refs == UNION {d.refs : d \in Descriptors}
Edge == [consumer : MV, provider : MV, source : Source, name : {ref.name : ref \in Refs}]
Entry == [consumer : MV, ref : Refs, reason : {"provider_not_found", "ambiguous_provider"}]

TypeOK ==
  /\ \A mv \in MV : Stored(mv) =>
       /\ version[mv].desc \in Descriptors
       /\ version[mv].createdAt \in 0 .. now
       /\ mv \notin version[mv].knew
  /\ edges \subseteq Edge
  /\ unresolved \subseteq Entry
  /\ outbox = {mv \in MV : Stored(mv)}
  /\ now \in 0 .. MaxTime
  /\ \A mv \in MV : publish[mv] # Null => ~Stored(mv)

EdgesFor(mv, ref) == {e \in edges : e.consumer = mv /\ e.source = ref.source /\ e.name = ref.name}
EntriesFor(mv, ref) == {u \in unresolved : u.consumer = mv /\ u.ref = ref}

\* An edge leads to a stored version of another module that defines the name and
\* that was not begun after the consumer was stored (buildProviderIndex,
\* dependencygraph/service.go:185-219).
EdgeSound(e) ==
  /\ e.provider[1] # e.consumer[1]
  /\ Stored(e.provider) /\ Stored(e.consumer)
  /\ Defines(version[e.provider].desc, [source |-> e.source, name |-> e.name])
  /\ e.consumer \notin version[e.provider].knew

\* Whatever else is published or rebuilt meanwhile, a stored version
\* has for each reference to a name outside itself and outside the well-known ones
\* either one edge, to a version that could serve it, or one unresolved entry, and
\* nothing else (resolveDependencies, dependencygraph/service.go:221-338).
ReferencesAccounted ==
  /\ \A mv \in MV : Stored(mv) =>
       LET external == External(version[mv].desc)
       IN /\ \A ref \in external :
               Cardinality(EdgesFor(mv, ref)) + Cardinality(EntriesFor(mv, ref)) = 1
          /\ {e \in edges : e.consumer = mv} = UNION {EdgesFor(mv, ref) : ref \in external}
          /\ {u \in unresolved : u.consumer = mv} = UNION {EntriesFor(mv, ref) : ref \in external}
  /\ \A e \in edges : EdgeSound(e)

\* The modules affected by a change of a module, as asked at any moment, lack a
\* consumer whose latest version refers to what the module now defines only when
\* that version reports the reference as unresolved or got it from another module
\* (ListAffectedModules, dependency_graph.go:62-115).
AffectedOrReported ==
  \A provider, consumer \in Modules :
    \A pv \in LatestPublished(provider), cv \in LatestPublished(consumer) :
      \A ref \in External(version[cv].desc) :
        /\ provider # consumer
        /\ Defines(version[pv].desc, ref)
        /\ consumer \notin ListAffectedModules(provider, {cv})
        => \/ EntriesFor(cv, ref) # {}
           \/ \E e \in EdgesFor(cv, ref) : e.provider[1] # provider

\* A version never gives way, as the latest of its module, to one that
\* was stored before its own publish began, though created_at is read long before
\* the commit; two publishes that overlap may end up in either order
\* (GetLatestByModule, module_versions.go:84; DISTINCT ON, dependency_graph.go:131).
LatestRespectsOrder ==
  \A m \in Modules : \A latest \in LatestPublished(m), mv \in VersionsOf(m) :
    Stored(mv) => latest \notin version[mv].knew

\* An answer that shows an edge of a version shows all its edges and all its
\* unresolved entries, though the three lists are read one after the other
\* (GetModuleDependencyGraph, dependency_queries.go:10-38).
AnswerWhole ==
  \A r \in Requests : Running(r, "graph") /\ request[r].step > Len(GraphReads) =>
    \A e \in request[r].upstream :
      /\ {d \in edges : d.consumer = e.consumer} \subseteq request[r].upstream
      /\ {u \in unresolved : u.consumer = e.consumer} \subseteq request[r].unresolved
=============================================================================
