------------------------ MODULE DependencyGraphProofs ------------------------
(***************************************************************************)
(* Proofs about DependencyGraph for every set of modules, versions,        *)
(* descriptors and requests.                                               *)
(***************************************************************************)
EXTENDS DependencyGraph, FiniteSetTheorems, TLAPS

-----------------------------------------------------------------------------
(* The strengthening of the safety properties that the steps preserve. *)

Publish == [desc : Descriptors, createdAt : Nat, knew : SUBSET MV, index : (SUBSET MV) \cup {Null}]

Answer == [op : {"graph"}, module : Modules, step : Nat,
           upstream : SUBSET Edge, downstream : SUBSET Edge, unresolved : SUBSET Entry]

Rebuild == [op : {"rebuild"}, consumer : MV, index : SUBSET MV]

Typed ==
  /\ version \in [MV -> VersionRow \cup {Null}]
  /\ edges \subseteq Edge
  /\ unresolved \subseteq Entry
  /\ outbox = {mv \in MV : Stored(mv)}
  /\ now \in 0 .. MaxTime
  /\ publish \in [MV -> Publish \cup {Null}]
  /\ request \in [Requests -> Answer \cup Rebuild \cup {Null}]

\* What was stored when a publish began was begun before it.
KnewBefore(known, time) == \A o \in known : Stored(o) /\ version[o].createdAt < time

VersionOK(mv) ==
  Stored(mv) => /\ version[mv].createdAt < now
                /\ KnewBefore(version[mv].knew, version[mv].createdAt)

PublishOK(mv) ==
  publish[mv] # Null =>
    /\ ~Stored(mv)
    /\ publish[mv].createdAt < now
    /\ KnewBefore(publish[mv].knew, publish[mv].createdAt)
    /\ publish[mv].index # Null => \A p \in publish[mv].index : Stored(p) /\ p[1] # mv[1]

EdgesOf(mv) == {e \in edges : e.consumer = mv}
EntriesOf(mv) == {u \in unresolved : u.consumer = mv}

\* The rows of a version are the resolution of its references against one index of
\* versions of other modules, none of them begun after the version was stored.
Resolved(mv, index) ==
  /\ \A p \in index : Stored(p) /\ p[1] # mv[1] /\ mv \notin version[p].knew
  /\ EdgesOf(mv) = Dependencies(mv, version[mv].desc, index)
  /\ EntriesOf(mv) = Unresolved(mv, version[mv].desc, index)

RowsOK ==
  /\ \A mv \in MV : Stored(mv) => \E index \in SUBSET MV : Resolved(mv, index)
  /\ \A e \in edges : Stored(e.consumer)

\* What a request has read so far is whole for every version of which it has an edge.
RequestOK(r) ==
  /\ Running(r, "rebuild") => Stored(request[r].consumer)
  /\ Running(r, "graph") =>
       /\ request[r].step \in 2 .. 4
       /\ \A e \in request[r].upstream :
            /\ Stored(e.consumer) /\ e.consumer[1] = request[r].module
            /\ EdgesOf(e.consumer) \subseteq request[r].upstream
            /\ request[r].step = 4 => EntriesOf(e.consumer) \subseteq request[r].unresolved

\* What every step preserves.
IInv == /\ Typed /\ RowsOK
        /\ \A mv \in MV : VersionOK(mv) /\ PublishOK(mv)
        /\ \A r \in Requests : RequestOK(r)

\* Nothing that was stored changes.
VersionsKept ==
  \A mv \in MV : Stored(mv) =>
    /\ Stored(mv)'
    /\ version'[mv].desc = version[mv].desc
    /\ version'[mv].createdAt = version[mv].createdAt
    /\ version'[mv].knew = version[mv].knew

-----------------------------------------------------------------------------
(* The operators of the model. *)

\* Whether a name is defined depends on the kind and the name of the reference.
LEMMA DefinesSame ==
  ASSUME NEW desc, NEW a, NEW b, a.source = b.source, a.name = b.name
  PROVE  Defines(desc, a) <=> Defines(desc, b)
BY DEF Defines

LEMMA ProvidersSame ==
  ASSUME NEW index, NEW a, NEW b, a.source = b.source, a.name = b.name
  PROVE  Providers(a, index) = Providers(b, index)
BY DefinesSame DEF Providers

\* A set of one element is not empty.
LEMMA OneElement ==
  ASSUME NEW S, Cardinality(S) = 1 PROVE S # {}
BY FS_EmptySet

\* What is in the resolution of a descriptor.
LEMMA DependencyShape ==
  ASSUME NEW mv, NEW desc, NEW index, NEW e
  PROVE  e \in Dependencies(mv, desc, index) <=>
           \E ref \in External(desc) :
             /\ Cardinality(Providers(ref, index)) = 1
             /\ e = [consumer |-> mv, provider |-> CHOOSE p \in Providers(ref, index) : TRUE,
                     source |-> ref.source, name |-> ref.name]
BY DEF Dependencies

LEMMA UnresolvedShape ==
  ASSUME NEW mv, NEW desc, NEW index, NEW u
  PROVE  u \in Unresolved(mv, desc, index) <=>
           \E ref \in External(desc) :
             /\ Cardinality(Providers(ref, index)) # 1
             /\ u = [consumer |-> mv, ref |-> ref,
                     reason |-> IF Providers(ref, index) = {} THEN "provider_not_found"
                                ELSE "ambiguous_provider"]
BY DEF Unresolved

\* An edge leads to a version of the index that defines its name.
LEMMA DependencyProvider ==
  ASSUME NEW mv, NEW desc, NEW index, NEW e \in Dependencies(mv, desc, index)
  PROVE  /\ e.consumer = mv /\ e.provider \in index
         /\ Defines(version[e.provider].desc, [source |-> e.source, name |-> e.name])
<1>1. PICK ref \in External(desc) :
        /\ Cardinality(Providers(ref, index)) = 1
        /\ e = [consumer |-> mv, provider |-> CHOOSE p \in Providers(ref, index) : TRUE,
                source |-> ref.source, name |-> ref.name]
  BY DependencyShape
<1>2. e.provider \in Providers(ref, index)
  BY <1>1, OneElement
<1>3. e.consumer = mv /\ e.source = ref.source /\ e.name = ref.name
  BY <1>1
<1> QED BY <1>2, <1>3, DefinesSame DEF Providers

\* The resolution of a version has its rows only.
LEMMA ResolutionOwned ==
  ASSUME NEW mv, NEW desc, NEW index
  PROVE  /\ \A e \in Dependencies(mv, desc, index) : e.consumer = mv
         /\ \A u \in Unresolved(mv, desc, index) : u.consumer = mv
<1>1. ASSUME NEW e \in Dependencies(mv, desc, index) PROVE e.consumer = mv
  BY <1>1, DependencyProvider
<1>2. ASSUME NEW u \in Unresolved(mv, desc, index) PROVE u.consumer = mv
  <2>1. PICK ref \in External(desc) :
          u = [consumer |-> mv, ref |-> ref,
               reason |-> IF Providers(ref, index) = {} THEN "provider_not_found"
                          ELSE "ambiguous_provider"]
    BY <1>2, UnresolvedShape
  <2> QED BY <2>1
<1> QED BY <1>1, <1>2

\* The rows of a version are rows of the two tables.
LEMMA ResolutionTyped ==
  ASSUME NEW mv \in MV, NEW desc \in Descriptors, NEW index \in SUBSET MV
  PROVE  /\ Dependencies(mv, desc, index) \subseteq Edge
         /\ Unresolved(mv, desc, index) \subseteq Entry
<1>1. \A ref \in External(desc) : ref \in Refs /\ ref.source \in Source
  BY DependencyAssumption DEF External, Refs
<1>2. ASSUME NEW e \in Dependencies(mv, desc, index) PROVE e \in Edge
  <2>1. PICK ref \in External(desc) :
          e = [consumer |-> mv, provider |-> CHOOSE p \in Providers(ref, index) : TRUE,
               source |-> ref.source, name |-> ref.name]
    BY DependencyShape
  <2>2. e.provider \in MV
    BY DependencyProvider
  <2>3. (CHOOSE p \in Providers(ref, index) : TRUE) \in MV
    BY <2>1, <2>2
  <2> QED BY <1>1, <2>1, <2>3 DEF Edge
<1>3. ASSUME NEW u \in Unresolved(mv, desc, index) PROVE u \in Entry
  <2>1. PICK ref \in External(desc) :
          u = [consumer |-> mv, ref |-> ref,
               reason |-> IF Providers(ref, index) = {} THEN "provider_not_found"
                          ELSE "ambiguous_provider"]
    BY UnresolvedShape
  <2> QED BY <1>1, <2>1 DEF Entry
<1> QED BY <1>2, <1>3

\* The resolution against stored versions stays what it was.
LEMMA ResolutionStable ==
  ASSUME VersionsKept, NEW mv, NEW desc, NEW index \in SUBSET MV, \A p \in index : Stored(p)
  PROVE  /\ Dependencies(mv, desc, index)' = Dependencies(mv, desc, index)
         /\ Unresolved(mv, desc, index)' = Unresolved(mv, desc, index)
<1>1. ASSUME NEW ref PROVE Providers(ref, index)' = Providers(ref, index)
  BY DEF VersionsKept, Providers, Defines
<1>2. Dependencies(mv, desc, index)' = Dependencies(mv, desc, index)
  BY <1>1 DEF Dependencies, External, Defines
<1>3. Unresolved(mv, desc, index)' = Unresolved(mv, desc, index)
  BY <1>1 DEF Unresolved, External, Defines
<1> QED BY <1>2, <1>3

\* The reads of a graph request, one after the other.
LEMMA ReadsInOrder ==
  Len(GraphReads) = 3 /\ GraphReads[1] = "upstream" /\ GraphReads[2] = "downstream" /\ GraphReads[3] = "unresolved"
BY DEF GraphReads

-----------------------------------------------------------------------------
(* What a step leaves alone. *)

LEMMA KnewBeforeStable ==
  ASSUME Typed, VersionsKept, NEW known \in SUBSET MV, NEW time, KnewBefore(known, time)
  PROVE  KnewBefore(known, time)'
BY DEF KnewBefore, VersionsKept

LEMMA VersionStable ==
  ASSUME Typed, Typed', VersionsKept, now <= now', NEW mv \in MV, Stored(mv), VersionOK(mv)
  PROVE  VersionOK(mv)'
<1>1. version[mv] \in VersionRow /\ now \in Int /\ now' \in Int
  BY DEF Typed, Stored
<1>2. version[mv].knew \in SUBSET MV /\ version[mv].createdAt \in Int
  BY <1>1 DEF VersionRow
<1>3. KnewBefore(version[mv].knew, version[mv].createdAt)
  BY DEF VersionOK
<1>4. \A K \in SUBSET MV : \A t : KnewBefore(K, t) => KnewBefore(K, t)'
  BY KnewBeforeStable
<1>5. KnewBefore(version[mv].knew, version[mv].createdAt)'
  <2>1. PICK K \in SUBSET MV, t \in Int : K = version[mv].knew /\ t = version[mv].createdAt
    BY <1>2
  <2>2. KnewBefore(K, t)'
    BY <1>3, <1>4, <2>1
  <2> QED BY <2>1, <2>2 DEF VersionsKept
<1>6. version'[mv].createdAt < now'
  BY <1>1, <1>2 DEF VersionOK, VersionsKept
<1> QED BY <1>5, <1>6 DEF VersionOK

LEMMA ResolvedStable ==
  ASSUME VersionsKept, NEW mv \in MV, Stored(mv), NEW index \in SUBSET MV, Resolved(mv, index),
         EdgesOf(mv)' = EdgesOf(mv), EntriesOf(mv)' = EntriesOf(mv)
  PROVE  Resolved(mv, index)'
<1>1. \A p \in index : p \in MV /\ Stored(p)
  BY DEF Resolved
<1>2. PICK desc : desc = version[mv].desc
  OBVIOUS
<1>3. /\ Dependencies(mv, desc, index)' = Dependencies(mv, desc, index)
      /\ Unresolved(mv, desc, index)' = Unresolved(mv, desc, index)
  BY <1>1, ResolutionStable
<1>4. version'[mv].desc = desc
  BY <1>2 DEF VersionsKept
<1>5. \A p \in index : Stored(p)' /\ p[1] # mv[1] /\ mv \notin version'[p].knew
  BY <1>1 DEF Resolved, VersionsKept
<1>6. /\ EdgesOf(mv) = Dependencies(mv, desc, index)
      /\ EntriesOf(mv) = Unresolved(mv, desc, index)
  BY <1>2 DEF Resolved
<1>7. /\ EdgesOf(mv)' = Dependencies(mv, version[mv].desc, index)'
      /\ EntriesOf(mv)' = Unresolved(mv, version[mv].desc, index)'
  BY <1>3, <1>4, <1>6
<1> QED BY <1>5, <1>7 DEF Resolved

LEMMA PublishStable ==
  ASSUME Typed, Typed', VersionsKept, now <= now', NEW mv \in MV, PublishOK(mv),
         publish'[mv] = publish[mv], ~Stored(mv) => ~Stored(mv)'
  PROVE  PublishOK(mv)'
<1> SUFFICES ASSUME publish[mv] # Null PROVE PublishOK(mv)'
  BY DEF PublishOK
<1>1. publish[mv] \in Publish /\ now \in Int /\ now' \in Int
  BY DEF Typed
<1>2. publish[mv].knew \in SUBSET MV /\ publish[mv].createdAt \in Int /\ publish[mv].index \in (SUBSET MV) \cup {Null}
  BY <1>1 DEF Publish
<1>3. PICK K \in SUBSET MV, t \in Int : K = publish[mv].knew /\ t = publish[mv].createdAt
  BY <1>2
<1>4. KnewBefore(K, t)'
  BY <1>3, KnewBeforeStable DEF PublishOK
<1>5. publish[mv].index # Null => \A p \in publish[mv].index : Stored(p)' /\ p[1] # mv[1]
  <2>1. publish[mv].index # Null => \A p \in publish[mv].index : p \in MV
    BY <1>2
  <2>2. publish[mv].index # Null => \A p \in publish[mv].index : Stored(p) /\ p[1] # mv[1]
    BY DEF PublishOK
  <2>3. \A p \in MV : Stored(p) => Stored(p)'
    BY DEF VersionsKept
  <2> QED BY <2>1, <2>2, <2>3
<1> QED BY <1>1, <1>2, <1>3, <1>4, <1>5 DEF PublishOK

\* A request keeps what it has read when the rows of the versions it read stay.
LEMMA RequestStable ==
  ASSUME Typed, VersionsKept, NEW r \in Requests, RequestOK(r), request'[r] = request[r],
         \A mv \in MV : Stored(mv) => EdgesOf(mv)' = EdgesOf(mv) /\ EntriesOf(mv)' = EntriesOf(mv)
  PROVE  RequestOK(r)'
<1>1. ASSUME Running(r, "rebuild") PROVE Stored(request[r].consumer)'
  <2>1. request[r] \in Rebuild
    BY <1>1 DEF Running, Typed, Answer
  <2>2. request[r].consumer \in MV
    BY <2>1 DEF Rebuild
  <2> QED BY <1>1, <2>2 DEF RequestOK, VersionsKept, Stored
<1>2. ASSUME Running(r, "graph")
      PROVE  /\ request[r].step \in 2 .. 4
             /\ \A e \in request[r].upstream :
                  /\ Stored(e.consumer)' /\ e.consumer[1] = request[r].module
                  /\ EdgesOf(e.consumer)' \subseteq request[r].upstream
                  /\ request[r].step = 4 => EntriesOf(e.consumer)' \subseteq request[r].unresolved
  <2>1. request[r] \in Answer
    BY <1>2 DEF Running, Typed, Rebuild
  <2>2. \A e \in request[r].upstream : e.consumer \in MV
    BY <2>1 DEF Answer, Edge
  <2> QED BY <1>2, <2>2 DEF RequestOK, VersionsKept
<1>3. /\ Running(r, "rebuild")' <=> Running(r, "rebuild")
      /\ Running(r, "graph")' <=> Running(r, "graph")
  BY DEF Running
<1>4. Running(r, "rebuild")' => Stored(request[r].consumer)'
  BY <1>1, <1>3 DEF Stored
<1> QED BY <1>2, <1>3, <1>4 DEF RequestOK

\* A step that stores no version and no row.
LEMMA Quiet ==
  ASSUME IInv, Typed', VersionsKept, now <= now', UNCHANGED <<edges, unresolved>>,
         \A mv \in MV : Stored(mv)' => Stored(mv),
         \A mv \in MV : publish'[mv] = publish[mv] \/ PublishOK(mv)',
         \A r \in Requests : request'[r] = request[r] \/ RequestOK(r)'
  PROVE  IInv'
<1>1. \A mv \in MV : EdgesOf(mv)' = EdgesOf(mv) /\ EntriesOf(mv)' = EntriesOf(mv)
  BY DEF EdgesOf, EntriesOf
<1>2. \A mv \in MV : VersionOK(mv)'
  BY VersionStable DEF IInv, VersionOK
<1>3. \A mv \in MV : PublishOK(mv)'
  BY PublishStable DEF IInv
<1>4. \A r \in Requests : RequestOK(r)'
  BY <1>1, RequestStable DEF IInv
<1>5. RowsOK'
  <2>1. ASSUME NEW mv \in MV, Stored(mv)' PROVE \E index \in SUBSET MV : Resolved(mv, index)'
    <3>1. Stored(mv)
      BY <2>1
    <3>2. PICK index \in SUBSET MV : Resolved(mv, index)
      BY <3>1 DEF IInv, RowsOK
    <3> QED BY <1>1, <3>1, <3>2, ResolvedStable
  <2>2. ASSUME NEW e \in edges PROVE Stored(e.consumer)'
    <3>1. e.consumer \in MV /\ Stored(e.consumer)
      BY <2>2 DEF IInv, Typed, Edge, RowsOK
    <3> QED BY <3>1 DEF VersionsKept
  <2>3. \A mv \in MV : Stored(mv)' => \E index \in SUBSET MV : Resolved(mv, index)'
    BY <2>1
  <2> QED BY <2>2, <2>3 DEF RowsOK
<1> QED BY <1>2, <1>3, <1>4, <1>5 DEF IInv

-----------------------------------------------------------------------------
(* The initial state and the steps, one lemma for each. *)

LEMMA InvInit == Init => IInv
<1> SUFFICES ASSUME Init PROVE IInv
  OBVIOUS
<1> USE DEF Init
<1>1. \A mv \in MV : ~Stored(mv)
  BY DEF Stored
<1>2. Typed
  BY <1>1, DependencyAssumption DEF Typed
<1>3. RowsOK
  BY <1>1 DEF RowsOK
<1>4. \A mv \in MV : VersionOK(mv) /\ PublishOK(mv)
  BY <1>1 DEF VersionOK, PublishOK
<1>5. \A r \in Requests : RequestOK(r)
  BY DEF RequestOK, Running
<1> QED BY <1>2, <1>3, <1>4, <1>5 DEF IInv

\* An index holds stored versions of other modules.
LEMMA IndexShape ==
  ASSUME NEW m \in Modules
  PROVE  /\ ProviderIndex(m) \in SUBSET MV
         /\ \A p \in ProviderIndex(m) : Stored(p) /\ p[1] # m
BY DEF ProviderIndex, LatestPublished, VersionsOf, MV

\* Equal tables hold the same versions.
LEMMA VersionSame ==
  ASSUME UNCHANGED version
  PROVE  VersionsKept /\ \A mv : Stored(mv)' <=> Stored(mv)
BY DEF VersionsKept, Stored

LEMMA InvBeginPublish ==
  ASSUME IInv, NEW mv \in MV, NEW desc \in Descriptors, BeginPublish(mv, desc)
  PROVE  IInv'
<1> DEFINE known == {o \in MV : Stored(o)}
           new == [desc |-> desc, createdAt |-> now, knew |-> known, index |-> Null]
<1>1. /\ ~Stored(mv) /\ publish' = [publish EXCEPT ![mv] = new] /\ now' = now + 1 /\ now < MaxTime
      /\ UNCHANGED <<version, edges, unresolved, outbox, request>>
  BY DEF BeginPublish, graph
<1>2. Typed /\ now \in Nat /\ publish \in [MV -> Publish \cup {Null}]
  BY DEF IInv, Typed
<1>3. new \in Publish
  BY <1>2 DEF Publish
<1>4. publish' \in [MV -> Publish \cup {Null}] /\ publish'[mv] = new
      /\ \A o \in MV : o # mv => publish'[o] = publish[o]
  BY <1>1, <1>2, <1>3
<1>5. VersionsKept /\ \A o : Stored(o)' <=> Stored(o)
  BY <1>1, VersionSame
<1>6. Typed'
  BY <1>1, <1>2, <1>4, <1>5, DependencyAssumption DEF Typed
<1>7. KnewBefore(known, now)
  BY DEF KnewBefore, IInv, VersionOK
<1>8. PublishOK(mv)'
  <2>1. PICK K, t : K = known /\ t = now
    OBVIOUS
  <2>2. KnewBefore(K, t)'
    BY <1>1, <1>5, <1>7, <2>1 DEF KnewBefore
  <2>3. publish'[mv].knew = K /\ publish'[mv].createdAt = t /\ publish'[mv].index = Null
    BY <1>4, <2>1
  <2>4. t < now'
    BY <1>1, <1>2, <2>1
  <2> QED BY <1>1, <1>5, <2>2, <2>3, <2>4 DEF PublishOK
<1> QED BY <1>1, <1>2, <1>4, <1>5, <1>6, <1>8, Quiet

LEMMA InvReadIndex ==
  ASSUME IInv, NEW mv \in MV, ReadIndex(mv)
  PROVE  IInv'
<1> DEFINE index == ProviderIndex(mv[1])
           new == [publish[mv] EXCEPT !.index = index]
<1>1. /\ publish[mv] # Null /\ publish' = [publish EXCEPT ![mv] = new]
      /\ UNCHANGED <<version, edges, unresolved, outbox, now, request>>
  BY DEF ReadIndex, graph
<1>2. Typed /\ now \in Int /\ publish[mv] \in Publish /\ publish \in [MV -> Publish \cup {Null}]
  BY <1>1 DEF IInv, Typed
<1>3. index \in SUBSET MV /\ \A p \in index : Stored(p) /\ p[1] # mv[1]
  BY IndexShape DEF MV
<1> HIDE DEF index
<1>4. /\ new \in Publish /\ new.index = index
      /\ new.createdAt = publish[mv].createdAt /\ new.knew = publish[mv].knew
  BY <1>2, <1>3 DEF Publish
<1> HIDE DEF new
<1>5. publish' \in [MV -> Publish \cup {Null}] /\ publish'[mv] = new
      /\ \A o \in MV : o # mv => publish'[o] = publish[o]
  BY <1>1, <1>2, <1>4
<1>6. VersionsKept /\ \A o : Stored(o)' <=> Stored(o)
  BY <1>1, VersionSame
<1>7. Typed'
  BY <1>1, <1>2, <1>5, <1>6 DEF Typed
<1>8. PublishOK(mv)'
  <2>1. PICK K, t : K = publish[mv].knew /\ t = publish[mv].createdAt
    OBVIOUS
  <2>2. ~Stored(mv) /\ t < now /\ KnewBefore(K, t)
    BY <1>1, <2>1 DEF IInv, PublishOK
  <2>3. KnewBefore(K, t)'
    BY <1>1, <1>6, <2>2 DEF KnewBefore
  <2>4. publish'[mv].knew = K /\ publish'[mv].createdAt = t /\ publish'[mv].index = index
    BY <1>4, <1>5, <2>1
  <2> QED BY <1>1, <1>3, <1>6, <2>2, <2>3, <2>4 DEF PublishOK
<1> QED BY <1>1, <1>2, <1>5, <1>6, <1>7, <1>8, Quiet

LEMMA InvAbortPublish ==
  ASSUME IInv, NEW mv \in MV, AbortPublish(mv)
  PROVE  IInv'
<1>1. /\ publish' = [publish EXCEPT ![mv] = Null]
      /\ UNCHANGED <<version, edges, unresolved, outbox, now, request>>
  BY DEF AbortPublish, graph
<1>2. Typed /\ now \in Int /\ publish \in [MV -> Publish \cup {Null}]
  BY DEF IInv, Typed
<1>3. VersionsKept /\ \A o : Stored(o)' <=> Stored(o)
  BY <1>1, VersionSame
<1>4. Typed'
  BY <1>1, <1>2, <1>3 DEF Typed
<1>5. \A o \in MV : publish'[o] = publish[o] \/ PublishOK(o)'
  BY <1>1, <1>2 DEF PublishOK
<1> QED BY <1>1, <1>2, <1>3, <1>4, <1>5, Quiet

\* What each read changes in the answer.
LEMMA ReadUpstream ==
  ASSUME NEW a \in Answer, a.step = 1, NEW rows \in SUBSET Edge, rows = ListUpstreamByModule(a.module),
         NEW b, b = AfterRead(a)
  PROVE  b \in Answer /\ b.step = 2 /\ b.module = a.module /\ b.upstream = rows
<1>1. GraphReads[a.step] = "upstream" /\ GraphRead(a.module, "upstream") = rows
  BY ReadsInOrder DEF GraphRead
<1>2. b = [a EXCEPT !.step = @ + 1, !["upstream"] = rows]
  <2>1. b = [a EXCEPT !.step = @ + 1, ![GraphReads[a.step]] = GraphRead(a.module, GraphReads[a.step])]
    BY DEF AfterRead
  <2> QED BY <1>1, <2>1
<1>3. b = [a EXCEPT !.step = @ + 1, !.upstream = rows]
  BY ONLY <1>2, a \in Answer
<1>4. b.step = 2 /\ b.module = a.module /\ b.upstream = rows
  BY ONLY <1>3, a \in Answer, a.step = 1 DEF Answer
<1>5. b \in Answer
  <2>1. PICK n \in Nat : n = a.step + 1
    BY DEF Answer
  <2>2. b = [a EXCEPT !.step = n, !.upstream = rows]
    BY ONLY <1>3, <2>1
  <2> QED BY ONLY <2>2, a \in Answer, n \in Nat, rows \in SUBSET Edge DEF Answer
<1> QED BY <1>4, <1>5

LEMMA ReadDownstream ==
  ASSUME NEW a \in Answer, a.step = 2, NEW rows \in SUBSET Edge, rows = ListDownstreamByModule(a.module),
         NEW b, b = AfterRead(a)
  PROVE  b \in Answer /\ b.step = 3 /\ b.module = a.module /\ b.upstream = a.upstream
<1>1. GraphReads[a.step] = "downstream" /\ GraphRead(a.module, "downstream") = rows
  BY ReadsInOrder DEF GraphRead
<1>2. b = [a EXCEPT !.step = @ + 1, !["downstream"] = rows]
  <2>1. b = [a EXCEPT !.step = @ + 1, ![GraphReads[a.step]] = GraphRead(a.module, GraphReads[a.step])]
    BY DEF AfterRead
  <2> QED BY <1>1, <2>1
<1>3. b = [a EXCEPT !.step = @ + 1, !.downstream = rows]
  BY ONLY <1>2, a \in Answer
<1>4. b.step = 3 /\ b.module = a.module /\ b.upstream = a.upstream
  BY ONLY <1>3, a \in Answer, a.step = 2 DEF Answer
<1>5. b \in Answer
  <2>1. PICK n \in Nat : n = a.step + 1
    BY DEF Answer
  <2>2. b = [a EXCEPT !.step = n, !.downstream = rows]
    BY ONLY <1>3, <2>1
  <2> QED BY ONLY <2>2, a \in Answer, n \in Nat, rows \in SUBSET Edge DEF Answer
<1> QED BY <1>4, <1>5

LEMMA ReadUnresolved ==
  ASSUME NEW a \in Answer, a.step = 3, NEW rows \in SUBSET Entry, rows = ListUnresolvedByModule(a.module),
         NEW b, b = AfterRead(a)
  PROVE  b \in Answer /\ b.step = 4 /\ b.module = a.module /\ b.upstream = a.upstream /\ b.unresolved = rows
<1>1. GraphReads[a.step] = "unresolved" /\ GraphRead(a.module, "unresolved") = rows
  BY ReadsInOrder DEF GraphRead
<1>2. b = [a EXCEPT !.step = @ + 1, !["unresolved"] = rows]
  <2>1. b = [a EXCEPT !.step = @ + 1, ![GraphReads[a.step]] = GraphRead(a.module, GraphReads[a.step])]
    BY DEF AfterRead
  <2> QED BY <1>1, <2>1
<1>3. b = [a EXCEPT !.step = @ + 1, !.unresolved = rows]
  BY ONLY <1>2, a \in Answer
<1>4. b.step = 4 /\ b.module = a.module /\ b.upstream = a.upstream /\ b.unresolved = rows
  BY ONLY <1>3, a \in Answer, a.step = 3 DEF Answer
<1>5. b \in Answer
  <2>1. PICK n \in Nat : n = a.step + 1
    BY DEF Answer
  <2>2. b = [a EXCEPT !.step = n, !.unresolved = rows]
    BY ONLY <1>3, <2>1
  <2> QED BY ONLY <2>2, a \in Answer, n \in Nat, rows \in SUBSET Entry DEF Answer
<1> QED BY <1>4, <1>5

\* The rows of a module are its versions' rows.
LEMMA ListShape ==
  ASSUME Typed, NEW m
  PROVE  /\ ListUpstreamByModule(m) \in SUBSET Edge
         /\ ListDownstreamByModule(m) \in SUBSET Edge
         /\ ListUnresolvedByModule(m) \in SUBSET Entry
         /\ \A e \in ListUpstreamByModule(m) :
              e \in edges /\ e.consumer[1] = m /\ EdgesOf(e.consumer) \subseteq ListUpstreamByModule(m)
         /\ \A mv : mv[1] = m => EntriesOf(mv) \subseteq ListUnresolvedByModule(m)
BY DEF Typed, ListUpstreamByModule, ListDownstreamByModule, ListUnresolvedByModule, EdgesOf, EntriesOf

\* A read leaves the answer whole.
LEMMA ReadWhole ==
  ASSUME IInv, NEW a \in Answer, a.step \in 1 .. 3, a.step = 1 => a.upstream = {},
         \A e \in a.upstream : Stored(e.consumer) /\ e.consumer[1] = a.module
                               /\ EdgesOf(e.consumer) \subseteq a.upstream,
         NEW b, b = AfterRead(a)
  PROVE  /\ b \in Answer /\ b.step \in 2 .. 4
         /\ \A e \in b.upstream :
              /\ Stored(e.consumer) /\ e.consumer[1] = b.module
              /\ EdgesOf(e.consumer) \subseteq b.upstream
              /\ b.step = 4 => EntriesOf(e.consumer) \subseteq b.unresolved
<1>1. Typed /\ \A e \in edges : Stored(e.consumer)
  BY DEF IInv, RowsOK
<1>2. CASE a.step = 1
  <2>1. PICK up \in SUBSET Edge : up = ListUpstreamByModule(a.module)
    BY <1>1, ListShape
  <2>2. b \in Answer /\ b.step = 2 /\ b.upstream = up /\ b.module = a.module
    BY <1>2, <2>1, ReadUpstream
  <2>3. \A e \in up : e \in edges /\ e.consumer[1] = a.module /\ EdgesOf(e.consumer) \subseteq up
    BY <1>1, <2>1, ListShape
  <2> QED BY <1>1, <2>2, <2>3
<1>3. CASE a.step = 2
  <2>1. PICK down \in SUBSET Edge : down = ListDownstreamByModule(a.module)
    BY <1>1, ListShape
  <2>2. b \in Answer /\ b.step = 3 /\ b.upstream = a.upstream /\ b.module = a.module
    BY <1>3, <2>1, ReadDownstream
  <2> QED BY <2>2
<1>4. CASE a.step = 3
  <2>1. PICK left \in SUBSET Entry : left = ListUnresolvedByModule(a.module)
    BY <1>1, ListShape
  <2>2. b \in Answer /\ b.step = 4 /\ b.upstream = a.upstream /\ b.module = a.module /\ b.unresolved = left
    BY <1>4, <2>1, ReadUnresolved
  <2>3. \A mv : mv[1] = a.module => EntriesOf(mv) \subseteq left
    BY <1>1, <2>1, ListShape
  <2> QED BY <2>2, <2>3
<1> QED BY <1>2, <1>3, <1>4

\* A step of a request that writes no row.
LEMMA QuietRequest ==
  ASSUME IInv, NEW r \in Requests, NEW new \in Answer \cup Rebuild \cup {Null},
         request' = [request EXCEPT ![r] = new],
         UNCHANGED <<version, edges, unresolved, outbox, now, publish>>,
         RequestOK(r)'
  PROVE  IInv'
<1>1. Typed /\ now \in Int
  BY DEF IInv, Typed
<1>2. VersionsKept /\ \A o : Stored(o)' <=> Stored(o)
  BY VersionSame
<1>3. Typed' /\ \A s \in Requests : s # r => request'[s] = request[s]
  BY <1>1, <1>2 DEF Typed
<1> QED BY <1>1, <1>2, <1>3, Quiet

LEMMA InvBeginRebuild ==
  ASSUME IInv, NEW r \in Requests, NEW mv \in MV, BeginRebuild(r, mv)
  PROVE  IInv'
<1>1. PICK index \in SUBSET MV : index = ProviderIndex(mv[1])
  BY IndexShape DEF MV
<1> DEFINE new == [op |-> "rebuild", consumer |-> mv, index |-> index]
<1>2. /\ Stored(mv) /\ request' = [request EXCEPT ![r] = new]
      /\ UNCHANGED <<version, edges, unresolved, outbox, now, publish>>
  BY <1>1 DEF BeginRebuild, graph
<1>3. new \in Rebuild
  BY DEF Rebuild
<1>4. request'[r] = new
  BY <1>2 DEF IInv, Typed
<1>5. RequestOK(r)'
  BY <1>2, <1>4 DEF RequestOK, Running, Stored
<1> HIDE DEF new
<1> QED BY <1>2, <1>3, <1>5, QuietRequest

\* A version stored before has its outbox record, so the rebuild is undone.
LEMMA InvEndRebuild ==
  ASSUME IInv, NEW r \in Requests, EndRebuild(r)
  PROVE  IInv' /\ UNCHANGED <<edges, unresolved>>
<1>1. Running(r, "rebuild") /\ request[r] \in Rebuild
  BY DEF EndRebuild, Running, IInv, Typed, Answer
<1>2. request[r].consumer \in outbox
  BY <1>1 DEF IInv, Typed, RequestOK, Rebuild
<1>3. /\ request' = [request EXCEPT ![r] = Null]
      /\ UNCHANGED <<version, edges, unresolved, outbox, now, publish>>
  BY <1>2 DEF EndRebuild, StoreResolved, graph
<1>4. request'[r] = Null
  BY <1>3 DEF IInv, Typed
<1>5. RequestOK(r)'
  BY <1>4 DEF RequestOK, Running
<1> QED BY <1>3, <1>5, QuietRequest

\* The answer of a read, put in place.
LEMMA RequestRead ==
  ASSUME IInv, NEW r \in Requests, NEW b \in Answer, b.step \in 2 .. 4,
         \A e \in b.upstream :
           /\ Stored(e.consumer) /\ e.consumer[1] = b.module
           /\ EdgesOf(e.consumer) \subseteq b.upstream
           /\ b.step = 4 => EntriesOf(e.consumer) \subseteq b.unresolved,
         request' = [request EXCEPT ![r] = b],
         UNCHANGED <<version, edges, unresolved, outbox, now, publish>>
  PROVE  IInv'
<1>1. request'[r] = b
  BY DEF IInv, Typed
<1>2. b.op = "graph"
  BY DEF Answer
<1>3. RequestOK(r)'
  <2>1. ~Running(r, "rebuild")'
    BY <1>1, <1>2 DEF Running
  <2>2. \A mv : (Stored(mv)' <=> Stored(mv)) /\ EdgesOf(mv)' = EdgesOf(mv) /\ EntriesOf(mv)' = EntriesOf(mv)
    BY DEF Stored, EdgesOf, EntriesOf
  <2>3. \A e \in b.upstream :
           /\ Stored(e.consumer)' /\ e.consumer[1] = b.module
           /\ EdgesOf(e.consumer)' \subseteq b.upstream
           /\ b.step = 4 => EntriesOf(e.consumer)' \subseteq b.unresolved
    BY <2>2
  <2> QED BY <1>1, <2>1, <2>3 DEF RequestOK
<1> QED BY <1>3, QuietRequest

LEMMA InvBeginGraph ==
  ASSUME IInv, NEW r \in Requests, NEW m \in Modules, BeginGraph(r, m)
  PROVE  IInv'
<1> DEFINE a == NoAnswer(m)
<1>1. a \in Answer /\ a.step = 1 /\ a.upstream = {}
  BY DEF NoAnswer, Answer
<1> HIDE DEF a
<1>2. PICK b : b = AfterRead(a)
  OBVIOUS
<1>3. /\ request' = [request EXCEPT ![r] = b]
      /\ UNCHANGED <<version, edges, unresolved, outbox, now, publish>>
  BY <1>2 DEF BeginGraph, graph, a
<1>4. /\ b \in Answer /\ b.step \in 2 .. 4
      /\ \A e \in b.upstream :
           /\ Stored(e.consumer) /\ e.consumer[1] = b.module
           /\ EdgesOf(e.consumer) \subseteq b.upstream
           /\ b.step = 4 => EntriesOf(e.consumer) \subseteq b.unresolved
  <2>1. \A e \in a.upstream : Stored(e.consumer) /\ e.consumer[1] = a.module
                               /\ EdgesOf(e.consumer) \subseteq a.upstream
    BY <1>1
  <2>2. a.step \in 1 .. 3 /\ (a.step = 1 => a.upstream = {})
    BY <1>1
  <2> QED BY <1>1, <1>2, <2>1, <2>2, ReadWhole
<1> QED BY <1>3, <1>4, RequestRead

LEMMA InvReadGraph ==
  ASSUME IInv, NEW r \in Requests, ReadGraph(r)
  PROVE  IInv'
<1>1. Running(r, "graph") /\ request[r] \in Answer
  BY DEF ReadGraph, Running, IInv, Typed, Rebuild
<1>2. PICK a, b : a = request[r] /\ b = AfterRead(a) /\ a \in Answer
  BY <1>1
<1>3. /\ request' = [request EXCEPT ![r] = b]
      /\ UNCHANGED <<version, edges, unresolved, outbox, now, publish>>
  BY <1>2 DEF ReadGraph, graph
<1>4. a.step \in 2 .. 3
  BY <1>1, <1>2, ReadsInOrder DEF ReadGraph, IInv, RequestOK
<1>5. \A e \in a.upstream : Stored(e.consumer) /\ e.consumer[1] = a.module
                             /\ EdgesOf(e.consumer) \subseteq a.upstream
  BY <1>1, <1>2 DEF IInv, RequestOK
<1>6. /\ b \in Answer /\ b.step \in 2 .. 4
      /\ \A e \in b.upstream :
           /\ Stored(e.consumer) /\ e.consumer[1] = b.module
           /\ EdgesOf(e.consumer) \subseteq b.upstream
           /\ b.step = 4 => EntriesOf(e.consumer) \subseteq b.unresolved
  BY <1>2, <1>4, <1>5, ReadWhole
<1> QED BY <1>3, <1>6, RequestRead

LEMMA InvEndGraph ==
  ASSUME IInv, NEW r \in Requests, EndGraph(r)
  PROVE  IInv'
<1>1. /\ request' = [request EXCEPT ![r] = Null]
      /\ UNCHANGED <<version, edges, unresolved, outbox, now, publish>>
  BY DEF EndGraph, graph
<1>2. request'[r] = Null
  BY <1>1 DEF IInv, Typed
<1>3. RequestOK(r)'
  BY <1>2 DEF RequestOK, Running
<1> QED BY <1>1, <1>3, QuietRequest

\* The rows after a replacement are the new ones and those of the other versions.
LEMMA CommitShape ==
  ASSUME IInv, NEW mv \in MV, CommitPublish(mv),
         NEW desc, NEW index, desc = publish[mv].desc, index = publish[mv].index
  PROVE  /\ ~Stored(mv) /\ desc \in Descriptors /\ index \in SUBSET MV
         /\ \A p \in index : Stored(p) /\ p[1] # mv[1]
         /\ edges' = {e \in edges : e.consumer # mv} \cup Dependencies(mv, desc, index)
         /\ unresolved' = {u \in unresolved : u.consumer # mv} \cup Unresolved(mv, desc, index)
         /\ outbox' = outbox \cup {mv}
<1>1. publish[mv] # Null /\ publish[mv].index # Null /\ StoreResolved(mv, desc, index)
  BY DEF CommitPublish
<1>2. publish[mv] \in Publish
  BY <1>1 DEF IInv, Typed
<1>3. desc \in Descriptors /\ index \in SUBSET MV
  BY <1>1, <1>2 DEF Publish
<1>4. ~Stored(mv) /\ \A p \in index : Stored(p) /\ p[1] # mv[1]
  BY <1>1 DEF IInv, PublishOK
<1>5. mv \notin outbox
  BY <1>4 DEF IInv, Typed
<1> QED BY <1>1, <1>3, <1>4, <1>5 DEF StoreResolved, ReplaceByConsumerModuleVersion

LEMMA CommitKeeps ==
  ASSUME IInv, NEW mv \in MV, CommitPublish(mv)
  PROVE  /\ VersionsKept
         /\ \A o \in MV : o # mv =>
              /\ version'[o] = version[o] /\ publish'[o] = publish[o] /\ (Stored(o)' <=> Stored(o))
              /\ EdgesOf(o)' = EdgesOf(o) /\ EntriesOf(o)' = EntriesOf(o)
<1>1. PICK desc, index : desc = publish[mv].desc /\ index = publish[mv].index
  OBVIOUS
<1>2. /\ ~Stored(mv)
      /\ edges' = {e \in edges : e.consumer # mv} \cup Dependencies(mv, desc, index)
      /\ unresolved' = {u \in unresolved : u.consumer # mv} \cup Unresolved(mv, desc, index)
  BY <1>1, CommitShape
<1>3. \A o \in MV : o # mv => version'[o] = version[o] /\ publish'[o] = publish[o]
  BY DEF CommitPublish, IInv, Typed
<1>4. \A o \in MV : o # mv => (Stored(o)' <=> Stored(o))
  BY <1>3 DEF Stored
<1>5. VersionsKept
  BY <1>2, <1>3, <1>4 DEF VersionsKept
<1>6. /\ \A e \in Dependencies(mv, desc, index) : e.consumer = mv
      /\ \A u \in Unresolved(mv, desc, index) : u.consumer = mv
  BY ResolutionOwned
<1>7. \A o \in MV : o # mv => EdgesOf(o)' = EdgesOf(o) /\ EntriesOf(o)' = EntriesOf(o)
  <2>1. ASSUME NEW o \in MV, o # mv PROVE EdgesOf(o)' = EdgesOf(o)
    BY <1>2, <1>6, <2>1 DEF EdgesOf
  <2>2. ASSUME NEW o \in MV, o # mv PROVE EntriesOf(o)' = EntriesOf(o)
    BY <1>2, <1>6, <2>2 DEF EntriesOf
  <2> QED BY <2>1, <2>2
<1> QED BY <1>3, <1>4, <1>5, <1>7

LEMMA InvCommitPublish ==
  ASSUME IInv, NEW mv \in MV, CommitPublish(mv)
  PROVE  IInv'
<1>1. PICK desc, index, at, known :
        desc = publish[mv].desc /\ index = publish[mv].index
        /\ at = publish[mv].createdAt /\ known = publish[mv].knew
  OBVIOUS
<1> DEFINE new == [desc |-> desc, createdAt |-> at, knew |-> known]
<1>2. /\ ~Stored(mv) /\ desc \in Descriptors /\ index \in SUBSET MV
      /\ \A p \in index : Stored(p) /\ p[1] # mv[1]
      /\ edges' = {e \in edges : e.consumer # mv} \cup Dependencies(mv, desc, index)
      /\ unresolved' = {u \in unresolved : u.consumer # mv} \cup Unresolved(mv, desc, index)
      /\ outbox' = outbox \cup {mv}
  BY <1>1, CommitShape
<1>3. /\ VersionsKept
      /\ \A o \in MV : o # mv =>
           /\ version'[o] = version[o] /\ publish'[o] = publish[o] /\ (Stored(o)' <=> Stored(o))
           /\ EdgesOf(o)' = EdgesOf(o) /\ EntriesOf(o)' = EntriesOf(o)
  BY CommitKeeps
<1>4. /\ version' = [version EXCEPT ![mv] = new] /\ publish' = [publish EXCEPT ![mv] = Null]
      /\ UNCHANGED <<now, request>>
  BY <1>1 DEF CommitPublish
<1>5. publish[mv] # Null /\ publish[mv] \in Publish
  BY DEF IInv, Typed, CommitPublish
<1>6. new \in VersionRow /\ at \in Nat /\ known \in SUBSET MV
  BY <1>1, <1>2, <1>5 DEF VersionRow, Publish
<1>7. at < now /\ KnewBefore(known, at)
  BY <1>1, <1>5 DEF IInv, PublishOK
<1>8. new.desc = desc /\ new.createdAt = at /\ new.knew = known
  OBVIOUS
<1> HIDE DEF new
<1>9. new # Null /\ version'[mv] = new /\ publish'[mv] = Null /\ Stored(mv)'
  BY <1>4, <1>6, DependencyAssumption DEF IInv, Typed, Stored
<1>10. Typed'
  <2>1. version' \in [MV -> VersionRow \cup {Null}] /\ publish' \in [MV -> Publish \cup {Null}]
    BY <1>4, <1>6 DEF IInv, Typed
  <2>2. Dependencies(mv, desc, index) \subseteq Edge /\ Unresolved(mv, desc, index) \subseteq Entry
    BY <1>2, ResolutionTyped
  <2>3. edges' \subseteq Edge /\ unresolved' \subseteq Entry
    BY <1>2, <2>2 DEF IInv, Typed
  <2>4. outbox' = {o \in MV : Stored(o)'}
    BY <1>2, <1>3, <1>9 DEF IInv, Typed
  <2> QED BY <1>4, <2>1, <2>3, <2>4 DEF IInv, Typed
<1>11. \A o \in MV : VersionOK(o)'
  <2>1. KnewBefore(known, at)'
    BY <1>3, <1>6, <1>7, KnewBeforeStable DEF IInv
  <2>2. VersionOK(mv)'
    BY <1>4, <1>7, <1>8, <1>9, <2>1 DEF VersionOK
  <2>3. ASSUME NEW o \in MV, o # mv PROVE VersionOK(o)'
    <3>1. CASE Stored(o)
      <4>1. now \in Int /\ now <= now'
        BY <1>4 DEF IInv, Typed
      <4> QED BY <1>3, <1>10, <3>1, <4>1, VersionStable DEF IInv
    <3>2. CASE ~Stored(o)
      BY <1>3, <2>3, <3>2 DEF VersionOK
    <3> QED BY <3>1, <3>2
  <2> QED BY <2>2, <2>3
<1>12. \A o \in MV : PublishOK(o)'
  <2>1. PublishOK(mv)'
    BY <1>9 DEF PublishOK
  <2>2. now \in Int /\ now <= now'
    BY <1>4 DEF IInv, Typed
  <2>3. ASSUME NEW o \in MV, o # mv PROVE PublishOK(o)'
    BY <1>3, <1>10, <2>2, <2>3, PublishStable DEF IInv
  <2> QED BY <2>1, <2>3
<1>13. \A o \in MV : Stored(o) => EdgesOf(o)' = EdgesOf(o) /\ EntriesOf(o)' = EntriesOf(o)
  BY <1>2, <1>3
<1>14. \A r \in Requests : RequestOK(r)'
  BY <1>3, <1>4, <1>13, RequestStable DEF IInv
<1>15. Resolved(mv, index)'
  <2>1. /\ Dependencies(mv, desc, index)' = Dependencies(mv, desc, index)
        /\ Unresolved(mv, desc, index)' = Unresolved(mv, desc, index)
    BY <1>2, <1>3, ResolutionStable
  <2>2. /\ \A e \in Dependencies(mv, desc, index) : e.consumer = mv
        /\ \A u \in Unresolved(mv, desc, index) : u.consumer = mv
    BY ResolutionOwned
  <2>3. /\ EdgesOf(mv)' = Dependencies(mv, desc, index)
        /\ EntriesOf(mv)' = Unresolved(mv, desc, index)
    BY <1>2, <2>2 DEF EdgesOf, EntriesOf
  <2>4. \A p \in index : Stored(p)' /\ p[1] # mv[1] /\ mv \notin version'[p].knew
    BY <1>2, <1>3 DEF VersionsKept, IInv, VersionOK, KnewBefore
  <2>5. version'[mv].desc = desc
    BY <1>8, <1>9
  <2>6. /\ EdgesOf(mv)' = Dependencies(mv, version[mv].desc, index)'
        /\ EntriesOf(mv)' = Unresolved(mv, version[mv].desc, index)'
    BY <2>1, <2>3, <2>5
  <2> QED BY <2>4, <2>6 DEF Resolved
<1>16. RowsOK'
  <2>1. ASSUME NEW o \in MV, Stored(o)' PROVE \E I \in SUBSET MV : Resolved(o, I)'
    <3>1. CASE o = mv
      BY <1>2, <1>15, <3>1
    <3>2. CASE o # mv
      <4>1. Stored(o)
        BY <1>3, <2>1, <3>2
      <4>2. PICK I \in SUBSET MV : Resolved(o, I)
        BY <4>1 DEF IInv, RowsOK
      <4> QED BY <1>3, <1>13, <4>1, <4>2, ResolvedStable
    <3> QED BY <3>1, <3>2
  <2>2. ASSUME NEW e \in edges' PROVE Stored(e.consumer)'
    <3>1. CASE e \in edges
      <4>1. e.consumer \in MV /\ Stored(e.consumer)
        BY <3>1 DEF IInv, Typed, Edge, RowsOK
      <4> QED BY <1>3, <4>1 DEF VersionsKept
    <3>2. CASE e \in Dependencies(mv, desc, index)
      <4>1. e.consumer = mv
        BY <3>2, ResolutionOwned
      <4> QED BY <1>9, <4>1
    <3> QED BY <1>2, <2>2, <3>1, <3>2
  <2>3. \A o \in MV : Stored(o)' => \E I \in SUBSET MV : Resolved(o, I)'
    BY <2>1
  <2> QED BY <2>2, <2>3 DEF RowsOK
<1> QED BY <1>10, <1>11, <1>12, <1>14, <1>16 DEF IInv

LEMMA Stutter ==
  ASSUME IInv, UNCHANGED vars
  PROVE  IInv'
<1>1. UNCHANGED <<version, edges, unresolved, outbox, now, publish, request>>
  BY DEF vars, graph
<1>2. Typed /\ now \in Int
  BY DEF IInv, Typed
<1>3. VersionsKept /\ \A o : Stored(o)' <=> Stored(o)
  BY <1>1, VersionSame
<1>4. Typed'
  BY <1>1, <1>2, <1>3 DEF Typed
<1> QED BY <1>1, <1>2, <1>3, <1>4, Quiet

\* Every step is one of the actions.
LEMMA InvNext ==
  ASSUME IInv, [Next]_vars
  PROVE  IInv'
<1>1. ASSUME NEW mv \in MV, NEW desc \in Descriptors, BeginPublish(mv, desc) PROVE IInv'
  BY <1>1, InvBeginPublish
<1>2. ASSUME NEW mv \in MV, ReadIndex(mv) PROVE IInv'
  BY <1>2, InvReadIndex
<1>3. ASSUME NEW mv \in MV, CommitPublish(mv) PROVE IInv'
  BY <1>3, InvCommitPublish
<1>4. ASSUME NEW mv \in MV, AbortPublish(mv) PROVE IInv'
  BY <1>4, InvAbortPublish
<1>5. ASSUME NEW r \in Requests, NEW mv \in MV, BeginRebuild(r, mv) PROVE IInv'
  BY <1>5, InvBeginRebuild
<1>6. ASSUME NEW r \in Requests, EndRebuild(r) PROVE IInv'
  BY <1>6, InvEndRebuild
<1>7. ASSUME NEW r \in Requests, NEW m \in Modules, BeginGraph(r, m) PROVE IInv'
  BY <1>7, InvBeginGraph
<1>8. ASSUME NEW r \in Requests, ReadGraph(r) PROVE IInv'
  BY <1>8, InvReadGraph
<1>9. ASSUME NEW r \in Requests, EndGraph(r) PROVE IInv'
  BY <1>9, InvEndGraph
<1>10. CASE UNCHANGED vars
  BY <1>10, Stutter
<1> QED BY <1>1, <1>2, <1>3, <1>4, <1>5, <1>6, <1>7, <1>8, <1>9, <1>10 DEF Next

-----------------------------------------------------------------------------
(* What the invariant says. *)

\* An external reference of a stored version has one edge or one entry.
LEMMA OneRow ==
  ASSUME IInv, NEW mv \in MV, Stored(mv), NEW ref \in External(version[mv].desc)
  PROVE  \/ \E row : EdgesFor(mv, ref) = {row} /\ EntriesFor(mv, ref) = {}
         \/ \E row : EdgesFor(mv, ref) = {} /\ EntriesFor(mv, ref) = {row}
<1>1. PICK desc : desc = version[mv].desc
  OBVIOUS
<1>2. PICK index \in SUBSET MV : Resolved(mv, index)
  BY DEF IInv, RowsOK
<1>3. /\ EdgesOf(mv) = Dependencies(mv, desc, index)
      /\ EntriesOf(mv) = Unresolved(mv, desc, index)
  BY <1>1, <1>2 DEF Resolved
<1>4. ASSUME NEW e \in EdgesFor(mv, ref)
      PROVE  /\ Cardinality(Providers(ref, index)) = 1
             /\ e = [consumer |-> mv, provider |-> CHOOSE p \in Providers(ref, index) : TRUE,
                     source |-> ref.source, name |-> ref.name]
  <2>1. e \in Dependencies(mv, desc, index) /\ e.source = ref.source /\ e.name = ref.name
    BY <1>3 DEF EdgesFor, EdgesOf
  <2>2. PICK other \in External(desc) :
          /\ Cardinality(Providers(other, index)) = 1
          /\ e = [consumer |-> mv, provider |-> CHOOSE p \in Providers(other, index) : TRUE,
                  source |-> other.source, name |-> other.name]
    BY <2>1, DependencyShape
  <2>3. other.source = ref.source /\ other.name = ref.name
    BY <2>1, <2>2
  <2>4. Providers(other, index) = Providers(ref, index)
    BY <2>3, ProvidersSame
  <2> QED BY <2>2, <2>3, <2>4
<1>5. ASSUME NEW u \in EntriesFor(mv, ref)
      PROVE  /\ Cardinality(Providers(ref, index)) # 1
             /\ u = [consumer |-> mv, ref |-> ref,
                     reason |-> IF Providers(ref, index) = {} THEN "provider_not_found"
                                ELSE "ambiguous_provider"]
  <2>1. u \in Unresolved(mv, desc, index) /\ u.ref = ref
    BY <1>3 DEF EntriesFor, EntriesOf
  <2>2. PICK other \in External(desc) :
          /\ Cardinality(Providers(other, index)) # 1
          /\ u = [consumer |-> mv, ref |-> other,
                  reason |-> IF Providers(other, index) = {} THEN "provider_not_found"
                             ELSE "ambiguous_provider"]
    BY <2>1, UnresolvedShape
  <2>3. other = ref
    BY <2>1, <2>2
  <2> QED BY <2>2, <2>3
<1>6. CASE Cardinality(Providers(ref, index)) = 1
  <2>1. PICK row : row = [consumer |-> mv, provider |-> CHOOSE p \in Providers(ref, index) : TRUE,
                          source |-> ref.source, name |-> ref.name]
    OBVIOUS
  <2>2. row \in Dependencies(mv, desc, index)
    BY <1>1, <1>6, <2>1, DependencyShape
  <2>3. row \in EdgesFor(mv, ref)
    BY <1>3, <2>1, <2>2 DEF EdgesFor, EdgesOf
  <2>4. EdgesFor(mv, ref) = {row}
    BY <1>4, <2>1, <2>3
  <2>5. EntriesFor(mv, ref) = {}
    BY <1>5, <1>6
  <2> QED BY <2>4, <2>5
<1>7. CASE Cardinality(Providers(ref, index)) # 1
  <2>1. PICK row : row = [consumer |-> mv, ref |-> ref,
                          reason |-> IF Providers(ref, index) = {} THEN "provider_not_found"
                                     ELSE "ambiguous_provider"]
    OBVIOUS
  <2>2. row \in Unresolved(mv, desc, index)
    BY <1>1, <1>7, <2>1, UnresolvedShape
  <2>3. row.consumer = mv /\ row.ref = ref
    BY <2>1
  <2>4. row \in EntriesFor(mv, ref)
    BY <1>3, <2>2, <2>3 DEF EntriesFor, EntriesOf
  <2>5. EntriesFor(mv, ref) = {row}
    BY <1>5, <2>1, <2>4
  <2>6. EdgesFor(mv, ref) = {}
    BY <1>4, <1>7
  <2> QED BY <2>5, <2>6
<1> QED BY <1>6, <1>7

\* The rows of a stored version all belong to external references.
LEMMA NoOtherRow ==
  ASSUME IInv, NEW mv \in MV, Stored(mv)
  PROVE  /\ EdgesOf(mv) = UNION {EdgesFor(mv, ref) : ref \in External(version[mv].desc)}
         /\ EntriesOf(mv) = UNION {EntriesFor(mv, ref) : ref \in External(version[mv].desc)}
<1>1. PICK external, desc : desc = version[mv].desc /\ external = External(desc)
  OBVIOUS
<1>2. PICK index \in SUBSET MV : Resolved(mv, index)
  BY DEF IInv, RowsOK
<1>3. /\ EdgesOf(mv) = Dependencies(mv, desc, index)
      /\ EntriesOf(mv) = Unresolved(mv, desc, index)
  BY <1>1, <1>2 DEF Resolved
<1>4. ASSUME NEW e \in EdgesOf(mv) PROVE \E ref \in external : e \in EdgesFor(mv, ref)
  <2>1. PICK ref \in external :
          e = [consumer |-> mv, provider |-> CHOOSE p \in Providers(ref, index) : TRUE,
               source |-> ref.source, name |-> ref.name]
    BY <1>1, <1>3, DependencyShape
  <2>2. e.source = ref.source /\ e.name = ref.name
    BY <2>1
  <2> QED BY <2>2 DEF EdgesFor, EdgesOf
<1>5. ASSUME NEW u \in EntriesOf(mv) PROVE \E ref \in external : u \in EntriesFor(mv, ref)
  <2>1. PICK ref \in external :
          u = [consumer |-> mv, ref |-> ref,
               reason |-> IF Providers(ref, index) = {} THEN "provider_not_found"
                          ELSE "ambiguous_provider"]
    BY <1>1, <1>3, UnresolvedShape
  <2>2. u.ref = ref
    BY <2>1
  <2> QED BY <2>2 DEF EntriesFor, EntriesOf
<1>6. \A ref : EdgesFor(mv, ref) \subseteq EdgesOf(mv) /\ EntriesFor(mv, ref) \subseteq EntriesOf(mv)
  BY DEF EdgesFor, EntriesFor, EdgesOf, EntriesOf
<1>7. EdgesOf(mv) = UNION {EdgesFor(mv, ref) : ref \in external}
  BY <1>4, <1>6
<1>8. EntriesOf(mv) = UNION {EntriesFor(mv, ref) : ref \in external}
  BY <1>5, <1>6
<1> QED BY <1>1, <1>7, <1>8

LEMMA EdgesSound ==
  ASSUME IInv, NEW e \in edges PROVE EdgeSound(e)
<1>1. PICK mv \in MV : mv = e.consumer /\ Stored(mv)
  BY DEF IInv, Typed, Edge, RowsOK
<1>2. PICK index \in SUBSET MV : Resolved(mv, index)
  BY <1>1 DEF IInv, RowsOK
<1>3. e \in Dependencies(mv, version[mv].desc, index)
  BY <1>1, <1>2 DEF Resolved, EdgesOf
<1>4. e.provider \in index /\ Defines(version[e.provider].desc, [source |-> e.source, name |-> e.name])
  BY <1>3, DependencyProvider
<1>5. Stored(e.provider) /\ e.provider[1] # mv[1] /\ mv \notin version[e.provider].knew
  BY <1>2, <1>4 DEF Resolved
<1> QED BY <1>1, <1>4, <1>5 DEF EdgeSound

LEMMA Accounted ==
  ASSUME IInv PROVE ReferencesAccounted
<1>1. ASSUME NEW mv \in MV, Stored(mv), NEW ref \in External(version[mv].desc)
      PROVE  Cardinality(EdgesFor(mv, ref)) + Cardinality(EntriesFor(mv, ref)) = 1
  <2>1. Cardinality({}) = 0 /\ \A row : Cardinality({row}) = 1
    BY FS_EmptySet, FS_Singleton
  <2>2. \/ \E row : EdgesFor(mv, ref) = {row} /\ EntriesFor(mv, ref) = {}
        \/ \E row : EdgesFor(mv, ref) = {} /\ EntriesFor(mv, ref) = {row}
    BY <1>1, OneRow
  <2>3. \/ Cardinality(EdgesFor(mv, ref)) = 1 /\ Cardinality(EntriesFor(mv, ref)) = 0
        \/ Cardinality(EdgesFor(mv, ref)) = 0 /\ Cardinality(EntriesFor(mv, ref)) = 1
    BY ONLY <2>1, <2>2, Zenon
  <2> QED BY <2>3
<1>2. ASSUME NEW mv \in MV, Stored(mv)
      PROVE  /\ {e \in edges : e.consumer = mv} = UNION {EdgesFor(mv, ref) : ref \in External(version[mv].desc)}
             /\ {u \in unresolved : u.consumer = mv} = UNION {EntriesFor(mv, ref) : ref \in External(version[mv].desc)}
  BY <1>2, NoOtherRow DEF EdgesOf, EntriesOf
<1>3. \A e \in edges : EdgeSound(e)
  BY EdgesSound
<1>4. ASSUME NEW mv \in MV, Stored(mv), NEW external, external = External(version[mv].desc)
      PROVE  /\ \A ref \in external :
                  Cardinality(EdgesFor(mv, ref)) + Cardinality(EntriesFor(mv, ref)) = 1
             /\ {e \in edges : e.consumer = mv} = UNION {EdgesFor(mv, ref) : ref \in external}
             /\ {u \in unresolved : u.consumer = mv} = UNION {EntriesFor(mv, ref) : ref \in external}
  BY <1>1, <1>2, <1>4
<1> QED BY <1>3, <1>4, Zenon DEF ReferencesAccounted

LEMMA AffectedReported ==
  ASSUME IInv PROVE AffectedOrReported
<1> SUFFICES ASSUME NEW provider \in Modules, NEW consumer \in Modules,
                    NEW pv \in LatestPublished(provider), NEW cv \in LatestPublished(consumer),
                    NEW ref \in External(version[cv].desc),
                    consumer \notin ListAffectedModules(provider, {cv}), EntriesFor(cv, ref) = {}
             PROVE  \E e \in EdgesFor(cv, ref) : e.provider[1] # provider
  BY DEF AffectedOrReported
<1>1. cv \in MV /\ Stored(cv) /\ cv[1] = consumer
  BY DEF LatestPublished, VersionsOf, MV
<1>2. PICK e : EdgesFor(cv, ref) = {e}
  BY <1>1, OneRow
<1>3. e \in edges /\ e.consumer = cv
  BY <1>2 DEF EdgesFor
<1>4. e.provider[1] # provider
  BY <1>1, <1>3 DEF ListAffectedModules, ListDownstreamByModule
<1> QED BY <1>2, <1>4

LEMMA OrderRespected ==
  ASSUME IInv PROVE LatestRespectsOrder
<1> SUFFICES ASSUME NEW m \in Modules, NEW latest \in LatestPublished(m), NEW mv \in VersionsOf(m),
                    Stored(mv), latest \in version[mv].knew
             PROVE  FALSE
  BY DEF LatestRespectsOrder
<1>1. mv \in MV /\ latest \in MV /\ Stored(latest)
  BY DEF LatestPublished, VersionsOf, MV
<1>2. version[mv].createdAt <= version[latest].createdAt
  BY DEF LatestPublished
<1>3. version[latest].createdAt < version[mv].createdAt
  BY <1>1 DEF IInv, VersionOK, KnewBefore
<1>4. version[mv] \in VersionRow /\ version[latest] \in VersionRow
  BY <1>1 DEF IInv, Typed, Stored
<1>5. version[mv].createdAt \in Int /\ version[latest].createdAt \in Int
  BY <1>4 DEF VersionRow
<1> QED BY <1>2, <1>3, <1>5

LEMMA AnswersWhole ==
  ASSUME IInv PROVE AnswerWhole
<1> SUFFICES ASSUME NEW r \in Requests, Running(r, "graph"), request[r].step > Len(GraphReads),
                    NEW e \in request[r].upstream
             PROVE  /\ EdgesOf(e.consumer) \subseteq request[r].upstream
                    /\ EntriesOf(e.consumer) \subseteq request[r].unresolved
  BY DEF AnswerWhole, EdgesOf, EntriesOf
<1>1. request[r].step = 4
  BY ReadsInOrder DEF IInv, RequestOK
<1> QED BY <1>1 DEF IInv, RequestOK

LEMMA Types ==
  ASSUME IInv PROVE TypeOK
<1>1. ASSUME NEW mv \in MV, Stored(mv)
      PROVE  /\ version[mv].desc \in Descriptors /\ version[mv].createdAt \in 0 .. now
             /\ mv \notin version[mv].knew
  <2>1. version[mv] \in VersionRow /\ now \in Nat
    BY <1>1 DEF IInv, Typed, Stored
  <2>2. version[mv].desc \in Descriptors /\ version[mv].createdAt \in Nat
    BY <2>1 DEF VersionRow
  <2>3. version[mv].createdAt < now /\ KnewBefore(version[mv].knew, version[mv].createdAt)
    BY <1>1 DEF IInv, VersionOK
  <2> QED BY <2>1, <2>2, <2>3 DEF KnewBefore
<1>2. \A mv \in MV : publish[mv] # Null => ~Stored(mv)
  BY DEF IInv, PublishOK
<1> QED BY <1>1, <1>2 DEF TypeOK, IInv, Typed

-----------------------------------------------------------------------------
(* The theorems. *)

\* The strengthening holds in every state that publishes, rebuilds and reads can
\* reach (dependencygraph/service.go, postgres/dependency_graph.go).
THEOREM Invariant == Spec => []IInv
<1>1. Init => IInv
  BY InvInit
<1>2. IInv /\ [Next]_vars => IInv'
  BY InvNext
<1> QED BY <1>1, <1>2, PTL DEF Spec

\* The tables, the outbox and the publishes in flight keep their shape, and a
\* version is either stored or being published (storeResolvedDependencies).
THEOREM TypeCorrect == Spec => []TypeOK
<1>1. IInv => TypeOK
  BY Types
<1> QED BY <1>1, Invariant, PTL

\* For any number of versions and descriptors, every external reference of a stored
\* version has exactly one edge or one unresolved entry, and every edge is sound
\* (resolveDependencies, dependencygraph/service.go:221-338).
THEOREM ReferencesAreAccounted == Spec => []ReferencesAccounted
<1>1. IInv => ReferencesAccounted
  BY Accounted
<1> QED BY <1>1, Invariant, PTL

\* A consumer missing among the affected modules reports the reference or took it
\* from another module (ListAffectedModules, dependency_graph.go:62-115).
THEOREM AffectedAreReported == Spec => []AffectedOrReported
<1>1. IInv => AffectedOrReported
  BY AffectedReported
<1> QED BY <1>1, Invariant, PTL

\* The latest version of a module was not stored before the publish of another one
\* began (GetLatestByModule, module_versions.go:84).
THEOREM LatestIsOrdered == Spec => []LatestRespectsOrder
<1>1. IInv => LatestRespectsOrder
  BY OrderRespected
<1> QED BY <1>1, Invariant, PTL

\* The three reads of a graph request show a version's rows entirely or not at all
\* (GetModuleDependencyGraph, dependency_queries.go:10-38).
THEOREM AnswersAreWhole == Spec => []AnswerWhole
<1>1. IInv => AnswerWhole
  BY AnswersWhole
<1> QED BY <1>1, Invariant, PTL

\* A rebuild changes nothing, whatever its index offers: the publish that stored its
\* version has written the record of that version, so the second record fails and
\* the replaced rows come back (storeResolvedDependencies, service.go:132-147, in
\* the transaction of RebuildModuleVersionDependencies; dedup key,
\* module_dependencies_updated.go:54).  TestRebuildReplacesOldDependencies
\* (service_test.go:187-199) has an outbox without dedup keys and expects new rows.
THEOREM RebuildsAreUndone == Spec => [][\A r \in Requests : EndRebuild(r) => UNCHANGED graph]_vars
<1>1. ASSUME IInv, NEW r \in Requests, EndRebuild(r) PROVE UNCHANGED graph
  <2>1. UNCHANGED <<edges, unresolved>>
    BY <1>1, InvEndRebuild
  <2>2. Running(r, "rebuild") /\ request[r] \in Rebuild
    BY <1>1 DEF EndRebuild, Running, IInv, Typed, Answer
  <2>3. request[r].consumer \in outbox
    BY <1>1, <2>2 DEF IInv, Typed, RequestOK, Rebuild
  <2> QED BY <1>1, <2>1, <2>3 DEF EndRebuild, StoreResolved, graph
<1>2. IInv /\ [Next]_vars => [\A r \in Requests : EndRebuild(r) => UNCHANGED graph]_vars
  BY <1>1
<1> QED BY <1>2, Invariant, PTL DEF Spec

=============================================================================
