------------------------------ MODULE Registry ------------------------------
(***************************************************************************)
(* The registry service (internal/usecase/registry/service.go) over its    *)
(* tables and the object store: concurrent API calls that publish and      *)
(* deprecate versions, link modules to GitLab projects and check proposed  *)
(* changes against a published baseline.                                   *)
(*                                                                         *)
(* A call reads, talks to the object store and then commits one            *)
(* transaction; its unique indexes make that transaction take effect at    *)
(* one moment.  Object keys are made of module, version and content, so    *)
(* two calls that publish the same content use the same keys.  A module    *)
(* and its name are never deleted, so the name stands for the id; what a   *)
(* deprecation records (time, actor, reason) is named by its call.         *)
(***************************************************************************)
EXTENDS Integers, Sequences

CONSTANTS
  Calls,      \* API calls, each made once
  Modules,    \* module names
  Versions,   \* version strings
  Sources,    \* source archives
  ImageOf,    \* the Buf image that building a source archive gives
  Projects,   \* GitLab projects
  MaxFaults,  \* bound on failed statements, failed store requests and crashes
  Null

\* What a call asks for, and its answer.
PublishInput == [op : {"publish"}, module : Modules, version : Versions, source : Sources]
VersionInput == [op : {"deprecate", "breaking"}, module : Modules, version : Versions]
LinkInput == [op : {"link"}, module : Modules, project : Projects]
Result == {"ok", "already_exists", "invalid_source", "storage_failure", "error", "lost",
           "not_found", "already_linked", "baseline_not_found", "check_failed"}
Reply == [result : Result, by : Calls \cup {Null}]

ASSUME RegistryAssumption ==
  /\ DOMAIN ImageOf = Sources
  /\ MaxFaults \in Nat
  /\ Null \notin Calls \cup Projects
  /\ Null \notin PublishInput \cup VersionInput \cup LinkInput \cup Reply

VARIABLES
  modules,  \* modules
  version,  \* module_versions with their two artifacts
  link,     \* module_gitlab_projects: the project of each module
  reports,  \* breaking_reports: the call that made it and its baseline
  outbox,   \* dedup keys of the outbox records written
  objects,  \* keys of the objects in the store
  faults,   \* faults so far
  pc,       \* where each call is
  asked,    \* what each call asked for
  todo,     \* keys a publishing call has yet to delete
  reply     \* what the call returned, or will after its cleanup

tables == <<modules, version, link, reports, outbox>>
vars == <<modules, version, link, reports, outbox, objects, faults, pc, asked, todo, reply>>

Unpublished == [publisher |-> Null, source |-> Null, deprecatedBy |-> Null]

Init ==
  /\ modules = {}
  /\ version = [m \in Modules |-> [v \in Versions |-> Unpublished]]
  /\ link = [m \in Modules |-> Null]
  /\ reports = {}
  /\ outbox = {}
  /\ objects = {}
  /\ faults = 0
  /\ pc = [c \in Calls |-> "idle"]
  /\ asked = [c \in Calls |-> Null]
  /\ todo = [c \in Calls |-> <<>>]
  /\ reply = [c \in Calls |-> Null]

Published(m, v) == version[m][v].publisher # Null

\* BuildSourceArchiveKey and BuildBufImageKey.
SourceKey(m, v, source) == <<m, v, "source", source>>
ImageKey(m, v, source) == <<m, v, "buf-image", ImageOf[source]>>

Ask(c, input) == asked' = [asked EXCEPT ![c] = input]

Goto(c, to) ==
  /\ pc' = [pc EXCEPT ![c] = to]
  /\ UNCHANGED <<todo, reply>>

\* by is the call whose version or deprecation the answer shows.
Return(c, result, by) ==
  /\ pc' = [pc EXCEPT ![c] = "done"]
  /\ reply' = [reply EXCEPT ![c] = [result |-> result, by |-> by]]
  /\ UNCHANGED todo

Fault == faults < MaxFaults /\ faults' = faults + 1

-----------------------------------------------------------------------------
(* CreateModule.  A second module of the same name is rejected. *)

CreateModule(m) ==
  /\ m \notin modules
  /\ modules' = modules \cup {m}
  /\ outbox' = outbox \cup {<<"created", m>>}
  /\ UNCHANGED <<version, link, reports, objects, faults, pc, asked, todo, reply>>

-----------------------------------------------------------------------------
(* PublishModuleVersion. *)

\* Up to the uploads: the version must be new, the archive readable and safe and
\* the Buf workflow successful.
InspectSource(c, m, v, source) ==
  /\ pc[c] = "idle"
  /\ m \in modules
  /\ Ask(c, [op |-> "publish", module |-> m, version |-> v, source |-> source])
  /\ \/ Published(m, v) /\ Return(c, "already_exists", Null)
     \/ ~Published(m, v) /\ Return(c, "invalid_source", Null)
     \/ ~Published(m, v) /\ Goto(c, "source")
  /\ UNCHANGED <<tables, objects, faults>>

SourceKeyOf(c) == SourceKey(asked[c].module, asked[c].version, asked[c].source)
ImageKeyOf(c) == ImageKey(asked[c].module, asked[c].version, asked[c].source)

\* cleanupUploadedArtifacts deletes the keys in turn, then the call returns.
StartCleanup(c, keys, result) ==
  /\ pc' = [pc EXCEPT ![c] = "cleanup"]
  /\ todo' = [todo EXCEPT ![c] = keys]
  /\ reply' = [reply EXCEPT ![c] = [result |-> result, by |-> Null]]

\* Mutant: the error of Put is dropped.
PutSource_IgnoresError(c) ==
  /\ pc[c] = "source"
  /\ objects' \in {objects, objects \cup {SourceKeyOf(c)}}
  /\ Goto(c, "image")
  /\ UNCHANGED <<tables, asked, faults>>

\* A Put that fails may have stored the object all the same.
PutSource(c) ==
  /\ pc[c] = "source"
  /\ \/ /\ objects' = objects \cup {SourceKeyOf(c)}
        /\ Goto(c, "image")
        /\ UNCHANGED faults
     \/ /\ Fault
        /\ objects' \in {objects, objects \cup {SourceKeyOf(c)}}
        /\ Return(c, "storage_failure", Null)
  /\ UNCHANGED <<tables, asked>>

PutImage(c) ==
  /\ pc[c] = "image"
  /\ \/ /\ objects' = objects \cup {ImageKeyOf(c)}
        /\ Goto(c, "commit")
        /\ UNCHANGED faults
     \/ /\ Fault
        /\ objects' \in {objects, objects \cup {ImageKeyOf(c)}}
        /\ StartCleanup(c, <<SourceKeyOf(c)>>, "storage_failure")
  /\ UNCHANGED <<tables, asked>>

\* Mutant: no such indexes.
VersionTaken_Never(m, v) == FALSE

\* The unique indexes on (module, version), storage key and dedup key.
VersionTaken(m, v) == Published(m, v) \/ <<m, v, "published">> \in outbox

\* The commit may succeed although the service gets an error.
CommitVersion(c) ==
  LET m == asked[c].module
      v == asked[c].version
  IN
  /\ pc[c] = "commit"
  /\ ~VersionTaken(m, v)
  /\ version' = [version EXCEPT ![m][v] =
                   [publisher |-> c, source |-> asked[c].source, deprecatedBy |-> Null]]
  /\ outbox' = outbox \cup {<<m, v, "published">>}
  /\ \/ Return(c, "ok", c) /\ UNCHANGED faults
     \/ Fault /\ StartCleanup(c, <<SourceKeyOf(c), ImageKeyOf(c)>>, "error")
  /\ UNCHANGED <<modules, link, reports, objects, asked>>

\* The transaction is rolled back: the version exists, or a statement failed.
RollbackVersion(c) ==
  /\ pc[c] = "commit"
  /\ \/ /\ VersionTaken(asked[c].module, asked[c].version)
        /\ StartCleanup(c, <<SourceKeyOf(c), ImageKeyOf(c)>>, "already_exists")
        /\ UNCHANGED faults
     \/ Fault /\ StartCleanup(c, <<SourceKeyOf(c), ImageKeyOf(c)>>, "error")
  /\ UNCHANGED <<tables, objects, asked>>

\* A failed Delete is recorded and the next key is tried.
Cleanup(c) ==
  /\ pc[c] = "cleanup"
  /\ \/ objects' = objects \ {Head(todo[c])} /\ UNCHANGED faults
     \/ Fault /\ UNCHANGED objects
  /\ todo' = [todo EXCEPT ![c] = Tail(@)]
  /\ pc' = [pc EXCEPT ![c] = IF Len(todo[c]) = 1 THEN "done" ELSE "cleanup"]
  /\ UNCHANGED <<tables, asked, reply>>

-----------------------------------------------------------------------------
(* DeprecateModuleVersion. *)

ReadVersion(c, m, v) ==
  /\ pc[c] = "idle"
  /\ m \in modules
  /\ Ask(c, [op |-> "deprecate", module |-> m, version |-> v])
  /\ LET by == version[m][v].deprecatedBy
     IN \/ ~Published(m, v) /\ Return(c, "not_found", Null)
        \/ Published(m, v) /\ by # Null /\ Return(c, "ok", by)
        \/ Published(m, v) /\ by = Null /\ Goto(c, "deprecate")
  /\ UNCHANGED <<tables, objects, faults>>

\* Mutant: the dedup key is different for every call.
DeprecationTaken_Never(m, v) == FALSE

\* The dedup key of the outbox record admits one deprecation per version.
DeprecationTaken(m, v) == <<m, v, "deprecated">> \in outbox

\* UpdateDeprecation writes unconditionally; a duplicate outbox record rolls it back.
CommitDeprecation(c) ==
  LET m == asked[c].module
      v == asked[c].version
  IN
  /\ pc[c] = "deprecate"
  /\ ~DeprecationTaken(m, v)
  /\ version' = [version EXCEPT ![m][v].deprecatedBy = c]
  /\ outbox' = outbox \cup {<<m, v, "deprecated">>}
  /\ \/ Return(c, "ok", c) /\ UNCHANGED faults
     \/ Fault /\ Return(c, "error", Null)
  /\ UNCHANGED <<modules, link, reports, objects, asked>>

RollbackDeprecation(c) ==
  /\ pc[c] = "deprecate"
  /\ \/ DeprecationTaken(asked[c].module, asked[c].version) /\ UNCHANGED faults
     \/ Fault
  /\ Return(c, "error", Null)
  /\ UNCHANGED <<tables, objects, asked>>

-----------------------------------------------------------------------------
(* LinkModuleGitLabProject. *)

LinkedElsewhere(m, p) == \E n \in Modules \ {m} : link[n] = p

\* Mutant: only the dedup key refuses.
LinkRefused_ByKey(m, p) == <<m, p, "linked">> \in outbox

\* Upsert fails on a project of another module, and the outbox record on a
\* dedup key already written; both answer ErrGitLabProjectAlreadyLinked.
LinkRefused(m, p) == LinkedElsewhere(m, p) \/ <<m, p, "linked">> \in outbox

LinkModuleGitLabProject(c, m, p) ==
  /\ pc[c] = "idle"
  /\ m \in modules
  /\ Ask(c, [op |-> "link", module |-> m, project |-> p])
  /\ \/ /\ LinkRefused(m, p)
        /\ Return(c, "already_linked", Null)
        /\ UNCHANGED <<tables, faults>>
     \/ Fault /\ Return(c, "error", Null) /\ UNCHANGED tables
     \/ /\ ~LinkRefused(m, p)
        /\ link' = [link EXCEPT ![m] = p]
        /\ outbox' = outbox \cup {<<m, p, "linked">>}
        /\ UNCHANGED <<modules, version, reports>>
        /\ \/ Return(c, "ok", Null) /\ UNCHANGED faults
           \/ Fault /\ Return(c, "error", Null)
  /\ UNCHANGED objects

-----------------------------------------------------------------------------
(* CheckBreaking. *)

\* resolveBreakingBaseline: "latest" and an explicit version both name a
\* published version.
ResolveBreakingBaseline(c, m, v) ==
  /\ pc[c] = "idle"
  /\ m \in modules
  /\ Ask(c, [op |-> "breaking", module |-> m, version |-> v])
  /\ \/ ~Published(m, v) /\ Return(c, "baseline_not_found", Null)
     \/ Published(m, v) /\ Goto(c, "baseline")
  /\ UNCHANGED <<tables, objects, faults>>

\* readStoredArtifact gets the baseline's Buf image.
ReadStoredArtifact(c) ==
  LET m == asked[c].module
      v == asked[c].version
      stored == ImageKey(m, v, version[m][v].source) \in objects
  IN
  /\ pc[c] = "baseline"
  /\ \/ stored /\ Goto(c, "check") /\ UNCHANGED faults
     \/ ~stored /\ Return(c, "storage_failure", Null) /\ UNCHANGED faults
     \/ Fault /\ Return(c, "storage_failure", Null)
  /\ UNCHANGED <<tables, objects, asked>>

\* The proposed source is checked and, unless that fails, the report committed.
CommitReport(c) ==
  /\ pc[c] = "check"
  /\ \/ Return(c, "check_failed", Null) /\ UNCHANGED <<tables, faults>>
     \/ /\ reports' = reports \cup {c}
        /\ outbox' = outbox \cup {<<"breaking-report", c>>}
        /\ UNCHANGED <<modules, version, link>>
        /\ \/ Return(c, "ok", Null) /\ UNCHANGED faults
           \/ Fault /\ Return(c, "error", Null)
  /\ UNCHANGED <<objects, asked>>

-----------------------------------------------------------------------------
\* The server stops or the client goes away: the call ends where it is.
Abandon(c) ==
  /\ pc[c] \notin {"idle", "done"}
  /\ Fault
  /\ pc' = [pc EXCEPT ![c] = "done"]
  /\ reply' = [reply EXCEPT ![c] = [result |-> "lost", by |-> Null]]
  /\ todo' = [todo EXCEPT ![c] = <<>>]
  /\ UNCHANGED <<tables, objects, asked>>

Next ==
  \/ \E m \in Modules : CreateModule(m)
  \/ \E c \in Calls :
       \/ \E m \in Modules, v \in Versions :
            \/ \E source \in Sources : InspectSource(c, m, v, source)
            \/ ReadVersion(c, m, v)
            \/ ResolveBreakingBaseline(c, m, v)
       \/ PutSource(c)
       \/ PutImage(c)
       \/ CommitVersion(c)
       \/ RollbackVersion(c)
       \/ Cleanup(c)
       \/ CommitDeprecation(c)
       \/ RollbackDeprecation(c)
       \/ \E m \in Modules, p \in Projects : LinkModuleGitLabProject(c, m, p)
       \/ ReadStoredArtifact(c)
       \/ CommitReport(c)
       \/ Abandon(c)

Spec == Init /\ [][Next]_vars

-----------------------------------------------------------------------------
(* Properties. *)

Row == [publisher : Calls \cup {Null}, source : Sources \cup {Null},
        deprecatedBy : Calls \cup {Null}]

TypeOK ==
  /\ modules \subseteq Modules
  /\ version \in [Modules -> [Versions -> Row]]
  /\ link \in [Modules -> Projects \cup {Null}]
  /\ reports \subseteq Calls
  /\ faults \in 0 .. MaxFaults
  /\ pc \in [Calls -> {"idle", "source", "image", "commit", "cleanup", "deprecate",
                       "baseline", "check", "done"}]
  /\ asked \in [Calls -> PublishInput \cup VersionInput \cup LinkInput \cup {Null}]
  /\ \A c \in Calls : Len(todo[c]) \in (IF pc[c] = "cleanup" THEN 1 .. 2 ELSE {0})
  /\ reply \in [Calls -> Reply \cup {Null}]

Publishing(c, m, v) ==
  asked[c] \in PublishInput /\ asked[c].module = m /\ asked[c].version = v

\* Of the calls that race to publish a version exactly the one whose source was
\* stored succeeds, a call told that the version exists was told the truth, and
\* a version is announced if and only if it exists (service.go:293-297, 399-457).
PublishOutcome ==
  \A m \in Modules, v \in Versions :
    /\ Published(m, v) <=> <<m, v, "published">> \in outbox
    /\ \A c \in Calls : Publishing(c, m, v) /\ reply[c] # Null =>
         /\ reply[c].result = "ok" =>
              version[m][v].publisher = c /\ version[m][v].source = asked[c].source
         /\ reply[c].result = "already_exists" =>
              Published(m, v) /\ version[m][v].publisher # c

\* An artifact of a published version is missing from the store only after a
\* call that did not succeed used the same key: the publisher itself, when its
\* commit was reported as failed, or another call with the same content
\* (cleanupUploadedArtifacts, service.go:944-953).
StoredUnlessContended ==
  \A m \in Modules, v \in Versions : Published(m, v) =>
    LET source == version[m][v].source
        Contended(Key(_, _, _)) ==
          \E c \in Calls : /\ Publishing(c, m, v)
                           /\ Key(m, v, asked[c].source) = Key(m, v, source)
                           /\ reply[c] # Null /\ reply[c].result # "ok"
    IN /\ SourceKey(m, v, source) \in objects \/ Contended(SourceKey)
       /\ ImageKey(m, v, source) \in objects \/ Contended(ImageKey)

Referenced(key) ==
  \E m \in Modules, v \in Versions :
    /\ Published(m, v)
    /\ key \in {SourceKey(m, v, version[m][v].source), ImageKey(m, v, version[m][v].source)}

\* Without faults, whatever the calls and their order, no upload is left behind:
\* once no call is running every object belongs to a published version.
NoOrphans ==
  faults = 0 /\ (\A c \in Calls : pc[c] \in {"idle", "done"}) =>
    \A key \in objects : Referenced(key)

\* The store holds what published versions need and nothing else, as far as calls
\* with the same keys, faults and the missing transaction of the store let it.
StoreAgrees == StoredUnlessContended /\ NoOrphans

\* The first deprecation stands although UpdateDeprecation overwrites and two
\* calls may both have read the version as not deprecated: the dedup key of the
\* event undoes the second (service.go:524-548).  Nothing else of a published
\* version changes.
FirstDeprecationStands ==
  [][\A m \in Modules, v \in Versions : Published(m, v) =>
       LET old == version[m][v]
           new == version'[m][v]
       IN new = old \/ (old.deprecatedBy = Null /\ new.deprecatedBy # Null
                        /\ new.publisher = old.publisher /\ new.source = old.source)]_vars

\* The tables as the catalog that others see.
PublishedVersions ==
  {x \in Modules \X Versions \X Sources \X Calls :
     version[x[1]][x[2]].source = x[3] /\ version[x[1]][x[2]].publisher = x[4]}
Deprecations ==
  {x \in Modules \X Versions \X Calls : version[x[1]][x[2]].deprecatedBy = x[3]}
Links == {x \in Modules \X Projects : link[x[1]] = x[2]}

C == INSTANCE Catalog WITH
       created <- modules, published <- PublishedVersions, deprecated <- Deprecations,
       linked <- Links, reported <- reports, announced <- outbox

\* Whatever calls overlap, fail or lose their answer, others see the catalog that
\* Catalog describes: versions published once and deprecated once, a project with
\* one module, and in the step of each change a new event for it (the unique
\* indexes and WithinTransaction, service.go:112-134, 204-227, 399-457, 529-548, 743-757).
ImplementsCatalog == C!CSpec

\* Every successful deprecation, the first or a repeated one, answers with the
\* deprecation that is stored and announced.
DeprecationAnswers ==
  /\ \A c \in Calls : asked[c] # Null /\ asked[c].op = "deprecate" /\ reply[c] # Null
       /\ reply[c].result = "ok" =>
         version[asked[c].module][asked[c].version].deprecatedBy = reply[c].by
  /\ \A m \in Modules, v \in Versions :
       version[m][v].deprecatedBy # Null <=> <<m, v, "deprecated">> \in outbox

\* Whatever races it was part of, a call is told of its version what is stored and
\* announced.
RepliesTruthful == PublishOutcome /\ DeprecationAnswers

\* A project belongs to one module, and every link that was ever in force was
\* announced (Upsert and the outbox record, service.go:204-227).
LinksAnnounced ==
  \A m \in Modules : link[m] # Null =>
    /\ ~LinkedElsewhere(m, link[m])
    /\ <<m, link[m], "linked">> \in outbox

\* docs/buf-workflow.md:3 says that a publish request "stores both source and
\* descriptor artifacts", the descriptor artifact being the baseline of later
\* breaking checks.
PublishedArtifactsStored ==
  \A m \in Modules, v \in Versions : Published(m, v) =>
    /\ SourceKey(m, v, version[m][v].source) \in objects
    /\ ImageKey(m, v, version[m][v].source) \in objects

=============================================================================
