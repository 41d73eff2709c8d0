------------------------------- MODULE Tables -------------------------------
(***************************************************************************)
(* The tables that the pages of the web UI are made of, the transactions   *)
(* that write them and the statements that read them                       *)
(* (internal/repository/postgres).  How those transactions come about and  *)
(* what they race with is the matter of Registry, Approval,                *)
(* DependencyGraph and RuntimeInventory; here each is one step with every  *)
(* row it writes.  Deprecation only changes the status a version shows and *)
(* is left out.                                                            *)
(*                                                                         *)
(* A version stands for its id, a report and a deployment have numbers,    *)
(* and the approval request of a report stands for its id, as a report has *)
(* at most one.  Every version refers to every other module, by an import  *)
(* and by a type.  The creation time of a deployment stands for the time   *)
(* it was reported at.  The lists of services, usages, impacts and audit   *)
(* events are taken to be within their limits (1000, 1000, 1000 and 100).  *)
(***************************************************************************)
EXTENDS Integers, Sequences, FiniteSets, SequencesExt

CONSTANTS
  ModuleNames,   \* sequence of the module names, in the order of names
  Versions,      \* version strings
  Seeded,        \* the version every module may have from the start
  Services,      \* names of services
  Environments,  \* their environments
  VersionsLimit, \* defaultVersionsLimit
  ReportsLimit,  \* defaultReportsLimit
  ListLimit,     \* defaultListLimit
  ChangesLimit,  \* the limit of GetByID for changes
  Inventories,   \* sets of the versions that a runtime report may name
  MaxTime,       \* bound on the creation times
  MaxRows,       \* bound on reports, and on deployments
  Null

Modules == ToSet(ModuleNames)
VersionIDs == Modules \X Versions
Kinds == {"source_archive", "buf_image"}
Sources == {"import", "type_reference"}

\* Rows that a statement may return alone, where Null stands for none.
VersionRecord == [id : VersionIDs, createdAt : Nat]
ReportRecord == [id : Nat, base : VersionIDs, createdAt : Nat, count : Nat]
RequestRecord == [report : Nat, received : Nat,
                  status : {"not_required", "pending", "approved", "rejected"}]

ASSUME TablesAssumption ==
  /\ ModuleNames \in Seq(Modules) /\ IsInjective(ModuleNames) /\ ModuleNames # <<>>
  /\ Seeded \in Versions
  /\ {VersionsLimit, ReportsLimit, ListLimit, ChangesLimit} \subseteq Nat \ {0}
  /\ MaxTime \in Nat
  /\ Inventories \subseteq SUBSET VersionIDs
  /\ Null \notin Modules /\ Null \notin Services
  /\ Null \notin VersionRecord /\ Null \notin ReportRecord /\ Null \notin RequestRecord

VARIABLE db  \* the tables: a record of sets of rows

Empty ==
  [modules |-> {}, links |-> {}, owners |-> {}, versions |-> {}, artifacts |-> {},
   configs |-> {}, metadata |-> {}, edges |-> {}, unresolved |-> {}, reports |-> {},
   changes |-> {}, requests |-> {}, requirements |-> {}, decisions |-> {}, audit |-> {},
   services |-> {}, deployments |-> {}, usages |-> {}]

Newer(a, b) == a.createdAt > b.createdAt

\* ORDER BY at DESC LIMIT limit: before the i-th row come i - 1 others.  No two rows
\* are equal in at.
Sorted(rows, at, limit) ==
  [i \in 1 .. (IF Cardinality(rows) < limit THEN Cardinality(rows) ELSE limit) |->
     CHOOSE row \in rows : Cardinality({x \in rows : at[x] > at[row]}) = i - 1]

\* ORDER BY created_at DESC LIMIT limit.
Newest(rows, limit) == Sorted(rows, [row \in rows |-> row.createdAt], limit)

\* Where a name comes in the order of names.
Position(m) == CHOOSE i \in DOMAIN ModuleNames : ModuleNames[i] = m

-----------------------------------------------------------------------------
(* Statements. *)

VersionsOf(m) == {v \in db.versions : v.id[1] = m}

\* GetByName, GetByModuleAndVersion, GetByID, GetRuntimeServiceByName; Null stands
\* for ErrNotFound.
OneOf(rows) == IF rows = {} THEN Null ELSE CHOOSE row \in rows : TRUE

GetModuleByName(m) == IF m \in db.modules THEN m ELSE Null
ListModules == Sorted(db.modules, [m \in db.modules |-> - Position(m)], ListLimit)
GetByModuleAndVersion(mv) == OneOf({v \in db.versions : v.id = mv})
ListVersionsByModule(m) == Newest(VersionsOf(m), VersionsLimit)
GetLatestByModule(m) == OneOf(ToSet(Newest(VersionsOf(m), 1)))
ListArtifacts(mv) == {a.kind : a \in {b \in db.artifacts : b.version = mv}}
GetBufConfig(mv) == mv \in db.configs
GetMetadataSummary(mv) == mv \in db.metadata
GetMetadata(mv) == mv \in db.metadata
GetGitLabProject(m) == m \in db.links
ListOwners(m) == {o \in db.owners : o = m}
ListReportsByModule(m) == Newest({r \in db.reports : r.base[1] = m}, ReportsLimit)
GetReport(id) == OneOf({r \in db.reports : r.id = id})
\* The rows of a report are numbered in the order they are listed in.
ListChangesByReport(id) ==
  {c \in db.changes : c.report = id /\ c.number <= ChangesLimit}

ListUpstreamByModule(m) == {e \in db.edges : e.consumer[1] = m}
ListDownstreamByModule(m) == {e \in db.edges : e.provider[1] = m}
ListUnresolvedByModule(m) == {u \in db.unresolved : u.consumer[1] = m}
ListAffectedModules(m) ==
  {o \in db.modules : \E e \in ListDownstreamByModule(m) :
     VersionsOf(o) # {} /\ e.consumer = GetLatestByModule(o).id}

GetRequestByBreakingReportID(id) == OneOf({q \in db.requests : q.report = id})
ListRequirements(id) == {q \in db.requirements : q.report = id}
ListDecisions(id) == {d \in db.decisions : d.report = id}
ListAudit(id) == {a \in db.audit : a.report = id}

GetRuntimeServiceByName(s) == IF s \in db.services THEN s ELSE Null
ListDeploymentsByService(s) == Newest({d \in db.deployments : d.service = s}, ListLimit)
ListDeploymentsByEnvironment(e) == Newest({d \in db.deployments : d.environment = e}, ListLimit)
ListUsagesByDeployment(id) == {u \in db.usages : u.deployment = id}
\* By the ids the report resolved: a usage of a module or version that was not
\* known then is not among them.
ListModuleRuntimeUsages(m) == {u \in db.usages : u.ref[1] = m /\ u.moduleKnown}
ListRuntimeImpact(mv) == {u \in db.usages : u.ref = mv /\ u.known}
ListRuntimeServices ==
  {[service |-> s, last |-> ListDeploymentsByService(s)[1].createdAt,
    environments |-> {d.environment : d \in {x \in db.deployments : x.service = s}}] :
     s \in db.services}

-----------------------------------------------------------------------------
(* Transactions. *)

Times == {row.createdAt : row \in db.versions \cup db.reports \cup db.deployments}
Fresh(t) == t \in 1 .. MaxTime /\ t \notin Times

CreateModule(m) ==
  /\ m \notin db.modules
  /\ db' = [db EXCEPT !.modules = @ \cup {m}]

\* The rows of a publish: version, artifacts, buf configuration, descriptor
\* metadata and the dependencies, resolved to the versions in providers.
VersionRows(tables, mv, t, providers) ==
  [tables EXCEPT
     !.versions = @ \cup {[id |-> mv, createdAt |-> t]},
     !.artifacts = @ \cup {[version |-> mv, kind |-> k] : k \in Kinds},
     !.configs = @ \cup {mv},
     !.metadata = @ \cup {mv},
     !.edges = @ \cup {[consumer |-> mv, provider |-> o, source |-> k] :
                         o \in providers, k \in Sources},
     !.unresolved = @ \cup {[consumer |-> mv, name |-> o] :
                              o \in Modules \ ({mv[1]} \cup {x[1] : x \in providers})}]

PublishModuleVersion(mv, t) ==
  /\ mv[1] \in db.modules
  /\ GetByModuleAndVersion(mv) = Null
  /\ Fresh(t)
  /\ db' = VersionRows(db, mv, t,
             {GetLatestByModule(o).id : o \in {x \in db.modules \ {mv[1]} : VersionsOf(x) # {}}})

\* The rows of a breaking check: the report and its changes.
ReportRows(tables, base, t, count) ==
  LET id == Cardinality(tables.reports) + 1 IN
  [tables EXCEPT
     !.reports = @ \cup {[id |-> id, base |-> base, createdAt |-> t, count |-> count]},
     !.changes = @ \cup {[report |-> id, number |-> i] : i \in 1 .. count}]

StoreBreakingReport(base, t, count) ==
  /\ GetByModuleAndVersion(base) # Null /\ Cardinality(db.reports) < MaxRows
  /\ Fresh(t)
  /\ db' = ReportRows(db, base, t, count)

\* A report with changes needs the approval of its module and, as the policy has
\* it, of others; warned marks a module without owners.
CreateApprovalRequest(id, targets) ==
  LET report == GetReport(id) IN
  /\ report # Null /\ GetRequestByBreakingReportID(id) = Null
  /\ IF report.count = 0 THEN targets = {} ELSE report.base[1] \in targets
  /\ db' = [db EXCEPT
       !.requests = @ \cup {[report |-> id, received |-> 0,
                             status |-> IF targets = {} THEN "not_required" ELSE "pending"]},
       !.requirements = @ \cup {[report |-> id, target |-> m, status |-> "pending",
                                 warned |-> ListOwners(m) = {}] : m \in targets},
       !.audit = @ \cup {[report |-> id, event |-> "created", target |-> Null]}]

\* RecordDecision.  The status is computed from the requirements the call read
\* before: of the decisions on the others it saw some.  A requirement is decided
\* once; the request is not looked at again.
RecordDecision(id, target, decision, seen) ==
  LET request == GetRequestByBreakingReportID(id)
      all == ListRequirements(id)
      approved == {q \in seen : q.status = "approved"}
      status == IF decision = "rejected" THEN "rejected"
                ELSE IF Cardinality(approved) + 1 = Cardinality(all) THEN "approved" ELSE "pending" IN
  /\ request # Null
  /\ seen \subseteq {q \in all : q.status # "pending"}
  /\ \E q \in all :
       /\ q.target = target /\ q.status = "pending"
       /\ db' = [db EXCEPT
            !.requirements = (@ \ {q}) \cup {[q EXCEPT !.status = decision]},
            !.decisions = @ \cup {[report |-> id, target |-> target, decision |-> decision]},
            !.audit = @ \cup {[report |-> id, event |-> decision, target |-> target]}
                        \cup {[report |-> id, event |-> "status_changed", target |-> to] :
                               to \in {status} \ {"pending"}},
            !.requests = (@ \ {request}) \cup {[request EXCEPT
               !.status = status,
               !.received = Cardinality(approved) + (IF decision = "approved" THEN 1 ELSE 0)]}]

\* A report names at least one module; a version that is not known is kept by name.
ReportRuntimeInventory(s, e, refs, t) ==
  LET id == Cardinality(db.deployments) + 1 IN
  /\ Fresh(t) /\ id <= MaxRows /\ refs # {}
  /\ db' = [db EXCEPT
       !.services = @ \cup {s},
       !.deployments = @ \cup {[id |-> id, service |-> s, environment |-> e, createdAt |-> t]},
       !.usages = @ \cup {[deployment |-> id, ref |-> mv,
                           moduleKnown |-> mv[1] \in db.modules,
                           known |-> GetByModuleAndVersion(mv) # Null] : mv \in refs}]

AddModuleOwner(m) == m \in db.modules \ db.owners /\ db' = [db EXCEPT !.owners = @ \cup {m}]
RemoveModuleOwner(m) == m \in db.owners /\ db' = [db EXCEPT !.owners = @ \ {m}]
LinkModuleGitLabProject(m) ==
  m \in db.modules \ db.links /\ db' = [db EXCEPT !.links = @ \cup {m}]
=============================================================================
