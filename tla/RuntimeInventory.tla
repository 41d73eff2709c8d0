-------------------------- MODULE RuntimeInventory --------------------------
(***************************************************************************)
(* The runtime inventory (internal/usecase/runtimeinventory/service.go,    *)
(* postgres/runtime_inventory.go): services report which versions of which *)
(* modules a deployment uses.                                              *)
(*                                                                         *)
(* A report resolves its references one statement at a time, outside any   *)
(* transaction and while the registry changes, and then stores the         *)
(* deployment, its usages and its outbox record together.  A report is not *)
(* idempotent: a client that lost the answer and sends it again is a       *)
(* client that reports again.  created_at of a deployment is its           *)
(* reported_at, so equal reports have no order among them.                 *)
(***************************************************************************)
EXTENDS Integers, Sequences, FiniteSets, FiniteSetsExt

CONSTANTS
  Modules, Versions,
  Services, Environments,
  Reporters,       \* clients that report
  Inputs,          \* valid inputs: service, environment and the references in their
                   \* order, once each
  MaxTime,         \* bound on the clock
  MaxDeployments,  \* bound on the deployments stored
  Null

\* A row of module_versions, as far as drift depends on it.
VersionRow == [createdAt : Nat, deprecated : BOOLEAN]

ASSUME RuntimeAssumption ==
  /\ MaxTime \in Nat \ {0} /\ MaxDeployments \in Nat
  /\ Null \notin VersionRow
  /\ \A in \in Inputs : /\ in.service \in Services /\ in.environment \in Environments
                        /\ in.refs \in Seq(Modules \X Versions) /\ in.refs # <<>>

VARIABLES
  modules,      \* names of the modules
  version,      \* module_versions: creation order and whether deprecated
  deployments,  \* runtime_deployments with their usages, as committed
  outbox,       \* the record of each deployment
  now,          \* the clock
  report        \* the report each client is making

registry == <<modules, version>>
inventory == <<deployments, outbox>>
vars == <<registry, inventory, now, report>>

MV == Modules \X Versions
Status == {"up_to_date", "behind_latest", "unknown_version", "deprecated_version"}

Stored == {mv \in MV : version[mv] # Null}
Newer(a, b) == version[a].createdAt > version[b].createdAt

Init ==
  /\ modules = {}
  /\ version = [mv \in MV |-> Null]
  /\ deployments = <<>>
  /\ outbox = <<>>
  /\ now = 1
  /\ report = [r \in Reporters |-> Null]

-----------------------------------------------------------------------------
(* The registry. *)

CreateModule(m) ==
  /\ m \notin modules
  /\ modules' = modules \cup {m}
  /\ UNCHANGED <<version, inventory, now, report>>

\* created_at is read before the commit: publishes that overlap commit in any order.
Publish(mv, createdAt) ==
  /\ mv[1] \in modules /\ mv \notin Stored
  /\ \A other \in Stored : version[other].createdAt # createdAt
  /\ version' = [version EXCEPT ![mv] = [createdAt |-> createdAt, deprecated |-> FALSE]]
  /\ UNCHANGED <<modules, inventory, now, report>>

Deprecate(mv) ==
  /\ mv \in Stored /\ ~version[mv].deprecated
  /\ version' = [version EXCEPT ![mv].deprecated = TRUE]
  /\ UNCHANGED <<modules, inventory, now, report>>

NewestOf(candidates) == {mv \in candidates : \A other \in candidates : ~Newer(other, mv)}
VersionsOf(m) == {mv \in Stored : mv[1] = m}

\* The newest version of any status; empty for ErrNotFound.
GetLatestByModule(m) == NewestOf(VersionsOf(m))

-----------------------------------------------------------------------------
(* Reporting. *)

\* reportedAt is the server's clock (no client sends one); two readings of it may be
\* equal.  knew and after are the versions and deployments stored when the report
\* begins.
BeginReport(r, in) ==
  /\ report[r] = Null
  /\ Len(deployments) < MaxDeployments
  /\ now' \in now .. Min({now + 1, MaxTime})
  /\ report' = [report EXCEPT ![r] =
       [service |-> in.service, environment |-> in.environment, reportedAt |-> now',
        knew |-> Stored, after |-> Len(deployments),
        todo |-> in.refs, usages |-> {}, reading |-> Null]]
  /\ UNCHANGED <<registry, inventory>>

\* A usage before anything is found (resolveRuntimeUsage, first lines).
NotFound(mv) == [ref |-> mv, hasModule |-> FALSE, hasVersion |-> FALSE,
                 status |-> "unknown_version"]

Resolved(r, usage) ==
  report' = [report EXCEPT ![r].usages = @ \cup {usage}, ![r].todo = Tail(@), ![r].reading = Null]

Continue(r, usage, step) ==
  report' = [report EXCEPT ![r].reading = [usage |-> usage, step |-> step]]

Reading(r, step) ==
  report[r] # Null /\ report[r].reading # Null /\ report[r].reading.step = step

ResolveModule(r) ==
  /\ report[r] # Null /\ report[r].reading = Null /\ report[r].todo # <<>>
  /\ LET mv == Head(report[r].todo)
     IN IF mv[1] \in modules
        THEN Continue(r, [NotFound(mv) EXCEPT !.hasModule = TRUE], "version")
        ELSE Resolved(r, NotFound(mv))
  /\ UNCHANGED <<registry, inventory, now>>

\* Mutant: reports of deprecated versions are counted as unknown.
ResolveVersion_DeprecatedUnknown(r) ==
  /\ Reading(r, "version")
  /\ LET usage == report[r].reading.usage
     IN IF usage.ref \in Stored /\ ~version[usage.ref].deprecated
        THEN Continue(r, [usage EXCEPT !.hasVersion = TRUE, !.status = "behind_latest"], "latest")
        ELSE Resolved(r, usage)
  /\ UNCHANGED <<registry, inventory, now>>

\* GetByModuleAndVersion; its status decides between deprecated and the rest.
ResolveVersion(r) ==
  /\ Reading(r, "version")
  /\ LET usage == report[r].reading.usage
     IN IF usage.ref \in Stored
        THEN Continue(r, [usage EXCEPT !.hasVersion = TRUE,
                            !.status = IF version[usage.ref].deprecated
                                       THEN "deprecated_version" ELSE "behind_latest"], "latest")
        ELSE Resolved(r, usage)
  /\ UNCHANGED <<registry, inventory, now>>

\* Deprecated wins over behind latest.
ResolveLatest(r) ==
  /\ Reading(r, "latest")
  /\ LET usage == report[r].reading.usage
         latest == GetLatestByModule(usage.ref[1])
     IN Resolved(r, [usage EXCEPT !.status = IF @ = "behind_latest" /\ latest = {usage.ref}
                                  THEN "up_to_date" ELSE @])
  /\ UNCHANGED <<registry, inventory, now>>

\* DriftCounts.Add over the usages.
DriftCounts(usages) == [status \in Status |-> Cardinality({u \in usages : u.status = status})]

\* UpsertRuntimeServiceByName, CreateRuntimeDeployment, CreateRuntimeModuleUsages
\* and the outbox record in one transaction.
CommitReport(r) ==
  /\ report[r] # Null /\ report[r].todo = <<>> /\ report[r].reading = Null
  /\ Len(deployments) < MaxDeployments
  /\ deployments' = Append(deployments, report[r])
  /\ outbox' = Append(outbox, DriftCounts(report[r].usages))
  /\ report' = [report EXCEPT ![r] = Null]
  /\ UNCHANGED <<registry, now>>

\* A statement fails or the client goes away.
AbortReport(r) ==
  /\ report[r] # Null
  /\ report' = [report EXCEPT ![r] = Null]
  /\ UNCHANGED <<registry, inventory, now>>

-----------------------------------------------------------------------------
(* Queries. *)

Deployments == DOMAIN deployments

\* Mutant: the earliest report counts as the latest.
Latest_Earliest(ds) == {d \in ds : \A o \in ds : deployments[o].reportedAt >= deployments[d].reportedAt}

\* ORDER BY reported_at DESC, created_at DESC LIMIT 1: any of the last ones.
Latest(ds) == {d \in ds : \A o \in ds : deployments[o].reportedAt <= deployments[d].reportedAt}

DeploymentsOf(service) == {d \in Deployments : deployments[d].service = service}
DeploymentsIn(environment) == {d \in Deployments : deployments[d].environment = environment}
EnvironmentsOf(service) == {deployments[d].environment : d \in DeploymentsOf(service)}

\* DISTINCT ON (service_id, environment): one latest deployment of each environment.
LatestDeployments(service) ==
  {pick \in [EnvironmentsOf(service) -> DeploymentsOf(service)] :
     \A e \in EnvironmentsOf(service) : pick[e] \in Latest(DeploymentsOf(service) \cap DeploymentsIn(e))}

Usages(d) == {[deployment |-> d, usage |-> u] : u \in deployments[d].usages}
AllUsages == UNION {Usages(d) : d \in Deployments}

CountByStatus(rows) == [status \in Status |-> Cardinality({x \in rows : x.usage.status = status})]

\* Mutant: the usages of all deployments are counted.
SummaryCounts_AllDeployments(service, pick) ==
  CountByStatus(UNION {Usages(d) : d \in DeploymentsOf(service)})

\* count(rmu.id) FILTER (WHERE drift_status = ...) over the latest deployments.
SummaryCounts(service, pick) == CountByStatus(UNION {Usages(pick[e]) : e \in DOMAIN pick})

\* ListRuntimeServices, with the environment and drift filters of the web UI.
ListRuntimeServices(environment, status) ==
  {s \in Services : /\ DeploymentsOf(s) # {}
                    /\ environment \in EnvironmentsOf(s)
                    /\ \E pick \in LatestDeployments(s) : SummaryCounts(s, pick)[status] > 0}

\* GetModuleRuntimeUsages: by name while there is no such module, then by its id.
GetModuleRuntimeUsages(m) ==
  {x \in AllUsages : x.usage.ref[1] = m /\ (m \in modules => x.usage.hasModule)}

\* ListRuntimeImpactByModuleVersion, whatever the deployment.
RuntimeImpact(mv) == {x \in AllUsages : x.usage.ref = mv /\ x.usage.hasVersion}

Next ==
  \/ \E m \in Modules : CreateModule(m)
  \/ \E mv \in MV : \/ \E t \in 1 .. Cardinality(MV) : Publish(mv, t)
                    \/ Deprecate(mv)
  \/ \E r \in Reporters :
       \/ \E in \in Inputs : BeginReport(r, in)
       \/ ResolveModule(r)
       \/ ResolveVersion(r)
       \/ ResolveLatest(r)
       \/ CommitReport(r)
       \/ AbortReport(r)

Spec == Init /\ [][Next]_vars

-----------------------------------------------------------------------------
(* Properties. *)

TypeOK ==
  /\ modules \subseteq Modules
  /\ \A mv \in Stored : mv[1] \in modules
  /\ Len(deployments) \in 0 .. MaxDeployments
  /\ Len(outbox) = Len(deployments)
  /\ \A d \in Deployments : \A u \in deployments[d].usages :
       u.ref \in MV /\ u.status \in Status /\ (u.hasVersion => u.hasModule)
  /\ now \in 1 .. MaxTime

\* The drift a report stores was true at some moment of the report, though module,
\* version and latest version are read one after the other while versions are
\* published and deprecated (resolveRuntimeUsage, service.go:248-306).  The module
\* page never shows a version as behind the latest beside itself as the latest
\* (GetModuleRuntimeUsages, uiquery/service.go:397-421).
DriftTruthful ==
  /\ \A d \in Deployments : \A u \in deployments[d].usages :
       CASE u.status = "unknown_version" -> u.ref \notin deployments[d].knew
         [] u.status = "deprecated_version" -> version[u.ref].deprecated
         [] u.status = "up_to_date" -> \A mv \in deployments[d].knew : mv[1] = u.ref[1] => ~Newer(mv, u.ref)
         [] u.status = "behind_latest" -> \E mv \in VersionsOf(u.ref[1]) : Newer(mv, u.ref)
  /\ \A m \in modules : \A x \in GetModuleRuntimeUsages(m) :
       x.usage.status = "behind_latest" => x.usage.ref \notin GetLatestByModule(m)

\* The drift counts of the service list are those that the events of the latest
\* deployments announced, and a service is found by each drift status that one of
\* them has (ListRuntimeServices, runtime_inventory.go:102-158).
CountsAnnounced ==
  \A s \in Services : \A pick \in LatestDeployments(s) : \A status \in Status :
    LET announced == MapThenSumSet(LAMBDA e : outbox[pick[e]][status], DOMAIN pick)
    IN /\ SummaryCounts(s, pick)[status] = announced
       /\ announced > 0 => \A e \in DOMAIN pick : s \in ListRuntimeServices(e, status)

\* A reported version that the registry had when the report began stays listed for
\* its module and in the runtime impact of that version (GetModuleRuntimeUsages and
\* ListRuntimeImpactByModuleVersion, runtime_inventory.go:200-263).
ReportedStaysListed ==
  \A d \in Deployments : \A x \in Usages(d) : x.usage.ref \in deployments[d].knew =>
    x \in RuntimeImpact(x.usage.ref) \cap GetModuleRuntimeUsages(x.usage.ref[1])

\* What the lists say of the reports is what was announced and reported.
SummaryAnnounced == CountsAnnounced /\ ReportedStaysListed

\* Of two reports of a service in an environment, the one that began after the other
\* was stored is the later one, though the time is taken before the transaction; only
\* equal readings of the clock leave the order open, as created_at repeats reported_at
\* (ReportRuntimeInventory, service.go:72-124).
LatestFollowsReports ==
  \A s \in Services, e \in Environments :
    LET reports == DeploymentsOf(s) \cap DeploymentsIn(e)
    IN \A d \in reports, o \in Latest(reports) :
         o <= deployments[d].after => deployments[o].reportedAt = deployments[d].reportedAt

=============================================================================
