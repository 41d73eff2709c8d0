------------------------------- MODULE Pages -------------------------------
(***************************************************************************)
(* The pages of the web UI: the handlers of internal/transport/web over    *)
(* the queries of internal/usecase/uiquery.  A query runs its statements   *)
(* one after the other with no transaction around them, so what a page     *)
(* shows is pieced together from several moments, while the transactions   *)
(* of Tables commit in between.                                            *)
(*                                                                         *)
(* One page is loaded, of a kind and with an argument chosen at the start. *)
(* Only the transactions are taken that write rows the page reads, or rows *)
(* those transactions read: no statement of the page could tell the rest.  *)
(***************************************************************************)
EXTENDS Tables

CONSTANT MaxCommits  \* bound on the transactions

ASSUME PagesAssumption == MaxCommits \in Nat

VARIABLES
  page,    \* the page: its kind, argument, status, statements to run and results
  before,  \* the tables when the page was asked for
  commits  \* number of transactions

vars == <<db, page, before, commits>>

Optional(S) == S \cup {Null}
Statuses == {"passed", "breaking"}

\* Handler: the routes, with the values their path and their filters take.
Routes ==
  [about |-> {Null},
   modules |-> Optional(Modules),
   module |-> Modules, dependencies |-> Modules, usages |-> Modules,
   version |-> VersionIDs,
   reports |-> Optional(Modules) \X Optional(Statuses),
   report |-> {1}, approval |-> {1},
   services |-> Optional(Environments), service |-> Services, environment |-> Environments]

Shown == {"ok", "not_found", "error"}

-----------------------------------------------------------------------------
(* Statements. *)

Query(st, key) ==
  CASE st = "modules" -> ListModules
    [] st = "module" -> GetModuleByName(key)
    [] st = "version" -> GetByModuleAndVersion(key)
    [] st = "versions" -> ListVersionsByModule(key)
    [] st = "latest" -> GetLatestByModule(key)
    [] st = "artifacts" -> ListArtifacts(key)
    [] st = "config" -> GetBufConfig(key)
    [] st = "summary" -> GetMetadataSummary(key)
    [] st = "metadata" -> GetMetadata(key)
    [] st = "link" -> GetGitLabProject(key)
    [] st = "owners" -> ListOwners(key)
    [] st = "reports" -> ListReportsByModule(key)
    [] st = "report" -> GetReport(key)
    [] st = "changes" -> ListChangesByReport(key)
    [] st = "upstream" -> ListUpstreamByModule(key)
    [] st = "downstream" -> ListDownstreamByModule(key)
    [] st = "unresolved" -> ListUnresolvedByModule(key)
    [] st = "affected" -> ListAffectedModules(key)
    [] st = "impact" -> ListRuntimeImpact(key)
    [] st = "request" -> GetRequestByBreakingReportID(key)
    [] st = "requirements" -> ListRequirements(key)
    [] st = "decisions" -> ListDecisions(key)
    [] st = "audit" -> ListAudit(key)
    [] st = "services" -> ListRuntimeServices
    [] st = "service" -> GetRuntimeServiceByName(key)
    [] st = "deployments" -> ListDeploymentsByService(key)
    [] st = "deploymentsIn" -> ListDeploymentsByEnvironment(key)
    [] st = "usagesOf" -> ListUsagesByDeployment(key)
    [] st = "usages" -> ListModuleRuntimeUsages(key)

For(st, keys) == [i \in 1 .. Len(keys) |-> <<st, keys[i]>>]
All(sts, key) == [i \in 1 .. Len(sts) |-> <<sts[i], key>>]

\* moduleMatches: the name of one module as the query of the list.
Matching(list, filter) ==
  IF filter = Null THEN list ELSE IF filter \in ToSet(list) THEN <<filter>> ELSE <<>>

\* The details of each version of a list.
VersionReads(versions) ==
  [i \in 1 .. 3 * Len(versions) |->
     <<<<"artifacts", "config", "summary">>[((i - 1) % 3) + 1], versions[(i + 2) \div 3].id>>]

\* moduleOverview; a version's details are read for the module's own page.
ModuleOverviewReads(kind, m, versions) ==
  All(<<"reports", "owners">>, m)
  \o (IF kind = "modules" THEN <<>> ELSE VersionReads(versions))
  \o <<<<"link", m>>>>
  \o (IF versions = <<>> THEN <<<<"latest", m>>>> ELSE <<>>)

\* Mutant: the decisions are read before the requirements.
PopulateRequest_DecisionsFirst(id) == All(<<"decisions", "requirements">>, id)
PopulateRequest(id) == All(<<"requirements", "decisions">>, id)

\* Mutant: the latest version is read before the usages.
ModuleUsagesReads_LatestFirst(m) == All(<<"latest", "usages">>, m)
ModuleUsagesReads(m) == All(<<"usages", "latest">>, m)

\* The statements that a query runs first.
FirstReads(kind, arg) ==
  CASE kind = "about" -> <<>>
    [] kind = "modules" -> <<<<"modules", Null>>>>
    [] kind \in {"module", "dependencies", "usages"} -> <<<<"module", arg>>>>
    [] kind = "version" -> <<<<"module", arg[1]>>>>
    [] kind = "reports" ->
         IF arg[1] = Null THEN <<<<"modules", Null>>>> ELSE <<<<"module", arg[1]>>>>
    [] kind = "report" -> <<<<"report", arg>>>>
    [] kind = "approval" -> <<<<"request", arg>>>>
    [] kind = "services" -> <<<<"services", Null>>>>
    [] kind = "service" -> <<<<"service", arg>>>>
    [] kind = "environment" -> <<<<"deploymentsIn", arg>>>>

\* The statements that a query runs because of a result.
Then(kind, arg, st, key, result) ==
  CASE st = "modules" -> IF kind = "modules" THEN For("versions", Matching(result, arg))
                         ELSE For("reports", result)
    [] st = "module" /\ kind = "module" -> <<<<"versions", key>>>>
    [] st = "module" /\ kind = "version" -> <<<<"version", arg>>>>
    [] st = "module" /\ kind = "reports" -> <<<<"reports", key>>>>
    [] st = "module" /\ kind = "dependencies" -> All(<<"upstream", "downstream", "unresolved">>, key)
    [] st = "module" /\ kind = "usages" -> ModuleUsagesReads(key)
    [] st = "versions" -> ModuleOverviewReads(kind, key, result)
    [] st = "version" ->
         All(<<"artifacts", "config", "summary", "metadata">>, key) \o <<<<"reports", key[1]>>>>
    [] st = "report" -> <<<<"changes", key>>, <<"affected", result.base[1]>>,
                          <<"impact", result.base>>, <<"request", key>>>>
    [] st = "request" /\ result # Null ->
         PopulateRequest(key) \o (IF kind = "approval" THEN <<<<"audit", key>>>> ELSE <<>>)
    [] st = "service" -> <<<<"deployments", key>>>>
    [] st \in {"deployments", "deploymentsIn"} ->
         [i \in 1 .. Len(result) |-> <<"usagesOf", result[i].id>>]
    [] OTHER -> <<>>

\* Mutant: a module without versions has no usages page.
Required_Latest(kind) == {"module", "version", "report", "service", "latest"}
                         \cup (IF kind = "approval" THEN {"request"} ELSE {})
\* The statements whose ErrNotFound is the page's; elsewhere it stands for nothing
\* to show.
Required(kind) == {"module", "version", "report", "service"}
                  \cup (IF kind = "approval" THEN {"request"} ELSE {})

-----------------------------------------------------------------------------
(* Loading a page. *)

AskedFor(kind, arg) ==
  [kind |-> kind, arg |-> arg, status |-> "waiting", todo |-> <<>>, got |-> <<>>]

\* The registered modules have each a version, published in the order of names.
SeededTables(registered) ==
  LET ids == {<<m, Seeded>> : m \in registered}
      resolved == {x \in ids \X ids : Position(x[2][1]) < Position(x[1][1])}
      named == {x \in ids \X Modules : x[2] # x[1][1]}
  IN [Empty EXCEPT
        !.modules = registered,
        !.versions = {[id |-> mv, createdAt |-> 0] : mv \in ids},
        !.artifacts = {[version |-> mv, kind |-> k] : mv \in ids, k \in Kinds},
        !.configs = ids,
        !.metadata = ids,
        !.edges = {[consumer |-> x[1], provider |-> x[2], source |-> k] : x \in resolved, k \in Sources},
        !.unresolved = {[consumer |-> x[1], name |-> x[2]] :
                          x \in {y \in named : <<y[1], <<y[2], Seeded>>>> \notin resolved}}]

Init ==
  /\ \E kind \in DOMAIN Routes : \E arg \in Routes[kind] : page = AskedFor(kind, arg)
  /\ \E registered \in SUBSET Modules, count \in 0 .. 1 :
       LET seeded == SeededTables(registered)
           checked == <<ModuleNames[1], Seeded>>
       IN  IF page.kind \in {"report", "approval"}
           THEN /\ registered = Modules
                /\ db \in {seeded, ReportRows(seeded, checked, 0, 2 * count)}
           ELSE db = seeded
  /\ before = db
  /\ commits = 0

Begin ==
  /\ page.status = "waiting"
  /\ LET todo == FirstReads(page.kind, page.arg)
     IN  page' = [page EXCEPT !.todo = todo,
                              !.status = IF todo = <<>> THEN "ok" ELSE "loading"]
  /\ before' = db
  /\ UNCHANGED <<db, commits>>

\* The statement finds what it looks for, or may do without it.
ReadNext ==
  /\ page.status = "loading"
  /\ LET st == Head(page.todo)[1]
         key == Head(page.todo)[2]
         result == Query(st, key)
         todo == Then(page.kind, page.arg, st, key, result) \o Tail(page.todo)
     IN  /\ ~ (result = Null /\ st \in Required(page.kind))
         /\ page' = [page EXCEPT
              !.got = Append(@, [st |-> st, key |-> key, result |-> result]),
              !.todo = todo,
              !.status = IF todo = <<>> THEN "ok" ELSE @]
  /\ UNCHANGED <<db, before, commits>>

\* The lists answer any error with 500, an unknown module in their filter too.
MissNext ==
  /\ page.status = "loading"
  /\ Head(page.todo)[1] \in Required(page.kind)
  /\ Query(Head(page.todo)[1], Head(page.todo)[2]) = Null
  /\ page' = [page EXCEPT !.status = IF page.kind = "reports" THEN "error" ELSE "not_found"]
  /\ UNCHANGED <<db, before, commits>>

\* The statement fails.
FailNext ==
  /\ page.status = "loading"
  /\ page' = [page EXCEPT !.status = "error"]
  /\ UNCHANGED <<db, before, commits>>

Reload ==
  /\ page.status \in Shown
  /\ page' = AskedFor(page.kind, page.arg)
  /\ before' = db
  /\ UNCHANGED <<db, commits>>

\* What is written while a page of the kind is looked at.
Written(kind) ==
  CASE kind = "about" -> {}
    [] kind \in {"modules", "module"} -> {"module", "version", "report", "owner", "link"}
    [] kind \in {"version", "reports"} -> {"module", "version", "report"}
    [] kind = "dependencies" -> {"module", "version"}
    [] kind = "usages" -> {"module", "version", "runtime"}
    [] kind = "report" -> {"version", "report", "runtime", "approval"}
    [] kind = "approval" -> {"owner", "approval"}
    [] kind \in {"services", "service", "environment"} -> {"runtime"}

Commit(what) ==
  /\ page.status \notin Shown
  /\ what \in Written(page.kind)
  /\ commits < MaxCommits
  /\ commits' = commits + 1
  /\ UNCHANGED <<page, before>>

Next ==
  \/ Begin \/ ReadNext \/ MissNext \/ FailNext \/ Reload
  \/ \E m \in Modules :
       \/ Commit("module") /\ CreateModule(m)
       \/ Commit("owner") /\ (AddModuleOwner(m) \/ RemoveModuleOwner(m))
       \/ Commit("link") /\ LinkModuleGitLabProject(m)
  \/ \E mv \in VersionIDs, t \in 1 .. MaxTime :
       \/ Commit("version") /\ PublishModuleVersion(mv, t)
       \/ Commit("report") /\ \E count \in {0, 2} : StoreBreakingReport(mv, t, count)
  \/ \E targets \in SUBSET Modules : Commit("approval") /\ CreateApprovalRequest(1, targets)
  \/ \E m \in Modules, decision \in {"approved", "rejected"}, seen \in SUBSET db.requirements :
       Commit("approval") /\ RecordDecision(1, m, decision, seen)
  \/ \E s \in Services, e \in Environments, refs \in Inventories, t \in 1 .. MaxTime :
       Commit("runtime") /\ ReportRuntimeInventory(s, e, refs, t)

Spec == Init /\ [][Next]_vars

-----------------------------------------------------------------------------
(* What a page shows, of the results it was given. *)

Got(st, key) ==
  page.got[CHOOSE i \in DOMAIN page.got : page.got[i].st = st /\ page.got[i].key = key].result

ReportStatus(report) == IF report.count = 0 THEN "passed" ELSE "breaking"

\* The time of the module is the start of time.
LatestOrModuleTime(latest, reports) ==
  LET version == IF latest = Null THEN 0 ELSE latest.createdAt
  IN  IF reports # <<>> /\ reports[1].createdAt > version THEN reports[1].createdAt ELSE version

ModuleOverview(m) ==
  LET versions == Got("versions", m)
      reports == Got("reports", m)
      latest == IF versions = <<>> THEN Got("latest", m) ELSE versions[1]
  IN  [latest |-> latest, versions |-> versions, reports |-> reports,
       lastPublishedOrSeen |-> LatestOrModuleTime(latest, reports),
       lastBreakingStatus |-> IF reports = <<>> THEN Null ELSE ReportStatus(reports[1]),
       owners |-> Got("owners", m), link |-> Got("link", m)]

ModuleRows == [m \in ToSet(Matching(Got("modules", Null), page.arg)) |-> ModuleOverview(m)]

VersionRow(mv) ==
  [digests |-> Got("artifacts", mv), lint |-> Got("config", mv), counts |-> Got("summary", mv)]

ModuleDetailView ==
  LET versions == Got("versions", page.arg)
  IN  [overview |-> ModuleOverview(page.arg),
       versions |-> [i \in DOMAIN versions |-> VersionRow(versions[i].id)]]

VersionDetailView ==
  [version |-> VersionRow(page.arg), files |-> Got("metadata", page.arg),
   related |-> {r \in ToSet(Got("reports", page.arg[1])) : r.base = page.arg}]

\* Mutant: one row per module.
DependencyModules_ByModule(edges, side) ==
  {[version |-> (CHOOSE e \in edges : e[side][1] = m)[side], sources |-> Sources] :
     m \in {e[side][1] : e \in edges}}
\* dependencyModules: one row per version of a module, with all the sources.
DependencyModules(edges, side) ==
  {[version |-> mv, sources |-> {e.source : e \in {d \in edges : d[side] = mv}}] :
     mv \in {e[side] : e \in edges}}

ModuleDependencyView ==
  [upstream |-> DependencyModules(Got("upstream", page.arg), "provider"),
   downstream |-> DependencyModules(Got("downstream", page.arg), "consumer"),
   unresolved |-> {u.name : u \in Got("unresolved", page.arg)}]

NewestFirst(reports) == Newest(reports, Cardinality(reports))

ReportsOf(modules) == UNION {ToSet(Got("reports", m)) : m \in modules}

\* listReports and the filter on the status.
BreakingReportsView ==
  LET modules == IF page.arg[1] = Null THEN ToSet(Got("modules", Null)) ELSE {page.arg[1]}
  IN  NewestFirst({r \in ReportsOf(modules) : page.arg[2] \in {Null, ReportStatus(r)}})

\* The warnings repeat what the policy noted when the request was created.
ApprovalRequestView(request) ==
  LET requirements == Got("requirements", request.report)
  IN  [header |-> request, requirements |-> requirements,
       decisions |-> Got("decisions", request.report),
       warnings |-> {q.target : q \in {r \in requirements : r.warned}}]

BreakingReportDetailView ==
  LET report == Got("report", page.arg)
      request == Got("request", page.arg)
  IN  [report |-> report, changes |-> Got("changes", page.arg),
       affected |-> Got("affected", report.base[1]), impact |-> Got("impact", report.base),
       approval |-> {ApprovalRequestView(q) : q \in {request} \ {Null}}]

RuntimeDeploymentViews(deployments) ==
  [i \in DOMAIN deployments |-> [deployment |-> deployments[i],
                                 usages |-> Got("usagesOf", deployments[i].id)]]

ModuleRuntimeUsagesView ==
  [usages |-> Got("usages", page.arg), latest |-> Got("latest", page.arg)]

RuntimeServicesView ==
  LET rows == {s \in Got("services", Null) : page.arg \in {Null} \cup s.environments}
  IN  Sorted(rows, [s \in rows |-> s.last], Cardinality(rows))

-----------------------------------------------------------------------------
(* Properties. *)

ShownPage(kinds) == page.status = "ok" /\ page.kind \in kinds

\* Every statement of a page that is shown has run, and a page that is loading has
\* one to run.
TypeOK ==
  /\ page.kind \in DOMAIN Routes /\ page.arg \in Routes[page.kind]
  /\ page.status \in {"waiting", "loading"} \cup Shown
  /\ page.status \in {"waiting", "ok"} => page.todo = <<>>
  /\ page.status = "loading" => page.todo # <<>>
  /\ commits \in 0 .. MaxCommits
  /\ DOMAIN db = DOMAIN Empty /\ DOMAIN before = DOMAIN Empty

\* The module pages call the newest version the latest: no version that was stored
\* when the page was asked for is newer, and nothing on the page is newer than the
\* time the module was last seen (GetModuleOverview, which reads the versions and
\* the reports at different moments and the latest version at a third).
OverviewConsistent ==
  ShownPage({"modules", "module"}) =>
    \A m \in (IF page.kind = "module" THEN {page.arg} ELSE DOMAIN ModuleRows) :
      LET o == IF page.kind = "module" THEN ModuleDetailView.overview ELSE ModuleRows[m]
      IN  /\ \A v \in before.versions :
               v.id[1] = m => o.latest # Null /\ o.latest.createdAt >= v.createdAt
          /\ \A row \in ToSet(o.versions) \cup ToSet(o.reports) :
               row.createdAt <= o.lastPublishedOrSeen

\* A version that a page shows comes with its two artifacts, its buf configuration
\* and its metadata, however the page's reads fall around the publish.
VersionPageWhole ==
  /\ ShownPage({"module"}) => \A row \in ToSet(ModuleDetailView.versions) :
       row.digests = Kinds /\ row.lint /\ row.counts
  /\ ShownPage({"version"}) =>
       LET view == VersionDetailView
       IN  view.version.digests = Kinds /\ view.version.lint /\ view.version.counts /\ view.files

\* The list of reports is in the order of time, across modules, and a report that
\* was stored when the page was asked for is on it, or on the page of its version,
\* unless newer ones of its module fill the limit, or, where no module is asked for,
\* other modules fill that of the modules.
ReportsListed ==
  LET full(r) == Cardinality({x \in db.reports : x.base[1] = r.base[1] /\ Newer(x, r)}) >= ReportsLimit
      beyond(m) == Cardinality({o \in db.modules : Position(o) < Position(m)}) >= ListLimit
  IN  /\ ShownPage({"reports"}) =>
           LET list == BreakingReportsView IN
           /\ \A i, j \in DOMAIN list : i < j => ~ Newer(list[j], list[i])
           /\ \A r \in before.reports :
                \/ r \in ToSet(list) \/ full(r)
                \/ page.arg[1] = Null /\ beyond(r.base[1])
                \/ page.arg[1] \notin {Null, r.base[1]} \/ page.arg[2] \notin {Null, ReportStatus(r)}
      /\ ShownPage({"version"}) => \A r \in before.reports :
           r.base = page.arg => r \in VersionDetailView.related \/ full(r)

\* A report's page lists the changes that its header counts, up to the limit, and
\* the approval request and the deployments known when it was asked for.
ReportPageWhole ==
  ShownPage({"report"}) =>
    LET view == BreakingReportDetailView
        count == view.report.count
    IN  /\ Cardinality(view.changes) = IF count < ChangesLimit THEN count ELSE ChangesLimit
        /\ (\E q \in before.requests : q.report = page.arg) => view.approval # {}
        /\ {u \in before.usages : u.ref = view.report.base /\ u.known} \subseteq view.impact

\* The dependencies page accounts for every reference of the versions that were
\* published when it was asked for, in both directions and with every source,
\* although versions are published between its three statements.
DependenciesShown ==
  ShownPage({"dependencies"}) =>
    LET view == ModuleDependencyView IN
    /\ \A e \in before.edges :
         /\ e.consumer[1] = page.arg => [version |-> e.provider, sources |-> Sources] \in view.upstream
         /\ e.provider[1] = page.arg => [version |-> e.consumer, sources |-> Sources] \in view.downstream
    /\ \A u \in before.unresolved : u.consumer[1] = page.arg => u.name \in view.unresolved

\* What the header of an approval request says is backed by the rows below it: an
\* approved request shows every requirement approved, a rejected one a rejection,
\* no more approvals are counted than shown, a decided requirement shows its
\* decision, and the audit trail explains each decision and the status.  The four
\* statements are run while decisions are recorded (populateRequest,
\* GetApprovalRequestDetails).
ApprovalBacked ==
  ShownPage({"report", "approval"}) /\ Got("request", page.arg) # Null =>
    LET view == ApprovalRequestView(Got("request", page.arg))
        status == view.header.status
        decided(to) == {q \in view.requirements : q.status = to}
        audit == IF page.kind = "approval" THEN Got("audit", page.arg) ELSE {}
    IN  /\ status = "approved" => view.requirements = decided("approved")
        /\ status = "rejected" => decided("rejected") # {}
        /\ view.header.received <= Cardinality(decided("approved"))
        /\ \A q \in view.requirements : q.status # "pending" =>
             \E d \in view.decisions : d.target = q.target /\ d.decision = q.status
        /\ page.kind = "approval" =>
             /\ \A d \in view.decisions :
                  \E a \in audit : a.event = d.decision /\ a.target = d.target
             /\ status \in {"approved", "rejected"} =>
                  \E a \in audit : a.event = "status_changed" /\ a.target = status

Stored(tables) ==
  CASE page.kind \in {"module", "dependencies", "usages"} -> page.arg \in tables.modules
    [] page.kind = "version" -> \E v \in tables.versions : v.id = page.arg
    [] page.kind = "report" -> \E r \in tables.reports : r.id = page.arg
    [] page.kind = "approval" -> \E q \in tables.requests : q.report = page.arg
    [] page.kind = "service" -> page.arg \in tables.services
    [] OTHER -> TRUE

\* "Not found" is said only of what was not stored when the page was asked for, and
\* what a page shows is stored: a part that is missing on the way does not turn a
\* page into "not found".
NotFoundHonest ==
  /\ page.status = "not_found" => ~ Stored(before)
  /\ page.status = "ok" => Stored(db)

\* The usages page never shows a service on a version of the module that is newer
\* than the one it calls the latest (GetModuleRuntimeUsages reads the usages
\* first).
UsagesNotAhead ==
  ShownPage({"usages"}) =>
    LET view == ModuleRuntimeUsagesView
    IN  \A u \in view.usages, v \in db.versions :
          u.known /\ v.id = u.ref => view.latest # Null /\ view.latest.createdAt >= v.createdAt

\* A deployment on the page of a service or an environment shows the modules it was
\* reported with, and a deployment known when the page was asked for is on it
\* unless newer ones fill the limit; the list of services, filtered by environment
\* or not, has its service with a time no older.
RuntimePageWhole ==
  LET full(S, d) == Cardinality({x \in S : Newer(x, d)}) >= ListLimit
      here(d) == page.arg = IF page.kind = "service" THEN d.service ELSE d.environment
  IN  /\ ShownPage({"service", "environment"}) =>
           LET views == RuntimeDeploymentViews(
                 Got(IF page.kind = "service" THEN "deployments" ELSE "deploymentsIn", page.arg))
           IN  /\ \A view \in ToSet(views) : view.usages # {}
               /\ \A d \in {x \in before.deployments : here(x)} :
                    \/ \E view \in ToSet(views) : view.deployment = d
                    \/ full({x \in db.deployments : here(x)}, d)
      /\ ShownPage({"services"}) =>
           \A d \in before.deployments : page.arg \in {Null, d.environment} =>
             \E row \in ToSet(RuntimeServicesView) : row.service = d.service /\ row.last >= d.createdAt

\* What a page calls the latest version is the latest of all that it shows.
LatestHonest == OverviewConsistent /\ UsagesNotAhead

\* No page leaves out, for a commit between two of its statements, a part of what it
\* shows or a row that was stored when it was asked for.
PageWhole ==
  /\ VersionPageWhole
  /\ ReportsListed
  /\ ReportPageWhole
  /\ DependenciesShown
  /\ RuntimePageWhole

=============================================================================
