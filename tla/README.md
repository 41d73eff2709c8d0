# ProtoRadar: a TLA+ verification project

ProtoRadar is a registry for protobuf modules: teams publish versions of their
modules, the server builds and stores them, checks proposed changes for breaking
ones, asks owners for approval and announces what happened through a
transactional outbox. This directory models the parts of it that carry its
guarantees, model-checks them with TLC and proves the most important of them with
TLAPS. Paths below are relative to the repository root.

## 1. The system

| Component | State | Operations | Interacts with |
|---|---|---|---|
| Outbox (`internal/outbox`, `internal/repository/postgres/outbox.go`) | table `outbox_records`; one publisher goroutine per server | Create, ClaimPending, MarkPublished, MarkFailed; Run, PublishOnce, dispatchRecord | every use case writes to it in its own transaction; a Dispatcher receives events |
| Governance (`internal/usecase/governance`) | owners, approval requests, requirements, decisions, audit events | add and remove owners, create a request for a breaking report, approve or reject a requirement, evaluate the policy | registry (reports), dependency graph and runtime inventory (policy inputs), outbox |
| Registry (`internal/usecase/registry`) | modules, versions, artifacts, GitLab links, breaking reports, tokens; objects in S3 | create, publish, deprecate, link, check breaking, tokens | object store, Buf workflow, outbox |
| Dependency graph (`internal/usecase/dependencygraph`) | edges and unresolved references of versions | store on publish, rebuild, list graph and affected modules | registry, governance |
| Runtime inventory (`internal/usecase/runtimeinventory`) | services, deployments, modules they use | report, drift, usages, impact | registry, governance |
| Merge request bot (`internal/usecase/gitlabmr`, `cli/gitlab_mr.go`) | none of its own; a comment and a commit status in GitLab | one run per CI job | API, GitLab |
| HTTP API (`internal/transport/http`, `identity`, `authorization`) | none; API tokens, counters | authenticate, decode, call, answer | use cases, clients |
| CLI (`internal/cli`, `cmd/protoradar`) | a configuration with a token | one call per command | HTTP API |
| Web UI (`internal/transport/web`, `internal/usecase/uiquery`) | none | read-only pages of many statements | all tables |
| Configuration (`internal/config`) | settings from defaults, file, environment | load, validate, map | server |
| Server (`internal/app/bootstrap`, `cmd/protoradar-server`) | HTTP server, connection pool, metrics, publisher | start, serve, shut down | all |

What is hard about them:

- *Outbox.* Several servers drain one table. Leases expire while a dispatch runs,
  marks go by id alone, a batch may be dropped in its middle, a process may die
  between a dispatch and its mark. Correct means: no event is lost, none is
  acknowledged before it got through, none is retried after it was given up on,
  and each one is settled in the end.
- *Governance.* A call reads in several statements outside any transaction and
  writes a status it computed from them. Correct means: one request per report,
  one decision per requirement, and approval only when everybody asked approved.
- *Registry.* A publish spans an object store without transactions and a database.
  Object keys are content-addressed and shared by calls with the same content.
  Correct means: one winner per version, no lost and no forgotten artifact, the
  first deprecation stands, one module per GitLab project.
- *Dependency graph and runtime inventory.* What is stored is derived from several
  reads while versions come and go, is never brought up to date later, and is
  ordered by times taken before the commit. Correct means: every reference is
  accounted for, what is said of drift was true while the report was made, and
  "latest" respects what came after what.
- *Merge request bot.* Jobs run concurrently against a server and a GitLab whose
  answers get lost. Correct means: no success without a passed check or an
  approval, exit code and status agree.
- *API and CLI.* The client gives up while the server goes on; the user repeats.
  Correct means: answers, messages and exit codes say what happened.
- *Pages.* A page is pieced together from many moments. Correct means: it does not
  contradict itself.
- *Server.* Requests and publisher share a small pool and a mutex; shutdown is a
  chain of bounded waits. Correct means: everybody is served, a signal ends the
  process, and exit code 0 means that nothing was cut off.

`PROJECT.json` lists the hazards at their lines, each with the properties aimed
at it.

## 2. Modules

| Module | Models | Notes |
|---|---|---|
| `Delivery` | what the outbox promises | abstract: accept, deliver (perhaps again), acknowledge |
| `Outbox` | `publisher.go`, `postgres/outbox.go`, start and stop of the publisher | implements `Delivery` |
| `OutboxProofs` | | theorems about `Outbox` |
| `Approval` | `approval_service.go`, owner operations of `service.go`, `postgres/governance.go` | |
| `ApprovalProofs` | | theorems about `Approval` |
| `Policy` | the reads behind a policy decision and `policy.go` | |
| `Catalog` | what the registry promises | abstract: create, publish, deprecate, link, report, each announced once |
| `Registry` | `usecase/registry/service.go`, its repositories, the object store | implements `Catalog` |
| `RegistryProofs` | | theorems about `Registry` |
| `DependencyGraph` | `usecase/dependencygraph`, `postgres/dependency_graph.go`, `dependency_queries.go` | |
| `DependencyGraphProofs` | | theorems about `DependencyGraph` |
| `RuntimeInventory` | `usecase/runtimeinventory`, `postgres/runtime_inventory.go` | |
| `RuntimeInventoryProofs` | | theorems about `RuntimeInventory` |
| `MergeRequestBot` | `usecase/gitlabmr`, `format/gitlabmr`, `gitlabapi`, `cli/gitlab_mr.go` | GitLab is external |
| `MergeRequestBotProofs` | | theorems about `MergeRequestBot` |
| `HttpApi` | routes, handlers, error mapping, authorizer, governance actor | pure operators |
| `CliApi` | commands, API client, messages, exit codes | pure operators; extends `HttpApi` |
| `Api` | one call from end to end | composes `CliApi`, `HttpApi` and a use case |
| `ApiProofs` | | theorems about `Api` |
| `Config` | `internal/config` and the defaults of its consumers | pure operators |
| `Server` | process, pool, metrics, requests, publisher | extends `Config` |
| `Tables` | rows, the statements that read them, the transactions that write them | pure queries and one action per transaction |
| `Pages` | `uiquery` and the web handlers | extends `Tables` |
| `ServingProofs` | | theorems about `Pages` and `Server` |
| `MC...` | | constants and symmetry for TLC |

The modules overlap where two questions are asked of one piece of code: a publish
is a race over artifacts in `Registry`, a source of edges in `DependencyGraph` and a
set of rows in `Tables`.

### Outbox

`row[r]` is the row of record `r`: status, attempts, `due` (available_at minus the
current time), `lease` (claim_expires_at minus the current time, or Null) and
whether published_at is set. `Tick` lets one unit of time pass. A statement uses
the clock its publisher read before sending it, so every statement has a lag
`late \in 0 .. MaxLate`; differences of more than MaxLate in the past cannot be
told apart by any statement and are identified, which keeps the state finite.

A publisher is at `idle` (in Run's select, or just before ClaimPending), `batch`
(between two records), `dispatching`, `succeeded` or `erred` (Dispatch has
returned, the mark is to be sent) or `stopped`. `batch[p]` holds the Attempts value
each claimed record came back with: it is what retryBackoff uses later, however old
it is by then. `ClaimPending` is one statement, with its ORDER BY, LIMIT and SKIP
LOCKED: rows another publisher may be marking at that moment are skipped or not.
`ClaimLost` is a claim that commits and whose answer is lost. `MarkErrors` is a mark
that returns an error with or without effect. `Cancel` is the cancellation of the
publisher's context, `Stop` its being noticed, `Crash` the end of the process
anywhere. The database does not fail on its own more than MaxFaults times together
with crashes and shutdowns.

`attempts` counts claims: a record whose batch was dropped before its turn has used
one without a dispatch, and an expired claim is taken again whatever the count.

A Dispatcher is any implementation that returns. The Community edition has only
the logging dispatcher, which does not fail; `docs/architecture.md` invites others.

### Approval

A call is named by an identifier, and so are the request and the decision it makes.
The pc of a call is the statement it sends next. Creation: `LookUp`, `Evaluate`,
`CommitRequest` or `RequestConflict`, `ReadExisting`. Decision: `ReadRequest`,
`ReadRequirements`, `CheckDecidable` (reads the decisions and checks),
`Authorize`, `CommitDecision` or `DecisionConflict`. Each transaction of the
service only writes, and conflicting ones are refused by a unique index, so it is
one action. The outcome of the policy is an arbitrary member of `PolicyResults`
each time it is evaluated. Requests with several requirements arise when the policy
also asks the owners of affected consumers, as in `approval_service_test.go:83`;
with the Community wiring `ListRuntimeImpactByModuleVersion` returns the changed
module only and a request has one requirement, the case of
`SingleRequirementExact`.

### Registry

A call publishes, deprecates, links or checks. `objects` is the set of keys in the
store; a Put or a Delete may fail, a Put with or without effect. `StartCleanup`
and `Cleanup` are `cleanupUploadedArtifacts`, key by key, with other calls in
between. `outbox` holds the dedup keys of the events written, each a guard of its
commit. A commit may take effect although the service gets an error. `Abandon` ends
a call anywhere: the server stops, or the client goes away and the context with it.
The Buf workflow is a choice between failure and success, and the image it builds is
a function of the source.

### Policy

`Begin`, `ReadModuleOwners`, `ListAffectedModules`, `ListRuntimeImpact` and one
`PolicyAffectedModule` per consumer are the reads of
`approvalPolicyContextForReport`; owners, dependencies and runtime reports change
between them. `CreateRequest` applies `EvaluatePolicy` to what was read. Names of
environments are compared after `Canonical` (trimmed, lower case).

### DependencyGraph

`publish[mv]` is the publish of a version under way: `BeginPublish` takes created_at,
`ReadIndex` reads the index of providers in the transaction, `CommitPublish` stores
version, edges, unresolved entries and the dedup key at once. A descriptor is what
it defines and what it refers to, each reference with the place it is made at.
`BeginRebuild` and `EndRebuild` are RebuildModuleVersionDependencies, whose second
event meets the dedup key. `BeginGraph`, `ReadGraph` and `EndGraph` are the three
statements of GetModuleDependencyGraph. `knew` of a version is a history variable:
what was stored when its publish began.

### RuntimeInventory

A report resolves its modules one after the other, three statements each
(`ResolveModule`, `ResolveVersion`, `ResolveLatest`), and commits deployment, usages
and event together. The clock may stand still between two reports. Where several
deployments have the last time, a query may answer with any of them: created_at
repeats reported_at and breaks no tie.

### MergeRequestBot

A job's pc is the call it makes next. A call of GitLab is carried out and answered,
carried out with its answer lost, or refused. `SelectExistingNote` chooses among the
first page of notes. The server's reports and approval requests belong to a job each,
as every run makes a report of its own.

### HttpApi, CliApi and Api

`Handlers` has one record per route: who may call it, the body it decodes, the errors
its use case can answer with, whether its change is made once (a unique index or a
dedup key), every time or never, and what a repetition finds. `Commands` has one
record per command: the request it sends and the messages it prints for a class of
answers. `Api` runs one call, with up to MaxAttempts repetitions: authentication, the
handler up to its transaction, the commit. Each attempt goes on at the server whether
its client waits or not.

### Config and Server

A setting takes values from classes that the code tells apart (two usable values,
blank, zero, malformed, ...). `LoadFile` merges defaults, file and environment and
decodes; `Validate` and `Runtime` follow; `NormalizePublisherOptions`, `NewWorkflow` and
`NewWebServer` are the defaults that the parts put in again. `Server` then has one
request per element of `Requests`, each of a kind that says what it needs of pool and
mutex; the pool is a number of connections (`MaxConns`) that pgx gives out. The
publisher's goroutine takes connections and the mutex like a request.

### Tables and Pages

`db` holds the tables the pages read. A page has a list of statements to run
(`FirstReads`, then what `Then` adds for a result), and what it got. Between two
statements any transaction of `Tables` may commit that writes rows of the page.
`before` is a copy of the tables as the page was asked for, so that properties can
say what must be on it. Each transaction is atomic here; what happens within it is the
matter of the other modules. A statement with an ORDER BY and a LIMIT returns its rows
`Sorted`: a row's place is one more than the number of rows that come before it, and rows
the order leaves equal come in any order.

## 3. Runs

| Run | Configuration | Checks |
|---|---|---|
| `outbox_safety` | 2 records, 2 publishers, batches of 2, lease 2, 2 attempts, lag 1, 1 fault | TypeOK, NoStrandedClaim, ClaimDispatchedOnce, DeadNeverRetried, ImplementsDelivery |
| `outbox_settles` | 1 record, 2 publishers, 3 attempts, 2 faults, fairness | Settles, RetrySpaced |
| `approval_safety` | 4 calls, 1 report, 2 modules, 1 actor, 2 owner changes | TypeOK, IdempotentCreation, ApprovalSound, OneDecisionPerRequirement, AuditExplainsStatus, SingleRequirementExact, DecisionsFinal |
| `registry_publish` | 4 calls, 2 modules, 1 version, 2 sources with the same image, 2 projects, 1 fault | RepliesTruthful (PublishOutcome, DeprecationAnswers), StoreAgrees (StoredUnlessContended, NoOrphans), LinksAnnounced, ImplementsCatalog |
| `dependency_graph` | 3 modules, 2 versions, 3 publishes, 1 request | ReferencesAccounted (with EdgeSound), AffectedOrReported, LatestRespectsOrder, AnswerWhole |
| `runtime_inventory` | 1 module, 2 versions, 1 service, 2 environments, 2 clients, 2 deployments | DriftTruthful, SummaryAnnounced, LatestFollowsReports |
| `merge_request_bot` | 2 jobs of one commit, one with governance, 3 notes, pages of 1 | GateHonest, DuplicatesExplained |
| `api` | all routes and commands, 2 tokens, 2 attempts | ActsAsPrincipal, AnswersTruthful, CommandTruthful (MessagesTruthful, ExitTruthful), RepeatsIdempotent |
| `server` | 2 requests in 5 mixes, 2 connections, the publisher on or off | ConfigKept, OrderlyStop (PublisherNotCutOff, PoolClosedAtExit, ExitZeroClean), ShutdownEnds, ServedUnlessStarved |
| `pages` | all pages, 2 modules, 2 versions, 2 services, 2 environments, 3 transactions | LatestHonest (OverviewConsistent, UsagesNotAhead), PageWhole (VersionPageWhole, ReportsListed, ReportPageWhole, DependenciesShown, RuntimePageWhole), ApprovalBacked, NotFoundHonest |

A property in front of parentheses is the conjunction of the named parts in them,
each stated with its own comment in the module. `TypeOK` of Outbox and Approval is
checked with the properties their theorems rest on; in the other modules it describes
the state for the reader and, where there is a `Proofs` module, is a theorem.

Two runs show where the code and what is written about it part:

| Run | What the counterexample shows |
|---|---|
| `registry_artifacts_deleted` | the loser of a publish race deletes the winner's artifacts (`docs/buf-workflow.md:3`) |
| `policy_consumers` | the owners of a consumer that runs in production are not asked (`docs/governance.md:80`) |

### Behaviours to know

The properties are worded so that they hold of the code. What they leave out on
purpose, because the code does it and nothing forbids it outright, or a document is
loose about it:

- Outbox: a late MarkFailed reopens a record that another publisher has published,
  and expired claims are dispatched beyond MaxAttempts (`docs/architecture.md:151`,
  `docs/configuration.md:231`); both need a Dispatcher that can fail or stall.
- Approval: two concurrent approvals of different requirements can leave a request
  pending with every requirement approved, and an approval that read earlier can write
  pending over rejected (`docs/governance.md:110`, `:125`). With one requirement per
  request, all that the Community wiring creates, neither happens
  (`SingleRequirementExact`).
- Registry: linking a module to its own or an earlier project again is refused as
  a conflict, by the dedup key of the record. The loser of a deprecation race gets a 500,
  although `docs/api.md:176` calls the operation idempotent; a call that begins
  after the first has committed does not (`RepeatsIdempotent`).
- Dependency graph: `RebuildModuleVersionDependencies`, which only tests call, always
  fails on a published version and is undone, because the publish has written the record
  with the same dedup key (`RebuildsAreUndone`); `TestRebuildReplacesOldDependencies`
  (`dependencygraph/service_test.go:187`) expects new rows, and gets them from an outbox
  without dedup keys. So a consumer published before its provider keeps its unresolved
  entry until its next version (`AffectedOrReported`). A deprecated version keeps its
  status, and stays the latest, a provider and an affected consumer.
- Runtime inventory: the impact of a version lists replaced deployments too
  (`docs/runtime-inventory.md:136`); a usage of a version that was unknown
  when it was reported stays unknown.
- Bot: each run makes a report, and with governance an approval request, of its own;
  a comment beyond the first page of notes is not found, and a job that finishes last
  has the last word whatever commit check is newer.
- API: a failing token lookup is answered as a wrong token. Two messages of the CLI can be
  wrong, because two errors share an answer; `Misleading` says when, and
  `CommandTruthful` that no other message is. "already linked to another module"
  (`module_commands.go:144`) is also printed when the module repeats a link of its own, as
  a retry after a lost answer does (`registry/service.go:219`); "server rejected the
  provided --actor" (`governance.go:323`) also when the server takes the actor, who may not
  decide the requirement (`approval_service.go:226`).
- Server: as many concurrent readers of metadata as connections block the pool for
  good; a scraper that does not read blocks every request at its counter; `ui.base_path: /`
  passes validation but leaves the API unmounted; the pool's Close waits for
  requests that outlived the drain, without a bound; a publisher that does not stop
  leaves the pool open at exit.
- Pages: an unknown module in the filter of the report list is a 500; a version
  published with lint warnings is shown as passed.

### Bounds

- *Outbox.* Two publishers are enough for a stale one and its successor, and three
  claims of one record happen. Lease 2 with lag 1 lets a lease expire while a dispatch
  runs, before it starts and not at all; two attempts let a record fail once and
  die once. Two records in a batch let one be dropped behind the other. In
  `outbox_settles` three attempts with backoffs 2 and 3 make the cap matter.
- *Approval.* Four calls cover one that creates and three that decide, or two that
  race to create and two that decide, with two requirements. Two owner changes let
  the actor become entitled and lose the role while a call is under way.
- *Registry.* Four calls cover a publish race of two with a deprecation race
  of two, three publishers and a check, or links of two modules back and forth. Two
  sources with one image let calls share the image key and not the source key.
- *DependencyGraph.* Three publishes cover a provider, a second one that makes the name
  ambiguous and a consumer, in any order and overlapping, or two versions of one of
  them. `MaxTime` is the number of publishes begun.
- *RuntimeInventory.* Two deployments are a report and the one that replaces it, or
  one in each environment; two clients make them overlap; two readings of the clock
  may be equal or not.
- *MergeRequestBot.* Two jobs overlap; with pages of one note, one comment of somebody
  else pushes the bot's off the page; three notes leave room for a duplicate.
- *Api.* Two attempts race; two tokens let the actor be another's.
- *Server.* Two connections and two requests let metadata readers take the whole
  pool; the mixes pair each kind with one that it can hold up.
- *Pages.* Limits of 1 (2 for lists of the runtime inventory) and two versions make
  every list overflow; three transactions are a publish, what depends on it and
  one more between the statements.
- `Symmetric` (`Symmetry`) permutes interchangeable elements; it is not used where
  liveness is checked.
- `CHECK_DEADLOCK FALSE` in the Approval, Registry, Policy, DependencyGraph,
  RuntimeInventory and MergeRequestBot runs: each call is made once or a bound ends
  them, and then nothing need happen. Outbox, Server, Api and Pages are checked for deadlock.

### Fairness

`FairSpec` of Outbox assumes weak fairness of `Tick` and of each publisher's `Step`:
time passes; Run's ticker calls PublishOnce again and again; a dispatch returns,
which `docs/architecture.md` asks of dispatchers ("must honor ... cancellation
promptly" and configure their own timeouts); a stopped server is started again by
its operator. Nothing is assumed about the outcome of a dispatch, or of faults other
than that they end (MaxFaults). `Settles` then says that each committed record is, from
some moment on, published or dead for good.

`ServerSpec` assumes that goroutines run, that timers of
main fire, and that the pool and the mutex serve those who wait in turn (strong
fairness: pgxpool's semaphore is first come, first served, and Go's mutex has its
starvation mode). Nothing makes a client read, send or leave, nor a dispatcher return;
`ShutdownEnds` has the premise that clients give up in the end, as the CLI's do. `ServedUnlessStarved`
has the premise that no client holds the metrics for good; a scrape that ends excuses
nothing.
The other modules state safety only: a call may be abandoned at any time.

## 4. Proofs

For every value of the constants that satisfies the named assumptions.

`OutboxProofs`: the inductive invariant `IInv` is TypeOK, NoStrandedClaim and
ClaimDispatchedOnce with three parts they do not imply: `BatchShape` (what a
publisher holds at each pc), `ClaimNumbers` (a claim held, or dispatched, has a
number between 1 and the row's attempts, so the next claim is new) and
`Acknowledged` (published_at is set only for delivered records, `succeeded`
is reached only after a delivery, and a dead row has used up its attempts). `TypeCorrect`, `ClaimsExpire` and
`ClaimsDispatchOnce` follow from it; `DeadIsFinal` is an action property proved
from it, step by step; `AtLeastOnce` shows that each step of Outbox is a step of
Delivery or a stutter under the mapping accepted = rows present,
acknowledged = published_at set. It is the induction over all numbers of
publishers and faults that TLC cannot do.

`ApprovalProofs`: `IInv` is TypeOK and OneDecisionPerRequirement with
`RequestRows` (what a call holds at each pc, and that a request row exists only once
the call that names it has returned), `SnapshotsOld` (what a deciding call has read
is old but not wrong: a requirement read as decided still is), `ApprovedRequirements`
(an approved request has each requirement approved, and whoever decided or is about to
had been granted a role) and `CreationReplies` (IdempotentCreation, and a call that
rereads after a conflict has something to find). `SnapshotsOld` is the heart of `ApprovalIsSound`: the status
is computed from a stale read, and approval is sound all the same because
approvals never go away, while the same staleness is why nothing of the kind
holds of `pending`. `CreationIsIdempotent`, `DecisionsAreUnique` and
`DecisionsStand` rest on the same invariant.

`AuditIsTruthful` and `SingleRequirementIsExact` need a second layer, `Trail`, on top
of it: a call that goes on to decide has read a pending request (`ReadPending`), an
approved request has exactly one such event and no other request has one
(`ApprovalAudited`), and SingleRequirementExact itself. With one requirement a stale
read is harmless because the only other decision would be on the same requirement,
which the unique index refuses.

`RetriesAreSpaced` of `OutboxProofs` is an action property: from the attempts a
publisher holds (`BatchShape`, `ClaimNumbers`) the backoff lies between its bounds, and
the lag of the statement shifts both ends.

`RegistryProofs`: `IInv` says of a call what it was asked for, that it has an answer
exactly from its cleanup on, and what is left to clean up (`CallOK`); that its answer
agrees with the row (`AnswerOK`); that a row is announced with its version and its
deprecation and was written by an answered call (`RowOK`); that a key of a stored
version or of a call about to commit is in the store or was given up by a call that
failed (`RowHeld`, `CallHeld`); and that without faults every object is referenced or
still has a call that will commit or delete it (`Owned`). `StoreAgreesWithTables` is
where the race for one key shows: the proof needs the failed call as a witness, and
there is none to be had in the tables alone. `FirstDeprecationIsKept` follows from
`RowOK`, because the dedup key guards a statement that would overwrite.
`RegistryIsCatalog` shows that each step of Registry is a step of Catalog or a stutter; the
mapping is read off the tables alone, so uploads, cleanups, answers and faults are all
stutters. A step of Catalog sends an event that was never sent, and what excludes
a second one is here the row, there the dedup key: `RowOK` and `LinksAnnounced` make the two agree, and
`Catalogued` says the same of modules and reports, that a call which made a report has
returned, and that a call publishes a version of a module that exists.

`DependencyGraphProofs`: `IInv` is built around `RowsOK`: the rows of a stored version
are the resolution of its references against *one* index of versions of other modules,
none begun after it was stored. It is kept by every later commit because rows
are never rewritten and stored versions keep descriptor and times. That a rebuild finds the
record of its version, and is undone, is `RebuildsAreUndone`.
`VersionOK` and `PublishOK` relate what was stored when a publish began to the time it
took, which gives `LatestIsOrdered`; `RequestOK` says that each read of a request was
whole. `AnswersAreWhole` then needs no transaction around the reads.

`RuntimeInventoryProofs`: `UsageOK` ties a usage to the versions known when its report
began and to those stored now: "unknown" and "up to date" speak about the past,
"behind" and "deprecated" about what stays true. `PartialOK` is the same between the
three reads of a reference, `ReportOK` adds the clock. All of it is monotone in
the versions stored, which is the argument of each step. `SummaryIsAnnounced` rests on
`Announced`: each event carries the counts of the usages stored with it. The sum over the
latest deployments is then the size of a union of disjoint sets; two functions that add the same
summand for the same chosen element are equal (`SumUnique`), by a set of least size on
which they would not be, so no induction over the fold is needed.

`MergeRequestBotProofs`: `JobKnows` (an answer that lets the change pass is final, one
that does not was given for a breaking report), `StatusBacked` (a status is set by a
started job of its commit), `ListKnown` (what a job about to write knows of the notes
when it listed them) and `RequestShape`, with GateHonest and DuplicatesExplained
themselves. SelectExistingNote is treated as a choice among a finite set of
positions by a well-founded order.

`ServingProofs` begins with `Pages`. `TablesInv` says that the tables are whole, now and as
the page was asked for (`TablesOK`: every row refers to rows that exist, a request's
status is explained by its requirements and its audit trail), and that between the two
they only grow (`Later`): one lemma for each transaction. `PageInv` relates each result to
the tables as they were before and as they are now (`ReadsOK`, with a clause for each kind of statement),
says which statements a page has left to run (`PageShape`) and that what a result calls for
was asked (`AskedAll`). Between statements any transaction may commit, so a result is never
compared with the tables of the moment it was read, only with what stays true. `PageIsWhole` follows
page by page from the complete invariant. `NotFoundIsHonest` adds `MissHonest`: a page
that finds nothing was asked for something not there before. `LatestIsHonest` and
`ApprovalIsBacked` compare two results of one page, so they depend on the order of the
statements: `Order` ranks them, and `Linked` says what a result read later means for
one read earlier (`Explains`). A usage is shown no newer than the latest version because
usages are read before; a decided requirement has its decision on the page because
decisions are read after. `SortedFacts` is the lemma about ORDER BY and LIMIT.

Then `Server`. `PoolFollows` is the pool's state at each place of main, with the publisher
over before it closes, and `CodeTruthful` says that the exit code is 0 as long as nothing went
wrong; `StopIsOrderly` follows. `ServerTypeCorrect` bounds the connections in use by
MaxConns: `UsersInv` says what each user holds at its place, that the pool has lent exactly that (a sum, which
`UnitsOf` turns into the cardinality of a set of pairs), that whoever writes metrics has
the mutex, and that a closed pool has everything back. `ConfigIsKept` is proved about the operators
of `Config`: for every file and environment, what passes LoadFile, Validate and Runtime
is not changed by the defaults that the components put in again.

`ApiProofs`: `RouterTable` and `CommandTable` are lemmas about the two tables, proved
row by row: what changes anything is behind authentication, the edition allows each
route's action, no use case answers what the middleware answers, the handler takes the body
its command sends, and a message about a class of answers is about every error
of that class but those in `Unsaid`. `Meant` ties the errors that share an answer to the
state: a repeated link is there, and the actor is accepted exactly when the error is the one
about deciding. `IInv` then needs to say only of an attempt that it has changed
nothing while it is under way and acts under a name it may use (`UnderWay`), what its
answer means (`Answered`), and that what it found is still there (`Found`); of the
counters, that they are the numbers of attempts answered so (`CountersOK`); and of the
client, that it shows the answer of its last attempt or a timeout (`ClientOK`).

The assumptions are those named in the modules: bounds and limits are natural numbers
(positive where the code's validation makes them so), Null is no value of the data, the
inputs are made of the sets they name, and the modules of Approval and the requests of
Server are finite. TLC evaluates them in every run.

Each invariant named here was checked by TLC with the constants of the module's run
before it was proved.

Only model-checked, and why:

- `Settles`, `ShutdownEnds` and `ServedUnlessStarved`: liveness under fairness. Every other
  property of a passing run is stated by a theorem.
- The two disagreements with the documents, which are counterexamples.

## 5. Not modelled

- *Workspace archives* (`internal/workspace`): unpacking with path checks and size
  limits is input and output of bytes in one goroutine; its outcome is a choice in
  Registry.
- *Buf workflow* (`internal/infrastructure/bufcli`): runs an external binary, with
  timeouts, and parses its output; its outcome is a choice. The extraction of
  metadata from a descriptor set is a parser.
- *Edition and generic audit log*: a constant list and a no-op.
- Of the configuration: a YAML section that is null, and the default that the
  constructor of the buf workflow (`bufcli/workflow.go:58`) also puts in for
  `breaking.max_report_bytes`; a value the validation passes never needs it.
- S3, GitLab, PostgreSQL's and pgx's own workings, goose: external, modelled by what the
  code relies on.
- Payloads, texts, templates, rendering, flag parsing, logs, request ids, the
  free-text and drift filters of the pages. Input
  validation that returns before any read changes nothing and is left out, or is one
  of the errors a handler answers with.

## 6. Plan

1. Abstract specifications of what approvals and the runtime inventory promise, which
   `Approval` and `RuntimeInventory` would be shown to implement, as `Outbox` implements
   `Delivery` and `Registry` implements `Catalog`.
2. Liveness of calls that nobody abandons, with the fairness of their steps.
