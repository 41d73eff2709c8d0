------------------------------ MODULE ApiProofs ------------------------------
(***************************************************************************)
(* Proofs about Api for every set of tokens, every number of repetitions   *)
(* and every choice of wired use cases.                                    *)
(***************************************************************************)
EXTENDS Api, FiniteSetTheorems, TLAPS

-----------------------------------------------------------------------------
(* What the router's table promises of every handler. *)

\* The answers of its use case.
UsecaseResults(h) == h.errors \cup {h.found, h.raced}

\* Only callers with a token change anything, the edition allows the action of
\* every route, no use case gives the answers the middleware gives, what is counted
\* is never refused with a 401 or 403 by its use case, and the two errors with a
\* misleading message come from the commit and from callers whose actor is resolved.
HandlerOK(h) ==
  /\ h.auth \in {"none", "bearer", "bootstrap"}
  /\ h.auth = "bearer" => CommunityActionAllowed(h.action)
  /\ h.effect # "none" => h.auth # "none"
  /\ h.ok \in 200 .. 299
  /\ h.metric \in BOOLEAN
  /\ "ok" \notin h.errors
  /\ UsecaseResults(h) \cap {"unauthorized", "forbidden", "bad_request"} = {}
  /\ h.metric => h.actor # "requested" /\ UsecaseResults(h) \cap ForbiddenErrors = {}
  /\ "ErrGitLabProjectLinkRepeated" \notin h.errors
  /\ {h.found, h.raced} \cap ForbiddenErrors = {}
  /\ "ErrGovernanceActorOverrideForbidden" \notin h.errors
  /\ "ErrApprovalActorForbidden" \in h.errors => h.actor = "requested"
  /\ h.actor = "requested" => h.auth = "bearer"

LEMMA ReadHandlers ==
  \A h \in {Health, Readiness, MetricsHandler, GetEdition, ListModules, GetModule,
            GetModuleGitLabProject, GetModuleDependencies, GetAffectedModules,
            ListModuleVersions, GetModuleVersion, GetModuleVersionMetadata,
            GetBreakingReport, GetBreakingReportAffectedModules, ListRuntimeServices,
            GetRuntimeServiceDetails, GetEnvironmentInventory, GetModuleRuntimeUsages,
            GetBreakingReportRuntimeImpact, ListBreakingReports, DownloadArtifact,
            ListModuleOwners, GetApprovalStatus, GetApprovalRequestAudit} : HandlerOK(h)
<1> USE DEF HandlerOK, UsecaseResults, Read, CommunityActionAllowed, VersionErrors, ModuleErrors,
        ForbiddenErrors
<1>1. /\ HandlerOK(Health) /\ HandlerOK(Readiness)
      /\ HandlerOK(MetricsHandler) /\ HandlerOK(GetEdition)
  BY DEF Health, Readiness, MetricsHandler, GetEdition
<1>2. /\ HandlerOK(ListModules) /\ HandlerOK(GetModule)
      /\ HandlerOK(GetModuleGitLabProject) /\ HandlerOK(GetModuleDependencies)
      /\ HandlerOK(GetAffectedModules)
  BY DEF ListModules, GetModule, GetModuleGitLabProject, GetModuleDependencies,
     GetAffectedModules
<1>3. /\ HandlerOK(ListModuleVersions) /\ HandlerOK(GetModuleVersion)
      /\ HandlerOK(GetModuleVersionMetadata) /\ HandlerOK(DownloadArtifact)
  BY DEF ListModuleVersions, GetModuleVersion, GetModuleVersionMetadata, DownloadArtifact
<1>4. /\ HandlerOK(GetBreakingReport) /\ HandlerOK(GetBreakingReportAffectedModules)
      /\ HandlerOK(GetBreakingReportRuntimeImpact) /\ HandlerOK(ListBreakingReports)
  BY DEF GetBreakingReport, GetBreakingReportAffectedModules,
     GetBreakingReportRuntimeImpact, ListBreakingReports
<1>5. /\ HandlerOK(ListRuntimeServices) /\ HandlerOK(GetRuntimeServiceDetails)
      /\ HandlerOK(GetEnvironmentInventory) /\ HandlerOK(GetModuleRuntimeUsages)
  BY DEF ListRuntimeServices, GetRuntimeServiceDetails, GetEnvironmentInventory,
     GetModuleRuntimeUsages
<1>6. /\ HandlerOK(ListModuleOwners) /\ HandlerOK(GetApprovalStatus)
      /\ HandlerOK(GetApprovalRequestAudit)
  BY DEF ListModuleOwners, GetApprovalStatus, GetApprovalRequestAudit
<1> HIDE DEF HandlerOK
<1> QED BY <1>1, <1>2, <1>3, <1>4, <1>5, <1>6

LEMMA WriteHandlers ==
  \A h \in {CreateModule, LinkModuleGitLabProject, PublishModuleVersion,
            DeprecateModuleVersion, CreateBreakingCheck, ReportRuntimeInventory,
            CreateAPIToken, AddModuleOwner, RemoveModuleOwner, CreateApprovalRequest,
            RecordApprovalDecision} : HandlerOK(h)
<1> USE DEF HandlerOK, UsecaseResults, Write, Read, CommunityActionAllowed, VersionErrors,
        ModuleErrors, ForbiddenErrors
<1>1. HandlerOK(CreateModule) /\ HandlerOK(LinkModuleGitLabProject)
  BY DEF CreateModule, LinkModuleGitLabProject
<1>2. HandlerOK(PublishModuleVersion)
  BY DEF PublishModuleVersion, ArchiveErrors
<1>3. HandlerOK(DeprecateModuleVersion)
  BY DEF DeprecateModuleVersion
<1>4. HandlerOK(CreateBreakingCheck)
  BY DEF CreateBreakingCheck, ArchiveErrors
<1>5. HandlerOK(ReportRuntimeInventory)
  BY DEF ReportRuntimeInventory
<1>6. HandlerOK(CreateAPIToken)
  BY DEF CreateAPIToken
<1>7. HandlerOK(AddModuleOwner) /\ HandlerOK(RemoveModuleOwner)
  BY DEF AddModuleOwner, RemoveModuleOwner
<1>8. HandlerOK(CreateApprovalRequest) /\ HandlerOK(RecordApprovalDecision)
  BY DEF CreateApprovalRequest, RecordApprovalDecision
<1> HIDE DEF HandlerOK
<1> QED BY <1>1, <1>2, <1>3, <1>4, <1>5, <1>6, <1>7, <1>8

LEMMA RouterTable == \A r \in DOMAIN Handlers : HandlerOK(Handlers[r])
BY ReadHandlers, WriteHandlers DEF Handlers

\* The two routes that are meant to be repeated answer "ok" to what is in force.
LEMMA Repeatable ==
  ASSUME NEW r \in {"deprecateModuleVersion", "createApprovalRequest"}
  PROVE  LET h == Handlers[r] IN
         /\ h.effect = "once" /\ h.found = "ok"
         /\ h.errors \cap {"ErrDuplicate", "ErrApprovalRequestConflict"} = {}
<1>1. LET h == DeprecateModuleVersion IN
      /\ h.effect = "once" /\ h.found = "ok"
      /\ h.errors \cap {"ErrDuplicate", "ErrApprovalRequestConflict"} = {}
  BY DEF DeprecateModuleVersion, Write, Read, VersionErrors, ModuleErrors
<1>2. LET h == CreateApprovalRequest IN
      /\ h.effect = "once" /\ h.found = "ok"
      /\ h.errors \cap {"ErrDuplicate", "ErrApprovalRequestConflict"} = {}
  BY DEF CreateApprovalRequest, Write, Read
<1>3. Handlers[r] \in {DeprecateModuleVersion, CreateApprovalRequest}
  BY DEF Handlers
<1> QED BY <1>1, <1>2, <1>3

-----------------------------------------------------------------------------
(* Statuses. *)

\* Success is the handler's own status; every error has a status of its class.
LEMMA StatusOK == \A h : Status(h, "ok") = h.ok
BY DEF Status

LEMMA StatusOther == \A h : Status(h, "other") = 500
BY DEF Status, WriteUsecaseError, ValidationErrors, NotFoundErrors, ConflictErrors,
       ForbiddenErrors

LEMMA StatusError ==
  ASSUME NEW h, NEW result, result # "ok"
  PROVE  /\ Status(h, result) \in {400, 401, 403, 404, 409, 413, 422, 500, 503}
         /\ Status(h, result) = 401 => result = "unauthorized"
         /\ Status(h, result) = 403 => result \in {"forbidden"} \cup ForbiddenErrors
         /\ Status(h, result) = 404 => result \in NotFoundErrors
         /\ Status(h, result) = 409 =>
              result \in ConflictErrors \cup {"ErrBaselineBufImageMissing"}
         /\ Status(h, result) = 413 => result \in {"payload_too_large", "ErrArtifactTooLarge"}
<1> DEFINE written == WriteUsecaseError(result)
<1>1. /\ written \in {400, 403, 404, 409, 413, 422, 500}
      /\ written = 403 => result \in ForbiddenErrors
      /\ written = 404 => result \in NotFoundErrors
      /\ written = 409 => result \in ConflictErrors \cup {"ErrBaselineBufImageMissing"}
      /\ written = 413 => result = "ErrArtifactTooLarge"
  BY DEF WriteUsecaseError, ForbiddenErrors
<1> HIDE DEF written
<1>2. Status(h, result) = CASE result = "unauthorized" -> 401
                            [] result = "forbidden" -> 403
                            [] result \in {"bad_request", "bad_expires_at"} -> 400
                            [] result = "payload_too_large" -> 413
                            [] result = "not_ready" -> 503
                            [] OTHER -> written
  BY DEF Status, written
<1> QED BY <1>1, <1>2

LEMMA StatusRefused ==
  \A h : Status(h, "unauthorized") = 401 /\ Status(h, "forbidden") = 403
BY DEF Status

LEMMA Decoded == \A h, body : DecodeBody(h, body) \in {"none", "payload_too_large", "bad_request"}
BY DEF DecodeBody

-----------------------------------------------------------------------------
(* What the table of commands promises of every command. *)

\* The answers its handler may give it.
AnswersTo(h) ==
  UsecaseResults(h)
    \cup {"ok", "unauthorized", "bad_request", "payload_too_large", "other"}
    \cup (IF h.actor = "requested" THEN {"ErrGovernanceActorOverrideForbidden"} ELSE {})

\* The errors of a class that its message is not about.
Unsaid(m) ==
  {err \in {"ErrGitLabProjectLinkRepeated"} : m = AlreadyLinked}
    \cup {err \in {"ErrApprovalActorForbidden"} : m = ActorRefused}

\* A message about a class of answers is about every other error of that class.
MessageOK(h, m) ==
  /\ m[1] \in {"ErrUnauthorized", "ErrForbidden", "ErrNotFound", "ErrConflict", "ErrTooLarge"}
  /\ m[1] = "ErrUnauthorized" => "unauthorized" \in m[2]
  /\ m[1] = "ErrForbidden" => AnswersTo(h) \cap ForbiddenErrors \subseteq m[2] \cup Unsaid(m)
  /\ m[1] = "ErrNotFound" => AnswersTo(h) \cap NotFoundErrors \subseteq m[2]
  /\ m[1] = "ErrConflict" =>
       AnswersTo(h) \cap (ConflictErrors \cup {"ErrBaselineBufImageMissing"}) \subseteq m[2] \cup Unsaid(m)
  /\ m[1] = "ErrTooLarge" => {"payload_too_large", "ErrArtifactTooLarge"} \subseteq m[2]

\* The body a command sends is one its handler takes.
BodyOK(h, q) ==
  /\ h.body = "multipart" => q.kind = "multipart" /\ "artifact" \in q.fields
  /\ h.body \in {"json", "optional"} => q.kind = "json" /\ q.fields \subseteq h.fields

\* The handler takes the body and the messages are about its answers.
Takes(h, command) ==
  /\ h.auth = "bearer"
  /\ BodyOK(h, command.request)
  /\ \A m \in command.says : MessageOK(h, m)

Serves(route, h) == route \in DOMAIN Handlers /\ Handlers[route] = h
Sends(command, route, h) == command.request.route = route /\ Takes(h, command)

LEMMA CommandTable ==
  \A c \in DOMAIN Commands :
    /\ Commands[c].request.route \in DOMAIN Handlers
    /\ Takes(Handlers[Commands[c].request.route], Commands[c])
    /\ Commands[c].request.route = "createBreakingCheck" => c = "checkBreaking"
<1>1. /\ Serves("listModules", ListModules)
      /\ Serves("getEdition", GetEdition)
      /\ Serves("createModule", CreateModule)
      /\ Serves("linkModuleGitLabProject", LinkModuleGitLabProject)
      /\ Serves("getModuleDependencies", GetModuleDependencies)
      /\ Serves("getAffectedModules", GetAffectedModules)
      /\ Serves("deprecateModuleVersion", DeprecateModuleVersion)
      /\ Serves("listModuleOwners", ListModuleOwners)
      /\ Serves("addModuleOwner", AddModuleOwner)
      /\ Serves("removeModuleOwner", RemoveModuleOwner)
      /\ Serves("publishModuleVersion", PublishModuleVersion)
      /\ Serves("downloadArtifact", DownloadArtifact)
      /\ Serves("createBreakingCheck", CreateBreakingCheck)
      /\ Serves("reportRuntimeInventory", ReportRuntimeInventory)
      /\ Serves("createApprovalRequest", CreateApprovalRequest)
      /\ Serves("getApprovalStatus", GetApprovalStatus)
      /\ Serves("approveRequirement", RecordApprovalDecision)
      /\ Serves("rejectRequirement", RecordApprovalDecision)
  BY DEF Serves, Handlers
<1> USE DEF Sends, Takes, BodyOK, MessageOK, AnswersTo, UsecaseResults, Request, Command, Read,
        Write, ModuleErrors, VersionErrors, ArchiveErrors, Unsaid
<1>2. Sends(Login, "listModules", ListModules)
  BY DEF Login, ClientCheckAuth, ListModules
<1>3. Sends(Edition, "getEdition", GetEdition)
  BY DEF Edition, ClientGetEdition, GetEdition
<1>4. Sends(ModuleCreate, "createModule", CreateModule)
  BY DEF ModuleCreate, ClientCreateModule, CreateModule, ConflictErrors
<1>5. Sends(List, "listModules", ListModules)
  BY DEF List, ClientListModules, ListModules
<1>6. Sends(LinkModuleGitLab, "linkModuleGitLabProject", LinkModuleGitLabProject)
  BY DEF LinkModuleGitLab, ClientLinkModuleGitLabProject, LinkModuleGitLabProject,
     Unauthorized, NotFound, AlreadyLinked, NotFoundErrors, ConflictErrors
<1>7. Sends(ModuleDependencies, "getModuleDependencies", GetModuleDependencies)
  BY DEF ModuleDependencies, ClientGetModuleDependencies, GetModuleDependencies,
     Unauthorized, NotFound, NotFoundErrors
<1>8. Sends(ModuleAffected, "getAffectedModules", GetAffectedModules)
  BY DEF ModuleAffected, ClientGetAffectedModules, GetAffectedModules, Unauthorized,
     NotFound, NotFoundErrors
<1>9. Sends(ModuleVersionDeprecate, "deprecateModuleVersion", DeprecateModuleVersion)
  BY DEF ModuleVersionDeprecate, ClientDeprecateModuleVersion,
     DeprecateModuleVersion, Unauthorized, NotFound, NotFoundErrors, ForbiddenErrors
<1>10. Sends(ModuleOwnersList, "listModuleOwners", ListModuleOwners)
  BY DEF ModuleOwnersList, ClientListModuleOwners, ListModuleOwners
<1>11. Sends(ModuleOwnersAdd, "addModuleOwner", AddModuleOwner)
  BY DEF ModuleOwnersAdd, ClientAddModuleOwner, AddModuleOwner, ActorRefused,
     ForbiddenErrors
<1>12. Sends(ModuleOwnersRemove, "removeModuleOwner", RemoveModuleOwner)
  BY DEF ModuleOwnersRemove, ClientRemoveModuleOwner, RemoveModuleOwner,
     ActorRefused, ForbiddenErrors
<1>13. Sends(Push, "publishModuleVersion", PublishModuleVersion)
  BY DEF Push, ClientPublishModuleVersion, PublishModuleVersion, NotFound,
     NotFoundErrors, ConflictErrors
<1>14. Sends(Pull, "downloadArtifact", DownloadArtifact)
  BY DEF Pull, ClientDownloadArtifact, DownloadArtifact, NotFound, NotFoundErrors
<1>15. Sends(CheckBreaking, "createBreakingCheck", CreateBreakingCheck)
  BY DEF CheckBreaking, ClientCheckBreaking, CreateBreakingCheck, Unauthorized,
     NotFoundErrors, ConflictErrors
<1>16. Sends(RuntimeReport, "reportRuntimeInventory", ReportRuntimeInventory)
  BY DEF RuntimeReport, ClientReportRuntimeInventory, ReportRuntimeInventory,
     Unauthorized
<1>17. Sends(ApprovalsRequest, "createApprovalRequest", CreateApprovalRequest)
  BY DEF ApprovalsRequest, ClientCreateApprovalRequest, CreateApprovalRequest,
     ActorRefused, ForbiddenErrors
<1>18. Sends(ApprovalsStatus, "getApprovalStatus", GetApprovalStatus)
  BY DEF ApprovalsStatus, ClientGetApprovalStatus, GetApprovalStatus
<1>19. Sends(ApprovalsApprove, "approveRequirement", RecordApprovalDecision)
  BY DEF ApprovalsApprove, ClientApproveRequirement, RecordApprovalDecision,
     ActorRefused, ForbiddenErrors
<1>20. Sends(ApprovalsReject, "rejectRequirement", RecordApprovalDecision)
  BY DEF ApprovalsReject, ClientRejectRequirement, RecordApprovalDecision,
     ActorRefused, ForbiddenErrors
<1> HIDE DEF Takes
<1> QED BY <1>1, <1>2, <1>3, <1>4, <1>5, <1>6, <1>7, <1>8, <1>9, <1>10, <1>11, <1>12,
        <1>13, <1>14, <1>15, <1>16, <1>17, <1>18, <1>19, <1>20, SMTT(30)
   DEF Commands, Serves, Sends

-----------------------------------------------------------------------------
(* The invariant. *)

Called == client.phase # "idle"

ResultNames == {"none"} \cup UNION {AnswersTo(Handlers[r]) : r \in DOMAIN Handlers}

AttemptRow ==
  [phase : {"unsent", "arrived", "handler", "committing", "answered"},
   principal : Tokens \cup {""}, actor : Tokens \cup {""}, found : BOOLEAN,
   result : ResultNames, verdict : {"none", "passed", "breaking"}, status : Nat]

Effect == [attempt : Attempts, actor : Tokens \cup {""},
           verdict : {"none", "passed", "breaking"}]

Typed ==
  /\ tokens \in [Tokens -> {"valid", "expired", "absent"}]
  /\ config \in {""} \cup Tokens
  /\ attempt \in [Attempts -> AttemptRow]
  /\ present \in BOOLEAN
  /\ effects \subseteq Effect
  /\ counted \in [success : Nat, error : Nat]
  /\ client \in [phase : {"idle", "waiting", "ended"}, attempt : 0 .. MaxAttempts,
                  succeeded : BOOLEAN, status : Nat, exit : 0 .. 2]

\* There is one call, of a route, and a command is the request its table says.
CallOK ==
  /\ ~Called => /\ call = NoCall /\ effects = {} /\ counted = [success |-> 0, error |-> 0]
                /\ \A i \in Attempts : attempt[i] = NoAttempt
  /\ Called => /\ client.attempt \in Attempts
               /\ call.route \in DOMAIN Handlers
               /\ call.actor \in Tokens \cup {""}
               /\ call.command # "none" =>
                    /\ call.command \in DOMAIN Commands
                    /\ call.route = Commands[call.command].request.route
                    /\ BodyOK(H, call.body)

\* Who gets past the middleware.
Admitted ==
  /\ H.auth = "bootstrap" => call.credential = "bootstrap"
  /\ H.auth = "bearer" => call.credential \in Tokens /\ tokens[call.credential] # "absent"

\* Under which names the caller may act.
ActsAs(actor) ==
  \/ actor = call.credential
  \/ override /\ H.actor = "requested" /\ actor = call.actor

RepeatedRoutes == {"deprecateModuleVersion", "createApprovalRequest"}
RepeatErrors == {"ErrDuplicate", "ErrApprovalRequestConflict"}

\* An attempt that is under way has changed nothing yet.
UnderWay(i) ==
  LET a == attempt[i] IN
  /\ a.phase # "answered" =>
       /\ a.result = "none" /\ a.status = 0 /\ a.verdict = "none"
       /\ \A e \in effects : e.attempt # i
  /\ i > client.attempt => a.phase = "unsent"
  /\ a.phase \in {"handler", "committing"} =>
       Admitted /\ (H.auth = "bearer" => a.principal = call.credential)
  /\ a.phase = "committing" =>
       H.effect # "none" /\ (H.auth = "bearer" => ActsAs(a.actor))

\* What the errors with a misleading message mean.
Meant(result) ==
  /\ result = "ErrGitLabProjectLinkRepeated" => present
  /\ result \in ForbiddenErrors => (ActorAccepted <=> result = "ErrApprovalActorForbidden")

\* What an answered attempt was answered, and has changed.
Answered(i) ==
  LET a == attempt[i] IN
  a.phase = "answered" =>
    /\ a.result \in AnswersTo(H) /\ a.status = Status(H, a.result)
    /\ a.result = "ok" => Admitted /\ (H.effect # "none" => present)
    /\ a.result = "bad_request" => call.command = "none"
    /\ Meant(a.result)
    /\ \A e \in effects : e.attempt = i =>
         a.result \in {"ok", "other"} /\ (a.result = "ok" => e.verdict = a.verdict)
    /\ a.verdict = "breaking" => \E e \in effects : e.attempt = i /\ e.verdict = "breaking"

\* What an attempt found in the tables is still there.
Found(i) ==
  LET a == attempt[i] IN
  a.found => /\ present
             /\ call.route \in RepeatedRoutes =>
                  a.phase # "committing" /\ a.result \notin RepeatErrors

EffectsOK ==
  /\ ActsAsPrincipal
  /\ \A e \in effects : e.verdict = "breaking" => call.route = "createBreakingCheck"

LetIn == {i \in Attempts : attempt[i].phase = "answered" /\ attempt[i].status \notin {401, 403}}
Succeeded == {i \in LetIn : attempt[i].status < 300}

CountersOK ==
  Called /\ H.metric => /\ counted.success = Cardinality(Succeeded)
                        /\ counted.error = Cardinality(LetIn \ Succeeded)

\* What the user sees is the answer of the last attempt, or a timeout.
ClientOK ==
  client.phase = "ended" =>
    IF client.status = 0 THEN ~client.succeeded /\ client.exit = 2
    ELSE LET a == attempt[client.attempt] IN
         /\ a.phase = "answered" /\ client.status = a.status
         /\ client.succeeded <=> ClientSucceeds(a.status)
         /\ client.exit = ExitCode(call.command, client.succeeded, a.verdict)
         /\ call.command = "login" /\ client.succeeded => config = call.credential

\* What every step preserves.
IInv == /\ Typed /\ CallOK /\ EffectsOK /\ CountersOK /\ ClientOK
        /\ \A i \in Attempts : UnderWay(i) /\ Answered(i) /\ Found(i)

LEMMA InvInit == Init => IInv
<1> SUFFICES ASSUME Init PROVE IInv
  OBVIOUS
<1>1. /\ ~Called /\ client = NoOutcome /\ call = NoCall /\ effects = {} /\ present = FALSE
      /\ counted = [success |-> 0, error |-> 0]
      /\ attempt = [i \in Attempts |-> NoAttempt]
  BY DEF Init, Called, NoOutcome
<1>2. /\ NoAttempt \in AttemptRow /\ NoAttempt.phase = "unsent" /\ NoAttempt.result = "none"
      /\ NoAttempt.status = 0 /\ NoAttempt.verdict = "none" /\ NoAttempt.found = FALSE
  BY DEF NoAttempt, AttemptRow, ResultNames
<1>3. client.phase = "idle" /\ client.attempt = 0
  BY <1>1 DEF NoOutcome
<1> HIDE DEF NoAttempt
<1>4. Typed
  <2>1. NoOutcome \in [phase : {"idle", "waiting", "ended"}, attempt : 0 .. MaxAttempts,
                       succeeded : BOOLEAN, status : Nat, exit : 0 .. 2]
    BY ApiAssumption DEF NoOutcome
  <2>2. counted \in [success : Nat, error : Nat]
    BY <1>1
  <2>3. attempt \in [Attempts -> AttemptRow]
    BY <1>1, <1>2
  <2>4. /\ tokens \in [Tokens -> {"valid", "expired", "absent"}]
        /\ config \in {""} \cup Tokens
    BY DEF Init
  <2> QED BY <1>1, <2>1, <2>2, <2>3, <2>4 DEF Typed
<1>5. CallOK
  BY <1>1 DEF CallOK
<1>6. EffectsOK /\ CountersOK /\ ClientOK
  BY <1>1, <1>3 DEF EffectsOK, ActsAsPrincipal, CountersOK, ClientOK
<1>7. \A i \in Attempts : UnderWay(i) /\ Answered(i) /\ Found(i)
  BY <1>1, <1>2 DEF UnderWay, Answered, Found
<1> QED BY <1>4, <1>5, <1>6, <1>7 DEF IInv

-----------------------------------------------------------------------------
(* Steps of the server, on one attempt. *)

LEMMA MeantKept ==
  ASSUME NEW result, Meant(result), UNCHANGED <<override, call>>, present => present'
  PROVE  Meant(result)'
<1>1. ActorAccepted' <=> ActorAccepted
  BY DEF ActorAccepted
<1> QED BY <1>1 DEF Meant

\* It suffices to look at the attempt, at the changes it makes and at the counters.
LEMMA InvServer ==
  ASSUME IInv, Called, NEW i \in Attempts,
         attempt[i].phase \notin {"unsent", "answered"},
         UNCHANGED <<override, tokens, config, call, client>>,
         NEW a \in AttemptRow, attempt' = [attempt EXCEPT ![i] = a],
         counted' \in [success : Nat, error : Nat], CountersOK',
         present' \in BOOLEAN, present => present',
         NEW new \in SUBSET Effect, effects' = effects \cup new,
         \A e \in new : /\ e.attempt = i
                        /\ e.verdict = "breaking" => call.route = "createBreakingCheck"
                        /\ IF H.auth = "bootstrap" THEN call.credential = "bootstrap"
                           ELSE call.credential \in Tokens /\ ActsAs(e.actor),
         UnderWay(i)', Answered(i)', Found(i)'
  PROVE  IInv'
<1>1. /\ attempt \in [Attempts -> AttemptRow] /\ attempt' \in [Attempts -> AttemptRow]
      /\ attempt'[i] = a
      /\ \A j \in Attempts \ {i} : attempt'[j] = attempt[j]
  BY DEF IInv, Typed
<1>2. Typed'
  BY <1>1 DEF IInv, Typed
<1>3. H' = H /\ Called'
  BY DEF H, Called
<1>4. CallOK'
  BY <1>3 DEF IInv, CallOK, Called
<1>5. EffectsOK'
  BY <1>3 DEF IInv, EffectsOK, ActsAsPrincipal, ActsAs
<1>6. ClientOK'
  <2>1. client.phase = "ended" /\ client.status # 0 =>
          /\ client.attempt # i /\ client.attempt \in Attempts
    BY DEF IInv, ClientOK, CallOK, Called
  <2> QED BY <1>1, <2>1 DEF IInv, ClientOK
<1>7. ASSUME NEW j \in Attempts \ {i} PROVE UnderWay(j)' /\ Answered(j)' /\ Found(j)'
  <2>1. attempt'[j] = attempt[j] /\ \A e \in effects' : e.attempt = j => e \in effects
    BY <1>1, <1>7
  <2>2. Admitted' = Admitted /\ \A x : ActsAs(x)' = ActsAs(x)
    BY <1>3 DEF Admitted, ActsAs
  <2>3. UnderWay(j)'
    BY <1>3, <2>1, <2>2 DEF IInv, UnderWay
  <2>4. Answered(j)'
    <3>1. Meant(attempt[j].result) => Meant(attempt[j].result)'
      BY <2>1, MeantKept DEF Meant
    <3> QED BY <1>3, <2>1, <2>2, <3>1 DEF IInv, Answered
  <2>5. Found(j)'
    BY <2>1 DEF IInv, Found
  <2> QED BY <2>3, <2>4, <2>5
<1> QED BY <1>2, <1>4, <1>5, <1>6, <1>7 DEF IInv

\* Steps that change nothing but the attempt and the counters.
LEMMA InvServerQuiet ==
  ASSUME IInv, Called, NEW i \in Attempts,
         attempt[i].phase \notin {"unsent", "answered"},
         UNCHANGED <<override, tokens, config, call, client, present, effects>>,
         NEW a \in AttemptRow, attempt' = [attempt EXCEPT ![i] = a],
         counted' \in [success : Nat, error : Nat], CountersOK',
         UnderWay(i)', Answered(i)', Found(i)'
  PROVE  IInv'
<1> DEFINE new == {}
<1>1. new \in SUBSET Effect /\ effects' = effects \cup new
  OBVIOUS
<1>2. present' \in BOOLEAN /\ (present => present')
  BY DEF IInv, Typed
<1>3. \A e \in new : FALSE
  OBVIOUS
<1> HIDE DEF new
<1> QED BY <1>1, <1>2, <1>3, InvServer

\* The attempt after Answer.
AnsweredRow(old, result, status) ==
  [old EXCEPT !.phase = "answered", !.result = result, !.status = status]

LEMMA AnsweredFields ==
  ASSUME NEW old \in AttemptRow, NEW result \in ResultNames, NEW status \in Nat
  PROVE  LET a == AnsweredRow(old, result, status) IN
         /\ a \in AttemptRow /\ a.phase = "answered" /\ a.result = result
         /\ a.status = status /\ a.verdict = old.verdict /\ a.found = old.found
BY DEF AttemptRow, AnsweredRow

\* The handler of a call.
LEMMA HandlerOfCall ==
  ASSUME IInv, Called PROVE HandlerOK(H) /\ AnswersTo(H) \subseteq ResultNames
<1>1. call.route \in DOMAIN Handlers
  BY DEF IInv, CallOK
<1>2. HandlerOK(H)
  BY <1>1, RouterTable DEF H
<1>3. AnswersTo(H) \subseteq ResultNames
  BY <1>1 DEF H, ResultNames
<1> QED BY <1>2, <1>3

\* An attempt that stays under way, or is refused by the middleware, is not counted.
LEMMA NotCounted ==
  ASSUME IInv, Called, NEW i \in Attempts, attempt[i].phase # "answered",
         UNCHANGED <<call, client, counted>>,
         NEW a, attempt' = [attempt EXCEPT ![i] = a],
         a.phase # "answered" \/ a.status \in {401, 403}
  PROVE  CountersOK'
<1>0. attempt \in [Attempts -> AttemptRow]
  BY DEF IInv, Typed
<1>1. attempt'[i] = a /\ \A j \in Attempts \ {i} : attempt'[j] = attempt[j]
  BY <1>0
<1>2. LetIn' = LetIn
  BY <1>1 DEF LetIn
<1>3. Succeeded' = Succeeded
  BY <1>1, <1>2 DEF Succeeded, LetIn
<1>4. H' = H /\ Called' = Called
  BY DEF H, Called
<1> QED BY <1>2, <1>3, <1>4 DEF IInv, CountersOK

LEMMA FiniteAttempts ==
  /\ IsFiniteSet(LetIn) /\ IsFiniteSet(Succeeded) /\ IsFiniteSet(LetIn \ Succeeded)
  /\ Succeeded \subseteq LetIn /\ LetIn \subseteq Attempts
<1>1. IsFiniteSet(Attempts)
  BY ApiAssumption, FS_Interval DEF Attempts
<1>2. Succeeded \subseteq LetIn /\ LetIn \subseteq Attempts /\ LetIn \ Succeeded \subseteq Attempts
  BY DEF LetIn, Succeeded
<1> QED BY <1>1, <1>2, FS_Subset

\* An attempt answered behind the middleware counts once, as what it was answered.
LEMMA CountedOnce ==
  ASSUME IInv, Called, NEW i \in Attempts, attempt[i].phase # "answered",
         UNCHANGED <<call, client>>,
         NEW result \in AnswersTo(H), result # "unauthorized",
         NEW a, attempt' = [attempt EXCEPT ![i] = a],
         a.phase = "answered", a.status = Status(H, result),
         counted' = IF H.metric THEN RecordMetric(result) ELSE counted
  PROVE  CountersOK' /\ counted' \in [success : Nat, error : Nat]
<1>1. counted \in [success : Nat, error : Nat] /\ H.metric \in BOOLEAN /\ HandlerOK(H)
  BY HandlerOfCall DEF IInv, Typed, HandlerOK
<1>2. counted' \in [success : Nat, error : Nat]
  BY <1>1 DEF RecordMetric
<1>3. H' = H /\ Called'
  BY DEF H, Called
<1>4. SUFFICES ASSUME H.metric PROVE CountersOK'
  BY <1>2, <1>3 DEF CountersOK
<1>5. /\ attempt'[i] = a /\ \A j \in Attempts \ {i} : attempt'[j] = attempt[j]
  BY DEF IInv, Typed
<1>6. a.status \notin {401, 403} /\ (a.status < 300 <=> result = "ok")
  <2>1. CASE result = "ok"
    BY <1>1, <2>1, StatusOK DEF HandlerOK
  <2>2. CASE result # "ok"
    <3>1. result \notin {"forbidden"} \cup ForbiddenErrors
      BY <1>1, <1>4 DEF HandlerOK, AnswersTo, ForbiddenErrors
    <3> QED BY <2>2, <3>1, StatusError
  <2> QED BY <2>1, <2>2
<1>7. i \notin LetIn /\ LetIn' = LetIn \cup {i}
  BY <1>5, <1>6 DEF LetIn
<1>8. /\ counted.success = Cardinality(Succeeded)
      /\ counted.error = Cardinality(LetIn \ Succeeded)
  BY <1>4 DEF IInv, CountersOK
<1>9. CASE result = "ok"
  <2>1. Succeeded' = Succeeded \cup {i}
    BY <1>5, <1>6, <1>7, <1>9 DEF Succeeded, LetIn
  <2>2. (LetIn \ Succeeded)' = LetIn \ Succeeded
    BY <1>7, <2>1
  <2>3. Cardinality(Succeeded') = Cardinality(Succeeded) + 1
    BY <1>7, <2>1, FiniteAttempts, FS_AddElement
  <2>4. counted'.success = counted.success + 1 /\ counted'.error = counted.error
    BY <1>1, <1>4, <1>9 DEF RecordMetric
  <2> QED BY <1>3, <1>8, <2>2, <2>3, <2>4 DEF CountersOK
<1>10. CASE result # "ok"
  <2>1. Succeeded' = Succeeded
    BY <1>5, <1>6, <1>7, <1>10 DEF Succeeded, LetIn
  <2>2. (LetIn \ Succeeded)' = (LetIn \ Succeeded) \cup {i}
    BY <1>7, <2>1, FiniteAttempts
  <2>3. Cardinality((LetIn \ Succeeded)') = Cardinality(LetIn \ Succeeded) + 1
    BY <1>7, <2>2, FiniteAttempts, FS_AddElement
  <2>4. counted'.error = counted.error + 1 /\ counted'.success = counted.success
    BY <1>1, <1>4, <1>10 DEF RecordMetric
  <2> QED BY <1>3, <1>8, <2>1, <2>3, <2>4 DEF CountersOK
<1> QED BY <1>9, <1>10

\* The middleware lets the caller in, or refuses it.
LEMMA InvAuthenticate == ASSUME IInv, NEW i \in Attempts, Authenticate(i) PROVE IInv'
<1> DEFINE c == call.credential
           old == attempt[i]
<1>1. /\ old.phase = "arrived" /\ old \in AttemptRow
      /\ UNCHANGED <<override, tokens, config, call, present, effects, client>>
  BY DEF Authenticate, IInv, Typed
<1>2. Called
  <2>1. NoAttempt.phase = "unsent"
    BY DEF NoAttempt
  <2> QED BY <1>1, <2>1 DEF IInv, CallOK
<1>3. HandlerOK(H) /\ AnswersTo(H) \subseteq ResultNames
  BY <1>2, HandlerOfCall
<1>4. present \in BOOLEAN /\ counted \in [success : Nat, error : Nat] /\ H' = H
      /\ UnderWay(i) /\ Found(i)
  BY <1>1 DEF IInv, Typed, H
<1>5. ASSUME NEW principal \in Tokens \cup {""}, Authenticated(i, principal), UNCHANGED counted,
             Admitted, H.auth = "bearer" => principal = c
      PROVE  IInv'
  <2> DEFINE a == [old EXCEPT !.phase = "handler", !.principal = principal, !.found = present]
  <2>1. /\ a \in AttemptRow /\ a.phase = "handler" /\ a.principal = principal
        /\ a.found = present /\ a.result = old.result /\ a.status = old.status
        /\ a.verdict = old.verdict
    BY <1>1, <1>4 DEF AttemptRow
  <2>2. attempt' = [attempt EXCEPT ![i] = a]
    BY <1>5 DEF Authenticated
  <2> HIDE DEF a
  <2>3. attempt'[i] = a
    BY <2>2 DEF IInv, Typed
  <2>4. CountersOK'
    BY <1>1, <1>2, <1>5, <2>1, <2>2, NotCounted
  <2>5. Admitted'
    BY <1>1, <1>5 DEF Admitted, H
  <2>6. UnderWay(i)'
    BY <1>1, <1>4, <1>5, <2>1, <2>3, <2>5 DEF UnderWay
  <2>7. Answered(i)'
    BY <2>1, <2>3 DEF Answered
  <2>8. Found(i)'
    BY <1>1, <1>4, <2>1, <2>3 DEF Found, UnderWay, RepeatErrors
  <2> QED BY <1>1, <1>2, <1>4, <1>5, <2>1, <2>2, <2>4, <2>6, <2>7, <2>8, InvServerQuiet
<1>6. ASSUME Answer(i, H, "unauthorized", FALSE) PROVE IInv'
  <2> DEFINE a == AnsweredRow(old, "unauthorized", 401)
  <2>1. "unauthorized" \in ResultNames /\ "unauthorized" \in AnswersTo(H)
    BY <1>3 DEF AnswersTo
  <2>2. /\ a \in AttemptRow /\ a.phase = "answered" /\ a.result = "unauthorized"
        /\ a.status = 401 /\ a.verdict = old.verdict /\ a.found = old.found
    BY <1>1, <2>1, AnsweredFields
  <2>3. attempt' = [attempt EXCEPT ![i] = a] /\ UNCHANGED counted
    <3>1. Status(H, "unauthorized") = 401
      BY StatusRefused
    <3> DEFINE status == Status(H, "unauthorized")
    <3>2. attempt' = [attempt EXCEPT ![i] = AnsweredRow(old, "unauthorized", status)]
      BY <1>6 DEF Answer, AnsweredRow
    <3> HIDE DEF status
    <3>3. attempt' = [attempt EXCEPT ![i] = a]
      BY <3>1, <3>2 DEF status
    <3> QED BY <1>6, <3>3 DEF Answer
  <2> HIDE DEF a
  <2>4. attempt'[i] = a
    BY <2>3 DEF IInv, Typed
  <2>5. CountersOK'
    BY <1>1, <1>2, <2>2, <2>3, NotCounted
  <2>6. UnderWay(i)'
    BY <1>1, <1>4, <2>2, <2>4 DEF UnderWay
  <2>7. Answered(i)'
    BY <1>1, <1>4, <2>1, <2>2, <2>4, StatusRefused DEF Answered, UnderWay, Meant, ForbiddenErrors
  <2>8. Found(i)'
    BY <1>1, <1>4, <2>2, <2>4 DEF Found, RepeatErrors
  <2> QED BY <1>1, <1>2, <1>4, <2>2, <2>3, <2>5, <2>6, <2>7, <2>8, InvServerQuiet
<1>7. \/ /\ H.auth = "none" \/ (H.auth = "bootstrap" /\ c = "bootstrap")
         /\ Authenticated(i, "") /\ UNCHANGED counted
      \/ /\ H.auth = "bearer" /\ c \in Tokens /\ tokens[c] = "valid"
         /\ Authenticated(i, c) /\ UNCHANGED counted
      \/ Answer(i, H, "unauthorized", FALSE)
  BY <1>3 DEF Authenticate, HandlerOK
<1> QED BY <1>5, <1>6, <1>7 DEF Admitted

\* An answer of the handler, to an attempt whose transaction, if it took effect at
\* all, is answered with an internal error.
LEMMA InvAnswer ==
  ASSUME IInv, Called, NEW i \in Attempts, attempt[i].phase \in {"handler", "committing"},
         UNCHANGED <<override, tokens, config, call, client>>,
         NEW result \in AnswersTo(H), result # "unauthorized",
         Answer(i, H, result, TRUE),
         present' \in BOOLEAN, present => present',
         NEW new \in SUBSET Effect, effects' = effects \cup new,
         new # {} => result = "other",
         \A e \in new : /\ e.attempt = i
                        /\ e.verdict = "breaking" => call.route = "createBreakingCheck"
                        /\ IF H.auth = "bootstrap" THEN call.credential = "bootstrap"
                           ELSE call.credential \in Tokens /\ ActsAs(e.actor),
         result = "ok" /\ H.effect # "none" => present',
         result = "bad_request" => call.command = "none", Meant(result),
         call.route \in RepeatedRoutes /\ attempt[i].found => result \notin RepeatErrors
  PROVE  IInv'
<1> DEFINE old == attempt[i]
           status == Status(H, result)
           a == AnsweredRow(old, result, status)
<1>1. HandlerOK(H) /\ result \in ResultNames /\ old \in AttemptRow
  BY HandlerOfCall DEF IInv, Typed
<1>2. status \in Nat
  BY <1>1, StatusOK, StatusError DEF HandlerOK
<1>3. /\ attempt' = [attempt EXCEPT ![i] = a]
      /\ counted' = IF H.metric THEN RecordMetric(result) ELSE counted
  BY DEF Answer, AnsweredRow
<1> HIDE DEF status
<1>4. /\ a \in AttemptRow /\ a.phase = "answered" /\ a.result = result
      /\ a.status = status /\ a.verdict = old.verdict /\ a.found = old.found
  BY <1>1, <1>2, AnsweredFields
<1> HIDE DEF a
<1>5. attempt'[i] = a /\ H' = H
  BY <1>3 DEF IInv, Typed, H
<1>6. CountersOK' /\ counted' \in [success : Nat, error : Nat]
  BY <1>3, <1>4, CountedOnce DEF status
<1>7. UnderWay(i) /\ Found(i) /\ Admitted /\ Admitted' = Admitted
  BY DEF IInv, UnderWay, Admitted, H
<1>8. /\ old.verdict = "none" /\ \A e \in effects : e.attempt # i
      /\ ~(i > client.attempt)
  BY <1>7 DEF UnderWay
<1>9. UnderWay(i)'
  BY <1>4, <1>5, <1>8 DEF UnderWay
<1>10. Answered(i)'
  <2>1. \A e \in effects' : e.attempt = i => result = "other"
    BY <1>8
  <2>2. Meant(result)'
    BY DEF Meant, ActorAccepted
  <2> QED BY <1>4, <1>5, <1>7, <1>8, <2>1, <2>2 DEF Answered, status
<1>11. Found(i)'
  BY <1>4, <1>5, <1>7 DEF Found
<1> QED BY <1>3, <1>4, <1>6, <1>9, <1>10, <1>11, InvServer

\* The same, when there is no transaction.
LEMMA InvAnswerQuiet ==
  ASSUME IInv, Called, NEW i \in Attempts, attempt[i].phase \in {"handler", "committing"},
         UNCHANGED <<override, tokens, config, call, client, present, effects>>,
         NEW result \in AnswersTo(H), result # "unauthorized",
         Answer(i, H, result, TRUE),
         result = "ok" /\ H.effect # "none" => present,
         result = "bad_request" => call.command = "none", Meant(result),
         call.route \in RepeatedRoutes /\ attempt[i].found => result \notin RepeatErrors
  PROVE  IInv'
<1> DEFINE new == {}
<1>1. new \in SUBSET Effect /\ effects' = effects \cup new /\ new = {}
  OBVIOUS
<1>2. present' \in BOOLEAN /\ (present => present')
  BY DEF IInv, Typed
<1>3. \A e \in new : FALSE
  OBVIOUS
<1> HIDE DEF new
<1> QED BY <1>1, <1>2, <1>3, InvAnswer

\* No command is refused for the form of its body.
LEMMA CommandDecodes ==
  ASSUME NEW h, NEW body, BodyOK(h, body) PROVE DecodeBody(h, body) # "bad_request"
BY DEF BodyOK, DecodeBody

LEMMA InvHandle == ASSUME IInv, NEW i \in Attempts, Handle(i) PROVE IInv'
<1> DEFINE old == attempt[i]
           decoded == DecodeBody(H, call.body)
           actor == IF H.actor = "requested"
                    THEN ResolveGovernanceActor(old.principal, call.actor, override)
                    ELSE [err |-> "none", subject |-> old.principal]
<1>1. /\ old.phase = "handler" /\ old \in AttemptRow
      /\ UNCHANGED <<override, tokens, config, call, present, effects, client>>
  BY DEF Handle, IInv, Typed
<1>2. Called
  <2>1. NoAttempt.phase = "unsent"
    BY DEF NoAttempt
  <2> QED BY <1>1, <2>1 DEF IInv, CallOK
<1>3. HandlerOK(H) /\ AnswersTo(H) \subseteq ResultNames
  BY <1>2, HandlerOfCall
<1>4. /\ UnderWay(i) /\ Found(i) /\ H' = H
      /\ call.actor \in Tokens \cup {""} /\ old.principal \in Tokens \cup {""}
      /\ counted \in [success : Nat, error : Nat]
  BY <1>1, <1>2 DEF IInv, Typed, CallOK, H, AttemptRow
<1>5. /\ actor.err \in {"none", "ErrGovernanceActorOverrideForbidden"}
      /\ actor.err # "none" => H.actor = "requested"
      /\ actor.err = "none" =>
           /\ actor.subject \in Tokens \cup {""}
           /\ \/ actor.subject = old.principal
              \/ override /\ H.actor = "requested" /\ actor.subject = call.actor
      /\ H.actor = "requested" =>
           (actor.err = "none" <=> override \/ call.actor \in {"", old.principal})
  BY <1>4 DEF ResolveGovernanceActor
<1>6. call.route \in RepeatedRoutes =>
        H.found = "ok" /\ H.effect = "once" /\ H.errors \cap RepeatErrors = {}
  BY Repeatable DEF RepeatedRoutes, RepeatErrors, H
<1> HIDE DEF actor, decoded
<1>6a. H.auth = "bearer" => old.principal = call.credential
  BY <1>1, <1>4 DEF UnderWay
<1>7. CASE Answer(i, H, "other", TRUE)
  <2>1. "other" \in AnswersTo(H) /\ "other" \notin RepeatErrors /\ Meant("other")
    BY DEF AnswersTo, RepeatErrors, Meant, ForbiddenErrors
  <2> QED BY <1>1, <1>2, <1>7, <2>1, InvAnswerQuiet
<1>8. CASE decoded # "none" /\ Answer(i, H, decoded, TRUE)
  <2>1. decoded \in {"payload_too_large", "bad_request"}
    BY <1>8, Decoded DEF decoded
  <2>2. decoded \in AnswersTo(H) /\ decoded \notin RepeatErrors /\ Meant(decoded)
    BY <2>1 DEF AnswersTo, RepeatErrors, Meant, ForbiddenErrors
  <2>3. decoded = "bad_request" => call.command = "none"
    BY <1>2, CommandDecodes DEF IInv, CallOK, decoded
  <2> QED BY <1>1, <1>2, <1>8, <2>1, <2>2, <2>3, InvAnswerQuiet
<1>9. CASE actor.err # "none" /\ Answer(i, H, actor.err, TRUE)
  <2>1. actor.err = "ErrGovernanceActorOverrideForbidden" /\ H.actor = "requested"
    BY <1>5, <1>9
  <2>2. /\ actor.err \in AnswersTo(H) /\ actor.err \notin RepeatErrors
        /\ actor.err \notin {"ok", "bad_request", "unauthorized"}
    BY <2>1 DEF AnswersTo, RepeatErrors
  <2>3. ~ ActorAccepted
    BY <1>3, <1>5, <1>6a, <1>9, <2>1 DEF ActorAccepted, HandlerOK
  <2>4. Meant(actor.err)
    BY <2>1, <2>3 DEF Meant
  <2> QED BY <1>1, <1>2, <1>9, <2>2, <2>4, InvAnswerQuiet
<1>10. ASSUME actor.err = "none", NEW err \in H.errors, Answer(i, H, err, TRUE) PROVE IInv'
  <2>1. err \in AnswersTo(H) /\ err \notin {"ok", "bad_request", "unauthorized"}
    BY <1>3 DEF AnswersTo, UsecaseResults, HandlerOK
  <2>2. call.route \in RepeatedRoutes => err \notin RepeatErrors
    BY <1>6
  <2>3. Meant(err)
    BY <1>3, <1>5, <1>6a, <1>10 DEF Meant, HandlerOK, ForbiddenErrors, ActorAccepted
  <2> QED BY <1>1, <1>2, <1>10, <2>1, <2>2, <2>3, InvAnswerQuiet
<1>11. CASE H.effect = "none" /\ Answer(i, H, "ok", TRUE)
  <2>1. "ok" \in AnswersTo(H) /\ "ok" \notin RepeatErrors /\ Meant("ok")
    BY DEF AnswersTo, RepeatErrors, Meant, ForbiddenErrors
  <2> QED BY <1>1, <1>2, <1>11, <2>1, InvAnswerQuiet
<1>12. CASE present /\ Answer(i, H, H.found, TRUE)
  <2>1. /\ H.found \in AnswersTo(H) /\ H.found \notin {"bad_request", "unauthorized"}
        /\ Meant(H.found)
    BY <1>3, <1>12 DEF AnswersTo, UsecaseResults, HandlerOK, Meant
  <2>2. call.route \in RepeatedRoutes => H.found \notin RepeatErrors
    BY <1>6 DEF RepeatErrors
  <2> QED BY <1>1, <1>2, <1>12, <2>1, <2>2, InvAnswerQuiet
<1>13. ASSUME H.effect # "none", ~(present /\ H.found # "commit"), actor.err = "none",
              attempt' = [attempt EXCEPT ![i].phase = "committing",
                                         ![i].actor = actor.subject],
              UNCHANGED counted
       PROVE  IInv'
  <2> DEFINE a == [old EXCEPT !.phase = "committing", !.actor = actor.subject]
  <2>1. /\ a \in AttemptRow /\ a.phase = "committing" /\ a.actor = actor.subject
        /\ a.principal = old.principal /\ a.found = old.found /\ a.result = old.result
        /\ a.status = old.status /\ a.verdict = old.verdict
    BY <1>1, <1>5, <1>13 DEF AttemptRow
  <2>2. attempt' = [attempt EXCEPT ![i] = a]
    BY <1>13
  <2> HIDE DEF a
  <2>3. attempt'[i] = a
    BY <2>2 DEF IInv, Typed
  <2>4. CountersOK'
    BY <1>1, <1>2, <1>13, <2>1, <2>2, NotCounted
  <2>5. Admitted /\ (H.auth = "bearer" => old.principal = call.credential)
    BY <1>1, <1>4 DEF UnderWay
  <2>6. H.auth = "bearer" => ActsAs(actor.subject)
    BY <1>5, <1>13, <2>5 DEF ActsAs
  <2>7. Admitted'
    BY <1>1, <2>5 DEF Admitted, H
  <2>8. UnderWay(i)'
    <3>1. H.auth = "bearer" => ActsAs(attempt[i].actor)'
      BY <1>1, <1>4, <2>1, <2>3, <2>6 DEF ActsAs
    <3> QED BY <1>1, <1>4, <1>13, <2>1, <2>3, <2>5, <2>7, <3>1 DEF UnderWay
  <2>9. Answered(i)'
    BY <2>1, <2>3 DEF Answered
  <2>10. Found(i)'
    BY <1>1, <1>4, <1>6, <1>13, <2>1, <2>3 DEF Found
  <2> QED BY <1>1, <1>2, <1>4, <1>13, <2>1, <2>2, <2>4, <2>8, <2>9, <2>10, InvServerQuiet
<1> QED BY <1>7, <1>8, <1>9, <1>10, <1>11, <1>12, <1>13 DEF Handle, actor, decoded

LEMMA InvCommit == ASSUME IInv, NEW i \in Attempts, Commit(i) PROVE IInv'
<1> DEFINE old == attempt[i]
           new(verdict) == [attempt |-> i, actor |-> old.actor, verdict |-> verdict]
<1>1. /\ old.phase = "committing" /\ old \in AttemptRow /\ present \in BOOLEAN
      /\ UNCHANGED <<override, tokens, config, call, client>>
  BY DEF Commit, IInv, Typed
<1>2. Called
  <2>1. NoAttempt.phase = "unsent"
    BY DEF NoAttempt
  <2> QED BY <1>1, <2>1 DEF IInv, CallOK
<1>3. HandlerOK(H) /\ AnswersTo(H) \subseteq ResultNames
  BY <1>2, HandlerOfCall
<1>4. UnderWay(i) /\ Found(i) /\ H' = H
  BY <1>1 DEF IInv, H
<1>5. call.route \in RepeatedRoutes => ~old.found
  BY <1>1, <1>4 DEF Found
<1>6. /\ "other" \in AnswersTo(H) /\ "ok" \in AnswersTo(H)
      /\ \A r \in {"other", "ok"} : Meant(r) /\ Meant(r)'
  BY DEF AnswersTo, Meant, ForbiddenErrors
<1>7. \A verdict \in Verdicts : /\ verdict \in {"none", "passed", "breaking"}
                                /\ verdict = "breaking" => call.route = "createBreakingCheck"
  BY DEF Verdicts
<1>8. ASSUME NEW verdict \in Verdicts
      PROVE  LET e == new(verdict) IN
             /\ e \in Effect /\ e.attempt = i /\ e.verdict = verdict
             /\ e.verdict = "breaking" => call.route = "createBreakingCheck"
             /\ IF H.auth = "bootstrap" THEN call.credential = "bootstrap"
                ELSE call.credential \in Tokens /\ ActsAs(e.actor)
  <2>1. old.actor \in Tokens \cup {""}
    BY <1>1 DEF AttemptRow
  <2>2. Admitted /\ H.effect # "none" /\ (H.auth = "bearer" => ActsAs(old.actor))
    BY <1>1, <1>4 DEF UnderWay
  <2>3. H.auth \in {"bearer", "bootstrap"}
    BY <1>3, <2>2 DEF HandlerOK
  <2>4. new(verdict) \in Effect /\ new(verdict).actor = old.actor
    BY <1>7, <2>1 DEF Effect
  <2> QED BY <1>7, <2>2, <2>3, <2>4 DEF Admitted
<1> HIDE DEF new
<1>9. ASSUME Answer(i, H, H.raced, TRUE), present, UNCHANGED <<present, effects>> PROVE IInv'
  <2>1. /\ H.raced \in AnswersTo(H) /\ H.raced \notin {"bad_request", "unauthorized"}
        /\ Meant(H.raced)
    BY <1>3, <1>9 DEF AnswersTo, UsecaseResults, HandlerOK, Meant
  <2> QED BY <1>1, <1>2, <1>5, <1>9, <2>1, InvAnswerQuiet
<1>10. ASSUME Answer(i, H, "other", TRUE), UNCHANGED <<present, effects>> PROVE IInv'
  BY <1>1, <1>2, <1>5, <1>6, <1>10, InvAnswerQuiet
<1>11. ASSUME NEW verdict \in Verdicts, Applied(i, verdict), Answer(i, H, "other", TRUE)
       PROVE  IInv'
  <2>1. present' = TRUE /\ effects' = effects \cup {new(verdict)}
    BY <1>11 DEF Applied, new
  <2>2. PICK added : added = {new(verdict)}
    OBVIOUS
  <2>3. added \in SUBSET Effect /\ effects' = effects \cup added /\ present' \in BOOLEAN
    BY <1>8, <2>1, <2>2
  <2>4. \A e \in added :
          /\ e.attempt = i
          /\ e.verdict = "breaking" => call.route = "createBreakingCheck"
          /\ IF H.auth = "bootstrap" THEN call.credential = "bootstrap"
             ELSE call.credential \in Tokens /\ ActsAs(e.actor)
    BY <1>8, <2>2
  <2> QED BY <1>1, <1>2, <1>5, <1>6, <1>11, <2>1, <2>3, <2>4, InvAnswer
<1>12. ASSUME NEW verdict \in Verdicts, Applied(i, verdict),
              counted' = IF H.metric THEN [counted EXCEPT !.success = @ + 1] ELSE counted,
              attempt' = [attempt EXCEPT ![i].phase = "answered", ![i].result = "ok",
                                         ![i].status = Status(H, "ok"), ![i].verdict = verdict]
       PROVE  IInv'
  <2> DEFINE status == Status(H, "ok")
             a == [old EXCEPT !.phase = "answered", !.result = "ok", !.status = status,
                              !.verdict = verdict]
  <2>1. status \in Nat
    BY <1>3, StatusOK DEF HandlerOK
  <2>2. attempt' = [attempt EXCEPT ![i] = a]
    BY <1>12
  <2> HIDE DEF status
  <2>3. /\ a \in AttemptRow /\ a.phase = "answered" /\ a.result = "ok" /\ a.status = status
        /\ a.verdict = verdict /\ a.found = old.found
    BY <1>1, <1>3, <1>6, <1>7, <2>1 DEF AttemptRow
  <2> HIDE DEF a
  <2>4. attempt'[i] = a
    BY <2>2 DEF IInv, Typed
  <2>5. present' = TRUE /\ effects' = effects \cup {new(verdict)}
    BY <1>12 DEF Applied, new
  <2>6. PICK added : added = {new(verdict)}
    OBVIOUS
  <2>7. /\ added \in SUBSET Effect /\ effects' = effects \cup added /\ present' \in BOOLEAN
        /\ \A e \in added :
             /\ e.attempt = i
             /\ e.verdict = "breaking" => call.route = "createBreakingCheck"
             /\ IF H.auth = "bootstrap" THEN call.credential = "bootstrap"
                ELSE call.credential \in Tokens /\ ActsAs(e.actor)
    BY <1>8, <2>5, <2>6
  <2>8. CountersOK' /\ counted' \in [success : Nat, error : Nat]
    <3>1. counted' = IF H.metric THEN RecordMetric("ok") ELSE counted
      BY <1>12 DEF RecordMetric
    <3>2. a.status = Status(H, "ok")
      BY <2>3 DEF status
    <3> QED BY <1>1, <1>2, <1>6, <2>2, <2>3, <3>1, <3>2, CountedOnce
  <2>9. Admitted /\ Admitted' = Admitted /\ \A e \in effects : e.attempt # i
    BY <1>1, <1>4 DEF UnderWay, Admitted
  <2>10. UnderWay(i)'
    BY <1>1, <1>4, <2>3, <2>4 DEF UnderWay
  <2>11. \A e \in effects' : e.attempt = i => e.verdict = verdict
    BY <1>8, <2>5, <2>9
  <2>12. new(verdict) \in effects' /\ new(verdict).attempt = i /\ new(verdict).verdict = verdict
    BY <1>8, <2>5
  <2>13. Answered(i)'
    BY <1>4, <1>6, <2>3, <2>4, <2>5, <2>9, <2>11, <2>12 DEF Answered, status
  <2>14. Found(i)'
    BY <1>1, <1>5, <2>3, <2>4, <2>5 DEF Found
  <2> QED BY <1>1, <1>2, <2>2, <2>3, <2>5, <2>7, <2>8, <2>10, <2>13, <2>14, InvServer
<1> QED BY <1>9, <1>10, <1>11, <1>12 DEF Commit

-----------------------------------------------------------------------------
(* Steps of the client, and of time. *)

LEMMA CountersKept ==
  ASSUME CountersOK, UNCHANGED <<call, attempt, counted>>, Called' = Called PROVE CountersOK'
<1>1. LetIn' = LetIn
  BY DEF LetIn
<1>2. Succeeded' = Succeeded
  BY <1>1 DEF Succeeded
<1> QED BY <1>1, <1>2 DEF CountersOK, H

LEMMA InvTokenExpires == ASSUME IInv, NEW t \in Tokens, TokenExpires(t) PROVE IInv'
<1>1. /\ tokens' = [tokens EXCEPT ![t] = "expired"] /\ tokens[t] = "valid"
      /\ UNCHANGED <<override, config, call, attempt, present, effects, counted, client>>
  BY DEF TokenExpires
<1>2. \A u \in Tokens : tokens[u] # "absent" => tokens'[u] # "absent"
  BY <1>1 DEF IInv, Typed
<1>3. Typed'
  BY <1>1 DEF IInv, Typed
<1>4. /\ CallOK' /\ ClientOK' /\ CountersOK'
  <2>1. Called' = Called /\ H' = H
    BY <1>1 DEF Called, H
  <2>2. CallOK'
    BY <1>1, <2>1 DEF IInv, CallOK
  <2>3. ClientOK'
    BY <1>1 DEF IInv, ClientOK
  <2> QED BY <1>1, <2>1, <2>2, <2>3, CountersKept DEF IInv
<1>5. EffectsOK'
  BY <1>1 DEF IInv, EffectsOK, ActsAsPrincipal, H
<1>6. Admitted => Admitted'
  BY <1>1, <1>2 DEF Admitted, H
<1>7. ASSUME NEW i \in Attempts PROVE UnderWay(i)' /\ Answered(i)' /\ Found(i)'
  <2>1. Meant(attempt[i].result) => Meant(attempt[i].result)'
    BY <1>1 DEF Meant, ActorAccepted
  <2>2. UnderWay(i)' /\ Found(i)'
    BY <1>1, <1>6 DEF IInv, UnderWay, Found, ActsAs, H
  <2>3. Answered(i)'
    BY <1>1, <1>6, <2>1 DEF IInv, Answered, H
  <2> QED BY <2>2, <2>3
<1> QED BY <1>3, <1>4, <1>5, <1>7 DEF IInv

\* What a step that leaves an attempt and the tables alone keeps of it.
LEMMA AttemptKept ==
  ASSUME NEW i \in Attempts, UnderWay(i), Answered(i), Found(i),
         UNCHANGED <<override, tokens, call, present, effects>>, attempt'[i] = attempt[i],
         i > client'.attempt => attempt[i].phase = "unsent"
  PROVE  UnderWay(i)' /\ Answered(i)' /\ Found(i)'
<1>1. H' = H
  BY DEF H
<1>2. Admitted' = Admitted
  BY <1>1 DEF Admitted
<1>3. UnderWay(i)'
  BY <1>1, <1>2 DEF UnderWay, ActsAs
<1>4. Answered(i)'
  BY <1>1, <1>2 DEF Answered, Meant, ActorAccepted
<1>5. Found(i)'
  BY <1>1 DEF Found
<1> QED BY <1>3, <1>4, <1>5

\* The user reads an answer or gives up: only what the user sees changes.
LEMMA InvClientEnds ==
  ASSUME IInv, client.phase = "waiting", UNCHANGED <<Server, attempt>>,
         client' \in [phase : {"idle", "waiting", "ended"}, attempt : 0 .. MaxAttempts,
                      succeeded : BOOLEAN, status : Nat, exit : 0 .. 2],
         client'.phase = "ended", client'.attempt = client.attempt,
         config' \in {""} \cup Tokens, ClientOK'
  PROVE  IInv'
<1>1. UNCHANGED <<override, tokens, call, present, effects, counted, attempt>>
  BY DEF Server
<1>2. Typed'
  BY <1>1 DEF IInv, Typed
<1>3. Called /\ Called' /\ H' = H
  BY <1>1 DEF Called, H
<1>4. CallOK'
  BY <1>1, <1>3 DEF IInv, CallOK
<1>5. EffectsOK'
  BY <1>1, <1>3 DEF IInv, EffectsOK, ActsAsPrincipal
<1>6. CountersOK'
  BY <1>1, <1>3, CountersKept DEF IInv
<1>8. ASSUME NEW i \in Attempts PROVE UnderWay(i)' /\ Answered(i)' /\ Found(i)'
  <2>1. i > client'.attempt => attempt[i].phase = "unsent"
    BY <1>8 DEF IInv, UnderWay
  <2> QED BY <1>1, <1>8, <2>1, AttemptKept DEF IInv
<1> QED BY <1>2, <1>4, <1>5, <1>6, <1>8 DEF IInv

LEMMA EndedRecord ==
  ASSUME client \in [phase : {"idle", "waiting", "ended"}, attempt : 0 .. MaxAttempts,
                     succeeded : BOOLEAN, status : Nat, exit : 0 .. 2],
         NEW succeeded \in BOOLEAN, NEW status \in Nat, NEW exit \in 0 .. 2,
         Ended(succeeded, status, exit)
  PROVE  /\ client' \in [phase : {"idle", "waiting", "ended"}, attempt : 0 .. MaxAttempts,
                          succeeded : BOOLEAN, status : Nat, exit : 0 .. 2]
         /\ client'.phase = "ended" /\ client'.attempt = client.attempt
BY DEF Ended

LEMMA InvReceive == ASSUME IInv, Receive PROVE IInv'
<1> DEFINE a == attempt[client.attempt]
           succeeded == ClientSucceeds(a.status)
           exit == ExitCode(call.command, succeeded, a.verdict)
<1>1. /\ client.phase = "waiting" /\ a.phase = "answered" /\ Ended(succeeded, a.status, exit)
      /\ config' = IF call.command = "login" /\ succeeded THEN call.credential ELSE config
      /\ UNCHANGED <<Server, attempt>>
  BY DEF Receive
<1>2. Called /\ client.attempt \in Attempts
  BY <1>1 DEF Called, IInv, CallOK
<1>3. a \in AttemptRow /\ a.status \in Nat /\ Answered(client.attempt)
  BY <1>2 DEF IInv, Typed, AttemptRow
<1>4. HandlerOK(H)
  BY <1>2, HandlerOfCall
<1>5. succeeded \in BOOLEAN /\ exit \in 0 .. 2
  BY DEF ClientSucceeds, ExitCode
<1>6. a.status = Status(H, a.result) /\ (succeeded => a.result = "ok") /\ a.status # 0
  <2>1. a.status = Status(H, a.result)
    BY <1>1, <1>3 DEF Answered
  <2>2. CASE a.result = "ok"
    BY <1>4, <2>1, <2>2, StatusOK DEF HandlerOK
  <2>3. CASE a.result # "ok"
    BY <2>1, <2>3, StatusError DEF ClientSucceeds
  <2> QED BY <2>1, <2>2, <2>3
<1>7. config' \in {""} \cup Tokens
  <2>1. CASE call.command = "login" /\ succeeded
    <3>1. Admitted
      BY <1>1, <1>3, <1>6, <2>1 DEF Answered
    <3>2. call.command \in DOMAIN Commands /\ call.route = Commands[call.command].request.route
      BY <1>2, <2>1 DEF IInv, CallOK
    <3>3. H.auth = "bearer"
      BY <3>2, CommandTable DEF H, Takes
    <3> QED BY <1>1, <2>1, <3>1, <3>3 DEF Admitted
  <2>2. CASE ~(call.command = "login" /\ succeeded)
    BY <1>1, <2>2 DEF IInv, Typed
  <2> QED BY <2>1, <2>2
<1>8. ClientOK'
  <2>1. /\ client'.phase = "ended" /\ client'.attempt = client.attempt
        /\ client'.status = a.status /\ client'.succeeded = succeeded /\ client'.exit = exit
    BY <1>1 DEF Ended, IInv, Typed
  <2>2. attempt' = attempt /\ call' = call
    BY <1>1 DEF Server
  <2> QED BY <1>1, <1>6, <2>1, <2>2 DEF ClientOK
<1>9. /\ client' \in [phase : {"idle", "waiting", "ended"}, attempt : 0 .. MaxAttempts,
                      succeeded : BOOLEAN, status : Nat, exit : 0 .. 2]
      /\ client'.phase = "ended" /\ client'.attempt = client.attempt
  <2> HIDE DEF succeeded, exit
  <2> QED BY <1>1, <1>3, <1>5, EndedRecord DEF IInv, Typed
<1> QED BY <1>1, <1>7, <1>8, <1>9, InvClientEnds

LEMMA InvClientTimeout == ASSUME IInv, ClientTimeout PROVE IInv'
<1>1. /\ client.phase = "waiting" /\ Ended(FALSE, 0, 2) /\ UNCHANGED <<Server, config, attempt>>
  BY DEF ClientTimeout
<1>2. client'.phase = "ended" /\ client'.status = 0 /\ client'.succeeded = FALSE /\ client'.exit = 2
  BY <1>1 DEF Ended, IInv, Typed
<1>3. ClientOK'
  BY <1>2 DEF ClientOK
<1>4. config' \in {""} \cup Tokens
  BY <1>1 DEF IInv, Typed
<1>5. /\ client' \in [phase : {"idle", "waiting", "ended"}, attempt : 0 .. MaxAttempts,
                      succeeded : BOOLEAN, status : Nat, exit : 0 .. 2]
      /\ client'.attempt = client.attempt
  <2>1. PICK no \in BOOLEAN : Ended(no, 0, 2)
    BY <1>1
  <2>2. 0 \in Nat /\ 2 \in 0 .. 2
    OBVIOUS
  <2> QED BY <2>1, <2>2, EndedRecord DEF IInv, Typed
<1> QED BY <1>1, <1>2, <1>3, <1>4, <1>5, InvClientEnds

LEMMA AttemptNumbers ==
  /\ 1 \in Attempts /\ 1 \in 0 .. MaxAttempts /\ ~(1 > 1)
  /\ \A n \in 0 .. MaxAttempts : n < MaxAttempts =>
       n + 1 \in Attempts /\ n + 1 \in 0 .. MaxAttempts /\ n + 1 > n
<1>1. MaxAttempts \in Nat /\ MaxAttempts # 0
  BY ApiAssumption
<1> QED BY <1>1 DEF Attempts

LEMMA WaitingRecord ==
  ASSUME NEW n \in 0 .. MaxAttempts, Waiting(n)
  PROVE  /\ client' \in [phase : {"idle", "waiting", "ended"}, attempt : 0 .. MaxAttempts,
                          succeeded : BOOLEAN, status : Nat, exit : 0 .. 2]
         /\ client'.phase = "waiting" /\ client'.attempt = n
<1>1. client' = [phase |-> "waiting", attempt |-> n, succeeded |-> FALSE, status |-> 0, exit |-> 0]
  BY DEF Waiting, NoOutcome
<1> QED BY <1>1

\* A repetition is an attempt that was not sent yet; what happened before stands.
LEMMA InvRetry == ASSUME IInv, Retry PROVE IInv'
<1>1. /\ client.phase = "ended" /\ client.attempt < MaxAttempts
      /\ UNCHANGED <<override, tokens, call, present, effects, counted, config>>
  BY DEF Retry, Server
<1>2. PICK n : n = client.attempt + 1
  OBVIOUS
<1>3. n \in Attempts /\ n \in 0 .. MaxAttempts /\ n > client.attempt
  <2>1. client.attempt \in 0 .. MaxAttempts
    BY DEF IInv, Typed
  <2> QED BY <1>1, <1>2, <2>1, AttemptNumbers
<1>4. Sent(n) /\ Waiting(n)
  BY <1>2 DEF Retry
<1>5. /\ attempt[n] \in AttemptRow /\ attempt[n].phase = "unsent" /\ attempt[n].result = "none"
      /\ attempt[n].status = 0 /\ attempt[n].verdict = "none"
      /\ \A e \in effects : e.attempt # n
  BY <1>3 DEF IInv, Typed, UnderWay
<1> DEFINE a == [attempt[n] EXCEPT !.phase = "arrived"]
<1>6. attempt' = [attempt EXCEPT ![n] = a]
  BY <1>4 DEF Sent
<1>7. /\ a \in AttemptRow /\ a.phase = "arrived" /\ a.result = "none" /\ a.status = 0
      /\ a.verdict = "none" /\ a.found = attempt[n].found
  BY <1>5 DEF AttemptRow
<1> HIDE DEF a
<1>8. attempt'[n] = a /\ \A i \in Attempts : i # n => attempt'[i] = attempt[i]
  BY <1>3, <1>6 DEF IInv, Typed
<1>9. client'.phase = "waiting" /\ client'.attempt = n
  BY <1>4 DEF Waiting, NoOutcome
<1>10. Called /\ Called' /\ H' = H
  BY <1>1, <1>9 DEF Called, H
<1>11. Typed'
  <2>1. attempt' \in [Attempts -> AttemptRow]
    BY <1>6, <1>7 DEF IInv, Typed
  <2>2. client' \in [phase : {"idle", "waiting", "ended"}, attempt : 0 .. MaxAttempts,
                     succeeded : BOOLEAN, status : Nat, exit : 0 .. 2]
    BY <1>3, <1>4, WaitingRecord
  <2> QED BY <1>1, <2>1, <2>2 DEF IInv, Typed
<1>12. CallOK'
  BY <1>1, <1>3, <1>9, <1>10 DEF IInv, CallOK
<1>13. EffectsOK' /\ ClientOK'
  BY <1>1, <1>9, <1>10 DEF IInv, EffectsOK, ActsAsPrincipal, ClientOK
<1>14. CountersOK'
  <2>1. LetIn' = LetIn
    <3>1. \A i \in Attempts :
            (attempt'[i].phase = "answered" /\ attempt'[i].status \notin {401, 403})
              <=> (attempt[i].phase = "answered" /\ attempt[i].status \notin {401, 403})
      BY <1>5, <1>7, <1>8
    <3> QED BY <3>1 DEF LetIn
  <2>2. Succeeded' = Succeeded
    <3>1. n \notin LetIn
      BY <1>5 DEF LetIn
    <3> QED BY <1>8, <2>1, <3>1 DEF Succeeded, LetIn
  <2> QED BY <1>1, <1>10, <2>1, <2>2 DEF IInv, CountersOK
<1>15. ASSUME NEW i \in Attempts, i # n PROVE UnderWay(i)' /\ Answered(i)' /\ Found(i)'
  <2>1. attempt'[i] = attempt[i] /\ (i > n => attempt[i].phase = "unsent")
    <3>1. i > client.attempt => attempt[i].phase = "unsent"
      BY <1>15 DEF IInv, UnderWay
    <3>2. i \in Nat /\ n \in Nat /\ client.attempt \in Nat
      <4>1. client.attempt \in 0 .. MaxAttempts
        BY DEF IInv, Typed
      <4> QED BY <1>3, <1>15, <4>1 DEF Attempts
    <3> QED BY <1>3, <1>8, <1>15, <3>1, <3>2
  <2> QED BY <1>1, <1>9, <1>15, <2>1, AttemptKept DEF IInv
<1>16. UnderWay(n)' /\ Answered(n)' /\ Found(n)'
  <2>1. UnderWay(n)'
    BY <1>1, <1>3, <1>5, <1>7, <1>8, <1>9 DEF UnderWay, Attempts
  <2>2. Answered(n)'
    BY <1>7, <1>8 DEF Answered
  <2>3. Found(n)
    BY <1>3 DEF IInv
  <2>4. Found(n)'
    BY <1>1, <1>3, <1>7, <1>8, <2>3 DEF Found, RepeatErrors
  <2> QED BY <2>1, <2>2, <2>4
<1> QED BY <1>11, <1>12, <1>13, <1>14, <1>15, <1>16 DEF IInv

\* The first call of the table's routes, with nothing sent before.
LEMMA InvCalled ==
  ASSUME IInv, client.phase = "idle", Sent(1), Waiting(1), present' \in BOOLEAN,
         UNCHANGED <<override, tokens, config, effects, counted>>,
         call'.route \in DOMAIN Handlers, call'.actor \in Tokens \cup {""},
         call'.command # "none" => /\ call'.command \in DOMAIN Commands
                                   /\ call'.route = Commands[call'.command].request.route
                                   /\ BodyOK(Handlers[call'.route], call'.body)
  PROVE  IInv'
<1>1. /\ effects = {} /\ counted = [success |-> 0, error |-> 0]
      /\ \A i \in Attempts : attempt[i] = NoAttempt
  BY DEF IInv, CallOK, Called
<1>2. 1 \in Attempts /\ 1 \in 0 .. MaxAttempts
  BY AttemptNumbers
<1> DEFINE a == [NoAttempt EXCEPT !.phase = "arrived"]
<1>3. attempt' = [attempt EXCEPT ![1] = a]
  BY <1>1, <1>2 DEF Sent
<1>4. /\ a \in AttemptRow /\ a.phase = "arrived" /\ a.result = "none" /\ a.status = 0
      /\ a.verdict = "none" /\ a.found = FALSE
  BY DEF AttemptRow, NoAttempt, ResultNames
<1>5. /\ NoAttempt.phase = "unsent" /\ NoAttempt.result = "none" /\ NoAttempt.status = 0
      /\ NoAttempt.verdict = "none" /\ NoAttempt.found = FALSE
  BY DEF NoAttempt
<1> HIDE DEF a
<1>6. attempt'[1] = a /\ \A i \in Attempts : i # 1 => attempt'[i] = NoAttempt
  BY <1>1, <1>2, <1>3 DEF IInv, Typed
<1>7. client'.phase = "waiting" /\ client'.attempt = 1 /\ Called'
  BY DEF Waiting, NoOutcome, Called
<1>8. Typed'
  <2>1. attempt' \in [Attempts -> AttemptRow]
    BY <1>3, <1>4 DEF IInv, Typed
  <2>2. client' \in [phase : {"idle", "waiting", "ended"}, attempt : 0 .. MaxAttempts,
                     succeeded : BOOLEAN, status : Nat, exit : 0 .. 2]
    BY <1>2, WaitingRecord
  <2> QED BY <2>1, <2>2 DEF IInv, Typed
<1>9. CallOK'
  BY <1>2, <1>7 DEF CallOK, H
<1>10. EffectsOK' /\ ClientOK'
  BY <1>1, <1>7 DEF EffectsOK, ActsAsPrincipal, ClientOK
<1>11. \A i \in Attempts : attempt'[i].phase \in {"unsent", "arrived"}
  BY <1>4, <1>5, <1>6
<1>12. CountersOK'
  <2>1. LetIn' = {}
    <3>1. \A i \in Attempts : attempt'[i].phase # "answered"
      BY <1>11
    <3> QED BY <3>1, Zenon DEF LetIn
  <2>2. Succeeded' = {} /\ (LetIn \ Succeeded)' = {}
    BY <2>1 DEF Succeeded
  <2>3. counted'.success = 0 /\ counted'.error = 0
    BY <1>1
  <2> QED BY <2>2, <2>3, FS_EmptySet DEF CountersOK
<1>13. ASSUME NEW i \in Attempts PROVE UnderWay(i)' /\ Answered(i)' /\ Found(i)'
  <2>1. /\ attempt'[i].result = "none" /\ attempt'[i].status = 0 /\ attempt'[i].verdict = "none"
        /\ ~attempt'[i].found /\ (i > 1 => attempt'[i].phase = "unsent")
    <3>1. CASE i = 1
      <4>1. attempt'[i] = a
        BY <1>6, <3>1, Zenon
      <4>2. ~(i > 1)
        BY <3>1, AttemptNumbers, Zenon
      <4> QED BY <1>4, <4>1, <4>2
    <3>2. CASE i # 1
      BY <1>5, <1>6, <1>13, <3>2
    <3> QED BY <3>1, <3>2
  <2>2. attempt'[i].phase \in {"unsent", "arrived"}
    BY <1>11, <1>13
  <2>3. UnderWay(i)'
    BY <1>1, <1>7, <2>1, <2>2 DEF UnderWay
  <2> QED BY <2>1, <2>2, <2>3 DEF Answered, Found
<1> QED BY <1>8, <1>9, <1>10, <1>12, <1>13 DEF IInv

LEMMA InvRunCommand ==
  ASSUME IInv, client.phase = "idle", NEW c \in DOMAIN Commands, NEW t \in Tokens,
         NEW actor \in Tokens \cup {""}, NEW size \in {"small", "large"}, NEW there \in BOOLEAN,
         RunCommand(c, t, actor, size, there)
  PROVE  IInv'
<1> DEFINE q == Commands[c].request
           fields == IF actor = "" THEN q.fields \ {"actor"} ELSE q.fields
           body == [kind |-> q.kind, size |-> size, fields |-> fields]
<1>1. /\ call' = [command |-> c, route |-> q.route, credential |-> t, actor |-> actor,
                  body |-> body]
      /\ present' = there /\ Sent(1) /\ Waiting(1)
      /\ UNCHANGED <<override, tokens, config, effects, counted>>
  BY DEF RunCommand
<1>2. q.route \in DOMAIN Handlers /\ BodyOK(Handlers[q.route], q)
  BY CommandTable DEF Takes
<1>3. fields \subseteq q.fields /\ ("artifact" \in q.fields => "artifact" \in fields)
  OBVIOUS
<1> HIDE DEF fields
<1>4. body.kind = q.kind /\ body.fields = fields
  OBVIOUS
<1> HIDE DEF q, body
<1>5. BodyOK(Handlers[q.route], body)
  BY <1>2, <1>3, <1>4 DEF BodyOK
<1>6. /\ call'.route = q.route /\ call'.command = c /\ call'.actor = actor /\ call'.body = body
  BY <1>1
<1>7. call'.route = Commands[call'.command].request.route
  BY <1>6 DEF q
<1> QED BY <1>1, <1>2, <1>5, <1>6, <1>7, InvCalled

LEMMA InvSendRequest ==
  ASSUME IInv, client.phase = "idle", NEW r \in DOMAIN Handlers, NEW c \in Credentials,
         NEW actor \in Tokens \cup {""}, NEW there \in BOOLEAN, NEW body,
         SendRequest(r, c, actor, body, there)
  PROVE  IInv'
<1>1. /\ call' = [command |-> "none", route |-> r, credential |-> c, actor |-> actor,
                  body |-> body]
      /\ present' = there /\ Sent(1) /\ Waiting(1)
      /\ UNCHANGED <<override, tokens, config, effects, counted>>
  BY DEF SendRequest
<1>2. call'.command = "none" /\ call'.route = r /\ call'.actor = actor
  BY <1>1
<1> QED BY <1>1, <1>2, InvCalled

LEMMA InvNext == ASSUME IInv, [Next]_vars PROVE IInv'
<1>1. CASE UNCHANGED vars
  <2>1. UNCHANGED <<override, tokens, config, call, attempt, present, effects, counted, client>>
    BY <1>1 DEF vars
  <2>2. Typed' /\ CallOK' /\ EffectsOK' /\ ClientOK'
    BY <2>1 DEF IInv, Typed, CallOK, Called, H, EffectsOK, ActsAsPrincipal, ClientOK
  <2>3. CountersOK'
    BY <2>1, CountersKept DEF IInv, Called
  <2>4. ASSUME NEW i \in Attempts PROVE UnderWay(i)' /\ Answered(i)' /\ Found(i)'
    <3>1. i > client'.attempt => attempt[i].phase = "unsent"
      BY <2>1, <2>4 DEF IInv, UnderWay
    <3> QED BY <2>1, <2>4, <3>1, AttemptKept DEF IInv
  <2> QED BY <2>2, <2>3, <2>4 DEF IInv
<1>2. ASSUME client.phase = "idle", NEW c \in DOMAIN Commands, NEW t \in Tokens,
             NEW actor \in Tokens \cup {""}, NEW size \in {"small", "large"},
             NEW there \in BOOLEAN, RunCommand(c, t, actor, size, there)
      PROVE  IInv'
  BY <1>2, InvRunCommand
<1>3. ASSUME client.phase = "idle", NEW r \in DOMAIN Handlers, NEW c \in Credentials,
             NEW actor \in Tokens \cup {""}, NEW there \in BOOLEAN,
             NEW body \in RequestBodies(Handlers[r]), SendRequest(r, c, actor, body, there)
      PROVE  IInv'
  BY <1>3, InvSendRequest
<1>4. CASE Receive
  BY <1>4, InvReceive
<1>5. CASE ClientTimeout
  BY <1>5, InvClientTimeout
<1>6. CASE Retry
  BY <1>6, InvRetry
<1>7. ASSUME NEW i \in Attempts, Authenticate(i) \/ Handle(i) \/ Commit(i) PROVE IInv'
  BY <1>7, InvAuthenticate, InvHandle, InvCommit
<1>8. ASSUME NEW t \in Tokens, TokenExpires(t) PROVE IInv'
  BY <1>8, InvTokenExpires
<1>9. CASE Done
  BY <1>1, <1>9 DEF Done
<1> QED BY <1>1, <1>2, <1>3, <1>4, <1>5, <1>6, <1>7, <1>8, <1>9, ZenonT(30) DEF Next

-----------------------------------------------------------------------------
(* What the invariant says to a caller. *)

\* An answered attempt: a success is the use case's, and what was changed was
\* changed by an attempt that succeeded or that failed with a 500.
LEMMA AnswerMeans ==
  ASSUME IInv, NEW i \in Attempts, attempt[i].phase = "answered"
  PROVE  /\ Called /\ Answered(i) /\ attempt[i].status = Status(H, attempt[i].result)
         /\ IF attempt[i].result = "ok" THEN attempt[i].status \in 200 .. 299
            ELSE attempt[i].status \in {400, 401, 403, 404, 409, 413, 422, 500, 503}
<1>1. Called
  <2>1. NoAttempt.phase = "unsent"
    BY DEF NoAttempt
  <2> QED BY <2>1 DEF IInv, CallOK
<1>2. Answered(i) /\ attempt[i].status = Status(H, attempt[i].result)
  BY DEF IInv, Answered
<1>3. HandlerOK(H)
  BY <1>1, HandlerOfCall
<1>4. CASE attempt[i].result = "ok"
  <2>1. attempt[i].status = H.ok
    BY <1>2, <1>4, StatusOK
  <2> QED BY <1>1, <1>2, <1>3, <1>4, <2>1 DEF HandlerOK
<1>5. CASE attempt[i].result # "ok"
  <2>1. Status(H, attempt[i].result) \in {400, 401, 403, 404, 409, 413, 422, 500, 503}
    BY <1>5, StatusError
  <2> QED BY <1>1, <1>2, <1>5, <2>1
<1> QED BY <1>4, <1>5

LEMMA InvAnswersTruthful == ASSUME IInv PROVE AnswersTruthful
<1>1. ASSUME NEW i \in Attempts, attempt[i].phase = "answered"
      PROVE  /\ attempt[i].status < 300 /\ H.effect # "none" => present
             /\ attempt[i].status \in 400 .. 499 => \A e \in effects : e.attempt # i
  <2> DEFINE status == attempt[i].status
             result == attempt[i].result
  <2>1. /\ Answered(i) /\ status = Status(H, result)
        /\ IF result = "ok" THEN status \in 200 .. 299
           ELSE status \in {400, 401, 403, 404, 409, 413, 422, 500, 503}
    BY <1>1, AnswerMeans
  <2>2. /\ result = "ok" => (H.effect # "none" => present)
        /\ \A e \in effects : e.attempt = i => result \in {"ok", "other"}
    BY <1>1, <2>1 DEF Answered
  <2>3. result = "other" => status = 500
    BY <2>1, StatusOther
  <2> HIDE DEF status, result
  <2>4. /\ status < 300 => result = "ok"
        /\ status \in 400 .. 499 => result \notin {"ok", "other"}
    BY <2>1, <2>3
  <2>5. /\ status < 300 /\ H.effect # "none" => present
        /\ status \in 400 .. 499 => \A e \in effects : e.attempt # i
    BY <2>2, <2>4
  <2> QED BY <2>5 DEF status
<1>2. call # NoCall => Called
  BY DEF IInv, CallOK
<1>3. call # NoCall /\ H.metric => /\ counted.success = Cardinality(Succeeded)
                                   /\ counted.error = Cardinality(LetIn \ Succeeded)
  BY <1>2 DEF IInv, CountersOK
<1> QED BY <1>1, <1>3 DEF AnswersTruthful, LetIn, Succeeded

LEMMA InvMessagesTruthful == ASSUME IInv PROVE MessagesTruthful
<1> SUFFICES ASSUME client.phase = "ended", client.status # 0, call.command \in DOMAIN Commands,
                    NEW m \in Commands[call.command].says,
                    Printed(m, client.status, call.actor, attempt[client.attempt].result)
             PROVE  LET result == attempt[client.attempt].result IN
                    \/ result \in m[2] /\ (m = ActorRefused => ~ ActorAccepted)
                    \/ Misleading(m, result)
  BY DEF MessagesTruthful
<1>1. PICK a : a = attempt[client.attempt]
  OBVIOUS
<1>2. Called /\ client.attempt \in Attempts
  BY DEF Called, IInv, CallOK
<1>3. a.phase = "answered" /\ client.status = a.status
  BY <1>1 DEF IInv, ClientOK
<1>4. /\ Answered(client.attempt) /\ a.status = Status(H, a.result)
      /\ a.result = "ok" => a.status \in 200 .. 299
  BY <1>1, <1>2, <1>3, AnswerMeans
<1>5. a.result \in AnswersTo(H)
  BY <1>1, <1>3, <1>4 DEF Answered
<1>6. MessageOK(H, m)
  <2>1. call.command # "none"
    BY DEF Commands
  <2>2. call.route = Commands[call.command].request.route
    BY <1>2, <2>1 DEF IInv, CallOK
  <2> QED BY <2>2, CommandTable DEF Takes, H
<1>7. a.result # "ok"
  <2>1. ASSUME a.status \in 200 .. 299 PROVE Unwrap(a.status) = "none"
    BY <2>1 DEF Unwrap
  <2> QED BY <1>3, <1>4, <1>6, <2>1 DEF MessageOK, Printed
<1>8. "forbidden" \notin AnswersTo(H)
  BY <1>2, HandlerOfCall DEF HandlerOK, AnswersTo
<1>9. /\ a.status = 401 => a.result = "unauthorized"
      /\ a.status = 403 => a.result \in ForbiddenErrors
      /\ a.status = 404 => a.result \in NotFoundErrors
      /\ a.status = 409 => a.result \in ConflictErrors \cup {"ErrBaselineBufImageMissing"}
      /\ a.status = 413 => a.result \in {"payload_too_large", "ErrArtifactTooLarge"}
  <2>1. a.status = 403 => a.result \in {"forbidden"} \cup ForbiddenErrors
    <3>1. Status(H, a.result) = 403 => a.result \in {"forbidden"} \cup ForbiddenErrors
      BY <1>7, StatusError
    <3> QED BY <1>4, <3>1
  <2>2. a.status = 403 => a.result \in ForbiddenErrors
    BY <1>5, <1>8, <2>1
  <2> QED BY <1>4, <1>7, <2>2, StatusError
<1>10. Unwrap(a.status) = m[1]
  BY <1>3 DEF Printed
<1>11. ASSUME a.status = 401 PROVE a.result \in m[2] \cup Unsaid(m)
  BY <1>6, <1>9, <1>10, <1>11, <1>1 DEF Unwrap, MessageOK
<1>12. ASSUME a.status = 403 PROVE a.result \in m[2] \cup Unsaid(m)
  BY <1>5, <1>6, <1>9, <1>10, <1>12, <1>1 DEF Unwrap, MessageOK
<1>13. ASSUME a.status = 404 PROVE a.result \in m[2] \cup Unsaid(m)
  BY <1>5, <1>6, <1>9, <1>10, <1>13, <1>1 DEF Unwrap, MessageOK
<1>14. ASSUME a.status = 409 PROVE a.result \in m[2] \cup Unsaid(m)
  BY <1>5, <1>6, <1>9, <1>10, <1>14, <1>1 DEF Unwrap, MessageOK
<1>15. ASSUME a.status = 413 PROVE a.result \in m[2] \cup Unsaid(m)
  BY <1>6, <1>9, <1>10, <1>15, <1>1 DEF Unwrap, MessageOK
<1>16. a.status \in {401, 403, 404, 409, 413}
  BY <1>6, <1>10 DEF Unwrap, MessageOK
<1>17. a.result \in m[2] \cup Unsaid(m)
  BY <1>11, <1>12, <1>13, <1>14, <1>15, <1>16
<1>18. Meant(a.result)
  BY <1>1, <1>3, <1>4 DEF Answered
<1>19. CASE a.result \in Unsaid(m)
  BY <1>1, <1>18, <1>19 DEF Unsaid, Meant, Misleading, ForbiddenErrors
<1>20. CASE a.result \in m[2] /\ m = ActorRefused
  <2>1. a.result = "ErrGovernanceActorOverrideForbidden"
    BY <1>20 DEF ActorRefused
  <2> QED BY <1>1, <1>18, <1>20, <2>1 DEF Meant, ForbiddenErrors
<1> QED BY <1>1, <1>17, <1>19, <1>20

LEMMA InvExitTruthful == ASSUME IInv PROVE ExitTruthful
<1> DEFINE verdicts == {e.verdict : e \in {x \in effects : x.attempt = client.attempt}}
<1> SUFFICES ASSUME client.phase = "ended", call.command # "none"
             PROVE  /\ client.exit = 0 => /\ H.effect # "none" => present
                                          /\ client.succeeded
                                          /\ "breaking" \notin verdicts
                                          /\ call.command = "login" => tokens[config] # "absent"
                    /\ client.exit = 1 => verdicts = {"breaking"}
  BY DEF ExitTruthful
<1>1. Called /\ client.attempt \in Attempts
  BY DEF Called, IInv, CallOK
<1>2. /\ call.command \in DOMAIN Commands
      /\ call.route = Commands[call.command].request.route
  BY <1>1 DEF IInv, CallOK
<1>3. CASE client.status = 0
  BY <1>3 DEF IInv, ClientOK
<1>4. CASE client.status # 0
  <2>1. PICK a : a = attempt[client.attempt]
    OBVIOUS
  <2>2. /\ a.phase = "answered" /\ client.status = a.status
        /\ client.succeeded <=> ClientSucceeds(a.status)
        /\ client.exit = ExitCode(call.command, client.succeeded, a.verdict)
        /\ call.command = "login" /\ client.succeeded => config = call.credential
    BY <1>4, <2>1 DEF IInv, ClientOK
  <2>3. /\ Answered(client.attempt)
        /\ IF a.result = "ok" THEN a.status \in 200 .. 299
           ELSE a.status \in {400, 401, 403, 404, 409, 413, 422, 500, 503}
    BY <1>1, <2>1, <2>2, AnswerMeans
  <2>4. client.succeeded => a.result = "ok"
    BY <2>2, <2>3 DEF ClientSucceeds
  <2>5. client.exit \in {0, 1} => client.succeeded
    BY <2>2 DEF ExitCode
  <2>6. client.exit \in {0, 1} =>
          /\ Admitted /\ (H.effect # "none" => present)
          /\ \A e \in effects : e.attempt = client.attempt => e.verdict = a.verdict
    BY <2>1, <2>2, <2>3, <2>4, <2>5 DEF Answered
  <2>7. ASSUME client.exit = 0 PROVE "breaking" \notin verdicts
    <3> SUFFICES ASSUME NEW e \in effects, e.attempt = client.attempt, e.verdict = "breaking"
                 PROVE  FALSE
      OBVIOUS
    <3>1. call.route = "createBreakingCheck" /\ a.verdict = "breaking"
      BY <2>6, <2>7 DEF IInv, EffectsOK
    <3>2. call.command = "checkBreaking"
      BY <1>2, <3>1, CommandTable
    <3> QED BY <2>2, <2>5, <2>7, <3>1, <3>2 DEF ExitCode
  <2>8. ASSUME client.exit = 0, call.command = "login" PROVE tokens[config] # "absent"
    <3>1. H.auth = "bearer"
      BY <1>2, CommandTable DEF H, Takes
    <3> QED BY <2>2, <2>5, <2>6, <2>8, <3>1 DEF Admitted
  <2>9. ASSUME client.exit = 1 PROVE verdicts = {"breaking"}
    <3>1. a.verdict = "breaking"
      BY <2>2, <2>9 DEF ExitCode
    <3>2. PICK e \in effects : e.attempt = client.attempt /\ e.verdict = "breaking"
      BY <2>1, <2>2, <2>3, <3>1 DEF Answered
    <3> QED BY <2>6, <2>9, <3>1, <3>2
  <2> QED BY <2>5, <2>6, <2>7, <2>8, <2>9
<1> QED BY <1>3, <1>4

-----------------------------------------------------------------------------
(* The theorems. *)

\* The strengthening holds however attempts, commits, lost answers and repetitions
\* interleave (the router, its middleware and handlers, the CLI and its client).
THEOREM Invariant == Spec => []IInv
<1>1. Init => IInv
  BY InvInit
<1>2. IInv /\ [Next]_vars => IInv'
  BY InvNext
<1> QED BY <1>1, <1>2, PTL DEF Spec

\* Whoever calls and however often, every change is made by an authenticated caller
\* under its own name, or under the name it asked for where the server allows
\* overrides (requireBearer, requireBootstrapToken, resolveGovernanceActor).
THEOREM CallersActAsThemselves == Spec => []ActsAsPrincipal
<1>1. IInv => ActsAsPrincipal
  BY DEF IInv, EffectsOK
<1> QED BY <1>1, Invariant, PTL

\* A success finds its change in the tables, a refusal has changed nothing, and the
\* counters count every attempt that was let in once (the handlers, writeUsecaseError
\* and the metrics recorder).
THEOREM AnswersAreTruthful == Spec => []AnswersTruthful
<1>1. IInv => AnswersTruthful
  BY InvAnswersTruthful
<1> QED BY <1>1, Invariant, PTL

\* A call that begins when its change is in force is not refused because of it
\* (DeprecateModuleVersion and CreateApprovalRequest).
THEOREM RepeatsAreIdempotent == Spec => []RepeatsIdempotent
<1>1. IInv => RepeatsIdempotent
  BY DEF IInv, Found, RepeatsIdempotent, RepeatedRoutes, RepeatErrors
<1> QED BY <1>1, Invariant, PTL

\* No command is refused for the form of its body and its exit code is the documented
\* one.  What it prints is true but in two cases, and these are just the two known:
\* "already linked to another module" when the module repeats a link of its own, and
\* "server rejected the provided --actor" when the accepted actor may not decide
\* (App.Run, the commands, the API client, registry/service.go:219-221 and
\* approval_service.go:226-228).
THEOREM CommandsAreTruthful == Spec => []CommandTruthful
<1>1. IInv => CommandTruthful
  <2> SUFFICES ASSUME IInv PROVE CommandTruthful
    OBVIOUS
  <2>1. ASSUME call.command # "none", NEW i \in Attempts PROVE attempt[i].result # "bad_request"
    <3>1. CASE attempt[i].phase = "answered"
      BY <2>1, <3>1 DEF IInv, Answered
    <3>2. CASE attempt[i].phase # "answered"
      BY <3>2 DEF IInv, UnderWay
    <3> QED BY <3>1, <3>2
  <2> QED BY <2>1, InvMessagesTruthful, InvExitTruthful DEF CommandTruthful
<1> QED BY <1>1, Invariant, PTL

\* The state keeps its types, and exactly the answered attempts have a status.
THEOREM TypeCorrect == Spec => []TypeOK
<1>1. IInv => TypeOK
  <2> SUFFICES ASSUME IInv PROVE TypeOK
    OBVIOUS
  <2>1. ASSUME NEW i \in Attempts
        PROVE  /\ attempt[i].phase \in {"unsent", "arrived", "handler", "committing", "answered"}
               /\ attempt[i].phase = "answered" <=> attempt[i].status \in 200 .. 599
    <3>1. attempt[i].phase \in {"unsent", "arrived", "handler", "committing", "answered"}
      BY <2>1 DEF IInv, Typed, AttemptRow
    <3>2. CASE attempt[i].phase = "answered"
      <4>1. attempt[i].status \in 200 .. 599
        BY <3>2, <2>1, AnswerMeans
      <4> QED BY <3>2, <4>1
    <3>3. CASE attempt[i].phase # "answered"
      <4>1. attempt[i].status = 0
        BY <3>3, <2>1 DEF IInv, UnderWay
      <4> QED BY <3>1, <3>3, <4>1
    <3> QED BY <3>1, <3>2, <3>3
  <2> QED BY <2>1 DEF IInv, Typed, Effect, TypeOK
<1> QED BY <1>1, Invariant, PTL

=============================================================================
