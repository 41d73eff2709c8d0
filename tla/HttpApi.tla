------------------------------- MODULE HttpApi -------------------------------
(***************************************************************************)
(* The HTTP API (internal/transport/http): which handler answers which     *)
(* route, who may call it, which body it decodes, what its use case may    *)
(* answer and the status that becomes.  Errors are named by the sentinel   *)
(* the use case returns, but for ErrGitLabProjectLinkRepeated, the second  *)
(* cause of ErrGitLabProjectAlreadyLinked; "other" stands for every error  *)
(* that wraps none of those writeUsecaseError knows (a failing statement,  *)
(* a cancelled context, ErrStorageFailure, ErrBufWorkflowUnavailable).     *)
(***************************************************************************)
EXTENDS Integers, FiniteSets

\* A handler behind protected() that only reads.
Read(action, service, errors) ==
  [auth |-> "bearer", action |-> action, service |-> service,
   body |-> "none", fields |-> {}, limited |-> FALSE,  \* how the body is read
   actor |-> "none",       \* "requested": resolveGovernanceActor; "principal"
   metric |-> FALSE,       \* counted by a record...Metric call
   ok |-> 200, errors |-> errors \cup {"other"},
   effect |-> "none",      \* "once": at most one in the tables; "each" call adds one
   found |-> "commit",     \* the answer when the use case reads that it is there
   raced |-> "other"]      \* the answer when only the commit meets it

\* A handler that decodes a JSON body with the given fields and changes the tables.
Write(action, service, fields, errors) ==
  [Read(action, service, errors) EXCEPT !.body = "json", !.fields = fields, !.effect = "each"]

ModuleErrors == {"ErrInvalidModuleName", "ErrModuleNotFound"}
VersionErrors == ModuleErrors \cup {"ErrInvalidVersion"}
ArchiveErrors == {"ErrArtifactTooLarge", "ErrUnsafeArchive", "ErrBufConfigNotFound"}

Health == [Read("none", "none", {}) EXCEPT !.auth = "none", !.errors = {}]
Readiness == [Read("none", "none", {}) EXCEPT !.auth = "none", !.errors = {"not_ready"}]
MetricsHandler == Health
GetEdition == [Read("edition:read", "none", {}) EXCEPT !.errors = {}]

CreateModule ==
  [Write("module:create", "registry", {"name", "description", "repository_url"},
         {"ErrInvalidModuleName"})
     EXCEPT !.ok = 201, !.effect = "once", !.raced = "ErrModuleAlreadyExists"]
ListModules == Read("module:read", "registry", {})
GetModule == Read("module:read", "registry", ModuleErrors)
\* The project of another module is met by the Upsert, a link that the module itself
\* has announced before only by the dedup key of its outbox record.
LinkModuleGitLabProject ==
  [Write("gitlab_mapping:manage", "registry",
         {"gitlab_base_url", "gitlab_project_id", "gitlab_project_path"},
         ModuleErrors \cup {"ErrInvalidGitLabBaseURL", "ErrInvalidGitLabProjectID",
                            "ErrInvalidGitLabProjectPath", "ErrGitLabProjectAlreadyLinked"})
     EXCEPT !.effect = "once", !.raced = "ErrGitLabProjectLinkRepeated"]
GetModuleGitLabProject ==
  Read("gitlab_mapping:read", "registry", ModuleErrors \cup {"ErrModuleGitLabProjectNotFound"})
GetModuleDependencies == Read("dependency_graph:read", "registry", ModuleErrors)
GetAffectedModules == Read("dependency_graph:read", "registry", ModuleErrors)
PublishModuleVersion ==
  [Write("module_version:publish", "registry", {"version", "artifact"},
         VersionErrors \cup ArchiveErrors \cup
         {"ErrBufBuildFailed", "ErrBufLintFailed", "ErrDescriptorExtractionFailed"})
     EXCEPT !.body = "multipart", !.limited = TRUE, !.metric = TRUE, !.ok = 201,
            !.effect = "once", !.found = "ErrModuleVersionAlreadyExists",
            !.raced = "ErrModuleVersionAlreadyExists"]
ListModuleVersions == Read("module_version:read", "registry", ModuleErrors)
GetModuleVersion == Read("module_version:read", "registry", VersionErrors)
\* The check for a deprecated version is left to the outbox key.
DeprecateModuleVersion_NoCheck ==
  [Write("module_version:deprecate", "registry", {"reason"}, {})
     EXCEPT !.body = "optional", !.limited = TRUE, !.actor = "principal", !.effect = "once",
            !.raced = "ErrDuplicate"]
\* A call that reads the version before another deprecates it ends in the
\* duplicate of the outbox record, which no sentinel wraps.
DeprecateModuleVersion ==
  [Write("module_version:deprecate", "registry", {"reason"}, VersionErrors)
     EXCEPT !.body = "optional", !.limited = TRUE, !.actor = "principal",
            !.effect = "once", !.found = "ok", !.raced = "ErrDuplicate"]
GetModuleVersionMetadata == Read("module_version:read", "registry", VersionErrors)
CreateBreakingCheck ==
  [Write("breaking_check:run", "registry", {"against", "target_ref", "artifact"},
         ModuleErrors \cup ArchiveErrors \cup
         {"ErrInvalidAgainst", "ErrInvalidTargetRef", "ErrBaselineVersionNotFound",
          "ErrBaselineBufImageMissing", "ErrBufBreakingFailed"})
     EXCEPT !.body = "multipart", !.limited = TRUE, !.metric = TRUE]
GetBreakingReport == Read("breaking_report:read", "registry", {"ErrBreakingReportNotFound"})
GetBreakingReportAffectedModules ==
  Read("breaking_report:read", "registry", {"ErrBreakingReportNotFound"})
ReportRuntimeInventory ==
  [Write("runtime_inventory:report", "runtime",
         {"service_name", "environment", "git_commit", "build_version", "modules"},
         {"ErrRuntimeModulesRequired", "ErrInvalidRuntimeServiceName",
          "ErrInvalidRuntimeEnvironment", "ErrInvalidRuntimeGitCommit",
          "ErrInvalidRuntimeBuildVersion", "ErrInvalidModuleName", "ErrInvalidVersion"})
     EXCEPT !.limited = TRUE, !.metric = TRUE, !.ok = 201]
ListRuntimeServices == Read("runtime_inventory:read", "runtime", {})
GetRuntimeServiceDetails ==
  Read("runtime_inventory:read", "runtime", {"ErrInvalidRuntimeServiceName", "ErrNotFound"})
GetEnvironmentInventory ==
  Read("runtime_inventory:read", "runtime", {"ErrInvalidRuntimeEnvironment"})
GetModuleRuntimeUsages ==
  Read("runtime_inventory:read", "runtime", {"ErrInvalidModuleName"})
GetBreakingReportRuntimeImpact == Read("breaking_report:read", "runtime", {"ErrNotFound"})
ListBreakingReports == Read("breaking_report:read", "registry", ModuleErrors)
DownloadArtifact == Read("module_version:download", "registry", VersionErrors)
CreateAPIToken ==
  [Write("none", "registry", {"name", "expires_at"}, {"bad_expires_at"})
     EXCEPT !.auth = "bootstrap", !.ok = 201]

ListModuleOwners == Read("governance_owner:read", "governance", ModuleErrors)
AddModuleOwner ==
  [Write("governance_owner:manage", "governance",
         {"subject_type", "subject", "role", "actor"},
         ModuleErrors \cup {"ErrInvalidSubjectType", "ErrInvalidSubject", "ErrInvalidModuleOwnerRole"})
     EXCEPT !.limited = TRUE, !.actor = "requested", !.ok = 201,
            !.effect = "once", !.raced = "ErrModuleOwnerAlreadyExists"]
RemoveModuleOwner ==
  [Write("governance_owner:manage", "governance", {}, ModuleErrors \cup {"ErrInvalidModuleOwnerID"})
     EXCEPT !.body = "none", !.actor = "requested", !.ok = 204, !.effect = "once",
            !.found = "ErrModuleOwnerNotFound", !.raced = "ErrModuleOwnerNotFound"]
CreateApprovalRequest ==
  [Write("approval_request:create", "governance", {"actor", "target_ref"},
         {"ErrInvalidBreakingReportID", "ErrBreakingReportNotFound"})
     EXCEPT !.body = "optional", !.limited = TRUE, !.actor = "requested", !.ok = 201,
            !.effect = "once", !.found = "ok", !.raced = "ok"]
GetApprovalStatus ==
  Read("approval_request:read", "governance",
       {"ErrInvalidBreakingReportID", "ErrBreakingReportNotFound", "ErrApprovalRequestNotFound"})
RecordApprovalDecision ==
  [Write("approval_decision:record", "governance", {"actor", "comment"},
         {"ErrInvalidRequirementID", "ErrApprovalDecisionCommentTooLong",
          "ErrApprovalRequirementNotFound", "ErrApprovalRequestNotFound",
          "ErrApprovalRequestConflict", "ErrApprovalActorForbidden"})
     EXCEPT !.limited = TRUE, !.actor = "requested", !.effect = "once",
            !.found = "ErrApprovalRequirementConflict",
            !.raced = "ErrApprovalRequirementConflict"]
GetApprovalRequestAudit ==
  Read("governance_audit:read", "governance", {"ErrApprovalRequestNotFound"})

\* Server.Handler: the table of the router.
Handlers ==
  [health |-> Health, readiness |-> Readiness, metrics |-> MetricsHandler,
   getEdition |-> GetEdition, createModule |-> CreateModule, listModules |-> ListModules,
   getModule |-> GetModule, linkModuleGitLabProject |-> LinkModuleGitLabProject,
   getModuleGitLabProject |-> GetModuleGitLabProject,
   getModuleDependencies |-> GetModuleDependencies,
   getAffectedModules |-> GetAffectedModules, listModuleOwners |-> ListModuleOwners,
   addModuleOwner |-> AddModuleOwner, removeModuleOwner |-> RemoveModuleOwner,
   getModuleRuntimeUsages |-> GetModuleRuntimeUsages,
   publishModuleVersion |-> PublishModuleVersion, listModuleVersions |-> ListModuleVersions,
   getModuleVersion |-> GetModuleVersion, deprecateModuleVersion |-> DeprecateModuleVersion,
   getModuleVersionMetadata |-> GetModuleVersionMetadata,
   downloadArtifact |-> DownloadArtifact, createBreakingCheck |-> CreateBreakingCheck,
   listBreakingReports |-> ListBreakingReports, getBreakingReport |-> GetBreakingReport,
   getBreakingReportAffectedModules |-> GetBreakingReportAffectedModules,
   getBreakingReportRuntimeImpact |-> GetBreakingReportRuntimeImpact,
   createApprovalRequest |-> CreateApprovalRequest, getApprovalStatus |-> GetApprovalStatus,
   approveRequirement |-> RecordApprovalDecision, rejectRequirement |-> RecordApprovalDecision,
   getApprovalRequestAudit |-> GetApprovalRequestAudit,
   reportRuntimeInventory |-> ReportRuntimeInventory,
   listRuntimeServices |-> ListRuntimeServices,
   getRuntimeServiceDetails |-> GetRuntimeServiceDetails,
   getEnvironmentInventory |-> GetEnvironmentInventory, createAPIToken |-> CreateAPIToken]

-----------------------------------------------------------------------------
(* Who the caller is and what it may do. *)

\* CommunityAuthorizer: every action of this edition but the administrative ones.
CommunityActionAllowed(action) ==
  action \in
    {"module:create", "module:read", "module:update", "module:delete",
     "module_version:publish", "module_version:read", "module_version:download",
     "module_version:deprecate", "gitlab_mapping:manage", "gitlab_mapping:read",
     "breaking_check:run", "breaking_report:read", "dependency_graph:read",
     "runtime_inventory:report", "runtime_inventory:read", "governance_owner:manage",
     "governance_owner:read", "approval_request:create", "approval_request:read",
     "approval_decision:record", "governance_audit:read", "edition:read"}

\* A requested actor is believed.
ResolveGovernanceActor_Trusting(principal, requested, overrideEnabled) ==
  [err |-> "none", subject |-> IF requested = "" THEN principal ELSE requested]

\* ResolveGovernanceActor: the principal, or the actor asked for if the server
\* allows overrides.  "" asks for none.
ResolveGovernanceActor(principal, requested, overrideEnabled) ==
  IF requested \in {"", principal} THEN [err |-> "none", subject |-> principal]
  ELSE IF overrideEnabled THEN [err |-> "none", subject |-> requested]
  ELSE [err |-> "ErrGovernanceActorOverrideForbidden", subject |-> ""]

-----------------------------------------------------------------------------
(* The body: decodeJSON (which refuses unknown fields), ParseMultipartForm and *)
(* FormFile behind limitRequestBody.  An unlimited body is read whole.         *)

DecodeBody(h, body) ==
  CASE h.body = "none" -> "none"
    [] h.body = "optional" /\ body.kind = "empty" -> "none"
    [] h.limited /\ body.size = "large" -> "payload_too_large"
    [] h.body = "multipart" /\ (body.kind # "multipart" \/ "artifact" \notin body.fields) -> "bad_request"
    [] h.body \in {"json", "optional"} /\ (body.kind # "json" \/ ~ (body.fields \subseteq h.fields)) -> "bad_request"
    [] OTHER -> "none"

-----------------------------------------------------------------------------
(* writeUsecaseError, writeAuthorizationError and the handlers' own errors. *)

ValidationErrors ==
  {"ErrInvalidModuleName", "ErrInvalidVersion", "ErrInvalidActor", "ErrInvalidAgainst",
   "ErrInvalidTargetRef", "ErrInvalidGitLabBaseURL", "ErrInvalidGitLabProjectID",
   "ErrInvalidGitLabProjectPath", "ErrRuntimeModulesRequired",
   "ErrInvalidRuntimeServiceName", "ErrInvalidRuntimeEnvironment",
   "ErrInvalidRuntimeGitCommit", "ErrInvalidRuntimeBuildVersion", "ErrInvalidSubjectType",
   "ErrInvalidSubject", "ErrInvalidModuleOwnerRole", "ErrInvalidModuleOwnerID",
   "ErrInvalidBreakingReportID", "ErrInvalidRequirementID", "ErrApprovalDecisionCommentTooLong"}
NotFoundErrors ==
  {"ErrModuleNotFound", "ErrBaselineVersionNotFound", "ErrBreakingReportNotFound",
   "ErrModuleGitLabProjectNotFound", "ErrNotFound", "ErrModuleOwnerNotFound",
   "ErrApprovalRequestNotFound", "ErrApprovalRequirementNotFound"}
\* Failing statements answered as conflicts.
ConflictErrors_Other ==
  {"ErrModuleAlreadyExists", "ErrModuleVersionAlreadyExists", "ErrGitLabProjectAlreadyLinked",
   "ErrGitLabProjectLinkRepeated", "ErrModuleOwnerAlreadyExists", "ErrApprovalRequestConflict",
   "ErrApprovalRequirementConflict", "other"}
ConflictErrors ==
  {"ErrModuleAlreadyExists", "ErrModuleVersionAlreadyExists", "ErrGitLabProjectAlreadyLinked",
   "ErrGitLabProjectLinkRepeated", "ErrModuleOwnerAlreadyExists", "ErrApprovalRequestConflict",
   "ErrApprovalRequirementConflict"}
\* Answered with one body, "Governance actor is not allowed."
ForbiddenErrors == {"ErrApprovalActorForbidden", "ErrGovernanceActorOverrideForbidden"}

WriteUsecaseError(err) ==
  CASE err \in ValidationErrors \cup {"ErrUnsafeArchive"} -> 400
    [] err \in NotFoundErrors -> 404
    [] err \in ConflictErrors \cup {"ErrBaselineBufImageMissing"} -> 409
    [] err \in ForbiddenErrors -> 403
    [] err = "ErrArtifactTooLarge" -> 413
    [] err \in {"ErrBufConfigNotFound", "ErrBufBuildFailed", "ErrBufLintFailed",
                "ErrDescriptorExtractionFailed"} -> 422
    [] OTHER -> 500

\* The statuses the handlers write themselves; everything else is a use case's.
Status(h, result) ==
  CASE result = "ok" -> h.ok
    [] result = "unauthorized" -> 401
    [] result = "forbidden" -> 403
    [] result \in {"bad_request", "bad_expires_at"} -> 400
    [] result = "payload_too_large" -> 413
    [] result = "not_ready" -> 503
    [] OTHER -> WriteUsecaseError(result)
=============================================================================
