-------------------------------- MODULE CliApi --------------------------------
(***************************************************************************)
(* The command line client: the requests of internal/cli/api/client.go and *)
(* what the commands of internal/cli make of the answers.  A command is    *)
(* the request it sends and what its message claims when the answer is of  *)
(* a given class: the errors of the use case that would make it true.      *)
(***************************************************************************)
EXTENDS HttpApi

Request(route, kind, fields) == [route |-> route, kind |-> kind, fields |-> fields]

ClientCheckAuth == Request("listModules", "empty", {})
ClientGetEdition == Request("getEdition", "empty", {})
ClientCreateModule == Request("createModule", "json", {"name", "description", "repository_url"})
ClientListModules == Request("listModules", "empty", {})
ClientPublishModuleVersion == Request("publishModuleVersion", "multipart", {"version", "artifact"})
ClientDeprecateModuleVersion == Request("deprecateModuleVersion", "json", {"reason"})
ClientCheckBreaking == Request("createBreakingCheck", "multipart", {"against", "target_ref", "artifact"})
ClientLinkModuleGitLabProject ==
  Request("linkModuleGitLabProject", "json", {"gitlab_base_url", "gitlab_project_id", "gitlab_project_path"})
ClientGetModuleDependencies == Request("getModuleDependencies", "empty", {})
ClientGetAffectedModules == Request("getAffectedModules", "empty", {})
ClientListModuleOwners == Request("listModuleOwners", "empty", {})
ClientAddModuleOwner == Request("addModuleOwner", "json", {"subject_type", "subject", "role", "actor"})
ClientRemoveModuleOwner == Request("removeModuleOwner", "empty", {})
ClientCreateApprovalRequest == Request("createApprovalRequest", "json", {"actor"})
ClientGetApprovalStatus == Request("getApprovalStatus", "empty", {})
ClientApproveRequirement == Request("approveRequirement", "json", {"actor", "comment"})
ClientRejectRequirement == Request("rejectRequirement", "json", {"actor", "comment"})
ClientReportRuntimeInventory ==
  Request("reportRuntimeInventory", "json",
          {"service_name", "environment", "git_commit", "build_version", "modules"})
ClientDownloadArtifact == Request("downloadArtifact", "empty", {})

\* doJSON, doNoContent and DownloadArtifact: an answer outside 200..299 is an error.
ClientSucceeds_AnyAnswer(status) == status < 500
ClientSucceeds(status) == status >= 200 /\ status < 300

\* Error.Unwrap: the class errors.Is finds.
Unwrap(status) ==
  CASE status = 401 -> "ErrUnauthorized"
    [] status = 403 -> "ErrForbidden"
    [] status = 404 -> "ErrNotFound"
    [] status = 409 -> "ErrConflict"
    [] status = 413 -> "ErrTooLarge"
    [] OTHER -> "none"

-----------------------------------------------------------------------------
Command(request, says) == [request |-> request, says |-> says]

NotFound == <<"ErrNotFound", {"ErrModuleNotFound"}>>
Unauthorized == <<"ErrUnauthorized", {"unauthorized"}>>
\* "already linked to another module".
AlreadyLinked == <<"ErrConflict", {"ErrGitLabProjectAlreadyLinked"}>>
\* governanceCommandError: "server rejected the provided --actor".
ActorRefused == <<"ErrForbidden", {"ErrGovernanceActorOverrideForbidden"}>>

\* A message is printed for a class of answers; isGovernanceActorForbidden also looks
\* for --actor and for the body of the answer, which two errors have.
Printed(message, status, actor, err) ==
  /\ Unwrap(status) = message[1]
  /\ message = ActorRefused => actor # "" /\ err \in ForbiddenErrors

Login == Command(ClientCheckAuth, {})
Edition == Command(ClientGetEdition, {})
ModuleCreate == Command(ClientCreateModule, {<<"ErrConflict", {"ErrModuleAlreadyExists"}>>})
\* The versions it then asks for are best effort: an error leaves a blank.
List == Command(ClientListModules, {})
LinkModuleGitLab ==
  Command(ClientLinkModuleGitLabProject,
          {Unauthorized, NotFound, AlreadyLinked})
ModuleDependencies == Command(ClientGetModuleDependencies, {Unauthorized, NotFound})
ModuleAffected == Command(ClientGetAffectedModules, {Unauthorized, NotFound})
ModuleVersionDeprecate ==
  Command(ClientDeprecateModuleVersion, {Unauthorized, NotFound, <<"ErrForbidden", {"forbidden"}>>})
ModuleOwnersList == Command(ClientListModuleOwners, {})
ModuleOwnersAdd == Command(ClientAddModuleOwner, {ActorRefused})
ModuleOwnersRemove == Command(ClientRemoveModuleOwner, {ActorRefused})
Push ==
  Command(ClientPublishModuleVersion,
          {NotFound, <<"ErrConflict", {"ErrModuleVersionAlreadyExists"}>>})
Pull == Command(ClientDownloadArtifact, {NotFound})
CheckBreaking ==
  Command(ClientCheckBreaking,
          {Unauthorized,
           <<"ErrNotFound", {"ErrModuleNotFound", "ErrBaselineVersionNotFound"}>>,
           <<"ErrConflict", {"ErrBaselineBufImageMissing"}>>,
           <<"ErrTooLarge", {"ErrArtifactTooLarge", "payload_too_large"}>>})
RuntimeReport == Command(ClientReportRuntimeInventory, {Unauthorized})
ApprovalsRequest == Command(ClientCreateApprovalRequest, {ActorRefused})
ApprovalsStatus == Command(ClientGetApprovalStatus, {})
ApprovalsApprove == Command(ClientApproveRequirement, {ActorRefused})
ApprovalsReject == Command(ClientRejectRequirement, {ActorRefused})

\* App.Run and its subcommands.
Commands ==
  [login |-> Login, edition |-> Edition, moduleCreate |-> ModuleCreate, list |-> List,
   linkGitLab |-> LinkModuleGitLab, dependencies |-> ModuleDependencies,
   affected |-> ModuleAffected, deprecate |-> ModuleVersionDeprecate,
   ownersList |-> ModuleOwnersList, ownersAdd |-> ModuleOwnersAdd,
   ownersRemove |-> ModuleOwnersRemove, push |-> Push, pull |-> Pull,
   checkBreaking |-> CheckBreaking, runtimeReport |-> RuntimeReport,
   approvalsRequest |-> ApprovalsRequest, approvalsStatus |-> ApprovalsStatus,
   approve |-> ApprovalsApprove, reject |-> ApprovalsReject]

\* run of cmd/protoradar: 0, the code of an ExitError, or 2.  check-breaking
\* turns a report with breaking changes into code 1.
ExitCode(command, succeeded, verdict) ==
  IF ~ succeeded THEN 2
  ELSE IF command = "checkBreaking" /\ verdict = "breaking" THEN 1
  ELSE 0

=============================================================================
