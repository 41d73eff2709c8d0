------------------------------ MODULE Approval ------------------------------
(***************************************************************************)
(* The approval workflow of breaking changes: ApprovalService and the      *)
(* owner service (internal/usecase/governance) over the governance tables  *)
(* (internal/repository/postgres/governance.go), called concurrently by    *)
(* API requests.                                                           *)
(*                                                                         *)
(* A call reads outside any transaction, statement by statement, and then  *)
(* commits one transaction that only writes; at READ COMMITTED, with its   *)
(* unique indexes, such a transaction takes effect at one moment.          *)
(* Generated identifiers are fresh: a request and a decision are named by  *)
(* the call that made them, a requirement by its request and its target    *)
(* module (EvaluatePolicy plans one requirement per target).               *)
(***************************************************************************)
EXTENDS Integers, FiniteSets

CONSTANTS
  Calls,                    \* API calls, each made once
  Reports,                  \* breaking reports, all stored
  Modules,                  \* registered modules
  Actors,                   \* subjects of authenticated principals
  OwnerEntries,             \* ownership entries that may be added
  PolicyResults,            \* sets of target modules a policy evaluation may ask for
  AllowMaintainerApproval,  \* PolicyConfig.AllowMaintainerApproval
  MaxOwnerChanges,          \* bound on added owners
  Null

Decisions == {"approved", "rejected"}
RequestStatus == {"absent", "pending", "approved", "rejected", "not_required"}
RequirementStatus == {"absent", "pending", "approved", "rejected"}

OwnerEntry == [module : Modules, subjectType : {"user", "team"},
               subject : Actors, role : {"owner", "maintainer"}]

ASSUME ApprovalAssumption ==
  /\ OwnerEntries \subseteq OwnerEntry
  /\ PolicyResults \subseteq SUBSET Modules
  /\ AllowMaintainerApproval \in BOOLEAN
  /\ MaxOwnerChanges \in Nat
  /\ IsFiniteSet(Modules)
  /\ Null \notin Calls \cup Reports

VARIABLES
  request,      \* approval_requests
  requirement,  \* approval_requirements: status per request and target module
  decisions,    \* approval_decisions
  owners,       \* module_owners
  ownerIDs,     \* number of owner ids generated
  audit,        \* governance_audit_events
  outbox,       \* dedup keys of the outbox records written
  pc,           \* where each call is
  asked,        \* what each call asked for
  plan,         \* target modules the policy asked this call's request for
  snapshot,     \* what a deciding call has read of its request
  reply         \* what the call returned

tables == <<request, requirement, decisions, owners, ownerIDs, audit, outbox>>
locals == <<pc, asked, plan, snapshot, reply>>
vars == <<request, requirement, decisions, owners, ownerIDs, audit, outbox,
          pc, asked, plan, snapshot, reply>>

AbsentRequest == [report |-> Null, status |-> "absent", required |-> 0, received |-> 0]

Init ==
  /\ request = [c \in Calls |-> AbsentRequest]
  /\ requirement = [c \in Calls |-> [m \in Modules |-> "absent"]]
  /\ decisions = {}
  /\ owners = {}
  /\ ownerIDs = 0
  /\ audit = {}
  /\ outbox = {}
  /\ pc = [c \in Calls |-> "idle"]
  /\ asked = [c \in Calls |-> Null]
  /\ plan = [c \in Calls |-> {}]
  /\ snapshot = [c \in Calls |-> Null]
  /\ reply = [c \in Calls |-> Null]

Goto(c, to) == pc' = [pc EXCEPT ![c] = to]

\* What the call has read goes with it.
Return(c, answer) ==
  /\ pc' = [pc EXCEPT ![c] = "done"]
  /\ reply' = [reply EXCEPT ![c] = answer]
  /\ plan' = [plan EXCEPT ![c] = {}]
  /\ snapshot' = [snapshot EXCEPT ![c] = Null]

Error(code) == [result |-> code, request |-> Null]
OK(id) == [result |-> "ok", request |-> id]

-----------------------------------------------------------------------------
(* Owners: Service.AddModuleOwner and RemoveModuleOwner. *)

\* The unique index on (module, subject type, subject, role) rejects a second
\* entry, and with it the audit event and the outbox record.
AddModuleOwner(entry) ==
  LET id == ownerIDs + 1 IN
  /\ ownerIDs < MaxOwnerChanges
  /\ \A o \in owners : o.entry # entry
  /\ ownerIDs' = id
  /\ owners' = owners \cup {[id |-> id, entry |-> entry]}
  /\ audit' = audit \cup {[type |-> "module_owner_added", id |-> id, entry |-> entry]}
  /\ outbox' = outbox \cup {<<"owner", id, "added">>}
  /\ UNCHANGED <<request, requirement, decisions, locals>>

RemoveModuleOwner(o) ==
  /\ o \in owners
  /\ owners' = owners \ {o}
  /\ audit' = audit \cup {[type |-> "module_owner_removed", id |-> o.id, entry |-> o.entry]}
  /\ outbox' = outbox \cup {<<"owner", o.id, "removed">>}
  /\ UNCHANGED <<request, requirement, decisions, ownerIDs, locals>>

AllowedRoles == {"owner"} \cup (IF AllowMaintainerApproval THEN {"maintainer"} ELSE {})

\* actorCanDecide: the actor, as a user or as a team, has an allowed role on the
\* requirement's target module.
ActorCanDecide(module, actor) ==
  \E o \in owners : /\ o.entry.module = module
                    /\ o.entry.subject = actor
                    /\ o.entry.role \in AllowedRoles

-----------------------------------------------------------------------------
(* CreateApprovalRequestForBreakingReport. *)

RequestsFor(report) == {c \in Calls : request[c].report = report}

\* The first GetRequestByBreakingReportID.
LookUp(c, report) ==
  /\ pc[c] = "idle"
  /\ asked' = [asked EXCEPT ![c] = [op |-> "create", report |-> report]]
  /\ \/ /\ RequestsFor(report) # {}
        /\ \E id \in RequestsFor(report) : Return(c, OK(id))
     \/ /\ RequestsFor(report) = {}
        /\ Goto(c, "evaluate")
        /\ UNCHANGED <<plan, snapshot, reply>>
  /\ UNCHANGED tables

\* The reads of approvalPolicyContextForReport and policy.Evaluate.  Owners and
\* runtime usage change between two calls, so each may get its own result.
Evaluate(c) ==
  /\ pc[c] = "evaluate"
  /\ \E targets \in PolicyResults : plan' = [plan EXCEPT ![c] = targets]
  /\ Goto(c, "create")
  /\ UNCHANGED <<tables, asked, snapshot, reply>>

\* buildApprovalRequestFromPolicyDecision.
NewRequest(c) ==
  [report |-> asked[c].report,
   status |-> IF plan[c] = {} THEN "not_required" ELSE "pending",
   required |-> Cardinality(plan[c]), received |-> 0]

\* Mutant: no such index.
ReportTaken_Never(report) == FALSE

\* The unique index on breaking_report_id.
ReportTaken(report) == RequestsFor(report) # {}

\* createApprovalRequestWithAuditAndOutbox.  The commit may succeed although
\* the caller gets an error.
CommitRequest(c) ==
  /\ pc[c] = "create"
  /\ ~ReportTaken(asked[c].report)
  /\ request' = [request EXCEPT ![c] = NewRequest(c)]
  /\ requirement' = [requirement EXCEPT ![c] =
                       [m \in Modules |-> IF m \in plan[c] THEN "pending" ELSE "absent"]]
  /\ audit' = audit \cup {[type |-> "approval_request_created", request |-> c]}
  /\ outbox' = outbox \cup {<<"approval-request", c>>}
  /\ \E answer \in {OK(c), Error("error")} : Return(c, answer)
  /\ UNCHANGED <<decisions, owners, ownerIDs, asked>>

\* ErrDuplicate becomes ErrApprovalRequestConflict and the request is read again.
RequestConflict(c) ==
  /\ pc[c] = "create"
  /\ ReportTaken(asked[c].report)
  /\ Goto(c, "reread")
  /\ UNCHANGED <<tables, asked, plan, snapshot, reply>>

\* When the second read fails or finds nothing, the caller gets the conflict.
ReadExisting(c) ==
  /\ pc[c] = "reread"
  /\ \/ \E id \in RequestsFor(asked[c].report) : Return(c, OK(id))
     \/ Return(c, Error("request_conflict"))
  /\ UNCHANGED <<tables, asked>>

-----------------------------------------------------------------------------
(* recordDecision, for ApproveRequirement and RejectRequirement. *)

\* GetRequestByRequirementID reads the request row ...
ReadRequest(c, id, module, decision, actor) ==
  /\ pc[c] = "idle"
  /\ requirement[id][module] # "absent"
  /\ asked' = [asked EXCEPT ![c] = [op |-> "decide", request |-> id, module |-> module,
                                    decision |-> decision, actor |-> actor]]
  /\ snapshot' = [snapshot EXCEPT ![c] =
                    [status |-> request[id].status, requirements |-> requirement[id]]]
  /\ Goto(c, "requirements")
  /\ UNCHANGED <<tables, plan, reply>>

\* ... then, in statements of their own, the requirements ...
ReadRequirements(c) ==
  /\ pc[c] = "requirements"
  /\ snapshot' = [snapshot EXCEPT ![c].requirements = requirement[asked[c].request]]
  /\ Goto(c, "decisions")
  /\ UNCHANGED <<tables, asked, plan, reply>>

DecisionFor(id, module) == {d \in decisions : d.request = id /\ d.module = module}

\* ... and the decisions.  A RequestID that names another request, a decided
\* requirement and a request that is no longer pending end the call.
CheckDecidable(c) ==
  /\ pc[c] = "decisions"
  /\ LET s == snapshot[c]
         m == asked[c].module
         decided == DecisionFor(asked[c].request, m) # {}
     IN \/ Return(c, Error("request_not_found"))
        \/ decided /\ Return(c, Error("requirement_conflict"))
        \/ ~decided /\ s.status # "pending" /\ Return(c, Error("request_conflict"))
        \/ /\ ~decided /\ s.status = "pending" /\ s.requirements[m] # "pending"
           /\ Return(c, Error("requirement_conflict"))
        \/ /\ ~decided /\ s.status = "pending" /\ s.requirements[m] = "pending"
           /\ Goto(c, "authorize")
           /\ UNCHANGED <<plan, snapshot, reply>>
  /\ UNCHANGED <<tables, asked>>

\* HasRole is asked twice, as a user and as a team, and a failed query counts as
\* no role: owners who change in between may be turned away.
Authorize(c) ==
  /\ pc[c] = "authorize"
  /\ \/ /\ ActorCanDecide(asked[c].module, asked[c].actor)
        /\ Goto(c, "decide")
        /\ UNCHANGED <<plan, snapshot, reply>>
     \/ Return(c, Error("forbidden"))
  /\ UNCHANGED <<tables, asked>>

\* Mutants: a rejected requirement, or any, counts as settled.
AllRequirementsApprovedAfter_Decided(requirements, module) ==
  \A m \in Modules \ {module} : requirements[m] # "pending"

AllRequirementsApprovedAfter_Any(requirements, module) == TRUE

AllRequirementsApprovedAfter(requirements, module) ==
  \A m \in Modules \ {module} : requirements[m] \in {"absent", "approved"}

\* Mutants: the requirement being decided is left out, or counted out.
ReceivedApprovalsAfter_Stale(requirements, module, status) ==
  Cardinality({m \in Modules : requirements[m] = "approved"})

ReceivedApprovalsAfter_CountedOut(requirements, module, status) ==
  Cardinality({m \in Modules : requirements[m] = "approved"})
    + (IF status = "approved" THEN 1 ELSE -1)

ReceivedApprovalsAfter(requirements, module, status) ==
  Cardinality({m \in Modules : [requirements EXCEPT ![module] = status][m] = "approved"})

\* The request's new status, from what the call has read.
NewRequestStatus(s, module, decision) ==
  IF decision = "rejected" THEN "rejected"
  ELSE IF AllRequirementsApprovedAfter(s.requirements, module) THEN "approved"
  ELSE "pending"

\* Mutant: no such index.
RequirementTaken_Never(id, module) == FALSE

\* The unique index on requirement_id.
RequirementTaken(id, module) == DecisionFor(id, module) # {}

\* The transaction of recordDecision.  UpdateRequestStatus writes the computed
\* status over whatever is there.
CommitDecision(c) ==
  LET a == asked[c]
      s == snapshot[c]
      new == NewRequestStatus(s, a.module, a.decision)
  IN
  /\ pc[c] = "decide"
  /\ ~RequirementTaken(a.request, a.module)
  /\ decisions' = decisions \cup
       {[call |-> c, request |-> a.request, module |-> a.module,
         decision |-> a.decision, actor |-> a.actor]}
  /\ requirement' = [requirement EXCEPT ![a.request][a.module] = a.decision]
  /\ request' = [request EXCEPT ![a.request] =
       [report |-> request[a.request].report,
        status |-> new,
        required |-> Cardinality({m \in Modules : s.requirements[m] # "absent"}),
        received |-> ReceivedApprovalsAfter(s.requirements, a.module, a.decision)]]
  /\ audit' = audit
       \cup {[type |-> "approval_decision_recorded", call |-> c, request |-> a.request]}
       \cup (IF s.status # new
             THEN {[type |-> "approval_request_status_changed", call |-> c,
                    request |-> a.request, to |-> new]}
             ELSE {})
  /\ outbox' = outbox \cup {<<"approval-decision", c>>}
  /\ \E answer \in {OK(a.request), Error("error")} : Return(c, answer)
  /\ UNCHANGED <<owners, ownerIDs, asked>>

DecisionConflict(c) ==
  /\ pc[c] = "decide"
  /\ RequirementTaken(asked[c].request, asked[c].module)
  /\ Return(c, Error("requirement_conflict"))
  /\ UNCHANGED <<tables, asked>>

\* Any other statement of a call may fail and end it before its commit.
Fail(c) ==
  /\ pc[c] \notin {"idle", "reread", "authorize", "done"}
  /\ Return(c, Error("error"))
  /\ UNCHANGED <<tables, asked>>

-----------------------------------------------------------------------------
Next ==
  \/ \E entry \in OwnerEntries : AddModuleOwner(entry)
  \/ \E o \in owners : RemoveModuleOwner(o)
  \/ \E c \in Calls :
       \/ \E report \in Reports : LookUp(c, report)
       \/ Evaluate(c)
       \/ CommitRequest(c)
       \/ RequestConflict(c)
       \/ ReadExisting(c)
       \/ \E id \in Calls, module \in Modules, decision \in Decisions, actor \in Actors :
            ReadRequest(c, id, module, decision, actor)
       \/ ReadRequirements(c)
       \/ CheckDecidable(c)
       \/ Authorize(c)
       \/ CommitDecision(c)
       \/ DecisionConflict(c)
       \/ Fail(c)

Spec == Init /\ [][Next]_vars

-----------------------------------------------------------------------------
(* Properties. *)

CreateInput == [op : {"create"}, report : Reports]
DecideInput == [op : {"decide"}, request : Calls, module : Modules,
                decision : Decisions, actor : Actors]
Snapshot == [status : RequestStatus, requirements : [Modules -> RequirementStatus]]
Reply == [result : {"ok", "error", "request_conflict", "requirement_conflict",
                    "request_not_found", "forbidden"},
          request : Calls \cup {Null}]

TypeOK ==
  /\ request \in [Calls -> [report : Reports \cup {Null}, status : RequestStatus,
                            required : Nat, received : Nat]]
  /\ requirement \in [Calls -> [Modules -> RequirementStatus]]
  /\ decisions \subseteq [call : Calls, request : Calls, module : Modules,
                          decision : Decisions, actor : Actors]
  /\ owners \subseteq [id : Nat, entry : OwnerEntries]
  /\ ownerIDs \in 0 .. MaxOwnerChanges
  /\ pc \in [Calls -> {"idle", "evaluate", "create", "reread", "requirements",
                       "decisions", "authorize", "decide", "done"}]
  /\ asked \in [Calls -> CreateInput \cup DecideInput \cup {Null}]
  /\ plan \in [Calls -> SUBSET Modules]
  /\ snapshot \in [Calls -> Snapshot \cup {Null}]
  /\ reply \in [Calls -> Reply \cup {Null}]

RequirementsOf(id) == {m \in Modules : requirement[id][m] # "absent"}

\* Creation is idempotent per breaking report under concurrent calls
\* (approval_service.go:112-144): one request exists, every call that succeeds
\* returns that one, a conflict is reported only when there is one to find, and
\* exactly the existing requests have their creation in the audit trail and in
\* the outbox.
IdempotentCreation ==
  /\ \A c, d \in Calls :
       request[c].report = request[d].report /\ request[c].report # Null => c = d
  /\ \A c \in Calls : pc[c] = "done" /\ asked[c] \in CreateInput =>
       \/ reply[c].result = "ok" /\ reply[c].request \in RequestsFor(asked[c].report)
       \/ reply[c].result = "request_conflict" /\ RequestsFor(asked[c].report) # {}
       \/ reply[c].result = "error"
  /\ \A c \in Calls : request[c].report # Null <=>
       /\ [type |-> "approval_request_created", request |-> c] \in audit
       /\ <<"approval-request", c>> \in outbox

\* The audit trail shows that the actor was granted an allowed role on the module.
WasGranted(actor, module) ==
  \E e \in audit : /\ e.type = "module_owner_added"
                   /\ e.entry.module = module
                   /\ e.entry.subject = actor
                   /\ e.entry.role \in AllowedRoles

\* The gate of the MR bot: however decisions interleave, a request is approved
\* only when each of its requirements (there is at least one) was approved, by
\* one decision, of someone who had been granted a role on the target module
\* (approval_service.go:226-271).
ApprovalSound ==
  \A c \in Calls : request[c].status = "approved" =>
    /\ RequirementsOf(c) # {}
    /\ \A m \in RequirementsOf(c) :
         /\ requirement[c][m] = "approved"
         /\ \E d \in decisions : /\ DecisionFor(c, m) = {d}
                                 /\ d.decision = "approved"
                                 /\ WasGranted(d.actor, m)

\* A requirement's status is its one decision, whichever of two racing calls got
\* to record it (AddDecision and UpdateRequirementStatus, approval_service.go:261-267).
OneDecisionPerRequirement ==
  \A c \in Calls, m \in Modules :
    IF requirement[c][m] \in Decisions
    THEN \E d \in decisions : /\ DecisionFor(c, m) = {d}
                             /\ d.decision = requirement[c][m]
                             /\ <<"approval-decision", d.call>> \in outbox
    ELSE DecisionFor(c, m) = {}

\* Decisions are final: no later call changes a decided requirement, an approved
\* request or a request that needs no approval.
DecisionsFinal ==
  [][\A c \in Calls :
       /\ \A m \in Modules : requirement[c][m] \in Decisions =>
            requirement'[c][m] = requirement[c][m]
       /\ request[c].status \in {"approved", "not_required"} =>
            request'[c] = request[c]]_vars

StatusEvents(id, to) ==
  {e \in audit : /\ e.type = "approval_request_status_changed"
                 /\ e.request = id /\ e.to = to}

\* The audit trail does not lie about outcomes: a request is approved exactly when
\* the trail says so, once, and it is not rejected without the trail saying so
\* (appendStatusChangedAudit, approval_service.go:276-280).
AuditExplainsStatus ==
  \A c \in Calls :
    /\ Cardinality(StatusEvents(c, "approved")) =
         IF request[c].status = "approved" THEN 1 ELSE 0
    /\ request[c].status = "rejected" => StatusEvents(c, "rejected") # {}

\* With one requirement, which is what the Community wiring creates, the
\* request's status and counters are exactly those of the requirement.
SingleRequirementExact ==
  \A c \in Calls, m \in Modules : RequirementsOf(c) = {m} =>
    /\ request[c].status = requirement[c][m]
    /\ request[c].required = 1
    /\ request[c].received = IF requirement[c][m] = "approved" THEN 1 ELSE 0

=============================================================================
