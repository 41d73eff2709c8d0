------------------------------- MODULE Policy -------------------------------
(***************************************************************************)
(* What an approval request asks for: the reads of                         *)
(* approvalPolicyContextForReport                                          *)
(* (internal/usecase/governance/approval_service.go) over owners, the      *)
(* dependency graph and the runtime inventory, each a statement of its own *)
(* while those tables change, and EvaluatePolicy (policy.go) on what they  *)
(* returned.  One report about one module; module Approval models what     *)
(* becomes of the request and how concurrent creations are settled.        *)
(***************************************************************************)
EXTENDS Integers, Sequences, SequencesExt

CONSTANTS
  Modules,                 \* registered modules
  Changed,                 \* the module the breaking report is about
  Breaking,                \* whether the report found breaking changes
  Environments,            \* environments services report from
  Canonical,               \* function: a name trimmed and in lower case
  Enabled,                 \* PolicyConfig.Enabled
  ProductionEnvironments,  \* PolicyConfig.ProductionEnvironments
  AllowMaintainerApproval, \* PolicyConfig.AllowMaintainerApproval
  ImpactLimit,             \* defaultApprovalListLimit
  MaxChanges,              \* bound on changes of the tables
  Null

Roles == {"owner", "maintainer"}

VARIABLES
  owners,      \* module_owners: who may decide, by module and role
  consumers,   \* modules whose latest published version depends on Changed
  usages,      \* runtime_module_usages, oldest first
  changes,     \* changes of these tables so far
  pc,          \* where the call is
  context,     \* approvalPolicyContext
  request,     \* the request it stored
  steady       \* consumers used in production ever since the call began

tables == <<owners, consumers, usages>>
vars == <<owners, consumers, usages, changes, pc, context, request, steady>>

-----------------------------------------------------------------------------
(* EvaluatePolicy. *)

AllowedPolicyRoles == {"owner"} \cup IF AllowMaintainerApproval THEN {"maintainer"} ELSE {}

HasEligibleOwner(entries) == \E o \in entries : o.role \in AllowedPolicyRoles

\* normalizePolicyConfig: no environments mean the defaults.
Production ==
  {Canonical[e] : e \in IF ProductionEnvironments = {}
                        THEN {"production", "prod"} ELSE ProductionEnvironments}

\* Modules of the impact rows that come from a production environment.
ProductionRuntimeModules(impact) ==
  {u.module : u \in {v \in ToSet(impact) : Canonical[v.environment] \in Production}}

\* addRequirement: one per type and target, marked when nobody is eligible.
Requirement(type, target, entries) ==
  [type |-> type, target |-> target, status |-> "pending",
   warned |-> ~HasEligibleOwner(entries)]

\* The affected modules that are asked: marked as used in production by the caller,
\* or found among the modules of the production impact.
AskedConsumers(input) ==
  {a \in input.affected :
     a.productionUsed \/ a.module \in ProductionRuntimeModules(input.impact)}

NotRequired(reason) ==
  [status |-> "not_required", requirements |-> {}, reasons |-> {reason}]

EvaluatePolicy(input) ==
  LET asked == AskedConsumers(input)
      requirements ==
        {Requirement("module_owner_approval", Changed, input.moduleOwners)}
          \cup {Requirement("affected_consumer_approval", a.module, a.owners) : a \in asked}
      reasons ==
        {"breaking_changes", "module_owner_required"}
          \cup (IF asked = {} THEN {}
                ELSE {"affected_consumer_required", "production_runtime_consumer"})
          \cup (IF \E q \in requirements : q.warned THEN {"missing_module_owner"} ELSE {})
  IN  IF ~Enabled THEN NotRequired("governance_disabled")
      ELSE IF ~Breaking THEN NotRequired("no_breaking_changes")
      ELSE [status |-> "pending", requirements |-> requirements, reasons |-> reasons]

-----------------------------------------------------------------------------
(* The tables, and what changes them: other calls of the same API. *)

\* Consumers of Changed that some service runs in production, in any version.
ProductionUsedConsumers ==
  consumers \cap ProductionRuntimeModules(usages)

NoContext == [moduleOwners |-> {}, affected |-> {}, names |-> {}, impact |-> <<>>]

Init ==
  /\ owners = {} /\ consumers = {} /\ usages = <<>> /\ changes = 0
  /\ pc = "idle" /\ context = NoContext /\ request = Null /\ steady = {}

Change ==
  /\ changes < MaxChanges
  /\ changes' = changes + 1
  /\ steady' = steady \cap ProductionUsedConsumers'
  /\ UNCHANGED <<pc, context, request>>

AddModuleOwner(m, role) ==
  /\ owners' = owners \cup {[module |-> m, role |-> role]}
  /\ UNCHANGED <<consumers, usages>>
  /\ Change

RemoveModuleOwner(o) ==
  /\ owners' = owners \ {o}
  /\ UNCHANGED <<consumers, usages>>
  /\ Change

\* A publish whose dependencies are resolved.  A module is never a consumer of
\* itself (addDependency).
PublishConsumer(m, depends) ==
  /\ m # Changed
  /\ consumers' = IF depends THEN consumers \cup {m} ELSE consumers \ {m}
  /\ UNCHANGED <<owners, usages>>
  /\ Change

\* A runtime report: `base' when it names the report's base version of Changed.
ReportRuntimeInventory(m, environment, base) ==
  /\ base => m = Changed
  /\ usages' = Append(usages, [module |-> m, environment |-> environment, base |-> base])
  /\ UNCHANGED <<owners, consumers>>
  /\ Change

-----------------------------------------------------------------------------
(* approvalPolicyContextForReport and policyAffectedModules, read by read. *)

OwnersOf(m) == {o \in owners : o.module = m}

Read(from, to, field, value) ==
  /\ pc = from
  /\ pc' = to
  /\ context' = [context EXCEPT ![field] = value]
  /\ UNCHANGED <<tables, changes, request, steady>>

Begin ==
  /\ pc = "idle"
  /\ pc' = "owners"
  /\ steady' = ProductionUsedConsumers
  /\ UNCHANGED <<tables, changes, context, request>>

ReadModuleOwners == Read("owners", "affected", "moduleOwners", OwnersOf(Changed))

ListAffectedModules == Read("affected", "impact", "names", consumers)

\* ListRuntimeImpactByModuleVersion: usages of the base version, newest first, the
\* first ImpactLimit of them.
RuntimeImpact ==
  LET rows == SelectSeq(usages, LAMBDA u : u.base)
      n == Len(rows)
  IN  Reverse(SubSeq(rows, IF n > ImpactLimit THEN n - ImpactLimit + 1 ELSE 1, n))

ListRuntimeImpact == Read("impact", "consumers", "impact", RuntimeImpact)

\* policyAffectedModules: the owners of each affected module.  productionUsed is
\* left at its zero value.
PolicyAffectedModule(m) ==
  /\ pc = "consumers"
  /\ m \in context.names
  /\ context' = [context EXCEPT !.names = @ \ {m},
                   !.affected = @ \cup {[module |-> m, owners |-> OwnersOf(m),
                                         productionUsed |-> FALSE]}]
  /\ UNCHANGED <<tables, changes, pc, request, steady>>

\* Evaluate, buildApprovalRequestFromPolicyDecision and the transaction.
CreateRequest ==
  /\ pc = "consumers"
  /\ context.names = {}
  /\ request' = EvaluatePolicy(context)
  /\ pc' = "done"
  /\ UNCHANGED <<tables, changes, context, steady>>

\* Any read may fail and end the call.
Fail ==
  /\ pc \notin {"idle", "done"}
  /\ pc' = "done"
  /\ UNCHANGED <<tables, changes, context, request, steady>>

Next ==
  \/ \E m \in Modules, role \in Roles : AddModuleOwner(m, role)
  \/ \E o \in owners : RemoveModuleOwner(o)
  \/ \E m \in Modules, depends \in BOOLEAN : PublishConsumer(m, depends)
  \/ \E m \in Modules, e \in Environments, base \in BOOLEAN :
       ReportRuntimeInventory(m, e, base)
  \/ Begin
  \/ ReadModuleOwners
  \/ ListAffectedModules
  \/ ListRuntimeImpact
  \/ \E m \in Modules : PolicyAffectedModule(m)
  \/ CreateRequest
  \/ Fail

Spec == Init /\ [][Next]_vars

-----------------------------------------------------------------------------
(* Property. *)

\* docs/governance.md:80 says that "Breaking changes that affect production-used
\* consumer modules require affected consumer approval for each production-used
\* affected module".  Asked here only of consumers that depended on the changed
\* module and ran in production from the call's first read to its last.  The impact
\* rows are those of the changed module's base version (runtime_inventory.go:243),
\* so their module is never one of its consumers.
ProductionConsumersAsked ==
  request # Null /\ request.status = "pending" =>
    steady \subseteq {q.target : q \in {r \in request.requirements :
                                          r.type = "affected_consumer_approval"}}
=============================================================================
