--------------------------- MODULE ApprovalProofs ---------------------------
(***************************************************************************)
(* Proofs about Approval for every number of calls, reports, modules,      *)
(* actors and owner changes, and every result the policy may give.         *)
(***************************************************************************)
EXTENDS Approval, FiniteSetTheorems, TLAPS

Creating(c) == pc[c] \in {"evaluate", "create", "reread"}
Deciding(c) == pc[c] \in {"requirements", "decisions", "authorize", "decide"}

\* A request row appears when the call that names it returns; until then, and
\* when no approval is needed, it has no requirements.
RequestRows ==
  \A c \in Calls :
    /\ pc[c] = "idle" => asked[c] = Null
    /\ Creating(c) => asked[c] \in CreateInput
    /\ Deciding(c) => asked[c] \in DecideInput /\ snapshot[c] \in Snapshot
    /\ request[c].status # "absent" => pc[c] = "done"
    /\ request[c].status = "absent" <=> request[c].report = Null
    /\ request[c].status \in {"absent", "not_required"} =>
         \A m \in Modules : requirement[c][m] = "absent"

\* What a deciding call has read is old but not wrong: its requirement exists,
\* requirements are neither added nor removed, and decided ones stay decided.
SnapshotsOld ==
  \A c \in Calls : Deciding(c) =>
    LET id == asked[c].request
        s == snapshot[c]
    IN /\ requirement[id][asked[c].module] # "absent"
       /\ \A m \in Modules :
            /\ s.requirements[m] = "absent" <=> requirement[id][m] = "absent"
            /\ s.requirements[m] \in Decisions => requirement[id][m] = s.requirements[m]

\* The statuses of requirements behind an approval, and who decided them.
ApprovedRequirements ==
  /\ \A c \in Calls : request[c].status = "approved" =>
       /\ RequirementsOf(c) # {}
       /\ \A m \in RequirementsOf(c) : requirement[c][m] = "approved"
  /\ \A o \in owners :
       [type |-> "module_owner_added", id |-> o.id, entry |-> o.entry] \in audit
  /\ \A c \in Calls : pc[c] = "decide" => WasGranted(asked[c].actor, asked[c].module)
  /\ \A d \in decisions : WasGranted(d.actor, d.module)

\* Creating calls end with the one request of their report.
CreationReplies ==
  /\ IdempotentCreation
  /\ \A c \in Calls : pc[c] = "reread" => RequestsFor(asked[c].report) # {}

\* What every step preserves.
IInv == /\ TypeOK /\ RequestRows /\ SnapshotsOld /\ OneDecisionPerRequirement
        /\ ApprovedRequirements /\ CreationReplies

LEMMA InvInit == Init => IInv
<1> SUFFICES ASSUME Init PROVE IInv
  OBVIOUS
<1> USE ApprovalAssumption DEF Init, AbsentRequest
<1>1. TypeOK
  BY DEF TypeOK, RequestStatus, RequirementStatus
<1>2. RequestRows /\ SnapshotsOld
  BY DEF RequestRows, SnapshotsOld, Creating, Deciding
<1>3. OneDecisionPerRequirement
  BY DEF OneDecisionPerRequirement, DecisionFor, Decisions
<1>4. ApprovedRequirements /\ CreationReplies
  BY DEF ApprovedRequirements, CreationReplies, IdempotentCreation
<1> QED BY <1>1, <1>2, <1>3, <1>4 DEF IInv

\* Owner changes touch the owners and add to the audit trail and the outbox.
LEMMA InvAddModuleOwner ==
  ASSUME IInv, NEW entry \in OwnerEntries, AddModuleOwner(entry) PROVE IInv'
<1> DEFINE id == ownerIDs + 1
<1>1. /\ UNCHANGED <<request, requirement, decisions, pc, asked, plan, snapshot, reply>>
      /\ ownerIDs' = id /\ ownerIDs < MaxOwnerChanges
      /\ owners' = owners \cup {[id |-> id, entry |-> entry]}
      /\ audit' = audit \cup {[type |-> "module_owner_added", id |-> id, entry |-> entry]}
      /\ outbox' = outbox \cup {<<"owner", id, "added">>}
  BY DEF AddModuleOwner, locals
<1>2. id \in Nat /\ id \in 0 .. MaxOwnerChanges
  BY <1>1, ApprovalAssumption DEF IInv, TypeOK
<1> HIDE DEF id
<1>3. TypeOK'
  BY <1>1, <1>2 DEF IInv, TypeOK
<1>4. RequestRows' /\ SnapshotsOld'
  BY <1>1 DEF IInv, RequestRows, SnapshotsOld, Creating, Deciding
<1>5. OneDecisionPerRequirement'
  BY <1>1 DEF IInv, OneDecisionPerRequirement, DecisionFor
<1>6. \A a, m : WasGranted(a, m) => WasGranted(a, m)'
  BY <1>1 DEF WasGranted
<1>7. ApprovedRequirements'
  BY <1>1, <1>6 DEF IInv, ApprovedRequirements, RequirementsOf
<1>8. CreationReplies'
  BY <1>1 DEF IInv, CreationReplies, IdempotentCreation, RequestsFor
<1> QED BY <1>3, <1>4, <1>5, <1>7, <1>8 DEF IInv

LEMMA InvRemoveModuleOwner ==
  ASSUME IInv, NEW o \in owners, RemoveModuleOwner(o) PROVE IInv'
<1>1. /\ UNCHANGED <<request, requirement, decisions, ownerIDs,
                     pc, asked, plan, snapshot, reply>>
      /\ owners' = owners \ {o}
      /\ audit' = audit \cup
           {[type |-> "module_owner_removed", id |-> o.id, entry |-> o.entry]}
      /\ outbox' = outbox \cup {<<"owner", o.id, "removed">>}
  BY DEF RemoveModuleOwner, locals
<1>2. TypeOK'
  BY <1>1 DEF IInv, TypeOK
<1>3. RequestRows' /\ SnapshotsOld'
  BY <1>1 DEF IInv, RequestRows, SnapshotsOld, Creating, Deciding
<1>4. OneDecisionPerRequirement'
  BY <1>1 DEF IInv, OneDecisionPerRequirement, DecisionFor
<1>5. \A a, m : WasGranted(a, m) => WasGranted(a, m)'
  BY <1>1 DEF WasGranted
<1>6. ApprovedRequirements'
  BY <1>1, <1>5 DEF IInv, ApprovedRequirements, RequirementsOf
<1>7. CreationReplies'
  BY <1>1 DEF IInv, CreationReplies, IdempotentCreation, RequestsFor
<1> QED BY <1>2, <1>3, <1>4, <1>6, <1>7 DEF IInv

-----------------------------------------------------------------------------
(* Steps of a call that leave the tables alone. *)

PCs == {"idle", "evaluate", "create", "reread", "requirements", "decisions",
        "authorize", "decide", "done"}

LEMMA AfterGoto ==
  ASSUME TypeOK, NEW c \in Calls, NEW to \in PCs, Goto(c, to)
  PROVE  /\ pc' \in [Calls -> PCs]
         /\ pc'[c] = to
         /\ \A d \in Calls \ {c} : pc'[d] = pc[d]
BY DEF TypeOK, PCs, Goto

LEMMA AfterReturn ==
  ASSUME TypeOK, NEW c \in Calls, NEW answer \in Reply, Return(c, answer)
  PROVE  /\ pc' \in [Calls -> PCs]
         /\ reply' \in [Calls -> Reply \cup {Null}]
         /\ plan' \in [Calls -> SUBSET Modules]
         /\ snapshot' \in [Calls -> Snapshot \cup {Null}]
         /\ pc'[c] = "done" /\ reply'[c] = answer
         /\ \A d \in Calls \ {c} :
              pc'[d] = pc[d] /\ reply'[d] = reply[d] /\ snapshot'[d] = snapshot[d]
BY DEF TypeOK, PCs, Return

LEMMA Answers ==
  /\ \A id \in Calls : /\ OK(id) \in Reply
                       /\ OK(id).result = "ok" /\ OK(id).request = id
  /\ \A code \in {"error", "request_conflict", "requirement_conflict",
                   "request_not_found", "forbidden"} :
       Error(code) \in Reply /\ Error(code).result = code
BY DEF OK, Error, Reply

\* A step of call c that reads and moves on.  It suffices to look at c.
LEMMA InvLocal ==
  ASSUME IInv, NEW c \in Calls, UNCHANGED tables,
         pc[c] # "done", TypeOK',
         \A d \in Calls \ {c} :
           /\ pc'[d] = pc[d] /\ asked'[d] = asked[d]
           /\ snapshot'[d] = snapshot[d] /\ reply'[d] = reply[d],
         pc'[c] \in {"evaluate", "create", "reread"} => asked'[c] \in CreateInput,
         pc'[c] \in {"requirements", "decisions", "authorize", "decide"} =>
           /\ asked'[c] \in DecideInput /\ snapshot'[c] \in Snapshot
           /\ requirement[asked'[c].request][asked'[c].module] # "absent"
           /\ \A m \in Modules :
                LET old == snapshot'[c].requirements[m]
                    now == requirement[asked'[c].request][m]
                IN  /\ old = "absent" <=> now = "absent"
                    /\ old \in Decisions => now = old,
         pc'[c] = "idle" => asked'[c] = Null,
         pc'[c] = "decide" => WasGranted(asked'[c].actor, asked'[c].module),
         pc'[c] = "reread" => RequestsFor(asked'[c].report) # {},
         pc'[c] = "done" /\ asked'[c] \in CreateInput =>
           \/ /\ reply'[c].result = "ok"
              /\ reply'[c].request \in RequestsFor(asked'[c].report)
           \/ reply'[c].result = "request_conflict" /\ RequestsFor(asked'[c].report) # {}
           \/ reply'[c].result = "error"
  PROVE  IInv'
<1> USE DEF tables
<1>1. request[c].status = "absent" /\ request[c].report = Null
  BY DEF IInv, RequestRows
<1>2. RequestRows'
  BY <1>1 DEF IInv, RequestRows, Creating, Deciding
<1>3. SnapshotsOld'
  BY DEF IInv, SnapshotsOld, Deciding
<1>4. OneDecisionPerRequirement'
  BY DEF IInv, OneDecisionPerRequirement, DecisionFor
<1>5. \A a, m : WasGranted(a, m) => WasGranted(a, m)'
  BY DEF WasGranted
<1>6. ApprovedRequirements'
  BY <1>5 DEF IInv, ApprovedRequirements, RequirementsOf
<1>7. CreationReplies'
  BY DEF IInv, CreationReplies, IdempotentCreation, RequestsFor
<1> QED BY <1>2, <1>3, <1>4, <1>6, <1>7 DEF IInv

LEMMA InvLookUp ==
  ASSUME IInv, NEW c \in Calls, NEW report \in Reports, LookUp(c, report) PROVE IInv'
<1>1. /\ asked' = [asked EXCEPT ![c] = [op |-> "create", report |-> report]]
      /\ UNCHANGED tables /\ pc[c] = "idle"
  BY DEF LookUp
<1>2. /\ asked'[c] = [op |-> "create", report |-> report]
      /\ asked'[c] \in CreateInput /\ asked'[c].report = report
      /\ asked' \in [Calls -> CreateInput \cup DecideInput \cup {Null}]
      /\ \A d \in Calls \ {c} : asked'[d] = asked[d]
  BY <1>1 DEF IInv, TypeOK, CreateInput
<1>3. CASE \E id \in RequestsFor(report) : Return(c, OK(id))
  <2>1. PICK id \in RequestsFor(report) : Return(c, OK(id))
    BY <1>3
  <2>2. id \in Calls /\ request[id].report = report
    BY DEF RequestsFor
  <2>3. TypeOK'
    BY <1>1, <1>2, <2>1, <2>2, AfterReturn, Answers DEF IInv, TypeOK, PCs, tables
  <2> QED BY <1>1, <1>2, <2>1, <2>2, <2>3, AfterReturn, Answers, InvLocal DEF IInv
<1>4. CASE Goto(c, "evaluate") /\ UNCHANGED <<plan, snapshot, reply>>
  <2>1. TypeOK'
    BY <1>1, <1>2, <1>4, AfterGoto DEF IInv, TypeOK, PCs, tables
  <2> QED BY <1>1, <1>2, <1>4, <2>1, AfterGoto, InvLocal DEF IInv, PCs
<1> QED BY <1>3, <1>4 DEF LookUp

LEMMA InvEvaluate == ASSUME IInv, NEW c \in Calls, Evaluate(c) PROVE IInv'
<1>1. /\ UNCHANGED <<tables, asked, snapshot, reply>> /\ pc[c] = "evaluate"
      /\ Goto(c, "create")
      /\ plan' \in [Calls -> SUBSET Modules]
  BY ApprovalAssumption DEF Evaluate, IInv, TypeOK
<1>2. TypeOK'
  BY <1>1, AfterGoto DEF IInv, TypeOK, PCs, tables
<1>3. asked[c] \in CreateInput
  BY <1>1 DEF IInv, RequestRows, Creating
<1> QED BY <1>1, <1>2, <1>3, AfterGoto, InvLocal DEF IInv, PCs

LEMMA InvRequestConflict ==
  ASSUME IInv, NEW c \in Calls, RequestConflict(c) PROVE IInv'
<1>1. /\ UNCHANGED <<tables, asked, plan, snapshot, reply>> /\ pc[c] = "create"
      /\ Goto(c, "reread") /\ RequestsFor(asked[c].report) # {}
  BY DEF RequestConflict, ReportTaken
<1>2. TypeOK'
  BY <1>1, AfterGoto DEF IInv, TypeOK, PCs, tables
<1>3. asked[c] \in CreateInput
  BY <1>1 DEF IInv, RequestRows, Creating
<1> QED BY <1>1, <1>2, <1>3, AfterGoto, InvLocal DEF IInv, PCs

LEMMA InvReadExisting == ASSUME IInv, NEW c \in Calls, ReadExisting(c) PROVE IInv'
<1>1. /\ UNCHANGED <<tables, asked>> /\ pc[c] = "reread"
      /\ asked[c] \in CreateInput
      /\ RequestsFor(asked[c].report) # {}
  BY DEF ReadExisting, IInv, RequestRows, Creating, CreationReplies
<1>2. PICK answer \in Reply :
        /\ Return(c, answer)
        /\ \/ /\ answer.result = "ok"
              /\ answer.request \in RequestsFor(asked[c].report)
           \/ answer.result = "request_conflict"
  BY <1>1, Answers DEF ReadExisting, RequestsFor
<1>3. TypeOK'
  BY <1>1, <1>2, AfterReturn DEF IInv, TypeOK, PCs, tables
<1> QED BY <1>1, <1>2, <1>3, AfterReturn, InvLocal DEF IInv

\* A call that ends without success: what it asked for does not matter, unless
\* it is a conflict of a creating call.
LEMMA InvReturnError ==
  ASSUME IInv, NEW c \in Calls, UNCHANGED <<tables, asked>>, pc[c] # "done",
         NEW answer \in Reply, Return(c, answer),
         answer.result = "error" \/ asked[c] \in DecideInput
  PROVE  IInv'
<1>1. TypeOK'
  BY AfterReturn DEF IInv, TypeOK, PCs, tables
<1>2. asked[c] \in DecideInput => asked[c] \notin CreateInput
  BY DEF DecideInput, CreateInput
<1> QED BY <1>1, <1>2, AfterReturn, InvLocal DEF IInv

LEMMA InvReadRequest ==
  ASSUME IInv, NEW c \in Calls, NEW id \in Calls, NEW module \in Modules,
         NEW decision \in Decisions, NEW actor \in Actors,
         ReadRequest(c, id, module, decision, actor)
  PROVE  IInv'
<1> DEFINE a == [op |-> "decide", request |-> id, module |-> module,
                 decision |-> decision, actor |-> actor]
           s == [status |-> request[id].status, requirements |-> requirement[id]]
<1>1. /\ UNCHANGED <<tables, plan, reply>> /\ pc[c] = "idle"
      /\ Goto(c, "requirements") /\ requirement[id][module] # "absent"
      /\ asked' = [asked EXCEPT ![c] = a]
      /\ snapshot' = [snapshot EXCEPT ![c] = s]
  BY DEF ReadRequest
<1>2. a \in DecideInput /\ s \in Snapshot
  BY DEF DecideInput, Snapshot, IInv, TypeOK
<1>3. /\ a.request = id /\ a.module = module /\ s.requirements = requirement[id]
  OBVIOUS
<1> HIDE DEF a, s
<1>4. /\ asked'[c] = a /\ snapshot'[c] = s
      /\ asked' \in [Calls -> CreateInput \cup DecideInput \cup {Null}]
      /\ snapshot' \in [Calls -> Snapshot \cup {Null}]
      /\ \A d \in Calls \ {c} : asked'[d] = asked[d] /\ snapshot'[d] = snapshot[d]
  BY <1>1, <1>2 DEF IInv, TypeOK
<1>5. TypeOK'
  BY <1>1, <1>4, AfterGoto DEF IInv, TypeOK, PCs, tables
<1> QED BY <1>1, <1>2, <1>3, <1>4, <1>5, AfterGoto, InvLocal DEF IInv, PCs

LEMMA InvReadRequirements ==
  ASSUME IInv, NEW c \in Calls, ReadRequirements(c) PROVE IInv'
<1> DEFINE id == asked[c].request
           s == [snapshot[c] EXCEPT !.requirements = requirement[id]]
<1>1. /\ UNCHANGED <<tables, asked, plan, reply>> /\ pc[c] = "requirements"
      /\ Goto(c, "decisions")
      /\ snapshot' = [snapshot EXCEPT ![c] = s]
  BY DEF ReadRequirements
<1>2. /\ asked[c] \in DecideInput /\ snapshot[c] \in Snapshot
      /\ requirement[id][asked[c].module] # "absent"
  BY <1>1 DEF IInv, RequestRows, SnapshotsOld, Deciding
<1>3. /\ id \in Calls /\ asked[c].module \in Modules
      /\ s \in Snapshot /\ s.requirements = requirement[id]
  BY <1>2 DEF DecideInput, Snapshot, IInv, TypeOK
<1> HIDE DEF s
<1>4. /\ snapshot'[c] = s
      /\ snapshot' \in [Calls -> Snapshot \cup {Null}]
      /\ \A d \in Calls \ {c} : snapshot'[d] = snapshot[d]
  BY <1>1, <1>3 DEF IInv, TypeOK
<1>5. TypeOK'
  BY <1>1, <1>4, AfterGoto DEF IInv, TypeOK, PCs, tables
<1> QED BY <1>1, <1>2, <1>3, <1>4, <1>5, AfterGoto, InvLocal DEF IInv, PCs

\* A deciding call that moves on with what it has.
LEMMA InvGoOn ==
  ASSUME IInv, NEW c \in Calls, Deciding(c),
         UNCHANGED <<tables, asked, plan, snapshot, reply>>,
         NEW to \in {"authorize", "decide"}, Goto(c, to),
         to = "decide" => WasGranted(asked[c].actor, asked[c].module)
  PROVE  IInv'
<1>1. pc[c] # "done"
  BY DEF Deciding
<1>2. TypeOK'
  BY AfterGoto DEF IInv, TypeOK, PCs, tables
<1>3. /\ asked[c] \in DecideInput /\ snapshot[c] \in Snapshot
      /\ requirement[asked[c].request][asked[c].module] # "absent"
      /\ \A m \in Modules :
           LET old == snapshot[c].requirements[m]
               now == requirement[asked[c].request][m]
           IN  /\ old = "absent" <=> now = "absent"
               /\ old \in Decisions => now = old
  BY DEF IInv, RequestRows, SnapshotsOld
<1> QED BY <1>1, <1>2, <1>3, AfterGoto, InvLocal DEF IInv, PCs

LEMMA InvCheckDecidable == ASSUME IInv, NEW c \in Calls, CheckDecidable(c) PROVE IInv'
<1>1. UNCHANGED <<tables, asked>> /\ pc[c] = "decisions" /\ Deciding(c)
  BY DEF CheckDecidable, Deciding
<1>2. asked[c] \in DecideInput
  BY <1>1 DEF IInv, RequestRows
<1>3. \/ \E answer \in Reply : Return(c, answer)
      \/ Goto(c, "authorize") /\ UNCHANGED <<plan, snapshot, reply>>
  BY Answers DEF CheckDecidable
<1> QED BY <1>1, <1>2, <1>3, InvReturnError, InvGoOn

LEMMA InvAuthorize == ASSUME IInv, NEW c \in Calls, Authorize(c) PROVE IInv'
<1>1. UNCHANGED <<tables, asked>> /\ pc[c] = "authorize" /\ Deciding(c)
  BY DEF Authorize, Deciding
<1>2. asked[c] \in DecideInput
  BY <1>1 DEF IInv, RequestRows
<1>3. ASSUME ActorCanDecide(asked[c].module, asked[c].actor)
      PROVE  WasGranted(asked[c].actor, asked[c].module)
  <2>1. PICK o \in owners : /\ o.entry.module = asked[c].module
                            /\ o.entry.subject = asked[c].actor
                            /\ o.entry.role \in AllowedRoles
    BY <1>3 DEF ActorCanDecide
  <2> DEFINE e == [type |-> "module_owner_added", id |-> o.id, entry |-> o.entry]
  <2>2. e \in audit
    BY DEF IInv, ApprovedRequirements
  <2>3. e.type = "module_owner_added" /\ e.entry = o.entry
    OBVIOUS
  <2> HIDE DEF e
  <2> QED BY <2>1, <2>2, <2>3 DEF WasGranted
<1>4. \/ \E answer \in Reply : Return(c, answer)
      \/ /\ ActorCanDecide(asked[c].module, asked[c].actor)
         /\ Goto(c, "decide") /\ UNCHANGED <<plan, snapshot, reply>>
  BY Answers DEF Authorize
<1> QED BY <1>1, <1>2, <1>3, <1>4, InvReturnError, InvGoOn

LEMMA InvDecisionConflict ==
  ASSUME IInv, NEW c \in Calls, DecisionConflict(c) PROVE IInv'
<1>1. UNCHANGED <<tables, asked>> /\ pc[c] = "decide" /\ Deciding(c)
  BY DEF DecisionConflict, Deciding
<1>2. asked[c] \in DecideInput
  BY <1>1 DEF IInv, RequestRows
<1>3. \E answer \in Reply : Return(c, answer)
  BY Answers DEF DecisionConflict
<1> QED BY <1>1, <1>2, <1>3, InvReturnError

LEMMA InvFail == ASSUME IInv, NEW c \in Calls, Fail(c) PROVE IInv'
<1>1. UNCHANGED <<tables, asked>> /\ pc[c] # "done"
  BY DEF Fail
<1>2. \E answer \in Reply : Return(c, answer) /\ answer.result = "error"
  BY Answers DEF Fail
<1> QED BY <1>1, <1>2, InvReturnError

-----------------------------------------------------------------------------
(* The two transactions. *)

LEMMA CountsAreNat == \A S \in SUBSET Modules : Cardinality(S) \in Nat
BY ApprovalAssumption, FS_Subset, FS_CardinalityType

LEMMA InvCommitRequest == ASSUME IInv, NEW c \in Calls, CommitRequest(c) PROVE IInv'
<1> DEFINE new == NewRequest(c)
           created(d) == [type |-> "approval_request_created", request |-> d]
           needs == [m \in Modules |-> IF m \in plan[c] THEN "pending" ELSE "absent"]
<1>1. /\ pc[c] = "create" /\ RequestsFor(asked[c].report) = {}
      /\ request' = [request EXCEPT ![c] = new]
      /\ requirement' = [requirement EXCEPT ![c] = needs]
      /\ audit' = audit \cup {created(c)}
      /\ outbox' = outbox \cup {<<"approval-request", c>>}
      /\ UNCHANGED <<decisions, owners, ownerIDs, asked>>
  BY DEF CommitRequest, ReportTaken
<1>2. /\ asked[c] \in CreateInput /\ asked[c].report \in Reports
      /\ asked[c].report # Null /\ asked[c].op = "create"
  BY <1>1, ApprovalAssumption DEF IInv, RequestRows, Creating, CreateInput
<1>3. PICK answer \in Reply : /\ Return(c, answer)
                             /\ \/ answer.result = "ok" /\ answer.request = c
                                \/ answer.result = "error"
  BY Answers DEF CommitRequest
<1>4. /\ request[c].status = "absent" /\ request[c].report = Null
      /\ \A m \in Modules : requirement[c][m] = "absent"
  BY <1>1 DEF IInv, RequestRows
<1>5. /\ new.report = asked[c].report
      /\ new.status \in {"not_required", "pending"}
      /\ new.status = "not_required" <=> plan[c] = {}
      /\ new \in [report : Reports \cup {Null}, status : RequestStatus,
                   required : Nat, received : Nat]
  <2>1. Cardinality(plan[c]) \in Nat
    BY CountsAreNat DEF IInv, TypeOK
  <2> QED BY <1>2, <2>1 DEF NewRequest, RequestStatus
<1>6. /\ needs \in [Modules -> RequirementStatus]
      /\ \A m \in Modules : needs[m] \in {"pending", "absent"}
      /\ plan[c] = {} => \A m \in Modules : needs[m] = "absent"
  BY DEF RequirementStatus
<1> HIDE DEF new, needs
<1>7. /\ request'[c] = new /\ requirement'[c] = needs
      /\ \A d \in Calls \ {c} : request'[d] = request[d] /\ requirement'[d] = requirement[d]
  BY <1>1 DEF IInv, TypeOK
<1>8. TypeOK'
  BY <1>1, <1>3, <1>5, <1>6, AfterReturn DEF IInv, TypeOK, PCs
<1>9. RequestRows'
  BY <1>1, <1>2, <1>3, <1>4, <1>5, <1>6, <1>7, AfterReturn
  DEF IInv, RequestRows, Creating, Deciding
<1>10. SnapshotsOld'
  <2> SUFFICES ASSUME NEW d \in Calls, Deciding(d)'
               PROVE  (LET id == asked[d].request
                           s == snapshot[d]
                       IN /\ requirement[id][asked[d].module] # "absent"
                          /\ \A m \in Modules :
                               /\ s.requirements[m] = "absent" <=> requirement[id][m] = "absent"
                               /\ s.requirements[m] \in Decisions =>
                                    requirement[id][m] = s.requirements[m])'
    BY DEF SnapshotsOld
  <2>1. d # c /\ pc'[d] = pc[d] /\ snapshot'[d] = snapshot[d] /\ Deciding(d)
    BY <1>3, AfterReturn DEF Deciding, IInv
  <2>2. asked[d] \in DecideInput /\ asked[d].request \in Calls /\ asked[d].module \in Modules
    BY <2>1 DEF IInv, RequestRows, DecideInput
  <2>3. asked[d].request # c
    BY <1>4, <2>1, <2>2 DEF IInv, SnapshotsOld
  <2> QED BY <1>1, <1>7, <2>1, <2>2, <2>3 DEF IInv, SnapshotsOld
<1>11. OneDecisionPerRequirement'
  <2> SUFFICES ASSUME NEW d \in Calls, NEW m \in Modules
               PROVE  (IF requirement[d][m] \in Decisions
                       THEN \E x \in decisions : /\ DecisionFor(d, m) = {x}
                                                 /\ x.decision = requirement[d][m]
                                                 /\ <<"approval-decision", x.call>> \in outbox
                       ELSE DecisionFor(d, m) = {})'
    BY DEF OneDecisionPerRequirement
  <2>1. DecisionFor(d, m)' = DecisionFor(d, m)
    BY <1>1 DEF DecisionFor
  <2>2. CASE d = c
    BY <1>4, <1>6, <1>7, <2>1, <2>2 DEF IInv, OneDecisionPerRequirement, Decisions
  <2>3. CASE d # c
    BY <1>1, <1>7, <2>1, <2>3 DEF IInv, OneDecisionPerRequirement
  <2> QED BY <2>2, <2>3
<1>12. \A a, m : WasGranted(a, m) => WasGranted(a, m)'
  BY <1>1 DEF WasGranted
<1>13. ApprovedRequirements'
  BY <1>1, <1>3, <1>5, <1>7, <1>12, AfterReturn DEF IInv, ApprovedRequirements, RequirementsOf
<1>14. \A r : RequestsFor(r) \subseteq RequestsFor(r)' \/ r = Null
  BY <1>4, <1>7 DEF RequestsFor
<1>15. CreationReplies'
  <2>1. \A d \in Calls : request[d].report # asked[c].report
    BY <1>1 DEF RequestsFor
  <2>2. (\A d, e \in Calls :
          request[d].report = request[e].report /\ request[d].report # Null => d = e)'
    BY <1>5, <1>7, <2>1 DEF IInv, CreationReplies, IdempotentCreation
  <2>3. ASSUME NEW d \in Calls, asked[d] \in CreateInput PROVE asked[d].report # Null
    BY <2>3, ApprovalAssumption DEF CreateInput
  <2>4. ASSUME NEW d \in Calls, (pc[d] = "done")', asked[d] \in CreateInput
        PROVE  (\/ reply[d].result = "ok" /\ reply[d].request \in RequestsFor(asked[d].report)
                \/ reply[d].result = "request_conflict" /\ RequestsFor(asked[d].report) # {}
                \/ reply[d].result = "error")'
    <3>1. CASE d = c
      BY <1>1, <1>3, <1>5, <1>7, <3>1, AfterReturn DEF IInv, RequestsFor
    <3>2. CASE d # c
      <4>1. pc[d] = "done" /\ reply'[d] = reply[d]
        BY <1>3, <2>4, <3>2, AfterReturn DEF IInv
      <4>2. \/ reply[d].result = "ok" /\ reply[d].request \in RequestsFor(asked[d].report)
            \/ reply[d].result = "request_conflict" /\ RequestsFor(asked[d].report) # {}
            \/ reply[d].result = "error"
        BY <2>4, <4>1 DEF IInv, CreationReplies, IdempotentCreation
      <4> QED BY <1>1, <1>14, <2>3, <2>4, <4>1, <4>2
    <3> QED BY <3>1, <3>2
  <2>5. (\A d \in Calls : request[d].report # Null <=>
           created(d) \in audit /\ <<"approval-request", d>> \in outbox)'
    <3>1. \A d \in Calls : request[d].report # Null <=>
            created(d) \in audit /\ <<"approval-request", d>> \in outbox
      BY DEF IInv, CreationReplies, IdempotentCreation
    <3>2. \A d \in Calls \ {c} : created(d) # created(c)
      OBVIOUS
    <3>3. \A d \in Calls \ {c} : <<"approval-request", d>> # <<"approval-request", c>>
      OBVIOUS
    <3> HIDE DEF created
    <3> QED BY <1>1, <1>2, <1>5, <1>7, <3>1, <3>2, <3>3
  <2>6. (\A d \in Calls : pc[d] = "reread" => RequestsFor(asked[d].report) # {})'
    <3> SUFFICES ASSUME NEW d \in Calls, pc'[d] = "reread"
                 PROVE  (RequestsFor(asked[d].report) # {})'
      OBVIOUS
    <3>1. pc[d] = "reread" /\ asked[d] \in CreateInput
      BY <1>3, AfterReturn DEF IInv, RequestRows, Creating
    <3> QED BY <1>1, <1>14, <2>3, <3>1 DEF IInv, CreationReplies
  <2> QED BY <1>1, <2>2, <2>4, <2>5, <2>6 DEF CreationReplies, IdempotentCreation
<1> QED BY <1>8, <1>9, <1>10, <1>11, <1>13, <1>15 DEF IInv

\* What CommitDecision finds: its requirement is pending, however old the call's
\* snapshot, because no decision has been recorded for it.
LEMMA StillPending ==
  ASSUME IInv, NEW c \in Calls, Deciding(c),
         ~RequirementTaken(asked[c].request, asked[c].module)
  PROVE  LET id == asked[c].request IN
         /\ asked[c] \in DecideInput /\ snapshot[c] \in Snapshot
         /\ id \in Calls /\ asked[c].module \in Modules
         /\ asked[c].decision \in Decisions /\ asked[c].actor \in Actors
         /\ requirement[id][asked[c].module] = "pending"
         /\ request[id].status \in {"pending", "rejected"}
         /\ pc[id] = "done" /\ request[id].report # Null
<1> DEFINE id == asked[c].request
           m == asked[c].module
<1>1. /\ asked[c] \in DecideInput /\ snapshot[c] \in Snapshot
      /\ requirement[id][m] # "absent"
  BY DEF IInv, RequestRows, SnapshotsOld
<1>2. /\ id \in Calls /\ m \in Modules
      /\ asked[c].decision \in Decisions /\ asked[c].actor \in Actors
  BY <1>1 DEF DecideInput
<1>3. requirement[id][m] \notin Decisions
  BY <1>2 DEF IInv, OneDecisionPerRequirement, RequirementTaken
<1>4. requirement[id][m] = "pending"
  BY <1>1, <1>2, <1>3 DEF IInv, TypeOK, RequirementStatus, Decisions
<1>5. request[id].status \notin {"absent", "not_required"}
  BY <1>2, <1>4 DEF IInv, RequestRows
<1>6. request[id].status # "approved"
  BY <1>2, <1>4 DEF IInv, ApprovedRequirements, RequirementsOf
<1>7. request[id].status \in RequestStatus
  BY <1>2 DEF IInv, TypeOK
<1>8. pc[id] = "done" /\ request[id].report # Null
  BY <1>2, <1>5 DEF IInv, RequestRows
<1> QED BY <1>1, <1>2, <1>4, <1>5, <1>6, <1>7, <1>8 DEF RequestStatus

\* What the transaction of a decision does to the tables.
LEMMA DecisionEffect ==
  ASSUME IInv, NEW c \in Calls, CommitDecision(c)
  PROVE  LET a == asked[c]
             id == a.request
             new == NewRequestStatus(snapshot[c], a.module, a.decision)
         IN /\ Deciding(c) /\ pc[c] = "decide"
            /\ ~RequirementTaken(id, a.module)
            /\ request' \in [Calls -> [report : Reports \cup {Null}, status : RequestStatus,
                                       required : Nat, received : Nat]]
            /\ request'[id].status = new /\ request'[id].report = request[id].report
            /\ new \in {"pending", "approved", "rejected"}
            /\ \A d \in Calls \ {id} : request'[d] = request[d]
            /\ requirement' \in [Calls -> [Modules -> RequirementStatus]]
            /\ requirement'[id][a.module] = a.decision
            /\ \A d \in Calls, m \in Modules : d # id \/ m # a.module =>
                 requirement'[d][m] = requirement[d][m]
<1> DEFINE a == asked[c]
           id == a.request
           s == snapshot[c]
           new == NewRequestStatus(s, a.module, a.decision)
           req == Cardinality({m \in Modules : s.requirements[m] # "absent"})
           rec == ReceivedApprovalsAfter(s.requirements, a.module, a.decision)
<1>1. /\ pc[c] = "decide" /\ Deciding(c) /\ ~RequirementTaken(id, a.module)
      /\ requirement' = [requirement EXCEPT ![id][a.module] = a.decision]
      /\ request' = [request EXCEPT ![id] =
                      [report |-> request[id].report, status |-> new,
                       required |-> req, received |-> rec]]
  BY DEF CommitDecision, Deciding
<1>2. id \in Calls /\ a.module \in Modules /\ a.decision \in Decisions
  BY <1>1, StillPending
<1>3. new \in {"pending", "approved", "rejected"} /\ new \in RequestStatus
  BY DEF NewRequestStatus, RequestStatus
<1>4. req \in Nat /\ rec \in Nat
  BY CountsAreNat DEF ReceivedApprovalsAfter
<1>5. a.decision \in RequirementStatus
  BY <1>2 DEF Decisions, RequirementStatus
<1> HIDE DEF new, req, rec, id, a
<1>6. /\ requirement' \in [Calls -> [Modules -> RequirementStatus]]
      /\ requirement'[id][a.module] = a.decision
      /\ \A d \in Calls, m \in Modules : d # id \/ m # a.module =>
           requirement'[d][m] = requirement[d][m]
  BY <1>1, <1>2, <1>5 DEF IInv, TypeOK
<1>7. /\ request' \in [Calls -> [report : Reports \cup {Null}, status : RequestStatus,
                                 required : Nat, received : Nat]]
      /\ request'[id].status = new /\ request'[id].report = request[id].report
      /\ \A d \in Calls \ {id} : request'[d] = request[d]
  <2> DEFINE row == [report |-> request[id].report, status |-> new,
                     required |-> req, received |-> rec]
  <2>1. /\ row \in [report : Reports \cup {Null}, status : RequestStatus,
                    required : Nat, received : Nat]
        /\ row.status = new /\ row.report = request[id].report
    BY <1>2, <1>3, <1>4 DEF IInv, TypeOK
  <2>2. request' = [request EXCEPT ![id] = row]
    BY <1>1
  <2> HIDE DEF row
  <2> QED BY <1>2, <2>1, <2>2 DEF IInv, TypeOK
<1> QED BY <1>1, <1>2, <1>3, <1>6, <1>7 DEF new, id, a

LEMMA InvCommitDecision == ASSUME IInv, NEW c \in Calls, CommitDecision(c) PROVE IInv'
<1> DEFINE a == asked[c]
           id == a.request
           mod == a.module
           s == snapshot[c]
           new == NewRequestStatus(s, mod, a.decision)
           d0 == [call |-> c, request |-> id, module |-> mod,
                  decision |-> a.decision, actor |-> a.actor]
           recorded == [type |-> "approval_decision_recorded", call |-> c, request |-> id]
           changed == [type |-> "approval_request_status_changed", call |-> c,
                       request |-> id, to |-> new]
<1>1. /\ pc[c] = "decide" /\ Deciding(c) /\ ~RequirementTaken(id, mod)
      /\ request'[id].status = new /\ request'[id].report = request[id].report
      /\ new \in {"pending", "approved", "rejected"}
      /\ \A d \in Calls \ {id} : request'[d] = request[d]
      /\ requirement'[id][mod] = a.decision
      /\ \A d \in Calls, m \in Modules : d # id \/ m # mod =>
           requirement'[d][m] = requirement[d][m]
  BY DecisionEffect
<1>2. /\ id \in Calls /\ mod \in Modules /\ a \in DecideInput /\ s \in Snapshot
      /\ a.decision \in Decisions /\ a.actor \in Actors
      /\ requirement[id][mod] = "pending"
      /\ request[id].status \in {"pending", "rejected"}
      /\ pc[id] = "done" /\ request[id].report # Null /\ id # c
  BY <1>1, StillPending
<1>3. /\ UNCHANGED <<owners, ownerIDs, asked>>
      /\ decisions' = decisions \cup {d0}
      /\ outbox' = outbox \cup {<<"approval-decision", c>>}
      /\ audit \subseteq audit'
      /\ audit' \subseteq audit \cup {recorded, changed}
  BY DEF CommitDecision
<1>4. PICK answer \in Reply : Return(c, answer)
  BY <1>2, Answers DEF CommitDecision
<1>5. /\ pc'[c] = "done"
      /\ \A d \in Calls \ {c} :
           pc'[d] = pc[d] /\ reply'[d] = reply[d] /\ snapshot'[d] = snapshot[d]
  BY <1>4, AfterReturn DEF IInv
<1>6. TypeOK'
  <2>1. d0 \in [call : Calls, request : Calls, module : Modules,
                decision : Decisions, actor : Actors]
    BY <1>2
  <2> QED BY <1>3, <1>4, <2>1, AfterReturn, DecisionEffect DEF IInv, TypeOK, PCs
<1>7. /\ d0.request = id /\ d0.module = mod /\ d0.decision = a.decision
      /\ d0.actor = a.actor /\ d0.call = c
      /\ recorded.type = "approval_decision_recorded"
      /\ changed.type = "approval_request_status_changed"
      /\ \A d : /\ recorded # [type |-> "approval_request_created", request |-> d]
               /\ changed # [type |-> "approval_request_created", request |-> d]
  OBVIOUS
<1> HIDE DEF new, d0, recorded, changed, s
<1>8. \A d \in Calls, m \in Modules : requirement'[d][m] = "absent" <=> requirement[d][m] = "absent"
  BY <1>1, <1>2 DEF Decisions
<1>9. RequestRows'
  BY <1>1, <1>2, <1>3, <1>5, <1>8 DEF IInv, RequestRows, Creating, Deciding
<1>10. SnapshotsOld'
  <2> SUFFICES ASSUME NEW d \in Calls, Deciding(d)'
               PROVE  (LET i == asked[d].request
                           z == snapshot[d]
                       IN /\ requirement[i][asked[d].module] # "absent"
                          /\ \A m \in Modules :
                               /\ z.requirements[m] = "absent" <=> requirement[i][m] = "absent"
                               /\ z.requirements[m] \in Decisions =>
                                    requirement[i][m] = z.requirements[m])'
    BY DEF SnapshotsOld
  <2>1. d # c /\ pc'[d] = pc[d] /\ snapshot'[d] = snapshot[d] /\ Deciding(d)
    BY <1>5 DEF Deciding
  <2>2. asked[d] \in DecideInput /\ asked[d].request \in Calls /\ asked[d].module \in Modules
    BY <2>1 DEF IInv, RequestRows, DecideInput
  <2>3. \A m \in Modules : snapshot[d].requirements[m] \in Decisions =>
          requirement'[asked[d].request][m] = requirement[asked[d].request][m]
    BY <1>1, <1>2, <2>1, <2>2 DEF IInv, SnapshotsOld, Decisions
  <2> QED BY <1>3, <1>8, <2>1, <2>2, <2>3 DEF IInv, SnapshotsOld
<1>11. OneDecisionPerRequirement'
  <2> SUFFICES ASSUME NEW d \in Calls, NEW m \in Modules
               PROVE  (IF requirement[d][m] \in Decisions
                       THEN \E x \in decisions : /\ DecisionFor(d, m) = {x}
                                                 /\ x.decision = requirement[d][m]
                                                 /\ <<"approval-decision", x.call>> \in outbox
                       ELSE DecisionFor(d, m) = {})'
    BY DEF OneDecisionPerRequirement
  <2>1. CASE d = id /\ m = mod
    <3>1. DecisionFor(d, m)' = {d0}
      BY <1>1, <1>3, <1>7, <2>1 DEF DecisionFor, RequirementTaken
    <3> QED BY <1>1, <1>2, <1>3, <1>7, <2>1, <3>1
  <2>2. CASE d # id \/ m # mod
    <3>1. DecisionFor(d, m)' = DecisionFor(d, m)
      BY <1>3, <1>7, <2>2 DEF DecisionFor
    <3>2. requirement'[d][m] = requirement[d][m]
      BY <1>1, <2>2
    <3> QED BY <1>3, <3>1, <3>2 DEF IInv, OneDecisionPerRequirement
  <2> QED BY <2>1, <2>2
<1>12. \A x, m : WasGranted(x, m) => WasGranted(x, m)'
  BY <1>3 DEF WasGranted
<1>13. ApprovedRequirements'
  <2>1. ASSUME new = "approved"
        PROVE  /\ a.decision = "approved"
               /\ \A m \in Modules \ {mod} : requirement[id][m] \in {"absent", "approved"}
    <3>1. /\ a.decision # "rejected"
          /\ AllRequirementsApprovedAfter(s.requirements, mod)
      BY <2>1 DEF new, NewRequestStatus
    <3>2. \A m \in Modules \ {mod} : s.requirements[m] \in {"absent", "approved"}
      BY <3>1 DEF AllRequirementsApprovedAfter
    <3>3. \A m \in Modules :
            /\ s.requirements[m] = "absent" <=> requirement[id][m] = "absent"
            /\ s.requirements[m] \in Decisions => requirement[id][m] = s.requirements[m]
      BY <1>1 DEF IInv, SnapshotsOld, s
    <3> QED BY <1>2, <3>1, <3>2, <3>3 DEF Decisions
  <2>2. (\A d \in Calls : request[d].status = "approved" =>
          /\ RequirementsOf(d) # {}
          /\ \A m \in RequirementsOf(d) : requirement[d][m] = "approved")'
    <3> SUFFICES ASSUME NEW d \in Calls, request'[d].status = "approved"
                 PROVE  (/\ RequirementsOf(d) # {}
                         /\ \A m \in RequirementsOf(d) : requirement[d][m] = "approved")'
      OBVIOUS
    <3>1. CASE d = id
      BY <1>1, <1>2, <2>1, <3>1 DEF RequirementsOf
    <3>2. CASE d # id
      BY <1>1, <3>2 DEF IInv, ApprovedRequirements, RequirementsOf
    <3> QED BY <3>1, <3>2
  <2>3. (\A o \in owners :
          [type |-> "module_owner_added", id |-> o.id, entry |-> o.entry] \in audit)'
    BY <1>3 DEF IInv, ApprovedRequirements
  <2>4. (\A d \in Calls : pc[d] = "decide" => WasGranted(asked[d].actor, asked[d].module))'
    BY <1>3, <1>5, <1>12 DEF IInv, ApprovedRequirements
  <2>5. (\A d \in decisions : WasGranted(d.actor, d.module))'
    BY <1>1, <1>3, <1>7, <1>12 DEF IInv, ApprovedRequirements
  <2> QED BY <2>2, <2>3, <2>4, <2>5 DEF ApprovedRequirements
<1>14. CreationReplies'
  <2>1. \A d \in Calls : request'[d].report = request[d].report
    BY <1>1
  <2>2. \A r : RequestsFor(r)' = RequestsFor(r)
    BY <2>1 DEF RequestsFor
  <2>3. asked[c] \notin CreateInput
    BY <1>2 DEF DecideInput, CreateInput
  <2>4. \A d \in Calls :
          LET created == [type |-> "approval_request_created", request |-> d] IN
          created \in audit' <=> created \in audit
    BY <1>3, <1>7
  <2>5. \A d \in Calls : <<"approval-request", d>> \in outbox' <=>
                         <<"approval-request", d>> \in outbox
    BY <1>3
  <2>6. (\A d, e \in Calls :
          request[d].report = request[e].report /\ request[d].report # Null => d = e)'
    BY <2>1 DEF IInv, CreationReplies, IdempotentCreation
  <2>7. (\A d \in Calls : request[d].report # Null <=>
          /\ [type |-> "approval_request_created", request |-> d] \in audit
          /\ <<"approval-request", d>> \in outbox)'
    BY <2>1, <2>4, <2>5 DEF IInv, CreationReplies, IdempotentCreation
  <2>8. ASSUME NEW d \in Calls, (pc[d] = "done")', asked[d] \in CreateInput
        PROVE  (\/ reply[d].result = "ok" /\ reply[d].request \in RequestsFor(asked[d].report)
                \/ reply[d].result = "request_conflict" /\ RequestsFor(asked[d].report) # {}
                \/ reply[d].result = "error")'
    <3>1. d # c /\ pc[d] = "done" /\ reply'[d] = reply[d]
      BY <1>5, <2>3, <2>8
    <3>2. \/ reply[d].result = "ok" /\ reply[d].request \in RequestsFor(asked[d].report)
          \/ reply[d].result = "request_conflict" /\ RequestsFor(asked[d].report) # {}
          \/ reply[d].result = "error"
      BY <2>8, <3>1 DEF IInv, CreationReplies, IdempotentCreation
    <3> QED BY <1>3, <2>2, <3>1, <3>2
  <2>9. (\A d \in Calls : pc[d] = "reread" => RequestsFor(asked[d].report) # {})'
    BY <1>3, <1>5, <2>2 DEF IInv, CreationReplies
  <2> QED BY <1>3, <2>6, <2>7, <2>8, <2>9 DEF CreationReplies, IdempotentCreation
<1> QED BY <1>6, <1>9, <1>10, <1>11, <1>13, <1>14 DEF IInv

LEMMA InvNext == IInv /\ [Next]_vars => IInv'
<1> SUFFICES ASSUME IInv, [Next]_vars PROVE IInv'
  OBVIOUS
<1>1. CASE UNCHANGED vars
  <2> USE <1>1 DEF vars, IInv
  <2>1. TypeOK' /\ RequestRows' /\ SnapshotsOld'
    BY DEF TypeOK, RequestRows, Creating, Deciding, SnapshotsOld
  <2>2. OneDecisionPerRequirement'
    BY DEF OneDecisionPerRequirement, DecisionFor
  <2>3. ApprovedRequirements'
    BY DEF ApprovedRequirements, RequirementsOf, WasGranted
  <2>4. CreationReplies'
    BY DEF CreationReplies, IdempotentCreation, RequestsFor
  <2> QED BY <2>1, <2>2, <2>3, <2>4
<1>2. CASE Next
  BY <1>2, InvAddModuleOwner, InvRemoveModuleOwner, InvLookUp, InvEvaluate,
     InvCommitRequest, InvRequestConflict, InvReadExisting, InvReadRequest,
     InvReadRequirements, InvCheckDecidable, InvAuthorize, InvCommitDecision,
     InvDecisionConflict, InvFail DEF Next
<1> QED BY <1>1, <1>2

LEMMA Invariance == Spec => []IInv
<1>1. Init => IInv
  BY InvInit
<1>2. IInv /\ [Next]_vars => IInv'
  BY InvNext
<1> QED BY <1>1, <1>2, PTL DEF Spec

-----------------------------------------------------------------------------
(* What the audit trail and the counters say.  This second invariant is       *)
(* preserved by steps from states of the first.                               *)

\* A call that goes on to decide has read a pending request.
ReadPending ==
  \A c \in Calls : pc[c] \in {"authorize", "decide"} => snapshot[c].status = "pending"

\* AuditExplainsStatus, without counting.
ApprovalAudited ==
  \A c \in Calls :
    /\ request[c].status = "approved" => \E e \in audit : StatusEvents(c, "approved") = {e}
    /\ request[c].status # "approved" => StatusEvents(c, "approved") = {}
    /\ request[c].status = "rejected" => StatusEvents(c, "rejected") # {}

Trail == ReadPending /\ ApprovalAudited /\ SingleRequirementExact

LEMMA TrailInit == Init => Trail
<1> SUFFICES ASSUME Init PROVE Trail
  OBVIOUS
<1>1. ReadPending /\ ApprovalAudited
  BY DEF Init, AbsentRequest, ReadPending, ApprovalAudited, StatusEvents
<1>2. \A c \in Calls : RequirementsOf(c) = {}
  BY DEF Init, RequirementsOf
<1>3. SingleRequirementExact
  BY <1>2 DEF SingleRequirementExact
<1> QED BY <1>1, <1>3 DEF Trail

\* Whatever else happens, a call reaches "authorize" only from a pending snapshot.
LEMMA ReadPendingNext == ASSUME IInv, ReadPending, [Next]_vars PROVE ReadPending'
<1> DEFINE Known(c) ==
      pc'[c] \in {"authorize", "decide"} => snapshot'[c].status = "pending"
<1>1. ASSUME NEW c \in Calls, NEW to \in PCs, Goto(c, to),
             \A d \in Calls \ {c} : snapshot'[d] = snapshot[d],
             Known(c)
      PROVE  ReadPending'
  BY <1>1, AfterGoto DEF ReadPending, IInv
<1>2. ASSUME NEW c \in Calls, NEW answer \in Reply, Return(c, answer)
      PROVE  ReadPending'
  <2>1. /\ pc'[c] = "done"
        /\ \A d \in Calls \ {c} : pc'[d] = pc[d] /\ snapshot'[d] = snapshot[d]
    BY <1>2, AfterReturn DEF IInv
  <2> QED BY <2>1 DEF ReadPending
<1>3. CASE UNCHANGED <<pc, snapshot>>
  BY <1>3 DEF ReadPending
<1>4. ASSUME NEW c \in Calls, NEW to \in PCs \ {"authorize", "decide"}, Goto(c, to),
             \A d \in Calls \ {c} : snapshot'[d] = snapshot[d]
      PROVE  ReadPending'
  BY <1>1, <1>4, AfterGoto DEF IInv
<1>5. ASSUME NEW c \in Calls, NEW report \in Reports, LookUp(c, report) PROVE ReadPending'
  <2>1. CASE \E id \in RequestsFor(report) : Return(c, OK(id))
    BY <1>2, <2>1, Answers DEF RequestsFor
  <2>2. CASE Goto(c, "evaluate") /\ UNCHANGED <<plan, snapshot, reply>>
    BY <1>4, <2>2 DEF PCs
  <2> QED BY <1>5, <2>1, <2>2 DEF LookUp
<1>6. ASSUME NEW c \in Calls, Evaluate(c) \/ RequestConflict(c) PROVE ReadPending'
  BY <1>4, <1>6 DEF Evaluate, RequestConflict, PCs
<1>7. ASSUME NEW c \in Calls,
             \/ ReadExisting(c) \/ DecisionConflict(c) \/ Fail(c) \/ CommitRequest(c)
      PROVE  ReadPending'
  <2>1. \E answer \in Reply : Return(c, answer)
    BY <1>7, Answers DEF ReadExisting, DecisionConflict, Fail, CommitRequest, RequestsFor
  <2> QED BY <1>2, <2>1
<1>8. ASSUME NEW c \in Calls, CommitDecision(c) PROVE ReadPending'
  <2>1. asked[c].request \in Calls
    BY <1>8, DecisionEffect, StillPending
  <2>2. \E answer \in Reply : Return(c, answer)
    BY <1>8, <2>1, Answers DEF CommitDecision
  <2> QED BY <1>2, <2>2
<1>9. ASSUME NEW c \in Calls, NEW id \in Calls, NEW module \in Modules,
             NEW decision \in Decisions, NEW actor \in Actors,
             ReadRequest(c, id, module, decision, actor)
      PROVE  ReadPending'
  <2>1. Goto(c, "requirements") /\ \A d \in Calls \ {c} : snapshot'[d] = snapshot[d]
    BY <1>9 DEF ReadRequest, IInv, TypeOK
  <2> QED BY <1>4, <2>1 DEF PCs
<1>10. ASSUME NEW c \in Calls, ReadRequirements(c) PROVE ReadPending'
  <2>1. Goto(c, "decisions") /\ \A d \in Calls \ {c} : snapshot'[d] = snapshot[d]
    BY <1>10 DEF ReadRequirements, IInv, TypeOK
  <2> QED BY <1>4, <2>1 DEF PCs
<1>11. ASSUME NEW c \in Calls, CheckDecidable(c) PROVE ReadPending'
  <2>1. CASE \E answer \in Reply : Return(c, answer)
    BY <1>2, <2>1
  <2>2. CASE Goto(c, "authorize") /\ UNCHANGED snapshot /\ snapshot[c].status = "pending"
    BY <1>1, <2>2 DEF PCs
  <2> QED BY <1>11, <2>1, <2>2, Answers DEF CheckDecidable
<1>12. ASSUME NEW c \in Calls, Authorize(c) PROVE ReadPending'
  <2>1. CASE \E answer \in Reply : Return(c, answer)
    BY <1>2, <2>1
  <2>2. CASE Goto(c, "decide") /\ UNCHANGED snapshot /\ snapshot[c].status = "pending"
    BY <1>1, <2>2 DEF PCs
  <2>3. snapshot[c].status = "pending"
    BY <1>12 DEF Authorize, ReadPending
  <2> QED BY <1>12, <2>1, <2>2, <2>3, Answers DEF Authorize
<1>13. ASSUME NEW entry \in OwnerEntries, AddModuleOwner(entry) PROVE ReadPending'
  BY <1>3, <1>13 DEF AddModuleOwner, locals
<1>14. ASSUME NEW o \in owners, RemoveModuleOwner(o) PROVE ReadPending'
  BY <1>3, <1>14 DEF RemoveModuleOwner, locals
<1>15. CASE UNCHANGED vars
  BY <1>3, <1>15 DEF vars
<1> HIDE DEF Known
<1>16. CASE Next
  BY <1>5, <1>6, <1>7, <1>8, <1>9, <1>10, <1>11, <1>12, <1>13, <1>14, <1>16 DEF Next
<1> QED BY <1>15, <1>16

\* Owner changes and creations add no change of status to the trail.
LEMMA OtherEvents ==
  ASSUME NEW e, audit' = audit \cup {e}, e.type # "approval_request_status_changed"
  PROVE  \A c, to : StatusEvents(c, to)' = StatusEvents(c, to)
BY DEF StatusEvents

\* Steps that leave the requests alone.
LEMMA TrailKept ==
  ASSUME Trail, ReadPending', UNCHANGED <<request, requirement>>,
         audit \subseteq audit',
         \A c, to : StatusEvents(c, to)' = StatusEvents(c, to)
  PROVE  Trail'
<1>1. ApprovalAudited'
  BY DEF Trail, ApprovalAudited
<1>2. \A c : RequirementsOf(c)' = RequirementsOf(c)
  BY DEF RequirementsOf
<1>3. SingleRequirementExact'
  BY <1>2 DEF Trail, SingleRequirementExact
<1> QED BY <1>1, <1>3 DEF Trail

LEMMA TrailCommitRequest ==
  ASSUME IInv, Trail, ReadPending', NEW c \in Calls, CommitRequest(c) PROVE Trail'
<1> DEFINE new == NewRequest(c)
           needs == [m \in Modules |-> IF m \in plan[c] THEN "pending" ELSE "absent"]
           created == [type |-> "approval_request_created", request |-> c]
<1>1. /\ request' = [request EXCEPT ![c] = new]
      /\ requirement' = [requirement EXCEPT ![c] = needs]
      /\ audit' = audit \cup {created}
      /\ pc[c] = "create"
  BY DEF CommitRequest
<1>2. /\ new.status = IF plan[c] = {} THEN "not_required" ELSE "pending"
      /\ new.required = Cardinality(plan[c]) /\ new.received = 0
      /\ created.type = "approval_request_created"
  BY DEF NewRequest
<1>3. /\ plan[c] \subseteq Modules
      /\ \A m \in Modules : needs[m] = IF m \in plan[c] THEN "pending" ELSE "absent"
  BY DEF IInv, TypeOK
<1>4. request[c].status = "absent"
  BY <1>1 DEF IInv, RequestRows
<1> HIDE DEF new, needs, created
<1>5. /\ request'[c] = new /\ requirement'[c] = needs
      /\ \A d \in Calls \ {c} : request'[d] = request[d] /\ requirement'[d] = requirement[d]
  BY <1>1 DEF IInv, TypeOK
<1>6. \A d, to : StatusEvents(d, to)' = StatusEvents(d, to)
  BY <1>1, <1>2, OtherEvents
<1>7. ApprovalAudited'
  BY <1>1, <1>2, <1>4, <1>5, <1>6 DEF Trail, ApprovalAudited
<1>8. SingleRequirementExact'
  <2> SUFFICES ASSUME NEW d \in Calls, NEW m \in Modules, RequirementsOf(d)' = {m}
               PROVE  (/\ request[d].status = requirement[d][m]
                       /\ request[d].required = 1
                       /\ request[d].received = IF requirement[d][m] = "approved" THEN 1 ELSE 0)'
    BY DEF SingleRequirementExact
  <2>1. CASE d = c
    <3>1. RequirementsOf(d)' = plan[c]
      BY <1>3, <1>5, <2>1 DEF RequirementsOf
    <3>2. plan[c] = {m} /\ Cardinality(plan[c]) = 1
      BY <3>1, FS_Singleton
    <3> QED BY <1>2, <1>3, <1>5, <2>1, <3>2
  <2>2. CASE d # c
    <3>1. RequirementsOf(d) = {m}
      BY <1>5, <2>2 DEF RequirementsOf
    <3> QED BY <1>5, <2>2, <3>1 DEF Trail, SingleRequirementExact
  <2> QED BY <2>1, <2>2
<1> QED BY <1>7, <1>8 DEF Trail

LEMMA TrailCommitDecision ==
  ASSUME IInv, Trail, ReadPending', NEW c \in Calls, CommitDecision(c) PROVE Trail'
<1> DEFINE a == asked[c]
           id == a.request
           mod == a.module
           s == snapshot[c]
           new == NewRequestStatus(s, mod, a.decision)
           req == Cardinality({m \in Modules : s.requirements[m] # "absent"})
           rec == ReceivedApprovalsAfter(s.requirements, mod, a.decision)
           recorded == [type |-> "approval_decision_recorded", call |-> c, request |-> id]
           changed == [type |-> "approval_request_status_changed", call |-> c,
                       request |-> id, to |-> new]
<1>1. /\ Deciding(c) /\ pc[c] = "decide"
      /\ request'[id].status = new
      /\ new \in {"pending", "approved", "rejected"}
      /\ \A d \in Calls \ {id} : request'[d] = request[d]
      /\ requirement'[id][mod] = a.decision
      /\ \A d \in Calls, m \in Modules : d # id \/ m # mod =>
           requirement'[d][m] = requirement[d][m]
  BY DecisionEffect
<1>2. /\ id \in Calls /\ mod \in Modules /\ s \in Snapshot
      /\ a.decision \in Decisions
      /\ requirement[id][mod] = "pending"
      /\ request[id].status \in {"pending", "rejected"}
  BY <1>1, DecisionEffect, StillPending
<1>3. s.status = "pending"
  BY <1>1 DEF Trail, ReadPending
<1>4. /\ audit' = audit \cup {recorded} \cup (IF s.status # new THEN {changed} ELSE {})
      /\ request' = [request EXCEPT ![id] =
           [report |-> request[id].report, status |-> new, required |-> req, received |-> rec]]
  BY DEF CommitDecision
<1>5. /\ recorded.type = "approval_decision_recorded"
      /\ changed.type = "approval_request_status_changed"
      /\ changed.request = id /\ changed.to = new
  OBVIOUS
<1>6. request'[id].required = req /\ request'[id].received = rec
  BY <1>2, <1>4 DEF IInv, TypeOK
<1>7. new = IF a.decision = "rejected" THEN "rejected"
            ELSE IF AllRequirementsApprovedAfter(s.requirements, mod) THEN "approved"
            ELSE "pending"
  BY DEF NewRequestStatus
<1>8. \A m \in Modules : /\ s.requirements[m] = "absent" <=> requirement[id][m] = "absent"
                         /\ s.requirements[m] \in Decisions => requirement[id][m] = s.requirements[m]
  BY <1>1 DEF IInv, SnapshotsOld
<1> HIDE DEF new, recorded, changed, req, rec
<1>9. ApprovalAudited'
  <2> SUFFICES ASSUME NEW d \in Calls
               PROVE  (/\ request[d].status = "approved" =>
                            \E e \in audit : StatusEvents(d, "approved") = {e}
                       /\ request[d].status # "approved" => StatusEvents(d, "approved") = {}
                       /\ request[d].status = "rejected" => StatusEvents(d, "rejected") # {})'
    BY DEF ApprovalAudited
  <2>1. CASE d # id
    <3>1. \A to : StatusEvents(d, to)' = StatusEvents(d, to)
      BY <1>4, <1>5, <2>1 DEF StatusEvents
    <3>2. request'[d] = request[d] /\ audit \subseteq audit'
      BY <1>1, <1>4, <2>1
    <3> QED BY <3>1, <3>2 DEF Trail, ApprovalAudited
  <2>2. CASE d = id
    <3>1. StatusEvents(d, "approved") = {}
      BY <1>2, <2>2 DEF Trail, ApprovalAudited
    <3>2. CASE new = "pending"
      <4>1. audit' = audit \cup {recorded}
        BY <1>3, <1>4, <3>2
      <4>2. StatusEvents(d, "approved")' = {}
        BY <1>5, <2>2, <3>1, <4>1 DEF StatusEvents
      <4> QED BY <1>1, <2>2, <3>2, <4>2
    <3>3. CASE new # "pending"
      <4>1. audit' = audit \cup {recorded, changed}
        BY <1>3, <1>4, <3>3
      <4>2. CASE new = "approved"
        <5>1. StatusEvents(d, "approved")' = {changed}
          BY <1>5, <2>2, <3>1, <4>1, <4>2 DEF StatusEvents
        <5> QED BY <1>1, <2>2, <4>1, <4>2, <5>1
      <4>3. CASE new = "rejected"
        <5>1. StatusEvents(d, "approved")' = {}
          BY <1>5, <2>2, <3>1, <4>1, <4>3 DEF StatusEvents
        <5>2. changed \in StatusEvents(d, "rejected")'
          BY <1>5, <2>2, <4>1, <4>3 DEF StatusEvents
        <5> QED BY <1>1, <2>2, <4>3, <5>1, <5>2
      <4> QED BY <1>1, <3>3, <4>2, <4>3
    <3> QED BY <3>2, <3>3
  <2> QED BY <2>1, <2>2
<1>10. SingleRequirementExact'
  <2> SUFFICES ASSUME NEW d \in Calls, NEW m \in Modules, RequirementsOf(d)' = {m}
               PROVE  (/\ request[d].status = requirement[d][m]
                       /\ request[d].required = 1
                       /\ request[d].received = IF requirement[d][m] = "approved" THEN 1 ELSE 0)'
    BY DEF SingleRequirementExact
  <2>1. RequirementsOf(d) = {m}
    BY <1>1, <1>2 DEF RequirementsOf, Decisions
  <2>2. CASE d # id
    BY <1>1, <2>1, <2>2 DEF Trail, SingleRequirementExact
  <2>3. CASE d = id
    <3>1. mod = m /\ \A n \in Modules \ {m} : s.requirements[n] = "absent"
      BY <1>2, <1>8, <2>1, <2>3 DEF RequirementsOf
    <3>2. {n \in Modules : s.requirements[n] # "absent"} = {m}
      BY <1>2, <1>8, <3>1
    <3>3. req = 1
      BY <3>2, FS_Singleton DEF req
    <3>4. AllRequirementsApprovedAfter(s.requirements, mod)
      BY <3>1 DEF AllRequirementsApprovedAfter
    <3>5. new = a.decision
      BY <1>2, <1>7, <3>4 DEF Decisions
    <3>6. rec = IF a.decision = "approved" THEN 1 ELSE 0
      <4> DEFINE after == [s.requirements EXCEPT ![mod] = a.decision]
                 yes == {n \in Modules : after[n] = "approved"}
      <4>1. /\ after[m] = a.decision
            /\ \A n \in Modules \ {m} : after[n] = "absent"
        BY <1>2, <3>1 DEF Snapshot
      <4>2. rec = Cardinality(yes)
        BY DEF rec, ReceivedApprovalsAfter
      <4> HIDE DEF after
      <4>3. yes = IF a.decision = "approved" THEN {m} ELSE {}
        BY <4>1
      <4> QED BY <4>2, <4>3, FS_Singleton, FS_EmptySet
    <3> QED BY <1>1, <1>6, <2>3, <3>1, <3>3, <3>5, <3>6
  <2> QED BY <2>2, <2>3
<1> QED BY <1>9, <1>10 DEF Trail

LEMMA TrailNext == IInv /\ Trail /\ [Next]_vars => Trail'
<1> SUFFICES ASSUME IInv, Trail, [Next]_vars PROVE Trail'
  OBVIOUS
<1>1. ReadPending'
  BY ReadPendingNext DEF Trail
<1>2. CASE UNCHANGED <<request, requirement, audit>>
  <2>1. \A c, to : StatusEvents(c, to)' = StatusEvents(c, to)
    BY <1>2 DEF StatusEvents
  <2> QED BY <1>1, <1>2, <2>1, TrailKept
<1>3. ASSUME NEW entry \in OwnerEntries, AddModuleOwner(entry) PROVE Trail'
  <2> DEFINE e == [type |-> "module_owner_added", id |-> ownerIDs + 1, entry |-> entry]
  <2>1. audit' = audit \cup {e} /\ UNCHANGED <<request, requirement>>
    BY <1>3 DEF AddModuleOwner
  <2>2. e.type # "approval_request_status_changed"
    OBVIOUS
  <2> HIDE DEF e
  <2> QED BY <1>1, <2>1, <2>2, OtherEvents, TrailKept
<1>4. ASSUME NEW o \in owners, RemoveModuleOwner(o) PROVE Trail'
  <2> DEFINE e == [type |-> "module_owner_removed", id |-> o.id, entry |-> o.entry]
  <2>1. audit' = audit \cup {e} /\ UNCHANGED <<request, requirement>>
    BY <1>4 DEF RemoveModuleOwner
  <2>2. e.type # "approval_request_status_changed"
    OBVIOUS
  <2> HIDE DEF e
  <2> QED BY <1>1, <2>1, <2>2, OtherEvents, TrailKept
<1>5. CASE UNCHANGED vars
  BY <1>2, <1>5 DEF vars
<1>6. ASSUME NEW c \in Calls,
             \/ \E report \in Reports : LookUp(c, report)
             \/ Evaluate(c) \/ RequestConflict(c) \/ ReadExisting(c)
             \/ \E id \in Calls, module \in Modules, decision \in Decisions, actor \in Actors :
                  ReadRequest(c, id, module, decision, actor)
             \/ ReadRequirements(c) \/ CheckDecidable(c) \/ Authorize(c)
             \/ DecisionConflict(c) \/ Fail(c)
      PROVE  Trail'
  <2>1. UNCHANGED tables
    BY <1>6 DEF LookUp, Evaluate, RequestConflict, ReadExisting, ReadRequest,
       ReadRequirements, CheckDecidable, Authorize, DecisionConflict, Fail
  <2> QED BY <1>2, <2>1 DEF tables
<1>7. ASSUME NEW c \in Calls, CommitRequest(c) \/ CommitDecision(c) PROVE Trail'
  BY <1>1, <1>7, TrailCommitRequest, TrailCommitDecision
<1> QED BY <1>3, <1>4, <1>5, <1>6, <1>7 DEF Next

LEMMA TrailInvariance == Spec => []Trail
<1>1. Init => Trail
  BY TrailInit
<1>2. IInv /\ Trail /\ [Next]_vars => Trail'
  BY TrailNext
<1> QED BY <1>1, <1>2, Invariance, PTL DEF Spec

-----------------------------------------------------------------------------
(* Results. *)

\* Every state of the workflow has the types its tables and handlers declare.
THEOREM TypeCorrect == Spec => []TypeOK
<1>1. IInv => TypeOK
  BY DEF IInv
<1> QED BY <1>1, Invariance, PTL

\* Concurrent creation for one breaking report yields one request, announced
\* once, which every successful call returns.
THEOREM CreationIsIdempotent == Spec => []IdempotentCreation
<1>1. IInv => IdempotentCreation
  BY DEF IInv, CreationReplies
<1> QED BY <1>1, Invariance, PTL

\* A requirement's status is its single recorded decision.
THEOREM DecisionsAreUnique == Spec => []OneDecisionPerRequirement
<1>1. IInv => OneDecisionPerRequirement
  BY DEF IInv
<1> QED BY <1>1, Invariance, PTL

\* An approved request has every requirement approved by someone who was granted
\* a role on its target module, although the status is computed from old reads.
THEOREM ApprovalIsSound == Spec => []ApprovalSound
<1>1. IInv => ApprovalSound
  <2> SUFFICES ASSUME IInv, NEW c \in Calls, request[c].status = "approved",
                      NEW m \in RequirementsOf(c)
               PROVE  /\ requirement[c][m] = "approved"
                      /\ \E d \in decisions : /\ DecisionFor(c, m) = {d}
                                              /\ d.decision = "approved"
                                              /\ WasGranted(d.actor, m)
    BY DEF ApprovalSound, IInv, ApprovedRequirements
  <2>1. m \in Modules /\ requirement[c][m] = "approved"
    BY DEF IInv, ApprovedRequirements, RequirementsOf
  <2>2. PICK d \in decisions : /\ DecisionFor(c, m) = {d}
                               /\ d.decision = requirement[c][m]
    BY <2>1 DEF IInv, OneDecisionPerRequirement, Decisions
  <2>3. d.module = m
    BY <2>2 DEF DecisionFor
  <2>4. WasGranted(d.actor, d.module)
    BY DEF IInv, ApprovedRequirements
  <2> QED BY <2>1, <2>2, <2>3, <2>4
<1> QED BY <1>1, Invariance, PTL

\* No step changes a decided requirement, an approved request or one that needs
\* no approval.
THEOREM DecisionsStand == Spec => DecisionsFinal
<1> DEFINE Kept ==
      \A c \in Calls :
        /\ \A m \in Modules : requirement[c][m] \in Decisions =>
             requirement'[c][m] = requirement[c][m]
        /\ request[c].status \in {"approved", "not_required"} => request'[c] = request[c]
<1>1. ASSUME IInv, [Next]_vars PROVE Kept
  <2>1. CASE UNCHANGED <<request, requirement>>
    BY <2>1
  <2>2. ASSUME NEW c \in Calls, CommitRequest(c) PROVE Kept
    <3>1. /\ request[c].status = "absent"
          /\ \A m \in Modules : requirement[c][m] = "absent"
      BY <1>1, <2>2 DEF CommitRequest, IInv, RequestRows
    <3>2. \A d \in Calls \ {c} : request'[d] = request[d] /\ requirement'[d] = requirement[d]
      BY <1>1, <2>2 DEF CommitRequest, IInv, TypeOK
    <3> QED BY <3>1, <3>2 DEF Decisions
  <2>3. ASSUME NEW c \in Calls, CommitDecision(c) PROVE Kept
    <3> DEFINE id == asked[c].request
               mod == asked[c].module
    <3>1. /\ Deciding(c) /\ ~RequirementTaken(id, mod)
          /\ \A d \in Calls \ {id} : request'[d] = request[d]
          /\ \A d \in Calls, m \in Modules : d # id \/ m # mod =>
               requirement'[d][m] = requirement[d][m]
      BY <1>1, <2>3, DecisionEffect
    <3>2. /\ requirement[id][mod] = "pending"
          /\ request[id].status \in {"pending", "rejected"}
      BY <1>1, <3>1, StillPending
    <3> QED BY <3>1, <3>2 DEF Decisions
  <2>4. CASE UNCHANGED vars
    BY <2>1, <2>4 DEF vars
  <2>5. CASE Next
    BY <2>1, <2>2, <2>3, <2>5 DEF Next, AddModuleOwner, RemoveModuleOwner, LookUp, Evaluate,
       RequestConflict, ReadExisting, ReadRequest, ReadRequirements, CheckDecidable,
       Authorize, DecisionConflict, Fail, tables
  <2> QED BY <1>1, <2>4, <2>5
<1>2. IInv /\ [Next]_vars => [Kept]_vars
  BY <1>1
<1> QED BY <1>2, Invariance, PTL DEF Spec, DecisionsFinal

\* The audit trail says a request was approved exactly when it is, and once, and
\* no request is rejected without the trail saying so.
THEOREM AuditIsTruthful == Spec => []AuditExplainsStatus
<1>1. Trail => AuditExplainsStatus
  <2> SUFFICES ASSUME Trail, NEW c \in Calls
               PROVE  /\ Cardinality(StatusEvents(c, "approved")) =
                           IF request[c].status = "approved" THEN 1 ELSE 0
                      /\ request[c].status = "rejected" => StatusEvents(c, "rejected") # {}
    BY DEF AuditExplainsStatus
  <2>1. CASE request[c].status = "approved"
    <3>1. PICK e \in audit : StatusEvents(c, "approved") = {e}
      BY <2>1 DEF Trail, ApprovalAudited
    <3> QED BY <2>1, <3>1, FS_Singleton
  <2>2. CASE request[c].status # "approved"
    <3>1. StatusEvents(c, "approved") = {}
      BY <2>2 DEF Trail, ApprovalAudited
    <3> QED BY <2>2, <3>1, FS_EmptySet DEF Trail, ApprovalAudited
  <2> QED BY <2>1, <2>2
<1> QED BY <1>1, TrailInvariance, PTL

\* With a single requirement the old reads do no harm: the request's status and
\* counters are those of the requirement.
THEOREM SingleRequirementIsExact == Spec => []SingleRequirementExact
<1>1. Trail => SingleRequirementExact
  BY DEF Trail
<1> QED BY <1>1, TrailInvariance, PTL

=============================================================================
