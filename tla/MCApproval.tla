----------------------------- MODULE MCApproval -----------------------------
(* Owners and policy results for the runs of Approval. *)
EXTENDS Approval, TLC

CONSTANTS m1, m2, a1

\* The one actor owns m1 as a user and maintains m2 as a team.
MCOwnerEntries ==
  {[module |-> m1, subjectType |-> "user", subject |-> a1, role |-> "owner"],
   [module |-> m2, subjectType |-> "team", subject |-> a1, role |-> "maintainer"]}

\* No approval needed, the module's owner only, or a consumer's owner as well.
MCPolicyResults == {{}, {m1}, {m1, m2}}

Symmetric == Permutations(Calls)
=============================================================================
