--------------------------- MODULE MergeRequestBot ---------------------------
(***************************************************************************)
(* The merge request bot: `protoradar gitlab mr-check` (cli/gitlab_mr.go), *)
(* its runner (internal/usecase/gitlabmr/runner.go), the comment it writes *)
(* (format/gitlabmr/renderer.go) and its GitLab client                     *)
(* (infrastructure/gitlabapi/client.go).                                   *)
(*                                                                         *)
(* Jobs of one merge request and one module run at any time, against the   *)
(* ProtoRadar server and against GitLab, which is external: a call that    *)
(* changes GitLab may be refused, or carried out with its answer lost.     *)
(* People comment on the merge request, ask for approval of a report and   *)
(* decide about it meanwhile.  CI may cancel a job at any step.            *)
(***************************************************************************)
EXTENDS Integers, Sequences, FiniteSets

CONSTANTS
  Jobs,
  Commit,      \* [Jobs -> the commit the job runs for]
  Governance,  \* the jobs with --governance=true
  PageSize,    \* the notes in the first page of GitLab's list
  MaxNotes,    \* bound on the notes of the merge request
  Null

ASSUME BotAssumption ==
  /\ Governance \subseteq Jobs
  /\ DOMAIN Commit = Jobs
  /\ PageSize \in Nat \ {0} /\ MaxNotes \in Nat
  /\ Null \notin Nat \cup Jobs
  /\ Null \notin {"passed", "breaking", "pending", "not_required", "approved", "rejected"}
  /\ Null \notin {"running", "failed", "success"}

VARIABLES
  report,   \* the breaking report of each job's check on the server
  request,  \* the approval request of each of these reports
  notes,    \* the notes of the merge request, the oldest first
  status,   \* the commit statuses
  clock,    \* GitLab's clock: the number of writes of notes
  job       \* the jobs

server == <<report, request>>
gitlab == <<notes, status, clock>>
vars == <<server, gitlab, job>>

Commits == {Commit[j] : j \in Jobs}
Decision == {"approved", "rejected"}
Outcome == {"ok", "lost", "refused"}  \* how a call of GitLab ends

Applied(outcome) == outcome \in {"ok", "lost"}

\* error: the job goes on to its error report; seen and note: what it found in the
\* list of notes; sent: the last status it set; failed: a call for a status failed.
Fresh == [pc |-> "start", governance |-> Null, error |-> FALSE, seen |-> 0, note |-> Null,
          sent |-> Null, failed |-> FALSE, exit |-> Null]

Init ==
  /\ report = [j \in Jobs |-> Null]
  /\ request = [j \in Jobs |-> Null]
  /\ notes = <<>>
  /\ status = [c \in Commits |-> [state |-> Null, by |-> Null]]
  /\ clock = 0
  /\ job = [j \in Jobs |-> Fresh]

At(j, pc) == job[j].pc = pc
Goto(j, pc) == job' = [job EXCEPT ![j].pc = pc]
Fail(j, pc) == job' = [job EXCEPT ![j].pc = pc, ![j].error = TRUE]
End(j, sent, failed, exit) ==
  job' = [job EXCEPT ![j] = [Fresh EXCEPT !.pc = "end", !.sent = sent, !.failed = failed, !.exit = exit]]

-----------------------------------------------------------------------------
(* The server. *)

\* CreateApprovalRequest is idempotent per report and answers with what is stored.
Requested(j) ==
  IF request[j] # Null THEN request[j]
  ELSE IF report[j] = "breaking" THEN "pending" ELSE "not_required"

\* Someone asks for approval of a report, or decides.
AskApproval(j) ==
  /\ report[j] # Null /\ request[j] = Null
  /\ request' = [request EXCEPT ![j] = Requested(j)]
  /\ UNCHANGED <<report, gitlab, job>>

Decide(j, decision) ==
  /\ request[j] = "pending"
  /\ request' = [request EXCEPT ![j] = decision]
  /\ UNCHANGED <<report, gitlab, job>>

-----------------------------------------------------------------------------
(* GitLab (external). *)

SetStatus(j, state, outcome) ==
  /\ status' = IF Applied(outcome) THEN [status EXCEPT ![Commit[j]] = [state |-> state, by |-> j]] ELSE status
  /\ UNCHANGED <<notes, clock>>

\* A person comments.
Comment ==
  /\ Len(notes) < MaxNotes
  /\ notes' = Append(notes, [marker |-> FALSE, updatedAt |-> clock + 1, after |-> Len(notes)])
  /\ clock' = clock + 1
  /\ UNCHANGED <<server, status, job>>

-----------------------------------------------------------------------------
(* The job. *)

\* Wrong flags, no workspace or no configuration.
RefuseInput(j) ==
  /\ At(j, "start")
  /\ End(j, Null, FALSE, 2)
  /\ UNCHANGED <<server, gitlab>>

SetRunning(j, outcome) ==
  /\ At(j, "start")
  /\ SetStatus(j, "running", outcome)
  /\ IF outcome = "ok" THEN job' = [job EXCEPT ![j].pc = "check", ![j].sent = "running"]
     ELSE End(j, Null, TRUE, 2)
  /\ UNCHANGED server

\* Every check that succeeds stores a report of its own.
CheckBreaking(j, result) ==
  /\ At(j, "check")
  /\ \/ /\ result \in {"passed", "breaking"}
        /\ report' = [report EXCEPT ![j] = result]
        /\ Goto(j, "impact")
     \/ /\ result = "error"
        /\ Fail(j, "list")
        /\ UNCHANGED report
  /\ UNCHANGED <<request, gitlab>>

\* Affected modules and runtime impact; a lookup that fails only leaves its section
\* of the comment empty.
FetchImpact(j) ==
  /\ At(j, "impact")
  /\ Goto(j, "approval")
  /\ UNCHANGED <<server, gitlab>>

\* GetApprovalStatus; without --governance a status that cannot be had is left out.
GetApprovalStatus(j, answered) ==
  /\ At(j, "approval")
  /\ IF answered /\ request[j] # Null
     THEN job' = [job EXCEPT ![j].pc = "list", ![j].governance = request[j]]
     ELSE IF j \notin Governance THEN Goto(j, "list")
     ELSE IF answered THEN Goto(j, "request")
     ELSE Fail(j, "list")
  /\ UNCHANGED <<server, gitlab>>

CreateApprovalRequest(j, outcome) ==
  /\ At(j, "request")
  /\ request' = IF Applied(outcome) THEN [request EXCEPT ![j] = Requested(j)] ELSE request
  /\ IF outcome = "ok" THEN job' = [job EXCEPT ![j].pc = "list", ![j].governance = Requested(j)]
     ELSE Fail(j, "list")
  /\ UNCHANGED <<report, gitlab>>

\* Mutant: notes that were never updated do not count.
SelectExistingNote_Updated(listed) ==
  {n \in listed : /\ notes[n].marker /\ notes[n].updatedAt > n
                  /\ \A o \in listed : notes[o].marker => notes[o].updatedAt <= notes[n].updatedAt}

\* The note with the marker of the module that was updated last; empty if none.
SelectExistingNote(listed) ==
  {n \in listed : /\ notes[n].marker
                  /\ \A o \in listed : notes[o].marker => notes[o].updatedAt <= notes[n].updatedAt}

\* ListMergeRequestNotes: one request, hence the first page, the newest notes.
ListMergeRequestNotes == {n \in DOMAIN notes : n > Len(notes) - PageSize}

ListNotes(j, answered) ==
  /\ At(j, "list")
  /\ IF answered
     THEN LET found == SelectExistingNote(ListMergeRequestNotes)
          IN job' = [job EXCEPT ![j].pc = "write", ![j].seen = Len(notes),
                                ![j].note = IF found = {} THEN Null ELSE CHOOSE n \in found : TRUE]
     ELSE Fail(j, "final")
  /\ UNCHANGED <<server, gitlab>>

\* UpdateMergeRequestNote or CreateMergeRequestNote.
WriteNote(j, outcome) ==
  LET note == [marker |-> TRUE, updatedAt |-> clock + 1, after |-> job[j].seen]
  IN /\ At(j, "write")
     /\ Applied(outcome) /\ job[j].note = Null => Len(notes) < MaxNotes
     /\ IF ~Applied(outcome) THEN UNCHANGED <<notes, clock>>
        ELSE /\ clock' = clock + 1
             /\ notes' = IF job[j].note = Null THEN Append(notes, note)
                         ELSE [notes EXCEPT ![job[j].note] = [note EXCEPT !.after = notes[job[j].note].after]]
     /\ IF outcome = "ok" THEN Goto(j, "final") ELSE Fail(j, "final")
     /\ UNCHANGED <<server, status>>

\* Mutant: any status of the request lets the change pass.
FinalState_Requested(j) ==
  IF job[j].error THEN "failed"
  ELSE IF j \in Governance /\ job[j].governance # Null THEN "success"
  ELSE IF report[j] = "breaking" THEN "failed" ELSE "success"

\* finalState, and the state of the failure paths.
FinalState(j) ==
  IF job[j].error THEN "failed"
  ELSE IF j \in Governance /\ job[j].governance # Null
  THEN IF job[j].governance \in {"approved", "not_required"} THEN "success" ELSE "failed"
  ELSE IF report[j] = "breaking" THEN "failed" ELSE "success"

\* ErrCheckFailed is exit code 1, every other error 2.
ExitCode(j, outcome) ==
  IF job[j].error \/ outcome # "ok" THEN 2
  ELSE IF FinalState(j) = "success" THEN 0 ELSE 1

\* The last status, then --report-file, whose failure is an error too.
SetFinal(j, outcome, written) ==
  /\ At(j, "final")
  /\ SetStatus(j, FinalState(j), outcome)
  /\ End(j, IF Applied(outcome) THEN FinalState(j) ELSE job[j].sent, outcome # "ok",
         IF written THEN ExitCode(j, outcome) ELSE 2)
  /\ UNCHANGED server

\* CI cancels the job or its machine is lost.
Cancel(j) ==
  /\ job[j].pc \notin {"start", "end"}
  /\ End(j, job[j].sent, FALSE, Null)
  /\ UNCHANGED <<server, gitlab>>

Step(j) ==
  \/ \E outcome \in Outcome : \/ SetRunning(j, outcome)
                              \/ CreateApprovalRequest(j, outcome)
                              \/ WriteNote(j, outcome)
                              \/ \E written \in BOOLEAN : SetFinal(j, outcome, written)
  \/ \E result \in {"passed", "breaking", "error"} : CheckBreaking(j, result)
  \/ FetchImpact(j)
  \/ \E answered \in BOOLEAN : \/ GetApprovalStatus(j, answered)
                               \/ ListNotes(j, answered)

Next ==
  \/ \E j \in Jobs : \/ RefuseInput(j) \/ Step(j) \/ Cancel(j)
                     \/ AskApproval(j)
                     \/ \E decision \in Decision : Decide(j, decision)
  \/ Comment

Spec == Init /\ [][Next]_vars

-----------------------------------------------------------------------------
(* Properties. *)

TypeOK ==
  /\ report \in [Jobs -> {Null, "passed", "breaking"}]
  /\ request \in [Jobs -> {Null, "pending", "not_required"} \cup Decision]
  /\ \A j \in Jobs : request[j] # Null => report[j] # Null
  /\ Len(notes) <= MaxNotes
  /\ \A c \in Commits : status[c].state \in {Null, "running", "failed", "success"}
  /\ \A j \in Jobs : job[j].exit \in {Null, 0, 1, 2}

\* A commit shows success only if a check of this commit passed or, in governance
\* mode, the request of its report is approved or needs no approval, whatever calls
\* were lost and however jobs, cancellations and decisions interleave (finalState,
\* runner.go:343-365).  The exit code of a job agrees with the last status it set: 0
\* with success, 1 with failed over a breaking report, and 2 for every other end; a
\* job that ended leaves its commit at running only if it was cancelled or a call
\* that set a status failed (handleError, bestEffortSetStatus, runner.go:225-301).
GateHonest ==
  /\ \A c \in Commits : status[c].state = "success" =>
       LET j == status[c].by
       IN \/ report[j] = "passed"
          \/ j \in Governance /\ request[j] \in {"approved", "not_required"}
  /\ \A c \in Commits : status[c].state = "running" =>
       LET j == status[c].by IN At(j, "end") => job[j].exit = Null \/ job[j].failed
  /\ \A j \in Jobs :
       /\ job[j].exit = 0 => job[j].sent = "success"
       /\ job[j].exit = 1 => job[j].sent = "failed" /\ report[j] = "breaking"

\* A second comment of the bot appears only when its job had listed the notes before
\* the first one was written, or had so many newer notes in its list that the first
\* one was not on the page (upsertComment, runner.go:254-271).
DuplicatesExplained ==
  \A m, n \in DOMAIN notes : m < n /\ notes[m].marker /\ notes[n].marker =>
    \/ notes[n].after < m
    \/ notes[n].after - PageSize >= m

=============================================================================
