------------------------ MODULE MergeRequestBotProofs ------------------------
(***************************************************************************)
(* Proofs about MergeRequestBot for every number of jobs, commits and      *)
(* notes and every page size.                                              *)
(***************************************************************************)
EXTENDS MergeRequestBot, WellFoundedInduction, TLAPS

-----------------------------------------------------------------------------
(* The strengthening of the safety properties that the steps preserve. *)

Working == {"impact", "approval", "request", "list", "write", "final"}

JobRecord ==
  [pc : {"start", "check", "end"} \cup Working,
   governance : {Null, "pending", "not_required"} \cup Decision,
   error : BOOLEAN, seen : Nat, note : Nat \cup {Null},
   sent : {Null, "running", "failed", "success"}, failed : BOOLEAN, exit : {Null, 0, 1, 2}]

Note == [marker : BOOLEAN, updatedAt : Nat, after : Nat]

Typed ==
  /\ report \in [Jobs -> {Null, "passed", "breaking"}]
  /\ request \in [Jobs -> {Null, "pending", "not_required"} \cup Decision]
  /\ notes \in Seq(Note) /\ Len(notes) <= MaxNotes
  /\ status \in [Commits -> [state : {Null, "running", "failed", "success"}, by : Jobs \cup {Null}]]
  /\ clock \in Nat
  /\ job \in [Jobs -> JobRecord]

\* A request exists for a stored report only, and needs a decision exactly if the
\* report is breaking.
RequestShape ==
  \A j \in Jobs :
    /\ request[j] \in {"pending", "approved", "rejected"} => report[j] = "breaking"
    /\ request[j] = "not_required" => report[j] = "passed"

\* What a job knows of its report and of the request: an answer that lets the change
\* pass is final, one that does not was given for a breaking report.
JobKnows ==
  \A j \in Jobs :
    /\ At(j, "start") \/ At(j, "check") => report[j] = Null /\ ~job[j].error /\ job[j].governance = Null
    /\ ~At(j, "end") => job[j].exit = Null
    /\ job[j].pc \in {"impact", "approval", "request"} => ~job[j].error
    /\ job[j].pc \in Working /\ ~job[j].error => report[j] # Null
    /\ job[j].governance \in {"approved", "not_required"} => request[j] = job[j].governance
    /\ job[j].governance \in {"pending", "rejected"} => report[j] = "breaking"

\* A status was set by a started job of the commit.
StatusBacked ==
  \A c \in Commits : status[c].state # Null =>
    /\ status[c].by \in Jobs
    /\ Commit[status[c].by] = c
    /\ ~At(status[c].by, "start")

\* What a job that is about to write its comment knows of the notes: the note it found
\* is one of the bot, and if it found none then none was on the page it saw.
ListKnown ==
  /\ \A n \in DOMAIN notes : notes[n].updatedAt <= clock
  /\ \A j \in Jobs : At(j, "write") =>
       /\ job[j].seen <= Len(notes)
       /\ job[j].note # Null => job[j].note \in DOMAIN notes /\ notes[job[j].note].marker
       /\ job[j].note = Null =>
            \A m \in DOMAIN notes : notes[m].marker => m > job[j].seen \/ m <= job[j].seen - PageSize

\* What every step preserves.
IInv == /\ Typed /\ RequestShape /\ JobKnows /\ StatusBacked /\ ListKnown
        /\ GateHonest /\ DuplicatesExplained

-----------------------------------------------------------------------------
(* The operators of the model. *)

LEMMA FreshTyped == Fresh \in JobRecord
BY BotAssumption DEF Fresh, JobRecord, Working

\* A nonempty set of natural numbers has a smallest element.
LEMMA Least ==
  ASSUME NEW T \in SUBSET Nat, T # {}
  PROVE  \E x \in T : \A y \in T : x <= y
<1>1. PICK x \in T : \A y \in T : ~(<<y, x>> \in OpToRel(<, Nat))
  BY NatLessThanWellFounded, WFMin
<1>2. ASSUME NEW y \in T, ~(x <= y) PROVE FALSE
  <2>1. y \in Nat /\ x \in Nat /\ y < x
    BY <1>2
  <2>2. <<y, x>> \in OpToRel(<, Nat)
    BY <2>1 DEF OpToRel
  <2> QED BY <2>2, <1>1
<1> QED BY <1>2

\* What Goto, Fail and End do to the jobs.
LEMMA GotoMoves ==
  ASSUME Typed, NEW j \in Jobs, NEW pc \in {"start", "check", "end"} \cup Working, Goto(j, pc)
  PROVE  /\ job' \in [Jobs -> JobRecord]
         /\ \A i \in Jobs \ {j} : job'[i] = job[i]
         /\ job'[j].pc = pc
         /\ job'[j].governance = job[j].governance /\ job'[j].error = job[j].error
         /\ job'[j].seen = job[j].seen /\ job'[j].note = job[j].note
         /\ job'[j].sent = job[j].sent /\ job'[j].failed = job[j].failed /\ job'[j].exit = job[j].exit
<1>1. job[j] \in JobRecord
  BY DEF Typed
<1>2. [job[j] EXCEPT !.pc = pc] \in JobRecord
  BY <1>1 DEF JobRecord
<1>3. job' = [job EXCEPT ![j] = [job[j] EXCEPT !.pc = pc]]
  BY DEF Goto, Typed
<1>4. job'[j] = [job[j] EXCEPT !.pc = pc]
  BY <1>3 DEF Typed
<1> QED BY <1>1, <1>2, <1>3, <1>4 DEF Typed, JobRecord

LEMMA FailMoves ==
  ASSUME Typed, NEW j \in Jobs, NEW pc \in {"start", "check", "end"} \cup Working, Fail(j, pc)
  PROVE  /\ job' \in [Jobs -> JobRecord]
         /\ \A i \in Jobs \ {j} : job'[i] = job[i]
         /\ job'[j].pc = pc /\ job'[j].error
         /\ job'[j].governance = job[j].governance
         /\ job'[j].sent = job[j].sent /\ job'[j].failed = job[j].failed /\ job'[j].exit = job[j].exit
<1>1. job[j] \in JobRecord
  BY DEF Typed
<1>2. [job[j] EXCEPT !.pc = pc, !.error = TRUE] \in JobRecord
  BY <1>1 DEF JobRecord
<1>3. job' = [job EXCEPT ![j] = [job[j] EXCEPT !.pc = pc, !.error = TRUE]]
  BY DEF Fail, Typed
<1>4. job'[j] = [job[j] EXCEPT !.pc = pc, !.error = TRUE]
  BY <1>3 DEF Typed
<1> QED BY <1>1, <1>2, <1>3, <1>4 DEF Typed, JobRecord

LEMMA EndMoves ==
  ASSUME Typed, NEW j \in Jobs, NEW sent \in {Null, "running", "failed", "success"},
         NEW failed \in BOOLEAN, NEW exit \in {Null, 0, 1, 2}, End(j, sent, failed, exit)
  PROVE  /\ job' \in [Jobs -> JobRecord]
         /\ \A i \in Jobs \ {j} : job'[i] = job[i]
         /\ job'[j].pc = "end" /\ job'[j].governance = Null /\ job'[j].sent = sent
         /\ job'[j].failed = failed /\ job'[j].exit = exit
<1> DEFINE ended == [Fresh EXCEPT !.pc = "end", !.sent = sent, !.failed = failed, !.exit = exit]
<1>1. ended \in JobRecord
  BY FreshTyped DEF JobRecord
<1>2. /\ ended.pc = "end" /\ ended.governance = Null /\ ended.sent = sent
      /\ ended.failed = failed /\ ended.exit = exit
  BY DEF Fresh
<1>3. job' = [job EXCEPT ![j] = ended]
  BY DEF End
<1> HIDE DEF ended
<1> QED BY <1>1, <1>2, <1>3 DEF Typed

\* selectExistingNote finds a note whenever the list holds one of the bot.
LEMMA SelectFinds ==
  ASSUME Typed, ListKnown, NEW listed \in SUBSET DOMAIN notes, NEW m \in listed, notes[m].marker
  PROVE  SelectExistingNote(listed) # {}
<1> DEFINE marked == {n \in listed : notes[n].marker}
           ages == {clock - notes[n].updatedAt : n \in marked}
<1>1. \A n \in DOMAIN notes : notes[n] \in Note
  BY DEF Typed
<1>2. \A n \in marked : notes[n].updatedAt \in Nat /\ clock - notes[n].updatedAt \in Nat
  BY <1>1 DEF Typed, ListKnown, Note
<1>3. ages \in SUBSET Nat /\ ages # {}
  BY <1>2
<1>4. PICK age \in ages : \A y \in ages : age <= y
  BY <1>3, Least
<1>5. PICK n \in marked : age = clock - notes[n].updatedAt
  BY <1>4
<1>6. ASSUME NEW o \in listed, notes[o].marker PROVE notes[o].updatedAt <= notes[n].updatedAt
  <2>1. clock - notes[n].updatedAt <= clock - notes[o].updatedAt
    BY <1>4, <1>5, <1>6
  <2> QED BY <2>1, <1>2, <1>6 DEF Typed
<1> QED BY <1>5, <1>6 DEF SelectExistingNote

\* What the note the job remembers is.
LEMMA SelectGives ==
  ASSUME NEW n \in SelectExistingNote(ListMergeRequestNotes)
  PROVE  n \in DOMAIN notes /\ notes[n].marker
BY DEF SelectExistingNote, ListMergeRequestNotes

\* The answer of CreateApprovalRequest for a stored report.
LEMMA RequestedShape ==
  ASSUME Typed, RequestShape, NEW j \in Jobs, report[j] # Null
  PROVE  /\ Requested(j) \in {"pending", "not_required"} \cup Decision
         /\ Requested(j) \in {"pending", "approved", "rejected"} => report[j] = "breaking"
         /\ Requested(j) = "not_required" => report[j] = "passed"
         /\ request[j] # Null => Requested(j) = request[j]
BY DEF Typed, RequestShape, Requested, Decision

-----------------------------------------------------------------------------
(* The invariant is inductive. *)

LEMMA InvInit == Init => IInv
<1> SUFFICES ASSUME Init PROVE IInv
  OBVIOUS
<1> USE DEF Init
<1>1. Typed
  BY FreshTyped, BotAssumption DEF Typed
<1>2. RequestShape
  BY BotAssumption DEF RequestShape
<1>3. JobKnows /\ StatusBacked
  BY BotAssumption DEF JobKnows, StatusBacked, At, Fresh, Working
<1>4. ListKnown /\ DuplicatesExplained
  BY DEF ListKnown, DuplicatesExplained, At, Fresh
<1>5. GateHonest
  BY BotAssumption DEF GateHonest, At, Fresh
<1> QED BY <1>1, <1>2, <1>3, <1>4, <1>5 DEF IInv

\* Someone asks for approval of a report.
LEMMA InvAskApproval ==
  ASSUME IInv, NEW j \in Jobs, AskApproval(j) PROVE IInv'
<1> USE DEF IInv, AskApproval, gitlab
<1>1. Requested(j) \in {"pending", "not_required"} \cup Decision
  BY RequestedShape
<1>2. Typed'
  BY <1>1 DEF Typed
<1>3. RequestShape'
  BY RequestedShape DEF RequestShape, Typed
<1>4. JobKnows'
  BY BotAssumption DEF JobKnows, Typed, At
<1>5. StatusBacked' /\ ListKnown' /\ DuplicatesExplained'
  BY DEF StatusBacked, ListKnown, DuplicatesExplained, At
<1>6. GateHonest'
  BY BotAssumption DEF GateHonest, At, Typed, StatusBacked
<1> QED BY <1>2, <1>3, <1>4, <1>5, <1>6

\* Someone decides about a pending request.
LEMMA InvDecide ==
  ASSUME IInv, NEW j \in Jobs, NEW decision \in Decision, Decide(j, decision) PROVE IInv'
<1> USE DEF IInv, Decide, gitlab
<1>2. Typed'
  BY DEF Typed
<1>3. RequestShape'
  BY DEF RequestShape, Typed, Decision
<1>4. JobKnows'
  BY DEF JobKnows, Typed, At
<1>5. StatusBacked' /\ ListKnown' /\ DuplicatesExplained'
  BY DEF StatusBacked, ListKnown, DuplicatesExplained, At
<1>6. GateHonest'
  BY BotAssumption DEF GateHonest, At, Typed, StatusBacked
<1> QED BY <1>2, <1>3, <1>4, <1>5, <1>6

\* A person comments.
LEMMA InvComment == ASSUME IInv, Comment PROVE IInv'
<1> USE DEF IInv, Comment, server
<1>1. [marker |-> FALSE, updatedAt |-> clock + 1, after |-> Len(notes)] \in Note
  BY DEF Typed, Note
<1>2. Typed'
  BY <1>1, BotAssumption DEF Typed
<1>3. RequestShape' /\ JobKnows' /\ StatusBacked' /\ GateHonest'
  BY DEF RequestShape, JobKnows, StatusBacked, GateHonest, At
<1>4. /\ Len(notes') = Len(notes) + 1
      /\ \A n \in DOMAIN notes : notes'[n] = notes[n]
      /\ notes'[Len(notes) + 1] = [marker |-> FALSE, updatedAt |-> clock + 1, after |-> Len(notes)]
  BY DEF Typed
<1>5. \A n \in DOMAIN notes : notes[n] \in Note
  BY DEF Typed
<1>6. ListKnown'
  <2>1. \A n \in DOMAIN notes' : notes'[n].updatedAt <= clock'
    BY <1>4, <1>5 DEF ListKnown, Typed, Note
  <2>2. ASSUME NEW j \in Jobs, At(j, "write")'
        PROVE  /\ job[j].seen <= Len(notes')
               /\ job[j].note # Null => job[j].note \in DOMAIN notes' /\ notes'[job[j].note].marker
               /\ job[j].note = Null =>
                    \A m \in DOMAIN notes' :
                      notes'[m].marker => m > job[j].seen \/ m <= job[j].seen - PageSize
    <3>1. At(j, "write") /\ job[j].seen \in Nat
      BY <2>2 DEF At, Typed, JobRecord
    <3> QED BY <3>1, <1>4, <1>5, SMTT(30) DEF ListKnown, Typed, Note
  <2> QED BY <2>1, <2>2 DEF ListKnown
<1>7. DuplicatesExplained'
  BY <1>4, <1>5 DEF DuplicatesExplained, Typed, Note
<1> QED BY <1>2, <1>3, <1>6, <1>7

\* Steps of a job that leave GitLab alone and neither start nor end it keep what the
\* statuses and the notes say, and what other jobs know of the notes.
LEMMA Internal ==
  ASSUME IInv, NEW j \in Jobs, UNCHANGED gitlab, ~At(j, "start"), Typed',
         \A i \in Jobs \ {j} : job'[i] = job[i] /\ report'[i] = report[i] /\ request'[i] = request[i],
         job'[j].pc \notin {"start", "write", "end"},
         job'[j].sent = job[j].sent /\ job'[j].exit = job[j].exit,
         report[j] # Null => report'[j] = report[j],
         request[j] \in {"approved", "not_required"} => request'[j] = request[j]
  PROVE  StatusBacked' /\ ListKnown' /\ GateHonest' /\ DuplicatesExplained'
<1> USE DEF IInv, gitlab
<1>1. StatusBacked'
  BY BotAssumption, SMTT(30) DEF StatusBacked, At, Typed
<1>2. ListKnown'
  BY DEF ListKnown, At
<1>3. DuplicatesExplained'
  BY DEF DuplicatesExplained
<1>4. \A c \in Commits : status[c].state = "success" =>
        LET i == status[c].by
        IN \/ report'[i] = "passed"
           \/ i \in Governance /\ request'[i] \in {"approved", "not_required"}
  BY BotAssumption DEF GateHonest, StatusBacked
<1>5. \A c \in Commits : status[c].state = "running" =>
        LET i == status[c].by
        IN job'[i].pc = "end" => job'[i].exit = Null \/ job'[i].failed
  BY BotAssumption DEF GateHonest, StatusBacked, At
<1>6. \A i \in Jobs :
        /\ job'[i].exit = 0 => job'[i].sent = "success"
        /\ job'[i].exit = 1 => job'[i].sent = "failed" /\ report'[i] = "breaking"
  BY BotAssumption DEF GateHonest
<1> QED BY <1>1, <1>2, <1>3, <1>4, <1>5, <1>6 DEF GateHonest, At

\* The check stores its report, or fails.
LEMMA InvCheckBreaking ==
  ASSUME IInv, NEW j \in Jobs, NEW result \in {"passed", "breaking", "error"}, CheckBreaking(j, result)
  PROVE  IInv'
<1> USE DEF IInv, CheckBreaking
<1>1. Typed'
  BY GotoMoves, FailMoves DEF Typed, Working, gitlab
<1>2. /\ report[j] = Null /\ request[j] = Null
      /\ \A i \in Jobs \ {j} : job'[i] = job[i] /\ report'[i] = report[i] /\ request'[i] = request[i]
      /\ request'[j] = request[j] /\ job[j].governance = Null
      /\ job'[j].governance = Null /\ job'[j].sent = job[j].sent /\ job'[j].exit = job[j].exit
      /\ \/ job'[j].pc = "impact" /\ job'[j].error = job[j].error /\ report'[j] \in {"passed", "breaking"}
         \/ job'[j].pc = "list" /\ job'[j].error /\ report'[j] = Null
  BY GotoMoves, FailMoves, BotAssumption DEF Typed, JobKnows, RequestShape, At, Working, Decision
<1>3. RequestShape'
  BY <1>1, <1>2, BotAssumption DEF RequestShape, Typed
<1>4. JobKnows'
  BY <1>1, <1>2, BotAssumption DEF JobKnows, Typed, At, Working
<1>5. StatusBacked' /\ ListKnown' /\ GateHonest' /\ DuplicatesExplained'
  BY <1>1, <1>2, BotAssumption, Internal DEF At, gitlab
<1> QED BY <1>1, <1>3, <1>4, <1>5

\* The lookups for the comment.
LEMMA InvFetchImpact ==
  ASSUME IInv, NEW j \in Jobs, FetchImpact(j) PROVE IInv'
<1> USE DEF IInv, FetchImpact, server
<1>1. Typed'
  BY GotoMoves DEF Typed, Working, gitlab
<1>2. /\ \A i \in Jobs \ {j} : job'[i] = job[i]
      /\ job'[j].pc = "approval" /\ job'[j].governance = job[j].governance
      /\ job'[j].error = job[j].error
      /\ job'[j].sent = job[j].sent /\ job'[j].exit = job[j].exit
  BY GotoMoves DEF Working
<1>3. RequestShape'
  BY DEF RequestShape
<1>4. JobKnows'
  BY <1>2 DEF JobKnows, Typed, At, Working
<1>5. StatusBacked' /\ ListKnown' /\ GateHonest' /\ DuplicatesExplained'
  BY <1>1, <1>2, Internal DEF At
<1> QED BY <1>1, <1>3, <1>4, <1>5

\* The answer of the server about the request is final if it lets the change pass.
LEMMA InvGetApprovalStatus ==
  ASSUME IInv, NEW j \in Jobs, NEW answered \in BOOLEAN, GetApprovalStatus(j, answered) PROVE IInv'
<1> USE DEF IInv, GetApprovalStatus, server
<1>0. job[j] \in JobRecord /\ request[j] \in {Null, "pending", "not_required"} \cup Decision
  BY DEF Typed
<1>2. /\ job' \in [Jobs -> JobRecord]
      /\ \A i \in Jobs \ {j} : job'[i] = job[i]
      /\ job'[j].pc \in {"list", "request"}
      /\ job'[j].sent = job[j].sent /\ job'[j].exit = job[j].exit
      /\ job'[j].governance \in {job[j].governance, request[j]}
      /\ job'[j].error => job'[j].pc = "list"
  <2>1. CASE answered /\ request[j] # Null
    <3>1. [job[j] EXCEPT !.pc = "list", !.governance = request[j]] \in JobRecord
      BY <1>0 DEF JobRecord, Working
    <3>2. job' = [job EXCEPT ![j] = [job[j] EXCEPT !.pc = "list", !.governance = request[j]]]
      BY <2>1 DEF Typed
    <3> QED BY <1>0, <3>1, <3>2 DEF Typed, JobRecord
  <2>2. CASE ~(answered /\ request[j] # Null)
    <3>1. ~job[j].error
      BY DEF JobKnows, At
    <3> QED BY <2>2, <3>1, GotoMoves, FailMoves DEF Working
  <2> QED BY <2>1, <2>2
<1>1. Typed'
  BY <1>2 DEF Typed, gitlab
<1>3. RequestShape'
  BY DEF RequestShape
<1>4. JobKnows'
  BY <1>2, BotAssumption DEF JobKnows, RequestShape, At, Working
<1>5. StatusBacked' /\ ListKnown' /\ GateHonest' /\ DuplicatesExplained'
  BY <1>1, <1>2, Internal DEF At
<1> QED BY <1>1, <1>3, <1>4, <1>5

\* The job asks for approval itself; a lost answer leaves the request and an error.
LEMMA InvCreateApprovalRequest ==
  ASSUME IInv, NEW j \in Jobs, NEW outcome \in Outcome, CreateApprovalRequest(j, outcome) PROVE IInv'
<1> USE DEF IInv, CreateApprovalRequest
<1>0. report[j] # Null /\ job[j].pc = "request"
  BY DEF JobKnows, At, Working
<1>1. /\ Requested(j) \in {"pending", "not_required"} \cup Decision
      /\ Requested(j) \in {"pending", "approved", "rejected"} => report[j] = "breaking"
      /\ Requested(j) = "not_required" => report[j] = "passed"
      /\ request[j] # Null => Requested(j) = request[j]
  BY <1>0, RequestedShape
<1>2. /\ \A i \in Jobs \ {j} : request'[i] = request[i]
      /\ request' \in [Jobs -> {Null, "pending", "not_required"} \cup Decision]
      /\ request'[j] \in {request[j], Requested(j)}
      /\ outcome = "ok" => request'[j] = Requested(j)
  BY <1>1 DEF Typed, Applied
<1>3. /\ job' \in [Jobs -> JobRecord]
      /\ \A i \in Jobs \ {j} : job'[i] = job[i]
      /\ job'[j].pc = "list"
      /\ job'[j].sent = job[j].sent /\ job'[j].exit = job[j].exit
      /\ \/ job'[j].governance = job[j].governance
         \/ job'[j].governance = Requested(j) /\ outcome = "ok"
  <2>1. CASE outcome = "ok"
    <3>1. job[j] \in JobRecord
      BY DEF Typed
    <3>2. [job[j] EXCEPT !.pc = "list", !.governance = Requested(j)] \in JobRecord
      BY <1>1, <3>1 DEF JobRecord, Working
    <3>3. job' = [job EXCEPT ![j] = [job[j] EXCEPT !.pc = "list", !.governance = Requested(j)]]
      BY <2>1 DEF Typed
    <3> QED BY <2>1, <3>1, <3>2, <3>3 DEF Typed, JobRecord
  <2>2. CASE outcome # "ok"
    BY <2>2, FailMoves DEF Working
  <2> QED BY <2>1, <2>2
<1>4. Typed'
  BY <1>2, <1>3 DEF Typed, gitlab
<1>5. RequestShape'
  BY <1>1, <1>2 DEF RequestShape
<1>6. JobKnows'
  BY <1>0, <1>1, <1>2, <1>3, BotAssumption DEF JobKnows, RequestShape, At, Working
<1>7. StatusBacked' /\ ListKnown' /\ GateHonest' /\ DuplicatesExplained'
  BY <1>0, <1>1, <1>2, <1>3, <1>4, BotAssumption, Internal DEF At
<1> QED BY <1>4, <1>5, <1>6, <1>7

\* A job that ends leaves what it knows.
LEMMA Ended ==
  ASSUME IInv, NEW j \in Jobs, UNCHANGED server, job'[j].pc = "end", job'[j].governance = Null,
         \A i \in Jobs \ {j} : job'[i] = job[i]
  PROVE  RequestShape' /\ JobKnows'
<1>1. RequestShape'
  BY DEF IInv, RequestShape, server
<1>2. JobKnows'
  BY BotAssumption DEF IInv, JobKnows, At, Working, server
<1> QED BY <1>1, <1>2

\* Wrong input ends the job before it reaches GitLab.
LEMMA InvRefuseInput ==
  ASSUME IInv, NEW j \in Jobs, RefuseInput(j) PROVE IInv'
<1> USE DEF IInv, RefuseInput
<1>1. /\ job' \in [Jobs -> JobRecord]
      /\ \A i \in Jobs \ {j} : job'[i] = job[i]
      /\ job'[j].pc = "end" /\ job'[j].governance = Null /\ job'[j].exit = 2
  BY EndMoves
<1>2. Typed'
  BY <1>1 DEF Typed, server, gitlab
<1>3. RequestShape' /\ JobKnows'
  BY <1>1, Ended
<1>4. StatusBacked'
  BY <1>1, BotAssumption DEF StatusBacked, At, gitlab
<1>5. ListKnown' /\ DuplicatesExplained'
  BY <1>1 DEF ListKnown, DuplicatesExplained, At, gitlab
<1>6. GateHonest'
  BY <1>1, BotAssumption DEF GateHonest, StatusBacked, At, server, gitlab
<1> QED BY <1>2, <1>3, <1>4, <1>5, <1>6

\* CI cancels the job.
LEMMA InvCancel ==
  ASSUME IInv, NEW j \in Jobs, Cancel(j) PROVE IInv'
<1> USE DEF IInv, Cancel
<1>0. job[j].sent \in {Null, "running", "failed", "success"}
  BY DEF Typed, JobRecord
<1>1. /\ job' \in [Jobs -> JobRecord]
      /\ \A i \in Jobs \ {j} : job'[i] = job[i]
      /\ job'[j].pc = "end" /\ job'[j].governance = Null /\ job'[j].exit = Null
  BY <1>0, EndMoves
<1>2. Typed'
  BY <1>1 DEF Typed, server, gitlab
<1>3. RequestShape' /\ JobKnows'
  BY <1>1, Ended
<1>4. StatusBacked'
  BY <1>1, BotAssumption DEF StatusBacked, At, gitlab
<1>5. ListKnown' /\ DuplicatesExplained'
  BY <1>1 DEF ListKnown, DuplicatesExplained, At, gitlab
<1>6. GateHonest'
  BY <1>1, BotAssumption DEF GateHonest, StatusBacked, At, server, gitlab
<1> QED BY <1>2, <1>3, <1>4, <1>5, <1>6

\* What a call for a status does; nobody else's commit is touched.
LEMMA StatusSet ==
  ASSUME Typed, NEW j \in Jobs, NEW state \in {"running", "failed", "success"}, NEW outcome \in Outcome,
         SetStatus(j, state, outcome)
  PROVE  /\ status' \in [Commits -> [state : {Null, "running", "failed", "success"}, by : Jobs \cup {Null}]]
         /\ \A c \in Commits : status'[c] = status[c]
              \/ (Applied(outcome) /\ c = Commit[j] /\ status'[c].state = state /\ status'[c].by = j)
         /\ Applied(outcome) => status'[Commit[j]].state = state /\ status'[Commit[j]].by = j
         /\ notes' = notes /\ clock' = clock
<1>1. Commit[j] \in Commits
  BY DEF Commits
<1>2. [state |-> state, by |-> j] \in [state : {Null, "running", "failed", "success"}, by : Jobs \cup {Null}]
  OBVIOUS
<1>3. CASE Applied(outcome)
  <2>1. status' = [status EXCEPT ![Commit[j]] = [state |-> state, by |-> j]]
    BY <1>3 DEF SetStatus
  <2> QED BY <1>1, <1>2, <1>3, <2>1 DEF SetStatus, Typed
<1>4. CASE ~Applied(outcome)
  BY <1>4 DEF SetStatus, Typed
<1> QED BY <1>3, <1>4

\* The status running, or the end of the job if the call fails.
LEMMA InvSetRunning ==
  ASSUME IInv, NEW j \in Jobs, NEW outcome \in Outcome, SetRunning(j, outcome) PROVE IInv'
<1> USE DEF IInv, SetRunning
<1>1. /\ status' \in [Commits -> [state : {Null, "running", "failed", "success"}, by : Jobs \cup {Null}]]
      /\ \A c \in Commits : status'[c] = status[c]
           \/ (Applied(outcome) /\ c = Commit[j] /\ status'[c].state = "running" /\ status'[c].by = j)
      /\ notes' = notes /\ clock' = clock
  BY StatusSet
<1>2. /\ job' \in [Jobs -> JobRecord]
      /\ \A i \in Jobs \ {j} : job'[i] = job[i]
      /\ \/ /\ job'[j].pc = "check" /\ job'[j].governance = Null
            /\ ~job'[j].error /\ job'[j].exit = job[j].exit /\ job'[j].sent = "running"
         \/ /\ job'[j].pc = "end" /\ job'[j].governance = Null
            /\ job'[j].exit = 2 /\ job'[j].failed
  <2>1. CASE outcome = "ok"
    <3>1. job[j] \in JobRecord /\ job[j].governance = Null /\ ~job[j].error
      BY DEF Typed, JobKnows, At
    <3>2. [job[j] EXCEPT !.pc = "check", !.sent = "running"] \in JobRecord
      BY <3>1 DEF JobRecord
    <3>3. job' = [job EXCEPT ![j] = [job[j] EXCEPT !.pc = "check", !.sent = "running"]]
      BY <2>1 DEF Typed
    <3> QED BY <3>1, <3>2, <3>3 DEF Typed, JobRecord
  <2>2. CASE outcome # "ok"
    BY <2>2, EndMoves
  <2> QED BY <2>1, <2>2
<1>3. Typed'
  BY <1>1, <1>2 DEF Typed, server
<1>4. RequestShape'
  BY DEF RequestShape, server
<1>5. report[j] = Null /\ job[j].exit \notin {0, 1}
  BY BotAssumption DEF JobKnows, GateHonest, At
<1>6. JobKnows'
  BY <1>2, <1>5, BotAssumption DEF JobKnows, At, Working, server
<1>7. StatusBacked'
  BY <1>1, <1>2, BotAssumption DEF StatusBacked, At
<1>8. ListKnown' /\ DuplicatesExplained'
  BY <1>1, <1>2 DEF ListKnown, DuplicatesExplained, At
<1>9. GateHonest'
  <2>1. \A c \in Commits : status'[c].state = "success" =>
          LET i == status'[c].by
          IN \/ report'[i] = "passed"
             \/ i \in Governance /\ request'[i] \in {"approved", "not_required"}
    BY <1>1 DEF GateHonest, server
  <2>2. ASSUME NEW c \in Commits, status'[c].state = "running"
        PROVE  LET i == status'[c].by
               IN job'[i].pc = "end" => job'[i].exit = Null \/ job'[i].failed
    <3>1. status'[c].by \in Jobs
      BY <2>2, <1>1, BotAssumption DEF StatusBacked
    <3>2. CASE status'[c].by # j
      BY <3>1, <3>2, <2>2, <1>1, <1>2 DEF GateHonest, At
    <3>3. CASE status'[c].by = j
      BY <3>3, <1>2 DEF At
    <3> QED BY <3>2, <3>3
  <2>3. \A i \in Jobs :
          /\ job'[i].exit = 0 => job'[i].sent = "success"
          /\ job'[i].exit = 1 => job'[i].sent = "failed" /\ report'[i] = "breaking"
    BY <1>2, <1>5 DEF GateHonest, server
  <2> QED BY <2>1, <2>2, <2>3 DEF GateHonest, At
<1> QED BY <1>3, <1>4, <1>6, <1>7, <1>8, <1>9

\* The state of the failure paths, of the gate and of the check.
LEMMA FinalStateShape ==
  ASSUME IInv, NEW j \in Jobs, At(j, "final")
  PROVE  /\ FinalState(j) \in {"failed", "success"}
         /\ FinalState(j) = "success" => \/ report[j] = "passed"
                                         \/ j \in Governance /\ request[j] \in {"approved", "not_required"}
         /\ FinalState(j) = "failed" /\ ~job[j].error => report[j] = "breaking"
<1>1. job[j].governance \in {Null, "pending", "not_required"} \cup Decision
  BY DEF IInv, Typed, JobRecord
<1>2. report[j] \in {Null, "passed", "breaking"}
  BY DEF IInv, Typed
<1> QED BY <1>1, <1>2, BotAssumption DEF IInv, JobKnows, FinalState, At, Working, Decision

\* The last status and the exit code.
LEMMA InvSetFinal ==
  ASSUME IInv, NEW j \in Jobs, NEW outcome \in Outcome, NEW written \in BOOLEAN,
         SetFinal(j, outcome, written)
  PROVE  IInv'
<1> DEFINE sent == IF Applied(outcome) THEN FinalState(j) ELSE job[j].sent
           failed == outcome # "ok"
           exit == IF written THEN ExitCode(j, outcome) ELSE 2
<1> USE DEF IInv, SetFinal
<1>0. /\ FinalState(j) \in {"failed", "success"}
      /\ FinalState(j) = "success" => \/ report[j] = "passed"
                                      \/ j \in Governance /\ request[j] \in {"approved", "not_required"}
      /\ FinalState(j) = "failed" /\ ~job[j].error => report[j] = "breaking"
  BY FinalStateShape
<1>1. /\ status' \in [Commits -> [state : {Null, "running", "failed", "success"}, by : Jobs \cup {Null}]]
      /\ \A c \in Commits : status'[c] = status[c]
           \/ (Applied(outcome) /\ c = Commit[j] /\ status'[c].state = FinalState(j) /\ status'[c].by = j)
      /\ Applied(outcome) => status'[Commit[j]].state = FinalState(j) /\ status'[Commit[j]].by = j
      /\ notes' = notes /\ clock' = clock
  BY <1>0, StatusSet
<1>2. /\ sent \in {Null, "running", "failed", "success"}
      /\ exit \in {0, 1, 2}
      /\ exit = 0 => sent = "success"
      /\ exit = 1 => sent = "failed" /\ report[j] = "breaking"
  BY <1>0 DEF Typed, JobRecord, ExitCode, Applied
<1>3. End(j, sent, failed, exit) /\ failed \in BOOLEAN /\ (~Applied(outcome) => failed)
  BY DEF Applied
<1> HIDE DEF sent, failed, exit
<1>4. /\ job' \in [Jobs -> JobRecord]
      /\ \A i \in Jobs \ {j} : job'[i] = job[i]
      /\ job'[j].pc = "end" /\ job'[j].governance = Null /\ job'[j].sent = sent
      /\ job'[j].failed = failed /\ job'[j].exit = exit
  BY <1>2, <1>3, EndMoves
<1>5. Typed'
  BY <1>1, <1>4 DEF Typed, server
<1>6. RequestShape' /\ JobKnows'
  BY <1>4, Ended
<1>7. StatusBacked'
  BY <1>1, <1>4, BotAssumption DEF StatusBacked, At
<1>8. ListKnown' /\ DuplicatesExplained'
  BY <1>1, <1>4 DEF ListKnown, DuplicatesExplained, At
<1>9. GateHonest'
  <2>1. ASSUME NEW c \in Commits, status'[c].state = "success"
        PROVE  LET i == status'[c].by
               IN \/ report'[i] = "passed"
                  \/ i \in Governance /\ request'[i] \in {"approved", "not_required"}
    BY <2>1, <1>0, <1>1 DEF GateHonest, server
  <2>2. ASSUME NEW c \in Commits, status'[c].state = "running"
        PROVE  LET i == status'[c].by
               IN job'[i].pc = "end" => job'[i].exit = Null \/ job'[i].failed
    <3>1. status'[c] = status[c] /\ status'[c].by \in Jobs /\ Commit[status'[c].by] = c
      BY <2>2, <1>0, <1>1, BotAssumption DEF StatusBacked
    <3>2. CASE status'[c].by # j
      <4>1. job'[status[c].by] = job[status[c].by]
        BY <3>1, <3>2, <1>4
      <4> QED BY <4>1, <3>1, <2>2 DEF GateHonest, At
    <3>3. CASE status'[c].by = j
      <4>1. ~Applied(outcome)
        BY <2>2, <3>1, <3>3, <1>0, <1>1
      <4> QED BY <4>1, <3>3, <1>3, <1>4
    <3> QED BY <3>2, <3>3
  <2>3. \A i \in Jobs :
          /\ job'[i].exit = 0 => job'[i].sent = "success"
          /\ job'[i].exit = 1 => job'[i].sent = "failed" /\ report'[i] = "breaking"
    BY <1>2, <1>4 DEF GateHonest, server
  <2> QED BY <2>1, <2>2, <2>3 DEF GateHonest, At
<1> QED BY <1>5, <1>6, <1>7, <1>8, <1>9

\* The job reads the first page of the notes.
LEMMA InvListNotes ==
  ASSUME IInv, NEW j \in Jobs, NEW answered \in BOOLEAN, ListNotes(j, answered) PROVE IInv'
<1> DEFINE found == SelectExistingNote(ListMergeRequestNotes)
           note == IF found = {} THEN Null ELSE CHOOSE n \in found : TRUE
<1> USE DEF IInv
<1>0. At(j, "list") /\ UNCHANGED <<report, request, notes, status, clock>>
  BY DEF ListNotes, server, gitlab
<1>1. CASE answered
  <2>0. /\ Len(notes) \in Nat /\ DOMAIN notes = 1 .. Len(notes)
        /\ ListMergeRequestNotes \in SUBSET DOMAIN notes
    BY DEF Typed, ListMergeRequestNotes
  <2>1. job' = [job EXCEPT ![j] = [job[j] EXCEPT !.pc = "write", !.seen = Len(notes), !.note = note]]
    BY <1>1 DEF Typed, ListNotes
  <2>2. IF found = {} THEN note = Null ELSE note \in found
    OBVIOUS
  <2> HIDE DEF note
  <2>3. found # {} => note \in DOMAIN notes /\ notes[note].marker
    BY <2>2, SelectGives
  <2>4. found = {} => \A m \in DOMAIN notes : notes[m].marker => m <= Len(notes) - PageSize
    <3>1. SUFFICES ASSUME found = {}, NEW m \in DOMAIN notes, notes[m].marker, ~(m <= Len(notes) - PageSize)
                   PROVE  FALSE
      OBVIOUS
    <3>2. m \in ListMergeRequestNotes
      BY <2>0, <3>1, BotAssumption DEF ListMergeRequestNotes
    <3> QED BY <2>0, <3>1, <3>2, SelectFinds
  <2> HIDE DEF found
  <2>5. note \in Nat \cup {Null} /\ job[j] \in JobRecord
    BY <2>0, <2>2, <2>3 DEF Typed
  <2>12. [job[j] EXCEPT !.pc = "write", !.seen = Len(notes), !.note = note] \in JobRecord
    BY <2>0, <2>5 DEF JobRecord, Working
  <2>6. /\ job' \in [Jobs -> JobRecord]
        /\ \A i \in Jobs \ {j} : job'[i] = job[i]
        /\ job'[j].pc = "write" /\ job'[j].seen = Len(notes) /\ job'[j].note = note
        /\ job'[j].governance = job[j].governance /\ job'[j].error = job[j].error
        /\ job'[j].sent = job[j].sent /\ job'[j].exit = job[j].exit
    BY <2>1, <2>5, <2>12 DEF Typed, JobRecord
  <2>7. Typed'
    BY <1>0, <2>6 DEF Typed
  <2>8. RequestShape' /\ JobKnows'
    BY <1>0, <2>6 DEF RequestShape, JobKnows, At, Working
  <2>9. StatusBacked' /\ DuplicatesExplained'
    BY <1>0, <2>6, BotAssumption DEF StatusBacked, DuplicatesExplained, At
  <2>10. ListKnown'
    <3>1. ASSUME NEW i \in Jobs, job'[i].pc = "write"
          PROVE  /\ job'[i].seen <= Len(notes)
                 /\ job'[i].note # Null => job'[i].note \in DOMAIN notes /\ notes[job'[i].note].marker
                 /\ job'[i].note = Null =>
                      \A m \in DOMAIN notes :
                        notes[m].marker => m > job'[i].seen \/ m <= job'[i].seen - PageSize
      <4>1. CASE i = j
        BY <4>1, <2>0, <2>2, <2>3, <2>4, <2>6, BotAssumption
      <4>2. CASE i # j
        BY <4>2, <3>1, <2>6 DEF ListKnown, At
      <4> QED BY <4>1, <4>2
    <3> QED BY <1>0, <3>1 DEF ListKnown, At
  <2>11. GateHonest'
    BY <1>0, <2>6, BotAssumption DEF GateHonest, StatusBacked, At
  <2> QED BY <2>7, <2>8, <2>9, <2>10, <2>11
<1>2. CASE ~answered
  <2>1. /\ job' \in [Jobs -> JobRecord]
        /\ \A i \in Jobs \ {j} : job'[i] = job[i]
        /\ job'[j].pc = "final" /\ job'[j].error
        /\ job'[j].governance = job[j].governance
        /\ job'[j].sent = job[j].sent /\ job'[j].exit = job[j].exit
    BY <1>2, FailMoves DEF ListNotes, Working
  <2>2. Typed'
    BY <1>0, <2>1 DEF Typed
  <2>3. RequestShape' /\ JobKnows'
    BY <1>0, <2>1 DEF RequestShape, JobKnows, At
  <2>4. StatusBacked' /\ ListKnown' /\ GateHonest' /\ DuplicatesExplained'
    BY <1>0, <2>1, <2>2, Internal DEF At, gitlab
  <2> QED BY <2>2, <2>3, <2>4
<1> QED BY <1>1, <1>2

\* The job updates the note it found, or adds a note if it found none.
LEMMA InvWriteNote ==
  ASSUME IInv, NEW j \in Jobs, NEW outcome \in Outcome, WriteNote(j, outcome) PROVE IInv'
<1> DEFINE new == [marker |-> TRUE, updatedAt |-> clock + 1, after |-> job[j].seen]
           old == job[j].note
           changed == [new EXCEPT !.after = notes[old].after]
<1> USE DEF IInv
<1>1. /\ job' \in [Jobs -> JobRecord]
      /\ \A i \in Jobs \ {j} : job'[i] = job[i]
      /\ job'[j].pc = "final"
      /\ job'[j].governance = job[j].governance /\ (~job'[j].error => ~job[j].error)
      /\ job'[j].sent = job[j].sent /\ job'[j].exit = job[j].exit
  BY GotoMoves, FailMoves DEF WriteNote, Working
<1>2. /\ job[j].pc = "write" /\ job[j].seen \in Nat /\ job[j].seen <= Len(notes)
      /\ notes \in Seq(Note)
      /\ \A n \in DOMAIN notes : notes[n] \in Note
      /\ clock \in Nat
  BY DEF WriteNote, Typed, JobRecord, ListKnown, At
<1>3. \/ notes' = notes /\ clock' = clock
      \/ notes' = Append(notes, new) /\ clock' = clock + 1 /\ old = Null /\ Len(notes) < MaxNotes
      \/ notes' = [notes EXCEPT ![old] = changed] /\ clock' = clock + 1 /\ old # Null
  BY DEF WriteNote
<1>4. new \in Note /\ new.marker /\ new.updatedAt = clock + 1 /\ new.after = job[j].seen
  BY <1>2 DEF Note
<1>5. old # Null => /\ old \in DOMAIN notes /\ notes[old].marker
                    /\ changed \in Note /\ changed.marker
                    /\ changed.updatedAt = clock + 1 /\ changed.after = notes[old].after
  BY <1>2, <1>4 DEF ListKnown, At, Note
<1>6. old = Null => \A m \in DOMAIN notes : notes[m].marker => m > job[j].seen \/ m <= job[j].seen - PageSize
  BY <1>2 DEF ListKnown, At
<1> HIDE DEF new, old, changed
<1>7. /\ notes' \in Seq(Note) /\ Len(notes') <= MaxNotes
      /\ Len(notes') >= Len(notes)
      /\ \A n \in DOMAIN notes : /\ notes'[n].marker = notes[n].marker
                                 /\ notes'[n].after = notes[n].after
                                 /\ notes'[n].updatedAt <= clock'
      /\ clock' \in Nat
      /\ \/ Len(notes') = Len(notes)
         \/ /\ Len(notes') = Len(notes) + 1 /\ old = Null /\ clock' = clock + 1
            /\ notes'[Len(notes) + 1] = new
  <2>1. CASE notes' = notes /\ clock' = clock
    BY <2>1, <1>2 DEF Typed, ListKnown
  <2>2. CASE notes' = Append(notes, new) /\ clock' = clock + 1 /\ old = Null /\ Len(notes) < MaxNotes
    <3>1. /\ notes' \in Seq(Note) /\ Len(notes') = Len(notes) + 1
          /\ \A n \in DOMAIN notes : notes'[n] = notes[n]
          /\ notes'[Len(notes) + 1] = new
      BY <2>2, <1>4 DEF Typed
    <3>2. \A n \in DOMAIN notes : notes[n].updatedAt <= clock + 1
      BY <1>2 DEF ListKnown, Note
    <3> QED BY <2>2, <3>1, <3>2, <1>2, BotAssumption
  <2>3. CASE notes' = [notes EXCEPT ![old] = changed] /\ clock' = clock + 1 /\ old # Null
    <3>1. Len(notes') = Len(notes) /\ notes' \in Seq(Note)
      BY <2>3, <1>2, <1>5 DEF Typed
    <3>2. ASSUME NEW n \in DOMAIN notes
          PROVE  /\ notes'[n].marker = notes[n].marker /\ notes'[n].after = notes[n].after
                 /\ notes'[n].updatedAt <= clock'
      <4>1. notes[n].updatedAt <= clock /\ notes[n].updatedAt \in Nat
        BY <1>2, <3>2 DEF ListKnown, Note
      <4>2. CASE n = old
        <5>1. notes'[n] = changed
          BY <2>3, <3>2, <4>2
        <5>2. changed.marker = notes[n].marker
          BY <1>2, <1>5, <2>3, <3>2, <4>2 DEF Note
        <5>3. changed.after = notes[n].after /\ changed.updatedAt = clock + 1
          BY <1>5, <2>3, <4>2
        <5> QED BY <1>2, <2>3, <5>1, <5>2, <5>3
      <4>3. CASE n # old
        BY <1>2, <2>3, <3>2, <4>1, <4>3
      <4> QED BY <4>2, <4>3
    <3>3. clock' \in Nat /\ Len(notes') <= MaxNotes
      BY <1>2, <2>3, <3>1 DEF Typed
    <3> QED BY <3>1, <3>2, <3>3
  <2> QED BY <1>3, <2>1, <2>2, <2>3
<1>8. Typed'
  BY <1>1, <1>7 DEF Typed, WriteNote, server
<1>9. RequestShape' /\ JobKnows'
  BY <1>1, <1>2 DEF RequestShape, JobKnows, At, Working, WriteNote, server
<1>10. StatusBacked' /\ GateHonest'
  <2>1. StatusBacked'
    BY <1>1, <1>2, BotAssumption, SMTT(30) DEF StatusBacked, At, WriteNote, server
  <2>2. GateHonest'
    <3>1. /\ status' = status /\ report' = report /\ request' = request
          /\ \A i \in Jobs : job'[i].exit = job[i].exit /\ job'[i].sent = job[i].sent
          /\ \A i \in Jobs : At(i, "end")' => At(i, "end") /\ job'[i] = job[i]
      BY <1>1 DEF At, WriteNote, server
    <3>2. \A c \in Commits : status[c].state # Null => status[c].by \in Jobs
      BY DEF StatusBacked
    <3> QED BY <3>1, <3>2, BotAssumption DEF GateHonest
  <2> QED BY <2>1, <2>2
<1>11. ListKnown'
  <2>1. ASSUME NEW n \in DOMAIN notes' PROVE notes'[n].updatedAt <= clock'
    <3>1. CASE n \in DOMAIN notes
      BY <1>7, <3>1
    <3>2. CASE n \notin DOMAIN notes
      <4>1. n = Len(notes) + 1 /\ notes'[n] = new /\ clock' = clock + 1
        BY <1>2, <1>7, <3>2
      <4> QED BY <1>2, <1>4, <4>1
    <3> QED BY <3>1, <3>2
  <2>2. ASSUME NEW i \in Jobs, job'[i].pc = "write"
        PROVE  /\ job'[i].seen <= Len(notes')
               /\ job'[i].note # Null => job'[i].note \in DOMAIN notes' /\ notes'[job'[i].note].marker
               /\ job'[i].note = Null =>
                    \A m \in DOMAIN notes' :
                      notes'[m].marker => m > job'[i].seen \/ m <= job'[i].seen - PageSize
    <3>1. i # j /\ job'[i] = job[i] /\ At(i, "write") /\ job[i].seen \in Nat
      BY <2>2, <1>1 DEF At, Typed, JobRecord
    <3>2. /\ job[i].seen <= Len(notes)
          /\ job[i].note # Null => job[i].note \in DOMAIN notes /\ notes[job[i].note].marker
          /\ job[i].note = Null =>
               \A m \in DOMAIN notes : notes[m].marker => m > job[i].seen \/ m <= job[i].seen - PageSize
      BY <3>1 DEF ListKnown
    <3>3. job'[i].seen <= Len(notes')
      BY <3>1, <3>2, <1>7
    <3>4. job'[i].note # Null => job'[i].note \in DOMAIN notes' /\ notes'[job'[i].note].marker
      BY <3>1, <3>2, <1>2, <1>7
    <3>5. ASSUME job'[i].note = Null, NEW m \in DOMAIN notes', notes'[m].marker
          PROVE  m > job'[i].seen \/ m <= job'[i].seen - PageSize
      <4>1. CASE m \in DOMAIN notes
        BY <3>1, <3>2, <3>5, <4>1, <1>7
      <4>2. CASE m \notin DOMAIN notes
        <5>1. m > Len(notes) /\ m \in Nat /\ Len(notes) \in Nat
          BY <4>2, <1>2, <1>7
        <5> QED BY <3>1, <3>2, <5>1
      <4> QED BY <4>1, <4>2
    <3> QED BY <3>3, <3>4, <3>5
  <2> QED BY <2>1, <2>2 DEF ListKnown, At
<1>12. DuplicatesExplained'
  <2>1. SUFFICES ASSUME NEW m \in DOMAIN notes', NEW n \in DOMAIN notes',
                        m < n, notes'[m].marker, notes'[n].marker
                 PROVE  notes'[n].after < m \/ notes'[n].after - PageSize >= m
    BY DEF DuplicatesExplained
  <2>2. CASE n \in DOMAIN notes
    BY <2>1, <2>2, <1>2, <1>7 DEF DuplicatesExplained
  <2>3. CASE n \notin DOMAIN notes
    <3>1. n = Len(notes) + 1 /\ old = Null /\ notes'[n] = new /\ m \in DOMAIN notes
      BY <2>1, <2>3, <1>2, <1>7
    <3> QED BY <3>1, <2>1, <1>2, <1>4, <1>6, <1>7, BotAssumption
  <2> QED BY <2>2, <2>3
<1> QED BY <1>8, <1>9, <1>10, <1>11, <1>12

LEMMA InvStep == ASSUME IInv, Next PROVE IInv'
<1>1. ASSUME NEW j \in Jobs, RefuseInput(j) \/ Cancel(j) \/ AskApproval(j) PROVE IInv'
  BY <1>1, InvRefuseInput, InvCancel, InvAskApproval
<1>2. ASSUME NEW j \in Jobs, NEW decision \in Decision, Decide(j, decision) PROVE IInv'
  BY <1>2, InvDecide
<1>3. ASSUME NEW j \in Jobs, Step(j) PROVE IInv'
  <2>1. ASSUME NEW outcome \in Outcome,
               SetRunning(j, outcome) \/ CreateApprovalRequest(j, outcome) \/ WriteNote(j, outcome)
        PROVE  IInv'
    BY <2>1, InvSetRunning, InvCreateApprovalRequest, InvWriteNote
  <2>2. ASSUME NEW outcome \in Outcome, NEW written \in BOOLEAN, SetFinal(j, outcome, written)
        PROVE  IInv'
    BY <2>2, InvSetFinal
  <2>3. ASSUME NEW result \in {"passed", "breaking", "error"}, CheckBreaking(j, result) PROVE IInv'
    BY <2>3, InvCheckBreaking
  <2>4. ASSUME FetchImpact(j) PROVE IInv'
    BY <2>4, InvFetchImpact
  <2>5. ASSUME NEW answered \in BOOLEAN, GetApprovalStatus(j, answered) \/ ListNotes(j, answered)
        PROVE  IInv'
    BY <2>5, InvGetApprovalStatus, InvListNotes
  <2> QED BY <1>3, <2>1, <2>2, <2>3, <2>4, <2>5 DEF Step
<1> QED BY <1>1, <1>2, <1>3, InvComment DEF Next

LEMMA InvStutter == ASSUME IInv, UNCHANGED vars PROVE IInv'
BY DEF IInv, Typed, RequestShape, JobKnows, StatusBacked, ListKnown, GateHonest, DuplicatesExplained,
       At, vars, server, gitlab

\* The invariant holds in every reachable state.
THEOREM Invariant == Spec => []IInv
<1>1. IInv /\ [Next]_vars => IInv'
  BY InvStep, InvStutter
<1> QED BY InvInit, <1>1, PTL DEF Spec

-----------------------------------------------------------------------------
(* What the bot promises. *)

\* A commit shows success only for a change that may pass, the exit code agrees with
\* the last status, and only a cancelled or failed job leaves running behind
\* (runner.go:225-301, 343-365), for every number of jobs and any interleaving with
\* decisions, lost answers and cancellations.
THEOREM GateIsHonest == Spec => []GateHonest
<1>1. IInv => GateHonest
  BY DEF IInv
<1> QED BY Invariant, <1>1, PTL

\* A second comment of the bot is always the result of a list read too early or of a
\* page too short (upsertComment, runner.go:254-271), for every page size and any
\* number of notes.
THEOREM DuplicatesAreExplained == Spec => []DuplicatesExplained
<1>1. IInv => DuplicatesExplained
  BY DEF IInv
<1> QED BY Invariant, <1>1, PTL

\* The states and exit codes are those of the code, and a request exists for a stored
\* report only.
THEOREM TypeCorrect == Spec => []TypeOK
<1>1. IInv => TypeOK
  <2>1. ASSUME IInv, NEW j \in Jobs PROVE job[j].exit \in {Null, 0, 1, 2}
    BY <2>1 DEF IInv, Typed, JobRecord
  <2>2. ASSUME IInv, NEW c \in Commits PROVE status[c].state \in {Null, "running", "failed", "success"}
    BY <2>2 DEF IInv, Typed
  <2>3. ASSUME IInv, NEW j \in Jobs, request[j] # Null PROVE report[j] # Null
    BY <2>3, BotAssumption DEF IInv, Typed, RequestShape, Decision
  <2> QED BY <2>1, <2>2, <2>3 DEF IInv, Typed, TypeOK
<1> QED BY Invariant, <1>1, PTL

=============================================================================
