------------------------------- MODULE Outbox -------------------------------
(***************************************************************************)
(* The transactional outbox: the outbox_records table                      *)
(* (internal/repository/postgres/outbox.go) and the publisher loops that   *)
(* drain it (internal/outbox/publisher.go), one per server process.        *)
(*                                                                         *)
(* Time is kept relative.  row[r].due is available_at minus the current    *)
(* time and row[r].lease is claim_expires_at minus the current time; Tick  *)
(* moves every row one unit closer to both.  A publisher reads its clock   *)
(* before it sends a statement, so the `now' of a statement may lag the    *)
(* database's moment of execution by up to MaxLate units; differences      *)
(* below -MaxLate are equivalent and are not told apart.                   *)
(***************************************************************************)
EXTENDS Integers, FiniteSets

CONSTANTS
  Records,          \* identities of outbox records
  Publishers,       \* server processes with an enabled publisher
  BatchSize,        \* PublisherOptions.BatchSize
  LeaseDuration,    \* PublisherOptions.LeaseDuration
  MaxAttempts,      \* PublisherOptions.MaxAttempts
  InitialBackoff,   \* PublisherOptions.InitialRetryBackoff
  MaxBackoff,       \* PublisherOptions.MaxRetryBackoff
  MaxLate,          \* largest lag of a statement's `now' behind its execution
  MaxFaults,        \* bound on crashes, shutdowns and database errors
  Null              \* SQL NULL / no record

\* What normalizePublisherOptions (publisher.go:182-212) establishes.
ASSUME OptionsAssumption ==
  /\ BatchSize \in Nat \ {0}
  /\ LeaseDuration \in Nat \ {0}
  /\ MaxAttempts \in Nat \ {0}
  /\ InitialBackoff \in Nat \ {0}
  /\ MaxBackoff \in Nat \ {0} /\ MaxBackoff >= InitialBackoff

ASSUME ModelAssumption ==
  /\ MaxLate \in Nat
  /\ MaxFaults \in Nat
  /\ Null \notin Int
  /\ Null \notin Records

VARIABLES
  row,         \* the outbox_records table
  pc,          \* where each publisher is in Run / PublishOnce / dispatchRecord
  cancelled,   \* whether the publisher's context is cancelled
  batch,       \* Attempts of each record of the claimed batch still to finish, 0: none
  current,     \* the record the publisher is dispatching or marking
  dispatched,  \* claims (by their Attempts number) that called Dispatch, per record
  delivered,   \* records some Dispatch of which reached its destination
  faults       \* faults so far

dbVars == <<row>>
publisherVars == <<pc, cancelled, batch, current>>
historyVars == <<dispatched, delivered>>
vars == <<row, pc, cancelled, batch, current, dispatched, delivered, faults>>

-----------------------------------------------------------------------------
(* The table. *)

Status == {"absent", "pending", "processing", "published", "failed", "dead"}

Row == [status : Status, attempts : Nat, due : Int,
        lease : Int \cup {Null}, publishedAt : BOOLEAN]

\* No row with this record's id: its business transaction has not committed.
AbsentRow == [status |-> "absent", attempts |-> 0, due |-> -MaxLate,
              lease |-> Null, publishedAt |-> FALSE]

\* The INSERT of OutboxWriter.Create; available_at is the usecase's occurredAt,
\* `late' units before the commit.
CreatedRow(late) == [AbsentRow EXCEPT !.status = "pending", !.due = -late]

\* Mutant: an expired claim is not taken again.
Claimable_NoReclaim(w, late) == w.status \in {"pending", "failed"} /\ w.due <= -late

\* The WHERE clause of ClaimPending, at now = the current time - late.
Claimable(w, late) ==
  \/ /\ w.status \in {"pending", "failed"}
     /\ w.due <= -late
  \/ /\ w.status = "processing"
     /\ w.lease # Null
     /\ w.lease <= -late

\* Mutants: the claim takes an attempt away, or does not count one.
ClaimedRow_CountsDown(w, late) ==
  [w EXCEPT !.status = "processing", !.lease = LeaseDuration - late,
            !.attempts = w.attempts - 1]

ClaimedRow_Uncounted(w, late) ==
  [w EXCEPT !.status = "processing", !.lease = LeaseDuration - late]

\* The SET clause of ClaimPending.
ClaimedRow(w, late) ==
  [w EXCEPT !.status = "processing",
            !.lease = LeaseDuration - late,
            !.attempts = w.attempts + 1]

\* Mutant: the claim is not cleared.
PublishedRow_KeepsClaim(w) == [w EXCEPT !.status = "published", !.publishedAt = TRUE]

\* The UPDATE of MarkPublished; published_at = COALESCE(published_at, now).
PublishedRow(w) ==
  [w EXCEPT !.status = "published", !.publishedAt = TRUE, !.lease = Null]

\* Mutant: the cap is not applied.
RetryBackoff_Uncapped(attempts) ==
  InitialBackoff * 2 ^ (IF attempts < 1 THEN 0 ELSE attempts - 1)

\* math.Pow(2, attempts - 1) times the initial backoff.  A product outside the
\* range of time.Duration converts to its least value (amd64) or its largest
\* (arm64); either way the result is the maximum.
RetryBackoff(attempts) ==
  LET attempt == IF attempts < 1 THEN 1 ELSE attempts
      backoff == InitialBackoff * 2 ^ (attempt - 1)
  IN  IF backoff \in 1 .. MaxBackoff THEN backoff ELSE MaxBackoff

\* Mutant: the publisher's old view decides whether the record is dead.
FailedRow_BySeen(w, seen, late) ==
  IF seen >= MaxAttempts
  THEN [w EXCEPT !.status = "dead", !.lease = Null]
  ELSE [w EXCEPT !.status = "failed", !.lease = Null,
                 !.due = RetryBackoff(seen) - late]

\* The UPDATE of MarkFailed.  `seen' is record.Attempts as the claim returned
\* it; the CASE expressions look at the attempts column, not at `seen'.
FailedRow(w, seen, late) ==
  IF w.attempts >= MaxAttempts
  THEN [w EXCEPT !.status = "dead", !.lease = Null]
  ELSE [w EXCEPT !.status = "failed", !.lease = Null,
                 !.due = RetryBackoff(seen) - late]

-----------------------------------------------------------------------------
Init ==
  /\ row = [r \in Records |-> AbsentRow]
  /\ pc = [p \in Publishers |-> "idle"]
  /\ cancelled = [p \in Publishers |-> FALSE]
  /\ batch = [p \in Publishers |-> [r \in Records |-> 0]]
  /\ current = [p \in Publishers |-> Null]
  /\ dispatched = [r \in Records |-> {}]
  /\ delivered = {}
  /\ faults = 0

\* A business transaction that wrote record r commits.
Create(r) ==
  /\ row[r].status = "absent"
  /\ \E late \in 0 .. MaxLate : row' = [row EXCEPT ![r] = CreatedRow(late)]
  /\ UNCHANGED <<publisherVars, historyVars, faults>>

Fault == faults < MaxFaults /\ faults' = faults + 1

-----------------------------------------------------------------------------
(* ClaimPending. *)

\* Rows whose lock another publisher's UPDATE may hold while p's claim runs.
Locked(p) ==
  {current[q] : q \in {o \in Publishers \ {p} : pc[o] \in {"succeeded", "erred"}}}

\* ORDER BY available_at, created_at LIMIT batchSize; rows with the same
\* available_at come in any order.
Batches(candidates) ==
  {S \in SUBSET candidates :
     /\ Cardinality(S) = IF Cardinality(candidates) < BatchSize
                         THEN Cardinality(candidates) ELSE BatchSize
     /\ \A r \in S, q \in candidates \ S : row[r].due <= row[q].due}

ClaimRows(late, S) ==
  row' = [r \in Records |-> IF r \in S THEN ClaimedRow(row[r], late) ELSE row[r]]

\* The batches p's claim may take: FOR UPDATE SKIP LOCKED leaves out rows that
\* are locked at that moment.
ClaimChoices(p, late) ==
  UNION {Batches({r \in Records : Claimable(row[r], late)} \ skipped) :
           skipped \in SUBSET Locked(p)} \ {{}}

\* PublishOnce up to the loop.  A claim that returns no record changes nothing.
ClaimPending(p) ==
  /\ pc[p] = "idle"
  /\ ~cancelled[p]
  /\ \E late \in 0 .. MaxLate : \E S \in ClaimChoices(p, late) :
       /\ ClaimRows(late, S)
       /\ batch' = [batch EXCEPT ![p] =
                      [r \in Records |-> IF r \in S THEN row[r].attempts + 1 ELSE 0]]
  /\ pc' = [pc EXCEPT ![p] = "batch"]
  /\ UNCHANGED <<cancelled, current, historyVars, faults>>

\* The claim commits but PublishOnce gets an error (connection lost, or the
\* context cancelled, before the rows arrive): the records are claimed by nobody.
ClaimLost(p) ==
  /\ pc[p] = "idle"
  /\ Fault
  /\ \E late \in 0 .. MaxLate : \E S \in ClaimChoices(p, late) : ClaimRows(late, S)
  /\ UNCHANGED <<publisherVars, historyVars>>

-----------------------------------------------------------------------------
(* The loop of PublishOnce and dispatchRecord. *)

\* The goroutine forgets its batch and is at `to'.
Leave(p, to) ==
  /\ pc' = [pc EXCEPT ![p] = to]
  /\ batch' = [batch EXCEPT ![p] = [r \in Records |-> 0]]
  /\ current' = [current EXCEPT ![p] = Null]

\* The next iteration of the loop: the context is checked and Dispatch called.
\* RETURNING gives the records of the batch in no particular order.
StartDispatch(p, r) ==
  /\ pc[p] = "batch"
  /\ ~cancelled[p]
  /\ batch[p][r] > 0
  /\ pc' = [pc EXCEPT ![p] = "dispatching"]
  /\ current' = [current EXCEPT ![p] = r]
  /\ dispatched' = [dispatched EXCEPT ![r] = @ \cup {batch[p][r]}]
  /\ UNCHANGED <<row, cancelled, batch, delivered, faults>>

DispatchSucceeds(p) ==
  /\ pc[p] = "dispatching"
  /\ delivered' = delivered \cup {current[p]}
  /\ pc' = [pc EXCEPT ![p] = "succeeded"]
  /\ UNCHANGED <<row, cancelled, batch, current, dispatched, faults>>

\* Mutant: the error of Dispatch is dropped.
DispatchFails_Ignored(p) ==
  /\ pc[p] = "dispatching"
  /\ pc' = [pc EXCEPT ![p] = "succeeded"]
  /\ UNCHANGED <<row, cancelled, batch, current, dispatched, delivered, faults>>

\* Dispatch returns an error; the event may have got through all the same.
\* With a cancelled context nothing is marked and the rest of the batch is dropped.
DispatchFails(p) ==
  /\ pc[p] = "dispatching"
  /\ delivered' \in {delivered, delivered \cup {current[p]}}
  /\ IF cancelled[p]
     THEN Leave(p, "idle")
     ELSE pc' = [pc EXCEPT ![p] = "erred"] /\ UNCHANGED <<batch, current>>
  /\ UNCHANGED <<row, cancelled, dispatched, faults>>

\* p is done with its current record: next record, or end of PublishOnce.
FinishRecord(p) ==
  LET rest == [batch[p] EXCEPT ![current[p]] = 0]
  IN  /\ batch' = [batch EXCEPT ![p] = rest]
      /\ current' = [current EXCEPT ![p] = Null]
      /\ pc' = [pc EXCEPT ![p] = IF \A r \in Records : rest[r] = 0
                                 THEN "idle" ELSE "batch"]

MarkRow(p, marked) == row' = [row EXCEPT ![current[p]] = marked]

\* A mark whose statement succeeds.  pgx refuses to run one under a cancelled
\* context.
MarkPublished(p) ==
  /\ pc[p] = "succeeded"
  /\ ~cancelled[p]
  /\ MarkRow(p, PublishedRow(row[current[p]]))
  /\ FinishRecord(p)
  /\ UNCHANGED <<cancelled, historyVars, faults>>

MarkFailed(p) ==
  /\ pc[p] = "erred"
  /\ ~cancelled[p]
  /\ \E late \in 0 .. MaxLate :
       MarkRow(p, FailedRow(row[current[p]], batch[p][current[p]], late))
  /\ FinishRecord(p)
  /\ UNCHANGED <<cancelled, historyVars, faults>>

\* A mark that returns an error, before or after the UPDATE took effect:
\* PublishOnce returns it and drops the rest of the batch.
MarkErrors(p) ==
  /\ pc[p] \in {"succeeded", "erred"}
  /\ \/ Fault
     \/ cancelled[p] /\ UNCHANGED faults
  /\ \/ UNCHANGED row
     \/ pc[p] = "succeeded" /\ MarkRow(p, PublishedRow(row[current[p]]))
     \/ /\ pc[p] = "erred"
        /\ \E late \in 0 .. MaxLate :
             MarkRow(p, FailedRow(row[current[p]], batch[p][current[p]], late))
  /\ Leave(p, "idle")
  /\ UNCHANGED <<cancelled, historyVars>>

-----------------------------------------------------------------------------
(* Life of a publisher's process, and time. *)

\* Server.Close or a termination signal cancels the publisher's context.
Cancel(p) ==
  /\ pc[p] # "stopped"
  /\ ~cancelled[p]
  /\ Fault
  /\ cancelled' = [cancelled EXCEPT ![p] = TRUE]
  /\ UNCHANGED <<row, pc, batch, current, historyVars>>

\* Run, or the loop of PublishOnce, sees the cancelled context and returns.
Stop(p) ==
  /\ pc[p] \in {"idle", "batch"}
  /\ cancelled[p]
  /\ Leave(p, "stopped")
  /\ UNCHANGED <<row, cancelled, historyVars, faults>>

\* The process dies wherever it is.
Crash(p) ==
  /\ pc[p] # "stopped"
  /\ Fault
  /\ Leave(p, "stopped")
  /\ UNCHANGED <<row, cancelled, historyVars>>

\* A new server process starts its publisher.
Start(p) ==
  /\ pc[p] = "stopped"
  /\ pc' = [pc EXCEPT ![p] = "idle"]
  /\ cancelled' = [cancelled EXCEPT ![p] = FALSE]
  /\ UNCHANGED <<row, batch, current, historyVars, faults>>

Elapse(t) == IF t > -MaxLate THEN t - 1 ELSE t

Tick ==
  /\ row' = [r \in Records |->
               [row[r] EXCEPT !.due = Elapse(row[r].due),
                              !.lease = IF row[r].lease = Null THEN Null
                                        ELSE Elapse(row[r].lease)]]
  /\ UNCHANGED <<publisherVars, historyVars, faults>>

-----------------------------------------------------------------------------
Step(p) ==
  \/ ClaimPending(p)
  \/ \E r \in Records : StartDispatch(p, r)
  \/ DispatchSucceeds(p)
  \/ DispatchFails(p)
  \/ MarkPublished(p)
  \/ MarkFailed(p)
  \/ MarkErrors(p)
  \/ Stop(p)
  \/ Start(p)

Next ==
  \/ \E r \in Records : Create(r)
  \/ \E p \in Publishers : Step(p) \/ ClaimLost(p) \/ Cancel(p) \/ Crash(p)
  \/ Tick

Spec == Init /\ [][Next]_vars

\* Time passes; the goroutine of a running publisher is scheduled, the ticker of
\* Run fires, Dispatch returns in finite time (docs/architecture.md asks this of
\* dispatchers) and a stopped server is started again.  Nothing is assumed of
\* faults but that there are at most MaxFaults of them.
FairSpec == Spec /\ WF_vars(Tick) /\ \A p \in Publishers : WF_vars(Step(p))

-----------------------------------------------------------------------------
(* Properties. *)

TypeOK ==
  /\ row \in [Records -> Row]
  /\ pc \in [Publishers ->
              {"idle", "batch", "dispatching", "succeeded", "erred", "stopped"}]
  /\ cancelled \in [Publishers -> BOOLEAN]
  /\ batch \in [Publishers -> [Records -> Nat]]
  /\ current \in [Publishers -> Records \cup {Null}]
  /\ dispatched \in [Records -> SUBSET Nat]
  /\ delivered \in SUBSET Records
  /\ faults \in 0 .. MaxFaults

\* A processing record always carries the expiry of its claim, and no other
\* record does: whatever marks, reclaims, crashes and stale publishers do to a
\* row, ClaimPending can take it again once time has passed (outbox.go:69-90).
NoStrandedClaim ==
  \A r \in Records : row[r].status = "processing" <=> row[r].lease # Null

\* However leases expire and however late a publisher is, a claim (a record id
\* with the Attempts value ClaimPending returned) belongs to one publisher, and
\* is handed to Dispatch at most once (publisher.go:121-134).
ClaimDispatchedOnce ==
  \A p \in Publishers, r \in Records : batch[p][r] > 0 =>
    /\ \A q \in Publishers \ {p} : batch[q][r] # batch[p][r]
    /\ current[p] # r => batch[p][r] \notin dispatched[r]

\* A record the publisher gave up on, or one published at the last attempt.
Exhausted(w) == w.status \in {"dead", "published"} /\ w.attempts >= MaxAttempts

\* Dead records are not retried: once a record is dead no later mark by a slow
\* publisher makes it claimable, so its attempts never grow (outbox.go:136-145).
DeadNeverRetried ==
  [][\A r \in Records :
       /\ row[r].status = "dead" => Exhausted(row[r])
       /\ Exhausted(row[r]) =>
            Exhausted(row'[r]) /\ row'[r].attempts = row[r].attempts]_vars

\* At-least-once delivery: only committed records are dispatched, published_at
\* is set only after a dispatch of the record succeeded (publisher.go:136-137)
\* and is never cleared (COALESCE, outbox.go:122).
D == INSTANCE Delivery WITH
       accepted <- {r \in Records : row[r].status # "absent"},
       acknowledged <- {r \in Records : row[r].publishedAt}

ImplementsDelivery == D!DSpec

\* Once faults cease, every committed record is, for good, published or dead:
\* neither an abandoned batch nor a race of marks leaves it in limbo forever.
Settles ==
  \A r \in Records :
    row[r].status # "absent" ~> [](row[r].status \in {"published", "dead"})

\* Retries are spaced: however late the publisher's clock and however old its
\* view of the attempts, a record that a mark makes failed, or fails anew, is due
\* no sooner than the initial backoff from the publisher's `now' and no later than
\* the configured maximum (publisher.go:169-180, outbox.go:136-145).
RetrySpaced ==
  [][\A r \in Records :
       row'[r].status = "failed" /\ (row[r].status # "failed" \/ row'[r].due > row[r].due)
         => row'[r].due \in InitialBackoff - MaxLate .. MaxBackoff]_vars
=============================================================================
