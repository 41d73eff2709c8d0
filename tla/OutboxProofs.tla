---------------------------- MODULE OutboxProofs ----------------------------
(***************************************************************************)
(* Proofs about Outbox for every number of records, publishers and faults  *)
(* and every setting of the publisher's options.                           *)
(***************************************************************************)
EXTENDS Outbox, TLAPS

-----------------------------------------------------------------------------
(* The strengthening of the safety properties that the steps preserve. *)

\* A publisher has a current record exactly while it dispatches or marks it, the
\* record is part of its batch, and outside PublishOnce there is no batch.
BatchShape ==
  \A p \in Publishers :
    /\ pc[p] \in {"dispatching", "succeeded", "erred"} =>
         current[p] \in Records /\ batch[p][current[p]] > 0
    /\ pc[p] \notin {"dispatching", "succeeded", "erred"} => current[p] = Null
    /\ pc[p] \in {"idle", "stopped"} => \A r \in Records : batch[p][r] = 0

\* Attempts numbers the claims of a record.
ClaimNumbers ==
  \A r \in Records :
    /\ dispatched[r] \subseteq 1 .. row[r].attempts
    /\ row[r].status = "absent" => row[r].attempts = 0
    /\ \A p \in Publishers : batch[p][r] <= row[r].attempts

\* Acknowledgement follows delivery.
Acknowledged ==
  /\ \A r \in Records :
       /\ row[r].publishedAt => r \in delivered
       /\ row[r].status = "dead" => row[r].attempts >= MaxAttempts
       /\ r \in delivered => row[r].status # "absent"
  /\ \A p \in Publishers : pc[p] = "succeeded" => current[p] \in delivered

\* What every step preserves.
IInv == /\ TypeOK /\ NoStrandedClaim /\ ClaimDispatchedOnce
        /\ BatchShape /\ ClaimNumbers /\ Acknowledged

-----------------------------------------------------------------------------
(* What the statements do to a row. *)

\* retryBackoff never returns a zero, negative or over-long delay.
LEMMA BackoffRange ==
  ASSUME NEW n PROVE RetryBackoff(n) \in 1 .. MaxBackoff
BY OptionsAssumption DEF RetryBackoff

\* The row Create inserts.
LEMMA CreatedWrite ==
  ASSUME NEW late \in 0 .. MaxLate
  PROVE  /\ CreatedRow(late) \in Row
         /\ CreatedRow(late).status = "pending"
         /\ CreatedRow(late).attempts = 0
         /\ CreatedRow(late).lease = Null
         /\ CreatedRow(late).publishedAt = FALSE
<1>1. AbsentRow \in Row
  BY ModelAssumption DEF AbsentRow, Row, Status
<1>2. -late \in Int
  BY ModelAssumption
<1> QED BY <1>1, <1>2 DEF CreatedRow, AbsentRow, Row, Status

\* The row ClaimPending leaves of a row it takes.
LEMMA ClaimedWrite ==
  ASSUME NEW w \in Row, NEW late \in 0 .. MaxLate
  PROVE  /\ ClaimedRow(w, late) \in Row
         /\ ClaimedRow(w, late).status = "processing"
         /\ ClaimedRow(w, late).attempts = w.attempts + 1
         /\ ClaimedRow(w, late).lease # Null
         /\ ClaimedRow(w, late).publishedAt = w.publishedAt
<1>1. LeaseDuration - late \in Int /\ LeaseDuration - late # Null
  BY OptionsAssumption, ModelAssumption
<1>2. w.attempts \in Nat /\ w.attempts + 1 \in Nat
  BY DEF Row
<1>3. LeaseDuration - late \in Int \cup {Null}
  BY <1>1
<1>4. ClaimedRow(w, late) \in Row
  BY <1>2, <1>3 DEF ClaimedRow, Row, Status
<1>5. ClaimedRow(w, late).lease = LeaseDuration - late
  BY DEF ClaimedRow, Row
<1> QED BY <1>1, <1>4, <1>5 DEF ClaimedRow, Row

\* The row MarkPublished leaves.
LEMMA PublishedWrite ==
  ASSUME NEW w \in Row
  PROVE  /\ PublishedRow(w) \in Row
         /\ PublishedRow(w).status = "published"
         /\ PublishedRow(w).attempts = w.attempts
         /\ PublishedRow(w).lease = Null
         /\ PublishedRow(w).publishedAt = TRUE
BY DEF PublishedRow, Row, Status

\* The row MarkFailed leaves.
LEMMA FailedWrite ==
  ASSUME NEW w \in Row, NEW seen, NEW late \in 0 .. MaxLate
  PROVE  /\ FailedRow(w, seen, late) \in Row
         /\ FailedRow(w, seen, late).status =
              (IF w.attempts >= MaxAttempts THEN "dead" ELSE "failed")
         /\ FailedRow(w, seen, late).attempts = w.attempts
         /\ FailedRow(w, seen, late).lease = Null
         /\ FailedRow(w, seen, late).publishedAt = w.publishedAt
<1>1. RetryBackoff(seen) - late \in Int
  BY BackoffRange, OptionsAssumption, ModelAssumption
<1> QED BY <1>1 DEF FailedRow, Row, Status

\* A claim takes existing rows that are neither published nor dead.
LEMMA ClaimTakes ==
  ASSUME NEW p, NEW late, NEW S \in ClaimChoices(p, late)
  PROVE  /\ S \subseteq Records
         /\ \A r \in S : row[r].status \in {"pending", "failed", "processing"}
BY DEF ClaimChoices, Batches, Claimable

-----------------------------------------------------------------------------
(* The invariant is inductive. *)

LEMMA InvInit == Init => IInv
<1> SUFFICES ASSUME Init PROVE IInv
  OBVIOUS
<1>1. AbsentRow \in Row
  BY ModelAssumption DEF AbsentRow, Row, Status
<1>2. TypeOK
  BY <1>1, ModelAssumption DEF Init, TypeOK
<1>3. NoStrandedClaim /\ ClaimDispatchedOnce /\ BatchShape
  BY DEF Init, NoStrandedClaim, ClaimDispatchedOnce, BatchShape, AbsentRow
<1>4. ClaimNumbers /\ Acknowledged
  BY DEF Init, ClaimNumbers, Acknowledged, AbsentRow
<1> QED BY <1>2, <1>3, <1>4 DEF IInv

\* A committed business transaction adds a record.
LEMMA InvCreate ==
  ASSUME IInv, NEW r \in Records, Create(r) PROVE IInv'
<1>1. PICK late \in 0 .. MaxLate : row' = [row EXCEPT ![r] = CreatedRow(late)]
  BY DEF Create
<1>2. /\ CreatedRow(late) \in Row
      /\ CreatedRow(late).status = "pending"
      /\ CreatedRow(late).attempts = 0
      /\ CreatedRow(late).lease = Null
      /\ CreatedRow(late).publishedAt = FALSE
  BY CreatedWrite
<1> USE <1>1, <1>2 DEF IInv, TypeOK, Create, publisherVars, historyVars
<1>3. TypeOK'
  OBVIOUS
<1>4. NoStrandedClaim' /\ ClaimDispatchedOnce' /\ BatchShape'
  BY DEF NoStrandedClaim, ClaimDispatchedOnce, BatchShape
<1>5. ClaimNumbers' /\ Acknowledged'
  BY DEF ClaimNumbers, Acknowledged
<1> QED BY <1>3, <1>4, <1>5

\* The rows a claim leaves behind, for the two outcomes of the statement.
LEMMA ClaimedRows ==
  ASSUME TypeOK, NEW p \in Publishers, NEW late \in 0 .. MaxLate,
         NEW S \in ClaimChoices(p, late), ClaimRows(late, S)
  PROVE  /\ row' \in [Records -> Row]
         /\ \A r \in S : /\ row[r].status # "absent"
                          /\ row'[r].status = "processing"
                          /\ row'[r].attempts = row[r].attempts + 1
                          /\ row'[r].lease # Null
                          /\ row'[r].publishedAt = row[r].publishedAt
         /\ \A r \in Records \ S : row'[r] = row[r]
<1>1. \A r \in S : row[r] \in Row /\ r \in Records
  BY ClaimTakes DEF TypeOK
<1>2. \A r \in S : /\ ClaimedRow(row[r], late) \in Row
                   /\ ClaimedRow(row[r], late).status = "processing"
                   /\ ClaimedRow(row[r], late).attempts = row[r].attempts + 1
                   /\ ClaimedRow(row[r], late).lease # Null
                   /\ ClaimedRow(row[r], late).publishedAt = row[r].publishedAt
  BY <1>1, ClaimedWrite
<1>3. \A r \in S : row'[r] = ClaimedRow(row[r], late)
  BY <1>1 DEF ClaimRows
<1>4. \A r \in Records \ S : row'[r] = row[r]
  BY DEF ClaimRows
<1>5. row' \in [Records -> Row]
  BY <1>2 DEF ClaimRows, TypeOK
<1> QED BY <1>2, <1>3, <1>4, <1>5, ClaimTakes

LEMMA InvClaimPending ==
  ASSUME IInv, NEW p \in Publishers, ClaimPending(p) PROVE IInv'
<1> USE DEF IInv, TypeOK
<1>0. PICK late \in 0 .. MaxLate : \E S \in ClaimChoices(p, late) :
        /\ ClaimRows(late, S)
        /\ batch' = [batch EXCEPT ![p] =
                       [r \in Records |-> IF r \in S THEN row[r].attempts + 1 ELSE 0]]
  BY DEF ClaimPending
<1>1. PICK S \in ClaimChoices(p, late) :
        /\ ClaimRows(late, S)
        /\ batch' = [batch EXCEPT ![p] =
                       [r \in Records |-> IF r \in S THEN row[r].attempts + 1 ELSE 0]]
  BY <1>0
<1>2. /\ row' \in [Records -> Row]
      /\ \A r \in S : /\ row[r].status # "absent"
                       /\ row'[r].status = "processing"
                       /\ row'[r].attempts = row[r].attempts + 1
                       /\ row'[r].lease # Null
                       /\ row'[r].publishedAt = row[r].publishedAt
      /\ \A r \in Records \ S : row'[r] = row[r]
  BY <1>1, ClaimedRows
<1>3. S \subseteq Records
  BY ClaimTakes
<1>4. /\ pc[p] = "idle"
      /\ pc' = [pc EXCEPT ![p] = "batch"]
      /\ UNCHANGED <<cancelled, current, dispatched, delivered, faults>>
  BY DEF ClaimPending, historyVars
<1>5. \A r \in Records : row[r].attempts \in Nat /\ row[r].attempts + 1 \in Nat
  BY DEF Row
<1>6. TypeOK'
  BY <1>1, <1>2, <1>4, <1>5
<1>7. /\ \A r \in Records : batch'[p][r] = IF r \in S THEN row[r].attempts + 1 ELSE 0
      /\ \A q \in Publishers \ {p} : batch'[q] = batch[q]
  BY <1>1
<1>8. NoStrandedClaim'
  BY <1>2, <1>3 DEF NoStrandedClaim
<1>9. ClaimDispatchedOnce'
  <2> SUFFICES ASSUME NEW q \in Publishers, NEW r \in Records, batch'[q][r] > 0
               PROVE  /\ \A o \in Publishers \ {q} : batch'[o][r] # batch'[q][r]
                      /\ current'[q] # r => batch'[q][r] \notin dispatched'[r]
    BY DEF ClaimDispatchedOnce
  <2>1. /\ \A o \in Publishers : batch[o][r] \in Nat /\ batch[o][r] <= row[r].attempts
        /\ dispatched[r] \subseteq 1 .. row[r].attempts
    BY DEF ClaimNumbers
  <2>2. CASE q = p
    BY <2>1, <2>2, <1>4, <1>5, <1>7
  <2>3. CASE q # p
    BY <2>1, <2>3, <1>4, <1>5, <1>7 DEF ClaimDispatchedOnce
  <2> QED BY <2>2, <2>3
<1>10. BatchShape'
  BY <1>4, <1>7 DEF BatchShape
<1>11. ClaimNumbers'
  BY <1>2, <1>4, <1>5, <1>7, SMTT(30) DEF ClaimNumbers
<1>12. Acknowledged'
  BY <1>2, <1>4 DEF Acknowledged
<1> QED BY <1>6, <1>8, <1>9, <1>10, <1>11, <1>12

LEMMA InvClaimLost ==
  ASSUME IInv, NEW p \in Publishers, ClaimLost(p) PROVE IInv'
<1> USE DEF IInv, TypeOK
<1>0. PICK late \in 0 .. MaxLate : \E S \in ClaimChoices(p, late) : ClaimRows(late, S)
  BY DEF ClaimLost
<1>1. PICK S \in ClaimChoices(p, late) : ClaimRows(late, S)
  BY <1>0
<1>2. /\ row' \in [Records -> Row]
      /\ \A r \in S : /\ row[r].status # "absent"
                       /\ row'[r].status = "processing"
                       /\ row'[r].attempts = row[r].attempts + 1
                       /\ row'[r].lease # Null
                       /\ row'[r].publishedAt = row[r].publishedAt
      /\ \A r \in Records \ S : row'[r] = row[r]
  BY <1>1, ClaimedRows
<1>3. S \subseteq Records
  BY ClaimTakes
<1>4. /\ UNCHANGED <<pc, cancelled, batch, current, dispatched, delivered>>
      /\ faults' \in 0 .. MaxFaults
  BY ModelAssumption DEF ClaimLost, Fault, publisherVars, historyVars
<1>5. \A r \in Records : row[r].attempts \in Nat
  BY DEF Row
<1>6. TypeOK'
  BY <1>2, <1>4
<1>7. NoStrandedClaim'
  BY <1>2, <1>3 DEF NoStrandedClaim
<1>8. ClaimDispatchedOnce' /\ BatchShape'
  BY <1>4 DEF ClaimDispatchedOnce, BatchShape
<1>9. ClaimNumbers'
  BY <1>2, <1>4, <1>5 DEF ClaimNumbers
<1>10. Acknowledged'
  BY <1>2, <1>4 DEF Acknowledged
<1> QED BY <1>6, <1>7, <1>8, <1>9, <1>10

LEMMA InvStartDispatch ==
  ASSUME IInv, NEW p \in Publishers, NEW r \in Records, StartDispatch(p, r)
  PROVE  IInv'
<1> USE DEF IInv, TypeOK, StartDispatch
<1>1. TypeOK'
  OBVIOUS
<1>2. NoStrandedClaim' /\ BatchShape' /\ Acknowledged'
  <2>1. NoStrandedClaim'
    BY DEF NoStrandedClaim
  <2>2. BatchShape'
    BY DEF BatchShape
  <2>3. Acknowledged'
    BY DEF Acknowledged
  <2> QED BY <2>1, <2>2, <2>3
<1>3. ClaimDispatchedOnce'
  <2> SUFFICES ASSUME NEW q \in Publishers, NEW s \in Records, batch[q][s] > 0,
                      current'[q] # s
               PROVE  batch[q][s] \notin dispatched'[s]
    BY DEF ClaimDispatchedOnce
  <2>1. current[q] # s /\ (s = r => q # p)
    BY ModelAssumption DEF BatchShape
  <2> QED BY <2>1 DEF ClaimDispatchedOnce
<1>4. ClaimNumbers'
  <2>1. row[r].attempts \in Nat /\ batch[p][r] \in 1 .. row[r].attempts
    BY DEF ClaimNumbers, Row
  <2> QED BY <2>1 DEF ClaimNumbers
<1> QED BY <1>1, <1>2, <1>3, <1>4

LEMMA InvDispatchSucceeds ==
  ASSUME IInv, NEW p \in Publishers, DispatchSucceeds(p) PROVE IInv'
<1> USE DEF IInv, TypeOK, DispatchSucceeds
<1>1. /\ current[p] \in Records /\ batch[p][current[p]] > 0
      /\ row[current[p]].status # "absent"
  BY DEF BatchShape, ClaimNumbers
<1>2. TypeOK'
  BY <1>1
<1>3. NoStrandedClaim' /\ ClaimDispatchedOnce' /\ ClaimNumbers'
  BY DEF NoStrandedClaim, ClaimDispatchedOnce, ClaimNumbers
<1>4. BatchShape'
  BY <1>1 DEF BatchShape
<1>5. Acknowledged'
  BY <1>1 DEF Acknowledged
<1> QED BY <1>2, <1>3, <1>4, <1>5

\* Dropping a batch disturbs nothing but the publisher.
LEMMA AfterLeave ==
  ASSUME IInv, NEW p \in Publishers, NEW to \in {"idle", "stopped"}, Leave(p, to)
  PROVE  /\ pc' \in [Publishers ->
                      {"idle", "batch", "dispatching", "succeeded", "erred", "stopped"}]
         /\ batch' \in [Publishers -> [Records -> Nat]]
         /\ current' \in [Publishers -> Records \cup {Null}]
         /\ BatchShape'
         /\ pc'[p] = to
         /\ \A q \in Publishers \ {p} :
              pc'[q] = pc[q] /\ batch'[q] = batch[q] /\ current'[q] = current[q]
         /\ \A r \in Records : batch'[p][r] = 0
<1> USE DEF IInv, TypeOK, Leave
<1>1. /\ pc' \in [Publishers ->
                    {"idle", "batch", "dispatching", "succeeded", "erred", "stopped"}]
      /\ batch' \in [Publishers -> [Records -> Nat]]
      /\ current' \in [Publishers -> Records \cup {Null}]
  OBVIOUS
<1>2. /\ pc'[p] = to /\ current'[p] = Null
      /\ \A q \in Publishers \ {p} :
           pc'[q] = pc[q] /\ batch'[q] = batch[q] /\ current'[q] = current[q]
      /\ \A r \in Records : batch'[p][r] = 0
  OBVIOUS
<1>3. BatchShape'
  BY <1>2 DEF BatchShape
<1> QED BY <1>1, <1>2, <1>3

\* p drops its batch and no row changes: DispatchFails under a cancelled
\* context, Stop, Crash, and a mark that fails before its UPDATE.
LEMMA InvLeave ==
  ASSUME IInv, NEW p \in Publishers, NEW to \in {"idle", "stopped"}, Leave(p, to),
         UNCHANGED <<row, cancelled, dispatched>>, faults' \in 0 .. MaxFaults,
         delivered' \in {delivered, delivered \cup {current[p]}},
         delivered' # delivered => pc[p] = "dispatching"
  PROVE  IInv'
<1>1. delivered' # delivered =>
        current[p] \in Records /\ row[current[p]].status # "absent"
  BY DEF IInv, TypeOK, BatchShape, ClaimNumbers
<1>2. /\ \A q \in Publishers \ {p} :
           pc'[q] = pc[q] /\ batch'[q] = batch[q] /\ current'[q] = current[q]
      /\ \A r \in Records : batch'[p][r] = 0
      /\ pc'[p] = to
      /\ BatchShape'
  BY AfterLeave
<1>3. TypeOK'
  BY <1>1, AfterLeave DEF IInv, TypeOK
<1>4. NoStrandedClaim'
  BY DEF IInv, NoStrandedClaim
<1>5. ClaimDispatchedOnce'
  BY <1>2 DEF IInv, ClaimDispatchedOnce
<1>6. ClaimNumbers'
  BY <1>2 DEF IInv, TypeOK, ClaimNumbers, Row
<1>7. Acknowledged'
  BY <1>1, <1>2 DEF IInv, TypeOK, Acknowledged
<1> QED BY <1>2, <1>3, <1>4, <1>5, <1>6, <1>7 DEF IInv

LEMMA InvDispatchFails ==
  ASSUME IInv, NEW p \in Publishers, DispatchFails(p) PROVE IInv'
<1>1. CASE cancelled[p]
  BY <1>1, InvLeave DEF DispatchFails, IInv, TypeOK
<1>2. CASE ~cancelled[p]
  <2> USE <1>2 DEF IInv, TypeOK, DispatchFails
  <2>1. /\ current[p] \in Records /\ batch[p][current[p]] > 0
        /\ row[current[p]].status # "absent"
    BY DEF BatchShape, ClaimNumbers
  <2>2. TypeOK'
    BY <2>1
  <2>3. NoStrandedClaim' /\ ClaimDispatchedOnce' /\ ClaimNumbers'
    BY DEF NoStrandedClaim, ClaimDispatchedOnce, ClaimNumbers
  <2>4. BatchShape'
    BY <2>1 DEF BatchShape
  <2>5. Acknowledged'
    BY <2>1 DEF Acknowledged
  <2> QED BY <2>2, <2>3, <2>4, <2>5
<1> QED BY <1>1, <1>2

\* The two marks.
Marks(p) ==
  \/ pc[p] = "succeeded" /\ MarkRow(p, PublishedRow(row[current[p]]))
  \/ /\ pc[p] = "erred"
     /\ \E late \in 0 .. MaxLate :
          MarkRow(p, FailedRow(row[current[p]], batch[p][current[p]], late))

\* What a mark does to the table.
LEMMA MarkedRows ==
  ASSUME IInv, NEW p \in Publishers, Marks(p)
  PROVE  /\ row' \in [Records -> Row]
         /\ NoStrandedClaim'
         /\ \A r \in Records :
              /\ row'[r].attempts = row[r].attempts
              /\ row'[r].status = "absent" <=> row[r].status = "absent"
              /\ row'[r].publishedAt => r \in delivered
              /\ row'[r].status = "dead" => row'[r].attempts >= MaxAttempts
<1> USE DEF IInv
<1> DEFINE c == current[p]
<1>1. /\ c \in Records /\ row[c] \in Row
      /\ row[c].status # "absent"
      /\ pc[p] = "succeeded" => c \in delivered
  BY DEF Marks, TypeOK, BatchShape, ClaimNumbers, Acknowledged
<1>2. PICK w : row' = [row EXCEPT ![c] = w] /\
               \/ pc[p] = "succeeded" /\ w = PublishedRow(row[c])
               \/ \E late \in 0 .. MaxLate : w = FailedRow(row[c], batch[p][c], late)
  BY DEF Marks, MarkRow
<1>3. /\ w \in Row
      /\ w.status \in {"published", "failed", "dead"}
      /\ w.attempts = row[c].attempts
      /\ w.lease = Null
      /\ w.publishedAt => c \in delivered
      /\ w.status = "dead" => w.attempts >= MaxAttempts
  <2>1. CASE pc[p] = "succeeded" /\ w = PublishedRow(row[c])
    BY <2>1, <1>1, PublishedWrite
  <2>2. CASE \E late \in 0 .. MaxLate : w = FailedRow(row[c], batch[p][c], late)
    <3>1. PICK late \in 0 .. MaxLate : w = FailedRow(row[c], batch[p][c], late)
      BY <2>2
    <3> QED BY <3>1, <1>1, FailedWrite DEF Acknowledged
  <2> QED BY <1>2, <2>1, <2>2
<1>4. /\ row'[c] = w
      /\ \A r \in Records \ {c} : row'[r] = row[r]
      /\ row' \in [Records -> Row]
  BY <1>1, <1>2, <1>3 DEF TypeOK
<1>5. NoStrandedClaim'
  BY <1>3, <1>4 DEF NoStrandedClaim
<1> QED BY <1>1, <1>3, <1>4, <1>5 DEF Acknowledged

LEMMA InvMark ==
  ASSUME IInv, NEW p \in Publishers, MarkPublished(p) \/ MarkFailed(p) PROVE IInv'
<1>1. /\ pc[p] \in {"succeeded", "erred"}
      /\ Marks(p) /\ FinishRecord(p)
      /\ UNCHANGED <<cancelled, dispatched, delivered, faults>>
  BY DEF MarkPublished, MarkFailed, Marks, historyVars
<1>2. current[p] \in Records
  BY <1>1 DEF IInv, BatchShape
<1> DEFINE rest == [batch[p] EXCEPT ![current[p]] = 0]
<1>3. /\ rest \in [Records -> Nat]
      /\ \A r \in Records : rest[r] = IF r = current[p] THEN 0 ELSE batch[p][r]
  BY <1>2 DEF IInv, TypeOK
<1> HIDE DEF rest
<1>4. PICK to \in {"idle", "batch"} :
        /\ pc' = [pc EXCEPT ![p] = to]
        /\ to = "idle" => \A r \in Records : rest[r] = 0
  BY <1>1 DEF FinishRecord, rest
<1>5. batch' = [batch EXCEPT ![p] = rest] /\ current' = [current EXCEPT ![p] = Null]
  BY <1>1 DEF FinishRecord, rest
<1>6. TypeOK'
  BY <1>1, <1>3, <1>4, <1>5, MarkedRows DEF IInv, TypeOK
<1>7. /\ pc'[p] = to /\ current'[p] = Null /\ batch'[p] = rest
      /\ \A q \in Publishers \ {p} :
           pc'[q] = pc[q] /\ batch'[q] = batch[q] /\ current'[q] = current[q]
  BY <1>4, <1>5 DEF IInv, TypeOK
<1>8. BatchShape'
  BY <1>3, <1>4, <1>7 DEF IInv, BatchShape
<1>9. ClaimDispatchedOnce'
  <2> SUFFICES ASSUME NEW q \in Publishers, NEW r \in Records, batch'[q][r] > 0
               PROVE  /\ \A o \in Publishers \ {q} : batch'[o][r] # batch'[q][r]
                      /\ current'[q] # r => batch'[q][r] \notin dispatched'[r]
    BY DEF ClaimDispatchedOnce
  <2>1. batch'[q][r] = batch[q][r] /\ batch[q][r] > 0
    BY <1>3, <1>7
  <2>2. current'[q] # r => current[q] # r
    BY <1>3, <1>7, <2>1
  <2>3. \A o \in Publishers \ {q} : batch'[o][r] # batch'[q][r]
    BY <1>3, <1>7, <2>1 DEF IInv, ClaimDispatchedOnce
  <2> QED BY <1>1, <2>1, <2>2, <2>3 DEF IInv, ClaimDispatchedOnce
<1>10. ClaimNumbers'
  <2>1. \A r \in Records, q \in Publishers : batch'[q][r] <= row[r].attempts
    <3> SUFFICES ASSUME NEW r \in Records, NEW q \in Publishers
                 PROVE  batch'[q][r] <= row[r].attempts
      OBVIOUS
    <3>1. row[r].attempts \in Nat /\ batch[q][r] <= row[r].attempts
      BY DEF IInv, TypeOK, Row, ClaimNumbers
    <3>2. batch'[q][r] \in {0, batch[q][r]}
      BY <1>3, <1>7
    <3> QED BY <3>1, <3>2
  <2> QED BY <1>1, <2>1, MarkedRows DEF IInv, ClaimNumbers
<1>11. Acknowledged'
  BY <1>1, <1>7, MarkedRows DEF IInv, Acknowledged
<1> QED BY <1>1, <1>6, <1>8, <1>9, <1>10, <1>11, MarkedRows DEF IInv

LEMMA InvMarkErrors ==
  ASSUME IInv, NEW p \in Publishers, MarkErrors(p) PROVE IInv'
<1>1. /\ Leave(p, "idle")
      /\ UNCHANGED <<cancelled, dispatched, delivered>>
      /\ faults' \in 0 .. MaxFaults
  BY ModelAssumption DEF MarkErrors, Fault, historyVars, IInv, TypeOK
<1>2. CASE UNCHANGED row
  BY <1>1, <1>2, InvLeave
<1>3. CASE Marks(p)
  <2>1. /\ \A q \in Publishers \ {p} :
             pc'[q] = pc[q] /\ batch'[q] = batch[q] /\ current'[q] = current[q]
        /\ \A r \in Records : batch'[p][r] = 0
        /\ pc'[p] = "idle"
        /\ BatchShape'
    BY <1>1, AfterLeave
  <2>2. TypeOK'
    BY <1>1, <1>3, AfterLeave, MarkedRows DEF IInv, TypeOK
  <2>3. ClaimDispatchedOnce'
    BY <1>1, <2>1 DEF IInv, ClaimDispatchedOnce
  <2>4. ClaimNumbers'
    BY <1>1, <1>3, <2>1, MarkedRows DEF IInv, TypeOK, ClaimNumbers, Row
  <2>5. Acknowledged'
    BY <1>1, <1>3, <2>1, MarkedRows DEF IInv, Acknowledged
  <2> QED BY <1>3, <2>1, <2>2, <2>3, <2>4, <2>5, MarkedRows DEF IInv
<1> QED BY <1>2, <1>3 DEF MarkErrors, Marks

LEMMA InvProcess ==
  ASSUME IInv, NEW p \in Publishers,
         Cancel(p) \/ Stop(p) \/ Crash(p) \/ Start(p)
  PROVE  IInv'
<1>1. CASE Cancel(p)
  BY <1>1, ModelAssumption DEF IInv, TypeOK, NoStrandedClaim, ClaimDispatchedOnce,
     BatchShape, ClaimNumbers, Acknowledged, Cancel, Fault, historyVars
<1>2. CASE Stop(p)
  BY <1>2, InvLeave DEF Stop, historyVars, IInv, TypeOK
<1>3. CASE Crash(p)
  BY <1>3, InvLeave, ModelAssumption DEF Crash, Fault, historyVars, IInv, TypeOK
<1>4. CASE Start(p)
  <2> USE <1>4 DEF Start, historyVars, IInv, TypeOK
  <2>1. TypeOK' /\ BatchShape'
    BY DEF BatchShape
  <2>2. NoStrandedClaim' /\ ClaimDispatchedOnce' /\ ClaimNumbers' /\ Acknowledged'
    BY DEF NoStrandedClaim, ClaimDispatchedOnce, ClaimNumbers, Acknowledged
  <2> QED BY <2>1, <2>2
<1> QED BY <1>1, <1>2, <1>3, <1>4

\* Time changes nothing but due and lease, and leaves NULL leases NULL.
LEMMA TickedRows ==
  ASSUME TypeOK, Tick
  PROVE  /\ row' \in [Records -> Row]
         /\ \A r \in Records :
              /\ row'[r].status = row[r].status
              /\ row'[r].attempts = row[r].attempts
              /\ row'[r].publishedAt = row[r].publishedAt
              /\ row'[r].lease = Null <=> row[r].lease = Null
<1>1. \A t \in Int : Elapse(t) \in Int /\ Elapse(t) # Null
  BY ModelAssumption DEF Elapse
<1>2. \A r \in Records : row[r] \in Row
  BY DEF TypeOK
<1> DEFINE left(r) == IF row[r].lease = Null THEN Null ELSE Elapse(row[r].lease)
<1>3. \A r \in Records : /\ left(r) \in Int \cup {Null}
                         /\ left(r) = Null <=> row[r].lease = Null
                         /\ Elapse(row[r].due) \in Int
  BY <1>1, <1>2 DEF Row
<1>4. row' = [r \in Records |-> [row[r] EXCEPT !.due = Elapse(row[r].due),
                                             !.lease = left(r)]]
  BY DEF Tick
<1> HIDE DEF left
<1>5. \A r \in Records :
        /\ row'[r] \in Row
        /\ row'[r].status = row[r].status
        /\ row'[r].attempts = row[r].attempts
        /\ row'[r].publishedAt = row[r].publishedAt
        /\ row'[r].lease = left(r)
  BY <1>2, <1>3, <1>4 DEF Row
<1> QED BY <1>3, <1>4, <1>5

LEMMA InvTick == ASSUME IInv, Tick PROVE IInv'
<1>1. UNCHANGED <<pc, cancelled, batch, current, dispatched, delivered, faults>>
  BY DEF Tick, publisherVars, historyVars
<1>2. TypeOK'
  BY <1>1, TickedRows DEF IInv, TypeOK
<1>3. NoStrandedClaim' /\ ClaimNumbers'
  BY <1>1, TickedRows DEF IInv, NoStrandedClaim, ClaimNumbers
<1>4. ClaimDispatchedOnce' /\ BatchShape'
  BY <1>1 DEF IInv, ClaimDispatchedOnce, BatchShape
<1>5. Acknowledged'
  BY <1>1, TickedRows DEF IInv, Acknowledged
<1> QED BY <1>2, <1>3, <1>4, <1>5 DEF IInv

LEMMA InvNext == IInv /\ [Next]_vars => IInv'
<1> SUFFICES ASSUME IInv, [Next]_vars PROVE IInv'
  OBVIOUS
<1>1. CASE UNCHANGED vars
  BY <1>1 DEF vars, IInv, TypeOK, NoStrandedClaim, ClaimDispatchedOnce,
     BatchShape, ClaimNumbers, Acknowledged
<1>2. ASSUME NEW r \in Records, Create(r) PROVE IInv'
  BY <1>2, InvCreate
<1>3. ASSUME NEW p \in Publishers, Step(p) PROVE IInv'
  BY <1>3, InvClaimPending, InvStartDispatch, InvDispatchSucceeds, InvDispatchFails,
     InvMark, InvMarkErrors, InvProcess DEF Step
<1>4. ASSUME NEW p \in Publishers, ClaimLost(p) \/ Cancel(p) \/ Crash(p) PROVE IInv'
  BY <1>4, InvClaimLost, InvProcess
<1>5. CASE Tick
  BY <1>5, InvTick
<1> QED BY <1>1, <1>2, <1>3, <1>4, <1>5 DEF Next

-----------------------------------------------------------------------------
(* The theorems. *)

LEMMA Invariance == Spec => []IInv
BY InvInit, InvNext, PTL DEF Spec

\* Every variable keeps its type, whatever the options and however many
\* publishers, records and faults there are.
THEOREM TypeCorrect == Spec => []TypeOK
<1>1. IInv => TypeOK
  BY DEF IInv
<1> QED BY <1>1, Invariance, PTL

\* No mark, reclaim, crash or lost answer leaves a processing record without
\* the expiry that makes it claimable again.
THEOREM ClaimsExpire == Spec => []NoStrandedClaim
<1>1. IInv => NoStrandedClaim
  BY DEF IInv
<1> QED BY <1>1, Invariance, PTL

\* A claim has one owner and reaches Dispatch at most once.
THEOREM ClaimsDispatchOnce == Spec => []ClaimDispatchedOnce
<1>1. IInv => ClaimDispatchedOnce
  BY DEF IInv
<1> QED BY <1>1, Invariance, PTL

\* Dead records stay dead, or become published by a publisher that was late;
\* in neither case are they claimed again.
THEOREM DeadIsFinal == Spec => DeadNeverRetried
<1> DEFINE Kept(r) ==
      /\ row[r].status = "dead" => Exhausted(row[r])
      /\ Exhausted(row[r]) =>
           Exhausted(row'[r]) /\ row'[r].attempts = row[r].attempts
<1>1. ASSUME IInv, [Next]_vars, NEW r \in Records PROVE Kept(r)
  <2>1. /\ row[r] \in Row /\ row[r].attempts \in Nat
        /\ row[r].status = "dead" => Exhausted(row[r])
    BY <1>1 DEF IInv, TypeOK, Row, Acknowledged, Exhausted
  <2> SUFFICES ASSUME Exhausted(row[r])
               PROVE  Exhausted(row'[r]) /\ row'[r].attempts = row[r].attempts
    BY <2>1
  <2>2. CASE UNCHANGED row
    BY <2>2
  <2>3. ASSUME NEW s \in Records, Create(s)
        PROVE  Exhausted(row'[r]) /\ row'[r].attempts = row[r].attempts
    BY <2>3, <1>1 DEF Create, Exhausted, IInv, TypeOK
  <2>4. ASSUME NEW p \in Publishers, NEW late \in 0 .. MaxLate,
               NEW S \in ClaimChoices(p, late), ClaimRows(late, S)
        PROVE  Exhausted(row'[r]) /\ row'[r].attempts = row[r].attempts
    BY <2>4, ClaimTakes DEF ClaimRows, Exhausted
  <2>5. ASSUME NEW p \in Publishers, ClaimPending(p) \/ ClaimLost(p)
        PROVE  Exhausted(row'[r]) /\ row'[r].attempts = row[r].attempts
    BY <2>4, <2>5 DEF ClaimPending, ClaimLost
  <2>6. ASSUME NEW p \in Publishers, Marks(p)
        PROVE  Exhausted(row'[r]) /\ row'[r].attempts = row[r].attempts
    <3>1. current[p] \in Records
      BY <1>1, <2>6 DEF Marks, IInv, BatchShape
    <3>2. CASE r # current[p]
      BY <1>1, <2>6, <3>1, <3>2 DEF Marks, MarkRow, IInv, TypeOK
    <3>3. CASE r = current[p] /\ pc[p] = "succeeded"
      <4>1. row' = [row EXCEPT ![r] = PublishedRow(row[r])]
        BY <2>6, <3>3 DEF Marks, MarkRow
      <4>2. row'[r] = PublishedRow(row[r])
        BY <1>1, <4>1 DEF IInv, TypeOK
      <4> QED BY <2>1, <4>2, PublishedWrite DEF Exhausted
    <3>4. CASE r = current[p] /\ pc[p] = "erred"
      <4>1. PICK late \in 0 .. MaxLate :
              row' = [row EXCEPT ![r] = FailedRow(row[r], batch[p][r], late)]
        BY <2>6, <3>4 DEF Marks, MarkRow
      <4>2. row'[r] = FailedRow(row[r], batch[p][r], late)
        BY <1>1, <4>1 DEF IInv, TypeOK
      <4> QED BY <2>1, <4>2, FailedWrite DEF Exhausted
    <3> QED BY <2>6, <3>2, <3>3, <3>4 DEF Marks
  <2>7. CASE Tick
    BY <1>1, <2>7, TickedRows DEF IInv, Exhausted
  <2>8. ASSUME NEW p \in Publishers, Step(p) \/ ClaimLost(p) \/ Cancel(p) \/ Crash(p)
        PROVE  UNCHANGED row \/ ClaimPending(p) \/ ClaimLost(p) \/ Marks(p)
    BY <2>8 DEF Step, StartDispatch, DispatchSucceeds, DispatchFails, MarkPublished,
       MarkFailed, MarkErrors, Stop, Start, Cancel, Crash, Marks
  <2> QED BY <1>1, <2>2, <2>3, <2>5, <2>6, <2>7, <2>8 DEF Next, vars
<1>2. IInv /\ [Next]_vars => [\A r \in Records : Kept(r)]_vars
  BY <1>1
<1> QED BY <1>2, Invariance, PTL DEF Spec, DeadNeverRetried

-----------------------------------------------------------------------------
(* The outbox implements at-least-once delivery. *)

Accepted == {r \in Records : row[r].status # "absent"}
PublishedSet == {r \in Records : row[r].publishedAt}

\* A mark accepts nothing and acknowledges at most the record it marks, which
\* has been delivered.
LEMMA MarkAcknowledges ==
  ASSUME IInv, NEW p \in Publishers, Marks(p)
  PROVE  /\ Accepted' = Accepted
         /\ \/ PublishedSet' = PublishedSet
            \/ /\ current[p] \in delivered
               /\ PublishedSet' = PublishedSet \cup {current[p]}
<1>1. current[p] \in Records /\ row \in [Records -> Row]
  BY DEF Marks, IInv, TypeOK, BatchShape
<1>2. Accepted' = Accepted
  BY MarkedRows DEF Accepted
<1>3. CASE pc[p] = "succeeded"
  <2>1. row' = [row EXCEPT ![current[p]] = PublishedRow(row[current[p]])]
    BY <1>3 DEF Marks, MarkRow
  <2>2. row'[current[p]].publishedAt
    BY <1>1, <2>1, PublishedWrite
  <2>3. \A r \in Records \ {current[p]} : row'[r] = row[r]
    BY <1>1, <2>1
  <2> QED BY <1>1, <1>2, <1>3, <2>2, <2>3 DEF PublishedSet, IInv, Acknowledged
<1>4. CASE pc[p] = "erred"
  <2>1. PICK late \in 0 .. MaxLate :
          row' = [row EXCEPT ![current[p]] =
                    FailedRow(row[current[p]], batch[p][current[p]], late)]
    BY <1>4 DEF Marks, MarkRow
  <2>2. row'[current[p]].publishedAt = row[current[p]].publishedAt
    BY <1>1, <2>1, FailedWrite
  <2>3. \A r \in Records : row'[r].publishedAt = row[r].publishedAt
    BY <1>1, <2>1, <2>2
  <2> QED BY <1>2, <2>3 DEF PublishedSet
<1> QED BY <1>3, <1>4 DEF Marks

\* At-least-once delivery, for every configuration: an event is acknowledged
\* only after a successful dispatch, and for good.
THEOREM AtLeastOnce == Spec => ImplementsDelivery
<1>1. Init => D!DInit
  BY DEF Init, D!DInit, AbsentRow
<1>2. IInv /\ [Next]_vars => [D!DNext]_(D!dvars)
  <2> SUFFICES ASSUME IInv, [Next]_vars PROVE D!DNext \/ UNCHANGED D!dvars
    OBVIOUS
  <2> USE DEF D!dvars, D!DNext, D!Accept, D!Deliver, D!Acknowledge
  <2>1. CASE UNCHANGED vars
    BY <2>1 DEF vars
  <2>2. ASSUME NEW r \in Records, Create(r) PROVE D!Accept(r)
    <3>1. PICK late \in 0 .. MaxLate : row' = [row EXCEPT ![r] = CreatedRow(late)]
      BY <2>2 DEF Create
    <3>2. /\ row'[r].status = "pending" /\ ~row'[r].publishedAt
          /\ \A s \in Records \ {r} : row'[s] = row[s]
      BY <3>1, CreatedWrite DEF IInv, TypeOK
    <3>3. row[r].status = "absent" /\ ~row[r].publishedAt /\ UNCHANGED delivered
      BY <2>2 DEF Create, historyVars, IInv, Acknowledged
    <3> QED BY <3>2, <3>3
  <2>3. ASSUME NEW p \in Publishers, ClaimPending(p) \/ ClaimLost(p)
        PROVE  UNCHANGED D!dvars
    <3>0. PICK late \in 0 .. MaxLate : \E S \in ClaimChoices(p, late) : ClaimRows(late, S)
      BY <2>3 DEF ClaimPending, ClaimLost
    <3>1. PICK S \in ClaimChoices(p, late) : ClaimRows(late, S)
      BY <3>0
    <3>2. \A r \in Records : /\ row'[r].publishedAt = row[r].publishedAt
                             /\ row'[r].status # "absent" <=> row[r].status # "absent"
      BY <3>1, ClaimedRows DEF IInv
    <3>3. UNCHANGED delivered
      BY <2>3 DEF ClaimPending, ClaimLost, historyVars
    <3> QED BY <3>2, <3>3
  <2>4. ASSUME NEW p \in Publishers, DispatchSucceeds(p) \/ DispatchFails(p)
        PROVE  D!DNext \/ UNCHANGED D!dvars
    <3>1. current[p] \in Records /\ row[current[p]].status # "absent"
      BY <2>4 DEF DispatchSucceeds, DispatchFails, IInv, TypeOK, BatchShape, ClaimNumbers
    <3>2. /\ UNCHANGED row
          /\ delivered' \in {delivered, delivered \cup {current[p]}}
      BY <2>4 DEF DispatchSucceeds, DispatchFails
    <3>3. D!Deliver(current[p]) \/ UNCHANGED D!dvars
      BY <3>1, <3>2
    <3> QED BY <3>1, <3>3
  <2>5. ASSUME NEW p \in Publishers, Marks(p), UNCHANGED delivered
        PROVE  D!DNext \/ UNCHANGED D!dvars
    <3>1. D!Acknowledge(current[p]) \/ UNCHANGED D!dvars
      BY <2>5, MarkAcknowledges DEF Accepted, PublishedSet
    <3>2. current[p] \in Records
      BY <2>5 DEF Marks, IInv, BatchShape
    <3> QED BY <3>1, <3>2
  <2>6. CASE Tick
    BY <2>6, TickedRows DEF IInv, Tick, historyVars
  <2>7. ASSUME NEW p \in Publishers, Step(p) \/ ClaimLost(p) \/ Cancel(p) \/ Crash(p)
        PROVE  \/ UNCHANGED <<row, delivered>>
               \/ ClaimPending(p) \/ ClaimLost(p)
               \/ DispatchSucceeds(p) \/ DispatchFails(p)
               \/ Marks(p) /\ UNCHANGED delivered
    BY <2>7 DEF Step, StartDispatch, MarkPublished, MarkFailed, MarkErrors, Stop,
       Start, Cancel, Crash, Marks, historyVars
  <2>8. CASE UNCHANGED <<row, delivered>>
    BY <2>8
  <2> QED BY <2>1, <2>2, <2>3, <2>4, <2>5, <2>6, <2>7, <2>8 DEF Next
<1> QED BY <1>1, <1>2, Invariance, PTL DEF Spec, ImplementsDelivery, D!DSpec

-----------------------------------------------------------------------------
(* Retries are spaced. *)

\* Doubling never takes a positive backoff below the initial one, and neither
\* does the cap.
LEMMA BackoffSpaces ==
  ASSUME NEW n \in Nat PROVE RetryBackoff(n) \in InitialBackoff .. MaxBackoff
<1> DEFINE attempt == IF n < 1 THEN 1 ELSE n
           factor == 2 ^ (attempt - 1)
           backoff == InitialBackoff * factor
<1>1. attempt - 1 \in Nat
  OBVIOUS
<1>2. factor \in Int
  BY <1>1
<1>3. RetryBackoff(n) = IF backoff \in 1 .. MaxBackoff THEN backoff ELSE MaxBackoff
  BY DEF RetryBackoff
<1> HIDE DEF factor
<1>4. backoff >= 1 => backoff >= InitialBackoff
  <2>1. CASE factor >= 1
    BY <2>1, <1>2, OptionsAssumption
  <2>2. CASE factor <= 0
    BY <2>2, <1>2, OptionsAssumption
  <2> QED BY <1>2, <2>1, <2>2
<1>5. backoff \in Int
  BY <1>2, OptionsAssumption
<1> HIDE DEF backoff
<1> QED BY <1>3, <1>4, <1>5, OptionsAssumption

\* What MarkFailed writes into available_at.
LEMMA FailedDue ==
  ASSUME NEW w \in Row, NEW seen \in Nat, NEW late \in 0 .. MaxLate,
         FailedRow(w, seen, late).status = "failed"
  PROVE  FailedRow(w, seen, late).due \in InitialBackoff - MaxLate .. MaxBackoff
<1>1. w.attempts < MaxAttempts
  BY FailedWrite, OptionsAssumption DEF Row
<1>2. FailedRow(w, seen, late).due = RetryBackoff(seen) - late
  BY <1>1, OptionsAssumption DEF FailedRow, Row
<1> QED BY <1>2, BackoffSpaces, OptionsAssumption, ModelAssumption

\* Time only brings a record closer to its moment.
LEMMA TickedDue ==
  ASSUME TypeOK, Tick PROVE \A r \in Records : row'[r].due <= row[r].due
<1> SUFFICES ASSUME NEW r \in Records PROVE row'[r].due <= row[r].due
  OBVIOUS
<1>1. row[r] \in Row /\ row[r].due \in Int
  BY DEF TypeOK, Row
<1>2. row'[r].due = Elapse(row[r].due)
  BY <1>1 DEF Tick, Row
<1> QED BY <1>1, <1>2, ModelAssumption DEF Elapse

\* However late the publisher and however old its view, a failed record is due
\* again within the configured bounds of its backoff.
THEOREM RetriesAreSpaced == Spec => RetrySpaced
<1> DEFINE Spaced(r) ==
      row'[r].status = "failed" /\ (row[r].status # "failed" \/ row'[r].due > row[r].due)
        => row'[r].due \in InitialBackoff - MaxLate .. MaxBackoff
<1>1. ASSUME IInv, [Next]_vars, NEW r \in Records PROVE Spaced(r)
  <2>1. row[r] \in Row /\ row[r].due \in Int
    BY <1>1 DEF IInv, TypeOK, Row
  <2>2. CASE row'[r] = row[r]
    BY <2>1, <2>2
  <2>3. ASSUME NEW s \in Records, Create(s) PROVE Spaced(r)
    <3>1. PICK late \in 0 .. MaxLate : row' = [row EXCEPT ![s] = CreatedRow(late)]
      BY <2>3 DEF Create
    <3>2. CASE r = s
      <4>1. row'[r].status = "pending"
        BY <1>1, <3>1, <3>2, CreatedWrite DEF IInv, TypeOK
      <4> QED BY <4>1
    <3>3. CASE r # s
      BY <1>1, <2>2, <3>1, <3>3 DEF IInv, TypeOK
    <3> QED BY <3>2, <3>3
  <2>4. ASSUME NEW p \in Publishers, ClaimPending(p) \/ ClaimLost(p) PROVE Spaced(r)
    <3>1. PICK late \in 0 .. MaxLate : \E S \in ClaimChoices(p, late) : ClaimRows(late, S)
      BY <2>4 DEF ClaimPending, ClaimLost
    <3>2. PICK S \in ClaimChoices(p, late) : ClaimRows(late, S)
      BY <3>1
    <3>3. row'[r].status = "processing" \/ row'[r] = row[r]
      BY <1>1, <3>2, ClaimedRows DEF IInv
    <3> QED BY <2>2, <3>3
  <2>5. ASSUME NEW p \in Publishers, Marks(p) PROVE Spaced(r)
    <3>1. current[p] \in Records /\ row \in [Records -> Row] /\ batch[p][r] \in Nat
      BY <1>1, <2>5 DEF Marks, IInv, TypeOK, BatchShape
    <3>2. CASE r # current[p]
      <4>1. row'[r] = row[r]
        BY <2>5, <3>1, <3>2 DEF Marks, MarkRow
      <4> QED BY <2>2, <4>1
    <3>3. CASE r = current[p] /\ pc[p] = "succeeded"
      <4>1. row' = [row EXCEPT ![r] = PublishedRow(row[r])]
        BY <2>5, <3>3 DEF Marks, MarkRow
      <4>2. row'[r].status = "published"
        BY <2>1, <3>1, <4>1, PublishedWrite
      <4> QED BY <4>2
    <3>4. CASE r = current[p] /\ pc[p] = "erred"
      <4>1. PICK late \in 0 .. MaxLate :
              row' = [row EXCEPT ![r] = FailedRow(row[r], batch[p][r], late)]
        BY <2>5, <3>4 DEF Marks, MarkRow
      <4>2. row'[r] = FailedRow(row[r], batch[p][r], late)
        BY <3>1, <4>1
      <4> QED BY <2>1, <3>1, <4>2, FailedDue
    <3> QED BY <2>5, <3>2, <3>3, <3>4 DEF Marks
  <2>6. CASE Tick
    <3>1. row'[r].status = row[r].status /\ row'[r].due <= row[r].due
      BY <1>1, <2>6, TickedRows, TickedDue DEF IInv
    <3>2. row'[r].due \in Int
      BY <1>1, <2>6, TickedRows DEF IInv, Row
    <3> QED BY <2>1, <3>1, <3>2
  <2>7. ASSUME NEW p \in Publishers, Step(p) \/ ClaimLost(p) \/ Cancel(p) \/ Crash(p)
        PROVE  UNCHANGED row \/ ClaimPending(p) \/ ClaimLost(p) \/ Marks(p)
    BY <2>7 DEF Step, StartDispatch, DispatchSucceeds, DispatchFails, MarkPublished,
       MarkFailed, MarkErrors, Stop, Start, Cancel, Crash, Marks
  <2> QED BY <1>1, <2>2, <2>3, <2>4, <2>5, <2>6, <2>7 DEF Next, vars
<1>2. IInv /\ [Next]_vars => [\A r \in Records : Spaced(r)]_vars
  BY <1>1
<1> QED BY <1>2, Invariance, PTL DEF Spec, RetrySpaced

=============================================================================
