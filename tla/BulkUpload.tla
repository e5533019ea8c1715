------------------------------ MODULE BulkUpload ------------------------------
(***************************************************************************)
(* The bulk-upload-service: one upload in standard mode, from the moment   *)
(* its record exists.  Workers claim it and submit its rows in batches;    *)
(* requests cancel, delete and retry it meanwhile.                         *)
(*                                                                         *)
(* The circuit breaker admits a chunk or not at any time; the rate limiter *)
(* only delays.  The result file and the audit events are left out.        *)
(***************************************************************************)
EXTENDS Integers, FiniteSets

CONSTANTS
  Rows,         \* rows of the file
  Blank,        \* rows without an eventType
  BatchSize,    \* app.workerBatchSize
  Concurrency,  \* app.workerConcurrency
  Worker,       \* processes that poll for uploads
  Request,      \* API requests, each made once at most
  MaxFaults     \* bound: crashes and failed queries

ASSUME UploadAssumption ==
  /\ Rows \in Nat \ {0}
  /\ Blank \subseteq 1 .. Rows
  /\ BatchSize \in Nat \ {0}
  /\ Concurrency \in Nat \ {0}
  /\ MaxFaults \in Nat

VARIABLES
  upload,     \* the record in uploads: status and counters
  row,        \* upload_rows.status; "NONE" before it is inserted, "GONE" once deleted
  accepted,   \* rows whose event the ingestion service has accepted
  worker,     \* the polling loop of each process
  request,    \* each API request
  faults

vars == <<upload, row, accepted, worker, request, faults>>

Row == 1 .. Rows
Counters == [succeeded : Nat, failed : Nat, processed : Nat]
Zero == [succeeded |-> 0, failed |-> 0, processed |-> 0]

\* VALID_TRANSITIONS of uploads.repository.ts, and a deleted record.
ValidTransitions ==
  [QUEUED     |-> {"PROCESSING", "CANCELLED"},
   PROCESSING |-> {"COMPLETED", "PARTIAL", "FAILED", "CANCELLED"},
   COMPLETED  |-> {},
   PARTIAL    |-> {"PROCESSING", "QUEUED"},
   FAILED     |-> {"PROCESSING", "QUEUED"},
   CANCELLED  |-> {},
   DELETED    |-> {}]
Status == DOMAIN ValidTransitions
Exists == upload.status # "DELETED"

RowsIn(statuses) == {r \in Row : row[r] \in statuses}

\* The n rows of S after the first k, in the order of their numbers.
Slice(S, k, n) == {r \in S : Cardinality({q \in S : q <= r}) \in k + 1 .. k + n}

\* UPDATE by id: without the row nothing happens.
WriteRow(r, status) ==
  row' = IF row[r] = "GONE" THEN row ELSE [row EXCEPT ![r] = status]

Fault == faults < MaxFaults /\ faults' = faults + 1

IdleWorker ==
  [pc |-> "idle", offset |-> 0, size |-> 0, batch |-> {}, task |-> [r \in Row |-> "none"],
   good |-> 0, bad |-> 0, copy |-> Zero, final |-> "COMPLETED"]

Init ==
  /\ upload = [status |-> "QUEUED", n |-> Zero]
  /\ row = [r \in Row |-> "NONE"]
  /\ accepted = {}
  /\ worker = [w \in Worker |-> IdleWorker]
  /\ request = [q \in Request |-> [st |-> "idle", copy |-> Zero]]
  /\ faults = 0

Goto(w, pc) == worker' = [worker EXCEPT ![w].pc = pc]
Leave(w) == worker' = [worker EXCEPT ![w] = IdleWorker]

-----------------------------------------------------------------------------
(***************************************************************************)
(* processUpload: claim, insert the rows unless there are some, run the    *)
(* batches, derive the final status from the rows and save it.             *)
(***************************************************************************)
\* Mutant: only uploads that were never started are claimed.
Claim_Fresh(w) ==
  /\ worker[w].pc = "idle"
  /\ upload.status = "QUEUED"
  /\ RowsIn({"NONE"}) = Row
  /\ upload' = [upload EXCEPT !.status = "PROCESSING"]
  /\ Goto(w, "insert")
  /\ UNCHANGED <<row, accepted, request, faults>>

Claim(w) ==
  /\ worker[w].pc = "idle"
  /\ upload.status = "QUEUED"
  /\ upload' = [upload EXCEPT !.status = "PROCESSING"]
  /\ Goto(w, "insert")
  /\ UNCHANGED <<row, accepted, request, faults>>

\* The answer of the claim is lost: the upload is claimed and nobody works on it.
ClaimLost(w) ==
  /\ worker[w].pc = "idle"
  /\ upload.status = "QUEUED"
  /\ Fault
  /\ upload' = [upload EXCEPT !.status = "PROCESSING"]
  /\ UNCHANGED <<row, accepted, worker, request>>

Inserted == [r \in Row |-> IF row[r] = "NONE" THEN "PENDING" ELSE row[r]]

\* countByStatus and insertAllRows; the file went with a deleted upload.
InsertRows(w) ==
  /\ worker[w].pc = "insert"
  /\ Goto(w, IF RowsIn({"GONE"}) = Row THEN "failRead" ELSE "loop")
  /\ row' = Inserted
  /\ UNCHANGED <<upload, accepted, request, faults>>

CheckCancelled(w) ==
  /\ worker[w].pc = "loop"
  /\ Goto(w, IF upload.status = "CANCELLED" THEN "count" ELSE "fetch")
  /\ UNCHANGED <<upload, row, accepted, request, faults>>

Fetched(w, batch) ==
  worker' = [worker EXCEPT ![w].pc = IF batch = {} THEN "count" ELSE "chunk",
                           ![w].batch = batch,
                           ![w].size = Cardinality(batch)]

\* Mutant: the rows are fetched whatever their status.
FetchBatch_AnyStatus(w) ==
  /\ worker[w].pc = "fetch"
  /\ Fetched(w, Slice(Row, worker[w].offset, BatchSize))
  /\ UNCHANGED <<upload, row, accepted, request, faults>>

\* findPendingBatch: the offset skips rows that are still pending.
FetchBatch(w) ==
  /\ worker[w].pc = "fetch"
  /\ Fetched(w, Slice(RowsIn({"PENDING"}), worker[w].offset, BatchSize))
  /\ UNCHANGED <<upload, row, accepted, request, faults>>

Settled(w) == worker[w].pc = "chunk" /\ \A r \in Row : worker[w].task[r] = "none"

\* Promise.allSettled over the next rows of the batch.
StartChunk(w) ==
  /\ Settled(w)
  /\ worker[w].batch # {}
  /\ LET chunk == Slice(worker[w].batch, 0, Concurrency)
     IN worker' = [worker EXCEPT ![w].batch = @ \ chunk,
                                 ![w].task = [r \in Row |-> IF r \in chunk THEN "begin" ELSE "none"]]
  /\ UNCHANGED <<upload, row, accepted, request, faults>>

\* The breaker is open, and still open after the cooldown.
BreakerOpen(w) ==
  /\ Settled(w)
  /\ worker[w].batch # {}
  /\ Goto(w, "skip")
  /\ UNCHANGED <<upload, row, accepted, request, faults>>

SkipRow(w) ==
  /\ worker[w].pc = "skip"
  /\ \E r \in Slice(worker[w].batch, 0, 1) :
       /\ WriteRow(r, "SKIPPED")
       /\ worker' = [worker EXCEPT ![w].batch = @ \ {r},
                                   ![w].bad = @ + 1,
                                   ![w].pc = IF worker[w].batch = {r} THEN "chunk" ELSE "skip"]
  /\ UNCHANGED <<upload, accepted, request, faults>>

-----------------------------------------------------------------------------
(***************************************************************************)
(* processRow.  A row without an eventType is skipped; any other is        *)
(* submitted, and its outcome stored.  A failed update of the row ends in  *)
(* the catch block, which stores FAILED; if that fails too, the row counts *)
(* as failed and stays as it is.                                           *)
(***************************************************************************)
Task(w, r, st) == worker' = [worker EXCEPT ![w].task[r] = st]
Good(w, r) == worker' = [worker EXCEPT ![w].task[r] = "none", ![w].good = @ + 1]
Bad(w, r)  == worker' = [worker EXCEPT ![w].task[r] = "none", ![w].bad = @ + 1]

SkipBlank(w, r) ==
  /\ worker[w].task[r] = "begin"
  /\ r \in Blank
  /\ WriteRow(r, "SKIPPED")
  /\ Bad(w, r)
  /\ UNCHANGED <<upload, accepted, request, faults>>

Submit(w, r) ==
  /\ worker[w].task[r] = "begin"
  /\ r \notin Blank
  /\ accepted' = accepted \cup {r}
  /\ Task(w, r, "accepted")
  /\ UNCHANGED <<upload, row, request, faults>>

\* Refused, or no answer in time although the event may have been accepted.
SubmitFails(w, r) ==
  /\ worker[w].task[r] = "begin"
  /\ r \notin Blank
  /\ accepted' \in {accepted, accepted \cup {r}}
  /\ Task(w, r, "refused")
  /\ UNCHANGED <<upload, row, request, faults>>

SaveSucceeded(w, r) ==
  /\ worker[w].task[r] = "accepted"
  /\ WriteRow(r, "SUCCEEDED")
  /\ Good(w, r)
  /\ UNCHANGED <<upload, accepted, request, faults>>

SaveFailed(w, r) ==
  /\ worker[w].task[r] \in {"refused", "caught"}
  /\ WriteRow(r, "FAILED")
  /\ Bad(w, r)
  /\ UNCHANGED <<upload, accepted, request, faults>>

\* The update that fails may have been carried out.
Intended(w, r) == CASE worker[w].task[r] = "begin" -> "SKIPPED"
                    [] worker[w].task[r] = "accepted" -> "SUCCEEDED"
                    [] OTHER -> "FAILED"

RowUpdateFails(w, r) ==
  /\ worker[w].task[r] \in {"accepted", "refused", "caught"}
       \cup (IF r \in Blank THEN {"begin"} ELSE {})
  /\ Fault
  /\ WriteRow(r, Intended(w, r)) \/ UNCHANGED row
  /\ IF worker[w].task[r] = "caught" THEN Bad(w, r) ELSE Task(w, r, "caught")
  /\ UNCHANGED <<upload, accepted, request>>

-----------------------------------------------------------------------------

\* updateCounters adds the outcomes of the batch; a full batch is followed by another.
Counted(w) == [succeeded |-> upload.n.succeeded + worker[w].good,
               failed    |-> upload.n.failed + worker[w].bad,
               processed |-> upload.n.processed + worker[w].good + worker[w].bad]

NextBatch(w) ==
  worker' = [worker EXCEPT ![w].pc = IF worker[w].size < BatchSize THEN "count" ELSE "loop",
                           ![w].offset = @ + worker[w].size,
                           ![w].size = 0, ![w].good = 0, ![w].bad = 0]

UpdateCounters(w) ==
  /\ Settled(w)
  /\ worker[w].batch = {}
  /\ upload' = IF Exists THEN [upload EXCEPT !.n = Counted(w)] ELSE upload
  /\ NextBatch(w)
  /\ UNCHANGED <<row, accepted, request, faults>>

FinalStatus == IF RowsIn({"FAILED", "SKIPPED"}) = {} THEN "COMPLETED"
               ELSE IF RowsIn({"SUCCEEDED"}) = {} THEN "FAILED"
               ELSE "PARTIAL"

CountByStatus(w) ==
  /\ worker[w].pc = "count"
  /\ worker' = [worker EXCEPT ![w].pc = "read", ![w].final = FinalStatus]
  /\ UNCHANGED <<upload, row, accepted, request, faults>>

ReadUpload(w) ==
  /\ worker[w].pc = "read"
  /\ IF Exists THEN worker' = [worker EXCEPT ![w].pc = "save", ![w].copy = upload.n] ELSE Leave(w)
  /\ UNCHANGED <<upload, row, accepted, request, faults>>

\* save writes every column of the entity that was read, and inserts a deleted record
\* again.
SaveFinal(w) ==
  /\ worker[w].pc = "save"
  /\ upload' = [status |-> worker[w].final, n |-> worker[w].copy]
  /\ Leave(w)
  /\ UNCHANGED <<row, accepted, request, faults>>

\* A query of processUpload fails and the catch block takes over; the query may have
\* been carried out.
Throws(w) ==
  /\ \/ worker[w].pc \in {"insert", "loop", "fetch", "skip", "count", "read", "save"}
     \/ Settled(w) /\ worker[w].batch = {}
  /\ Fault
  /\ \/ UNCHANGED <<upload, row>>
     \/ /\ worker[w].pc = "save"
        /\ upload' = [status |-> worker[w].final, n |-> worker[w].copy]
        /\ UNCHANGED row
     \/ /\ worker[w].pc = "chunk"
        /\ upload' = IF Exists THEN [upload EXCEPT !.n = Counted(w)] ELSE upload
        /\ UNCHANGED row
     \/ worker[w].pc = "insert" /\ row' = Inserted /\ UNCHANGED upload
     \/ /\ worker[w].pc = "skip"
        /\ \E r \in Slice(worker[w].batch, 0, 1) : WriteRow(r, "SKIPPED")
        /\ UNCHANGED upload
  /\ worker' = [worker EXCEPT ![w] = [IdleWorker EXCEPT !.pc = "failRead"]]
  /\ UNCHANGED <<accepted, request>>

\* updateStatus(FAILED): read, check the transition, save.
ReadForFailure(w) ==
  /\ worker[w].pc = "failRead"
  /\ IF "FAILED" \in ValidTransitions[upload.status]
     THEN worker' = [worker EXCEPT ![w].pc = "failSave", ![w].copy = upload.n]
     ELSE Leave(w)
  /\ UNCHANGED <<upload, row, accepted, request, faults>>

SaveFailure(w) ==
  /\ worker[w].pc = "failSave"
  /\ upload' = [status |-> "FAILED", n |-> worker[w].copy]
  /\ Leave(w)
  /\ UNCHANGED <<row, accepted, request, faults>>

\* Only logged: the upload stays as it is.
FailureLost(w) ==
  /\ worker[w].pc \in {"failRead", "failSave"}
  /\ Fault
  /\ Leave(w)
  /\ UNCHANGED <<upload, row, accepted, request>>

Crash(w) ==
  /\ worker[w].pc # "idle"
  /\ Fault
  /\ Leave(w)
  /\ UNCHANGED <<upload, row, accepted, request>>

-----------------------------------------------------------------------------
(***************************************************************************)
(* The API: cancelOrDelete and retryUpload.                                *)
(***************************************************************************)
Ask(q, st) == request' = [request EXCEPT ![q].st = st]
Answer(q) == request' = [request EXCEPT ![q] = [st |-> "done", copy |-> Zero]]

\* DELETE /uploads/:id
AskDelete(q) ==
  /\ request[q].st = "idle"
  /\ Exists
  /\ Ask(q, IF upload.status \in {"QUEUED", "PROCESSING"} THEN "cancelRead" ELSE "delete")
  /\ UNCHANGED <<upload, row, accepted, worker, faults>>

\* updateStatus(CANCELLED)
ReadForCancel(q) ==
  /\ request[q].st = "cancelRead"
  /\ IF "CANCELLED" \in ValidTransitions[upload.status]
     THEN request' = [request EXCEPT ![q] = [st |-> "cancelSave", copy |-> upload.n]]
     ELSE Answer(q)
  /\ UNCHANGED <<upload, row, accepted, worker, faults>>

SaveCancelled(q) ==
  /\ request[q].st = "cancelSave"
  /\ upload' = [status |-> "CANCELLED", n |-> request[q].copy]
  /\ Answer(q)
  /\ UNCHANGED <<row, accepted, worker, faults>>

\* The rows go with the record.
Delete(q) ==
  /\ request[q].st = "delete"
  /\ upload' = [status |-> "DELETED", n |-> Zero]
  /\ row' = [r \in Row |-> "GONE"]
  /\ Answer(q)
  /\ UNCHANGED <<accepted, worker, faults>>

\* POST /uploads/:id/retry
AskRetry(q) ==
  /\ request[q].st = "idle"
  /\ upload.status \in {"PARTIAL", "FAILED"}
  /\ request' = [request EXCEPT ![q] = [st |-> "reset", copy |-> upload.n]]
  /\ UNCHANGED <<upload, row, accepted, worker, faults>>

ResetFailedRows(q) ==
  /\ request[q].st = "reset"
  /\ row' = [r \in Row |-> IF row[r] \in {"FAILED", "SKIPPED"} THEN "PENDING" ELSE row[r]]
  /\ Ask(q, "requeue")
  /\ UNCHANGED <<upload, accepted, worker, faults>>

Requeue(q) ==
  /\ request[q].st = "requeue"
  /\ upload' = [status |-> "QUEUED",
                n |-> [request[q].copy EXCEPT !.processed = request[q].copy.succeeded, !.failed = 0]]
  /\ Answer(q)
  /\ UNCHANGED <<row, accepted, worker, faults>>

\* A query fails, or the process of the request stops.
RequestFails(q) ==
  /\ request[q].st \notin {"idle", "done"}
  /\ Answer(q)
  /\ UNCHANGED <<upload, row, accepted, worker, faults>>

-----------------------------------------------------------------------------

ProcessRow(w, r) ==
  \/ SkipBlank(w, r) \/ Submit(w, r) \/ SubmitFails(w, r)
  \/ SaveSucceeded(w, r) \/ SaveFailed(w, r) \/ RowUpdateFails(w, r)

ProcessUpload(w) ==
  \/ Claim(w) \/ ClaimLost(w) \/ InsertRows(w) \/ CheckCancelled(w) \/ FetchBatch(w)
  \/ StartChunk(w) \/ BreakerOpen(w) \/ SkipRow(w) \/ (\E r \in Row : ProcessRow(w, r))
  \/ UpdateCounters(w) \/ CountByStatus(w) \/ ReadUpload(w) \/ SaveFinal(w)
  \/ Throws(w) \/ ReadForFailure(w) \/ SaveFailure(w) \/ FailureLost(w)

Serve(q) ==
  \/ AskDelete(q) \/ ReadForCancel(q) \/ SaveCancelled(q) \/ Delete(q)
  \/ AskRetry(q) \/ ResetFailedRows(q) \/ Requeue(q) \/ RequestFails(q)

Next == \/ \E w \in Worker : ProcessUpload(w) \/ Crash(w)
        \/ \E q \in Request : Serve(q)

Spec == Init /\ [][Next]_vars

\* Workers keep polling, and every query and submission ends.
Fairness == \A w \in Worker : WF_vars(ProcessUpload(w))
FairSpec == Spec /\ Fairness

-----------------------------------------------------------------------------

Pc == {"idle", "insert", "loop", "fetch", "chunk", "skip", "count", "read", "save",
       "failRead", "failSave"}

RowStatus == {"NONE", "PENDING", "SUCCEEDED", "FAILED", "SKIPPED", "GONE"}
TaskState == {"none", "begin", "accepted", "refused", "caught"}
RequestState == {"idle", "cancelRead", "cancelSave", "delete", "reset", "requeue", "done"}
WorkerState == [pc : Pc, offset : Nat, size : 0 .. BatchSize, batch : SUBSET Row, task : [Row -> TaskState],
                good : 0 .. BatchSize, bad : 0 .. BatchSize, copy : Counters, final : Status]

\* The type invariant; a batch is never counted beyond its size.
TypeOK ==
  /\ upload \in [status : Status, n : Counters]
  /\ row \in [Row -> RowStatus]
  /\ accepted \subseteq Row
  /\ worker \in [Worker -> WorkerState]
  /\ request \in [Request -> [st : RequestState, copy : Counters]]
  /\ faults \in 0 .. MaxFaults

\* The documented aggregate: every writer of the counters, the ones that save an
\* entity read earlier included, keeps processed = succeeded + failed.
CountersAgree == upload.n.processed = upload.n.succeeded + upload.n.failed

\* No row is reported as succeeded that did not succeed, whatever is saved over the
\* counters.
CountedSucceeded ==
  RowsIn({"GONE"}) = {} => upload.n.succeeded <= Cardinality(RowsIn({"SUCCEEDED"}))

\* A row is marked SUCCEEDED only if its event was accepted.
SucceededIsAccepted == RowsIn({"SUCCEEDED"}) \subseteq accepted

\* What a worker is about to submit is still pending, although requests reset and
\* delete rows meanwhile: a succeeded row is not submitted again.
SubmitsPending ==
  \A w \in Worker, r \in Row :
    worker[w].task[r] = "begin" => row[r] \in {"PENDING", "GONE"}

\* COMPLETED hides no failed row.
CompletedIsClean == upload.status = "COMPLETED" => RowsIn({"FAILED", "SKIPPED"}) = {}

\* The counters, statuses and rows of an upload agree over claims, concurrent submissions, cancels, retries
\* and faults: what is counted as succeeded was accepted, and a clean completion leaves nothing behind.
RowsAccounted ==
  /\ TypeOK /\ CountersAgree /\ CountedSucceeded
  /\ SucceededIsAccepted /\ SubmitsPending /\ CompletedIsClean

\* Every upload is claimed and worked off, and its worker polls again.
ComesToRest ==
  <>[](upload.status # "QUEUED" /\ \A w \in Worker : worker[w].pc = "idle")

\* The documented meaning of completed: all rows were processed successfully.
CompletedMeansProcessed ==
  upload.status = "COMPLETED" => RowsIn({"SUCCEEDED", "GONE"}) = Row

=============================================================================
