----------------------------- MODULE UploadProofs -----------------------------
(***************************************************************************)
(* Theorems about BulkUpload for every file, batch size, number of         *)
(* concurrent submissions, requests and faults.  What depends on who may   *)
(* write a row is proved for one polling process; the rest for any number. *)
(* Then, of ServiceBreakers, the breakers of its client and the engine's,  *)
(* and of BulkFiles the uploads in groups and the sheets.                  *)
(***************************************************************************)
EXTENDS BulkUpload, ServiceBreakers, BulkFiles, FiniteSetTheorems, TLAPS

\* The rows a worker is submitting, x being its record.
Working(x) == {r \in Row : x.task[r] # "none"}

\* Every row of a fetched batch is waiting, being submitted or counted, and outside a
\* batch nothing is.
Proper(x) ==
  /\ x.pc # "chunk" => Working(x) = {}
  /\ x.pc \notin {"chunk", "skip"} => x.size = 0
  /\ x.batch \cap Working(x) = {}
  /\ x.good + x.bad + Cardinality(x.batch) + Cardinality(Working(x)) <= x.size
Batches == \A w \in Worker : Proper(worker[w])

\* The counters of the record and every copy of them that a handler may save.
Copies == {upload.n} \cup {worker[w].copy : w \in Worker} \cup {request[q].copy : q \in Request}
CopiesAgree == \A k \in Copies : k.processed = k.succeeded + k.failed

AcceptedFirst == \A w \in Worker, r \in Row : worker[w].task[r] = "accepted" => r \in accepted

\* What holds for any number of workers.
SharedInv == TypeOK /\ Batches /\ CopiesAgree /\ SucceededIsAccepted /\ AcceptedFirst

\* The rows that stay succeeded: the update of any other may be repeated as FAILED.
Firm == {r \in RowsIn({"SUCCEEDED"}) : \A w \in Worker : worker[w].task[r] # "caught"}

\* Nobody but the worker moves the rows it has in hand, except back to pending or away.
InHand(x, r) == r \in x.batch \/ x.task[r] \in {"begin", "accepted", "refused"}
InHandPending == \A w \in Worker, r \in Row : InHand(worker[w], r) => row[r] \in {"PENDING", "GONE"}

\* No copy, however old, claims more successes than there are, the ones of the current
\* batch, not counted yet, set aside.
CopiesCounted ==
  RowsIn({"GONE"}) = {} =>
    \A k \in Copies, w \in Worker : k.succeeded + worker[w].good <= Cardinality(Firm)

\* COMPLETED is decided, and stays, only while no row has failed.
Concludes(w) == worker[w].pc \in {"read", "save"} /\ worker[w].final = "COMPLETED"
CleanEnd ==
  /\ upload.status = "COMPLETED" => \A w \in Worker : worker[w].pc \in {"idle", "failRead"}
  /\ (upload.status = "COMPLETED" \/ \E w \in Worker : Concludes(w)) => RowsIn({"FAILED", "SKIPPED"}) = {}

SoleInv == InHandPending /\ CopiesCounted /\ CleanEnd

IInv == SharedInv /\ SoleInv

-----------------------------------------------------------------------------

LEMMA FiniteRows ==
  ASSUME NEW S \in SUBSET Row
  PROVE  IsFiniteSet(S) /\ Cardinality(S) \in Nat
<1>1. 1 \in Int /\ Rows \in Int
  BY UploadAssumption
<1>2. IsFiniteSet(Row)
  BY <1>1, FS_Interval DEF Row
<1>3. IsFiniteSet(S)
  BY <1>2, FS_Subset
<1>4. QED
  BY <1>3, FS_CardinalityType

\* A slice is a part of the set it is cut from, of at most the length asked for: the
\* ranks of its rows differ.
LEMMA SliceSize ==
  ASSUME NEW S \in SUBSET Row, NEW k \in Nat, NEW n \in Nat
  PROVE  Slice(S, k, n) \subseteq S /\ Cardinality(Slice(S, k, n)) <= n
<1> DEFINE upTo(r) == {q \in S : q <= r}
           rank == [r \in Slice(S, k, n) |-> Cardinality(upTo(r))]
<1>1. Slice(S, k, n) \subseteq S /\ \A r \in S : r \in Int
  BY DEF Slice, Row
<1>2. \A r \in Slice(S, k, n) : rank[r] \in k + 1 .. k + n
  BY DEF Slice
<1>3. ASSUME NEW r \in Slice(S, k, n), NEW q \in Slice(S, k, n), q < r PROVE rank[q] # rank[r]
  <2>1. q \in Int /\ r \in Int
    BY <1>1
  <2>2. upTo(r) \in SUBSET Row /\ \A x \in S : x <= q => x <= r
    BY <1>1, <1>3, <2>1
  <2>3. upTo(q) \in SUBSET upTo(r)
    BY <2>2
  <2>4. r \in upTo(r) /\ r \notin upTo(q)
    BY <1>1, <1>3, <2>1
  <2>5. IsFiniteSet(upTo(r)) /\ upTo(q) # upTo(r)
    BY <2>2, <2>4, FiniteRows
  <2>6. Cardinality(upTo(q)) # Cardinality(upTo(r))
    BY <2>3, <2>5, FS_Subset
  <2>7. QED
    BY <2>6
<1>4. \A r, q \in Slice(S, k, n) : r # q => rank[r] # rank[q]
  <2>1. \A r, q \in Slice(S, k, n) : r # q => r < q \/ q < r
    <3>1. \A r, q \in Int : r # q => r < q \/ q < r
      OBVIOUS
    <3>2. QED
      BY <1>1, <3>1
  <2>2. QED
    BY <1>3, <2>1
<1>5. rank \in Injection(Slice(S, k, n), k + 1 .. k + n)
  <2>1. rank \in [Slice(S, k, n) -> k + 1 .. k + n]
    BY <1>2
  <2>2. QED
    BY <1>4, <2>1 DEF Injection, IsInjective
<1>6. IsFiniteSet(k + 1 .. k + n) /\ Cardinality(k + 1 .. k + n) = n
  <2>1. k + 1 \in Int /\ k + n \in Int
    OBVIOUS
  <2>2. /\ IsFiniteSet(k + 1 .. k + n)
        /\ Cardinality(k + 1 .. k + n) = IF k + 1 > k + n THEN 0 ELSE (k + n) - (k + 1) + 1
    BY <2>1, FS_Interval
  <2>3. QED
    BY <2>2
<1>7. QED
  BY <1>1, <1>5, <1>6, FS_Injection

\* Moving a part of the rows out of a set.
LEMMA Parted ==
  ASSUME NEW S \in SUBSET Row, NEW T \in SUBSET S
  PROVE  Cardinality(S \ T) + Cardinality(T) = Cardinality(S)
<1>1. S \cap T = T /\ T \in SUBSET Row
  OBVIOUS
<1>2. IsFiniteSet(S) /\ Cardinality(S) \in Nat /\ Cardinality(T) \in Nat
  BY <1>1, FiniteRows
<1>3. Cardinality(S \ T) = Cardinality(S) - Cardinality(S \cap T)
  BY <1>2, FS_Difference
<1>4. QED
  BY <1>1, <1>2, <1>3

-----------------------------------------------------------------------------

LEMMA Constants ==
  /\ BatchSize \in Nat /\ Concurrency \in Nat /\ MaxFaults \in Nat
  /\ Zero \in Counters
  /\ {"QUEUED", "PROCESSING", "COMPLETED", "PARTIAL", "FAILED", "CANCELLED", "DELETED"} \subseteq Status
  /\ IdleWorker \in WorkerState
<1>1. BatchSize \in Nat /\ Concurrency \in Nat /\ MaxFaults \in Nat
  BY UploadAssumption
<1>2. Zero \in Counters
  BY DEF Zero, Counters
<1>3. {"QUEUED", "PROCESSING", "COMPLETED", "PARTIAL", "FAILED", "CANCELLED", "DELETED"} \subseteq Status
  BY DEF Status, ValidTransitions
<1>4. QED
  BY <1>1, <1>2, <1>3 DEF IdleWorker, WorkerState, Pc, TaskState

\* The record of w becomes x and the others stay.
Becomes(w, x) ==
  /\ worker'[w] = x
  /\ worker' \in [Worker -> WorkerState]
  /\ \A v \in Worker : v # w => worker'[v] = worker[v]

LEMMA Moved ==
  ASSUME TypeOK, NEW w \in Worker, NEW x \in WorkerState, worker' = [worker EXCEPT ![w] = x]
  PROVE  Becomes(w, x)
BY DEF TypeOK, Becomes

LEMMA WentTo ==
  ASSUME TypeOK, NEW w \in Worker, NEW pc \in Pc, Goto(w, pc)
  PROVE  Becomes(w, [worker[w] EXCEPT !.pc = pc])
<1>1. PICK x : x = [worker[w] EXCEPT !.pc = pc]
  OBVIOUS
<1>2. x \in WorkerState
  BY <1>1 DEF TypeOK, WorkerState
<1>3. worker' = [worker EXCEPT ![w] = x]
  BY <1>1 DEF Goto
<1>4. QED
  BY <1>1, <1>2, <1>3, Moved

LEMMA Left ==
  ASSUME TypeOK, NEW w \in Worker, Leave(w)
  PROVE  Becomes(w, IdleWorker)
BY Constants, Moved DEF Leave

\* A submission goes on.
LEMMA Tasked ==
  ASSUME TypeOK, NEW w \in Worker, NEW r \in Row, NEW st \in TaskState, Task(w, r, st)
  PROVE  Becomes(w, [worker[w] EXCEPT !.task = [@ EXCEPT ![r] = st]])
<1>1. PICK x : x = [worker[w] EXCEPT !.task = [@ EXCEPT ![r] = st]]
  OBVIOUS
<1>2. x \in WorkerState
  BY <1>1 DEF TypeOK, WorkerState
<1>3. worker' = [worker EXCEPT ![w] = x]
  BY <1>1 DEF Task
<1>4. QED
  BY <1>1, <1>2, <1>3, Moved

LEMMA WorkerFields ==
  ASSUME TypeOK, NEW w \in Worker
  PROVE  worker[w] \in WorkerState
BY DEF TypeOK

\* The update of a row.
LEMMA Writes ==
  ASSUME TypeOK, NEW r \in Row, NEW st \in RowStatus, WriteRow(r, st)
  PROVE  /\ row' \in [Row -> RowStatus]
         /\ \A q \in Row : row'[q] = row[q] \/ (q = r /\ row[r] # "GONE" /\ row'[r] = st)
         /\ row[r] # "GONE" => row'[r] = st
<1>1. row \in [Row -> RowStatus]
  BY DEF TypeOK
<1>2. CASE row[r] = "GONE"
  BY <1>1, <1>2 DEF WriteRow
<1>3. CASE row[r] # "GONE"
  <2>1. row' = [row EXCEPT ![r] = st]
    BY <1>3 DEF WriteRow
  <2>2. QED
    BY <1>1, <1>3, <2>1
<1>4. QED
  BY <1>2, <1>3

\* A row in hand is not counted yet.
LEMMA Room ==
  ASSUME TypeOK, NEW w \in Worker, Proper(worker[w]), worker[w].batch # {} \/ Working(worker[w]) # {}
  PROVE  worker[w].good + 1 \in 0 .. BatchSize /\ worker[w].bad + 1 \in 0 .. BatchSize
<1> DEFINE b == Cardinality(worker[w].batch)
           t == Cardinality(Working(worker[w]))
<1>1. worker[w].batch \in SUBSET Row /\ Working(worker[w]) \in SUBSET Row
  BY WorkerFields DEF WorkerState, Working
<1>2. b \in Nat /\ t \in Nat /\ (b > 0 \/ t > 0)
  BY <1>1, FiniteRows, FS_EmptySet
<1>3. worker[w].good \in Nat /\ worker[w].bad \in Nat /\ worker[w].size \in Nat /\ worker[w].size <= BatchSize
  BY WorkerFields, Constants DEF WorkerState
<1>4. worker[w].good + worker[w].bad + b + t <= worker[w].size
  BY DEF Proper
<1>5. QED
  BY <1>2, <1>3, <1>4, Constants

-----------------------------------------------------------------------------

(***************************************************************************)
(* What each action does to its worker.                                    *)
(***************************************************************************)

LEMMA FetchedBatch ==
  ASSUME TypeOK, NEW w \in Worker, FetchBatch(w)
  PROVE  \E b \in SUBSET RowsIn({"PENDING"}) :
           /\ Cardinality(b) \in 0 .. BatchSize
           /\ Becomes(w, [worker[w] EXCEPT !.pc = IF b = {} THEN "count" ELSE "chunk",
                                           !.batch = b, !.size = Cardinality(b)])
<1>1. PICK b : b = Slice(RowsIn({"PENDING"}), worker[w].offset, BatchSize)
  OBVIOUS
<1>2. RowsIn({"PENDING"}) \in SUBSET Row /\ worker[w].offset \in Nat
  BY WorkerFields DEF RowsIn, WorkerState
<1>3. b \in SUBSET RowsIn({"PENDING"}) /\ b \in SUBSET Row /\ Cardinality(b) <= BatchSize
  BY <1>1, <1>2, Constants, SliceSize
<1>4. Cardinality(b) \in 0 .. BatchSize
  BY <1>3, FiniteRows, Constants
<1>5. PICK x : x = [worker[w] EXCEPT !.pc = IF b = {} THEN "count" ELSE "chunk",
                                     !.batch = b, !.size = Cardinality(b)]
  OBVIOUS
<1>6. x \in WorkerState
  BY <1>3, <1>4, <1>5, WorkerFields DEF WorkerState, Pc
<1>7. worker' = [worker EXCEPT ![w] = x]
  BY <1>1, <1>5 DEF FetchBatch, Fetched
<1>8. Becomes(w, x)
  BY <1>6, <1>7, Moved DEF Becomes
<1>9. QED
  BY <1>3, <1>4, <1>5, <1>8

LEMMA StartedChunk ==
  ASSUME TypeOK, NEW w \in Worker, StartChunk(w)
  PROVE  \E chunk \in SUBSET worker[w].batch :
           Becomes(w, [worker[w] EXCEPT !.batch = @ \ chunk,
                                        !.task = [r \in Row |-> IF r \in chunk THEN "begin" ELSE "none"]])
<1>1. PICK chunk : chunk = Slice(worker[w].batch, 0, Concurrency)
  OBVIOUS
<1>2. chunk \in SUBSET worker[w].batch
  BY <1>1 DEF Slice
<1>3. PICK x : x = [worker[w] EXCEPT !.batch = @ \ chunk,
                                     !.task = [r \in Row |-> IF r \in chunk THEN "begin" ELSE "none"]]
  OBVIOUS
<1>4. x \in WorkerState
  BY <1>2, <1>3, WorkerFields DEF WorkerState, TaskState
<1>5. worker' = [worker EXCEPT ![w] = x]
  BY <1>1, <1>3 DEF StartChunk
<1>6. QED
  BY <1>2, <1>3, <1>4, <1>5, Moved DEF Becomes

LEMMA SkippedRow ==
  ASSUME TypeOK, NEW w \in Worker, Proper(worker[w]), SkipRow(w)
  PROVE  \E r \in worker[w].batch :
           /\ WriteRow(r, "SKIPPED")
           /\ Becomes(w, [worker[w] EXCEPT !.batch = @ \ {r}, !.bad = @ + 1,
                                           !.pc = IF worker[w].batch = {r} THEN "chunk" ELSE "skip"])
<1>1. PICK r \in Slice(worker[w].batch, 0, 1) :
        /\ WriteRow(r, "SKIPPED")
        /\ worker' = [worker EXCEPT ![w].batch = @ \ {r},
                                    ![w].bad = @ + 1,
                                    ![w].pc = IF worker[w].batch = {r} THEN "chunk" ELSE "skip"]
  BY DEF SkipRow
<1>2. r \in worker[w].batch
  BY <1>1 DEF Slice
<1>3. PICK x : x = [worker[w] EXCEPT !.batch = @ \ {r}, !.bad = @ + 1,
                                     !.pc = IF worker[w].batch = {r} THEN "chunk" ELSE "skip"]
  OBVIOUS
<1>4. worker[w].bad + 1 \in 0 .. BatchSize
  BY <1>2, Room
<1>5. x \in WorkerState
  BY <1>3, <1>4, WorkerFields DEF WorkerState, Pc
<1>6. worker' = [worker EXCEPT ![w] = x]
  BY <1>1, <1>3
<1>7. QED
  BY <1>1, <1>2, <1>3, <1>5, <1>6, Moved DEF Becomes

\* The end of a submission, counted as succeeded or as failed.
LEMMA CountedRow ==
  ASSUME TypeOK, NEW w \in Worker, Proper(worker[w]), NEW r \in Row, worker[w].task[r] # "none"
  PROVE  /\ Good(w, r) => Becomes(w, [worker[w] EXCEPT !.task = [@ EXCEPT ![r] = "none"], !.good = @ + 1])
         /\ Bad(w, r) => Becomes(w, [worker[w] EXCEPT !.task = [@ EXCEPT ![r] = "none"], !.bad = @ + 1])
<1>1. worker[w].good + 1 \in 0 .. BatchSize /\ worker[w].bad + 1 \in 0 .. BatchSize
  BY Room DEF Working
<1>2. ASSUME Good(w, r)
      PROVE  Becomes(w, [worker[w] EXCEPT !.task = [@ EXCEPT ![r] = "none"], !.good = @ + 1])
  <2>1. PICK x : x = [worker[w] EXCEPT !.task = [@ EXCEPT ![r] = "none"], !.good = @ + 1]
    OBVIOUS
  <2>2. x \in WorkerState
    BY <1>1, <2>1, WorkerFields DEF WorkerState, TaskState
  <2>3. worker' = [worker EXCEPT ![w] = x]
    BY <1>2, <2>1 DEF Good
  <2>4. QED
    BY <2>1, <2>2, <2>3, Moved DEF Becomes
<1>3. ASSUME Bad(w, r)
      PROVE  Becomes(w, [worker[w] EXCEPT !.task = [@ EXCEPT ![r] = "none"], !.bad = @ + 1])
  <2>1. PICK x : x = [worker[w] EXCEPT !.task = [@ EXCEPT ![r] = "none"], !.bad = @ + 1]
    OBVIOUS
  <2>2. x \in WorkerState
    BY <1>1, <2>1, WorkerFields DEF WorkerState, TaskState
  <2>3. worker' = [worker EXCEPT ![w] = x]
    BY <1>3, <2>1 DEF Bad
  <2>4. QED
    BY <2>1, <2>2, <2>3, Moved DEF Becomes
<1>4. QED
  BY <1>2, <1>3

LEMMA NextedBatch ==
  ASSUME TypeOK, NEW w \in Worker, NextBatch(w)
  PROVE  Becomes(w, [worker[w] EXCEPT !.pc = IF worker[w].size < BatchSize THEN "count" ELSE "loop",
                                      !.offset = @ + worker[w].size, !.size = 0, !.good = 0, !.bad = 0])
<1>1. PICK pc \in Pc : pc = IF worker[w].size < BatchSize THEN "count" ELSE "loop"
  BY DEF Pc
<1>2. worker[w].offset + worker[w].size \in Nat /\ 0 \in 0 .. BatchSize
  BY WorkerFields, Constants DEF WorkerState
<1>3. PICK x : x = [worker[w] EXCEPT !.pc = pc, !.offset = @ + worker[w].size, !.size = 0, !.good = 0, !.bad = 0]
  OBVIOUS
<1>4. x \in WorkerState
  BY <1>2, <1>3, WorkerFields DEF WorkerState
<1>5. worker' = [worker EXCEPT ![w] = x]
  BY <1>1, <1>3 DEF NextBatch
<1>6. Becomes(w, x)
  BY <1>4, <1>5, Moved
<1>7. QED
  BY <1>1, <1>3, <1>6

\* The steps that keep a batch out of hand: to another await with another copy, final
\* status or nothing at all.
LEMMA Resumed ==
  ASSUME TypeOK, NEW w \in Worker
  PROVE  /\ CountByStatus(w) => Becomes(w, [worker[w] EXCEPT !.pc = "read", !.final = FinalStatus])
         /\ ReadUpload(w) => \/ Becomes(w, [worker[w] EXCEPT !.pc = "save", !.copy = upload.n])
                             \/ Becomes(w, IdleWorker)
         /\ ReadForFailure(w) => \/ Becomes(w, [worker[w] EXCEPT !.pc = "failSave", !.copy = upload.n])
                                 \/ Becomes(w, IdleWorker)
         /\ Throws(w) => Becomes(w, [IdleWorker EXCEPT !.pc = "failRead"])
<1>1. FinalStatus \in Status /\ upload.n \in Counters
  BY Constants DEF FinalStatus, TypeOK
<1>2. ASSUME NEW x \in WorkerState, worker' = [worker EXCEPT ![w] = x] PROVE Becomes(w, x)
  BY <1>2, Moved DEF Becomes
<1>3. [IdleWorker EXCEPT !.pc = "failRead"] \in WorkerState /\ IdleWorker \in WorkerState
  BY Constants DEF WorkerState, Pc
<1>4. \A pc \in Pc : /\ [worker[w] EXCEPT !.pc = pc, !.final = FinalStatus] \in WorkerState
                     /\ [worker[w] EXCEPT !.pc = pc, !.copy = upload.n] \in WorkerState
  BY <1>1, WorkerFields DEF WorkerState
<1>5. CountByStatus(w) => Becomes(w, [worker[w] EXCEPT !.pc = "read", !.final = FinalStatus])
  <2>1. PICK x : x = [worker[w] EXCEPT !.pc = "read", !.final = FinalStatus]
    OBVIOUS
  <2>2. CountByStatus(w) => worker' = [worker EXCEPT ![w] = x]
    BY <2>1 DEF CountByStatus
  <2>3. QED
    BY <1>2, <1>4, <2>1, <2>2 DEF Pc
<1>6. ASSUME ReadUpload(w)
      PROVE  \/ Becomes(w, [worker[w] EXCEPT !.pc = "save", !.copy = upload.n])
             \/ Becomes(w, IdleWorker)
  <2>1. PICK x : x = [worker[w] EXCEPT !.pc = "save", !.copy = upload.n]
    OBVIOUS
  <2>2. worker' = [worker EXCEPT ![w] = x] \/ worker' = [worker EXCEPT ![w] = IdleWorker]
    <3>1. CASE Exists
      BY <1>6, <2>1, <3>1 DEF ReadUpload
    <3>2. CASE ~ Exists
      BY <1>6, <3>2 DEF ReadUpload, Leave
    <3>3. QED
      BY <3>1, <3>2
  <2>3. QED
    BY <1>2, <1>3, <1>4, <2>1, <2>2 DEF Pc
<1>7. ASSUME ReadForFailure(w)
      PROVE  \/ Becomes(w, [worker[w] EXCEPT !.pc = "failSave", !.copy = upload.n])
             \/ Becomes(w, IdleWorker)
  <2>1. PICK x : x = [worker[w] EXCEPT !.pc = "failSave", !.copy = upload.n]
    OBVIOUS
  <2>2. worker' = [worker EXCEPT ![w] = x] \/ worker' = [worker EXCEPT ![w] = IdleWorker]
    BY <1>7, <2>1 DEF ReadForFailure, Leave
  <2>3. QED
    BY <1>2, <1>3, <1>4, <2>1, <2>2 DEF Pc
<1>8. Throws(w) => Becomes(w, [IdleWorker EXCEPT !.pc = "failRead"])
  BY <1>2, <1>3 DEF Throws
<1>9. QED
  BY <1>5, <1>6, <1>7, <1>8

\* What a worker does next: every step is one of these.
LEMMA WorkerSteps ==
  ASSUME TypeOK, NEW w \in Worker, Proper(worker[w]), ProcessUpload(w) \/ Crash(w)
  PROVE  worker' \in [Worker -> WorkerState] /\ \A v \in Worker : v # w => worker'[v] = worker[v]
<1>1. SUFFICES (\E x : Becomes(w, x)) \/ UNCHANGED worker
  BY DEF Becomes, TypeOK
<1>2. ASSUME Claim(w) \/ InsertRows(w) \/ CheckCancelled(w) \/ BreakerOpen(w) PROVE \E x : Becomes(w, x)
  <2>1. \E pc \in Pc : Goto(w, pc)
    BY <1>2 DEF Claim, InsertRows, CheckCancelled, BreakerOpen, Pc
  <2>2. QED
    BY <2>1, WentTo
<1>3. FetchBatch(w) \/ StartChunk(w) \/ SkipRow(w) => \E x : Becomes(w, x)
  BY FetchedBatch, StartedChunk, SkippedRow
<1>4. ASSUME NEW r \in Row, ProcessRow(w, r) PROVE \E x : Becomes(w, x)
  <2>1. worker[w].task[r] # "none" /\ (Good(w, r) \/ Bad(w, r) \/ \E st \in TaskState : Task(w, r, st))
    BY <1>4 DEF ProcessRow, SkipBlank, Submit, SubmitFails, SaveSucceeded, SaveFailed, RowUpdateFails, TaskState
  <2>2. QED
    BY <2>1, CountedRow, Tasked
<1>5. UpdateCounters(w) => \E x : Becomes(w, x)
  BY NextedBatch DEF UpdateCounters
<1>6. CountByStatus(w) \/ ReadUpload(w) \/ ReadForFailure(w) \/ Throws(w) => \E x : Becomes(w, x)
  BY Resumed
<1>7. SaveFinal(w) \/ SaveFailure(w) \/ FailureLost(w) \/ Crash(w) => \E x : Becomes(w, x)
  BY Left DEF SaveFinal, SaveFailure, FailureLost, Crash
<1>8. ClaimLost(w) => UNCHANGED worker
  BY DEF ClaimLost
<1>9. QED
  BY <1>2, <1>3, <1>4, <1>5, <1>6, <1>7, <1>8 DEF ProcessUpload

-----------------------------------------------------------------------------

LEMMA InitShared == Init => SharedInv
<1> SUFFICES ASSUME Init PROVE SharedInv
  OBVIOUS
<1>1. TypeOK
  BY Constants DEF Init, TypeOK, RowStatus, RequestState
<1>2. Batches
  <2>1. ASSUME NEW w \in Worker PROVE Proper(worker[w])
    <3>1. worker[w] = IdleWorker
      BY DEF Init
    <3>2. Working(worker[w]) = {} /\ worker[w].batch = {} /\ worker[w].size = 0 /\ worker[w].good = 0 /\ worker[w].bad = 0
      BY <3>1 DEF Working, IdleWorker
    <3>3. QED
      BY <3>2, FS_EmptySet DEF Proper
  <2>2. QED
    BY <2>1 DEF Batches
<1>3. CopiesAgree
  BY DEF Init, CopiesAgree, Copies, IdleWorker, Zero
<1>4. SucceededIsAccepted /\ AcceptedFirst
  BY DEF Init, SucceededIsAccepted, AcceptedFirst, RowsIn, IdleWorker
<1>5. QED
  BY <1>1, <1>2, <1>3, <1>4 DEF SharedInv

LEMMA WorkerKeeps ==
  ASSUME NEW w \in Worker, ProcessUpload(w) \/ Crash(w)
  PROVE  /\ UNCHANGED request
         /\ accepted' = accepted \/ \E r \in Row : accepted' = accepted \cup {r}
         /\ faults' = faults \/ (faults < MaxFaults /\ faults' = faults + 1)
BY DEF ProcessUpload, Claim, ClaimLost, InsertRows, CheckCancelled, FetchBatch, StartChunk, BreakerOpen, SkipRow,
       ProcessRow, SkipBlank, Submit, SubmitFails, SaveSucceeded, SaveFailed, RowUpdateFails, UpdateCounters,
       CountByStatus, ReadUpload, SaveFinal, Throws, ReadForFailure, SaveFailure, FailureLost, Crash, Fault

LEMMA RequestKeeps ==
  ASSUME NEW q \in Request, Serve(q)
  PROVE  UNCHANGED <<accepted, worker, faults>>
BY DEF Serve, AskDelete, ReadForCancel, SaveCancelled, Delete, AskRetry, ResetFailedRows, Requeue, RequestFails

LEMMA TypesStep ==
  ASSUME TypeOK, Batches, Next
  PROVE  TypeOK'
<1>1. worker' \in [Worker -> WorkerState]
  BY WorkerSteps DEF Next, Batches, TypeOK, Serve, AskDelete, ReadForCancel, SaveCancelled, Delete, AskRetry, ResetFailedRows,
    Requeue, RequestFails
<1>2. row' \in [Row -> RowStatus]
  <2>1. ASSUME NEW st \in RowStatus, NEW r \in Row, WriteRow(r, st) PROVE row' \in [Row -> RowStatus]
    BY <2>1, Writes
  <2>2. \A w \in Worker, r \in Row : Intended(w, r) \in RowStatus
    BY DEF Intended, RowStatus
  <2>3. \A w \in Worker : Slice(worker[w].batch, 0, 1) \subseteq Row
    BY WorkerFields DEF Slice, WorkerState
  <2>4. Inserted \in [Row -> RowStatus]
    BY DEF TypeOK, Inserted, RowStatus
  <2>5. ASSUME NEW w \in Worker, ProcessUpload(w) \/ Crash(w) PROVE row' \in [Row -> RowStatus]
    <3>1. CASE InsertRows(w) \/ SkipRow(w) \/ Throws(w)
      BY <2>1, <2>3, <2>4, <3>1 DEF InsertRows, SkipRow, Throws, RowStatus, TypeOK
    <3>2. ASSUME NEW r \in Row, ProcessRow(w, r) PROVE row' \in [Row -> RowStatus]
      BY <2>1, <2>2, <3>2
      DEF ProcessRow, SkipBlank, Submit, SubmitFails, SaveSucceeded, SaveFailed, RowUpdateFails, RowStatus, TypeOK
    <3>3. QED
      BY <2>5, <3>1, <3>2
      DEF ProcessUpload, Claim, ClaimLost, CheckCancelled, FetchBatch, StartChunk, BreakerOpen, UpdateCounters,
          CountByStatus, ReadUpload, SaveFinal, ReadForFailure, SaveFailure, FailureLost, Crash, TypeOK
  <2>6. ASSUME NEW q \in Request, Serve(q) PROVE row' \in [Row -> RowStatus]
    BY <2>6 DEF Serve, AskDelete, ReadForCancel, SaveCancelled, Delete, AskRetry, ResetFailedRows, Requeue, RequestFails,
      TypeOK, RowStatus
  <2>7. QED
    BY <2>5, <2>6 DEF Next
<1>3. upload' \in [status : Status, n : Counters]
  <2>1. ASSUME NEW w \in Worker, ProcessUpload(w) \/ Crash(w) PROVE upload' \in [status : Status, n : Counters]
    <3>1. worker[w].copy \in Counters /\ worker[w].final \in Status
      BY WorkerFields DEF WorkerState
    <3>2. Counted(w) \in Counters
      BY WorkerFields, Constants DEF WorkerState, TypeOK, Counted, Counters
    <3>3. CASE UpdateCounters(w) \/ SaveFinal(w) \/ Throws(w) \/ SaveFailure(w) \/ Claim(w) \/ ClaimLost(w)
      BY <3>1, <3>2, <3>3, Constants DEF UpdateCounters, SaveFinal, Throws, SaveFailure, Claim, ClaimLost, TypeOK
    <3>4. QED
      BY <2>1, <3>3
      DEF ProcessUpload, InsertRows, CheckCancelled, FetchBatch, StartChunk, BreakerOpen, SkipRow, ProcessRow, SkipBlank,
          Submit, SubmitFails, SaveSucceeded, SaveFailed, RowUpdateFails, CountByStatus, ReadUpload, ReadForFailure,
          FailureLost, Crash, TypeOK
  <2>2. ASSUME NEW q \in Request, Serve(q) PROVE upload' \in [status : Status, n : Counters]
    <3>1. request[q].copy \in Counters /\ upload \in [status : Status, n : Counters]
      BY DEF TypeOK
    <3>2. [request[q].copy EXCEPT !.processed = request[q].copy.succeeded, !.failed = 0] \in Counters
      BY <3>1 DEF Counters
    <3>3. CASE SaveCancelled(q) \/ Delete(q) \/ Requeue(q)
      BY <3>1, <3>2, <3>3, Constants DEF SaveCancelled, Delete, Requeue
    <3>4. QED
      BY <2>2, <3>1, <3>3 DEF Serve, AskDelete, ReadForCancel, AskRetry, ResetFailedRows, RequestFails
  <2>3. QED
    BY <2>1, <2>2 DEF Next
<1>4. request' \in [Request -> [st : RequestState, copy : Counters]]
  <2>1. ASSUME NEW q \in Request, Serve(q) PROVE request' \in [Request -> [st : RequestState, copy : Counters]]
    <3>1. upload.n \in Counters /\ request \in [Request -> [st : RequestState, copy : Counters]]
      BY DEF TypeOK
    <3>2. PICK x : x \in [st : RequestState, copy : Counters] /\ request' = [request EXCEPT ![q] = x]
      <4>1. \A st \in RequestState : [request[q] EXCEPT !.st = st] \in [st : RequestState, copy : Counters]
        BY <3>1
      <4>2. ASSUME NEW st \in RequestState, Ask(q, st) PROVE request' = [request EXCEPT ![q] = [request[q] EXCEPT !.st = st]]
        BY <3>1, <4>2 DEF Ask
      <4>3. CASE AskDelete(q) \/ ResetFailedRows(q)
        <5>1. \E st \in RequestState : Ask(q, st)
          BY <4>3 DEF AskDelete, ResetFailedRows, RequestState
        <5>2. QED
          BY <4>1, <4>2, <5>1
      <4>4. CASE ReadForCancel(q) \/ AskRetry(q)
        BY <3>1, <4>4, Constants DEF ReadForCancel, AskRetry, Answer, RequestState
      <4>5. CASE SaveCancelled(q) \/ Delete(q) \/ Requeue(q) \/ RequestFails(q)
        BY <3>1, <4>5, Constants DEF SaveCancelled, Delete, Requeue, RequestFails, Answer, RequestState
      <4>6. QED
        BY <2>1, <4>3, <4>4, <4>5 DEF Serve
    <3>3. QED
      BY <3>1, <3>2
  <2>2. QED
    BY <2>1, WorkerKeeps DEF Next, TypeOK
<1>5. accepted' \subseteq Row /\ faults' \in 0 .. MaxFaults
  BY WorkerKeeps, RequestKeeps, Constants DEF Next, TypeOK
<1>6. QED
  BY <1>1, <1>2, <1>3, <1>4, <1>5 DEF TypeOK

-----------------------------------------------------------------------------

LEMMA IdleIsProper == Proper(IdleWorker) /\ Proper([IdleWorker EXCEPT !.pc = "failRead"])
<1>1. Working(IdleWorker) = {} /\ Working([IdleWorker EXCEPT !.pc = "failRead"]) = {}
  BY DEF Working, IdleWorker
<1>2. QED
  BY <1>1, FS_EmptySet DEF Proper, IdleWorker

\* The numbers of a batch.
LEMMA Sizes ==
  ASSUME NEW x \in WorkerState
  PROVE  /\ x.good \in Nat /\ x.bad \in Nat /\ x.size \in Nat
         /\ x.batch \in SUBSET Row /\ IsFiniteSet(x.batch) /\ Cardinality(x.batch) \in Nat
         /\ Working(x) \in SUBSET Row /\ IsFiniteSet(Working(x)) /\ Cardinality(Working(x)) \in Nat
<1>1. x.batch \in SUBSET Row /\ Working(x) \in SUBSET Row
  BY DEF WorkerState, Working
<1>2. x.good \in Nat /\ x.bad \in Nat /\ x.size \in Nat
  BY Constants DEF WorkerState
<1>3. QED
  BY <1>1, <1>2, FiniteRows

\* Outside a batch every number is zero.
LEMMA NoBatch ==
  ASSUME NEW x \in WorkerState, Proper(x), x.size = 0
  PROVE  x.good = 0 /\ x.bad = 0 /\ x.batch = {} /\ Working(x) = {}
<1>1. x.good \in Nat /\ x.bad \in Nat /\ Cardinality(x.batch) \in Nat /\ Cardinality(Working(x)) \in Nat
  BY Sizes
<1>2. x.good + x.bad + Cardinality(x.batch) + Cardinality(Working(x)) <= 0
  BY DEF Proper
<1>3. x.good = 0 /\ x.bad = 0 /\ Cardinality(x.batch) = 0 /\ Cardinality(Working(x)) = 0
  BY <1>1, <1>2
<1>4. QED
  BY <1>3, Sizes, FS_EmptySet

\* Where nothing of a batch changes only the await matters.
LEMMA SameBatch ==
  ASSUME NEW x \in WorkerState, Proper(x), NEW y,
         y.size = x.size, y.batch = x.batch, y.task = x.task, y.good = x.good, y.bad = x.bad,
         y.pc # "chunk" => Working(x) = {},
         y.pc \notin {"chunk", "skip"} => x.size = 0
  PROVE  Proper(y)
<1>1. Working(y) = Working(x)
  BY DEF Working
<1>2. QED
  BY <1>1 DEF Proper

LEMMA BatchStep ==
  ASSUME TypeOK, NEW w \in Worker, Proper(worker[w]), ProcessUpload(w) \/ Crash(w)
  PROVE  Proper(worker'[w])
<1> DEFINE x == worker[w]
<1>0. x \in WorkerState
  BY WorkerFields
<1>1. ASSUME NEW pc \in Pc, Goto(w, pc), pc \notin {"chunk", "skip"}, x.pc \notin {"chunk", "skip"}
      PROVE  Proper(worker'[w])
  <2>1. worker'[w] = [x EXCEPT !.pc = pc]
    BY <1>1, WentTo DEF Becomes
  <2>2. x.size = 0 /\ Working(x) = {}
    BY <1>0, <1>1, NoBatch DEF Proper
  <2>3. QED
    BY <1>0, <1>1, <2>1, <2>2, SameBatch DEF WorkerState
<1>2. CASE Claim(w) \/ InsertRows(w) \/ CheckCancelled(w)
  BY <1>1, <1>2 DEF Claim, InsertRows, CheckCancelled, Pc
<1>3. CASE BreakerOpen(w)
  <2>1. worker'[w] = [x EXCEPT !.pc = "skip"]
    BY <1>3, WentTo DEF Becomes, BreakerOpen, Pc
  <2>2. Working(x) = {}
    BY <1>3 DEF BreakerOpen, Settled, Working
  <2>3. QED
    BY <1>0, <2>1, <2>2, SameBatch DEF WorkerState
<1>4. CASE FetchBatch(w)
  <2>1. PICK b \in SUBSET RowsIn({"PENDING"}) :
          /\ Cardinality(b) \in 0 .. BatchSize
          /\ worker'[w] = [x EXCEPT !.pc = IF b = {} THEN "count" ELSE "chunk", !.batch = b, !.size = Cardinality(b)]
    BY <1>4, FetchedBatch DEF Becomes
  <2>2. x.size = 0 /\ x.good = 0 /\ x.bad = 0 /\ Working(x) = {}
    BY <1>0, <1>4, NoBatch DEF FetchBatch, Proper
  <2>3. PICK y : y = worker'[w]
    OBVIOUS
  <2>4. /\ y.pc = IF b = {} THEN "count" ELSE "chunk"
        /\ y.batch = b /\ y.size = Cardinality(b) /\ y.good = 0 /\ y.bad = 0 /\ y.task = x.task
    BY <1>0, <2>1, <2>2, <2>3 DEF WorkerState
  <2>5. Working(y) = {}
    BY <2>2, <2>4 DEF Working
  <2>6. Cardinality(b) \in Nat /\ Cardinality({}) = 0
    BY <2>1, Constants, FS_EmptySet
  <2>7. Proper(y)
    <3>1. y.good + y.bad + Cardinality(y.batch) + Cardinality(Working(y)) <= y.size
      BY <2>4, <2>5, <2>6
    <3>2. y.pc \notin {"chunk", "skip"} => y.size = 0
      BY <2>4, <2>6
    <3>3. QED
      BY <2>5, <3>1, <3>2 DEF Proper
  <2>8. QED
    BY <2>3, <2>7
<1>5. CASE StartChunk(w)
  <2>1. PICK chunk \in SUBSET x.batch :
          worker'[w] = [x EXCEPT !.batch = @ \ chunk, !.task = [r \in Row |-> IF r \in chunk THEN "begin" ELSE "none"]]
    BY <1>5, StartedChunk DEF Becomes
  <2>2. PICK y : y = worker'[w]
    OBVIOUS
  <2>3. x.pc = "chunk" /\ Working(x) = {}
    BY <1>5 DEF StartChunk, Settled, Working
  <2>4. /\ y.pc = "chunk" /\ y.batch = x.batch \ chunk /\ y.size = x.size /\ y.good = x.good /\ y.bad = x.bad
        /\ y.task = [r \in Row |-> IF r \in chunk THEN "begin" ELSE "none"]
    BY <1>0, <2>1, <2>2, <2>3 DEF WorkerState
  <2>5. Working(y) = chunk
    BY <1>0, <2>4 DEF Working, WorkerState
  <2>6. Cardinality(x.batch \ chunk) + Cardinality(chunk) = Cardinality(x.batch)
    BY <1>0, Parted DEF WorkerState
  <2>7. /\ Cardinality(x.batch \ chunk) \in Nat /\ Cardinality(chunk) \in Nat
        /\ Cardinality(Working(x)) = 0
    BY <1>0, <2>3, FiniteRows, FS_EmptySet DEF WorkerState
  <2>8. x.good + x.bad + Cardinality(y.batch) + Cardinality(Working(y)) <= x.size
    BY <1>0, <2>4, <2>5, <2>6, <2>7, Sizes DEF Proper
  <2>9. QED
    BY <2>2, <2>4, <2>5, <2>8 DEF Proper
<1>6. CASE SkipRow(w)
  <2>1. PICK r \in x.batch :
          worker'[w] = [x EXCEPT !.batch = @ \ {r}, !.bad = @ + 1, !.pc = IF x.batch = {r} THEN "chunk" ELSE "skip"]
    BY <1>6, SkippedRow DEF Becomes
  <2>2. PICK y : y = worker'[w]
    OBVIOUS
  <2>3. /\ y.pc \in {"chunk", "skip"} /\ y.batch = x.batch \ {r} /\ y.size = x.size
        /\ y.good = x.good /\ y.bad = x.bad + 1 /\ y.task = x.task
    BY <1>0, <2>1, <2>2 DEF WorkerState
  <2>4. Working(x) = {} /\ Working(y) = {}
    BY <1>6, <2>3 DEF SkipRow, Proper, Working
  <2>5. Cardinality(x.batch \ {r}) = Cardinality(x.batch) - 1 /\ Cardinality({}) = 0
    BY <1>0, <2>1, Sizes, FS_RemoveElement, FS_EmptySet
  <2>6. y.good + y.bad + Cardinality(y.batch) + Cardinality(Working(y)) <= y.size
    BY <1>0, <2>3, <2>4, <2>5, Sizes DEF Proper
  <2>7. QED
    BY <2>2, <2>3, <2>4, <2>6 DEF Proper
<1>7. ASSUME NEW r \in Row, ProcessRow(w, r) PROVE Proper(worker'[w])
  <2>1. x.task[r] # "none" /\ r \in Working(x) /\ x.pc = "chunk"
    BY <1>7
    DEF ProcessRow, SkipBlank, Submit, SubmitFails, SaveSucceeded, SaveFailed, RowUpdateFails, Working, Proper
  <2>2. ASSUME NEW st \in TaskState, st # "none", Task(w, r, st) PROVE Proper(worker'[w])
    <3>1. PICK y : y = worker'[w]
      OBVIOUS
    <3>2. y = [x EXCEPT !.task = [@ EXCEPT ![r] = st]]
      BY <2>2, <3>1, Tasked DEF Becomes
    <3>3. /\ y.pc = x.pc /\ y.batch = x.batch /\ y.size = x.size /\ y.good = x.good /\ y.bad = x.bad
          /\ y.task = [x.task EXCEPT ![r] = st]
      BY <1>0, <3>2 DEF WorkerState
    <3>4. Working(y) = Working(x)
      BY <1>0, <2>1, <2>2, <3>3 DEF Working, WorkerState
    <3>5. QED
      BY <3>1, <3>3, <3>4 DEF Proper
  <2>3. ASSUME Good(w, r) \/ Bad(w, r) PROVE Proper(worker'[w])
    <3>1. PICK y : y = worker'[w]
      OBVIOUS
    <3>2. \/ y = [x EXCEPT !.task = [@ EXCEPT ![r] = "none"], !.good = @ + 1]
          \/ y = [x EXCEPT !.task = [@ EXCEPT ![r] = "none"], !.bad = @ + 1]
      BY <2>1, <2>3, <3>1, CountedRow DEF Becomes
    <3>3. /\ y.pc = x.pc /\ y.batch = x.batch /\ y.size = x.size
          /\ y.task = [x.task EXCEPT ![r] = "none"]
          /\ (y.good = x.good + 1 /\ y.bad = x.bad) \/ (y.good = x.good /\ y.bad = x.bad + 1)
      BY <1>0, <3>2 DEF WorkerState
    <3>4. Working(y) = Working(x) \ {r}
      BY <1>0, <2>1, <3>3 DEF Working, WorkerState
    <3>5. Cardinality(Working(y)) = Cardinality(Working(x)) - 1
      <4>1. IsFiniteSet(Working(x))
        BY <1>0, Sizes
      <4>2. QED
        BY <2>1, <3>4, <4>1, FS_RemoveElement
    <3>6. y.good + y.bad + Cardinality(y.batch) + Cardinality(Working(y)) <= y.size
      BY <1>0, <3>3, <3>5, Sizes DEF Proper
    <3>7. QED
      BY <2>1, <3>1, <3>3, <3>4, <3>6 DEF Proper
  <2>4. QED
    BY <1>7, <2>2, <2>3
    DEF ProcessRow, SkipBlank, Submit, SubmitFails, SaveSucceeded, SaveFailed, RowUpdateFails, TaskState
<1>8. CASE UpdateCounters(w)
  <2>1. PICK y : y = worker'[w]
    OBVIOUS
  <2>2. /\ y.pc \in {"count", "loop"} /\ y.batch = x.batch /\ y.task = x.task
        /\ y.size = 0 /\ y.good = 0 /\ y.bad = 0
    <3>1. PICK pc \in {"count", "loop"} :
            y = [x EXCEPT !.pc = pc, !.offset = @ + x.size, !.size = 0, !.good = 0, !.bad = 0]
      BY <1>8, <2>1, NextedBatch DEF UpdateCounters, Becomes
    <3>2. QED
      BY <1>0, <3>1 DEF WorkerState
  <2>3. Working(y) = {} /\ y.batch = {}
    BY <1>8, <2>2 DEF UpdateCounters, Settled, Working
  <2>4. QED
    BY <2>1, <2>2, <2>3, FS_EmptySet DEF Proper
<1>9. CASE CountByStatus(w) \/ ReadUpload(w) \/ ReadForFailure(w)
  <2>1. PICK y : y = worker'[w]
    OBVIOUS
  <2>2. x.size = 0 /\ Working(x) = {}
    BY <1>0, <1>9, NoBatch DEF CountByStatus, ReadUpload, ReadForFailure, Proper
  <2>3. \/ y = IdleWorker
        \/ /\ y.pc \in {"read", "save", "failSave"} /\ y.batch = x.batch /\ y.task = x.task
           /\ y.size = x.size /\ y.good = x.good /\ y.bad = x.bad
    BY <1>0, <1>9, <2>1, Resumed DEF Becomes, WorkerState
  <2>4. QED
    BY <1>0, <2>1, <2>2, <2>3, SameBatch, IdleIsProper
<1>10. CASE SaveFinal(w) \/ Throws(w) \/ SaveFailure(w) \/ FailureLost(w) \/ Crash(w)
  BY <1>10, Left, Resumed, IdleIsProper DEF SaveFinal, SaveFailure, FailureLost, Crash, Becomes
<1>11. CASE ClaimLost(w)
  BY <1>11 DEF ClaimLost
<1>12. QED
  BY <1>2, <1>3, <1>4, <1>5, <1>6, <1>7, <1>8, <1>9, <1>10, <1>11 DEF ProcessUpload

LEMMA BatchesStep ==
  ASSUME TypeOK, Batches, Next
  PROVE  Batches'
<1>1. ASSUME NEW w \in Worker, ProcessUpload(w) \/ Crash(w), NEW v \in Worker PROVE Proper(worker'[v])
  BY <1>1, BatchStep, WorkerSteps DEF Batches
<1>2. QED
  BY <1>1, RequestKeeps DEF Next, Batches

-----------------------------------------------------------------------------

LEMMA RowSteps ==
  ASSUME TypeOK, NEW w \in Worker, ProcessUpload(w) \/ Crash(w), NEW r \in Row
  PROVE  \/ row'[r] = row[r]
         \/ row[r] = "NONE" /\ row'[r] = "PENDING"
         \/ row[r] # "GONE" /\ r \in worker[w].batch /\ row'[r] = "SKIPPED"
         \/ row[r] # "GONE" /\ worker[w].task[r] = "accepted" /\ row'[r] = "SUCCEEDED"
         \/ row[r] # "GONE" /\ worker[w].task[r] \in {"begin", "refused", "caught"} /\ row'[r] \in {"SKIPPED", "FAILED"}
<1>1. CASE row' = Inserted
  BY <1>1 DEF Inserted, TypeOK
<1>2. ASSUME NEW q \in Slice(worker[w].batch, 0, 1), WriteRow(q, "SKIPPED")
      PROVE  row'[r] = row[r] \/ (row[r] # "GONE" /\ r \in worker[w].batch /\ row'[r] = "SKIPPED")
  <2>1. q \in worker[w].batch /\ q \in Row
    BY WorkerFields DEF Slice, WorkerState
  <2>2. QED
    BY <1>2, <2>1, Writes DEF RowStatus
<1>3. ASSUME NEW q \in Row, ProcessRow(w, q)
      PROVE  \/ row'[r] = row[r]
             \/ row[r] # "GONE" /\ worker[w].task[r] = "accepted" /\ row'[r] = "SUCCEEDED"
             \/ /\ row[r] # "GONE" /\ worker[w].task[r] \in {"begin", "refused", "caught"}
                /\ row'[r] \in {"SKIPPED", "FAILED"}
  <2>1. ASSUME NEW st \in {"SUCCEEDED", "SKIPPED", "FAILED"}, WriteRow(q, st)
        PROVE  row'[r] = row[r] \/ (r = q /\ row[r] # "GONE" /\ row'[r] = st)
    BY <2>1, Writes DEF RowStatus
  <2>2. CASE SkipBlank(w, q) \/ SaveSucceeded(w, q) \/ SaveFailed(w, q)
    BY <2>1, <2>2 DEF SkipBlank, SaveSucceeded, SaveFailed
  <2>3. CASE RowUpdateFails(w, q)
    <3>1. worker[w].task[q] \in {"begin", "accepted", "refused", "caught"}
      BY <2>3 DEF RowUpdateFails
    <3>2. Intended(w, q) \in {"SUCCEEDED", "SKIPPED", "FAILED"}
      BY DEF Intended
    <3>3. Intended(w, q) = IF worker[w].task[q] = "begin" THEN "SKIPPED"
                           ELSE IF worker[w].task[q] = "accepted" THEN "SUCCEEDED" ELSE "FAILED"
      BY <3>1 DEF Intended
    <3>4. QED
      BY <2>1, <2>3, <3>1, <3>2, <3>3 DEF RowUpdateFails
  <2>4. QED
    BY <1>3, <2>2, <2>3 DEF ProcessRow, Submit, SubmitFails
<1>4. QED
  BY <1>1, <1>2, <1>3
  DEF ProcessUpload, Claim, ClaimLost, InsertRows, CheckCancelled, FetchBatch, StartChunk, BreakerOpen, SkipRow,
      UpdateCounters, CountByStatus, ReadUpload, SaveFinal, Throws, ReadForFailure, SaveFailure, FailureLost, Crash

LEMMA RequestRows ==
  ASSUME TypeOK, NEW q \in Request, Serve(q), NEW r \in Row
  PROVE  \/ row'[r] = row[r]
         \/ row'[r] = "GONE"
         \/ row[r] \in {"FAILED", "SKIPPED"} /\ row'[r] = "PENDING"
BY DEF Serve, AskDelete, ReadForCancel, SaveCancelled, Delete, AskRetry, ResetFailedRows, Requeue, RequestFails, TypeOK

\* A deleted row never returns.
LEMMA GoneStays ==
  ASSUME TypeOK, Next, RowsIn({"GONE"})' = {}
  PROVE  RowsIn({"GONE"}) = {}
<1>1. ASSUME NEW r \in Row, row[r] = "GONE" PROVE row'[r] = "GONE"
  BY <1>1, RowSteps, RequestRows DEF Next
<1>2. QED
  BY <1>1 DEF RowsIn

\* The hands of a worker that leaves, or that has no batch, are empty.
LEMMA EmptyHands ==
  /\ \A r \in Row : ~ InHand(IdleWorker, r) /\ ~ InHand([IdleWorker EXCEPT !.pc = "failRead"], r)
  /\ \A x \in WorkerState : Proper(x) /\ x.size = 0 => \A r \in Row : ~ InHand(x, r)
<1>1. \A r \in Row : ~ InHand(IdleWorker, r) /\ ~ InHand([IdleWorker EXCEPT !.pc = "failRead"], r)
  BY DEF InHand, IdleWorker
<1>2. ASSUME NEW x \in WorkerState, Proper(x), x.size = 0, NEW r \in Row PROVE ~ InHand(x, r)
  BY <1>2, NoBatch DEF InHand, Working
<1>3. QED
  BY <1>1, <1>2

\* What a worker has in hand after a step was in hand or pending before it, and the step
\* left it as it was.
LEMMA HandsStep ==
  ASSUME TypeOK, NEW w \in Worker, Proper(worker[w]), ProcessUpload(w) \/ Crash(w), NEW r \in Row,
         InHand(worker'[w], r)
  PROVE  row'[r] = row[r] /\ (InHand(worker[w], r) \/ row[r] = "PENDING")
<1> DEFINE x == worker[w]
<1>0. x \in WorkerState /\ worker'[w] \in WorkerState /\ Proper(worker'[w])
  BY WorkerFields, WorkerSteps, BatchStep
<1>1. worker'[w].size # 0
  BY <1>0, EmptyHands
<1>2. CASE Claim(w) \/ InsertRows(w) \/ CheckCancelled(w)
  <2>1. \E pc \in Pc : worker'[w] = [x EXCEPT !.pc = pc]
    BY <1>2, WentTo DEF Becomes, Claim, InsertRows, CheckCancelled, Pc
  <2>2. x.size = 0
    BY <1>2 DEF Claim, InsertRows, CheckCancelled, Proper
  <2>3. QED
    BY <1>0, <1>1, <2>1, <2>2 DEF WorkerState
<1>3. CASE BreakerOpen(w)
  <2>1. worker'[w] = [x EXCEPT !.pc = "skip"]
    BY <1>3, WentTo DEF Becomes, BreakerOpen, Pc
  <2>2. QED
    BY <1>0, <1>3, <2>1 DEF BreakerOpen, InHand, WorkerState
<1>4. CASE FetchBatch(w)
  <2>1. PICK b \in SUBSET RowsIn({"PENDING"}) :
          worker'[w] = [x EXCEPT !.pc = IF b = {} THEN "count" ELSE "chunk", !.batch = b, !.size = Cardinality(b)]
    BY <1>4, FetchedBatch DEF Becomes
  <2>2. worker'[w].batch = b /\ worker'[w].task = x.task
    BY <1>0, <2>1 DEF WorkerState
  <2>3. row[r] = "PENDING" \/ InHand(x, r)
    BY <2>1, <2>2 DEF InHand, RowsIn
  <2>4. QED
    BY <1>4, <2>3 DEF FetchBatch
<1>5. CASE StartChunk(w)
  <2>1. PICK chunk \in SUBSET x.batch :
          worker'[w] = [x EXCEPT !.batch = @ \ chunk, !.task = [q \in Row |-> IF q \in chunk THEN "begin" ELSE "none"]]
    BY <1>5, StartedChunk DEF Becomes
  <2>2. /\ worker'[w].batch = x.batch \ chunk
        /\ worker'[w].task = [q \in Row |-> IF q \in chunk THEN "begin" ELSE "none"]
    BY <1>0, <2>1 DEF WorkerState
  <2>3. InHand(x, r)
    BY <2>1, <2>2 DEF InHand
  <2>4. QED
    BY <1>5, <2>3 DEF StartChunk
<1>6. CASE SkipRow(w)
  <2>1. PICK q \in x.batch :
          /\ WriteRow(q, "SKIPPED")
          /\ worker'[w] = [x EXCEPT !.batch = @ \ {q}, !.bad = @ + 1, !.pc = IF x.batch = {q} THEN "chunk" ELSE "skip"]
    BY <1>6, SkippedRow DEF Becomes
  <2>2. worker'[w].batch = x.batch \ {q} /\ worker'[w].task = x.task
    BY <1>0, <2>1 DEF WorkerState
  <2>3. x.task[r] = "none"
    BY <1>6 DEF SkipRow, Proper, Working
  <2>4. InHand(x, r) /\ r # q
    BY <2>2, <2>3 DEF InHand
  <2>5. row'[r] = row[r]
    BY <1>0, <2>1, <2>4, Writes DEF WorkerState, RowStatus
  <2>6. QED
    BY <2>4, <2>5
<1>7. ASSUME NEW q \in Row, ProcessRow(w, q)
      PROVE  row'[r] = row[r] /\ (InHand(worker[w], r) \/ row[r] = "PENDING")
  <2>1. x.task[q] # "none" /\ q \notin x.batch
    BY <1>7
    DEF ProcessRow, SkipBlank, Submit, SubmitFails, SaveSucceeded, SaveFailed, RowUpdateFails, Working, Proper
  <2>2. \/ \E st \in {"accepted", "refused", "caught"} :
             Task(w, q, st) /\ (st # "caught" => x.task[q] = "begin" /\ UNCHANGED row)
        \/ Good(w, q) \/ Bad(w, q)
    BY <1>7 DEF ProcessRow, SkipBlank, Submit, SubmitFails, SaveSucceeded, SaveFailed, RowUpdateFails
  <2>3. PICK st \in TaskState :
          /\ worker'[w].task = [x.task EXCEPT ![q] = st] /\ worker'[w].batch = x.batch
          /\ st \notin {"none", "caught"} => x.task[q] = "begin" /\ UNCHANGED row
    <3>1. ASSUME NEW st \in {"accepted", "refused", "caught"}, Task(w, q, st)
          PROVE  worker'[w].task = [x.task EXCEPT ![q] = st] /\ worker'[w].batch = x.batch
      <4>0. st \in TaskState
        BY DEF TaskState
      <4>1. worker'[w] = [x EXCEPT !.task = [@ EXCEPT ![q] = st]]
        BY <3>1, <4>0, Tasked DEF Becomes
      <4>2. QED
        BY <1>0, <4>1 DEF WorkerState
    <3>2. ASSUME Good(w, q) \/ Bad(w, q)
          PROVE  worker'[w].task = [x.task EXCEPT ![q] = "none"] /\ worker'[w].batch = x.batch
      <4>1. \/ worker'[w] = [x EXCEPT !.task = [@ EXCEPT ![q] = "none"], !.good = @ + 1]
            \/ worker'[w] = [x EXCEPT !.task = [@ EXCEPT ![q] = "none"], !.bad = @ + 1]
        BY <2>1, <3>2, CountedRow DEF Becomes
      <4>2. QED
        BY <1>0, <4>1 DEF WorkerState
    <3>3. QED
      BY <2>2, <3>1, <3>2 DEF TaskState
  <2>4. CASE r = q
    <3>1. worker'[w].task[r] = st
      BY <1>0, <2>3, <2>4 DEF WorkerState
    <3>2. st \notin {"none", "caught"}
      BY <2>1, <2>3, <2>4, <3>1 DEF InHand
    <3>3. QED
      BY <2>3, <2>4, <3>2 DEF InHand
  <2>5. CASE r # q
    <3>1. InHand(x, r)
      BY <1>0, <2>3, <2>5 DEF InHand, WorkerState
    <3>2. \A to \in RowStatus : WriteRow(q, to) => row'[r] = row[r]
      BY <2>5, Writes
    <3>3. row'[r] = row[r]
      BY <1>7, <3>2
      DEF ProcessRow, SkipBlank, Submit, SubmitFails, SaveSucceeded, SaveFailed, RowUpdateFails, Intended, RowStatus
    <3>4. QED
      BY <3>1, <3>3
  <2>6. QED
    BY <2>4, <2>5
<1>8. CASE UpdateCounters(w)
  <2>1. \E pc \in Pc : worker'[w] = [x EXCEPT !.pc = pc, !.offset = @ + x.size, !.size = 0, !.good = 0, !.bad = 0]
    BY <1>8, NextedBatch DEF UpdateCounters, Becomes, Pc
  <2>2. QED
    BY <1>0, <1>1, <2>1 DEF WorkerState
<1>9. CASE CountByStatus(w) \/ ReadUpload(w) \/ ReadForFailure(w)
  <2>1. x.size = 0
    BY <1>9 DEF CountByStatus, ReadUpload, ReadForFailure, Proper
  <2>2. worker'[w] = IdleWorker \/ worker'[w].size = x.size
    BY <1>0, <1>9, Resumed DEF Becomes, WorkerState
  <2>3. QED
    BY <1>1, <2>1, <2>2 DEF IdleWorker
<1>10. CASE SaveFinal(w) \/ Throws(w) \/ SaveFailure(w) \/ FailureLost(w) \/ Crash(w)
  <2>1. worker'[w] = IdleWorker \/ worker'[w] = [IdleWorker EXCEPT !.pc = "failRead"]
    BY <1>10, Left, Resumed DEF SaveFinal, SaveFailure, FailureLost, Crash, Becomes
  <2>2. QED
    BY <1>1, <2>1 DEF IdleWorker
<1>11. CASE ClaimLost(w)
  BY <1>11 DEF ClaimLost
<1>12. QED
  BY <1>2, <1>3, <1>4, <1>5, <1>6, <1>7, <1>8, <1>9, <1>10, <1>11 DEF ProcessUpload

-----------------------------------------------------------------------------

\* Apart from the submissions themselves a step keeps them all or ends them all, and
\* counts nothing as succeeded.
LEMMA QuietSteps ==
  ASSUME TypeOK, NEW w \in Worker, Proper(worker[w]), ProcessUpload(w) \/ Crash(w),
         ~ StartChunk(w), \A r \in Row : ~ ProcessRow(w, r)
  PROVE  /\ worker'[w].good \in {worker[w].good, 0}
         /\ worker'[w].task = worker[w].task \/ worker'[w].task = [r \in Row |-> "none"]
         /\ worker'[w].copy \in {worker[w].copy, upload.n, Zero}
<1> DEFINE x == worker[w]
<1>1. x \in WorkerState
  BY WorkerFields
<1>2. CASE Claim(w) \/ InsertRows(w) \/ CheckCancelled(w) \/ BreakerOpen(w)
  <2>1. \E pc \in Pc : worker'[w] = [x EXCEPT !.pc = pc]
    BY <1>2, WentTo DEF Becomes, Claim, InsertRows, CheckCancelled, BreakerOpen, Pc
  <2>2. QED
    BY <1>1, <2>1 DEF WorkerState
<1>3. CASE FetchBatch(w)
  <2>1. \E b \in SUBSET RowsIn({"PENDING"}) :
          worker'[w] = [x EXCEPT !.pc = IF b = {} THEN "count" ELSE "chunk", !.batch = b, !.size = Cardinality(b)]
    BY <1>3, FetchedBatch DEF Becomes
  <2>2. QED
    BY <1>1, <2>1 DEF WorkerState
<1>4. CASE SkipRow(w)
  <2>1. \E q \in x.batch :
          worker'[w] = [x EXCEPT !.batch = @ \ {q}, !.bad = @ + 1, !.pc = IF x.batch = {q} THEN "chunk" ELSE "skip"]
    BY <1>4, SkippedRow DEF Becomes
  <2>2. QED
    BY <1>1, <2>1 DEF WorkerState
<1>5. CASE UpdateCounters(w)
  <2>1. \E pc \in Pc : worker'[w] = [x EXCEPT !.pc = pc, !.offset = @ + x.size, !.size = 0, !.good = 0, !.bad = 0]
    BY <1>5, NextedBatch DEF UpdateCounters, Becomes, Pc
  <2>2. QED
    BY <1>1, <2>1 DEF WorkerState
<1>6. CASE CountByStatus(w) \/ ReadUpload(w) \/ ReadForFailure(w)
  <2>1. \/ worker'[w] = IdleWorker
        \/ /\ worker'[w].task = x.task /\ worker'[w].good = x.good
           /\ worker'[w].copy \in {x.copy, upload.n}
    BY <1>1, <1>6, Resumed DEF Becomes, WorkerState
  <2>2. QED
    BY <2>1 DEF IdleWorker
<1>7. CASE SaveFinal(w) \/ Throws(w) \/ SaveFailure(w) \/ FailureLost(w) \/ Crash(w)
  <2>1. worker'[w] = IdleWorker \/ worker'[w] = [IdleWorker EXCEPT !.pc = "failRead"]
    BY <1>7, Left, Resumed DEF SaveFinal, SaveFailure, FailureLost, Crash, Becomes
  <2>2. QED
    BY <2>1 DEF IdleWorker
<1>8. CASE ClaimLost(w)
  BY <1>8 DEF ClaimLost
<1>9. QED
  BY <1>2, <1>3, <1>4, <1>5, <1>6, <1>7, <1>8 DEF ProcessUpload

\* A submission's step, and what it does to the number of successes.
LEMMA SubmissionSteps ==
  ASSUME TypeOK, NEW w \in Worker, Proper(worker[w]), NEW r \in Row, ProcessRow(w, r)
  PROVE  /\ worker[w].task[r] # "none"
         /\ \E st \in TaskState : /\ worker'[w].task = [worker[w].task EXCEPT ![r] = st]
                                  /\ st # "begin" /\ (st = "accepted" => Submit(w, r))
                                  /\ st = "none" \/ worker'[w].good = worker[w].good
         /\ \/ worker'[w].good = worker[w].good
            \/ SaveSucceeded(w, r) /\ worker'[w].good = worker[w].good + 1
         /\ worker'[w].copy = worker[w].copy
<1> DEFINE x == worker[w]
<1>1. x \in WorkerState /\ x.task[r] # "none"
  BY WorkerFields DEF ProcessRow, SkipBlank, Submit, SubmitFails, SaveSucceeded, SaveFailed, RowUpdateFails
<1>2. ASSUME NEW st \in TaskState, Task(w, r, st)
      PROVE  worker'[w].task = [x.task EXCEPT ![r] = st] /\ worker'[w].good = x.good /\ worker'[w].copy = x.copy
  <2>1. worker'[w] = [x EXCEPT !.task = [@ EXCEPT ![r] = st]]
    BY <1>2, Tasked DEF Becomes
  <2>2. QED
    BY <1>1, <2>1 DEF WorkerState
<1>3. ASSUME Good(w, r)
      PROVE  worker'[w].task = [x.task EXCEPT ![r] = "none"] /\ worker'[w].good = x.good + 1 /\ worker'[w].copy = x.copy
  <2>1. worker'[w] = [x EXCEPT !.task = [@ EXCEPT ![r] = "none"], !.good = @ + 1]
    BY <1>1, <1>3, CountedRow DEF Becomes
  <2>2. QED
    BY <1>1, <2>1 DEF WorkerState
<1>4. ASSUME Bad(w, r)
      PROVE  worker'[w].task = [x.task EXCEPT ![r] = "none"] /\ worker'[w].good = x.good /\ worker'[w].copy = x.copy
  <2>1. worker'[w] = [x EXCEPT !.task = [@ EXCEPT ![r] = "none"], !.bad = @ + 1]
    BY <1>1, <1>4, CountedRow DEF Becomes
  <2>2. QED
    BY <1>1, <2>1 DEF WorkerState
<1>5. \/ SaveSucceeded(w, r) /\ Good(w, r)
      \/ Bad(w, r)
      \/ \E st \in TaskState \ {"none", "begin"} : Task(w, r, st) /\ (st = "accepted" => Submit(w, r))
  BY DEF ProcessRow, SkipBlank, Submit, SubmitFails, SaveSucceeded, SaveFailed, RowUpdateFails, TaskState
<1>6. "none" \in TaskState
  BY DEF TaskState
<1>7. QED
  BY <1>1, <1>2, <1>3, <1>4, <1>5, <1>6

-----------------------------------------------------------------------------

LEMMA AcceptedStep ==
  ASSUME TypeOK, Batches, SucceededIsAccepted, AcceptedFirst, Next
  PROVE  SucceededIsAccepted' /\ AcceptedFirst'
<1>1. accepted \subseteq accepted'
  BY WorkerKeeps, RequestKeeps DEF Next
<1>2. ASSUME NEW r \in Row, row'[r] = "SUCCEEDED" PROVE r \in accepted
  <2>1. row[r] = "SUCCEEDED" \/ \E w \in Worker : worker[w].task[r] = "accepted"
    BY <1>2, RowSteps, RequestRows DEF Next
  <2>2. QED
    BY <2>1 DEF SucceededIsAccepted, AcceptedFirst, RowsIn
<1>3. ASSUME NEW w \in Worker, NEW r \in Row, worker'[w].task[r] = "accepted" PROVE r \in accepted'
  <2>1. CASE worker'[w] = worker[w]
    BY <1>1, <1>3, <2>1 DEF AcceptedFirst
  <2>2. CASE ProcessUpload(w) \/ Crash(w)
    <3>1. worker[w] \in WorkerState /\ Proper(worker[w])
      BY WorkerFields DEF Batches
    <3>2. CASE StartChunk(w)
      <4>1. PICK chunk \in SUBSET worker[w].batch :
              worker'[w] = [worker[w] EXCEPT !.batch = @ \ chunk,
                                             !.task = [q \in Row |-> IF q \in chunk THEN "begin" ELSE "none"]]
        BY <3>2, StartedChunk DEF Becomes
      <4>2. worker'[w].task = [q \in Row |-> IF q \in chunk THEN "begin" ELSE "none"]
        BY <3>1, <4>1 DEF WorkerState
      <4>3. QED
        BY <1>3, <4>2
    <3>3. ASSUME NEW q \in Row, ProcessRow(w, q) PROVE r \in accepted'
      <4>1. \E st \in TaskState : /\ worker'[w].task = [worker[w].task EXCEPT ![q] = st]
                                  /\ st # "begin" /\ (st = "accepted" => Submit(w, q))
                                  /\ st = "none" \/ worker'[w].good = worker[w].good
        BY <3>1, <3>3, SubmissionSteps
      <4>2. worker[w].task[r] = "accepted" \/ (r = q /\ Submit(w, q))
        <5>1. PICK st \in TaskState : /\ worker'[w].task = [worker[w].task EXCEPT ![q] = st]
                                      /\ st = "accepted" => Submit(w, q)
          BY <4>1
        <5>2. QED
          BY <1>3, <3>1, <5>1 DEF WorkerState
      <4>3. QED
        BY <1>1, <4>2 DEF AcceptedFirst, Submit
    <3>4. CASE ~ StartChunk(w) /\ \A q \in Row : ~ ProcessRow(w, q)
      <4>1. worker'[w].task = worker[w].task \/ worker'[w].task = [q \in Row |-> "none"]
        BY <2>2, <3>1, <3>4, QuietSteps
      <4>2. QED
        BY <1>1, <1>3, <4>1 DEF AcceptedFirst
    <3>5. QED
      BY <3>2, <3>3, <3>4
  <2>3. QED
    BY <2>1, <2>2, WorkerSteps, RequestKeeps DEF Next, Batches
<1>4. QED
  BY <1>1, <1>2, <1>3 DEF SucceededIsAccepted, AcceptedFirst, RowsIn

\* Where a copy of the counters comes from.
LEMMA WorkerCopies ==
  ASSUME TypeOK, NEW w \in Worker, Proper(worker[w]), ProcessUpload(w) \/ Crash(w)
  PROVE  /\ worker'[w].copy \in {worker[w].copy, upload.n, Zero}
         /\ \/ upload'.n \in {upload.n, worker[w].copy}
            \/ upload'.n = Counted(w) /\ worker'[w].good = 0
<1>1. worker[w] \in WorkerState /\ upload \in [status : Status, n : Counters]
  BY WorkerFields DEF TypeOK
<1>2. UpdateCounters(w) \/ Throws(w) => worker'[w].good = 0
  <2>1. CASE UpdateCounters(w)
    <3>1. \E pc \in Pc : worker'[w] = [worker[w] EXCEPT !.pc = pc, !.offset = @ + worker[w].size,
                                                         !.size = 0, !.good = 0, !.bad = 0]
      BY <2>1, NextedBatch DEF UpdateCounters, Becomes, Pc
    <3>2. QED
      BY <1>1, <3>1 DEF WorkerState
  <2>2. CASE Throws(w)
    BY <2>2, Resumed DEF Becomes, IdleWorker
  <2>3. QED
    BY <2>1, <2>2
<1>3. upload'.n \in {upload.n, worker[w].copy} \/ (upload'.n = Counted(w) /\ worker'[w].good = 0)
  <2>1. CASE UpdateCounters(w) \/ Throws(w)
    BY <1>1, <1>2, <2>1 DEF UpdateCounters, Throws
  <2>2. CASE SaveFinal(w) \/ SaveFailure(w) \/ Claim(w) \/ ClaimLost(w)
    BY <1>1, <2>2 DEF SaveFinal, SaveFailure, Claim, ClaimLost
  <2>3. QED
    BY <2>1, <2>2
    DEF ProcessUpload, InsertRows, CheckCancelled, FetchBatch, StartChunk, BreakerOpen, SkipRow, ProcessRow, SkipBlank,
        Submit, SubmitFails, SaveSucceeded, SaveFailed, RowUpdateFails, CountByStatus, ReadUpload, ReadForFailure,
        FailureLost, Crash
<1>4. worker'[w].copy \in {worker[w].copy, upload.n, Zero}
  <2>1. CASE StartChunk(w)
    <3>1. \E chunk \in SUBSET worker[w].batch :
            worker'[w] = [worker[w] EXCEPT !.batch = @ \ chunk,
                                           !.task = [q \in Row |-> IF q \in chunk THEN "begin" ELSE "none"]]
      BY <2>1, StartedChunk DEF Becomes
    <3>2. QED
      BY <1>1, <3>1 DEF WorkerState
  <2>2. ASSUME NEW r \in Row, ProcessRow(w, r) PROVE worker'[w].copy = worker[w].copy
    BY <2>2, SubmissionSteps
  <2>3. QED
    BY <2>1, <2>2, QuietSteps
<1>5. QED
  BY <1>3, <1>4

LEMMA RequestCopies ==
  ASSUME TypeOK, NEW q \in Request, Serve(q)
  PROVE  /\ \A p \in Request : p # q => request'[p] = request[p]
         /\ request'[q].copy \in {request[q].copy, upload.n, Zero}
         /\ upload'.n \in {upload.n, request[q].copy, Zero,
                           [request[q].copy EXCEPT !.processed = request[q].copy.succeeded, !.failed = 0]}
<1>1. request \in [Request -> [st : RequestState, copy : Counters]] /\ upload \in [status : Status, n : Counters]
  BY DEF TypeOK
<1>2. CASE AskDelete(q) \/ ResetFailedRows(q)
  BY <1>1, <1>2 DEF AskDelete, ResetFailedRows, Ask
<1>3. CASE ReadForCancel(q) \/ AskRetry(q)
  BY <1>1, <1>3 DEF ReadForCancel, AskRetry, Answer
<1>4. CASE SaveCancelled(q) \/ Delete(q) \/ RequestFails(q)
  BY <1>1, <1>4 DEF SaveCancelled, Delete, RequestFails, Answer
<1>5. CASE Requeue(q)
  BY <1>1, <1>5 DEF Requeue, Answer
<1>6. QED
  BY <1>2, <1>3, <1>4, <1>5 DEF Serve

LEMMA CopiesMove ==
  ASSUME TypeOK, Batches, Next
  PROVE  \A k \in Copies' :
           \/ k \in Copies
           \/ k = Zero
           \/ \E c \in Copies : k = [c EXCEPT !.processed = c.succeeded, !.failed = 0]
           \/ \E w \in Worker : k = Counted(w) /\ worker'[w].good = 0
<1>1. ASSUME NEW k \in Copies'
      PROVE  \/ k = upload'.n
             \/ \E v \in Worker : k = worker'[v].copy
             \/ \E p \in Request : k = request'[p].copy
  BY DEF Copies
<1>2. /\ upload.n \in Copies
      /\ \A v \in Worker : worker[v].copy \in Copies
      /\ \A p \in Request : request[p].copy \in Copies
  BY DEF Copies
<1>3. ASSUME NEW k \in Copies', NEW w \in Worker, ProcessUpload(w) \/ Crash(w)
      PROVE  k \in Copies \/ k = Zero \/ (k = Counted(w) /\ worker'[w].good = 0)
  <2>1. Proper(worker[w]) /\ \A v \in Worker : v # w => worker'[v] = worker[v]
    BY <1>3, WorkerSteps DEF Batches
  <2>2. /\ worker'[w].copy \in {worker[w].copy, upload.n, Zero}
        /\ upload'.n \in {upload.n, worker[w].copy} \/ (upload'.n = Counted(w) /\ worker'[w].good = 0)
    BY <1>3, <2>1, WorkerCopies
  <2>3. UNCHANGED request
    BY <1>3, WorkerKeeps
  <2>4. CASE k = upload'.n
    BY <1>2, <2>2, <2>4
  <2>5. CASE \E v \in Worker : k = worker'[v].copy
    BY <1>2, <2>1, <2>2, <2>5
  <2>6. CASE \E p \in Request : k = request'[p].copy
    BY <1>2, <2>3, <2>6
  <2>7. QED
    BY <1>1, <2>4, <2>5, <2>6
<1>4. ASSUME NEW k \in Copies', NEW q \in Request, Serve(q)
      PROVE  \/ k \in Copies
             \/ k = Zero
             \/ \E c \in Copies : k = [c EXCEPT !.processed = c.succeeded, !.failed = 0]
  <2>1. UNCHANGED worker
    BY <1>4, RequestKeeps
  <2>2. CASE k = upload'.n
    BY <1>2, <1>4, <2>2, RequestCopies
  <2>3. CASE \E v \in Worker : k = worker'[v].copy
    BY <1>2, <2>1, <2>3
  <2>4. CASE \E p \in Request : k = request'[p].copy
    <3>1. PICK p \in Request : k = request'[p].copy
      BY <2>4
    <3>2. p # q => request'[p] = request[p]
      BY <1>4, RequestCopies
    <3>3. request'[q].copy \in {request[q].copy, upload.n, Zero}
      BY <1>4, RequestCopies
    <3>4. QED
      BY <1>2, <3>1, <3>2, <3>3
  <2>5. QED
    BY <1>1, <2>2, <2>3, <2>4
<1>5. QED
  BY <1>3, <1>4 DEF Next

LEMMA CopyTypes ==
  ASSUME TypeOK
  PROVE  Copies \subseteq Counters
BY DEF TypeOK, Copies, WorkerState

LEMMA CopiesAgreeStep ==
  ASSUME TypeOK, Batches, CopiesAgree, Next
  PROVE  CopiesAgree'
<1>1. ASSUME NEW k \in Copies' PROVE k.processed = k.succeeded + k.failed
  <2>1. CASE k \in Copies
    BY <2>1 DEF CopiesAgree
  <2>2. CASE k = Zero
    BY <2>2 DEF Zero
  <2>3. CASE \E c \in Copies : k = [c EXCEPT !.processed = c.succeeded, !.failed = 0]
    BY <2>3, CopyTypes DEF Counters
  <2>4. ASSUME NEW w \in Worker, k = Counted(w) PROVE k.processed = k.succeeded + k.failed
    <3>1. upload.n \in Counters /\ upload.n.processed = upload.n.succeeded + upload.n.failed
      BY DEF TypeOK, CopiesAgree, Copies
    <3>2. worker[w].good \in Nat /\ worker[w].bad \in Nat
      BY WorkerFields, Constants DEF WorkerState
    <3>3. QED
      BY <2>4, <3>1, <3>2 DEF Counted, Counters
  <2>5. QED
    BY <2>1, <2>2, <2>3, <2>4, CopiesMove
<1>2. QED
  BY <1>1 DEF CopiesAgree

LEMMA SharedStep == SharedInv /\ [Next]_vars => SharedInv'
<1>1. ASSUME SharedInv, Next PROVE SharedInv'
  BY <1>1, TypesStep, BatchesStep, AcceptedStep, CopiesAgreeStep DEF SharedInv
<1>2. ASSUME SharedInv, UNCHANGED vars PROVE SharedInv'
  <2>1. TypeOK'
    BY <1>2 DEF vars, SharedInv, TypeOK
  <2>2. Batches' /\ AcceptedFirst'
    BY <1>2 DEF vars, SharedInv, Batches, AcceptedFirst
  <2>3. CopiesAgree'
    BY <1>2 DEF vars, SharedInv, CopiesAgree, Copies
  <2>4. SucceededIsAccepted'
    BY <1>2 DEF vars, SharedInv, SucceededIsAccepted, RowsIn
  <2>5. QED
    BY <2>1, <2>2, <2>3, <2>4 DEF SharedInv
<1>3. QED
  BY <1>1, <1>2

LEMMA SharedAlways == Spec => []SharedInv
BY InitShared, SharedStep, PTL DEF Spec

\* Every variable of the upload keeps its type, for any number of workers; no batch is counted
\* beyond its size.
THEOREM UploadTypes == Spec => []TypeOK
<1>1. SharedInv => TypeOK
  BY DEF SharedInv
<1>2. QED
  BY <1>1, SharedAlways, PTL

\* Whoever saves an entity it read earlier, however late: the counters still add up, and a row
\* marked SUCCEEDED was accepted.
THEOREM CountersAddUp == Spec => [](CountersAgree /\ SucceededIsAccepted)
<1>1. SharedInv => CountersAgree /\ SucceededIsAccepted
  BY DEF SharedInv, CopiesAgree, Copies, CountersAgree
<1>2. QED
  BY <1>1, SharedAlways, PTL

-----------------------------------------------------------------------------

(***************************************************************************)
(* One polling process.                                                    *)
(***************************************************************************)
OneWorker == \E w : Worker = {w}

LEMMA InitSole == Init => SoleInv
<1> SUFFICES ASSUME Init PROVE SoleInv
  OBVIOUS
<1>1. \A w \in Worker : worker[w] = IdleWorker
  BY DEF Init
<1>2. InHandPending
  BY <1>1 DEF InHandPending, InHand, IdleWorker
<1>3. CopiesCounted
  <2>1. \A k \in Copies : k = Zero
    BY DEF Init, Copies, IdleWorker
  <2>2. Firm \in SUBSET Row /\ Cardinality(Firm) \in Nat
    BY FiniteRows DEF Firm, RowsIn
  <2>3. QED
    BY <1>1, <2>1, <2>2 DEF CopiesCounted, IdleWorker, Zero
<1>4. CleanEnd
  BY <1>1 DEF Init, CleanEnd, Concludes, RowsIn, IdleWorker
<1>5. QED
  BY <1>2, <1>3, <1>4 DEF SoleInv

LEMMA InHandStep ==
  ASSUME OneWorker, TypeOK, Batches, InHandPending, Next
  PROVE  InHandPending'
<1>1. ASSUME NEW w \in Worker, ProcessUpload(w) \/ Crash(w), NEW v \in Worker, NEW r \in Row, InHand(worker'[v], r)
      PROVE  row'[r] \in {"PENDING", "GONE"}
  <2>1. v = w
    BY DEF OneWorker
  <2>2. row'[r] = row[r] /\ (InHand(worker[w], r) \/ row[r] = "PENDING")
    BY <1>1, <2>1, HandsStep DEF Batches
  <2>3. QED
    BY <2>2 DEF InHandPending
<1>2. ASSUME NEW q \in Request, Serve(q), NEW v \in Worker, NEW r \in Row, InHand(worker'[v], r)
      PROVE  row'[r] \in {"PENDING", "GONE"}
  <2>1. row[r] \in {"PENDING", "GONE"}
    BY <1>2, RequestKeeps DEF InHandPending
  <2>2. QED
    BY <1>2, <2>1, RequestRows
<1>3. QED
  BY <1>1, <1>2 DEF Next, InHandPending

\* The tasks a step leaves to its worker.
LEMMA TaskSteps ==
  ASSUME TypeOK, NEW w \in Worker, Proper(worker[w]), ProcessUpload(w) \/ Crash(w), NEW r \in Row,
         worker'[w].task[r] = "caught"
  PROVE  worker[w].task[r] # "none"
<1>1. worker[w] \in WorkerState
  BY WorkerFields
<1>2. CASE StartChunk(w)
  <2>1. PICK chunk \in SUBSET worker[w].batch :
          worker'[w] = [worker[w] EXCEPT !.batch = @ \ chunk,
                                         !.task = [q \in Row |-> IF q \in chunk THEN "begin" ELSE "none"]]
    BY <1>2, StartedChunk DEF Becomes
  <2>2. worker'[w].task = [q \in Row |-> IF q \in chunk THEN "begin" ELSE "none"]
    BY <1>1, <2>1 DEF WorkerState
  <2>3. QED
    BY <2>2
<1>3. ASSUME NEW q \in Row, ProcessRow(w, q) PROVE worker[w].task[r] # "none"
  <2>1. /\ worker[w].task[q] # "none"
        /\ \E st \in TaskState : /\ worker'[w].task = [worker[w].task EXCEPT ![q] = st]
                                 /\ st # "begin" /\ (st = "accepted" => Submit(w, q))
                                 /\ st = "none" \/ worker'[w].good = worker[w].good
    BY <1>3, SubmissionSteps
  <2>2. PICK st \in TaskState : worker'[w].task = [worker[w].task EXCEPT ![q] = st]
    BY <2>1
  <2>3. QED
    BY <1>1, <2>1, <2>2 DEF WorkerState
<1>4. CASE ~ StartChunk(w) /\ \A q \in Row : ~ ProcessRow(w, q)
  <2>1. worker'[w].task = worker[w].task \/ worker'[w].task = [q \in Row |-> "none"]
    BY <1>4, QuietSteps
  <2>2. QED
    BY <2>1
<1>5. QED
  BY <1>2, <1>3, <1>4

\* The firmly succeeded rows stay unless the upload is deleted, and one is new when a row
\* is counted as succeeded.
LEMMA FirmStays ==
  ASSUME OneWorker, TypeOK, Batches, InHandPending, NEW w \in Worker, ProcessUpload(w) \/ Crash(w)
  PROVE  Firm \subseteq Firm'
<1>1. \A v \in Worker : v = w
  BY DEF OneWorker
<1>2. ASSUME NEW r \in Firm PROVE r \in Firm'
  <2>1. r \in Row /\ row[r] = "SUCCEEDED" /\ worker[w].task[r] # "caught"
    BY DEF Firm, RowsIn
  <2>2. ~ InHand(worker[w], r)
    BY <2>1 DEF InHandPending
  <2>3. worker[w].task[r] = "none" /\ r \notin worker[w].batch
    BY <2>1, <2>2, WorkerFields DEF InHand, WorkerState, TaskState
  <2>4. row'[r] = "SUCCEEDED"
    BY <2>1, <2>3, RowSteps
  <2>5. worker'[w].task[r] # "caught"
    BY <2>1, <2>3, TaskSteps DEF Batches
  <2>6. QED
    BY <1>1, <2>1, <2>4, <2>5 DEF Firm, RowsIn
<1>3. QED
  BY <1>2

LEMMA FirmFinite == Firm \in SUBSET Row /\ IsFiniteSet(Firm) /\ Cardinality(Firm) \in Nat
BY FiniteRows DEF Firm, RowsIn

LEMMA FirmFiniteNext == Firm' \in SUBSET Row /\ IsFiniteSet(Firm') /\ Cardinality(Firm') \in Nat
<1>1. Firm' \in SUBSET Row
  BY DEF Firm, RowsIn
<1>2. QED
  BY <1>1, FiniteRows

LEMMA FirmGrows ==
  ASSUME OneWorker, TypeOK, Batches, InHandPending, NEW w \in Worker, ProcessUpload(w) \/ Crash(w),
         RowsIn({"GONE"}) = {}, NEW m \in Nat, m + worker[w].good <= Cardinality(Firm)
  PROVE  m + worker'[w].good <= Cardinality(Firm')
<1>1. Cardinality(Firm) <= Cardinality(Firm')
  <2>1. Firm \in SUBSET Firm'
    BY FirmStays
  <2>2. QED
    BY <2>1, FirmFiniteNext, FS_Subset
<1>2. /\ worker[w].good \in Nat /\ worker'[w].good \in Nat
      /\ Cardinality(Firm) \in Nat /\ Cardinality(Firm') \in Nat
  BY WorkerFields, WorkerSteps, FirmFinite, FirmFiniteNext, Constants DEF WorkerState, Batches
<1>3. CASE worker'[w].good <= worker[w].good
  BY <1>1, <1>2, <1>3
<1>4. ASSUME NEW r \in Row, SaveSucceeded(w, r), worker'[w].good = worker[w].good + 1
      PROVE  m + worker'[w].good <= Cardinality(Firm')
  <2>1. worker[w].task[r] = "accepted" /\ WriteRow(r, "SUCCEEDED") /\ row[r] # "GONE"
    BY <1>4 DEF SaveSucceeded, RowsIn
  <2>2. row[r] # "SUCCEEDED"
    BY <2>1 DEF InHandPending, InHand
  <2>3. row'[r] = "SUCCEEDED"
    BY <2>1, Writes DEF RowStatus
  <2>4. worker'[w].task[r] # "caught"
    <3>1. worker'[w] = [worker[w] EXCEPT !.task = [@ EXCEPT ![r] = "none"], !.good = @ + 1]
      BY <1>4, <2>1, CountedRow DEF SaveSucceeded, Becomes, Batches
    <3>2. QED
      BY <3>1, WorkerFields DEF WorkerState
  <2>5. \A v \in Worker : v = w
    BY DEF OneWorker
  <2>6. r \in Firm' /\ r \notin Firm
    BY <2>2, <2>3, <2>4, <2>5 DEF Firm, RowsIn
  <2>7. Firm \cup {r} \in SUBSET Firm'
    BY <2>6, FirmStays
  <2>8. Cardinality(Firm \cup {r}) = Cardinality(Firm) + 1
    BY <2>6, FirmFinite, FS_AddElement
  <2>9. Cardinality(Firm \cup {r}) <= Cardinality(Firm')
    BY <2>7, FirmFiniteNext, FS_Subset
  <2>10. QED
    BY <1>2, <1>4, <2>8, <2>9
<1>5. \/ worker'[w].good \in {worker[w].good, 0}
      \/ \E r \in Row : SaveSucceeded(w, r) /\ worker'[w].good = worker[w].good + 1
  <2>1. Proper(worker[w])
    BY DEF Batches
  <2>2. CASE StartChunk(w)
    <3>1. \E chunk \in SUBSET worker[w].batch :
            worker'[w] = [worker[w] EXCEPT !.batch = @ \ chunk,
                                           !.task = [q \in Row |-> IF q \in chunk THEN "begin" ELSE "none"]]
      BY <2>2, StartedChunk DEF Becomes
    <3>2. QED
      BY <3>1, WorkerFields DEF WorkerState
  <2>3. ASSUME NEW r \in Row, ProcessRow(w, r)
        PROVE  worker'[w].good = worker[w].good \/ (SaveSucceeded(w, r) /\ worker'[w].good = worker[w].good + 1)
    BY <2>1, <2>3, SubmissionSteps
  <2>4. CASE ~ StartChunk(w) /\ \A r \in Row : ~ ProcessRow(w, r)
    BY <2>1, <2>4, QuietSteps
  <2>5. QED
    BY <2>2, <2>3, <2>4
<1>6. QED
  BY <1>2, <1>3, <1>4, <1>5

LEMMA CopiesCountedStep ==
  ASSUME OneWorker, TypeOK, Batches, InHandPending, CopiesCounted, Next
  PROVE  CopiesCounted'
<1> SUFFICES ASSUME RowsIn({"GONE"})' = {}, NEW k \in Copies', NEW v \in Worker
             PROVE  k.succeeded + worker'[v].good <= Cardinality(Firm')
  BY DEF CopiesCounted
<1>1. RowsIn({"GONE"}) = {}
  BY GoneStays
<1>2. \A c \in Copies : c \in Counters /\ c.succeeded \in Nat /\ c.succeeded + worker[v].good <= Cardinality(Firm)
  BY <1>1, CopyTypes DEF CopiesCounted, Counters
<1>3. upload.n \in Copies /\ worker[v].good \in Nat /\ Cardinality(Firm) \in Nat
  BY WorkerFields, FirmFinite, Constants DEF Copies, WorkerState
<1>4. 0 + worker[v].good <= Cardinality(Firm)
  BY <1>2, <1>3
<1>5. PICK m \in Nat : m = k.succeeded /\ (m + worker[v].good <= Cardinality(Firm)
                                             \/ (m <= Cardinality(Firm) /\ worker'[v].good = 0))
  <2>1. CASE k \in Copies
    BY <1>2, <2>1
  <2>2. CASE k = Zero
    BY <1>4, <2>2 DEF Zero
  <2>3. CASE \E c \in Copies : k = [c EXCEPT !.processed = c.succeeded, !.failed = 0]
    BY <1>2, <2>3 DEF Counters
  <2>4. ASSUME NEW w \in Worker, k = Counted(w), worker'[w].good = 0
        PROVE  k.succeeded \in Nat /\ k.succeeded <= Cardinality(Firm) /\ worker'[v].good = 0
    <3>1. v = w
      BY DEF OneWorker
    <3>2. QED
      BY <1>2, <1>3, <2>4, <3>1 DEF Counted
  <2>5. QED
    BY <2>1, <2>2, <2>3, <2>4, CopiesMove
<1>6. CASE ProcessUpload(v) \/ Crash(v)
  <2>1. CASE m + worker[v].good <= Cardinality(Firm)
    BY <1>1, <1>5, <1>6, <2>1, FirmGrows
  <2>2. CASE m <= Cardinality(Firm) /\ worker'[v].good = 0
    <3>1. Firm \in SUBSET Firm'
      BY <1>6, FirmStays
    <3>2. Cardinality(Firm) <= Cardinality(Firm') /\ Cardinality(Firm') \in Nat
      BY <3>1, FirmFiniteNext, FS_Subset
    <3>3. QED
      BY <1>3, <1>5, <2>2, <3>2
  <2>3. QED
    BY <1>5, <2>1, <2>2
<1>7. ASSUME NEW q \in Request, Serve(q) PROVE k.succeeded + worker'[v].good <= Cardinality(Firm')
  <2>1. UNCHANGED worker
    BY <1>7, RequestKeeps
  <2>2. \A r \in Row : row[r] = "SUCCEEDED" => row'[r] = "SUCCEEDED"
    BY <1>7, RequestRows DEF RowsIn
  <2>3. Firm \in SUBSET Firm'
    BY <2>1, <2>2 DEF Firm, RowsIn
  <2>4. Cardinality(Firm) <= Cardinality(Firm') /\ Cardinality(Firm') \in Nat
    BY <2>3, FirmFiniteNext, FS_Subset
  <2>5. QED
    BY <1>3, <1>5, <2>1, <2>4
<1>8. QED
  <2>1. \A w \in Worker : w = v
    BY DEF OneWorker
  <2>2. QED
    BY <1>6, <1>7, <2>1 DEF Next

LEMMA CleanEndStep ==
  ASSUME OneWorker, TypeOK, Batches, CleanEnd, Next
  PROVE  CleanEnd'
<1>1. ASSUME NEW w \in Worker, ProcessUpload(w) \/ Crash(w)
      PROVE  /\ upload'.status = "COMPLETED" => worker'[w].pc \in {"idle", "failRead"}
             /\ upload'.status = "COMPLETED" \/ Concludes(w)' =>
                  \A r \in Row : row'[r] \notin {"FAILED", "SKIPPED"}
  <2> DEFINE x == worker[w]
  <2>1. x \in WorkerState /\ Proper(x) /\ upload \in [status : Status, n : Counters]
    BY WorkerFields DEF Batches, TypeOK
  <2>2. upload.status = "COMPLETED" => x.pc \in {"idle", "failRead"}
    BY DEF CleanEnd
  <2>3. upload.status = "COMPLETED" \/ Concludes(w) => \A r \in Row : row[r] \notin {"FAILED", "SKIPPED"}
    BY DEF CleanEnd, RowsIn
  <2>4. \/ UNCHANGED row
        \/ \A r \in Row : row'[r] = row[r] \/ row'[r] = "PENDING"
        \/ x.pc \in {"chunk", "skip"}
    BY <1>1, <2>1
    DEF ProcessUpload, Claim, ClaimLost, InsertRows, Inserted, CheckCancelled, FetchBatch, StartChunk, BreakerOpen,
        SkipRow, ProcessRow, SkipBlank, Submit, SubmitFails, SaveSucceeded, SaveFailed, RowUpdateFails, UpdateCounters,
        CountByStatus, ReadUpload, SaveFinal, Throws, ReadForFailure, SaveFailure, FailureLost, Crash, Proper, Working,
        TypeOK
  <2>5. CASE Claim(w) \/ InsertRows(w) \/ CheckCancelled(w) \/ BreakerOpen(w)
    <3>1. PICK pc \in Pc : worker'[w] = [x EXCEPT !.pc = pc] /\ pc \notin {"read", "save"}
      <4>1. \E pc \in Pc : Goto(w, pc) /\ pc \notin {"read", "save"}
        BY <2>5 DEF Claim, InsertRows, CheckCancelled, BreakerOpen, Pc
      <4>2. QED
        BY <4>1, WentTo DEF Becomes
    <3>2. ~ Concludes(w)'
      BY <2>1, <3>1 DEF Concludes, WorkerState
    <3>3. upload'.status # "COMPLETED"
      BY <2>1, <2>2, <2>5 DEF Claim, InsertRows, CheckCancelled, BreakerOpen, Settled
    <3>4. QED
      BY <3>2, <3>3
  <2>6. CASE FetchBatch(w) \/ StartChunk(w) \/ SkipRow(w) \/ UpdateCounters(w) \/ \E r \in Row : ProcessRow(w, r)
    <3>1. x.pc \in {"fetch", "chunk", "skip"} /\ upload'.status = upload.status
      BY <2>1, <2>6
      DEF FetchBatch, StartChunk, SkipRow, UpdateCounters, ProcessRow, SkipBlank, Submit, SubmitFails, SaveSucceeded,
          SaveFailed, RowUpdateFails, Settled, Proper, Working
    <3>2. worker'[w].pc \notin {"read", "save"}
      <4>1. CASE FetchBatch(w)
        <5>1. \E b \in SUBSET RowsIn({"PENDING"}) :
                worker'[w] = [x EXCEPT !.pc = IF b = {} THEN "count" ELSE "chunk", !.batch = b, !.size = Cardinality(b)]
          BY <4>1, FetchedBatch DEF Becomes
        <5>2. QED
          BY <2>1, <5>1 DEF WorkerState
      <4>2. CASE StartChunk(w)
        <5>1. \E chunk \in SUBSET x.batch :
                worker'[w] = [x EXCEPT !.batch = @ \ chunk, !.task = [q \in Row |-> IF q \in chunk THEN "begin" ELSE "none"]]
          BY <4>2, StartedChunk DEF Becomes
        <5>2. QED
          BY <2>1, <3>1, <5>1 DEF WorkerState
      <4>3. CASE SkipRow(w)
        <5>1. \E q \in x.batch :
                worker'[w] = [x EXCEPT !.batch = @ \ {q}, !.bad = @ + 1, !.pc = IF x.batch = {q} THEN "chunk" ELSE "skip"]
          BY <2>1, <4>3, SkippedRow DEF Becomes
        <5>2. QED
          BY <2>1, <5>1 DEF WorkerState
      <4>4. CASE UpdateCounters(w)
        <5>1. \E pc \in {"count", "loop"} :
                worker'[w] = [x EXCEPT !.pc = pc, !.offset = @ + x.size, !.size = 0, !.good = 0, !.bad = 0]
          BY <4>4, NextedBatch DEF UpdateCounters, Becomes
        <5>2. QED
          BY <2>1, <5>1 DEF WorkerState
      <4>5. ASSUME NEW r \in Row, ProcessRow(w, r) PROVE worker'[w].pc \notin {"read", "save"}
        <5>1. worker' = [worker EXCEPT ![w] = worker'[w]] /\ worker'[w].pc = x.pc
          BY <2>1, <4>5
          DEF ProcessRow, SkipBlank, Submit, SubmitFails, SaveSucceeded, SaveFailed, RowUpdateFails, Task, Good, Bad,
              WorkerState, TypeOK
        <5>2. QED
          BY <3>1, <5>1
      <4>6. QED
        BY <2>6, <4>1, <4>2, <4>3, <4>4, <4>5
    <3>3. QED
      BY <2>2, <3>1, <3>2 DEF Concludes
  <2>7. CASE CountByStatus(w)
    <3>1. worker'[w] = [x EXCEPT !.pc = "read", !.final = FinalStatus] /\ UNCHANGED <<row, upload>> /\ x.pc = "count"
      BY <2>7, Resumed DEF Becomes, CountByStatus
    <3>2. FinalStatus = "COMPLETED" => \A r \in Row : row[r] \notin {"FAILED", "SKIPPED"}
      BY DEF FinalStatus, RowsIn
    <3>3. worker'[w].final = FinalStatus
      BY <2>1, <3>1 DEF WorkerState
    <3>4. QED
      BY <2>2, <3>1, <3>2, <3>3 DEF Concludes
  <2>8. CASE ReadUpload(w)
    <3>1. \/ worker'[w] = [x EXCEPT !.pc = "save", !.copy = upload.n]
          \/ worker'[w] = IdleWorker
      BY <2>8, Resumed DEF Becomes
    <3>2. UNCHANGED <<row, upload>> /\ x.pc = "read"
      BY <2>8 DEF ReadUpload
    <3>3. Concludes(w)' => Concludes(w)
      <4>1. CASE worker'[w] = [x EXCEPT !.pc = "save", !.copy = upload.n]
        <5>1. worker'[w].final = x.final
          BY <2>1, <4>1 DEF WorkerState
        <5>2. QED
          BY <3>2, <5>1 DEF Concludes
      <4>2. CASE worker'[w] = IdleWorker
        BY <4>2 DEF Concludes, IdleWorker
      <4>3. QED
        BY <3>1, <4>1, <4>2
    <3>4. QED
      BY <2>2, <2>3, <3>2, <3>3
  <2>9. CASE SaveFinal(w) \/ Throws(w) \/ SaveFailure(w) \/ FailureLost(w) \/ Crash(w)
    <3>1. worker'[w] = IdleWorker \/ worker'[w] = [IdleWorker EXCEPT !.pc = "failRead"]
      BY <2>9, Left, Resumed DEF SaveFinal, SaveFailure, FailureLost, Crash, Becomes
    <3>2. worker'[w].pc \in {"idle", "failRead"}
      BY <3>1 DEF IdleWorker
    <3>3. upload'.status = "COMPLETED" => upload.status = "COMPLETED" \/ Concludes(w)
      BY <2>1, <2>9 DEF SaveFinal, Throws, SaveFailure, FailureLost, Crash, Concludes
    <3>4. QED
      BY <2>2, <2>3, <2>4, <3>2, <3>3 DEF Concludes
  <2>10. CASE ReadForFailure(w)
    <3>1. worker'[w].pc \in {"failSave", "idle"}
      <4>1. \/ worker'[w] = [x EXCEPT !.pc = "failSave", !.copy = upload.n]
            \/ worker'[w] = IdleWorker
        BY <2>10, Resumed DEF Becomes
      <4>2. CASE worker'[w] = [x EXCEPT !.pc = "failSave", !.copy = upload.n]
        BY <2>1, <4>2 DEF WorkerState
      <4>3. CASE worker'[w] = IdleWorker
        BY <4>3 DEF IdleWorker
      <4>4. QED
        BY <4>1, <4>2, <4>3
    <3>2. upload.status = "COMPLETED" => worker'[w].pc = "idle"
      BY <2>10, Left DEF ReadForFailure, ValidTransitions, Becomes, IdleWorker
    <3>3. QED
      BY <2>3, <2>10, <3>1, <3>2 DEF ReadForFailure, Concludes
  <2>11. CASE ClaimLost(w)
    BY <2>1, <2>2, <2>3, <2>11 DEF ClaimLost, Concludes
  <2>12. QED
    BY <1>1, <2>5, <2>6, <2>7, <2>8, <2>9, <2>10, <2>11 DEF ProcessUpload
<1>2. ASSUME NEW q \in Request, Serve(q)
      PROVE  /\ UNCHANGED worker
             /\ upload'.status = "COMPLETED" => upload.status = "COMPLETED"
             /\ \A r \in Row : row'[r] \in {"FAILED", "SKIPPED"} => row[r] \in {"FAILED", "SKIPPED"}
  <2>1. upload'.status = "COMPLETED" => upload.status = "COMPLETED"
    BY <1>2
    DEF Serve, AskDelete, ReadForCancel, SaveCancelled, Delete, AskRetry, ResetFailedRows, Requeue, RequestFails
  <2>2. QED
    BY <1>2, <2>1, RequestKeeps, RequestRows
<1>3. ASSUME NEW w \in Worker, ProcessUpload(w) \/ Crash(w) PROVE CleanEnd'
  <2>1. \A v \in Worker : v = w
    BY DEF OneWorker
  <2>2. QED
    BY <1>1, <1>3, <2>1 DEF CleanEnd, RowsIn
<1>4. ASSUME NEW q \in Request, Serve(q) PROVE CleanEnd'
  BY <1>2, <1>4 DEF CleanEnd, RowsIn, Concludes
<1>5. QED
  BY <1>3, <1>4 DEF Next

LEMMA SoleStep == OneWorker /\ IInv /\ [Next]_vars => IInv'
<1>1. ASSUME OneWorker, IInv, Next PROVE IInv'
  BY <1>1, SharedStep, InHandStep, CopiesCountedStep, CleanEndStep DEF IInv, SharedInv, SoleInv
<1>2. ASSUME IInv, UNCHANGED vars PROVE IInv'
  <2>1. SharedInv'
    BY <1>2, SharedStep DEF IInv
  <2>2. InHandPending' /\ CleanEnd'
    BY <1>2 DEF vars, IInv, SoleInv, InHandPending, CleanEnd, Concludes, RowsIn
  <2>3. CopiesCounted'
    BY <1>2 DEF vars, IInv, SoleInv, CopiesCounted, Copies, Firm, RowsIn
  <2>4. QED
    BY <2>1, <2>2, <2>3 DEF IInv, SoleInv
<1>3. QED
  BY <1>1, <1>2

\* With one polling process, for any file, batch size, concurrency, and any number of requests
\* and faults: no row is counted as succeeded that did not succeed, no succeeded row is about
\* to be submitted again, and COMPLETED hides no failed row.
THEOREM UploadAccounted == OneWorker => (Spec => []RowsAccounted)
<1> SUFFICES ASSUME OneWorker PROVE Spec => []RowsAccounted
  OBVIOUS
<1>1. Init => IInv
  BY InitShared, InitSole DEF IInv
<1>2. IInv /\ [Next]_vars => IInv'
  BY SoleStep
<1>3. IInv => RowsAccounted
  <2> SUFFICES ASSUME IInv PROVE RowsAccounted
    OBVIOUS
  <2>1. TypeOK /\ SucceededIsAccepted /\ CountersAgree
    BY DEF IInv, SharedInv, CopiesAgree, Copies, CountersAgree
  <2>2. CountedSucceeded
    <3>1. SUFFICES ASSUME RowsIn({"GONE"}) = {} PROVE upload.n.succeeded <= Cardinality(RowsIn({"SUCCEEDED"}))
      BY DEF CountedSucceeded
    <3>2. PICK w \in Worker : TRUE
      BY DEF OneWorker
    <3>3. upload.n.succeeded + worker[w].good <= Cardinality(Firm)
      BY <3>1 DEF IInv, SoleInv, CopiesCounted, Copies
    <3>4. Firm \in SUBSET RowsIn({"SUCCEEDED"}) /\ RowsIn({"SUCCEEDED"}) \in SUBSET Row
      BY DEF Firm, RowsIn
    <3>5. IsFiniteSet(RowsIn({"SUCCEEDED"})) /\ Cardinality(RowsIn({"SUCCEEDED"})) \in Nat
      BY <3>4, FiniteRows
    <3>6. Cardinality(Firm) <= Cardinality(RowsIn({"SUCCEEDED"}))
      BY <3>4, <3>5, FS_Subset
    <3>7. upload.n.succeeded \in Nat /\ worker[w].good \in Nat /\ Cardinality(Firm) \in Nat
      BY <2>1, WorkerFields, FirmFinite, Constants DEF TypeOK, Counters, WorkerState
    <3>8. QED
      BY <3>3, <3>5, <3>6, <3>7
  <2>3. SubmitsPending
    BY DEF IInv, SoleInv, InHandPending, InHand, SubmitsPending
  <2>4. CompletedIsClean
    BY DEF IInv, SoleInv, CleanEnd, CompletedIsClean
  <2>5. QED
    BY <2>1, <2>2, <2>3, <2>4 DEF RowsAccounted
<1>4. QED
  BY <1>1, <1>2, <1>3, PTL DEF Spec

-----------------------------------------------------------------------------
(***************************************************************************)
(* The breakers of the two clients.  When one opens, every call under way  *)
(* was admitted before, and none is admitted while it stays open.          *)
(***************************************************************************)
CallRecord == [pc : {"call"}, attempt : 1 .. MAX_RETRIES, early : BOOLEAN]
Waiting(c) == call[c] # Idle

CallTypes ==
  /\ state \in State /\ consecutiveFailures \in 0 .. Threshold + 1 /\ age \in 0 .. Cooldown
  /\ call \in [Call -> {Idle} \cup CallRecord]

AdmittedEarly == state = "OPEN" => \A c \in Call : Waiting(c) => call[c].early

BreakerInv == CallTypes /\ NoMissedTrip /\ AdmittedEarly
BreakerBounds == Threshold \in Nat \ {0} /\ Cooldown \in Nat /\ MAX_RETRIES \in Nat \ {0}

LEMMA BreakerStarts == BreakerBounds /\ BreakerInit => BreakerInv
BY DEF BreakerBounds, BreakerInit, BreakerInv, CallTypes, NoMissedTrip, AdmittedEarly, State, Waiting

\* What happens to the calls when one of them is answered.
LEMMA AnsweredFacts ==
  ASSUME CallTypes, NEW c \in Call
  PROVE  /\ Answered(c) \in [Call -> {Idle} \cup CallRecord]
         /\ Answered(c)[c] = Idle
         /\ \A d \in Call \ {c} : Answered(c)[d] = call[d]
BY DEF CallTypes, Answered

LEMMA OpenedFacts ==
  ASSUME NEW f \in [Call -> {Idle} \cup CallRecord]
  PROVE  /\ Opened(f) \in [Call -> {Idle} \cup CallRecord]
         /\ state # "OPEN" /\ state' = "OPEN" => \A d \in Call : Opened(f)[d] # Idle => Opened(f)[d].early
         /\ ~ (state # "OPEN" /\ state' = "OPEN") => Opened(f) = f
<1>1. \A k \in CallRecord : [k EXCEPT !.early = TRUE] \in CallRecord /\ [k EXCEPT !.early = TRUE].early
  BY DEF CallRecord
<1>2. \A d \in Call : Opened(f)[d] = IF f[d] # Idle /\ state # "OPEN" /\ state' = "OPEN"
                                    THEN [f[d] EXCEPT !.early = TRUE] ELSE f[d]
  BY DEF Opened
<1>3. \A d \in Call : f[d] # Idle => f[d] \in CallRecord
  OBVIOUS
<1>4. DOMAIN Opened(f) = Call /\ Opened(f) = [d \in Call |-> Opened(f)[d]]
  BY DEF Opened
<1>5. \A d \in Call : Opened(f)[d] \in {Idle} \cup CallRecord
  BY <1>1, <1>2, <1>3
<1>6. QED
  BY <1>1, <1>2, <1>3, <1>4, <1>5

LEMMA BreakerSteps ==
  BreakerBounds /\ BreakerInv /\ [BreakerNext]_breakerVars => BreakerInv' /\ CooldownRespected
<1> SUFFICES ASSUME BreakerBounds, BreakerInv, [BreakerNext]_breakerVars PROVE BreakerInv' /\ CooldownRespected
  OBVIOUS
<1> USE DEF BreakerInv
<1>1. ASSUME NEW c \in Call, Begin(c) PROVE BreakerInv' /\ CooldownRespected
  <2>1. [pc |-> "call", attempt |-> 1, early |-> FALSE] \in CallRecord
    BY DEF CallRecord, BreakerBounds
  <2>2. CallTypes'
    BY <1>1, <2>1 DEF Begin, CallTypes, State
  <2>3. state' # "OPEN" /\ consecutiveFailures' = consecutiveFailures
    BY <1>1 DEF Begin
  <2>4. NoMissedTrip' /\ AdmittedEarly'
    BY <1>1, <2>3 DEF Begin, NoMissedTrip, AdmittedEarly
  <2>5. CooldownRespected
    BY <1>1 DEF Begin, Admitted, CooldownRespected
  <2>6. QED
    BY <2>2, <2>4, <2>5
<1>2. ASSUME NEW c \in Call, Success(c) PROVE BreakerInv' /\ CooldownRespected
  <2>1. /\ state' = "CLOSED" /\ consecutiveFailures' = 0 /\ age' = age
        /\ call' = Answered(c) /\ call[c].pc = "call"
    BY <1>2 DEF Success, AfterSuccess
  <2>2. CallTypes'
    BY <2>1, AnsweredFacts DEF CallTypes, State, BreakerBounds
  <2>3. NoMissedTrip' /\ AdmittedEarly'
    BY <2>1 DEF NoMissedTrip, AdmittedEarly, BreakerBounds
  <2>4. call[c] # Idle /\ call'[c] = Idle
    BY <2>1, AnsweredFacts DEF Idle
  <2>5. CooldownRespected
    BY <2>4 DEF CooldownRespected, AdmittedEarly, Waiting
  <2>6. QED
    BY <2>2, <2>3, <2>5
<1>3. ASSUME NEW c \in Call, Retry(c) PROVE BreakerInv' /\ CooldownRespected
  <2>1. call[c] \in CallRecord
    BY <1>3 DEF Retry, CallTypes, Idle
  <2>2. /\ [call[c] EXCEPT !.attempt = @ + 1] \in CallRecord
        /\ [call[c] EXCEPT !.attempt = @ + 1].early = call[c].early
    BY <1>3, <2>1 DEF Retry, CallRecord, BreakerBounds
  <2>3. /\ UNCHANGED <<state, consecutiveFailures, age>>
        /\ call' = [call EXCEPT ![c] = [call[c] EXCEPT !.attempt = @ + 1]]
    BY <1>3 DEF Retry
  <2>4. CallTypes' /\ NoMissedTrip' /\ CooldownRespected
    BY <2>2, <2>3 DEF CallTypes, NoMissedTrip, CooldownRespected
  <2>5. call[c] # Idle
    BY <1>3 DEF Retry, Idle
  <2>6. AdmittedEarly'
    BY <2>2, <2>3, <2>5 DEF AdmittedEarly, Waiting, CallTypes
  <2>7. QED
    BY <2>4, <2>6
<1>4. ASSUME NEW c \in Call, Failure(c) PROVE BreakerInv' /\ CooldownRespected
  <2> DEFINE n == consecutiveFailures + 1
  <2>1. /\ consecutiveFailures' = Saturated(n) /\ age' = 0
        /\ state' = IF state # "OPEN" /\ Trips(n) THEN "OPEN" ELSE state
        /\ call' = Opened(Answered(c))
    BY <1>4 DEF Failure, AfterFailure
  <2>2. n \in 1 .. Threshold + 2 /\ Saturated(n) \in 0 .. Threshold + 1
    BY DEF CallTypes, Saturated, BreakerBounds
  <2>3. call' \in [Call -> {Idle} \cup CallRecord]
    BY <2>1, AnsweredFacts, OpenedFacts
  <2>4. CallTypes'
    BY <2>1, <2>2, <2>3 DEF CallTypes, State, BreakerBounds
  <2>5. NoMissedTrip'
    BY <2>1, <2>2 DEF NoMissedTrip, Trips, Saturated, CallTypes, State, BreakerBounds
  <2>6. AdmittedEarly'
    <3>1. CASE state = "OPEN"
      <4>1. call' = Answered(c)
        BY <2>1, <3>1, AnsweredFacts, OpenedFacts
      <4>2. \A d \in Call : Waiting(d)' => Waiting(d) /\ call'[d] = call[d]
        BY <4>1, AnsweredFacts DEF Waiting
      <4>3. QED
        BY <3>1, <4>2 DEF AdmittedEarly
    <3>2. CASE state # "OPEN"
      BY <2>1, <3>2, AnsweredFacts, OpenedFacts DEF AdmittedEarly, Waiting
    <3>3. QED
      BY <3>1, <3>2
  <2>7. CooldownRespected
    BY <2>1 DEF CooldownRespected
  <2>8. QED
    BY <2>4, <2>5, <2>6, <2>7
<1>5. ASSUME NEW c \in Call, Refused(c) PROVE BreakerInv' /\ CooldownRespected
  <2>1. UNCHANGED <<state, consecutiveFailures, age>> /\ call' = Answered(c)
    BY <1>5 DEF Refused
  <2>2. \A d \in Call : Waiting(d)' => Waiting(d) /\ call'[d] = call[d]
    BY <2>1, AnsweredFacts DEF Waiting
  <2>3. CallTypes'
    BY <2>1, AnsweredFacts DEF CallTypes
  <2>4. QED
    BY <2>1, <2>2, <2>3 DEF NoMissedTrip, AdmittedEarly, CooldownRespected
<1>6. CASE Tick \/ Recover \/ UNCHANGED breakerVars
  <2>1. UNCHANGED <<state, consecutiveFailures, call>> /\ age' \in 0 .. Cooldown
    BY <1>6 DEF Tick, Recover, breakerVars, CallTypes, BreakerBounds
  <2>2. QED
    BY <2>1 DEF CallTypes, NoMissedTrip, AdmittedEarly, Waiting, CooldownRespected
<1>7. QED
  BY <1>1, <1>2, <1>3, <1>4, <1>5, <1>6 DEF BreakerNext

\* However calls overlap, a closed breaker is short of its threshold, and an open one is left only after a full
\* cooldown without failures or by the success of a call admitted before it opened.
THEOREM BreakersHold == BreakerBounds => (BreakerSpec => BreakersSafe)
<1> SUFFICES ASSUME BreakerBounds PROVE BreakerSpec => BreakersSafe
  OBVIOUS
<1>1. BreakerInit => BreakerInv
  BY BreakerStarts
<1>2. BreakerInv /\ [BreakerNext]_breakerVars => BreakerInv' /\ CooldownRespected
  BY BreakerSteps
<1>3. BreakerInv => BreakerTypeOK /\ NoMissedTrip
  BY DEF BreakerInv, CallTypes, BreakerTypeOK, CallRecord
<1>4. QED
  BY <1>1, <1>2, <1>3, PTL DEF BreakerSpec, BreakersSafe

-----------------------------------------------------------------------------
(***************************************************************************)
(* Uploads in groups.  A row that has gone out is marked so or about to be,*)
(* a group that has gone out is among those processed, and the record with *)
(* the batch under way counts the rows by their outcome.                   *)
(***************************************************************************)
Pending == Having({"PENDING"})
Succeeded == Having({"SUCCEEDED"})
Outcome == {"SUCCEEDED", "FAILED", "SKIPPED"}
Where == {"claim", "fetch", "group", "write", "count", "rows", "row", "finish", "idle"}

RunTypes ==
  /\ batchSize \in Nat
  /\ groupRow \in [FileRow -> {"PENDING"} \cup Outcome]
  /\ run \in [at : Where, offset : Nat, batch : SUBSET FileRow, processed : SUBSET {GroupOf[r] : r \in FileRow},
              rows : SUBSET FileRow, outcome : {"none"} \cup Outcome, size : Nat, next : {"fetch", "rows"}, good : Nat,
              bad : Nat]
  /\ groupCounters \in [good : Nat, bad : Nat] /\ groupUpload \in Done \cup {"PROCESSING"}
  /\ sent \in Seq(SUBSET FileRow)
  /\ groupFaults \in Nat /\ retried \in Nat

\* Between batches nothing is left to count; the result file is written at the end of a run and
\* taken back by a retry; rows go out one by one only after a retry.
Phases ==
  /\ run.at = "idle" <=> groupUpload \in Done
  /\ run.at # "idle" => result = <<>>
  /\ run.at = "idle" /\ result # <<>> => result = groupRow
  /\ run.at \in {"claim", "fetch", "rows", "finish", "idle"} => run.good = 0 /\ run.bad = 0
  /\ run.at = "claim" => run.offset = 0 /\ run.processed = {}
  /\ run.next = "rows" \/ run.at \in {"rows", "row"} => retried > 0

\* The rows in hand are pending.
GroupHands ==
  /\ run.at \in {"group", "write", "row"} => run.batch \subseteq Pending
  /\ run.at = "write" => run.rows \subseteq Pending /\ run.rows \cap run.batch = {} /\ run.outcome \in Outcome

\* The record and the batch under way count the rows.
GroupsCounted ==
  /\ groupCounters.good + run.good = Cardinality(Succeeded)
  /\ groupCounters.bad + run.bad = Cardinality(BadRows)

\* A row has gone out exactly if it is, or is about to be, marked so.
Marked(r) == groupRow[r] = "SUCCEEDED" \/ (run.at = "write" /\ run.outcome = "SUCCEEDED" /\ r \in run.rows)
Gone(r) == \E i \in DOMAIN sent : r \in sent[i]
ItemsGone ==
  /\ \A r \in FileRow : Marked(r) => Gone(r)
  /\ groupFaults = 0 => /\ \A r \in FileRow : Gone(r) => Marked(r)
                        /\ \A i, j \in DOMAIN sent : i # j => sent[i] \cap sent[j] = {}

\* In the first run a group that went out is among those processed.
Named(i) == GroupOf[Min(sent[i])]
GroupsGone ==
  retried = 0 => /\ run.at # "idle" => \A i \in DOMAIN sent : Named(i) \in run.processed
                 /\ \A i, j \in DOMAIN sent : i # j => Named(i) # Named(j)

\* A file that fits is fetched once, and then nothing is pending but what is in hand.
Untaken == \A r \in run.batch : GroupOf[r] \notin run.processed
WholeFile ==
  FileRows <= batchSize /\ groupFaults = 0 =>
    /\ run.at \in {"count", "finish", "idle"} => Pending = {}
    /\ run.at = "fetch" => (run.offset = 0 /\ run.processed = {}) \/ Pending = {}
    /\ run.at = "rows" => run.offset = 0 \/ Pending = {}
    /\ run.at = "group" => Pending = run.batch /\ Untaken
    /\ run.at = "write" => Pending = run.batch \cup run.rows /\ Untaken
    /\ run.at = "row" => Pending = run.batch

GroupsInv == RunTypes /\ Phases /\ GroupHands /\ GroupsCounted /\ ItemsGone /\ GroupsGone /\ WholeFile

-----------------------------------------------------------------------------

LEMMA FiniteFile ==
  ASSUME NEW S \in SUBSET FileRow
  PROVE  IsFiniteSet(S) /\ Cardinality(S) \in Nat /\ Cardinality(S) <= FileRows /\ S \subseteq Nat
<1>1. 1 \in Int /\ FileRows \in Int /\ FileRows \in Nat
  BY FilesAssumption
<1>2. IsFiniteSet(FileRow) /\ Cardinality(FileRow) = FileRows
  BY <1>1, FS_Interval DEF FileRow
<1>3. IsFiniteSet(S) /\ Cardinality(S) <= FileRows
  BY <1>2, FS_Subset
<1>4. S \subseteq Nat
  BY <1>1 DEF FileRow
<1>5. QED
  BY <1>3, <1>4, FS_CardinalityType

LEMMA Least ==
  ASSUME NEW T, T \subseteq Nat, T # {}
  PROVE  \E i \in T : \A j \in T : i <= j
<1> DEFINE Upto == {1 .. i : i \in T}
           R == StrictSubsetOrdering(Nat)
<1>1. IsWellFoundedOn(R, FiniteSubsetsOf(Nat))
  BY FS_StrictSubsetOrderingWellFounded
<1>2. Upto \subseteq FiniteSubsetsOf(Nat) /\ Upto # {}
  <2>1. ASSUME NEW i \in T PROVE 1 .. i \in FiniteSubsetsOf(Nat)
    <3>1. 1 \in Int /\ i \in Int /\ 1 .. i \in SUBSET Nat
      OBVIOUS
    <3>2. IsFiniteSet(1 .. i)
      BY <3>1, FS_Interval
    <3>3. QED
      BY <3>1, <3>2 DEF FiniteSubsetsOf
  <2>2. QED
    BY <2>1
<1>3. \E x \in Upto : \A y \in Upto : ~ (<<y, x>> \in R)
  <2> HIDE DEF Upto, R
  <2>1. QED
    BY <1>1, <1>2, WFMin
<1>4. PICK i \in T : \A y \in Upto : ~ (<<y, 1 .. i>> \in R)
  BY <1>3
<1>5. ASSUME NEW j \in T, j < i PROVE FALSE
  <2>1. 1 .. j \in SUBSET Nat /\ 1 .. i \in SUBSET Nat /\ 1 .. j \subseteq 1 .. i /\ i \in Nat
    BY <1>5
  <2>2. i \in 1 .. i /\ i \notin 1 .. j
    BY <1>5
  <2>3. <<1 .. j, 1 .. i>> \in R
    BY <2>1, <2>2 DEF StrictSubsetOrdering
  <2>4. QED
    BY <1>4, <2>3
<1>6. QED
  BY <1>4, <1>5

LEMMA MinFacts ==
  ASSUME NEW S, S \subseteq Nat, S # {}
  PROVE  Min(S) \in S
BY Least DEF Min

\* What the next batch may hold, and that a small file is fetched whole.
LEMMA PendingFetched ==
  ASSUME RunTypes
  PROVE  /\ PendingBatch \subseteq Pending /\ Cardinality(PendingBatch) \in Nat
         /\ (run.offset = 0 /\ FileRows <= batchSize => PendingBatch = Pending)
<1>1. Pending \in SUBSET FileRow /\ PendingBatch \subseteq Pending /\ PendingBatch \in SUBSET FileRow
  BY DEF Pending, PendingBatch, Having
<1>2. ASSUME run.offset = 0, FileRows <= batchSize, NEW r \in Pending PROVE r \in PendingBatch
  <2> DEFINE upTo == {q \in Pending : q <= r}
  <2>1. upTo \in SUBSET FileRow /\ r \in Nat
    BY <1>1, FiniteFile
  <2>2. IsFiniteSet(upTo) /\ Cardinality(upTo) \in Nat /\ Cardinality(upTo) <= FileRows
    BY <2>1, FiniteFile
  <2>3. r \in upTo
    BY <2>1
  <2>4. Cardinality(upTo) # 0
    BY <2>2, <2>3, FS_EmptySet
  <2>5. batchSize \in Nat /\ FileRows \in Nat
    BY FilesAssumption DEF RunTypes
  <2>6. Cardinality(upTo) \in run.offset + 1 .. run.offset + batchSize
    BY <1>2, <2>2, <2>4, <2>5
  <2>7. QED
    BY <1>2, <2>6 DEF PendingBatch, Pending
<1>3. QED
  BY <1>1, <1>2, FiniteFile

LEMMA NextRowsFacts ==
  ASSUME RunTypes, Fresh(run.batch) # {}
  PROVE  /\ NextRows \subseteq run.batch /\ NextRows # {} /\ NextRows \in SUBSET FileRow
         /\ Min(NextRows) \in NextRows /\ GroupOf[Min(NextRows)] \notin run.processed
         /\ \A r \in run.batch : GroupOf[r] = GroupOf[Min(NextRows)] => r \in NextRows
<1> DEFINE fresh == Fresh(run.batch)
           first == Min(fresh)
<1>1. run.batch \in SUBSET FileRow
  BY DEF RunTypes
<1>2. fresh \in SUBSET FileRow /\ fresh \subseteq run.batch /\ fresh # {}
  BY <1>1 DEF Fresh
<1>3. first \in fresh
  <2>1. fresh \subseteq Nat
    BY <1>2, FiniteFile
  <2> HIDE DEF fresh
  <2>2. QED
    BY <1>2, <2>1, MinFacts
<1>4. NextRows = {r \in fresh : GroupOf[r] = GroupOf[first]}
  BY DEF NextRows
<1>5. first \in NextRows /\ NextRows \in SUBSET FileRow /\ NextRows \subseteq fresh
  BY <1>2, <1>3, <1>4
<1>6. Min(NextRows) \in NextRows
  BY <1>5, FiniteFile, MinFacts
<1>7. GroupOf[Min(NextRows)] = GroupOf[first]
  BY <1>4, <1>6
<1>8. \A r \in fresh : GroupOf[r] \notin run.processed
  BY DEF Fresh
<1>9. \A r \in run.batch : GroupOf[r] \notin run.processed => r \in fresh
  BY DEF Fresh
<1>10. QED
  BY <1>2, <1>3, <1>4, <1>5, <1>6, <1>7, <1>8, <1>9

\* The steps of the worker's loop, field by field.
LEMMA RunSteps ==
  ASSUME RunTypes
  PROVE  /\ \A at \in Where : GroupGoto(at) => run' = [at |-> at, offset |-> run.offset, batch |-> run.batch,
               processed |-> run.processed, rows |-> run.rows, outcome |-> run.outcome, size |-> run.size,
               next |-> run.next, good |-> run.good, bad |-> run.bad]
         /\ \A out \in Outcome : Took(NextRows, out) => run' = [at |-> "write", offset |-> run.offset,
               batch |-> run.batch \ NextRows, processed |-> run.processed \cup {GroupOf[Min(NextRows)]},
               rows |-> NextRows, outcome |-> out, size |-> run.size, next |-> run.next, good |-> run.good,
               bad |-> run.bad]
         /\ run' = AfterBatch => run' = [at |-> IF run.size < batchSize THEN "finish" ELSE run.next, offset |-> run.offset + run.size,
               batch |-> run.batch, processed |-> run.processed, rows |-> run.rows, outcome |-> run.outcome,
               size |-> run.size, next |-> run.next, good |-> 0, bad |-> 0]
<1>1. ASSUME NEW at \in Where, GroupGoto(at)
      PROVE  run' = [at |-> at, offset |-> run.offset, batch |-> run.batch,
               processed |-> run.processed, rows |-> run.rows, outcome |-> run.outcome, size |-> run.size,
               next |-> run.next, good |-> run.good, bad |-> run.bad]
  BY <1>1 DEF RunTypes, GroupGoto
<1>2. ASSUME NEW out \in Outcome, Took(NextRows, out)
      PROVE  run' = [at |-> "write", offset |-> run.offset,
               batch |-> run.batch \ NextRows, processed |-> run.processed \cup {GroupOf[Min(NextRows)]},
               rows |-> NextRows, outcome |-> out, size |-> run.size, next |-> run.next, good |-> run.good,
               bad |-> run.bad]
  BY <1>2 DEF RunTypes, Took
<1>3. ASSUME run' = AfterBatch
      PROVE  run' = [at |-> IF run.size < batchSize THEN "finish" ELSE run.next, offset |-> run.offset + run.size,
               batch |-> run.batch, processed |-> run.processed, rows |-> run.rows, outcome |-> run.outcome,
               size |-> run.size, next |-> run.next, good |-> 0, bad |-> 0]
  BY <1>3 DEF RunTypes, AfterBatch
<1>4. QED
  BY <1>1, <1>2, <1>3

Fetches(kind) ==
  /\ run' = [at |-> IF PendingBatch = {} THEN "finish" ELSE kind, offset |-> run.offset, batch |-> PendingBatch,
             processed |-> run.processed, rows |-> run.rows, outcome |-> run.outcome,
             size |-> Cardinality(PendingBatch), next |-> run.next, good |-> run.good, bad |-> run.bad]
  /\ UNCHANGED <<batchSize, groupRow, recordVars, sent, groupFaults>>

LEMMA Fetching ==
  ASSUME RunTypes
  PROVE  (FetchGroups => Fetches("group")) /\ (FetchRows => Fetches("row"))
BY DEF RunTypes, FetchGroups, FetchRows, Fetches

LEMMA Writing ==
  ASSUME RunTypes, WriteOutcome
  PROVE  run' = [at |-> "group", offset |-> run.offset, batch |-> run.batch,
             processed |-> run.processed, rows |-> run.rows, outcome |-> run.outcome,
             size |-> run.size, next |-> run.next,
             good |-> run.good + (IF run.outcome = "SUCCEEDED" THEN Cardinality(run.rows) ELSE 0),
             bad |-> run.bad + (IF run.outcome = "SUCCEEDED" THEN 0 ELSE Cardinality(run.rows))]
BY DEF RunTypes, WriteOutcome

LEMMA Unrecorded ==
  ASSUME RunTypes, SuccessNotRecorded
  PROVE  run' = [at |-> run.at, offset |-> run.offset, batch |-> run.batch,
             processed |-> run.processed, rows |-> run.rows, outcome |-> "FAILED",
             size |-> run.size, next |-> run.next, good |-> run.good, bad |-> run.bad]
BY DEF RunTypes, SuccessNotRecorded

LEMMA Ending ==
  ASSUME RunTypes, NEW r \in FileRow, NEW out, Ended(r, out)
  PROVE  run' = [at |-> run.at, offset |-> run.offset, batch |-> run.batch \ {r},
             processed |-> run.processed, rows |-> run.rows, outcome |-> run.outcome,
             size |-> run.size, next |-> run.next, good |-> run.good + (IF out = "SUCCEEDED" THEN 1 ELSE 0),
             bad |-> run.bad + (IF out = "SUCCEEDED" THEN 0 ELSE 1)]
BY DEF RunTypes, Ended

LEMMA Retrying ==
  ASSUME RunTypes, RetryUpload
  PROVE  /\ run' = [at |-> "rows", offset |-> 0, batch |-> {}, processed |-> {}, rows |-> {}, outcome |-> "none",
                    size |-> 0, next |-> "rows", good |-> 0, bad |-> 0]
         /\ groupCounters' = [good |-> groupCounters.good, bad |-> 0]
BY DEF RunTypes, RetryUpload, IdleRun

-----------------------------------------------------------------------------

\* Steps that leave rows, events and record alone.
Passes ==
  /\ UNCHANGED <<groupRow, recordVars, sent>> /\ batchSize' \in Nat
  /\ groupFaults' = groupFaults \/ groupFaults' \in Nat \ {0}
  /\ run.at \notin {"write", "idle"} /\ run'.at \notin {"write", "idle"} /\ run'.processed = run.processed

LEMMA SameRows ==
  ASSUME groupRow' = groupRow
  PROVE  Pending' = Pending /\ Succeeded' = Succeeded /\ BadRows' = BadRows
BY DEF Pending, Succeeded, BadRows, Having

LEMMA PassesKeep ==
  ASSUME GroupsInv, Passes
  PROVE  ItemsGone' /\ GroupsGone'
<1>1. ItemsGone'
  <2>1. \A r \in FileRow : (Marked(r)' <=> Marked(r)) /\ (Gone(r)' <=> Gone(r))
    BY DEF Passes, Marked, Gone
  <2>2. groupFaults' = 0 => groupFaults = 0
    BY DEF Passes
  <2>3. QED
    BY <2>1, <2>2 DEF GroupsInv, ItemsGone, Passes
<1>2. GroupsGone'
  <2>1. retried' = retried /\ sent' = sent /\ run'.processed = run.processed
    BY DEF Passes, recordVars
  <2>2. \A i : Named(i)' = Named(i)
    BY <2>1 DEF Named
  <2>3. QED
    BY <2>1, <2>2 DEF GroupsInv, GroupsGone, Passes
<1>3. QED
  BY <1>1, <1>2

LEMMA PassesCount ==
  ASSUME GroupsInv, Passes, groupCounters' = groupCounters, run'.good = run.good, run'.bad = run.bad
  PROVE  GroupsCounted'
BY SameRows DEF Passes, GroupsInv, GroupsCounted

LEMMA ClaimStep == GroupsInv /\ ClaimUpload => GroupsInv'
<1> SUFFICES ASSUME GroupsInv, ClaimUpload PROVE GroupsInv'
  OBVIOUS
<1> USE DEF recordVars
<1>1. run' = [at |-> "fetch", offset |-> run.offset, batch |-> run.batch,
              processed |-> run.processed, rows |-> run.rows, outcome |-> run.outcome, size |-> run.size,
              next |-> run.next, good |-> run.good, bad |-> run.bad]
  BY RunSteps DEF GroupsInv, ClaimUpload, Where
<1>2. Passes
  BY <1>1, FilesAssumption DEF ClaimUpload, Passes
<1>3. RunTypes'
  BY <1>1, FilesAssumption DEF ClaimUpload, GroupsInv, RunTypes, Where
<1>4. Phases'
  BY <1>1 DEF ClaimUpload, GroupsInv, Phases
<1>5. GroupHands'
  BY <1>1, SameRows DEF ClaimUpload, GroupsInv, GroupHands
<1>6. GroupsCounted'
  BY <1>1, <1>2, PassesCount DEF ClaimUpload
<1>7. WholeFile'
  BY <1>1, SameRows DEF ClaimUpload, GroupsInv, Phases, WholeFile
<1>8. QED
  BY <1>2, <1>3, <1>4, <1>5, <1>6, <1>7, PassesKeep DEF GroupsInv

LEMMA FetchStep == GroupsInv /\ (FetchGroups \/ FetchRows) => GroupsInv'
<1> SUFFICES ASSUME GroupsInv, FetchGroups \/ FetchRows PROVE GroupsInv'
  OBVIOUS
<1> USE DEF recordVars
<1>1. PICK kind \in {"group", "row"} :
        Fetches(kind) /\ run.at = (IF kind = "group" THEN "fetch" ELSE "rows")
  BY Fetching DEF GroupsInv, FetchGroups, FetchRows
<1>2. Passes
  BY <1>1 DEF Fetches, Passes, GroupsInv, RunTypes
<1>3. PendingBatch \subseteq Pending /\ Cardinality(PendingBatch) \in Nat /\ PendingBatch \in SUBSET FileRow
      /\ (run.offset = 0 /\ FileRows <= batchSize => PendingBatch = Pending)
  BY PendingFetched DEF GroupsInv, Pending, Having
<1>4. RunTypes'
  BY <1>1, <1>3 DEF Fetches, GroupsInv, RunTypes, Where
<1>5. Phases'
  BY <1>1 DEF Fetches, GroupsInv, Phases
<1>6. GroupHands'
  BY <1>1, <1>3, SameRows DEF Fetches, GroupsInv, GroupHands
<1>7. GroupsCounted'
  BY <1>1, <1>2, PassesCount DEF Fetches
<1>8. WholeFile'
  <2>1. Pending' = Pending
    BY <1>1, SameRows DEF Fetches
  <2>2. Pending = {} => PendingBatch = {}
    BY <1>3
  <2>3. FileRows <= batchSize /\ groupFaults = 0 =>
          Pending = PendingBatch /\ (kind = "group" /\ PendingBatch # {} => run.processed = {})
    BY <1>1, <1>3, <2>2 DEF GroupsInv, WholeFile
  <2>4. QED
    BY <1>1, <2>1, <2>3 DEF Fetches, WholeFile, Untaken
<1>9. QED
  BY <1>2, <1>4, <1>5, <1>6, <1>7, <1>8, PassesKeep DEF GroupsInv

LEMMA EndStep == GroupsInv /\ (BreakerStaysOpen \/ EndGroups \/ EndRows) => GroupsInv'
<1> SUFFICES ASSUME GroupsInv, BreakerStaysOpen \/ EndGroups \/ EndRows PROVE GroupsInv'
  OBVIOUS
<1> USE DEF recordVars
<1>1. run' = [at |-> "count", offset |-> run.offset, batch |-> run.batch,
              processed |-> run.processed, rows |-> run.rows, outcome |-> run.outcome, size |-> run.size,
              next |-> run.next, good |-> run.good, bad |-> run.bad]
  BY RunSteps DEF GroupsInv, BreakerStaysOpen, EndGroups, EndRows, Where
<1>2. /\ UNCHANGED <<batchSize, groupRow, groupCounters, groupUpload, result, retried, sent, original>>
      /\ run.at \in {"group", "row"}
      /\ groupFaults' = groupFaults \/ groupFaults' \in Nat \ {0}
  BY DEF BreakerStaysOpen, EndGroups, EndRows, GroupFault, GroupsInv, RunTypes
<1>3. Passes
  BY <1>1, <1>2 DEF Passes, GroupsInv, RunTypes
<1>4. RunTypes'
  BY <1>1, <1>2 DEF GroupsInv, RunTypes, Where
<1>5. Phases'
  BY <1>1, <1>2 DEF GroupsInv, Phases
<1>6. GroupHands'
  BY <1>1, <1>2 DEF GroupHands
<1>7. GroupsCounted'
  BY <1>1, <1>2, <1>3, PassesCount
<1>8. WholeFile'
  <2>1. Pending' = Pending
    BY <1>2, SameRows
  <2>2. ASSUME FileRows <= batchSize, groupFaults' = 0 PROVE Pending = {}
    <3>1. groupFaults = 0 /\ ~BreakerStaysOpen
      BY <1>2, <2>2 DEF BreakerStaysOpen, GroupFault, GroupsInv, RunTypes
    <3>2. CASE EndRows
      BY <2>2, <3>1, <3>2 DEF GroupsInv, WholeFile, EndRows
    <3>3. CASE EndGroups
      <4>1. Pending = run.batch /\ Untaken /\ Fresh(run.batch) = {}
        BY <2>2, <3>1, <3>3 DEF GroupsInv, WholeFile, EndGroups
      <4>2. QED
        BY <4>1 DEF Untaken, Fresh
    <3>4. QED
      BY <3>1, <3>2, <3>3
  <2>3. QED
    BY <1>1, <1>2, <2>1, <2>2 DEF WholeFile
<1>9. QED
  BY <1>3, <1>4, <1>5, <1>6, <1>7, <1>8, PassesKeep DEF GroupsInv

LEMMA CountStep == GroupsInv /\ CountGroups => GroupsInv'
<1> SUFFICES ASSUME GroupsInv, CountGroups PROVE GroupsInv'
  OBVIOUS
<1> USE DEF recordVars
<1>1. run' = [at |-> IF run.size < batchSize THEN "finish" ELSE run.next, offset |-> run.offset + run.size,
              batch |-> run.batch, processed |-> run.processed, rows |-> run.rows, outcome |-> run.outcome,
              size |-> run.size, next |-> run.next, good |-> 0, bad |-> 0]
  BY RunSteps DEF GroupsInv, CountGroups
<1>2. groupCounters' = [good |-> groupCounters.good + run.good, bad |-> groupCounters.bad + run.bad]
      /\ UNCHANGED <<batchSize, groupRow, groupUpload, result, original, retried, sent, groupFaults>>
      /\ run.at = "count" /\ run.next \in {"fetch", "rows"}
  BY DEF CountGroups, GroupCounted, GroupsInv, RunTypes
<1>3. RunTypes'
  BY <1>1, <1>2 DEF GroupsInv, RunTypes, Where
<1>4. Phases'
  BY <1>1, <1>2 DEF GroupsInv, Phases
<1>5. GroupHands'
  BY <1>1, <1>2 DEF GroupHands
<1>6. GroupsCounted'
  BY <1>1, <1>2, SameRows DEF GroupsInv, GroupsCounted, RunTypes
<1>7. ItemsGone'
  <2>1. \A r \in FileRow : (Marked(r)' <=> Marked(r)) /\ (Gone(r)' <=> Gone(r))
    BY <1>1, <1>2 DEF Marked, Gone
  <2>2. QED
    BY <1>2, <2>1 DEF GroupsInv, ItemsGone
<1>8. GroupsGone'
  <2>1. \A i : Named(i)' = Named(i)
    BY <1>2 DEF Named
  <2>2. QED
    BY <1>1, <1>2, <2>1 DEF GroupsInv, GroupsGone
<1>9. WholeFile'
  BY <1>1, <1>2, SameRows DEF GroupsInv, WholeFile
<1>10. QED
  BY <1>3, <1>4, <1>5, <1>6, <1>7, <1>8, <1>9 DEF GroupsInv

\* One more event.
LEMMA OneMore ==
  ASSUME sent \in Seq(SUBSET FileRow), NEW x \in SUBSET FileRow, sent' = Append(sent, x)
  PROVE  /\ sent' \in Seq(SUBSET FileRow) /\ Len(sent) \in Nat
         /\ DOMAIN sent = 1 .. Len(sent) /\ DOMAIN sent' = 1 .. Len(sent) + 1
         /\ sent'[Len(sent) + 1] = x /\ \A i \in DOMAIN sent : sent'[i] = sent[i]
         /\ \A r : Gone(r)' <=> Gone(r) \/ r \in x
         /\ \A i \in DOMAIN sent' : i \in DOMAIN sent \/ i = Len(sent) + 1
<1>1. /\ sent' \in Seq(SUBSET FileRow) /\ Len(sent) \in Nat
      /\ DOMAIN sent = 1 .. Len(sent) /\ DOMAIN sent' = 1 .. Len(sent) + 1
      /\ sent'[Len(sent) + 1] = x /\ \A i \in DOMAIN sent : sent'[i] = sent[i]
  OBVIOUS
<1>2. \A i \in DOMAIN sent' : i \in DOMAIN sent \/ i = Len(sent) + 1
  BY <1>1
<1>3. \A i \in DOMAIN sent : i \in DOMAIN sent'
  BY <1>1
<1>4. Len(sent) + 1 \in DOMAIN sent'
  BY <1>1
<1>5. \A r : Gone(r)' <=> Gone(r) \/ r \in x
  BY <1>1, <1>2, <1>3, <1>4 DEF Gone
<1>6. QED
  BY <1>1, <1>2, <1>5

LEMMA SubmitStep == GroupsInv /\ SubmitGroup => GroupsInv'
<1> SUFFICES ASSUME GroupsInv, SubmitGroup PROVE GroupsInv'
  OBVIOUS
<1> USE DEF recordVars
<1>1. /\ run.at = "group" /\ Fresh(run.batch) # {}
      /\ UNCHANGED <<batchSize, groupRow, groupUpload, groupCounters, result, original, retried>>
  BY DEF SubmitGroup
<1>2. PICK out \in Outcome :
        /\ Took(NextRows, out)
        /\ sent' = sent \/ sent' = Append(sent, NextRows)
        /\ out = "SUCCEEDED" => sent' = Append(sent, NextRows)
        /\ groupFaults' \in Nat
        /\ groupFaults' = 0 => groupFaults = 0 /\ (out # "SUCCEEDED" => sent' = sent)
  BY DEF SubmitGroup, GroupFault, Outcome, GroupsInv, RunTypes
<1>3. /\ NextRows \subseteq run.batch /\ NextRows # {} /\ NextRows \in SUBSET FileRow
      /\ Min(NextRows) \in NextRows /\ GroupOf[Min(NextRows)] \notin run.processed
      /\ \A r \in run.batch : GroupOf[r] = GroupOf[Min(NextRows)] => r \in NextRows
  BY <1>1, NextRowsFacts DEF GroupsInv
<1>4. run' = [at |-> "write", offset |-> run.offset,
              batch |-> run.batch \ NextRows, processed |-> run.processed \cup {GroupOf[Min(NextRows)]},
              rows |-> NextRows, outcome |-> out, size |-> run.size, next |-> run.next, good |-> run.good,
              bad |-> run.bad]
  BY <1>2, RunSteps DEF GroupsInv
<1>5. sent \in Seq(SUBSET FileRow) /\ sent' \in Seq(SUBSET FileRow)
  BY <1>2, <1>3, OneMore DEF GroupsInv, RunTypes
<1>6. RunTypes'
  <2>1. run' \in [at : Where, offset : Nat, batch : SUBSET FileRow, processed : SUBSET {GroupOf[r] : r \in FileRow},
                  rows : SUBSET FileRow, outcome : {"none"} \cup Outcome, size : Nat, next : {"fetch", "rows"}, good : Nat,
                  bad : Nat]
    BY <1>3, <1>4 DEF GroupsInv, RunTypes, Where
  <2>2. QED
    BY <1>1, <1>2, <1>5, <2>1 DEF GroupsInv, RunTypes
<1>7. Phases'
  BY <1>1, <1>4 DEF GroupsInv, Phases
<1>8. Pending' = Pending /\ Succeeded' = Succeeded /\ BadRows' = BadRows
  BY <1>1, SameRows
<1>9. GroupHands'
  BY <1>1, <1>3, <1>4, <1>8 DEF GroupsInv, GroupHands
<1>10. GroupsCounted'
  BY <1>1, <1>4, <1>8 DEF GroupsInv, GroupsCounted
<1>11. ItemsGone'
  <2>1. \A r \in FileRow : Marked(r)' <=> Marked(r) \/ (out = "SUCCEEDED" /\ r \in NextRows)
    BY <1>1, <1>4 DEF Marked
  <2>2. CASE sent' = sent
    <3>1. out # "SUCCEEDED" \/ sent = Append(sent, NextRows)
      BY <1>2, <2>2
    <3>2. out # "SUCCEEDED"
      <4>1. Len(sent) \in Nat /\ Len(Append(sent, NextRows)) = Len(sent) + 1
        BY <1>3, <1>5
      <4>2. QED
        BY <3>1, <4>1
    <3>3. \A r \in FileRow : (Marked(r)' <=> Marked(r)) /\ (Gone(r)' <=> Gone(r))
      BY <2>1, <2>2, <3>2 DEF Gone
    <3>4. QED
      BY <1>2, <2>2, <3>3 DEF GroupsInv, ItemsGone
  <2>3. CASE sent' = Append(sent, NextRows)
    <3>1. /\ \A r : Gone(r)' <=> Gone(r) \/ r \in NextRows
          /\ sent'[Len(sent) + 1] = NextRows /\ \A i \in DOMAIN sent : sent'[i] = sent[i]
          /\ \A i \in DOMAIN sent' : i \in DOMAIN sent \/ i = Len(sent) + 1
      BY <1>3, <1>5, <2>3, OneMore
    <3>2. groupFaults' = 0 => groupFaults = 0 /\ out = "SUCCEEDED"
      <4>1. sent' # sent
        <5>1. Len(sent) \in Nat /\ Len(Append(sent, NextRows)) = Len(sent) + 1
          BY <1>3, <1>5
        <5>2. QED
          BY <2>3, <5>1
      <4>2. QED
        BY <1>2, <4>1
    <3>3. groupFaults = 0 => \A i \in DOMAIN sent : sent[i] \cap NextRows = {}
      <4>1. ASSUME groupFaults = 0, NEW i \in DOMAIN sent, NEW r \in sent[i], r \in NextRows PROVE FALSE
        <5>1. r \in FileRow /\ r \in Pending
          BY <1>1, <1>3, <4>1 DEF GroupsInv, GroupHands
        <5>2. Marked(r)
          BY <4>1, <5>1 DEF GroupsInv, ItemsGone, Gone
        <5>3. QED
          BY <1>1, <5>1, <5>2 DEF Marked, Pending, Having
      <4>2. QED
        BY <4>1
    <3>4. \A r \in FileRow : Marked(r)' => Gone(r)'
      BY <2>1, <3>1 DEF GroupsInv, ItemsGone
    <3>5. ASSUME groupFaults' = 0 PROVE \A r \in FileRow : Gone(r)' => Marked(r)'
      BY <2>1, <3>1, <3>2, <3>5 DEF GroupsInv, ItemsGone
    <3>6. ASSUME groupFaults' = 0, NEW i \in DOMAIN sent', NEW j \in DOMAIN sent', i # j PROVE sent'[i] \cap sent'[j] = {}
      <4>1. groupFaults = 0 /\ \A k, l \in DOMAIN sent : k # l => sent[k] \cap sent[l] = {}
        BY <3>2, <3>6 DEF GroupsInv, ItemsGone
      <4>2. CASE i \in DOMAIN sent /\ j \in DOMAIN sent
        BY <3>1, <3>6, <4>1, <4>2
      <4>3. CASE i \in DOMAIN sent /\ j = Len(sent) + 1
        BY <3>1, <3>3, <4>1, <4>3
      <4>4. CASE j \in DOMAIN sent /\ i = Len(sent) + 1
        BY <3>1, <3>3, <4>1, <4>4
      <4>5. QED
        BY <3>1, <3>6, <4>2, <4>3, <4>4
    <3>7. QED
      BY <3>4, <3>5, <3>6 DEF ItemsGone
  <2>4. QED
    BY <1>2, <2>2, <2>3
<1>12. GroupsGone'
  <2>1. retried' = retried /\ run'.processed = run.processed \cup {GroupOf[Min(NextRows)]}
    BY <1>1, <1>4
  <2>2. retried = 0 => /\ \A i \in DOMAIN sent : Named(i) \in run.processed
                       /\ \A i, j \in DOMAIN sent : i # j => Named(i) # Named(j)
    BY <1>1 DEF GroupsInv, GroupsGone
  <2>3. CASE sent' = sent
    <3>1. \A i : Named(i)' = Named(i)
      BY <2>3 DEF Named
    <3>2. QED
      BY <2>1, <2>2, <2>3, <3>1 DEF GroupsGone
  <2>4. CASE sent' = Append(sent, NextRows)
    <3>1. PICK n : /\ sent'[n] = NextRows /\ \A i \in DOMAIN sent : sent'[i] = sent[i]
                   /\ \A i \in DOMAIN sent' : i \in DOMAIN sent \/ i = n
      BY <1>3, <1>5, <2>4, OneMore
    <3>2. /\ \A i \in DOMAIN sent : Named(i)' = Named(i)
          /\ Named(n)' = GroupOf[Min(NextRows)]
      BY <3>1 DEF Named
    <3>3. retried' = 0 => \A i \in DOMAIN sent' : Named(i)' \in run'.processed
      BY <2>1, <2>2, <3>1, <3>2
    <3>4. ASSUME retried' = 0, NEW i \in DOMAIN sent', NEW j \in DOMAIN sent', i # j PROVE Named(i)' # Named(j)'
      <4>1. \A k \in DOMAIN sent : Named(k) # GroupOf[Min(NextRows)]
        BY <1>3, <2>1, <2>2, <3>4
      <4>2. QED
        BY <2>1, <2>2, <3>1, <3>2, <3>4, <4>1
    <3>5. QED
      BY <3>3, <3>4 DEF GroupsGone
  <2>5. QED
    BY <1>2, <2>3, <2>4
<1>13. WholeFile'
  BY <1>1, <1>2, <1>3, <1>4, <1>8 DEF GroupsInv, WholeFile, Untaken
<1>14. QED
  BY <1>6, <1>7, <1>9, <1>10, <1>11, <1>12, <1>13 DEF GroupsInv

-----------------------------------------------------------------------------

\* Pending rows get an outcome.
LEMMA RowsEnd ==
  ASSUME RunTypes, NEW S \in SUBSET Pending, NEW out \in Outcome,
         groupRow' = [r \in FileRow |-> IF r \in S THEN out ELSE groupRow[r]]
  PROVE  /\ groupRow' \in [FileRow -> {"PENDING"} \cup Outcome]
         /\ Pending' = Pending \ S /\ Cardinality(S) \in Nat
         /\ Cardinality(Succeeded') = Cardinality(Succeeded) + (IF out = "SUCCEEDED" THEN Cardinality(S) ELSE 0)
         /\ Cardinality(BadRows') = Cardinality(BadRows) + (IF out = "SUCCEEDED" THEN 0 ELSE Cardinality(S))
<1>1. S \in SUBSET FileRow /\ \A r \in S : groupRow[r] = "PENDING"
  BY DEF Pending, Having
<1>2. groupRow' \in [FileRow -> {"PENDING"} \cup Outcome] /\ \A r \in FileRow : groupRow'[r] = IF r \in S THEN out ELSE groupRow[r]
  BY DEF RunTypes
<1>3. Pending' = Pending \ S
  BY <1>1, <1>2 DEF Pending, Having, Outcome
<1>4. \A T \in SUBSET FileRow : T \cap S = {} => Cardinality(T \cup S) = Cardinality(T) + Cardinality(S)
  <2> TAKE T \in SUBSET FileRow
  <2> HAVE T \cap S = {}
  <2>1. IsFiniteSet(T) /\ IsFiniteSet(S) /\ Cardinality(T) \in Nat /\ Cardinality(S) \in Nat
    BY <1>1, FiniteFile
  <2>2. Cardinality(T \cup S) = Cardinality(T) + Cardinality(S) - Cardinality(T \cap S)
    BY <2>1, FS_Union
  <2>3. Cardinality(T \cap S) = 0
    BY FS_EmptySet
  <2>4. QED
    BY <2>1, <2>2, <2>3
<1>5. Succeeded \in SUBSET FileRow /\ BadRows \in SUBSET FileRow /\ Succeeded \cap S = {} /\ BadRows \cap S = {}
  BY <1>1 DEF Succeeded, BadRows, Having
<1>6. Cardinality(S) \in Nat /\ Cardinality(Succeeded) \in Nat /\ Cardinality(BadRows) \in Nat
  BY <1>1, <1>5, FiniteFile
<1>7. CASE out = "SUCCEEDED"
  <2>1. Succeeded' = Succeeded \cup S /\ BadRows' = BadRows
    BY <1>1, <1>2, <1>7 DEF Succeeded, BadRows, Having
  <2>2. Cardinality(Succeeded \cup S) = Cardinality(Succeeded) + Cardinality(S)
    BY <1>4, <1>5
  <2>3. QED
    BY <1>2, <1>3, <1>6, <1>7, <2>1, <2>2
<1>8. CASE out \in {"FAILED", "SKIPPED"}
  <2>1. BadRows' = BadRows \cup S /\ Succeeded' = Succeeded
    BY <1>1, <1>2, <1>8 DEF Succeeded, BadRows, Having
  <2>2. Cardinality(BadRows \cup S) = Cardinality(BadRows) + Cardinality(S)
    BY <1>4, <1>5
  <2>3. QED
    BY <1>2, <1>3, <1>6, <1>8, <2>1, <2>2
<1>9. QED
  BY <1>7, <1>8 DEF Outcome

LEMMA WriteStep == GroupsInv /\ WriteOutcome => GroupsInv'
<1> SUFFICES ASSUME GroupsInv, WriteOutcome PROVE GroupsInv'
  OBVIOUS
<1> USE DEF recordVars
<1>1. /\ run.at = "write"
      /\ UNCHANGED <<batchSize, groupUpload, groupCounters, result, original, retried, sent, groupFaults>>
      /\ groupRow' = [r \in FileRow |-> IF r \in run.rows THEN run.outcome ELSE groupRow[r]]
  BY DEF WriteOutcome
<1>2. /\ run.batch \subseteq Pending /\ run.rows \subseteq Pending /\ run.rows \cap run.batch = {}
      /\ run.outcome \in Outcome
  BY <1>1 DEF GroupsInv, GroupHands
<1>3. run' = [at |-> "group", offset |-> run.offset, batch |-> run.batch,
             processed |-> run.processed, rows |-> run.rows, outcome |-> run.outcome,
             size |-> run.size, next |-> run.next,
             good |-> run.good + (IF run.outcome = "SUCCEEDED" THEN Cardinality(run.rows) ELSE 0),
             bad |-> run.bad + (IF run.outcome = "SUCCEEDED" THEN 0 ELSE Cardinality(run.rows))]
  BY Writing DEF GroupsInv
<1>4. /\ groupRow' \in [FileRow -> {"PENDING"} \cup Outcome]
      /\ Pending' = Pending \ run.rows /\ Cardinality(run.rows) \in Nat
      /\ Cardinality(Succeeded') = Cardinality(Succeeded) + (IF run.outcome = "SUCCEEDED" THEN Cardinality(run.rows) ELSE 0)
      /\ Cardinality(BadRows') = Cardinality(BadRows) + (IF run.outcome = "SUCCEEDED" THEN 0 ELSE Cardinality(run.rows))
  BY <1>1, <1>2, RowsEnd DEF GroupsInv
<1>5. RunTypes'
  BY <1>1, <1>3, <1>4 DEF GroupsInv, RunTypes, Where
<1>6. Phases'
  BY <1>1, <1>3 DEF GroupsInv, Phases
<1>7. GroupHands'
  BY <1>2, <1>3, <1>4 DEF GroupHands
<1>8. GroupsCounted'
  <2>1. Cardinality(Succeeded) \in Nat /\ Cardinality(BadRows) \in Nat
    BY FiniteFile DEF Succeeded, BadRows, Having
  <2>2. groupCounters.good + run.good = Cardinality(Succeeded) /\ groupCounters.bad + run.bad = Cardinality(BadRows)
    BY DEF GroupsInv, GroupsCounted
  <2>3. run.good \in Nat /\ run.bad \in Nat /\ groupCounters.good \in Nat /\ groupCounters.bad \in Nat
    BY DEF GroupsInv, RunTypes
  <2>4. QED
    BY <1>1, <1>3, <1>4, <2>1, <2>2, <2>3 DEF GroupsCounted
<1>9. ItemsGone'
  <2>1. ASSUME NEW r \in FileRow PROVE (Marked(r)' <=> Marked(r)) /\ (Gone(r)' <=> Gone(r))
    <3>1. groupRow'[r] = IF r \in run.rows THEN run.outcome ELSE groupRow[r]
      BY <1>1
    <3>2. r \in run.rows => groupRow[r] = "PENDING"
      BY <1>2 DEF Pending, Having
    <3>3. QED
      BY <1>1, <1>3, <3>1, <3>2 DEF Marked, Gone
  <2>2. QED
    BY <1>1, <2>1 DEF GroupsInv, ItemsGone
<1>10. GroupsGone'
  <2>1. \A i : Named(i)' = Named(i)
    BY <1>1 DEF Named
  <2>2. QED
    BY <1>1, <1>3, <2>1 DEF GroupsInv, GroupsGone
<1>11. WholeFile'
  <2>1. ASSUME FileRows <= batchSize, groupFaults = 0 PROVE Pending' = run.batch /\ Untaken
    BY <1>1, <1>2, <1>4, <2>1 DEF GroupsInv, WholeFile
  <2>2. QED
    BY <1>1, <1>3, <2>1 DEF WholeFile, Untaken
<1>12. QED
  BY <1>5, <1>6, <1>7, <1>8, <1>9, <1>10, <1>11 DEF GroupsInv

LEMMA UnrecordedStep == GroupsInv /\ SuccessNotRecorded => GroupsInv'
<1> SUFFICES ASSUME GroupsInv, SuccessNotRecorded PROVE GroupsInv'
  OBVIOUS
<1> USE DEF recordVars
<1>1. /\ run.at = "write" /\ groupFaults' \in Nat \ {0}
      /\ UNCHANGED <<batchSize, groupRow, groupUpload, groupCounters, result, original, retried, sent>>
  BY DEF SuccessNotRecorded, GroupFault, GroupsInv, RunTypes
<1>2. run' = [at |-> run.at, offset |-> run.offset, batch |-> run.batch,
             processed |-> run.processed, rows |-> run.rows, outcome |-> "FAILED",
             size |-> run.size, next |-> run.next, good |-> run.good, bad |-> run.bad]
  BY Unrecorded DEF GroupsInv
<1>3. RunTypes'
  BY <1>1, <1>2 DEF GroupsInv, RunTypes, Outcome
<1>4. Phases'
  BY <1>1, <1>2 DEF GroupsInv, Phases
<1>5. GroupHands' /\ GroupsCounted'
  BY <1>1, <1>2, SameRows DEF GroupsInv, GroupHands, GroupsCounted, Outcome
<1>6. ItemsGone'
  <2>1. \A r \in FileRow : (Marked(r)' => Marked(r)) /\ (Gone(r)' <=> Gone(r))
    BY <1>1, <1>2 DEF Marked, Gone
  <2>2. QED
    BY <1>1, <2>1 DEF GroupsInv, ItemsGone
<1>7. GroupsGone'
  <2>1. \A i : Named(i)' = Named(i)
    BY <1>1 DEF Named
  <2>2. QED
    BY <1>1, <1>2, <2>1 DEF GroupsInv, GroupsGone
<1>8. WholeFile'
  BY <1>1 DEF WholeFile
<1>9. QED
  BY <1>3, <1>4, <1>5, <1>6, <1>7, <1>8 DEF GroupsInv

LEMMA FinishStep == GroupsInv /\ Finish => GroupsInv'
<1> SUFFICES ASSUME GroupsInv, Finish PROVE GroupsInv'
  OBVIOUS
<1>1. /\ run.at = "finish" /\ groupUpload' \in Done
      /\ UNCHANGED <<batchSize, groupRow, groupCounters, retried, sent, groupFaults>>
      /\ run' = [at |-> "idle", offset |-> 0, batch |-> {}, processed |-> {}, rows |-> {}, outcome |-> "none",
                 size |-> 0, next |-> "fetch", good |-> 0, bad |-> 0]
      /\ result' = groupRow \/ result' = result
  BY DEF Finish, GenerateResult, IdleRun, GroupStatus, Done
<1>2. RunTypes'
  BY <1>1 DEF GroupsInv, RunTypes, Where
<1>3. Phases'
  BY <1>1 DEF GroupsInv, Phases
<1>4. GroupHands' /\ GroupsCounted'
  BY <1>1, SameRows DEF GroupsInv, GroupHands, GroupsCounted, Phases
<1>5. ItemsGone'
  <2>1. \A r \in FileRow : (Marked(r)' <=> Marked(r)) /\ (Gone(r)' <=> Gone(r))
    BY <1>1 DEF Marked, Gone
  <2>2. QED
    BY <1>1, <2>1 DEF GroupsInv, ItemsGone
<1>6. GroupsGone'
  <2>1. \A i : Named(i)' = Named(i)
    BY <1>1 DEF Named
  <2>2. QED
    BY <1>1, <2>1 DEF GroupsInv, GroupsGone
<1>7. WholeFile'
  BY <1>1, SameRows DEF GroupsInv, WholeFile
<1>8. QED
  BY <1>2, <1>3, <1>4, <1>5, <1>6, <1>7 DEF GroupsInv

LEMMA RetryStep == GroupsInv /\ RetryUpload => GroupsInv'
<1> SUFFICES ASSUME GroupsInv, RetryUpload PROVE GroupsInv'
  OBVIOUS
<1>1. /\ run.at = "idle" /\ groupUpload' = "PROCESSING" /\ result' = <<>> /\ retried' \in Nat \ {0}
      /\ UNCHANGED <<batchSize, sent, groupFaults>>
      /\ groupRow' = [r \in FileRow |-> IF r \in BadRows THEN "PENDING" ELSE groupRow[r]]
  BY DEF RetryUpload, GroupsInv, RunTypes
<1>2. /\ run' = [at |-> "rows", offset |-> 0, batch |-> {}, processed |-> {}, rows |-> {}, outcome |-> "none",
                 size |-> 0, next |-> "rows", good |-> 0, bad |-> 0]
      /\ groupCounters' = [good |-> groupCounters.good, bad |-> 0]
  BY Retrying DEF GroupsInv
<1>3. groupRow' \in [FileRow -> {"PENDING"} \cup Outcome]
      /\ \A r \in FileRow : groupRow'[r] = IF r \in BadRows THEN "PENDING" ELSE groupRow[r]
  BY <1>1 DEF GroupsInv, RunTypes
<1>4. RunTypes'
  BY <1>1, <1>2, <1>3 DEF GroupsInv, RunTypes, Where, Done
<1>5. Phases'
  BY <1>1, <1>2 DEF GroupsInv, Phases, Done
<1>6. GroupHands'
  BY <1>2 DEF GroupHands
<1>7. Succeeded' = Succeeded /\ BadRows' = {}
  BY <1>3 DEF Succeeded, BadRows, Having
<1>8. GroupsCounted'
  BY <1>1, <1>2, <1>7, FS_EmptySet DEF GroupsInv, GroupsCounted, Phases, RunTypes
<1>9. ItemsGone'
  <2>1. ASSUME NEW r \in FileRow PROVE (Marked(r)' <=> Marked(r)) /\ (Gone(r)' <=> Gone(r))
    <3>1. groupRow'[r] = "SUCCEEDED" <=> groupRow[r] = "SUCCEEDED"
      BY <1>3 DEF BadRows, Having
    <3>2. QED
      BY <1>1, <1>2, <3>1 DEF Marked, Gone
  <2>2. QED
    BY <1>1, <2>1 DEF GroupsInv, ItemsGone
<1>10. GroupsGone'
  BY <1>1 DEF GroupsGone
<1>11. WholeFile'
  BY <1>2 DEF WholeFile
<1>12. QED
  BY <1>4, <1>5, <1>6, <1>8, <1>9, <1>10, <1>11 DEF GroupsInv

LEMMA SingleStep ==
  ASSUME GroupsInv, NEW r \in FileRow, ProcessSingle(r)
  PROVE  GroupsInv'
<1> USE DEF recordVars
<1>1. /\ run.at = "row" /\ r \in run.batch
      /\ UNCHANGED <<batchSize, groupUpload, groupCounters, result, original, retried>>
  BY DEF ProcessSingle
<1>2. PICK out \in Outcome :
        /\ Ended(r, out)
        /\ (sent' = sent /\ out # "SUCCEEDED") \/ sent' = Append(sent, {r})
        /\ groupFaults' \in Nat
        /\ groupFaults' = 0 => groupFaults = 0 /\ (out # "SUCCEEDED" => sent' = sent)
  BY DEF ProcessSingle, GroupFault, Outcome, GroupsInv, RunTypes
<1>3. run' = [at |-> run.at, offset |-> run.offset, batch |-> run.batch \ {r},
              processed |-> run.processed, rows |-> run.rows, outcome |-> run.outcome,
              size |-> run.size, next |-> run.next, good |-> run.good + (IF out = "SUCCEEDED" THEN 1 ELSE 0),
              bad |-> run.bad + (IF out = "SUCCEEDED" THEN 0 ELSE 1)]
  BY <1>2, Ending DEF GroupsInv
<1>4. groupRow' = [q \in FileRow |-> IF q \in {r} THEN out ELSE groupRow[q]]
  BY <1>2 DEF Ended, GroupsInv, RunTypes
<1>5. run.batch \subseteq Pending /\ {r} \in SUBSET Pending
  BY <1>1 DEF GroupsInv, GroupHands
<1>6. /\ groupRow' \in [FileRow -> {"PENDING"} \cup Outcome]
      /\ Pending' = Pending \ {r}
      /\ Cardinality(Succeeded') = Cardinality(Succeeded) + (IF out = "SUCCEEDED" THEN 1 ELSE 0)
      /\ Cardinality(BadRows') = Cardinality(BadRows) + (IF out = "SUCCEEDED" THEN 0 ELSE 1)
  <2>1. Cardinality({r}) = 1
    BY FS_Singleton
  <2>2. QED
    BY <1>4, <1>5, <2>1, RowsEnd DEF GroupsInv
<1>7. sent \in Seq(SUBSET FileRow) /\ sent' \in Seq(SUBSET FileRow) /\ {r} \in SUBSET FileRow
  BY <1>2, OneMore DEF GroupsInv, RunTypes
<1>8. RunTypes'
  <2>1. run' \in [at : Where, offset : Nat, batch : SUBSET FileRow, processed : SUBSET {GroupOf[q] : q \in FileRow},
                  rows : SUBSET FileRow, outcome : {"none"} \cup Outcome, size : Nat, next : {"fetch", "rows"}, good : Nat,
                  bad : Nat]
    BY <1>3 DEF GroupsInv, RunTypes
  <2>2. QED
    BY <1>1, <1>2, <1>6, <1>7, <2>1 DEF GroupsInv, RunTypes
<1>9. Phases' /\ retried' > 0
  BY <1>1, <1>3 DEF GroupsInv, Phases
<1>10. GroupHands'
  BY <1>1, <1>3, <1>5, <1>6 DEF GroupHands
<1>11. GroupsCounted'
  <2>1. Cardinality(Succeeded) \in Nat /\ Cardinality(BadRows) \in Nat
    BY FiniteFile DEF Succeeded, BadRows, Having
  <2>2. groupCounters.good + run.good = Cardinality(Succeeded) /\ groupCounters.bad + run.bad = Cardinality(BadRows)
    BY DEF GroupsInv, GroupsCounted
  <2>3. run.good \in Nat /\ run.bad \in Nat /\ groupCounters.good \in Nat /\ groupCounters.bad \in Nat
    BY DEF GroupsInv, RunTypes
  <2>4. QED
    BY <1>1, <1>3, <1>6, <2>1, <2>2, <2>3 DEF GroupsCounted
<1>12. ItemsGone'
  <2>1. \A q \in FileRow : Marked(q)' <=> Marked(q) \/ (out = "SUCCEEDED" /\ q = r)
    <3>1. ASSUME NEW q \in FileRow PROVE Marked(q)' <=> Marked(q) \/ (out = "SUCCEEDED" /\ q = r)
      <4>1. groupRow'[q] = (IF q = r THEN out ELSE groupRow[q]) /\ groupRow[r] = "PENDING"
        BY <1>4, <1>5 DEF Pending, Having
      <4>2. QED
        BY <1>1, <1>3, <4>1 DEF Marked
    <3>2. QED
      BY <3>1
  <2>2. CASE sent' = sent /\ out # "SUCCEEDED"
    <3>1. \A q \in FileRow : (Marked(q)' <=> Marked(q)) /\ (Gone(q)' <=> Gone(q))
      BY <2>1, <2>2 DEF Gone
    <3>2. QED
      BY <1>2, <2>2, <3>1 DEF GroupsInv, ItemsGone
  <2>3. CASE sent' = Append(sent, {r})
    <3>1. /\ \A q : Gone(q)' <=> Gone(q) \/ q \in {r}
          /\ sent'[Len(sent) + 1] = {r} /\ \A i \in DOMAIN sent : sent'[i] = sent[i]
          /\ \A i \in DOMAIN sent' : i \in DOMAIN sent \/ i = Len(sent) + 1
      <4>1. PICK x \in SUBSET FileRow : x = {r}
        BY <1>7
      <4>2. sent' = Append(sent, x)
        BY <2>3, <4>1
      <4>3. /\ \A q : Gone(q)' <=> Gone(q) \/ q \in x
            /\ sent'[Len(sent) + 1] = x /\ \A i \in DOMAIN sent : sent'[i] = sent[i]
            /\ \A i \in DOMAIN sent' : i \in DOMAIN sent \/ i = Len(sent) + 1
        BY <1>7, <4>2, OneMore
      <4>4. QED
        BY <4>1, <4>3
    <3>2. groupFaults' = 0 => groupFaults = 0 /\ out = "SUCCEEDED"
      <4>1. sent' # sent
        <5>1. Len(sent) \in Nat /\ Len(Append(sent, {r})) = Len(sent) + 1
          BY <1>7
        <5>2. QED
          BY <2>3, <5>1
      <4>2. QED
        BY <1>2, <4>1
    <3>3. groupFaults = 0 => ~Gone(r)
      <4>1. groupRow[r] = "PENDING"
        BY <1>5 DEF Pending, Having
      <4>2. ~Marked(r)
        BY <1>1, <4>1 DEF Marked
      <4>3. QED
        BY <4>2 DEF GroupsInv, ItemsGone
    <3>4. \A q \in FileRow : Marked(q)' => Gone(q)'
      BY <2>1, <3>1 DEF GroupsInv, ItemsGone
    <3>5. ASSUME groupFaults' = 0 PROVE \A q \in FileRow : Gone(q)' => Marked(q)'
      BY <2>1, <3>1, <3>2, <3>5 DEF GroupsInv, ItemsGone
    <3>6. ASSUME groupFaults' = 0, NEW i \in DOMAIN sent', NEW j \in DOMAIN sent', i # j PROVE sent'[i] \cap sent'[j] = {}
      <4>1. groupFaults = 0 /\ \A k, l \in DOMAIN sent : k # l => sent[k] \cap sent[l] = {}
        BY <3>2, <3>6 DEF GroupsInv, ItemsGone
      <4>2. \A k \in DOMAIN sent : sent[k] \cap {r} = {}
        BY <3>3, <4>1 DEF Gone
      <4>3. CASE i \in DOMAIN sent /\ j \in DOMAIN sent
        BY <3>1, <3>6, <4>1, <4>3
      <4>4. CASE i \in DOMAIN sent /\ j = Len(sent) + 1
        BY <3>1, <4>2, <4>4
      <4>5. CASE j \in DOMAIN sent /\ i = Len(sent) + 1
        BY <3>1, <4>2, <4>5
      <4>6. QED
        BY <3>1, <3>6, <4>3, <4>4, <4>5
    <3>7. QED
      BY <3>4, <3>5, <3>6 DEF ItemsGone
  <2>4. QED
    BY <1>2, <2>2, <2>3
<1>13. GroupsGone'
  BY <1>9 DEF GroupsGone
<1>14. WholeFile'
  <2>1. FileRows <= batchSize /\ groupFaults' = 0 => Pending = run.batch
    BY <1>1, <1>2 DEF GroupsInv, WholeFile
  <2>2. QED
    BY <1>1, <1>3, <1>6, <2>1 DEF WholeFile
<1>15. QED
  BY <1>8, <1>9, <1>10, <1>11, <1>12, <1>13, <1>14 DEF GroupsInv

LEMMA GroupsStart == GroupInit => GroupsInv
<1> SUFFICES ASSUME GroupInit PROVE GroupsInv
  OBVIOUS
<1>1. /\ batchSize = 0 /\ groupRow = [r \in FileRow |-> "PENDING"] /\ groupUpload = "PROCESSING"
      /\ groupCounters = [good |-> 0, bad |-> 0] /\ sent = <<>> /\ result = <<>> /\ retried = 0 /\ groupFaults = 0
      /\ run = [at |-> "claim", offset |-> 0, batch |-> {}, processed |-> {}, rows |-> {}, outcome |-> "none",
                size |-> 0, next |-> "fetch", good |-> 0, bad |-> 0]
  BY DEF GroupInit, IdleRun
<1>2. sent \in Seq(SUBSET FileRow) /\ DOMAIN sent = {}
  BY <1>1
<1>3. RunTypes
  <2>1. run \in [at : Where, offset : Nat, batch : SUBSET FileRow, processed : SUBSET {GroupOf[q] : q \in FileRow},
                 rows : SUBSET FileRow, outcome : {"none"} \cup Outcome, size : Nat, next : {"fetch", "rows"}, good : Nat,
                 bad : Nat]
    BY <1>1 DEF Where
  <2>2. QED
    BY <1>1, <1>2, <2>1 DEF RunTypes
<1>4. Phases /\ GroupHands /\ WholeFile
  BY <1>1 DEF Phases, GroupHands, WholeFile, Done
<1>5. Succeeded = {} /\ BadRows = {}
  BY <1>1 DEF Succeeded, BadRows, Having
<1>6. GroupsCounted
  BY <1>1, <1>5, FS_EmptySet DEF GroupsCounted
<1>7. ItemsGone /\ GroupsGone
  BY <1>1, <1>2 DEF ItemsGone, GroupsGone, Marked, Gone
<1>8. QED
  BY <1>3, <1>4, <1>6, <1>7 DEF GroupsInv

LEMMA GroupsStep == GroupsInv /\ [GroupNext]_groupVars => GroupsInv'
<1> SUFFICES ASSUME GroupsInv, [GroupNext]_groupVars PROVE GroupsInv'
  OBVIOUS
<1>1. CASE GroupNext
  BY <1>1, ClaimStep, FetchStep, SubmitStep, EndStep, WriteStep, UnrecordedStep, CountStep, SingleStep, FinishStep, RetryStep
     DEF GroupNext
<1>2. CASE UNCHANGED groupVars
  <2>1. /\ UNCHANGED <<batchSize, groupRow, groupUpload, groupCounters, run, sent, result, original, retried, groupFaults>>
    BY <1>2 DEF groupVars
  <2>2. Pending' = Pending /\ Succeeded' = Succeeded /\ BadRows' = BadRows
    BY <2>1, SameRows
  <2>3. \A r : (Marked(r)' <=> Marked(r)) /\ (Gone(r)' <=> Gone(r)) /\ Named(r)' = Named(r)
    BY <2>1 DEF Marked, Gone, Named
  <2>4. RunTypes' /\ Phases' /\ GroupHands' /\ GroupsCounted' /\ WholeFile'
    BY <2>1, <2>2 DEF GroupsInv, RunTypes, Phases, GroupHands, GroupsCounted, WholeFile, Untaken
  <2>5. ItemsGone' /\ GroupsGone'
    BY <2>1, <2>3 DEF GroupsInv, ItemsGone, GroupsGone
  <2>6. QED
    BY <2>4, <2>5 DEF GroupsInv
<1>3. QED
  BY <1>1, <1>2

GroupsSafe ==
  /\ GroupTypeOK /\ SucceededWasSent /\ NoItemTwice /\ GroupSentOnce
  /\ CountersMatchRows /\ SmallFilesFinish /\ ResultIsCurrent

LEMMA GroupsShow == GroupsInv => GroupsSafe
<1> SUFFICES ASSUME GroupsInv PROVE GroupsSafe
  OBVIOUS
<1>1. Succeeded \in SUBSET FileRow /\ BadRows \in SUBSET FileRow
  BY DEF Succeeded, BadRows, Having
<1>2. Cardinality(Succeeded) \in 0 .. FileRows /\ Cardinality(BadRows) \in 0 .. FileRows
  BY <1>1, FiniteFile, FilesAssumption
<1>3. GroupTypeOK
  <2>1. groupCounters.good \in 0 .. FileRows /\ groupCounters.bad \in 0 .. FileRows
    BY <1>2, FilesAssumption DEF GroupsInv, GroupsCounted, RunTypes
  <2>2. groupCounters \in [good : 0 .. FileRows, bad : 0 .. FileRows]
    BY <2>1 DEF GroupsInv, RunTypes
  <2>3. Range(sent) \subseteq SUBSET FileRow
    BY DEF Range, GroupsInv, RunTypes
  <2>4. QED
    BY <2>2, <2>3 DEF GroupTypeOK, GroupsInv, RunTypes, Outcome
<1>4. ASSUME NEW r \in FileRow
      PROVE  /\ IsFiniteSet({i \in DOMAIN sent : r \in sent[i]})
             /\ Times(r) \in Nat /\ (Gone(r) => Times(r) > 0)
  <2> DEFINE T == {i \in DOMAIN sent : r \in sent[i]}
  <2>1. sent \in Seq(SUBSET FileRow)
    BY DEF GroupsInv, RunTypes
  <2>2. DOMAIN sent = 1 .. Len(sent) /\ Len(sent) \in Nat
    BY <2>1
  <2>3. IsFiniteSet(DOMAIN sent)
    BY <2>2, FS_Interval
  <2>4. IsFiniteSet(T)
    BY <2>3, FS_Subset
  <2>5. Cardinality(T) \in Nat
    BY <2>4, FS_CardinalityType
  <2>6. Gone(r) => Cardinality(T) # 0
    BY <2>4, FS_EmptySet DEF Gone
  <2>7. QED
    BY <2>4, <2>5, <2>6 DEF Times
<1>5. SucceededWasSent
  BY <1>4 DEF SucceededWasSent, GroupsInv, ItemsGone, Marked, Having
<1>6. NoItemTwice
  <2>1. ASSUME groupFaults = 0, NEW r \in FileRow PROVE Times(r) <= 1
    <3> DEFINE T == {i \in DOMAIN sent : r \in sent[i]}
    <3>1. \A i, j \in T : i = j
      BY <2>1 DEF GroupsInv, ItemsGone
    <3>2. T = {} \/ \E i : T = {i}
      BY <3>1
    <3>3. Cardinality(T) = 0 \/ Cardinality(T) = 1
      BY <3>2, FS_EmptySet, FS_Singleton
    <3>4. QED
      BY <3>3 DEF Times
  <2>2. QED
    BY <2>1 DEF NoItemTwice
<1>7. GroupSentOnce
  BY DEF GroupSentOnce, GroupsInv, GroupsGone, Named
<1>8. CountersMatchRows
  BY DEF CountersMatchRows, GroupsInv, GroupsCounted, Phases, Succeeded, RunTypes
<1>9. SmallFilesFinish /\ ResultIsCurrent
  BY DEF SmallFilesFinish, ResultIsCurrent, GroupsInv, WholeFile, Phases, Pending
<1>10. QED
  BY <1>3, <1>5, <1>6, <1>7, <1>8, <1>9 DEF GroupsSafe

-----------------------------------------------------------------------------
(***************************************************************************)
(* The sheets.  A header row without a gap keeps its places, so that the   *)
(* n-th header still stands over the n-th cell.                            *)
(***************************************************************************)
Gapless(h) == \A i, j \in 1 .. Columns : (i < j /\ h[i] = Empty) => h[j] = Empty

LEMMA HeadersInPlace ==
  ASSUME NEW h \in HeaderRows, Gapless(h)
  PROVE  /\ DOMAIN Headers(h) = {i \in 1 .. Columns : h[i] # Empty}
         /\ \A i \in DOMAIN Headers(h) : Headers(h)[i] = h[i]
<1> DEFINE texts == {i \in DOMAIN h : h[i] # Empty}
           size == Cardinality(texts)
           rest == {i \in 1 .. Columns + 1 : i \notin texts}
<1>1. Columns \in Nat /\ DOMAIN h = 1 .. Columns
  BY SheetsAssumption DEF HeaderRows
<1>2. rest \subseteq Nat /\ rest # {}
  <2>1. Columns + 1 \in rest
    BY <1>1
  <2>2. QED
    BY <1>1, <2>1
<1>3. PICK first \in rest : \A i \in rest : first <= i
  <2> HIDE DEF rest
  <2>1. QED
    BY <1>2, Least
<1>4. first \in Nat /\ first >= 1 /\ first <= Columns + 1 /\ first - 1 \in Nat
  BY <1>1
<1>5. texts = 1 .. first - 1
  <2>1. ASSUME NEW i \in 1 .. first - 1 PROVE i \in texts
    <3>1. i \in 1 .. Columns + 1 /\ ~(first <= i)
      BY <1>1, <1>4
    <3>2. QED
      BY <1>3, <3>1
  <2>2. ASSUME NEW i \in texts, ~(i < first) PROVE FALSE
    <3>1. i \in 1 .. Columns /\ h[i] # Empty /\ i # first /\ i \in Nat
      BY <1>1, <2>2
    <3>2. first < i /\ first \in 1 .. Columns
      BY <1>1, <1>4, <2>2, <3>1
    <3>3. h[first] = Empty
      BY <1>1, <3>2
    <3>4. QED
      BY <3>1, <3>2, <3>3 DEF Gapless
  <2>3. ASSUME NEW i \in texts PROVE i \in 1 .. first - 1
    <3>1. i \in 1 .. Columns /\ i < first
      BY <1>1, <2>2, <2>3
    <3>2. QED
      BY <1>1, <1>4, <3>1
  <2>4. QED
    BY <2>1, <2>3
<1>6. size = first - 1 /\ size \in Nat
  <2>1. Cardinality(1 .. first - 1) = first - 1
    <3>1. 1 \in Int /\ first - 1 \in Int
      BY <1>4
    <3>2. Cardinality(1 .. first - 1) = IF 1 > first - 1 THEN 0 ELSE (first - 1) - 1 + 1
      BY <3>1, FS_Interval
    <3>3. QED
      BY <1>4, <3>2
  <2> HIDE DEF texts
  <2>2. QED
    BY <1>4, <1>5, <2>1
<1>7. ASSUME NEW i \in texts PROVE Cardinality({j \in texts : j <= i}) = i
  <2>1. i \in Nat /\ i >= 1 /\ i <= first - 1
    BY <1>4, <1>5
  <2>2. {j \in texts : j <= i} = 1 .. i
    BY <1>4, <1>5, <2>1
  <2>3. Cardinality(1 .. i) = i
    <3>1. 1 \in Int /\ i \in Int
      BY <2>1
    <3>2. Cardinality(1 .. i) = IF 1 > i THEN 0 ELSE i - 1 + 1
      BY <3>1, FS_Interval
    <3>3. QED
      BY <2>1, <3>2
  <2>4. QED
    BY <2>2, <2>3, Zenon
<1>8. Headers(h) = [n \in 1 .. size |-> h[CHOOSE i \in texts : Cardinality({j \in texts : j <= i}) = n]]
  BY DEF Headers
<1>9. ASSUME NEW n \in 1 .. size PROVE (CHOOSE i \in texts : Cardinality({j \in texts : j <= i}) = n) = n
  <2>1. n \in texts
    BY <1>5, <1>6
  <2> HIDE DEF texts
  <2>2. QED
    BY <1>7, <2>1
<1>10. 1 .. size = texts /\ texts = {i \in 1 .. Columns : h[i] # Empty}
  BY <1>1, <1>5, <1>6
<1> HIDE DEF texts, size
<1>11. QED
  BY <1>8, <1>9, <1>10

\* A cell of a column with a header, not reserved, is the row's value under that header.
LEMMA CellsInPlace ==
  ASSUME NEW h \in HeaderRows, Gapless(h), NEW cells, NEW d, d = RowData(h, cells)
  PROVE  /\ \A x : x \in DOMAIN d <=> \E i \in 1 .. Columns : x = h[i] /\ x # Empty /\ cells[i] # Empty /\ x \notin Reserved
         /\ \A i \in 1 .. Columns : h[i] \in DOMAIN d => d[h[i]] = cells[i]
<1> DEFINE hs == Headers(h)
           used == {i \in DOMAIN hs : cells[i] # Empty /\ hs[i] \notin Reserved}
<1>1. DOMAIN hs = {i \in 1 .. Columns : h[i] # Empty} /\ \A i \in DOMAIN hs : hs[i] = h[i]
  BY HeadersInPlace
<1>2. d = [x \in {hs[i] : i \in used} |-> cells[CHOOSE i \in used : hs[i] = x]]
  BY DEF RowData
<1>3. \A i \in used : hs[i] = h[i] /\ i \in 1 .. Columns /\ h[i] # Empty
  BY <1>1
<1>4. \A i, j \in used : hs[i] = hs[j] => i = j
  BY <1>3 DEF HeaderRows
<1>5. ASSUME NEW i \in 1 .. Columns, h[i] \in DOMAIN d PROVE d[h[i]] = cells[i]
  <2>1. PICK k \in used : hs[k] = h[i]
    BY <1>2, <1>5
  <2>2. h[k] = h[i] /\ h[k] # Empty /\ k \in 1 .. Columns
    BY <1>3, <2>1
  <2>3. k = i
    BY <2>2 DEF HeaderRows
  <2>4. (CHOOSE m \in used : hs[m] = h[i]) = i
    <3> HIDE DEF used, hs
    <3>1. QED
      BY <1>4, <2>1, <2>3
  <2>5. QED
    BY <1>2, <1>5, <2>4
<1>6. ASSUME NEW x
      PROVE  x \in DOMAIN d <=> \E i \in 1 .. Columns : x = h[i] /\ x # Empty /\ cells[i] # Empty /\ x \notin Reserved
  BY <1>1, <1>2
<1>7. QED
  BY <1>5, <1>6

SheetInv ==
  /\ stage \in {"none", "uploaded", "refused", "queued", "parsed", "processed", "reported"}
  /\ stage # "none" => sheet.header \in HeaderRows
  /\ stage \in {"parsed", "processed", "reported"} => parsed = Parsed(sheet)
  /\ stage \in {"processed", "reported"} => DOMAIN outcome = DOMAIN parsed
  /\ stage = "reported" => report = [n \in DOMAIN sheet.data |-> StatusCell(n)]

LEMMA SheetStarts == SheetInit => SheetInv
BY DEF SheetInit, SheetInv

LEMMA SheetStep == SheetInv /\ [SheetNext]_sheetVars => SheetInv'
<1> SUFFICES ASSUME SheetInv, [SheetNext]_sheetVars PROVE SheetInv'
  OBVIOUS
<1>1. CASE UploadFile
  BY <1>1 DEF UploadFile, SheetInv
<1>2. CASE ValidateXlsxContent
  BY <1>2 DEF ValidateXlsxContent, SheetInv
<1>3. CASE ParseRows
  <2>1. Parsed(sheet)' = Parsed(sheet)
    BY <1>3 DEF ParseRows, Parsed
  <2>2. QED
    BY <1>3, <2>1 DEF ParseRows, SheetInv
<1>4. CASE ProcessRows
  <2>1. Parsed(sheet)' = Parsed(sheet)
    BY <1>4 DEF ProcessRows, Parsed
  <2>2. QED
    BY <1>4, <2>1 DEF ProcessRows, SheetInv
<1>5. CASE GenerateReport
  <2>1. Parsed(sheet)' = Parsed(sheet) /\ \A n : StatusCell(n)' = StatusCell(n)
    BY <1>5 DEF GenerateReport, Parsed, StatusCell
  <2>2. QED
    BY <1>5, <2>1 DEF GenerateReport, SheetInv
<1>6. CASE UNCHANGED sheetVars
  <2>1. Parsed(sheet)' = Parsed(sheet) /\ \A n : StatusCell(n)' = StatusCell(n)
    BY <1>6 DEF sheetVars, Parsed, StatusCell
  <2>2. QED
    BY <1>6, <2>1 DEF sheetVars, SheetInv
<1>7. QED
  BY <1>1, <1>2, <1>3, <1>4, <1>5, <1>6 DEF SheetNext

LEMMA SheetShows == SheetInv => CellsUnderHeaders /\ SentIsSent
<1> SUFFICES ASSUME SheetInv PROVE CellsUnderHeaders /\ SentIsSent
  OBVIOUS
<1> DEFINE h == sheet.header
<1>1. stage \in {"parsed", "processed", "reported"} =>
        parsed = [n \in RowNumbers(sheet) |-> RowData(h, sheet.data[n])]
  BY DEF SheetInv, Parsed
<1>2. ASSUME stage \in {"parsed", "processed", "reported"}, Gapless(h), NEW n \in DOMAIN parsed, NEW i \in 1 .. Columns
      PROVE  /\ (h[i] \in DOMAIN parsed[n] => parsed[n][h[i]] = sheet.data[n][i])
             /\ (h[i] # Empty /\ h[i] \notin Reserved /\ sheet.data[n][i] # Empty => h[i] \in DOMAIN parsed[n])
             /\ DOMAIN parsed[n] \cap Reserved = {}
  <2>1. h \in HeaderRows /\ parsed[n] = RowData(h, sheet.data[n])
    BY <1>1, <1>2 DEF SheetInv
  <2>2. PICK g, cells, d : g = h /\ cells = sheet.data[n] /\ d = parsed[n]
    OBVIOUS
  <2>3. g \in HeaderRows /\ Gapless(g) /\ d = RowData(g, cells)
    BY <1>2, <2>1, <2>2
  <2>4. /\ \A x : x \in DOMAIN d <=> \E k \in 1 .. Columns : x = g[k] /\ x # Empty /\ cells[k] # Empty /\ x \notin Reserved
        /\ \A k \in 1 .. Columns : g[k] \in DOMAIN d => d[g[k]] = cells[k]
    BY <2>3, CellsInPlace
  <2>5. /\ (g[i] \in DOMAIN d => d[g[i]] = cells[i])
        /\ (g[i] # Empty /\ g[i] \notin Reserved /\ cells[i] # Empty => g[i] \in DOMAIN d)
        /\ DOMAIN d \cap Reserved = {}
    BY <2>4
  <2>6. QED
    BY <2>2, <2>5
<1>3. CellsUnderHeaders
  BY <1>2 DEF CellsUnderHeaders, Gapless
<1>4. ASSUME stage = "reported", NEW n \in DOMAIN report
      PROVE  report[n] = "sent" <=> (n \in DOMAIN outcome /\ outcome[n] = "SUCCEEDED" /\ parsed[n] = RowData(h, sheet.data[n]))
  <2>1. report[n] = StatusCell(n) /\ DOMAIN outcome = DOMAIN parsed
    BY <1>4 DEF SheetInv
  <2>2. n \in DOMAIN outcome => parsed[n] = RowData(h, sheet.data[n])
    BY <1>1, <1>4, <2>1
  <2>3. StatusCell(n) = "sent" <=> n \in DOMAIN outcome /\ outcome[n] = "SUCCEEDED"
    BY DEF StatusCell
  <2>4. QED
    BY <2>1, <2>2, <2>3
<1>5. SentIsSent
  BY <1>4 DEF SentIsSent
<1>6. QED
  BY <1>3, <1>5

(***************************************************************************)
(* What becomes of a file: in every upload in groups, and of every sheet.  *)
(***************************************************************************)
THEOREM FilesHold == GroupSpec /\ SheetSpec => []FilesSentOnce
<1>1. GroupSpec => []GroupsInv
  BY GroupsStart, GroupsStep, PTL DEF GroupSpec
<1>2. SheetSpec => []SheetInv
  BY SheetStarts, SheetStep, PTL DEF SheetSpec
<1>3. GroupsInv /\ SheetInv => FilesSentOnce
  BY GroupsShow, SheetShows DEF FilesSentOnce, GroupsSafe
<1>4. QED
  BY <1>1, <1>2, <1>3, PTL
=============================================================================
