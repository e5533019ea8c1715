------------------------------ MODULE BulkFiles ------------------------------
\* Bulk-upload-service: what becomes of the rows of a file. In group mode rows of one event type and key
\* become one event with a list of items; a worksheet becomes rows, and the rows' outcomes the status column
\* of the result file. The two share no state here. Claiming, cancelling and the standard mode are in
\* BulkUpload.
EXTENDS Naturals, FiniteSets, Sequences, SequencesExt, FiniteSetsExt, Functions

-----------------------------------------------------------------------------
\* Group mode.

CONSTANTS
  FileRows, GroupOf, OrderData,   \* row -> group key, row -> value of the order columns
  BlankGroups,                    \* groups without an event type
  conflictMode,               \* "warn" or "strict"
  BatchSizes, MaxRetries, MaxGroupFaults

ASSUME FilesAssumption == FileRows \in Nat /\ BatchSizes \subseteq Nat \ {0} /\ MaxRetries \in Nat /\ MaxGroupFaults \in Nat

FileRow == 1 .. FileRows
Done == {"COMPLETED", "PARTIAL", "FAILED"}

VARIABLES
  batchSize, groupRow, groupUpload,
  groupCounters,              \* succeeded and failed of the upload record
  run,                        \* the worker's loop
  sent,                       \* accepted events: the rows of each
  result,                     \* result file of the record: the row statuses it lists, or <<>>
  original,                   \* the uploaded file is still there
  retried, groupFaults          \* retries made; faults and breaker waits so far
groupVars == <<batchSize, groupRow, groupUpload, groupCounters, run, sent, result, original, retried, groupFaults>>

IdleRun == [at |-> "idle", offset |-> 0, batch |-> {}, processed |-> {}, rows |-> {}, outcome |-> "none",
            size |-> 0, next |-> "fetch", good |-> 0, bad |-> 0]

GroupInit ==
  /\ batchSize = 0 /\ groupRow = [r \in FileRow |-> "PENDING"] /\ groupUpload = "PROCESSING"
  /\ groupCounters = [good |-> 0, bad |-> 0] /\ run = [IdleRun EXCEPT !.at = "claim"] /\ sent = <<>>
  /\ result = <<>> /\ original = TRUE /\ retried = 0 /\ groupFaults = 0

Having(statuses) == {r \in FileRow : groupRow[r] \in statuses}

\* The next pending rows after the offset, though those before it may have changed since.
PendingBatch ==
  LET S == Having({"PENDING"}) IN {r \in S : Cardinality({q \in S : q <= r}) \in run.offset + 1 .. run.offset + batchSize}
GroupGoto(at) == run' = [run EXCEPT !.at = at]
GroupFault == groupFaults < MaxGroupFaults /\ groupFaults' = groupFaults + 1
recordVars == <<groupUpload, groupCounters, result, original, retried>>

-----------------------------------------------------------------------------
\* Batches of groups.

\* The worker takes the upload up, in batches of its configured size.
ClaimUpload ==
  /\ run.at = "claim" /\ batchSize' \in BatchSizes /\ GroupGoto("fetch")
  /\ UNCHANGED <<groupRow, recordVars, sent, groupFaults>>

FetchGroups ==
  /\ run.at = "fetch"
  /\ LET batch == PendingBatch IN
       run' = [run EXCEPT !.at = IF batch = {} THEN "finish" ELSE "group", !.batch = batch, !.size = Cardinality(batch)]
  /\ UNCHANGED <<batchSize, groupRow, recordVars, sent, groupFaults>>

\* Rows of a group of an earlier batch are not taken up again.
Fresh(batch) == {r \in batch : GroupOf[r] \notin run.processed}

NextRows ==
  LET fresh == Fresh(run.batch) first == Min(fresh) IN {r \in fresh : GroupOf[r] = GroupOf[first]}

Conflicting(rows) == \E r, q \in rows : OrderData[r] # OrderData[q]

Took(rows, outcome) ==
  run' = [run EXCEPT !.at = "write", !.rows = rows, !.batch = @ \ rows, !.processed = @ \cup {GroupOf[Min(rows)]},
                     !.outcome = outcome]

\* One event with the items of the group's rows in this batch. The answer may be a refusal,
\* or get lost after the event was accepted.
SubmitGroup ==
  /\ run.at = "group" /\ Fresh(run.batch) # {}
  /\ LET rows == NextRows g == GroupOf[Min(rows)] IN
       IF g \in BlankGroups THEN Took(rows, "SKIPPED") /\ UNCHANGED <<sent, groupFaults>>
       ELSE IF conflictMode = "strict" /\ Conflicting(rows) THEN Took(rows, "FAILED") /\ UNCHANGED <<sent, groupFaults>>
       ELSE \/ Took(rows, "SUCCEEDED") /\ sent' = Append(sent, rows) /\ UNCHANGED groupFaults
            \/ Took(rows, "FAILED") /\ UNCHANGED sent /\ GroupFault
            \/ Took(rows, "FAILED") /\ sent' = Append(sent, rows) /\ GroupFault
  /\ UNCHANGED <<batchSize, groupRow, recordVars>>

\* A breaker still open after the wait ends the batch; its rows stay pending.
BreakerStaysOpen ==
  /\ run.at = "group" /\ Fresh(run.batch) # {} /\ GroupFault /\ GroupGoto("count")
  /\ UNCHANGED <<batchSize, groupRow, recordVars, sent>>

\* The rows of a group are updated one by one; all count as succeeded, or all as failed.
WriteOutcome ==
  /\ run.at = "write"
  /\ groupRow' = [r \in FileRow |-> IF r \in run.rows THEN run.outcome ELSE groupRow[r]]
  /\ LET n == Cardinality(run.rows) IN
       run' = [run EXCEPT !.at = "group", !.good = @ + (IF run.outcome = "SUCCEEDED" THEN n ELSE 0),
                          !.bad = @ + (IF run.outcome = "SUCCEEDED" THEN 0 ELSE n)]
  /\ UNCHANGED <<batchSize, recordVars, sent, groupFaults>>

\* An update that fails while the rows are marked succeeded marks all of them failed.
SuccessNotRecorded ==
  /\ run.at = "write" /\ run.outcome = "SUCCEEDED" /\ GroupFault
  /\ run' = [run EXCEPT !.outcome = "FAILED"]
  /\ UNCHANGED <<batchSize, groupRow, recordVars, sent>>

EndGroups == run.at = "group" /\ Fresh(run.batch) = {} /\ GroupGoto("count") /\ UNCHANGED <<batchSize, groupRow, recordVars, sent, groupFaults>>

GroupCounted == [good |-> groupCounters.good + run.good, bad |-> groupCounters.bad + run.bad]

\* Mutant: the batch's counts are not reset.
AfterBatch_Accumulates == [run EXCEPT !.at = IF run.size < batchSize THEN "finish" ELSE run.next, !.offset = @ + run.size]

AfterBatch == [run EXCEPT !.at = IF run.size < batchSize THEN "finish" ELSE run.next, !.offset = @ + run.size, !.good = 0, !.bad = 0]

CountGroups ==
  /\ run.at = "count" /\ groupCounters' = GroupCounted /\ run' = AfterBatch
  /\ UNCHANGED <<batchSize, groupRow, groupUpload, result, original, retried, sent, groupFaults>>

-----------------------------------------------------------------------------
\* After a retry the rows exist, and every pending row becomes an event of its own: the
\* items of a group are no longer together.

FetchRows ==
  /\ run.at = "rows"
  /\ LET batch == PendingBatch IN
       run' = [run EXCEPT !.at = IF batch = {} THEN "finish" ELSE "row", !.batch = batch, !.size = Cardinality(batch)]
  /\ UNCHANGED <<batchSize, groupRow, recordVars, sent, groupFaults>>

Ended(r, outcome) ==
  /\ groupRow' = [groupRow EXCEPT ![r] = outcome]
  /\ run' = [run EXCEPT !.batch = @ \ {r}, !.good = @ + (IF outcome = "SUCCEEDED" THEN 1 ELSE 0),
                        !.bad = @ + (IF outcome = "SUCCEEDED" THEN 0 ELSE 1)]

ProcessSingle(r) ==
  /\ run.at = "row" /\ r \in run.batch
  /\ IF GroupOf[r] \in BlankGroups THEN Ended(r, "SKIPPED") /\ UNCHANGED <<sent, groupFaults>>
     ELSE \/ Ended(r, "SUCCEEDED") /\ sent' = Append(sent, {r}) /\ UNCHANGED groupFaults
          \/ Ended(r, "FAILED") /\ UNCHANGED sent /\ GroupFault
          \/ Ended(r, "FAILED") /\ sent' = Append(sent, {r}) /\ GroupFault
  /\ UNCHANGED <<batchSize, recordVars>>

EndRows == run.at = "row" /\ run.batch = {} /\ GroupGoto("count") /\ UNCHANGED <<batchSize, groupRow, recordVars, sent, groupFaults>>

-----------------------------------------------------------------------------
\* The end of a run, and the retry.

BadRows == Having({"FAILED", "SKIPPED"})
GroupStatus ==
  IF BadRows = {} THEN "COMPLETED" ELSE IF Having({"SUCCEEDED"}) = {} THEN "FAILED" ELSE "PARTIAL"

\* The result file is the original with a status column; writing it removes the original,
\* so that a later run has nothing to write on.
GenerateResult ==
  IF original THEN result' = groupRow /\ original' = FALSE ELSE UNCHANGED <<result, original>>

Finish ==
  /\ run.at = "finish"
  /\ groupUpload' = GroupStatus /\ GenerateResult /\ run' = IdleRun
  /\ UNCHANGED <<batchSize, groupRow, groupCounters, sent, retried, groupFaults>>

\* The worker's next poll, after a retry.
RetryUpload ==
  /\ run.at = "idle" /\ groupUpload \in {"PARTIAL", "FAILED"} /\ retried < MaxRetries /\ retried' = retried + 1
  /\ groupRow' = [r \in FileRow |-> IF r \in BadRows THEN "PENDING" ELSE groupRow[r]]
  /\ groupCounters' = [groupCounters EXCEPT !.bad = 0] /\ result' = <<>> /\ groupUpload' = "PROCESSING"
  /\ run' = [IdleRun EXCEPT !.at = "rows", !.next = "rows"]
  /\ UNCHANGED <<batchSize, sent, original, groupFaults>>

GroupNext ==
  \/ ClaimUpload
  \/ FetchGroups \/ SubmitGroup \/ BreakerStaysOpen \/ WriteOutcome \/ SuccessNotRecorded \/ EndGroups \/ CountGroups
  \/ FetchRows \/ (\E r \in FileRow : ProcessSingle(r)) \/ EndRows
  \/ Finish \/ RetryUpload

GroupSpec == GroupInit /\ [][GroupNext]_groupVars /\ WF_groupVars(GroupNext)

-----------------------------------------------------------------------------
GroupTypeOK ==
  /\ groupRow \in [FileRow -> {"PENDING", "SUCCEEDED", "FAILED", "SKIPPED"}] /\ groupUpload \in Done \cup {"PROCESSING"}
  /\ groupCounters \in [good : 0 .. FileRows, bad : 0 .. FileRows] /\ run.batch \subseteq FileRow
  /\ Range(sent) \subseteq SUBSET FileRow

Times(r) == Cardinality({i \in DOMAIN sent : r \in sent[i]})

\* A row reported as sent had its item in an accepted event.
SucceededWasSent == \A r \in Having({"SUCCEEDED"}) : Times(r) > 0

\* Without a fault no item goes out twice, over batches that split a group and over retries.
NoItemTwice == groupFaults = 0 => \A r \in FileRow : Times(r) <= 1

\* Between runs the counters are the numbers of rows with each outcome.
CountersMatchRows ==
  run.at = "idle" => groupCounters.good = Cardinality(Having({"SUCCEEDED"})) /\ groupCounters.bad = Cardinality(BadRows)

\* A file that fits in one batch, with a breaker that stays closed, leaves no row pending.
SmallFilesFinish == (groupUpload \in Done /\ FileRows <= batchSize /\ groupFaults = 0) => Having({"PENDING"}) = {}

\* An offered result file tells the rows' present statuses.
ResultIsCurrent == (groupUpload \in Done /\ result # <<>>) => result = groupRow

\* Each group has one event per run: the rest of a split group is not sent as another.
GroupSentOnce ==
  retried = 0 => \A i, j \in DOMAIN sent : i # j => GroupOf[Min(sent[i])] # GroupOf[Min(sent[j])]

\* A run ends.
RunEnds == run.at # "idle" ~> run.at = "idle"

-----------------------------------------------------------------------------
\* The worksheet, and the report.

CONSTANTS
  Header,       \* header texts
  Reserved,     \* those that start with "_"
  ItemHeader,   \* those that start with the item prefix
  KeyHeader,    \* the group key column
  Value,        \* non-empty cell values
  Columns, MaxSheetRows, maxRows

ASSUME SheetsAssumption == Columns \in Nat /\ MaxSheetRows \in Nat

Empty == "empty"
Cells == [1 .. Columns -> Value \cup {Empty}]

\* A header row: distinct texts, and possibly cells left empty.
HeaderRows == {h \in [1 .. Columns -> Header \cup {Empty}] : \A i, j \in 1 .. Columns : h[i] = h[j] => i = j \/ h[i] = Empty}

VARIABLES
  sheet,        \* header row and data rows
  stage,        \* "none", "uploaded", "refused", "queued", "parsed", "processed" or "reported"
  parsed,       \* row number -> header -> value
  totalRows,
  outcome,      \* row number -> status
  report        \* data row of the sheet -> status written
sheetVars == <<sheet, stage, parsed, totalRows, outcome, report>>

SheetInit ==
  /\ sheet = [header |-> <<>>, data |-> <<>>] /\ stage = "none" /\ parsed = <<>> /\ totalRows = 0 /\ outcome = <<>> /\ report = <<>>

UploadFile ==
  /\ stage = "none" /\ stage' = "uploaded"
  /\ \E h \in HeaderRows, n \in 0 .. MaxSheetRows : \E d \in [1 .. n -> Cells] : sheet' = [header |-> h, data |-> d]
  /\ UNCHANGED <<parsed, totalRows, outcome, report>>

\* eachCell leaves empty header cells out: later headers move to the left.
Headers(h) ==
  LET texts == {i \in DOMAIN h : h[i] # Empty}
  IN [n \in 1 .. Cardinality(texts) |-> h[CHOOSE i \in texts : Cardinality({j \in texts : j <= i}) = n]]
HasItems(h) == ToSet(Headers(h)) \cap ItemHeader # {}

\* The checks of an upload, in their order.
Refusal(s) ==
  IF Headers(s.header) = <<>> THEN "BUS-011"
  ELSE IF "eventType" \notin ToSet(Headers(s.header)) THEN "BUS-005"
  ELSE IF HasItems(s.header) /\ KeyHeader \notin ToSet(Headers(s.header)) THEN "BUS-012"
  ELSE IF Len(s.data) = 0 THEN "BUS-007"
  ELSE IF Len(s.data) > maxRows THEN "BUS-006"
  ELSE "none"

\* totalRows counts the rows of the sheet, empty ones too.
ValidateXlsxContent ==
  /\ stage = "uploaded"
  /\ IF Refusal(sheet) = "none" THEN stage' = "queued" /\ totalRows' = Len(sheet.data)
     ELSE stage' = "refused" /\ UNCHANGED totalRows
  /\ UNCHANGED <<sheet, parsed, outcome, report>>

\* The n-th header that is left names the n-th cell; reserved and empty cells are dropped.
RowData(h, cells) ==
  LET hs == Headers(h)
      used == {i \in DOMAIN hs : cells[i] # Empty /\ hs[i] \notin Reserved}
  IN [x \in {hs[i] : i \in used} |-> cells[CHOOSE i \in used : hs[i] = x]]

\* Rows without a value are skipped; the others keep their number in the sheet.
RowNumbers(s) == {n \in DOMAIN s.data : RowData(s.header, s.data[n]) # <<>>}

Parsed(s) == [n \in RowNumbers(s) |-> RowData(s.header, s.data[n])]

ParseRows ==
  /\ stage = "queued" /\ stage' = "parsed" /\ parsed' = Parsed(sheet)
  /\ UNCHANGED <<sheet, totalRows, outcome, report>>

\* Rows without an event type are skipped; the others end either way, or stay pending.
ProcessRows ==
  /\ stage = "parsed" /\ stage' = "processed"
  /\ outcome' \in [DOMAIN parsed -> {"SUCCEEDED", "FAILED", "SKIPPED", "PENDING"}]
  /\ \A n \in DOMAIN parsed : "eventType" \notin DOMAIN parsed[n] => outcome'[n] \in {"SKIPPED", "PENDING"}
  /\ UNCHANGED <<sheet, parsed, totalRows, report>>

\* Each data row of the sheet gets the outcome of its number, or "skipped".
StatusCell(n) ==
  IF n \notin DOMAIN outcome \/ outcome[n] = "PENDING" THEN "skipped"
  ELSE CASE outcome[n] = "SUCCEEDED" -> "sent" [] outcome[n] = "FAILED" -> "failed" [] OTHER -> "skipped"

GenerateReport ==
  /\ stage = "processed" /\ stage' = "reported" /\ report' = [n \in DOMAIN sheet.data |-> StatusCell(n)]
  /\ UNCHANGED <<sheet, parsed, totalRows, outcome>>

SheetNext == UploadFile \/ ValidateXlsxContent \/ ParseRows \/ ProcessRows \/ GenerateReport
SheetSpec == SheetInit /\ [][SheetNext]_sheetVars

-----------------------------------------------------------------------------
\* In a sheet whose header row has no gap before a text, a row keeps each cell under its
\* own header, without the reserved columns.
CellsUnderHeaders ==
  LET h == sheet.header IN
    (stage \in {"parsed", "processed", "reported"} /\ \A i, j \in 1 .. Columns : (i < j /\ h[i] = Empty) => h[j] = Empty) =>
      \A n \in DOMAIN parsed, i \in 1 .. Columns :
        /\ (h[i] \in DOMAIN parsed[n] => parsed[n][h[i]] = sheet.data[n][i])
        /\ (h[i] # Empty /\ h[i] \notin Reserved /\ sheet.data[n][i] # Empty => h[i] \in DOMAIN parsed[n])
        /\ DOMAIN parsed[n] \cap Reserved = {}

\* "sent" stands beside a row whose own values were sent, over empty and skipped rows.
SentIsSent ==
  stage = "reported" =>
    \A n \in DOMAIN report : report[n] = "sent" <=> (n \in DOMAIN outcome /\ outcome[n] = "SUCCEEDED" /\ parsed[n] = RowData(sheet.header, sheet.data[n]))

\* A file's items go out once, in one event per group and run, over groups split by a batch boundary and over
\* retries; the rows' outcomes, the counters and the offered result file tell what was sent; a cell is stored
\* under the header above it and its outcome reported beside its row.
FilesSentOnce ==
  /\ GroupTypeOK /\ SucceededWasSent /\ NoItemTwice /\ GroupSentOnce
  /\ CountersMatchRows /\ SmallFilesFinish /\ ResultIsCurrent
  /\ CellsUnderHeaders /\ SentIsSent
=============================================================================
