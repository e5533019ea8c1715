---------------------------- MODULE AuditReaders ----------------------------
(***************************************************************************)
(* What the audit-service makes of its append-only tables: analytics, and  *)
(* the answers to queries.  They share no state that the properties tell   *)
(* apart and are composed by MCAudit.                                      *)
(***************************************************************************)
EXTENDS Naturals, Sequences, FiniteSets, SequencesExt, Functions

-----------------------------------------------------------------------------
(***************************************************************************)
(* Analytics: hourly and daily aggregates of delivery receipts and         *)
(* suppressions, by cron and on request, and the dashboard summary made    *)
(* from them.  A job reads the counts of a window and upserts its rows one *)
(* by one; nothing keeps two jobs out of one window.                       *)
(*                                                                         *)
(* One counter stands for the seven totals of a row, beside the            *)
(* suppressed.                                                             *)
(***************************************************************************)
CONSTANTS
  Channel,
  DayLength,      \* hours of a day
  Lookback,       \* hours a manual run goes back
  MaxHour,        \* bound: hours
  MaxArrivals,    \* bound: receipts and suppressions
  MaxRuns         \* bound: jobs started

VARIABLES
  hour,           \* the current hour; the hours before it are over
  receipts,       \* delivery_receipts per channel and hour
  suppressions,   \* audit_events of suppressions per channel (or unknown) and hour
  table,          \* notification_analytics: key -> row
  job,            \* the running aggregations
  runs,           \* jobs started
  done,           \* history: windows aggregated after their end, undisturbed
  dirty           \* history: windows last written by overlapping or failed jobs

analyticsVars == <<hour, receipts, suppressions, table, job, runs, done, dirty>>

Hour == 0 .. MaxHour
Job == {"hourly", "daily", "manual"}
Unknown == "_unknown"
All == "_all"

ASSUME AnalyticsAssumption ==
  /\ IsFiniteSet(Channel) /\ {Unknown, All} \cap Channel = {}
  /\ {DayLength, Lookback} \subseteq Nat \ {0} /\ MaxHour \in Nat

\* A window is a period with its first hour and the hour after its last one.
Window(period, from, to) == [period |-> period, from |-> from, to |-> to]
Hourly(h) == Window("hourly", h, h + 1)
DayStart(h) == h - (h % DayLength)

\* Counts per hour in a window, and in a window over several channels.
Hours(w) == {h \in Hour : w.from <= h /\ h < w.to}
Total(counts, w) == SumFunctionOnSet(counts, Hours(w))
TotalOf(counts, C, w) == SumFunction([c \in C |-> Total(counts[c], w)])
Key(w, c) == <<w.period, w.from, c>>
HasRow(w, c) == Key(w, c) \in DOMAIN table
Put(f, k, row) == [x \in DOMAIN f \cup {k} |-> IF x = k THEN row ELSE f[x]]

NoJob == [todo |-> <<>>, pc |-> "idle"]
\* The jobs that have the window before them or under way.
In(w) == {j \in Job : \E i \in DOMAIN job[j].todo :
                         job[j].todo[i].period = w.period /\ job[j].todo[i].from = w.from}

AnalyticsInit ==
  /\ hour = 0
  /\ receipts = [c \in Channel |-> [h \in Hour |-> 0]]
  /\ suppressions = [c \in Channel \cup {Unknown} |-> [h \in Hour |-> 0]]
  /\ table = << >>
  /\ job = [j \in Job |-> NoJob]
  /\ runs = 0
  /\ done = {}
  /\ dirty = {}

Everything == Window("all", 0, MaxHour + 1)
Arrived == TotalOf(receipts, Channel, Everything) + TotalOf(suppressions, Channel \cup {Unknown}, Everything)

\* The consumers store a receipt or the event of a suppression.
Arrive(c) ==
  /\ Arrived < MaxArrivals
  /\ \/ c \in Channel
        /\ receipts' = [receipts EXCEPT ![c][hour] = @ + 1] /\ UNCHANGED suppressions
     \/ suppressions' = [suppressions EXCEPT ![c][hour] = @ + 1] /\ UNCHANGED receipts
  /\ UNCHANGED <<hour, table, job, runs, done, dirty>>

NextHour ==
  /\ hour < MaxHour
  /\ hour' = hour + 1
  /\ UNCHANGED <<receipts, suppressions, table, job, runs, done, dirty>>

\* The windows a job goes through; a manual run takes the current, partial hour first,
\* and of today's day what has arrived when it reads (the clock counts hours).
ManualHours == [i \in 1 .. (IF hour + 1 < Lookback THEN hour + 1 ELSE Lookback) |-> Hourly(hour + 1 - i)]
Today == Window("daily", DayStart(hour), hour + 1)
Plans(j) ==
  CASE j = "hourly" -> IF hour = 0 THEN {} ELSE {<<Hourly(hour - 1)>>}
    [] j = "daily"  -> IF DayStart(hour) = 0 THEN {}
                       ELSE {<<Window("daily", DayStart(hour) - DayLength, DayStart(hour))>>}
    [] j = "manual" -> {ManualHours, <<Today>>, Append(ManualHours, Today)}

Start(j) ==
  /\ job[j] = NoJob
  /\ runs < MaxRuns /\ runs' = runs + 1
  /\ \E plan \in Plans(j) : job' = [job EXCEPT ![j] = [todo |-> plan, pc |-> "receipts"]]
  /\ UNCHANGED <<hour, receipts, suppressions, table, done, dirty>>

\* aggregateFromReceipts: one row per channel that has receipts.
ReadReceipts(j) ==
  LET w == job[j].todo[1]
      counted == [c \in {c \in Channel : Total(receipts[c], w) > 0} |->
                    [total |-> Total(receipts[c], w), suppressed |-> 0]]
      others == In(w) \ {j}
  IN /\ job[j].pc = "receipts"
     /\ job' = [i \in Job |->
                  IF i = j
                  THEN [todo |-> job[j].todo, pc |-> "suppressed", rows |-> counted,
                        closed |-> w.to <= hour /\ ~(j = "manual" /\ w.period = "daily"),
                        alone |-> others = {}]
                  ELSE IF i \in others /\ "alone" \in DOMAIN job[i] THEN [job[i] EXCEPT !.alone = FALSE]
                  ELSE job[i]]
     /\ UNCHANGED <<hour, receipts, suppressions, table, runs, done, dirty>>

\* Mutant: channels with suppressions only are left out of the rows.
Merged_ReceiptsOnly(rows, w) == [c \in DOMAIN rows |-> [rows[c] EXCEPT !.suppressed = Total(suppressions[c], w)]]

\* countSuppressed merged into the rows; suppressions without a channel make no row.
Merged(rows, w) ==
  [c \in DOMAIN rows \cup {c \in Channel : Total(suppressions[c], w) > 0} |->
     [total |-> IF c \in DOMAIN rows THEN rows[c].total ELSE 0, suppressed |-> Total(suppressions[c], w)]]

\* computeCrossTotal
CrossTotal(rows) ==
  [total |-> SumFunction([c \in DOMAIN rows |-> rows[c].total]),
   suppressed |-> SumFunction([c \in DOMAIN rows |-> rows[c].suppressed])]

ReadSuppressed(j) ==
  /\ job[j].pc = "suppressed"
  /\ LET rows == Merged(job[j].rows, job[j].todo[1])
     IN job' = [job EXCEPT ![j].pc = "upsert", ![j].rows = Put(rows, All, CrossTotal(rows))]
  /\ UNCHANGED <<hour, receipts, suppressions, table, runs, done, dirty>>

\* upsertRow, channel by channel; the cross-channel row comes last and ends the window.
Upsert(j) ==
  LET w == job[j].todo[1]
      rest == Tail(job[j].todo)
  IN /\ job[j].pc = "upsert"
     /\ \E c \in DOMAIN job[j].rows :
          /\ c = All => DOMAIN job[j].rows = {All}
          /\ table' = Put(table, Key(w, c), job[j].rows[c])
          /\ IF c # All
             THEN /\ job' = [job EXCEPT ![j].rows = Restrict(@, DOMAIN @ \ {c})]
                  /\ UNCHANGED <<done, dirty>>
             ELSE /\ job' = [job EXCEPT ![j] = IF rest = <<>> THEN NoJob ELSE [todo |-> rest, pc |-> "receipts"]]
                  /\ done' = IF job[j].alone /\ job[j].closed THEN done \cup {w} ELSE done
                  /\ dirty' = IF job[j].alone THEN dirty \ {Key(w, All)} ELSE dirty \cup {Key(w, All)}
     /\ UNCHANGED <<hour, receipts, suppressions, runs>>

\* A query fails: the error is logged and the rest of the job is gone.
Abort(j) ==
  /\ job[j].pc \in {"receipts", "suppressed", "upsert"}
  /\ dirty' = IF job[j].pc = "upsert" THEN dirty \cup {Key(job[j].todo[1], All)} ELSE dirty
  /\ job' = [job EXCEPT ![j] = NoJob]
  /\ UNCHANGED <<hour, receipts, suppressions, table, runs, done>>

AnalyticsNext ==
  \/ \E c \in Channel \cup {Unknown} : Arrive(c)
  \/ NextHour
  \/ \E j \in Job : Start(j) \/ ReadReceipts(j) \/ ReadSuppressed(j) \/ Upsert(j) \/ Abort(j)

AnalyticsSpec == AnalyticsInit /\ [][AnalyticsNext]_analyticsVars

-----------------------------------------------------------------------------
\* The summary of the dashboard: today from the hourly rows, the breakdown per channel.

TodayHours(c) == {h \in Hour : DayStart(hour) <= h /\ HasRow(Hourly(h), c)}
SumRows(c) == SumFunction([h \in TodayHours(c) |-> table[Key(Hourly(h), c)].total])
TodayTotal == SumRows(All)
Breakdown == [c \in {k[3] : k \in DOMAIN table} \ {All} |-> SumRows(c)]

AnalyticsTypeOK ==
  /\ hour \in Hour
  /\ \A k \in DOMAIN table : k[1] \in {"hourly", "daily"} /\ k[2] \in Hour
                             /\ k[3] \in Channel \cup {All} /\ table[k].total \in Nat
  /\ \A j \in Job : job[j].pc \in {"idle", "receipts", "suppressed", "upsert"}

\* No row and no summary ever counts more than was received, however often crons and
\* manual runs repeat a window.
NeverOvercounts ==
  /\ \A k \in DOMAIN table :
       LET w == Window(k[1], k[2], k[2] + (IF k[1] = "hourly" THEN 1 ELSE DayLength))
           C == IF k[3] = All THEN Channel ELSE {k[3]}
       IN table[k].total <= TotalOf(receipts, C, w) /\ table[k].suppressed <= TotalOf(suppressions, C, w)
  /\ TodayTotal <= TotalOf(receipts, Channel, Today)

\* A window aggregated after its end, while no other job had it before it, is exact and
\* stays so through every later rerun, failure and overlap.  (The history leaves out the
\* windows that a manual run had before it: one that was started before midnight and
\* comes to its day after the daily job replaces the full day by its part.)
ClosedIsExact ==
  \A w \in done : \A c \in Channel :
    IF HasRow(w, c) THEN table[Key(w, c)] = [total |-> Total(receipts[c], w), suppressed |-> Total(suppressions[c], w)]
    ELSE Total(receipts[c], w) = 0 /\ Total(suppressions[c], w) = 0

\* The channels of the summary add up to its total while no job is at work, unless jobs
\* overlapped in an hour of today or failed there.
SummaryAddsUp ==
  (\A j \in Job : job[j] = NoJob) /\ (\A k \in dirty : k[1] = "daily" \/ k[2] < DayStart(hour)) =>
    TodayTotal = SumFunction(Breakdown)

-----------------------------------------------------------------------------
(***************************************************************************)
(* Queries: the paged list of events, search, export and traces.  Each     *)
(* answer is made of several queries, and rows arrive between them.        *)
(*                                                                         *)
(* A row carries the time of its insertion (created_at, received_at),      *)
(* which the rows of one batch share; the database orders equal times as   *)
(* it likes.                                                               *)
(***************************************************************************)
CONSTANTS
  Notification, Correlation,
  PageSize,
  exportMaxRows, searchMaxResults,
  MaxRows          \* bound: rows

\* The API refuses pages of no row; "none" stands for a notification that is not there.
ASSUME QueriesAssumption ==
  /\ PageSize \in Nat \ {0} /\ {exportMaxRows, searchMaxResults} \subseteq Nat
  /\ "none" \notin Notification

VARIABLES
  rows,            \* audit_events and delivery_receipts: records with an id in order of arrival
  now,
  reader           \* a client: what it asks for and has been told

queryVars == <<rows, now, reader>>

Source == {"audit_event", "delivery_receipt"}
Events == {r \in rows : r.source = "audit_event"}
Receipts == {r \in rows : r.source = "delivery_receipt"}
Unasked == [pc |-> "idle"]

QueriesInit == rows = {} /\ now = 1 /\ reader = Unasked

\* The consumers append rows; a notification keeps its correlation, webhooks carry none.
Insert ==
  /\ Cardinality(rows) < MaxRows
  /\ \E t \in {now, now + 1}, s \in Source, n \in Notification, c \in Correlation \cup {"none"} :
       /\ now' = t
       /\ rows' = rows \cup {[id |-> Cardinality(rows) + 1, source |-> s, at |-> t, notification |-> n, correlation |-> c]}
  /\ UNCHANGED reader

\* The orders a query may return: newest first or oldest first.
Newest(S) == {q \in SetToSeqs(S) : \A i, j \in DOMAIN q : i < j => q[i].at >= q[j].at}
Oldest(S) == {q \in SetToSeqs(S) : \A i, j \in DOMAIN q : i < j => q[i].at <= q[j].at}

\* skip((page - 1) * limit).take(limit)
PageOf(q, page) == ToSet(SubSeq(q, (page - 1) * PageSize + 1,
                                IF page * PageSize < Len(q) THEN page * PageSize ELSE Len(q)))

-----------------------------------------------------------------------------
\* findWithFilters: a client turns the pages of the events of one notification or of all.

Matching(n) == {r \in Events : n = "any" \/ r.notification = n}

List(n) ==
  /\ reader = Unasked
  /\ reader' = [pc |-> "list", filter |-> n, page |-> 1, atStart |-> Matching(n), got |-> {}]
  /\ UNCHANGED <<rows, now>>

TurnPage ==
  /\ reader.pc = "list"
  /\ \E q \in Newest(Matching(reader.filter)) :
       LET got == PageOf(q, reader.page)
       IN reader' = [reader EXCEPT !.got = @ \cup got, !.page = @ + 1,
                                   !.pc = IF got = {} THEN "listed" ELSE "list"]
  /\ UNCHANGED <<rows, now>>

-----------------------------------------------------------------------------
\* findForExport: count, then select of the events joined with the receipts of their
\* notification; the sheet is cut at exportMaxRows and says so if the count exceeded it.

Joined(E, R) ==
  {pair \in E \X R : pair[2].notification = pair[1].notification}
    \cup {<<e, "null">> : e \in {e \in E : \A r \in R : r.notification # e.notification}}

Export(n) ==
  /\ reader = Unasked
  /\ reader' = [pc |-> "count", filter |-> n]
  /\ UNCHANGED <<rows, now>>

ExportCount ==
  /\ reader.pc = "count"
  /\ LET total == Cardinality(Joined(Matching(reader.filter), Receipts))
     IN reader' = [pc |-> "select", filter |-> reader.filter, atStart |-> rows,
                   truncated |-> total > exportMaxRows]
  /\ UNCHANGED <<rows, now>>

ExportSelect ==
  /\ reader.pc = "select"
  /\ LET all == Cardinality(Joined(Matching(reader.filter), Receipts))
     IN reader' = [pc |-> "exported", filter |-> reader.filter, truncated |-> reader.truncated, all |-> all,
                   atStart |-> reader.atStart,
                   shown |-> IF all > exportMaxRows THEN exportMaxRows ELSE all, grew |-> rows # reader.atStart]
  /\ UNCHANGED <<rows, now>>

-----------------------------------------------------------------------------
\* search: the page is read with the total, and refused when the total is too large.

Search(n, page) ==
  /\ reader = Unasked
  /\ LET found == Matching(n)
     IN \E q \in Newest(found) :
          reader' = IF Cardinality(found) > searchMaxResults THEN [pc |-> "AUD-007"]
                    ELSE [pc |-> "found", total |-> Cardinality(found), page |-> page,
                          got |-> PageOf(q, page),
                          totalPages |-> (Cardinality(found) + PageSize - 1) \div PageSize]
  /\ UNCHANGED <<rows, now>>

-----------------------------------------------------------------------------
\* trace: the rows of a notification, read by two queries that run side by side.

EventsOf(n) == {r \in Events : r.notification = n}
ReceiptsOf(n) == {r \in Receipts : r.notification = n}

Trace(n) ==
  /\ reader = Unasked
  /\ reader' = [pc |-> "trace", notifications |-> {n}, todo |-> {<<n, s>> : s \in Source},
                atStart |-> rows, got |-> {}]
  /\ UNCHANGED <<rows, now>>

\* findDistinctNotificationIds, then a trace of each; no notification is an error.
TraceCorrelation(c) ==
  /\ reader = Unasked
  /\ LET N == {r.notification : r \in {r \in Events : r.correlation = c}}
     IN reader' = IF N = {} THEN [pc |-> "AUD-008", wanted |-> EventsOf("none")]
                  ELSE [pc |-> "trace", notifications |-> N, todo |-> N \X Source, atStart |-> rows, got |-> {}]
  /\ UNCHANGED <<rows, now>>

\* One of the queries; a notification without events and receipts fails the whole trace.
TraceQuery(n, s) ==
  /\ reader.pc = "trace"
  /\ <<n, s>> \in reader.todo
  /\ LET got == reader.got \cup (IF s = "audit_event" THEN EventsOf(n) ELSE ReceiptsOf(n))
         todo == reader.todo \ {<<n, s>>}
     IN reader' = IF (\A x \in Source : <<n, x>> \notin todo) /\ (\A r \in got : r.notification # n)
                  THEN [pc |-> "AUD-008", wanted |-> {r \in reader.atStart : r.notification = n}]
                  ELSE [reader EXCEPT !.got = got, !.todo = todo]
  /\ UNCHANGED <<rows, now>>

\* mergeTimeline: a stable sort of the events followed by the receipts.
Timelines(got) ==
  {q \in Oldest(got) :
     \A i, j \in DOMAIN q :
       q[i].at = q[j].at /\ q[i].source = "audit_event" /\ q[j].source = "delivery_receipt" => i < j}

\* buildSummary: correlation of the first event, final status of the last entry.
CorrelationOf(q) ==
  LET E == SelectSeq(q, LAMBDA r : r.source = "audit_event")
  IN IF E = <<>> THEN "none" ELSE E[1].correlation

TraceAnswer ==
  /\ reader.pc = "trace"
  /\ reader.todo = {}
  /\ \E n \in reader.notifications :
       LET got == {r \in reader.got : r.notification = n}
       IN \E q \in Timelines(got) :
            reader' = [pc |-> "traced", timeline |-> q, final |-> Last(q), got |-> got,
                       wanted |-> {r \in reader.atStart : r.notification = n},
                       correlation |-> CorrelationOf(q)]
  /\ UNCHANGED <<rows, now>>

CloseAnswer ==
  /\ reader.pc \in {"listed", "exported", "found", "traced", "AUD-007", "AUD-008"}
  /\ reader' = Unasked
  /\ UNCHANGED <<rows, now>>

QueriesNext ==
  \/ Insert
  \/ \E n \in Notification \cup {"any"} : List(n) \/ Export(n) \/ \E page \in 1 .. 2 : Search(n, page)
  \/ TurnPage
  \/ ExportCount
  \/ ExportSelect
  \/ \E n \in Notification : Trace(n) \/ \E s \in Source : TraceQuery(n, s)
  \/ \E c \in Correlation : TraceCorrelation(c)
  \/ TraceAnswer
  \/ CloseAnswer

QueriesSpec == QueriesInit /\ [][QueriesNext]_queryVars

-----------------------------------------------------------------------------

\* Turning the pages misses no event that was there at the beginning, however many arrive
\* meanwhile, provided its time is its own (the sheet may show some twice).
PagesSkipNothing ==
  reader.pc = "listed" =>
    \A r \in reader.atStart : (\A x \in Events \ {r} : x.at # r.at) => r \in reader.got

\* An export that leaves rows out says so, unless they arrived between its two queries.
TruncationIsTold ==
  reader.pc = "exported" =>
    /\ reader.shown < reader.all => reader.truncated \/ reader.grew
    /\ reader.truncated => reader.shown = exportMaxRows

\* A trace is in order of time, ends with a newest entry and holds everything that was
\* stored when it began; a correlation that has events is never answered "not found"
\* half-way.
TraceIsWhole ==
  /\ reader.pc = "traced" =>
       /\ \A r \in reader.got : r.at <= reader.final.at
       /\ \A i, j \in DOMAIN reader.timeline : i < j => reader.timeline[i].at <= reader.timeline[j].at
       /\ reader.wanted \subseteq ToSet(reader.timeline)
  /\ reader.pc = "AUD-008" => reader.wanted = {}

\* The pages of a search cover what it found: no answer is larger than the limit and a
\* page within totalPages is never empty.
SearchPagesExist ==
  reader.pc = "found" =>
    /\ reader.total <= searchMaxResults
    /\ (reader.got # {}) <=> (reader.page <= reader.totalPages)

\* No aggregate counts more than was received, however often its window is repeated; a
\* window aggregated after its end is exact; the channels of the summary add up to its
\* total; turning pages misses no event that was there at the beginning, and a search has
\* every page it announces; an export that leaves rows out says so, unless they arrived
\* between its queries; and a trace is in order of time and holds everything that was
\* stored when it began.
ReadersExact ==
  /\ AnalyticsTypeOK
  /\ NeverOvercounts /\ ClosedIsExact /\ SummaryAddsUp
  /\ PagesSkipNothing /\ SearchPagesExist
  /\ TruncationIsTold /\ TraceIsWhole
=============================================================================
