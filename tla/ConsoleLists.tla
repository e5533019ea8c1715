---------------------------- MODULE ConsoleLists ----------------------------
(***************************************************************************)
(* The console's lists of audit rows: a search box that waits for the user *)
(* to stop typing, filters, pages, answers that SWR keeps under the query  *)
(* they answer, the CSV export that reads page after page while rows       *)
(* arrive, and the list of dead letters with its actions.                  *)
(***************************************************************************)
EXTENDS ConsoleUploads, Integers, FiniteSets

CONSTANTS
  Text,          \* what a user may type: sequences of letters; a row has the word <<"a", "b">>, or not
  Sizes,         \* the page sizes offered
  Arriving,      \* the rows that may arrive
  MaxRows,       \* bound: rows in the log
  MaxEdits,      \* bound: what the user does to the query
  MaxOthers,     \* bound: what another administrator does to the dead letter
  MaxExports     \* bound: exports

VARIABLES
  log,          \* the log, in the order of arrival
  query,         \* the applied search, filters and page
  searchBox, timer,    \* the text in the search box, and the one about to be applied
  answers, asked,  \* answers by the key of the request, and the requests under way
  export,        \* the CSV export under way
  done,          \* the rows there were when the last export began, and the ones it wrote
  entry,         \* the status of a dead letter
  table,         \* the one the list shows, or None
  confirm,       \* the action the dialog asks about, and the status it saw
  dlqRefused,       \* history: an action the service refused, the status it saw and the one it met
  listEdits, dlqOthers, exports

listVars == <<log, query, searchBox, timer, answers, asked, export, done, entry, table, confirm, dlqRefused,
              listEdits, dlqOthers, exports>>
logVars == <<log, query, searchBox, timer, answers, asked, export, done, exports>>
dlqVars == <<entry, table, confirm, dlqRefused, dlqOthers>>
exportVars == <<export, done, exports>>

\* No type, no text, no action: None is none of the values; and one page size is the largest.
ASSUME ListsAssumption ==
  /\ None \notin Text \cup {<<>>} /\ None \notin {"order", "payment", "pending", "investigated", "reprocessed", "discarded"}
  /\ Sizes \subseteq Nat \ {0} /\ \E n \in Sizes : \A k \in Sizes : k <= n
  /\ MaxEdits \in Nat /\ MaxOthers \in Nat /\ MaxExports \in Nat

Row == [type : {"order", "payment"}, status : {"sent", "failed"}, word : BOOLEAN]
ASSUME ArrivingAssumption == Arriving \subseteq Row
First == [text |-> <<>>, type |-> None, chips |-> {}, page |-> 1, size |-> CHOOSE n \in Sizes : \A k \in Sizes : k <= n]
\* A full-text search needs two letters.
IsSearchMode(q) == Len(q.text) >= 2

\* Mutant: the type is not among the parameters, which are the key.
Params_NoType(q) == [type |-> None, text |-> <<>>, page |-> q.page, size |-> q.size]
\* What is asked for, and the key of its answer. A search asks with neither type nor actor; the chips are never sent.
Params(q) == IF IsSearchMode(q) THEN [type |-> None, text |-> q.text, page |-> q.page, size |-> q.size]
             ELSE [type |-> q.type, text |-> <<>>, page |-> q.page, size |-> q.size]

\* A row of the log never changes: an answer names its rows by their places, the newest on the first page.
Matching(type, text) ==
  {i \in DOMAIN log : (type # None => log[i].type = type) /\ (text # <<>> => log[i].word /\ text = <<"a", "b">>)}
Slice(all, number, size) == {i \in all : Cardinality({j \in all : j >= i}) \in (number - 1) * size + 1 .. number * size}
\* The key is the request.
Answer(k) == LET all == Matching(k.type, k.text) IN [rows |-> Slice(all, k.page, k.size), total |-> Cardinality(all)]

Ready == Params(query) \in DOMAIN answers
Filtered == {i \in answers[Params(query)].rows : query.chips # {} => log[i].status \in query.chips}
\* With chips the pager counts the rows they leave on this page.
Total == IF query.chips # {} THEN Cardinality(Filtered) ELSE answers[Params(query)].total
TotalPages == IF Total = 0 THEN 1 ELSE (Total + query.size - 1) \div query.size

ListsInit ==
  /\ log = << [type |-> "order", status |-> "sent", word |-> TRUE] >>
  /\ query = First /\ searchBox = <<>> /\ timer = None
  /\ answers = [k \in {} |-> None] /\ asked = {Params(First)}
  /\ export = Idle /\ done = None
  /\ entry = "pending" /\ table = None /\ confirm = None /\ dlqRefused = None
  /\ listEdits = 0 /\ dlqOthers = 0 /\ exports = 0

\* A query that is new is asked for; SWR also asks again for one it has an answer to.
AppliedQuery(q) == query' = q /\ asked' = asked \cup {Params(q)} /\ listEdits' = listEdits + 1
Room == listEdits < MaxEdits

\* A key press; the timer starts again.
HandleChange(text) ==
  /\ Room /\ text # searchBox /\ searchBox' = text /\ timer' = text /\ listEdits' = listEdits + 1
  /\ UNCHANGED <<log, query, answers, asked, exportVars, dlqVars>>
Searched(text) == [query EXCEPT !.text = text, !.page = 1]
\* onChange after the delay.
DelayEnds ==
  /\ timer # None /\ timer' = None
  /\ query' = Searched(timer) /\ asked' = asked \cup {Params(Searched(timer))}
  \* the effect on the controlled value, which runs when that value changes
  /\ searchBox' = IF timer # query.text THEN timer ELSE searchBox
  /\ UNCHANGED <<log, answers, listEdits, exportVars, dlqVars>>
ClearSearch ==
  /\ Room /\ searchBox # <<>> /\ searchBox' = <<>> /\ timer' = None /\ AppliedQuery(Searched(<<>>))
  /\ UNCHANGED <<log, answers, exportVars, dlqVars>>
\* The type's field; the actor and the range of dates are handled alike.
ChooseType(type) ==
  /\ Room /\ type # query.type /\ AppliedQuery([query EXCEPT !.type = type, !.page = 1])
  /\ UNCHANGED <<log, searchBox, timer, answers, exportVars, dlqVars>>
ToggleChip(s) ==
  /\ Room /\ AppliedQuery([query EXCEPT !.chips = IF s \in @ THEN @ \ {s} ELSE @ \cup {s}, !.page = 1])
  /\ UNCHANGED <<log, searchBox, timer, answers, exportVars, dlqVars>>
HasActiveFilters == query.text # <<>> \/ query.type # None \/ query.chips # {}
\* A timer that is running keeps running, and a text that is not applied yet stays in the box.
ClearAllFilters ==
  /\ Room /\ HasActiveFilters /\ AppliedQuery([First EXCEPT !.size = query.size])
  /\ searchBox' = IF query.text # <<>> THEN <<>> ELSE searchBox
  /\ UNCHANGED <<log, timer, answers, exportVars, dlqVars>>
\* The pager is shown with an answer that counts a row.
ChoosePage(number) ==
  /\ Room /\ Ready /\ answers[Params(query)].total > 0 /\ number # query.page /\ number \in 1..TotalPages
  /\ AppliedQuery([query EXCEPT !.page = number])
  /\ UNCHANGED <<log, searchBox, timer, answers, exportVars, dlqVars>>
HandlePageSizeChange(size) ==
  /\ Room /\ Ready /\ answers[Params(query)].total > 0 /\ size # query.size
  /\ AppliedQuery([query EXCEPT !.size = size, !.page = 1])
  /\ UNCHANGED <<log, searchBox, timer, answers, exportVars, dlqVars>>
Refresh ==
  /\ Room /\ Params(query) \notin asked /\ AppliedQuery(query)
  /\ UNCHANGED <<log, searchBox, timer, answers, exportVars, dlqVars>>
\* Answers come in any order, each under its own key.
ListReceived(k) ==
  /\ k \in asked /\ asked' = asked \ {k}
  /\ answers' = [j \in DOMAIN answers \cup {k} |-> IF j = k THEN Answer(k) ELSE answers[j]]
  /\ UNCHANGED <<log, query, searchBox, timer, listEdits, exportVars, dlqVars>>
\* The audit service stores a row.
RowArrives(r) ==
  /\ Len(log) < MaxRows /\ log' = Append(log, r)
  /\ UNCHANGED <<query, searchBox, timer, answers, asked, listEdits, exportVars, dlqVars>>

\* Export: pages of one row, for a page of 200; the type and, in search mode, the text are sent.
BeginExport ==
  /\ export = Idle /\ exports < MaxExports /\ exports' = exports + 1
  /\ LET text == IF IsSearchMode(query) THEN query.text ELSE <<>>
     IN export' = [pc |-> "page", type |-> query.type, text |-> text, before |-> Cardinality(Matching(query.type, text)),
                   page |-> 1, pages |-> 1, rows |-> {}]
  /\ UNCHANGED <<log, query, searchBox, timer, answers, asked, done, listEdits, dlqVars>>
\* totalPages, of each answer anew.
Pages(total) == total
\* A row is its place among the rows that match, the oldest first; the file may have it twice.
ExportPage ==
  /\ export.pc = "page" /\ export.page <= export.pages
  /\ LET all == Cardinality(Matching(export.type, export.text))
         got == IF export.page <= all THEN {all - export.page + 1} ELSE {}
     IN export' = [export EXCEPT !.rows = @ \cup got, !.pages = Pages(all), !.page = @ + 1]
  /\ UNCHANGED <<log, query, searchBox, timer, answers, asked, done, listEdits, exports, dlqVars>>
\* "No data to export", or the file.
ExportEnds ==
  /\ export.pc = "page" /\ export.page > export.pages /\ export' = Idle
  /\ done' = IF export.rows = {} THEN done ELSE [before |-> export.before, rows |-> export.rows]
  /\ UNCHANGED <<log, query, searchBox, timer, answers, asked, listEdits, exports, dlqVars>>

DLQ_TRANSITIONS == [pending |-> {"investigated", "discarded"}, investigated |-> {"reprocessed", "discarded"}, reprocessed |-> {}, discarded |-> {}]
Target == {"investigated", "reprocessed", "discarded"}
\* The service's own table; reprocessing asks for one status.
Allows(status, target) ==
  CASE target = "reprocessed" -> status = "investigated"
    [] target = "investigated" -> status = "pending"
    [] target = "discarded" -> status \in {"pending", "investigated"}
\* The first answer, or the next one.
DlqReceived == table # entry /\ table' = entry /\ UNCHANGED <<entry, confirm, dlqRefused, dlqOthers, listEdits, logVars>>
\* A row's action; one its status does not allow is answered by a message.
ChooseAction(target) ==
  /\ table # None /\ confirm = None /\ target \in DLQ_TRANSITIONS[table] /\ confirm' = [target |-> target, seen |-> table]
  /\ UNCHANGED <<entry, table, dlqRefused, dlqOthers, listEdits, logVars>>
Dismiss == confirm # None /\ confirm' = None /\ UNCHANGED <<entry, table, dlqRefused, dlqOthers, listEdits, logVars>>
\* Success empties and asks for the lists again; a refusal leaves the dialog and the list as they are.
HandleAction ==
  /\ confirm # None
  /\ IF Allows(entry, confirm.target)
     THEN entry' = confirm.target /\ table' = None /\ confirm' = None /\ UNCHANGED dlqRefused
     ELSE dlqRefused' = [seen |-> confirm.seen, met |-> entry] /\ UNCHANGED <<entry, table, confirm>>
  /\ UNCHANGED <<dlqOthers, listEdits, logVars>>
\* Another administrator, or a client of the service.
OtherChanges(target) ==
  /\ dlqOthers < MaxOthers /\ dlqOthers' = dlqOthers + 1 /\ Allows(entry, target) /\ entry' = target
  /\ UNCHANGED <<table, confirm, dlqRefused, listEdits, logVars>>

LogNext ==
  \/ \E text \in Text : HandleChange(text)
  \/ DelayEnds \/ ClearSearch \/ ClearAllFilters \/ Refresh
  \/ \E type \in {None, "order", "payment"} : ChooseType(type)
  \/ \E s \in {"sent", "failed"} : ToggleChip(s)
  \/ \E number \in 1..MaxRows : ChoosePage(number)
  \/ \E size \in Sizes : HandlePageSizeChange(size)
  \/ \E k \in asked : ListReceived(k)
  \/ \E r \in Arriving : RowArrives(r)
ExportNext ==
  \/ BeginExport \/ ExportPage \/ ExportEnds \/ DelayEnds
  \/ \E text \in Text : HandleChange(text)
  \/ \E type \in {None, "order", "payment"} : ChooseType(type)
  \/ \E r \in Arriving : RowArrives(r)
DlqNext ==
  \/ DlqReceived \/ Dismiss \/ HandleAction
  \/ \E t \in Target : ChooseAction(t) \/ OtherChanges(t)

ListsSpec == ListsInit /\ [][LogNext \/ ExportNext \/ DlqNext]_listVars

-----------------------------------------------------------------------------
ListsTypeOK ==
  /\ log \in Seq(Row) /\ query.page \in Nat \ {0} /\ query.size \in Sizes
  /\ entry \in Target \cup {"pending"} /\ table \in Target \cup {"pending", None}
  /\ listEdits \in 0..MaxEdits /\ dlqOthers \in 0..MaxOthers /\ exports \in 0..MaxExports

(* The rows shown are the ones of the query shown: answers that arrive late and *)
(* out of order go to the query they answer (use-notifications.ts, use-audit.ts, *)
(* log-list.tsx). A search ignores the type, as the code does.                 *)
ShownMatchesQuery ==
  Ready => \A i \in Filtered :
             /\ IsSearchMode(query) => log[i].word
             /\ ~IsSearchMode(query) /\ query.type # None => log[i].type = query.type

(* With no timer running the box and the applied search are the same, however   *)
(* typing, clearing the box and clearing all filters interleave               *)
(* (search-input.tsx, log-list.tsx).                                           *)
InputAgrees == timer = None => searchBox = query.text

(* The page asked for is one the log has, while it grows and the filters and the *)
(* page size change (log-list.tsx, audit-log-viewer.tsx).                      *)
PageExists ==
  query.page > 1 => (query.page - 1) * query.size < Cardinality(Matching(IF IsSearchMode(query) THEN None ELSE query.type, Params(query).text))

(* An export has every row there was when it began, though rows arrive between *)
(* its pages and push others to later ones; it may have a row twice           *)
(* (use-audit.ts, useCsvExport).                                               *)
ExportIsComplete == done # None => 1..done.before \subseteq done.rows

(* The service refuses an action of the console only for an entry that changed *)
(* since its row was shown (dlq-viewer.tsx, types/audit.ts, dlq.service.ts).  *)
RefusedWhenStale == dlqRefused # None => dlqRefused.seen # dlqRefused.met

\* The rows of a list are those of the query it shows, over late answers and debounced input; the page asked for
\* exists; an export has every row there was when it began; and the service refuses the action on a dead
\* letter only when it changed since.
ListsAgree ==
  /\ ListsTypeOK /\ ShownMatchesQuery /\ InputAgrees
  /\ PageExists /\ ExportIsComplete /\ RefusedWhenStale
=============================================================================
