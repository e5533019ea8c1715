---------------------------- MODULE ConsoleProofs ----------------------------
(***************************************************************************)
(* What the console's pages show: screens over the cache of answers, the   *)
(* pages of uploads, and the lists of audit rows and dead letters; and the *)
(* template service behind the template editor.  Each part has an          *)
(* inductive invariant of its own, for any number of changes, visits,      *)
(* faults, rows, page sizes, writers and versions.                         *)
(***************************************************************************)
EXTENDS ConsoleLists, TemplateStore, FiniteSetTheorems, WellFoundedInduction, TLAPS

-----------------------------------------------------------------------------
(***************************************************************************)
(* Screens.  A change moves "due" only together with a request of its own, *)
(* so that whatever is read from then on is new enough.  A switch follows  *)
(* the row from its first answer on, as long as nobody else changes it.    *)
(***************************************************************************)
Data == [version : Nat, value : BOOLEAN]
ScreenKey == {"list", "item"}
Operation == {"save", "delete", "member", "config", "toggle", "deregister"}
ScreenRequest ==
  [pc : {"none", "settled", "failed"}] \cup [pc : {"sent"}, since : Nat] \cup [pc : {"read"}, data : Data, since : Nat]
Change ==
  {Idle} \cup [pc : {"sent"}, op : Operation, value : BOOLEAN, left : BOOLEAN]
    \cup [pc : {"applied"}, op : Operation, value : BOOLEAN, left : BOOLEAN, version : Nat]

ScreenTypes ==
  /\ screen \in {"none", "list", "item"} /\ row \in Data
  /\ cache \in [ScreenKey -> {None} \cup Data]
  /\ fetch \in [ScreenKey -> ScreenRequest]
  /\ change \in Change
  /\ form \in {None} \cup [base : Data, floor : Nat]
  /\ box \in {None} \cup BOOLEAN
  /\ due \in Nat /\ others \in Nat /\ visits \in Nat /\ reverted \in BOOLEAN

\* A switch, and a toggle of it, come with a cached list.
BoxIsCached ==
  /\ box # None => cache["list"] # None
  /\ change.pc # "idle" /\ change.op = "toggle" => cache["list"] # None

\* Nothing a screen has asked for is older than its request, nor newer than the row.
Ordered ==
  /\ due <= row.version
  /\ change.pc = "applied" => change.version <= row.version
  /\ \A k \in ScreenKey : /\ fetch[k].pc \in {"sent", "read"} => fetch[k].since <= row.version
                          /\ fetch[k].pc = "read" => fetch[k].since <= fetch[k].data.version
  /\ FirstFormIsFresh

NewEnough == cache["list"] # None /\ cache["list"].version >= due
DueIsAsked ==
  /\ fetch["list"].pc = "read" => fetch["list"].data.version >= due
  /\ fetch["list"].pc = "settled" => NewEnough
  /\ fetch["list"].pc = "none" /\ screen = "list" => NewEnough

\* The first visit of the providers' switches, while all changes are the console's own.
Unseen == cache["list"] = None /\ box = None /\ change = Idle /\ row.version = 0
Followed ==
  /\ box # None /\ cache["list"].version <= row.version
  /\ cache["list"].version = row.version => cache["list"].value = row.value
  /\ fetch["list"].pc \in {"none", "settled"}
  /\ change = Idle => box = row.value
  /\ change # Idle => change.op \in {"toggle", "deregister"} /\ box = change.value /\ ~change.left
  /\ change # Idle /\ (change.op = "deregister" \/ change.pc = "applied") => row.value = change.value
SwitchFollows ==
  /\ kind = None => others = 0 /\ visits = 0
  /\ kind \in {None, "providers"} =>
       /\ screen # "item" /\ form = None
       /\ change.pc # "idle" => change.op \in {"toggle", "deregister"}
       /\ others = 0 /\ ~reverted =>
            /\ visits = 0 => Unseen /\ screen = "none" /\ fetch["list"].pc = "none"
            /\ visits = 1 /\ screen = "list" =>
                 \/ Unseen /\ fetch["list"].pc \in {"sent", "read", "failed"}
                      /\ (fetch["list"].pc = "read" => fetch["list"].data = row)
                 \/ Followed

ScreensInv == ScreenTypes /\ BoxIsCached /\ Ordered /\ DueIsAsked /\ SwitchFollows

LEMMA ScreensStart == CacheInit => ScreensInv
<1> SUFFICES ASSUME CacheInit PROVE ScreensInv
  OBVIOUS
<1> USE CacheAssumption DEF CacheInit, ScreenKey, NoFetch, Idle
<1>1. ScreenTypes
  BY DEF ScreenTypes, Data, ScreenRequest, Change
<1>2. BoxIsCached /\ Ordered
  BY DEF BoxIsCached, Ordered, FirstFormIsFresh
<1>3. DueIsAsked
  BY DEF DueIsAsked, NewEnough
<1>4. SwitchFollows
  BY DEF SwitchFollows, Unseen
<1>5. QED
  BY <1>1, <1>2, <1>3, <1>4 DEF ScreensInv

LEMMA ScreensTyped == ASSUME ScreensInv, [CacheNext]_cacheVars PROVE ScreenTypes' /\ BoxIsCached'
<1> USE CacheAssumption DEF ScreensInv, ScreenTypes, BoxIsCached, Data, ScreenKey, ScreenRequest, Change, Idle, NoFetch, Sent,
                            Operation, Base
<1>1. CASE UNCHANGED cacheVars
  BY <1>1 DEF cacheVars
<1>2. ASSUME NEW k, Choose(k) PROVE ScreenTypes' /\ BoxIsCached'
  BY <1>2 DEF Choose
<1>3. ASSUME NEW k \in ScreenKey, Open(k) PROVE ScreenTypes' /\ BoxIsCached'
  BY <1>3 DEF Open, Mounted
<1>4. ASSUME NEW k \in ScreenKey, ServerReads(k) PROVE ScreenTypes' /\ BoxIsCached'
  BY <1>4 DEF ServerReads
<1>5. ASSUME NEW k \in ScreenKey, FetchDone(k) PROVE ScreenTypes' /\ BoxIsCached'
  BY <1>5 DEF FetchDone
<1>6. ASSUME NEW k \in ScreenKey, FetchFails(k) \/ FetchRetry(k) \/ DedupeEnds(k) PROVE ScreenTypes' /\ BoxIsCached'
  BY <1>6 DEF FetchFails, FetchRetry, DedupeEnds, Going
<1>7. CASE Poll
  BY <1>7 DEF Poll
<1>17. CASE TypeValue
  <2>1. box \in BOOLEAN /\ box' \in BOOLEAN
    BY <1>17 DEF TypeValue
  <2>2. QED
    BY <1>17, <2>1 DEF TypeValue
<1>8. CASE Close
  <2>1. change.pc \in {"idle", "sent", "applied"}
    OBVIOUS
  <2>2. CASE change.pc = "idle"
    BY <1>8, <2>2 DEF Close
  <2>3. CASE change.pc = "sent"
    BY <1>8, <2>3 DEF Close
  <2>4. CASE change.pc = "applied"
    BY <1>8, <2>4 DEF Close
  <2>5. QED
    BY <2>1, <2>2, <2>3, <2>4
<1>9. ASSUME NEW op \in Operation, NEW v \in BOOLEAN, Submit(op, v), UNCHANGED form,
             box' \in {None} \cup BOOLEAN, (box # None) = (box' # None), op = "toggle" => box # None
      PROVE  ScreenTypes' /\ BoxIsCached'
  BY <1>9 DEF Submit
<1>15. CASE SaveForm \/ DeleteRow \/ ChangeMember \/ DeleteProvider
  <2>1. CASE SaveForm
    BY <1>9, <2>1 DEF SaveForm
  <2>2. CASE DeleteRow \/ ChangeMember \/ DeleteProvider
    BY <1>9, <2>2 DEF DeleteRow, ChangeMember, DeleteProvider
  <2>3. QED
    BY <1>15, <2>1, <2>2
<1>16. CASE SaveConfig \/ HandleToggle
  BY <1>9, <1>16 DEF SaveConfig, HandleToggle
<1>10. CASE Applied
  BY <1>10 DEF Applied
<1>11. CASE Answered
  BY <1>11 DEF Answered, Mounted, Refreshed
<1>12. CASE ChangeFails
  BY <1>12 DEF ChangeFails, Reverted
<1>13. ASSUME NEW value \in BOOLEAN, OtherChange(value) PROVE ScreenTypes' /\ BoxIsCached'
  BY <1>13 DEF OtherChange
<1>14. QED
  BY <1>1, <1>2, <1>3, <1>4, <1>5, <1>6, <1>7, <1>8, <1>9, <1>10, <1>11, <1>12, <1>13, <1>15, <1>16, <1>17 DEF CacheNext

LEMMA ScreensInOrder == ASSUME ScreensInv, [CacheNext]_cacheVars PROVE Ordered' /\ DueIsAsked'
<1> USE DEF ScreensInv, ScreenTypes, Ordered, DueIsAsked, NewEnough, FirstFormIsFresh, Data, ScreenKey, ScreenRequest, Change, Idle, NoFetch, Sent,
            Operation, Base
<1>1. CASE UNCHANGED cacheVars
  BY <1>1 DEF cacheVars
<1>2. ASSUME NEW k, Choose(k) PROVE Ordered' /\ DueIsAsked'
  BY <1>2 DEF Choose
<1>3. ASSUME NEW k \in ScreenKey, Open(k) PROVE Ordered' /\ DueIsAsked'
  BY <1>3 DEF Open, Mounted
<1>4. ASSUME NEW k \in ScreenKey, ServerReads(k) PROVE Ordered' /\ DueIsAsked'
  BY <1>4 DEF ServerReads
<1>5. ASSUME NEW k \in ScreenKey, FetchDone(k) PROVE Ordered' /\ DueIsAsked'
  <2>1. fetch[k] \in [pc : {"read"}, data : Data, since : Nat]
    BY <1>5 DEF FetchDone
  <2>2. CASE k = "list"
    <3> DEFINE data == fetch["list"].data
    <3>1. data.version \in Nat /\ data \in Data /\ data # None /\ data.version >= due /\ fetch["list"].since <= data.version
      BY <1>5, <2>1, <2>2, CacheAssumption DEF FetchDone
    <3>2. cache'["list"] = data /\ fetch' = [fetch EXCEPT !["list"] = [pc |-> "settled"]]
      BY <1>5, <2>2 DEF FetchDone
    <3>3. form' = form /\ UNCHANGED <<kind, screen, row, change, due>>
      BY <1>5, <2>2 DEF FetchDone
    <3>4. QED
      BY <3>1, <3>2, <3>3
  <2>3. CASE k = "item"
    BY <1>5, <2>1, <2>3 DEF FetchDone
  <2>4. QED
    BY <2>2, <2>3
<1>6. ASSUME NEW k \in ScreenKey, FetchFails(k) \/ FetchRetry(k) \/ DedupeEnds(k) PROVE Ordered' /\ DueIsAsked'
  BY <1>6 DEF FetchFails, FetchRetry, DedupeEnds, Going
<1>7. CASE Poll
  BY <1>7 DEF Poll
<1>8. CASE TypeValue \/ Close
  BY <1>8 DEF TypeValue, Close
<1>9. ASSUME NEW op, NEW v, Submit(op, v), UNCHANGED form PROVE Ordered' /\ DueIsAsked'
  BY <1>9 DEF Submit
<1>10. CASE SaveForm \/ DeleteRow \/ ChangeMember \/ SaveConfig \/ HandleToggle \/ DeleteProvider
  BY <1>9, <1>10 DEF SaveForm, DeleteRow, ChangeMember, SaveConfig, HandleToggle, DeleteProvider
<1>11. CASE Applied
  BY <1>11 DEF Applied
<1>12. CASE Answered
  BY <1>12 DEF Answered, Mounted, Refreshed
<1>13. CASE ChangeFails
  BY <1>13 DEF ChangeFails
<1>14. ASSUME NEW value \in BOOLEAN, OtherChange(value) PROVE Ordered' /\ DueIsAsked'
  BY <1>14 DEF OtherChange
<1>15. QED
  BY <1>1, <1>2, <1>3, <1>4, <1>5, <1>6, <1>7, <1>8, <1>10, <1>11, <1>12, <1>13, <1>14 DEF CacheNext

LEMMA ScreensFollow == ASSUME ScreensInv, [CacheNext]_cacheVars PROVE SwitchFollows'
<1> USE CacheAssumption DEF ScreensInv, ScreenTypes, BoxIsCached, Ordered, SwitchFollows, Unseen, Followed, Data, ScreenKey, ScreenRequest, Change,
            Idle, NoFetch, Sent, Operation, Base
<1>1. CASE UNCHANGED cacheVars
  BY <1>1 DEF cacheVars
<1>2. ASSUME NEW k \in Kind, Choose(k) PROVE SwitchFollows'
  BY <1>2 DEF Choose
<1>3. ASSUME NEW k \in ScreenKey, Open(k) PROVE SwitchFollows'
  BY <1>3 DEF Open, Mounted
<1>4. ASSUME NEW k \in ScreenKey, ServerReads(k) PROVE SwitchFollows'
  BY <1>4 DEF ServerReads
<1>5. ASSUME NEW k \in ScreenKey, FetchDone(k) PROVE SwitchFollows'
  BY <1>5 DEF FetchDone
<1>6. ASSUME NEW k \in ScreenKey, FetchFails(k) \/ FetchRetry(k) \/ DedupeEnds(k) PROVE SwitchFollows'
  BY <1>6 DEF FetchFails, FetchRetry, DedupeEnds, Going
<1>7. CASE Poll
  BY <1>7 DEF Poll
<1>8. CASE TypeValue
  BY <1>8 DEF TypeValue
<1>9. CASE Close
  BY <1>9 DEF Close
<1>10. CASE SaveForm \/ DeleteRow \/ ChangeMember \/ SaveConfig
  BY <1>10 DEF SaveForm, DeleteRow, ChangeMember, SaveConfig, Submit
<1>11. CASE HandleToggle
  BY <1>11 DEF HandleToggle, Submit
<1>12. CASE DeleteProvider
  BY <1>12 DEF DeleteProvider, Submit
<1>13. CASE Applied
  BY <1>13 DEF Applied
<1>14. CASE Answered
  <2>1. CASE kind \in {None, "providers"}
    BY <1>14, <2>1 DEF Answered
  <2>2. CASE kind \notin {None, "providers"}
    BY <1>14, <2>2 DEF Answered
  <2>3. QED
    BY <2>1, <2>2
<1>15. CASE ChangeFails
  BY <1>15 DEF ChangeFails, Reverted
<1>16. ASSUME NEW value \in BOOLEAN, OtherChange(value) PROVE SwitchFollows'
  BY <1>16 DEF OtherChange
<1>17. QED
  BY <1>1, <1>2, <1>3, <1>4, <1>5, <1>6, <1>7, <1>8, <1>9, <1>10, <1>11, <1>12, <1>13, <1>14, <1>15, <1>16 DEF CacheNext

\* What a screen shows of the console's own changes, a form's values and a switch, for every number of
\* changes, faults and visits.
LEMMA ScreensAgree == ScreensInv => OwnChangesShown /\ FirstFormIsFresh /\ SwitchAgrees
BY DEF ScreensInv, ScreenTypes, Ordered, DueIsAsked, NewEnough, OwnChangesShown, SwitchAgrees, SwitchFollows, Unseen, Followed, Going, Idle

-----------------------------------------------------------------------------
(***************************************************************************)
(* Uploads.  A file that is sent was validated by the drop zone; and once  *)
(* an upload was answered, the history's rows and the request under way    *)
(* for them are from after its creation.                                   *)
(***************************************************************************)
Accepted == {file \in File : ValidateFile(file)}
UploadStatus == ACTIVE_STATUSES \cup Final \cup {"none", "deleted"}
UploadRequest == {Idle} \cup [pc : {"sent"}] \cup [pc : {"read"}, data : UploadStatus]

UploadTypes ==
  /\ upload \in UploadStatus /\ created \in {0, 1}
  /\ selected \in {None} \cup Accepted
  /\ creating \in {Idle} \cup [pc : {"sent", "created", "refused"}, file : Accepted, left : BOOLEAN]
  /\ uploadFetch \in [Keys -> UploadRequest]
  /\ RefusedForType

Existing ==
  /\ created = 1 <=> upload # "none"
  /\ creating.pc \in {"sent", "refused"} => created = 0
  /\ created = 0 => list \in {None, "none"} /\ (uploadFetch["list"].pc = "read" => uploadFetch["list"].data = "none")
ListedOnceAnswered ==
  clean /\ created = 1 /\ creating.pc # "created" =>
    list # "none" /\ (uploadFetch["list"].pc = "read" => uploadFetch["list"].data # "none")

UploadsInv == UploadTypes /\ Existing /\ ListedOnceAnswered

LEMMA UploadsStart == UploadsInit => UploadsInv
BY UploadsAssumption
   DEF UploadsInit, UploadsInv, UploadTypes, Existing, ListedOnceAnswered, UploadStatus, UploadRequest, RefusedForType, Keys, Idle

LEMMA UploadsStep == ASSUME UploadsInv, [UploadsNext]_uploadVars PROVE UploadsInv'
<1> USE UploadsAssumption
        DEF UploadsInv, UploadTypes, Existing, ListedOnceAnswered, UploadStatus, UploadRequest, RefusedForType, Keys, Idle, Accepted,
            ACTIVE_STATUSES, Final
<1>1. CASE UNCHANGED uploadVars
  BY <1>1 DEF uploadVars
<1>2. ASSUME NEW file \in File, HandleFile(file) PROVE UploadsInv'
  BY <1>2 DEF HandleFile
<1>3. CASE ClearFile
  BY <1>3 DEF ClearFile
<1>4. CASE HandleUpload
  BY <1>4 DEF HandleUpload
<1>5. CASE ServiceCreates
  <2>1. creating \in [pc : {"sent"}, file : Accepted, left : BOOLEAN] /\ created = 0 /\ upload = "none"
    BY <1>5 DEF ServiceCreates
  <2>2. creating.file.xlsx /\ creating.file.small
    BY <2>1 DEF ValidateFile
  <2>3. uploadRefused' = None => created' = 1 /\ upload' = "queued" /\ creating' = [creating EXCEPT !.pc = "created"]
    BY <1>5, <2>1, <2>2 DEF ServiceCreates
  <2>4. uploadRefused' # None => uploadRefused' = "BUS-013" /\ created' = 0 /\ upload' = "none"
                                   /\ creating' = [creating EXCEPT !.pc = "refused"]
    BY <1>5, <2>1, <2>2 DEF ServiceCreates
  <2>5. UNCHANGED <<selected, list, uploadFetch, clean>>
    BY <1>5 DEF ServiceCreates
  <2>6. CASE uploadRefused' = None
    BY <2>1, <2>3, <2>5, <2>6
  <2>7. CASE uploadRefused' # None
    BY <2>1, <2>4, <2>5, <2>7
  <2>8. QED
    BY <2>6, <2>7
<1>6. CASE CreateAnswered
  BY <1>6 DEF CreateAnswered, Listed
<1>7. CASE CreateFails
  BY <1>7 DEF CreateFails
<1>8. CASE Progress
  BY <1>8 DEF Progress
<1>9. CASE OpenHistory
  BY <1>9 DEF OpenHistory, Ask
<1>10. CASE OpenDetail
  BY <1>10 DEF OpenDetail, Ask
<1>11. ASSUME NEW k \in Keys, UploadRead(k) PROVE UploadsInv'
  BY <1>11 DEF UploadRead
<1>12. ASSUME NEW k \in Keys, UploadReceived(k) PROVE UploadsInv'
  BY <1>12 DEF UploadReceived
<1>13. CASE Mount \/ HistoryInterval \/ StatusInterval
  BY <1>13 DEF Mount, HistoryInterval, StatusInterval
<1>14. CASE Retry
  BY <1>14 DEF Retry
<1>15. CASE HandleDelete
  BY <1>15 DEF HandleDelete
<1>16. QED
  BY <1>1, <1>2, <1>3, <1>4, <1>5, <1>6, <1>7, <1>8, <1>9, <1>10, <1>11, <1>12, <1>13, <1>14, <1>15 DEF UploadsNext

\* At rest the console's screens show its own changes, its forms start from a row no older than their
\* request, its switches agree with their rows, its history has the upload that was answered, and a file of
\* the drop zone is refused for an untold type only (use-api.ts, channel-detail.tsx, use-bulk-upload.ts).
THEOREM ScreensHold == CacheSpec /\ UploadsSpec => []ScreensFresh
<1>1. ScreensInv /\ [CacheNext]_cacheVars => ScreensInv'
  BY ScreensTyped, ScreensInOrder, ScreensFollow DEF ScreensInv
<1>2. UploadsInv => CreatedIsListed /\ RefusedForType
  BY DEF UploadsInv, UploadTypes, ListedOnceAnswered, CreatedIsListed, Idle
<1>3. CacheSpec => []ScreensInv
  BY <1>1, ScreensStart, PTL DEF CacheSpec
<1>4. UploadsSpec => []UploadsInv
  BY UploadsStart, UploadsStep, PTL DEF UploadsSpec
<1>5. ScreensInv /\ UploadsInv => ScreensFresh
  BY <1>2, ScreensAgree DEF ScreensFresh
<1>6. QED
  BY <1>3, <1>4, <1>5, PTL

-----------------------------------------------------------------------------
(***************************************************************************)
(* Lists.  An answer's rows match its own key and stay, for the log only   *)
(* grows; the box and a running timer belong to one text; an export reads  *)
(* from the newest row to the oldest, and rows that arrive push what it    *)
(* has not read to later pages only.                                       *)
(***************************************************************************)
Words == Text \cup {<<>>}
RowType == {None, "order", "payment"}
PageNumber == Nat \ {0}
Query == [text : Words, type : RowType, chips : SUBSET {"sent", "failed"}, page : PageNumber, size : Sizes]
DlqStatus == Target \cup {"pending"}

ListTypes ==
  /\ ListsTypeOK /\ query \in Query
  /\ searchBox \in Words /\ timer \in {None} \cup Text
  /\ export \in {Idle} \cup [pc : {"page"}, type : RowType, text : Words, before : Nat, page : Nat \ {0}, pages : Nat,
                             rows : SUBSET Nat]

BoxOrApplied ==
  /\ InputAgrees
  /\ timer # None => searchBox \in {timer, query.text}

Count(type, text) == Cardinality(Matching(type, text))
AnswersMatch ==
  \A k \in DOMAIN answers :
    /\ answers[k].rows \subseteq Matching(k.type, k.text)
    /\ answers[k].total \in Nat /\ answers[k].total <= Count(k.type, k.text)
    /\ Cardinality(answers[k].rows) <= answers[k].total

\* What is left of an export is the rows below its page.
ExportReads ==
  export.pc = "page" =>
    /\ export.before <= Count(export.type, export.text)
    /\ export.page = 1 => export.pages = 1
    /\ export.page > 1 => /\ export.pages <= Count(export.type, export.text)
                          /\ \A i \in 1..export.before : i > export.pages - export.page + 1 => i \in export.rows

ConfirmAllowed ==
  /\ confirm # None => confirm.seen \in DlqStatus /\ confirm.target \in DLQ_TRANSITIONS[confirm.seen]
  /\ RefusedWhenStale

ListsInv == ListTypes /\ BoxOrApplied /\ AnswersMatch /\ PageExists /\ ExportReads /\ ExportIsComplete /\ ConfirmAllowed

\* The number of pages is rounded up: the last page has a row.
LEMMA LastPageHasRow ==
  ASSUME NEW total \in Nat \ {0}, NEW size \in Nat \ {0}, NEW number \in Nat, number <= (total + size - 1) \div size
  PROVE  (number - 1) * size < total
<1> DEFINE n == total + size - 1
           d == n \div size
<1>1. n \in Nat /\ d \in Nat /\ d * size <= n
  OBVIOUS
<1>2. number * size <= d * size
  BY <1>1
<1>3. (number - 1) * size = number * size - size
  OBVIOUS
<1>4. QED
  BY <1>1, <1>2, <1>3

LEMMA MatchingFinite ==
  ASSUME log \in Seq(Row), NEW type, NEW text
  PROVE  /\ Matching(type, text) \subseteq 1..Len(log) /\ IsFiniteSet(Matching(type, text))
         /\ Count(type, text) \in Nat
         /\ \A S \in SUBSET Matching(type, text) : IsFiniteSet(S) /\ Cardinality(S) \in Nat /\ Cardinality(S) <= Count(type, text)
<1>1. Matching(type, text) \subseteq 1..Len(log)
  BY DEF Matching
<1>2. IsFiniteSet(1..Len(log))
  BY FS_Interval
<1>3. IsFiniteSet(Matching(type, text))
  BY <1>1, <1>2, FS_Subset
<1>4. QED
  BY <1>1, <1>3, FS_Subset, FS_CardinalityType DEF Count

\* What matched still does when a row has arrived.
LEMMA MatchingGrows ==
  ASSUME log \in Seq(Row), NEW r \in Row, log' = Append(log, r), NEW type, NEW text
  PROVE  Matching(type, text) \subseteq Matching(type, text)' /\ Count(type, text) <= Count(type, text)'
<1>1. log' \in Seq(Row) /\ DOMAIN log \subseteq DOMAIN log' /\ \A i \in DOMAIN log : log'[i] = log[i]
  OBVIOUS
<1>2. Matching(type, text) \subseteq Matching(type, text)'
  BY <1>1 DEF Matching
<1>3. Matching(type, text)' \subseteq 1..Len(log')
  BY <1>1 DEF Matching
<1>4. IsFiniteSet(Matching(type, text)')
  <2>1. IsFiniteSet(1..Len(log'))
    BY <1>1, FS_Interval
  <2>2. QED
    BY <1>3, <2>1, FS_Subset
<1>5. QED
  BY <1>2, <1>4, FS_Subset DEF Count

LEMMA FirstQuery == First \in Query /\ First.page = 1 /\ First.text = <<>>
<1>1. (CHOOSE n \in Sizes : \A k \in Sizes : k <= n) \in Sizes
  BY ListsAssumption
<1>2. First.size \in Sizes /\ First = [text |-> <<>>, type |-> None, chips |-> {}, page |-> 1, size |-> First.size]
  BY <1>1 DEF First
<1>3. QED
  BY <1>2 DEF Query, PageNumber, Words, RowType

LEMMA ListsStart == ListsInit => ListsInv
<1> SUFFICES ASSUME ListsInit PROVE ListsInv
  OBVIOUS
<1> USE ListsAssumption DEF ListsInit
<1>2. log \in Seq(Row)
  BY DEF Row
<1>3. ListTypes
  BY <1>2, FirstQuery DEF ListTypes, ListsTypeOK, Query, PageNumber, Words, Target
<1>4. BoxOrApplied /\ PageExists
  BY FirstQuery DEF BoxOrApplied, InputAgrees, PageExists
<1>5. AnswersMatch /\ ExportReads /\ ExportIsComplete /\ ConfirmAllowed
  BY DEF AnswersMatch, ExportReads, Idle, ExportIsComplete, ConfirmAllowed, RefusedWhenStale
<1>6. QED
  BY <1>3, <1>4, <1>5 DEF ListsInv

\* A step that leaves the log alone leaves what the answers and the export say of it.
LEMMA AnswersKept == ASSUME AnswersMatch, UNCHANGED <<log, answers>> PROVE AnswersMatch'
BY DEF AnswersMatch, Count, Matching

LEMMA ExportKept ==
  ASSUME ExportReads, ExportIsComplete, UNCHANGED <<log, export, done>> PROVE ExportReads' /\ ExportIsComplete'
BY DEF ExportReads, ExportIsComplete, Count, Matching

LEMMA PageKept == ASSUME PageExists, UNCHANGED <<log, query>> PROVE PageExists'
BY DEF PageExists, Matching, Params, IsSearchMode

LEMMA ConfirmKept == ASSUME ConfirmAllowed, UNCHANGED <<confirm, dlqRefused>> PROVE ConfirmAllowed'
BY DEF ConfirmAllowed, RefusedWhenStale

LEMMA QueryChanges ==
  ASSUME NEW q \in Query, NEW text \in Words, NEW type \in RowType, NEW chips \in SUBSET {"sent", "failed"}, NEW number \in PageNumber,
         NEW size \in Sizes
  PROVE  /\ [q EXCEPT !.text = text, !.page = 1] \in Query /\ [q EXCEPT !.type = type, !.page = 1] \in Query
         /\ [q EXCEPT !.chips = chips, !.page = 1] \in Query /\ [q EXCEPT !.size = size, !.page = 1] \in Query
         /\ [q EXCEPT !.page = number] \in Query /\ [q EXCEPT !.size = size] \in Query
<1>1. 1 \in PageNumber
  BY DEF PageNumber
<1>2. QED
  BY <1>1 DEF Query

\* What the user does to the query.
LEMMA QueryStep ==
  ASSUME ListsInv, NEW q \in Query, AppliedQuery(q), Room, UNCHANGED <<log, answers, exportVars, dlqVars>>,
         searchBox' \in Words, timer' \in {None} \cup Text, BoxOrApplied', PageExists'
  PROVE  ListsInv'
<1> USE DEF ListsInv, AppliedQuery, exportVars, dlqVars
<1>1. listEdits' \in 0..MaxEdits
  BY ListsAssumption DEF Room, ListTypes, ListsTypeOK
<1>2. ListTypes'
  BY <1>1 DEF ListTypes, ListsTypeOK, Query, PageNumber
<1>3. QED
  BY <1>2, AnswersKept, ExportKept, ConfirmKept

LEMMA TextStep ==
  ASSUME ListsInv, (\E text \in Text : HandleChange(text)) \/ DelayEnds \/ ClearSearch \/ ClearAllFilters
  PROVE  ListsInv'
<1> USE ListsAssumption DEF ListsInv, exportVars, dlqVars
<1>0. query \in Query /\ searchBox \in Words /\ timer \in {None} \cup Text
  BY DEF ListTypes
<1>1. ASSUME NEW text \in Text, HandleChange(text) PROVE ListsInv'
  <2> USE <1>1 DEF HandleChange
  <2>1. ListTypes'
    BY <1>0 DEF ListTypes, ListsTypeOK, Room, Words
  <2>2. BoxOrApplied'
    BY DEF BoxOrApplied, InputAgrees
  <2>3. QED
    BY <2>1, <2>2, AnswersKept, ExportKept, PageKept, ConfirmKept
<1>2. CASE DelayEnds
  <2> USE <1>2 DEF DelayEnds, Searched
  <2>0. timer \in Words
    BY <1>0 DEF Words
  <2>1. query' \in Query /\ query'.page = 1 /\ query'.text = timer
    BY <1>0, <2>0, QueryChanges DEF Query
  <2>2. searchBox' \in Words
    BY <1>0 DEF Words
  <2>3. ListTypes'
    BY <2>1, <2>2 DEF ListTypes, ListsTypeOK, Query, PageNumber
  <2>4. BoxOrApplied'
    BY <2>1, <1>0 DEF BoxOrApplied, InputAgrees
  <2>5. PageExists'
    BY <2>1 DEF PageExists
  <2>6. QED
    BY <2>3, <2>4, <2>5, AnswersKept, ExportKept, ConfirmKept
<1>3. CASE ClearSearch
  <2>0. <<>> \in Words
    BY DEF Words
  <2>1. Searched(<<>>) \in Query /\ Searched(<<>>).page = 1 /\ Searched(<<>>).text = <<>>
    BY <1>0, <2>0, QueryChanges DEF Searched, Query
  <2>2. BoxOrApplied' /\ PageExists'
    BY <1>3, <2>1 DEF ClearSearch, AppliedQuery, BoxOrApplied, InputAgrees, PageExists
  <2>3. QED
    BY <1>3, <2>1, <2>2, QueryStep DEF ClearSearch, Words
<1>4. CASE ClearAllFilters
  <2> DEFINE q == [First EXCEPT !.size = query.size]
  <2>0. First \in Query /\ First.page = 1 /\ First.text = <<>> /\ query.size \in Sizes
    BY <1>0, FirstQuery DEF Query
  <2>1. q \in Query /\ q.page = 1 /\ q.text = <<>>
    BY <2>0, QueryChanges DEF Query
  <2>2. BoxOrApplied' /\ PageExists'
    BY <1>4, <2>1 DEF ClearAllFilters, AppliedQuery, BoxOrApplied, InputAgrees, PageExists
  <2>3. searchBox' \in Words /\ timer' = timer
    BY <1>0, <1>4 DEF ClearAllFilters, Words
  <2>4. QED
    BY <1>0, <1>4, <2>1, <2>2, <2>3, QueryStep DEF ClearAllFilters
<1>5. QED
  BY <1>1, <1>2, <1>3, <1>4

\* A page that the pager offers has a row: the answer it counts is no larger than the log by now.
LEMMA PagerOffers ==
  ASSUME ListsInv, Ready, NEW number \in Nat \ {0}, number \in 1..TotalPages, answers[Params(query)].total > 0, number > 1
  PROVE  (number - 1) * query.size < Count(IF IsSearchMode(query) THEN None ELSE query.type, Params(query).text)
<1> DEFINE k == Params(query)
<1>1. log \in Seq(Row) /\ query.size \in Nat \ {0}
  BY ListsAssumption DEF ListsInv, ListTypes, ListsTypeOK
<1>2. k.type = (IF IsSearchMode(query) THEN None ELSE query.type)
  BY DEF Params
<1>3. answers[k].rows \subseteq Matching(k.type, k.text) /\ answers[k].total \in Nat
        /\ answers[k].total <= Count(k.type, k.text) /\ Cardinality(answers[k].rows) <= answers[k].total
  BY DEF ListsInv, AnswersMatch, Ready
<1>4. IsFiniteSet(answers[k].rows)
  BY <1>1, <1>3, MatchingFinite
<1>5. Filtered \subseteq answers[k].rows
  BY DEF Filtered
<1>6. Cardinality(Filtered) \in Nat /\ Cardinality(Filtered) <= Cardinality(answers[k].rows)
  BY <1>4, <1>5, FS_Subset, FS_CardinalityType
<1>7. Total \in Nat /\ Total <= answers[k].total
  BY <1>3, <1>4, <1>6, FS_CardinalityType DEF Total
<1>8. Total # 0 /\ number <= (Total + query.size - 1) \div query.size
  BY <1>7 DEF TotalPages
<1>9. (number - 1) * query.size < Total
  BY <1>1, <1>7, <1>8, LastPageHasRow
<1>10. Count(k.type, k.text) \in Nat /\ (number - 1) * query.size \in Nat
  BY <1>1, MatchingFinite
<1>11. QED
  BY <1>2, <1>3, <1>7, <1>9, <1>10

LEMMA FilterStep ==
  ASSUME ListsInv,
         \/ \E type \in RowType : ChooseType(type)
         \/ \E s \in {"sent", "failed"} : ToggleChip(s)
         \/ \E number \in 1..MaxRows : ChoosePage(number)
         \/ \E size \in Sizes : HandlePageSizeChange(size)
         \/ Refresh
  PROVE  ListsInv'
<1>0. query \in Query /\ searchBox \in Words /\ timer \in {None} \cup Text /\ BoxOrApplied /\ PageExists
  BY DEF ListsInv, ListTypes
<1>1. ASSUME NEW q \in Query, AppliedQuery(q), q.text = query.text, Room, UNCHANGED <<log, searchBox, timer, answers, exportVars, dlqVars>>,
             PageExists'
      PROVE  ListsInv'
  <2>1. BoxOrApplied'
    BY <1>0, <1>1 DEF BoxOrApplied, InputAgrees, AppliedQuery
  <2>2. QED
    BY <1>0, <1>1, <2>1, QueryStep
<1>2. ASSUME NEW q \in Query, AppliedQuery(q), q.page = 1 PROVE PageExists'
  BY <1>2 DEF AppliedQuery, PageExists
<1>3. ASSUME NEW type \in RowType, ChooseType(type) PROVE ListsInv'
  <2> DEFINE q == [query EXCEPT !.type = type, !.page = 1]
  <2>1. q \in Query /\ q.page = 1 /\ q.text = query.text
    BY <1>0, QueryChanges DEF Query
  <2>2. QED
    BY <1>1, <1>2, <1>3, <2>1 DEF ChooseType
<1>4. ASSUME NEW s \in {"sent", "failed"}, ToggleChip(s) PROVE ListsInv'
  <2> DEFINE chips == IF s \in query.chips THEN query.chips \ {s} ELSE query.chips \cup {s}
  <2>1. chips \in SUBSET {"sent", "failed"}
    BY <1>0 DEF Query
  <2>2. [query EXCEPT !.chips = chips, !.page = 1] \in Query
    BY <1>0, <2>1, QueryChanges DEF Query
  <2>3. QED
    BY <1>0, <1>1, <1>2, <1>4, <2>2 DEF ToggleChip, Query
<1>5. ASSUME NEW number \in 1..MaxRows, ChoosePage(number) PROVE ListsInv'
  <2> DEFINE q == [query EXCEPT !.page = number]
  <2>0. number \in PageNumber /\ number \in Nat \ {0}
    BY DEF PageNumber
  <2>1. q \in Query /\ q.text = query.text /\ AppliedQuery(q)
    BY <1>0, <1>5, <2>0, QueryChanges DEF ChoosePage, Query
  <2>2. number > 1 => (number - 1) * query.size < Count(IF IsSearchMode(query) THEN None ELSE query.type, Params(query).text)
    BY <1>5, <2>0, PagerOffers DEF ChoosePage
  <2>3. q.page = number /\ q.size = query.size /\ q.type = query.type /\ IsSearchMode(q) = IsSearchMode(query)
          /\ Params(q).text = Params(query).text
    BY <1>0 DEF Query, IsSearchMode, Params
  <2>4. query' = q /\ log' = log
    BY <1>5, <2>1 DEF ChoosePage, AppliedQuery
  <2>5. PageExists'
    BY <2>2, <2>3, <2>4 DEF PageExists, Count, Matching, IsSearchMode, Params
  <2>6. QED
    BY <1>1, <1>5, <2>1, <2>5 DEF ChoosePage
<1>6. ASSUME NEW size \in Sizes, HandlePageSizeChange(size) PROVE ListsInv'
  <2> DEFINE q == [query EXCEPT !.size = size, !.page = 1]
  <2>1. q \in Query /\ q.page = 1 /\ q.text = query.text
    BY <1>0, QueryChanges DEF Query
  <2>2. QED
    BY <1>1, <1>2, <1>6, <2>1 DEF HandlePageSizeChange
<1>7. CASE Refresh
  <2>1. PageExists'
    BY <1>0, <1>7, PageKept DEF Refresh, AppliedQuery
  <2>2. QED
    BY <1>0, <1>1, <1>7, <2>1 DEF Refresh
<1>8. QED
  BY <1>3, <1>4, <1>5, <1>6, <1>7

LEMMA AnswerStep ==
  ASSUME ListsInv, (\E k \in asked : ListReceived(k)) \/ (\E r \in Arriving : RowArrives(r)) PROVE ListsInv'
<1> USE DEF ListsInv, exportVars, dlqVars
<1>0. log \in Seq(Row)
  BY DEF ListTypes, ListsTypeOK
<1>1. ASSUME NEW k \in asked, ListReceived(k) PROVE ListsInv'
  <2> USE <1>1 DEF ListReceived
  <2>1. ListTypes' /\ BoxOrApplied'
    BY DEF ListTypes, ListsTypeOK, BoxOrApplied, InputAgrees
  <2>2. ASSUME NEW j \in DOMAIN answers'
        PROVE  /\ answers'[j].rows \subseteq Matching(j.type, j.text)
               /\ answers'[j].total \in Nat /\ answers'[j].total <= Count(j.type, j.text)
               /\ Cardinality(answers'[j].rows) <= answers'[j].total
    <3>1. CASE j = k
      <4> DEFINE all == Matching(k.type, k.text)
      <4>1. answers'[j] = [rows |-> Slice(all, k.page, k.size), total |-> Cardinality(all)]
        BY <2>2, <3>1 DEF Answer
      <4>2. Slice(all, k.page, k.size) \subseteq all
        BY DEF Slice
      <4>3. Count(k.type, k.text) \in Nat /\ Cardinality(Slice(all, k.page, k.size)) <= Count(k.type, k.text)
        BY <1>0, <4>2, MatchingFinite
      <4>4. QED
        BY <3>1, <4>1, <4>2, <4>3 DEF Count
    <3>2. CASE j # k
      BY <2>2, <3>2 DEF AnswersMatch
    <3>3. QED
      BY <3>1, <3>2
  <2>3. AnswersMatch'
    <3>1. \A type, text : Matching(type, text)' = Matching(type, text) /\ Count(type, text)' = Count(type, text)
      BY DEF Count, Matching
    <3>2. QED
      BY <2>2, <3>1 DEF AnswersMatch
  <2>4. QED
    BY <2>1, <2>3, ExportKept, PageKept, ConfirmKept
<1>2. ASSUME NEW r \in Arriving, RowArrives(r) PROVE ListsInv'
  <2> USE <1>2 DEF RowArrives
  <2>1. r \in Row /\ log' \in Seq(Row)
    BY <1>0, ArrivingAssumption
  <2>2. \A type, text : /\ Matching(type, text) \subseteq Matching(type, text)' /\ Count(type, text) <= Count(type, text)'
                        /\ Count(type, text) \in Nat /\ Count(type, text)' \in Nat
    <3> SUFFICES ASSUME NEW type, NEW text
                 PROVE  /\ Matching(type, text) \subseteq Matching(type, text)' /\ Count(type, text) <= Count(type, text)'
                        /\ Count(type, text) \in Nat /\ Count(type, text)' \in Nat
      OBVIOUS
    <3>1. Matching(type, text)' \subseteq 1..Len(log') /\ Len(log') \in Nat
      BY <2>1 DEF Matching
    <3>2. IsFiniteSet(Matching(type, text)')
      <4>1. IsFiniteSet(1..Len(log'))
        BY <3>1, FS_Interval
      <4>2. QED
        BY <3>1, <4>1, FS_Subset
    <3>3. Count(type, text)' \in Nat
      BY <3>2, FS_CardinalityType DEF Count
    <3>4. QED
      BY <1>0, <2>1, <3>3, MatchingGrows, MatchingFinite
  <2>3. ListTypes' /\ BoxOrApplied'
    BY <2>1 DEF ListTypes, ListsTypeOK, BoxOrApplied, InputAgrees
  <2>4. AnswersMatch'
    <3> SUFFICES ASSUME NEW j \in DOMAIN answers
                 PROVE  /\ answers[j].rows \subseteq Matching(j.type, j.text)'
                        /\ answers[j].total \in Nat /\ answers[j].total <= Count(j.type, j.text)'
                        /\ Cardinality(answers[j].rows) <= answers[j].total
      BY DEF AnswersMatch, Count, Matching
    <3>1. Count(j.type, j.text) <= Count(j.type, j.text)' /\ Count(j.type, j.text) \in Nat /\ Count(j.type, j.text)' \in Nat
      BY <2>2
    <3>2. Matching(j.type, j.text) \subseteq Matching(j.type, j.text)'
      BY <2>2
    <3>3. QED
      BY <3>1, <3>2 DEF AnswersMatch
  <2>5. PageExists'
    <3> DEFINE type == IF IsSearchMode(query) THEN None ELSE query.type
               text == Params(query).text
    <3>1. query.page \in Nat /\ query.size \in Nat
      BY ListsAssumption DEF ListTypes, ListsTypeOK
    <3>2. Count(type, text) <= Count(type, text)' /\ Count(type, text) \in Nat /\ Count(type, text)' \in Nat
      BY <2>2
    <3>3. query.page > 1 => (query.page - 1) * query.size < Count(type, text)
      BY DEF PageExists, Count
    <3>4. query.page > 1 => (query.page - 1) * query.size < Count(type, text)'
      BY <3>1, <3>2, <3>3
    <3>5. QED
      BY <3>4 DEF PageExists, Count, Matching, IsSearchMode, Params
  <2>6. ExportReads' /\ ExportIsComplete'
    <3> DEFINE count == Count(export.type, export.text)
    <3>1. count <= count' /\ count \in Nat /\ count' \in Nat
      BY <2>2
    <3>2. count' = Cardinality({i \in DOMAIN log' : (export.type # None => log'[i].type = export.type)
                                                    /\ (export.text # <<>> => log'[i].word /\ export.text = <<"a", "b">>)})
      BY DEF Count, Matching
    <3>3. ExportReads'
      <4> SUFFICES ASSUME export.pc = "page"
                   PROVE  /\ export.before <= count'
                          /\ export.page = 1 => export.pages = 1
                          /\ export.page > 1 =>
                               /\ export.pages <= count'
                               /\ \A i \in 1..export.before : i > export.pages - export.page + 1 => i \in export.rows
        BY DEF ExportReads
      <4>1. export.before \in Nat /\ export.pages \in Nat
        BY DEF ListTypes, Idle
      <4> HIDE DEF count
      <4>2. /\ export.before <= count
            /\ export.page = 1 => export.pages = 1
            /\ export.page > 1 =>
                 /\ export.pages <= count
                 /\ \A i \in 1..export.before : i > export.pages - export.page + 1 => i \in export.rows
        BY DEF ExportReads, count
      <4>3. QED
        BY <3>1, <4>1, <4>2
    <3>4. QED
      BY <3>3 DEF ExportIsComplete
  <2>7. QED
    BY <2>3, <2>4, <2>5, <2>6, ConfirmKept
<1>3. QED
  BY <1>1, <1>2

LEMMA ExportStep == ASSUME ListsInv, BeginExport \/ ExportPage \/ ExportEnds PROVE ListsInv'
<1> USE DEF ListsInv, dlqVars
<1>0. log \in Seq(Row) /\ query \in Query
  BY DEF ListTypes, ListsTypeOK
<1>1. ASSUME UNCHANGED <<log, query, searchBox, timer, answers, listEdits, dlqVars>>, exports' \in 0..MaxExports,
             export' \in {Idle} \cup [pc : {"page"}, type : RowType, text : Words, before : Nat, page : Nat \ {0}, pages : Nat,
                                      rows : SUBSET Nat],
             ExportReads', ExportIsComplete'
      PROVE  ListsInv'
  <2>1. ListTypes' /\ BoxOrApplied'
    BY <1>1 DEF ListTypes, ListsTypeOK, BoxOrApplied, InputAgrees
  <2>2. QED
    BY <1>1, <2>1, AnswersKept, PageKept, ConfirmKept
<1>2. CASE BeginExport
  <2> DEFINE text == IF IsSearchMode(query) THEN query.text ELSE <<>>
  <2>1. text \in Words /\ query.type \in RowType
    BY <1>0 DEF Query, Words
  <2>2. Count(query.type, text) \in Nat
    BY <1>0, MatchingFinite
  <2>3. export' = [pc |-> "page", type |-> query.type, text |-> text, before |-> Count(query.type, text),
                   page |-> 1, pages |-> 1, rows |-> {}]
    BY <1>2 DEF BeginExport, Count
  <2> HIDE DEF text
  <2>4. export' \in [pc : {"page"}, type : RowType, text : Words, before : Nat, page : Nat \ {0}, pages : Nat, rows : SUBSET Nat]
    BY <2>1, <2>2, <2>3
  <2>5. Count(query.type, text) = Cardinality(Matching(query.type, text)) /\ log' = log
    BY <1>2 DEF BeginExport, Count
  <2>6. ExportReads'
    BY <2>2, <2>3, <2>5 DEF ExportReads, Count, Matching
  <2>7. exports' \in 0..MaxExports /\ ExportIsComplete'
    BY <1>2, ListsAssumption DEF BeginExport, ListTypes, ListsTypeOK, ExportIsComplete
  <2>8. QED
    BY <1>1, <1>2, <2>4, <2>6, <2>7 DEF BeginExport
<1>3. CASE ExportPage
  <2> DEFINE all == Count(export.type, export.text)
             got == IF export.page <= all THEN {all - export.page + 1} ELSE {}
  <2>1. export \in [pc : {"page"}, type : RowType, text : Words, before : Nat, page : Nat \ {0}, pages : Nat, rows : SUBSET Nat]
    BY <1>3 DEF ExportPage, ListTypes, Idle
  <2>2. all \in Nat
    BY <1>0, MatchingFinite
  <2>3. export' = [export EXCEPT !.rows = @ \cup got, !.pages = all, !.page = @ + 1]
    BY <1>3 DEF ExportPage, Pages, Count
  <2>4. log' = log /\ all = Cardinality(Matching(export.type, export.text)) /\ export.page <= export.pages
    BY <1>3 DEF ExportPage, Count
  <2>5. Cardinality(Matching(export.type, export.text))' = Cardinality(Matching(export'.type, export'.text))
    BY <2>4 DEF Matching
  <2> HIDE DEF all
  <2>6. /\ export'.rows = export.rows \cup got /\ export'.pages = all /\ export'.page = export.page + 1
        /\ export'.type = export.type /\ export'.text = export.text /\ export'.before = export.before /\ export'.pc = "page"
    BY <2>1, <2>3
  <2>7. got \subseteq Nat
    BY <2>1, <2>2
  <2>8. export' \in [pc : {"page"}, type : RowType, text : Words, before : Nat, page : Nat \ {0}, pages : Nat, rows : SUBSET Nat]
    <3>1. export.page + 1 \in Nat \ {0} /\ export.rows \cup got \in SUBSET Nat
      BY <2>1, <2>7
    <3>2. export' = [pc |-> "page", type |-> export.type, text |-> export.text, before |-> export.before, page |-> export.page + 1,
                     pages |-> all, rows |-> export.rows \cup got]
      BY <2>1, <2>3
    <3>3. QED
      BY <2>1, <2>2, <3>1, <3>2
  <2>9. /\ export.before <= all
        /\ export.page = 1 => export.pages = 1
        /\ export.page > 1 => /\ export.pages <= all
                              /\ \A i \in 1..export.before : i > export.pages - export.page + 1 => i \in export.rows
    BY <2>1 DEF ExportReads, all
  <2>10. \A i \in 1..export.before : i > all - (export.page + 1) + 1 => i \in export.rows \cup got
    <3> SUFFICES ASSUME NEW i \in 1..export.before, i > all - export.page PROVE i \in export.rows \cup got
      BY <2>1, <2>2
    <3>1. CASE export.page = 1
      BY <2>1, <2>2, <2>9, <3>1
    <3>2. CASE export.page > 1 /\ i = all - export.page + 1
      BY <2>1, <2>2, <2>9, <3>2
    <3>3. CASE export.page > 1 /\ i > all - export.page + 1
      BY <2>1, <2>2, <2>9, <3>3
    <3>4. QED
      BY <2>1, <2>2, <3>1, <3>2, <3>3
  <2>11. ExportReads'
    <3>1. Count(export.type, export.text)' = all
      BY <2>4, <2>5, <2>6 DEF Count
    <3>2. QED
      BY <2>1, <2>2, <2>6, <2>9, <2>10, <3>1 DEF ExportReads
  <2>12. QED
    BY <1>1, <1>3, <2>8, <2>11 DEF ExportPage, ExportIsComplete, ListTypes, ListsTypeOK
<1>4. CASE ExportEnds
  <2>1. export \in [pc : {"page"}, type : RowType, text : Words, before : Nat, page : Nat \ {0}, pages : Nat, rows : SUBSET Nat]
    BY <1>4 DEF ExportEnds, ListTypes, Idle
  <2>2. 1..export.before \subseteq export.rows
    BY <1>4, <2>1 DEF ExportEnds, ExportReads
  <2>3. ExportIsComplete'
    BY <1>4, <2>2 DEF ExportEnds, ExportIsComplete
  <2>4. ExportReads'
    BY <1>4 DEF ExportEnds, ExportReads, Idle
  <2>5. QED
    BY <1>1, <1>4, <2>3, <2>4 DEF ExportEnds, ListTypes, ListsTypeOK
<1>5. QED
  BY <1>2, <1>3, <1>4

LEMMA DlqStep == ASSUME ListsInv, DlqNext PROVE ListsInv'
<1> USE ListsAssumption DEF ListsInv, logVars, exportVars, DlqStatus, Target
<1>1. ASSUME UNCHANGED <<listEdits, logVars>>, entry' \in DlqStatus, table' \in DlqStatus \cup {None}, dlqOthers' \in 0..MaxOthers,
             ConfirmAllowed'
      PROVE  ListsInv'
  <2>1. ListTypes' /\ BoxOrApplied'
    BY <1>1 DEF ListTypes, ListsTypeOK, BoxOrApplied, InputAgrees
  <2>2. QED
    BY <1>1, <2>1, AnswersKept, ExportKept, PageKept
<1>2. entry \in DlqStatus /\ table \in DlqStatus \cup {None} /\ dlqOthers \in 0..MaxOthers /\ ConfirmAllowed
  BY DEF ListTypes, ListsTypeOK
<1>3. CASE DlqReceived \/ Dismiss
  BY <1>1, <1>2, <1>3 DEF DlqReceived, Dismiss, ConfirmAllowed, RefusedWhenStale
<1>4. ASSUME NEW t \in Target, ChooseAction(t) PROVE ListsInv'
  BY <1>1, <1>2, <1>4 DEF ChooseAction, ConfirmAllowed, RefusedWhenStale
<1>5. CASE HandleAction
  <2>1. confirm.seen \in DlqStatus /\ confirm.target \in DLQ_TRANSITIONS[confirm.seen]
    BY <1>2, <1>5 DEF HandleAction, ConfirmAllowed
  <2>2. confirm.target \in Target /\ (confirm.seen = entry => Allows(entry, confirm.target))
    <3>1. \A status \in DlqStatus : \A target \in DLQ_TRANSITIONS[status] : target \in Target
      BY DEF DLQ_TRANSITIONS
    <3>2. DLQ_TRANSITIONS["pending"] = {"investigated", "discarded"} /\ DLQ_TRANSITIONS["investigated"] = {"reprocessed", "discarded"}
            /\ DLQ_TRANSITIONS["reprocessed"] = {} /\ DLQ_TRANSITIONS["discarded"] = {}
      BY DEF DLQ_TRANSITIONS
    <3>3. \A status \in DlqStatus : \A target \in DLQ_TRANSITIONS[status] : Allows(status, target)
      BY <3>2 DEF Allows
    <3>4. QED
      BY <2>1, <3>1, <3>3
  <2>3. CASE Allows(entry, confirm.target)
    BY <1>1, <1>2, <1>5, <2>2, <2>3 DEF HandleAction, ConfirmAllowed, RefusedWhenStale
  <2>4. CASE ~Allows(entry, confirm.target)
    BY <1>1, <1>2, <1>5, <2>2, <2>4 DEF HandleAction, ConfirmAllowed, RefusedWhenStale
  <2>5. QED
    BY <2>3, <2>4
<1>6. ASSUME NEW t \in Target, OtherChanges(t) PROVE ListsInv'
  BY <1>1, <1>2, <1>6 DEF OtherChanges, ConfirmAllowed, RefusedWhenStale
<1>7. QED
  BY <1>3, <1>4, <1>5, <1>6 DEF DlqNext

\* The rows shown are those of the query shown, once the answers match their keys.
LEMMA RowsShown == ASSUME ListsInv PROVE ShownMatchesQuery
<1> SUFFICES ASSUME Ready, NEW i \in Filtered
             PROVE  /\ IsSearchMode(query) => log[i].word
                    /\ ~IsSearchMode(query) /\ query.type # None => log[i].type = query.type
  BY DEF ShownMatchesQuery
<1> DEFINE k == Params(query)
<1>1. i \in Matching(k.type, k.text)
  BY DEF ListsInv, AnswersMatch, Filtered, Ready
<1>2. IsSearchMode(query) => k.text = query.text /\ query.text # <<>>
  BY DEF Params, IsSearchMode
<1>3. ~IsSearchMode(query) => k.type = query.type
  BY DEF Params
<1>4. QED
  BY <1>1, <1>2, <1>3 DEF Matching

\* The lists show the rows of the query they show, the search box and the applied search agree, the page that
\* is asked for exists, an export is complete, and the service refuses an action of the list of dead letters
\* only on one that changed (log-list.tsx, search-input.tsx, use-audit.ts, dlq-viewer.tsx), for any texts,
\* page sizes and numbers of rows.
THEOREM ListsHold == ListsSpec => []ListsAgree
<1>1. ASSUME ListsInv, [LogNext \/ ExportNext \/ DlqNext]_listVars PROVE ListsInv'
  <2>1. CASE UNCHANGED listVars
    <3>1. UNCHANGED <<log, query, answers, export, done, confirm, dlqRefused>>
      BY <2>1 DEF listVars
    <3>2. ListTypes' /\ BoxOrApplied'
      BY <1>1, <2>1 DEF listVars, ListsInv, ListTypes, ListsTypeOK, BoxOrApplied, InputAgrees
    <3>3. QED
      BY <1>1, <3>1, <3>2, AnswersKept, ExportKept, PageKept, ConfirmKept DEF ListsInv
  <2>2. CASE LogNext
    BY <1>1, <2>2, TextStep, FilterStep, AnswerStep DEF LogNext, RowType
  <2>3. CASE ExportNext
    BY <1>1, <2>3, TextStep, FilterStep, AnswerStep, ExportStep DEF ExportNext, RowType
  <2>4. QED
    BY <1>1, <2>1, <2>2, <2>3, DlqStep
<1>2. ListsInv => ListsAgree
  BY RowsShown DEF ListsInv, ListTypes, BoxOrApplied, ConfirmAllowed, ListsAgree
<1>3. QED
  BY <1>1, <1>2, ListsStart, PTL DEF ListsSpec

-----------------------------------------------------------------------------
(***************************************************************************)
(* The template store.  Its cache is written key by key, by functions that *)
(* recur over a sequence; what every step of such a function keeps, its    *)
(* end has.                                                                *)
(***************************************************************************)
\* The library orders finite sets by inclusion; a number stands for the numbers up to it.
LEMMA Smallest ==
  ASSUME NEW T, T \subseteq Nat, T # {}
  PROVE  \E i \in T : \A j \in T : i <= j
<1> DEFINE Upto == {1 .. i : i \in T}
           R == StrictSubsetOrdering(Nat)
<1>1. IsWellFoundedOn(R, FiniteSubsetsOf(Nat))
  BY FS_StrictSubsetOrderingWellFounded
<1>2. Upto \subseteq FiniteSubsetsOf(Nat) /\ Upto # {}
  <2>1. ASSUME NEW i \in T PROVE 1 .. i \in FiniteSubsetsOf(Nat)
    <3>1. 1 \in Int /\ i \in Int /\ 1 .. i \in SUBSET Nat
      OBVIOUS
    <3>2. IsFiniteSet(1 .. i)
      BY <3>1, FS_Interval
    <3>3. QED
      BY <3>1, <3>2 DEF FiniteSubsetsOf
  <2>2. QED
    BY <2>1
<1>3. \E x \in Upto : \A y \in Upto : ~ (<<y, x>> \in R)
  <2> HIDE DEF Upto, R
  <2>1. QED
    BY <1>1, <1>2, WFMin
<1>4. PICK i \in T : \A y \in Upto : ~ (<<y, 1 .. i>> \in R)
  BY <1>3
<1>5. ASSUME NEW j \in T, j < i PROVE FALSE
  <2>1. 1 .. j \in SUBSET Nat /\ 1 .. i \in SUBSET Nat /\ 1 .. j \subseteq 1 .. i /\ i \in Nat
    BY <1>5
  <2>2. i \in 1 .. i /\ i \notin 1 .. j
    BY <1>5
  <2>3. <<1 .. j, 1 .. i>> \in R
    BY <2>1, <2>2 DEF StrictSubsetOrdering
  <2>4. QED
    BY <1>4, <2>3
<1>6. QED
  BY <1>5

Closed(X, N, G) == \A n \in 1..N, x \in X : G[<<n, x>>] \in X
Reached(X, N, G, x0) == \E f \in [0..N -> X] : f[0] = x0 /\ \A n \in 1..N : f[n] = G[<<n, f[n - 1]>>]

LEMMA StepsExist ==
  ASSUME NEW X, NEW N \in Nat, NEW G, NEW x0 \in X, Closed(X, N, G)
  PROVE  Reached(X, N, G, x0)
<1> USE DEF Closed, Reached
<1> DEFINE Upto(m, f) == f \in [0..m -> X] /\ f[0] = x0 /\ \A n \in 1..m : f[n] = G[<<n, f[n - 1]>>]
           T == {m \in 0..N : ~ \E f : Upto(m, f)}
<1>1. SUFFICES ASSUME T # {} PROVE FALSE
  <2>1. T = {} => \E f : Upto(N, f)
    OBVIOUS
  <2>2. QED
    BY <2>1
<1>2. PICK m \in T : \A j \in T : m <= j
  <2>1. T \subseteq Nat
    OBVIOUS
  <2> HIDE DEF T
  <2>2. QED
    BY <1>1, <2>1, Smallest
<1>3. m # 0
  <2>1. Upto(0, [n \in 0..0 |-> x0])
    OBVIOUS
  <2>2. QED
    BY <2>1
<1>4. m \in 1..N /\ m - 1 \in 0..N /\ m - 1 \notin T
  BY <1>2, <1>3
<1>5. PICK f : Upto(m - 1, f)
  BY <1>4
<1> DEFINE g == [n \in 0..m |-> IF n = m THEN G[<<m, f[m - 1]>>] ELSE f[n]]
<1>6. f[m - 1] \in X /\ G[<<m, f[m - 1]>>] \in X
  BY <1>4, <1>5
<1>7. g \in [0..m -> X]
  BY <1>4, <1>5, <1>6
<1>8. g[0] = x0
  BY <1>3, <1>4, <1>5
<1>9. ASSUME NEW n \in 1..m PROVE g[n] = G[<<n, g[n - 1]>>]
  <2>1. n - 1 \in 0..m /\ n - 1 # m /\ g[n - 1] = f[n - 1]
    BY <1>4
  <2>2. CASE n = m
    BY <2>1, <2>2
  <2>3. CASE n # m
    <3>1. n \in 1..(m - 1) /\ f[n] = G[<<n, f[n - 1]>>]
      BY <1>4, <1>5, <2>3
    <3>2. QED
      BY <2>1, <2>3, <3>1
  <2>4. QED
    BY <2>2, <2>3
<1>10. Upto(m, g)
  BY <1>7, <1>8, <1>9
<1>11. QED
  BY <1>2, <1>10

LEMMA StepsKeep ==
  ASSUME NEW X, NEW N \in Nat, NEW f, f[0] \in X, \A n \in 1..N : f[n - 1] \in X => f[n] \in X
  PROVE  \A n \in 0..N : f[n] \in X
<1> DEFINE T == {n \in 0..N : f[n] \notin X}
<1>1. SUFFICES ASSUME T # {} PROVE FALSE
  OBVIOUS
<1>2. PICK m \in T : \A j \in T : m <= j
  <2>1. T \subseteq Nat
    OBVIOUS
  <2> HIDE DEF T
  <2>2. QED
    BY <1>1, <2>1, Smallest
<1>3. m \in 1..N /\ m - 1 \in 0..N /\ m - 1 \notin T
  BY <1>2
<1>4. QED
  BY <1>2, <1>3

\* A sequence made of a finite set holds its members.
LEMMA SequenceOf ==
  ASSUME NEW S, IsFiniteSet(S)
  PROVE  SetToSeq(S) \in Seq(S)
<1>1. PICK n \in Nat : n = Cardinality(S) /\ ExistsBijection(1..n, S)
  BY FS_CardinalityType
<1>2. PICK f : f \in Bijection(1..n, S)
  BY <1>1 DEF ExistsBijection
<1>3. f \in [1..n -> S] /\ IsInjective(f)
  BY <1>2 DEF Bijection, Injection, IsInjective
<1>4. SetToSeq(S) \in [1..n -> S]
  BY <1>1, <1>3 DEF SetToSeq
<1>5. QED
  BY <1>1, <1>4

-----------------------------------------------------------------------------
(***************************************************************************)
(* The cache against a table of versions: the order names every key once,  *)
(* and every text is the one of its key.                                   *)
(***************************************************************************)
Place == Template \X Nat \X Channel
Exists(k, vs) == k[2] \in 1..Len(vs[k[1]]) /\ k[3] \in DOMAIN vs[k[1]][k[2]]
Held(c, order, vs) ==
  /\ Len(order) <= maxSize /\ \A i, j \in DOMAIN order : order[i] = order[j] => i = j
  /\ \A k \in Place : k \in DOMAIN c <=> \E i \in DOMAIN order : order[i] = k
  /\ \A k \in DOMAIN c : Exists(k, vs) /\ c[k] = vs[k[1]][k[2]][k[3]]
Texts == UNION {[D -> SUBSET Variable] : D \in SUBSET Place}
HeldStates(vs) == {s \in [c : Texts, order : Seq(Place)] : Held(s.c, s.order, vs)}

LEMMA PutKeeps ==
  ASSUME NEW vs, NEW s \in HeldStates(vs), NEW k \in Place, NEW text \in SUBSET Variable,
         Exists(k, vs), text = vs[k[1]][k[2]][k[3]]
  PROVE  Put(s, k, text) \in HeldStates(vs)
<1> USE StoreAssumption
<1>1. PICK c, order : s = [c |-> c, order |-> order] /\ c \in Texts /\ order \in Seq(Place) /\ Held(c, order, vs) /\ c = s.c /\ order = s.order
  BY DEF HeldStates
<1>2. PICK D \in SUBSET Place : c \in [D -> SUBSET Variable]
  BY <1>1 DEF Texts
<1> DEFINE full == k \notin DOMAIN c /\ Len(order) >= maxSize
           c1 == IF full THEN Without(c, {Head(order)}) ELSE c
           order1 == IF full THEN Tail(order) ELSE order
           c2 == [x \in DOMAIN c1 \cup {k} |-> IF x = k THEN text ELSE c1[x]]
           order2 == IF k \in DOMAIN c THEN order1 ELSE Append(order1, k)
<1>3. Put(s, k, text) = [c |-> c2, order |-> order2]
  BY <1>1 DEF Put
<1>4. PICK E \in SUBSET D : c1 \in [E -> SUBSET Variable] /\ \A x \in E : c1[x] = c[x]
  BY <1>2 DEF Without
<1>5. order1 \in Seq(Place) /\ Len(order1) \in Nat
  BY <1>1
<1>6. /\ \A i, j \in DOMAIN order1 : order1[i] = order1[j] => i = j
      /\ \A x \in Place : x \in DOMAIN c1 <=> \E i \in DOMAIN order1 : order1[i] = x
      /\ k \notin DOMAIN c => Len(order1) < maxSize
      /\ Len(order1) <= maxSize
      /\ k \in DOMAIN c <=> k \in DOMAIN c1
  <2>1. CASE ~full
    BY <1>1, <1>2, <2>1 DEF Held
  <2>2. CASE full
    <3>1. Len(order) \in Nat /\ Len(order) >= 1 /\ Len(order) = maxSize /\ DOMAIN order = 1..Len(order)
      BY <1>1, <2>2 DEF Held
    <3>2. Len(Tail(order)) = Len(order) - 1 /\ DOMAIN Tail(order) = 1..(Len(order) - 1)
          /\ \A i \in 1..(Len(order) - 1) : Tail(order)[i] = order[i + 1]
      BY <1>1, <3>1
    <3>3. Head(order) = order[1]
      BY <1>1, <3>1
    <3>4. \A x : x \in DOMAIN c1 <=> x \in DOMAIN c /\ x # order[1]
      BY <2>2, <3>3 DEF Without
    <3>5. \A i, j \in DOMAIN order1 : order1[i] = order1[j] => i = j
      BY <1>1, <2>2, <3>1, <3>2 DEF Held
    <3>6. ASSUME NEW x \in Place PROVE x \in DOMAIN c1 <=> \E i \in DOMAIN order1 : order1[i] = x
      <4>1. ASSUME x \in DOMAIN c1 PROVE \E i \in DOMAIN order1 : order1[i] = x
        <5>1. PICK i \in 1..Len(order) : order[i] = x /\ i # 1
          BY <1>1, <3>1, <3>4, <4>1 DEF Held
        <5>2. i - 1 \in 1..(Len(order) - 1) /\ Tail(order)[i - 1] = order[i]
          BY <3>1, <3>2, <5>1
        <5>3. QED
          BY <2>2, <3>2, <5>1, <5>2
      <4>2. ASSUME NEW i \in DOMAIN order1, order1[i] = x PROVE x \in DOMAIN c1
        <5>1. i \in 1..(Len(order) - 1) /\ i + 1 \in 1..Len(order) /\ i + 1 # 1 /\ order[i + 1] = x
          BY <2>2, <3>1, <3>2, <4>2
        <5>2. x \in DOMAIN c /\ x # order[1]
          BY <1>1, <3>1, <5>1 DEF Held
        <5>3. QED
          BY <3>4, <5>2
      <4>3. QED
        BY <4>1, <4>2
    <3>7. k \notin DOMAIN c /\ k \notin DOMAIN c1
      BY <2>2, <3>4
    <3>8. Len(order1) < maxSize /\ Len(order1) <= maxSize
      BY <2>2, <3>1, <3>2
    <3>9. QED
      BY <3>5, <3>6, <3>7, <3>8
  <2>3. QED
    BY <2>1, <2>2
<1>7. c2 \in Texts
  <2>1. E \cup {k} \in SUBSET Place /\ c2 \in [E \cup {k} -> SUBSET Variable]
    BY <1>2, <1>4
  <2>2. QED
    BY <2>1 DEF Texts
<1>8. order2 \in Seq(Place)
  BY <1>5
<1>9. Held(c2, order2, vs)
  <2> HIDE DEF c1, order1, full
  <2>1. \A x \in DOMAIN c2 : Exists(x, vs) /\ c2[x] = vs[x[1]][x[2]][x[3]]
    BY <1>1, <1>2, <1>4 DEF Held
  <2>2. CASE k \in DOMAIN c
    <3>1. k \in DOMAIN c1
      BY <1>6, <2>2
    <3>2. DOMAIN c1 \cup {k} = DOMAIN c1
      BY <3>1
    <3>3. DOMAIN c2 = DOMAIN c1 /\ order2 = order1
      BY <2>2, <3>2
    <3>4. QED
      BY <1>6, <2>1, <3>3 DEF Held
  <2>3. CASE k \notin DOMAIN c
    <3>1. PICK N \in Nat : N = Len(order1) /\ DOMAIN order1 = 1..N /\ N + 1 <= maxSize
      BY <1>5, <1>6, <2>3
    <3>2. Len(order2) = N + 1 /\ DOMAIN order2 = 1..(N + 1) /\ order2[N + 1] = k
          /\ \A i \in 1..N : order2[i] = order1[i]
      BY <1>5, <2>3, <3>1
    <3>3. \A i \in 1..N : order1[i] # k
      BY <1>6, <2>3, <3>1
    <3>4. \A i, j \in DOMAIN order2 : order2[i] = order2[j] => i = j
      BY <1>6, <3>1, <3>2, <3>3
    <3>5. ASSUME NEW x \in Place PROVE x \in DOMAIN c2 <=> \E i \in DOMAIN order2 : order2[i] = x
      <4>1. x \in DOMAIN c2 <=> x = k \/ \E i \in 1..N : order1[i] = x
        BY <1>6, <3>1
      <4>2. (\E i \in 1..(N + 1) : order2[i] = x) <=> (order2[N + 1] = x \/ \E i \in 1..N : order2[i] = x)
        BY <3>1
      <4>3. QED
        BY <3>2, <4>1, <4>2
    <3>6. QED
      BY <2>1, <3>1, <3>2, <3>4, <3>5 DEF Held
  <2>4. QED
    BY <2>2, <2>3
<1>10. QED
  <2> HIDE DEF c2, order2
  <2>1. PICK r \in [c : Texts, order : Seq(Place)] : r = [c |-> c2, order |-> order2]
    BY <1>7, <1>8
  <2>2. r.c = c2 /\ r.order = order2
    BY <2>1
  <2>3. QED
    BY <1>3, <1>9, <2>1, <2>2 DEF HeldStates

LEMMA CompiledKeeps ==
  ASSUME NEW vs, NEW s \in HeldStates(vs), NEW k \in Place, NEW text \in SUBSET Variable,
         Exists(k, vs), text = vs[k[1]][k[2]][k[3]]
  PROVE  Compiled(s, k, text) \in HeldStates(vs)
BY PutKeeps DEF Compiled

LEMMA ContentOf ==
  ASSUME versions \in [Template -> Seq(Content)], NEW t \in Template, NEW v \in 1..Len(versions[t])
  PROVE  /\ versions[t][v] \in [DOMAIN versions[t][v] -> SUBSET Variable] /\ DOMAIN versions[t][v] \subseteq Channel
         /\ IsFiniteSet(DOMAIN versions[t][v]) /\ versions[t][v] \in Content
<1>1. versions[t] \in Seq(Content)
  OBVIOUS
<1>2. versions[t][v] \in Content
  BY <1>1
<1>3. PICK C : C \in SUBSET Channel \ {{}} /\ versions[t][v] \in [C -> SUBSET Variable]
  BY <1>2 DEF Content
<1>4. IsFiniteSet(C)
  BY <1>3, StoreAssumption, FS_Subset
<1>5. QED
  BY <1>2, <1>3, <1>4

LEMMA FillKeeps ==
  ASSUME versions \in [Template -> Seq(Content)], NEW t \in Template, NEW v \in 1..Len(versions[t]),
         NEW s \in HeldStates(versions)
  PROVE  Fill(s, t, v) \in HeldStates(versions)
<1>1. PICK X : X = HeldStates(versions)
  OBVIOUS
<1>2. PICK content : /\ content = versions[t][v] /\ DOMAIN content \subseteq Channel /\ IsFiniteSet(DOMAIN content)
                     /\ content \in [DOMAIN content -> SUBSET Variable]
  BY ContentOf
<1>3. PICK channels : channels = SetToSeq(DOMAIN content)
  OBVIOUS
<1>4. PICK N \in Nat : N = Len(channels) /\ \A n \in 1..N : channels[n] \in DOMAIN content
  <2>1. channels \in Seq(DOMAIN content)
    BY <1>2, <1>3, SequenceOf
  <2>2. QED
    BY <2>1
<1>5. ASSUME NEW n \in 1..N, NEW x \in X
      PROVE  Compiled(x, CompiledKey(t, v, channels[n]), content[channels[n]]) \in X
  <2>1. PICK k \in Place : k = CompiledKey(t, v, channels[n]) /\ k[1] = t /\ k[2] = v /\ k[3] = channels[n]
    <3>1. v \in Nat /\ channels[n] \in Channel
      BY <1>2, <1>4
    <3>2. <<t, v, channels[n]>> \in Place
      BY <3>1 DEF Place
    <3>3. QED
      BY <3>2 DEF CompiledKey
  <2>2. Exists(k, versions) /\ content[channels[n]] = versions[k[1]][k[2]][k[3]]
    BY <1>2, <1>4, <2>1 DEF Exists
  <2>3. content[channels[n]] \in SUBSET Variable
    BY <1>2, <1>4
  <2>4. QED
    BY <1>1, <2>1, <2>2, <2>3, CompiledKeeps
<1> DEFINE One(n, x) == Compiled(x, CompiledKey(t, v, channels[n]), content[channels[n]])
           Filled(f) == f = [n \in 0..N |-> IF n = 0 THEN s ELSE One(n, f[n - 1])]
           end == CHOOSE f : Filled(f)
<1>6. Fill(s, t, v) = end[N]
  BY <1>2, <1>3, <1>4 DEF Fill
<1> HIDE DEF One
<1>7. \E f : Filled(f)
  <2> DEFINE G == [p \in (1..N) \X X |-> One(p[1], p[2])]
  <2>1. ASSUME NEW n \in 1..N, NEW x \in X PROVE G[<<n, x>>] = One(n, x) /\ G[<<n, x>>] \in X
    <3>1. G[<<n, x>>] = One(n, x)
      OBVIOUS
    <3>2. QED
      BY <1>5, <3>1 DEF One
  <2> HIDE DEF G
  <2>2. PICK f \in [0..N -> X] : f[0] = s /\ \A n \in 1..N : f[n] = G[<<n, f[n - 1]>>]
    <3>1. s \in X /\ Closed(X, N, G)
      BY <1>1, <2>1 DEF Closed
    <3>2. Reached(X, N, G, s)
      BY <3>1, StepsExist
    <3>3. QED
      BY <3>2 DEF Reached
  <2>3. \A n \in 0..N : f[n] = IF n = 0 THEN s ELSE One(n, f[n - 1])
    <3>1. ASSUME NEW n \in 1..N PROVE f[n] = One(n, f[n - 1])
      <4>1. f[n - 1] \in X /\ f[n] = G[<<n, f[n - 1]>>]
        BY <2>2
      <4>2. QED
        BY <2>1, <4>1
    <3>2. QED
      BY <2>2, <3>1
  <2>4. QED
    BY <2>2, <2>3
<1>8. Filled(end)
  BY <1>7
<1>9. PICK f : f = end
  OBVIOUS
<1>10. f[0] \in X /\ \A n \in 1..N : f[n - 1] \in X => f[n] \in X
  <2>1. \A n \in 0..N : f[n] = IF n = 0 THEN s ELSE One(n, f[n - 1])
    BY <1>8, <1>9
  <2>2. \A n \in 1..N : f[n] = One(n, f[n - 1])
    BY <2>1
  <2>3. QED
    BY <1>1, <1>5, <2>1, <2>2 DEF One
<1>11. f[N] \in X
  <2>1. \A n \in 0..N : f[n] \in X
    BY <1>10, StepsKeep
  <2>2. QED
    BY <2>1
<1>12. QED
  BY <1>1, <1>6, <1>9, <1>11

LEMMA WarmUpKeeps ==
  ASSUME versions \in [Template -> Seq(Content)], \A t \in Template : rows[t].active => rows[t].current \in 1..Len(versions[t])
  PROVE  WarmUp \in HeldStates(versions)
<1>1. PICK X : X = HeldStates(versions)
  OBVIOUS
<1> DEFINE S == {t \in Template : rows[t].active}
<1>2. PICK active : active = SetToSeq(S)
  OBVIOUS
<1>3. PICK N \in Nat : N = Len(active) /\ \A n \in 1..N : active[n] \in S
  <2>1. IsFiniteSet(S)
    BY StoreAssumption, FS_Subset
  <2> HIDE DEF S
  <2>2. active \in Seq(S)
    BY <1>2, <2>1, SequenceOf
  <2>3. QED
    BY <2>2
<1>4. PICK s : s = [c |-> Empty, order |-> <<>>] /\ s \in X
  <2>1. Empty \in Texts /\ <<>> \in Seq(Place) /\ DOMAIN Empty = {}
    <3>1. Empty \in [{} -> SUBSET Variable] /\ {} \in SUBSET Place
      BY DEF Empty
    <3>2. Empty \in Texts
      BY <3>1 DEF Texts
    <3>3. QED
      BY <3>1, <3>2
  <2>2. Held(Empty, <<>>, versions)
    BY <2>1, StoreAssumption DEF Held
  <2>3. PICK r \in [c : Texts, order : Seq(Place)] : r = [c |-> Empty, order |-> <<>>] /\ r.c = Empty /\ r.order = <<>>
    <3>1. PICK e \in Texts, o \in Seq(Place) : e = Empty /\ o = <<>>
      BY <2>1
    <3>2. [c |-> e, order |-> o] \in [c : Texts, order : Seq(Place)]
      OBVIOUS
    <3>3. QED
      BY <3>1, <3>2
  <2>4. QED
    BY <1>1, <2>2, <2>3 DEF HeldStates
<1> DEFINE One(n, x) == Fill(x, active[n], rows[active[n]].current)
           Warm(f) == f = [n \in 0..N |-> IF n = 0 THEN s ELSE One(n, f[n - 1])]
           end == CHOOSE f : Warm(f)
<1>5. ASSUME NEW n \in 1..N, NEW x \in X PROVE One(n, x) \in X
  <2>1. PICK t \in Template : t = active[n] /\ rows[t].active
    BY <1>3
  <2>2. PICK v \in 1..Len(versions[t]) : v = rows[t].current
    BY <2>1
  <2>3. QED
    BY <1>1, <2>1, <2>2, FillKeeps
<1>6. WarmUp = end[N]
  BY <1>2, <1>3, <1>4 DEF WarmUp
<1> HIDE DEF One, S
<1>7. \E f : Warm(f)
  <2> DEFINE G == [p \in (1..N) \X X |-> One(p[1], p[2])]
  <2>1. ASSUME NEW n \in 1..N, NEW x \in X PROVE G[<<n, x>>] = One(n, x) /\ G[<<n, x>>] \in X
    <3>1. G[<<n, x>>] = One(n, x)
      OBVIOUS
    <3>2. QED
      BY <1>5, <3>1
  <2> HIDE DEF G
  <2>2. PICK f \in [0..N -> X] : f[0] = s /\ \A n \in 1..N : f[n] = G[<<n, f[n - 1]>>]
    <3>1. s \in X /\ Closed(X, N, G)
      BY <1>4, <2>1 DEF Closed
    <3>2. Reached(X, N, G, s)
      BY <3>1, StepsExist
    <3>3. QED
      BY <3>2 DEF Reached
  <2>3. \A n \in 0..N : f[n] = IF n = 0 THEN s ELSE One(n, f[n - 1])
    <3>1. ASSUME NEW n \in 1..N PROVE f[n] = One(n, f[n - 1])
      <4>1. f[n - 1] \in X /\ f[n] = G[<<n, f[n - 1]>>]
        BY <2>2
      <4>2. QED
        BY <2>1, <4>1
    <3>2. QED
      BY <2>2, <3>1
  <2>4. QED
    BY <2>2, <2>3
<1>8. Warm(end)
  BY <1>7
<1>9. PICK f : f = end
  OBVIOUS
<1>10. f[0] \in X /\ \A n \in 1..N : f[n - 1] \in X => f[n] \in X
  <2>1. \A n \in 0..N : f[n] = IF n = 0 THEN s ELSE One(n, f[n - 1])
    BY <1>8, <1>9
  <2>2. \A n \in 1..N : f[n] = One(n, f[n - 1])
    BY <2>1
  <2>3. QED
    BY <1>4, <1>5, <2>1, <2>2
<1>11. f[N] \in X
  <2>1. \A n \in 0..N : f[n] \in X
    BY <1>10, StepsKeep
  <2>2. QED
    BY <2>1
<1>12. QED
  BY <1>1, <1>6, <1>9, <1>11

\* What is left of an order without a template's keys.
Distinct(order) == \A i, j \in DOMAIN order : order[i] = order[j] => i = j
LeftOf(order, left, t) ==
  /\ left \in Seq(Place) /\ Len(left) <= Len(order) /\ \A i, j \in DOMAIN left : left[i] = left[j] => i = j
  /\ \A x \in Place : (\E i \in DOMAIN left : left[i] = x) <=> x[1] # t /\ \E i \in DOMAIN order : order[i] = x

LEMMA OthersLeft ==
  ASSUME NEW order \in Seq(Place), NEW t, Distinct(order)
  PROVE  LeftOf(order, Others(order, t), t)
<1>1. PICK N \in Nat : N = Len(order) /\ DOMAIN order = 1..N /\ \A n \in 1..N : order[n] \in Place
  OBVIOUS
<1> USE DEF Distinct
<1> DEFINE One(n, x) == IF order[n][1] = t THEN x ELSE Append(x, order[n])
           Left(f) == f = [n \in 0..N |-> IF n = 0 THEN <<>> ELSE One(n, f[n - 1])]
           end == CHOOSE f : Left(f)
<1>2. Others(order, t) = end[N]
  BY <1>1 DEF Others
<1>3. PICK X : X = Seq(Place)
  OBVIOUS
<1>4. ASSUME NEW n \in 1..N, NEW x \in X PROVE One(n, x) \in X
  BY <1>1, <1>3
<1> HIDE DEF One
<1>5. \E f : Left(f)
  <2> DEFINE G == [p \in (1..N) \X X |-> One(p[1], p[2])]
  <2>1. ASSUME NEW n \in 1..N, NEW x \in X PROVE G[<<n, x>>] = One(n, x) /\ G[<<n, x>>] \in X
    <3>1. G[<<n, x>>] = One(n, x)
      OBVIOUS
    <3>2. QED
      BY <1>4, <3>1
  <2> HIDE DEF G
  <2>2. PICK f \in [0..N -> X] : f[0] = <<>> /\ \A n \in 1..N : f[n] = G[<<n, f[n - 1]>>]
    <3>1. <<>> \in X /\ Closed(X, N, G)
      BY <1>3, <2>1 DEF Closed
    <3>2. Reached(X, N, G, <<>>)
      BY <3>1, StepsExist
    <3>3. QED
      BY <3>2 DEF Reached
  <2>3. \A n \in 0..N : f[n] = IF n = 0 THEN <<>> ELSE One(n, f[n - 1])
    <3>1. ASSUME NEW n \in 1..N PROVE f[n] = One(n, f[n - 1])
      <4>1. f[n - 1] \in X /\ f[n] = G[<<n, f[n - 1]>>]
        BY <2>2
      <4>2. QED
        BY <2>1, <4>1
    <3>2. QED
      BY <2>2, <3>1
  <2>4. QED
    BY <2>2, <2>3
<1>6. Left(end)
  BY <1>5
<1>7. PICK f : f = end
  OBVIOUS
<1>8. f[0] = <<>> /\ \A n \in 1..N : f[n] = One(n, f[n - 1])
  <2>1. \A n \in 0..N : f[n] = IF n = 0 THEN <<>> ELSE One(n, f[n - 1])
    BY <1>6, <1>7
  <2>2. QED
    BY <2>1
<1> DEFINE P(n) == /\ f[n] \in Seq(Place) /\ Len(f[n]) <= n
                   /\ \A i, j \in DOMAIN f[n] : f[n][i] = f[n][j] => i = j
                   /\ \A x \in Place : (\E i \in DOMAIN f[n] : f[n][i] = x) <=> x[1] # t /\ \E i \in 1..n : order[i] = x
           holds == [n \in 0..N |-> P(n)]
<1>9. holds[0] \in {TRUE}
  <2>1. PICK empty : empty = f[0] /\ empty = <<>>
    BY <1>8
  <2>2. empty \in Seq(Place) /\ Len(empty) <= 0 /\ DOMAIN empty = {}
    BY <2>1
  <2>3. 1..0 = {}
    OBVIOUS
  <2>4. P(0)
    BY <2>1, <2>2, <2>3
  <2>5. 0 \in 0..N
    OBVIOUS
  <2> HIDE DEF P
  <2>6. QED
    BY <2>4, <2>5
<1>10. ASSUME NEW n \in 1..N, P(n - 1) PROVE P(n)
  <2>1. PICK old \in Seq(Place), new \in Seq(Place), k \in Place : old = f[n - 1] /\ k = order[n] /\ new = f[n]
    <3>1. f[n - 1] \in Seq(Place) /\ order[n] \in Place /\ f[n] = One(n, f[n - 1])
      BY <1>1, <1>8, <1>10
    <3>2. f[n] \in Seq(Place)
      BY <3>1 DEF One
    <3>3. QED
      BY <3>1, <3>2
  <2>2. new = IF k[1] = t THEN old ELSE Append(old, k)
    BY <1>8, <2>1 DEF One
  <2>3. PICK M \in Nat : M = Len(old) /\ M <= n - 1 /\ DOMAIN old = 1..M
    BY <1>10, <2>1
  <2>4. \A i \in 1..(n - 1) : i \in 1..N /\ i # n /\ order[i] # k
    BY <1>1, <2>1
  <2>5. \A i, j \in 1..M : old[i] = old[j] => i = j
    BY <1>10, <2>1, <2>3
  <2>6. \A x \in Place : (\E i \in 1..M : old[i] = x) <=> x[1] # t /\ \E i \in 1..(n - 1) : order[i] = x
    BY <1>10, <2>1, <2>3
  <2>7. \A x \in Place : (\E i \in 1..n : order[i] = x) <=> x = k \/ \E i \in 1..(n - 1) : order[i] = x
    <3>1. 1..n = 1..(n - 1) \cup {n}
      OBVIOUS
    <3>2. QED
      BY <2>1, <3>1
  <2>8. CASE k[1] = t
    <3>1. new = old
      BY <2>2, <2>8
    <3>2. \A x \in Place : (\E i \in 1..M : old[i] = x) <=> x[1] # t /\ \E i \in 1..n : order[i] = x
      BY <2>6, <2>7, <2>8
    <3>3. Len(new) <= n /\ DOMAIN new = 1..M /\ \A i, j \in DOMAIN new : new[i] = new[j] => i = j
      BY <2>3, <2>5, <3>1
    <3>4. \A x \in Place : (\E i \in DOMAIN new : new[i] = x) <=> x[1] # t /\ \E i \in 1..n : order[i] = x
      BY <3>1, <3>2, <3>3
    <3>5. QED
      BY <2>1, <3>3, <3>4
  <2>9. CASE k[1] # t
    <3>1. Len(new) = M + 1 /\ DOMAIN new = 1..(M + 1) /\ new[M + 1] = k /\ \A i \in 1..M : new[i] = old[i]
      BY <2>2, <2>3, <2>9
    <3>2. \A i \in 1..M : old[i] # k
      BY <2>4, <2>6
    <3>3. \A i, j \in 1..(M + 1) : new[i] = new[j] => i = j
      BY <2>3, <2>5, <3>1, <3>2
    <3>4. \A x \in Place : (\E i \in 1..(M + 1) : new[i] = x) <=> x = k \/ \E i \in 1..M : old[i] = x
      <4>1. 1..(M + 1) = 1..M \cup {M + 1}
        BY <2>3
      <4>2. QED
        BY <3>1, <4>1
    <3>5. \A x \in Place : (\E i \in 1..(M + 1) : new[i] = x) <=> x[1] # t /\ \E i \in 1..n : order[i] = x
      BY <2>6, <2>7, <2>9, <3>4
    <3>6. Len(new) <= n /\ \A i, j \in DOMAIN new : new[i] = new[j] => i = j
      BY <2>3, <3>1, <3>3
    <3>7. \A x \in Place : (\E i \in DOMAIN new : new[i] = x) <=> x[1] # t /\ \E i \in 1..n : order[i] = x
      BY <3>1, <3>5
    <3>8. QED
      BY <2>1, <3>6, <3>7
  <2>10. QED
    BY <2>8, <2>9
<1>11. \A n \in 1..N : holds[n - 1] \in {TRUE} => holds[n] \in {TRUE}
  <2>1. ASSUME NEW n \in 1..N, holds[n - 1] \in {TRUE} PROVE holds[n] \in {TRUE}
    <3>1. n - 1 \in 0..N /\ n \in 0..N
      OBVIOUS
    <3> HIDE DEF P
    <3>2. P(n - 1)
      BY <2>1, <3>1
    <3>3. P(n)
      BY <1>10, <3>2
    <3>4. QED
      BY <3>1, <3>3
  <2>2. QED
    BY <2>1
<1>12. P(N)
  <2> HIDE DEF P
  <2>1. PICK h, Y : h = holds /\ Y = {TRUE}
    OBVIOUS
  <2>2. h[0] \in Y /\ \A n \in 1..N : h[n - 1] \in Y => h[n] \in Y
    <3> HIDE DEF holds
    <3>1. QED
      BY <1>9, <1>11, <2>1
  <2>3. \A n \in 0..N : h[n] \in Y
    BY <2>2, StepsKeep
  <2>4. N \in 0..N
    OBVIOUS
  <2>5. QED
    BY <2>1, <2>3, <2>4
<1>13. PICK left : left = Others(order, t) /\ left = f[N]
  BY <1>2, <1>7
<1>14. QED
  BY <1>1, <1>12, <1>13 DEF LeftOf

-----------------------------------------------------------------------------
(***************************************************************************)
(* The store.  Two writers of a settled template are both still creating   *)
(* it, so a writer of one that exists has read the row as it is; a version *)
(* never changes, so a text stays the one of its place.                    *)
(***************************************************************************)
TemplateRow == [current : Nat, active : BOOLEAN]
WriterType ==
  {Free} \cup [at : {"create", "invalidate"}, t : Template]
    \cup [at : {"update", "delete", "rollback"}, t : Template, read : TemplateRow, known : Nat]
    \cup [at : {"commit"}, t : Template, read : TemplateRow, content : Content, number : Nat]
Request ==
  [at : {"resolve", "render", "preview", "load", "check", "done"}, kind : {"render", "preview"}, t : Template,
   channel : Channel, asked : Nat, v : Nat, text : SUBSET Variable, data : SUBSET Variable, settled : BOOLEAN]
RenderType == {Free} \cup Request

Present(t) == rows[t].current \in 1..Len(versions[t])
TablesHeld ==
  /\ rows \in [Template -> TemplateRow] /\ versions \in [Template -> Seq(Content)]
  /\ variables \in [Template -> SUBSET Variable] /\ unsettled \subseteq Template
  /\ \A t \in Template : Present(t) \/ (rows[t] = NoRow /\ versions[t] = <<>>)
  /\ \A t \in Template \ unsettled :
       Present(t) => rows[t].current = Len(versions[t]) /\ variables[t] = Uses(versions[t][Len(versions[t])])

CacheHeld == compiled \in Texts /\ insertionOrder \in Seq(Place) /\ Held(compiled, insertionOrder, versions)

HasRead(w) == writer[w].at \in {"update", "commit", "delete", "rollback"}
Reads(w) ==
  HasRead(w) => /\ writer[w].read.current \in 1..Len(versions[writer[w].t])
                /\ writer[w].t \notin unsettled => writer[w].read = rows[writer[w].t]
Alone(w, o) ==
  (w # o /\ writer[w].at # "idle" /\ writer[o].at # "idle" /\ writer[w].t = writer[o].t /\ writer[w].t \notin unsettled)
    => writer[w].at = "create" /\ writer[o].at = "create"
WritersHeld ==
  /\ writer \in [Writer -> WriterType]
  /\ \A w \in Writer : Reads(w) /\ (writer[w].at \notin {"idle", "create"} => Present(writer[w].t))
  /\ \A w, o \in Writer : Alone(w, o)

Faithful(q) ==
  /\ q.at # "idle" => q.v \in 1..Len(versions[q.t])
  /\ q.at \in {"check", "done"} => q.channel \in DOMAIN versions[q.t][q.v] /\ q.text = versions[q.t][q.v][q.channel]
  /\ (q.at = "done" /\ q.t \notin unsettled /\ q.v = Len(versions[q.t])) => q.text \subseteq q.data
RendersHeld == renderer \in [Renderer -> RenderType] /\ \A r \in Renderer : Faithful(renderer[r])

StoreInv == TablesHeld /\ CacheHeld /\ WritersHeld /\ RendersHeld

LEMMA StoreStart == StoreInit => StoreInv
<1> SUFFICES ASSUME StoreInit PROVE StoreInv
  OBVIOUS
<1>1. TablesHeld
  BY DEF StoreInit, TablesHeld, Present, TemplateRow, NoRow
<1>2. CacheHeld
  <2>1. Empty \in [{} -> SUBSET Variable] /\ {} \in SUBSET Place
    BY DEF Empty
  <2>2. Empty \in Texts /\ DOMAIN Empty = {}
    BY <2>1 DEF Texts
  <2>3. QED
    BY <2>2, StoreAssumption DEF StoreInit, CacheHeld, Held
<1>3. WritersHeld
  BY DEF StoreInit, WritersHeld, WriterType, Free, Reads, HasRead, Alone
<1>4. RendersHeld
  BY DEF StoreInit, RendersHeld, RenderType, Free, Faithful
<1>5. QED
  BY <1>1, <1>2, <1>3, <1>4 DEF StoreInv

Grown ==
  \A t \in Template : Len(versions[t]) <= Len(versions'[t]) /\ \A v \in 1..Len(versions[t]) : versions'[t][v] = versions[t][v]

LEMMA CacheStays ==
  ASSUME TablesHeld, CacheHeld, Grown, versions' \in [Template -> Seq(Content)], UNCHANGED compiledVars
  PROVE  CacheHeld'
<1>1. ASSUME NEW k \in Place, Exists(k, versions)
      PROVE  Exists(k, versions') /\ versions'[k[1]][k[2]][k[3]] = versions[k[1]][k[2]][k[3]]
  <2>1. PICK t \in Template, v \in Nat : k[1] = t /\ k[2] = v
    BY DEF Place
  <2>2. v \in 1..Len(versions[t]) /\ Len(versions[t]) \in Nat /\ Len(versions'[t]) \in Nat
    BY <1>1, <2>1 DEF Exists, TablesHeld
  <2>3. versions'[t][v] = versions[t][v] /\ v \in 1..Len(versions'[t])
    BY <2>2 DEF Grown
  <2>4. QED
    BY <1>1, <2>1, <2>3 DEF Exists
<1>2. DOMAIN compiled \subseteq Place
  BY DEF CacheHeld, Texts
<1>3. QED
  BY <1>1, <1>2 DEF CacheHeld, Held, compiledVars

LEMMA RendersStay ==
  ASSUME TablesHeld, RendersHeld, Grown, versions' \in [Template -> Seq(Content)], unsettled \subseteq unsettled', UNCHANGED renderer
  PROVE  RendersHeld'
<1>1. ASSUME NEW r \in Renderer, renderer[r].at # "idle"
      PROVE  Faithful(renderer[r])'
  <2>1. PICK q : q = renderer[r] /\ q = renderer'[r] /\ q.t \in Template /\ q.v \in 1..Len(versions[q.t]) /\ q.at # "idle" /\ Faithful(q)
    BY <1>1 DEF RendersHeld, RenderType, Request, Free, Faithful
  <2>2. PICK t \in Template, v \in Nat : t = q.t /\ v = q.v /\ v \in 1..Len(versions[t])
    BY <2>1
  <2>3. Len(versions[t]) \in Nat /\ Len(versions'[t]) \in Nat /\ Len(versions[t]) <= Len(versions'[t]) /\ versions'[t][v] = versions[t][v]
    BY <2>2 DEF Grown, TablesHeld
  <2>4. v \in 1..Len(versions'[t]) /\ (v = Len(versions'[t]) => v = Len(versions[t]))
    BY <2>2, <2>3
  <2>5. QED
    BY <2>1, <2>2, <2>3, <2>4 DEF Faithful
<1>2. ASSUME NEW r \in Renderer, renderer[r].at = "idle" PROVE Faithful(renderer[r])'
  BY <1>2 DEF Faithful
<1>3. QED
  BY <1>1, <1>2 DEF RendersHeld

\* Nothing grows while nothing is written.
LEMMA NothingGrows == TablesHeld /\ UNCHANGED tables => Grown /\ versions' \in [Template -> Seq(Content)]
BY DEF TablesHeld, tables, Grown

\* A writer that ends its work on a template leaves all others' as they were.
LEMMA WriterEnds ==
  ASSUME TablesHeld, WritersHeld, Grown, versions' \in [Template -> Seq(Content)], unsettled \subseteq unsettled',
         NEW w \in Writer, NEW t \in Template, writer[w].at # "idle", t = writer[w].t,
         \A u \in Template : u # t => rows'[u] = rows[u],
         Present(t) => Present(t)',
         NEW next, next = Free \/ (writer[w].at # "create" /\ next = [at |-> "invalidate", t |-> t] /\ Present(t)'),
         writer' = [writer EXCEPT ![w] = next]
  PROVE  WritersHeld'
<1>1. next \in WriterType /\ next.at \in {"idle", "invalidate"} /\ (next.at = "invalidate" => next.t = t)
  BY DEF WriterType, Free
<1>2. writer' \in [Writer -> WriterType] /\ writer'[w] = next /\ \A o \in Writer \ {w} : writer'[o] = writer[o]
  BY <1>1 DEF WritersHeld
<1>3. ASSUME NEW u \in Template, Present(u) PROVE Present(u)'
  <2>1. u # t => rows'[u] = rows[u] /\ Len(versions[u]) \in Nat /\ Len(versions'[u]) \in Nat /\ Len(versions[u]) <= Len(versions'[u])
    BY DEF Grown, TablesHeld
  <2>2. rows[u].current \in Nat
    BY DEF TablesHeld, TemplateRow
  <2>3. QED
    BY <1>3, <2>1, <2>2 DEF Present
<1>4. ASSUME NEW o \in Writer \ {w}, writer[o].at # "idle" PROVE writer[o].t \in Template
  BY <1>4 DEF WritersHeld, WriterType, Free
<1>5. ASSUME NEW o \in Writer PROVE Reads(o)'
  <2>1. CASE o = w
    BY <1>1, <1>2, <2>1 DEF Reads, HasRead
  <2>2. CASE o # w /\ HasRead(o)
    <3>1. PICK u \in Template, c \in Nat : /\ u = writer[o].t /\ c = writer[o].read.current /\ c \in 1..Len(versions[u])
                                           /\ writer[o].at # "idle" /\ writer[o].at # "create" /\ writer'[o] = writer[o]
      <4>1. writer[o].at # "idle" /\ writer[o].at # "create"
        BY <2>2 DEF HasRead
      <4>2. writer[o].t \in Template
        BY <1>4, <2>2, <4>1
      <4>3. writer[o].read.current \in 1..Len(versions[writer[o].t])
        BY <2>2 DEF WritersHeld, Reads
      <4>4. writer'[o] = writer[o]
        BY <1>2, <2>2
      <4>5. Len(versions[writer[o].t]) \in Nat
        BY <4>2 DEF TablesHeld
      <4>6. QED
        BY <4>1, <4>2, <4>3, <4>4, <4>5
    <3>2. c \in 1..Len(versions'[u])
      <4>1. Len(versions[u]) \in Nat /\ Len(versions'[u]) \in Nat /\ Len(versions[u]) <= Len(versions'[u])
        BY DEF Grown, TablesHeld
      <4>2. QED
        BY <3>1, <4>1
    <3>3. ASSUME u \notin unsettled' PROVE writer[o].read = rows'[u]
      <4>1. u \notin unsettled
        BY <3>3
      <4>2. u # t
        BY <2>2, <3>1, <4>1 DEF WritersHeld, Alone
      <4>3. writer[o].read = rows[u]
        BY <2>2, <3>1, <4>1 DEF WritersHeld, Reads
      <4>4. QED
        BY <4>2, <4>3
    <3>4. QED
      BY <3>1, <3>2, <3>3 DEF Reads
  <2>3. CASE o # w /\ ~HasRead(o)
    BY <1>2, <2>3 DEF Reads, HasRead
  <2>4. QED
    BY <2>1, <2>2, <2>3
<1>6. ASSUME NEW o \in Writer, writer'[o].at \notin {"idle", "create"} PROVE Present(writer[o].t)'
  <2>1. CASE o = w
    BY <1>1, <1>2, <1>6, <2>1 DEF Free, Present
  <2>2. CASE o # w
    BY <1>2, <1>3, <1>4, <1>6, <2>2 DEF WritersHeld
  <2>3. QED
    BY <2>1, <2>2
<1>7. ASSUME NEW a \in Writer, NEW b \in Writer PROVE Alone(a, b)'
  <2>1. CASE a # w /\ b # w
    BY <1>2, <2>1 DEF WritersHeld, Alone
  <2>2. CASE a = w /\ b # w
    BY <1>1, <1>2, <2>2 DEF WritersHeld, Alone, Free
  <2>3. CASE a # w /\ b = w
    BY <1>1, <1>2, <2>3 DEF WritersHeld, Alone, Free
  <2>4. CASE a = w /\ b = w
    BY <2>4 DEF Alone
  <2>5. QED
    BY <2>1, <2>2, <2>3, <2>4
<1>8. QED
  BY <1>2, <1>5, <1>6, <1>7 DEF WritersHeld

LEMMA Refused ==
  ASSUME StoreInv, NEW w \in Writer, writer[w].at # "idle", Refuse(w), UNCHANGED <<compiledVars, renderer>>
  PROVE  StoreInv'
<1>1. PICK t \in Template : t = writer[w].t
  BY DEF StoreInv, WritersHeld, WriterType, Free
<1>2. TablesHeld' /\ Grown /\ versions' \in [Template -> Seq(Content)] /\ UNCHANGED <<rows, versions, unsettled, renderer>>
  BY NothingGrows DEF StoreInv, Refuse, tables, TablesHeld, Present
<1>3. writer' = [writer EXCEPT ![w] = Free]
  BY DEF Refuse, Step
<1>4. WritersHeld'
  BY <1>1, <1>2, <1>3, WriterEnds DEF StoreInv, Present
<1>5. CacheHeld' /\ RendersHeld'
  BY <1>2, CacheStays, RendersStay DEF StoreInv
<1>6. QED
  BY <1>2, <1>4, <1>5 DEF StoreInv

LEMMA BeginCreateKeeps ==
  ASSUME StoreInv, NEW w \in Writer, NEW t \in Template, BeginCreate(w, t)
  PROVE  StoreInv'
<1>1. TablesHeld' /\ Grown /\ versions' \in [Template -> Seq(Content)] /\ UNCHANGED <<rows, versions, unsettled, renderer>>
  BY NothingGrows DEF StoreInv, BeginCreate, tables, TablesHeld, Present
<1>2. CacheHeld' /\ RendersHeld'
  BY <1>1, CacheStays, RendersStay DEF StoreInv, BeginCreate
<1>3. PICK next \in WriterType : next = [at |-> "create", t |-> t] /\ writer' = [writer EXCEPT ![w] = next] /\ writer[w] = Free
                                 /\ next.at = "create" /\ next.t = t /\ rows[t] = NoRow
  <2>1. [at |-> "create", t |-> t] \in [at : {"create", "invalidate"}, t : Template]
    OBVIOUS
  <2>2. [at |-> "create", t |-> t] \in WriterType
    BY <2>1 DEF WriterType
  <2>3. QED
    BY <2>2 DEF BeginCreate, Step
<1>4. writer' \in [Writer -> WriterType] /\ writer'[w] = next /\ \A o \in Writer \ {w} : writer'[o] = writer[o]
  BY <1>3 DEF StoreInv, WritersHeld
<1>5. ~Present(t)
  <2>1. Len(versions[t]) \in Nat
    BY DEF StoreInv, TablesHeld
  <2>2. QED
    BY <1>3, <2>1 DEF Present, NoRow
<1>6. ASSUME NEW o \in Writer \ {w}, writer[o].at # "idle", writer[o].t = t PROVE writer[o].at = "create"
  BY <1>5, <1>6 DEF StoreInv, WritersHeld
<1>7. ASSUME NEW o \in Writer PROVE Reads(o)' /\ (writer'[o].at \notin {"idle", "create"} => Present(writer[o].t)')
  BY <1>1, <1>3, <1>4 DEF StoreInv, WritersHeld, Reads, HasRead, Present
<1>8. ASSUME NEW a \in Writer, NEW b \in Writer PROVE Alone(a, b)'
  BY <1>1, <1>3, <1>4, <1>6 DEF StoreInv, WritersHeld, Alone
<1>9. QED
  BY <1>1, <1>2, <1>4, <1>7, <1>8 DEF StoreInv, WritersHeld

LEMMA BeginWriteKeeps ==
  ASSUME StoreInv, NEW w \in Writer, NEW t \in Template, NEW op \in {"update", "delete", "rollback"}, BeginWrite(w, t, op)
  PROVE  StoreInv'
<1>1. TablesHeld' /\ Grown /\ versions' \in [Template -> Seq(Content)] /\ UNCHANGED <<rows, versions, renderer>> /\ unsettled \subseteq unsettled'
  BY NothingGrows DEF StoreInv, BeginWrite, tables, TablesHeld, Present
<1>2. CacheHeld' /\ RendersHeld'
  BY <1>1, CacheStays, RendersStay DEF StoreInv, BeginWrite
<1>3. PICK next \in WriterType : /\ next = [at |-> op, t |-> t, read |-> rows[t], known |-> Len(versions[t])]
                                 /\ writer' = [writer EXCEPT ![w] = next] /\ writer[w] = Free /\ rows[t] # NoRow
                                 /\ next.at = op /\ next.t = t /\ next.read = rows[t]
  <2>1. rows[t] \in TemplateRow /\ Len(versions[t]) \in Nat
    BY DEF StoreInv, TablesHeld
  <2>2. [at |-> op, t |-> t, read |-> rows[t], known |-> Len(versions[t])] \in WriterType
    BY <2>1 DEF WriterType
  <2>3. QED
    BY <2>2 DEF BeginWrite, Step
<1>4. writer' \in [Writer -> WriterType] /\ writer'[w] = next /\ \A o \in Writer \ {w} : writer'[o] = writer[o]
  BY <1>3 DEF StoreInv, WritersHeld
<1>5. Present(t)
  BY <1>3 DEF StoreInv, TablesHeld
<1>6. ASSUME NEW o \in Writer \ {w}, writer[o].at # "idle", writer[o].t = t PROVE t \in unsettled'
  BY <1>6 DEF BeginWrite, Overlaps, Free
<1>7. ASSUME NEW o \in Writer PROVE Reads(o)' /\ (writer'[o].at \notin {"idle", "create"} => Present(writer[o].t)')
  <2>1. CASE o = w
    BY <1>1, <1>3, <1>4, <1>5, <2>1 DEF Reads, HasRead, Present
  <2>2. CASE o # w
    BY <1>1, <1>4, <2>2 DEF StoreInv, WritersHeld, Reads, HasRead, Present
  <2>3. QED
    BY <2>1, <2>2
<1>8. ASSUME NEW a \in Writer, NEW b \in Writer PROVE Alone(a, b)'
  BY <1>1, <1>3, <1>4, <1>6 DEF StoreInv, WritersHeld, Alone
<1>9. QED
  BY <1>1, <1>2, <1>4, <1>7, <1>8 DEF StoreInv, WritersHeld

LEMMA NumberKeeps ==
  ASSUME StoreInv, NEW w \in Writer, NEW content \in Content, Number(w, content)
  PROVE  StoreInv'
<1>1. TablesHeld' /\ Grown /\ versions' \in [Template -> Seq(Content)] /\ UNCHANGED <<rows, versions, unsettled, renderer>>
  BY NothingGrows DEF StoreInv, Number, tables, TablesHeld, Present
<1>2. CacheHeld' /\ RendersHeld'
  BY <1>1, CacheStays, RendersStay DEF StoreInv, Number
<1>3. PICK u : u = writer[w] /\ u.at = "update" /\ u.t \in Template /\ u.read \in TemplateRow /\ Len(versions[u.t]) \in Nat
  BY DEF Number, StoreInv, TablesHeld, WritersHeld, WriterType, Free
<1>4. PICK next \in WriterType : next.at = "commit" /\ next.t = u.t /\ next.read = u.read /\ writer' = [writer EXCEPT ![w] = next]
  <2>1. [at |-> "commit", t |-> u.t, read |-> u.read, content |-> content, number |-> Len(versions[u.t]) + 1] \in WriterType
    BY <1>3 DEF WriterType
  <2>2. QED
    BY <1>3, <2>1 DEF Number, Step
<1>5. writer' \in [Writer -> WriterType] /\ writer'[w] = next /\ \A o \in Writer \ {w} : writer'[o] = writer[o]
  BY <1>4 DEF StoreInv, WritersHeld
<1>6. Reads(w) /\ Present(u.t)
  BY <1>3 DEF StoreInv, WritersHeld
<1>7. ASSUME NEW o \in Writer PROVE Reads(o)' /\ (writer'[o].at \notin {"idle", "create"} => Present(writer[o].t)')
  <2>1. CASE o = w
    BY <1>1, <1>3, <1>4, <1>5, <1>6, <2>1 DEF Reads, HasRead, Present
  <2>2. CASE o # w
    BY <1>1, <1>5, <2>2 DEF StoreInv, WritersHeld, Reads, HasRead, Present
  <2>3. QED
    BY <2>1, <2>2
<1>8. ASSUME NEW a \in Writer, NEW b \in Writer PROVE Alone(a, b)'
  BY <1>1, <1>3, <1>4, <1>5 DEF StoreInv, WritersHeld, Alone
<1>9. QED
  BY <1>1, <1>2, <1>5, <1>7, <1>8 DEF StoreInv, WritersHeld

LEMMA CreateKeeps ==
  ASSUME StoreInv, NEW w \in Writer, NEW content \in Content, Create(w, content)
  PROVE  StoreInv'
<1>1. PICK t \in Template : t = writer[w].t /\ writer[w].at = "create" /\ Len(versions[t]) \in Nat
  BY DEF Create, StoreInv, TablesHeld, WritersHeld, WriterType, Free
<1>2. CASE rows[t] # NoRow
  BY <1>1, <1>2, Refused DEF Create, compiledVars
<1>3. CASE rows[t] = NoRow
  <2>1. /\ rows' = [rows EXCEPT ![t] = [current |-> 1, active |-> TRUE]] /\ versions' = [versions EXCEPT ![t] = <<content>>]
        /\ variables' = [variables EXCEPT ![t] = Uses(content)] /\ writer' = [writer EXCEPT ![w] = Free]
        /\ UNCHANGED <<unsettled, compiledVars, renderer>>
    BY <1>1, <1>3 DEF Create, Step
  <2>2. versions[t] = <<>>
    <3>1. ~Present(t)
      BY <1>1, <1>3 DEF Present, NoRow
    <3>2. QED
      BY <3>1 DEF StoreInv, TablesHeld
  <2>3. Uses(content) \subseteq Variable
    BY DEF Uses, Content
  <2>4. <<content>> \in Seq(Content) /\ Len(<<content>>) = 1 /\ <<content>>[1] = content /\ [current |-> 1, active |-> TRUE] \in TemplateRow
    BY DEF TemplateRow
  <2>5. versions' \in [Template -> Seq(Content)] /\ versions'[t] = <<content>> /\ \A u \in Template \ {t} : versions'[u] = versions[u]
    BY <2>1, <2>4 DEF StoreInv, TablesHeld
  <2>6. rows' \in [Template -> TemplateRow] /\ rows'[t].current = 1 /\ \A u \in Template \ {t} : rows'[u] = rows[u]
    BY <2>1, <2>4 DEF StoreInv, TablesHeld
  <2>7. variables' \in [Template -> SUBSET Variable] /\ variables'[t] = Uses(content) /\ \A u \in Template \ {t} : variables'[u] = variables[u]
    BY <2>1, <2>3 DEF StoreInv, TablesHeld
  <2>8. Grown
    <3>1. Len(versions[t]) = 0
      BY <2>2
    <3>2. QED
      BY <2>4, <2>5, <3>1 DEF Grown, StoreInv, TablesHeld
  <2>9. TablesHeld'
    BY <2>1, <2>4, <2>5, <2>6, <2>7 DEF StoreInv, TablesHeld, Present
  <2>10. WritersHeld'
    <3>1. Present(t)'
      BY <2>4, <2>5, <2>6 DEF Present
    <3>2. \A u \in Template : u # t => rows'[u] = rows[u]
      BY <2>6
    <3>3. QED
      BY <1>1, <2>1, <2>5, <2>8, <3>1, <3>2, WriterEnds DEF StoreInv
  <2>11. CacheHeld' /\ RendersHeld'
    BY <2>1, <2>5, <2>8, CacheStays, RendersStay DEF StoreInv
  <2>12. QED
    BY <2>9, <2>10, <2>11 DEF StoreInv
<1>4. QED
  BY <1>2, <1>3

LEMMA CommitKeeps == ASSUME StoreInv, NEW w \in Writer, Commit(w) PROVE StoreInv'
<1>1. PICK u : u = writer[w] /\ u.at = "commit" /\ u.t \in Template /\ u.read \in TemplateRow /\ u.content \in Content /\ u.number \in Nat
  BY DEF Commit, StoreInv, WritersHeld, WriterType, Free
<1>2. PICK t \in Template : /\ t = u.t /\ t = writer[w].t /\ u = writer[w] /\ u.at = "commit" /\ u.read \in TemplateRow /\ u.content \in Content
                            /\ u.number \in Nat /\ Len(versions[t]) \in Nat /\ versions[t] \in Seq(Content)
  BY <1>1 DEF StoreInv, TablesHeld
<1>3. CASE Len(versions[t]) # u.number - 1
  BY <1>2, <1>3, Refused DEF Commit, compiledVars
<1>4. CASE Len(versions[t]) = u.number - 1
  <2> DEFINE next == [at |-> "invalidate", t |-> t]
             written == [u.read EXCEPT !.current = u.number]
             texts == Append(versions[t], u.content)
  <2>1. /\ rows' = [rows EXCEPT ![t] = written] /\ versions' = [versions EXCEPT ![t] = texts]
        /\ variables' = [variables EXCEPT ![t] = Uses(u.content)] /\ writer' = [writer EXCEPT ![w] = next]
        /\ UNCHANGED <<unsettled, compiledVars, renderer>>
    BY <1>2, <1>4 DEF Commit, Step, Kept, StoreInv, TablesHeld
  <2>2. written \in TemplateRow /\ written.current = u.number
    BY <1>2 DEF TemplateRow
  <2>3. Uses(u.content) \subseteq Variable
    BY <1>2 DEF Uses, Content
  <2>4. /\ texts \in Seq(Content) /\ Len(texts) = u.number /\ texts[u.number] = u.content
        /\ \A v \in 1..Len(versions[t]) : texts[v] = versions[t][v]
    BY <1>2, <1>4
  <2> HIDE DEF written, texts
  <2>5. versions' \in [Template -> Seq(Content)] /\ versions'[t] = texts /\ \A o \in Template \ {t} : versions'[o] = versions[o]
    BY <2>1, <2>4 DEF StoreInv, TablesHeld
  <2>6. rows' \in [Template -> TemplateRow] /\ rows'[t] = written /\ \A o \in Template \ {t} : rows'[o] = rows[o]
    BY <2>1, <2>2 DEF StoreInv, TablesHeld
  <2>7. variables' \in [Template -> SUBSET Variable] /\ variables'[t] = Uses(u.content) /\ \A o \in Template \ {t} : variables'[o] = variables[o]
    BY <2>1, <2>3 DEF StoreInv, TablesHeld
  <2>8. Grown
    <3>1. ASSUME NEW o \in Template PROVE Len(versions[o]) <= Len(versions'[o]) /\ \A v \in 1..Len(versions[o]) : versions'[o][v] = versions[o][v]
      <4>1. CASE o = t
        BY <1>2, <1>4, <2>4, <2>5, <4>1
      <4>2. CASE o # t
        BY <2>5, <4>2 DEF StoreInv, TablesHeld
      <4>3. QED
        BY <4>1, <4>2
    <3>2. QED
      BY <3>1 DEF Grown
  <2>9. TablesHeld'
    <3>1. u.number \in 1..u.number
      BY <1>2, <1>4
    <3>2. QED
      BY <2>1, <2>2, <2>4, <2>5, <2>6, <2>7, <3>1 DEF StoreInv, TablesHeld, Present
  <2>10. WritersHeld'
    <3>1. Present(t)'
      BY <1>2, <1>4, <2>2, <2>4, <2>5, <2>6 DEF Present
    <3>2. \A o \in Template : o # t => rows'[o] = rows[o]
      BY <2>6
    <3>3. QED
      BY <1>2, <2>1, <2>5, <2>8, <3>1, <3>2, WriterEnds DEF StoreInv
  <2>11. CacheHeld' /\ RendersHeld'
    BY <2>1, <2>5, <2>8, CacheStays, RendersStay DEF StoreInv
  <2>12. QED
    BY <2>9, <2>10, <2>11 DEF StoreInv
<1>5. QED
  BY <1>3, <1>4

LEMMA DeleteKeeps == ASSUME StoreInv, NEW w \in Writer, Delete(w) PROVE StoreInv'
<1>1. PICK u : u = writer[w] /\ u.at = "delete" /\ u.t \in Template /\ u.read \in TemplateRow
  BY DEF Delete, StoreInv, WritersHeld, WriterType, Free
<1>2. PICK t \in Template : t = u.t /\ t = writer[w].t /\ Len(versions[t]) \in Nat
  BY <1>1 DEF StoreInv, TablesHeld
<1> DEFINE written == [u.read EXCEPT !.active = FALSE]
           next == [at |-> "invalidate", t |-> t]
<1>3. /\ rows' = [rows EXCEPT ![t] = written] /\ writer' = [writer EXCEPT ![w] = next]
      /\ UNCHANGED <<versions, variables, unsettled, compiledVars, renderer>>
  BY <1>1, <1>2 DEF Delete, Step
<1>4. written \in TemplateRow /\ written.current = u.read.current
  BY <1>1 DEF TemplateRow
<1>5. u.read.current \in 1..Len(versions[t]) /\ (t \notin unsettled => u.read = rows[t])
  BY <1>1, <1>2 DEF StoreInv, WritersHeld, Reads, HasRead
<1> HIDE DEF written
<1>6. rows' \in [Template -> TemplateRow] /\ rows'[t] = written /\ \A o \in Template : o # t => rows'[o] = rows[o]
  BY <1>3, <1>4 DEF StoreInv, TablesHeld
<1>7. Grown /\ versions' \in [Template -> Seq(Content)]
  BY <1>3 DEF Grown, StoreInv, TablesHeld
<1>8. Present(t)' /\ Present(t)
  <2>1. Present(t)'
    BY <1>3, <1>4, <1>5, <1>6 DEF Present
  <2>2. Present(t)
    BY <1>1, <1>2 DEF StoreInv, WritersHeld
  <2>3. QED
    BY <2>1, <2>2
<1>9. TablesHeld'
  BY <1>3, <1>4, <1>5, <1>6, <1>8 DEF StoreInv, TablesHeld, Present
<1>10. WritersHeld'
  BY <1>1, <1>2, <1>3, <1>6, <1>7, <1>8, WriterEnds DEF StoreInv
<1>11. CacheHeld' /\ RendersHeld'
  BY <1>3, <1>7, CacheStays, RendersStay DEF StoreInv
<1>12. QED
  BY <1>9, <1>10, <1>11 DEF StoreInv

LEMMA RollbackKeeps == ASSUME StoreInv, NEW w \in Writer, NEW n \in Nat, Rollback(w, n) PROVE StoreInv'
<1>1. PICK u : u = writer[w] /\ u.at = "rollback" /\ u.t \in Template /\ u.read \in TemplateRow /\ u.known \in Nat /\ n \in 1..u.known
  BY DEF Rollback, StoreInv, WritersHeld, WriterType, Free
<1>2. PICK t \in Template : t = u.t /\ t = writer[w].t /\ Len(versions[t]) \in Nat
  BY <1>1 DEF StoreInv, TablesHeld
<1>3. CASE Len(versions[t]) # u.known
  BY <1>1, <1>2, <1>3, Refused DEF Rollback, compiledVars
<1>4. CASE Len(versions[t]) = u.known
  <2> DEFINE written == [u.read EXCEPT !.current = n]
             next == [at |-> "invalidate", t |-> t]
  <2>1. /\ rows' = [rows EXCEPT ![t] = written] /\ writer' = [writer EXCEPT ![w] = next] /\ unsettled' = unsettled \cup {t}
        /\ UNCHANGED <<versions, variables, compiledVars, renderer>>
    BY <1>1, <1>2, <1>4 DEF Rollback, Step
  <2>2. written \in TemplateRow /\ written.current = n
    BY <1>1 DEF TemplateRow
  <2> HIDE DEF written
  <2>3. rows' \in [Template -> TemplateRow] /\ rows'[t] = written /\ \A o \in Template : o # t => rows'[o] = rows[o]
    BY <2>1, <2>2 DEF StoreInv, TablesHeld
  <2>4. Grown /\ versions' \in [Template -> Seq(Content)]
    BY <2>1 DEF Grown, StoreInv, TablesHeld
  <2>5. Present(t)' /\ unsettled \subseteq unsettled'
    BY <1>1, <1>4, <2>1, <2>2, <2>3 DEF Present
  <2>6. TablesHeld'
    BY <2>1, <2>2, <2>3, <2>5 DEF StoreInv, TablesHeld, Present
  <2>7. WritersHeld'
    BY <1>1, <1>2, <2>1, <2>3, <2>4, <2>5, WriterEnds DEF StoreInv
  <2>8. CacheHeld' /\ RendersHeld'
    BY <2>1, <2>4, <2>5, CacheStays, RendersStay DEF StoreInv
  <2>9. QED
    BY <2>6, <2>7, <2>8 DEF StoreInv
<1>5. QED
  BY <1>3, <1>4

LEMMA InvalidateKeeps == ASSUME StoreInv, NEW w \in Writer, Invalidate(w) PROVE StoreInv'
<1>1. PICK t \in Template : t = writer[w].t /\ writer[w].at = "invalidate"
  BY DEF Invalidate, StoreInv, WritersHeld, WriterType, Free
<1>2. TablesHeld' /\ Grown /\ versions' \in [Template -> Seq(Content)] /\ UNCHANGED <<rows, versions, unsettled, renderer>>
  BY NothingGrows DEF StoreInv, Invalidate, tables, TablesHeld, Present
<1>3. writer' = [writer EXCEPT ![w] = Free]
  BY DEF Invalidate, Step
<1>4. WritersHeld'
  BY <1>1, <1>2, <1>3, WriterEnds DEF StoreInv, Present
<1>5. RendersHeld'
  BY <1>2, RendersStay DEF StoreInv
<1>6. CacheHeld'
  <2>1. PICK c, order : /\ c = compiled /\ order = insertionOrder /\ c \in Texts /\ order \in Seq(Place) /\ Held(c, order, versions)
    BY DEF StoreInv, CacheHeld
  <2>2. PICK D \in SUBSET Place : c \in [D -> SUBSET Variable]
    BY <2>1 DEF Texts
  <2>3. PICK left : left = Others(order, t) /\ left = insertionOrder'
    BY <1>1, <2>1 DEF Invalidate, Drop
  <2>4. PICK kept : kept = compiled' /\ kept = [k \in DOMAIN c \ {k \in DOMAIN c : k[1] = t} |-> c[k]]
    BY <1>1, <2>1 DEF Invalidate, Drop, Without
  <2>5. order \in Seq(Place) /\ Distinct(order)
    BY <2>1 DEF Held, Distinct
  <2>6. LeftOf(order, left, t)
    <3>1. LeftOf(order, Others(order, t), t)
      BY <2>5, OthersLeft
    <3>2. QED
      BY <2>3, <3>1
  <2>7. \A k : k \in DOMAIN kept <=> k \in DOMAIN c /\ k[1] # t
    BY <2>4
  <2>8. \A k \in DOMAIN kept : kept[k] = c[k]
    BY <2>4
  <2>9. kept \in Texts
    <3>1. PICK E \in SUBSET Place : E = DOMAIN kept /\ E \subseteq D
      BY <2>2, <2>7
    <3>2. kept \in [E -> SUBSET Variable]
      BY <2>2, <2>4, <3>1
    <3>3. QED
      BY <3>2 DEF Texts
  <2>10. Len(left) <= maxSize
    <3>1. Len(left) \in Nat /\ Len(order) \in Nat /\ Len(order) <= maxSize
      BY <2>1, <2>6 DEF Held, LeftOf
    <3>2. QED
      BY <2>6, <3>1, StoreAssumption DEF LeftOf
  <2>11. \A k \in Place : k \in DOMAIN kept <=> \E i \in DOMAIN left : left[i] = k
    BY <2>1, <2>6, <2>7 DEF Held, LeftOf
  <2>12. \A k \in DOMAIN kept : Exists(k, versions) /\ kept[k] = versions[k[1]][k[2]][k[3]]
    BY <2>1, <2>7, <2>8 DEF Held
  <2>13. Held(kept, left, versions)
    BY <2>6, <2>10, <2>11, <2>12 DEF Held, LeftOf
  <2>14. QED
    BY <1>2, <2>3, <2>4, <2>6, <2>9, <2>13 DEF CacheHeld, LeftOf
<1>7. QED
  BY <1>2, <1>4, <1>5, <1>6 DEF StoreInv

LEMMA RestartKeeps == ASSUME StoreInv, Restart PROVE StoreInv'
<1>1. TablesHeld' /\ UNCHANGED <<rows, versions, unsettled>>
  BY DEF StoreInv, Restart, tables, TablesHeld, Present
<1>2. WarmUp \in HeldStates(versions)
  <2>1. ASSUME NEW t \in Template, rows[t].active PROVE rows[t].current \in 1..Len(versions[t])
    BY <2>1 DEF StoreInv, TablesHeld, Present, NoRow
  <2>2. QED
    BY <2>1, WarmUpKeeps DEF StoreInv, TablesHeld
<1>3. CacheHeld'
  BY <1>1, <1>2 DEF Restart, SetCache, HeldStates, CacheHeld
<1>4. WritersHeld'
  BY DEF Restart, WritersHeld, WriterType, Free, Reads, HasRead, Alone
<1>5. RendersHeld'
  BY DEF Restart, RendersHeld, RenderType, Free, Faithful
<1>6. QED
  BY <1>1, <1>3, <1>4, <1>5 DEF StoreInv

LEMMA RenderMoves ==
  ASSUME StoreInv, NEW r \in Renderer, NEW next \in RenderType, Faithful(next), Move(r, next), CacheHeld',
         UNCHANGED <<tables, writer, unsettled>>
  PROVE  StoreInv'
<1>1. TablesHeld' /\ UNCHANGED <<rows, versions, unsettled, writer>>
  BY DEF StoreInv, tables, TablesHeld, Present
<1>2. WritersHeld'
  BY <1>1 DEF StoreInv, WritersHeld, Reads, HasRead, Alone, Present
<1>3. renderer' \in [Renderer -> RenderType] /\ renderer'[r] = next /\ \A o \in Renderer \ {r} : renderer'[o] = renderer[o]
  BY DEF StoreInv, RendersHeld, Move
<1>4. ASSUME NEW o \in Renderer PROVE Faithful(renderer[o])'
  BY <1>1, <1>3 DEF StoreInv, RendersHeld, Faithful
<1>5. QED
  BY <1>1, <1>2, <1>3, <1>4 DEF StoreInv, RendersHeld

LEMMA FreeIsFaithful == Free \in RenderType /\ Faithful(Free)
BY DEF RenderType, Free, Faithful

LEMMA CacheUnmoved == StoreInv /\ UNCHANGED <<tables, compiledVars>> => CacheHeld'
BY DEF StoreInv, CacheHeld, tables, compiledVars, Held, Exists

\* A request under way, with its version there.
Asking(q) ==
  q \in Request /\ q.at # "idle" /\ Faithful(q) /\ q.t \in Template /\ q.v \in 1..Len(versions[q.t]) /\ q.channel \in Channel

LEMMA AskingFacts == ASSUME StoreInv, NEW r \in Renderer, renderer[r].at # "idle" PROVE Asking(renderer[r])
<1>1. PICK q : q = renderer[r] /\ q \in RenderType /\ Faithful(q) /\ q.at # "idle"
  BY DEF StoreInv, RendersHeld
<1>2. q # Free
  BY <1>1 DEF Free
<1>3. q \in Request
  BY <1>1, <1>2 DEF RenderType
<1>4. q.t \in Template /\ q.channel \in Channel
  BY <1>3 DEF Request
<1>5. QED
  BY <1>1, <1>3, <1>4 DEF Asking, Faithful

LEMMA AskedText ==
  ASSUME StoreInv, NEW t \in Template, NEW v \in 1..Len(versions[t]), NEW ch \in DOMAIN versions[t][v]
  PROVE  /\ CompiledKey(t, v, ch) \in Place /\ Exists(CompiledKey(t, v, ch), versions) /\ versions[t][v][ch] \in SUBSET Variable
         /\ CompiledKey(t, v, ch)[1] = t /\ CompiledKey(t, v, ch)[2] = v /\ CompiledKey(t, v, ch)[3] = ch
<1>1. versions \in [Template -> Seq(Content)]
  BY DEF StoreInv, TablesHeld
<1>2. PICK content : content = versions[t][v] /\ content \in [DOMAIN content -> SUBSET Variable] /\ DOMAIN content \subseteq Channel
  BY <1>1, ContentOf
<1>3. Len(versions[t]) \in Nat
  BY <1>1
<1>4. <<t, v, ch>> \in Template \X Nat \X Channel
  BY <1>2, <1>3
<1>5. QED
  BY <1>2, <1>4 DEF CompiledKey, Place, Exists

\* What is found under a key is the text of its place.
LEMMA HitText ==
  ASSUME StoreInv, NEW t \in Template, NEW v \in 1..Len(versions[t]), NEW ch \in Channel, CompiledKey(t, v, ch) \in DOMAIN compiled
  PROVE  ch \in DOMAIN versions[t][v] /\ compiled[CompiledKey(t, v, ch)] = versions[t][v][ch] /\ versions[t][v][ch] \in SUBSET Variable
<1>1. PICK k : k = CompiledKey(t, v, ch) /\ k[1] = t /\ k[2] = v /\ k[3] = ch
  BY DEF CompiledKey
<1>2. Exists(k, versions) /\ compiled[k] = versions[k[1]][k[2]][k[3]]
  BY <1>1 DEF StoreInv, CacheHeld, Held
<1>3. ch \in DOMAIN versions[t][v]
  BY <1>1, <1>2 DEF Exists
<1>4. QED
  BY <1>1, <1>2, <1>3, AskedText

LEMMA BeginRenderKeeps ==
  ASSUME StoreInv, NEW r \in Renderer, NEW t \in Template, NEW ch \in Channel, NEW use \in {"render", "preview"}, NEW number \in Nat,
         BeginRender(r, t, ch, use, number)
  PROVE  StoreInv'
<1>1. PICK settled \in BOOLEAN :
        Move(r, [at |-> "resolve", kind |-> use, t |-> t, channel |-> ch, asked |-> number, v |-> rows[t].current,
                 text |-> {}, data |-> {}, settled |-> settled])
  BY DEF BeginRender
<1>2. PICK v : v = rows[t].current /\ v \in Nat /\ v \in 1..Len(versions[t])
  BY DEF BeginRender, StoreInv, TablesHeld, Present, NoRow, TemplateRow
<1>3. PICK next \in RenderType : /\ next = [at |-> "resolve", kind |-> use, t |-> t, channel |-> ch, asked |-> number, v |-> v,
                                            text |-> {}, data |-> {}, settled |-> settled]
                                 /\ next.at = "resolve" /\ next.v = v /\ next.t = t
  <2>1. [at |-> "resolve", kind |-> use, t |-> t, channel |-> ch, asked |-> number, v |-> v,
         text |-> {}, data |-> {}, settled |-> settled] \in Request
    BY <1>2 DEF Request
  <2>2. QED
    BY <1>2, <2>1 DEF RenderType
<1>4. Faithful(next)
  BY <1>2, <1>3 DEF Faithful
<1>5. QED
  BY <1>1, <1>2, <1>3, <1>4, RenderMoves, CacheUnmoved DEF BeginRender

LEMMA EndsFree ==
  ASSUME StoreInv, NEW r \in Renderer, Move(r, Free), UNCHANGED <<tables, compiledVars, writer, unsettled>>
  PROVE  StoreInv'
BY FreeIsFaithful, RenderMoves, CacheUnmoved

LEMMA ResolveKeeps == ASSUME StoreInv, NEW r \in Renderer, ResolveVersion(r) PROVE StoreInv'
<1>1. PICK q : q = renderer[r] /\ q.at = "resolve" /\ Asking(q)
  BY AskingFacts DEF ResolveVersion
<1>2. PICK v : v = IF q.asked = 0 THEN q.v ELSE q.asked
  OBVIOUS
<1>3. CASE v \in 1..Len(versions[q.t])
  <2>1. PICK next \in RenderType : next = [q EXCEPT !.at = q.kind, !.v = v] /\ next.at = q.kind /\ next.v = v /\ next.t = q.t
    <3>1. [q EXCEPT !.at = q.kind, !.v = v] \in Request
      BY <1>1, <1>2, <1>3 DEF Asking, Request
    <3>2. [q EXCEPT !.at = q.kind, !.v = v] \in RenderType
      BY <3>1 DEF RenderType
    <3>3. QED
      BY <1>1, <1>2, <1>3, <3>1, <3>2 DEF Asking, Request
  <2>2. Faithful(next)
    BY <1>1, <1>3, <2>1 DEF Faithful, Asking, Request
  <2>3. QED
    BY <1>1, <1>2, <1>3, <2>1, <2>2, RenderMoves, CacheUnmoved DEF ResolveVersion
<1>4. CASE v \notin 1..Len(versions[q.t])
  BY <1>1, <1>2, <1>4, EndsFree DEF ResolveVersion
<1>5. QED
  BY <1>3, <1>4

LEMMA HitKeeps == ASSUME StoreInv, NEW r \in Renderer, Hit(r) PROVE StoreInv'
<1>1. PICK q : q = renderer[r] /\ q.at = "render" /\ Asking(q)
  BY AskingFacts DEF Hit
<1>2. PICK text : /\ text = compiled[CompiledKey(q.t, q.v, q.channel)] /\ text \in SUBSET Variable
                  /\ q.channel \in DOMAIN versions[q.t][q.v] /\ text = versions[q.t][q.v][q.channel]
  BY <1>1, HitText DEF Hit, Asking
<1>3. PICK next \in RenderType : /\ next = [q EXCEPT !.at = "check", !.text = text] /\ next.at = "check" /\ next.text = text
                                 /\ next.v = q.v /\ next.t = q.t /\ next.channel = q.channel
  <2>1. [q EXCEPT !.at = "check", !.text = text] \in Request
    BY <1>1, <1>2 DEF Asking, Request
  <2>2. [q EXCEPT !.at = "check", !.text = text] \in RenderType
    BY <2>1 DEF RenderType
  <2>3. QED
    BY <1>1, <1>2, <2>1, <2>2 DEF Asking, Request
<1>4. Faithful(next)
  BY <1>1, <1>2, <1>3 DEF Faithful, Asking
<1>5. QED
  BY <1>1, <1>2, <1>3, <1>4, RenderMoves, CacheUnmoved DEF Hit

LEMMA MissKeeps == ASSUME StoreInv, NEW r \in Renderer, Miss(r) PROVE StoreInv'
<1>1. PICK q : q = renderer[r] /\ q.at = "render" /\ Asking(q)
  BY AskingFacts DEF Miss
<1>2. PICK next \in RenderType : next = [q EXCEPT !.at = "load"] /\ next.at = "load" /\ next.v = q.v /\ next.t = q.t
  <2>1. [q EXCEPT !.at = "load"] \in Request
    BY <1>1 DEF Asking, Request
  <2>2. [q EXCEPT !.at = "load"] \in RenderType
    BY <2>1 DEF RenderType
  <2>3. QED
    BY <1>1, <2>1, <2>2 DEF Asking, Request
<1>3. Faithful(next)
  BY <1>1, <1>2 DEF Faithful, Asking
<1>4. QED
  BY <1>1, <1>2, <1>3, RenderMoves, CacheUnmoved DEF Miss

LEMMA StateHeld == StoreInv => CacheState \in HeldStates(versions)
<1> SUFFICES ASSUME StoreInv PROVE CacheState \in HeldStates(versions)
  OBVIOUS
<1>1. PICK s \in [c : Texts, order : Seq(Place)] : s = CacheState /\ s.c = compiled /\ s.order = insertionOrder
  <2>1. PICK e \in Texts, o \in Seq(Place) : e = compiled /\ o = insertionOrder
    BY DEF StoreInv, CacheHeld
  <2>2. [c |-> e, order |-> o] \in [c : Texts, order : Seq(Place)]
    OBVIOUS
  <2>3. QED
    BY <2>1, <2>2 DEF CacheState
<1>2. QED
  BY <1>1 DEF StoreInv, CacheHeld, HeldStates

LEMMA CacheSet ==
  ASSUME NEW s \in HeldStates(versions), SetCache(s), UNCHANGED tables
  PROVE  CacheHeld'
BY DEF HeldStates, SetCache, CacheHeld, tables, Held, Exists

LEMMA CompileKeeps == ASSUME StoreInv, NEW r \in Renderer, Compile(r) PROVE StoreInv'
<1>1. PICK q : q = renderer[r] /\ q.at = "load" /\ Asking(q)
  BY AskingFacts DEF Compile
<1>2. PICK content : content = versions[q.t][q.v]
  OBVIOUS
<1>3. CASE q.channel \notin DOMAIN content
  BY <1>1, <1>2, <1>3, EndsFree DEF Compile
<1>4. CASE q.channel \in DOMAIN content
  <2>2. PICK key \in Place : /\ key = CompiledKey(q.t, q.v, q.channel) /\ Exists(key, versions)
                             /\ key[1] = q.t /\ key[2] = q.v /\ key[3] = q.channel
    BY <1>1, <1>2, <1>4, AskedText DEF Asking
  <2>3. content[q.channel] \in SUBSET Variable
    BY <1>1, <1>2, <1>4, AskedText DEF Asking
  <2>4. Put(CacheState, key, content[q.channel]) \in HeldStates(versions)
    BY <1>2, <2>2, <2>3, PutKeeps, StateHeld
  <2>5. SetCache(Put(CacheState, key, content[q.channel])) /\ UNCHANGED <<tables, writer, unsettled>>
    BY <1>1, <1>2, <1>4, <2>2 DEF Compile
  <2>6. CacheHeld'
    BY <2>4, <2>5, CacheSet
  <2>7. PICK next \in RenderType : /\ next = [q EXCEPT !.at = "check", !.text = content[q.channel]] /\ next.at = "check"
                                   /\ next.text = content[q.channel] /\ next.v = q.v /\ next.t = q.t /\ next.channel = q.channel
    <3>1. [q EXCEPT !.at = "check", !.text = content[q.channel]] \in Request
      BY <1>1, <2>3 DEF Asking, Request
    <3>2. [q EXCEPT !.at = "check", !.text = content[q.channel]] \in RenderType
      BY <3>1 DEF RenderType
    <3>3. QED
      BY <1>1, <2>3, <3>1, <3>2 DEF Asking, Request
  <2>8. Faithful(next)
    BY <1>1, <1>2, <1>4, <2>7 DEF Faithful, Asking
  <2>9. Move(r, next)
    BY <1>1, <1>2, <1>4, <2>7 DEF Compile
  <2>10. QED
    BY <2>5, <2>6, <2>7, <2>8, <2>9, RenderMoves
<1>5. QED
  BY <1>3, <1>4

\* A settled template's rows name all that its last version uses.
LEMMA UsesAreRows ==
  ASSUME StoreInv, NEW t \in Template \ unsettled, NEW ch \in DOMAIN versions[t][Len(versions[t])], Len(versions[t]) # 0
  PROVE  versions[t][Len(versions[t])][ch] \subseteq variables[t]
<1>1. Present(t)
  BY DEF StoreInv, TablesHeld
<1>2. variables[t] = Uses(versions[t][Len(versions[t])])
  BY <1>1 DEF StoreInv, TablesHeld
<1>3. QED
  BY <1>2 DEF Uses

LEMMA ValidateKeeps == ASSUME StoreInv, NEW r \in Renderer, NEW data \in SUBSET Variable, ValidateRequiredVariables(r, data) PROVE StoreInv'
<1>1. PICK q : q = renderer[r] /\ q.at = "check" /\ Asking(q)
  BY AskingFacts DEF ValidateRequiredVariables
<1>2. CASE ~Complete(q.t, data)
  BY <1>1, <1>2, EndsFree DEF ValidateRequiredVariables
<1>3. CASE Complete(q.t, data)
  <2>1. PICK next \in RenderType : /\ next = [q EXCEPT !.at = "done", !.data = data] /\ next.at = "done" /\ next.data = data
                                   /\ next.text = q.text /\ next.v = q.v /\ next.t = q.t /\ next.channel = q.channel
    <3>1. [q EXCEPT !.at = "done", !.data = data] \in Request
      BY <1>1 DEF Asking, Request
    <3>2. [q EXCEPT !.at = "done", !.data = data] \in RenderType
      BY <3>1 DEF RenderType
    <3>3. QED
      BY <1>1, <3>1, <3>2 DEF Asking, Request
  <2>2. q.channel \in DOMAIN versions[q.t][q.v] /\ q.text = versions[q.t][q.v][q.channel] /\ q.v \in 1..Len(versions[q.t])
    BY <1>1 DEF Asking, Faithful
  <2>3. ASSUME q.t \notin unsettled, q.v = Len(versions[q.t]) PROVE q.text \subseteq data
    <3>1. q.text \subseteq variables[q.t]
      BY <1>1, <2>2, <2>3, UsesAreRows DEF Asking
    <3>2. QED
      BY <1>3, <3>1 DEF Complete
  <2>4. Faithful(next)
    BY <2>1, <2>2, <2>3 DEF Faithful
  <2>5. QED
    BY <1>1, <1>3, <2>1, <2>4, RenderMoves, CacheUnmoved DEF ValidateRequiredVariables
<1>4. QED
  BY <1>2, <1>3

LEMMA PreviewKeeps == ASSUME StoreInv, NEW r \in Renderer, Preview(r) PROVE StoreInv'
<1>1. PICK q : q = renderer[r] /\ q.at = "preview" /\ Asking(q)
  BY AskingFacts DEF Preview
<1>2. PICK content : content = versions[q.t][q.v]
  OBVIOUS
<1>3. PICK ch \in DOMAIN content : \E text :
        /\ text = IF CompiledKey(q.t, q.v, ch) \in DOMAIN compiled THEN compiled[CompiledKey(q.t, q.v, ch)] ELSE content[ch]
        /\ Move(r, [q EXCEPT !.at = "done", !.channel = ch, !.data = Variable, !.text = text])
  BY <1>1, <1>2 DEF Preview
<1>4. PICK text :
        /\ text = IF CompiledKey(q.t, q.v, ch) \in DOMAIN compiled THEN compiled[CompiledKey(q.t, q.v, ch)] ELSE content[ch]
        /\ Move(r, [q EXCEPT !.at = "done", !.channel = ch, !.data = Variable, !.text = text])
  BY <1>3
<1>5. ch \in Channel /\ content[ch] \in SUBSET Variable
  BY <1>1, <1>2, AskedText, ContentOf DEF StoreInv, TablesHeld, Asking
<1>6. text = content[ch]
  BY <1>1, <1>2, <1>4, <1>5, HitText DEF Asking
<1>7. CacheHeld'
  <2>1. PICK s : s = Fill(CacheState, q.t, q.v) /\ s \in HeldStates(versions)
    BY <1>1, StateHeld, FillKeeps DEF StoreInv, TablesHeld, Asking
  <2>2. SetCache(s) /\ UNCHANGED tables
    BY <1>1, <2>1 DEF Preview
  <2>3. QED
    BY <2>1, <2>2, CacheSet
<1>8. PICK next \in RenderType : /\ next = [q EXCEPT !.at = "done", !.channel = ch, !.data = Variable, !.text = text]
                                 /\ next.at = "done" /\ next.channel = ch /\ next.data = Variable /\ next.text = text
                                 /\ next.v = q.v /\ next.t = q.t
  <2>1. [q EXCEPT !.at = "done", !.channel = ch, !.data = Variable, !.text = text] \in Request
    BY <1>1, <1>5, <1>6 DEF Asking, Request
  <2>2. [q EXCEPT !.at = "done", !.channel = ch, !.data = Variable, !.text = text] \in RenderType
    BY <2>1 DEF RenderType
  <2>3. QED
    BY <1>1, <1>5, <1>6, <2>1, <2>2 DEF Asking, Request
<1>9. Faithful(next)
  BY <1>1, <1>2, <1>5, <1>6, <1>8 DEF Faithful, Asking
<1>10. QED
  BY <1>4, <1>7, <1>8, <1>9, RenderMoves DEF Preview

LEMMA StoreStep == StoreInv /\ [StoreNext]_storeVars => StoreInv'
<1> SUFFICES ASSUME StoreInv, [StoreNext]_storeVars PROVE StoreInv'
  OBVIOUS
<1>1. CASE UNCHANGED storeVars
  BY <1>1 DEF storeVars, StoreInv, TablesHeld, Present, CacheHeld, Held, Exists, WritersHeld, Reads, HasRead, Alone, RendersHeld, Faithful
<1>2. ASSUME NEW w \in Writer, Abandon(w) PROVE StoreInv'
  BY <1>2, Refused DEF Abandon
<1>3. ASSUME NEW r \in Renderer, TimesOut(r) PROVE StoreInv'
  BY <1>3, EndsFree DEF TimesOut
<1>4. ASSUME NEW w \in Writer, NEW n \in 1..MaxVersions, Rollback(w, n) PROVE StoreInv'
  <2>1. n \in Nat
    BY <1>4
  <2>2. QED
    BY <1>4, <2>1, RollbackKeeps
<1>5. ASSUME NEW r \in Renderer, NEW t \in Template, NEW use \in {"render", "preview"}, NEW number \in 0..1, NEW ch \in Channel,
             BeginRender(r, t, ch, use, number)
      PROVE  StoreInv'
  BY <1>5, BeginRenderKeeps
<1>6. QED
  BY <1>1, <1>2, <1>3, <1>4, <1>5, BeginCreateKeeps, BeginWriteKeeps, NumberKeeps, CreateKeeps, CommitKeeps, DeleteKeeps, InvalidateKeeps,
     ResolveKeeps, HitKeeps, MissKeeps, CompileKeeps, ValidateKeeps, PreviewKeeps, RestartKeeps DEF StoreNext

LEMMA StoreIsConsistent == StoreInv => StoreConsistent
<1> SUFFICES ASSUME StoreInv PROVE StoreConsistent
  OBVIOUS
<1>1. StoreTypes
  BY DEF StoreInv, TablesHeld, CacheHeld, Held, Present, NoRow, TemplateRow, StoreTypes
<1>2. OrderIsCache
  <2>1. DOMAIN compiled \subseteq Place /\ \A i \in DOMAIN insertionOrder : insertionOrder[i] \in Place
    BY DEF StoreInv, CacheHeld, Texts
  <2>2. ToSet(insertionOrder) = DOMAIN compiled
    <3>1. \A k : k \in ToSet(insertionOrder) <=> \E i \in DOMAIN insertionOrder : insertionOrder[i] = k
      BY DEF ToSet
    <3>2. \A k : k \in ToSet(insertionOrder) <=> k \in DOMAIN compiled
      BY <2>1, <3>1 DEF StoreInv, CacheHeld, Held
    <3>3. QED
      BY <3>2
  <2>3. QED
    BY <2>2 DEF OrderIsCache, IsInjective, StoreInv, CacheHeld, Held
<1>3. RenderedAsNamed /\ RenderIsComplete
  BY DEF StoreInv, RendersHeld, Faithful, RenderedAsNamed, RenderIsComplete
<1>4. VariablesAreCurrent
  BY DEF StoreInv, TablesHeld, VariablesAreCurrent
<1>5. QED
  BY <1>1, <1>2, <1>3, <1>4 DEF StoreConsistent

\* Every text rendered is the one of the version and channel its answer names, and a settled template has the variables
\* of its current version (see StoreConsistent).
THEOREM StoreHolds == StoreSpec => []StoreConsistent
<1>1. StoreSpec => []StoreInv
  BY StoreStart, StoreStep, PTL DEF StoreSpec
<1>2. QED
  BY <1>1, StoreIsConsistent, PTL

\* A deleted template comes back only by a request that had read it while it was active (see DeletedStaysDeleted).
THEOREM DeletedStay == StoreSpec => [][DeletedStaysDeleted]_storeVars
<1>1. StoreSpec => []StoreInv
  BY StoreStart, StoreStep, PTL DEF StoreSpec
<1>2. ASSUME StoreInv, StoreInv', StoreNext PROVE DeletedStaysDeleted
  <2> SUFFICES ASSUME NEW t \in Template, rows[t] # NoRow, ~rows[t].active, rows'[t].active
               PROVE  \E w \in Writer : writer[w] # writer'[w] /\ writer[w].at \in {"commit", "rollback"} /\ writer[w].read.active
    BY DEF DeletedStaysDeleted
  <2>1. rows'[t] # rows[t]
    OBVIOUS
  <2>2. rows \in [Template -> TemplateRow] /\ writer \in [Writer -> WriterType]
    BY <1>2 DEF StoreInv, TablesHeld, WritersHeld
  <2>3. ASSUME NEW w \in Writer, NEW content \in Content, Create(w, content) PROVE FALSE
    <3>1. writer[w].t = t /\ rows[writer[w].t] = NoRow
      BY <2>1, <2>2, <2>3 DEF Create, Refuse, tables
    <3>2. QED
      BY <3>1
  <2>4. ASSUME NEW w \in Writer, writer[w].at \in {"commit", "rollback", "delete"},
               NEW written, rows' = [rows EXCEPT ![writer[w].t] = written], written.active => writer[w].at # "delete" /\ writer[w].read.active,
               writer' = [writer EXCEPT ![w] = [at |-> "invalidate", t |-> writer[w].t]]
        PROVE  writer[w] # writer'[w] /\ writer[w].at \in {"commit", "rollback"} /\ writer[w].read.active
    <3>1. writer[w].t = t /\ rows'[t] = written
      BY <2>1, <2>2, <2>4
    <3>2. writer'[w].at = "invalidate"
      BY <2>2, <2>4
    <3>3. QED
      BY <2>4, <3>1, <3>2
  <2>5. ASSUME NEW w \in Writer, Commit(w) PROVE writer[w] # writer'[w] /\ writer[w].at \in {"commit", "rollback"} /\ writer[w].read.active
    <3>1. PICK u : u = writer[w] /\ u.at = "commit" /\ u.read \in TemplateRow
      BY <2>2, <2>5 DEF Commit, WriterType, Free
    <3>2. [u.read EXCEPT !.current = u.number].active = u.read.active
      BY <3>1 DEF TemplateRow
    <3>3. /\ rows' = [rows EXCEPT ![writer[w].t] = [u.read EXCEPT !.current = u.number]]
          /\ writer' = [writer EXCEPT ![w] = [at |-> "invalidate", t |-> writer[w].t]]
      BY <2>1, <2>5, <3>1 DEF Commit, Refuse, Step, tables
    <3>4. QED
      BY <2>4, <3>1, <3>2, <3>3
  <2>6. ASSUME NEW w \in Writer, Delete(w) PROVE FALSE
    <3>1. PICK u : u = writer[w] /\ u.at = "delete" /\ u.read \in TemplateRow /\ u.t \in Template
      BY <2>2, <2>6 DEF Delete, WriterType, Free
    <3>2. ~[u.read EXCEPT !.active = FALSE].active
      BY <3>1 DEF TemplateRow
    <3>3. rows' = [rows EXCEPT ![u.t] = [u.read EXCEPT !.active = FALSE]]
      BY <2>6, <3>1 DEF Delete
    <3>4. u.t = t
      BY <2>1, <2>2, <3>3
    <3>5. QED
      BY <2>2, <3>2, <3>3, <3>4
  <2>7. ASSUME NEW w \in Writer, NEW n \in 1..MaxVersions, Rollback(w, n)
        PROVE  writer[w] # writer'[w] /\ writer[w].at \in {"commit", "rollback"} /\ writer[w].read.active
    <3>1. PICK u : u = writer[w] /\ u.at = "rollback" /\ u.read \in TemplateRow
      BY <2>2, <2>7 DEF Rollback, WriterType, Free
    <3>2. [u.read EXCEPT !.current = n].active = u.read.active
      BY <3>1 DEF TemplateRow
    <3>3. /\ rows' = [rows EXCEPT ![writer[w].t] = [u.read EXCEPT !.current = n]]
          /\ writer' = [writer EXCEPT ![w] = [at |-> "invalidate", t |-> writer[w].t]]
      BY <2>1, <2>7, <3>1 DEF Rollback, Refuse, Step, tables
    <3>4. QED
      BY <2>4, <3>1, <3>2, <3>3
  <2>8. \/ \E w \in Writer : Commit(w) \/ Delete(w) \/ \E content \in Content : Create(w, content)
        \/ \E w \in Writer, n \in 1..MaxVersions : Rollback(w, n)
    BY <1>2, <2>1 DEF StoreNext, BeginCreate, BeginWrite, Number, Abandon, Invalidate, Refuse, BeginRender, ResolveVersion, Hit, Miss,
                      Compile, ValidateRequiredVariables, Preview, TimesOut, Restart, tables
  <2>9. QED
    BY <2>3, <2>5, <2>6, <2>7, <2>8
<1>3. StoreInv /\ StoreInv' /\ [StoreNext]_storeVars => [DeletedStaysDeleted]_storeVars
  BY <1>2
<1>4. QED
  BY <1>1, <1>3, PTL DEF StoreSpec
=============================================================================
