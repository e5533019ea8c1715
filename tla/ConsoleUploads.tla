--------------------------- MODULE ConsoleUploads ---------------------------
(***************************************************************************)
(* The console's bulk-upload page and the page of one upload: the drop     *)
(* zone, the history that asks again while a row of it is active, and the  *)
(* detail page that polls the status while the upload it first got is      *)
(* active. The upload's life in the service is that of BulkUpload, one     *)
(* step a status.  The pages share no state with the screens of            *)
(* ConsoleCache, whose bounds they use: None is no data or no file too.    *)
(***************************************************************************)
EXTENDS ConsoleCache

CONSTANT MaxRetries    \* bound: retries of uploads

VARIABLES
  upload,        \* the status of the upload in the service; "none" before it and "deleted" after
  page,          \* the open page
  selected,      \* the file in the drop zone
  creating,      \* the request that creates an upload
  list, detail, polled,           \* cached answers: of the list, the upload and its status
  uploadFetch,         \* the requests for them
  created, retries, uploadVisits, uploadFaults,
  clean,         \* history: no upload was answered with an error
  uploadRefused        \* history: why the service refused a file

uploadVars == <<upload, page, selected, creating, list, detail, polled, uploadFetch, created, retries,
                uploadVisits, uploadFaults, clean, uploadRefused>>

ACTIVE_STATUSES == {"queued", "processing"}
Final == {"completed", "partial", "failed", "cancelled"}
\* A file as the browser tells of it, a type may be missing: one fault at most.
File == {f \in [xlsx : BOOLEAN, small : BOOLEAN, typed : BOOLEAN] : (f.xlsx \/ (f.small /\ f.typed)) /\ (f.small \/ f.typed)}
Keys == {"list", "detail", "polled"}

\* No answer is none of the statuses.
ASSUME UploadsAssumption == None \notin File /\ None \notin ACTIVE_STATUSES \cup Final \cup {"none", "deleted"}

UploadsInit ==
  /\ upload = "none" /\ page = "history" /\ selected = None /\ creating = Idle
  /\ list = None /\ detail = None /\ polled = None
  /\ uploadFetch = [k \in Keys |-> Idle]
  /\ created = 0 /\ retries = 0 /\ uploadVisits = 0 /\ uploadFaults = 0 /\ clean = TRUE /\ uploadRefused = None

ValidateFile(file) == file.xlsx /\ file.small

\* By drop or by the file dialog, also while an upload is under way; a bad file leaves none selected.
\* Bound: none once the upload is done.
HandleFile(file) ==
  /\ page = "history" /\ (created = 0 \/ creating # Idle) /\ selected' = IF ValidateFile(file) THEN file ELSE None
  /\ UNCHANGED <<upload, page, creating, list, detail, polled, uploadFetch, created, retries, uploadVisits,
                 uploadFaults, clean, uploadRefused>>
ClearFile ==
  /\ page = "history" /\ selected # None /\ creating = Idle /\ selected' = None
  /\ UNCHANGED <<upload, page, creating, list, detail, polled, uploadFetch, created, retries, uploadVisits,
                 uploadFaults, clean, uploadRefused>>
\* Bound: one upload is created.
HandleUpload ==
  /\ page = "history" /\ selected # None /\ creating = Idle /\ created = 0
  /\ creating' = [pc |-> "sent", file |-> selected, left |-> FALSE]
  /\ UNCHANGED <<upload, page, selected, list, detail, polled, uploadFetch, created, retries, uploadVisits,
                 uploadFaults, clean, uploadRefused>>

\* The service's own checks: extension, type, size.
ServiceCreates ==
  /\ creating.pc = "sent"
  /\ LET file == creating.file
         reason == IF ~file.xlsx THEN "BUS-003" ELSE IF ~file.typed THEN "BUS-013" ELSE IF ~file.small THEN "BUS-004" ELSE None
     IN /\ uploadRefused' = reason
        /\ upload' = IF reason = None THEN "queued" ELSE upload
        /\ created' = IF reason = None THEN created + 1 ELSE created
        /\ creating' = [creating EXCEPT !.pc = IF reason = None THEN "created" ELSE "refused"]
  /\ UNCHANGED <<page, selected, list, detail, polled, uploadFetch, retries, uploadVisits, uploadFaults, clean>>

\* mutate by a filter, with no data: the cached lists are emptied and asked for again.
Listed == None
\* The file that is selected by now is unselected, whichever it is.
CreateAnswered ==
  /\ creating.pc = "created"
  /\ list' = Listed
  /\ uploadFetch' = IF Listed = None THEN [uploadFetch EXCEPT !["list"] = IF page = "history" THEN [pc |-> "sent"] ELSE Idle] ELSE uploadFetch
  /\ selected' = IF creating.left THEN selected ELSE None
  /\ creating' = Idle
  /\ UNCHANGED <<upload, page, detail, polled, created, retries, uploadVisits, uploadFaults, clean, uploadRefused>>
\* "Upload failed. Please try again.": refused, or only the answer was lost.
CreateFails ==
  /\ \/ creating.pc = "refused" /\ UNCHANGED <<uploadFaults, clean>>
     \/ creating.pc = "created" /\ uploadFaults < MaxFaults /\ uploadFaults' = uploadFaults + 1 /\ clean' = FALSE
  /\ creating' = Idle
  /\ UNCHANGED <<upload, page, selected, list, detail, polled, uploadFetch, created, retries, uploadVisits,
                 uploadRefused>>

\* The upload in the service.
Progress ==
  /\ upload \in ACTIVE_STATUSES
  /\ upload' \in IF upload = "queued" THEN {"processing"} ELSE Final
  /\ UNCHANGED <<page, selected, creating, list, detail, polled, uploadFetch, created, retries, uploadVisits,
                 uploadFaults, clean, uploadRefused>>

\* The detail page polls while the upload, as the page first got it, is active.
Polling == detail \in ACTIVE_STATUSES
Shown == IF Polling /\ polled # None THEN polled ELSE detail

Ask(k) == IF uploadFetch[k].pc = "idle" THEN [pc |-> "sent"] ELSE uploadFetch[k]
OpenHistory ==
  /\ page # "history" /\ uploadVisits < MaxVisits /\ page' = "history" /\ uploadVisits' = uploadVisits + 1
  /\ uploadFetch' = [uploadFetch EXCEPT !["list"] = Ask("list")] /\ selected' = None
  /\ UNCHANGED <<upload, creating, list, detail, polled, created, retries, uploadFaults, clean, uploadRefused>>
OpenDetail ==
  /\ page = "history" /\ list \notin {None, "none", "deleted"} /\ uploadVisits < MaxVisits /\ uploadVisits' = uploadVisits + 1
  /\ page' = "detail" /\ uploadFetch' = [uploadFetch EXCEPT !["detail"] = Ask("detail")] /\ selected' = None
  /\ creating' = IF creating = Idle THEN Idle ELSE [creating EXCEPT !.left = TRUE]
  /\ UNCHANGED <<upload, list, detail, polled, created, retries, uploadFaults, clean, uploadRefused>>

UploadRead(k) ==
  /\ uploadFetch[k].pc = "sent" /\ uploadFetch' = [uploadFetch EXCEPT ![k] = [pc |-> "read", data |-> upload]]
  /\ UNCHANGED <<upload, page, selected, creating, list, detail, polled, created, retries, uploadVisits,
                 uploadFaults, clean, uploadRefused>>
UploadReceived(k) ==
  /\ uploadFetch[k].pc = "read"
  /\ list' = IF k = "list" THEN uploadFetch[k].data ELSE list
  /\ detail' = IF k = "detail" THEN uploadFetch[k].data ELSE detail
  /\ polled' = IF k = "polled" THEN uploadFetch[k].data ELSE polled
  /\ uploadFetch' = [uploadFetch EXCEPT ![k] = Idle]
  /\ UNCHANGED <<upload, page, selected, creating, created, retries, uploadVisits, uploadFaults, clean,
                 uploadRefused>>

\* The first mount of the history, and one whose rows were emptied.
Mount ==
  /\ page = "history" /\ list = None /\ uploadFetch["list"].pc = "idle" /\ uploadFetch' = [uploadFetch EXCEPT !["list"] = [pc |-> "sent"]]
  /\ UNCHANGED <<upload, page, selected, creating, list, detail, polled, created, retries, uploadVisits,
                 uploadFaults, clean, uploadRefused>>
\* Mutant: an upload that is processing is not asked for.
HistoryInterval_Queued ==
  /\ page = "history" /\ list = "queued" /\ uploadFetch' = [uploadFetch EXCEPT !["list"] = [pc |-> "sent"]]
  /\ UNCHANGED <<upload, page, selected, creating, list, detail, polled, created, retries, uploadVisits,
                 uploadFaults, clean, uploadRefused>>
\* Each interval of the two pages: the history's gives up the request under way, the status' one waits for it.
HistoryInterval ==
  /\ page = "history" /\ list \in ACTIVE_STATUSES /\ uploadFetch' = [uploadFetch EXCEPT !["list"] = [pc |-> "sent"]]
  /\ UNCHANGED <<upload, page, selected, creating, list, detail, polled, created, retries, uploadVisits,
                 uploadFaults, clean, uploadRefused>>
StatusInterval ==
  /\ page = "detail" /\ Polling /\ uploadFetch["polled"].pc = "idle" /\ uploadFetch' = [uploadFetch EXCEPT !["polled"] = [pc |-> "sent"]]
  /\ UNCHANGED <<upload, page, selected, creating, list, detail, polled, created, retries, uploadVisits,
                 uploadFaults, clean, uploadRefused>>

\* Of a row of the history whatever its status, or the detail page's button for what it shows;
\* neither asks for the upload again, and the service refuses all but two statuses (BUS-016).
Retry ==
  /\ \/ page = "history" /\ list \notin {None, "none", "deleted"}
     \/ page = "detail" /\ Shown \in {"failed", "partial"}
  /\ retries < MaxRetries /\ retries' = retries + 1
  /\ upload' = IF upload \in {"failed", "partial"} THEN "queued" ELSE upload
  /\ UNCHANGED <<page, selected, creating, list, detail, polled, uploadFetch, created, uploadVisits,
                 uploadFaults, clean, uploadRefused>>
\* An active upload is cancelled, another one deleted; the history asks again.
HandleDelete ==
  /\ page = "history" /\ list \notin {None, "none", "deleted"} /\ upload # "deleted"
  /\ upload' = IF upload \in ACTIVE_STATUSES THEN "cancelled" ELSE "deleted"
  /\ uploadFetch' = [uploadFetch EXCEPT !["list"] = [pc |-> "sent"]]
  /\ UNCHANGED <<page, selected, creating, list, detail, polled, created, retries, uploadVisits, uploadFaults,
                 clean, uploadRefused>>

UploadsNext ==
  \/ \E file \in File : HandleFile(file)
  \/ ClearFile \/ HandleUpload \/ ServiceCreates \/ CreateAnswered \/ CreateFails \/ Progress \/ OpenHistory \/ OpenDetail
  \/ \E k \in Keys : UploadRead(k) \/ UploadReceived(k)
  \/ Mount \/ HistoryInterval \/ StatusInterval \/ Retry \/ HandleDelete

UploadsSpec == UploadsInit /\ [][UploadsNext]_uploadVars

-----------------------------------------------------------------------------

\* upload-zone.tsx, uploads.service.ts: the service refuses a file of the drop zone only for a type the browser did not tell.
RefusedForType == uploadRefused \in {None, "BUS-013"}

\* use-bulk-upload.ts: the history never shows a list from before an upload that was answered, over
\* requests that were sent before it, retries and deletes.
CreatedIsListed ==
  clean /\ page = "history" /\ created > 0 /\ creating = Idle /\ list # None => list # "none"

\* At rest a page shows its own changes: the list after a save, a switch and its row, a form that starts from a
\* row no older than its request, the history after a creation was answered; and the service refuses a file
\* of the drop zone for an untold type only.
ScreensFresh ==
  /\ OwnChangesShown /\ FirstFormIsFresh /\ SwitchAgrees
  /\ CreatedIsListed /\ RefusedForType

\* upload-detail.tsx: a detail page that got the upload while it was active, and stays open, shows its final status
\* in the end, unless the upload is retried or deleted.
DetailCatchesUp ==
  (page = "detail" /\ detail \in ACTIVE_STATUSES /\ upload \in Final)
    ~> (Shown = upload \/ page # "detail" \/ upload \notin Final)

\* upload-history.tsx: a history that shows an active upload shows its final status in the end, if
\* some request is answered within an interval, and no retry came behind a request that was sent before it.
HistoryCatchesUp ==
  (page = "history" /\ list \in ACTIVE_STATUSES /\ upload \in Final /\ retries = 0)
    ~> (list = upload \/ page # "history" \/ upload \notin Final)
=============================================================================
