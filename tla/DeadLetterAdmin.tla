-------------------------- MODULE DeadLetterAdmin --------------------------
(***************************************************************************)
(* Dead-letter administration of the audit-service: entries captured by    *)
(* the consumer, status changes and reprocessing asked for over HTTP, and  *)
(* the nightly cleanup.  A request reads the entry, decides, and writes it *)
(* later without a lock or a condition, so requests about one entry        *)
(* interleave.                                                             *)
(***************************************************************************)
EXTENDS Naturals, FiniteSets

CONSTANTS
  Entry, Request,
  RetentionDays,
  MaxDay,         \* bound: days
  MaxPublished    \* bound: republished payloads of an entry

VARIABLES
  status,         \* status of the row; "absent" before its capture, "deleted" after cleanup
  resolvedAt,     \* day, or 0: never resolved
  published,      \* times the payload was republished
  request,        \* the requests: what each asks and has read
  today,
  overlapped      \* history: entries two requests worked on at once, or one failed half-way

vars == <<status, resolvedAt, published, request, today, overlapped>>

Row == {"pending", "investigated", "reprocessed", "discarded"}
VALID_TRANSITIONS ==
  [s \in Row |-> CASE s = "pending" -> {"investigated", "discarded"}
                   [] s = "investigated" -> {"reprocessed", "discarded"}
                   [] OTHER -> {}]
TERMINAL_STATUSES == {"reprocessed", "discarded"}

Idle == [pc |-> "idle"]
On(e) == {r \in Request : request[r].pc # "idle" /\ request[r].entry = e}

Init ==
  /\ status = [e \in Entry |-> "absent"]
  /\ resolvedAt = [e \in Entry |-> 0]
  /\ published = [e \in Entry |-> 0]
  /\ request = [r \in Request |-> Idle]
  /\ today = 1
  /\ overlapped = {}

\* The dlq consumer stores an entry.
Capture(e) ==
  /\ status[e] = "absent"
  /\ status' = [status EXCEPT ![e] = "pending"]
  /\ UNCHANGED <<resolvedAt, published, request, today, overlapped>>

Begin(r, e, target, pc) ==
  /\ request[r] = Idle
  /\ request' = [request EXCEPT ![r] = [pc |-> pc, entry |-> e, target |-> target, seen |-> status[e]]]
  /\ overlapped' = IF On(e) = {} THEN overlapped ELSE overlapped \cup {e}
  /\ UNCHANGED <<status, resolvedAt, published, today>>

\* PATCH: findById and the table of transitions; an unknown entry or target is refused.
UpdateStatus(r, e, target) ==
  /\ status[e] \in Row
  /\ target \in VALID_TRANSITIONS[status[e]]
  /\ Begin(r, e, target, "write")

\* Mutant: reprocessing does not look at the status.
Reprocess_AnyStatus(r, e) == status[e] \in Row /\ Begin(r, e, "reprocessed", "publish")

\* POST reprocess: only an investigated entry.
Reprocess(r, e) == status[e] = "investigated" /\ Begin(r, e, "reprocessed", "publish")

Republish(r) ==
  /\ request[r].pc = "publish"
  /\ published[request[r].entry] < MaxPublished
  /\ published' = [published EXCEPT ![request[r].entry] = @ + 1]
  /\ request' = [request EXCEPT ![r].pc = "write"]
  /\ UNCHANGED <<status, resolvedAt, today, overlapped>>

Resolved(target, day) == IF target \in TERMINAL_STATUSES THEN today ELSE day

\* updateEntry: an UPDATE by id, which finds nothing once the row is deleted.
Write(r) ==
  LET e == request[r].entry
      target == request[r].target
  IN /\ request[r].pc = "write"
     /\ IF status[e] \in Row
        THEN /\ status' = [status EXCEPT ![e] = target]
             /\ resolvedAt' = [resolvedAt EXCEPT ![e] = Resolved(target, @)]
        ELSE UNCHANGED <<status, resolvedAt>>
     /\ request' = [request EXCEPT ![r] = Idle]
     /\ UNCHANGED <<published, today, overlapped>>

\* A query or the publish fails, or the process stops.
Fail(r) ==
  /\ request[r] # Idle
  /\ overlapped' = overlapped \cup {request[r].entry}
  /\ request' = [request EXCEPT ![r] = Idle]
  /\ UNCHANGED <<status, resolvedAt, published, today>>

Expired(e) == status[e] \in TERMINAL_STATUSES /\ resolvedAt[e] + RetentionDays < today

\* cleanupDlqEntries, one DELETE.
Cleanup ==
  /\ \E e \in Entry : Expired(e)
  /\ status' = [e \in Entry |-> IF Expired(e) THEN "deleted" ELSE status[e]]
  /\ UNCHANGED <<resolvedAt, published, request, today, overlapped>>

NextDay ==
  /\ today < MaxDay
  /\ today' = today + 1
  /\ UNCHANGED <<status, resolvedAt, published, request, overlapped>>

Next ==
  \/ \E e \in Entry : Capture(e)
  \/ \E r \in Request, e \in Entry :
       Reprocess(r, e) \/ \E target \in Row : UpdateStatus(r, e, target)
  \/ \E r \in Request : Republish(r) \/ Write(r) \/ Fail(r)
  \/ Cleanup
  \/ NextDay

LettersSpec == Init /\ [][Next]_vars

-----------------------------------------------------------------------------

TypeOK ==
  /\ status \in [Entry -> Row \cup {"absent", "deleted"}]
  /\ resolvedAt \in [Entry -> 0 .. MaxDay]
  /\ \A e \in Entry : published[e] \in 0 .. MaxPublished
  /\ \A r \in Request : request[r] = Idle \/ request[r].pc \in {"publish", "write"}
  /\ overlapped \subseteq Entry

\* A resolved entry carries the day of its resolution, whatever requests overlap:
\* without it the cleanup would keep it for ever.
ResolvedIsDated == \A e \in Entry : status[e] \in TERMINAL_STATUSES => resolvedAt[e] > 0

\* The payload goes out twice only when requests about the entry overlapped or one of
\* them failed half-way, and never for an entry nobody had investigated.
RepublishedOnce ==
  \A e \in Entry :
    /\ e \notin overlapped => published[e] <= 1
    /\ published[e] > 0 => status[e] \notin {"absent", "pending"}

\* A resolution is undone only by a request that had read the entry before it, and a
\* deleted entry does not come back.
ResolutionIsFinal ==
  \A e \in Entry :
    /\ status[e] \in TERMINAL_STATUSES /\ status'[e] # status[e] =>
         status'[e] = "deleted" \/ e \in overlapped
    /\ status[e] = "deleted" => status'[e] = "deleted"

\* An entry that still waits for a decision is never cleaned up.
OnlyResolvedDeleted ==
  \A e \in Entry : status'[e] = "deleted" => status[e] \in TERMINAL_STATUSES \cup {"deleted"}

\* A resolved dead letter carries the day of its resolution whatever requests overlap; a payload goes out twice
\* only when requests overlapped or failed half-way; a resolution is undone only by a request that read the
\* entry before it; and an entry that waits for a decision is never cleaned up.
DeadLettersKept ==
  /\ [](TypeOK /\ ResolvedIsDated /\ RepublishedOnce)
  /\ [][ResolutionIsFinal /\ OnlyResolvedDeleted]_vars
=============================================================================
