---------------------------- MODULE EventIngestion ----------------------------
(***************************************************************************)
(* The event-ingestion-service: EventProcessingService.processEvent, run   *)
(* by the three queue consumers with their retries and by the webhook      *)
(* endpoint.                                                               *)
(*                                                                         *)
(* An event is named by its key (source_id, source_event_id).  Events      *)
(* without a sourceEventId are neither deduplicated nor retried apart and  *)
(* are left out; so is the end of the deduplication window, after which    *)
(* the insert still finds the conflict.                                    *)
(***************************************************************************)
EXTENDS Integers, FiniteSets

CONSTANTS
  Event,
  Copies,       \* Copies[e]: queues that the routing key of e is bound to
  Consumer,     \* messages handled at a time by the consumers of all queues
  Request,      \* webhook requests, each made once at most
  EventOf,      \* EventOf[r]: the event that request r submits
  MaxRetries,   \* rabbitmq.dlqMaxRetries
  MaxFaults     \* bound: crashes, refused republishes and unanswered inserts

ASSUME IngestionAssumption ==
  /\ Copies \in [Event -> Nat]
  /\ EventOf \in [Request -> Event]
  /\ Consumer \cap Request = {} /\ IsFiniteSet(Consumer)
  /\ MaxRetries \in Nat
  /\ MaxFaults \in Nat

VARIABLES
  ready,      \* copies of the message of an event in its queues, by x-retry-count
  dead,       \* events with a copy in the dead-letter queue
  job,        \* state of each processEvent
  row,        \* events.status of the row of an event, "none" without a row
  sent,       \* normalized messages published for an event, counted up to 2
  faults

vars == <<ready, dead, job, row, sent, faults>>

Retry  == 0 .. MaxRetries
Job    == Consumer \cup Request
Owning == {"publish", "savePublished", "saveFailed"}    \* past the insert
Busy   == Owning \cup {"lookup", "insert", "backoff", "ack", "nack"}
Idle   == [st |-> "idle"]
Holds(j) == job[j].st \in Busy

Init ==
  /\ ready = [m \in Event \X Retry |-> IF m[2] = 0 THEN Copies[m[1]] ELSE 0]
  /\ dead = {}
  /\ job = [j \in Job |-> Idle]
  /\ row = [e \in Event |-> "none"]
  /\ sent = [e \in Event |-> 0]
  /\ faults = 0

Goto(j, st) == job' = [job EXCEPT ![j].st = st]

\* The job ends: an answer for a request, an outcome for a message.  A retryable
\* error of a message is retried until its retries are used up (retryOrDlq).
Succeed(j) == Goto(j, IF j \in Request THEN "accepted" ELSE "ack")
Refuse(j)  == Goto(j, IF j \in Request THEN "refused" ELSE "nack")

Fail(j)    == Goto(j, IF j \in Request THEN "refused"
                      ELSE IF job[j].k < MaxRetries THEN "backoff" ELSE "nack")

Published(e) == sent' = [sent EXCEPT ![e] = IF @ < 2 THEN @ + 1 ELSE @]
Stored(e, status) == row' = [row EXCEPT ![e] = status]

-----------------------------------------------------------------------------

TakeMessage(c, e, k) ==
  /\ job[c] = Idle
  /\ ready[<<e, k>>] > 0
  /\ ready' = [ready EXCEPT ![<<e, k>>] = @ - 1]
  /\ job' = [job EXCEPT ![c] = [st |-> "lookup", e |-> e, k |-> k]]
  /\ UNCHANGED <<dead, row, sent, faults>>

\* POST /webhooks/events; the caller may be gone when the answer is ready.
Post(r) ==
  /\ job[r] = Idle
  /\ job' = [job EXCEPT ![r] = [st |-> "lookup", e |-> EventOf[r], k |-> 0]]
  /\ UNCHANGED <<ready, dead, row, sent, faults>>

\* Unknown source, no mapping, invalid payload or a required field missing after
\* the normalization: not retried.
Reject(j) ==
  /\ job[j].st \in {"lookup", "insert"}
  /\ Refuse(j)
  /\ UNCHANGED <<ready, dead, row, sent, faults>>

\* checkDuplicate: the row of the key, whatever its status.
CheckDuplicate(j) ==
  /\ job[j].st = "lookup"
  /\ IF row[job[j].e] = "none" THEN Goto(j, "insert") ELSE Succeed(j)
  /\ UNCHANGED <<ready, dead, row, sent, faults>>

\* Mutant: the conflict is not seen, as if the key were not unique.
CreateEvent_Unchecked(j) ==
  /\ job[j].st = "insert"
  /\ Stored(job[j].e, "received")
  /\ Goto(j, "publish")
  /\ UNCHANGED <<ready, dead, sent, faults>>

\* Mutant: the row is born with its final status.
CreateEvent_AsPublished(j) ==
  /\ job[j].st = "insert"
  /\ IF row[job[j].e] = "none"
     THEN Stored(job[j].e, "published") /\ Goto(j, "publish")
     ELSE Succeed(j) /\ UNCHANGED row
  /\ UNCHANGED <<ready, dead, sent, faults>>

\* INSERT ... ON CONFLICT DO NOTHING
CreateEvent(j) ==
  /\ job[j].st = "insert"
  /\ IF row[job[j].e] = "none"
     THEN Stored(job[j].e, "received") /\ Goto(j, "publish")
     ELSE Succeed(j) /\ UNCHANGED row
  /\ UNCHANGED <<ready, dead, sent, faults>>

\* A query before the publish fails, or the rate limit of the source is reached.
LookupFails(j) ==
  /\ job[j].st \in {"lookup", "insert"}
  /\ Fail(j)
  /\ UNCHANGED <<ready, dead, row, sent, faults>>

\* The insert is committed, but its answer is lost with the connection.
CreateEventUnanswered(j) ==
  /\ job[j].st = "insert"
  /\ row[job[j].e] = "none"
  /\ faults < MaxFaults
  /\ faults' = faults + 1
  /\ Stored(job[j].e, "received")
  /\ Fail(j)
  /\ UNCHANGED <<ready, dead, sent>>

PublishNormalized(j) ==
  /\ job[j].st = "publish"
  /\ Published(job[j].e)
  /\ Goto(j, "savePublished")
  /\ UNCHANGED <<ready, dead, row, faults>>

\* A publish or a save that fails may have been carried out all the same.
PublishFails(j) ==
  /\ job[j].st = "publish"
  /\ Published(job[j].e) \/ UNCHANGED sent
  /\ Goto(j, "saveFailed")
  /\ UNCHANGED <<ready, dead, row, faults>>

SavePublished(j) ==
  /\ job[j].st = "savePublished"
  /\ Stored(job[j].e, "published")
  /\ Succeed(j)
  /\ UNCHANGED <<ready, dead, sent, faults>>

\* The catch block around publish and save.
SavePublishedFails(j) ==
  /\ job[j].st = "savePublished"
  /\ Stored(job[j].e, "published") \/ UNCHANGED row
  /\ Goto(j, "saveFailed")
  /\ UNCHANGED <<ready, dead, sent, faults>>

SaveFailed(j) ==
  /\ job[j].st = "saveFailed"
  /\ Stored(job[j].e, "failed") \/ UNCHANGED row
  /\ Fail(j)
  /\ UNCHANGED <<ready, dead, sent, faults>>

(***************************************************************************)
(* The end of a message.  A crash before the acknowledgement redelivers it.*)
(***************************************************************************)
\* publish to the exchange reaches every bound queue, not only the one the message
\* came from.
Republished(c) ==
  [ready EXCEPT ![<<job[c].e, job[c].k + 1>>] = @ + Copies[job[c].e]]

Republish(c) ==
  /\ job[c].st = "backoff"
  /\ ready' = Republished(c)
  /\ Goto(c, "ack")
  /\ UNCHANGED <<dead, row, sent, faults>>

\* The exception leaves the handler and the broker requeues the message.
RepublishFails(c) ==
  /\ job[c].st = "backoff"
  /\ faults < MaxFaults
  /\ faults' = faults + 1
  /\ \E queues \in {ready, Republished(c)} :
       ready' = [queues EXCEPT ![<<job[c].e, job[c].k>>] = @ + 1]
  /\ job' = [job EXCEPT ![c] = Idle]
  /\ UNCHANGED <<dead, row, sent>>

Ack(c) ==
  /\ job[c].st = "ack"
  /\ job' = [job EXCEPT ![c] = Idle]
  /\ UNCHANGED <<ready, dead, row, sent, faults>>

\* Mutant: the broker is asked to requeue the message.
Nack_Requeues(c) ==
  /\ job[c].st = "nack"
  /\ ready' = [ready EXCEPT ![<<job[c].e, job[c].k>>] = @ + 1]
  /\ job' = [job EXCEPT ![c] = Idle]
  /\ UNCHANGED <<dead, row, sent, faults>>

Nack(c) ==
  /\ job[c].st = "nack"
  /\ dead' = dead \cup {job[c].e}
  /\ job' = [job EXCEPT ![c] = Idle]
  /\ UNCHANGED <<ready, row, sent, faults>>

Held(m) == {c \in Consumer : Holds(c) /\ <<job[c].e, job[c].k>> = m}

Crash ==
  /\ faults < MaxFaults
  /\ faults' = faults + 1
  /\ ready' = [m \in Event \X Retry |-> ready[m] + Cardinality(Held(m))]
  /\ job' = [j \in Job |-> IF ~ Holds(j) THEN job[j]
                           ELSE IF j \in Consumer THEN Idle ELSE [job[j] EXCEPT !.st = "refused"]]
  /\ UNCHANGED <<dead, row, sent>>

-----------------------------------------------------------------------------

Process(j) ==
  \/ Reject(j) \/ CheckDuplicate(j) \/ CreateEvent(j) \/ LookupFails(j)
  \/ CreateEventUnanswered(j)
  \/ PublishNormalized(j) \/ PublishFails(j)
  \/ SavePublished(j) \/ SavePublishedFails(j) \/ SaveFailed(j)

Consume(c) ==
  \/ \E e \in Event, k \in Retry : TakeMessage(c, e, k)
  \/ Process(c) \/ Republish(c) \/ RepublishFails(c) \/ Ack(c) \/ Nack(c)

Serve(r) == Post(r) \/ Process(r)

Next == \/ \E c \in Consumer : Consume(c)
        \/ \E r \in Request : Serve(r)
        \/ Crash

Spec == Init /\ [][Next]_vars

\* Consumers go on taking messages, and every query, publish and delay ends.
Fairness == /\ \A c \in Consumer : WF_vars(Consume(c))
            /\ \A r \in Request : WF_vars(Process(r))
FairSpec == Spec /\ Fairness

-----------------------------------------------------------------------------

\* The type invariant: copies, jobs, rows and the history.
TypeOK ==
  /\ ready \in [Event \X Retry -> Nat]
  /\ dead \subseteq Event
  /\ job \in [Job -> {Idle} \cup [st : Busy \cup {"accepted", "refused"}, e : Event, k : Retry]]
  /\ \A c \in Consumer : job[c].st = "backoff" => job[c].k < MaxRetries
  /\ row \in [Event -> {"none", "received", "published", "failed"}]
  /\ sent \in [Event -> 0 .. 2]
  /\ faults \in 0 .. MaxFaults

\* A keyed event is published at most once: copies of its message in two queues,
\* concurrent requests, retries, redeliveries and crashes notwithstanding.
PublishedOnce == \A e \in Event : sent[e] <= 1

\* The table and the broker agree as far as a crash allows: what was published has
\* its row, which is what redeliveries are compared with, and a row says published
\* only once the broker has the message.
RowMatchesBroker ==
  \A e \in Event : /\ sent[e] >= 1 => row[e] # "none"
                   /\ row[e] = "published" => sent[e] >= 1

\* Every copy of every message is acknowledged or dead-lettered in the end, although
\* a retry multiplies the copies by the bound queues.
QueuesDrain ==
  <>[](/\ \A m \in Event \X Retry : ready[m] = 0
       /\ \A j \in Job : ~ Holds(j))

\* The message of e has left its queues and its consumers.
Gone(e) ==
  /\ Copies[e] > 0
  /\ \A k \in Retry : ready[<<e, k>>] = 0
  /\ \A j \in Job : ~ (Holds(j) /\ job[j].e = e)

\* The documented at-least-once processing: a message leaves its queues only for the
\* normalized exchange or the dead-letter queue.
NoSilentLoss == \A e \in Event : Gone(e) => sent[e] >= 1 \/ e \in dead

=============================================================================
