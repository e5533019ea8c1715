----------------------------- MODULE EnginePipeline -----------------------------
(***************************************************************************)
(* The notification-engine-service: the consumers of normalized events and *)
(* the pipeline they run (EventProcessingPipelineService), the manual send *)
(* request, NotificationLifecycleService.transition with its separate read *)
(* and write of the status column, rule-level suppression, and the consumer*)
(* of inbound delivery statuses.                                           *)
(*                                                                         *)
(* One rule with one action and one recipient: other rules, actions and    *)
(* recipients of an event are processed one after the other and share no   *)
(* state.  All events resolve to the same dedup key, and a behaviour spans *)
(* less than one suppression window.                                       *)
(***************************************************************************)
EXTENDS Naturals, FiniteSets

CONSTANTS
  Event,        \* normalized events; each is one message of the engine's queue
  Manual,       \* manual send requests (POST /notifications/send)
  Channel,      \* channels of the action
  Handler,      \* concurrent status-inbound deliveries (the prefetch)
  Limit,        \* rows per dedup key: 1 is mode dedup or cooldown, more is maxCount
  MaxRetries,   \* rabbitmq.dlqMaxRetries
  MaxRuns,      \* bound: deliveries of one event that a behaviour may contain
  MaxReports,   \* bound: statuses the router publishes for one notification
  MaxCrashes    \* bound: crashes of the service

ASSUME EngineAssumption ==
  /\ Event \cap Manual = {}
  /\ IsFiniteSet(Event) /\ IsFiniteSet(Manual) /\ IsFiniteSet(Handler)
  /\ Limit \in Nat \ {0}
  /\ MaxRetries \in Nat
  /\ MaxRuns \in Nat \ {0}
  /\ MaxReports \in Nat
  /\ MaxCrashes \in Nat

VARIABLES
  ready,      \* <<event, retry count>> -> copies waiting in the queue
  run,        \* <<event, i>> -> state of the i-th delivery of the event
  pc,         \* notification -> next step of the channel task working on it
  seen,       \* notification -> status its task has read inside transition
  status,     \* notification -> notifications.status
  content,    \* notifications whose rendered content is stored
  published,  \* notifications whose deliver message was published
  reports,    \* status message -> copies waiting in q.engine.status.inbound
  reported,   \* notification -> statuses the router has published for it
  handler,    \* state of each status-inbound delivery
  crashes     \* crashes so far

engineVars == <<ready, run, pc, seen, status, content, published, handler, crashes>>
vars == <<engineVars, reports, reported>>

\* A notification is named by the delivery and the channel that create it; a
\* manual request is never delivered again.
Run          == (Event \X (1 .. MaxRuns)) \cup (Manual \X {1})
Notification == Run \X Channel
RunOf(n)     == n[1]
Item(r, c)   == <<r, c>>
Copy         == Event \X (0 .. MaxRetries)   \* messages by x-retry-count

Lifecycle == INSTANCE NotificationLifecycle
               WITH Overwrites <- {<<"FAILED", "SENT">>, <<"FAILED", "DELIVERED">>,
                                   <<"DELIVERED", "FAILED">>}

Status   == Lifecycle!Status
Terminal == Lifecycle!Terminal
Allowed_Unchecked(from, to) == TRUE          \* mutant: transition skips its check
Allowed(from, to) == to \in Lifecycle!ValidTransitions[from]

\* The status-inbound queue is bound to exactly these two routing keys.
Report == [n : Notification, to : {"DELIVERED", "FAILED"}, k : 0 .. MaxRetries]

(***************************************************************************)
(* Steps of a channel task, in the order of processChannel.  A step named  *)
(* to... is a call of transition: it first reads the row (seen), then      *)
(* writes it without looking again.                                        *)
(***************************************************************************)
Transitional == {"toProcessing", "toRendering", "toDelivering", "toSent", "toFailed"}
Working == Transitional \cup {"suppression", "create", "render", "content", "publish"}
Steps   == Working \cup {"idle", "done"}

Target == [s \in Transitional |->
             CASE s = "toProcessing" -> "PROCESSING"
               [] s = "toRendering"  -> "RENDERING"
               [] s = "toDelivering" -> "DELIVERING"
               [] s = "toSent"       -> "SENT"
               [] s = "toFailed"     -> "FAILED"]

\* Mutant: the message leaves before the content is stored.
After_DispatchEarly ==
  [s \in Transitional |->
     CASE s = "toProcessing" -> "render"
       [] s = "toRendering"  -> "toDelivering"
       [] s = "toDelivering" -> "publish"
       [] OTHER              -> "done"]
After == [s \in Transitional |->
            CASE s = "toProcessing" -> "render"
              [] s = "toRendering"  -> "content"
              [] s = "toDelivering" -> "publish"
              [] OTHER              -> "done"]

\* Where an exception thrown by the step continues: the two try blocks of
\* processChannel end in a transition to FAILED, everything else rejects the
\* promise of the channel, which processRecipient only logs.
OnError_SentAnyway(s) ==          \* mutant: a failed publish still ends in SENT
  IF s = "publish" THEN "toSent"
  ELSE IF s \in {"render", "toRendering", "content", "toSent"} THEN "toFailed" ELSE "done"
OnError_FailedAgain(s) ==         \* mutant: the failed FAILED transition is tried again
  IF s \in {"render", "toRendering", "content", "publish", "toSent", "toFailed"}
  THEN "toFailed" ELSE "done"
OnError(s) == IF s \in {"render", "toRendering", "content", "publish", "toSent"}
              THEN "toFailed" ELSE "done"

Goto(n, s) == /\ pc' = [pc EXCEPT ![n] = s]
              /\ seen' = [seen EXCEPT ![n] = "NONE"]

-----------------------------------------------------------------------------

Init ==
  /\ ready = [q \in Copy |-> IF q[2] = 0 THEN 1 ELSE 0]
  /\ run = [r \in Run |-> [st |-> "unused", k |-> 0]]
  /\ pc = [n \in Notification |-> "idle"]
  /\ seen = [n \in Notification |-> "NONE"]
  /\ status = [n \in Notification |-> "ABSENT"]
  /\ content = {}
  /\ published = {}
  /\ reports = [m \in Report |-> 0]
  /\ reported = [n \in Notification |-> 0]
  /\ handler = [h \in Handler |-> [st |-> "idle"]]
  /\ crashes = 0

rowVars     == <<status, content, published>>
taskVars    == <<pc, seen>>
inboundVars == <<reports, reported, handler>>

(***************************************************************************)
(* The event consumers: BaseEventConsumer and the pipeline's outer loops.  *)
(***************************************************************************)
IsNext(r) == /\ run[r].st = "unused"
             /\ \A i \in 1 .. r[2] - 1 : run[<<r[1], i>>].st # "unused"

\* The broker hands a copy of the event to the consumer, which starts with
\* the rule lookup (an await).
Receive(r, k) ==
  /\ r[1] \in Event
  /\ IsNext(r)
  /\ ready[<<r[1], k>>] > 0
  /\ ready' = [ready EXCEPT ![<<r[1], k>>] = @ - 1]
  /\ run' = [run EXCEPT ![r] = [st |-> "lookup", k |-> k]]
  /\ UNCHANGED <<rowVars, taskVars, inboundVars, crashes>>

\* The rules are found and matched; chs are the channels left after matching,
\* recipient and preference resolution, {} when nothing matched or a step
\* before the channels failed (those errors are logged and swallowed).  The
\* channel tasks then run in parallel.
StartChannels(r, chs) ==
  /\ run[r].st = "lookup"
  /\ run' = [run EXCEPT ![r].st = "channels"]
  /\ pc' = [n \in Notification |->
              IF RunOf(n) = r /\ n[2] \in chs THEN "suppression" ELSE pc[n]]
  /\ UNCHANGED <<ready, seen, rowVars, inboundVars, crashes>>

\* The rule lookup throws: the message is dead-lettered when its retries are
\* used up, else republished after a delay spent inside the handler.
LookupFails(r) ==
  /\ run[r].st = "lookup"
  /\ run' = [run EXCEPT ![r].st = IF run[r].k >= MaxRetries THEN "dead" ELSE "backoff"]
  /\ UNCHANGED <<ready, rowVars, taskVars, inboundVars, crashes>>

Republish(r) ==
  /\ run[r].st = "backoff"
  /\ ready' = [ready EXCEPT ![<<r[1], run[r].k + 1>>] = @ + 1]
  /\ run' = [run EXCEPT ![r].st = "republished"]
  /\ UNCHANGED <<rowVars, taskVars, inboundVars, crashes>>

RepublishFails(r) ==
  /\ run[r].st = "backoff"
  /\ run' = [run EXCEPT ![r].st = "dead"]
  /\ UNCHANGED <<ready, rowVars, taskVars, inboundVars, crashes>>

\* The handler returns and the message is acknowledged.
Ack(r) ==
  /\ \/ run[r].st = "republished"
     \/ /\ run[r].st = "channels"
        /\ \A c \in Channel : pc[Item(r, c)] \notin Working
  /\ run' = [run EXCEPT ![r].st = "acked"]
  /\ UNCHANGED <<ready, rowVars, taskVars, inboundVars, crashes>>

\* One item of a manual send: no suppression, no message to redeliver.
StartManual(r, c) ==
  /\ r[1] \in Manual
  /\ IsNext(r)
  /\ run' = [run EXCEPT ![r].st = "channels"]
  /\ pc' = [pc EXCEPT ![Item(r, c)] = "create"]
  /\ UNCHANGED <<ready, seen, rowVars, inboundVars, crashes>>

(***************************************************************************)
(* One channel task: processChannel and processManualSendItem.             *)
(***************************************************************************)
\* The rows the suppression queries find; manual sends carry another rule id.
Live == {n \in Notification : RunOf(n)[1] \in Event /\ status[n] \notin {"ABSENT", "FAILED"}}

\* Mutant: maxCount compares with > instead of >=.
EvaluateSuppression_OffByOne(n) ==
  /\ pc[n] = "suppression"
  /\ Goto(n, IF Cardinality(Live) > Limit THEN "done" ELSE "create")
  /\ UNCHANGED <<ready, run, rowVars, inboundVars, crashes>>

\* SuppressionEvaluatorService.evaluate counts the rows of the key; a
\* suppressed notification gets no row.
EvaluateSuppression(n) ==
  /\ pc[n] = "suppression"
  /\ Goto(n, IF Cardinality(Live) >= Limit THEN "done" ELSE "create")
  /\ UNCHANGED <<ready, run, rowVars, inboundVars, crashes>>

CreateNotification(n) ==
  /\ pc[n] = "create"
  /\ status' = [status EXCEPT ![n] = "PENDING"]
  /\ Goto(n, "toProcessing")
  /\ UNCHANGED <<ready, run, content, published, inboundVars, crashes>>

Render(n) ==
  /\ pc[n] = "render"
  /\ Goto(n, "toRendering")
  /\ UNCHANGED <<ready, run, rowVars, inboundVars, crashes>>

StoreContent(n) ==
  /\ pc[n] = "content"
  /\ content' = content \cup {n}
  /\ Goto(n, "toDelivering")
  /\ UNCHANGED <<ready, run, status, published, inboundVars, crashes>>

PublishToDeliver(n) ==
  /\ pc[n] = "publish"
  /\ published' = published \cup {n}
  /\ Goto(n, "toSent")
  /\ UNCHANGED <<ready, run, status, content, inboundVars, crashes>>

\* transition, first half: the row is read and the edge checked; an edge that
\* is not allowed throws NES-015.
ReadStatus(n) ==
  /\ pc[n] \in Transitional /\ seen[n] = "NONE"
  /\ IF Allowed(status[n], Target[pc[n]])
     THEN seen' = [seen EXCEPT ![n] = status[n]] /\ UNCHANGED pc
     ELSE Goto(n, OnError(pc[n]))
  /\ UNCHANGED <<ready, run, rowVars, inboundVars, crashes>>

\* transition, second half: the unconditional UPDATE of the status column.
WriteStatus(n) ==
  /\ pc[n] \in Transitional /\ seen[n] # "NONE"
  /\ status' = [status EXCEPT ![n] = Target[pc[n]]]
  /\ Goto(n, After[pc[n]])
  /\ UNCHANGED <<ready, run, content, published, inboundVars, crashes>>

\* The database, the template service or the broker rejects the step's call; a
\* deliver message whose confirmation is lost is in its queue all the same.
StepFails(n) ==
  /\ pc[n] \in Working
  /\ Goto(n, OnError(pc[n]))
  /\ \/ UNCHANGED published
     \/ pc[n] = "publish" /\ published' = published \cup {n}
  /\ UNCHANGED <<ready, run, status, content, inboundVars, crashes>>

(***************************************************************************)
(* The status-inbound consumer and its publisher.                          *)
(***************************************************************************)

\* External to the engine: a delivery status of a dispatched notification is
\* published to xch.notifications.status.
RouterReports(n, to) ==
  /\ n \in published
  /\ reported[n] < MaxReports
  /\ reported' = [reported EXCEPT ![n] = @ + 1]
  /\ reports' = [reports EXCEPT ![[n |-> n, to |-> to, k |-> 0]] = @ + 1]
  /\ UNCHANGED engineVars

\* handleStatusInbound up to the check of transition.  An edge that is not
\* allowed is a non-retryable error: the message goes to the DLQ.
TakeReport(h, m) ==
  /\ handler[h].st = "idle"
  /\ reports[m] > 0
  /\ reports' = [reports EXCEPT ![m] = @ - 1]
  /\ handler' = [handler EXCEPT ![h] =
                   IF Allowed(status[m.n], m.to)
                   THEN [st |-> "write", m |-> m] ELSE [st |-> "idle"]]
  /\ UNCHANGED <<ready, run, taskVars, rowVars, reported, crashes>>

WriteReport(h) ==
  /\ handler[h].st = "write"
  /\ status' = [status EXCEPT ![handler[h].m.n] = handler[h].m.to]
  /\ handler' = [handler EXCEPT ![h] = [st |-> "idle"]]
  /\ UNCHANGED <<ready, run, taskVars, content, published, reports, reported, crashes>>

\* retryOrDlq after a database error: the message is republished with the next
\* retry count, or dead-lettered when the count is used up or the republish
\* fails.  waiting is the queue without the message.
RetryOrDlq(m, waiting) ==
  \/ reports' = waiting
  \/ /\ m.k < MaxRetries
     /\ reports' = [waiting EXCEPT ![[m EXCEPT !.k = @ + 1]] = @ + 1]

ReadReportFails(h, m) ==
  /\ handler[h].st = "idle"
  /\ reports[m] > 0
  /\ RetryOrDlq(m, [reports EXCEPT ![m] = @ - 1])
  /\ UNCHANGED <<engineVars, reported>>

WriteReportFails(h) ==
  /\ handler[h].st = "write"
  /\ RetryOrDlq(handler[h].m, reports)
  /\ handler' = [handler EXCEPT ![h] = [st |-> "idle"]]
  /\ UNCHANGED <<ready, run, taskVars, rowVars, reported, crashes>>

(***************************************************************************)
(* A crash ends every handler; the broker takes the unacknowledged messages*)
(* back.  Rows stay as they are: nothing in the service resumes them.      *)
(***************************************************************************)
Held(r) == r[1] \in Event /\ run[r].st \in {"lookup", "backoff", "republished", "channels"}
Interrupted(q) == {r \in Run : Held(r) /\ q = <<r[1], run[r].k>>}

Crash ==
  /\ crashes < MaxCrashes
  /\ crashes' = crashes + 1
  /\ ready' = [q \in Copy |-> ready[q] + Cardinality(Interrupted(q))]
  /\ run' = [r \in Run |-> IF run[r].st \in {"unused", "dead"} THEN run[r]
                           ELSE [run[r] EXCEPT !.st = "acked"]]
  /\ pc' = [n \in Notification |-> IF pc[n] \in Working THEN "done" ELSE pc[n]]
  /\ seen' = [n \in Notification |-> "NONE"]
  /\ reports' = [m \in Report |-> reports[m] + Cardinality(
                   {h \in Handler : handler[h].st = "write" /\ handler[h].m = m})]
  /\ handler' = [h \in Handler |-> [st |-> "idle"]]
  /\ UNCHANGED <<rowVars, reported>>

-----------------------------------------------------------------------------

ConsumerStep(r) ==
  \/ \E k \in 0 .. MaxRetries : Receive(r, k)
  \/ \E chs \in SUBSET Channel : StartChannels(r, chs)
  \/ LookupFails(r) \/ Republish(r) \/ RepublishFails(r) \/ Ack(r)
  \/ \E c \in Channel : StartManual(r, c)

TaskStep(n) ==
  \/ EvaluateSuppression(n) \/ CreateNotification(n) \/ Render(n)
  \/ StoreContent(n) \/ PublishToDeliver(n)
  \/ ReadStatus(n) \/ WriteStatus(n) \/ StepFails(n)

InboundStep(h) ==
  \/ \E m \in Report : TakeReport(h, m) \/ ReadReportFails(h, m)
  \/ WriteReport(h) \/ WriteReportFails(h)

\* Everything the service itself does; RouterReports is its environment.
EngineStep ==
  \/ \E r \in Run : ConsumerStep(r)
  \/ \E n \in Notification : TaskStep(n)
  \/ \E h \in Handler : InboundStep(h)
  \/ Crash

Next ==
  \/ EngineStep
  \/ \E n \in Notification, to \in {"DELIVERED", "FAILED"} : RouterReports(n, to)

Spec == Init /\ [][Next]_vars

\* The event loop runs every handler that can run; calls that can fail may fail.
FairSpec == /\ Spec
            /\ \A r \in Run : WF_vars(ConsumerStep(r))
            /\ \A n \in Notification : WF_vars(TaskStep(n))
            /\ \A h \in Handler : WF_vars(InboundStep(h))

-----------------------------------------------------------------------------

\* The type invariant of the engine's tables, queues and handlers.
TypeOK ==
  /\ ready \in [Copy -> Nat]
  /\ run \in [Run -> [st : {"unused", "lookup", "backoff", "republished",
                            "channels", "acked", "dead"}, k : 0 .. MaxRetries]]
  /\ pc \in [Notification -> Steps]
  /\ seen \in [Notification -> Status \cup {"NONE"}]
  /\ status \in [Notification -> Status \cup {"ABSENT"}]
  /\ content \subseteq Notification
  /\ published \subseteq Notification
  /\ reports \in [Report -> Nat]
  /\ reported \in [Notification -> Nat]
  /\ handler \in [Handler -> [st : {"idle"}] \cup [st : {"write"}, m : Report]]
  /\ crashes \in 0 .. MaxCrashes

\* Nothing reaches the channel router without its rendered content stored and
\* its row moved to DELIVERING first, whatever fails or crashes on the way.
DispatchedIsRendered ==
  \A n \in published : /\ n \in content
                       /\ status[n] \in {"DELIVERING", "SENT", "DELIVERED", "FAILED"}

\* A row claims SENT or DELIVERED only for a message the router was given.
SentIsDispatched ==
  \A n \in Notification : status[n] \in {"SENT", "DELIVERED"} => n \in published

\* The row moves along VALID_TRANSITIONS, except that a transition whose read
\* is overtaken by another writer may replace a terminal status by SENT,
\* DELIVERED or FAILED: no row ever returns to a step before the dispatch.
LifecycleUpToLostUpdates == Lifecycle!Spec

\* maxCount (dedup and cooldown: Limit = 1): never more live rows for one key than
\* the limit.  It holds for one task and one status handler at a time, which is so for
\* one event unless a crash gives back a message that was republished already.
SuppressionLimit == Cardinality(Live) <= Limit

\* The consumers never wedge: every message of both queues is eventually gone
\* from the broker for good (handled, or dead-lettered).
Undelivered == \/ \E q \in Copy : ready[q] > 0
               \/ \E m \in Report : reports[m] > 0
Busy == \/ \E r \in Run : Held(r)
        \/ \E h \in Handler : handler[h].st # "idle"
QueuesDrain == <>[](~ Undelivered /\ ~ Busy)

=============================================================================
