------------------------------ MODULE EngineProofs ------------------------------
(***************************************************************************)
(* Theorems about EnginePipeline for every number of events, channels,     *)
(* concurrent handlers, retries and crashes.                               *)
(***************************************************************************)
EXTENDS EnginePipeline, FiniteSetTheorems, TLAPS

HandedOver == {"DELIVERING", "SENT", "DELIVERED", "FAILED"}

(***************************************************************************)
(* The inductive invariant, one notification and one handler at a time.    *)
(* Until the deliver message is published the channel task is the only     *)
(* writer of its row, so the step it is at fixes the status; from then on  *)
(* the status-inbound handlers write too, and only the statuses after the  *)
(* hand-over are possible.                                                 *)
(***************************************************************************)
NotStarted(n) ==
  run[RunOf(n)].st \in {"unused", "lookup"} => pc[n] = "idle"

BeforeInsert(n) ==
  pc[n] \in {"idle", "suppression", "create"} => status[n] = "ABSENT" /\ n \notin published

OnlyWriter(n) ==
  /\ pc[n] = "toProcessing" => status[n] = "PENDING" /\ n \notin published
  /\ pc[n] \in {"render", "toRendering"} => status[n] = "PROCESSING" /\ n \notin published
  /\ pc[n] \in {"content", "toDelivering"} => status[n] = "RENDERING" /\ n \notin published
  /\ pc[n] = "publish" => status[n] = "DELIVERING" /\ n \notin published
  /\ pc[n] = "toFailed" /\ n \notin published
       => status[n] \in {"PROCESSING", "RENDERING", "DELIVERING"}

ContentFirst(n) ==
  pc[n] \in {"toDelivering", "publish"} => n \in content

AfterHandOver(n) ==
  n \in published => /\ n \in content
                     /\ status[n] \in HandedOver
                     /\ pc[n] \in {"toSent", "toFailed", "done"}
                     /\ pc[n] # "done" => status[n] \in {"DELIVERING", "FAILED"}

SentIsLast(n) ==
  /\ pc[n] = "toSent" => n \in published
  /\ status[n] \in {"SENT", "DELIVERED"} => n \in published /\ pc[n] = "done"

SeenIsCurrent(n) ==
  seen[n] # "NONE" =>
    /\ pc[n] \in Transitional
    /\ Allowed(seen[n], Target[pc[n]])
    /\ IF n \in published THEN seen[n] = "DELIVERING" ELSE seen[n] = status[n]

RowInv(n) == /\ NotStarted(n)
             /\ BeforeInsert(n)
             /\ OnlyWriter(n)
             /\ ContentFirst(n)
             /\ AfterHandOver(n)
             /\ SentIsLast(n)
             /\ SeenIsCurrent(n)

QueueInv(m) == reports[m] > 0 => m.n \in published

HandlerInv(h) ==
  handler[h].st = "write" =>
    /\ handler[h].m.n \in published
    /\ handler[h].m.to = "DELIVERED" =>
         /\ status[handler[h].m.n] \in {"SENT", "DELIVERED", "FAILED"}
         /\ pc[handler[h].m.n] = "done"

IInv == /\ TypeOK
        /\ \A n \in Notification : RowInv(n)
        /\ \A m \in Report : QueueInv(m)
        /\ \A h \in Handler : HandlerInv(h)

-----------------------------------------------------------------------------

\* Crash counts the deliveries and handlers it interrupts: both are finite.
LEMMA FiniteActors == IsFiniteSet(Run) /\ IsFiniteSet(Handler)
<1>1. IsFiniteSet(1 .. MaxRuns)
  <2>1. 1 \in Int /\ MaxRuns \in Int
    BY EngineAssumption
  <2>2. QED
    BY <2>1, FS_Interval
<1>2. IsFiniteSet(Event \X (1 .. MaxRuns))
  BY <1>1, EngineAssumption, FS_Product
<1>3. IsFiniteSet(Manual \X {1})
  BY EngineAssumption, FS_Singleton, FS_Product
<1>4. QED
  BY <1>2, <1>3, EngineAssumption, FS_Union DEF Run

LEMMA GotoType ==
  ASSUME NEW n \in Notification, NEW s \in Steps, TypeOK, Goto(n, s)
  PROVE  /\ pc' \in [Notification -> Steps]
         /\ seen' \in [Notification -> Status \cup {"NONE"}]
BY DEF TypeOK, Goto

LEMMA StepTypes ==
  /\ Transitional \subseteq Working /\ Working \subseteq Steps
  /\ \A s \in Working : OnError(s) \in Steps
  /\ \A s \in Transitional : After[s] \in Steps /\ Target[s] \in Status
BY DEF Transitional, Working, Steps, OnError, After, Target, Status, Lifecycle!Status

\* One more copy of a message leaves a queue a function into the naturals.
LEMMA OneMore ==
  ASSUME NEW S, NEW f \in [S -> Nat], NEW x
  PROVE  [f EXCEPT ![x] = @ + 1] \in [S -> Nat]
<1>1. CASE x \in S
  BY <1>1
<1>2. CASE x \notin S
  <2>1. [f EXCEPT ![x] = @ + 1] = [y \in S |-> f[y]]
    BY <1>2
  <2>2. QED
    BY <2>1
<1>3. QED
  BY <1>1, <1>2

\* The messages retryOrDlq puts back have a retry count within the limit.
LEMMA RetryType ==
  ASSUME NEW m \in Report, NEW waiting \in [Report -> Nat], RetryOrDlq(m, waiting)
  PROVE  reports' \in [Report -> Nat]
<1>1. CASE reports' = waiting
  BY <1>1
<1>2. CASE /\ m.k < MaxRetries
           /\ reports' = [waiting EXCEPT ![[m EXCEPT !.k = @ + 1]] = @ + 1]
  <2>1. [m EXCEPT !.k = @ + 1] \in Report
    BY <1>2, EngineAssumption DEF Report
  <2>2. QED
    BY <1>2, <2>1
<1>3. QED
  BY <1>1, <1>2 DEF RetryOrDlq

LEMMA InitType == Init => TypeOK
BY EngineAssumption DEF Init, TypeOK, Copy, Steps, Report, Status, Lifecycle!Status

LEMMA StepType == ASSUME TypeOK, [Next]_vars PROVE TypeOK'
<1> USE DEF rowVars, taskVars, inboundVars
<1>1. ASSUME NEW r \in Run, ConsumerStep(r) PROVE TypeOK'
  <2>1. ASSUME NEW k \in 0 .. MaxRetries, Receive(r, k) PROVE TypeOK'
    <3>1. <<r[1], k>> \in Copy
      BY <2>1 DEF Receive, Copy
    <3>2. ready' \in [Copy -> Nat]
      BY <2>1, <3>1 DEF TypeOK, Receive
    <3>3. QED
      BY <2>1, <3>2 DEF TypeOK, Receive
  <2>2. ASSUME NEW chs \in SUBSET Channel, StartChannels(r, chs) PROVE TypeOK'
    BY <2>2 DEF TypeOK, StartChannels, Steps, Working
  <2>3. CASE LookupFails(r)
    BY <2>3 DEF TypeOK, LookupFails
  <2>4. CASE Republish(r)
    <3>1. ready' \in [Copy -> Nat]
      BY <2>4, OneMore DEF TypeOK, Republish
    <3>2. QED
      BY <2>4, <3>1 DEF TypeOK, Republish
  <2>5. CASE RepublishFails(r)
    BY <2>5 DEF TypeOK, RepublishFails
  <2>6. CASE Ack(r)
    BY <2>6 DEF TypeOK, Ack
  <2>7. ASSUME NEW c \in Channel, StartManual(r, c) PROVE TypeOK'
    BY <2>7 DEF TypeOK, StartManual, Steps, Working
  <2>8. QED
    BY <1>1, <2>1, <2>2, <2>3, <2>4, <2>5, <2>6, <2>7 DEF ConsumerStep
<1>2. ASSUME NEW n \in Notification, TaskStep(n) PROVE TypeOK'
  <2>1. CASE EvaluateSuppression(n)
    BY <2>1, GotoType DEF TypeOK, EvaluateSuppression, Steps, Working
  <2>2. CASE CreateNotification(n)
    BY <2>2, GotoType
    DEF TypeOK, CreateNotification, Steps, Working, Transitional, Status, Lifecycle!Status
  <2>3. CASE Render(n)
    BY <2>3, GotoType DEF TypeOK, Render, Steps, Working, Transitional
  <2>4. CASE StoreContent(n)
    BY <2>4, GotoType DEF TypeOK, StoreContent, Steps, Working, Transitional
  <2>5. CASE PublishToDeliver(n)
    BY <2>5, GotoType DEF TypeOK, PublishToDeliver, Steps, Working, Transitional
  <2>6. CASE ReadStatus(n)
    <3>1. pc[n] \in Working /\ OnError(pc[n]) \in Steps
      BY <2>6, StepTypes DEF ReadStatus
    <3>2. CASE Allowed(status[n], Target[pc[n]])
      <4>1. status[n] \in Status
        <5>1. ~ Allowed("ABSENT", Target[pc[n]])
          BY DEF Allowed, Lifecycle!ValidTransitions, Lifecycle!Status
        <5>2. QED
          BY <3>2, <5>1 DEF TypeOK
      <4>2. QED
        BY <2>6, <3>2, <4>1 DEF TypeOK, ReadStatus
    <3>3. CASE ~ Allowed(status[n], Target[pc[n]])
      BY <2>6, <3>1, <3>3, GotoType DEF TypeOK, ReadStatus
    <3>4. QED
      BY <3>2, <3>3
  <2>7. CASE WriteStatus(n)
    <3>1. After[pc[n]] \in Steps /\ Target[pc[n]] \in Status
      BY <2>7, StepTypes DEF WriteStatus
    <3>2. QED
      BY <2>7, <3>1, GotoType DEF TypeOK, WriteStatus
  <2>8. CASE StepFails(n)
    BY <2>8, StepTypes, GotoType DEF TypeOK, StepFails
  <2>9. QED
    BY <1>2, <2>1, <2>2, <2>3, <2>4, <2>5, <2>6, <2>7, <2>8 DEF TaskStep
<1>3. ASSUME NEW h \in Handler, InboundStep(h) PROVE TypeOK'
  <2>1. ASSUME NEW m \in Report, TakeReport(h, m) PROVE TypeOK'
    BY <2>1 DEF TypeOK, TakeReport
  <2>2. ASSUME NEW m \in Report, ReadReportFails(h, m) PROVE TypeOK'
    <3>1. [reports EXCEPT ![m] = @ - 1] \in [Report -> Nat]
      BY <2>2 DEF TypeOK, ReadReportFails
    <3>2. QED
      BY <2>2, <3>1, RetryType DEF TypeOK, ReadReportFails, engineVars
  <2>3. CASE WriteReport(h)
    <3>1. handler[h].m \in Report
      BY <2>3 DEF TypeOK, WriteReport
    <3>2. handler[h].m.to \in Status
      BY <3>1 DEF Report, Status, Lifecycle!Status
    <3>3. QED
      BY <2>3, <3>2 DEF TypeOK, WriteReport
  <2>4. CASE WriteReportFails(h)
    <3>1. handler[h].m \in Report
      BY <2>4 DEF TypeOK, WriteReportFails
    <3>2. reports' \in [Report -> Nat]
      BY <2>4, <3>1, RetryType DEF TypeOK, WriteReportFails
    <3>3. QED
      BY <2>4, <3>2 DEF TypeOK, WriteReportFails
  <2>5. QED
    BY <1>3, <2>1, <2>2, <2>3, <2>4 DEF InboundStep
<1>4. CASE Crash
  <2>1. ASSUME NEW q \in Copy
        PROVE  Cardinality(Interrupted(q)) \in Nat
    BY FiniteActors, FS_Subset, FS_CardinalityType DEF Interrupted
  <2>2. ASSUME NEW m \in Report
        PROVE  Cardinality({h \in Handler : handler[h].st = "write" /\ handler[h].m = m}) \in Nat
    BY FiniteActors, FS_Subset, FS_CardinalityType
  <2>3. ready' \in [Copy -> Nat]
    BY <1>4, <2>1 DEF TypeOK, Crash
  <2>4. reports' \in [Report -> Nat]
    BY <1>4, <2>2 DEF TypeOK, Crash
  <2>5. pc' \in [Notification -> Steps]
    BY <1>4 DEF TypeOK, Crash, Steps
  <2>6. run' \in [Run -> [st : {"unused", "lookup", "backoff", "republished",
                              "channels", "acked", "dead"}, k : 0 .. MaxRetries]]
    BY <1>4 DEF TypeOK, Crash
  <2>7. /\ seen' \in [Notification -> Status \cup {"NONE"}]
        /\ handler' \in [Handler -> [st : {"idle"}] \cup [st : {"write"}, m : Report]]
        /\ crashes' \in 0 .. MaxCrashes
    BY <1>4, EngineAssumption DEF TypeOK, Crash
  <2>8. UNCHANGED <<status, content, published, reported>>
    BY <1>4 DEF Crash
  <2>9. QED
    BY <2>3, <2>4, <2>5, <2>6, <2>7, <2>8 DEF TypeOK
<1>5. ASSUME NEW n \in Notification, NEW to \in {"DELIVERED", "FAILED"},
             RouterReports(n, to)
      PROVE  TypeOK'
  <2>1. [n |-> n, to |-> to, k |-> 0] \in Report
    BY EngineAssumption DEF Report
  <2>2. QED
    BY <1>5, <2>1 DEF TypeOK, RouterReports, engineVars
<1>6. CASE UNCHANGED vars
  BY <1>6 DEF TypeOK, vars, engineVars
<1>7. QED
  BY <1>1, <1>2, <1>3, <1>4, <1>5, <1>6 DEF Next, EngineStep

\* Every variable keeps its type.
THEOREM TypeInvariant == Spec => []TypeOK
BY InitType, StepType, PTL DEF Spec

-----------------------------------------------------------------------------

\* The graph, read backwards: from which statuses each status may be entered.
LEMMA Edges ==
  ASSUME NEW s \in Status \cup {"ABSENT"}
  PROVE  /\ Allowed(s, "PROCESSING") <=> s = "PENDING"
         /\ Allowed(s, "RENDERING")  <=> s = "PROCESSING"
         /\ Allowed(s, "DELIVERING") <=> s = "RENDERING"
         /\ Allowed(s, "SENT")       <=> s = "DELIVERING"
         /\ Allowed(s, "DELIVERED")  <=> s = "SENT"
         /\ Allowed(s, "FAILED") <=> s \in {"PROCESSING", "RENDERING", "DELIVERING", "SENT"}
BY DEF Status, Allowed, Lifecycle!Status, Lifecycle!ValidTransitions

LEMMA Targets ==
  /\ Target["toProcessing"] = "PROCESSING" /\ After["toProcessing"] = "render"
  /\ Target["toRendering"] = "RENDERING"   /\ After["toRendering"] = "content"
  /\ Target["toDelivering"] = "DELIVERING" /\ After["toDelivering"] = "publish"
  /\ Target["toSent"] = "SENT"             /\ After["toSent"] = "done"
  /\ Target["toFailed"] = "FAILED"         /\ After["toFailed"] = "done"
BY DEF Target, After, Transitional

\* A row that a step does not touch keeps its invariant.
LEMMA RowUnchanged ==
  ASSUME NEW n \in Notification, RowInv(n),
         pc'[n] = pc[n], seen'[n] = seen[n], status'[n] = status[n],
         n \in content' <=> n \in content,
         n \in published' <=> n \in published,
         run'[RunOf(n)].st \in {"unused", "lookup"} => run[RunOf(n)].st \in {"unused", "lookup"}
  PROVE  RowInv(n)'
BY DEF RowInv, NotStarted, BeforeInsert, OnlyWriter, ContentFirst, AfterHandOver,
       SentIsLast, SeenIsCurrent, RunOf

\* The step of the channel task working on the row.
LEMMA TaskKeepsRow ==
  ASSUME TypeOK, NEW n \in Notification, RowInv(n), TaskStep(n)
  PROVE  RowInv(n)'
<1> USE DEF RowInv, NotStarted, BeforeInsert, OnlyWriter, ContentFirst, AfterHandOver,
            SentIsLast, SeenIsCurrent, rowVars, HandedOver, TypeOK, Goto, Transitional
<1>1. CASE EvaluateSuppression(n)
  BY <1>1 DEF EvaluateSuppression
<1>2. CASE CreateNotification(n)
  BY <1>2 DEF CreateNotification
<1>3. CASE Render(n)
  BY <1>3 DEF Render
<1>4. CASE StoreContent(n)
  BY <1>4 DEF StoreContent
<1>5. CASE PublishToDeliver(n)
  BY <1>5 DEF PublishToDeliver
<1>6. CASE ReadStatus(n)
  <2>1. CASE Allowed(status[n], Target[pc[n]])
    BY <1>6, <2>1, Targets, Edges DEF ReadStatus
  <2>2. CASE ~ Allowed(status[n], Target[pc[n]])
    BY <1>6, <2>2, Targets, Edges DEF ReadStatus, OnError
  <2>3. QED
    BY <2>1, <2>2
<1>7. CASE WriteStatus(n)
  BY <1>7, Targets, Edges DEF WriteStatus
<1>8. CASE StepFails(n)
  BY <1>8 DEF StepFails, OnError, Working
<1>9. QED
  BY <1>1, <1>2, <1>3, <1>4, <1>5, <1>6, <1>7, <1>8 DEF TaskStep

\* A step of the engine's consumers touches a row only by starting its task.
LEMMA ConsumerKeepsRow ==
  ASSUME TypeOK, NEW n \in Notification, RowInv(n), NEW r \in Run, ConsumerStep(r)
  PROVE  RowInv(n)'
<1> USE DEF rowVars, taskVars, TypeOK
<1>1. RunOf(n) \in Run
  BY DEF Notification, RunOf
<1>2. ASSUME NEW k \in 0 .. MaxRetries, Receive(r, k) PROVE RowInv(n)'
  BY <1>1, <1>2, RowUnchanged DEF Receive, IsNext
<1>3. ASSUME NEW chs \in SUBSET Channel, StartChannels(r, chs) PROVE RowInv(n)'
  <2>1. CASE RunOf(n) = r /\ n[2] \in chs
    <3>1. pc[n] = "idle" /\ pc'[n] = "suppression" /\ run'[RunOf(n)].st = "channels"
      BY <1>3, <2>1 DEF StartChannels, RowInv, NotStarted
    <3>2. seen[n] = "NONE"
      BY <3>1 DEF RowInv, SeenIsCurrent, Transitional
    <3>3. status[n] = "ABSENT" /\ n \notin published
      BY <3>1 DEF RowInv, BeforeInsert
    <3>4. UNCHANGED <<seen, status, content, published>>
      BY <1>3 DEF StartChannels
    <3>5. QED
      BY <3>1, <3>2, <3>3, <3>4
      DEF RowInv, NotStarted, BeforeInsert, OnlyWriter, ContentFirst, AfterHandOver,
          SentIsLast, SeenIsCurrent, RunOf
  <2>2. CASE ~ (RunOf(n) = r /\ n[2] \in chs)
    BY <1>1, <1>3, <2>2, RowUnchanged DEF StartChannels
  <2>3. QED
    BY <2>1, <2>2
<1>4. CASE LookupFails(r) \/ Republish(r) \/ RepublishFails(r) \/ Ack(r)
  BY <1>1, <1>4, RowUnchanged DEF LookupFails, Republish, RepublishFails, Ack
<1>5. ASSUME NEW c \in Channel, StartManual(r, c) PROVE RowInv(n)'
  <2>1. CASE n = Item(r, c)
    <3>1. RunOf(n) = r
      BY <2>1 DEF RunOf, Item
    <3>2. pc[n] = "idle" /\ pc'[n] = "create" /\ run'[RunOf(n)].st = "channels"
      BY <1>5, <2>1, <3>1 DEF StartManual, IsNext, RowInv, NotStarted
    <3>3. seen[n] = "NONE"
      BY <3>2 DEF RowInv, SeenIsCurrent, Transitional
    <3>4. status[n] = "ABSENT" /\ n \notin published
      BY <3>2 DEF RowInv, BeforeInsert
    <3>5. UNCHANGED <<seen, status, content, published>>
      BY <1>5 DEF StartManual
    <3>6. QED
      BY <3>2, <3>3, <3>4, <3>5
      DEF RowInv, NotStarted, BeforeInsert, OnlyWriter, ContentFirst, AfterHandOver,
          SentIsLast, SeenIsCurrent, RunOf
  <2>2. CASE n # Item(r, c)
    BY <1>1, <1>5, <2>2, RowUnchanged DEF StartManual
  <2>3. QED
    BY <2>1, <2>2
<1>6. QED
  BY <1>2, <1>3, <1>4, <1>5 DEF ConsumerStep

\* A status-inbound delivery writes a row only after the hand-over.
LEMMA InboundKeepsRow ==
  ASSUME TypeOK, NEW n \in Notification, RowInv(n),
         NEW h \in Handler, HandlerInv(h), InboundStep(h)
  PROVE  RowInv(n)'
<1> USE DEF rowVars, taskVars, engineVars, TypeOK
<1>1. CASE WriteReport(h)
  <2>1. CASE n = handler[h].m.n
    <3>1. n \in published /\ status'[n] = handler[h].m.to
      BY <1>1, <2>1 DEF WriteReport, HandlerInv
    <3>2. handler[h].m.to \in {"DELIVERED", "FAILED"}
      BY <1>1 DEF WriteReport, Report
    <3>3. handler[h].m.to = "DELIVERED" => pc[n] = "done"
      BY <1>1, <2>1 DEF WriteReport, HandlerInv
    <3>4. UNCHANGED <<run, pc, seen, content, published>>
      BY <1>1 DEF WriteReport
    <3>5. QED
      BY <3>1, <3>2, <3>3, <3>4
      DEF RowInv, NotStarted, BeforeInsert, OnlyWriter, ContentFirst, AfterHandOver,
          SentIsLast, SeenIsCurrent, HandedOver
  <2>2. CASE n # handler[h].m.n
    BY <1>1, <2>2, RowUnchanged DEF WriteReport
  <2>3. QED
    BY <2>1, <2>2
<1>2. CASE WriteReportFails(h)
  BY <1>2, RowUnchanged DEF WriteReportFails
<1>3. ASSUME NEW m \in Report, TakeReport(h, m) \/ ReadReportFails(h, m) PROVE RowInv(n)'
  BY <1>3, RowUnchanged DEF TakeReport, ReadReportFails
<1>4. QED
  BY <1>1, <1>2, <1>3 DEF InboundStep

LEMMA CrashKeepsRow ==
  ASSUME TypeOK, NEW n \in Notification, RowInv(n), Crash
  PROVE  RowInv(n)'
<1>1. RunOf(n) \in Run
  BY DEF Notification, RunOf
<1>2. run'[RunOf(n)].st \in {"unused", "lookup"} => run[RunOf(n)].st = "unused"
  BY <1>1 DEF Crash, TypeOK
<1>3. UNCHANGED rowVars /\ seen'[n] = "NONE"
  BY DEF Crash
<1>4. CASE pc[n] \in Working
  <2>1. pc'[n] = "done"
    BY <1>4 DEF Crash
  <2>2. QED
    BY <1>2, <1>3, <1>4, <2>1
    DEF RowInv, NotStarted, BeforeInsert, OnlyWriter, ContentFirst, AfterHandOver,
        SentIsLast, SeenIsCurrent, rowVars, RunOf, Working, Transitional
<1>5. CASE pc[n] \notin Working
  <2>1. pc'[n] = pc[n]
    BY <1>5 DEF Crash
  <2>2. QED
    BY <1>2, <1>3, <2>1
    DEF RowInv, NotStarted, BeforeInsert, OnlyWriter, ContentFirst, AfterHandOver,
        SentIsLast, SeenIsCurrent, rowVars, RunOf
<1>6. QED
  BY <1>4, <1>5

\* Statuses are queued, and written, only for dispatched notifications.
LEMMA QueueStep ==
  ASSUME TypeOK, \A m \in Report : QueueInv(m), \A h \in Handler : HandlerInv(h), [Next]_vars
  PROVE  \A m \in Report : QueueInv(m)'
<1> USE DEF rowVars, taskVars, inboundVars, engineVars, TypeOK, QueueInv
<1>1. published \subseteq published'
  BY DEF Next, EngineStep, ConsumerStep, Receive, StartChannels, LookupFails, Republish,
         RepublishFails, Ack, StartManual, TaskStep, EvaluateSuppression, CreateNotification,
         Render, StoreContent, PublishToDeliver, ReadStatus, WriteStatus, StepFails, InboundStep,
         TakeReport, ReadReportFails, WriteReport, WriteReportFails, Crash, RouterReports, vars
<1>2. ASSUME NEW m \in Report, NEW waiting \in [Report -> Nat], NEW q \in Report,
             m.n \in published, waiting[q] > 0 => q.n \in published, RetryOrDlq(m, waiting)
      PROVE  reports'[q] > 0 => q.n \in published
  <2>1. CASE reports' = waiting
    BY <1>2, <2>1
  <2>2. CASE reports' = [waiting EXCEPT ![[m EXCEPT !.k = @ + 1]] = @ + 1]
    <3>1. [m EXCEPT !.k = @ + 1].n = m.n
      BY DEF Report
    <3>2. QED
      BY <1>2, <2>2, <3>1
  <2>3. QED
    BY <1>2, <2>1, <2>2 DEF RetryOrDlq
<1>3. ASSUME NEW h \in Handler, InboundStep(h), NEW q \in Report PROVE QueueInv(q)'
  <2>1. ASSUME NEW m \in Report, TakeReport(h, m) PROVE QueueInv(q)'
    BY <1>1, <2>1 DEF TakeReport
  <2>2. ASSUME NEW m \in Report, ReadReportFails(h, m) PROVE QueueInv(q)'
    <3>1. [reports EXCEPT ![m] = @ - 1] \in [Report -> Nat]
      BY <2>2 DEF ReadReportFails
    <3>2. m.n \in published /\ ([reports EXCEPT ![m] = @ - 1][q] > 0 => q.n \in published)
      BY <2>2 DEF ReadReportFails
    <3>3. QED
      BY <1>1, <1>2, <2>2, <3>1, <3>2 DEF ReadReportFails
  <2>3. CASE WriteReport(h)
    BY <1>1, <2>3 DEF WriteReport
  <2>4. CASE WriteReportFails(h)
    <3>1. handler[h].m \in Report /\ handler[h].m.n \in published
      BY <2>4 DEF WriteReportFails, HandlerInv
    <3>2. QED
      BY <1>1, <1>2, <2>4, <3>1 DEF WriteReportFails
  <2>5. QED
    BY <1>3, <2>1, <2>2, <2>3, <2>4 DEF InboundStep
<1>4. ASSUME Crash, NEW q \in Report PROVE QueueInv(q)'
  <2>1. CASE \E h \in Handler : handler[h].st = "write" /\ handler[h].m = q
    BY <1>1, <2>1 DEF HandlerInv
  <2>2. CASE {h \in Handler : handler[h].st = "write" /\ handler[h].m = q} = {}
    <3>1. reports'[q] = reports[q]
      BY <1>4, <2>2, FS_EmptySet DEF Crash
    <3>2. QED
      BY <1>1, <3>1
  <2>3. QED
    BY <2>1, <2>2
<1>5. ASSUME NEW n \in Notification, NEW to \in {"DELIVERED", "FAILED"}, RouterReports(n, to),
             NEW q \in Report
      PROVE  QueueInv(q)'
  BY <1>1, <1>5 DEF RouterReports
<1>6. ASSUME UNCHANGED reports, NEW q \in Report PROVE QueueInv(q)'
  BY <1>1, <1>6
<1>7. CASE \E r \in Run : ConsumerStep(r)
  BY <1>6, <1>7 DEF ConsumerStep, Receive, StartChannels, LookupFails, Republish,
                    RepublishFails, Ack, StartManual
<1>8. CASE \E n \in Notification : TaskStep(n)
  BY <1>6, <1>8 DEF TaskStep, EvaluateSuppression, CreateNotification, Render, StoreContent,
                    PublishToDeliver, ReadStatus, WriteStatus, StepFails
<1>9. QED
  BY <1>3, <1>4, <1>5, <1>6, <1>7, <1>8 DEF Next, EngineStep, vars

\* A handler between its read and its write: the row stays after the hand-over.
LEMMA HandlerStep ==
  ASSUME IInv, [Next]_vars, NEW g \in Handler
  PROVE  HandlerInv(g)'
<1> USE DEF rowVars, taskVars, inboundVars, engineVars, HandlerInv
<1>1. ASSUME UNCHANGED handler[g], handler[g].st = "write",
             handler[g].m.n \in published => handler[g].m.n \in published',
             pc[handler[g].m.n] = "done" =>
               /\ pc'[handler[g].m.n] = "done"
               /\ status'[handler[g].m.n] = status[handler[g].m.n]
      PROVE  HandlerInv(g)'
  BY <1>1 DEF IInv
<1>2. handler[g].st = "write" => handler[g].m \in Report /\ handler[g].m.n \in Notification
  BY DEF IInv, TypeOK, Report
<1>3. ASSUME NEW r \in Run, ConsumerStep(r) PROVE HandlerInv(g)'
  <2>1. UNCHANGED <<handler, status, published>>
    BY <1>3 DEF ConsumerStep, Receive, StartChannels, LookupFails, Republish,
                RepublishFails, Ack, StartManual
  <2>2. ASSUME NEW n \in Notification, pc[n] = "done" PROVE pc'[n] = "done"
    <3>1. run[RunOf(n)].st \notin {"unused", "lookup"}
      BY <2>2 DEF IInv, RowInv, NotStarted
    <3>2. ASSUME NEW c \in Channel, StartManual(r, c) PROVE n # Item(r, c)
      BY <3>1, <3>2 DEF StartManual, IsNext, Item, RunOf
    <3>3. QED
      BY <1>3, <2>2, <3>1, <3>2
      DEF ConsumerStep, Receive, StartChannels, LookupFails, Republish,
          RepublishFails, Ack, StartManual, IInv, TypeOK
  <2>3. QED
    BY <1>1, <1>2, <2>1, <2>2
<1>4. ASSUME NEW n \in Notification, TaskStep(n) PROVE HandlerInv(g)'
  <2>1. pc[n] # "done" /\ UNCHANGED handler /\ published \subseteq published'
    BY <1>4 DEF TaskStep, EvaluateSuppression, CreateNotification, Render, StoreContent,
                PublishToDeliver, ReadStatus, WriteStatus, StepFails, Working, Transitional
  <2>2. ASSUME NEW o \in Notification, o # n PROVE pc'[o] = pc[o] /\ status'[o] = status[o]
    BY <1>4, <2>2
    DEF TaskStep, EvaluateSuppression, CreateNotification, Render, StoreContent,
        PublishToDeliver, ReadStatus, WriteStatus, StepFails, Goto, IInv, TypeOK
  <2>3. QED
    BY <1>1, <1>2, <2>1, <2>2
<1>5. ASSUME NEW h \in Handler, InboundStep(h) PROVE HandlerInv(g)'
  <2>1. ASSUME NEW m \in Report, TakeReport(h, m) PROVE HandlerInv(g)'
    <3>1. UNCHANGED <<pc, status, published>>
      BY <2>1 DEF TakeReport
    <3>2. CASE h = g /\ Allowed(status[m.n], m.to)
      <4>1. handler'[g] = [st |-> "write", m |-> m]
        BY <2>1, <3>2 DEF TakeReport, IInv, TypeOK
      <4>2. m.n \in Notification /\ m.n \in published
        BY <2>1 DEF TakeReport, IInv, QueueInv, Report
      <4>3. m.to = "DELIVERED" => status[m.n] = "SENT"
        BY <3>2, <4>2, Edges DEF IInv, TypeOK
      <4>4. m.to = "DELIVERED" => pc[m.n] = "done"
        BY <4>2, <4>3 DEF IInv, RowInv, SentIsLast
      <4>5. QED
        BY <3>1, <4>1, <4>2, <4>3, <4>4
    <3>3. CASE ~ (h = g /\ Allowed(status[m.n], m.to))
      BY <2>1, <3>1, <3>3, <1>1, <1>2 DEF TakeReport, IInv, TypeOK
    <3>4. QED
      BY <3>2, <3>3
  <2>2. ASSUME NEW m \in Report, ReadReportFails(h, m) PROVE HandlerInv(g)'
    BY <2>2, <1>1, <1>2 DEF ReadReportFails
  <2>3. CASE WriteReport(h)
    <3>1. UNCHANGED <<pc, published>>
      BY <2>3 DEF WriteReport
    <3>2. CASE g = h
      BY <2>3, <3>2 DEF WriteReport, IInv, TypeOK
    <3>3. CASE g # h
      <4>1. handler'[g] = handler[g]
        BY <2>3, <3>3 DEF WriteReport
      <4>2. ASSUME handler[g].st = "write", handler[g].m.to = "DELIVERED"
            PROVE  status'[handler[g].m.n] \in {"SENT", "DELIVERED", "FAILED"}
        <5>1. status[handler[g].m.n] \in {"SENT", "DELIVERED", "FAILED"}
          BY <4>2 DEF IInv
        <5>2. handler[h].m.to \in {"DELIVERED", "FAILED"}
          BY <2>3 DEF WriteReport, IInv, TypeOK, Report
        <5>3. QED
          BY <1>2, <2>3, <4>2, <5>1, <5>2 DEF WriteReport, IInv, TypeOK
      <4>3. QED
        BY <3>1, <4>1, <4>2 DEF IInv
    <3>4. QED
      BY <3>2, <3>3
  <2>4. CASE WriteReportFails(h)
    BY <2>4, <1>1, <1>2 DEF WriteReportFails, IInv, TypeOK
  <2>5. QED
    BY <1>5, <2>1, <2>2, <2>3, <2>4 DEF InboundStep
<1>6. CASE Crash
  BY <1>6 DEF Crash
<1>7. ASSUME NEW n \in Notification, NEW to \in {"DELIVERED", "FAILED"}, RouterReports(n, to)
      PROVE  HandlerInv(g)'
  BY <1>7, <1>1, <1>2 DEF RouterReports
<1>8. CASE UNCHANGED vars
  BY <1>8, <1>1, <1>2 DEF vars
<1>9. QED
  BY <1>3, <1>4, <1>5, <1>6, <1>7, <1>8 DEF Next, EngineStep

\* The inductive invariant holds throughout.
THEOREM EngineInvariant == Spec => []IInv
<1>1. Init => IInv
  <2> SUFFICES ASSUME Init PROVE IInv
    OBVIOUS
  <2>1. TypeOK
    BY InitType
  <2>2. ASSUME NEW n \in Notification PROVE RowInv(n)
    BY DEF Init, RowInv, NotStarted, BeforeInsert, OnlyWriter, ContentFirst, AfterHandOver,
           SentIsLast, SeenIsCurrent
  <2>3. \A m \in Report : QueueInv(m)
    BY DEF Init, QueueInv
  <2>4. \A h \in Handler : HandlerInv(h)
    BY DEF Init, HandlerInv
  <2>5. QED
    BY <2>1, <2>2, <2>3, <2>4 DEF IInv
<1>2. IInv /\ [Next]_vars => IInv'
  <2> SUFFICES ASSUME IInv, [Next]_vars PROVE IInv'
    OBVIOUS
  <2>1. TypeOK'
    BY StepType DEF IInv
  <2>2. ASSUME NEW n \in Notification PROVE RowInv(n)'
    <3> RowInv(n) /\ TypeOK
      BY DEF IInv
    <3>1. ASSUME NEW r \in Run, ConsumerStep(r) PROVE RowInv(n)'
      BY <3>1, ConsumerKeepsRow
    <3>2. ASSUME NEW o \in Notification, TaskStep(o) PROVE RowInv(n)'
      <4>1. CASE o = n
        BY <3>2, <4>1, TaskKeepsRow
      <4>2. CASE o # n
        BY <3>2, <4>2, RowUnchanged
        DEF TaskStep, EvaluateSuppression, CreateNotification, Render, StoreContent,
            PublishToDeliver, ReadStatus, WriteStatus, StepFails, Goto, rowVars, TypeOK
      <4>3. QED
        BY <4>1, <4>2
    <3>3. ASSUME NEW h \in Handler, InboundStep(h) PROVE RowInv(n)'
      BY <3>3, InboundKeepsRow DEF IInv
    <3>4. CASE Crash
      BY <3>4, CrashKeepsRow
    <3>5. ASSUME NEW o \in Notification, NEW to \in {"DELIVERED", "FAILED"},
                 RouterReports(o, to)
          PROVE  RowInv(n)'
      BY <3>5, RowUnchanged DEF RouterReports, engineVars
    <3>6. CASE UNCHANGED vars
      BY <3>6, RowUnchanged DEF vars, engineVars
    <3>7. QED
      BY <3>1, <3>2, <3>3, <3>4, <3>5, <3>6 DEF Next, EngineStep
  <2>3. \A m \in Report : QueueInv(m)'
    BY QueueStep DEF IInv
  <2>4. \A h \in Handler : HandlerInv(h)'
    BY HandlerStep
  <2>5. QED
    BY <2>1, <2>2, <2>3, <2>4 DEF IInv
<1>3. QED
  BY <1>1, <1>2, PTL DEF Spec

\* Whatever fails or crashes on the way, the router is only given notifications
\* whose content is stored and whose row has left the steps before the dispatch.
THEOREM DispatchSafe == Spec => []DispatchedIsRendered
<1>1. IInv => DispatchedIsRendered
  BY DEF IInv, TypeOK, RowInv, AfterHandOver, DispatchedIsRendered, HandedOver
<1>2. QED
  BY <1>1, EngineInvariant, PTL

\* A row never claims a dispatch that did not happen.
THEOREM SentSafe == Spec => []SentIsDispatched
<1>1. IInv => SentIsDispatched
  BY DEF IInv, RowInv, SentIsLast, SentIsDispatched
<1>2. QED
  BY <1>1, EngineInvariant, PTL

-----------------------------------------------------------------------------

\* What a transition between two statuses must be for the abstract lifecycle.
LEMMA MoveOrStutter ==
  ASSUME TypeOK, NEW n \in Notification, NEW to \in Status,
         Lifecycle!May(status[n], to) \/ status[n] = to,
         status' = [status EXCEPT ![n] = to]
  PROVE  [Lifecycle!Next]_status
<1>1. CASE status[n] = to
  <2>1. status' = status
    BY <1>1 DEF TypeOK
  <2>2. QED
    BY <2>1
<1>2. CASE Lifecycle!May(status[n], to)
  BY <1>2 DEF Lifecycle!Next, Lifecycle!Move, Status
<1>3. QED
  BY <1>1, <1>2

\* A stale write of the channel task or of a status handler only adds the three
\* overwrites of a terminal status.
LEMMA StepRefines ==
  ASSUME IInv, [Next]_vars
  PROVE  [Lifecycle!Next]_status
<1> USE DEF rowVars, taskVars, inboundVars, engineVars
<1>1. ASSUME NEW n \in Notification, CreateNotification(n) PROVE [Lifecycle!Next]_status
  <2>1. status[n] = "ABSENT" /\ status' = [status EXCEPT ![n] = "PENDING"]
    BY <1>1 DEF CreateNotification, IInv, RowInv, BeforeInsert
  <2>2. QED
    BY <2>1 DEF Lifecycle!Next, Lifecycle!Create
<1>2. ASSUME NEW n \in Notification, WriteStatus(n) PROVE [Lifecycle!Next]_status
  <2>1. /\ pc[n] \in Transitional /\ seen[n] # "NONE"
        /\ status' = [status EXCEPT ![n] = Target[pc[n]]]
    BY <1>2 DEF WriteStatus
  <2>2. Target[pc[n]] \in Status
    BY <2>1, StepTypes
  <2>3. CASE n \notin published
    <3>1. Allowed(status[n], Target[pc[n]])
      BY <2>1, <2>3 DEF IInv, RowInv, SeenIsCurrent
    <3>2. QED
      BY <2>1, <2>2, <3>1, MoveOrStutter DEF IInv, Lifecycle!May, Allowed
  <2>4. CASE n \in published
    <3>1. pc[n] \in {"toSent", "toFailed"} /\ status[n] \in {"DELIVERING", "FAILED"}
      BY <2>1, <2>4 DEF IInv, RowInv, AfterHandOver, Transitional
    <3>2. Allowed("DELIVERING", "SENT") /\ Allowed("DELIVERING", "FAILED")
      BY Edges DEF Status, Lifecycle!Status
    <3>3. Lifecycle!May(status[n], Target[pc[n]]) \/ status[n] = Target[pc[n]]
      BY <3>1, <3>2, Targets DEF Lifecycle!May, Allowed
    <3>4. QED
      BY <2>1, <2>2, <3>3, MoveOrStutter DEF IInv
  <2>5. QED
    BY <2>3, <2>4
<1>3. ASSUME NEW h \in Handler, WriteReport(h) PROVE [Lifecycle!Next]_status
  <2> DEFINE m == handler[h].m
  <2>1. /\ m \in Report /\ m.n \in published /\ m.n \in Notification
        /\ status' = [status EXCEPT ![m.n] = m.to]
        /\ m.to = "DELIVERED" => status[m.n] \in {"SENT", "DELIVERED", "FAILED"}
    BY <1>3 DEF WriteReport, IInv, TypeOK, HandlerInv, Report
  <2>2. status[m.n] \in HandedOver
    BY <2>1 DEF IInv, RowInv, AfterHandOver
  <2>3. m.to \in {"DELIVERED", "FAILED"} /\ m.to \in Status
    BY <2>1 DEF Report, Status, Lifecycle!Status
  <2>4. Allowed("SENT", "DELIVERED") /\ Allowed("DELIVERING", "FAILED") /\ Allowed("SENT", "FAILED")
    BY Edges DEF Status, Lifecycle!Status
  <2>5. Lifecycle!May(status[m.n], m.to) \/ status[m.n] = m.to
    BY <2>1, <2>2, <2>3, <2>4 DEF HandedOver, Lifecycle!May, Allowed
  <2>6. QED
    BY <2>1, <2>3, <2>5, MoveOrStutter DEF IInv
<1>4. ASSUME UNCHANGED status PROVE [Lifecycle!Next]_status
  BY <1>4
<1>5. ASSUME NEW r \in Run, ConsumerStep(r) PROVE UNCHANGED status
  BY <1>5 DEF ConsumerStep, Receive, StartChannels, LookupFails, Republish,
              RepublishFails, Ack, StartManual
<1>6. ASSUME NEW n \in Notification, TaskStep(n) PROVE [Lifecycle!Next]_status
  BY <1>1, <1>2, <1>4, <1>6 DEF TaskStep, EvaluateSuppression, Render, StoreContent,
                                PublishToDeliver, ReadStatus, StepFails
<1>7. ASSUME NEW h \in Handler, InboundStep(h) PROVE [Lifecycle!Next]_status
  BY <1>3, <1>4, <1>7 DEF InboundStep, TakeReport, ReadReportFails, WriteReportFails
<1>8. ASSUME Crash \/ (\E n \in Notification, to \in {"DELIVERED", "FAILED"} : RouterReports(n, to))
                   \/ UNCHANGED vars
      PROVE  UNCHANGED status
  BY <1>8 DEF Crash, RouterReports, vars
<1>9. QED
  BY <1>4, <1>5, <1>6, <1>7, <1>8 DEF Next, EngineStep

\* The engine implements the lifecycle with the three overwrites: in particular
\* no row ever returns to a status before its dispatch, and none leaves SUPPRESSED.
THEOREM LifecycleRefinement == Spec => LifecycleUpToLostUpdates
<1>1. Init => Lifecycle!Init
  BY DEF Init, Lifecycle!Init
<1>2. IInv /\ [Next]_vars => [Lifecycle!Next]_status
  BY StepRefines
<1>3. QED
  BY <1>1, <1>2, EngineInvariant, PTL DEF Spec, LifecycleUpToLostUpdates, Lifecycle!Spec
-----------------------------------------------------------------------------
(***************************************************************************)
(* The suppression limit.  The rows of a key are counted before one is     *)
(* inserted, so that the limit holds only while one task does so at a time:*)
(* one event with one channel, whose message never has a second copy.  A   *)
(* republished message has one when the service crashes before it          *)
(* acknowledges the first.  A second status handler may bring a row that   *)
(* has failed, and was replaced, back to DELIVERED.                        *)
(***************************************************************************)
OneAtATime ==
  /\ \E e \in Event : Event = {e}
  /\ \E c \in Channel : Channel = {c}
  /\ \E h \in Handler : Handler = {h}
  /\ MaxRetries = 0 \/ MaxCrashes = 0

Active(r) == r[1] \in Event /\ run[r].st \in {"lookup", "backoff", "channels"}

\* The event's message is in one place: the queue, or one delivery.
SoleCopy ==
  /\ \A q \in Copy : ready[q] <= 1
  /\ \A q, p \in Copy : ready[q] > 0 /\ ready[p] > 0 => q = p
  /\ \A q \in Copy, r \in Run : ready[q] > 0 => ~ Active(r)
  /\ \A r, s \in Run : Active(r) /\ Active(s) => r = s
  /\ \A r \in Run : run[r].st \in {"backoff", "republished"} => MaxCrashes = 0

TaskIsRun == \A n \in Notification : pc[n] \in Working => run[RunOf(n)].st = "channels"

\* A task that has counted holds its row before it is there.
Counted == {n \in Notification : RunOf(n)[1] \in Event /\ pc[n] \in Working \ {"suppression"}}
Claims  == Live \cup Counted

\* A row about to be written DELIVERED is SENT: it is among the live ones already.
StillSent ==
  \A h \in Handler : handler[h].st = "write" /\ handler[h].m.to = "DELIVERED" => status[handler[h].m.n] = "SENT"

LimitInv == SoleCopy /\ TaskIsRun /\ StillSent /\ Cardinality(Claims) <= Limit

LEMMA NamedByRun ==
  ASSUME NEW n \in Notification
  PROVE  RunOf(n) \in Run /\ n[2] \in Channel /\ n = Item(RunOf(n), n[2])
BY DEF Notification, RunOf, Item

LEMMA OneRunMoves ==
  ASSUME TypeOK, NEW r \in Run, NEW x, run' = [run EXCEPT ![r].st = x]
  PROVE  run'[r].st = x /\ \A s \in Run : s # r => run'[s] = run[s]
<1>1. run[r] \in [st : {"unused", "lookup", "backoff", "republished", "channels", "acked", "dead"}, k : 0 .. MaxRetries]
  BY DEF TypeOK
<1>2. PICK y : y = [run[r] EXCEPT !.st = x]
  OBVIOUS
<1>3. y.st = x
  BY <1>1, <1>2
<1>4. run' = [run EXCEPT ![r] = y]
  BY <1>2
<1>5. QED
  BY <1>3, <1>4 DEF TypeOK

\* There is one event: its copies differ in their retry count, its runs in their number.
LEMMA CopiesMove ==
  ASSUME OneAtATime, TypeOK, SoleCopy, NEW r \in Run, ConsumerStep(r)
  PROVE  SoleCopy'
<1> USE DEF TypeOK, SoleCopy, Active
<1>1. ASSUME NEW k \in 0 .. MaxRetries, Receive(r, k) PROVE SoleCopy'
  <2> DEFINE q == <<r[1], k>>
  <2>1. /\ q \in Copy /\ r[1] \in Event /\ ready[q] > 0 /\ run[r].st = "unused"
        /\ ready' = [ready EXCEPT ![q] = ready[q] - 1]
        /\ run' = [run EXCEPT ![r] = [st |-> "lookup", k |-> k]]
    BY <1>1 DEF Receive, Copy, IsNext
  <2> HIDE DEF q
  <2>2. \A p \in Copy : ready'[p] = 0
    <3>1. ASSUME NEW p \in Copy PROVE ready'[p] = 0
      <4>1. CASE p = q
        BY <2>1, <4>1
      <4>2. CASE p # q
        BY <2>1, <4>2
      <4>3. QED
        BY <4>1, <4>2
    <3>2. QED
      BY <3>1
  <2>3. \A s \in Run : ~ Active(s)
    BY <2>1
  <2>4. \A s \in Run : Active(s)' => s = r
    BY <2>1, <2>3
  <2>5. \A s \in Run : run'[s].st \in {"backoff", "republished"} => MaxCrashes = 0
    BY <2>1
  <2>6. QED
    BY <2>2, <2>4, <2>5
<1>2. CASE Republish(r)
  <2> DEFINE q == <<r[1], run[r].k + 1>>
  <2>1. /\ run[r].st = "backoff" /\ MaxCrashes = 0
        /\ ready' = [ready EXCEPT ![q] = ready[q] + 1]
        /\ run' = [run EXCEPT ![r].st = "republished"]
    BY <1>2 DEF Republish
  <2>2. CASE r[1] \in Event
    <3>1. Active(r) /\ \A p \in Copy : ready[p] = 0
      BY <2>1, <2>2
    <3>2. \A s \in Run : ~ Active(s)'
      BY <2>1, <3>1
    <3> HIDE DEF q
    <3>3. \A p \in Copy : ready'[p] = IF p = q THEN 1 ELSE 0
      BY <2>1, <3>1
    <3>4. \A s \in Run : run'[s].st \in {"backoff", "republished"} => MaxCrashes = 0
      BY <2>1
    <3>5. /\ \A p \in Copy : ready'[p] <= 1
          /\ \A p, o \in Copy : ready'[p] > 0 /\ ready'[o] > 0 => p = o
      BY <3>3
    <3>6. QED
      BY <3>2, <3>4, <3>5
  <2>3. CASE r[1] \notin Event
    <3>1. q \notin Copy
      BY <2>3 DEF Copy
    <3> HIDE DEF q
    <3>2. \A p \in Copy : ready'[p] = ready[p]
      BY <2>1, <3>1
    <3>3. \A s \in Run : Active(s)' => Active(s)
      BY <2>1, <2>3
    <3>4. \A s \in Run : run'[s].st \in {"backoff", "republished"} => MaxCrashes = 0
      BY <2>1
    <3>5. QED
      BY <3>2, <3>3, <3>4
  <2>4. QED
    BY <2>2, <2>3
<1>3. CASE LookupFails(r)
  <2>1. run[r].st = "lookup" /\ UNCHANGED ready /\ run[r].k \in Nat
    BY <1>3, EngineAssumption DEF LookupFails
  <2>2. run[r].k < MaxRetries => MaxCrashes = 0
    BY <2>1, EngineAssumption DEF OneAtATime
  <2>3. /\ \A s \in Run : Active(s)' => Active(s)
        /\ \A s \in Run : run'[s].st \in {"backoff", "republished"} => MaxCrashes = 0
    BY <1>3, <2>1, <2>2, EngineAssumption DEF LookupFails
  <2>4. QED
    BY <2>1, <2>3
<1>4. ASSUME UNCHANGED ready,
             \A s \in Run : \/ run'[s] = run[s]
                            \/ run'[s].st = "channels" /\ (run[s].st = "lookup" \/ s[1] \notin Event)
                            \/ run'[s].st \in {"acked", "dead"}
      PROVE  SoleCopy'
  <2>1. /\ \A s \in Run : Active(s)' => Active(s)
        /\ \A s \in Run : run'[s].st \in {"backoff", "republished"} => run[s].st \in {"backoff", "republished"}
    BY <1>4
  <2>2. QED
    BY <1>4, <2>1
<1>5. ASSUME NEW chs \in SUBSET Channel, StartChannels(r, chs) PROVE SoleCopy'
  <2>1. UNCHANGED ready /\ run[r].st = "lookup" /\ run' = [run EXCEPT ![r].st = "channels"]
    BY <1>5 DEF StartChannels
  <2>2. \A s \in Run : run'[s] = run[s] \/ (s = r /\ run'[s].st = "channels")
    BY <2>1, OneRunMoves
  <2>3. QED
    BY <1>4, <2>1, <2>2
<1>6. CASE RepublishFails(r)
  <2>1. UNCHANGED ready /\ run' = [run EXCEPT ![r].st = "dead"]
    BY <1>6 DEF RepublishFails
  <2>2. \A s \in Run : run'[s] = run[s] \/ run'[s].st = "dead"
    BY <2>1, OneRunMoves
  <2>3. QED
    BY <1>4, <2>1, <2>2
<1>7. CASE Ack(r)
  <2>1. UNCHANGED ready /\ run' = [run EXCEPT ![r].st = "acked"]
    BY <1>7 DEF Ack
  <2>2. \A s \in Run : run'[s] = run[s] \/ run'[s].st = "acked"
    BY <2>1, OneRunMoves
  <2>3. QED
    BY <1>4, <2>1, <2>2
<1>8. ASSUME NEW c \in Channel, StartManual(r, c) PROVE SoleCopy'
  <2>1. r[1] \notin Event /\ UNCHANGED ready /\ run' = [run EXCEPT ![r].st = "channels"]
    BY <1>8, EngineAssumption DEF StartManual
  <2>2. QED
    BY <1>4, <2>1
<1>9. QED
  BY <1>1, <1>2, <1>3, <1>5, <1>6, <1>7, <1>8 DEF ConsumerStep

\* A crash gives the interrupted delivery's copy back, when there is no other.
LEMMA CopiesReturn ==
  ASSUME OneAtATime, TypeOK, SoleCopy, Crash
  PROVE  SoleCopy'
<1> USE DEF TypeOK, SoleCopy, Active
<1>1. MaxCrashes # 0 /\ \A r \in Run : run[r].st \notin {"backoff", "republished"}
  BY EngineAssumption DEF Crash
<1>2. \A r \in Run : Held(r) <=> Active(r)
  BY <1>1 DEF Held
<1>3. /\ \A r \in Run : run'[r].st \in {"unused", "dead", "acked"}
      /\ \A q \in Copy : ready'[q] = ready[q] + Cardinality(Interrupted(q))
  BY DEF Crash
<1>4. CASE \E q \in Copy : ready[q] > 0
  <2>1. \A q \in Copy : Interrupted(q) = {}
    BY <1>2, <1>4 DEF Interrupted
  <2>2. \A q \in Copy : ready'[q] = ready[q]
    <3>1. Cardinality({}) = 0
      BY FS_EmptySet
    <3>2. \A q \in Copy : ready'[q] = ready[q] + 0 /\ ready[q] \in Nat
      BY <1>3, <2>1, <3>1
    <3>3. QED
      BY <3>2
  <2>3. QED
    BY <1>3, <2>2
<1>5. CASE \A q \in Copy : ~ (ready[q] > 0)
  <2>1. \A q \in Copy : ready'[q] = Cardinality(Interrupted(q))
    <3>1. \A q \in Copy : Cardinality(Interrupted(q)) \in Nat
      BY FiniteActors, FS_Subset, FS_CardinalityType DEF Interrupted
    <3>2. QED
      BY <1>3, <1>5, <3>1
  <2>2. ASSUME NEW q \in Copy
        PROVE  /\ Cardinality(Interrupted(q)) = 0 \/ Cardinality(Interrupted(q)) = 1
               /\ Cardinality(Interrupted(q)) > 0 => \E r \in Run : Active(r) /\ q = <<r[1], run[r].k>>
    <3>1. CASE Interrupted(q) = {}
      BY <3>1, FS_EmptySet
    <3>2. ASSUME NEW r \in Interrupted(q) PROVE Interrupted(q) = {r} /\ Active(r) /\ q = <<r[1], run[r].k>>
      BY <1>2, <3>2 DEF Interrupted
    <3>3. ASSUME NEW r \in Interrupted(q) PROVE Cardinality(Interrupted(q)) = 1 /\ r \in Run
      BY <3>2, <3>3, FS_Singleton DEF Interrupted
    <3>4. QED
      BY <3>1, <3>2, <3>3
  <2>3. \A q \in Copy : ready'[q] <= 1
    BY <2>1, <2>2
  <2>4. ASSUME NEW q \in Copy, NEW p \in Copy, ready'[q] > 0, ready'[p] > 0 PROVE q = p
    <3>1. \E r \in Run : Active(r) /\ q = <<r[1], run[r].k>>
      BY <2>1, <2>2, <2>4
    <3>2. \E r \in Run : Active(r) /\ p = <<r[1], run[r].k>>
      BY <2>1, <2>2, <2>4
    <3>3. QED
      BY <3>1, <3>2
  <2>5. \A r \in Run : ~ Active(r)'
    BY <1>3
  <2>6. QED
    BY <1>3, <2>3, <2>4, <2>5
<1>6. QED
  BY <1>4, <1>5

LEMMA SoleCopyStep == ASSUME OneAtATime, TypeOK, SoleCopy, [Next]_vars PROVE SoleCopy'
<1>1. CASE UNCHANGED <<ready, run>>
  BY <1>1 DEF SoleCopy, Active
<1>2. ASSUME NEW n \in Notification, TaskStep(n) PROVE UNCHANGED <<ready, run>>
  BY <1>2 DEF TaskStep, EvaluateSuppression, CreateNotification, Render, StoreContent, PublishToDeliver,
              ReadStatus, WriteStatus, StepFails
<1>3. ASSUME NEW h \in Handler, InboundStep(h) PROVE UNCHANGED <<ready, run>>
  BY <1>3 DEF InboundStep, TakeReport, WriteReport, ReadReportFails, WriteReportFails, engineVars
<1>4. ASSUME NEW n \in Notification, NEW to \in {"DELIVERED", "FAILED"}, RouterReports(n, to)
      PROVE  UNCHANGED <<ready, run>>
  BY <1>4 DEF RouterReports, engineVars
<1>5. CASE UNCHANGED vars
  BY <1>1, <1>5 DEF vars, engineVars
<1>6. QED
  BY <1>1, <1>2, <1>3, <1>4, <1>5, CopiesMove, CopiesReturn DEF Next, EngineStep

\* A consumer acknowledges a message only when its channel tasks have ended.
LEMMA TaskIsRunStep == ASSUME TypeOK, TaskIsRun, [Next]_vars PROVE TaskIsRun'
<1> USE DEF TypeOK, TaskIsRun
<1>1. ASSUME NEW r \in Run, ConsumerStep(r) PROVE TaskIsRun'
  <2>1. ASSUME NEW chs \in SUBSET Channel, StartChannels(r, chs) PROVE TaskIsRun'
    BY <2>1, NamedByRun DEF StartChannels
  <2>2. CASE Ack(r)
    <3>1. ASSUME NEW n \in Notification, pc[n] \in Working PROVE run'[RunOf(n)].st = "channels"
      <4>1. run[RunOf(n)].st = "channels" /\ n = Item(RunOf(n), n[2]) /\ n[2] \in Channel
        BY <3>1, NamedByRun
      <4>2. RunOf(n) # r
        BY <2>2, <3>1, <4>1 DEF Ack
      <4>3. QED
        BY <2>2, <4>1, <4>2, NamedByRun DEF Ack
    <3>2. QED
      BY <2>2, <3>1 DEF Ack, taskVars
  <2>3. ASSUME NEW c \in Channel, StartManual(r, c) PROVE TaskIsRun'
    <3>1. ASSUME NEW n \in Notification, pc'[n] \in Working PROVE run'[RunOf(n)].st = "channels"
      <4>1. pc[n] \in Working \/ n = Item(r, c)
        BY <2>3, <3>1 DEF StartManual
      <4>2. run[RunOf(n)].st = "channels" \/ RunOf(n) = r
        BY <4>1 DEF Item, RunOf
      <4>3. QED
        BY <2>3, <4>2, NamedByRun DEF StartManual
    <3>2. QED
      BY <3>1
  <2>4. ASSUME NEW k \in 0 .. MaxRetries,
               Receive(r, k) \/ LookupFails(r) \/ Republish(r) \/ RepublishFails(r)
        PROVE  TaskIsRun'
    <3>1. UNCHANGED pc /\ run[r].st # "channels" /\ \A s \in Run : s # r => run'[s] = run[s]
      BY <2>4 DEF Receive, IsNext, LookupFails, Republish, RepublishFails, taskVars
    <3>2. QED
      BY <3>1, NamedByRun
  <2>5. 0 \in 0 .. MaxRetries
    BY EngineAssumption
  <2>6. QED
    BY <1>1, <2>1, <2>2, <2>3, <2>4, <2>5 DEF ConsumerStep
<1>2. ASSUME NEW n \in Notification, TaskStep(n) PROVE TaskIsRun'
  <2>1. /\ UNCHANGED run /\ pc[n] \in Working
        /\ \A m \in Notification : m # n => pc'[m] = pc[m]
    BY <1>2, StepTypes DEF TaskStep, EvaluateSuppression, CreateNotification, Render, StoreContent,
       PublishToDeliver, ReadStatus, WriteStatus, StepFails, Goto, Working
  <2>2. QED
    BY <2>1
<1>3. ASSUME NEW h \in Handler, InboundStep(h) PROVE TaskIsRun'
  BY <1>3 DEF InboundStep, TakeReport, WriteReport, ReadReportFails, WriteReportFails, engineVars, taskVars
<1>4. CASE Crash
  BY <1>4 DEF Crash, Working, Transitional
<1>5. ASSUME NEW n \in Notification, NEW to \in {"DELIVERED", "FAILED"}, RouterReports(n, to)
      PROVE  TaskIsRun'
  BY <1>5 DEF RouterReports, engineVars
<1>6. CASE UNCHANGED vars
  BY <1>6 DEF vars, engineVars
<1>7. QED
  BY <1>1, <1>2, <1>3, <1>4, <1>5, <1>6 DEF Next, EngineStep

\* Between a handler's look at a SENT row and its DELIVERED nobody else writes the row: its task is
\* done, and there is no other handler.
LEMMA StillSentStep ==
  ASSUME OneAtATime, IInv, StillSent, [Next]_vars
  PROVE  StillSent'
<1> USE DEF StillSent
<1>1. TypeOK /\ \A h \in Handler : HandlerInv(h)
  BY DEF IInv
<1>2. ASSUME NEW h \in Handler, InboundStep(h) PROVE StillSent'
  <2>1. ASSUME NEW m \in Report, TakeReport(h, m) PROVE StillSent'
    <3>1. CASE Allowed(status[m.n], m.to)
      <4>1. handler' = [handler EXCEPT ![h] = [st |-> "write", m |-> m]] /\ UNCHANGED status
        BY <2>1, <3>1 DEF TakeReport, rowVars
      <4>2. m.to = "DELIVERED" => status[m.n] = "SENT"
        <5>1. status[m.n] \in Status \cup {"ABSENT"}
          BY <1>1 DEF TypeOK, Report
        <5>2. QED
          BY <3>1, <5>1, Edges
      <4>3. \A g \in Handler : handler'[g] = IF g = h THEN [st |-> "write", m |-> m] ELSE handler[g]
        BY <1>1, <4>1 DEF TypeOK
      <4>4. QED
        BY <4>1, <4>2, <4>3
    <3>2. CASE ~ Allowed(status[m.n], m.to)
      <4>1. handler' = [handler EXCEPT ![h] = [st |-> "idle"]] /\ UNCHANGED status
        BY <2>1, <3>2 DEF TakeReport, rowVars
      <4>2. \A g \in Handler : handler'[g] = IF g = h THEN [st |-> "idle"] ELSE handler[g]
        BY <1>1, <4>1 DEF TypeOK
      <4>3. QED
        BY <4>1, <4>2
    <3>3. QED
      BY <3>1, <3>2
  <2>2. ASSUME NEW m \in Report, ReadReportFails(h, m) PROVE StillSent'
    BY <2>2 DEF ReadReportFails, engineVars
  <2>3. CASE WriteReport(h) \/ WriteReportFails(h)
    <3>1. handler' = [handler EXCEPT ![h] = [st |-> "idle"]]
      BY <2>3 DEF WriteReport, WriteReportFails
    <3>2. \A g \in Handler : handler'[g] = [st |-> "idle"]
      BY <1>1, <3>1 DEF TypeOK, OneAtATime
    <3>3. QED
      BY <3>2
  <2>4. QED
    BY <1>2, <2>1, <2>2, <2>3 DEF InboundStep
<1>3. ASSUME NEW n \in Notification, TaskStep(n) PROVE StillSent'
  <2>1. /\ UNCHANGED handler /\ pc[n] # "done"
        /\ \A m \in Notification : m # n => status'[m] = status[m]
    BY <1>1, <1>3 DEF TypeOK, TaskStep, EvaluateSuppression, CreateNotification, Render, StoreContent,
       PublishToDeliver, ReadStatus, WriteStatus, StepFails, rowVars, inboundVars, Working, Transitional
  <2>2. ASSUME NEW h \in Handler, handler[h].st = "write", handler[h].m.to = "DELIVERED"
        PROVE  handler[h].m.n \in Notification /\ pc[handler[h].m.n] = "done"
    BY <1>1, <2>2 DEF HandlerInv, TypeOK, Report
  <2>3. QED
    BY <2>1, <2>2
<1>4. ASSUME NEW r \in Run, ConsumerStep(r) PROVE UNCHANGED <<status, handler>>
  BY <1>4 DEF ConsumerStep, Receive, StartChannels, LookupFails, Republish, RepublishFails, Ack, StartManual,
     rowVars, inboundVars
<1>5. CASE Crash
  BY <1>5 DEF Crash
<1>6. ASSUME NEW n \in Notification, NEW to \in {"DELIVERED", "FAILED"}, RouterReports(n, to)
      PROVE  UNCHANGED <<status, handler>>
  BY <1>6 DEF RouterReports, engineVars
<1>7. CASE UNCHANGED vars
  BY <1>7 DEF vars, engineVars
<1>8. QED
  BY <1>2, <1>3, <1>4, <1>5, <1>6, <1>7 DEF Next, EngineStep

LEMMA ClaimsFinite ==
  ASSUME OneAtATime, NEW S, S \subseteq Notification
  PROVE  IsFiniteSet(S) /\ Cardinality(S) \in Nat
<1>1. IsFiniteSet(Channel)
  BY FS_Singleton DEF OneAtATime
<1>2. IsFiniteSet(Notification)
  BY <1>1, FiniteActors, FS_Product DEF Notification
<1>3. QED
  BY <1>2, FS_Subset, FS_CardinalityType

\* A task that counts the rows is the only one at work, and nothing is claimed that is not a row.
LEMMA NobodyElse ==
  ASSUME OneAtATime, TypeOK, SoleCopy, TaskIsRun,
         NEW n \in Notification, RunOf(n)[1] \in Event, pc[n] = "suppression"
  PROVE  Counted = {}
<1>1. SUFFICES ASSUME NEW m \in Notification, RunOf(m)[1] \in Event, pc[m] \in Working \ {"suppression"}
               PROVE  FALSE
  BY DEF Counted
<1>2. Active(RunOf(n)) /\ Active(RunOf(m))
  BY <1>1, NamedByRun DEF TaskIsRun, Active, Working
<1>3. RunOf(n) = RunOf(m)
  BY <1>2, NamedByRun DEF SoleCopy
<1>4. n = m
  BY <1>3, NamedByRun DEF OneAtATime
<1>5. QED
  BY <1>1, <1>4

LEMMA ClaimsStep ==
  ASSUME OneAtATime, IInv, LimitInv, [Next]_vars
  PROVE  (Cardinality(Claims) <= Limit)'
<1>1. TypeOK /\ SoleCopy /\ TaskIsRun /\ StillSent /\ Cardinality(Claims) <= Limit
  BY DEF IInv, LimitInv
<1>2. Limit \in Nat /\ Event \cap Manual = {}
  BY EngineAssumption
<1>3. Claims \subseteq Notification /\ Claims' \subseteq Notification
  BY DEF Claims, Live, Counted
<1>4. ASSUME Claims' \subseteq Claims PROVE (Cardinality(Claims) <= Limit)'
  <2>1. IsFiniteSet(Claims) /\ Claims' \in SUBSET Claims
    BY <1>3, <1>4, ClaimsFinite
  <2>2. Cardinality(Claims') <= Cardinality(Claims)
    BY <2>1, FS_Subset
  <2>3. Cardinality(Claims) \in Nat /\ Cardinality(Claims') \in Nat
    BY <1>3, ClaimsFinite
  <2>4. QED
    BY <1>1, <1>2, <2>2, <2>3
<1>6. ASSUME NEW r \in Run, ConsumerStep(r) PROVE Claims' \subseteq Claims
  <2>1. UNCHANGED status
    BY <1>6 DEF ConsumerStep, Receive, StartChannels, LookupFails, Republish, RepublishFails, Ack, StartManual, rowVars
  <2>2. ASSUME NEW n \in Notification, RunOf(n)[1] \in Event
        PROVE  pc'[n] = pc[n] \/ pc'[n] = "suppression"
    <3>1. ASSUME NEW chs \in SUBSET Channel, StartChannels(r, chs) PROVE pc'[n] = pc[n] \/ pc'[n] = "suppression"
      BY <3>1 DEF StartChannels
    <3>2. ASSUME NEW c \in Channel, StartManual(r, c) PROVE pc'[n] = pc[n]
      BY <1>1, <1>2, <2>2, <3>2 DEF StartManual, TypeOK, Item, RunOf
    <3>3. ASSUME NEW k \in 0 .. MaxRetries, Receive(r, k) PROVE pc'[n] = pc[n]
      BY <3>3 DEF Receive, taskVars
    <3>4. CASE LookupFails(r) \/ Republish(r) \/ RepublishFails(r) \/ Ack(r)
      BY <3>4 DEF LookupFails, Republish, RepublishFails, Ack, taskVars
    <3>5. QED
      BY <1>6, <3>1, <3>2, <3>3, <3>4 DEF ConsumerStep
  <2>3. QED
    BY <2>1, <2>2 DEF Claims, Live, Counted
<1>7. ASSUME NEW n \in Notification, TaskStep(n), ~ EvaluateSuppression(n) PROVE Claims' \subseteq Claims
  <2>1. /\ pc[n] \in Working /\ (pc[n] = "suppression" => status'[n] = status[n] /\ pc'[n] = "done")
        /\ \A m \in Notification : m # n => status'[m] = status[m] /\ pc'[m] = pc[m]
    BY <1>1, <1>7 DEF TypeOK, TaskStep, CreateNotification, Render, StoreContent,
       PublishToDeliver, ReadStatus, WriteStatus, StepFails, rowVars, Working, Transitional, Goto, OnError
  <2>2. ASSUME NEW m \in Claims' PROVE m \in Claims
    <3>1. CASE m # n
      BY <1>3, <2>1, <2>2, <3>1 DEF Claims, Live, Counted
    <3>2. CASE m = n /\ pc[n] = "suppression"
      BY <1>3, <2>1, <2>2, <3>2 DEF Claims, Live, Counted, Working, Transitional
    <3>3. CASE m = n /\ pc[n] # "suppression"
      BY <1>3, <2>1, <2>2, <3>3 DEF Claims, Live, Counted
    <3>4. QED
      BY <3>1, <3>2, <3>3
  <2>3. QED
    BY <2>2
<1>8. ASSUME NEW n \in Notification, EvaluateSuppression(n) PROVE (Cardinality(Claims) <= Limit)'
  <2>1. /\ pc[n] = "suppression" /\ UNCHANGED status
        /\ pc' = [pc EXCEPT ![n] = IF Cardinality(Live) >= Limit THEN "done" ELSE "create"]
    BY <1>8 DEF EvaluateSuppression, Goto, rowVars
  <2>2. \A m \in Notification : m # n => pc'[m] = pc[m]
    BY <1>1, <2>1 DEF TypeOK
  <2>3. CASE Cardinality(Live) >= Limit \/ RunOf(n)[1] \notin Event
    <3>1. RunOf(n)[1] \in Event => pc'[n] = "done"
      BY <1>1, <2>1, <2>3 DEF TypeOK
    <3>2. Claims' \subseteq Claims
      BY <2>1, <2>2, <3>1 DEF Claims, Live, Counted, Working, Transitional
    <3>3. QED
      BY <1>4, <3>2
  <2>4. CASE RunOf(n)[1] \in Event /\ ~ (Cardinality(Live) >= Limit)
    <3>1. Counted = {}
      BY <1>1, <2>1, <2>4, NobodyElse
    <3>2. Claims' \subseteq Live \cup {n}
      BY <2>1, <2>2, <3>1 DEF Claims, Live, Counted
    <3>3. Live \subseteq Notification /\ IsFiniteSet(Live) /\ Cardinality(Live) \in Nat
      BY ClaimsFinite DEF Live
    <3>4. IsFiniteSet(Live \cup {n}) /\ Cardinality(Live \cup {n}) <= Cardinality(Live) + 1
      <4>1. IsFiniteSet(Live \cup {n})
        BY <3>3, FS_AddElement
      <4>2. CASE n \in Live
        <5>1. Live \cup {n} = Live
          BY <4>2
        <5>2. QED
          BY <3>3, <4>1, <5>1
      <4>3. CASE n \notin Live
        BY <3>3, <4>1, <4>3, FS_AddElement
      <4>4. QED
        BY <4>2, <4>3
    <3>5. Cardinality(Claims') <= Cardinality(Live \cup {n})
      BY <3>2, <3>4, FS_Subset
    <3>6. Cardinality(Claims') \in Nat /\ Cardinality(Live \cup {n}) \in Nat
      BY <1>3, <3>4, ClaimsFinite, FS_CardinalityType
    <3>7. QED
      BY <1>2, <2>4, <3>3, <3>4, <3>5, <3>6
  <2>5. QED
    BY <2>3, <2>4
<1>9. ASSUME NEW h \in Handler, InboundStep(h) PROVE Claims' \subseteq Claims
  <2>1. UNCHANGED pc
    BY <1>9 DEF InboundStep, TakeReport, WriteReport, ReadReportFails, WriteReportFails, taskVars, engineVars
  <2>2. CASE WriteReport(h)
    <3> DEFINE m == handler[h].m
    <3>1. m \in Report /\ handler[h].st = "write" /\ status' = [status EXCEPT ![m.n] = m.to]
      BY <1>1, <2>2 DEF WriteReport, TypeOK
    <3>2. m.n \in Notification /\ m.to \in {"DELIVERED", "FAILED"} /\ (m.to = "DELIVERED" => status[m.n] = "SENT")
      BY <1>1, <3>1 DEF Report, StillSent
    <3>3. \A n \in Notification : status'[n] \notin {"ABSENT", "FAILED"} => status[n] \notin {"ABSENT", "FAILED"}
      BY <1>1, <3>1, <3>2 DEF TypeOK
    <3>4. QED
      BY <2>1, <3>3 DEF Claims, Live, Counted
  <2>3. CASE ~ WriteReport(h)
    <3>1. UNCHANGED status
      BY <1>9, <2>3 DEF InboundStep, TakeReport, ReadReportFails, WriteReportFails, rowVars, engineVars
    <3>2. QED
      BY <2>1, <3>1 DEF Claims, Live, Counted
  <2>4. QED
    BY <2>2, <2>3
<1>10. CASE Crash
  <2>1. UNCHANGED status /\ \A n \in Notification : pc'[n] \in Working => pc'[n] = pc[n]
    BY <1>10 DEF Crash, rowVars, Working, Transitional
  <2>2. Claims' \subseteq Claims
    BY <2>1 DEF Claims, Live, Counted
  <2>3. QED
    BY <1>4, <2>2
<1>11. ASSUME UNCHANGED <<status, pc>> PROVE Claims' \subseteq Claims
  BY <1>11 DEF Claims, Live, Counted
<1>12. ASSUME NEW n \in Notification, NEW to \in {"DELIVERED", "FAILED"}, RouterReports(n, to)
       PROVE  UNCHANGED <<status, pc>>
  BY <1>12 DEF RouterReports, engineVars
<1>13. CASE UNCHANGED vars
  BY <1>4, <1>11, <1>13 DEF vars, engineVars
<1>14. QED
  BY <1>4, <1>6, <1>7, <1>8, <1>9, <1>10, <1>11, <1>12, <1>13 DEF Next, EngineStep

LEMMA LimitInit == OneAtATime /\ Init => LimitInv
<1> SUFFICES ASSUME OneAtATime, Init PROVE LimitInv
  OBVIOUS
<1>1. Claims = {}
  BY NamedByRun DEF Init, Claims, Live, Counted, Working, Transitional
<1>2. Cardinality(Claims) <= Limit
  BY <1>1, FS_EmptySet, EngineAssumption
<1>3. SoleCopy
  <2>1. \A q, p \in Copy : ready[q] > 0 /\ ready[p] > 0 => q = p
    BY DEF Init, OneAtATime, Copy
  <2>2. QED
    BY <2>1 DEF Init, SoleCopy, Active
<1>4. TaskIsRun /\ StillSent
  BY DEF Init, TaskIsRun, StillSent, Working, Transitional
<1>5. QED
  BY <1>2, <1>3, <1>4 DEF LimitInv

\* Redelivered, failing and interrupted at any step, the messages of one event never bring more live rows
\* about than the limit, when they are handled one at a time.
THEOREM LimitHolds == OneAtATime => (Spec => []SuppressionLimit)
<1> SUFFICES ASSUME OneAtATime PROVE Spec => []SuppressionLimit
  OBVIOUS
<1>1. Init => LimitInv
  BY LimitInit
<1>2. IInv /\ LimitInv /\ [Next]_vars => LimitInv'
  <2> SUFFICES ASSUME IInv, LimitInv, [Next]_vars PROVE LimitInv'
    OBVIOUS
  <2>1. TypeOK /\ SoleCopy /\ TaskIsRun /\ StillSent
    BY DEF IInv, LimitInv
  <2>2. SoleCopy' /\ TaskIsRun'
    BY <2>1, SoleCopyStep, TaskIsRunStep
  <2>3. StillSent' /\ (Cardinality(Claims) <= Limit)'
    BY <2>1, StillSentStep, ClaimsStep
  <2>4. QED
    BY <2>2, <2>3 DEF LimitInv
<1>3. LimitInv => SuppressionLimit
  <2> SUFFICES ASSUME LimitInv PROVE SuppressionLimit
    OBVIOUS
  <2>1. Claims \subseteq Notification /\ Live \in SUBSET Claims /\ Live \subseteq Notification
    BY DEF Claims, Live, Counted
  <2>2. /\ Cardinality(Live) <= Cardinality(Claims)
        /\ Cardinality(Live) \in Nat /\ Cardinality(Claims) \in Nat /\ Limit \in Nat
    BY <2>1, ClaimsFinite, FS_Subset, EngineAssumption
  <2>3. QED
    BY <2>2 DEF LimitInv, SuppressionLimit
<1>4. QED
  BY <1>1, <1>2, <1>3, EngineInvariant, PTL DEF Spec

=============================================================================
