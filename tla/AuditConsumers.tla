--------------------------- MODULE AuditConsumers ---------------------------
(***************************************************************************)
(* The consumers of the audit-service.  A message is turned into a row of  *)
(* audit_events, some also into a row of delivery_receipts or dlq_entries, *)
(* and waits unacknowledged in a buffer.  A buffer is flushed when it is   *)
(* full or its timer fires; one insert decides about the whole batch.      *)
(*                                                                         *)
(* onModuleDestroy is left out: main.ts enables no shutdown hooks.         *)
(***************************************************************************)
EXTENDS Naturals, Sequences, FiniteSets, SequencesExt

CONSTANTS
  Message,
  Kind,         \* Message -> what its routing key and body make of it
  Content,      \* Message -> fingerprint of its record
  UnfitEvent,   \* messages whose audit event violates a constraint
  UnfitExtra,   \* messages whose second row does
  BatchSize, Prefetch, MaxRetries,
  MaxFaults     \* bound: failed inserts and crashes

VARIABLES
  ready,        \* messages in their queues
  buffer,       \* buffers: per queue, in order of arrival
  timer,        \* timers: queues whose flush timer runs
  flight,       \* batches being flushed
  retries,      \* retryTracker: failures per fingerprint
  acked,        \* outcome of the messages that left the broker
  events, extras,   \* rows stored per message
  failed,       \* history: failed inserts of each fingerprint, in whatever message
  auditFaults

Kinds == {"sent", "status", "webhook", "event", "deliver", "template", "dlq", "malformed"}
QueueOf(m) == IF Kind[m] \in {"sent", "webhook", "malformed"} THEN "status" ELSE Kind[m]
AuditQueue == {"status", "event", "deliver", "template", "dlq"}

\* A sent status with a provider message id and every webhook have a receipt, every
\* dead letter an entry.
HasExtra(m) == Kind[m] \in {"sent", "webhook", "dlq"}

Entries(q) == {buffer[q][i] : i \in DOMAIN buffer[q]}
InFlight == UNION {ToSet(f.entries) : f \in flight}
Unacked(q) == {m \in (UNION {Entries(p) : p \in AuditQueue}) \cup InFlight : QueueOf(m) = q}

AuditFault == auditFaults < MaxFaults /\ auditFaults' = auditFaults + 1

AuditInit ==
  /\ ready = Message
  /\ buffer = [q \in AuditQueue |-> <<>>]
  /\ timer = {}
  /\ flight = {}
  /\ retries = [c \in {Content[m] : m \in Message} |-> 0]
  /\ acked = [m \in Message |-> "no"]
  /\ events = [m \in Message |-> 0]
  /\ extras = [m \in Message |-> 0]
  /\ failed = [c \in {Content[m] : m \in Message} |-> 0]
  /\ auditFaults = 0

Batch(q, entries) == [queue |-> q, entries |-> entries, pc |-> "events"]

\* A message that cannot be read is acknowledged and dropped.
ReceiveMalformed(m) ==
  /\ m \in ready
  /\ Kind[m] = "malformed"
  /\ ready' = ready \ {m}
  /\ acked' = [acked EXCEPT ![m] = "malformed"]
  /\ UNCHANGED <<buffer, timer, flight, retries, events, extras, failed, auditFaults>>

\* Mutant: a message that joins a buffer restarts no timer and sets none.
Receive_NoTimer(m) ==
  LET q == QueueOf(m)
      entries == Append(buffer[q], m)
  IN /\ m \in ready
     /\ Kind[m] # "malformed"
     /\ Cardinality(Unacked(q)) < Prefetch
     /\ ready' = ready \ {m}
     /\ IF Len(entries) >= BatchSize
        THEN /\ flight' = flight \cup {Batch(q, entries)}
             /\ buffer' = [buffer EXCEPT ![q] = <<>>]
             /\ timer' = timer \ {q}
        ELSE /\ buffer' = [buffer EXCEPT ![q] = entries]
             /\ UNCHANGED <<flight, timer>>
     /\ UNCHANGED <<retries, acked, events, extras, failed, auditFaults>>

\* add: a full buffer is flushed at once, otherwise a timer runs.
Receive(m) ==
  LET q == QueueOf(m)
      entries == Append(buffer[q], m)
  IN /\ m \in ready
     /\ Kind[m] # "malformed"
     /\ Cardinality(Unacked(q)) < Prefetch
     /\ ready' = ready \ {m}
     /\ IF Len(entries) >= BatchSize
        THEN /\ flight' = flight \cup {Batch(q, entries)}
             /\ buffer' = [buffer EXCEPT ![q] = <<>>]
             /\ timer' = timer \ {q}
        ELSE /\ buffer' = [buffer EXCEPT ![q] = entries]
             /\ timer' = timer \cup {q}
             /\ UNCHANGED flight
     /\ UNCHANGED <<retries, acked, events, extras, failed, auditFaults>>

TimerFires(q) ==
  /\ q \in timer
  /\ timer' = timer \ {q}
  /\ flight' = flight \cup {Batch(q, buffer[q])}
  /\ buffer' = [buffer EXCEPT ![q] = <<>>]
  /\ UNCHANGED <<ready, retries, acked, events, extras, failed, auditFaults>>

-----------------------------------------------------------------------------

Extra(f) == {m \in ToSet(f.entries) : HasExtra(m)}
Unfit(f) == IF f.pc = "events" THEN ToSet(f.entries) \cap UnfitEvent ELSE Extra(f) \cap UnfitExtra
Stored(rows, S) == [m \in Message |-> IF m \in S THEN rows[m] + 1 ELSE rows[m]]
Resolve(f, outcome) == acked' = [m \in Message |-> IF m \in ToSet(f.entries) THEN outcome ELSE acked[m]]
Forget(f) == retries' = [c \in DOMAIN retries |-> IF \E m \in ToSet(f.entries) : Content[m] = c
                                                  THEN 0 ELSE retries[c]]

\* The insert of the audit events, followed by that of the second rows if there are any.
StoreEvents(f) ==
  /\ f \in flight /\ f.pc = "events" /\ Unfit(f) = {}
  /\ events' = Stored(events, ToSet(f.entries))
  /\ IF Extra(f) = {}
     THEN /\ flight' = flight \ {f}
          /\ Resolve(f, "stored")
          /\ Forget(f)
     ELSE /\ flight' = (flight \ {f}) \cup {[f EXCEPT !.pc = "extras"]}
          /\ UNCHANGED <<acked, retries>>
  /\ UNCHANGED <<ready, buffer, timer, extras, failed, auditFaults>>

\* Mutant: the batch is resolved although the second insert is left out.
StoreExtras_Skipped(f) ==
  /\ f \in flight /\ f.pc = "extras" /\ Unfit(f) = {}
  /\ flight' = flight \ {f}
  /\ Resolve(f, "stored")
  /\ Forget(f)
  /\ UNCHANGED <<ready, buffer, timer, events, extras, failed, auditFaults>>

StoreExtras(f) ==
  /\ f \in flight /\ f.pc = "extras" /\ Unfit(f) = {}
  /\ extras' = Stored(extras, Extra(f))
  /\ flight' = flight \ {f}
  /\ Resolve(f, "stored")
  /\ Forget(f)
  /\ UNCHANGED <<ready, buffer, timer, events, failed, auditFaults>>

\* isTransientError; the rows may have been stored although the answer was lost.
TransientFailure(f) ==
  /\ f \in flight /\ f.pc # "delay" /\ Unfit(f) = {}
  /\ AuditFault
  /\ \/ UNCHANGED <<events, extras>>
     \/ f.pc = "events" /\ events' = Stored(events, ToSet(f.entries)) /\ UNCHANGED extras
     \/ f.pc = "extras" /\ extras' = Stored(extras, Extra(f)) /\ UNCHANGED events
  /\ flight' = (flight \ {f}) \cup {[f EXCEPT !.pc = "delay"]}
  /\ UNCHANGED <<ready, buffer, timer, retries, acked, failed>>

\* Any other error: one record that does not fit discards the whole batch.
PermanentFailure(f) ==
  /\ f \in flight /\ f.pc # "delay"
  /\ IF Unfit(f) = {} THEN AuditFault ELSE UNCHANGED auditFaults
  /\ flight' = flight \ {f}
  /\ Resolve(f, "discarded")
  /\ Forget(f)
  /\ UNCHANGED <<ready, buffer, timer, events, extras, failed>>

\* After the delay each message, in order, is requeued or given up: Failures counts those of its content up to
\* and with the i-th message, and a counter that reaches maxRetries gives its message up and starts again.
Failures(f, i, c) == Cardinality({j \in 1 .. i : Content[f.entries[j]] = c})
GivenUp(f) ==
  {f.entries[i] : i \in {j \in DOMAIN f.entries :
     LET c == Content[f.entries[j]] IN (retries[c] + Failures(f, j, c)) % MaxRetries = 0}}

Settle(f) ==
  /\ f \in flight /\ f.pc = "delay"
  /\ retries' = [c \in DOMAIN retries |-> (retries[c] + Failures(f, Len(f.entries), c)) % MaxRetries]
  /\ ready' = ready \cup (ToSet(f.entries) \ GivenUp(f))
  /\ acked' = [m \in Message |-> IF m \in GivenUp(f) THEN "poison" ELSE acked[m]]
  /\ failed' = [c \in DOMAIN failed |-> failed[c] + Failures(f, Len(f.entries), c)]
  /\ flight' = flight \ {f}
  /\ UNCHANGED <<buffer, timer, events, extras, auditFaults>>

\* The broker redelivers what was not acknowledged; buffers and counters are lost.
AuditCrash ==
  /\ AuditFault
  /\ ready' = ready \cup UNION {Unacked(q) : q \in AuditQueue}
  /\ buffer' = [q \in AuditQueue |-> <<>>]
  /\ timer' = {}
  /\ flight' = {}
  /\ retries' = [c \in DOMAIN retries |-> 0]
  /\ UNCHANGED <<acked, events, extras, failed>>

AuditProgress ==
  \/ \E m \in Message : ReceiveMalformed(m) \/ Receive(m)
  \/ \E q \in AuditQueue : TimerFires(q)
  \/ \E f \in flight : StoreEvents(f) \/ StoreExtras(f) \/ TransientFailure(f)
                       \/ PermanentFailure(f) \/ Settle(f)

AuditNext == AuditProgress \/ AuditCrash

auditVars == <<ready, buffer, timer, flight, retries, acked, events, extras, failed, auditFaults>>
Spec == AuditInit /\ [][AuditNext]_auditVars

-----------------------------------------------------------------------------

\* The type invariant; a buffer never holds a full batch.
AuditTypeOK ==
  /\ Kind \in [Message -> Kinds]
  /\ ready \subseteq Message
  /\ \A q \in AuditQueue : buffer[q] \in Seq(Message) /\ Len(buffer[q]) < BatchSize
  /\ timer \subseteq AuditQueue
  /\ \A f \in flight : f.queue \in AuditQueue /\ f.pc \in {"events", "extras", "delay"}
                       /\ f.entries \in Seq(Message) /\ Len(f.entries) \in 1 .. BatchSize
  /\ \A c \in DOMAIN retries : retries[c] < MaxRetries
  /\ acked \in [Message -> {"no", "stored", "poison", "discarded", "malformed"}]
  /\ auditFaults \in 0 .. MaxFaults

\* The places of a message in the buffers and in the batches.
InBuffer(m) == {p \in AuditQueue \X (1 .. BatchSize) : p[2] \in DOMAIN buffer[p[1]] /\ buffer[p[1]][p[2]] = m}
InBatch(m) == {p \in flight \X (1 .. BatchSize) : p[2] \in DOMAIN p[1].entries /\ p[1].entries[p[2]] = m}
\* No message is lost or held twice, whatever timers, flushes, requeues and crashes
\* overlap: it is in its queue, in one buffer, in one batch, or acknowledged.
HeldOnce ==
  \A m \in Message :
    (IF m \in ready THEN 1 ELSE 0) + Cardinality(InBuffer(m)) + Cardinality(InBatch(m))
      + (IF acked[m] = "no" THEN 0 ELSE 1) = 1

\* A message acknowledged as stored has all its rows, over retries of half-done batches.
StoredMeansRows ==
  \A m \in Message : acked[m] = "stored" => events[m] > 0 /\ (HasExtra(m) => extras[m] > 0)

\* A buffered message is never stranded: a partly filled buffer has its timer.
BufferIsTimed == \A q \in AuditQueue : buffer[q] # <<>> => q \in timer

\* Poison means maxRetries failed inserts of that content, although the counters are
\* shared by equal records and reset by successes and crashes.
PoisonWasTried == \A m \in Message : acked[m] = "poison" => failed[Content[m]] >= MaxRetries

\* Rows are duplicated by failures only.
DuplicatesNeedFaults == \A m \in Message : events[m] <= 1 + auditFaults /\ extras[m] <= 1 + auditFaults

\* No message is lost or held twice between queue, buffer, batch and acknowledgement; one acknowledged as
\* stored has all its rows, over retries of half-done batches; a partly filled buffer has its timer; a message
\* is given up only after maxRetries failed inserts of its content; and rows are duplicated by failures only.
AuditStored ==
  AuditTypeOK /\ HeldOnce /\ StoredMeansRows /\ BufferIsTimed /\ PoisonWasTried /\ DuplicatesNeedFaults

\* Every message is acknowledged in the end.
AllAcknowledged == <>(\A m \in Message : acked[m] # "no")
=============================================================================
