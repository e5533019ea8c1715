----------------------------- MODULE AuditProofs -----------------------------
(***************************************************************************)
(* The consumers of the audit-service keep what they acknowledge, for any  *)
(* messages, batch size, prefetch, number of retries and of faults; its    *)
(* administration keeps dead letters, for any entries, requests and days;  *)
(* and its aggregates and answers are exact, for any channels, hours,      *)
(* arrivals, jobs, rows and limits.                                        *)
(***************************************************************************)
EXTENDS AuditConsumers, DeadLetterAdmin, AuditReaders, FiniteSetTheorems, WellFoundedInduction, TLAPS

\* The constants' ranges: a batch of a message at least, a retry counter of one at least.
Configured ==
  /\ Kind \in [Message -> Kinds]
  /\ {BatchSize, MaxRetries} \subseteq Nat \ {0}
  /\ MaxFaults \in Nat

(***************************************************************************)
(* The inductive invariant.  Places: queue, buffers and batches are        *)
(* disjoint, no buffer or batch repeats a message, and exactly the         *)
(* unacknowledged are in one of them.  Rows: a batch at its second insert  *)
(* has the events of its messages; a message outside such a batch was      *)
(* stored once per fault.                                                  *)
(***************************************************************************)
Contents == {Content[m] : m \in Message}
BatchRecord == [queue : AuditQueue, entries : Seq(Message), pc : {"events", "extras", "delay"}]

Types ==
  /\ AuditTypeOK
  /\ buffer \in [AuditQueue -> Seq(Message)]
  /\ flight \subseteq BatchRecord
  /\ retries \in [Contents -> Nat] /\ failed \in [Contents -> Nat]
  /\ events \in [Message -> Nat] /\ extras \in [Message -> Nat]

Timers == \A q \in AuditQueue : q \in timer <=> buffer[q] # <<>>

Distinct(s) == \A i, j \in DOMAIN s : s[i] = s[j] => i = j

Held(m) ==
  \/ m \in ready
  \/ \E q \in AuditQueue : m \in ToSet(buffer[q])
  \/ \E f \in flight : m \in ToSet(f.entries)

Places ==
  /\ \A q \in AuditQueue : Distinct(buffer[q])
  /\ \A q \in AuditQueue : \A m \in ToSet(buffer[q]) : QueueOf(m) = q /\ m \notin ready
  /\ \A f \in flight : Distinct(f.entries)
  /\ \A f \in flight : \A m \in ToSet(f.entries) :
       /\ m \notin ready
       /\ \A q \in AuditQueue : m \notin ToSet(buffer[q])
       /\ \A g \in flight : m \in ToSet(g.entries) => f = g
  /\ \A m \in Message : acked[m] = "no" <=> Held(m)

AtExtras(m) == \E f \in flight : f.pc = "extras" /\ m \in ToSet(f.entries)

Rows ==
  /\ \A m \in Message : AtExtras(m) => events[m] > 0
  /\ \A m \in Message : acked[m] = "no" => extras[m] <= auditFaults
  /\ \A m \in Message : acked[m] = "no" /\ ~ AtExtras(m) => events[m] <= auditFaults
  /\ StoredMeansRows /\ DuplicatesNeedFaults

Counters == PoisonWasTried /\ \A c \in Contents : retries[c] <= failed[c]

IInv == Types /\ Timers /\ Places /\ Rows /\ Counters

LEMMA AppendFacts ==
  ASSUME NEW s \in Seq(Message), NEW m \in Message
  PROVE  /\ Append(s, m) \in Seq(Message)
         /\ Append(s, m) # <<>> /\ Len(Append(s, m)) = Len(s) + 1
         /\ ToSet(Append(s, m)) = ToSet(s) \cup {m}
         /\ Distinct(s) /\ m \notin ToSet(s) => Distinct(Append(s, m))
<1> DEFINE t == Append(s, m)
<1>1. t \in Seq(Message) /\ Len(t) = Len(s) + 1 /\ t # <<>>
  <2>1. t \in Seq(Message) /\ Len(t) = Len(s) + 1 /\ Len(s) \in Nat
    OBVIOUS
  <2>2. Len(<<>>) = 0
    OBVIOUS
  <2>3. QED
    BY <2>1, <2>2
<1>2. /\ \A i \in 1 .. Len(s) : t[i] = s[i]
      /\ t[Len(s) + 1] = m
  OBVIOUS
<1>3. Len(s) \in Nat /\ DOMAIN s = 1 .. Len(s) /\ DOMAIN t = 1 .. Len(s) + 1
  BY <1>1
<1>4. ToSet(t) = ToSet(s) \cup {m}
  <2>1. \A x \in ToSet(t) : x \in ToSet(s) \cup {m}
    BY <1>2, <1>3 DEF ToSet
  <2>2. m \in ToSet(t)
    BY <1>2, <1>3 DEF ToSet
  <2>3. \A x \in ToSet(s) : x \in ToSet(t)
    BY <1>2, <1>3 DEF ToSet
  <2>4. QED
    BY <2>1, <2>2, <2>3
<1>5. ASSUME Distinct(s), m \notin ToSet(s)
      PROVE  Distinct(t)
  <2>1. \A i \in 1 .. Len(s) : s[i] # m
    BY <1>3, <1>5 DEF ToSet
  <2>2. \A i, j \in 1 .. Len(s) + 1 : t[i] = t[j] => i = j
    BY <1>2, <1>3, <1>5, <2>1 DEF Distinct
  <2>3. QED
    BY <1>3, <2>2 DEF Distinct
<1>6. QED
  BY <1>1, <1>4, <1>5

LEMMA SetFacts ==
  /\ ToSet(<<>>) = {} /\ Distinct(<<>>) /\ <<>> \in Seq(Message) /\ Len(<<>>) = 0
  /\ \A s \in Seq(Message) : ToSet(s) \subseteq Message
<1>1. DOMAIN <<>> = {} /\ <<>> \in Seq(Message) /\ Len(<<>>) = 0
  OBVIOUS
<1>2. ToSet(<<>>) = {} /\ Distinct(<<>>)
  BY <1>1 DEF ToSet, Distinct
<1>3. \A s \in Seq(Message) : ToSet(s) \subseteq Message
  <2> SUFFICES ASSUME NEW s \in Seq(Message), NEW i \in DOMAIN s PROVE s[i] \in Message
    BY DEF ToSet
  <2>1. QED
    OBVIOUS
<1>4. QED
  BY <1>1, <1>2, <1>3

LEMMA QueueFacts ==
  ASSUME Configured, NEW m \in Message
  PROVE  QueueOf(m) \in AuditQueue
BY DEF Configured, Kinds, QueueOf, AuditQueue

\* The two ways a batch is written: taken from a buffer, and moved to its next step.
LEMMA BatchFacts ==
  ASSUME NEW q \in AuditQueue, NEW s \in Seq(Message)
  PROVE  /\ Batch(q, s) \in BatchRecord
         /\ Batch(q, s).queue = q /\ Batch(q, s).entries = s /\ Batch(q, s).pc = "events"
BY DEF Batch, BatchRecord

LEMMA MoveFacts ==
  ASSUME NEW f \in BatchRecord, NEW p \in {"events", "extras", "delay"}
  PROVE  /\ [f EXCEPT !.pc = p] \in BatchRecord
         /\ [f EXCEPT !.pc = p].queue = f.queue
         /\ [f EXCEPT !.pc = p].entries = f.entries
         /\ [f EXCEPT !.pc = p].pc = p
BY DEF BatchRecord

\* What a retry counter becomes: it stays below maxRetries, and comes back to zero from
\* maxRetries failures on only.
LEMMA ModFacts ==
  ASSUME NEW a \in Nat, NEW b \in Nat \ {0}
  PROVE  /\ a % b \in Nat /\ a % b < b /\ a % b <= a
         /\ a % b = 0 /\ a >= 1 => a >= b
<1>1. a % b \in 0 .. b - 1
  OBVIOUS
<1>2. ASSUME a < b PROVE a % b = a
  BY <1>2
<1>3. QED
  BY <1>1, <1>2

LEMMA FailureFacts ==
  ASSUME NEW f \in BatchRecord, NEW i \in 0 .. Len(f.entries), NEW c
  PROVE  /\ Failures(f, i, c) \in Nat
         /\ Failures(f, i, c) <= Failures(f, Len(f.entries), c)
         /\ i \in DOMAIN f.entries /\ Content[f.entries[i]] = c => Failures(f, i, c) >= 1
<1> DEFINE n == Len(f.entries)
           S(k) == {j \in 1 .. k : Content[f.entries[j]] = c}
<1>1. f.entries \in Seq(Message) /\ n \in Nat /\ DOMAIN f.entries = 1 .. n
  BY DEF BatchRecord
<1>2. IsFiniteSet(1 .. n)
  BY <1>1, FS_Interval
<1>3. S(i) \subseteq S(n) /\ S(n) \subseteq 1 .. n
  BY <1>1
<1>4. IsFiniteSet(S(n))
  BY <1>2, <1>3, FS_Subset
<1>5. IsFiniteSet(S(i)) /\ Cardinality(S(i)) <= Cardinality(S(n))
  BY <1>3, <1>4, FS_Subset
<1>6. Cardinality(S(i)) \in Nat
  BY <1>5, FS_CardinalityType
<1>7. ASSUME i \in DOMAIN f.entries, Content[f.entries[i]] = c
      PROVE  Cardinality(S(i)) >= 1
  <2>1. i \in S(i)
    BY <1>1, <1>7
  <2>2. Cardinality(S(i)) # 0
    BY <1>5, <2>1, FS_EmptySet
  <2>3. QED
    BY <1>6, <2>2
<1>8. QED
  BY <1>5, <1>6, <1>7 DEF Failures

(***************************************************************************)
(* Types and timers.                                                       *)
(***************************************************************************)
Sound(f) == f \in BatchRecord /\ Len(f.entries) \in 1 .. BatchSize

LEMMA SoundMeans ==
  ASSUME Types
  PROVE  \A f \in flight : Sound(f)
BY DEF Types, AuditTypeOK, Sound

\* Whatever a step does to the batches, they stay sound, and the other parts keep their types.
LEMMA TypesOf ==
  ASSUME Configured,
         ready' \subseteq Message,
         buffer' \in [AuditQueue -> Seq(Message)],
         \A q \in AuditQueue : Len(buffer'[q]) < BatchSize,
         timer' \subseteq AuditQueue,
         \A f \in flight' : Sound(f),
         retries' \in [Contents -> Nat], \A c \in Contents : retries'[c] < MaxRetries,
         failed' \in [Contents -> Nat],
         acked' \in [Message -> {"no", "stored", "poison", "discarded", "malformed"}],
         events' \in [Message -> Nat], extras' \in [Message -> Nat],
         auditFaults' \in 0 .. MaxFaults
  PROVE  Types'
<1>1. flight' \subseteq BatchRecord
  BY DEF Sound
<1>2. \A f \in flight' : /\ f.queue \in AuditQueue /\ f.pc \in {"events", "extras", "delay"}
                         /\ f.entries \in Seq(Message) /\ Len(f.entries) \in 1 .. BatchSize
  BY DEF Sound, BatchRecord
<1>3. AuditTypeOK'
  BY <1>2 DEF Configured, AuditTypeOK
<1>4. QED
  BY <1>1, <1>3 DEF Types

LEMMA TypesMeans ==
  ASSUME Types
  PROVE  /\ ready \subseteq Message
         /\ buffer \in [AuditQueue -> Seq(Message)]
         /\ \A q \in AuditQueue : Len(buffer[q]) < BatchSize
         /\ timer \subseteq AuditQueue
         /\ \A f \in flight : Sound(f)
         /\ retries \in [Contents -> Nat] /\ \A c \in Contents : retries[c] < MaxRetries
         /\ failed \in [Contents -> Nat]
         /\ acked \in [Message -> {"no", "stored", "poison", "discarded", "malformed"}]
         /\ events \in [Message -> Nat] /\ extras \in [Message -> Nat]
         /\ auditFaults \in 0 .. MaxFaults
BY DEF Types, AuditTypeOK, Sound

\* The rows and the outcomes after a step.
LEMMA StoredType ==
  ASSUME NEW held \in [Message -> Nat], NEW S
  PROVE  Stored(held, S) \in [Message -> Nat]
BY DEF Stored

LEMMA ResolveType ==
  ASSUME NEW f, NEW outcome \in {"stored", "discarded"}, Types, Resolve(f, outcome)
  PROVE  acked' \in [Message -> {"no", "stored", "poison", "discarded", "malformed"}]
BY TypesMeans DEF Resolve

LEMMA ForgetType ==
  ASSUME NEW f, Configured, Types, Forget(f)
  PROVE  /\ retries' \in [Contents -> Nat] /\ \A c \in Contents : retries'[c] < MaxRetries
         /\ \A c \in Contents : retries'[c] <= retries[c]
BY TypesMeans DEF Forget, Configured

LEMMA InitTypes == Configured /\ AuditInit => Types /\ Timers
<1> SUFFICES ASSUME Configured, AuditInit PROVE Types /\ Timers
  OBVIOUS
<1>1. AuditTypeOK
  <2>1. \A q \in AuditQueue : buffer[q] \in Seq(Message) /\ Len(buffer[q]) < BatchSize
    BY SetFacts DEF AuditInit, Configured
  <2>2. QED
    BY <2>1 DEF AuditInit, AuditTypeOK, Configured
<1>2. buffer \in [AuditQueue -> Seq(Message)]
  BY SetFacts DEF AuditInit
<1>3. flight \subseteq BatchRecord /\ retries \in [Contents -> Nat] /\ failed \in [Contents -> Nat]
  BY DEF AuditInit, Contents
<1>4. events \in [Message -> Nat] /\ extras \in [Message -> Nat]
  BY DEF AuditInit
<1>5. QED
  BY <1>1, <1>2, <1>3, <1>4 DEF Types, Timers, AuditInit

LEMMA TypesStep ==
  ASSUME Configured, Types, Timers, [AuditNext]_auditVars
  PROVE  Types' /\ Timers'
<1> USE TypesMeans
<1>1. ASSUME NEW m \in Message, ReceiveMalformed(m)
      PROVE  Types' /\ Timers'
  <2>1. Types'
    BY <1>1, TypesOf DEF ReceiveMalformed
  <2>2. QED
    BY <1>1, <2>1 DEF ReceiveMalformed, Timers
<1>2. ASSUME NEW m \in Message, Receive(m)
      PROVE  Types' /\ Timers'
  <2> DEFINE q == QueueOf(m)
             entries == Append(buffer[q], m)
  <2>1. q \in AuditQueue /\ buffer[q] \in Seq(Message) /\ Len(buffer[q]) < BatchSize
    BY QueueFacts
  <2>2. /\ entries \in Seq(Message) /\ entries # <<>> /\ Len(entries) = Len(buffer[q]) + 1
        /\ Len(buffer[q]) \in Nat
    BY <2>1, AppendFacts
  <2>3. <<>> \in Seq(Message) /\ Len(<<>>) = 0
    BY SetFacts
  <2>4. /\ ready' \subseteq Message
        /\ UNCHANGED <<retries, acked, events, extras, failed, auditFaults>>
    BY <1>2 DEF Receive
  <2>5. CASE Len(entries) >= BatchSize
    <3>1. /\ flight' = flight \cup {Batch(q, entries)}
          /\ buffer' = [buffer EXCEPT ![q] = <<>>]
          /\ timer' = timer \ {q}
      BY <1>2, <2>5 DEF Receive
    <3>2. Sound(Batch(q, entries))
      <4>1. Batch(q, entries) \in BatchRecord /\ Batch(q, entries).entries = entries
        BY <2>1, <2>2, BatchFacts
      <4>2. Len(entries) \in 1 .. BatchSize
        BY <2>1, <2>2 DEF Configured
      <4>3. QED
        BY <4>1, <4>2 DEF Sound
    <3>3. /\ buffer' \in [AuditQueue -> Seq(Message)]
          /\ \A p \in AuditQueue : buffer'[p] = IF p = q THEN <<>> ELSE buffer[p]
      BY <2>1, <2>3, <3>1
    <3>4. \A p \in AuditQueue : Len(buffer'[p]) < BatchSize
      BY <2>3, <3>3 DEF Configured
    <3>5. Types'
      BY <2>4, <3>1, <3>2, <3>3, <3>4, TypesOf
    <3>6. QED
      BY <2>1, <3>1, <3>3, <3>5 DEF Timers
  <2>6. CASE ~ (Len(entries) >= BatchSize)
    <3>1. /\ flight' = flight
          /\ buffer' = [buffer EXCEPT ![q] = entries]
          /\ timer' = timer \cup {q}
      BY <1>2, <2>6 DEF Receive
    <3>3. /\ buffer' \in [AuditQueue -> Seq(Message)]
          /\ \A p \in AuditQueue : buffer'[p] = IF p = q THEN entries ELSE buffer[p]
      BY <2>1, <2>2, <3>1
    <3>4. \A p \in AuditQueue : Len(buffer'[p]) < BatchSize
      <4>1. Len(entries) < BatchSize
        BY <2>2, <2>6 DEF Configured
      <4> HIDE DEF entries, q
      <4>2. QED
        BY <3>3, <4>1
    <3>5. Types'
      BY <2>1, <2>4, <3>1, <3>3, <3>4, TypesOf
    <3>6. QED
      BY <2>1, <2>2, <3>1, <3>3, <3>5 DEF Timers
  <2>7. QED
    BY <2>5, <2>6
<1>3. ASSUME NEW q \in AuditQueue, TimerFires(q)
      PROVE  Types' /\ Timers'
  <2>1. /\ q \in timer /\ timer' = timer \ {q}
        /\ flight' = flight \cup {Batch(q, buffer[q])}
        /\ buffer' = [buffer EXCEPT ![q] = <<>>]
        /\ UNCHANGED <<ready, retries, acked, events, extras, failed, auditFaults>>
    BY <1>3 DEF TimerFires
  <2>2. buffer[q] \in Seq(Message) /\ buffer[q] # <<>> /\ Len(buffer[q]) < BatchSize
    BY <2>1 DEF Timers
  <2>3. Sound(Batch(q, buffer[q]))
    <3>1. Batch(q, buffer[q]) \in BatchRecord /\ Batch(q, buffer[q]).entries = buffer[q]
      BY <2>2, BatchFacts
    <3>2. Len(buffer[q]) \in 1 .. BatchSize
      BY <2>2 DEF Configured
    <3>3. QED
      BY <3>1, <3>2 DEF Sound
  <2>4. <<>> \in Seq(Message) /\ Len(<<>>) = 0
    BY SetFacts
  <2>5. /\ buffer' \in [AuditQueue -> Seq(Message)]
        /\ \A p \in AuditQueue : buffer'[p] = IF p = q THEN <<>> ELSE buffer[p]
    BY <2>1, <2>4
  <2>6. \A p \in AuditQueue : Len(buffer'[p]) < BatchSize
    BY <2>4, <2>5 DEF Configured
  <2>7. Types'
    BY <2>1, <2>3, <2>5, <2>6, TypesOf
  <2>8. QED
    BY <2>1, <2>5, <2>7 DEF Timers
<1>4. ASSUME NEW f \in flight, StoreEvents(f)
      PROVE  Types' /\ Timers'
  <2>1. /\ events' \in [Message -> Nat]
        /\ UNCHANGED <<ready, buffer, timer, extras, failed, auditFaults>>
    BY <1>4, StoredType DEF StoreEvents
  <2>2. CASE Extra(f) = {}
    <3>1. flight' = flight \ {f} /\ Resolve(f, "stored") /\ Forget(f)
      BY <1>4, <2>2 DEF StoreEvents
    <3>2. acked' \in [Message -> {"no", "stored", "poison", "discarded", "malformed"}]
      BY <3>1, ResolveType
    <3>3. retries' \in [Contents -> Nat] /\ \A c \in Contents : retries'[c] < MaxRetries
      BY <3>1, ForgetType
    <3>4. QED
      BY <2>1, <3>1, <3>2, <3>3, TypesOf DEF Timers
  <2>3. CASE Extra(f) # {}
    <3>1. flight' = (flight \ {f}) \cup {[f EXCEPT !.pc = "extras"]} /\ UNCHANGED <<acked, retries>>
      BY <1>4, <2>3 DEF StoreEvents
    <3>2. Sound([f EXCEPT !.pc = "extras"])
      BY MoveFacts DEF Sound
    <3>3. QED
      BY <2>1, <3>1, <3>2, TypesOf DEF Timers
  <2>4. QED
    BY <2>2, <2>3
<1>5. ASSUME NEW f \in flight, StoreExtras(f)
      PROVE  Types' /\ Timers'
  <2>1. /\ extras' \in [Message -> Nat]
        /\ UNCHANGED <<ready, buffer, timer, events, failed, auditFaults>>
        /\ flight' = flight \ {f} /\ Resolve(f, "stored") /\ Forget(f)
    BY <1>5, StoredType DEF StoreExtras
  <2>2. acked' \in [Message -> {"no", "stored", "poison", "discarded", "malformed"}]
    BY <2>1, ResolveType
  <2>3. retries' \in [Contents -> Nat] /\ \A c \in Contents : retries'[c] < MaxRetries
    BY <2>1, ForgetType
  <2>4. QED
    BY <2>1, <2>2, <2>3, TypesOf DEF Timers
<1>6. ASSUME NEW f \in flight, TransientFailure(f)
      PROVE  Types' /\ Timers'
  <2>1. events' \in [Message -> Nat] /\ extras' \in [Message -> Nat]
    <3>1. \/ UNCHANGED <<events, extras>>
          \/ events' = Stored(events, ToSet(f.entries)) /\ UNCHANGED extras
          \/ extras' = Stored(extras, Extra(f)) /\ UNCHANGED events
      BY <1>6 DEF TransientFailure
    <3>2. QED
      BY <3>1, StoredType
  <2>2. auditFaults' \in 0 .. MaxFaults
    BY <1>6 DEF TransientFailure, AuditFault, Configured
  <2>3. /\ flight' = (flight \ {f}) \cup {[f EXCEPT !.pc = "delay"]}
        /\ UNCHANGED <<ready, buffer, timer, retries, acked, failed>>
    BY <1>6 DEF TransientFailure
  <2>4. Sound([f EXCEPT !.pc = "delay"])
    BY MoveFacts DEF Sound
  <2>5. QED
    BY <2>1, <2>2, <2>3, <2>4, TypesOf DEF Timers
<1>7. ASSUME NEW f \in flight, PermanentFailure(f)
      PROVE  Types' /\ Timers'
  <2>1. auditFaults' \in 0 .. MaxFaults
    BY <1>7 DEF PermanentFailure, AuditFault, Configured
  <2>2. /\ UNCHANGED <<ready, buffer, timer, events, extras, failed>>
        /\ flight' = flight \ {f} /\ Resolve(f, "discarded") /\ Forget(f)
    BY <1>7 DEF PermanentFailure
  <2>3. acked' \in [Message -> {"no", "stored", "poison", "discarded", "malformed"}]
    BY <2>2, ResolveType
  <2>4. retries' \in [Contents -> Nat] /\ \A c \in Contents : retries'[c] < MaxRetries
    BY <2>2, ForgetType
  <2>5. QED
    BY <2>1, <2>2, <2>3, <2>4, TypesOf DEF Timers
<1>8. ASSUME NEW f \in flight, Settle(f)
      PROVE  Types' /\ Timers'
  <2> DEFINE n == Len(f.entries)
  <2>1. f \in BatchRecord /\ n \in 0 .. n /\ f.entries \in Seq(Message)
    BY DEF Sound, BatchRecord
  <2>2. \A c \in Contents : Failures(f, n, c) \in Nat
    BY <2>1, FailureFacts
  <2>3. /\ retries' = [c \in Contents |-> (retries[c] + Failures(f, n, c)) % MaxRetries]
        /\ failed' = [c \in Contents |-> failed[c] + Failures(f, n, c)]
    BY <1>8 DEF Settle
  <2>4. \A c \in Contents : /\ (retries[c] + Failures(f, n, c)) % MaxRetries \in Nat
                            /\ (retries[c] + Failures(f, n, c)) % MaxRetries < MaxRetries
    BY <2>2, ModFacts DEF Configured
  <2>5. retries' \in [Contents -> Nat] /\ \A c \in Contents : retries'[c] < MaxRetries
    BY <2>3, <2>4
  <2>6. failed' \in [Contents -> Nat]
    BY <2>2, <2>3
  <2>7. /\ ready' \subseteq Message
        /\ acked' \in [Message -> {"no", "stored", "poison", "discarded", "malformed"}]
        /\ flight' = flight \ {f}
        /\ UNCHANGED <<buffer, timer, events, extras, auditFaults>>
    BY <1>8, <2>1, SetFacts DEF Settle
  <2>8. QED
    BY <2>5, <2>6, <2>7, TypesOf DEF Timers
<1>9. ASSUME AuditCrash
      PROVE  Types' /\ Timers'
  <2>1. <<>> \in Seq(Message) /\ Len(<<>>) = 0
    BY SetFacts
  <2>2. auditFaults' \in 0 .. MaxFaults
    BY <1>9 DEF AuditCrash, AuditFault, Configured
  <2>3. \A q \in AuditQueue : Unacked(q) \subseteq Message
    <3>1. \A p \in AuditQueue : Entries(p) \subseteq Message
      BY DEF Entries
    <3>2. InFlight \subseteq Message
      BY SetFacts DEF InFlight, Sound, BatchRecord
    <3>3. QED
      BY <3>1, <3>2 DEF Unacked
  <2>4. ready' \subseteq Message
    BY <1>9, <2>3 DEF AuditCrash
  <2>5. /\ buffer' = [q \in AuditQueue |-> <<>>] /\ timer' = {} /\ flight' = {}
        /\ retries' = [c \in Contents |-> 0]
        /\ UNCHANGED <<acked, events, extras, failed>>
    BY <1>9 DEF AuditCrash
  <2>6. /\ buffer' \in [AuditQueue -> Seq(Message)]
        /\ \A q \in AuditQueue : Len(buffer'[q]) < BatchSize
        /\ retries' \in [Contents -> Nat] /\ \A c \in Contents : retries'[c] < MaxRetries
    BY <2>1, <2>5 DEF Configured
  <2>7. QED
    BY <2>2, <2>4, <2>5, <2>6, TypesOf DEF Timers
<1>10. ASSUME UNCHANGED auditVars
       PROVE  Types' /\ Timers'
  BY <1>10, TypesOf DEF auditVars, Timers
<1>11. QED
  BY <1>1, <1>2, <1>3, <1>4, <1>5, <1>6, <1>7, <1>8, <1>9, <1>10 DEF AuditNext, AuditProgress

(***************************************************************************)
(* Places.                                                                 *)
(***************************************************************************)
LEMMA PlacesMean ==
  ASSUME Types, Places
  PROVE  /\ \A q \in AuditQueue : Distinct(buffer[q])
         /\ \A q \in AuditQueue : \A m \in ToSet(buffer[q]) : m \in Message /\ QueueOf(m) = q /\ m \notin ready
         /\ \A f \in flight : Distinct(f.entries)
         /\ \A f \in flight : \A m \in ToSet(f.entries) :
              /\ m \in Message /\ m \notin ready
              /\ \A q \in AuditQueue : m \notin ToSet(buffer[q])
              /\ \A g \in flight : m \in ToSet(g.entries) => f = g
         /\ \A m \in Message : acked[m] = "no" <=> Held(m)
<1>1. \A q \in AuditQueue : ToSet(buffer[q]) \subseteq Message
  BY TypesMeans, SetFacts
<1>2. \A f \in flight : ToSet(f.entries) \subseteq Message
  BY TypesMeans, SetFacts DEF Sound, BatchRecord
<1>3. QED
  BY <1>1, <1>2 DEF Places

\* A buffered message and one more, or none, become a batch of their own.
LEMMA Flushed ==
  ASSUME Types, Places, NEW q \in AuditQueue, NEW b, NEW S,
         ToSet(b.entries) = ToSet(buffer[q]) \cup S,
         Distinct(b.entries),
         S \subseteq ready, ready' = ready \ S,
         flight' = flight \cup {b},
         \A p \in AuditQueue : buffer'[p] = IF p = q THEN <<>> ELSE buffer[p],
         UNCHANGED acked
  PROVE  Places'
<1> USE PlacesMean
<1>1. \A p \in AuditQueue : ToSet(buffer'[p]) = IF p = q THEN {} ELSE ToSet(buffer[p])
  BY SetFacts
<1>2. \A p \in AuditQueue : Distinct(buffer'[p])
  BY SetFacts
<1>3. \A p \in AuditQueue : \A m \in ToSet(buffer'[p]) : QueueOf(m) = p /\ m \notin ready'
  BY <1>1
<1>4. \A f \in flight' : Distinct(f.entries)
  OBVIOUS
<1>5. ready \subseteq Message /\ ToSet(b.entries) \subseteq Message
  BY TypesMeans
<1>6. \A m \in ToSet(b.entries) : \A f \in flight : m \notin ToSet(f.entries)
  OBVIOUS
<1>7. \A m \in ToSet(b.entries) : m \notin ready' /\ \A p \in AuditQueue : m \notin ToSet(buffer'[p])
  <2>1. \A m \in S : \A p \in AuditQueue : m \notin ToSet(buffer[p])
    OBVIOUS
  <2>2. \A m \in ToSet(buffer[q]) : \A p \in AuditQueue : m \in ToSet(buffer[p]) => p = q
    OBVIOUS
  <2>3. QED
    BY <1>1, <2>1, <2>2
<1>8. \A f \in flight' : \A m \in ToSet(f.entries) :
        /\ m \notin ready'
        /\ \A p \in AuditQueue : m \notin ToSet(buffer'[p])
        /\ \A g \in flight' : m \in ToSet(g.entries) => f = g
  BY <1>1, <1>6, <1>7
<1>9. \A m \in Message : Held(m)' <=> Held(m)
  BY <1>1 DEF Held
<1>10. QED
  BY <1>2, <1>3, <1>4, <1>8, <1>9 DEF Places

\* A batch at its next step holds what it held.
LEMMA Advanced ==
  ASSUME Types, Places, NEW f \in flight, NEW p \in {"events", "extras", "delay"},
         flight' = (flight \ {f}) \cup {[f EXCEPT !.pc = p]},
         UNCHANGED <<ready, buffer, acked>>
  PROVE  Places'
<1> USE PlacesMean
<1> DEFINE g == [f EXCEPT !.pc = p]
<1>1. g.entries = f.entries
  BY TypesMeans, MoveFacts DEF Sound
<1>2. flight' = (flight \ {f}) \cup {g}
  OBVIOUS
<1> HIDE DEF g
<1>3. \A h \in flight' : Distinct(h.entries)
  BY <1>1, <1>2
<1>4. \A h \in flight' : \A m \in ToSet(h.entries) :
        /\ m \notin ready'
        /\ \A q \in AuditQueue : m \notin ToSet(buffer'[q])
        /\ \A k \in flight' : m \in ToSet(k.entries) => h = k
  BY <1>1, <1>2
<1>5. \A m \in Message : Held(m)' <=> Held(m)
  BY <1>1, <1>2 DEF Held
<1>6. QED
  BY <1>3, <1>4, <1>5 DEF Places

\* A batch leaves: of its messages some return to their queue, the others are acknowledged.
LEMMA Finished ==
  ASSUME Types, Places, NEW f \in flight, NEW S \in SUBSET ToSet(f.entries),
         flight' = flight \ {f},
         ready' = ready \cup S,
         \A m \in ToSet(f.entries) \ S : acked'[m] # "no",
         \A m \in Message \ (ToSet(f.entries) \ S) : acked'[m] = acked[m],
         UNCHANGED buffer
  PROVE  Places'
<1> USE PlacesMean
<1>1. \A q \in AuditQueue : \A m \in ToSet(buffer'[q]) : QueueOf(m) = q /\ m \notin ready'
  OBVIOUS
<1>2. \A g \in flight' : \A m \in ToSet(g.entries) :
        /\ m \notin ready'
        /\ \A q \in AuditQueue : m \notin ToSet(buffer'[q])
        /\ \A h \in flight' : m \in ToSet(h.entries) => g = h
  OBVIOUS
<1>3. ASSUME NEW m \in Message
      PROVE  acked'[m] = "no" <=> Held(m)'
  <2>1. CASE m \in S
    <3>1. acked[m] = "no"
      BY <2>1 DEF Held
    <3>2. acked'[m] = "no" /\ Held(m)'
      BY <2>1, <3>1 DEF Held
    <3>3. QED
      BY <3>2
  <2>2. CASE m \in ToSet(f.entries) \ S
    <3>1. acked'[m] # "no"
      BY <2>2
    <3>2. ~ Held(m)'
      BY <2>2 DEF Held
    <3>3. QED
      BY <3>1, <3>2
  <2>3. CASE m \notin ToSet(f.entries)
    <3>1. acked'[m] = acked[m]
      BY <2>3
    <3>2. Held(m)' <=> Held(m)
      BY <2>3 DEF Held
    <3>3. QED
      BY <3>1, <3>2
  <2>4. QED
    BY <2>1, <2>2, <2>3
<1>4. QED
  BY <1>1, <1>2, <1>3 DEF Places

LEMMA ResolvedAll ==
  ASSUME Types, Places, NEW f \in flight, NEW outcome \in {"stored", "discarded"},
         flight' = flight \ {f}, Resolve(f, outcome), UNCHANGED <<ready, buffer>>
  PROVE  Places'
<1> DEFINE S == {}
<1>1. S \in SUBSET ToSet(f.entries) /\ ready' = ready \cup S
  OBVIOUS
<1>2. \A m \in ToSet(f.entries) \ S : acked'[m] # "no"
  BY PlacesMean DEF Resolve
<1>3. \A m \in Message \ (ToSet(f.entries) \ S) : acked'[m] = acked[m]
  BY DEF Resolve
<1> HIDE DEF S
<1>4. QED
  BY <1>1, <1>2, <1>3, Finished

LEMMA InitPlaces == AuditInit => Places
<1> SUFFICES ASSUME AuditInit PROVE Places
  OBVIOUS
<1>1. \A q \in AuditQueue : ToSet(buffer[q]) = {} /\ Distinct(buffer[q])
  BY SetFacts DEF AuditInit
<1>2. ready = Message /\ flight = {} /\ \A m \in Message : acked[m] = "no"
  BY DEF AuditInit
<1>3. QED
  BY <1>1, <1>2 DEF Places, Held

LEMMA GivenUpHere ==
  ASSUME Types, NEW f \in flight
  PROVE  GivenUp(f) \subseteq ToSet(f.entries)
BY DEF GivenUp, ToSet

LEMMA PlacesStep ==
  ASSUME Configured, Types, Timers, Places, [AuditNext]_auditVars
  PROVE  Places'
<1>1. ASSUME NEW m \in Message, ReceiveMalformed(m)
      PROVE  Places'
  <2>1. /\ m \in ready /\ ready' = ready \ {m} /\ UNCHANGED <<buffer, flight>>
        /\ acked' = [acked EXCEPT ![m] = "malformed"]
    BY <1>1 DEF ReceiveMalformed
  <2>2. acked'[m] = "malformed" /\ \A x \in Message \ {m} : acked'[x] = acked[x]
    BY <2>1, TypesMeans
  <2>3. \A q \in AuditQueue : m \notin ToSet(buffer[q])
    BY <2>1, PlacesMean
  <2>4. \A f \in flight : m \notin ToSet(f.entries)
    BY <2>1, PlacesMean
  <2>5. ~ Held(m)' /\ \A x \in Message \ {m} : Held(x)' <=> Held(x)
    BY <2>1, <2>3, <2>4 DEF Held
  <2>6. \A x \in Message : acked'[x] = "no" <=> Held(x)'
    BY <2>2, <2>5, PlacesMean
  <2>7. QED
    BY <2>1, <2>6, PlacesMean DEF Places
<1>2. ASSUME NEW m \in Message, Receive(m)
      PROVE  Places'
  <2> DEFINE q == QueueOf(m)
             entries == Append(buffer[q], m)
  <2>1. q \in AuditQueue /\ buffer[q] \in Seq(Message) /\ buffer \in [AuditQueue -> Seq(Message)]
    BY QueueFacts, TypesMeans
  <2>2. /\ m \in ready /\ ready' = ready \ {m} /\ UNCHANGED acked
    BY <1>2 DEF Receive
  <2>3. m \notin ToSet(buffer[q]) /\ Distinct(buffer[q])
    BY <2>1, <2>2, PlacesMean
  <2>4. entries \in Seq(Message) /\ ToSet(entries) = ToSet(buffer[q]) \cup {m} /\ Distinct(entries)
    BY <2>1, <2>3, AppendFacts
  <2>5. CASE Len(entries) >= BatchSize
    <3> DEFINE b == Batch(q, entries)
    <3>1. flight' = flight \cup {b} /\ buffer' = [buffer EXCEPT ![q] = <<>>]
      BY <1>2, <2>5 DEF Receive
    <3>2. b.entries = entries
      BY <2>1, <2>4, BatchFacts
    <3>3. \A p \in AuditQueue : buffer'[p] = IF p = q THEN <<>> ELSE buffer[p]
      BY <2>1, <3>1
    <3>4. ToSet(b.entries) = ToSet(buffer[q]) \cup {m} /\ Distinct(b.entries)
      BY <2>4, <3>2
    <3>5. {m} \subseteq ready
      BY <2>2
    <3> HIDE DEF b, entries, q
    <3>6. QED
      BY <2>1, <2>2, <3>1, <3>3, <3>4, <3>5, Flushed
  <2>6. CASE ~ (Len(entries) >= BatchSize)
    <3>1. flight' = flight /\ buffer' = [buffer EXCEPT ![q] = entries]
      BY <1>2, <2>6 DEF Receive
    <3>2. \A p \in AuditQueue : buffer'[p] = IF p = q THEN entries ELSE buffer[p]
      BY <2>1, <3>1
    <3>3. \A p \in AuditQueue : ToSet(buffer'[p]) = IF p = q THEN ToSet(buffer[q]) \cup {m} ELSE ToSet(buffer[p])
      BY <2>4, <3>2
    <3>4. \A p \in AuditQueue : Distinct(buffer'[p])
      BY <2>4, <3>2, PlacesMean
    <3>5. \A p \in AuditQueue : \A x \in ToSet(buffer'[p]) : QueueOf(x) = p /\ x \notin ready'
      BY <2>2, <3>3, PlacesMean
    <3>6. \A f \in flight : m \notin ToSet(f.entries)
      BY <2>2, PlacesMean
    <3>7. \A f \in flight' : \A x \in ToSet(f.entries) :
            /\ x \notin ready'
            /\ \A p \in AuditQueue : x \notin ToSet(buffer'[p])
            /\ \A g \in flight' : x \in ToSet(g.entries) => f = g
      BY <2>2, <3>1, <3>3, <3>6, PlacesMean
    <3>8. \A x \in Message : Held(x)' <=> Held(x)
      BY <2>1, <2>2, <3>1, <3>3 DEF Held
    <3>9. QED
      BY <2>2, <3>1, <3>4, <3>5, <3>7, <3>8, PlacesMean DEF Places
  <2>7. QED
    BY <2>5, <2>6
<1>3. ASSUME NEW q \in AuditQueue, TimerFires(q)
      PROVE  Places'
  <2> DEFINE b == Batch(q, buffer[q])
             S == {}
  <2>1. /\ flight' = flight \cup {b} /\ buffer' = [buffer EXCEPT ![q] = <<>>]
        /\ ready' = ready \ S /\ S \subseteq ready /\ UNCHANGED acked
    BY <1>3 DEF TimerFires
  <2>2. buffer \in [AuditQueue -> Seq(Message)]
    BY TypesMeans
  <2>3. b.entries = buffer[q]
    BY <2>2, BatchFacts
  <2>4. \A p \in AuditQueue : buffer'[p] = IF p = q THEN <<>> ELSE buffer[p]
    BY <2>1, <2>2
  <2>5. ToSet(b.entries) = ToSet(buffer[q]) \cup S /\ Distinct(b.entries)
    BY <2>3, PlacesMean
  <2> HIDE DEF b, S
  <2>6. QED
    BY <2>1, <2>4, <2>5, Flushed
<1>4. ASSUME NEW f \in flight, StoreEvents(f)
      PROVE  Places'
  <2>1. CASE Extra(f) = {}
    BY <1>4, <2>1, ResolvedAll DEF StoreEvents
  <2>2. CASE Extra(f) # {}
    BY <1>4, <2>2, Advanced DEF StoreEvents
  <2>3. QED
    BY <2>1, <2>2
<1>5. ASSUME NEW f \in flight, StoreExtras(f)
      PROVE  Places'
  BY <1>5, ResolvedAll DEF StoreExtras
<1>6. ASSUME NEW f \in flight, TransientFailure(f)
      PROVE  Places'
  BY <1>6, Advanced DEF TransientFailure
<1>7. ASSUME NEW f \in flight, PermanentFailure(f)
      PROVE  Places'
  BY <1>7, ResolvedAll DEF PermanentFailure
<1>8. ASSUME NEW f \in flight, Settle(f)
      PROVE  Places'
  <2> DEFINE S == ToSet(f.entries) \ GivenUp(f)
  <2>1. /\ flight' = flight \ {f} /\ ready' = ready \cup S /\ UNCHANGED buffer
        /\ acked' = [m \in Message |-> IF m \in GivenUp(f) THEN "poison" ELSE acked[m]]
    BY <1>8 DEF Settle
  <2>2. ToSet(f.entries) \ S = GivenUp(f) /\ ToSet(f.entries) \subseteq Message
    BY GivenUpHere, PlacesMean
  <2>3. /\ S \in SUBSET ToSet(f.entries)
        /\ \A m \in ToSet(f.entries) \ S : acked'[m] # "no"
        /\ \A m \in Message \ (ToSet(f.entries) \ S) : acked'[m] = acked[m]
    BY <2>1, <2>2
  <2> HIDE DEF S
  <2>4. QED
    BY <2>1, <2>3, Finished
<1>9. ASSUME AuditCrash
      PROVE  Places'
  <2>1. /\ ready' = ready \cup UNION {Unacked(q) : q \in AuditQueue}
        /\ flight' = {} /\ UNCHANGED acked
        /\ \A q \in AuditQueue : buffer'[q] = <<>>
    BY <1>9 DEF AuditCrash
  <2>2. \A q \in AuditQueue : ToSet(buffer'[q]) = {} /\ Distinct(buffer'[q])
    BY <2>1, SetFacts
  <2>3. ASSUME NEW m \in Message
        PROVE  m \in ready' <=> Held(m)
    <3>1. \A q \in AuditQueue : Entries(q) = ToSet(buffer[q])
      BY DEF Entries, ToSet
    <3>2. m \in UNION {Entries(q) : q \in AuditQueue} <=> \E q \in AuditQueue : m \in ToSet(buffer[q])
      BY <3>1
    <3>3. m \in InFlight <=> \E f \in flight : m \in ToSet(f.entries)
      BY DEF InFlight
    <3>4. m \in UNION {Unacked(q) : q \in AuditQueue}
            <=> m \in (UNION {Entries(q) : q \in AuditQueue}) \cup InFlight
      BY QueueFacts DEF Unacked
    <3>5. QED
      BY <2>1, <3>2, <3>3, <3>4 DEF Held
  <2>4. \A m \in Message : Held(m)' <=> Held(m)
    BY <2>1, <2>2, <2>3 DEF Held
  <2>5. QED
    BY <2>1, <2>2, <2>4, PlacesMean DEF Places
<1>10. ASSUME UNCHANGED auditVars
       PROVE  Places'
  BY <1>10 DEF auditVars, Places, Held
<1>11. QED
  BY <1>1, <1>2, <1>3, <1>4, <1>5, <1>6, <1>7, <1>8, <1>9, <1>10 DEF AuditNext, AuditProgress

(***************************************************************************)
(* Rows.                                                                   *)
(***************************************************************************)
LEMMA RowsMean ==
  ASSUME Types, Rows
  PROVE  \A m \in Message :
           /\ events[m] \in Nat /\ extras[m] \in Nat /\ auditFaults \in Nat
           /\ AtExtras(m) => events[m] > 0
           /\ acked[m] = "no" => extras[m] <= auditFaults
           /\ acked[m] = "no" /\ ~ AtExtras(m) => events[m] <= auditFaults
           /\ acked[m] = "stored" => events[m] > 0 /\ (HasExtra(m) => extras[m] > 0)
           /\ events[m] <= 1 + auditFaults /\ extras[m] <= 1 + auditFaults
BY TypesMeans DEF Rows, StoredMeansRows, DuplicatesNeedFaults

\* The invariant follows message by message.
LEMMA RowsOf ==
  ASSUME \A m \in Message :
           /\ AtExtras(m)' => events'[m] > 0
           /\ acked'[m] = "no" => extras'[m] <= auditFaults'
           /\ acked'[m] = "no" /\ ~ AtExtras(m)' => events'[m] <= auditFaults'
           /\ acked'[m] = "stored" => events'[m] > 0 /\ (HasExtra(m) => extras'[m] > 0)
           /\ events'[m] <= 1 + auditFaults' /\ extras'[m] <= 1 + auditFaults'
  PROVE  Rows'
BY DEF Rows, StoredMeansRows, DuplicatesNeedFaults, HasExtra

LEMMA InBatchMeans ==
  ASSUME Types, Places, NEW f \in flight, NEW m \in ToSet(f.entries)
  PROVE  m \in Message /\ acked[m] = "no" /\ (AtExtras(m) <=> f.pc = "extras")
<1>1. m \in Message /\ \A g \in flight : m \in ToSet(g.entries) => f = g
  BY PlacesMean
<1>2. Held(m)
  BY DEF Held
<1>3. QED
  BY <1>1, <1>2, PlacesMean DEF AtExtras

\* After a batch has left, its messages are at no second insert and the others are where they were.
LEMMA LeftExtras ==
  ASSUME Types, Places, NEW f \in flight, flight' = flight \ {f}
  PROVE  \A m \in Message : AtExtras(m)' <=> AtExtras(m) /\ m \notin ToSet(f.entries)
<1>1. ASSUME NEW m \in ToSet(f.entries) PROVE ~ AtExtras(m)'
  BY PlacesMean DEF AtExtras
<1>2. ASSUME NEW m \in Message, m \notin ToSet(f.entries) PROVE AtExtras(m)' <=> AtExtras(m)
  BY <1>2 DEF AtExtras
<1>3. QED
  BY <1>1, <1>2

LEMMA MovedExtras ==
  ASSUME Types, Places, NEW f \in flight, NEW p \in {"events", "extras", "delay"},
         flight' = (flight \ {f}) \cup {[f EXCEPT !.pc = p]}
  PROVE  \A m \in Message :
           AtExtras(m)' <=> IF m \in ToSet(f.entries) THEN p = "extras" ELSE AtExtras(m)
<1> DEFINE g == [f EXCEPT !.pc = p]
<1>1. g.entries = f.entries /\ g.pc = p /\ flight' = (flight \ {f}) \cup {g}
  BY TypesMeans, MoveFacts DEF Sound
<1> HIDE DEF g
<1>2. ASSUME NEW m \in ToSet(f.entries) PROVE AtExtras(m)' <=> p = "extras"
  BY <1>1, PlacesMean DEF AtExtras
<1>3. ASSUME NEW m \in Message, m \notin ToSet(f.entries) PROVE AtExtras(m)' <=> AtExtras(m)
  BY <1>1, <1>3 DEF AtExtras
<1>4. QED
  BY <1>2, <1>3

LEMMA RowsStep ==
  ASSUME Configured, Types, Timers, Places, Rows, [AuditNext]_auditVars
  PROVE  Rows'
<1>1. ASSUME NEW m \in Message, ReceiveMalformed(m)
      PROVE  Rows'
  <2>1. /\ m \in ready /\ UNCHANGED <<flight, events, extras, auditFaults>>
        /\ acked' = [acked EXCEPT ![m] = "malformed"]
    BY <1>1 DEF ReceiveMalformed
  <2>2. acked'[m] = "malformed" /\ \A x \in Message \ {m} : acked'[x] = acked[x]
    BY <2>1, TypesMeans
  <2>3. \A x \in Message : AtExtras(x)' <=> AtExtras(x)
    BY <2>1 DEF AtExtras
  <2>4. QED
    BY <2>1, <2>2, <2>3, RowsMean, RowsOf
<1>2. ASSUME UNCHANGED <<acked, events, extras, auditFaults>>,
             \A x \in Message : AtExtras(x)' <=> AtExtras(x)
      PROVE  Rows'
  BY <1>2, RowsMean, RowsOf
<1>3. ASSUME NEW m \in Message, Receive(m)
      PROVE  Rows'
  <2> DEFINE q == QueueOf(m)
             b == Batch(q, Append(buffer[q], m))
  <2>1. /\ flight' = flight \/ flight' = flight \cup {b}
        /\ UNCHANGED <<acked, events, extras, auditFaults>>
    BY <1>3 DEF Receive
  <2>2. b.pc # "extras"
    BY DEF Batch
  <2> HIDE DEF b
  <2>3. \A x \in Message : AtExtras(x)' <=> AtExtras(x)
    BY <2>1, <2>2 DEF AtExtras
  <2>4. QED
    BY <1>2, <2>1, <2>3
<1>4. ASSUME NEW q \in AuditQueue, TimerFires(q)
      PROVE  Rows'
  <2> DEFINE b == Batch(q, buffer[q])
  <2>1. flight' = flight \cup {b} /\ UNCHANGED <<acked, events, extras, auditFaults>>
    BY <1>4 DEF TimerFires
  <2>2. b.pc # "extras"
    BY DEF Batch
  <2> HIDE DEF b
  <2>3. \A x \in Message : AtExtras(x)' <=> AtExtras(x)
    BY <2>1, <2>2 DEF AtExtras
  <2>4. QED
    BY <1>2, <2>1, <2>3
<1>5. ASSUME NEW f \in flight, StoreEvents(f)
      PROVE  Rows'
  <2>1. /\ f.pc = "events" /\ UNCHANGED <<extras, auditFaults>>
        /\ events' = Stored(events, ToSet(f.entries))
    BY <1>5 DEF StoreEvents
  <2>2. \A m \in Message : events'[m] = IF m \in ToSet(f.entries) THEN events[m] + 1 ELSE events[m]
    BY <2>1 DEF Stored
  <2>3. \A m \in ToSet(f.entries) : m \in Message /\ acked[m] = "no" /\ ~ AtExtras(m)
    BY <2>1, InBatchMeans
  <2>4. CASE Extra(f) = {}
    <3>1. flight' = flight \ {f} /\ Resolve(f, "stored")
      BY <1>5, <2>4 DEF StoreEvents
    <3>2. \A m \in Message : acked'[m] = IF m \in ToSet(f.entries) THEN "stored" ELSE acked[m]
      BY <3>1 DEF Resolve
    <3>3. \A m \in Message : AtExtras(m)' <=> AtExtras(m) /\ m \notin ToSet(f.entries)
      BY <3>1, LeftExtras
    <3>4. \A m \in ToSet(f.entries) : ~ HasExtra(m)
      BY <2>4 DEF Extra
    <3>5. QED
      BY <2>1, <2>2, <2>3, <3>2, <3>3, <3>4, RowsMean, RowsOf
  <2>5. CASE Extra(f) # {}
    <3>1. flight' = (flight \ {f}) \cup {[f EXCEPT !.pc = "extras"]} /\ UNCHANGED acked
      BY <1>5, <2>5 DEF StoreEvents
    <3>2. \A m \in Message : AtExtras(m)' <=> IF m \in ToSet(f.entries) THEN TRUE ELSE AtExtras(m)
      BY <3>1, MovedExtras
    <3>3. QED
      BY <2>1, <2>2, <2>3, <3>1, <3>2, RowsMean, RowsOf
  <2>6. QED
    BY <2>4, <2>5
<1>6. ASSUME NEW f \in flight, StoreExtras(f)
      PROVE  Rows'
  <2>1. /\ f.pc = "extras" /\ UNCHANGED <<events, auditFaults>>
        /\ extras' = Stored(extras, Extra(f))
        /\ flight' = flight \ {f} /\ Resolve(f, "stored")
    BY <1>6 DEF StoreExtras
  <2>2. \A m \in Message : extras'[m] = IF m \in Extra(f) THEN extras[m] + 1 ELSE extras[m]
    BY <2>1 DEF Stored
  <2>3. \A m \in ToSet(f.entries) : m \in Message /\ acked[m] = "no" /\ AtExtras(m)
    BY <2>1, InBatchMeans
  <2>4. \A m \in Message : acked'[m] = IF m \in ToSet(f.entries) THEN "stored" ELSE acked[m]
    BY <2>1 DEF Resolve
  <2>5. \A m \in Message : AtExtras(m)' <=> AtExtras(m) /\ m \notin ToSet(f.entries)
    BY <2>1, LeftExtras
  <2>6. \A m \in Message : m \in Extra(f) <=> m \in ToSet(f.entries) /\ HasExtra(m)
    BY DEF Extra
  <2>7. QED
    BY <2>1, <2>2, <2>3, <2>4, <2>5, <2>6, RowsMean, RowsOf
<1>7. ASSUME NEW f \in flight, TransientFailure(f)
      PROVE  Rows'
  <2>1. /\ auditFaults' = auditFaults + 1 /\ UNCHANGED acked
        /\ flight' = (flight \ {f}) \cup {[f EXCEPT !.pc = "delay"]}
        /\ \/ UNCHANGED <<events, extras>>
           \/ f.pc = "events" /\ events' = Stored(events, ToSet(f.entries)) /\ UNCHANGED extras
           \/ f.pc = "extras" /\ extras' = Stored(extras, Extra(f)) /\ UNCHANGED events
    BY <1>7 DEF TransientFailure, AuditFault
  <2>2. \A m \in Message : AtExtras(m)' <=> IF m \in ToSet(f.entries) THEN FALSE ELSE AtExtras(m)
    BY <2>1, MovedExtras
  <2>3. \A m \in ToSet(f.entries) : m \in Message /\ acked[m] = "no" /\ (AtExtras(m) <=> f.pc = "extras")
    BY InBatchMeans
  <2>4. \A m \in Message \ ToSet(f.entries) : m \notin Extra(f)
    BY DEF Extra
  <2>5. \A m \in Message : \/ events'[m] = events[m]
                           \/ m \in ToSet(f.entries) /\ f.pc = "events" /\ events'[m] = events[m] + 1
    BY <2>1 DEF Stored
  <2>6. \A m \in Message : \/ extras'[m] = extras[m]
                           \/ m \in ToSet(f.entries) /\ extras'[m] = extras[m] + 1
    BY <2>1, <2>4 DEF Stored
  <2>7. QED
    BY <2>1, <2>2, <2>3, <2>5, <2>6, RowsMean, RowsOf
<1>8. ASSUME NEW f \in flight, PermanentFailure(f)
      PROVE  Rows'
  <2>1. /\ auditFaults' \in {auditFaults, auditFaults + 1} /\ UNCHANGED <<events, extras>>
        /\ flight' = flight \ {f} /\ Resolve(f, "discarded")
    BY <1>8 DEF PermanentFailure, AuditFault
  <2>2. \A m \in Message : acked'[m] = IF m \in ToSet(f.entries) THEN "discarded" ELSE acked[m]
    BY <2>1 DEF Resolve
  <2>3. \A m \in Message : AtExtras(m)' <=> AtExtras(m) /\ m \notin ToSet(f.entries)
    BY <2>1, LeftExtras
  <2>4. QED
    BY <2>1, <2>2, <2>3, RowsMean, RowsOf
<1>9. ASSUME NEW f \in flight, Settle(f)
      PROVE  Rows'
  <2>1. /\ f.pc = "delay" /\ flight' = flight \ {f} /\ UNCHANGED <<events, extras, auditFaults>>
        /\ acked' = [m \in Message |-> IF m \in GivenUp(f) THEN "poison" ELSE acked[m]]
    BY <1>9 DEF Settle
  <2>2. \A m \in Message : AtExtras(m)' <=> AtExtras(m) /\ m \notin ToSet(f.entries)
    BY <2>1, LeftExtras
  <2>3. \A m \in ToSet(f.entries) : ~ AtExtras(m)
    BY <2>1, InBatchMeans
  <2>4. \A m \in Message : AtExtras(m)' <=> AtExtras(m)
    BY <2>2, <2>3
  <2>5. \A m \in Message : acked'[m] \in {"poison", acked[m]}
    BY <2>1
  <2>6. QED
    BY <2>1, <2>4, <2>5, RowsMean, RowsOf
<1>10. ASSUME AuditCrash
       PROVE  Rows'
  <2>1. auditFaults' = auditFaults + 1 /\ flight' = {} /\ UNCHANGED <<acked, events, extras>>
    BY <1>10 DEF AuditCrash, AuditFault
  <2>2. \A m \in Message : ~ AtExtras(m)'
    BY <2>1 DEF AtExtras
  <2>3. QED
    BY <2>1, <2>2, RowsMean, RowsOf
<1>11. ASSUME UNCHANGED auditVars
       PROVE  Rows'
  BY <1>2, <1>11 DEF auditVars, AtExtras
<1>12. QED
  BY <1>1, <1>3, <1>4, <1>5, <1>6, <1>7, <1>8, <1>9, <1>10, <1>11 DEF AuditNext, AuditProgress

(***************************************************************************)
(* Retry counters.                                                         *)
(***************************************************************************)
LEMMA CountersOf ==
  ASSUME Types, Counters,
         \A c \in Contents : failed'[c] = failed[c] /\ retries'[c] \in Nat /\ retries'[c] <= retries[c],
         \A m \in Message : acked'[m] = "poison" => acked[m] = "poison"
  PROVE  Counters'
<1>1. \A m \in Message : Content[m] \in Contents
  BY DEF Contents
<1>2. \A c \in Contents : retries[c] \in Nat /\ failed[c] \in Nat
  BY TypesMeans
<1>3. QED
  BY <1>1, <1>2 DEF Counters, PoisonWasTried

LEMMA CountersStep ==
  ASSUME Configured, Types, Timers, Places, Counters, [AuditNext]_auditVars
  PROVE  Counters'
<1>1. \A c \in Contents : retries[c] \in Nat /\ failed[c] \in Nat /\ retries[c] <= failed[c]
  BY TypesMeans DEF Counters
<1>2. ASSUME NEW f \in flight, NEW outcome \in {"stored", "discarded"},
             Resolve(f, outcome), Forget(f), UNCHANGED failed
      PROVE  Counters'
  <2>1. \A m \in Message : acked'[m] = "poison" => acked[m] = "poison"
    BY <1>2 DEF Resolve
  <2>2. \A c \in Contents : retries'[c] \in Nat /\ retries'[c] <= retries[c]
    BY <1>2, ForgetType
  <2>3. QED
    BY <1>2, <2>1, <2>2, CountersOf
<1>3. ASSUME UNCHANGED <<retries, acked, failed>>
      PROVE  Counters'
  BY <1>1, <1>3, CountersOf
<1>4. ASSUME NEW m \in Message, ReceiveMalformed(m)
      PROVE  Counters'
  <2>1. UNCHANGED <<retries, failed>> /\ acked' = [acked EXCEPT ![m] = "malformed"]
    BY <1>4 DEF ReceiveMalformed
  <2>2. \A x \in Message : acked'[x] = "poison" => acked[x] = "poison"
    BY <2>1, TypesMeans
  <2>3. QED
    BY <1>1, <2>1, <2>2, CountersOf
<1>5. ASSUME NEW m \in Message, Receive(m)
      PROVE  Counters'
  BY <1>3, <1>5 DEF Receive
<1>6. ASSUME NEW q \in AuditQueue, TimerFires(q)
      PROVE  Counters'
  BY <1>3, <1>6 DEF TimerFires
<1>7. ASSUME NEW f \in flight, StoreEvents(f)
      PROVE  Counters'
  <2>1. \/ Resolve(f, "stored") /\ Forget(f) /\ UNCHANGED failed
        \/ UNCHANGED <<retries, acked, failed>>
    BY <1>7 DEF StoreEvents
  <2>2. QED
    BY <1>2, <1>3, <2>1
<1>8. ASSUME NEW f \in flight, StoreExtras(f)
      PROVE  Counters'
  BY <1>2, <1>8 DEF StoreExtras
<1>9. ASSUME NEW f \in flight, TransientFailure(f)
      PROVE  Counters'
  BY <1>3, <1>9 DEF TransientFailure
<1>10. ASSUME NEW f \in flight, PermanentFailure(f)
       PROVE  Counters'
  BY <1>2, <1>10 DEF PermanentFailure
<1>11. ASSUME NEW f \in flight, Settle(f)
       PROVE  Counters'
  <2> DEFINE n == Len(f.entries)
             After(i, c) == retries[c] + Failures(f, i, c)
  <2>1. f \in BatchRecord /\ n \in Nat /\ DOMAIN f.entries = 1 .. n /\ f.entries \in Seq(Message)
    BY TypesMeans DEF Sound, BatchRecord
  <2>2. /\ \A c \in Contents : retries'[c] = After(n, c) % MaxRetries
        /\ \A c \in Contents : failed'[c] = failed[c] + Failures(f, n, c)
        /\ acked' = [m \in Message |-> IF m \in GivenUp(f) THEN "poison" ELSE acked[m]]
    BY <1>11, TypesMeans DEF Settle
  <2>3. \A i \in 0 .. n, c \in Contents : /\ Failures(f, i, c) \in Nat /\ After(i, c) \in Nat
                                         /\ Failures(f, i, c) <= Failures(f, n, c)
    BY <1>1, <2>1, FailureFacts
  <2>4. \A c \in Contents : retries'[c] <= failed'[c]
    <3> SUFFICES ASSUME NEW c \in Contents PROVE retries'[c] <= failed'[c]
      OBVIOUS
    <3>1. n \in 0 .. n
      BY <2>1
    <3>2. After(n, c) \in Nat /\ Failures(f, n, c) \in Nat
      BY <2>3, <3>1
    <3>3. retries'[c] <= After(n, c) /\ retries'[c] \in Nat
      BY <2>2, <3>2, ModFacts DEF Configured
    <3>4. QED
      BY <1>1, <2>2, <3>2, <3>3
  <2>5. ASSUME NEW m \in GivenUp(f)
        PROVE  failed'[Content[m]] >= MaxRetries
    <3>1. PICK i \in DOMAIN f.entries :
            f.entries[i] = m /\ After(i, Content[m]) % MaxRetries = 0
      BY DEF GivenUp
    <3> DEFINE c == Content[m]
    <3>2. i \in 0 .. n /\ n \in 0 .. n /\ m \in Message /\ c \in Contents
      BY <2>1, <3>1 DEF Contents
    <3>3. Failures(f, i, c) >= 1
      BY <2>1, <3>1, <3>2, FailureFacts
    <3>4. /\ After(i, c) \in Nat /\ Failures(f, i, c) \in Nat /\ Failures(f, n, c) \in Nat
          /\ Failures(f, i, c) <= Failures(f, n, c) /\ retries[c] \in Nat /\ failed[c] \in Nat
          /\ retries[c] <= failed[c] /\ failed'[c] = failed[c] + Failures(f, n, c)
      BY <1>1, <2>2, <2>3, <3>2
    <3>5. After(i, c) >= 1
      BY <3>3, <3>4
    <3>6. After(i, c) >= MaxRetries
      BY <3>1, <3>4, <3>5, ModFacts DEF Configured
    <3>7. QED
      BY <3>4, <3>6 DEF Configured
  <2>6. ASSUME NEW m \in Message, acked'[m] = "poison"
        PROVE  failed'[Content[m]] >= MaxRetries
    <3>1. CASE m \in GivenUp(f)
      BY <2>5, <3>1
    <3>2. CASE m \notin GivenUp(f)
      <4>1. acked[m] = "poison" /\ Content[m] \in Contents
        BY <2>2, <2>6, <3>2 DEF Contents
      <4>2. failed[Content[m]] >= MaxRetries
        BY <4>1 DEF Counters, PoisonWasTried
      <4>3. /\ failed'[Content[m]] = failed[Content[m]] + Failures(f, n, Content[m])
            /\ Failures(f, n, Content[m]) \in Nat /\ failed[Content[m]] \in Nat
        BY <1>1, <2>1, <2>2, <2>3, <4>1
      <4>4. QED
        BY <4>2, <4>3 DEF Configured
    <3>3. QED
      BY <3>1, <3>2
  <2>7. QED
    BY <2>4, <2>6 DEF Counters, PoisonWasTried
<1>12. ASSUME AuditCrash
       PROVE  Counters'
  <2>1. /\ UNCHANGED <<acked, failed>> /\ retries' = [c \in DOMAIN retries |-> 0]
        /\ DOMAIN retries = Contents
    BY <1>12, TypesMeans DEF AuditCrash
  <2>2. QED
    BY <1>1, <2>1, CountersOf
<1>13. ASSUME UNCHANGED auditVars
       PROVE  Counters'
  BY <1>3, <1>13 DEF auditVars
<1>14. QED
  BY <1>4, <1>5, <1>6, <1>7, <1>8, <1>9, <1>10, <1>11, <1>12, <1>13 DEF AuditNext, AuditProgress

(***************************************************************************)
(* What the invariant is for.                                              *)
(***************************************************************************)
LEMMA Positions ==
  ASSUME Configured, Types, Places, NEW m \in Message
  PROVE  /\ \A q \in AuditQueue : DOMAIN buffer[q] \subseteq 1 .. BatchSize
         /\ \A f \in flight : DOMAIN f.entries \subseteq 1 .. BatchSize
<1>1. ASSUME NEW q \in AuditQueue PROVE DOMAIN buffer[q] \subseteq 1 .. BatchSize
  <2>1. buffer[q] \in Seq(Message) /\ Len(buffer[q]) < BatchSize
    BY TypesMeans
  <2>2. DOMAIN buffer[q] = 1 .. Len(buffer[q]) /\ Len(buffer[q]) \in Nat
    BY <2>1
  <2>3. QED
    BY <2>1, <2>2 DEF Configured
<1>2. ASSUME NEW f \in flight PROVE DOMAIN f.entries \subseteq 1 .. BatchSize
  <2>1. f.entries \in Seq(Message) /\ Len(f.entries) \in 1 .. BatchSize
    BY TypesMeans DEF Sound, BatchRecord
  <2>2. DOMAIN f.entries = 1 .. Len(f.entries)
    BY <2>1
  <2>3. QED
    BY <2>1, <2>2 DEF Configured
<1>3. QED
  BY <1>1, <1>2

LEMMA NoPlace ==
  ASSUME Types, Places, NEW m \in Message
  PROVE  /\ (\A q \in AuditQueue : m \notin ToSet(buffer[q])) => InBuffer(m) = {}
         /\ (\A f \in flight : m \notin ToSet(f.entries)) => InBatch(m) = {}
BY DEF InBuffer, InBatch, ToSet

LEMMA BufferPlace ==
  ASSUME Configured, Types, Places, NEW m \in Message, NEW q \in AuditQueue, m \in ToSet(buffer[q])
  PROVE  \E p : InBuffer(m) = {p}
<1>1. PICK i \in DOMAIN buffer[q] : buffer[q][i] = m
  BY DEF ToSet
<1>2. <<q, i>> \in InBuffer(m)
  BY <1>1, Positions DEF InBuffer
<1>3. ASSUME NEW p \in InBuffer(m) PROVE p = <<q, i>>
  <2>1. /\ p \in AuditQueue \X (1 .. BatchSize) /\ p[2] \in DOMAIN buffer[p[1]]
        /\ buffer[p[1]][p[2]] = m
    BY DEF InBuffer
  <2>2. p[1] \in AuditQueue /\ m \in ToSet(buffer[p[1]])
    BY <2>1 DEF ToSet
  <2>3. p[1] = q
    BY <2>2, PlacesMean
  <2>4. p[2] = i
    BY <1>1, <2>1, <2>3, PlacesMean DEF Distinct
  <2>5. QED
    BY <2>1, <2>3, <2>4
<1>4. InBuffer(m) = {<<q, i>>}
  BY <1>2, <1>3
<1>5. QED
  BY <1>4

LEMMA BatchPlace ==
  ASSUME Configured, Types, Places, NEW m \in Message, NEW f \in flight, m \in ToSet(f.entries)
  PROVE  \E p : InBatch(m) = {p}
<1>1. PICK i \in DOMAIN f.entries : f.entries[i] = m
  BY DEF ToSet
<1>2. <<f, i>> \in InBatch(m)
  BY <1>1, Positions DEF InBatch
<1>3. ASSUME NEW p \in InBatch(m) PROVE p = <<f, i>>
  <2>1. /\ p \in flight \X (1 .. BatchSize) /\ p[2] \in DOMAIN p[1].entries
        /\ p[1].entries[p[2]] = m
    BY DEF InBatch
  <2>2. p[1] \in flight /\ m \in ToSet(p[1].entries)
    BY <2>1 DEF ToSet
  <2>3. p[1] = f
    BY <2>2, PlacesMean
  <2>4. p[2] = i
    BY <1>1, <2>1, <2>3, PlacesMean DEF Distinct
  <2>5. QED
    BY <2>1, <2>3, <2>4
<1>4. InBatch(m) = {<<f, i>>}
  BY <1>2, <1>3
<1>5. QED
  BY <1>4

LEMMA PlacesCounted ==
  ASSUME Configured, Types, Places
  PROVE  HeldOnce
<1> SUFFICES ASSUME NEW m \in Message
             PROVE  (IF m \in ready THEN 1 ELSE 0) + Cardinality(InBuffer(m)) + Cardinality(InBatch(m))
                      + (IF acked[m] = "no" THEN 0 ELSE 1) = 1
  BY DEF HeldOnce
<1>1. Cardinality({}) = 0 /\ \A p : Cardinality({p}) = 1
  BY FS_EmptySet, FS_Singleton
<1>2. CASE acked[m] # "no"
  <2>1. ~ Held(m)
    BY <1>2, PlacesMean
  <2>2. m \notin ready /\ InBuffer(m) = {} /\ InBatch(m) = {}
    BY <2>1, NoPlace DEF Held
  <2>3. QED
    BY <1>1, <1>2, <2>2
<1>3. CASE acked[m] = "no" /\ m \in ready
  <2>1. InBuffer(m) = {} /\ InBatch(m) = {}
    BY <1>3, PlacesMean, NoPlace
  <2>2. QED
    BY <1>1, <1>3, <2>1
<1>4. ASSUME acked[m] = "no", NEW q \in AuditQueue, m \in ToSet(buffer[q])
      PROVE  (IF m \in ready THEN 1 ELSE 0) + Cardinality(InBuffer(m)) + Cardinality(InBatch(m))
               + (IF acked[m] = "no" THEN 0 ELSE 1) = 1
  <2>1. m \notin ready /\ \A f \in flight : m \notin ToSet(f.entries)
    BY <1>4, PlacesMean
  <2>2. InBatch(m) = {} /\ Cardinality(InBuffer(m)) = 1 /\ Cardinality(InBatch(m)) = 0
    BY <1>1, <1>4, <2>1, NoPlace, BufferPlace
  <2>3. QED
    BY <1>1, <1>4, <2>1, <2>2
<1>5. ASSUME acked[m] = "no", NEW f \in flight, m \in ToSet(f.entries)
      PROVE  (IF m \in ready THEN 1 ELSE 0) + Cardinality(InBuffer(m)) + Cardinality(InBatch(m))
               + (IF acked[m] = "no" THEN 0 ELSE 1) = 1
  <2>1. m \notin ready /\ \A q \in AuditQueue : m \notin ToSet(buffer[q])
    BY <1>5, PlacesMean
  <2>2. InBuffer(m) = {} /\ Cardinality(InBatch(m)) = 1 /\ Cardinality(InBuffer(m)) = 0
    BY <1>1, <1>5, <2>1, NoPlace, BatchPlace
  <2>3. QED
    BY <1>1, <1>5, <2>1, <2>2
<1>6. acked[m] = "no" => Held(m)
  BY PlacesMean
<1>7. QED
  BY <1>2, <1>3, <1>4, <1>5, <1>6 DEF Held

LEMMA InitRows == Configured /\ AuditInit => Rows /\ Counters
<1> SUFFICES ASSUME Configured, AuditInit PROVE Rows /\ Counters
  OBVIOUS
<1>1. \A m \in Message : ~ AtExtras(m) /\ acked[m] = "no" /\ events[m] = 0 /\ extras[m] = 0
  BY DEF AuditInit, AtExtras
<1>2. auditFaults = 0 /\ \A c \in Contents : retries[c] = 0 /\ failed[c] = 0
  BY DEF AuditInit, Contents
<1>3. QED
  BY <1>1, <1>2 DEF Rows, Counters, StoredMeansRows, DuplicatesNeedFaults, PoisonWasTried

LEMMA Invariance == Configured => (Spec => []IInv)
<1> SUFFICES ASSUME Configured PROVE Spec => []IInv
  OBVIOUS
<1>1. AuditInit => IInv
  BY InitTypes, InitPlaces, InitRows DEF IInv
<1>2. IInv /\ [AuditNext]_auditVars => IInv'
  BY TypesStep, PlacesStep, RowsStep, CountersStep DEF IInv
<1>3. QED
  BY <1>1, <1>2, PTL DEF Spec

\* Every message is in its queue, in one buffer, in one batch or acknowledged, and one told stored has its
\* rows, for any number of messages, batches, retries, failed inserts and crashes; a partly filled buffer has
\* its timer, and a message is given up only after maxRetries failed inserts of its content.
THEOREM AuditHolds == Configured => (Spec => []AuditStored)
<1> SUFFICES ASSUME Configured PROVE Spec => []AuditStored
  OBVIOUS
<1>1. IInv => AuditStored
  <2> SUFFICES ASSUME IInv PROVE AuditStored
    OBVIOUS
  <2>1. Types /\ Timers /\ Places /\ Rows /\ Counters
    BY DEF IInv
  <2>2. AuditTypeOK /\ StoredMeansRows /\ DuplicatesNeedFaults /\ PoisonWasTried
    BY <2>1 DEF Types, Rows, Counters
  <2>3. BufferIsTimed
    BY <2>1 DEF Timers, BufferIsTimed
  <2>4. QED
    BY <2>1, <2>2, <2>3, PlacesCounted DEF AuditStored
<1>2. QED
  BY <1>1, Invariance, PTL

-----------------------------------------------------------------------------
(***************************************************************************)
(* Dead letters.  A request holds what it read: while it is alone on its   *)
(* entry the row is still as it read it, and its payload has gone out only *)
(* if it waits to write that it did, or has written it.                    *)
(***************************************************************************)
RequestRecord == [pc : {"publish", "write"}, entry : Entry, target : Row, seen : Row]
Working(r) == request[r] # Idle

LetterTypes ==
  /\ TypeOK
  /\ published \in [Entry -> Nat]
  /\ request \in [Request -> {Idle} \cup RequestRecord]
  /\ today \in 1 .. MaxDay

Alone ==
  \A e \in Entry : \A r, s \in On(e) : e \notin overlapped => r = s

ReadBy(r) ==
  LET e == request[r].entry
  IN /\ request[r].target \in VALID_TRANSITIONS[request[r].seen]
     /\ status[e] # "absent"
     /\ request[r].pc = "publish" =>
          request[r].seen = "investigated" /\ request[r].target = "reprocessed" /\ status[e] # "pending"
     /\ e \notin overlapped =>
          /\ status[e] = request[r].seen
          /\ request[r].pc = "publish" => published[e] = 0

AsRead == \A r \in Request : Working(r) => ReadBy(r)

Outgoing(e) == \E r \in On(e) : request[r].pc = "write" /\ request[r].target = "reprocessed"

Once ==
  \A e \in Entry :
    /\ e \notin overlapped =>
         \/ published[e] = 0
         \/ published[e] = 1 /\ (status[e] \in {"reprocessed", "deleted"} \/ Outgoing(e))
    /\ published[e] > 0 => status[e] \notin {"absent", "pending"}

LetterInv == LetterTypes /\ ResolvedIsDated /\ Alone /\ AsRead /\ Once
LetterBounds == MaxDay \in Nat \ {0} /\ MaxPublished \in Nat

LEMMA Transitions ==
  /\ \A s \in Row : VALID_TRANSITIONS[s] \subseteq {"investigated", "reprocessed", "discarded"}
  /\ \A s \in TERMINAL_STATUSES : VALID_TRANSITIONS[s] = {}
  /\ "reprocessed" \in VALID_TRANSITIONS["investigated"]
  /\ TERMINAL_STATUSES \subseteq Row
BY DEF VALID_TRANSITIONS, Row, TERMINAL_STATUSES

LEMMA RequestFacts ==
  ASSUME LetterTypes, NEW r \in Request
  PROVE  /\ Working(r) => request[r] \in RequestRecord
         /\ Working(r) <=> request[r].pc # "idle"
         /\ \A e : r \in On(e) <=> Working(r) /\ request[r].entry = e
<1>1. request[r] = Idle \/ request[r] \in RequestRecord
  BY DEF LetterTypes
<1>2. Idle.pc = "idle"
  BY DEF Idle
<1>3. request[r] \in RequestRecord => request[r].pc # "idle"
  BY DEF RequestRecord
<1>4. QED
  BY <1>1, <1>2, <1>3 DEF Working, On

\* What a request does to the requests: it takes its turn, or ends it.
LEMMA TurnFacts ==
  ASSUME LetterTypes, NEW r \in Request, NEW x \in {Idle} \cup RequestRecord,
         request' = [request EXCEPT ![r] = x]
  PROVE  /\ request' \in [Request -> {Idle} \cup RequestRecord]
         /\ request'[r] = x
         /\ \A s \in Request \ {r} : request'[s] = request[s]
BY DEF LetterTypes

LEMMA TypeOf ==
  ASSUME status' \in [Entry -> Row \cup {"absent", "deleted"}],
         resolvedAt' \in [Entry -> 0 .. MaxDay],
         published' \in [Entry -> Nat], \A e \in Entry : published'[e] \in 0 .. MaxPublished,
         request' \in [Request -> {Idle} \cup RequestRecord],
         today' \in 1 .. MaxDay, overlapped' \subseteq Entry
  PROVE  LetterTypes'
<1>1. \A r \in Request : request'[r] = Idle \/ request'[r].pc \in {"publish", "write"}
  BY DEF RequestRecord
<1>2. QED
  BY <1>1 DEF LetterTypes, TypeOK

LEMMA TypeMeans ==
  ASSUME LetterTypes
  PROVE  /\ status \in [Entry -> Row \cup {"absent", "deleted"}]
         /\ resolvedAt \in [Entry -> 0 .. MaxDay]
         /\ published \in [Entry -> Nat] /\ \A e \in Entry : published[e] \in 0 .. MaxPublished
         /\ request \in [Request -> {Idle} \cup RequestRecord]
         /\ today \in 1 .. MaxDay /\ overlapped \subseteq Entry
BY DEF LetterTypes, TypeOK

LEMMA InitLetters == LetterBounds /\ Init => LetterInv
<1> SUFFICES ASSUME LetterBounds, Init PROVE LetterInv
  OBVIOUS
<1>1. LetterTypes
  BY DEF LetterBounds, Init, LetterTypes, TypeOK
<1>2. \A r \in Request : ~ Working(r)
  BY DEF Init, Working
<1>3. \A e \in Entry : On(e) = {}
  BY <1>1, <1>2, RequestFacts DEF On
<1>4. QED
  BY <1>1, <1>2, <1>3 DEF Init, LetterInv, ResolvedIsDated, TERMINAL_STATUSES, Alone, AsRead, Once

\* The action properties hold of a step that writes one entry for a request, or deletes the resolved.
Final == ResolutionIsFinal /\ OnlyResolvedDeleted

LEMMA BeginLetters ==
  ASSUME LetterInv, NEW r \in Request, NEW e \in Entry, NEW target, NEW pc \in {"publish", "write"},
         status[e] \in Row, target \in VALID_TRANSITIONS[status[e]],
         pc = "publish" => status[e] = "investigated" /\ target = "reprocessed",
         Begin(r, e, target, pc)
  PROVE  LetterInv' /\ Final
<1> DEFINE x == [pc |-> pc, entry |-> e, target |-> target, seen |-> status[e]]
<1>1. LetterTypes
  BY DEF LetterInv
<1>2. /\ ~ Working(r) /\ request' = [request EXCEPT ![r] = x]
      /\ overlapped' = IF On(e) = {} THEN overlapped ELSE overlapped \cup {e}
      /\ UNCHANGED <<status, resolvedAt, published, today>>
  BY DEF Begin, Working
<1>3. target \in Row /\ target # "pending"
  BY Transitions DEF Row
<1>4. x \in RequestRecord /\ x.pc = pc /\ x.entry = e /\ x.target = target /\ x.seen = status[e]
  BY <1>3 DEF RequestRecord
<1> HIDE DEF x
<1>5. /\ request' \in [Request -> {Idle} \cup RequestRecord]
      /\ request'[r] = x /\ \A s \in Request \ {r} : request'[s] = request[s]
  BY <1>1, <1>2, <1>4, TurnFacts
<1>6. LetterTypes'
  BY <1>1, <1>2, <1>5, TypeMeans, TypeOf
<1>7. /\ Working(r)' /\ \A s \in Request \ {r} : Working(s)' <=> Working(s)
      /\ \A d \in Entry \ {e} : On(d)' = On(d)
      /\ On(e)' = On(e) \cup {r}
  <2>1. Working(r)' <=> request'[r].pc # "idle"
    BY <1>5 DEF Working, Idle, RequestRecord, x
  <2>2. Working(r)' /\ \A s \in Request \ {r} : Working(s)' <=> Working(s)
    BY <1>4, <1>5, <2>1 DEF Working
  <2>3. \A d \in Entry : r \notin On(d)
    BY <1>1, <1>2, RequestFacts
  <2>4. \A d \in Entry : \A s \in Request \ {r} : s \in On(d)' <=> s \in On(d)
    BY <1>5 DEF On
  <2>5. \A d \in Entry : r \in On(d)' <=> d = e
    BY <1>4, <1>5, <2>1, <2>2 DEF On
  <2>6. \A d \in Entry : On(d) \subseteq Request /\ On(d)' \subseteq Request
    BY DEF On
  <2>7. QED
    BY <2>2, <2>3, <2>4, <2>5, <2>6
<1>8. Alone'
  <2> SUFFICES ASSUME NEW d \in Entry, NEW s \in On(d)', NEW t \in On(d)', d \notin overlapped'
               PROVE  s = t
    BY DEF Alone
  <2>1. d \notin overlapped
    BY <1>2
  <2>2. CASE d = e
    BY <1>2, <1>7, <2>2
  <2>3. CASE d # e
    BY <1>7, <2>1, <2>3 DEF LetterInv, Alone
  <2>4. QED
    BY <2>2, <2>3
<1>9. AsRead'
  <2> SUFFICES ASSUME NEW s \in Request, Working(s)' PROVE ReadBy(s)'
    BY DEF AsRead
  <2>1. CASE s = r
    <3>1. request'[s] = x
      BY <1>5, <2>1
    <3>2. status[e] # "absent"
      BY DEF Row
    <3>3. pc = "publish" /\ e \notin overlapped' => published[e] = 0
      <4> SUFFICES ASSUME pc = "publish", e \notin overlapped' PROVE published[e] = 0
        OBVIOUS
      <4>1. On(e) = {} /\ e \notin overlapped
        BY <1>2
      <4>2. ~ Outgoing(e)
        BY <4>1 DEF Outgoing
      <4>3. QED
        BY <4>1, <4>2 DEF LetterInv, Once
    <3>4. QED
      BY <1>2, <1>4, <3>1, <3>2, <3>3 DEF ReadBy
  <2>2. CASE s # r
    <3>1. Working(s) /\ request'[s] = request[s]
      BY <1>5, <1>7, <2>2
    <3>2. QED
      BY <1>2, <3>1 DEF LetterInv, AsRead, ReadBy
  <2>3. QED
    BY <2>1, <2>2
<1>10. Once'
  <2>1. \A d \in Entry : Outgoing(d) => Outgoing(d)'
    <3> SUFFICES ASSUME NEW d \in Entry, NEW s \in On(d), request[s].pc = "write", request[s].target = "reprocessed"
                 PROVE  s \in On(d)' /\ request'[s] = request[s]
      BY DEF Outgoing
    <3>1. s \in Request /\ s # r
      BY <1>1, <1>2, RequestFacts DEF On
    <3>2. QED
      BY <1>5, <1>7, <3>1
  <2>2. \A d \in Entry : d \notin overlapped' => d \notin overlapped
    BY <1>2
  <2>3. QED
    BY <1>2, <2>1, <2>2 DEF LetterInv, Once
<1>11. ResolvedIsDated'
  BY <1>2 DEF LetterInv, ResolvedIsDated
<1>12. QED
  BY <1>2, <1>6, <1>8, <1>9, <1>10, <1>11 DEF LetterInv, Final, ResolutionIsFinal, OnlyResolvedDeleted

\* A request that ends frees its entry.
LEMMA EndFacts ==
  ASSUME LetterInv, NEW r \in Request, Working(r), request' = [request EXCEPT ![r] = Idle]
  PROVE  /\ request' \in [Request -> {Idle} \cup RequestRecord]
         /\ ~ Working(r)'
         /\ \A s \in Request \ {r} : request'[s] = request[s] /\ (Working(s)' <=> Working(s))
         /\ \A d \in Entry : On(d)' = On(d) \ {r}
         /\ request[r].entry \in Entry /\ request[r] \in RequestRecord
<1>1. LetterTypes
  BY DEF LetterInv
<1>2. /\ request' \in [Request -> {Idle} \cup RequestRecord] /\ request'[r] = Idle
      /\ \A s \in Request \ {r} : request'[s] = request[s]
  BY <1>1, TurnFacts
<1>3. request'[r].pc = "idle"
  BY <1>2 DEF Idle
<1>4. \A d \in Entry : On(d)' = On(d) \ {r}
  BY <1>2, <1>3 DEF On
<1>5. request[r] \in RequestRecord
  BY <1>1, RequestFacts
<1>6. QED
  BY <1>2, <1>4, <1>5 DEF Working, RequestRecord

LEMMA RepublishLetters ==
  ASSUME LetterBounds, LetterInv, NEW r \in Request, Republish(r)
  PROVE  LetterInv' /\ Final
<1>1. LetterTypes
  BY DEF LetterInv
<1>2. Working(r) /\ request[r] \in RequestRecord
  BY <1>1, RequestFacts DEF Republish
<1>3. PICK e \in Entry : e = request[r].entry
  BY <1>2 DEF RequestRecord
<1> DEFINE x == [request[r] EXCEPT !.pc = "write"]
<1>step. /\ request[r].pc = "publish" /\ published[e] < MaxPublished
       /\ published' = [published EXCEPT ![e] = @ + 1]
       /\ request' = [request EXCEPT ![r] = x]
       /\ UNCHANGED <<status, resolvedAt, today, overlapped>>
  BY <1>3 DEF Republish
<1>4. x \in RequestRecord /\ x.pc = "write" /\ x.entry = e /\ x.target = request[r].target /\ x.seen = request[r].seen
  BY <1>2, <1>3 DEF RequestRecord
<1> HIDE DEF x
<1>5. /\ request' \in [Request -> {Idle} \cup RequestRecord]
      /\ request'[r] = x /\ \A s \in Request \ {r} : request'[s] = request[s]
  BY <1>1, <1>step, <1>4, TurnFacts
<1>6. \A d \in Entry : published'[d] = IF d = e THEN published[e] + 1 ELSE published[d]
  BY <1>1, <1>step, TypeMeans
<1>7. /\ \A d \in Entry : published[d] \in Nat /\ published[d] \in 0 .. MaxPublished
      /\ published' \in [Entry -> Nat] /\ \A d \in Entry : published'[d] \in 0 .. MaxPublished
  <2>1. \A d \in Entry : published[d] \in Nat /\ published[d] \in 0 .. MaxPublished
    BY <1>1, TypeMeans
  <2>2. published[e] + 1 \in 0 .. MaxPublished
    BY <1>step, <2>1 DEF LetterBounds
  <2>3. \A d \in Entry : published'[d] \in 0 .. MaxPublished
    BY <1>6, <2>1, <2>2
  <2>4. published' \in [Entry -> Nat]
    BY <1>1, <1>step, <1>3, <2>1, TypeMeans
  <2>5. QED
    BY <2>1, <2>3, <2>4
<1>8. LetterTypes'
  BY <1>1, <1>step, <1>5, <1>7, TypeMeans, TypeOf
<1>9. /\ \A s \in Request : Working(s)' <=> Working(s)
      /\ \A d \in Entry : On(d)' = On(d)
  <2>1. request'[r].pc # "idle" /\ request[r].pc # "idle" /\ request'[r].entry = request[r].entry
    BY <1>step, <1>3, <1>4, <1>5
  <2>2. Working(r)'
    BY <1>5, <2>1 DEF Working, Idle
  <2>3. \A s \in Request : Working(s)' <=> Working(s)
    BY <1>2, <1>5, <2>2 DEF Working
  <2>4. \A d \in Entry : \A s \in Request : s \in On(d)' <=> s \in On(d)
    BY <1>5, <2>1 DEF On
  <2>5. \A d \in Entry : On(d) \subseteq Request /\ On(d)' \subseteq Request
    BY DEF On
  <2>6. QED
    BY <2>3, <2>4, <2>5
<1>10. Alone'
  BY <1>step, <1>9 DEF LetterInv, Alone
<1>11. /\ request[r].target \in VALID_TRANSITIONS[request[r].seen]
       /\ request[r].seen = "investigated" /\ request[r].target = "reprocessed"
       /\ status[e] # "absent" /\ status[e] # "pending"
       /\ e \notin overlapped => status[e] = request[r].seen /\ published[e] = 0
  BY <1>2, <1>3, <1>step DEF LetterInv, AsRead, ReadBy
<1>12. r \in On(e)
  BY <1>1, <1>2, <1>3, RequestFacts
<1>13. AsRead'
  <2> SUFFICES ASSUME NEW s \in Request, Working(s)' PROVE ReadBy(s)'
    BY DEF AsRead
  <2>1. CASE s = r
    BY <1>3, <1>step, <1>4, <1>5, <1>11, <2>1 DEF ReadBy
  <2>2. CASE s # r
    <3> DEFINE d == request[s].entry
    <3>1. Working(s) /\ request'[s] = request[s] /\ s \in On(d) /\ d \in Entry
      BY <1>1, <1>5, <1>9, <2>2, RequestFacts DEF RequestRecord
    <3>2. d \notin overlapped => d # e
      BY <1>12, <2>2, <3>1 DEF LetterInv, Alone
    <3>3. published'[d] = published[d] \/ d \in overlapped
      BY <1>6, <3>1, <3>2
    <3>4. ReadBy(s)
      BY <3>1 DEF LetterInv, AsRead
    <3>5. QED
      BY <1>step, <3>1, <3>3, <3>4 DEF ReadBy
  <2>3. QED
    BY <2>1, <2>2
<1>14. Once'
  <2>1. Outgoing(e)'
    BY <1>4, <1>5, <1>9, <1>11, <1>12 DEF Outgoing
  <2>2. \A d \in Entry \ {e} : Outgoing(d) => Outgoing(d)'
    <3> SUFFICES ASSUME NEW d \in Entry \ {e}, NEW s \in On(d), request[s].pc = "write", request[s].target = "reprocessed"
                 PROVE  s \in On(d)' /\ request'[s] = request[s]
      BY DEF Outgoing
    <3>1. s \in Request /\ s # r
      BY <1>step DEF On
    <3>2. QED
      BY <1>5, <1>9, <3>1
  <2>3. QED
    BY <1>step, <1>6, <1>7, <1>11, <2>1, <2>2 DEF LetterInv, Once
<1>15. ResolvedIsDated'
  BY <1>step DEF LetterInv, ResolvedIsDated
<1>16. QED
  BY <1>step, <1>8, <1>10, <1>13, <1>14, <1>15 DEF LetterInv, Final, ResolutionIsFinal, OnlyResolvedDeleted

LEMMA WriteLetters ==
  ASSUME LetterInv, NEW r \in Request, Write(r)
  PROVE  LetterInv' /\ Final
<1> DEFINE e == request[r].entry
           target == request[r].target
<1>1. LetterTypes
  BY DEF LetterInv
<1>2. /\ request[r].pc = "write" /\ request' = [request EXCEPT ![r] = Idle]
      /\ UNCHANGED <<published, today, overlapped>>
      /\ IF status[e] \in Row
         THEN /\ status' = [status EXCEPT ![e] = target]
              /\ resolvedAt' = [resolvedAt EXCEPT ![e] = Resolved(target, @)]
         ELSE UNCHANGED <<status, resolvedAt>>
  BY DEF Write
<1>3. Working(r)
  BY <1>1, <1>2, RequestFacts
<1>4. /\ request' \in [Request -> {Idle} \cup RequestRecord]
      /\ ~ Working(r)'
      /\ \A s \in Request \ {r} : request'[s] = request[s] /\ (Working(s)' <=> Working(s))
      /\ \A d \in Entry : On(d)' = On(d) \ {r}
      /\ e \in Entry /\ request[r] \in RequestRecord
  BY <1>2, <1>3, EndFacts
<1>5. r \in On(e) /\ ReadBy(r) /\ request[r].seen \in Row
  BY <1>1, <1>3, <1>4, RequestFacts DEF LetterInv, AsRead, RequestRecord
<1>6. /\ target \in {"investigated", "reprocessed", "discarded"}
      /\ request[r].seen \notin TERMINAL_STATUSES
      /\ e \notin overlapped => status[e] = request[r].seen
  BY <1>5, Transitions DEF ReadBy
<1>7. target \in Row /\ target # "absent" /\ target # "pending" /\ target # "deleted"
  BY <1>6 DEF Row
<1>8. \A d \in Entry : status'[d] = IF d = e /\ status[e] \in Row THEN target ELSE status[d]
  BY <1>1, <1>2, TypeMeans
<1>9. /\ resolvedAt' \in [Entry -> 0 .. MaxDay]
      /\ \A d \in Entry : resolvedAt'[d] = IF d = e /\ status[e] \in Row THEN Resolved(target, resolvedAt[e]) ELSE resolvedAt[d]
  <2>1. Resolved(target, resolvedAt[e]) \in 0 .. MaxDay
    BY <1>1, <1>4, TypeMeans DEF Resolved
  <2>2. QED
    BY <1>1, <1>2, <1>4, <2>1, TypeMeans
<1>10. status' \in [Entry -> Row \cup {"absent", "deleted"}]
  BY <1>1, <1>2, <1>4, <1>7, TypeMeans
<1> HIDE DEF e, target
<1>11. LetterTypes'
  BY <1>1, <1>2, <1>4, <1>9, <1>10, TypeMeans, TypeOf
<1>12. ResolvedIsDated'
  <2> SUFFICES ASSUME NEW d \in Entry, status'[d] \in TERMINAL_STATUSES PROVE resolvedAt'[d] > 0
    BY DEF ResolvedIsDated
  <2>1. CASE d = e /\ status[e] \in Row
    <3>1. resolvedAt'[d] = today
      BY <1>8, <1>9, <2>1 DEF Resolved
    <3>2. today > 0
      BY <1>1, TypeMeans
    <3>3. QED
      BY <3>1, <3>2
  <2>2. CASE ~ (d = e /\ status[e] \in Row)
    BY <1>8, <1>9, <2>2 DEF LetterInv, ResolvedIsDated
  <2>3. QED
    BY <2>1, <2>2
<1>13. Alone'
  BY <1>2, <1>4 DEF LetterInv, Alone
<1>14. AsRead'
  <2> SUFFICES ASSUME NEW s \in Request, Working(s)' PROVE ReadBy(s)'
    BY DEF AsRead
  <2> DEFINE d == request[s].entry
  <2>1. s # r /\ request'[s] = request[s] /\ Working(s)
    BY <1>4
  <2>2. s \in On(d) /\ d \in Entry /\ ReadBy(s)
    BY <1>1, <2>1, RequestFacts DEF LetterInv, AsRead, RequestRecord
  <2>3. d \notin overlapped => d # e
    BY <1>5, <2>1, <2>2 DEF LetterInv, Alone
  <2>4. /\ d \notin overlapped => status'[d] = status[d]
        /\ status'[d] \in {status[d], target}
    BY <1>8, <2>2, <2>3
  <2>5. QED
    BY <1>2, <1>7, <2>1, <2>2, <2>4 DEF ReadBy
<1>15. Once'
  <2>1. \A d \in Entry \ {e} : Outgoing(d) => Outgoing(d)'
    <3> SUFFICES ASSUME NEW d \in Entry \ {e}, NEW s \in On(d), request[s].pc = "write", request[s].target = "reprocessed"
                 PROVE  s \in On(d)' /\ request'[s] = request[s]
      BY DEF Outgoing
    <3>1. s \in Request /\ s # r
      BY DEF On, e
    <3>2. QED
      BY <1>4, <3>1
  <2>2. \A d \in Entry : published[d] > 0 => status'[d] \notin {"absent", "pending"}
    BY <1>7, <1>8 DEF LetterInv, Once
  <2>3. e \notin overlapped => published[e] = 0 \/ (published[e] = 1 /\ status'[e] = "reprocessed")
    <3> SUFFICES ASSUME e \notin overlapped, published[e] # 0
                 PROVE  published[e] = 1 /\ status'[e] = "reprocessed"
      OBVIOUS
    <3>1. status[e] \in Row /\ status[e] \notin TERMINAL_STATUSES
      BY <1>5, <1>6
    <3>2. published[e] = 1 /\ Outgoing(e)
      BY <1>4, <3>1 DEF LetterInv, Once, TERMINAL_STATUSES, Row
    <3>3. target = "reprocessed"
      BY <1>4, <1>5, <3>2 DEF LetterInv, Alone, Outgoing, target
    <3>4. QED
      BY <1>4, <1>8, <3>1, <3>2, <3>3
  <2>4. \A d \in Entry \ {e} : status'[d] = status[d]
    BY <1>8
  <2>5. ASSUME NEW d \in Entry, d \notin overlapped
        PROVE  \/ published[d] = 0
               \/ published[d] = 1 /\ (status'[d] \in {"reprocessed", "deleted"} \/ Outgoing(d)')
    <3>1. CASE d = e
      BY <2>3, <2>5, <3>1
    <3>2. CASE d # e
      BY <2>1, <2>4, <2>5, <3>2 DEF LetterInv, Once
    <3>3. QED
      BY <3>1, <3>2
  <2>6. QED
    BY <1>2, <2>2, <2>5 DEF Once
<1>16. Final
  <2>1. ASSUME NEW d \in Entry, status[d] \in TERMINAL_STATUSES, status'[d] # status[d]
        PROVE  d \in overlapped
    BY <1>6, <1>8, <2>1
  <2>2. \A d \in Entry : status[d] = "deleted" => status'[d] = "deleted"
    BY <1>8 DEF Row
  <2>3. \A d \in Entry : status'[d] = "deleted" => status[d] = "deleted"
    BY <1>7, <1>8
  <2>4. QED
    BY <2>1, <2>2, <2>3 DEF Final, ResolutionIsFinal, OnlyResolvedDeleted
<1>17. QED
  BY <1>11, <1>12, <1>13, <1>14, <1>15, <1>16 DEF LetterInv

LEMMA FailLetters ==
  ASSUME LetterInv, NEW r \in Request, Fail(r)
  PROVE  LetterInv' /\ Final
<1> DEFINE e == request[r].entry
<1>1. LetterTypes
  BY DEF LetterInv
<1>2. /\ Working(r) /\ request' = [request EXCEPT ![r] = Idle]
      /\ overlapped' = overlapped \cup {e}
      /\ UNCHANGED <<status, resolvedAt, published, today>>
  BY DEF Fail, Working
<1>3. /\ request' \in [Request -> {Idle} \cup RequestRecord]
      /\ ~ Working(r)'
      /\ \A s \in Request \ {r} : request'[s] = request[s] /\ (Working(s)' <=> Working(s))
      /\ \A d \in Entry : On(d)' = On(d) \ {r}
      /\ e \in Entry
  BY <1>2, EndFacts
<1>4. LetterTypes'
  BY <1>1, <1>2, <1>3, TypeMeans, TypeOf
<1>5. Alone'
  BY <1>2, <1>3 DEF LetterInv, Alone
<1>6. AsRead'
  <2> SUFFICES ASSUME NEW s \in Request, Working(s)' PROVE ReadBy(s)'
    BY DEF AsRead
  <2>1. s # r /\ request'[s] = request[s] /\ Working(s) /\ ReadBy(s)
    BY <1>3 DEF LetterInv, AsRead
  <2>2. QED
    BY <1>2, <2>1 DEF ReadBy
<1>7. Once'
  <2>1. \A d \in Entry \ {e} : Outgoing(d) => Outgoing(d)'
    <3> SUFFICES ASSUME NEW d \in Entry \ {e}, NEW s \in On(d), request[s].pc = "write", request[s].target = "reprocessed"
                 PROVE  s \in On(d)' /\ request'[s] = request[s]
      BY DEF Outgoing
    <3>1. s \in Request /\ s # r
      BY DEF On
    <3>2. QED
      BY <1>3, <3>1
  <2>2. ASSUME NEW d \in Entry, d \notin overlapped'
        PROVE  d \in Entry \ {e} /\ d \notin overlapped
    BY <1>2, <2>2
  <2>3. QED
    BY <1>2, <2>1, <2>2 DEF LetterInv, Once
<1>8. QED
  BY <1>2, <1>4, <1>5, <1>6, <1>7 DEF LetterInv, ResolvedIsDated, Final, ResolutionIsFinal, OnlyResolvedDeleted

\* Capture and clean-up: rows that no request has in hand.
LEMMA RowLetters ==
  ASSUME LetterInv, Cleanup \/ \E e \in Entry : Capture(e)
  PROVE  LetterInv' /\ Final
<1>1. LetterTypes
  BY DEF LetterInv
<1>2. UNCHANGED <<resolvedAt, published, request, today, overlapped>>
  BY DEF Cleanup, Capture
<1>3. \A d \in Entry : \/ status'[d] = status[d]
                       \/ status[d] \in TERMINAL_STATUSES /\ status'[d] = "deleted"
                       \/ status[d] = "absent" /\ status'[d] = "pending"
  BY <1>1, TypeMeans DEF Cleanup, Capture, Expired
<1>4. status' \in [Entry -> Row \cup {"absent", "deleted"}]
  <2>1. CASE Cleanup
    BY <1>1, <2>1, TypeMeans DEF Cleanup
  <2>2. ASSUME NEW e \in Entry, Capture(e) PROVE status' \in [Entry -> Row \cup {"absent", "deleted"}]
    BY <1>1, <2>2, TypeMeans DEF Capture, Row
  <2>3. QED
    BY <2>1, <2>2
<1>5. LetterTypes'
  BY <1>1, <1>2, <1>4, TypeMeans, TypeOf
<1>6. ResolvedIsDated'
  BY <1>2, <1>3 DEF LetterInv, ResolvedIsDated, TERMINAL_STATUSES
<1>7. Alone' /\ \A d \in Entry : Outgoing(d)' <=> Outgoing(d)
  BY <1>2 DEF LetterInv, Alone, On, Outgoing
<1>8. AsRead'
  <2> SUFFICES ASSUME NEW r \in Request, Working(r)' PROVE ReadBy(r)'
    BY DEF AsRead
  <2> DEFINE d == request[r].entry
  <2>1. Working(r) /\ ReadBy(r) /\ request[r] \in RequestRecord
    BY <1>1, <1>2, RequestFacts DEF LetterInv, AsRead, Working
  <2>2. d \in Entry /\ request[r].seen \in Row /\ request[r].seen \notin TERMINAL_STATUSES
    BY <2>1, Transitions DEF ReadBy, RequestRecord
  <2>3. /\ status'[d] = status[d] \/ (status'[d] = "deleted" /\ d \in overlapped)
    BY <1>3, <2>1, <2>2 DEF ReadBy
  <2>4. QED
    BY <1>2, <2>1, <2>3 DEF ReadBy
<1>9. Once'
  <2>1. ASSUME NEW d \in Entry, published[d] > 0
        PROVE  status'[d] \notin {"absent", "pending"}
    BY <1>3, <2>1 DEF LetterInv, Once
  <2>2. ASSUME NEW d \in Entry, d \notin overlapped
        PROVE  \/ published[d] = 0
               \/ published[d] = 1 /\ (status'[d] \in {"reprocessed", "deleted"} \/ Outgoing(d)')
    <3>1. CASE published[d] = 0
      BY <3>1
    <3>2. CASE published[d] # 0
      <4>1. published[d] = 1 /\ (status[d] \in {"reprocessed", "deleted"} \/ Outgoing(d))
        BY <2>2, <3>2 DEF LetterInv, Once
      <4>2. QED
        BY <1>3, <1>7, <4>1
    <3>3. QED
      BY <3>1, <3>2
  <2>3. QED
    BY <1>2, <2>1, <2>2 DEF Once
<1>10. Final
  BY <1>3 DEF Final, ResolutionIsFinal, OnlyResolvedDeleted, TERMINAL_STATUSES
<1>11. QED
  BY <1>5, <1>6, <1>7, <1>8, <1>9, <1>10 DEF LetterInv

LEMMA LettersStep == LetterBounds /\ LetterInv /\ [Next]_vars => LetterInv' /\ Final
<1> SUFFICES ASSUME LetterBounds, LetterInv, [Next]_vars PROVE LetterInv' /\ Final
  OBVIOUS
<1>1. ASSUME NEW r \in Request, NEW e \in Entry, Reprocess(r, e)
      PROVE  LetterInv' /\ Final
  <2>1. "investigated" \in Row
    BY DEF Row
  <2>2. QED
    BY <1>1, <2>1, BeginLetters, Transitions DEF Reprocess
<1>2. ASSUME NEW r \in Request, NEW e \in Entry, NEW target \in Row, UpdateStatus(r, e, target)
      PROVE  LetterInv' /\ Final
  BY <1>2, BeginLetters DEF UpdateStatus
<1>3. CASE NextDay \/ UNCHANGED vars
  <2>1. /\ UNCHANGED <<status, resolvedAt, published, request, overlapped>>
        /\ today' \in 1 .. MaxDay
    BY <1>3, TypeMeans DEF NextDay, vars, LetterInv, LetterBounds
  <2>2. LetterTypes'
    BY <2>1, TypeMeans, TypeOf DEF LetterInv
  <2>3. QED
    BY <2>1, <2>2 DEF LetterInv, ResolvedIsDated, Alone, On, AsRead, ReadBy, Working, Once, Outgoing,
                      Final, ResolutionIsFinal, OnlyResolvedDeleted
<1>4. QED
  BY <1>1, <1>2, <1>3, RepublishLetters, WriteLetters, FailLetters, RowLetters DEF Next

\* Whatever requests, failures and clean-ups overlap: a resolved dead letter is dated, a payload goes out
\* twice only after an overlap or a failure, a resolution is final but for requests that overlapped, and
\* only resolved entries are deleted.
THEOREM LettersHold == LetterBounds => (LettersSpec => DeadLettersKept)
<1> SUFFICES ASSUME LetterBounds PROVE LettersSpec => DeadLettersKept
  OBVIOUS
<1>1. Init => LetterInv
  BY InitLetters
<1>2. LetterInv /\ [Next]_vars => LetterInv' /\ (ResolutionIsFinal /\ OnlyResolvedDeleted)
  BY LettersStep DEF Final
<1>3. LetterInv => TypeOK /\ ResolvedIsDated /\ RepublishedOnce
  <2> SUFFICES ASSUME LetterInv PROVE RepublishedOnce
    BY DEF LetterInv, LetterTypes
  <2>1. \A e \in Entry : e \notin overlapped => published[e] <= 1
    BY DEF LetterInv, Once
  <2>2. QED
    BY <2>1 DEF LetterInv, Once, RepublishedOnce
<1>4. QED
  BY <1>1, <1>2, <1>3, PTL DEF LettersSpec, DeadLettersKept

-----------------------------------------------------------------------------
(***************************************************************************)
(* Sums.  SumFunctionOnSet is a fold that takes one element after another; *)
(* what it gives does not depend on their order.  The library's induction  *)
(* over finite sets takes an operator, so that each fact is proved for the *)
(* smallest set it would fail for.                                         *)
(***************************************************************************)

\* Among sets of parts of a finite set there is a smallest one.
LEMMA SmallestPart ==
  ASSUME NEW S, IsFiniteSet(S), NEW T, T \subseteq SUBSET S, T # {}
  PROVE  \E U \in T : \A V \in T : V \subseteq U => V = U
<1> DEFINE R == StrictSubsetOrdering(S)
<1>1. IsWellFoundedOn(R, FiniteSubsetsOf(S))
  BY FS_StrictSubsetOrderingWellFounded
<1>2. T \subseteq FiniteSubsetsOf(S)
  BY FS_Subset DEF FiniteSubsetsOf
<1>3. \E U \in T : \A V \in T : ~ (<<V, U>> \in R)
  <2> HIDE DEF R
  <2>1. QED
    BY <1>1, <1>2, WFMin
<1>4. QED
  BY <1>3 DEF StrictSubsetOrdering

Choice(s) == CHOOSE x \in s : TRUE
Summing(f, S, sum) == sum = [s \in SUBSET S |-> IF s = {} THEN 0 ELSE f[Choice(s)] + sum[s \ {Choice(s)}]]

LEMMA SumIsSumming ==
  ASSUME NEW f, NEW S
  PROVE  SumFunctionOnSet(f, S) = (CHOOSE sum : Summing(f, S, sum))[S]
BY DEF SumFunctionOnSet, FoldFunctionOnSet, MapThenFoldSet, Summing, Choice

\* The fold exists: sets of n + 1 elements refer to sets of n.
LEMMA SummingExists ==
  ASSUME NEW f, NEW S, IsFiniteSet(S)
  PROVE  \E sum : Summing(f, S, sum)
<1> DEFINE Upto(n) == {s \in SUBSET S : Cardinality(s) <= n}
           Value(s, g) == IF s = {} THEN 0 ELSE f[Choice(s)] + g[s \ {Choice(s)}]
           Partial(n, g) == g = [s \in Upto(n) |-> Value(s, g)]
           N == Cardinality(S)
           Bad == {n \in 0..N : ~ \E g : Partial(n, g)}
<1>1. N \in Nat /\ \A s \in SUBSET S : IsFiniteSet(s) /\ Cardinality(s) \in Nat /\ Cardinality(s) <= N
  BY FS_Subset, FS_CardinalityType
<1>2. \A s \in SUBSET S : s # {} => Choice(s) \in s
  BY DEF Choice
<1>3. ASSUME NEW s \in SUBSET S, s # {}
      PROVE  s \ {Choice(s)} \in SUBSET S /\ Cardinality(s \ {Choice(s)}) = Cardinality(s) - 1
  BY <1>1, <1>2, <1>3, FS_RemoveElement
<1>4. ASSUME NEW n \in 0..N, NEW g, Partial(n, g)
      PROVE  \E h : Partial(n + 1, h)
  <2> DEFINE h == [s \in Upto(n + 1) |-> IF s \in Upto(n) THEN g[s] ELSE Value(s, g)]
  <2>1. ASSUME NEW s \in Upto(n + 1) PROVE h[s] = Value(s, h)
    <3>1. CASE s = {}
      <4>1. Cardinality(s) = 0 /\ s \in Upto(n)
        BY <3>1, <1>4, FS_EmptySet
      <4>2. QED
        BY <3>1, <4>1, <1>4
    <3>2. CASE s # {}
      <4>1. s \in SUBSET S /\ Cardinality(s) <= n + 1 /\ Cardinality(s) \in Nat
        BY <1>1, <2>1
      <4>2. s \ {Choice(s)} \in Upto(n) /\ s \ {Choice(s)} \in Upto(n + 1)
        BY <4>1, <3>2, <1>3, <1>1
      <4>3. h[s \ {Choice(s)}] = g[s \ {Choice(s)}]
        BY <4>2
      <4>4. s \in Upto(n) => g[s] = Value(s, g)
        BY <1>4
      <4>5. h[s] = Value(s, g)
        BY <4>4, <2>1
      <4>6. QED
        BY <4>3, <4>5, <3>2
    <3>3. QED
      BY <3>1, <3>2
  <2>2. h = [s \in Upto(n + 1) |-> Value(s, h)]
    <3> HIDE DEF Value
    <3>1. \A s \in Upto(n + 1) : h[s] = Value(s, h)
      BY <2>1
    <3>2. h = [s \in Upto(n + 1) |-> h[s]]
      OBVIOUS
    <3> HIDE DEF h
    <3>3. QED
      BY <3>1, <3>2
  <2>3. QED
    BY <2>2
<1>5. \E g : Partial(0, g)
  <2> DEFINE g == [s \in Upto(0) |-> 0]
  <2>1. ASSUME NEW s \in Upto(0) PROVE s = {}
    BY <1>1, <2>1, FS_EmptySet
  <2>2. g = [s \in Upto(0) |-> Value(s, g)]
    BY <2>1
  <2>3. QED
    BY <2>2
<1>6. Bad = {}
  <2>1. SUFFICES ASSUME Bad # {} PROVE FALSE
    OBVIOUS
  <2>2. PICK U \in {0..m : m \in Bad} : \A V \in {0..m : m \in Bad} : V \subseteq U => V = U
    <3>1. IsFiniteSet(0..N)
      BY <1>1, FS_Interval
    <3> DEFINE I == 0..N
               T == {0..m : m \in Bad}
    <3> HIDE DEF Partial
    <3>2. \A m \in Bad : 0..m \in SUBSET I
      BY <1>1
    <3>3. T \subseteq SUBSET I /\ T # {}
      <4> HIDE DEF Bad, I
      <4>1. QED
        BY <2>1, <3>2
    <3> HIDE DEF T, I
    <3>4. IsFiniteSet(I)
      BY <3>1 DEF I
    <3>5. \E U \in T : \A V \in T : V \subseteq U => V = U
      BY <3>4, <3>3, SmallestPart
    <3>6. QED
      BY <3>5 DEF T
  <2>3. PICK m \in Bad : U = 0..m
    BY <2>2
  <2>4. m # 0
    <3> HIDE DEF Partial
    <3>1. QED
      BY <2>3, <1>5
  <2>5. m - 1 \in 0..N /\ m \in 0..N /\ m - 1 + 1 = m
    BY <2>3, <2>4, <1>1
  <2>6. m - 1 \notin Bad
    <3>1. 0..(m - 1) \subseteq 0..m /\ m \in 0..m /\ m \notin 0..(m - 1)
      BY <2>5, <1>1
    <3>2. QED
      BY <3>1, <2>2, <2>3
  <2>7. \E g : Partial(m - 1, g)
    BY <2>5, <2>6
  <2>8. \E g : Partial(m - 1 + 1, g)
    <3> HIDE DEF Partial
    <3>1. QED
      BY <2>5, <2>7, <1>4
  <2>9. QED
    <3> HIDE DEF Partial
    <3>1. QED
      BY <2>8, <2>5, <2>3
<1>7. PICK g : Partial(N, g)
  <2> HIDE DEF Partial
  <2>1. QED
    BY <1>6, <1>1
<1>8. Upto(N) = SUBSET S
  BY <1>1
<1>9. QED
  BY <1>7, <1>8 DEF Summing

\* The folds over a set and over a part of it agree on the part.
LEMMA SummingAgree ==
  ASSUME NEW f, NEW S, IsFiniteSet(S), NEW U \in SUBSET S, NEW g, Summing(f, S, g), NEW h, Summing(f, U, h)
  PROVE  \A s \in SUBSET U : g[s] = h[s]
<1> DEFINE Bad == {s \in SUBSET U : g[s] # h[s]}
<1>1. SUFFICES ASSUME Bad # {} PROVE FALSE
  OBVIOUS
<1>2. IsFiniteSet(U)
  BY FS_Subset
<1>3. PICK s \in Bad : \A v \in Bad : v \subseteq s => v = s
  <2> DEFINE T == Bad
  <2>1. T \subseteq SUBSET U /\ T # {}
    BY <1>1
  <2> HIDE DEF T
  <2>2. \E s \in T : \A v \in T : v \subseteq s => v = s
    BY <1>2, <2>1, SmallestPart
  <2>3. QED
    BY <2>2 DEF T
<1>4. s # {}
  BY <1>3 DEF Summing
<1>5. Choice(s) \in s
  BY <1>4 DEF Choice
<1>6. s \ {Choice(s)} \in SUBSET U /\ s \ {Choice(s)} \notin Bad
  BY <1>3, <1>5
<1>7. g[s \ {Choice(s)}] = h[s \ {Choice(s)}]
  BY <1>6
<1>8. g[s] = f[Choice(s)] + g[s \ {Choice(s)}] /\ h[s] = f[Choice(s)] + h[s \ {Choice(s)}]
  BY <1>3, <1>4 DEF Summing
<1>9. QED
  BY <1>3, <1>7, <1>8

LEMMA SumOfNone == ASSUME NEW f PROVE SumFunctionOnSet(f, {}) = 0
<1>1. IsFiniteSet({})
  BY FS_EmptySet
<1>2. \E sum : Summing(f, {}, sum)
  BY <1>1, SummingExists
<1>3. Summing(f, {}, CHOOSE sum : Summing(f, {}, sum))
  BY <1>2
<1>4. (CHOOSE sum : Summing(f, {}, sum))[{}] = 0
  BY <1>3 DEF Summing
<1>5. QED
  BY <1>4, SumIsSumming

\* The first element taken.
LEMMA SumTakes ==
  ASSUME NEW f, NEW S, IsFiniteSet(S), S # {}
  PROVE  /\ Choice(S) \in S
         /\ SumFunctionOnSet(f, S) = f[Choice(S)] + SumFunctionOnSet(f, S \ {Choice(S)})
<1> DEFINE R == S \ {Choice(S)}
           g == CHOOSE sum : Summing(f, S, sum)
           h == CHOOSE sum : Summing(f, R, sum)
<1>1. IsFiniteSet(R) /\ R \in SUBSET S
  BY FS_Subset
<1>2. Summing(f, S, g) /\ Summing(f, R, h)
  <2>1. \E sum : Summing(f, S, sum)
    BY SummingExists
  <2>2. \E sum : Summing(f, R, sum)
    <3> HIDE DEF R
    <3>1. QED
      BY <1>1, SummingExists
  <2>3. QED
    BY <2>1, <2>2
<1>3. Choice(S) \in S
  BY DEF Choice
<1>4. g[R] = h[R]
  <2> HIDE DEF R, g, h
  <2>1. QED
    BY <1>1, <1>2, SummingAgree
<1>5. g[S] = f[Choice(S)] + g[R]
  <2> HIDE DEF g
  <2>1. QED
    BY <1>2 DEF Summing
<1>6. SumFunctionOnSet(f, S) = g[S] /\ SumFunctionOnSet(f, R) = h[R]
  BY SumIsSumming
<1>7. QED
  <2> HIDE DEF g, h
  <2>1. QED
    BY <1>3, <1>4, <1>5, <1>6

Counts(f, S) == \A x \in S : f[x] \in Nat

LEMMA SumIsCount ==
  ASSUME NEW f, NEW S, IsFiniteSet(S), Counts(f, S)
  PROVE  SumFunctionOnSet(f, S) \in Nat
<1> DEFINE Bad == {U \in SUBSET S : SumFunctionOnSet(f, U) \notin Nat}
<1>1. SUFFICES ASSUME Bad # {} PROVE FALSE
  OBVIOUS
<1>2. PICK U \in Bad : \A V \in Bad : V \subseteq U => V = U
  <2> DEFINE T == Bad
  <2>1. T \subseteq SUBSET S /\ T # {}
    BY <1>1
  <2> HIDE DEF T
  <2>2. \E U \in T : \A V \in T : V \subseteq U => V = U
    BY <2>1, SmallestPart
  <2>3. QED
    BY <2>2 DEF T
<1>3. U # {}
  <2>1. SumFunctionOnSet(f, {}) \in Nat
    BY SumOfNone
  <2>2. QED
    BY <1>2, <2>1
<1>4. IsFiniteSet(U)
  BY <1>2, FS_Subset
<1>5. Choice(U) \in U /\ SumFunctionOnSet(f, U) = f[Choice(U)] + SumFunctionOnSet(f, U \ {Choice(U)})
  BY <1>3, <1>4, SumTakes
<1>6. U \ {Choice(U)} \in SUBSET S /\ U \ {Choice(U)} \notin Bad
  BY <1>2, <1>5
<1>7. SumFunctionOnSet(f, U \ {Choice(U)}) \in Nat /\ f[Choice(U)] \in Nat
  BY <1>2, <1>5, <1>6 DEF Counts
<1>8. QED
  BY <1>2, <1>5, <1>7

\* Any element may be taken first.
LEMMA SumWithout ==
  ASSUME NEW f, NEW S, IsFiniteSet(S), Counts(f, S), NEW x \in S
  PROVE  /\ SumFunctionOnSet(f, S) = f[x] + SumFunctionOnSet(f, S \ {x})
         /\ SumFunctionOnSet(f, S \ {x}) \in Nat /\ f[x] \in Nat
<1> DEFINE Bad == {U \in SUBSET S : \E y \in U : SumFunctionOnSet(f, U) # f[y] + SumFunctionOnSet(f, U \ {y})}
<1>1. ASSUME Bad # {} PROVE FALSE
  <2>1. PICK U \in Bad : \A V \in Bad : V \subseteq U => V = U
    <3> DEFINE T == Bad
    <3>1. T \subseteq SUBSET S /\ T # {}
      BY <1>1
    <3> HIDE DEF T
    <3>2. \E U \in T : \A V \in T : V \subseteq U => V = U
      BY <3>1, SmallestPart
    <3>3. QED
      BY <3>2 DEF T
  <2>2. PICK y \in U : SumFunctionOnSet(f, U) # f[y] + SumFunctionOnSet(f, U \ {y})
    BY <2>1
  <2> DEFINE c == Choice(U)
             Uc == U \ {c}
             Uy == U \ {y}
  <2>3. IsFiniteSet(U) /\ U # {} /\ IsFiniteSet(Uy) /\ Uy \in SUBSET S /\ Uc \in SUBSET S /\ IsFiniteSet(Uc)
    BY <2>1, <2>2, FS_Subset
  <2>4. c \in U /\ SumFunctionOnSet(f, U) = f[c] + SumFunctionOnSet(f, Uc)
    BY <2>3, SumTakes
  <2>5. c # y /\ y \in Uc /\ c \in Uy
    BY <2>2, <2>4
  <2>6. Uc \notin Bad /\ Uy \notin Bad
    BY <2>1, <2>2, <2>3, <2>4
  <2>7. SumFunctionOnSet(f, Uc) = f[y] + SumFunctionOnSet(f, Uc \ {y})
    BY <2>3, <2>5, <2>6
  <2>8. SumFunctionOnSet(f, Uy) = f[c] + SumFunctionOnSet(f, Uy \ {c})
    BY <2>3, <2>5, <2>6
  <2>9. Uc \ {y} = Uy \ {c}
    OBVIOUS
  <2>10. SumFunctionOnSet(f, Uc \ {y}) \in Nat /\ f[c] \in Nat /\ f[y] \in Nat
    <3> DEFINE W == Uc \ {y}
    <3>1. IsFiniteSet(W) /\ W \subseteq S /\ Counts(f, W)
      BY <2>1, <2>3, FS_Subset DEF Counts
    <3>2. SumFunctionOnSet(f, W) \in Nat
      <4> HIDE DEF W
      <4>1. QED
        BY <3>1, SumIsCount
    <3>3. QED
      BY <3>2, <2>1, <2>2, <2>4 DEF Counts
  <2>11. f[c] + (f[y] + SumFunctionOnSet(f, Uc \ {y})) = f[y] + (f[c] + SumFunctionOnSet(f, Uc \ {y}))
    BY <2>10
  <2>12. QED
    <3> HIDE DEF c, Uc, Uy
    <3>1. QED
      BY <2>2, <2>4, <2>7, <2>8, <2>9, <2>11 DEF Uy
<1>2. S \notin Bad
  BY <1>1
<1>3. IsFiniteSet(S \ {x}) /\ Counts(f, S \ {x}) /\ f[x] \in Nat
  BY FS_Subset DEF Counts
<1>4. SumFunctionOnSet(f, S \ {x}) \in Nat
  BY <1>3, SumIsCount
<1>5. QED
  BY <1>2, <1>3, <1>4

\* What the empty set has, and a set keeps with another element, a finite set has.
LEMMA FiniteSetsReached ==
  ASSUME NEW S, IsFiniteSet(S), NEW P, {} \in P,
         \A U \in SUBSET S : \A x \in S \ U : U \in P => U \cup {x} \in P
  PROVE  S \in P
<1> DEFINE Bad == (SUBSET S) \ P
<1>1. SUFFICES ASSUME Bad # {} PROVE FALSE
  OBVIOUS
<1>2. PICK U \in Bad : \A V \in Bad : V \subseteq U => V = U
  <2> DEFINE T == Bad
  <2>1. T \subseteq SUBSET S /\ T # {}
    BY <1>1
  <2> HIDE DEF T
  <2>2. \E U \in T : \A V \in T : V \subseteq U => V = U
    BY <2>1, SmallestPart
  <2>3. QED
    BY <2>2 DEF T
<1>3. PICK x \in U : TRUE
  BY <1>2
<1>4. U \ {x} \in P
  BY <1>2, <1>3
<1>5. U \ {x} \in SUBSET S /\ x \in S \ (U \ {x}) /\ U = (U \ {x}) \cup {x}
  BY <1>2, <1>3
<1>6. U \in P
  BY <1>4, <1>5
<1>7. QED
  BY <1>2, <1>6

LEMMA SumWith ==
  ASSUME NEW f, NEW S, IsFiniteSet(S), NEW x, x \notin S, Counts(f, S \cup {x})
  PROVE  /\ SumFunctionOnSet(f, S \cup {x}) = f[x] + SumFunctionOnSet(f, S)
         /\ SumFunctionOnSet(f, S) \in Nat /\ f[x] \in Nat
<1> DEFINE T == S \cup {x}
<1>1. IsFiniteSet(T) /\ x \in T /\ T \ {x} = S
  BY FS_AddElement
<1>2. Counts(f, T)
  OBVIOUS
<1>3. SumFunctionOnSet(f, T) = f[x] + SumFunctionOnSet(f, T \ {x}) /\ SumFunctionOnSet(f, T \ {x}) \in Nat /\ f[x] \in Nat
  <2> HIDE DEF T
  <2>1. QED
    BY <1>1, <1>2, SumWithout
<1>4. QED
  BY <1>1, <1>3

\* A sum grows with the set and with its terms.
LEMMA SumGrows ==
  ASSUME NEW f, NEW g, NEW S, NEW T, S \subseteq T, IsFiniteSet(T), Counts(f, S), Counts(g, T),
         \A x \in S : f[x] <= g[x]
  PROVE  SumFunctionOnSet(f, S) <= SumFunctionOnSet(g, T)
<1> DEFINE P == {U \in SUBSET T : SumFunctionOnSet(f, S \cap U) <= SumFunctionOnSet(g, U)}
<1>1. {} \in P
  <2>1. S \cap {} = {}
    OBVIOUS
  <2>2. SumFunctionOnSet(f, {}) = 0 /\ SumFunctionOnSet(g, {}) = 0
    BY SumOfNone
  <2>3. QED
    BY <2>1, <2>2
<1>2. ASSUME NEW U \in SUBSET T, NEW x \in T \ U, U \in P PROVE U \cup {x} \in P
  <2>1. IsFiniteSet(U) /\ IsFiniteSet(S \cap U)
    BY FS_Subset
  <2>2. SumFunctionOnSet(g, U \cup {x}) = g[x] + SumFunctionOnSet(g, U) /\ SumFunctionOnSet(g, U) \in Nat /\ g[x] \in Nat
    <3>1. Counts(g, U \cup {x}) /\ x \notin U
      BY DEF Counts
    <3>2. QED
      BY <2>1, <3>1, SumWith
  <2>3. SumFunctionOnSet(f, S \cap U) <= SumFunctionOnSet(g, U) /\ SumFunctionOnSet(f, S \cap U) \in Nat
    <3> DEFINE V == S \cap U
    <3>1. Counts(f, V)
      BY DEF Counts
    <3>2. SumFunctionOnSet(f, V) \in Nat
      <4> HIDE DEF V
      <4>1. QED
        BY <2>1, <3>1, SumIsCount DEF V
    <3>3. QED
      BY <1>2, <3>2
  <2>4. CASE x \in S
    <3> DEFINE V == S \cap U
    <3>1. S \cap (U \cup {x}) = V \cup {x} /\ x \notin V
      BY <2>4
    <3>2. Counts(f, V \cup {x})
      BY <2>4 DEF Counts
    <3>3. SumFunctionOnSet(f, V \cup {x}) = f[x] + SumFunctionOnSet(f, V) /\ f[x] \in Nat
      <4> HIDE DEF V
      <4>1. QED
        BY <2>1, <3>1, <3>2, SumWith DEF V
    <3>4. f[x] <= g[x]
      BY <2>4
    <3>5. SumFunctionOnSet(f, S \cap (U \cup {x})) <= SumFunctionOnSet(g, U \cup {x})
      BY <2>2, <2>3, <3>1, <3>3, <3>4
    <3>6. QED
      BY <3>5
  <2>5. CASE x \notin S
    <3>1. S \cap (U \cup {x}) = S \cap U
      BY <2>5
    <3>2. SumFunctionOnSet(f, S \cap U) <= g[x] + SumFunctionOnSet(g, U)
      BY <2>2, <2>3
    <3>3. SumFunctionOnSet(f, S \cap (U \cup {x})) <= SumFunctionOnSet(g, U \cup {x})
      BY <2>2, <3>1, <3>2
    <3>4. QED
      BY <3>3
  <2>6. QED
    BY <2>4, <2>5
<1>3. T \in P
  <2> HIDE DEF P
  <2>1. QED
    BY <1>1, <1>2, FiniteSetsReached
<1>4. S \cap T = S
  OBVIOUS
<1>5. QED
  BY <1>3, <1>4

LEMMA SumAgrees ==
  ASSUME NEW f, NEW g, NEW S, IsFiniteSet(S), Counts(f, S), \A x \in S : f[x] = g[x]
  PROVE  SumFunctionOnSet(f, S) = SumFunctionOnSet(g, S)
<1>1. Counts(g, S) /\ \A x \in S : f[x] \in Nat
  BY DEF Counts
<1>2. SumFunctionOnSet(f, S) \in Nat /\ SumFunctionOnSet(g, S) \in Nat
  BY <1>1, SumIsCount
<1>3. SumFunctionOnSet(f, S) <= SumFunctionOnSet(g, S) /\ SumFunctionOnSet(g, S) <= SumFunctionOnSet(f, S)
  <2>1. \A x \in S : f[x] <= g[x] /\ g[x] <= f[x]
    BY <1>1
  <2>2. QED
    BY <1>1, <2>1, SumGrows
<1>4. QED
  BY <1>2, <1>3

\* Terms that are zero do not count.
LEMMA SumSkipsZeros ==
  ASSUME NEW f, NEW S, NEW T, S \subseteq T, IsFiniteSet(T), Counts(f, T), \A x \in T \ S : f[x] = 0
  PROVE  SumFunctionOnSet(f, S) = SumFunctionOnSet(f, T)
<1> DEFINE P == {U \in SUBSET T : SumFunctionOnSet(f, S \cap U) = SumFunctionOnSet(f, U)}
<1>1. {} \in P
  <2>1. S \cap {} = {}
    OBVIOUS
  <2>2. QED
    BY <2>1
<1>2. ASSUME NEW U \in SUBSET T, NEW x \in T \ U, U \in P PROVE U \cup {x} \in P
  <2>1. IsFiniteSet(U) /\ IsFiniteSet(S \cap U)
    BY FS_Subset
  <2>2. SumFunctionOnSet(f, U \cup {x}) = f[x] + SumFunctionOnSet(f, U) /\ SumFunctionOnSet(f, U) \in Nat
    <3>1. Counts(f, U \cup {x}) /\ x \notin U
      BY DEF Counts
    <3>2. QED
      BY <2>1, <3>1, SumWith
  <2>3. CASE x \in S
    <3> DEFINE V == S \cap U
    <3>1. S \cap (U \cup {x}) = V \cup {x} /\ x \notin V
      BY <2>3
    <3>2. Counts(f, V \cup {x})
      BY <2>3 DEF Counts
    <3>3. SumFunctionOnSet(f, V \cup {x}) = f[x] + SumFunctionOnSet(f, V)
      <4> HIDE DEF V
      <4>1. QED
        BY <2>1, <3>1, <3>2, SumWith DEF V
    <3>4. QED
      BY <1>2, <2>2, <3>1, <3>3
  <2>4. CASE x \notin S
    <3>1. S \cap (U \cup {x}) = S \cap U /\ f[x] = 0
      BY <2>4
    <3>2. QED
      BY <1>2, <2>2, <3>1
  <2>5. QED
    BY <2>3, <2>4
<1>3. T \in P
  <2> HIDE DEF P
  <2>1. QED
    BY <1>1, <1>2, FiniteSetsReached
<1>4. S \cap T = S
  OBVIOUS
<1>5. QED
  BY <1>3, <1>4

LEMMA SumAdds ==
  ASSUME NEW f, NEW g, NEW S, IsFiniteSet(S), Counts(f, S), Counts(g, S)
  PROVE  SumFunctionOnSet([x \in S |-> f[x] + g[x]], S) = SumFunctionOnSet(f, S) + SumFunctionOnSet(g, S)
<1> DEFINE h == [x \in S |-> f[x] + g[x]]
           P == {U \in SUBSET S : SumFunctionOnSet(h, U) = SumFunctionOnSet(f, U) + SumFunctionOnSet(g, U)}
<1>1. {} \in P
  <2> HIDE DEF h
  <2>1. SumFunctionOnSet(h, {}) = 0 /\ SumFunctionOnSet(f, {}) = 0 /\ SumFunctionOnSet(g, {}) = 0
    BY SumOfNone
  <2>2. QED
    BY <2>1
<1>2. ASSUME NEW U \in SUBSET S, NEW x \in S \ U, U \in P PROVE U \cup {x} \in P
  <2>1. IsFiniteSet(U) /\ x \notin U /\ h[x] = f[x] + g[x]
    BY FS_Subset
  <2>2. Counts(f, U \cup {x}) /\ Counts(g, U \cup {x}) /\ Counts(h, U \cup {x})
    BY DEF Counts
  <2> HIDE DEF h
  <2>3. /\ SumFunctionOnSet(f, U \cup {x}) = f[x] + SumFunctionOnSet(f, U) /\ SumFunctionOnSet(f, U) \in Nat /\ f[x] \in Nat
        /\ SumFunctionOnSet(g, U \cup {x}) = g[x] + SumFunctionOnSet(g, U) /\ SumFunctionOnSet(g, U) \in Nat /\ g[x] \in Nat
        /\ SumFunctionOnSet(h, U \cup {x}) = h[x] + SumFunctionOnSet(h, U)
    BY <2>1, <2>2, SumWith
  <2>4. QED
    BY <1>2, <2>1, <2>3
<1>3. S \in P
  <2> HIDE DEF P
  <2>1. QED
    BY <1>1, <1>2, FiniteSetsReached
<1>4. QED
  BY <1>3

\* A table's sum by rows is its sum by columns.
RowSums(m, S, T) == [x \in S |-> SumFunctionOnSet([y \in T |-> m[<<x, y>>]], T)]
ColumnSums(m, S, T) == [y \in T |-> SumFunctionOnSet([x \in S |-> m[<<x, y>>]], S)]
LEMMA SumByRowsOrColumns ==
  ASSUME NEW S, IsFiniteSet(S), NEW T, IsFiniteSet(T), NEW m, \A x \in S, y \in T : m[<<x, y>>] \in Nat
  PROVE  SumFunctionOnSet(RowSums(m, S, T), S) = SumFunctionOnSet(ColumnSums(m, S, T), T)
<1> DEFINE r == RowSums(m, S, T)
           Col(y) == [x \in S |-> m[<<x, y>>]]
           c(U) == [y \in T |-> SumFunctionOnSet(Col(y), U)]
           P == {U \in SUBSET S : SumFunctionOnSet(r, U) = SumFunctionOnSet(c(U), T)}
<1>1. \A x \in S : r[x] \in Nat
  <2> TAKE x \in S
  <2> DEFINE line == [y \in T |-> m[<<x, y>>]]
  <2>1. Counts(line, T)
    BY DEF Counts
  <2> HIDE DEF line
  <2>2. SumFunctionOnSet(line, T) \in Nat
    BY <2>1, SumIsCount
  <2>3. r[x] = SumFunctionOnSet(line, T)
    BY DEF RowSums, line
  <2>4. QED
    BY <2>2, <2>3
<1>2. \A U \in SUBSET S : \A y \in T : SumFunctionOnSet(Col(y), U) \in Nat
  <2> TAKE U \in SUBSET S
  <2> TAKE y \in T
  <2> DEFINE col == Col(y)
  <2>1. Counts(col, U) /\ IsFiniteSet(U)
    BY FS_Subset DEF Counts
  <2> HIDE DEF col
  <2>2. SumFunctionOnSet(col, U) \in Nat
    BY <2>1, SumIsCount
  <2>3. QED
    BY <2>2 DEF col
<1>3. {} \in P
  <2> DEFINE zeros == c({})
  <2>1. \A y \in T : zeros[y] = 0
    <3> TAKE y \in T
    <3> DEFINE col == Col(y)
    <3>1. zeros[y] = SumFunctionOnSet(col, {})
      OBVIOUS
    <3> HIDE DEF col
    <3>2. SumFunctionOnSet(col, {}) = 0
      BY SumOfNone
    <3>3. QED
      BY <3>1, <3>2
  <2> HIDE DEF zeros, r
  <2>2. Counts(zeros, T)
    BY <2>1 DEF Counts
  <2>3. SumFunctionOnSet(zeros, {}) = SumFunctionOnSet(zeros, T)
    <3>1. {} \subseteq T /\ \A y \in T \ {} : zeros[y] = 0
      BY <2>1
    <3> DEFINE none == {}
    <3>2. none \subseteq T /\ \A y \in T \ none : zeros[y] = 0
      BY <3>1
    <3> HIDE DEF none
    <3>3. SumFunctionOnSet(zeros, none) = SumFunctionOnSet(zeros, T)
      BY <2>2, <3>2, SumSkipsZeros
    <3>4. QED
      BY <3>3 DEF none
  <2>4. SumFunctionOnSet(zeros, {}) = 0 /\ SumFunctionOnSet(r, {}) = 0
    BY SumOfNone
  <2>5. SumFunctionOnSet(r, {}) = SumFunctionOnSet(zeros, T)
    BY <2>3, <2>4
  <2>6. QED
    BY <2>5 DEF zeros
<1>4. ASSUME NEW U \in SUBSET S, NEW x \in S \ U, U \in P PROVE U \cup {x} \in P
  <2> DEFINE V == U \cup {x}
             line == [y \in T |-> m[<<x, y>>]]
             before == c(U)
             after == c(V)
             added == [y \in T |-> line[y] + before[y]]
  <2>1. IsFiniteSet(U) /\ x \notin U /\ V \in SUBSET S
    BY FS_Subset
  <2>2. Counts(line, T) /\ Counts(before, T) /\ Counts(r, V)
    BY <1>1, <1>2 DEF Counts
  <2>3. \A y \in T : after[y] = added[y]
    <3> TAKE y \in T
    <3> DEFINE col == Col(y)
    <3>1. Counts(col, V) /\ col[x] = line[y]
      BY DEF Counts
    <3>2. after[y] = SumFunctionOnSet(col, V) /\ before[y] = SumFunctionOnSet(col, U)
      OBVIOUS
    <3>3. added[y] = line[y] + before[y]
      OBVIOUS
    <3> HIDE DEF col, line, before, after, added
    <3>4. SumFunctionOnSet(col, U \cup {x}) = col[x] + SumFunctionOnSet(col, U)
      BY <2>1, <3>1, SumWith
    <3>5. QED
      BY <3>1, <3>2, <3>3, <3>4
  <2>4. Counts(added, T)
    BY <2>2 DEF Counts
  <2>5. r[x] = SumFunctionOnSet(line, T)
    BY DEF RowSums
  <2>6. SumFunctionOnSet(r, U) = SumFunctionOnSet(before, T)
    BY <1>4
  <2>7. SumFunctionOnSet(added, T) = SumFunctionOnSet(line, T) + SumFunctionOnSet(before, T)
    <3> HIDE DEF line, before
    <3>1. QED
      BY <2>2, SumAdds
  <2>8. SumFunctionOnSet(r, V) = r[x] + SumFunctionOnSet(r, U)
    <3> HIDE DEF r
    <3>1. QED
      BY <2>1, <2>2, SumWith
  <2>9. SumFunctionOnSet(added, T) = SumFunctionOnSet(after, T)
    <3> HIDE DEF added, after
    <3>1. QED
      BY <2>3, <2>4, SumAgrees
  <2>10. SumFunctionOnSet(r, V) = SumFunctionOnSet(after, T)
    <3> HIDE DEF r, line, before, after, added
    <3>1. QED
      BY <2>5, <2>6, <2>7, <2>8, <2>9
  <2>11. QED
    BY <2>1, <2>10
<1>5. S \in P
  <2> HIDE DEF P
  <2>1. QED
    BY <1>3, <1>4, FiniteSetsReached
<1>6. c(S) = ColumnSums(m, S, T)
  BY DEF ColumnSums
<1>7. QED
  BY <1>5, <1>6

-----------------------------------------------------------------------------
(***************************************************************************)
(* Analytics.  What a job has in hand and what the table holds are at most *)
(* what has arrived since; and two jobs that have both read one window     *)
(* know it, so that a window is aggregated alone or is marked.             *)
(***************************************************************************)
AWindow == [period : {"hourly", "daily"}, from : Hour, to : Nat]
Size(period) == IF period = "hourly" THEN 1 ELSE DayLength
Full(w) == w.to = w.from + Size(w.period)
Same(v, w) == v.period = w.period /\ v.from = w.from
Aggregate == [total : Nat, suppressed : Nat]
TableKey == {"hourly", "daily"} \X Hour \X (Channel \cup {All})
WholeOf(k) == Window(k[1], k[2], k[2] + Size(k[1]))

AllReceived(w) == TotalOf(receipts, Channel, w)
AllSuppressed(w) == TotalOf(suppressions, Channel, w)
Exact(c, w) == [total |-> Total(receipts[c], w), suppressed |-> Total(suppressions[c], w)]
None(c, w) == Total(receipts[c], w) = 0 /\ Total(suppressions[c], w) = 0
Within(row, c, w) ==
  IF c = All THEN row.total <= AllReceived(w) /\ row.suppressed <= AllSuppressed(w)
  ELSE row.total <= Total(receipts[c], w) /\ row.suppressed <= Total(suppressions[c], w)
ExactRow(w, c) == IF HasRow(w, c) THEN table[Key(w, c)] = Exact(c, w) ELSE None(c, w)
Told(w, c) == IF HasRow(w, c) THEN table[Key(w, c)].total ELSE 0

W(j) == job[j].todo[1]
AtWork(j) == job[j].pc \in {"suppressed", "upsert"}
Resting(j) == job[j] = NoJob
Ready(j) == job[j] = [todo |-> job[j].todo, pc |-> "receipts"]
HasRead(j) ==
  /\ job[j] = [todo |-> job[j].todo, pc |-> job[j].pc, rows |-> job[j].rows, closed |-> job[j].closed, alone |-> job[j].alone]
  /\ AtWork(j) /\ job[j].closed \in BOOLEAN /\ job[j].alone \in BOOLEAN
Planned(j, v) ==
  /\ v \in AWindow /\ v.from <= hour /\ v.to <= v.from + Size(v.period)
  /\ j # "manual" \/ v.period = "hourly" => Full(v)
  /\ j # "manual" => v.to <= hour

AnalyticsTyped ==
  /\ hour \in Hour
  /\ receipts \in [Channel -> [Hour -> Nat]] /\ suppressions \in [Channel \cup {Unknown} -> [Hour -> Nat]]
  /\ DOMAIN table \subseteq TableKey /\ \A k \in DOMAIN table : table[k] \in Aggregate /\ k[2] <= hour
  /\ DOMAIN job = Job

JobFormed(j) ==
  /\ Resting(j) \/ Ready(j) \/ HasRead(j)
  /\ job[j].todo \in Seq(AWindow) /\ (job[j].pc # "idle" => job[j].todo # <<>>)
  /\ \A n \in DOMAIN job[j].todo : Planned(j, job[j].todo[n])

RowsInHand(j) ==
  AtWork(j) =>
    /\ DOMAIN job[j].rows \subseteq Channel \cup {All} /\ (All \in DOMAIN job[j].rows <=> job[j].pc = "upsert")
    /\ \A c \in DOMAIN job[j].rows : job[j].rows[c] \in Aggregate /\ Within(job[j].rows[c], c, W(j))

\* A job that read a closed window, and one that did so alone.
ClosedInHand(j) ==
  AtWork(j) /\ job[j].closed =>
    /\ W(j).to <= hour /\ Full(W(j)) /\ ~ (j = "manual" /\ W(j).period = "daily")
    /\ job[j].pc = "suppressed" =>
         \A c \in Channel : IF c \in DOMAIN job[j].rows THEN job[j].rows[c].total = Total(receipts[c], W(j))
                            ELSE Total(receipts[c], W(j)) = 0
    /\ job[j].pc = "upsert" => \A c \in Channel \cap DOMAIN job[j].rows : job[j].rows[c] = Exact(c, W(j))
NoManual(w) == w.period = "daily" => \A n \in DOMAIN job["manual"].todo : ~ Same(job["manual"].todo[n], w)
AloneInHand(j) ==
  AtWork(j) /\ job[j].alone =>
    /\ \A i \in Job \ {j} : AtWork(i) => ~ Same(W(i), W(j))
    /\ job[j].closed => NoManual(W(j))
    /\ job[j].closed /\ job[j].pc = "upsert" => \A c \in Channel \ DOMAIN job[j].rows : ExactRow(W(j), c)
    /\ W(j).period = "hourly" =>
         /\ job[j].pc = "suppressed" => \A c \in Channel \ DOMAIN job[j].rows : Told(W(j), c) = 0
         /\ job[j].pc = "upsert" =>
              job[j].rows[All].total =
                SumFunctionOnSet([c \in Channel |-> IF c \in DOMAIN job[j].rows THEN job[j].rows[c].total ELSE Told(W(j), c)], Channel)

DoneExact(w) ==
  /\ w \in AWindow /\ w.to <= hour /\ Full(w) /\ NoManual(w)
  /\ \A c \in Channel : ExactRow(w, c)
  /\ \A i \in Job : AtWork(i) /\ Same(W(i), w) => job[i].closed

Adds(w) == Told(w, All) = SumFunctionOnSet([c \in Channel |-> Told(w, c)], Channel)
UnderWay(w) == \E j \in Job : job[j].pc = "upsert" /\ Same(W(j), w)

AnalyticsInv ==
  /\ AnalyticsTyped
  /\ \A k \in DOMAIN table : Within(table[k], k[3], WholeOf(k))
  /\ \A j \in Job : JobFormed(j) /\ RowsInHand(j) /\ ClosedInHand(j) /\ AloneInHand(j)
  /\ \A w \in done : DoneExact(w)
  /\ \A h \in Hour : Key(Hourly(h), All) \in dirty \/ UnderWay(Hourly(h)) \/ Adds(Hourly(h))

-----------------------------------------------------------------------------
\* Totals.

LEMMA HoursFinite == \A w : Hours(w) \subseteq Hour /\ IsFiniteSet(Hours(w)) /\ IsFiniteSet(Hour)
<1> TAKE w
<1>1. IsFiniteSet(Hour)
  BY FS_Interval, AnalyticsAssumption DEF Hour
<1>2. Hours(w) \subseteq Hour
  BY DEF Hours
<1>3. QED
  BY <1>1, <1>2, FS_Subset

LEMMA TotalsGrow ==
  ASSUME NEW f \in [Hour -> Nat], NEW g \in [Hour -> Nat], NEW v, NEW w, Hours(v) \subseteq Hours(w),
         \A h \in Hours(v) : f[h] <= g[h]
  PROVE  Total(f, v) \in Nat /\ Total(g, w) \in Nat /\ Total(f, v) <= Total(g, w)
<1>1. Counts(f, Hours(v)) /\ Counts(g, Hours(w)) /\ IsFiniteSet(Hours(v)) /\ IsFiniteSet(Hours(w))
  BY HoursFinite DEF Counts
<1>2. QED
  BY <1>1, SumGrows, SumIsCount DEF Total

LEMMA TotalsSame ==
  ASSUME NEW f \in [Hour -> Nat], NEW g, NEW w, \A h \in Hours(w) : f[h] = g[h]
  PROVE  Total(f, w) = Total(g, w)
<1>1. Counts(f, Hours(w)) /\ IsFiniteSet(Hours(w))
  BY HoursFinite DEF Counts
<1>2. QED
  BY <1>1, SumAgrees DEF Total

\* Totals over several channels.
LEMMA SumsGrow ==
  ASSUME NEW C, IsFiniteSet(C), NEW F, NEW G, NEW v, NEW w,
         \A c \in C : Total(F[c], v) \in Nat /\ Total(G[c], w) \in Nat /\ Total(F[c], v) <= Total(G[c], w)
  PROVE  TotalOf(F, C, v) \in Nat /\ TotalOf(G, C, w) \in Nat /\ TotalOf(F, C, v) <= TotalOf(G, C, w)
<1> DEFINE f == [c \in C |-> Total(F[c], v)]
           g == [c \in C |-> Total(G[c], w)]
<1>1. Counts(f, C) /\ Counts(g, C) /\ \A c \in C : f[c] <= g[c]
  BY DEF Counts
<1>2. TotalOf(F, C, v) = SumFunctionOnSet(f, C) /\ TotalOf(G, C, w) = SumFunctionOnSet(g, C)
  BY DEF TotalOf, SumFunction
<1> HIDE DEF f, g
<1>3. SumFunctionOnSet(f, C) <= SumFunctionOnSet(g, C)
  BY <1>1, SumGrows
<1>4. QED
  BY <1>1, <1>2, <1>3, SumIsCount

LEMMA SumOfOne ==
  ASSUME NEW F, NEW c, NEW w, Total(F[c], w) \in Nat
  PROVE  TotalOf(F, {c}, w) = Total(F[c], w)
<1> DEFINE f == [x \in {c} |-> Total(F[x], w)]
<1>1. TotalOf(F, {c}, w) = SumFunctionOnSet(f, {c})
  BY DEF TotalOf, SumFunction
<1>2. Counts(f, {} \cup {c}) /\ f[c] = Total(F[c], w) /\ {} \cup {c} = {c}
  BY DEF Counts
<1> HIDE DEF f
<1>3. SumFunctionOnSet(f, {} \cup {c}) = f[c] + SumFunctionOnSet(f, {})
  BY <1>2, FS_EmptySet, SumWith
<1>4. QED
  BY <1>1, <1>2, <1>3, SumOfNone

\* What has arrived, of a window and of a larger one.
LEMMA Received ==
  ASSUME AnalyticsTyped, NEW v, NEW w, Hours(v) \subseteq Hours(w)
  PROVE  /\ \A c \in Channel : /\ {Total(receipts[c], v), Total(suppressions[c], v)} \subseteq Nat
                               /\ {Total(receipts[c], w), Total(suppressions[c], w)} \subseteq Nat
                               /\ Total(receipts[c], v) <= Total(receipts[c], w)
                               /\ Total(suppressions[c], v) <= Total(suppressions[c], w)
         /\ {AllReceived(v), AllReceived(w), AllSuppressed(v), AllSuppressed(w)} \subseteq Nat
         /\ AllReceived(v) <= AllReceived(w) /\ AllSuppressed(v) <= AllSuppressed(w)
<1>1. \A c \in Channel : receipts[c] \in [Hour -> Nat] /\ suppressions[c] \in [Hour -> Nat]
  BY DEF AnalyticsTyped
<1>2. \A f \in [Hour -> Nat] : \A h \in Hours(v) : f[h] <= f[h]
  BY HoursFinite
<1>3. \A f \in [Hour -> Nat] : Total(f, v) \in Nat /\ Total(f, w) \in Nat /\ Total(f, v) <= Total(f, w)
  BY <1>2, TotalsGrow
<1>4. \A c \in Channel : /\ {Total(receipts[c], v), Total(suppressions[c], v)} \subseteq Nat
                         /\ {Total(receipts[c], w), Total(suppressions[c], w)} \subseteq Nat
                         /\ Total(receipts[c], v) <= Total(receipts[c], w)
                         /\ Total(suppressions[c], v) <= Total(suppressions[c], w)
  BY <1>1, <1>3
<1>5. IsFiniteSet(Channel)
  BY AnalyticsAssumption
<1>6. /\ {AllReceived(v), AllReceived(w), AllSuppressed(v), AllSuppressed(w)} \subseteq Nat
      /\ AllReceived(v) <= AllReceived(w) /\ AllSuppressed(v) <= AllSuppressed(w)
  BY <1>4, <1>5, SumsGrow DEF AllReceived, AllSuppressed
<1>7. QED
  BY <1>4, <1>6

LEMMA WithinLarger ==
  ASSUME AnalyticsTyped, NEW v, NEW w, Hours(v) \subseteq Hours(w), NEW c \in Channel \cup {All}, NEW row \in Aggregate, Within(row, c, v)
  PROVE  Within(row, c, w)
<1>1. row.total \in Nat /\ row.suppressed \in Nat
  BY DEF Aggregate
<1>2. CASE c = All
  BY <1>1, <1>2, Received DEF Within
<1>3. CASE c # All
  <2>1. row.total <= Total(receipts[c], v) /\ row.suppressed <= Total(suppressions[c], v) /\ c \in Channel
    BY <1>3 DEF Within
  <2>2. /\ {Total(receipts[c], v), Total(suppressions[c], v), Total(receipts[c], w), Total(suppressions[c], w)} \subseteq Nat
        /\ Total(receipts[c], v) <= Total(receipts[c], w) /\ Total(suppressions[c], v) <= Total(suppressions[c], w)
    BY <2>1, Received
  <2>3. row.total <= Total(receipts[c], w) /\ row.suppressed <= Total(suppressions[c], w)
    BY <1>1, <2>1, <2>2
  <2>4. QED
    BY <1>3, <2>3 DEF Within
<1>4. QED
  BY <1>2, <1>3

\* The hours that are over get no more receipts.
Grown ==
  /\ AnalyticsTyped /\ AnalyticsTyped' /\ hour <= hour'
  /\ \A c \in Channel, h \in Hour : /\ receipts[c][h] <= receipts'[c][h] /\ suppressions[c][h] <= suppressions'[c][h]
                                    /\ h < hour => receipts[c][h] = receipts'[c][h] /\ suppressions[c][h] = suppressions'[c][h]

LEMMA TotalsMonotone ==
  ASSUME Grown, NEW w
  PROVE  /\ \A c \in Channel : /\ {Total(receipts[c], w), Total(suppressions[c], w)} \subseteq Nat
                               /\ {Total(receipts'[c], w), Total(suppressions'[c], w)} \subseteq Nat
                               /\ Total(receipts[c], w) <= Total(receipts'[c], w)
                               /\ Total(suppressions[c], w) <= Total(suppressions'[c], w)
         /\ {AllReceived(w), AllReceived(w)', AllSuppressed(w), AllSuppressed(w)'} \subseteq Nat
         /\ AllReceived(w) <= AllReceived(w)' /\ AllSuppressed(w) <= AllSuppressed(w)'
         /\ w.to <= hour /\ w.to \in Nat => \A c \in Channel : Exact(c, w) = Exact(c, w)' /\ (None(c, w) <=> None(c, w)')
<1>1. \A c \in Channel : /\ receipts[c] \in [Hour -> Nat] /\ suppressions[c] \in [Hour -> Nat]
                         /\ receipts'[c] \in [Hour -> Nat] /\ suppressions'[c] \in [Hour -> Nat]
  BY DEF Grown, AnalyticsTyped
<1>2. \A c \in Channel : \A h \in Hours(w) : receipts[c][h] <= receipts'[c][h] /\ suppressions[c][h] <= suppressions'[c][h]
  BY HoursFinite DEF Grown
<1>3. \A c \in Channel : /\ {Total(receipts[c], w), Total(suppressions[c], w)} \subseteq Nat
                         /\ {Total(receipts'[c], w), Total(suppressions'[c], w)} \subseteq Nat
                         /\ Total(receipts[c], w) <= Total(receipts'[c], w)
                         /\ Total(suppressions[c], w) <= Total(suppressions'[c], w)
  <2> TAKE c \in Channel
  <2>1. \A f, g \in [Hour -> Nat] : (\A h \in Hours(w) : f[h] <= g[h])
          => Total(f, w) \in Nat /\ Total(g, w) \in Nat /\ Total(f, w) <= Total(g, w)
    BY TotalsGrow
  <2>2. Total(receipts[c], w) \in Nat /\ Total(receipts'[c], w) \in Nat /\ Total(receipts[c], w) <= Total(receipts'[c], w)
    BY <1>1, <1>2, <2>1
  <2>3. Total(suppressions[c], w) \in Nat /\ Total(suppressions'[c], w) \in Nat /\ Total(suppressions[c], w) <= Total(suppressions'[c], w)
    BY <1>1, <1>2, <2>1
  <2>4. QED
    BY <2>2, <2>3
<1>4. IsFiniteSet(Channel)
  BY AnalyticsAssumption
<1>5. /\ {AllReceived(w), AllReceived(w)', AllSuppressed(w), AllSuppressed(w)'} \subseteq Nat
      /\ AllReceived(w) <= AllReceived(w)' /\ AllSuppressed(w) <= AllSuppressed(w)'
  <2>1. \A F, G : (\A c \in Channel : Total(F[c], w) \in Nat /\ Total(G[c], w) \in Nat /\ Total(F[c], w) <= Total(G[c], w))
                  => TotalOf(F, Channel, w) \in Nat /\ TotalOf(G, Channel, w) \in Nat /\ TotalOf(F, Channel, w) <= TotalOf(G, Channel, w)
    BY <1>4, SumsGrow
  <2>2. TotalOf(receipts, Channel, w) \in Nat /\ TotalOf(receipts', Channel, w) \in Nat
        /\ TotalOf(receipts, Channel, w) <= TotalOf(receipts', Channel, w)
    BY <1>3, <2>1
  <2>3. TotalOf(suppressions, Channel, w) \in Nat /\ TotalOf(suppressions', Channel, w) \in Nat
        /\ TotalOf(suppressions, Channel, w) <= TotalOf(suppressions', Channel, w)
    BY <1>3, <2>1
  <2>4. QED
    BY <2>2, <2>3 DEF AllReceived, AllSuppressed
<1>6. ASSUME w.to <= hour, w.to \in Nat, NEW c \in Channel
      PROVE  Exact(c, w) = Exact(c, w)' /\ (None(c, w) <=> None(c, w)')
  <2>1. \A h \in Hours(w) : receipts[c][h] = receipts'[c][h] /\ suppressions[c][h] = suppressions'[c][h]
    <3> TAKE h \in Hours(w)
    <3>1. h \in Hour /\ h \in Nat /\ hour \in Nat /\ h < w.to
      BY DEF Hours, Hour, Grown, AnalyticsTyped
    <3>2. h < hour
      BY <1>6, <3>1
    <3>3. QED
      BY <3>1, <3>2 DEF Grown
  <2>2. Total(receipts[c], w) = Total(receipts'[c], w) /\ Total(suppressions[c], w) = Total(suppressions'[c], w)
    BY <1>1, <2>1, TotalsSame
  <2>3. QED
    BY <2>2 DEF Exact, None
<1>7. QED
  BY <1>3, <1>5, <1>6

\* A window whose hours are over keeps its totals, and its rows stay within them.
LEMMA WithinKept ==
  ASSUME Grown, NEW row \in Aggregate, NEW c \in Channel \cup {All}, NEW w, Within(row, c, w)
  PROVE  Within(row, c, w)'
<1>1. row.total \in Nat /\ row.suppressed \in Nat
  BY DEF Aggregate
<1>2. CASE c = All
  <2>1. row.total <= AllReceived(w) /\ row.suppressed <= AllSuppressed(w)
    BY <1>2 DEF Within
  <2>2. row.total <= AllReceived(w)' /\ row.suppressed <= AllSuppressed(w)'
    BY <1>1, <2>1, TotalsMonotone
  <2>3. QED
    BY <1>2, <2>2 DEF Within
<1>3. CASE c # All
  <2>1. row.total <= Total(receipts[c], w) /\ row.suppressed <= Total(suppressions[c], w) /\ c \in Channel
    BY <1>3 DEF Within
  <2>2. /\ {Total(receipts[c], w), Total(suppressions[c], w), Total(receipts'[c], w), Total(suppressions'[c], w)} \subseteq Nat
        /\ Total(receipts[c], w) <= Total(receipts'[c], w) /\ Total(suppressions[c], w) <= Total(suppressions'[c], w)
    BY <2>1, TotalsMonotone
  <2>3. row.total <= Total(receipts'[c], w) /\ row.suppressed <= Total(suppressions'[c], w)
    BY <1>1, <2>1, <2>2
  <2>4. QED
    BY <1>3, <2>3 DEF Within
<1>4. QED
  BY <1>2, <1>3

LEMMA PlannedKept ==
  ASSUME hour \in Nat, hour' \in Nat, hour <= hour', NEW j, NEW v, Planned(j, v)
  PROVE  Planned(j, v)' /\ v.to \in Nat
<1>1. v.from \in Nat /\ v.to \in Nat
  BY DEF Planned, AWindow, Hour
<1>2. QED
  BY <1>1 DEF Planned, Full

\* The first window of a job is one of its plan.
LEMMA FirstPlanned ==
  ASSUME NEW j \in Job, JobFormed(j), job[j].pc # "idle"
  PROVE  /\ 1 \in DOMAIN job[j].todo /\ Planned(j, W(j)) /\ W(j) \in AWindow
         /\ Tail(job[j].todo) \in Seq(AWindow) /\ \A n \in DOMAIN Tail(job[j].todo) : Planned(j, Tail(job[j].todo)[n])
<1> DEFINE todo == job[j].todo
<1>1. todo \in Seq(AWindow) /\ todo # <<>> /\ \A n \in DOMAIN todo : Planned(j, todo[n])
  BY DEF JobFormed
<1>2. W(j) = todo[1]
  BY DEF W
<1> HIDE DEF todo
<1>3. Len(todo) \in Nat \ {0} /\ DOMAIN todo = 1..Len(todo)
  BY <1>1
<1>4. 1 \in DOMAIN todo
  BY <1>3
<1>5. Tail(todo) \in Seq(AWindow) /\ DOMAIN Tail(todo) = 1..(Len(todo) - 1) /\ \A n \in 1..(Len(todo) - 1) : Tail(todo)[n] = todo[n + 1]
  BY <1>1, <1>3
<1>6. \A n \in DOMAIN Tail(todo) : Planned(j, Tail(todo)[n])
  BY <1>1, <1>3, <1>5
<1>7. QED
  BY <1>1, <1>2, <1>4, <1>5, <1>6 DEF Planned, todo

\* Receipts arrive and hours pass.
LEMMA TimeStep ==
  ASSUME AnalyticsInv, Grown, UNCHANGED <<table, job, done, dirty>>
  PROVE  AnalyticsInv'
<1>1. table' = table /\ job' = job /\ done' = done /\ dirty' = dirty
  OBVIOUS
<1>2. hour \in Nat /\ hour' \in Nat /\ hour <= hour'
  BY DEF Grown, AnalyticsTyped, Hour
<1>3. \A k \in DOMAIN table' : Within(table[k], k[3], WholeOf(k))'
  <2> TAKE k \in DOMAIN table'
  <2>1. table[k] \in Aggregate /\ k[3] \in Channel \cup {All} /\ Within(table[k], k[3], WholeOf(k))
    BY <1>1 DEF AnalyticsInv, AnalyticsTyped, TableKey
  <2>2. PICK row \in Aggregate, c \in Channel \cup {All}, w \in {WholeOf(k)} : row = table[k] /\ c = k[3] /\ w = WholeOf(k)
    BY <2>1
  <2>3. Within(row, c, w)'
    BY <2>1, <2>2, WithinKept
  <2>4. QED
    BY <1>1, <2>2, <2>3 DEF Within, AllReceived, AllSuppressed
<1>4. ASSUME NEW j \in Job PROVE JobFormed(j)'
  <2>1. JobFormed(j)
    BY DEF AnalyticsInv
  <2>2. \A n \in DOMAIN job[j].todo : Planned(j, job[j].todo[n])'
    <3> TAKE n \in DOMAIN job[j].todo
    <3>1. PICK v : v = job[j].todo[n]
      OBVIOUS
    <3>2. Planned(j, v)'
      BY <1>2, <2>1, <3>1, PlannedKept DEF JobFormed
    <3>3. QED
      BY <1>1, <3>1, <3>2 DEF Planned, Full
  <2>3. QED
    BY <1>1, <2>1, <2>2 DEF JobFormed, Resting, NoJob, Ready, HasRead, AtWork
<1>5. ASSUME NEW j \in Job, AtWork(j) PROVE W(j)' = W(j) /\ W(j) \in AWindow /\ W(j).to \in Nat
  <2>1. JobFormed(j)
    BY DEF AnalyticsInv
  <2>2. W(j) \in AWindow
    BY <1>5, <2>1, FirstPlanned DEF AtWork
  <2>3. QED
    BY <1>1, <2>2 DEF W, AWindow
<1>6. ASSUME NEW j \in Job PROVE RowsInHand(j)'
  <2> SUFFICES ASSUME AtWork(j), NEW c \in DOMAIN job[j].rows
               PROVE  Within(job[j].rows[c], c, W(j))'
    BY <1>1 DEF RowsInHand, AtWork, AnalyticsInv
  <2>1. job[j].rows[c] \in Aggregate /\ c \in Channel \cup {All} /\ Within(job[j].rows[c], c, W(j))
    BY DEF AnalyticsInv, RowsInHand
  <2>2. PICK row \in Aggregate, w \in {W(j)} : row = job[j].rows[c] /\ w = W(j)
    BY <2>1
  <2>3. Within(row, c, w)'
    BY <2>1, <2>2, WithinKept
  <2>4. QED
    BY <1>1, <1>5, <2>2, <2>3 DEF Within, AllReceived, AllSuppressed
<1>7. ASSUME NEW w, w.to \in Nat, w.to <= hour
      PROVE  /\ \A c \in Channel : /\ Total(receipts'[c], w) = Total(receipts[c], w) /\ Exact(c, w)' = Exact(c, w)
                                   /\ ExactRow(w, c)' <=> ExactRow(w, c)
             /\ w.to <= hour'
  <2>1. \A c \in Channel : Exact(c, w)' = Exact(c, w) /\ (None(c, w) <=> None(c, w)')
    BY <1>7, TotalsMonotone
  <2>2. \A c \in Channel : Total(receipts'[c], w) = Total(receipts[c], w)
    BY <2>1 DEF Exact
  <2>3. \A c \in Channel : ExactRow(w, c)' <=> ExactRow(w, c)
    BY <1>1, <2>1 DEF ExactRow, HasRow
  <2>4. QED
    BY <1>2, <1>7, <2>1, <2>2, <2>3
<1>8. ASSUME NEW j \in Job PROVE ClosedInHand(j)' /\ AloneInHand(j)'
  <2>1. ClosedInHand(j) /\ AloneInHand(j)
    BY DEF AnalyticsInv
  <2>2. ClosedInHand(j)'
    <3> SUFFICES ASSUME AtWork(j), job[j].closed
                 PROVE  ClosedInHand(j)'
      BY <1>1 DEF ClosedInHand, AtWork
    <3>1. PICK w : w = W(j) /\ w = W(j)'
      BY <1>5
    <3>2. w.to \in Nat /\ w.to <= hour
      BY <1>5, <2>1, <3>1 DEF ClosedInHand
    <3>3. \A c \in Channel : Total(receipts'[c], w) = Total(receipts[c], w) /\ Exact(c, w)' = Exact(c, w)
      BY <1>7, <3>2
    <3>4. w.to <= hour'
      BY <1>7, <3>2
    <3>5. \A c \in Channel : Exact(c, W(j))' = Exact(c, w) /\ Exact(c, W(j)) = Exact(c, w)
      BY <3>1, <3>3 DEF Exact
    <3>6. QED
      BY <1>1, <2>1, <3>1, <3>3, <3>4, <3>5 DEF ClosedInHand, AtWork, Full
  <2>3. AloneInHand(j)'
    <3> SUFFICES ASSUME AtWork(j), job[j].alone
                 PROVE  AloneInHand(j)'
      BY <1>1 DEF AloneInHand, AtWork
    <3>1. PICK w : w = W(j) /\ w = W(j)'
      BY <1>5
    <3>2. job[j].closed => \A c \in Channel : ExactRow(w, c)' <=> ExactRow(w, c)
      BY <1>5, <1>7, <2>1, <3>1 DEF AloneInHand, ClosedInHand
    <3>3. \A c : Told(W(j), c)' = Told(W(j), c)
      BY <1>1, <3>1 DEF Told, HasRow
    <3>4. NoManual(W(j))' <=> NoManual(W(j))
      BY <1>1, <3>1 DEF NoManual
    <3>5. \A c \in Channel : ExactRow(W(j), c)' <=> ExactRow(w, c)'
      BY <3>1 DEF ExactRow, HasRow, Exact, None
    <3>6. job[j].closed => \A c \in Channel : ExactRow(W(j), c) => ExactRow(W(j), c)'
      BY <3>1, <3>2, <3>5
    <3>7. \A i \in Job \ {j} : AtWork(i)' => ~ Same(W(i), W(j))'
      BY <1>1, <2>1, <3>1 DEF AloneInHand, Same, W, AtWork
    <3>8. [c \in Channel |-> IF c \in DOMAIN job[j].rows THEN job[j].rows[c].total ELSE Told(W(j), c)]'
          = [c \in Channel |-> IF c \in DOMAIN job[j].rows THEN job[j].rows[c].total ELSE Told(W(j), c)]
      BY <1>1, <3>3
    <3>9. QED
      BY <1>1, <2>1, <3>1, <3>3, <3>4, <3>6, <3>7, <3>8 DEF AloneInHand, AtWork
  <2>4. QED
    BY <2>2, <2>3
<1>9. ASSUME NEW w \in done PROVE DoneExact(w)'
  <2>1. DoneExact(w)
    BY DEF AnalyticsInv
  <2>2. w.to \in Nat /\ w.to <= hour
    BY <2>1 DEF DoneExact, AWindow
  <2>3. NoManual(w)'
    BY <1>1, <2>1 DEF DoneExact, NoManual
  <2>4. \A i \in Job : AtWork(i)' /\ Same(W(i), w)' => job'[i].closed
    BY <1>1, <2>1 DEF DoneExact, Same, W, AtWork
  <2>5. QED
    BY <1>7, <2>1, <2>2, <2>3, <2>4 DEF DoneExact, Full
<1>10. ASSUME NEW h \in Hour PROVE (Key(Hourly(h), All) \in dirty \/ UnderWay(Hourly(h)) \/ Adds(Hourly(h)))'
  <2>1. Key(Hourly(h), All) \in dirty \/ UnderWay(Hourly(h)) \/ Adds(Hourly(h))
    BY DEF AnalyticsInv
  <2>2. UnderWay(Hourly(h))' <=> UnderWay(Hourly(h))
    BY <1>1 DEF UnderWay, Same, W
  <2>3. Adds(Hourly(h))' <=> Adds(Hourly(h))
    BY <1>1 DEF Adds, Told, HasRow
  <2>4. QED
    BY <1>1, <2>1, <2>2, <2>3
<1>11. QED
  BY <1>1, <1>3, <1>4, <1>6, <1>8, <1>9, <1>10 DEF AnalyticsInv, Grown

-----------------------------------------------------------------------------
\* Arrivals, and the clock.

LEMMA ArriveStep ==
  ASSUME AnalyticsInv, NEW c \in Channel \cup {Unknown}, Arrive(c)
  PROVE  AnalyticsInv'
<1>1. AnalyticsTyped
  BY DEF AnalyticsInv
<1>2. hour' = hour /\ hour \in Hour /\ hour \in Nat /\ UNCHANGED <<table, job, done, dirty>>
  BY <1>1 DEF Arrive, AnalyticsTyped, Hour
<1>3. CASE c \in Channel /\ receipts' = [receipts EXCEPT ![c][hour] = @ + 1] /\ suppressions' = suppressions
  <2>1. receipts' \in [Channel -> [Hour -> Nat]]
    BY <1>1, <1>2, <1>3 DEF AnalyticsTyped
  <2>2. \A d \in Channel, h \in Hour : /\ receipts[d][h] \in Nat /\ receipts'[d][h] \in {receipts[d][h], receipts[d][h] + 1}
                                       /\ h < hour => receipts'[d][h] = receipts[d][h]
    BY <1>1, <1>2, <1>3 DEF AnalyticsTyped
  <2>3. \A d \in Channel, h \in Hour : suppressions[d][h] \in Nat
    BY <1>1 DEF AnalyticsTyped
  <2>4. Grown
    BY <1>1, <1>2, <1>3, <2>1, <2>2, <2>3 DEF Grown, AnalyticsTyped
  <2>5. QED
    BY <1>2, <2>4, TimeStep
<1>4. CASE suppressions' = [suppressions EXCEPT ![c][hour] = @ + 1] /\ receipts' = receipts
  <2>1. suppressions' \in [Channel \cup {Unknown} -> [Hour -> Nat]]
    BY <1>1, <1>2, <1>4 DEF AnalyticsTyped
  <2>2. \A d \in Channel, h \in Hour : /\ suppressions[d][h] \in Nat /\ suppressions'[d][h] \in {suppressions[d][h], suppressions[d][h] + 1}
                                       /\ h < hour => suppressions'[d][h] = suppressions[d][h]
    BY <1>1, <1>2, <1>4 DEF AnalyticsTyped
  <2>3. \A d \in Channel, h \in Hour : receipts[d][h] \in Nat
    BY <1>1 DEF AnalyticsTyped
  <2>4. Grown
    BY <1>1, <1>2, <1>4, <2>1, <2>2, <2>3 DEF Grown, AnalyticsTyped
  <2>5. QED
    BY <1>2, <2>4, TimeStep
<1>5. QED
  BY <1>3, <1>4 DEF Arrive

LEMMA NextHourStep ==
  ASSUME AnalyticsInv, NextHour
  PROVE  AnalyticsInv'
<1>1. AnalyticsTyped /\ hour' = hour + 1 /\ hour < MaxHour /\ UNCHANGED <<receipts, suppressions, table, job, done, dirty>>
  BY DEF AnalyticsInv, NextHour
<1>2. hour \in Nat /\ hour' \in Hour /\ hour <= hour'
  BY <1>1, AnalyticsAssumption DEF AnalyticsTyped, Hour
<1>3. \A k \in DOMAIN table : k[2] <= hour'
  <2> TAKE k \in DOMAIN table
  <2>1. k[2] \in Nat /\ k[2] <= hour
    BY <1>1 DEF AnalyticsTyped, TableKey, Hour
  <2>2. PICK n \in Nat : n = k[2]
    BY <2>1
  <2>3. n <= hour'
    BY <1>1, <1>2, <2>1, <2>2
  <2>4. QED
    BY <2>2, <2>3
<1>4. AnalyticsTyped'
  BY <1>1, <1>2, <1>3 DEF AnalyticsTyped
<1>5. \A c \in Channel, h \in Hour : receipts[c][h] \in Nat /\ suppressions[c][h] \in Nat
  BY <1>1 DEF AnalyticsTyped
<1>6. Grown
  BY <1>1, <1>2, <1>4, <1>5 DEF Grown
<1>7. QED
  BY <1>1, <1>6, TimeStep

-----------------------------------------------------------------------------
\* A job starts: what it goes through is over, but for the current hour and day of a
\* manual run.

LEMMA DayFacts ==
  ASSUME NEW h \in Nat
  PROVE  /\ DayStart(h) \in Nat /\ DayStart(h) <= h /\ h < DayStart(h) + DayLength
         /\ DayStart(h) # 0 => DayLength <= DayStart(h)
<1> DEFINE q == h \div DayLength
           m == h % DayLength
<1>1. DayLength \in Nat \ {0}
  BY AnalyticsAssumption
<1>2. q \in Nat /\ m \in 0..(DayLength - 1) /\ h = DayLength * q + m
  BY <1>1
<1>3. DayStart(h) = h - m
  BY DEF DayStart
<1> HIDE DEF q, m
<1>4. DayStart(h) = DayLength * q /\ DayLength * q \in Nat
  BY <1>1, <1>2, <1>3
<1>5. q # 0 => DayLength <= DayLength * q
  <2> SUFFICES ASSUME q # 0 PROVE DayLength <= DayLength * q
    OBVIOUS
  <2>1. PICK k \in Nat : q = k + 1
    <3>1. q - 1 \in Nat /\ q = (q - 1) + 1
      BY <1>2
    <3>2. QED
      BY <3>1
  <2>2. DayLength * q = DayLength * k + DayLength /\ DayLength * k \in Nat
    BY <1>1, <2>1
  <2>3. QED
    BY <1>1, <2>2
<1>6. QED
  BY <1>1, <1>2, <1>3, <1>4, <1>5

LEMMA PlanFacts ==
  ASSUME hour \in Hour, NEW j \in Job, NEW plan \in Plans(j)
  PROVE  /\ plan \in Seq(AWindow) /\ plan # <<>> /\ \A n \in DOMAIN plan : Planned(j, plan[n])
         /\ \A n \in DOMAIN plan : j = "manual" /\ plan[n].period = "daily" => plan[n].from = DayStart(hour)
<1>1. hour \in Nat /\ hour <= MaxHour /\ MaxHour \in Nat /\ {DayLength, Lookback} \subseteq Nat \ {0}
  BY AnalyticsAssumption DEF Hour
<1>2. /\ DayStart(hour) \in Nat /\ DayStart(hour) <= hour /\ hour < DayStart(hour) + DayLength
      /\ DayStart(hour) # 0 => DayLength <= DayStart(hour)
  BY <1>1, DayFacts
<1>3. ASSUME NEW w, Planned(j, w), plan = <<w>>, j = "manual" /\ w.period = "daily" => w.from = DayStart(hour)
      PROVE  /\ plan \in Seq(AWindow) /\ plan # <<>> /\ \A n \in DOMAIN plan : Planned(j, plan[n])
             /\ \A n \in DOMAIN plan : j = "manual" /\ plan[n].period = "daily" => plan[n].from = DayStart(hour)
  <2>1. w \in AWindow
    BY <1>3 DEF Planned
  <2>2. \A n \in DOMAIN <<w>> : <<w>>[n] = w
    OBVIOUS
  <2>3. QED
    BY <1>3, <2>1, <2>2
<1>4. CASE j = "hourly"
  <2>1. hour # 0 /\ plan = <<Hourly(hour - 1)>>
    BY <1>4 DEF Plans
  <2>2. Planned(j, Hourly(hour - 1)) /\ Hourly(hour - 1).period = "hourly"
    BY <1>1, <1>4, <2>1 DEF Planned, AWindow, Hourly, Window, Full, Size, Hour
  <2>3. QED
    BY <1>3, <2>1, <2>2
<1>5. CASE j = "daily"
  <2> DEFINE w == Window("daily", DayStart(hour) - DayLength, DayStart(hour))
  <2>1. DayStart(hour) # 0 /\ plan = <<w>>
    BY <1>5 DEF Plans
  <2>2. Planned(j, w)
    BY <1>1, <1>2, <1>5, <2>1 DEF Planned, AWindow, Window, Full, Size, Hour
  <2>3. QED
    BY <1>3, <1>5, <2>1, <2>2
<1>6. CASE j = "manual"
  <2>1. Planned(j, Today) /\ Today.period = "daily" /\ Today.from = DayStart(hour) /\ Today \in AWindow
    BY <1>1, <1>2, <1>6 DEF Planned, AWindow, Today, Window, Full, Size, Hour
  <2> DEFINE N == IF hour + 1 < Lookback THEN hour + 1 ELSE Lookback
  <2>2. N \in Nat \ {0} /\ N <= hour + 1
    <3>1. Lookback \in Nat \ {0}
      BY <1>1
    <3>2. QED
      BY <1>1, <3>1
  <2>3. ManualHours = [i \in 1 .. N |-> Hourly(hour + 1 - i)]
    BY DEF ManualHours
  <2> HIDE DEF N
  <2>4. \A i \in 1 .. N : Planned(j, Hourly(hour + 1 - i)) /\ Hourly(hour + 1 - i).period = "hourly"
    <3> TAKE i \in 1 .. N
    <3>1. PICK h \in Hour : h = hour + 1 - i /\ h <= hour /\ h \in Nat
      BY <1>1, <2>2 DEF Hour
    <3>2. Hourly(h) = [period |-> "hourly", from |-> h, to |-> h + 1]
      BY DEF Hourly, Window
    <3>3. Planned(j, Hourly(h)) /\ Hourly(h).period = "hourly"
      BY <1>6, <3>1, <3>2 DEF Planned, AWindow, Full, Size
    <3>4. QED
      BY <3>1, <3>3
  <2>5. \A i \in 1 .. N : Hourly(hour + 1 - i) \in AWindow
    BY <2>4 DEF Planned
  <2>6. ManualHours \in [1 .. N -> AWindow]
    BY <2>3, <2>5
  <2>7. ManualHours \in Seq(AWindow) /\ Len(ManualHours) = N /\ DOMAIN ManualHours = 1 .. N /\ ManualHours # <<>>
    BY <2>2, <2>6
  <2>8. \A n \in DOMAIN ManualHours : Planned(j, ManualHours[n]) /\ ManualHours[n].period = "hourly"
    BY <2>3, <2>4, <2>7
  <2>9. CASE plan = ManualHours
    BY <2>7, <2>8, <2>9
  <2>10. CASE plan = <<Today>>
    BY <1>3, <2>1, <2>10
  <2>11. CASE plan = Append(ManualHours, Today)
    <3>1. plan \in Seq(AWindow) /\ DOMAIN plan = 1 .. (N + 1) /\ plan # <<>>
      BY <2>1, <2>2, <2>7, <2>11
    <3>2. \A n \in DOMAIN plan : (n \in DOMAIN ManualHours /\ plan[n] = ManualHours[n]) \/ plan[n] = Today
      BY <2>1, <2>2, <2>7, <2>11, <3>1
    <3>3. QED
      BY <2>1, <2>8, <3>1, <3>2
  <2>12. plan \in {ManualHours, <<Today>>, Append(ManualHours, Today)}
    BY <1>6 DEF Plans
  <2>13. QED
    BY <2>9, <2>10, <2>11, <2>12
<1>7. QED
  BY <1>4, <1>5, <1>6 DEF Job

-----------------------------------------------------------------------------
\* A step of a job.

Still == hour' = hour /\ receipts' = receipts /\ suppressions' = suppressions

LEMMA StillTotals ==
  ASSUME Still
  PROVE  /\ \A row, c, w : Within(row, c, w)' <=> Within(row, c, w)
         /\ \A c, w : Exact(c, w)' = Exact(c, w) /\ (None(c, w)' <=> None(c, w))
         /\ \A j, v : Planned(j, v)' <=> Planned(j, v)
<1>1. \A row, c, w : Within(row, c, w)' <=> Within(row, c, w)
  BY DEF Still, Within, AllReceived, AllSuppressed
<1>2. \A c, w : Exact(c, w)' = Exact(c, w) /\ (None(c, w)' <=> None(c, w))
  BY DEF Still, Exact, None
<1>3. \A j, v : Planned(j, v)' <=> Planned(j, v)
  BY DEF Still, Planned, Full
<1>4. QED
  BY <1>1, <1>2, <1>3

\* A job that is left alone, with the table as it was for its window.
LEMMA JobKept ==
  ASSUME Still, NEW i \in Job, JobFormed(i), RowsInHand(i), ClosedInHand(i), job'[i] = job[i]
  PROVE  JobFormed(i)' /\ RowsInHand(i)' /\ ClosedInHand(i)' /\ W(i)' = W(i) /\ (AtWork(i)' <=> AtWork(i))
<1>1. W(i)' = W(i) /\ (AtWork(i)' <=> AtWork(i)) /\ hour' = hour
  BY DEF W, AtWork, Still
<1>2. JobFormed(i)'
  BY StillTotals DEF JobFormed, Resting, NoJob, Ready, HasRead, AtWork
<1> PICK w : w = W(i) /\ w = W(i)'
  BY <1>1
<1>3. RowsInHand(i)'
  BY <1>1, StillTotals DEF RowsInHand
<1>4. \A c \in Channel : Total(receipts'[c], w) = Total(receipts[c], w) /\ Exact(c, w)' = Exact(c, w)
  BY StillTotals DEF Still
<1>5. \A c : Exact(c, W(i))' = Exact(c, w)' /\ Exact(c, W(i)) = Exact(c, w)
  BY DEF Exact
<1>6. Full(W(i))' <=> Full(W(i))
  BY <1>1 DEF Full
<1>7. ClosedInHand(i)'
  BY <1>1, <1>4, <1>5, <1>6 DEF ClosedInHand
<1>8. QED
  BY <1>1, <1>2, <1>3, <1>7

Settled(w) == w \in AWindow /\ w.to <= hour /\ Full(w)

\* A job starts or is aborted.
LEMMA LeaveStep ==
  ASSUME AnalyticsInv, Still, table' = table, done' = done, DOMAIN job' = Job,
         NEW j \in Job, \A i \in Job \ {j} : job'[i] = job[i], JobFormed(j)', ~ AtWork(j)',
         \A w : Settled(w) /\ NoManual(w) => NoManual(w)',
         dirty \subseteq dirty', job[j].pc = "upsert" => Key(W(j), All) \in dirty'
  PROVE  AnalyticsInv'
<1>1. \A i \in Job : JobFormed(i) /\ RowsInHand(i) /\ ClosedInHand(i) /\ AloneInHand(i)
  BY DEF AnalyticsInv
<1>2. \A i \in Job \ {j} : JobFormed(i)' /\ RowsInHand(i)' /\ ClosedInHand(i)' /\ W(i)' = W(i) /\ (AtWork(i)' <=> AtWork(i))
  BY <1>1, JobKept
<1>3. JobFormed(j)' /\ RowsInHand(j)' /\ ClosedInHand(j)' /\ AloneInHand(j)'
  BY DEF RowsInHand, ClosedInHand, AloneInHand
<1>4. \A w, c : Told(w, c)' = Told(w, c) /\ (ExactRow(w, c)' <=> ExactRow(w, c)) /\ (HasRow(w, c)' <=> HasRow(w, c))
  BY StillTotals DEF Told, ExactRow, HasRow
<1>5. ASSUME NEW i \in Job \ {j} PROVE AloneInHand(i)'
  <2> SUFFICES ASSUME AtWork(i), job[i].alone
               PROVE  AloneInHand(i)'
    BY <1>2 DEF AloneInHand
  <2>1. AloneInHand(i) /\ ClosedInHand(i) /\ W(i)' = W(i) /\ W(i) \in AWindow
    BY <1>1, <1>2, FirstPlanned DEF AtWork
  <2>2. \A k \in Job \ {i} : AtWork(k)' => ~ Same(W(k), W(i))'
    BY <1>2, <2>1 DEF AloneInHand, Same
  <2> PICK w : w = W(i) /\ w = W(i)'
    BY <2>1
  <2>3. job[i].closed => NoManual(w)'
    BY <2>1 DEF AloneInHand, ClosedInHand, Settled
  <2>4. NoManual(W(i))' <=> NoManual(w)'
    BY DEF NoManual
  <2>5. \A c : (ExactRow(W(i), c)' <=> ExactRow(w, c)') /\ Told(W(i), c)' = Told(w, c)'
    BY DEF ExactRow, HasRow, Told, Exact, None
  <2>6. [c \in Channel |-> IF c \in DOMAIN job[i].rows THEN job[i].rows[c].total ELSE Told(W(i), c)]'
        = [c \in Channel |-> IF c \in DOMAIN job[i].rows THEN job[i].rows[c].total ELSE Told(W(i), c)]
    BY <1>4, <2>5
  <2>7. job'[i] = job[i]
    OBVIOUS
  <2>8. QED
    BY <1>4, <2>1, <2>2, <2>3, <2>4, <2>5, <2>6, <2>7 DEF AloneInHand
<1>6. ASSUME NEW w \in done PROVE DoneExact(w)'
  <2>1. DoneExact(w)
    BY DEF AnalyticsInv
  <2>2. NoManual(w)'
    BY <2>1 DEF DoneExact, Settled
  <2>3. \A i \in Job : AtWork(i)' /\ Same(W(i), w)' => job'[i].closed
    BY <1>2, <2>1 DEF DoneExact, Same
  <2>4. QED
    BY <1>4, <2>1, <2>2, <2>3 DEF DoneExact, Full, Still
<1>7. ASSUME NEW h \in Hour PROVE (Key(Hourly(h), All) \in dirty \/ UnderWay(Hourly(h)) \/ Adds(Hourly(h)))'
  <2>1. Key(Hourly(h), All) \in dirty \/ UnderWay(Hourly(h)) \/ Adds(Hourly(h))
    BY DEF AnalyticsInv
  <2>2. Adds(Hourly(h))' <=> Adds(Hourly(h))
    BY <1>4 DEF Adds
  <2>3. ASSUME NEW i \in Job, job[i].pc = "upsert", Same(W(i), Hourly(h))
        PROVE  Key(Hourly(h), All) \in dirty' \/ UnderWay(Hourly(h))'
    <3>1. CASE i = j
      BY <2>3, <3>1 DEF Same, Key
    <3>2. CASE i # j
      BY <1>2, <2>3, <3>2 DEF UnderWay, Same
    <3>3. QED
      BY <3>1, <3>2
  <2>4. QED
    BY <2>1, <2>2, <2>3 DEF UnderWay
<1>8. AnalyticsTyped'
  BY DEF AnalyticsInv, AnalyticsTyped, Still
<1>9. \A k \in DOMAIN table' : Within(table[k], k[3], WholeOf(k))'
  <2>1. \A k \in DOMAIN table : Within(table[k], k[3], WholeOf(k))
    BY DEF AnalyticsInv
  <2>2. QED
    BY <2>1 DEF Within, AllReceived, AllSuppressed, Still
<1>10. QED
  BY <1>2, <1>3, <1>5, <1>6, <1>7, <1>8, <1>9 DEF AnalyticsInv

LEMMA StartStep ==
  ASSUME AnalyticsInv, NEW j \in Job, Start(j)
  PROVE  AnalyticsInv'
<1>1. Still /\ table' = table /\ done' = done /\ dirty' = dirty /\ job[j] = NoJob
  BY DEF Start, Still
<1>2. AnalyticsTyped
  BY DEF AnalyticsInv
<1>3. PICK plan \in Plans(j) : job' = [job EXCEPT ![j] = [todo |-> plan, pc |-> "receipts"]]
  BY DEF Start
<1>4. DOMAIN job' = Job /\ job'[j] = [todo |-> plan, pc |-> "receipts"] /\ \A i \in Job \ {j} : job'[i] = job[i]
  BY <1>2, <1>3 DEF AnalyticsTyped
<1>5. hour \in Hour /\ hour \in Nat
  BY <1>2 DEF AnalyticsTyped, Hour
<1>6. /\ plan \in Seq(AWindow) /\ plan # <<>> /\ \A n \in DOMAIN plan : Planned(j, plan[n])
      /\ \A n \in DOMAIN plan : j = "manual" /\ plan[n].period = "daily" => plan[n].from = DayStart(hour)
  BY <1>5, PlanFacts
<1>7. JobFormed(j)' /\ ~ AtWork(j)'
  <2>1. job'[j].todo = plan /\ job'[j].pc = "receipts"
    BY <1>4
  <2>2. \A n \in DOMAIN plan : Planned(j, plan[n])'
    BY <1>1, <1>6, StillTotals
  <2>3. Ready(j)'
    BY <1>4, <2>1 DEF Ready
  <2>4. \A n \in DOMAIN job[j].todo' : Planned(j, job[j].todo[n])'
    BY <2>1, <2>2 DEF Planned, Full
  <2>5. QED
    BY <1>6, <2>1, <2>3, <2>4 DEF JobFormed, AtWork
<1>8. ASSUME NEW w, Settled(w), NoManual(w) PROVE NoManual(w)'
  <2> SUFFICES ASSUME w.period = "daily", NEW n \in DOMAIN job'["manual"].todo, Same(job'["manual"].todo[n], w)
               PROVE  FALSE
    BY DEF NoManual, Same
  <2>1. CASE j # "manual"
    BY <1>4, <1>8, <2>1 DEF NoManual, Job, Same
  <2>2. CASE j = "manual"
    <3>1. job'["manual"].todo = plan
      BY <1>4, <2>2
    <3>2. w.from = DayStart(hour)
      BY <1>6, <2>2, <3>1 DEF Same
    <3>3. w.to = w.from + DayLength /\ w.to <= hour
      BY <1>8 DEF Settled, Full, Size
    <3>4. DayStart(hour) \in Nat /\ hour < DayStart(hour) + DayLength /\ DayLength \in Nat
      BY <1>5, DayFacts, AnalyticsAssumption
    <3>5. QED
      BY <1>5, <3>2, <3>3, <3>4
  <2>3. QED
    BY <2>1, <2>2
<1>9. job[j].pc # "upsert"
  BY <1>1 DEF NoJob
<1>10. QED
  BY <1>1, <1>4, <1>7, <1>8, <1>9, LeaveStep

LEMMA AbortStep ==
  ASSUME AnalyticsInv, NEW j \in Job, Abort(j)
  PROVE  AnalyticsInv'
<1>1. Still /\ table' = table /\ done' = done /\ job' = [job EXCEPT ![j] = NoJob]
  BY DEF Abort, Still
<1>2. dirty \subseteq dirty' /\ (job[j].pc = "upsert" => Key(W(j), All) \in dirty')
  BY DEF Abort, W
<1>3. DOMAIN job' = Job /\ job'[j] = NoJob /\ \A i \in Job \ {j} : job'[i] = job[i]
  BY <1>1 DEF AnalyticsInv, AnalyticsTyped
<1>4. JobFormed(j)' /\ ~ AtWork(j)'
  BY <1>3 DEF JobFormed, AtWork, Resting, NoJob
<1>5. ASSUME NEW w, NoManual(w) PROVE NoManual(w)'
  <2>1. CASE j = "manual"
    BY <1>3, <2>1 DEF NoManual, NoJob
  <2>2. CASE j # "manual"
    BY <1>3, <1>5, <2>2 DEF NoManual, Same, Job
  <2>3. QED
    BY <2>1, <2>2
<1>6. QED
  BY <1>1, <1>2, <1>3, <1>4, <1>5, LeaveStep

\* A job that only learns that it is not alone keeps the rest.
LEMMA FieldsKept ==
  ASSUME Still, NEW i \in Job, JobFormed(i), RowsInHand(i), ClosedInHand(i), Resting(i)' \/ Ready(i)' \/ HasRead(i)',
         job'[i].todo = job[i].todo, job'[i].pc = job[i].pc,
         AtWork(i) => job'[i].rows = job[i].rows /\ job'[i].closed = job[i].closed
  PROVE  JobFormed(i)' /\ RowsInHand(i)' /\ ClosedInHand(i)' /\ W(i)' = W(i) /\ (AtWork(i)' <=> AtWork(i))
<1>1. W(i)' = W(i) /\ (AtWork(i)' <=> AtWork(i)) /\ hour' = hour
  BY DEF W, AtWork, Still
<1>2. JobFormed(i)'
  BY StillTotals DEF JobFormed
<1> PICK w : w = W(i) /\ w = W(i)'
  BY <1>1
<1>3. RowsInHand(i)'
  BY <1>1, StillTotals DEF RowsInHand
<1>4. \A c \in Channel : Total(receipts'[c], w) = Total(receipts[c], w) /\ Exact(c, w)' = Exact(c, w)
  BY StillTotals DEF Still
<1>5. \A c : Exact(c, W(i))' = Exact(c, w)' /\ Exact(c, W(i)) = Exact(c, w)
  BY DEF Exact
<1>6. Full(W(i))' <=> Full(W(i))
  BY <1>1 DEF Full
<1>7. ClosedInHand(i)'
  BY <1>1, <1>4, <1>5, <1>6 DEF ClosedInHand
<1>8. QED
  BY <1>1, <1>2, <1>3, <1>7

LEMMA ReadReceiptsStep ==
  ASSUME AnalyticsInv, NEW j \in Job, ReadReceipts(j)
  PROVE  AnalyticsInv'
<1>1. Still /\ table' = table /\ done' = done /\ dirty' = dirty /\ job[j].pc = "receipts"
  BY DEF ReadReceipts, Still
<1> PICK w, others, counted :
      /\ w = W(j) /\ others = In(w) \ {j}
      /\ counted = [c \in {c \in Channel : Total(receipts[c], w) > 0} |-> [total |-> Total(receipts[c], w), suppressed |-> 0]]
  OBVIOUS
<1> DEFINE new == [todo |-> job[j].todo, pc |-> "suppressed", rows |-> counted,
                   closed |-> w.to <= hour /\ ~(j = "manual" /\ w.period = "daily"),
                   alone |-> others = {}]
<1>2. job' = [i \in Job |->
                IF i = j THEN new
                ELSE IF i \in others /\ "alone" \in DOMAIN job[i] THEN [job[i] EXCEPT !.alone = FALSE]
                ELSE job[i]]
  BY DEF ReadReceipts, W
<1>3. AnalyticsTyped /\ \A i \in Job : JobFormed(i) /\ RowsInHand(i) /\ ClosedInHand(i) /\ AloneInHand(i)
  BY DEF AnalyticsInv
<1>4. /\ 1 \in DOMAIN job[j].todo /\ Planned(j, w) /\ w \in AWindow
  BY <1>1, <1>3, FirstPlanned
<1>5. /\ job'[j].todo = job[j].todo /\ job'[j].pc = "suppressed" /\ job'[j].rows = counted
      /\ job'[j].closed = (w.to <= hour /\ ~(j = "manual" /\ w.period = "daily")) /\ job'[j].alone = (others = {})
      /\ HasRead(j)'
  <2>1. job'[j] = new
    BY <1>2
  <2>2. /\ new.todo = job[j].todo /\ new.pc = "suppressed" /\ new.rows = counted
        /\ new.closed = (w.to <= hour /\ ~(j = "manual" /\ w.period = "daily")) /\ new.alone = (others = {})
    OBVIOUS
  <2>3. HasRead(j)'
    <3>1. (w.to <= hour /\ ~(j = "manual" /\ w.period = "daily")) \in BOOLEAN /\ (others = {}) \in BOOLEAN
      OBVIOUS
    <3>2. QED
      BY <2>1, <2>2, <3>1 DEF HasRead, AtWork
  <2> HIDE DEF new
  <2>4. QED
    BY <2>1, <2>2, <2>3
<1> HIDE DEF new
<1>6. ASSUME NEW i \in Job \ {j}
      PROVE  /\ job'[i].todo = job[i].todo /\ job'[i].pc = job[i].pc
             /\ AtWork(i) => /\ job'[i].rows = job[i].rows /\ job'[i].closed = job[i].closed
                              /\ job'[i].alone = (job[i].alone /\ i \notin others)
             /\ Resting(i)' \/ Ready(i)' \/ HasRead(i)'
  <2>1. CASE Resting(i)
    <3>1. DOMAIN job[i] = {"todo", "pc"} /\ job[i].pc = "idle"
      BY <2>1 DEF Resting, NoJob
    <3>2. job'[i] = job[i]
      BY <1>2, <3>1
    <3>3. QED
      BY <2>1, <3>1, <3>2 DEF AtWork, Resting, NoJob
  <2>2. CASE Ready(i)
    <3>1. DOMAIN job[i] = {"todo", "pc"} /\ job[i].pc = "receipts"
      BY <2>2 DEF Ready
    <3>2. job'[i] = job[i]
      BY <1>2, <3>1
    <3>3. QED
      BY <2>2, <3>1, <3>2 DEF AtWork, Ready
  <2>3. CASE HasRead(i)
    <3>1. PICK t, p, r, cl, al : job[i] = [todo |-> t, pc |-> p, rows |-> r, closed |-> cl, alone |-> al]
      BY <2>3 DEF HasRead
    <3>2. "alone" \in DOMAIN job[i] /\ p \in {"suppressed", "upsert"} /\ cl \in BOOLEAN
      BY <2>3, <3>1 DEF HasRead, AtWork
    <3>3. CASE i \in others
      <4>1. PICK no : no = FALSE
        OBVIOUS
      <4>2. job'[i] = [job[i] EXCEPT !.alone = no]
        BY <1>2, <3>2, <3>3, <4>1
      <4>3. job'[i] = [todo |-> t, pc |-> p, rows |-> r, closed |-> cl, alone |-> no]
        BY <3>1, <4>2
      <4>4. no \in BOOLEAN /\ no = (job[i].alone /\ i \notin others)
        BY <3>3, <4>1
      <4>5. job'[i].pc = p /\ job'[i].closed = cl /\ job'[i].alone = no /\ job'[i].todo = t /\ job'[i].rows = r
        BY <4>3
      <4>6. HasRead(i)'
        BY <3>2, <4>3, <4>4, <4>5 DEF HasRead, AtWork
      <4>7. job[i].pc = p /\ job[i].closed = cl /\ job[i].todo = t /\ job[i].rows = r
        BY <3>1
      <4>8. job'[i].alone = (job[i].alone /\ i \notin others)
        BY <4>4, <4>5
      <4>9. QED
        BY <4>5, <4>6, <4>7, <4>8
    <3>4. CASE i \notin others
      <4>1. job'[i] = job[i]
        BY <1>2, <3>4
      <4>2. QED
        BY <2>3, <3>1, <3>4, <4>1 DEF HasRead, AtWork
    <3>5. QED
      BY <3>3, <3>4
  <2>4. QED
    BY <1>3, <2>1, <2>2, <2>3 DEF JobFormed
<1>7. \A i \in Job \ {j} : JobFormed(i)' /\ RowsInHand(i)' /\ ClosedInHand(i)' /\ W(i)' = W(i) /\ (AtWork(i)' <=> AtWork(i))
  BY <1>1, <1>3, <1>6, FieldsKept
<1>8. W(j)' = w /\ AtWork(j)' /\ w.from \in Nat /\ w.to \in Nat /\ hour \in Nat
  BY <1>3, <1>4, <1>5 DEF W, AtWork, AWindow, AnalyticsTyped, Hour
<1>9. JobFormed(j)'
  <2>1. \A n \in DOMAIN job[j].todo : Planned(j, job[j].todo[n])'
    <3>1. \A n \in DOMAIN job[j].todo : Planned(j, job[j].todo[n])
      BY <1>3 DEF JobFormed
    <3>2. QED
      BY <1>1, <1>5, <3>1 DEF Planned, Full, Still
  <2>2. QED
    BY <1>1, <1>3, <1>5, <2>1 DEF JobFormed
<1>10. \A c \in Channel : Total(receipts[c], w) \in Nat /\ Total(suppressions[c], w) \in Nat /\ c # All
  BY <1>3, Received, AnalyticsAssumption
<1>11. /\ DOMAIN counted = {c \in Channel : Total(receipts[c], w) > 0}
       /\ \A c \in DOMAIN counted : c \in Channel /\ counted[c] = [total |-> Total(receipts[c], w), suppressed |-> 0]
  OBVIOUS
<1>12. RowsInHand(j)'
  <2>1. ASSUME NEW c \in DOMAIN counted PROVE counted[c] \in Aggregate /\ Within(counted[c], c, w)' /\ c # All
    <3>1. c \in Channel /\ c # All /\ counted[c] = [total |-> Total(receipts[c], w), suppressed |-> 0]
      BY <1>11, AnalyticsAssumption
    <3>2. counted[c] \in Aggregate
      BY <1>10, <3>1 DEF Aggregate
    <3>3. counted[c].total <= Total(receipts[c], w) /\ counted[c].suppressed <= Total(suppressions[c], w)
      BY <1>10, <3>1
    <3>4. Within(counted[c], c, w)
      BY <3>1, <3>3 DEF Within
    <3>5. QED
      BY <1>1, <3>1, <3>2, <3>4, StillTotals
  <2>2. DOMAIN counted \subseteq Channel
    BY <1>11
  <2>3. QED
    BY <1>5, <1>8, <2>1, <2>2 DEF RowsInHand
<1>13. ClosedInHand(j)'
  <2> SUFFICES ASSUME w.to <= hour /\ ~(j = "manual" /\ w.period = "daily")
               PROVE  ClosedInHand(j)'
    BY <1>5 DEF ClosedInHand
  <2>1. Full(w)
    BY <1>4 DEF Planned, AWindow
  <2>2. \A c \in Channel : Total(receipts'[c], w) = Total(receipts[c], w)
    BY <1>1 DEF Still
  <2>3. \A c \in Channel : IF c \in DOMAIN counted THEN counted[c].total = Total(receipts[c], w) ELSE Total(receipts[c], w) = 0
    BY <1>10, <1>11
  <2>4. Full(W(j))'
    BY <1>8, <2>1 DEF Full
  <2>5. QED
    BY <1>1, <1>5, <1>8, <2>2, <2>3, <2>4 DEF ClosedInHand, Still
<1>14. \A i \in Job : i \notin others /\ i # j => \A n \in DOMAIN job[i].todo : ~ Same(job[i].todo[n], w)
  BY DEF In, Same
<1>15. \A v : NoManual(v)' <=> NoManual(v)
  BY <1>5, <1>6 DEF NoManual, Same, Job
<1>16. AloneInHand(j)'
  <2> SUFFICES ASSUME others = {}
               PROVE  AloneInHand(j)'
    BY <1>5 DEF AloneInHand
  <2>1. \A i \in Job \ {j} : AtWork(i)' => ~ Same(W(i)', w)
    <3> SUFFICES ASSUME NEW i \in Job \ {j}, AtWork(i)
                 PROVE  ~ Same(W(i), w)
      BY <1>7
    <3>1. 1 \in DOMAIN job[i].todo
      BY <1>3, FirstPlanned DEF AtWork
    <3>2. QED
      BY <1>14, <3>1 DEF W
  <2>2. job'[j].closed => NoManual(w)
    BY <1>5, <1>14 DEF NoManual, Job
  <2>3. ASSUME w.period = "hourly", NEW c \in Channel \ DOMAIN counted PROVE Told(w, c) = 0
    <3>1. Total(receipts[c], w) = 0 /\ c # All
      BY <1>10, <1>11
    <3>2. CASE HasRow(w, c)
      <4>1. WholeOf(Key(w, c)) = w
        BY <1>4, <2>3 DEF WholeOf, Key, Window, Planned, AWindow, Full, Size
      <4>2. table[Key(w, c)] \in Aggregate /\ Within(table[Key(w, c)], c, w)
        BY <1>3, <3>2, <4>1 DEF AnalyticsInv, AnalyticsTyped, HasRow, Key
      <4>3. table[Key(w, c)].total \in Nat /\ table[Key(w, c)].total <= 0
        BY <3>1, <4>2 DEF Within, Aggregate
      <4>4. QED
        BY <3>2, <4>3 DEF Told
    <3>3. QED
      BY <3>2 DEF Told
  <2>4. \A c : Told(w, c)' = Told(w, c) /\ Told(W(j), c)' = Told(w, c)'
    BY <1>1, <1>8 DEF Told, HasRow
  <2>5. NoManual(W(j))' <=> NoManual(w)'
    BY <1>8 DEF NoManual
  <2>6. \A i \in Job \ {j} : AtWork(i)' => ~ Same(W(i), W(j))'
    BY <1>8, <2>1 DEF Same
  <2>7. QED
    BY <1>5, <1>8, <1>15, <2>2, <2>3, <2>4, <2>5, <2>6 DEF AloneInHand
<1>17. \A v, c : Told(v, c)' = Told(v, c) /\ (ExactRow(v, c)' <=> ExactRow(v, c))
  BY <1>1, StillTotals DEF Told, ExactRow, HasRow
<1>18. ASSUME NEW i \in Job \ {j} PROVE AloneInHand(i)'
  <2> SUFFICES ASSUME AtWork(i), job'[i].alone
               PROVE  AloneInHand(i)'
    BY <1>7 DEF AloneInHand
  <2>1. AloneInHand(i) /\ W(i)' = W(i) /\ job[i].alone /\ i \notin others
    BY <1>3, <1>6, <1>7
  <2> PICK v : v = W(i) /\ v = W(i)'
    BY <2>1
  <2>2. ~ Same(w, v)
    <3>1. 1 \in DOMAIN job[i].todo
      BY <1>3, FirstPlanned DEF AtWork
    <3>2. QED
      BY <1>14, <2>1, <3>1 DEF W, Same
  <2>3. \A k \in Job \ {i} : AtWork(k)' => ~ Same(W(k), W(i))'
    BY <1>7, <1>8, <2>1, <2>2 DEF AloneInHand, Same
  <2>4. NoManual(W(i))' <=> NoManual(v)
    BY <1>15 DEF NoManual
  <2>5. \A c : (ExactRow(W(i), c)' <=> ExactRow(v, c)') /\ Told(W(i), c)' = Told(v, c)'
    BY DEF ExactRow, HasRow, Told, Exact, None
  <2>6. job'[i].rows = job[i].rows /\ job'[i].closed = job[i].closed /\ job'[i].pc = job[i].pc
    BY <1>6
  <2>7. [c \in Channel |-> IF c \in DOMAIN job[i].rows THEN job[i].rows[c].total ELSE Told(W(i), c)]'
        = [c \in Channel |-> IF c \in DOMAIN job[i].rows THEN job[i].rows[c].total ELSE Told(W(i), c)]
    BY <1>17, <2>5, <2>6
  <2>8. QED
    BY <1>17, <2>1, <2>3, <2>4, <2>5, <2>6, <2>7 DEF AloneInHand
<1>19. ASSUME NEW v \in done PROVE DoneExact(v)'
  <2>1. DoneExact(v)
    BY DEF AnalyticsInv
  <2>2. Same(w, v) => job'[j].closed
    <3> SUFFICES ASSUME Same(w, v) PROVE job'[j].closed
      OBVIOUS
    <3>1. ~ (j = "manual" /\ w.period = "daily")
      BY <1>4, <2>1 DEF DoneExact, NoManual, W, Same
    <3>2. w.to = v.to
      BY <1>4, <2>1, <3>1 DEF DoneExact, Planned, Full, Same, AWindow
    <3>3. QED
      BY <1>5, <2>1, <3>1, <3>2 DEF DoneExact
  <2>3. \A i \in Job : AtWork(i)' /\ Same(W(i), v)' => job'[i].closed
    BY <1>6, <1>7, <1>8, <2>1, <2>2 DEF DoneExact, Same
  <2>4. QED
    BY <1>1, <1>15, <1>17, <2>1, <2>3 DEF DoneExact, Full, Still
<1>20. ASSUME NEW h \in Hour PROVE (Key(Hourly(h), All) \in dirty \/ UnderWay(Hourly(h)) \/ Adds(Hourly(h)))'
  <2>1. Key(Hourly(h), All) \in dirty \/ UnderWay(Hourly(h)) \/ Adds(Hourly(h))
    BY DEF AnalyticsInv
  <2>2. Adds(Hourly(h))' <=> Adds(Hourly(h))
    BY <1>17 DEF Adds
  <2>3. UnderWay(Hourly(h)) => UnderWay(Hourly(h))'
    BY <1>1, <1>6, <1>7 DEF UnderWay, Same
  <2>4. QED
    BY <1>1, <2>1, <2>2, <2>3
<1>21. AnalyticsTyped'
  BY <1>1, <1>2, <1>3 DEF AnalyticsTyped, Still
<1>22. \A k \in DOMAIN table' : Within(table[k], k[3], WholeOf(k))'
  <2>1. \A k \in DOMAIN table : Within(table[k], k[3], WholeOf(k))
    BY DEF AnalyticsInv
  <2>2. QED
    BY <1>1, <2>1 DEF Within, AllReceived, AllSuppressed, Still
<1>23. \A i \in Job : JobFormed(i)' /\ RowsInHand(i)' /\ ClosedInHand(i)' /\ AloneInHand(i)'
  BY <1>7, <1>9, <1>12, <1>13, <1>16, <1>18
<1>24. QED
  BY <1>1, <1>19, <1>20, <1>21, <1>22, <1>23 DEF AnalyticsInv

\* A job goes on alone while the others keep out of its window and of its rows.
LEMMA AloneKept ==
  ASSUME Still, NEW i \in Job, AloneInHand(i), job'[i] = job[i],
         \A k \in Job \ {i} : AtWork(k)' => AtWork(k) /\ W(k)' = W(k),
         \A v : NoManual(v) => NoManual(v)',
         AtWork(i) /\ job[i].alone =>
           \A c \in Channel : (HasRow(W(i), c)' <=> HasRow(W(i), c)) /\ (HasRow(W(i), c) => table'[Key(W(i), c)] = table[Key(W(i), c)])
  PROVE  AloneInHand(i)'
<1> SUFFICES ASSUME AtWork(i), job[i].alone
             PROVE  AloneInHand(i)'
  BY DEF AloneInHand, AtWork
<1>1. W(i)' = W(i)
  BY DEF W
<1> PICK v : v = W(i) /\ v = W(i)'
  BY <1>1
<1>2. \A k \in Job \ {i} : AtWork(k)' => ~ Same(W(k), W(i))'
  BY <1>1 DEF AloneInHand, Same
<1>3. NoManual(W(i)) => NoManual(W(i))'
  <2>1. NoManual(v) => NoManual(v)'
    OBVIOUS
  <2>2. QED
    BY <2>1 DEF NoManual
<1>4. \A c \in Channel : Told(W(i), c)' = Told(W(i), c) /\ (ExactRow(W(i), c)' <=> ExactRow(W(i), c))
  <2> TAKE c \in Channel
  <2>1. HasRow(W(i), c)' <=> HasRow(v, c)'
    BY DEF HasRow
  <2>2. (HasRow(v, c)' <=> HasRow(v, c)) /\ (HasRow(v, c) => table'[Key(v, c)] = table[Key(v, c)])
    BY <2>1
  <2>3. Told(v, c)' = Told(v, c) /\ (ExactRow(v, c)' <=> ExactRow(v, c))
    BY <2>2, StillTotals DEF Told, ExactRow
  <2>4. Told(W(i), c)' = Told(v, c)' /\ (ExactRow(W(i), c)' <=> ExactRow(v, c)')
    BY DEF Told, ExactRow, HasRow, Exact, None
  <2>5. QED
    BY <2>3, <2>4
<1>5. [c \in Channel |-> IF c \in DOMAIN job[i].rows THEN job[i].rows[c].total ELSE Told(W(i), c)]'
      = [c \in Channel |-> IF c \in DOMAIN job[i].rows THEN job[i].rows[c].total ELSE Told(W(i), c)]
  BY <1>4
<1>6. QED
  BY <1>1, <1>2, <1>3, <1>4, <1>5 DEF AloneInHand

\* The rows with their suppressions, and the row across the channels.
MergedInHand(hand, w, merged, all) ==
  /\ DOMAIN merged = DOMAIN hand \cup {c \in Channel : Total(suppressions[c], w) > 0} /\ DOMAIN merged \subseteq Channel
  /\ DOMAIN all = DOMAIN merged \cup {All} /\ All \notin DOMAIN merged /\ \A c \in DOMAIN merged : all[c] = merged[c]
  /\ \A c \in DOMAIN merged :
       merged[c] = [total |-> IF c \in DOMAIN hand THEN hand[c].total ELSE 0, suppressed |-> Total(suppressions[c], w)]
  /\ \A c \in DOMAIN all : all[c] \in Aggregate /\ Within(all[c], c, w)
  /\ all[All].total = SumFunctionOnSet([c \in DOMAIN merged |-> merged[c].total], DOMAIN merged)

LEMMA MergedFacts ==
  ASSUME AnalyticsTyped, NEW w, NEW hand, DOMAIN hand \subseteq Channel,
         \A c \in DOMAIN hand : hand[c] \in Aggregate /\ Within(hand[c], c, w),
         NEW merged, merged = Merged(hand, w), NEW all, all = Put(merged, All, CrossTotal(merged))
  PROVE  MergedInHand(hand, w, merged, all)
<1>1. \A c \in Channel : c # All /\ Total(receipts[c], w) \in Nat /\ Total(suppressions[c], w) \in Nat
  BY Received, AnalyticsAssumption
<1>2. /\ DOMAIN merged = DOMAIN hand \cup {c \in Channel : Total(suppressions[c], w) > 0} /\ DOMAIN merged \subseteq Channel
      /\ \A c \in DOMAIN merged :
           merged[c] = [total |-> IF c \in DOMAIN hand THEN hand[c].total ELSE 0, suppressed |-> Total(suppressions[c], w)]
  BY DEF Merged
<1>3. All \notin DOMAIN merged /\ IsFiniteSet(Channel) /\ IsFiniteSet(DOMAIN merged)
  BY <1>1, <1>2, AnalyticsAssumption, FS_Subset
<1>4. /\ DOMAIN all = DOMAIN merged \cup {All} /\ \A c \in DOMAIN merged : all[c] = merged[c]
      /\ all[All] = CrossTotal(merged)
  BY <1>3 DEF Put
<1>5. ASSUME NEW c \in DOMAIN merged PROVE merged[c] \in Aggregate /\ Within(merged[c], c, w)
  <2>1. c \in Channel /\ c # All
    BY <1>1, <1>2
  <2>2. PICK total : total = IF c \in DOMAIN hand THEN hand[c].total ELSE 0
    OBVIOUS
  <2>3. total \in Nat /\ total <= Total(receipts[c], w)
    <3>1. c \in DOMAIN hand => hand[c].total \in Nat /\ hand[c].total <= Total(receipts[c], w)
      BY <2>1 DEF Aggregate, Within
    <3>2. QED
      BY <1>1, <2>1, <2>2, <3>1
  <2>4. merged[c] = [total |-> total, suppressed |-> Total(suppressions[c], w)]
    BY <1>2, <2>2
  <2>5. PICK row : row = merged[c] /\ row.total = total /\ row.suppressed = Total(suppressions[c], w)
    BY <2>4
  <2>6. merged[c] \in Aggregate
    BY <1>1, <2>1, <2>3, <2>4 DEF Aggregate
  <2>7. Total(suppressions[c], w) <= Total(suppressions[c], w)
    BY <1>1, <2>1
  <2>8. QED
    BY <2>1, <2>3, <2>5, <2>6, <2>7 DEF Within
<1> DEFINE D == DOMAIN merged
           f == [c \in D |-> merged[c].total]
           g == [c \in D |-> merged[c].suppressed]
           fr == [c \in Channel |-> Total(receipts[c], w)]
           fs == [c \in Channel |-> Total(suppressions[c], w)]
<1>6. CrossTotal(merged) = [total |-> SumFunctionOnSet(f, D), suppressed |-> SumFunctionOnSet(g, D)]
  BY DEF CrossTotal, SumFunction
<1>7. AllReceived(w) = SumFunctionOnSet(fr, Channel) /\ AllSuppressed(w) = SumFunctionOnSet(fs, Channel)
  BY DEF AllReceived, AllSuppressed, TotalOf, SumFunction
<1>8. \A c \in D : /\ merged[c].total \in Nat /\ merged[c].total <= Total(receipts[c], w)
                   /\ merged[c].suppressed \in Nat /\ merged[c].suppressed <= Total(suppressions[c], w)
  BY <1>1, <1>2, <1>5 DEF Aggregate, Within
<1>9. /\ Counts(f, D) /\ Counts(g, D) /\ Counts(fr, Channel) /\ Counts(fs, Channel)
      /\ \A c \in D : f[c] <= fr[c] /\ g[c] <= fs[c]
  BY <1>1, <1>2, <1>8 DEF Counts
<1>10. D \subseteq Channel
  BY <1>2
<1> HIDE DEF D, f, g, fr, fs
<1>11. SumFunctionOnSet(f, D) \in Nat /\ SumFunctionOnSet(f, D) <= SumFunctionOnSet(fr, Channel)
  BY <1>3, <1>9, <1>10, SumGrows, SumIsCount DEF D
<1>12. SumFunctionOnSet(g, D) \in Nat /\ SumFunctionOnSet(g, D) <= SumFunctionOnSet(fs, Channel)
  BY <1>3, <1>9, <1>10, SumGrows, SumIsCount DEF D
<1>13. all[All] \in Aggregate /\ Within(all[All], All, w)
  BY <1>4, <1>6, <1>7, <1>11, <1>12 DEF Aggregate, Within
<1>14. all[All].total = SumFunctionOnSet([c \in DOMAIN merged |-> merged[c].total], DOMAIN merged)
  BY <1>4, <1>6 DEF f, D
<1>15. QED
  BY <1>2, <1>3, <1>4, <1>5, <1>13, <1>14 DEF MergedInHand

\* A channel of which nothing has arrived has no row, or one of zeros.
LEMMA NothingArrived ==
  ASSUME AnalyticsInv, NEW w \in AWindow, Full(w), NEW c \in Channel, None(c, w)
  PROVE  ExactRow(w, c)
<1>1. AnalyticsTyped /\ c # All
  BY AnalyticsAssumption DEF AnalyticsInv
<1>2. CASE HasRow(w, c)
  <2>1. WholeOf(Key(w, c)) = w /\ Key(w, c)[3] = c
    BY DEF WholeOf, Key, Window, AWindow, Full
  <2>2. table[Key(w, c)] \in Aggregate /\ Within(table[Key(w, c)], c, w)
    BY <1>1, <1>2, <2>1 DEF AnalyticsInv, AnalyticsTyped, HasRow
  <2>3. PICK row : row = table[Key(w, c)]
    OBVIOUS
  <2>4. row.total \in Nat /\ row.total <= 0 /\ row.suppressed \in Nat /\ row.suppressed <= 0
    BY <1>1, <2>2, <2>3 DEF Aggregate, Within, None
  <2>5. row.total = 0 /\ row.suppressed = 0 /\ row = [total |-> row.total, suppressed |-> row.suppressed]
    BY <2>2, <2>3, <2>4 DEF Aggregate
  <2>6. Exact(c, w) = [total |-> 0, suppressed |-> 0]
    BY DEF Exact, None
  <2>7. QED
    BY <1>2, <2>3, <2>5, <2>6 DEF ExactRow
<1>3. CASE ~ HasRow(w, c)
  BY <1>3 DEF ExactRow
<1>4. QED
  BY <1>2, <1>3

LEMMA ReadSuppressedStep ==
  ASSUME AnalyticsInv, NEW j \in Job, ReadSuppressed(j)
  PROVE  AnalyticsInv'
<1>1. Still /\ table' = table /\ done' = done /\ dirty' = dirty /\ job[j].pc = "suppressed"
  BY DEF ReadSuppressed, Still
<1>2. AnalyticsTyped /\ \A i \in Job : JobFormed(i) /\ RowsInHand(i) /\ ClosedInHand(i) /\ AloneInHand(i)
  BY DEF AnalyticsInv
<1> PICK w, merged, all : w = W(j) /\ merged = Merged(job[j].rows, w) /\ all = Put(merged, All, CrossTotal(merged))
  OBVIOUS
<1>3. job' = [job EXCEPT ![j].pc = "upsert", ![j].rows = all]
  BY DEF ReadSuppressed, W
<1>4. HasRead(j) /\ AtWork(j) /\ Planned(j, w) /\ w \in AWindow
  <2>1. AtWork(j) /\ Planned(j, w) /\ w \in AWindow
    BY <1>1, <1>2, FirstPlanned DEF AtWork
  <2>2. HasRead(j)
    <3>1. Ready(j) => job[j].pc = "receipts"
      BY DEF Ready
    <3>2. Resting(j) => job[j].pc = "idle"
      BY DEF Resting, NoJob
    <3>3. Resting(j) \/ Ready(j) \/ HasRead(j)
      BY <1>2 DEF JobFormed
    <3>4. QED
      BY <1>1, <3>1, <3>2, <3>3
  <2>3. QED
    BY <2>1, <2>2
<1>5. DOMAIN job = Job
  BY <1>2 DEF AnalyticsTyped
<1>6. DOMAIN job' = Job /\ \A i \in Job \ {j} : job'[i] = job[i]
  BY <1>3, <1>5
<1>7. job'[j] = [todo |-> job[j].todo, pc |-> "upsert", rows |-> all, closed |-> job[j].closed, alone |-> job[j].alone]
  <2>1. PICK t, r, cl, al : job[j] = [todo |-> t, pc |-> "suppressed", rows |-> r, closed |-> cl, alone |-> al]
    BY <1>1, <1>4 DEF HasRead
  <2>2. PICK e : e = [job[j] EXCEPT !.pc = "upsert"]
    OBVIOUS
  <2>3. e = [todo |-> t, pc |-> "upsert", rows |-> r, closed |-> cl, alone |-> al]
    BY <2>1, <2>2
  <2>4. [e EXCEPT !.rows = all] = [todo |-> t, pc |-> "upsert", rows |-> all, closed |-> cl, alone |-> al]
    BY <2>3
  <2>5. job'[j] = [e EXCEPT !.rows = all]
    BY <1>3, <1>5, <2>2
  <2>6. job[j].todo = t /\ job[j].closed = cl /\ job[j].alone = al
    BY <2>1
  <2>7. QED
    BY <2>4, <2>5, <2>6
<1>8. /\ job'[j].todo = job[j].todo /\ job'[j].pc = "upsert" /\ job'[j].rows = all
      /\ job'[j].closed = job[j].closed /\ job'[j].alone = job[j].alone
  BY <1>7
<1>9. HasRead(j)' /\ AtWork(j)' /\ W(j)' = w
  BY <1>4, <1>7, <1>8 DEF HasRead, AtWork, W
<1>10. \A i \in Job \ {j} : JobFormed(i)' /\ RowsInHand(i)' /\ ClosedInHand(i)' /\ W(i)' = W(i) /\ (AtWork(i)' <=> AtWork(i))
  BY <1>1, <1>2, <1>6, JobKept
<1>11. JobFormed(j)'
  <2>1. \A n \in DOMAIN job[j].todo : Planned(j, job[j].todo[n])'
    <3>1. \A n \in DOMAIN job[j].todo : Planned(j, job[j].todo[n])
      BY <1>2 DEF JobFormed
    <3>2. QED
      BY <1>1, <1>8, <3>1 DEF Planned, Full, Still
  <2>2. QED
    BY <1>1, <1>2, <1>8, <1>9, <2>1 DEF JobFormed
<1> PICK hand : hand = job[j].rows
  OBVIOUS
<1>12. DOMAIN hand \subseteq Channel /\ \A c \in DOMAIN hand : hand[c] \in Aggregate /\ Within(hand[c], c, w)
  BY <1>1, <1>2, <1>4 DEF RowsInHand
<1>13. /\ DOMAIN merged = DOMAIN hand \cup {c \in Channel : Total(suppressions[c], w) > 0} /\ DOMAIN merged \subseteq Channel
       /\ DOMAIN all = DOMAIN merged \cup {All} /\ All \notin DOMAIN merged /\ \A c \in DOMAIN merged : all[c] = merged[c]
       /\ \A c \in DOMAIN merged :
            merged[c] = [total |-> IF c \in DOMAIN hand THEN hand[c].total ELSE 0, suppressed |-> Total(suppressions[c], w)]
       /\ \A c \in DOMAIN all : all[c] \in Aggregate /\ Within(all[c], c, w)
       /\ all[All].total = SumFunctionOnSet([c \in DOMAIN merged |-> merged[c].total], DOMAIN merged)
  <2>1. merged = Merged(hand, w)
    OBVIOUS
  <2>2. all = Put(merged, All, CrossTotal(merged))
    OBVIOUS
  <2>3. MergedInHand(hand, w, merged, all)
    BY <1>2, <1>12, <2>1, <2>2, MergedFacts
  <2>4. QED
    BY <2>3 DEF MergedInHand
<1>14. RowsInHand(j)'
  <2>1. \A c \in DOMAIN all : all[c] \in Aggregate /\ Within(all[c], c, w)'
    BY <1>1, <1>13, StillTotals
  <2>2. DOMAIN all \subseteq Channel \cup {All} /\ All \in DOMAIN all
    BY <1>13
  <2>3. QED
    BY <1>8, <1>9, <2>1, <2>2 DEF RowsInHand
<1>15. \A c \in Channel : c # All /\ Total(receipts[c], w) \in Nat /\ Total(suppressions[c], w) \in Nat
  BY <1>2, Received, AnalyticsAssumption
<1>16. ASSUME job[j].closed
       PROVE  /\ w.to <= hour /\ Full(w) /\ ~ (j = "manual" /\ w.period = "daily")
              /\ \A c \in Channel : IF c \in DOMAIN hand THEN hand[c].total = Total(receipts[c], w) ELSE Total(receipts[c], w) = 0
  BY <1>1, <1>2, <1>4, <1>16 DEF ClosedInHand
<1>17. ClosedInHand(j)'
  <2> SUFFICES ASSUME job[j].closed
               PROVE  ClosedInHand(j)'
    BY <1>8 DEF ClosedInHand
  <2>1. ASSUME NEW c \in Channel \cap DOMAIN all PROVE all[c] = Exact(c, w)
    BY <1>13, <1>15, <1>16 DEF Exact
  <2>2. \A c \in Channel \cap DOMAIN all : all[c] = Exact(c, w)'
    BY <1>1, <2>1, StillTotals
  <2>3. \A c \in Channel \cap DOMAIN all : all[c] = Exact(c, W(j))'
    BY <1>9, <2>2 DEF Exact
  <2>4. Full(W(j))'
    BY <1>9, <1>16 DEF Full
  <2>5. QED
    BY <1>1, <1>8, <1>9, <1>16, <2>3, <2>4 DEF ClosedInHand, Still
<1>18. \A v : NoManual(v)' <=> NoManual(v)
  BY <1>6, <1>8 DEF NoManual, Same, Job
<1>19. \A v, c : Told(v, c)' = Told(v, c) /\ (ExactRow(v, c)' <=> ExactRow(v, c)) /\ (HasRow(v, c)' <=> HasRow(v, c))
  BY <1>1, StillTotals DEF Told, ExactRow, HasRow
<1>20. AloneInHand(j)'
  <2> SUFFICES ASSUME job[j].alone
               PROVE  AloneInHand(j)'
    BY <1>8 DEF AloneInHand
  <2>1. \A i \in Job \ {j} : AtWork(i)' => ~ Same(W(i), W(j))'
    BY <1>2, <1>4, <1>9, <1>10 DEF AloneInHand, Same
  <2>2. job[j].closed => NoManual(W(j))'
    <3>1. job[j].closed => NoManual(w)
      BY <1>2, <1>4 DEF AloneInHand
    <3>2. NoManual(W(j))' <=> NoManual(w)'
      BY <1>9 DEF NoManual
    <3>3. QED
      BY <1>18, <3>1, <3>2
  <2>3. ASSUME job[j].closed, NEW c \in Channel \ DOMAIN all PROVE ExactRow(W(j), c)'
    <3>1. None(c, w)
      BY <1>13, <1>15, <1>16, <2>3 DEF None
    <3>2. ExactRow(w, c)
      BY <1>4, <1>16, <2>3, <3>1, NothingArrived
    <3>3. ExactRow(W(j), c)' <=> ExactRow(w, c)'
      BY <1>9 DEF ExactRow, HasRow, Exact, None
    <3>4. QED
      BY <1>19, <3>2, <3>3
  <2>4. ASSUME w.period = "hourly"
        PROVE  all[All].total = SumFunctionOnSet([c \in Channel |-> IF c \in DOMAIN all THEN all[c].total ELSE Told(w, c)], Channel)
    <3> DEFINE f == [c \in DOMAIN merged |-> merged[c].total]
               g == [c \in Channel |-> IF c \in DOMAIN all THEN all[c].total ELSE Told(w, c)]
    <3>1. \A c \in Channel \ DOMAIN hand : Told(w, c) = 0
      BY <1>1, <1>2, <1>4, <2>4 DEF AloneInHand
    <3>2. \A c \in DOMAIN merged : f[c] \in Nat /\ g[c] = f[c]
      BY <1>13 DEF Aggregate
    <3>3. \A c \in Channel \ DOMAIN merged : g[c] = 0
      BY <1>13, <1>15, <3>1
    <3>4. IsFiniteSet(Channel) /\ IsFiniteSet(DOMAIN merged) /\ DOMAIN merged \subseteq Channel
      BY <1>13, AnalyticsAssumption, FS_Subset
    <3>5. all[All].total = SumFunctionOnSet(f, DOMAIN merged)
      BY <1>13
    <3> HIDE DEF f, g
    <3>6. Counts(f, DOMAIN merged) /\ Counts(g, Channel)
      BY <3>2, <3>3, <3>4 DEF Counts
    <3>7. SumFunctionOnSet(f, DOMAIN merged) = SumFunctionOnSet(g, DOMAIN merged)
      BY <3>2, <3>4, <3>6, SumAgrees
    <3>8. SumFunctionOnSet(g, DOMAIN merged) = SumFunctionOnSet(g, Channel)
      BY <3>3, <3>4, <3>6, SumSkipsZeros
    <3>9. QED
      BY <3>5, <3>7, <3>8 DEF g
  <2>5. [c \in Channel |-> IF c \in DOMAIN job[j].rows THEN job[j].rows[c].total ELSE Told(W(j), c)]'
        = [c \in Channel |-> IF c \in DOMAIN all THEN all[c].total ELSE Told(w, c)]
    <3>1. \A c : Told(W(j), c)' = Told(w, c)'
      BY <1>9 DEF Told, HasRow
    <3>2. QED
      BY <1>8, <1>19, <3>1
  <2>6. QED
    BY <1>8, <1>9, <2>1, <2>2, <2>3, <2>4, <2>5 DEF AloneInHand
<1>21. ASSUME NEW i \in Job \ {j} PROVE AloneInHand(i)'
  <2>1. \A k \in Job \ {i} : AtWork(k)' => AtWork(k) /\ W(k)' = W(k)
    BY <1>4, <1>9, <1>10
  <2>2. \A c \in Channel : (HasRow(W(i), c)' <=> HasRow(W(i), c)) /\ table'[Key(W(i), c)] = table[Key(W(i), c)]
    BY <1>1, <1>10 DEF HasRow
  <2>3. QED
    BY <1>1, <1>2, <1>6, <1>18, <2>1, <2>2, AloneKept
<1>22. ASSUME NEW v \in done PROVE DoneExact(v)'
  <2>1. DoneExact(v)
    BY DEF AnalyticsInv
  <2>2. \A i \in Job : AtWork(i)' /\ Same(W(i), v)' => job'[i].closed
    BY <1>4, <1>6, <1>8, <1>9, <1>10, <2>1 DEF DoneExact, Same
  <2>3. QED
    BY <1>1, <1>18, <1>19, <2>1, <2>2 DEF DoneExact, Full, Still
<1>23. ASSUME NEW h \in Hour PROVE (Key(Hourly(h), All) \in dirty \/ UnderWay(Hourly(h)) \/ Adds(Hourly(h)))'
  <2>1. Key(Hourly(h), All) \in dirty \/ UnderWay(Hourly(h)) \/ Adds(Hourly(h))
    BY DEF AnalyticsInv
  <2>2. Adds(Hourly(h))' <=> Adds(Hourly(h))
    BY <1>19 DEF Adds
  <2>3. UnderWay(Hourly(h)) => UnderWay(Hourly(h))'
    BY <1>1, <1>6, <1>10 DEF UnderWay, Same
  <2>4. QED
    BY <1>1, <2>1, <2>2, <2>3
<1>24. AnalyticsTyped'
  BY <1>1, <1>2, <1>6 DEF AnalyticsTyped, Still
<1>25. \A k \in DOMAIN table' : Within(table[k], k[3], WholeOf(k))'
  <2>1. \A k \in DOMAIN table : Within(table[k], k[3], WholeOf(k))
    BY DEF AnalyticsInv
  <2>2. QED
    BY <1>1, <2>1 DEF Within, AllReceived, AllSuppressed, Still
<1>26. \A i \in Job : JobFormed(i)' /\ RowsInHand(i)' /\ ClosedInHand(i)' /\ AloneInHand(i)'
  BY <1>10, <1>11, <1>14, <1>17, <1>20, <1>21
<1>27. QED
  BY <1>1, <1>22, <1>23, <1>24, <1>25, <1>26 DEF AnalyticsInv

\* One row is written: it is within what has arrived, no other row changes, and the
\* windows that are done stay exact.
RowWritten(j, w, c, hand) ==
  /\ Still /\ job[j].pc = "upsert" /\ w = W(j) /\ hand = job[j].rows /\ c \in DOMAIN hand
  /\ table' = Put(table, Key(w, c), hand[c])

LEMMA RowFacts ==
  ASSUME AnalyticsInv, NEW j \in Job, NEW w, NEW c, NEW hand, RowWritten(j, w, c, hand)
  PROVE  /\ AtWork(j) /\ HasRead(j) /\ Planned(j, w) /\ w \in AWindow
         /\ DOMAIN hand \subseteq Channel \cup {All} /\ All \in DOMAIN hand /\ All \notin Channel
         /\ \A d \in DOMAIN hand : hand[d] \in Aggregate /\ Within(hand[d], d, w)
         /\ DOMAIN table' \subseteq TableKey /\ \A k \in DOMAIN table' : table'[k] \in Aggregate /\ k[2] <= hour
         /\ \A k \in DOMAIN table' : Within(table[k], k[3], WholeOf(k))'
         /\ Told(w, c)' = hand[c].total /\ (hand[c] = Exact(c, w) => ExactRow(w, c)')
         /\ \A v, d : ~ Same(v, w) \/ d # c =>
              /\ HasRow(v, d)' <=> HasRow(v, d)
              /\ HasRow(v, d) => table'[Key(v, d)] = table[Key(v, d)]
              /\ Told(v, d)' = Told(v, d) /\ (ExactRow(v, d)' <=> ExactRow(v, d))
         /\ \A v \in done, d \in Channel : ExactRow(v, d)'
<1>1. AnalyticsTyped /\ JobFormed(j) /\ RowsInHand(j) /\ ClosedInHand(j)
  BY DEF AnalyticsInv
<1>2. AtWork(j) /\ HasRead(j) /\ Planned(j, w) /\ w \in AWindow
  <2>1. AtWork(j) /\ Planned(j, w) /\ w \in AWindow
    BY <1>1, FirstPlanned DEF AtWork, RowWritten
  <2>2. Ready(j) => job[j].pc = "receipts"
    BY DEF Ready
  <2>3. Resting(j) => job[j].pc = "idle"
    BY DEF Resting, NoJob
  <2>4. Resting(j) \/ Ready(j) \/ HasRead(j)
    BY <1>1 DEF JobFormed
  <2>5. QED
    BY <2>1, <2>2, <2>3, <2>4 DEF RowWritten
<1>3. /\ DOMAIN hand \subseteq Channel \cup {All} /\ All \in DOMAIN hand /\ All \notin Channel
      /\ \A d \in DOMAIN hand : hand[d] \in Aggregate /\ Within(hand[d], d, w)
  BY <1>1, <1>2, AnalyticsAssumption DEF RowsInHand, RowWritten
<1>4. c \in DOMAIN hand /\ c \in Channel \cup {All}
  BY <1>3 DEF RowWritten
<1> PICK key, row : key = Key(w, c) /\ row = hand[c]
  OBVIOUS
<1>5. /\ DOMAIN table' = DOMAIN table \cup {key} /\ table'[key] = row
      /\ \A k \in DOMAIN table : k # key => table'[k] = table[k]
  BY DEF RowWritten, Put
<1>6. key = <<w.period, w.from, c>> /\ key \in TableKey /\ key[2] <= hour /\ key[3] = c /\ row \in Aggregate /\ Within(row, c, w)
  BY <1>2, <1>3, <1>4 DEF Key, TableKey, AWindow, Planned
<1>7. DOMAIN table' \subseteq TableKey /\ \A k \in DOMAIN table' : table'[k] \in Aggregate /\ k[2] <= hour
  BY <1>1, <1>5, <1>6 DEF AnalyticsTyped
<1>8. Within(row, c, WholeOf(key))
  <2>1. w.from \in Nat /\ w.to \in Nat /\ w.to <= w.from + Size(w.period) /\ Size(w.period) \in Nat
    BY <1>2, AnalyticsAssumption DEF Planned, AWindow, Hour, Size
  <2>2. WholeOf(key).from = w.from /\ WholeOf(key).to = w.from + Size(w.period)
    BY <1>6 DEF WholeOf, Window
  <2>3. Hours(w) \subseteq Hours(WholeOf(key))
    <3> SUFFICES ASSUME NEW h \in Hours(w) PROVE h \in Hours(WholeOf(key))
      OBVIOUS
    <3>1. h \in Hour /\ h \in Nat /\ w.from <= h /\ h < w.to
      BY DEF Hours, Hour
    <3>2. h < w.from + Size(w.period)
      BY <2>1, <3>1
    <3>3. QED
      BY <2>2, <3>1, <3>2 DEF Hours
  <2>4. QED
    BY <1>1, <1>4, <1>6, <2>3, WithinLarger
<1>9. \A k \in DOMAIN table' : Within(table[k], k[3], WholeOf(k))'
  <2>1. \A k \in DOMAIN table' : Within(table'[k], k[3], WholeOf(k))
    <3>1. \A k \in DOMAIN table : Within(table[k], k[3], WholeOf(k))
      BY DEF AnalyticsInv
    <3>2. QED
      BY <1>5, <1>6, <1>8, <3>1
  <2>2. QED
    BY <2>1 DEF Within, AllReceived, AllSuppressed, Still, RowWritten
<1>10. Told(w, c)' = hand[c].total /\ (hand[c] = Exact(c, w) => ExactRow(w, c)')
  <2>1. HasRow(w, c)'
    BY <1>5 DEF HasRow
  <2>2. Exact(c, w)' = Exact(c, w)
    BY StillTotals DEF RowWritten
  <2>3. QED
    BY <1>5, <2>1, <2>2 DEF Told, ExactRow
<1>11. ASSUME NEW v, NEW d, ~ Same(v, w) \/ d # c
       PROVE  /\ HasRow(v, d)' <=> HasRow(v, d)
              /\ HasRow(v, d) => table'[Key(v, d)] = table[Key(v, d)]
              /\ Told(v, d)' = Told(v, d) /\ (ExactRow(v, d)' <=> ExactRow(v, d))
  <2>1. Key(v, d) # key
    BY <1>6, <1>11 DEF Key, Same
  <2>2. (HasRow(v, d)' <=> HasRow(v, d)) /\ (HasRow(v, d) => table'[Key(v, d)] = table[Key(v, d)])
    BY <1>5, <2>1 DEF HasRow
  <2>3. Exact(d, v)' = Exact(d, v) /\ (None(d, v)' <=> None(d, v))
    BY StillTotals DEF RowWritten
  <2>4. QED
    BY <2>2, <2>3 DEF Told, ExactRow
<1>12. ASSUME NEW v \in done, NEW d \in Channel PROVE ExactRow(v, d)'
  <2>1. DoneExact(v) /\ ExactRow(v, d)
    BY DEF AnalyticsInv, DoneExact
  <2>2. CASE ~ Same(v, w) \/ d # c
    BY <1>11, <2>1, <2>2
  <2>3. CASE Same(v, w) /\ d = c
    <3>1. job[j].closed
      BY <1>2, <2>1, <2>3 DEF DoneExact, Same, RowWritten
    <3>2. Full(w) /\ hand[c] = Exact(c, w)
      BY <1>1, <1>2, <1>4, <2>3, <3>1 DEF ClosedInHand, RowWritten
    <3>3. v = w
      BY <1>2, <2>1, <2>3, <3>2 DEF DoneExact, Full, Same, AWindow
    <3>4. QED
      BY <1>10, <2>3, <3>2, <3>3
  <2>4. QED
    BY <2>2, <2>3
<1>13. QED
  BY <1>2, <1>3, <1>7, <1>9, <1>10, <1>11, <1>12

LEMMA ChannelUpsertStep ==
  ASSUME AnalyticsInv, NEW j \in Job, NEW w, NEW c, NEW hand, RowWritten(j, w, c, hand), c # All,
         job' = [job EXCEPT ![j].rows = Restrict(@, DOMAIN @ \ {c})], done' = done, dirty' = dirty
  PROVE  AnalyticsInv'
<1>1. Still /\ job[j].pc = "upsert" /\ w = W(j) /\ hand = job[j].rows /\ c \in DOMAIN hand
  BY DEF RowWritten
<1>2. AnalyticsTyped /\ \A i \in Job : JobFormed(i) /\ RowsInHand(i) /\ ClosedInHand(i) /\ AloneInHand(i)
  BY DEF AnalyticsInv
<1>3. /\ AtWork(j) /\ HasRead(j) /\ Planned(j, w) /\ w \in AWindow
      /\ DOMAIN hand \subseteq Channel \cup {All} /\ All \in DOMAIN hand /\ All \notin Channel
      /\ \A d \in DOMAIN hand : hand[d] \in Aggregate /\ Within(hand[d], d, w)
      /\ DOMAIN table' \subseteq TableKey /\ \A k \in DOMAIN table' : table'[k] \in Aggregate /\ k[2] <= hour
      /\ \A k \in DOMAIN table' : Within(table[k], k[3], WholeOf(k))'
      /\ Told(w, c)' = hand[c].total /\ (hand[c] = Exact(c, w) => ExactRow(w, c)')
  BY RowFacts
<1>4. /\ \A v, d : ~ Same(v, w) \/ d # c =>
           /\ HasRow(v, d)' <=> HasRow(v, d)
           /\ HasRow(v, d) => table'[Key(v, d)] = table[Key(v, d)]
           /\ Told(v, d)' = Told(v, d) /\ (ExactRow(v, d)' <=> ExactRow(v, d))
      /\ \A v \in done, d \in Channel : ExactRow(v, d)'
  BY RowFacts
<1> PICK rest : rest = Restrict(hand, DOMAIN hand \ {c})
  OBVIOUS
<1>5. DOMAIN rest = DOMAIN hand \ {c} /\ \A d \in DOMAIN rest : rest[d] = hand[d]
  BY DEF Restrict
<1>6. DOMAIN job = Job
  BY <1>2 DEF AnalyticsTyped
<1>7. DOMAIN job' = Job /\ job'[j] = [job[j] EXCEPT !.rows = rest] /\ \A i \in Job \ {j} : job'[i] = job[i]
  BY <1>1, <1>6
<1>8. /\ job'[j].todo = job[j].todo /\ job'[j].pc = "upsert" /\ job'[j].rows = rest
      /\ job'[j].closed = job[j].closed /\ job'[j].alone = job[j].alone /\ HasRead(j)'
  <2>1. PICK t, p, r, cl, al : job[j] = [todo |-> t, pc |-> p, rows |-> r, closed |-> cl, alone |-> al]
    BY <1>3 DEF HasRead
  <2>2. job'[j] = [todo |-> t, pc |-> p, rows |-> rest, closed |-> cl, alone |-> al]
    BY <1>7, <2>1
  <2>3. p = "upsert" /\ cl \in BOOLEAN /\ al \in BOOLEAN
    BY <1>1, <1>3, <2>1 DEF HasRead
  <2>4. /\ job'[j].todo = job[j].todo /\ job'[j].pc = "upsert" /\ job'[j].rows = rest
        /\ job'[j].closed = job[j].closed /\ job'[j].alone = job[j].alone
    BY <2>1, <2>2, <2>3
  <2>5. HasRead(j)'
    BY <2>2, <2>3 DEF HasRead, AtWork
  <2>6. QED
    BY <2>4, <2>5
<1>9. AtWork(j)' /\ W(j)' = w
  BY <1>1, <1>8 DEF AtWork, W
<1>10. \A i \in Job \ {j} : JobFormed(i)' /\ RowsInHand(i)' /\ ClosedInHand(i)' /\ W(i)' = W(i) /\ (AtWork(i)' <=> AtWork(i))
  BY <1>1, <1>2, <1>7, JobKept
<1>11. JobFormed(j)'
  <2>1. \A n \in DOMAIN job[j].todo : Planned(j, job[j].todo[n])'
    <3>1. \A n \in DOMAIN job[j].todo : Planned(j, job[j].todo[n])
      BY <1>2 DEF JobFormed
    <3>2. QED
      BY <1>1, <1>8, <3>1 DEF Planned, Full, Still
  <2>2. QED
    BY <1>1, <1>2, <1>8, <2>1 DEF JobFormed
<1>12. RowsInHand(j)'
  <2>1. \A d \in DOMAIN rest : rest[d] \in Aggregate /\ Within(rest[d], d, w)'
    BY <1>1, <1>3, <1>5, StillTotals
  <2>2. DOMAIN rest \subseteq Channel \cup {All} /\ All \in DOMAIN rest
    BY <1>3, <1>5
  <2>3. QED
    BY <1>8, <1>9, <2>1, <2>2 DEF RowsInHand
<1>13. ASSUME job[j].closed
       PROVE  /\ w.to <= hour /\ Full(w) /\ ~ (j = "manual" /\ w.period = "daily")
              /\ \A d \in Channel \cap DOMAIN hand : hand[d] = Exact(d, w)
  BY <1>1, <1>2, <1>3, <1>13 DEF ClosedInHand
<1>14. ClosedInHand(j)'
  <2> SUFFICES ASSUME job[j].closed
               PROVE  ClosedInHand(j)'
    BY <1>8 DEF ClosedInHand
  <2>1. \A d \in Channel \cap DOMAIN rest : rest[d] = Exact(d, w)'
    BY <1>1, <1>5, <1>13, StillTotals
  <2>2. \A d \in Channel \cap DOMAIN rest : rest[d] = Exact(d, W(j))'
    BY <1>9, <2>1 DEF Exact
  <2>3. Full(W(j))'
    BY <1>9, <1>13 DEF Full
  <2>4. QED
    BY <1>1, <1>8, <1>9, <1>13, <2>2, <2>3 DEF ClosedInHand, Still
<1>15. \A v : NoManual(v)' <=> NoManual(v)
  BY <1>7, <1>8 DEF NoManual, Same, Job
<1>16. AloneInHand(j)'
  <2> SUFFICES ASSUME job[j].alone
               PROVE  AloneInHand(j)'
    BY <1>8 DEF AloneInHand
  <2>1. \A i \in Job \ {j} : AtWork(i)' => ~ Same(W(i), W(j))'
    BY <1>1, <1>2, <1>3, <1>9, <1>10 DEF AloneInHand, Same
  <2>2. job[j].closed => NoManual(W(j))'
    <3>1. job[j].closed => NoManual(w)
      BY <1>1, <1>2, <1>3 DEF AloneInHand
    <3>2. NoManual(W(j))' <=> NoManual(w)'
      BY <1>9 DEF NoManual
    <3>3. QED
      BY <1>15, <3>1, <3>2
  <2>3. ASSUME job[j].closed, NEW d \in Channel \ DOMAIN rest PROVE ExactRow(W(j), d)'
    <3>1. d = c => ExactRow(w, d)'
      BY <1>1, <1>3, <1>13, <2>3
    <3>2. d # c => ExactRow(w, d)'
      <4>1. d # c => ExactRow(w, d)
        BY <1>1, <1>2, <1>3, <1>5, <2>3 DEF AloneInHand
      <4>2. QED
        BY <1>4, <4>1
    <3>3. ExactRow(W(j), d)' <=> ExactRow(w, d)'
      BY <1>9 DEF ExactRow, HasRow, Exact, None
    <3>4. QED
      BY <3>1, <3>2, <3>3
  <2>4. [d \in Channel |-> IF d \in DOMAIN job[j].rows THEN job[j].rows[d].total ELSE Told(W(j), d)]'
        = [d \in Channel |-> IF d \in DOMAIN hand THEN hand[d].total ELSE Told(w, d)]
    <3>1. \A d : Told(W(j), d)' = Told(w, d)'
      BY <1>9 DEF Told, HasRow
    <3>2. ASSUME NEW d \in Channel
          PROVE  (IF d \in DOMAIN rest THEN rest[d].total ELSE Told(w, d)') = (IF d \in DOMAIN hand THEN hand[d].total ELSE Told(w, d))
      <4>1. CASE d = c
        BY <1>1, <1>3, <1>5, <4>1
      <4>2. CASE d # c
        BY <1>4, <1>5, <4>2
      <4>3. QED
        BY <4>1, <4>2
    <3>3. QED
      BY <1>8, <3>1, <3>2
  <2>5. rest[All] = hand[All]
    BY <1>3, <1>5
  <2>6. w.period = "hourly" =>
          hand[All].total = SumFunctionOnSet([d \in Channel |-> IF d \in DOMAIN hand THEN hand[d].total ELSE Told(w, d)], Channel)
    BY <1>1, <1>2, <1>3 DEF AloneInHand
  <2>7. QED
    BY <1>8, <1>9, <2>1, <2>2, <2>3, <2>4, <2>5, <2>6 DEF AloneInHand
<1>17. ASSUME NEW i \in Job \ {j} PROVE AloneInHand(i)'
  <2>1. \A k \in Job \ {i} : AtWork(k)' => AtWork(k) /\ W(k)' = W(k)
    BY <1>1, <1>3, <1>9, <1>10
  <2>2. ASSUME AtWork(i), job[i].alone, NEW d \in Channel
        PROVE  (HasRow(W(i), d)' <=> HasRow(W(i), d)) /\ (HasRow(W(i), d) => table'[Key(W(i), d)] = table[Key(W(i), d)])
    <3> PICK v : v = W(i)
      OBVIOUS
    <3>1. ~ Same(v, w)
      BY <1>1, <1>2, <1>3, <2>2 DEF AloneInHand, Same
    <3>2. HasRow(W(i), d)' <=> HasRow(v, d)'
      BY <1>10 DEF HasRow
    <3>3. QED
      BY <1>4, <3>1, <3>2
  <2>3. QED
    BY <1>1, <1>2, <1>7, <1>15, <2>1, <2>2, AloneKept
<1>18. ASSUME NEW v \in done PROVE DoneExact(v)'
  <2>1. DoneExact(v)
    BY DEF AnalyticsInv
  <2>2. \A i \in Job : AtWork(i)' /\ Same(W(i), v)' => job'[i].closed
    BY <1>1, <1>3, <1>7, <1>8, <1>9, <1>10, <2>1 DEF DoneExact, Same
  <2>3. QED
    BY <1>1, <1>4, <1>15, <2>1, <2>2 DEF DoneExact, Full, Still
<1>19. ASSUME NEW h \in Hour PROVE (Key(Hourly(h), All) \in dirty \/ UnderWay(Hourly(h)) \/ Adds(Hourly(h)))'
  <2>1. Key(Hourly(h), All) \in dirty \/ UnderWay(Hourly(h)) \/ Adds(Hourly(h))
    BY DEF AnalyticsInv
  <2>2. CASE Same(w, Hourly(h))
    <3>1. UnderWay(Hourly(h))'
      BY <1>8, <1>9, <2>2 DEF UnderWay, Same
    <3>2. QED
      BY <3>1
  <2>3. CASE ~ Same(w, Hourly(h))
    <3>1. \A d : Told(Hourly(h), d)' = Told(Hourly(h), d)
      BY <1>4, <2>3 DEF Same
    <3>2. Adds(Hourly(h))' <=> Adds(Hourly(h))
      BY <3>1 DEF Adds
    <3>3. UnderWay(Hourly(h)) => UnderWay(Hourly(h))'
      BY <1>1, <1>7, <1>10, <2>3 DEF UnderWay, Same
    <3>4. QED
      BY <1>1, <2>1, <3>2, <3>3
  <2>4. QED
    BY <2>2, <2>3
<1>20. AnalyticsTyped'
  BY <1>1, <1>2, <1>3, <1>7 DEF AnalyticsTyped, Still
<1>21. \A i \in Job : JobFormed(i)' /\ RowsInHand(i)' /\ ClosedInHand(i)' /\ AloneInHand(i)'
  BY <1>10, <1>11, <1>12, <1>14, <1>16, <1>17
<1>22. QED
  BY <1>3, <1>18, <1>19, <1>20, <1>21 DEF AnalyticsInv

LEMMA LastUpsertStep ==
  ASSUME AnalyticsInv, NEW j \in Job, NEW w, NEW hand, RowWritten(j, w, All, hand), DOMAIN hand = {All},
         NEW rest, rest = Tail(job[j].todo),
         job' = [job EXCEPT ![j] = IF rest = <<>> THEN NoJob ELSE [todo |-> rest, pc |-> "receipts"]],
         done' = IF job[j].alone /\ job[j].closed THEN done \cup {w} ELSE done,
         dirty' = IF job[j].alone THEN dirty \ {Key(w, All)} ELSE dirty \cup {Key(w, All)}
  PROVE  AnalyticsInv'
<1>1. Still /\ job[j].pc = "upsert" /\ w = W(j) /\ hand = job[j].rows
  BY DEF RowWritten
<1>2. AnalyticsTyped /\ \A i \in Job : JobFormed(i) /\ RowsInHand(i) /\ ClosedInHand(i) /\ AloneInHand(i)
  BY DEF AnalyticsInv
<1>3. /\ AtWork(j) /\ HasRead(j) /\ Planned(j, w) /\ w \in AWindow /\ All \notin Channel
      /\ DOMAIN table' \subseteq TableKey /\ \A k \in DOMAIN table' : table'[k] \in Aggregate /\ k[2] <= hour
      /\ \A k \in DOMAIN table' : Within(table[k], k[3], WholeOf(k))'
      /\ Told(w, All)' = hand[All].total
  BY RowFacts
<1>4. /\ \A v, d : ~ Same(v, w) \/ d # All =>
           /\ HasRow(v, d)' <=> HasRow(v, d)
           /\ HasRow(v, d) => table'[Key(v, d)] = table[Key(v, d)]
           /\ Told(v, d)' = Told(v, d) /\ (ExactRow(v, d)' <=> ExactRow(v, d))
      /\ \A v \in done, d \in Channel : ExactRow(v, d)'
  BY RowFacts
<1>5. DOMAIN job = Job
  BY <1>2 DEF AnalyticsTyped
<1>6. /\ DOMAIN job' = Job /\ \A i \in Job \ {j} : job'[i] = job[i]
      /\ job'[j] = IF rest = <<>> THEN NoJob ELSE [todo |-> rest, pc |-> "receipts"]
  BY <1>5
<1>7. rest \in Seq(AWindow) /\ \A n \in DOMAIN rest : Planned(j, rest[n])
  BY <1>1, <1>2, FirstPlanned
<1>8. job'[j].todo = rest /\ job'[j].pc \in {"idle", "receipts"} /\ (rest # <<>> => Ready(j)') /\ (rest = <<>> => Resting(j)' /\ job'[j].pc = "idle")
  <2>1. CASE rest = <<>>
    BY <1>6, <2>1 DEF NoJob, Resting
  <2>2. CASE rest # <<>>
    BY <1>6, <2>2 DEF Ready
  <2>3. QED
    BY <2>1, <2>2
<1>9. ~ AtWork(j)'
  BY <1>8 DEF AtWork
<1>10. JobFormed(j)' /\ RowsInHand(j)' /\ ClosedInHand(j)' /\ AloneInHand(j)'
  <2>1. \A n \in DOMAIN job[j].todo' : Planned(j, job[j].todo[n])'
    BY <1>1, <1>7, <1>8 DEF Planned, Full, Still
  <2>2. JobFormed(j)'
    BY <1>7, <1>8, <2>1 DEF JobFormed
  <2>3. QED
    BY <1>9, <2>2 DEF RowsInHand, ClosedInHand, AloneInHand
<1>11. \A i \in Job \ {j} : JobFormed(i)' /\ RowsInHand(i)' /\ ClosedInHand(i)' /\ W(i)' = W(i) /\ (AtWork(i)' <=> AtWork(i))
  BY <1>1, <1>2, <1>6, JobKept
<1>12. \A v : NoManual(v) => NoManual(v)'
  <2> SUFFICES ASSUME NEW v, NoManual(v), v.period = "daily"
               PROVE  \A n \in DOMAIN job'["manual"].todo : ~ Same(job'["manual"].todo[n], v)
    BY DEF NoManual, Same
  <2>1. CASE j # "manual"
    BY <1>6, <2>1 DEF NoManual, Job
  <2>2. CASE j = "manual"
    <3> PICK todo : todo = job[j].todo
      OBVIOUS
    <3>1. todo \in Seq(AWindow) /\ todo # <<>>
      BY <1>1, <1>2 DEF JobFormed
    <3>2. \A n \in DOMAIN rest : n + 1 \in DOMAIN todo /\ rest[n] = todo[n + 1]
      BY <3>1
    <3>3. \A n \in DOMAIN todo : ~ Same(todo[n], v)
      BY <2>2 DEF NoManual
    <3>4. \A n \in DOMAIN rest : ~ Same(rest[n], v)
      BY <3>2, <3>3
    <3>5. job'["manual"].todo = rest
      BY <1>8, <2>2
    <3>6. QED
      BY <3>4, <3>5 DEF Same
  <2>3. QED
    BY <2>1, <2>2
<1>13. ASSUME NEW i \in Job \ {j} PROVE AloneInHand(i)'
  <2>1. \A k \in Job \ {i} : AtWork(k)' => AtWork(k) /\ W(k)' = W(k)
    BY <1>9, <1>11
  <2>2. ASSUME AtWork(i), job[i].alone, NEW d \in Channel
        PROVE  (HasRow(W(i), d)' <=> HasRow(W(i), d)) /\ (HasRow(W(i), d) => table'[Key(W(i), d)] = table[Key(W(i), d)])
    <3> PICK v : v = W(i)
      OBVIOUS
    <3>1. d # All
      BY <1>3
    <3>2. HasRow(W(i), d)' <=> HasRow(v, d)'
      BY <1>11 DEF HasRow
    <3>3. QED
      BY <1>4, <3>1, <3>2
  <2>3. QED
    BY <1>1, <1>2, <1>6, <1>12, <2>1, <2>2, AloneKept
<1>14. ASSUME NEW v \in done' PROVE DoneExact(v)'
  <2>1. ASSUME v \in AWindow, v.to <= hour, Full(v), NoManual(v), \A d \in Channel : ExactRow(v, d)',
               \A i \in Job \ {j} : AtWork(i) /\ Same(W(i), v) => job[i].closed
        PROVE  DoneExact(v)'
    <3>1. \A i \in Job : AtWork(i)' /\ Same(W(i), v)' => job'[i].closed
      BY <1>6, <1>9, <1>11, <2>1 DEF Same
    <3>2. QED
      BY <1>1, <1>12, <2>1, <3>1 DEF DoneExact, Full, Still
  <2>2. CASE v \in done
    <3>1. DoneExact(v)
      BY <2>2 DEF AnalyticsInv
    <3>2. QED
      BY <1>4, <2>1, <2>2, <3>1 DEF DoneExact
  <2>3. CASE v \notin done
    <3>1. v = w /\ job[j].alone /\ job[j].closed
      BY <2>3
    <3>2. w.to <= hour /\ Full(w)
      BY <1>1, <1>2, <1>3, <3>1 DEF ClosedInHand
    <3>3. NoManual(w) /\ \A d \in Channel : ExactRow(w, d)
      BY <1>1, <1>2, <1>3, <3>1 DEF AloneInHand
    <3>4. \A d \in Channel : ExactRow(w, d)'
      BY <1>3, <1>4, <3>3
    <3>5. \A i \in Job \ {j} : AtWork(i) => ~ Same(W(i), w)
      BY <1>1, <1>2, <1>3, <3>1 DEF AloneInHand
    <3>6. QED
      BY <1>3, <2>1, <3>1, <3>2, <3>3, <3>4, <3>5
  <2>4. QED
    BY <2>2, <2>3
<1>15. ASSUME NEW h \in Hour PROVE (Key(Hourly(h), All) \in dirty \/ UnderWay(Hourly(h)) \/ Adds(Hourly(h)))'
  <2>1. Key(Hourly(h), All) \in dirty \/ UnderWay(Hourly(h)) \/ Adds(Hourly(h))
    BY DEF AnalyticsInv
  <2>2. CASE Same(w, Hourly(h))
    <3>1. Key(Hourly(h), All) = Key(w, All) /\ \A d : Told(Hourly(h), d)' = Told(w, d)'
      BY <2>2 DEF Key, Same, Told, HasRow
    <3>2. CASE job[j].alone
      <4>1. w.period = "hourly"
        BY <2>2 DEF Same, Hourly, Window
      <4>2. hand[All].total = SumFunctionOnSet([d \in Channel |-> IF d \in DOMAIN hand THEN hand[d].total ELSE Told(w, d)], Channel)
        BY <1>1, <1>2, <1>3, <3>2, <4>1 DEF AloneInHand
      <4>3. \A d \in Channel : d \notin DOMAIN hand /\ Told(w, d)' = Told(w, d)
        BY <1>3, <1>4
      <4>4. [d \in Channel |-> IF d \in DOMAIN hand THEN hand[d].total ELSE Told(w, d)] = [d \in Channel |-> Told(Hourly(h), d)']
        BY <3>1, <4>3
      <4>5. Told(Hourly(h), All)' = SumFunctionOnSet([d \in Channel |-> Told(Hourly(h), d)'], Channel)
        BY <1>3, <3>1, <4>2, <4>4
      <4>6. Adds(Hourly(h))'
        BY <4>5 DEF Adds
      <4>7. QED
        BY <4>6
    <3>3. CASE ~ job[j].alone
      BY <3>1, <3>3
    <3>4. QED
      BY <3>2, <3>3
  <2>3. CASE ~ Same(w, Hourly(h))
    <3>1. \A d : Told(Hourly(h), d)' = Told(Hourly(h), d)
      BY <1>4, <2>3 DEF Same
    <3>2. Adds(Hourly(h))' <=> Adds(Hourly(h))
      BY <3>1 DEF Adds
    <3>3. UnderWay(Hourly(h)) => UnderWay(Hourly(h))'
      BY <1>1, <1>6, <1>11, <2>3 DEF UnderWay, Same
    <3>4. Key(Hourly(h), All) # Key(w, All)
      BY <2>3 DEF Key, Same
    <3>5. QED
      BY <2>1, <3>2, <3>3, <3>4
  <2>4. QED
    BY <2>2, <2>3
<1>16. AnalyticsTyped'
  BY <1>1, <1>2, <1>3, <1>6 DEF AnalyticsTyped, Still
<1>17. \A i \in Job : JobFormed(i)' /\ RowsInHand(i)' /\ ClosedInHand(i)' /\ AloneInHand(i)'
  BY <1>10, <1>11, <1>13
<1>18. QED
  BY <1>3, <1>14, <1>15, <1>16, <1>17 DEF AnalyticsInv

LEMMA UpsertStep ==
  ASSUME AnalyticsInv, NEW j \in Job, Upsert(j)
  PROVE  AnalyticsInv'
<1> PICK w, rest, hand : w = W(j) /\ rest = Tail(job[j].todo) /\ hand = job[j].rows
  OBVIOUS
<1>1. job[j].pc = "upsert" /\ Still
  BY DEF Upsert, Still
<1>2. PICK c \in DOMAIN hand :
        /\ c = All => DOMAIN hand = {All}
        /\ table' = Put(table, Key(w, c), hand[c])
        /\ IF c # All
           THEN /\ job' = [job EXCEPT ![j].rows = Restrict(@, DOMAIN @ \ {c})]
                /\ UNCHANGED <<done, dirty>>
           ELSE /\ job' = [job EXCEPT ![j] = IF rest = <<>> THEN NoJob ELSE [todo |-> rest, pc |-> "receipts"]]
                /\ done' = IF job[j].alone /\ job[j].closed THEN done \cup {w} ELSE done
                /\ dirty' = IF job[j].alone THEN dirty \ {Key(w, All)} ELSE dirty \cup {Key(w, All)}
  BY DEF Upsert, W
<1>3. RowWritten(j, w, c, hand)
  BY <1>1, <1>2 DEF RowWritten
<1>4. CASE c # All
  BY <1>2, <1>3, <1>4, ChannelUpsertStep
<1>5. CASE c = All
  BY <1>2, <1>3, <1>5, LastUpsertStep
<1>6. QED
  BY <1>4, <1>5

LEMMA AnalyticsStart == AnalyticsInit => AnalyticsInv
<1> SUFFICES ASSUME AnalyticsInit PROVE AnalyticsInv
  OBVIOUS
<1>1. DOMAIN table = {} /\ DOMAIN job = Job /\ \A j \in Job : job[j] = NoJob
  BY DEF AnalyticsInit
<1>2. AnalyticsTyped
  <2>1. hour \in Hour
    BY AnalyticsAssumption DEF AnalyticsInit, Hour
  <2>2. /\ receipts \in [Channel -> [Hour -> Nat]]
        /\ suppressions \in [Channel \cup {Unknown} -> [Hour -> Nat]]
    BY DEF AnalyticsInit
  <2>3. QED
    BY <1>1, <2>1, <2>2 DEF AnalyticsTyped
<1>3. ASSUME NEW j \in Job PROVE JobFormed(j) /\ RowsInHand(j) /\ ClosedInHand(j) /\ AloneInHand(j)
  <2>1. job[j].pc = "idle" /\ job[j].todo = <<>> /\ Resting(j) /\ ~ AtWork(j)
    BY <1>1 DEF NoJob, Resting, AtWork
  <2>2. QED
    BY <2>1 DEF JobFormed, RowsInHand, ClosedInHand, AloneInHand
<1>4. ASSUME NEW h \in Hour PROVE Adds(Hourly(h))
  <2> DEFINE f == [c \in Channel |-> Told(Hourly(h), c)]
  <2>1. \A c : Told(Hourly(h), c) = 0
    BY <1>1 DEF Told, HasRow
  <2>2. Counts(f, Channel) /\ \A c \in Channel \ {} : f[c] = 0
    BY <2>1 DEF Counts
  <2>3. IsFiniteSet(Channel)
    BY AnalyticsAssumption
  <2> HIDE DEF f
  <2>4. SumFunctionOnSet(f, {}) = SumFunctionOnSet(f, Channel)
    BY <2>2, <2>3, SumSkipsZeros
  <2>5. Told(Hourly(h), All) = SumFunctionOnSet(f, Channel)
    BY <2>1, <2>4, SumOfNone
  <2>6. QED
    BY <2>5 DEF Adds, f
<1>5. done = {}
  BY DEF AnalyticsInit
<1>6. QED
  BY <1>1, <1>2, <1>3, <1>4, <1>5 DEF AnalyticsInv

LEMMA AnalyticsStutter ==
  ASSUME AnalyticsInv, UNCHANGED analyticsVars
  PROVE  AnalyticsInv'
<1>1. UNCHANGED <<hour, receipts, suppressions, table, job, done, dirty>> /\ AnalyticsTyped
  BY DEF analyticsVars, AnalyticsInv
<1>2. AnalyticsTyped'
  BY <1>1 DEF AnalyticsTyped
<1>3. \A c \in Channel, h \in Hour : receipts[c][h] \in Nat /\ suppressions[c][h] \in Nat
  BY <1>1 DEF AnalyticsTyped
<1>4. hour \in Nat
  BY <1>1 DEF AnalyticsTyped, Hour
<1>5. Grown
  BY <1>1, <1>2, <1>3, <1>4 DEF Grown
<1>6. QED
  BY <1>1, <1>5, TimeStep

LEMMA AnalyticsStep == AnalyticsInv /\ [AnalyticsNext]_analyticsVars => AnalyticsInv'
<1> SUFFICES ASSUME AnalyticsInv, [AnalyticsNext]_analyticsVars PROVE AnalyticsInv'
  OBVIOUS
<1>1. ASSUME NEW c \in Channel \cup {Unknown}, Arrive(c) PROVE AnalyticsInv'
  BY <1>1, ArriveStep
<1>2. CASE NextHour
  BY <1>2, NextHourStep
<1>3. ASSUME NEW j \in Job, Start(j) PROVE AnalyticsInv'
  BY <1>3, StartStep
<1>4. ASSUME NEW j \in Job, ReadReceipts(j) PROVE AnalyticsInv'
  BY <1>4, ReadReceiptsStep
<1>5. ASSUME NEW j \in Job, ReadSuppressed(j) PROVE AnalyticsInv'
  BY <1>5, ReadSuppressedStep
<1>6. ASSUME NEW j \in Job, Upsert(j) PROVE AnalyticsInv'
  BY <1>6, UpsertStep
<1>7. ASSUME NEW j \in Job, Abort(j) PROVE AnalyticsInv'
  BY <1>7, AbortStep
<1>8. CASE UNCHANGED analyticsVars
  BY <1>8, AnalyticsStutter
<1>9. QED
  BY <1>1, <1>2, <1>3, <1>4, <1>5, <1>6, <1>7, <1>8 DEF AnalyticsNext

-----------------------------------------------------------------------------
\* What follows from it: the sums of today.

\* The hours of today with a row of a channel, or all hours of today.
LEMMA SumOfToday ==
  ASSUME AnalyticsInv, NEW c \in Channel \cup {All},
         NEW D, D = {h \in Hour : DayStart(hour) <= h}
  PROVE  SumRows(c) = SumFunctionOnSet([h \in D |-> Told(Hourly(h), c)], D) /\ \A h \in D : Told(Hourly(h), c) \in Nat
<1> DEFINE T == TodayHours(c)
           f == [h \in T |-> table[Key(Hourly(h), c)].total]
           g == [h \in D |-> Told(Hourly(h), c)]
<1>1. \A h \in D : Told(Hourly(h), c) \in Nat
  BY DEF AnalyticsInv, AnalyticsTyped, Aggregate, Told, HasRow
<1>2. T \subseteq D /\ \A h \in T : HasRow(Hourly(h), c)
  BY DEF TodayHours
<1>3. \A h \in D \ T : ~ HasRow(Hourly(h), c)
  BY DEF TodayHours
<1>4. \A h \in T : f[h] = g[h]
  BY <1>2 DEF Told
<1>5. \A h \in D \ T : g[h] = 0
  BY <1>3 DEF Told
<1>6. Counts(g, D) /\ Counts(f, T)
  BY <1>1, <1>2, <1>4 DEF Counts
<1>7. IsFiniteSet(D) /\ IsFiniteSet(T)
  BY <1>2, HoursFinite, FS_Subset
<1>8. SumRows(c) = SumFunctionOnSet(f, T)
  BY DEF SumRows, SumFunction
<1> HIDE DEF f, g, T
<1>9. SumFunctionOnSet(f, T) = SumFunctionOnSet(g, T)
  BY <1>4, <1>6, <1>7, SumAgrees
<1>10. SumFunctionOnSet(g, T) = SumFunctionOnSet(g, D)
  BY <1>2, <1>5, <1>6, <1>7, SumSkipsZeros
<1>11. QED
  BY <1>1, <1>8, <1>9, <1>10 DEF g

LEMMA TypesFollow == AnalyticsInv => AnalyticsTypeOK
<1> SUFFICES ASSUME AnalyticsInv PROVE AnalyticsTypeOK
  OBVIOUS
<1>1. hour \in Hour
  BY DEF AnalyticsInv, AnalyticsTyped
<1>2. ASSUME NEW k \in DOMAIN table
      PROVE  k[1] \in {"hourly", "daily"} /\ k[2] \in Hour /\ k[3] \in Channel \cup {All} /\ table[k].total \in Nat
  BY DEF AnalyticsInv, AnalyticsTyped, TableKey, Aggregate
<1>3. ASSUME NEW j \in Job PROVE job[j].pc \in {"idle", "receipts", "suppressed", "upsert"}
  <2>1. Resting(j) \/ Ready(j) \/ HasRead(j)
    BY DEF AnalyticsInv, JobFormed
  <2>2. Resting(j) => job[j].pc = "idle"
    BY DEF Resting, NoJob
  <2>3. Ready(j) => job[j].pc = "receipts"
    BY DEF Ready
  <2>4. HasRead(j) => job[j].pc \in {"suppressed", "upsert"}
    BY DEF HasRead, AtWork
  <2>5. QED
    BY <2>1, <2>2, <2>3, <2>4
<1>4. QED
  BY <1>1, <1>2, <1>3 DEF AnalyticsTypeOK

LEMMA ClosedFollows == AnalyticsInv => ClosedIsExact
BY DEF AnalyticsInv, ClosedIsExact, DoneExact, ExactRow, Exact, None

\* Each row of today is at most what arrived in its hour, and the hours are today's.
LEMMA TodayFollows ==
  ASSUME AnalyticsInv
  PROVE  TodayTotal <= TotalOf(receipts, Channel, Today)
<1> DEFINE D == {h \in Hour : DayStart(hour) <= h}
           H == Hours(Today)
           m == [p \in Channel \X H |-> receipts[p[1]][p[2]]]
           told == [h \in D |-> Told(Hourly(h), All)]
           came == ColumnSums(m, Channel, H)
<1>1. hour \in Nat /\ Hour \subseteq Nat /\ hour \in Hour /\ receipts \in [Channel -> [Hour -> Nat]] /\ AnalyticsTyped
  BY DEF AnalyticsInv, AnalyticsTyped, Hour
<1>2. H = {h \in D : h <= hour} /\ H \subseteq Hour
  <2>1. Today.from = DayStart(hour) /\ Today.to = hour + 1
    BY DEF Today, Window
  <2>2. H = {h \in Hour : DayStart(hour) <= h /\ h < hour + 1}
    BY <2>1 DEF Hours
  <2>3. \A h \in Hour : h < hour + 1 <=> h <= hour
    BY <1>1
  <2>4. QED
    BY <2>2, <2>3
<1>3. IsFiniteSet(H) /\ IsFiniteSet(D) /\ IsFiniteSet(Channel)
  BY <1>2, HoursFinite, FS_Subset, AnalyticsAssumption
<1>4. TodayTotal = SumFunctionOnSet(told, D) /\ \A h \in D : told[h] \in Nat
  BY SumOfToday DEF TodayTotal
<1>5. \A h \in D \ H : told[h] = 0
  <2> TAKE h \in D \ H
  <2>1. Key(Hourly(h), All)[2] = h /\ ~ (h <= hour)
    BY <1>2 DEF Key, Hourly, Window
  <2>2. ~ HasRow(Hourly(h), All)
    BY <2>1 DEF AnalyticsInv, AnalyticsTyped, HasRow
  <2>3. QED
    BY <2>2 DEF Told
<1>6. \A c \in Channel, h \in H : m[<<c, h>>] = receipts[c][h] /\ m[<<c, h>>] \in Nat
  BY <1>1, <1>2
<1>7. \A h \in H : told[h] \in Nat /\ came[h] \in Nat /\ told[h] <= came[h]
  <2> TAKE h \in H
  <2> DEFINE col == [c \in Channel |-> m[<<c, h>>]]
             one == [c \in Channel |-> Total(receipts[c], Hourly(h))]
  <2>1. Hours(Hourly(h)) = {h} /\ h \in D
    <3>1. h \in D /\ h \in Hour
      BY <1>2
    <3>2. Hourly(h).from = h /\ Hourly(h).to = h + 1
      BY DEF Hourly, Window
    <3>3. \A x \in Hour : h <= x /\ x < h + 1 <=> x = h
      BY <1>1, <3>1
    <3>4. Hours(Hourly(h)) = {x \in Hour : h <= x /\ x < h + 1}
      BY <3>2 DEF Hours
    <3>5. QED
      BY <3>1, <3>3, <3>4
  <2>2. \A c \in Channel : Total(receipts[c], Hourly(h)) = receipts[c][h] /\ receipts[c][h] \in Nat
    <3> TAKE c \in Channel
    <3> DEFINE f == receipts[c]
    <3>1. Counts(f, {} \cup {h}) /\ f[h] \in Nat
      BY <1>1, <1>2 DEF Counts
    <3> HIDE DEF f
    <3>2. SumFunctionOnSet(f, {} \cup {h}) = f[h] + SumFunctionOnSet(f, {})
      BY <3>1, FS_EmptySet, SumWith
    <3>3. {} \cup {h} = {h} /\ SumFunctionOnSet(f, {}) = 0
      BY SumOfNone
    <3>4. SumFunctionOnSet(f, {h}) = f[h]
      BY <3>1, <3>2, <3>3
    <3>5. QED
      BY <2>1, <3>1, <3>4 DEF Total, f
  <2>3. col = one
    BY <2>2, <1>6
  <2>4. came[h] = SumFunctionOnSet(col, Channel)
    BY DEF ColumnSums
  <2>5. AllReceived(Hourly(h)) = SumFunctionOnSet(one, Channel)
    BY DEF AllReceived, TotalOf, SumFunction
  <2>6. AllReceived(Hourly(h)) \in Nat
    BY <1>1, Received
  <2>7. told[h] <= AllReceived(Hourly(h))
    <3>1. CASE HasRow(Hourly(h), All)
      <4> DEFINE k == Key(Hourly(h), All)
      <4>1. k \in DOMAIN table /\ k[1] = "hourly" /\ k[2] = h /\ k[3] = All
        BY <3>1 DEF HasRow, Key, Hourly, Window
      <4>2. WholeOf(k) = Hourly(h)
        BY <4>1 DEF WholeOf, Hourly, Size
      <4>3. Within(table[k], All, Hourly(h))
        BY <4>1, <4>2 DEF AnalyticsInv
      <4>4. told[h] = table[k].total
        BY <2>1, <3>1 DEF Told
      <4>5. QED
        BY <4>3, <4>4 DEF Within
    <3>2. CASE ~ HasRow(Hourly(h), All)
      BY <2>1, <2>6, <3>2 DEF Told
    <3>3. QED
      BY <3>1, <3>2
  <2> HIDE DEF col, one, came, told, m
  <2>8. QED
    BY <1>4, <2>1, <2>3, <2>4, <2>5, <2>6, <2>7
<1>8. SumFunctionOnSet(told, H) <= SumFunctionOnSet(came, H)
  <2>1. Counts(told, H) /\ Counts(came, H)
    BY <1>7 DEF Counts
  <2> HIDE DEF told, came, H
  <2>2. QED
    BY <1>3, <1>7, <2>1, SumGrows
<1>9. SumFunctionOnSet(told, H) = SumFunctionOnSet(told, D)
  <2>1. Counts(told, D) /\ H \subseteq D
    BY <1>2, <1>4 DEF Counts
  <2> HIDE DEF told, H, D
  <2>2. QED
    BY <1>3, <1>5, <2>1, SumSkipsZeros
<1>10. SumFunctionOnSet(RowSums(m, Channel, H), Channel) = SumFunctionOnSet(came, H)
  <2> HIDE DEF m, H
  <2>1. QED
    BY <1>3, <1>6, SumByRowsOrColumns
<1>11. RowSums(m, Channel, H) = [c \in Channel |-> Total(receipts[c], Today)]
  <2> SUFFICES ASSUME NEW c \in Channel
               PROVE  SumFunctionOnSet([h \in H |-> m[<<c, h>>]], H) = Total(receipts[c], Today)
    BY DEF RowSums
  <2> DEFINE f == [h \in H |-> m[<<c, h>>]]
             g == receipts[c]
  <2>1. Counts(f, H) /\ \A h \in H : f[h] = g[h]
    BY <1>6 DEF Counts
  <2> HIDE DEF f, g
  <2>2. SumFunctionOnSet(f, H) = SumFunctionOnSet(g, H)
    <3> HIDE DEF H
    <3>1. QED
      BY <1>3, <2>1, SumAgrees
  <2>3. QED
    BY <2>2 DEF Total, f, g
<1>12. TotalOf(receipts, Channel, Today) = SumFunctionOnSet(came, H)
  <2> HIDE DEF m, came, H
  <2>1. QED
    BY <1>10, <1>11 DEF TotalOf, SumFunction
<1>13. QED
  <2> HIDE DEF told, came
  <2>1. QED
    BY <1>4, <1>8, <1>9, <1>12

LEMMA NeverFollows == AnalyticsInv => NeverOvercounts
<1> SUFFICES ASSUME AnalyticsInv PROVE NeverOvercounts
  OBVIOUS
<1>1. ASSUME NEW k \in DOMAIN table, NEW w, w = WholeOf(k), NEW C, C = IF k[3] = All THEN Channel ELSE {k[3]}
      PROVE  table[k].total <= TotalOf(receipts, C, w) /\ table[k].suppressed <= TotalOf(suppressions, C, w)
  <2>1. k[3] \in Channel \cup {All} /\ Within(table[k], k[3], w) /\ AnalyticsTyped
    BY <1>1 DEF AnalyticsInv, AnalyticsTyped, TableKey
  <2>2. CASE k[3] = All
    BY <1>1, <2>1, <2>2 DEF Within, AllReceived, AllSuppressed
  <2>3. CASE k[3] # All
    <3>1. k[3] \in Channel /\ C = {k[3]}
      BY <1>1, <2>1, <2>3
    <3>2. Total(receipts[k[3]], w) \in Nat /\ Total(suppressions[k[3]], w) \in Nat
      BY <2>1, <3>1, Received
    <3>3. TotalOf(receipts, C, w) = Total(receipts[k[3]], w) /\ TotalOf(suppressions, C, w) = Total(suppressions[k[3]], w)
      BY <3>1, <3>2, SumOfOne
    <3>4. QED
      BY <2>1, <2>3, <3>3 DEF Within
  <2>4. QED
    BY <2>2, <2>3
<1>2. \A k \in DOMAIN table :
        LET w == Window(k[1], k[2], k[2] + (IF k[1] = "hourly" THEN 1 ELSE DayLength))
            C == IF k[3] = All THEN Channel ELSE {k[3]}
        IN table[k].total <= TotalOf(receipts, C, w) /\ table[k].suppressed <= TotalOf(suppressions, C, w)
  BY <1>1 DEF WholeOf, Size
<1>3. QED
  BY <1>2, TodayFollows DEF NeverOvercounts

\* Where every hour of today adds up, so does the day.
LEMMA SummaryFollows == AnalyticsInv => SummaryAddsUp
<1> DEFINE D == {h \in Hour : DayStart(hour) <= h}
           m == [p \in Channel \X D |-> Told(Hourly(p[2]), p[1])]
           told == [h \in D |-> Told(Hourly(h), All)]
           sums == [c \in Channel |-> SumRows(c)]
           K == {k[3] : k \in DOMAIN table} \ {All}
<1> SUFFICES ASSUME AnalyticsInv, \A j \in Job : job[j] = NoJob, \A k \in dirty : k[1] = "daily" \/ k[2] < DayStart(hour)
             PROVE  TodayTotal = SumFunction(Breakdown)
  BY DEF SummaryAddsUp
<1>1. hour \in Nat /\ Hour \subseteq Nat /\ DayStart(hour) \in Nat
  BY DayFacts DEF AnalyticsInv, AnalyticsTyped, Hour
<1>2. IsFiniteSet(D) /\ IsFiniteSet(Channel)
  BY HoursFinite, FS_Subset, AnalyticsAssumption
<1>3. TodayTotal = SumFunctionOnSet(told, D)
  BY SumOfToday DEF TodayTotal
<1>4. \A c \in Channel, h \in D : m[<<c, h>>] = Told(Hourly(h), c) /\ m[<<c, h>>] \in Nat
  BY SumOfToday
<1>5. \A h \in D : Adds(Hourly(h))
  <2> TAKE h \in D
  <2>1. Key(Hourly(h), All)[1] = "hourly" /\ Key(Hourly(h), All)[2] = h
    BY DEF Key, Hourly, Window
  <2>2. Key(Hourly(h), All) \notin dirty
    <3>1. h \in Nat /\ DayStart(hour) <= h
      BY <1>1
    <3>2. ~ (h < DayStart(hour))
      BY <1>1, <3>1
    <3>3. QED
      BY <2>1, <3>2
  <2>3. ~ UnderWay(Hourly(h))
    BY DEF UnderWay, NoJob
  <2>4. QED
    BY <2>2, <2>3 DEF AnalyticsInv
<1>6. told = ColumnSums(m, Channel, D)
  <2> SUFFICES ASSUME NEW h \in D
               PROVE  Told(Hourly(h), All) = SumFunctionOnSet([c \in Channel |-> m[<<c, h>>]], Channel)
    BY DEF ColumnSums
  <2>1. [c \in Channel |-> m[<<c, h>>]] = [c \in Channel |-> Told(Hourly(h), c)]
    BY <1>4
  <2>2. QED
    BY <1>5, <2>1 DEF Adds
<1>7. sums = RowSums(m, Channel, D)
  <2> SUFFICES ASSUME NEW c \in Channel
               PROVE  SumRows(c) = SumFunctionOnSet([h \in D |-> m[<<c, h>>]], D)
    BY DEF RowSums
  <2>1. [h \in D |-> m[<<c, h>>]] = [h \in D |-> Told(Hourly(h), c)]
    BY <1>4
  <2>2. SumRows(c) = SumFunctionOnSet([h \in D |-> Told(Hourly(h), c)], D)
    BY SumOfToday
  <2>3. QED
    BY <2>1, <2>2
<1>8. TodayTotal = SumFunctionOnSet(sums, Channel)
  <2> HIDE DEF m, told, sums, D
  <2>1. SumFunctionOnSet(RowSums(m, Channel, D), Channel) = SumFunctionOnSet(ColumnSums(m, Channel, D), D)
    BY <1>2, <1>4, SumByRowsOrColumns
  <2>2. QED
    BY <1>3, <1>6, <1>7, <2>1
<1>9. K \subseteq Channel
  BY DEF AnalyticsInv, AnalyticsTyped, TableKey
<1>10. \A c \in Channel : sums[c] \in Nat /\ (c \notin K => sums[c] = 0)
  <2> TAKE c \in Channel
  <2> DEFINE row == [h \in D |-> Told(Hourly(h), c)]
  <2>1. sums[c] = SumFunctionOnSet(row, D) /\ \A h \in D : row[h] \in Nat
    BY SumOfToday
  <2>2. Counts(row, D)
    BY <2>1 DEF Counts
  <2>3. SumFunctionOnSet(row, D) \in Nat
    <3> HIDE DEF row, D
    <3>1. QED
      BY <1>2, <2>2, SumIsCount
  <2>4. ASSUME c \notin K PROVE SumFunctionOnSet(row, D) = 0
    <3>1. \A h \in D : Key(Hourly(h), c)[3] = c /\ c # All
      BY AnalyticsAssumption DEF Key
    <3>2. \A h \in D : ~ HasRow(Hourly(h), c)
      BY <2>4, <3>1 DEF HasRow
    <3>3. \A h \in D : row[h] = 0
      BY <3>2 DEF Told
    <3> DEFINE none == {}
    <3>4. none \subseteq D /\ \A h \in D \ none : row[h] = 0
      BY <3>3
    <3>5. SumFunctionOnSet(row, none) = 0
      <4> HIDE DEF row
      <4>1. QED
        BY SumOfNone
    <3> HIDE DEF row, D, none
    <3>6. SumFunctionOnSet(row, none) = SumFunctionOnSet(row, D)
      BY <1>2, <2>2, <3>4, SumSkipsZeros
    <3>7. QED
      BY <3>5, <3>6
  <2> HIDE DEF row, sums
  <2>5. QED
    BY <2>1, <2>3, <2>4
<1>11. Counts(sums, Channel) /\ Counts(Breakdown, K) /\ \A c \in K : Breakdown[c] = sums[c]
  <2>1. \A c \in K : Breakdown[c] = SumRows(c) /\ sums[c] = SumRows(c)
    BY <1>9 DEF Breakdown
  <2> HIDE DEF K, sums
  <2>2. QED
    BY <1>9, <1>10, <2>1 DEF Counts
<1>12. SumFunction(Breakdown) = SumFunctionOnSet(Breakdown, K)
  BY DEF SumFunction, Breakdown
<1>13. SumFunctionOnSet(Breakdown, K) = SumFunctionOnSet(sums, K)
  <2>1. IsFiniteSet(K)
    BY <1>2, <1>9, FS_Subset
  <2> HIDE DEF sums, K
  <2>2. QED
    BY <1>11, <2>1, SumAgrees
<1>14. SumFunctionOnSet(sums, K) = SumFunctionOnSet(sums, Channel)
  <2> HIDE DEF sums, K
  <2>1. QED
    BY <1>2, <1>9, <1>10, <1>11, SumSkipsZeros
<1>15. QED
  <2> HIDE DEF sums, K, told
  <2>1. QED
    BY <1>8, <1>12, <1>13, <1>14

-----------------------------------------------------------------------------
(***************************************************************************)
(* The queries.  What a client has been told covers what was stored when   *)
(* it asked: an event missed by the pages so far has more newer events     *)
(* than they show, and a trace has the rows of every query that is done.   *)
(***************************************************************************)
TableRow == [id : Nat, source : Source, at : Nat, notification : Notification, correlation : Correlation \cup {"none"}]
RowsStored == IsFiniteSet(rows) /\ rows \subseteq TableRow /\ now \in Nat /\ \A r \in rows : r.at <= now

Own(r) == \A x \in Events \ {r} : x.at # r.at
Newer(r, n) == {x \in Matching(n) : x.at > r.at}
Filter == Notification \cup {"any"}

Listing ==
  /\ reader.pc = "list" =>
       /\ reader = [pc |-> "list", filter |-> reader.filter, page |-> reader.page, atStart |-> reader.atStart, got |-> reader.got]
       /\ reader.filter \in Filter /\ reader.page \in Nat \ {0} /\ reader.atStart \subseteq Matching(reader.filter)
       /\ \A r \in reader.atStart :
            Own(r) => r \in reader.got \/ (reader.page - 1) * PageSize <= Cardinality(Newer(r, reader.filter))
  /\ reader.pc = "listed" => reader.atStart \subseteq rows
  /\ PagesSkipNothing

JoinedRows(R, n) == Cardinality(Joined({r \in R : r.source = "audit_event" /\ (n = "any" \/ r.notification = n)},
                                   {r \in R : r.source = "delivery_receipt"}))
Exporting ==
  /\ reader.pc = "count" => reader = [pc |-> "count", filter |-> reader.filter] /\ reader.filter \in Filter
  /\ reader.pc = "select" =>
       /\ reader = [pc |-> "select", filter |-> reader.filter, atStart |-> reader.atStart, truncated |-> reader.truncated]
       /\ reader.filter \in Filter /\ reader.atStart \subseteq rows
       /\ reader.truncated = (JoinedRows(reader.atStart, reader.filter) > exportMaxRows)
  /\ TruncationIsTold

Tracing ==
  /\ reader.pc = "trace" =>
       /\ reader = [pc |-> "trace", notifications |-> reader.notifications, todo |-> reader.todo, atStart |-> reader.atStart, got |-> reader.got]
       /\ reader.notifications \subseteq Notification /\ reader.todo \subseteq reader.notifications \X Source
       /\ reader.atStart \subseteq rows /\ reader.got \subseteq rows
       /\ \A r \in reader.atStart :
            r.notification \in reader.notifications => r \in reader.got \/ <<r.notification, r.source>> \in reader.todo
  /\ TraceIsWhole

Asking ==
  /\ reader.pc \in {"idle", "list", "listed", "count", "select", "exported", "found", "AUD-007", "trace", "traced", "AUD-008"}
  /\ reader.pc = "idle" => reader = Unasked

QueriesInv == RowsStored /\ Asking /\ Listing /\ Exporting /\ SearchPagesExist /\ Tracing

LEMMA QueriesStart == QueriesInit => QueriesInv
<1> SUFFICES ASSUME QueriesInit PROVE QueriesInv
  OBVIOUS
<1>1. RowsStored
  BY FS_EmptySet DEF QueriesInit, RowsStored
<1>2. reader.pc = "idle" /\ reader = Unasked
  BY DEF QueriesInit, Unasked
<1>3. QED
  BY <1>1, <1>2 DEF QueriesInv, Asking, Listing, Exporting, SearchPagesExist, Tracing, PagesSkipNothing, TruncationIsTold, TraceIsWhole

-----------------------------------------------------------------------------
\* Pages.

\* An order of a finite set has each of its elements at one place.
LEMMA OrderFacts ==
  ASSUME NEW S, IsFiniteSet(S), NEW q \in SetToSeqs(S)
  PROVE  /\ Cardinality(S) \in Nat /\ q \in [1..Cardinality(S) -> S] /\ Len(q) = Cardinality(S)
         /\ \A i, j \in 1..Cardinality(S) : i # j => q[i] # q[j]
         /\ \A x \in S : \E i \in 1..Cardinality(S) : q[i] = x
         /\ ToSet(q) = S
<1> DEFINE N == Cardinality(S)
<1>1. N \in Nat
  BY FS_CardinalityType
<1>2. q \in [1..N -> S] /\ \A i, j \in 1..N : i # j => q[i] # q[j]
  BY DEF SetToSeqs
<1>3. Len(q) = N
  BY <1>1, <1>2
<1>4. q \in Injection(1..N, S)
  BY <1>2 DEF Injection, IsInjective
<1>5. IsFiniteSet(1..N) /\ Cardinality(1..N) = N
  BY <1>1, FS_Interval
<1>6. q \in Surjection(1..N, S)
  <2> DEFINE D == 1..N
  <2> HIDE DEF D
  <2>1. q \in Injection(D, S) /\ Cardinality(D) = Cardinality(S)
    BY <1>4, <1>5 DEF D
  <2>2. q \in Surjection(D, S)
    BY <2>1, FS_Injection
  <2>3. QED
    BY <2>2 DEF D
<1>7. \A x \in S : \E i \in 1..N : q[i] = x
  BY <1>6 DEF Surjection
<1>8. ToSet(q) = S
  BY <1>2, <1>7 DEF ToSet
<1>9. QED
  BY <1>1, <1>2, <1>3, <1>7, <1>8

\* The rows of a page stand between the first and the last of its places.
LEMMA PageFacts ==
  ASSUME NEW S, NEW q \in Seq(S), NEW page \in Nat \ {0}, PageSize \in Nat \ {0}
  PROVE  /\ (page - 1) * PageSize \in Nat /\ page * PageSize = (page - 1) * PageSize + PageSize
         /\ \A i \in 1..Len(q) : (page - 1) * PageSize < i /\ i <= page * PageSize => q[i] \in PageOf(q, page)
         /\ PageOf(q, page) # {} <=> (page - 1) * PageSize < Len(q)
         /\ PageOf(q, page) \subseteq S
<1> DEFINE before == (page - 1) * PageSize
           last == IF page * PageSize < Len(q) THEN page * PageSize ELSE Len(q)
           p == SubSeq(q, before + 1, last)
<1>1. before \in Nat /\ page * PageSize = before + PageSize
  <2>1. page - 1 \in Nat
    OBVIOUS
  <2>2. (page - 1) * PageSize \in Nat
    BY <2>1
  <2>3. page * PageSize = (page - 1) * PageSize + PageSize
    OBVIOUS
  <2>4. QED
    BY <2>2, <2>3
<1>2. PageOf(q, page) = ToSet(p)
  BY DEF PageOf
<1>3. Len(q) \in Nat /\ last \in Nat /\ last <= Len(q) /\ (last <= before <=> Len(q) <= before)
  BY <1>1
<1> HIDE DEF before, last
<1>4. ASSUME before < last
      PROVE  /\ Len(p) = last - before /\ DOMAIN p = 1..(last - before)
             /\ \A i \in 1..(last - before) : p[i] = q[before + i]
  BY <1>1, <1>3, <1>4
<1>5. ASSUME last <= before PROVE DOMAIN p = {}
  BY <1>1, <1>3, <1>5
<1>6. ASSUME NEW i \in 1..Len(q), before < i, i <= page * PageSize PROVE q[i] \in ToSet(p)
  <2>1. before < last /\ i <= last
    BY <1>1, <1>3, <1>6 DEF last
  <2>2. i - before \in 1..(last - before) /\ before + (i - before) = i
    BY <1>1, <1>3, <1>6, <2>1
  <2>3. p[i - before] = q[i] /\ i - before \in DOMAIN p
    BY <1>4, <2>1, <2>2
  <2> HIDE DEF p
  <2>4. QED
    BY <2>3 DEF ToSet
<1>7. ASSUME before < last PROVE ToSet(p) # {} /\ ToSet(p) \subseteq S
  <2>1. 1 \in DOMAIN p
    BY <1>1, <1>3, <1>4, <1>7
  <2>2. \A i \in DOMAIN p : p[i] \in S
    <3> TAKE i \in DOMAIN p
    <3>1. i \in 1..(last - before)
      BY <1>4, <1>7
    <3>2. p[i] = q[before + i]
      BY <1>4, <1>7, <3>1
    <3>3. before + i \in 1..Len(q)
      BY <1>1, <1>3, <1>7, <3>1
    <3>4. q[before + i] \in S
      BY <3>3
    <3>5. QED
      BY <3>2, <3>4
  <2> HIDE DEF p
  <2>3. QED
    BY <2>1, <2>2 DEF ToSet
<1>8. ASSUME last <= before PROVE ToSet(p) = {}
  BY <1>5, <1>8 DEF ToSet
<1>9. PageOf(q, page) # {} <=> before < last
  BY <1>1, <1>2, <1>3, <1>7, <1>8
<1>10. PageOf(q, page) \subseteq S
  BY <1>1, <1>2, <1>3, <1>7, <1>8
<1>11. before < last <=> before < Len(q)
  BY <1>1, <1>3
<1>12. \A i \in 1..Len(q) : before < i /\ i <= page * PageSize => q[i] \in PageOf(q, page)
  BY <1>2, <1>6
<1>13. QED
  <2> HIDE DEF p
  <2>1. QED
    BY <1>1, <1>9, <1>10, <1>11, <1>12 DEF before

\* What a page misses of what was there stands behind it: before an event whose time is
\* its own there are the newer ones and no others.
LEMMA PlaceIsNewer ==
  ASSUME NEW n \in Filter, IsFiniteSet(Matching(n)), rows \subseteq TableRow, NEW q \in Newest(Matching(n)),
         NEW i \in 1..Cardinality(Matching(n)), Own(q[i])
  PROVE  Cardinality(Newer(q[i], n)) = i - 1
<1> DEFINE M == Matching(n)
           N == Cardinality(M)
           A == Newer(q[i], n)
           D == 1..(i - 1)
           f == [j \in D |-> q[j]]
<1>1. q \in SetToSeqs(M) /\ \A j, k \in DOMAIN q : j < k => q[j].at >= q[k].at
  BY DEF Newest
<1>2. /\ N \in Nat /\ q \in [1..N -> M] /\ \A j, k \in 1..N : j # k => q[j] # q[k]
      /\ \A x \in M : \E j \in 1..N : q[j] = x
  <2> HIDE DEF M, N
  <2>1. QED
    BY <1>1, OrderFacts DEF M, N
<1>3. \A x \in M : x \in Events /\ x.at \in Nat
  BY DEF Matching, Events, TableRow
<1>4. q[i] \in M /\ i \in 1..N
  BY <1>2
<1>5. ASSUME NEW j \in D PROVE q[j] \in A
  <2>1. j \in 1..N /\ j < i /\ q[j] \in M /\ q[j] # q[i]
    BY <1>2
  <2>2. q[j].at >= q[i].at
    BY <1>1, <1>2, <2>1
  <2>3. q[j].at # q[i].at
    BY <1>3, <2>1 DEF Own
  <2>4. q[j].at > q[i].at
    BY <1>3, <1>4, <2>1, <2>2, <2>3
  <2>5. QED
    BY <2>1, <2>4 DEF Newer
<1>6. ASSUME NEW x \in A PROVE \E j \in D : q[j] = x
  <2>1. x \in M /\ x.at > q[i].at
    BY DEF Newer
  <2>2. PICK j \in 1..N : q[j] = x
    BY <1>2, <2>1
  <2>3. j # i
    BY <1>3, <1>4, <2>1, <2>2
  <2>4. ~ i < j
    <3>1. i < j => q[i].at >= x.at
      BY <1>1, <1>2, <2>2
    <3>2. QED
      BY <1>3, <1>4, <2>1, <3>1
  <2>5. j \in D
    BY <1>2, <2>3, <2>4
  <2>6. QED
    BY <2>2, <2>5
<1>7. f \in Bijection(D, A)
  <2>1. f \in [D -> A]
    BY <1>5
  <2>2. \A j, k \in D : f[j] = f[k] => j = k
    BY <1>2
  <2>3. \A x \in A : \E j \in D : f[j] = x
    BY <1>6
  <2> HIDE DEF f, A, D
  <2>4. QED
    BY <2>1, <2>2, <2>3 DEF Bijection, Injection, IsInjective, Surjection
<1>8. IsFiniteSet(D) /\ Cardinality(D) = i - 1
  <2>1. 1 \in Int /\ i - 1 \in Int /\ (1 > i - 1 => i = 1)
    BY <1>2
  <2>2. IsFiniteSet(1..(i - 1)) /\ Cardinality(1..(i - 1)) = IF 1 > i - 1 THEN 0 ELSE i - 1 - 1 + 1
    BY <2>1, FS_Interval
  <2>3. (IF 1 > i - 1 THEN 0 ELSE i - 1 - 1 + 1) = i - 1
    BY <1>2, <2>1
  <2>4. QED
    BY <2>2, <2>3
<1>9. ExistsBijection(D, A)
  BY <1>7 DEF ExistsBijection
<1>10. QED
  <2> HIDE DEF D, A
  <2>1. Cardinality(A) = Cardinality(D)
    BY <1>8, <1>9, FS_Bijection
  <2>2. QED
    BY <1>8, <2>1 DEF A

LEMMA MatchingFacts ==
  ASSUME RowsStored, NEW n \in Filter
  PROVE  /\ Matching(n) \subseteq Events /\ Events \subseteq rows /\ IsFiniteSet(Matching(n))
         /\ \A r \in rows : IsFiniteSet(Newer(r, n)) /\ Cardinality(Newer(r, n)) \in Nat
<1>1. Matching(n) \subseteq Events /\ Events \subseteq rows /\ \A r \in rows : Newer(r, n) \subseteq rows
  BY DEF Matching, Events, Newer
<1>2. IsFiniteSet(rows)
  BY DEF RowsStored
<1>3. IsFiniteSet(Matching(n)) /\ \A r \in rows : IsFiniteSet(Newer(r, n))
  BY <1>1, <1>2, FS_Subset
<1>4. QED
  BY <1>1, <1>3, FS_CardinalityType

LEMMA ListStep ==
  ASSUME QueriesInv, NEW n \in Filter, List(n)
  PROVE  QueriesInv'
<1> USE DEF List, Unasked
<1>1. rows' = rows /\ now' = now /\ reader.pc = "idle" /\ reader'.pc = "list"
  OBVIOUS
<1>2. RowsStored'
  BY <1>1 DEF QueriesInv, RowsStored
<1>3. Listing'
  <2>1. Matching(n)' = Matching(n)
    BY <1>1 DEF Matching, Events
  <2>2. \A r \in Matching(n) : Cardinality(Newer(r, n)') \in Nat
    <3>1. \A r \in rows : Cardinality(Newer(r, n)) \in Nat
      BY MatchingFacts DEF QueriesInv
    <3>2. \A r : Newer(r, n)' = Newer(r, n)
      BY <2>1 DEF Newer
    <3>3. Matching(n) \subseteq rows
      BY MatchingFacts DEF QueriesInv
    <3>4. QED
      BY <3>1, <3>2, <3>3
  <2>3. (1 - 1) * PageSize = 0
    BY QueriesAssumption
  <2>4. \A r \in Matching(n) : (1 - 1) * PageSize <= Cardinality(Newer(r, n)')
    BY <2>2, <2>3
  <2>5. QED
    BY <1>1, <2>1, <2>4 DEF Listing, PagesSkipNothing
<1>4. QED
  BY <1>1, <1>2, <1>3 DEF QueriesInv, Asking, Exporting, Tracing, SearchPagesExist, TruncationIsTold, TraceIsWhole

LEMMA TurnPageStep ==
  ASSUME QueriesInv, TurnPage
  PROVE  QueriesInv'
<1> PICK n, page : n = reader.filter /\ page = reader.page
  OBVIOUS
<1>1. reader.pc = "list" /\ rows' = rows /\ now' = now
  BY DEF TurnPage
<1>2. PICK q \in Newest(Matching(n)) :
        reader' = [reader EXCEPT !.got = @ \cup PageOf(q, page), !.page = @ + 1,
                                 !.pc = IF PageOf(q, page) = {} THEN "listed" ELSE "list"]
  BY DEF TurnPage
<1>3. /\ reader = [pc |-> "list", filter |-> n, page |-> page, atStart |-> reader.atStart, got |-> reader.got]
      /\ n \in Filter /\ page \in Nat \ {0} /\ reader.atStart \subseteq Matching(n)
      /\ \A r \in reader.atStart : Own(r) => r \in reader.got \/ (page - 1) * PageSize <= Cardinality(Newer(r, n))
  BY <1>1 DEF QueriesInv, Listing
<1>4. reader' = [pc |-> IF PageOf(q, page) = {} THEN "listed" ELSE "list", filter |-> n, page |-> page + 1,
                 atStart |-> reader.atStart, got |-> reader.got \cup PageOf(q, page)]
  BY <1>2, <1>3
<1>5. RowsStored /\ RowsStored'
  BY <1>1 DEF QueriesInv, RowsStored
<1>6. Matching(n)' = Matching(n) /\ Events' = Events /\ \A r : Newer(r, n)' = Newer(r, n) /\ Own(r)' = Own(r)
  <2>1. Events' = Events /\ Matching(n)' = Matching(n)
    BY <1>1 DEF Matching, Events
  <2>2. \A r : Newer(r, n)' = Newer(r, n)
    BY <2>1 DEF Newer
  <2>3. \A r : Own(r)' = Own(r)
    BY <2>1 DEF Own
  <2>4. QED
    BY <2>1, <2>2, <2>3
<1>7. Matching(n) \subseteq rows /\ IsFiniteSet(Matching(n))
  BY <1>3, <1>5, MatchingFacts
<1> DEFINE N == Cardinality(Matching(n))
<1>8. N \in Nat /\ Len(q) = N /\ q \in Seq(Matching(n)) /\ \A x \in Matching(n) : \E i \in 1..N : q[i] = x
  <2>1. q \in SetToSeqs(Matching(n))
    BY DEF Newest
  <2>2. QED
    BY <1>7, <2>1, OrderFacts
<1>9. /\ (page - 1) * PageSize \in Nat /\ page * PageSize = (page - 1) * PageSize + PageSize
      /\ \A i \in 1..N : (page - 1) * PageSize < i /\ i <= page * PageSize => q[i] \in PageOf(q, page)
      /\ PageOf(q, page) # {} <=> (page - 1) * PageSize < N
  BY <1>3, <1>8, PageFacts, QueriesAssumption
<1>10. ASSUME NEW r \in reader.atStart, Own(r), r \notin reader.got
       PROVE  r \in PageOf(q, page) \/ (PageOf(q, page) # {} /\ page * PageSize <= Cardinality(Newer(r, n)))
  <2>1. PICK i \in 1..N : q[i] = r
    BY <1>3, <1>8
  <2>2. Cardinality(Newer(r, n)) = i - 1
    BY <1>3, <1>5, <1>7, <1>10, <2>1, PlaceIsNewer DEF RowsStored
  <2>3. (page - 1) * PageSize < i
    BY <1>3, <1>9, <1>10, <2>2
  <2>4. CASE i <= page * PageSize
    BY <1>9, <2>1, <2>3, <2>4
  <2>5. CASE ~ i <= page * PageSize
    <3>1. page * PageSize \in Nat
      BY <1>9, QueriesAssumption
    <3>2. page * PageSize <= i - 1
      BY <2>5, <3>1
    <3>3. QED
      BY <1>8, <1>9, <2>2, <2>3, <3>2
  <2>6. QED
    BY <2>4, <2>5
<1>11. page + 1 \in Nat \ {0} /\ page + 1 - 1 = page
  BY <1>3
<1>12. Listing'
  <2>1. CASE PageOf(q, page) # {}
    BY <1>3, <1>4, <1>6, <1>10, <1>11, <2>1 DEF Listing, PagesSkipNothing
  <2>2. CASE PageOf(q, page) = {}
    <3>1. \A r \in reader.atStart : Own(r) => r \in reader'.got
      BY <1>4, <1>10, <2>2
    <3>2. reader'.pc = "listed" /\ reader'.atStart = reader.atStart /\ reader.atStart \subseteq rows
      BY <1>3, <1>4, <1>7, <2>2
    <3>3. PagesSkipNothing'
      BY <1>6, <3>1, <3>2 DEF PagesSkipNothing, Own
    <3>4. QED
      BY <1>1, <3>2, <3>3 DEF Listing
  <2>3. QED
    BY <2>1, <2>2
<1>13. reader'.pc \in {"list", "listed"}
  BY <1>4
<1>14. QED
  BY <1>5, <1>12, <1>13 DEF QueriesInv, Asking, Exporting, Tracing, SearchPagesExist, TruncationIsTold, TraceIsWhole

LEMMA InsertStep ==
  ASSUME QueriesInv, Insert
  PROVE  QueriesInv'
<1>1. PICK t \in {now, now + 1}, s \in Source, n \in Notification, c \in Correlation \cup {"none"} :
        /\ now' = t
        /\ rows' = rows \cup {[id |-> Cardinality(rows) + 1, source |-> s, at |-> t, notification |-> n, correlation |-> c]}
  BY DEF Insert
<1> DEFINE new == [id |-> Cardinality(rows) + 1, source |-> s, at |-> t, notification |-> n, correlation |-> c]
<1>2. reader' = reader
  BY DEF Insert
<1>3. RowsStored
  BY DEF QueriesInv
<1>4. t \in Nat /\ now <= t /\ Cardinality(rows) \in Nat
  BY <1>3, FS_CardinalityType DEF RowsStored
<1>5. new \in TableRow /\ new.at = t
  BY <1>4 DEF TableRow
<1> HIDE DEF new
<1>6. rows' = rows \cup {new} /\ now' = t
  BY <1>1 DEF new
<1>7. \A r \in rows : r.at \in Nat /\ r.at <= now
  BY <1>3 DEF RowsStored, TableRow
<1>8. RowsStored'
  <2>1. IsFiniteSet(rows \cup {new})
    BY <1>3, FS_AddElement DEF RowsStored
  <2>2. \A r \in rows' : r.at <= t
    BY <1>3, <1>4, <1>5, <1>6, <1>7 DEF RowsStored
  <2>3. QED
    BY <1>3, <1>4, <1>5, <1>6, <2>1, <2>2 DEF RowsStored
<1>9. Events \subseteq Events' /\ \A k : Matching(k) \subseteq Matching(k)'
  BY <1>6 DEF Events, Matching
<1>10. \A r : Own(r)' => Own(r)
  BY <1>9 DEF Own
<1>11. ASSUME NEW r \in rows, NEW k \in Filter
       PROVE  /\ Cardinality(Newer(r, k)) \in Nat /\ Cardinality(Newer(r, k)') \in Nat
              /\ Cardinality(Newer(r, k)) <= Cardinality(Newer(r, k)')
  <2>1. Newer(r, k) \subseteq Newer(r, k)'
    BY <1>9 DEF Newer
  <2>2. IsFiniteSet(Newer(r, k)) /\ Cardinality(Newer(r, k)) \in Nat
    BY <1>3, MatchingFacts
  <2>3. Newer(r, k)' \subseteq rows' /\ IsFiniteSet(rows')
    BY <1>8 DEF Newer, Matching, Events, RowsStored
  <2>4. IsFiniteSet(Newer(r, k)')
    BY <2>3, FS_Subset
  <2>5. QED
    BY <2>1, <2>2, <2>4, FS_Subset, FS_CardinalityType
<1>12. Listing'
  <2>1. PagesSkipNothing'
    BY <1>2, <1>10 DEF QueriesInv, Listing, PagesSkipNothing, Own
  <2>2. reader.pc = "listed" => reader.atStart \subseteq rows'
    BY <1>6 DEF QueriesInv, Listing
  <2>3. ASSUME reader.pc = "list"
        PROVE  /\ reader.atStart \subseteq Matching(reader.filter)'
               /\ \A r \in reader.atStart :
                    Own(r)' => r \in reader.got \/ (reader.page - 1) * PageSize <= Cardinality(Newer(r, reader.filter)')
    <3>1. /\ reader.filter \in Filter /\ reader.page \in Nat \ {0} /\ reader.atStart \subseteq Matching(reader.filter)
          /\ \A r \in reader.atStart :
               Own(r) => r \in reader.got \/ (reader.page - 1) * PageSize <= Cardinality(Newer(r, reader.filter))
      BY <2>3 DEF QueriesInv, Listing
    <3>2. reader.atStart \subseteq Matching(reader.filter)' /\ reader.atStart \subseteq rows
      <4>1. Matching(reader.filter) \subseteq Matching(reader.filter)'
        BY <1>2, <1>9 DEF Matching, Events
      <4>2. QED
        BY <3>1, <4>1 DEF Matching, Events
    <3>3. (reader.page - 1) * PageSize \in Nat
      <4>1. reader.page - 1 \in Nat /\ PageSize \in Nat
        BY <3>1, QueriesAssumption
      <4>2. QED
        BY <4>1
    <3>4. ASSUME NEW r \in reader.atStart, Own(r)', r \notin reader.got
          PROVE  (reader.page - 1) * PageSize <= Cardinality(Newer(r, reader.filter)')
      <4>1. PICK k : k = reader.filter
        OBVIOUS
      <4>2. (reader.page - 1) * PageSize <= Cardinality(Newer(r, k))
        BY <1>10, <3>1, <3>4, <4>1
      <4>3. /\ Cardinality(Newer(r, k)) \in Nat /\ Cardinality(Newer(r, k)') \in Nat
            /\ Cardinality(Newer(r, k)) <= Cardinality(Newer(r, k)')
        BY <1>11, <3>1, <3>2, <4>1
      <4>4. (reader.page - 1) * PageSize <= Cardinality(Newer(r, k)')
        BY <3>3, <4>2, <4>3
      <4>5. Newer(r, k)' = Newer(r, reader.filter)'
        BY <1>2, <4>1 DEF Newer, Matching
      <4>6. QED
        BY <4>4, <4>5
    <3>5. QED
      BY <3>2, <3>4
  <2>4. QED
    BY <1>2, <2>1, <2>2, <2>3 DEF QueriesInv, Listing
<1>13. Exporting'
  <2>1. rows \subseteq rows'
    BY <1>6
  <2>2. JoinedRows(reader.atStart, reader.filter)' = JoinedRows(reader.atStart, reader.filter)
    BY <1>2 DEF JoinedRows
  <2>3. QED
    BY <1>2, <2>1, <2>2 DEF QueriesInv, Exporting, TruncationIsTold
<1>14. Tracing'
  <2>1. rows \subseteq rows'
    BY <1>6
  <2>2. QED
    BY <1>2, <2>1 DEF QueriesInv, Tracing, TraceIsWhole
<1>15. QED
  BY <1>2, <1>8, <1>12, <1>13, <1>14 DEF QueriesInv, Asking, SearchPagesExist

-----------------------------------------------------------------------------
\* Exports.

\* A receipt replaces the "null" of its event: a join of more rows has no fewer.
LEMMA JoinGrows ==
  ASSUME NEW E, NEW E2, E \subseteq E2, IsFiniteSet(E2), NEW R, NEW R2, R \subseteq R2, IsFiniteSet(R2)
  PROVE  /\ Cardinality(Joined(E, R)) \in Nat /\ Cardinality(Joined(E2, R2)) \in Nat
         /\ Cardinality(Joined(E, R)) <= Cardinality(Joined(E2, R2))
<1> DEFINE J == Joined(E, R)
           J2 == Joined(E2, R2)
           Other(x) == CHOOSE y \in J2 : y[1] = x[1]
           f == [x \in J |-> IF x \in J2 THEN x ELSE Other(x)]
<1>1. IsFiniteSet(J2)
  <2>1. IsFiniteSet(R2 \cup {"null"})
    BY FS_AddElement
  <2>2. IsFiniteSet(E2 \X (R2 \cup {"null"}))
    BY <2>1, FS_Product
  <2>3. J2 \subseteq E2 \X (R2 \cup {"null"})
    BY DEF Joined
  <2>4. QED
    BY <2>2, <2>3, FS_Subset
<1>2. ASSUME NEW x \in J
      PROVE  /\ x = <<x[1], x[2]>> /\ x[1] \in E
             /\ \/ x[2] \in R /\ x[2].notification = x[1].notification
                \/ x[2] = "null" /\ \A r \in R : r.notification # x[1].notification
  BY DEF Joined
<1>3. ASSUME NEW x \in J, x[2] \in R, x[2].notification = x[1].notification PROVE x \in J2
  BY <1>2, <1>3 DEF Joined
<1>4. ASSUME NEW x \in J PROVE f[x] \in J2 /\ f[x][1] = x[1]
  <2>1. CASE x \in J2
    BY <2>1
  <2>2. CASE x \notin J2
    <3>1. x[2] = "null" /\ x = <<x[1], "null">> /\ x[1] \in E2
      BY <1>2, <1>3, <2>2
    <3>2. \E r \in R2 : r.notification = x[1].notification
      BY <2>2, <3>1 DEF Joined
    <3>3. \E y \in J2 : y[1] = x[1]
      <4>1. PICK r \in R2 : r.notification = x[1].notification
        BY <3>2
      <4>2. <<x[1], r>> \in J2 /\ <<x[1], r>>[1] = x[1]
        BY <3>1, <4>1 DEF Joined
      <4>3. QED
        BY <4>2
    <3>4. Other(x) \in J2 /\ Other(x)[1] = x[1]
      <4> HIDE DEF J2
      <4>1. QED
        BY <3>3
    <3>5. QED
      BY <2>2, <3>4
  <2>3. QED
    BY <2>1, <2>2
<1>5. ASSUME NEW x \in J, NEW y \in J, f[x] = f[y] PROVE x = y
  <2>1. x[1] = y[1]
    BY <1>4, <1>5
  <2>2. CASE \A r \in R : r.notification # x[1].notification
    BY <1>2, <2>1, <2>2
  <2>3. CASE \E r \in R : r.notification = x[1].notification
    <3>1. x \in J2 /\ y \in J2
      BY <1>2, <1>3, <2>1, <2>3
    <3>2. f[x] = x /\ f[y] = y
      BY <3>1
    <3>3. QED
      BY <1>5, <3>2
  <2>4. QED
    BY <2>2, <2>3
<1>6. f \in Injection(J, J2)
  <2>1. f \in [J -> J2]
    BY <1>4
  <2> HIDE DEF f, J, J2
  <2>2. QED
    BY <1>5, <2>1 DEF Injection, IsInjective
<1>7. IsFiniteSet(J) /\ Cardinality(J) <= Cardinality(J2)
  <2> HIDE DEF f, J, J2
  <2>1. QED
    BY <1>1, <1>6, FS_Injection
<1>8. QED
  BY <1>1, <1>7, FS_CardinalityType

LEMMA JoinedRowsGrow ==
  ASSUME NEW A, NEW B, A \subseteq B, IsFiniteSet(B), NEW n
  PROVE  JoinedRows(A, n) \in Nat /\ JoinedRows(B, n) \in Nat /\ JoinedRows(A, n) <= JoinedRows(B, n)
<1> DEFINE E(S) == {r \in S : r.source = "audit_event" /\ (n = "any" \/ r.notification = n)}
           R(S) == {r \in S : r.source = "delivery_receipt"}
           e == E(A)
           e2 == E(B)
           d == R(A)
           d2 == R(B)
<1>1. e \subseteq e2 /\ d \subseteq d2 /\ e2 \in SUBSET B /\ d2 \in SUBSET B
  OBVIOUS
<1>2. JoinedRows(A, n) = Cardinality(Joined(e, d)) /\ JoinedRows(B, n) = Cardinality(Joined(e2, d2))
  BY DEF JoinedRows
<1> HIDE DEF e, e2, d, d2
<1>3. IsFiniteSet(e2) /\ IsFiniteSet(d2)
  BY <1>1, FS_Subset
<1>4. QED
  BY <1>1, <1>2, <1>3, JoinGrows

LEMMA AllJoined == \A n : JoinedRows(rows, n) = Cardinality(Joined(Matching(n), Receipts))
<1> TAKE n
<1>1. {r \in rows : r.source = "audit_event" /\ (n = "any" \/ r.notification = n)} = Matching(n)
  BY DEF Matching, Events
<1>2. {r \in rows : r.source = "delivery_receipt"} = Receipts
  BY DEF Receipts
<1>3. QED
  BY <1>1, <1>2 DEF JoinedRows

LEMMA ExportStep ==
  ASSUME QueriesInv, (\E n \in Filter : Export(n)) \/ ExportCount \/ ExportSelect
  PROVE  QueriesInv'
<1>1. rows' = rows /\ now' = now
  BY DEF Export, ExportCount, ExportSelect
<1>2. RowsStored /\ RowsStored'
  BY <1>1 DEF QueriesInv, RowsStored
<1>3. CASE \E n \in Filter : Export(n)
  <2>1. reader'.pc = "count" /\ reader' = [pc |-> "count", filter |-> reader'.filter] /\ reader'.filter \in Filter
    BY <1>3 DEF Export
  <2>2. QED
    BY <1>2, <2>1 DEF QueriesInv, Asking, Listing, Exporting, Tracing, SearchPagesExist, PagesSkipNothing, TruncationIsTold, TraceIsWhole
<1>4. CASE ExportCount
  <2>1. reader.filter \in Filter
    BY <1>4 DEF ExportCount, QueriesInv, Exporting
  <2>2. reader' = [pc |-> "select", filter |-> reader.filter, atStart |-> rows,
                   truncated |-> Cardinality(Joined(Matching(reader.filter), Receipts)) > exportMaxRows]
    BY <1>4 DEF ExportCount
  <2>3. reader'.pc = "select" /\ reader'.filter = reader.filter /\ reader'.atStart = rows
        /\ reader'.truncated = (JoinedRows(rows, reader.filter) > exportMaxRows)
    BY <2>2, AllJoined
  <2>4. JoinedRows(reader.atStart, reader.filter)' = JoinedRows(rows, reader.filter)
    BY <2>3 DEF JoinedRows
  <2>5. reader' = [pc |-> "select", filter |-> reader'.filter, atStart |-> reader'.atStart, truncated |-> reader'.truncated]
    BY <2>2
  <2>6. QED
    BY <1>1, <1>2, <2>1, <2>3, <2>4, <2>5
      DEF QueriesInv, Asking, Listing, Exporting, Tracing, SearchPagesExist, PagesSkipNothing, TruncationIsTold, TraceIsWhole
<1>5. CASE ExportSelect
  <2> DEFINE all == Cardinality(Joined(Matching(reader.filter), Receipts))
  <2>1. /\ reader.filter \in Filter /\ reader.atStart \subseteq rows
        /\ reader.truncated = (JoinedRows(reader.atStart, reader.filter) > exportMaxRows)
    BY <1>5 DEF ExportSelect, QueriesInv, Exporting
  <2>2. /\ reader'.pc = "exported" /\ reader'.truncated = reader.truncated /\ reader'.all = all
        /\ reader'.shown = (IF all > exportMaxRows THEN exportMaxRows ELSE all) /\ reader'.grew = (rows # reader.atStart)
    BY <1>5 DEF ExportSelect
  <2>3. all = JoinedRows(rows, reader.filter)
    BY AllJoined
  <2> HIDE DEF all
  <2>4. JoinedRows(reader.atStart, reader.filter) \in Nat /\ all \in Nat /\ JoinedRows(reader.atStart, reader.filter) <= all
    BY <1>2, <2>1, <2>3, JoinedRowsGrow DEF RowsStored
  <2>5. TruncationIsTold'
    <3>1. exportMaxRows \in Nat
      BY QueriesAssumption
    <3>2. reader'.truncated => all > exportMaxRows
      <4>1. JoinedRows(reader.atStart, reader.filter) > exportMaxRows => all > exportMaxRows
        BY <2>4, <3>1
      <4>2. QED
        BY <2>1, <2>2, <4>1
    <3>3. reader'.shown < reader'.all => all > exportMaxRows
      BY <2>2, <2>4
    <3>4. all > exportMaxRows /\ rows = reader.atStart => reader'.truncated
      BY <2>1, <2>2, <2>3
    <3>5. QED
      BY <2>2, <3>2, <3>3, <3>4 DEF TruncationIsTold
  <2>6. QED
    BY <1>2, <2>2, <2>5 DEF QueriesInv, Asking, Listing, Exporting, Tracing, SearchPagesExist, PagesSkipNothing, TraceIsWhole
<1>6. QED
  BY <1>3, <1>4, <1>5

-----------------------------------------------------------------------------
\* Search and traces.

\* A page within the number of pages announced is one that begins before the last row.
LEMMA PagesAnnounced ==
  ASSUME NEW total \in Nat, NEW page \in Nat \ {0}, PageSize \in Nat \ {0}
  PROVE  (page - 1) * PageSize < total <=> page <= (total + PageSize - 1) \div PageSize
<1> DEFINE q == (total + PageSize - 1) \div PageSize
           m == (total + PageSize - 1) % PageSize
<1>1. q \in Nat /\ m \in 0..(PageSize - 1) /\ total + PageSize - 1 = PageSize * q + m
  BY SMT
<1> HIDE DEF q, m
<1>2. CASE page <= q
  <2>1. PICK k \in Nat : q = page + k
    <3>1. q - page \in Nat /\ q = page + (q - page)
      BY <1>1, <1>2
    <3>2. QED
      BY <3>1
  <2>2. PageSize * q = page * PageSize + k * PageSize /\ k * PageSize \in Nat /\ page * PageSize \in Nat
    BY <2>1
  <2>3. (page - 1) * PageSize = page * PageSize - PageSize
    OBVIOUS
  <2>4. page * PageSize <= total + PageSize - 1
    BY <1>1, <2>2
  <2>5. (page - 1) * PageSize < total
    BY <2>2, <2>3, <2>4
  <2>6. QED
    BY <1>2, <2>5 DEF q
<1>3. CASE q < page
  <2>1. PICK k \in Nat : page - 1 = q + k
    <3>1. page - 1 - q \in Nat /\ page - 1 = q + (page - 1 - q)
      BY <1>1, <1>3
    <3>2. QED
      BY <3>1
  <2>2. (page - 1) * PageSize = PageSize * q + k * PageSize /\ k * PageSize \in Nat /\ PageSize * q \in Nat
    BY <1>1, <2>1
  <2>3. total <= PageSize * q
    BY <1>1, <2>2
  <2>4. ~ (page - 1) * PageSize < total
    BY <2>2, <2>3
  <2>5. ~ page <= q
    BY <1>1, <1>3
  <2>6. QED
    BY <2>4, <2>5 DEF q
<1>4. QED
  BY <1>1, <1>2, <1>3

LEMMA SearchStep ==
  ASSUME QueriesInv, NEW n \in Filter, NEW page \in 1 .. 2, Search(n, page)
  PROVE  QueriesInv'
<1> DEFINE found == Matching(n)
<1>1. rows' = rows /\ now' = now
  BY DEF Search
<1>2. RowsStored /\ RowsStored'
  BY <1>1 DEF QueriesInv, RowsStored
<1>3. PICK q \in Newest(found) :
        reader' = IF Cardinality(found) > searchMaxResults THEN [pc |-> "AUD-007"]
                  ELSE [pc |-> "found", total |-> Cardinality(found), page |-> page,
                        got |-> PageOf(q, page),
                        totalPages |-> (Cardinality(found) + PageSize - 1) \div PageSize]
  BY DEF Search
<1>4. reader'.pc \in {"AUD-007", "found"}
  BY <1>3
<1>5. SearchPagesExist'
  <2> SUFFICES ASSUME reader'.pc = "found"
               PROVE  reader'.total <= searchMaxResults /\ ((reader'.got # {}) <=> (reader'.page <= reader'.totalPages))
    BY DEF SearchPagesExist
  <2>1. ~ Cardinality(found) > searchMaxResults
    BY <1>3
  <2>2. /\ reader'.total = Cardinality(found) /\ reader'.page = page /\ reader'.got = PageOf(q, page)
        /\ reader'.totalPages = (Cardinality(found) + PageSize - 1) \div PageSize
    BY <1>3, <2>1
  <2>3. IsFiniteSet(found)
    BY <1>2, MatchingFacts
  <2>4. q \in SetToSeqs(found)
    BY DEF Newest
  <2> HIDE DEF found
  <2>5. Cardinality(found) \in Nat /\ Len(q) = Cardinality(found) /\ q \in Seq(found)
    BY <2>3, <2>4, OrderFacts
  <2>6. page \in Nat \ {0} /\ PageSize \in Nat \ {0} /\ searchMaxResults \in Nat
    BY QueriesAssumption
  <2>7. PageOf(q, page) # {} <=> (page - 1) * PageSize < Cardinality(found)
    BY <2>5, <2>6, PageFacts
  <2>8. (page - 1) * PageSize < Cardinality(found) <=> page <= (Cardinality(found) + PageSize - 1) \div PageSize
    BY <2>5, <2>6, PagesAnnounced
  <2>9. Cardinality(found) <= searchMaxResults
    BY <2>1, <2>5, <2>6
  <2>10. QED
    BY <2>2, <2>7, <2>8, <2>9
<1>6. QED
  BY <1>2, <1>4, <1>5 DEF QueriesInv, Asking, Listing, Exporting, Tracing, PagesSkipNothing, TruncationIsTold, TraceIsWhole

LEMMA TraceStep ==
  ASSUME QueriesInv, (\E n \in Notification : Trace(n)) \/ (\E c \in Correlation : TraceCorrelation(c))
  PROVE  QueriesInv'
<1>1. rows' = rows /\ now' = now
  BY DEF Trace, TraceCorrelation
<1>2. RowsStored /\ RowsStored'
  BY <1>1 DEF QueriesInv, RowsStored
<1>3. \A r \in rows : r.source \in Source /\ r.notification \in Notification
  BY <1>2 DEF RowsStored, TableRow
<1>4. ASSUME NEW N \in SUBSET Notification,
             reader' = [pc |-> "trace", notifications |-> N, todo |-> N \X Source, atStart |-> rows, got |-> {}]
      PROVE  QueriesInv'
  <2>1. /\ reader'.pc = "trace" /\ reader'.notifications = N /\ reader'.todo = N \X Source
        /\ reader'.atStart = rows /\ reader'.got = {}
    BY <1>4
  <2>2. \A r \in rows : r.notification \in N => <<r.notification, r.source>> \in N \X Source
    BY <1>3
  <2>3. Tracing'
    BY <1>1, <1>4, <2>1, <2>2 DEF Tracing, TraceIsWhole
  <2>4. QED
    BY <1>2, <2>1, <2>3 DEF QueriesInv, Asking, Listing, Exporting, SearchPagesExist, PagesSkipNothing, TruncationIsTold
<1>5. ASSUME NEW n \in Notification, Trace(n) PROVE QueriesInv'
  <2>1. {<<n, s>> : s \in Source} = {n} \X Source
    OBVIOUS
  <2>2. reader' = [pc |-> "trace", notifications |-> {n}, todo |-> {n} \X Source, atStart |-> rows, got |-> {}]
    BY <1>5, <2>1 DEF Trace
  <2>3. QED
    BY <1>4, <2>2
<1>6. ASSUME NEW c \in Correlation, TraceCorrelation(c) PROVE QueriesInv'
  <2> DEFINE N == {r.notification : r \in {r \in Events : r.correlation = c}}
  <2>1. N \in SUBSET Notification
    BY <1>3 DEF Events
  <2>2. reader' = IF N = {} THEN [pc |-> "AUD-008", wanted |-> EventsOf("none")]
                  ELSE [pc |-> "trace", notifications |-> N, todo |-> N \X Source, atStart |-> rows, got |-> {}]
    BY <1>6 DEF TraceCorrelation
  <2> HIDE DEF N
  <2>3. CASE N # {}
    BY <1>4, <2>1, <2>2, <2>3
  <2>4. CASE N = {}
    <3>1. EventsOf("none") = {}
      BY <1>3, QueriesAssumption DEF EventsOf, Events
    <3>2. reader'.pc = "AUD-008" /\ reader'.wanted = {}
      BY <2>2, <2>4, <3>1
    <3>3. QED
      BY <1>2, <3>2
        DEF QueriesInv, Asking, Listing, Exporting, Tracing, SearchPagesExist, PagesSkipNothing, TruncationIsTold, TraceIsWhole
  <2>5. QED
    BY <2>3, <2>4
<1>7. QED
  BY <1>5, <1>6

LEMMA TraceQueryStep ==
  ASSUME QueriesInv, NEW n \in Notification, NEW s \in Source, TraceQuery(n, s)
  PROVE  QueriesInv'
<1> DEFINE got == reader.got \cup (IF s = "audit_event" THEN EventsOf(n) ELSE ReceiptsOf(n))
           todo == reader.todo \ {<<n, s>>}
<1>1. rows' = rows /\ now' = now /\ reader.pc = "trace" /\ <<n, s>> \in reader.todo
  BY DEF TraceQuery
<1>2. reader' = IF (\A x \in Source : <<n, x>> \notin todo) /\ (\A r \in got : r.notification # n)
                THEN [pc |-> "AUD-008", wanted |-> {r \in reader.atStart : r.notification = n}]
                ELSE [reader EXCEPT !.got = got, !.todo = todo]
  BY DEF TraceQuery
<1>3. RowsStored /\ RowsStored'
  BY <1>1 DEF QueriesInv, RowsStored
<1>4. \A r \in rows : r.source \in Source
  BY <1>3 DEF RowsStored, TableRow
<1>5. /\ reader = [pc |-> "trace", notifications |-> reader.notifications, todo |-> reader.todo, atStart |-> reader.atStart, got |-> reader.got]
      /\ reader.notifications \subseteq Notification /\ reader.todo \subseteq reader.notifications \X Source
      /\ reader.atStart \subseteq rows /\ reader.got \subseteq rows
      /\ \A r \in reader.atStart :
           r.notification \in reader.notifications => r \in reader.got \/ <<r.notification, r.source>> \in reader.todo
  BY <1>1 DEF QueriesInv, Tracing
<1>6. got \subseteq rows /\ \A r \in rows : r.notification = n /\ r.source = s => r \in got
  BY <1>4, <1>5 DEF EventsOf, ReceiptsOf, Events, Receipts, Source
<1>7. \A r \in reader.atStart :
        r.notification \in reader.notifications => r \in got \/ <<r.notification, r.source>> \in todo
  <2> TAKE r \in reader.atStart
  <2> HAVE r.notification \in reader.notifications
  <2>1. CASE r \in reader.got
    BY <2>1
  <2>2. CASE <<r.notification, r.source>> = <<n, s>>
    BY <1>5, <1>6, <2>2
  <2>3. CASE <<r.notification, r.source>> # <<n, s>> /\ r \notin reader.got
    BY <1>5, <2>3
  <2>4. QED
    BY <2>1, <2>2, <2>3
<1>8. n \in reader.notifications
  BY <1>1, <1>5
<1> HIDE DEF got, todo
<1>9. CASE (\A x \in Source : <<n, x>> \notin todo) /\ (\A r \in got : r.notification # n)
  <2>1. {r \in reader.atStart : r.notification = n} = {}
    <3>1. ASSUME NEW r \in reader.atStart, r.notification = n PROVE FALSE
      <4>1. r \in got \/ <<n, r.source>> \in todo
        BY <1>7, <1>8, <3>1
      <4>2. r.source \in Source
        BY <1>4, <1>5
      <4>3. QED
        BY <1>9, <3>1, <4>1, <4>2
    <3>2. QED
      BY <3>1
  <2>2. reader'.pc = "AUD-008" /\ reader'.wanted = {}
    BY <1>2, <1>9, <2>1
  <2>3. QED
    BY <1>3, <2>2
      DEF QueriesInv, Asking, Listing, Exporting, Tracing, SearchPagesExist, PagesSkipNothing, TruncationIsTold, TraceIsWhole
<1>10. CASE ~ ((\A x \in Source : <<n, x>> \notin todo) /\ (\A r \in got : r.notification # n))
  <2>1. reader' = [pc |-> "trace", notifications |-> reader.notifications, todo |-> todo, atStart |-> reader.atStart, got |-> got]
    <3>1. reader' = [reader EXCEPT !.got = got, !.todo = todo]
      BY <1>2, <1>10
    <3>2. PICK N, A : reader = [pc |-> "trace", notifications |-> N, todo |-> reader.todo, atStart |-> A, got |-> reader.got]
      BY <1>5
    <3>3. N = reader.notifications /\ A = reader.atStart
      BY <3>2
    <3>4. PICK e : e = [reader EXCEPT !.got = got]
      OBVIOUS
    <3>5. e = [pc |-> "trace", notifications |-> N, todo |-> reader.todo, atStart |-> A, got |-> got]
      BY <3>2, <3>4
    <3>6. [e EXCEPT !.todo = todo] = [pc |-> "trace", notifications |-> N, todo |-> todo, atStart |-> A, got |-> got]
      BY <3>5
    <3>7. reader' = [e EXCEPT !.todo = todo]
      BY <3>1, <3>4
    <3>8. QED
      BY <3>3, <3>6, <3>7
  <2>2. todo \subseteq reader.notifications \X Source
    BY <1>5 DEF todo
  <2>3. Tracing'
    BY <1>1, <1>5, <1>6, <1>7, <2>1, <2>2 DEF Tracing, TraceIsWhole
  <2>4. reader'.pc = "trace"
    BY <2>1
  <2>5. QED
    BY <1>3, <2>3, <2>4 DEF QueriesInv, Asking, Listing, Exporting, SearchPagesExist, PagesSkipNothing, TruncationIsTold
<1>11. QED
  BY <1>9, <1>10

LEMMA TraceAnswerStep ==
  ASSUME QueriesInv, TraceAnswer
  PROVE  QueriesInv'
<1>1. rows' = rows /\ now' = now /\ reader.pc = "trace" /\ reader.todo = {}
  BY DEF TraceAnswer
<1>2. RowsStored /\ RowsStored'
  BY <1>1 DEF QueriesInv, RowsStored
<1>3. PICK n \in reader.notifications :
        LET got == {r \in reader.got : r.notification = n}
        IN \E q \in Timelines(got) :
             reader' = [pc |-> "traced", timeline |-> q, final |-> Last(q), got |-> got,
                        wanted |-> {r \in reader.atStart : r.notification = n},
                        correlation |-> CorrelationOf(q)]
  BY DEF TraceAnswer
<1> DEFINE got == {r \in reader.got : r.notification = n}
           wanted == {r \in reader.atStart : r.notification = n}
<1>4. PICK q \in Timelines(got) :
        reader' = [pc |-> "traced", timeline |-> q, final |-> Last(q), got |-> got, wanted |-> wanted,
                   correlation |-> CorrelationOf(q)]
  BY <1>3
<1>5. /\ reader.got \subseteq rows
      /\ \A r \in reader.atStart : r.notification \in reader.notifications => r \in reader.got
  BY <1>1 DEF QueriesInv, Tracing
<1>6. IsFiniteSet(got) /\ \A r \in got : r.at \in Nat
  <2>1. got \subseteq rows
    BY <1>5
  <2>2. QED
    BY <1>2, <2>1, FS_Subset DEF RowsStored, TableRow
<1>7. q \in SetToSeqs(got) /\ \A i, j \in DOMAIN q : i < j => q[i].at <= q[j].at
  BY <1>4 DEF Timelines, Oldest
<1>8. wanted \subseteq got
  BY <1>5
<1> HIDE DEF got, wanted
<1> DEFINE N == Cardinality(got)
<1>9. /\ N \in Nat /\ q \in [1..N -> got] /\ Len(q) = N /\ ToSet(q) = got
      /\ \A x \in got : \E i \in 1..N : q[i] = x
  BY <1>6, <1>7, OrderFacts
<1>10. \A r \in got : r.at <= Last(q).at
  <2> TAKE r \in got
  <2>1. PICK i \in 1..N : q[i] = r
    BY <1>9
  <2>2. N \in 1..N /\ Last(q) = q[N] /\ q[N] \in got
    BY <1>9 DEF Last
  <2>3. i = N \/ i < N
    BY <1>9
  <2>4. QED
    BY <1>6, <1>7, <1>9, <2>1, <2>2, <2>3
<1>11. TraceIsWhole' /\ reader'.pc = "traced"
  <2>1. \A i, j \in DOMAIN q : i < j => q[i].at <= q[j].at
    BY <1>7
  <2>2. QED
    BY <1>4, <1>8, <1>9, <1>10, <2>1 DEF TraceIsWhole
<1>12. QED
  BY <1>2, <1>11
    DEF QueriesInv, Asking, Listing, Exporting, Tracing, SearchPagesExist, PagesSkipNothing, TruncationIsTold

LEMMA QueriesStep == QueriesInv /\ [QueriesNext]_queryVars => QueriesInv'
<1> SUFFICES ASSUME QueriesInv, [QueriesNext]_queryVars PROVE QueriesInv'
  OBVIOUS
<1>1. CASE Insert
  BY <1>1, InsertStep
<1>2. ASSUME NEW n \in Notification \cup {"any"}, List(n) PROVE QueriesInv'
  BY <1>2, ListStep DEF Filter
<1>3. ASSUME NEW n \in Notification \cup {"any"}, Export(n) PROVE QueriesInv'
  BY <1>3, ExportStep DEF Filter
<1>4. ASSUME NEW n \in Notification \cup {"any"}, NEW page \in 1 .. 2, Search(n, page) PROVE QueriesInv'
  BY <1>4, SearchStep DEF Filter
<1>5. CASE TurnPage
  BY <1>5, TurnPageStep
<1>6. CASE ExportCount \/ ExportSelect
  BY <1>6, ExportStep
<1>7. CASE (\E n \in Notification : Trace(n)) \/ (\E c \in Correlation : TraceCorrelation(c))
  BY <1>7, TraceStep
<1>8. ASSUME NEW n \in Notification, NEW s \in Source, TraceQuery(n, s) PROVE QueriesInv'
  BY <1>8, TraceQueryStep
<1>9. CASE TraceAnswer
  BY <1>9, TraceAnswerStep
<1>10. CASE CloseAnswer
  <2>1. rows' = rows /\ now' = now /\ reader' = Unasked /\ reader'.pc = "idle"
    BY <1>10 DEF CloseAnswer, Unasked
  <2>2. RowsStored'
    BY <2>1 DEF QueriesInv, RowsStored
  <2>3. reader' = Unasked'
    BY <2>1 DEF Unasked
  <2>4. QED
    BY <2>1, <2>2, <2>3
      DEF QueriesInv, Asking, Listing, Exporting, Tracing, SearchPagesExist, PagesSkipNothing, TruncationIsTold, TraceIsWhole
<1>11. CASE UNCHANGED queryVars
  <2>1. rows' = rows /\ now' = now /\ reader' = reader
    BY <1>11 DEF queryVars
  <2>2. RowsStored' /\ Asking' /\ SearchPagesExist' /\ Tracing'
    BY <2>1 DEF QueriesInv, RowsStored, Asking, SearchPagesExist, Tracing, TraceIsWhole, Unasked
  <2>3. Listing'
    BY <2>1 DEF QueriesInv, Listing, PagesSkipNothing, Own, Newer, Matching, Events
  <2>4. Exporting'
    BY <2>1 DEF QueriesInv, Exporting, TruncationIsTold, JoinedRows
  <2>5. QED
    BY <2>2, <2>3, <2>4 DEF QueriesInv
<1>12. QED
  BY <1>1, <1>2, <1>3, <1>4, <1>5, <1>6, <1>7, <1>8, <1>9, <1>10, <1>11 DEF QueriesNext

\* The analytics and the queries of the audit-service, for any channels, hours, arrivals and jobs, any rows and
\* limits: no aggregate counts more than was received, a window aggregated after its end is exact, and the channels
\* of the summary add up to its total; no page misses an event that was there at the beginning, a search has its
\* pages, an export tells what it leaves out, and a trace is whole.
THEOREM ReadersHold == AnalyticsSpec /\ QueriesSpec => []ReadersExact
<1>1. AnalyticsInv => AnalyticsTypeOK /\ NeverOvercounts /\ ClosedIsExact /\ SummaryAddsUp
  BY TypesFollow, NeverFollows, ClosedFollows, SummaryFollows
<1>2. QueriesInv => PagesSkipNothing /\ SearchPagesExist /\ TruncationIsTold /\ TraceIsWhole
  BY DEF QueriesInv, Listing, Exporting, Tracing
<1>3. AnalyticsInv /\ QueriesInv => ReadersExact
  BY <1>1, <1>2 DEF ReadersExact
<1>4. QED
  BY <1>3, AnalyticsStart, AnalyticsStep, QueriesStart, QueriesStep, PTL DEF AnalyticsSpec, QueriesSpec
=============================================================================
