-------------------------- MODULE EventPathProofs --------------------------
(***************************************************************************)
(* The path of an event up to its notifications: its ingestion, the        *)
(* mapping cache and the normalization of its payload, and what the engine *)
(* reads its configuration from when it matches the event: the cached      *)
(* rules, the preferences and overrides of a resolution, and the recipient *)
(* groups.  The parts share no state: each has an inductive invariant of   *)
(* its own, for any number of events, queues, mappings, rules, customers,  *)
(* groups, readers, handlers and requests.                                 *)
(***************************************************************************)
EXTENDS EventIngestion, Normalization, EventMatching, RecipientGroups, FiniteSetTheorems, TLAPS

-----------------------------------------------------------------------------
(***************************************************************************)
(* The inductive invariant.  The insert makes its job the owner of the     *)
(* event: whoever is past it found no row, and the row stays.  So there is *)
(* one owner at a time and never a second one, and only the owner          *)
(* publishes.                                                              *)
(***************************************************************************)
OwnerInv(j) ==
  /\ job[j].st \in Owning => row[job[j].e] # "none"
  /\ job[j].st = "publish" => sent[job[j].e] = 0
  /\ job[j].st = "savePublished" => sent[job[j].e] >= 1

SoleOwner(i, j) ==
  job[i].st \in Owning /\ job[j].st \in Owning /\ job[i].e = job[j].e => i = j

EventInv(e) ==
  /\ sent[e] <= 1
  /\ sent[e] >= 1 => row[e] # "none"
  /\ row[e] = "published" => sent[e] >= 1

IInv == /\ TypeOK
        /\ \A j \in Job : OwnerInv(j)
        /\ \A i, j \in Job : SoleOwner(i, j)
        /\ \A e \in Event : EventInv(e)

-----------------------------------------------------------------------------

JobStates == Busy \cup {"accepted", "refused"}

LEMMA HeldJob ==
  ASSUME TypeOK, NEW j \in Job, job[j].st \in Busy
  PROVE  /\ job[j] \in [st : JobStates, e : Event, k : Retry]
         /\ job[j].e \in Event
         /\ job[j].k \in Retry
BY DEF TypeOK, Idle, Busy, Owning, JobStates

\* What a step to st does to the jobs.
Moved(j, st) ==
  /\ job' \in [Job -> {Idle} \cup [st : JobStates, e : Event, k : Retry]]
  /\ job'[j].st = st
  /\ job'[j].e = job[j].e
  /\ job'[j].k = job[j].k
  /\ \A i \in Job : i # j => job'[i] = job[i]

LEMMA GotoMoves ==
  ASSUME TypeOK, NEW j \in Job, job[j].st \in Busy, NEW st \in JobStates, Goto(j, st)
  PROVE  Moved(j, st)
<1>1. [job[j] EXCEPT !.st = st] \in [st : JobStates, e : Event, k : Retry]
  BY HeldJob
<1>2. job \in [Job -> {Idle} \cup [st : JobStates, e : Event, k : Retry]]
  BY DEF TypeOK, JobStates
<1>3. job' = [job EXCEPT ![j] = [job[j] EXCEPT !.st = st]]
  BY DEF Goto
<1>4. job' \in [Job -> {Idle} \cup [st : JobStates, e : Event, k : Retry]]
  BY <1>1, <1>2, <1>3
<1>5. job'[j] = [job[j] EXCEPT !.st = st]
  BY <1>2, <1>3
<1>6. QED
  BY <1>2, <1>3, <1>4, <1>5, HeldJob DEF Moved

\* A step into a new state, the only step into backoff being that of a message with
\* a retry left.
LEMMA MoveTypes ==
  ASSUME TypeOK, NEW j \in Job, NEW st \in JobStates, Moved(j, st),
         j \in Consumer /\ st = "backoff" => job[j].k < MaxRetries
  PROVE  /\ job' \in [Job -> {Idle} \cup [st : JobStates, e : Event, k : Retry]]
         /\ \A c \in Consumer : job'[c].st = "backoff" => job'[c].k < MaxRetries
BY DEF TypeOK, Moved, Job

\* The states that Succeed, Refuse and Fail lead to.
Ends(j) ==
  \E st \in {"accepted", "ack", "refused", "nack", "backoff"} :
    /\ Moved(j, st)
    /\ j \in Consumer /\ st = "backoff" => job[j].k < MaxRetries

LEMMA EndsMoved ==
  ASSUME TypeOK, NEW j \in Job, job[j].st \in Busy, Succeed(j) \/ Refuse(j) \/ Fail(j)
  PROVE  Ends(j)
<1>1. /\ {"accepted", "ack", "refused", "nack", "backoff"} \subseteq JobStates
      /\ j \in Consumer => j \notin Request
  BY IngestionAssumption DEF JobStates, Busy, Owning
<1>2. CASE Succeed(j)
  BY <1>1, <1>2, GotoMoves DEF Succeed, Ends
<1>3. CASE Refuse(j)
  BY <1>1, <1>3, GotoMoves DEF Refuse, Ends
<1>4. CASE Fail(j)
  BY <1>1, <1>4, GotoMoves DEF Fail, Ends
<1>5. QED
  BY <1>2, <1>3, <1>4

LEMMA ReadyType ==
  ASSUME TypeOK, NEW c \in Consumer, job[c].st = "backoff"
  PROVE  Republished(c) \in [Event \X Retry -> Nat]
<1>1. /\ job[c].e \in Event
      /\ Copies[job[c].e] \in Nat
  BY HeldJob, IngestionAssumption DEF Busy, Job
<1> DEFINE m == <<job[c].e, job[c].k + 1>>
           n == Copies[job[c].e]
<1>2. m \in Event \X Retry
  BY <1>1, HeldJob, IngestionAssumption DEF Busy, Job, TypeOK, Retry
<1>3. Republished(c) = [ready EXCEPT ![m] = @ + n]
  BY DEF Republished
<1> HIDE DEF m, n
<1>4. n \in Nat
  BY <1>1 DEF n
<1>5. QED
  BY <1>2, <1>3, <1>4 DEF TypeOK

LEMMA HeldFinite == \A m \in Event \X Retry : Cardinality(Held(m)) \in Nat
<1>1. \A m : Held(m) \subseteq Consumer
  BY DEF Held
<1>2. QED
  BY <1>1, IngestionAssumption, FS_Subset, FS_CardinalityType

-----------------------------------------------------------------------------

\* What a step of processEvent does to one job, and to the row and the history of its
\* event: nothing, claim it, publish it or save it.
Quiet(j) == (Moved(j, "insert") \/ Ends(j)) /\ UNCHANGED <<row, sent>>

Claims(j) ==
  /\ row[job[j].e] = "none"
  /\ Stored(job[j].e, "received")
  /\ Moved(j, "publish") \/ Ends(j)
  /\ UNCHANGED sent

Publishes(j) ==
  /\ job[j].st = "publish"
  /\ \/ Moved(j, "savePublished") /\ Published(job[j].e)
     \/ Moved(j, "saveFailed") /\ (Published(job[j].e) \/ UNCHANGED sent)
  /\ UNCHANGED row

Saves(j) ==
  /\ job[j].st \in {"savePublished", "saveFailed"}
  /\ Moved(j, "saveFailed") \/ Ends(j)
  /\ \/ job[j].st = "savePublished" /\ Stored(job[j].e, "published")
     \/ job[j].st = "saveFailed" /\ Stored(job[j].e, "failed")
     \/ UNCHANGED row
  /\ UNCHANGED sent

LEMMA ProcessSteps ==
  ASSUME TypeOK, NEW j \in Job, Process(j)
  PROVE  /\ job[j].st \in Busy
         /\ Quiet(j) \/ Claims(j) \/ Publishes(j) \/ Saves(j)
         /\ UNCHANGED <<ready, dead>>
         /\ faults' \in {faults, faults + 1} /\ (faults' # faults => faults < MaxFaults)
<1>1. /\ {"lookup", "insert", "publish", "savePublished", "saveFailed"} \subseteq Busy
      /\ {"insert", "publish", "savePublished", "saveFailed"} \subseteq JobStates
  BY DEF Busy, Owning, JobStates
<1>2. CASE Reject(j)
  BY <1>1, <1>2, EndsMoved DEF Reject, Quiet
<1>3. CASE CheckDuplicate(j)
  BY <1>1, <1>3, EndsMoved, GotoMoves DEF CheckDuplicate, Quiet
<1>4. CASE CreateEvent(j)
  BY <1>1, <1>4, EndsMoved, GotoMoves DEF CreateEvent, Quiet, Claims
<1>5. CASE LookupFails(j)
  BY <1>1, <1>5, EndsMoved DEF LookupFails, Quiet
<1>6. CASE CreateEventUnanswered(j)
  BY <1>1, <1>6, EndsMoved DEF CreateEventUnanswered, Claims
<1>7. CASE PublishNormalized(j)
  BY <1>1, <1>7, GotoMoves DEF PublishNormalized, Publishes
<1>8. CASE PublishFails(j)
  BY <1>1, <1>8, GotoMoves DEF PublishFails, Publishes
<1>9. CASE SavePublished(j)
  BY <1>1, <1>9, EndsMoved DEF SavePublished, Saves
<1>10. CASE SavePublishedFails(j)
  BY <1>1, <1>10, GotoMoves DEF SavePublishedFails, Saves
<1>11. CASE SaveFailed(j)
  BY <1>1, <1>11, EndsMoved DEF SaveFailed, Saves
<1>12. QED
  BY <1>2, <1>3, <1>4, <1>5, <1>6, <1>7, <1>8, <1>9, <1>10, <1>11 DEF Process

-----------------------------------------------------------------------------

LEMMA ProcessTypes ==
  ASSUME TypeOK, NEW j \in Job, Process(j)
  PROVE  TypeOK'
<1>1. /\ job[j].st \in Busy
      /\ Quiet(j) \/ Claims(j) \/ Publishes(j) \/ Saves(j)
      /\ UNCHANGED <<ready, dead>>
      /\ faults' \in {faults, faults + 1} /\ (faults' # faults => faults < MaxFaults)
  BY ProcessSteps
<1> DEFINE e == job[j].e
<1>2. e \in Event
  BY <1>1, HeldJob
<1>3. faults' \in 0 .. MaxFaults
  BY <1>1, IngestionAssumption DEF TypeOK
<1>4. \E st \in JobStates : /\ Moved(j, st)
                            /\ j \in Consumer /\ st = "backoff" => job[j].k < MaxRetries
  BY <1>1 DEF Quiet, Claims, Publishes, Saves, Ends, JobStates, Busy, Owning
<1>5. /\ job' \in [Job -> {Idle} \cup [st : JobStates, e : Event, k : Retry]]
      /\ \A c \in Consumer : job'[c].st = "backoff" => job'[c].k < MaxRetries
  BY <1>4, MoveTypes
<1>6. row' \in [Event -> {"none", "received", "published", "failed"}]
  BY <1>1, <1>2 DEF Quiet, Claims, Publishes, Saves, Stored, TypeOK
<1>7. sent' \in [Event -> 0 .. 2]
  <2>1. CASE UNCHANGED sent
    BY <2>1 DEF TypeOK
  <2>2. CASE Published(e)
    BY <1>2, <2>2 DEF Published, TypeOK
  <2>3. QED
    BY <1>1, <2>1, <2>2 DEF Quiet, Claims, Publishes, Saves
<1>8. QED
  BY <1>1, <1>3, <1>5, <1>6, <1>7 DEF TypeOK, JobStates

\* Steps of the broker and of the process itself: a job starts or ends, all rows and
\* the history stay.
Starts(j) ==
  /\ \/ job' = [job EXCEPT ![j] = Idle]
     \/ \E e \in Event, k \in Retry : job' = [job EXCEPT ![j] = [st |-> "lookup", e |-> e, k |-> k]]
     \/ Moved(j, "ack")
  /\ UNCHANGED <<row, sent>>

LEMMA StartTypes ==
  ASSUME TypeOK, NEW j \in Job, Starts(j)
  PROVE  /\ job' \in [Job -> {Idle} \cup [st : JobStates, e : Event, k : Retry]]
         /\ \A c \in Consumer : job'[c].st = "backoff" => job'[c].k < MaxRetries
<1>1. /\ job \in [Job -> {Idle} \cup [st : JobStates, e : Event, k : Retry]]
      /\ \A c \in Consumer : c \in Job /\ (job[c].st = "backoff" => job[c].k < MaxRetries)
      /\ "ack" \in JobStates /\ "lookup" \in JobStates
  BY DEF TypeOK, JobStates, Job, Busy, Owning
<1>2. CASE job' = [job EXCEPT ![j] = Idle]
  <2>1. Idle.st # "backoff"
    BY DEF Idle
  <2>2. QED
    BY <1>1, <1>2, <2>1
<1>3. CASE \E e \in Event, k \in Retry : job' = [job EXCEPT ![j] = [st |-> "lookup", e |-> e, k |-> k]]
  <2>1. PICK e \in Event, k \in Retry : job' = [job EXCEPT ![j] = [st |-> "lookup", e |-> e, k |-> k]]
    BY <1>3
  <2>2. [st |-> "lookup", e |-> e, k |-> k] \in [st : JobStates, e : Event, k : Retry]
    BY <1>1
  <2>3. QED
    BY <1>1, <2>1, <2>2
<1>4. CASE Moved(j, "ack")
  BY <1>1, <1>4, MoveTypes
<1>5. QED
  BY <1>2, <1>3, <1>4 DEF Starts

LEMMA ConsumeSteps ==
  ASSUME TypeOK, NEW c \in Consumer, Consume(c)
  PROVE  \/ Process(c)
         \/ /\ Starts(c)
            /\ ready' \in [Event \X Retry -> Nat]
            /\ dead' \subseteq Event
            /\ faults' \in 0 .. MaxFaults
<1>1. /\ c \in Job
      /\ {"backoff", "nack"} \subseteq Busy
      /\ "ack" \in JobStates
  BY DEF Job, Busy, JobStates
<1>2. ASSUME NEW e \in Event, NEW k \in Retry, TakeMessage(c, e, k)
      PROVE  Starts(c) /\ ready' \in [Event \X Retry -> Nat] /\ UNCHANGED <<dead, faults>>
  <2>1. ready' \in [Event \X Retry -> Nat]
    BY <1>2 DEF TakeMessage, TypeOK
  <2>2. QED
    BY <1>2, <2>1 DEF TakeMessage, Starts
<1>3. CASE Republish(c)
  <2>1. Starts(c)
    BY <1>1, <1>3, GotoMoves DEF Republish, Starts
  <2>2. QED
    BY <1>3, <2>1, ReadyType DEF Republish, TypeOK
<1>4. CASE RepublishFails(c)
  <2>1. job[c].e \in Event /\ job[c].k \in Retry
    BY <1>1, <1>4, HeldJob DEF RepublishFails
  <2>2. PICK queues \in {ready, Republished(c)} :
          ready' = [queues EXCEPT ![<<job[c].e, job[c].k>>] = @ + 1]
    BY <1>4 DEF RepublishFails
  <2>3. queues \in [Event \X Retry -> Nat]
    BY <1>4, <2>2, ReadyType DEF RepublishFails, TypeOK
  <2>4. ready' \in [Event \X Retry -> Nat]
    BY <2>1, <2>2, <2>3
  <2>5. faults' \in 0 .. MaxFaults
    BY <1>4, IngestionAssumption DEF RepublishFails, TypeOK
  <2>6. QED
    BY <1>4, <2>4, <2>5 DEF RepublishFails, Starts, TypeOK
<1>5. CASE Ack(c)
  BY <1>5 DEF Ack, Starts, TypeOK
<1>6. CASE Nack(c)
  BY <1>1, <1>6, HeldJob DEF Nack, Starts, TypeOK
<1>7. QED
  BY <1>2, <1>3, <1>4, <1>5, <1>6 DEF Consume, TypeOK

LEMMA CrashTypes ==
  ASSUME TypeOK, Crash
  PROVE  TypeOK'
<1>1. ready' \in [Event \X Retry -> Nat]
  BY HeldFinite DEF Crash, TypeOK
<1>2. \A j \in Job : job'[j] \in {Idle} \cup [st : JobStates, e : Event, k : Retry]
  <2> SUFFICES ASSUME NEW j \in Job
               PROVE  job'[j] \in {Idle} \cup [st : JobStates, e : Event, k : Retry]
    OBVIOUS
  <2>1. CASE Holds(j) /\ j \notin Consumer
    <3>1. job[j] \in [st : JobStates, e : Event, k : Retry]
      BY <2>1, HeldJob DEF Holds
    <3>2. job'[j] = [job[j] EXCEPT !.st = "refused"]
      BY <2>1 DEF Crash
    <3>3. QED
      BY <3>1, <3>2 DEF JobStates
  <2>2. CASE ~ (Holds(j) /\ j \notin Consumer)
    BY <2>2 DEF Crash, TypeOK, JobStates
  <2>3. QED
    BY <2>1, <2>2
<1>3. \A c \in Consumer : job'[c] = IF Holds(c) THEN Idle ELSE job[c]
  BY DEF Crash, Job
<1>4. Idle.st # "backoff"
  BY DEF Idle
<1>5. /\ job' \in [Job -> {Idle} \cup [st : JobStates, e : Event, k : Retry]]
      /\ \A c \in Consumer : job'[c].st = "backoff" => job'[c].k < MaxRetries
  BY <1>2, <1>3, <1>4 DEF Crash, TypeOK
<1>6. faults' \in 0 .. MaxFaults
  BY IngestionAssumption DEF Crash, TypeOK
<1>7. QED
  BY <1>1, <1>5, <1>6 DEF Crash, TypeOK, JobStates

LEMMA TypeStep ==
  ASSUME TypeOK, [Next]_vars
  PROVE  TypeOK'
<1>1. ASSUME NEW c \in Consumer, Consume(c)
      PROVE  TypeOK'
  <2>1. c \in Job
    BY DEF Job
  <2>2. CASE Process(c)
    BY <2>1, <2>2, ProcessTypes
  <2>3. CASE Starts(c) /\ ready' \in [Event \X Retry -> Nat] /\ dead' \subseteq Event
             /\ faults' \in 0 .. MaxFaults
    BY <2>1, <2>3, StartTypes DEF Starts, TypeOK, JobStates
  <2>4. QED
    BY <1>1, <2>2, <2>3, ConsumeSteps
<1>2. ASSUME NEW r \in Request, Post(r)
      PROVE  TypeOK'
  <2>1. r \in Job /\ EventOf[r] \in Event /\ 0 \in Retry
    BY IngestionAssumption DEF Job, Retry
  <2>2. Starts(r)
    BY <1>2, <2>1 DEF Post, Starts
  <2>3. QED
    BY <1>2, <2>1, <2>2, StartTypes DEF Post, TypeOK, JobStates
<1>3. ASSUME NEW r \in Request, Process(r)
      PROVE  TypeOK'
  BY <1>3, ProcessTypes DEF Job
<1>4. CASE UNCHANGED vars
  BY <1>4 DEF vars, TypeOK
<1>5. QED
  BY <1>1, <1>2, <1>3, <1>4, CrashTypes DEF Next, Serve

LEMMA TypeInit == Init => TypeOK
BY IngestionAssumption DEF Init, TypeOK, Idle, Retry, Job

-----------------------------------------------------------------------------

\* A step that touches neither rows nor the history, and after which every owner is
\* one that was there before.
LEMMA QuietKeeps ==
  ASSUME IInv, TypeOK', UNCHANGED <<row, sent>>,
         \A j \in Job : job'[j].st \in Owning => job'[j] = job[j]
  PROVE  IInv'
<1>1. \A j \in Job : OwnerInv(j)'
  BY DEF IInv, OwnerInv, Owning
<1>2. \A i, j \in Job : SoleOwner(i, j)'
  BY DEF IInv, SoleOwner
<1>3. \A e \in Event : EventInv(e)'
  BY DEF IInv, EventInv
<1>4. QED
  BY <1>1, <1>2, <1>3 DEF IInv

LEMMA EndsOwnsNot ==
  ASSUME NEW j \in Job, Ends(j)
  PROVE  job'[j].st \notin Owning
BY DEF Ends, Moved, Owning

\* The insert: nobody owns an event without a row, and it was never published.
LEMMA ClaimsKeeps ==
  ASSUME IInv, TypeOK', NEW j \in Job, job[j].st \in Busy, Claims(j)
  PROVE  IInv'
<1> DEFINE e == job[j].e
<1>1. e \in Event /\ row[e] = "none" /\ sent[e] = 0
  BY HeldJob DEF Claims, IInv, EventInv, TypeOK
<1>2. /\ row'[e] = "received"
      /\ \A d \in Event : d # e => row'[d] = row[d]
      /\ sent' = sent
  BY <1>1 DEF Claims, Stored, IInv, TypeOK
<1>3. \A i \in Job : job[i].st \in Owning => job[i].e # e
  BY <1>1 DEF IInv, OwnerInv
<1>4. /\ \A i \in Job : i # j => job'[i] = job[i]
      /\ job'[j].st \in Owning => job'[j].st = "publish" /\ job'[j].e = e
  BY EndsOwnsNot DEF Claims, Moved, Ends
<1>5. \A i \in Job : job[i].st \in Owning => job[i].e \in Event
  BY HeldJob DEF IInv, Busy
<1>6. \A i \in Job : OwnerInv(i)'
  BY <1>1, <1>2, <1>3, <1>4, <1>5 DEF IInv, OwnerInv, Owning
<1>7. \A i, k \in Job : SoleOwner(i, k)'
  BY <1>3, <1>4 DEF IInv, SoleOwner
<1>8. \A d \in Event : EventInv(d)'
  BY <1>1, <1>2 DEF IInv, EventInv
<1>9. QED
  BY <1>6, <1>7, <1>8 DEF IInv

\* The publish: the owner is the only one, and nobody published before it.
LEMMA PublishesKeeps ==
  ASSUME IInv, TypeOK', NEW j \in Job, job[j].st \in Busy, Publishes(j)
  PROVE  IInv'
<1> DEFINE e == job[j].e
<1>1. e \in Event /\ row[e] # "none" /\ row[e] # "published" /\ sent[e] = 0
  BY HeldJob DEF Publishes, IInv, OwnerInv, EventInv, Owning
<1>2. /\ row' = row
      /\ sent'[e] \in {0, 1}
      /\ Moved(j, "savePublished") => sent'[e] = 1
      /\ \A d \in Event : d # e => sent'[d] = sent[d]
  BY <1>1 DEF Publishes, Published, Moved, IInv, TypeOK
<1>3. \A i \in Job : i # j /\ job[i].st \in Owning => job[i].e # e
  BY DEF Publishes, IInv, SoleOwner, Owning
<1>4. /\ \A i \in Job : i # j => job'[i] = job[i]
      /\ job'[j].e = e
      /\ \/ job'[j].st = "savePublished" /\ Moved(j, "savePublished")
         \/ job'[j].st = "saveFailed"
  BY DEF Publishes, Moved
<1>5. \A i \in Job : job[i].st \in Owning => job[i].e \in Event
  BY HeldJob DEF IInv, Busy
<1>6. \A i \in Job : OwnerInv(i)'
  BY <1>1, <1>2, <1>3, <1>4, <1>5 DEF IInv, OwnerInv, Owning
<1>7. \A i, k \in Job : SoleOwner(i, k)'
  BY <1>3, <1>4 DEF IInv, SoleOwner
<1>8. \A d \in Event : EventInv(d)'
  BY <1>1, <1>2 DEF IInv, EventInv
<1>9. QED
  BY <1>6, <1>7, <1>8 DEF IInv

\* The saves: the row keeps existing, and says published only after the publish.
LEMMA SavesKeeps ==
  ASSUME IInv, TypeOK', NEW j \in Job, job[j].st \in Busy, Saves(j)
  PROVE  IInv'
<1> DEFINE e == job[j].e
<1>1. e \in Event /\ row[e] # "none"
  BY HeldJob DEF Saves, IInv, OwnerInv, Owning
<1>2. /\ sent' = sent
      /\ row'[e] # "none"
      /\ row'[e] = "published" => sent[e] >= 1
      /\ \A d \in Event : d # e => row'[d] = row[d]
  BY <1>1 DEF Saves, Stored, IInv, TypeOK, OwnerInv, EventInv
<1>3. \A i \in Job : i # j /\ job[i].st \in Owning => job[i].e # e
  BY DEF Saves, IInv, SoleOwner, Owning
<1>4. /\ \A i \in Job : i # j => job'[i] = job[i]
      /\ job'[j].st \in Owning => job'[j].st = "saveFailed" /\ job'[j].e = e
  BY EndsOwnsNot DEF Saves, Moved, Ends
<1>5. \A i \in Job : job[i].st \in Owning => job[i].e \in Event
  BY HeldJob DEF IInv, Busy
<1>6. \A i \in Job : OwnerInv(i)'
  BY <1>1, <1>2, <1>3, <1>4, <1>5 DEF IInv, OwnerInv, Owning
<1>7. \A i, k \in Job : SoleOwner(i, k)'
  BY <1>3, <1>4 DEF IInv, SoleOwner
<1>8. \A d \in Event : EventInv(d)'
  BY <1>1, <1>2 DEF IInv, EventInv
<1>9. QED
  BY <1>6, <1>7, <1>8 DEF IInv

-----------------------------------------------------------------------------

LEMMA SafeStep ==
  ASSUME IInv, [Next]_vars
  PROVE  IInv'
<1>1. TypeOK /\ TypeOK'
  BY TypeStep DEF IInv
<1>2. ASSUME NEW j \in Job, Process(j)
      PROVE  IInv'
  <2>1. /\ job[j].st \in Busy
        /\ Quiet(j) \/ Claims(j) \/ Publishes(j) \/ Saves(j)
    BY <1>1, <1>2, ProcessSteps
  <2>2. CASE Quiet(j)
    <3>1. job'[j].st \notin Owning /\ \A i \in Job : i # j => job'[i] = job[i]
      BY <2>2, EndsOwnsNot DEF Quiet, Moved, Ends, Owning
    <3>2. QED
      BY <1>1, <2>2, <3>1, QuietKeeps DEF Quiet
  <2>3. QED
    BY <1>1, <2>1, <2>2, ClaimsKeeps, PublishesKeeps, SavesKeeps
<1>3. ASSUME NEW j \in Job, Starts(j)
      PROVE  IInv'
  <2>1. job'[j].st \notin Owning /\ \A i \in Job : i # j => job'[i] = job[i]
    BY <1>1, <1>3 DEF Starts, Moved, Owning, Idle, TypeOK
  <2>2. QED
    BY <1>1, <1>3, <2>1, QuietKeeps DEF Starts
<1>4. ASSUME NEW c \in Consumer, Consume(c)
      PROVE  IInv'
  BY <1>1, <1>2, <1>3, <1>4, ConsumeSteps DEF Job
<1>5. ASSUME NEW r \in Request, Serve(r)
      PROVE  IInv'
  <2>1. r \in Job /\ EventOf[r] \in Event /\ 0 \in Retry
    BY IngestionAssumption DEF Job, Retry
  <2>2. CASE Post(r)
    BY <1>3, <2>1, <2>2 DEF Post, Starts
  <2>3. QED
    BY <1>2, <1>5, <2>1, <2>2 DEF Serve
<1>6. CASE Crash
  <2>1. \A j \in Job : job'[j].st \in Owning => job'[j] = job[j]
    <3> SUFFICES ASSUME NEW j \in Job, job'[j].st \in Owning
                 PROVE  job'[j] = job[j]
      OBVIOUS
    <3>1. CASE ~ Holds(j)
      BY <1>6, <3>1 DEF Crash
    <3>2. CASE Holds(j) /\ j \in Consumer
      BY <1>6, <3>2 DEF Crash, Idle, Owning
    <3>3. CASE Holds(j) /\ j \notin Consumer
      <4>1. job'[j] = [job[j] EXCEPT !.st = "refused"]
        BY <1>6, <3>3 DEF Crash
      <4>2. job'[j].st = "refused"
        BY <1>1, <3>3, <4>1, HeldJob DEF Holds
      <4>3. QED
        BY <4>2 DEF Owning
    <3>4. QED
      BY <3>1, <3>2, <3>3
  <2>2. QED
    BY <1>1, <1>6, <2>1, QuietKeeps DEF Crash
<1>7. CASE UNCHANGED vars
  BY <1>1, <1>7, QuietKeeps DEF vars
<1>8. QED
  BY <1>4, <1>5, <1>6, <1>7 DEF Next

LEMMA SafeInit == Init => IInv
BY TypeInit DEF Init, IInv, OwnerInv, SoleOwner, EventInv, Idle, Owning, Job

LEMMA Inductive == Spec => []IInv
BY SafeInit, SafeStep, PTL DEF Spec

\* The variables of the ingestion keep their types, for any number of consumers,
\* requests and retries.
THEOREM IngestionTypes == Spec => []TypeOK
BY Inductive, PTL DEF IInv

\* However many consumers, queues, retries, redeliveries and crashes there are, no
\* keyed event is published twice: the insert decides, and nothing undoes it.
THEOREM OncePerEvent == Spec => []PublishedOnce
<1>1. IInv => PublishedOnce
  BY DEF IInv, EventInv, PublishedOnce
<1>2. QED
  BY <1>1, Inductive, PTL

\* The row of a published message exists before the message does, and it says
\* published only afterwards.
THEOREM RowsAgree == Spec => []RowMatchesBroker
<1>1. IInv => RowMatchesBroker
  BY DEF IInv, EventInv, RowMatchesBroker
<1>2. QED
  BY <1>1, Inductive, PTL

-----------------------------------------------------------------------------
(***************************************************************************)
(* The mappings and their cache.  While a key is not spoiled, a cached row *)
(* of it is the saved one or an older one of the same active mapping, the  *)
(* active mapping is cached as saved or news of it is under way, and what  *)
(* a handler or a fetch has read is the saved row or, for a handler, older.*)
(***************************************************************************)

SavedRow == [id : Mapping, version : Nat, active : BOOLEAN, content : Nat]
Fetching == {Resting, [pc |-> "exact"], [pc |-> "wildcard"]} \cup [pc : {"store"}, row : {NoMapping} \cup SavedRow]
SaveRequest == [pc : {"save"}, id : Mapping, change : {"update", "softDelete"}, row : SavedRow]
PublishRequest == [pc : {"publish"}, id : Mapping]
FindTask == [pc : {"find"}, id : Mapping]
ApplyTask == [pc : {"apply"}, id : Mapping, row : SavedRow]

MappingRows ==
  /\ mappings \in [Mapping -> {NoMapping} \cup SavedRow]
  /\ \A m \in Mapping : mappings[m] # NoMapping => mappings[m].id = m
CacheTypes == mappingCache \in [Key -> {NoMapping} \cup SavedRow] /\ inFlight \in [Key -> Fetching] /\ spoiled \in SUBSET Key
WriterTypes ==
  /\ writer \in [Writer -> {Resting} \cup SaveRequest \cup PublishRequest]
  /\ \A w \in Writer : writer[w].pc = "save" => writer[w].row.id = writer[w].id
  /\ saves \in Nat
NewsTypes ==
  /\ handler \in [MappingHandler -> {Resting} \cup FindTask \cup ApplyTask]
  /\ \A h \in MappingHandler : handler[h].pc = "apply" => handler[h].row.id = handler[h].id
  /\ pending \in [Mapping -> Nat]

\* Requests, messages and handlers are about mappings that were saved.
AllSaved ==
  /\ \A w \in Writer : writer[w] # Resting => mappings[writer[w].id] # NoMapping
  /\ \A m \in Mapping : pending[m] > 0 => mappings[m] # NoMapping
  /\ \A h \in MappingHandler : handler[h] # Resting => mappings[handler[h].id] # NoMapping

IsActive(m) == mappings[m] # NoMapping /\ mappings[m].active
OneActive == \A m, n \in Mapping : IsActive(m) /\ IsActive(n) /\ TypeOf[m] = TypeOf[n] => m = n

NewsOf(m) ==
  \/ pending[m] > 0
  \/ \E w \in Writer : writer[w].pc = "publish" /\ writer[w].id = m
  \/ \E h \in MappingHandler : handler[h].pc = "find" /\ handler[h].id = m
  \/ \E h \in MappingHandler : handler[h].pc = "apply" /\ handler[h].row = mappings[m]

OlderOf(record, m) == record = mappings[m] \/ record.version < mappings[m].version
CachedInTime(k) ==
  mappingCache[k] # NoMapping =>
    TypeOf[mappingCache[k].id] = k /\ IsActive(mappingCache[k].id) /\ OlderOf(mappingCache[k], mappingCache[k].id)
CachedOrNews(k) == \A m \in Mapping : TypeOf[m] = k /\ IsActive(m) => mappingCache[k] = mappings[m] \/ NewsOf(m)
HandledInTime(k) ==
  \A h \in MappingHandler : handler[h].pc = "apply" /\ TypeOf[handler[h].id] = k =>
    OlderOf(handler[h].row, handler[h].id) /\ handler[h].row.active = mappings[handler[h].id].active
FetchedInTime(k) ==
  inFlight[k].pc = "store" /\ inFlight[k].row # NoMapping /\ TypeOf[inFlight[k].row.id] = k =>
    IsActive(inFlight[k].row.id) /\ inFlight[k].row = mappings[inFlight[k].row.id]
KeyInv(k) == CachedInTime(k) /\ CachedOrNews(k) /\ HandledInTime(k) /\ FetchedInTime(k)

MappingTypes == MappingRows /\ CacheTypes /\ WriterTypes /\ NewsTypes /\ AllSaved /\ OneActive
MappingInv ==
  /\ MappingTypes
  /\ IF warm THEN \A k \in Key \ spoiled : KeyInv(k)
     ELSE (\A h \in MappingHandler : handler[h] = Resting) /\ \A k \in Key : inFlight[k] = Resting

LEMMA MappingFacts ==
  /\ \A r \in SavedRow : r # NoMapping /\ r.id \in Mapping /\ r.version \in Nat /\ r.active \in BOOLEAN
  /\ Resting.pc = "idle"
  /\ \A x \in SaveRequest : x # Resting /\ x.pc = "save" /\ x.id \in Mapping /\ x.row \in SavedRow /\ x.change \in {"update", "softDelete"}
  /\ \A x \in PublishRequest : x # Resting /\ x.pc = "publish" /\ x.id \in Mapping
  /\ \A x \in FindTask : x # Resting /\ x.pc = "find" /\ x.id \in Mapping
  /\ \A x \in ApplyTask : x # Resting /\ x.pc = "apply" /\ x.id \in Mapping /\ x.row \in SavedRow
  /\ \A x \in Fetching : /\ x.pc \in {"idle", "exact", "wildcard", "store"} /\ (x.pc = "idle" => x = Resting)
                         /\ x.pc = "store" => x.row \in {NoMapping} \cup SavedRow
<1>1. /\ \A x \in SaveRequest : x # Resting /\ x.pc = "save" /\ x.id \in Mapping /\ x.row \in SavedRow /\ x.change \in {"update", "softDelete"}
      /\ \A x \in PublishRequest : x # Resting /\ x.pc = "publish" /\ x.id \in Mapping
      /\ \A x \in FindTask : x # Resting /\ x.pc = "find" /\ x.id \in Mapping
      /\ \A x \in ApplyTask : x # Resting /\ x.pc = "apply" /\ x.id \in Mapping /\ x.row \in SavedRow
  BY DEF Resting, SaveRequest, PublishRequest, FindTask, ApplyTask
<1>2. \A r \in SavedRow : r # NoMapping /\ r.id \in Mapping /\ r.version \in Nat /\ r.active \in BOOLEAN
  BY MappingAssumption DEF SavedRow, NoMapping
<1>3. /\ Resting.pc = "idle"
      /\ \A x \in Fetching : /\ x.pc \in {"idle", "exact", "wildcard", "store"} /\ (x.pc = "idle" => x = Resting)
                             /\ x.pc = "store" => x.row \in {NoMapping} \cup SavedRow
  BY DEF Resting, Fetching
<1>4. QED
  BY <1>1, <1>2, <1>3

\* What is found for a key is the row of its active mapping.
LEMMA FoundFacts ==
  ASSUME MappingRows, OneActive, NEW k \in Key
  PROVE  /\ ActiveMappings(mappings, k) = {m \in Mapping : TypeOf[m] = k /\ IsActive(m)}
         /\ \A m \in Mapping : TypeOf[m] = k /\ IsActive(m) => FindBySourceAndType(k) = mappings[m]
         /\ \/ FindBySourceAndType(k) = NoMapping /\ \A m \in Mapping : TypeOf[m] = k => ~ IsActive(m)
            \/ \E m \in Mapping : TypeOf[m] = k /\ IsActive(m) /\ FindBySourceAndType(k) = mappings[m] /\ mappings[m].id = m
<1>1. ActiveMappings(mappings, k) = {m \in Mapping : TypeOf[m] = k /\ IsActive(m)}
  <2>1. \A m \in Mapping : mappings[m].id = m <=> mappings[m] # NoMapping
    BY MappingAssumption DEF MappingRows, NoMapping
  <2>2. QED
    BY <2>1 DEF ActiveMappings, IsActive
<1>2. CASE ActiveMappings(mappings, k) = {}
  BY <1>1, <1>2 DEF FindBySourceAndType
<1>3. CASE ActiveMappings(mappings, k) # {}
  <2>1. PICK n \in ActiveMappings(mappings, k) : FindBySourceAndType(k) = mappings[n]
    BY <1>3 DEF FindBySourceAndType
  <2>2. \A m \in Mapping : TypeOf[m] = k /\ IsActive(m) => m = n
    BY <1>1, <2>1 DEF OneActive
  <2>3. n \in Mapping /\ TypeOf[n] = k /\ IsActive(n) /\ mappings[n].id = n
    BY <1>1, <2>1 DEF MappingRows, IsActive
  <2>4. QED
    BY <1>1, <2>1, <2>2, <2>3
<1>4. QED
  BY <1>1, <1>2, <1>3

LEMMA ChangedFacts ==
  ASSUME NEW record \in SavedRow, NEW change \in {"update", "softDelete"}, NEW content \in Nat
  PROVE  /\ Changed(record, change, content) \in SavedRow /\ Changed(record, change, content).id = record.id
         /\ change = "update" => /\ Changed(record, change, content).version = record.version + 1
                                 /\ Changed(record, change, content).active = record.active
         /\ change = "softDelete" => Changed(record, change, content).active = FALSE
<1>1. record = [id |-> record.id, version |-> record.version, active |-> record.active, content |-> record.content]
      /\ record.id \in Mapping /\ record.version \in Nat /\ record.active \in BOOLEAN /\ record.content \in Nat
  BY DEF SavedRow
<1>2. CASE change = "update"
  <2>1. Changed(record, change, content) = [id |-> record.id, version |-> record.version + 1, active |-> record.active, content |-> content]
    BY <1>1, <1>2 DEF Changed
  <2>2. QED
    BY <1>1, <1>2, <2>1 DEF SavedRow
<1>3. CASE change = "softDelete"
  <2>1. Changed(record, change, content) = [id |-> record.id, version |-> record.version, active |-> FALSE, content |-> record.content]
    BY <1>1, <1>3 DEF Changed
  <2>2. Changed(record, change, content) \in SavedRow
    BY <1>1, <2>1 DEF SavedRow
  <2>3. Changed(record, change, content).id = record.id /\ Changed(record, change, content).active = FALSE
    BY <2>1
  <2>4. QED
    BY <1>3, <2>2, <2>3
<1>4. QED
  BY <1>2, <1>3

\* The rows are as they were.
LEMMA RowsAsBefore == ASSUME UNCHANGED mappings PROVE (MappingRows => MappingRows') /\ (OneActive => OneActive') /\ \A m : IsActive(m)' <=> IsActive(m)
BY DEF MappingRows, OneActive, IsActive

\* A key stays in order when its row is cached as before, nothing is newly read but the saved rows, and news is kept.
LEMMA KeyStays ==
  ASSUME NEW k \in Key, KeyInv(k), UNCHANGED mappings, mappingCache'[k] = mappingCache[k], FetchedInTime(k)',
         \A h \in MappingHandler : handler'[h].pc = "apply" =>
            handler'[h] = handler[h] \/ handler'[h].row = mappings[handler'[h].id],
         \A m \in Mapping : TypeOf[m] = k /\ NewsOf(m) => NewsOf(m)'
  PROVE  KeyInv(k)'
<1>1. CachedInTime(k)' /\ CachedOrNews(k)'
  BY DEF KeyInv, CachedInTime, CachedOrNews, OlderOf, IsActive
<1>2. HandledInTime(k)'
  BY DEF KeyInv, HandledInTime, OlderOf
<1>3. QED
  BY <1>1, <1>2 DEF KeyInv

LEMMA CreateKeeps == ASSUME MappingInv, NEW w \in Writer, NEW m \in Mapping, Create(w, m) PROVE MappingInv'
<1>0. PICK record : record = [id |-> m, version |-> 1, active |-> TRUE, content |-> saves + 1]
  OBVIOUS
<1>1. /\ MappingTypes /\ writer[w] = Resting /\ mappings[m] = NoMapping /\ ActiveMappings(mappings, TypeOf[m]) = {}
      /\ saves' = saves + 1 /\ mappings' = [mappings EXCEPT ![m] = record]
      /\ writer' = [writer EXCEPT ![w] = [pc |-> "publish", id |-> m]] /\ spoiled' = spoiled \cup Reading(m)
      /\ UNCHANGED <<mappingCache, inFlight, handler, pending, warm>>
  BY <1>0 DEF Create, MappingInv, Spoil
<1>2. TypeOf[m] \in Key
  BY MappingAssumption DEF Key
<1>3. \A n \in Mapping : TypeOf[n] = TypeOf[m] => ~ IsActive(n)
  BY <1>1, <1>2, FoundFacts DEF MappingTypes
<1>4. record \in SavedRow /\ record.id = m /\ record.active /\ record # NoMapping
  <2>1. record \in SavedRow /\ record.id = m /\ record.active
    BY <1>0, <1>1 DEF MappingTypes, WriterTypes, SavedRow
  <2>2. QED
    BY <2>1, MappingFacts
<1>5. mappings'[m] = record /\ \A n \in Mapping : n # m => mappings'[n] = mappings[n]
  BY <1>1 DEF MappingTypes, MappingRows
<1>6. \A n \in Mapping : IsActive(n)' <=> IsActive(n) \/ n = m
  BY <1>1, <1>4, <1>5 DEF IsActive
<1>7. MappingRows' /\ OneActive'
  <2>1. MappingRows'
    BY <1>1, <1>4 DEF MappingTypes, MappingRows
  <2>2. OneActive'
    BY <1>1, <1>3, <1>6 DEF MappingTypes, OneActive
  <2>3. QED
    BY <2>1, <2>2
<1>8. writer'[w] = [pc |-> "publish", id |-> m] /\ \A v \in Writer : v # w => writer'[v] = writer[v]
  BY <1>1 DEF MappingTypes, WriterTypes
<1>9. CacheTypes' /\ WriterTypes' /\ NewsTypes' /\ AllSaved'
  <2>1. CacheTypes' /\ NewsTypes'
    BY <1>1, <1>2 DEF MappingTypes, CacheTypes, NewsTypes, Reading
  <2>2. WriterTypes'
    BY <1>1, <1>8 DEF MappingTypes, WriterTypes, PublishRequest
  <2>3. AllSaved'
    <3>1. \A n \in Mapping : mappings[n] # NoMapping => mappings'[n] # NoMapping
      BY <1>4, <1>5
    <3>2. \A v \in Writer : writer'[v] # Resting => mappings'[writer'[v].id] # NoMapping
      BY <1>1, <1>4, <1>5, <1>8, <3>1, MappingFacts DEF MappingTypes, AllSaved, WriterTypes
    <3>3. \A h \in MappingHandler : handler'[h] # Resting => mappings'[handler'[h].id] # NoMapping
      BY <1>1, <3>1, MappingFacts DEF MappingTypes, AllSaved, NewsTypes
    <3>4. QED
      BY <1>1, <3>1, <3>2, <3>3 DEF MappingTypes, AllSaved
  <2>4. QED
    BY <2>1, <2>2, <2>3
<1>10. ASSUME warm, NEW k \in Key \ spoiled' PROVE KeyInv(k)'
  <2>1. KeyInv(k)
    BY <1>1, <1>10 DEF MappingInv
  <2>2. \A n \in Mapping : NewsOf(n) /\ n # m => NewsOf(n)'
    BY <1>1, <1>5, <1>8, MappingFacts DEF NewsOf
  <2>3. NewsOf(m)'
    BY <1>8 DEF NewsOf
  <2>4. CachedInTime(k)'
    BY <1>1, <1>5, <2>1, MappingFacts DEF KeyInv, CachedInTime, IsActive, OlderOf, MappingTypes, CacheTypes
  <2>5. CachedOrNews(k)'
    BY <1>1, <1>5, <1>6, <2>1, <2>2, <2>3 DEF KeyInv, CachedOrNews
  <2>6. HandledInTime(k)'
    <3>1. \A h \in MappingHandler : handler[h].pc = "apply" => handler[h].id \in Mapping /\ handler[h].id # m
      BY <1>1, MappingFacts DEF MappingTypes, NewsTypes, AllSaved
    <3>2. QED
      BY <1>1, <1>5, <2>1, <3>1 DEF KeyInv, HandledInTime, OlderOf
  <2>7. FetchedInTime(k)'
    <3>1. inFlight[k].pc = "store" /\ inFlight[k].row # NoMapping => inFlight[k].row.id \in Mapping
      BY <1>1, <1>10, MappingFacts DEF MappingTypes, CacheTypes
    <3>2. QED
      BY <1>1, <1>5, <1>6, <2>1, <3>1 DEF KeyInv, FetchedInTime, IsActive
  <2>8. QED
    BY <2>4, <2>5, <2>6, <2>7 DEF KeyInv
<1>11. QED
  BY <1>1, <1>7, <1>9, <1>10 DEF MappingInv, MappingTypes

LEMMA ReadMappingKeeps ==
  ASSUME MappingInv, NEW w \in Writer, NEW m \in Mapping, NEW change \in {"update", "softDelete"}, ReadMapping(w, m, change)
  PROVE  MappingInv'
<1>1. /\ MappingTypes /\ writer[w] = Resting /\ mappings[m] # NoMapping
      /\ writer' = [writer EXCEPT ![w] = [pc |-> "save", id |-> m, change |-> change, row |-> mappings[m]]]
      /\ UNCHANGED <<mappings, mappingCache, inFlight, handler, pending, warm, saves, spoiled>>
  BY DEF ReadMapping, MappingInv
<1>2. /\ writer'[w] = [pc |-> "save", id |-> m, change |-> change, row |-> mappings[m]]
      /\ \A v \in Writer : v # w => writer'[v] = writer[v]
  BY <1>1 DEF MappingTypes, WriterTypes
<1>3. mappings[m] \in SavedRow /\ mappings[m].id = m
  BY <1>1 DEF MappingTypes, MappingRows
<1>4. WriterTypes'
  BY <1>1, <1>2, <1>3 DEF MappingTypes, WriterTypes, SaveRequest
<1>5. MappingRows' /\ OneActive' /\ CacheTypes' /\ NewsTypes'
  BY <1>1, RowsAsBefore DEF MappingTypes, CacheTypes, NewsTypes
<1>6. AllSaved'
  BY <1>1, <1>2 DEF MappingTypes, AllSaved
<1>7. ASSUME warm, NEW k \in Key \ spoiled' PROVE KeyInv(k)'
  <2>1. KeyInv(k)
    BY <1>1, <1>7 DEF MappingInv
  <2>2. \A n \in Mapping : NewsOf(n) => NewsOf(n)'
    BY <1>1, <1>2, MappingFacts DEF NewsOf
  <2>3. FetchedInTime(k)'
    BY <1>1, <2>1 DEF KeyInv, FetchedInTime, IsActive
  <2>4. QED
    BY <1>1, <2>1, <2>2, <2>3, KeyStays
<1>8. QED
  BY <1>1, <1>4, <1>5, <1>6, <1>7 DEF MappingInv, MappingTypes

LEMMA SaveMappingKeeps == ASSUME MappingInv, NEW w \in Writer, SaveMapping(w) PROVE MappingInv'
<1>0. PICK m, old, change, record : m = writer[w].id /\ old = writer[w].row /\ change = writer[w].change /\ record = Changed(old, change, saves + 1)
  OBVIOUS
<1>1. /\ MappingTypes /\ writer[w].pc = "save" /\ saves' = saves + 1
      /\ UNCHANGED <<mappingCache, inFlight, handler, pending, warm>>
      /\ IF record.active /\ ActiveMappings(mappings, TypeOf[m]) \ {m} # {}
         THEN writer' = [writer EXCEPT ![w] = Resting] /\ UNCHANGED <<mappings, spoiled>>
         ELSE /\ mappings' = [mappings EXCEPT ![m] = record]
              /\ writer' = [writer EXCEPT ![w] = [pc |-> "publish", id |-> m]]
              /\ spoiled' = spoiled \cup Reading(m) \cup (IF change = "softDelete" \/ mappings[m] # old THEN {TypeOf[m]} ELSE {})
  BY <1>0 DEF SaveMapping, MappingInv, Spoil
<1>2. /\ m \in Mapping /\ old \in SavedRow /\ old.id = m /\ change \in {"update", "softDelete"} /\ saves + 1 \in Nat
      /\ mappings[m] # NoMapping
  <2>1. writer[w] \in SaveRequest
    BY <1>1, MappingFacts DEF MappingTypes, WriterTypes
  <2>2. saves + 1 \in Nat /\ writer[w].row.id = writer[w].id /\ mappings[writer[w].id] # NoMapping
    BY <1>1, <2>1, MappingFacts DEF MappingTypes, WriterTypes, AllSaved
  <2>3. QED
    BY <1>0, <2>1, <2>2, MappingFacts
<1>3. TypeOf[m] \in Key
  BY <1>2, MappingAssumption DEF Key
<1>4. /\ record \in SavedRow /\ record.id = m /\ record # NoMapping /\ record.active \in BOOLEAN
      /\ change = "update" => record.version = old.version + 1 /\ record.active = old.active
  <2>1. /\ record \in SavedRow /\ record.id = m
        /\ change = "update" => record.version = old.version + 1 /\ record.active = old.active
    BY <1>0, <1>2, ChangedFacts
  <2>2. QED
    BY <2>1, MappingFacts
<1>5. CacheTypes' /\ NewsTypes'
  BY <1>1, <1>3 DEF MappingTypes, CacheTypes, NewsTypes, Reading
<1>6. CASE writer' = [writer EXCEPT ![w] = Resting] /\ UNCHANGED <<mappings, spoiled>>
  <2>1. writer'[w] = Resting /\ \A v \in Writer : v # w => writer'[v] = writer[v]
    BY <1>1, <1>6 DEF MappingTypes, WriterTypes
  <2>2. WriterTypes' /\ AllSaved'
    BY <1>1, <1>2, <1>6, <2>1, MappingFacts DEF MappingTypes, WriterTypes, AllSaved
  <2>3. MappingRows' /\ OneActive'
    BY <1>1, <1>6, RowsAsBefore DEF MappingTypes
  <2>4. ASSUME warm, NEW k \in Key \ spoiled' PROVE KeyInv(k)'
    <3>1. KeyInv(k)
      BY <1>6, <2>4 DEF MappingInv
    <3>2. \A n \in Mapping : NewsOf(n) => NewsOf(n)'
      BY <1>1, <1>6, <2>1, MappingFacts DEF NewsOf
    <3>3. FetchedInTime(k)'
      BY <1>1, <1>6, <3>1 DEF KeyInv, FetchedInTime, IsActive
    <3>4. QED
      BY <1>1, <1>6, <3>1, <3>2, <3>3, KeyStays
  <2>5. QED
    BY <1>1, <1>5, <2>2, <2>3, <2>4 DEF MappingInv, MappingTypes
<1>7. CASE /\ ~ (record.active /\ ActiveMappings(mappings, TypeOf[m]) \ {m} # {})
           /\ mappings' = [mappings EXCEPT ![m] = record] /\ writer' = [writer EXCEPT ![w] = [pc |-> "publish", id |-> m]]
           /\ spoiled' = spoiled \cup Reading(m) \cup (IF change = "softDelete" \/ mappings[m] # old THEN {TypeOf[m]} ELSE {})
  <2>1. mappings'[m] = record /\ \A n \in Mapping : n # m => mappings'[n] = mappings[n]
    BY <1>1, <1>2, <1>7 DEF MappingTypes, MappingRows
  <2>2. writer'[w] = [pc |-> "publish", id |-> m] /\ \A v \in Writer : v # w => writer'[v] = writer[v]
    BY <1>1, <1>7 DEF MappingTypes, WriterTypes
  <2>3. MappingRows'
    BY <1>1, <1>2, <1>4, <1>7 DEF MappingTypes, MappingRows
  <2>4. OneActive'
    <3>1. record.active => \A n \in Mapping : IsActive(n) /\ TypeOf[n] = TypeOf[m] => n = m
      BY <1>1, <1>3, <1>7, FoundFacts DEF MappingTypes
    <3>2. IsActive(m)' <=> record.active
      BY <1>4, <2>1 DEF IsActive
    <3>3. \A n \in Mapping : n # m => (IsActive(n)' <=> IsActive(n))
      BY <2>1 DEF IsActive
    <3>4. QED
      BY <1>1, <3>1, <3>2, <3>3 DEF MappingTypes, OneActive
  <2>5. WriterTypes'
    BY <1>1, <1>2, <1>7, <2>2, MappingFacts DEF MappingTypes, WriterTypes, PublishRequest
  <2>6. AllSaved'
    <3>1. \A n \in Mapping : mappings[n] # NoMapping => mappings'[n] # NoMapping
      BY <1>4, <2>1
    <3>2. \A v \in Writer : writer'[v] # Resting => mappings'[writer'[v].id] # NoMapping
      BY <1>1, <1>2, <1>4, <2>1, <2>2, <3>1, MappingFacts DEF MappingTypes, AllSaved, WriterTypes
    <3>3. \A h \in MappingHandler : handler'[h] # Resting => mappings'[handler'[h].id] # NoMapping
      BY <1>1, <3>1, MappingFacts DEF MappingTypes, AllSaved, NewsTypes
    <3>4. QED
      BY <1>1, <3>1, <3>2, <3>3 DEF MappingTypes, AllSaved
  <2>7. ASSUME warm, NEW k \in Key \ spoiled' PROVE KeyInv(k)'
    <3>1. KeyInv(k) /\ k \notin Reading(m)
      BY <1>7, <2>7 DEF MappingInv
    <3>2. k = TypeOf[m] => /\ mappings[m] = old /\ record.version > mappings[m].version /\ record.active = mappings[m].active
                           /\ inFlight[k].pc = "idle"
      BY <1>2, <1>4, <1>7, <2>7, <3>1, MappingFacts DEF Reading
    <3>3. \A n \in Mapping : TypeOf[n] = k => (IsActive(n)' <=> IsActive(n))
      BY <1>2, <1>4, <2>1, <3>2 DEF IsActive
    <3>4. \A n \in Mapping : NewsOf(n) /\ n # m => NewsOf(n)'
      BY <1>1, <2>1, <2>2, MappingFacts DEF NewsOf
    <3>5. NewsOf(m)'
      BY <2>2 DEF NewsOf
    <3>6. \A r \in SavedRow : r.id \in Mapping /\ TypeOf[r.id] = k /\ OlderOf(r, r.id) => OlderOf(r, r.id)'
      <4> SUFFICES ASSUME NEW r \in SavedRow, TypeOf[r.id] = k, OlderOf(r, r.id) PROVE OlderOf(r, r.id)'
        OBVIOUS
      <4>1. CASE r.id = m
        <5>1. r.version <= old.version /\ record.version = old.version + 1
          BY <1>2, <1>4, <1>7, <2>7, <3>2, <4>1, MappingFacts DEF OlderOf
        <5>2. QED
          BY <1>2, <2>1, <4>1, <5>1, MappingFacts DEF OlderOf
      <4>2. CASE r.id # m
        BY <2>1, <4>2, MappingFacts DEF OlderOf
      <4>3. QED
        BY <4>1, <4>2
    <3>7. CachedInTime(k)'
      <4>1. mappingCache[k] # NoMapping => mappingCache[k] \in SavedRow /\ mappingCache[k].id \in Mapping
        BY <1>1, <2>7, MappingFacts DEF MappingTypes, CacheTypes
      <4>2. QED
        BY <1>1, <3>1, <3>3, <3>6, <4>1 DEF KeyInv, CachedInTime, OlderOf
    <3>8. CachedOrNews(k)'
      BY <1>1, <2>1, <3>1, <3>3, <3>4, <3>5 DEF KeyInv, CachedOrNews
    <3>9. HandledInTime(k)'
      <4> SUFFICES ASSUME NEW h \in MappingHandler, handler[h].pc = "apply", TypeOf[handler[h].id] = k
                   PROVE  OlderOf(handler[h].row, handler[h].id)' /\ handler[h].row.active = mappings'[handler[h].id].active
        BY <1>1 DEF HandledInTime
      <4>1. handler[h].row \in SavedRow /\ handler[h].id \in Mapping /\ handler[h].row.id = handler[h].id
        BY <1>1, MappingFacts DEF MappingTypes, NewsTypes
      <4>2. OlderOf(handler[h].row, handler[h].id) /\ handler[h].row.active = mappings[handler[h].id].active
        BY <3>1 DEF KeyInv, HandledInTime
      <4>3. OlderOf(handler[h].row, handler[h].id)'
        BY <1>1, <3>6, <4>1, <4>2 DEF OlderOf
      <4>4. QED
        BY <2>1, <3>2, <4>1, <4>2, <4>3
    <3>10. FetchedInTime(k)'
      <4>1. inFlight[k].pc = "store" /\ inFlight[k].row # NoMapping => inFlight[k].row.id \in Mapping
        BY <1>1, <2>7, MappingFacts DEF MappingTypes, CacheTypes
      <4>2. QED
        BY <1>1, <2>1, <3>1, <3>2, <3>3, <4>1 DEF KeyInv, FetchedInTime
    <3>11. QED
      BY <3>7, <3>8, <3>9, <3>10 DEF KeyInv
  <2>8. QED
    BY <1>1, <1>5, <2>3, <2>4, <2>5, <2>6, <2>7 DEF MappingInv, MappingTypes
<1>8. QED
  BY <1>1, <1>6, <1>7

LEMMA PublishKeeps == ASSUME MappingInv, NEW w \in Writer, Publish(w) PROVE MappingInv'
<1>0. PICK m : m = writer[w].id
  OBVIOUS
<1>1. /\ MappingTypes /\ writer[w].pc = "publish" /\ writer' = [writer EXCEPT ![w] = Resting]
      /\ \/ pending' = [pending EXCEPT ![m] = @ + 1] /\ UNCHANGED spoiled
         \/ spoiled' = spoiled \cup {TypeOf[m]} /\ UNCHANGED pending
      /\ UNCHANGED <<mappings, mappingCache, inFlight, handler, warm, saves>>
  BY <1>0 DEF Publish, MappingInv, Spoil
<1>2. m \in Mapping /\ mappings[m] # NoMapping /\ TypeOf[m] \in Key
  <2>1. writer[w] \in PublishRequest
    BY <1>1, MappingFacts DEF MappingTypes, WriterTypes
  <2>2. QED
    BY <1>0, <1>1, <2>1, MappingFacts, MappingAssumption DEF MappingTypes, AllSaved, Key
<1>3. writer'[w] = Resting /\ \A v \in Writer : v # w => writer'[v] = writer[v]
  BY <1>1 DEF MappingTypes, WriterTypes
<1>4. \A n \in Mapping : pending[n] \in Nat /\ pending'[n] \in Nat /\ (pending'[n] = pending[n] \/ n = m)
                         /\ (pending[n] > 0 => pending'[n] > 0)
  BY <1>1, <1>2 DEF MappingTypes, NewsTypes
<1>5. WriterTypes' /\ AllSaved'
  BY <1>1, <1>2, <1>3, <1>4, MappingFacts DEF MappingTypes, WriterTypes, AllSaved
<1>6. MappingRows' /\ OneActive' /\ CacheTypes' /\ NewsTypes'
  <2>1. NewsTypes'
    BY <1>1, <1>2 DEF MappingTypes, NewsTypes
  <2>2. CacheTypes'
    BY <1>1, <1>2 DEF MappingTypes, CacheTypes
  <2>3. QED
    BY <1>1, <2>1, <2>2, RowsAsBefore DEF MappingTypes
<1>7. ASSUME warm, NEW k \in Key \ spoiled' PROVE KeyInv(k)'
  <2>1. KeyInv(k)
    BY <1>1, <1>7 DEF MappingInv
  <2>2. k = TypeOf[m] => pending'[m] > 0
    BY <1>1, <1>2, <1>7 DEF MappingTypes, NewsTypes
  <2>3. \A n \in Mapping : TypeOf[n] = k /\ NewsOf(n) => NewsOf(n)'
    BY <1>0, <1>1, <1>3, <1>4, <2>2, MappingFacts DEF NewsOf
  <2>4. FetchedInTime(k)'
    BY <1>1, <2>1 DEF KeyInv, FetchedInTime, IsActive
  <2>5. QED
    BY <1>1, <2>1, <2>3, <2>4, KeyStays
<1>8. QED
  BY <1>1, <1>5, <1>6, <1>7 DEF MappingInv, MappingTypes

\* A fetch that goes on without touching the cache.
LEMMA FetchKeeps ==
  ASSUME MappingInv, NEW k \in Key, warm, NEW next \in Fetching, inFlight' = [inFlight EXCEPT ![k] = next],
         next.pc = "store" /\ next.row # NoMapping /\ TypeOf[next.row.id] = k => IsActive(next.row.id) /\ next.row = mappings[next.row.id],
         UNCHANGED <<mappings, mappingCache, writer, handler, pending, warm, saves, restarts, spoiled>>
  PROVE  MappingInv'
<1>1. inFlight'[k] = next /\ \A j \in Key : j # k => inFlight'[j] = inFlight[j]
  BY DEF MappingInv, MappingTypes, CacheTypes
<1>2. MappingTypes'
  <2>1. CacheTypes'
    BY DEF MappingInv, MappingTypes, CacheTypes
  <2>2. QED
    BY <2>1, RowsAsBefore DEF MappingInv, MappingTypes, WriterTypes, NewsTypes, AllSaved
<1>3. ASSUME NEW j \in Key \ spoiled' PROVE KeyInv(j)'
  <2>1. KeyInv(j)
    BY <1>3 DEF MappingInv
  <2>2. FetchedInTime(j)'
    BY <1>1, <2>1 DEF KeyInv, FetchedInTime, IsActive
  <2>3. \A n \in Mapping : NewsOf(n) => NewsOf(n)'
    BY DEF NewsOf
  <2>4. QED
    BY <2>1, <2>2, <2>3, KeyStays
<1>4. QED
  BY <1>2, <1>3 DEF MappingInv

LEMMA MissMappingKeeps == ASSUME MappingInv, NEW k \in Key, MissMapping(k) \/ FetchExact(k) \/ FetchWildcard(k) PROVE MappingInv'
<1>1. MappingRows /\ OneActive /\ CacheTypes /\ "*" \in Key
  BY DEF MappingInv, MappingTypes, Key
<1>2. FindBySourceAndType(k) \in {NoMapping} \cup SavedRow /\ FindBySourceAndType("*") \in {NoMapping} \cup SavedRow
  BY <1>1, FoundFacts DEF MappingRows
<1>3. \A j \in Key : FindBySourceAndType(j) # NoMapping =>
        LET record == FindBySourceAndType(j) IN TypeOf[record.id] = j /\ IsActive(record.id) /\ record = mappings[record.id]
  BY <1>1, FoundFacts
<1>4. MissMapping(k) \/ warm
  <2>1. CASE ~ warm
    BY <2>1, MappingFacts DEF MappingInv, MissMapping, FetchExact, FetchWildcard
  <2>2. QED
    BY <2>1
<1>5. CASE MissMapping(k)
  <2>1. [pc |-> "exact"] \in Fetching /\ [pc |-> "exact"].pc # "store"
    BY DEF Fetching
  <2>2. QED
    BY <1>5, <2>1, FetchKeeps DEF MissMapping
<1>6. CASE FetchExact(k) /\ FindBySourceAndType(k) = NoMapping
  <2>1. [pc |-> "wildcard"] \in Fetching /\ [pc |-> "wildcard"].pc # "store"
    BY DEF Fetching
  <2>2. inFlight' = [inFlight EXCEPT ![k] = [pc |-> "wildcard"]]
    BY <1>6 DEF FetchExact
  <2>3. QED
    BY <1>4, <1>6, <2>1, <2>2, FetchKeeps, MappingFacts DEF FetchExact, MissMapping
<1>7. ASSUME NEW j \in Key, j = k \/ j = "*",
             inFlight' = [inFlight EXCEPT ![k] = [pc |-> "store", row |-> FindBySourceAndType(j)]],
             UNCHANGED <<mappings, mappingCache, writer, handler, pending, warm, saves, restarts, spoiled>>, warm
      PROVE  MappingInv'
  <2>1. [pc |-> "store", row |-> FindBySourceAndType(j)] \in Fetching
    BY <1>2, <1>7 DEF Fetching
  <2>2. QED
    BY <1>3, <1>7, <2>1, FetchKeeps
<1>8. CASE FetchExact(k) /\ FindBySourceAndType(k) # NoMapping
  BY <1>4, <1>5, <1>7, <1>8 DEF FetchExact
<1>9. CASE FetchWildcard(k)
  BY <1>1, <1>4, <1>5, <1>7, <1>9 DEF FetchWildcard
<1>10. QED
  BY <1>5, <1>6, <1>8, <1>9

LEMMA StoreMappingKeeps == ASSUME MappingInv, NEW k \in Key, StoreMapping(k) PROVE MappingInv'
<1>0. PICK record : record = inFlight[k].row
  OBVIOUS
<1>1. /\ MappingTypes /\ inFlight[k].pc = "store" /\ inFlight' = [inFlight EXCEPT ![k] = Resting]
      /\ IF record = NoMapping THEN UNCHANGED <<mappingCache, spoiled>>
         ELSE /\ mappingCache' = [mappingCache EXCEPT ![k] = record]
              /\ spoiled' = spoiled \cup (IF TypeOf[record.id] # k \/ (mappingCache[k] # NoMapping /\ mappingCache[k] # record) THEN {k} ELSE {})
      /\ UNCHANGED <<mappings, writer, handler, pending, warm, saves>>
  BY <1>0 DEF StoreMapping, MappingInv, Spoil
<1>2. warm /\ record \in {NoMapping} \cup SavedRow
  BY <1>0, <1>1, MappingFacts DEF MappingInv, MappingTypes, CacheTypes
<1>3. inFlight'[k] = Resting /\ \A j \in Key : j # k => inFlight'[j] = inFlight[j]
  BY <1>1 DEF MappingTypes, CacheTypes
<1>4. CacheTypes'
  BY <1>1, <1>2 DEF MappingTypes, CacheTypes, Fetching
<1>5. MappingRows' /\ OneActive' /\ WriterTypes' /\ NewsTypes' /\ AllSaved'
  BY <1>1, RowsAsBefore DEF MappingTypes, WriterTypes, NewsTypes, AllSaved
<1>6. \A n \in Mapping : NewsOf(n) => NewsOf(n)'
  BY <1>1 DEF NewsOf
<1>7. ASSUME NEW j \in Key \ spoiled' PROVE KeyInv(j)'
  <2>1. KeyInv(j)
    BY <1>1, <1>2, <1>7 DEF MappingInv
  <2>2. FetchedInTime(j)'
    BY <1>1, <1>3, <2>1, MappingFacts DEF KeyInv, FetchedInTime, IsActive
  <2>3. CASE mappingCache'[j] = mappingCache[j]
    BY <1>1, <1>6, <2>1, <2>2, <2>3, KeyStays
  <2>4. CASE mappingCache'[j] # mappingCache[j]
    <3>1. /\ j = k /\ record \in SavedRow /\ TypeOf[record.id] = k /\ mappingCache'[k] = record
          /\ IsActive(record.id) /\ record = mappings[record.id]
      BY <1>0, <1>1, <1>2, <1>7, <2>1, <2>4 DEF MappingTypes, CacheTypes, KeyInv, FetchedInTime
    <3>2. \A n \in Mapping : IsActive(n)' <=> IsActive(n)
      BY <1>1 DEF IsActive
    <3>3. record.id \in Mapping
      BY <3>1, MappingFacts
    <3>4. CachedInTime(k)'
      BY <1>1, <3>1, <3>2, <3>3 DEF CachedInTime, OlderOf
    <3>5. CachedOrNews(k)'
      BY <1>1, <3>1, <3>2, <3>3 DEF CachedOrNews, MappingTypes, OneActive
    <3>6. HandledInTime(k)'
      BY <1>1, <2>1, <3>1 DEF KeyInv, HandledInTime, OlderOf
    <3>7. QED
      BY <2>2, <3>1, <3>4, <3>5, <3>6 DEF KeyInv
  <2>5. QED
    BY <2>3, <2>4
<1>8. QED
  BY <1>1, <1>2, <1>4, <1>5, <1>7 DEF MappingInv, MappingTypes

LEMMA DeliverKeeps == ASSUME MappingInv, NEW h \in MappingHandler, NEW m \in Mapping, DeliverChange(h, m) PROVE MappingInv'
<1>1. /\ MappingTypes /\ warm /\ handler[h] = Resting /\ pending[m] > 0 /\ pending' = [pending EXCEPT ![m] = @ - 1]
      /\ handler' = [handler EXCEPT ![h] = [pc |-> "find", id |-> m]]
      /\ UNCHANGED <<mappings, mappingCache, inFlight, writer, warm, saves, spoiled>>
  BY DEF DeliverChange, MappingInv
<1>2. handler'[h] = [pc |-> "find", id |-> m] /\ \A g \in MappingHandler : g # h => handler'[g] = handler[g]
  BY <1>1 DEF MappingTypes, NewsTypes
<1>3. \A n \in Mapping : pending[n] \in Nat /\ pending'[n] \in Nat /\ (pending'[n] = pending[n] \/ n = m)
                         /\ (pending'[n] > 0 => pending[n] > 0)
  BY <1>1 DEF MappingTypes, NewsTypes
<1>4. NewsTypes'
  BY <1>1, <1>2 DEF MappingTypes, NewsTypes, FindTask
<1>5. AllSaved'
  BY <1>1, <1>2, <1>3, MappingFacts DEF MappingTypes, AllSaved
<1>6. MappingRows' /\ OneActive' /\ CacheTypes' /\ WriterTypes'
  BY <1>1, RowsAsBefore DEF MappingTypes, CacheTypes, WriterTypes
<1>7. ASSUME NEW k \in Key \ spoiled' PROVE KeyInv(k)'
  <2>1. KeyInv(k)
    BY <1>1, <1>7 DEF MappingInv
  <2>2. \A n \in Mapping : NewsOf(n) => NewsOf(n)'
    BY <1>1, <1>2, <1>3, MappingFacts DEF NewsOf
  <2>3. FetchedInTime(k)'
    BY <1>1, <2>1 DEF KeyInv, FetchedInTime, IsActive
  <2>4. QED
    BY <1>1, <1>2, <2>1, <2>2, <2>3, KeyStays
<1>8. QED
  BY <1>1, <1>4, <1>5, <1>6, <1>7 DEF MappingInv, MappingTypes

LEMMA FindByIdKeeps == ASSUME MappingInv, NEW h \in MappingHandler, FindById(h) PROVE MappingInv'
<1>0. PICK m : m = handler[h].id
  OBVIOUS
<1>1. /\ MappingTypes /\ handler[h].pc = "find"
      /\ \/ handler' = [handler EXCEPT ![h] = [pc |-> "apply", id |-> m, row |-> mappings[m]]] /\ UNCHANGED spoiled
         \/ handler' = [handler EXCEPT ![h] = Resting] /\ spoiled' = spoiled \cup {TypeOf[m]}
      /\ UNCHANGED <<mappings, mappingCache, inFlight, writer, pending, warm, saves>>
  BY <1>0 DEF FindById, MappingInv, Spoil
<1>2. m \in Mapping /\ mappings[m] \in SavedRow /\ mappings[m] # NoMapping /\ mappings[m].id = m /\ TypeOf[m] \in Key /\ warm
  <2>1. handler[h] \in FindTask
    BY <1>1, MappingFacts DEF MappingTypes, NewsTypes
  <2>2. m \in Mapping /\ mappings[m] # NoMapping
    BY <1>0, <1>1, <2>1, MappingFacts DEF MappingTypes, AllSaved
  <2>3. QED
    BY <1>1, <2>1, <2>2, MappingFacts, MappingAssumption DEF MappingTypes, MappingRows, Key, MappingInv
<1>3. /\ handler'[h] = Resting \/ handler'[h] = [pc |-> "apply", id |-> m, row |-> mappings[m]]
      /\ \A g \in MappingHandler : g # h => handler'[g] = handler[g]
  BY <1>1 DEF MappingTypes, NewsTypes
<1>4. NewsTypes'
  BY <1>1, <1>2, <1>3, MappingFacts DEF MappingTypes, NewsTypes, ApplyTask
<1>5. AllSaved'
  BY <1>1, <1>2, <1>3, MappingFacts DEF MappingTypes, AllSaved
<1>6. MappingRows' /\ OneActive' /\ CacheTypes' /\ WriterTypes'
  BY <1>1, <1>2, RowsAsBefore DEF MappingTypes, CacheTypes, WriterTypes
<1>7. ASSUME NEW k \in Key \ spoiled' PROVE KeyInv(k)'
  <2>1. KeyInv(k)
    BY <1>1, <1>2, <1>7 DEF MappingInv
  <2>2. k = TypeOf[m] => handler'[h] = [pc |-> "apply", id |-> m, row |-> mappings[m]]
    BY <1>1, <1>2, <1>7 DEF MappingTypes, NewsTypes
  <2>3. ASSUME NEW n \in Mapping, TypeOf[n] = k, NewsOf(n) PROVE NewsOf(n)'
    <3>1. CASE n = m
      BY <1>1, <2>2, <2>3, <3>1 DEF NewsOf
    <3>2. CASE n # m
      BY <1>0, <1>1, <1>3, <2>3, <3>2, MappingFacts DEF NewsOf
    <3>3. QED
      BY <3>1, <3>2
  <2>4. FetchedInTime(k)'
    BY <1>1, <2>1 DEF KeyInv, FetchedInTime, IsActive
  <2>5. \A g \in MappingHandler : handler'[g].pc = "apply" => handler'[g] = handler[g] \/ handler'[g].row = mappings[handler'[g].id]
    BY <1>3, MappingFacts
  <2>6. QED
    BY <1>1, <2>1, <2>3, <2>4, <2>5, KeyStays
<1>8. QED
  BY <1>1, <1>2, <1>4, <1>5, <1>6, <1>7 DEF MappingInv, MappingTypes

LEMMA ApplyFacts ==
  ASSUME MappingInv, NEW h \in MappingHandler, Apply(h)
  PROVE  LET record == handler[h].row
             k == TypeOf[record.id]
         IN /\ handler[h].pc = "apply" /\ record \in SavedRow /\ record.id = handler[h].id /\ k \in Key /\ warm
            /\ handler'[h] = Resting /\ \A g \in MappingHandler : g # h => handler'[g] = handler[g]
            /\ \A j \in Key : j # k => mappingCache'[j] = mappingCache[j]
            /\ mappingCache'[k] = IF mappingCache[k] # NoMapping /\ mappingCache[k].version >= record.version THEN mappingCache[k]
                                  ELSE IF record.active THEN record ELSE NoMapping
<1>1. handler[h].pc = "apply" /\ MappingTypes
  BY DEF Apply, MappingInv
<1>2. handler[h] \in ApplyTask
  BY <1>1, MappingFacts DEF MappingTypes, NewsTypes
<1>3. handler[h].row \in SavedRow /\ handler[h].row.id = handler[h].id /\ handler[h].row.id \in Mapping
  BY <1>1, <1>2, MappingFacts DEF MappingTypes, NewsTypes
<1>4. TypeOf[handler[h].row.id] \in Key
  BY <1>3, MappingAssumption DEF Key
<1>5. warm
  BY <1>1, MappingFacts DEF MappingInv
<1>6. QED
  BY <1>1, <1>3, <1>4, <1>5 DEF Apply, Outdated, MappingTypes, NewsTypes, CacheTypes

LEMMA ApplyKeeps == ASSUME MappingInv, NEW h \in MappingHandler, Apply(h) PROVE MappingInv'
<1>0. PICK record, m, c : record = handler[h].row /\ m = record.id /\ c = TypeOf[record.id]
  OBVIOUS
<1>1. /\ handler[h].pc = "apply" /\ record \in SavedRow /\ m = handler[h].id /\ c \in Key /\ warm
      /\ handler'[h] = Resting /\ \A g \in MappingHandler : g # h => handler'[g] = handler[g]
      /\ \A j \in Key : j # c => mappingCache'[j] = mappingCache[j]
      /\ mappingCache'[c] = IF mappingCache[c] # NoMapping /\ mappingCache[c].version >= record.version THEN mappingCache[c]
                            ELSE IF record.active THEN record ELSE NoMapping
  BY <1>0, ApplyFacts
<1>2. /\ MappingTypes /\ handler' = [handler EXCEPT ![h] = Resting]
      /\ spoiled' = spoiled \cup (IF mappingCache[c] # NoMapping /\ mappingCache[c].id # m THEN {c} ELSE {})
      /\ UNCHANGED <<mappings, inFlight, writer, pending, warm, saves>>
  BY <1>0 DEF Apply, MappingInv, Spoil
<1>3. CacheTypes'
  <2>1. mappingCache' \in [Key -> {NoMapping} \cup SavedRow]
    <3>1. mappingCache' = mappingCache \/ mappingCache' = [mappingCache EXCEPT ![c] = IF record.active THEN record ELSE NoMapping]
      BY <1>0 DEF Apply
    <3>2. QED
      BY <1>1, <1>2, <3>1 DEF MappingTypes, CacheTypes
  <2>2. QED
    BY <1>1, <1>2, <2>1 DEF MappingTypes, CacheTypes
<1>4. NewsTypes' /\ AllSaved'
  BY <1>1, <1>2, MappingFacts DEF MappingTypes, NewsTypes, AllSaved
<1>5. MappingRows' /\ OneActive' /\ WriterTypes'
  BY <1>2, RowsAsBefore DEF MappingTypes, WriterTypes
<1>6. ASSUME NEW k \in Key \ spoiled' PROVE KeyInv(k)'
  <2>1. KeyInv(k)
    BY <1>1, <1>2, <1>6 DEF MappingInv
  <2>2. FetchedInTime(k)'
    BY <1>2, <2>1 DEF KeyInv, FetchedInTime, IsActive
  <2>3. \A g \in MappingHandler : handler'[g].pc = "apply" => handler'[g] = handler[g]
    BY <1>1, MappingFacts
  <2>4. ASSUME NEW n \in Mapping, NewsOf(n), ~ (record = mappings[n]) PROVE NewsOf(n)'
    BY <1>0, <1>1, <1>2, <2>4, MappingFacts DEF NewsOf
  <2>5. CASE k # c
    <3>1. \A n \in Mapping : TypeOf[n] = k => record # mappings[n] \/ ~ IsActive(n)
      BY <1>0, <1>2, <2>5 DEF MappingTypes, MappingRows, IsActive
    <3>2. CachedOrNews(k)'
      BY <1>1, <1>2, <2>1, <2>4, <2>5, <3>1 DEF KeyInv, CachedOrNews, IsActive
    <3>3. CachedInTime(k)' /\ HandledInTime(k)'
      BY <1>1, <1>2, <2>1, <2>3, <2>5 DEF KeyInv, CachedInTime, HandledInTime, OlderOf, IsActive
    <3>4. QED
      BY <2>2, <3>2, <3>3 DEF KeyInv
  <2>6. CASE k = c
    <3>1. /\ m \in Mapping /\ mappings[m] \in SavedRow /\ mappings[m].id = m
          /\ mappingCache[k] \in {NoMapping} \cup SavedRow
      <4>1. m \in Mapping
        BY <1>0, <1>1, MappingFacts
      <4>2. mappings[m] # NoMapping
        BY <1>1, <1>2, MappingFacts DEF MappingTypes, AllSaved
      <4>3. QED
        BY <1>2, <1>6, <4>1, <4>2 DEF MappingTypes, MappingRows, CacheTypes
    <3>2. OlderOf(record, m) /\ record.active = mappings[m].active /\ (record.active => IsActive(m))
      <4>1. OlderOf(record, m) /\ record.active = mappings[m].active
        BY <1>0, <1>1, <2>1, <2>6 DEF KeyInv, HandledInTime
      <4>2. QED
        BY <3>1, <4>1, MappingFacts DEF IsActive
    <3>3. mappingCache[k] # NoMapping => mappingCache[k].id = m /\ IsActive(m) /\ OlderOf(mappingCache[k], m)
      BY <1>2, <1>6, <2>1, <2>6 DEF KeyInv, CachedInTime
    <3>4. mappingCache'[k] = mappingCache[k] \/ (mappingCache'[k] = record /\ IsActive(m))
      <4>1. CASE record.active
        BY <1>1, <2>6, <3>2, <4>1
      <4>2. CASE ~ record.active
        <5>1. ~ IsActive(m)
          BY <3>2, <4>2 DEF IsActive
        <5>2. mappingCache[k] = NoMapping
          BY <3>3, <5>1
        <5>3. mappingCache'[c] = IF record.active THEN record ELSE NoMapping
          BY <1>1, <2>6, <5>2
        <5>4. mappingCache'[c] = NoMapping
          BY <4>2, <5>3
        <5>5. QED
          BY <2>6, <5>2, <5>4
      <4>3. QED
        BY <4>1, <4>2
    <3>5. CachedInTime(k)'
      BY <1>0, <1>2, <2>1, <2>6, <3>2, <3>4 DEF KeyInv, CachedInTime, OlderOf, IsActive
    <3>6. HandledInTime(k)'
      BY <1>2, <2>1, <2>3 DEF KeyInv, HandledInTime, OlderOf
    <3>7. CachedOrNews(k)'
      <4> SUFFICES ASSUME NEW n \in Mapping, TypeOf[n] = k, IsActive(n) PROVE mappingCache'[k] = mappings[n] \/ NewsOf(n)'
        BY <1>2 DEF CachedOrNews, IsActive
      <4>1. mappingCache[k] = mappings[n] \/ NewsOf(n)
        BY <2>1 DEF KeyInv, CachedOrNews
      <4>2. mappings[n] \in SavedRow /\ mappings[n].id = n
        BY <1>2 DEF MappingTypes, MappingRows, IsActive
      <4>3. CASE record = mappings[n]
        <5>1. n = m /\ record.active
          BY <1>0, <4>2, <4>3 DEF IsActive
        <5>2. mappingCache[k] # NoMapping /\ mappingCache[k].version >= record.version => mappingCache[k] = mappings[n]
          BY <1>1, <3>1, <3>3, <4>3, <5>1, MappingFacts DEF OlderOf
        <5>3. QED
          BY <1>1, <2>6, <4>3, <5>1, <5>2
      <4>4. CASE record # mappings[n]
        <5>1. CASE mappingCache[k] = mappings[n] /\ ~ NewsOf(n)
          <6>1. n = m
            BY <3>1, <3>3, <4>2, <5>1, MappingFacts
          <6>2. record.version < mappings[n].version
            BY <3>2, <4>4, <6>1 DEF OlderOf
          <6>3. mappingCache'[k] = mappingCache[k]
            BY <1>1, <2>6, <4>2, <5>1, <6>2, MappingFacts
          <6>4. QED
            BY <5>1, <6>3
        <5>2. CASE NewsOf(n)
          BY <2>4, <4>4, <5>2
        <5>3. QED
          BY <4>1, <5>1, <5>2
      <4>5. QED
        BY <4>3, <4>4
    <3>8. QED
      BY <2>2, <2>6, <3>5, <3>6, <3>7 DEF KeyInv
  <2>7. QED
    BY <2>5, <2>6
<1>7. QED
  BY <1>1, <1>2, <1>3, <1>4, <1>5, <1>6 DEF MappingInv, MappingTypes

LEMMA RestartCacheKeeps == ASSUME MappingInv, RestartCache PROVE MappingInv'
<1> DEFINE HeldOf(m) == {h \in MappingHandler : handler[h] # Resting /\ handler[h].id = m}
<1>1. /\ MappingTypes /\ warm' = FALSE /\ pending' = [m \in Mapping |-> pending[m] + Cardinality(HeldOf(m))]
      /\ handler' = [h \in MappingHandler |-> Resting] /\ inFlight' = [k \in Key |-> Resting]
      /\ UNCHANGED <<mappings, mappingCache, writer, saves, spoiled>>
  BY DEF RestartCache, MappingInv
<1>2. \A m \in Mapping : Cardinality(HeldOf(m)) \in Nat /\ (HeldOf(m) = {} => Cardinality(HeldOf(m)) = 0)
  <2>1. \A m \in Mapping : IsFiniteSet(HeldOf(m))
    BY MappingAssumption, FS_Subset
  <2>2. QED
    BY <2>1, FS_CardinalityType, FS_EmptySet
<1>3. \A m \in Mapping : pending[m] \in Nat /\ pending'[m] \in Nat /\ (pending'[m] > 0 => pending[m] > 0 \/ HeldOf(m) # {})
  BY <1>1, <1>2 DEF MappingTypes, NewsTypes
<1>4. NewsTypes'
  <2>1. pending' \in [Mapping -> Nat]
    BY <1>1, <1>3
  <2>2. QED
    BY <1>1, <2>1, MappingFacts DEF NewsTypes
<1>5. AllSaved'
  BY <1>1, <1>3 DEF MappingTypes, AllSaved
<1>6. MappingRows' /\ OneActive' /\ CacheTypes' /\ WriterTypes'
  <2>1. CacheTypes'
    BY <1>1 DEF MappingTypes, CacheTypes, Fetching
  <2>2. QED
    BY <1>1, <2>1, RowsAsBefore DEF MappingTypes, WriterTypes
<1>7. QED
  BY <1>1, <1>4, <1>5, <1>6 DEF MappingInv, MappingTypes

LEMMA WarmUpKeeps == ASSUME MappingInv, WarmUp PROVE MappingInv'
<1>1. /\ MappingTypes /\ ~ warm /\ warm' = TRUE /\ mappingCache' = [k \in Key |-> FindBySourceAndType(k)] /\ spoiled' = {}
      /\ UNCHANGED <<mappings, inFlight, writer, handler, pending, saves>>
  BY DEF WarmUp, MappingInv
<1>2. (\A h \in MappingHandler : handler[h] = Resting) /\ \A k \in Key : inFlight[k] = Resting
  BY <1>1 DEF MappingInv
<1>3. \A k \in Key : FindBySourceAndType(k) \in {NoMapping} \cup SavedRow
  BY <1>1, FoundFacts DEF MappingTypes, MappingRows
<1>4. MappingTypes'
  <2>1. CacheTypes'
    BY <1>1, <1>3 DEF MappingTypes, CacheTypes
  <2>2. QED
    BY <1>1, <2>1, RowsAsBefore DEF MappingTypes, WriterTypes, NewsTypes, AllSaved
<1>5. ASSUME NEW k \in Key PROVE KeyInv(k)'
  <2>1. mappingCache'[k] = FindBySourceAndType(k)
    BY <1>1
  <2>2. \A m \in Mapping : IsActive(m)' <=> IsActive(m)
    BY <1>1 DEF IsActive
  <2>3. CachedInTime(k)' /\ CachedOrNews(k)'
    BY <1>1, <2>1, <2>2, FoundFacts DEF MappingTypes, CachedInTime, CachedOrNews, OlderOf
  <2>4. HandledInTime(k)' /\ FetchedInTime(k)'
    BY <1>1, <1>2, MappingFacts DEF HandledInTime, FetchedInTime
  <2>5. QED
    BY <2>3, <2>4 DEF KeyInv
<1>6. QED
  BY <1>1, <1>4, <1>5 DEF MappingInv

LEMMA MappingsStart == MappingsInit => MappingInv
<1> SUFFICES ASSUME MappingsInit PROVE MappingInv
  OBVIOUS
<1>1. MappingTypes
  BY MappingFacts DEF MappingsInit, MappingTypes, MappingRows, CacheTypes, WriterTypes, NewsTypes, AllSaved, OneActive, IsActive, Fetching
<1>2. ASSUME NEW k \in Key PROVE KeyInv(k)
  BY <1>2, MappingFacts DEF MappingsInit, KeyInv, CachedInTime, CachedOrNews, HandledInTime, FetchedInTime, IsActive
<1>3. QED
  BY <1>1, <1>2 DEF MappingInv, MappingsInit

LEMMA MappingsStay == MappingInv /\ UNCHANGED mappingVars => MappingInv'
<1> SUFFICES ASSUME MappingInv, UNCHANGED mappingVars PROVE MappingInv'
  OBVIOUS
<1>1. UNCHANGED <<mappings, mappingCache, inFlight, writer, handler, pending, warm, saves, restarts, spoiled>>
  BY DEF mappingVars
<1>2. MappingTypes'
  BY <1>1, RowsAsBefore DEF MappingInv, MappingTypes, CacheTypes, WriterTypes, NewsTypes, AllSaved
<1>3. ASSUME warm, NEW k \in Key \ spoiled' PROVE KeyInv(k)'
  BY <1>1, <1>3, KeyStays DEF MappingInv, NewsOf, KeyInv, FetchedInTime, IsActive
<1>4. QED
  BY <1>1, <1>2, <1>3 DEF MappingInv

LEMMA MappingsStep == MappingInv /\ [MappingsNext]_mappingVars => MappingInv'
BY MappingsStay, CreateKeeps, ReadMappingKeeps, SaveMappingKeeps, PublishKeeps, MissMappingKeeps, StoreMappingKeeps, DeliverKeeps,
   FindByIdKeeps, ApplyKeeps, RestartCacheKeeps, WarmUpKeeps DEF MappingsNext

LEMMA MappingsFresh == MappingInv => MappingsTypeOK /\ FreshUpToHoles
<1> SUFFICES ASSUME MappingInv PROVE MappingsTypeOK /\ FreshUpToHoles
  OBVIOUS
<1>0. MappingTypes
  BY DEF MappingInv
<1>1. MappingsTypeOK
  BY <1>0, MappingFacts DEF MappingTypes, MappingsTypeOK, CacheTypes, WriterTypes, NewsTypes
<1>2. ASSUME NEW k \in Key, QuietKey(k), k \notin spoiled
      PROVE  /\ mappingCache[k] # NoMapping => mappingCache[k] = FindBySourceAndType(k)
             /\ mappingCache[k] = NoMapping => FindBySourceAndType(k) = NoMapping
  <2>1. KeyInv(k)
    BY <1>2 DEF MappingInv, QuietKey
  <2>2. ASSUME NEW m \in Mapping, TypeOf[m] = k, IsActive(m) PROVE mappingCache[k] = mappings[m]
    <3>1. ~ NewsOf(m)
      <4>1. mappings[m].id = m
        BY <1>0, <2>2 DEF MappingTypes, MappingRows, IsActive
      <4>2. \A h \in MappingHandler : handler[h].pc \in {"find", "apply"} => handler[h] # Resting
        BY MappingFacts
      <4>3. \A h \in MappingHandler : handler[h].pc = "apply" => handler[h].row.id = handler[h].id
        BY <1>0 DEF MappingTypes, NewsTypes
      <4>4. QED
        BY <1>2, <2>2, <4>1, <4>2, <4>3 DEF NewsOf, QuietKey
    <3>2. QED
      BY <2>1, <2>2, <3>1 DEF KeyInv, CachedOrNews
  <2>3. mappingCache[k] # NoMapping => TypeOf[mappingCache[k].id] = k /\ IsActive(mappingCache[k].id) /\ mappingCache[k].id \in Mapping
    BY <1>0, <1>2, <2>1, MappingFacts DEF KeyInv, CachedInTime, MappingTypes, CacheTypes
  <2>4. QED
    BY <1>0, <2>2, <2>3, FoundFacts DEF MappingTypes, IsActive
<1>3. QED
  BY <1>1, <1>2 DEF FreshUpToHoles

\* The only step that ends a handler's work without a restart compares the versions.
LEMMA HandlersRenew == MappingInv /\ [MappingsNext]_mappingVars => HandlersOnlyRenew
<1> SUFFICES ASSUME MappingInv, [MappingsNext]_mappingVars, NEW h \in MappingHandler, NEW k \in Key,
                    handler[h].pc = "apply", handler'[h] = Resting, warm', mappingCache[k] # NoMapping, mappingCache'[k] # NoMapping
             PROVE  mappingCache'[k].version >= mappingCache[k].version
  BY DEF HandlersOnlyRenew
<1>0. MappingTypes
  BY DEF MappingInv
<1>1. mappingCache[k] \in SavedRow
  BY <1>0 DEF MappingTypes, CacheTypes
<1>2. CASE Apply(h)
  <2>1. CASE mappingCache'[k] = mappingCache[k]
    BY <1>1, <2>1, MappingFacts
  <2>2. CASE mappingCache'[k] # mappingCache[k]
    <3>1. /\ handler[h].row \in SavedRow /\ mappingCache'[k] = handler[h].row
          /\ ~ (mappingCache[k].version >= handler[h].row.version)
      BY <1>2, <2>2, ApplyFacts
    <3>2. QED
      BY <1>1, <3>1, MappingFacts
  <2>3. QED
    BY <2>1, <2>2
<1>3. handler[h] # handler'[h]
  BY MappingFacts
<1>4. ASSUME NEW g \in MappingHandler, g # h, FindById(g) \/ Apply(g) \/ \E m \in Mapping : DeliverChange(g, m) PROVE FALSE
  BY <1>0, <1>3, <1>4 DEF FindById, Apply, DeliverChange, MappingTypes, NewsTypes
<1>5. ASSUME FindById(h) \/ \E m \in Mapping : DeliverChange(h, m) PROVE FALSE
  BY <1>5, MappingFacts DEF FindById, DeliverChange
<1>6. ASSUME \/ UNCHANGED mappingVars \/ RestartCache \/ WarmUp
             \/ \E w \in Writer : \/ \E m \in Mapping : Create(w, m) \/ \E change \in {"update", "softDelete"} : ReadMapping(w, m, change)
                                  \/ SaveMapping(w) \/ Publish(w)
             \/ \E j \in Key : MissMapping(j) \/ FetchExact(j) \/ FetchWildcard(j) \/ StoreMapping(j)
      PROVE  FALSE
  BY <1>3, <1>6 DEF mappingVars, RestartCache, WarmUp, Create, ReadMapping, SaveMapping, Publish, MissMapping, FetchExact, FetchWildcard, StoreMapping
<1>7. QED
  BY <1>2, <1>4, <1>5, <1>6 DEF MappingsNext

-----------------------------------------------------------------------------
(***************************************************************************)
(* The normalization of a payload.  A field that is done with was stored   *)
(* or warned of; if it is required and not missing, its target is written  *)
(* by it or a later one.                                                   *)
(***************************************************************************)

FieldMapping == [target: Target, transform: Transform, required: BOOLEAN, default: BOOLEAN]
Made == {"unknown", "prefix", "suffix", "toString", "template", "static", "jsonPath", "dateFormat", "epochToIso", "toNumber"}

FieldDone(f) ==
  /\ f \in warned \/ mapping[f].target \in DOMAIN fields
  /\ f \notin missing /\ mapping[f].required /\ mapping[f].transform # "unknown" =>
       /\ mapping[f].target \in DOMAIN fields /\ fields[mapping[f].target].by >= f
       /\ fields[mapping[f].target].by = f => fields[mapping[f].target].value \notin NoValue
  /\ f \notin missing /\ mapping[f].required /\ payload[f] \in NoValue /\ ~ mapping[f].default => mapping[f].transform \in Made

Underway == mapping \in [1..Fields -> FieldMapping] /\ payload \in [1..Fields -> Value] /\ \A f \in 1..at - 1 : FieldDone(f)
PayloadInv ==
  /\ at \in 0..Fields + 1 /\ warned \in SUBSET (1..Fields) /\ missing \in SUBSET (1..Fields)
  /\ IF at = 0 THEN fields = <<>> /\ warned = {} /\ missing = {} ELSE Underway
  /\ \A t \in DOMAIN fields : t \in Target /\ fields[t].value \in Value /\ fields[t].by \in 1..at - 1

LEMMA AppliedFacts ==
  ASSUME NEW transform \in Registry, NEW v \in Value, NEW x \in Applied(transform, v)
  PROVE  /\ x \in Value \cup {"error"}
         /\ v \in NoValue /\ x \notin NoValue \cup {"error"} => transform \in Made
BY DEF Applied, Registry, Value, NoValue, Made

LEMMA NormalizeKeeps == ASSUME PayloadInv, NormalizeField PROVE PayloadInv'
<1> USE PayloadAssumption
<1>0. PICK f, m : f = at /\ m = mapping[at]
  OBVIOUS
<1>1. /\ f \in 1..Fields /\ m.transform # "unknown" /\ at' = f + 1 /\ UNCHANGED <<mapping, payload>>
      /\ \E v \in Applied(m.transform, Source(at)) :
           /\ fields' = IF v = "error" THEN fields ELSE [t \in DOMAIN fields \cup {m.target} |->
                                                         IF t = m.target THEN [value |-> v, by |-> f] ELSE fields[t]]
           /\ warned' = IF v = "error" THEN warned \cup {f} ELSE warned
           /\ missing' = IF m.required /\ v \in NoValue \cup {"error"} THEN missing \cup {f} ELSE missing
  BY <1>0 DEF NormalizeField
<1>2. PICK v \in Applied(m.transform, Source(at)) :
           /\ fields' = IF v = "error" THEN fields ELSE [t \in DOMAIN fields \cup {m.target} |->
                                                         IF t = m.target THEN [value |-> v, by |-> f] ELSE fields[t]]
           /\ warned' = IF v = "error" THEN warned \cup {f} ELSE warned
           /\ missing' = IF m.required /\ v \in NoValue \cup {"error"} THEN missing \cup {f} ELSE missing
  BY <1>1
<1>3. /\ Underway /\ m \in FieldMapping /\ payload[f] \in Value /\ f \in Nat \ {0} /\ at = f /\ m = mapping[f]
      /\ m.transform \in Registry /\ m.target \in Target
  BY <1>0, <1>1 DEF PayloadInv, Underway, FieldMapping
<1>4. Source(at) \in Value /\ (m.transform # "static" /\ payload[f] \in NoValue /\ ~ m.default => Source(at) \in NoValue)
  BY <1>0, <1>3 DEF Source, Value, NoValue
<1>5. /\ v \in Value \cup {"error"}
      /\ Source(at) \in NoValue /\ v \notin NoValue \cup {"error"} => m.transform \in Made
  BY <1>2, <1>3, <1>4, AppliedFacts
<1>6. /\ DOMAIN fields' = IF v = "error" THEN DOMAIN fields ELSE DOMAIN fields \cup {m.target}
      /\ \A t \in DOMAIN fields : (v = "error" \/ t # m.target) => fields'[t] = fields[t]
      /\ v # "error" => fields'[m.target] = [value |-> v, by |-> f]
  BY <1>2
<1>7. \A t \in DOMAIN fields : t \in Target /\ fields[t].value \in Value /\ fields[t].by \in 1..f - 1
  BY <1>3 DEF PayloadInv
<1>8. \A t \in DOMAIN fields' : t \in Target /\ fields'[t].value \in Value /\ fields'[t].by \in 1..f
  BY <1>3, <1>5, <1>6, <1>7
<1>9. ASSUME NEW g \in 1..f PROVE FieldDone(g)'
  <2>1. CASE g = f
    <3>1. g \in warned' \/ mapping[g].target \in DOMAIN fields'
      BY <1>2, <1>3, <1>6, <2>1
    <3>2. g \notin missing' /\ mapping[g].required => v \notin NoValue \cup {"error"}
      BY <1>2, <1>3, <2>1
    <3>3. g \notin missing' /\ mapping[g].required =>
            /\ mapping[g].target \in DOMAIN fields' /\ fields'[mapping[g].target].by = g
            /\ fields'[mapping[g].target].value \notin NoValue
      BY <1>3, <1>6, <2>1, <3>2
    <3>4. g \notin missing' /\ mapping[g].required /\ payload[g] \in NoValue /\ ~ mapping[g].default => mapping[g].transform \in Made
      BY <1>3, <1>4, <1>5, <2>1, <3>2 DEF Made
    <3>5. QED
      BY <1>1, <1>3, <2>1, <3>1, <3>3, <3>4 DEF FieldDone
  <2>2. CASE g # f
    <3>1. g \in 1..f - 1 /\ FieldDone(g)
      BY <1>3, <2>2 DEF Underway
    <3>2. warned \subseteq warned' /\ missing \subseteq missing' /\ DOMAIN fields \subseteq DOMAIN fields'
      BY <1>2, <1>6
    <3>3. \A t \in DOMAIN fields : fields'[t] = fields[t] \/ fields'[t].by = f
      BY <1>6
    <3>4. QED
      BY <1>1, <1>3, <3>1, <3>2, <3>3 DEF FieldDone
  <2>3. QED
    BY <2>1, <2>2
<1>10. Underway'
  BY <1>1, <1>3, <1>9 DEF Underway
<1>11. warned' \in SUBSET (1..Fields) /\ missing' \in SUBSET (1..Fields)
  BY <1>1, <1>2 DEF PayloadInv
<1>12. QED
  <2>1. at' \in 0..Fields + 1 /\ at' # 0 /\ 1..at' - 1 = 1..f
    BY <1>1
  <2>2. QED
    BY <1>8, <1>10, <1>11, <2>1 DEF PayloadInv

LEMMA PayloadStep == PayloadInv /\ [PayloadNext]_payloadVars => PayloadInv'
<1> SUFFICES ASSUME PayloadInv, [PayloadNext]_payloadVars PROVE PayloadInv'
  OBVIOUS
<1> USE PayloadAssumption
<1>1. CASE UNCHANGED payloadVars
  BY <1>1 DEF payloadVars, PayloadInv, Underway, FieldDone
<1>2. CASE Begin
  BY <1>2 DEF Begin, PayloadInv, Underway, FieldMapping
<1>3. CASE SkipField
  <2>1. /\ at \in 1..Fields /\ mapping[at].transform = "unknown" /\ warned' = warned \cup {at} /\ at' = at + 1
        /\ UNCHANGED <<mapping, payload, fields, missing>> /\ Underway
    BY <1>3 DEF SkipField, PayloadInv
  <2>2. ASSUME NEW g \in 1..at PROVE FieldDone(g)'
    <3>1. g \in 1..at - 1 \/ g = at
      BY <2>1
    <3>2. QED
      BY <2>1, <3>1 DEF Underway, FieldDone, Made
  <2>3. Underway'
    BY <2>1, <2>2 DEF Underway
  <2>4. QED
    BY <2>1, <2>3 DEF PayloadInv
<1>4. CASE Again
  BY <1>4 DEF Again, PayloadInv
<1>5. QED
  BY <1>1, <1>2, <1>3, <1>4, NormalizeKeeps DEF PayloadNext

LEMMA PayloadsComplete == PayloadInv => PayloadTypeOK /\ AcceptedIsComplete /\ AcceptedHasSource /\ LossIsWarned
<1> SUFFICES ASSUME PayloadInv PROVE PayloadTypeOK /\ AcceptedIsComplete /\ AcceptedHasSource /\ LossIsWarned
  OBVIOUS
<1>1. PayloadTypeOK
  BY DEF PayloadInv, PayloadTypeOK
<1>2. at > Fields => Underway /\ \A f \in 1..Fields : FieldDone(f)
  BY PayloadAssumption DEF PayloadInv, Underway
<1>3. AcceptedIsComplete
  BY <1>2 DEF AcceptedIsComplete, Accepted, FieldDone
<1>4. AcceptedHasSource /\ LossIsWarned
  BY <1>2 DEF AcceptedHasSource, LossIsWarned, Accepted, FieldDone, Made
<1>5. QED
  BY <1>1, <1>3, <1>4

\* Whatever saves, fetches, handlers and restarts overlap, a key of mappings that is not spoiled is answered with the
\* saved row once its announcements are handled, and no handler puts an older row over a newer one; and a normalized
\* event has a value for each required field, one without a source only where a transform makes a value of nothing.
THEOREM NormalizedHold == MappingsSpec /\ PayloadSpec => NormalizedAsMapped
<1>1. MappingsInit /\ PayloadInit => MappingInv /\ PayloadInv
  BY MappingsStart, PayloadAssumption DEF PayloadInit, PayloadInv
<1>2. /\ MappingInv /\ [MappingsNext]_mappingVars => MappingInv' /\ HandlersOnlyRenew
      /\ PayloadInv /\ [PayloadNext]_payloadVars => PayloadInv'
  BY MappingsStep, HandlersRenew, PayloadStep
<1>3. /\ MappingInv => MappingsTypeOK /\ FreshUpToHoles
      /\ PayloadInv => PayloadTypeOK /\ AcceptedIsComplete /\ AcceptedHasSource /\ LossIsWarned
  BY MappingsFresh, PayloadsComplete
<1>4. QED
  BY <1>1, <1>2, <1>3, PTL DEF MappingsSpec, PayloadSpec, NormalizedAsMapped

-----------------------------------------------------------------------------
(***************************************************************************)
(* Rules.  While the cached list may be old without being marked so,       *)
(* somebody is about to renew it: a reader that no save has overtaken, a   *)
(* handler about to read, or an announcement that the cached list does not *)
(* answer.                                                                 *)
(***************************************************************************)
RuleRow == [id : Rule, active : BOOLEAN, conditions : Condition, updatedAt : Nat]
AskedRow == [id : Rule, active : BOOLEAN, conditions : Condition] \cup [active : BOOLEAN, conditions : Condition]
News == [id : Rule, timestamp : Nat]
SaveTask == [pc : {"save"}, id : Rule, change : {"create", "updated", "deleted"}, row : AskedRow]
StoreTask == [pc : {"store"}, list : SUBSET RuleRow]
HandlerTask == [pc : {"find", "fetch"}, message : News] \cup [pc : {"store"}, message : News, list : SUBSET RuleRow]

RuleTypes ==
  /\ ruleRows \in [Rule -> {Missing} \cup RuleRow]
  /\ ruleList = NoList \/ ruleList \in SUBSET RuleRow
  /\ admin \in [Admin -> {NoTask} \cup SaveTask]
  /\ lookup \in [Lookup -> {NoTask} \cup StoreTask]
  /\ ruleHandler \in [RuleHandler -> {NoTask} \cup HandlerTask]
  /\ ruleNews \in SUBSET News /\ ruleSaves \in Nat /\ ruleSpoiled \in BOOLEAN

\* No row is newer than the clock of the saves.
DatedBy(list) == \A tuple \in list : tuple.updatedAt <= ruleSaves
RowsDated ==
  /\ \A r \in Rule : ruleRows[r] # Missing => ruleRows[r].updatedAt <= ruleSaves
  /\ ruleList # NoList => DatedBy(ruleList)
  /\ \A l \in Lookup : lookup[l].pc = "store" => DatedBy(lookup[l].list)
  /\ \A h \in RuleHandler : ruleHandler[h].pc = "store" => DatedBy(ruleHandler[h].list)

FreshLookup(l) == lookup[l].pc = "store" /\ l \notin outdated
FreshHandler(h) == ruleHandler[h].pc = "store" /\ h \notin outdated
FreshLists ==
  /\ \A l \in Lookup : FreshLookup(l) => lookup[l].list = FindByEventType
  /\ \A h \in RuleHandler : FreshHandler(h) => ruleHandler[h].list = FindByEventType

Renews(h) == ruleHandler[h].pc = "fetch" \/ (ruleHandler[h].pc = "find" /\ ~ Newer(ruleHandler[h].message))
Renewal ==
  \/ ruleSpoiled \/ ruleList = NoList \/ ruleList = FindByEventType
  \/ \E l \in Lookup : FreshLookup(l)
  \/ \E h \in RuleHandler : FreshHandler(h) \/ Renews(h)
  \/ \E m \in ruleNews : ~ Newer(m)

RulesInv == RuleTypes /\ RowsDated /\ FreshLists /\ Renewal
RuleBounds == Lookup \cap RuleHandler = {}

LEMMA TaskFacts ==
  ASSUME RuleTypes
  PROVE  /\ NoTask.pc = "idle"
         /\ \A a \in Admin : admin[a].pc = "save" => admin[a] \in SaveTask
         /\ \A l \in Lookup : lookup[l].pc = "store" => lookup[l] \in StoreTask /\ lookup[l].list \in SUBSET RuleRow
         /\ \A h \in RuleHandler : ruleHandler[h] # NoTask => ruleHandler[h] \in HandlerTask /\ ruleHandler[h].message \in News
         /\ \A h \in RuleHandler : ruleHandler[h].pc = "store" =>
              /\ ruleHandler[h] \in [pc : {"store"}, message : News, list : SUBSET RuleRow]
              /\ ruleHandler[h].list \in SUBSET RuleRow
         /\ \A h \in RuleHandler : ruleHandler[h].pc \in {"find", "fetch"} => ruleHandler[h] \in [pc : {"find", "fetch"}, message : News]
BY DEF RuleTypes, NoTask, SaveTask, StoreTask, HandlerTask

LEMMA ListFacts ==
  ASSUME RuleTypes, RowsDated
  PROVE  FindByEventType \in SUBSET RuleRow /\ DatedBy(FindByEventType)
<1>1. \A r \in Rule : ruleRows[r].active => ruleRows[r] # Missing
  BY DEF Missing
<1>2. QED
  BY <1>1 DEF RuleTypes, RowsDated, FindByEventType, DatedBy

LEMMA RulesStart == RuleBounds /\ RulesInit => RulesInv
<1> SUFFICES ASSUME RuleBounds, RulesInit PROVE RulesInv
  OBVIOUS
<1>1. RuleTypes
  BY DEF RulesInit, RuleTypes
<1>2. \A l \in Lookup : lookup[l].pc # "store"
  BY DEF RulesInit, NoTask
<1>3. \A h \in RuleHandler : ruleHandler[h].pc # "store"
  BY DEF RulesInit, NoTask
<1>4. QED
  BY <1>1, <1>2, <1>3 DEF RulesInit, RulesInv, RowsDated, FreshLists, FreshLookup, FreshHandler, Renewal

\* A request that reads changes neither rows nor lists.
LEMMA AskKeeps ==
  ASSUME RulesInv, NEW a \in Admin, NEW task \in SaveTask, admin' = [admin EXCEPT ![a] = task],
         UNCHANGED <<ruleRows, ruleList, lookup, ruleHandler, ruleNews, ruleSaves, outdated, ruleSpoiled>>
  PROVE  RulesInv'
<1>1. RuleTypes'
  BY DEF RulesInv, RuleTypes
<1>2. QED
  BY <1>1 DEF RulesInv, RowsDated, DatedBy, FreshLists, FreshLookup, FreshHandler, FindByEventType, Renewal, Renews, Newer

LEMMA ReadKeeps ==
  ASSUME RulesInv, NEW a \in Admin, NEW r \in Rule, NEW c \in Condition,
         \/ CheckRule(a, r, c)
         \/ Read(a, r, [active |-> ruleRows[r].active, conditions |-> c], "updated")
         \/ Read(a, r, [active |-> FALSE, conditions |-> ruleRows[r].conditions], "deleted")
  PROVE  RulesInv'
<1>1. CASE CheckRule(a, r, c)
  <2> DEFINE task == [pc |-> "save", id |-> r, change |-> "create", row |-> [id |-> r, active |-> TRUE, conditions |-> c]]
  <2>1. task \in SaveTask
    BY DEF SaveTask, AskedRow
  <2>2. admin' = [admin EXCEPT ![a] = task] /\ UNCHANGED <<ruleRows, ruleList, lookup, ruleHandler, ruleNews, ruleSaves, outdated, ruleSpoiled>>
    BY <1>1 DEF CheckRule
  <2> HIDE DEF task
  <2>3. QED
    BY <2>1, <2>2, AskKeeps
<1>2. ASSUME NEW tuple, NEW change \in {"updated", "deleted"}, Read(a, r, tuple, change),
             ruleRows[r] \in RuleRow => tuple \in AskedRow
      PROVE  RulesInv'
  <2> DEFINE task == [pc |-> "save", id |-> r, change |-> change, row |-> tuple]
  <2>1. ruleRows[r] \in RuleRow
    BY <1>2 DEF Read, RulesInv, RuleTypes
  <2>2. task \in SaveTask
    BY <1>2, <2>1 DEF SaveTask
  <2>3. admin' = [admin EXCEPT ![a] = task] /\ UNCHANGED <<ruleRows, ruleList, lookup, ruleHandler, ruleNews, ruleSaves, outdated, ruleSpoiled>>
    BY <1>2 DEF Read
  <2> HIDE DEF task
  <2>4. QED
    BY <2>2, <2>3, AskKeeps
<1>3. ruleRows[r] \in RuleRow => [active |-> ruleRows[r].active, conditions |-> c] \in AskedRow
  BY DEF RuleRow, AskedRow
<1>4. ruleRows[r] \in RuleRow => [active |-> FALSE, conditions |-> ruleRows[r].conditions] \in AskedRow
  BY DEF RuleRow, AskedRow
<1>5. CASE Read(a, r, [active |-> ruleRows[r].active, conditions |-> c], "updated")
  BY <1>2, <1>3, <1>5
<1>6. CASE Read(a, r, [active |-> FALSE, conditions |-> ruleRows[r].conditions], "deleted")
  BY <1>2, <1>4, <1>6
<1>7. QED
  BY <1>1, <1>5, <1>6

\* A save overtakes every reader, and is announced with a time that no cached row has reached, or lost.
LEMMA SaveKeeps ==
  ASSUME RulesInv, NEW a \in Admin, SaveRule(a)
  PROVE  RulesInv'
<1> DEFINE r == admin[a].id
           new == [id |-> r, active |-> admin[a].row.active, conditions |-> admin[a].row.conditions, updatedAt |-> ruleSaves + 1]
           message == [id |-> r, timestamp |-> ruleSaves + 1]
<1>1. RuleTypes
  BY DEF RulesInv
<1>2. /\ admin[a].pc = "save" /\ ruleSaves' = ruleSaves + 1 /\ ruleRows' = [ruleRows EXCEPT ![r] = new]
      /\ admin' = [admin EXCEPT ![a] = NoTask]
      /\ outdated' = outdated \cup Holding
      /\ UNCHANGED <<ruleList, lookup, ruleHandler>>
      /\ \/ ruleNews' = ruleNews \cup {message} /\ UNCHANGED ruleSpoiled
         \/ ruleSpoiled' = TRUE /\ UNCHANGED ruleNews
  BY DEF SaveRule
<1>3. r \in Rule /\ new \in RuleRow /\ message \in News /\ new.updatedAt = ruleSaves + 1
  <2>1. admin[a] \in SaveTask /\ ruleSaves + 1 \in Nat
    BY <1>1, <1>2, TaskFacts DEF RuleTypes
  <2>2. r \in Rule /\ admin[a].row \in AskedRow
    BY <2>1 DEF SaveTask
  <2>3. admin[a].row.active \in BOOLEAN /\ admin[a].row.conditions \in Condition
    BY <2>2 DEF AskedRow
  <2>4. QED
    BY <2>1, <2>2, <2>3 DEF RuleRow, News
<1> HIDE DEF r, new
<1>4. RuleTypes'
  <2>1. ruleRows' \in [Rule -> {Missing} \cup RuleRow]
    <3>1. ruleRows \in [Rule -> {Missing} \cup RuleRow] /\ new \in {Missing} \cup RuleRow
      BY <1>1, <1>3 DEF RuleTypes
    <3>2. QED
      BY <1>2, <3>1
  <2>0. admin' \in [Admin -> {NoTask} \cup SaveTask]
    BY <1>1, <1>2 DEF RuleTypes
  <2>2. ruleNews' \in SUBSET News /\ ruleSaves' \in Nat
    BY <1>1, <1>2, <1>3 DEF RuleTypes
  <2>3. ruleSpoiled' \in BOOLEAN
    BY <1>1, <1>2 DEF RuleTypes
  <2>4. QED
    BY <1>1, <1>2, <2>0, <2>1, <2>2, <2>3 DEF RuleTypes
<1>5. ruleSaves \in Nat /\ ruleSaves' = ruleSaves + 1
  BY <1>1, <1>2 DEF RuleTypes
<1>6. \A list \in SUBSET RuleRow : DatedBy(list) => DatedBy(list)'
  BY <1>5 DEF DatedBy, RuleRow
<1>7. RowsDated'
  <2>1. \A q \in Rule : ruleRows'[q] # Missing => ruleRows'[q].updatedAt <= ruleSaves'
    <3> SUFFICES ASSUME NEW q \in Rule, ruleRows'[q] # Missing PROVE ruleRows'[q].updatedAt <= ruleSaves'
      OBVIOUS
    <3>1. CASE q = r
      BY <1>1, <1>2, <1>3, <1>5, <3>1 DEF RuleTypes
    <3>2. CASE q # r
      <4>1. ruleRows'[q] = ruleRows[q] /\ ruleRows[q] \in RuleRow
        BY <1>1, <1>2, <1>3, <3>2 DEF RuleTypes
      <4>2. QED
        BY <1>5, <4>1 DEF RulesInv, RowsDated, RuleRow
    <3>3. QED
      BY <3>1, <3>2
  <2>2. ruleList # NoList => DatedBy(ruleList)'
    BY <1>1, <1>2, <1>6 DEF RuleTypes, RulesInv, RowsDated
  <2>3. \A l \in Lookup : lookup[l].pc = "store" => DatedBy(lookup[l].list)'
    BY <1>1, <1>2, <1>6, TaskFacts DEF RulesInv, RowsDated
  <2>4. \A h \in RuleHandler : ruleHandler[h].pc = "store" => DatedBy(ruleHandler[h].list)'
    BY <1>1, <1>2, <1>6, TaskFacts DEF RulesInv, RowsDated
  <2>5. QED
    BY <1>2, <2>1, <2>2, <2>3, <2>4 DEF RowsDated
<1>8. /\ \A l \in Lookup : ~ FreshLookup(l)'
      /\ \A h \in RuleHandler : ~ FreshHandler(h)'
  BY <1>2 DEF FreshLookup, FreshHandler, Holding
<1>9. FreshLists'
  BY <1>8 DEF FreshLists
<1>10. Renewal'
  <2>1. CASE ruleSpoiled'
    BY <2>1 DEF Renewal
  <2>2. CASE ~ ruleSpoiled'
    <3>1. message \in ruleNews' /\ ruleList' = ruleList
      BY <1>2, <2>2
    <3>2. CASE ruleList = NoList
      BY <3>1, <3>2 DEF Renewal
    <3>3. CASE ruleList # NoList
      <4>1. \A tuple \in ruleList : tuple.updatedAt \in Nat /\ tuple.updatedAt <= ruleSaves
        BY <1>1, <3>3 DEF RulesInv, RowsDated, DatedBy, RuleTypes, RuleRow
      <4>2. PICK m \in ruleNews' : m.timestamp = ruleSaves + 1
        BY <3>1
      <4>3. ruleList' # NoList /\ \A tuple \in ruleList' : ~ (m.timestamp <= tuple.updatedAt)
        BY <1>5, <3>1, <3>3, <4>1, <4>2
      <4>4. QED
        BY <4>3 DEF Renewal, Newer
    <3>4. QED
      BY <3>2, <3>3
  <2>3. QED
    BY <2>1, <2>2
<1>11. QED
  BY <1>4, <1>7, <1>9, <1>10 DEF RulesInv

LEMMA MissKeeps ==
  ASSUME RuleBounds, RulesInv, NEW l \in Lookup, Miss(l)
  PROVE  RulesInv'
<1> DEFINE task == [pc |-> "store", list |-> FindByEventType]
<1>1. RuleTypes /\ RowsDated
  BY DEF RulesInv
<1>2. /\ ruleList = NoList /\ lookup' = [lookup EXCEPT ![l] = task] /\ outdated' = outdated \ {l}
      /\ UNCHANGED <<ruleRows, ruleList, admin, ruleHandler, ruleNews, ruleSaves, ruleSpoiled>>
  BY DEF Miss
<1>3. task \in StoreTask /\ task.list = FindByEventType /\ DatedBy(task.list)
  BY <1>1, ListFacts DEF StoreTask
<1> HIDE DEF task
<1>4. RuleTypes'
  BY <1>1, <1>2, <1>3 DEF RuleTypes
<1>5. lookup'[l] = task /\ \A k \in Lookup \ {l} : lookup'[k] = lookup[k]
  BY <1>1, <1>2 DEF RuleTypes
<1>6. RowsDated'
  BY <1>1, <1>2, <1>3, <1>5 DEF RowsDated, DatedBy
<1>7. FindByEventType' = FindByEventType
  BY <1>2 DEF FindByEventType
<1>8. FreshLists'
  BY <1>2, <1>3, <1>5, <1>7 DEF RulesInv, FreshLists, FreshLookup, FreshHandler, RuleBounds
<1>9. Renewal'
  BY <1>2 DEF Renewal
<1>10. QED
  BY <1>4, <1>6, <1>8, <1>9 DEF RulesInv

\* A list is stored: one that no save has overtaken holds the present rules.
LEMMA StoreKeeps ==
  ASSUME RuleBounds, RulesInv,
         \/ \E l \in Lookup : StoreMissed(l)
         \/ \E h \in RuleHandler : StoreFetched(h)
  PROVE  RulesInv'
<1>1. RuleTypes /\ RowsDated
  BY DEF RulesInv
<1>2. UNCHANGED <<ruleRows, admin, ruleNews, ruleSaves, outdated>>
  BY DEF StoreMissed, StoreFetched
<1>3. PICK list \in SUBSET RuleRow : ruleList' = list /\ DatedBy(list) /\ (ruleSpoiled' \/ list = FindByEventType) /\ ruleSpoiled' \in BOOLEAN
  <2>1. ASSUME NEW l \in Lookup, StoreMissed(l)
        PROVE  \E list \in SUBSET RuleRow : ruleList' = list /\ DatedBy(list) /\ (ruleSpoiled' \/ list = FindByEventType) /\ ruleSpoiled' \in BOOLEAN
    <3>1. lookup[l].pc = "store" /\ ruleList' = lookup[l].list /\ ruleSpoiled' = (l \in outdated)
      BY <2>1 DEF StoreMissed
    <3>2. lookup[l].list \in SUBSET RuleRow /\ DatedBy(lookup[l].list)
      BY <1>1, <3>1, TaskFacts DEF RowsDated
    <3>3. ruleSpoiled' \/ lookup[l].list = FindByEventType
      BY <3>1 DEF RulesInv, FreshLists, FreshLookup
    <3>4. QED
      BY <3>1, <3>2, <3>3
  <2>2. ASSUME NEW h \in RuleHandler, StoreFetched(h)
        PROVE  \E list \in SUBSET RuleRow : ruleList' = list /\ DatedBy(list) /\ (ruleSpoiled' \/ list = FindByEventType) /\ ruleSpoiled' \in BOOLEAN
    <3>1. ruleHandler[h].pc = "store" /\ ruleList' = ruleHandler[h].list /\ ruleSpoiled' = (h \in outdated)
      BY <2>2 DEF StoreFetched
    <3>2. ruleHandler[h].list \in SUBSET RuleRow /\ DatedBy(ruleHandler[h].list)
      BY <1>1, <3>1, TaskFacts DEF RowsDated
    <3>3. ruleSpoiled' \/ ruleHandler[h].list = FindByEventType
      BY <3>1 DEF RulesInv, FreshLists, FreshHandler
    <3>4. QED
      BY <3>1, <3>2, <3>3
  <2>3. QED
    BY <2>1, <2>2
<1>4. /\ lookup' \in [Lookup -> {NoTask} \cup StoreTask] /\ \A l \in Lookup : lookup'[l] \in {lookup[l], NoTask}
  BY <1>1 DEF RuleTypes, StoreMissed, StoreFetched
<1>5. /\ ruleHandler' \in [RuleHandler -> {NoTask} \cup HandlerTask] /\ \A h \in RuleHandler : ruleHandler'[h] \in {ruleHandler[h], NoTask}
  BY <1>1 DEF RuleTypes, StoreMissed, StoreFetched
<1>6. RuleTypes'
  BY <1>1, <1>2, <1>3, <1>4, <1>5 DEF RuleTypes
<1>7. FindByEventType' = FindByEventType /\ \A s : DatedBy(s)' <=> DatedBy(s)
  BY <1>2 DEF FindByEventType, DatedBy
<1>8. RowsDated'
  BY <1>1, <1>2, <1>3, <1>4, <1>5, <1>7, TaskFacts DEF RowsDated
<1>9. FreshLists'
  BY <1>1, <1>2, <1>4, <1>5, <1>7, TaskFacts DEF RulesInv, FreshLists, FreshLookup, FreshHandler
<1>10. Renewal'
  BY <1>3, <1>7 DEF Renewal
<1>11. QED
  BY <1>6, <1>8, <1>9, <1>10 DEF RulesInv

LEMMA RestartKeeps ==
  ASSUME RulesInv, Restart
  PROVE  RulesInv'
<1>1. RuleTypes /\ RowsDated
  BY DEF RulesInv
<1>2. /\ ruleList' = NoList \/ ruleList' = FindByEventType
      /\ lookup' = [l \in Lookup |-> NoTask] /\ ruleHandler' = [h \in RuleHandler |-> NoTask]
      /\ ruleNews' = ruleNews \cup {ruleHandler[h].message : h \in {h \in RuleHandler : ruleHandler[h] # NoTask}}
      /\ ruleSpoiled' = FALSE /\ UNCHANGED <<ruleRows, admin, ruleSaves, outdated>>
  BY DEF Restart
<1>3. FindByEventType \in SUBSET RuleRow /\ DatedBy(FindByEventType)
  BY <1>1, ListFacts
<1>4. ruleNews' \in SUBSET News
  BY <1>1, <1>2, TaskFacts DEF RuleTypes
<1>5. RuleTypes'
  BY <1>1, <1>2, <1>3, <1>4 DEF RuleTypes
<1>6. FindByEventType' = FindByEventType /\ \A s : DatedBy(s)' <=> DatedBy(s)
  BY <1>2 DEF FindByEventType, DatedBy
<1>7. /\ \A l \in Lookup : lookup'[l].pc # "store"
      /\ \A h \in RuleHandler : ruleHandler'[h].pc # "store"
  BY <1>2 DEF NoTask
<1>8. RowsDated'
  BY <1>1, <1>2, <1>3, <1>6, <1>7 DEF RowsDated
<1>9. FreshLists' /\ Renewal'
  BY <1>2, <1>6, <1>7 DEF FreshLists, FreshLookup, FreshHandler, Renewal
<1>10. QED
  BY <1>5, <1>8, <1>9 DEF RulesInv

\* A handler goes on: what it gives up, it gives up because the list answers it.
LEMMA HandlerKeeps ==
  ASSUME RuleBounds, RulesInv, NEW h \in RuleHandler,
         Compare(h) \/ Fetch(h) \/ HandlerFails(h) \/ \E message \in ruleNews : Deliver(h, message)
  PROVE  RulesInv'
<1>1. RuleTypes /\ RowsDated
  BY DEF RulesInv
<1>2. UNCHANGED <<ruleRows, ruleList, admin, lookup, ruleSaves>>
  BY DEF Compare, Fetch, HandlerFails, Deliver
<1>3. FindByEventType' = FindByEventType /\ (\A s : DatedBy(s)' <=> DatedBy(s)) /\ (\A m : Newer(m)' <=> Newer(m))
  BY <1>2 DEF FindByEventType, DatedBy, Newer
<1>4. /\ FindByEventType \in SUBSET RuleRow /\ DatedBy(FindByEventType)
  BY <1>1, ListFacts
<1>5. CASE Compare(h)
  <2> DEFINE next == IF Newer(ruleHandler[h].message) THEN NoTask ELSE [ruleHandler[h] EXCEPT !.pc = "fetch"]
  <2>1. /\ ruleHandler[h].pc = "find" /\ ruleHandler' = [ruleHandler EXCEPT ![h] = next] /\ UNCHANGED <<ruleNews, outdated, ruleSpoiled>>
    BY <1>5 DEF Compare
  <2>2. ruleHandler[h] \in [pc : {"find", "fetch"}, message : News]
    BY <1>1, <2>1, TaskFacts
  <2>3. /\ next \in {NoTask} \cup HandlerTask /\ next.pc # "store"
        /\ ~ Newer(ruleHandler[h].message) => next.pc = "fetch"
    BY <2>2 DEF HandlerTask, NoTask
  <2> HIDE DEF next
  <2>4. /\ ruleHandler' \in [RuleHandler -> {NoTask} \cup HandlerTask]
        /\ ruleHandler'[h] = next /\ \A k \in RuleHandler \ {h} : ruleHandler'[k] = ruleHandler[k]
    BY <1>1, <2>1, <2>3 DEF RuleTypes
  <2>5. RuleTypes'
    BY <1>1, <1>2, <2>1, <2>4 DEF RuleTypes
  <2>6. RowsDated'
    BY <1>1, <1>2, <1>3, <2>3, <2>4 DEF RowsDated
  <2>7. FreshLists'
    BY <1>2, <1>3, <2>1, <2>3, <2>4 DEF RulesInv, FreshLists, FreshLookup, FreshHandler
  <2>8. \A k \in RuleHandler : FreshHandler(k) \/ Renews(k) => FreshHandler(k)' \/ Renews(k)'
    <3> SUFFICES ASSUME NEW k \in RuleHandler, FreshHandler(k) \/ Renews(k) PROVE FreshHandler(k)' \/ Renews(k)'
      OBVIOUS
    <3>1. CASE k = h
      <4>1. ~ Newer(ruleHandler[h].message)
        BY <2>1, <3>1 DEF FreshHandler, Renews
      <4>2. QED
        BY <2>3, <2>4, <3>1, <4>1 DEF Renews
    <3>2. CASE k # h
      BY <1>3, <2>1, <2>4, <3>2 DEF FreshHandler, Renews
    <3>3. QED
      BY <3>1, <3>2
  <2>9. \A l \in Lookup : FreshLookup(l)' <=> FreshLookup(l)
    BY <1>2, <2>1 DEF FreshLookup
  <2>10. Renewal'
    BY <1>2, <1>3, <2>1, <2>8, <2>9 DEF RulesInv, Renewal
  <2>11. QED
    BY <2>5, <2>6, <2>7, <2>10 DEF RulesInv
<1>6. CASE Fetch(h)
  <2> DEFINE next == [pc |-> "store", message |-> ruleHandler[h].message, list |-> FindByEventType]
  <2>1. /\ ruleHandler[h].pc = "fetch" /\ ruleHandler' = [ruleHandler EXCEPT ![h] = next] /\ outdated' = outdated \ {h}
        /\ UNCHANGED <<ruleNews, ruleSpoiled>>
    BY <1>6 DEF Fetch
  <2>2. ruleHandler[h].message \in News
    BY <1>1, <2>1, TaskFacts
  <2>3. next \in HandlerTask /\ next.pc = "store" /\ next.list = FindByEventType
    BY <1>4, <2>2 DEF HandlerTask
  <2> HIDE DEF next
  <2>4. /\ ruleHandler' \in [RuleHandler -> {NoTask} \cup HandlerTask]
        /\ ruleHandler'[h] = next /\ \A k \in RuleHandler \ {h} : ruleHandler'[k] = ruleHandler[k]
    BY <1>1, <2>1, <2>3 DEF RuleTypes
  <2>5. RuleTypes'
    BY <1>1, <1>2, <2>1, <2>4 DEF RuleTypes
  <2>6. RowsDated'
    BY <1>1, <1>2, <1>3, <1>4, <2>3, <2>4 DEF RowsDated
  <2>7. FreshLists'
    BY <1>2, <1>3, <2>1, <2>3, <2>4 DEF RulesInv, FreshLists, FreshLookup, FreshHandler, RuleBounds
  <2>8. FreshHandler(h)'
    BY <2>1, <2>3, <2>4 DEF FreshHandler
  <2>9. QED
    BY <2>5, <2>6, <2>7, <2>8 DEF RulesInv, Renewal
<1>7. CASE HandlerFails(h)
  <2>1. /\ ruleHandler' = [ruleHandler EXCEPT ![h] = NoTask] /\ ruleSpoiled' = TRUE /\ UNCHANGED <<ruleNews, outdated>>
    BY <1>7 DEF HandlerFails
  <2>2. /\ ruleHandler' \in [RuleHandler -> {NoTask} \cup HandlerTask]
        /\ ruleHandler'[h].pc = "idle" /\ \A k \in RuleHandler \ {h} : ruleHandler'[k] = ruleHandler[k]
    BY <1>1, <2>1 DEF RuleTypes, NoTask
  <2>3. RuleTypes'
    BY <1>1, <1>2, <2>1, <2>2 DEF RuleTypes
  <2>4. RowsDated' /\ FreshLists'
    BY <1>1, <1>2, <1>3, <2>1, <2>2 DEF RulesInv, RowsDated, FreshLists, FreshLookup, FreshHandler
  <2>5. QED
    BY <2>1, <2>3, <2>4 DEF RulesInv, Renewal
<1>8. ASSUME NEW message \in ruleNews, Deliver(h, message) PROVE RulesInv'
  <2> DEFINE next == [pc |-> "find", message |-> message]
  <2>1. /\ ruleHandler[h] = NoTask /\ ruleNews' = ruleNews \ {message} /\ ruleHandler' = [ruleHandler EXCEPT ![h] = next]
        /\ UNCHANGED <<outdated, ruleSpoiled>>
    BY <1>8 DEF Deliver
  <2>2. next \in HandlerTask /\ next.pc = "find" /\ next.message = message
    BY <1>1 DEF RuleTypes, HandlerTask
  <2> HIDE DEF next
  <2>3. /\ ruleHandler' \in [RuleHandler -> {NoTask} \cup HandlerTask]
        /\ ruleHandler'[h] = next /\ \A k \in RuleHandler \ {h} : ruleHandler'[k] = ruleHandler[k]
    BY <1>1, <2>1, <2>2 DEF RuleTypes
  <2>4. RuleTypes'
    BY <1>1, <1>2, <2>1, <2>3 DEF RuleTypes
  <2>5. RowsDated' /\ FreshLists'
    BY <1>1, <1>2, <1>3, <2>1, <2>2, <2>3 DEF RulesInv, RowsDated, FreshLists, FreshLookup, FreshHandler
  <2>6. \A k \in RuleHandler : FreshHandler(k) \/ Renews(k) => FreshHandler(k)' \/ Renews(k)'
    <3>1. ~ FreshHandler(h) /\ ~ Renews(h)
      BY <2>1 DEF FreshHandler, Renews, NoTask
    <3>2. QED
      BY <1>3, <2>1, <2>3, <3>1 DEF FreshHandler, Renews
  <2>7. ~ Newer(message) => Renews(h)'
    BY <1>3, <2>2, <2>3 DEF Renews
  <2>8. \A l \in Lookup : FreshLookup(l)' <=> FreshLookup(l)
    BY <1>2, <2>1 DEF FreshLookup
  <2>9. \A m \in ruleNews : m = message \/ m \in ruleNews'
    BY <2>1
  <2>10. Renewal'
    BY <1>2, <1>3, <2>1, <2>6, <2>7, <2>8, <2>9 DEF RulesInv, Renewal
  <2>11. QED
    BY <2>4, <2>5, <2>10 DEF RulesInv
<1>9. QED
  BY <1>5, <1>6, <1>7, <1>8

LEMMA RulesStep == RuleBounds /\ RulesInv /\ [RulesNext]_ruleVars => RulesInv'
<1> SUFFICES ASSUME RuleBounds, RulesInv, [RulesNext]_ruleVars PROVE RulesInv'
  OBVIOUS
<1>1. ASSUME NEW a \in Admin, NEW r \in Rule, ruleRows[r] # Missing,
             Read(a, r, [active |-> FALSE, conditions |-> ruleRows[r].conditions], "deleted")
      PROVE  RulesInv'
  <2>1. ruleRows[r].conditions \in Condition
    BY <1>1 DEF RulesInv, RuleTypes, RuleRow
  <2>2. QED
    BY <1>1, <2>1, ReadKeeps
<1>2. CASE UNCHANGED ruleVars
  BY <1>2 DEF ruleVars, RulesInv, RuleTypes, RowsDated, DatedBy, FreshLists, FreshLookup, FreshHandler, FindByEventType,
              Renewal, Renews, Newer
<1>3. QED
  BY <1>1, <1>2, ReadKeeps, SaveKeeps, MissKeeps, StoreKeeps, RestartKeeps, HandlerKeeps DEF RulesNext

\* Whatever saves, lookups, handlers and restarts overlap, an event type is answered with the active rules once its
\* announcements are handled, unless a list was overtaken by a save or an announcement or query was lost.
THEOREM RulesHold == RuleBounds => (RulesSpec => []RulesFreshUnlessOvertaken)
<1> SUFFICES ASSUME RuleBounds PROVE RulesSpec => []RulesFreshUnlessOvertaken
  OBVIOUS
<1>1. RulesInit => RulesInv
  BY RulesStart
<1>2. RulesInv /\ [RulesNext]_ruleVars => RulesInv'
  BY RulesStep
<1>3. RulesInv => RulesFreshUnlessOvertaken
  <2> SUFFICES ASSUME RulesInv, ruleNews = {}, ~ ruleSpoiled, \A l \in Lookup : lookup[l] = NoTask,
                      \A h \in RuleHandler : ruleHandler[h] = NoTask
               PROVE  ruleList = NoList \/ ruleList = FindByEventType
    BY DEF RulesFreshUnlessOvertaken
  <2>1. NoTask.pc = "idle"
    BY DEF NoTask
  <2>2. QED
    BY <2>1 DEF RulesInv, Renewal, FreshLookup, FreshHandler, Renews
<1>4. QED
  BY <1>1, <1>2, <1>3, PTL DEF RulesSpec

-----------------------------------------------------------------------------
(***************************************************************************)
(* Channels.  A stale entry of the preference cache is marked as raced, or *)
(* a change that will evict it is under way; while the map of overrides    *)
(* may be old without being marked so, somebody is about to renew it.      *)
(***************************************************************************)
ChannelBounds == ttl \in Nat /\ RuleChannels \subseteq KnownChannel

Resolving == [pc : {"store", "done"}, customer : Customer, critical : SUBSET KnownChannel, out : SUBSET KnownChannel, avoid : SUBSET KnownChannel]
Changing == [pc : {"evict"}, customers : SUBSET Customer]
Renewing == [pc : {"find"}, announces : BOOLEAN] \cup [pc : {"set"}, announces : BOOLEAN, found : SUBSET KnownChannel]

PreferenceTypes ==
  /\ optedOut \in [Customer -> SUBSET KnownChannel]
  /\ \A u \in DOMAIN cache : cache[u].out \in SUBSET KnownChannel /\ cache[u].expiresAt \in Nat
  /\ recipient \in [Recipient -> {AtRest} \cup Resolving]
  /\ upsert \in [Upsert -> {AtRest} \cup Changing]
  /\ now \in Nat
OverrideTypes ==
  /\ overrides \in SUBSET KnownChannel /\ overrideMap \in SUBSET KnownChannel /\ announced \in Nat
  /\ override \in [Override -> {AtRest} \cup Renewing]

\* What a resolution works with leaves out what it has to.
Avoiding == \A r \in Recipient : recipient[r] # AtRest => recipient[r].avoid \subseteq recipient[r].out

OverridesRenewed ==
  \/ mapSpoiled \/ overrideMap = overrides \/ announced > 0
  \/ \E o \in Override : override[o].pc = "find" \/ (override[o].pc = "set" /\ override[o].found = overrides)

PreferenceInv == PreferenceTypes /\ StaleIsRaced /\ Avoiding
OverrideInv == OverrideTypes /\ OverridesRenewed

LEMMA AtRestFacts == /\ AtRest.pc = "idle" /\ \A x \in Resolving \cup Changing \cup Renewing : x # AtRest
BY DEF AtRest, Resolving, Changing, Renewing

LEMMA ChannelsStart == ChannelsInit => PreferenceInv /\ OverrideInv
<1> SUFFICES ASSUME ChannelsInit PROVE PreferenceInv /\ OverrideInv
  OBVIOUS
<1>1. PreferenceTypes /\ OverrideTypes
  BY DEF ChannelsInit, PreferenceTypes, OverrideTypes
<1>2. StaleIsRaced /\ Avoiding /\ OverridesRenewed
  BY DEF ChannelsInit, StaleIsRaced, Cached, Avoiding, OverridesRenewed
<1>3. QED
  BY <1>1, <1>2 DEF PreferenceInv, OverrideInv

LEMMA OverridesStay == ASSUME OverrideInv, UNCHANGED overrideVars PROVE OverrideInv'
BY DEF OverrideInv, OverrideTypes, OverridesRenewed, overrideVars

LEMMA PreferencesStay == ASSUME PreferenceInv, UNCHANGED preferenceVars, UNCHANGED now PROVE PreferenceInv'
BY DEF PreferenceInv, PreferenceTypes, StaleIsRaced, Cached, Avoiding, preferenceVars

\* A resolution that starts is answered what is stored, unless the answer is raced.
LEMMA StartKeeps ==
  ASSUME PreferenceInv, OverrideTypes, NEW r \in Recipient, NEW u \in Customer, Start(r, u)
  PROVE  PreferenceInv'
<1> DEFINE new == [pc |-> IF Cached(u) THEN "done" ELSE "store", customer |-> u, critical |-> overrideMap,
                   out |-> IF Cached(u) THEN cache[u].out ELSE optedOut[u], avoid |-> Settled(u)]
<1>1. /\ recipient' = [recipient EXCEPT ![r] = new]
      /\ UNCHANGED <<optedOut, cache, upsert, raced, now>>
  BY DEF Start
<1>2. optedOut[u] \in SUBSET KnownChannel /\ (Cached(u) => cache[u].out \in SUBSET KnownChannel)
  BY DEF PreferenceInv, PreferenceTypes, Cached
<1>3. Settled(u) \in SUBSET KnownChannel
  BY <1>2 DEF Settled
<1>4. new \in Resolving
  BY <1>2, <1>3 DEF Resolving, OverrideTypes
<1>5. new.avoid \subseteq new.out
  <2>1. CASE ~ Cached(u)
    BY <2>1 DEF Settled
  <2>2. CASE Cached(u) /\ cache[u].out = optedOut[u]
    BY <2>2 DEF Settled
  <2>3. CASE Cached(u) /\ cache[u].out # optedOut[u]
    BY <2>3 DEF Settled, PreferenceInv, StaleIsRaced
  <2>4. QED
    BY <2>1, <2>2, <2>3
<1> HIDE DEF new
<1>6. PreferenceTypes'
  BY <1>1, <1>4 DEF PreferenceInv, PreferenceTypes
<1>7. StaleIsRaced'
  BY <1>1 DEF PreferenceInv, StaleIsRaced, Cached
<1>8. Avoiding'
  BY <1>1, <1>5 DEF PreferenceInv, PreferenceTypes, Avoiding
<1>9. QED
  BY <1>6, <1>7, <1>8 DEF PreferenceInv

\* An entry is stored as raced if it is no longer what is stored.
LEMMA StorePreferencesKeeps ==
  ASSUME ChannelBounds, PreferenceInv, NEW r \in Recipient, StorePreferences(r)
  PROVE  PreferenceInv'
<1> DEFINE u == recipient[r].customer
           out == recipient[r].out
           new == [recipient[r] EXCEPT !.pc = "done"]
<1>1. /\ recipient[r].pc = "store" /\ cache' = PreferencesStored(u, out).cache
      /\ raced' = IF out = optedOut[u] THEN raced \ {u} ELSE raced \cup {u}
      /\ recipient' = [recipient EXCEPT ![r] = new]
      /\ UNCHANGED <<optedOut, upsert, now>>
  BY DEF StorePreferences
<1>2. recipient[r] \in Resolving
  BY <1>1, AtRestFacts DEF PreferenceInv, PreferenceTypes
<1>3. u \in Customer /\ out \in SUBSET KnownChannel /\ new \in Resolving /\ new.avoid = recipient[r].avoid /\ new.out = out
  BY <1>2 DEF Resolving
<1>4. now + ttl \in Nat
  BY DEF ChannelBounds, PreferenceInv, PreferenceTypes
<1>5. /\ u \in DOMAIN cache' /\ cache'[u].out = out /\ cache'[u].expiresAt = now + ttl
      /\ \A v \in DOMAIN cache' \ {u} : v \in DOMAIN cache /\ cache'[v] = cache[v]
  <2>1. CASE u \in DOMAIN cache
    BY <1>1, <2>1 DEF PreferencesStored
  <2>2. CASE u \notin DOMAIN cache
    BY <1>1, <2>2 DEF PreferencesStored
  <2>3. QED
    BY <2>1, <2>2
<1> HIDE DEF u, out, new
<1>6. PreferenceTypes'
  <2>1. recipient' \in [Recipient -> {AtRest} \cup Resolving]
    BY <1>1, <1>3 DEF PreferenceInv, PreferenceTypes
  <2>2. \A v \in DOMAIN cache' : cache'[v].out \in SUBSET KnownChannel /\ cache'[v].expiresAt \in Nat
    BY <1>3, <1>4, <1>5 DEF PreferenceInv, PreferenceTypes
  <2>3. QED
    BY <1>1, <2>1, <2>2 DEF PreferenceInv, PreferenceTypes
<1>7. StaleIsRaced'
  <2> SUFFICES ASSUME NEW v \in Customer, Cached(v)', cache'[v].out # optedOut[v], v \notin raced'
               PROVE  \E p \in Upsert : upsert[p] # AtRest /\ v \in upsert[p].customers
    BY <1>1 DEF StaleIsRaced
  <2>1. v # u
    BY <1>1, <1>5
  <2>2. Cached(v) /\ cache'[v] = cache[v] /\ v \notin raced
    BY <1>1, <1>5, <2>1 DEF Cached
  <2>3. QED
    BY <2>2 DEF PreferenceInv, StaleIsRaced
<1>8. Avoiding'
  <2>1. recipient[r].avoid \subseteq out
    BY <1>2, AtRestFacts DEF PreferenceInv, Avoiding, out
  <2>2. QED
    BY <1>1, <1>3, <2>1 DEF PreferenceInv, PreferenceTypes, Avoiding
<1>9. QED
  BY <1>6, <1>7, <1>8 DEF PreferenceInv

LEMMA FinishKeeps ==
  ASSUME PreferenceInv, NEW r \in Recipient, Finish(r)
  PROVE  PreferenceInv'
<1>1. recipient' = [recipient EXCEPT ![r] = AtRest] /\ UNCHANGED <<optedOut, cache, upsert, raced, now>>
  BY DEF Finish
<1>2. PreferenceTypes'
  BY <1>1 DEF PreferenceInv, PreferenceTypes
<1>3. StaleIsRaced'
  BY <1>1 DEF PreferenceInv, StaleIsRaced, Cached
<1>4. Avoiding'
  BY <1>1 DEF PreferenceInv, PreferenceTypes, Avoiding
<1>5. QED
  BY <1>2, <1>3, <1>4 DEF PreferenceInv

\* The customers of a change are its own until they are evicted.
LEMMA SavePreferencesKeeps ==
  ASSUME ChannelBounds, PreferenceInv, NEW p \in Upsert, NEW U \in SUBSET Customer, NEW c \in RuleChannels, SavePreferences(p, U, c)
  PROVE  PreferenceInv'
<1> DEFINE new == [pc |-> "evict", customers |-> U]
<1>1. /\ upsert[p] = AtRest /\ upsert' = [upsert EXCEPT ![p] = new]
      /\ optedOut' = [u \in Customer |->
                        IF u \in U THEN (IF c \in optedOut[u] THEN optedOut[u] \ {c} ELSE optedOut[u] \cup {c}) ELSE optedOut[u]]
      /\ UNCHANGED <<cache, recipient, raced, now>>
  BY DEF SavePreferences
<1>2. new \in Changing /\ new # AtRest /\ new.customers = U
  BY AtRestFacts DEF Changing
<1> HIDE DEF new
<1>3. /\ upsert' \in [Upsert -> {AtRest} \cup Changing] /\ upsert'[p] = new
      /\ \A q \in Upsert \ {p} : upsert'[q] = upsert[q]
  BY <1>1, <1>2 DEF PreferenceInv, PreferenceTypes
<1>4. PreferenceTypes'
  <2>1. optedOut' \in [Customer -> SUBSET KnownChannel]
    BY <1>1 DEF PreferenceInv, PreferenceTypes, ChannelBounds
  <2>2. QED
    BY <1>1, <1>3, <2>1 DEF PreferenceInv, PreferenceTypes
<1>5. StaleIsRaced'
  <2> SUFFICES ASSUME NEW v \in Customer, Cached(v)', cache'[v].out # optedOut'[v], v \notin raced'
               PROVE  \E q \in Upsert : upsert'[q] # AtRest /\ v \in upsert'[q].customers
    BY DEF StaleIsRaced
  <2>1. CASE v \in U
    BY <1>2, <1>3, <2>1
  <2>2. CASE v \notin U
    <3>1. Cached(v) /\ cache[v].out # optedOut[v] /\ v \notin raced
      BY <1>1, <2>2 DEF Cached
    <3>2. PICK q \in Upsert : upsert[q] # AtRest /\ v \in upsert[q].customers
      BY <3>1 DEF PreferenceInv, StaleIsRaced
    <3>3. q # p
      BY <1>1, <3>2
    <3>4. QED
      BY <1>3, <3>2, <3>3
  <2>3. QED
    BY <2>1, <2>2
<1>6. Avoiding'
  BY <1>1 DEF PreferenceInv, Avoiding
<1>7. QED
  BY <1>4, <1>5, <1>6 DEF PreferenceInv

\* A change ends with its customers evicted, or marked as raced if it failed before.
LEMMA EvictKeeps ==
  ASSUME PreferenceInv, NEW p \in Upsert, EvictPreferences(p) \/ UpsertFails(p)
  PROVE  PreferenceInv'
<1> DEFINE U == upsert[p].customers
<1>1. /\ upsert[p].pc = "evict" /\ upsert' = [upsert EXCEPT ![p] = AtRest] /\ UNCHANGED <<optedOut, recipient, now>>
      /\ \A u \in DOMAIN cache' : u \in DOMAIN cache /\ cache'[u] = cache[u]
      /\ \A u \in DOMAIN cache' : u \in U => u \in raced'
      /\ \A u \in raced : u \in raced' \/ u \in U
      /\ \A u \in U : u \in raced' \/ u \notin DOMAIN cache'
  BY DEF EvictPreferences, UpsertFails, Restrict
<1> HIDE DEF U
<1>2. /\ upsert' \in [Upsert -> {AtRest} \cup Changing] /\ \A q \in Upsert \ {p} : upsert'[q] = upsert[q]
  BY <1>1 DEF PreferenceInv, PreferenceTypes
<1>3. PreferenceTypes'
  BY <1>1, <1>2 DEF PreferenceInv, PreferenceTypes
<1>4. StaleIsRaced'
  <2> SUFFICES ASSUME NEW v \in Customer, Cached(v)', cache'[v].out # optedOut'[v], v \notin raced'
               PROVE  \E q \in Upsert : upsert'[q] # AtRest /\ v \in upsert'[q].customers
    BY DEF StaleIsRaced
  <2>1. v \notin U /\ Cached(v) /\ cache[v].out # optedOut[v]
    BY <1>1 DEF Cached
  <2>2. v \notin raced
    BY <1>1, <2>1
  <2>3. PICK q \in Upsert : upsert[q] # AtRest /\ v \in upsert[q].customers
    BY <2>1, <2>2 DEF PreferenceInv, StaleIsRaced
  <2>4. q # p
    BY <2>1, <2>3 DEF U
  <2>5. QED
    BY <1>2, <2>3, <2>4
<1>5. Avoiding'
  BY <1>1 DEF PreferenceInv, Avoiding
<1>6. QED
  BY <1>3, <1>4, <1>5 DEF PreferenceInv

LEMMA ExpireKeeps ==
  ASSUME PreferenceInv, Expire
  PROVE  PreferenceInv'
<1>1. /\ now' = now + 1 /\ raced' = raced \ {u \in DOMAIN cache : cache[u].expiresAt <= now'}
      /\ UNCHANGED <<optedOut, cache, recipient, upsert>>
  BY DEF Expire
<1>2. now \in Nat
  BY DEF PreferenceInv, PreferenceTypes
<1>3. PreferenceTypes'
  BY <1>1, <1>2 DEF PreferenceInv, PreferenceTypes
<1>4. StaleIsRaced'
  <2> SUFFICES ASSUME NEW v \in Customer, Cached(v)', cache'[v].out # optedOut'[v], v \notin raced'
               PROVE  \E q \in Upsert : upsert'[q] # AtRest /\ v \in upsert'[q].customers
    BY DEF StaleIsRaced
  <2>1. v \in DOMAIN cache /\ cache[v].expiresAt > now' /\ cache[v].expiresAt \in Nat
    BY <1>1 DEF Cached, PreferenceInv, PreferenceTypes
  <2>2. Cached(v) /\ ~ (cache[v].expiresAt <= now')
    BY <1>1, <1>2, <2>1 DEF Cached
  <2>3. v \notin raced
    BY <1>1, <2>2
  <2>4. QED
    BY <1>1, <2>2, <2>3 DEF PreferenceInv, StaleIsRaced
<1>5. Avoiding'
  BY <1>1 DEF PreferenceInv, Avoiding
<1>6. QED
  BY <1>3, <1>4, <1>5 DEF PreferenceInv

\* A change of an override, or its announcement, starts a renewal; one that ends stores what it found or marks the map.
LEMMA OverrideStepKeeps ==
  ASSUME OverrideInv, NEW o \in Override,
         (\E c \in KnownChannel : SaveOverride(o, c)) \/ Announced(o) \/ FindActive(o) \/ InvalidateFails(o) \/ SetOverrides(o)
  PROVE  OverrideInv'
<1>1. OverrideTypes
  BY DEF OverrideInv
<1>2. CASE (\E c \in KnownChannel : SaveOverride(o, c)) \/ Announced(o)
  <2>1. PICK new \in [pc : {"find"}, announces : BOOLEAN] : override' = [override EXCEPT ![o] = new]
    BY <1>2 DEF SaveOverride, Announced
  <2>2. new \in Renewing /\ new.pc = "find"
    BY DEF Renewing
  <2>3. override' \in [Override -> {AtRest} \cup Renewing] /\ override'[o] = new
    BY <1>1, <2>1, <2>2 DEF OverrideTypes
  <2>4. overrides' \in SUBSET KnownChannel /\ overrideMap' \in SUBSET KnownChannel /\ announced' \in Nat
    BY <1>1, <1>2 DEF SaveOverride, Announced, OverrideTypes
  <2>5. OverridesRenewed'
    BY <2>2, <2>3 DEF OverridesRenewed
  <2>6. QED
    BY <2>3, <2>4, <2>5 DEF OverrideInv, OverrideTypes
<1>3. CASE FindActive(o)
  <2> DEFINE new == [pc |-> "set", announces |-> override[o].announces, found |-> overrides]
  <2>1. override[o].pc = "find" /\ override' = [override EXCEPT ![o] = new] /\ UNCHANGED <<overrides, overrideMap, announced>>
    BY <1>3 DEF FindActive
  <2>2. override[o] \in [pc : {"find"}, announces : BOOLEAN]
    BY <1>1, <2>1, AtRestFacts DEF OverrideTypes, Renewing
  <2>3. new \in Renewing /\ new.pc = "set" /\ new.found = overrides
    BY <1>1, <2>2 DEF Renewing, OverrideTypes
  <2> HIDE DEF new
  <2>4. override' \in [Override -> {AtRest} \cup Renewing] /\ override'[o] = new
    BY <1>1, <2>1, <2>3 DEF OverrideTypes
  <2>5. QED
    BY <1>1, <2>1, <2>3, <2>4 DEF OverrideInv, OverrideTypes, OverridesRenewed
<1>4. CASE InvalidateFails(o)
  <2>1. override' = [override EXCEPT ![o] = AtRest] /\ mapSpoiled' = TRUE /\ UNCHANGED <<overrides, overrideMap, announced>>
    BY <1>4 DEF InvalidateFails
  <2>2. override' \in [Override -> {AtRest} \cup Renewing]
    BY <1>1, <2>1 DEF OverrideTypes
  <2>3. QED
    BY <1>1, <2>1, <2>2 DEF OverrideInv, OverrideTypes, OverridesRenewed
<1>5. CASE SetOverrides(o)
  <2>1. /\ override[o].pc = "set" /\ overrideMap' = override[o].found /\ mapSpoiled' = (override[o].found # overrides)
        /\ announced' = IF override[o].announces THEN announced + 1 ELSE announced
        /\ override' = [override EXCEPT ![o] = AtRest] /\ UNCHANGED overrides
    BY <1>5 DEF SetOverrides, SetMap
  <2>2. override[o].found \in SUBSET KnownChannel
    BY <1>1, <2>1, AtRestFacts DEF OverrideTypes, Renewing
  <2>3. OverrideTypes'
    BY <1>1, <2>1, <2>2 DEF OverrideTypes
  <2>4. OverridesRenewed'
    BY <2>1 DEF OverridesRenewed
  <2>5. QED
    BY <2>3, <2>4 DEF OverrideInv
<1>6. QED
  BY <1>2, <1>3, <1>4, <1>5

LEMMA ChannelsStep ==
  ChannelBounds /\ PreferenceInv /\ OverrideInv /\ [ChannelsNext]_channelVars => PreferenceInv' /\ OverrideInv'
<1> SUFFICES ASSUME ChannelBounds, PreferenceInv, OverrideInv, [ChannelsNext]_channelVars PROVE PreferenceInv' /\ OverrideInv'
  OBVIOUS
<1>1. CASE UNCHANGED channelVars
  BY <1>1, OverridesStay, PreferencesStay DEF channelVars, overrideVars, preferenceVars
<1>2. ASSUME NEW r \in Recipient, StorePreferences(r) \/ Finish(r) \/ \E u \in Customer : Start(r, u)
      PROVE  PreferenceInv' /\ UNCHANGED overrideVars
  <2>1. UNCHANGED overrideVars
    BY <1>2 DEF StorePreferences, Finish, Start
  <2>2. QED
    BY <1>2, <2>1, StartKeeps, StorePreferencesKeeps, FinishKeeps DEF OverrideInv
<1>3. ASSUME NEW p \in Upsert,
             EvictPreferences(p) \/ UpsertFails(p) \/ \E U \in SUBSET Customer, c \in RuleChannels : SavePreferences(p, U, c)
      PROVE  PreferenceInv' /\ UNCHANGED overrideVars
  <2>1. UNCHANGED overrideVars
    BY <1>3 DEF EvictPreferences, UpsertFails, SavePreferences
  <2>2. QED
    BY <1>3, <2>1, EvictKeeps, SavePreferencesKeeps
<1>4. CASE Expire
  BY <1>4, ExpireKeeps, OverridesStay DEF Expire
<1>5. ASSUME NEW o \in Override,
             Announced(o) \/ FindActive(o) \/ InvalidateFails(o) \/ SetOverrides(o) \/ \E c \in KnownChannel : SaveOverride(o, c)
      PROVE  OverrideInv' /\ UNCHANGED <<now, preferenceVars>>
  <2>1. UNCHANGED <<now, preferenceVars>>
    BY <1>5 DEF Announced, FindActive, InvalidateFails, SetOverrides, SaveOverride
  <2>2. OverrideInv'
    BY <1>5, OverrideStepKeeps
  <2>3. QED
    BY <2>1, <2>2
<1>6. QED
  BY <1>1, <1>2, <1>3, <1>4, <1>5, OverridesStay, PreferencesStay DEF ChannelsNext

\* Sequences without repetitions: the operations of the order of insertion.
LEMMA OrderFacts ==
  ASSUME NEW S, NEW s \in Seq(S), IsInjective(s)
  PROVE  /\ IsFiniteSet(ToSet(s)) /\ ToSet(s) \subseteq S
         /\ s # <<>> => /\ SubSeq(s, 2, Len(s)) \in Seq(S) /\ IsInjective(SubSeq(s, 2, Len(s)))
                        /\ s[1] \in ToSet(s) /\ ToSet(SubSeq(s, 2, Len(s))) = ToSet(s) \ {s[1]}
<1>1. s \in Surjection(1..Len(s), ToSet(s))
  BY DEF Surjection, ToSet
<1>2. IsFiniteSet(1..Len(s))
  BY FS_Interval
<1>3. IsFiniteSet(ToSet(s)) /\ ToSet(s) \subseteq S
  BY <1>1, <1>2, FS_Surjection DEF ToSet
<1>4. ASSUME s # <<>>
      PROVE  /\ SubSeq(s, 2, Len(s)) \in Seq(S) /\ IsInjective(SubSeq(s, 2, Len(s))) /\ s[1] \in ToSet(s) /\ ToSet(SubSeq(s, 2, Len(s))) = ToSet(s) \ {s[1]}
  <2>1. /\ SubSeq(s, 2, Len(s)) \in Seq(S) /\ Len(SubSeq(s, 2, Len(s))) = Len(s) - 1 /\ Len(s) >= 1 /\ DOMAIN SubSeq(s, 2, Len(s)) = 1..Len(s) - 1
        /\ DOMAIN s = 1..Len(s)
        /\ \A i \in 1..Len(s) - 1 : SubSeq(s, 2, Len(s))[i] = s[i + 1]
    <3>1. Len(s) \in Nat \ {0} /\ DOMAIN s = 1..Len(s)
      BY <1>4
    <3>2. /\ SubSeq(s, 2, Len(s)) \in Seq(S) /\ Len(SubSeq(s, 2, Len(s))) = Len(s) - 1
          /\ \A i \in 1..Len(s) - 1 : SubSeq(s, 2, Len(s))[i] = s[2 + i - 1]
      BY <3>1
    <3>3. QED
      BY <3>1, <3>2
  <2>2. IsInjective(SubSeq(s, 2, Len(s)))
    BY <2>1 DEF IsInjective
  <2>3. ToSet(SubSeq(s, 2, Len(s))) \subseteq ToSet(s) \ {s[1]}
    BY <2>1 DEF ToSet, IsInjective
  <2>4. ASSUME NEW x \in ToSet(s) \ {s[1]} PROVE x \in ToSet(SubSeq(s, 2, Len(s)))
    <3>1. PICK i \in 1..Len(s) : x = s[i] /\ i # 1
      BY <2>4 DEF ToSet
    <3>2. i - 1 \in 1..Len(s) - 1 /\ SubSeq(s, 2, Len(s))[i - 1] = x
      BY <2>1, <3>1
    <3>3. QED
      BY <2>1, <3>2 DEF ToSet
  <2>5. s[1] \in ToSet(s)
    BY <2>1 DEF ToSet
  <2>6. QED
    BY <2>1, <2>2, <2>3, <2>4, <2>5
<1>5. QED
  BY <1>3, <1>4

LEMMA OrderAppends ==
  ASSUME NEW S, NEW s \in Seq(S), IsInjective(s), NEW x \in S, x \notin ToSet(s)
  PROVE  /\ Append(s, x) \in Seq(S) /\ IsInjective(Append(s, x)) /\ ToSet(Append(s, x)) = ToSet(s) \cup {x}
<1>1. /\ Append(s, x) \in Seq(S) /\ Len(Append(s, x)) = Len(s) + 1
      /\ \A i \in 1..Len(s) : Append(s, x)[i] = s[i]
      /\ Append(s, x)[Len(s) + 1] = x
  OBVIOUS
<1>2. IsInjective(Append(s, x))
  BY <1>1 DEF IsInjective, ToSet
<1>3. ToSet(Append(s, x)) = ToSet(s) \cup {x}
  <2>1. ToSet(Append(s, x)) \subseteq ToSet(s) \cup {x}
    BY <1>1 DEF ToSet
  <2>2. x \in ToSet(Append(s, x))
    BY <1>1 DEF ToSet
  <2>3. ToSet(s) \subseteq ToSet(Append(s, x))
    BY <1>1 DEF ToSet
  <2>4. QED
    BY <2>1, <2>2, <2>3
<1>4. QED
  BY <1>1, <1>2, <1>3

\* The places of At are numbered by how many there are up to them, each number once.
LEMMA AtFacts ==
  ASSUME NEW S, NEW s \in Seq(S), NEW places \in SUBSET (1..Len(s))
  PROVE  /\ At(s, places) \in Seq(S) /\ ToSet(At(s, places)) = {s[i] : i \in places}
         /\ IsInjective(s) => IsInjective(At(s, places))
<1> DEFINE upTo(i) == {j \in places : j <= i}
           size == Cardinality(places)
<1>1. IsFiniteSet(places) /\ size \in Nat /\ places \subseteq Nat
  <2>1. IsFiniteSet(1..Len(s))
    BY FS_Interval
  <2>2. IsFiniteSet(places) /\ size \in Nat
    BY <2>1, FS_Subset, FS_CardinalityType
  <2>3. 1..Len(s) \subseteq Nat
    OBVIOUS
  <2>4. QED
    BY <2>2, <2>3
<1>2. ASSUME NEW i \in places
      PROVE  IsFiniteSet(upTo(i)) /\ Cardinality(upTo(i)) \in 1..size /\ Cardinality(upTo(i)) \in Nat
  <2>1. IsFiniteSet(upTo(i)) /\ Cardinality(upTo(i)) <= size /\ Cardinality(upTo(i)) \in Nat
    BY <1>1, FS_Subset, FS_CardinalityType
  <2>2. i \in upTo(i)
    OBVIOUS
  <2>3. Cardinality(upTo(i)) # 0
    BY <2>1, <2>2, FS_EmptySet
  <2>4. QED
    BY <1>1, <2>1, <2>3
<1>3. ASSUME NEW i \in places, NEW j \in places, i < j PROVE Cardinality(upTo(i)) < Cardinality(upTo(j))
  <2>1. upTo(i) \in SUBSET upTo(j) /\ j \in upTo(j) /\ j \notin upTo(i)
    <3>1. i \in Nat /\ j \in Nat /\ i < j
      BY <1>1, <1>3
    <3>2. \A k \in places : k \in Nat /\ (k <= i => k <= j)
      BY <1>1, <3>1
    <3>3. j <= j /\ ~ (j <= i)
      BY <3>1
    <3>4. upTo(i) \subseteq upTo(j)
      BY <3>2
    <3>5. j \in upTo(j) /\ j \notin upTo(i)
      BY <3>3
    <3>6. QED
      BY <3>4, <3>5
  <2>2. Cardinality(upTo(i)) <= Cardinality(upTo(j)) /\ Cardinality(upTo(i)) # Cardinality(upTo(j))
    BY <1>2, <2>1, FS_Subset
  <2>3. Cardinality(upTo(i)) \in Nat /\ Cardinality(upTo(j)) \in Nat
    BY <1>2
  <2>4. QED
    BY <2>2, <2>3
<1> HIDE DEF upTo
<1> DEFINE rank == [i \in places |-> Cardinality(upTo(i))]
           place == [n \in 1..size |-> CHOOSE i \in places : Cardinality(upTo(i)) = n]
<1>4. rank \in Injection(places, 1..size)
  <2>1. rank \in [places -> 1..size]
    BY <1>2
  <2>2. ASSUME NEW i \in places, NEW j \in places, rank[i] = rank[j] PROVE i = j
    <3>1. Cardinality(upTo(i)) = Cardinality(upTo(j)) /\ Cardinality(upTo(i)) \in 1..size
      BY <1>2, <2>2
    <3>2. ~ (i < j) /\ ~ (j < i)
      BY <1>3, <3>1
    <3>3. QED
      BY <3>2
  <2>3. QED
    BY <2>1, <2>2 DEF Injection, IsInjective
<1>5. IsFiniteSet(1..size) /\ Cardinality(1..size) = size
  BY <1>1, FS_Interval
<1>6. rank \in Surjection(places, 1..size)
  BY <1>4, <1>5, FS_Injection
<1>7. ASSUME NEW n \in 1..size PROVE place[n] \in places /\ place[n] \in 1..Len(s) /\ Cardinality(upTo(place[n])) = n
  <2>1. \E i \in places : Cardinality(upTo(i)) = n
    BY <1>6 DEF Surjection
  <2>2. QED
    BY <2>1
<1>8. ASSUME NEW i \in places PROVE \E n \in 1..size : place[n] = i
  <2>1. Cardinality(upTo(i)) \in 1..size
    BY <1>2
  <2>2. place[Cardinality(upTo(i))] \in places /\ Cardinality(upTo(place[Cardinality(upTo(i))])) = Cardinality(upTo(i))
    BY <1>7, <2>1
  <2>3. rank[place[Cardinality(upTo(i))]] = rank[i]
    BY <2>2
  <2>4. place[Cardinality(upTo(i))] = i
    BY <1>4, <2>2, <2>3 DEF Injection, IsInjective
  <2>5. QED
    BY <2>1, <2>4
<1>9. At(s, places) = [n \in 1..size |-> s[place[n]]]
  BY DEF At, upTo
<1> HIDE DEF place, rank
<1>10. At(s, places) \in Seq(S) /\ DOMAIN At(s, places) = 1..size /\ \A n \in 1..size : At(s, places)[n] = s[place[n]]
  <2>1. \A n \in 1..size : s[place[n]] \in S
    BY <1>7
  <2> HIDE DEF size
  <2>2. QED
    BY <1>1, <1>9, <2>1
<1>11. ToSet(At(s, places)) = {s[i] : i \in places}
  BY <1>7, <1>8, <1>10 DEF ToSet
<1>12. ASSUME IsInjective(s), NEW m \in 1..size, NEW n \in 1..size, At(s, places)[m] = At(s, places)[n] PROVE m = n
  <2>1. place[m] = place[n]
    BY <1>7, <1>10, <1>12 DEF IsInjective
  <2>2. QED
    BY <1>7, <2>1
<1>13. QED
  BY <1>10, <1>11, <1>12 DEF IsInjective

\* The cache has an entry for each customer of the order, and no other.
OrderInv == insertionOrder \in Seq(Customer) /\ OrderMatchesCache

LEMMA OrderStored ==
  ASSUME OrderInv, NEW u \in Customer, NEW out,
         cache' = PreferencesStored(u, out).cache, insertionOrder' = PreferencesStored(u, out).order
  PROVE  OrderInv'
<1> USE SizeAssumption
<1> DEFINE s == insertionOrder
           D == DOMAIN cache
           rest == SubSeq(s, 2, Len(s))
<1>1. s \in Seq(Customer) /\ ToSet(s) = D /\ IsInjective(s) /\ Cardinality(D) <= maxSize
  BY DEF OrderInv, OrderMatchesCache
<1>2. IsFiniteSet(D) /\ Cardinality(D) \in Nat
  BY <1>1, OrderFacts, FS_CardinalityType
<1>3. CASE u \in D
  <2>1. DOMAIN cache' = D /\ insertionOrder' = s
    BY <1>3 DEF PreferencesStored
  <2>2. QED
    BY <1>1, <2>1 DEF OrderInv, OrderMatchesCache
<1>4. CASE u \notin D /\ Cardinality(D) < maxSize
  <2>1. Room = 0
    BY <1>2, <1>4 DEF Room
  <2>2. SubSeq(s, 1, 0) = <<>> /\ ToSet(<<>>) = {} /\ SubSeq(s, 0 + 1, Len(s)) = s
    BY <1>1 DEF ToSet
  <2>3. (IF Room < Len(s) THEN Room ELSE Len(s)) = 0
    BY <1>1, <2>1
  <2>4. DOMAIN cache' = D \cup {u} /\ insertionOrder' = Append(s, u)
    BY <1>4, <2>2, <2>3 DEF PreferencesStored
  <2>5. Cardinality(D \cup {u}) = Cardinality(D) + 1
    BY <1>2, <1>4, FS_AddElement
  <2>6. Append(s, u) \in Seq(Customer) /\ IsInjective(Append(s, u)) /\ ToSet(Append(s, u)) = D \cup {u}
    BY <1>1, <1>4, OrderAppends
  <2>7. QED
    BY <1>2, <1>4, <2>4, <2>5, <2>6 DEF OrderInv, OrderMatchesCache
<1>5. CASE u \notin D /\ ~ (Cardinality(D) < maxSize)
  <2>1. Room = 1
    BY <1>1, <1>2, <1>5 DEF Room
  <2>2. s # <<>>
    <3>1. D # {}
      BY <1>2, <1>5, FS_EmptySet
    <3>2. QED
      BY <1>1, <3>1 DEF ToSet
  <2>3. (IF Room < Len(s) THEN Room ELSE Len(s)) = 1
    <3>1. Len(s) \in Nat /\ Len(s) # 0
      BY <1>1, <2>2
    <3>2. QED
      BY <2>1, <3>1
  <2>4. ToSet(SubSeq(s, 1, 1)) = {s[1]} /\ SubSeq(s, 1 + 1, Len(s)) = rest
    <3>1. SubSeq(s, 1, 1) \in Seq(Customer) /\ Len(SubSeq(s, 1, 1)) = 1 /\ SubSeq(s, 1, 1)[1] = s[1]
      BY <1>1, <2>2
    <3>2. DOMAIN SubSeq(s, 1, 1) = {1}
      BY <3>1
    <3>3. QED
      BY <3>1, <3>2 DEF ToSet
  <2>5. DOMAIN cache' = (D \ {s[1]}) \cup {u} /\ insertionOrder' = Append(rest, u)
    BY <1>5, <2>3, <2>4 DEF PreferencesStored
  <2>6. /\ rest \in Seq(Customer) /\ IsInjective(rest) /\ s[1] \in D /\ ToSet(rest) = D \ {s[1]}
    BY <1>1, <2>2, OrderFacts
  <2>7. Cardinality((D \ {s[1]}) \cup {u}) = Cardinality(D)
    <3>1. IsFiniteSet(D \ {s[1]}) /\ Cardinality(D \ {s[1]}) = Cardinality(D) - 1
      BY <1>2, <2>6, FS_RemoveElement
    <3>2. u \notin D \ {s[1]}
      BY <1>5
    <3>3. Cardinality((D \ {s[1]}) \cup {u}) = Cardinality(D \ {s[1]}) + 1
      BY <3>1, <3>2, FS_AddElement
    <3>4. QED
      BY <1>2, <3>1, <3>3
  <2>8. LET t == Append(rest, u) IN t \in Seq(Customer) /\ IsInjective(t) /\ ToSet(t) = (D \ {s[1]}) \cup {u}
    BY <1>5, <2>6, OrderAppends
  <2>9. QED
    BY <1>1, <2>5, <2>7, <2>8 DEF OrderInv, OrderMatchesCache
<1>6. QED
  BY <1>3, <1>4, <1>5

\* No customer of the order stands in it twice, so dropping the first entry drops the customer.
LEMMA OrderEvicted ==
  ASSUME OrderInv, NEW U, cache' = Restrict(cache, DOMAIN cache \ U), insertionOrder' = At(insertionOrder, Kept(U))
  PROVE  OrderInv'
<1> DEFINE s == insertionOrder
           D == DOMAIN cache
<1>1. s \in Seq(Customer) /\ ToSet(s) = D /\ IsInjective(s) /\ Cardinality(D) <= maxSize
  BY DEF OrderInv, OrderMatchesCache
<1>2. Kept(U) = {i \in 1..Len(s) : s[i] \notin U}
  <2>1. \A i \in 1..Len(s) : \A j \in 1..i - 1 : j \in 1..Len(s) /\ j # i
    BY <1>1
  <2>2. QED
    BY <1>1, <2>1 DEF Kept, IsInjective
<1>3. Kept(U) \in SUBSET (1..Len(s)) /\ {s[i] : i \in Kept(U)} = D \ U
  BY <1>1, <1>2 DEF ToSet
<1>4. insertionOrder' \in Seq(Customer) /\ ToSet(insertionOrder') = D \ U /\ IsInjective(insertionOrder')
  BY <1>1, <1>3, AtFacts
<1>5. DOMAIN cache' = D \ U
  BY DEF Restrict
<1>6. Cardinality(D \ U) <= maxSize
  <2>1. IsFiniteSet(D)
    BY <1>1, OrderFacts
  <2>2. Cardinality(D \ U) <= Cardinality(D) /\ Cardinality(D) \in Nat /\ Cardinality(D \ U) \in Nat
    BY <2>1, FS_Subset, FS_CardinalityType
  <2>3. QED
    BY <1>1, <2>2, SizeAssumption
<1>7. QED
  BY <1>4, <1>5, <1>6 DEF OrderInv, OrderMatchesCache

LEMMA OrderStart == ChannelsInit => OrderInv
<1> SUFFICES ASSUME ChannelsInit PROVE OrderInv
  OBVIOUS
<1>1. insertionOrder = <<>> /\ DOMAIN cache = {}
  BY DEF ChannelsInit
<1>2. QED
  BY <1>1, SizeAssumption, FS_EmptySet DEF OrderInv, OrderMatchesCache, ToSet, IsInjective

LEMMA OrderStep == PreferenceInv /\ OrderInv /\ [ChannelsNext]_channelVars => OrderInv'
<1> SUFFICES ASSUME PreferenceInv, OrderInv, [ChannelsNext]_channelVars PROVE OrderInv'
  OBVIOUS
<1>1. ASSUME UNCHANGED <<cache, insertionOrder>> PROVE OrderInv'
  BY <1>1 DEF OrderInv, OrderMatchesCache
<1>2. ASSUME NEW r \in Recipient, StorePreferences(r) PROVE OrderInv'
  <2>1. recipient[r].customer \in Customer
    BY <1>2, AtRestFacts DEF StorePreferences, PreferenceInv, PreferenceTypes, Resolving
  <2>2. /\ cache' = PreferencesStored(recipient[r].customer, recipient[r].out).cache
        /\ insertionOrder' = PreferencesStored(recipient[r].customer, recipient[r].out).order
    BY <1>2 DEF StorePreferences
  <2>3. QED
    BY <2>1, <2>2, OrderStored
<1>3. ASSUME NEW p \in Upsert, EvictPreferences(p) PROVE OrderInv'
  <2>1. /\ cache' = Restrict(cache, DOMAIN cache \ upsert[p].customers)
        /\ insertionOrder' = At(insertionOrder, Kept(upsert[p].customers))
    BY <1>3 DEF EvictPreferences
  <2>2. QED
    BY <2>1, OrderEvicted
<1>4. ASSUME \/ UNCHANGED channelVars
             \/ \E r \in Recipient : Finish(r) \/ \E u \in Customer : Start(r, u)
             \/ \E p \in Upsert : UpsertFails(p) \/ \E U \in SUBSET Customer, c \in RuleChannels : SavePreferences(p, U, c)
             \/ Expire
             \/ \E o \in Override : Announced(o) \/ FindActive(o) \/ InvalidateFails(o) \/ SetOverrides(o)
                                   \/ \E c \in KnownChannel : SaveOverride(o, c)
      PROVE  UNCHANGED <<cache, insertionOrder>>
  BY <1>4 DEF channelVars, preferenceVars, Finish, Start, UpsertFails, SavePreferences, Expire, Announced, FindActive, InvalidateFails, SetOverrides, SaveOverride
<1>5. QED
  BY <1>1, <1>2, <1>3, <1>4 DEF ChannelsNext

\* Whatever fetches, changes and expiries overlap: the preference cache names each of its customers once and never
\* outgrows its limit, a customer's stale preferences come from a read that overlapped the save, an opt-out saved
\* before a resolution starts keeps the channel out unless an override forces it, and the overrides are the table's
\* once they are applied.
THEOREM ChannelsHold == ChannelBounds => (ChannelsSpec => []ChannelsAsConfigured)
<1> SUFFICES ASSUME ChannelBounds PROVE ChannelsSpec => []ChannelsAsConfigured
  OBVIOUS
<1> DEFINE Inv == PreferenceInv /\ OverrideInv /\ OrderInv
<1>1. ChannelsInit => Inv
  BY ChannelsStart, OrderStart
<1>2. Inv /\ [ChannelsNext]_channelVars => Inv'
  BY ChannelsStep, OrderStep
<1>3. Inv => ChannelsAsConfigured
  <2> SUFFICES ASSUME PreferenceInv, OverrideInv, OrderInv PROVE OptOutHonoured /\ OverridesFresh
    BY DEF PreferenceInv, OrderInv, ChannelsAsConfigured
  <2>1. OptOutHonoured
    BY AtRestFacts DEF PreferenceInv, Avoiding, OptOutHonoured, Effective
  <2>2. OverridesFresh
    BY AtRestFacts DEF OverrideInv, OverridesRenewed, OverridesFresh
  <2>3. QED
    BY <2>1, <2>2
<1>4. QED
  BY <1>1, <1>2, <1>3, PTL DEF ChannelsSpec

-----------------------------------------------------------------------------
(***************************************************************************)
(* One event: the rules it is matched with and the notifications they ask  *)
(* for.  No rule before the next one to match is exclusive and satisfied,  *)
(* or matching is over; and a rule that applies is still to be acted on,   *)
(* failed, or has each of its recipients to do, failed or asked for.       *)
(***************************************************************************)

RecipientDone(i, r) == <<i, r>> \in failed \/ \A c \in RuleChannels : <<i, r, c>> \in asked
RuleDone(i) == <<i>> \in failed \/ \A r \in Recipients(rules[i]) : RecipientDone(i, r)

\* What is true of the rules while they are matched, and then while they are acted on, all but the current one.
Matching ==
  /\ progress = [pc |-> "match", next |-> progress.next, matched |-> progress.matched]
  /\ progress.next \in Nat \ {0}
  /\ progress.matched \in Seq(DOMAIN rules)
  /\ ToSet(progress.matched) = {i \in DOMAIN rules : i < progress.next /\ Applies(i)}
  /\ progress.next <= Len(rules) => \A j \in 1 .. progress.next - 1 : rules[j].exclusive => ~ Satisfies(j, value)
  /\ failed = {} /\ asked = {}
ActingBut(current) ==
  /\ progress.left \in Seq(DOMAIN rules)
  /\ \A i \in ToSet(progress.left) : Applies(i)
  /\ \A i \in DOMAIN rules \ current : Applies(i) => i \in ToSet(progress.left) \/ RuleDone(i)
  /\ \A x \in asked : Applies(x[1])
Serving ==
  /\ progress = [pc |-> "recipients", left |-> progress.left, rule |-> progress.rule, todo |-> progress.todo]
  /\ ActingBut({progress.rule})
  /\ progress.rule \in DOMAIN rules /\ Applies(progress.rule)
  /\ \A r \in Recipients(rules[progress.rule]) : r \in progress.todo \/ RecipientDone(progress.rule, r)

MatchInv ==
  /\ rules \in Seq(Rules) /\ value \in Values
  /\ \/ progress = [pc |-> "idle"] /\ failed = {} /\ asked = {}
     \/ Matching
     \/ progress = [pc |-> "rules", left |-> progress.left] /\ ActingBut({})
     \/ Serving

LEMMA HeadFacts ==
  ASSUME NEW S, NEW s \in Seq(S), s # <<>>
  PROVE  Head(s) \in S /\ Head(s) \in ToSet(s) /\ Tail(s) \in Seq(S) /\ ToSet(s) = {Head(s)} \cup ToSet(Tail(s))
<1>1. Len(s) \in Nat \ {0} /\ DOMAIN s = 1..Len(s) /\ Head(s) = s[1]
  OBVIOUS
<1>2. /\ Tail(s) \in Seq(S) /\ Len(Tail(s)) = Len(s) - 1
      /\ \A i \in 1..Len(s) - 1 : Tail(s)[i] = s[i + 1]
  BY <1>1
<1>3. ToSet(Tail(s)) = {s[i] : i \in 2..Len(s)}
  <2>1. DOMAIN Tail(s) = 1..Len(s) - 1
    BY <1>1, <1>2
  <2>2. \A i \in 2..Len(s) : i - 1 \in 1..Len(s) - 1 /\ Tail(s)[i - 1] = s[i]
    BY <1>1, <1>2
  <2>3. \A i \in 1..Len(s) - 1 : i + 1 \in 2..Len(s)
    BY <1>1
  <2>4. ToSet(Tail(s)) = {Tail(s)[j] : j \in 1..Len(s) - 1}
    BY <2>1 DEF ToSet
  <2>5. ASSUME NEW j \in 1..Len(s) - 1 PROVE Tail(s)[j] \in {s[i] : i \in 2..Len(s)}
    BY <1>2, <2>3
  <2>6. ASSUME NEW i \in 2..Len(s) PROVE s[i] \in {Tail(s)[j] : j \in 1..Len(s) - 1}
    BY <2>2
  <2>7. QED
    BY <2>4, <2>5, <2>6
<1>4. QED
  BY <1>1, <1>2, <1>3 DEF ToSet

LEMMA MatchKeeps == ASSUME MatchInv, MatchFromRules PROVE MatchInv'
<1> DEFINE i == progress.next
<1>1. /\ Matching /\ i \in DOMAIN rules /\ UNCHANGED <<rules, value, failed, asked>> /\ rules \in Seq(Rules)
      /\ DOMAIN rules = 1..Len(rules) /\ Len(rules) \in Nat /\ i \in Nat \ {0}
  BY DEF MatchFromRules, MatchInv, Matching, Serving
<1>2. Satisfies(i, value) <=> Applies(i)
  BY <1>1 DEF Matching, Applies
<1>3. \A j \in DOMAIN rules : Applies(j)' <=> Applies(j)
  BY <1>1 DEF Applies, Satisfies
<1>4. CASE ~ Satisfies(i, value)
  <2>1. progress' = [pc |-> "match", next |-> i + 1, matched |-> progress.matched]
    BY <1>1, <1>4 DEF MatchFromRules, Matching
  <2>2. {j \in DOMAIN rules : j < i /\ Applies(j)} = {j \in DOMAIN rules : j < i + 1 /\ Applies(j)}
    BY <1>1, <1>2, <1>4
  <2>3. \A j \in 1..i : rules[j].exclusive => ~ Satisfies(j, value)
    BY <1>1, <1>4 DEF Matching
  <2>4. i + 1 \in Nat \ {0} /\ 1..(i + 1) - 1 = 1..i
    BY <1>1
  <2>5. Matching'
    BY <1>1, <1>3, <2>1, <2>2, <2>3, <2>4 DEF Matching, Satisfies
  <2>6. QED
    BY <1>1, <2>5 DEF MatchInv
<1>5. CASE Satisfies(i, value)
  <2> DEFINE next == IF rules[i].exclusive THEN Len(rules) + 1 ELSE i + 1
  <2>1. progress' = [pc |-> "match", next |-> next, matched |-> Append(progress.matched, i)]
    BY <1>1, <1>5 DEF MatchFromRules
  <2>2. progress.matched \in Seq(DOMAIN rules) /\ ToSet(progress.matched) = {j \in DOMAIN rules : j < i /\ Applies(j)}
    BY <1>1 DEF Matching
  <2>3. /\ Append(progress.matched, i) \in Seq(DOMAIN rules)
        /\ ToSet(Append(progress.matched, i)) = ToSet(progress.matched) \cup {i}
    <3>1. /\ Append(progress.matched, i) \in Seq(DOMAIN rules) /\ Len(Append(progress.matched, i)) = Len(progress.matched) + 1
          /\ \A j \in 1..Len(progress.matched) : Append(progress.matched, i)[j] = progress.matched[j]
          /\ Append(progress.matched, i)[Len(progress.matched) + 1] = i
      BY <1>1, <2>2
    <3>2. /\ DOMAIN progress.matched = 1..Len(progress.matched) /\ Len(progress.matched) \in Nat
          /\ DOMAIN Append(progress.matched, i) = 1..Len(progress.matched) + 1
      BY <2>2, <3>1
    <3>3. QED
      BY <3>1, <3>2 DEF ToSet
  <2>4. next \in Nat \ {0}
    BY <1>1
  <2>5. \A j \in DOMAIN rules : (j < next /\ Applies(j)) <=> (j < i /\ Applies(j)) \/ j = i
    <3>1. CASE rules[i].exclusive
      <4>1. ASSUME NEW j \in DOMAIN rules, j > i PROVE ~ Applies(j)
        <5>1. i \in 1..j - 1
          BY <1>1, <4>1
        <5>2. QED
          BY <1>5, <3>1, <5>1 DEF Applies
      <4>2. next = Len(rules) + 1 /\ \A j \in DOMAIN rules : j < next /\ j \in Nat
        BY <1>1, <3>1
      <4>3. QED
        BY <1>1, <1>2, <1>5, <4>1, <4>2
    <3>2. CASE ~ rules[i].exclusive
      BY <1>1, <1>2, <1>5, <3>2
    <3>3. QED
      BY <3>1, <3>2
  <2>6. next <= Len(rules) => \A j \in 1..next - 1 : rules[j].exclusive => ~ Satisfies(j, value)
    <3> SUFFICES ASSUME next <= Len(rules), NEW j \in 1..next - 1, rules[j].exclusive PROVE ~ Satisfies(j, value)
      OBVIOUS
    <3>1. ~ rules[i].exclusive /\ next = i + 1
      BY <1>1
    <3>2. j \in 1..i - 1
      BY <1>1, <3>1
    <3>3. QED
      BY <1>1, <3>2 DEF Matching
  <2>7. {j \in DOMAIN rules : j < next /\ Applies(j)} = ToSet(Append(progress.matched, i))
    BY <1>1, <2>2, <2>3, <2>5
  <2> HIDE DEF next
  <2>8. Matching'
    BY <1>1, <1>3, <2>1, <2>3, <2>4, <2>6, <2>7 DEF Matching, Satisfies
  <2>9. QED
    BY <1>1, <2>8 DEF MatchInv
<1>6. QED
  BY <1>4, <1>5

\* What is true of a rule stays true while no rule, payload or earlier result is lost.
LEMMA DoneStays ==
  ASSUME UNCHANGED <<rules, value>>, failed \subseteq failed', asked \subseteq asked', NEW i
  PROVE  /\ Applies(i)' <=> Applies(i)
         /\ RuleDone(i) => RuleDone(i)'
         /\ \A r : RecipientDone(i, r) => RecipientDone(i, r)'
<1>1. Applies(i)' <=> Applies(i)
  BY DEF Applies, Satisfies
<1>2. \A r : RecipientDone(i, r) => RecipientDone(i, r)'
  BY DEF RecipientDone
<1>3. QED
  BY <1>1, <1>2 DEF RuleDone

LEMMA ActsKeep == ASSUME MatchInv, ProcessAction PROVE MatchInv'
<1>0. PICK i, rest : i = Head(progress.left) /\ rest = Tail(progress.left)
  OBVIOUS
<1>1. /\ progress = [pc |-> "rules", left |-> progress.left] /\ ActingBut({}) /\ progress.left # <<>>
      /\ UNCHANGED <<rules, value, asked>> /\ failed \subseteq failed' /\ rules \in Seq(Rules) /\ value \in Values
  BY DEF ProcessAction, MatchInv, Matching, Serving
<1>2. /\ i \in DOMAIN rules /\ i \in ToSet(progress.left) /\ rest \in Seq(DOMAIN rules)
      /\ ToSet(progress.left) = {i} \cup ToSet(rest)
  BY <1>0, <1>1, HeadFacts DEF ActingBut
<1>3. \A j : (Applies(j)' <=> Applies(j)) /\ (RuleDone(j) => RuleDone(j)')
  BY <1>1, DoneStays
<1>4. CASE progress' = [pc |-> "recipients", left |-> rest, rule |-> i, todo |-> Recipients(rules[i])]
  <2>1. progress'.left = rest /\ progress'.rule = i /\ progress'.todo = Recipients(rules[i])
    BY <1>4
  <2>2. ActingBut({i})'
    BY <1>1, <1>2, <1>3, <2>1 DEF ActingBut
  <2>3. Serving'
    BY <1>1, <1>2, <1>3, <1>4, <2>1, <2>2 DEF Serving, ActingBut
  <2>4. QED
    BY <1>1, <2>3 DEF MatchInv
<1>5. CASE progress' = [progress EXCEPT !.left = rest] /\ failed' = failed \cup {<<i>>}
  <2>1. progress' = [pc |-> "rules", left |-> rest] /\ progress'.left = rest
    <3>1. progress = [pc |-> "rules", left |-> progress.left]
      BY <1>1
    <3>2. QED
      BY <1>5, <3>1
  <2>2. RuleDone(i)'
    BY <1>5 DEF RuleDone
  <2>3. ActingBut({})'
    BY <1>1, <1>2, <1>3, <2>1, <2>2 DEF ActingBut
  <2>4. QED
    BY <1>1, <2>1, <2>3 DEF MatchInv
<1>6. QED
  BY <1>0, <1>4, <1>5 DEF ProcessAction

LEMMA ServesKeep == ASSUME MatchInv, ProcessRecipient PROVE MatchInv'
<1>0. PICK i : i = progress.rule
  OBVIOUS
<1>1. Serving /\ UNCHANGED <<rules, value>> /\ rules \in Seq(Rules) /\ value \in Values
  BY DEF ProcessRecipient, MatchInv, Matching
<1>2. PICK r \in progress.todo :
        /\ progress' = [progress EXCEPT !.todo = @ \ {r}]
        /\ \/ asked' = asked \cup {<<i, r, c>> : c \in RuleChannels} /\ UNCHANGED failed
           \/ failed' = failed \cup {<<i, r>>} /\ UNCHANGED asked
  BY <1>0 DEF ProcessRecipient
<1>3. progress' = [pc |-> "recipients", left |-> progress.left, rule |-> i, todo |-> progress.todo \ {r}]
  <2>1. progress = [pc |-> "recipients", left |-> progress.left, rule |-> i, todo |-> progress.todo]
    BY <1>0, <1>1 DEF Serving
  <2>2. QED
    BY <1>2, <2>1
<1>4. progress'.left = progress.left /\ progress'.rule = i /\ progress'.todo = progress.todo \ {r}
  BY <1>3
<1>5. failed \subseteq failed' /\ asked \subseteq asked' /\ \A x \in asked' : x \in asked \/ x[1] = i
  BY <1>2
<1>6. \A j : (Applies(j)' <=> Applies(j)) /\ (RuleDone(j) => RuleDone(j)') /\ \A q : RecipientDone(j, q) => RecipientDone(j, q)'
  BY <1>1, <1>5, DoneStays
<1>7. RecipientDone(i, r)'
  BY <1>2 DEF RecipientDone
<1>8. ActingBut({i})'
  BY <1>0, <1>1, <1>4, <1>5, <1>6 DEF Serving, ActingBut
<1>9. \A q \in Recipients(rules[i]) : q \in progress.todo \ {r} \/ RecipientDone(i, q)'
  BY <1>0, <1>1, <1>6, <1>7 DEF Serving
<1>10. Serving'
  BY <1>0, <1>1, <1>3, <1>4, <1>6, <1>8, <1>9 DEF Serving
<1>11. QED
  BY <1>1, <1>10 DEF MatchInv

LEMMA MatchStep == MatchInv /\ [MatchNext]_matchVars => MatchInv'
<1> SUFFICES ASSUME MatchInv, [MatchNext]_matchVars PROVE MatchInv'
  OBVIOUS
<1>1. CASE UNCHANGED matchVars
  <2>1. \A j : (Applies(j)' <=> Applies(j)) /\ (RuleDone(j)' <=> RuleDone(j)) /\ \A q : RecipientDone(j, q)' <=> RecipientDone(j, q)
    BY <1>1 DEF matchVars, Applies, Satisfies, RuleDone, RecipientDone
  <2>2. (Matching' <=> Matching) /\ (Serving' <=> Serving) /\ (ActingBut({})' <=> ActingBut({}))
    BY <1>1, <2>1 DEF matchVars, Matching, Serving, ActingBut, Satisfies
  <2>3. QED
    BY <1>1, <2>2 DEF matchVars, MatchInv
<1>2. CASE ReceiveEvent
  <2>1. /\ rules' \in Seq(Rules) /\ value' \in Values /\ failed' = {} /\ asked' = {}
        /\ progress' = [pc |-> "match", next |-> 1, matched |-> <<>>]
    <3>1. PICK n \in 1..MaxRules : rules' \in [1..n -> Rules]
      BY <1>2 DEF ReceiveEvent
    <3>2. rules' \in Seq(Rules)
      BY <3>1, MatchAssumption
    <3>3. QED
      BY <1>2, <3>2 DEF ReceiveEvent, MatchInv, Matching, ActingBut, Serving
  <2>2. ToSet(<<>>) = {} /\ <<>> \in Seq(DOMAIN rules') /\ 1 \in Nat \ {0} /\ 1..1 - 1 = {} /\ \A j \in DOMAIN rules' : ~ (j < 1)
    BY <2>1 DEF ToSet
  <2>3. Matching'
    BY <2>1, <2>2 DEF Matching
  <2>4. QED
    BY <2>1, <2>3 DEF MatchInv
<1>3. CASE Match
  <2>1. /\ Matching /\ progress.next > Len(rules) /\ progress' = [pc |-> "rules", left |-> progress.matched]
        /\ UNCHANGED <<rules, value, failed, asked>> /\ rules \in Seq(Rules) /\ value \in Values
    BY <1>3 DEF Match, MatchInv, Matching, Serving
  <2>2. ToSet(progress.matched) = {i \in DOMAIN rules : Applies(i)}
    <3>1. \A i \in DOMAIN rules : i < progress.next
      BY <2>1 DEF Matching
    <3>2. QED
      BY <2>1, <3>1 DEF Matching
  <2>3. \A j : Applies(j)' <=> Applies(j)
    BY <2>1 DEF Applies, Satisfies
  <2>4. ActingBut({})'
    BY <2>1, <2>2, <2>3 DEF ActingBut, Matching
  <2>5. QED
    BY <2>1, <2>4 DEF MatchInv
<1>4. CASE EndOfRecipients
  <2>1. /\ Serving /\ progress.todo = {} /\ progress' = [pc |-> "rules", left |-> progress.left]
        /\ UNCHANGED <<rules, value, failed, asked>> /\ rules \in Seq(Rules) /\ value \in Values
    BY <1>4 DEF EndOfRecipients, MatchInv, Matching
  <2>2. \A j : (Applies(j)' <=> Applies(j)) /\ (RuleDone(j) => RuleDone(j)')
    BY <2>1, DoneStays
  <2>3. RuleDone(progress.rule)
    BY <2>1 DEF Serving, RuleDone
  <2>4. ActingBut({})'
    BY <2>1, <2>2, <2>3 DEF ActingBut, Serving
  <2>5. QED
    BY <2>1, <2>4 DEF MatchInv
<1>5. QED
  BY <1>1, <1>2, <1>3, <1>4, MatchKeeps, ActsKeep, ServesKeep DEF MatchNext

\* A number stands in one of three ways to another; what is no number stands in none.
LEMMA ValuesSplit == value \in Values => ComparisonsSplit
<1> SUFFICES ASSUME value \in Values, NEW n \in Number
             PROVE  LET holds == {o \in {"$lt", "$eq", "$gt"} : EvaluateOperator(o, value, Num(n))}
                    IN IF IsNumber(value) THEN Cardinality(holds) = 1 ELSE holds = {}
  BY DEF ComparisonsSplit
<1> DEFINE holds == {o \in {"$lt", "$eq", "$gt"} : EvaluateOperator(o, value, Num(n))}
<1>1. /\ EvaluateOperator("$lt", value, Num(n)) <=> IsNumber(value) /\ value.number < n
      /\ EvaluateOperator("$gt", value, Num(n)) <=> IsNumber(value) /\ value.number > n
      /\ EvaluateOperator("$eq", value, Num(n)) <=> value = Num(n)
  BY DEF EvaluateOperator, Numbers, IsNumber, Same, IsArray, Num
<1>2. ASSUME NEW m \in Number, value = Num(m) PROVE IsNumber(value) /\ Cardinality(holds) = 1
  <2>1. m \in Nat /\ n \in Nat /\ IsNumber(value) /\ value.number = m
    BY <1>2, MatchAssumption DEF IsNumber, Num
  <2>2. value = Num(n) <=> m = n
    BY <1>2 DEF Num
  <2>3. PICK o \in {"$lt", "$eq", "$gt"} : holds = {o}
    <3>1. CASE m < n
      <4>1. holds = {"$lt"}
        BY <1>1, <2>1, <2>2, <3>1
      <4>2. QED
        BY <4>1
    <3>2. CASE m = n
      <4>1. holds = {"$eq"}
        BY <1>1, <2>1, <2>2, <3>2
      <4>2. QED
        BY <4>1
    <3>3. CASE m > n
      <4>1. holds = {"$gt"}
        BY <1>1, <2>1, <2>2, <3>3
      <4>2. QED
        BY <4>1
    <3>4. QED
      BY <2>1, <3>1, <3>2, <3>3
  <2>4. QED
    BY <2>1, <2>3, FS_Singleton
<1>3. ASSUME value = Undefined \/ value = Str(<<"x">>) PROVE ~ IsNumber(value) /\ holds = {}
  <2>1. ~ IsNumber(value)
    BY <1>3 DEF IsNumber, Undefined, Str
  <2>2. value # Num(n)
    BY <2>1 DEF IsNumber, Num
  <2>3. QED
    BY <1>1, <2>1, <2>2
<1>4. QED
  BY <1>2, <1>3 DEF Values

\* Whatever fails while an event is processed, exactly the rules that apply to it are acted on and everything that did
\* not fail itself is asked for; a number satisfies one comparison of three and nothing else any; and the rules
\* are those the table has once announcements are handled.
THEOREM RulesApplied == RuleBounds => (RulesSpec /\ MatchSpec => []RulesApply)
<1> SUFFICES ASSUME RuleBounds PROVE RulesSpec /\ MatchSpec => []RulesApply
  OBVIOUS
<1>1. MatchInit => MatchInv
  BY DEF MatchInit, MatchInv, Values
<1>2. MatchInv /\ [MatchNext]_matchVars => MatchInv'
  BY MatchStep
<1>3. MatchInv /\ RulesFreshUnlessOvertaken => RulesApply
  <2> SUFFICES ASSUME MatchInv, progress.pc = "rules", progress.left = <<>>
               PROVE  /\ \A i \in DOMAIN rules : Applies(i) => RuleDone(i)
                      /\ \A x \in asked : Applies(x[1])
    BY ValuesSplit DEF RulesApply, FailuresStayLocal, RuleDone, RecipientDone, MatchInv
  <2>1. ActingBut({}) /\ ToSet(progress.left) = {}
    BY DEF MatchInv, Matching, Serving, ToSet
  <2>2. QED
    BY <2>1 DEF ActingBut
<1>4. QED
  BY <1>1, <1>2, <1>3, RulesHold, PTL DEF MatchSpec

-----------------------------------------------------------------------------
(***************************************************************************)
(* Recipient groups.  Groups, members and removals are never taken back,   *)
(* so what a request or a page has been told of them stays true while      *)
(* others go on; a request that has passed its removals has made its       *)
(* members inactive.                                                       *)
(***************************************************************************)
GroupRow == [name : Name, active : BOOLEAN]
MemberRow == [group : Group, active : BOOLEAN]
DetachedRow == [group : {None}, active : BOOLEAN]
Ops == {"create", "update", "delete", "add", "remove"}
Pcs == {"find", "check", "insert", "save", "deactivate", "add", "done", "refused", "failed"}
Entity == [name : Name, active : BOOLEAN, members : {None} \cup SUBSET Member]
Asked == [op : Ops, pc : Pcs, name : Name \cup {None}, group : Group \cup {None}, removes : SUBSET Member, adds : BOOLEAN]
Found ==
  [op : Ops, pc : Pcs, name : Name \cup {None}, group : Group \cup {None}, removes : SUBSET Member, adds : BOOLEAN, entity : Entity]

\* None is none of the values it stands in for.
GroupBounds ==
  None \notin Group \cup Member \cup Name \cup (SUBSET Member) \cup GroupRow \cup MemberRow \cup DetachedRow

GoneMember == {m \in Known : ~ members[m].active}

\* A request over existing groups E, known members K and inactive members I.
Legal(r, E, K, I) ==
  /\ r \in Asked \cup Found
  /\ r.op = "create" => r \in Asked /\ r.name \in Name /\ r.removes = {} /\ r.pc \notin {"find", "save", "deactivate"}
  /\ r.op # "create" => r.group \in E /\ r.pc # "insert" /\ (r.pc \notin {"find", "failed"} => r \in Found)
  /\ r.pc = "find" => r \in Asked
  /\ r.pc = "check" => r.name \in Name /\ r.op \in {"create", "update"}
  /\ r.pc = "save" => r.op \in {"update", "delete"} /\ (r.op = "delete" => ~ r.entity.active)
  /\ r.op = "delete" => r.removes = {}
  /\ r.removes \subseteq K
  /\ r.pc \in {"add", "done"} => r.group \in E /\ r.removes \subseteq I

Shown(p, E, K) ==
  /\ p \in [at : {"list", "new", "group"}, group : Group \cup {None}, rows : SUBSET (Group \cup Member),
            target : Group \cup Member \cup {None}]
  /\ p.at = "list" => p.rows \subseteq E /\ p.target \in E \cup {None}
  /\ p.at = "group" => p.group \in E /\ p.rows \subseteq K /\ p.target \in K \cup {None}
  /\ p.at = "new" => p.target = None

RowTypes ==
  /\ groups \in [Group -> {None} \cup GroupRow]
  /\ members \in [Member -> {None} \cup MemberRow]
Requests == DOMAIN request = Sender /\ \A s \in Sender : request[s] = NoRequest \/ Legal(request[s], Existing, Known, GoneMember)
Pages == DOMAIN page = Page /\ \A t \in Page : Shown(page[t], Existing, Known)

GroupsInv == RowTypes /\ NamesAreUnique /\ MembersHaveGroup /\ removed \subseteq GoneMember /\ Requests /\ Pages

\* Nothing is taken back.
Grows == Existing \subseteq Existing' /\ Known \subseteq Known' /\ GoneMember \subseteq GoneMember'

LEMMA LegalStays ==
  ASSUME NEW E, NEW K, NEW I, NEW E2, NEW K2, NEW I2, E \subseteq E2, K \subseteq K2, I \subseteq I2
  PROVE  /\ \A r : Legal(r, E, K, I) => Legal(r, E2, K2, I2)
         /\ \A p : Shown(p, E, K) => Shown(p, E2, K2)
BY DEF Legal, Shown

LEMMA GroupsStart == GroupBounds /\ GroupsInit => GroupsInv
<1> SUFFICES ASSUME GroupBounds, GroupsInit PROVE GroupsInv
  OBVIOUS
<1>1. Existing = {} /\ Known = {}
  BY DEF GroupsInit, Existing, Known
<1>2. RowTypes /\ NamesAreUnique /\ MembersHaveGroup /\ removed \subseteq GoneMember
  BY <1>1 DEF GroupsInit, RowTypes, NamesAreUnique, MembersHaveGroup
<1>3. Requests
  BY DEF GroupsInit, Requests
<1>4. Pages
  BY <1>1 DEF GroupsInit, Pages, Shown
<1>5. QED
  BY <1>2, <1>3, <1>4 DEF GroupsInv

\* What a step has to show: its rows, its request and its page.
LEMMA RequestsKept ==
  ASSUME GroupsInv, Grows, NEW s \in Sender, NEW next, request' = [request EXCEPT ![s] = next],
         next = NoRequest \/ Legal(next, Existing', Known', GoneMember')
  PROVE  Requests'
<1>1. \A r : Legal(r, Existing, Known, GoneMember) => Legal(r, Existing', Known', GoneMember')
  BY LegalStays DEF Grows
<1> DEFINE Fits(r, E, K, I) == Legal(r, E, K, I)
<1>2. DOMAIN request = Sender /\ \A q \in Sender : request[q] = NoRequest \/ Fits(request[q], Existing, Known, GoneMember)
  BY DEF GroupsInv, Requests
<1>3. \A r : Fits(r, Existing, Known, GoneMember) => Fits(r, Existing', Known', GoneMember')
  BY <1>1
<1>4. next = NoRequest \/ Fits(next, Existing', Known', GoneMember')
  OBVIOUS
<1> HIDE DEF Fits
<1>5. DOMAIN request' = Sender /\ \A q \in Sender : request'[q] = NoRequest \/ Fits(request'[q], Existing', Known', GoneMember')
  BY <1>2, <1>3, <1>4
<1>6. QED
  BY <1>5 DEF Requests, Fits, Sender

LEMMA PagesKept ==
  ASSUME GroupsInv, Grows, NEW t \in Page, NEW next, page' = [page EXCEPT ![t] = next], Shown(next, Existing', Known')
  PROVE  Pages'
<1>1. \A p : Shown(p, Existing, Known) => Shown(p, Existing', Known')
  BY LegalStays DEF Grows
<1>2. DOMAIN page = Page /\ \A q \in Page : Shown(page[q], Existing, Known)
  BY DEF GroupsInv, Pages
<1>3. DOMAIN page' = Page /\ \A q \in Page : Shown(page'[q], Existing', Known')
  BY <1>1, <1>2
<1>4. QED
  BY <1>3 DEF Pages

LEMMA PagesStay ==
  ASSUME GroupsInv, Grows, page' = page
  PROVE  Pages'
<1>1. \A p : Shown(p, Existing, Known) => Shown(p, Existing', Known')
  BY LegalStays DEF Grows
<1>2. DOMAIN page = Page /\ \A q \in Page : Shown(page[q], Existing, Known)
  BY DEF GroupsInv, Pages
<1>3. DOMAIN page' = Page /\ \A q \in Page : Shown(page'[q], Existing', Known')
  BY <1>1, <1>2
<1>4. QED
  BY <1>3 DEF Pages

LEMMA RequestsStay ==
  ASSUME GroupsInv, Grows, request' = request
  PROVE  Requests'
<1>1. \A r : Legal(r, Existing, Known, GoneMember) => Legal(r, Existing', Known', GoneMember')
  BY LegalStays DEF Grows
<1>2. DOMAIN request = Sender /\ \A q \in Sender : request[q] = NoRequest \/ Legal(request[q], Existing, Known, GoneMember)
  BY DEF GroupsInv, Requests
<1>3. DOMAIN request' = Sender /\ \A q \in Sender : request'[q] = NoRequest \/ Legal(request'[q], Existing', Known', GoneMember')
  BY <1>1, <1>2
<1>4. QED
  BY <1>3 DEF Requests, Sender

LEMMA RowsStay ==
  ASSUME GroupsInv, UNCHANGED <<groups, members>>
  PROVE  /\ Grows /\ Existing' = Existing /\ Known' = Known /\ GoneMember' = GoneMember
         /\ RowTypes' /\ NamesAreUnique' /\ MembersHaveGroup'
BY DEF GroupsInv, Grows, Existing, Known, GoneMember, RowTypes, NamesAreUnique, MembersHaveGroup

\* A new request of a client or a page.
LEMMA SendKeeps ==
  ASSUME GroupsInv, NEW s \in Sender, NEW asks, GroupRequest(s, asks), Legal(asks, Existing, Known, GoneMember),
         UNCHANGED <<groups, members, page, removed>>
  PROVE  GroupsInv'
<1>1. request' = [request EXCEPT ![s] = asks]
  BY DEF GroupRequest
<1>2. /\ Grows /\ Existing' = Existing /\ Known' = Known /\ GoneMember' = GoneMember
      /\ RowTypes' /\ NamesAreUnique' /\ MembersHaveGroup'
  BY RowsStay
<1>3. Requests'
  BY <1>1, <1>2, RequestsKept
<1>4. Pages'
  BY <1>2, PagesStay
<1>5. QED
  BY <1>2, <1>3, <1>4 DEF GroupsInv

LEMMA RequestsLegal ==
  ASSUME GroupBounds
  PROVE  /\ \A name \in Name, adds \in BOOLEAN : Legal(CreateRequest(name, adds), Existing, Known, GoneMember)
         /\ \A g \in Existing, name \in Name \cup {None}, adds \in BOOLEAN, removes \in SUBSET Known :
              Legal(UpdateRequest(g, name, removes, adds), Existing, Known, GoneMember)
         /\ \A g \in Existing : Legal(DeleteRequest(g), Existing, Known, GoneMember) /\ Legal(AddMemberRequest(g), Existing, Known, GoneMember)
         /\ \A g \in Existing, m \in Known : Legal(RemoveMemberRequest(g, m), Existing, Known, GoneMember)
<1>1. Existing \subseteq Group /\ Known \subseteq Member
  BY DEF Existing, Known
<1>2. \A name \in Name, adds \in BOOLEAN : Legal(CreateRequest(name, adds), Existing, Known, GoneMember)
  BY DEF CreateRequest, Legal, Asked, Ops, Pcs
<1>3. \A g \in Existing, name \in Name \cup {None}, adds \in BOOLEAN, removes \in SUBSET Known :
        Legal(UpdateRequest(g, name, removes, adds), Existing, Known, GoneMember)
  BY <1>1 DEF UpdateRequest, Legal, Asked, Ops, Pcs
<1>4. \A g \in Existing : Legal(DeleteRequest(g), Existing, Known, GoneMember)
  BY <1>1 DEF DeleteRequest, Legal, Asked, Ops, Pcs
<1>5. \A g \in Existing : Legal(AddMemberRequest(g), Existing, Known, GoneMember)
  BY <1>1 DEF AddMemberRequest, Legal, Asked, Ops, Pcs
<1>6. \A g \in Existing, m \in Known : Legal(RemoveMemberRequest(g, m), Existing, Known, GoneMember)
  BY <1>1 DEF RemoveMemberRequest, Legal, Asked, Ops, Pcs
<1>7. QED
  BY <1>2, <1>3, <1>4, <1>5, <1>6

LEMMA ClientSendsKeeps ==
  ASSUME GroupBounds, GroupsInv, NEW c \in Client, ClientSends(c)
  PROVE  GroupsInv'
<1>1. c \in Sender /\ UNCHANGED <<groups, members, page, removed>>
  BY DEF Sender, ClientSends
<1>2. \E asks : GroupRequest(c, asks) /\ Legal(asks, Existing, Known, GoneMember)
  BY RequestsLegal DEF ClientSends
<1>3. QED
  BY <1>1, <1>2, SendKeeps

LEMMA PageSendsKeeps ==
  ASSUME GroupBounds, GroupsInv, NEW t \in Page, Confirm(t) \/ SubmitGroup(t) \/ SubmitMember(t)
  PROVE  GroupsInv'
<1>1. t \in Sender /\ UNCHANGED <<groups, members, page, removed>>
  BY DEF Sender, Confirm, SubmitGroup, SubmitMember
<1>2. Shown(page[t], Existing, Known)
  BY DEF GroupsInv, Pages
<1>3. CASE Confirm(t)
  <2>1. CASE page[t].at = "list"
    <3>1. page[t].target \in Existing /\ GroupRequest(t, DeleteRequest(page[t].target))
      BY <1>2, <1>3, <2>1 DEF Confirm, Shown
    <3>2. QED
      BY <1>1, <3>1, RequestsLegal, SendKeeps
  <2>2. CASE page[t].at # "list"
    <3>1. /\ page[t].group \in Existing /\ page[t].target \in Known
          /\ GroupRequest(t, RemoveMemberRequest(page[t].group, page[t].target))
      BY <1>2, <1>3, <2>2 DEF Confirm, Shown
    <3>2. QED
      BY <1>1, <3>1, RequestsLegal, SendKeeps
  <2>3. QED
    BY <2>1, <2>2
<1>4. CASE SubmitGroup(t)
  <2>1. PICK name \in Name :
          GroupRequest(t, IF page[t].at = "new" THEN CreateRequest(name, FALSE) ELSE UpdateRequest(page[t].group, name, {}, FALSE))
    BY <1>4 DEF SubmitGroup
  <2>2. CASE page[t].at = "new"
    BY <1>1, <2>1, <2>2, RequestsLegal, SendKeeps
  <2>3. CASE page[t].at # "new"
    <3>1. page[t].group \in Existing
      BY <1>2, <1>4, <2>3 DEF SubmitGroup, Shown
    <3>2. Legal(UpdateRequest(page[t].group, name, {}, FALSE), Existing, Known, GoneMember)
      BY <3>1, RequestsLegal
    <3>3. QED
      BY <1>1, <2>1, <2>3, <3>2, SendKeeps
  <2>4. QED
    BY <2>2, <2>3
<1>5. CASE SubmitMember(t)
  <2>1. page[t].group \in Existing /\ GroupRequest(t, AddMemberRequest(page[t].group))
    BY <1>2, <1>5 DEF SubmitMember, Shown
  <2>2. QED
    BY <1>1, <2>1, RequestsLegal, SendKeeps
<1>6. QED
  BY <1>3, <1>4, <1>5

\* Navigation shows what exists.
LEMMA PagesShown ==
  ASSUME GroupBounds
  PROVE  /\ \A filter : Shown(ListPage(filter), Existing, Known)
         /\ Shown(NewPage, Existing, Known)
         /\ \A g \in Existing : Shown(GroupPage(g), Existing, Known)
<1>1. Existing \subseteq Group /\ Active \subseteq Existing /\ Known \subseteq Member /\ \A g : ActiveMembers(g) \subseteq Known
  BY DEF Existing, Active, Known, ActiveMembers, RowsOf
<1>2. \A filter : Shown(ListPage(filter), Existing, Known)
  BY <1>1 DEF Shown, ListPage, Listed
<1>3. Shown(NewPage, Existing, Known)
  BY <1>1 DEF Shown, NewPage
<1>4. \A g \in Existing : Shown(GroupPage(g), Existing, Known)
  BY <1>1 DEF Shown, GroupPage
<1>5. QED
  BY <1>2, <1>3, <1>4

LEMMA NavigationKeeps ==
  ASSUME GroupBounds, GroupsInv, NEW t \in Page, OpenList(t) \/ OpenNew(t) \/ OpenGroup(t) \/ Ask(t)
  PROVE  GroupsInv'
<1>1. UNCHANGED <<groups, members, request, removed>>
  BY DEF OpenList, OpenNew, OpenGroup, Ask
<1>2. /\ Grows /\ Existing' = Existing /\ Known' = Known /\ GoneMember' = GoneMember
      /\ RowTypes' /\ NamesAreUnique' /\ MembersHaveGroup'
  BY <1>1, RowsStay
<1>3. Shown(page[t], Existing, Known)
  BY DEF GroupsInv, Pages
<1>4. \E next : page' = [page EXCEPT ![t] = next] /\ Shown(next, Existing, Known)
  <2>1. CASE OpenList(t) \/ OpenNew(t)
    BY <2>1, PagesShown DEF OpenList, OpenNew, Show
  <2>2. CASE OpenGroup(t)
    BY <1>3, <2>2, PagesShown DEF OpenGroup, Show, Shown
  <2>3. CASE Ask(t)
    <3>1. PICK x \in page[t].rows \cup {None} : page' = [page EXCEPT ![t].target = x]
      BY <2>3 DEF Ask
    <3>2. Shown([page[t] EXCEPT !.target = x], Existing, Known)
      BY <1>3, <2>3, <3>1 DEF Shown, Ask
    <3>3. QED
      BY <3>1, <3>2
  <2>4. QED
    BY <2>1, <2>2, <2>3
<1>5. Pages'
  BY <1>2, <1>4, PagesKept
<1>6. Requests'
  BY <1>1, <1>2, RequestsStay
<1>7. QED
  BY <1>1, <1>2, <1>5, <1>6 DEF GroupsInv

\* A step of a handler that writes no row.
LEMMA ReadingKeeps ==
  ASSUME GroupsInv, NEW s \in Sender, NEW next, request' = [request EXCEPT ![s] = next], Legal(next, Existing, Known, GoneMember),
         UNCHANGED <<groups, members, page, removed>>
  PROVE  GroupsInv'
<1>1. /\ Grows /\ Existing' = Existing /\ Known' = Known /\ GoneMember' = GoneMember
      /\ RowTypes' /\ NamesAreUnique' /\ MembersHaveGroup'
  BY RowsStay
<1>2. Requests'
  BY <1>1, RequestsKept
<1>3. Pages'
  BY <1>1, PagesStay
<1>4. QED
  BY <1>1, <1>2, <1>3 DEF GroupsInv

LEMMA FindKeeps ==
  ASSUME GroupBounds, GroupsInv, NEW s \in Sender, Find(s)
  PROVE  GroupsInv'
<1> DEFINE r == request[s]
           tuple == groups[r.group]
           entity == [name |-> tuple.name, active |-> r.op # "delete" /\ tuple.active,
                      members |-> IF r.op = "delete" THEN None ELSE ActiveMembers(r.group)]
           next == [op |-> r.op, pc |-> AfterFind(r), name |-> r.name, group |-> r.group,
                    removes |-> r.removes, adds |-> r.adds, entity |-> entity]
<1>1. r.pc = "find" /\ request' = [request EXCEPT ![s] = next] /\ UNCHANGED <<groups, members, page, removed>>
  BY DEF Find
<1>2. Legal(r, Existing, Known, GoneMember)
  BY <1>1 DEF GroupsInv, Requests, NoRequest
<1>3. r \in Asked /\ r.op # "create" /\ r.group \in Existing
  BY <1>1, <1>2 DEF Legal
<1>4. tuple \in GroupRow
  BY <1>3 DEF GroupsInv, RowTypes, Existing
<1>5. ActiveMembers(r.group) \in SUBSET Member
  BY DEF ActiveMembers, RowsOf
<1>6. entity \in Entity /\ (r.op = "delete" => ~ entity.active)
  BY <1>4, <1>5 DEF Entity, GroupRow
<1> HIDE DEF entity
<1>7. AfterFind(r) \in {"check", "save", "deactivate", "add", "done"}
  BY DEF AfterFind, AfterSave
<1>8. /\ AfterFind(r) = "check" => r.op = "update" /\ r.name # None
      /\ AfterFind(r) = "save" => r.op \in {"update", "delete"}
      /\ AfterFind(r) \in {"add", "done"} => r.removes = {}
  BY DEF AfterFind, AfterSave
<1>9. next \in Found
  BY <1>3, <1>6, <1>7 DEF Asked, Found, Pcs
<1>10. Legal(next, Existing, Known, GoneMember)
  BY <1>2, <1>3, <1>6, <1>7, <1>8, <1>9 DEF Legal, Asked
<1>11. QED
  BY <1>1, <1>10, ReadingKeeps

LEMMA CheckNameKeeps ==
  ASSUME GroupBounds, GroupsInv, NEW s \in Sender, CheckName(s)
  PROVE  GroupsInv'
<1> DEFINE r == request[s]
<1>1. r.pc = "check" /\ UNCHANGED <<groups, members, page, removed>>
  BY DEF CheckName
<1>2. Legal(r, Existing, Known, GoneMember)
  BY <1>1 DEF GroupsInv, Requests, NoRequest
<1>3. r.name \in Name /\ (r.op = "create" => r \in Asked) /\ (r.op # "create" => r \in Found /\ r.op = "update" /\ r.group \in Existing)
  BY <1>1, <1>2 DEF Legal
<1>4. CASE request' = [request EXCEPT ![s].pc = "refused"]
  <2>1. Legal([r EXCEPT !.pc = "refused"], Existing, Known, GoneMember)
    BY <1>2, <1>3 DEF Legal, Asked, Found, Pcs
  <2>2. QED
    BY <1>1, <1>4, <2>1, ReadingKeeps
<1>5. CASE r.op = "create" /\ request' = [request EXCEPT ![s].pc = "insert"]
  <2>1. Legal([r EXCEPT !.pc = "insert"], Existing, Known, GoneMember)
    BY <1>2, <1>3, <1>5 DEF Legal, Asked, Found, Pcs
  <2>2. QED
    BY <1>1, <1>5, <2>1, ReadingKeeps
<1>6. CASE r.op # "create" /\ request' = [request EXCEPT ![s].pc = "save", ![s].entity.name = r.name]
  <2> DEFINE next == [r EXCEPT !.pc = "save", !.entity.name = r.name]
  <2>1. next \in Found /\ next.op = "update" /\ next.pc = "save" /\ next.group = r.group /\ next.removes = r.removes
    BY <1>3, <1>6 DEF Found, Pcs, Entity
  <2>2. Legal(next, Existing, Known, GoneMember)
    BY <1>2, <1>3, <1>6, <2>1 DEF Legal
  <2>3. DOMAIN request = Sender
    BY DEF GroupsInv, Requests
  <2>4. request' = [request EXCEPT ![s] = next]
    BY <1>6, <2>3
  <2>5. QED
    BY <1>1, <2>2, <2>4, ReadingKeeps
<1>7. QED
  BY <1>4, <1>5, <1>6 DEF CheckName, Goes

LEMMA FailKeeps ==
  ASSUME GroupsInv, NEW s \in Sender, FailRequest(s)
  PROVE  GroupsInv'
<1> DEFINE r == request[s]
<1>1. /\ r.pc \in {"find", "check", "insert", "save", "deactivate", "add"}
      /\ request' = [request EXCEPT ![s].pc = "failed"] /\ UNCHANGED <<groups, members, page, removed>>
  BY DEF FailRequest, Goes
<1>2. Legal(r, Existing, Known, GoneMember)
  BY <1>1 DEF GroupsInv, Requests, NoRequest
<1>3. Legal([r EXCEPT !.pc = "failed"], Existing, Known, GoneMember)
  BY <1>2 DEF Legal, Asked, Found, Pcs
<1>4. QED
  BY <1>1, <1>3, ReadingKeeps

LEMMA AnswersKeep ==
  ASSUME GroupBounds, GroupsInv,
         \/ \E c \in Client : ClientAnswered(c)
         \/ \E t \in Page : PageAnswered(t)
  PROVE  GroupsInv'
<1>1. PICK s \in Sender : /\ request[s].pc \in {"done", "refused", "failed"} /\ Answered(s) /\ removed' = Told(request[s])
                          /\ UNCHANGED <<groups, members>>
                          /\ \/ UNCHANGED page
                             \/ s \in Page /\ request[s].pc = "done" /\ page' = [page EXCEPT ![s] = Answer(s)]
  BY DEF ClientAnswered, PageAnswered, Sender, Show
<1> DEFINE r == request[s]
<1>2. Legal(r, Existing, Known, GoneMember)
  BY <1>1 DEF GroupsInv, Requests, NoRequest
<1>3. /\ Grows /\ Existing' = Existing /\ Known' = Known /\ GoneMember' = GoneMember
      /\ RowTypes' /\ NamesAreUnique' /\ MembersHaveGroup'
  BY <1>1, RowsStay
<1>4. removed' \subseteq GoneMember'
  BY <1>1, <1>2, <1>3 DEF Told, Legal, GroupsInv
<1>5. Requests'
  BY <1>1, <1>3, RequestsKept DEF Answered
<1>6. Pages'
  <2>1. CASE UNCHANGED page
    BY <1>3, <2>1, PagesStay
  <2>2. CASE s \in Page /\ request[s].pc = "done" /\ page' = [page EXCEPT ![s] = Answer(s)]
    <3>1. r.group \in Existing
      BY <1>2, <2>2 DEF Legal
    <3>2. Answer(s) \in {GroupPage(r.group), ListPage("all")}
      BY DEF Answer
    <3>3. Shown(Answer(s), Existing, Known)
      BY <3>1, <3>2, PagesShown
    <3>4. QED
      BY <1>3, <2>2, <3>3, PagesKept
  <2>3. QED
    BY <1>1, <2>1, <2>2
<1>7. QED
  BY <1>3, <1>4, <1>5, <1>6 DEF GroupsInv

\* A step of a handler that writes rows: it goes on with the rows as they are then.
LEMMA WritingKeeps ==
  ASSUME GroupsInv, NEW s \in Sender, NEW next, request' = [request EXCEPT ![s] = next], Legal(next, Existing', Known', GoneMember'),
         Grows, RowTypes', NamesAreUnique', MembersHaveGroup', UNCHANGED <<page, removed>>
  PROVE  GroupsInv'
<1>1. Requests'
  BY RequestsKept
<1>2. Pages'
  BY PagesStay
<1>3. removed' \subseteq GoneMember'
  BY DEF GroupsInv, Grows
<1>4. QED
  BY <1>1, <1>2, <1>3 DEF GroupsInv

\* A group is inserted under a name that no other group has at that moment.
LEMMA InsertKeeps ==
  ASSUME GroupBounds, GroupsInv, NEW s \in Sender, Insert(s)
  PROVE  GroupsInv' /\ MembersKeepGroup /\ DeletedUnlessRaced
<1> DEFINE r == request[s]
           tuple == [name |-> r.name, active |-> TRUE]
           next == [r EXCEPT !.pc = AfterSave(r), !.group = NewGroup]
<1>1. r.pc = "insert" /\ Existing # Group /\ UNCHANGED <<members, page, removed>>
  BY DEF Insert
<1>2. Legal(r, Existing, Known, GoneMember)
  BY <1>1 DEF GroupsInv, Requests, NoRequest
<1>3. r \in Asked /\ r.op = "create" /\ r.name \in Name /\ r.removes = {}
  BY <1>1, <1>2 DEF Legal
<1>4. NewGroup \in Group /\ groups[NewGroup] = None
  BY <1>1 DEF NewGroup, Existing
<1>5. CASE UniqueName(r.name, None) /\ groups' = [groups EXCEPT ![NewGroup] = tuple] /\ request' = [request EXCEPT ![s] = next]
  <2>0. tuple \in GroupRow
    BY <1>3 DEF GroupRow
  <2>1. tuple \in GroupRow /\ tuple # None
    BY <2>0 DEF GroupBounds
  <2>2. groups' \in [Group -> {None} \cup GroupRow] /\ groups'[NewGroup] = tuple /\ \A g \in Group \ {NewGroup} : groups'[g] = groups[g]
    BY <1>4, <1>5, <2>1 DEF GroupsInv, RowTypes
  <2> HIDE DEF tuple
  <2>3. Existing' = Existing \cup {NewGroup} /\ NewGroup \notin Existing /\ Existing \subseteq Group
    BY <1>4, <2>1, <2>2 DEF Existing
  <2>4. Known' = Known /\ GoneMember' = GoneMember
    BY <1>1 DEF Known, GoneMember
  <2>5. RowTypes'
    BY <1>1, <2>2 DEF GroupsInv, RowTypes
  <2>6. \A h \in Existing : groups[h].name # tuple.name
    <3>1. None \notin Existing
      BY DEF GroupBounds, Existing
    <3>2. tuple.name = r.name
      BY DEF tuple
    <3>3. QED
      BY <1>5, <3>1, <3>2 DEF UniqueName, NameTaken
  <2>7. NamesAreUnique'
    BY <2>2, <2>3, <2>6 DEF GroupsInv, NamesAreUnique
  <2>8. MembersHaveGroup'
    BY <1>1, <2>3, <2>4 DEF GroupsInv, MembersHaveGroup
  <2>9. AfterSave(r) \in {"add", "done"}
    BY <1>3 DEF AfterSave
  <2>10. Legal(next, Existing', Known', GoneMember')
    BY <1>2, <1>3, <1>4, <2>3, <2>4, <2>9 DEF Legal, Asked, Pcs
  <2>11. GroupsInv'
    BY <1>1, <1>5, <2>3, <2>4, <2>5, <2>7, <2>8, <2>10, WritingKeeps DEF Grows
  <2>12. MembersKeepGroup
    BY <1>1, <2>4 DEF MembersKeepGroup
  <2>13. DeletedUnlessRaced
    BY <2>2, <2>3 DEF DeletedUnlessRaced, Active
  <2>14. QED
    BY <2>11, <2>12, <2>13
<1>6. CASE request' = [request EXCEPT ![s].pc = "failed"] /\ UNCHANGED groups
  <2>1. Legal([r EXCEPT !.pc = "failed"], Existing, Known, GoneMember)
    BY <1>2, <1>3 DEF Legal, Asked, Pcs
  <2>2. GroupsInv'
    BY <1>1, <1>6, <2>1, ReadingKeeps
  <2>3. MembersKeepGroup /\ DeletedUnlessRaced
    BY <1>1, <1>6 DEF MembersKeepGroup, DeletedUnlessRaced, Known, Active, Existing
  <2>4. QED
    BY <2>2, <2>3
<1>7. DOMAIN request = Sender
  BY DEF GroupsInv, Requests
<1>8. QED
  BY <1>5, <1>6, <1>7 DEF Insert, Goes

\* A row is written whole, under a name that no other group has, and by no means without its members.
LEMMA SaveKeepsGroups ==
  ASSUME GroupBounds, GroupsInv, NEW s \in Sender, Save(s)
  PROVE  GroupsInv' /\ MembersKeepGroup /\ DeletedUnlessRaced
<1> DEFINE r == request[s]
           next == [r EXCEPT !.pc = AfterSave(r)]
<1>1. r.pc = "save" /\ UNCHANGED <<page, removed>>
  BY DEF Save
<1>2. Legal(r, Existing, Known, GoneMember)
  BY <1>1 DEF GroupsInv, Requests, NoRequest
<1>3. /\ r \in Found /\ r.op \in {"update", "delete"} /\ r.group \in Existing /\ r.entity \in Entity
      /\ r.op = "delete" => ~ r.entity.active
  BY <1>1, <1>2 DEF Legal, Found
<1>4. CASE /\ UniqueName(r.entity.name, r.group) /\ NotNull(Written(r))
           /\ groups' = [groups EXCEPT ![r.group] = Saved(r)] /\ members' = Written(r)
           /\ request' = [request EXCEPT ![s].pc = AfterSave(r)]
  <2> DEFINE tuple == Saved(r)
  <2>0. tuple \in GroupRow /\ tuple.name = r.entity.name /\ tuple.active = r.entity.active
    BY <1>3 DEF Saved, GroupRow, Entity
  <2>1. tuple \in GroupRow /\ tuple.name = r.entity.name /\ tuple.active = r.entity.active /\ tuple # None
    BY <2>0 DEF GroupBounds
  <2> HIDE DEF tuple
  <2>2. /\ groups' \in [Group -> {None} \cup GroupRow] /\ groups'[r.group] = tuple
        /\ \A g \in Group \ {r.group} : groups'[g] = groups[g]
    BY <1>3, <1>4, <2>1 DEF GroupsInv, RowTypes, tuple, Existing
  <2>3. Existing' = Existing /\ Existing \subseteq Group
    BY <1>3, <2>1, <2>2 DEF Existing
  <2>4. \A m \in Member : members'[m] = members[m]
    <3> SUFFICES ASSUME NEW m \in Member, members'[m] # members[m] PROVE FALSE
      OBVIOUS
    <3>1. m \in Orphans(r) /\ members'[m] = [members[m] EXCEPT !.group = None]
      BY <1>4 DEF Written, Detached
    <3>2. members[m] \in MemberRow
      BY <3>1 DEF Orphans, RowsOf, GroupsInv, RowTypes
    <3>3. members'[m].group = None /\ members'[m] = Written(r)[m]
      BY <1>4, <3>1, <3>2 DEF MemberRow
    <3>4. members'[m] = None
      BY <1>4, <3>3 DEF NotNull
    <3>5. members'[m] \in DetachedRow
      BY <3>1, <3>2 DEF MemberRow, DetachedRow
    <3>6. QED
      BY <3>4, <3>5 DEF GroupBounds
  <2>5. members' = members
    BY <1>4, <2>4 DEF Written, GroupsInv, RowTypes
  <2>6. Known' = Known /\ GoneMember' = GoneMember
    BY <2>5 DEF Known, GoneMember
  <2>7. RowTypes'
    BY <2>2, <2>5 DEF GroupsInv, RowTypes
  <2>8. \A h \in Existing \ {r.group} : groups[h].name # tuple.name
    BY <1>4, <2>1 DEF UniqueName, NameTaken
  <2>9. NamesAreUnique'
    BY <1>3, <2>2, <2>3, <2>8 DEF GroupsInv, NamesAreUnique
  <2>10. MembersHaveGroup'
    BY <2>3, <2>5, <2>6 DEF GroupsInv, MembersHaveGroup
  <2>11. AfterSave(r) \in {"deactivate", "add", "done"} /\ (AfterSave(r) # "deactivate" => r.removes = {})
    BY DEF AfterSave
  <2>12. Legal(next, Existing', Known', GoneMember')
    BY <1>2, <1>3, <2>3, <2>6, <2>11 DEF Legal, Found, Pcs
  <2>13. GroupsInv'
    BY <1>1, <1>4, <2>3, <2>6, <2>7, <2>9, <2>10, <2>12, WritingKeeps DEF Grows
  <2>14. MembersKeepGroup
    BY <2>5, <2>6 DEF MembersKeepGroup
  <2>15. DeletedUnlessRaced
    <3> SUFFICES ASSUME NEW g \in Group, g \in Existing \ Active, g \in Active'
                 PROVE  \E q \in Sender : /\ request[q].pc = "save" /\ request[q].group = g /\ request[q].op = "update"
                                          /\ request[q].entity.active
      BY DEF DeletedUnlessRaced
    <3>1. g = r.group
      BY <2>2, <2>3 DEF Active
    <3>2. r.entity.active
      BY <2>1, <2>2, <3>1 DEF Active
    <3>3. QED
      BY <1>1, <1>3, <3>1, <3>2
  <2>16. QED
    BY <2>13, <2>14, <2>15
<1>5. CASE request' = [request EXCEPT ![s].pc = "failed"] /\ UNCHANGED <<groups, members>>
  <2>1. Legal([r EXCEPT !.pc = "failed"], Existing, Known, GoneMember)
    BY <1>2, <1>3 DEF Legal, Found, Pcs
  <2>2. GroupsInv'
    BY <1>1, <1>5, <2>1, ReadingKeeps
  <2>3. MembersKeepGroup /\ DeletedUnlessRaced
    BY <1>5 DEF MembersKeepGroup, DeletedUnlessRaced, Known, Active, Existing
  <2>4. QED
    BY <2>2, <2>3
<1>6. QED
  BY <1>4, <1>5 DEF Save, Goes

\* Removals make their members inactive, additions take a row that no removal has named.
LEMMA DeactivateKeeps ==
  ASSUME GroupBounds, GroupsInv, NEW s \in Sender, DeactivateMembers(s)
  PROVE  GroupsInv' /\ MembersKeepGroup /\ DeletedUnlessRaced
<1> DEFINE r == request[s]
           pc == IF r.adds THEN "add" ELSE "done"
           next == [r EXCEPT !.pc = pc]
<1>1. /\ r.pc = "deactivate" /\ members' = Deactivated(r) /\ request' = [request EXCEPT ![s] = next]
      /\ UNCHANGED <<groups, page, removed>>
  BY DEF DeactivateMembers, Goes
<1>2. Legal(r, Existing, Known, GoneMember)
  BY <1>1 DEF GroupsInv, Requests, NoRequest
<1>3. r \in Found /\ r.op # "create" /\ r.group \in Existing /\ r.removes \subseteq Known
  BY <1>1, <1>2 DEF Legal
<1>4. /\ \A m \in Member \ r.removes : members'[m] = members[m]
      /\ \A m \in r.removes : members'[m] \in MemberRow /\ members'[m].group = members[m].group /\ ~ members'[m].active
  BY <1>1, <1>3 DEF Deactivated, Known, GroupsInv, RowTypes, MemberRow
<1>5. \A m \in r.removes : members'[m] # None
  BY <1>4 DEF GroupBounds
<1>6. Known' = Known /\ Known \subseteq Member
  BY <1>3, <1>4, <1>5 DEF Known
<1>7. GoneMember' = GoneMember \cup r.removes
  BY <1>3, <1>4, <1>6 DEF GoneMember
<1>8. RowTypes'
  <2>1. members' \in [Member -> {None} \cup MemberRow]
    BY <1>1, <1>4 DEF Deactivated, GroupsInv, RowTypes
  <2>2. QED
    BY <1>1, <2>1 DEF GroupsInv, RowTypes
<1>9. Existing' = Existing
  BY <1>1 DEF Existing
<1>10. NamesAreUnique' /\ MembersHaveGroup'
  BY <1>1, <1>4, <1>6, <1>9 DEF GroupsInv, NamesAreUnique, MembersHaveGroup
<1>11. Legal(next, Existing', Known', GoneMember')
  <2>1. next \in Found /\ next.pc \in {"add", "done"} /\ next.op = r.op /\ next.group = r.group /\ next.removes = r.removes
    BY <1>3 DEF Found, Pcs
  <2>2. QED
    BY <1>2, <1>3, <1>6, <1>7, <1>9, <2>1 DEF Legal
<1>12. GroupsInv'
  BY <1>1, <1>6, <1>7, <1>8, <1>9, <1>10, <1>11, WritingKeeps DEF Grows
<1>13. MembersKeepGroup
  BY <1>4, <1>6 DEF MembersKeepGroup
<1>14. DeletedUnlessRaced
  BY <1>1 DEF DeletedUnlessRaced, Active, Existing
<1>15. QED
  BY <1>12, <1>13, <1>14

LEMMA AddKeeps ==
  ASSUME GroupBounds, GroupsInv, NEW s \in Sender, AddMembers(s)
  PROVE  GroupsInv' /\ MembersKeepGroup /\ DeletedUnlessRaced
<1> DEFINE r == request[s]
           tuple == [group |-> r.group, active |-> TRUE]
           next == [r EXCEPT !.pc = "done"]
<1>1. /\ r.pc = "add" /\ Known # Member /\ members' = [members EXCEPT ![NewMember] = tuple]
      /\ request' = [request EXCEPT ![s] = next] /\ UNCHANGED <<groups, page, removed>>
  BY DEF AddMembers, Goes
<1>2. Legal(r, Existing, Known, GoneMember)
  BY <1>1 DEF GroupsInv, Requests, NoRequest
<1>3. r.group \in Existing /\ r.removes \subseteq GoneMember /\ Existing \subseteq Group
  BY <1>1, <1>2 DEF Legal, Existing
<1>4. NewMember \in Member /\ members[NewMember] = None
  BY <1>1 DEF NewMember, Known
<1>5. tuple \in MemberRow /\ tuple # None /\ tuple.group = r.group
  <2>1. tuple \in MemberRow
    BY <1>3 DEF MemberRow
  <2>2. QED
    BY <2>1 DEF GroupBounds
<1> HIDE DEF tuple
<1>6. /\ members' \in [Member -> {None} \cup MemberRow] /\ members'[NewMember] = tuple
      /\ \A m \in Member \ {NewMember} : members'[m] = members[m]
  BY <1>1, <1>4, <1>5 DEF GroupsInv, RowTypes
<1>7. Known' = Known \cup {NewMember} /\ NewMember \notin Known
  BY <1>4, <1>5, <1>6 DEF Known
<1>8. GoneMember \subseteq GoneMember'
  BY <1>6, <1>7 DEF GoneMember, Known
<1>9. Existing' = Existing
  BY <1>1 DEF Existing
<1>10. RowTypes' /\ NamesAreUnique'
  BY <1>1, <1>6, <1>9 DEF GroupsInv, RowTypes, NamesAreUnique
<1>11. MembersHaveGroup'
  BY <1>3, <1>5, <1>6, <1>7, <1>9 DEF GroupsInv, MembersHaveGroup, Known
<1>12. Legal(next, Existing', Known', GoneMember')
  <2>1. r \in Asked => next \in Asked
    BY DEF Asked, Pcs
  <2>2. r \in Found => next \in Found
    BY DEF Found, Pcs
  <2>3. r \in Asked \cup Found => next.pc = "done" /\ next.op = r.op /\ next.group = r.group /\ next.removes = r.removes /\ next.name = r.name
    BY DEF Asked, Found
  <2>4. QED
    BY <1>1, <1>2, <1>3, <1>7, <1>8, <1>9, <2>1, <2>2, <2>3 DEF Legal
<1>13. GroupsInv'
  BY <1>1, <1>7, <1>8, <1>9, <1>10, <1>11, <1>12, WritingKeeps DEF Grows
<1>14. MembersKeepGroup
  BY <1>6, <1>7 DEF MembersKeepGroup, Known
<1>15. DeletedUnlessRaced
  BY <1>1 DEF DeletedUnlessRaced, Active, Existing
<1>16. QED
  BY <1>13, <1>14, <1>15

LEMMA GroupsStep == GroupBounds /\ GroupsInv /\ [GroupsNext]_groupVars => GroupsInv' /\ MembersKeepGroup /\ DeletedUnlessRaced
<1> SUFFICES ASSUME GroupBounds, GroupsInv, [GroupsNext]_groupVars PROVE GroupsInv' /\ MembersKeepGroup /\ DeletedUnlessRaced
  OBVIOUS
<1>1. UNCHANGED <<groups, members>> => MembersKeepGroup /\ DeletedUnlessRaced
  BY DEF MembersKeepGroup, DeletedUnlessRaced, Known, Active, Existing
<1>2. CASE UNCHANGED groupVars
  <2>1. Requests'
    BY <1>2, RowsStay, RequestsStay DEF groupVars
  <2>2. Pages'
    BY <1>2, RowsStay, PagesStay DEF groupVars
  <2>3. QED
    BY <1>1, <1>2, <2>1, <2>2, RowsStay DEF groupVars, GroupsInv
<1>3. ASSUME NEW c \in Client, ClientSends(c) \/ ClientAnswered(c) PROVE GroupsInv' /\ UNCHANGED <<groups, members>>
  BY <1>3, ClientSendsKeeps, AnswersKeep DEF ClientSends, ClientAnswered
<1>4. ASSUME NEW s \in Sender, Find(s) \/ CheckName(s) \/ FailRequest(s) PROVE GroupsInv' /\ UNCHANGED <<groups, members>>
  BY <1>4, FindKeeps, CheckNameKeeps, FailKeeps DEF Find, CheckName, FailRequest
<1>5. ASSUME NEW t \in Page,
             OpenList(t) \/ OpenNew(t) \/ OpenGroup(t) \/ Ask(t) \/ Confirm(t) \/ SubmitGroup(t) \/ SubmitMember(t) \/ PageAnswered(t)
      PROVE  GroupsInv' /\ UNCHANGED <<groups, members>>
  <2>1. UNCHANGED <<groups, members>>
    BY <1>5 DEF OpenList, OpenNew, OpenGroup, Ask, Confirm, SubmitGroup, SubmitMember, PageAnswered
  <2>2. QED
    BY <1>5, <2>1, NavigationKeeps, PageSendsKeeps, AnswersKeep
<1>6. QED
  BY <1>1, <1>2, <1>3, <1>4, <1>5, InsertKeeps, SaveKeepsGroups, DeactivateKeeps, AddKeeps DEF GroupsNext, RequestSteps

\* Over overlapping creates, renames, removals and stale saves no two groups have one name, no member loses or changes
\* its group, no rule sends to a member whose removal was answered, and a deleted group comes back only by the save of
\* an update that had read it before.
THEOREM GroupsHold == GroupBounds => (GroupsSpec => GroupsConsistent)
<1> SUFFICES ASSUME GroupBounds PROVE GroupsSpec => GroupsConsistent
  OBVIOUS
<1>1. GroupsInit => GroupsInv
  BY GroupsStart
<1>2. GroupsInv /\ [GroupsNext]_groupVars => GroupsInv'
  BY GroupsStep
<1>3. GroupsInv /\ [GroupsNext]_groupVars => [MembersKeepGroup /\ DeletedUnlessRaced]_groupVars
  BY GroupsStep
<1>4. GroupsInv => NamesAreUnique /\ RemovedIsNotSent /\ MembersHaveGroup
  <2> SUFFICES ASSUME GroupsInv PROVE RemovedIsNotSent
    BY DEF GroupsInv
  <2>1. \A g \in Existing : ActiveMembers(g) \cap GoneMember = {}
    BY DEF ActiveMembers, GoneMember
  <2>2. None \notin GoneMember
    BY DEF GoneMember, Known, GroupBounds
  <2>3. QED
    BY <2>1, <2>2 DEF RemovedIsNotSent, Resolved, GroupsInv
<1>5. QED
  BY <1>1, <1>2, <1>3, <1>4, PTL DEF GroupsSpec, GroupsConsistent
=============================================================================
