------------------------------ MODULE RouterProofs ------------------------------
(***************************************************************************)
(* Theorems about DeliveryRouter for every set of notifications, channels  *)
(* and handlers, every retry policy and every graph of fallbacks.          *)
(***************************************************************************)
EXTENDS DeliveryRouter, FiniteSetTheorems, TLAPS

(***************************************************************************)
(* The policy, whatever is redelivered: a message in flight belongs to a   *)
(* dispatched notification, is on the notification's channel or, as the    *)
(* fallback, on that channel's fallback, and keeps within the policy.      *)
(***************************************************************************)
ByPolicy(m) ==
  /\ m.n \in given
  /\ m.ch = IF m.fb THEN Fallback[Home(m.n)] ELSE Home(m.n)
  /\ m.attempt <= MaxAttempts[m.ch]

PolicyInv ==
  /\ \A m \in Msg : Pending(m) => ByPolicy(m)
  /\ SingleFallback
  /\ \A n \in Notification, c \in Channel : calls[<<n, c>>] > 0 => n \in given
  /\ \A n \in Notification : told[<<n, "SENT">>] + told[<<n, "FAILED">>] > 0 => n \in given

(***************************************************************************)
(* Without faults a notification is in one place at a time: one copy in a  *)
(* queue, one timer, or one handler that has not settled its message yet.  *)
(***************************************************************************)
Active(h) == slot[h].st \notin {"idle", "ack"}

Alone ==
  /\ \A m \in Msg : deliver[m] <= 1 /\ timers[m] <= 1
  /\ \A m, k \in Msg : m.n = k.n =>
       /\ deliver[m] > 0 /\ deliver[k] > 0 => m = k
       /\ timers[m] > 0 /\ timers[k] > 0 => m = k
       /\ ~ (deliver[m] > 0 /\ timers[k] > 0)
  /\ \A h \in Slot, m \in Msg :
       Active(h) /\ slot[h].m.n = m.n => deliver[m] = 0 /\ timers[m] = 0
  /\ \A h, g \in Slot :
       Active(h) /\ Active(g) /\ slot[h].m.n = slot[g].m.n => h = g

\* What the history of a notification may hold while its message m is in flight with
\* at most spent requests of its channel's.
Unsettled(m, spent) ==
  /\ told[<<m.n, "SENT">>] = 0
  /\ told[<<m.n, "FAILED">>] <= IF m.fb THEN 1 ELSE 0
  /\ calls[<<m.n, m.ch>>] <= spent
  /\ ~ m.fb => \A c \in Channel : c # m.ch => calls[<<m.n, c>>] = 0

Waiting == \A m \in Msg : deliver[m] > 0 \/ timers[m] > 0 => Unsettled(m, m.attempt - 1)

Spent(h) == IF slot[h].st \in {"call", "exhausted"} THEN slot[h].m.attempt ELSE slot[h].m.attempt - 1
InHand   == \A h \in Slot : Active(h) => Unsettled(slot[h].m, Spent(h))

\* The broker waits for every handler that has not acknowledged.
AllHeld == \A h \in Slot : slot[h].st # "idle" => slot[h].held

OutcomesBounded ==
  \A n \in Notification : told[<<n, "SENT">>] <= 1 /\ told[<<n, "FAILED">>] <= 2

AllAccounted == \A n \in given \ Blank : Accounted(n)

FaultFree == Alone /\ Waiting /\ InHand /\ AllHeld /\ OutcomesBounded /\ AllAccounted
FaultFreeInv == faults = 0 => FaultFree /\ CallsWithinPolicy

IInv == TypeOK /\ PolicyInv /\ FaultFreeInv

-----------------------------------------------------------------------------

\* The messages the router makes are messages of the type.
LEMMA MessageTypes ==
  /\ \A n \in Notification : First(n) \in Msg
  /\ \A m \in Msg : ShouldRetry(m) => NextAttempt(m) \in Msg
  /\ \A m \in Msg : Fallback[m.ch] # NoChannel => FallbackOf(m) \in Msg
<1>1. \A c \in Channel : MaxAttempts[c] \in 1 .. AttemptBound
  BY RouterAssumption
<1>2. \A n \in Notification : First(n) \in Msg
  BY <1>1, RouterAssumption DEF First, Msg
<1>3. ASSUME NEW m \in Msg, ShouldRetry(m) PROVE NextAttempt(m) \in Msg
  BY <1>1, <1>3, RouterAssumption DEF ShouldRetry, NextAttempt, Msg
<1>4. ASSUME NEW m \in Msg, Fallback[m.ch] # NoChannel PROVE FallbackOf(m) \in Msg
  BY <1>1, <1>4, RouterAssumption DEF FallbackOf, Msg
<1>5. QED
  BY <1>2, <1>3, <1>4

\* A handler at work holds a message; moving on keeps it.
LEMMA AtWork ==
  ASSUME TypeOK, NEW h \in Slot, slot[h].st # "idle"
  PROVE  slot[h] \in Busy /\ slot[h].m \in Msg
BY DEF TypeOK, Idle, Busy

LEMMA GotoType ==
  ASSUME TypeOK, NEW h \in Slot, slot[h].st # "idle", NEW st \in Awaits, Goto(h, st)
  PROVE  slot' \in [Slot -> {Idle} \cup Busy]
<1>1. [slot[h] EXCEPT !.st = st] \in Busy
  BY AtWork DEF Busy
<1>2. QED
  BY <1>1 DEF Goto, TypeOK

LEMMA CountType ==
  ASSUME NEW S, NEW f \in [S -> Nat], NEW x \in S
  PROVE  /\ More(f, x) \in [S -> Nat]
         /\ f[x] > 0 => Less(f, x) \in [S -> Nat]
BY DEF More, Less

LEMMA RequeuedType == TypeOK => Requeued \in [Msg -> Nat]
<1> SUFFICES ASSUME TypeOK, NEW m \in Msg PROVE deliver[m] + Cardinality(Unacked(m)) \in Nat
  BY DEF Requeued
<1>1. IsFiniteSet(Unacked(m))
  BY RouterAssumption, FS_Subset DEF Unacked
<1>2. QED
  BY <1>1, FS_CardinalityType DEF TypeOK

LEMMA InitType == Init => TypeOK
BY RouterAssumption DEF Init, TypeOK, Idle

LEMMA RetryType ==
  ASSUME TypeOK, NEW h \in Slot, slot[h].st # "idle", RetryOrExhaust(h)
  PROVE  slot' \in [Slot -> {Idle} \cup Busy] /\ timers' \in [Msg -> Nat]
<1>1. slot[h].m \in Msg
  BY AtWork
<1>2. CASE ShouldRetry(slot[h].m)
  <2>1. timers' = More(timers, NextAttempt(slot[h].m)) /\ Goto(h, "ack")
    BY <1>2 DEF RetryOrExhaust
  <2>2. NextAttempt(slot[h].m) \in Msg
    BY <1>1, <1>2, MessageTypes
  <2>3. timers' \in [Msg -> Nat]
    BY <2>1, <2>2, CountType DEF TypeOK
  <2>4. QED
    BY <2>1, <2>3, GotoType DEF Awaits
<1>3. CASE ~ ShouldRetry(slot[h].m)
  BY <1>3, GotoType DEF RetryOrExhaust, Awaits, TypeOK
<1>4. QED
  BY <1>2, <1>3

LEMMA TellType ==
  ASSUME TypeOK, NEW n \in Notification, NEW to \in {"SENT", "FAILED"}, Tell(n, to)
  PROVE  told' \in [Notification \X {"SENT", "FAILED"} -> Nat]
BY CountType DEF Tell, TypeOK

LEMMA StepType == ASSUME TypeOK, [Next]_vars PROVE TypeOK'
<1> USE DEF history, output
<1>1. ASSUME NEW h \in Slot, HandlerStep(h) PROVE TypeOK'
  <2>1. slot[h].st # "idle"
    BY <1>1 DEF HandlerStep, NoProvider, ProviderFound, NotAdmitted, Send, Answer, SendSucceeds,
                SendRejected, SendUnanswered, FallBack, GiveUp, Reject, Ack, At
  <2>2. slot[h].m \in Msg /\ slot[h].m.n \in Notification /\ slot[h].m.ch \in Channel
    BY <2>1, AtWork DEF Msg
  <2>3. CASE NoProvider(h)
    BY <2>1, <2>2, <2>3, GotoType, TellType DEF NoProvider, TypeOK, Awaits
  <2>4. CASE ProviderFound(h)
    BY <2>1, <2>4, GotoType DEF ProviderFound, TypeOK, Awaits
  <2>5. CASE NotAdmitted(h)
    BY <2>1, <2>5, RetryType DEF NotAdmitted, TypeOK
  <2>6. CASE Send(h)
    <3>1. [slot[h] EXCEPT !.st = "call", !.done = FALSE] \in Busy
      BY <2>1, AtWork DEF Busy, Awaits
    <3>2. slot' \in [Slot -> {Idle} \cup Busy]
      BY <2>6, <3>1 DEF Send, TypeOK
    <3>3. calls' \in [Notification \X Channel -> Nat]
      BY <2>2, <2>6, CountType DEF Send, TypeOK
    <3>4. QED
      BY <2>6, <3>2, <3>3 DEF Send, TypeOK
  <2>7. CASE SendSucceeds(h) \/ SendRejected(h)
    BY <2>1, <2>2, <2>7, GotoType, TellType DEF SendSucceeds, SendRejected, TypeOK, Awaits
  <2>8. CASE SendUnanswered(h)
    BY <2>1, <2>8, RetryType DEF SendUnanswered, TypeOK
  <2>9. CASE FallBack(h)
    <3>1. FallbackOf(slot[h].m) \in Msg
      BY <2>2, <2>9, MessageTypes DEF FallBack
    <3>2. deliver' \in [Msg -> Nat]
      BY <2>9, <3>1, CountType DEF FallBack, TypeOK
    <3>3. QED
      BY <2>1, <2>2, <2>9, <3>2, GotoType, TellType DEF FallBack, TypeOK, Awaits
  <2>10. CASE GiveUp(h)
    BY <2>1, <2>2, <2>10, GotoType, TellType DEF GiveUp, TypeOK, Awaits
  <2>11. CASE Reject(h)
    BY <2>2, <2>11 DEF Reject, TypeOK
  <2>12. CASE Ack(h)
    BY <2>12 DEF Ack, TypeOK
  <2>13. QED
    BY <1>1, <2>3, <2>4, <2>5, <2>6, <2>7, <2>8, <2>9, <2>10, <2>11, <2>12 DEF HandlerStep, Answer
<1>2. ASSUME NEW h \in Slot, ProviderAccepts(h) PROVE TypeOK'
  <2>1. slot[h].st # "idle"
    BY <1>2 DEF ProviderAccepts, At
  <2>2. [slot[h] EXCEPT !.done = TRUE] \in Busy
    BY <2>1, AtWork DEF Busy
  <2>3. accepted' \in [Notification \X Channel -> Nat]
    <3>1. <<slot[h].m.n, slot[h].m.ch>> \in Notification \X Channel
      BY <2>1, AtWork DEF Msg
    <3>2. QED
      BY <1>2, <3>1, CountType DEF ProviderAccepts, TypeOK
  <2>4. QED
    BY <1>2, <2>2, <2>3 DEF ProviderAccepts, TypeOK
<1>3. ASSUME NEW h \in Slot, NEW m \in Msg, Take(h, m) PROVE TypeOK'
  <2>1. deliver' \in [Msg -> Nat]
    BY <1>3, CountType DEF Take, TypeOK
  <2>2. slot' \in [Slot -> {Idle} \cup Busy]
    BY <1>3 DEF Take, TypeOK, Busy, Awaits
  <2>3. QED
    BY <1>3, <2>1, <2>2 DEF Take, TypeOK
<1>4. ASSUME NEW m \in Msg, TimerFires(m) PROVE TypeOK'
  BY <1>4, CountType DEF TimerFires, TypeOK
<1>5. ASSUME NEW m \in Msg, RetryLost(m) PROVE TypeOK'
  BY <1>5, CountType, RouterAssumption DEF RetryLost, Fault, TypeOK
<1>6. CASE Crash
  BY <1>6, RequeuedType, RouterAssumption DEF Crash, Fault, TypeOK
<1>7. CASE ConnectionLost
  <2>1. slot' \in [Slot -> {Idle} \cup Busy]
    BY <1>7 DEF ConnectionLost, TypeOK, Busy
  <2>2. QED
    BY <1>7, <2>1, RequeuedType, RouterAssumption DEF ConnectionLost, Fault, TypeOK
<1>8. ASSUME NEW n \in Notification, Dispatch(n) PROVE TypeOK'
  <2>1. deliver' \in [Msg -> Nat]
    BY <1>8, MessageTypes, CountType DEF Dispatch, TypeOK
  <2>2. QED
    BY <1>8, <2>1 DEF Dispatch, TypeOK
<1>9. CASE UNCHANGED vars
  BY <1>9 DEF vars, TypeOK
<1>10. QED
  BY <1>1, <1>2, <1>3, <1>4, <1>5, <1>6, <1>7, <1>8, <1>9 DEF Next, RouterStep

\* Every variable of the router keeps its type, over redeliveries, timers and crashes.
THEOREM RouterTypes == Spec => []TypeOK
BY InitType, StepType, PTL DEF Spec
-----------------------------------------------------------------------------

\* Where the messages in flight after a step come from: they were in flight, or are
\* dispatched, a next attempt, or the fallback of one that was.
Source(m) ==
  \/ Pending(m)
  \/ \E n \in given' : m = First(n)
  \/ \E k \in Msg : Pending(k) /\ ShouldRetry(k) /\ m = NextAttempt(k)
  \/ \E k \in Msg : Pending(k) /\ ~ k.fb /\ Fallback[k.ch] # NoChannel /\ m = FallbackOf(k)

LEMMA Requeuing ==
  ASSUME TypeOK, NEW m \in Msg, Requeued[m] > 0
  PROVE  Pending(m)
<1>1. CASE Unacked(m) = {}
  <2>1. Cardinality(Unacked(m)) = 0
    BY <1>1, FS_EmptySet
  <2>2. deliver[m] > 0
    BY <2>1 DEF Requeued, TypeOK
  <2>3. QED
    BY <2>2 DEF Pending
<1>2. CASE Unacked(m) # {}
  BY <1>2 DEF Unacked, Pending
<1>3. QED
  BY <1>1, <1>2

LEMMA Moved ==
  ASSUME TypeOK, NEW h \in Slot, slot[h].st # "idle", NEW st, Goto(h, st),
         UNCHANGED <<deliver, timers>>
  PROVE  \A m \in Msg : Pending(m)' => Pending(m)
BY AtWork DEF Goto, Pending, TypeOK, Idle, Busy

LEMMA PendingStep ==
  ASSUME TypeOK, [Next]_vars, NEW m \in Msg, Pending(m)'
  PROVE  Source(m)
<1> USE DEF history, output
<1>1. ASSUME NEW h \in Slot, HandlerStep(h) PROVE Source(m)
  <2> DEFINE k == slot[h].m
  <2>1. slot[h].st # "idle" /\ slot[h] # Idle
    BY <1>1 DEF HandlerStep, NoProvider, ProviderFound, NotAdmitted, Send, Answer, SendSucceeds,
                SendRejected, SendUnanswered, FallBack, GiveUp, Reject, Ack, At, Idle
  <2>2. k \in Msg /\ Pending(k)
    BY <2>1, AtWork DEF Pending
  <2>3. ASSUME RetryOrExhaust(h), UNCHANGED deliver PROVE Source(m)
    <3>1. CASE ~ ShouldRetry(k)
      BY <2>1, <2>3, <3>1, Moved DEF RetryOrExhaust, Source
    <3>2. CASE ShouldRetry(k)
      <4>1. timers' = More(timers, NextAttempt(k)) /\ Goto(h, "ack")
        BY <2>3, <3>2 DEF RetryOrExhaust
      <4>2. CASE m = NextAttempt(k)
        BY <2>2, <3>2, <4>2 DEF Source
      <4>3. CASE m # NextAttempt(k)
        <5>1. timers'[m] = timers[m]
          BY <4>1, <4>3 DEF More, TypeOK
        <5>2. Pending(m)
          BY <2>1, <2>3, <4>1, <5>1, AtWork DEF Goto, Pending, TypeOK, Idle, Busy
        <5>3. QED
          BY <5>2 DEF Source
      <4>4. QED
        BY <4>2, <4>3
    <3>3. QED
      BY <3>1, <3>2
  <2>4. CASE NoProvider(h) \/ ProviderFound(h) \/ SendSucceeds(h) \/ SendRejected(h) \/ GiveUp(h)
    BY <2>1, <2>4, Moved DEF NoProvider, ProviderFound, SendSucceeds, SendRejected, GiveUp, Source
  <2>5. CASE NotAdmitted(h) \/ SendUnanswered(h)
    BY <2>3, <2>5 DEF NotAdmitted, SendUnanswered
  <2>6. CASE Send(h)
    BY <2>1, <2>6, AtWork DEF Send, Pending, Source, TypeOK, Idle, Busy
  <2>7. CASE FallBack(h)
    <3>1. deliver' = More(deliver, FallbackOf(k)) /\ ~ k.fb /\ Fallback[k.ch] # NoChannel
      BY <2>7 DEF FallBack
    <3>2. CASE m = FallbackOf(k)
      BY <2>2, <3>1, <3>2 DEF Source
    <3>3. CASE m # FallbackOf(k)
      <4>1. deliver'[m] = deliver[m]
        BY <3>1, <3>3 DEF More, TypeOK
      <4>2. Pending(m)
        BY <2>1, <2>7, <4>1, AtWork DEF FallBack, Goto, Pending, TypeOK, Idle, Busy
      <4>3. QED
        BY <4>2 DEF Source
    <3>4. QED
      BY <3>2, <3>3
  <2>8. CASE Reject(h) \/ Ack(h)
    BY <2>8 DEF Reject, Ack, Pending, Source, TypeOK
  <2>9. QED
    BY <1>1, <2>4, <2>5, <2>6, <2>7, <2>8 DEF HandlerStep, Answer
<1>2. ASSUME NEW h \in Slot, ProviderAccepts(h) PROVE Source(m)
  BY <1>2, AtWork DEF ProviderAccepts, At, Pending, Source, TypeOK, Idle, Busy
<1>3. ASSUME NEW h \in Slot, NEW k \in Msg, Take(h, k) PROVE Source(m)
  BY <1>3 DEF Take, At, Less, Pending, Source, TypeOK, Idle, Busy
<1>4. ASSUME NEW k \in Msg, TimerFires(k) PROVE Source(m)
  BY <1>4 DEF TimerFires, Less, More, Pending, Source, TypeOK
<1>5. ASSUME NEW k \in Msg, RetryLost(k) PROVE Source(m)
  BY <1>5 DEF RetryLost, Less, Pending, Source, TypeOK
<1>6. CASE Crash
  BY <1>6, Requeuing DEF Crash, Pending, Source
<1>7. CASE ConnectionLost
  <2>1. ASSUME NEW h \in Slot, slot'[h] # Idle PROVE slot[h] # Idle /\ slot'[h].m = slot[h].m
    BY <1>7, <2>1 DEF ConnectionLost, TypeOK, Idle, Busy
  <2>2. CASE deliver'[m] > 0
    BY <1>7, <2>2, Requeuing DEF ConnectionLost, Source
  <2>3. CASE ~ deliver'[m] > 0
    BY <1>7, <2>1, <2>3 DEF ConnectionLost, Pending, Source
  <2>4. QED
    BY <2>2, <2>3
<1>8. ASSUME NEW n \in Notification, Dispatch(n) PROVE Source(m)
  <2>1. CASE m = First(n)
    BY <1>8, <2>1 DEF Dispatch, Source
  <2>2. CASE m # First(n)
    BY <1>8, <2>2 DEF Dispatch, More, Pending, Source, TypeOK
  <2>3. QED
    BY <2>1, <2>2
<1>9. CASE UNCHANGED vars
  BY <1>9 DEF vars, Pending, Source
<1>10. QED
  BY <1>1, <1>2, <1>3, <1>4, <1>5, <1>6, <1>7, <1>8, <1>9 DEF Next, RouterStep

\* Requests and statuses are only added for a message in flight, and only Dispatch adds
\* a notification.
LEMMA HistoryStep ==
  ASSUME TypeOK, [Next]_vars
  PROVE  /\ given \subseteq given'
         /\ \A n \in Notification, c \in Channel : calls'[<<n, c>>] # calls[<<n, c>>] =>
              \E m \in Msg : Pending(m) /\ m.n = n /\ m.ch = c
         /\ \A n \in Notification, to \in {"SENT", "FAILED"} : told'[<<n, to>>] # told[<<n, to>>] =>
              \E m \in Msg : Pending(m) /\ m.n = n
<1> DEFINE Goal == /\ given \subseteq given'
                   /\ \A n \in Notification, c \in Channel : calls'[<<n, c>>] # calls[<<n, c>>] =>
                        \E m \in Msg : Pending(m) /\ m.n = n /\ m.ch = c
                   /\ \A n \in Notification, to \in {"SENT", "FAILED"} : told'[<<n, to>>] # told[<<n, to>>] =>
                        \E m \in Msg : Pending(m) /\ m.n = n
<1>1. ASSUME NEW h \in Slot, HandlerStep(h) PROVE Goal
  <2>1. slot[h].st # "idle" /\ slot[h] # Idle
    BY <1>1 DEF HandlerStep, NoProvider, ProviderFound, NotAdmitted, Send, Answer, SendSucceeds,
                SendRejected, SendUnanswered, FallBack, GiveUp, Reject, Ack, At, Idle
  <2>2. slot[h].m \in Msg /\ Pending(slot[h].m)
    BY <2>1, AtWork DEF Pending
  <2>3. CASE UNCHANGED calls /\ \E to \in {"SENT", "FAILED"} : Tell(slot[h].m.n, to)
    BY <1>1, <2>2, <2>3
    DEF HandlerStep, NoProvider, ProviderFound, NotAdmitted, Send, Answer, SendSucceeds,
        SendRejected, SendUnanswered, FallBack, GiveUp, Reject, Ack, Tell, More, TypeOK
  <2>4. CASE Send(h)
    BY <2>2, <2>4 DEF Send, More, TypeOK, output
  <2>5. CASE UNCHANGED <<given, calls, told>>
    BY <2>5
  <2>6. QED
    BY <1>1, <2>3, <2>4, <2>5
    DEF HandlerStep, NoProvider, ProviderFound, NotAdmitted, Answer, SendSucceeds,
        SendRejected, SendUnanswered, FallBack, GiveUp, Reject, Ack, history, output
<1>2. CASE UNCHANGED <<calls, told>> /\ given \subseteq given'
  BY <1>2
<1>3. QED
  BY <1>1, <1>2
  DEF Next, RouterStep, ProviderAccepts, Take, TimerFires, RetryLost, Crash, ConnectionLost, Dispatch,
      history, output, vars

LEMMA PolicyInit == Init => PolicyInv
BY DEF Init, PolicyInv, Pending, SingleFallback, Idle

LEMMA PolicyStep ==
  ASSUME TypeOK, PolicyInv, [Next]_vars
  PROVE  PolicyInv'
<1>1. TypeOK' /\ given \subseteq given'
  BY StepType, HistoryStep
<1>2. ASSUME NEW m \in Msg, Pending(m)' PROVE ByPolicy(m)'
  <2>1. CASE Pending(m)
    BY <1>1, <2>1 DEF PolicyInv, ByPolicy
  <2>2. ASSUME NEW n \in given', m = First(n) PROVE ByPolicy(m)'
    BY <1>1, <2>2, RouterAssumption DEF ByPolicy, First, TypeOK
  <2>3. ASSUME NEW k \in Msg, Pending(k), ShouldRetry(k), m = NextAttempt(k) PROVE ByPolicy(m)'
    <3>1. m.n = k.n /\ m.ch = k.ch /\ m.fb = k.fb /\ m.attempt = k.attempt + 1
      BY <2>3 DEF NextAttempt, Msg
    <3>2. k.attempt \in Nat /\ k.ch \in Channel /\ MaxAttempts[k.ch] \in Nat
      BY RouterAssumption DEF Msg
    <3>3. ByPolicy(k)
      BY <2>3 DEF PolicyInv
    <3>4. QED
      BY <1>1, <2>3, <3>1, <3>2, <3>3 DEF ByPolicy, ShouldRetry
  <2>4. ASSUME NEW k \in Msg, Pending(k), ~ k.fb, Fallback[k.ch] # NoChannel, m = FallbackOf(k)
        PROVE  ByPolicy(m)'
    <3>1. m.n = k.n /\ m.ch = Fallback[k.ch] /\ m.fb /\ m.attempt = 1
      BY <2>4 DEF FallbackOf
    <3>2. ByPolicy(k)
      BY <2>4 DEF PolicyInv
    <3>3. m.ch \in Channel /\ MaxAttempts[m.ch] >= 1
      BY RouterAssumption DEF Msg
    <3>4. QED
      BY <1>1, <2>4, <3>1, <3>2, <3>3 DEF ByPolicy
  <2>5. QED
    BY <1>2, <2>1, <2>2, <2>3, <2>4, PendingStep DEF Source
<1>3. ASSUME NEW n \in Notification, NEW c \in Channel, calls'[<<n, c>>] > 0
      PROVE  c \in {Home(n), Fallback[Home(n)]} /\ n \in given
  <2>1. CASE calls[<<n, c>>] > 0
    BY <2>1 DEF PolicyInv, SingleFallback
  <2>2. ASSUME NEW m \in Msg, Pending(m), m.n = n, m.ch = c
        PROVE  c \in {Home(n), Fallback[Home(n)]} /\ n \in given
    BY <2>2 DEF PolicyInv, ByPolicy
  <2>3. QED
    BY <1>3, <2>1, <2>2, HistoryStep
<1>4. ASSUME NEW n \in Notification, told'[<<n, "SENT">>] + told'[<<n, "FAILED">>] > 0 PROVE n \in given
  <2>1. CASE told[<<n, "SENT">>] + told[<<n, "FAILED">>] > 0
    BY <2>1 DEF PolicyInv
  <2>2. ASSUME NEW m \in Msg, Pending(m), m.n = n PROVE n \in given
    BY <2>2 DEF PolicyInv, ByPolicy
  <2>3. CASE told'[<<n, "SENT">>] # told[<<n, "SENT">>] \/ told'[<<n, "FAILED">>] # told[<<n, "FAILED">>]
    BY <2>2, <2>3, HistoryStep
  <2>4. QED
    BY <1>4, <2>1, <2>3
<1>5. QED
  BY <1>1, <1>2, <1>3, <1>4 DEF PolicyInv, SingleFallback

-----------------------------------------------------------------------------
(***************************************************************************)
(* Being alone: a step moves the one place of a notification.              *)
(***************************************************************************)

\* The handler goes on with its message, or is done with it.
LEMMA AloneGoesOn ==
  ASSUME TypeOK, Alone, NEW h \in Slot, UNCHANGED <<deliver, timers>>,
         \A g \in Slot : g # h => slot'[g] = slot[g],
         Active(h)' => Active(h) /\ slot'[h].m = slot[h].m
  PROVE  Alone'
BY DEF Alone, Active

\* The handler passes its notification on to the queue or to a timer.
LEMMA AlonePasses ==
  ASSUME TypeOK, Alone, NEW h \in Slot, Active(h), NEW m \in Msg, m.n = slot[h].m.n,
         ~ Active(h)', \A g \in Slot : g # h => slot'[g] = slot[g],
         \/ deliver' = More(deliver, m) /\ UNCHANGED timers
         \/ timers' = More(timers, m) /\ UNCHANGED deliver
  PROVE  Alone'
<1>1. \A k \in Msg : k.n = m.n => deliver[k] = 0 /\ timers[k] = 0
  BY DEF Alone
<1>2. \A g \in Slot : Active(g)' => Active(g) /\ slot'[g] = slot[g] /\ slot[g].m.n # m.n
  BY DEF Alone, Active
<1>3. CASE deliver' = More(deliver, m) /\ UNCHANGED timers
  <2>1. \A k \in Msg : deliver'[k] = IF k = m THEN 1 ELSE deliver[k]
    BY <1>1, <1>3 DEF More, TypeOK
  <2>2. QED
    BY <1>1, <1>2, <1>3, <2>1 DEF Alone
<1>4. CASE timers' = More(timers, m) /\ UNCHANGED deliver
  <2>1. \A k \in Msg : timers'[k] = IF k = m THEN 1 ELSE timers[k]
    BY <1>1, <1>4 DEF More, TypeOK
  <2>2. QED
    BY <1>1, <1>2, <1>4, <2>1 DEF Alone
<1>5. QED
  BY <1>3, <1>4

\* A message that is taken from the queue leaves it.
LEMMA AloneTakes ==
  ASSUME TypeOK, Alone, NEW h \in Slot, NEW m \in Msg, Take(h, m)
  PROVE  Alone'
<1>1. deliver[m] = 1 /\ \A k \in Msg : deliver'[k] = IF k = m THEN 0 ELSE deliver[k]
  BY DEF Take, Less, Alone, TypeOK
<1>2. UNCHANGED timers /\ \A g \in Slot : g # h => slot'[g] = slot[g]
  BY DEF Take, TypeOK
<1>3. \A k \in Msg : k.n = m.n => deliver'[k] = 0 /\ timers'[k] = 0
  BY <1>1, <1>2 DEF Alone, TypeOK
<1>4. \A g \in Slot : Active(g) => slot[g].m.n # m.n
  BY <1>1 DEF Alone
<1>5. slot'[h].m = m
  BY DEF Take, TypeOK
<1>6. ~ Active(h)
  BY DEF Take, At, Active
<1>7. \A k \in Msg : deliver'[k] <= 1 /\ timers'[k] <= 1
  BY <1>1, <1>2 DEF Alone
<1>8. \A g \in Slot : Active(g)' => \/ g = h
                                    \/ Active(g) /\ slot'[g] = slot[g]
  BY <1>2 DEF Active
<1>9. \A g \in Slot, k \in Msg : Active(g)' /\ slot'[g].m.n = k.n => deliver'[k] = 0 /\ timers'[k] = 0
  BY <1>1, <1>2, <1>3, <1>5, <1>8 DEF Alone
<1>10. \A g, f \in Slot : Active(g)' /\ Active(f)' /\ slot'[g].m.n = slot'[f].m.n => g = f
  BY <1>4, <1>5, <1>8 DEF Alone
<1>11. QED
  BY <1>1, <1>2, <1>7, <1>9, <1>10 DEF Alone

LEMMA AloneFires ==
  ASSUME TypeOK, Alone, NEW m \in Msg, TimerFires(m)
  PROVE  Alone'
<1>1. timers[m] = 1 /\ \A k \in Msg : timers'[k] = IF k = m THEN 0 ELSE timers[k]
  BY DEF TimerFires, Less, Alone, TypeOK
<1>2. deliver[m] = 0 /\ \A k \in Msg : deliver'[k] = IF k = m THEN 1 ELSE deliver[k]
  BY <1>1 DEF TimerFires, More, Alone, TypeOK
<1>3. \A k \in Msg : k.n = m.n => deliver[k] = 0 /\ timers'[k] = 0
  BY <1>1 DEF Alone, TypeOK
<1>4. \A g \in Slot : Active(g) => slot[g].m.n # m.n
  BY <1>1 DEF Alone
<1>5. slot' = slot
  BY DEF TimerFires
<1>6. QED
  BY <1>1, <1>2, <1>3, <1>4, <1>5 DEF Alone, Active

LEMMA AloneDispatched ==
  ASSUME TypeOK, PolicyInv, Alone, NEW n \in Notification, Dispatch(n)
  PROVE  Alone'
<1>1. \A k \in Msg : k.n = n => deliver[k] = 0 /\ timers[k] = 0
  BY DEF PolicyInv, ByPolicy, Pending, Dispatch, TypeOK
<1>2. \A g \in Slot : Active(g) => slot[g].m.n # n
  BY AtWork DEF Active, PolicyInv, ByPolicy, Pending, Dispatch, Idle
<1>3. First(n) \in Msg /\ First(n).n = n
  BY MessageTypes DEF First
<1>4. \A k \in Msg : deliver'[k] = IF k = First(n) THEN 1 ELSE deliver[k]
  BY <1>1, <1>3 DEF Dispatch, More, TypeOK
<1>5. slot' = slot /\ timers' = timers
  BY DEF Dispatch
<1>6. QED
  BY <1>1, <1>2, <1>3, <1>4, <1>5 DEF Alone, Active

(***************************************************************************)
(* The steps that are no faults.                                           *)
(***************************************************************************)
Work(h) == HandlerStep(h) \/ ProviderAccepts(h)

LEMMA NoFault ==
  ASSUME TypeOK, Next, faults' = 0
  PROVE  /\ faults = 0
         /\ \/ \E h \in Slot : Work(h)
            \/ \E h \in Slot, m \in Msg : Take(h, m)
            \/ \E m \in Msg : TimerFires(m)
            \/ \E n \in Notification : Dispatch(n)
<1>1. faults \in Nat
  BY RouterAssumption DEF TypeOK
<1>2. ~ Crash /\ ~ ConnectionLost /\ \A m \in Msg : ~ RetryLost(m)
  BY <1>1 DEF Crash, ConnectionLost, RetryLost, Fault
<1>3. faults' = faults
  BY <1>2
  DEF Next, RouterStep, HandlerStep, NoProvider, ProviderFound, NotAdmitted, Send, Answer, SendSucceeds,
      SendRejected, SendUnanswered, FallBack, GiveUp, Reject, Ack, ProviderAccepts, Take, TimerFires, Dispatch
<1>4. QED
  BY <1>2, <1>3 DEF Next, RouterStep, Work

\* What the steps of a handler do to the places of its notification: it goes on with its
\* message, is done with it, or passes it on.
GoesOn(h) == /\ UNCHANGED <<deliver, timers>>
             /\ Active(h)' => Active(h) /\ slot'[h].m = slot[h].m
Passes(h, m) == /\ Active(h) /\ ~ Active(h)'
                /\ \/ deliver' = More(deliver, m) /\ UNCHANGED timers
                   \/ timers' = More(timers, m) /\ UNCHANGED deliver

LEMMA WorkPlaces ==
  ASSUME TypeOK, NEW h \in Slot, Work(h)
  PROVE  /\ slot[h] \in Busy /\ slot[h].m \in Msg
         /\ \A g \in Slot : g # h => slot'[g] = slot[g]
         /\ \/ GoesOn(h)
            \/ /\ ShouldRetry(slot[h].m) /\ Passes(h, NextAttempt(slot[h].m))
               /\ UNCHANGED <<calls, told>>
            \/ FallBack(h) /\ Passes(h, FallbackOf(slot[h].m))
<1> USE DEF history, output
<1>1. slot[h].st # "idle"
  BY DEF Work, ProviderAccepts, HandlerStep, NoProvider, ProviderFound, NotAdmitted, Send, Answer, SendSucceeds,
         SendRejected, SendUnanswered, FallBack, GiveUp, Reject, Ack, At
<1>2. slot[h] \in Busy /\ slot[h].m \in Msg
  BY <1>1, AtWork
<1>3. \A g \in Slot : g # h => slot'[g] = slot[g]
  BY DEF Work, ProviderAccepts, HandlerStep, NoProvider, ProviderFound, NotAdmitted, Send, Answer, SendSucceeds,
         SendRejected, SendUnanswered, FallBack, GiveUp, Reject, Ack, RetryOrExhaust, Goto, TypeOK
<1>4. ASSUME RetryOrExhaust(h), Active(h), UNCHANGED deliver
      PROVE  GoesOn(h) \/ (ShouldRetry(slot[h].m) /\ Passes(h, NextAttempt(slot[h].m)))
  BY <1>2, <1>4 DEF RetryOrExhaust, Goto, GoesOn, Passes, Active, TypeOK, Busy
<1>5. CASE NotAdmitted(h) \/ SendUnanswered(h)
  BY <1>2, <1>3, <1>4, <1>5 DEF NotAdmitted, SendUnanswered, Active, At
<1>6. CASE FallBack(h)
  BY <1>2, <1>3, <1>6 DEF FallBack, Goto, Passes, Active, At, TypeOK, Busy
<1>7. CASE NoProvider(h) \/ ProviderFound(h) \/ SendSucceeds(h) \/ SendRejected(h) \/ GiveUp(h)
  BY <1>2, <1>3, <1>7 DEF NoProvider, ProviderFound, SendSucceeds, SendRejected, GiveUp, Goto, GoesOn, Active, At, TypeOK, Busy
<1>8. CASE Send(h) \/ ProviderAccepts(h) \/ Reject(h) \/ Ack(h)
  BY <1>2, <1>3, <1>8 DEF Send, ProviderAccepts, Reject, Ack, GoesOn, Active, At, TypeOK, Busy, Idle
<1>9. QED
  BY <1>5, <1>6, <1>7, <1>8 DEF Work, HandlerStep, Answer

LEMMA AloneStep ==
  ASSUME TypeOK, PolicyInv, Alone, Next, faults' = 0
  PROVE  Alone'
<1>1. ASSUME NEW h \in Slot, Work(h) PROVE Alone'
  <2> DEFINE k == slot[h].m
  <2>1. k \in Msg /\ \A g \in Slot : g # h => slot'[g] = slot[g]
    BY <1>1, WorkPlaces
  <2>2. CASE GoesOn(h)
    BY <2>1, <2>2, AloneGoesOn DEF GoesOn
  <2>3. CASE ShouldRetry(k) /\ Passes(h, NextAttempt(k))
    <3>1. NextAttempt(k) \in Msg /\ NextAttempt(k).n = k.n
      BY <2>1, <2>3, MessageTypes DEF NextAttempt, Msg
    <3>2. QED
      BY <2>1, <2>3, <3>1, AlonePasses DEF Passes
  <2>4. CASE FallBack(h) /\ Passes(h, FallbackOf(k))
    <3>1. FallbackOf(k) \in Msg /\ FallbackOf(k).n = k.n
      BY <2>1, <2>4, MessageTypes DEF FallbackOf, FallBack
    <3>2. QED
      BY <2>1, <2>4, <3>1, AlonePasses DEF Passes
  <2>5. QED
    BY <1>1, <2>2, <2>3, <2>4, WorkPlaces
<1>2. QED
  BY <1>1, NoFault, AloneTakes, AloneFires, AloneDispatched

\* A step of a handler that holds a settled message changes no history, and one of an
\* active handler only that of its notification.
LEMMA WorkHistory ==
  ASSUME TypeOK, NEW h \in Slot, Work(h)
  PROVE  /\ given' = given
         /\ ~ Active(h) => UNCHANGED <<calls, told, dlq>>
         /\ \A n \in Notification, c \in Channel : n # slot[h].m.n => calls'[<<n, c>>] = calls[<<n, c>>]
         /\ \A n \in Notification, to \in {"SENT", "FAILED"} :
              n # slot[h].m.n => told'[<<n, to>>] = told[<<n, to>>]
         /\ dlq \subseteq dlq'
<1>1. slot[h].m.n \in Notification /\ slot[h].m.ch \in Channel
  BY WorkPlaces DEF Msg
<1>2. given' = given /\ dlq \subseteq dlq'
  BY DEF Work, ProviderAccepts, HandlerStep, NoProvider, ProviderFound, NotAdmitted, Send, Answer, SendSucceeds,
         SendRejected, SendUnanswered, FallBack, GiveUp, Reject, Ack, history, output
<1>3. ~ Active(h) => UNCHANGED <<calls, told, dlq>>
  BY DEF Work, ProviderAccepts, HandlerStep, NoProvider, ProviderFound, NotAdmitted, Send, Answer, SendSucceeds,
         SendRejected, SendUnanswered, FallBack, GiveUp, Reject, Ack, history, output, At, Active
<1>4. UNCHANGED calls \/ calls' = More(calls, <<slot[h].m.n, slot[h].m.ch>>)
  BY DEF Work, ProviderAccepts, HandlerStep, NoProvider, ProviderFound, NotAdmitted, Send, Answer, SendSucceeds,
         SendRejected, SendUnanswered, FallBack, GiveUp, Reject, Ack, history, output
<1>5. UNCHANGED told \/ \E to \in {"SENT", "FAILED"} : told' = More(told, <<slot[h].m.n, to>>)
  BY DEF Work, ProviderAccepts, HandlerStep, NoProvider, ProviderFound, NotAdmitted, Send, Answer, SendSucceeds,
         SendRejected, SendUnanswered, FallBack, GiveUp, Reject, Ack, history, output, Tell
<1>6. \A n \in Notification, c \in Channel : n # slot[h].m.n => calls'[<<n, c>>] = calls[<<n, c>>]
  BY <1>1, <1>4 DEF More, TypeOK
<1>7. \A n \in Notification, to \in {"SENT", "FAILED"} : n # slot[h].m.n => told'[<<n, to>>] = told[<<n, to>>]
  BY <1>1, <1>5 DEF More, TypeOK
<1>8. QED
  BY <1>2, <1>3, <1>6, <1>7

\* What is unsettled stays so while the history of its notification stands still.
LEMMA StillUnsettled ==
  ASSUME NEW m \in Msg, NEW spent, Unsettled(m, spent),
         \A c \in Channel : calls'[<<m.n, c>>] = calls[<<m.n, c>>],
         \A to \in {"SENT", "FAILED"} : told'[<<m.n, to>>] = told[<<m.n, to>>]
  PROVE  Unsettled(m, spent)'
BY DEF Unsettled, Msg

LEMMA WorkWaiting ==
  ASSUME TypeOK, Alone, Waiting, InHand, NEW h \in Slot, Work(h)
  PROVE  Waiting'
<1> DEFINE k == slot[h].m
<1>1. k \in Msg
  BY WorkPlaces
<1>2. ASSUME NEW m \in Msg, deliver[m] > 0 \/ timers[m] > 0 PROVE Unsettled(m, m.attempt - 1)'
  <2>1. Unsettled(m, m.attempt - 1)
    BY <1>2 DEF Waiting
  <2>2. CASE Active(h)
    <3>1. m.n # k.n
      BY <1>2, <2>2 DEF Alone
    <3>2. QED
      BY <2>1, <3>1, WorkHistory, StillUnsettled DEF Msg
  <2>3. CASE ~ Active(h)
    BY <2>1, <2>3, WorkHistory, StillUnsettled
  <2>4. QED
    BY <2>2, <2>3
<1>3. CASE GoesOn(h)
  BY <1>2, <1>3 DEF GoesOn, Waiting
<1>4. ASSUME NEW x \in Msg, Passes(h, x), Unsettled(x, x.attempt - 1)' PROVE Waiting'
  <2>1. \A m \in Msg : m # x => deliver'[m] = deliver[m] /\ timers'[m] = timers[m]
    BY <1>4 DEF Passes, More, TypeOK
  <2>2. QED
    BY <1>2, <1>4, <2>1 DEF Waiting
<1>5. CASE ShouldRetry(k) /\ Passes(h, NextAttempt(k)) /\ UNCHANGED <<calls, told>>
  <2>1. PICK x \in Msg : x = NextAttempt(k) /\ x.n = k.n /\ x.ch = k.ch /\ x.fb = k.fb /\ x.attempt = k.attempt + 1
    <3>1. NextAttempt(k) \in Msg
      BY <1>1, <1>5, MessageTypes
    <3>2. QED
      BY <1>1, <3>1 DEF NextAttempt, Msg
  <2>2. Unsettled(k, Spent(h)) /\ Spent(h) <= k.attempt /\ k.attempt \in Nat
    BY <1>1, <1>5 DEF InHand, Passes, Spent, Msg
  <2>3. calls[<<k.n, k.ch>>] \in Nat /\ Spent(h) \in Int
    BY <1>1, <2>2 DEF TypeOK, Msg, Spent
  <2>4. Unsettled(x, x.attempt - 1)
    BY <2>1, <2>2, <2>3 DEF Unsettled
  <2>5. Unsettled(x, x.attempt - 1)'
    BY <1>5, <2>1, <2>4, StillUnsettled
  <2>6. QED
    BY <1>4, <1>5, <2>1, <2>5
<1>6. CASE FallBack(h) /\ Passes(h, FallbackOf(k))
  <2>1. PICK x \in Msg : /\ x = FallbackOf(k) /\ x.n = k.n /\ x.fb /\ x.attempt = 1
                         /\ x.ch = Fallback[k.ch] /\ x.ch # k.ch /\ x.ch \in Channel
    BY <1>1, <1>6, MessageTypes, RouterAssumption DEF FallBack, FallbackOf, Msg
  <2>2. Unsettled(k, Spent(h)) /\ ~ k.fb /\ k.n \in Notification
    BY <1>1, <1>6 DEF InHand, Passes, FallBack, Msg
  <2>3. UNCHANGED calls /\ told' = More(told, <<k.n, "FAILED">>)
    BY <1>6 DEF FallBack, Tell, history
  <2>4. told'[<<k.n, "SENT">>] = told[<<k.n, "SENT">>] /\ told'[<<k.n, "FAILED">>] = told[<<k.n, "FAILED">>] + 1
    BY <2>2, <2>3 DEF More, TypeOK
  <2>5. told[<<k.n, "FAILED">>] = 0 /\ told[<<k.n, "SENT">>] = 0 /\ calls[<<k.n, x.ch>>] = 0
    BY <2>1, <2>2 DEF Unsettled, TypeOK
  <2>6. Unsettled(x, x.attempt - 1)'
    BY <2>1, <2>3, <2>4, <2>5 DEF Unsettled
  <2>7. QED
    BY <1>4, <1>6, <2>1, <2>6
<1>7. QED
  BY <1>3, <1>5, <1>6, WorkPlaces

LEMMA WorkInHand ==
  ASSUME TypeOK, Alone, InHand, NEW h \in Slot, Work(h)
  PROVE  InHand'
<1> DEFINE k == slot[h].m
<1>1. k \in Msg /\ k.attempt \in Nat /\ k.n \in Notification /\ k.ch \in Channel
  BY WorkPlaces DEF Msg
<1>2. ASSUME NEW g \in Slot, g # h, Active(g)' PROVE Unsettled(slot[g].m, Spent(g))'
  <2>1. slot'[g] = slot[g] /\ Active(g)
    BY <1>2, WorkPlaces DEF Active
  <2>2. PICK m \in Msg : m = slot[g].m
    BY <2>1, AtWork DEF Active
  <2>3. PICK spent : spent = Spent(g)
    OBVIOUS
  <2>4. Unsettled(m, spent)
    BY <2>1, <2>2, <2>3 DEF InHand
  <2>5. Active(h) => m.n # k.n
    BY <1>2, <2>1, <2>2 DEF Alone
  <2>6. /\ \A c \in Channel : calls'[<<m.n, c>>] = calls[<<m.n, c>>]
        /\ \A to \in {"SENT", "FAILED"} : told'[<<m.n, to>>] = told[<<m.n, to>>]
    BY <2>5, WorkHistory DEF Msg
  <2>7. Unsettled(m, spent)'
    BY <2>4, <2>6, StillUnsettled
  <2>8. slot'[g].m = m /\ Spent(g)' = spent
    BY <2>1, <2>2, <2>3 DEF Spent
  <2>9. QED
    BY <2>7, <2>8 DEF Unsettled
<1>3. ASSUME Active(h)' PROVE Unsettled(slot[h].m, Spent(h))'
  <2>1. slot'[h].m = k /\ Active(h)
    BY <1>3, WorkPlaces DEF GoesOn, Passes
  <2>2. Unsettled(k, Spent(h)) /\ Spent(h) <= k.attempt /\ Spent(h) \in Int /\ calls[<<k.n, k.ch>>] \in Nat
    BY <1>1, <2>1 DEF InHand, Spent, TypeOK
  <2>3. CASE Send(h)
    <3>1. UNCHANGED told /\ calls' = More(calls, <<k.n, k.ch>>)
      BY <2>3 DEF Send, output
    <3>2. Spent(h) = k.attempt - 1 /\ slot'[h].st = "call"
      BY <2>3 DEF Send, At, Spent, TypeOK
    <3>3. /\ calls'[<<k.n, k.ch>>] = calls[<<k.n, k.ch>>] + 1
          /\ \A c \in Channel : c # k.ch => calls'[<<k.n, c>>] = calls[<<k.n, c>>]
      BY <1>1, <3>1 DEF More, TypeOK
    <3>4. QED
      BY <1>1, <2>1, <2>2, <3>1, <3>2, <3>3 DEF Unsettled, Spent
  <2>4. CASE ~ Send(h)
    <3>1. /\ UNCHANGED <<calls, told>>
          /\ slot'[h].st \in {slot[h].st, "acquire", "exhausted"}
          /\ slot'[h].st = "acquire" => slot[h].st \in {"acquire", "resolve"}
      <4>1. slot[h] \in Busy
        BY WorkPlaces
      <4>2. CASE ProviderFound(h)
        BY <1>1, <4>1, <4>2 DEF ProviderFound, Goto, At, TypeOK, history, output
      <4>3. CASE ProviderAccepts(h)
        BY <1>1, <4>1, <4>3 DEF ProviderAccepts, Goto, At, TypeOK, Busy, output
      <4>4. CASE NotAdmitted(h) \/ SendUnanswered(h)
        <5>1. RetryOrExhaust(h) /\ UNCHANGED <<calls, told>>
          BY <4>4 DEF NotAdmitted, SendUnanswered, history, output
        <5>2. slot' = [slot EXCEPT ![h].st = "exhausted"]
          BY <1>3, <4>1, <5>1 DEF RetryOrExhaust, Goto, Active, TypeOK, Busy
        <5>3. QED
          BY <4>1, <5>1, <5>2 DEF TypeOK, Busy
      <4>5. CASE NoProvider(h) \/ SendSucceeds(h) \/ SendRejected(h) \/ FallBack(h) \/ GiveUp(h) \/ Reject(h) \/ Ack(h)
        BY <1>3, <4>1, <4>5
        DEF NoProvider, SendSucceeds, SendRejected, FallBack, GiveUp, Reject, Ack, Goto, Active, TypeOK, Busy, Idle
      <4>6. QED
        BY <2>4, <4>2, <4>3, <4>4, <4>5 DEF Work, HandlerStep, Answer
    <3>2. Spent(h)' >= Spent(h) /\ Spent(h)' \in Int
      BY <1>1, <2>1, <3>1 DEF Spent
    <3>3. QED
      BY <1>1, <2>1, <2>2, <3>1, <3>2 DEF Unsettled
  <2>5. QED
    BY <2>3, <2>4
<1>4. QED
  BY <1>2, <1>3 DEF InHand

\* The steps outside the handlers' work: a message is dispatched, taken, or republished.
LEMMA ArrivalTokens ==
  ASSUME TypeOK, PolicyInv, Alone, Waiting, InHand,
         \/ \E h \in Slot, m \in Msg : Take(h, m)
         \/ \E m \in Msg : TimerFires(m)
         \/ \E n \in Notification : Dispatch(n)
  PROVE  Waiting' /\ InHand'
<1>1. UNCHANGED <<calls, told>>
  BY DEF Take, TimerFires, Dispatch, history, output
<1>2. ASSUME NEW h \in Slot, NEW m \in Msg, Take(h, m) PROVE Waiting' /\ InHand'
  <2>1. \A k \in Msg : deliver'[k] > 0 \/ timers'[k] > 0 => deliver[k] > 0 \/ timers[k] > 0
    BY <1>2 DEF Take, Less, TypeOK
  <2>2. Waiting'
    BY <1>1, <2>1 DEF Waiting, Unsettled
  <2>3. Unsettled(m, m.attempt - 1) /\ slot'[h].m = m /\ slot'[h].st \in {"ack", "resolve"}
    BY <1>2 DEF Take, Waiting, TypeOK
  <2>4. \A g \in Slot : g # h => slot'[g] = slot[g]
    BY <1>2 DEF Take, TypeOK
  <2>5. InHand'
    BY <1>1, <2>3, <2>4 DEF InHand, Unsettled, Spent, Active
  <2>6. QED
    BY <2>2, <2>5
<1>3. ASSUME NEW m \in Msg, TimerFires(m) PROVE Waiting' /\ InHand'
  <2>1. \A k \in Msg : deliver'[k] > 0 \/ timers'[k] > 0 => deliver[k] > 0 \/ timers[k] > 0
    BY <1>3 DEF TimerFires, Less, More, TypeOK
  <2>2. slot' = slot
    BY <1>3 DEF TimerFires
  <2>3. QED
    BY <1>1, <2>1, <2>2 DEF Waiting, InHand, Unsettled, Spent, Active
<1>4. ASSUME NEW n \in Notification, Dispatch(n) PROVE Waiting' /\ InHand'
  <2>1. \A k \in Msg : k # First(n) => deliver'[k] = deliver[k] /\ timers'[k] = timers[k]
    BY <1>4 DEF Dispatch, More, TypeOK
  <2>2. First(n) \in Msg /\ First(n).n = n /\ First(n).attempt = 1 /\ First(n).ch \in Channel
    BY MessageTypes, RouterAssumption DEF First
  <2>3. /\ told[<<n, "SENT">>] = 0 /\ told[<<n, "FAILED">>] = 0
        /\ \A c \in Channel : calls[<<n, c>>] = 0
    BY <1>4 DEF Dispatch, PolicyInv, TypeOK
  <2>4. Unsettled(First(n), First(n).attempt - 1)
    BY <2>2, <2>3 DEF Unsettled
  <2>5. slot' = slot
    BY <1>4 DEF Dispatch
  <2>6. QED
    BY <1>1, <2>1, <2>4, <2>5 DEF Waiting, InHand, Unsettled, Spent, Active
<1>5. QED
  BY <1>2, <1>3, <1>4

LEMMA HeldStep ==
  ASSUME TypeOK, AllHeld, Next, faults' = 0
  PROVE  AllHeld'
<1>1. ASSUME NEW h \in Slot, Work(h) PROVE AllHeld'
  <2>1. slot[h] \in Busy /\ \A g \in Slot : g # h => slot'[g] = slot[g]
    BY <1>1, WorkPlaces
  <2>2. slot'[h] = Idle \/ slot'[h].held = slot[h].held
    BY <1>1, <2>1
    DEF Work, ProviderAccepts, HandlerStep, NoProvider, ProviderFound, NotAdmitted, Send, Answer, SendSucceeds,
        SendRejected, SendUnanswered, FallBack, GiveUp, Reject, Ack, RetryOrExhaust, Goto, TypeOK, Busy
  <2>3. slot[h].held
    BY <1>1 DEF AllHeld, Work, ProviderAccepts, HandlerStep, NoProvider, ProviderFound, NotAdmitted, Send, Answer,
        SendSucceeds, SendRejected, SendUnanswered, FallBack, GiveUp, Reject, Ack, At
  <2>4. slot'[h].st = "idle" \/ slot'[h].held
    <3>1. CASE slot'[h] = Idle
      BY <3>1 DEF Idle
    <3>2. CASE slot'[h].held = slot[h].held
      BY <2>3, <3>2, Zenon
    <3>3. QED
      BY <2>2, <3>1, <3>2
  <2>5. ASSUME NEW g \in Slot, slot'[g].st # "idle" PROVE slot'[g].held
    <3>1. CASE g = h
      BY <2>4, <2>5, <3>1
    <3>2. CASE g # h
      <4>1. slot'[g] = slot[g]
        BY <2>1, <3>2
      <4>2. slot[g].held
        BY <2>5, <4>1 DEF AllHeld
      <4>3. QED
        BY <4>1, <4>2
    <3>3. QED
      BY <3>1, <3>2
  <2>6. QED
    BY <2>5 DEF AllHeld
<1>2. ASSUME NEW h \in Slot, NEW m \in Msg, Take(h, m) PROVE AllHeld'
  BY <1>2 DEF Take, AllHeld, TypeOK
<1>3. QED
  BY <1>1, <1>2, NoFault DEF TimerFires, Dispatch, AllHeld

\* An outcome is added only for a message in hand, for which none was published but the
\* FAILED that came before its fallback.
LEMMA OutcomesStep ==
  ASSUME TypeOK, InHand, OutcomesBounded, Next, faults' = 0
  PROVE  OutcomesBounded'
<1>1. ASSUME NEW h \in Slot, Work(h) PROVE OutcomesBounded'
  <2> DEFINE k == slot[h].m
  <2>1. k \in Msg /\ k.n \in Notification
    BY <1>1, WorkPlaces DEF Msg
  <2>2. CASE \E to \in {"SENT", "FAILED"} : Tell(k.n, to)
    <3>1. CASE Active(h)
      <4>1. told[<<k.n, "SENT">>] \in Nat /\ told[<<k.n, "FAILED">>] \in Nat
        BY <2>1 DEF TypeOK
      <4>2. told[<<k.n, "SENT">>] = 0 /\ told[<<k.n, "FAILED">>] <= 1
        <5>1. told[<<k.n, "SENT">>] = 0 /\ told[<<k.n, "FAILED">>] <= (IF k.fb THEN 1 ELSE 0)
          BY <3>1 DEF InHand, Unsettled
        <5>2. CASE k.fb
          BY <5>1, <5>2
        <5>3. CASE ~ k.fb
          BY <4>1, <5>1, <5>3
        <5>4. QED
          BY <5>2, <5>3
      <4>3. /\ told'[<<k.n, "SENT">>] <= told[<<k.n, "SENT">>] + 1
            /\ told'[<<k.n, "FAILED">>] <= told[<<k.n, "FAILED">>] + 1
        <5>1. PICK to \in {"SENT", "FAILED"} : told' = More(told, <<k.n, to>>)
          BY <2>2 DEF Tell
        <5>2. \A s \in {"SENT", "FAILED"} : told'[<<k.n, s>>] = told[<<k.n, s>>] + IF s = to THEN 1 ELSE 0
          BY <2>1, <5>1 DEF More, TypeOK
        <5>3. QED
          BY <4>1, <5>2
      <4>4. told'[<<k.n, "SENT">>] \in Nat /\ told'[<<k.n, "FAILED">>] \in Nat
        BY <2>1, StepType DEF TypeOK
      <4>5. told'[<<k.n, "SENT">>] <= 1 /\ told'[<<k.n, "FAILED">>] <= 2
        BY <4>1, <4>2, <4>3, <4>4
      <4>6. QED
        BY <1>1, <4>5, WorkHistory DEF OutcomesBounded
    <3>2. CASE ~ Active(h)
      BY <1>1, <3>2, WorkHistory DEF OutcomesBounded
    <3>3. QED
      BY <3>1, <3>2
  <2>3. CASE UNCHANGED told
    BY <2>3 DEF OutcomesBounded
  <2>4. QED
    BY <1>1, <2>2, <2>3
    DEF Work, ProviderAccepts, HandlerStep, NoProvider, ProviderFound, NotAdmitted, Send, Answer, SendSucceeds,
        SendRejected, SendUnanswered, FallBack, GiveUp, Reject, Ack, output
<1>2. CASE UNCHANGED told
  BY <1>2 DEF OutcomesBounded
<1>3. QED
  BY <1>1, <1>2, NoFault DEF Take, TimerFires, Dispatch, output

\* A request is made only by a handler whose attempt the policy covers.
LEMMA CallsStep ==
  ASSUME TypeOK, PolicyInv, InHand, \A n \in Notification, c \in Channel : calls[<<n, c>>] <= MaxAttempts[c],
         Next, faults' = 0
  PROVE  \A n \in Notification, c \in Channel : calls'[<<n, c>>] <= MaxAttempts[c]
<1>1. ASSUME NEW h \in Slot, Send(h)
      PROVE  \A n \in Notification, c \in Channel : calls'[<<n, c>>] <= MaxAttempts[c]
  <2> DEFINE k == slot[h].m
  <2>1. k \in Msg /\ slot[h] # Idle /\ Active(h) /\ Spent(h) = k.attempt - 1
    BY <1>1, AtWork DEF Send, At, Active, Spent, Idle
  <2>2. k.n \in Notification /\ k.ch \in Channel /\ k.attempt \in Nat /\ MaxAttempts[k.ch] \in Nat
    BY <2>1, RouterAssumption DEF Msg
  <2>3. k.attempt <= MaxAttempts[k.ch]
    BY <2>1 DEF PolicyInv, Pending, ByPolicy
  <2>4. calls[<<k.n, k.ch>>] <= k.attempt - 1
    BY <2>1 DEF InHand, Unsettled
  <2>5. calls' = More(calls, <<k.n, k.ch>>)
    BY <1>1 DEF Send
  <2>6. calls'[<<k.n, k.ch>>] = calls[<<k.n, k.ch>>] + 1 /\ calls[<<k.n, k.ch>>] \in Nat
    BY <2>2, <2>5 DEF More, TypeOK
  <2>7. calls'[<<k.n, k.ch>>] <= MaxAttempts[k.ch]
    BY <2>2, <2>3, <2>4, <2>6
  <2>8. ASSUME NEW n \in Notification, NEW c \in Channel PROVE calls'[<<n, c>>] <= MaxAttempts[c]
    <3>1. CASE n = k.n /\ c = k.ch
      BY <2>7, <3>1
    <3>2. CASE ~ (n = k.n /\ c = k.ch)
      <4>1. calls'[<<n, c>>] = calls[<<n, c>>]
        BY <2>5, <3>2 DEF More, TypeOK
      <4>2. QED
        BY <4>1
    <3>3. QED
      BY <3>1, <3>2
  <2>9. QED
    BY <2>8
<1>2. CASE UNCHANGED calls
  BY <1>2
<1>3. QED
  BY <1>1, <1>2, NoFault
  DEF Work, ProviderAccepts, HandlerStep, NoProvider, ProviderFound, NotAdmitted, Answer, SendSucceeds,
      SendRejected, SendUnanswered, FallBack, GiveUp, Reject, Ack, Take, TimerFires, Dispatch, history

\* A handler leaves its notification in flight, published an outcome, or dead-lettered
\* the message; it takes no other notification out of flight.
LEMMA WorkAccounted ==
  ASSUME TypeOK, AllHeld, AllAccounted, NEW h \in Slot, Work(h)
  PROVE  AllAccounted'
<1> DEFINE k == slot[h].m
<1>1. k \in Msg /\ k.n \in Notification /\ \A g \in Slot : g # h => slot'[g] = slot[g]
  BY WorkPlaces DEF Msg
<1>2. ASSUME NEW m \in Msg, Unfinished(m), m # k PROVE Unfinished(m)'
  <2>1. \A x \in Msg : /\ deliver[x] > 0 => deliver'[x] > 0
                       /\ timers[x] > 0 => timers'[x] > 0
    <3>1. \A f \in [Msg -> Nat], y, x \in Msg : f[x] > 0 => More(f, y)[x] > 0
      BY DEF More
    <3>2. CASE GoesOn(h)
      BY <3>2 DEF GoesOn
    <3>3. CASE ShouldRetry(k) /\ Passes(h, NextAttempt(k))
      BY <1>1, <3>1, <3>3, MessageTypes DEF Passes, TypeOK
    <3>4. CASE FallBack(h) /\ Passes(h, FallbackOf(k))
      BY <1>1, <3>1, <3>4, MessageTypes DEF Passes, TypeOK, FallBack
    <3>5. QED
      BY <3>2, <3>3, <3>4, WorkPlaces
  <2>2. QED
    BY <1>1, <1>2, <2>1 DEF Unfinished
<1>3. told' \in [Notification \X {"SENT", "FAILED"} -> Nat] /\ told \in [Notification \X {"SENT", "FAILED"} -> Nat]
  BY StepType DEF TypeOK, Next, RouterStep, Work
<1>4. ASSUME NEW n \in Notification, n = k.n, Unfinished(k) PROVE Accounted(n)'
  <2>1. CASE Active(h)'
    BY <1>1, <1>4, <2>1, WorkPlaces DEF GoesOn, Passes, Active, Unfinished, InFlight, Accounted
  <2>2. ASSUME NEW x \in Msg, x.n = n, Passes(h, x) PROVE Accounted(n)'
    <3>1. deliver'[x] > 0 \/ timers'[x] > 0
      BY <2>2 DEF Passes, More, TypeOK
    <3>2. QED
      BY <2>2, <3>1 DEF Unfinished, InFlight, Accounted
  <2>3. ASSUME NEW to \in {"SENT", "FAILED"}, Tell(n, to) PROVE Accounted(n)'
    <3>1. told'[<<n, to>>] > 0
      BY <1>1, <1>3, <2>3 DEF Tell, More
    <3>2. told'[<<n, "SENT">>] \in Nat /\ told'[<<n, "FAILED">>] \in Nat
      BY <1>1, <1>3
    <3>3. told'[<<n, "SENT">>] + told'[<<n, "FAILED">>] > 0
      BY <3>1, <3>2
    <3>4. QED
      BY <3>3 DEF Accounted
  <2>4. CASE Reject(h)
    BY <1>1, <1>4, <2>4 DEF Reject, AllHeld, Accounted
  <2>5. ASSUME Ack(h) PROVE Accounted(n)'
    BY <1>1, <1>4, <2>5 DEF Ack, At, Unfinished, InFlight, Accounted
  <2>6. CASE RetryOrExhaust(h)
    <3>1. CASE ShouldRetry(k)
      <4>1. NextAttempt(k) \in Msg /\ NextAttempt(k).n = n
        BY <1>1, <1>4, <3>1, MessageTypes DEF NextAttempt, Msg
      <4>2. PICK x \in Msg : x = NextAttempt(k) /\ x.n = n
        BY <4>1
      <4>3. timers' = More(timers, x)
        BY <2>6, <3>1, <4>2 DEF RetryOrExhaust
      <4>4. timers'[x] > 0
        BY <4>3 DEF More, TypeOK
      <4>5. QED
        BY <4>2, <4>4 DEF Unfinished, InFlight, Accounted
    <3>2. CASE ~ ShouldRetry(k)
      <4>1. slot'[h].st = "exhausted"
        BY <2>6, <3>2, WorkPlaces DEF RetryOrExhaust, Goto, TypeOK, Busy
      <4>2. QED
        BY <2>1, <4>1 DEF Active
    <3>3. QED
      BY <3>1, <3>2
  <2>7. CASE ProviderFound(h) \/ Send(h) \/ ProviderAccepts(h)
    <3>1. Active(h)'
      BY <2>7, WorkPlaces DEF ProviderFound, Send, ProviderAccepts, Goto, At, Active, TypeOK, Busy
    <3>2. QED
      BY <2>1, <3>1
  <2>8. QED
    BY <1>4, <2>3, <2>4, <2>5, <2>6, <2>7
    DEF Work, HandlerStep, Answer, NoProvider, NotAdmitted, SendSucceeds, SendRejected, SendUnanswered, FallBack, GiveUp
<1>5. ASSUME NEW n \in Notification, Accounted(n) PROVE Accounted(n)'
  <2>1. CASE InFlight(n)
    <3>1. PICK m \in Msg : m.n = n /\ Unfinished(m)
      BY <2>1 DEF InFlight
    <3>2. CASE m = k
      BY <1>4, <3>1, <3>2
    <3>3. CASE m # k
      BY <1>2, <3>1, <3>3 DEF InFlight, Accounted
    <3>4. QED
      BY <3>2, <3>3
  <2>2. CASE \E m \in dlq : m.n = n
    BY <2>2, WorkHistory DEF Accounted
  <2>3. CASE told[<<n, "SENT">>] + told[<<n, "FAILED">>] > 0
    <3>1. told'[<<n, "SENT">>] >= told[<<n, "SENT">>] /\ told'[<<n, "FAILED">>] >= told[<<n, "FAILED">>]
      <4>1. UNCHANGED told \/ \E to \in {"SENT", "FAILED"} : Tell(k.n, to)
        BY DEF Work, ProviderAccepts, HandlerStep, NoProvider, ProviderFound, NotAdmitted, Send, Answer, SendSucceeds,
               SendRejected, SendUnanswered, FallBack, GiveUp, Reject, Ack, output
      <4>2. QED
        BY <1>1, <1>3, <4>1 DEF Tell, More
    <3>2. told'[<<n, "SENT">>] + told'[<<n, "FAILED">>] > 0
      BY <1>3, <2>3, <3>1
    <3>3. QED
      BY <3>2 DEF Accounted
  <2>4. QED
    BY <1>5, <2>1, <2>2, <2>3 DEF Accounted
<1>6. QED
  BY <1>5, WorkHistory DEF AllAccounted, TypeOK

LEMMA AccountedStep ==
  ASSUME TypeOK, AllHeld, AllAccounted, Next, faults' = 0
  PROVE  AllAccounted'
<1>1. ASSUME NEW h \in Slot, NEW m \in Msg, Take(h, m) PROVE AllAccounted'
  <2>1. \A k \in Msg : k # m /\ Unfinished(k) => Unfinished(k)'
    BY <1>1 DEF Take, At, Less, Unfinished, TypeOK
  <2>2. m.n \notin Blank => Unfinished(m)'
    BY <1>1 DEF Take, Unfinished, TypeOK
  <2>3. UNCHANGED <<given, told, dlq>>
    BY <1>1 DEF Take, output
  <2>4. QED
    BY <2>1, <2>2, <2>3 DEF AllAccounted, Accounted, InFlight
<1>2. ASSUME NEW m \in Msg, TimerFires(m) PROVE AllAccounted'
  <2>1. \A k \in Msg : Unfinished(k) => Unfinished(k)'
    BY <1>2 DEF TimerFires, Less, More, Unfinished, TypeOK
  <2>2. QED
    BY <1>2, <2>1 DEF TimerFires, output, AllAccounted, Accounted, InFlight
<1>3. ASSUME NEW n \in Notification, Dispatch(n) PROVE AllAccounted'
  <2>1. \A k \in Msg : Unfinished(k) => Unfinished(k)'
    BY <1>3 DEF Dispatch, More, Unfinished, TypeOK
  <2>2. First(n) \in Msg /\ First(n).n = n
    BY MessageTypes DEF First
  <2>3. Unfinished(First(n))'
    BY <1>3, <2>2 DEF Dispatch, More, Unfinished, TypeOK
  <2>4. QED
    BY <1>3, <2>1, <2>2, <2>3 DEF Dispatch, output, AllAccounted, Accounted, InFlight
<1>4. QED
  BY <1>1, <1>2, <1>3, NoFault, WorkAccounted

(***************************************************************************)
(* The inductive invariant and the theorems.                               *)
(***************************************************************************)
LEMMA InitInv == Init => IInv
<1> SUFFICES ASSUME Init PROVE IInv
  OBVIOUS
<1>1. TypeOK /\ PolicyInv
  BY InitType, PolicyInit
<1>2. Alone /\ Waiting /\ InHand /\ AllHeld /\ OutcomesBounded /\ AllAccounted
  BY DEF Init, Idle, Alone, Waiting, InHand, Active, AllHeld, OutcomesBounded, AllAccounted
<1>3. CallsWithinPolicy
  BY RouterAssumption DEF Init, CallsWithinPolicy
<1>4. QED
  BY <1>1, <1>2, <1>3 DEF IInv, FaultFreeInv, FaultFree

LEMMA StepInv == ASSUME IInv, [Next]_vars PROVE IInv'
<1>1. TypeOK' /\ PolicyInv'
  BY StepType, PolicyStep DEF IInv
<1>2. CASE Next
  <2>1. ASSUME faults' = 0 PROVE FaultFree' /\ CallsWithinPolicy'
    <3>1. faults = 0 /\ TypeOK /\ PolicyInv /\ FaultFree /\ CallsWithinPolicy
      BY <1>2, <2>1, NoFault DEF IInv, FaultFreeInv
    <3>2. Alone' /\ AllHeld' /\ OutcomesBounded' /\ AllAccounted'
      BY <1>2, <2>1, <3>1, AloneStep, HeldStep, OutcomesStep, AccountedStep DEF FaultFree
    <3>3. Waiting' /\ InHand'
      BY <1>2, <2>1, <3>1, NoFault, WorkWaiting, WorkInHand, ArrivalTokens DEF FaultFree
    <3>4. CallsWithinPolicy'
      BY <1>2, <2>1, <3>1, CallsStep DEF FaultFree, CallsWithinPolicy
    <3>5. QED
      BY <3>2, <3>3, <3>4 DEF FaultFree
  <2>2. QED
    BY <1>1, <2>1 DEF IInv, FaultFreeInv
<1>3. CASE UNCHANGED vars
  BY <1>1, <1>3
  DEF vars, IInv, FaultFreeInv, FaultFree, Alone, Waiting, InHand, Active, Spent, Unsettled, AllHeld,
      OutcomesBounded, AllAccounted, Accounted, InFlight, Unfinished, CallsWithinPolicy
<1>4. QED
  BY <1>2, <1>3

LEMMA Invariance == Spec => []IInv
BY InitInv, StepInv, PTL DEF Spec

\* The retry policy holds for every configuration of attempts and fallbacks: no message is
\* tried more often than its channel allows, a notification reaches its own channel and
\* that channel's fallback only, and without faults no adapter is called more often.
THEOREM PolicyKept == Spec => []WithinPolicy
<1>1. IInv => WithinPolicy
  BY DEF IInv, PolicyInv, FaultFreeInv, ByPolicy, WithinPolicy, AttemptsWithinPolicy, CallsWithinPolicy
<1>2. QED
  BY <1>1, Invariance, PTL

\* Without faults a notification with a body stays in flight until its outcome is published
\* or its message dead-lettered.
THEOREM NothingLostSilently == Spec => []NoSilentLoss
<1>1. IInv => NoSilentLoss
  BY DEF IInv, FaultFreeInv, FaultFree, AllAccounted, NoSilentLoss
<1>2. QED
  BY <1>1, Invariance, PTL

\* Without faults a notification is told sent once at most and failed twice at most, and
\* once it is told sent nothing of it is in flight any more.
THEOREM OutcomesOnce == Spec => []OneOutcome
<1>1. ASSUME IInv PROVE OneOutcome
  <2>1. ASSUME faults = 0, NEW m \in Msg, Unfinished(m) PROVE told[<<m.n, "SENT">>] = 0
    BY <1>1, <2>1 DEF IInv, FaultFreeInv, FaultFree, Waiting, InHand, Active, Unsettled, Unfinished
  <2>2. SUFFICES ASSUME faults = 0, NEW n \in Notification
                 PROVE  /\ told[<<n, "SENT">>] <= 1
                        /\ told[<<n, "FAILED">>] <= 2
                        /\ told[<<n, "SENT">>] = 1 => ~ InFlight(n)
    BY DEF OneOutcome
  <2>3. told[<<n, "SENT">>] <= 1 /\ told[<<n, "FAILED">>] <= 2
    BY <1>1, <2>2 DEF IInv, FaultFreeInv, FaultFree, OutcomesBounded
  <2>4. ASSUME told[<<n, "SENT">>] = 1, InFlight(n) PROVE FALSE
    <3>1. PICK m \in Msg : m.n = n /\ Unfinished(m)
      BY <2>4 DEF InFlight
    <3>2. QED
      BY <2>1, <2>2, <2>4, <3>1
  <2>5. QED
    BY <2>3, <2>4
<1>2. QED
  BY <1>1, Invariance, PTL

=============================================================================
