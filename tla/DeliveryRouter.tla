----------------------------- MODULE DeliveryRouter -----------------------------
(***************************************************************************)
(* The channel-router-service: delivery consumers running                  *)
(* DeliveryPipelineService.execute, in-memory retry timers, channel        *)
(* fallback, the dead-letter queue and the statuses it publishes.  The     *)
(* circuit breaker and the rate limiter only answer yes or no here.        *)
(*                                                                         *)
(* A message may be in flight more than once: a crash or a lost broker     *)
(* connection gives unacknowledged messages back to the queue.             *)
(***************************************************************************)
EXTENDS Naturals, FiniteSets

CONSTANTS
  Notification,   \* notifications the engine may dispatch
  Channel,        \* channel types
  Home(_),        \* the channel a notification is dispatched on
  Blank,          \* notifications dispatched with an empty content.body
  Slot,           \* concurrent message handlers (consumers times prefetch)
  MaxAttempts,    \* channel -> retry*Max of the configuration
  Fallback,       \* channel -> channel of its fallbackChannelId, or NoChannel
  NoChannel,
  AttemptBound,   \* bound: attempt numbers a message of the model can carry
  MaxFaults       \* bound: crashes, lost connections and failed republishes

ASSUME RouterAssumption ==
  /\ IsFiniteSet(Slot)
  /\ NoChannel \notin Channel
  /\ \A n \in Notification : Home(n) \in Channel
  /\ Fallback \in [Channel -> Channel \cup {NoChannel}]
  /\ \A c \in Channel : Fallback[c] # c   \* updateChannel refuses it
  /\ AttemptBound \in Nat
  /\ MaxAttempts \in [Channel -> 1 .. AttemptBound]
  /\ MaxFaults \in Nat

VARIABLES
  given,      \* notifications dispatched so far
  deliver,    \* message -> copies waiting in the q.deliver.* queues
  slot,       \* state of each handler
  timers,     \* message -> setTimeouts that will republish it
  calls,      \* <<n, channel>> -> requests made to an adapter
  accepted,   \* <<n, channel>> -> requests a provider carried out
  told,       \* <<n, status>> -> delivery statuses published
  dlq,        \* messages dead-lettered
  faults

vars == <<given, deliver, slot, timers, calls, accepted, told, dlq, faults>>

Msg == [n : Notification, ch : Channel, attempt : 1 .. AttemptBound, fb : BOOLEAN]

First(n) == [n |-> n, ch |-> Home(n), attempt |-> 1, fb |-> FALSE]

Idle == [st |-> "idle"]

\* A handler at work: where it awaits, its message, whether the broker still
\* waits for its acknowledgement, and whether the provider has carried out the
\* current request.
Awaits == {"resolve", "acquire", "call", "exhausted", "ack"}
Busy   == [st : Awaits, m : Msg, held : BOOLEAN, done : BOOLEAN]

More(bag, m) == [bag EXCEPT ![m] = @ + 1]
Less(bag, m) == [bag EXCEPT ![m] = @ - 1]

At(h, st)   == slot[h].st = st
Goto(h, st) == slot' = [slot EXCEPT ![h].st = st]
Tell(n, to) == told' = More(told, <<n, to>>)

Init ==
  /\ given = {}
  /\ deliver = [m \in Msg |-> 0]
  /\ slot = [h \in Slot |-> Idle]
  /\ timers = [m \in Msg |-> 0]
  /\ calls = [p \in Notification \X Channel |-> 0]
  /\ accepted = [p \in Notification \X Channel |-> 0]
  /\ told = [p \in Notification \X {"SENT", "FAILED"} |-> 0]
  /\ dlq = {}
  /\ faults = 0

history == <<calls, accepted>>
output  == <<told, dlq>>

-----------------------------------------------------------------------------

\* External: the engine publishes a deliver message.
Dispatch(n) ==
  /\ n \notin given
  /\ given' = given \cup {n}
  /\ deliver' = More(deliver, First(n))
  /\ UNCHANGED <<slot, timers, history, output, faults>>

\* handleMessage and the validation of execute: a message without a body is
\* only logged.
Take(h, m) ==
  /\ At(h, "idle")
  /\ deliver[m] > 0
  /\ deliver' = Less(deliver, m)
  /\ slot' = [slot EXCEPT ![h] = [st |-> IF m.n \in Blank THEN "ack" ELSE "resolve",
                                  m |-> m, held |-> TRUE, done |-> FALSE]]
  /\ UNCHANGED <<given, timers, history, output, faults>>

(***************************************************************************)
(* Retries: shouldRetry, and the setTimeout with the incremented message.  *)
(***************************************************************************)
ShouldRetry(m) == m.attempt < MaxAttempts[m.ch]

NextAttempt_Same(m) == m                                      \* mutant: not incremented
NextAttempt(m) == [m EXCEPT !.attempt = @ + 1]

\* Mutant: handleRetryOrFallback forgets the terminal failure.
RetryOrExhaust_Forget(h) ==
  /\ Goto(h, "ack")
  /\ timers' = IF ShouldRetry(slot[h].m) THEN More(timers, NextAttempt(slot[h].m)) ELSE timers

RetryOrExhaust(h) ==
  IF ShouldRetry(slot[h].m)
  THEN Goto(h, "ack") /\ timers' = More(timers, NextAttempt(slot[h].m))
  ELSE Goto(h, "exhausted") /\ UNCHANGED timers

\* resolveProvider finds no active provider (in failover mode: none whose
\* circuit is not open).
NoProvider(h) ==
  /\ At(h, "resolve")
  /\ Tell(slot[h].m.n, "FAILED")
  /\ Goto(h, "ack")
  /\ UNCHANGED <<given, deliver, timers, history, dlq, faults>>

ProviderFound(h) ==
  /\ At(h, "resolve")
  /\ Goto(h, "acquire")
  /\ UNCHANGED <<given, deliver, timers, history, output, faults>>

\* The circuit is open, or no token within five seconds.
NotAdmitted(h) ==
  /\ slot[h].st \in {"resolve", "acquire"}
  /\ RetryOrExhaust(h)
  /\ UNCHANGED <<given, deliver, history, output, faults>>

Send(h) ==
  /\ At(h, "acquire")
  /\ slot' = [slot EXCEPT ![h].st = "call", ![h].done = FALSE]
  /\ calls' = More(calls, <<slot[h].m.n, slot[h].m.ch>>)
  /\ UNCHANGED <<given, deliver, timers, accepted, output, faults>>

\* External: the provider carries out the request.
ProviderAccepts(h) ==
  /\ At(h, "call") /\ ~ slot[h].done
  /\ slot' = [slot EXCEPT ![h].done = TRUE]
  /\ accepted' = More(accepted, <<slot[h].m.n, slot[h].m.ch>>)
  /\ UNCHANGED <<given, deliver, timers, calls, output, faults>>

SendSucceeds(h) ==
  /\ At(h, "call") /\ slot[h].done
  /\ Tell(slot[h].m.n, "SENT")
  /\ Goto(h, "ack")
  /\ UNCHANGED <<given, deliver, timers, history, dlq, faults>>

\* A permanent error is not retried, not dead-lettered and has no fallback.
SendRejected(h) ==
  /\ At(h, "call") /\ ~ slot[h].done
  /\ Tell(slot[h].m.n, "FAILED")
  /\ Goto(h, "ack")
  /\ UNCHANGED <<given, deliver, timers, history, dlq, faults>>

\* A timeout, a server error or an unreachable adapter: the answer is retryable,
\* also when the provider has carried out the request.
SendUnanswered(h) ==
  /\ At(h, "call")
  /\ RetryOrExhaust(h)
  /\ UNCHANGED <<given, deliver, history, output, faults>>

(***************************************************************************)
(* handleTerminalFailure.                                                  *)
(***************************************************************************)
FallbackOf_Chained(m) ==        \* mutant: isFallback is not set on the new message
  [n |-> m.n, ch |-> Fallback[m.ch], attempt |-> 1, fb |-> FALSE]
FallbackOf(m) == [n |-> m.n, ch |-> Fallback[m.ch], attempt |-> 1, fb |-> TRUE]

FallBack(h) ==
  LET m == slot[h].m IN
  /\ At(h, "exhausted")
  /\ ~ m.fb /\ Fallback[m.ch] # NoChannel
  /\ deliver' = More(deliver, FallbackOf(m))
  /\ Tell(m.n, "FAILED")
  /\ Goto(h, "ack")
  /\ UNCHANGED <<given, timers, history, dlq, faults>>

\* No fallback: the message is one already, none is configured, or the channel it
\* names is inactive at this moment.
GiveUp(h) ==
  /\ At(h, "exhausted")
  /\ Tell(slot[h].m.n, "FAILED")
  /\ dlq' = dlq \cup {slot[h].m}
  /\ Goto(h, "ack")
  /\ UNCHANGED <<given, deliver, timers, history, faults>>

\* A database error while the provider or the fallback channel is looked up: the
\* message is rejected to the dead-letter exchange and no status is published.
Reject(h) ==
  /\ slot[h].st \in {"resolve", "exhausted"}
  /\ dlq' = IF slot[h].held THEN dlq \cup {slot[h].m} ELSE dlq
  /\ slot' = [slot EXCEPT ![h] = Idle]
  /\ UNCHANGED <<given, deliver, timers, history, told, faults>>

Ack(h) ==
  /\ At(h, "ack")
  /\ slot' = [slot EXCEPT ![h] = Idle]
  /\ UNCHANGED <<given, deliver, timers, history, output, faults>>

\* Mutant: the timer keeps firing (setInterval).
TimerFires_Again(m) ==
  /\ timers[m] > 0
  /\ deliver[m] < 2
  /\ deliver' = More(deliver, m)
  /\ UNCHANGED <<given, slot, timers, history, output, faults>>

\* The delay is over and the message is republished.
TimerFires(m) ==
  /\ timers[m] > 0
  /\ timers' = Less(timers, m)
  /\ deliver' = More(deliver, m)
  /\ UNCHANGED <<given, slot, history, output, faults>>

(***************************************************************************)
(* Faults.                                                                 *)
(***************************************************************************)
Fault == faults < MaxFaults /\ faults' = faults + 1

\* The republish of a retry is refused: the error is logged and the retry gone.
RetryLost(m) ==
  /\ Fault
  /\ timers[m] > 0
  /\ timers' = Less(timers, m)
  /\ UNCHANGED <<given, deliver, slot, history, output>>

Unacked(m) == {h \in Slot : slot[h] # Idle /\ slot[h].held /\ slot[h].m = m}
Requeued   == [m \in Msg |-> deliver[m] + Cardinality(Unacked(m))]

Crash ==
  /\ Fault
  /\ deliver' = Requeued
  /\ slot' = [h \in Slot |-> Idle]
  /\ timers' = [m \in Msg |-> 0]
  /\ UNCHANGED <<given, history, output>>

\* The connection to the broker drops: it redelivers what was not acknowledged,
\* while the handlers carry on.
ConnectionLost ==
  /\ Fault
  /\ deliver' = Requeued
  /\ slot' = [h \in Slot |-> IF slot[h] = Idle THEN Idle ELSE [slot[h] EXCEPT !.held = FALSE]]
  /\ UNCHANGED <<given, timers, history, output>>

-----------------------------------------------------------------------------

Answer(h) == SendSucceeds(h) \/ SendRejected(h) \/ SendUnanswered(h)

HandlerStep(h) ==
  \/ NoProvider(h) \/ ProviderFound(h) \/ NotAdmitted(h)
  \/ Send(h) \/ Answer(h)
  \/ FallBack(h) \/ GiveUp(h) \/ Reject(h) \/ Ack(h)

\* The router and its providers; Dispatch is the engine's.
RouterStep ==
  \/ \E h \in Slot : HandlerStep(h) \/ ProviderAccepts(h)
  \/ \E h \in Slot, m \in Msg : Take(h, m)
  \/ \E m \in Msg : TimerFires(m) \/ RetryLost(m)
  \/ Crash \/ ConnectionLost

Next == RouterStep \/ \E n \in Notification : Dispatch(n)

Spec == Init /\ [][Next]_vars

\* Handlers run, their calls answer within their timeouts, timers fire, and some
\* free handler takes some waiting message.
FairSpec ==
  /\ Spec
  /\ \A h \in Slot : WF_vars(HandlerStep(h))
  /\ WF_vars(\E m \in Msg : TimerFires(m))
  /\ WF_vars(\E h \in Slot, m \in Msg : Take(h, m))

-----------------------------------------------------------------------------

\* The type invariant of the queues, the handlers and the published statuses.
TypeOK ==
  /\ given \subseteq Notification
  /\ deliver \in [Msg -> Nat]
  /\ slot \in [Slot -> {Idle} \cup Busy]
  /\ timers \in [Msg -> Nat]
  /\ calls \in [Notification \X Channel -> Nat]
  /\ accepted \in [Notification \X Channel -> Nat]
  /\ told \in [Notification \X {"SENT", "FAILED"} -> Nat]
  /\ dlq \subseteq Msg
  /\ faults \in 0 .. MaxFaults

Pending(m) == \/ deliver[m] > 0
              \/ timers[m] > 0
              \/ \E h \in Slot : slot[h] # Idle /\ slot[h].m = m
Unfinished(m) == \/ deliver[m] > 0
                 \/ timers[m] > 0
                 \/ \E h \in Slot : slot[h].st \notin {"idle", "ack"} /\ slot[h].m = m
InFlight(n)   == \E m \in Msg : m.n = n /\ Unfinished(m)

\* Without faults no adapter is called more often for a notification than the
\* policy of its channel allows, the fallback's calls included.
CallsWithinPolicy ==
  faults = 0 => \A n \in Notification, c \in Channel : calls[<<n, c>>] <= MaxAttempts[c]

\* Whatever is redelivered or duplicated, no message in flight ever has an attempt
\* number beyond its channel's policy.
AttemptsWithinPolicy == \A m \in Msg : Pending(m) => m.attempt <= MaxAttempts[m.ch]

\* One fallback level: whatever the channels' fallbacks form (chains, cycles), a
\* notification only ever reaches its own channel and that channel's fallback.
SingleFallback ==
  \A n \in Notification, c \in Channel :
    calls[<<n, c>>] > 0 => c \in {Home(n), Fallback[Home(n)]}

\* A message is tried as often as its channel's policy allows and no oftener, by one
\* fallback at most, over redeliveries and timers that outlive their handler.
WithinPolicy == TypeOK /\ AttemptsWithinPolicy /\ SingleFallback /\ CallsWithinPolicy

\* Without faults a notification that has a body is never dropped silently: it is in
\* flight, its outcome was published, or it is in the dead-letter queue.
Accounted(n) == \/ InFlight(n)
                \/ told[<<n, "SENT">>] + told[<<n, "FAILED">>] > 0
                \/ \E m \in dlq : m.n = n
NoSilentLoss == faults = 0 => \A n \in given \ Blank : Accounted(n)

\* Without faults the outcome is published once per channel, and nothing is sent
\* after a success.
OneOutcome ==
  faults = 0 => \A n \in Notification :
    /\ told[<<n, "SENT">>] <= 1
    /\ told[<<n, "FAILED">>] <= 2
    /\ told[<<n, "SENT">>] = 1 => ~ InFlight(n)

=============================================================================
