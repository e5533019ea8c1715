------------------------------ MODULE Adapters ------------------------------
\* The provider adapters (Braze, WhatsApp, AWS SES, Mailgun) between the channel router and the
\* providers: a send in its attempts, the Braze profile sync, the classification of answers.
EXTENDS Naturals, Sequences

CONSTANTS
  Delivery,            \* sends of the router
  Address,             \* recipient addresses; AddressOf gives each delivery's
  AddressOf,
  Adapter,             \* the adapters asked
  MaxTries,         \* bound: attempts of the router for one send
  ttl,                 \* profileCacheTtlSeconds, in ticks
  MaxClock             \* bound: the clock

VARIABLES send, attempts, tracked, cached, taken, silent, untraced, clock

adapterVars == <<send, attempts, tracked, cached, taken, silent, untraced, clock>>

NotYet == 0
Attempt == 1..MaxTries
NoCall == [stage |-> "none", hit |-> FALSE, at |-> NotYet]

SendTypes ==
  /\ send \in [Delivery -> [stage: {"idle", "waiting", "sent", "failed", "dead"}, provider: Adapter \cup {"none"},
                            attempt: 0..MaxTries, media: {"none", "fits", "unfit"}]]
  /\ attempts \in [Delivery \X Attempt -> [stage: {"none", "syncing", "sending", "over"}, hit: BOOLEAN, at: 0..MaxClock]]
  /\ tracked \in [Address -> 0..MaxClock] /\ cached \in [Address -> 0..MaxClock + ttl]
  /\ taken \in [Delivery -> Nat] /\ silent \in [Delivery -> Nat] /\ untraced \subseteq Delivery
  /\ clock \in 1..MaxClock

AdaptersInit ==
  /\ send = [d \in Delivery |-> [stage |-> "idle", provider |-> "none", attempt |-> 0, media |-> "none"]]
  /\ attempts = [c \in Delivery \X Attempt |-> NoCall]
  /\ tracked = [a \in Address |-> NotYet] /\ cached = [a \in Address |-> NotYet]
  /\ taken = [d \in Delivery |-> 0] /\ silent = [d \in Delivery |-> 0] /\ untraced = {}
  /\ clock = 1

-----------------------------------------------------------------------------
\* The router's side.

\* An attempt's call: Braze looks up the profile first, the others send at once.
Ensured(d, p) ==
  LET hit == cached[AddressOf[d]] > clock IN
    IF p = "braze" /\ ~hit THEN [stage |-> "syncing", hit |-> FALSE, at |-> clock]
    ELSE [stage |-> "sending", hit |-> hit, at |-> clock]

Ask(d, p, media) ==
  /\ send[d].attempt < MaxTries
  /\ LET n == send[d].attempt + 1 IN
       /\ send' = [send EXCEPT ![d] = [stage |-> "waiting", provider |-> p, attempt |-> n, media |-> media]]
       /\ attempts' = [attempts EXCEPT ![<<d, n>>] = Ensured(d, p)]
  /\ UNCHANGED <<tracked, cached, taken, silent, untraced, clock>>

\* Attachments matter to the mail adapters only.
MediaOf(p) == IF p \in {"ses", "mailgun"} THEN {"none", "fits", "unfit"} ELSE {"none"}
FirstTry(d) == send[d].stage = "idle" /\ \E p \in Adapter : \E media \in MediaOf(p) : Ask(d, p, media)

\* Only a result marked retryable is tried again.
Retry(d) == send[d].stage = "failed" /\ Ask(d, send[d].provider, send[d].media)

\* The router waits no longer; the adapter's call goes on.
Timeout(d) ==
  /\ send[d].stage = "waiting"
  /\ send' = [send EXCEPT ![d].stage = "failed"]
  /\ silent' = [silent EXCEPT ![d] = @ + 1]
  /\ UNCHANGED <<attempts, tracked, cached, taken, untraced, clock>>

\* The answer of a call reaches the router if it still waits for that attempt.
Answered(d, n, stage) ==
  /\ attempts' = [attempts EXCEPT ![<<d, n>>].stage = "over"]
  /\ send' = IF send[d].stage = "waiting" /\ send[d].attempt = n THEN [send EXCEPT ![d].stage = stage] ELSE send

-----------------------------------------------------------------------------
\* The adapter's side.

\* Mutant: the cache is filled before the profile is tracked.
EnsureProfile_CachesFirst(d, n) ==
  LET a == AddressOf[d] IN
    /\ attempts[<<d, n>>].stage = "syncing"
    /\ cached' = [cached EXCEPT ![a] = clock + ttl]
    /\ \/ /\ tracked' = [tracked EXCEPT ![a] = clock]
          /\ attempts' = [attempts EXCEPT ![<<d, n>>].stage = "sending"]
          /\ UNCHANGED send
       \/ Answered(d, n, "dead") /\ UNCHANGED tracked
    /\ UNCHANGED <<taken, silent, untraced, clock>>

\* A failing track is no error of the provider to the classifier: not retryable, whatever its cause.
EnsureProfile(d, n) ==
  LET a == AddressOf[d] IN
    /\ attempts[<<d, n>>].stage = "syncing"
    /\ \/ /\ tracked' = [tracked EXCEPT ![a] = clock]
          /\ cached' = [cached EXCEPT ![a] = clock + ttl]
          /\ attempts' = [attempts EXCEPT ![<<d, n>>].stage = "sending"]
          /\ UNCHANGED send
       \/ Answered(d, n, "dead") /\ UNCHANGED <<tracked, cached>>
    /\ UNCHANGED <<taken, silent, untraced, clock>>

\* What comes of the call to the provider: "gateway" is a 502, "expired" a 504, "down" another 5xx,
\* "lost" an answer that never came, "errors" Braze's 201 with errors, "generic" Meta's code 135000.
Outcome == {"accepted", "errors", "generic", "throttled", "down", "gateway", "expired", "refused", "unreachable", "lost"}
Outcomes(p) == Outcome \ ((IF p = "braze" THEN {} ELSE {"errors"}) \cup (IF p = "whatsapp" THEN {} ELSE {"generic"}))

Unanswered == {"unreachable", "lost"}

\* Braze lists 500 and 503 alone.
BrazeRetries == Unanswered \cup {"throttled", "down"}

\* Meta's own code decides before the status does.
MetaCodeRetries == {"throttled", "generic"}
MetaStatusRetries == {"throttled", "down", "gateway"}
MetaRetries == Unanswered \cup MetaCodeRetries \cup MetaStatusRetries

\* SES takes every status from 500 on for a fault of the service.
SesRetries == Unanswered \cup {"throttled", "down", "gateway", "expired"}

MailgunRetries == Unanswered \cup {"throttled", "down", "gateway"}

Retryable(p, outcome) ==
  outcome \in CASE p = "braze" -> BrazeRetries [] p = "whatsapp" -> MetaRetries
                [] p = "ses" -> SesRetries [] p = "mailgun" -> MailgunRetries

Result(p, outcome) ==
  IF outcome = "accepted" THEN "sent" ELSE IF Retryable(p, outcome) THEN "failed" ELSE "dead"

\* An attachment that is too large or cannot be downloaded is skipped, the mail is sent.
Attached(media) == IF media = "fits" THEN <<media>> ELSE <<>>

\* The notification's id is in the headers of the mail; SES takes the headers of a mail without
\* attachments for tags of the event stream.
Traced(p, media) == p # "ses" \/ Attached(media) # <<>>

\* A lost answer leaves open whether the message was taken.
Taken(outcome) == IF outcome = "lost" THEN {0, 1} ELSE IF outcome = "accepted" THEN {1} ELSE {0}

CallProvider(d, n) ==
  /\ attempts[<<d, n>>].stage = "sending"
  /\ \E outcome \in Outcomes(send[d].provider) : \E k \in Taken(outcome) :
       /\ taken' = [taken EXCEPT ![d] = @ + k]
       /\ untraced' = IF k = 1 /\ ~Traced(send[d].provider, send[d].media) THEN untraced \cup {d} ELSE untraced
       /\ silent' = [silent EXCEPT ![d] = @ + IF outcome = "lost" THEN 1 ELSE 0]
       /\ Answered(d, n, Result(send[d].provider, outcome))
  /\ UNCHANGED <<tracked, cached, clock>>

\* The cache of profiles is bounded; its oldest entries leave it.
Evict(a) ==
  /\ cached[a] # NotYet
  /\ cached' = [cached EXCEPT ![a] = NotYet]
  /\ UNCHANGED <<send, attempts, tracked, taken, silent, untraced, clock>>

ClockTick == clock < MaxClock /\ clock' = clock + 1
        /\ UNCHANGED <<send, attempts, tracked, cached, taken, silent, untraced>>

AdaptersNext ==
  \/ \E d \in Delivery : FirstTry(d) \/ Retry(d) \/ Timeout(d)
  \/ \E d \in Delivery, n \in Attempt : EnsureProfile(d, n) \/ CallProvider(d, n)
  \/ \E a \in Address : Evict(a)
  \/ ClockTick

AdaptersSpec == AdaptersInit /\ [][AdaptersNext]_adapterVars

-----------------------------------------------------------------------------

\* A provider takes one message per send, and one more for each answer the router never had.
DuplicatesNeedSilence == \A d \in Delivery : taken[d] <= 1 + silent[d]

\* What the router takes for sent was taken by the provider: Braze's 201 with errors is none.
SentIsAccepted == \A d \in Delivery : send[d].stage = "sent" => taken[d] >= 1

\* A message goes to Braze only for a profile that was tracked, at most ttl before the call.
ProfileFirst ==
  \A d \in Delivery, n \in Attempt :
    send[d].provider = "braze" /\ attempts[<<d, n>>].stage = "sending"
      => tracked[AddressOf[d]] # NotYet /\ tracked[AddressOf[d]] + ttl >= attempts[<<d, n>>].at

\* A mail no webhook event can be traced to is one SES got without attachments.
UntracedIsBare == \A d \in untraced : send[d].provider = "ses" /\ send[d].media # "fits"

\* What the router takes for sent was taken by the provider, a provider takes one message per send and one more
\* for each answer the router never had, a message goes to Braze only for a profile tracked before, and a
\* mail no webhook can be traced to is one SES got without attachments.
SendsAccounted == SendTypes /\ SentIsAccepted /\ DuplicatesNeedSilence /\ ProfileFirst /\ UntracedIsBare
=============================================================================
