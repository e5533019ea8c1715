-------------------------- MODULE ServiceBreakers --------------------------
(***************************************************************************)
(* The two circuit breakers without a stored state: the engine's, around   *)
(* the client that renders templates, and the bulk worker's, around its    *)
(* client of the event ingestion.  Calls overlap: each is admitted in one  *)
(* state of the breaker and answered in another.                           *)
(***************************************************************************)
EXTENDS Naturals, FiniteSets

CONSTANTS
  Call,
  Threshold, Cooldown,
  MAX_RETRIES          \* attempts of one render

VARIABLES
  owner,               \* whose breaker it is: "engine" or "bulk", "none" before the first call
  state, consecutiveFailures,
  age,                 \* time since lastFailureTime, at most Cooldown
  call,                \* calls admitted and not yet answered
  healthy              \* the called service answers well from here on

breakerVars == <<owner, state, consecutiveFailures, age, call, healthy>>

State == {"CLOSED", "OPEN", "HALF_OPEN"}
Idle == [pc |-> "idle"]

BreakerInit ==
  /\ owner = "none"
  /\ state = "CLOSED" /\ consecutiveFailures = 0 /\ age = Cooldown
  /\ call = [c \in Call |-> Idle]
  /\ healthy = FALSE

Admitted == state # "OPEN" \/ age = Cooldown

\* execute, canExecute: the first call after the cooldown finds the breaker half-open; a
\* call that is refused fails without a trace in the breaker.
Begin(c) ==
  /\ call[c] = Idle
  /\ Admitted
  /\ state' = IF state = "OPEN" THEN "HALF_OPEN" ELSE state
  /\ call' = [call EXCEPT ![c] = [pc |-> "call", attempt |-> 1, early |-> FALSE]]
  /\ owner' \in IF owner = "none" THEN {"engine", "bulk"} ELSE {owner}
  /\ UNCHANGED <<consecutiveFailures, age, healthy>>

\* onSuccess, recordSuccess: in every state.
AfterSuccess == state' = "CLOSED" /\ consecutiveFailures' = 0

\* Mutant: one failure too many is allowed.
Trips_Late(n) == state = "HALF_OPEN" \/ n > Threshold

\* onFailure, recordFailure: half-open at the first, closed at the threshold.  In the
\* open state the bulk worker's may set OPEN once more.
Trips(n) == state = "HALF_OPEN" \/ n >= Threshold

Saturated(n) == IF n > Threshold THEN Threshold + 1 ELSE n

AfterFailure ==
  LET n == consecutiveFailures + 1
  IN /\ consecutiveFailures' = Saturated(n)
     /\ age' = 0
     /\ state' = IF state # "OPEN" /\ Trips(n) THEN "OPEN" ELSE state

Answered(c) == [call EXCEPT ![c] = Idle]
Opened(f) == [d \in Call |-> IF f[d] # Idle /\ state # "OPEN" /\ state' = "OPEN" THEN [f[d] EXCEPT !.early = TRUE] ELSE f[d]]

Success(c) ==
  /\ call[c].pc = "call"
  /\ AfterSuccess
  /\ call' = Answered(c)
  /\ UNCHANGED <<owner, age, healthy>>

\* executeRender retries server errors and timeouts after a pause.
Retry(c) ==
  /\ owner = "engine"
  /\ call[c].pc = "call" /\ ~healthy
  /\ call[c].attempt < MAX_RETRIES
  /\ call' = [call EXCEPT ![c].attempt = @ + 1]
  /\ UNCHANGED <<owner, state, consecutiveFailures, age, healthy>>

\* A failure that counts: the engine's last server error or timeout, or any answer between
\* 400 and 499 other than 404; the worker's server errors, timeouts and exceptions.
Failure(c) ==
  /\ call[c].pc = "call" /\ ~healthy
  /\ AfterFailure
  /\ call' = Opened(Answered(c))
  /\ UNCHANGED <<owner, healthy>>

\* One that does not: a missing template (NES-019), a row the ingestion refuses.
Refused(c) ==
  /\ call[c].pc = "call"
  /\ call' = Answered(c)
  /\ UNCHANGED <<owner, state, consecutiveFailures, age, healthy>>

Tick ==
  /\ age < Cooldown
  /\ age' = age + 1
  /\ UNCHANGED <<owner, state, consecutiveFailures, call, healthy>>

\* The environment: the called service recovers for good.
Recover ==
  /\ ~healthy
  /\ healthy' = TRUE
  /\ UNCHANGED <<owner, state, consecutiveFailures, age, call>>

BreakerNext ==
  \/ \E c \in Call : Begin(c) \/ Success(c) \/ Retry(c) \/ Failure(c) \/ Refused(c)
  \/ Tick
  \/ Recover

\* Time passes, requests come, and some of the calls of a healthy service succeed.
BreakerFairness ==
  /\ WF_breakerVars(Tick)
  /\ \A c \in Call : WF_breakerVars(Begin(c)) /\ SF_breakerVars(Success(c))

BreakerSpec == BreakerInit /\ [][BreakerNext]_breakerVars /\ BreakerFairness

-----------------------------------------------------------------------------

BreakerTypeOK ==
  /\ state \in State
  /\ consecutiveFailures \in 0 .. Threshold + 1
  /\ age \in 0 .. Cooldown
  /\ \A c \in Call : call[c] = Idle \/ call[c].attempt \in 1 .. MAX_RETRIES

\* A closed breaker is short of its threshold, although failures of calls admitted in
\* earlier states are counted into the present one.
NoMissedTrip == state = "CLOSED" => consecutiveFailures < Threshold

\* An open breaker is left only after a full cooldown without failures, or by the success
\* of a call that had been admitted before it opened.
CooldownRespected ==
  state = "OPEN" /\ state' # "OPEN" =>
    \/ age = Cooldown /\ state' = "HALF_OPEN"
    \/ \E c \in Call : call[c] # Idle /\ call[c].early /\ call'[c] = Idle

\* A closed breaker is short of its threshold over calls that overlap its changes of state, and an open one is
\* left after its cooldown or by a call admitted before it opened.
BreakersSafe == [](BreakerTypeOK /\ NoMissedTrip) /\ [][CooldownRespected]_breakerVars

\* Once the service is healthy the breaker closes for good.
Recovers == healthy ~> [](state = "CLOSED")
=============================================================================
