----------------------------- MODULE CircuitBreaker -----------------------------
(***************************************************************************)
(* The circuit breaker of one provider in the channel-router-service:      *)
(* CircuitBreakerService as the delivery pipeline's overlapping sends and  *)
(* the adapter health monitor use it, and the copy of its state in the     *)
(* provider's row, which several read-modify-writes share and a restart    *)
(* loads.                                                                  *)
(*                                                                         *)
(* An instant is represented by its age, which stops growing where no      *)
(* comparison of the code can tell it from an older one.                   *)
(***************************************************************************)
EXTENDS Integers

CONSTANTS
  Call,                 \* concurrent runs of DeliveryPipelineService.execute
  Writer,               \* concurrent read-modify-writes of the provider's row
  FailureThreshold, FailureWindow, Cooldown, HalfOpenMaxAttempts, SuccessThreshold,
  Never,                \* null instants
  MaxRestarts           \* bound: restarts of the service

ASSUME BreakerAssumption ==
  /\ FailureThreshold \in Nat \ {0}
  /\ FailureWindow \in Nat
  /\ Cooldown \in Nat
  /\ HalfOpenMaxAttempts \in Nat
  /\ SuccessThreshold \in Nat \ {0}
  /\ Never \notin Nat
  /\ MaxRestarts \in Nat

VARIABLES
  entry,      \* the CircuitBreakerEntry in memory
  row,        \* the breaker columns of the provider's row
  writer,     \* state of each read-modify-write
  call,       \* state of each run of the pipeline
  healthy,    \* from now on the adapter answers with success
  probes,     \* requests let through since the breaker became HALF_OPEN
  streak,     \* successes recorded since the last recorded failure
  restarts

vars == <<entry, row, writer, call, healthy, probes, streak, restarts>>

State   == {"CLOSED", "OPEN", "HALF_OPEN"}
MaxAge  == FailureWindow + Cooldown + 1
Instant == (0 .. MaxAge) \cup {Never}
Older(t) == IF t = Never \/ t = MaxAge THEN t ELSE t + 1

Row   == [state : State, failureCount : 0 .. FailureThreshold, lastFailureAt : Instant]
Entry == [state : State, failureCount : 0 .. FailureThreshold,
          successCount : 0 .. SuccessThreshold, lastFailureAt : Instant,
          openedAt : Instant, halfOpenAttempts : {0}]

Fresh == [state |-> "CLOSED", failureCount |-> 0, successCount |-> 0,
          lastFailureAt |-> Never, openedAt |-> Never, halfOpenAttempts |-> 0]

\* What persistStateToDb copies, and what loadStateFromDb makes of it.
Stored(e) == [state |-> e.state, failureCount |-> e.failureCount,
              lastFailureAt |-> e.lastFailureAt]
Loaded(r) == [state |-> r.state, failureCount |-> r.failureCount, successCount |-> 0,
              lastFailureAt |-> r.lastFailureAt,
              openedAt |-> IF r.state = "OPEN" THEN r.lastFailureAt ELSE Never,
              halfOpenAttempts |-> 0]

Init ==
  /\ entry = Fresh
  /\ row = Stored(Fresh)
  /\ writer = [w \in Writer |-> [st |-> "idle"]]
  /\ call = [c \in Call |-> "idle"]
  /\ healthy = FALSE
  /\ probes = 0
  /\ streak = 0
  /\ restarts = 0

(***************************************************************************)
(* The state machine: each operator is the entry after the call.           *)
(***************************************************************************)
\* transitionTo
Counting(e)   == [e EXCEPT !.successCount = 0, !.halfOpenAttempts = 0]
ToOpen(e)     == [Counting(e) EXCEPT !.state = "OPEN", !.openedAt = 0]
ToHalfOpen(e) == [Counting(e) EXCEPT !.state = "HALF_OPEN"]

\* getState
CooldownElapsed(e) == e.openedAt # Never /\ e.openedAt >= Cooldown
Polled(e) == IF e.state = "OPEN" /\ CooldownElapsed(e) THEN ToHalfOpen(e) ELSE e

CanExecute(e) == \/ e.state = "CLOSED"
                 \/ e.state = "HALF_OPEN" /\ e.halfOpenAttempts < HalfOpenMaxAttempts

\* Mutant: one success is enough, whatever the threshold.
AfterSuccess_First(e) ==
  CASE e.state = "HALF_OPEN" -> Fresh
    [] e.state = "CLOSED"    -> [e EXCEPT !.failureCount = 0]
    [] OTHER                 -> e
\* Mutant: a half-open success is counted and never acted on.
AfterSuccess_Stays(e) ==
  IF e.state = "CLOSED" THEN [e EXCEPT !.failureCount = 0] ELSE e
\* recordSuccess
AfterSuccess(e) ==
  CASE e.state = "HALF_OPEN" -> IF e.successCount + 1 >= SuccessThreshold
                                THEN Fresh
                                ELSE [e EXCEPT !.successCount = @ + 1]
    [] e.state = "CLOSED"    -> [e EXCEPT !.failureCount = 0]
    [] OTHER                 -> e

WindowExpired(e) == e.lastFailureAt # Never /\ e.lastFailureAt > FailureWindow
Failures(e) == 1 + (IF WindowExpired(e) THEN 0 ELSE e.failureCount)
\* Mutant: lastFailureAt is not set.
Counted_Timeless(e) == [e EXCEPT !.failureCount = Failures(e)]
Counted(e) == [e EXCEPT !.failureCount = Failures(e), !.lastFailureAt = 0]
\* Mutant: > instead of >= at the threshold.
AfterFailure_Late(e) ==
  CASE e.state = "HALF_OPEN" -> ToOpen(e)
    [] e.state = "CLOSED"    -> IF Failures(e) > FailureThreshold
                                THEN ToOpen(Counted(e)) ELSE Counted(e)
    [] OTHER                 -> e
\* recordFailure
AfterFailure(e) ==
  CASE e.state = "HALF_OPEN" -> ToOpen(e)
    [] e.state = "CLOSED"    -> IF Failures(e) >= FailureThreshold
                                THEN ToOpen(Counted(e)) ELSE Counted(e)
    [] OTHER                 -> e

(***************************************************************************)
(* Every transition starts a persistStateToDb that nobody awaits.  Without *)
(* a free writer the copy is not made: its query may fail in any case.     *)
(***************************************************************************)
IdleWriters == {w \in Writer : writer[w].st = "idle"}

Become(e) ==
  /\ entry' = e
  /\ IF e.state = entry.state \/ IdleWriters = {}
     THEN UNCHANGED writer
     ELSE \E w \in IdleWriters : writer' = [writer EXCEPT ![w] = [st |-> "find"]]

-----------------------------------------------------------------------------

\* The check of execute (or of selectFailover); a refused run retries later.
CheckBreaker(c) ==
  /\ call[c] = "idle"
  /\ LET e == Polled(entry) IN
     /\ Become(e)
     /\ IF CanExecute(e)
        THEN /\ call' = [call EXCEPT ![c] = "acquire"]
             /\ probes' = IF e.state # "HALF_OPEN" \/ probes > HalfOpenMaxAttempts
                          THEN probes
                          ELSE (IF entry.state = "HALF_OPEN" THEN probes ELSE 0) + 1
        ELSE UNCHANGED <<call, probes>>
  /\ UNCHANGED <<row, healthy, streak, restarts>>

\* The rate limiter lets the run send after a wait.
Send(c) ==
  /\ call[c] = "acquire"
  /\ call' = [call EXCEPT ![c] = "sending"]
  /\ UNCHANGED <<entry, row, writer, healthy, probes, streak, restarts>>

NoToken(c) ==
  /\ call[c] = "acquire"
  /\ call' = [call EXCEPT ![c] = "idle"]
  /\ UNCHANGED <<entry, row, writer, healthy, probes, streak, restarts>>

RecordSuccess == /\ Become(AfterSuccess(entry))
                 /\ streak' = IF streak < SuccessThreshold THEN streak + 1 ELSE streak
RecordFailure == /\ Become(AfterFailure(entry))
                 /\ streak' = 0

SendSucceeds(c) ==
  /\ call[c] = "sending"
  /\ RecordSuccess
  /\ call' = [call EXCEPT ![c] = "idle"]
  /\ UNCHANGED <<row, healthy, probes, restarts>>

SendFails(c) ==
  /\ call[c] = "sending" /\ ~ healthy
  /\ RecordFailure
  /\ call' = [call EXCEPT ![c] = "idle"]
  /\ UNCHANGED <<row, healthy, probes, restarts>>

\* A permanent error says nothing about the provider.
SendRejected(c) ==
  /\ call[c] = "sending" /\ ~ healthy
  /\ call' = [call EXCEPT ![c] = "idle"]
  /\ UNCHANGED <<entry, row, writer, healthy, probes, streak, restarts>>

\* checkAdapter
HealthCheck ==
  /\ RecordSuccess \/ (~ healthy /\ RecordFailure)
  /\ UNCHANGED <<row, call, healthy, probes, restarts>>

(***************************************************************************)
(* Writers of the row.  save writes every column as the writer knows it.   *)
(***************************************************************************)
\* persistStateToDb has the row and copies the entry as it is by now.
CopyState(w) ==
  /\ writer[w].st = "find"
  /\ writer' = [writer EXCEPT ![w] = [st |-> "save", row |-> Stored(entry)]]
  /\ UNCHANGED <<entry, row, call, healthy, probes, streak, restarts>>

\* updateLastHealthCheck, getHealth and updateConfig have read the row.
ReadRow(w) ==
  /\ writer[w].st = "idle"
  /\ writer' = [writer EXCEPT ![w] = [st |-> "save", row |-> row]]
  /\ UNCHANGED <<entry, row, call, healthy, probes, streak, restarts>>

SaveRow(w) ==
  /\ writer[w].st = "save"
  /\ row' = writer[w].row
  /\ writer' = [writer EXCEPT ![w] = [st |-> "idle"]]
  /\ UNCHANGED <<entry, call, healthy, probes, streak, restarts>>

WriterFails(w) ==
  /\ writer[w].st # "idle"
  /\ writer' = [writer EXCEPT ![w] = [st |-> "idle"]]
  /\ UNCHANGED <<entry, row, call, healthy, probes, streak, restarts>>

\* A restart loads the row; when that fails, every breaker starts afresh.
Restart ==
  /\ restarts < MaxRestarts
  /\ restarts' = restarts + 1
  /\ entry' \in {Loaded(row), Fresh}
  /\ writer' = [w \in Writer |-> [st |-> "idle"]]
  /\ call' = [c \in Call |-> "idle"]
  /\ probes' = 0
  /\ UNCHANGED <<row, healthy, streak>>

OlderRow(r) == [r EXCEPT !.lastFailureAt = Older(@)]

Tick ==
  /\ entry' = [entry EXCEPT !.lastFailureAt = Older(@), !.openedAt = Older(@)]
  /\ row' = OlderRow(row)
  /\ writer' = [w \in Writer |-> IF writer[w].st = "save"
                                 THEN [st |-> "save", row |-> OlderRow(writer[w].row)]
                                 ELSE writer[w]]
  /\ UNCHANGED <<call, healthy, probes, streak, restarts>>

\* External: the adapter and its provider work from now on.
AdapterRecovers ==
  /\ ~ healthy
  /\ healthy' = TRUE
  /\ UNCHANGED <<entry, row, writer, call, probes, streak, restarts>>

-----------------------------------------------------------------------------

CallStep(c) ==
  \/ CheckBreaker(c) \/ Send(c) \/ NoToken(c)
  \/ SendSucceeds(c) \/ SendFails(c) \/ SendRejected(c)
WriterStep(w) == CopyState(w) \/ ReadRow(w) \/ SaveRow(w) \/ WriterFails(w)

Next ==
  \/ \E c \in Call : CallStep(c)
  \/ \E w \in Writer : WriterStep(w)
  \/ HealthCheck \/ Restart \/ Tick \/ AdapterRecovers

Spec == Init /\ [][Next]_vars

\* Time passes, messages keep coming, the rate limiter keeps giving tokens, and
\* every send is answered within its timeout.
FairSpec ==
  /\ Spec
  /\ WF_vars(Tick)
  /\ \A c \in Call : /\ WF_vars(CheckBreaker(c))
                     /\ SF_vars(Send(c))
                     /\ WF_vars(SendSucceeds(c) \/ SendFails(c) \/ SendRejected(c))

-----------------------------------------------------------------------------

\* The type invariant of the breaker, the row and its writers.
TypeOK ==
  /\ entry \in Entry
  /\ row \in Row
  /\ writer \in [Writer -> [st : {"idle", "find"}] \cup [st : {"save"}, row : Row]]
  /\ call \in [Call -> {"idle", "acquire", "sending"}]
  /\ healthy \in BOOLEAN
  /\ probes \in 0 .. HalfOpenMaxAttempts + 1
  /\ streak \in 0 .. SuccessThreshold
  /\ restarts \in 0 .. MaxRestarts

\* An open breaker always knows since when, through stale outcomes, lost updates of
\* the row and restarts: without the instant it would refuse every send for ever.
NeverWedged == entry.state = "OPEN" => entry.openedAt # Never

\* A closed breaker is always short of its threshold: no interleaving of sends,
\* health checks, stored counts and restarts lets the tripping failure pass.
NoMissedTrip == entry.state = "CLOSED" => entry.failureCount < FailureThreshold

\* A half-open breaker closes only after SuccessThreshold successes in a row,
\* whatever answers to older requests arrive meanwhile.
ClosesOnStreak ==
  [][entry.state = "HALF_OPEN" /\ entry'.state = "CLOSED" /\ restarts' = restarts
     => streak' >= SuccessThreshold]_vars

\* Once the adapter works and messages keep coming, the breaker closes for good,
\* whatever state restarts load.
Recovers == <>healthy => <>[](entry.state = "CLOSED")

=============================================================================
