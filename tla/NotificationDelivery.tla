-------------------------- MODULE NotificationDelivery --------------------------
(***************************************************************************)
(* The notification engine and the channel router together, joined by the  *)
(* deliver exchange and the status exchange: what the engine publishes is  *)
(* what the router is given, and every FAILED the router publishes becomes *)
(* a message of q.engine.status.inbound.  SENT statuses of the router are  *)
(* routed to the audit service only.                                       *)
(*                                                                         *)
(* The instances are of the modules of theorems, which extend the services'*)
(* specifications: what they prove is cited at the end as E!... and R!...  *)
(***************************************************************************)
EXTENDS Naturals, FiniteSets, TLAPS

CONSTANTS Event, Manual, Channel, Handler, Limit, MaxRetries, MaxRuns, MaxReports, MaxCrashes,
          RouterChannel,   \* channels of the router: Channel and what they fall back to
          Slot, MaxAttempts, Fallback, NoChannel, AttemptBound, MaxFaults

ASSUME DeliveryAssumption ==
  /\ Event \cap Manual = {}
  /\ IsFiniteSet(Event) /\ IsFiniteSet(Manual) /\ IsFiniteSet(Handler) /\ IsFiniteSet(Slot)
  /\ Limit \in Nat \ {0} /\ MaxRuns \in Nat \ {0}
  /\ {MaxRetries, MaxReports, MaxCrashes, AttemptBound, MaxFaults} \subseteq Nat
  /\ Channel \subseteq RouterChannel /\ NoChannel \notin RouterChannel
  /\ Fallback \in [RouterChannel -> RouterChannel \cup {NoChannel}]
  /\ \A c \in RouterChannel : Fallback[c] # c   \* updateChannel refuses it
  /\ MaxAttempts \in [RouterChannel -> 1 .. AttemptBound]

VARIABLES
  ready, run, pc, seen, status, content, published, reports, handler, crashes,   \* engine
  deliver, slot, timers, calls, accepted, told, dlq, faults                      \* router

\* External to both: the routing of a notification's messages by its channel.
HomeChannel(n) == n[2]

\* The router reports a FAILED; the engine counts them per notification.
FailedReports == [n \in ((Event \X (1 .. MaxRuns)) \cup (Manual \X {1})) \X Channel |-> told[<<n, "FAILED">>]]

E == INSTANCE EngineProofs WITH reported <- FailedReports

\* A manual send dispatches the content of the row as it was created, which has
\* none: its body is empty.
ManualRows == {n \in E!Notification : E!RunOf(n)[1] \in Manual}

R == INSTANCE RouterProofs
       WITH Notification <- E!Notification, Channel <- RouterChannel, Home <- HomeChannel,
            Blank <- ManualRows, given <- published

engineVars == <<ready, run, pc, seen, status, content, published, handler, crashes>>
routerVars == <<deliver, slot, timers, calls, accepted, told, dlq, faults>>
vars == <<engineVars, routerVars, reports>>

Init == R!Init /\ E!Init

\* Mutant: the routing key of the message is bound to no queue.
WithRouter_Unbound == UNCHANGED routerVars
\* A step of the engine: the deliver message it publishes reaches the router.
WithRouter == \/ UNCHANGED <<published, routerVars>>
              \/ \E n \in E!Notification : R!Dispatch(n)
EngineStep == WithRouter /\ E!EngineStep

\* A step of the router: the FAILED it publishes reaches the engine.
WithEngine == IF FailedReports' = FailedReports
              THEN UNCHANGED <<engineVars, reports>>
              ELSE \E n \in E!Notification : E!RouterReports(n, "FAILED")
RouterStep == R!RouterStep /\ WithEngine

Next == EngineStep \/ RouterStep

Spec == Init /\ [][Next]_vars

FairSpec ==
  /\ Spec
  /\ \A r \in E!Run : WF_vars(WithRouter /\ E!ConsumerStep(r))
  /\ \A n \in E!Notification : WF_vars(WithRouter /\ E!TaskStep(n))
  /\ \A h \in Handler : WF_vars(WithRouter /\ E!InboundStep(h))
  /\ \A h \in Slot : WF_vars(R!HandlerStep(h) /\ WithEngine)
  /\ WF_vars((\E m \in R!Msg : R!TimerFires(m)) /\ WithEngine)
  /\ WF_vars((\E h \in Slot, m \in R!Msg : R!Take(h, m)) /\ WithEngine)

-----------------------------------------------------------------------------

\* The composition is a behaviour of the engine's specification and of the router's: neither service sees an
\* environment other than the one its own specification describes.
SidesBehave == E!Spec /\ R!Spec

\* No request reaches a provider's adapter unless the engine's row has its content
\* stored and has left the steps before the dispatch, through all retries,
\* fallbacks, redeliveries and crashes of both services.
CallsHaveRows ==
  \A n \in E!Notification, c \in RouterChannel :
    calls[<<n, c>>] > 0 => /\ n \in content
                           /\ status[n] \in {"DELIVERING", "SENT", "DELIVERED", "FAILED"}

\* No work is left in either service.
AtRest == /\ \A n \in E!Notification : pc[n] \notin E!Working /\ ~ R!InFlight(n)
          /\ \A m \in E!Report : reports[m] = 0
          /\ \A h \in Handler : handler[h].st = "idle"
          /\ \A h \in Slot : slot[h].st = "idle"

\* The two services come to rest together: no queue, timer or handler of either
\* waits on the other for ever.
ComesToRest == <>[]AtRest

-----------------------------------------------------------------------------
(***************************************************************************)
(* Theorems.  Each service's own specification holds of the composition,   *)
(* so that what EngineProofs and RouterProofs prove of one service carries *)
(* over, and facts about both are facts about one state.                   *)
(***************************************************************************)

LEMMA EngineConstants == E!EngineAssumption
BY DeliveryAssumption DEF IsFiniteSet, E!IsFiniteSet

LEMMA RouterConstants == R!RouterAssumption
<1>1. \A n \in E!Notification : HomeChannel(n) \in RouterChannel
  BY DeliveryAssumption DEF HomeChannel, E!Notification
<1>2. QED
  BY <1>1, DeliveryAssumption DEF IsFiniteSet, R!IsFiniteSet

\* A step of the engine is a step of its specification; the router sees a message
\* dispatched, or nothing.
LEMMA EngineSide == EngineStep => [E!Next]_E!vars /\ [R!Next]_R!vars
BY DEF EngineStep, WithRouter, E!Next, R!Next, R!vars, routerVars

\* A step of the router is a step of its specification; the engine sees a FAILED reported,
\* or nothing.
LEMMA RouterSide == RouterStep => [E!Next]_E!vars /\ [R!Next]_R!vars
BY DEF RouterStep, WithEngine, E!Next, R!Next, E!vars, engineVars, E!engineVars

LEMMA Stutter == UNCHANGED vars => UNCHANGED E!vars /\ UNCHANGED R!vars
BY DEF vars, engineVars, routerVars, E!vars, E!engineVars, R!vars, FailedReports

\* The composition implements both services' specifications: what the engine publishes is all
\* the router is given, and what the router reports is all the engine is told.
THEOREM JoinedSides == Spec => SidesBehave
<1>1. Init => E!Init /\ R!Init
  BY DEF Init
<1>2. [Next]_vars => [E!Next]_E!vars /\ [R!Next]_R!vars
  BY EngineSide, RouterSide, Stutter DEF Next
<1>3. QED
  BY <1>1, <1>2, PTL DEF Spec, SidesBehave, E!Spec, R!Spec

\* Through retries, fallbacks, redeliveries and crashes of both services, a provider is only
\* called for a notification whose content is stored and whose row is past the hand-over: the
\* router calls only for what it was given, and that is what the engine published.
THEOREM JoinedCalls == Spec => []CallsHaveRows
<1>1. E!DispatchedIsRendered /\ R!IInv => CallsHaveRows
  BY DEF E!DispatchedIsRendered, R!IInv, R!PolicyInv, CallsHaveRows
<1>2. E!Spec => []E!DispatchedIsRendered
  BY E!DispatchSafe, EngineConstants
<1>3. R!Spec => []R!IInv
  BY R!Invariance, RouterConstants
<1>4. QED
  BY <1>1, <1>2, <1>3, JoinedSides, PTL DEF SidesBehave

\* What each service guarantees alone it guarantees joined: rows move along the lifecycle up
\* to lost updates, and deliveries keep the retry policy, are not lost silently and have one
\* outcome.
THEOREM JoinedServices ==
  Spec => E!LifecycleUpToLostUpdates /\ [](R!WithinPolicy /\ R!NoSilentLoss /\ R!OneOutcome)
<1>1. E!Spec => E!LifecycleUpToLostUpdates
  BY E!LifecycleRefinement, EngineConstants
<1>2. R!Spec => [](R!WithinPolicy /\ R!NoSilentLoss /\ R!OneOutcome)
  <2>1. R!Spec => []R!WithinPolicy
    BY R!PolicyKept, RouterConstants
  <2>2. R!Spec => []R!NoSilentLoss
    BY R!NothingLostSilently, RouterConstants
  <2>3. R!Spec => []R!OneOutcome
    BY R!OutcomesOnce, RouterConstants
  <2>4. QED
    BY <2>1, <2>2, <2>3, PTL
<1>3. QED
  BY <1>1, <1>2, JoinedSides DEF SidesBehave
=============================================================================
