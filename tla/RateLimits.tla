----------------------------- MODULE RateLimits -----------------------------
(***************************************************************************)
(* The three rate limiters: the router's token bucket per provider, the    *)
(* bulk worker's token bucket, and the sliding window of the event         *)
(* ingestion. Callers that find no token sleep and then look again; timers *)
(* may be late.                                                            *)
(*                                                                         *)
(* Time is counted in ticks and tokens in fractions of Unit, RefillRate of *)
(* which arrive in a tick.                                                 *)
(***************************************************************************)
EXTENDS Naturals, Integers, Sequences, FiniteSets

CONSTANTS
  Caller,
  Unit, RefillRate, Capacity,  \* Capacity in whole tokens
  TimeoutTicks,                \* the longest wait a caller of the router accepts
  Limit, Window,               \* of the sliding window
  MaxTime, MaxGrants           \* bounds: ticks, grants

VARIABLES
  limiter,                     \* whose it is: "router", "bulk" or "window"; "none" before
  tokens, lastRefill,
  timestamps,                  \* of the sliding window
  now,
  waiting,                     \* sleeping callers -> when their timer is due
  grants                       \* history: times of the grants, since the bucket was set up

limitVars == <<limiter, tokens, lastRefill, timestamps, now, waiting, grants>>

Least(x, y) == IF x < y THEN x ELSE y
CeilDiv(x, y) == (x + y - 1) \div y

LimitInit ==
  /\ limiter = "none"
  /\ tokens = Capacity * Unit /\ lastRefill = 0
  /\ timestamps = <<>>
  /\ now = 0
  /\ waiting = [c \in {} |-> 0]
  /\ grants = <<>>

\* A service starts with its limiter.
Configure ==
  /\ limiter = "none" /\ limiter' \in {"router", "bulk", "window"}
  /\ UNCHANGED <<tokens, lastRefill, timestamps, now, waiting, grants>>

\* refill, at every use of a bucket.
Refilled == Least(Capacity * Unit, tokens + (now - lastRefill) * RefillRate)

Granted == Len(grants) < MaxGrants /\ grants' = Append(grants, now)
Sleeps(c, ticks) == waiting' = [d \in DOMAIN waiting \cup {c} |-> IF d = c THEN now + ticks ELSE waiting[d]]
Wakes(c) ==
  /\ c \in DOMAIN waiting /\ waiting[c] <= now
  /\ waiting' = [d \in DOMAIN waiting \ {c} |-> waiting[d]]

\* acquire: a token at once, or a sleep for the time one token takes; a caller whose
\* patience is shorter gives up at once.
Acquire(c) ==
  /\ limiter \in {"router", "bulk"}
  /\ c \notin DOMAIN waiting
  /\ lastRefill' = now
  /\ IF Refilled >= Unit
     THEN tokens' = Refilled - Unit /\ Granted /\ UNCHANGED waiting
     ELSE /\ tokens' = Refilled
          /\ UNCHANGED grants
          /\ IF limiter = "router"
             THEN IF CeilDiv(Unit, RefillRate) > TimeoutTicks THEN UNCHANGED waiting
                  ELSE Sleeps(c, CeilDiv(Unit, RefillRate))
             ELSE Sleeps(c, CeilDiv(Unit - Refilled, RefillRate))
  /\ UNCHANGED <<limiter, timestamps, now>>

\* Mutant: the router takes its token without looking again.
WakeRouter_Unchecked(c) ==
  /\ limiter = "router"
  /\ Wakes(c)
  /\ lastRefill' = now
  /\ tokens' = Refilled - Unit /\ Granted
  /\ UNCHANGED <<limiter, timestamps, now>>

\* After its sleep a caller of the router looks once more, and is refused if others were
\* faster.
WakeRouter(c) ==
  /\ limiter = "router"
  /\ Wakes(c)
  /\ lastRefill' = now
  /\ IF Refilled >= Unit THEN tokens' = Refilled - Unit /\ Granted
     ELSE tokens' = Refilled /\ UNCHANGED grants
  /\ UNCHANGED <<limiter, timestamps, now>>

\* The bulk worker takes its token in any case: the bucket may run into debt.
WakeBulk(c) ==
  /\ limiter = "bulk"
  /\ Wakes(c)
  /\ lastRefill' = now
  /\ tokens' = Refilled - Unit /\ Granted
  /\ UNCHANGED <<limiter, timestamps, now>>

\* initBucket, when a provider is loaded or its limits are changed: a full bucket.
InitBucket ==
  /\ limiter = "router"
  /\ tokens' = Capacity * Unit /\ lastRefill' = now
  /\ grants' = <<>>
  /\ UNCHANGED <<limiter, timestamps, now, waiting>>

\* isAllowed: the entries before the first valid one are pruned, then the rest is counted.
FirstValid(ts) ==
  CHOOSE i \in 1 .. Len(ts) + 1 : /\ i \in DOMAIN ts => ts[i] > now - Window
                                 /\ \A j \in 1 .. i - 1 : ts[j] <= now - Window
Valid(ts) == SubSeq(ts, FirstValid(ts), Len(ts))

Check ==
  /\ limiter = "window"
  /\ IF Len(Valid(timestamps)) >= Limit THEN timestamps' = Valid(timestamps) /\ UNCHANGED grants
     ELSE timestamps' = Append(Valid(timestamps), now) /\ Granted
  /\ UNCHANGED <<limiter, tokens, lastRefill, now, waiting>>

LimitTick ==
  /\ limiter # "none" /\ now < MaxTime
  /\ now' = now + 1
  /\ UNCHANGED <<limiter, tokens, lastRefill, timestamps, waiting, grants>>

LimitNext ==
  \/ Configure
  \/ \E c \in Caller : Acquire(c) \/ WakeRouter(c) \/ WakeBulk(c)
  \/ InitBucket
  \/ Check
  \/ LimitTick

LimitSpec == LimitInit /\ [][LimitNext]_limitVars

-----------------------------------------------------------------------------

LimitTypeOK ==
  /\ tokens \in -(Cardinality(Caller) * Unit) .. Capacity * Unit
  /\ lastRefill \in 0 .. MaxTime
  /\ \A i \in DOMAIN timestamps : timestamps[i] \in 0 .. now
  /\ DOMAIN waiting \subseteq Caller

\* In no stretch of time are more requests let through than the burst and the tokens of
\* that stretch allow; the worker's bucket exceeds it by its sleepers but one, who all
\* wake to the same token.
Overdraft == IF limiter = "bulk" THEN Cardinality(Caller) - 1 ELSE 0
RateRespected ==
  limiter # "window" =>
    \A i, j \in DOMAIN grants :
      i <= j => (j - i + 1) * Unit <= (Capacity + Overdraft) * Unit + RefillRate * (grants[j] - grants[i])

\* No window of one second, wherever it begins, holds more than the limit.
WindowRespected ==
  limiter = "window" =>
    \A i \in DOMAIN grants : i + Limit \in DOMAIN grants => grants[i + Limit] - grants[i] >= Window

\* The token bucket lets no more through than its burst and its rate over sleeping callers, and no window of
\* the webhook limiter holds more than its limit.
LimitsRespected == LimitTypeOK /\ RateRespected /\ WindowRespected
=============================================================================
