---------------------------- MODULE RouterPartsProofs ----------------------------
(***************************************************************************)
(* Theorems about RateLimits for every rate, burst, window and number of   *)
(* callers.  Refilling multiplies a time by the rate: the facts about      *)
(* products that the prover does not find itself are lemmas.  Then, about  *)
(* RouterConfig, the rows and the cache of the providers, about            *)
(* CircuitBreaker, the breaker of one provider and the copy of its state,  *)
(* about Adapters, the sends of any number of deliveries to any adapters,  *)
(* and about ProviderMessages and MediaProcessor, what the messages say,   *)
(* the webhook posts bring back and the media keep to.                     *)
(***************************************************************************)
EXTENDS RateLimits, RouterConfig, CircuitBreaker, Adapters, MediaProcessor,
  FiniteSetTheorems, WellFoundedInduction, SequenceTheorems, TLAPS

\* The constants' ranges: a burst of a token at least, and a rate above zero, at which
\* alone the sleep of acquire is defined.
Configured ==
  /\ IsFiniteSet(Caller) /\ Caller # {}
  /\ {Unit, RefillRate, Capacity} \subseteq Nat \ {0}
  /\ {TimeoutTicks, Limit, Window, MaxTime, MaxGrants} \subseteq Nat

(***************************************************************************)
(* The inductive invariant.  Spent: from the i-th grant on no more was let *)
(* through than the full bucket and the refills since; with the debt       *)
(* bounded from below that is RateRespected.  The debt of the worker's     *)
(* bucket is bounded because a sleeper finds the token it waited for, less *)
(* those taken by callers Ahead of it: the ones awake, and the ones due    *)
(* after it, which started to sleep later, knowing of its token.           *)
(***************************************************************************)
Types ==
  /\ limiter \in {"none", "router", "bulk", "window"}
  /\ tokens \in Int /\ tokens <= Capacity * Unit
  /\ now \in 0 .. MaxTime /\ lastRefill \in 0 .. now
  /\ timestamps \in Seq(Nat) /\ \A i \in DOMAIN timestamps : timestamps[i] <= now
  /\ DOMAIN waiting \subseteq Caller /\ waiting \in [DOMAIN waiting -> Nat]
  /\ grants \in Seq(Nat)

NotStarted ==
  limiter = "none" => DOMAIN waiting = {} /\ grants = <<>> /\ timestamps = <<>>

Debt == tokens >= 0 - Overdraft * Unit

Spent ==
  limiter # "window" =>
    \A i \in DOMAIN grants :
      tokens + (Len(grants) - i + 1) * Unit <= Capacity * Unit + RefillRate * (lastRefill - grants[i])

Filled(t) == Least(Capacity * Unit, tokens + (t - lastRefill) * RefillRate)
Ahead(c)  == {b \in Caller \ {c} : b \notin DOMAIN waiting \/ waiting[b] > waiting[c]}
OnTime ==
  limiter = "bulk" =>
    \A c \in DOMAIN waiting, t \in Nat :
      now <= t /\ waiting[c] <= t => Filled(t) >= Unit * (1 - Cardinality(Ahead(c)))

\* The window's timestamps are the last grants; all before them have expired.
Pruned == Len(grants) - Len(timestamps)
Suffix ==
  limiter = "window" =>
    /\ Pruned >= 0
    /\ \A i \in DOMAIN timestamps : timestamps[i] = grants[Pruned + i]
    /\ \A i \in 1 .. Pruned : grants[i] <= now - Window

IInv ==
  /\ Types /\ NotStarted /\ Debt /\ Spent /\ OnTime /\ Suffix
  /\ RateRespected /\ WindowRespected

-----------------------------------------------------------------------------
(***************************************************************************)
(* Products.                                                               *)
(***************************************************************************)
LEMMA Scaling == \A k \in Nat : \A a, b \in Int : a <= b => a * k <= b * k
<1> SUFFICES ASSUME NEW k \in Nat, NEW a \in Int, NEW b \in Int, a <= b PROVE a * k <= b * k
  OBVIOUS
<1>1. PICK d \in Nat : b = a + d
  <2> WITNESS b - a \in Nat
  <2> QED
    OBVIOUS
<1>2. (a + d) * k = a * k + d * k
  OBVIOUS
<1>3. d * k \in Nat
  OBVIOUS
<1>4. QED
  BY <1>1, <1>2, <1>3

LEMMA Distributes == \A k, a, b, c \in Int : (a - c) * k = (a - b) * k + (b - c) * k
OBVIOUS

\* The sleep for x fractions lets at least x arrive.
LEMMA CeilEnough ==
  ASSUME NEW x \in Nat, NEW y \in Nat \ {0}
  PROVE  CeilDiv(x, y) \in Nat /\ CeilDiv(x, y) * y >= x
<1> DEFINE z == x + y - 1
<1>1. z \in Nat /\ y \in Nat /\ y > 0
  OBVIOUS
<1> HIDE DEF z
<1>2. z \div y \in Int
  BY <1>1
<1>3. z = y * (z \div y) + (z % y)
  BY <1>1
<1>4. (z % y) < y /\ (z % y) \in Int
  BY <1>1
<1>5. y * (z \div y) > x - 1 /\ y * (z \div y) \in Int
  BY <1>1, <1>2, <1>3, <1>4 DEF z
<1>6. ~ (z \div y < 0)
  BY <1>1, <1>2, <1>5
<1>7. QED
  BY <1>1, <1>2, <1>5, <1>6 DEF CeilDiv, z

LEMMA FullBucket == Configured => Capacity * Unit \in Nat /\ Unit <= Capacity * Unit
<1> SUFFICES ASSUME Configured PROVE Capacity * Unit \in Nat /\ Unit <= Capacity * Unit
  OBVIOUS
<1>1. Capacity \in Nat /\ Unit \in Nat /\ 1 <= Capacity
  BY DEF Configured
<1>2. 1 * Unit <= Capacity * Unit
  BY <1>1, Scaling
<1> QED
  BY <1>1, <1>2

LEMMA Recorded ==
  ASSUME NEW ts \in Seq(Nat), NEW t \in Nat, \A i \in DOMAIN ts : ts[i] <= t
  PROVE  Append(ts, t) \in Seq(Nat) /\ \A i \in DOMAIN Append(ts, t) : Append(ts, t)[i] <= t
<1>1. Append(ts, t) \in Seq(Nat) /\ Len(Append(ts, t)) = Len(ts) + 1
  OBVIOUS
<1>2. ASSUME NEW i \in DOMAIN Append(ts, t) PROVE Append(ts, t)[i] <= t
  <2>1. i \in 1 .. Len(ts) + 1
    BY <1>1
  <2>2. CASE i = Len(ts) + 1
    BY <2>2
  <2>3. CASE i # Len(ts) + 1
    BY <2>1, <2>3
  <2>4. QED
    BY <2>2, <2>3
<1>3. QED
  BY <1>1, <1>2

-----------------------------------------------------------------------------
(***************************************************************************)
(* What the operators return.                                              *)
(***************************************************************************)
LEMMA Refills ==
  ASSUME Configured, Types
  PROVE  /\ Refilled \in Int /\ Refilled <= Capacity * Unit
         /\ tokens <= Refilled /\ Refilled <= tokens + (now - lastRefill) * RefillRate
         /\ Refilled = Filled(now)
<1>1. /\ now - lastRefill \in Nat /\ RefillRate \in Nat /\ Capacity * Unit \in Int
      /\ tokens \in Int /\ tokens <= Capacity * Unit
  BY FullBucket DEF Configured, Types
<1>2. (now - lastRefill) * RefillRate \in Nat
  BY <1>1
<1>3. QED
  BY <1>1, <1>2 DEF Refilled, Filled, Least

\* Up to a time to come a bucket fills from what it is refilled to now.
LEMMA FilledFromNow ==
  ASSUME Configured, Types, NEW t \in Nat, now <= t
  PROVE  /\ (t - now) * RefillRate \in Nat
         /\ Filled(t) = Least(Capacity * Unit, Refilled + (t - now) * RefillRate)
<1>0. now \in Nat /\ lastRefill \in Nat /\ tokens \in Int /\ Capacity * Unit \in Int
  BY FullBucket DEF Configured, Types
<1>1. /\ t - now \in Nat /\ RefillRate \in Nat /\ Capacity * Unit \in Int
      /\ tokens \in Int /\ now \in Int /\ lastRefill \in Int /\ now - lastRefill \in Int
  BY <1>0 DEF Configured
<1>2. (t - now) * RefillRate \in Nat /\ (now - lastRefill) * RefillRate \in Int
  BY <1>1
<1>3. (t - lastRefill) * RefillRate = (t - now) * RefillRate + (now - lastRefill) * RefillRate
  BY <1>1, Distributes
<1>4. QED
  BY <1>1, <1>2, <1>3 DEF Filled, Refilled, Least

\* A use of the bucket that takes d takes no more than d from any time to come.
LEMMA FilledAfterUse ==
  ASSUME Configured, Types, NEW d \in Nat, NEW t \in Nat, now <= t,
         tokens' = Refilled - d, lastRefill' = now
  PROVE  /\ Filled(t)' \in Int /\ Filled(t) \in Int
         /\ Filled(t)' >= Filled(t) - d /\ Filled(t)' >= Refilled - d
         /\ Filled(t)' = Least(Capacity * Unit, Refilled - d + (t - now) * RefillRate)
<1> DEFINE grown == (t - now) * RefillRate
<1>1. grown \in Nat /\ Filled(t) = Least(Capacity * Unit, Refilled + grown)
  BY FilledFromNow
<1>2. Filled(t)' = Least(Capacity * Unit, Refilled - d + grown)
  BY DEF Filled
<1>3. Refilled \in Int /\ Refilled <= Capacity * Unit /\ Capacity * Unit \in Int
  BY Refills, FullBucket
<1> HIDE DEF grown
<1>4. QED
  BY <1>1, <1>2, <1>3 DEF Least, grown

LEMMA AheadCounts ==
  ASSUME Configured, NEW c \in Caller
  PROVE  /\ IsFiniteSet(Ahead(c)) /\ Cardinality(Ahead(c)) \in Nat
         /\ Cardinality(Caller) \in Nat /\ Cardinality(Caller) >= 1
         /\ Cardinality(Ahead(c)) <= Cardinality(Caller) - 1
<1>1. IsFiniteSet(Caller) /\ Cardinality(Caller) \in Nat
  BY FS_CardinalityType DEF Configured
<1>2. IsFiniteSet(Caller \ {c}) /\ Cardinality(Caller \ {c}) = Cardinality(Caller) - 1
  BY <1>1, FS_RemoveElement
<1>3. Cardinality(Caller \ {c}) \in Nat
  BY <1>2, FS_CardinalityType
<1>4. Ahead(c) \in SUBSET (Caller \ {c})
  BY DEF Ahead
<1>5. IsFiniteSet(Ahead(c)) /\ Cardinality(Ahead(c)) <= Cardinality(Caller \ {c})
  BY <1>2, <1>4, FS_Subset
<1>6. Cardinality(Ahead(c)) \in Nat
  BY <1>5, FS_CardinalityType
<1>7. QED
  BY <1>1, <1>2, <1>3, <1>5, <1>6

\* The library orders finite sets by inclusion; a number stands for the numbers up to it.
LEMMA Smallest ==
  ASSUME NEW T, T \subseteq Nat, T # {}
  PROVE  \E i \in T : \A j \in T : i <= j
<1> DEFINE Upto == {1 .. i : i \in T}
           R == StrictSubsetOrdering(Nat)
<1>1. IsWellFoundedOn(R, FiniteSubsetsOf(Nat))
  BY FS_StrictSubsetOrderingWellFounded
<1>2. Upto \subseteq FiniteSubsetsOf(Nat) /\ Upto # {}
  <2>1. ASSUME NEW i \in T PROVE 1 .. i \in FiniteSubsetsOf(Nat)
    <3>1. 1 \in Int /\ i \in Int /\ 1 .. i \in SUBSET Nat
      OBVIOUS
    <3>2. IsFiniteSet(1 .. i)
      BY <3>1, FS_Interval
    <3>3. QED
      BY <3>1, <3>2 DEF FiniteSubsetsOf
  <2>2. QED
    BY <2>1
<1>3. \E x \in Upto : \A y \in Upto : ~ (<<y, x>> \in R)
  <2> HIDE DEF Upto, R
  <2>1. QED
    BY <1>1, <1>2, WFMin
<1>4. PICK i \in T : \A y \in Upto : ~ (<<y, 1 .. i>> \in R)
  BY <1>3
<1>5. ASSUME NEW j \in T, j < i PROVE FALSE
  <2>1. 1 .. j \in SUBSET Nat /\ 1 .. i \in SUBSET Nat /\ 1 .. j \subseteq 1 .. i /\ i \in Nat
    BY <1>5
  <2>2. i \in 1 .. i /\ i \notin 1 .. j
    BY <1>5
  <2>3. <<1 .. j, 1 .. i>> \in R
    BY <2>1, <2>2 DEF StrictSubsetOrdering
  <2>4. QED
    BY <1>4, <2>3
<1>6. QED
  BY <1>5

\* What is pruned has expired.
LEMMA Pruning ==
  ASSUME Configured, Types
  PROVE  \E k \in 0 .. Len(timestamps) :
           /\ \A j \in 1 .. k : timestamps[j] <= now - Window
           /\ Valid(timestamps) \in Seq(Nat)
           /\ Len(Valid(timestamps)) = Len(timestamps) - k
           /\ \A i \in 1 .. Len(timestamps) - k : Valid(timestamps)[i] = timestamps[k + i]
<1> DEFINE n == Len(timestamps)
           T == {i \in 1 .. n + 1 : i \in DOMAIN timestamps => timestamps[i] > now - Window}
<1>1. n \in Nat /\ DOMAIN timestamps = 1 .. n /\ timestamps \in Seq(Nat)
  BY DEF Types
<1>2. n + 1 \in T /\ T \subseteq Nat /\ T # {}
  BY <1>1
<1>3. PICK i \in T : \A j \in T : i <= j
  <2> HIDE DEF T
  <2>1. QED
    BY <1>2, Smallest
<1>4. \A j \in 1 .. i - 1 : timestamps[j] <= now - Window
  <2>1. SUFFICES ASSUME NEW j \in 1 .. i - 1 PROVE timestamps[j] <= now - Window
    OBVIOUS
  <2>2. j \notin T /\ j \in DOMAIN timestamps
    BY <1>1, <1>2, <1>3
  <2>3. now \in Nat /\ Window \in Nat
    BY DEF Types, Configured
  <2> HIDE DEF T
  <2>4. timestamps[j] \in Nat
    BY <1>1, <2>2
  <2>5. ~ (timestamps[j] > now - Window)
    BY <1>1, <2>2 DEF T
  <2>6. QED
    BY <2>3, <2>4, <2>5
<1>5. PICK v \in 1 .. n + 1 : v = FirstValid(timestamps) /\ \A j \in 1 .. v - 1 : timestamps[j] <= now - Window
  BY <1>4 DEF FirstValid
<1>6. Valid(timestamps) = SubSeq(timestamps, v, n)
  BY <1>5 DEF Valid
<1>7. v - 1 \in 0 .. n
  BY <1>1, <1>5
<1>8. /\ SubSeq(timestamps, v, n) \in Seq(Nat)
      /\ Len(SubSeq(timestamps, v, n)) = n - (v - 1)
      /\ \A j \in 1 .. n - (v - 1) : SubSeq(timestamps, v, n)[j] = timestamps[(v - 1) + j]
  <2>1. v \in Int /\ n \in Int /\ \A j \in v .. n : timestamps[j] \in Nat
    BY <1>1, <1>5
  <2>2. /\ SubSeq(timestamps, v, n) \in Seq(Nat)
        /\ Len(SubSeq(timestamps, v, n)) = IF v <= n THEN n - v + 1 ELSE 0
        /\ \A j \in 1 .. n - v + 1 : SubSeq(timestamps, v, n)[j] = timestamps[v + j - 1]
    BY <2>1, SubSeqProperties
  <2>3. n - (v - 1) = n - v + 1 /\ (v <= n \/ n - v + 1 = 0)
    BY <1>1, <1>5
  <2>4. \A j \in 1 .. n - v + 1 : v + j - 1 = (v - 1) + j
    BY <1>1, <1>5
  <2> HIDE DEF n
  <2>5. QED
    BY <2>2, <2>3, <2>4
<1>9. QED
  BY <1>5, <1>6, <1>7, <1>8

-----------------------------------------------------------------------------
(***************************************************************************)
(* Steps.  A use of the bucket takes a token or only refills it.           *)
(***************************************************************************)
Takes == tokens' = Refilled - Unit /\ lastRefill' = now /\ Granted
Looks == tokens' = Refilled /\ lastRefill' = now /\ UNCHANGED grants

Bucket(c) == Acquire(c) \/ WakeRouter(c) \/ WakeBulk(c)

LEMMA Uses ==
  ASSUME NEW c \in Caller, Bucket(c)
  PROVE  /\ Takes \/ Looks
         /\ limiter \in {"router", "bulk"} /\ UNCHANGED <<limiter, timestamps, now>>
BY DEF Bucket, Acquire, WakeRouter, WakeBulk, Takes, Looks

\* Who sleeps after a use of the bucket, and until when.
LEMMA Sleepers ==
  ASSUME Configured, Types, NEW c \in Caller, Bucket(c)
  PROVE  DOMAIN waiting' \subseteq Caller /\ waiting' \in [DOMAIN waiting' -> Nat]
<1>1. /\ now \in Nat /\ RefillRate \in Nat \ {0} /\ Unit \in Nat /\ Refilled \in Int
      /\ DOMAIN waiting \subseteq Caller /\ waiting \in [DOMAIN waiting -> Nat]
  <2>1. Refilled \in Int
    BY Refills
  <2>2. QED
    BY <2>1 DEF Configured, Types
<1>2. CASE UNCHANGED waiting
  BY <1>1, <1>2
<1>3. CASE Wakes(c)
  BY <1>1, <1>3 DEF Wakes
<1>4. ASSUME NEW t \in Nat, Sleeps(c, t) PROVE DOMAIN waiting' \subseteq Caller /\ waiting' \in [DOMAIN waiting' -> Nat]
  <2>1. now + t \in Nat /\ waiting' = [d \in DOMAIN waiting \cup {c} |-> IF d = c THEN now + t ELSE waiting[d]]
    BY <1>1, <1>4 DEF Sleeps
  <2>2. \A d \in DOMAIN waiting : waiting[d] \in Nat
    BY <1>1
  <2>3. QED
    BY <1>1, <2>1, <2>2
<1>5. CASE Acquire(c) /\ ~ UNCHANGED waiting
  <2>1. Refilled < Unit
    BY <1>1, <1>5 DEF Acquire
  <2>2. CeilDiv(Unit, RefillRate) \in Nat /\ CeilDiv(Unit - Refilled, RefillRate) \in Nat
    <3>1. Unit - Refilled \in Nat
      BY <1>1, <2>1
    <3>2. QED
      BY <1>1, <3>1, CeilEnough
  <2>3. \E t \in Nat : Sleeps(c, t)
    BY <1>5, <2>1, <2>2 DEF Acquire
  <2>4. QED
    BY <1>4, <2>3
<1>6. QED
  BY <1>2, <1>3, <1>5 DEF Bucket, WakeRouter, WakeBulk

LEMMA GrantType ==
  ASSUME Types, Granted
  PROVE  /\ grants' \in Seq(Nat) /\ Len(grants') = Len(grants) + 1 /\ grants'[Len(grants) + 1] = now
         /\ DOMAIN grants' = DOMAIN grants \cup {Len(grants) + 1}
         /\ \A i \in DOMAIN grants : grants'[i] = grants[i]
BY DEF Types, Granted

LEMMA TypesStep ==
  ASSUME Configured, Types, NotStarted, [LimitNext]_limitVars
  PROVE  Types' /\ NotStarted'
<1> USE DEF Types, NotStarted
<1>1. Capacity * Unit \in Nat /\ Unit \in Nat /\ MaxTime \in Nat /\ now \in Nat
  BY FullBucket DEF Configured
<1>2. ASSUME NEW c \in Caller, Bucket(c) PROVE Types' /\ NotStarted'
  <2>1. Refilled \in Int /\ Refilled <= Capacity * Unit
    BY Refills
  <2>2. tokens' \in Int /\ tokens' <= Capacity * Unit /\ lastRefill' = now
    BY <1>1, <1>2, <2>1, Uses DEF Takes, Looks
  <2>3. grants' \in Seq(Nat)
    BY <1>2, Uses, GrantType DEF Takes, Looks
  <2>4. limiter' # "none" /\ UNCHANGED <<limiter, timestamps, now>>
    BY <1>2, Uses
  <2>5. DOMAIN waiting' \subseteq Caller /\ waiting' \in [DOMAIN waiting' -> Nat]
    BY <1>2, Sleepers
  <2>6. lastRefill' \in 0 .. now'
    BY <1>1, <2>2, <2>4
  <2>7. QED
    BY <2>2, <2>3, <2>4, <2>5, <2>6
<1>3. CASE Configure
  BY <1>1, <1>3 DEF Configure
<1>4. CASE InitBucket
  BY <1>1, <1>4 DEF InitBucket
<1>5. CASE Check
  <2> DEFINE ts == Valid(timestamps)
  <2>1. ts \in Seq(Nat) /\ \A i \in DOMAIN ts : ts[i] <= now
    <3>1. PICK k \in 0 .. Len(timestamps) :
             /\ ts \in Seq(Nat)
             /\ Len(ts) = Len(timestamps) - k
             /\ \A i \in 1 .. Len(timestamps) - k : ts[i] = timestamps[k + i]
      BY Pruning
    <3> HIDE DEF ts
    <3>2. ASSUME NEW i \in DOMAIN ts PROVE ts[i] <= now
      <4>1. i \in 1 .. Len(timestamps) - k /\ k + i \in DOMAIN timestamps
        BY <3>1, <3>2
      <4>2. QED
        BY <3>1, <4>1
    <3>3. QED
      BY <3>1, <3>2
  <2>2. \/ timestamps' = ts /\ UNCHANGED grants
        \/ timestamps' = Append(ts, now) /\ Granted
    BY <1>5 DEF Check
  <2> HIDE DEF ts
  <2>3. timestamps' \in Seq(Nat) /\ \A i \in DOMAIN timestamps' : timestamps'[i] <= now
    <3>1. CASE timestamps' = ts
      BY <2>1, <3>1
    <3>2. CASE timestamps' = Append(ts, now)
      <4>1. ts \in Seq(Nat) /\ now \in Nat
        BY <1>1, <2>1
      <4>2. QED
        BY ONLY <2>1, <3>2, <4>1, Recorded
    <3>3. QED
      BY <2>2, <3>1, <3>2
  <2>4. grants' \in Seq(Nat)
    BY <2>2, GrantType
  <2>5. limiter = "window" /\ UNCHANGED <<limiter, tokens, lastRefill, now, waiting>>
    BY <1>5 DEF Check
  <2>6. QED
    BY <2>3, <2>4, <2>5
<1>6. CASE LimitTick
  BY <1>1, <1>6 DEF LimitTick
<1>7. CASE UNCHANGED limitVars
  BY <1>7 DEF limitVars
<1>8. QED
  BY <1>2, <1>3, <1>4, <1>5, <1>6, <1>7 DEF LimitNext, Bucket

\* A caller that wakes finds the token it waited for, but for those Ahead of it.
LEMMA Woken ==
  ASSUME Configured, Types, OnTime, NEW c \in Caller, WakeBulk(c)
  PROVE  c \in DOMAIN waiting /\ waiting[c] <= now /\ Refilled >= Unit * (1 - Cardinality(Ahead(c)))
<1>1. limiter = "bulk" /\ c \in DOMAIN waiting /\ waiting[c] <= now /\ waiting[c] \in Nat /\ now \in Nat
  BY DEF WakeBulk, Wakes, Types, Configured
<1>2. Filled(now) >= Unit * (1 - Cardinality(Ahead(c)))
  BY <1>1 DEF OnTime
<1>3. QED
  BY <1>1, <1>2, Refills

LEMMA OverdraftType == Configured => Overdraft * Unit \in Nat /\ (Overdraft * Unit)' \in Nat
<1> SUFFICES ASSUME Configured PROVE Overdraft * Unit \in Nat /\ (Overdraft * Unit)' \in Nat
  OBVIOUS
<1>1. PICK c : c \in Caller
  BY DEF Configured
<1>2. Cardinality(Caller) - 1 \in Nat
  BY <1>1, AheadCounts
<1>3. Overdraft \in Nat /\ Overdraft' \in Nat /\ Unit \in Nat
  BY <1>2 DEF Configured, Overdraft
<1>4. \A m, n \in Nat : m * n \in Nat
  OBVIOUS
<1>5. QED
  BY <1>3, <1>4

LEMMA DebtStep ==
  ASSUME Configured, Types, Debt, OnTime, [LimitNext]_limitVars
  PROVE  Debt'
<1>1. /\ tokens \in Int /\ Refilled \in Int /\ tokens <= Refilled /\ Unit \in Nat
      /\ Capacity * Unit \in Nat /\ Overdraft * Unit \in Nat
  BY Refills, FullBucket, OverdraftType DEF Configured, Types
<1>2. CASE UNCHANGED limiter
  <2>1. Overdraft' = Overdraft
    BY <1>2 DEF Overdraft
  <2>2. CASE tokens' = tokens \/ tokens' = Refilled \/ tokens' = Capacity * Unit
    BY <1>1, <2>1, <2>2 DEF Debt
  <2>3. CASE tokens' = Refilled - Unit /\ Refilled >= Unit
    BY <1>1, <2>1, <2>3 DEF Debt
  <2>4. ASSUME NEW c \in Caller, WakeBulk(c) PROVE Debt'
    <3>1. Refilled >= Unit * (1 - Cardinality(Ahead(c)))
      BY <2>4, Woken
    <3> DEFINE n == Cardinality(Ahead(c))
               m == Cardinality(Caller)
    <3>2. n \in Nat /\ m \in Nat /\ n <= m - 1
      BY AheadCounts
    <3>3. Overdraft = m - 1 /\ tokens' = Refilled - Unit
      BY <2>4 DEF WakeBulk, Overdraft
    <3> HIDE DEF n, m
    <3>4. (1 - (m - 1)) * Unit <= (1 - n) * Unit
      BY <1>1, <3>2, Scaling
    <3>5. Refilled >= (1 - n) * Unit /\ (1 - (m - 1)) * Unit = Unit - (m - 1) * Unit
      BY <1>1, <3>1, <3>2 DEF n
    <3>6. (m - 1) * Unit \in Int /\ (1 - n) * Unit \in Int
      BY <1>1, <3>2
    <3>7. tokens' >= 0 - (m - 1) * Unit
      BY <1>1, <3>3, <3>4, <3>5, <3>6
    <3>8. QED
      BY <2>1, <3>3, <3>7 DEF Debt
  <2>5. QED
    BY <2>2, <2>3, <2>4 DEF LimitNext, Configure, Acquire, WakeRouter, InitBucket, Check, LimitTick, limitVars
<1>3. CASE Configure
  <2>1. Overdraft = 0 /\ tokens' = tokens
    BY <1>3 DEF Configure, Overdraft
  <2>2. tokens >= 0
    BY <1>1, <2>1 DEF Debt
  <2>3. (Overdraft * Unit)' \in Nat
    BY OverdraftType
  <2>4. QED
    BY <1>1, <2>1, <2>2, <2>3 DEF Debt
<1>4. QED
  BY <1>2, <1>3, Uses DEF LimitNext, Bucket, InitBucket, Check, LimitTick, limitVars

LEMMA SpentStep ==
  ASSUME Configured, Types, NotStarted, Spent, [LimitNext]_limitVars
  PROVE  Spent'
<1>1. /\ Unit \in Nat /\ RefillRate \in Nat /\ tokens \in Int /\ Refilled \in Int /\ now \in Int
      /\ lastRefill \in Int /\ Capacity * Unit \in Nat /\ Len(grants) \in Nat
      /\ Refilled <= Capacity * Unit /\ Refilled <= tokens + (now - lastRefill) * RefillRate
  BY Refills, FullBucket DEF Configured, Types
<1>2. ASSUME NEW c \in Caller, Bucket(c), NEW i \in DOMAIN grants
      PROVE  Refilled + (Len(grants) - i + 1) * Unit <= Capacity * Unit + RefillRate * (now - grants[i])
  <2> DEFINE full  == Capacity * Unit
             spent == (Len(grants) - i + 1) * Unit
             old   == RefillRate * (lastRefill - grants[i])
             fresh == (now - lastRefill) * RefillRate
  <2>1. grants[i] \in Int /\ i \in Int
    BY DEF Types
  <2>2. tokens + spent <= full + old
    BY <1>2, Uses DEF Spent
  <2>3. RefillRate * (now - grants[i]) = fresh + old
    BY <1>1, <2>1, Distributes
  <2>4. spent \in Int /\ old \in Int /\ fresh \in Int
    BY <1>1, <2>1
  <2>5. full \in Int /\ Refilled <= tokens + fresh
    BY <1>1
  <2> HIDE DEF full, spent, old, fresh
  <2>6. Refilled + spent <= full + (fresh + old)
    BY <1>1, <2>2, <2>4, <2>5
  <2>7. QED
    BY <2>3, <2>6 DEF full, spent
<1>3. ASSUME NEW c \in Caller, Bucket(c), Looks PROVE Spent'
  BY <1>2, <1>3 DEF Looks, Spent
<1>4. ASSUME NEW c \in Caller, Bucket(c), Takes PROVE Spent'
  <2>1. /\ grants' \in Seq(Nat) /\ Len(grants') = Len(grants) + 1 /\ grants'[Len(grants) + 1] = now
        /\ DOMAIN grants' = DOMAIN grants \cup {Len(grants) + 1}
        /\ \A i \in DOMAIN grants : grants'[i] = grants[i]
    BY <1>4, GrantType DEF Takes
  <2>2. tokens' = Refilled - Unit /\ lastRefill' = now
    BY <1>4 DEF Takes
  <2>3. ASSUME NEW i \in DOMAIN grants
        PROVE  tokens' + (Len(grants') - i + 1) * Unit <= Capacity * Unit + RefillRate * (lastRefill' - grants'[i])
    <3>1. i \in Int /\ grants[i] \in Int
      BY DEF Types
    <3> DEFINE spent == (Len(grants) - i + 1) * Unit
               bound == Capacity * Unit + RefillRate * (now - grants[i])
    <3>2. (Len(grants') - i + 1) * Unit = spent + Unit
      BY <1>1, <2>1, <3>1
    <3>3. spent \in Int /\ bound \in Int
      BY <1>1, <3>1
    <3>4. Refilled + spent <= bound
      BY <1>2, <1>4
    <3>5. bound = Capacity * Unit + RefillRate * (lastRefill' - grants'[i])
      BY <2>1, <2>2
    <3> HIDE DEF spent, bound
    <3>6. Refilled - Unit + (spent + Unit) <= bound
      BY <1>1, <3>3, <3>4
    <3>7. QED
      BY <2>2, <3>2, <3>5, <3>6
  <2>4. tokens' + (Len(grants') - (Len(grants) + 1) + 1) * Unit
          <= Capacity * Unit + RefillRate * (lastRefill' - grants'[Len(grants) + 1])
    BY <1>1, <2>1, <2>2
  <2>5. QED
    BY <2>1, <2>3, <2>4 DEF Spent
<1>5. CASE Configure
  <2>1. grants' = <<>>
    BY <1>5 DEF Configure, NotStarted
  <2>2. QED
    BY <2>1 DEF Spent
<1>6. CASE InitBucket
  BY <1>6 DEF InitBucket, Spent
<1>7. CASE Check
  BY <1>7 DEF Check, Spent
<1>8. CASE UNCHANGED <<limiter, tokens, lastRefill, grants>>
  BY <1>8 DEF Spent
<1>9. QED
  BY <1>3, <1>4, <1>5, <1>6, <1>7, <1>8, Uses DEF LimitNext, Bucket, LimitTick, limitVars

\* A grant exceeds the rate from no earlier one on: what was spent since is bounded above by
\* Spent, what is left of the bucket is bounded below by Debt.
LEMMA RateStep ==
  ASSUME Configured, Types, NotStarted, Spent', Debt', RateRespected, [LimitNext]_limitVars
  PROVE  RateRespected'
<1>1. ASSUME NEW c \in Caller, Bucket(c), Takes PROVE RateRespected'
  <2>1. /\ grants' \in Seq(Nat) /\ Len(grants') = Len(grants) + 1 /\ grants'[Len(grants) + 1] = now
        /\ DOMAIN grants' = DOMAIN grants \cup {Len(grants) + 1}
        /\ \A i \in DOMAIN grants : grants'[i] = grants[i]
    BY <1>1, GrantType DEF Takes
  <2>2. /\ limiter' = limiter /\ limiter \in {"router", "bulk"} /\ lastRefill' = now
        /\ Overdraft' = Overdraft /\ tokens' \in Int
    BY <1>1, Uses, Refills DEF Takes, Overdraft, Configured
  <2>3. ASSUME NEW i \in DOMAIN grants', NEW j \in DOMAIN grants', i <= j
        PROVE  (j - i + 1) * Unit <= (Capacity + Overdraft) * Unit + RefillRate * (grants'[j] - grants'[i])
    <3>1. CASE j \in DOMAIN grants
      <4>1. i \in DOMAIN grants
        BY <2>1, <2>3, <3>1 DEF Types
      <4>2. QED
        BY <2>1, <2>2, <2>3, <3>1, <4>1 DEF RateRespected
    <3>2. CASE j = Len(grants')
      <4> DEFINE g == grants'[i]
                 k == (j - i + 1) * Unit
                 refills == RefillRate * (now - g)
      <4>1. g \in Nat /\ i \in Int /\ j \in Int /\ Unit \in Nat /\ now \in Nat /\ RefillRate \in Nat
        <5>1. Unit \in Nat /\ now \in Nat /\ RefillRate \in Nat
          BY DEF Configured, Types
        <5>2. g \in Nat /\ i \in Int /\ j \in Int
          <6>1. grants' \in Seq(Nat)
            BY <2>1
          <6>2. QED
            BY <6>1
        <5>3. QED
          BY <5>1, <5>2
      <4>2. k \in Int /\ refills \in Int
        <5>1. j - i + 1 \in Int /\ now - g \in Int
          BY <4>1
        <5>2. \A a, b \in Int : a * b \in Int
          OBVIOUS
        <5>3. QED
          BY <4>1, <5>1, <5>2
      <4>3. tokens' + k <= Capacity * Unit + refills
        BY <2>2, <3>2 DEF Spent
      <4>4. Overdraft * Unit \in Nat /\ Capacity * Unit \in Nat /\ tokens' >= 0 - Overdraft * Unit
        BY <2>2, FullBucket, OverdraftType DEF Debt
      <4>5. (Capacity + Overdraft) * Unit = Capacity * Unit + Overdraft * Unit
        <5>1. PICK x : x \in Caller
          BY DEF Configured
        <5>2. Overdraft \in Int
          BY <5>1, AheadCounts DEF Overdraft
        <5>3. QED
          BY <4>1, <5>2 DEF Configured
      <4>6. grants'[j] = now
        BY <2>1, <3>2
      <4> HIDE DEF k, refills
      <4>7. k <= (Capacity + Overdraft) * Unit + refills
        BY <2>2, <4>2, <4>3, <4>4, <4>5
      <4>8. QED
        BY <4>6, <4>7 DEF k, refills
    <3>3. QED
      BY <2>1, <3>1, <3>2
  <2>4. QED
    BY <2>2, <2>3 DEF RateRespected
<1>2. CASE grants' = <<>>
  BY <1>2 DEF RateRespected
<1>3. CASE UNCHANGED <<limiter, grants>>
  BY <1>3 DEF RateRespected, Overdraft
<1>4. CASE Check
  BY <1>4 DEF Check, RateRespected
<1>5. QED
  BY <1>1, <1>2, <1>3, <1>4, Uses DEF LimitNext, Bucket, Configure, InitBucket, LimitTick, Looks, NotStarted, limitVars

-----------------------------------------------------------------------------
(***************************************************************************)
(* The sleepers of the worker's bucket.                                    *)
(***************************************************************************)
LEMMA Shares ==
  ASSUME Configured, NEW n \in Nat
  PROVE  /\ Unit * (1 - n) \in Int /\ Unit * (1 - n) <= Unit
         /\ n >= 1 => Unit * (1 - n) <= 0
         /\ Unit * (1 - (n + 1)) = Unit * (1 - n) - Unit
         /\ \A m \in Nat : n <= m => Unit * (1 - m) <= Unit * (1 - n)
<1>1. Unit \in Nat
  BY DEF Configured
<1>2. \A a, b \in Int : a <= b => Unit * a <= Unit * b
  <2>1. \A a \in Int : Unit * a = a * Unit
    BY <1>1
  <2>2. QED
    BY <1>1, <2>1, Scaling
<1>3. Unit * (1 - n) <= Unit * 1 /\ (n >= 1 => Unit * (1 - n) <= Unit * 0)
  <2>1. 1 - n \in Int /\ 1 - n <= 1 /\ (n >= 1 => 1 - n <= 0)
    OBVIOUS
  <2>2. QED
    BY <1>2, <2>1
<1>4. ASSUME NEW m \in Nat, n <= m PROVE Unit * (1 - m) <= Unit * (1 - n)
  <2>1. 1 - n \in Int /\ 1 - m \in Int /\ 1 - m <= 1 - n
    BY <1>4
  <2>2. QED
    BY <1>2, <2>1
<1>5. Unit * (1 - n) \in Int /\ Unit * (1 - (n + 1)) = Unit * (1 - n) - Unit
  BY <1>1
<1>6. Unit * 1 = Unit /\ Unit * 0 = 0
  BY <1>1
<1>7. QED
  BY <1>3, <1>4, <1>5, <1>6

LEMMA Groups ==
  ASSUME Configured, NEW S, S \subseteq Caller
  PROVE  /\ IsFiniteSet(S) /\ Cardinality(S) \in Nat
         /\ \A c \in Caller \ S : Cardinality(S \cup {c}) = Cardinality(S) + 1
         /\ \A c \in S : Cardinality(S) >= 1
         /\ \A T \in SUBSET Caller : S \subseteq T => Cardinality(S) <= Cardinality(T)
<1>1. IsFiniteSet(Caller) /\ S \in SUBSET Caller
  BY DEF Configured
<1>2. IsFiniteSet(S)
  BY <1>1, FS_Subset
<1>3. Cardinality(S) \in Nat
  BY <1>2, FS_CardinalityType
<1>4. ASSUME NEW c \in Caller \ S PROVE Cardinality(S \cup {c}) = Cardinality(S) + 1
  BY <1>2, <1>4, FS_AddElement
<1>5. ASSUME NEW c \in S PROVE Cardinality(S) >= 1
  <2>1. Cardinality(S) # 0
    BY <1>2, <1>5, FS_EmptySet
  <2>2. QED
    BY <1>3, <2>1
<1>6. ASSUME NEW T \in SUBSET Caller, S \subseteq T PROVE Cardinality(S) <= Cardinality(T)
  <2>1. IsFiniteSet(T) /\ S \in SUBSET T
    BY <1>1, <1>6, FS_Subset
  <2>2. QED
    BY <2>1, FS_Subset
<1>7. QED
  BY <1>2, <1>3, <1>4, <1>5, <1>6

\* The sleep of the bulk worker is long enough for the token it waits for.
LEMMA SleptEnough ==
  ASSUME Configured, Types, NEW t \in Nat, Refilled < Unit,
         now + CeilDiv(Unit - Refilled, RefillRate) <= t,
         tokens' = Refilled, lastRefill' = now
  PROVE  Filled(t)' \in Int /\ Filled(t)' >= Unit
<1> DEFINE x == Unit - Refilled
           d == CeilDiv(x, RefillRate)
           grown == (t - now) * RefillRate
<1>1. Unit \in Nat /\ RefillRate \in Nat \ {0} /\ now \in Nat /\ Refilled \in Int
  <2>1. Refilled \in Int
    BY Refills
  <2>2. QED
    BY <2>1 DEF Configured, Types
<1>2. x \in Nat
  BY <1>1
<1>3. d \in Nat /\ d * RefillRate >= x
  <2> HIDE DEF x
  <2>1. QED
    BY <1>1, <1>2, CeilEnough
<1>4. d <= t - now /\ t - now \in Int
  <2> HIDE DEF d
  <2>1. now + d <= t
    BY DEF d
  <2>2. QED
    BY <1>1, <1>3, <2>1
<1>5. d * RefillRate <= grown /\ grown \in Int /\ d * RefillRate \in Int
  <2>1. RefillRate \in Nat /\ d \in Int
    BY <1>1, <1>3
  <2> HIDE DEF d
  <2>2. d * RefillRate <= grown
    BY <1>4, <2>1, Scaling
  <2>3. QED
    BY <1>4, <2>1, <2>2
<1>6. Filled(t)' = Least(Capacity * Unit, Refilled + grown)
  BY DEF Filled
<1>7. Capacity * Unit \in Nat /\ Unit <= Capacity * Unit
  BY FullBucket
<1>8. Refilled + grown >= Unit
  <2> DEFINE y == d * RefillRate
  <2>1. y >= Unit - Refilled /\ y <= grown /\ y \in Int /\ grown \in Int
    BY <1>3, <1>5
  <2> HIDE DEF y, d, grown
  <2>2. QED
    BY <1>1, <2>1
<1> HIDE DEF grown
<1>9. QED
  BY <1>1, <1>5, <1>6, <1>7, <1>8 DEF Least

LEMMA OnTimeAcquire ==
  ASSUME Configured, Types, OnTime, limiter = "bulk", NEW c \in Caller, Acquire(c)
  PROVE  OnTime'
<1>1. /\ c \notin DOMAIN waiting /\ DOMAIN waiting \subseteq Caller /\ waiting \in [DOMAIN waiting -> Nat]
      /\ now \in Nat /\ Unit \in Nat /\ Refilled \in Int
  <2>1. Refilled \in Int
    BY Refills
  <2>2. QED
    BY <2>1 DEF Acquire, Configured, Types
<1>2. limiter' = limiter /\ now' = now /\ lastRefill' = now
  BY DEF Acquire
<1>3. CASE Refilled >= Unit
  <2>1. tokens' = Refilled - Unit /\ waiting' = waiting
    BY <1>3 DEF Acquire
  <2>2. ASSUME NEW b \in DOMAIN waiting, NEW t \in Nat, now <= t
        PROVE  Filled(t)' >= Unit * (1 - Cardinality(Ahead(b)'))
    <3>1. Filled(t)' \in Int /\ Filled(t)' >= Refilled - Unit
      BY <1>1, <1>2, <2>1, <2>2, FilledAfterUse
    <3>2. Ahead(b)' \subseteq Caller /\ c \in Ahead(b)'
      BY <1>1, <2>1 DEF Ahead
    <3>3. Cardinality(Ahead(b)') \in Nat /\ Cardinality(Ahead(b)') >= 1
      BY <3>2, Groups
    <3>4. /\ Unit * (1 - Cardinality(Ahead(b)')) \in Int
          /\ Unit * (1 - Cardinality(Ahead(b)')) <= 0
      BY <3>3, Shares
    <3>5. QED
      BY <1>1, <1>3, <3>1, <3>4
  <2>3. QED
    BY <1>2, <2>1, <2>2 DEF OnTime
<1>4. CASE Refilled < Unit
  <2> DEFINE d == CeilDiv(Unit - Refilled, RefillRate)
  <2>1. tokens' = Refilled /\ Sleeps(c, d)
    BY <1>1, <1>4 DEF Acquire
  <2>2. d \in Nat
    <3>1. Unit - Refilled \in Nat /\ RefillRate \in Nat \ {0}
      BY <1>1, <1>4 DEF Configured
    <3>2. QED
      BY <3>1, CeilEnough
  <2>3. /\ DOMAIN waiting' = DOMAIN waiting \cup {c} /\ waiting'[c] = now + d
        /\ \A b \in DOMAIN waiting : waiting'[b] = waiting[b]
    BY <1>1, <2>1 DEF Sleeps
  <2>4. ASSUME NEW b \in Caller, NEW t \in Nat, now + d <= t
        PROVE  Filled(t)' >= Unit * (1 - Cardinality(Ahead(b)'))
    <3>1. Filled(t)' \in Int /\ Filled(t)' >= Unit
      BY <1>2, <1>4, <2>1, <2>4, SleptEnough
    <3>2. Ahead(b)' \subseteq Caller
      BY DEF Ahead
    <3>3. Cardinality(Ahead(b)') \in Nat
      BY <3>2, Groups
    <3>4. Unit * (1 - Cardinality(Ahead(b)')) \in Int /\ Unit * (1 - Cardinality(Ahead(b)')) <= Unit
      BY <3>3, Shares
    <3>5. QED
      BY <1>1, <3>1, <3>4
  <2>5. ASSUME NEW b \in DOMAIN waiting, NEW t \in Nat, now <= t, waiting[b] <= t, t < now + d
        PROVE  Filled(t)' >= Unit * (1 - Cardinality(Ahead(b)'))
    <3>1. waiting[b] \in Nat /\ waiting[b] < now + d
      BY <1>1, <2>2, <2>5
    <3> HIDE DEF d
    <3>2. Ahead(b)' = Ahead(b)
      BY <1>1, <2>3, <3>1 DEF Ahead
    <3>3. Filled(t) >= Unit * (1 - Cardinality(Ahead(b)))
      BY <2>5 DEF OnTime
    <3>4. Filled(t)' \in Int /\ Filled(t) \in Int /\ Filled(t)' >= Filled(t) - 0
      <4>1. tokens' = Refilled - 0
        BY <1>1, <2>1
      <4>2. QED
        BY <1>2, <2>5, <4>1, FilledAfterUse
    <3>5. Cardinality(Ahead(b)) \in Nat
      BY Groups DEF Ahead
    <3>6. Unit * (1 - Cardinality(Ahead(b))) \in Int
      BY <3>5, Shares
    <3>7. Filled(t)' >= Unit * (1 - Cardinality(Ahead(b)))
      BY <3>3, <3>4, <3>6
    <3>8. QED
      BY <3>2, <3>7
  <2>6. ASSUME NEW b \in DOMAIN waiting', NEW t \in Nat, now <= t, waiting'[b] <= t
        PROVE  Filled(t)' >= Unit * (1 - Cardinality(Ahead(b)'))
    <3>1. now + d \in Nat
      BY <1>1, <2>2
    <3>2. CASE now + d <= t
      BY <1>1, <2>3, <2>4, <2>6, <3>2
    <3>3. CASE t < now + d
      <4>1. b \in DOMAIN waiting
        BY <2>3, <2>6, <3>1, <3>3
      <4>2. QED
        BY <2>3, <2>5, <2>6, <3>3, <4>1
    <3> HIDE DEF d
    <3>4. QED
      BY <3>1, <3>2, <3>3
  <2>7. QED
    BY <1>2, <2>6 DEF OnTime
<1>5. QED
  BY <1>1, <1>3, <1>4

\* The one that wakes is ahead of those due later from now on; those due before it count
\* it already, and everyone it counts.
LEMMA OnTimeWake ==
  ASSUME Configured, Types, OnTime, NEW c \in Caller, WakeBulk(c)
  PROVE  OnTime'
<1>1. /\ c \in DOMAIN waiting /\ waiting[c] <= now /\ limiter = "bulk"
      /\ DOMAIN waiting' = DOMAIN waiting \ {c} /\ \A b \in DOMAIN waiting' : waiting'[b] = waiting[b]
      /\ tokens' = Refilled - Unit /\ lastRefill' = now /\ limiter' = limiter /\ now' = now
  BY DEF WakeBulk, Wakes
<1>2. /\ DOMAIN waiting \subseteq Caller /\ waiting \in [DOMAIN waiting -> Nat]
      /\ now \in Nat /\ Unit \in Nat /\ Refilled \in Int
  <2>1. Refilled \in Int
    BY Refills
  <2>2. QED
    BY <2>1 DEF Configured, Types
<1>3. Refilled >= Unit * (1 - Cardinality(Ahead(c)))
  BY Woken
<1>4. ASSUME NEW b \in DOMAIN waiting', NEW t \in Nat, now <= t, waiting[b] <= t
      PROVE  Filled(t)' >= Unit * (1 - Cardinality(Ahead(b)'))
  <2>1. b \in Caller /\ b # c /\ waiting[b] \in Nat /\ waiting[c] \in Nat
    BY <1>1, <1>2
  <2>2. /\ Filled(t)' \in Int /\ Filled(t) \in Int
        /\ Filled(t)' >= Filled(t) - Unit /\ Filled(t)' >= Refilled - Unit
    BY <1>1, <1>2, <1>4, FilledAfterUse
  <2>3. \A x \in Caller : Ahead(x) \subseteq Caller /\ Ahead(x)' \subseteq Caller
    BY DEF Ahead
  <2>4. CASE waiting[b] < waiting[c]
    <3>1. c \notin Ahead(c) /\ Ahead(c) \cup {c} \subseteq Ahead(b)'
      BY <1>1, <1>2, <2>1, <2>4 DEF Ahead
    <3>2. PICK n \in Nat : n = Cardinality(Ahead(c)) /\ Cardinality(Ahead(c) \cup {c}) = n + 1
      BY <2>3, <3>1, Groups
    <3>3. PICK m \in Nat : m = Cardinality(Ahead(b)')
      BY <2>1, <2>3, Groups
    <3>4. n + 1 <= m
      <4>1. Ahead(c) \cup {c} \subseteq Caller /\ Ahead(b)' \in SUBSET Caller
        BY <2>1, <2>3
      <4>2. Cardinality(Ahead(c) \cup {c}) <= Cardinality(Ahead(b)')
        BY <3>1, <4>1, Groups
      <4>3. QED
        BY <3>2, <3>3, <4>2
    <3>5. /\ Unit * (1 - m) <= Unit * (1 - (n + 1)) /\ Unit * (1 - (n + 1)) = Unit * (1 - n) - Unit
          /\ Unit * (1 - m) \in Int /\ Unit * (1 - n) \in Int
      <4>1. n + 1 \in Nat
        OBVIOUS
      <4>2. QED
        BY <3>4, <4>1, Shares
    <3>6. Refilled >= Unit * (1 - n)
      BY <1>3, <3>2
    <3>7. Filled(t)' >= Unit * (1 - m)
      BY <1>2, <2>2, <3>5, <3>6
    <3>8. QED
      BY <3>3, <3>7
  <2>5. CASE ~ (waiting[b] < waiting[c])
    <3>1. Ahead(b)' = Ahead(b) \cup {c} /\ c \notin Ahead(b)
      BY <1>1, <1>2, <2>1, <2>5 DEF Ahead
    <3>2. PICK n \in Nat : n = Cardinality(Ahead(b)) /\ Cardinality(Ahead(b)') = n + 1
      BY <2>1, <2>3, <3>1, Groups
    <3>3. Filled(t) >= Unit * (1 - n)
      BY <1>1, <1>4, <3>2 DEF OnTime
    <3>4. Unit * (1 - (n + 1)) = Unit * (1 - n) - Unit /\ Unit * (1 - n) \in Int
      BY Shares
    <3>5. Filled(t)' >= Unit * (1 - (n + 1))
      BY <1>2, <2>2, <3>3, <3>4
    <3>6. QED
      BY <3>2, <3>5
  <2>6. QED
    BY <2>4, <2>5
<1>5. QED
  BY <1>1, <1>4 DEF OnTime

LEMMA OnTimeStep ==
  ASSUME Configured, Types, NotStarted, OnTime, [LimitNext]_limitVars
  PROVE  OnTime'
<1>1. CASE limiter' # "bulk"
  BY <1>1 DEF OnTime
<1>2. ASSUME NEW c \in Caller, Bucket(c), limiter' = "bulk" PROVE OnTime'
  <2>1. limiter = "bulk"
    BY <1>2, Uses
  <2>2. QED
    BY <1>2, <2>1, OnTimeAcquire, OnTimeWake DEF Bucket, WakeRouter
<1>3. CASE Configure
  <2>1. DOMAIN waiting' = {}
    BY <1>3 DEF Configure, NotStarted
  <2>2. QED
    BY <2>1 DEF OnTime
<1>4. CASE InitBucket \/ Check
  BY <1>1, <1>4 DEF InitBucket, Check
<1>5. CASE LimitTick
  <2>1. now \in Nat /\ now' = now + 1 /\ UNCHANGED <<limiter, tokens, lastRefill, waiting>>
    BY <1>5 DEF LimitTick, Types, Configured
  <2>2. ASSUME NEW c \in DOMAIN waiting, NEW t \in Nat, now' <= t, waiting[c] <= t, limiter = "bulk"
        PROVE  Filled(t) >= Unit * (1 - Cardinality(Ahead(c)))
    BY <2>1, <2>2 DEF OnTime
  <2>3. \A t \in Nat : Filled(t)' = Filled(t)
    BY <2>1 DEF Filled
  <2>4. \A c \in DOMAIN waiting : Ahead(c)' = Ahead(c)
    BY <2>1 DEF Ahead
  <2>5. QED
    BY <2>1, <2>2, <2>3, <2>4 DEF OnTime
<1>6. CASE UNCHANGED limitVars
  <2>1. UNCHANGED <<limiter, tokens, lastRefill, now, waiting>>
    BY <1>6 DEF limitVars
  <2>2. QED
    BY <2>1 DEF OnTime, Filled, Ahead
<1>7. QED
  BY <1>2, <1>3, <1>4, <1>5, <1>6, <1>1 DEF LimitNext, Bucket

-----------------------------------------------------------------------------
(***************************************************************************)
(* The sliding window.                                                     *)
(***************************************************************************)
\* After pruning, the window's entries are still the last grants.
LEMMA SuffixPruned ==
  ASSUME Configured, Types, Suffix, limiter = "window"
  PROVE  /\ Valid(timestamps) \in Seq(Nat)
         /\ Len(grants) - Len(Valid(timestamps)) \in Nat
         /\ \A i \in DOMAIN Valid(timestamps) :
              Valid(timestamps)[i] = grants[Len(grants) - Len(Valid(timestamps)) + i]
         /\ \A i \in 1 .. Len(grants) - Len(Valid(timestamps)) : grants[i] <= now - Window
<1> DEFINE ts == Valid(timestamps)
           n  == Len(timestamps)
<1>1. PICK k \in 0 .. n :
        /\ \A j \in 1 .. k : timestamps[j] <= now - Window
        /\ ts \in Seq(Nat)
        /\ Len(ts) = n - k
        /\ \A i \in 1 .. n - k : ts[i] = timestamps[k + i]
  BY Pruning
<1>2. /\ n \in Nat /\ Len(grants) \in Nat /\ DOMAIN timestamps = 1 .. n /\ Pruned >= 0
      /\ Pruned = Len(grants) - n
      /\ \A i \in 1 .. n : timestamps[i] = grants[Pruned + i]
      /\ \A i \in 1 .. Pruned : grants[i] <= now - Window
  <2>1. timestamps \in Seq(Nat) /\ grants \in Seq(Nat)
    BY DEF Types
  <2>2. n \in Nat /\ Len(grants) \in Nat /\ DOMAIN timestamps = 1 .. n
    BY <2>1
  <2>3. QED
    BY <2>2 DEF Suffix, Pruned
<1> DEFINE p == Len(grants) - n
<1>3. p \in Nat /\ p + k \in Nat /\ Len(grants) - Len(ts) = p + k
  <2> HIDE DEF ts, n
  <2>1. QED
    BY <1>1, <1>2
<1>4. ASSUME NEW i \in DOMAIN ts PROVE ts[i] = grants[p + k + i]
  <2> HIDE DEF ts, n
  <2>1. i \in 1 .. n - k
    BY <1>1, <1>4
  <2>2. k + i \in 1 .. n
    BY <1>1, <1>2, <2>1
  <2>3. ts[i] = grants[p + (k + i)]
    BY <1>1, <1>2, <2>1, <2>2
  <2> HIDE DEF p
  <2>4. p + (k + i) = p + k + i
    BY <1>1, <1>3, <2>1, <2>2
  <2>5. QED
    BY <2>3, <2>4
<1>5. ASSUME NEW i \in 1 .. p + k PROVE grants[i] <= now - Window
  <2> HIDE DEF ts, n
  <2>1. CASE i <= p
    BY <1>2, <1>3, <1>5, <2>1
  <2>2. CASE i > p
    <3> DEFINE j == i - p
    <3>1. j \in 1 .. k /\ j \in 1 .. n /\ p + j = i
      BY <1>1, <1>2, <1>3, <1>5, <2>2
    <3>2. timestamps[j] <= now - Window /\ timestamps[j] = grants[p + j]
      BY <1>1, <1>2, <3>1
    <3>3. QED
      BY <3>1, <3>2
  <2>3. QED
    BY <1>3, <1>5, <2>1, <2>2
<1> HIDE DEF p
<1>6. QED
  BY <1>1, <1>3, <1>4, <1>5

LEMMA CheckStep ==
  ASSUME Configured, Types, Suffix, WindowRespected, Check
  PROVE  Suffix' /\ WindowRespected'
<1> DEFINE ts == Valid(timestamps)
           p  == Len(grants) - Len(ts)
<1>1. /\ limiter = "window" /\ limiter' = limiter /\ now' = now
      /\ \/ timestamps' = ts /\ UNCHANGED grants
         \/ Len(ts) < Limit /\ timestamps' = Append(ts, now) /\ Granted
  <2>1. ts \in Seq(Nat)
    BY SuffixPruned DEF Check
  <2>2. Len(ts) \in Nat /\ Limit \in Nat
    BY <2>1 DEF Configured
  <2>3. QED
    BY <2>2 DEF Check
<1>2. /\ ts \in Seq(Nat) /\ p \in Nat
      /\ \A i \in DOMAIN ts : ts[i] = grants[p + i]
      /\ \A i \in 1 .. p : grants[i] <= now - Window
  BY <1>1, SuffixPruned
<1>3. grants \in Seq(Nat) /\ Len(grants) \in Nat /\ now \in Nat /\ Window \in Nat /\ Limit \in Nat
  BY DEF Configured, Types
<1>4. p = Len(grants) - Len(ts) /\ Len(ts) \in Nat
  BY <1>2
<1> HIDE DEF ts, p
<1>5. CASE timestamps' = ts /\ UNCHANGED grants
  <2>1. Pruned' = p
    BY <1>4, <1>5 DEF Pruned
  <2>2. QED
    BY <1>1, <1>2, <1>5, <2>1 DEF Suffix, WindowRespected
<1>6. CASE Len(ts) < Limit /\ timestamps' = Append(ts, now) /\ Granted
  <2>1. /\ grants' \in Seq(Nat) /\ Len(grants') = Len(grants) + 1 /\ grants'[Len(grants) + 1] = now
        /\ DOMAIN grants' = DOMAIN grants \cup {Len(grants) + 1}
        /\ \A i \in DOMAIN grants : grants'[i] = grants[i]
    BY <1>6, GrantType
  <2>2. /\ Len(timestamps') = Len(ts) + 1 /\ timestamps'[Len(ts) + 1] = now
        /\ DOMAIN timestamps' = DOMAIN ts \cup {Len(ts) + 1}
        /\ \A i \in DOMAIN ts : timestamps'[i] = ts[i]
    BY <1>2, <1>3, <1>6
  <2>3. Pruned' = p
    BY <1>3, <1>4, <2>1, <2>2 DEF Pruned
  <2>4. ASSUME NEW i \in DOMAIN timestamps' PROVE timestamps'[i] = grants'[p + i]
    <3>1. CASE i \in DOMAIN ts
      <4>1. p + i \in DOMAIN grants
        BY <1>2, <1>3, <1>4, <3>1
      <4>2. QED
        BY <1>2, <2>1, <2>2, <3>1, <4>1
    <3>2. CASE i = Len(ts) + 1
      <4>1. p + i = Len(grants) + 1
        BY <1>2, <1>3, <1>4, <3>2
      <4>2. QED
        BY <2>1, <2>2, <3>2, <4>1
    <3>3. QED
      BY <2>2, <2>4, <3>1, <3>2
  <2>5. ASSUME NEW i \in 1 .. p PROVE i \in DOMAIN grants /\ grants'[i] <= now - Window
    <3>1. i \in DOMAIN grants
      BY <1>2, <1>3, <1>4
    <3>2. QED
      BY <1>2, <2>1, <3>1
  <2>6. Suffix'
    BY <1>1, <1>2, <2>3, <2>4, <2>5 DEF Suffix
  <2>7. ASSUME NEW i \in DOMAIN grants', i + Limit \in DOMAIN grants'
        PROVE  grants'[i + Limit] - grants'[i] >= Window
    <3>1. i \in DOMAIN grants /\ i \in Int
      BY <1>3, <1>4, <1>6, <2>1, <2>7
    <3>2. CASE i + Limit \in DOMAIN grants
      BY <1>1, <2>1, <3>1, <3>2 DEF WindowRespected
    <3>3. CASE i + Limit = Len(grants) + 1
      <4>1. i \in 1 .. p
        BY <1>2, <1>3, <1>4, <1>6, <3>1, <3>3
      <4>2. grants'[i] <= now - Window /\ grants'[i] \in Nat /\ grants'[i + Limit] = now
        <5>1. grants'[i] \in Nat
          BY <1>3, <2>1, <3>1
        <5>2. QED
          BY <2>1, <2>5, <3>3, <4>1, <5>1
      <4>3. QED
        BY <1>3, <4>2
    <3>4. QED
      BY <2>1, <2>7, <3>2, <3>3
  <2>8. QED
    BY <2>6, <2>7 DEF WindowRespected
<1>7. QED
  BY <1>1, <1>5, <1>6

LEMMA WindowStep ==
  ASSUME Configured, Types, NotStarted, Suffix, WindowRespected, [LimitNext]_limitVars
  PROVE  Suffix' /\ WindowRespected'
<1>1. CASE limiter' # "window"
  BY <1>1 DEF Suffix, WindowRespected
<1>2. CASE Configure
  <2>1. grants' = <<>> /\ timestamps' = <<>> /\ limiter = "none"
    BY <1>2 DEF Configure, NotStarted
  <2>2. Pruned' = 0
    BY <2>1 DEF Pruned
  <2>3. QED
    BY <2>1, <2>2 DEF Suffix, WindowRespected
<1>3. CASE Check
  BY <1>3, CheckStep
<1>4. CASE LimitTick
  <2>1. /\ now \in Nat /\ now' = now + 1 /\ Window \in Nat /\ UNCHANGED <<limiter, timestamps, grants>>
        /\ grants \in Seq(Nat) /\ timestamps \in Seq(Nat)
    BY <1>4 DEF LimitTick, Types, Configured
  <2>2. Pruned' = Pruned /\ Pruned \in Int /\ Pruned <= Len(grants)
    <3>1. Len(grants) \in Nat /\ Len(timestamps) \in Nat
      BY <2>1
    <3>2. QED
      BY <2>1, <3>1 DEF Pruned
  <2>3. ASSUME NEW i \in 1 .. Pruned, limiter = "window" PROVE grants[i] <= now' - Window
    <3>1. grants[i] \in Nat
      BY <2>1, <2>2
    <3>2. grants[i] <= now - Window
      BY <2>3 DEF Suffix
    <3>3. QED
      BY <2>1, <3>1, <3>2
  <2>4. QED
    BY <2>1, <2>2, <2>3 DEF Suffix, WindowRespected
<1>5. CASE UNCHANGED limitVars
  BY <1>5 DEF limitVars, Suffix, WindowRespected, Pruned
<1>6. QED
  BY <1>1, <1>2, <1>3, <1>4, <1>5, Uses DEF LimitNext, Bucket, InitBucket

-----------------------------------------------------------------------------
(***************************************************************************)
(* The theorems.                                                           *)
(***************************************************************************)
LEMMA Invariance == Configured => (LimitSpec => []IInv)
<1> SUFFICES ASSUME Configured PROVE LimitSpec => []IInv
  OBVIOUS
<1>1. LimitInit => IInv
  <2> SUFFICES ASSUME LimitInit PROVE IInv
    OBVIOUS
  <2>1. Types
    <3>1. Capacity * Unit \in Nat /\ MaxTime \in Nat
      BY FullBucket DEF Configured
    <3>2. QED
      BY <3>1 DEF LimitInit, Types
  <2>2. Debt
    <3>1. Capacity * Unit \in Nat /\ Overdraft * Unit \in Nat
      BY FullBucket, OverdraftType
    <3>2. tokens = Capacity * Unit
      BY DEF LimitInit
    <3> DEFINE debt == Overdraft * Unit
               full == Capacity * Unit
    <3> HIDE DEF debt, full
    <3>3. full >= 0 - debt
      BY <3>1 DEF debt, full
    <3>4. QED
      BY <3>2, <3>3 DEF Debt, debt, full
  <2>3. QED
    BY <2>1, <2>2 DEF LimitInit, IInv, NotStarted, Spent, OnTime, Suffix, RateRespected, WindowRespected
<1>2. IInv /\ [LimitNext]_limitVars => IInv'
  <2> SUFFICES ASSUME IInv, [LimitNext]_limitVars PROVE IInv'
    OBVIOUS
  <2>1. Types' /\ NotStarted' /\ Debt' /\ Spent' /\ OnTime' /\ Suffix' /\ WindowRespected'
    BY TypesStep, DebtStep, SpentStep, OnTimeStep, WindowStep DEF IInv
  <2>2. RateRespected'
    BY <2>1, RateStep DEF IInv
  <2>3. QED
    BY <2>1, <2>2 DEF IInv
<1>3. QED
  BY <1>1, <1>2, PTL DEF LimitSpec

\* Whatever the rate, the burst, the window and the number of callers: the buckets let no
\* more through than burst and refills allow (the worker's by its sleepers but one more), and
\* no window holds more than its limit.
THEOREM RateLimitsHold == Configured => (LimitSpec => []LimitsRespected)
<1> SUFFICES ASSUME Configured PROVE LimitSpec => []LimitsRespected
  OBVIOUS
<1>1. IInv => LimitsRespected
  <2> SUFFICES ASSUME IInv PROVE LimitsRespected
    OBVIOUS
  <2>1. tokens >= - (Cardinality(Caller) * Unit)
    <3> DEFINE m == Cardinality(Caller)
    <3>1. m \in Nat /\ m >= 1 /\ Unit \in Nat
      <4>1. PICK c \in Caller : TRUE
        BY DEF Configured
      <4>2. QED
        BY <4>1, AheadCounts DEF Configured
    <3>2. Overdraft \in Int /\ Overdraft <= m
      BY <3>1 DEF Overdraft
    <3>3. Overdraft * Unit <= m * Unit
      BY <3>1, <3>2, Scaling
    <3>4. Overdraft * Unit \in Nat /\ m * Unit \in Int /\ tokens \in Int
      BY <3>1, OverdraftType DEF IInv, Types
    <3>5. tokens >= 0 - Overdraft * Unit
      BY DEF IInv, Debt
    <3> DEFINE debt == Overdraft * Unit
               most == m * Unit
    <3> HIDE DEF m, debt, most
    <3>6. tokens >= - most
      BY <3>3, <3>4, <3>5 DEF debt, most
    <3>7. QED
      BY <3>6 DEF most, m
  <2>2. /\ tokens \in Int /\ tokens <= Capacity * Unit /\ Capacity * Unit \in Nat
        /\ Cardinality(Caller) * Unit \in Int
    <3>1. Cardinality(Caller) \in Int /\ Unit \in Int
      BY FS_CardinalityType DEF Configured
    <3>2. QED
      BY <3>1, FullBucket DEF IInv, Types
  <2>3. tokens \in -(Cardinality(Caller) * Unit) .. Capacity * Unit
    <3> DEFINE most == Cardinality(Caller) * Unit
               full == Capacity * Unit
    <3> HIDE DEF most, full
    <3>1. tokens \in - most .. full
      BY <2>1, <2>2 DEF most, full
    <3>2. QED
      BY <3>1 DEF most, full
  <2>4. lastRefill \in 0 .. MaxTime /\ \A i \in DOMAIN timestamps : timestamps[i] \in 0 .. now
    <3>1. MaxTime \in Nat
      BY DEF Configured
    <3>2. QED
      BY <3>1 DEF IInv, Types
  <2>5. QED
    BY <2>3, <2>4 DEF IInv, Types, LimitTypeOK, LimitsRespected
<1>2. QED
  BY <1>1, Invariance, PTL

-----------------------------------------------------------------------------
(***************************************************************************)
(* Providers.  A load that no write has overtaken holds the present rows of*)
(* the channels it has read; so the cache shows them when it ends, and the *)
(* last load to end decides from then on.                                  *)
(***************************************************************************)
OnChannels == ToSet(Channels)
StoredRow == [exists : {TRUE}, active : BOOLEAN, weight : 0 .. Weight]
Load == [at : {"load"}, left : Seq(OnChannels), found : [OnChannels -> SUBSET Provider], late : BOOLEAN]
RowInHand == [at : {"update", "deregister", "health"}, p : Provider, read : StoredRow]

ConfigTypes ==
  /\ provider \in [Provider -> {NoRow} \cup StoredRow]
  /\ cache \in [OnChannels -> SUBSET Provider]
  /\ actor \in [Actor -> {Free} \cup Load \cup RowInHand]
  /\ spoiled \in BOOLEAN /\ started \in BOOLEAN

LoadsShow ==
  \A x \in Actor : Loading(x) /\ ~ actor[x].late =>
    \A ch \in OnChannels : ch \in ToSet(actor[x].left) \/ actor[x].found[ch] = ActiveOn(ch)

FreeBefore == ~ started => \A x \in Actor : actor[x] = Free

ConfigInv == ConfigTypes /\ LoadsShow /\ FreeBefore /\ CacheFollowsRows /\ RoutedToActive
ConfigBounds == Channels \in Seq(OnChannels) /\ "none" \notin Provider /\ Weight \in Nat

LEMMA ActorFacts ==
  ASSUME ConfigTypes, NEW x \in Actor
  PROVE  /\ Loading(x) <=> actor[x] \in Load
         /\ actor[x].at \in {"update", "deregister", "health"} <=> actor[x] \in RowInHand
         /\ actor[x] = Free <=> actor[x].at = "idle"
BY DEF ConfigTypes, Loading, Load, RowInHand, Free

LEMMA LoadBegins ==
  ASSUME ConfigBounds
  PROVE  /\ NewLoad \in Load /\ NewLoad.at = "load" /\ NewLoad # Free
         /\ NewLoad.left = Channels /\ \A ch \in OnChannels : ch \in ToSet(NewLoad.left)
<1>1. NewLoad \in Load /\ NewLoad.at = "load" /\ NewLoad.left = Channels
  BY DEF ConfigBounds, NewLoad, Load, OnChannels
<1>2. NewLoad # Free
  BY <1>1 DEF Free
<1>3. QED
  BY <1>1, <1>2 DEF OnChannels

\* An actor goes on by itself.
LEMMA ActFacts ==
  ASSUME ConfigTypes, NEW x \in Actor, NEW next \in {Free} \cup Load \cup RowInHand, Act(x, next)
  PROVE  /\ actor' \in [Actor -> {Free} \cup Load \cup RowInHand]
         /\ actor'[x] = next /\ \A y \in Actor \ {x} : actor'[y] = actor[y]
BY DEF ConfigTypes, Act

\* A write: the other loads are overtaken.
LEMMA WriteFacts ==
  ASSUME ConfigTypes, NEW x \in Actor, NEW p \in Provider, NEW new \in {NoRow} \cup StoredRow,
         NEW next \in {Free} \cup Load \cup RowInHand, Written(x, p, new, next)
  PROVE  /\ provider' \in [Provider -> {NoRow} \cup StoredRow]
         /\ provider'[p] = new /\ \A q \in Provider \ {p} : provider'[q] = provider[q]
         /\ actor' \in [Actor -> {Free} \cup Load \cup RowInHand]
         /\ actor'[x] = next
         /\ \A y \in Actor \ {x} : /\ Loading(y)' <=> Loading(y)
                                   /\ Loading(y) => actor'[y].late
                                   /\ ~ Loading(y) => actor'[y] = actor[y]
<1>1. /\ provider' = [provider EXCEPT ![p] = new]
      /\ actor' = [y \in Actor |-> IF y = x THEN next ELSE IF Loading(y) THEN [actor[y] EXCEPT !.late = TRUE] ELSE actor[y]]
  BY DEF Written
<1>2. \A y \in Actor : Loading(y) => actor[y] \in Load
  BY ActorFacts
<1>3. \A l \in Load : LET k == [l EXCEPT !.late = TRUE] IN k \in Load /\ k.late /\ k.at = "load"
  BY DEF Load
<1>4. \A y \in Actor : actor'[y] \in {Free} \cup Load \cup RowInHand
  BY <1>1, <1>2, <1>3 DEF ConfigTypes
<1>5. actor' = [y \in Actor |-> actor'[y]]
  BY <1>1
<1>6. \A y \in Actor \ {x} : /\ Loading(y) => actor'[y].late /\ actor'[y].at = "load"
                             /\ ~ Loading(y) => actor'[y] = actor[y]
  BY <1>1, <1>2, <1>3
<1>7. QED
  BY <1>1, <1>4, <1>5, <1>6 DEF ConfigTypes, Loading

\* A write that reloads keeps the invariant: its own load covers it, and the others are late.
LEMMA WriteKeeps ==
  ASSUME ConfigBounds, ConfigInv, started, NEW x \in Actor, NEW p \in Provider, NEW new \in {NoRow} \cup StoredRow,
         Written(x, p, new, NewLoad), UNCHANGED <<cache, routed, spoiled, started>>
  PROVE  ConfigInv'
<1>1. ConfigTypes
  BY DEF ConfigInv
<1>2. /\ NewLoad \in Load /\ NewLoad.at = "load" /\ \A ch \in OnChannels : ch \in ToSet(NewLoad.left)
  BY LoadBegins
<1>3. /\ provider' \in [Provider -> {NoRow} \cup StoredRow]
      /\ actor' \in [Actor -> {Free} \cup Load \cup RowInHand]
      /\ actor'[x] = NewLoad
      /\ \A y \in Actor \ {x} : (Loading(y)' <=> Loading(y)) /\ (Loading(y) => actor'[y].late)
  BY <1>1, <1>2, WriteFacts
<1>4. ConfigTypes'
  BY <1>1, <1>3 DEF ConfigTypes
<1>5. LoadsShow'
  BY <1>2, <1>3 DEF LoadsShow, OnChannels
<1>6. Loading(x)'
  BY <1>2, <1>3 DEF Loading
<1>7. QED
  BY <1>4, <1>5, <1>6 DEF ConfigInv, FreeBefore, CacheFollowsRows, RoutedToActive

\* A step that writes no row.
LEMMA RowsStay ==
  ASSUME UNCHANGED provider
  PROVE  GoneStaysGone /\ \A ch : ActiveOn(ch)' = ActiveOn(ch)
BY DEF GoneStaysGone, ActiveOn

LEMMA RegisterKeeps ==
  ASSUME ConfigBounds, ConfigInv, NEW x \in Actor, NEW p \in Provider, NEW active \in BOOLEAN,
         NEW weight \in 0 .. Weight, Register(x, p, active, weight)
  PROVE  ConfigInv' /\ GoneStaysGone
<1> DEFINE new == [exists |-> TRUE, active |-> active, weight |-> weight]
<1>1. new \in StoredRow
  BY DEF StoredRow
<1>2. /\ started /\ x \in Admin /\ actor[x] = Free /\ Written(x, p, new, NewLoad)
      /\ UNCHANGED <<cache, routed, spoiled, started>>
  BY DEF Register
<1> HIDE DEF new
<1>3. ConfigInv'
  BY <1>1, <1>2, WriteKeeps
<1>4. ConfigTypes
  BY DEF ConfigInv
<1>5. actor'[x] = NewLoad
  BY <1>1, <1>2, <1>4, LoadBegins, WriteFacts
<1>6. QED
  BY <1>2, <1>3, <1>5, LoadBegins DEF GoneStaysGone

\* An actor with a row in hand had found it, and the service had started.
LEMMA InHandFacts ==
  ASSUME ConfigInv, NEW x \in Actor, actor[x].at \in {"update", "deregister", "health"}
  PROVE  /\ started /\ actor[x].p \in Provider /\ actor[x].read \in StoredRow /\ actor[x].read.exists
<1>1. actor[x] \in RowInHand /\ actor[x] # Free
  BY ActorFacts DEF ConfigInv, Free
<1>2. QED
  BY <1>1 DEF ConfigInv, FreeBefore, RowInHand, StoredRow, ConfigTypes

LEMMA UpdateKeeps ==
  ASSUME ConfigBounds, ConfigInv, NEW x \in Actor, NEW active \in BOOLEAN, NEW weight \in 0 .. Weight,
         UpdateConfig(x, active, weight)
  PROVE  ConfigInv' /\ GoneStaysGone
<1> DEFINE new == [exists |-> TRUE, active |-> active, weight |-> weight]
<1>1. new \in StoredRow
  BY DEF StoredRow
<1>2. /\ actor[x].at = "update" /\ Written(x, actor[x].p, new, NewLoad)
      /\ UNCHANGED <<cache, routed, spoiled, started>>
  BY DEF UpdateConfig
<1> HIDE DEF new
<1>3. started /\ actor[x].p \in Provider /\ actor[x].read.exists
  BY <1>2, InHandFacts
<1>4. ConfigTypes
  BY DEF ConfigInv
<1>5. ConfigInv'
  BY <1>1, <1>2, <1>3, WriteKeeps
<1>6. actor'[x] = NewLoad
  BY <1>1, <1>2, <1>3, <1>4, LoadBegins, WriteFacts
<1>7. actor'[x] # actor[x]
  BY <1>2, <1>6, LoadBegins
<1>8. QED
  BY <1>2, <1>3, <1>5, <1>7 DEF GoneStaysGone

LEMMA DeregisterKeeps ==
  ASSUME ConfigBounds, ConfigInv, NEW x \in Actor, Deregister(x)
  PROVE  ConfigInv' /\ GoneStaysGone
<1>1. /\ actor[x].at = "deregister" /\ Written(x, actor[x].p, NoRow, NewLoad)
      /\ UNCHANGED <<cache, routed, spoiled, started>>
  BY DEF Deregister
<1>2. started /\ actor[x].p \in Provider /\ ConfigTypes
  BY <1>1, InHandFacts DEF ConfigInv
<1>3. ConfigInv'
  BY <1>1, <1>2, WriteKeeps
<1>4. PICK p \in Provider : p = actor[x].p
  BY <1>2
<1>5. provider'[p] = NoRow /\ \A q \in Provider \ {p} : provider'[q] = provider[q]
  <2>1. Written(x, p, NoRow, NewLoad) /\ NewLoad \in Load
    BY <1>1, <1>4, LoadBegins
  <2>2. QED
    BY <1>2, <2>1, WriteFacts
<1>6. QED
  BY <1>3, <1>5 DEF GoneStaysGone, NoRow

LEMMA HealthKeeps ==
  ASSUME ConfigBounds, ConfigInv, NEW x \in Actor, SaveHealth(x)
  PROVE  ConfigInv' /\ GoneStaysGone
<1> DEFINE p == actor[x].p
           read == actor[x].read
<1>1. /\ actor[x].at = "health" /\ Written(x, p, read, Free)
      /\ spoiled' = (spoiled \/ provider[p] # read)
      /\ UNCHANGED <<cache, routed, started>>
  BY DEF SaveHealth
<1>2. started /\ p \in Provider /\ read \in StoredRow /\ read.exists /\ ConfigTypes
  BY <1>1, InHandFacts DEF ConfigInv
<1>3. ~ Loading(x)
  BY <1>1 DEF Loading
<1> HIDE DEF p, read
<1>4. /\ provider' \in [Provider -> {NoRow} \cup StoredRow]
      /\ provider'[p] = read /\ \A q \in Provider \ {p} : provider'[q] = provider[q]
      /\ actor' \in [Actor -> {Free} \cup Load \cup RowInHand]
      /\ actor'[x] = Free
      /\ \A y \in Actor \ {x} : (Loading(y)' <=> Loading(y)) /\ (Loading(y) => actor'[y].late)
  BY <1>1, <1>2, WriteFacts
<1>5. ~ Loading(x)'
  BY <1>4 DEF Loading, Free
<1>6. ConfigTypes'
  BY <1>1, <1>2, <1>4 DEF ConfigTypes
<1>7. LoadsShow'
  BY <1>4, <1>5 DEF LoadsShow
<1>8. CacheFollowsRows'
  <2> SUFFICES ASSUME ~ spoiled', \A y \in Actor : ~ Loading(y)', NEW ch \in DOMAIN cache
               PROVE  cache[ch] = ActiveOn(ch)'
    BY <1>1 DEF CacheFollowsRows
  <2>1. provider[p] = read /\ ~ spoiled
    BY <1>1
  <2>2. provider' = provider
    BY <1>2, <1>4, <2>1 DEF ConfigTypes
  <2>3. \A y \in Actor : ~ Loading(y)
    BY <1>3, <1>4
  <2>4. QED
    BY <1>2, <2>1, <2>2, <2>3 DEF ConfigInv, CacheFollowsRows, ActiveOn
<1>9. actor'[x] # actor[x]
  BY <1>1, <1>4 DEF Free
<1>10. GoneStaysGone
  BY <1>1, <1>2, <1>9 DEF GoneStaysGone, read
<1>11. QED
  BY <1>1, <1>2, <1>6, <1>7, <1>8, <1>10 DEF ConfigInv, FreeBefore, RoutedToActive

\* A request or the monitor finds a row; a refresh begins.
LEMMA BeginsKeep ==
  ASSUME ConfigBounds, ConfigInv, started, NEW x \in Actor, actor[x] = Free,
         NEW next \in RowInHand \cup {NewLoad}, Act(x, next),
         UNCHANGED <<provider, cache, routed, spoiled, started>>
  PROVE  ConfigInv' /\ GoneStaysGone
<1>1. ConfigTypes /\ next \in {Free} \cup Load \cup RowInHand
  BY LoadBegins DEF ConfigInv
<1>2. /\ actor' \in [Actor -> {Free} \cup Load \cup RowInHand]
      /\ actor'[x] = next /\ \A y \in Actor \ {x} : actor'[y] = actor[y]
  BY <1>1, ActFacts
<1>3. ConfigTypes'
  BY <1>1, <1>2 DEF ConfigTypes
<1>4. Loading(x)' => actor'[x] = NewLoad
  BY <1>2 DEF Loading, RowInHand
<1>5. ~ Loading(x)
  BY DEF Loading, Free
<1>6. \A y \in Actor \ {x} : Loading(y)' <=> Loading(y)
  BY <1>2 DEF Loading
<1>7. LoadsShow'
  BY <1>2, <1>4, <1>6, LoadBegins, RowsStay DEF ConfigInv, LoadsShow, OnChannels
<1>8. CacheFollowsRows'
  BY <1>5, <1>6, RowsStay DEF ConfigInv, CacheFollowsRows
<1>9. QED
  BY <1>3, <1>7, <1>8, RowsStay DEF ConfigInv, FreeBefore, RoutedToActive

LEMMA LoadKeeps ==
  ASSUME ConfigBounds, ConfigInv, NEW x \in Actor, LoadChannel(x)
  PROVE  ConfigInv' /\ GoneStaysGone
<1> DEFINE left == actor[x].left
           ch == Head(left)
           next == [actor[x] EXCEPT !.left = Tail(@), !.found[ch] = ActiveOn(ch)]
<1>1. /\ Loading(x) /\ left # <<>> /\ Act(x, next)
      /\ UNCHANGED <<provider, cache, routed, spoiled, started>>
  BY DEF LoadChannel
<1>2. ConfigTypes /\ actor[x] \in Load
  BY <1>1, ActorFacts DEF ConfigInv
<1>3. left \in Seq(OnChannels) /\ actor[x].found \in [OnChannels -> SUBSET Provider]
  BY <1>2 DEF Load
<1>4. /\ ch \in OnChannels /\ Tail(left) \in Seq(OnChannels)
      /\ \A k \in ToSet(left) : k = ch \/ k \in ToSet(Tail(left))
  <2>1. ch \in OnChannels /\ Tail(left) \in Seq(OnChannels)
    BY <1>1, <1>3
  <2>2. ASSUME NEW k \in ToSet(left) PROVE k = ch \/ k \in ToSet(Tail(left))
    <3>1. PICK i \in 1 .. Len(left) : k = left[i]
      BY <1>3 DEF ToSet
    <3>2. CASE i = 1
      BY <1>1, <1>3, <3>1, <3>2
    <3>3. CASE i # 1
      <4>1. i - 1 \in 1 .. Len(Tail(left)) /\ Tail(left)[i - 1] = left[i]
        BY <1>1, <1>3, <3>3
      <4>2. DOMAIN Tail(left) = 1 .. Len(Tail(left))
        BY <2>1
      <4>3. Tail(left)[i - 1] \in ToSet(Tail(left))
        BY <4>1, <4>2 DEF ToSet
      <4>4. QED
        BY <3>1, <4>1, <4>3
    <3>4. QED
      BY <3>2, <3>3
  <2>3. QED
    BY <2>1, <2>2
<1>5. ActiveOn(ch) \in SUBSET Provider
  BY DEF ActiveOn
<1>6. /\ next \in Load /\ next.at = "load" /\ next.left = Tail(left) /\ next.late = actor[x].late
      /\ next.found[ch] = ActiveOn(ch) /\ \A k \in OnChannels \ {ch} : next.found[k] = actor[x].found[k]
  BY <1>2, <1>3, <1>4, <1>5 DEF Load
<1> HIDE DEF next
<1>7. /\ actor' \in [Actor -> {Free} \cup Load \cup RowInHand]
      /\ actor'[x] = next /\ \A y \in Actor \ {x} : actor'[y] = actor[y]
  BY <1>1, <1>2, <1>6, ActFacts
<1>8. ConfigTypes'
  BY <1>1, <1>2, <1>7 DEF ConfigTypes
<1>9. \A y \in Actor : Loading(y)' <=> Loading(y)
  BY <1>1, <1>6, <1>7 DEF Loading
<1>10. LoadsShow'
  <2> SUFFICES ASSUME NEW y \in Actor, Loading(y)', ~ actor'[y].late, NEW k \in OnChannels
               PROVE  k \in ToSet(actor'[y].left) \/ actor'[y].found[k] = ActiveOn(k)
    BY <1>1, RowsStay DEF LoadsShow, OnChannels
  <2>1. CASE y = x
    <3>1. k \in ToSet(left) \/ actor[x].found[k] = ActiveOn(k)
      BY <1>1, <1>6, <1>7, <2>1 DEF ConfigInv, LoadsShow
    <3>2. CASE k = ch
      BY <1>6, <1>7, <2>1, <3>2
    <3>3. CASE k # ch
      BY <1>4, <1>6, <1>7, <2>1, <3>1, <3>3
    <3>4. QED
      BY <3>2, <3>3
  <2>2. CASE y # x
    BY <1>7, <1>9, <2>2 DEF ConfigInv, LoadsShow
  <2>3. QED
    BY <2>1, <2>2
<1>11. CacheFollowsRows'
  BY <1>1, <1>9, RowsStay DEF ConfigInv, CacheFollowsRows
<1>12. started
  BY <1>1 DEF ConfigInv, FreeBefore, Loading, Free
<1>13. QED
  BY <1>1, <1>8, <1>10, <1>11, <1>12, RowsStay DEF ConfigInv, FreeBefore, RoutedToActive

\* A load ends, or one of its queries fails.
LEMMA EndKeeps ==
  ASSUME ConfigBounds, ConfigInv, NEW x \in Actor, LoadEnds(x) \/ LoadFails(x)
  PROVE  ConfigInv' /\ GoneStaysGone
<1>1. /\ Loading(x) /\ Act(x, Free) /\ UNCHANGED <<provider, routed, started>>
      /\ \/ cache' = actor[x].found /\ spoiled' = actor[x].late /\ actor[x].left = <<>>
         \/ cache' = cache /\ spoiled' = TRUE
  BY DEF LoadEnds, LoadFails, LoadedRows
<1>2. ConfigTypes /\ actor[x] \in Load
  BY <1>1, ActorFacts DEF ConfigInv
<1>3. actor[x].found \in [OnChannels -> SUBSET Provider] /\ actor[x].late \in BOOLEAN
  BY <1>2 DEF Load
<1>4. /\ actor' \in [Actor -> {Free} \cup Load \cup RowInHand]
      /\ actor'[x] = Free /\ \A y \in Actor \ {x} : actor'[y] = actor[y]
  BY <1>1, <1>2, ActFacts
<1>5. ConfigTypes'
  BY <1>1, <1>2, <1>3, <1>4 DEF ConfigTypes
<1>6. ~ Loading(x)' /\ \A y \in Actor \ {x} : Loading(y)' <=> Loading(y)
  BY <1>4 DEF Loading, Free
<1>7. LoadsShow'
  BY <1>1, <1>4, <1>6, RowsStay DEF ConfigInv, LoadsShow, OnChannels
<1>8. CacheFollowsRows'
  <2> SUFFICES ASSUME ~ spoiled', NEW ch \in DOMAIN cache' PROVE cache'[ch] = ActiveOn(ch)
    BY <1>1, RowsStay DEF CacheFollowsRows
  <2>1. cache' = actor[x].found /\ ~ actor[x].late /\ actor[x].left = <<>>
    BY <1>1
  <2>2. ToSet(actor[x].left) = {}
    BY <2>1 DEF ToSet
  <2>3. ch \in OnChannels
    BY <1>3, <2>1
  <2>4. QED
    BY <1>1, <2>1, <2>2, <2>3 DEF ConfigInv, LoadsShow
<1>9. started
  BY <1>1 DEF ConfigInv, FreeBefore, Loading, Free
<1>10. QED
  BY <1>1, <1>5, <1>7, <1>8, <1>9, RowsStay DEF ConfigInv, FreeBefore, RoutedToActive

LEMMA StartKeeps ==
  ASSUME ConfigBounds, ConfigInv, Start
  PROVE  ConfigInv' /\ GoneStaysGone
<1> DEFINE present == [exists |-> TRUE, active |-> TRUE, weight |-> Weight]
<1>1. /\ ~ started /\ started'
      /\ provider' \in [Provider -> {NoRow, present}]
      /\ cache' = [ch \in OnChannels |-> {p \in Provider : ChannelOf[p] = ch /\ provider'[p].active}]
      /\ UNCHANGED <<actor, routed, spoiled>>
  BY DEF Start, OnChannels
<1>2. present \in StoredRow
  BY DEF StoredRow, ConfigBounds
<1>3. provider' \in [Provider -> {NoRow} \cup StoredRow]
  BY <1>1, <1>2
<1>4. \A p \in Provider : provider'[p].active => provider'[p].exists
  BY <1>1 DEF NoRow
<1> HIDE DEF present
<1>5. cache' \in [OnChannels -> SUBSET Provider] /\ DOMAIN cache' = OnChannels
  BY <1>1
<1>6. started' \in BOOLEAN
  BY DEF Start
<1>7. ConfigTypes'
  BY <1>1, <1>3, <1>5, <1>6 DEF ConfigInv, ConfigTypes
<1>8. \A x \in Actor : actor[x] = Free /\ ~ Loading(x)
  BY <1>1 DEF ConfigInv, FreeBefore, Loading, Free
<1>9. \A ch \in OnChannels : cache'[ch] = ActiveOn(ch)'
  BY <1>1, <1>4 DEF ActiveOn
<1>10. QED
  BY <1>1, <1>5, <1>7, <1>8, <1>9 DEF ConfigInv, LoadsShow, Loading, FreeBefore, CacheFollowsRows, RoutedToActive, GoneStaysGone

\* While the cache is sure to show the rows, the choice falls on an active provider.
LEMMA ResolveKeeps ==
  ASSUME ConfigBounds, ConfigInv, NEW ch \in OnChannels, ResolveProvider(ch)
  PROVE  ConfigInv' /\ GoneStaysGone
<1>1. PICK p \in Provider \cup {"none"} :
        /\ IF Candidates(ch) = {} THEN p = "none" ELSE Chosen(Candidates(ch), p)
        /\ routed' = [from |-> ch, to |-> p, wanted |-> ActiveOn(ch),
                      sure |-> ~spoiled /\ \A x \in Actor : ~Loading(x)]
  BY DEF ResolveProvider
<1>2. started /\ UNCHANGED <<provider, cache, actor, spoiled, started>>
  BY DEF ResolveProvider
<1>3. ConfigTypes
  BY DEF ConfigInv
<1>4. routed'.sure => Candidates(ch) = ActiveOn(ch)
  <2> SUFFICES ASSUME ~ spoiled, \A x \in Actor : ~ Loading(x) PROVE Candidates(ch) = ActiveOn(ch)
    BY <1>1
  <2>1. ch \in DOMAIN cache
    BY <1>3 DEF ConfigTypes
  <2>2. cache[ch] = ActiveOn(ch)
    BY <1>2, <2>1 DEF ConfigInv, CacheFollowsRows
  <2>3. QED
    BY <2>2 DEF Candidates
<1>5. ActiveOn(ch) \subseteq Provider
  BY DEF ActiveOn
<1>6. RoutedToActive'
  <2> SUFFICES ASSUME routed'.sure
               PROVE  IF p = "none" THEN ActiveOn(ch) = {} \/ routingMode = "failover" ELSE p \in ActiveOn(ch)
    BY <1>1 DEF RoutedToActive
  <2>1. CASE ActiveOn(ch) = {}
    BY <1>1, <1>4, <2>1
  <2>2. CASE ActiveOn(ch) # {}
    <3>1. Chosen(ActiveOn(ch), p)
      BY <1>1, <1>4, <2>2
    <3>2. p \in ActiveOn(ch) \/ (routingMode = "failover" /\ p \in ActiveOn(ch) \cup {"none"})
      BY <3>1 DEF Chosen
    <3>3. QED
      BY <1>5, <3>2 DEF ConfigBounds
  <2>3. QED
    BY <2>1, <2>2
<1>7. QED
  BY <1>2, <1>3, <1>6, RowsStay DEF ConfigInv, ConfigTypes, LoadsShow, Loading, FreeBefore, CacheFollowsRows

LEMMA ConfigStarts == ConfigBounds /\ RouterInit => ConfigInv
<1> SUFFICES ASSUME ConfigBounds, RouterInit PROVE ConfigInv
  OBVIOUS
<1>1. ConfigTypes
  BY DEF RouterInit, ConfigTypes, OnChannels
<1>2. \A x \in Actor : ~ Loading(x)
  BY DEF RouterInit, Loading, Free
<1>3. QED
  BY <1>1, <1>2 DEF RouterInit, ConfigInv, LoadsShow, FreeBefore, CacheFollowsRows, RoutedToActive, NoChoice

LEMMA ConfigSteps == ConfigBounds /\ ConfigInv /\ [RouterNext]_routerVars => ConfigInv' /\ GoneStaysGone
<1> SUFFICES ASSUME ConfigBounds, ConfigInv, [RouterNext]_routerVars PROVE ConfigInv' /\ GoneStaysGone
  OBVIOUS
<1>1. ASSUME NEW x \in Actor, NEW p \in Provider, NEW op \in {"update", "deregister", "health"},
             Find(x, p, op) \/ MonitorCheck(x, p)
      PROVE  ConfigInv' /\ GoneStaysGone
  <2> DEFINE next(o) == [at |-> o, p |-> p, read |-> provider[p]]
  <2>1. /\ started /\ actor[x] = Free /\ provider[p].exists /\ (Act(x, next(op)) \/ Act(x, next("health")))
        /\ UNCHANGED <<provider, cache, routed, spoiled, started>>
    BY <1>1 DEF Find, MonitorCheck
  <2>2. provider[p] \in StoredRow
    BY <2>1 DEF ConfigInv, ConfigTypes, NoRow
  <2>3. next(op) \in RowInHand /\ next("health") \in RowInHand
    BY <2>2 DEF RowInHand
  <2> HIDE DEF next
  <2>4. QED
    BY <2>1, <2>3, BeginsKeep
<1>2. ASSUME NEW x \in Actor, RefreshTimer(x) PROVE ConfigInv' /\ GoneStaysGone
  BY <1>2, BeginsKeep DEF RefreshTimer
<1>3. CASE UNCHANGED routerVars
  <2>1. \A ch : ActiveOn(ch)' = ActiveOn(ch)
    BY <1>3 DEF ActiveOn, routerVars
  <2>2. QED
    BY <1>3, <2>1 DEF routerVars, ConfigInv, ConfigTypes, LoadsShow, Loading, FreeBefore, CacheFollowsRows,
                      RoutedToActive, GoneStaysGone
<1>4. QED
  BY <1>1, <1>2, <1>3, RegisterKeeps, UpdateKeeps, DeregisterKeeps, HealthKeeps, LoadKeeps, EndKeeps,
     StartKeeps, ResolveKeeps DEF RouterNext, OnChannels

\* Whatever writes, reloads and failures overlap: once the loads have ended and none was overtaken, failed or
\* undone by a stale row, the cache shows the active rows and deliveries go to one of them; and a removed
\* provider comes back only through a write that had read it, or its registration.
THEOREM ProvidersHold == ConfigBounds => (RouterSpec => RoutedAsConfigured)
<1> SUFFICES ASSUME ConfigBounds PROVE RouterSpec => RoutedAsConfigured
  OBVIOUS
<1>1. RouterInit => ConfigInv
  BY ConfigStarts
<1>2. ConfigInv /\ [RouterNext]_routerVars => ConfigInv' /\ GoneStaysGone
  BY ConfigSteps
<1>3. ConfigInv => RouterTypeOK /\ CacheFollowsRows /\ RoutedToActive
  <2> SUFFICES ASSUME ConfigInv PROVE RouterTypeOK
    BY DEF ConfigInv
  <2>1. \A p \in Provider : provider[p].exists \in BOOLEAN /\ (provider[p].active => provider[p].exists)
    <3>1. NoRow.exists = FALSE /\ NoRow.active = FALSE
      BY DEF NoRow
    <3>2. \A new \in StoredRow : new.exists = TRUE
      BY DEF StoredRow
    <3>3. \A p \in Provider : provider[p] = NoRow \/ provider[p] \in StoredRow
      BY DEF ConfigInv, ConfigTypes
    <3>4. QED
      BY <3>1, <3>2, <3>3
  <2>2. QED
    BY <2>1 DEF ConfigInv, ConfigTypes, RouterTypeOK
<1>4. QED
  BY <1>1, <1>2, <1>3, PTL DEF RouterSpec, RoutedAsConfigured

-----------------------------------------------------------------------------
(***************************************************************************)
(* CircuitBreaker, for every threshold, window, cooldown and number of     *)
(* concurrent runs, row writers and restarts.                              *)
(***************************************************************************)
\* What every copy of the breaker's columns keeps: an entry that is not closed has
\* a last failure, and a closed one is short of the threshold.
Sound(r) == /\ r.state # "CLOSED" => r.lastFailureAt # Never
            /\ r.state = "CLOSED" => r.failureCount < FailureThreshold

\* The invariant: the row and every value about to be written to it are as sound as
\* the entry, since a restart may load any of them.
BreakerInv == /\ TypeOK
        /\ Sound(entry)
        /\ NeverWedged
        /\ Sound(row)
        /\ \A w \in Writer : writer[w].st = "save" => Sound(writer[w].row)

-----------------------------------------------------------------------------

LEMMA Instants == /\ MaxAge \in Nat /\ 0 \in Instant /\ Never \in Instant
                  /\ \A t \in Instant : /\ Older(t) \in Instant
                                        /\ t # Never => Older(t) # Never
BY BreakerAssumption DEF MaxAge, Instant, Older

\* The entries the state machine makes: all types, all sound, never wedged.
Good(e) == /\ e \in Entry
           /\ Sound(e)
           /\ e.state = "OPEN" => e.openedAt # Never

LEMMA FreshGood == Good(Fresh)
BY BreakerAssumption, Instants DEF Good, Fresh, Entry, State, Sound

LEMMA CountingType ==
  ASSUME NEW e \in Entry
  PROVE  /\ Counting(e) \in Entry
         /\ Counting(e).lastFailureAt = e.lastFailureAt
<1>1. 0 \in 0 .. SuccessThreshold
  BY BreakerAssumption
<1> DEFINE f == [e EXCEPT !.successCount = 0]
<1>2. f \in Entry /\ f.lastFailureAt = e.lastFailureAt
  BY <1>1 DEF Entry
<1>3. Counting(e) = [f EXCEPT !.halfOpenAttempts = 0]
  BY DEF Counting
<1> HIDE DEF f
<1>4. QED
  BY <1>2, <1>3 DEF Entry

LEMMA ToOpenGood ==
  ASSUME NEW e \in Entry, e.lastFailureAt # Never
  PROVE  Good(ToOpen(e))
<1> DEFINE f == Counting(e)
<1>1. f \in Entry /\ f.lastFailureAt # Never
  BY CountingType
<1>2. ToOpen(e) = [f EXCEPT !.state = "OPEN", !.openedAt = 0]
  BY DEF ToOpen
<1> HIDE DEF f
<1>3. ToOpen(e) \in Entry
  BY <1>1, <1>2, Instants DEF Entry, State
<1>4. /\ ToOpen(e).state = "OPEN"
      /\ ToOpen(e).openedAt = 0
      /\ ToOpen(e).lastFailureAt # Never
  BY <1>1, <1>2 DEF Entry
<1>5. 0 # Never
  BY BreakerAssumption
<1>6. QED
  BY <1>3, <1>4, <1>5 DEF Good, Sound

LEMMA PolledGood ==
  ASSUME NEW e, Good(e)
  PROVE  Good(Polled(e))
<1>1. CASE e.state = "OPEN" /\ CooldownElapsed(e)
  <2>1. e \in Entry /\ e.lastFailureAt # Never
    BY <1>1 DEF Good, Sound
  <2>2. Counting(e) \in Entry /\ Counting(e).lastFailureAt # Never
    BY <2>1, CountingType
  <2>3. /\ ToHalfOpen(e) \in Entry
        /\ ToHalfOpen(e).state = "HALF_OPEN"
        /\ ToHalfOpen(e).lastFailureAt # Never
    BY <2>2 DEF ToHalfOpen, Entry, State
  <2>4. Polled(e) = ToHalfOpen(e)
    BY <1>1 DEF Polled
  <2>5. QED
    BY <2>3, <2>4 DEF Good, Sound
<1>2. CASE ~ (e.state = "OPEN" /\ CooldownElapsed(e))
  BY <1>2 DEF Polled
<1>3. QED
  BY <1>1, <1>2

LEMMA SuccessGood ==
  ASSUME NEW e, Good(e)
  PROVE  Good(AfterSuccess(e))
<1>1. CASE e.state = "HALF_OPEN"
  <2>1. CASE e.successCount + 1 >= SuccessThreshold
    BY <1>1, <2>1, FreshGood DEF AfterSuccess
  <2>2. CASE ~ (e.successCount + 1 >= SuccessThreshold)
    BY <1>1, <2>2, BreakerAssumption DEF AfterSuccess, Good, Entry, State, Sound
  <2>3. QED
    BY <2>1, <2>2
<1>2. CASE e.state = "CLOSED"
  BY <1>2, BreakerAssumption DEF AfterSuccess, Good, Entry, State, Sound
<1>3. CASE e.state = "OPEN"
  BY <1>3 DEF AfterSuccess
<1>4. QED
  BY <1>1, <1>2, <1>3 DEF Good, Entry, State

LEMMA CountedType ==
  ASSUME NEW e, Good(e), e.state = "CLOSED"
  PROVE  /\ Counted(e) \in Entry
         /\ Counted(e).state = "CLOSED"
         /\ Counted(e).lastFailureAt # Never
         /\ Counted(e).failureCount = Failures(e)
<1>1. Failures(e) \in 0 .. FailureThreshold
  BY BreakerAssumption DEF Good, Failures, Entry, Sound
<1>2. e \in Entry
  BY DEF Good
<1>3. Counted(e) \in Entry
  BY <1>1, <1>2, Instants DEF Counted, Entry
<1>4. /\ Counted(e).state = "CLOSED"
      /\ Counted(e).lastFailureAt = 0
      /\ Counted(e).failureCount = Failures(e)
  BY <1>2 DEF Counted, Entry
<1>5. 0 # Never
  BY BreakerAssumption
<1>6. QED
  BY <1>3, <1>4, <1>5

LEMMA FailureGood ==
  ASSUME NEW e, Good(e)
  PROVE  Good(AfterFailure(e))
<1>1. CASE e.state = "HALF_OPEN"
  BY <1>1, ToOpenGood DEF AfterFailure, Good, Sound
<1>2. CASE e.state = "CLOSED"
  <2>1. CASE Failures(e) >= FailureThreshold
    BY <1>2, <2>1, CountedType, ToOpenGood DEF AfterFailure
  <2>2. CASE ~ (Failures(e) >= FailureThreshold)
    <3>1. Failures(e) \in Nat
      BY <1>2, BreakerAssumption DEF Good, Failures, Entry
    <3>2. AfterFailure(e) = Counted(e)
      BY <1>2, <2>2 DEF AfterFailure
    <3>3. QED
      BY <1>2, <2>2, <3>1, <3>2, CountedType, BreakerAssumption DEF Good, Sound
  <2>3. QED
    BY <2>1, <2>2
<1>3. CASE e.state = "OPEN"
  BY <1>3 DEF AfterFailure
<1>4. QED
  BY <1>1, <1>2, <1>3 DEF Good, Entry, State

LEMMA LoadedGood ==
  ASSUME NEW r \in Row, Sound(r)
  PROVE  Good(Loaded(r))
BY BreakerAssumption, Instants DEF Good, Loaded, Entry, Row, State, Sound

LEMMA StoredSound ==
  ASSUME NEW e, Good(e)
  PROVE  Stored(e) \in Row /\ Sound(Stored(e))
BY DEF Good, Stored, Entry, Row, Sound

LEMMA OlderRowSound ==
  ASSUME NEW r \in Row, Sound(r)
  PROVE  OlderRow(r) \in Row /\ Sound(OlderRow(r))
BY Instants DEF OlderRow, Row, Sound

-----------------------------------------------------------------------------

EntryGood == Good(entry)
WriterGood == /\ writer \in [Writer -> [st : {"idle", "find"}] \cup [st : {"save"}, row : Row]]
              /\ \A w \in Writer : writer[w].st = "save" => Sound(writer[w].row)
RowGood   == row \in Row /\ Sound(row)
RestTyped == /\ call \in [Call -> {"idle", "acquire", "sending"}]
             /\ healthy \in BOOLEAN
             /\ probes \in 0 .. HalfOpenMaxAttempts + 1
             /\ streak \in 0 .. SuccessThreshold
             /\ restarts \in 0 .. MaxRestarts

LEMMA InvParts == BreakerInv <=> EntryGood /\ WriterGood /\ RowGood /\ RestTyped
BY DEF BreakerInv, TypeOK, NeverWedged, EntryGood, Good, WriterGood, RowGood, RestTyped

LEMMA InvPartsNext == BreakerInv' <=> EntryGood' /\ WriterGood' /\ RowGood' /\ RestTyped'
BY DEF BreakerInv, TypeOK, NeverWedged, EntryGood, Good, WriterGood, RowGood, RestTyped

\* A transition replaces the entry by a good one and at most starts a writer.
LEMMA BecomeGood ==
  ASSUME EntryGood, WriterGood, NEW e, Good(e), Become(e)
  PROVE  EntryGood' /\ WriterGood'
<1>1. EntryGood'
  BY DEF Become, EntryGood, Good, Sound
<1>2. CASE UNCHANGED writer
  BY <1>1, <1>2 DEF WriterGood, Sound
<1>3. CASE \E w \in IdleWriters : writer' = [writer EXCEPT ![w] = [st |-> "find"]]
  <2>1. PICK w \in IdleWriters : writer' = [writer EXCEPT ![w] = [st |-> "find"]]
    BY <1>3
  <2>2. w \in Writer
    BY DEF IdleWriters
  <2>3. writer' \in [Writer -> [st : {"idle", "find"}] \cup [st : {"save"}, row : Row]]
    BY <2>1, <2>2 DEF WriterGood
  <2>4. ASSUME NEW v \in Writer, writer'[v].st = "save" PROVE Sound(writer'[v].row)
    BY <2>1, <2>2, <2>4 DEF WriterGood
  <2>5. QED
    BY <1>1, <2>3, <2>4 DEF WriterGood, Sound
<1>4. QED
  BY <1>1, <1>2, <1>3 DEF Become

LEMMA InitGood == ASSUME Init PROVE BreakerInv
<1>1. EntryGood
  BY FreshGood DEF Init, EntryGood
<1>2. RowGood
  BY FreshGood, StoredSound DEF Init, RowGood
<1>3. WriterGood
  BY DEF Init, WriterGood
<1>4. RestTyped
  <2>1. call \in [Call -> {"idle", "acquire", "sending"}] /\ healthy \in BOOLEAN
    BY Zenon DEF Init
  <2>2. /\ probes \in 0 .. HalfOpenMaxAttempts + 1
        /\ streak \in 0 .. SuccessThreshold
        /\ restarts \in 0 .. MaxRestarts
    <3>1. probes = 0 /\ streak = 0 /\ restarts = 0
      BY DEF Init
    <3>2. QED
      BY <3>1, BreakerAssumption
  <2>3. QED
    BY <2>1, <2>2 DEF RestTyped
<1>5. QED
  BY <1>1, <1>2, <1>3, <1>4, InvParts

\* A step of one run of the pipeline.
LEMMA CallKeeps ==
  ASSUME BreakerInv, NEW c \in Call, CallStep(c)
  PROVE  BreakerInv'
<1> USE InvParts, InvPartsNext
<1>1. EntryGood /\ WriterGood /\ RowGood /\ RestTyped
  OBVIOUS
<1>2. RowGood'
  BY <1>1 DEF CallStep, CheckBreaker, Send, NoToken, SendSucceeds, SendFails, SendRejected,
              RowGood, Sound
<1>3. CASE CheckBreaker(c)
  <2>1. Good(Polled(entry)) /\ Become(Polled(entry))
    BY <1>1, <1>3, PolledGood DEF EntryGood, CheckBreaker
  <2>2. RestTyped'
    BY <1>1, <1>3, BreakerAssumption DEF CheckBreaker, RestTyped
  <2>3. QED
    BY <1>1, <1>2, <2>1, <2>2, BecomeGood
<1>4. CASE SendSucceeds(c)
  <2>1. Good(AfterSuccess(entry)) /\ Become(AfterSuccess(entry))
    BY <1>1, <1>4, SuccessGood DEF EntryGood, SendSucceeds, RecordSuccess
  <2>2. RestTyped'
    BY <1>1, <1>4, BreakerAssumption DEF SendSucceeds, RecordSuccess, RestTyped
  <2>3. QED
    BY <1>1, <1>2, <2>1, <2>2, BecomeGood
<1>5. CASE SendFails(c)
  <2>1. Good(AfterFailure(entry)) /\ Become(AfterFailure(entry))
    BY <1>1, <1>5, FailureGood DEF EntryGood, SendFails, RecordFailure
  <2>2. RestTyped'
    BY <1>1, <1>5, BreakerAssumption DEF SendFails, RecordFailure, RestTyped
  <2>3. QED
    BY <1>1, <1>2, <2>1, <2>2, BecomeGood
<1>6. CASE Send(c) \/ NoToken(c) \/ SendRejected(c)
  <2>1. EntryGood' /\ WriterGood'
    BY <1>1, <1>6 DEF Send, NoToken, SendRejected, EntryGood, Good, WriterGood, Sound
  <2>2. RestTyped'
    BY <1>1, <1>6 DEF Send, NoToken, SendRejected, RestTyped
  <2>3. QED
    BY <1>2, <2>1, <2>2
<1>7. QED
  BY <1>3, <1>4, <1>5, <1>6 DEF CallStep

\* A step of one writer of the row.
LEMMA WriterKeeps ==
  ASSUME BreakerInv, NEW w \in Writer, WriterStep(w)
  PROVE  BreakerInv'
<1> USE InvParts, InvPartsNext
<1>1. EntryGood /\ WriterGood /\ RowGood /\ RestTyped
  OBVIOUS
<1>2. EntryGood' /\ RestTyped'
  BY <1>1 DEF WriterStep, CopyState, ReadRow, SaveRow, WriterFails, EntryGood, Good, Sound, RestTyped
<1>3. ASSUME NEW r \in Row, Sound(r), writer' = [writer EXCEPT ![w] = [st |-> "save", row |-> r]]
      PROVE  WriterGood'
  <2>1. writer' \in [Writer -> [st : {"idle", "find"}] \cup [st : {"save"}, row : Row]]
    BY <1>1, <1>3 DEF WriterGood
  <2>2. ASSUME NEW v \in Writer, writer'[v].st = "save" PROVE Sound(writer'[v].row)
    BY <1>1, <1>3, <2>2 DEF WriterGood
  <2>3. QED
    BY <2>1, <2>2 DEF WriterGood, Sound
<1>4. ASSUME writer' = [writer EXCEPT ![w] = [st |-> "idle"]]
      PROVE  WriterGood'
  <2>1. writer' \in [Writer -> [st : {"idle", "find"}] \cup [st : {"save"}, row : Row]]
    BY <1>1, <1>4 DEF WriterGood
  <2>2. ASSUME NEW v \in Writer, writer'[v].st = "save" PROVE Sound(writer'[v].row)
    BY <1>1, <1>4, <2>2 DEF WriterGood
  <2>3. QED
    BY <2>1, <2>2 DEF WriterGood, Sound
<1>5. CASE CopyState(w)
  <2>1. WriterGood'
    BY <1>1, <1>3, <1>5, StoredSound DEF CopyState, EntryGood
  <2>2. RowGood'
    BY <1>1, <1>5 DEF CopyState, RowGood, Sound
  <2>3. QED
    BY <1>2, <2>1, <2>2
<1>6. CASE ReadRow(w)
  <2>1. WriterGood'
    BY <1>1, <1>3, <1>6 DEF ReadRow, RowGood
  <2>2. RowGood'
    BY <1>1, <1>6 DEF ReadRow, RowGood, Sound
  <2>3. QED
    BY <1>2, <2>1, <2>2
<1>7. CASE SaveRow(w)
  <2>1. WriterGood'
    BY <1>4, <1>7 DEF SaveRow
  <2>2. RowGood'
    BY <1>1, <1>7 DEF SaveRow, WriterGood, RowGood, Sound
  <2>3. QED
    BY <1>2, <2>1, <2>2
<1>8. CASE WriterFails(w)
  <2>1. WriterGood'
    BY <1>4, <1>8 DEF WriterFails
  <2>2. RowGood'
    BY <1>1, <1>8 DEF WriterFails, RowGood, Sound
  <2>3. QED
    BY <1>2, <2>1, <2>2
<1>9. QED
  BY <1>5, <1>6, <1>7, <1>8 DEF WriterStep

LEMMA HealthCheckKeeps ==
  ASSUME BreakerInv, HealthCheck
  PROVE  BreakerInv'
<1> USE InvParts, InvPartsNext
<1>1. EntryGood /\ WriterGood /\ RowGood /\ RestTyped
  OBVIOUS
<1>2. RowGood' /\ RestTyped'
  BY <1>1, BreakerAssumption
     DEF HealthCheck, RecordSuccess, RecordFailure, RowGood, Sound, RestTyped
<1>3. CASE RecordSuccess
  BY <1>1, <1>2, <1>3, SuccessGood, BecomeGood DEF EntryGood, RecordSuccess
<1>4. CASE RecordFailure
  BY <1>1, <1>2, <1>4, FailureGood, BecomeGood DEF EntryGood, RecordFailure
<1>5. QED
  BY <1>3, <1>4 DEF HealthCheck

LEMMA RestartKeeps ==
  ASSUME BreakerInv, Restart
  PROVE  BreakerInv'
<1> USE InvParts, InvPartsNext
<1>1. EntryGood /\ WriterGood /\ RowGood /\ RestTyped
  OBVIOUS
<1>2. EntryGood'
  <2>1. Good(entry')
    BY <1>1, LoadedGood, FreshGood DEF Restart, RowGood
  <2>2. QED
    BY <2>1 DEF EntryGood, Good, Sound
<1>3. WriterGood' /\ RowGood'
  BY <1>1 DEF Restart, WriterGood, RowGood, Sound
<1>4. RestTyped'
  BY <1>1, BreakerAssumption DEF Restart, RestTyped
<1>5. QED
  BY <1>2, <1>3, <1>4

LEMMA TickKeeps ==
  ASSUME BreakerInv, Tick
  PROVE  BreakerInv'
<1> USE InvParts, InvPartsNext
<1>1. EntryGood /\ WriterGood /\ RowGood /\ RestTyped
  OBVIOUS
<1>2. EntryGood'
  BY <1>1, Instants DEF Tick, EntryGood, Good, Entry, Sound
<1>3. RowGood'
  BY <1>1, OlderRowSound DEF Tick, RowGood, Sound
<1>4. ASSUME NEW w \in Writer
      PROVE  /\ writer'[w] \in [st : {"idle", "find"}] \cup [st : {"save"}, row : Row]
             /\ writer'[w].st = "save" => Sound(writer'[w].row)
  <2>1. CASE writer[w].st = "save"
    <3>1. writer[w].row \in Row /\ Sound(writer[w].row)
      BY <1>1, <2>1 DEF WriterGood
    <3>2. writer'[w] = [st |-> "save", row |-> OlderRow(writer[w].row)]
      BY <2>1 DEF Tick
    <3>3. QED
      BY <3>1, <3>2, OlderRowSound
  <2>2. CASE writer[w].st # "save"
    BY <1>1, <2>2 DEF Tick, WriterGood
  <2>3. QED
    BY <2>1, <2>2
<1>5. WriterGood'
  <2>1. writer' = [w \in Writer |-> writer'[w]]
    BY DEF Tick
  <2>2. QED
    BY <1>4, <2>1 DEF WriterGood, Sound
<1>6. RestTyped'
  BY <1>1 DEF Tick, RestTyped
<1>7. QED
  BY <1>2, <1>3, <1>5, <1>6

LEMMA StepKeeps == ASSUME BreakerInv, [Next]_vars PROVE BreakerInv'
<1>1. CASE AdapterRecovers
  BY <1>1 DEF AdapterRecovers, BreakerInv, TypeOK, Sound, NeverWedged
<1>2. CASE UNCHANGED vars
  BY <1>2 DEF vars, BreakerInv, TypeOK, Sound, NeverWedged
<1>3. QED
  BY <1>1, <1>2, CallKeeps, WriterKeeps, HealthCheckKeeps, RestartKeeps, TickKeeps DEF Next

THEOREM BreakerInvariant == Spec => []BreakerInv
BY InitGood, StepKeeps, PTL DEF Spec

-----------------------------------------------------------------------------

\* The type invariant, for every configuration of the breaker.
THEOREM BreakerTypes == Spec => []TypeOK
<1>1. BreakerInv => TypeOK
  BY DEF BreakerInv
<1>2. QED
  BY <1>1, BreakerInvariant, PTL

\* An open breaker knows since when, whatever stale rows restarts load: it is never
\* refused its cooldown for ever.
THEOREM OpenIsTimed == Spec => []NeverWedged
<1>1. BreakerInv => NeverWedged
  BY DEF BreakerInv
<1>2. QED
  BY <1>1, BreakerInvariant, PTL

\* No interleaving of outcomes, stored counts and restarts leaves a breaker closed
\* at its threshold.
THEOREM TripIsNotMissed == Spec => []NoMissedTrip
<1>1. BreakerInv => NoMissedTrip
  BY DEF BreakerInv, Sound, NoMissedTrip
<1>2. QED
  BY <1>1, BreakerInvariant, PTL

-----------------------------------------------------------------------------

\* While half-open, the successes counted are a part of the current streak.
StreakCounted == entry.state = "HALF_OPEN" => entry.successCount <= streak

\* What a step may do to the entry, as far as the streak is concerned.
StreakStep == /\ StreakCounted'
              /\ entry.state = "HALF_OPEN" /\ entry'.state = "CLOSED" /\ restarts' = restarts
                 => streak' >= SuccessThreshold

LEMMA SuccessStreak ==
  ASSUME EntryGood, streak \in 0 .. SuccessThreshold, StreakCounted, RecordSuccess
  PROVE  StreakStep
<1>1. /\ entry' = AfterSuccess(entry)
      /\ streak' = IF streak < SuccessThreshold THEN streak + 1 ELSE streak
  BY DEF RecordSuccess, Become
<1>2. entry.successCount \in Nat /\ entry \in Entry
  BY BreakerAssumption DEF EntryGood, Good, Entry
<1>3. CASE entry.state = "HALF_OPEN" /\ entry.successCount + 1 >= SuccessThreshold
  <2>1. entry'.state = "CLOSED"
    BY <1>1, <1>3 DEF AfterSuccess, Fresh
  <2>2. streak' >= SuccessThreshold
    BY <1>1, <1>2, <1>3, BreakerAssumption DEF StreakCounted
  <2>3. QED
    BY <2>1, <2>2 DEF StreakStep, StreakCounted
<1>4. CASE entry.state = "HALF_OPEN" /\ ~ (entry.successCount + 1 >= SuccessThreshold)
  <2>1. entry' = [entry EXCEPT !.successCount = @ + 1]
    BY <1>1, <1>4 DEF AfterSuccess
  <2>2. entry'.state = "HALF_OPEN" /\ entry'.successCount = entry.successCount + 1
    BY <1>2, <1>4, <2>1 DEF Entry
  <2>3. entry.successCount + 1 <= streak'
    BY <1>1, <1>2, <1>4, BreakerAssumption DEF StreakCounted
  <2>4. QED
    BY <2>2, <2>3 DEF StreakStep, StreakCounted
<1>5. CASE entry.state # "HALF_OPEN"
  <2>1. entry'.state # "HALF_OPEN"
    BY <1>1, <1>2, <1>5 DEF AfterSuccess, Entry, State
  <2>2. QED
    BY <1>5, <2>1 DEF StreakStep, StreakCounted
<1>6. QED
  BY <1>3, <1>4, <1>5

LEMMA FailureStreak ==
  ASSUME EntryGood, RecordFailure
  PROVE  StreakStep
<1>1. entry' = AfterFailure(entry) /\ entry \in Entry
  BY DEF RecordFailure, Become, EntryGood, Good
<1>2. CASE entry.state = "HALF_OPEN"
  <2>1. entry'.state = "OPEN"
    BY <1>1, <1>2, CountingType DEF AfterFailure, ToOpen, Entry
  <2>2. QED
    BY <2>1 DEF StreakStep, StreakCounted
<1>3. CASE entry.state = "CLOSED"
  <2>1. Counted(entry) \in Entry /\ Counted(entry).state = "CLOSED"
    BY <1>3, CountedType DEF EntryGood
  <2>2. ToOpen(Counted(entry)).state = "OPEN"
    BY <2>1, CountingType DEF ToOpen, Entry
  <2>3. entry'.state # "HALF_OPEN"
    BY <1>1, <1>3, <2>1, <2>2 DEF AfterFailure
  <2>4. QED
    BY <1>3, <2>3 DEF StreakStep, StreakCounted
<1>4. CASE entry.state = "OPEN"
  BY <1>1, <1>4 DEF AfterFailure, StreakStep, StreakCounted
<1>5. QED
  BY <1>1, <1>2, <1>3, <1>4 DEF Entry, State

LEMMA PolledStreak ==
  ASSUME EntryGood, streak \in 0 .. SuccessThreshold, StreakCounted,
         entry' = Polled(entry), UNCHANGED streak
  PROVE  StreakStep
<1>1. entry \in Entry
  BY DEF EntryGood, Good
<1>2. CASE entry.state = "OPEN" /\ CooldownElapsed(entry)
  <2>1. entry' = [Counting(entry) EXCEPT !.state = "HALF_OPEN"]
    BY <1>2 DEF Polled, ToHalfOpen
  <2>2. Counting(entry) \in Entry /\ Counting(entry).successCount = 0
    BY <1>1, CountingType DEF Counting, Entry
  <2>3. entry'.state = "HALF_OPEN" /\ entry'.successCount = 0
    BY <2>1, <2>2 DEF Entry
  <2>4. 0 <= streak'
    BY BreakerAssumption
  <2>5. QED
    BY <2>3, <2>4 DEF StreakStep, StreakCounted
<1>3. CASE ~ (entry.state = "OPEN" /\ CooldownElapsed(entry))
  BY <1>3 DEF Polled, StreakStep, StreakCounted
<1>4. QED
  BY <1>2, <1>3

LEMMA RestartStreak ==
  ASSUME RestTyped, Restart
  PROVE  StreakStep
<1>1. restarts' # restarts
  BY BreakerAssumption DEF RestTyped, Restart
<1>2. entry'.successCount = 0
  BY DEF Restart, Loaded, Fresh
<1>3. 0 <= streak'
  BY BreakerAssumption DEF RestTyped, Restart
<1>4. QED
  BY <1>1, <1>2, <1>3 DEF StreakStep, StreakCounted

LEMMA StepCountsStreak ==
  ASSUME BreakerInv, StreakCounted, [Next]_vars
  PROVE  StreakStep
<1>1. EntryGood /\ RestTyped /\ streak \in 0 .. SuccessThreshold
  BY InvParts DEF RestTyped
<1>2. CASE \E c \in Call : CheckBreaker(c)
  BY <1>1, <1>2, PolledStreak DEF CheckBreaker, Become
<1>3. CASE HealthCheck \/ \E c \in Call : SendSucceeds(c) \/ SendFails(c)
  BY <1>1, <1>3, SuccessStreak, FailureStreak DEF HealthCheck, SendSucceeds, SendFails
<1>4. CASE Restart
  BY <1>1, <1>4, RestartStreak
<1>5. CASE Tick
  <2>1. entry'.state = entry.state /\ entry'.successCount = entry.successCount /\ streak' = streak
    BY <1>1, <1>5 DEF Tick, EntryGood, Good, Entry
  <2>2. QED
    BY <2>1 DEF StreakStep, StreakCounted
<1>6. CASE UNCHANGED <<entry, streak>>
  BY <1>6 DEF StreakStep, StreakCounted
<1>7. QED
  BY <1>2, <1>3, <1>4, <1>5, <1>6
     DEF Next, vars, CallStep, WriterStep, Send, NoToken, SendRejected, CopyState, ReadRow,
         SaveRow, WriterFails, AdapterRecovers

\* A half-open breaker closes only on a full streak of successes, with any number of
\* older requests still answering.
THEOREM ClosingTakesStreak == Spec => ClosesOnStreak
<1>1. Init => StreakCounted
  BY DEF Init, StreakCounted, Fresh
<1>2. BreakerInv /\ StreakCounted /\ [Next]_vars => StreakCounted'
  BY StepCountsStreak DEF StreakStep
<1>3. BreakerInv /\ StreakCounted /\ [Next]_vars =>
        [entry.state = "HALF_OPEN" /\ entry'.state = "CLOSED" /\ restarts' = restarts
           => streak' >= SuccessThreshold]_vars
  BY StepCountsStreak DEF StreakStep
<1>4. QED
  BY <1>1, <1>2, <1>3, BreakerInvariant, PTL DEF Spec, ClosesOnStreak

-----------------------------------------------------------------------------
(***************************************************************************)
(* Sends to an adapter.  Every call that is still out there may be taken   *)
(* by the provider: counting those with the messages taken leaves no more  *)
(* than the answers that never came, and the one the router waits for or   *)
(* has had.                                                                *)
(***************************************************************************)
AdapterBounds ==
  /\ Adapter \subseteq {"braze", "whatsapp", "ses", "mailgun"}
  /\ AddressOf \in [Delivery -> Address]
  /\ MaxTries \in Nat /\ ttl \in Nat /\ MaxClock \in Nat \ {0}

SendRow == [stage: {"idle", "waiting", "sent", "failed", "dead"}, provider: Adapter \cup {"none"},
            attempt: 0..MaxTries, media: {"none", "fits", "unfit"}]
CallRow == [stage: {"none", "syncing", "sending", "over"}, hit: BOOLEAN, at: 0..MaxClock]

Open(d) == {n \in Attempt : attempts[<<d, n>>].stage \in {"syncing", "sending"}}
Due(d) == IF send[d].stage \in {"idle", "failed"} THEN 0 ELSE 1

Asked(d) ==
  /\ send[d].stage = "idle" => send[d].attempt = 0 /\ d \notin untraced
  /\ send[d].stage # "idle" => send[d].provider \in Adapter
  /\ \A n \in Attempt : n > send[d].attempt => attempts[<<d, n>>].stage = "none"
  /\ \A n \in Attempt : attempts[<<d, n>>].at <= clock
Profile(a) == tracked[a] <= clock /\ cached[a] <= tracked[a] + ttl /\ (cached[a] # 0 => tracked[a] # 0)
Budget(d) == taken[d] + Cardinality(Open(d)) <= silent[d] + Due(d)

SendingInv ==
  /\ SendTypes /\ SentIsAccepted /\ ProfileFirst /\ UntracedIsBare
  /\ \A d \in Delivery : Asked(d) /\ Budget(d)
  /\ \A a \in Address : Profile(a)

LEMMA OpenFacts ==
  ASSUME AdapterBounds, NEW d
  PROVE  IsFiniteSet(Open(d)) /\ Cardinality(Open(d)) \in Nat
<1>1. IsFiniteSet(Attempt)
  BY FS_Interval DEF Attempt, AdapterBounds
<1>2. Open(d) \in SUBSET Attempt
  BY DEF Open
<1>3. QED
  BY <1>1, <1>2, FS_Subset, FS_CardinalityType

LEMMA AdaptersStart == AdapterBounds /\ AdaptersInit => SendingInv
<1> SUFFICES ASSUME AdapterBounds, AdaptersInit PROVE SendingInv
  OBVIOUS
<1>1. SendTypes
  BY DEF AdaptersInit, SendTypes, NoCall, NotYet, AdapterBounds
<1>2. \A d \in Delivery, n \in Attempt : attempts[<<d, n>>] = NoCall
  BY DEF AdaptersInit
<1>3. SentIsAccepted /\ ProfileFirst /\ UntracedIsBare
  BY DEF AdaptersInit, SentIsAccepted, ProfileFirst, UntracedIsBare
<1>4. ASSUME NEW d \in Delivery PROVE Asked(d) /\ Budget(d)
  <2>1. Open(d) = {}
    BY <1>2 DEF Open, NoCall
  <2>2. Cardinality(Open(d)) = 0
    BY <2>1, FS_EmptySet
  <2>3. Asked(d)
    BY <1>2 DEF AdaptersInit, Asked, NoCall, NotYet
  <2>4. QED
    BY <2>2, <2>3 DEF AdaptersInit, Budget, Due
<1>5. \A a \in Address : Profile(a)
  BY DEF AdaptersInit, Profile, NotYet, AdapterBounds
<1>6. QED
  BY <1>1, <1>3, <1>4, <1>5 DEF SendingInv

\* One call changes.
LEMMA OneCall ==
  ASSUME AdapterBounds, SendTypes, NEW d \in Delivery, NEW n \in Attempt, NEW new \in CallRow,
         attempts' = [attempts EXCEPT ![<<d, n>>] = new]
  PROVE  /\ attempts' \in [Delivery \X Attempt -> CallRow]
         /\ attempts'[<<d, n>>] = new
         /\ \A e \in Delivery, m \in Attempt : <<e, m>> # <<d, n>> => attempts'[<<e, m>>] = attempts[<<e, m>>]
         /\ \A e \in Delivery \ {d} : Open(e)' = Open(e)
         /\ Cardinality(Open(d)') = Cardinality(Open(d))
              + (IF new.stage \in {"syncing", "sending"} THEN (IF n \in Open(d) THEN 0 ELSE 1) ELSE (IF n \in Open(d) THEN -1 ELSE 0))
<1>1. attempts \in [Delivery \X Attempt -> CallRow]
  BY DEF SendTypes, CallRow
<1>2. /\ attempts' \in [Delivery \X Attempt -> CallRow]
      /\ attempts'[<<d, n>>] = new
      /\ \A e \in Delivery, m \in Attempt : <<e, m>> # <<d, n>> => attempts'[<<e, m>>] = attempts[<<e, m>>]
  BY <1>1
<1>3. \A e \in Delivery \ {d} : Open(e)' = Open(e)
  BY <1>2 DEF Open
<1>4. Open(d)' = IF new.stage \in {"syncing", "sending"} THEN Open(d) \cup {n} ELSE Open(d) \ {n}
  <2>1. \A m \in Attempt : m # n => attempts'[<<d, m>>] = attempts[<<d, m>>]
    BY <1>2
  <2>2. QED
    BY <1>2, <2>1 DEF Open
<1>5. IsFiniteSet(Open(d)) /\ Cardinality(Open(d)) \in Nat
  BY OpenFacts
<1>6. Cardinality(Open(d) \cup {n}) = IF n \in Open(d) THEN Cardinality(Open(d)) ELSE Cardinality(Open(d)) + 1
  BY <1>5, FS_AddElement
<1>7. Cardinality(Open(d) \ {n}) = IF n \in Open(d) THEN Cardinality(Open(d)) - 1 ELSE Cardinality(Open(d))
  BY <1>5, FS_RemoveElement
<1>8. QED
  BY <1>2, <1>3, <1>4, <1>5, <1>6, <1>7

\* A call starts: the send is due, and the profile is there if Braze is asked at once.
LEMMA AskKeepsSends ==
  ASSUME AdapterBounds, SendingInv, NEW d \in Delivery, NEW p \in Adapter, NEW media \in {"none", "fits", "unfit"}, Ask(d, p, media),
         send[d].stage = "idle" \/ (send[d].stage = "failed" /\ p = send[d].provider /\ media = send[d].media)
  PROVE  SendingInv'
<1> DEFINE n == send[d].attempt + 1
           next == [stage |-> "waiting", provider |-> p, attempt |-> n, media |-> media]
           new == Ensured(d, p)
<1>1. /\ send[d].attempt < MaxTries /\ send' = [send EXCEPT ![d] = next] /\ attempts' = [attempts EXCEPT ![<<d, n>>] = new]
      /\ UNCHANGED <<tracked, cached, taken, silent, untraced, clock>>
  BY DEF Ask
<1>2. SendTypes /\ send \in [Delivery -> SendRow] /\ send[d] \in SendRow /\ send[d].attempt \in 0 .. MaxTries
  BY DEF SendingInv, SendTypes, SendRow
<1>3. n \in Attempt /\ n > send[d].attempt
  BY <1>1, <1>2 DEF Attempt, AdapterBounds
<1>4. next \in SendRow
  BY <1>3 DEF SendRow, Attempt, AdapterBounds
<1>5. clock \in 1 .. MaxClock /\ AddressOf[d] \in Address
  BY <1>2 DEF SendTypes, AdapterBounds
<1>6. new \in CallRow /\ new.at = clock /\ new.stage \in {"syncing", "sending"}
      /\ (p = "braze" /\ new.stage = "sending" => cached[AddressOf[d]] > clock)
  BY <1>5 DEF Ensured, CallRow, AdapterBounds
<1>7. n \notin Open(d)
  BY <1>3 DEF SendingInv, Asked, Open
<1> HIDE DEF next, new, n
<1>8. /\ send' \in [Delivery -> SendRow] /\ send'[d] = next /\ \A e \in Delivery \ {d} : send'[e] = send[e]
  BY <1>1, <1>2, <1>4
<1>9. /\ attempts' \in [Delivery \X Attempt -> CallRow] /\ attempts'[<<d, n>>] = new
      /\ \A e \in Delivery, m \in Attempt : <<e, m>> # <<d, n>> => attempts'[<<e, m>>] = attempts[<<e, m>>]
      /\ \A e \in Delivery \ {d} : Open(e)' = Open(e)
      /\ Cardinality(Open(d)') = Cardinality(Open(d)) + 1
  BY <1>1, <1>2, <1>3, <1>6, <1>7, OneCall
<1>10. next.stage = "waiting" /\ next.provider = p /\ next.attempt = n /\ next.media = media
  BY DEF next
<1>11. SendTypes'
  BY <1>1, <1>2, <1>8, <1>9 DEF SendTypes, SendRow, CallRow
<1>12. SentIsAccepted'
  BY <1>1, <1>8, <1>10 DEF SendingInv, SentIsAccepted
<1>13. UntracedIsBare'
  <2>1. d \in untraced => send[d].provider = p /\ send[d].media = media
    BY DEF SendingInv, Asked
  <2>2. QED
    BY <1>1, <1>2, <1>8, <1>10, <2>1 DEF SendingInv, UntracedIsBare, SendTypes
<1>14. \A e \in Delivery : Asked(e)'
  <2>1. Asked(d)'
    <3>1. \A m \in Attempt : m > n => m # n /\ m > send[d].attempt
      BY <1>2, <1>3 DEF Attempt
    <3>2. \A m \in Attempt : m # n => attempts'[<<d, m>>] = attempts[<<d, m>>]
      BY <1>9
    <3>3. \A m \in Attempt : m > n => attempts'[<<d, m>>].stage = "none"
      BY <3>1, <3>2 DEF SendingInv, Asked
    <3>4. \A m \in Attempt : attempts'[<<d, m>>].at <= clock
      BY <1>5, <1>6, <1>9, <3>2 DEF SendingInv, Asked
    <3>5. QED
      BY <1>1, <1>8, <1>10, <3>3, <3>4 DEF Asked
  <2>2. \A e \in Delivery \ {d} : Asked(e)'
    BY <1>1, <1>8, <1>9 DEF SendingInv, Asked
  <2>3. QED
    BY <2>1, <2>2
<1>15. \A e \in Delivery : Budget(e)'
  <2>1. Budget(d)'
    <3>1. taken[d] + Cardinality(Open(d)) <= silent[d] + 0
      BY DEF SendingInv, Budget, Due
    <3>2. taken[d] \in Nat /\ silent[d] \in Nat /\ Cardinality(Open(d)) \in Nat
      BY <1>2, OpenFacts DEF SendTypes
    <3>3. QED
      BY <1>1, <1>8, <1>9, <1>10, <3>1, <3>2 DEF Budget, Due
  <2>2. \A e \in Delivery \ {d} : Budget(e)'
    BY <1>1, <1>8, <1>9 DEF SendingInv, Budget, Due
  <2>3. QED
    BY <2>1, <2>2
<1>16. ProfileFirst'
  <2> SUFFICES ASSUME NEW e \in Delivery, NEW m \in Attempt, send'[e].provider = "braze", attempts'[<<e, m>>].stage = "sending"
               PROVE  tracked[AddressOf[e]] # NotYet /\ tracked[AddressOf[e]] + ttl >= attempts'[<<e, m>>].at
    BY <1>1 DEF ProfileFirst
  <2>1. CASE e = d /\ m = n
    <3>1. cached[AddressOf[d]] > clock /\ attempts'[<<e, m>>].at = clock
      BY <1>6, <1>8, <1>9, <1>10, <2>1
    <3>2. Profile(AddressOf[d])
      BY <1>5 DEF SendingInv
    <3>3. tracked[AddressOf[d]] \in Nat /\ cached[AddressOf[d]] \in Nat
      BY <1>2, <1>5 DEF SendTypes, AdapterBounds
    <3>4. QED
      BY <1>5, <2>1, <3>1, <3>2, <3>3 DEF Profile, NotYet, AdapterBounds
  <2>2. CASE e = d /\ m # n
    <3>1. attempts[<<d, m>>].stage = "sending" /\ attempts'[<<d, m>>] = attempts[<<d, m>>]
      BY <1>9, <2>2
    <3>2. send[d].stage # "idle"
      BY <3>1 DEF SendingInv, Asked, Attempt
    <3>3. send[d].provider = "braze"
      BY <1>8, <1>10, <2>2, <3>2
    <3>4. QED
      BY <2>2, <3>1, <3>3 DEF SendingInv, ProfileFirst
  <2>3. CASE e # d
    <3>1. attempts'[<<e, m>>] = attempts[<<e, m>>] /\ send'[e] = send[e]
      BY <1>8, <1>9, <2>3
    <3>2. QED
      BY <3>1 DEF SendingInv, ProfileFirst
  <2>4. QED
    BY <2>1, <2>2, <2>3
<1>17. \A a \in Address : Profile(a)'
  BY <1>1 DEF SendingInv, Profile
<1>18. QED
  BY <1>11, <1>12, <1>13, <1>14, <1>15, <1>16, <1>17 DEF SendingInv

LEMMA TimeoutKeepsSends ==
  ASSUME AdapterBounds, SendingInv, NEW d \in Delivery, Timeout(d)
  PROVE  SendingInv'
<1> DEFINE next == [send[d] EXCEPT !.stage = "failed"]
<1>1. /\ send[d].stage = "waiting" /\ send' = [send EXCEPT ![d] = next] /\ silent' = [silent EXCEPT ![d] = silent[d] + 1]
      /\ UNCHANGED <<attempts, tracked, cached, taken, untraced, clock>>
  BY DEF Timeout
<1>2. SendTypes /\ send \in [Delivery -> SendRow] /\ send[d] \in SendRow /\ silent[d] \in Nat
  BY DEF SendingInv, SendTypes, SendRow
<1>3. /\ next \in SendRow /\ next.stage = "failed" /\ next.provider = send[d].provider /\ next.attempt = send[d].attempt
      /\ next.media = send[d].media
  BY <1>2 DEF SendRow
<1> HIDE DEF next
<1>4. /\ send' \in [Delivery -> SendRow] /\ send'[d] = next /\ \A e \in Delivery \ {d} : send'[e] = send[e]
      /\ silent' \in [Delivery -> Nat] /\ silent'[d] = silent[d] + 1 /\ \A e \in Delivery \ {d} : silent'[e] = silent[e]
  BY <1>1, <1>2, <1>3 DEF SendTypes
<1>5. SendTypes'
  BY <1>1, <1>2, <1>4 DEF SendTypes, SendRow
<1>6. SentIsAccepted' /\ ProfileFirst' /\ UntracedIsBare'
  BY <1>1, <1>3, <1>4 DEF SendingInv, SentIsAccepted, ProfileFirst, UntracedIsBare
<1>7. \A e \in Delivery : Asked(e)'
  BY <1>1, <1>3, <1>4 DEF SendingInv, Asked
<1>8. \A e : Open(e)' = Open(e)
  BY <1>1 DEF Open
<1>9. \A e \in Delivery : Budget(e)'
  <2>1. Budget(d)'
    <3>1. taken[d] \in Nat /\ Cardinality(Open(d)) \in Nat
      BY <1>2, OpenFacts DEF SendTypes
    <3>2. taken[d] + Cardinality(Open(d)) <= silent[d] + 1
      BY <1>1 DEF SendingInv, Budget, Due
    <3>3. QED
      BY <1>1, <1>2, <1>3, <1>4, <1>8, <3>1, <3>2 DEF Budget, Due
  <2>2. \A e \in Delivery \ {d} : Budget(e)'
    BY <1>1, <1>4, <1>8 DEF SendingInv, Budget, Due
  <2>3. QED
    BY <2>1, <2>2
<1>10. \A a \in Address : Profile(a)'
  BY <1>1 DEF SendingInv, Profile
<1>11. QED
  BY <1>5, <1>6, <1>7, <1>9, <1>10 DEF SendingInv

\* The answer of a call: it is over, and the router has it if it waits for that attempt.
LEMMA AnswerFacts ==
  ASSUME AdapterBounds, SendingInv, NEW d \in Delivery, NEW n \in Attempt, n \in Open(d),
         NEW stage \in {"sent", "failed", "dead"}, Answered(d, n, stage)
  PROVE  /\ attempts' \in [Delivery \X Attempt -> CallRow] /\ send' \in [Delivery -> SendRow]
         /\ attempts'[<<d, n>>].stage = "over" /\ attempts'[<<d, n>>].at = attempts[<<d, n>>].at
         /\ \A e \in Delivery, m \in Attempt : <<e, m>> # <<d, n>> => attempts'[<<e, m>>] = attempts[<<e, m>>]
         /\ \A e \in Delivery \ {d} : Open(e)' = Open(e) /\ send'[e] = send[e]
         /\ Cardinality(Open(d)') = Cardinality(Open(d)) - 1
         /\ send'[d].provider = send[d].provider /\ send'[d].media = send[d].media /\ send'[d].attempt = send[d].attempt
         /\ send'[d].stage = send[d].stage \/ (send[d].stage = "waiting" /\ send'[d].stage = stage)
         /\ send[d].stage # "idle" /\ send[d].provider \in Adapter
<1> DEFINE new == [attempts[<<d, n>>] EXCEPT !.stage = "over"]
           next == [send[d] EXCEPT !.stage = stage]
<1>1. SendTypes /\ send \in [Delivery -> SendRow] /\ attempts \in [Delivery \X Attempt -> CallRow]
  BY DEF SendingInv, SendTypes, SendRow, CallRow
<1>2. attempts[<<d, n>>] \in CallRow /\ send[d] \in SendRow
  BY <1>1
<1>3. new \in CallRow /\ new.stage = "over" /\ new.at = attempts[<<d, n>>].at
  BY <1>2 DEF CallRow
<1>4. /\ next \in SendRow /\ next.stage = stage /\ next.provider = send[d].provider /\ next.attempt = send[d].attempt
      /\ next.media = send[d].media
  BY <1>2 DEF SendRow
<1>5. attempts' = [attempts EXCEPT ![<<d, n>>] = new]
  BY <1>1 DEF Answered
<1>6. send' = send \/ (send[d].stage = "waiting" /\ send' = [send EXCEPT ![d] = next])
  BY <1>1 DEF Answered
<1> HIDE DEF new, next
<1>7. /\ attempts' \in [Delivery \X Attempt -> CallRow] /\ attempts'[<<d, n>>] = new
      /\ \A e \in Delivery, m \in Attempt : <<e, m>> # <<d, n>> => attempts'[<<e, m>>] = attempts[<<e, m>>]
      /\ \A e \in Delivery \ {d} : Open(e)' = Open(e)
      /\ Cardinality(Open(d)') = Cardinality(Open(d)) - 1
  <2>1. Cardinality(Open(d)) \in Nat
    BY OpenFacts
  <2>2. QED
    BY <1>1, <1>3, <1>5, <2>1, OneCall
<1>8. send[d].stage # "idle" /\ send[d].provider \in Adapter
  BY DEF SendingInv, Asked, Open, Attempt
<1>9. /\ send' \in [Delivery -> SendRow] /\ \A e \in Delivery \ {d} : send'[e] = send[e]
      /\ send'[d] = send[d] \/ (send[d].stage = "waiting" /\ send'[d] = next)
  BY <1>1, <1>4, <1>6
<1>10. QED
  BY <1>3, <1>4, <1>7, <1>8, <1>9

\* Whatever came of the call: a message more at most, and one that the router tries again is none it was told of.
LEMMA AnswerKeeps ==
  ASSUME AdapterBounds, SendingInv, NEW d \in Delivery, NEW n \in Attempt, n \in Open(d),
         NEW stage \in {"sent", "failed", "dead"}, Answered(d, n, stage), NEW k \in {0, 1}, NEW l \in {0, 1},
         stage = "sent" => k = 1, stage = "failed" => k <= l,
         taken' \in [Delivery -> Nat], taken'[d] = taken[d] + k, \A e \in Delivery \ {d} : taken'[e] = taken[e],
         silent' \in [Delivery -> Nat], silent'[d] = silent[d] + l, \A e \in Delivery \ {d} : silent'[e] = silent[e],
         untraced' = untraced \/ (untraced' = untraced \cup {d} /\ send[d].provider = "ses" /\ send[d].media # "fits"),
         UNCHANGED <<tracked, cached, clock>>
  PROVE  SendingInv'
<1>1. /\ attempts' \in [Delivery \X Attempt -> CallRow] /\ send' \in [Delivery -> SendRow]
      /\ attempts'[<<d, n>>].stage = "over" /\ attempts'[<<d, n>>].at = attempts[<<d, n>>].at
      /\ \A e \in Delivery, m \in Attempt : <<e, m>> # <<d, n>> => attempts'[<<e, m>>] = attempts[<<e, m>>]
      /\ \A e \in Delivery \ {d} : Open(e)' = Open(e) /\ send'[e] = send[e]
      /\ Cardinality(Open(d)') = Cardinality(Open(d)) - 1
      /\ send'[d].provider = send[d].provider /\ send'[d].media = send[d].media /\ send'[d].attempt = send[d].attempt
      /\ send'[d].stage = send[d].stage \/ (send[d].stage = "waiting" /\ send'[d].stage = stage)
      /\ send[d].stage # "idle" /\ send[d].provider \in Adapter
  BY AnswerFacts
<1>2. SendTypes
  BY DEF SendingInv
<1>3. SendTypes'
  BY <1>1, <1>2 DEF SendTypes, SendRow, CallRow
<1>4. SentIsAccepted'
  <2>1. ASSUME NEW e \in Delivery \ {d}, send'[e].stage = "sent" PROVE taken'[e] >= 1
    BY <1>1, <2>1 DEF SendingInv, SentIsAccepted
  <2>2. ASSUME send'[d].stage = "sent" PROVE taken'[d] >= 1
    <3>1. taken[d] \in Nat
      BY <1>2 DEF SendTypes
    <3>2. QED
      BY <1>1, <2>2, <3>1 DEF SendingInv, SentIsAccepted
  <2>3. QED
    BY <2>1, <2>2 DEF SentIsAccepted
<1>5. ProfileFirst'
  <2> SUFFICES ASSUME NEW e \in Delivery, NEW m \in Attempt, send'[e].provider = "braze", attempts'[<<e, m>>].stage = "sending"
               PROVE  tracked[AddressOf[e]] # NotYet /\ tracked[AddressOf[e]] + ttl >= attempts'[<<e, m>>].at
    BY DEF ProfileFirst
  <2>1. <<e, m>> # <<d, n>>
    BY <1>1
  <2>2. attempts'[<<e, m>>] = attempts[<<e, m>>] /\ send'[e].provider = send[e].provider
    BY <1>1, <2>1
  <2>3. QED
    BY <2>2 DEF SendingInv, ProfileFirst
<1>6. UntracedIsBare'
  BY <1>1 DEF SendingInv, UntracedIsBare, SendTypes
<1>7. \A e \in Delivery : Asked(e)'
  <2>1. Asked(d)'
    <3>1. \A m \in Attempt : attempts'[<<d, m>>] = attempts[<<d, m>>] \/ m = n
      BY <1>1
    <3>2. ~ (n > send[d].attempt)
      BY DEF SendingInv, Asked, Open
    <3>3. \A m \in Attempt : attempts'[<<d, m>>].at = attempts[<<d, m>>].at
      BY <1>1, <3>1
    <3>4. \A m \in Attempt : m > send[d].attempt => attempts'[<<d, m>>].stage = "none"
      BY <3>1, <3>2 DEF SendingInv, Asked
    <3>5. send'[d].stage # "idle"
      BY <1>1
    <3>6. QED
      BY <1>1, <3>3, <3>4, <3>5 DEF SendingInv, Asked
  <2>2. ASSUME NEW e \in Delivery \ {d} PROVE Asked(e)'
    <3>1. \A m \in Attempt : attempts'[<<e, m>>] = attempts[<<e, m>>]
      BY <1>1
    <3>2. e \in untraced' <=> e \in untraced
      OBVIOUS
    <3>3. QED
      BY <1>1, <3>1, <3>2 DEF SendingInv, Asked
  <2>3. QED
    BY <2>1, <2>2
<1>8. \A e \in Delivery : Budget(e)'
  <2>1. Budget(d)'
    <3>1. taken[d] \in Nat /\ silent[d] \in Nat /\ Cardinality(Open(d)) \in Nat
      BY <1>2, OpenFacts DEF SendTypes
    <3>2. taken[d] + Cardinality(Open(d)) <= silent[d] + Due(d)
      BY DEF SendingInv, Budget
    <3>3. CASE send'[d].stage = send[d].stage
      <4>1. Due(d)' = Due(d) /\ Due(d) \in {0, 1}
        BY <3>3 DEF Due
      <4>2. QED
        BY <1>1, <3>1, <3>2, <4>1 DEF Budget
    <3>4. CASE send[d].stage = "waiting" /\ send'[d].stage = stage
      <4>1. Due(d) = 1 /\ Due(d)' = IF stage = "failed" THEN 0 ELSE 1
        BY <3>4 DEF Due
      <4>2. QED
        BY <1>1, <3>1, <3>2, <4>1 DEF Budget
    <3>5. QED
      BY <1>1, <3>3, <3>4
  <2>2. ASSUME NEW e \in Delivery \ {d} PROVE Budget(e)'
    BY <1>1 DEF SendingInv, Budget, Due
  <2>3. QED
    BY <2>1, <2>2
<1>9. \A b \in Address : Profile(b)'
  BY DEF SendingInv, Profile
<1>10. QED
  BY <1>3, <1>4, <1>5, <1>6, <1>7, <1>8, <1>9 DEF SendingInv

\* A profile is tracked for the call, or the send fails for good.
LEMMA EnsureKeeps ==
  ASSUME AdapterBounds, SendingInv, NEW d \in Delivery, NEW n \in Attempt, EnsureProfile(d, n)
  PROVE  SendingInv'
<1> DEFINE a == AddressOf[d]
           new == [attempts[<<d, n>>] EXCEPT !.stage = "sending"]
<1>1. attempts[<<d, n>>].stage = "syncing" /\ UNCHANGED <<taken, silent, untraced, clock>> /\ n \in Open(d)
  BY DEF EnsureProfile, Open
<1>2. /\ SendTypes /\ attempts \in [Delivery \X Attempt -> CallRow]
      /\ clock \in 1 .. MaxClock /\ a \in Address /\ taken \in [Delivery -> Nat] /\ silent \in [Delivery -> Nat]
      /\ tracked \in [Address -> 0 .. MaxClock] /\ cached \in [Address -> 0 .. MaxClock + ttl]
  BY DEF SendingInv, SendTypes, CallRow, AdapterBounds
<1>3. CASE Answered(d, n, "dead") /\ UNCHANGED <<tracked, cached>>
  <2>1. taken[d] = taken[d] + 0 /\ silent[d] = silent[d] + 0
    BY <1>2
  <2>2. QED
    BY <1>1, <1>2, <1>3, <2>1, AnswerKeeps
<1>4. CASE /\ tracked' = [tracked EXCEPT ![a] = clock] /\ cached' = [cached EXCEPT ![a] = clock + ttl]
           /\ attempts' = [attempts EXCEPT ![<<d, n>>].stage = "sending"] /\ UNCHANGED send
  <2>1. attempts[<<d, n>>] \in CallRow
    BY <1>2
  <2>2. new \in CallRow /\ new.stage = "sending" /\ new.at = attempts[<<d, n>>].at
    BY <2>1 DEF CallRow
  <2>3. attempts' = [attempts EXCEPT ![<<d, n>>] = new]
    BY <1>4
  <2> HIDE DEF new, a
  <2>4. Cardinality(Open(d)) \in Nat
    BY OpenFacts
  <2>5. /\ attempts' \in [Delivery \X Attempt -> CallRow] /\ attempts'[<<d, n>>] = new
        /\ \A e \in Delivery, m \in Attempt : <<e, m>> # <<d, n>> => attempts'[<<e, m>>] = attempts[<<e, m>>]
        /\ \A e \in Delivery \ {d} : Open(e)' = Open(e)
        /\ Cardinality(Open(d)') = Cardinality(Open(d)) + 0
    BY <1>1, <1>2, <2>2, <2>3, OneCall
  <2>6. clock + ttl \in 0 .. MaxClock + ttl /\ clock \in 0 .. MaxClock
    BY <1>2 DEF AdapterBounds
  <2>7. /\ tracked' \in [Address -> 0 .. MaxClock] /\ tracked'[a] = clock /\ \A b \in Address \ {a} : tracked'[b] = tracked[b]
        /\ cached' \in [Address -> 0 .. MaxClock + ttl] /\ cached'[a] = clock + ttl /\ \A b \in Address \ {a} : cached'[b] = cached[b]
    BY <1>2, <1>4, <2>6 DEF a
  <2>8. SendTypes'
    BY <1>1, <1>2, <1>4, <2>5, <2>7 DEF SendTypes, CallRow
  <2>9. SentIsAccepted' /\ UntracedIsBare'
    BY <1>1, <1>4 DEF SendingInv, SentIsAccepted, UntracedIsBare
  <2>10. \A e \in Delivery, m \in Attempt : attempts'[<<e, m>>].at = attempts[<<e, m>>].at /\ attempts[<<e, m>>].at <= clock
    BY <2>2, <2>5 DEF SendingInv, Asked
  <2>11. \A e \in Delivery, m \in Attempt : attempts'[<<e, m>>].stage = "none" <=> attempts[<<e, m>>].stage = "none"
    BY <1>1, <2>2, <2>5
  <2>12. \A e \in Delivery : Asked(e)'
    BY <1>1, <1>4, <2>10, <2>11 DEF SendingInv, Asked
  <2>13. \A e \in Delivery : Budget(e)'
    BY <1>1, <1>4, <2>4, <2>5 DEF SendingInv, Budget, Due
  <2>14. \A b \in Address : Profile(b)'
    <3>1. Profile(a)'
      BY <1>1, <1>2, <2>7 DEF Profile, AdapterBounds
    <3>2. \A b \in Address \ {a} : Profile(b)'
      BY <1>1, <2>7 DEF SendingInv, Profile
    <3>3. QED
      BY <3>1, <3>2
  <2>15. ProfileFirst'
    <3> SUFFICES ASSUME NEW e \in Delivery, NEW m \in Attempt, send[e].provider = "braze", attempts'[<<e, m>>].stage = "sending"
                 PROVE  tracked'[AddressOf[e]] # NotYet /\ tracked'[AddressOf[e]] + ttl >= attempts'[<<e, m>>].at
      BY <1>4 DEF ProfileFirst
    <3>1. attempts'[<<e, m>>].at <= clock /\ attempts'[<<e, m>>].at \in Nat /\ AddressOf[e] \in Address
      BY <2>5, <2>10 DEF CallRow, AdapterBounds
    <3>2. CASE AddressOf[e] = a
      BY <1>2, <2>7, <3>1, <3>2 DEF NotYet, AdapterBounds
    <3>3. CASE AddressOf[e] # a
      <4>1. attempts[<<e, m>>].stage = "sending"
        BY <2>5, <3>3 DEF a
      <4>2. tracked[AddressOf[e]] # NotYet /\ tracked[AddressOf[e]] + ttl >= attempts[<<e, m>>].at
        BY <4>1 DEF SendingInv, ProfileFirst
      <4>3. QED
        BY <2>7, <2>10, <3>1, <3>3, <4>2
    <3>4. QED
      BY <3>2, <3>3
  <2>16. QED
    BY <2>8, <2>9, <2>12, <2>13, <2>14, <2>15 DEF SendingInv
<1>5. QED
  BY <1>3, <1>4 DEF EnsureProfile

\* Of the outcomes that are tried again only the answer that never came leaves a message behind.
LEMMA ProviderKeeps ==
  ASSUME AdapterBounds, SendingInv, NEW d \in Delivery, NEW n \in Attempt, CallProvider(d, n)
  PROVE  SendingInv'
<1> DEFINE p == send[d].provider
<1>1. attempts[<<d, n>>].stage = "sending" /\ UNCHANGED <<tracked, cached, clock>> /\ n \in Open(d)
  BY DEF CallProvider, Open
<1> DEFINE After(outcome, k) ==
        /\ taken' = [taken EXCEPT ![d] = taken[d] + k]
        /\ untraced' = IF k = 1 /\ ~Traced(p, send[d].media) THEN untraced \cup {d} ELSE untraced
        /\ silent' = [silent EXCEPT ![d] = silent[d] + IF outcome = "lost" THEN 1 ELSE 0]
        /\ Answered(d, n, Result(p, outcome))
<1>0. PICK outcome \in Outcomes(p) : \E k \in Taken(outcome) : After(outcome, k)
  BY DEF CallProvider
<1>2. PICK k \in Taken(outcome) : After(outcome, k)
  BY <1>0
<1> DEFINE l == IF outcome = "lost" THEN 1 ELSE 0
           stage == Result(p, outcome)
<1>3. taken \in [Delivery -> Nat] /\ silent \in [Delivery -> Nat]
  BY DEF SendingInv, SendTypes
<1>4. k \in {0, 1} /\ l \in {0, 1} /\ (k = 1 => outcome \in {"accepted", "lost"})
  BY DEF Taken
<1>5. stage \in {"sent", "failed", "dead"} /\ (stage = "sent" => outcome = "accepted") /\ (stage = "failed" => outcome # "accepted")
  BY DEF Result
<1>6. stage = "sent" => k = 1
  BY <1>5 DEF Taken
<1>7. stage = "failed" => k <= l
  BY <1>4, <1>5
<1>8. ~Traced(p, send[d].media) => p = "ses" /\ send[d].media # "fits"
  <2>1. Attached("fits") = <<"fits">>
    BY DEF Attached
  <2>2. <<"fits">> # <<>>
    OBVIOUS
  <2>3. QED
    BY <2>1, <2>2 DEF Traced
<1> HIDE DEF l, stage
<1>9. /\ taken' \in [Delivery -> Nat] /\ taken'[d] = taken[d] + k /\ \A e \in Delivery \ {d} : taken'[e] = taken[e]
      /\ silent' \in [Delivery -> Nat] /\ silent'[d] = silent[d] + l /\ \A e \in Delivery \ {d} : silent'[e] = silent[e]
  BY <1>2, <1>3, <1>4 DEF l
<1>10. Answered(d, n, stage)
  BY <1>2 DEF stage
<1>11. untraced' = untraced \/ (untraced' = untraced \cup {d} /\ send[d].provider = "ses" /\ send[d].media # "fits")
  BY <1>2, <1>8
<1>12. QED
  BY <1>1, <1>4, <1>5, <1>6, <1>7, <1>9, <1>10, <1>11, AnswerKeeps

LEMMA EvictKeepsSends ==
  ASSUME AdapterBounds, SendingInv, NEW a \in Address, Evict(a)
  PROVE  SendingInv'
<1>1. cached' = [cached EXCEPT ![a] = 0] /\ UNCHANGED <<send, attempts, tracked, taken, silent, untraced, clock>>
  BY DEF Evict, NotYet
<1>2. /\ tracked \in [Address -> 0 .. MaxClock] /\ cached \in [Address -> 0 .. MaxClock + ttl] /\ 0 \in 0 .. MaxClock + ttl
  BY DEF SendingInv, SendTypes, AdapterBounds
<1>3. cached' \in [Address -> 0 .. MaxClock + ttl] /\ cached'[a] = 0 /\ \A b \in Address \ {a} : cached'[b] = cached[b]
  BY <1>1, <1>2
<1>4. SendTypes'
  BY <1>1, <1>3 DEF SendingInv, SendTypes
<1>5. SentIsAccepted' /\ ProfileFirst' /\ UntracedIsBare'
  BY <1>1 DEF SendingInv, SentIsAccepted, ProfileFirst, UntracedIsBare
<1>6. \A e \in Delivery : Asked(e)' /\ Budget(e)'
  BY <1>1 DEF SendingInv, Asked, Budget, Due, Open
<1>7. \A b \in Address : Profile(b)'
  <2>1. Profile(a)'
    BY <1>1, <1>2, <1>3 DEF SendingInv, Profile, AdapterBounds
  <2>2. \A b \in Address \ {a} : Profile(b)'
    BY <1>1, <1>3 DEF SendingInv, Profile
  <2>3. QED
    BY <2>1, <2>2
<1>8. QED
  BY <1>4, <1>5, <1>6, <1>7 DEF SendingInv

LEMMA ClockKeepsSends ==
  ASSUME AdapterBounds, SendingInv, ClockTick
  PROVE  SendingInv'
<1>1. clock < MaxClock /\ clock' = clock + 1 /\ UNCHANGED <<send, attempts, tracked, cached, taken, silent, untraced>>
  BY DEF ClockTick
<1>2. clock \in Nat /\ clock \in 1 .. MaxClock /\ clock' \in 1 .. MaxClock
  BY <1>1 DEF SendingInv, SendTypes, AdapterBounds
<1>3. SendTypes'
  BY <1>1, <1>2 DEF SendingInv, SendTypes
<1>4. SentIsAccepted' /\ ProfileFirst' /\ UntracedIsBare'
  BY <1>1 DEF SendingInv, SentIsAccepted, ProfileFirst, UntracedIsBare
<1>5. \A e \in Delivery : Budget(e)'
  BY <1>1 DEF SendingInv, Budget, Due, Open
<1>6. \A e \in Delivery : Asked(e)'
  <2>0. attempts \in [Delivery \X Attempt -> CallRow]
    BY DEF SendingInv, SendTypes, CallRow
  <2>1. \A e \in Delivery, m \in Attempt : attempts[<<e, m>>].at \in Nat
    BY <2>0 DEF CallRow, AdapterBounds
  <2>2. \A e \in Delivery, m \in Attempt : attempts[<<e, m>>].at <= clock'
    <3> SUFFICES ASSUME NEW e \in Delivery, NEW m \in Attempt PROVE attempts[<<e, m>>].at <= clock'
      OBVIOUS
    <3> DEFINE at == attempts[<<e, m>>].at
    <3>1. at \in Nat
      BY <2>1
    <3>2. at <= clock
      BY DEF SendingInv, Asked
    <3> HIDE DEF at
    <3>3. at <= clock'
      BY <1>1, <1>2, <3>1, <3>2
    <3>4. QED
      BY <3>3 DEF at
  <2>3. QED
    BY <1>1, <2>2 DEF SendingInv, Asked
<1>7. \A a \in Address : Profile(a)'
  <2>1. \A a \in Address : tracked[a] \in Nat
    BY DEF SendingInv, SendTypes, AdapterBounds
  <2>2. QED
    BY <1>1, <1>2, <2>1 DEF SendingInv, Profile
<1>8. QED
  BY <1>3, <1>4, <1>5, <1>6, <1>7 DEF SendingInv

LEMMA AdaptersStep == AdapterBounds /\ SendingInv /\ [AdaptersNext]_adapterVars => SendingInv'
<1> SUFFICES ASSUME AdapterBounds, SendingInv, [AdaptersNext]_adapterVars PROVE SendingInv'
  OBVIOUS
<1>1. CASE UNCHANGED adapterVars
  <2>1. UNCHANGED <<send, attempts, tracked, cached, taken, silent, untraced, clock>>
    BY <1>1 DEF adapterVars
  <2>2. SendTypes' /\ SentIsAccepted' /\ ProfileFirst' /\ UntracedIsBare'
    BY <2>1 DEF SendingInv, SendTypes, SentIsAccepted, ProfileFirst, UntracedIsBare
  <2>3. \A d \in Delivery : Asked(d)' /\ Budget(d)'
    BY <2>1 DEF SendingInv, Asked, Budget, Due, Open
  <2>4. \A a \in Address : Profile(a)'
    BY <2>1 DEF SendingInv, Profile
  <2>5. QED
    BY <2>2, <2>3, <2>4 DEF SendingInv
<1>2. ASSUME NEW d \in Delivery, FirstTry(d) PROVE SendingInv'
  <2>1. \A p \in Adapter : MediaOf(p) \subseteq {"none", "fits", "unfit"}
    BY DEF MediaOf
  <2>2. QED
    BY <1>2, <2>1, AskKeepsSends DEF FirstTry
<1>3. ASSUME NEW d \in Delivery, Retry(d) PROVE SendingInv'
  <2>1. send[d].stage = "failed" /\ Ask(d, send[d].provider, send[d].media)
    BY <1>3 DEF Retry
  <2>2. send[d].provider \in Adapter /\ send[d].media \in {"none", "fits", "unfit"}
    BY <2>1 DEF SendingInv, Asked, SendTypes
  <2>3. QED
    BY <2>1, <2>2, AskKeepsSends
<1>4. QED
  BY <1>1, <1>2, <1>3, TimeoutKeepsSends, EnsureKeeps, ProviderKeeps, EvictKeepsSends, ClockKeepsSends DEF AdaptersNext

\* For any number of sends, adapters, attempts and addresses: what the router takes for sent was taken by the provider, a
\* provider takes one message per send and one more for each answer the router never had, a message goes to Braze only for
\* a profile tracked before, and a mail no webhook can be traced to is one SES got without attachments.
THEOREM SendsHold == AdapterBounds => (AdaptersSpec => []SendsAccounted)
<1> SUFFICES ASSUME AdapterBounds PROVE AdaptersSpec => []SendsAccounted
  OBVIOUS
<1>1. AdaptersInit => SendingInv
  BY AdaptersStart
<1>2. SendingInv /\ [AdaptersNext]_adapterVars => SendingInv'
  BY AdaptersStep
<1>3. SendingInv => SendsAccounted
  <2> SUFFICES ASSUME SendingInv PROVE DuplicatesNeedSilence
    BY DEF SendingInv, SendsAccounted
  <2> SUFFICES ASSUME NEW d \in Delivery PROVE taken[d] <= 1 + silent[d]
    BY DEF DuplicatesNeedSilence
  <2>1. taken[d] \in Nat /\ silent[d] \in Nat /\ Cardinality(Open(d)) \in Nat /\ Due(d) \in {0, 1}
    BY OpenFacts DEF SendingInv, SendTypes, Due
  <2>2. QED
    BY <2>1 DEF SendingInv, Budget
<1>4. QED
  BY <1>1, <1>2, <1>3, PTL DEF AdaptersSpec

-----------------------------------------------------------------------------
(***************************************************************************)
(* The adapters' messages and webhook posts and the router's media.  The   *)
(* entries Picked from a sequence, first.                                  *)
(***************************************************************************)
Places(s, x) == {i \in DOMAIN s : s[i] = x}
UpTo(places, i) == {j \in places : j <= i}

\* The places of Picked are numbered by how many there are up to them, each number once.
LEMMA PickedFacts ==
  ASSUME NEW S, NEW s \in Seq(S), NEW places \in SUBSET (1..Len(s))
  PROVE  /\ Picked(s, places) \in Seq(S) /\ Len(Picked(s, places)) = Cardinality(places)
         /\ \A x \in S : Cardinality(Places(Picked(s, places), x)) = Cardinality(places \cap Places(s, x))
         /\ \A i \in places : Cardinality(UpTo(places, i)) \in 1..Cardinality(places)
                              /\ Picked(s, places)[Cardinality(UpTo(places, i))] = s[i]
         /\ \A n \in 1..Cardinality(places) : \E i \in places : Cardinality(UpTo(places, i)) = n
<1> DEFINE upTo(i) == {j \in places : j <= i}
           size == Cardinality(places)
<1>1. IsFiniteSet(places) /\ size \in Nat /\ places \subseteq Nat
  <2>1. IsFiniteSet(1..Len(s))
    BY FS_Interval
  <2>2. IsFiniteSet(places) /\ size \in Nat
    BY <2>1, FS_Subset, FS_CardinalityType
  <2>3. 1..Len(s) \subseteq Nat
    OBVIOUS
  <2>4. QED
    BY <2>2, <2>3
<1>2. ASSUME NEW i \in places
      PROVE  IsFiniteSet(upTo(i)) /\ Cardinality(upTo(i)) \in 1..size /\ Cardinality(upTo(i)) \in Nat
  <2>1. IsFiniteSet(upTo(i)) /\ Cardinality(upTo(i)) <= size /\ Cardinality(upTo(i)) \in Nat
    BY <1>1, FS_Subset, FS_CardinalityType
  <2>2. i \in upTo(i)
    OBVIOUS
  <2>3. Cardinality(upTo(i)) # 0
    BY <2>1, <2>2, FS_EmptySet
  <2>4. QED
    BY <1>1, <2>1, <2>3
<1>3. ASSUME NEW i \in places, NEW j \in places, i < j PROVE Cardinality(upTo(i)) < Cardinality(upTo(j))
  <2>1. upTo(i) \in SUBSET upTo(j) /\ j \in upTo(j) /\ j \notin upTo(i)
    <3>1. i \in Nat /\ j \in Nat /\ i < j
      BY <1>1, <1>3
    <3>2. \A k \in places : k \in Nat /\ (k <= i => k <= j)
      BY <1>1, <3>1
    <3>3. j <= j /\ ~ (j <= i)
      BY <3>1
    <3>4. upTo(i) \subseteq upTo(j)
      BY <3>2
    <3>5. j \in upTo(j) /\ j \notin upTo(i)
      BY <3>3
    <3>6. QED
      BY <3>4, <3>5
  <2>2. Cardinality(upTo(i)) <= Cardinality(upTo(j)) /\ Cardinality(upTo(i)) # Cardinality(upTo(j))
    BY <1>2, <2>1, FS_Subset
  <2>3. Cardinality(upTo(i)) \in Nat /\ Cardinality(upTo(j)) \in Nat
    BY <1>2
  <2>4. QED
    BY <2>2, <2>3
<1> HIDE DEF upTo
<1> DEFINE rank == [i \in places |-> Cardinality(upTo(i))]
           place == [n \in 1..size |-> CHOOSE i \in places : Cardinality(upTo(i)) = n]
<1>4. rank \in Injection(places, 1..size)
  <2>1. rank \in [places -> 1..size]
    BY <1>2
  <2>2. ASSUME NEW i \in places, NEW j \in places, rank[i] = rank[j] PROVE i = j
    <3>1. Cardinality(upTo(i)) = Cardinality(upTo(j)) /\ Cardinality(upTo(i)) \in 1..size
      BY <1>2, <2>2
    <3>2. ~ (i < j) /\ ~ (j < i)
      BY <1>3, <3>1
    <3>3. QED
      BY <3>2
  <2>3. QED
    BY <2>1, <2>2 DEF Injection, IsInjective
<1>5. IsFiniteSet(1..size) /\ Cardinality(1..size) = size
  BY <1>1, FS_Interval
<1>6. rank \in Surjection(places, 1..size)
  BY <1>4, <1>5, FS_Injection
<1>7. ASSUME NEW n \in 1..size PROVE place[n] \in places /\ place[n] \in 1..Len(s) /\ Cardinality(upTo(place[n])) = n
  <2>1. \E i \in places : Cardinality(upTo(i)) = n
    BY <1>6 DEF Surjection
  <2>2. QED
    BY <2>1
<1>8. ASSUME NEW i \in places PROVE \E n \in 1..size : place[n] = i
  <2>1. Cardinality(upTo(i)) \in 1..size
    BY <1>2
  <2>2. place[Cardinality(upTo(i))] \in places /\ Cardinality(upTo(place[Cardinality(upTo(i))])) = Cardinality(upTo(i))
    BY <1>7, <2>1
  <2>3. rank[place[Cardinality(upTo(i))]] = rank[i]
    BY <2>2
  <2>4. place[Cardinality(upTo(i))] = i
    BY <1>4, <2>2, <2>3 DEF Injection, IsInjective
  <2>5. QED
    BY <2>1, <2>4
<1>9. Picked(s, places) = [n \in 1..size |-> s[place[n]]]
  BY DEF Picked, upTo
<1> HIDE DEF place, rank
<1>10. Picked(s, places) \in Seq(S) /\ DOMAIN Picked(s, places) = 1..size /\ \A n \in 1..size : Picked(s, places)[n] = s[place[n]]
  <2>1. \A n \in 1..size : s[place[n]] \in S
    BY <1>7
  <2> HIDE DEF size
  <2>2. QED
    BY <1>1, <1>9, <2>1
<1>11. ASSUME NEW x \in S
       PROVE  Cardinality(Places(Picked(s, places), x)) = Cardinality(places \cap Places(s, x))
  <2> DEFINE at == {n \in 1..size : s[place[n]] = x}
             of == {i \in places : s[i] = x}
             by == [i \in of |-> rank[i]]
  <2>1. Places(Picked(s, places), x) = at /\ places \cap Places(s, x) = of
    <3>1. \A n : n \in Places(Picked(s, places), x) <=> n \in at
      BY <1>10 DEF Places
    <3>2. places \subseteq DOMAIN s
      OBVIOUS
    <3>3. \A i : i \in places \cap Places(s, x) <=> i \in of
      BY <3>2 DEF Places
    <3>4. QED
      BY <3>1, <3>3
  <2>2. \A i \in places : rank[i] \in 1..size /\ place[rank[i]] = i
    <3> SUFFICES ASSUME NEW i \in places PROVE rank[i] \in 1..size /\ place[rank[i]] = i
      OBVIOUS
    <3>1. rank[i] = Cardinality(upTo(i)) /\ rank[i] \in 1..size
      BY <1>2 DEF rank
    <3>2. place[rank[i]] \in places /\ Cardinality(upTo(place[rank[i]])) = rank[i]
      BY <1>7, <3>1
    <3>3. rank[place[rank[i]]] = rank[i]
      BY <3>1, <3>2 DEF rank
    <3>4. QED
      BY <1>4, <3>1, <3>2, <3>3 DEF Injection, IsInjective
  <2>3. \A n \in 1..size : place[n] \in places /\ rank[place[n]] = n
    BY <1>7 DEF rank
  <2>4. by \in Bijection(of, at)
    <3>1. by \in [of -> at]
      BY <2>2
    <3>2. \A i, j \in of : by[i] = by[j] => i = j
      BY <2>2
    <3>3. \A n \in at : \E i \in of : by[i] = n
      BY <2>3
    <3>4. QED
      BY <3>1, <3>2, <3>3 DEF Bijection, Injection, Surjection, IsInjective
  <2>5. IsFiniteSet(of)
    BY <1>1, FS_Subset
  <2>6. Cardinality(of) = Cardinality(at)
    <3> HIDE DEF at, of, by
    <3>1. IsFiniteSet(of)
      BY <2>5
    <3>2. QED
      BY <2>4, <3>1, FS_Bijection DEF ExistsBijection
  <2>7. QED
    BY <2>1, <2>6
<1>12. ASSUME NEW i \in places
       PROVE  Cardinality(UpTo(places, i)) \in 1..size /\ Picked(s, places)[Cardinality(UpTo(places, i))] = s[i]
  <2>1. PICK n \in 1..size : place[n] = i
    BY <1>8
  <2>2. Cardinality(upTo(i)) = n
    BY <1>7, <2>1
  <2>3. QED
    BY <1>10, <2>1, <2>2 DEF upTo, UpTo
<1>13. Len(Picked(s, places)) = size
  BY <1>1, <1>10
<1>14. \A n \in 1..size : \E i \in places : Cardinality(UpTo(places, i)) = n
  BY <1>7 DEF upTo, UpTo
<1>15. QED
  BY <1>10, <1>11, <1>12, <1>13, <1>14

-----------------------------------------------------------------------------
(***************************************************************************)
(* The messages.                                                           *)
(***************************************************************************)
Acceptable(r) == r \in SendRequest /\ (r.service # "braze" => r.configured) /\ (r.channel # "email" => ~r.html)

MessagesInv ==
  \/ request = Nothing /\ message = Nothing /\ event = Nothing
  \/ /\ Acceptable(request) /\ message = Build(request)
     /\ \/ event = Nothing
        \/ /\ message.kind = "message" /\ request.service # "whatsapp"
           /\ event.report \in Report /\ event.type \in EventTypes(request, event.report)
           /\ event.ids = message.ids

LEMMA RequestIsSome == \A r \in SendRequest : r # Nothing
<1> SUFFICES ASSUME NEW r \in SendRequest, r = Nothing PROVE FALSE
  OBVIOUS
<1>1. "service" \in DOMAIN r
  BY DEF SendRequest
<1>2. "service" \notin DOMAIN r
  BY DEF Nothing
<1>3. QED
  BY <1>1, <1>2

\* What every adapter's message takes from the request.
LEMMA BuiltFacts ==
  ASSUME NEW r, Acceptable(r), Build(r).kind = "message"
  PROVE  /\ r.body # "empty" =>
              \/ Build(r).text \in {"body", "html"}
              \/ r.channel = "whatsapp" /\ (r.service = "braze" \/ Build(r).text = "params")
         /\ r.channel = "email" => Build(r).media \in {r.media, Attachments(r.media)}
         /\ r.service # "whatsapp" /\ "notification" \notin Build(r).ids =>
              \/ r.service = "braze" /\ r.channel # "email"
              \/ r.service = "ses-api" /\ Attachments(r.media) = <<>>
<1>1. /\ r.channel \in {"email", "sms", "whatsapp", "push"} /\ r.body \in {"plain", "markup", "empty"}
      /\ "notification" \in r.ids /\ r.template \in BOOLEAN /\ r.html \in BOOLEAN /\ r.params \in BOOLEAN
      /\ r.configured \in BOOLEAN /\ r.prefixed \in BOOLEAN
  BY DEF Acceptable, SendRequest, Ids
<1>2. CASE r.service = "braze" /\ r.channel = "email"
  BY <1>1, <1>2 DEF Build, BrazePayload, BrazeEmail, Content, MailText
<1>3. CASE r.service = "braze" /\ r.channel = "sms"
  BY <1>1, <1>3 DEF Build, BrazePayload, BrazeSms, Content, Refused
<1>4. CASE r.service = "braze" /\ r.channel = "whatsapp"
  BY <1>1, <1>4
<1>5. CASE r.service = "braze" /\ r.channel = "push"
  <2>1. Build(r) = BrazePush(r)
    BY <1>5 DEF Build, BrazePayload
  <2>2. BrazePush(r).text = "body"
    BY DEF BrazePush, Content
  <2>3. QED
    BY <1>1, <1>5, <2>1, <2>2
<1>6. CASE r.service = "whatsapp"
  <2>1. r.channel = "whatsapp" /\ Build(r) = WhatsApp(r)
    BY <1>6 DEF Build, Refused
  <2>2. CASE r.template \/ r.prefixed
    BY <1>1, <1>6, <2>1, <2>2 DEF WhatsApp, TemplateText, Content
  <2>3. CASE ~(r.template \/ r.prefixed) /\ r.media # <<>>
    BY <1>1, <1>6, <2>1, <2>3 DEF WhatsApp, MediaMessage, Content
  <2>4. CASE ~(r.template \/ r.prefixed) /\ r.media = <<>>
    BY <1>1, <1>6, <2>1, <2>4 DEF WhatsApp, Content
  <2>5. QED
    BY <2>2, <2>3, <2>4
<1>7. CASE r.service \notin {"braze", "whatsapp"}
  <2>1. r.channel = "email" /\ Build(r) = Mail(r)
    BY <1>7 DEF Build, Refused
  <2>2. CASE r.service = "ses-api" /\ Attachments(r.media) = <<>>
    BY <1>1, <2>1, <2>2 DEF Mail, SesApi, SesSimple, Content, MailText
  <2>3. CASE r.service = "ses-api" /\ Attachments(r.media) # <<>>
    BY <1>1, <2>1, <2>3 DEF Mail, SesApi, SesRaw, Content, MailText
  <2>4. CASE r.service = "ses-smtp"
    BY <1>1, <2>1, <2>4 DEF Mail, SesRaw, Content, MailText
  <2>5. CASE r.service \notin {"ses-api", "ses-smtp"}
    BY <1>1, <2>1, <2>5 DEF Mail, Mailgun, Content, MailText
  <2>6. QED
    BY <2>2, <2>3, <2>4, <2>5
<1>8. QED
  BY <1>1, <1>2, <1>3, <1>4, <1>5, <1>6, <1>7

LEMMA MediaIsSequence == ASSUME NEW r, Acceptable(r) PROVE r.media \in Seq(Media)
<1>1. PICK m \in 0..MaxMedia : r.media \in [1..m -> Media]
  BY MessagesAssumption DEF Acceptable, SendRequest, BoundedSeq, SeqOf
<1>2. QED
  BY <1>1, MessagesAssumption

\* Every kind of attachment that can be read stands among them as often as in the request.
LEMMA AttachmentsCount ==
  ASSUME NEW s \in Seq(Media), NEW m \in Media \ {"broken"}
  PROVE  Cardinality({i \in DOMAIN Attachments(s) : Attachments(s)[i] = m}) = Cardinality({i \in DOMAIN s : s[i] = m})
<1> DEFINE places == {i \in DOMAIN s : s[i] # "broken"}
<1>1. places \in SUBSET (1..Len(s))
  OBVIOUS
<1>2. Cardinality(Places(Picked(s, places), m)) = Cardinality(places \cap Places(s, m))
  <2> HIDE DEF places
  <2>1. QED
    BY <1>1, PickedFacts
<1>3. places \cap Places(s, m) = Places(s, m)
  BY DEF Places
<1>4. QED
  BY <1>2, <1>3 DEF Attachments, Places

LEMMA MessagesStart == MessagesInit => MessagesInv
BY DEF MessagesInit, MessagesInv

LEMMA MessagesStep == MessagesInv /\ [MessagesNext]_messageVars => MessagesInv'
<1> SUFFICES ASSUME MessagesInv, [MessagesNext]_messageVars PROVE MessagesInv'
  OBVIOUS
<1>1. CASE UNCHANGED messageVars
  BY <1>1 DEF MessagesInv, messageVars
<1>2. CASE AskMessage
  <2>1. event = Nothing
    BY <1>2, RequestIsSome DEF AskMessage, MessagesInv, Acceptable
  <2>2. Acceptable(request') /\ message' = Build(request') /\ event' = Nothing
    BY <1>2, <2>1 DEF AskMessage, Acceptable
  <2>3. QED
    BY <2>2 DEF MessagesInv
<1>3. CASE Normalize
  <2>1. message # Nothing
    BY <1>3 DEF Normalize, Nothing
  <2>2. Acceptable(request) /\ message = Build(request)
    BY <2>1 DEF MessagesInv
  <2>3. PICK report \in Report : \E type \in EventTypes(request, report) :
          event' = [kind |-> "event", report |-> report, type |-> type, ids |-> message.ids]
    BY <1>3 DEF Normalize
  <2>4. /\ event'.report \in Report /\ event'.type \in EventTypes(request, event'.report) /\ event'.ids = message.ids
    BY <2>3
  <2>5. UNCHANGED <<request, message>> /\ message.kind = "message" /\ request.service # "whatsapp"
    BY <1>3 DEF Normalize
  <2>6. QED
    BY <2>2, <2>4, <2>5 DEF MessagesInv
<1>4. CASE NextRequest
  BY <1>4 DEF NextRequest, MessagesInv
<1>5. QED
  BY <1>1, <1>2, <1>3, <1>4 DEF MessagesNext

LEMMA MessagesFaithful == MessagesInv => TextIsSent /\ MailsKeepMedia /\ NamelessIsKnown /\ BouncedIsPermanent
<1> SUFFICES ASSUME MessagesInv PROVE TextIsSent /\ MailsKeepMedia /\ NamelessIsKnown /\ BouncedIsPermanent
  OBVIOUS
<1>1. message.kind = "message" => Acceptable(request) /\ message = Build(request)
  BY DEF MessagesInv, Nothing
<1>2. event.kind = "event" =>
        /\ message.kind = "message" /\ request.service # "whatsapp"
        /\ event.report \in Report /\ event.type \in EventTypes(request, event.report) /\ event.ids = message.ids
  BY DEF MessagesInv, Nothing
<1>3. TextIsSent
  BY <1>1, BuiltFacts DEF TextIsSent
<1>4. MailsKeepMedia
  <2> SUFFICES ASSUME message.kind = "message", request.channel = "email", NEW m \in Media \ {"broken"}
               PROVE  Cardinality({i \in DOMAIN message.media : message.media[i] = m})
                        = Cardinality({i \in DOMAIN request.media : request.media[i] = m})
    BY DEF MailsKeepMedia
  <2>1. message.media \in {request.media, Attachments(request.media)}
    BY <1>1, BuiltFacts
  <2>2. PICK s : s = request.media
    OBVIOUS
  <2>3. s \in Seq(Media)
    BY <1>1, <2>2, MediaIsSequence
  <2>4. Cardinality({i \in DOMAIN Attachments(s) : Attachments(s)[i] = m}) = Cardinality({i \in DOMAIN s : s[i] = m})
    BY <2>3, AttachmentsCount
  <2>5. QED
    BY <2>1, <2>2, <2>4
<1>5. NamelessIsKnown
  BY <1>1, <1>2, BuiltFacts DEF NamelessIsKnown
<1>6. BouncedIsPermanent
  BY <1>2 DEF BouncedIsPermanent, EventTypes, BrazeType, MailgunType, SesType, Report
<1>7. QED
  BY <1>3, <1>4, <1>5, <1>6

-----------------------------------------------------------------------------
(***************************************************************************)
(* The webhook posts.  EventsCounted: of the events processed so far, each *)
(* the provider's adapter knows went out or failed to.                     *)
(***************************************************************************)
Providers == {"none", "braze", "mailgun", "ses"}
PostOf == [provider : Providers, events : Seq(EventKind), answer : {"unsent", "open", "ok", "refused"},
           times : 0..MaxPosts, done : Nat, failed : Nat, dropped : BOOLEAN]

PostTypes ==
  /\ post \in [WebhookPost -> PostOf] /\ out \in Seq([post : WebhookPost, event : Nat \ {0}])
  /\ \A p \in WebhookPost : post[p].done \in 0..Len(post[p].events)

OutOf(p) == {k \in DOMAIN out : out[k].post = p}
Known(p) == {i \in 1..post[p].done : Normalized(post[p].provider, post[p].events[i]) # {}}

\* Nothing is processed before the post is accepted, or of one dropped.
Untouched ==
  \A p \in WebhookPost :
    /\ post[p].answer \in {"unsent", "refused"} => ~post[p].dropped /\ post[p].done = 0
    /\ post[p].answer = "open" => ~post[p].dropped
    /\ post[p].answer = "unsent" => post[p].times = 0
    /\ post[p].dropped => post[p].done = 0

EventsCounted == \A p \in WebhookPost : post[p].failed + Cardinality(OutOf(p)) = Cardinality(Known(p))

\* What went out of a post are events processed, and in their order.
OutBefore == \A k \in DOMAIN out : out[k].event <= post[out[k].post].done

Ended ==
  \A p \in WebhookPost :
    post[p].answer = "ok" /\ ~post[p].dropped =>
      \/ post[p].done = Len(post[p].events)
      \/ post[p].done < Len(post[p].events) /\ post[p].events[post[p].done + 1] = "malformed"

WebhooksInv == PostTypes /\ Untouched /\ EventsCounted /\ OutBefore /\ InOrder /\ Ended

LEMMA BatchesAreSequences == ASSUME NEW poster PROVE BatchesOf(poster) \subseteq Seq(EventKind)
<1>1. BoundedSeq(EventKind, BatchLength) \subseteq Seq(EventKind)
  <2>1. ASSUME NEW m \in 0..BatchLength PROVE [1..m -> EventKind] \subseteq Seq(EventKind)
    BY WebhooksAssumption
  <2>2. QED
    BY <2>1 DEF BoundedSeq, SeqOf
<1>2. [1..1 -> EventKind] \subseteq Seq(EventKind)
  <2>1. 1 \in Nat
    OBVIOUS
  <2>2. ASSUME NEW n \in Nat PROVE [1..n -> EventKind] \subseteq Seq(EventKind)
    OBVIOUS
  <2>3. QED
    BY <2>1, <2>2
<1>3. QED
  BY <1>1, <1>2 DEF BatchesOf

LEMMA OutTyped ==
  ASSUME PostTypes
  PROVE  /\ DOMAIN out = 1..Len(out) /\ Len(out) \in Nat
         /\ \A k \in DOMAIN out : out[k].post \in WebhookPost /\ out[k].event \in Nat \ {0}
<1> DEFINE R == [post : WebhookPost, event : Nat \ {0}]
<1>1. out \in Seq(R)
  BY DEF PostTypes
<1>2. \A x \in R : x.post \in WebhookPost /\ x.event \in Nat \ {0}
  OBVIOUS
<1> HIDE DEF R
<1>3. DOMAIN out = 1..Len(out) /\ Len(out) \in Nat /\ \A k \in DOMAIN out : out[k] \in R
  BY <1>1
<1>4. QED
  BY <1>2, <1>3

LEMMA FiniteParts ==
  ASSUME PostTypes, NEW p \in WebhookPost
  PROVE  /\ IsFiniteSet(OutOf(p)) /\ Cardinality(OutOf(p)) \in Nat
         /\ IsFiniteSet(Known(p)) /\ Cardinality(Known(p)) \in Nat
<1>1. DOMAIN out = 1..Len(out) /\ Len(out) \in Nat /\ post[p].done \in Nat
  BY DEF PostTypes, PostOf
<1>2. IsFiniteSet(1..Len(out)) /\ IsFiniteSet(1..post[p].done)
  <2>1. 1 \in Int /\ Len(out) \in Int /\ post[p].done \in Int
    BY <1>1
  <2>2. QED
    BY <2>1, FS_Interval
<1>3. OutOf(p) \subseteq 1..Len(out) /\ Known(p) \subseteq 1..post[p].done
  BY <1>1 DEF OutOf, Known
<1>4. QED
  BY <1>2, <1>3, FS_Subset, FS_CardinalityType

LEMMA WebhooksStart == WebhooksInit => WebhooksInv
<1> SUFFICES ASSUME WebhooksInit PROVE WebhooksInv
  OBVIOUS
<1>1. \A p \in WebhookPost :
        post[p] = [provider |-> "none", events |-> <<>>, answer |-> "unsent", times |-> 0, done |-> 0, failed |-> 0, dropped |-> FALSE]
  BY DEF WebhooksInit
<1>2. out = <<>> /\ DOMAIN post = WebhookPost
  BY DEF WebhooksInit
<1>3. PostTypes
  <2>1. \E e \in Seq(EventKind) : e = <<>> /\ Len(e) = 0 /\ 0 \in 0..MaxPosts
    <3>1. 0 \in 0..MaxPosts
      BY WebhooksAssumption
    <3>2. <<>> \in Seq(EventKind) /\ Len(<<>>) = 0
      OBVIOUS
    <3>3. QED
      BY <3>1, <3>2
  <2>5. PICK e \in Seq(EventKind) : e = <<>> /\ Len(e) = 0 /\ 0 \in 0..MaxPosts
    BY <2>1
  <2> DEFINE new == [provider |-> "none", events |-> e, answer |-> "unsent", times |-> 0, done |-> 0, failed |-> 0, dropped |-> FALSE]
  <2>2. \A p \in WebhookPost : post[p] \in PostOf /\ post[p].done \in 0..Len(post[p].events)
    <3>1. new \in PostOf
      BY <2>5 DEF PostOf, Providers
    <3>2. new.done \in 0..Len(new.events)
      BY <2>5
    <3>3. \A p \in WebhookPost : post[p] = new
      BY <1>1, <2>5
    <3>4. QED
      BY <3>1, <3>2, <3>3
  <2>3. post \in [WebhookPost -> PostOf]
    BY <1>2, <2>2 DEF WebhooksInit
  <2>4. QED
    BY <1>2, <2>2, <2>3 DEF PostTypes
<1>4. EventsCounted
  <2> SUFFICES ASSUME NEW p \in WebhookPost PROVE post[p].failed + Cardinality(OutOf(p)) = Cardinality(Known(p))
    BY DEF EventsCounted
  <2>1. OutOf(p) = {}
    BY <1>2 DEF OutOf
  <2>2. Known(p) = {}
    BY <1>1 DEF Known
  <2>3. QED
    BY <1>1, <2>1, <2>2, FS_EmptySet
<1>5. Untouched
  BY <1>1 DEF Untouched
<1>6. OutBefore /\ InOrder
  BY <1>2 DEF OutBefore, InOrder
<1>7. Ended
  BY <1>1 DEF Ended
<1>8. QED
  BY <1>3, <1>4, <1>5, <1>6, <1>7 DEF WebhooksInv

\* The post is verified, for the first time or again, or refused, or dropped.
LEMMA VerifiedKeeps ==
  ASSUME WebhooksInv, NEW p \in WebhookPost, NEW poster \in Providers, NEW events \in Seq(EventKind),
         post[p].answer \in {"unsent", "refused"}, post[p].times < MaxPosts, Verified(p, poster, events), UNCHANGED out
  PROVE  WebhooksInv'
<1>1. PICK g \in PostOf : g = post[p]
  BY DEF WebhooksInv, PostTypes
<1>2. g.done = 0 /\ g.times + 1 \in 0..MaxPosts /\ g.failed \in Nat /\ g.dropped = FALSE
  BY <1>1, WebhooksAssumption DEF WebhooksInv, Untouched, PostOf
<1>3. PICK new \in PostOf :
        /\ post' = [post EXCEPT ![p] = new]
        /\ new.provider = poster /\ new.events = events /\ new.done = 0 /\ new.failed = g.failed
        /\ \/ new.answer \in {"open", "refused"} /\ ~new.dropped
           \/ new.answer = "ok" /\ new.dropped
  <2> DEFINE asked == [g EXCEPT !.provider = poster, !.events = events, !.times = @ + 1]
  <2>0. PICK a : a = asked
    OBVIOUS
  <2>1. a \in PostOf /\ a.provider = poster /\ a.events = events /\ a.done = 0 /\ a.failed = g.failed /\ a.dropped = FALSE
    BY <1>2, <2>0 DEF PostOf
  <2>2. CASE post' = [post EXCEPT ![p] = [a EXCEPT !.answer = "open", !.done = 0]]
    <3>1. PICK new : new = [a EXCEPT !.answer = "open", !.done = 0]
      OBVIOUS
    <3>2. /\ new \in PostOf /\ new.provider = poster /\ new.events = events /\ new.done = 0
          /\ new.failed = g.failed /\ new.dropped = FALSE /\ new.answer = "open"
      BY <2>1, <3>1 DEF PostOf
    <3>3. QED
      BY <2>2, <3>1, <3>2
  <2>3. CASE post' = [post EXCEPT ![p] = [a EXCEPT !.answer = "ok", !.dropped = TRUE]]
    <3>1. PICK new : new = [a EXCEPT !.answer = "ok", !.dropped = TRUE]
      OBVIOUS
    <3>2. /\ new \in PostOf /\ new.provider = poster /\ new.events = events /\ new.done = 0
          /\ new.failed = g.failed /\ new.dropped = TRUE /\ new.answer = "ok"
      BY <2>1, <3>1 DEF PostOf
    <3>3. QED
      BY <2>3, <3>1, <3>2
  <2>4. CASE post' = [post EXCEPT ![p] = [a EXCEPT !.answer = "refused"]]
    <3>1. PICK new : new = [a EXCEPT !.answer = "refused"]
      OBVIOUS
    <3>2. /\ new \in PostOf /\ new.provider = poster /\ new.events = events /\ new.done = 0
          /\ new.failed = g.failed /\ new.dropped = FALSE /\ new.answer = "refused"
      BY <2>1, <3>1 DEF PostOf
    <3>3. QED
      BY <2>4, <3>1, <3>2
  <2> HIDE DEF asked
  <2>5. \/ post' = [post EXCEPT ![p] = [a EXCEPT !.answer = "open", !.done = 0]]
        \/ post' = [post EXCEPT ![p] = [a EXCEPT !.answer = "ok", !.dropped = TRUE]]
        \/ post' = [post EXCEPT ![p] = [a EXCEPT !.answer = "refused"]]
    BY <1>1, <2>0 DEF Verified, asked
  <2>6. QED
    BY <2>2, <2>3, <2>4, <2>5
<1>4. /\ post'[p] = new /\ \A q \in WebhookPost \ {p} : post'[q] = post[q]
      /\ DOMAIN post' = WebhookPost /\ post' \in [WebhookPost -> PostOf]
  BY <1>3 DEF WebhooksInv, PostTypes
<1>5. Known(p) = {} /\ Known(p)' = {}
  BY <1>1, <1>2, <1>3, <1>4 DEF Known
<1>6. OutOf(p) = {} /\ g.failed = 0
  <2>1. g.failed + Cardinality(OutOf(p)) = 0
    BY <1>1, <1>5, FS_EmptySet DEF WebhooksInv, EventsCounted
  <2>2. IsFiniteSet(OutOf(p)) /\ Cardinality(OutOf(p)) \in Nat
    BY FiniteParts DEF WebhooksInv
  <2>3. g.failed = 0 /\ Cardinality(OutOf(p)) = 0
    BY <1>2, <2>1, <2>2
  <2>4. QED
    BY <2>2, <2>3, FS_EmptySet
<1>7. PostTypes'
  <2>1. \A q \in WebhookPost : post'[q].done \in 0..Len(post'[q].events)
    BY <1>3, <1>4 DEF WebhooksInv, PostTypes
  <2>2. QED
    BY <1>4, <2>1 DEF WebhooksInv, PostTypes
<1>8. EventsCounted'
  <2> SUFFICES ASSUME NEW q \in WebhookPost PROVE (post[q].failed + Cardinality(OutOf(q)) = Cardinality(Known(q)))'
    BY DEF EventsCounted
  <2>1. OutOf(q)' = OutOf(q)
    BY DEF OutOf
  <2>2. CASE q = p
    <3>1. Known(q)' = {} /\ OutOf(q)' = {} /\ post'[q].failed = 0
      BY <1>3, <1>4, <1>5, <1>6, <2>1, <2>2
    <3>2. QED
      BY <3>1, FS_EmptySet
  <2>3. CASE q # p
    <3>1. Known(q)' = Known(q) /\ post'[q].failed = post[q].failed
      BY <1>4, <2>3 DEF Known
    <3>2. QED
      BY <2>1, <3>1 DEF WebhooksInv, EventsCounted
  <2>4. QED
    BY <2>2, <2>3
<1>9. Untouched'
  BY <1>3, <1>4 DEF WebhooksInv, Untouched
<1>10. OutBefore' /\ InOrder'
  <2>1. \A k \in DOMAIN out : out[k].post \in WebhookPost \ {p}
    <3>1. \A k \in DOMAIN out : out[k].post \in WebhookPost
      BY OutTyped DEF WebhooksInv
    <3>2. QED
      BY <1>6, <3>1 DEF OutOf
  <2>2. OutBefore'
    BY <1>4, <2>1 DEF WebhooksInv, OutBefore
  <2>3. QED
    BY <2>2 DEF WebhooksInv, InOrder
<1>11. Ended'
  BY <1>3, <1>4 DEF WebhooksInv, Ended
<1>12. QED
  BY <1>7, <1>8, <1>9, <1>10, <1>11 DEF WebhooksInv

\* An event is processed: skipped, published, or lost to a failing publish.
LEMMA ProcessKeeps ==
  ASSUME WebhooksInv, NEW p \in WebhookPost, ProcessEvent(p)
  PROVE  WebhooksInv'
<1> DEFINE i == post[p].done + 1
           known == Normalized(post[p].provider, post[p].events[i]) # {}
           sent == [post |-> p, event |-> i]
<1>1. PICK g \in PostOf : g = post[p]
  BY DEF WebhooksInv, PostTypes
<1>2. /\ g.done \in Nat /\ i = g.done + 1 /\ g.done < Len(g.events) /\ g.answer = "open" /\ g.failed \in Nat
      /\ Len(g.events) \in Nat /\ ~g.dropped
  BY <1>1 DEF ProcessEvent, PostOf, WebhooksInv, Untouched
<1>3. PICK new \in PostOf :
        /\ post' = [post EXCEPT ![p] = new]
        /\ new.provider = g.provider /\ new.events = g.events /\ new.answer = "open" /\ new.dropped = g.dropped
        /\ new.done = i
        /\ \/ ~known /\ new.failed = g.failed /\ out' = out
           \/ known /\ new.failed = g.failed /\ out' = Append(out, sent)
           \/ known /\ new.failed = g.failed + 1 /\ out' = out
  <2>1. CASE post' = [post EXCEPT ![p].done = i] /\ ((~known /\ out' = out) \/ (known /\ out' = Append(out, sent)))
    <3>1. PICK new : new = [g EXCEPT !.done = i]
      OBVIOUS
    <3>2. /\ new \in PostOf /\ new.provider = g.provider /\ new.events = g.events /\ new.done = i
          /\ new.failed = g.failed /\ new.dropped = g.dropped /\ new.answer = "open"
      BY <1>2, <3>1 DEF PostOf
    <3>3. post' = [post EXCEPT ![p] = new]
      BY <1>1, <2>1, <3>1
    <3>4. QED
      BY <2>1, <3>2, <3>3
  <2>2. CASE post' = [post EXCEPT ![p].done = i, ![p].failed = @ + 1] /\ known /\ out' = out
    <3>1. PICK new : new = [g EXCEPT !.done = i, !.failed = @ + 1]
      OBVIOUS
    <3>2. /\ new \in PostOf /\ new.provider = g.provider /\ new.events = g.events /\ new.done = i
          /\ new.failed = g.failed + 1 /\ new.dropped = g.dropped /\ new.answer = "open"
      <4>1. PICK h : h = [g EXCEPT !.done = i]
        OBVIOUS
      <4>2. /\ h \in PostOf /\ h.provider = g.provider /\ h.events = g.events /\ h.done = i
            /\ h.failed = g.failed /\ h.dropped = g.dropped /\ h.answer = "open"
        BY <1>2, <4>1 DEF PostOf
      <4>3. new = [h EXCEPT !.failed = g.failed + 1]
        BY <3>1, <4>1, <4>2
      <4>4. QED
        BY <1>2, <4>2, <4>3 DEF PostOf
    <3>3. post' = [post EXCEPT ![p] = new]
      BY <1>1, <2>2, <3>1
    <3>4. QED
      BY <2>2, <3>2, <3>3
  <2>3. QED
    BY <2>1, <2>2 DEF ProcessEvent, PublishEvent
<1>4. /\ post'[p] = new /\ \A q \in WebhookPost \ {p} : post'[q] = post[q]
      /\ DOMAIN post' = WebhookPost /\ post' \in [WebhookPost -> PostOf]
  BY <1>3 DEF WebhooksInv, PostTypes
<1> HIDE DEF known
<1>5. OutOf(p)' = OutOf(p) \/ (out' = Append(out, sent) /\ OutOf(p)' = OutOf(p) \cup {Len(out) + 1})
  <2>1. CASE out' = out
    BY <2>1 DEF OutOf
  <2>2. CASE out' = Append(out, sent)
    <3>1. /\ DOMAIN out' = 1..Len(out) + 1 /\ \A k \in 1..Len(out) : out'[k] = out[k]
          /\ out'[Len(out) + 1] = sent
      BY <2>2 DEF WebhooksInv, PostTypes
    <3>2. QED
      BY <2>2, <3>1, OutTyped DEF OutOf, WebhooksInv
  <2>3. QED
    BY <1>3, <2>1, <2>2
<1>6. PostTypes'
  <2>1. \A q \in WebhookPost : post'[q].done \in 0..Len(post'[q].events)
    BY <1>2, <1>3, <1>4 DEF WebhooksInv, PostTypes
  <2>2. sent \in [post : WebhookPost, event : Nat \ {0}]
    BY <1>2
  <2>3. out' \in Seq([post : WebhookPost, event : Nat \ {0}])
    <3> DEFINE R == [post : WebhookPost, event : Nat \ {0}]
    <3>1. out \in Seq(R) /\ sent \in R
      BY <2>2 DEF WebhooksInv, PostTypes
    <3> HIDE DEF sent, R
    <3>2. out' \in Seq(R)
      BY <1>3, <3>1
    <3>3. QED
      BY <3>2 DEF R
  <2>4. QED
    BY <1>4, <2>1, <2>3 DEF PostTypes
<1>7. \A q \in WebhookPost \ {p} : OutOf(q)' = OutOf(q) /\ Known(q)' = Known(q)
  <2> SUFFICES ASSUME NEW q \in WebhookPost \ {p} PROVE OutOf(q)' = OutOf(q) /\ Known(q)' = Known(q)
    OBVIOUS
  <2>1. Known(q)' = Known(q)
    BY <1>4 DEF Known
  <2>2. CASE out' = out
    BY <2>1, <2>2 DEF OutOf
  <2>3. CASE out' = Append(out, sent)
    <3>1. /\ DOMAIN out' = 1..Len(out) + 1 /\ \A k \in 1..Len(out) : out'[k] = out[k]
          /\ out'[Len(out) + 1].post # q
      BY <2>3 DEF WebhooksInv, PostTypes
    <3>2. OutOf(q)' = OutOf(q)
      BY <2>3, <3>1, OutTyped DEF OutOf, WebhooksInv
    <3>3. QED
      BY <2>1, <3>2
  <2>4. QED
    BY <1>3, <2>2, <2>3
<1>8. Known(p)' = IF known THEN Known(p) \cup {i} ELSE Known(p)
  <2>1. Known(p) = {j \in 1..g.done : Normalized(g.provider, g.events[j]) # {}}
    BY <1>1 DEF Known
  <2>2. Known(p)' = {j \in 1..g.done + 1 : Normalized(g.provider, g.events[j]) # {}}
    BY <1>2, <1>3, <1>4 DEF Known, Normalized
  <2>3. known = (Normalized(g.provider, g.events[g.done + 1]) # {})
    BY <1>1 DEF known
  <2>4. \A j : j \in 1..g.done + 1 <=> (j \in 1..g.done \/ j = g.done + 1)
    BY <1>2
  <2>5. CASE known
    BY <1>2, <2>1, <2>2, <2>3, <2>4, <2>5
  <2>6. CASE ~known
    BY <1>2, <2>1, <2>2, <2>3, <2>4, <2>6
  <2>7. QED
    BY <2>5, <2>6
<1>9. EventsCounted'
  <2> SUFFICES ASSUME NEW q \in WebhookPost PROVE (post[q].failed + Cardinality(OutOf(q)) = Cardinality(Known(q)))'
    BY DEF EventsCounted
  <2>1. CASE q # p
    BY <1>4, <1>7, <2>1 DEF WebhooksInv, EventsCounted
  <2>2. CASE q = p
    <3>1. /\ IsFiniteSet(OutOf(p)) /\ Cardinality(OutOf(p)) \in Nat /\ IsFiniteSet(Known(p)) /\ Cardinality(Known(p)) \in Nat
          /\ g.failed + Cardinality(OutOf(p)) = Cardinality(Known(p))
      BY <1>1, FiniteParts DEF WebhooksInv, EventsCounted
    <3>2. Len(out) + 1 \notin OutOf(p) /\ i \notin Known(p)
      BY <1>1, <1>2, OutTyped DEF OutOf, Known, WebhooksInv
    <3>3. /\ Cardinality(OutOf(p) \cup {Len(out) + 1}) = Cardinality(OutOf(p)) + 1
          /\ Cardinality(Known(p) \cup {i}) = Cardinality(Known(p)) + 1
      BY <3>1, <3>2, FS_AddElement
    <3>4. CASE ~known
      <4>1. out' = out /\ new.failed = g.failed
        BY <1>3, <3>4
      <4>2. OutOf(p)' = OutOf(p)
        BY <4>1 DEF OutOf
      <4>3. QED
        BY <1>4, <1>8, <2>2, <3>1, <3>4, <4>1, <4>2
    <3>5. CASE known /\ out' = out /\ new.failed = g.failed + 1
      <4>1. OutOf(p)' = OutOf(p)
        BY <3>5 DEF OutOf
      <4>2. post'[q].failed = g.failed + 1 /\ OutOf(q)' = OutOf(p) /\ Known(q)' = Known(p) \cup {i}
        BY <1>4, <1>8, <2>2, <3>5, <4>1
      <4>3. QED
        BY <1>2, <3>1, <3>3, <4>2
    <3>6. CASE known /\ out' = Append(out, sent) /\ new.failed = g.failed
      <4>1. OutOf(p)' = OutOf(p) \cup {Len(out) + 1}
        <5>1. Len(out') = Len(out) + 1 /\ Len(out) \in Nat
          BY <3>6 DEF WebhooksInv, PostTypes
        <5>2. out' # out
          BY <5>1
        <5>3. out'[Len(out) + 1] = sent /\ Len(out) + 1 \in DOMAIN out'
          BY <3>6 DEF WebhooksInv, PostTypes
        <5>4. Len(out) + 1 \in OutOf(p)'
          BY <5>3 DEF OutOf
        <5>5. QED
          BY <1>5, <5>4, <3>2
      <4>2. post'[q].failed = g.failed /\ OutOf(q)' = OutOf(p) \cup {Len(out) + 1} /\ Known(q)' = Known(p) \cup {i}
        BY <1>4, <1>8, <2>2, <3>6, <4>1
      <4>3. QED
        BY <1>2, <3>1, <3>3, <4>2
    <3>7. QED
      BY <1>3, <3>4, <3>5, <3>6
  <2>3. QED
    BY <2>1, <2>2
<1>10. Untouched' /\ Ended'
  BY <1>2, <1>3, <1>4 DEF WebhooksInv, Untouched, Ended
<1>11. OutBefore' /\ InOrder'
  <2>1. \A k \in DOMAIN out : out[k].post \in WebhookPost /\ out[k].event \in Nat /\ out[k].event <= post[out[k].post].done
    BY OutTyped DEF WebhooksInv, OutBefore
  <2>2. \A k \in DOMAIN out : out[k].event <= post'[out[k].post].done
    BY <1>1, <1>2, <1>3, <1>4, <2>1
  <2>3. CASE out' = out
    BY <2>2, <2>3 DEF OutBefore, InOrder, WebhooksInv
  <2>4. CASE out' = Append(out, sent)
    <3>1. /\ DOMAIN out' = 1..Len(out) + 1 /\ \A k \in 1..Len(out) : out'[k] = out[k]
          /\ out'[Len(out) + 1].post = p /\ out'[Len(out) + 1].event = i /\ DOMAIN out = 1..Len(out) /\ Len(out) \in Nat
      BY <2>4 DEF WebhooksInv, PostTypes
    <3>2. OutBefore'
      <4>1. post'[p].done = i /\ i \in Nat
        BY <1>2, <1>3, <1>4
      <4>2. out'[Len(out) + 1].event <= post'[out'[Len(out) + 1].post].done
        BY <3>1, <4>1
      <4>3. \A k \in DOMAIN out' : k \in DOMAIN out \/ k = Len(out) + 1
        BY <3>1
      <4>4. QED
        BY <2>2, <3>1, <4>2, <4>3 DEF OutBefore
    <3>3. \A k \in DOMAIN out : out[k].post = p => out[k].event < i
      BY <1>1, <1>2, <2>1
    <3>4. InOrder'
      BY <3>1, <3>3 DEF InOrder, WebhooksInv
    <3>5. QED
      BY <3>2, <3>4
  <2>5. QED
    BY <1>3, <2>3, <2>4
<1>12. QED
  BY <1>6, <1>9, <1>10, <1>11 DEF WebhooksInv

LEMMA AnswerKeepsPost ==
  ASSUME WebhooksInv, NEW p \in WebhookPost, AnswerPost(p)
  PROVE  WebhooksInv'
<1>1. PICK g \in PostOf : g = post[p]
  BY DEF WebhooksInv, PostTypes
<1>2. PICK new : new = [g EXCEPT !.answer = "ok"]
  OBVIOUS
<1>3. /\ new \in PostOf /\ new.provider = g.provider /\ new.events = g.events /\ new.answer = "ok" /\ new.times = g.times
      /\ new.dropped = g.dropped /\ new.done = g.done /\ new.failed = g.failed
  BY <1>2 DEF PostOf
<1>4. /\ post'[p] = new /\ \A q \in WebhookPost \ {p} : post'[q] = post[q]
      /\ DOMAIN post' = WebhookPost /\ post' \in [WebhookPost -> PostOf] /\ out' = out
  BY <1>1, <1>2, <1>3 DEF WebhooksInv, PostTypes, AnswerPost
<1>5. PostTypes'
  BY <1>1, <1>3, <1>4 DEF WebhooksInv, PostTypes
<1>6. Untouched' /\ OutBefore' /\ InOrder'
  <2>1. Untouched'
    BY <1>1, <1>3, <1>4 DEF WebhooksInv, Untouched
  <2>2. \A q \in WebhookPost : post'[q].done = post[q].done
    BY <1>1, <1>3, <1>4
  <2>3. OutBefore'
    BY <1>4, <2>2, OutTyped DEF WebhooksInv, OutBefore
  <2>4. QED
    BY <1>4, <2>1, <2>3 DEF WebhooksInv, InOrder
<1>7. EventsCounted'
  <2> SUFFICES ASSUME NEW q \in WebhookPost PROVE (post[q].failed + Cardinality(OutOf(q)) = Cardinality(Known(q)))'
    BY DEF EventsCounted
  <2>1. OutOf(q)' = OutOf(q)
    BY <1>4 DEF OutOf
  <2>2. Known(q)' = Known(q) /\ post'[q].failed = post[q].failed
    BY <1>1, <1>3, <1>4 DEF Known
  <2>3. QED
    BY <2>1, <2>2 DEF WebhooksInv, EventsCounted
<1>8. Ended'
  BY <1>1, <1>3, <1>4 DEF WebhooksInv, Ended, AnswerPost
<1>9. QED
  BY <1>5, <1>6, <1>7, <1>8 DEF WebhooksInv

LEMMA WebhooksStep == WebhooksInv /\ [WebhooksNext]_webhookVars => WebhooksInv'
<1> SUFFICES ASSUME WebhooksInv, [WebhooksNext]_webhookVars PROVE WebhooksInv'
  OBVIOUS
<1>1. CASE UNCHANGED webhookVars
  BY <1>1 DEF webhookVars, WebhooksInv, PostTypes, Untouched, EventsCounted, OutBefore, InOrder, Ended, OutOf, Known
<1>2. ASSUME NEW p \in WebhookPost, ReceivePost(p) PROVE WebhooksInv'
  <2>1. PICK poster \in {"braze", "mailgun", "ses"} : \E events \in BatchesOf(poster) : Verified(p, poster, events)
    BY <1>2 DEF ReceivePost
  <2>2. PICK events \in BatchesOf(poster) : Verified(p, poster, events)
    BY <2>1
  <2>3. poster \in Providers /\ events \in Seq(EventKind)
    BY BatchesAreSequences DEF Providers
  <2>4. post[p].answer = "unsent" /\ post[p].times < MaxPosts /\ UNCHANGED out
    BY <1>2, WebhooksAssumption DEF ReceivePost, WebhooksInv, Untouched
  <2>5. QED
    BY <2>2, <2>3, <2>4, VerifiedKeeps
<1>3. ASSUME NEW p \in WebhookPost, RepeatPost(p) PROVE WebhooksInv'
  <2>1. post[p].provider \in Providers /\ post[p].events \in Seq(EventKind)
    BY DEF WebhooksInv, PostTypes, PostOf
  <2>2. PICK poster \in Providers, events \in Seq(EventKind) : poster = post[p].provider /\ events = post[p].events
    BY <2>1
  <2>3. Verified(p, poster, events) /\ post[p].answer = "refused" /\ post[p].times < MaxPosts /\ UNCHANGED out
    BY <1>3, <2>2 DEF RepeatPost
  <2>4. QED
    BY <2>3, VerifiedKeeps
<1>4. QED
  BY <1>1, <1>2, <1>3, ProcessKeeps, AnswerKeepsPost DEF WebhooksNext

LEMMA WebhooksFaithful == WebhooksInv => WebhooksTypeOK /\ EventsOnce /\ InOrder /\ AnsweredMeansPublished
<1> SUFFICES ASSUME WebhooksInv PROVE WebhooksTypeOK /\ EventsOnce /\ InOrder /\ AnsweredMeansPublished
  OBVIOUS
<1>1. WebhooksTypeOK
  BY OutTyped DEF WebhooksInv, PostTypes, PostOf, WebhooksTypeOK
<1>2. EventsOnce
  <2> SUFFICES ASSUME NEW j \in DOMAIN out, NEW k \in DOMAIN out, out[j] = out[k] PROVE j = k
    BY DEF EventsOnce, IsInjective
  <2>1. j \in Nat /\ k \in Nat /\ out[j].event \in Nat
    BY OutTyped DEF WebhooksInv
  <2>2. ~(j < k) /\ ~(k < j)
    BY <2>1 DEF WebhooksInv, InOrder
  <2>3. QED
    BY <2>1, <2>2
<1>3. InOrder
  BY DEF WebhooksInv
<1>4. AnsweredMeansPublished
  <2> SUFFICES ASSUME NEW p \in WebhookPost, post[p].answer = "ok", ~post[p].dropped, "malformed" \notin Range(post[p].events)
               PROVE  post[p].failed + Cardinality({k \in DOMAIN out : out[k].post = p})
                        = Cardinality({i \in DOMAIN post[p].events : Normalized(post[p].provider, post[p].events[i]) # {}})
    BY DEF AnsweredMeansPublished
  <2>1. PICK s \in Seq(EventKind) : s = post[p].events
    BY DEF WebhooksInv, PostTypes, PostOf
  <2>2. DOMAIN s = 1..Len(s) /\ Len(s) \in Nat /\ post[p].done \in 0..Len(s)
    BY <2>1 DEF WebhooksInv, PostTypes
  <2>3. \A i \in DOMAIN s : s[i] # "malformed"
    BY <2>1 DEF Range
  <2>4. post[p].done = Len(s)
    BY <2>1, <2>2, <2>3 DEF WebhooksInv, Ended
  <2>5. Known(p) = {i \in DOMAIN post[p].events : Normalized(post[p].provider, post[p].events[i]) # {}}
    BY <2>1, <2>2, <2>4 DEF Known
  <2>6. QED
    BY <2>5 DEF WebhooksInv, EventsCounted, OutOf
<1>5. QED
  BY <1>1, <1>2, <1>3, <1>4

-----------------------------------------------------------------------------
(***************************************************************************)
(* The media.  Read: the entries the loop is done with.  The bytes of the  *)
(* results are a running sum, of which the invariant keeps the witness.    *)
(***************************************************************************)
LEMMA PickedGrows ==
  ASSUME NEW S, NEW s \in Seq(S), NEW k \in Nat, k + 1 <= Len(s), NEW P \in SUBSET (1..k)
  PROVE  /\ Picked(s, P \cup {k + 1}) = Append(Picked(s, P), s[k + 1]) /\ Picked(s, P) \in Seq(S)
<1> DEFINE Q == P \cup {k + 1}
<1>1. P \in SUBSET (1..Len(s)) /\ Q \in SUBSET (1..Len(s)) /\ Len(s) \in Nat
  OBVIOUS
<1>2. IsFiniteSet(P) /\ Cardinality(P) \in Nat /\ Cardinality(Q) = Cardinality(P) + 1
  <2>1. IsFiniteSet(1..k)
    BY FS_Interval
  <2>2. IsFiniteSet(P) /\ Cardinality(P) \in Nat
    BY <2>1, FS_Subset, FS_CardinalityType
  <2>3. k + 1 \notin P
    OBVIOUS
  <2>4. QED
    BY <2>2, <2>3, FS_AddElement
<1>3. \A i \in P : UpTo(Q, i) = UpTo(P, i)
  BY DEF UpTo
<1>4. UpTo(Q, k + 1) = Q /\ k + 1 \in Q
  <2>1. \A j \in Q : j <= k + 1
    OBVIOUS
  <2> HIDE DEF Q
  <2>2. UpTo(Q, k + 1) = Q
    BY <2>1 DEF UpTo
  <2>3. QED
    BY <2>2 DEF Q
<1> HIDE DEF Q
<1>5. Picked(s, P) \in Seq(S) /\ Len(Picked(s, P)) = Cardinality(P)
  BY <1>1, PickedFacts
<1>6. Picked(s, Q) \in Seq(S) /\ Len(Picked(s, Q)) = Cardinality(P) + 1
  BY <1>1, <1>2, PickedFacts
<1>7. Picked(s, Q)[Cardinality(P) + 1] = s[k + 1]
  <2>1. Picked(s, Q)[Cardinality(UpTo(Q, k + 1))] = s[k + 1]
    BY <1>1, <1>4, PickedFacts
  <2>2. QED
    BY <1>2, <1>4, <2>1
<1>8. ASSUME NEW n \in 1..Cardinality(P) PROVE Picked(s, Q)[n] = Picked(s, P)[n]
  <2>1. PICK i \in P : Cardinality(UpTo(P, i)) = n
    BY <1>1, PickedFacts
  <2>2. Picked(s, P)[n] = s[i]
    BY <1>1, <2>1, PickedFacts
  <2>3. i \in Q /\ Cardinality(UpTo(Q, i)) = n
    BY <1>3, <2>1 DEF Q
  <2>4. Picked(s, Q)[n] = s[i]
    BY <1>1, <2>3, PickedFacts
  <2>5. QED
    BY <2>2, <2>4
<1>9. Append(Picked(s, P), s[k + 1]) = Picked(s, Q)
  <2>1. PICK t \in Seq(S), u \in Seq(S), x \in S : t = Picked(s, P) /\ u = Picked(s, Q) /\ x = s[k + 1]
    BY <1>1, <1>5, <1>6
  <2>2. Len(u) = Len(t) + 1 /\ u[Len(t) + 1] = x /\ \A n \in 1..Len(t) : u[n] = t[n]
    BY <1>5, <1>6, <1>7, <1>8, <2>1
  <2>3. Append(t, x) = u
    BY <2>2
  <2>4. QED
    BY <2>1, <2>3
<1>10. QED
  BY <1>5, <1>9 DEF Q

Errors == {"none", "url", "download", "size", "total"}
EntryResults == [entry : MediaEntry, error : Errors]

MediaTypes ==
  /\ mediaChannel \in {"none", "email", "whatsapp", "push"}
  /\ entries \in Seq(MediaEntry) /\ entriesLeft \in Seq(MediaEntry) /\ results \in Seq(EntryResults) /\ totalSize \in Nat

ReadEntries == Len(entries) - Len(entriesLeft)
InHand ==
  /\ Len(entriesLeft) <= Len(entries)
  /\ mediaChannel = "none" => entries = <<>> /\ results = <<>> /\ totalSize = 0
  /\ mediaChannel # "push" => \A i \in 1..Len(entriesLeft) : entriesLeft[i] = entries[ReadEntries + i]

AnsweredEntries == [i \in DOMAIN results |-> results[i].entry]
AnsweredSoFar ==
  /\ mediaChannel = "email" =>
       AnsweredEntries = Picked(entries, {i \in 1..ReadEntries : entries[i].context = "attachment"})
  /\ mediaChannel = "whatsapp" => Len(results) = ReadEntries /\ \A i \in 1..ReadEntries : results[i].entry = entries[i]

\* The bytes one result adds to an e-mail, and the running sum.
Added(r) == IF r.error = "none" THEN r.entry.answer ELSE 0
Sums(f) ==
  /\ f \in [0..Len(results) -> Nat] /\ f[0] = 0
  /\ \A n \in 1..Len(results) : f[n] = f[n - 1] + Added(results[n])

Limited ==
  mediaChannel = "email" =>
    /\ totalSize <= maxTotal
    /\ \A i \in DOMAIN results : results[i].error = "none" => results[i].entry.answer <= maxPerFile
    /\ \E f : Sums(f) /\ f[Len(results)] = totalSize

MediaInv == MediaTypes /\ InHand /\ AnsweredSoFar /\ Limited

LEMMA EntryFacts == ASSUME NEW m \in MediaEntry PROVE m.answer \in Nat /\ m.context \in {"inline", "attachment"}
<1>1. m.answer \in SizeAnswer /\ m.context \in Context
  BY DEF MediaEntry
<1>2. SizeAnswer \subseteq Nat
  BY MediaAssumption DEF SizeAnswer, Fails
<1>3. QED
  BY <1>1, <1>2 DEF Context

LEMMA PickedNone == ASSUME NEW S, NEW s \in Seq(S) PROVE Picked(s, {}) = <<>>
<1>1. {} \in SUBSET (1..Len(s))
  OBVIOUS
<1>2. Picked(s, {}) \in Seq(S) /\ Len(Picked(s, {})) = 0
  BY <1>1, PickedFacts, FS_EmptySet
<1>3. QED
  BY <1>2

LEMMA MediaStart == MediaInit => MediaInv
<1> SUFFICES ASSUME MediaInit PROVE MediaInv
  OBVIOUS
<1>1. mediaChannel = "none" /\ entries = <<>> /\ entriesLeft = <<>> /\ results = <<>> /\ totalSize = 0
  BY DEF MediaInit
<1>2. QED
  BY <1>1 DEF MediaInv, MediaTypes, InHand, AnsweredSoFar, Limited

LEMMA DispatchKeeps ==
  ASSUME MediaInv, NEW ch \in {"email", "whatsapp", "push"}, NEW n \in 1..MaxEntries, NEW given \in [1..n -> MediaEntry],
         DispatchMedia(ch, given)
  PROVE  MediaInv'
<1>1. n \in Nat /\ given \in Seq(MediaEntry)
  BY MediaAssumption
<1>2. /\ mediaChannel' = ch /\ entries' = given /\ entriesLeft' = given /\ results' = <<>> /\ totalSize' = 0
  BY DEF DispatchMedia, MediaInv, InHand
<1>3. MediaTypes'
  BY <1>1, <1>2 DEF MediaInv, MediaTypes, DispatchMedia
<1>4. ReadEntries' = 0
  BY <1>1, <1>2 DEF ReadEntries
<1>5. InHand'
  <2>1. Len(entriesLeft') <= Len(entries')
    BY <1>1, <1>2
  <2>2. \A i \in 1..Len(given) : given[i] = given[0 + i]
    OBVIOUS
  <2>3. QED
    BY <1>2, <1>4, <2>1, <2>2 DEF InHand
<1>6. AnsweredSoFar'
  <2>1. {i \in 1..0 : given[i].context = "attachment"} = {}
    OBVIOUS
  <2>2. Picked(given, {}) = <<>>
    BY <1>1, PickedNone
  <2>3. AnsweredEntries' = <<>>
    BY <1>2 DEF AnsweredEntries
  <2>4. Len(results') = 0
    BY <1>2
  <2>5. QED
    BY <1>2, <1>4, <2>1, <2>2, <2>3, <2>4 DEF AnsweredSoFar
<1>7. Limited'
  <2>1. totalSize' <= maxTotal
    BY <1>2, MediaAssumption
  <2>2. DOMAIN results' = {} /\ Len(results') = 0
    BY <1>2
  <2>3. Sums([i \in 0..0 |-> 0])'
    BY <2>2 DEF Sums
  <2>4. QED
    BY <1>2, <2>1, <2>2, <2>3 DEF Limited
<1>8. QED
  BY <1>3, <1>5, <1>6, <1>7 DEF MediaInv

\* An entry is taken, and has a result or not.
LEMMA OneEntry ==
  ASSUME MediaInv, mediaChannel \in {"email", "whatsapp"}, entriesLeft # <<>>, entriesLeft' = Tail(entriesLeft),
         UNCHANGED <<mediaChannel, entries>>
  PROVE  /\ InHand' /\ ReadEntries \in Nat /\ ReadEntries' = ReadEntries + 1 /\ ReadEntries + 1 \in 1..Len(entries)
         /\ Head(entriesLeft) = entries[ReadEntries + 1] /\ Head(entriesLeft) \in MediaEntry
         /\ entriesLeft' \in Seq(MediaEntry)
<1>1. PICK all \in Seq(MediaEntry), rest \in Seq(MediaEntry) : all = entries /\ rest = entriesLeft
  BY DEF MediaInv, MediaTypes
<1>2. /\ Len(all) \in Nat /\ Len(rest) \in Nat /\ Len(rest) > 0 /\ Len(rest) <= Len(all)
      /\ Tail(rest) \in Seq(MediaEntry) /\ Len(Tail(rest)) = Len(rest) - 1 /\ Head(rest) = rest[1] /\ Head(rest) \in MediaEntry
      /\ \A i \in 1..Len(rest) - 1 : Tail(rest)[i] = rest[i + 1]
  BY <1>1 DEF MediaInv, InHand
<1>3. /\ ReadEntries = Len(all) - Len(rest) /\ ReadEntries' = Len(all) - (Len(rest) - 1)
      /\ \A i \in 1..Len(rest) : rest[i] = all[Len(all) - Len(rest) + i]
  BY <1>1, <1>2 DEF MediaInv, InHand, ReadEntries
<1>4. InHand'
  <2>1. \A i \in 1..Len(rest) - 1 : Tail(rest)[i] = all[Len(all) - (Len(rest) - 1) + i]
    <3> SUFFICES ASSUME NEW i \in 1..Len(rest) - 1 PROVE Tail(rest)[i] = all[Len(all) - (Len(rest) - 1) + i]
      OBVIOUS
    <3>1. Tail(rest)[i] = rest[i + 1] /\ i + 1 \in 1..Len(rest)
      BY <1>2
    <3>2. rest[i + 1] = all[Len(all) - Len(rest) + (i + 1)]
      BY <1>3, <3>1
    <3>3. Len(all) - Len(rest) + (i + 1) = Len(all) - (Len(rest) - 1) + i
      BY <1>2
    <3>4. QED
      BY <3>1, <3>2, <3>3
  <2>2. Len(Tail(rest)) <= Len(all)
    BY <1>2
  <2>3. QED
    BY <1>1, <1>2, <1>3, <2>1, <2>2 DEF InHand
<1>5. QED
  BY <1>1, <1>2, <1>3, <1>4

LEMMA ResultAdded ==
  ASSUME MediaTypes, NEW m \in MediaEntry, NEW e \in Errors, AddResult(m, e)
  PROVE  /\ results' \in Seq(EntryResults) /\ Len(results') = Len(results) + 1 /\ Len(results) \in Nat
         /\ DOMAIN results' = 1..Len(results) + 1 /\ DOMAIN results = 1..Len(results)
         /\ \A i \in 1..Len(results) : results'[i] = results[i]
         /\ results'[Len(results) + 1].entry = m /\ results'[Len(results) + 1].error = e
         /\ AnsweredEntries' = Append(AnsweredEntries, m)
<1>1. PICK old \in Seq(EntryResults), new \in EntryResults : old = results /\ new = EntryResult(m, e)
  BY DEF MediaTypes, EntryResults, EntryResult
<1>2. results' = Append(old, new) /\ new.entry = m /\ new.error = e
  BY <1>1 DEF AddResult, EntryResult
<1>3. /\ Append(old, new) \in Seq(EntryResults) /\ Len(Append(old, new)) = Len(old) + 1 /\ Len(old) \in Nat
      /\ DOMAIN Append(old, new) = 1..Len(old) + 1 /\ DOMAIN old = 1..Len(old)
      /\ \A i \in 1..Len(old) : Append(old, new)[i] = old[i]
      /\ Append(old, new)[Len(old) + 1] = new
  OBVIOUS
<1>4. AnsweredEntries' = Append(AnsweredEntries, m)
  <2>1. PICK a, b : a = [i \in 1..Len(old) |-> old[i].entry] /\ b = [i \in 1..Len(old) + 1 |-> Append(old, new)[i].entry]
    OBVIOUS
  <2>2. a \in Seq(MediaEntry) /\ b \in Seq(MediaEntry)
    <3>1. \A x \in EntryResults : x.entry \in MediaEntry
      BY DEF EntryResults
    <3>2. \A i \in 1..Len(old) : old[i].entry \in MediaEntry
      BY <3>1
    <3>3. \A i \in 1..Len(old) + 1 : Append(old, new)[i].entry \in MediaEntry
      BY <1>3, <3>1
    <3>4. QED
      BY <1>3, <2>1, <3>2, <3>3
  <2>3. Len(a) = Len(old) /\ Len(b) = Len(old) + 1 /\ b[Len(old) + 1] = m /\ \A i \in 1..Len(old) : b[i] = a[i]
    BY <1>2, <1>3, <2>1
  <2>4. b = Append(a, m)
    BY <1>3, <2>2, <2>3
  <2>5. AnsweredEntries = a /\ AnsweredEntries' = b
    BY <1>1, <1>2, <1>3, <2>1 DEF AnsweredEntries
  <2>6. QED
    BY <2>4, <2>5
<1>5. QED
  BY <1>1, <1>2, <1>3, <1>4

LEMMA EmailKeeps == ASSUME MediaInv, ProcessEmail PROVE MediaInv'
<1>1. PICK m, k : m = Head(entriesLeft) /\ k = ReadEntries
  OBVIOUS
<1>2. /\ InHand' /\ k \in Nat /\ ReadEntries' = k + 1 /\ k + 1 \in 1..Len(entries) /\ entriesLeft' \in Seq(MediaEntry)
      /\ m = entries[k + 1] /\ m \in MediaEntry /\ mediaChannel = "email" /\ mediaChannel' = "email" /\ entries' = entries
  BY <1>1, OneEntry DEF ProcessEmail
<1>3. PICK all \in Seq(MediaEntry) : all = entries
  BY DEF MediaInv, MediaTypes
<1>4. /\ Len(all) \in Nat /\ totalSize \in Nat /\ m.answer \in Nat /\ m.context \in {"inline", "attachment"}
      /\ maxTotal \in Nat /\ maxPerFile \in Nat
  BY <1>2, <1>3, EntryFacts, MediaAssumption DEF MediaInv, MediaTypes
<1> DEFINE attached(n) == {i \in 1..n : all[i].context = "attachment"}
<1>5. AnsweredEntries = Picked(all, attached(k))
  BY <1>1, <1>2, <1>3 DEF MediaInv, AnsweredSoFar
<1>6. attached(k + 1) = IF m.context = "inline" THEN attached(k) ELSE attached(k) \cup {k + 1}
  <2>1. \A i : i \in 1..k + 1 <=> (i \in 1..k \/ i = k + 1)
    BY <1>2
  <2>2. CASE m.context = "inline"
    BY <1>2, <1>3, <2>1, <2>2
  <2>3. CASE m.context = "attachment"
    BY <1>2, <1>3, <2>1, <2>3
  <2>4. QED
    BY <1>4, <2>2, <2>3
<1>7. AnsweredEntries' = Picked(all, attached(k + 1)) => AnsweredSoFar'
  BY <1>2, <1>3 DEF AnsweredSoFar
<1> HIDE DEF attached
<1>8. CASE m.context = "inline"
  <2>1. UNCHANGED <<results, totalSize>>
    BY <1>1, <1>8 DEF ProcessEmail
  <2>2. MediaTypes'
    BY <1>2, <2>1 DEF MediaInv, MediaTypes
  <2>3. AnsweredSoFar'
    BY <1>5, <1>6, <1>7, <1>8, <2>1 DEF AnsweredEntries
  <2>4. Limited'
    BY <1>2, <2>1 DEF MediaInv, Limited, Sums
  <2>5. QED
    BY <1>2, <2>2, <2>3, <2>4 DEF MediaInv
<1>9. CASE m.context = "attachment"
  <2>1. PICK e \in Errors :
          /\ AddResult(m, e)
          /\ \/ e # "none" /\ totalSize' = totalSize
             \/ e = "none" /\ totalSize' = totalSize + m.answer /\ totalSize' <= maxTotal /\ m.answer <= maxPerFile
    BY <1>1, <1>4, <1>9 DEF ProcessEmail, Errors, TooLarge, OverTotal
  <2>2. /\ results' \in Seq(EntryResults) /\ Len(results') = Len(results) + 1 /\ Len(results) \in Nat
        /\ DOMAIN results' = 1..Len(results) + 1 /\ DOMAIN results = 1..Len(results)
        /\ \A i \in 1..Len(results) : results'[i] = results[i]
        /\ results'[Len(results) + 1].entry = m /\ results'[Len(results) + 1].error = e
        /\ AnsweredEntries' = Append(AnsweredEntries, m)
    BY <1>2, <2>1, ResultAdded DEF MediaInv
  <2>3. MediaTypes'
    BY <1>2, <1>4, <2>1, <2>2 DEF MediaInv, MediaTypes
  <2>4. AnsweredSoFar'
    <3>1. attached(k) \in SUBSET (1..k)
      BY DEF attached
    <3>2. Picked(all, attached(k) \cup {k + 1}) = Append(Picked(all, attached(k)), all[k + 1])
      <4>1. k \in Nat /\ k + 1 <= Len(all)
        BY <1>2, <1>3
      <4>2. QED
        BY <3>1, <4>1, PickedGrows
    <3>3. QED
      BY <1>2, <1>3, <1>5, <1>6, <1>7, <1>9, <2>2, <3>2
  <2>5. Limited'
    <3>1. PICK f : Sums(f) /\ f[Len(results)] = totalSize
      BY <1>2 DEF MediaInv, Limited
    <3>2. PICK N \in Nat : N = Len(results)
      BY <2>2
    <3> DEFINE g == [n \in 0..N + 1 |-> IF n = N + 1 THEN totalSize' ELSE f[n]]
    <3>3. totalSize' = totalSize + (IF e = "none" THEN m.answer ELSE 0) /\ totalSize' \in Nat
      BY <1>4, <2>1
    <3>4. g \in [0..N + 1 -> Nat] /\ g[0] = 0 /\ g[N + 1] = totalSize'
      <4>1. f \in [0..N -> Nat] /\ f[0] = 0
        BY <3>1, <3>2 DEF Sums
      <4>2. \A n \in 0..N + 1 : n = N + 1 \/ n \in 0..N
        OBVIOUS
      <4>3. g \in [0..N + 1 -> Nat]
        BY <3>3, <4>1, <4>2
      <4>4. 0 # N + 1 /\ 0 \in 0..N + 1 /\ N + 1 \in 0..N + 1
        OBVIOUS
      <4>5. QED
        BY <4>1, <4>3, <4>4
    <3>5. Added(results'[N + 1]) = IF e = "none" THEN m.answer ELSE 0
      BY <2>2, <3>2 DEF Added
    <3>6. \A n \in 1..N + 1 : g[n] = g[n - 1] + Added(results'[n])
      <4> SUFFICES ASSUME NEW n \in 1..N + 1 PROVE g[n] = g[n - 1] + Added(results'[n])
        OBVIOUS
      <4>1. CASE n = N + 1
        <5>1. g[n - 1] = totalSize
          BY <3>1, <3>2, <4>1
        <5>2. QED
          BY <3>3, <3>4, <3>5, <4>1, <5>1
      <4>2. CASE n # N + 1
        <5>1. n \in 1..N /\ n - 1 \in 0..N
          BY <4>2
        <5>2. f[n] = f[n - 1] + Added(results[n]) /\ results'[n] = results[n]
          BY <2>2, <3>1, <3>2, <5>1 DEF Sums
        <5>3. g[n] = f[n] /\ g[n - 1] = f[n - 1]
          BY <5>1
        <5>4. QED
          BY <5>2, <5>3
      <4>3. QED
        BY <4>1, <4>2
    <3> HIDE DEF g
    <3>7. PICK h : h = g
      OBVIOUS
    <3>8. \E sum : Sums(sum)' /\ sum[Len(results')] = totalSize'
      <4>1. Sums(h)' /\ h[Len(results')] = totalSize'
        BY <2>2, <3>2, <3>4, <3>6, <3>7 DEF Sums
      <4>2. QED
        BY <4>1
    <3>9. totalSize' <= maxTotal
      BY <1>2, <2>1 DEF MediaInv, Limited
    <3>10. \A i \in DOMAIN results' : results'[i].error = "none" => results'[i].entry.answer <= maxPerFile
      BY <1>2, <2>1, <2>2 DEF MediaInv, Limited
    <3>11. QED
      BY <3>8, <3>9, <3>10 DEF Limited
  <2>6. QED
    BY <1>2, <2>3, <2>4, <2>5 DEF MediaInv
<1>10. QED
  BY <1>4, <1>8, <1>9

LEMMA WhatsAppKeeps == ASSUME MediaInv, ProcessWhatsApp PROVE MediaInv'
<1>1. PICK m, k : m = Head(entriesLeft) /\ k = ReadEntries
  OBVIOUS
<1>2. /\ InHand' /\ k \in Nat /\ ReadEntries' = k + 1 /\ k + 1 \in 1..Len(entries) /\ entriesLeft' \in Seq(MediaEntry)
      /\ m = entries[k + 1] /\ m \in MediaEntry /\ mediaChannel = "whatsapp" /\ mediaChannel' = "whatsapp" /\ entries' = entries
  BY <1>1, OneEntry DEF ProcessWhatsApp
<1>3. totalSize \in Nat /\ m.answer \in Nat
  BY <1>2, EntryFacts DEF MediaInv, MediaTypes
<1>4. PICK e \in Errors : AddResult(m, e) /\ totalSize' \in Nat
  BY <1>1, <1>3 DEF ProcessWhatsApp, Errors
<1>5. /\ results' \in Seq(EntryResults) /\ Len(results') = Len(results) + 1 /\ Len(results) \in Nat
      /\ \A i \in 1..Len(results) : results'[i] = results[i]
      /\ results'[Len(results) + 1].entry = m
  BY <1>2, <1>4, ResultAdded DEF MediaInv
<1>6. MediaTypes'
  BY <1>2, <1>4, <1>5 DEF MediaInv, MediaTypes
<1>7. AnsweredSoFar'
  <2>1. Len(results) = k /\ \A i \in 1..k : results[i].entry = entries[i]
    BY <1>1, <1>2 DEF MediaInv, AnsweredSoFar
  <2>2. \A i \in 1..k + 1 : results'[i].entry = entries[i]
    BY <1>2, <1>5, <2>1
  <2>3. QED
    BY <1>2, <1>5, <2>1, <2>2 DEF AnsweredSoFar
<1>8. Limited'
  BY <1>2 DEF Limited
<1>9. QED
  BY <1>2, <1>6, <1>7, <1>8 DEF MediaInv

LEMMA PushKeeps == ASSUME MediaInv, ProcessPush PROVE MediaInv'
<1>1. mediaChannel' = "push" /\ entriesLeft' = <<>> /\ UNCHANGED <<entries, totalSize>>
  BY DEF ProcessPush
<1>2. \/ UNCHANGED results
      \/ \E m \in MediaEntry, e \in Errors : AddResult(m, e)
  <2>1. PICK given, images :
          /\ given \in Seq(MediaEntry) /\ given = entriesLeft
          /\ images = Picked(given, {i \in DOMAIN given : given[i].context = "inline" /\ given[i].image})
    BY DEF MediaInv, MediaTypes
  <2>2. images \in Seq(MediaEntry)
    BY <2>1, PickedFacts
  <2>3. CASE images = <<>>
    BY <2>1, <2>3 DEF ProcessPush
  <2>4. CASE images # <<>>
    <3>1. Head(images) \in MediaEntry
      BY <2>2, <2>4
    <3>2. \E e \in Errors : AddResult(Head(images), e)
      BY <2>1, <2>4 DEF ProcessPush, Errors
    <3>3. QED
      BY <3>1, <3>2
  <2>5. QED
    BY <2>3, <2>4
<1>3. results' \in Seq(EntryResults)
  <2>1. CASE UNCHANGED results
    BY <2>1 DEF MediaInv, MediaTypes
  <2>2. ASSUME NEW m \in MediaEntry, NEW e \in Errors, AddResult(m, e) PROVE results' \in Seq(EntryResults)
    BY <2>2, ResultAdded DEF MediaInv
  <2>3. QED
    BY <1>2, <2>1, <2>2
<1>4. MediaTypes'
  BY <1>1, <1>3 DEF MediaInv, MediaTypes
<1>5. InHand'
  <2>1. entries \in Seq(MediaEntry) /\ Len(<<>>) = 0
    BY DEF MediaInv, MediaTypes
  <2>2. QED
    BY <1>1, <2>1 DEF InHand
<1>6. QED
  BY <1>1, <1>4, <1>5 DEF MediaInv, AnsweredSoFar, Limited

LEMMA MediaStep == MediaInv /\ [MediaNext]_mediaVars => MediaInv'
<1> SUFFICES ASSUME MediaInv, [MediaNext]_mediaVars PROVE MediaInv'
  OBVIOUS
<1>1. CASE UNCHANGED mediaVars
  BY <1>1 DEF mediaVars, MediaInv, MediaTypes, InHand, ReadEntries, AnsweredSoFar, AnsweredEntries, Limited, Sums
<1>2. QED
  BY <1>1, DispatchKeeps, EmailKeeps, WhatsAppKeeps, PushKeeps DEF MediaNext

\* A running sum is the only one: the first place where two differ would differ in nothing.
RunningSum(f, w, N) == f[0] = 0 /\ \A n \in 1..N : f[n] = f[n - 1] + w[n]

LEMMA SumsAgree ==
  ASSUME NEW N \in Nat, NEW w, NEW f, NEW g, RunningSum(f, w, N), RunningSum(g, w, N)
  PROVE  \A n \in 0..N : f[n] = g[n]
<1> DEFINE T == {n \in 0..N : f[n] # g[n]}
<1>1. SUFFICES ASSUME T # {} PROVE FALSE
  OBVIOUS
<1>2. T \subseteq Nat
  OBVIOUS
<1>3. PICK n \in T : \A j \in T : n <= j
  <2> HIDE DEF T
  <2>1. QED
    BY <1>1, <1>2, Smallest
<1>4. n # 0 /\ n \in 1..N /\ n - 1 \in 0..N
  BY DEF RunningSum
<1>5. n - 1 \notin T
  BY <1>3, <1>4
<1>6. f[n - 1] = g[n - 1]
  BY <1>4, <1>5
<1>7. QED
  BY <1>3, <1>4, <1>6 DEF RunningSum

LEMMA MediaFaithful == MediaInv => EmailWithinLimits /\ EveryEntryAnswered
<1> SUFFICES ASSUME MediaInv PROVE EmailWithinLimits /\ EveryEntryAnswered
  OBVIOUS
<1>1. ASSUME mediaChannel = "email"
      PROVE  Bytes[Len(results)] <= maxTotal /\ \A i \in Carried : results[i].entry.answer <= maxPerFile
  <2>1. PICK f : Sums(f) /\ f[Len(results)] = totalSize
    BY <1>1 DEF MediaInv, Limited
  <2>2. PICK N, w : N \in Nat /\ N = Len(results) /\ w = [n \in 1..N |-> Added(results[n])] /\ DOMAIN results = 1..N
    <3>1. Len(results) \in Nat /\ DOMAIN results = 1..Len(results)
      BY DEF MediaInv, MediaTypes
    <3>2. \E w : w = [n \in 1..Len(results) |-> Added(results[n])]
      OBVIOUS
    <3>3. QED
      BY <3>1, <3>2
  <2>3. \A n \in 1..N : w[n] = IF n \in Carried THEN results[n].entry.answer ELSE 0
    BY <2>2 DEF Added, Carried
  <2>4. f = [n \in 0..N |-> IF n = 0 THEN 0 ELSE f[n - 1] + (IF n \in Carried THEN results[n].entry.answer ELSE 0)]
    <3>1. \A n \in 0..N : f[n] = IF n = 0 THEN 0 ELSE f[n - 1] + (IF n \in Carried THEN results[n].entry.answer ELSE 0)
      BY <2>1, <2>2, <2>3 DEF Sums
    <3>2. f \in [0..N -> Nat]
      BY <2>1, <2>2 DEF Sums
    <3>3. QED
      BY <3>1, <3>2
  <2>5. Bytes = [n \in 0..N |-> IF n = 0 THEN 0 ELSE Bytes[n - 1] + (IF n \in Carried THEN results[n].entry.answer ELSE 0)]
    BY <2>2, <2>4 DEF Bytes
  <2>6. PICK b : b = Bytes
    OBVIOUS
  <2>7. \A n \in 0..N : b[n] = IF n = 0 THEN 0 ELSE b[n - 1] + (IF n \in Carried THEN results[n].entry.answer ELSE 0)
    BY <2>5, <2>6
  <2>8. RunningSum(b, w, N)
    BY <2>2, <2>3, <2>7 DEF RunningSum
  <2>9. RunningSum(f, w, N)
    BY <2>1, <2>2 DEF Sums, RunningSum
  <2>10. f[N] = b[N]
    <3>1. \A n \in 0..N : f[n] = b[n]
      BY <2>2, <2>8, <2>9, SumsAgree
    <3>2. QED
      BY <2>2, <3>1
  <2>11. QED
    BY <1>1, <2>1, <2>2, <2>6, <2>10 DEF MediaInv, Limited, Carried
<1>2. EmailWithinLimits
  BY <1>1 DEF EmailWithinLimits
<1>3. EveryEntryAnswered
  <2> SUFFICES ASSUME entriesLeft = <<>>, mediaChannel # "push"
               PROVE  AnsweredEntries = CASE mediaChannel = "email" -> Picked(entries, {i \in DOMAIN entries : entries[i].context = "attachment"})
                                          [] mediaChannel = "whatsapp" -> entries
                                          [] OTHER -> <<>>
    BY DEF EveryEntryAnswered, AnsweredEntries
  <2>1. PICK all \in Seq(MediaEntry) : all = entries
    BY DEF MediaInv, MediaTypes
  <2>2. ReadEntries = Len(all) /\ DOMAIN all = 1..Len(all) /\ Len(all) \in Nat
    BY <2>1 DEF ReadEntries
  <2>3. CASE mediaChannel = "email"
    BY <2>1, <2>2, <2>3 DEF MediaInv, AnsweredSoFar
  <2>4. CASE mediaChannel = "whatsapp"
    <3>1. DOMAIN results = 1..Len(all) /\ \A i \in 1..Len(all) : results[i].entry = all[i]
      BY <2>1, <2>2, <2>4 DEF MediaInv, MediaTypes, AnsweredSoFar
    <3>2. all = [i \in 1..Len(all) |-> all[i]]
      BY <2>2
    <3>3. AnsweredEntries = all
      BY <3>1, <3>2 DEF AnsweredEntries
    <3>4. QED
      BY <2>1, <2>4, <3>3
  <2>5. CASE mediaChannel = "none"
    <3>1. results = <<>>
      BY <2>5 DEF MediaInv, InHand
    <3>2. AnsweredEntries = <<>>
      BY <3>1 DEF AnsweredEntries
    <3>3. QED
      BY <2>5, <3>2
  <2>6. QED
    BY <2>3, <2>4, <2>5 DEF MediaInv, MediaTypes
<1>4. QED
  BY <1>2, <1>3

\* Every adapter says what it was asked to, within the limits, and every event of a webhook post
\* goes out once and in order (see AdaptersFaithful).
THEOREM MessagesHold == MessagesSpec /\ WebhooksSpec /\ MediaSpec => []AdaptersFaithful
<1>1. MessagesSpec => []MessagesInv
  BY MessagesStart, MessagesStep, PTL DEF MessagesSpec
<1>2. WebhooksSpec => []WebhooksInv
  BY WebhooksStart, WebhooksStep, PTL DEF WebhooksSpec
<1>3. MediaSpec => []MediaInv
  BY MediaStart, MediaStep, PTL DEF MediaSpec
<1>4. MessagesInv /\ WebhooksInv /\ MediaInv => AdaptersFaithful
  BY MessagesFaithful, WebhooksFaithful, MediaFaithful DEF AdaptersFaithful
<1>5. QED
  BY <1>1, <1>2, <1>3, <1>4, PTL
=============================================================================
