-------------------------- MODULE ChannelResolution --------------------------
(***************************************************************************)
(* Which channels a recipient is notified on: the rule's channels without  *)
(* those the customer opted out of, and the critical overrides of the      *)
(* event type.  Preferences are answered from a cache with a lifetime and  *)
(* a limit, overrides from a map that is refreshed after every change.     *)
(***************************************************************************)
EXTENDS Naturals, Sequences, FiniteSets, SequencesExt, FiniteSetsExt, Functions

CONSTANTS
  Customer, KnownChannel,
  RuleChannels,      \* the channels of the matched rule's action
  Recipient,         \* resolutions in progress at a time
  Upsert,            \* requests that change preferences
  Override,          \* requests and messages about overrides
  ttl, maxSize,
  MaxTime, MaxPrefSaves, MaxOverrideSaves  \* bounds

ASSUME SizeAssumption == maxSize \in Nat \ {0}

VARIABLES
  optedOut,          \* customer_channel_preferences: channels opted out of
  cache,             \* customer -> [out, expiresAt]; a Map, so a partial function
  insertionOrder,
  recipient, upsert,
  overrides,         \* critical_channel_overrides: active channels of the event type
  overrideMap,
  override,          \* invalidations of the map under way
  announced,         \* config.override.changed messages not yet delivered
  now, prefSaves, overrideSaves,
  raced,             \* history: customers whose entry was read before a save
  mapSpoiled         \* history: the map may be old

channelVars == <<optedOut, cache, insertionOrder, recipient, upsert, overrides, overrideMap, override,
          announced, now, prefSaves, overrideSaves, raced, mapSpoiled>>

preferenceVars == <<optedOut, cache, insertionOrder, recipient, upsert, prefSaves, raced>>
overrideVars == <<overrides, overrideMap, override, announced, overrideSaves, mapSpoiled>>

AtRest == [pc |-> "idle"]

ChannelsInit ==
  /\ optedOut = [u \in Customer |-> {}]
  /\ cache = [u \in {} |-> AtRest]
  /\ insertionOrder = <<>>
  /\ recipient = [r \in Recipient |-> AtRest]
  /\ upsert = [p \in Upsert |-> AtRest]
  /\ overrides = {} /\ overrideMap = {}
  /\ override = [o \in Override |-> AtRest]
  /\ announced = 0
  /\ now = 0 /\ prefSaves = 0 /\ overrideSaves = 0
  /\ raced = {} /\ mapSpoiled = FALSE

-----------------------------------------------------------------------------
\* Resolution of a recipient's channels.

Cached(u) == u \in DOMAIN cache /\ cache[u].expiresAt > now

\* The channels a resolution that starts now has to leave out: opted out of before,
\* with no change of the customer's preferences under way.
Settled(u) ==
  IF u \in raced \/ \E p \in Upsert : upsert[p] # AtRest /\ u \in upsert[p].customers
  THEN {} ELSE optedOut[u]

\* resolveChannels
Effective(out, critical) == (RuleChannels \ out) \cup critical

Start(r, u) ==
  /\ recipient[r] = AtRest
  /\ recipient' = [recipient EXCEPT ![r] =
                     [pc |-> IF Cached(u) THEN "done" ELSE "store", customer |-> u, critical |-> overrideMap,
                      out |-> IF Cached(u) THEN cache[u].out ELSE optedOut[u], avoid |-> Settled(u)]]
  /\ UNCHANGED <<optedOut, cache, insertionOrder, upsert, prefSaves, raced, now, overrideVars>>

\* set: the oldest customers make room; an expired entry is replaced where it is.
Room == IF Cardinality(DOMAIN cache) >= maxSize THEN Cardinality(DOMAIN cache) - maxSize + 1 ELSE 0
PreferencesStored(u, out) ==
  LET entry == [out |-> out, expiresAt |-> now + ttl]
      dropped == IF Room < Len(insertionOrder) THEN Room ELSE Len(insertionOrder)
      gone == ToSet(SubSeq(insertionOrder, 1, dropped))
  IN IF u \in DOMAIN cache THEN [cache |-> [cache EXCEPT ![u] = entry], order |-> insertionOrder]
     ELSE [cache |-> [v \in (DOMAIN cache \ gone) \cup {u} |-> IF v = u THEN entry ELSE cache[v]],
           order |-> Append(SubSeq(insertionOrder, dropped + 1, Len(insertionOrder)), u)]

StorePreferences(r) ==
  LET u == recipient[r].customer
      after == PreferencesStored(u, recipient[r].out)
  IN /\ recipient[r].pc = "store"
     /\ cache' = after.cache /\ insertionOrder' = after.order
     /\ raced' = IF recipient[r].out = optedOut[u] THEN raced \ {u} ELSE raced \cup {u}
     /\ recipient' = [recipient EXCEPT ![r].pc = "done"]
     /\ UNCHANGED <<optedOut, upsert, prefSaves, now, overrideVars>>

\* The channels are processed, or a query fails.
Finish(r) ==
  /\ recipient[r] # AtRest
  /\ recipient' = [recipient EXCEPT ![r] = AtRest]
  /\ UNCHANGED <<optedOut, cache, insertionOrder, upsert, prefSaves, raced, now, overrideVars>>

-----------------------------------------------------------------------------
\* upsert and bulkUpsert: one transaction, then the customers are evicted.

SavePreferences(p, U, c) ==
  /\ upsert[p] = AtRest /\ U # {} /\ prefSaves < MaxPrefSaves
  /\ prefSaves' = prefSaves + 1
  /\ optedOut' = [u \in Customer |->
                    IF u \in U THEN (IF c \in optedOut[u] THEN optedOut[u] \ {c} ELSE optedOut[u] \cup {c})
                    ELSE optedOut[u]]
  /\ upsert' = [upsert EXCEPT ![p] = [pc |-> "evict", customers |-> U]]
  /\ UNCHANGED <<cache, insertionOrder, recipient, raced, now, overrideVars>>

\* The entries of a sequence at some of its places, in their order.
At(s, places) ==
  [n \in 1..Cardinality(places) |-> s[CHOOSE i \in places : Cardinality({j \in places : j <= i}) = n]]
\* evict drops the first entry of a customer.
Kept(U) ==
  {i \in DOMAIN insertionOrder : insertionOrder[i] \notin U \/ \E j \in 1..i - 1 : insertionOrder[j] = insertionOrder[i]}

\* Mutant: only the first customer of a bulk request is evicted.
EvictPreferences_First(p) ==
  LET U == {CHOOSE u \in upsert[p].customers : TRUE}
  IN /\ upsert[p].pc = "evict"
     /\ cache' = Restrict(cache, DOMAIN cache \ U)
     /\ insertionOrder' = At(insertionOrder, Kept(U))
     /\ raced' = raced \ U
     /\ upsert' = [upsert EXCEPT ![p] = AtRest]
     /\ UNCHANGED <<optedOut, recipient, prefSaves, now, overrideVars>>

\* The evictions of one request run without a pause between them.
EvictPreferences(p) ==
  LET U == upsert[p].customers
  IN /\ upsert[p].pc = "evict"
     /\ cache' = Restrict(cache, DOMAIN cache \ U)
     /\ insertionOrder' = At(insertionOrder, Kept(U))
     /\ raced' = raced \ U
     /\ upsert' = [upsert EXCEPT ![p] = AtRest]
     /\ UNCHANGED <<optedOut, recipient, prefSaves, now, overrideVars>>

\* The row is read again after the save of one preference; if that fails nothing is evicted.
UpsertFails(p) ==
  /\ upsert[p].pc = "evict"
  /\ upsert' = [upsert EXCEPT ![p] = AtRest]
  /\ raced' = raced \cup {u \in upsert[p].customers : u \in DOMAIN cache}
  /\ UNCHANGED <<optedOut, cache, insertionOrder, recipient, prefSaves, now, overrideVars>>

Expire ==
  /\ now < MaxTime
  /\ now' = now + 1
  /\ raced' = raced \ {u \in DOMAIN cache : cache[u].expiresAt <= now'}
  /\ UNCHANGED <<optedOut, cache, insertionOrder, recipient, upsert, prefSaves, overrideVars>>

-----------------------------------------------------------------------------
\* Overrides: create, update and softDelete save, invalidate the map and announce.

SaveOverride(o, c) ==
  /\ override[o] = AtRest /\ overrideSaves < MaxOverrideSaves
  /\ overrideSaves' = overrideSaves + 1
  /\ overrides' = IF c \in overrides THEN overrides \ {c} ELSE overrides \cup {c}
  /\ override' = [override EXCEPT ![o] = [pc |-> "find", announces |-> TRUE]]
  /\ UNCHANGED <<overrideMap, announced, mapSpoiled, now, preferenceVars>>

Announced(o) ==
  /\ override[o] = AtRest /\ announced > 0
  /\ announced' = announced - 1
  /\ override' = [override EXCEPT ![o] = [pc |-> "find", announces |-> FALSE]]
  /\ UNCHANGED <<overrides, overrideMap, overrideSaves, mapSpoiled, now, preferenceVars>>

\* invalidate: findActiveByEventType, then set.  A failed query ends the request or message.
FindActive(o) ==
  /\ override[o].pc = "find"
  /\ override' = [override EXCEPT ![o] = [pc |-> "set", announces |-> override[o].announces, found |-> overrides]]
  /\ UNCHANGED <<overrides, overrideMap, announced, overrideSaves, mapSpoiled, now, preferenceVars>>

InvalidateFails(o) ==
  /\ override[o].pc = "find"
  /\ override' = [override EXCEPT ![o] = AtRest]
  /\ mapSpoiled' = TRUE
  /\ UNCHANGED <<overrides, overrideMap, announced, overrideSaves, now, preferenceVars>>

SetMap(o) == overrideMap' = override[o].found

SetOverrides(o) ==
  /\ override[o].pc = "set"
  /\ SetMap(o)
  /\ mapSpoiled' = (override[o].found # overrides)
  /\ announced' = IF override[o].announces THEN announced + 1 ELSE announced
  /\ override' = [override EXCEPT ![o] = AtRest]
  /\ UNCHANGED <<overrides, overrideSaves, now, preferenceVars>>

ChannelsNext ==
  \/ \E r \in Recipient : StorePreferences(r) \/ Finish(r) \/ \E u \in Customer : Start(r, u)
  \/ \E p \in Upsert : EvictPreferences(p) \/ UpsertFails(p)
                       \/ \E U \in SUBSET Customer, c \in RuleChannels : SavePreferences(p, U, c)
  \/ Expire
  \/ \E o \in Override : Announced(o) \/ FindActive(o) \/ InvalidateFails(o) \/ SetOverrides(o)
                         \/ \E c \in KnownChannel : SaveOverride(o, c)

ChannelsSpec == ChannelsInit /\ [][ChannelsNext]_channelVars

-----------------------------------------------------------------------------

ChannelsTypeOK ==
  /\ optedOut \in [Customer -> SUBSET KnownChannel]
  /\ DOMAIN cache \subseteq Customer
  /\ overrides \subseteq KnownChannel /\ overrideMap \subseteq KnownChannel
  /\ announced \in Nat

\* The order of insertion names every cached customer once, so that the cache never grows
\* beyond its limit, whatever fetches, evictions and expiries interleave.
OrderMatchesCache ==
  /\ ToSet(insertionOrder) = DOMAIN cache
  /\ IsInjective(insertionOrder)
  /\ Cardinality(DOMAIN cache) <= maxSize

\* A customer's opt-out that was saved and evicted before a resolution starts keeps the
\* channel out unless an override demands it.  (Not if a fetch that read before the save
\* has stored the old preferences since: they stay for the whole lifetime.)
OptOutHonoured ==
  \A r \in Recipient : recipient[r].pc = "done" =>
    Effective(recipient[r].out, recipient[r].critical) \cap recipient[r].avoid \subseteq recipient[r].critical

\* A stale entry is a raced one, and lives no longer than its lifetime.
StaleIsRaced ==
  \A u \in Customer :
    Cached(u) /\ cache[u].out # optedOut[u] =>
      u \in raced \/ \E p \in Upsert : upsert[p] # AtRest /\ u \in upsert[p].customers

\* Once every change is applied the critical channels are those of the table, unless
\* invalidations overtook one another or failed.
OverridesFresh ==
  announced = 0 /\ (\A o \in Override : override[o] = AtRest) /\ ~mapSpoiled => overrideMap = overrides

\* The preference cache names its customers once each over evictions and expiries, a customer's stale
\* preferences come from a read that overlapped the save, an opt-out saved before a resolution starts keeps
\* the channel out unless an override forces it, and the overrides are the table's once they are applied.
ChannelsAsConfigured == OrderMatchesCache /\ StaleIsRaced /\ OptOutHonoured /\ OverridesFresh
=============================================================================
