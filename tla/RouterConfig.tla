---------------------------- MODULE RouterConfig ----------------------------
\* Channel-router-service: provider rows written by requests and by the health monitor, the
\* provider cache that reloads after writes and on a timer, and the choice of a provider.
EXTENDS Naturals, FiniteSets, Sequences, SequencesExt

CONSTANTS
  Provider, ChannelOf,        \* provider -> channel
  Channels,                   \* in the order of a load
  Weight,
  Admin,                      \* requests
  Background,                 \* the refresh timer and the health monitor's writes
  routingMode, MaxWrites

NoRow == [exists |-> FALSE, active |-> FALSE, weight |-> 0]
Actor == Admin \cup Background
Free == [at |-> "idle"]

VARIABLES
  provider,     \* the rows of provider_configs
  cache,        \* channel -> its active providers at the time of the load
  actor,        \* what each request, timer or monitor is doing
  routed,       \* the last choice made
  spoiled,      \* a load that overlapped a later write has replaced the cache
  writes,
  started       \* the service has loaded its cache
routerVars == <<provider, cache, actor, routed, spoiled, writes, started>>

ActiveOn(ch) == {p \in Provider : ChannelOf[p] = ch /\ provider[p].exists /\ provider[p].active}
NoChoice == [from |-> "none", to |-> "none", sure |-> FALSE, wanted |-> {}]

RouterInit ==
  /\ provider = [p \in Provider |-> NoRow]
  /\ cache = [ch \in ToSet(Channels) |-> {}]
  /\ actor = [x \in Actor |-> Free] /\ routed = NoChoice /\ spoiled = FALSE /\ writes = 0 /\ started = FALSE

Act(x, next) == actor' = [actor EXCEPT ![x] = next]
Loading(x) == actor[x].at = "load"

\* A reload: what it reads per channel, and whether a write has overtaken it.
NewLoad == [at |-> "load", left |-> Channels, found |-> [ch \in ToSet(Channels) |-> {}], late |-> FALSE]

\* A write: loads under way no longer show the present rows.
Written(x, p, row, next) ==
  /\ provider' = [provider EXCEPT ![p] = row]
  /\ actor' = [y \in Actor |-> IF y = x THEN next ELSE IF Loading(y) THEN [actor[y] EXCEPT !.late = TRUE] ELSE actor[y]]
  /\ writes' = writes + 1

-----------------------------------------------------------------------------
\* Requests.

\* The adapter's url is unique; capabilities and health are asked first, and may be missing.
Register(x, p, active, weight) ==
  /\ started /\ x \in Admin /\ actor[x] = Free /\ ~provider[p].exists /\ writes < MaxWrites
  /\ Written(x, p, [exists |-> TRUE, active |-> active, weight |-> weight], NewLoad)
  /\ UNCHANGED <<cache, routed, spoiled, started>>

\* Update, deregister and the health request find the row first (CRS-009).
Find(x, p, op) ==
  /\ started /\ x \in Admin /\ actor[x] = Free /\ provider[p].exists /\ writes < MaxWrites
  /\ Act(x, [at |-> op, p |-> p, read |-> provider[p]])
  /\ UNCHANGED <<provider, cache, routed, spoiled, writes, started>>

\* The row read before is saved as a whole; a row deleted meanwhile is inserted again.
UpdateConfig(x, active, weight) ==
  /\ actor[x].at = "update"
  /\ Written(x, actor[x].p, [exists |-> TRUE, active |-> active, weight |-> weight], NewLoad)
  /\ UNCHANGED <<cache, routed, spoiled, started>>

\* Mutant: a removal leaves the cache.
Deregister_NoReload(x) ==
  /\ actor[x].at = "deregister"
  /\ Written(x, actor[x].p, NoRow, Free)
  /\ UNCHANGED <<cache, routed, spoiled, started>>

Deregister(x) ==
  /\ actor[x].at = "deregister"
  /\ Written(x, actor[x].p, NoRow, NewLoad)
  /\ UNCHANGED <<cache, routed, spoiled, started>>

\* The time of the last health check is saved with the row read for it, and nothing reloads.
SaveHealth(x) ==
  /\ actor[x].at = "health"
  /\ Written(x, actor[x].p, actor[x].read, Free)
  /\ spoiled' = (spoiled \/ provider[actor[x].p] # actor[x].read)
  /\ UNCHANGED <<cache, routed, started>>

\* The monitor checks every active provider and reads its row again for the time.
MonitorCheck(x, p) ==
  /\ started /\ x \in Background /\ actor[x] = Free /\ provider[p].exists /\ provider[p].active /\ writes < MaxWrites
  /\ Act(x, [at |-> "health", p |-> p, read |-> provider[p]])
  /\ UNCHANGED <<provider, cache, routed, spoiled, writes, started>>

-----------------------------------------------------------------------------
\* The cache.

\* The rows of an earlier life of the service.
Start ==
  /\ ~started /\ started' = TRUE
  /\ provider' \in [Provider -> {NoRow, [exists |-> TRUE, active |-> TRUE, weight |-> Weight]}]
  /\ cache' = [ch \in ToSet(Channels) |-> {p \in Provider : ChannelOf[p] = ch /\ provider'[p].active}]
  /\ UNCHANGED <<actor, routed, spoiled, writes>>

RefreshTimer(x) ==
  /\ started /\ x \in Background /\ actor[x] = Free /\ writes < MaxWrites
  /\ Act(x, NewLoad) /\ writes' = writes + 1
  /\ UNCHANGED <<provider, cache, routed, spoiled, started>>

\* One query per channel.
LoadChannel(x) ==
  /\ Loading(x) /\ actor[x].left # <<>>
  /\ LET ch == Head(actor[x].left) IN
       Act(x, [actor[x] EXCEPT !.left = Tail(@), !.found[ch] = ActiveOn(ch)])
  /\ UNCHANGED <<provider, cache, routed, spoiled, writes, started>>

LoadedRows(x) == actor[x].found

\* The last load to end is the one that stays, whenever it began.
LoadEnds(x) ==
  /\ Loading(x) /\ actor[x].left = <<>>
  /\ cache' = LoadedRows(x) /\ spoiled' = actor[x].late /\ Act(x, Free)
  /\ UNCHANGED <<provider, routed, writes, started>>

\* A query of a load fails: the cache stays as it is.
LoadFails(x) ==
  /\ Loading(x) /\ spoiled' = TRUE /\ Act(x, Free)
  /\ UNCHANGED <<provider, cache, routed, writes, started>>

-----------------------------------------------------------------------------
\* The choice of a provider: an empty channel is looked up in the database.

Candidates(ch) == IF cache[ch] # {} THEN cache[ch] ELSE ActiveOn(ch)

\* Weighted: the provider where the running sum passes a random number below the total; a
\* weight of zero is passed over unless that number is zero itself. Failover: the breaker
\* admits it, or none. Primary: the heaviest at the time of the load.
Chosen(ps, p) ==
  CASE routingMode = "weighted" -> p \in ps /\ (provider[p].weight > 0 \/ \A q \in ps : provider[q].weight = 0)
    [] routingMode = "failover" -> p \in ps \cup {"none"}
    [] OTHER -> p \in ps

ResolveProvider(ch) ==
  /\ started
  /\ LET ps == Candidates(ch) IN
     \E p \in Provider \cup {"none"} :
       /\ IF ps = {} THEN p = "none" ELSE Chosen(ps, p)
       /\ routed' = [from |-> ch, to |-> p, wanted |-> ActiveOn(ch),
                     sure |-> ~spoiled /\ \A x \in Actor : ~Loading(x)]
  /\ UNCHANGED <<provider, cache, actor, spoiled, writes, started>>

RouterNext ==
  \/ Start
  \/ \E x \in Actor :
       \/ \E p \in Provider, active \in BOOLEAN, weight \in 0 .. Weight : Register(x, p, active, weight)
       \/ \E p \in Provider, op \in {"update", "deregister", "health"} : Find(x, p, op)
       \/ \E active \in BOOLEAN, weight \in 0 .. Weight : UpdateConfig(x, active, weight)
       \/ \E p \in Provider : MonitorCheck(x, p)
       \/ Deregister(x) \/ SaveHealth(x) \/ RefreshTimer(x) \/ LoadChannel(x) \/ LoadEnds(x) \/ LoadFails(x)
  \/ \E ch \in ToSet(Channels) : ResolveProvider(ch)
RouterSpec == RouterInit /\ [][RouterNext]_routerVars

-----------------------------------------------------------------------------
RouterTypeOK ==
  /\ \A p \in Provider : provider[p].exists \in BOOLEAN /\ (provider[p].active => provider[p].exists)
  /\ \A ch \in DOMAIN cache : cache[ch] \subseteq Provider

\* Once the loads have ended, the cache shows the active providers, unless a load that a
\* write overtook ended last, a load failed, or a stale row was saved without a reload.
CacheFollowsRows ==
  (started /\ ~spoiled /\ \A x \in Actor : ~Loading(x)) => \A ch \in DOMAIN cache : cache[ch] = ActiveOn(ch)

\* Deliveries then go to a provider that is active on their channel, and to none only if
\* there is none or every breaker is open.
RoutedToActive ==
  routed.sure =>
    IF routed.to = "none" THEN routed.wanted = {} \/ routingMode = "failover" ELSE routed.to \in routed.wanted

\* A deregistered provider comes back by registration, or by a request or health check that
\* had read it before.
GoneStaysGone ==
  \A p \in Provider :
    (started /\ ~provider[p].exists /\ provider'[p].exists) =>
      \E x \in Actor : \/ x \in Admin /\ actor[x] = Free /\ actor'[x] # Free
                       \/ actor[x].at \in {"update", "health"} /\ actor[x].read.exists /\ actor'[x] # actor[x]

\* After the reloads of all writes the provider cache shows the active rows, a delivery is routed to a
\* provider that is active when it is chosen, and a deregistered provider comes back only through a write
\* that had read it before.
RoutedAsConfigured ==
  /\ [](RouterTypeOK /\ CacheFollowsRows /\ RoutedToActive)
  /\ [][GoneStaysGone]_routerVars
=============================================================================
