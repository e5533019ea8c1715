----------------------------- MODULE RuleCache ------------------------------
(***************************************************************************)
(* The engine's rules of one event type: their administration, the cache   *)
(* the lookups are answered from (RULE_CACHE_ENABLED), and its             *)
(* invalidation by config.rule.changed messages.  The list is stored       *)
(* without a look at what has been stored meanwhile.                       *)
(***************************************************************************)
EXTENDS Naturals, FiniteSets

CONSTANTS
  Rule,
  Condition,
  Admin, Lookup, RuleHandler,
  MaxRuleSaves       \* bound: saves

VARIABLES
  ruleRows,            \* notification_rules: rule -> row
  ruleList,        \* the list cached for the event type, or NoList
  admin, lookup, ruleHandler,
  ruleNews,       \* config.rule.changed not yet delivered, as records [id, timestamp]
  ruleSaves,         \* the clock of updatedAt
  outdated,      \* history: readers whose list a save has made old
  ruleSpoiled        \* history: the cached list may be old (see RulesFreshUnlessOvertaken)

ruleVars == <<ruleRows, ruleList, admin, lookup, ruleHandler, ruleNews, ruleSaves, outdated, ruleSpoiled>>

NoTask == [pc |-> "idle"]
Missing == [active |-> FALSE]
NoList == {[id |-> "none"]}

\* findByEventType: the active rules (ordered by priority).
FindByEventType == {ruleRows[r] : r \in {r \in Rule : ruleRows[r].active}}

RulesInit ==
  /\ ruleRows = [r \in Rule |-> Missing]
  /\ ruleList = NoList
  /\ admin = [a \in Admin |-> NoTask]
  /\ lookup = [l \in Lookup |-> NoTask]
  /\ ruleHandler = [h \in RuleHandler |-> NoTask]
  /\ ruleNews = {}
  /\ ruleSaves = 0
  /\ outdated = {}
  /\ ruleSpoiled = FALSE

\* Readers that hold a list they have not stored yet.
Holding == {x \in Lookup : lookup[x].pc = "store"} \cup {h \in RuleHandler : ruleHandler[h].pc = "store"}

\* existsActiveDuplicate asks for an active rule with the same conditions.
Duplicate(c) == \E r \in Rule : ruleRows[r].active /\ ruleRows[r].conditions = c

CheckRule(a, r, c) ==
  /\ admin[a] = NoTask /\ ruleRows[r] = Missing /\ ~Duplicate(c)
  /\ \A b \in Admin : admin[b] # NoTask => admin[b].id # r
  /\ admin' = [admin EXCEPT ![a] = [pc |-> "save", id |-> r, change |-> "create",
                                    row |-> [id |-> r, active |-> TRUE, conditions |-> c]]]
  /\ UNCHANGED <<ruleRows, ruleList, lookup, ruleHandler, ruleNews, ruleSaves, outdated, ruleSpoiled>>

\* update and softDelete read the row and save it whole.
Read(a, r, row, change) ==
  /\ admin[a] = NoTask /\ ruleRows[r] # Missing
  /\ admin' = [admin EXCEPT ![a] = [pc |-> "save", id |-> r, change |-> change, row |-> row]]
  /\ UNCHANGED <<ruleRows, ruleList, lookup, ruleHandler, ruleNews, ruleSaves, outdated, ruleSpoiled>>

\* save, followed without a pause by the publication, which may be lost silently.
SaveRule(a) ==
  LET r == admin[a].id
      message == [id |-> r, timestamp |-> ruleSaves + 1]
  IN /\ admin[a].pc = "save" /\ ruleSaves < MaxRuleSaves
     /\ ruleSaves' = ruleSaves + 1
     /\ ruleRows' = [ruleRows EXCEPT ![r] = [id |-> r, active |-> admin[a].row.active,
                                 conditions |-> admin[a].row.conditions, updatedAt |-> ruleSaves + 1]]
     /\ \/ ruleNews' = ruleNews \cup {message} /\ UNCHANGED ruleSpoiled
        \/ ruleSpoiled' = TRUE /\ UNCHANGED ruleNews
     /\ admin' = [admin EXCEPT ![a] = NoTask]
     /\ outdated' = outdated \cup Holding
     /\ UNCHANGED <<ruleList, lookup, ruleHandler>>

-----------------------------------------------------------------------------
\* getRulesByEventType: an empty list counts as cached.

Miss(l) ==
  /\ lookup[l] = NoTask /\ ruleList = NoList
  /\ lookup' = [lookup EXCEPT ![l] = [pc |-> "store", list |-> FindByEventType]]
  /\ outdated' = outdated \ {l}
  /\ UNCHANGED <<ruleRows, ruleList, admin, ruleHandler, ruleNews, ruleSaves, ruleSpoiled>>

StoreMissed(l) ==
  /\ lookup[l].pc = "store"
  /\ ruleList' = lookup[l].list
  /\ ruleSpoiled' = (l \in outdated)
  /\ lookup' = [lookup EXCEPT ![l] = NoTask]
  /\ UNCHANGED <<ruleRows, admin, ruleHandler, ruleNews, ruleSaves, outdated>>

\* A restart warms the cache up: event types without active rules get no entry.
Restart ==
  /\ ruleList' = IF FindByEventType = {} THEN NoList ELSE FindByEventType
  /\ lookup' = [l \in Lookup |-> NoTask]
  /\ ruleHandler' = [h \in RuleHandler |-> NoTask]
  /\ ruleNews' = ruleNews \cup {ruleHandler[h].message : h \in {h \in RuleHandler : ruleHandler[h] # NoTask}}
  /\ ruleSpoiled' = FALSE
  /\ UNCHANGED <<ruleRows, admin, ruleSaves, outdated>>

-----------------------------------------------------------------------------
\* invalidateRule: findById, the comparison with the cached rule, findByEventType, set.

Deliver(h, message) ==
  /\ ruleHandler[h] = NoTask /\ message \in ruleNews
  /\ ruleNews' = ruleNews \ {message}
  /\ ruleHandler' = [ruleHandler EXCEPT ![h] = [pc |-> "find", message |-> message]]
  /\ UNCHANGED <<ruleRows, ruleList, admin, lookup, ruleSaves, outdated, ruleSpoiled>>

\* Mutant: a rule the cached list lacks counts as up to date.
Newer_Missing(message) ==
  ruleList # NoList /\ \A r \in ruleList : r.id = message.id => message.timestamp <= r.updatedAt

Newer(message) ==
  ruleList # NoList /\ \E r \in ruleList : r.id = message.id /\ message.timestamp <= r.updatedAt

Compare(h) ==
  /\ ruleHandler[h].pc = "find"
  /\ ruleHandler' = [ruleHandler EXCEPT ![h] = IF Newer(ruleHandler[h].message) THEN NoTask ELSE [@ EXCEPT !.pc = "fetch"]]
  /\ UNCHANGED <<ruleRows, ruleList, admin, lookup, ruleNews, ruleSaves, outdated, ruleSpoiled>>

Fetch(h) ==
  /\ ruleHandler[h].pc = "fetch"
  /\ ruleHandler' = [ruleHandler EXCEPT ![h] = [pc |-> "store", message |-> ruleHandler[h].message, list |-> FindByEventType]]
  /\ outdated' = outdated \ {h}
  /\ UNCHANGED <<ruleRows, ruleList, admin, lookup, ruleNews, ruleSaves, ruleSpoiled>>

StoreFetched(h) ==
  /\ ruleHandler[h].pc = "store"
  /\ ruleList' = ruleHandler[h].list
  /\ ruleSpoiled' = (h \in outdated)
  /\ ruleHandler' = [ruleHandler EXCEPT ![h] = NoTask]
  /\ UNCHANGED <<ruleRows, admin, lookup, ruleNews, ruleSaves, outdated>>

\* A failed query is logged; the message is done with.
HandlerFails(h) ==
  /\ ruleHandler[h].pc \in {"find", "fetch"}
  /\ ruleHandler' = [ruleHandler EXCEPT ![h] = NoTask]
  /\ ruleSpoiled' = TRUE
  /\ UNCHANGED <<ruleRows, ruleList, admin, lookup, ruleNews, ruleSaves, outdated>>

RulesNext ==
  \/ \E a \in Admin, r \in Rule :
       \/ \E c \in Condition : CheckRule(a, r, c)
       \/ \E c \in Condition : Read(a, r, [active |-> ruleRows[r].active, conditions |-> c], "updated")
       \/ ruleRows[r] # Missing /\ Read(a, r, [active |-> FALSE, conditions |-> ruleRows[r].conditions], "deleted")
  \/ \E a \in Admin : SaveRule(a)
  \/ \E l \in Lookup : Miss(l) \/ StoreMissed(l)
  \/ Restart
  \/ \E h \in RuleHandler : Compare(h) \/ Fetch(h) \/ StoreFetched(h) \/ HandlerFails(h)
                        \/ \E message \in ruleNews : Deliver(h, message)

RulesSpec == RulesInit /\ [][RulesNext]_ruleVars

-----------------------------------------------------------------------------

RulesTypeOK ==
  /\ \A r \in Rule : ruleRows[r] = Missing \/ (ruleRows[r].id = r /\ ruleRows[r].updatedAt \in 1 .. MaxRuleSaves)
  /\ \A a \in Admin : admin[a].pc \in {"idle", "save"}
  /\ \A l \in Lookup : lookup[l].pc \in {"idle", "store"}
  /\ \A h \in RuleHandler : ruleHandler[h].pc \in {"idle", "find", "fetch", "store"}
  /\ outdated \subseteq Lookup \cup RuleHandler

\* Once every announcement is handled, the event type is answered with the active rules,
\* although handlers skip announcements, lookups fill the cache meanwhile and restarts
\* come in between.  It is not when a lookup or a handler stores a list it had read
\* before a save, or an announcement or its queries are lost: then the old rules stay
\* until the next change or restart.
RulesFreshUnlessOvertaken ==
  /\ ruleNews = {} /\ ~ruleSpoiled
  /\ \A l \in Lookup : lookup[l] = NoTask
  /\ \A h \in RuleHandler : ruleHandler[h] = NoTask
  => ruleList = NoList \/ ruleList = FindByEventType
=============================================================================
