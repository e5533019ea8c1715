---------------------------- MODULE MappingCache ----------------------------
(***************************************************************************)
(* Event mappings of the event-ingestion-service: their administration and *)
(* the in-memory cache the lookups are answered from                       *)
(* (MAPPING_CACHE_ENABLED). A change is saved, then announced; the         *)
(* consumer reads the row again and compares versions.  One source is      *)
(* modelled; a key is an event type or "*".                                *)
(***************************************************************************)
EXTENDS Naturals, FiniteSets, FiniteSetsExt

CONSTANTS
  Mapping,
  TypeOf,        \* Mapping -> its event type, or "*"
  EventType,
  Writer,        \* HTTP requests that change mappings
  MappingHandler,    \* consumers' handlers in progress
  MaxMappingSaves,   \* bound: saves
  MaxRestarts        \* bound: restarts

ASSUME MappingAssumption ==
  /\ "*" \notin EventType /\ TypeOf \in [Mapping -> EventType \cup {"*"}]
  /\ "none" \notin Mapping /\ IsFiniteSet(MappingHandler)

VARIABLES
  mappings,      \* event_mappings
  mappingCache,  \* Map of keys to rows
  inFlight,      \* inFlightQueries: key -> what its fetch has read
  writer, handler,
  pending,       \* config.mapping.changed messages not yet delivered, per mapping
  warm,
  saves, restarts,
  spoiled        \* history: keys the cache may be wrong about (see FreshUpToHoles)

mappingVars == <<mappings, mappingCache, inFlight, writer, handler, pending, warm, saves, restarts, spoiled>>

Key == EventType \cup {"*"}
NoMapping == [id |-> "none"]
ActiveMappings(d, k) == {m \in Mapping : d[m].id = m /\ d[m].active /\ TypeOf[m] = k}
FindBySourceAndType(k) ==
  LET found == ActiveMappings(mappings, k)
  IN IF found = {} THEN NoMapping ELSE mappings[CHOOSE m \in found : TRUE]

Resting == [pc |-> "idle"]
Spoil(K) == spoiled' = spoiled \cup K

MappingsInit ==
  /\ mappings = [m \in Mapping |-> NoMapping]
  /\ mappingCache = [k \in Key |-> NoMapping]
  /\ inFlight = [k \in Key |-> Resting]
  /\ writer = [w \in Writer |-> Resting]
  /\ handler = [h \in MappingHandler |-> Resting]
  /\ pending = [m \in Mapping |-> 0]
  /\ warm = TRUE
  /\ saves = 0 /\ restarts = 0
  /\ spoiled = {}

-----------------------------------------------------------------------------
\* The administration of mappings.

\* Keys whose fetch or handler is under way read rows that a save makes old.
Reading(m) == {k \in Key : inFlight[k].pc # "idle" /\ (k = TypeOf[m] \/ TypeOf[m] = "*")}

\* create: a second active mapping of a key is refused, by the check or by the index.
Create(w, m) ==
  /\ writer[w] = Resting /\ mappings[m] = NoMapping /\ saves < MaxMappingSaves
  /\ ActiveMappings(mappings, TypeOf[m]) = {}
  /\ saves' = saves + 1
  /\ mappings' = [mappings EXCEPT ![m] = [id |-> m, version |-> 1, active |-> TRUE, content |-> saves']]
  /\ writer' = [writer EXCEPT ![w] = [pc |-> "publish", id |-> m]]
  /\ Spoil(Reading(m))
  /\ UNCHANGED <<mappingCache, inFlight, handler, pending, warm, restarts>>

\* update and softDelete read the whole row ...
ReadMapping(w, m, change) ==
  /\ writer[w] = Resting /\ mappings[m] # NoMapping
  /\ writer' = [writer EXCEPT ![w] = [pc |-> "save", id |-> m, change |-> change, row |-> mappings[m]]]
  /\ UNCHANGED <<mappings, mappingCache, inFlight, handler, pending, warm, saves, restarts, spoiled>>

\* Mutant: an update forgets the version.
Changed_SameVersion(row, change, content) ==
  IF change = "update" THEN [row EXCEPT !.content = content] ELSE [row EXCEPT !.active = FALSE]

\* ... and save it: only an update counts the version up.
Changed(row, change, content) ==
  IF change = "update" THEN [row EXCEPT !.version = @ + 1, !.content = content]
                       ELSE [row EXCEPT !.active = FALSE]

\* A save that would make two mappings of a key active fails on the index.
SaveMapping(w) ==
  LET m == writer[w].id
      row == Changed(writer[w].row, writer[w].change, saves + 1)
  IN /\ writer[w].pc = "save" /\ saves < MaxMappingSaves
     /\ saves' = saves + 1
     /\ IF row.active /\ ActiveMappings(mappings, TypeOf[m]) \ {m} # {}
        THEN writer' = [writer EXCEPT ![w] = Resting] /\ UNCHANGED <<mappings, spoiled>>
        ELSE /\ mappings' = [mappings EXCEPT ![m] = row]
             /\ writer' = [writer EXCEPT ![w] = [pc |-> "publish", id |-> m]]
             /\ Spoil(Reading(m) \cup (IF writer[w].change = "softDelete" \/ mappings[m] # writer[w].row
                                       THEN {TypeOf[m]} ELSE {}))
     /\ UNCHANGED <<mappingCache, inFlight, handler, pending, warm, restarts>>

\* publishMappingChanged: a failure is only logged.
Publish(w) ==
  /\ writer[w].pc = "publish"
  /\ writer' = [writer EXCEPT ![w] = Resting]
  /\ \/ pending' = [pending EXCEPT ![writer[w].id] = @ + 1] /\ UNCHANGED spoiled
     \/ Spoil({TypeOf[writer[w].id]}) /\ UNCHANGED pending
  /\ UNCHANGED <<mappings, mappingCache, inFlight, handler, warm, saves, restarts>>

-----------------------------------------------------------------------------
\* getMapping

\* Hits change nothing, and a second miss of a key waits for the fetch of the first.
MissMapping(k) ==
  /\ warm /\ k # "*"
  /\ mappingCache[k] = NoMapping /\ mappingCache["*"] = NoMapping
  /\ inFlight[k] = Resting
  /\ inFlight' = [inFlight EXCEPT ![k] = [pc |-> "exact"]]
  /\ UNCHANGED <<mappings, mappingCache, writer, handler, pending, warm, saves, restarts, spoiled>>

FetchExact(k) ==
  /\ inFlight[k].pc = "exact"
  /\ LET row == FindBySourceAndType(k)
     IN inFlight' = [inFlight EXCEPT ![k] = IF row = NoMapping THEN [pc |-> "wildcard"] ELSE [pc |-> "store", row |-> row]]
  /\ UNCHANGED <<mappings, mappingCache, writer, handler, pending, warm, saves, restarts, spoiled>>

FetchWildcard(k) ==
  /\ inFlight[k].pc = "wildcard"
  /\ inFlight' = [inFlight EXCEPT ![k] = [pc |-> "store", row |-> FindBySourceAndType("*")]]
  /\ UNCHANGED <<mappings, mappingCache, writer, handler, pending, warm, saves, restarts, spoiled>>

\* The row goes under the key that was asked for, a wildcard mapping too.
StoreMapping(k) ==
  /\ inFlight[k].pc = "store"
  /\ LET row == inFlight[k].row
     IN IF row = NoMapping THEN UNCHANGED <<mappingCache, spoiled>>
        ELSE /\ mappingCache' = [mappingCache EXCEPT ![k] = row]
             /\ Spoil(IF TypeOf[row.id] # k \/ (mappingCache[k] # NoMapping /\ mappingCache[k] # row) THEN {k} ELSE {})
  /\ inFlight' = [inFlight EXCEPT ![k] = Resting]
  /\ UNCHANGED <<mappings, writer, handler, pending, warm, saves, restarts>>

-----------------------------------------------------------------------------
\* invalidateMapping

DeliverChange(h, m) ==
  /\ warm
  /\ handler[h] = Resting /\ pending[m] > 0
  /\ pending' = [pending EXCEPT ![m] = @ - 1]
  /\ handler' = [handler EXCEPT ![h] = [pc |-> "find", id |-> m]]
  /\ UNCHANGED <<mappings, mappingCache, inFlight, writer, warm, saves, restarts, spoiled>>

\* findById; when it fails the message is done with.
FindById(h) ==
  /\ handler[h].pc = "find"
  /\ \/ handler' = [handler EXCEPT ![h] = [pc |-> "apply", id |-> handler[h].id, row |-> mappings[handler[h].id]]]
        /\ UNCHANGED spoiled
     \/ handler' = [handler EXCEPT ![h] = Resting] /\ Spoil({TypeOf[handler[h].id]})
  /\ UNCHANGED <<mappings, mappingCache, inFlight, writer, pending, warm, saves, restarts>>

\* The version check, against whatever mapping is cached under the key.
Outdated(row) == mappingCache[TypeOf[row.id]] # NoMapping /\ mappingCache[TypeOf[row.id]].version >= row.version

Apply(h) ==
  LET row == handler[h].row
      k == TypeOf[row.id]
  IN /\ handler[h].pc = "apply"
     /\ handler' = [handler EXCEPT ![h] = Resting]
     /\ mappingCache' = IF Outdated(row) THEN mappingCache ELSE [mappingCache EXCEPT ![k] = IF row.active THEN row ELSE NoMapping]
     /\ Spoil(IF mappingCache[k] # NoMapping /\ mappingCache[k].id # row.id THEN {k} ELSE {})
     /\ UNCHANGED <<mappings, inFlight, writer, pending, warm, saves, restarts>>

\* A restart: what was not acknowledged is delivered again, once the cache is warm.
RestartCache ==
  /\ warm /\ restarts < MaxRestarts /\ restarts' = restarts + 1
  /\ warm' = FALSE
  /\ pending' = [m \in Mapping |-> pending[m] + Cardinality({h \in MappingHandler : handler[h] # Resting /\ handler[h].id = m})]
  /\ handler' = [h \in MappingHandler |-> Resting]
  /\ inFlight' = [k \in Key |-> Resting]
  /\ UNCHANGED <<mappings, mappingCache, writer, saves, spoiled>>

\* warmUp
WarmUp ==
  /\ ~warm
  /\ warm' = TRUE
  /\ mappingCache' = [k \in Key |-> FindBySourceAndType(k)]
  /\ spoiled' = {}
  /\ UNCHANGED <<mappings, inFlight, writer, handler, pending, saves, restarts>>

MappingsNext ==
  \/ \E w \in Writer :
       \/ \E m \in Mapping : Create(w, m) \/ \E change \in {"update", "softDelete"} : ReadMapping(w, m, change)
       \/ SaveMapping(w)
       \/ Publish(w)
  \/ \E k \in Key : MissMapping(k) \/ FetchExact(k) \/ FetchWildcard(k) \/ StoreMapping(k)
  \/ \E h \in MappingHandler : FindById(h) \/ Apply(h) \/ \E m \in Mapping : DeliverChange(h, m)
  \/ RestartCache
  \/ WarmUp

MappingsSpec == MappingsInit /\ [][MappingsNext]_mappingVars

-----------------------------------------------------------------------------

MappingsTypeOK ==
  /\ \A k \in Key : mappingCache[k] = NoMapping \/ mappingCache[k].id \in Mapping
  /\ \A w \in Writer : writer[w].pc \in {"idle", "save", "publish"}
  /\ \A h \in MappingHandler : handler[h].pc \in {"idle", "find", "apply"}
  /\ \A k \in Key : inFlight[k].pc \in {"idle", "exact", "wildcard", "store"}
  /\ \A m \in Mapping : pending[m] \in Nat
  /\ spoiled \subseteq Key

QuietKey(k) ==
  /\ warm
  /\ \A m \in Mapping : TypeOf[m] = k => pending[m] = 0
  /\ \A h \in MappingHandler : handler[h] # Resting => TypeOf[handler[h].id] # k
  /\ \A w \in Writer : writer[w].pc = "publish" => TypeOf[writer[w].id] # k
  /\ inFlight[k] = Resting

\* Once its announcements are handled, a key is answered by the saved row, in whatever
\* order fetches, saves, handlers and restarts were interleaved.  The holes, which spoil a
\* key until the next restart: a deactivation (its version does not change, so the cached
\* row counts as newer), saves that overlap, a fetch that overlaps a save, a wildcard
\* mapping stored under another key, the announcement of a mapping that finds another one
\* under its key (their versions have nothing to do with one another), and a lost
\* announcement or read.
FreshUpToHoles ==
  \A k \in Key : QuietKey(k) /\ k \notin spoiled =>
    /\ mappingCache[k] # NoMapping => mappingCache[k] = FindBySourceAndType(k)
    /\ mappingCache[k] = NoMapping => FindBySourceAndType(k) = NoMapping

\* Handlers that overtake each other never bring an older row of a mapping back.
HandlersOnlyRenew ==
  \A h \in MappingHandler, k \in Key :
    handler[h].pc = "apply" /\ handler'[h] = Resting /\ warm' /\ mappingCache[k] # NoMapping /\ mappingCache'[k] # NoMapping
      => mappingCache'[k].version >= mappingCache[k].version
=============================================================================
