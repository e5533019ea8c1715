------------------------------- MODULE MCEvents -------------------------------
\* TLC instance of event ingestion: EventIngestion, and, as parts that share no state with it, the mapping
\* cache and the normalization of a payload: a behaviour exercises one part.
EXTENDS EventIngestion, Normalization

CONSTANTS e1                 \* a message

MCCopies == [m \in Event |-> 2]
MCEventOf == [r \in Request |-> e1]
MCTypeOf == [m1 |-> "order", m2 |-> "order", m3 |-> "*"]

VARIABLES part
partVars == <<part, vars, mappingVars, payloadVars>>

PartsInit ==
  /\ part \in {"events", "mappings", "payloads"}
  /\ Init /\ MappingsInit /\ PayloadInit

\* What a step of each part leaves alone.
Part(p) == part = p /\ UNCHANGED part
NotEvents == UNCHANGED <<mappingVars, payloadVars>>

PartsNext ==
  \/ Part("events") /\ Next /\ NotEvents
  \/ Part("mappings") /\ MappingsNext /\ UNCHANGED <<vars, payloadVars>>
  \/ Part("payloads") /\ PayloadNext /\ UNCHANGED <<vars, mappingVars>>

PartsSpec ==
  /\ PartsInit /\ [][PartsNext]_partVars
  /\ \A c \in Consumer : WF_partVars(Part("events") /\ Consume(c) /\ NotEvents)
  /\ \A r \in Request : WF_partVars(Part("events") /\ Process(r) /\ NotEvents)

-----------------------------------------------------------------------------

\* Every copy of every message is acknowledged or dead-lettered in the end.
EventsDrain == part = "events" => QueuesDrain
=============================================================================
