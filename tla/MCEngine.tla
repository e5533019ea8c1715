------------------------------- MODULE MCEngine -------------------------------
\* TLC instance of the engine: EnginePipeline over one event with one channel, and, as parts
\* that share no state with it or each other, its caches of rules, preferences and
\* overrides, its recipient groups and the matching of an event: a behaviour exercises one part.
EXTENDS EnginePipeline, RecipientGroups, EventMatching

Interchangeable == Permutations(Handler) \cup Permutations(Channel)

VARIABLE part

partVars == <<part, vars, ruleVars, channelVars, matchVars, groupVars>>

PartsInit ==
  /\ part \in {"event", "rules", "channels", "overrides", "matching", "groups"}
  /\ Init /\ RulesInit /\ ChannelsInit /\ MatchInit /\ GroupsInit

\* What a step of each part leaves alone.
Part(p) == part = p /\ UNCHANGED part
NotEvent == UNCHANGED <<ruleVars, channelVars, matchVars, groupVars>>

PartsNext ==
  \/ Part("event") /\ Next /\ NotEvent
  \/ Part("rules") /\ RulesNext /\ UNCHANGED <<vars, channelVars, matchVars, groupVars>>
  \/ Part("channels") /\ ChannelsNext /\ overrideSaves' <= 1
     /\ UNCHANGED <<vars, ruleVars, matchVars, groupVars>>
  \/ Part("overrides") /\ ChannelsNext /\ UNCHANGED <<preferenceVars, now>>
     /\ UNCHANGED <<vars, ruleVars, matchVars, groupVars>>
  \/ Part("matching") /\ MatchNext /\ UNCHANGED <<vars, ruleVars, channelVars, groupVars>>
  \/ Part("groups") /\ GroupsNext /\ UNCHANGED <<vars, ruleVars, channelVars, matchVars>>

\* The event and its notifications alone.
RowsInit == PartsInit /\ part = "event"
RowsSpec == RowsInit /\ [][PartsNext]_partVars

\* The loops of the consumers and the channel tasks they started go on.
PartsSpec ==
  /\ PartsInit /\ [][PartsNext]_partVars
  /\ \A r \in Run : WF_partVars(Part("event") /\ ConsumerStep(r) /\ NotEvent)
  /\ \A n \in Notification : WF_partVars(Part("event") /\ TaskStep(n) /\ NotEvent)
  /\ \A h \in Handler : WF_partVars(Part("event") /\ InboundStep(h) /\ NotEvent)

-----------------------------------------------------------------------------

\* The event's messages and the reports of its notification are handled in the end, over crashes
\* (the consumers' loops: base consumer, status-inbound consumer).
EventDrains == part = "event" => QueuesDrain
=============================================================================
