------------------------------ MODULE MCAudit ------------------------------
\* The audit-service: its consumers, dead-letter administration, analytics and queries.
\* They share no state that the properties tell apart: a behaviour exercises one part.
EXTENDS AuditConsumers, DeadLetterAdmin, AuditReaders

CONSTANTS
  s1, s2, u1, x1, v1                                  \* messages: of a send twice, a status, a malformed one, an event

KindOf == (s1 :> "sent") @@ (s2 :> "sent") @@ (u1 :> "status") @@ (x1 :> "malformed") @@ (v1 :> "event")
Fingerprint == (s1 :> 1) @@ (s2 :> 1) @@ (u1 :> 2) @@ (x1 :> 3) @@ (v1 :> 4)

VARIABLES part
partVars == <<part, auditVars, vars, analyticsVars, queryVars>>

PartsInit ==
  /\ part \in {"consumers", "letters", "analytics", "queries"}
  /\ AuditInit /\ Init /\ AnalyticsInit /\ QueriesInit

\* What a step of each part leaves alone.
Part(p) == part = p /\ UNCHANGED part
NotConsumers == UNCHANGED <<vars, analyticsVars, queryVars>>

PartsNext ==
  \/ Part("consumers") /\ AuditNext /\ NotConsumers
  \/ Part("letters") /\ Next /\ UNCHANGED <<auditVars, analyticsVars, queryVars>>
  \/ Part("analytics") /\ AnalyticsNext /\ UNCHANGED <<auditVars, vars, queryVars>>
  \/ Part("queries") /\ QueriesNext /\ UNCHANGED <<auditVars, vars, analyticsVars>>

\* The broker delivers, timers fire and queries end.
PartsSpec ==
  PartsInit /\ [][PartsNext]_partVars /\ WF_partVars(Part("consumers") /\ AuditProgress /\ NotConsumers)

-----------------------------------------------------------------------------

\* Every message is acknowledged in the end.
MessagesEnd == part = "consumers" => AllAcknowledged
=============================================================================
