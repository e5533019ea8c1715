------------------------------ MODULE MCUploads ------------------------------
\* TLC instance of the bulk-upload service: BulkUpload, and, as parts that share no state with it or each
\* other, grouped uploads, the sheets, and the service's and the engine's circuit breakers: a
\* behaviour exercises one part.
EXTENDS BulkUpload, ServiceBreakers, BulkFiles

VARIABLES part

partVars == <<part, vars, groupVars, sheetVars, breakerVars>>

\* A file of three groups: one without an event type, one whose items disagree, one that a batch splits.
MCGroupOf == <<"a", "b", "c", "c", "a">>
MCOrderData == <<1, 1, 1, 2, 1>>

PartsInit ==
  /\ part \in {"uploads", "groups", "sheets", "breakers"}
  /\ Init /\ GroupInit /\ SheetInit /\ BreakerInit

\* What a step of each part leaves alone.
Part(p) == part = p /\ UNCHANGED part
NotUploads == UNCHANGED <<groupVars, sheetVars, breakerVars>>
NotGroups == UNCHANGED <<vars, sheetVars, breakerVars>>
NotBreakers == UNCHANGED <<vars, groupVars, sheetVars>>

PartsNext ==
  \/ Part("uploads") /\ Next /\ NotUploads
  \/ Part("groups") /\ GroupNext /\ NotGroups
  \/ Part("sheets") /\ SheetNext /\ UNCHANGED <<vars, groupVars, breakerVars>>
  \/ Part("breakers") /\ BreakerNext /\ NotBreakers

\* Time passes, requests come, some calls of a healthy service succeed, and the workers' loops go on.
PartsSpec ==
  /\ PartsInit /\ [][PartsNext]_partVars
  /\ \A w \in Worker : WF_partVars(Part("uploads") /\ ProcessUpload(w) /\ NotUploads)
  /\ WF_partVars(Part("groups") /\ GroupNext /\ NotGroups)
  /\ WF_partVars(Part("breakers") /\ Tick /\ NotBreakers)
  /\ \A c \in Call : /\ WF_partVars(Part("breakers") /\ Begin(c) /\ NotBreakers)
                             /\ SF_partVars(Part("breakers") /\ Success(c) /\ NotBreakers)

-----------------------------------------------------------------------------

\* An upload is claimed and worked off and its worker polls again, a run over a grouped upload ends, and the
\* breaker of a service that is healthy again closes for good.
UploadsEnd ==
  /\ part = "uploads" => ComesToRest
  /\ part = "groups" => RunEnds
  /\ part = "breakers" => Recovers
=============================================================================
