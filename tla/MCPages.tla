------------------------------- MODULE MCPages -------------------------------
\* TLC instance of the admin console's pages: its cache of answers, the pages of uploads, of the logs with
\* their export, and of the dead letters. They share no state: a behaviour exercises one part.
EXTENDS ConsoleLists

VARIABLE part

MCText == {<<>>, <<"a">>, <<"a", "b">>}
MCArriving == {[type |-> "order", status |-> "failed", word |-> FALSE], [type |-> "payment", status |-> "sent", word |-> TRUE]}

partVars == <<part, cacheVars, uploadVars, listVars>>

PartsInit ==
  /\ part \in {"cache", "uploads", "log", "export", "dlq"}
  /\ CacheInit /\ UploadsInit /\ ListsInit

\* What a step of each part leaves alone.
Part(p) == part = p /\ UNCHANGED part
NotCache == UNCHANGED <<uploadVars, listVars>>
NotUploads == UNCHANGED <<cacheVars, listVars>>

PartsNext ==
  \/ Part("cache") /\ CacheNext /\ NotCache
  \/ Part("uploads") /\ UploadsNext /\ NotUploads
  \/ Part("log") /\ LogNext /\ UNCHANGED <<cacheVars, uploadVars>>
  \/ Part("export") /\ ExportNext /\ UNCHANGED <<cacheVars, uploadVars>>
  \/ Part("dlq") /\ DlqNext /\ UNCHANGED <<cacheVars, uploadVars>>

\* Services answer, SWR's timers go on, and not every answer of a poll comes after the next poll.
PartsSpec ==
  /\ PartsInit /\ [][PartsNext]_partVars
  /\ \A k \in {"list", "item"} : /\ WF_partVars(Part("cache") /\ ServerReads(k) /\ NotCache)
                                /\ WF_partVars(Part("cache") /\ FetchDone(k) /\ NotCache)
                                /\ WF_partVars(Part("cache") /\ FetchRetry(k) /\ NotCache)
                                /\ WF_partVars(Part("cache") /\ DedupeEnds(k) /\ NotCache)
  /\ WF_partVars(Part("cache") /\ Poll /\ NotCache)
  /\ WF_partVars(Part("uploads") /\ StatusInterval /\ NotUploads)
  /\ WF_partVars(Part("uploads") /\ HistoryInterval /\ NotUploads)
  /\ \A k \in Keys : /\ WF_partVars(Part("uploads") /\ UploadRead(k) /\ NotUploads)
                            /\ SF_partVars(Part("uploads") /\ UploadReceived(k) /\ NotUploads)

-----------------------------------------------------------------------------

\* A dashboard that stays open shows every change in the end, and so do the history and the detail page of an
\* upload they have shown as active, up to the exceptions the modules name.
ScreensCatchUp ==
  /\ part = "cache" => DashboardCatchesUp
  /\ part = "uploads" => DetailCatchesUp /\ HistoryCatchesUp
=============================================================================
