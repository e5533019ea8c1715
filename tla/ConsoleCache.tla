---------------------------- MODULE ConsoleCache ----------------------------
(***************************************************************************)
(* What the console's screens show of a service's rows, through SWR's      *)
(* cache of answers: screens that list and edit rules, templates, mappings *)
(* and groups ("forms"), the members of a group, the system's              *)
(* configuration, the providers of a channel, and the dashboard.  One row, *)
(* one browser; other clients change the row too.                          *)
(*                                                                         *)
(* A change names the keys it invalidates as service and path; the cache's *)
(* keys have the parameters as a third member, so that none of them ever   *)
(* matches.                                                                *)
(***************************************************************************)
EXTENDS Naturals, Sequences

CONSTANTS
  None,          \* no data yet
  MaxChanges,    \* bound: changes of the row
  MaxFaults,     \* bound: failing requests
  MaxVisits      \* bound: screens opened

\* No data is neither a row nor a value of one, nor a kind of screens.
ASSUME CacheAssumption ==
  /\ None \notin BOOLEAN /\ None \notin [version : Nat, value : BOOLEAN]
  /\ None \notin {"forms", "members", "configs", "providers", "dashboard"}

VARIABLES
  kind,          \* which screens are exercised
  screen,        \* the mounted screen
  row,           \* the service's row: its version, and the value of a switch or a text
  cache,         \* the cached answer of each key
  fetch,         \* the request of each key: "settled" answers for others a moment longer
  change,        \* the change under way
  form,          \* the form's default values, with the version its visit had to show
  box,           \* what a row's switch or text box holds
  due,           \* history: the version that the list must show
  others,        \* history: changes of other clients
  reverted,      \* history: a failed toggle came after one that succeeded
  faults, visits

cacheVars == <<kind, screen, row, cache, fetch, change, form, box, due, others, reverted, faults, visits>>

\* The keys of useApiGet, and those a mutation hook names.
Key(path, params) == <<path, params>>
Hooks(path) ==
  [list |-> Key(path, "params"), item |-> Key(path \o "/id", "undefined"), invalidates |-> {<<path>>, <<path \o "/id">>}]
RuleHooks == Hooks("rules")
TemplateHooks == Hooks("templates")
MappingHooks == Hooks("event-mappings")
GroupHooks == Hooks("recipient-groups")
MemberHooks == [list |-> Key("members", "undefined"), item |-> Key("groups/id", "undefined"), invalidates |-> {<<"members">>, <<"groups/id">>, <<"groups">>}]
ConfigHooks == [list |-> Key("system-configs", "undefined"), item |-> <<>>, invalidates |-> {<<"system-configs">>}]
ProviderHooks == [list |-> Key("providers", "undefined"), item |-> <<>>, invalidates |-> {<<"providers">>, <<"providers/id">>}]
DashboardHooks == [list |-> Key("analytics/summary", "undefined"), item |-> <<>>, invalidates |-> {<<"analytics/summary">>}]
HooksOf ==
  [forms |-> {RuleHooks, TemplateHooks, MappingHooks, GroupHooks}, members |-> {MemberHooks}, configs |-> {ConfigHooks},
   providers |-> {ProviderHooks}, dashboard |-> {DashboardHooks}]
Kind == DOMAIN HooksOf
\* A key is one or the other of a record: mutate finds the keys that are equal to the one it is given.
Invalidated(k) == \E hooks \in HooksOf[kind] : hooks[k] \in hooks.invalidates

Idle == [pc |-> "idle"]
NoFetch == [pc |-> "none"]
Sent == [pc |-> "sent", since |-> row.version]
Going(k) == fetch[k].pc \in {"sent", "read"}

CacheInit ==
  /\ kind = None /\ screen = "none"
  /\ row = [version |-> 0, value |-> FALSE]
  /\ cache = [k \in {"list", "item"} |-> None]
  /\ fetch = [k \in {"list", "item"} |-> NoFetch]
  /\ change = Idle /\ form = None /\ box = None
  /\ due = 0 /\ others = 0 /\ reverted = FALSE /\ faults = 0 /\ visits = 0

Choose(k) ==
  /\ kind = None /\ kind' = k
  /\ UNCHANGED <<screen, row, cache, fetch, change, form, box, due, others, reverted, faults, visits>>

Base(k) == cache[k]

\* A screen is mounted with what the cache has, and asks again unless a request of its key is
\* under way or has just been answered.
Mounted(k) ==
  /\ screen' = k
  /\ fetch' = [fetch EXCEPT ![k] = IF @.pc \in {"none", "failed"} THEN Sent ELSE @]
  /\ form' = IF k = "item" /\ Base(k) # None THEN [base |-> Base(k), floor |-> IF cache[k] = None THEN row.version ELSE 0] ELSE None
  /\ box' = IF k = "list" /\ cache[k] # None THEN cache[k].value ELSE None
Open(k) ==
  /\ kind # None /\ screen = "none" /\ visits < MaxVisits
  /\ k = "item" => kind = "forms"
  /\ Mounted(k) /\ visits' = visits + 1
  /\ UNCHANGED <<kind, row, cache, change, due, others, reverted, faults>>
Close ==
  /\ screen # "none" /\ screen' = "none" /\ form' = None /\ box' = None
  /\ change' = IF change = Idle THEN Idle ELSE [change EXCEPT !.left = TRUE]
  /\ UNCHANGED <<kind, row, cache, fetch, due, others, reverted, faults, visits>>

ServerReads(k) ==
  /\ fetch[k].pc = "sent" /\ fetch' = [fetch EXCEPT ![k] = [pc |-> "read", data |-> row, since |-> fetch[k].since]]
  /\ UNCHANGED <<kind, screen, row, cache, change, form, box, due, others, reverted, faults, visits>>

\* An answer shows at once. A form that is open keeps its values, a switch or text box takes a
\* value that differs from the one before.
FetchDone(k) ==
  /\ fetch[k].pc = "read"
  /\ LET data == fetch[k].data IN
       /\ cache' = [cache EXCEPT ![k] = data]
       /\ form' = IF screen = "item" /\ k = "item" /\ form = None THEN [base |-> data, floor |-> fetch[k].since] ELSE form
       /\ box' = IF screen = "list" /\ k = "list" /\ (cache[k] = None \/ cache[k].value # data.value) THEN data.value ELSE box
  /\ fetch' = [fetch EXCEPT ![k] = [pc |-> "settled"]]
  /\ UNCHANGED <<kind, screen, row, change, due, others, reverted, faults, visits>>

\* A failed request is tried again while its screen is there.
FetchFails(k) ==
  /\ Going(k) /\ faults < MaxFaults
  /\ fetch' = [fetch EXCEPT ![k] = [pc |-> "failed"]] /\ faults' = faults + 1
  /\ UNCHANGED <<kind, screen, row, cache, change, form, box, due, others, reverted, visits>>
FetchRetry(k) ==
  /\ fetch[k].pc = "failed" /\ screen = k /\ fetch' = [fetch EXCEPT ![k] = Sent]
  /\ UNCHANGED <<kind, screen, row, cache, change, form, box, due, others, reverted, faults, visits>>
DedupeEnds(k) ==
  /\ fetch[k].pc = "settled" /\ fetch' = [fetch EXCEPT ![k] = NoFetch]
  /\ UNCHANGED <<kind, screen, row, cache, change, form, box, due, others, reverted, faults, visits>>
\* refreshInterval of the dashboard's summary.
Poll ==
  /\ kind = "dashboard" /\ screen = "list" /\ fetch["list"].pc = "none"
  /\ fetch' = [fetch EXCEPT !["list"] = Sent]
  /\ UNCHANGED <<kind, screen, row, cache, change, form, box, due, others, reverted, faults, visits>>

\* Mutant: a request that is under way answers for the new one.
Refreshed_Joins(k) == [fetch EXCEPT ![k] = IF screen # k THEN NoFetch ELSE IF Going(k) THEN @ ELSE Sent]
\* The mutate of a screen's hook: the request under way no longer counts.
Refreshed(k) == [fetch EXCEPT ![k] = IF screen = k THEN Sent ELSE NoFetch]

Submit(op, value) ==
  /\ change = Idle /\ row.version < MaxChanges
  /\ change' = [pc |-> "sent", op |-> op, value |-> value, left |-> FALSE]
  /\ UNCHANGED <<kind, screen, row, cache, fetch, due, others, reverted, faults, visits>>
SaveForm == form # None /\ Submit("save", ~form.base.value) /\ UNCHANGED <<form, box>>
DeleteRow == kind = "forms" /\ screen = "list" /\ cache["list"] # None /\ Submit("delete", row.value) /\ UNCHANGED <<form, box>>
ChangeMember == kind = "members" /\ screen = "list" /\ Submit("member", row.value) /\ UNCHANGED <<form, box>>
TypeValue ==
  /\ kind = "configs" /\ box # None /\ box' = ~box
  /\ UNCHANGED <<kind, screen, row, cache, fetch, change, form, due, others, reverted, faults, visits>>
SaveConfig == kind = "configs" /\ box # None /\ box # cache["list"].value /\ Submit("config", box) /\ UNCHANGED <<form, box>>
\* The switch moves before the request.
HandleToggle == kind = "providers" /\ box # None /\ Submit("toggle", ~box) /\ box' = ~box /\ UNCHANGED form
DeleteProvider == kind = "providers" /\ box # None /\ Submit("deregister", row.value) /\ UNCHANGED <<form, box>>

Applied ==
  /\ change.pc = "sent"
  /\ row' = [version |-> row.version + 1, value |-> change.value]
  /\ change' = [pc |-> "applied", op |-> change.op, value |-> change.value, left |-> change.left, version |-> row.version + 1]
  /\ UNCHANGED <<kind, screen, cache, fetch, form, box, due, others, reverted, faults, visits>>

\* The keys of the hook are invalidated, which is to no effect; then what the screen does itself.
Answered ==
  /\ change.pc = "applied" /\ ~Invalidated("list") /\ ~Invalidated("item")
  /\ CASE change.op = "save" ->     \* the form's page goes to the list
            /\ Mounted("list")
            /\ due' = IF fetch["list"].pc \in {"none", "failed"} THEN change.version ELSE due
       [] change.op \in {"delete", "member", "config"} ->
            /\ fetch' = Refreshed("list") /\ due' = change.version /\ UNCHANGED <<screen, form, box>>
       [] OTHER -> UNCHANGED <<screen, fetch, form, box, due>>
  /\ change' = Idle
  /\ UNCHANGED <<kind, row, cache, others, reverted, faults, visits>>

\* A failed toggle goes back to what the cache says.
Reverted == cache["list"].value

\* A message, whether or not the service got to the change.
ChangeFails ==
  /\ change # Idle /\ faults < MaxFaults
  /\ box' = IF change.op = "toggle" /\ ~change.left /\ screen = "list" THEN Reverted ELSE box
  /\ reverted' = (reverted \/ (change.op = "toggle" /\ (change.pc = "applied" \/ cache["list"].version # row.version)))
  /\ change' = Idle /\ faults' = faults + 1
  /\ UNCHANGED <<kind, screen, row, cache, fetch, form, due, others, visits>>

OtherChange(value) ==
  /\ kind # None /\ row.version < MaxChanges
  /\ row' = [version |-> row.version + 1, value |-> value] /\ others' = others + 1
  /\ UNCHANGED <<kind, screen, cache, fetch, change, form, box, due, reverted, faults, visits>>

CacheNext ==
  \/ \E k \in Kind : Choose(k)
  \/ \E k \in {"list", "item"} :
       Open(k) \/ ServerReads(k) \/ FetchDone(k) \/ FetchFails(k) \/ FetchRetry(k) \/ DedupeEnds(k)
  \/ Close \/ Poll \/ SaveForm \/ DeleteRow \/ ChangeMember \/ TypeValue \/ SaveConfig \/ HandleToggle \/ DeleteProvider
  \/ Applied \/ Answered \/ ChangeFails
  \/ \E value \in BOOLEAN : OtherChange(value)

CacheSpec == CacheInit /\ [][CacheNext]_cacheVars

-----------------------------------------------------------------------------

\* rule-list.tsx, template-list.tsx, mapping-list.tsx, group-list.tsx, member-manager.tsx,
\* config-editor.tsx: a list that shows no request under way shows the console's own change, over
\* requests that were sent before it; after a save, only if the list's key had no request of late.
OwnChangesShown ==
  screen = "list" /\ fetch["list"].pc \in {"none", "settled"} => cache["list"] # None /\ cache["list"].version >= due

\* use-api.ts: a form that no cached answer preceded starts from the row as it was when the
\* request it waited for was sent, or later; one that did starts from the cached row, even after a save of its own.
FirstFormIsFresh == form # None => form.base.version >= form.floor

\* channel-detail.tsx: a switch at rest shows the row's state, unless others changed it, or a
\* toggle failed behind another of which the cache never heard, or whose answer was lost.
SwitchAgrees ==
  kind = "providers" /\ screen = "list" /\ change = Idle /\ box # None /\ ~Going("list") /\ fetch["list"].pc # "failed"
    /\ others = 0 /\ ~reverted /\ visits = 1
  => box = row.value

\* use-dashboard.ts: a dashboard that stays open shows the row as it is, once changes leave it the time.
DashboardCatchesUp ==
  (kind = "dashboard" /\ screen = "list") ~> (screen # "list" \/ (cache["list"] # None /\ cache["list"].version = row.version))
=============================================================================
