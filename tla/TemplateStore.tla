--------------------------- MODULE TemplateStore ---------------------------
\* Template-service: versions of templates written by overlapping requests, and renders
\* that read them through the cache of compiled texts.
EXTENDS Naturals, Sequences, FiniteSets, SequencesExt, Functions

CONSTANTS Template, Channel, Variable, Writer, Renderer, maxSize, MaxVersions

\* The size of the cache is configured; the default is 1000.
ASSUME StoreAssumption == IsFiniteSet(Template) /\ IsFiniteSet(Channel) /\ maxSize \in Nat \ {0}

\* What a request sends: the texts of some channels, each reduced to the variables it uses.
Content == UNION {[C -> SUBSET Variable] : C \in SUBSET Channel \ {{}}}
Uses(content) == UNION {content[ch] : ch \in DOMAIN content}

\* A row: current version (0: no such template), active flag.
NoRow == [current |-> 0, active |-> FALSE]
Free == [at |-> "idle"]

VARIABLES
  rows,         \* template -> row
  versions,     \* template -> its versions by number, never changed once written
  variables,    \* template -> names of its variable rows
  compiled,        \* <<template, version, channel>> -> compiled text
  insertionOrder,
  writer,       \* create, update, delete or rollback under way
  renderer,     \* render or preview under way, or what it has answered
  unsettled     \* templates rolled back, or written by overlapping requests
storeVars == <<rows, versions, variables, compiled, insertionOrder, writer, renderer, unsettled>>

StoreTypes ==
  /\ \A t \in Template : rows[t].current \in 0 .. Len(versions[t]) /\ rows[t].active \in BOOLEAN
  /\ \A t \in Template : versions[t] \in Seq(Content) /\ variables[t] \subseteq Variable
  /\ Len(insertionOrder) <= maxSize /\ unsettled \subseteq Template

Empty == [k \in {} |-> {}]
StoreInit ==
  /\ rows = [t \in Template |-> NoRow] /\ versions = [t \in Template |-> <<>>]
  /\ variables = [t \in Template |-> {}] /\ compiled = Empty /\ insertionOrder = <<>>
  /\ writer = [w \in Writer |-> Free] /\ renderer = [r \in Renderer |-> Free]
  /\ unsettled = {}

-----------------------------------------------------------------------------
\* The cache of compiled texts: first in, first out.

\* Mutant: the key leaves out the version.
CompiledKey_NoVersion(t, v, ch) == <<t, 0, ch>>

CompiledKey(t, v, ch) == <<t, v, ch>>

Without(c, keys) == [k \in DOMAIN c \ keys |-> c[k]]

\* One entry set in a cache state [c, order].
Put(s, k, text) ==
  LET full == k \notin DOMAIN s.c /\ Len(s.order) >= maxSize
      c == IF full THEN Without(s.c, {Head(s.order)}) ELSE s.c
      order == IF full THEN Tail(s.order) ELSE s.order
  IN [c |-> [x \in DOMAIN c \cup {k} |-> IF x = k THEN text ELSE c[x]],
      order |-> IF k \in DOMAIN s.c THEN order ELSE Append(order, k)]

Compiled(s, k, text) == IF k \in DOMAIN s.c THEN s ELSE Put(s, k, text)

\* All channels of a version, each compiled unless it is there.
Fill(s, t, v) ==
  LET channels == SetToSeq(DOMAIN versions[t][v])
      filled[n \in 0 .. Len(channels)] ==
        IF n = 0 THEN s ELSE Compiled(filled[n - 1], CompiledKey(t, v, channels[n]), versions[t][v][channels[n]])
  IN filled[Len(channels)]

CacheState == [c |-> compiled, order |-> insertionOrder]
SetCache(s) == compiled' = s.c /\ insertionOrder' = s.order

Others(order, t) ==
  LET others[n \in 0 .. Len(order)] ==
        IF n = 0 THEN <<>> ELSE IF order[n][1] = t THEN others[n - 1] ELSE Append(others[n - 1], order[n])
  IN others[Len(order)]

Drop(t) ==
  /\ compiled' = Without(compiled, {k \in DOMAIN compiled : k[1] = t})
  /\ insertionOrder' = Others(insertionOrder, t)

-----------------------------------------------------------------------------
\* Requests that write.

tables == <<rows, versions, variables>>
compiledVars == <<compiled, insertionOrder>>
Step(w, next) == writer' = [writer EXCEPT ![w] = next]
Refuse(w) == Step(w, Free) /\ UNCHANGED <<tables, unsettled>>
Overlaps(w, t) == \E o \in Writer \ {w} : writer[o] # Free /\ writer[o].t = t

\* The slug is looked up before the transaction; two creates may both pass.
BeginCreate(w, t) ==
  /\ writer[w] = Free /\ rows[t] = NoRow
  /\ Step(w, [at |-> "create", t |-> t])
  /\ UNCHANGED <<tables, compiledVars, renderer, unsettled>>

\* Template, first version, channels and variables in one transaction; the slug is unique.
Create(w, content) ==
  /\ writer[w].at = "create"
  /\ LET t == writer[w].t IN
       IF rows[t] # NoRow THEN Refuse(w)
       ELSE /\ rows' = [rows EXCEPT ![t] = [current |-> 1, active |-> TRUE]]
            /\ versions' = [versions EXCEPT ![t] = <<content>>]
            /\ variables' = [variables EXCEPT ![t] = Uses(content)]
            /\ Step(w, Free) /\ UNCHANGED unsettled
  /\ UNCHANGED <<compiledVars, renderer>>

\* Update, delete and rollback read the template first; a rollback to the current or to a
\* missing version is refused there.
BeginWrite(w, t, op) ==
  /\ writer[w] = Free /\ rows[t] # NoRow
  /\ Step(w, [at |-> op, t |-> t, read |-> rows[t], known |-> Len(versions[t])])
  /\ unsettled' = IF Overlaps(w, t) THEN unsettled \cup {t} ELSE unsettled
  /\ UNCHANGED <<tables, compiledVars, renderer>>

\* In its transaction an update takes the highest version number plus one.
Number(w, content) ==
  /\ writer[w].at = "update" /\ Len(versions[writer[w].t]) < MaxVersions
  /\ LET u == writer[w] IN
       Step(w, [at |-> "commit", t |-> u.t, read |-> u.read, content |-> content, number |-> Len(versions[u.t]) + 1])
  /\ UNCHANGED <<tables, compiledVars, renderer, unsettled>>

Kept(old, content) == Uses(content)

\* The number is unique per template: of two updates that took the same, one fails. The
\* entity saved is the one read before, so its active flag comes back with it.
Commit(w) ==
  /\ writer[w].at = "commit"
  /\ LET t == writer[w].t u == writer[w] IN
       IF Len(versions[t]) # u.number - 1 THEN Refuse(w)
       ELSE /\ versions' = [versions EXCEPT ![t] = Append(@, u.content)]
            /\ rows' = [rows EXCEPT ![t] = [u.read EXCEPT !.current = u.number]]
            /\ variables' = [variables EXCEPT ![t] = Kept(@, u.content)]
            /\ Step(w, [at |-> "invalidate", t |-> t]) /\ UNCHANGED unsettled
  /\ UNCHANGED <<compiledVars, renderer>>

\* A delete clears the flag of the entity it read and saves all of it.
Delete(w) ==
  /\ writer[w].at = "delete"
  /\ rows' = [rows EXCEPT ![writer[w].t] = [writer[w].read EXCEPT !.active = FALSE]]
  /\ Step(w, [at |-> "invalidate", t |-> writer[w].t])
  /\ UNCHANGED <<versions, variables, compiledVars, renderer, unsettled>>

\* A rollback moves the current version only; the variables stay those of the last update.
\* The entity is saved with the versions read: a newer one would lose its template, which
\* the column refuses.
Rollback(w, n) ==
  /\ writer[w].at = "rollback" /\ n \in 1 .. writer[w].known /\ n # writer[w].read.current
  /\ LET t == writer[w].t IN
       IF Len(versions[t]) # writer[w].known THEN Refuse(w)
       ELSE /\ rows' = [rows EXCEPT ![t] = [writer[w].read EXCEPT !.current = n]]
            /\ unsettled' = unsettled \cup {t}
            /\ Step(w, [at |-> "invalidate", t |-> t]) /\ UNCHANGED <<versions, variables>>
  /\ UNCHANGED <<compiledVars, renderer>>

\* A request whose arguments or database fail ends without a write.
Abandon(w) ==
  /\ writer[w].at \in {"create", "update", "commit", "delete", "rollback"}
  /\ Refuse(w) /\ UNCHANGED <<compiledVars, renderer>>

Invalidate(w) ==
  /\ writer[w].at = "invalidate" /\ Drop(writer[w].t) /\ Step(w, Free)
  /\ UNCHANGED <<tables, renderer, unsettled>>

-----------------------------------------------------------------------------
\* Renders.

Move(r, next) == renderer' = [renderer EXCEPT ![r] = next]

\* The template is read and must be active; the version is the one asked for, or current (0);
\* a preview asks for no channel, and answers with one of each.
BeginRender(r, t, channel, kind, asked) ==
  /\ renderer[r].at \in {"idle", "done"} /\ rows[t] # NoRow /\ rows[t].active
  /\ Move(r, [at |-> "resolve", kind |-> kind, t |-> t, channel |-> channel, asked |-> asked,
              v |-> rows[t].current, text |-> {}, data |-> {},
              settled |-> t \notin unsettled /\ \A w \in Writer : writer[w] = Free \/ writer[w].t # t])
  /\ UNCHANGED <<tables, compiledVars, writer, unsettled>>

\* An unknown version ends the render (TS-010).
ResolveVersion(r) ==
  /\ renderer[r].at = "resolve"
  /\ LET q == renderer[r] v == IF q.asked = 0 THEN q.v ELSE q.asked IN
       IF v \in 1 .. Len(versions[q.t])
       THEN Move(r, [q EXCEPT !.at = q.kind, !.v = v])
       ELSE Move(r, Free)
  /\ UNCHANGED <<tables, compiledVars, writer, unsettled>>

\* A hit costs no query.
Hit(r) ==
  /\ renderer[r].at = "render"
  /\ LET q == renderer[r] k == CompiledKey(q.t, q.v, q.channel) IN
       /\ k \in DOMAIN compiled
       /\ Move(r, [q EXCEPT !.at = "check", !.text = compiled[k]])
  /\ UNCHANGED <<tables, compiledVars, writer, unsettled>>

\* A miss reads the channel, compiles it and stores it; a version without it ends (TS-009).
Miss(r) ==
  /\ renderer[r].at = "render"
  /\ LET q == renderer[r] IN
       /\ CompiledKey(q.t, q.v, q.channel) \notin DOMAIN compiled
       /\ Move(r, [q EXCEPT !.at = "load"])
  /\ UNCHANGED <<tables, compiledVars, writer, unsettled>>

Compile(r) ==
  /\ renderer[r].at = "load"
  /\ LET q == renderer[r] content == versions[q.t][q.v] IN
       IF q.channel \in DOMAIN content
       THEN /\ SetCache(Put(CacheState, CompiledKey(q.t, q.v, q.channel), content[q.channel]))
            /\ Move(r, [q EXCEPT !.at = "check", !.text = content[q.channel]])
       ELSE Move(r, Free) /\ UNCHANGED compiledVars
  /\ UNCHANGED <<tables, writer, unsettled>>

\* Every variable row of the template must be in the data, whatever version is rendered.
Complete(t, data) == variables[t] \subseteq data

ValidateRequiredVariables(r, data) ==
  /\ renderer[r].at = "check"
  /\ LET q == renderer[r] IN
       IF Complete(q.t, data) THEN Move(r, [q EXCEPT !.at = "done", !.data = data]) ELSE Move(r, Free)
  /\ UNCHANGED <<tables, compiledVars, writer, unsettled>>

\* A preview renders every channel of a version and validates nothing.
Preview(r) ==
  /\ renderer[r].at = "preview"
  /\ LET q == renderer[r] s == Fill(CacheState, q.t, q.v) content == versions[q.t][q.v] IN
       /\ SetCache(s)
       /\ \E ch \in DOMAIN content :
            Move(r, [q EXCEPT !.at = "done", !.channel = ch, !.data = Variable,
                      !.text = IF CompiledKey(q.t, q.v, ch) \in DOMAIN compiled THEN compiled[CompiledKey(q.t, q.v, ch)] ELSE content[ch]])
  /\ UNCHANGED <<tables, writer, unsettled>>

\* The time is compared with renderTimeoutMs after every step (TS-012).
TimesOut(r) ==
  /\ renderer[r].at \in {"resolve", "render", "load", "check"} /\ Move(r, Free)
  /\ UNCHANGED <<tables, compiledVars, writer, unsettled>>

\* A start compiles the current versions of the active templates.
WarmUp ==
  LET active == SetToSeq({t \in Template : rows[t].active})
      warm[n \in 0 .. Len(active)] ==
        IF n = 0 THEN [c |-> Empty, order |-> <<>>] ELSE Fill(warm[n - 1], active[n], rows[active[n]].current)
  IN warm[Len(active)]

Restart ==
  /\ SetCache(WarmUp)
  /\ writer' = [w \in Writer |-> Free] /\ renderer' = [r \in Renderer |-> Free]
  /\ UNCHANGED <<tables, unsettled>>

StoreNext ==
  \/ \E w \in Writer, t \in Template :
       \/ BeginCreate(w, t)
       \/ \E op \in {"update", "delete", "rollback"} : BeginWrite(w, t, op)
  \/ \E w \in Writer :
       \/ Commit(w) \/ Delete(w) \/ Abandon(w) \/ Invalidate(w)
       \/ \E content \in Content : Create(w, content) \/ Number(w, content)
       \/ \E n \in 1 .. MaxVersions : Rollback(w, n)
  \/ \E r \in Renderer, t \in Template, kind \in {"render", "preview"}, asked \in 0 .. 1, ch \in Channel : BeginRender(r, t, ch, kind, asked)
  \/ \E r \in Renderer :
       \/ ResolveVersion(r) \/ Hit(r) \/ Miss(r) \/ Compile(r) \/ Preview(r) \/ TimesOut(r)
       \/ \E data \in SUBSET Variable : ValidateRequiredVariables(r, data)
  \/ Restart

StoreSpec == StoreInit /\ [][StoreNext]_storeVars

-----------------------------------------------------------------------------

\* Cache and insertion order name the same keys: otherwise the cache shrinks or grows.
OrderIsCache == ToSet(insertionOrder) = DOMAIN compiled /\ IsInjective(insertionOrder)

\* A text comes from the version and channel the answer names, whatever updates,
\* rollbacks, invalidations, evictions and restarts happened while it was rendered.
RenderedAsNamed ==
  \A r \in Renderer : renderer[r].at = "done" =>
    LET q == renderer[r] IN q.channel \in DOMAIN versions[q.t][q.v] /\ q.text = versions[q.t][q.v][q.channel]

\* A template neither rolled back nor written by overlapping requests has the variables
\* of its current version.
VariablesAreCurrent ==
  \A t \in Template \ unsettled : rows[t] # NoRow => variables[t] = Uses(versions[t][rows[t].current])

\* A render of the current version is given every variable its text uses, if the template
\* was settled when it started and is settled since.
RenderIsComplete ==
  \A r \in Renderer : renderer[r].at = "done" =>
    LET q == renderer[r] IN
      (q.asked = 0 /\ q.settled /\ q.t \notin unsettled /\ q.v = Len(versions[q.t])) => q.text \subseteq q.data

\* The compile cache names its texts once each; a rendered text is the one of the version and channel its answer
\* names; a settled template's variables are those of its current version, and a render of it has them all.
StoreConsistent == StoreTypes /\ OrderIsCache /\ RenderedAsNamed /\ VariablesAreCurrent /\ RenderIsComplete

\* A deleted template comes back only by a request that had read it before the delete.
DeletedStaysDeleted ==
  \A t \in Template :
    (rows[t] # NoRow /\ ~rows[t].active /\ rows'[t].active) =>
      \E w \in Writer : writer[w] # writer'[w] /\ writer[w].at \in {"commit", "rollback"} /\ writer[w].read.active
=============================================================================
