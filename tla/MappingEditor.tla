--------------------------- MODULE MappingEditor ---------------------------
(***************************************************************************)
(* The console's form for event mappings and its test panel: rows of       *)
(* source, target and transform, the record of fields the ingestion        *)
(* service stores of them, and what becomes of an event under that record. *)
(* All mappings here are of one source system and event type.              *)
(***************************************************************************)
EXTENDS PayloadValues, Naturals, Sequences, FiniteSetsExt, SequencesExt

CONSTANTS
  Mapping,       \* identifiers of mappings
  Path,          \* paths into the payload
  Target,        \* fields of the event
  TRANSFORM,     \* transforms that are tried
  None,          \* undefined: left out of a request
  MaxRows,       \* bound: rows of a form
  MaxEdits,      \* bound: edits
  MaxForms       \* bound: forms opened

VARIABLES
  mappings,      \* the mappings of the ingestion service
  form,          \* the open form, or Closed
  opened,        \* forms opened so far
  edits,         \* edits made so far
  saved,         \* history: the rows of the last save of each mapping
  verdict        \* the answer of the test panel

vars == <<mappings, form, opened, edits, saved, verdict>>

\* Transforms the console offers but the ingestion service does not have, and those it has and the console not.
Unregistered == {"toBoolean", "toDate", "uppercase", "lowercase", "trim", "split", "join"}
Unlisted == {"prefix", "direct", "dateFormat", "concatenate"}

EmptyRow == [source |-> "", target |-> "", transform |-> "none", required |-> FALSE, default |-> FALSE]
Closed == [pc |-> "closed"]
Missing == [made |-> FALSE, active |-> FALSE]
Field(row) ==
  [source |-> row.source, target |-> None, transform |-> IF row.transform = "none" THEN None ELSE row.transform,
   required |-> row.required, default |-> row.default, defaultValue |-> FALSE, options |-> FALSE]

\* A field per target: a later row of the same target replaces an earlier one. A default goes
\* out as "default", options and lists of sources not at all.
FieldMappingsToApi(rows) ==
  FoldLeft(LAMBDA acc, row : [k \in DOMAIN acc \cup {row.target} |-> IF k = row.target THEN Field(row) ELSE acc[k]],
           <<>>, rows)

Row(key, f) ==
  [source |-> f.source, target |-> IF f.target = None THEN key ELSE f.target,
   transform |-> IF f.transform = None THEN "none" ELSE f.transform, required |-> f.required, default |-> f.default]

\* Mutant: the switch of a required field comes back off.
FieldMappingsFromApi_Optional(fields) ==
  LET keys == SetToSeq(DOMAIN fields) IN [i \in DOMAIN keys |-> [Row(keys[i], fields[keys[i]]) EXCEPT !.required = FALSE]]
FieldMappingsFromApi(fields) ==
  LET keys == SetToSeq(DOMAIN fields) IN [i \in DOMAIN keys |-> Row(keys[i], fields[keys[i]])]

\* createMappingSchema: a list of sources, or a transform the console does not offer, keeps the
\* form from being sent, and only marks the row.
Valid(f) ==
  \A i \in DOMAIN f.rows : f.rows[i].source \notin {"", "list"} /\ f.rows[i].target # "" /\ f.rows[i].transform \notin Unlisted

Init ==
  /\ mappings = [m \in Mapping |-> Missing]
  /\ form = Closed /\ opened = 0 /\ edits = 0
  /\ saved = [m \in Mapping |-> None]
  /\ verdict = None

Made == {m \in Mapping : mappings[m].made}

Open(f) ==
  /\ form = Closed /\ opened < MaxForms
  /\ form' = f /\ opened' = opened + 1 /\ verdict' = None
  /\ UNCHANGED <<mappings, edits, saved>>
OpenNew == Open([pc |-> "open", id |-> None, rows |-> <<EmptyRow>>, timestampField |-> FALSE, isActive |-> TRUE, touched |-> FALSE])
\* The page fetches one mapping by its identifier, a deactivated one as well.
OpenEdit(m) ==
  /\ m \in Made
  /\ Open([pc |-> "open", id |-> m, rows |-> FieldMappingsFromApi(mappings[m].fields), isActive |-> mappings[m].active,
           timestampField |-> mappings[m].timestampField, touched |-> FALSE])

\* The buttons back to the list.
Leave == form # Closed /\ form' = Closed /\ verdict' = None /\ UNCHANGED <<mappings, opened, edits, saved>>

Edit(f) ==
  /\ edits < MaxEdits
  /\ form' = [f EXCEPT !.touched = TRUE] /\ edits' = edits + 1
  /\ UNCHANGED <<mappings, opened, saved, verdict>>

AddField == form # Closed /\ Len(form.rows) < MaxRows /\ Edit([form EXCEPT !.rows = Append(@, EmptyRow)])
EditField(i) ==
  /\ form # Closed /\ i \in DOMAIN form.rows
  /\ \/ \E p \in Path : Edit([form EXCEPT !.rows[i].source = p])
     \/ \E t \in Target : Edit([form EXCEPT !.rows[i].target = t])
     \/ \E t \in TRANSFORM \ Unlisted : Edit([form EXCEPT !.rows[i].transform = t])
     \/ Edit([form EXCEPT !.rows[i].required = ~@])
     \/ Edit([form EXCEPT !.rows[i].default = ~@])
\* The last row has its button disabled.
RemoveField(i) ==
  /\ form # Closed /\ i \in DOMAIN form.rows /\ Len(form.rows) > 1
  /\ Edit([form EXCEPT !.rows = RemoveAt(@, i)])
EditTimestamp == form # Closed /\ Edit([form EXCEPT !.timestampField = ~@])
\* Shown for a mapping that is edited, and in no request.
ToggleActive == form # Closed /\ form.id # None /\ Edit([form EXCEPT !.isActive = ~@])

ExistsActiveMapping == \E m \in Mapping : mappings[m].active

\* A text field that was cleared is left out, and the stored one stays.
Create(m) ==
  /\ form # Closed /\ form.id = None /\ Valid(form)
  /\ m \notin Made /\ ~ExistsActiveMapping
  /\ mappings' = [mappings EXCEPT ![m] =
       [made |-> TRUE, active |-> TRUE, fields |-> FieldMappingsToApi(form.rows), timestampField |-> form.timestampField,
        validationSchema |-> FALSE]]
  /\ saved' = [saved EXCEPT ![m] = form.rows]
  /\ form' = Closed /\ verdict' = None /\ UNCHANGED <<opened, edits>>
\* EIS-009: a message, and the form stays.
CreateRefused ==
  /\ form # Closed /\ form.id = None /\ Valid(form) /\ ExistsActiveMapping
  /\ verdict' = [id |-> None, passed |-> FALSE] /\ UNCHANGED <<mappings, form, opened, edits, saved>>
Update ==
  /\ form # Closed /\ form.id # None /\ Valid(form)
  /\ mappings' = [mappings EXCEPT ![form.id].fields = FieldMappingsToApi(form.rows),
                                  ![form.id].timestampField = @ \/ form.timestampField]
  /\ saved' = [saved EXCEPT ![form.id] = form.rows]
  /\ form' = Closed /\ verdict' = None /\ UNCHANGED <<opened, edits>>

\* Another client of the service, whose mappings may use all it knows.
CreateByApi(m, fields, schema) ==
  /\ form = Closed /\ m \notin Made /\ ~ExistsActiveMapping
  /\ mappings' = [mappings EXCEPT ![m] = [made |-> TRUE, active |-> TRUE, fields |-> fields, timestampField |-> FALSE,
                                          validationSchema |-> schema]]
  /\ UNCHANGED <<form, opened, edits, saved, verdict>>
\* The list's delete, behind a question.
Delete(m) ==
  /\ form = Closed /\ m \in Made /\ mappings[m].active
  /\ mappings' = [mappings EXCEPT ![m].active = FALSE]
  /\ UNCHANGED <<form, opened, edits, saved, verdict>>

\* What a field makes of a payload: its value, "error", or "skipped" for a transform that is not known.
Result(f, payload) ==
  LET source == IF f.source = "list" THEN "array" ELSE payload[f.source]
      value == IF source \in NoValue /\ f.defaultValue THEN "parsable" ELSE source
  IN CASE f.transform = None -> value
       [] f.transform \in Unregistered -> "skipped"
       [] f.transform = "template" /\ ~f.options -> "error"
       [] OTHER -> CHOOSE v \in Applied(f.transform, value) : TRUE
MissingRequiredFields(fields, payload) ==
  {k \in DOMAIN fields : fields[k].required /\ Result(fields[k], payload) \in NoValue \cup {"error"}}

\* What becomes of an event: a schema of the mapping may refuse it first (EIS-005).
Accepts(m, payload, matchesSchema) ==
  /\ mappings[m].validationSchema => matchesSchema
  /\ MissingRequiredFields(mappings[m].fields, payload) = {}

\* The panel looks at the fields that are missing; warnings, one of the schema included, do not fail a test.
Passed(missing) == missing = {}

\* The test panel of a mapping that is edited sends the stored mapping, not the rows of the form.
TestMapping(payload) ==
  /\ form # Closed /\ form.id # None
  /\ LET missing == MissingRequiredFields(mappings[form.id].fields, payload)
     IN verdict' = [id |-> form.id, payload |-> payload, passed |-> Passed(missing)]
  /\ UNCHANGED <<mappings, form, opened, edits, saved>>

Payload == [Path -> {"null", "parsable", "text"}]
\* Fields of another client: any transform of the service, with its options and default.
ApiFields ==
  {[k \in {target} |-> [source |-> p, target |-> None, transform |-> t, required |-> r, default |-> FALSE, defaultValue |-> d,
                        options |-> t \in {"template", "prefix"}]] :
     target \in Target, p \in Path, t \in {None, "prefix", "template", "toNumber"}, r \in BOOLEAN, d \in BOOLEAN}
   \cup {[k \in {target} |-> [source |-> "list", target |-> None, transform |-> "concatenate", required |-> FALSE, default |-> FALSE,
                              defaultValue |-> FALSE, options |-> FALSE]] : target \in Target}

Next ==
  \/ OpenNew \/ Leave \/ AddField \/ EditTimestamp \/ ToggleActive \/ CreateRefused \/ Update
  \/ \E i \in 1..MaxRows : EditField(i) \/ RemoveField(i)
  \/ \E m \in Mapping :
       \/ OpenEdit(m) \/ Create(m) \/ Delete(m)
       \/ \E fields \in ApiFields, schema \in BOOLEAN : CreateByApi(m, fields, schema)
  \/ \E payload \in Payload : TestMapping(payload)

-----------------------------------------------------------------------------

\* Transforms that make a value of nothing.
Inventive == {"toString", "template"}
LastOf(rows, t) == Max({i \in DOMAIN rows : rows[i].target = t})

\* fieldMappingsToApi, mapping-engine.service.ts: an event without the source of a required row
\* is refused, but for rows the engine skips or fills, and rows that lost their target to a later one;
\* a default of the console saves no event.
RequiredRowsCaught ==
  \A m \in Mapping, payload \in Payload : saved[m] # None /\ Accepts(m, payload, TRUE) =>
    \A i \in DOMAIN saved[m] :
      LET row == saved[m][i] IN
        row.required /\ i = LastOf(saved[m], row.target) /\ row.transform \notin Unregistered \cup Inventive
          => row.source # "" /\ (payload[row.source] \notin NoValue \/ row.transform = "toNumber")

\* mapping-test-panel.tsx: an event that passed the test is accepted under that mapping, unless
\* it breaks a schema, of which the test only warns.
TestTellsTruth ==
  verdict # None /\ verdict.passed => Accepts(verdict.id, verdict.payload, TRUE)

\* mapping-schemas.ts: saving a form nobody touched keeps a mapping the console made as it is; of
\* another client's it drops defaults and options.
UnchangedSaveKeeps ==
  \A m \in Mapping :
    form # Closed /\ form.id = m /\ ~form.touched /\ form' = Closed /\ saved[m] # None => mappings'[m] = mappings[m]
=============================================================================
