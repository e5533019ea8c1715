------------------------------ MODULE RuleEditor ------------------------------
(***************************************************************************)
(* The console's form for notification rules, from the rows a user edits   *)
(* to the rule the engine stores and evaluates.  The form holds conditions *)
(* as rows of text; saving turns them into the engine's JSON, opening a    *)
(* rule turns that back into rows.  One user, rules of one event type.     *)
(*                                                                         *)
(* Names, descriptions, delays and the layout of the form are left out;    *)
(* what is shown after a save is the matter of ConsoleCache.               *)
(***************************************************************************)
EXTENDS PayloadValues, FiniteSets, SequencesExt

CONSTANTS
  Rule,          \* identifiers of rules
  Field,         \* fields of the payload
  OPERATORS,     \* operators of the rows that are tried
  Text,          \* texts of the rows: lists of words
  None,          \* undefined: left out of a request
  MaxRows,       \* bound: rows and actions of a form
  MaxEdits,      \* bound: edits, but for empty rows
  MaxSaves       \* bound: forms opened

VARIABLES
  rules,         \* the engine's rules
  form,          \* the open form, or Closed
  opened,        \* forms opened so far
  edits,         \* edits made so far
  saved,         \* history: the rows of the form at the last save of each rule
  updated,       \* history: rules that were changed after their creation
  refused        \* history: why the engine refused the last request

vars == <<rules, form, opened, edits, saved, updated, refused>>

CHANNEL_OPTIONS == {"email", "sms"}
RECIPIENT_TYPES == {"customer", "group", "custom"}
OPERATOR_MAP ==
  ("equals" :> "$eq") @@ ("notEquals" :> "$ne") @@ ("contains" :> "$contains") @@ ("gt" :> "$gt") @@ ("lt" :> "$lt")
    @@ ("gte" :> "$gte") @@ ("lte" :> "$lte") @@ ("in" :> "$in") @@ ("notIn" :> "$nin") @@ ("exists" :> "$exists")
    @@ ("regex" :> "$regex")
NumberOf == ("1" :> 1) @@ ("2" :> 2)
Numeric(text) == Len(text) = 1 /\ text[1] \in DOMAIN NumberOf

\* Mutant: numbers stay text.
ParseValue_Text(text, operator) ==
  CASE operator = "exists" -> Bool(text = <<"true">>)
    [] operator \in {"in", "notIn"} -> Arr([i \in DOMAIN text |-> Str(<<text[i]>>)])
    [] OTHER -> Str(text)

\* A list's members stay text.
ParseValue(text, operator) ==
  CASE operator = "exists" -> Bool(text = <<"true">>)
    [] operator \in {"in", "notIn"} -> Arr([i \in DOMAIN text |-> Str(<<text[i]>>)])
    [] OTHER -> IF Numeric(text) THEN Num(NumberOf[text[1]]) ELSE Str(text)

\* A record per field: a later row of the same field replaces an earlier one.
ConditionsToApi(rows) ==
  IF rows = <<>> THEN None
  ELSE FoldLeft(LAMBDA acc, row :
                  {c \in acc : c.field # row.field}
                    \cup {[field |-> row.field, operator |-> OPERATOR_MAP[row.operator],
                           operand |-> ParseValue(row.text, row.operator)]},
                {}, rows)

Listed(operand) ==
  IF IsArray(operand) THEN FoldLeft(LAMBDA acc, x : acc \o TextOf(x), <<>>, operand.array) ELSE TextOf(operand)

\* A row per operator; a plain value without operator has no row, an unknown one is "equals".
ConditionsFromApi(conditions) ==
  LET Names(o) == {n \in DOMAIN OPERATOR_MAP : OPERATOR_MAP[n] = o}
      Name(o) == IF Names(o) = {} THEN "equals" ELSE CHOOSE n \in Names(o) : TRUE
      kept == SetToSeq({c \in conditions : c.operator # "plain"})
  IN [i \in DOMAIN kept |-> [field |-> kept[i].field, operator |-> Name(kept[i].operator), text |-> Listed(kept[i].operand)]]

\* The engine reads "modes" and "dedupKey" of a suppression; the console writes neither.
SuppressionToApi(enabled, data) == IF ~enabled \/ data = {} THEN None ELSE data
SuppressionFromApi(suppression) ==
  [enabled |-> suppression # {}, data |-> suppression \cap {"windowMinutes", "maxCount", "key"}]

EmptyAction == [channels |-> {"email"}, recipientType |-> "customer", group |-> FALSE, custom |-> FALSE]
Closed == [pc |-> "closed"]

\* The default values of a new form and of one that edits a rule.
NewForm ==
  [pc |-> "open", id |-> None, rows |-> <<>>, actions |-> <<EmptyAction>>, deliveryPriority |-> None,
   suppression |-> [enabled |-> FALSE, data |-> {}], touched |-> FALSE]
EditForm(r) ==
  [pc |-> "open", id |-> r, rows |-> ConditionsFromApi(rules[r].conditions), actions |-> rules[r].actions,
   deliveryPriority |-> rules[r].deliveryPriority, suppression |-> SuppressionFromApi(rules[r].suppression), touched |-> FALSE]

Absent == [active |-> FALSE, made |-> FALSE]
Made == {r \in Rule : rules[r].made}

Init ==
  /\ rules = [r \in Rule |-> Absent]
  /\ form = Closed /\ opened = 0 /\ edits = 0
  /\ saved = [r \in Rule |-> None]
  /\ updated = {}
  /\ refused = None

Open(f) ==
  /\ form = Closed /\ opened < MaxSaves
  /\ form' = f /\ opened' = opened + 1 /\ refused' = None
  /\ UNCHANGED <<rules, edits, saved, updated>>
OpenNew == Open(NewForm)
OpenEdit(r) == r \in Made /\ Open(EditForm(r))

\* The cancel and back buttons.
Leave == form # Closed /\ form' = Closed /\ UNCHANGED <<rules, opened, edits, saved, updated, refused>>

Edit(f) ==
  /\ form # Closed /\ edits < MaxEdits
  /\ form' = [f EXCEPT !.touched = TRUE] /\ edits' = edits + 1
  /\ UNCHANGED <<rules, opened, saved, updated, refused>>

AddCondition ==
  /\ form # Closed /\ Len(form.rows) < MaxRows
  /\ form' = [form EXCEPT !.rows = Append(@, [field |-> "", operator |-> "equals", text |-> <<>>])]
  /\ UNCHANGED <<rules, opened, edits, saved, updated, refused>>
EditCondition(i, field, operator, text) ==
  /\ form # Closed /\ i \in DOMAIN form.rows
  /\ Edit([form EXCEPT !.rows[i] = [field |-> field, operator |-> operator, text |-> text]])
RemoveCondition(i) == form # Closed /\ i \in DOMAIN form.rows /\ Edit([form EXCEPT !.rows = RemoveAt(@, i)])

AddAction == form # Closed /\ Len(form.actions) < MaxRows /\ Edit([form EXCEPT !.actions = Append(@, EmptyAction)])
\* The last action has no way out.
RemoveAction(i) ==
  /\ form # Closed /\ i \in DOMAIN form.actions /\ Len(form.actions) > 1
  /\ Edit([form EXCEPT !.actions = RemoveAt(@, i)])
ChooseRecipients(i, type) == form # Closed /\ i \in DOMAIN form.actions /\ Edit([form EXCEPT !.actions[i].recipientType = type])
ToggleChannel(i, c) ==
  /\ form # Closed /\ i \in DOMAIN form.actions
  /\ Edit([form EXCEPT !.actions[i].channels = IF c \in @ THEN @ \ {c} ELSE @ \cup {c}])
NameGroup(i) == form # Closed /\ i \in DOMAIN form.actions /\ Edit([form EXCEPT !.actions[i].group = ~@])
\* Name, event type, order and exclusivity, which no property tells apart.
EditGeneral == form # Closed /\ Edit(form)
ChoosePriority(p) == form # Closed /\ Edit([form EXCEPT !.deliveryPriority = p])
ToggleSuppression == form # Closed /\ Edit([form EXCEPT !.suppression.enabled = ~@])
EditSuppression(data) == form # Closed /\ form.suppression.enabled /\ Edit([form EXCEPT !.suppression.data = data])

\* createRuleSchema: a row has a field and a value, an action a channel; a group or a
\* recipient of one is not asked for.
Valid(f) ==
  /\ \A i \in DOMAIN f.rows : f.rows[i].field # "" /\ f.rows[i].text # <<>>
  /\ f.actions # <<>> /\ \A i \in DOMAIN f.actions : f.actions[i].channels # {}

\* What the page sends: of an action, everything but its custom recipients.
Dto(f) ==
  [conditions |-> ConditionsToApi(f.rows), actions |-> [i \in DOMAIN f.actions |-> [f.actions[i] EXCEPT !.custom = FALSE]],
   deliveryPriority |-> f.deliveryPriority, suppression |-> SuppressionToApi(f.suppression.enabled, f.suppression.data)]
WellFormed(dto) == dto.actions # <<>> /\ \A i \in DOMAIN dto.actions : dto.actions[i].channels # {}

OrNull(x) == IF x = None THEN {} ELSE x

ExistsActiveDuplicate(conditions) == \E r \in Rule : rules[r].active /\ rules[r].conditions = OrNull(conditions)

\* create: a rule of the same event type and conditions is refused.
Create(r, dto) ==
  /\ WellFormed(dto) /\ ~ExistsActiveDuplicate(dto.conditions)
  /\ rules' = [rules EXCEPT ![r] =
       [active |-> TRUE, made |-> TRUE, conditions |-> OrNull(dto.conditions), actions |-> dto.actions,
        deliveryPriority |-> dto.deliveryPriority, suppression |-> OrNull(dto.suppression)]]
CreateRefused(dto) == ~WellFormed(dto) \/ ExistsActiveDuplicate(dto.conditions)

\* update: what the request leaves out stays.
Update(r, dto) ==
  /\ WellFormed(dto)
  /\ rules' = [rules EXCEPT ![r].actions = dto.actions,
                            ![r].conditions = IF dto.conditions = None THEN @ ELSE dto.conditions,
                            ![r].suppression = IF dto.suppression = None THEN @ ELSE dto.suppression,
                            ![r].deliveryPriority = IF dto.deliveryPriority = None THEN @ ELSE dto.deliveryPriority]

Unused == Rule \ Made
SubmitNew ==
  /\ form # Closed /\ form.id = None /\ Valid(form)
  /\ \/ \E r \in Unused : /\ Create(r, Dto(form))
                          /\ saved' = [saved EXCEPT ![r] = form.rows] /\ form' = Closed /\ refused' = None
     \/ /\ CreateRefused(Dto(form)) /\ form' = form /\ UNCHANGED <<rules, saved>>
        /\ refused' = IF WellFormed(Dto(form)) THEN "duplicate" ELSE "malformed"
  /\ UNCHANGED <<opened, edits, updated>>
SubmitEdit ==
  /\ form # Closed /\ form.id # None /\ Valid(form)
  /\ IF WellFormed(Dto(form))
     THEN /\ Update(form.id, Dto(form)) /\ saved' = [saved EXCEPT ![form.id] = form.rows] /\ form' = Closed /\ refused' = None
          /\ updated' = updated \cup {form.id}
     ELSE form' = form /\ refused' = "malformed" /\ UNCHANGED <<rules, saved, updated>>
  /\ UNCHANGED <<opened, edits>>

\* The list's "Duplicate": all that makes a rule, under another name.
Duplicate(r) ==
  /\ form = Closed /\ r \in Made
  /\ LET dto == [conditions |-> IF rules[r].conditions = {} THEN None ELSE rules[r].conditions, actions |-> rules[r].actions,
                 deliveryPriority |-> rules[r].deliveryPriority,
                 suppression |-> IF rules[r].suppression = {} THEN None ELSE rules[r].suppression]
     IN \/ \E new \in Unused : Create(new, dto) /\ refused' = None
        \/ CreateRefused(dto) /\ rules' = rules /\ refused' = "duplicate"
  /\ UNCHANGED <<form, opened, edits, saved, updated>>

\* The list's "Delete".
Delete(r) ==
  /\ form = Closed /\ rules[r].active
  /\ rules' = [rules EXCEPT ![r].active = FALSE]
  /\ UNCHANGED <<form, opened, edits, saved, updated, refused>>

\* A rule of the engine's other clients: several operators of a field, plain values, custom recipients.
ApiRules ==
  [active : {TRUE}, made : {TRUE},
   conditions : {{[field |-> "f", operator |-> "plain", operand |-> Str(<<"w">>)], [field |-> "g", operator |-> "$gt", operand |-> Num(1)]},
                 {[field |-> "f", operator |-> "$gt", operand |-> Num(1)], [field |-> "f", operator |-> "$lt", operand |-> Num(2)]}},
   actions : {<<[EmptyAction EXCEPT !.recipientType = "custom", !.custom = TRUE]>>}, deliveryPriority : {None, "critical"},
   suppression : {{}, {"modes", "dedupKey"}}]
CreateByApi ==
  /\ form = Closed /\ opened = 0 /\ Made = {}
  /\ \E r \in Rule, new \in ApiRules : rules' = [rules EXCEPT ![r] = new]
  /\ UNCHANGED <<form, opened, edits, saved, updated, refused>>

Next ==
  \/ OpenNew \/ Leave \/ AddCondition \/ AddAction \/ EditGeneral \/ ToggleSuppression \/ SubmitNew \/ SubmitEdit \/ CreateByApi
  \/ \E r \in Rule : OpenEdit(r) \/ Duplicate(r) \/ Delete(r)
  \/ \E i \in 1 .. MaxRows :
       \/ RemoveCondition(i) \/ RemoveAction(i) \/ NameGroup(i)
       \/ \E f \in Field, o \in OPERATORS, t \in Text : EditCondition(i, f, o, t)
       \/ \E c \in CHANNEL_OPTIONS : ToggleChannel(i, c)
       \/ \E type \in RECIPIENT_TYPES : ChooseRecipients(i, type)
  \/ \E p \in {None, "critical"} : ChoosePriority(p)
  \/ \E data \in {{"windowMinutes"}, {"windowMinutes", "maxCount", "key"}} : EditSuppression(data)

-----------------------------------------------------------------------------

Values == {Undefined, Num(1), Num(2), Str(<<"1">>), Str(<<"w">>)}
Payloads == [Field -> Values]

\* What a row says of a value: the words of the form, by the text of the value.
Says(row, v) ==
  CASE row.operator = "equals" -> v # Undefined /\ TextOf(v) = row.text
    [] row.operator = "notEquals" -> v = Undefined \/ TextOf(v) # row.text
    [] row.operator = "in" -> v # Undefined /\ \E i \in DOMAIN row.text : TextOf(v) = <<row.text[i]>>
    [] row.operator = "notIn" -> v = Undefined \/ \A i \in DOMAIN row.text : TextOf(v) # <<row.text[i]>>
    [] row.operator = "gt" -> IsNumber(v) /\ Numeric(row.text) /\ v.number > NumberOf[row.text[1]]
    [] row.operator = "gte" -> IsNumber(v) /\ Numeric(row.text) /\ v.number >= NumberOf[row.text[1]]
    [] row.operator = "lt" -> IsNumber(v) /\ Numeric(row.text) /\ v.number < NumberOf[row.text[1]]
    [] row.operator = "lte" -> IsNumber(v) /\ Numeric(row.text) /\ v.number <= NumberOf[row.text[1]]
    [] row.operator = "exists" -> (v # Undefined) = (row.text = <<"true">>)
    [] OTHER -> FALSE

\* Values of the type the text stands for: lists are of text, numeric text is a number.
Typed(row, v) == IsNumber(v) => Numeric(row.text) /\ row.operator \notin {"in", "notIn"}
TypedText(row, v) == IsText(v) => ~Numeric(row.text) \/ row.operator \in {"in", "notIn", "gt", "gte", "lt", "lte", "exists"}

OneRowPerField(rows) == \A i, j \in DOMAIN rows : rows[i].field = rows[j].field => i = j
Saved(r) == saved[r] # None /\ saved[r] # <<>> /\ OneRowPerField(saved[r])

\* A rule saved with one row for each field matches exactly the payloads of which every row
\* says the truth, as far as their values have the types the texts stand for.
RowsAreMeant ==
  \A r \in Rule : Saved(r) =>
    \A p \in Payloads :
      LET rows == saved[r]
      IN (\A i \in DOMAIN rows : Typed(rows[i], p[rows[i].field]) /\ TypedText(rows[i], p[rows[i].field])) =>
           (EvaluateConditions(rules[r].conditions, p) <=> \A i \in DOMAIN rows : Says(rows[i], p[rows[i].field]))

\* Opening a rule that was saved here, with conditions, and saving it as it is changes nothing.
UnchangedSaveKeeps ==
  form # Closed /\ form.id # None /\ ~form.touched /\ saved[form.id] # None /\ saved[form.id] # <<>> => rules' = rules

\* What the form lets through is refused for its conditions only, when an active rule has them already.
RefusedAsDuplicate == refused # "malformed"

\* Two active rules with the same conditions are the work of an update, which does not look.
AlikeByUpdate ==
  \A r, s \in Rule : r # s /\ rules[r].active /\ rules[s].active /\ rules[r].conditions = rules[s].conditions =>
    updated \cap {r, s} # {}

Spec == Init /\ [][Next]_vars
=============================================================================
