---------------------------- MODULE PayloadValues ----------------------------
(***************************************************************************)
(* The services' functions on values of a payload, which the consoles'     *)
(* forms are made for: the operators of a notification rule's conditions,  *)
(* and the transforms that the field mappings of the event ingestion name. *)
(***************************************************************************)
EXTENDS Naturals, Sequences, TLC

-----------------------------------------------------------------------------
(***************************************************************************)
(* Conditions.  A JSON value is a record named for its type; the text of a *)
(* string is a sequence of words, as a list in the console is.             *)
(***************************************************************************)

Undefined == [undefined |-> TRUE]
Num(n) == [number |-> n]
Str(t) == [text |-> t]
Bool(b) == [bool |-> b]
Arr(s) == [array |-> s]

IsNumber(v) == "number" \in DOMAIN v
IsText(v) == "text" \in DOMAIN v
IsArray(v) == "array" \in DOMAIN v
Numbers(v, operand) == IsNumber(v) /\ IsNumber(operand)

\* String(value) and the join of a list.
TextOf(v) ==
  CASE IsNumber(v) -> <<ToString(v.number)>>
    [] IsText(v) -> v.text
    [] OTHER -> <<IF v.bool THEN "true" ELSE "false">>

\* ===: arrays are never the same object.
Same(v, operand) == ~IsArray(operand) /\ v = operand
Included(v, operand) == \E i \in DOMAIN operand.array : operand.array[i] = v
Truthy(operand) ==
  CASE IsNumber(operand) -> operand.number # 0
    [] IsText(operand) -> operand.text # <<>>
    [] IsArray(operand) -> TRUE
    [] OTHER -> operand.bool

\* A regular expression is its text; an operator the engine does not know never holds.
EvaluateOperator(operator, v, operand) ==
  CASE operator = "$eq" -> Same(v, operand)
    [] operator = "$ne" -> ~Same(v, operand)
    [] operator = "$in" -> IsArray(operand) /\ Included(v, operand)
    [] operator = "$nin" -> IsArray(operand) /\ ~Included(v, operand)
    [] operator = "$gt" -> Numbers(v, operand) /\ v.number > operand.number
    [] operator = "$gte" -> Numbers(v, operand) /\ v.number >= operand.number
    [] operator = "$lt" -> Numbers(v, operand) /\ v.number < operand.number
    [] operator = "$lte" -> Numbers(v, operand) /\ v.number <= operand.number
    [] operator = "$exists" -> Truthy(operand) = (v # Undefined)
    [] operator = "$regex" -> IsText(v) /\ v.text = TextOf(operand)
    [] OTHER -> FALSE

\* evaluateConditions: every operator of every field; no condition matches everything.
EvaluateConditions(conditions, payload) ==
  \A c \in conditions : EvaluateOperator(c.operator, payload[c.field], c.operand)

-----------------------------------------------------------------------------
(***************************************************************************)
(* Transforms, on kinds of values.                                         *)
(***************************************************************************)

\* What a value is to the transforms: undefined, null, text that is a date or a number, or is not.
Value == {"undefined", "null", "parsable", "text", "array"}
NoValue == {"undefined", "null"}

\* The values a transform may return, "error" for an exception. Texts are made of whatever comes,
\* a missing date is today, and the number of null is zero.
Applied(transform, v) ==
  CASE transform \in {"direct", "map"} -> {v}
    [] transform \in {"prefix", "suffix", "toString", "template", "static"} -> {"text"}
    [] transform = "jsonPath" -> {"array"}
    [] transform = "concatenate" -> {IF v = "array" THEN "text" ELSE "error"}
    [] transform = "arrayMap" -> {IF v = "array" THEN "array" ELSE "error"}
    [] transform = "dateFormat" -> {IF v \in {"undefined", "parsable"} THEN "parsable" ELSE "error"}
    [] transform = "epochToIso" -> IF v = "parsable" THEN {"parsable"}
                                   ELSE IF v \in NoValue THEN {"parsable", "error"} ELSE {"error"}
    [] transform = "toNumber" -> {IF v \in {"null", "parsable"} THEN "parsable" ELSE "error"}
=============================================================================
