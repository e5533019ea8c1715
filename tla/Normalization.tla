--------------------------- MODULE Normalization ---------------------------
\* The normalization of an event's payload by the field mappings of its configuration: fields one
\* by one, each read, defaulted, transformed, stored under its target and checked if required.
EXTENDS MappingCache, PayloadValues

CONSTANTS
  Fields,              \* bound: fields of a mapping
  Target,              \* target keys
  Transform            \* transforms the mappings name; "unknown" is none of the registry

Registry == {"direct", "map", "prefix", "suffix", "toString", "template", "static", "jsonPath", "concatenate", "arrayMap",
             "dateFormat", "epochToIso", "toNumber"}
ASSUME PayloadAssumption == Fields \in Nat /\ Transform \subseteq Registry \cup {"unknown"}

VARIABLES mapping, payload, at, fields, warned, missing

payloadVars == <<mapping, payload, at, fields, warned, missing>>

PayloadTypeOK ==
  /\ at \in 0..Fields + 1 /\ warned \subseteq 1..Fields /\ missing \subseteq 1..Fields
  /\ \A t \in DOMAIN fields : t \in Target /\ fields[t].value \in Value

PayloadInit == mapping = <<>> /\ payload = <<>> /\ at = 0 /\ fields = <<>> /\ warned = {} /\ missing = {}

\* A mapping and an event for it; a source may be several paths, whose values are always an array.
Begin ==
  /\ at = 0
  /\ mapping' \in [1..Fields -> [target: Target, transform: Transform, required: BOOLEAN, default: BOOLEAN]]
  /\ payload' \in [1..Fields -> Value]
  /\ at' = 1 /\ UNCHANGED <<fields, warned, missing>>

\* static reads no source and takes no default.
Source(f) ==
  LET m == mapping[f] IN
    IF m.transform = "static" THEN "null"
    ELSE IF payload[f] \in NoValue /\ m.default THEN "parsable" ELSE payload[f]

\* A failing transform warns, and leaves a required field missing; others never hear of it.
NormalizeField ==
  /\ at \in 1..Fields
  /\ LET m == mapping[at] IN
       /\ m.transform # "unknown"
       /\ \E v \in Applied(m.transform, Source(at)) :
            /\ fields' = IF v = "error" THEN fields ELSE [t \in DOMAIN fields \cup {m.target} |->
                                                          IF t = m.target THEN [value |-> v, by |-> at] ELSE fields[t]]
            /\ warned' = IF v = "error" THEN warned \cup {at} ELSE warned
            /\ missing' = IF m.required /\ v \in NoValue \cup {"error"} THEN missing \cup {at} ELSE missing
  /\ at' = at + 1 /\ UNCHANGED <<mapping, payload>>

\* A transform the registry does not have is skipped with a warning, required or not.
SkipField ==
  /\ at \in 1..Fields /\ mapping[at].transform = "unknown"
  /\ warned' = warned \cup {at}
  /\ at' = at + 1 /\ UNCHANGED <<mapping, payload, fields, missing>>

\* The next event.
Again == at > Fields /\ at' = 0 /\ mapping' = <<>> /\ payload' = <<>> /\ fields' = <<>> /\ warned' = {} /\ missing' = {}

PayloadNext == Begin \/ NormalizeField \/ SkipField \/ Again

PayloadSpec == PayloadInit /\ [][PayloadNext]_payloadVars

\* The event is refused when required fields are missing (EIS-016).
Accepted == at > Fields /\ missing = {}

-----------------------------------------------------------------------------

\* An accepted event has a value for every required field, unless its transform is unknown or a
\* later field wrote the same target.
AcceptedIsComplete ==
  Accepted => \A f \in 1..Fields :
    mapping[f].required /\ mapping[f].transform # "unknown" =>
      /\ mapping[f].target \in DOMAIN fields
      /\ fields[mapping[f].target].by = f => fields[mapping[f].target].value \notin NoValue
      /\ fields[mapping[f].target].by >= f

\* A required field without a source is accepted only from transforms that make a value of nothing.
AcceptedHasSource ==
  Accepted => \A f \in 1..Fields :
    mapping[f].required /\ payload[f] \in NoValue /\ ~mapping[f].default =>
      mapping[f].transform \in {"unknown", "prefix", "suffix", "toString", "template", "static", "jsonPath",
                                "dateFormat", "epochToIso", "toNumber"}

\* A field that did not reach the event was warned of.
LossIsWarned ==
  at > Fields => \A f \in 1..Fields : f \in warned \/ mapping[f].target \in DOMAIN fields

\* A cached mapping is the saved one once its announcements are handled, up to the known holes, and no handler
\* puts an older one over a newer; a normalized event has a value for every required field, one without a
\* source only by a transform that makes a value of nothing, and a lost field was warned of.
NormalizedAsMapped ==
  /\ [](/\ MappingsTypeOK /\ FreshUpToHoles
        /\ PayloadTypeOK /\ AcceptedIsComplete /\ AcceptedHasSource /\ LossIsWarned)
  /\ [][HandlersOnlyRenew]_mappingVars
=============================================================================
