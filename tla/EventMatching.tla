---------------------------- MODULE EventMatching ----------------------------
(***************************************************************************)
(* One event in the engine: which rules match it, and which notifications  *)
(* their actions ask for.  It goes through rules, actions, recipients and  *)
(* channels one by one; a failure of one must not keep the others back.    *)
(* The rules are the cached ones, the channels those a resolution leaves.  *)
(* A payload has one field.                                                *)
(***************************************************************************)
EXTENDS RuleCache, ChannelResolution, PayloadValues

CONSTANTS
  Number,        \* numbers that occur
  MaxRules       \* bound: rules of the event type

ASSUME MatchAssumption == Number \subseteq Nat /\ MaxRules \in Nat

VARIABLES
  rules,         \* active rules of the event type, by priority
  value,         \* the payload's value of the field
  progress,      \* position in the loops: rule, its recipients still to do
  failed,        \* steps that failed
  asked          \* notifications asked for: rule, recipient, channel

matchVars == <<rules, value, progress, failed, asked>>

Values == {Undefined} \cup {Num(n) : n \in Number} \cup {Str(<<"x">>)}
Payload(v) == [f \in {"f"} |-> v]
Satisfies(i, v) == EvaluateConditions(rules[i].conditions, Payload(v))

\* resolveRecipients: the customer of the event; the active members of a group, whose
\* absence is an error only if the group is gone, too; or the recipients of the action.
Recipients(rule) ==
  CASE rule.recipientType = "customer" -> {"customer"}
    [] rule.recipientType = "group" -> rule.members
    [] rule.recipientType = "custom" -> rule.custom
    [] OTHER -> {}
GroupMissing(rule) == rule.recipientType = "group" /\ rule.members = {} /\ ~rule.groupActive

Rules ==
  [conditions : {{}} \cup {{[field |-> "f", operator |-> o, operand |-> x]} : o \in {"$gt", "$in"}, x \in {Num(1), Arr(<<Num(1), Str(<<"x">>)>>)}},
   exclusive : BOOLEAN, recipientType : {"customer", "group", "other"},
   members : {{}, {"m1", "m2"}}, groupActive : {FALSE}, custom : {{}}]

MatchInit ==
  /\ rules = <<>> /\ value = Undefined
  /\ progress = [pc |-> "idle"]
  /\ failed = {} /\ asked = {}

\* An event comes, with the rules cached for its type.
ReceiveEvent ==
  /\ progress.pc = "idle"
  /\ rules' \in UNION {[1 .. n -> Rules] : n \in 1 .. MaxRules}
  /\ value' \in Values
  /\ progress' = [pc |-> "match", next |-> 1, matched |-> <<>>]
  /\ UNCHANGED <<failed, asked>>

\* In the order of priority, up to the first exclusive match.
MatchFromRules ==
  /\ progress.pc = "match" /\ progress.next <= Len(rules)
  /\ LET i == progress.next
         next == IF rules[i].exclusive THEN Len(rules) + 1 ELSE i + 1
     IN progress' = IF Satisfies(i, value) THEN [pc |-> "match", next |-> next, matched |-> Append(progress.matched, i)]
                    ELSE [progress EXCEPT !.next = i + 1]
  /\ UNCHANGED <<rules, value, failed, asked>>
Match ==
  /\ progress.pc = "match" /\ progress.next > Len(rules)
  /\ progress' = [pc |-> "rules", left |-> progress.matched]
  /\ UNCHANGED <<rules, value, failed, asked>>

\* processAction resolves the recipients of the next rule, or fails.
ProcessAction ==
  /\ progress.pc = "rules" /\ progress.left # <<>>
  /\ LET i == Head(progress.left)
     IN \/ ~GroupMissing(rules[i])
           /\ progress' = [pc |-> "recipients", left |-> Tail(progress.left), rule |-> i, todo |-> Recipients(rules[i])]
           /\ UNCHANGED failed
        \/ progress' = [progress EXCEPT !.left = Tail(@)] /\ failed' = failed \cup {<<i>>}
  /\ UNCHANGED <<rules, value, asked>>

\* processRecipient: its channels are settled side by side (see ChannelResolution for
\* which), or their resolution fails.
ProcessRecipient ==
  /\ progress.pc = "recipients"
  /\ \E r \in progress.todo :
       \/ progress' = [progress EXCEPT !.todo = @ \ {r}]
          /\ asked' = asked \cup {<<progress.rule, r, c>> : c \in RuleChannels} /\ UNCHANGED failed
       \/ progress' = [progress EXCEPT !.todo = @ \ {r}]
          /\ failed' = failed \cup {<<progress.rule, r>>} /\ UNCHANGED asked
  /\ UNCHANGED <<rules, value>>

EndOfRecipients ==
  /\ progress.pc = "recipients" /\ progress.todo = {}
  /\ progress' = [pc |-> "rules", left |-> progress.left]
  /\ UNCHANGED <<rules, value, failed, asked>>

MatchNext == ReceiveEvent \/ MatchFromRules \/ Match \/ ProcessAction \/ ProcessRecipient \/ EndOfRecipients

MatchSpec == MatchInit /\ [][MatchNext]_matchVars

-----------------------------------------------------------------------------

\* The rules an event is processed for: all it satisfies as long as no rule of higher
\* priority that is exclusive is satisfied, too.
Applies(i) ==
  /\ Satisfies(i, value)
  /\ \A j \in 1 .. i - 1 : rules[j].exclusive => ~Satisfies(j, value)

\* When the event is done, exactly the rules that apply were acted on, and everything that
\* did not fail itself was asked for: one failure never keeps a later rule or recipient back.
FailuresStayLocal ==
  progress.pc = "rules" /\ progress.left = <<>> =>
    /\ \A i \in DOMAIN rules : Applies(i) =>
         <<i>> \in failed \/ \A r \in Recipients(rules[i]) :
                               <<i, r>> \in failed \/ \A c \in RuleChannels : <<i, r, c>> \in asked
    /\ \A x \in asked : Applies(x[1])

\* The comparisons split the numbers into three, and nothing else satisfies one of them.
ComparisonsSplit ==
  \A n \in Number :
    LET holds == {o \in {"$lt", "$eq", "$gt"} : EvaluateOperator(o, value, Num(n))}
    IN IF IsNumber(value) THEN Cardinality(holds) = 1 ELSE holds = {}

\* The rules that match an event are the active ones once announcements are handled, unless a reload was
\* overtaken; a rule or recipient that fails keeps no other back; and the comparisons of a condition split
\* the numbers into three.
RulesApply == RulesFreshUnlessOvertaken /\ FailuresStayLocal /\ ComparisonsSplit
=============================================================================
