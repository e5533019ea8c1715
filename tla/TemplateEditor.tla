---------------------------- MODULE TemplateEditor ----------------------------
(***************************************************************************)
(* The console's form for message templates: channel variants in tabs, the *)
(* slug that follows the name, WhatsApp's settings kept in a variant's     *)
(* metadata, saving as a new version, rolling back and previewing.         *)
(* A variant's body is the set of what occurs in it: text and variables.   *)
(***************************************************************************)
EXTENDS Naturals, Sequences, FiniteSets, SequencesExt

CONSTANTS
  Variable,      \* names of variables
  MaxName,       \* bound: characters of a name
  MaxEdits,      \* bound: edits
  MaxForms       \* bound: forms opened

VARIABLES
  template,      \* the stored template: versions, current one, declared variables
  editor,        \* the open form, or Closed
  edits, forms,  \* counts
  typed,         \* history: the name was only typed, the slug not touched
  answer,        \* history: what the service made of the last save
  shown          \* what the preview asks the user for, and what the service rendered

vars == <<template, editor, edits, forms, typed, answer, shown>>

CHANNEL_OPTIONS == {"email", "sms", "whatsapp"}
Character == {"a", " ", "-", "!"}      \* a letter or digit, white space, a hyphen, anything else

Hyphenated(name) == [i \in DOMAIN name |-> IF name[i] = " " THEN "-" ELSE name[i]]
Kept(name) == SelectSeq(name, LAMBDA c : c # "!")

Collapsed(name) == FoldLeft(LAMBDA acc, c : IF c = "-" /\ acc # <<>> /\ Last(acc) = "-" THEN acc ELSE Append(acc, c), <<>>, name)
Trimmed(name) ==
  LET front == IF name # <<>> /\ Head(name) = "-" THEN Tail(name) ELSE name
  IN IF front # <<>> /\ Last(front) = "-" THEN Front(front) ELSE front
GenerateSlug(name) == Trimmed(Collapsed(Hyphenated(Kept(name))))

\* The slug schema: words joined by single hyphens.
SlugMatches(slug) ==
  /\ slug # <<>> /\ slug[1] = "a" /\ Last(slug) = "a"
  /\ \A i \in 1 .. Len(slug) : slug[i] \in {"a", "-"} /\ (i > 1 /\ slug[i] = "-" => slug[i - 1] # "-")

\* The effect of a changed name on the slug: followed as long as it is the one of the name
\* before the last character, or empty.
FollowName(name, slug) ==
  IF name # <<>> /\ (slug = <<>> \/ slug = GenerateSlug(Front(name))) THEN GenerateSlug(name) ELSE slug

NoMeta == [name |-> FALSE, language |-> FALSE, parameters |-> {}, other |-> FALSE]
Variant(c) == [channel |-> c, subject |-> FALSE, body |-> {}, meta |-> NoMeta, metaTemplate |-> NoMeta]
Closed == [mode |-> "closed"]
NoTemplate == [versions |-> <<>>, current |-> 0, variables |-> {}]

\* WhatsApp's settings come out of the metadata into fields of their own.
DefaultChannels(version) ==
  [i \in DOMAIN version |->
     [channel |-> version[i].channel, subject |-> version[i].subject, body |-> version[i].body, meta |-> version[i].meta,
      metaTemplate |-> IF version[i].channel = "whatsapp" THEN [version[i].meta EXCEPT !.other = FALSE] ELSE NoMeta]]

\* On submit they go back into it; the list of parameters always, the others when given.
Submitted(v) ==
  [channel |-> v.channel, subject |-> v.subject, body |-> v.body,
   meta |-> IF v.channel # "whatsapp" THEN v.meta
            ELSE [name |-> v.meta.name \/ v.metaTemplate.name, language |-> v.meta.language \/ v.metaTemplate.language,
                  parameters |-> v.metaTemplate.parameters, other |-> v.meta.other]]

Init ==
  /\ template = NoTemplate /\ editor = Closed
  /\ edits = 0 /\ forms = 0 /\ typed = TRUE /\ answer = "none"
  /\ shown = [inputs |-> {}, used |-> {}, rolledBack |-> FALSE]

\* The effect that keeps the tab on a channel of the form.
Tab(channels, tab) == IF \E i \in DOMAIN channels : channels[i].channel = tab THEN tab ELSE channels[1].channel

Open(e) ==
  /\ editor = Closed /\ forms < MaxForms
  /\ editor' = e /\ forms' = forms + 1 /\ typed' = TRUE
  /\ UNCHANGED <<template, edits, answer, shown>>
OpenNew ==
  template = NoTemplate /\ Open([mode |-> "new", name |-> <<>>, slug |-> <<>>, summary |-> TRUE, tab |-> "email",
                                 channels |-> <<Variant("email")>>, base |-> <<>>, touched |-> FALSE])

\* The first of the versions, which come in no particular order.
FirstVersion(v) == v \in DOMAIN template.versions
OpenEdit(v) ==
  /\ FirstVersion(v)
  /\ LET channels == DefaultChannels(template.versions[v])
     IN Open([mode |-> "edit", name |-> <<>>, slug |-> <<>>, summary |-> FALSE, tab |-> Tab(channels, "email"),
              channels |-> channels, base |-> template.versions[v], touched |-> FALSE])
Leave == editor # Closed /\ editor' = Closed /\ UNCHANGED <<template, edits, forms, typed, answer, shown>>

Edit(e) ==
  /\ editor # Closed /\ edits < MaxEdits
  /\ edits' = edits + 1
  /\ editor' = [e EXCEPT !.touched = TRUE, !.tab = Tab(e.channels, @)]
  /\ UNCHANGED <<template, forms, answer, shown>>

TypeName(c) ==
  /\ editor # Closed /\ editor.mode = "new" /\ Len(editor.name) < MaxName
  /\ LET name == Append(editor.name, c)
     IN editor' = [editor EXCEPT !.name = name, !.slug = FollowName(name, @)]
  /\ UNCHANGED <<template, edits, forms, typed, answer, shown>>
EraseName ==
  /\ editor # Closed /\ editor.mode = "new" /\ editor.name # <<>>
  /\ LET name == Front(editor.name) IN Edit([editor EXCEPT !.name = name, !.slug = FollowName(name, @)])
  /\ typed' = FALSE
EditSlug(slug) == editor # Closed /\ editor.mode = "new" /\ Edit([editor EXCEPT !.slug = slug]) /\ typed' = FALSE
Summarize ==
  /\ editor # Closed /\ editor.mode = "edit" /\ ~editor.summary
  /\ editor' = [editor EXCEPT !.summary = TRUE]
  /\ UNCHANGED <<template, edits, forms, typed, answer, shown>>

Available(channels) == CHANNEL_OPTIONS \ {channels[i].channel : i \in DOMAIN channels}

AddChannel(c) ==
  /\ editor # Closed /\ Len(editor.channels) < 3 /\ c \in Available(editor.channels)
  /\ Edit([editor EXCEPT !.channels = Append(@, Variant(c)), !.tab = c]) /\ UNCHANGED typed
RemoveChannel(i) ==
  /\ editor # Closed /\ i \in DOMAIN editor.channels /\ Len(editor.channels) > 1
  /\ Edit([editor EXCEPT !.channels = RemoveAt(@, i)]) /\ UNCHANGED typed
\* Only the subject of an e-mail (or push) and what the tab shows can be edited.
EditVariant(i, subject, body) ==
  /\ editor # Closed /\ i \in DOMAIN editor.channels /\ editor.channels[i].channel = editor.tab
  /\ Edit([editor EXCEPT !.channels[i].body = body,
                         !.channels[i].subject = IF editor.tab = "email" THEN subject ELSE @]) /\ UNCHANGED typed
ChooseTab(i) ==
  /\ editor # Closed /\ i \in DOMAIN editor.channels
  /\ editor' = [editor EXCEPT !.tab = editor.channels[i].channel]
  /\ UNCHANGED <<template, edits, forms, typed, answer, shown>>
\* A variable of any variant is appended to the body in the tab.
InsertVariable(v) ==
  /\ editor # Closed /\ \E i \in DOMAIN editor.channels : v \in editor.channels[i].body
  /\ \E i \in DOMAIN editor.channels :
       editor.channels[i].channel = editor.tab /\ Edit([editor EXCEPT !.channels[i].body = @ \cup {v}]) /\ UNCHANGED typed
EditWhatsApp(i, metaTemplate) ==
  /\ editor # Closed /\ i \in DOMAIN editor.channels /\ editor.channels[i].channel = "whatsapp" /\ editor.tab = "whatsapp"
  /\ Edit([editor EXCEPT !.channels[i].metaTemplate = metaTemplate]) /\ UNCHANGED typed
\* A parameter row starts without name and field.
EditParameters(i, p) ==
  /\ editor # Closed /\ i \in DOMAIN editor.channels /\ editor.channels[i].channel = "whatsapp" /\ editor.tab = "whatsapp"
  /\ Edit([editor EXCEPT !.channels[i].metaTemplate.parameters = IF p \in @ THEN @ \ {p} ELSE @ \cup {p}]) /\ UNCHANGED typed

VariantValid(v) ==
  /\ v.body # {} /\ "" \notin v.metaTemplate.parameters
  /\ v.channel = "whatsapp" => v.metaTemplate.name
Valid ==
  /\ editor.channels # <<>> /\ \A i \in DOMAIN editor.channels : VariantValid(editor.channels[i])
  /\ IF editor.mode = "new" THEN editor.name # <<>> /\ SlugMatches(editor.slug) ELSE editor.summary

\* The service: an e-mail has a subject, no channel comes twice.
Refusal(version) ==
  IF \E i \in DOMAIN version : version[i].channel = "email" /\ ~version[i].subject THEN "no subject"
  ELSE IF \E i, j \in DOMAIN version : i # j /\ version[i].channel = version[j].channel THEN "duplicate" ELSE "none"
UsedIn(version) == UNION {version[i].body : i \in DOMAIN version} \cap Variable

Submit ==
  /\ editor # Closed /\ Valid
  /\ LET version == [i \in DOMAIN editor.channels |-> Submitted(editor.channels[i])]
     IN /\ answer' = Refusal(version)
        /\ IF Refusal(version) = "none"
           THEN /\ template' = [versions |-> Append(template.versions, version), current |-> Len(template.versions) + 1,
                                variables |-> UsedIn(version)]
                /\ editor' = Closed
           ELSE UNCHANGED <<template, editor>>
  /\ shown' = [inputs |-> {}, used |-> {}, rolledBack |-> IF answer' = "none" THEN FALSE ELSE shown.rolledBack]
  /\ UNCHANGED <<edits, forms, typed>>

\* The version history's button, offered for every version but the current one.
Rollback(v) ==
  /\ editor = Closed /\ v \in DOMAIN template.versions \ {template.current}
  /\ template' = [template EXCEPT !.current = v]
  /\ shown' = [inputs |-> {}, used |-> {}, rolledBack |-> TRUE]
  /\ UNCHANGED <<editor, edits, forms, typed, answer>>

\* The preview asks for the variables of the first version and for the declared ones.
Inputs(v) == UsedIn(template.versions[v]) \cup template.variables

\* The service renders the current version.
Preview(v) ==
  /\ editor # Closed /\ editor.mode = "edit" /\ v \in DOMAIN template.versions /\ editor.base = template.versions[v]
  /\ shown' = [shown EXCEPT !.inputs = Inputs(v), !.used = UsedIn(template.versions[template.current])]
  /\ UNCHANGED <<template, editor, edits, forms, typed, answer>>

\* A template of the service's other clients, with metadata the form knows nothing of.
CreateByApi ==
  /\ template = NoTemplate /\ editor = Closed /\ forms = 0
  /\ LET version == <<[channel |-> "whatsapp", subject |-> FALSE, body |-> {"text"}, meta |-> [NoMeta EXCEPT !.name = TRUE, !.other = TRUE]]>>
     IN template' = [versions |-> <<version>>, current |-> 1, variables |-> UsedIn(version)]
  /\ UNCHANGED <<editor, edits, forms, typed, answer, shown>>

Next ==
  \/ CreateByApi \/ OpenNew \/ Leave \/ EraseName \/ Summarize \/ Submit
  \/ \E c \in Character : TypeName(c)
  \/ \E slug \in {<<"a", "-">>, <<"a">>} : EditSlug(slug)
  \/ \E c \in CHANNEL_OPTIONS : AddChannel(c)
  \/ \E i \in 1 .. 3 :
       \/ OpenEdit(i) \/ RemoveChannel(i) \/ ChooseTab(i) \/ Rollback(i) \/ Preview(i)
       \/ \E v \in Variable : (\E subject \in BOOLEAN : EditVariant(i, subject, {v, "text"}))
       \/ EditWhatsApp(i, [NoMeta EXCEPT !.name = TRUE, !.language = TRUE])
       \/ \E p \in {"", "p"} : EditParameters(i, p)
  \/ \E v \in Variable : InsertVariable(v)

-----------------------------------------------------------------------------

\* As long as the name is typed and the slug left alone, the slug is the name's.
SlugFollowsName == editor # Closed /\ editor.mode = "new" /\ typed => editor.slug = GenerateSlug(editor.name)

\* A generated slug is one the schema accepts, whatever is in the name, unless nothing is left of it.
SlugIsValid ==
  editor # Closed /\ editor.mode = "new" /\ typed /\ editor.slug # <<>> => SlugMatches(editor.slug)

\* The form never sends what the service refuses, but for an e-mail without a subject.
RefusedForSubject == answer # "duplicate"

\* A tab is always one of a channel the form has: what is inserted or edited is in the form.
TabIsChannel == editor # Closed => \E i \in DOMAIN editor.channels : editor.channels[i].channel = editor.tab

\* A WhatsApp variant names the template that WhatsApp needs to send it.
WhatsAppIsNamed ==
  \A v \in DOMAIN template.versions : \A i \in DOMAIN template.versions[v] :
    template.versions[v][i].channel = "whatsapp" => template.versions[v][i].meta.name

\* Saving without an edit makes a version equal to the one the form was opened with.
UnchangedSaveCopies ==
  editor # Closed /\ editor.mode = "edit" /\ ~editor.touched /\ template' # template =>
    Last(template'.versions) = editor.base

\* Unless the template was rolled back, every variable of what is previewed can be given a value.
PreviewIsComplete == ~shown.rolledBack => shown.used \subseteq shown.inputs
=============================================================================
