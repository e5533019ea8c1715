------------------------------ MODULE MCEditors ------------------------------
\* TLC instance of the rule, template and mapping editors of the admin console with the services behind
\* them, and of the template service's store. They share no state: a behaviour exercises one part.
EXTENDS TemplateStore

CONSTANTS
  None,
  g1, g2, m1,                \* rules and a mapping
  w1, w2, r1                 \* writers and a renderer of templates

MCTemplates == {"t"}
MCChannels == {"email"}
MCVariables == {"x"}
MCWriters == {w1, w2}
MCRenderers == {r1}

VARIABLES part
VARIABLES rules, ruleForm, ruleForms, ruleEdits, ruleRows, updated, ruleRefused
VARIABLES template, editor, templateEdits, forms, typed, answer, shown
VARIABLES mappings, mappingForm, mappingForms, mappingEdits, mappingRows, verdict

ruleVars == <<rules, ruleForm, ruleForms, ruleEdits, ruleRows, updated, ruleRefused>>
templateVars == <<template, editor, templateEdits, forms, typed, answer, shown>>
mappingVars == <<mappings, mappingForm, mappingForms, mappingEdits, mappingRows, verdict>>
partVars == <<part, ruleVars, templateVars, storeVars, mappingVars>>

Rules ==
  INSTANCE RuleEditor WITH
    Rule <- {g1, g2}, Field <- {"f", "g"}, OPERATORS <- {"equals", "gt", "in", "exists"}, Text <- {<<"1">>, <<"1", "w">>},
    MaxRows <- 2, MaxEdits <- 2, MaxSaves <- 2, form <- ruleForm, opened <- ruleForms, edits <- ruleEdits,
    saved <- ruleRows, refused <- ruleRefused

Templates ==
  INSTANCE TemplateEditor WITH
    Variable <- {"v", "w"}, MaxName <- 3, MaxEdits <- 3, MaxForms <- 2, edits <- templateEdits

Mappings ==
  INSTANCE MappingEditor WITH
    Mapping <- {m1}, Path <- {"p"}, Target <- {"t"}, TRANSFORM <- {"none", "trim"}, MaxRows <- 2, MaxEdits <- 3,
    MaxForms <- 2, form <- mappingForm, opened <- mappingForms, edits <- mappingEdits, saved <- mappingRows

PartsInit ==
  /\ part \in {"rules", "alike", "templates", "store", "mappings"}
  /\ Rules!Init /\ Templates!Init /\ StoreInit /\ Mappings!Init

\* What a step of each part leaves alone.
Part(p) == part = p /\ UNCHANGED part

PartsNext ==
  \/ Part("rules") /\ Rules!Next /\ rules'[g2] = rules[g2] /\ UNCHANGED <<templateVars, storeVars, mappingVars>>
  \/ Part("alike") /\ Rules!Next /\ ruleEdits' <= 1 /\ UNCHANGED <<templateVars, storeVars, mappingVars>>
  \/ Part("templates") /\ Templates!Next /\ UNCHANGED <<ruleVars, storeVars, mappingVars>>
  \/ Part("store") /\ StoreNext /\ UNCHANGED <<ruleVars, templateVars, mappingVars>>
  \/ Part("mappings") /\ Mappings!Next /\ UNCHANGED <<ruleVars, templateVars, storeVars>>

PartsSpec == PartsInit /\ [][PartsNext]_partVars

-----------------------------------------------------------------------------

\* What a form shows is what the service keeps: a rule matches what its rows say and is refused as a duplicate
\* only; a template's slug follows its name, its form is refused for a missing subject only, and its preview
\* asks for every variable; a mapping's required rows refuse an event without them, and the test panel tells
\* the truth; each up to the exceptions its module names.
FormsMean ==
  /\ Rules!RowsAreMeant /\ Rules!RefusedAsDuplicate /\ Rules!AlikeByUpdate
  /\ Templates!SlugFollowsName /\ Templates!SlugIsValid /\ Templates!RefusedForSubject
  /\ Templates!TabIsChannel /\ Templates!WhatsAppIsNamed /\ Templates!PreviewIsComplete
  /\ Mappings!RequiredRowsCaught /\ Mappings!TestTellsTruth

\* Saving a console-made rule, template or mapping as it was opened changes nothing, and a deleted template comes
\* back only through a request that had read it before.
SavesKeep ==
  [][/\ Rules!UnchangedSaveKeeps /\ Templates!UnchangedSaveCopies /\ Mappings!UnchangedSaveKeeps
     /\ DeletedStaysDeleted]_partVars
=============================================================================
