---------------------------- MODULE AiAnalysisModal -----------------------------
(***************************************************************************)
(* frontend/src/components/ai/AiAnalysisModal.tsx: the modal that shows    *)
(* what will be sent to the AI, lets the operator change it and choose the *)
(* models, runs the diagnosis and shows its result.  App keeps it mounted: *)
(* closing it ends none of its calls, and their answers still arrive.  The *)
(* run itself is in Diagnosis.tla.                                         *)
(***************************************************************************)
EXTENDS AiPrompt, Naturals, FiniteSets, SequencesExt

CONSTANTS
  MaxLogs,      \* rows of one diagnosis: 200
  Providers, Models,
  Offered,      \* the models a provider offers
  Configured,   \* the provider, model and fallbacks of the server's settings
  MaxEdits,     \* bound of the model: what the operator does in the modal
  MaxOpenings,  \* bound of the model: times it is opened
  MaxBreaks     \* bound of the model: calls that fail

ModelChoices == [provider : Providers, model : Models, fallbacks : Seq(Models)]

ASSUME ModalAssumption ==
  /\ {MaxLogs, MaxEdits, MaxOpenings, MaxBreaks} \subseteq Nat
  /\ Offered \in [Providers -> SUBSET Models]
  /\ Configured \in ModelChoices /\ "" \in Contexts

VARIABLES
  selectedLogs,  \* App: aiSelectedLogs, {} when the modal is closed
  preview,       \* the logs of the preview, {} when there is none
  previews,      \* calls of loadPreview that have not returned
  promptText, systemPrompt, fullPromptText, promptViewMode,
  userContext,
  choice,        \* provider, model and fallbackModels
  availableModels,
  modelLoads,    \* calls of loadModels that have not returned
  isCustomModel,
  adding,        \* the fallback chosen or typed, and whether it is typed
  edits, openings, breaks,
  calm,          \* history: nothing was under way when the modal was last closed
  offersAlone    \* history: the models were read with no other read under way

texts == <<promptText, systemPrompt, fullPromptText, promptViewMode, userContext>>
offers == <<availableModels, modelLoads, offersAlone>>
models == <<choice, offers, isCustomModel, adding>>
modalVars == <<selectedLogs, preview, previews, texts, models, edits, openings, breaks, calm>>

NotAdding == [typed |-> FALSE, name |-> ""]

ModalTypeOK ==
  /\ selectedLogs \subseteq Logs /\ preview \subseteq Logs
  /\ \A p \in previews : p.logs \subseteq Logs /\ p.ctx \in Contexts
  /\ promptText \in UserPrompts /\ systemPrompt \in SystemPrompts
  /\ fullPromptText \in Envelopes /\ promptViewMode \in {"analysis", "full"}
  /\ userContext \in Contexts
  /\ choice \in ModelChoices /\ availableModels \subseteq Models
  /\ \A l \in modelLoads : l.provider \in Providers /\ l.alone \in BOOLEAN
  /\ {isCustomModel, adding.typed, calm, offersAlone} \subseteq BOOLEAN
  /\ adding.name \in Models \cup {""}
  /\ edits \in 0 .. MaxEdits /\ openings \in 0 .. MaxOpenings /\ breaks \in 0 .. MaxBreaks

ClosedTexts ==
  /\ promptText' = Blank /\ systemPrompt' = "default" /\ fullPromptText' = BlankEnvelope
  /\ promptViewMode' = "analysis" /\ userContext' = ""

ModalInit ==
  /\ selectedLogs = {} /\ preview = {} /\ previews = {}
  /\ promptText = Blank /\ systemPrompt = "default" /\ fullPromptText = BlankEnvelope
  /\ promptViewMode = "analysis" /\ userContext = ""
  /\ choice = [Configured EXCEPT !.fallbacks = <<>>]
  /\ availableModels = {} /\ modelLoads = {} /\ offersAlone = FALSE
  /\ isCustomModel = FALSE /\ adding = NotAdding
  /\ edits = 0 /\ openings = 0 /\ breaks = 0 /\ calm = TRUE

FreeId(calls) == CHOOSE i \in 1 .. Cardinality(calls) + 1 : \A c \in calls : c.id # i

\* A call comes to nothing.
Breaks == breaks < MaxBreaks /\ breaks' = breaks + 1

-----------------------------------------------------------------------------
\* The texts, and what is modified in them.

defaultPrompt == buildCombinedPrompt(Generated(preview, ""), userContext)
defaultFullPrompt == buildFullEnvelope("server", defaultPrompt)

hasEditedPrompt == preview # {} /\ promptText # defaultPrompt
hasEditedSystem == preview # {} /\ systemPrompt # "server"
hasEditedFull == preview # {} /\ fullPromptText # defaultFullPrompt

isModified ==
  IF promptViewMode = "full" THEN hasEditedFull ELSE hasEditedPrompt \/ hasEditedSystem

-----------------------------------------------------------------------------
\* Mutated forms of the definitions below.

\* The list of models is kept when the provider's cannot be read.
ModelsKept(l, ok) ==
  /\ l \in modelLoads
  /\ modelLoads' = modelLoads \ {l}
  /\ IF ok THEN availableModels' = Offered[l.provider] /\ UNCHANGED breaks
     ELSE Breaks /\ UNCHANGED availableModels
  /\ offersAlone' = l.alone
  /\ UNCHANGED <<selectedLogs, preview, previews, texts, choice, isCustomModel, adding,
                 edits, openings, calm>>
-----------------------------------------------------------------------------
\* Opening and closing: the effect on isOpen and selectedLogs.

\* App.handleOpenAiModal; a selection that is too large is not previewed.
OpenModal(L) ==
  /\ selectedLogs = {} /\ L # {} /\ openings < MaxOpenings
  /\ selectedLogs' = L /\ openings' = openings + 1
  /\ previews' = IF Cardinality(L) > MaxLogs THEN previews
                 ELSE previews \cup {[id |-> FreeId(previews), logs |-> L, ctx |-> userContext]}
  /\ UNCHANGED <<preview, texts, models, edits, breaks, calm>>

CloseModal(busy) ==
  /\ selectedLogs # {}
  /\ selectedLogs' = {} /\ preview' = {}
  /\ ClosedTexts
  /\ choice' = [choice EXCEPT !.fallbacks = <<>>]
  /\ calm' = (previews = {} /\ ~busy)
  /\ UNCHANGED <<previews, offers, isCustomModel, adding, edits, openings, breaks>>

loadModels(p) ==
  /\ modelLoads' = {[l EXCEPT !.alone = FALSE] : l \in modelLoads} \cup
                     {[id |-> FreeId(modelLoads), provider |-> p, alone |-> modelLoads = {}]}
  /\ UNCHANGED <<availableModels, offersAlone>>

\* A preview arrives: whatever is open, it is shown.  Its prompt has the context as it
\* was when the preview was asked for.
PreviewAnswered(p, ok) ==
  /\ p \in previews
  /\ previews' = previews \ {p}
  /\ IF ok
     THEN /\ preview' = p.logs /\ choice' = Configured
          /\ systemPrompt' = "server"
          /\ promptText' = buildCombinedPrompt(Generated(p.logs, ""), p.ctx)
          /\ fullPromptText' = buildFullEnvelope("server", promptText')
          /\ loadModels(Configured.provider)
          /\ UNCHANGED breaks
     ELSE Breaks /\ UNCHANGED <<preview, choice, systemPrompt, promptText, fullPromptText, offers>>
  /\ UNCHANGED <<selectedLogs, promptViewMode, userContext, isCustomModel, adding, edits,
                 openings, calm>>

\* loadModels does not ask for which provider the list is.
ModelsAnswered(l, ok) ==
  /\ l \in modelLoads
  /\ modelLoads' = modelLoads \ {l}
  /\ IF ok THEN availableModels' = Offered[l.provider] /\ UNCHANGED breaks
     ELSE Breaks /\ availableModels' = {}
  /\ offersAlone' = l.alone
  /\ UNCHANGED <<selectedLogs, preview, previews, texts, choice, isCustomModel, adding,
                 edits, openings, calm>>

-----------------------------------------------------------------------------
\* The prompt: it is on the screen when there is a preview and no result, showing.
\* Every act of the operator in it is counted.

Acts(showing) ==
  /\ selectedLogs # {} /\ preview # {} /\ showing
  /\ edits < MaxEdits /\ edits' = edits + 1
  /\ UNCHANGED <<selectedLogs, preview, previews, openings, breaks, calm>>

ShowAnalysis(showing) ==
  /\ Acts(showing) /\ promptViewMode = "full"
  /\ LET parsed == parseFullEnvelope(fullPromptText, systemPrompt)
     IN  systemPrompt' = parsed.system /\ promptText' = parsed.user
  /\ promptViewMode' = "analysis"
  /\ UNCHANGED <<fullPromptText, userContext, models>>

ShowFull(showing) ==
  /\ Acts(showing) /\ promptViewMode # "full"
  /\ fullPromptText' = buildFullEnvelope(systemPrompt, promptText)
  /\ promptViewMode' = "full"
  /\ UNCHANGED <<promptText, systemPrompt, userContext, models>>

\* What the operator makes of a text: he types another one, empties it, or undoes his
\* changes; in the full text also in the instructions and the headers.
Retyped(user) == {Typed, Blank, defaultPrompt} \ {user}
RetypedFull ==
  {[fullPromptText EXCEPT !.user = u] : u \in Retyped(fullPromptText.user)} \cup
  {[fullPromptText EXCEPT !.system = s] : s \in {"typed", "", "server"} \ {fullPromptText.system}} \cup
  {[fullPromptText EXCEPT !.headers = h] : h \in {"user", "none"} \ {fullPromptText.headers}}

handlePromptChange(showing) ==
  /\ Acts(showing)
  /\ IF promptViewMode = "full"
     THEN fullPromptText' \in RetypedFull /\ UNCHANGED promptText
     ELSE promptText' \in Retyped(promptText) /\ UNCHANGED fullPromptText
  /\ UNCHANGED <<systemPrompt, promptViewMode, userContext, models>>

\* A prompt that is not edited follows the context; so does the full text.
handleUserContextChange(ctx, showing) ==
  /\ Acts(showing) /\ ctx # userContext
  /\ userContext' = ctx
  /\ LET follows == promptText = defaultPrompt
         new == buildCombinedPrompt(Generated(preview, ""), ctx)
     IN  /\ promptText' = IF follows THEN new ELSE promptText
         /\ fullPromptText' =
              IF follows /\ fullPromptText = buildFullEnvelope(systemPrompt, defaultPrompt)
              THEN buildFullEnvelope(systemPrompt, new) ELSE fullPromptText
  /\ UNCHANGED <<systemPrompt, promptViewMode, models>>

handleResetPrompt(showing) ==
  /\ Acts(showing) /\ isModified
  /\ promptText' = defaultPrompt /\ systemPrompt' = "server"
  /\ fullPromptText' = defaultFullPrompt
  /\ UNCHANGED <<promptViewMode, userContext, models>>

-----------------------------------------------------------------------------
\* The models of this diagnosis.

fallbackList == choice.fallbacks

Chooses(showing) == Acts(showing) /\ UNCHANGED texts

handleProviderChange(p, showing) ==
  /\ Chooses(showing) /\ p # choice.provider
  /\ choice' = [choice EXCEPT !.provider = p]
  /\ isCustomModel' = FALSE /\ adding' = NotAdding
  /\ loadModels(p)

moveFallback(i, d, showing) ==
  /\ Chooses(showing) /\ {i, i + d} \subseteq DOMAIN fallbackList
  /\ choice' = [choice EXCEPT !.fallbacks = InsertAt(RemoveAt(@, i), i + d, @[i])]
  /\ UNCHANGED <<offers, isCustomModel, adding>>

removeFallback(i, showing) ==
  /\ Chooses(showing) /\ i \in DOMAIN fallbackList
  /\ choice' = [choice EXCEPT !.fallbacks = RemoveAt(@, i)]
  /\ UNCHANGED <<offers, isCustomModel, adding>>

\* The next fallback: from the list, which lacks what is chosen already, or typed.
PickFallback(name, typed, showing) ==
  /\ Chooses(showing)
  /\ IF typed THEN TRUE
     ELSE ~adding.typed /\ name \in availableModels \ (Range(fallbackList) \cup {choice.model})
  /\ adding' = [typed |-> typed, name |-> name] /\ adding' # adding
  /\ UNCHANGED <<choice, offers, isCustomModel>>

CancelFallback(showing) ==
  /\ Chooses(showing) /\ adding.typed
  /\ adding' = NotAdding
  /\ UNCHANGED <<choice, offers, isCustomModel>>

addFallback(showing) ==
  /\ Chooses(showing) /\ adding.name # ""
  /\ choice' = IF adding.name \in Range(fallbackList) THEN choice
               ELSE [choice EXCEPT !.fallbacks = Append(@, adding.name)]
  /\ adding' = NotAdding
  /\ UNCHANGED <<offers, isCustomModel>>

handlePrimaryModelChange(name) ==
  choice' = [choice EXCEPT !.model = name, !.fallbacks = SelectSeq(@, LAMBDA f : f # name)]

\* From the list when there is one, typed otherwise.
PickPrimary(name, showing) ==
  /\ Chooses(showing) /\ name # choice.model
  /\ (availableModels # {} /\ ~isCustomModel) => name \in availableModels \ Range(fallbackList)
  /\ handlePrimaryModelChange(name)
  /\ UNCHANGED <<offers, isCustomModel, adding>>

TypePrimary(showing) ==
  /\ Chooses(showing) /\ availableModels # {} /\ ~isCustomModel
  /\ isCustomModel' = TRUE
  /\ UNCHANGED <<choice, offers, adding>>

UseDropdown(name, showing) ==
  /\ Chooses(showing) /\ isCustomModel
  /\ isCustomModel' = FALSE
  /\ LET valid == availableModels \ Range(fallbackList)
     IN  IF availableModels = {} THEN UNCHANGED choice
         ELSE /\ name \in IF valid # {} THEN valid ELSE availableModels
              /\ handlePrimaryModelChange(name)
  /\ UNCHANGED <<offers, adding>>

-----------------------------------------------------------------------------
\* When no list is awaited, the models offered are the provider's, or none, unless
\* reads overlapped: a list read for another provider does not stay
\* (AiAnalysisModal.tsx:190, 208-230).
OffersMatch ==
  (modelLoads = {} /\ offersAlone) => availableModels \in {{}, Offered[choice.provider]}

=============================================================================
