------------------------------- MODULE Diagnosis --------------------------------
(***************************************************************************)
(* An AI diagnosis from the click to the result: handleRunAnalysis of      *)
(* AiAnalysisModal.tsx, diagnoseLogs of frontend/src/api/ai.ts, which asks *)
(* for a stream of events and, when that comes to nothing, for a plain     *)
(* answer, and the server's chain of models (backend/app/api/ai.py,        *)
(* services/ai_engine.py).  It composes the modal with the drawer and the  *)
(* stream that open it.                                                    *)
(***************************************************************************)
EXTENDS AiAnalysisModal, LogDetailModal

CONSTANT Selections  \* what the operator selects in the stream

ASSUME SelectionsAssumption == Selections \subseteq SUBSET Logs /\ Rows = Logs

None == "none"
NoRun == [step |-> None]
NoProgress == [current |-> None, failed |-> {}]
NoOverride == [user |-> Blank, system |-> ""]

VARIABLES
  run,    \* the run that goes on: diagnoseLogs, the server's side of it, and what the
          \* modal shows of it (streamProgress); NoRun when there is none
  result  \* analysisResult: the logs it is about, {} when there is none

vars == <<modalVars, drawerVars, run, result>>

isDiagnosing == run # NoRun
Showing == result = {}

TypeOK ==
  /\ ModalTypeOK /\ DrawerTypeOK
  /\ run # NoRun =>
       /\ run.step \in {"asked", "streamed", "direct"} /\ run.logs \subseteq Logs
       /\ run.chain \in Seq(Models) /\ run.at \in DOMAIN run.chain
       /\ run.answer \in {None, "result", "error"}
       /\ run.progress.current \in Models \cup {None} /\ run.progress.failed \subseteq Models
  /\ result \subseteq Logs

Init ==
  /\ ModalInit /\ DrawerInit
  /\ run = NoRun /\ result = {}

-----------------------------------------------------------------------------
\* What is on the screen when the button is pressed, and what is asked for.

ShownPrompt ==
  IF promptViewMode = "analysis" THEN [user |-> promptText, system |-> systemPrompt]
  ELSE [user |-> IF fullPromptText.headers = "none" /\ fullPromptText # BlankEnvelope
                 THEN Typed ELSE fullPromptText.user,
        system |-> IF fullPromptText.headers = "none" THEN systemPrompt ELSE fullPromptText.system]

\* An override is Blank, or "", when there is none.
Overrides ==
  IF promptViewMode = "full"
  THEN IF ~hasEditedFull THEN NoOverride
       ELSE LET parsed == parseFullEnvelope(fullPromptText, systemPrompt)
            IN  [user |-> IF parsed.user # defaultPrompt THEN parsed.user ELSE Blank,
                 system |-> IF parsed.system # "server" THEN parsed.system ELSE ""]
  ELSE [user |-> IF hasEditedPrompt THEN promptText ELSE Blank,
        system |-> IF hasEditedSystem THEN systemPrompt ELSE ""]

\* The server tries each model once.  No fallback asked for is taken for none said: it
\* uses those of its settings.
modelsToTry ==
  FoldLeft(LAMBDA tried, name : IF name \in Range(tried) THEN tried ELSE Append(tried, name),
           <<choice.model>>,
           IF fallbackList = <<>> THEN Configured.fallbacks ELSE fallbackList)

-----------------------------------------------------------------------------
\* The events of the stream, on their way in run.events.

Event(stage) ==
  [stage |-> stage, model |-> run.chain[run.at], failed |-> None]
Says(r, events) == [r EXCEPT !.events = @ \o events]

\* diagnoseLogs returns, with a result or with an error: finally setIsDiagnosing(false).
Finish(res) ==
  /\ run' = NoRun /\ result' = res
  /\ UNCHANGED <<selectedLogs, preview, previews, texts, models, edits, openings, calm,
                 drawerVars>>

-----------------------------------------------------------------------------
\* Mutated forms of the definitions below.

\* The result stays when the modal is closed.
CloseKeepsResult ==
  /\ CloseModal(isDiagnosing)
  /\ run' = IF isDiagnosing THEN [run EXCEPT !.progress = NoProgress, !.watched = FALSE] ELSE run
  /\ UNCHANGED <<drawerVars, result>>

\* A failover is shown, and not kept.
ProgressForgets(e) ==
  [current |-> e.model, failed |-> IF e.stage = "failover" THEN {e.failed} ELSE {}]

\* Nobody reads the stream once the modal is closed.
StreamEndsUnread ==
  /\ run # NoRun /\ run.step = "streamed" /\ run.events = <<>> /\ run.answer = "result"
  /\ run.watched
  /\ Finish(run.logs)
  /\ UNCHANGED breaks
-----------------------------------------------------------------------------

\* "Run AI Analysis" is enabled.
CanRun ==
  /\ selectedLogs # {} /\ preview # {} /\ Showing /\ ~isDiagnosing
  /\ Cardinality(selectedLogs) <= MaxLogs

handleRunAnalysis ==
  /\ CanRun
  /\ run' = [step |-> "asked", logs |-> selectedLogs, chain |-> modelsToTry, at |-> 1,
             events |-> <<>>, over |-> FALSE, answer |-> None,
             progress |-> [current |-> choice.model, failed |-> {}],
             watched |-> TRUE]
  /\ UNCHANGED <<modalVars, drawerVars, result>>

\* The answer to the POST: a stream, or an error such as a refused session or rate.
StreamAnswered(ok) ==
  /\ run # NoRun /\ run.step = "asked"
  /\ IF ok
     THEN run' = Says([run EXCEPT !.step = "streamed"], <<Event("calling")>>) /\ UNCHANGED breaks
     ELSE Breaks /\ run' = [run EXCEPT !.step = "direct"]
  /\ UNCHANGED <<selectedLogs, preview, previews, texts, models, edits, openings, calm,
                 drawerVars, result>>

\* The server asks the models of the chain, one after the other while they are
\* overloaded or too slow.
ModelAnswers(out) ==
  /\ run # NoRun /\ run.step = "streamed" /\ ~run.over
  /\ \/ out = "ok" /\ run' = Says([run EXCEPT !.over = TRUE], <<Event("complete")>>)
     \/ out = "failed" /\ run' = Says([run EXCEPT !.over = TRUE], <<Event("error")>>)
     \/ /\ out = "overloaded" /\ run.at < Len(run.chain)
        /\ LET next == [Event("calling") EXCEPT !.model = run.chain[run.at + 1]]
           IN  run' = Says([run EXCEPT !.at = @ + 1],
                           <<[next EXCEPT !.stage = "failover", !.failed = run.chain[run.at]], next>>)
  /\ UNCHANGED <<modalVars, drawerVars, result>>

ProgressAfter(e) ==
  [current |-> e.model,
   failed |-> IF e.stage = "failover" THEN run.progress.failed \cup {e.failed}
              ELSE run.progress.failed]

\* onEvent.  An error is thrown, caught as if the stream had failed, and the diagnosis
\* is asked for again.
EventArrives ==
  /\ run # NoRun /\ run.step = "streamed" /\ run.events # <<>>
  /\ LET e == Head(run.events)
         rest == [run EXCEPT !.events = Tail(@)]
     IN  run' = CASE e.stage = "complete" -> [rest EXCEPT !.answer = "result"]
                  [] e.stage = "error" -> [rest EXCEPT !.step = "direct", !.answer = "error"]
                  [] OTHER -> [rest EXCEPT !.progress = ProgressAfter(e)]
  /\ UNCHANGED <<modalVars, drawerVars, result>>

\* The connection is lost, even after the result.
StreamBreaks ==
  /\ run # NoRun /\ run.step = "streamed"
  /\ Breaks
  /\ run' = [run EXCEPT !.step = "direct", !.events = <<>>]
  /\ UNCHANGED <<selectedLogs, preview, previews, texts, models, edits, openings, calm,
                 drawerVars, result>>

StreamEnds ==
  /\ run # NoRun /\ run.step = "streamed" /\ run.events = <<>> /\ run.answer = "result"
  /\ Finish(run.logs)
  /\ UNCHANGED breaks

\* The plain answer: a result, or an error.
DirectAnswered(ok) ==
  /\ run # NoRun /\ run.step = "direct"
  /\ Finish(IF ok THEN run.logs ELSE result)
  /\ UNCHANGED breaks

-----------------------------------------------------------------------------
\* The modal and what opens it.

Close ==
  /\ CloseModal(isDiagnosing)
  /\ result' = {}
  /\ run' = IF isDiagnosing THEN [run EXCEPT !.progress = NoProgress, !.watched = FALSE] ELSE run
  /\ UNCHANGED drawerVars

BackToPreview ==
  /\ selectedLogs # {} /\ result # {}
  /\ result' = {}
  /\ UNCHANGED <<modalVars, drawerVars, run>>

Open(L) ==
  /\ OpenModal(L)
  /\ UNCHANGED <<run, result>>

\* "Inspect selected logs with AI", and the two buttons of the drawer, which close it.
handleLaunchAiAnalysis(L) == detail = NoRow /\ Open(L) /\ UNCHANGED drawerVars
ExplainWithAi == detail # NoRow /\ Open({detail}) /\ CloseDetail
handleInspectTargetAndContext == Inspectable /\ Open(targetAndContextLogs) /\ CloseDetail

DrawerStep ==
  /\ \/ /\ selectedLogs = {}
        /\ UNCHANGED breaks
        /\ \/ CloseDetail \/ ToggleContext \/ ToggleSameApp
           \/ \E row \in Rows : OpenDetail(row)
     \/ \E r \in contextReads :
          \/ ContextRead(r, TRUE) /\ UNCHANGED breaks
          \/ ContextRead(r, FALSE) /\ Breaks
  /\ UNCHANGED <<selectedLogs, preview, previews, texts, models, edits, openings, calm,
                 run, result>>

ModalStep ==
  /\ \/ \E ok \in BOOLEAN :
          \/ \E p \in previews : PreviewAnswered(p, ok)
          \/ \E l \in modelLoads : ModelsAnswered(l, ok)
     \/ ShowAnalysis(Showing) \/ ShowFull(Showing)
     \/ handlePromptChange(Showing) \/ handleResetPrompt(Showing)
     \/ \E ctx \in Contexts : handleUserContextChange(ctx, Showing)
     \/ CancelFallback(Showing) \/ addFallback(Showing) \/ TypePrimary(Showing)
     \/ \E p \in Providers : handleProviderChange(p, Showing)
     \/ \E i \in DOMAIN fallbackList :
          removeFallback(i, Showing) \/ \E d \in {-1, 1} : moveFallback(i, d, Showing)
     \/ \E name \in Models :
          \/ PickPrimary(name, Showing) \/ UseDropdown(name, Showing)
          \/ \E typed \in BOOLEAN : PickFallback(name, typed, Showing)
  /\ UNCHANGED <<drawerVars, run, result>>

\* The server's side and the network's.
RunStep ==
  \/ \E ok \in BOOLEAN : StreamAnswered(ok) \/ DirectAnswered(ok)
  \/ \E out \in {"ok", "failed", "overloaded"} : ModelAnswers(out)
  \/ EventArrives \/ StreamBreaks \/ StreamEnds

Next ==
  \/ \E L \in Selections : handleLaunchAiAnalysis(L)
  \/ ExplainWithAi \/ handleInspectTargetAndContext
  \/ Close \/ BackToPreview \/ handleRunAnalysis
  \/ DrawerStep \/ ModalStep \/ RunStep

\* The server answers: every call of a model has a timeout, and the stream is read as
\* it comes.
Spec == Init /\ [][Next]_vars /\ WF_vars(RunStep)

-----------------------------------------------------------------------------
\* What the server would send to the AI, were the button pressed now, is what the modal
\* shows, whichever view it is in and whatever was edited, unless a preview asked for by
\* an earlier opening can still arrive, or the text or the instructions were emptied
\* (AiAnalysisModal.tsx:83-113, 265-348, 494-529; ai_service.py:198-227; SPEC.md:191).
SentIsShown ==
  (CanRun /\ calm) =>
    /\ ShownPrompt.user \in {Blank, SentUser(Overrides.user, selectedLogs, userContext)}
    /\ ShownPrompt.system \in {"", SentSystem(Overrides.system)}

\* A result is shown for the logs it is about, unless an earlier opening left a run or a
\* preview under way (AiAnalysisModal.tsx:115-133, 394).
ResultBelongs == (calm /\ selectedLogs # {} /\ ~Showing) => result = selectedLogs

\* While the modal stays open, the model it names is the one the server asks, and those
\* struck out are the ones before it, once every event has arrived
\* (AiAnalysisModal.tsx:358-391; ai_engine.py:646-740).
ProgressTrue ==
  (run # NoRun /\ run.step = "streamed" /\ run.watched /\ run.events = <<>>) =>
    /\ run.progress.current = run.chain[run.at]
    /\ run.progress.failed = {run.chain[i] : i \in 1 .. run.at - 1}

\* SPEC.md:195: "Outbound API calls occur only when the user explicitly clicks".  A
\* diagnosis the server has answered is not asked for again.
AnsweredOnce == run # NoRun /\ run.step = "direct" => run.answer = None

\* AiAnalysisModal.tsx:735: with an empty list, "No fallback models configured for this
\* analysis."  The models that would be asked are those on the screen.
AsksShownModels ==
  CanRun => Range(modelsToTry) = {choice.model} \cup Range(fallbackList)

\* Every run ends, whatever fails, and the button can be pressed again
\* (AiAnalysisModal.tsx:396-399; ai.ts:28-91).
RunEnds == isDiagnosing ~> ~isDiagnosing

=============================================================================
