----------------------------- MODULE SettingsPanel ------------------------------
(***************************************************************************)
(* frontend/src/components/settings/SettingsPanel.tsx: the form for the    *)
(* system settings.  It is filled from the server when the panel is        *)
(* mounted, edited, and saved by its own bar or by the dialog that guards  *)
(* the way out (Console.tla).  A save stores the form, reads the settings  *)
(* back and fills the form again.  The API key, the base URL, the          *)
(* instructions, the log level and the update check are one value, rest.   *)
(***************************************************************************)
EXTENDS Session, Sequences, FiniteSets, SequencesExt

CONSTANTS
  Providers, Models, Rests,
  Typed,        \* the models the operator types
  Offered,      \* the models a provider offers
  FirstForm,    \* the settings on the server at the start
  DefaultForm,  \* the form before any settings are read
  MaxEdits      \* bound of the model: what the operator does in the form

NoForm == [provider |-> "none", model |-> "none", fallbacks |-> <<>>, rest |-> "none"]
NoTab == "none"

VARIABLES
  stored,        \* server: the settings
  settings,      \* the baseline, NoForm until it is read
  form,
  reading,       \* the first read, and what it brought
  saves,         \* calls of executeSave that have not returned
  models,        \* availableModels
  modelLoads,    \* calls of loadModels that have not returned
  loadingModels,
  customModel,   \* isCustomModel
  adding,        \* the fallback chosen or typed, and whether it is typed
  changing,      \* the change of the password: "none", "sent", or "left" when the
                 \* panel that asked for it is gone
  signOut,       \* the timer that signs out after a change of the password
  draft,         \* history: the form as the operator last left it, while it is
                 \* not saved, and whether nothing was under way that could
                 \* overwrite it
  edits

contents == <<settings, form>>
offers == <<models, modelLoads, loadingModels>>
choice == <<customModel, adding>>
passwords == <<changing, signOut>>
settingsVars == <<stored, contents, reading, saves, offers, choice, passwords, draft, edits>>

Idle == [status |-> "none", value |-> NoForm]
Asked == [status |-> "sent", value |-> NoForm]
NoDraft == [form |-> NoForm, quiet |-> FALSE]
NotAdding == [typed |-> FALSE, name |-> ""]

Forms == [provider : Providers, model : Models, fallbacks : Seq(Models), rest : Rests]

ASSUME SettingsAssumption ==
  /\ Offered \in [Providers -> SUBSET Models]
  /\ {FirstForm, DefaultForm} \subseteq Forms
  /\ Typed \subseteq Models /\ MaxEdits \in Nat

SettingsTypeOK ==
  /\ {stored, form} \subseteq Forms /\ settings \in Forms \cup {NoForm}
  /\ reading.status \in {"none", "sent", "ok", "failed", "denied"}
  /\ \A s \in saves :
       /\ s.step \in {"store", "read"} /\ s.status \in {"sent", "ok", "failed", "denied"}
       /\ s.target \in Tabs \cup {NoTab} /\ s.value \in Forms /\ s.live \in BOOLEAN
  /\ models \subseteq Models
  /\ \A l \in modelLoads : l.provider \in Providers
  /\ {loadingModels, customModel, adding.typed, signOut} \subseteq BOOLEAN
  /\ adding.name \in Models \cup {""}
  /\ changing \in {"none", "sent", "left"}
  /\ draft.form \in Forms \cup {NoForm}
  /\ edits \in 0 .. MaxEdits

isSavingSettings == \E s \in saves : s.live
\* The panel is on the screen and past its loading screen.
Ready == Shown("settings") /\ reading.status = "none"

-----------------------------------------------------------------------------
\* Mutated forms of the definitions below.

\* Only the model is compared.
DirtyModel == settings # NoForm /\ form.model # settings.model

\* What was read fills the form even when the read failed.
LoadUnchecked ==
  /\ reading.status \in {"ok", "failed"}
  /\ reading' = Idle
  /\ settings' = reading.value /\ form' = reading.value
  /\ UNCHANGED <<stored, saves, offers, choice, passwords, draft, edits>>
-----------------------------------------------------------------------------
isDirty == settings # NoForm /\ form # settings

\* Mounting and unmounting.  A call outlives the panel that made it: executeSave
\* goes on, and reports to the dialog that called it.

FreeId(calls) == CHOOSE i \in 1 .. Cardinality(calls) + 1 : \A c \in calls : c.id # i

\* What goes on of the saves of a panel that is unmounted: what the server has yet to
\* store, and what the dialog waits for.
Outlive(S) == {[s EXCEPT !.live = FALSE] :
                 s \in {c \in S : (c.status = "sent" /\ c.step = "store") \/ c.target # NoTab}}

SettingsMount(open, S) ==
  /\ saves' = IF open THEN S ELSE Outlive(S)
  /\ settings' = NoForm /\ form' = DefaultForm
  /\ reading' = IF open THEN Asked ELSE Idle
  /\ models' = {} /\ modelLoads' = {} /\ loadingModels' = FALSE
  /\ customModel' = FALSE /\ adding' = NotAdding
  /\ changing' = IF changing = "none" THEN "none" ELSE "left"

LoadModels(p) ==
  /\ modelLoads' = modelLoads \cup
       {[id |-> FreeId(modelLoads), provider |-> p, status |-> "sent"]}
  /\ loadingModels' = TRUE

ServeSettings(o) ==
  /\ reading.status = "sent"
  /\ Outcome(o)
  /\ reading' = [status |-> o, value |-> IF o = "ok" THEN stored ELSE NoForm]
  /\ UNCHANGED <<stored, contents, saves, offers, choice, passwords, draft, edits>>

loadSettings ==
  /\ reading.status \in {"ok", "failed"}
  /\ reading' = Idle
  /\ IF reading.status = "ok"
     THEN /\ settings' = reading.value /\ form' = reading.value
          /\ LoadModels(reading.value.provider)
     ELSE UNCHANGED <<settings, form, modelLoads, loadingModels>>
  /\ UNCHANGED <<stored, saves, models, choice, passwords, draft, edits>>

\* A list of models arrives; loadModels does not ask for which provider.
ModelsAnswered(l, ok) ==
  /\ l \in modelLoads
  /\ \/ ok /\ cookie /\ models' = Offered[l.provider] /\ UNCHANGED breaks
     \/ ~ok /\ breaks < MaxBreaks /\ breaks' = breaks + 1 /\ models' = {}
  /\ modelLoads' = modelLoads \ {l}
  /\ loadingModels' = FALSE
  /\ UNCHANGED <<stored, contents, reading, saves, choice, passwords, draft, edits>>

\* The operator does something in the panel.
Acts == Ready /\ edits < MaxEdits /\ edits' = edits + 1

RefreshModels ==
  /\ Acts /\ ~loadingModels
  /\ LoadModels(form.provider)
  /\ UNCHANGED <<stored, contents, reading, saves, models, choice, passwords, draft>>

-----------------------------------------------------------------------------
\* Editing.  No field is disabled while a save is under way.

Quiet == settings # NoForm /\ \A s \in saves : ~s.live /\ s.target = NoTab

Edit(f) ==
  /\ Acts
  /\ form' = f
  /\ draft' = IF f = form THEN draft
              ELSE IF f = settings THEN NoDraft ELSE [form |-> f, quiet |-> Quiet]
  /\ UNCHANGED <<stored, settings, reading, saves, models, passwords>>

EditRest(r) ==
  /\ r # form.rest
  /\ Edit([form EXCEPT !.rest = r])
  /\ UNCHANGED <<modelLoads, loadingModels, choice>>

handleProviderChange(p) ==
  /\ p # form.provider
  /\ Edit([form EXCEPT !.provider = p])
  /\ customModel' = FALSE /\ adding' = NotAdding
  /\ LoadModels(p)

\* The buttons of the first and of the last fallback are disabled.
CanMove(i, d) == {i, i + d} \subseteq DOMAIN form.fallbacks

moveFallback(i, d) ==
  /\ CanMove(i, d)
  /\ Edit([form EXCEPT !.fallbacks =
             InsertAt(RemoveAt(form.fallbacks, i), i + d, form.fallbacks[i])])
  /\ UNCHANGED <<modelLoads, loadingModels, choice>>

removeFallback(i) ==
  /\ i \in DOMAIN form.fallbacks
  /\ Edit([form EXCEPT !.fallbacks = RemoveAt(form.fallbacks, i)])
  /\ UNCHANGED <<modelLoads, loadingModels, choice>>

\* The choice of a fallback: from the list, or typed after all.
ChooseFallback(m) ==
  /\ Acts /\ ~adding.typed /\ m \in models \ (Range(form.fallbacks) \cup {form.model})
  /\ adding' = [typed |-> FALSE, name |-> m]
  /\ UNCHANGED <<stored, contents, reading, saves, offers, customModel, passwords, draft>>

TypeFallback(m) ==
  /\ Acts /\ m \in Typed /\ adding' = [typed |-> TRUE, name |-> m] /\ adding' # adding
  /\ UNCHANGED <<stored, contents, reading, saves, offers, customModel, passwords, draft>>

CancelFallback ==
  /\ Acts /\ adding.typed
  /\ adding' = NotAdding
  /\ UNCHANGED <<stored, contents, reading, saves, offers, customModel, passwords, draft>>

addFallback ==
  /\ adding.name # ""
  /\ Edit(IF adding.name \in Range(form.fallbacks) THEN form
          ELSE [form EXCEPT !.fallbacks = Append(@, adding.name)])
  /\ adding' = NotAdding
  /\ UNCHANGED <<modelLoads, loadingModels, customModel>>

\* The fallbacks but m: among the first n of them, for every n.
Without(m, list) ==
  LET upTo[n \in 0 .. Len(list)] ==
        IF n = 0 THEN <<>>
        ELSE IF list[n] = m THEN upTo[n - 1] ELSE Append(upTo[n - 1], list[n])
  IN  upTo

\* The model m, which is no fallback of itself.
WithPrimary(m) ==
  [form EXCEPT !.model = m,
               !.fallbacks = Without(m, form.fallbacks)[Len(form.fallbacks)]]

\* The primary model: from the list when there is one, typed otherwise.
ChoosePrimary(m) ==
  /\ m # form.model
  /\ IF models # {} /\ ~customModel THEN m \in models \ Range(form.fallbacks) ELSE m \in Typed
  /\ Edit(WithPrimary(m))
  /\ UNCHANGED <<modelLoads, loadingModels, choice>>

TypeModel ==
  /\ Acts /\ models # {} /\ ~customModel
  /\ customModel' = TRUE
  /\ UNCHANGED <<stored, contents, reading, saves, offers, adding, passwords, draft>>

UseDropdown(m) ==
  /\ customModel
  /\ LET valid == models \ Range(form.fallbacks)
     IN  IF models = {} THEN Edit(form)
         ELSE /\ m \in IF valid # {} THEN valid ELSE models
              /\ Edit(WithPrimary(m))
  /\ customModel' = FALSE
  /\ UNCHANGED <<modelLoads, loadingModels, adding>>

handleResetChanges ==
  /\ Ready /\ isDirty /\ ~isSavingSettings
  /\ form' = settings /\ customModel' = FALSE /\ adding' = NotAdding
  /\ IF form.provider # settings.provider
     THEN LoadModels(settings.provider) ELSE UNCHANGED <<modelLoads, loadingModels>>
  /\ draft' = NoDraft
  /\ UNCHANGED <<stored, settings, reading, saves, models, passwords, edits>>

-----------------------------------------------------------------------------
\* Saving.

CanSave == Ready /\ isDirty /\ ~isSavingSettings

executeSave(target) ==
  /\ CanSave
  /\ saves' = saves \cup
       {[id |-> FreeId(saves), step |-> "store", status |-> "sent", value |-> form,
         target |-> target, live |-> TRUE]}
  /\ UNCHANGED <<stored, contents, reading, offers, choice, passwords, draft, edits>>

\* The server: POST /api/settings stores the form, GET reads what is stored.  A
\* call that fails may have been carried out.
ServeSave(s, o) ==
  /\ s \in saves /\ s.status = "sent"
  /\ Outcome(o)
  /\ \/ /\ s.step = "store" /\ (o = "ok" \/ (o = "failed" /\ cookie))
        /\ stored' = s.value
     \/ (s.step = "read" \/ o # "ok") /\ UNCHANGED stored
  /\ saves' = (saves \ {s}) \cup
       {[s EXCEPT !.status = o,
                  !.value = IF s.step = "read" /\ o = "ok" THEN stored ELSE @]}
  /\ UNCHANGED <<contents, reading, offers, choice, passwords, draft, edits>>

SaveStored(s) ==
  /\ s \in saves /\ s.step = "store" /\ s.status = "ok"
  /\ saves' = (saves \ {s}) \cup {[s EXCEPT !.step = "read", !.status = "sent"]}
  /\ draft' = IF s.live /\ draft.form = s.value THEN NoDraft ELSE draft
  /\ UNCHANGED <<stored, contents, reading, offers, choice, passwords, edits>>

\* The settings that were read back fill the form of the panel that saved.
SaveAdopted(s) ==
  IF s.live
  THEN /\ settings' = s.value /\ form' = s.value
       /\ draft' = NoDraft
       /\ LoadModels(s.value.provider)
  ELSE UNCHANGED <<settings, form, draft, modelLoads, loadingModels>>

\* executeSave returns to the bar: true when everything went well.
SaveReturns(s) ==
  /\ s \in saves /\ s.target = NoTab
  /\ s.status = "failed" \/ (s.step = "read" /\ s.status = "ok")
  /\ saves' = saves \ {s}
  /\ IF s.status = "ok" THEN SaveAdopted(s)
     ELSE UNCHANGED <<settings, form, draft, modelLoads, loadingModels>>
  /\ UNCHANGED <<stored, reading, models, choice, passwords, edits>>

-----------------------------------------------------------------------------
\* The password form.

handleChangePassword ==
  /\ Acts /\ changing = "none"
  /\ changing' = "sent"
  /\ UNCHANGED <<stored, contents, reading, saves, offers, choice, signOut, draft>>

\* The server changes the password and clears the cookie; a wrong password is
\* refused with an error that does not end the session.
PasswordAnswered(ok) ==
  /\ changing # "none" /\ changing' = "none"
  /\ cookie
  /\ IF ok
     THEN cookie' = FALSE /\ signOut' = TRUE /\ notice' = "stored"
     ELSE UNCHANGED <<cookie, signOut, notice>>
  /\ UNCHANGED <<stored, contents, reading, saves, offers, choice, draft, edits>>

=============================================================================
