------------------------------ MODULE ConsoleProofs ------------------------------
(***************************************************************************)
(* Proofs about Console, for every set of tabs, models, analyses and       *)
(* addresses and any number of calls under way: the address names the      *)
(* panel, edits survive, the panels of the storage and the aliases show    *)
(* what the server keeps, and every variable has its type.                 *)
(***************************************************************************)
EXTENDS Console, FiniteSetTheorems, SequenceTheorems, WellFoundedInduction, TLAPS

-----------------------------------------------------------------------------
\* The address.

LEMMA PathStep == PathFollowsTab /\ [Next]_vars => PathFollowsTab'
<1> SUFFICES ASSUME PathFollowsTab, [Next]_vars PROVE path' = tab'
  BY DEF PathFollowsTab
<1> USE DEF PathFollowsTab
<1>1. CASE UNCHANGED vars
  BY <1>1 DEF vars, appVars, sessionVars
<1>2. CASE SettingsStep
  BY <1>2 DEF SettingsStep
<1>3. CASE StorageStep \/ AliasStep
  BY <1>3 DEF StorageStep, AliasStep, appVars
<1>4. CASE AppStep
  <2>1. ASSUME NEW t, handleTabChange(t) \/ handlePopState(t) PROVE path' = tab'
    BY <2>1 DEF handleTabChange, handlePopState, Go
  <2>2. ASSUME NEW i, handleAddAliasFromLog(i) PROVE path' = tab'
    BY <2>2 DEF handleAddAliasFromLog, Go
  <2>3. CASE KeepEditing \/ DiscardAndLeave \/ SaveAndContinue
    BY <2>3 DEF KeepEditing, DiscardAndLeave, SaveAndContinue, Go, sessionVars
  <2>4. ASSUME NEW s, ModalSaveReturns(s) PROVE path' = tab'
    BY <2>4 DEF ModalSaveReturns, Go
  <2>5. CASE handleUnauthorized
    BY <2>5 DEF handleUnauthorized, SessionLost
  <2>6. CASE SessionStep
    BY <2>6 DEF SessionStep, refreshAuth, login, setup, SubmitLogin, SubmitSetup, SignOut, Expire
  <2>7. CASE Restart
    BY <2>7 DEF Restart, Reload, logout, Reloads
  <2>8. CASE SignOutTimer
    BY <2>8 DEF SignOutTimer, appVars
  <2> QED BY <1>4, <2>1, <2>2, <2>3, <2>4, <2>5, <2>6, <2>7, <2>8 DEF AppStep, TabPressed
<1> QED BY <1>1, <1>2, <1>3, <1>4 DEF Next

\* The address bar and the panel agree after every click, Back, Forward, answer
\* of the dialog, late navigation of a save, login and reload (App.tsx:69-275).
THEOREM ConsolePathFollowsTab == Spec => []PathFollowsTab
<1>1. Init => PathFollowsTab
  BY DEF Init, PathFollowsTab
<1> QED BY <1>1, PathStep, PTL DEF Spec

-----------------------------------------------------------------------------
\* The settings.

\* The fields of a call of executeSave.
IsSave(s) ==
  s = [id |-> s.id, step |-> s.step, status |-> s.status, value |-> s.value,
       target |-> s.target, live |-> s.live]

LEMMA SaveLeft ==
  ASSUME NEW c, IsSave(c), NEW x, x = [c EXCEPT !.live = FALSE]
  PROVE  IsSave(x) /\ ~ x.live /\ x.target = c.target
<1>1. PICK i, u, v, w, t, l :
        c = [id |-> i, step |-> u, status |-> v, value |-> w, target |-> t, live |-> l]
  BY DEF IsSave
<1> QED BY <1>1 DEF IsSave

LEMMA SaveForgotten ==
  ASSUME NEW c, IsSave(c), NEW x, x = [c EXCEPT !.target = NoTab]
  PROVE  IsSave(x) /\ x.target = NoTab /\ x.live = c.live
<1>1. PICK i, u, v, w, t, l :
        c = [id |-> i, step |-> u, status |-> v, value |-> w, target |-> t, live |-> l]
  BY DEF IsSave
<1> QED BY <1>1 DEF IsSave

LEMMA SaveReads ==
  ASSUME NEW c, IsSave(c), NEW x, x = [c EXCEPT !.step = "read", !.status = "sent"]
  PROVE  IsSave(x) /\ x.step = "read" /\ x.target = c.target /\ x.live = c.live
<1>1. PICK i, u, v, w, t, l :
        c = [id |-> i, step |-> u, status |-> v, value |-> w, target |-> t, live |-> l]
  BY DEF IsSave
<1> QED BY <1>1 DEF IsSave

\* A save belongs to the panel on the screen, past its loading screen, or to one that
\* is gone, and none leads back to the settings.
SavesAgree ==
  \A s \in saves : IsSave(s) /\ s.target # "settings" /\ (s.live => Ready)
BaselineRead ==
  /\ settings # NoForm => Ready
  /\ reading.status # "none" => Shown("settings")
DirtyKnown == Shown("settings") => dirty = isDirty
AskedFirst == asked = "status" => screen = "loading"

\* What was typed differs from the baseline, so that App keeps the operator, and a
\* save that could overwrite it carries it and has yet to be stored.
DraftShown ==
  draft.quiet =>
    /\ isDirty /\ form = draft.form
    /\ \A s \in saves :
         s.live \/ s.target # NoTab => s.live /\ s.step = "store" /\ s.value = form

EditsInv ==
  /\ PathFollowsTab /\ pendingTab # "settings"
  /\ SavesAgree /\ BaselineRead /\ DirtyKnown /\ AskedFirst /\ DraftShown

\* What mounting and unmounting does to the settings, when S is left of the saves.
Leftover(S) == \A s \in S : IsSave(s) /\ s.target # "settings" /\ (s.live => Ready)

LEMMA PanelsKeep ==
  ASSUME BaselineRead, NEW S, Leftover(S), NEW T, NEW O, Panels(S, T, O)
  PROVE  /\ SavesAgree' /\ BaselineRead'
         /\ Shown("settings") /\ ShownNext("settings") => UNCHANGED contents /\ saves' = S
<1>1. Shown("settings")' = ShownNext("settings")
  BY DEF Shown, ShownNext
<1>2. CASE Shown("settings") = ShownNext("settings")
  <2>1. UNCHANGED <<contents, reading>> /\ saves' = S
    BY <1>2 DEF Panels
  <2>2. Ready' = Ready /\ Shown("settings")' = Shown("settings")
    BY <1>1, <1>2, <2>1 DEF Ready
  <2> QED BY <2>1, <2>2 DEF Leftover, SavesAgree, BaselineRead, contents
<1>3. CASE Shown("settings") # ShownNext("settings")
  <2>1. SettingsMount(ShownNext("settings"), S)
    BY <1>3 DEF Panels
  <2>2. settings' = NoForm /\ (reading'.status # "none" => ShownNext("settings"))
    BY <2>1 DEF SettingsMount, Idle
  <2>3. ASSUME NEW s \in saves'
        PROVE  IsSave(s) /\ s.target # "settings" /\ ~ s.live
    <3>1. CASE ShownNext("settings")
      BY <1>3, <2>1, <2>3, <3>1 DEF SettingsMount, Leftover, Ready, Shown
    <3>2. CASE ~ ShownNext("settings")
      <4>1. PICK c \in S : s = [c EXCEPT !.live = FALSE]
        BY <2>1, <2>3, <3>2 DEF SettingsMount, Outlive
      <4> QED BY <4>1, SaveLeft DEF Leftover
    <3> QED BY <3>1, <3>2
  <2>4. ~ (Shown("settings") /\ ShownNext("settings"))
    BY <1>3 DEF Shown, ShownNext
  <2> QED BY <1>1, <2>2, <2>3, <2>4 DEF SavesAgree, BaselineRead
<1> QED BY <1>2, <1>3

\* A step of the panel, which stays on the screen or off it.
EditsAgree == SavesAgree /\ BaselineRead /\ DraftShown
Stays == UNCHANGED <<screen, tab>>

LEMMA StillShown ==
  ASSUME Stays
  PROVE  /\ Shown("settings")' = Shown("settings")
         /\ reading' = reading => Ready' = Ready
BY DEF Stays, Shown, Ready

LEMMA FormAloneKeeps ==
  ASSUME EditsAgree, Stays, UNCHANGED <<contents, reading, saves, draft>>
  PROVE  EditsAgree'
BY StillShown
DEF EditsAgree, SavesAgree, BaselineRead, DraftShown, contents, isDirty

\* An edit hides nothing that a save under way may overwrite.
LEMMA EditKeeps ==
  ASSUME EditsAgree, Stays, NEW f, Edit(f)
  PROVE  EditsAgree'
<1> USE DEF Edit
<1>1. /\ Ready' = Ready /\ Shown("settings")' = Shown("settings")
      /\ UNCHANGED <<settings, saves, reading>> /\ form' = f
  BY StillShown
<1>2. SavesAgree' /\ BaselineRead'
  BY <1>1 DEF EditsAgree, SavesAgree, BaselineRead
<1>3. DraftShown'
  <2>1. CASE f = form
    BY <1>1, <2>1 DEF EditsAgree, DraftShown, isDirty
  <2>2. CASE f # form /\ f = settings
    BY <2>2 DEF DraftShown, NoDraft
  <2>3. CASE f # form /\ f # settings
    <3>1. draft' = [form |-> f, quiet |-> Quiet]
      BY <2>3
    <3>2. draft'.form = f /\ draft'.quiet = Quiet
      BY <3>1
    <3> QED BY <1>1, <2>3, <3>2 DEF DraftShown, Quiet, isDirty
  <2> QED BY <2>1, <2>2, <2>3
<1> QED BY <1>2, <1>3 DEF EditsAgree

\* A read fills the form of a panel that was not ready, in which nothing was typed
\* yet.
LEMMA ReadKeeps ==
  ASSUME EditsAgree, Stays, loadSettings \/ \E o \in {"ok", "denied", "failed"} : ServeSettings(o)
  PROVE  EditsAgree'
<1>1. reading.status # "none" /\ UNCHANGED <<saves, draft>>
  BY DEF loadSettings, ServeSettings
<1>2. ~ Ready
  BY <1>1 DEF Ready
<1>3. settings = NoForm /\ ~ draft.quiet /\ \A s \in saves : ~ s.live
  BY <1>2 DEF EditsAgree, SavesAgree, BaselineRead, DraftShown, isDirty
<1>4. SavesAgree' /\ DraftShown'
  BY <1>1, <1>3 DEF EditsAgree, SavesAgree, DraftShown
<1>5. BaselineRead'
  <2>1. Shown("settings")'
    BY <1>1, StillShown DEF EditsAgree, BaselineRead
  <2>2. CASE loadSettings
    BY <2>1, <2>2 DEF loadSettings, Idle, Ready, BaselineRead
  <2>3. CASE \E o \in {"ok", "denied", "failed"} : ServeSettings(o)
    BY <1>3, <2>1, <2>3 DEF ServeSettings, BaselineRead, contents
  <2> QED BY <2>2, <2>3
<1> QED BY <1>4, <1>5 DEF EditsAgree

\* A save that is answered.
LEMMA ServeSaveKeeps ==
  ASSUME EditsAgree, Stays, NEW s, NEW o, ServeSave(s, o)
  PROVE  EditsAgree'
<1>1. /\ s \in saves /\ IsSave(s) /\ s.target # "settings" /\ (s.live => Ready)
      /\ UNCHANGED <<contents, reading, draft>>
  BY DEF ServeSave, EditsAgree, SavesAgree
<1>2. PICK f, x : /\ x = [s EXCEPT !.status = o, !.value = f]
                  /\ f = (IF s.step = "read" /\ o = "ok" THEN stored ELSE s.value)
                  /\ saves' = (saves \ {s}) \cup {x}
  BY DEF ServeSave
<1>3. /\ IsSave(x) /\ x.step = s.step /\ x.value = f
      /\ x.target = s.target /\ x.live = s.live
  <2>1. IsSave(s) /\ x = [s EXCEPT !.status = o, !.value = f]
    BY <1>1, <1>2
  <2>2. PICK i, u, v, w, t, l :
          s = [id |-> i, step |-> u, status |-> v, value |-> w, target |-> t, live |-> l]
    BY <2>1 DEF IsSave
  <2> QED BY <2>1, <2>2 DEF IsSave
<1>4. Ready' = Ready /\ Shown("settings")' = Shown("settings")
  BY <1>1, StillShown
<1>5. SavesAgree' /\ BaselineRead'
  BY <1>1, <1>2, <1>3, <1>4 DEF EditsAgree, SavesAgree, BaselineRead, contents
<1>6. DraftShown'
  <2> SUFFICES ASSUME draft.quiet
               PROVE  /\ isDirty /\ form = draft.form
                      /\ \A c \in saves' :
                           c.live \/ c.target # NoTab => c.live /\ c.step = "store" /\ c.value = form
    BY <1>1 DEF DraftShown, contents, isDirty
  <2>1. /\ isDirty /\ form = draft.form
        /\ \A c \in saves :
             c.live \/ c.target # NoTab => c.live /\ c.step = "store" /\ c.value = form
    BY DEF EditsAgree, DraftShown
  <2>2. x.live \/ x.target # NoTab => x.live /\ x.step = "store" /\ x.value = form
    BY <1>1, <1>2, <1>3, <2>1
  <2> QED BY <1>2, <2>1, <2>2
<1> QED BY <1>5, <1>6 DEF EditsAgree

LEMMA SaveStoredKeeps ==
  ASSUME EditsAgree, Stays, NEW s, SaveStored(s)
  PROVE  EditsAgree'
<1>1. /\ s \in saves /\ IsSave(s) /\ s.target # "settings" /\ (s.live => Ready)
      /\ UNCHANGED <<contents, reading>>
  BY DEF SaveStored, EditsAgree, SavesAgree
<1>2. PICK x : /\ x = [s EXCEPT !.step = "read", !.status = "sent"]
               /\ saves' = (saves \ {s}) \cup {x}
  BY DEF SaveStored
<1>3. IsSave(x) /\ x.target = s.target /\ x.live = s.live
  BY <1>1, <1>2, SaveReads
<1>4. Ready' = Ready /\ Shown("settings")' = Shown("settings")
  BY <1>1, StillShown
<1>5. SavesAgree' /\ BaselineRead'
  BY <1>1, <1>2, <1>3, <1>4 DEF EditsAgree, SavesAgree, BaselineRead, contents
<1>6. DraftShown'
  <2>1. CASE s.live /\ draft.form = s.value
    BY <2>1 DEF SaveStored, DraftShown, NoDraft
  <2>2. CASE ~ (s.live /\ draft.form = s.value)
    <3>1. draft' = draft
      BY <2>2 DEF SaveStored
    <3>2. draft.quiet => ~ s.live /\ s.target = NoTab
      BY <1>1, <2>2 DEF EditsAgree, DraftShown
    <3> QED BY <1>1, <1>2, <1>3, <3>1, <3>2 DEF EditsAgree, DraftShown, contents, isDirty
  <2> QED BY <2>1, <2>2
<1> QED BY <1>5, <1>6 DEF EditsAgree

LEMMA SaveReturnsKeeps ==
  ASSUME EditsAgree, Stays, NEW s, SaveReturns(s)
  PROVE  EditsAgree'
<1>1. s \in saves /\ (s.live => Ready) /\ UNCHANGED reading /\ saves' = saves \ {s}
  BY DEF SaveReturns, EditsAgree, SavesAgree
<1>2. Ready' = Ready /\ Shown("settings")' = Shown("settings")
  BY <1>1, StillShown
<1>3. SavesAgree'
  BY <1>1, <1>2 DEF EditsAgree, SavesAgree
<1>4. CASE s.status = "ok" /\ s.live
  <2>1. draft' = NoDraft
    BY <1>4 DEF SaveReturns, SaveAdopted
  <2> QED BY <1>1, <1>2, <1>3, <1>4, <2>1 DEF EditsAgree, BaselineRead, DraftShown, NoDraft, Ready
<1>5. CASE ~ (s.status = "ok" /\ s.live)
  <2>1. UNCHANGED <<settings, form, draft>>
    BY <1>5 DEF SaveReturns, SaveAdopted
  <2> QED BY <1>1, <1>2, <1>3, <2>1 DEF EditsAgree, BaselineRead, DraftShown, isDirty
<1> QED BY <1>4, <1>5

LEMMA ExecuteSaveKeeps ==
  ASSUME EditsAgree, Stays, NEW t, t # "settings", executeSave(t)
  PROVE  EditsAgree'
<1>1. UNCHANGED <<contents, reading, draft>> /\ Ready
  BY DEF executeSave, CanSave
<1>2. PICK x : /\ \E i : x = [id |-> i, step |-> "store", status |-> "sent", value |-> form,
                              target |-> t, live |-> TRUE]
               /\ saves' = saves \cup {x}
  BY DEF executeSave
<1>3. IsSave(x) /\ x.live /\ x.target = t /\ x.step = "store" /\ x.value = form
  BY <1>2 DEF IsSave
<1>4. Ready' = Ready /\ Shown("settings")' = Shown("settings")
  BY <1>1, StillShown
<1> QED BY <1>1, <1>2, <1>3, <1>4
      DEF EditsAgree, SavesAgree, BaselineRead, DraftShown, contents, isDirty

LEMMA ResetKeeps ==
  ASSUME EditsAgree, Stays, handleResetChanges
  PROVE  EditsAgree'
BY StillShown
DEF handleResetChanges, EditsAgree, SavesAgree, BaselineRead, DraftShown, NoDraft

\* The panel does what the operator or the server asked of it.
LEMMA SettingsStepKeeps ==
  ASSUME EditsInv, SettingsStep, PathFollowsTab'
  PROVE  EditsInv'
<1>1. Stays /\ UNCHANGED <<asked, pendingTab>> /\ EditsAgree
  BY DEF SettingsStep, Stays, EditsInv, EditsAgree
<1>2. DirtyKnown' /\ AskedFirst' /\ pendingTab' # "settings"
  BY <1>1, StillShown DEF SettingsStep, DirtyKnown, EditsInv, AskedFirst, Stays
<1>3. EditsAgree'
  <2>1. ASSUME NEW o \in {"ok", "denied", "failed"}, ServeSettings(o) PROVE EditsAgree'
    BY <1>1, <2>1, ReadKeeps
  <2>2. ASSUME NEW s, NEW o, ServeSave(s, o) PROVE EditsAgree'
    BY <1>1, <2>2, ServeSaveKeeps
  <2>3. ASSUME NEW l, NEW ok, ModelsAnswered(l, ok) PROVE EditsAgree'
    BY <1>1, <2>3, FormAloneKeeps DEF ModelsAnswered
  <2>4. ASSUME NEW ok, PasswordAnswered(ok) PROVE EditsAgree'
    BY <1>1, <2>4, FormAloneKeeps DEF PasswordAnswered
  <2>5. CASE loadSettings
    BY <1>1, <2>5, ReadKeeps
  <2>6. ASSUME NEW s, SaveStored(s) \/ SaveReturns(s) PROVE EditsAgree'
    BY <1>1, <2>6, SaveStoredKeeps, SaveReturnsKeeps
  <2>7. CASE RefreshModels \/ CancelFallback \/ TypeModel \/ handleChangePassword
    BY <1>1, <2>7, FormAloneKeeps
    DEF RefreshModels, CancelFallback, TypeModel, handleChangePassword
  <2>8. ASSUME NEW m, ChooseFallback(m) \/ TypeFallback(m) PROVE EditsAgree'
    BY <1>1, <2>8, FormAloneKeeps DEF ChooseFallback, TypeFallback
  <2>9. CASE addFallback
    BY <1>1, <2>9, EditKeeps DEF addFallback
  <2>10. CASE handleResetChanges
    BY <1>1, <2>10, ResetKeeps
  <2>11. CASE executeSave(NoTab)
    BY <1>1, <2>11, ExecuteSaveKeeps DEF NoTab
  <2>12. ASSUME NEW r, EditRest(r) \/ handleProviderChange(r) \/ removeFallback(r)
         PROVE  EditsAgree'
    BY <1>1, <2>12, EditKeeps DEF EditRest, handleProviderChange, removeFallback
  <2>13. ASSUME NEW i, NEW d, moveFallback(i, d) PROVE EditsAgree'
    BY <1>1, <2>13, EditKeeps DEF moveFallback
  <2>14. ASSUME NEW m, ChoosePrimary(m) PROVE EditsAgree'
    BY <1>1, <2>14, EditKeeps DEF ChoosePrimary
  <2>15. ASSUME NEW m, UseDropdown(m) PROVE EditsAgree'
    <3>1. Edit(form) \/ Edit(WithPrimary(m))
      BY <2>15 DEF UseDropdown
    <3> QED BY <1>1, <3>1, EditKeeps
  <2> QED BY <2>1, <2>2, <2>3, <2>4, <2>5, <2>6, <2>7, <2>8, <2>9, <2>10, <2>11, <2>12,
             <2>13, <2>14, <2>15 DEF SettingsStep, SettingsCall, SettingsAct
<1> QED BY <1>2, <1>3 DEF EditsInv, EditsAgree

\* Panels come and go.  A draft is given up, or its panel stays.
LEMMA LeaveKeeps ==
  ASSUME EditsAgree, NEW S, S \subseteq saves, NEW T, NEW O, Panels(S, T, O),
         draft' = NoDraft \/ (draft' = draft /\ (draft.quiet => ShownNext("settings")))
  PROVE  EditsAgree'
<1>1. Leftover(S) /\ BaselineRead
  BY DEF EditsAgree, SavesAgree, Leftover
<1>2. /\ SavesAgree' /\ BaselineRead'
      /\ Shown("settings") /\ ShownNext("settings") => UNCHANGED contents /\ saves' = S
  BY <1>1, PanelsKeep
<1>3. DraftShown'
  <2>1. CASE draft' = NoDraft
    BY <2>1 DEF DraftShown, NoDraft
  <2>2. CASE draft' = draft /\ ~ draft.quiet
    BY <2>2 DEF DraftShown
  <2>3. CASE draft' = draft /\ draft.quiet /\ ShownNext("settings")
    <3>1. Shown("settings")
      BY <2>3 DEF EditsAgree, DraftShown, isDirty, BaselineRead, Ready
    <3> QED BY <1>2, <2>3, <3>1 DEF EditsAgree, DraftShown, isDirty, contents
  <2> QED BY <2>1, <2>2, <2>3
<1> QED BY <1>2, <1>3 DEF EditsAgree

\* The rest of the page has nothing to do with the settings.
LEMMA OthersKeep ==
  ASSUME EditsInv, PathFollowsTab', UNCHANGED <<settingsVars, screen, tab, dirty>>,
         pendingTab' # "settings", asked' = asked \/ asked' # "status"
  PROVE  EditsInv'
<1>1. Stays /\ EditsAgree
  BY DEF Stays, EditsInv, EditsAgree
<1>2. UNCHANGED <<contents, reading, saves, draft>>
  BY DEF settingsVars
<1>3. EditsAgree'
  BY <1>1, <1>2, FormAloneKeeps
<1>4. DirtyKnown' /\ AskedFirst'
  BY <1>1, <1>2, StillShown DEF EditsInv, DirtyKnown, AskedFirst, contents, isDirty
<1> QED BY <1>3, <1>4 DEF EditsInv, EditsAgree

\* An operator with a draft is kept.
LEMMA DraftIsKept ==
  ASSUME EditsInv, draft.quiet
  PROVE  Shown("settings") /\ dirty
BY DEF EditsInv, DraftShown, BaselineRead, DirtyKnown, isDirty, Ready

LEMMA TabKeeps ==
  ASSUME EditsInv, PathFollowsTab', NEW t, handleTabChange(t) \/ handlePopState(t)
  PROVE  EditsInv'
<1>1. CASE Kept(t)
  <2>1. pendingTab' = t /\ t # "settings" /\ UNCHANGED <<settingsVars, screen, tab, dirty, asked>>
    BY <1>1 DEF Kept, handleTabChange, handlePopState, session
  <2> QED BY <2>1, OthersKeep
<1>2. CASE ~ Kept(t)
  <2>1. Go(t, saves) /\ DirtyReported /\ UNCHANGED <<pendingTab, draft, screen, asked>>
    BY <1>2 DEF handleTabChange, handlePopState, session
  <2>2. draft.quiet => ShownNext("settings")
    BY <1>2, <2>1, DraftIsKept DEF Go, Kept, Shown, ShownNext
  <2>3. Panels(saves, tasks, ops) /\ EditsAgree
    BY <2>1 DEF Go, EditsInv, EditsAgree
  <2>4. EditsAgree'
    BY <2>1, <2>2, <2>3, LeaveKeeps
  <2>5. DirtyKnown' /\ AskedFirst' /\ pendingTab' # "settings"
    BY <2>1 DEF DirtyReported, DirtyKnown, Shown, ShownNext, EditsInv, AskedFirst
  <2> QED BY <2>4, <2>5 DEF EditsInv, EditsAgree
<1> QED BY <1>1, <1>2

LEMMA AddAliasKeeps ==
  ASSUME EditsInv, PathFollowsTab', NEW i, handleAddAliasFromLog(i)
  PROVE  EditsInv'
<1>1. /\ Go("aliases", saves) /\ DirtyReported /\ Shown("stream")
      /\ UNCHANGED <<pendingTab, draft, screen, asked>>
  BY DEF handleAddAliasFromLog, session
<1>2. ~ draft.quiet
  BY <1>1, DraftIsKept DEF Shown
<1>3. Panels(saves, tasks, ops) /\ EditsAgree
  BY <1>1 DEF Go, EditsInv, EditsAgree
<1>4. EditsAgree'
  BY <1>1, <1>2, <1>3, LeaveKeeps
<1>5. DirtyKnown' /\ AskedFirst' /\ pendingTab' # "settings"
  BY <1>1 DEF DirtyReported, DirtyKnown, Shown, ShownNext, EditsInv, AskedFirst
<1> QED BY <1>4, <1>5 DEF EditsInv, EditsAgree

\* Leaving for another tab than the settings, with a clean form.
LEMMA GoneKeeps ==
  ASSUME EditsInv, PathFollowsTab', NEW t, t # "settings", NEW S, S \subseteq saves, Go(t, S),
         UNCHANGED <<screen, asked>>, pendingTab' # "settings",
         draft' = NoDraft \/ (draft' = draft /\ ~ draft.quiet)
  PROVE  EditsInv'
<1>1. Panels(S, tasks, ops) /\ EditsAgree
  BY DEF Go, EditsInv, EditsAgree
<1>2. EditsAgree'
  BY <1>1, LeaveKeeps
<1>3. DirtyKnown' /\ AskedFirst'
  BY DEF Go, DirtyKnown, Shown, EditsInv, AskedFirst
<1> QED BY <1>2, <1>3 DEF EditsInv, EditsAgree

LEMMA DialogKeeps ==
  ASSUME EditsInv, PathFollowsTab', KeepEditing \/ DiscardAndLeave \/ SaveAndContinue
  PROVE  EditsInv'
<1>1. pendingTab # "settings" /\ NoTab # "settings"
  BY DEF EditsInv, NoTab
<1>2. CASE KeepEditing
  <2>1. UNCHANGED <<settingsVars, screen, tab, dirty, asked>> /\ pendingTab' # "settings"
    BY <1>1, <1>2 DEF KeepEditing, sessionVars
  <2> QED BY <2>1, OthersKeep
<1>3. CASE DiscardAndLeave
  <2>1. /\ Go(pendingTab, saves) /\ UNCHANGED <<screen, asked>> /\ draft' = NoDraft
        /\ pendingTab' # "settings"
    BY <1>1, <1>3 DEF DiscardAndLeave, session
  <2> QED BY <1>1, <2>1, GoneKeeps
<1>4. CASE SaveAndContinue /\ Shown("settings")
  <2>1. /\ executeSave(pendingTab) /\ UNCHANGED <<screen, tab, dirty, asked, pendingTab>>
        /\ EditsAgree
    BY <1>4 DEF SaveAndContinue, session, EditsInv, EditsAgree
  <2>2. Stays
    BY <2>1 DEF Stays
  <2>3. EditsAgree'
    BY <1>1, <2>1, <2>2, ExecuteSaveKeeps
  <2>4. DirtyKnown' /\ AskedFirst'
    BY <2>1, <2>2, StillShown
    DEF executeSave, EditsInv, DirtyKnown, AskedFirst, isDirty, contents
  <2> QED BY <1>1, <2>1, <2>3, <2>4 DEF EditsInv, EditsAgree
<1>5. CASE SaveAndContinue /\ ~ Shown("settings")
  <2>1. /\ Go(pendingTab, saves) /\ UNCHANGED <<screen, asked, draft>>
        /\ pendingTab' # "settings"
    BY <1>1, <1>5 DEF SaveAndContinue, session
  <2>2. ~ draft.quiet
    BY <1>5, DraftIsKept
  <2> QED BY <1>1, <2>1, <2>2, GoneKeeps
<1> QED BY <1>2, <1>3, <1>4, <1>5

\* The save of the dialog was under way when it returned with what it read, and a
\* draft typed meanwhile is not one that is said to stay.
LEMMA ModalSaveKeeps ==
  ASSUME EditsInv, PathFollowsTab', NEW s, ModalSaveReturns(s)
  PROVE  EditsInv'
<1>1. /\ s \in saves /\ s.target # NoTab /\ s.target # "settings"
      /\ UNCHANGED <<screen, asked>> /\ NoTab # "settings"
  BY DEF ModalSaveReturns, EditsInv, SavesAgree, session, NoTab
<1>2. CASE s.status = "ok"
  <2>1. /\ s.step = "read" /\ pendingTab' = NoTab /\ Go(s.target, saves \ {s})
        /\ draft' = IF s.live /\ form = s.value THEN NoDraft ELSE draft
    BY <1>2 DEF ModalSaveReturns
  <2>2. ~ draft.quiet
    BY <1>1, <2>1 DEF EditsInv, DraftShown
  <2> QED BY <1>1, <2>1, <2>2, GoneKeeps
<1>3. CASE s.status # "ok"
  <2>1. /\ saves' = saves \ {s}
        /\ UNCHANGED <<pendingTab, dirty, tab, path, contents, reading, draft>>
    BY <1>3 DEF ModalSaveReturns
  <2>2. Ready' = Ready /\ Shown("settings")' = Shown("settings")
    BY <1>1, <2>1 DEF Ready, Shown
  <2>3. EditsAgree'
    BY <2>1, <2>2 DEF EditsInv, EditsAgree, SavesAgree, BaselineRead, DraftShown, contents, isDirty
  <2>4. DirtyKnown' /\ AskedFirst' /\ pendingTab' # "settings"
    BY <1>1, <2>1, <2>2 DEF EditsInv, DirtyKnown, AskedFirst, contents, isDirty
  <2> QED BY <2>3, <2>4 DEF EditsInv, EditsAgree
<1> QED BY <1>2, <1>3

\* The end of a session takes the draft; the login form never had one.
LEMMA UnauthorizedKeeps ==
  ASSUME EditsInv, PathFollowsTab', handleUnauthorized
  PROVE  EditsInv'
<1>1. PICK S, T, O : S \subseteq saves /\ SessionLost(S, T, O)
  <2>1. CASE SessionLost(saves, tasks, ops)
    BY <2>1
  <2>2. CASE \E s \in saves : SessionLost(saves \ {s}, tasks, ops)
    BY <2>2
  <2>3. CASE \E t \in tasks : SessionLost(saves, tasks \ {t}, ops)
    BY <2>3
  <2>4. CASE \E o \in ops : SessionLost(saves, tasks, ops \ {o})
    BY <2>4
  <2> QED BY <2>1, <2>2, <2>3, <2>4 DEF handleUnauthorized
<1>2. UNCHANGED <<asked, dirty, pendingTab>>
  BY DEF handleUnauthorized
<1>3. Panels(S, T, O) /\ draft' = (IF screen = "console" THEN NoDraft ELSE draft)
  BY <1>1 DEF SessionLost
<1>4. screen # "console" => ~ draft.quiet
  BY DraftIsKept DEF Shown
<1>5. EditsAgree
  BY DEF EditsInv, EditsAgree
<1>6. EditsAgree'
  BY <1>1, <1>3, <1>4, <1>5, LeaveKeeps
<1>7. screen' # "console" /\ (screen # "console" => screen' = screen)
  BY <1>1 DEF SessionLost, Show
<1>8. DirtyKnown' /\ AskedFirst'
  BY <1>2, <1>7 DEF EditsInv, DirtyKnown, AskedFirst, Shown
<1> QED BY <1>2, <1>6, <1>8 DEF EditsInv, EditsAgree

LEMMA SessionStepKeeps ==
  ASSUME EditsInv, PathFollowsTab', SessionStep
  PROVE  EditsInv'
<1>1. /\ UNCHANGED <<tab, pendingTab, draft>>
      /\ screen = "console" => screen' = "console"
      /\ asked' = asked \/ asked' # "status"
      /\ asked' = "status" => screen' = screen
  BY DEF SessionStep, EditsInv, AskedFirst, refreshAuth, login, setup, SubmitLogin,
         SubmitSetup, SignOut, Expire, Show
<1>2. draft.quiet => ShownNext("settings")
  BY <1>1, DraftIsKept DEF Shown, ShownNext
<1>3. Panels(saves, tasks, ops) /\ DirtyReported /\ EditsAgree
  BY DEF SessionStep, EditsInv, EditsAgree
<1>4. EditsAgree'
  BY <1>1, <1>2, <1>3, LeaveKeeps
<1>5. DirtyKnown' /\ AskedFirst' /\ pendingTab' # "settings"
  BY <1>1, <1>3 DEF DirtyReported, DirtyKnown, Shown, ShownNext, EditsInv, AskedFirst
<1> QED BY <1>4, <1>5 DEF EditsInv, EditsAgree

LEMMA RestartKeeps ==
  ASSUME EditsInv, PathFollowsTab', Restart
  PROVE  EditsInv'
<1>1. screen' = "loading" /\ draft' = NoDraft /\ pendingTab' = NoTab
  BY DEF Restart, Reload, logout, Reloads, Show
<1>2. PICK S, O : /\ S = {[s EXCEPT !.target = NoTab] :
                            s \in {c \in saves : c.step = "store" /\ c.status = "sent"}}
                  /\ Panels(S, tasks, O)
  BY DEF Restart
<1>3. Leftover(S)
  <2> SUFFICES ASSUME NEW x \in S
               PROVE  IsSave(x) /\ x.target # "settings" /\ (x.live => Ready)
    BY DEF Leftover
  <2>1. PICK s \in saves : x = [s EXCEPT !.target = NoTab]
    BY <1>2
  <2>2. IsSave(s) /\ (s.live => Ready)
    BY DEF EditsInv, SavesAgree
  <2>3. IsSave(x) /\ x.target = NoTab /\ x.live = s.live
    BY <2>1, <2>2, SaveForgotten
  <2> QED BY <2>2, <2>3 DEF NoTab
<1>4. SavesAgree' /\ BaselineRead'
  BY <1>2, <1>3, PanelsKeep DEF EditsInv
<1>5. DraftShown' /\ DirtyKnown' /\ AskedFirst' /\ pendingTab' # "settings"
  BY <1>1 DEF DraftShown, NoDraft, DirtyKnown, AskedFirst, Shown, NoTab
<1> QED BY <1>4, <1>5 DEF EditsInv

LEMMA EditsStep == EditsInv /\ [Next]_vars => EditsInv'
<1> SUFFICES ASSUME EditsInv, [Next]_vars PROVE EditsInv'
  OBVIOUS
<1>1. PathFollowsTab'
  BY PathStep DEF EditsInv
<1>2. pendingTab # "settings"
  BY DEF EditsInv
<1>3. CASE UNCHANGED vars
  BY <1>1, <1>2, <1>3, OthersKeep DEF vars, appVars, sessionVars
<1>4. CASE SettingsStep
  BY <1>1, <1>4, SettingsStepKeeps
<1>5. CASE StorageStep \/ AliasStep
  BY <1>1, <1>2, <1>5, OthersKeep DEF StorageStep, AliasStep, appVars
<1>6. CASE SignOutTimer
  <2>1. Stays /\ UNCHANGED <<contents, reading, saves, draft, dirty, pendingTab>> /\ asked' = "logout"
    BY <1>6 DEF SignOutTimer, Stays, appVars
  <2>2. EditsAgree'
    BY <2>1, FormAloneKeeps DEF EditsInv, EditsAgree
  <2>3. DirtyKnown' /\ AskedFirst'
    BY <2>1, StillShown DEF EditsInv, DirtyKnown, AskedFirst, contents, isDirty
  <2> QED BY <1>1, <1>2, <2>1, <2>2, <2>3 DEF EditsInv, EditsAgree
<1>7. CASE AppStep
  BY <1>1, <1>6, <1>7, TabKeeps, AddAliasKeeps, DialogKeeps, ModalSaveKeeps, UnauthorizedKeeps,
     SessionStepKeeps, RestartKeeps DEF AppStep, TabPressed
<1> QED BY <1>3, <1>4, <1>5, <1>7 DEF Next

\* What the operator typed while nothing could overwrite it stays on the screen until
\* he saves it, discards it, reloads or is signed out, whatever the server answers
\* and whenever the dialog's save returns (App.tsx:72, 111, 267;
\* SettingsPanel.tsx:69-79, 254-263).
THEOREM ConsoleEditsSurvive == Spec => []EditsSurvive
<1>1. ASSUME Init PROVE EditsInv
  <2>1. /\ screen = "loading" /\ path = tab /\ saves = {} /\ settings = NoForm
        /\ reading.status = "none" /\ ~ draft.quiet /\ pendingTab # "settings"
    BY <1>1 DEF Init, SessionInit, Idle, NoDraft, NoTab
  <2> QED BY <2>1 DEF EditsInv, PathFollowsTab, SavesAgree, BaselineRead, DirtyKnown,
                      AskedFirst, DraftShown, Shown
<1>2. EditsInv => EditsSurvive
  BY DraftIsKept DEF EditsInv, DraftShown, EditsSurvive
<1> QED BY <1>1, <1>2, EditsStep, PTL DEF Spec

-----------------------------------------------------------------------------
\* The aliases.

\* The fields of a call of loadAliases, handleSave or handleDelete.
IsOp(o) ==
  o = [kind |-> o.kind, step |-> o.step, ip |-> o.ip, alias |-> o.alias, list |-> o.list,
       alone |-> o.alone, live |-> o.live, id |-> o.id]

\* A change the server may have made, after which no list was asked for.
Unlisted == \E o \in ops : o.step \in {"ok", "failed"}

\* A list that is the only one under way is the server's, until a change.
OpsAgree ==
  /\ \A o \in ops : IsOp(o) /\ (o.live => Shown("aliases"))
  /\ \A o \in Lists :
       o.alone => /\ \A q \in ops : q.live
                  /\ o.step = "listed" => o.list = table \/ Unlisted

\* A list shown that was the only one under way is the server's, or is replaced.
ListAgrees ==
  fresh => /\ Shown("aliases") /\ \A o \in ops : o.live
           /\ aliases = table \/ Unlisted \/ Lists # {}

AliasInv == OpsAgree /\ ListAgrees

LEMMA OpLeft ==
  ASSUME NEW o, IsOp(o), NEW x, x = [o EXCEPT !.live = FALSE]
  PROVE  IsOp(x) /\ ~ x.live
<1>1. PICK k, s, i, n, l, a, v, d :
        o = [kind |-> k, step |-> s, ip |-> i, alias |-> n, list |-> l,
             alone |-> a, live |-> v, id |-> d]
  BY DEF IsOp
<1> QED BY <1>1 DEF IsOp

LEMMA OpDoubted ==
  ASSUME NEW o, IsOp(o), NEW x, x = [o EXCEPT !.alone = FALSE]
  PROVE  IsOp(x) /\ x.live = o.live /\ x.step = o.step /\ ~ x.alone
<1>1. PICK k, s, i, n, l, a, v, d :
        o = [kind |-> k, step |-> s, ip |-> i, alias |-> n, list |-> l,
             alone |-> a, live |-> v, id |-> d]
  BY DEF IsOp
<1> QED BY <1>1 DEF IsOp

LEMMA OpMounted ==
  ASSUME NEW b, NEW x, x = [Op("mount", "listing", "", "") EXCEPT !.alone = b]
  PROVE  IsOp(x) /\ x.step = "listing" /\ x.live /\ x.alone = b
<1>1. PICK d, o : /\ o = [kind |-> "mount", step |-> "listing", ip |-> "", alias |-> "",
                          list |-> NoAliases, alone |-> TRUE, live |-> TRUE, id |-> d]
                  /\ x = [o EXCEPT !.alone = b]
  BY DEF Op
<1> QED BY <1>1 DEF IsOp

LEMMA OpBegun ==
  ASSUME NEW k, NEW s, NEW i, NEW n, NEW x, x = Op(k, s, i, n)
  PROVE  IsOp(x) /\ x.step = s /\ x.live /\ x.kind = k
BY DEF Op, IsOp

\* None of the lists that go on is the only one.
LEMMA DoubtedLists ==
  ASSUME OpsAgree, NEW Q \in SUBSET ops, NEW x \in Doubted(Q)
  PROVE  /\ IsOp(x) /\ ~ (x.live /\ x.step \in Listing /\ x.alone)
         /\ \E q \in Q : x.live = q.live /\ x.step = q.step
<1>1. PICK q \in Q : x = IF q \in Lists THEN [q EXCEPT !.alone = FALSE] ELSE q
  BY DEF Doubted
<1>2. IsOp(q)
  BY DEF OpsAgree
<1>3. CASE q \in Lists
  BY <1>1, <1>2, <1>3, OpDoubted
<1>4. CASE q \notin Lists
  BY <1>1, <1>2, <1>4 DEF Lists
<1> QED BY <1>3, <1>4

\* Mounting and unmounting, when O is left of the calls.
LEMMA PanelsKeepAliases ==
  ASSUME AliasInv, NEW S, NEW T, NEW O \in SUBSET ops, Panels(S, T, O), UNCHANGED table,
         Shown("aliases") /\ ShownNext("aliases") => O = ops
  PROVE  AliasInv'
<1>1. Shown("aliases")' = ShownNext("aliases")
  BY DEF Shown, ShownNext
<1>2. CASE Shown("aliases") /\ ShownNext("aliases")
  <2>1. UNCHANGED <<ops, fresh, aliases>>
    BY <1>2 DEF Panels
  <2> QED BY <1>1, <1>2, <2>1 DEF AliasInv, OpsAgree, ListAgrees, Lists, Unlisted
<1>3. CASE ~ Shown("aliases") /\ ~ ShownNext("aliases")
  <2>1. ops' = O /\ fresh' = fresh
    BY <1>3 DEF Panels, Shown, ShownNext
  <2> QED BY <1>1, <1>3, <2>1 DEF AliasInv, OpsAgree, ListAgrees, Lists
<1>4. CASE Shown("aliases") # ShownNext("aliases")
  <2>1. AliasMount(ShownNext("aliases"), O)
    BY <1>4 DEF Panels
  <2>2. PICK x : x = [Op("mount", "listing", "", "") EXCEPT !.alone = (O = {})]
    OBVIOUS
  <2>3. /\ ops' = {[o EXCEPT !.live = FALSE] : o \in {q \in O : q.kind # "mount"}}
                    \cup (IF ShownNext("aliases") THEN {x} ELSE {})
        /\ ~ fresh'
    BY <2>1, <2>2 DEF AliasMount
  <2>4. IsOp(x) /\ x.step = "listing" /\ x.live /\ (x.alone <=> O = {})
    BY <2>2, OpMounted
  <2>5. ASSUME NEW y \in ops', ~ (ShownNext("aliases") /\ y = x)
        PROVE  IsOp(y) /\ ~ y.live /\ O # {}
    <3>1. PICK o \in O : y = [o EXCEPT !.live = FALSE]
      BY <2>3, <2>5
    <3> QED BY <3>1, OpLeft DEF AliasInv, OpsAgree
  <2>6. OpsAgree'
    BY <1>1, <2>4, <2>5 DEF OpsAgree, Lists
  <2> QED BY <2>3, <2>6 DEF AliasInv, ListAgrees
<1> QED BY <1>2, <1>3, <1>4

\* The calls stay the same.
LEMMA CallsAloneKeep ==
  ASSUME AliasInv, UNCHANGED <<table, aliases, ops, fresh, screen, tab>>
  PROVE  AliasInv'
BY DEF AliasInv, OpsAgree, ListAgrees, Lists, Unlisted, Shown

\* A change begins.
LEMMA ChangeBegins ==
  ASSUME AliasInv, handleSaveAlias \/ \E i \in Ips : handleDelete(i), UNCHANGED <<screen, tab>>
  PROVE  AliasInv'
<1>1. UNCHANGED <<table, aliases, fresh>> /\ Shown("aliases")
  BY DEF handleSaveAlias, handleDelete
<1>2. PICK k, i, n, x : x = Op(k, "sent", i, n) /\ ops' = ops \cup {x}
  BY DEF handleSaveAlias, handleDelete
<1>3. IsOp(x) /\ x.step = "sent" /\ x.live
  BY <1>2, OpBegun
<1>4. Lists' = Lists
  BY <1>2, <1>3 DEF Lists, Listing
<1> QED BY <1>1, <1>2, <1>3, <1>4 DEF AliasInv, OpsAgree, ListAgrees, Unlisted, Shown

\* The server carries a change out, or a failure leaves it open whether it did.
LEMMA ServeAliasKeeps ==
  ASSUME AliasInv, NEW o, NEW out \in {"ok", "denied", "failed"}, ServeAlias(o, out),
         UNCHANGED <<screen, tab>>
  PROVE  AliasInv'
<1>1. /\ o \in ops /\ o.step = "sent" /\ IsOp(o) /\ UNCHANGED <<aliases, fresh>>
      /\ (o.live => Shown("aliases"))
  BY DEF ServeAlias, AliasInv, OpsAgree
<1>2. PICK x : x = [o EXCEPT !.step = out] /\ ops' = (ops \ {o}) \cup {x}
  BY DEF ServeAlias
<1>3. IsOp(x) /\ x.step = out /\ x.live = o.live
  <2>1. PICK k, st, i, n, l, a, v, d :
          o = [kind |-> k, step |-> st, ip |-> i, alias |-> n, list |-> l,
               alone |-> a, live |-> v, id |-> d]
    BY <1>1 DEF IsOp
  <2> QED BY <1>2, <2>1 DEF IsOp
<1>4. Lists' = Lists
  BY <1>1, <1>2, <1>3 DEF Lists, Listing
<1>5. (Unlisted => Unlisted') /\ (table' # table => Unlisted')
  <2>1. Unlisted => Unlisted'
    BY <1>1, <1>2 DEF Unlisted
  <2>2. table' # table => out # "denied"
    BY DEF ServeAlias
  <2> QED BY <1>2, <1>3, <2>1, <2>2 DEF Unlisted
<1>6. (\A q \in ops : q.live) => \A q \in ops' : q.live
  BY <1>1, <1>2, <1>3
<1>7. OpsAgree'
  BY <1>1, <1>2, <1>3, <1>4, <1>5, <1>6 DEF AliasInv, OpsAgree, Shown
<1>8. ListAgrees'
  BY <1>1, <1>4, <1>5, <1>6 DEF AliasInv, ListAgrees, Shown
<1> QED BY <1>7, <1>8 DEF AliasInv

\* A list is read.
LEMMA ServeListKeeps ==
  ASSUME AliasInv, NEW o, NEW out, ServeList(o, out), UNCHANGED <<screen, tab>>
  PROVE  AliasInv'
<1>1. /\ o \in ops /\ o.step = "listing" /\ IsOp(o) /\ UNCHANGED <<table, aliases, fresh>>
      /\ (o.live => Shown("aliases"))
  BY DEF ServeList, AliasInv, OpsAgree
<1>2. PICK step, list, x :
        /\ step = (IF out = "ok" THEN "listed" ELSE "unlisted")
        /\ list = (IF out = "ok" THEN table ELSE o.list)
        /\ x = [o EXCEPT !.step = step, !.list = list]
        /\ ops' = (ops \ {o}) \cup {x}
  BY DEF ServeList
<1>3. /\ IsOp(x) /\ x.step = step /\ x.live = o.live /\ x.alone = o.alone
      /\ (step = "listed" => x.list = table)
  <2>1. PICK k, st, i, n, l, a, v, d :
          o = [kind |-> k, step |-> st, ip |-> i, alias |-> n, list |-> l,
               alone |-> a, live |-> v, id |-> d]
    BY <1>1 DEF IsOp
  <2>2. IsOp(x) /\ x.step = step /\ x.live = o.live /\ x.alone = o.alone /\ x.list = list
    BY <1>2, <2>1 DEF IsOp
  <2> QED BY <1>2, <2>2
<1>4. step \in {"listed", "unlisted"}
  BY <1>2
<1>5. Unlisted' = Unlisted
  BY <1>1, <1>2, <1>3, <1>4 DEF Unlisted
<1>6. Lists' = (Lists \ {o}) \cup (IF o.live THEN {x} ELSE {})
  BY <1>1, <1>2, <1>3, <1>4 DEF Lists, Listing
<1>7. (\A q \in ops : q.live) => \A q \in ops' : q.live
  BY <1>1, <1>2, <1>3
<1>8. o.live => o \in Lists
  BY <1>1 DEF Lists, Listing
<1>9. OpsAgree'
  <2>1. \A q \in ops' : IsOp(q) /\ (q.live => Shown("aliases")')
    BY <1>1, <1>2, <1>3 DEF AliasInv, OpsAgree, Shown
  <2>2. ASSUME NEW q \in Lists', q.alone
        PROVE  /\ \A c \in ops' : c.live
               /\ q.step = "listed" => q.list = table' \/ Unlisted'
    <3>1. CASE q = x
      BY <1>1, <1>3, <1>6, <1>7, <1>8, <2>2, <3>1 DEF AliasInv, OpsAgree, Lists
    <3>2. CASE q # x
      BY <1>1, <1>5, <1>6, <1>7, <2>2, <3>2 DEF AliasInv, OpsAgree
    <3> QED BY <3>1, <3>2
  <2> QED BY <2>1, <2>2 DEF OpsAgree
<1>10. ListAgrees'
  <2>1. Lists # {} /\ (\A q \in ops : q.live) => Lists' # {}
    BY <1>1, <1>6
  <2> QED BY <1>1, <1>5, <1>7, <2>1 DEF AliasInv, ListAgrees, Shown
<1> QED BY <1>9, <1>10 DEF AliasInv

\* A change that was answered asks for the list, or failed.
LEMMA ChangeReturns ==
  ASSUME AliasInv, NEW o, AliasSaved(o) \/ AliasDeleted(o), UNCHANGED <<screen, tab>>
  PROVE  AliasInv'
<1>1. /\ o \in ops /\ o.step \in {"ok", "failed"} /\ IsOp(o) /\ UNCHANGED <<table, aliases>>
      /\ (o.live => Shown("aliases"))
  BY DEF AliasSaved, AliasDeleted, AliasInv, OpsAgree
<1>2. ops \ {o} \in SUBSET ops
  OBVIOUS
<1>3. ASSUME NEW y \in Doubted(ops \ {o})
      PROVE  /\ IsOp(y) /\ ~ (y.live /\ y.step \in Listing /\ y.alone)
             /\ (y.live => Shown("aliases")) /\ \E q \in ops : y.live = q.live
  <2>1. /\ IsOp(y) /\ ~ (y.live /\ y.step \in Listing /\ y.alone)
        /\ \E q \in ops \ {o} : y.live = q.live
    BY <1>2, <1>3, DoubtedLists DEF AliasInv
  <2> QED BY <2>1 DEF AliasInv, OpsAgree
<1>4. CASE o.step = "failed"
  <2>1. ops' = Doubted(ops \ {o}) /\ ~ fresh'
    BY <1>4 DEF AliasSaved, AliasDeleted
  <2> QED BY <1>3, <2>1 DEF AliasInv, OpsAgree, ListAgrees, Lists, Shown
<1>5. CASE o.step = "ok"
  <2>1. LoadAliases(o) /\ UNCHANGED fresh
    BY <1>5 DEF AliasSaved, AliasDeleted
  <2>2. PICK b, x : /\ b = (Lists = {} /\ \A q \in ops : q.live)
                    /\ x = [o EXCEPT !.step = "listing", !.alone = b]
                    /\ ops' = Doubted(ops \ {o}) \cup {x}
    BY <2>1 DEF LoadAliases
  <2>3. IsOp(x) /\ x.step = "listing" /\ x.live = o.live /\ x.alone = b
    <3>1. PICK k, st, i, n, l, a, v, d :
            o = [kind |-> k, step |-> st, ip |-> i, alias |-> n, list |-> l,
                 alone |-> a, live |-> v, id |-> d]
      BY <1>1 DEF IsOp
    <3> QED BY <2>2, <3>1 DEF IsOp
  <2>4. (\A q \in ops : q.live) => \A q \in ops' : q.live
    BY <1>1, <1>3, <2>2, <2>3
  <2>5. OpsAgree'
    BY <1>1, <1>3, <2>2, <2>3, <2>4 DEF OpsAgree, Lists, Shown
  <2>6. o.live => x \in Lists'
    BY <2>2, <2>3 DEF Lists, Listing
  <2> QED BY <1>1, <2>1, <2>4, <2>5, <2>6 DEF AliasInv, ListAgrees, Shown
<1> QED BY <1>1, <1>4, <1>5

\* A list is shown.
LEMMA ListArrives ==
  ASSUME AliasInv, NEW o, AliasesListed(o), UNCHANGED <<screen, tab>>
  PROVE  AliasInv'
<1>1. /\ o \in ops /\ o.step \in {"listed", "unlisted"} /\ ops' = ops \ {o}
      /\ UNCHANGED table /\ (o.live => Shown("aliases") /\ o \in Lists)
  BY DEF AliasesListed, AliasInv, OpsAgree, Lists, Listing
<1>2. Unlisted' = Unlisted /\ Lists' = Lists \ {o}
  BY <1>1 DEF Unlisted, Lists
<1>3. OpsAgree'
  BY <1>1, <1>2 DEF AliasInv, OpsAgree, Shown
<1>4. ListAgrees'
  <2>1. CASE o.live /\ o.step = "listed"
    <3>1. aliases' = o.list /\ fresh' = o.alone
      BY <2>1 DEF AliasesListed
    <3> QED BY <1>1, <1>2, <2>1, <3>1 DEF AliasInv, OpsAgree, ListAgrees, Shown
  <2>2. CASE o.live /\ o.step # "listed"
    BY <2>2 DEF AliasesListed, ListAgrees
  <2>3. CASE ~ o.live
    BY <1>1, <2>3 DEF AliasesListed, AliasInv, ListAgrees
  <2> QED BY <2>1, <2>2, <2>3
<1> QED BY <1>3, <1>4 DEF AliasInv

LEMMA AliasStepKeeps ==
  ASSUME AliasInv, AliasStep
  PROVE  AliasInv'
<1> UNCHANGED <<screen, tab>>
  BY DEF AliasStep
<1>1. ASSUME NEW o, NEW out \in {"ok", "denied", "failed"}, ServeAlias(o, out) \/ ServeList(o, out)
      PROVE  AliasInv'
  BY <1>1, ServeAliasKeeps, ServeListKeeps
<1>2. CASE handleSaveAlias \/ \E i \in Ips : handleDelete(i)
  BY <1>2, ChangeBegins
<1>3. ASSUME NEW i, handleEdit(i) \/ TypeIp(i) \/ TypeAlias(i) \/ handleCancelEdit PROVE AliasInv'
  <2>1. UNCHANGED <<table, aliases, ops, fresh>>
    BY <1>3 DEF handleEdit, TypeIp, TypeAlias, handleCancelEdit
  <2> QED BY <2>1, CallsAloneKeep
<1>4. ASSUME NEW o, AliasSaved(o) \/ AliasDeleted(o) \/ AliasesListed(o) PROVE AliasInv'
  BY <1>4, ChangeReturns, ListArrives
<1> QED BY <1>1, <1>2, <1>3, <1>4 DEF AliasStep

\* What App and the session do to these two panels: they mount and unmount them, and
\* forget calls only when the console leaves the screen.
Remounts(S, T, O) ==
  /\ T \in SUBSET tasks /\ O \in SUBSET ops
  /\ Panels(S, T, O) /\ UNCHANGED <<audit, retention, table>>
  /\ screen' = "console" => T = tasks /\ O = ops

LEMMA GoRemounts ==
  ASSUME NEW t, NEW S, Go(t, S), UNCHANGED servers
  PROVE  Remounts(S, tasks, ops)
BY DEF Go, Remounts, servers

LEMMA AppRemounts ==
  ASSUME AppStep
  PROVE  \/ \E S, T, O : Remounts(S, T, O)
         \/ UNCHANGED <<screen, tab, storageVars, aliasVars>>
<1>1. ASSUME NEW t, handleTabChange(t) \/ handlePopState(t)
      PROVE  \/ Remounts(saves, tasks, ops)
             \/ UNCHANGED <<screen, tab, storageVars, aliasVars>>
  <2>1. CASE Kept(t)
    BY <1>1, <2>1 DEF handleTabChange, handlePopState, session
  <2>2. CASE ~ Kept(t)
    BY <1>1, <2>2, GoRemounts DEF handleTabChange, handlePopState
  <2> QED BY <2>1, <2>2
<1>2. ASSUME NEW i, handleAddAliasFromLog(i) PROVE Remounts(saves, tasks, ops)
  BY <1>2, GoRemounts DEF handleAddAliasFromLog
<1>3. CASE KeepEditing \/ SignOutTimer \/ (SaveAndContinue /\ Shown("settings"))
  BY <1>3 DEF KeepEditing, SignOutTimer, SaveAndContinue, sessionVars, session
<1>4. CASE DiscardAndLeave \/ (SaveAndContinue /\ ~ Shown("settings"))
  <2>1. Go(pendingTab, saves) /\ UNCHANGED servers
    BY <1>4 DEF DiscardAndLeave, SaveAndContinue
  <2> QED BY <2>1, GoRemounts
<1>5. ASSUME NEW s, ModalSaveReturns(s)
      PROVE  \/ Remounts(saves \ {s}, tasks, ops)
             \/ UNCHANGED <<screen, tab, storageVars, aliasVars>>
  <2>1. UNCHANGED <<servers, screen, addAliasIp>>
    BY <1>5 DEF ModalSaveReturns, session
  <2>2. CASE s.status = "ok"
    BY <1>5, <2>1, <2>2, GoRemounts DEF ModalSaveReturns
  <2>3. CASE s.status # "ok"
    BY <1>5, <2>1, <2>3 DEF ModalSaveReturns, servers, storageVars, aliasVars
  <2> QED BY <2>2, <2>3
<1>6. CASE handleUnauthorized
  <2>1. ASSUME NEW S, NEW T \in SUBSET tasks, NEW O \in SUBSET ops, SessionLost(S, T, O)
        PROVE  Remounts(S, T, O)
    <3>1. screen' # "console"
      BY <2>1 DEF SessionLost, Show
    <3>2. Panels(S, T, O) /\ UNCHANGED servers
      BY <1>6, <2>1 DEF SessionLost, handleUnauthorized
    <3> QED BY <3>1, <3>2 DEF Remounts, servers
  <2>2. tasks \in SUBSET tasks /\ ops \in SUBSET ops
    OBVIOUS
  <2>3. CASE SessionLost(saves, tasks, ops) \/ \E s \in saves : SessionLost(saves \ {s}, tasks, ops)
    BY <2>1, <2>2, <2>3
  <2>4. ASSUME NEW t \in tasks, SessionLost(saves, tasks \ {t}, ops)
        PROVE  Remounts(saves, tasks \ {t}, ops)
    BY <2>1, <2>2, <2>4
  <2>5. ASSUME NEW o \in ops, SessionLost(saves, tasks, ops \ {o})
        PROVE  Remounts(saves, tasks, ops \ {o})
    BY <2>1, <2>2, <2>5
  <2> QED BY <1>6, <2>1, <2>2, <2>3, <2>4, <2>5 DEF handleUnauthorized
<1>7. CASE SessionStep
  <2>1. Remounts(saves, tasks, ops)
    BY <1>7 DEF SessionStep, Remounts, servers
  <2> QED BY <2>1
<1>8. CASE Restart
  <2>1. screen' = "loading"
    BY <1>8 DEF Restart, Reload, logout, Reloads, Show
  <2>2. PICK S, O : O \in SUBSET ops /\ Panels(S, tasks, O)
    BY <1>8 DEF Restart
  <2>3. Remounts(S, tasks, O)
    BY <1>8, <2>1, <2>2 DEF Restart, Remounts, servers
  <2> QED BY <2>3
<1> QED BY <1>1, <1>2, <1>3, <1>4, <1>5, <1>6, <1>7, <1>8 DEF AppStep, TabPressed

LEMMA AliasInvStep == AliasInv /\ [Next]_vars => AliasInv'
<1> SUFFICES ASSUME AliasInv, [Next]_vars PROVE AliasInv'
  OBVIOUS
<1>1. CASE UNCHANGED <<screen, tab, aliasVars>>
  BY <1>1, CallsAloneKeep DEF aliasVars
<1>2. CASE UNCHANGED vars \/ SettingsStep \/ StorageStep
  BY <1>1, <1>2 DEF vars, sessionVars, SettingsStep, StorageStep
<1>3. CASE AliasStep
  BY <1>3, AliasStepKeeps
<1>4. ASSUME NEW S, NEW T, NEW O, Remounts(S, T, O) PROVE AliasInv'
  <2>1. ShownNext("aliases") => O = ops
    BY <1>4 DEF Remounts, ShownNext
  <2> QED BY <1>4, <2>1, PanelsKeepAliases DEF Remounts
<1>5. CASE AppStep
  BY <1>1, <1>4, <1>5, AppRemounts
<1> QED BY <1>2, <1>3, <1>5 DEF Next

\* With no call under way, the list of aliases that is shown is the server's, if it
\* was the only list under way and no change failed since (HostAliasManager.tsx:39-50,
\* 72, 102).
THEOREM ConsoleAliasesCurrent == Spec => []AliasesCurrent
<1>1. Init => AliasInv
  BY DEF Init, AliasInv, OpsAgree, ListAgrees, Lists
<1>2. AliasInv => AliasesCurrent
  BY DEF AliasInv, ListAgrees, AliasesCurrent, Unlisted, Lists
<1> QED BY <1>1, <1>2, AliasInvStep, PTL DEF Spec

-----------------------------------------------------------------------------
\* The storage.

\* The fields of a call of the storage panel.
IsTask(t) ==
  t = [kind |-> t.kind, item |-> t.item, days |-> t.days, audit |-> t.audit, max |-> t.max,
       opened |-> t.opened, step |-> t.step, live |-> t.live, alone |-> t.alone, id |-> t.id]

Prunes(T) == \A u \in T : u.kind = "prune"
Failed == \E t \in tasks : t.kind \in Changes /\ t.step = "failed"

\* What the server removed, it does not keep again; only a change outlives its panel.
TasksAgree ==
  \A t \in tasks :
    /\ IsTask(t) /\ (t.live => Shown("storage")) /\ (t.kind \notin Changes => t.live)
    /\ t.step = "ok" /\ t.kind = "clear" => audit = {}
    /\ t.step = "ok" /\ t.kind = "delete" => t.item \notin audit

\* A load that nothing overlapped brings what the server keeps.
LoadsAgree ==
  \A t \in tasks :
    t.kind = "load" /\ t.alone =>
      /\ Prunes(tasks \ {t})
      /\ t.step = "ok" => t.audit = audit /\ t.days = retention

OneRetention ==
  \A t, u \in tasks :
    t.live /\ u.live /\ t.kind = "retention" /\ u.kind = "retention" => t = u

\* An analysis that was removed, which the panel has yet to hear of.
Removed(a) ==
  \E t \in tasks : t.step = "ok" /\ (t.kind = "clear" \/ (t.kind = "delete" /\ t.item = a))

RetentionAgrees ==
  /\ \/ retentionDays = retention
     \/ \E t \in tasks : t.kind = "retention" /\ t.step = "ok"
  /\ \A t \in tasks : t.kind = "retention" /\ t.step = "ok" => t.days = retention

\* What is shown differs from what the server keeps by the changes that were
\* answered, as long as none failed.
ShownAgrees ==
  current =>
    /\ Shown("storage")
    /\ \A t \in tasks : t.kind \in Changes => t.live
    /\ ~ Failed =>
         /\ audit \subseteq auditLogs /\ \A a \in auditLogs \ audit : Removed(a)
         /\ RetentionAgrees

StorageInv == TasksAgree /\ LoadsAgree /\ OneRetention /\ ShownAgrees

LEMMA TaskLeft ==
  ASSUME NEW t, IsTask(t), NEW x, x = [t EXCEPT !.live = FALSE]
  PROVE  IsTask(x) /\ ~ x.live /\ x.kind = t.kind /\ x.step = t.step
<1>1. PICK k, i, d, a, m, o, s, l, e, n :
        t = [kind |-> k, item |-> i, days |-> d, audit |-> a, max |-> m,
             opened |-> o, step |-> s, live |-> l, alone |-> e, id |-> n]
  BY DEF IsTask
<1> QED BY <1>1 DEF IsTask

LEMMA TaskOverlapped ==
  ASSUME NEW t, IsTask(t), NEW x, x = [t EXCEPT !.alone = FALSE]
  PROVE  IsTask(x) /\ ~ x.alone /\ x.live = t.live /\ x.kind = t.kind /\ x.step = t.step
<1>1. PICK k, i, d, a, m, o, s, l, e, n :
        t = [kind |-> k, item |-> i, days |-> d, audit |-> a, max |-> m,
             opened |-> o, step |-> s, live |-> l, alone |-> e, id |-> n]
  BY DEF IsTask
<1> QED BY <1>1 DEF IsTask

\* A call begins: the loads it overlaps are no longer alone.
BeginsWith(x, k, i, others) ==
  /\ IsTask(x) /\ x.kind = k /\ x.item = i /\ x.step = "sent" /\ x.live
  /\ x.alone = (k = "load" /\ Prunes(others))
  /\ x \in tasks'
  /\ \A u \in others : u.kind # "load" => u \in tasks'
  /\ \A y \in tasks' :
       \/ y = x
       \/ y \in others /\ (k = "prune" \/ y.kind # "load")
       \/ /\ k # "prune" /\ IsTask(y) /\ y.kind = "load" /\ ~ y.alone
          /\ \E u \in others : u.kind = "load" /\ y.live = u.live /\ y.step = u.step

LEMMA BeginAdds ==
  ASSUME NEW others, \A u \in others : IsTask(u), NEW k, NEW i, NEW d, NEW n, NEW t,
         t = [Task(k, i, d) EXCEPT !.id = n] \/ t = Task(k, i, d), Begin(t, others)
  PROVE  \E x : BeginsWith(x, k, i, others)
<1>1. PICK o, m : t = [kind |-> k, item |-> i, days |-> d, audit |-> {}, max |-> Unread,
                       opened |-> o, step |-> "sent", live |-> TRUE, alone |-> TRUE, id |-> m]
  <2>1. PICK c : c = Task(k, i, d)
    OBVIOUS
  <2>2. PICK o, m : c = [kind |-> k, item |-> i, days |-> d, audit |-> {}, max |-> Unread,
                         opened |-> o, step |-> "sent", live |-> TRUE, alone |-> TRUE, id |-> m]
    BY <2>1 DEF Task
  <2>3. t = c \/ t = [c EXCEPT !.id = n]
    BY <2>1
  <2> QED BY <2>2, <2>3
<1>2. PICK b, x : /\ b = (t.kind = "load" /\ Prunes(others))
                  /\ x = [t EXCEPT !.alone = b]
                  /\ tasks' = Overlapped(t, others) \cup {x}
  BY DEF Begin, Prunes
<1>3. /\ IsTask(x) /\ x.kind = k /\ x.item = i /\ x.step = "sent" /\ x.live
      /\ x.alone = b /\ t.kind = k
  BY <1>1, <1>2 DEF IsTask
<1>4. \A u \in others : u.kind # "load" => u \in tasks'
  BY <1>2 DEF Overlapped
<1>5. ASSUME NEW y \in tasks', y # x
      PROVE  \/ y \in others /\ (k = "prune" \/ y.kind # "load")
             \/ /\ k # "prune" /\ IsTask(y) /\ y.kind = "load" /\ ~ y.alone
                /\ \E u \in others : u.kind = "load" /\ y.live = u.live /\ y.step = u.step
  <2>1. CASE k = "prune"
    BY <1>2, <1>3, <1>5, <2>1 DEF Overlapped
  <2>2. CASE k # "prune"
    <3>1. PICK u \in others : y = IF u.kind = "load" THEN [u EXCEPT !.alone = FALSE] ELSE u
      BY <1>2, <1>3, <1>5, <2>2 DEF Overlapped
    <3>2. CASE u.kind = "load"
      <4>1. IsTask(y) /\ ~ y.alone /\ y.live = u.live /\ y.kind = u.kind /\ y.step = u.step
        BY <3>1, <3>2, TaskOverlapped
      <4> QED BY <2>2, <3>2, <4>1
    <3>3. CASE u.kind # "load"
      BY <3>1, <3>3
    <3> QED BY <3>2, <3>3
  <2> QED BY <2>1, <2>2
<1>6. BeginsWith(x, k, i, others)
  BY <1>2, <1>3, <1>4, <1>5 DEF BeginsWith
<1> QED BY <1>6

\* The operator begins a call, or a prune that is done begins a load.
LEMMA BeginKeeps ==
  ASSUME StorageInv, NEW others \in SUBSET tasks, Prunes(tasks \ others),
         NEW k, NEW i, NEW x, BeginsWith(x, k, i, others),
         k = "retention" => \A t \in tasks : t.live => t.kind # "retention",
         Shown("storage"),
         UNCHANGED <<screen, tab, audit, retention, auditLogs, retentionDays, current>>
  PROVE  StorageInv'
<1> USE DEF BeginsWith
<1>1. Shown("storage")'
  BY DEF Shown
<1>2. TasksAgree'
  <2> SUFFICES ASSUME NEW y \in tasks'
               PROVE  /\ IsTask(y) /\ (y.live => Shown("storage")') /\ (y.kind \notin Changes => y.live)
                      /\ y.step = "ok" /\ y.kind = "clear" => audit = {}
                      /\ y.step = "ok" /\ y.kind = "delete" => y.item \notin audit
    BY DEF TasksAgree
  <2>1. CASE y = x
    BY <1>1, <2>1
  <2>2. CASE y \in others
    BY <1>1, <2>2 DEF StorageInv, TasksAgree
  <2>3. CASE /\ IsTask(y) /\ y.kind = "load"
             /\ \E u \in others : u.kind = "load" /\ y.live = u.live /\ y.step = u.step
    BY <1>1, <2>3 DEF StorageInv, TasksAgree, Changes
  <2> QED BY <2>1, <2>2, <2>3
<1>3. LoadsAgree'
  <2> SUFFICES ASSUME NEW y \in tasks', y.kind = "load", y.alone
               PROVE  /\ Prunes(tasks' \ {y})
                      /\ y.step = "ok" => y.audit = audit /\ y.days = retention
    BY DEF LoadsAgree, Prunes
  <2>1. CASE y = x
    <3>1. k = "load" /\ Prunes(others) /\ y.step = "sent"
      BY <2>1
    <3>2. ASSUME NEW z \in tasks' \ {y} PROVE z.kind = "prune"
      <4>1. \/ z \in others
            \/ \E u \in others : u.kind = "load"
        BY <2>1, <3>2
      <4> QED BY <3>1, <4>1 DEF Prunes
    <3> QED BY <3>1, <3>2 DEF Prunes
  <2>2. CASE y # x /\ y \in others /\ k = "prune"
    <3>1. Prunes(tasks \ {y}) /\ (y.step = "ok" => y.audit = audit /\ y.days = retention)
      BY <2>2 DEF StorageInv, LoadsAgree
    <3>2. ASSUME NEW z \in tasks' \ {y} PROVE z.kind = "prune"
      <4>1. CASE z = x
        BY <2>2, <4>1
      <4>2. CASE z \in others
        BY <3>1, <3>2, <4>2 DEF Prunes
      <4>3. CASE z # x /\ z \notin others
        BY <2>2, <4>3
      <4> QED BY <4>1, <4>2, <4>3
    <3> QED BY <3>1, <3>2 DEF Prunes
  <2>3. y = x \/ (y \in others /\ k = "prune")
    OBVIOUS
  <2> QED BY <2>1, <2>2, <2>3
<1>4. OneRetention'
  BY DEF StorageInv, OneRetention
<1>5. ASSUME current PROVE ShownAgrees'
  <2>1. Failed => Failed'
    BY DEF Failed, Changes, Prunes
  <2>2. \A a : Removed(a) => Removed(a)'
    BY DEF Removed, Prunes
  <2>3. RetentionAgrees => RetentionAgrees'
    BY DEF RetentionAgrees, Prunes
  <2>4. \A y \in tasks' : y.kind \in Changes => y.live
    BY <1>5 DEF StorageInv, ShownAgrees, Changes
  <2> QED BY <1>1, <1>5, <2>1, <2>2, <2>3, <2>4 DEF StorageInv, ShownAgrees
<1>6. ShownAgrees'
  BY <1>5 DEF ShownAgrees
<1> QED BY <1>2, <1>3, <1>4, <1>6 DEF StorageInv

\* Neither a call nor what is shown changes.
LEMMA TasksAloneKeep ==
  ASSUME StorageInv,
         UNCHANGED <<screen, tab, audit, retention, auditLogs, retentionDays, tasks, current>>
  PROVE  StorageInv'
BY DEF StorageInv, TasksAgree, LoadsAgree, OneRetention, ShownAgrees, Prunes, Failed, Removed,
       RetentionAgrees, Shown

\* The operator's calls.
LEMMA OperatorBegins ==
  ASSUME StorageInv,
         handleSaveRetention \/ handlePruneNow \/ handleClearAllAudit
           \/ \E a \in Analyses : handleDeleteAuditItem(a),
         UNCHANGED <<screen, tab>>
  PROVE  StorageInv'
<1>1. Shown("storage") /\ UNCHANGED <<audit, retention, auditLogs, retentionDays, current>>
  BY DEF handleSaveRetention, handlePruneNow, handleClearAllAudit, handleDeleteAuditItem, Bare,
         Panel, shown
<1>2. PICK k, i, d : /\ Begin(Task(k, i, d), tasks)
                     /\ k = "retention" => ~ UnderWay("retention")
  BY DEF handleSaveRetention, handlePruneNow, handleClearAllAudit, handleDeleteAuditItem
<1>3. k = "retention" => \A t \in tasks : t.live => t.kind # "retention"
  BY <1>2 DEF UnderWay
<1>4. \A u \in tasks : IsTask(u)
  BY DEF StorageInv, TasksAgree
<1>5. PICK x : BeginsWith(x, k, i, tasks)
  BY <1>2, <1>4, BeginAdds
<1>6. Prunes(tasks \ tasks)
  BY DEF Prunes
<1> QED BY <1>1, <1>3, <1>5, <1>6, BeginKeeps

\* The server answers a call, and carries it out or fails.
LEMMA ServeTaskKeeps ==
  ASSUME StorageInv, NEW t, NEW o \in {"ok", "denied", "failed"}, ServeTask(t, o),
         UNCHANGED <<screen, tab>>
  PROVE  StorageInv'
<1>1. /\ t \in tasks /\ t.step = "sent" /\ IsTask(t) /\ (t.live => Shown("storage"))
      /\ UNCHANGED <<auditLogs, retentionDays, current>>
  BY DEF ServeTask, StorageInv, TasksAgree, shown
<1>2. PICK x : /\ x = Reply(t, o)
               /\ tasks' = (tasks \ {t}) \cup (IF t.live \/ o = "denied" THEN {x} ELSE {})
  BY DEF ServeTask
<1>3. /\ IsTask(x) /\ x.step = o /\ x.live = t.live /\ x.kind = t.kind /\ x.item = t.item
      /\ x.alone = t.alone
      /\ IF t.kind = "load" /\ o = "ok" THEN x.audit = audit /\ x.days = retention
         ELSE x.days = t.days
  <2>1. PICK k, i, d, a, m, p, s, l, e, n :
          t = [kind |-> k, item |-> i, days |-> d, audit |-> a, max |-> m,
               opened |-> p, step |-> s, live |-> l, alone |-> e, id |-> n]
    BY <1>1 DEF IsTask
  <2>2. PICK dd, mm, aa :
          /\ dd = (IF t.kind = "load" /\ o = "ok" THEN retention ELSE d)
          /\ mm = (IF t.kind = "load" /\ o = "ok" THEN MaxRetention ELSE m)
          /\ aa = (IF t.kind = "load" /\ o = "ok" THEN audit ELSE a)
    OBVIOUS
  <2>3. x = [kind |-> k, item |-> i, days |-> dd, audit |-> aa, max |-> mm,
             opened |-> p, step |-> o, live |-> l, alone |-> e, id |-> n]
    BY <1>2, <2>1, <2>2 DEF Reply
  <2> QED BY <2>1, <2>2, <2>3 DEF IsTask
<1>4. \/ o # "denied" /\ Carries(t)
      \/ o # "ok" /\ UNCHANGED <<audit, retention>>
  BY DEF ServeTask
<1>5. /\ audit' \subseteq audit
      /\ \A a \in audit \ audit' :
           o # "denied" /\ (t.kind = "clear" \/ (t.kind = "delete" /\ t.item = a))
      /\ retention' = retention \/ (o # "denied" /\ t.kind = "retention")
      /\ o = "ok" =>
           /\ t.kind = "clear" => audit' = {}
           /\ t.kind = "delete" => t.item \notin audit'
           /\ t.kind = "retention" => retention' = t.days
  BY <1>4 DEF Carries
<1>6. t.kind \notin {"delete", "clear", "retention"} => UNCHANGED <<audit, retention>>
  BY <1>4 DEF Carries
<1>7. TasksAgree'
  BY <1>1, <1>2, <1>3, <1>5 DEF StorageInv, TasksAgree, Shown
<1>8. LoadsAgree'
  <2> SUFFICES ASSUME NEW y \in tasks', y.kind = "load", y.alone
               PROVE  /\ Prunes(tasks' \ {y})
                      /\ y.step = "ok" => y.audit = audit' /\ y.days = retention'
    BY DEF LoadsAgree, Prunes
  <2>1. CASE y = x
    <3>1. Prunes(tasks \ {t}) /\ tasks' \ {x} \subseteq tasks \ {t}
      BY <1>1, <1>2, <1>3, <2>1 DEF StorageInv, LoadsAgree
    <3> QED BY <1>3, <1>6, <2>1, <3>1 DEF Prunes
  <2>2. CASE y # x
    <3>1. y \in tasks \ {t}
      BY <1>2, <2>2
    <3>2. Prunes(tasks \ {y}) /\ (y.step = "ok" => y.audit = audit /\ y.days = retention)
      BY <3>1 DEF StorageInv, LoadsAgree
    <3>3. t.kind = "prune"
      BY <1>1, <3>1, <3>2 DEF Prunes
    <3> QED BY <1>2, <1>3, <1>6, <3>2, <3>3 DEF Prunes
  <2> QED BY <2>1, <2>2
<1>9. OneRetention'
  <2> SUFFICES ASSUME NEW y \in tasks', NEW z \in tasks', y.live, z.live,
                      y.kind = "retention", z.kind = "retention"
               PROVE  y = z
    BY DEF OneRetention
  <2> QED BY <1>1, <1>2, <1>3 DEF StorageInv, OneRetention
<1>10. ShownAgrees'
  <2> SUFFICES ASSUME current PROVE ShownAgrees'
    BY <1>1 DEF ShownAgrees
  <2>1. Shown("storage")' /\ \A u \in tasks : u.kind \in Changes => u.live
    BY DEF StorageInv, ShownAgrees, Shown
  <2>2. \A u \in tasks' : u.kind \in Changes => u.live
    BY <1>1, <1>2, <1>3, <2>1
  <2>3. ASSUME ~ Failed'
        PROVE  /\ audit' \subseteq auditLogs' /\ \A a \in auditLogs' \ audit' : Removed(a)'
               /\ RetentionAgrees'
    <3>1. t.kind \in Changes => x \in tasks' /\ o # "failed"
      BY <1>1, <1>2, <1>3, <2>1, <2>3 DEF Failed
    <3>2. ~ Failed
      BY <1>1, <1>2, <2>3 DEF Failed
    <3>3. /\ audit \subseteq auditLogs /\ \A a \in auditLogs \ audit : Removed(a)
          /\ RetentionAgrees
      BY <3>2 DEF StorageInv, ShownAgrees
    <3>4. ASSUME NEW a \in auditLogs' \ audit' PROVE Removed(a)'
      <4>1. CASE a \in audit
        <5>1. o # "denied" /\ (t.kind = "clear" \/ (t.kind = "delete" /\ t.item = a))
          BY <1>5, <3>4, <4>1
        <5> QED BY <1>3, <3>1, <5>1 DEF Removed, Changes
      <4>2. CASE a \notin audit
        <5>1. Removed(a)
          BY <1>1, <3>3, <3>4, <4>2
        <5> QED BY <1>1, <1>2, <5>1 DEF Removed
      <4> QED BY <4>1, <4>2
    <3>5. RetentionAgrees'
      <4>1. CASE t.kind = "retention"
        <5>1. \A u \in tasks' : u.kind = "retention" => u = x
          BY <1>1, <1>2, <2>1, <4>1 DEF StorageInv, OneRetention, Changes
        <5>2. x \in tasks' /\ o # "failed" /\ x.kind = "retention" /\ x.days = t.days
          BY <1>3, <3>1, <4>1 DEF Changes
        <5>3. CASE o = "ok"
          BY <1>3, <1>5, <4>1, <5>1, <5>2, <5>3 DEF RetentionAgrees
        <5>4. CASE o = "denied"
          <6>1. retention' = retention /\ \A u \in tasks : u.kind = "retention" => u = t
            BY <1>1, <1>5, <2>1, <4>1, <5>4 DEF StorageInv, OneRetention, Changes
          <6> QED BY <1>1, <1>3, <3>3, <5>1, <5>4, <6>1 DEF RetentionAgrees
        <5> QED BY <5>2, <5>3, <5>4
      <4>2. CASE t.kind # "retention"
        BY <1>1, <1>2, <1>3, <1>5, <3>3, <4>2 DEF RetentionAgrees
      <4> QED BY <4>1, <4>2
    <3> QED BY <1>1, <1>5, <3>3, <3>4, <3>5
  <2> QED BY <2>1, <2>2, <2>3 DEF ShownAgrees
<1> QED BY <1>7, <1>8, <1>9, <1>10 DEF StorageInv

\* The audit of a load fails on its own.
LEMMA AuditUnreadKeeps ==
  ASSUME StorageInv, NEW t, AuditUnread(t), UNCHANGED <<screen, tab>>
  PROVE  StorageInv'
<1>1. /\ t \in tasks /\ t.kind = "load" /\ IsTask(t) /\ t.live
      /\ UNCHANGED <<audit, retention, auditLogs, retentionDays, current>>
  BY DEF AuditUnread, StorageInv, TasksAgree, shown, Changes
<1>2. PICK x : x = [t EXCEPT !.audit = {}, !.alone = FALSE] /\ tasks' = (tasks \ {t}) \cup {x}
  BY DEF AuditUnread
<1>3. IsTask(x) /\ x.kind = "load" /\ x.live /\ ~ x.alone
  <2>1. PICK k, i, d, a, m, p, s, l, e, n :
          t = [kind |-> k, item |-> i, days |-> d, audit |-> a, max |-> m,
               opened |-> p, step |-> s, live |-> l, alone |-> e, id |-> n]
    BY <1>1 DEF IsTask
  <2> QED BY <1>1, <1>2, <2>1 DEF IsTask
<1>4. TasksAgree'
  BY <1>1, <1>2, <1>3 DEF StorageInv, TasksAgree, Shown
<1>5. LoadsAgree'
  <2>1. ASSUME NEW y \in tasks', y.kind = "load", y.alone PROVE FALSE
    <3>1. y \in tasks \ {t}
      BY <1>2, <1>3, <2>1
    <3> QED BY <1>1, <2>1, <3>1 DEF StorageInv, LoadsAgree, Prunes
  <2> QED BY <2>1 DEF LoadsAgree
<1>6. OneRetention'
  BY <1>1, <1>2, <1>3 DEF StorageInv, OneRetention
<1>7. ShownAgrees'
  <2>1. Failed => Failed'
    BY <1>1, <1>2 DEF Failed, Changes
  <2>2. \A a : Removed(a) => Removed(a)'
    BY <1>1, <1>2 DEF Removed
  <2>3. RetentionAgrees => RetentionAgrees'
    BY <1>1, <1>2, <1>3 DEF RetentionAgrees
  <2> QED BY <1>1, <1>2, <1>3, <2>1, <2>2, <2>3 DEF StorageInv, ShownAgrees, Shown, Changes
<1> QED BY <1>4, <1>5, <1>6, <1>7 DEF StorageInv

\* A load is shown, or failed.
LEMMA StorageLoadedKeeps ==
  ASSUME StorageInv, NEW t, StorageLoaded(t), UNCHANGED <<screen, tab>>
  PROVE  StorageInv'
<1>1. /\ t \in tasks /\ t.kind = "load" /\ t.live /\ tasks' = tasks \ {t}
      /\ UNCHANGED <<audit, retention>> /\ Shown("storage")
  BY DEF StorageLoaded, StorageInv, TasksAgree, Changes
<1>2. TasksAgree' /\ LoadsAgree' /\ OneRetention'
  BY <1>1 DEF StorageInv, TasksAgree, LoadsAgree, OneRetention, Prunes, Shown
<1>3. CASE t.step = "ok" /\ t.alone
  <2>1. auditLogs' = t.audit /\ retentionDays' = t.days
    BY <1>3 DEF StorageLoaded
  <2>2. t.audit = audit /\ t.days = retention /\ Prunes(tasks \ {t})
    BY <1>1, <1>3 DEF StorageInv, LoadsAgree
  <2>3. ShownAgrees'
    BY <1>1, <2>1, <2>2 DEF ShownAgrees, RetentionAgrees, Prunes, Changes, Shown
  <2> QED BY <1>2, <2>3 DEF StorageInv
<1>4. CASE t.step = "ok" /\ ~ t.alone
  BY <1>2, <1>4 DEF StorageLoaded, StorageInv, ShownAgrees
<1>5. CASE t.step # "ok"
  <2>1. UNCHANGED <<auditLogs, retentionDays, current>>
    BY <1>5 DEF StorageLoaded, shown
  <2>2. (Failed => Failed') /\ (\A a : Removed(a) => Removed(a)')
    BY <1>1 DEF Failed, Removed, Changes
  <2>3. RetentionAgrees => RetentionAgrees'
    BY <1>1, <2>1 DEF RetentionAgrees
  <2>4. ShownAgrees'
    BY <1>1, <2>1, <2>2, <2>3 DEF StorageInv, ShownAgrees, Shown
  <2> QED BY <1>2, <2>4 DEF StorageInv
<1> QED BY <1>3, <1>4, <1>5

\* A change was answered: what is shown follows it, or is not vouched for any more.
LEMMA ChangeAnswered ==
  ASSUME StorageInv, NEW t, RetentionSaved(t) \/ AnalysisDeleted(t) \/ AuditCleared(t),
         UNCHANGED <<screen, tab>>
  PROVE  StorageInv'
<1>1. /\ t \in tasks /\ t.kind \in Changes /\ tasks' = tasks \ {t}
      /\ UNCHANGED <<audit, retention>>
  BY DEF RetentionSaved, AnalysisDeleted, AuditCleared, Changes
<1>2. TasksAgree' /\ LoadsAgree' /\ OneRetention'
  BY <1>1 DEF StorageInv, TasksAgree, LoadsAgree, OneRetention, Prunes, Shown
<1>3. ShownAgrees'
  <2> SUFFICES ASSUME current' PROVE ShownAgrees'
    BY DEF ShownAgrees
  <2>1. current /\ t.step = "ok"
    BY DEF RetentionSaved, AnalysisDeleted, AuditCleared
  <2>2. Shown("storage")' /\ \A u \in tasks : u.kind \in Changes => u.live
    BY <2>1 DEF StorageInv, ShownAgrees, Shown
  <2>3. ASSUME ~ Failed'
        PROVE  /\ audit' \subseteq auditLogs' /\ \A a \in auditLogs' \ audit' : Removed(a)'
               /\ RetentionAgrees'
    <3>1. ~ Failed
      BY <1>1, <2>1, <2>3 DEF Failed
    <3>2. /\ audit \subseteq auditLogs /\ \A a \in auditLogs \ audit : Removed(a)
          /\ RetentionAgrees
      BY <2>1, <3>1 DEF StorageInv, ShownAgrees
    <3>3. CASE RetentionSaved(t)
      <4>1. auditLogs' = auditLogs /\ retentionDays' = t.days /\ t.kind = "retention"
        BY <2>1, <3>3 DEF RetentionSaved
      <4>2. t.days = retention
        BY <1>1, <2>1, <3>2, <4>1 DEF RetentionAgrees
      <4>3. \A a : Removed(a) => Removed(a)'
        BY <1>1, <4>1 DEF Removed
      <4>4. RetentionAgrees'
        BY <1>1, <3>2, <4>1, <4>2 DEF RetentionAgrees
      <4> QED BY <1>1, <3>2, <4>1, <4>3, <4>4
    <3>4. CASE AnalysisDeleted(t)
      <4>1. /\ auditLogs' = auditLogs \ {t.item} /\ retentionDays' = retentionDays
            /\ t.kind = "delete" /\ t.item \notin audit
        BY <1>1, <2>1, <3>4 DEF AnalysisDeleted, StorageInv, TasksAgree
      <4>2. ASSUME NEW a \in auditLogs' \ audit' PROVE Removed(a)'
        <5>1. Removed(a) /\ a # t.item
          BY <1>1, <3>2, <4>1, <4>2
        <5> QED BY <1>1, <4>1, <5>1 DEF Removed
      <4>3. RetentionAgrees'
        BY <1>1, <3>2, <4>1 DEF RetentionAgrees
      <4> QED BY <1>1, <3>2, <4>1, <4>2, <4>3
    <3>5. CASE AuditCleared(t)
      <4>1. /\ auditLogs' = {} /\ retentionDays' = retentionDays
            /\ t.kind = "clear" /\ audit = {}
        BY <1>1, <2>1, <3>5 DEF AuditCleared, StorageInv, TasksAgree
      <4>2. RetentionAgrees'
        BY <1>1, <3>2, <4>1 DEF RetentionAgrees
      <4> QED BY <1>1, <4>1, <4>2
    <3> QED BY <3>3, <3>4, <3>5
  <2> QED BY <1>1, <2>2, <2>3 DEF ShownAgrees
<1> QED BY <1>2, <1>3 DEF StorageInv

\* A prune that is done reads everything again.
LEMMA PrunedKeeps ==
  ASSUME StorageInv, NEW t, Pruned(t), UNCHANGED <<screen, tab>>
  PROVE  StorageInv'
<1>1. /\ t \in tasks /\ t.kind = "prune" /\ t.live /\ Shown("storage")
      /\ UNCHANGED <<audit, retention, auditLogs, retentionDays, current>>
  BY DEF Pruned, StorageInv, TasksAgree, Changes, shown
<1>2. CASE t.step = "ok"
  <2>1. Begin(Task("load", NoAnalysis, 1), tasks \ {t})
    BY <1>2 DEF Pruned, loadAllData
  <2>2. \A u \in tasks \ {t} : IsTask(u)
    BY DEF StorageInv, TasksAgree
  <2>3. PICK x : BeginsWith(x, "load", NoAnalysis, tasks \ {t})
    BY <2>1, <2>2, BeginAdds
  <2>4. tasks \ {t} \in SUBSET tasks /\ Prunes(tasks \ (tasks \ {t}))
    BY <1>1 DEF Prunes
  <2> QED BY <1>1, <2>3, <2>4, BeginKeeps
<1>3. CASE t.step # "ok"
  <2>1. tasks' = tasks \ {t}
    BY <1>3 DEF Pruned
  <2>2. TasksAgree' /\ LoadsAgree' /\ OneRetention'
    BY <1>1, <2>1 DEF StorageInv, TasksAgree, LoadsAgree, OneRetention, Prunes, Shown
  <2>3. (Failed => Failed') /\ (\A a : Removed(a) => Removed(a)')
    BY <1>1, <2>1 DEF Failed, Removed, Changes
  <2>4. RetentionAgrees => RetentionAgrees'
    BY <1>1, <2>1 DEF RetentionAgrees
  <2>5. ShownAgrees'
    BY <1>1, <2>1, <2>3, <2>4 DEF StorageInv, ShownAgrees, Shown
  <2> QED BY <2>2, <2>5 DEF StorageInv
<1> QED BY <1>2, <1>3

LEMMA StorageStepKeeps ==
  ASSUME StorageInv, StorageStep
  PROVE  StorageInv'
<1> UNCHANGED <<screen, tab>>
  BY DEF StorageStep
<1>1. ASSUME NEW t, NEW o \in {"ok", "denied", "failed"}, ServeTask(t, o) \/ AuditUnread(t)
      PROVE  StorageInv'
  BY <1>1, ServeTaskKeeps, AuditUnreadKeeps
<1>2. CASE handleSaveRetention \/ handlePruneNow \/ handleClearAllAudit
             \/ \E a \in Analyses : handleDeleteAuditItem(a)
  BY <1>2, OperatorBegins
<1>3. ASSUME NEW a, \/ OpenClearAll \/ CloseAnalysis \/ CloseClearAll
                    \/ OpenAnalysis(a) \/ SetDays(a)
      PROVE  StorageInv'
  <2>1. UNCHANGED <<audit, retention, auditLogs, retentionDays, tasks, current>>
    BY <1>3 DEF OpenClearAll, CloseAnalysis, CloseClearAll, OpenAnalysis, SetDays, shown
  <2> QED BY <2>1, TasksAloneKeep
<1>4. ASSUME NEW t, StorageLoaded(t) \/ RetentionSaved(t) \/ Pruned(t) \/ AnalysisDeleted(t)
                    \/ AuditCleared(t)
      PROVE  StorageInv'
  BY <1>4, StorageLoadedKeeps, ChangeAnswered, PrunedKeeps
<1> QED BY <1>1, <1>2, <1>3, <1>4 DEF StorageStep

\* Mounting and unmounting, when T is left of the calls.
LEMMA PanelsKeepStorage ==
  ASSUME StorageInv, NEW S, NEW T \in SUBSET tasks, NEW O, Panels(S, T, O),
         UNCHANGED <<audit, retention>>,
         Shown("storage") /\ ShownNext("storage") => T = tasks
  PROVE  StorageInv'
<1>1. Shown("storage")' = ShownNext("storage")
  BY DEF Shown, ShownNext
<1>2. CASE Shown("storage") = ShownNext("storage")
  <2>1. tasks' = T /\ UNCHANGED <<auditLogs, retentionDays, current>>
    BY <1>2 DEF Panels, shown
  <2>2. TasksAgree' /\ LoadsAgree' /\ OneRetention'
    BY <1>1, <1>2, <2>1 DEF StorageInv, TasksAgree, LoadsAgree, OneRetention, Prunes
  <2>3. current => T = tasks
    BY <1>2 DEF StorageInv, ShownAgrees
  <2>4. ShownAgrees'
    BY <1>1, <1>2, <2>1, <2>3
       DEF StorageInv, ShownAgrees, Failed, Removed, RetentionAgrees
  <2> QED BY <2>2, <2>4 DEF StorageInv
<1>3. CASE Shown("storage") # ShownNext("storage")
  <2>1. StorageMount(ShownNext("storage"), T)
    BY <1>3 DEF Panels
  <2>2. PICK left : left = {[t EXCEPT !.live = FALSE] :
                              t \in {u \in T : u.kind \in Changes /\ u.step = "sent"}}
    OBVIOUS
  <2>3. ASSUME NEW y \in left
        PROVE  IsTask(y) /\ ~ y.live /\ y.kind \in Changes /\ y.step = "sent"
    <3>1. PICK t \in T : /\ t.kind \in Changes /\ t.step = "sent"
                         /\ y = [t EXCEPT !.live = FALSE]
      BY <2>2, <2>3
    <3> QED BY <3>1, TaskLeft DEF StorageInv, TasksAgree
  <2>4. ~ current'
    BY <2>1 DEF StorageMount
  <2>5. CASE ~ ShownNext("storage")
    <3>1. tasks' = left
      BY <2>1, <2>2, <2>5 DEF StorageMount
    <3> QED BY <2>3, <2>4, <3>1
            DEF StorageInv, TasksAgree, LoadsAgree, OneRetention, ShownAgrees, Changes
  <2>6. CASE ShownNext("storage")
    <3>1. Begin([Task("load", NoAnalysis, 1) EXCEPT !.id = 0], left)
      BY <2>1, <2>2, <2>6 DEF StorageMount
    <3>2. PICK x : BeginsWith(x, "load", NoAnalysis, left)
      BY <2>3, <3>1, BeginAdds
    <3>3. \A y \in tasks' : y = x \/ y \in left
      BY <2>3, <3>2 DEF BeginsWith, Changes
    <3>4. IsTask(x) /\ x.kind = "load" /\ x.live /\ x.step = "sent" /\ (x.alone => Prunes(left))
      BY <3>2 DEF BeginsWith
    <3>5. TasksAgree'
      BY <1>1, <2>3, <2>6, <3>3, <3>4 DEF TasksAgree
    <3>6. LoadsAgree'
      BY <2>3, <3>3, <3>4 DEF LoadsAgree, Prunes, Changes
    <3>7. OneRetention'
      BY <2>3, <3>3, <3>4 DEF OneRetention
    <3> QED BY <2>4, <3>5, <3>6, <3>7 DEF StorageInv, ShownAgrees
  <2> QED BY <2>5, <2>6
<1> QED BY <1>2, <1>3

LEMMA StorageInvStep == StorageInv /\ [Next]_vars => StorageInv'
<1> SUFFICES ASSUME StorageInv, [Next]_vars PROVE StorageInv'
  OBVIOUS
<1>1. CASE UNCHANGED <<screen, tab, storageVars>>
  BY <1>1, TasksAloneKeep DEF storageVars, shown
<1>2. CASE UNCHANGED vars \/ SettingsStep \/ AliasStep
  BY <1>1, <1>2 DEF vars, sessionVars, SettingsStep, AliasStep
<1>3. CASE StorageStep
  BY <1>3, StorageStepKeeps
<1>4. ASSUME NEW S, NEW T, NEW O, Remounts(S, T, O) PROVE StorageInv'
  <2>1. ShownNext("storage") => T = tasks
    BY <1>4 DEF Remounts, ShownNext
  <2> QED BY <1>4, <2>1, PanelsKeepStorage DEF Remounts
<1>5. CASE AppStep
  BY <1>1, <1>4, <1>5, AppRemounts
<1> QED BY <1>2, <1>3, <1>5 DEF Next

\* When nothing is under way, the list of analyses and the retention that are shown are
\* the server's: a deleted analysis does not come back (StoragePanel.tsx:43-64, 70-73,
\* 91, 107).
THEOREM ConsoleStorageCurrent == Spec => []StorageCurrent
<1>1. Init => StorageInv
  BY DEF Init, StorageInv, TasksAgree, LoadsAgree, OneRetention, ShownAgrees
<1>2. StorageInv => StorageCurrent
  BY DEF StorageInv, ShownAgrees, StorageCurrent, Failed, Removed, RetentionAgrees, Changes
<1> QED BY <1>1, <1>2, StorageInvStep, PTL DEF Spec

-----------------------------------------------------------------------------
\* The types, in parts: inductions over a list, and the lists of fallbacks.

\* Induction over the naturals, for a set.
LEMMA NatSetInduction ==
  ASSUME NEW S, 0 \in S, \A n \in Nat : n \in S => n + 1 \in S
  PROVE  Nat \subseteq S
<1>1. SUFFICES ASSUME Nat \ S # {} PROVE FALSE
  OBVIOUS
<1>2. PICK m \in Nat \ S : \A n \in Nat \ S : <<n, m>> \notin OpToRel(<, Nat)
  BY <1>1, NatLessThanWellFounded, WFMin
<1>3. \A n \in Nat \ S : ~ (n < m)
  BY <1>2 DEF OpToRel
<1>4. m - 1 \in Nat /\ m - 1 < m /\ (m - 1) + 1 = m
  OBVIOUS
<1>5. m - 1 \in S
  BY <1>3, <1>4
<1> QED BY <1>4, <1>5

\* The recursion of Without has a solution.
LEMMA WithoutUnfold ==
  ASSUME NEW m, NEW K, NEW list \in Seq(K)
  PROVE  /\ Without(m, list)[0] = <<>>
         /\ \A n \in 0 .. Len(list) : n # 0 =>
              Without(m, list)[n] =
                IF list[n] = m THEN Without(m, list)[n - 1]
                               ELSE Append(Without(m, list)[n - 1], list[n])
<1> DEFINE Turn(g, n) == IF list[n] = m THEN g[n - 1] ELSE Append(g[n - 1], list[n])
           Solves(g, k) == g = [n \in 0 .. k |-> IF n = 0 THEN <<>> ELSE Turn(g, n)]
           Solved == {k \in Nat : \E g : Solves(g, k)}
<1>1. 0 \in Solved
  <2>1. Solves([n \in 0 .. 0 |-> <<>>], 0)
    OBVIOUS
  <2> QED BY <2>1
<1>2. ASSUME NEW k \in Nat, k \in Solved
      PROVE  k + 1 \in Solved
  <2>1. PICK g : Solves(g, k)
    BY <1>2
  <2> DEFINE h == [n \in 0 .. k + 1 |-> IF n = k + 1 THEN Turn(g, k + 1) ELSE g[n]]
  <2>2. \A n \in 0 .. k : g[n] = IF n = 0 THEN <<>> ELSE Turn(g, n)
    BY <2>1
  <2>3. \A n \in 0 .. k + 1 : h[n] = IF n = 0 THEN <<>> ELSE Turn(h, n)
    <3> TAKE n \in 0 .. k + 1
    <3>1. CASE n = k + 1
      BY <3>1
    <3>2. CASE n # k + 1
      <4>1. n \in 0 .. k /\ (n # 0 => n - 1 \in 0 .. k)
        BY <3>2
      <4> QED BY <2>2, <4>1
    <3> QED BY <3>1, <3>2
  <2>4. Solves(h, k + 1)
    BY <2>3
  <2>5. k + 1 \in Nat
    BY <1>2
  <2> HIDE DEF h
  <2> QED BY <2>4, <2>5
<1>3. Len(list) \in Solved
  BY <1>1, <1>2, NatSetInduction, LenProperties
<1>4. PICK g : Solves(g, Len(list))
  BY <1>3
<1>5. Solves(Without(m, list), Len(list))
  BY <1>4 DEF Without
<1>6. Len(list) \in Nat /\ 0 \in 0 .. Len(list)
  BY LenProperties
<1> QED BY <1>5, <1>6

\* What is left of a list of models is a list of models.
LEMMA WithoutType ==
  ASSUME NEW m, NEW K, NEW list \in Seq(K)
  PROVE  Without(m, list)[Len(list)] \in Seq(K)
<1> DEFINE Fine == {n \in Nat : n <= Len(list) => Without(m, list)[n] \in Seq(K)}
<1>1. Len(list) \in Nat
  BY LenProperties
<1>2. 0 \in Fine
  <2>1. Without(m, list)[0] = <<>> /\ <<>> \in Seq(K)
    BY WithoutUnfold, EmptySeq
  <2> QED BY <2>1
<1>3. ASSUME NEW n \in Nat, n \in Fine PROVE n + 1 \in Fine
  <2> SUFFICES ASSUME n + 1 <= Len(list) PROVE Without(m, list)[n + 1] \in Seq(K)
    OBVIOUS
  <2>1. n + 1 \in 0 .. Len(list) /\ n + 1 # 0 /\ (n + 1) - 1 = n /\ n + 1 \in 1 .. Len(list)
    BY <1>1
  <2>2. Without(m, list)[n] \in Seq(K) /\ list[n + 1] \in K
    BY <1>1, <1>3, <2>1, ElementOfSeq
  <2>3. Without(m, list)[n + 1] =
          IF list[n + 1] = m THEN Without(m, list)[n]
                             ELSE Append(Without(m, list)[n], list[n + 1])
    BY <2>1, WithoutUnfold
  <2> QED BY <2>2, <2>3, AppendProperties
<1>4. Nat \subseteq Fine
  BY <1>2, <1>3, NatSetInduction
<1> QED BY <1>1, <1>4

\* What a button of the fallbacks makes of their list.
LEMMA RemoveType ==
  ASSUME NEW K, NEW list \in Seq(K), NEW i \in 1 .. Len(list)
  PROVE  RemoveAt(list, i) \in Seq(K) /\ Len(RemoveAt(list, i)) = Len(list) - 1
<1>1. Len(list) \in Nat /\ \A j \in 1 .. Len(list) : list[j] \in K
  BY LenProperties, ElementOfSeq
<1>2. SubSeq(list, 1, i - 1) \in Seq(K) /\ Len(SubSeq(list, 1, i - 1)) = i - 1
  <2>1. \A j \in 1 .. i - 1 : list[j] \in K
    BY <1>1
  <2> QED BY <1>1, <2>1, SubSeqProperties
<1>3. /\ SubSeq(list, i + 1, Len(list)) \in Seq(K)
      /\ Len(SubSeq(list, i + 1, Len(list))) = Len(list) - i
  <2>1. \A j \in i + 1 .. Len(list) : list[j] \in K
    BY <1>1
  <2> QED BY <1>1, <2>1, SubSeqProperties
<1>4. PICK u \in Seq(K), v \in Seq(K) :
        /\ u = SubSeq(list, 1, i - 1) /\ v = SubSeq(list, i + 1, Len(list))
        /\ Len(u) = i - 1 /\ Len(v) = Len(list) - i
  BY <1>2, <1>3
<1>5. PICK w : w = u \o v
  OBVIOUS
<1>6. w \in Seq(K) /\ Len(w) = Len(u) + Len(v)
  BY <1>5, ConcatProperties
<1>7. RemoveAt(list, i) = w
  BY <1>4, <1>5 DEF RemoveAt
<1>8. Len(w) = Len(list) - 1
  BY <1>1, <1>4, <1>6
<1> QED BY <1>6, <1>7, <1>8

LEMMA MoveType ==
  ASSUME NEW K, NEW list \in Seq(K), NEW i \in 1 .. Len(list), NEW j \in 1 .. Len(list)
  PROVE  InsertAt(RemoveAt(list, i), j, list[i]) \in Seq(K)
<1>1. Len(list) \in Nat /\ list[i] \in K /\ <<list[i]>> \in Seq(K)
  BY LenProperties, ElementOfSeq, SeqDef
<1>2. PICK rest \in Seq(K) : rest = RemoveAt(list, i) /\ Len(rest) = Len(list) - 1
  BY RemoveType
<1>3. \A n \in 1 .. Len(rest) : rest[n] \in K
  BY <1>2, ElementOfSeq
<1>4. SubSeq(rest, 1, j - 1) \in Seq(K)
  <2>1. \A n \in 1 .. j - 1 : rest[n] \in K
    BY <1>1, <1>2, <1>3
  <2> QED BY <2>1, SubSeqProperties
<1>5. SubSeq(rest, j, Len(rest)) \in Seq(K)
  <2>1. \A n \in j .. Len(rest) : rest[n] \in K
    BY <1>1, <1>2, <1>3
  <2> QED BY <1>1, <1>2, <2>1, SubSeqProperties
<1>6. SubSeq(rest, 1, j - 1) \o <<list[i]>> \o SubSeq(rest, j, Len(rest)) \in Seq(K)
  BY <1>1, <1>4, <1>5, ConcatProperties
<1> QED BY <1>2, <1>6 DEF InsertAt

-----------------------------------------------------------------------------
\* The types of the session and the settings.

\* A request fails and is counted, or does not.
Counted == UNCHANGED breaks \/ (breaks < MaxBreaks /\ breaks' = breaks + 1)

LEMMA CountedTypes ==
  ASSUME breaks \in 0 .. MaxBreaks, Counted
  PROVE  breaks' \in 0 .. MaxBreaks
BY SessionAssumption DEF Counted

\* The session.
LEMMA SessionStepTypes ==
  ASSUME SessionTypeOK, path \in Tabs, SessionStep \/ Restart
  PROVE  SessionTypeOK'
<1>1. Counted /\ breaks \in 0 .. MaxBreaks
  <2>1. ASSUME NEW ok \in BOOLEAN, refreshAuth(ok) \/ login(ok) \/ setup(ok) PROVE Counted
    BY <2>1 DEF refreshAuth, login, setup, Counted
  <2>2. ASSUME NEW ok \in BOOLEAN, logout(ok, path) PROVE Counted
    BY <2>2 DEF logout, Counted
  <2> QED BY <2>1, <2>2 DEF SessionStep, Restart, SubmitLogin, SubmitSetup, SignOut, Expire,
             Reload, Counted, SessionTypeOK
<1>2. admin \in BOOLEAN /\ cookie \in BOOLEAN
  BY DEF SessionTypeOK
<1>3. admin' \in BOOLEAN /\ cookie' \in BOOLEAN
  <2>1. (admin' = admin \/ admin' = TRUE) /\ (cookie' = cookie \/ cookie' = TRUE \/ cookie' = FALSE)
    BY DEF SessionStep, Restart, refreshAuth, login, setup, logout, SubmitLogin, SubmitSetup,
           SignOut, Expire, Reload
  <2> QED BY <1>2, <2>1
<1>4. tab' \in Tabs
  BY DEF SessionTypeOK, SessionStep, Restart, refreshAuth, login, setup, logout, SubmitLogin,
         SubmitSetup, SignOut, Expire, Reload, Reloads
<1>5. /\ screen' \in {"loading", "setup", "login", "console"}
      /\ asked' \in {"none", "status", "login", "setup", "logout"}
      /\ notice' \in {"none", "stored", "shown"}
  BY DEF SessionTypeOK, SessionStep, Restart, refreshAuth, login, setup, logout, SubmitLogin,
         SubmitSetup, SignOut, Expire, Reload, Reloads, Show, NoticeOn
<1> QED BY <1>1, <1>3, <1>4, <1>5, CountedTypes DEF SessionTypeOK

\* The types of the settings, in parts: what SettingsTypeOK says, and the fields of the
\* records that change.
FormTypes ==
  /\ stored \in Forms /\ form \in Forms /\ settings \in Forms \cup {NoForm}
  /\ draft.form \in Forms \cup {NoForm} /\ edits \in 0 .. MaxEdits
ReadingTypes ==
  /\ reading = [status |-> reading.status, value |-> reading.value]
  /\ reading.status \in {"none", "sent", "ok", "failed", "denied"}
  /\ reading.status = "ok" => reading.value \in Forms
SaveTypes(S) ==
  \A s \in S :
    /\ IsSave(s) /\ s.step \in {"store", "read"}
    /\ s.status \in {"sent", "ok", "failed", "denied"}
    /\ s.target \in Tabs \cup {NoTab} /\ s.value \in Forms /\ s.live \in BOOLEAN
LoadTypes ==
  /\ models \subseteq Models /\ loadingModels \in BOOLEAN
  /\ \A l \in modelLoads : l.provider \in Providers
ChoiceTypes ==
  /\ customModel \in BOOLEAN /\ adding.typed \in BOOLEAN /\ adding.name \in Models \cup {""}
PasswordTypes == changing \in {"none", "sent", "left"} /\ signOut \in BOOLEAN

SettingsTypes ==
  /\ FormTypes /\ ReadingTypes /\ SaveTypes(saves) /\ LoadTypes /\ ChoiceTypes /\ PasswordTypes

\* The types in parts give SettingsTypeOK.
LEMMA SettingsTypesOK == SettingsTypes => SettingsTypeOK
BY DEF SettingsTypes, FormTypes, ReadingTypes, SaveTypes, LoadTypes, ChoiceTypes, PasswordTypes,
       SettingsTypeOK

\* A form that is edited.
LEMMA FormEdited ==
  ASSUME NEW f \in Forms, NEW p \in Providers, NEW m \in Models, NEW r \in Rests,
         NEW fb \in Seq(Models)
  PROVE  /\ [f EXCEPT !.provider = p] \in Forms /\ [f EXCEPT !.rest = r] \in Forms
         /\ [f EXCEPT !.fallbacks = fb] \in Forms
         /\ [f EXCEPT !.model = m, !.fallbacks = fb] \in Forms
BY DEF Forms

LEMMA FormFields ==
  ASSUME NEW f \in Forms
  PROVE  f.provider \in Providers /\ f.model \in Models /\ f.fallbacks \in Seq(Models)
         /\ f.rest \in Rests
BY DEF Forms

LEMMA Acted ==
  ASSUME edits \in 0 .. MaxEdits, Acts
  PROVE  edits' \in 0 .. MaxEdits
BY SettingsAssumption DEF Acts

\* Whatever the operator makes of the form.
LEMMA EditTypes ==
  ASSUME FormTypes, NEW f \in Forms, Edit(f)
  PROVE  FormTypes' /\ UNCHANGED <<reading, saves, models, passwords>>
<1>1. edits' \in 0 .. MaxEdits
  BY Acted DEF Edit, FormTypes
<1>2. draft'.form \in Forms \cup {NoForm}
  <2>1. draft' = draft \/ draft' = NoDraft \/ draft' = [form |-> f, quiet |-> Quiet]
    BY DEF Edit
  <2> QED BY <2>1 DEF NoDraft, FormTypes
<1> QED BY <1>1, <1>2 DEF Edit, FormTypes

LEMMA LoadModelsTypes ==
  ASSUME LoadTypes, NEW p \in Providers, LoadModels(p), UNCHANGED models
  PROVE  LoadTypes'
<1>1. PICK l : l.provider = p /\ modelLoads' = modelLoads \cup {l}
  BY DEF LoadModels
<1> QED BY <1>1 DEF LoadModels, LoadTypes

LEMMA LoadsUnchanged ==
  ASSUME LoadTypes, UNCHANGED <<models, modelLoads, loadingModels>>
  PROVE  LoadTypes'
BY DEF LoadTypes

\* What a save becomes.
LEMMA SaveAnswered ==
  ASSUME SaveTypes(saves), stored \in Forms, NEW s, ServeSave(s, "ok") \/ ServeSave(s, "failed")
         \/ ServeSave(s, "denied")
  PROVE  SaveTypes(saves') /\ stored' \in Forms
<1>1. PICK o \in {"ok", "failed", "denied"} : ServeSave(s, o)
  OBVIOUS
<1>2. PICK f, x : /\ x = [s EXCEPT !.status = o, !.value = f]
                  /\ f = (IF s.step = "read" /\ o = "ok" THEN stored ELSE s.value)
                  /\ saves' = (saves \ {s}) \cup {x}
  BY <1>1 DEF ServeSave
<1>3. s \in saves /\ IsSave(s) /\ s.value \in Forms
  BY <1>1 DEF ServeSave, SaveTypes
<1>4. /\ IsSave(x) /\ x.status = o /\ x.value = f
      /\ x.step = s.step /\ x.target = s.target /\ x.live = s.live
  <2>1. PICK i, u, v, w, t, l :
          s = [id |-> i, step |-> u, status |-> v, value |-> w, target |-> t, live |-> l]
    BY <1>3 DEF IsSave
  <2> QED BY <1>2, <2>1 DEF IsSave
<1>5. SaveTypes(saves')
  BY <1>1, <1>2, <1>3, <1>4 DEF SaveTypes
<1>6. stored' = s.value \/ stored' = stored
  BY <1>1 DEF ServeSave
<1> QED BY <1>3, <1>5, <1>6

LEMMA SaveRead ==
  ASSUME SaveTypes(saves), NEW s, SaveStored(s)
  PROVE  SaveTypes(saves')
<1>1. s \in saves /\ IsSave(s)
  BY DEF SaveStored, SaveTypes
<1>2. PICK x : /\ x = [s EXCEPT !.step = "read", !.status = "sent"]
               /\ saves' = (saves \ {s}) \cup {x}
  BY DEF SaveStored
<1>3. /\ IsSave(x) /\ x.step = "read" /\ x.status = "sent" /\ x.value = s.value
      /\ x.target = s.target /\ x.live = s.live
  <2>1. PICK i, u, v, w, t, l :
          s = [id |-> i, step |-> u, status |-> v, value |-> w, target |-> t, live |-> l]
    BY <1>1 DEF IsSave
  <2> QED BY <1>2, <2>1 DEF IsSave
<1> QED BY <1>1, <1>2, <1>3 DEF SaveTypes

LEMMA SaveBegun ==
  ASSUME SettingsTypes, NEW t \in Tabs \cup {NoTab}, executeSave(t)
  PROVE  SettingsTypes'
<1>1. PICK x : /\ \E i : x = [id |-> i, step |-> "store", status |-> "sent", value |-> form,
                              target |-> t, live |-> TRUE]
               /\ saves' = saves \cup {x}
  BY DEF executeSave
<1>2. /\ IsSave(x) /\ x.step = "store" /\ x.status = "sent" /\ x.value = form
      /\ x.target = t /\ x.live = TRUE
  BY <1>1 DEF IsSave
<1>3. SaveTypes(saves')
  BY <1>1, <1>2 DEF SettingsTypes, SaveTypes, FormTypes
<1> QED BY <1>3 DEF executeSave, contents, offers, choice, passwords, SettingsTypes, FormTypes,
           ReadingTypes, LoadTypes, ChoiceTypes, PasswordTypes

\* The first read.
LEMMA ReadTypes ==
  ASSUME SettingsTypes, loadSettings \/ \E o \in {"ok", "denied", "failed"} : ServeSettings(o)
  PROVE  SettingsTypes'
<1> USE DEF SettingsTypes
<1>1. CASE loadSettings
  <2>1. ReadingTypes' /\ SaveTypes(saves') /\ ChoiceTypes' /\ PasswordTypes'
    BY <1>1 DEF loadSettings, Idle, ReadingTypes, ChoiceTypes, PasswordTypes, choice, passwords
  <2>2. CASE reading.status = "ok"
    <3>1. reading.value \in Forms /\ reading.value.provider \in Providers
      BY <2>2, FormFields DEF ReadingTypes
    <3>2. LoadTypes'
      BY <1>1, <2>2, <3>1, LoadModelsTypes DEF loadSettings
    <3> QED BY <1>1, <2>1, <2>2, <3>1, <3>2 DEF loadSettings, FormTypes
  <2>3. CASE reading.status # "ok"
    BY <1>1, <2>1, <2>3, LoadsUnchanged DEF loadSettings, FormTypes
  <2> QED BY <2>2, <2>3
<1>2. ASSUME NEW o \in {"ok", "denied", "failed"}, ServeSettings(o) PROVE SettingsTypes'
  <2>1. ReadingTypes'
    BY <1>2 DEF ServeSettings, ReadingTypes, FormTypes
  <2> QED BY <1>2, <2>1, LoadsUnchanged
          DEF ServeSettings, contents, offers, choice, passwords, FormTypes, ChoiceTypes, PasswordTypes
<1> QED BY <1>1, <1>2

\* What only the form and the choices of the panel change.
LEMMA EditStepTypes ==
  ASSUME SettingsTypes, NEW f \in Forms, Edit(f),
         LoadTypes', ChoiceTypes'
  PROVE  SettingsTypes'
<1>1. FormTypes' /\ UNCHANGED <<reading, saves, models, passwords>>
  BY EditTypes DEF SettingsTypes
<1> QED BY <1>1 DEF SettingsTypes, ReadingTypes, PasswordTypes, passwords

\* The fields of the form.
LEMMA FormStepTypes ==
  ASSUME SettingsTypes,
         \/ addFallback
         \/ \E r \in Rests : EditRest(r)
         \/ \E p \in Providers : handleProviderChange(p)
         \/ \E i \in DOMAIN form.fallbacks :
              removeFallback(i) \/ \E d \in {-1, 1} : moveFallback(i, d)
         \/ \E m \in Models : ChoosePrimary(m) \/ UseDropdown(m)
  PROVE  SettingsTypes'
<1> USE DEF SettingsTypes
<1>1. /\ form \in Forms /\ form.provider \in Providers /\ form.model \in Models
      /\ form.fallbacks \in Seq(Models) /\ form.rest \in Rests
  BY FormFields DEF FormTypes
<1>2. DOMAIN form.fallbacks = 1 .. Len(form.fallbacks)
  BY <1>1, LenProperties
<1>3. ASSUME UNCHANGED choice PROVE ChoiceTypes'
  BY <1>3 DEF choice, ChoiceTypes
<1>4. ASSUME NEW fb \in Seq(Models) PROVE [form EXCEPT !.fallbacks = fb] \in Forms
  BY <1>1, <1>4, FormEdited
<1>5. ASSUME NEW m \in Models PROVE WithPrimary(m) \in Forms
  BY <1>1, <1>5, WithoutType, FormEdited DEF WithPrimary
<1>6. CASE addFallback
  <2>1. adding.name \in Models
    BY <1>6 DEF addFallback, ChoiceTypes
  <2>2. [form EXCEPT !.fallbacks = Append(form.fallbacks, adding.name)] \in Forms
    BY <1>1, <1>4, <2>1, AppendProperties
  <2>3. PICK f \in Forms : Edit(f)
    BY <1>1, <1>6, <2>2 DEF addFallback
  <2>4. LoadTypes' /\ ChoiceTypes'
    BY <1>6, <2>3, LoadsUnchanged DEF addFallback, Edit, ChoiceTypes, NotAdding
  <2> QED BY <2>3, <2>4, EditStepTypes
<1>7. ASSUME NEW r \in Rests, EditRest(r) PROVE SettingsTypes'
  <2>1. [form EXCEPT !.rest = r] \in Forms
    BY <1>1, FormEdited
  <2>2. Edit([form EXCEPT !.rest = r]) /\ LoadTypes' /\ ChoiceTypes'
    BY <1>3, <1>7, LoadsUnchanged DEF EditRest, Edit
  <2> QED BY <2>1, <2>2, EditStepTypes
<1>8. ASSUME NEW p \in Providers, handleProviderChange(p) PROVE SettingsTypes'
  <2>1. [form EXCEPT !.provider = p] \in Forms
    BY <1>1, FormEdited
  <2>2. Edit([form EXCEPT !.provider = p]) /\ LoadTypes' /\ ChoiceTypes'
    BY <1>8, LoadModelsTypes DEF handleProviderChange, Edit, ChoiceTypes, NotAdding
  <2> QED BY <2>1, <2>2, EditStepTypes
<1>9. ASSUME NEW i \in DOMAIN form.fallbacks,
             removeFallback(i) \/ \E d \in {-1, 1} : moveFallback(i, d)
      PROVE  SettingsTypes'
  <2>1. LoadTypes' /\ ChoiceTypes'
    BY <1>3, <1>9, LoadsUnchanged DEF removeFallback, moveFallback, Edit
  <2>2. CASE removeFallback(i)
    <3>1. [form EXCEPT !.fallbacks = RemoveAt(form.fallbacks, i)] \in Forms
      BY <1>1, <1>2, <1>4, RemoveType
    <3> QED BY <2>1, <2>2, <3>1, EditStepTypes DEF removeFallback
  <2>3. ASSUME NEW d \in {-1, 1}, moveFallback(i, d) PROVE SettingsTypes'
    <3>1. i + d \in 1 .. Len(form.fallbacks)
      BY <1>2, <2>3 DEF moveFallback, CanMove
    <3>2. InsertAt(RemoveAt(form.fallbacks, i), i + d, form.fallbacks[i]) \in Seq(Models)
      BY <1>1, <1>2, <3>1, MoveType
    <3> QED BY <1>4, <2>1, <2>3, <3>2, EditStepTypes DEF moveFallback
  <2> QED BY <1>9, <2>2, <2>3
<1>10. ASSUME NEW m \in Models, ChoosePrimary(m) PROVE SettingsTypes'
  <2>1. Edit(WithPrimary(m)) /\ LoadTypes' /\ ChoiceTypes'
    BY <1>3, <1>10, LoadsUnchanged DEF ChoosePrimary, Edit
  <2> QED BY <1>5, <2>1, EditStepTypes
<1>11. ASSUME NEW m \in Models, UseDropdown(m) PROVE SettingsTypes'
  <2>1. PICK f \in Forms : Edit(f)
    BY <1>1, <1>5, <1>11 DEF UseDropdown
  <2>2. LoadTypes' /\ ChoiceTypes'
    BY <1>11, <2>1, LoadsUnchanged DEF UseDropdown, Edit, ChoiceTypes
  <2> QED BY <2>1, <2>2, EditStepTypes
<1> QED BY <1>6, <1>7, <1>8, <1>9, <1>10, <1>11

\* What else the operator does in the panel.
LEMMA ActTypes ==
  ASSUME SettingsTypes,
         \/ RefreshModels \/ CancelFallback \/ TypeModel \/ handleResetChanges
         \/ handleChangePassword
         \/ \E m \in Models : ChooseFallback(m) \/ TypeFallback(m)
  PROVE  SettingsTypes'
<1> USE DEF SettingsTypes
<1>1. CASE handleResetChanges
  <2>1. settings \in Forms
    BY <1>1 DEF handleResetChanges, isDirty, FormTypes
  <2>2. LoadTypes'
    BY <1>1, <2>1, FormFields, LoadModelsTypes, LoadsUnchanged DEF handleResetChanges
  <2> QED BY <1>1, <2>1, <2>2 DEF handleResetChanges, FormTypes, ReadingTypes, ChoiceTypes,
             PasswordTypes, NotAdding, NoDraft, passwords
<1>2. CASE ~ handleResetChanges
  <2>1. Acts /\ UNCHANGED <<stored, contents, reading, saves, models, signOut, draft>>
    BY <1>2 DEF RefreshModels, CancelFallback, TypeModel, handleChangePassword, ChooseFallback,
           TypeFallback, offers, passwords
  <2>2. FormTypes' /\ ReadingTypes' /\ SaveTypes(saves')
    BY <2>1, Acted DEF contents, FormTypes, ReadingTypes
  <2>3. LoadTypes'
    BY <1>2, <2>1, LoadsUnchanged, LoadModelsTypes, FormFields
    DEF RefreshModels, CancelFallback, TypeModel, handleChangePassword, ChooseFallback,
        TypeFallback, offers, FormTypes
  <2>4. ChoiceTypes'
    <3>1. CASE UNCHANGED choice \/ (customModel' = TRUE /\ UNCHANGED adding)
      BY <3>1 DEF choice, ChoiceTypes
    <3>2. CASE adding' = NotAdding /\ UNCHANGED customModel
      BY <3>2 DEF NotAdding, ChoiceTypes
    <3>3. ASSUME NEW m \in Models, NEW b \in BOOLEAN, adding' = [typed |-> b, name |-> m],
                 UNCHANGED customModel
          PROVE  ChoiceTypes'
      BY <3>3 DEF ChoiceTypes
    <3>4. ASSUME NEW m \in Models, ChooseFallback(m) \/ TypeFallback(m)
          PROVE  ChoiceTypes'
      BY <3>3, <3>4 DEF ChooseFallback, TypeFallback
    <3> QED BY <1>2, <3>1, <3>2, <3>4
            DEF RefreshModels, CancelFallback, TypeModel, handleChangePassword, choice
  <2>5. PasswordTypes'
    BY <1>2
    DEF RefreshModels, CancelFallback, TypeModel, handleChangePassword, ChooseFallback,
        TypeFallback, passwords, PasswordTypes
  <2> QED BY <2>2, <2>3, <2>4, <2>5
<1> QED BY <1>1, <1>2

\* A list of models, the password and a save of the bar.
LEMMA AnswerTypes ==
  ASSUME SettingsTypes,
         \/ \E l \in modelLoads, ok \in BOOLEAN : ModelsAnswered(l, ok)
         \/ \E ok \in BOOLEAN : PasswordAnswered(ok)
         \/ \E s \in saves : SaveReturns(s)
  PROVE  SettingsTypes'
<1> USE DEF SettingsTypes
<1>1. ASSUME NEW l \in modelLoads, NEW ok \in BOOLEAN, ModelsAnswered(l, ok)
      PROVE  SettingsTypes'
  <2>1. models' = Offered[l.provider] \/ models' = {}
    BY <1>1 DEF ModelsAnswered
  <2>2. models' \subseteq Models
    BY <1>1, <2>1, SettingsAssumption DEF LoadTypes
  <2>3. LoadTypes'
    BY <1>1, <2>2 DEF ModelsAnswered, LoadTypes
  <2> QED BY <1>1, <2>3 DEF ModelsAnswered, FormTypes, ReadingTypes, ChoiceTypes, PasswordTypes,
             contents, choice, passwords
<1>2. ASSUME NEW ok \in BOOLEAN, PasswordAnswered(ok) PROVE SettingsTypes'
  <2>1. PasswordTypes'
    <3>1. changing' = "none" /\ (signOut' = TRUE \/ signOut' = signOut)
      BY <1>2 DEF PasswordAnswered
    <3> QED BY <3>1 DEF PasswordTypes
  <2>2. FormTypes' /\ ReadingTypes' /\ SaveTypes(saves') /\ LoadTypes' /\ ChoiceTypes'
    BY <1>2, LoadsUnchanged DEF PasswordAnswered, FormTypes, ReadingTypes, ChoiceTypes,
       contents, offers, choice
  <2> QED BY <2>1, <2>2
<1>3. ASSUME NEW s \in saves, SaveReturns(s) PROVE SettingsTypes'
  <2>1. SaveTypes(saves') /\ s.value \in Forms
    BY <1>3 DEF SaveReturns, SaveTypes
  <2>2. UNCHANGED <<stored, reading, models, choice, passwords, edits>>
    BY <1>3 DEF SaveReturns
  <2>3. CASE s.status = "ok" /\ s.live
    <3>1. settings' = s.value /\ form' = s.value /\ draft' = NoDraft /\ LoadModels(s.value.provider)
      BY <1>3, <2>3 DEF SaveReturns, SaveAdopted
    <3>2. LoadTypes'
      BY <2>1, <2>2, <3>1, FormFields, LoadModelsTypes
    <3> QED BY <2>1, <2>2, <3>1, <3>2 DEF FormTypes, ReadingTypes, ChoiceTypes, PasswordTypes,
               NoDraft, choice, passwords
  <2>4. CASE ~ (s.status = "ok" /\ s.live)
    <3>1. UNCHANGED <<settings, form, draft, modelLoads, loadingModels>>
      BY <1>3, <2>4 DEF SaveReturns, SaveAdopted
    <3> QED BY <2>1, <2>2, <3>1, LoadsUnchanged
            DEF FormTypes, ReadingTypes, ChoiceTypes, PasswordTypes, choice, passwords
  <2> QED BY <2>3, <2>4
<1> QED BY <1>1, <1>2, <1>3

\* The panel and the server.
LEMMA SettingsStepTypes ==
  ASSUME SettingsTypes, SettingsStep
  PROVE  SettingsTypes'
<1>1. ASSUME NEW o \in {"ok", "denied", "failed"}, NEW s \in saves, ServeSave(s, o)
      PROVE  SettingsTypes'
  <2>1. SaveTypes(saves') /\ stored' \in Forms
    BY <1>1, SaveAnswered DEF SettingsTypes, FormTypes
  <2> QED BY <1>1, <2>1, LoadsUnchanged DEF ServeSave, SettingsTypes, FormTypes, ReadingTypes,
             ChoiceTypes, PasswordTypes, contents, offers, choice, passwords
<1>2. ASSUME NEW s \in saves, SaveStored(s) PROVE SettingsTypes'
  <2>1. SaveTypes(saves')
    BY <1>2, SaveRead DEF SettingsTypes
  <2>2. draft' = NoDraft \/ draft' = draft
    BY <1>2 DEF SaveStored
  <2>3. FormTypes'
    BY <1>2, <2>2 DEF SaveStored, SettingsTypes, FormTypes, NoDraft, contents
  <2> QED BY <1>2, <2>1, <2>3, LoadsUnchanged DEF SaveStored, SettingsTypes, ReadingTypes,
             ChoiceTypes, PasswordTypes, offers, choice, passwords
<1>3. CASE executeSave(NoTab)
  BY <1>3, SaveBegun
<1>4. CASE SettingsCall
  BY <1>1, <1>4, ReadTypes, AnswerTypes DEF SettingsCall
<1>5. CASE SettingsAct
  BY <1>2, <1>3, <1>5, ReadTypes, AnswerTypes, FormStepTypes, ActTypes DEF SettingsAct
<1> QED BY <1>4, <1>5 DEF SettingsStep

\* Mounting and unmounting, when S is left of the saves.
LEMMA SettingsMountTypes ==
  ASSUME SettingsTypes, NEW S, SaveTypes(S), NEW T, NEW O, Panels(S, T, O),
         UNCHANGED <<stored, edits>>, signOut' \in BOOLEAN,
         draft'.form \in Forms \cup {NoForm}
  PROVE  SettingsTypes'
<1> USE DEF SettingsTypes
<1>1. CASE Shown("settings") = ShownNext("settings")
  <2>1. UNCHANGED <<contents, reading, offers, choice, changing>> /\ saves' = S
    BY <1>1 DEF Panels
  <2> QED BY <2>1, LoadsUnchanged DEF FormTypes, ReadingTypes, ChoiceTypes, PasswordTypes,
             contents, offers, choice
<1>2. CASE Shown("settings") # ShownNext("settings")
  <2>1. SettingsMount(ShownNext("settings"), S)
    BY <1>2 DEF Panels
  <2>2. SaveTypes(saves')
    <3>1. ASSUME NEW x \in saves', ~ ShownNext("settings")
          PROVE  /\ IsSave(x) /\ x.step \in {"store", "read"}
                 /\ x.status \in {"sent", "ok", "failed", "denied"}
                 /\ x.target \in Tabs \cup {NoTab} /\ x.value \in Forms /\ x.live \in BOOLEAN
      <4>1. PICK s \in S : x = [s EXCEPT !.live = FALSE]
        BY <2>1, <3>1 DEF SettingsMount, Outlive
      <4>2. IsSave(s)
        BY DEF SaveTypes
      <4>3. PICK i, u, v, w, t, l :
              s = [id |-> i, step |-> u, status |-> v, value |-> w, target |-> t, live |-> l]
        BY <4>2 DEF IsSave
      <4>4. /\ IsSave(x) /\ x.step = s.step /\ x.status = s.status /\ x.value = s.value
            /\ x.target = s.target /\ x.live = FALSE
        BY <4>1, <4>3 DEF IsSave
      <4> QED BY <4>4 DEF SaveTypes
    <3> QED BY <2>1, <3>1 DEF SettingsMount, SaveTypes
  <2>3. FormTypes'
    BY <2>1, SettingsAssumption DEF SettingsMount, FormTypes
  <2>4. ReadingTypes'
    BY <2>1 DEF SettingsMount, ReadingTypes, Asked, Idle
  <2>5. LoadTypes' /\ ChoiceTypes' /\ PasswordTypes'
    BY <2>1 DEF SettingsMount, LoadTypes, ChoiceTypes, PasswordTypes, NotAdding
  <2> QED BY <2>2, <2>3, <2>4, <2>5
<1> QED BY <1>1, <1>2

-----------------------------------------------------------------------------
\* The types of the aliases.

Addresses == Ips \cup {""}
Called == Names \cup {""}
OpRecords(K) ==
  [kind : {"mount", "save", "delete"}, step : Listing \cup {"sent", "ok", "failed", "denied"},
   ip : Addresses, alias : Called, list : [Ips -> Called], alone : BOOLEAN, live : BOOLEAN,
   id : K]
OpTypes(O) == \A o \in O : o \in OpRecords({o.id})
ListTypes ==
  /\ table \in [Ips -> Called] /\ aliases \in [Ips -> Called]
  /\ isDeletingIp \in Addresses /\ listLoading \in BOOLEAN /\ fresh \in BOOLEAN
AliasFormTypes ==
  ip \in Addresses /\ editingIp \in Addresses /\ alias \in Called /\ addAliasIp \in Addresses
AliasTypes == OpTypes(ops) /\ ListTypes /\ AliasFormTypes

\* The types in parts give AliasTypeOK.
LEMMA AliasTypesOK == AliasTypes => AliasTypeOK
<1> SUFFICES ASSUME AliasTypes PROVE AliasTypeOK
  OBVIOUS
<1>1. ASSUME NEW o \in ops
      PROVE  /\ o.kind \in {"mount", "save", "delete"}
             /\ o.step \in Listing \cup {"sent", "ok", "failed", "denied"}
             /\ {o.alone, o.live} \subseteq BOOLEAN
  <2>1. o \in OpRecords({o.id})
    BY DEF AliasTypes, OpTypes
  <2> QED BY <2>1 DEF OpRecords
<1>2. {listLoading, fresh} \subseteq BOOLEAN /\ {table, aliases} \subseteq [Ips -> Called]
  BY DEF AliasTypes, ListTypes
<1>3. {ip, editingIp, isDeletingIp, addAliasIp} \subseteq Addresses /\ alias \in Called
  BY DEF AliasTypes, ListTypes, AliasFormTypes
<1> QED BY <1>1, <1>2, <1>3 DEF AliasTypeOK, Addresses, Called

\* The fields of a record of OpRecords, spelt out for the provers.
LEMMA OpSplit ==
  ASSUME NEW K, NEW o \in OpRecords(K)
  PROVE  \E k, s, i, n, l, a, v, d :
           /\ o = [kind |-> k, step |-> s, ip |-> i, alias |-> n, list |-> l,
                   alone |-> a, live |-> v, id |-> d]
           /\ k \in {"mount", "save", "delete"}
           /\ s \in Listing \cup {"sent", "ok", "failed", "denied"}
           /\ i \in Addresses /\ n \in Called /\ l \in [Ips -> Called]
           /\ a \in BOOLEAN /\ v \in BOOLEAN /\ d \in K
<1> DEFINE Steps == Listing \cup {"sent", "ok", "failed", "denied"}
           Tables == [Ips -> Called]
           Flags == BOOLEAN
<1>1. o \in [kind : {"mount", "save", "delete"}, step : Steps, ip : Addresses, alias : Called,
             list : Tables, alone : Flags, live : Flags, id : K]
  BY DEF OpRecords
<1> HIDE DEF Steps, Tables, Flags
<1>2. /\ o = [kind |-> o.kind, step |-> o.step, ip |-> o.ip, alias |-> o.alias, list |-> o.list,
              alone |-> o.alone, live |-> o.live, id |-> o.id]
      /\ o.kind \in {"mount", "save", "delete"} /\ o.step \in Steps /\ o.ip \in Addresses
      /\ o.alias \in Called /\ o.list \in Tables /\ o.alone \in Flags /\ o.live \in Flags
      /\ o.id \in K
  BY <1>1
<1> QED BY <1>2 DEF Steps, Tables, Flags

\* One field of a call of the alias panel changes.
LEMMA OpFlagged ==
  ASSUME NEW K, NEW o \in OpRecords(K), NEW r \in BOOLEAN, NEW w \in [Ips -> Called],
         NEW u \in Listing \cup {"sent", "ok", "failed", "denied"}
  PROVE  /\ [o EXCEPT !.alone = r] \in OpRecords(K) /\ [o EXCEPT !.live = r] \in OpRecords(K)
         /\ [o EXCEPT !.step = u] \in OpRecords(K) /\ [o EXCEPT !.list = w] \in OpRecords(K)
<1>1. PICK k, s, i, n, l, a, v, d :
           /\ o = [kind |-> k, step |-> s, ip |-> i, alias |-> n, list |-> l,
                   alone |-> a, live |-> v, id |-> d]
           /\ k \in {"mount", "save", "delete"}
           /\ s \in Listing \cup {"sent", "ok", "failed", "denied"}
           /\ i \in Addresses /\ n \in Called /\ l \in [Ips -> Called]
           /\ a \in BOOLEAN /\ v \in BOOLEAN /\ d \in K
  BY OpSplit
<1>2. /\ [o EXCEPT !.alone = r] = [kind |-> k, step |-> s, ip |-> i, alias |-> n, list |-> l,
                                   alone |-> r, live |-> v, id |-> d]
      /\ [o EXCEPT !.live = r] = [kind |-> k, step |-> s, ip |-> i, alias |-> n, list |-> l,
                                  alone |-> a, live |-> r, id |-> d]
  BY <1>1
<1>3. /\ [o EXCEPT !.step = u] = [kind |-> k, step |-> u, ip |-> i, alias |-> n, list |-> l,
                                  alone |-> a, live |-> v, id |-> d]
      /\ [o EXCEPT !.list = w] = [kind |-> k, step |-> s, ip |-> i, alias |-> n, list |-> w,
                                  alone |-> a, live |-> v, id |-> d]
  BY <1>1
<1> QED BY <1>1, <1>2, <1>3 DEF OpRecords

\* A call of the alias panel goes on: another step, alone or not, with a list.
LEMMA OpMoved ==
  ASSUME NEW K, NEW o \in OpRecords(K), NEW r \in BOOLEAN, NEW w \in [Ips -> Called],
         NEW u \in Listing \cup {"sent", "ok", "failed", "denied"}
  PROVE  /\ [o EXCEPT !.step = u] \in OpRecords(K)
         /\ [o EXCEPT !.step = u, !.alone = r] \in OpRecords(K)
         /\ [o EXCEPT !.step = u, !.list = w] \in OpRecords(K)
<1>1. PICK y : y = [o EXCEPT !.step = u]
  OBVIOUS
<1>2. y \in OpRecords(K)
  BY <1>1, OpFlagged
<1>3. [y EXCEPT !.alone = r] \in OpRecords(K) /\ [y EXCEPT !.list = w] \in OpRecords(K)
  BY <1>2, OpFlagged
<1>4. /\ [o EXCEPT !.step = u, !.alone = r] = [y EXCEPT !.alone = r]
      /\ [o EXCEPT !.step = u, !.list = w] = [y EXCEPT !.list = w]
  BY <1>1
<1> QED BY <1>1, <1>2, <1>3, <1>4

\* A call that is doubted, or whose panel is gone.
LEMMA OpDimmed ==
  ASSUME NEW K, NEW o \in OpRecords(K), NEW r \in BOOLEAN
  PROVE  [o EXCEPT !.alone = r] \in OpRecords(K) /\ [o EXCEPT !.live = r] \in OpRecords(K)
<1>1. NoAliases \in [Ips -> Called] /\ "ok" \in Listing \cup {"sent", "ok", "failed", "denied"}
  BY DEF NoAliases, Called
<1> QED BY <1>1, OpFlagged

\* A call is known by its own number, and its fields have their types.
LEMMA OpNamed ==
  ASSUME NEW K, NEW o \in OpRecords(K)
  PROVE  o \in OpRecords({o.id}) /\ o.ip \in Addresses /\ o.alias \in Called
         /\ o.list \in [Ips -> Called] /\ o.alone \in BOOLEAN /\ o.live \in BOOLEAN
<1> DEFINE Steps == Listing \cup {"sent", "ok", "failed", "denied"}
           Tables == [Ips -> Called]
<1>1. \A J : OpRecords(J) =
        [kind : {"mount", "save", "delete"}, step : Steps, ip : Addresses, alias : Called,
         list : Tables, alone : BOOLEAN, live : BOOLEAN, id : J]
  BY DEF OpRecords
<1> HIDE DEF Steps
<1>2. o \in OpRecords({o.id}) /\ o.ip \in Addresses /\ o.alias \in Called
      /\ o.list \in Tables /\ o.alone \in BOOLEAN /\ o.live \in BOOLEAN
  <2> HIDE DEF Tables
  <2> QED BY <1>1
<1> QED BY <1>2

\* The fields of a call are those of a table and a form.
LEMMA OpFields ==
  ASSUME OpTypes(ops), NEW o \in ops
  PROVE  /\ o \in OpRecords({o.id}) /\ o.ip \in Addresses /\ o.alias \in Called
         /\ o.list \in [Ips -> Called] /\ o.alone \in BOOLEAN /\ o.live \in BOOLEAN
BY OpNamed DEF OpTypes

\* A call of the alias panel that begins.
LEMMA OpMade ==
  ASSUME NEW k \in {"mount", "save", "delete"}, NEW s \in {"listing", "sent"},
         NEW i \in Addresses, NEW n \in Called
  PROVE  \E K : Op(k, s, i, n) \in OpRecords(K)
<1>1. PICK d : Op(k, s, i, n) =
        [kind |-> k, step |-> s, ip |-> i, alias |-> n, list |-> NoAliases,
         alone |-> TRUE, live |-> TRUE, id |-> d]
  BY DEF Op
<1>2. NoAliases \in [Ips -> Called]
  BY DEF NoAliases, Called
<1>3. Op(k, s, i, n) \in OpRecords({d})
  BY <1>1, <1>2 DEF OpRecords, Listing
<1> QED BY <1>3

\* A call is added, or is changed.
LEMMA OpAdded ==
  ASSUME NEW O, OpTypes(O), NEW K, NEW x \in OpRecords(K)
  PROVE  OpTypes(O \cup {x})
BY OpNamed DEF OpTypes

\* What Doubted and LoadAliases make of the calls.
LEMMA DoubtedTypes ==
  ASSUME OpTypes(ops), NEW Q \in SUBSET ops
  PROVE  OpTypes(Doubted(Q))
<1> SUFFICES ASSUME NEW x \in Doubted(Q) PROVE x \in OpRecords({x.id})
  BY DEF OpTypes
<1>1. PICK q \in Q : x = q \/ x = [q EXCEPT !.alone = FALSE]
  BY DEF Doubted
<1>2. q \in OpRecords({q.id})
  BY DEF OpTypes
<1>3. x \in OpRecords({q.id})
  BY <1>1, <1>2, OpDimmed
<1> QED BY <1>3, OpNamed

LEMMA LoadAliasesTypes ==
  ASSUME OpTypes(ops), listLoading \in BOOLEAN, NEW o \in ops, LoadAliases(o)
  PROVE  OpTypes(ops') /\ listLoading' \in BOOLEAN
<1>1. PICK b \in BOOLEAN : b = (Lists = {} /\ \A q \in ops : q.live)
  OBVIOUS
<1>2. PICK x : x = [o EXCEPT !.step = "listing", !.alone = b]
  OBVIOUS
<1>3. ops' = Doubted(ops \ {o}) \cup {x}
  BY <1>1, <1>2 DEF LoadAliases
<1>4. x \in OpRecords({o.id})
  <2>1. NoAliases \in [Ips -> Called] /\ "listing" \in Listing \cup {"sent", "ok", "failed", "denied"}
    BY DEF NoAliases, Called, Listing
  <2> QED BY <1>2, <2>1, OpFields, OpMoved
<1>5. OpTypes(Doubted(ops \ {o}))
  BY DoubtedTypes
<1>6. listLoading' \in BOOLEAN
  BY OpFields DEF LoadAliases
<1> QED BY <1>3, <1>4, <1>5, <1>6, OpAdded

\* The form and its calls.
LEMMA AliasFormStepTypes ==
  ASSUME AliasTypes,
         \/ handleSaveAlias \/ handleCancelEdit
         \/ \E i \in Ips : handleDelete(i) \/ handleEdit(i)
         \/ \E i \in Ips \cup {""} : TypeIp(i)
         \/ \E n \in Names \cup {""} : TypeAlias(n)
  PROVE  AliasTypes'
<1> USE DEF AliasTypes
<1>1. CASE handleSaveAlias
  <2>1. PICK K : Op("save", "sent", ip, alias) \in OpRecords(K)
    BY OpMade DEF AliasFormTypes
  <2>2. OpTypes(ops')
    BY <1>1, <2>1, OpAdded DEF handleSaveAlias
  <2> QED BY <1>1, <2>2 DEF handleSaveAlias, ListTypes, AliasFormTypes, aliasForm
<1>2. ASSUME NEW i \in Ips, handleDelete(i) PROVE AliasTypes'
  <2>1. PICK K : Op("delete", "sent", i, "") \in OpRecords(K)
    BY OpMade DEF Addresses, Called
  <2>2. OpTypes(ops')
    BY <1>2, <2>1, OpAdded DEF handleDelete
  <2> QED BY <1>2, <2>2 DEF handleDelete, ListTypes, AliasFormTypes, aliasForm, Addresses
<1>3. ASSUME NEW i \in Ips, handleEdit(i) PROVE AliasTypes'
  <2>1. aliases[i] \in Called
    BY DEF ListTypes
  <2> QED BY <1>3, <2>1 DEF handleEdit, ListTypes, AliasFormTypes, Addresses
<1>4. CASE handleCancelEdit
  BY <1>4 DEF handleCancelEdit, ListTypes, AliasFormTypes, Addresses, Called
<1>5. ASSUME NEW i \in Ips \cup {""}, TypeIp(i) PROVE AliasTypes'
  BY <1>5 DEF TypeIp, ListTypes, AliasFormTypes, Addresses
<1>6. ASSUME NEW n \in Names \cup {""}, TypeAlias(n) PROVE AliasTypes'
  BY <1>6 DEF TypeAlias, ListTypes, AliasFormTypes, Called
<1> QED BY <1>1, <1>2, <1>3, <1>4, <1>5, <1>6

\* The server.
LEMMA AliasServedTypes ==
  ASSUME AliasTypes, NEW o \in ops, NEW out \in {"ok", "denied", "failed"},
         ServeAlias(o, out) \/ ServeList(o, out)
  PROVE  AliasTypes'
<1> USE DEF AliasTypes
<1>1. o \in OpRecords({o.id}) /\ o.alias \in Called /\ o.list \in [Ips -> Called]
  BY OpFields
<1>2. NoAliases \in [Ips -> Called] /\ table \in [Ips -> Called]
  BY DEF NoAliases, Called, ListTypes
<1>3. OpTypes(ops \ {o})
  BY DEF OpTypes
<1>4. CASE ServeAlias(o, out)
  <2>1. out \in Listing \cup {"sent", "ok", "failed", "denied"}
    OBVIOUS
  <2>2. [o EXCEPT !.step = out] \in OpRecords({o.id})
    BY <1>1, <1>2, <2>1, OpMoved
  <2>3. OpTypes(ops')
    BY <1>3, <1>4, <2>2, OpAdded DEF ServeAlias
  <2>4. table' = [table EXCEPT ![o.ip] = o.alias] \/ table' = table
    BY <1>4 DEF ServeAlias
  <2>5. table' \in [Ips -> Called]
    BY <1>1, <1>2, <2>4
  <2> QED BY <1>4, <2>3, <2>5 DEF ServeAlias, ListTypes, AliasFormTypes, aliasForm
<1>5. CASE ServeList(o, out)
  <2>1. PICK s, l : /\ s = IF out = "ok" THEN "listed" ELSE "unlisted"
                    /\ l = IF out = "ok" THEN table ELSE o.list
    OBVIOUS
  <2>2. s \in Listing \cup {"sent", "ok", "failed", "denied"} /\ l \in [Ips -> Called]
    BY <1>1, <1>2, <2>1 DEF Listing
  <2>3. [o EXCEPT !.step = s, !.list = l] \in OpRecords({o.id})
    BY <1>1, <2>2, OpMoved
  <2>4. ops' = (ops \ {o}) \cup {[o EXCEPT !.step = s, !.list = l]}
    BY <1>5, <2>1 DEF ServeList
  <2>5. OpTypes(ops')
    BY <1>3, <2>3, <2>4, OpAdded
  <2> QED BY <1>5, <2>5 DEF ServeList, ListTypes, AliasFormTypes, aliasForm
<1> QED BY <1>4, <1>5

\* The answers.
LEMMA AliasAnswerTypes ==
  ASSUME AliasTypes, NEW o \in ops, AliasSaved(o) \/ AliasDeleted(o) \/ AliasesListed(o)
  PROVE  AliasTypes'
<1> USE DEF AliasTypes
<1>1. /\ o.list \in [Ips -> Called] /\ o.alone \in BOOLEAN /\ OpTypes(ops \ {o})
      /\ OpTypes(Doubted(ops \ {o}))
  BY OpFields, DoubtedTypes DEF OpTypes
<1>2. CASE AliasSaved(o)
  <2>1. OpTypes(ops') /\ listLoading' \in BOOLEAN
    BY <1>1, <1>2, LoadAliasesTypes DEF AliasSaved, ListTypes
  <2> QED BY <1>2, <2>1
          DEF AliasSaved, ListTypes, AliasFormTypes, aliasForm, Addresses, Called
<1>3. CASE AliasDeleted(o)
  <2>1. OpTypes(ops') /\ listLoading' \in BOOLEAN
    BY <1>1, <1>3, LoadAliasesTypes DEF AliasDeleted, ListTypes
  <2> QED BY <1>3, <2>1
          DEF AliasDeleted, ListTypes, AliasFormTypes, aliasForm, Addresses
<1>4. CASE AliasesListed(o)
  <2>1. /\ ops' = ops \ {o} /\ table' = table
        /\ listLoading' = FALSE \/ UNCHANGED listLoading
        /\ aliases' = o.list \/ UNCHANGED aliases
        /\ fresh' = o.alone \/ fresh' = FALSE \/ UNCHANGED fresh
        /\ isDeletingIp' = "" \/ UNCHANGED isDeletingIp
        /\ addAliasIp' = "" \/ UNCHANGED addAliasIp
        /\ FormFor(addAliasIp, o.list) \/ UNCHANGED aliasForm
    BY <1>4 DEF AliasesListed
  <2>2. ListTypes'
    BY <1>1, <2>1 DEF ListTypes, Addresses
  <2>3. addAliasIp # "" => o.list[addAliasIp] \in Called
    BY <1>1 DEF AliasFormTypes, Addresses
  <2>4. AliasFormTypes'
    BY <2>1, <2>3 DEF FormFor, AliasFormTypes, aliasForm, Addresses
  <2> QED BY <1>1, <2>1, <2>2, <2>4
<1> QED BY <1>2, <1>3, <1>4

\* Mounting and unmounting, when O is left of the calls.
LEMMA AliasMountTypes ==
  ASSUME AliasTypes, NEW S, NEW T, NEW O \in SUBSET ops, Panels(S, T, O),
         UNCHANGED table, addAliasIp' \in Addresses
  PROVE  AliasTypes'
<1> USE DEF AliasTypes
<1>1. CASE Shown("aliases") = ShownNext("aliases")
  <2>1. UNCHANGED <<aliases, listLoading, aliasForm, isDeletingIp, fresh>> /\ ops' = O
    BY <1>1 DEF Panels
  <2> QED BY <2>1 DEF OpTypes, ListTypes, AliasFormTypes, aliasForm
<1>2. CASE Shown("aliases") # ShownNext("aliases")
  <2>1. AliasMount(ShownNext("aliases"), O)
    BY <1>2 DEF Panels
  <2>2. ListTypes' /\ AliasFormTypes'
    BY <2>1 DEF AliasMount, ListTypes, AliasFormTypes, NoAliases, Addresses, Called, ShownNext
  <2>3. PICK b, x : /\ b \in BOOLEAN /\ b = (O = {})
                    /\ x = [Op("mount", "listing", "", "") EXCEPT !.alone = b]
    OBVIOUS
  <2>4. PICK K : Op("mount", "listing", "", "") \in OpRecords(K)
    BY OpMade DEF Addresses, Called
  <2>5. x \in OpRecords(K)
    BY <2>4, <2>3, OpDimmed
  <2>6. \A y \in ops' : y = x \/ \E o \in O : y = [o EXCEPT !.live = FALSE]
    BY <2>1, <2>3 DEF AliasMount
  <2>7. ASSUME NEW o \in O PROVE [o EXCEPT !.live = FALSE] \in OpRecords({o.id})
    BY OpFields, OpDimmed
  <2>8. OpTypes(ops')
    BY <2>5, <2>6, <2>7, OpNamed DEF OpTypes
  <2> QED BY <2>2, <2>8
<1> QED BY <1>1, <1>2

-----------------------------------------------------------------------------
\* The types of the storage.

Items == Analyses \cup {NoAnalysis}
Spans == Nat \ {0}
Answers == {"sent", "ok", "failed", "denied"}
TaskRecords(K) ==
  [kind : Kinds, item : Items, days : Spans, audit : SUBSET Analyses, max : Nat,
   opened : BOOLEAN, step : Answers, live : BOOLEAN, alone : BOOLEAN, id : K]
TaskTypes(T) == \A t \in T : t \in TaskRecords({t.id})
AuditTypes ==
  audit \subseteq Analyses /\ auditLogs \subseteq Analyses /\ selected \in Items /\ deletingId \in Items
DayTypes ==
  retention \in Spans /\ retentionDays \in Spans /\ days \in Spans /\ maxDays \in Nat
FlagTypes ==
  /\ loaded \in BOOLEAN /\ storageLoading \in BOOLEAN /\ locked \in BOOLEAN
  /\ clearModal \in BOOLEAN /\ current \in BOOLEAN
StorageTypes == TaskTypes(tasks) /\ AuditTypes /\ DayTypes /\ FlagTypes

\* The fields of a record of TaskRecords, spelt out for the provers.
LEMMA TaskSplit ==
  ASSUME NEW K, NEW x \in TaskRecords(K)
  PROVE  \E k, i, d, a, m, o, s, l, e, n :
           /\ x = [kind |-> k, item |-> i, days |-> d, audit |-> a, max |-> m,
                   opened |-> o, step |-> s, live |-> l, alone |-> e, id |-> n]
           /\ k \in Kinds /\ i \in Items /\ d \in Spans /\ a \in SUBSET Analyses /\ m \in Nat
           /\ o \in BOOLEAN /\ s \in Answers /\ l \in BOOLEAN /\ e \in BOOLEAN /\ n \in K
<1> DEFINE Flags == BOOLEAN
           Lists0 == SUBSET Analyses
           Numbers == Nat
<1>1. x \in [kind : Kinds, item : Items, days : Spans, audit : Lists0, max : Numbers,
             opened : Flags, step : Answers, live : Flags, alone : Flags, id : K]
  BY DEF TaskRecords
<1> HIDE DEF Flags, Lists0, Numbers
<1>2. /\ x = [kind |-> x.kind, item |-> x.item, days |-> x.days, audit |-> x.audit,
              max |-> x.max, opened |-> x.opened, step |-> x.step, live |-> x.live,
              alone |-> x.alone, id |-> x.id]
      /\ x.kind \in Kinds /\ x.item \in Items /\ x.days \in Spans /\ x.audit \in Lists0
      /\ x.max \in Numbers /\ x.opened \in Flags /\ x.step \in Answers /\ x.live \in Flags
      /\ x.alone \in Flags /\ x.id \in K
  BY <1>1
<1> QED BY <1>2 DEF Flags, Lists0, Numbers

LEMMA TaskNamed ==
  ASSUME NEW K, NEW x \in TaskRecords(K)
  PROVE  /\ x \in TaskRecords({x.id}) /\ x.kind \in Kinds /\ x.item \in Items
         /\ x.days \in Spans /\ x.audit \in SUBSET Analyses /\ x.max \in Nat
         /\ x.alone \in BOOLEAN
<1>1. PICK k, i, d, a, m, o, s, l, e, n :
           /\ x = [kind |-> k, item |-> i, days |-> d, audit |-> a, max |-> m,
                   opened |-> o, step |-> s, live |-> l, alone |-> e, id |-> n]
           /\ k \in Kinds /\ i \in Items /\ d \in Spans /\ a \in SUBSET Analyses /\ m \in Nat
           /\ o \in BOOLEAN /\ s \in Answers /\ l \in BOOLEAN /\ e \in BOOLEAN /\ n \in K
  BY TaskSplit
<1>2. n \in {x.id}
  BY <1>1
<1>3. x \in TaskRecords({x.id})
  BY <1>1, <1>2 DEF TaskRecords
<1> QED BY <1>1, <1>3

\* One field of a call of the storage panel changes.
LEMMA TaskChanged ==
  ASSUME NEW K, NEW x \in TaskRecords(K), NEW b \in BOOLEAN, NEW j,
         NEW r \in Answers, NEW f \in Spans, NEW c \in SUBSET Analyses, NEW g \in Nat
  PROVE  /\ [x EXCEPT !.alone = b] \in TaskRecords(K) /\ [x EXCEPT !.live = b] \in TaskRecords(K)
         /\ [x EXCEPT !.step = r] \in TaskRecords(K) /\ [x EXCEPT !.days = f] \in TaskRecords(K)
         /\ [x EXCEPT !.audit = c] \in TaskRecords(K) /\ [x EXCEPT !.max = g] \in TaskRecords(K)
         /\ [x EXCEPT !.id = j] \in TaskRecords({j})
<1>1. PICK k, i, d, a, m, o, s, l, e, n :
           /\ x = [kind |-> k, item |-> i, days |-> d, audit |-> a, max |-> m,
                   opened |-> o, step |-> s, live |-> l, alone |-> e, id |-> n]
           /\ k \in Kinds /\ i \in Items /\ d \in Spans /\ a \in SUBSET Analyses /\ m \in Nat
           /\ o \in BOOLEAN /\ s \in Answers /\ l \in BOOLEAN /\ e \in BOOLEAN /\ n \in K
  BY TaskSplit
<1> HIDE DEF Kinds, Items, Spans, Answers
<1>2. [x EXCEPT !.alone = b] \in TaskRecords(K) /\ [x EXCEPT !.live = b] \in TaskRecords(K)
  <2>1. /\ [x EXCEPT !.alone = b] =
             [kind |-> k, item |-> i, days |-> d, audit |-> a, max |-> m,
              opened |-> o, step |-> s, live |-> l, alone |-> b, id |-> n]
        /\ [x EXCEPT !.live = b] =
             [kind |-> k, item |-> i, days |-> d, audit |-> a, max |-> m,
              opened |-> o, step |-> s, live |-> b, alone |-> e, id |-> n]
    BY <1>1
  <2> QED BY <1>1, <2>1 DEF TaskRecords
<1>3. [x EXCEPT !.step = r] \in TaskRecords(K) /\ [x EXCEPT !.days = f] \in TaskRecords(K)
  <2>1. /\ [x EXCEPT !.step = r] =
             [kind |-> k, item |-> i, days |-> d, audit |-> a, max |-> m,
              opened |-> o, step |-> r, live |-> l, alone |-> e, id |-> n]
        /\ [x EXCEPT !.days = f] =
             [kind |-> k, item |-> i, days |-> f, audit |-> a, max |-> m,
              opened |-> o, step |-> s, live |-> l, alone |-> e, id |-> n]
    BY <1>1
  <2> QED BY <1>1, <2>1 DEF TaskRecords
<1>4. [x EXCEPT !.audit = c] \in TaskRecords(K) /\ [x EXCEPT !.max = g] \in TaskRecords(K)
  <2>1. /\ [x EXCEPT !.audit = c] =
             [kind |-> k, item |-> i, days |-> d, audit |-> c, max |-> m,
              opened |-> o, step |-> s, live |-> l, alone |-> e, id |-> n]
        /\ [x EXCEPT !.max = g] =
             [kind |-> k, item |-> i, days |-> d, audit |-> a, max |-> g,
              opened |-> o, step |-> s, live |-> l, alone |-> e, id |-> n]
    BY <1>1
  <2> QED BY <1>1, <2>1 DEF TaskRecords
<1>5. [x EXCEPT !.id = j] \in TaskRecords({j})
  <2>1. [x EXCEPT !.id = j] =
          [kind |-> k, item |-> i, days |-> d, audit |-> a, max |-> m,
           opened |-> o, step |-> s, live |-> l, alone |-> e, id |-> j]
    BY <1>1
  <2> QED BY <1>1, <2>1 DEF TaskRecords
<1> QED BY <1>2, <1>3, <1>4, <1>5

LEMMA TaskFlagged ==
  ASSUME NEW K, NEW x \in TaskRecords(K), NEW b \in BOOLEAN
  PROVE  [x EXCEPT !.alone = b] \in TaskRecords(K) /\ [x EXCEPT !.live = b] \in TaskRecords(K)
<1>1. "ok" \in Answers /\ 1 \in Spans /\ {} \in SUBSET Analyses /\ 1 \in Nat
  BY DEF Answers, Spans
<1> QED BY <1>1, TaskChanged

\* The types in parts give StorageTypeOK.
LEMMA StorageTypesOK == StorageTypes => StorageTypeOK
<1> SUFFICES ASSUME StorageTypes PROVE StorageTypeOK
  OBVIOUS
<1>1. ASSUME NEW t \in tasks
      PROVE  t.kind \in Kinds /\ t.step \in {"sent", "ok", "failed", "denied"}
  <2>1. t \in TaskRecords({t.id})
    BY DEF StorageTypes, TaskTypes
  <2> QED BY <2>1, TaskSplit DEF Answers
<1>2. {loaded, storageLoading, locked, clearModal, current} \subseteq BOOLEAN
  BY DEF StorageTypes, FlagTypes
<1>3. {retention, retentionDays, days} \subseteq Nat \ {0} /\ maxDays \in Nat
  BY DEF StorageTypes, DayTypes, Spans
<1>4. /\ audit \subseteq Analyses /\ auditLogs \subseteq Analyses
      /\ {selected, deletingId} \subseteq Analyses \cup {NoAnalysis}
  BY DEF StorageTypes, AuditTypes, Items
<1> QED BY <1>1, <1>2, <1>3, <1>4 DEF StorageTypeOK

\* A call of the storage panel that begins.
LEMMA TaskMade ==
  ASSUME NEW k \in Kinds, NEW i \in Items, NEW d \in Spans
  PROVE  \E K : Task(k, i, d) \in TaskRecords(K)
<1>1. PICK n, b : /\ b = (k = "delete" /\ selected = i)
                  /\ Task(k, i, d) =
                       [kind |-> k, item |-> i, days |-> d, audit |-> {}, max |-> Unread,
                        opened |-> b, step |-> "sent", live |-> TRUE, alone |-> TRUE, id |-> n]
  BY DEF Task
<1>2. b \in BOOLEAN /\ Unread \in Nat /\ "sent" \in Answers /\ {} \in SUBSET Analyses
  BY <1>1 DEF Unread, Answers
<1>3. Task(k, i, d) \in TaskRecords({n})
  BY <1>1, <1>2 DEF TaskRecords
<1> QED BY <1>3

\* A call begins.
LEMMA BeginTypes ==
  ASSUME NEW others, TaskTypes(others), NEW k \in Kinds, NEW i \in Items, NEW d \in Spans,
         NEW n, NEW t, t = [Task(k, i, d) EXCEPT !.id = n] \/ t = Task(k, i, d), Begin(t, others)
  PROVE  TaskTypes(tasks')
<1>1. PICK K : t \in TaskRecords(K)
  <2>1. PICK K, c : c = Task(k, i, d) /\ c \in TaskRecords(K)
    BY TaskMade
  <2>2. "ok" \in Answers /\ 1 \in Spans /\ {} \in SUBSET Analyses /\ 1 \in Nat
    BY DEF Answers, Spans
  <2>3. [c EXCEPT !.id = n] \in TaskRecords({n})
    BY <2>1, <2>2, TaskChanged
  <2> QED BY <2>1, <2>3
<1>2. PICK b, x :
        /\ b \in BOOLEAN /\ b = (t.kind = "load" /\ \A u \in others : u.kind = "prune")
        /\ x = [t EXCEPT !.alone = b]
  OBVIOUS
<1>3. tasks' = Overlapped(t, others) \cup {x}
  BY <1>2 DEF Begin
<1>4. x \in TaskRecords(K)
  BY <1>1, <1>2, TaskFlagged
<1>5. ASSUME NEW y \in Overlapped(t, others) PROVE y \in TaskRecords({y.id})
  <2>1. PICK u \in others : y = u \/ y = [u EXCEPT !.alone = FALSE]
    BY DEF Overlapped
  <2>2. u \in TaskRecords({u.id})
    BY DEF TaskTypes
  <2>3. y \in TaskRecords({u.id})
    BY <2>1, <2>2, TaskFlagged
  <2> QED BY <2>3, TaskNamed
<1> QED BY <1>3, <1>4, <1>5, TaskNamed DEF TaskTypes

LEMMA TaskFields ==
  ASSUME TaskTypes(tasks), NEW t \in tasks
  PROVE  /\ t \in TaskRecords({t.id}) /\ t.item \in Items /\ t.days \in Spans
         /\ t.audit \in SUBSET Analyses /\ t.max \in Nat /\ t.alone \in BOOLEAN
         /\ TaskTypes(tasks \ {t})
BY TaskNamed DEF TaskTypes

\* The operator's calls.
LEMMA CallTypes ==
  ASSUME StorageTypes,
         \/ handleSaveRetention \/ handlePruneNow \/ handleClearAllAudit
         \/ \E a \in Analyses : handleDeleteAuditItem(a)
  PROVE  StorageTypes'
<1> USE DEF StorageTypes
<1>1. {"retention", "prune", "clear", "delete"} \subseteq Kinds
  BY DEF Kinds
<1>2. NoAnalysis \in Items /\ Analyses \subseteq Items
  BY DEF Items
<1>3. days \in Spans /\ 1 \in Spans
  BY DEF DayTypes, Spans
<1>4. PICK k \in Kinds, i \in Items, d \in Spans : Begin(Task(k, i, d), tasks)
  BY <1>1, <1>2, <1>3
  DEF handleSaveRetention, handlePruneNow, handleClearAllAudit, handleDeleteAuditItem
<1>5. TaskTypes(tasks')
  BY <1>4, BeginTypes
<1>6. /\ UNCHANGED <<audit, auditLogs, selected>>
      /\ UNCHANGED <<retention, retentionDays, days, maxDays>>
      /\ UNCHANGED <<loaded, storageLoading, locked, clearModal, current>>
      /\ UNCHANGED deletingId \/ deletingId' \in Analyses
  BY DEF handleSaveRetention, handlePruneNow, handleClearAllAudit, handleDeleteAuditItem,
         shown, dialog
<1>7. AuditTypes'
  BY <1>2, <1>6 DEF AuditTypes
<1> QED BY <1>5, <1>6, <1>7 DEF DayTypes, FlagTypes

\* The server's answers.
LEMMA StorageServedTypes ==
  ASSUME StorageTypes, NEW t \in tasks,
         (\E o \in {"ok", "denied", "failed"} : ServeTask(t, o)) \/ AuditUnread(t)
  PROVE  StorageTypes'
<1> USE DEF StorageTypes
<1>1. /\ t \in TaskRecords({t.id}) /\ t.days \in Spans /\ TaskTypes(tasks \ {t})
      /\ t.audit \in SUBSET Analyses /\ t.max \in Nat
  BY TaskFields
<1>2. /\ UNCHANGED <<auditLogs, selected, deletingId>>
      /\ UNCHANGED <<retentionDays, days, maxDays>>
      /\ UNCHANGED <<loaded, storageLoading, locked, clearModal, current>>
  BY DEF ServeTask, AuditUnread, shown, dialog
<1>3. FlagTypes'
  BY <1>2 DEF FlagTypes
<1>4. ASSUME NEW o \in {"ok", "denied", "failed"}, ServeTask(t, o)
      PROVE  StorageTypes'
  <2>1. PICK f, g, c :
          /\ f = IF t.kind = "load" /\ o = "ok" THEN retention ELSE t.days
          /\ g = IF t.kind = "load" /\ o = "ok" THEN MaxRetention ELSE t.max
          /\ c = IF t.kind = "load" /\ o = "ok" THEN audit ELSE t.audit
    OBVIOUS
  <2>2. f \in Spans /\ g \in Nat /\ c \in SUBSET Analyses /\ o \in Answers
    BY <1>1, <2>1, StorageAssumption DEF DayTypes, AuditTypes, Answers
  <2>3. PICK u, v, w, x :
          /\ u = [t EXCEPT !.step = o] /\ v = [u EXCEPT !.days = f]
          /\ w = [v EXCEPT !.max = g] /\ x = [w EXCEPT !.audit = c]
    OBVIOUS
  <2>4. x = [t EXCEPT !.step = o, !.days = f, !.max = g, !.audit = c]
    BY <2>3
  <2>5. x = Reply(t, o)
    BY <2>1, <2>4 DEF Reply
  <2>6. u \in TaskRecords({t.id})
    BY <1>1, <2>2, <2>3, TaskChanged
  <2>7. v \in TaskRecords({t.id})
    BY <2>6, <2>2, <2>3, TaskChanged
  <2>8. w \in TaskRecords({t.id})
    BY <2>7, <2>2, <2>3, TaskChanged
  <2>9. x \in TaskRecords({t.id})
    BY <2>8, <2>2, <2>3, TaskChanged
  <2>10. \A y \in tasks' : y = x \/ y \in tasks \ {t}
    BY <1>4, <2>5 DEF ServeTask
  <2>11. TaskTypes(tasks')
    BY <1>1, <2>9, <2>10, TaskNamed DEF TaskTypes
  <2>12. /\ retention' = t.days \/ retention' = retention
         /\ audit' = audit \/ audit' = {} \/ audit' = audit \ {t.item}
    BY <1>4 DEF ServeTask, Carries
  <2>13. DayTypes'
    BY <1>1, <1>2, <2>12 DEF DayTypes
  <2>14. AuditTypes'
    BY <1>2, <2>12 DEF AuditTypes
  <2> QED BY <1>3, <2>11, <2>13, <2>14
<1>5. CASE AuditUnread(t)
  <2>1. PICK u, x : u = [t EXCEPT !.audit = {}] /\ x = [u EXCEPT !.alone = FALSE]
    OBVIOUS
  <2>2. x = [t EXCEPT !.audit = {}, !.alone = FALSE]
    BY <2>1
  <2>3. tasks' = (tasks \ {t}) \cup {x}
    BY <1>5, <2>2 DEF AuditUnread
  <2>4. "ok" \in Answers /\ {} \in SUBSET Analyses
    BY DEF Answers
  <2>5. u \in TaskRecords({t.id})
    BY <1>1, <2>1, <2>4, TaskChanged
  <2>6. x \in TaskRecords({t.id})
    BY <2>1, <2>5, TaskFlagged
  <2>7. TaskTypes(tasks')
    BY <1>1, <2>3, <2>6, TaskNamed DEF TaskTypes
  <2>8. UNCHANGED <<audit, retention>>
    BY <1>5 DEF AuditUnread
  <2> QED BY <1>2, <1>3, <2>7, <2>8 DEF AuditTypes, DayTypes
<1> QED BY <1>4, <1>5

\* The slider stays within days.
LEMMA ClampTypes ==
  ASSUME NEW d \in Spans, NEW m \in Nat
  PROVE  clampDays(d, m) \in Spans
BY StorageAssumption DEF clampDays, SliderMax, Unread, Spans

LEMMA FollowTypes ==
  ASSUME NEW d \in Spans, NEW m \in Nat, days \in Spans, Follow(d, m)
  PROVE  days' \in Spans
<1>1. days' = clampDays(d, m) \/ days' = days
  BY DEF Follow
<1> QED BY <1>1, ClampTypes

\* The panel hears of an answer.
LEMMA StorageAnswerTypes ==
  ASSUME StorageTypes, NEW t \in tasks,
         StorageLoaded(t) \/ RetentionSaved(t) \/ Pruned(t) \/ AnalysisDeleted(t) \/ AuditCleared(t)
  PROVE  StorageTypes'
<1> USE DEF StorageTypes
<1>1. /\ t.days \in Spans /\ TaskTypes(tasks \ {t}) /\ t.alone \in BOOLEAN
      /\ t.audit \in SUBSET Analyses /\ t.max \in Nat
  BY TaskFields
<1>2. CASE StorageLoaded(t)
  <2>1. FlagTypes'
    <3>1. /\ storageLoading' = FALSE /\ clearModal' = clearModal
          /\ loaded' = TRUE \/ loaded' = loaded
          /\ locked' = Overridden \/ locked' = locked
          /\ current' = t.alone \/ current' = current
      BY <1>2 DEF StorageLoaded, shown, dialog
    <3> QED BY <1>1, <3>1, StorageAssumption DEF FlagTypes
  <2>2. AuditTypes'
    BY <1>1, <1>2 DEF StorageLoaded, AuditTypes, shown, dialog
  <2>3. retentionDays' \in Spans /\ maxDays' \in Nat
    BY <1>1, <1>2 DEF StorageLoaded, DayTypes, shown
  <2>4. days' \in Spans
    <3>1. Follow(retentionDays', maxDays') \/ days' = clampDays(retentionDays', maxDays')
      BY <1>2 DEF StorageLoaded
    <3> QED BY <2>3, <3>1, FollowTypes, ClampTypes DEF DayTypes
  <2> QED BY <1>1, <1>2, <2>1, <2>2, <2>3, <2>4 DEF StorageLoaded, DayTypes
<1>3. CASE RetentionSaved(t)
  <2>1. retentionDays' \in Spans
    BY <1>1, <1>3 DEF RetentionSaved, DayTypes
  <2>2. DayTypes'
    BY <1>3, <2>1, FollowTypes DEF RetentionSaved, DayTypes
  <2>3. FlagTypes'
    BY <1>3 DEF RetentionSaved, FlagTypes, dialog
  <2> QED BY <1>1, <1>3, <2>2, <2>3 DEF RetentionSaved, AuditTypes, dialog
<1>4. CASE Pruned(t)
  <2>1. TaskTypes(tasks')
    <3>1. CASE t.step = "ok"
      <4>1. Begin(Task("load", NoAnalysis, 1), tasks \ {t})
        BY <1>4, <3>1 DEF Pruned, loadAllData
      <4>2. "load" \in Kinds /\ NoAnalysis \in Items /\ 1 \in Spans
        BY DEF Kinds, Items, Spans
      <4> QED BY <1>1, <4>1, <4>2, BeginTypes
    <3>2. CASE t.step # "ok"
      BY <1>1, <1>4, <3>2 DEF Pruned
    <3> QED BY <3>1, <3>2
  <2>2. storageLoading' = TRUE \/ storageLoading' = storageLoading
    BY <1>4 DEF Pruned, loadAllData
  <2> QED BY <1>4, <2>1, <2>2 DEF Pruned, AuditTypes, DayTypes, FlagTypes, shown, dialog
<1>5. CASE AnalysisDeleted(t)
  <2>1. FlagTypes' /\ DayTypes'
    BY <1>5 DEF AnalysisDeleted, FlagTypes, DayTypes
  <2>2. AuditTypes'
    BY <1>5 DEF AnalysisDeleted, AuditTypes, Items
  <2> QED BY <1>1, <1>5, <2>1, <2>2 DEF AnalysisDeleted
<1>6. CASE AuditCleared(t)
  <2>1. FlagTypes' /\ DayTypes'
    BY <1>6 DEF AuditCleared, FlagTypes, DayTypes
  <2>2. AuditTypes'
    BY <1>6 DEF AuditCleared, AuditTypes, Items
  <2> QED BY <1>1, <1>6, <2>1, <2>2 DEF AuditCleared
<1> QED BY <1>2, <1>3, <1>4, <1>5, <1>6

\* The storage panel and the server.
LEMMA StorageStepTypes ==
  ASSUME StorageTypes, StorageStep
  PROVE  StorageTypes'
<1>1. ASSUME NEW d \in Days, SetDays(d) PROVE StorageTypes'
  <2>1. d \in Spans
    BY StorageAssumption DEF Spans
  <2> QED BY <1>1, <2>1
      DEF SetDays, StorageTypes, AuditTypes, DayTypes, FlagTypes, shown, dialog
<1>2. ASSUME NEW a \in Analyses,
             OpenAnalysis(a)
      PROVE  StorageTypes'
  BY <1>2 DEF OpenAnalysis, StorageTypes, AuditTypes, DayTypes, FlagTypes, shown, Items
<1>3. CASE CloseAnalysis \/ OpenClearAll \/ CloseClearAll
  BY <1>3
  DEF CloseAnalysis, OpenClearAll, CloseClearAll, StorageTypes, AuditTypes, DayTypes, FlagTypes,
      shown, Items
<1> QED BY <1>1, <1>2, <1>3, CallTypes, StorageServedTypes, StorageAnswerTypes DEF StorageStep

\* Mounting and unmounting, when T is left of the calls.
LEMMA StorageMountTypes ==
  ASSUME StorageTypes, NEW S, NEW T \in SUBSET tasks, NEW O, Panels(S, T, O),
         UNCHANGED <<audit, retention>>
  PROVE  StorageTypes'
<1> USE DEF StorageTypes
<1>1. CASE Shown("storage") = ShownNext("storage")
  <2>1. /\ UNCHANGED <<storageLoading, shown, days, dialog, deletingId, current>>
        /\ tasks' = T
    BY <1>1 DEF Panels
  <2> QED BY <2>1 DEF TaskTypes, AuditTypes, DayTypes, FlagTypes, shown, dialog
<1>2. CASE Shown("storage") # ShownNext("storage")
  <2>1. StorageMount(ShownNext("storage"), T)
    BY <1>2 DEF Panels
  <2>2. AuditTypes' /\ FlagTypes'
    BY <2>1 DEF StorageMount, AuditTypes, FlagTypes, Items, ShownNext
  <2>3. DayTypes'
    BY <2>1, StorageAssumption DEF StorageMount, DayTypes, Spans, Unread
  <2>4. PICK left : left = {[t EXCEPT !.live = FALSE] :
                              t \in {u \in T : u.kind \in Changes /\ u.step = "sent"}}
    OBVIOUS
  <2>5. TaskTypes(left)
    <3> SUFFICES ASSUME NEW y \in left PROVE y \in TaskRecords({y.id})
      BY DEF TaskTypes
    <3>1. PICK t \in T : y = [t EXCEPT !.live = FALSE]
      BY <2>4
    <3>2. y \in TaskRecords({t.id})
      BY <3>1, TaskFields, TaskFlagged
    <3> QED BY <3>2, TaskNamed
  <2>6. TaskTypes(tasks')
    <3>1. CASE ShownNext("storage")
      <4>1. Begin([Task("load", NoAnalysis, 1) EXCEPT !.id = 0], left)
        BY <2>1, <2>4, <3>1 DEF StorageMount
      <4>2. "load" \in Kinds /\ NoAnalysis \in Items /\ 1 \in Spans
        BY DEF Kinds, Items, Spans
      <4> QED BY <2>5, <4>1, <4>2, BeginTypes
    <3>2. CASE ~ ShownNext("storage")
      BY <2>1, <2>4, <2>5, <3>2 DEF StorageMount
    <3> QED BY <3>1, <3>2
  <2> QED BY <2>2, <2>3, <2>6
<1> QED BY <1>1, <1>2

-----------------------------------------------------------------------------
\* The types of App.

AppTypes ==
  /\ path \in Tabs /\ pendingTab \in Tabs \cup {NoTab}
  /\ dirty \in BOOLEAN /\ savingModal \in BOOLEAN
PanelTypes == SettingsTypes /\ StorageTypes /\ AliasTypes
Types == SessionTypeOK /\ PanelTypes /\ AppTypes

LEMMA TypesOK == Types => TypeOK
<1> SUFFICES ASSUME Types PROVE TypeOK
  OBVIOUS
<1>1. {dirty, savingModal} \subseteq BOOLEAN /\ path \in Tabs /\ pendingTab \in Tabs \cup {NoTab}
  BY DEF Types, AppTypes
<1> QED BY <1>1, SettingsTypesOK, StorageTypesOK, AliasTypesOK DEF Types, PanelTypes, TypeOK

\* A panel that nothing changes.
LEMMA SettingsStay ==
  ASSUME SettingsTypes, UNCHANGED settingsVars
  PROVE  SettingsTypes'
<1>1. UNCHANGED <<stored, settings, form, reading, saves, models, modelLoads, loadingModels,
                  customModel, adding, changing, signOut, draft, edits>>
  BY DEF settingsVars, contents, offers, choice, passwords
<1>2. SaveTypes(saves') /\ FormTypes' /\ ReadingTypes'
  BY <1>1 DEF SettingsTypes, FormTypes, ReadingTypes
<1>3. LoadTypes' /\ ChoiceTypes' /\ PasswordTypes'
  BY <1>1, LoadsUnchanged DEF SettingsTypes, ChoiceTypes, PasswordTypes
<1> QED BY <1>2, <1>3 DEF SettingsTypes

LEMMA StorageStays ==
  ASSUME StorageTypes, UNCHANGED storageVars
  PROVE  StorageTypes'
BY DEF storageVars, shown, dialog, StorageTypes, TaskTypes, AuditTypes, DayTypes, FlagTypes

LEMMA AliasesStay ==
  ASSUME AliasTypes, UNCHANGED aliasVars
  PROVE  AliasTypes'
BY DEF aliasVars, aliasForm, AliasTypes, OpTypes, ListTypes, AliasFormTypes

\* App mounts and unmounts the panels, when S, T and O are left of their calls.
LEMMA MountTypes ==
  ASSUME PanelTypes, NEW S, SaveTypes(S), NEW T \in SUBSET tasks, NEW O \in SUBSET ops,
         Panels(S, T, O), UNCHANGED servers, UNCHANGED signOut \/ signOut' = FALSE,
         UNCHANGED draft \/ draft' = NoDraft, addAliasIp' \in Addresses
  PROVE  PanelTypes'
<1>1. signOut' \in BOOLEAN /\ draft'.form \in Forms \cup {NoForm}
  <2>1. signOut \in BOOLEAN /\ draft.form \in Forms \cup {NoForm}
    BY DEF PanelTypes, SettingsTypes, PasswordTypes, FormTypes
  <2>2. NoDraft.form = NoForm
    BY DEF NoDraft
  <2>3. signOut' \in BOOLEAN
    BY <2>1
  <2>4. draft'.form \in Forms \cup {NoForm}
    BY <2>1, <2>2
  <2> QED BY <2>3, <2>4
<1>2. SettingsTypes'
  BY <1>1, SettingsMountTypes DEF PanelTypes, servers
<1>3. StorageTypes'
  BY StorageMountTypes DEF PanelTypes, servers
<1>4. AliasTypes'
  BY AliasMountTypes DEF PanelTypes, servers
<1> QED BY <1>2, <1>3, <1>4 DEF PanelTypes

\* What of the calls is left when all are.
LEMMA AllLeft ==
  ASSUME PanelTypes
  PROVE  /\ SaveTypes(saves) /\ \A s \in saves : SaveTypes(saves \ {s})
         /\ tasks \in SUBSET tasks /\ ops \in SUBSET ops /\ addAliasIp \in Addresses
BY DEF PanelTypes, SettingsTypes, SaveTypes, AliasTypes, AliasFormTypes

\* A tab is opened.
LEMMA GoTypes ==
  ASSUME Types, NEW t \in Tabs, NEW S, SaveTypes(S), Go(t, S), UNCHANGED <<servers, session>>,
         UNCHANGED signOut, UNCHANGED draft \/ draft' = NoDraft, addAliasIp' \in Addresses,
         pendingTab' \in Tabs \cup {NoTab}, dirty' \in BOOLEAN, savingModal' \in BOOLEAN
  PROVE  Types'
<1>1. PanelTypes'
  BY AllLeft, MountTypes DEF Types, Go
<1>2. SessionTypeOK' /\ AppTypes'
  BY DEF Types, Go, session, SessionTypeOK, AppTypes
<1> QED BY <1>1, <1>2 DEF Types

LEMMA DirtyTyped ==
  ASSUME dirty \in BOOLEAN, DirtyReported
  PROVE  dirty' \in BOOLEAN
<1>1. dirty' = dirty \/ dirty' = isDirty'
  BY DEF DirtyReported
<1> QED BY <1>1 DEF isDirty

\* The tabs, Back and Forward.
LEMMA TabTypes ==
  ASSUME Types, NEW t \in Tabs, handleTabChange(t) \/ handlePopState(t)
  PROVE  Types'
<1>1. CASE Kept(t)
  <2>1. UNCHANGED <<settingsVars, storageVars, aliasVars>>
    BY <1>1 DEF handleTabChange, handlePopState
  <2>2. PanelTypes'
    BY <2>1, SettingsStay, StorageStays, AliasesStay DEF Types, PanelTypes
  <2>3. SessionTypeOK' /\ AppTypes'
    BY <1>1 DEF handleTabChange, handlePopState, session, Types, SessionTypeOK, AppTypes
  <2> QED BY <2>2, <2>3 DEF Types
<1>2. CASE ~ Kept(t)
  <2>1. /\ Go(t, saves) /\ DirtyReported /\ UNCHANGED addAliasIp
        /\ UNCHANGED <<servers, session, signOut, draft, pendingTab, savingModal>>
    BY <1>2 DEF handleTabChange, handlePopState
  <2>2. dirty' \in BOOLEAN
    BY <2>1, DirtyTyped DEF Types, AppTypes
  <2> QED BY <2>1, <2>2, AllLeft, GoTypes DEF Types, AppTypes
<1> QED BY <1>1, <1>2

\* "Add alias" leads to a panel there is.
LEMMA AddAliasTypes ==
  ASSUME Types, NEW i \in Ips, handleAddAliasFromLog(i)
  PROVE  Types'
<1>1. /\ Go("aliases", saves) /\ DirtyReported /\ addAliasIp' = i
      /\ UNCHANGED <<servers, session, signOut, draft, pendingTab, savingModal>>
  BY DEF handleAddAliasFromLog
<1>2. "aliases" \in Tabs
  BY ConsoleAssumption
<1>3. dirty' \in BOOLEAN /\ i \in Addresses
  BY <1>1, DirtyTyped DEF Types, AppTypes, Addresses
<1> QED BY <1>1, <1>2, <1>3, AllLeft, GoTypes DEF Types, AppTypes

\* The dialog.
LEMMA DialogTypes ==
  ASSUME Types, KeepEditing \/ DiscardAndLeave \/ SaveAndContinue
  PROVE  Types'
<1>1. pendingTab \in Tabs
  BY DEF KeepEditing, DiscardAndLeave, SaveAndContinue, DialogShown, Types, AppTypes
<1>2. CASE KeepEditing
  <2>1. PanelTypes'
    BY <1>2, SettingsStay, StorageStays, AliasesStay DEF KeepEditing, Types, PanelTypes
  <2> QED BY <1>2, <2>1 DEF KeepEditing, sessionVars, Types, SessionTypeOK, AppTypes
<1>3. CASE DiscardAndLeave \/ (SaveAndContinue /\ ~ Shown("settings"))
  <2>1. /\ Go(pendingTab, saves) /\ UNCHANGED <<servers, session, signOut, savingModal, addAliasIp>>
        /\ UNCHANGED draft \/ draft' = NoDraft
        /\ pendingTab' = NoTab /\ dirty' = FALSE
    BY <1>3 DEF DiscardAndLeave, SaveAndContinue
  <2> QED BY <1>1, <2>1, AllLeft, GoTypes DEF Types, AppTypes
<1>4. CASE SaveAndContinue /\ Shown("settings")
  <2>1. /\ executeSave(pendingTab) /\ savingModal' = TRUE
        /\ UNCHANGED <<session, tab, path, dirty, pendingTab, storageVars, aliasVars>>
    BY <1>4 DEF SaveAndContinue
  <2>2. SettingsTypes'
    BY <1>1, <2>1, SaveBegun DEF Types, PanelTypes
  <2>3. StorageTypes' /\ AliasTypes'
    BY <2>1, StorageStays, AliasesStay DEF Types, PanelTypes
  <2>4. SessionTypeOK' /\ AppTypes'
    BY <2>1 DEF session, Types, SessionTypeOK, AppTypes
  <2> QED BY <2>2, <2>3, <2>4 DEF Types, PanelTypes
<1> QED BY <1>2, <1>3, <1>4

\* The save of the dialog returns.
LEMMA ModalSaveTypes ==
  ASSUME Types, NEW s \in saves, ModalSaveReturns(s)
  PROVE  Types'
<1>1. s.target \in Tabs /\ SaveTypes(saves \ {s})
  BY AllLeft DEF ModalSaveReturns, Types, PanelTypes, SettingsTypes, SaveTypes
<1>2. savingModal' = FALSE /\ UNCHANGED <<servers, session, signOut, addAliasIp>>
  BY DEF ModalSaveReturns
<1>3. CASE s.status = "ok"
  <2>1. /\ Go(s.target, saves \ {s}) /\ pendingTab' = NoTab /\ dirty' = FALSE
        /\ UNCHANGED draft \/ draft' = NoDraft
    BY <1>3 DEF ModalSaveReturns
  <2> QED BY <1>1, <1>2, <2>1, AllLeft, GoTypes DEF Types
<1>4. CASE s.status # "ok"
  <2>1. /\ saves' = saves \ {s}
        /\ UNCHANGED <<pendingTab, dirty, tab, path, contents, reading, offers, choice, changing, draft>>
        /\ UNCHANGED <<storageLoading, shown, days, dialog, deletingId, current, tasks>>
        /\ UNCHANGED <<aliases, listLoading, aliasForm, isDeletingIp, fresh, ops>>
    BY <1>4 DEF ModalSaveReturns
  <2>2. SettingsTypes'
    BY <1>1, <1>2, <2>1, LoadsUnchanged
    DEF Types, PanelTypes, SettingsTypes, FormTypes, ReadingTypes, ChoiceTypes, PasswordTypes,
        servers, contents, offers, choice
  <2>3. StorageTypes' /\ AliasTypes'
    BY <1>2, <2>1, StorageStays, AliasesStay
    DEF Types, PanelTypes, servers, storageVars, aliasVars
  <2>4. SessionTypeOK' /\ AppTypes'
    BY <1>2, <2>1 DEF session, Types, SessionTypeOK, AppTypes
  <2> QED BY <2>2, <2>3, <2>4 DEF Types, PanelTypes
<1> QED BY <1>3, <1>4

\* The session ends, comes back, or starts anew.
LEMMA UnauthorizedTypes ==
  ASSUME Types, handleUnauthorized
  PROVE  Types'
<1>1. ASSUME NEW S, SaveTypes(S), NEW T \in SUBSET tasks, NEW O \in SUBSET ops,
             SessionLost(S, T, O), addAliasIp' \in Addresses
      PROVE  PanelTypes' /\ SessionTypeOK'
  <2>1. PanelTypes'
    BY <1>1, MountTypes DEF SessionLost, handleUnauthorized, Types
  <2>2. SessionTypeOK'
    BY <1>1 DEF SessionLost, handleUnauthorized, Types, SessionTypeOK, Show, NoticeOn
  <2> QED BY <2>1, <2>2
<1>2. addAliasIp' \in Addresses /\ savingModal' \in BOOLEAN
  <2>1. addAliasIp' = addAliasIp \/ addAliasIp' = ""
    BY DEF handleUnauthorized
  <2>2. savingModal' = savingModal \/ \E s \in saves : savingModal' = (savingModal /\ s.target = NoTab)
    BY DEF handleUnauthorized
  <2> QED BY <2>1, <2>2, AllLeft DEF Types, AppTypes, Addresses
<1>3. /\ SaveTypes(saves) /\ \A s \in saves : SaveTypes(saves \ {s})
      /\ tasks \in SUBSET tasks /\ ops \in SUBSET ops
      /\ \A t : tasks \ {t} \in SUBSET tasks
      /\ \A o : ops \ {o} \in SUBSET ops
  BY AllLeft DEF Types
<1>4. \E S, T, O : /\ SaveTypes(S) /\ T \in SUBSET tasks /\ O \in SUBSET ops
                   /\ SessionLost(S, T, O)
  BY <1>3 DEF handleUnauthorized
<1>5. PanelTypes' /\ SessionTypeOK'
  BY <1>1, <1>2, <1>4
<1>6. AppTypes'
  BY <1>2 DEF handleUnauthorized, Types, AppTypes
<1> QED BY <1>5, <1>6 DEF Types

LEMMA SessionTypes ==
  ASSUME Types, SessionStep \/ Restart
  PROVE  Types'
<1>1. SessionTypeOK'
  BY SessionStepTypes DEF Types, AppTypes
<1>2. CASE SessionStep
  <2>1. /\ Panels(saves, tasks, ops) /\ DirtyReported
        /\ UNCHANGED <<servers, path, pendingTab, savingModal, signOut, draft, addAliasIp>>
    BY <1>2 DEF SessionStep
  <2>2. PanelTypes'
    BY <2>1, AllLeft, MountTypes DEF Types
  <2>3. AppTypes'
    BY <2>1, DirtyTyped DEF Types, AppTypes
  <2> QED BY <1>1, <2>2, <2>3 DEF Types
<1>3. CASE Restart
  <2>1. PICK S, O :
          /\ S = {[s EXCEPT !.target = NoTab] :
                    s \in {c \in saves : c.step = "store" /\ c.status = "sent"}}
          /\ O \in SUBSET ops /\ Panels(S, tasks, O)
    BY <1>3 DEF Restart
  <2>2. SaveTypes(S)
    <3> SUFFICES ASSUME NEW x \in S
                 PROVE  /\ IsSave(x) /\ x.step \in {"store", "read"}
                        /\ x.status \in {"sent", "ok", "failed", "denied"}
                        /\ x.target \in Tabs \cup {NoTab} /\ x.value \in Forms
                        /\ x.live \in BOOLEAN
      BY DEF SaveTypes
    <3>1. PICK s \in saves : x = [s EXCEPT !.target = NoTab]
      BY <2>1
    <3>2. /\ IsSave(s) /\ s.step \in {"store", "read"}
          /\ s.status \in {"sent", "ok", "failed", "denied"}
          /\ s.value \in Forms /\ s.live \in BOOLEAN
      BY DEF Types, PanelTypes, SettingsTypes, SaveTypes
    <3>3. PICK i, u, v, w, t, l :
            s = [id |-> i, step |-> u, status |-> v, value |-> w, target |-> t, live |-> l]
      BY <3>2 DEF IsSave
    <3>4. /\ IsSave(x) /\ x.step = s.step /\ x.status = s.status /\ x.value = s.value
          /\ x.target = NoTab /\ x.live = s.live
      BY <3>1, <3>3 DEF IsSave
    <3> QED BY <3>2, <3>4
  <2>3. /\ UNCHANGED <<servers, path>> /\ signOut' = FALSE /\ draft' = NoDraft
        /\ addAliasIp' = "" /\ dirty' = FALSE /\ pendingTab' = NoTab /\ savingModal' = FALSE
    BY <1>3 DEF Restart
  <2>4. "" \in Addresses /\ tasks \in SUBSET tasks
    BY DEF Addresses
  <2>5. PanelTypes'
    BY <2>1, <2>2, <2>3, <2>4, MountTypes DEF Types
  <2>6. AppTypes'
    BY <2>3 DEF Types, AppTypes
  <2> QED BY <1>1, <2>5, <2>6 DEF Types
<1> QED BY <1>2, <1>3

LEMMA TimerTypes ==
  ASSUME Types, SignOutTimer
  PROVE  Types'
<1>1. /\ UNCHANGED <<stored, contents, reading, saves, offers, choice, changing, draft, edits>>
      /\ signOut' = FALSE
  BY DEF SignOutTimer
<1>2. SettingsTypes'
  BY <1>1, LoadsUnchanged
  DEF Types, PanelTypes, SettingsTypes, FormTypes, ReadingTypes, ChoiceTypes, PasswordTypes,
      contents, offers, choice
<1>3. StorageTypes' /\ AliasTypes'
  BY StorageStays, AliasesStay DEF SignOutTimer, Types, PanelTypes
<1>4. SessionTypeOK' /\ AppTypes'
  BY DEF SignOutTimer, appVars, Types, SessionTypeOK, AppTypes
<1> QED BY <1>2, <1>3, <1>4 DEF Types, PanelTypes

-----------------------------------------------------------------------------
\* The panels' steps.

LEMMA OutcomeCounted ==
  ASSUME NEW o, Outcome(o) \/ UNCHANGED breaks
  PROVE  Counted
BY DEF Outcome, Counted

LEMMA SettingsTypesStep ==
  ASSUME Types, SettingsStep
  PROVE  Types'
<1>1. SettingsTypes'
  BY SettingsStepTypes DEF Types, PanelTypes
<1>2. StorageTypes' /\ AliasTypes'
  BY StorageStays, AliasesStay DEF SettingsStep, Types, PanelTypes
<1>3. Counted
  <2>1. CASE SettingsAct
    BY <2>1 DEF SettingsAct, Counted
  <2>2. ASSUME NEW o, ServeSettings(o) \/ \E s \in saves : ServeSave(s, o) PROVE Counted
    BY <2>2, OutcomeCounted DEF ServeSettings, ServeSave
  <2>3. ASSUME NEW l, NEW ok, ModelsAnswered(l, ok) PROVE Counted
    BY <2>3 DEF ModelsAnswered, Counted
  <2>4. CASE SettingsCall
    BY <2>2, <2>3, <2>4 DEF SettingsCall
  <2> QED BY <2>1, <2>4 DEF SettingsStep
<1>4. /\ cookie' = cookie \/ cookie' = FALSE
      /\ notice' = notice \/ notice' = "stored"
  <2>1. ASSUME NEW ok, PasswordAnswered(ok)
        PROVE  /\ cookie' = cookie \/ cookie' = FALSE
               /\ notice' = notice \/ notice' = "stored"
    BY <2>1 DEF PasswordAnswered
  <2> QED BY <2>1 DEF SettingsStep, SettingsCall, SettingsAct
<1>5. breaks' \in 0 .. MaxBreaks
  BY <1>3, CountedTypes DEF Types, SessionTypeOK
<1>6. UNCHANGED <<admin, screen, tab, asked>>
  BY DEF SettingsStep
<1>7. SessionTypeOK'
  BY <1>4, <1>5, <1>6 DEF Types, SessionTypeOK
<1>8. AppTypes'
  <2>1. dirty' = dirty \/ dirty' = isDirty'
    BY DEF SettingsStep
  <2>2. dirty' \in BOOLEAN
    BY <2>1 DEF Types, AppTypes, isDirty
  <2> QED BY <2>2 DEF SettingsStep, Types, AppTypes
<1> QED BY <1>1, <1>2, <1>7, <1>8 DEF Types, PanelTypes

LEMMA OtherPanelsTypesStep ==
  ASSUME Types, StorageStep \/ AliasStep
  PROVE  Types'
<1>1. Counted
  <2>1. ASSUME NEW t, NEW o, ServeTask(t, o) \/ AuditUnread(t) PROVE Counted
    BY <2>1, OutcomeCounted DEF ServeTask, AuditUnread, Counted
  <2>2. ASSUME NEW c, NEW out, ServeAlias(c, out) \/ ServeList(c, out) PROVE Counted
    BY <2>2, OutcomeCounted DEF ServeAlias, ServeList
  <2>3. CASE UNCHANGED breaks
    BY <2>3 DEF Counted
  <2> QED BY <2>1, <2>2, <2>3 DEF StorageStep, AliasStep
<1>2. breaks' \in 0 .. MaxBreaks
  BY <1>1, CountedTypes DEF Types, SessionTypeOK
<1>3. UNCHANGED <<admin, cookie, screen, tab, asked, notice, settingsVars, appVars>>
  BY DEF StorageStep, AliasStep
<1>4. SessionTypeOK' /\ SettingsTypes' /\ AppTypes'
  BY <1>2, <1>3, SettingsStay DEF Types, PanelTypes, SessionTypeOK, AppTypes, appVars
<1>5. StorageTypes'
  BY StorageStepTypes, StorageStays DEF StorageStep, AliasStep, Types, PanelTypes
<1>6. AliasTypes'
  <2>1. CASE StorageStep
    BY <2>1, AliasesStay DEF StorageStep, Types, PanelTypes
  <2>2. CASE AliasStep
    BY <2>2, AliasFormStepTypes, AliasServedTypes, AliasAnswerTypes
    DEF AliasStep, Types, PanelTypes
  <2> QED BY <2>1, <2>2
<1> QED BY <1>4, <1>5, <1>6 DEF Types, PanelTypes

LEMMA TypesStep == Types /\ [Next]_vars => Types'
<1> SUFFICES ASSUME Types, [Next]_vars PROVE Types'
  OBVIOUS
<1>1. CASE UNCHANGED vars
  <2>1. PanelTypes'
    BY <1>1, SettingsStay, StorageStays, AliasesStay DEF vars, Types, PanelTypes
  <2> QED BY <1>1, <2>1 DEF vars, sessionVars, appVars, Types, SessionTypeOK, AppTypes
<1>2. CASE AppStep
  BY <1>2, TabTypes, AddAliasTypes, DialogTypes, ModalSaveTypes, UnauthorizedTypes, SessionTypes,
     TimerTypes DEF AppStep, TabPressed
<1> QED BY <1>1, <1>2, SettingsTypesStep, OtherPanelsTypesStep DEF Next

\* Whatever the operator, the server and the session do, and however many calls are
\* under way: a save carries a form that can be stored and leads to a tab there is, the
\* retention shown is a day or more, a list of aliases has only addresses and names that
\* there are, and no failure beyond MaxBreaks is counted.
THEOREM ConsoleTypes == Spec => []TypeOK
<1>1. Init => Types
  <2> SUFFICES ASSUME Init PROVE Types
    OBVIOUS
  <2>1. SessionTypeOK /\ AppTypes
    <3>1. breaks \in 0 .. MaxBreaks
      <4>1. breaks = 0
        BY DEF Init, SessionInit
      <4>2. MaxBreaks \in Nat
        BY SessionAssumption
      <4> QED BY <4>1, <4>2
    <3>2. admin \in BOOLEAN /\ cookie \in BOOLEAN
      BY DEF Init, SessionInit
    <3>3. SessionTypeOK
      BY <3>1, <3>2 DEF Init, SessionInit, SessionTypeOK
    <3>4. AppTypes
      BY DEF Init, SessionInit, AppTypes
    <3> QED BY <3>3, <3>4
  <2>2. SettingsTypes
    <3>1. FormTypes
      <4>1. edits = 0 /\ stored = FirstForm /\ form = DefaultForm
        BY DEF Init
      <4>2. MaxEdits \in Nat /\ FirstForm \in Forms /\ DefaultForm \in Forms
        BY SettingsAssumption
      <4>3. edits \in 0 .. MaxEdits
        BY <4>1, <4>2
      <4> QED BY <4>1, <4>2, <4>3 DEF Init, FormTypes, NoDraft
    <3>2. ReadingTypes /\ SaveTypes(saves)
      BY DEF Init, ReadingTypes, SaveTypes, Idle
    <3>3. LoadTypes /\ ChoiceTypes /\ PasswordTypes
      BY DEF Init, LoadTypes, ChoiceTypes, PasswordTypes, NotAdding
    <3> QED BY <3>1, <3>2, <3>3 DEF SettingsTypes
  <2>3. StorageTypes
    <3>1. AuditTypes /\ FlagTypes /\ TaskTypes(tasks)
      BY DEF Init, AuditTypes, FlagTypes, TaskTypes, Items
    <3>2. DayTypes
      <4>1. FirstDays \in Nat \ {0} /\ DefaultDays \in Nat \ {0} /\ 0 \in Nat
        BY StorageAssumption
      <4> QED BY <4>1 DEF Init, DayTypes, Spans, Unread
    <3> QED BY <3>1, <3>2 DEF StorageTypes
  <2>4. AliasTypes
    BY DEF Init, AliasTypes, OpTypes, ListTypes, AliasFormTypes, NoAliases, Addresses, Called
  <2> QED BY <2>1, <2>2, <2>3, <2>4 DEF Types, PanelTypes
<1> QED BY <1>1, TypesStep, TypesOK, PTL DEF Spec

=============================================================================
