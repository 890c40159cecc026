--------------------------------- MODULE Console ---------------------------------
(***************************************************************************)
(* frontend/src/App.tsx: the console around its panels.  It composes the   *)
(* session, the settings, the storage and the alias panels: which of them  *)
(* is mounted, the address bar and the browser's history, the dialog that  *)
(* guards unsaved settings, and the end of the session, which takes every  *)
(* panel away.  An effect runs in the step that caused it.                 *)
(***************************************************************************)
EXTENDS SettingsPanel, StoragePanel, HostAliasManager

CONSTANT MaxCalls  \* bound of the model: calls of the storage and alias panels under way

\* Addresses are shown where there is a panel to name them in.
ASSUME ConsoleAssumption == MaxCalls \in Nat /\ (Ips # {} => "aliases" \in Tabs)

VARIABLES
  path,        \* the tab of the address bar, pathToTab(location.pathname)
  dirty,       \* isSettingsDirty, what the settings panel last reported
  pendingTab,  \* the tab the dialog was opened for, NoTab when it is closed
  savingModal  \* isSavingModal

appVars == <<path, dirty, pendingTab, savingModal>>
vars == <<sessionVars, settingsVars, storageVars, aliasVars, appVars>>

TypeOK ==
  /\ SessionTypeOK /\ SettingsTypeOK /\ StorageTypeOK /\ AliasTypeOK
  /\ path \in Tabs /\ pendingTab \in Tabs \cup {NoTab}
  /\ {dirty, savingModal} \subseteq BOOLEAN

\* The address the page was opened with names the first tab; nothing is mounted
\* before the session is known.
Init ==
  /\ SessionInit /\ path = tab
  /\ stored = FirstForm /\ saves = {} /\ settings = NoForm /\ form = DefaultForm
  /\ reading = Idle /\ models = {} /\ modelLoads = {} /\ loadingModels = FALSE
  /\ customModel = FALSE /\ adding = NotAdding
  /\ changing = "none" /\ signOut = FALSE /\ draft = NoDraft /\ edits = 0
  /\ audit = Analyses /\ retention = FirstDays
  /\ loaded = FALSE /\ storageLoading = FALSE /\ auditLogs = {}
  /\ retentionDays = DefaultDays /\ maxDays = Unread /\ locked = FALSE /\ days = DefaultDays
  /\ selected = NoAnalysis /\ clearModal = FALSE
  /\ deletingId = NoAnalysis /\ tasks = {} /\ current = FALSE
  /\ table = NoAliases /\ aliases = NoAliases /\ listLoading = FALSE
  /\ ip = "" /\ alias = "" /\ editingIp = "" /\ ops = {} /\ isDeletingIp = ""
  /\ addAliasIp = "" /\ fresh = FALSE
  /\ dirty = FALSE /\ pendingTab = NoTab /\ savingModal = FALSE

-----------------------------------------------------------------------------
\* Mutated forms of the definitions below.

\* The dialog is opened, and the address stays where Back took it.
PopStateUnrestored(t) ==
  /\ screen # "loading" /\ t # path
  /\ pendingTab' = t /\ path' = t
  /\ UNCHANGED <<sessionVars, dirty, savingModal, settingsVars, storageVars, aliasVars>>

-----------------------------------------------------------------------------
\* Which panel is mounted: the one of the tab, when the console is on the screen.
\* S, T and O are the calls that go on.

ShownNext(t) == screen' = "console" /\ tab' = t

Panels(S, T, O) ==
  /\ IF Shown("settings") = ShownNext("settings")
     THEN UNCHANGED <<contents, reading, offers, choice, changing>> /\ saves' = S
     ELSE SettingsMount(ShownNext("settings"), S)
  /\ IF Shown("storage") = ShownNext("storage")
     THEN UNCHANGED <<storageLoading, shown, days, dialog, deletingId, current>> /\ tasks' = T
     ELSE StorageMount(ShownNext("storage"), T)
  /\ IF Shown("aliases") = ShownNext("aliases")
     THEN UNCHANGED <<aliases, listLoading, aliasForm, isDeletingIp, fresh>> /\ ops' = O
     ELSE AliasMount(ShownNext("aliases"), O)

servers == <<stored, audit, retention, table, edits>>
session == <<admin, cookie, screen, asked, notice, breaks>>

\* The settings panel reports isDirty when it is mounted and when it changes; a panel
\* that goes says nothing.
DirtyReported == dirty' = IF ShownNext("settings") THEN isDirty' ELSE dirty

Go(t, S) ==
  /\ tab' = t /\ path' = t
  /\ Panels(S, tasks, ops)

\* handlePopState and handleTabChange keep an operator with unsaved settings.
Kept(t) == tab = "settings" /\ dirty /\ t # "settings"

handleTabChange(t) ==
  /\ screen = "console" /\ pendingTab = NoTab
  /\ UNCHANGED <<session, savingModal>>
  /\ IF Kept(t)
     THEN /\ pendingTab' = t
          /\ UNCHANGED <<tab, path, dirty, settingsVars, storageVars, aliasVars>>
     ELSE /\ UNCHANGED addAliasIp
          /\ Go(t, saves) /\ DirtyReported
          /\ UNCHANGED <<servers, pendingTab, signOut, draft>>

\* The buttons of the bar, on a wide screen and at the bottom of a narrow one.
TabPressed == \E t \in Tabs : handleTabChange(t)

\* Back and Forward change the address before anyone is asked.
handlePopState(t) ==
  /\ screen # "loading" /\ t # path
  /\ UNCHANGED <<session, savingModal>>
  /\ IF Kept(t)
     THEN /\ pendingTab' = t /\ path' = tab
          /\ UNCHANGED <<tab, dirty, settingsVars, storageVars, aliasVars>>
     ELSE /\ UNCHANGED addAliasIp
          /\ Go(t, saves) /\ DirtyReported
          /\ UNCHANGED <<servers, pendingTab, signOut, draft>>

\* "Add alias" on a row of the stream.
handleAddAliasFromLog(i) ==
  /\ Shown("stream") /\ pendingTab = NoTab
  /\ addAliasIp' = i
  /\ UNCHANGED <<servers, session, pendingTab, savingModal, signOut, draft>>
  /\ Go("aliases", saves) /\ DirtyReported

-----------------------------------------------------------------------------
\* The dialog.  It is not disabled while its own save is under way.

DialogShown == screen = "console" /\ pendingTab # NoTab

KeepEditing ==
  /\ DialogShown
  /\ pendingTab' = NoTab /\ path' = tab
  /\ UNCHANGED <<sessionVars, settingsVars, storageVars, aliasVars, dirty, savingModal>>

DiscardAndLeave ==
  /\ DialogShown
  /\ pendingTab' = NoTab /\ dirty' = FALSE
  /\ draft' = NoDraft
  /\ UNCHANGED <<servers, session, savingModal, signOut, addAliasIp>>
  /\ Go(pendingTab, saves)

\* executeSave returns false at once when the form is clean or a save is under way;
\* without a settings panel there is nothing to save.
SaveAndContinue ==
  /\ DialogShown /\ ~savingModal
  /\ UNCHANGED session
  /\ IF Shown("settings")
     THEN /\ executeSave(pendingTab) /\ savingModal' = TRUE
          /\ UNCHANGED <<tab, path, dirty, pendingTab, storageVars, aliasVars>>
     ELSE /\ UNCHANGED <<servers, savingModal, signOut, draft, addAliasIp>>
          /\ pendingTab' = NoTab /\ dirty' = FALSE
          /\ Go(pendingTab, saves)

\* The save of the dialog returns.  The target is the one the dialog was opened for
\* when the button was pressed, whatever the operator did since.
ModalSaveReturns(s) ==
  /\ s \in saves /\ s.target # NoTab
  /\ s.status = "failed" \/ (s.step = "read" /\ s.status = "ok")
  /\ savingModal' = FALSE
  /\ UNCHANGED <<servers, session, signOut, addAliasIp>>
  /\ IF s.status = "ok"
     THEN /\ pendingTab' = NoTab /\ dirty' = FALSE
          /\ Go(s.target, saves \ {s})
          /\ draft' = IF s.live /\ form = s.value THEN NoDraft ELSE draft
     ELSE /\ saves' = saves \ {s}
          /\ UNCHANGED <<pendingTab, dirty, tab, path, contents, reading, offers, choice,
                         changing, draft, storageLoading, shown, days, dialog,
                         deletingId, current, tasks, aliases, listLoading, aliasForm,
                         isDeletingIp, fresh, ops>>

-----------------------------------------------------------------------------
\* The session takes the panels away and brings them back.

\* A call is refused: logshed:unauthorized.  The login form replaces everything; the
\* state of App stays, and the panel of its tab is mounted anew after the login.
SessionLost(S, T, O) ==
  /\ IF screen = "console" THEN Show("login") ELSE UNCHANGED <<screen, notice>>
  /\ UNCHANGED tab
  /\ Panels(S, T, O)
  /\ draft' = IF screen = "console" THEN NoDraft ELSE draft

handleUnauthorized ==
  /\ \/ /\ reading.status = "denied" \/ (modelLoads # {} /\ ~cookie)
        /\ UNCHANGED <<savingModal, addAliasIp>>
        /\ SessionLost(saves, tasks, ops)
     \/ \E s \in saves :
          /\ s.status = "denied"
          /\ savingModal' = (savingModal /\ s.target = NoTab) /\ UNCHANGED addAliasIp
          /\ SessionLost(saves \ {s}, tasks, ops)
     \/ \E t \in tasks :
          /\ t.step = "denied"
          /\ UNCHANGED <<savingModal, addAliasIp>>
          /\ SessionLost(saves, tasks \ {t}, ops)
     \/ \E o \in ops :
          /\ o.step = "denied" \/ (o.step = "listing" /\ ~cookie)
          /\ addAliasIp' = IF o.step = "listing" /\ o.kind # "mount" THEN "" ELSE addAliasIp
          /\ UNCHANGED savingModal
          /\ SessionLost(saves, tasks, ops \ {o})
  /\ UNCHANGED <<admin, cookie, asked, breaks, servers, path, dirty, pendingTab, signOut>>

\* What else the session does.  The page starts anew after a reload: nothing of App
\* and of the panels is left, and no one waits for the calls that were made.
SessionStep ==
  /\ \/ \E ok \in BOOLEAN : refreshAuth(ok) \/ login(ok) \/ setup(ok)
     \/ SubmitLogin \/ SubmitSetup \/ SignOut \/ Expire
  /\ UNCHANGED <<servers, path, pendingTab, savingModal, signOut, draft, addAliasIp>>
  /\ Panels(saves, tasks, ops) /\ DirtyReported

Restart ==
  /\ \/ Reload(path)
     \/ \E ok \in BOOLEAN : logout(ok, path)
  /\ dirty' = FALSE /\ pendingTab' = NoTab /\ savingModal' = FALSE /\ signOut' = FALSE
  /\ draft' = NoDraft /\ addAliasIp' = ""
  /\ UNCHANGED <<servers, path>>
  /\ Panels({[s EXCEPT !.target = NoTab] : s \in {c \in saves : c.step = "store" /\ c.status = "sent"}},
            tasks, {o \in ops : o.step = "sent"})

\* One second after a change of the password.
SignOutTimer ==
  /\ signOut /\ asked = "none"
  /\ signOut' = FALSE /\ asked' = "logout"
  /\ UNCHANGED <<admin, cookie, screen, tab, notice, breaks, stored, contents, reading, saves,
                 offers, choice, changing, draft, edits, storageVars, aliasVars,
                 appVars>>

-----------------------------------------------------------------------------
\* The panels' own steps, and the server's for them.

SettingsCall ==
  /\ \/ \E o \in {"ok", "denied", "failed"} :
          \/ ServeSettings(o)
          \/ \E s \in saves : ServeSave(s, o)
     \/ \E l \in modelLoads, ok \in BOOLEAN : ModelsAnswered(l, ok)
  /\ UNCHANGED <<cookie, notice>>

\* The dialog covers the panel, and keeps the operator from it.
SettingsAct ==
  /\ \/ \E ok \in BOOLEAN : PasswordAnswered(ok)
     \/ /\ UNCHANGED <<cookie, notice>>
        /\ loadSettings \/ \E s \in saves : SaveStored(s) \/ SaveReturns(s)
     \/ /\ pendingTab = NoTab
        /\ UNCHANGED <<cookie, notice>>
        /\ \/ RefreshModels \/ CancelFallback \/ addFallback \/ TypeModel
           \/ handleResetChanges \/ executeSave(NoTab) \/ handleChangePassword
           \/ \E r \in Rests : EditRest(r)
           \/ \E p \in Providers : handleProviderChange(p)
           \/ \E i \in DOMAIN form.fallbacks :
                removeFallback(i) \/ \E d \in {-1, 1} : moveFallback(i, d)
           \/ \E m \in Models :
                ChooseFallback(m) \/ TypeFallback(m) \/ ChoosePrimary(m) \/ UseDropdown(m)
  /\ UNCHANGED breaks

SettingsStep ==
  /\ SettingsCall \/ SettingsAct
  /\ dirty' = IF Shown("settings") THEN isDirty' ELSE dirty
  /\ UNCHANGED <<admin, screen, tab, asked, path, pendingTab, savingModal, storageVars, aliasVars>>

Room == Cardinality(tasks) + Cardinality(ops) < MaxCalls

StorageStep ==
  /\ \/ \E t \in tasks :
          \/ \E o \in {"ok", "denied", "failed"} : ServeTask(t, o)
          \/ AuditUnread(t)
     \/ /\ UNCHANGED breaks
        /\ \/ Room /\ (handleSaveRetention \/ handlePruneNow \/ handleClearAllAudit)
           \/ Room /\ \E a \in Analyses : handleDeleteAuditItem(a)
           \/ OpenClearAll \/ CloseAnalysis \/ CloseClearAll
           \/ \E a \in Analyses : OpenAnalysis(a)
           \/ \E d \in Days : SetDays(d)
           \/ \E t \in tasks :
                StorageLoaded(t) \/ RetentionSaved(t) \/ Pruned(t) \/ AnalysisDeleted(t)
                \/ AuditCleared(t)
  /\ UNCHANGED <<admin, cookie, screen, tab, asked, notice, settingsVars, aliasVars, appVars>>

AliasStep ==
  /\ \/ \E o \in ops, out \in {"ok", "denied", "failed"} : ServeAlias(o, out) \/ ServeList(o, out)
     \/ /\ UNCHANGED breaks
        /\ \/ Room /\ (handleSaveAlias \/ \E i \in Ips : handleDelete(i))
           \/ handleCancelEdit
           \/ \E i \in Ips : handleEdit(i)
           \/ \E i \in Ips \cup {""} : TypeIp(i)
           \/ \E n \in Names \cup {""} : TypeAlias(n)
           \/ \E o \in ops : AliasSaved(o) \/ AliasDeleted(o) \/ AliasesListed(o)
  /\ UNCHANGED <<admin, cookie, screen, tab, asked, notice, settingsVars, storageVars, appVars>>

AppStep ==
  \/ TabPressed \/ \E t \in Tabs : handlePopState(t)
  \/ \E i \in Ips : handleAddAliasFromLog(i)
  \/ KeepEditing \/ DiscardAndLeave \/ SaveAndContinue
  \/ \E s \in saves : ModalSaveReturns(s)
  \/ handleUnauthorized \/ SessionStep \/ Restart \/ SignOutTimer

Next == SettingsStep \/ StorageStep \/ AliasStep \/ AppStep

Spec == Init /\ [][Next]_vars

-----------------------------------------------------------------------------
\* The address bar names the panel, whatever the order of clicks, Back and Forward,
\* the dialog's answers and a save that navigates late (App.tsx:69-82, 110-120,
\* 205-211, 246-251, 271-275).
PathFollowsTab == path = tab

\* What the operator typed in the settings while nothing could overwrite it stays on
\* the screen until he saves it, discards it, reloads the page or is signed out
\* (App.tsx:72, 111, 267; SettingsPanel.tsx:69-79, 254-263).
EditsSurvive == draft.quiet => Shown("settings") /\ form = draft.form

\* CHANGELOG.md:21: "Confirmation prompt when navigating away from Settings with
\* unsaved changes".  The operator leaves edits only by answering the prompt.
EditsGuarded == draft # NoDraft => Shown("settings")

=============================================================================
