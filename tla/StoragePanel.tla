------------------------------ MODULE StoragePanel ------------------------------
(***************************************************************************)
(* frontend/src/components/storage/StoragePanel.tsx and RetentionSlider.tsx:*)
(* the retention policy and the list of past AI analyses (the audit).  One *)
(* load reads both; analyses are deleted one by one or all at once, while  *)
(* loads and other deletions are under way.                                *)
(***************************************************************************)
EXTENDS Session, FiniteSets

CONSTANTS
  Analyses,        \* the analyses the server keeps at the start
  Days,            \* the retentions the operator may choose
  FirstDays,       \* the retention on the server at the start
  DefaultDays,     \* the retention shown before one is read: 14
  DefaultMax,      \* the longest retention shown before one is read: 30
  MaxRetention,    \* max_retention_days of the server
  Overridden       \* MAX_RETENTION_DAYS is set in the server's environment

ASSUME StorageAssumption ==
  /\ {MaxRetention, DefaultDays, DefaultMax} \subseteq Nat \ {0}
  /\ Days \subseteq Nat \ {0} /\ DefaultDays <= DefaultMax
  /\ FirstDays \in 1 .. MaxRetention /\ (Overridden => FirstDays = MaxRetention)
  /\ Overridden \in BOOLEAN

NoAnalysis == "none"
Unread == 0

VARIABLES
  audit,         \* server: the analyses it keeps
  retention,     \* server: retention_days
  loaded,        \* storageMetrics has been read
  storageLoading,
  auditLogs,     \* the list shown
  retentionDays, maxDays, locked,  \* what loads and saves brought of the retention
  days,          \* the slider
  selected,      \* selectedAuditItem
  clearModal,    \* showClearAllAuditModal
  deletingId,    \* isDeletingAuditId
  tasks,         \* calls under way
  current        \* history: list and retention were read by a load that nothing
                 \* overlapped, and no change failed since

shown == <<loaded, auditLogs, retentionDays, maxDays, locked>>
dialog == <<selected, clearModal>>
storageVars == <<audit, retention, storageLoading, shown, days, dialog, deletingId,
                 tasks, current>>

Kinds == {"load", "prune", "retention", "delete", "clear"}
Changes == {"retention", "delete", "clear"}

StorageTypeOK ==
  /\ audit \subseteq Analyses /\ auditLogs \subseteq Analyses
  /\ {retention, retentionDays, days} \subseteq Nat \ {0} /\ maxDays \in Nat
  /\ {selected, deletingId} \subseteq Analyses \cup {NoAnalysis}
  /\ {loaded, storageLoading, locked, clearModal, current} \subseteq BOOLEAN
  /\ \A t \in tasks : t.kind \in Kinds /\ t.step \in {"sent", "ok", "failed", "denied"}

\* The slider's max and clampDays; a choice is at least a day.
SliderMax(max) == IF max = Unread THEN DefaultMax ELSE max
clampDays(d, max) == IF d > SliderMax(max) THEN SliderMax(max) ELSE d

UnderWay(kind) == \E t \in tasks : t.live /\ t.kind = kind

\* Past the loading screen, and no dialog over the panel.
Panel == Shown("storage") /\ (loaded \/ ~storageLoading)
Bare == Panel /\ selected = NoAnalysis /\ ~clearModal

Task(kind, item, d) ==
  [kind |-> kind, item |-> item, days |-> d, audit |-> {}, max |-> Unread,
   opened |-> kind = "delete" /\ selected = item, step |-> "sent", live |-> TRUE, alone |-> TRUE,
   id |-> CHOOSE k \in 1 .. Cardinality(tasks) + 1 : \A t \in tasks : t.id # k]

\* A load that something overlaps may bring an older answer.
Overlapped(t, others) ==
  IF t.kind = "prune" THEN others
  ELSE {IF u.kind = "load" THEN [u EXCEPT !.alone = FALSE] ELSE u : u \in others}
Begin(t, others) ==
  tasks' = Overlapped(t, others) \cup
             {[t EXCEPT !.alone = t.kind = "load" /\ \A u \in others : u.kind = "prune"]}

-----------------------------------------------------------------------------
\* Mutated forms of the definitions below.

\* The list is updated only for the analysis that was open.
UnlistedWhenOpen(t) ==
  /\ t \in tasks /\ t.kind = "delete" /\ t.step \in {"ok", "failed"}
  /\ tasks' = tasks \ {t}
  /\ IF t.step = "ok"
     THEN /\ auditLogs' = IF t.opened THEN auditLogs \ {t.item} ELSE auditLogs
          /\ selected' = IF t.opened THEN NoAnalysis ELSE selected
          /\ UNCHANGED current
     ELSE current' = FALSE /\ UNCHANGED <<auditLogs, selected>>
  /\ deletingId' = NoAnalysis
  /\ UNCHANGED <<audit, retention, storageLoading, loaded, retentionDays, maxDays, locked,
                 days, clearModal>>
-----------------------------------------------------------------------------
\* Mounting, and the server.

StorageMount(open, T) ==
  /\ loaded' = FALSE /\ auditLogs' = {} /\ retentionDays' = DefaultDays
  /\ maxDays' = Unread /\ locked' = FALSE /\ days' = DefaultDays
  /\ selected' = NoAnalysis /\ clearModal' = FALSE /\ deletingId' = NoAnalysis
  /\ storageLoading' = open /\ current' = FALSE
  /\ LET left == {[t EXCEPT !.live = FALSE] :
                    t \in {u \in T : u.kind \in Changes /\ u.step = "sent"}}
     IN  IF open
         THEN Begin([Task("load", NoAnalysis, 1) EXCEPT !.id = 0], left)
         ELSE tasks' = left

loadAllData(others) ==
  /\ Begin(Task("load", NoAnalysis, 1), others)
  /\ storageLoading' = TRUE

\* What the server does with a call.  A retention out of its range and an analysis
\* that is gone are errors; a call that fails may have been carried out.
Refused(t) ==
  \/ t.kind = "retention" /\ t.days > MaxRetention
  \/ t.kind = "delete" /\ t.item \notin audit

Carries(t) ==
  /\ retention' = IF t.kind = "retention" THEN t.days ELSE retention
  /\ audit' = CASE t.kind = "delete" -> audit \ {t.item}
                [] t.kind = "clear" -> {}
                [] OTHER -> audit

\* Three calls at once make a load; without the audit the list is empty.  Nothing waits
\* for the answer to a change whose panel is gone, except the handler of a refusal.
Reply(t, o) ==
  [t EXCEPT !.step = o,
            !.days = IF t.kind = "load" /\ o = "ok" THEN retention ELSE @,
            !.max = IF t.kind = "load" /\ o = "ok" THEN MaxRetention ELSE @,
            !.audit = IF t.kind = "load" /\ o = "ok" THEN audit ELSE @]

ServeTask(t, o) ==
  /\ t \in tasks /\ t.step = "sent"
  /\ \/ Outcome(o) /\ (o = "ok" => ~Refused(t))
     \/ o = "failed" /\ cookie /\ Refused(t) /\ UNCHANGED breaks
  /\ \/ o # "denied" /\ cookie /\ ~Refused(t) /\ Carries(t)
     \/ o # "ok" /\ UNCHANGED <<audit, retention>>
  /\ tasks' = (tasks \ {t}) \cup (IF t.live \/ o = "denied" THEN {Reply(t, o)} ELSE {})
  /\ UNCHANGED <<storageLoading, shown, days, dialog, deletingId, current>>

AuditUnread(t) ==
  /\ t \in tasks /\ t.kind = "load" /\ t.step = "ok" /\ t.audit # {} /\ breaks < MaxBreaks
  /\ breaks' = breaks + 1
  /\ tasks' = (tasks \ {t}) \cup {[t EXCEPT !.audit = {}, !.alone = FALSE]}
  /\ UNCHANGED <<audit, retention, storageLoading, shown, days, dialog, deletingId, current>>

-----------------------------------------------------------------------------
\* Loads and the retention.

\* The effect of the slider: it follows the retention it is given when that changes.
Follow(d, max) ==
  days' = IF d # retentionDays \/ SliderMax(max) # SliderMax(maxDays) THEN clampDays(d, max) ELSE days

StorageLoaded(t) ==
  /\ t \in tasks /\ t.kind = "load" /\ t.step \in {"ok", "failed"}
  /\ tasks' = tasks \ {t}
  /\ storageLoading' = FALSE
  /\ IF t.step = "ok"
     THEN /\ loaded' = TRUE /\ auditLogs' = t.audit /\ locked' = Overridden
          /\ retentionDays' = t.days /\ maxDays' = t.max
          /\ current' = t.alone
     ELSE UNCHANGED <<shown, current>>
  /\ IF loaded THEN Follow(retentionDays', maxDays')
     ELSE days' = clampDays(retentionDays', maxDays')   \* mounted after the loading screen
  /\ UNCHANGED <<audit, retention, dialog, deletingId>>

SetDays(d) ==
  /\ Bare /\ ~locked /\ d # days /\ d <= SliderMax(maxDays)
  /\ days' = d
  /\ UNCHANGED <<audit, retention, storageLoading, shown, dialog, deletingId, tasks, current>>

handleSaveRetention ==
  /\ Bare /\ ~UnderWay("retention") /\ days # retentionDays /\ ~locked
  /\ Begin(Task("retention", NoAnalysis, days), tasks)
  /\ UNCHANGED <<audit, retention, storageLoading, shown, days, dialog, deletingId, current>>

RetentionSaved(t) ==
  /\ t \in tasks /\ t.kind = "retention" /\ t.step \in {"ok", "failed"}
  /\ tasks' = tasks \ {t}
  /\ retentionDays' = IF t.step = "ok" THEN t.days ELSE retentionDays
  /\ Follow(retentionDays', maxDays)
  /\ current' = (current /\ t.step = "ok")
  /\ UNCHANGED <<audit, retention, storageLoading, loaded, auditLogs, maxDays, locked,
                 dialog, deletingId>>

handlePruneNow ==
  /\ Bare /\ ~UnderWay("prune")
  /\ Begin(Task("prune", NoAnalysis, 1), tasks)
  /\ UNCHANGED <<audit, retention, storageLoading, shown, days, dialog, deletingId, current>>

Pruned(t) ==
  /\ t \in tasks /\ t.kind = "prune" /\ t.step \in {"ok", "failed"}
  /\ IF t.step = "ok" THEN loadAllData(tasks \ {t})
     ELSE tasks' = tasks \ {t} /\ UNCHANGED storageLoading
  /\ UNCHANGED <<audit, retention, shown, days, dialog, deletingId, current>>

-----------------------------------------------------------------------------
\* The audit.

OpenAnalysis(a) ==
  /\ Bare /\ a \in auditLogs
  /\ selected' = a
  /\ UNCHANGED <<audit, retention, storageLoading, shown, days, clearModal,
                 deletingId, tasks, current>>

CloseAnalysis ==
  /\ Panel /\ selected # NoAnalysis
  /\ selected' = NoAnalysis
  /\ UNCHANGED <<audit, retention, storageLoading, shown, days, clearModal,
                 deletingId, tasks, current>>

\* From the list or from the dialog; only the button of the analysis in
\* isDeletingAuditId is disabled.
handleDeleteAuditItem(a) ==
  /\ \/ Bare /\ a \in auditLogs
     \/ Panel /\ selected = a
  /\ deletingId # a
  /\ deletingId' = a
  /\ Begin(Task("delete", a, 1), tasks)
  /\ UNCHANGED <<audit, retention, storageLoading, shown, days, selected, clearModal, current>>

\* The dialog is closed if the analysis was open in it when the button was pressed.
AnalysisDeleted(t) ==
  /\ t \in tasks /\ t.kind = "delete" /\ t.step \in {"ok", "failed"}
  /\ tasks' = tasks \ {t}
  /\ IF t.step = "ok"
     THEN /\ auditLogs' = auditLogs \ {t.item}
          /\ selected' = IF t.opened THEN NoAnalysis ELSE selected
          /\ UNCHANGED current
     ELSE current' = FALSE /\ UNCHANGED <<auditLogs, selected>>
  /\ deletingId' = NoAnalysis
  /\ UNCHANGED <<audit, retention, storageLoading, loaded, retentionDays, maxDays, locked,
                 days, clearModal>>

OpenClearAll ==
  /\ Bare /\ auditLogs # {}
  /\ clearModal' = TRUE
  /\ UNCHANGED <<audit, retention, storageLoading, shown, days, selected, deletingId, tasks, current>>

CloseClearAll ==
  /\ Panel /\ clearModal
  /\ clearModal' = FALSE
  /\ UNCHANGED <<audit, retention, storageLoading, shown, days, selected, deletingId, tasks, current>>

handleClearAllAudit ==
  /\ Panel /\ clearModal /\ ~UnderWay("clear")
  /\ Begin(Task("clear", NoAnalysis, 1), tasks)
  /\ UNCHANGED <<audit, retention, storageLoading, shown, days, selected, clearModal, deletingId, current>>

AuditCleared(t) ==
  /\ t \in tasks /\ t.kind = "clear" /\ t.step \in {"ok", "failed"}
  /\ tasks' = tasks \ {t}
  /\ IF t.step = "ok"
     THEN /\ auditLogs' = {} /\ selected' = NoAnalysis /\ clearModal' = FALSE
          /\ UNCHANGED current
     ELSE /\ current' = FALSE
          /\ UNCHANGED <<auditLogs, selected, clearModal>>
  /\ UNCHANGED <<audit, retention, storageLoading, loaded, retentionDays, maxDays, locked,
                 days, deletingId>>

-----------------------------------------------------------------------------
\* When nothing is under way, the list and the retention shown are the server's: a
\* deleted analysis does not come back, unless a change overlapped the load that was
\* answered last, or failed (StoragePanel.tsx:43-64, 70-73, 91, 107).
StorageCurrent ==
  (current /\ \A t \in tasks : t.kind = "prune") =>
    auditLogs = audit /\ retentionDays = retention

=============================================================================
