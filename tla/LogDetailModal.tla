----------------------------- MODULE LogDetailModal -----------------------------
(***************************************************************************)
(* frontend/src/components/logs/LogDetailModal.tsx: the drawer with the    *)
(* detail of a row and the rows around it, which it hands to the AI modal. *)
(* It stays mounted while it is closed: what it read last, and whether the *)
(* context is shown, are there when the next row is opened.                *)
(***************************************************************************)
EXTENDS Naturals, FiniteSets

CONSTANTS
  Rows,       \* the rows that can be opened
  HostOf,     \* source_alias of a row
  AppOf,      \* app_name of a row
  MaxReads    \* bound of the model: reads of a context

NoRow == 0

ASSUME DrawerAssumption ==
  /\ Rows \subseteq DOMAIN HostOf \cap DOMAIN AppOf
  /\ NoRow \notin Rows /\ MaxReads \in Nat

VARIABLES
  detail,            \* activeLogDetail
  showContext, sameAppOnly,
  contextLogs,
  isLoadingContext,
  contextReads,      \* calls of loadContext that have not returned
  reads,
  around             \* history: the context was read with no other read under way, and
                     \* no read failed since

drawerVars == <<detail, showContext, sameAppOnly, contextLogs, isLoadingContext,
                contextReads, reads, around>>

DrawerTypeOK ==
  /\ detail \in Rows \cup {NoRow} /\ contextLogs \subseteq Rows
  /\ {showContext, sameAppOnly, isLoadingContext, around} \subseteq BOOLEAN
  /\ \A r \in contextReads : r.row \in Rows /\ {r.same, r.alone} \subseteq BOOLEAN
  /\ reads \in 0 .. MaxReads

DrawerInit ==
  /\ detail = NoRow /\ showContext = FALSE /\ sameAppOnly = FALSE
  /\ contextLogs = {} /\ isLoadingContext = FALSE /\ contextReads = {}
  /\ reads = 0 /\ around = FALSE

-----------------------------------------------------------------------------
\* Mutated forms of the definitions below.

\* The context is not read again when the box is ticked.
LoadOnce(row, show, same) ==
  IF row # NoRow /\ show /\ same = sameAppOnly
  THEN /\ reads < MaxReads /\ reads' = reads + 1
       /\ contextReads' =
            {[r EXCEPT !.alone = FALSE] : r \in contextReads} \cup
            {[id |-> reads', row |-> row, same |-> same, alone |-> contextReads = {}]}
       /\ isLoadingContext' = TRUE
  ELSE UNCHANGED <<reads, contextReads, isLoadingContext>>
-----------------------------------------------------------------------------

\* The effect after the row, showContext or sameAppOnly changed.
loadContext(row, show, same) ==
  IF row # NoRow /\ show
  THEN /\ reads < MaxReads /\ reads' = reads + 1
       /\ contextReads' =
            {[r EXCEPT !.alone = FALSE] : r \in contextReads} \cup
            {[id |-> reads', row |-> row, same |-> same, alone |-> contextReads = {}]}
       /\ isLoadingContext' = TRUE
  ELSE UNCHANGED <<reads, contextReads, isLoadingContext>>

OpenDetail(row) ==
  /\ detail = NoRow
  /\ detail' = row
  /\ loadContext(row, showContext, sameAppOnly)
  /\ UNCHANGED <<showContext, sameAppOnly, contextLogs, around>>

CloseDetail ==
  /\ detail # NoRow
  /\ detail' = NoRow
  /\ UNCHANGED <<showContext, sameAppOnly, contextLogs, isLoadingContext, contextReads,
                 reads, around>>

ToggleContext ==
  /\ detail # NoRow
  /\ showContext' = ~showContext
  /\ loadContext(detail, ~showContext, sameAppOnly)
  /\ UNCHANGED <<detail, sameAppOnly, contextLogs, around>>

ToggleSameApp ==
  /\ detail # NoRow /\ showContext
  /\ sameAppOnly' = ~sameAppOnly
  /\ loadContext(detail, showContext, ~sameAppOnly)
  /\ UNCHANGED <<detail, showContext, contextLogs, around>>

\* The server: the rows around a row are of its host, and of its app if that is asked.
get_log_context(row, same) ==
  {r \in Rows : HostOf[r] = HostOf[row] /\ (same => AppOf[r] = AppOf[row])}

\* loadContext does not ask for which row the answer is.
ContextRead(r, ok) ==
  /\ r \in contextReads
  /\ contextReads' = contextReads \ {r}
  /\ contextLogs' = IF ok THEN get_log_context(r.row, r.same) ELSE contextLogs
  /\ around' = (ok /\ r.alone)
  /\ isLoadingContext' = FALSE
  /\ UNCHANGED <<detail, showContext, sameAppOnly, reads>>

targetAndContextLogs ==
  {detail} \cup {r \in contextLogs : HostOf[r] = HostOf[detail]}

\* "Inspect Target + Context" is on the screen.
Inspectable ==
  detail # NoRow /\ showContext /\ contextLogs # {} /\ ~isLoadingContext

-----------------------------------------------------------------------------
\* The rows handed over with a row are the ones around it, of its host, unless reads
\* overlapped or one failed (LogDetailModal.tsx:39-71, 229; LogDetailModal.test.tsx:188,
\* 228): the context of the row opened before, still shown, is never taken for its own.
HandsItsContext ==
  (Inspectable /\ around) =>
    targetAndContextLogs = get_log_context(detail, sameAppOnly)

=============================================================================
