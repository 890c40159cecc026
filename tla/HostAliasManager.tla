---------------------------- MODULE HostAliasManager ----------------------------
(***************************************************************************)
(* frontend/src/components/aliases/HostAliasManager.tsx: the list of host  *)
(* aliases and the form that adds and edits one.  App hands it the address *)
(* of a row whose "Add alias" was pressed, addAliasIp, until an alias is   *)
(* saved or removed.  What the server does with an alias is in AliasSync;  *)
(* notes travel with the alias and are left out.                           *)
(***************************************************************************)
EXTENDS Session, FiniteSets

CONSTANTS
  Ips, Names

ASSUME AliasFormAssumption == "" \notin Ips \cup Names

VARIABLES
  table,         \* server: the aliases, "" for an address that has none
  aliases,       \* the list shown
  listLoading,   \* isLoading
  ip, alias, editingIp,
  ops,           \* calls of loadAliases, handleSave and handleDelete that have not
                 \* returned; the last two end by reading the list
  isDeletingIp,
  addAliasIp,    \* App: the address the form is opened with
  fresh          \* history: the list shown was read with no other list and no
                 \* forgotten change under way, and no change failed since

aliasForm == <<ip, alias, editingIp>>
aliasVars == <<table, aliases, listLoading, aliasForm, ops, isDeletingIp, addAliasIp, fresh>>

NoAliases == [i \in Ips |-> ""]
Listing == {"listing", "listed", "unlisted"}

AliasTypeOK ==
  /\ {table, aliases} \subseteq [Ips -> Names \cup {""}]
  /\ \A o \in ops :
       /\ o.kind \in {"mount", "save", "delete"}
       /\ o.step \in Listing \cup {"sent", "ok", "failed", "denied"}
       /\ {o.alone, o.live} \subseteq BOOLEAN
  /\ {ip, editingIp, isDeletingIp, addAliasIp} \subseteq Ips \cup {""}
  /\ alias \in Names \cup {""}
  /\ {listLoading, fresh} \subseteq BOOLEAN

\* The calls whose list will replace the list shown.
Lists == {o \in ops : o.live /\ o.step \in Listing}
isSaving == \E o \in ops : o.live /\ o.kind = "save"

Op(kind, step, i, n) ==
  [kind |-> kind, step |-> step, ip |-> i, alias |-> n, list |-> NoAliases,
   alone |-> TRUE, live |-> TRUE,
   id |-> CHOOSE k \in 1 .. Cardinality(ops) + 1 : \A o \in ops : o.id # k]

-----------------------------------------------------------------------------
\* Mutated forms of the definitions below.

\* The list is not read again after a removal.
DeletedUnlisted(d) ==
  /\ d \in ops /\ d.kind = "delete" /\ d.step \in {"ok", "failed"}
  /\ ops' = ops \ {d}
  /\ isDeletingIp' = IF d.live THEN "" ELSE isDeletingIp
  /\ UNCHANGED <<table, aliases, listLoading, aliasForm, addAliasIp, fresh>>
-----------------------------------------------------------------------------
\* Mounting, and the form.

\* A list that is not the only one under way may be older than the one it replaces.
AliasMount(open, O) ==
  /\ aliases' = NoAliases /\ isDeletingIp' = "" /\ fresh' = FALSE
  /\ ip' = (IF open THEN addAliasIp' ELSE "") /\ alias' = "" /\ editingIp' = ""
  /\ listLoading' = open
  /\ ops' = {[o EXCEPT !.live = FALSE] : o \in {q \in O : q.kind # "mount"}} \cup
       IF open THEN {[Op("mount", "listing", "", "") EXCEPT !.alone = (O = {})]} ELSE {}

\* What becomes of the other calls when a list may no longer be the latest.
Doubted(others) ==
  {IF q \in Lists THEN [q EXCEPT !.alone = FALSE] ELSE q : q \in others}

\* loadAliases, called by o.
LoadAliases(o) ==
  /\ ops' = Doubted(ops \ {o}) \cup {[o EXCEPT !.step = "listing",
                                          !.alone = Lists = {} /\ \A q \in ops : q.live]}
  /\ listLoading' = (listLoading \/ o.live)

\* The effect that follows addAliasIp and the list.
FormFor(i, list) ==
  IF i = "" THEN UNCHANGED aliasForm
  ELSE /\ ip' = i
       /\ IF list[i] # "" THEN editingIp' = i /\ alias' = list[i]
          ELSE UNCHANGED <<editingIp, alias>>

TypeIp(i) ==
  /\ Shown("aliases") /\ editingIp = "" /\ ip' = i /\ i # ip
  /\ UNCHANGED <<table, aliases, listLoading, alias, editingIp, ops, isDeletingIp,
                 addAliasIp, fresh>>

TypeAlias(n) ==
  /\ Shown("aliases") /\ alias' = n /\ n # alias
  /\ UNCHANGED <<table, aliases, listLoading, ip, editingIp, ops, isDeletingIp,
                 addAliasIp, fresh>>

handleEdit(i) ==
  /\ Shown("aliases") /\ ~listLoading /\ aliases[i] # ""
  /\ editingIp' = i /\ ip' = i /\ alias' = aliases[i]
  /\ UNCHANGED <<table, aliases, listLoading, ops, isDeletingIp, addAliasIp, fresh>>

handleCancelEdit ==
  /\ Shown("aliases") /\ editingIp # ""
  /\ editingIp' = "" /\ ip' = "" /\ alias' = ""
  /\ UNCHANGED <<table, aliases, listLoading, ops, isDeletingIp, addAliasIp, fresh>>

handleSaveAlias ==
  /\ Shown("aliases") /\ ~isSaving /\ ip # "" /\ alias # ""
  /\ ops' = ops \cup {Op("save", "sent", ip, alias)}
  /\ UNCHANGED <<table, aliases, listLoading, aliasForm, isDeletingIp, addAliasIp, fresh>>

\* The delete button is disabled for the address in isDeletingIp only.
handleDelete(i) ==
  /\ Shown("aliases") /\ ~listLoading /\ aliases[i] # "" /\ isDeletingIp # i
  /\ ops' = ops \cup {Op("delete", "sent", i, "")}
  /\ isDeletingIp' = i
  /\ UNCHANGED <<table, aliases, listLoading, aliasForm, addAliasIp, fresh>>

-----------------------------------------------------------------------------
\* The server.  A call that fails may have been carried out; removing an alias that
\* is gone is an error, 404.

ServeAlias(o, out) ==
  /\ o \in ops /\ o.step = "sent"
  /\ \/ Outcome(out) /\ (out = "ok" => o.kind = "save" \/ table[o.ip] # "")
     \/ out = "failed" /\ cookie /\ o.kind = "delete" /\ table[o.ip] = "" /\ UNCHANGED breaks
  /\ \/ out # "denied" /\ cookie /\ table' = [table EXCEPT ![o.ip] = o.alias]
     \/ out # "ok" /\ UNCHANGED table
  /\ ops' = (ops \ {o}) \cup {[o EXCEPT !.step = out]}
  /\ UNCHANGED <<aliases, listLoading, aliasForm, isDeletingIp, addAliasIp, fresh>>

ServeList(o, out) ==
  /\ o \in ops /\ o.step = "listing"
  /\ out # "denied" /\ Outcome(out)
  /\ ops' = (ops \ {o}) \cup
       {[o EXCEPT !.step = IF out = "ok" THEN "listed" ELSE "unlisted",
                  !.list = IF out = "ok" THEN table ELSE @]}
  /\ UNCHANGED <<table, aliases, listLoading, aliasForm, isDeletingIp, addAliasIp, fresh>>

-----------------------------------------------------------------------------
\* The answers.

AliasSaved(o) ==
  /\ o \in ops /\ o.kind = "save" /\ o.step \in {"ok", "failed"}
  /\ IF o.step = "ok"
     THEN /\ LoadAliases(o) /\ UNCHANGED fresh
          /\ IF o.live THEN ip' = "" /\ alias' = "" /\ editingIp' = ""
             ELSE UNCHANGED aliasForm
     ELSE /\ ops' = Doubted(ops \ {o}) /\ fresh' = FALSE
          /\ UNCHANGED <<listLoading, aliasForm>>
  /\ UNCHANGED <<table, aliases, isDeletingIp, addAliasIp>>

AliasDeleted(o) ==
  /\ o \in ops /\ o.kind = "delete" /\ o.step \in {"ok", "failed"}
  /\ IF o.step = "ok"
     THEN LoadAliases(o) /\ UNCHANGED <<isDeletingIp, fresh>>
     ELSE /\ ops' = Doubted(ops \ {o}) /\ fresh' = FALSE
          /\ isDeletingIp' = IF o.live THEN "" ELSE isDeletingIp
          /\ UNCHANGED listLoading
  /\ UNCHANGED <<table, aliases, aliasForm, addAliasIp>>

\* The list arrives, and the call that asked for it returns: an alias that was saved
\* or removed takes the address from App (onAliasSaved) even when the list failed.
\* The effect on the new list runs before that.
AliasesListed(o) ==
  /\ o \in ops /\ o.step \in {"listed", "unlisted"}
  /\ ops' = ops \ {o}
  /\ IF o.live
     THEN /\ listLoading' = FALSE
          /\ IF o.step = "listed"
             THEN aliases' = o.list /\ fresh' = o.alone /\ FormFor(addAliasIp, o.list)
             ELSE fresh' = FALSE /\ UNCHANGED <<aliases, aliasForm>>
          /\ isDeletingIp' = IF o.kind = "delete" THEN "" ELSE isDeletingIp
     ELSE UNCHANGED <<listLoading, aliases, fresh, aliasForm, isDeletingIp>>
  /\ addAliasIp' = IF o.kind = "mount" THEN addAliasIp ELSE ""
  /\ UNCHANGED table

-----------------------------------------------------------------------------
\* When nothing is under way, the list shown is the server's, unless a list or a
\* change of another visit overlapped the last list, or a change failed
\* (HostAliasManager.tsx:39-50, 72, 102): whatever list arrives last is shown.
AliasesCurrent == (fresh /\ ops = {}) => aliases = table

=============================================================================
