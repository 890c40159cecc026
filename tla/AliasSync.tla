------------------------------- MODULE AliasSync -------------------------------
(***************************************************************************)
(* Host aliases of one address: the requests of backend/app/api/aliases.py *)
(* that change the alias and relabel the stored logs, the AliasCache of    *)
(* backend/app/collectors/syslog.py with its refresh loop, and the log     *)
(* entries that are labelled from the cache and stored later.              *)
(*                                                                         *)
(* Requests and loads run in worker threads; SQLite serialises their       *)
(* transactions, and each transaction is a step.                           *)
(***************************************************************************)
EXTENDS Integers, Sequences, FiniteSets, FiniteSetsExt

CONSTANTS
  Ip,           \* the address: the label when it has no alias
  Aliases,      \* the aliases requests give it
  None,         \* no label
  Requests,     \* POST and DELETE requests
  Refresh,      \* the refresh loop of the cache
  BatchSize,    \* rows relabelled in one transaction
  Overlapping,  \* a request may start before another one has ended
  MaxFailures,  \* bound of the model: loads that fail
  MaxEntries    \* bound of the model: log entries

Loaders == Requests \cup {Refresh}
Labels == Aliases \cup {Ip}

ASSUME AliasAssumption ==
  /\ Ip \notin Aliases /\ None \notin Labels \cup Requests /\ Refresh \notin Requests
  /\ BatchSize \in Nat \ {0}
  /\ {MaxFailures, MaxEntries} \subseteq Nat
  /\ Overlapping \in BOOLEAN

VARIABLES
  alias,     \* host_aliases: the label of the address (Ip: no row)
  rows,      \* logs: the label of each row
  cache,     \* _aliases: the label the cache gives
  queued,    \* labels of the entries between resolve() and their insert
  pc,        \* progress of each request, and of the refresh loop
  target,    \* the label a request gives
  seen,      \* the rows there were when it changed the alias
  loaded,    \* what a load read
  latest,    \* the request that changed the alias last
  failures

vars == <<alias, rows, cache, queued, pc, target, seen, loaded, latest, failures>>

Init ==
  /\ alias \in Labels /\ cache = alias
  /\ rows = <<>> /\ queued = <<>>
  /\ pc = [p \in Loaders |-> "idle"]
  /\ target = [r \in Requests |-> Ip]
  /\ seen = [r \in Requests |-> 0]
  /\ loaded = [p \in Loaders |-> Ip]
  /\ latest = None
  /\ failures = 0

GoTo(p, label) == pc' = [pc EXCEPT ![p] = label]

-----------------------------------------------------------------------------
\* Requests

\* The first transaction of a request writes or deletes the alias.
Change(r, label) ==
  /\ pc[r] = "idle"
  /\ Overlapping \/ \A q \in Requests : pc[q] \in {"idle", "done"}
  /\ alias' = label
  /\ latest' = r
  /\ seen' = [seen EXCEPT ![r] = Len(rows)]
  /\ GoTo(r, "update")
  /\ UNCHANGED <<rows, cache, queued, loaded, failures>>

\* create_or_update_alias
Upsert(r, a) ==
  /\ Change(r, a)
  /\ target' = [target EXCEPT ![r] = a]

\* delete_alias labels the logs with the address again.
Reverted == Ip

\* delete_alias; without an alias to delete it ends with status 404.
Delete(r) ==
  \/ /\ alias # Ip
     /\ Change(r, Ip)
     /\ target' = [target EXCEPT ![r] = Reverted]
  \/ /\ alias = Ip /\ pc[r] = "idle"
     /\ GoTo(r, "done")
     /\ UNCHANGED <<alias, rows, cache, queued, target, seen, loaded, latest,
                    failures>>

\* Mutant: a full batch is taken for the last one.
LastBatchOrFull(n) == n <= BatchSize

LastBatch(n) == n < BatchSize

\* A transaction of _batch_update_log_aliases: some BatchSize rows with
\* another label, or all that are left.
UpdateBatch(r) ==
  /\ pc[r] = "update"
  /\ LET others == {i \in DOMAIN rows : rows[i] # target[r]}
         n == IF Cardinality(others) < BatchSize THEN Cardinality(others)
              ELSE BatchSize
     IN  \E batch \in kSubset(n, others) :
           /\ rows' = [i \in DOMAIN rows |->
                         IF i \in batch THEN target[r] ELSE rows[i]]
           /\ GoTo(r, IF LastBatch(n) THEN "load" ELSE "update")
  /\ UNCHANGED <<alias, cache, queued, target, seen, loaded, latest, failures>>

-----------------------------------------------------------------------------
\* AliasCache.load_aliases, by reload_active_alias_caches at the end of a
\* request and by the refresh loop

Read(p) ==
  /\ pc[p] = (IF p = Refresh THEN "idle" ELSE "load")
  /\ loaded' = [loaded EXCEPT ![p] = alias]
  /\ GoTo(p, "loaded")
  /\ UNCHANGED <<alias, rows, cache, queued, target, seen, latest, failures>>

\* Mutant: the refresh loop ends with the first error.
NextAfterLoad(p) == "done"

AfterLoad(p) == IF p = Refresh THEN "idle" ELSE "done"

\* An OperationalError leaves the new map empty, and the cache takes it over;
\* after any other error the cache stays.
ReadFails(p) ==
  /\ pc[p] = (IF p = Refresh THEN "idle" ELSE "load")
  /\ failures < MaxFailures /\ failures' = failures + 1
  /\ \/ loaded' = [loaded EXCEPT ![p] = Ip] /\ GoTo(p, "loaded")
     \/ GoTo(p, AfterLoad(p)) /\ UNCHANGED loaded
  /\ UNCHANGED <<alias, rows, cache, queued, target, seen, latest>>

TakeOver(p) ==
  /\ pc[p] = "loaded"
  /\ cache' = loaded[p]
  /\ GoTo(p, AfterLoad(p))
  /\ UNCHANGED <<alias, rows, queued, target, seen, loaded, latest, failures>>

-----------------------------------------------------------------------------
\* Log entries

\* A collector labels an entry: it waits in the assembler, the queue, a batch.
Resolve ==
  /\ Len(rows) + Len(queued) < MaxEntries
  /\ queued' = Append(queued, cache)
  /\ UNCHANGED <<alias, rows, cache, pc, target, seen, loaded, latest, failures>>

Store ==
  /\ queued # <<>>
  /\ rows' = Append(rows, Head(queued))
  /\ queued' = Tail(queued)
  /\ UNCHANGED <<alias, cache, pc, target, seen, loaded, latest, failures>>

-----------------------------------------------------------------------------

Load(p) == Read(p) \/ ReadFails(p) \/ TakeOver(p)

Next ==
  \/ \E r \in Requests : \/ \E a \in Aliases : Upsert(r, a)
                         \/ Delete(r)
                         \/ UpdateBatch(r)
  \/ \E p \in Loaders : Load(p)
  \/ Resolve \/ Store

Spec == Init /\ [][Next]_vars

\* Worker threads end and the refresh loop goes on; requests may never come.
FairSpec ==
  /\ Spec
  /\ \A r \in Requests : WF_vars(UpdateBatch(r))
  /\ \A p \in Loaders : WF_vars(Load(p))

-----------------------------------------------------------------------------

\* Type invariant: every log has a label, and so does the cache.
TypeOK ==
  /\ alias \in Labels /\ cache \in Labels
  /\ rows \in Seq(Labels) /\ queued \in Seq(Labels)
  /\ pc \in [Loaders -> {"idle", "update", "load", "loaded", "done"}]
  /\ target \in [Requests -> Labels]
  /\ seen \in [Requests -> 0 .. MaxEntries]
  /\ loaded \in [Loaders -> Labels]
  /\ latest \in Requests \cup {None}
  /\ failures \in 0 .. MaxFailures

\* "Create or update an IP-to-hostname alias mapping, updating existing logs
\* retroactively": once no request relabels rows any more, the rows that
\* existed when the alias was last changed carry it, whatever was inserted
\* between the batches.
ExistingLogsFollow ==
  latest # None /\ (\A r \in Requests : pc[r] # "update")
    => \A i \in 1 .. seen[latest] : rows[i] = alias

\* Whatever loads fail or overtake each other, the cache follows the alias in
\* the end.
CacheCatchesUp ==
  \A label \in Labels : <>[](alias = label) => <>[](cache = label)

=============================================================================
