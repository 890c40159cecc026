---------------------------- MODULE QueueConsumer -----------------------------
(***************************************************************************)
(* The QueueConsumer of backend/app/core/pipeline.py, run under            *)
(* _supervise_worker of backend/app/main.py: the task that moves entries   *)
(* from the bounded queue into SQLite, and the calls of stop() that shut   *)
(* it down.                                                                *)
(*                                                                         *)
(* A coroutine runs alone between two awaits; pc names the await it is     *)
(* suspended at.  _insert_batch runs in a worker thread and commits or     *)
(* rolls back as a whole; every insert uses the one shared connection.     *)
(***************************************************************************)
EXTENDS Integers, Sequences, SequencesExt, FiniteSets

CONSTANTS
  Run,                 \* the supervised task of run()
  Stoppers,            \* calls of stop()
  Sentinel,            \* _QUEUE_SENTINEL
  NoOne,               \* nobody holds _drain_lock
  QueueMaxSize,        \* _QUEUE_MAXSIZE
  BatchMax,            \* 5000, the most entries in a batch
  MaxShutdownRetries,  \* max_shutdown_retries
  MaxEntries,          \* bound of the model: entries put
  MaxInsertFaults,     \* bound of the model: inserts that fail
  MaxConnectFaults,    \* bound of the model: connections that fail
  MaxCancels,          \* bound of the model: cancellations of the task
  ConnectMayFailForGood   \* no bound on the connections that fail

Coroutines == {Run} \cup Stoppers

ASSUME NamesAssumption ==
  /\ Run \notin Stoppers
  /\ NoOne \notin Coroutines
  /\ Sentinel \notin Nat

ASSUME SizesAssumption ==
  /\ QueueMaxSize \in Nat \ {0}
  /\ BatchMax \in Nat \ {0}
  /\ MaxShutdownRetries \in Nat \ {0}

ASSUME ModelBoundsAssumption ==
  /\ MaxEntries \in Nat
  /\ MaxInsertFaults \in Nat
  /\ MaxConnectFaults \in Nat
  /\ MaxCancels \in Nat
  /\ ConnectMayFailForGood \in BOOLEAN

VARIABLES
  queue,     \* _log_queue: entries, numbered as they are put, and sentinels
  put,       \* number of entries offered to the queue
  dropped,   \* entries the full queue refused, counted by _dropped_logs_total
  started, running, stopping, drainDone,   \* the flags of the same names
  lock,      \* holder of _drain_lock
  pc,        \* the await each coroutine is suspended at
  batch,     \* the batch each coroutine holds
  retries,   \* shutdown_retries of the flush in progress
  inserts,   \* inserts running in worker threads
  raising,   \* what run() will end with
  rows,      \* the logs table, in insertion order
  lost,      \* entries of discarded batches
  published, \* entries broadcast to the SSE subscribers, in order
  insertFaults, connectFaults, cancels     \* faults so far

flags == <<started, running, stopping, drainDone>>
faults == <<insertFaults, connectFaults, cancels>>
vars == <<queue, put, dropped, flags, lock, pc, batch, retries, inserts,
          raising, rows, lost, published, faults>>

IsEntry(x) == x # Sentinel

\* The entries among the first n items of s, for every n, and among them all.
EntriesAmong(s) ==
  LET upTo[n \in 0 .. Len(s)] ==
        IF n = 0 THEN <<>>
        ELSE IF IsEntry(s[n]) THEN Append(upTo[n - 1], s[n]) ELSE upTo[n - 1]
  IN  upTo
EntriesOf(s) == EntriesAmong(s)[Len(s)]

\* `not self._running or self._stopping`
ShuttingDown == ~ running \/ stopping

\* Mutant: the queue takes one item more.
HasRoomForMore == Len(queue) <= QueueMaxSize

\* put_nowait succeeds.
HasRoom == Len(queue) < QueueMaxSize

\* Mutant: the last shutdown retry is skipped.
OneRetryLess(p) == retries[p] + 2 < MaxShutdownRetries

\* Another failed insert of p during shutdown is still retried.
RetriesLeft(p) == retries[p] + 1 < MaxShutdownRetries

\* A connection fails; the count stops at its bound.
ConnectionFault ==
  \/ connectFaults < MaxConnectFaults /\ connectFaults' = connectFaults + 1
  \/ ConnectMayFailForGood /\ UNCHANGED connectFaults

GoTo(p, label) == pc' = [pc EXCEPT ![p] = label]

\* An insert in a worker thread: who awaits it, its batch, the cancellations
\* before it (which tell inserts of one batch apart), and whether another
\* thread rolled the shared connection back meanwhile.
Insert(by, b) == [by |-> by, batch |-> b, after |-> cancels, wiped |-> FALSE]

Init ==
  /\ queue = <<>> /\ put = 0 /\ dropped = {}
  /\ started = FALSE /\ running = FALSE
  /\ stopping = FALSE /\ drainDone = FALSE
  /\ lock = NoOne
  /\ pc = [p \in Coroutines |-> IF p = Run THEN "new" ELSE "idle"]
  /\ batch = [p \in Coroutines |-> <<>>]
  /\ retries = [p \in Coroutines |-> 0]
  /\ inserts = {}
  /\ raising = "nothing"
  /\ rows = <<>> /\ lost = {} /\ published = <<>>
  /\ insertFaults = 0 /\ connectFaults = 0 /\ cancels = 0

-----------------------------------------------------------------------------
\* Producers.

\* put_nowait by the assembler or a collector, until a stop() has made its
\* last check of the queue (the lifespan stops the collectors before it).
Put ==
  /\ put < MaxEntries
  /\ \A s \in Stoppers : pc[s] \notin {"close", "done"}
  /\ put' = put + 1
  /\ IF HasRoom
       THEN queue' = Append(queue, put + 1) /\ UNCHANGED dropped
       ELSE dropped' = dropped \cup {put + 1} /\ UNCHANGED queue
  /\ UNCHANGED <<flags, lock, pc, batch, retries, inserts, raising,
                 rows, lost, published, faults>>

-----------------------------------------------------------------------------
\* run()

\* The task starts, or the supervisor starts it again after a backoff.
Start ==
  /\ pc[Run] \in {"new", "crashed"}
  /\ started' = TRUE /\ running' = TRUE /\ drainDone' = FALSE
  /\ raising' = "nothing"
  /\ GoTo(Run, "connect")
  /\ UNCHANGED <<queue, put, dropped, stopping, lock, batch, retries, inserts,
                 rows, lost, published, faults>>

\* _get_connection in a thread.  It fails outside the try block: nothing is
\* drained and _drain_done stays clear.
Connect ==
  /\ pc[Run] = "connect"
  /\ \/ GoTo(Run, "check") /\ UNCHANGED connectFaults
     \/ /\ ConnectionFault
        /\ GoTo(Run, "crashed")
  /\ UNCHANGED <<queue, put, dropped, flags, lock, batch, retries, inserts,
                 raising, rows, lost, published, insertFaults, cancels>>

\* The head of the main loop; leaving it runs the finally block, which first
\* waits for _drain_lock.
Check ==
  /\ pc[Run] = "check"
  /\ IF ShuttingDown
       THEN running' = FALSE /\ GoTo(Run, "lock")
       ELSE UNCHANGED running /\ GoTo(Run, "get")
  /\ UNCHANGED <<queue, put, dropped, started, stopping, drainDone, lock, batch,
                 retries, inserts, raising, rows, lost, published, faults>>

\* The wait for the first entry of a batch: it times out, finds the sentinel
\* or starts a batch.
Get ==
  /\ pc[Run] = "get"
  /\ \/ /\ queue = <<>>
        /\ GoTo(Run, "check")
        /\ UNCHANGED <<queue, batch, running>>
     \/ /\ queue # <<>> /\ Head(queue) = Sentinel
        /\ queue' = Tail(queue)
        /\ running' = FALSE
        /\ GoTo(Run, "lock")
        /\ UNCHANGED batch
     \/ /\ queue # <<>> /\ IsEntry(Head(queue))
        /\ queue' = Tail(queue)
        /\ batch' = [batch EXCEPT ![Run] = <<Head(queue)>>]
        /\ GoTo(Run, "collect")
        /\ UNCHANGED running
  /\ UNCHANGED <<put, dropped, started, stopping, drainDone, lock, retries,
                 inserts, raising, rows, lost, published, faults>>

\* _flush_batch hands the batch of p to a worker thread.
StartInsert(p, b) ==
  /\ batch' = [batch EXCEPT ![p] = b]
  /\ retries' = [retries EXCEPT ![p] = 0]
  /\ inserts' = inserts \cup {Insert(p, b)}
  /\ GoTo(p, "insert")

\* One turn of the loop that fills the batch: it takes the next entry, ends
\* at the sentinel, or stops filling: full, shutting down, or nothing came
\* within the debounce window.
Collect ==
  /\ pc[Run] = "collect"
  /\ LET more == Len(batch[Run]) < BatchMax /\ ~ ShuttingDown
     IN  \/ /\ more /\ queue # <<>> /\ IsEntry(Head(queue))
            /\ queue' = Tail(queue)
            /\ batch' = [batch EXCEPT ![Run] = Append(@, Head(queue))]
            /\ UNCHANGED <<running, retries, inserts, pc>>
         \/ /\ more /\ queue # <<>> /\ Head(queue) = Sentinel
            /\ queue' = Tail(queue)
            /\ running' = FALSE
            /\ StartInsert(Run, batch[Run])
         \/ /\ ~ more \/ queue = <<>>
            /\ StartInsert(Run, batch[Run])
            /\ UNCHANGED <<queue, running>>
  /\ UNCHANGED <<put, dropped, started, stopping, drainDone, lock,
                 raising, rows, lost, published, faults>>

-----------------------------------------------------------------------------
\* _flush_batch(), called by run() and by _drain_queue()

\* Mutant: _insert_batch returns without its commit.
NoCommit(t) == UNCHANGED rows

\* A commit writes the batch; what a rollback by another thread erased of it
\* before is missing.
Commit(t) ==
  \E erased \in (IF t.wiped THEN 0 .. Len(t.batch) ELSE {0}) :
    rows' = rows \o SubSeq(t.batch, erased + 1, Len(t.batch))

\* The insert of p, no longer awaited, goes on in its thread.
Abandoned(p) == {IF t.by = p THEN [t EXCEPT !.by = NoOne] ELSE t : t \in inserts}

InsertDone(p) ==
  /\ pc[p] \in {"insert", "shielded"}
  /\ \E t \in inserts :
       /\ t.by = p
       /\ Commit(t)
       /\ inserts' = inserts \ {t}
  /\ GoTo(p, "publish")
  /\ UNCHANGED <<queue, put, dropped, flags, lock, batch, retries,
                 raising, lost, published, faults>>

\* record_ingest, the SSE broadcast and task_done for each entry.
Publish(p) ==
  /\ pc[p] = "publish"
  /\ published' = published \o batch[p]
  /\ batch' = [batch EXCEPT ![p] = <<>>]
  /\ GoTo(p, IF lock = p THEN "drain" ELSE "check")
  /\ UNCHANGED <<queue, put, dropped, flags, lock, retries, inserts,
                 raising, rows, lost, faults>>

\* Thread t fails and rolls the shared connection back, erasing what other
\* threads wrote in the same transaction.
Rollback(t) ==
  /\ insertFaults < MaxInsertFaults /\ insertFaults' = insertFaults + 1
  /\ inserts' = {[u EXCEPT !.wiped = TRUE] : u \in inserts \ {t}}

\* Mutant: the finally block leaves _drain_done clear.
EndDrainSilently(p) ==
  /\ lock' = NoOne
  /\ UNCHANGED drainDone
  /\ GoTo(p, IF p # Run THEN "close" ELSE IF raising = "error" THEN "crashed" ELSE "done")

\* The end of _drain_queue by p, with the queue empty: the lock is free again,
\* run() signals _drain_done and ends, stop() goes on to close the connection.
EndDrain(p) ==
  /\ lock' = NoOne
  /\ IF p = Run
       THEN /\ drainDone' = TRUE
            /\ GoTo(p, IF raising = "error" THEN "crashed" ELSE "done")
       ELSE /\ UNCHANGED drainDone
            /\ GoTo(p, "close")

\* A failed insert is retried: for good while the service runs, a bounded
\* number of times during shutdown; then the batch is given up, and in
\* _drain_queue the rest of the queue with it.
InsertFails(p) ==
  /\ pc[p] = "insert"
  /\ \E t \in inserts : t.by = p /\ Rollback(t)
  /\ \/ /\ ~ ShuttingDown
        /\ GoTo(p, "backoff")
        /\ UNCHANGED <<retries, batch, lost, queue, running, drainDone, lock>>
     \/ /\ ShuttingDown /\ RetriesLeft(p)
        /\ retries' = [retries EXCEPT ![p] = @ + 1]
        /\ GoTo(p, "lastBackoff")
        /\ UNCHANGED <<batch, lost, queue, running, drainDone, lock>>
     \/ /\ ShuttingDown /\ ~ RetriesLeft(p)
        /\ batch' = [batch EXCEPT ![p] = <<>>]
        /\ IF lock = p
             THEN /\ lost' = lost \cup ToSet(batch[p]) \cup ToSet(EntriesOf(queue))
                  /\ queue' = <<>>
                  /\ EndDrain(p)
                  /\ UNCHANGED running
             ELSE /\ lost' = lost \cup ToSet(batch[p])
                  /\ running' = FALSE
                  /\ GoTo(p, "lock")
                  /\ UNCHANGED <<queue, drainDone, lock>>
        /\ UNCHANGED retries
  /\ UNCHANGED <<put, dropped, started, stopping, raising, rows,
                 published, connectFaults, cancels>>

\* Mutant: an insert that takes long is retried while its thread still runs.
RetryEarly(p) ==
  /\ pc[p] \in {"insert", "backoff", "lastBackoff"}
  /\ inserts' = Abandoned(p) \cup {Insert(p, batch[p])}
  /\ GoTo(p, "insert")
  /\ UNCHANGED <<queue, put, dropped, flags, lock, batch, retries,
                 raising, rows, lost, published, faults>>

Retry(p) ==
  /\ pc[p] \in {"backoff", "lastBackoff"}
  /\ inserts' = inserts \cup {Insert(p, batch[p])}
  /\ GoTo(p, "insert")
  /\ UNCHANGED <<queue, put, dropped, flags, lock, batch, retries,
                 raising, rows, lost, published, faults>>

-----------------------------------------------------------------------------
\* _drain_queue() under _drain_lock, by the finally block of run() and by stop()

Acquire(p) ==
  /\ pc[p] = "lock" /\ lock = NoOne
  /\ lock' = p
  /\ GoTo(p, "drain")
  /\ UNCHANGED <<queue, put, dropped, flags, batch, retries, inserts,
                 raising, rows, lost, published, faults>>

\* The next batch: entries up to BatchMax, sentinels skipped on the way.
Drain(p) ==
  /\ pc[p] = "drain"
  /\ \/ /\ queue = <<>>
        /\ EndDrain(p)
        /\ UNCHANGED <<queue, batch, retries, inserts>>
     \/ \E n \in DOMAIN queue :
          LET taken == EntriesOf(SubSeq(queue, 1, n))
          IN  /\ Len(taken) <= BatchMax
              /\ \/ n = Len(queue)
                 \/ Len(taken) = BatchMax /\ IsEntry(queue[n])
              /\ queue' = SubSeq(queue, n + 1, Len(queue))
              /\ IF taken = <<>>
                   THEN UNCHANGED <<pc, batch, retries, inserts>>
                   ELSE StartInsert(p, taken)
              /\ UNCHANGED <<lock, drainDone>>
  /\ UNCHANGED <<put, dropped, started, running, stopping, raising,
                 rows, lost, published, faults>>

-----------------------------------------------------------------------------
\* stop()

Stop(s) ==
  /\ pc[s] = "idle"
  /\ stopping' = TRUE
  /\ queue' = IF HasRoom THEN Append(queue, Sentinel) ELSE queue
  /\ GoTo(s, "yield")
  /\ UNCHANGED <<put, dropped, started, running, drainDone, lock, batch, retries,
                 inserts, raising, rows, lost, published, faults>>

\* Mutant: stop() drains beside run() instead of waiting for it.
StopStepNoWait(s) ==
  /\ \/ /\ pc[s] = "yield"
        /\ GoTo(s, "lock")
     \/ /\ pc[s] = "close"
        /\ GoTo(s, "done")
  /\ UNCHANGED <<queue, put, dropped, flags, lock, batch, retries, inserts,
                 raising, rows, lost, published, faults>>

\* Mutant: stop() does not look at the queue again once run() has drained.
StopStepNoRecheck(s) ==
  /\ \/ /\ pc[s] = "yield"
        /\ GoTo(s, IF started THEN "wait" ELSE "lock")
     \/ /\ pc[s] = "wait" /\ drainDone
        /\ GoTo(s, "close")
     \/ /\ pc[s] = "close"
        /\ GoTo(s, "done")
  /\ UNCHANGED <<queue, put, dropped, flags, lock, batch, retries, inserts,
                 raising, rows, lost, published, faults>>

\* After sleep(0): wait for run() to drain, or drain if it never started.
\* Then drain what came meanwhile, and close the connection.
StopStep(s) ==
  /\ \/ /\ pc[s] = "yield"
        /\ GoTo(s, IF started THEN "wait" ELSE "lock")
     \/ /\ pc[s] = "wait" /\ drainDone
        /\ GoTo(s, IF queue = <<>> THEN "close" ELSE "lock")
     \/ /\ pc[s] = "close"
        /\ GoTo(s, "done")
  /\ UNCHANGED <<queue, put, dropped, flags, lock, batch, retries, inserts,
                 raising, rows, lost, published, faults>>

-----------------------------------------------------------------------------
\* Cancellation of the task of run()

\* An exception leaves run() through its finally block, without task_done.
Unwind(why) ==
  /\ raising' = why
  /\ batch' = [batch EXCEPT ![Run] = <<>>]
  /\ IF lock = Run
       THEN /\ lock' = NoOne /\ drainDone' = TRUE
            /\ GoTo(Run, IF why = "error" THEN "crashed" ELSE "done")
            /\ UNCHANGED running
       ELSE /\ running' = FALSE
            /\ GoTo(Run, "lock")
            /\ UNCHANGED <<lock, drainDone>>

\* Mutant: a cancelled flush just unwinds.
NoShield ==
  /\ pc[Run] \in {"insert", "backoff"}
  /\ inserts' = {t \in inserts : t.by # Run}
  /\ Unwind("cancelled")
  /\ UNCHANGED <<retries, lost>>

\* A cancellation of the flush of a batch starts a shielded insert of it.
\* The insert cancelled runs on, or never runs if its thread had not started.
ShieldedInsert ==
  /\ pc[Run] \in {"insert", "backoff"}
  /\ \E others \in {Abandoned(Run), {t \in inserts : t.by # Run}} :
       LET again == [Insert(Run, batch[Run]) EXCEPT !.after = cancels + 1]
       IN  inserts' = others \cup {again}
  /\ GoTo(Run, "shielded")
  /\ UNCHANGED <<running, drainDone, lock, batch, retries, raising, lost>>

\* Cancelled in the backoff of the shutdown, within the shielded insert or
\* after the insert, the flush unwinds.
CancelFlush ==
  \/ ShieldedInsert
  \/ /\ pc[Run] = "lastBackoff"
     /\ lost' = lost \cup ToSet(batch[Run])
     /\ Unwind("cancelled")
     /\ UNCHANGED <<inserts, retries>>
  \/ /\ pc[Run] = "shielded"
     /\ inserts' = Abandoned(Run)
     /\ Unwind("cancelled")
     /\ UNCHANGED <<retries, lost>>
  \/ /\ pc[Run] = "publish"
     /\ Unwind("cancelled")
     /\ UNCHANGED <<inserts, retries, lost>>

\* Elsewhere a cancellation ends the task (before the try block and in the
\* supervisor's sleep), leaves the main loop, ends the filling of a batch, or
\* gives up the wait for _drain_lock.
CancelElsewhere ==
  /\ \/ /\ pc[Run] \in {"new", "connect", "crashed"}
        /\ GoTo(Run, "done")
        /\ UNCHANGED <<running, drainDone, batch, retries, inserts>>
     \/ /\ pc[Run] = "get"
        /\ running' = FALSE
        /\ GoTo(Run, "lock")
        /\ UNCHANGED <<drainDone, batch, retries, inserts>>
     \/ /\ pc[Run] = "collect" /\ queue = <<>>
        /\ Len(batch[Run]) < BatchMax /\ ~ ShuttingDown
        /\ StartInsert(Run, batch[Run])
        /\ UNCHANGED <<running, drainDone>>
     \/ /\ pc[Run] = "lock"
        /\ drainDone' = TRUE
        /\ GoTo(Run, "done")
        /\ UNCHANGED <<running, batch, retries, inserts>>
  /\ UNCHANGED <<lock, raising, lost>>

Cancel ==
  /\ cancels < MaxCancels
  /\ cancels' = cancels + 1
  /\ CancelFlush \/ CancelElsewhere
  /\ UNCHANGED <<queue, put, dropped, started, stopping, rows,
                 published, insertFaults, connectFaults>>

\* The shielded insert fails: its error leaves run(), the batch is gone.
ShieldedFails ==
  /\ pc[Run] = "shielded"
  /\ \E t \in inserts : t.by = Run /\ Rollback(t)
  /\ lost' = lost \cup ToSet(batch[Run])
  /\ Unwind("error")
  /\ UNCHANGED <<queue, put, dropped, started, stopping, retries, rows,
                 published, connectFaults, cancels>>

AbandonedEnds ==
  /\ \E t \in inserts :
       /\ t.by = NoOne
       /\ \/ /\ Commit(t)
             /\ inserts' = inserts \ {t}
             /\ UNCHANGED insertFaults
          \/ Rollback(t) /\ UNCHANGED rows
  /\ UNCHANGED <<queue, put, dropped, flags, lock, pc, batch, retries,
                 raising, lost, published, connectFaults, cancels>>

-----------------------------------------------------------------------------

Flush(p) ==
  InsertDone(p) \/ InsertFails(p) \/ Publish(p) \/ Retry(p)
    \/ Acquire(p) \/ Drain(p)

RunStep == Start \/ Connect \/ Check \/ Get \/ Collect \/ Flush(Run) \/ ShieldedFails

StopperStep(s) == StopStep(s) \/ Flush(s)

\* The program ends once the task has ended and every stop() returned.
Finished ==
  /\ \A p \in Coroutines : pc[p] = "done"
  /\ inserts = {}
  /\ UNCHANGED vars

Next ==
  \/ Put
  \/ RunStep
  \/ \E s \in Stoppers : Stop(s) \/ StopperStep(s)
  \/ Cancel
  \/ AbandonedEnds
  \/ Finished

Spec == Init /\ [][Next]_vars

\* The event loop resumes every coroutine whose await has ended, and worker
\* threads end; nothing obliges producers to put or anyone to call stop().
FairSpec ==
  /\ Spec
  /\ WF_vars(RunStep)
  /\ \A s \in Stoppers : WF_vars(StopperStep(s))

-----------------------------------------------------------------------------

Labels == {"new", "connect", "crashed", "check", "get", "collect", "insert",
           "shielded", "backoff", "lastBackoff", "publish", "lock", "drain",
           "idle", "yield", "wait", "close", "done"}
Accepted == 1 .. put
Inserts == [by : Coroutines \cup {NoOne}, batch : Seq(Accepted),
            after : 0 .. cancels, wiped : BOOLEAN]

\* Type invariant: the flags, the queue within its bound, one place for every
\* coroutine, and nowhere an entry that was not put.
TypeOK ==
  /\ put \in 0 .. MaxEntries /\ dropped \subseteq Accepted
  /\ queue \in Seq(Accepted \cup {Sentinel}) /\ Len(queue) <= QueueMaxSize
  /\ started \in BOOLEAN /\ running \in BOOLEAN
  /\ stopping \in BOOLEAN /\ drainDone \in BOOLEAN
  /\ lock \in Coroutines \cup {NoOne}
  /\ pc \in [Coroutines -> Labels]
  /\ batch \in [Coroutines -> Seq(Accepted)]
  /\ retries \in [Coroutines -> 0 .. MaxShutdownRetries]
  /\ inserts \subseteq Inserts
  /\ raising \in {"nothing", "error", "cancelled"}
  /\ rows \in Seq(Accepted) /\ published \in Seq(Accepted)
  /\ lost \subseteq Accepted
  /\ insertFaults \in 0 .. MaxInsertFaults
  /\ connectFaults \in 0 .. MaxConnectFaults
  /\ cancels \in 0 .. MaxCancels

\* Entries a coroutine holds that are in no table yet.
Holding == {"collect", "insert", "shielded", "backoff", "lastBackoff"}
Held(p) == IF pc[p] \in Holding THEN batch[p] ELSE <<>>

\* All inserts share one connection that no lock guards, opened with
\* check_same_thread=False: never do two of them run at once, whichever of
\* run() and the stop() calls is draining.
OneInsertAtATime == Cardinality(inserts) <= 1

\* SSE subscribers see committed rows only, in the order of the table.
PublishedAfterCommit == IsPrefix(published, rows)

\* An entry is given up only during shutdown, after MaxShutdownRetries failed
\* inserts of its batch; a database that recovers sooner loses nothing.
LossNeedsPermanentFailure ==
  lost # {} => stopping /\ insertFaults >= MaxShutdownRetries

\* Once every call of stop() has returned, no batch is in hand, no insert runs
\* and no entry is left in the queue: the connection is not closed under an
\* insert, and the process may exit.
StoppedMeansDrained ==
  (\A s \in Stoppers : pc[s] = "done") /\ cancels = 0
    => /\ \A p \in Coroutines : Held(p) = <<>>
       /\ inserts = {}
       /\ EntriesOf(queue) = <<>>

\* "If cancelled during flush, attempt a shielded insert so in-flight logs are
\* preserved": when the database works, a cancellation of the task, wherever it
\* strikes, leaves every entry in the queue, in hand, in a running insert or
\* in the table.
CancelPreserves ==
  insertFaults = 0 =>
    \A e \in 1 .. put :
      \/ e \in ToSet(queue) \cup ToSet(rows) \cup dropped
      \/ \E p \in Coroutines : e \in ToSet(Held(p))
      \/ \E t \in inserts : e \in ToSet(t.batch)

\* The queue, the batch in hand and the table implement the promise: every
\* entry is written exactly once, in order, or given up at shutdown.
InHand == {p \in Coroutines : Held(p) # <<>>}
Waiting == (IF InHand = {} THEN <<>> ELSE Held(CHOOSE p \in InHand : TRUE))
             \o EntriesOf(queue)

Delivery == INSTANCE LogDelivery
  WITH Entries <- 1 .. MaxEntries, waiting <- Waiting, stored <- rows,
       discarded <- lost, closing <- stopping

DeliversInOrder == Delivery!DeliverySpec

\* stop() returns, even when every insert fails once it has been called.
StopReturns == \A s \in Stoppers : (pc[s] = "yield") ~> (pc[s] = "done")

\* An entry the queue accepted before stop() was called is written or, at
\* shutdown, given up; none waits for ever.
EntriesSettle ==
  \A e \in 1 .. MaxEntries :
    (e \in ToSet(queue)) ~> (e \in ToSet(rows) \cup lost)

=============================================================================
