--------------------------- MODULE DockerSupervisor ---------------------------
(***************************************************************************)
(* DockerTailer of backend/app/collectors/docker_collector.py: the         *)
(* supervisor that keeps one log tailer per running container.             *)
(*                                                                         *)
(* The supervisor task (run), the task that consumes the Docker event      *)
(* stream inside it, stop() and the tailer tasks interleave at every       *)
(* await.  The Docker daemon is external: containers start and die, the    *)
(* event stream ends, breaks or goes silent.  Excluded containers          *)
(* (_should_ignore_container) are left out: nothing is done for them.      *)
(***************************************************************************)
EXTENDS Integers, Sequences, FiniteSets, Functions

CONSTANTS
  Containers,   \* containers that are not excluded
  None,         \* no task, no container
  MaxChanges,   \* bound of the model: containers starting, dying, restarting
  MaxErrors,    \* bound of the model: requests and streams that fail
  MaxEofs,      \* bound of the model: event streams that end without an error
  MaxHangs,     \* bound of the model: event streams that go silent
  GapChanges    \* containers may change while no event stream is open although
                \* the running ones have been listed

ASSUME SupervisorAssumption ==
  /\ None \notin Containers /\ None \notin Containers \X Nat
  /\ {MaxChanges, MaxErrors, MaxEofs, MaxHangs} \subseteq Nat
  /\ GapChanges \in BOOLEAN

VARIABLES
  up,         \* the daemon: containers that run
  stream,     \* the daemon: the event stream
  events,     \* event lines sent on the stream and not consumed
  changes, errors, eofs, hangs,   \* counts of what the daemon did
  stopped,    \* not _running, and _cancel_event is set
  pc,         \* the await run() is suspended at
  client,     \* number of the httpx client of the current connection
  open,       \* that client is open
  consumer,   \* what _consume_events is doing
  heartbeatFailed,
  tailers,    \* _tailers: container -> task, the n-th of its container
  tasks,      \* tailer tasks not ended, or whose done callback is due
  made,       \* number of tailer tasks made for each container
  cleaning,   \* the _cleanup_tailers of run() and of stop()
  stopper     \* progress of stop()

daemon == <<up, stream, events, changes, errors, eofs, hangs>>
registry == <<tailers, tasks, made>>
vars == <<daemon, stopped, pc, client, open, consumer, heartbeatFailed,
          registry, cleaning, stopper>>

Without(f, x) == [y \in DOMAIN f \ {x} |-> f[y]]

\* Waiting for nothing: no await of a tailer task in progress.
Reading == [at |-> "read", task |-> None, restart |-> None]
Ended(how) == [Reading EXCEPT !.at = how]

Idle == [todo |-> {}, task |-> None]

Init ==
  /\ up \in SUBSET Containers
  /\ stream = "none" /\ events = <<>>
  /\ changes = 0 /\ errors = 0 /\ eofs = 0 /\ hangs = 0
  /\ stopped = FALSE
  /\ pc = "list" /\ client = 1 /\ open = TRUE
  /\ consumer = Ended("finished")
  /\ heartbeatFailed = FALSE
  /\ tailers = [c \in {} |-> None]
  /\ tasks = [t \in {} |-> None]
  /\ made = [c \in Containers |-> 0]
  /\ cleaning = [p \in {"run", "stop"} |-> Idle]
  /\ stopper = "idle"

-----------------------------------------------------------------------------
\* The Docker daemon (external).

Emit(lines) == events' = IF stream = "open" THEN events \o lines ELSE events

\* The running containers are listed and the event stream is not open yet.
InGap == pc = "open"

Change(c) ==
  /\ changes < MaxChanges
  /\ InGap => GapChanges
  /\ changes' = changes + 1
  /\ \/ /\ c \notin up
        /\ up' = up \cup {c}
        /\ Emit(<< <<"start", c>> >>)
     \/ /\ c \in up
        /\ up' = up \ {c}
        /\ Emit(<< <<"die", c>> >>)
     \/ /\ c \in up
        /\ Emit(<< <<"die", c>>, <<"start", c>>, <<"restart", c>> >>)
        /\ UNCHANGED up
  /\ UNCHANGED <<stream, errors, eofs, hangs, stopped, pc, client, open,
                 consumer, heartbeatFailed, registry, cleaning, stopper>>

Failing == errors < MaxErrors /\ errors' = errors + 1

StreamFails ==
  /\ \/ /\ stream \in {"open", "hung"} /\ Failing
        /\ stream' = "broken"
        /\ UNCHANGED <<eofs, hangs>>
     \/ /\ stream = "open" /\ eofs < MaxEofs
        /\ stream' = "eof" /\ eofs' = eofs + 1
        /\ UNCHANGED <<errors, hangs>>
     \/ /\ stream = "open" /\ hangs < MaxHangs
        /\ stream' = "hung" /\ hangs' = hangs + 1
        /\ UNCHANGED <<errors, eofs>>
  /\ UNCHANGED <<up, events, changes, stopped, pc, client, open, consumer,
                 heartbeatFailed, registry, cleaning, stopper>>

-----------------------------------------------------------------------------
\* Tailer tasks

\* _start_tailer(c) for each container c of cs: none that has a tailer gets
\* a second one.
StartTailers(cs) ==
  LET new == {c \in cs : c \in DOMAIN tailers => tasks[tailers[c]].state = "done"}
      task(c) == <<c, made[c] + 1>>
  IN  /\ made' = [c \in Containers |-> IF c \in new THEN made[c] + 1 ELSE made[c]]
      /\ tailers' = [c \in DOMAIN tailers \cup new |->
                       IF c \in new THEN task(c) ELSE tailers[c]]
      /\ tasks' = [t \in DOMAIN tasks \cup {task(c) : c \in new} |->
                     IF t \in DOMAIN tasks THEN tasks[t]
                     ELSE [client |-> client, state |-> "live"]]

\* _stop_tailer(c) up to its await: the task is unregistered and cancelled.
CancelTailer(c) ==
  /\ tasks' = [tasks EXCEPT ![tailers[c]].state =
                 IF @ = "live" THEN "cancelled" ELSE @]
  /\ tailers' = Without(tailers, c)
  /\ UNCHANGED made

\* A cancelled tailer leaves its stream and ends.
TailerEnds(t) ==
  /\ tasks[t].state = "cancelled"
  /\ tasks' = [tasks EXCEPT ![t].state = "done"]
  /\ UNCHANGED <<daemon, stopped, pc, client, open, consumer, heartbeatFailed,
                 tailers, made, cleaning, stopper>>

\* The done callback of the task pops its container from _tailers; who awaits
\* the task resumes after it.
TailerForgotten(t) ==
  /\ tasks[t].state = "done"
  /\ tasks' = Without(tasks, t)
  /\ tailers' = Without(tailers, t[1])
  /\ UNCHANGED <<daemon, stopped, pc, client, open, consumer, heartbeatFailed,
                 made, cleaning, stopper>>

-----------------------------------------------------------------------------
\* _consume_events

\* The next line of the event stream, or its end.
Consume ==
  /\ consumer.at = "read"
  /\ \/ /\ events # <<>>
        /\ events' = Tail(events)
        /\ LET action == Head(events)[1]
               c == Head(events)[2]
           IN  \/ /\ stopped
                  /\ consumer' = Ended("finished")
                  /\ UNCHANGED registry
               \/ /\ ~ stopped /\ action = "start"
                  /\ StartTailers({c})
                  /\ UNCHANGED consumer
               \/ /\ ~ stopped /\ action # "start" /\ c \in DOMAIN tailers
                  /\ CancelTailer(c)
                  /\ consumer' =
                       [at |-> "stopping", task |-> tailers[c],
                        restart |-> IF action = "restart" THEN c ELSE None]
               \/ /\ ~ stopped /\ action # "start" /\ c \notin DOMAIN tailers
                  /\ StartTailers(IF action = "restart" THEN {c} ELSE {})
                  /\ UNCHANGED consumer
     \/ /\ events = <<>> /\ stream \in {"eof", "broken"}
        /\ consumer' = Ended(IF stream = "eof" THEN "finished" ELSE "failed")
        /\ UNCHANGED <<events, registry>>
  /\ UNCHANGED <<up, stream, changes, errors, eofs, hangs, stopped, pc, client,
                 open, heartbeatFailed, cleaning, stopper>>

\* Mutant: a restart does not wait for the old tailer to end.
ConsumerHastens ==
  /\ consumer.at = "stopping"
  /\ StartTailers({consumer.restart} \ {None})
  /\ consumer' = Reading
  /\ UNCHANGED <<daemon, stopped, pc, client, open, heartbeatFailed,
                 cleaning, stopper>>

\* The tailer it stopped is gone.  A cancellation of the consumer during that
\* await is swallowed by _stop_tailer: it carries on.
ConsumerResumes ==
  /\ consumer.at = "stopping"
  /\ consumer.task \notin DOMAIN tasks
  /\ StartTailers({consumer.restart} \ {None})
  /\ consumer' = Reading
  /\ UNCHANGED <<daemon, stopped, pc, client, open, heartbeatFailed,
                 cleaning, stopper>>

-----------------------------------------------------------------------------
\* run()

\* list(self._tailers.keys()), which _cleanup_tailers goes through.
ToClean == DOMAIN tailers

\* Mutant: the tailers survive a failed connection.
ReconnectAtOnce(failed) ==
  /\ IF stopped THEN pc' = "ended" /\ open' = FALSE /\ UNCHANGED client
     ELSE pc' = "list" /\ client' = client + 1 /\ open' = TRUE
  /\ UNCHANGED cleaning

\* The connection is closed.  The loop ends when stopped; an error starts the
\* cleanup; an event stream that just ended is followed by a new connection.
Reconnect(failed) ==
  \/ /\ stopped
     /\ pc' = "ended" /\ open' = FALSE
     /\ UNCHANGED <<client, cleaning>>
  \/ /\ ~ stopped /\ failed
     /\ pc' = "cleanup" /\ open' = FALSE
     /\ cleaning' = [cleaning EXCEPT !["run"].todo = ToClean]
     /\ UNCHANGED client
  \/ /\ ~ stopped /\ ~ failed
     /\ pc' = "list" /\ open' = TRUE
     /\ client' = client + 1
     /\ UNCHANGED cleaning

\* _attach_running_containers, then the request for the event stream.
Attach ==
  /\ pc = "list"
  /\ StartTailers(up)
  /\ pc' = "open"
  /\ UNCHANGED <<daemon, stopped, client, open, consumer, heartbeatFailed, cleaning, stopper>>

RequestFails ==
  /\ pc \in {"list", "open"}
  /\ Failing
  /\ Reconnect(TRUE)
  /\ UNCHANGED <<up, stream, events, changes, eofs, hangs, stopped, consumer,
                 heartbeatFailed, registry, stopper>>

OpenEvents ==
  /\ pc = "open"
  /\ pc' = "watch"
  /\ stream' = "open" /\ events' = <<>>
  /\ consumer' = Reading
  /\ heartbeatFailed' = FALSE
  /\ UNCHANGED <<up, changes, errors, eofs, hangs, stopped, client, open,
                 registry, cleaning, stopper>>

\* The ping of _events_heartbeat fails: it cancels the consumer, once.
Heartbeat ==
  /\ pc = "watch" /\ stream = "hung"
  /\ ~ stopped /\ ~ heartbeatFailed
  /\ heartbeatFailed' = TRUE
  /\ consumer' = IF consumer.at = "read" THEN Ended("failed") ELSE consumer
  /\ UNCHANGED <<daemon, stopped, pc, client, open, registry, cleaning, stopper>>

ConsumerEnded == consumer.at \in {"finished", "failed"}

\* asyncio.wait returns; a consumer that reads is cancelled, one that stops a
\* tailer swallows the cancellation and is awaited.
WatchEnds ==
  /\ pc = "watch"
  /\ stopped \/ ConsumerEnded
  /\ pc' = "leave"
  /\ consumer' = IF consumer.at = "read" THEN Ended("finished") ELSE consumer
  /\ UNCHANGED <<daemon, stopped, client, open, heartbeatFailed, registry,
                 cleaning, stopper>>

\* The consumer has ended; run() leaves the connection.
Leave ==
  /\ pc = "leave" /\ ConsumerEnded
  /\ stream' = "none" /\ events' = <<>>
  /\ Reconnect(heartbeatFailed \/ consumer.at = "failed")
  /\ UNCHANGED <<up, changes, errors, eofs, hangs, stopped, consumer,
                 heartbeatFailed, registry, stopper>>

\* A step of the _cleanup_tailers of run() or stop(): the next tailer of those
\* it found is stopped; one that is no longer registered is passed over.
Clean(p) ==
  \/ /\ cleaning[p].task = None
     /\ \E c \in cleaning[p].todo :
          IF c \in DOMAIN tailers
            THEN /\ CancelTailer(c)
                 /\ cleaning' = [cleaning EXCEPT
                      ![p] = [todo |-> @.todo \ {c}, task |-> tailers[c]]]
            ELSE /\ cleaning' = [cleaning EXCEPT ![p].todo = @ \ {c}]
                 /\ UNCHANGED registry
  \/ /\ cleaning[p].task # None
     /\ cleaning[p].task \notin DOMAIN tasks
     /\ cleaning' = [cleaning EXCEPT ![p].task = None]
     /\ UNCHANGED registry

Cleanup ==
  /\ pc = "cleanup"
  /\ Clean("run")
  /\ UNCHANGED <<daemon, stopped, pc, client, open, consumer, heartbeatFailed,
                 stopper>>

\* All tailers are stopped; after the backoff run() connects again, or ends.
Backoff ==
  /\ pc = "cleanup"
  /\ cleaning["run"] = Idle
  /\ Reconnect(FALSE)
  /\ UNCHANGED <<daemon, stopped, consumer, heartbeatFailed, registry, stopper>>

-----------------------------------------------------------------------------
\* stop()

Stop ==
  /\ stopper = "idle"
  /\ stopped' = TRUE
  /\ stopper' = "cleanup"
  /\ cleaning' = [cleaning EXCEPT !["stop"].todo = ToClean]
  /\ UNCHANGED <<daemon, pc, client, open, consumer, heartbeatFailed, registry>>

StopStep ==
  /\ stopper = "cleanup"
  /\ \/ /\ Clean("stop")
        /\ UNCHANGED stopper
     \/ /\ cleaning["stop"] = Idle
        /\ stopper' = "done"
        /\ UNCHANGED <<cleaning, registry>>
  /\ UNCHANGED <<daemon, stopped, pc, client, open, consumer, heartbeatFailed>>

-----------------------------------------------------------------------------

RunStep == Attach \/ RequestFails \/ OpenEvents \/ WatchEnds \/ Leave
             \/ Cleanup \/ Backoff

Ending == \E t \in DOMAIN tasks : TailerEnds(t) \/ TailerForgotten(t)

Next ==
  \/ \E c \in Containers : Change(c)
  \/ StreamFails
  \/ Ending
  \/ Consume \/ ConsumerResumes \/ Heartbeat
  \/ RunStep
  \/ Stop \/ StopStep

Spec == Init /\ [][Next]_vars

\* Tasks that can go on do, requests are answered, and a silent stream is
\* noticed; the daemon need not change and nobody needs to call stop().
FairSpec ==
  /\ Spec
  /\ WF_vars(Ending) /\ WF_vars(Consume) /\ WF_vars(ConsumerResumes)
  /\ WF_vars(Heartbeat) /\ WF_vars(RunStep) /\ WF_vars(StopStep)

-----------------------------------------------------------------------------

Task == Containers \X Nat

\* Type invariant: the connection, the tasks of the supervisor, and tailers
\* registered under their own container.
TypeOK ==
  /\ up \subseteq Containers
  /\ stream \in {"none", "open", "eof", "broken", "hung"}
  /\ events \in Seq({"start", "die", "restart"} \X Containers)
  /\ stopped \in BOOLEAN /\ open \in BOOLEAN /\ heartbeatFailed \in BOOLEAN
  /\ pc \in {"list", "open", "watch", "leave", "cleanup", "ended"}
  /\ client \in Nat \ {0}
  /\ consumer \in [at : {"read", "stopping", "finished", "failed"},
                   task : Task \cup {None}, restart : Containers \cup {None}]
  /\ made \in [Containers -> Nat]
  /\ DOMAIN tasks \subseteq Task
  /\ \A t \in DOMAIN tasks :
       tasks[t] \in [client : 1 .. client, state : {"live", "cancelled", "done"}]
  /\ DOMAIN tailers \subseteq Containers
  /\ \A c \in DOMAIN tailers : tailers[c] \in DOMAIN tasks /\ tailers[c][1] = c
  /\ cleaning \in [{"run", "stop"} -> [todo : SUBSET Containers,
                                      task : Task \cup {None}]]
  /\ stopper \in {"idle", "cleanup", "done"}

\* Until stop() is called, no container has two tailers at a time, which would
\* store its lines twice and share its resume position: a restart waits for
\* the old tailer to end, and so does a new connection after an error.  A tailer
\* that has not been cancelled can be reached by the die event, the cleanup or
\* stop(): the done callback of an older task, which pops _tailers by container,
\* does not unregister a newer one.
OneTailer ==
  ~ stopped =>
    /\ \A t, u \in DOMAIN tasks :
         t # u /\ t[1] = u[1] => "done" \in {tasks[t].state, tasks[u].state}
    /\ \A t \in DOMAIN tasks :
         tasks[t].state = "live" => t[1] \in DOMAIN tailers /\ tailers[t[1]] = t

LiveTailer(c, t) == t[1] = c /\ tasks[t].state = "live"

\* DockerTailer: "On start: enumerate running containers and begin tailing each
\* one.  On 'start' event: begin tailing the newly started container.  On
\* disconnect: exponential backoff reconnect."  A container that stays up ends
\* up with a tailer whose client is open.
Tailed(c) ==
  \E t \in DOMAIN tasks : LiveTailer(c, t) /\ open /\ tasks[t].client = client

UpIsTailed ==
  \A c \in Containers : <>[](c \in up /\ ~ stopped) => <>[] Tailed(c)

\* The same as long as the event stream fails with an error, never by ending or
\* by going silent: failed requests, broken streams, and containers that die,
\* start and restart meanwhile leave no container without its tailer.
UpIsTailedAfterErrors ==
  \A c \in Containers :
    <>[](c \in up /\ ~ stopped /\ eofs = 0 /\ hangs = 0) => <>[] Tailed(c)

=============================================================================
