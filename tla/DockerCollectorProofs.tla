------------------------- MODULE DockerCollectorProofs -------------------------
(***************************************************************************)
(* Proofs about the two halves of docker_collector.py.  DockerSupervisor,  *)
(* for any number of containers, changes, errors and silent streams: the   *)
(* types, and that until stop() is called no container has two tailers and *)
(* no live tailer is out of reach.  ContainerTail, for any number of       *)
(* lines, broken connections, restarts and rejected positions: the types,  *)
(* that the log is resumed without a gap, and that a line is fed once and  *)
(* in order.                                                               *)
(***************************************************************************)
EXTENDS DockerSupervisor, ContainerTail, SequenceTheorems, WellFoundedInduction, TLAPS

-----------------------------------------------------------------------------
\* The supervisor.

\* The supervisor waits for the tailer it cancelled: the consumer of the events
\* in _stop_tailer, or the cleanup after an error.
Awaited(t) ==
  \/ consumer.at = "stopping" /\ consumer.task = t
  \/ pc = "cleanup" /\ cleaning["run"].task = t

Registered(t) == t[1] \in DOMAIN tailers /\ tailers[t[1]] = t

\* Tasks are numbered by made, so that a new one is none of the old.
TasksNumbered == \A t \in DOMAIN tasks : t[2] <= made[t[1]]

\* Only a watched connection has a consumer that goes on, and only a stopped
\* supervisor has stop() at work.
PhasesAgree ==
  /\ consumer.at \in {"read", "stopping"} => pc \in {"watch", "leave"}
  /\ stopper # "idle" => stopped

\* Until stop() is called a live task is the registered one of its container,
\* and any other is awaited while its container has no task registered: the
\* done callback, which pops the container whoever is registered, finds nobody.
TasksAccounted ==
  ~ stopped =>
    \A t \in DOMAIN tasks :
      \/ tasks[t].state = "live" /\ Registered(t)
      \/ tasks[t].state # "live" /\ t[1] \notin DOMAIN tailers /\ Awaited(t)

\* OneTailer is not inductive alone: that no tailer is started beside one that
\* still ends depends on who awaits it, and on where run() is meanwhile.
IInv ==
  /\ TypeOK
  /\ TasksNumbered
  /\ PhasesAgree
  /\ TasksAccounted

-----------------------------------------------------------------------------
\* What the operations do to the registry of tailers.

\* The part of TypeOK about the registry.
RegistryOK ==
  /\ made \in [Containers -> Nat]
  /\ DOMAIN tasks \subseteq Task
  /\ \A t \in DOMAIN tasks :
       tasks[t] \in [client : 1 .. client, state : {"live", "cancelled", "done"}]
  /\ DOMAIN tailers \subseteq Containers
  /\ \A c \in DOMAIN tailers : tailers[c] \in DOMAIN tasks /\ tailers[c][1] = c
  /\ TasksNumbered

AllLive ==
  \A t \in DOMAIN tasks : tasks[t].state = "live" /\ Registered(t)

\* Unless it waits for one, the supervisor has cancelled none of its tasks.
LEMMA NobodyAwaited ==
  ASSUME IInv, ~ stopped, \A t \in DOMAIN tasks : ~ Awaited(t)
  PROVE  AllLive
BY DEF IInv, TasksAccounted, AllLive

\* _start_tailer adds live tasks to containers that have none.
LEMMA StartKeeps ==
  ASSUME RegistryOK, client \in Nat \ {0}, client' = client,
         NEW cs \in SUBSET Containers, StartTailers(cs)
  PROVE  RegistryOK' /\ (AllLive => AllLive')
<1> DEFINE new == {c \in cs :
                     c \in DOMAIN tailers => tasks[tailers[c]].state = "done"}
           task(c) == <<c, made[c] + 1>>
<1>1. /\ made' = [c \in Containers |-> IF c \in new THEN made[c] + 1 ELSE made[c]]
      /\ tailers' = [c \in DOMAIN tailers \cup new |->
                       IF c \in new THEN task(c) ELSE tailers[c]]
      /\ tasks' = [t \in DOMAIN tasks \cup {task(c) : c \in new} |->
                     IF t \in DOMAIN tasks THEN tasks[t]
                     ELSE [client |-> client, state |-> "live"]]
  BY DEF StartTailers
<1>2. /\ new \subseteq Containers
      /\ \A c \in Containers : made[c] \in Nat /\ task(c) \in Task
      /\ \A c \in new : task(c) \notin DOMAIN tasks /\ task(c)[1] = c
  <2>1. new \subseteq Containers /\ \A c \in Containers : made[c] \in Nat
    BY DEF RegistryOK
  <2>2. \A c \in Containers :
          task(c) \in Task /\ task(c)[1] = c /\ task(c)[2] = made[c] + 1
    BY <2>1 DEF Task
  <2>3. ASSUME NEW c \in Containers, task(c) \in DOMAIN tasks PROVE FALSE
    BY <2>1, <2>2, <2>3 DEF RegistryOK, TasksNumbered
  <2> QED BY <2>1, <2>2, <2>3
<1> HIDE DEF new
<1>3. made' \in [Containers -> Nat]
  <2>1. \A c \in Containers : made[c] \in Nat /\ made[c] + 1 \in Nat
    BY DEF RegistryOK
  <2> QED BY <1>1, <2>1
<1>4. DOMAIN tasks' \subseteq Task
  BY <1>1, <1>2 DEF RegistryOK
<1>5. \A t \in DOMAIN tasks' :
        tasks'[t] \in [client : 1 .. client, state : {"live", "cancelled", "done"}]
  <2>1. [client |-> client, state |-> "live"]
          \in [client : 1 .. client, state : {"live", "cancelled", "done"}]
    OBVIOUS
  <2> QED BY <1>1, <2>1 DEF RegistryOK
<1>6. DOMAIN tailers' = DOMAIN tailers \cup new
  BY <1>1
<1>7. \A c \in DOMAIN tailers' : tailers'[c] \in DOMAIN tasks' /\ tailers'[c][1] = c
  <2> TAKE c \in DOMAIN tailers'
  <2>1. CASE c \in new
    BY <1>1, <1>2, <2>1
  <2>2. CASE c \notin new
    BY <1>1, <1>6, <2>2 DEF RegistryOK
  <2> QED BY <2>1, <2>2
<1>8. TasksNumbered'
  <2> SUFFICES ASSUME NEW t \in DOMAIN tasks' PROVE t[2] <= made'[t[1]]
    BY DEF TasksNumbered
  <2>1. CASE t \in DOMAIN tasks
    <3>1. /\ t[1] \in Containers /\ t[2] \in Nat
          /\ t[2] <= made[t[1]] /\ made[t[1]] \in Nat
      BY <2>1 DEF RegistryOK, TasksNumbered, Task
    <3>2. made'[t[1]] \in {made[t[1]], made[t[1]] + 1}
      BY <1>1, <3>1
    <3> QED BY <3>1, <3>2
  <2>2. CASE t \notin DOMAIN tasks
    <3>1. PICK c \in new : t = task(c)
      BY <1>1, <2>2
    <3>2. t[1] = c /\ t[2] = made[c] + 1 /\ made'[c] = made[c] + 1
      BY <1>1, <1>2, <3>1
    <3> QED BY <1>2, <3>1, <3>2
  <2> QED BY <2>1, <2>2
<1>9. ASSUME AllLive PROVE AllLive'
  <2> SUFFICES ASSUME NEW t \in DOMAIN tasks'
               PROVE  /\ tasks'[t].state = "live"
                      /\ t[1] \in DOMAIN tailers' /\ tailers'[t[1]] = t
    BY DEF AllLive, Registered
  <2>1. CASE t \in DOMAIN tasks
    <3>1. tasks[t].state = "live" /\ t[1] \in DOMAIN tailers /\ tailers[t[1]] = t
      BY <1>9, <2>1 DEF AllLive, Registered
    <3>2. t[1] \notin new
      BY <3>1 DEF new
    <3> QED BY <1>1, <2>1, <3>1, <3>2
  <2>2. CASE t \notin DOMAIN tasks
    <3>1. PICK c \in new : t = task(c)
      BY <1>1, <2>2
    <3> QED BY <1>1, <1>2, <2>2, <3>1
  <2> QED BY <2>1, <2>2
<1> QED BY <1>3, <1>4, <1>5, <1>6, <1>7, <1>8, <1>9, <1>2 DEF RegistryOK

\* _stop_tailer cancels the one task of its container and unregisters it.
LEMMA CancelKeeps ==
  ASSUME RegistryOK, client' = client, NEW c \in DOMAIN tailers,
         CancelTailer(c)
  PROVE  /\ RegistryOK'
         /\ tailers[c] \in Task
         /\ AllLive =>
              \A t \in DOMAIN tasks' :
                \/ tasks'[t].state = "live" /\ Registered(t)'
                \/ /\ t = tailers[c]
                   /\ tasks'[t].state = "cancelled" /\ t[1] \notin DOMAIN tailers'
<1> DEFINE u == tailers[c]
<1>1. /\ u \in DOMAIN tasks /\ u[1] = c /\ u \in Task
      /\ tasks[u] \in [client : 1 .. client, state : {"live", "cancelled", "done"}]
  BY DEF RegistryOK
<1>2. /\ DOMAIN tasks' = DOMAIN tasks
      /\ \A t \in DOMAIN tasks \ {u} : tasks'[t] = tasks[t]
      /\ tasks'[u] \in [client : 1 .. client, state : {"live", "cancelled", "done"}]
      /\ tasks[u].state = "live" => tasks'[u].state = "cancelled"
  BY <1>1 DEF CancelTailer
<1>3. tailers' = [d \in DOMAIN tailers \ {c} |-> tailers[d]] /\ made' = made
  BY DEF CancelTailer, Without
<1>4. RegistryOK'
  BY <1>1, <1>2, <1>3 DEF RegistryOK, TasksNumbered
<1>5. ASSUME AllLive, NEW t \in DOMAIN tasks'
      PROVE  \/ tasks'[t].state = "live" /\ Registered(t)'
             \/ /\ t = u
                /\ tasks'[t].state = "cancelled" /\ t[1] \notin DOMAIN tailers'
  <2>1. tasks[t].state = "live" /\ t[1] \in DOMAIN tailers /\ tailers[t[1]] = t
    BY <1>2, <1>5 DEF AllLive, Registered
  <2>2. CASE t = u
    BY <1>1, <1>2, <1>3, <2>1, <2>2
  <2>3. CASE t # u
    <3>1. t[1] # c
      BY <2>1, <2>3
    <3>2. tasks'[t].state = "live" /\ t[1] \in DOMAIN tailers' /\ tailers'[t[1]] = t
      BY <1>2, <1>3, <1>5, <2>1, <2>3, <3>1
    <3> QED BY <3>2 DEF Registered
  <2> QED BY <2>2, <2>3
<1> QED BY <1>1, <1>4, <1>5

\* A task whose state alone changes, or that is forgotten by its callback: the
\* registry stays well formed.
LEMMA EndsKeep ==
  ASSUME RegistryOK, client' = client, NEW t \in DOMAIN tasks,
         UNCHANGED <<tailers, made>>,
         tasks' = [tasks EXCEPT ![t].state = "done"]
  PROVE  RegistryOK'
<1>1. /\ tasks[t] \in [client : 1 .. client, state : {"live", "cancelled", "done"}]
      /\ DOMAIN tasks' = DOMAIN tasks
      /\ \A u \in DOMAIN tasks \ {t} : tasks'[u] = tasks[u]
      /\ tasks'[t] \in [client : 1 .. client, state : {"live", "cancelled", "done"}]
  BY DEF RegistryOK
<1> QED BY <1>1 DEF RegistryOK, TasksNumbered

LEMMA ForgetKeeps ==
  ASSUME RegistryOK, client' = client, made' = made, NEW t \in DOMAIN tasks,
         tasks' = Without(tasks, t), tailers' = Without(tailers, t[1])
  PROVE  RegistryOK'
<1>1. /\ DOMAIN tasks' = DOMAIN tasks \ {t}
      /\ \A u \in DOMAIN tasks' : tasks'[u] = tasks[u]
      /\ DOMAIN tailers' = DOMAIN tailers \ {t[1]}
      /\ \A c \in DOMAIN tailers' : tailers'[c] = tailers[c]
  BY DEF Without
<1>2. \A c \in DOMAIN tailers' : tailers'[c] # t
  BY <1>1 DEF RegistryOK
<1> QED BY <1>1, <1>2 DEF RegistryOK, TasksNumbered

-----------------------------------------------------------------------------
\* Invariance.

LEMMA InitIInv == ASSUME SupervisorAssumption, Init PROVE IInv
<1> USE DEF Init
<1>1. TypeOK
  <2>1. events \in Seq({"start", "die", "restart"} \X Containers)
    BY EmptySeq
  <2>2. made \in [Containers -> Nat]
    OBVIOUS
  <2>3. cleaning \in [{"run", "stop"} -> [todo : SUBSET Containers,
                                         task : Task \cup {None}]]
    BY DEF Idle
  <2>4. consumer \in [at : {"read", "stopping", "finished", "failed"},
                      task : Task \cup {None}, restart : Containers \cup {None}]
    BY DEF Ended, Reading
  <2>5. DOMAIN tasks = {} /\ DOMAIN tailers = {}
    OBVIOUS
  <2>6. up \subseteq Containers /\ client \in Nat \ {0}
    OBVIOUS
  <2> QED BY <2>1, <2>2, <2>3, <2>4, <2>5, <2>6 DEF TypeOK
<1>2. TasksNumbered /\ PhasesAgree /\ TasksAccounted
  BY DEF TasksNumbered, PhasesAgree, TasksAccounted, Ended, Reading
<1> QED BY <1>1, <1>2 DEF IInv

\* The types of what is not in the registry.
RestOK ==
  /\ up \subseteq Containers
  /\ stream \in {"none", "open", "eof", "broken", "hung"}
  /\ events \in Seq({"start", "die", "restart"} \X Containers)
  /\ stopped \in BOOLEAN /\ open \in BOOLEAN /\ heartbeatFailed \in BOOLEAN
  /\ pc \in {"list", "open", "watch", "leave", "cleanup", "ended"}
  /\ client \in Nat \ {0}
  /\ consumer \in [at : {"read", "stopping", "finished", "failed"},
                   task : Task \cup {None}, restart : Containers \cup {None}]
  /\ cleaning \in [{"run", "stop"} -> [todo : SUBSET Containers,
                                      task : Task \cup {None}]]
  /\ stopper \in {"idle", "cleanup", "done"}

LEMMA TypesSplit == TypeOK /\ TasksNumbered <=> RegistryOK /\ RestOK
BY DEF TypeOK, RegistryOK, RestOK

LEMMA TypesSplitPrimed ==
  (TypeOK /\ TasksNumbered)' <=> RegistryOK' /\ RestOK'
BY DEF TypeOK, RegistryOK, RestOK

\* A step that leaves the registry alone and whoever waits waiting.
LEMMA RegistryAloneKeeps ==
  ASSUME IInv, UNCHANGED registry, client' \in Nat, client <= client',
         stopped => stopped',
         \A t \in DOMAIN tasks : Awaited(t) => Awaited(t)'
  PROVE  RegistryOK' /\ TasksAccounted'
<1>1. RegistryOK /\ client \in Nat
  BY TypesSplit DEF IInv, RestOK
<1>2. RegistryOK'
  BY <1>1 DEF RegistryOK, TasksNumbered, registry
<1>3. TasksAccounted'
  BY DEF IInv, TasksAccounted, Registered, registry
<1> QED BY <1>2, <1>3

LEMMA Together ==
  ASSUME RegistryOK', RestOK', PhasesAgree', TasksAccounted'
  PROVE  IInv'
BY TypesSplitPrimed DEF IInv

LEMMA ChangeKeeps ==
  ASSUME SupervisorAssumption, IInv, NEW c \in Containers, Change(c)
  PROVE  IInv'
<1> DEFINE Lines == {"start", "die", "restart"} \X Containers
<1>1. RestOK
  BY TypesSplit DEF IInv
<1>2. ASSUME NEW lines \in Seq(Lines), Emit(lines)
      PROVE  events' \in Seq(Lines)
  BY <1>1, <1>2, ConcatProperties DEF Emit, RestOK
<1>3. events' \in Seq(Lines)
  <2>1. /\ <<"start", c>> \in Lines /\ <<"die", c>> \in Lines
        /\ <<"restart", c>> \in Lines
    OBVIOUS
  <2> HIDE DEF Lines
  <2>2. /\ << <<"start", c>> >> \in Seq(Lines) /\ << <<"die", c>> >> \in Seq(Lines)
        /\ << <<"die", c>>, <<"start", c>>, <<"restart", c>> >> \in Seq(Lines)
    BY <2>1
  <2> QED BY <1>2, <2>2 DEF Change
<1>4. RestOK'
  BY <1>1, <1>3 DEF Change, RestOK
<1>5. PhasesAgree'
  BY DEF IInv, PhasesAgree, Change
<1>6. RegistryOK' /\ TasksAccounted'
  BY <1>1, RegistryAloneKeeps DEF Change, Awaited, RestOK
<1> QED BY <1>4, <1>5, <1>6, Together

LEMMA StreamFailsKeeps ==
  ASSUME SupervisorAssumption, IInv, StreamFails
  PROVE  IInv'
<1>1. RestOK
  BY TypesSplit DEF IInv
<1>2. RestOK'
  BY <1>1 DEF StreamFails, RestOK
<1>3. PhasesAgree'
  BY DEF IInv, PhasesAgree, StreamFails
<1>4. RegistryOK' /\ TasksAccounted'
  BY <1>1, RegistryAloneKeeps DEF StreamFails, Awaited, RestOK
<1> QED BY <1>2, <1>3, <1>4, Together

\* A cancelled task that ends stays awaited.
LEMMA TailerEndsKeeps ==
  ASSUME SupervisorAssumption, IInv, NEW t \in DOMAIN tasks, TailerEnds(t)
  PROVE  IInv'
<1>1. RestOK /\ RegistryOK
  BY TypesSplit DEF IInv
<1>2. RestOK' /\ PhasesAgree'
  BY <1>1 DEF TailerEnds, RestOK, IInv, PhasesAgree, daemon
<1>3. RegistryOK'
  BY <1>1, EndsKeep DEF TailerEnds
<1>4. TasksAccounted'
  <2>1. /\ DOMAIN tasks' = DOMAIN tasks
        /\ \A u \in DOMAIN tasks \ {t} : tasks'[u] = tasks[u]
        /\ tasks[t].state = "cancelled" /\ tasks'[t].state = "done"
    BY <1>1 DEF TailerEnds, RegistryOK
  <2>2. UNCHANGED <<stopped, tailers, consumer, pc, cleaning>>
    BY DEF TailerEnds
  <2> QED BY <2>1, <2>2 DEF IInv, TasksAccounted, Registered, Awaited
<1> QED BY <1>2, <1>3, <1>4, Together

\* The done callback finds no task registered for its container.
LEMMA TailerForgottenKeeps ==
  ASSUME SupervisorAssumption, IInv, NEW t \in DOMAIN tasks, TailerForgotten(t)
  PROVE  IInv'
<1>1. RestOK /\ RegistryOK
  BY TypesSplit DEF IInv
<1>2. RestOK' /\ PhasesAgree'
  BY <1>1 DEF TailerForgotten, RestOK, IInv, PhasesAgree, daemon
<1>3. RegistryOK'
  BY <1>1, ForgetKeeps DEF TailerForgotten
<1>4. TasksAccounted'
  <2>1. /\ DOMAIN tasks' = DOMAIN tasks \ {t}
        /\ \A u \in DOMAIN tasks' : tasks'[u] = tasks[u]
        /\ DOMAIN tailers' = DOMAIN tailers \ {t[1]}
        /\ \A c \in DOMAIN tailers' : tailers'[c] = tailers[c]
        /\ tasks[t].state = "done"
    BY DEF TailerForgotten, Without
  <2>2. UNCHANGED <<stopped, consumer, pc, cleaning>>
    BY DEF TailerForgotten
  <2>3. ~ stopped => t[1] \notin DOMAIN tailers
    BY <2>1 DEF IInv, TasksAccounted
  <2> QED BY <2>1, <2>2, <2>3 DEF IInv, TasksAccounted, Registered, Awaited
<1> QED BY <1>2, <1>3, <1>4, Together

\* The next event starts a tailer, or cancels one and waits for it: nobody was
\* awaited before.
LEMMA ConsumeKeeps ==
  ASSUME SupervisorAssumption, IInv, Consume
  PROVE  IInv'
<1> DEFINE Lines == {"start", "die", "restart"} \X Containers
<1>1. RestOK /\ RegistryOK
  BY TypesSplit DEF IInv
<1>2. /\ consumer.at = "read" /\ pc \in {"watch", "leave"}
      /\ UNCHANGED <<up, stream, stopped, pc, client, open, heartbeatFailed,
                     cleaning, stopper>>
  BY DEF Consume, IInv, PhasesAgree
<1>3. \A t \in DOMAIN tasks : ~ Awaited(t)
  BY <1>2 DEF Awaited
<1>4. ~ stopped => AllLive
  BY <1>3, NobodyAwaited
<1>5. CASE events # <<>>
  <2>1. /\ events \in Seq(Lines) /\ events' = Tail(events)
        /\ Head(events) \in Lines /\ events' \in Seq(Lines)
    <3>1. events \in Seq(Lines)
      BY <1>1 DEF RestOK
    <3>2. events' = Tail(events)
      BY <1>5 DEF Consume
    <3> HIDE DEF Lines
    <3> QED BY <1>5, <3>1, <3>2, HeadTailProperties
  <2>2. PICK action \in {"start", "die", "restart"}, c \in Containers :
          action = Head(events)[1] /\ c = Head(events)[2]
    BY <2>1
  <2>3. CASE stopped /\ consumer' = Ended("finished") /\ UNCHANGED registry
    <3>1. RestOK'
      BY <1>1, <1>2, <2>1, <2>3 DEF RestOK, Ended, Reading
    <3>2. PhasesAgree'
      BY <1>2, <2>3 DEF IInv, PhasesAgree, Ended, Reading
    <3>3. RegistryOK' /\ TasksAccounted'
      BY <1>1, <1>2, <1>3, <2>3, RegistryAloneKeeps DEF RestOK
    <3> QED BY <3>1, <3>2, <3>3, Together
  <2>4. CASE \E cs \in SUBSET Containers : StartTailers(cs) /\ UNCHANGED consumer
    <3>1. RestOK'
      BY <1>1, <1>2, <2>1, <2>4 DEF RestOK
    <3>2. PhasesAgree'
      BY <1>2, <2>4 DEF IInv, PhasesAgree
    <3>3. RegistryOK' /\ (AllLive => AllLive')
      BY <1>1, <1>2, <2>4, StartKeeps DEF RestOK
    <3>4. TasksAccounted'
      BY <1>2, <1>4, <3>3 DEF TasksAccounted, AllLive
    <3> QED BY <3>1, <3>2, <3>3, <3>4, Together
  <2>5. CASE /\ ~ stopped /\ c \in DOMAIN tailers /\ CancelTailer(c)
             /\ consumer' = [at |-> "stopping", task |-> tailers[c],
                             restart |-> IF action = "restart" THEN c ELSE None]
    <3>1. RegistryOK' /\ tailers[c] \in Task
      BY <1>1, <1>2, <2>5, CancelKeeps
    <3>2. RestOK'
      BY <1>1, <1>2, <2>1, <2>5, <3>1 DEF RestOK
    <3>3. PhasesAgree'
      BY <1>2, <2>5 DEF IInv, PhasesAgree
    <3>4. TasksAccounted'
      <4>1. PICK u : u = tailers[c]
        OBVIOUS
      <4>2. \A t \in DOMAIN tasks' :
              \/ tasks'[t].state = "live" /\ Registered(t)'
              \/ /\ t = u
                 /\ tasks'[t].state = "cancelled" /\ t[1] \notin DOMAIN tailers'
        BY <1>1, <1>2, <1>4, <2>5, <4>1, CancelKeeps
      <4>3. consumer'.at = "stopping" /\ consumer'.task = u
        BY <2>5, <4>1
      <4> QED BY <4>2, <4>3 DEF TasksAccounted, Awaited
    <3> QED BY <3>1, <3>2, <3>3, <3>4, Together
  <2>6. \/ stopped /\ consumer' = Ended("finished") /\ UNCHANGED registry
        \/ \E cs \in SUBSET Containers : StartTailers(cs) /\ UNCHANGED consumer
        \/ /\ ~ stopped /\ c \in DOMAIN tailers /\ CancelTailer(c)
           /\ consumer' = [at |-> "stopping", task |-> tailers[c],
                           restart |-> IF action = "restart" THEN c ELSE None]
    <3>1. /\ {c} \in SUBSET Containers
          /\ (IF action = "restart" THEN {c} ELSE {}) \in SUBSET Containers
      OBVIOUS
    <3>2. \/ stopped /\ consumer' = Ended("finished") /\ UNCHANGED registry
          \/ StartTailers({c}) /\ UNCHANGED consumer
          \/ /\ ~ stopped /\ c \in DOMAIN tailers /\ CancelTailer(c)
             /\ consumer' = [at |-> "stopping", task |-> tailers[c],
                             restart |-> IF action = "restart" THEN c ELSE None]
          \/ /\ StartTailers(IF action = "restart" THEN {c} ELSE {})
             /\ UNCHANGED consumer
      BY <1>5, <2>2 DEF Consume
    <3> QED BY <3>1, <3>2
  <2> QED BY <2>3, <2>4, <2>5, <2>6
<1>6. CASE events = <<>>
  <2>1. UNCHANGED <<events, registry>> /\ consumer' \in {Ended("finished"), Ended("failed")}
    BY <1>6 DEF Consume
  <2>2. RestOK'
    BY <1>1, <1>2, <2>1 DEF RestOK, Ended, Reading
  <2>3. PhasesAgree'
    BY <1>2, <2>1 DEF IInv, PhasesAgree, Ended, Reading
  <2>4. RegistryOK' /\ TasksAccounted'
    BY <1>1, <1>2, <1>3, <2>1, RegistryAloneKeeps DEF RestOK
  <2> QED BY <2>2, <2>3, <2>4, Together
<1> QED BY <1>5, <1>6

\* The tailer the consumer waited for is gone, so that all that are left live.
LEMMA ConsumerResumesKeeps ==
  ASSUME SupervisorAssumption, IInv, ConsumerResumes
  PROVE  IInv'
<1>1. RestOK /\ RegistryOK
  BY TypesSplit DEF IInv
<1>2. /\ consumer.at = "stopping" /\ pc \in {"watch", "leave"}
      /\ consumer.task \notin DOMAIN tasks
      /\ consumer' = Reading
      /\ UNCHANGED <<daemon, stopped, pc, client, open, heartbeatFailed,
                     cleaning, stopper>>
  BY DEF ConsumerResumes, IInv, PhasesAgree
<1>3. ~ stopped => AllLive
  BY <1>2, NobodyAwaited DEF Awaited
<1>4. PICK cs \in SUBSET Containers : StartTailers(cs)
  BY <1>1 DEF ConsumerResumes, RestOK
<1>5. RestOK'
  BY <1>1, <1>2 DEF RestOK, daemon, Reading
<1>6. PhasesAgree'
  BY <1>2 DEF IInv, PhasesAgree
<1>7. RegistryOK' /\ (AllLive => AllLive')
  BY <1>1, <1>2, <1>4, StartKeeps DEF RestOK
<1>8. TasksAccounted'
  BY <1>2, <1>3, <1>7 DEF TasksAccounted, AllLive
<1> QED BY <1>5, <1>6, <1>7, <1>8, Together

LEMMA AttachKeeps ==
  ASSUME SupervisorAssumption, IInv, Attach
  PROVE  IInv'
<1>1. RestOK /\ RegistryOK
  BY TypesSplit DEF IInv
<1>2. /\ pc = "list" /\ pc' = "open"
      /\ consumer.at \notin {"read", "stopping"}
      /\ UNCHANGED <<daemon, stopped, client, open, consumer, heartbeatFailed,
                     cleaning, stopper>>
  BY DEF Attach, IInv, PhasesAgree
<1>3. ~ stopped => AllLive
  BY <1>2, NobodyAwaited DEF Awaited
<1>4. up \in SUBSET Containers /\ StartTailers(up)
  BY <1>1 DEF Attach, RestOK
<1>5. RestOK'
  BY <1>1, <1>2 DEF RestOK, daemon
<1>6. PhasesAgree'
  BY <1>2 DEF IInv, PhasesAgree
<1>7. RegistryOK' /\ (AllLive => AllLive')
  BY <1>1, <1>2, <1>4, StartKeeps DEF RestOK
<1>8. TasksAccounted'
  BY <1>2, <1>3, <1>7 DEF TasksAccounted, AllLive
<1> QED BY <1>5, <1>6, <1>7, <1>8, Together

\* Reconnect leaves the registry alone; run() waits for nobody when it comes
\* to it.
LEMMA ReconnectKeeps ==
  ASSUME SupervisorAssumption, IInv, NEW failed \in BOOLEAN, Reconnect(failed),
         \A t \in DOMAIN tasks : ~ Awaited(t),
         consumer.at \notin {"read", "stopping"},
         UNCHANGED <<up, stopped, consumer, heartbeatFailed, registry, stopper>>,
         stream' \in {"none", stream}, events' \in {<<>>, events}
  PROVE  IInv'
<1>1. RestOK /\ RegistryOK
  BY TypesSplit DEF IInv
<1>2. events' \in Seq({"start", "die", "restart"} \X Containers)
  <2>1. <<>> \in Seq({"start", "die", "restart"} \X Containers)
    BY EmptySeq
  <2>2. events \in Seq({"start", "die", "restart"} \X Containers)
    BY <1>1 DEF RestOK
  <2> QED BY <2>1, <2>2
<1>3. ToClean \in SUBSET Containers
  BY <1>1 DEF ToClean, RegistryOK
<1>4. RestOK'
  <2>1. cleaning' \in [{"run", "stop"} -> [todo : SUBSET Containers,
                                          task : Task \cup {None}]]
    <3>1. cleaning \in [{"run", "stop"} -> [todo : SUBSET Containers,
                                           task : Task \cup {None}]]
      BY <1>1 DEF RestOK
    <3>2. CASE cleaning' = cleaning
      BY <3>1, <3>2
    <3>3. CASE cleaning' = [cleaning EXCEPT !["run"].todo = ToClean]
      BY <1>3, <3>1, <3>3
    <3> QED BY <3>2, <3>3 DEF Reconnect
  <2>2. /\ open' \in BOOLEAN
        /\ pc' \in {"list", "open", "watch", "leave", "cleanup", "ended"}
    BY DEF Reconnect
  <2>3. client' \in Nat \ {0}
    <3>1. client \in Nat \ {0}
      BY <1>1 DEF RestOK
    <3>2. client' = client \/ client' = client + 1
      BY DEF Reconnect
    <3> QED BY <3>1, <3>2
  <2> QED BY <1>1, <1>2, <2>1, <2>2, <2>3 DEF RestOK
<1>5. PhasesAgree'
  BY DEF IInv, PhasesAgree
<1>6. client' \in Nat /\ client <= client'
  BY <1>1 DEF Reconnect, RestOK
<1>7. RegistryOK' /\ TasksAccounted'
  BY <1>6, RegistryAloneKeeps
<1> QED BY <1>4, <1>5, <1>7, Together

LEMMA RequestFailsKeeps ==
  ASSUME SupervisorAssumption, IInv, RequestFails
  PROVE  IInv'
<1>1. /\ pc \in {"list", "open"} /\ Reconnect(TRUE)
      /\ UNCHANGED <<up, stream, events, stopped, consumer, heartbeatFailed,
                     registry, stopper>>
  BY DEF RequestFails
<1>2. consumer.at \notin {"read", "stopping"}
  BY <1>1 DEF IInv, PhasesAgree
<1>3. \A t \in DOMAIN tasks : ~ Awaited(t)
  BY <1>1, <1>2 DEF Awaited
<1> QED BY <1>1, <1>2, <1>3, ReconnectKeeps

LEMMA LeaveKeeps ==
  ASSUME SupervisorAssumption, IInv, Leave
  PROVE  IInv'
<1>1. /\ pc = "leave" /\ consumer.at \in {"finished", "failed"}
      /\ stream' = "none" /\ events' = <<>>
      /\ Reconnect(heartbeatFailed \/ consumer.at = "failed")
      /\ UNCHANGED <<up, stopped, consumer, heartbeatFailed, registry, stopper>>
  BY DEF Leave, ConsumerEnded
<1>2. \A t \in DOMAIN tasks : ~ Awaited(t)
  BY <1>1 DEF Awaited
<1>3. PICK failed \in BOOLEAN : Reconnect(failed)
  BY <1>1
<1> QED BY <1>1, <1>2, <1>3, ReconnectKeeps

LEMMA BackoffKeeps ==
  ASSUME SupervisorAssumption, IInv, Backoff
  PROVE  IInv'
<1>1. /\ pc = "cleanup" /\ cleaning["run"] = Idle /\ Reconnect(FALSE)
      /\ UNCHANGED <<up, stream, events, stopped, consumer, heartbeatFailed,
                     registry, stopper>>
  BY DEF Backoff, daemon
<1>2. consumer.at \notin {"read", "stopping"}
  BY <1>1 DEF IInv, PhasesAgree
<1>3. \A t \in DOMAIN tasks : t # None
  BY DEF IInv, TypeOK, Task, SupervisorAssumption
<1>4. \A t \in DOMAIN tasks : ~ Awaited(t)
  BY <1>1, <1>2, <1>3 DEF Awaited, Idle
<1> QED BY <1>1, <1>2, <1>4, ReconnectKeeps

LEMMA OpenEventsKeeps ==
  ASSUME SupervisorAssumption, IInv, OpenEvents
  PROVE  IInv'
<1>1. RestOK /\ RegistryOK
  BY TypesSplit DEF IInv
<1>2. RestOK'
  BY <1>1, EmptySeq DEF OpenEvents, RestOK, Reading
<1>3. PhasesAgree'
  BY DEF OpenEvents, IInv, PhasesAgree
<1>4. \A t \in DOMAIN tasks : ~ Awaited(t)
  BY DEF Awaited, OpenEvents, IInv, PhasesAgree
<1>5. RegistryOK' /\ TasksAccounted'
  BY <1>1, <1>4, RegistryAloneKeeps DEF OpenEvents, RestOK
<1> QED BY <1>2, <1>3, <1>5, Together

LEMMA HeartbeatKeeps ==
  ASSUME SupervisorAssumption, IInv, Heartbeat
  PROVE  IInv'
<1>1. RestOK /\ RegistryOK
  BY TypesSplit DEF IInv
<1>2. RestOK'
  BY <1>1 DEF Heartbeat, RestOK, daemon, Ended, Reading
<1>3. PhasesAgree'
  BY DEF Heartbeat, IInv, PhasesAgree, Ended, Reading
<1>4. \A t \in DOMAIN tasks : Awaited(t) => Awaited(t)'
  BY DEF Awaited, Heartbeat
<1>5. RegistryOK' /\ TasksAccounted'
  BY <1>1, <1>4, RegistryAloneKeeps DEF Heartbeat, RestOK
<1> QED BY <1>2, <1>3, <1>5, Together

LEMMA WatchEndsKeeps ==
  ASSUME SupervisorAssumption, IInv, WatchEnds
  PROVE  IInv'
<1>1. RestOK /\ RegistryOK
  BY TypesSplit DEF IInv
<1>2. RestOK'
  BY <1>1 DEF WatchEnds, RestOK, daemon, Ended, Reading
<1>3. PhasesAgree'
  BY DEF WatchEnds, IInv, PhasesAgree, Ended, Reading
<1>4. \A t \in DOMAIN tasks : Awaited(t) => Awaited(t)'
  BY DEF Awaited, WatchEnds
<1>5. RegistryOK' /\ TasksAccounted'
  BY <1>1, <1>4, RegistryAloneKeeps DEF WatchEnds, RestOK
<1> QED BY <1>2, <1>3, <1>5, Together

\* stop() makes the promises void.
LEMMA StopKeeps ==
  ASSUME SupervisorAssumption, IInv, Stop
  PROVE  IInv'
<1>1. RestOK /\ RegistryOK
  BY TypesSplit DEF IInv
<1>2. RestOK'
  <2>1. ToClean \in SUBSET Containers
    BY <1>1 DEF ToClean, RegistryOK
  <2>2. cleaning' \in [{"run", "stop"} -> [todo : SUBSET Containers,
                                          task : Task \cup {None}]]
    BY <1>1, <2>1 DEF Stop, RestOK
  <2> QED BY <1>1, <2>2 DEF Stop, RestOK, daemon
<1>3. PhasesAgree'
  BY DEF Stop, IInv, PhasesAgree
<1>4. RegistryOK' /\ TasksAccounted'
  <2>1. \A t \in DOMAIN tasks : Awaited(t) => Awaited(t)'
    BY <1>1 DEF Awaited, Stop, RestOK
  <2> QED BY <1>1, <2>1, RegistryAloneKeeps DEF Stop, RestOK
<1> QED BY <1>2, <1>3, <1>4, Together

\* What a step of a cleanup does: it cancels a tailer and waits for it, or
\* passes one over, or has seen the one it waited for go.
LEMMA CleanTypes ==
  ASSUME RegistryOK, RestOK, NEW p \in {"run", "stop"}, Clean(p), client' = client
  PROVE  /\ RegistryOK'
         /\ cleaning' \in [{"run", "stop"} -> [todo : SUBSET Containers,
                                              task : Task \cup {None}]]
<1>1. cleaning \in [{"run", "stop"} -> [todo : SUBSET Containers,
                                       task : Task \cup {None}]]
  BY DEF RestOK
<1>2. ASSUME NEW c \in DOMAIN tailers, CancelTailer(c),
             cleaning' = [cleaning EXCEPT
               ![p] = [todo |-> @.todo \ {c}, task |-> tailers[c]]]
      PROVE  /\ RegistryOK'
             /\ cleaning' \in [{"run", "stop"} -> [todo : SUBSET Containers,
                                                  task : Task \cup {None}]]
  <2>1. RegistryOK' /\ tailers[c] \in Task
    BY <1>2, CancelKeeps
  <2> QED BY <1>1, <1>2, <2>1
<1>3. ASSUME NEW c, cleaning' = [cleaning EXCEPT ![p].todo = @ \ {c}]
      PROVE  cleaning' \in [{"run", "stop"} -> [todo : SUBSET Containers,
                                               task : Task \cup {None}]]
  BY <1>1, <1>3
<1>4. ASSUME cleaning' = [cleaning EXCEPT ![p].task = None]
      PROVE  cleaning' \in [{"run", "stop"} -> [todo : SUBSET Containers,
                                               task : Task \cup {None}]]
  BY <1>1, <1>4
<1>5. ASSUME UNCHANGED registry PROVE RegistryOK'
  BY <1>5 DEF RegistryOK, TasksNumbered, registry
<1> QED BY <1>2, <1>3, <1>4, <1>5 DEF Clean

LEMMA CleanupKeeps ==
  ASSUME SupervisorAssumption, IInv, Cleanup
  PROVE  IInv'
<1>1. RestOK /\ RegistryOK
  BY TypesSplit DEF IInv
<1>2. /\ pc = "cleanup" /\ Clean("run")
      /\ UNCHANGED <<daemon, stopped, pc, client, open, consumer,
                     heartbeatFailed, stopper>>
      /\ consumer.at \notin {"read", "stopping"}
  BY DEF Cleanup, IInv, PhasesAgree
<1>3. /\ RegistryOK'
      /\ cleaning' \in [{"run", "stop"} -> [todo : SUBSET Containers,
                                           task : Task \cup {None}]]
  BY <1>1, <1>2, CleanTypes
<1>4. RestOK' /\ PhasesAgree'
  BY <1>1, <1>2, <1>3 DEF RestOK, IInv, PhasesAgree, daemon
<1>5. TasksAccounted'
  <2>1. ASSUME NEW c \in DOMAIN tailers, cleaning["run"].task = None, CancelTailer(c),
               cleaning' = [cleaning EXCEPT
                 !["run"] = [todo |-> @.todo \ {c}, task |-> tailers[c]]]
        PROVE  TasksAccounted'
    <3>1. PICK u : u = tailers[c]
      OBVIOUS
    <3>2. \A t \in DOMAIN tasks : t # None
      BY <1>1 DEF RegistryOK, Task, SupervisorAssumption
    <3>3. ~ stopped => AllLive
      BY <1>2, <2>1, <3>2, NobodyAwaited DEF Awaited
    <3>4. AllLive =>
            \A t \in DOMAIN tasks' :
              \/ tasks'[t].state = "live" /\ Registered(t)'
              \/ /\ t = u
                 /\ tasks'[t].state = "cancelled" /\ t[1] \notin DOMAIN tailers'
      BY <1>1, <1>2, <2>1, <3>1, CancelKeeps
    <3>5. cleaning'["run"].task = u /\ pc' = "cleanup" /\ stopped' = stopped
      BY <1>1, <1>2, <2>1, <3>1 DEF RestOK
    <3> QED BY <3>3, <3>4, <3>5 DEF TasksAccounted, Awaited
  <2>2. ASSUME UNCHANGED registry,
               \A t \in DOMAIN tasks :
                 cleaning["run"].task = t => cleaning'["run"].task = t
        PROVE  TasksAccounted'
    <3>1. \A t \in DOMAIN tasks : Awaited(t) => Awaited(t)'
      BY <1>2, <2>2 DEF Awaited
    <3> QED BY <1>1, <1>2, <2>2, <3>1, RegistryAloneKeeps DEF RestOK
  <2>3. ASSUME NEW c, UNCHANGED registry,
               cleaning' = [cleaning EXCEPT !["run"].todo = @ \ {c}]
        PROVE  TasksAccounted'
    BY <1>1, <2>2, <2>3 DEF RestOK
  <2>4. ASSUME UNCHANGED registry, cleaning["run"].task \notin DOMAIN tasks
        PROVE  TasksAccounted'
    BY <2>2, <2>4
  <2> QED BY <1>2, <2>1, <2>3, <2>4 DEF Clean
<1> QED BY <1>3, <1>4, <1>5, Together

LEMMA StopStepKeeps ==
  ASSUME SupervisorAssumption, IInv, StopStep
  PROVE  IInv'
<1>1. RestOK /\ RegistryOK
  BY TypesSplit DEF IInv
<1>2. /\ stopper = "cleanup" /\ stopper' \in {"cleanup", "done"} /\ stopped
      /\ UNCHANGED <<daemon, stopped, pc, client, open, consumer, heartbeatFailed>>
  BY DEF StopStep, IInv, PhasesAgree
<1>3. /\ RegistryOK'
      /\ cleaning' \in [{"run", "stop"} -> [todo : SUBSET Containers,
                                           task : Task \cup {None}]]
  <2>1. CASE Clean("stop")
    BY <1>1, <1>2, <2>1, CleanTypes
  <2>2. CASE UNCHANGED <<cleaning, registry>>
    BY <1>1, <1>2, <2>2 DEF RegistryOK, RestOK, TasksNumbered, registry
  <2> QED BY <2>1, <2>2 DEF StopStep
<1>4. RestOK' /\ PhasesAgree' /\ TasksAccounted'
  BY <1>1, <1>2, <1>3 DEF RestOK, IInv, PhasesAgree, TasksAccounted, daemon
<1> QED BY <1>3, <1>4, Together

LEMMA NextIInv ==
  ASSUME SupervisorAssumption, IInv, [Next]_vars
  PROVE  IInv'
<1>1. CASE UNCHANGED vars
  BY <1>1 DEF vars, daemon, registry, IInv, TypeOK, TasksNumbered, PhasesAgree,
              TasksAccounted, Awaited, Registered
<1>2. ASSUME NEW c \in Containers, Change(c) PROVE IInv'
  BY <1>2, ChangeKeeps
<1>3. CASE StreamFails
  BY <1>3, StreamFailsKeeps
<1>4. CASE Ending
  BY <1>4, TailerEndsKeeps, TailerForgottenKeeps DEF Ending
<1>5. CASE Consume
  BY <1>5, ConsumeKeeps
<1>6. CASE ConsumerResumes
  BY <1>6, ConsumerResumesKeeps
<1>7. CASE Heartbeat
  BY <1>7, HeartbeatKeeps
<1>8. CASE RunStep
  BY <1>8, AttachKeeps, RequestFailsKeeps, OpenEventsKeeps, WatchEndsKeeps,
     LeaveKeeps, CleanupKeeps, BackoffKeeps DEF RunStep
<1>9. CASE Stop
  BY <1>9, StopKeeps
<1>10. CASE StopStep
  BY <1>10, StopStepKeeps
<1> QED BY <1>1, <1>2, <1>3, <1>4, <1>5, <1>6, <1>7, <1>8, <1>9, <1>10 DEF Next

\* The inductive invariant, for any number of containers and of failures.
THEOREM SupervisorInvariant == Spec => []IInv
<1>1. Init => IInv
  BY InitIInv, SupervisorAssumption
<1>2. IInv /\ [Next]_vars => IInv'
  BY NextIInv, SupervisorAssumption
<1> QED BY <1>1, <1>2, PTL DEF Spec

\* The connection, the tasks of the supervisor and the registry of tailers are
\* well formed (docker_collector.py: DockerTailer).
THEOREM SupervisorTypes == Spec => []TypeOK
<1>1. IInv => TypeOK
  BY DEF IInv
<1> QED BY <1>1, SupervisorInvariant, PTL

\* Until stop() is called no container has two tailers at a time, and a tailer
\* that lives can be reached (_start_tailer, _stop_tailer and the done callback).
THEOREM SupervisorOneTailer == Spec => []OneTailer
<1>1. ASSUME IInv PROVE OneTailer
  <2> SUFFICES ASSUME ~ stopped PROVE OneTailer
    BY DEF OneTailer
  <2>1. ASSUME NEW t \in DOMAIN tasks, NEW u \in DOMAIN tasks,
               t # u, t[1] = u[1]
        PROVE  FALSE
    <3>1. CASE Registered(t) /\ Registered(u)
      BY <2>1, <3>1 DEF Registered
    <3>2. CASE Awaited(t) /\ Awaited(u)
      BY <2>1, <3>2, <1>1 DEF Awaited, IInv, PhasesAgree
    <3>3. CASE t[1] \in DOMAIN tailers /\ u[1] \notin DOMAIN tailers
      BY <2>1, <3>3
    <3>4. CASE t[1] \notin DOMAIN tailers /\ u[1] \in DOMAIN tailers
      BY <2>1, <3>4
    <3> QED BY <1>1, <3>1, <3>2, <3>3, <3>4
            DEF IInv, TasksAccounted, Registered
  <2>2. ASSUME NEW t \in DOMAIN tasks, tasks[t].state = "live"
        PROVE  t[1] \in DOMAIN tailers /\ tailers[t[1]] = t
    BY <1>1, <2>2 DEF IInv, TasksAccounted, Registered
  <2> QED BY <2>1, <2>2 DEF OneTailer
<1> QED BY <1>1, SupervisorInvariant, PTL

-----------------------------------------------------------------------------
\* The tailer of a container.

\* Induction over the naturals, for a set.
LEMMA NatSetInduction ==
  ASSUME NEW S, 0 \in S, \A n \in Nat : n \in S => n + 1 \in S
  PROVE  Nat \subseteq S
<1>1. SUFFICES ASSUME Nat \ S # {} PROVE FALSE
  OBVIOUS
<1>2. PICK m \in Nat \ S : \A n \in Nat \ S : <<n, m>> \notin OpToRel(<, Nat)
  BY <1>1, NatLessThanWellFounded, WFMin
<1>3. \A n \in Nat \ S : ~ (n < m)
  BY <1>2 DEF OpToRel
<1>4. m - 1 \in Nat /\ m - 1 < m /\ (m - 1) + 1 = m
  OBVIOUS
<1>5. m - 1 \in S
  BY <1>3, <1>4
<1> QED BY <1>4, <1>5

-----------------------------------------------------------------------------
\* What a request gets.

\* The recursion of LinesSince has a solution.
LEMMA SinceUnfold ==
  ASSUME TailTypeOK, NEW t
  PROVE  \A n \in 0 .. Len(log) :
           LinesSince(t)[n] =
             IF n = 0 THEN <<>>
             ELSE IF log[n].at >= t THEN Append(LinesSince(t)[n - 1], log[n])
                                    ELSE LinesSince(t)[n - 1]
<1> DEFINE Turn(f, n) == IF log[n].at >= t THEN Append(f[n - 1], log[n]) ELSE f[n - 1]
           Solves(f, m) == f = [n \in 0 .. m |-> IF n = 0 THEN <<>> ELSE Turn(f, n)]
           Solved == {m \in Nat : \E f : Solves(f, m)}
<1>1. 0 \in Solved
  <2>1. Solves([n \in 0 .. 0 |-> <<>>], 0)
    OBVIOUS
  <2> QED BY <2>1
<1>2. ASSUME NEW m \in Nat, m \in Solved
      PROVE  m + 1 \in Solved
  <2>1. PICK g : Solves(g, m)
    BY <1>2
  <2> DEFINE h == [n \in 0 .. m + 1 |-> IF n = m + 1 THEN Turn(g, m + 1) ELSE g[n]]
  <2>2. \A n \in 0 .. m : g[n] = IF n = 0 THEN <<>> ELSE Turn(g, n)
    BY <2>1
  <2>3. \A n \in 0 .. m + 1 : h[n] = IF n = 0 THEN <<>> ELSE Turn(h, n)
    <3> TAKE n \in 0 .. m + 1
    <3>1. CASE n = m + 1
      BY <3>1
    <3>2. CASE n # m + 1
      <4>1. n \in 0 .. m /\ (n # 0 => n - 1 \in 0 .. m)
        BY <3>2
      <4> QED BY <2>2, <4>1
    <3> QED BY <3>1, <3>2
  <2>4. Solves(h, m + 1)
    BY <2>3
  <2> HIDE DEF h
  <2> QED BY <2>4
<1>3. Len(log) \in Solved
  BY <1>1, <1>2, NatSetInduction, LenProperties DEF TailTypeOK
<1>4. PICK f : Solves(f, Len(log))
  BY <1>3
<1>5. Solves(LinesSince(t), Len(log))
  BY <1>4 DEF LinesSince
<1> QED BY <1>5

-----------------------------------------------------------------------------
\* The inductive invariant.

\* Lines are numbered as they are logged.
Numbered == \A i \in 1 .. Len(log) : log[i].id = i

\* Lines of the log, oldest first.
FromLog(s) ==
  /\ \A k \in 1 .. Len(s) : s[k].id \in 1 .. Len(log) /\ s[k] = log[s[k].id]
  /\ \A j, k \in 1 .. Len(s) : j < k => s[j].id < s[k].id
Has(s, i) == \E k \in 1 .. Len(s) : s[k].id = i

UnreadFromLog == FromLog(unread) /\ (tailer # "stream" => unread = <<>>)

\* The position is that of a line that was fed.
PositionFed ==
  /\ lastSeen = NoTime <=> first = 0
  /\ first # 0 => \E m \in Fed : log[m].at = lastSeen
  /\ seenAt \subseteq Fed

\* What was logged since the position was set and is not fed will be read.
Pending ==
  tailer = "stream" /\ first # 0 =>
    \A i \in (first .. Len(log)) \ LoggedLate : i \in Fed \/ Has(unread, i)

\* Without a position, what will be read are the last lines of the log, none of
\* which was fed.
Fresh ==
  tailer = "stream" /\ first = 0 =>
    \A k \in 1 .. Len(unread) :
      /\ \A n \in Fed : n < unread[k].id
      /\ \A i \in unread[k].id .. Len(log) : Has(unread, i)

TailInv ==
  /\ TailTypeOK /\ Numbered /\ UnreadFromLog /\ PositionFed
  /\ Pending /\ Fresh /\ ResumesWithoutGap

\* Until a position is given up, no entry is later than it, and those of its
\* time stamp are remembered.
BeforePosition ==
  rejections = 0 =>
    \A i \in DOMAIN entries :
      LET at == log[entries[i].line].at
      IN  at <= lastSeen /\ (at = lastSeen => entries[i].line \in seenAt)

OrderInv == BeforePosition /\ FedOnceInOrder

-----------------------------------------------------------------------------
\* Sequences of lines.

Joined(u, s, x) ==
  /\ u \in Seq(Line) /\ Len(u) = Len(s) + 1 /\ u[Len(s) + 1] = x
  /\ \A k \in 1 .. Len(s) : u[k] = s[k]

LEMMA AppendJoins ==
  ASSUME NEW s \in Seq(Line), NEW x \in Line
  PROVE  Joined(Append(s, x), s, x)
<1>1. /\ Append(s, x) \in Seq(Line) /\ Len(Append(s, x)) = Len(s) + 1
      /\ Append(s, x)[Len(s) + 1] = x
      /\ \A k \in 1 .. Len(s) : Append(s, x)[k] = s[k]
  BY AppendProperties
<1> QED BY ONLY <1>1 DEF Joined

-----------------------------------------------------------------------------
\* Lines of the log.

LEMMA LogFacts ==
  ASSUME TailTypeOK
  PROVE  /\ Len(log) \in Nat /\ Len(unread) \in Nat /\ Len(entries) \in Nat
         /\ DOMAIN log = 1 .. Len(log) /\ DOMAIN entries = 1 .. Len(entries)
         /\ \A i \in 1 .. Len(log) : log[i] \in Line /\ log[i].at \in Nat
         /\ \A i \in 1 .. Len(entries) : entries[i] \in Piece
         /\ Fed \subseteq 1 .. Len(log)
         /\ lastSeen \in Int
<1>1. /\ Len(log) \in Nat /\ Len(unread) \in Nat /\ Len(entries) \in Nat
      /\ DOMAIN log = 1 .. Len(log) /\ DOMAIN entries = 1 .. Len(entries)
  BY LenProperties DEF TailTypeOK
<1>2. \A i \in 1 .. Len(log) : log[i] \in Line
  BY <1>1, ElementOfSeq DEF TailTypeOK
<1>3. \A i \in 1 .. Len(entries) : entries[i] \in Piece
  BY <1>1, ElementOfSeq DEF TailTypeOK
<1>4. \A i \in 1 .. Len(log) : log[i].at \in Nat
  BY <1>2 DEF Line
<1>5. Fed \subseteq 1 .. Len(log)
  BY <1>1, <1>3 DEF Fed, Piece
<1>6. lastSeen \in Int
  BY DEF TailTypeOK, NoTime
<1> QED BY <1>1, <1>2, <1>3, <1>4, <1>5, <1>6

\* Lines of the log up to n that are not older than t, oldest first, all of them.
SinceUpTo(s, n, t) ==
  /\ s \in Seq(Line)
  /\ \A k \in 1 .. Len(s) : s[k].id \in 1 .. n /\ s[k] = log[s[k].id]
  /\ \A j, k \in 1 .. Len(s) : j < k => s[j].id < s[k].id
  /\ \A i \in 1 .. n : log[i].at >= t => Has(s, i)

\* One line more joins them, or is too old.
LEMMA SinceOneMore ==
  ASSUME TailTypeOK, Numbered, NEW s, NEW n \in Nat, n + 1 <= Len(log), NEW t,
         SinceUpTo(s, n, t)
  PROVE  SinceUpTo(IF log[n + 1].at >= t THEN Append(s, log[n + 1]) ELSE s, n + 1, t)
<1>1. n + 1 \in 1 .. Len(log) /\ Len(log) \in Nat
  BY LogFacts
<1>2. log[n + 1] \in Line /\ log[n + 1].id = n + 1
  BY <1>1, LogFacts DEF Numbered
<1>3. s \in Seq(Line) /\ Len(s) \in Nat
  BY LenProperties DEF SinceUpTo
<1>4. CASE log[n + 1].at >= t
  <2>0. PICK x \in Line : x = log[n + 1]
    BY <1>2
  <2>1. PICK u \in Seq(Line) : /\ u = Append(s, log[n + 1]) /\ Len(u) = Len(s) + 1
                               /\ u[Len(s) + 1] = log[n + 1]
                               /\ \A k \in 1 .. Len(s) : u[k] = s[k]
    <3>1. Joined(Append(s, x), s, x)
      BY <1>3, AppendJoins
    <3> QED BY <2>0, <3>1 DEF Joined
  <2>2. \A k \in 1 .. Len(u) : u[k].id \in 1 .. n + 1 /\ u[k] = log[u[k].id]
    <3> TAKE k \in 1 .. Len(u)
    <3>1. CASE k \in 1 .. Len(s)
      BY <2>1, <3>1 DEF SinceUpTo
    <3>2. CASE k = Len(s) + 1
      BY <1>2, <2>1, <3>2
    <3> QED BY <1>3, <2>1, <3>1, <3>2
  <2>3. \A j, k \in 1 .. Len(u) : j < k => u[j].id < u[k].id
    <3> SUFFICES ASSUME NEW j \in 1 .. Len(u), NEW k \in 1 .. Len(u), j < k
                 PROVE  u[j].id < u[k].id
      OBVIOUS
    <3>1. j \in 1 .. Len(s)
      BY <1>3, <2>1
    <3>2. CASE k \in 1 .. Len(s)
      BY <2>1, <3>1, <3>2 DEF SinceUpTo
    <3>3. CASE k = Len(s) + 1
      <4>1. u[j].id \in 1 .. n
        BY <2>1, <3>1 DEF SinceUpTo
      <4> QED BY <1>2, <2>1, <3>3, <4>1
    <3> QED BY <1>3, <2>1, <3>2, <3>3
  <2>4. \A i \in 1 .. n + 1 : log[i].at >= t => Has(u, i)
    <3> SUFFICES ASSUME NEW i \in 1 .. n + 1, log[i].at >= t
                 PROVE  \E k \in 1 .. Len(u) : u[k].id = i
      BY DEF Has
    <3>1. CASE i = n + 1
      <4>1. Len(s) + 1 \in 1 .. Len(u)
        BY <1>3, <2>1
      <4> QED BY <1>2, <2>1, <3>1, <4>1
    <3>2. CASE i \in 1 .. n
      <4>1. PICK k \in 1 .. Len(s) : s[k].id = i
        BY <3>2 DEF SinceUpTo, Has
      <4>2. k \in 1 .. Len(u)
        BY <1>3, <2>1
      <4> QED BY <2>1, <4>1, <4>2
    <3> QED BY <3>1, <3>2
  <2> QED BY <1>4, <2>1, <2>2, <2>3, <2>4 DEF SinceUpTo
<1>5. CASE ~ (log[n + 1].at >= t)
  <2>1. \A k \in 1 .. Len(s) : s[k].id \in 1 .. n + 1
    BY DEF SinceUpTo
  <2>2. \A i \in 1 .. n + 1 : log[i].at >= t => i \in 1 .. n
    BY <1>5
  <2> QED BY <1>5, <2>1, <2>2 DEF SinceUpTo
<1> QED BY <1>4, <1>5

\* A request gets the lines since its time in the order of the log.
LEMMA SinceInOrder ==
  ASSUME TailTypeOK, Numbered, NEW t
  PROVE  /\ LoggedSince(t) \in Seq(Line) /\ FromLog(LoggedSince(t))
         /\ \A i \in 1 .. Len(log) : log[i].at >= t => Has(LoggedSince(t), i)
<1> DEFINE Good == {n \in Nat : n <= Len(log) => SinceUpTo(LinesSince(t)[n], n, t)}
<1>1. Len(log) \in Nat
  BY LogFacts
<1>2. 0 \in Good
  <2>1. 0 \in 0 .. Len(log)
    BY <1>1
  <2>2. LinesSince(t)[0] = <<>>
    BY <2>1, SinceUnfold
  <2>3. SinceUpTo(<<>>, 0, t)
    BY EmptySeq DEF SinceUpTo
  <2> QED BY <2>2, <2>3
<1>3. ASSUME NEW n \in Nat, n \in Good
      PROVE  n + 1 \in Good
  <2> SUFFICES ASSUME n + 1 <= Len(log)
               PROVE  SinceUpTo(LinesSince(t)[n + 1], n + 1, t)
    OBVIOUS
  <2>1. SinceUpTo(LinesSince(t)[n], n, t)
    BY <1>1, <1>3
  <2>2. n + 1 \in 0 .. Len(log) /\ n + 1 # 0 /\ (n + 1) - 1 = n
    BY <1>1
  <2>3. LinesSince(t)[n + 1] = IF log[n + 1].at >= t THEN Append(LinesSince(t)[n], log[n + 1])
                                                     ELSE LinesSince(t)[n]
    BY <2>2, SinceUnfold
  <2> QED BY <2>1, <2>3, SinceOneMore
<1>4. Len(log) \in Good
  BY <1>1, <1>2, <1>3, NatSetInduction
<1>5. SinceUpTo(LoggedSince(t), Len(log), t)
  BY <1>1, <1>4 DEF LoggedSince
<1> QED BY <1>5 DEF SinceUpTo, FromLog

-----------------------------------------------------------------------------
\* What the actions do to the log, to what is read of it and to the entries.

LEMMA LogAppends ==
  ASSUME TailTypeOK, NEW pieces \in Fragments, Log(pieces)
  PROVE  \E x \in Line :
           /\ x.id = Len(log) + 1 /\ Len(log) + 1 \in 1 .. MaxLines
           /\ Joined(log', log, x)
           /\ unread' = unread \/ Joined(unread', unread, x)
           /\ tailer = "stream" => Joined(unread', unread, x)
<1>1. /\ Len(log) \in Nat /\ MaxLines \in Nat /\ MaxTime \in Nat
      /\ log \in Seq(Line) /\ unread \in Seq(Line) /\ time \in 0 .. MaxTime
  BY LogFacts, TailAssumption DEF TailTypeOK
<1>2. Len(log) < MaxLines
  BY DEF Log
<1>3. Len(log) + 1 \in 1 .. MaxLines
  BY <1>1, <1>2
<1>4. PICK at \in 0 .. time :
        /\ log' = Append(log, [id |-> Len(log) + 1, at |-> at, pieces |-> pieces])
        /\ unread' = IF tailer = "stream"
                     THEN Append(unread, [id |-> Len(log) + 1, at |-> at, pieces |-> pieces])
                     ELSE unread
  BY DEF Log
<1>5. at \in 0 .. MaxTime
  BY <1>1
<1>6. PICK x \in Line : x = [id |-> Len(log) + 1, at |-> at, pieces |-> pieces]
  BY <1>3, <1>5 DEF Line
<1>7. log' = Append(log, x) /\ (unread' = IF tailer = "stream" THEN Append(unread, x) ELSE unread)
  BY <1>4, <1>6
<1>8. Joined(Append(log, x), log, x) /\ Joined(Append(unread, x), unread, x)
  BY <1>1, AppendJoins
<1>9. x.id = Len(log) + 1
  BY <1>6
<1> QED BY <1>3, <1>7, <1>8, <1>9

\* The first of the unread lines is taken off.
Taken(t, s, x) ==
  /\ s \in Seq(Line) /\ t \in Seq(Line) /\ x \in Line
  /\ Len(s) \in Nat /\ Len(s) >= 1 /\ Len(t) = Len(s) - 1 /\ x = s[1]
  /\ \A k \in 1 .. Len(t) : t[k] = s[k + 1]

LEMMA TailTakes ==
  ASSUME NEW s \in Seq(Line), s # <<>>
  PROVE  Taken(Tail(s), s, Head(s))
<1>1. /\ Head(s) \in Line /\ Tail(s) \in Seq(Line) /\ Len(Tail(s)) = Len(s) - 1
      /\ \A k \in 1 .. Len(Tail(s)) : Tail(s)[k] = s[k + 1]
  BY HeadTailProperties
<1>2. Len(s) \in Nat /\ Len(s) >= 1
  BY EmptySeq
<1>3. Head(s) = s[1]
  OBVIOUS
<1> QED BY ONLY <1>1, <1>2, <1>3 DEF Taken

\* Entries of one line are fed.
Feeds(t, s, n, count) ==
  /\ Len(t) = Len(s) + count
  /\ \A i \in 1 .. Len(s) : t[i] = s[i]
  /\ \A i \in Len(s) + 1 .. Len(s) + count : t[i].line = n

Dropped(line) == IF IsReplay(line) THEN 1 ELSE 0

LEMMA ProcessFeeds ==
  ASSUME TailTypeOK, UnreadFromLog, Process
  PROVE  \E x \in Line :
           /\ Taken(unread', unread, x)
           /\ x.id \in 1 .. Len(log) /\ x = log[x.id]
           /\ entries' \in Seq(Piece)
           /\ Feeds(entries', entries, x.id, x.pieces - Dropped(x))
           /\ x.pieces - Dropped(x) \in Nat /\ x.pieces \in Nat
           /\ IsReplay(x) => UNCHANGED <<position, first>>
           /\ ~ IsReplay(x) =>
                /\ x.pieces - Dropped(x) >= 1
                /\ lastSeen' = x.at /\ seenAt' = SeenWith(x)
                /\ first' = IF first = 0 THEN x.id ELSE first
<1>1. unread \in Seq(Line) /\ unread # <<>> /\ entries \in Seq(Piece)
  BY DEF Process, TailTypeOK
<1>2. PICK x \in Line : x = Head(unread)
  BY <1>1, HeadTailProperties
<1>3. Taken(unread', unread, x)
  BY <1>1, <1>2, TailTakes DEF Process
<1>4. x.id \in 1 .. Len(log) /\ x = log[x.id]
  <2>1. 1 \in 1 .. Len(unread) /\ x = unread[1]
    BY <1>3 DEF Taken
  <2> QED BY <2>1 DEF UnreadFromLog, FromLog
<1>5. x.pieces \in Nat \ {0}
  BY TailAssumption DEF Line
<1>6. PICK count \in Nat : count = x.pieces - Dropped(x)
  BY <1>5 DEF Dropped
<1>7. ~ IsReplay(x) => count >= 1
  BY <1>5, <1>6 DEF Dropped
<1>8. PICK from \in 1 .. 2 : from = (IF IsReplay(x) THEN 2 ELSE 1)
  OBVIOUS
<1>9. x.pieces - from + 1 = count
  BY <1>5, <1>6, <1>8 DEF Dropped
<1>10. PICK new : new = [i \in 1 .. count |-> [line |-> x.id, piece |-> from + i - 1]]
  OBVIOUS
<1>11. entries' = entries \o new
  BY <1>2, <1>8, <1>9, <1>10 DEF Process
<1>12. new \in Seq(Piece) /\ Len(new) = count /\ \A i \in 1 .. count : new[i].line = x.id
  <2>1. \A i \in 1 .. count : [line |-> x.id, piece |-> from + i - 1] \in Piece
    BY <1>4, <1>8 DEF Piece
  <2>2. /\ new \in [1 .. count -> Piece]
        /\ \A i \in 1 .. count : new[i].line = x.id
    BY <1>10, <2>1
  <2> HIDE DEF Piece
  <2>3. new \in Seq(Piece) /\ Len(new) = count
    BY ONLY <1>6, <2>2
  <2> QED BY <2>2, <2>3
<1>13. entries' \in Seq(Piece) /\ Feeds(entries', entries, x.id, count)
  <2>0. Len(entries) \in Nat
    BY LogFacts
  <2>1. /\ entries' \in Seq(Piece) /\ Len(entries') = Len(entries) + count
        /\ \A i \in 1 .. Len(entries) + count :
             entries'[i] = IF i <= Len(entries) THEN entries[i] ELSE new[i - Len(entries)]
    BY <1>1, <1>11, <1>12, ConcatProperties
  <2>2. \A i \in 1 .. Len(entries) : entries'[i] = entries[i]
    BY <2>0, <2>1
  <2>3. \A i \in Len(entries) + 1 .. Len(entries) + count : entries'[i].line = x.id
    <3> TAKE i \in Len(entries) + 1 .. Len(entries) + count
    <3>1. i \in 1 .. Len(entries) + count /\ ~ (i <= Len(entries))
          /\ i - Len(entries) \in 1 .. count
      BY <2>0
    <3> QED BY <1>12, <2>1, <3>1
  <2> QED BY ONLY <2>1, <2>2, <2>3 DEF Feeds
<1>14. IsReplay(x) => UNCHANGED <<position, first>>
  BY <1>2 DEF Process
<1>15. ~ IsReplay(x) => /\ lastSeen' = x.at /\ seenAt' = SeenWith(x)
                        /\ first' = IF first = 0 THEN x.id ELSE first
  BY <1>2 DEF Process
<1> QED BY <1>3, <1>4, <1>5, <1>6, <1>7, <1>13, <1>14, <1>15

LEMMA FedAfter ==
  ASSUME TailTypeOK, NEW n, NEW count \in Nat, entries' \in Seq(Piece),
         Feeds(entries', entries, n, count)
  PROVE  /\ Fed \subseteq Fed' /\ Fed' \subseteq Fed \cup {n}
         /\ count >= 1 => n \in Fed'
<1>1. /\ Len(entries) \in Nat /\ DOMAIN entries = 1 .. Len(entries)
      /\ DOMAIN entries' = 1 .. Len(entries')
  BY LogFacts, LenProperties
<1>2. \A i \in 1 .. Len(entries) : i \in 1 .. Len(entries') /\ entries'[i] = entries[i]
  BY <1>1 DEF Feeds
<1>3. \A i \in 1 .. Len(entries') :
        i \in 1 .. Len(entries) \/ (i \in Len(entries) + 1 .. Len(entries) + count
                                    /\ entries'[i].line = n)
  BY <1>1 DEF Feeds
<1>4. Fed \subseteq Fed'
  BY <1>1, <1>2 DEF Fed
<1>5. Fed' \subseteq Fed \cup {n}
  BY <1>1, <1>2, <1>3 DEF Fed
<1>6. ASSUME count >= 1 PROVE n \in Fed'
  <2>1. Len(entries) + 1 \in 1 .. Len(entries') /\ entries'[Len(entries) + 1].line = n
    BY <1>1, <1>6 DEF Feeds
  <2> QED BY <1>1, <2>1 DEF Fed
<1> QED BY <1>4, <1>5, <1>6

-----------------------------------------------------------------------------
\* Types

LEMMA TypeStep ==
  ASSUME TailTypeOK, Numbered, UnreadFromLog, [TailNext]_tailVars
  PROVE  TailTypeOK'
<1>1. /\ Len(log) \in Nat /\ log \in Seq(Line) /\ unread \in Seq(Line)
      /\ {MaxLines, MaxTime, MaxBreaks, MaxDeaths, MaxRejections} \subseteq Nat
  BY LogFacts, TailAssumption DEF TailTypeOK
<1>2. ASSUME NEW pieces \in Fragments, Log(pieces) PROVE TailTypeOK'
  <2>1. PICK x \in Line :
           /\ x.id = Len(log) + 1 /\ Len(log) + 1 \in 1 .. MaxLines
           /\ Joined(log', log, x)
           /\ unread' = unread \/ Joined(unread', unread, x)
    BY <1>2, LogAppends
  <2>2. UNCHANGED <<time, tailer, position, entries, first, counts>>
    BY <1>2 DEF Log
  <2>3. log' \in Seq(Line) /\ unread' \in Seq(Line)
    BY <1>1, <2>1 DEF Joined
  <2>4. Len(log') = Len(log) + 1 /\ \A i \in 1 .. Len(log) : log'[i] = log[i]
    BY <2>1 DEF Joined
  <2>5. \A i \in 1 .. Len(log) : i \in 1 .. Len(log')
    BY <1>1, <2>4
  <2>6. entries' \in Seq(Piece')
    <3>1. Piece \subseteq Piece'
      BY <2>5 DEF Piece
    <3>2. entries \in Seq(Piece) /\ entries' = entries
      BY <2>2 DEF TailTypeOK
    <3> QED BY <3>1, <3>2, SeqMonotonic
  <2>7. /\ seenAt' \subseteq 1 .. Len(log')
        /\ lastSeen' # NoTime => \A n \in seenAt' : log'[n].at = lastSeen'
    BY <2>2, <2>4, <2>5 DEF TailTypeOK, position
  <2>8. first' \in 0 .. Len(log')
    BY <1>1, <2>2, <2>4 DEF TailTypeOK
  <2>9. /\ time' \in 0 .. MaxTime /\ tailer' \in {"request", "stream", "down"}
        /\ lastSeen' \in {NoTime} \cup 0 .. MaxTime
        /\ breaks' \in 0 .. MaxBreaks /\ deaths' \in 0 .. MaxDeaths
        /\ rejections' \in 0 .. MaxRejections
    BY <2>2 DEF TailTypeOK, position, counts
  <2> QED BY <2>3, <2>6, <2>7, <2>8, <2>9 DEF TailTypeOK
<1>3. CASE Tick
  <2>1. time' \in 0 .. MaxTime
    BY <1>1, <1>3 DEF Tick, TailTypeOK
  <2>2. UNCHANGED <<log, tailer, unread, position, entries, first, counts>>
    BY <1>3 DEF Tick
  <2> QED BY <2>1, <2>2 DEF TailTypeOK, Piece, position, counts
<1>4. CASE Request
  <2>1. unread' \in Seq(Line)
    <3>1. PICK s : s = LoggedSince(UnixSecond(lastSeen) * TicksPerSecond)
      OBVIOUS
    <3>2. s \in Seq(Line)
      BY <3>1, SinceInOrder
    <3>3. unread' = <<>> \/ unread' = s
      BY <1>4, <3>1 DEF Request
    <3> QED BY <3>2, <3>3, EmptySeq
  <2>2. /\ tailer' \in {"request", "stream", "down"}
        /\ UNCHANGED <<logged, position, entries, first, counts>>
    BY <1>4 DEF Request
  <2> QED BY <2>1, <2>2 DEF TailTypeOK, Piece, logged, position, counts
<1>5. CASE Rejected
  <2>1. /\ rejections' \in 0 .. MaxRejections /\ lastSeen' = NoTime /\ first' = 0
        /\ UNCHANGED <<log, time, tailer, unread, seenAt, entries, breaks, deaths>>
    BY <1>1, <1>5 DEF Rejected, TailTypeOK, logged
  <2>2. first' \in 0 .. Len(log')
    BY <1>1, <2>1
  <2> QED BY <2>1, <2>2 DEF TailTypeOK, Piece
<1>6. CASE Process
  <2>1. PICK x \in Line :
           /\ Taken(unread', unread, x)
           /\ x.id \in 1 .. Len(log) /\ x = log[x.id]
           /\ entries' \in Seq(Piece)
           /\ IsReplay(x) => UNCHANGED <<position, first>>
           /\ ~ IsReplay(x) =>
                /\ lastSeen' = x.at /\ seenAt' = SeenWith(x)
                /\ first' = IF first = 0 THEN x.id ELSE first
    BY <1>6, ProcessFeeds
  <2>2. UNCHANGED <<logged, tailer, counts>>
    BY <1>6 DEF Process
  <2>3. unread' \in Seq(Line) /\ entries' \in Seq(Piece')
    BY <2>1, <2>2 DEF Taken, Piece, logged
  <2>4. x.at \in 0 .. MaxTime
    BY DEF Line
  <2>5. lastSeen' \in {NoTime} \cup 0 .. MaxTime /\ first' \in 0 .. Len(log')
    <3>1. CASE IsReplay(x)
      BY <2>1, <2>2, <3>1 DEF TailTypeOK, position, logged
    <3>2. CASE ~ IsReplay(x)
      <4>1. first' = (IF first = 0 THEN x.id ELSE first) /\ lastSeen' = x.at
        BY <2>1, <3>2
      <4>2. first \in 0 .. Len(log) /\ x.id \in 0 .. Len(log)
        BY <1>1, <2>1 DEF TailTypeOK
      <4>3. log' = log
        BY <2>2 DEF logged
      <4> QED BY <2>4, <4>1, <4>2, <4>3
    <3> QED BY <3>1, <3>2
  <2>6. /\ seenAt' \subseteq 1 .. Len(log')
        /\ lastSeen' # NoTime => \A n \in seenAt' : log'[n].at = lastSeen'
    <3>1. CASE IsReplay(x)
      BY <2>1, <2>2, <3>1 DEF TailTypeOK, position, logged
    <3>2. CASE ~ IsReplay(x)
      <4>1. x.at # NoTime
        BY <2>4 DEF NoTime
      <4> QED BY <2>1, <2>2, <3>2, <4>1 DEF TailTypeOK, SeenWith, logged
    <3> QED BY <3>1, <3>2
  <2> QED BY <2>2, <2>3, <2>5, <2>6 DEF TailTypeOK, logged, counts
<1>7. CASE Break
  <2>1. /\ breaks' \in 0 .. MaxBreaks /\ unread' = <<>> /\ tailer' = "request"
        /\ UNCHANGED <<logged, position, entries, first, deaths, rejections>>
    BY <1>1, <1>7 DEF Break, TailTypeOK
  <2> QED BY <2>1, EmptySeq DEF TailTypeOK, Piece, logged, position
<1>8. CASE Die
  <2>1. /\ deaths' \in 0 .. MaxDeaths /\ unread' = <<>> /\ tailer' = "down"
        /\ UNCHANGED <<logged, position, entries, first, breaks, rejections>>
    BY <1>1, <1>8 DEF Die, TailTypeOK
  <2> QED BY <2>1, EmptySeq DEF TailTypeOK, Piece, logged, position
<1>9. CASE Resume
  BY <1>9 DEF Resume, TailTypeOK, Piece, logged, position, counts
<1>10. CASE UNCHANGED tailVars
  BY <1>10 DEF tailVars, TailTypeOK, Piece, logged, position, counts
<1> QED BY <1>2, <1>3, <1>4, <1>5, <1>6, <1>7, <1>8, <1>9, <1>10 DEF TailNext

-----------------------------------------------------------------------------
\* Resuming without a gap

LEMMA TailInitInv == TailInit => TailInv
<1> SUFFICES ASSUME TailInit PROVE TailInv
  OBVIOUS
<1>1. Len(log) = 0 /\ Len(unread) = 0 /\ Fed = {}
  BY DEF TailInit, Fed
<1>2. TailTypeOK
  BY <1>1, EmptySeq, TailAssumption DEF TailInit, TailTypeOK
<1> QED BY <1>1, <1>2 DEF TailInit, TailInv, Numbered, UnreadFromLog, FromLog, PositionFed, Pending,
                          Fresh, ResumesWithoutGap

\* Nothing is read and no entry is fed while there is no connection.
LEMMA DisconnectedKeeps ==
  ASSUME TailInv, tailer' # "stream", unread' = <<>>, UNCHANGED <<log, position, entries, first>>
  PROVE  Numbered' /\ UnreadFromLog' /\ PositionFed' /\ Pending' /\ Fresh' /\ ResumesWithoutGap'
<1>1. Fed' = Fed /\ LoggedLate' = LoggedLate /\ Len(unread') = 0
  BY DEF Fed, LoggedLate
<1>2. Numbered' /\ Pending' /\ Fresh'
  BY DEF TailInv, Numbered, Pending, Fresh
<1>3. UnreadFromLog'
  BY <1>1 DEF UnreadFromLog, FromLog
<1>4. PositionFed' /\ ResumesWithoutGap'
  BY <1>1 DEF TailInv, PositionFed, ResumesWithoutGap, position
<1> QED BY <1>2, <1>3, <1>4

\* A new line is the last one, and no older one becomes late by it.
LEMMA LogKeeps ==
  ASSUME TailInv, NEW pieces \in Fragments, Log(pieces)
  PROVE  Numbered' /\ UnreadFromLog' /\ PositionFed' /\ Pending' /\ Fresh' /\ ResumesWithoutGap'
<1>1. /\ Len(log) \in Nat /\ Len(unread) \in Nat /\ Fed \subseteq 1 .. Len(log)
      /\ DOMAIN log = 1 .. Len(log) /\ first \in 0 .. Len(log) /\ seenAt \subseteq 1 .. Len(log)
  BY LogFacts DEF TailInv, TailTypeOK
<1>2. PICK x \in Line :
         /\ x.id = Len(log) + 1
         /\ Joined(log', log, x)
         /\ unread' = unread \/ Joined(unread', unread, x)
         /\ tailer = "stream" => Joined(unread', unread, x)
  BY LogAppends DEF TailInv
<1>3. UNCHANGED <<time, tailer, position, entries, first, counts>> /\ Fed' = Fed
  BY DEF Log, Fed
<1>4. /\ Len(log') = Len(log) + 1 /\ log'[Len(log) + 1] = x
      /\ \A i \in 1 .. Len(log) : log'[i] = log[i]
      /\ DOMAIN log' = 1 .. Len(log')
  BY <1>2, LenProperties DEF Joined
<1>5. \A i \in 1 .. Len(log) : i \notin LoggedLate' => i \notin LoggedLate
  <2> SUFFICES ASSUME NEW i \in 1 .. Len(log), i \in LoggedLate
               PROVE  i \in LoggedLate'
    OBVIOUS
  <2>1. PICK j \in 1 .. i - 1 : log[j].at > log[i].at
    BY DEF LoggedLate
  <2>2. j \in 1 .. Len(log) /\ i \in 1 .. Len(log')
    BY <1>1, <1>4, <2>1
  <2>3. log'[j].at > log'[i].at
    BY <1>4, <2>1, <2>2
  <2> QED BY <1>4, <2>1, <2>2, <2>3 DEF LoggedLate
<1>6. Numbered'
  BY <1>1, <1>2, <1>4 DEF TailInv, Numbered
<1>7. UnreadFromLog'
  <2>1. tailer' # "stream" => unread' = <<>>
    <3>1. tailer # "stream" => unread' = unread
      BY DEF Log
    <3> QED BY <1>3, <3>1 DEF TailInv, UnreadFromLog
  <2>2. CASE unread' = unread
    <3>1. \A k \in 1 .. Len(unread) :
            unread[k].id \in 1 .. Len(log') /\ unread[k] = log'[unread[k].id]
      BY <1>1, <1>4 DEF TailInv, UnreadFromLog, FromLog
    <3> QED BY <2>1, <2>2, <3>1 DEF TailInv, UnreadFromLog, FromLog
  <2>3. CASE Joined(unread', unread, x)
    <3>1. \A k \in 1 .. Len(unread') :
             \/ k \in 1 .. Len(unread) /\ unread'[k] = unread[k]
             \/ k = Len(unread) + 1 /\ unread'[k] = x
      BY <1>1, <2>3 DEF Joined
    <3>2. \A k \in 1 .. Len(unread) :
            unread[k].id \in 1 .. Len(log) /\ unread[k] = log[unread[k].id]
      BY DEF TailInv, UnreadFromLog, FromLog
    <3>3. \A k \in 1 .. Len(unread') :
            unread'[k].id \in 1 .. Len(log') /\ unread'[k] = log'[unread'[k].id]
      <4> TAKE k \in 1 .. Len(unread')
      <4>1. CASE k \in 1 .. Len(unread) /\ unread'[k] = unread[k]
        BY <1>1, <1>4, <3>2, <4>1
      <4>2. CASE k = Len(unread) + 1 /\ unread'[k] = x
        BY <1>1, <1>2, <1>4, <4>2
      <4> QED BY <3>1, <4>1, <4>2
    <3>4. \A j, k \in 1 .. Len(unread') : j < k => unread'[j].id < unread'[k].id
      <4> SUFFICES ASSUME NEW j \in 1 .. Len(unread'), NEW k \in 1 .. Len(unread'), j < k
                   PROVE  unread'[j].id < unread'[k].id
        OBVIOUS
      <4>1. j \in 1 .. Len(unread) /\ unread'[j] = unread[j]
        BY <1>1, <2>3 DEF Joined
      <4>2. CASE k \in 1 .. Len(unread) /\ unread'[k] = unread[k]
        BY <4>1, <4>2 DEF TailInv, UnreadFromLog, FromLog
      <4>3. CASE k = Len(unread) + 1 /\ unread'[k] = x
        BY <1>1, <1>2, <3>2, <4>1, <4>3
      <4> QED BY <3>1, <4>2, <4>3
    <3> QED BY <2>1, <3>3, <3>4 DEF UnreadFromLog, FromLog
  <2> QED BY <1>2, <2>2, <2>3
<1>8. PositionFed'
  <2>1. ASSUME first # 0 PROVE \E m \in Fed : log'[m].at = lastSeen
    BY <1>1, <1>4, <2>1 DEF TailInv, PositionFed
  <2> QED BY <1>3, <2>1 DEF TailInv, PositionFed, position
<1>9. ASSUME NEW i, tailer = "stream", Has(unread, i) \/ i = Len(log) + 1
      PROVE  Has(unread', i)
  <2>1. Joined(unread', unread, x)
    BY <1>2, <1>9
  <2>2. CASE Has(unread, i)
    <3>1. PICK k \in 1 .. Len(unread) : unread[k].id = i
      BY <2>2 DEF Has
    <3>2. k \in 1 .. Len(unread') /\ unread'[k].id = i
      BY <1>1, <2>1, <3>1 DEF Joined
    <3> QED BY <3>2 DEF Has
  <2>3. CASE i = Len(log) + 1
    <3>1. Len(unread) + 1 \in 1 .. Len(unread') /\ unread'[Len(unread) + 1].id = i
      BY <1>1, <1>2, <2>1, <2>3 DEF Joined
    <3> QED BY <3>1 DEF Has
  <2> QED BY <1>9, <2>2, <2>3
<1>10. Pending'
  <2> SUFFICES ASSUME tailer = "stream", first # 0,
                      NEW i \in (first .. Len(log')) \ LoggedLate', i \notin Fed
               PROVE  Has(unread', i)
    BY <1>3 DEF Pending
  <2>1. i = Len(log) + 1 \/ (i \in 1 .. Len(log) /\ i \in first .. Len(log))
    BY <1>1, <1>4
  <2> QED BY <1>5, <1>9, <2>1 DEF TailInv, Pending
<1>11. Fresh'
  <2> SUFFICES ASSUME tailer = "stream", first = 0, NEW k \in 1 .. Len(unread')
               PROVE  /\ \A n \in Fed : n < unread'[k].id
                      /\ \A i \in unread'[k].id .. Len(log') : Has(unread', i)
    BY <1>3 DEF Fresh
  <2>1. Joined(unread', unread, x)
    BY <1>2
  <2>2. CASE k \in 1 .. Len(unread)
    <3>1. unread'[k] = unread[k] /\ unread[k].id \in 1 .. Len(log)
      BY <2>1, <2>2 DEF Joined, TailInv, UnreadFromLog, FromLog
    <3>2. /\ \A n \in Fed : n < unread[k].id
          /\ \A i \in unread[k].id .. Len(log) : Has(unread, i)
      BY <2>2 DEF TailInv, Fresh
    <3>3. \A i \in unread[k].id .. Len(log') : i \in unread[k].id .. Len(log) \/ i = Len(log) + 1
      BY <1>1, <1>4
    <3> QED BY <1>9, <3>1, <3>2, <3>3
  <2>3. CASE k = Len(unread) + 1
    <3>1. unread'[k].id = Len(log) + 1
      BY <1>2, <2>1, <2>3 DEF Joined
    <3>2. \A i \in Len(log) + 1 .. Len(log') : i = Len(log) + 1
      BY <1>1, <1>4
    <3> QED BY <1>1, <1>9, <3>1, <3>2
  <2> QED BY <1>1, <2>1, <2>2, <2>3 DEF Joined
<1>12. ResumesWithoutGap'
  <2> SUFFICES ASSUME NEW n \in Fed, first # 0, NEW i \in (first .. n) \ LoggedLate'
               PROVE  i \in Fed
    BY <1>3 DEF ResumesWithoutGap
  <2>1. i \in 1 .. Len(log)
    BY <1>1
  <2> QED BY <1>5, <2>1 DEF TailInv, ResumesWithoutGap
<1> QED BY <1>6, <1>7, <1>8, <1>10, <1>11, <1>12

\* The second of the position is not later than the position.
LEMMA SecondBefore ==
  ASSUME NEW t \in Nat
  PROVE  UnixSecond(t) * TicksPerSecond <= t
<1>1. TicksPerSecond \in Nat /\ TicksPerSecond > 0
  BY TailAssumption
<1>2. (t \div TicksPerSecond) * TicksPerSecond <= t
  BY <1>1
<1> QED BY <1>2 DEF UnixSecond

\* What the daemon sends again covers all that may have been missed.
LEMMA RequestKeeps ==
  ASSUME TailInv, Request
  PROVE  Numbered' /\ UnreadFromLog' /\ PositionFed' /\ Pending' /\ Fresh' /\ ResumesWithoutGap'
<1>1. PICK t : t = UnixSecond(lastSeen) * TicksPerSecond
  OBVIOUS
<1>2. /\ UNCHANGED <<log, lastSeen, seenAt, entries, first>> /\ tailer' = "stream"
      /\ unread' = IF lastSeen = NoTime THEN <<>> ELSE LoggedSince(t)
  BY <1>1 DEF Request, logged, position
<1>3. /\ LoggedSince(t) \in Seq(Line) /\ FromLog(LoggedSince(t))
      /\ \A i \in 1 .. Len(log) : log[i].at >= t => Has(LoggedSince(t), i)
  BY SinceInOrder DEF TailInv
<1>4. Fed' = Fed /\ LoggedLate' = LoggedLate /\ Len(<<>>) = 0
  BY <1>2 DEF Fed, LoggedLate
<1>5. Numbered' /\ PositionFed' /\ ResumesWithoutGap'
  BY <1>2, <1>4 DEF TailInv, Numbered, PositionFed, ResumesWithoutGap
<1>6. UnreadFromLog'
  <2>1. FromLog(<<>>)
    BY <1>4 DEF FromLog
  <2>2. FromLog(unread')
    BY <1>2, <1>3, <2>1
  <2> QED BY <1>2, <2>2 DEF UnreadFromLog, FromLog
<1>7. Fresh'
  BY <1>2, <1>4 DEF TailInv, PositionFed, Fresh
<1>8. Pending'
  <2> SUFFICES ASSUME first # 0, NEW i \in (first .. Len(log)) \ LoggedLate, i \notin Fed
               PROVE  Has(unread', i)
    BY <1>2, <1>4 DEF Pending
  <2>1. /\ Fed \subseteq 1 .. Len(log) /\ Len(log) \in Nat /\ first \in 0 .. Len(log)
        /\ \A n \in 1 .. Len(log) : log[n].at \in Nat
        /\ DOMAIN log = 1 .. Len(log)
    BY LogFacts DEF TailInv, TailTypeOK
  <2>2. PICK m \in Fed : log[m].at = lastSeen
    BY DEF TailInv, PositionFed
  <2>3. i \in 1 .. Len(log) /\ m \in 1 .. Len(log) /\ i # m
    BY <2>1
  <2>4. ~ (i < m)
    BY <2>1, <2>3 DEF TailInv, ResumesWithoutGap
  <2>5. log[m].at <= log[i].at
    <3>1. m \in 1 .. i - 1
      BY <2>3, <2>4
    <3>2. ~ (log[m].at > log[i].at)
      BY <2>1, <2>3, <3>1 DEF LoggedLate
    <3> QED BY <2>1, <2>3, <3>2
  <2>6. t <= lastSeen /\ t \in Int
    <3>1. lastSeen \in Nat
      BY <2>1, <2>2, <2>3
    <3>2. TicksPerSecond \in Nat \ {0}
      BY TailAssumption
    <3>3. UnixSecond(lastSeen) \in Int
      BY <3>1, <3>2 DEF UnixSecond
    <3> QED BY <1>1, <3>1, <3>2, <3>3, SecondBefore
  <2>7. log[i].at >= t
    BY <2>1, <2>2, <2>3, <2>5, <2>6
  <2>8. lastSeen # NoTime
    BY DEF TailInv, PositionFed
  <2> QED BY <1>2, <1>3, <2>3, <2>7, <2>8
<1> QED BY <1>5, <1>6, <1>7, <1>8

LEMMA RejectedKeeps ==
  ASSUME TailInv, Rejected
  PROVE  Numbered' /\ UnreadFromLog' /\ PositionFed' /\ Pending' /\ Fresh' /\ ResumesWithoutGap'
<1>1. /\ UNCHANGED <<log, tailer, unread, seenAt, entries>> /\ tailer = "request"
      /\ lastSeen' = NoTime /\ first' = 0 /\ unread = <<>>
  BY DEF Rejected, logged, TailInv, UnreadFromLog
<1>2. Fed' = Fed
  BY <1>1 DEF Fed
<1> QED BY <1>1, <1>2 DEF TailInv, Numbered, UnreadFromLog, FromLog, PositionFed, Pending, Fresh,
                          ResumesWithoutGap

\* A line that is dropped was fed before, or is late.
LEMMA ReplayWasFed ==
  ASSUME TailInv, NEW n \in 1 .. Len(log), IsReplay(log[n]), n >= first, n \notin LoggedLate
  PROVE  n \in Fed /\ first # 0
<1>1. /\ Fed \subseteq 1 .. Len(log) /\ Len(log) \in Nat /\ first \in 0 .. Len(log)
      /\ \A i \in 1 .. Len(log) : log[i].at \in Nat
      /\ DOMAIN log = 1 .. Len(log)
  BY LogFacts DEF TailInv, TailTypeOK
<1>2. first # 0
  BY DEF IsReplay, TailInv, PositionFed
<1>3. PICK m \in Fed : log[m].at = lastSeen
  BY <1>2 DEF TailInv, PositionFed
<1>4. CASE log[n].at < lastSeen
  <2>1. CASE m < n
    <3>1. m \in 1 .. n - 1 /\ log[m].at > log[n].at
      BY <1>1, <1>3, <1>4, <2>1
    <3> QED BY <1>1, <3>1 DEF LoggedLate
  <2>2. CASE ~ (m < n)
    <3>1. n \in (first .. m) \ LoggedLate
      BY <1>1, <2>2
    <3> QED BY <1>2, <3>1 DEF TailInv, ResumesWithoutGap
  <2> QED BY <1>2, <2>1, <2>2
<1>5. CASE log[n].id \in seenAt
  BY <1>2, <1>5 DEF TailInv, PositionFed, Numbered
<1> QED BY <1>4, <1>5 DEF IsReplay

\* A line is fed, or was, or is late; and none before it is left out.
LEMMA ProcessKeeps ==
  ASSUME TailInv, Process
  PROVE  Numbered' /\ UnreadFromLog' /\ PositionFed' /\ Pending' /\ Fresh' /\ ResumesWithoutGap'
<1>1. /\ Fed \subseteq 1 .. Len(log) /\ Len(log) \in Nat /\ first \in 0 .. Len(log)
      /\ \A i \in 1 .. Len(log) : log[i].at \in Nat
      /\ DOMAIN log = 1 .. Len(log)
  BY LogFacts DEF TailInv, TailTypeOK
<1>2. PICK x \in Line :
        /\ Taken(unread', unread, x)
        /\ x.id \in 1 .. Len(log) /\ x = log[x.id]
        /\ entries' \in Seq(Piece)
        /\ Feeds(entries', entries, x.id, x.pieces - Dropped(x))
        /\ x.pieces - Dropped(x) \in Nat
        /\ IsReplay(x) => UNCHANGED <<position, first>>
        /\ ~ IsReplay(x) =>
             /\ x.pieces - Dropped(x) >= 1
             /\ lastSeen' = x.at /\ seenAt' = SeenWith(x)
             /\ first' = IF first = 0 THEN x.id ELSE first
  BY ProcessFeeds DEF TailInv
<1>3. PICK n \in 1 .. Len(log) : n = x.id /\ x = log[n]
  BY <1>2
<1>4. UNCHANGED <<log, tailer>> /\ tailer = "stream" /\ LoggedLate' = LoggedLate
  BY DEF Process, logged, LoggedLate
<1>5. /\ Fed \subseteq Fed' /\ Fed' \subseteq Fed \cup {n}
      /\ ~ IsReplay(x) => n \in Fed'
  BY <1>2, <1>3, FedAfter DEF TailInv
<1>6. /\ Len(unread) \in Nat /\ Len(unread) >= 1 /\ Len(unread') = Len(unread) - 1
      /\ 1 \in 1 .. Len(unread) /\ unread[1].id = n
      /\ \A k \in 1 .. Len(unread') : k + 1 \in 1 .. Len(unread) /\ unread'[k] = unread[k + 1]
  BY <1>2, <1>3 DEF Taken
<1>7. \A k \in 1 .. Len(unread) : n <= unread[k].id
  BY <1>1, <1>6 DEF TailInv, UnreadFromLog, FromLog
<1>8. \A i : Has(unread, i) => i = n \/ Has(unread', i)
  <2> SUFFICES ASSUME NEW i, NEW k \in 1 .. Len(unread), unread[k].id = i, i # n
               PROVE  Has(unread', i)
    BY DEF Has
  <2>1. k - 1 \in 1 .. Len(unread')
    BY <1>6
  <2>2. unread'[k - 1] = unread[(k - 1) + 1] /\ (k - 1) + 1 = k
    BY <1>6, <2>1
  <2> QED BY <2>1, <2>2 DEF Has
<1>9. first' # 0
  BY <1>1, <1>2, <1>3 DEF IsReplay, TailInv, PositionFed
<1>10. first # 0 => first' = first
  BY <1>2
<1>11. first = 0 => first' = n /\ n \in Fed' /\ \A i \in Fed : i < n
  <2> SUFFICES ASSUME first = 0 PROVE first' = n /\ n \in Fed' /\ \A i \in Fed : i < n
    OBVIOUS
  <2>1. ~ IsReplay(x)
    BY DEF IsReplay, TailInv, PositionFed
  <2>2. \A i \in Fed : i < n
    BY <1>4, <1>6 DEF TailInv, Fresh
  <2> QED BY <1>2, <1>3, <1>5, <2>1, <2>2
<1>12. first # 0 /\ n >= first /\ n \notin LoggedLate => n \in Fed'
  BY <1>3, <1>5, ReplayWasFed
<1>13. Numbered' /\ Fresh'
  BY <1>4, <1>9 DEF TailInv, Numbered, Fresh
<1>14. UnreadFromLog'
  <2>1. \A k \in 1 .. Len(unread') :
          unread'[k].id \in 1 .. Len(log) /\ unread'[k] = log[unread'[k].id]
    BY <1>6 DEF TailInv, UnreadFromLog, FromLog
  <2>2. ASSUME NEW j \in 1 .. Len(unread'), NEW k \in 1 .. Len(unread'), j < k
        PROVE  unread'[j].id < unread'[k].id
    <3>1. j + 1 \in 1 .. Len(unread) /\ k + 1 \in 1 .. Len(unread) /\ j + 1 < k + 1
      BY <1>6, <2>2
    <3>2. unread[j + 1].id < unread[k + 1].id
      BY <3>1 DEF TailInv, UnreadFromLog, FromLog
    <3> QED BY <1>6, <3>2
  <2> QED BY <1>4, <2>1, <2>2 DEF UnreadFromLog, FromLog
<1>15. PositionFed'
  <2>1. CASE IsReplay(x)
    <3>1. UNCHANGED <<lastSeen, seenAt, first>>
      BY <1>2, <2>1 DEF position
    <3> QED BY <1>4, <1>5, <3>1 DEF TailInv, PositionFed
  <2>2. CASE ~ IsReplay(x)
    <3>1. lastSeen' = log[n].at /\ seenAt' \subseteq seenAt \cup {n} /\ n \in Fed'
      BY <1>2, <1>3, <1>5, <2>2 DEF SeenWith
    <3>2. lastSeen' # NoTime
      BY <1>1, <3>1 DEF NoTime
    <3>3. seenAt' \subseteq Fed'
      BY <1>5, <3>1 DEF TailInv, PositionFed
    <3> QED BY <1>4, <1>9, <3>1, <3>2, <3>3 DEF PositionFed
  <2> QED BY <2>1, <2>2
<1>16. Pending'
  <2> SUFFICES ASSUME NEW i \in (first' .. Len(log)) \ LoggedLate
               PROVE  i \in Fed' \/ Has(unread', i)
    BY <1>4 DEF Pending
  <2>1. CASE first # 0
    <3>1. i \in Fed \/ Has(unread, i)
      BY <1>4, <1>10, <2>1 DEF TailInv, Pending
    <3> QED BY <1>1, <1>5, <1>8, <1>10, <1>12, <2>1, <3>1
  <2>2. CASE first = 0
    <3>1. i \in unread[1].id .. Len(log)
      BY <1>6, <1>11, <2>2
    <3>2. Has(unread, i)
      BY <1>4, <1>6, <2>2, <3>1 DEF TailInv, Fresh
    <3> QED BY <1>8, <1>11, <2>2, <3>2
  <2> QED BY <2>1, <2>2
<1>17. ResumesWithoutGap'
  <2> SUFFICES ASSUME NEW l \in Fed', NEW i \in (first' .. l) \ LoggedLate
               PROVE  i \in Fed'
    BY <1>4 DEF ResumesWithoutGap
  <2>0. l \in 1 .. Len(log)
    BY <1>1, <1>5
  <2>1. CASE first = 0
    <3>1. l <= n
      BY <1>1, <1>5, <1>11, <2>1
    <3>2. i = n
      BY <1>1, <1>11, <2>0, <2>1, <3>1
    <3> QED BY <1>11, <2>1, <3>2
  <2>2. CASE first # 0 /\ l \in Fed
    BY <1>5, <1>10, <2>2 DEF TailInv, ResumesWithoutGap
  <2>3. CASE first # 0 /\ l = n
    <3>1. CASE i = n
      BY <1>1, <1>10, <1>12, <2>3, <3>1
    <3>2. CASE i # n
      <4>1. i < n /\ i \in first .. Len(log)
        BY <1>1, <1>10, <2>0, <2>3, <3>2
      <4>2. i \in Fed \/ Has(unread, i)
        BY <1>4, <2>3, <4>1 DEF TailInv, Pending
      <4>3. ~ Has(unread, i)
        BY <1>1, <1>7, <4>1 DEF Has, TailInv, UnreadFromLog, FromLog
      <4> QED BY <1>5, <4>2, <4>3
    <3> QED BY <3>1, <3>2
  <2> QED BY <1>5, <2>1, <2>2, <2>3
<1> QED BY <1>13, <1>14, <1>15, <1>16, <1>17

LEMMA TailInvStep == TailInv /\ [TailNext]_tailVars => TailInv'
<1> SUFFICES ASSUME TailInv, [TailNext]_tailVars PROVE TailInv'
  OBVIOUS
<1>1. TailTypeOK'
  BY TypeStep DEF TailInv
<1>2. Numbered' /\ UnreadFromLog' /\ PositionFed' /\ Pending' /\ Fresh' /\ ResumesWithoutGap'
  <2>1. CASE \E pieces \in Fragments : Log(pieces)
    BY <2>1, LogKeeps
  <2>2. CASE Request
    BY <2>2, RequestKeeps
  <2>3. CASE Rejected
    BY <2>3, RejectedKeeps
  <2>4. CASE Process
    BY <2>4, ProcessKeeps
  <2>5. CASE Break \/ Die \/ Resume
    <3>1. tailer' # "stream" /\ unread' = <<>> /\ UNCHANGED <<log, position, entries, first>>
      BY <2>5 DEF Break, Die, Resume, logged, TailInv, UnreadFromLog
    <3> QED BY <3>1, DisconnectedKeeps
  <2>6. CASE Tick \/ UNCHANGED tailVars
    <3>1. UNCHANGED <<log, tailer, unread, lastSeen, seenAt, entries, first>>
      BY <2>6 DEF Tick, tailVars, logged, position
    <3>2. Fed' = Fed /\ LoggedLate' = LoggedLate
      BY <3>1 DEF Fed, LoggedLate
    <3> QED BY <3>1, <3>2 DEF TailInv, Numbered, UnreadFromLog, FromLog, PositionFed, Pending,
                              Fresh, ResumesWithoutGap, Has
  <2> QED BY <2>1, <2>2, <2>3, <2>4, <2>5, <2>6 DEF TailNext
<1> QED BY <1>1, <1>2 DEF TailInv

\* Whatever the container logs and however often its log is asked for: the log,
\* the position in it and what is read of it keep their types, and the messages
\* remembered are those of the last time stamp.
THEOREM TailTypes == TailSpec => []TailTypeOK
<1>1. TailInv => TailTypeOK
  BY DEF TailInv
<1> QED BY <1>1, TailInitInv, TailInvStep, PTL DEF TailSpec

\* Broken connections, restarts of the container and the replayed second lose no
\* line once the tailer has a position: none between the line that gave it and
\* the last one fed is missing, but those logged late.
THEOREM TailResumesWithoutGap == TailSpec => []ResumesWithoutGap
<1>1. TailInv => ResumesWithoutGap
  BY DEF TailInv
<1> QED BY <1>1, TailInitInv, TailInvStep, PTL DEF TailSpec

-----------------------------------------------------------------------------
\* Once and in order

LEMMA InitOrderInv == TailInit => OrderInv
<1> SUFFICES ASSUME TailInit PROVE OrderInv
  OBVIOUS
<1>1. DOMAIN entries = {}
  BY DEF TailInit
<1> QED BY <1>1 DEF OrderInv, BeforePosition, FedOnceInOrder

\* A step that feeds nothing, and keeps or gives up the position.
LEMMA NothingFedKeeps ==
  ASSUME OrderInv, TailTypeOK, UNCHANGED <<entries, seenAt>>,
         \A i \in 1 .. Len(log) : log'[i] = log[i],
         UNCHANGED <<lastSeen, rejections>> \/ rejections' # 0
  PROVE  OrderInv'
<1>1. \A i \in DOMAIN entries : log'[entries[i].line] = log[entries[i].line]
  BY LogFacts DEF Piece
<1> QED BY <1>1 DEF OrderInv, BeforePosition, FedOnceInOrder

\* What a line that is fed adds: one entry, later than the others or of their
\* time stamp, and of another line.
LEMMA ProcessKeepsOrder ==
  ASSUME OrderInv, TailInv, Fragments \subseteq {1}, Process
  PROVE  OrderInv'
<1>1. /\ Len(entries) \in Nat /\ DOMAIN entries = 1 .. Len(entries)
      /\ \A i \in 1 .. Len(log) : log[i].at \in Nat
      /\ \A i \in 1 .. Len(entries) : entries[i].line \in 1 .. Len(log)
      /\ lastSeen \in Int
  BY LogFacts DEF TailInv, Piece
<1>2. PICK x \in Line :
        /\ x.id \in 1 .. Len(log) /\ x = log[x.id]
        /\ entries' \in Seq(Piece)
        /\ Feeds(entries', entries, x.id, x.pieces - Dropped(x))
        /\ IsReplay(x) => UNCHANGED <<position, first>>
        /\ ~ IsReplay(x) => lastSeen' = x.at /\ seenAt' = SeenWith(x)
  BY ProcessFeeds DEF TailInv
<1>3. UNCHANGED <<log, rejections>>
  BY DEF Process, logged, counts
<1>4. x.pieces = 1
  BY DEF Line
<1>5. DOMAIN entries' = 1 .. Len(entries')
  BY <1>2, LenProperties
<1>6. CASE IsReplay(x)
  <2>1. /\ DOMAIN entries' = DOMAIN entries
        /\ \A i \in DOMAIN entries : entries'[i] = entries[i]
    BY <1>1, <1>2, <1>4, <1>5, <1>6 DEF Feeds, Dropped
  <2>2. UNCHANGED <<lastSeen, seenAt>>
    BY <1>2, <1>6 DEF position
  <2> QED BY <1>3, <2>1, <2>2 DEF OrderInv, BeforePosition, FedOnceInOrder
<1>7. CASE ~ IsReplay(x)
  <2> SUFFICES ASSUME rejections = 0 PROVE OrderInv'
    BY <1>3 DEF OrderInv, BeforePosition, FedOnceInOrder
  <2>1. PICK last \in Nat : last = Len(entries) + 1
    BY <1>1
  <2>2. /\ DOMAIN entries' = 1 .. last /\ entries'[last].line = x.id
        /\ \A i \in 1 .. Len(entries) : entries'[i] = entries[i]
    BY <1>1, <1>2, <1>4, <1>5, <1>7, <2>1 DEF Feeds, Dropped
  <2>3. \A i \in 1 .. last : i = last \/ i \in 1 .. Len(entries)
    BY <1>1, <2>1
  <2>4. x.at >= lastSeen /\ (x.at = lastSeen => x.id \notin seenAt) /\ x.at \in Nat
    BY <1>1, <1>2, <1>7 DEF IsReplay, NoTime
  <2>5. \A i \in 1 .. Len(entries) :
          LET at == log[entries[i].line].at
          IN  at <= lastSeen /\ (at = lastSeen => entries[i].line \in seenAt)
    BY <1>1 DEF OrderInv, BeforePosition
  <2>6. \A i \in 1 .. Len(entries) :
          /\ log[entries[i].line].at <= x.at
          /\ log[entries[i].line].at = x.at => entries[i].line \in seenAt' /\ entries[i].line # x.id
    <3> TAKE i \in 1 .. Len(entries)
    <3>1. /\ log[entries[i].line].at \in Nat /\ log[entries[i].line].at <= lastSeen
          /\ log[entries[i].line].at = lastSeen => entries[i].line \in seenAt
      BY <1>1, <2>5
    <3>2. x.at = lastSeen => seenAt' = seenAt \cup {x.id}
      BY <1>2, <1>7 DEF SeenWith
    <3> QED BY <1>1, <2>4, <3>1, <3>2
  <2>7. x.id \in seenAt' /\ lastSeen' = x.at
    BY <1>2, <1>7 DEF SeenWith
  <2>8. BeforePosition'
    <3> SUFFICES ASSUME NEW i \in 1 .. last
                 PROVE  /\ log[entries'[i].line].at <= x.at
                        /\ log[entries'[i].line].at = x.at => entries'[i].line \in seenAt'
      BY <1>3, <2>2, <2>7 DEF BeforePosition
    <3>1. CASE i = last
      BY <1>2, <2>2, <2>4, <2>7, <3>1
    <3>2. CASE i \in 1 .. Len(entries)
      BY <2>2, <2>6, <3>2
    <3> QED BY <2>3, <3>1, <3>2
  <2>9. FedOnceInOrder'
    <3> SUFFICES ASSUME NEW i \in 1 .. last, NEW j \in 1 .. last, i < j
                 PROVE  /\ entries'[i] # entries'[j]
                        /\ log[entries'[i].line].at <= log[entries'[j].line].at
      BY <1>3, <2>2 DEF FedOnceInOrder
    <3>1. i \in 1 .. Len(entries) /\ entries'[i] = entries[i]
      BY <1>1, <2>1, <2>2
    <3>2. CASE j = last
      <4>1. log[entries[i].line].at <= x.at
        BY <2>6, <3>1
      <4>2. entries[i].line # x.id
        BY <1>2, <2>6, <3>1
      <4> QED BY <1>2, <2>2, <3>1, <3>2, <4>1, <4>2
    <3>3. CASE j \in 1 .. Len(entries)
      BY <1>1, <2>2, <3>1, <3>3 DEF OrderInv, FedOnceInOrder
    <3> QED BY <2>3, <3>2, <3>3
  <2> QED BY <2>8, <2>9 DEF OrderInv
<1> QED BY <1>6, <1>7

LEMMA OrderStep ==
  ASSUME Fragments \subseteq {1}
  PROVE  OrderInv /\ TailInv /\ [TailNext]_tailVars => OrderInv'
<1> SUFFICES ASSUME OrderInv, TailInv, [TailNext]_tailVars PROVE OrderInv'
  OBVIOUS
<1>1. ASSUME NEW pieces \in Fragments, Log(pieces) PROVE OrderInv'
  <2>1. \A i \in 1 .. Len(log) : log'[i] = log[i]
    BY <1>1, LogAppends DEF TailInv, Joined
  <2>2. UNCHANGED <<entries, seenAt, lastSeen, rejections>>
    BY <1>1 DEF Log, position, counts
  <2> QED BY <2>1, <2>2, NothingFedKeeps DEF TailInv
<1>2. CASE Rejected
  <2>1. rejections' # 0 /\ UNCHANGED <<entries, seenAt, log>>
    BY <1>2, TailAssumption DEF Rejected, logged, TailInv, TailTypeOK
  <2> QED BY <2>1, NothingFedKeeps DEF TailInv
<1>3. CASE Process
  BY <1>3, ProcessKeepsOrder
<1>4. CASE Tick \/ Request \/ Break \/ Die \/ Resume \/ UNCHANGED tailVars
  <2>1. UNCHANGED <<entries, seenAt, lastSeen, rejections, log>>
    BY <1>4 DEF Tick, Request, Break, Die, Resume, tailVars, logged, position, counts
  <2> QED BY <2>1, NothingFedKeeps DEF TailInv
<1> QED BY <1>1, <1>2, <1>3, <1>4 DEF TailNext

\* Lines without a second piece are fed once, in the order of their time
\* stamps, over all connections and restarts, as long as the daemon accepts
\* `since`: the inclusive replay of the last second adds nothing.  (The later
\* pieces of a replayed line are fed again: they carry no time stamp.)
THEOREM TailFedOnceInOrder ==
  ASSUME Fragments \subseteq {1}
  PROVE  TailSpec => []FedOnceInOrder
<1>1. TailInit => TailInv /\ OrderInv
  BY TailInitInv, InitOrderInv
<1>2. TailInv /\ OrderInv /\ [TailNext]_tailVars => (TailInv /\ OrderInv)'
  BY TailInvStep, OrderStep
<1>3. OrderInv => FedOnceInOrder
  BY DEF OrderInv
<1> QED BY <1>1, <1>2, <1>3, PTL DEF TailSpec

=============================================================================
