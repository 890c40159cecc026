---------------------------- MODULE SseBroadcaster -----------------------------
(***************************************************************************)
(* backend/app/core/sse.py and stream_logs of backend/app/api/logs.py: the *)
(* queue consumer pushes committed batches into one bounded queue for each *)
(* open /api/logs/stream request, and the request's generator sends what   *)
(* passes its filters.  No code suspends while it holds _lock, so          *)
(* subscribe, unsubscribe and broadcast_batch are single steps of the      *)
(* event loop.                                                             *)
(***************************************************************************)
EXTENDS Naturals, Sequences

CONSTANTS
  Subscribers,  \* requests for the stream
  Kinds,        \* what the filters of a request can tell apart
  Wanted,       \* Wanted[s]: the kinds that pass the filters of s
  MaxSize,      \* capacity of a subscriber's queue
  MaxEvents,    \* max_events[s], or Unlimited
  MaxBatch,     \* bound of the model: entries of one batch
  MaxEntries    \* bound of the model: entries committed

ASSUME SseAssumption ==
  /\ Wanted \in [Subscribers -> SUBSET Kinds]
  /\ MaxSize \in Nat \ {0}
  /\ MaxEvents \in [Subscribers -> Nat]
  /\ MaxBatch \in Nat
  /\ MaxEntries \in Nat

VARIABLES
  published,    \* history: the kinds of the committed entries
  subscribers,  \* _subscribers, a queue named by its request
  queue,        \* queue[s]: numbers of the entries in the queue of s
  pc,           \* pc[s]: where the request is
  connected,    \* connected[s]: the browser has not gone
  received,     \* received[s]: entries sent to the browser
  taken,        \* history: entries s took from its queue, sent or filtered out
  since         \* history: the entries committed when s subscribed

vars == <<published, subscribers, queue, pc, connected, received, taken, since>>
stream == <<subscribers, connected, since, published>>

Unlimited == 0

Init ==
  /\ published = <<>>
  /\ subscribers = {}
  /\ queue = [s \in Subscribers |-> <<>>]
  /\ pc = [s \in Subscribers |-> "idle"]
  /\ connected = [s \in Subscribers |-> FALSE]
  /\ received = [s \in Subscribers |-> <<>>]
  /\ taken = [s \in Subscribers |-> {}]
  /\ since = [s \in Subscribers |-> 0]

-----------------------------------------------------------------------------
\* Mutated forms of the definitions below.

PushUnlessFull(q, e) == IF Len(q) >= MaxSize THEN q ELSE Append(q, e)
NoDiscard(s) ==
  /\ UNCHANGED subscribers
  /\ pc' = [pc EXCEPT ![s] = "closed"]
Unfiltered(s, e) == e \in DOMAIN published

-----------------------------------------------------------------------------
\* The broadcaster.

\* put_nowait, and on QueueFull the oldest entry makes room.
Push(q, e) == Append(IF Len(q) >= MaxSize THEN Tail(q) ELSE q, e)

\* A queue once i of the entries have been put into it.
Pushed(q, entries) ==
  LET after[i \in 0 .. Len(entries)] ==
        IF i = 0 THEN q ELSE Push(after[i - 1], entries[i])
  IN  after

BroadcastBatch(batch) ==
  /\ Len(published) + Len(batch) <= MaxEntries
  /\ published' = published \o batch
  /\ queue' = [s \in Subscribers |->
       IF s \in subscribers
       THEN LET entries == [i \in DOMAIN batch |-> Len(published) + i]
            IN  Pushed(queue[s], entries)[Len(entries)]
       ELSE queue[s]]
  /\ UNCHANGED <<subscribers, pc, connected, received, taken, since>>

\* stream_logs subscribes before it returns the response; the generator that
\* unsubscribes runs only when the server starts to send that response.
Subscribe(s) ==
  /\ pc[s] = "idle"
  /\ subscribers' = subscribers \cup {s}
  /\ pc' = [pc EXCEPT ![s] = "subscribed"]
  /\ connected' = [connected EXCEPT ![s] = TRUE]
  /\ since' = [since EXCEPT ![s] = Len(published)]
  /\ UNCHANGED <<published, queue, received, taken>>

\* The finally clause of the generator.
Unsubscribe(s) ==
  /\ subscribers' = subscribers \ {s}
  /\ pc' = [pc EXCEPT ![s] = "closed"]

-----------------------------------------------------------------------------
\* The generator of a request.

Start(s) ==
  /\ pc[s] = "subscribed"
  /\ pc' = [pc EXCEPT ![s] = "loop"]
  /\ UNCHANGED <<stream, queue, received, taken>>

EnoughSent(s) == MaxEvents[s] # Unlimited /\ Len(received[s]) >= MaxEvents[s]

\* The checks at the head of the loop.
Loop(s) ==
  /\ pc[s] = "loop"
  /\ \/ /\ EnoughSent(s) \/ ~connected[s]
        /\ Unsubscribe(s)
        /\ UNCHANGED <<published, connected, since>>
     \/ /\ ~EnoughSent(s) /\ connected[s]
        /\ pc' = [pc EXCEPT ![s] = "get"]
        /\ UNCHANGED stream
  /\ UNCHANGED <<queue, received, taken>>

Passes(s, e) == published[e] \in Wanted[s]

Get(s) ==
  /\ pc[s] = "get"
  /\ queue[s] # <<>>
  /\ LET e == Head(queue[s]) IN
     /\ taken' = [taken EXCEPT ![s] = @ \cup {e}]
     /\ \/ /\ Passes(s, e)
           /\ received' = [received EXCEPT ![s] = Append(@, e)]
           /\ pc' = [pc EXCEPT ![s] = "send"]
        \/ /\ ~Passes(s, e)
           /\ pc' = [pc EXCEPT ![s] = "loop"]
           /\ UNCHANGED received
  /\ queue' = [queue EXCEPT ![s] = Tail(@)]
  /\ UNCHANGED stream

\* wait_for gives up after half a second.  An entry that arrives with the
\* timeout stays in the queue, so the queue need not be empty.
Timeout(s) ==
  /\ pc[s] = "get"
  /\ \/ connected[s] /\ pc' = [pc EXCEPT ![s] = "send"] /\ UNCHANGED subscribers
     \/ ~connected[s] /\ Unsubscribe(s)
  /\ UNCHANGED <<published, queue, connected, received, taken, since>>

\* The event or the ping is on its way; the generator resumes.
Sent(s) ==
  /\ pc[s] = "send"
  /\ pc' = [pc EXCEPT ![s] = "loop"]
  /\ UNCHANGED <<stream, queue, received, taken>>

-----------------------------------------------------------------------------
\* The browser and the web server (external).

Disconnect(s) ==
  /\ connected[s]
  /\ connected' = [connected EXCEPT ![s] = FALSE]
  /\ UNCHANGED <<published, subscribers, queue, pc, received, taken, since>>

\* The server drops the response of a browser that has gone.  A generator
\* that runs is cancelled or finalised and unsubscribes; one that has not
\* started has no finally clause to run.
Cancel(s) ==
  /\ ~connected[s]
  /\ \/ pc[s] \in {"loop", "get", "send"} /\ Unsubscribe(s)
     \/ /\ pc[s] = "subscribed"
        /\ pc' = [pc EXCEPT ![s] = "abandoned"]
        /\ UNCHANGED subscribers
  /\ UNCHANGED <<published, queue, connected, received, taken, since>>

-----------------------------------------------------------------------------
GeneratorStep(s) ==
  Start(s) \/ Loop(s) \/ Get(s) \/ Timeout(s) \/ Sent(s)

Next ==
  \/ \E n \in 1 .. MaxBatch : \E batch \in [1 .. n -> Kinds] :
       BroadcastBatch(batch)
  \/ \E s \in Subscribers :
       Subscribe(s) \/ GeneratorStep(s) \/ Disconnect(s) \/ Cancel(s)

Spec == Init /\ [][Next]_vars

\* The event loop runs the generator whenever it is not suspended, and get()
\* returns at once when its queue is not empty, so that the timeout cannot win
\* forever.
LiveSpec ==
  /\ Spec
  /\ \A s \in Subscribers :
       /\ WF_vars(GeneratorStep(s))
       /\ SF_vars(Get(s))

-----------------------------------------------------------------------------
\* Properties.

\* Type invariant: every queue within its capacity (sse.py:21-23), and every entry
\* one that was committed.
TypeOK ==
  /\ published \in Seq(Kinds) /\ Len(published) <= MaxEntries
  /\ subscribers \subseteq Subscribers
  /\ queue \in [Subscribers -> Seq(1 .. MaxEntries)]
  /\ \A s \in Subscribers : Len(queue[s]) <= MaxSize
  /\ pc \in [Subscribers -> {"idle", "subscribed", "loop", "get", "send",
                            "closed", "abandoned"}]
  /\ connected \in [Subscribers -> BOOLEAN]
  /\ received \in [Subscribers -> Seq(1 .. MaxEntries)]
  /\ taken \in [Subscribers -> SUBSET (1 .. MaxEntries)]
  /\ since \in [Subscribers -> 0 .. MaxEntries]

\* A request is in _subscribers exactly from its subscription to the end of its
\* generator: no queue of a stream that has ended is filled, and no running
\* stream is left out of a broadcast (sse.py:21-31, logs.py:366 and 401).
SubscribedWhileOpen ==
  \A s \in Subscribers : (s \in subscribers) <=> pc[s] \notin {"idle", "closed"}

\* A queue that overflows gives up its oldest entries only: whatever was
\* committed after the subscription and is among the MaxSize newest has been
\* taken or is still queued, which never holds more (sse.py:43-51).
NewestKept ==
  \A s \in subscribers :
    /\ Len(queue[s]) <= MaxSize
    /\ \A e \in DOMAIN published :
         (e > since[s] /\ e > Len(published) - MaxSize)
           => e \in taken[s] \cup {queue[s][i] : i \in DOMAIN queue[s]}

\* The stream implements the feed its readers rely on: entries are received at
\* most once, in commit order, and only those that pass the filters.
Feed == INSTANCE LiveFeed
FeedSpec == Feed!FeedSpec

\* The queue of a browser that has gone is released, once its generator has
\* started (logs.py:375-402).
GoneIsReleased ==
  \A s \in Subscribers :
    (~connected[s] /\ pc[s] \in {"loop", "get", "send"}) ~> s \notin subscribers

=============================================================================
