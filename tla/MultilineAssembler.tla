-------------------------- MODULE MultilineAssembler --------------------------
(***************************************************************************)
(* KeyedMultilineAssembler of backend/app/core/pipeline.py: continuation   *)
(* lines are buffered per stream key and merged into one entry, which goes *)
(* to the bounded queue shared with the QueueConsumer.                     *)
(*                                                                         *)
(* feed, the flush timer and flush_all run on the event loop and never     *)
(* suspend, so each is one step.  A line is the entry it arrived as: its   *)
(* stream, its kind (what the continuation patterns see in it), its size   *)
(* in bytes, its arrival time and a number that tells lines apart.         *)
(***************************************************************************)
EXTENDS Integers, Sequences, SequencesExt, FiniteSets

CONSTANTS
  Streams,            \* stream keys the collectors use
  Kinds,              \* the kinds of line they send, a subset of LineKinds
  Sizes,              \* the byte lengths of a line
  MaxStreamLines,     \* MAX_STREAM_LINES
  MaxStreamBytes,     \* MAX_STREAM_BYTES
  MaxTotalStreams,    \* MAX_TOTAL_STREAMS
  MaxStreamLifetime,  \* MAX_STREAM_LIFETIME, in clock ticks
  FlushTimeout,       \* flush_timeout, in clock ticks
  QueueMaxSize,       \* _QUEUE_MAXSIZE
  MaxFeeds,           \* bound of the model: lines fed
  MaxTime             \* bound of the model: ticks during which lines arrive

\* "head" starts an entry; "cont" continues one; "trace" continues one and
\* marks its buffer as a traceback; "ctx" (a blank line, "Name: text")
\* continues a traceback and starts an entry anywhere else.
LineKinds == {"head", "cont", "trace", "ctx"}

ASSUME LinesAssumption ==
  /\ Kinds \subseteq LineKinds
  /\ Sizes \subseteq Nat

ASSUME LimitsAssumption ==
  /\ MaxStreamLines \in Nat \ {0}
  /\ MaxStreamBytes \in Nat \ {0}
  /\ MaxTotalStreams \in Nat \ {0}
  /\ MaxStreamLifetime \in Nat \ {0}
  /\ FlushTimeout \in Nat
  /\ QueueMaxSize \in Nat

ASSUME BoundsAssumption ==
  /\ MaxFeeds \in Nat
  /\ MaxTime \in Nat

VARIABLES
  buffers,  \* _buffers: the lines buffered for each active stream
  timers,   \* _timers: when the flush timer of each active stream is due
  starts,   \* _stream_start_times
  bytes,    \* _stream_bytes
  queue,    \* _log_queue: merged entries, each the sequence of its lines
  dropped,  \* _dropped_logs_total
  now,      \* time.monotonic(), in ticks
  fed,      \* number of lines fed so far
  emitted   \* history: every merged entry, and whether the queue took it

assembler == <<buffers, timers, starts, bytes>>
vars == <<buffers, timers, starts, bytes, queue, dropped, now, fed, emitted>>

Line == [stream : Streams, kind : Kinds, size : Nat, at : Nat, id : Nat]

-----------------------------------------------------------------------------

NoStreams == [k \in {} |-> 0]

\* _is_continuation(message, buffered_text)
IsContinuation(kind, buffered) ==
  \/ kind \in {"cont", "trace"}
  \/ kind = "ctx" /\ \E i \in DOMAIN buffered : buffered[i].kind = "trace"

\* Mutant: evicts the stream created last.
Newest == CHOOSE o \in DOMAIN buffers :
            \A j \in DOMAIN buffers : buffers[o][1].id >= buffers[j][1].id

\* The stream created first: min() over _stream_start_times, where a tie
\* goes to the key inserted first.
Oldest == CHOOSE o \in DOMAIN buffers :
            \A j \in DOMAIN buffers :
              \/ starts[o] < starts[j]
              \/ starts[o] = starts[j] /\ buffers[o][1].id <= buffers[j][1].id

\* Mutant: the count of drops goes down.
PutCountingDown(entries) ==
  LET room == QueueMaxSize - Len(queue)
      fits == IF Len(entries) <= room THEN Len(entries) ELSE room
  IN  /\ queue' = queue \o SubSeq(entries, 1, fits)
      /\ dropped' = dropped + (fits - Len(entries))
      /\ emitted' = emitted \o [i \in 1 .. Len(entries) |->
                                  [lines |-> entries[i], queued |-> i <= fits]]

\* put_nowait for each entry in turn; QueueFull drops the entry and counts it.
Put(entries) ==
  LET room == QueueMaxSize - Len(queue)
      fits == IF Len(entries) <= room THEN Len(entries) ELSE room
  IN  /\ queue' = queue \o SubSeq(entries, 1, fits)
      /\ dropped' = dropped + (Len(entries) - fits)
      /\ emitted' = emitted \o [i \in 1 .. Len(entries) |->
                                  [lines |-> entries[i], queued |-> i <= fits]]

\* The four maps lose every stream outside kept together.
Restricted(kept) ==
  /\ buffers' = [j \in kept |-> buffers[j]]
  /\ timers'  = [j \in kept |-> timers[j]]
  /\ starts'  = [j \in kept |-> starts[j]]
  /\ bytes'   = [j \in kept |-> bytes[j]]

-----------------------------------------------------------------------------

\* Mutant: the eviction loop tests the number of streams with > for >=.
FlushedFirstLate(k, kind) ==
  IF k \in DOMAIN buffers
    THEN IF \/ ~ IsContinuation(kind, buffers[k])
            \/ now - starts[k] >= MaxStreamLifetime
           THEN {k} ELSE {}
    ELSE IF Cardinality(DOMAIN buffers) > MaxTotalStreams
           THEN {Oldest} ELSE {}

\* Mutant: feed leaves the lifetime to the timer.
FlushedFirstAgeless(k, kind) ==
  IF k \in DOMAIN buffers
    THEN IF IsContinuation(kind, buffers[k]) THEN {} ELSE {k}
    ELSE IF Cardinality(DOMAIN buffers) >= MaxTotalStreams
           THEN {Oldest} ELSE {}

\* Mutant: a line continues the stream's buffer if it would continue any.
FlushedFirstAnyContext(k, kind) ==
  IF k \in DOMAIN buffers
    THEN IF \/ \A j \in DOMAIN buffers : ~ IsContinuation(kind, buffers[j])
            \/ now - starts[k] >= MaxStreamLifetime
           THEN {k} ELSE {}
    ELSE IF Cardinality(DOMAIN buffers) >= MaxTotalStreams
           THEN {Oldest} ELSE {}

\* Streams feed flushes before it buffers a line of stream k: k itself when
\* the line starts a new entry or k's lifetime is over, else the oldest
\* stream when k needs a slot and none is free (CapacityBound: the eviction
\* loop runs at most once).
FlushedFirst(k, kind) ==
  IF k \in DOMAIN buffers
    THEN IF \/ ~ IsContinuation(kind, buffers[k])
            \/ now - starts[k] >= MaxStreamLifetime
           THEN {k} ELSE {}
    ELSE IF Cardinality(DOMAIN buffers) >= MaxTotalStreams
           THEN {Oldest} ELSE {}

\* The delay of the flush timer: flush_timeout, within what is left of the
\* lifetime of the stream.
Timeout(start) ==
  LET remaining == MaxStreamLifetime - (now - start)
  IN  IF FlushTimeout <= remaining THEN FlushTimeout ELSE remaining

\* _stream_bytes of stream k after a line that joins its buffer or starts one.
BytesWith(k, joins, size) == IF joins THEN bytes[k] + size ELSE size

\* feed(stream_key, entry)
Feed(k, kind, size) ==
  LET line    == [stream |-> k, kind |-> kind, size |-> size,
                  at |-> now, id |-> fed + 1]
      first   == FlushedFirst(k, kind)
      joins   == k \in DOMAIN buffers \ first
      buffer  == IF joins THEN Append(buffers[k], line) ELSE <<line>>
      start   == IF joins THEN starts[k] ELSE now
      size2   == BytesWith(k, joins, size)
      timeout == Timeout(start)
      full    == \/ Len(buffer) >= MaxStreamLines
                 \/ size2 >= MaxStreamBytes
                 \/ timeout <= 0
      others  == DOMAIN buffers \ (first \cup {k})
      kept    == IF full THEN others ELSE others \cup {k}
      early   == IF first = {} THEN <<>>
                 ELSE <<buffers[CHOOSE j \in first : TRUE]>>
  IN  /\ fed < MaxFeeds
      /\ now <= MaxTime
      /\ fed' = fed + 1
      /\ buffers' = [j \in kept |-> IF j = k THEN buffer ELSE buffers[j]]
      /\ timers'  = [j \in kept |-> IF j = k THEN now + timeout ELSE timers[j]]
      /\ starts'  = [j \in kept |-> IF j = k THEN start ELSE starts[j]]
      /\ bytes'   = [j \in kept |-> IF j = k THEN size2 ELSE bytes[j]]
      /\ Put(IF full THEN Append(early, buffer) ELSE early)
      /\ UNCHANGED now

\* Mutant: the timer drops the buffer and puts nothing.
TimerFiresSilently(k) ==
  /\ k \in DOMAIN timers
  /\ timers[k] <= now
  /\ Restricted(DOMAIN buffers \ {k})
  /\ UNCHANGED <<queue, dropped, now, fed, emitted>>

\* call_later fires _flush_stream_internal once the timer is due; a busy
\* event loop may run it later than that.
TimerFires(k) ==
  /\ k \in DOMAIN timers
  /\ timers[k] <= now
  /\ Restricted(DOMAIN buffers \ {k})
  /\ Put(<<buffers[k]>>)
  /\ UNCHANGED <<now, fed>>

\* flush_all() at shutdown, in the order the streams were created.
FlushAll ==
  /\ DOMAIN buffers # {}
  /\ \E order \in [1 .. Cardinality(DOMAIN buffers) -> DOMAIN buffers] :
       /\ \A i, j \in DOMAIN order :
            i < j => buffers[order[i]][1].id < buffers[order[j]][1].id
       /\ Put([i \in DOMAIN order |-> buffers[order[i]]])
  /\ Restricted({})
  /\ UNCHANGED <<now, fed>>

\* The QueueConsumer takes the entry at the head of the queue.
Take ==
  /\ queue # <<>>
  /\ queue' = Tail(queue)
  /\ UNCHANGED <<assembler, dropped, now, fed, emitted>>

\* The clock runs on until every timer that can be armed is due.
Tick ==
  /\ now < MaxTime + FlushTimeout
  /\ now' = now + 1
  /\ UNCHANGED <<assembler, queue, dropped, fed, emitted>>

Init ==
  /\ buffers = NoStreams /\ timers = NoStreams
  /\ starts = NoStreams /\ bytes = NoStreams
  /\ queue = <<>> /\ emitted = <<>>
  /\ dropped = 0 /\ now = 0 /\ fed = 0

Next ==
  \/ \E k \in Streams, kind \in Kinds, size \in Sizes : Feed(k, kind, size)
  \/ \E k \in Streams : TimerFires(k)
  \/ FlushAll
  \/ Take
  \/ Tick

Spec == Init /\ [][Next]_vars

-----------------------------------------------------------------------------

\* Type invariant: what each map, the queue and the counters hold.
TypeOK ==
  /\ buffers \in [DOMAIN buffers -> Seq(Line)]
  /\ timers \in [DOMAIN timers -> Nat]
  /\ starts \in [DOMAIN starts -> Nat]
  /\ bytes \in [DOMAIN bytes -> Nat]
  /\ queue \in Seq(Seq(Line))
  /\ emitted \in Seq([lines : Seq(Line), queued : BOOLEAN])
  /\ dropped \in Nat /\ now \in Nat /\ fed \in Nat

\* The four maps, updated separately by feed and _flush_stream_internal, never
\* disagree about which streams are active: none leaks a key when another
\* one drops it, and no active stream is left without a flush timer.
MapsInStep ==
  /\ DOMAIN timers = DOMAIN buffers
  /\ DOMAIN starts = DOMAIN buffers
  /\ DOMAIN bytes = DOMAIN buffers
  /\ DOMAIN buffers \subseteq Streams

\* The memory limits of the assembler hold between any two steps: at most
\* MaxTotalStreams streams, each with lines but fewer than the line limit
\* and fewer bytes than the byte limit (a stream that reaches one is flushed
\* by the same feed).
CapacityBound ==
  /\ Cardinality(DOMAIN buffers) <= MaxTotalStreams
  /\ \A k \in DOMAIN buffers :
       /\ Len(buffers[k]) \in 1 .. MaxStreamLines - 1
       /\ bytes[k] < MaxStreamBytes

\* "hard timeout" of MAX_STREAM_LIFETIME: the timer of an active stream is due
\* no later than the end of the stream's lifetime, however often continuation
\* lines postponed it.
TimerWithinLifetime ==
  \A k \in DOMAIN buffers :
    /\ k \in DOMAIN timers
    /\ timers[k] <= starts[k] + MaxStreamLifetime
    /\ starts[k] <= now

\* The lines of one entry arrived within a stream lifetime.
Short(lines) == Last(lines).at - Head(lines).at < MaxStreamLifetime

\* Even when the event loop lags and timers fire late, no entry merges lines
\* that arrived a stream lifetime apart.
LifetimeRespected ==
  /\ \A k \in DOMAIN buffers : Short(buffers[k])
  /\ \A i \in DOMAIN emitted : Short(emitted[i].lines)

\* Entries the queue took after the i-th one emitted.
AcceptedAfter(i) == {j \in i + 1 .. Len(emitted) : emitted[j].queued}

\* Every merged entry either entered the queue, once, in flush order, or was
\* counted by dropped_logs_total.
DropsCounted ==
  /\ dropped = Cardinality({i \in DOMAIN emitted : ~ emitted[i].queued})
  /\ Len(queue) <= QueueMaxSize /\ Len(queue) <= Cardinality(AcceptedAfter(0))
  /\ \A i \in DOMAIN emitted :
       LET place == Len(queue) - Cardinality(AcceptedAfter(i))
       IN  emitted[i].queued /\ place > 0 => queue[place] = emitted[i].lines

Numbers(lines) == {lines[i].id : i \in DOMAIN lines}
Ascending(lines) == \A i, j \in DOMAIN lines : i < j => lines[i].id < lines[j].id

\* No line is in both, and those of one stream arrived in this order.
Precedes(earlier, later) ==
  \A i \in DOMAIN earlier, j \in DOMAIN later :
    /\ earlier[i].id # later[j].id
    /\ earlier[i].stream = later[j].stream => earlier[i].id < later[j].id

\* Entries and buffers keep the order in which the lines of a stream arrived.
InArrivalOrder ==
  /\ \A i \in DOMAIN emitted :
       /\ Ascending(emitted[i].lines)
       /\ \A j \in DOMAIN emitted : i < j => Precedes(emitted[i].lines, emitted[j].lines)
       /\ \A k \in DOMAIN buffers : Precedes(emitted[i].lines, buffers[k])
  /\ \A k \in DOMAIN buffers :
       /\ Ascending(buffers[k])
       /\ \A j \in DOMAIN buffers \ {k} : Precedes(buffers[k], buffers[j])

Flushed == UNION {Numbers(emitted[i].lines) : i \in DOMAIN emitted}
Waiting == UNION {Numbers(buffers[k]) : k \in DOMAIN buffers}

\* Flushes by a new entry, a timer, a limit, an eviction or the shutdown never
\* lose, repeat or reorder a line of a stream: every line fed is in exactly
\* one entry or buffer, a stream's lines stay in arrival order, and an entry the
\* queue has no room for is counted.
LinesConserved == DropsCounted /\ InArrivalOrder /\ Flushed \cup Waiting = 1 .. fed

\* The lines are one record of one stream: each line after the first
\* continues what came before it.
Whole(lines) ==
  \A i \in 2 .. Len(lines) :
    /\ IsContinuation(lines[i].kind, SubSeq(lines, 1, i - 1))
    /\ lines[i].stream = lines[1].stream

\* Two log entries are never merged into one: an entry, buffered or flushed,
\* is one record.
OneEntryPerRecord ==
  /\ \A k \in DOMAIN buffers : Whole(buffers[k])
  /\ \A i \in DOMAIN emitted : Whole(emitted[i].lines)

\* The line fed last is one of stream k.
FedLast(k) ==
  \/ k \in DOMAIN buffers /\ fed \in Numbers(buffers[k])
  \/ \E i \in DOMAIN emitted :
       fed \in Numbers(emitted[i].lines) /\ emitted[i].lines[1].stream = k

\* A feed flushes another stream than its own only when every slot is taken,
\* and then no stream is older than the one it flushes.
EvictsOldest ==
  [][ \A k \in DOMAIN buffers \ DOMAIN buffers' :
        fed' # fed /\ ~ FedLast(k)'
          => /\ Cardinality(DOMAIN buffers) = MaxTotalStreams
             /\ \A j \in DOMAIN buffers : starts[k] <= starts[j] ]_vars

=============================================================================
