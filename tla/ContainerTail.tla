---------------------------- MODULE ContainerTail -----------------------------
(***************************************************************************)
(* _tail_container_logs of backend/app/collectors/docker_collector.py: the *)
(* log of one container is read over connections that break, and resumed   *)
(* after the last line seen.  The position survives the tailer in          *)
(* _container_last_seen and _container_last_messages, which every line     *)
(* updates with it.  The Docker daemon, external, keeps the log.  Names    *)
(* that DockerSupervisor has too begin with Tail here: proofs are about    *)
(* both.                                                                   *)
(***************************************************************************)
EXTENDS Integers, Sequences

CONSTANTS
  TicksPerSecond,  \* clock ticks in the seconds `since` is given in
  Fragments,       \* numbers of pieces splitlines() may cut a line into
  Shuffled,        \* a line of one stream may be logged after a later one of
                   \* the other stream
  MaxLines,        \* bound of the model: lines the container logs
  MaxTime,         \* bound of the model: ticks
  MaxBreaks,       \* bound of the model: connections that break or end
  MaxDeaths,       \* bound of the model: times the container dies
  MaxRejections    \* bound of the model: `since` answered with status 400

ASSUME TailAssumption ==
  /\ TicksPerSecond \in Nat \ {0}
  /\ Fragments \subseteq Nat \ {0}
  /\ Shuffled \in BOOLEAN
  /\ {MaxLines, MaxTime, MaxBreaks, MaxDeaths, MaxRejections} \subseteq Nat

VARIABLES
  log,        \* the container's log: lines with time stamp and pieces
  time,       \* the daemon's clock
  tailer,     \* "request", "stream", or "down" while the container is down
  unread,     \* lines sent on the connection and not processed
  lastSeen,   \* last_seen_timestamp
  seenAt,     \* seen_at_last_timestamp: the messages, by their lines' numbers
  entries,    \* entries fed to the assembler: line and piece
  first,      \* history: the line that gave the position, 0 when there is none
  breaks, deaths, rejections

logged == <<log, time>>
position == <<lastSeen, seenAt>>
counts == <<breaks, deaths, rejections>>
tailVars == <<logged, tailer, unread, position, entries, first, counts>>

NoTime == -1

TailInit ==
  /\ log = <<>> /\ time = 0
  /\ tailer = "request" /\ unread = <<>>
  /\ lastSeen = NoTime /\ seenAt = {}
  /\ entries = <<>> /\ first = 0
  /\ breaks = 0 /\ deaths = 0 /\ rejections = 0

-----------------------------------------------------------------------------
\* The container and the daemon (external).

Log(pieces) ==
  /\ tailer # "down"
  /\ Len(log) < MaxLines /\ time < MaxTime
  /\ \E at \in 0 .. time :
       /\ at = time \/ (Shuffled /\ \A i \in DOMAIN log : log[i].at # at)
       /\ LET line == [id |-> Len(log) + 1, at |-> at, pieces |-> pieces]
          IN  /\ log' = Append(log, line)
              /\ unread' = IF tailer = "stream" THEN Append(unread, line) ELSE unread
  /\ UNCHANGED <<time, tailer, position, entries, first, counts>>

Tick ==
  /\ time < MaxTime
  /\ time' = time + 1
  /\ UNCHANGED <<log, tailer, unread, position, entries, first, counts>>

-----------------------------------------------------------------------------
\* The tailer.

\* Mutant: the seconds of `since` are rounded up.
NextSecond(t) == (t + TicksPerSecond - 1) \div TicksPerSecond

\* _iso_to_unix_timestamp
UnixSecond(t) == t \div TicksPerSecond

\* Among the first n lines of the log, for every n, and in the whole of it: the
\* lines that are not older than t.
LinesSince(t) ==
  LET upTo[n \in 0 .. Len(log)] ==
        IF n = 0 THEN <<>>
        ELSE IF log[n].at >= t THEN Append(upTo[n - 1], log[n]) ELSE upTo[n - 1]
  IN  upTo
LoggedSince(t) == LinesSince(t)[Len(log)]

\* The request: what is logged since the second of the last line seen, and
\* before there is one, what is logged from now on (tail=0).  A request takes
\* longer than a nanosecond, the daemon's tick: no later line has an equal
\* time stamp.
Request ==
  /\ tailer = "request"
  /\ \A i \in DOMAIN log : log[i].at < time
  /\ tailer' = "stream"
  /\ unread' = IF lastSeen = NoTime THEN <<>>
               ELSE LoggedSince(UnixSecond(lastSeen) * TicksPerSecond)
  /\ UNCHANGED <<logged, position, entries, first, counts>>

\* Status 400: the position is given up, the next request is sent at once.
Rejected ==
  /\ tailer = "request" /\ lastSeen # NoTime
  /\ rejections < MaxRejections /\ rejections' = rejections + 1
  /\ lastSeen' = NoTime /\ first' = 0
  /\ UNCHANGED <<logged, tailer, unread, seenAt, entries, breaks, deaths>>

\* Mutant: a replayed line is recognised by its time stamp alone.
IsOlder(line) == lastSeen # NoTime /\ line.at <= lastSeen

\* Mutant: only lines of the last time stamp are recognised.
IsLastSeen(line) == lastSeen # NoTime /\ line.at = lastSeen /\ line.id \in seenAt

\* A line that _process_line drops: seen at the last time stamp, or older.
IsReplay(line) ==
  /\ lastSeen # NoTime
  /\ \/ line.at < lastSeen
     \/ line.at = lastSeen /\ line.id \in seenAt

\* seen_at_last_timestamp once a line is accepted.
SeenWith(line) == IF line.at = lastSeen THEN seenAt \cup {line.id} ELSE {line.id}

\* splitlines() cuts the line; the first piece carries the time stamp, the
\* others have none and are always fed.
Process ==
  /\ tailer = "stream" /\ unread # <<>>
  /\ LET line == Head(unread)
         from == IF IsReplay(line) THEN 2 ELSE 1
     IN  /\ unread' = Tail(unread)
         /\ entries' = entries \o [i \in 1 .. line.pieces - from + 1 |->
                                     [line |-> line.id, piece |-> from + i - 1]]
         /\ IF IsReplay(line) THEN UNCHANGED <<position, first>>
            ELSE /\ lastSeen' = line.at
                 /\ seenAt' = SeenWith(line)
                 /\ first' = IF first = 0 THEN line.id ELSE first
  /\ UNCHANGED <<logged, tailer, counts>>

\* The connection breaks, ends or is given up by the heartbeat.
Break ==
  /\ tailer = "stream"
  /\ breaks < MaxBreaks /\ breaks' = breaks + 1
  /\ tailer' = "request" /\ unread' = <<>>
  /\ UNCHANGED <<logged, position, entries, first, deaths, rejections>>

\* The die event cancels the tailer, whatever it has not read yet.
Die ==
  /\ tailer # "down"
  /\ deaths < MaxDeaths /\ deaths' = deaths + 1
  /\ tailer' = "down" /\ unread' = <<>>
  /\ UNCHANGED <<logged, position, entries, first, breaks, rejections>>

\* The start event: a new tailer takes the position over.
Resume ==
  /\ tailer = "down"
  /\ tailer' = "request"
  /\ UNCHANGED <<logged, unread, position, entries, first, counts>>

-----------------------------------------------------------------------------

TailNext ==
  \/ \E pieces \in Fragments : Log(pieces)
  \/ Tick
  \/ Request \/ Rejected \/ Process \/ Break \/ Die \/ Resume

TailSpec == TailInit /\ [][TailNext]_tailVars

\* The tailer retries for ever and reads what it is sent, and a container that
\* died starts again.
TailFairSpec ==
  /\ TailSpec
  /\ WF_tailVars(Tick) /\ WF_tailVars(Request)
  /\ WF_tailVars(Process) /\ WF_tailVars(Resume)

-----------------------------------------------------------------------------

Line == [id : 1 .. MaxLines, at : 0 .. MaxTime, pieces : Fragments]
Piece == [line : 1 .. Len(log), piece : Nat]

\* Type invariant: the log, what is read of it, and the position in it:
\* the messages remembered are those of the last time stamp.
TailTypeOK ==
  /\ log \in Seq(Line) /\ unread \in Seq(Line)
  /\ time \in 0 .. MaxTime
  /\ tailer \in {"request", "stream", "down"}
  /\ lastSeen \in {NoTime} \cup 0 .. MaxTime
  /\ seenAt \subseteq 1 .. Len(log)
  /\ lastSeen # NoTime => \A n \in seenAt : log[n].at = lastSeen
  /\ entries \in Seq(Piece)
  /\ first \in 0 .. Len(log)
  /\ breaks \in 0 .. MaxBreaks /\ deaths \in 0 .. MaxDeaths
  /\ rejections \in 0 .. MaxRejections

Fed == {entries[i].line : i \in DOMAIN entries}

\* Lines logged after one of the other stream that has a later time stamp.
LoggedLate == {n \in DOMAIN log : \E i \in 1 .. n - 1 : log[i].at > log[n].at}

\* Broken connections and restarts of the container lose nothing once the tailer
\* has a position, and however often it resumes: no line between the one that
\* gave the position and the last one fed is missing, unless its time stamp is
\* older than that of a line logged before it.
ResumesWithoutGap ==
  \A n \in Fed : first # 0 => \A i \in (first .. n) \ LoggedLate : i \in Fed

\* "Docker daemon's inclusive 'since' replays the last seen log line": neither
\* it nor the rest of its second is fed twice, and whatever order the daemon
\* logs two streams in, entries are fed in the order of their time stamps (as
\* long as the daemon accepts `since`).
FedOnceInOrder ==
  \A i, j \in DOMAIN entries :
    rejections = 0 /\ i < j =>
      /\ entries[i] # entries[j]
      /\ log[entries[i].line].at <= log[entries[j].line].at

\* A line logged after the position was set is fed in the end, also when it was
\* logged between two connections or its connection broke before it was read.
EveryLineArrives ==
  \A n \in 1 .. MaxLines :
    (first # 0 /\ first < n /\ n <= Len(log))
      ~> (n \in Fed \cup LoggedLate \/ first = 0 \/ first > n)

=============================================================================
