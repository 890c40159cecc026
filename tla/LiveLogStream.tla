---------------------------- MODULE LiveLogStream ------------------------------
(***************************************************************************)
(* frontend/src/components/logs/LiveLogStream.tsx: the console that shows  *)
(* the newest log rows.  It fetches pages of rows (loadInitialLogs,        *)
(* loadMoreLogs), receives committed rows over an EventSource, buffers and *)
(* flushes them, and throws away what belongs to an older filter.  Rows    *)
(* are numbered in the order of their time stamps.  An effect runs in the  *)
(* step that caused it.  Scrolling, facets and rendering are left out.     *)
(***************************************************************************)
EXTENDS Integers, Sequences, SequencesExt, Functions

CONSTANTS
  Kinds,         \* what filters tell apart in a row
  Filters,       \* the filters the operator may set
  NoFilter,      \* {}, the filter that every row passes
  Ways,          \* ways of asking for a search: "enter", "button"
  PageSize,      \* limit of a page: 500
  MaxBufferSize, \* MAX_BUFFER_SIZE: 50000
  BatchSize,     \* buffered events that are flushed at once: 500
  ContextLines,  \* rows around a row that its context brings: 10, or 0 when the
                 \* operator does not ask for contexts
  MaxRows,       \* bound of the model: rows committed
  MaxActs,       \* bound of the model: acts of the operator
  MaxBreaks      \* bound of the model: failures of requests and connections

\* A filter is what the server applies to the stream, what only a query finds,
\* and the end of the time range, NoTo when there is none.
NoTo == MaxRows + 1
FilterType == [stream : SUBSET Kinds, query : SUBSET Kinds, to : 0 .. NoTo]

ASSUME StreamAssumption ==
  /\ Filters \subseteq FilterType
  /\ NoFilter = [stream |-> Kinds, query |-> Kinds, to |-> NoTo]
  /\ Ways \subseteq {"enter", "button"}
  /\ {PageSize, MaxBufferSize, BatchSize} \subseteq Nat \ {0}
  /\ {ContextLines, MaxRows, MaxActs, MaxBreaks} \subseteq Nat

VARIABLES
  rows,         \* the logs table: the kind of every committed row
  broadcast,    \* rows handed to the SSE broadcaster
  es,           \* the EventSource: "closed", "connecting" or "open"
  wire,         \* events sent and not received
  filters,
  logs,         \* the rows shown, newest first
  buffer,       \* incomingBufferRef, in order of arrival
  timer,        \* flushTimerRef is set
  requests,     \* fetches in flight
  requestId,    \* fetchRequestIdRef
  offset,       \* historicalOffsetRef
  loading,      \* isLoadingHistory
  loadingMore,  \* isLoadingMoreRef
  hasMore,      \* hasMoreLogs
  lastSelected, \* lastSelectedLogIndex, 0 for null
  clicked,      \* history: the row that was clicked there
  newest,       \* history: the newest row when the shown history was read
  fetched,      \* history: the rows its pages brought
  upset,        \* history: since the last load began, it failed, or rows were
                \* cleared, cut off, or added from a context
  acts, breaks

server == <<rows, broadcast>>
feed == <<es, wire>>
paging == <<requests, requestId, offset, loading, loadingMore, hasMore>>
selection == <<lastSelected, clicked>>
history == <<newest, fetched>>
bounds == <<acts, breaks>>
vars == <<server, feed, filters, logs, buffer, timer, paging, selection, history,
          upset, bounds>>

Passes(f, kind, n) == kind \in f.stream \cap f.query /\ n <= f.to
Matches(f, n) == Passes(f, rows[n], n)

\* The rows that pass f, newest first: ORDER BY timestamp DESC.
Passing(table, f) ==
  LET upTo[n \in 0 .. Len(table)] ==
        IF n = 0 THEN <<>>
        ELSE IF Passes(f, table[n], n) THEN <<n>> \o upTo[n - 1] ELSE upTo[n - 1]
  IN  upTo
Matching(f) == Passing(rows, f)[Len(rows)]

Page(f, from) ==
  LET all == Matching(f)
      last == IF from + PageSize < Len(all) THEN from + PageSize ELSE Len(all)
  IN  [rows |-> SubSeq(all, from + 1, last), total |-> Len(all), newest |-> Len(rows)]

Pending == [rows |-> <<>>, total |-> 0, newest |-> 0]

Request(id, kind, f, from) ==
  [id |-> id, kind |-> kind, filters |-> f, offset |-> from,
   done |-> FALSE, page |-> Pending]

\* The connection effect: a range that ends in the past is not followed live.
Connection(f) == IF f.to # NoTo THEN "closed" ELSE "connecting"

\* Mount: the initial load is requested, then the stream is opened.
Init ==
  /\ rows \in [1 .. 1 -> Kinds] /\ broadcast = 1
  /\ es = Connection(NoFilter) /\ wire = <<>>
  /\ filters = NoFilter
  /\ logs = <<>> /\ buffer = <<>> /\ timer = FALSE
  /\ requests = {Request(1, "initial", NoFilter, 0)} /\ requestId = 1
  /\ offset = 0 /\ loading = TRUE /\ loadingMore = FALSE /\ hasMore = TRUE
  /\ lastSelected = 0 /\ clicked = 0
  /\ newest = 0 /\ fetched = {} /\ upset = FALSE
  /\ acts = 0 /\ breaks = 0

-----------------------------------------------------------------------------
\* Mutated forms of the definitions below.

SameIndex(n) == UNCHANGED lastSelected
AnyAnswer(r) == r \in requests

-----------------------------------------------------------------------------
\* The back end (external here; see QueueConsumer and SseBroadcaster).

Commit(kind) ==
  /\ Len(rows) < MaxRows
  /\ rows' = Append(rows, kind)
  /\ UNCHANGED <<broadcast, feed, filters, logs, buffer, timer, paging, selection,
                 history, upset, bounds>>

Broadcast ==
  /\ broadcast < Len(rows)
  /\ broadcast' = broadcast + 1
  /\ wire' = IF es = "open" /\ rows[broadcast + 1] \in filters.stream
             THEN Append(wire, broadcast + 1) ELSE wire
  /\ UNCHANGED <<rows, es, filters, logs, buffer, timer, paging, selection,
                 history, upset, bounds>>

Connected ==
  /\ es = "connecting"
  /\ es' = "open"
  /\ UNCHANGED <<server, wire, filters, logs, buffer, timer, paging, selection,
                 history, upset, bounds>>

\* The EventSource reconnects by itself; nothing is replayed.
Disconnected ==
  /\ es = "open" /\ breaks < MaxBreaks
  /\ es' = "connecting" /\ wire' = <<>>
  /\ breaks' = breaks + 1
  /\ UNCHANGED <<server, filters, logs, buffer, timer, paging, selection, history,
                 upset, acts>>

Answer(r) ==
  /\ ~r.done
  /\ requests' = (requests \ {r})
       \cup {[r EXCEPT !.done = TRUE, !.page = Page(r.filters, r.offset)]}
  /\ UNCHANGED <<server, feed, filters, logs, buffer, timer, requestId, offset,
                 loading, loadingMore, hasMore, selection, history, upset, bounds>>

-----------------------------------------------------------------------------
\* Incoming events.

\* Rows put on top move the row that was clicked down.
Shift(n) == lastSelected' = IF lastSelected # 0 THEN lastSelected + n ELSE 0

\* A full buffer is flushed at once, any other after 100 ms.
FlushDue == Len(buffer) + 1 >= BatchSize
ArmTimer == timer' = TRUE

FlushOf(events) ==
  LET all == Reverse(events) \o logs IN
  /\ logs' = IF Len(all) > MaxBufferSize THEN SubSeq(all, 1, MaxBufferSize) ELSE all
  /\ Shift(Len(events))
  /\ upset' = (upset \/ Len(all) > MaxBufferSize)
  /\ buffer' = <<>> /\ timer' = FALSE

OnEvent ==
  /\ wire # <<>>
  /\ wire' = Tail(wire)
  /\ IF rows[Head(wire)] \in filters.query
     THEN IF FlushDue
          THEN FlushOf(Append(buffer, Head(wire)))
          ELSE /\ buffer' = Append(buffer, Head(wire)) /\ ArmTimer
               /\ UNCHANGED <<logs, lastSelected, upset>>
     ELSE UNCHANGED <<buffer, timer, logs, lastSelected, upset>>
  /\ UNCHANGED <<server, es, filters, paging, clicked, history, bounds>>

Flush ==
  /\ timer
  /\ FlushOf(buffer)
  /\ UNCHANGED <<server, feed, filters, paging, clicked, history, bounds>>

-----------------------------------------------------------------------------
\* Loading rows.

\* Both loads, the clear button and the connection effect empty the buffer and
\* stop the timer.
DropBuffer == buffer' = <<>> /\ timer' = FALSE

AskInitial(f) ==
  /\ requestId' = requestId + 1
  /\ requests' = requests \cup {Request(requestId + 1, "initial", f, 0)}
  /\ offset' = 0 /\ loading' = TRUE

LoadInitial(f) ==
  /\ AskInitial(f)
  /\ hasMore' = TRUE
  /\ DropBuffer
  /\ UNCHANGED loadingMore

LoadMore ==
  /\ ~loadingMore /\ hasMore /\ ~loading
  /\ logs # <<>>
  /\ loadingMore' = TRUE
  /\ requests' = requests \cup {Request(requestId, "more", filters, offset)}
  /\ UNCHANGED <<server, feed, filters, logs, buffer, timer, requestId, offset,
                 loading, hasMore, selection, history, upset, bounds>>

\* A response counts only when no other load was asked for since.
IsCurrent(r) == r.id = requestId

IsLastPage(p, loaded) == Len(p.rows) < PageSize \/ loaded >= p.total

OnInitial(r) ==
  /\ r.kind = "initial" /\ r.done
  /\ requests' = requests \ {r}
  /\ IF IsCurrent(r)
     THEN /\ logs' = r.page.rows
          /\ offset' = Len(r.page.rows)
          /\ hasMore' = (hasMore /\ ~IsLastPage(r.page, Len(r.page.rows)))
          /\ loading' = FALSE
          /\ lastSelected' = 0 /\ clicked' = 0
          /\ newest' = r.page.newest /\ upset' = FALSE
          /\ fetched' = Range(r.page.rows)
     ELSE UNCHANGED <<logs, offset, hasMore, loading, selection, history, upset>>
  /\ UNCHANGED <<server, feed, filters, buffer, timer, requestId, loadingMore,
                 bounds>>

\* The rows of a page that are not shown yet.
Missing(shown, page) ==
  LET upTo[n \in 0 .. Len(page)] ==
        IF n = 0 THEN <<>>
        ELSE IF Contains(shown, page[n]) THEN upTo[n - 1] ELSE Append(upTo[n - 1], page[n])
  IN  upTo
Unseen(page) == Missing(logs, page)[Len(page)]

\* The offset grows by what was fetched, not by what was new.
Fetched(r) == Len(r.page.rows)

OnMore(r) ==
  /\ r.kind = "more" /\ r.done
  /\ requests' = requests \ {r}
  /\ loadingMore' = FALSE
  /\ IF IsCurrent(r)
     THEN /\ offset' = r.offset + Fetched(r)
          /\ hasMore' = (hasMore /\ ~IsLastPage(r.page, offset'))
          /\ logs' = logs \o Unseen(r.page.rows)
          /\ fetched' = fetched \cup Range(r.page.rows)
     ELSE UNCHANGED <<offset, hasMore, logs, fetched>>
  /\ UNCHANGED <<server, feed, filters, buffer, timer, requestId, loading,
                 selection, newest, upset, bounds>>

Failed(r) ==
  /\ breaks < MaxBreaks
  /\ breaks' = breaks + 1
  /\ requests' = requests \ {r}
  /\ IF r.kind = "initial"
     THEN /\ loading' = (loading /\ ~IsCurrent(r))
          /\ upset' = (upset \/ IsCurrent(r))
          /\ UNCHANGED loadingMore
     ELSE loadingMore' = FALSE /\ UNCHANGED <<loading, upset>>
  /\ UNCHANGED <<server, feed, filters, logs, buffer, timer, requestId, offset,
                 hasMore, selection, history, acts>>

-----------------------------------------------------------------------------
\* The operator.

Act == acts < MaxActs /\ acts' = acts + 1 /\ UNCHANGED breaks

\* The stream is opened anew only when what the server filters by changes.
Reconnect(f) ==
  IF f.stream = filters.stream /\ f.to = filters.to
  THEN UNCHANGED feed
  ELSE es' = Connection(f) /\ wire' = <<>>

SetFilters(f) ==
  /\ Act
  /\ filters' = f
  /\ LoadInitial(f)
  /\ Reconnect(f)
  /\ UNCHANGED <<server, logs, selection, history, upset>>

ResetFilters ==
  /\ Act
  /\ filters' = NoFilter
  /\ LoadInitial(NoFilter)
  /\ Reconnect(NoFilter)
  /\ lastSelected' = 0 /\ clicked' = 0
  /\ UNCHANGED <<server, logs, history, upset>>

\* onSearch is loadInitialLogs itself: the Enter key calls it without argument,
\* and the Filter button passes it the click event as overrideFilters, an
\* object none of whose fields is a filter.
SearchFilters(way) == IF way = "button" THEN NoFilter ELSE filters

Search(way) ==
  /\ Act
  /\ LoadInitial(SearchFilters(way))
  /\ UNCHANGED <<server, feed, filters, logs, selection, history, upset>>

ClearLogsBuffer ==
  /\ Act
  /\ requestId' = requestId + 1
  /\ DropBuffer
  /\ logs' = <<>> /\ lastSelected' = 0 /\ clicked' = 0
  /\ hasMore' = FALSE
  /\ upset' = TRUE
  /\ UNCHANGED <<server, feed, filters, requests, offset, loading, loadingMore,
                 history>>

ToggleSelectLog(i) ==
  /\ Act
  /\ lastSelected' = i /\ clicked' = logs[i]
  /\ UNCHANGED <<server, feed, filters, logs, buffer, timer, paging, history, upset>>

\* The rows around the inspected one are sorted into the view, and analysed.
InspectWithContext(i) ==
  /\ Act /\ ContextLines > 0
  /\ LET context == (logs[i] - ContextLines) .. (logs[i] + ContextLines)
         missing == (context \cap DOMAIN rows) \ Range(logs)
     IN  /\ missing # {}
         /\ logs' = SortSeq(SetToSeq(missing) \o logs, >)
  /\ upset' = TRUE
  /\ UNCHANGED <<server, feed, filters, buffer, timer, paging, selection, history>>

-----------------------------------------------------------------------------
Next ==
  \/ \E kind \in Kinds : Commit(kind)
  \/ Broadcast \/ Connected \/ Disconnected
  \/ OnEvent \/ Flush \/ LoadMore
  \/ \E r \in requests : Answer(r) \/ OnInitial(r) \/ OnMore(r) \/ Failed(r)
  \/ \E f \in Filters : SetFilters(f)
  \/ \E way \in Ways : Search(way)
  \/ ResetFilters \/ ClearLogsBuffer
  \/ \E i \in DOMAIN logs : ToggleSelectLog(i) \/ InspectWithContext(i)

Spec == Init /\ [][Next]_vars

-----------------------------------------------------------------------------
\* Properties.

RequestType ==
  [id : Nat, kind : {"initial", "more"}, filters : FilterType, offset : Nat,
   done : BOOLEAN,
   page : [rows : Seq(1 .. MaxRows), total : 0 .. MaxRows, newest : 0 .. MaxRows]]

\* Type invariant: the view, the buffer below its flush size, and the requests.
TypeOK ==
  /\ rows \in Seq(Kinds) /\ broadcast \in 0 .. Len(rows)
  /\ es \in {"closed", "connecting", "open"} /\ wire \in Seq(1 .. MaxRows)
  /\ filters \in FilterType
  /\ logs \in Seq(1 .. MaxRows) /\ buffer \in Seq(1 .. MaxRows)
  /\ Len(buffer) < BatchSize
  /\ requests \subseteq RequestType /\ requestId \in Nat /\ offset \in Nat
  /\ {timer, loading, loadingMore, hasMore, upset} \subseteq BOOLEAN
  /\ lastSelected \in Nat /\ clicked \in 0 .. MaxRows /\ newest \in 0 .. MaxRows
  /\ fetched \subseteq 1 .. MaxRows

Shown == Range(logs)
Settled == ~loading /\ ~upset

\* Once a load has ended well, every row on the screen and in the buffer passes
\* the filters that are set, whatever requests and events of older filters
\* arrive late (LiveLogStream.tsx:429-433, 443-446, 488-491, 561-565, 591-598; the test
\* "prevents race conditions where a slow filtered fetch resolves after Reset
\* is clicked").
ViewMatchesFilters ==
  Settled => \A n \in Shown \cup Range(buffer) : Matches(filters, n)

\* The end of a Shift-click range stays on the row that was clicked while rows
\* are put on top of it and older pages below it; rows a context adds are not
\* followed (LiveLogStream.tsx:404, 862-888).
SelectionFollowsRow ==
  ~upset /\ lastSelected \in DOMAIN logs => logs[lastSelected] = clicked

\* Older pages leave no hole, although offsets count from rows that have grown
\* since: of the rows that were there when the history was read, all that pass
\* the filters and are newer than some row a page brought are shown, and all of
\* them when "Reached beginning of log history" is (LiveLogStream.tsx:1158).
HistoryContiguous ==
  Settled =>
    \A n \in 1 .. newest :
      (Matches(filters, n) /\ (~hasMore \/ \E m \in fetched : m < n)) => n \in Shown

=============================================================================
