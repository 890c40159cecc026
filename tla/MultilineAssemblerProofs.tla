----------------------- MODULE MultilineAssemblerProofs -----------------------
(***************************************************************************)
(* Proofs about MultilineAssembler, for every value of its constants: the  *)
(* types, the agreement of the four maps, the memory limits, the hard      *)
(* lifetime of a stream, the entries it merges, and the lines it is fed:   *)
(* none is lost, repeated or reordered, and only the oldest stream is      *)
(* evicted, when no slot is free.                                          *)
(***************************************************************************)
EXTENDS MultilineAssembler, FiniteSetTheorems, SequenceTheorems,
        WellFoundedInduction, TLAPS

Entry == Seq(Line)
Emission == [lines : Entry, queued : BOOLEAN]

\* The queue never exceeds _QUEUE_MAXSIZE: put_nowait refuses instead.
QueueBounded == Len(queue) <= QueueMaxSize

\* CapacityBound counts the active streams, so it needs them to be finite.
StreamsFinite == IsFiniteSet(DOMAIN buffers)

\* The inductive invariant.  CapacityBound is not inductive alone: that feed
\* makes room before it adds a stream is seen on the one domain the four maps
\* share, and the bytes kept and the lifetime left of a stream come from the
\* same entry of that domain.
IInv ==
  /\ TypeOK
  /\ MapsInStep
  /\ CapacityBound
  /\ TimerWithinLifetime
  /\ QueueBounded
  /\ StreamsFinite

-----------------------------------------------------------------------------

\* put_nowait over a list of entries keeps the queue, the counter and the
\* history well typed and the queue within its bound.
LEMMA PutTypes ==
  ASSUME TypeOK, QueueBounded,
         NEW entries \in Seq(Entry), Put(entries)
  PROVE  /\ queue' \in Seq(Entry)
         /\ dropped' \in Nat
         /\ emitted' \in Seq(Emission)
         /\ QueueBounded'
<1> DEFINE room == QueueMaxSize - Len(queue)
           fits == IF Len(entries) <= room THEN Len(entries) ELSE room
           new  == [i \in 1 .. Len(entries) |->
                      [lines |-> entries[i], queued |-> i <= fits]]
<1>1. /\ queue \in Seq(Entry) /\ dropped \in Nat /\ emitted \in Seq(Emission)
      /\ room \in Nat
  BY LimitsAssumption, LenProperties DEF TypeOK, QueueBounded, Emission, Entry
<1>2. /\ fits \in Nat /\ fits <= Len(entries) /\ fits <= room
      /\ Len(entries) \in Nat
  BY <1>1, LenProperties
<1>3. \A i \in 1 .. fits : entries[i] \in Entry
  BY <1>2, ElementOfSeq
<1>4. /\ SubSeq(entries, 1, fits) \in Seq(Entry)
      /\ Len(SubSeq(entries, 1, fits)) = fits
  <2> HIDE DEF fits
  <2> QED BY <1>2, <1>3, SubSeqProperties
<1>5. /\ queue' = queue \o SubSeq(entries, 1, fits)
      /\ dropped' = dropped + (Len(entries) - fits)
      /\ emitted' = emitted \o new
  BY DEF Put
<1>6. new \in Seq(Emission)
  <2>1. \A i \in 1 .. Len(entries) : entries[i] \in Entry
    BY ElementOfSeq
  <2>2. new \in [1 .. Len(entries) -> Emission]
    <3> HIDE DEF fits
    <3> QED BY <1>2, <2>1 DEF Emission
  <2> QED BY <1>2, <2>2, SeqDef
<1> HIDE DEF fits, new
<1>7. /\ queue' \in Seq(Entry)
      /\ Len(queue') = Len(queue) + fits
      /\ emitted' \in Seq(Emission)
  BY <1>1, <1>4, <1>5, <1>6, ConcatProperties
<1>8. QueueBounded'
  BY <1>1, <1>2, <1>7, LimitsAssumption, LenProperties DEF QueueBounded
<1> QED BY <1>1, <1>2, <1>5, <1>7, <1>8

-----------------------------------------------------------------------------

\* Dropping streams from the four maps at once keeps everything about those
\* that stay.
LEMMA RestrictedKeeps ==
  ASSUME IInv, NEW kept, kept \subseteq DOMAIN buffers, Restricted(kept),
         now' = now
  PROVE  /\ buffers' \in [DOMAIN buffers' -> Entry]
         /\ timers' \in [DOMAIN timers' -> Nat]
         /\ starts' \in [DOMAIN starts' -> Nat]
         /\ bytes' \in [DOMAIN bytes' -> Nat]
         /\ MapsInStep' /\ CapacityBound' /\ TimerWithinLifetime'
         /\ StreamsFinite'
<1>1. /\ DOMAIN buffers' = kept /\ DOMAIN timers' = kept
      /\ DOMAIN starts' = kept /\ DOMAIN bytes' = kept
      /\ \A j \in kept : /\ buffers'[j] = buffers[j] /\ timers'[j] = timers[j]
                         /\ starts'[j] = starts[j] /\ bytes'[j] = bytes[j]
  BY DEF Restricted
<1>2. /\ IsFiniteSet(kept)
      /\ Cardinality(kept) <= Cardinality(DOMAIN buffers)
      /\ Cardinality(kept) \in Nat /\ Cardinality(DOMAIN buffers) \in Nat
  BY FS_Subset, FS_CardinalityType DEF IInv, StreamsFinite
<1>3. /\ buffers' \in [DOMAIN buffers' -> Entry]
      /\ timers' \in [DOMAIN timers' -> Nat]
      /\ starts' \in [DOMAIN starts' -> Nat]
      /\ bytes' \in [DOMAIN bytes' -> Nat]
  BY DEF Restricted, IInv, TypeOK, MapsInStep, Entry
<1>4. MapsInStep'
  BY <1>1 DEF IInv, MapsInStep
<1>5. CapacityBound'
  BY <1>1, <1>2, LimitsAssumption DEF IInv, CapacityBound
<1>6. TimerWithinLifetime'
  BY <1>1 DEF IInv, TimerWithinLifetime
<1> QED BY <1>1, <1>2, <1>3, <1>4, <1>5, <1>6 DEF StreamsFinite

\* A flush by the timer, the shutdown or a feed only drops streams.
LEMMA TimerFiresKeeps ==
  ASSUME IInv, NEW k \in Streams, TimerFires(k)
  PROVE  IInv'
<1>1. k \in DOMAIN buffers /\ buffers[k] \in Entry
  BY DEF TimerFires, IInv, TypeOK, MapsInStep, Entry
<1>2. <<buffers[k]>> \in Seq(Entry)
  BY <1>1
<1>3. /\ queue' \in Seq(Entry) /\ dropped' \in Nat
      /\ emitted' \in Seq(Emission) /\ QueueBounded'
  BY <1>2, PutTypes DEF TimerFires, IInv
<1>4. now' = now /\ fed' = fed
  BY DEF TimerFires
<1>5. /\ buffers' \in [DOMAIN buffers' -> Entry]
      /\ timers' \in [DOMAIN timers' -> Nat]
      /\ starts' \in [DOMAIN starts' -> Nat]
      /\ bytes' \in [DOMAIN bytes' -> Nat]
      /\ MapsInStep' /\ CapacityBound' /\ TimerWithinLifetime'
      /\ StreamsFinite'
  BY <1>4, RestrictedKeeps DEF TimerFires
<1>6. TypeOK'
  BY <1>3, <1>4, <1>5 DEF IInv, TypeOK, Entry, Emission
<1> QED BY <1>3, <1>5, <1>6 DEF IInv

LEMMA FlushAllKeeps ==
  ASSUME IInv, FlushAll
  PROVE  IInv'
<1> DEFINE n == Cardinality(DOMAIN buffers)
<1>1. PICK order \in [1 .. n -> DOMAIN buffers] :
        Put([i \in DOMAIN order |-> buffers[order[i]]])
  BY DEF FlushAll
<1>2. n \in Nat
  BY FS_CardinalityType DEF IInv, StreamsFinite
<1>3. [i \in DOMAIN order |-> buffers[order[i]]] \in Seq(Entry)
  <2> HIDE DEF n
  <2>1. [i \in DOMAIN order |-> buffers[order[i]]] \in [1 .. n -> Entry]
    BY <1>1 DEF IInv, TypeOK, Entry
  <2> QED BY <1>2, <2>1, SeqDef
<1>4. /\ queue' \in Seq(Entry) /\ dropped' \in Nat
      /\ emitted' \in Seq(Emission) /\ QueueBounded'
  BY <1>1, <1>3, PutTypes DEF IInv
<1>5. now' = now /\ fed' = fed /\ Restricted({})
  BY DEF FlushAll
<1>6. /\ buffers' \in [DOMAIN buffers' -> Entry]
      /\ timers' \in [DOMAIN timers' -> Nat]
      /\ starts' \in [DOMAIN starts' -> Nat]
      /\ bytes' \in [DOMAIN bytes' -> Nat]
      /\ MapsInStep' /\ CapacityBound' /\ TimerWithinLifetime'
      /\ StreamsFinite'
  BY <1>5, RestrictedKeeps
<1>7. TypeOK'
  BY <1>4, <1>5, <1>6 DEF IInv, TypeOK, Entry, Emission
<1> QED BY <1>4, <1>6, <1>7 DEF IInv

\* Every nonempty set of naturals has a least element.
LEMMA LeastNatural ==
  ASSUME NEW S, S \subseteq Nat, S # {}
  PROVE  \E m \in S : \A n \in S : m <= n
<1>1. \E m \in S : \A n \in S : <<n, m>> \notin OpToRel(<, Nat)
  BY NatLessThanWellFounded, WFMin
<1>2. PICK m \in S : \A n \in S : <<n, m>> \notin OpToRel(<, Nat)
  BY <1>1
<1>3. \A n \in S : ~ (n < m)
  BY <1>2 DEF OpToRel
<1>4. \A n \in S : m <= n
  BY <1>3
<1> QED BY <1>4

\* Among active streams one is oldest, and started before the others: one
\* started first, and among those the one whose first line came first.
LEMMA OldestIsActive ==
  ASSUME IInv, DOMAIN buffers # {}
  PROVE  Oldest \in DOMAIN buffers /\ \A j \in DOMAIN buffers : starts[Oldest] <= starts[j]
<1>1. \A j \in DOMAIN buffers : starts[j] \in Nat /\ buffers[j][1].id \in Nat
  <2> TAKE j \in DOMAIN buffers
  <2>1. /\ starts[j] \in Nat
        /\ buffers[j] \in Seq(Line) /\ Len(buffers[j]) \in 1 .. MaxStreamLines - 1
    BY DEF IInv, TypeOK, MapsInStep, CapacityBound
  <2>2. buffers[j][1] \in Line
    BY <2>1, LimitsAssumption, ElementOfSeq
  <2> QED BY <2>1, <2>2 DEF Line
<1>2. PICK m \in {starts[j] : j \in DOMAIN buffers} :
        \A n \in {starts[j] : j \in DOMAIN buffers} : m <= n
  BY <1>1, LeastNatural
<1> DEFINE First == {j \in DOMAIN buffers : starts[j] = m}
<1>3. PICK d \in {buffers[j][1].id : j \in First} :
        \A n \in {buffers[j][1].id : j \in First} : d <= n
  BY <1>1, <1>2, LeastNatural
<1>4. PICK o \in First : buffers[o][1].id = d
  BY <1>3
<1>5. \A j \in DOMAIN buffers :
        \/ starts[o] < starts[j]
        \/ starts[o] = starts[j] /\ buffers[o][1].id <= buffers[j][1].id
  <2> TAKE j \in DOMAIN buffers
  <2>1. /\ starts[o] = m /\ starts[j] \in Nat /\ m \in Nat
        /\ buffers[o][1].id = d
    BY <1>1, <1>2, <1>4
  <2>2. m <= starts[j]
    BY <1>2
  <2>3. CASE starts[j] = m
    <3>1. buffers[j][1].id \in {buffers[i][1].id : i \in First}
      BY <2>3
    <3> QED BY <1>3, <2>1, <2>3, <3>1
  <2>4. CASE starts[j] # m
    BY <2>1, <2>2, <2>4
  <2> QED BY <2>3, <2>4
<1>6. o \in DOMAIN buffers
  BY <1>4
<1> DEFINE IsOldest(x) ==
             \A j \in DOMAIN buffers :
               \/ starts[x] < starts[j]
               \/ starts[x] = starts[j] /\ buffers[x][1].id <= buffers[j][1].id
<1>7. \E x \in DOMAIN buffers : IsOldest(x)
  BY <1>5, <1>6
<1>8. PICK x : x = CHOOSE y \in DOMAIN buffers : IsOldest(y)
  OBVIOUS
<1>9. x \in DOMAIN buffers /\ IsOldest(x)
  <2> HIDE DEF IsOldest
  <2> QED BY <1>7, <1>8
<1>10. Oldest = x
  BY <1>8 DEF Oldest
<1>11. \A j \in DOMAIN buffers : starts[x] <= starts[j]
  BY <1>1, <1>9
<1> QED BY <1>9, <1>10, <1>11

\* feed makes room before it opens a stream: besides the line's own stream,
\* fewer than MaxTotalStreams streams remain.
LEMMA FeedMakesRoom ==
  ASSUME IInv, NEW k \in Streams, NEW kind \in Kinds
  PROVE  LET first  == FlushedFirst(k, kind)
             others == DOMAIN buffers \ (first \cup {k})
         IN  /\ first \subseteq DOMAIN buffers
             /\ first # {} => first = {CHOOSE j \in first : TRUE}
             /\ IsFiniteSet(others)
             /\ Cardinality(others) < MaxTotalStreams
             /\ Cardinality(others) \in Nat
<1> DEFINE first  == FlushedFirst(k, kind)
           others == DOMAIN buffers \ (first \cup {k})
<1>1. /\ IsFiniteSet(DOMAIN buffers)
      /\ Cardinality(DOMAIN buffers) \in Nat
      /\ Cardinality(DOMAIN buffers) <= MaxTotalStreams
      /\ MaxTotalStreams \in Nat \ {0}
  BY FS_CardinalityType, LimitsAssumption DEF IInv, StreamsFinite, CapacityBound
<1>2. first = {} \/ \E j : first = {j}
  BY DEF FlushedFirst
<1>3. CASE k \in DOMAIN buffers
  <2>1. first \subseteq {k}
    BY <1>3 DEF FlushedFirst
  <2>2. others = DOMAIN buffers \ {k}
    BY <2>1
  <2>3. /\ IsFiniteSet(others)
        /\ Cardinality(others) = Cardinality(DOMAIN buffers) - 1
    BY <1>1, <1>3, <2>2, FS_RemoveElement
  <2> QED BY <1>1, <1>2, <1>3, <2>1, <2>3, FS_CardinalityType
<1>4. CASE k \notin DOMAIN buffers /\ Cardinality(DOMAIN buffers) < MaxTotalStreams
  <2>1. first = {} /\ others = DOMAIN buffers
    BY <1>1, <1>4 DEF FlushedFirst
  <2> QED BY <1>1, <1>4, <2>1
<1>5. CASE k \notin DOMAIN buffers /\ Cardinality(DOMAIN buffers) >= MaxTotalStreams
  <2>1. first = {Oldest}
    BY <1>5 DEF FlushedFirst
  <2>2. PICK o \in DOMAIN buffers : TRUE
    BY <1>1, <1>5, FS_EmptySet
  <2>3. Oldest \in DOMAIN buffers
    BY <2>2, OldestIsActive
  <2>4. others = DOMAIN buffers \ {Oldest}
    BY <1>5, <2>1
  <2>5. /\ IsFiniteSet(others)
        /\ Cardinality(others) = Cardinality(DOMAIN buffers) - 1
    BY <1>1, <2>3, <2>4, FS_RemoveElement
  <2>6. Cardinality(others) < MaxTotalStreams /\ Cardinality(others) \in Nat
    BY <1>1, <2>5, FS_CardinalityType
  <2>7. first # {} => first = {CHOOSE j \in first : TRUE}
    BY <2>1
  <2> QED BY <2>1, <2>3, <2>5, <2>6, <2>7
<1> QED BY <1>1, <1>3, <1>4, <1>5

\* A feed leaves the assembler within its limits, whichever streams it
\* flushes on the way.
LEMMA FeedKeeps ==
  ASSUME IInv, NEW k \in Streams, NEW kind \in Kinds, NEW size \in Sizes,
         Feed(k, kind, size)
  PROVE  IInv'
<1> DEFINE line    == [stream |-> k, kind |-> kind, size |-> size,
                       at |-> now, id |-> fed + 1]
           first   == FlushedFirst(k, kind)
           joins   == k \in DOMAIN buffers \ first
           buffer  == IF joins THEN Append(buffers[k], line) ELSE <<line>>
           start   == IF joins THEN starts[k] ELSE now
           size2   == BytesWith(k, joins, size)
           timeout == Timeout(start)
           full    == \/ Len(buffer) >= MaxStreamLines
                      \/ size2 >= MaxStreamBytes
                      \/ timeout <= 0
           others  == DOMAIN buffers \ (first \cup {k})
           kept    == IF full THEN others ELSE others \cup {k}
           early   == IF first = {} THEN <<>>
                      ELSE <<buffers[CHOOSE j \in first : TRUE]>>
           puts    == IF full THEN Append(early, buffer) ELSE early
<1>1. /\ fed' = fed + 1 /\ now' = now
      /\ buffers' = [j \in kept |-> IF j = k THEN buffer ELSE buffers[j]]
      /\ timers'  = [j \in kept |-> IF j = k THEN now + timeout ELSE timers[j]]
      /\ starts'  = [j \in kept |-> IF j = k THEN start ELSE starts[j]]
      /\ bytes'   = [j \in kept |-> IF j = k THEN size2 ELSE bytes[j]]
      /\ Put(puts)
  BY DEF Feed
<1>2. /\ first \subseteq DOMAIN buffers
      /\ first # {} => first = {CHOOSE j \in first : TRUE}
      /\ IsFiniteSet(others)
      /\ Cardinality(others) < MaxTotalStreams
      /\ Cardinality(others) \in Nat
  BY FeedMakesRoom
<1>3. /\ now \in Nat /\ fed \in Nat /\ size \in Nat
      /\ line \in Line
  BY LinesAssumption DEF IInv, TypeOK, Line
<1>4. /\ buffers \in [DOMAIN buffers -> Entry]
      /\ timers \in [DOMAIN buffers -> Nat]
      /\ starts \in [DOMAIN buffers -> Nat]
      /\ bytes \in [DOMAIN buffers -> Nat]
  BY DEF IInv, TypeOK, MapsInStep, Entry
<1>5. /\ buffer \in Entry
      /\ Len(buffer) \in Nat \ {0}
  <2>1. CASE joins
    <3>1. buffers[k] \in Seq(Line) /\ Len(buffers[k]) \in Nat
      BY <1>4, <2>1, LenProperties DEF Entry
    <3>2. /\ Append(buffers[k], line) \in Seq(Line)
          /\ Len(Append(buffers[k], line)) = Len(buffers[k]) + 1
      <4> HIDE DEF line
      <4> QED BY <1>3, <3>1
    <3> QED BY <2>1, <3>1, <3>2 DEF Entry
  <2>2. CASE ~ joins
    <3>1. <<line>> \in Seq(Line) /\ Len(<<line>>) = 1
      <4> HIDE DEF line
      <4> QED BY <1>3
    <3> QED BY <2>2, <3>1 DEF Entry
  <2> QED BY <2>1, <2>2
<1>6. start \in Nat /\ size2 \in Nat /\ start <= now
  BY <1>3, <1>4 DEF IInv, TimerWithinLifetime, BytesWith
<1>7. timeout \in Int /\ timeout <= MaxStreamLifetime - (now - start)
  <2> HIDE DEF start
  <2> QED BY <1>3, <1>6, LimitsAssumption DEF Timeout
<1>8. /\ k \in kept => ~ full
      /\ \A j \in kept : j # k => j \in DOMAIN buffers
      /\ kept \subseteq Streams
  <2>1. /\ kept \subseteq others \cup {k} /\ k \notin others
        /\ full => kept = others
    <3> HIDE DEF full
    <3> QED OBVIOUS
  <2> HIDE DEF kept, full
  <2> QED BY <2>1 DEF IInv, MapsInStep
<1>9. early \in Seq(Entry)
  <2>1. CASE first = {}
    <3>1. early = <<>>
      BY <2>1
    <3> QED BY <3>1
  <2>2. CASE first # {}
    <3>1. (CHOOSE j \in first : TRUE) \in DOMAIN buffers
      <4> HIDE DEF first
      <4> QED BY <1>2, <2>2
    <3>2. buffers[CHOOSE j \in first : TRUE] \in Entry
      BY <1>4, <3>1
    <3>3. early = <<buffers[CHOOSE j \in first : TRUE]>>
      BY <2>2
    <3> HIDE DEF early, first
    <3> QED BY <3>2, <3>3
  <2> QED BY <2>1, <2>2
<1>10. puts \in Seq(Entry)
  <2> HIDE DEF early, buffer, full
  <2> QED BY <1>5, <1>9
<1>11. /\ queue' \in Seq(Entry) /\ dropped' \in Nat
       /\ emitted' \in Seq(Emission) /\ QueueBounded'
  BY <1>1, <1>10, PutTypes DEF IInv
<1>12. k \in kept => /\ Len(buffer) \in 1 .. MaxStreamLines - 1
                     /\ size2 < MaxStreamBytes
                     /\ timeout \in Nat
  <2> SUFFICES ASSUME ~ full
               PROVE  /\ Len(buffer) \in 1 .. MaxStreamLines - 1
                      /\ size2 < MaxStreamBytes
                      /\ timeout \in Nat
    BY <1>8
  <2> HIDE DEF buffer, size2, timeout
  <2> QED BY <1>5, <1>6, <1>7, LimitsAssumption
<1>13. IsFiniteSet(kept) /\ Cardinality(kept) <= MaxTotalStreams
  <2>1. /\ IsFiniteSet(others \cup {k})
        /\ Cardinality(others \cup {k}) <= Cardinality(others) + 1
    <3> HIDE DEF others
    <3>1. IsFiniteSet(others) /\ Cardinality(others) \in Nat
      BY <1>2
    <3>2. k \notin others => Cardinality(others \cup {k}) = Cardinality(others) + 1
      BY <3>1, FS_AddElement
    <3>3. k \in others => others \cup {k} = others
      OBVIOUS
    <3>4. IsFiniteSet(others \cup {k})
      BY <3>1, FS_AddElement
    <3>5. CASE k \in others
      BY <3>1, <3>3, <3>4, <3>5
    <3>6. CASE k \notin others
      BY <3>1, <3>2, <3>4, <3>6
    <3> QED BY <3>5, <3>6
  <2>2. kept = others \/ kept = others \cup {k}
    <3> HIDE DEF full, others
    <3>1. full => kept = others
      OBVIOUS
    <3>2. ~ full => kept = others \cup {k}
      OBVIOUS
    <3> QED BY <3>1, <3>2
  <2>3. Cardinality(others \cup {k}) \in Nat
    BY <2>1, FS_CardinalityType
  <2>4. Cardinality(others \cup {k}) <= MaxTotalStreams
    <3> HIDE DEF others
    <3> QED BY <1>2, <2>1, <2>3, LimitsAssumption
  <2>5. Cardinality(others) <= MaxTotalStreams
    <3> HIDE DEF others
    <3> QED BY <1>2, LimitsAssumption
  <2>6. CASE kept = others
    <3> HIDE DEF kept, others
    <3> QED BY <1>2, <2>5, <2>6
  <2>7. CASE kept = others \cup {k}
    <3> HIDE DEF kept, others
    <3> QED BY <2>1, <2>4, <2>7
  <2> QED BY <2>2, <2>6, <2>7
<1> HIDE DEF line, first, joins, buffer, start, size2, timeout, full, others,
             kept, early, puts
<1>14. TypeOK'
  <2>1. buffers' \in [DOMAIN buffers' -> Entry]
    BY <1>1, <1>4, <1>5, <1>8
  <2>2. timers' \in [DOMAIN timers' -> Nat]
    BY <1>1, <1>3, <1>4, <1>8, <1>12
  <2>3. starts' \in [DOMAIN starts' -> Nat]
    BY <1>1, <1>4, <1>6, <1>8
  <2>4. bytes' \in [DOMAIN bytes' -> Nat]
    BY <1>1, <1>4, <1>6, <1>8
  <2> QED BY <1>1, <1>3, <1>11, <2>1, <2>2, <2>3, <2>4
          DEF TypeOK, Entry, Emission
<1>15. MapsInStep'
  BY <1>1, <1>8 DEF MapsInStep
<1>16. CapacityBound'
  <2>1. DOMAIN buffers' = kept
    BY <1>1
  <2>2. ASSUME NEW j \in kept
        PROVE  /\ Len(buffers'[j]) \in 1 .. MaxStreamLines - 1
               /\ bytes'[j] < MaxStreamBytes
    BY <1>1, <1>8, <1>12 DEF IInv, CapacityBound
  <2> QED BY <1>13, <2>1, <2>2 DEF CapacityBound
<1>17. TimerWithinLifetime'
  <2>1. DOMAIN buffers' = kept /\ DOMAIN timers' = kept
    BY <1>1
  <2>2. ASSUME NEW j \in kept
        PROVE  /\ timers'[j] <= starts'[j] + MaxStreamLifetime
               /\ starts'[j] <= now'
    <3>1. CASE j = k
      <4>1. timers'[j] = now + timeout /\ starts'[j] = start /\ now' = now
        BY <1>1, <3>1
      <4> QED BY <1>3, <1>6, <1>7, <4>1, LimitsAssumption
    <3>2. CASE j # k
      <4>1. timers'[j] = timers[j] /\ starts'[j] = starts[j] /\ now' = now
        BY <1>1, <3>2
      <4> QED BY <1>8, <3>2, <4>1 DEF IInv, TimerWithinLifetime
    <3> QED BY <3>1, <3>2
  <2> QED BY <2>1, <2>2 DEF TimerWithinLifetime
<1>18. StreamsFinite'
  BY <1>1, <1>13 DEF StreamsFinite
<1> QED BY <1>11, <1>14, <1>15, <1>16, <1>17, <1>18 DEF IInv

-----------------------------------------------------------------------------

\* The inductive invariant holds from the start and every step keeps it.
THEOREM AssemblerInvariant == Spec => []IInv
<1>1. Init => IInv
  <2> SUFFICES ASSUME Init PROVE IInv
    OBVIOUS
  <2>1. /\ DOMAIN buffers = {} /\ DOMAIN timers = {}
        /\ DOMAIN starts = {} /\ DOMAIN bytes = {}
    BY DEF Init, NoStreams
  <2>2. TypeOK
    BY <2>1 DEF Init, NoStreams, TypeOK
  <2>3. MapsInStep /\ TimerWithinLifetime
    BY <2>1 DEF MapsInStep, TimerWithinLifetime
  <2>4. CapacityBound /\ StreamsFinite
    BY <2>1, FS_EmptySet, LimitsAssumption DEF CapacityBound, StreamsFinite
  <2>5. QueueBounded
    BY LimitsAssumption DEF Init, QueueBounded
  <2> QED BY <2>2, <2>3, <2>4, <2>5 DEF IInv
<1>2. IInv /\ [Next]_vars => IInv'
  <2> SUFFICES ASSUME IInv, [Next]_vars PROVE IInv'
    OBVIOUS
  <2>1. ASSUME NEW k \in Streams, NEW kind \in Kinds, NEW size \in Sizes,
               Feed(k, kind, size)
        PROVE  IInv'
    BY <2>1, FeedKeeps
  <2>2. ASSUME NEW k \in Streams, TimerFires(k)
        PROVE  IInv'
    BY <2>2, TimerFiresKeeps
  <2>3. CASE FlushAll
    BY <2>3, FlushAllKeeps
  <2>4. CASE Take
    <3>1. Tail(queue) \in Seq(Entry) /\ Len(Tail(queue)) = Len(queue) - 1
      BY <2>4, HeadTailProperties DEF Take, IInv, TypeOK, Entry
    <3>2. Len(queue) \in Nat
      BY LenProperties DEF IInv, TypeOK
    <3>3. QueueBounded'
      BY <2>4, <3>1, <3>2, LimitsAssumption DEF Take, IInv, QueueBounded
    <3> QED BY <2>4, <3>1, <3>3
            DEF Take, assembler, IInv, TypeOK, Entry, MapsInStep, CapacityBound,
                TimerWithinLifetime, StreamsFinite
  <2>5. CASE Tick
    <3>1. /\ now \in Nat /\ now' = now + 1
          /\ starts \in [DOMAIN starts -> Nat] /\ DOMAIN starts = DOMAIN buffers
      BY <2>5 DEF Tick, IInv, TypeOK, MapsInStep
    <3>2. TypeOK'
      BY <2>5, <3>1 DEF Tick, assembler, IInv, TypeOK
    <3>3. TimerWithinLifetime'
      BY <2>5, <3>1 DEF Tick, assembler, IInv, TimerWithinLifetime
    <3> QED BY <2>5, <3>2, <3>3
            DEF Tick, assembler, IInv, MapsInStep, CapacityBound, QueueBounded,
                StreamsFinite
  <2>6. CASE UNCHANGED vars
    BY <2>6 DEF vars, IInv, TypeOK, MapsInStep, CapacityBound,
                TimerWithinLifetime, QueueBounded, StreamsFinite
  <2> QED BY <2>1, <2>2, <2>3, <2>4, <2>5, <2>6 DEF Next
<1> QED BY <1>1, <1>2, PTL DEF Spec

\* Every variable keeps its type.
THEOREM AssemblerTypes == Spec => []TypeOK
<1>1. IInv => TypeOK
  BY DEF IInv
<1> QED BY <1>1, AssemblerInvariant, PTL

\* The four maps of the assembler always agree on the active streams.
THEOREM AssemblerMapsInStep == Spec => []MapsInStep
<1>1. IInv => MapsInStep
  BY DEF IInv
<1> QED BY <1>1, AssemblerInvariant, PTL

\* The stream, line and byte limits hold between any two steps, so the
\* eviction loop of feed never has to run twice.
THEOREM AssemblerCapacity == Spec => []CapacityBound
<1>1. IInv => CapacityBound
  BY DEF IInv
<1> QED BY <1>1, AssemblerInvariant, PTL

\* An active stream has a timer due within the stream's hard lifetime.
THEOREM AssemblerLifetime == Spec => []TimerWithinLifetime
<1>1. IInv => TimerWithinLifetime
  BY DEF IInv
<1> QED BY <1>1, AssemblerInvariant, PTL

-----------------------------------------------------------------------------
\* What the assembler merges: each entry is one record of one stream, whose lines
\* arrived within the lifetime of the stream.

\* The sequences of lines that may make an entry.
Record == {lines \in Entry : Len(lines) > 0 /\ Short(lines) /\ Whole(lines)}

\* The inductive invariant.  That a buffer may take one more line depends on
\* its stream and on the arrival of its first line, which feed finds under the
\* buffer's key and in _stream_start_times.
RInv ==
  /\ \A k \in DOMAIN buffers :
       /\ buffers[k] \in Record
       /\ buffers[k][1].stream = k
       /\ buffers[k][1].at = starts[k]
  /\ \A i \in DOMAIN emitted : emitted[i].lines \in Record

-----------------------------------------------------------------------------

\* A line alone is an entry.
LEMMA LineIsRecord ==
  ASSUME NEW line \in Line
  PROVE  <<line>> \in Record
<1>1. /\ <<line>> \in Entry /\ Len(<<line>>) = 1 /\ <<line>>[1] = line
      /\ line.at \in Nat
  BY DEF Entry, Line
<1>2. Short(<<line>>)
  BY <1>1, LimitsAssumption DEF Short, Last
<1>3. Whole(<<line>>)
  BY <1>1 DEF Whole
<1> QED BY <1>1, <1>2, <1>3 DEF Record

\* A line that continues an entry, of its stream and within its lifetime,
\* makes an entry with it.
LEMMA AppendKeepsRecord ==
  ASSUME NEW lines \in Record, NEW line \in Line,
         IsContinuation(line.kind, lines),
         line.stream = lines[1].stream,
         line.at - lines[1].at < MaxStreamLifetime
  PROVE  /\ Append(lines, line) \in Record
         /\ Append(lines, line)[1] = lines[1]
<1> DEFINE n == Len(lines)
           longer == Append(lines, line)
<1>1. /\ lines \in Seq(Line) /\ n \in Nat /\ n > 0
      /\ Short(lines) /\ Whole(lines)
  BY LenProperties DEF Record, Entry
<1>2. /\ longer \in Seq(Line) /\ Len(longer) = n + 1
      /\ longer[n + 1] = line
      /\ \A i \in 1 .. n : longer[i] = lines[i]
  BY <1>1, AppendProperties
<1>3. longer[1] = lines[1]
  BY <1>1, <1>2
<1>4. Short(longer)
  BY <1>2, <1>3 DEF Short, Last
<1>5. \A i \in 2 .. n + 1 : SubSeq(longer, 1, i - 1) = SubSeq(lines, 1, i - 1)
  <2> HIDE DEF n, longer
  <2> TAKE i \in 2 .. n + 1
  <2>1. i - 1 \in 1 .. n
    BY <1>1
  <2> QED BY <1>1, <1>2, <2>1
<1>6. SubSeq(lines, 1, n) = lines
  BY <1>1
<1>7. Whole(longer)
  <2> SUFFICES ASSUME NEW i \in 2 .. n + 1
               PROVE  /\ IsContinuation(longer[i].kind, SubSeq(longer, 1, i - 1))
                      /\ longer[i].stream = longer[1].stream
    BY <1>2 DEF Whole
  <2> HIDE DEF longer, n
  <2>1. CASE i = n + 1
    <3>1. i - 1 = n
      BY <1>1, <2>1
    <3> QED BY <1>2, <1>3, <1>5, <1>6, <2>1, <3>1
  <2>2. CASE i # n + 1
    <3>1. i \in 2 .. Len(lines) /\ i \in 1 .. n
      BY <1>1, <2>2 DEF n
    <3>2. /\ IsContinuation(lines[i].kind, SubSeq(lines, 1, i - 1))
          /\ lines[i].stream = lines[1].stream
      BY <1>1, <3>1 DEF Whole
    <3> QED BY <1>2, <1>3, <1>5, <3>1, <3>2
  <2> QED BY <2>1, <2>2
<1> QED BY <1>1, <1>2, <1>3, <1>4, <1>7 DEF Record, Entry

\* put_nowait adds only the entries it is given to those emitted.
LEMMA PutKeepsRecords ==
  ASSUME emitted \in Seq(Emission),
         \A i \in DOMAIN emitted : emitted[i].lines \in Record,
         NEW entries \in Seq(Record), Put(entries)
  PROVE  \A i \in DOMAIN emitted' : emitted'[i].lines \in Record
<1> DEFINE room == QueueMaxSize - Len(queue)
           fits == IF Len(entries) <= room THEN Len(entries) ELSE room
           new  == [i \in 1 .. Len(entries) |->
                      [lines |-> entries[i], queued |-> i <= fits]]
<1>1. emitted' = emitted \o new
  BY DEF Put
<1>2. Len(entries) \in Nat /\ \A i \in 1 .. Len(entries) : entries[i] \in Record
  BY LenProperties, ElementOfSeq
<1>3. /\ new \in Seq(Emission)
      /\ Len(new) = Len(entries)
      /\ \A i \in 1 .. Len(entries) : new[i].lines = entries[i]
  <2> HIDE DEF fits
  <2>1. new \in [1 .. Len(entries) -> Emission]
    BY <1>2 DEF Emission, Record
  <2>2. new \in Seq(Emission) /\ Len(new) = Len(entries)
    BY <1>2, <2>1, SeqDef, LenProperties
  <2> QED BY <2>2
<1> HIDE DEF new
<1>4. /\ DOMAIN emitted = 1 .. Len(emitted) /\ Len(emitted) \in Nat
      /\ emitted \o new \in Seq(Emission)
      /\ Len(emitted \o new) = Len(emitted) + Len(new)
      /\ \A i \in 1 .. Len(emitted) + Len(new) :
           (emitted \o new)[i] = IF i <= Len(emitted) THEN emitted[i]
                                 ELSE new[i - Len(emitted)]
  <2>1. DOMAIN emitted = 1 .. Len(emitted) /\ Len(emitted) \in Nat
    BY LenProperties
  <2>2. /\ emitted \o new \in Seq(Emission)
        /\ Len(emitted \o new) = Len(emitted) + Len(new)
        /\ \A i \in 1 .. Len(emitted) + Len(new) :
             (emitted \o new)[i] = IF i <= Len(emitted) THEN emitted[i]
                                   ELSE new[i - Len(emitted)]
    BY <1>3, ConcatProperties
  <2> QED BY <2>1, <2>2
<1>5. ASSUME NEW i \in DOMAIN emitted'
      PROVE  emitted'[i].lines \in Record
  <2>1. i \in 1 .. Len(emitted) + Len(entries)
    BY <1>1, <1>3, <1>4, LenProperties
  <2>2. CASE i <= Len(emitted)
    BY <1>1, <1>4, <2>1, <2>2
  <2>3. CASE i > Len(emitted)
    <3>1. i - Len(emitted) \in 1 .. Len(entries)
      BY <1>2, <1>4, <2>1, <2>3
    <3>2. emitted'[i] = new[i - Len(emitted)]
      BY <1>1, <1>3, <1>4, <2>1, <2>3
    <3> QED BY <1>2, <1>3, <3>1, <3>2
  <2> QED BY <1>4, <2>1, <2>2, <2>3
<1> QED BY <1>5

-----------------------------------------------------------------------------
\* A flush that is not part of a feed puts what it drops from the maps.
LEMMA FlushKeepsRecords ==
  ASSUME IInv, RInv, NEW kept, kept \subseteq DOMAIN buffers, Restricted(kept),
         NEW entries \in Seq(Record), Put(entries)
  PROVE  RInv'
<1>1. \A i \in DOMAIN emitted' : emitted'[i].lines \in Record
  BY PutKeepsRecords DEF IInv, TypeOK, RInv, Emission, Entry
<1>2. /\ DOMAIN buffers' = kept
      /\ \A j \in kept : buffers'[j] = buffers[j] /\ starts'[j] = starts[j]
  BY DEF Restricted
<1> QED BY <1>1, <1>2 DEF RInv

\* A feed appends its line only to the record it continues.
LEMMA FeedKeepsRecords ==
  ASSUME IInv, RInv, NEW k \in Streams, NEW kind \in Kinds, NEW size \in Sizes,
         Feed(k, kind, size)
  PROVE  RInv'
<1> DEFINE line    == [stream |-> k, kind |-> kind, size |-> size,
                       at |-> now, id |-> fed + 1]
           first   == FlushedFirst(k, kind)
           joins   == k \in DOMAIN buffers \ first
           buffer  == IF joins THEN Append(buffers[k], line) ELSE <<line>>
           start   == IF joins THEN starts[k] ELSE now
           size2   == BytesWith(k, joins, size)
           timeout == Timeout(start)
           full    == \/ Len(buffer) >= MaxStreamLines
                      \/ size2 >= MaxStreamBytes
                      \/ timeout <= 0
           others  == DOMAIN buffers \ (first \cup {k})
           kept    == IF full THEN others ELSE others \cup {k}
           early   == IF first = {} THEN <<>>
                      ELSE <<buffers[CHOOSE j \in first : TRUE]>>
           puts    == IF full THEN Append(early, buffer) ELSE early
<1>1. /\ buffers' = [j \in kept |-> IF j = k THEN buffer ELSE buffers[j]]
      /\ starts'  = [j \in kept |-> IF j = k THEN start ELSE starts[j]]
      /\ Put(puts)
  BY DEF Feed
<1>2. /\ first \subseteq DOMAIN buffers
      /\ first # {} => first = {CHOOSE j \in first : TRUE}
  BY FeedMakesRoom
<1>3. /\ now \in Nat /\ line \in Line
      /\ line.stream = k /\ line.kind = kind /\ line.at = now
  BY LinesAssumption DEF IInv, TypeOK, Line
<1>4. /\ buffer \in Record
      /\ buffer[1].stream = k
      /\ buffer[1].at = start
  <2>1. CASE joins
    <3>1. /\ k \in DOMAIN buffers
          /\ IsContinuation(kind, buffers[k])
          /\ ~ (now - starts[k] >= MaxStreamLifetime)
      BY <2>1 DEF FlushedFirst
    <3>2. /\ buffers[k] \in Record
          /\ buffers[k][1].stream = k
          /\ buffers[k][1].at = starts[k]
          /\ starts[k] \in Nat
      BY <3>1 DEF RInv, IInv, TypeOK, MapsInStep
    <3>3. now - buffers[k][1].at < MaxStreamLifetime
      BY <1>3, <3>1, <3>2, LimitsAssumption
    <3>4. /\ Append(buffers[k], line) \in Record
          /\ Append(buffers[k], line)[1] = buffers[k][1]
      <4> HIDE DEF line
      <4> QED BY <1>3, <3>1, <3>2, <3>3, AppendKeepsRecord
    <3>5. buffer = Append(buffers[k], line) /\ start = starts[k]
      BY <2>1
    <3> HIDE DEF buffer, start, line
    <3> QED BY <3>2, <3>4, <3>5
  <2>2. CASE ~ joins
    <3>1. <<line>> \in Record /\ <<line>>[1] = line
      <4> HIDE DEF line
      <4> QED BY <1>3, LineIsRecord
    <3>2. buffer = <<line>> /\ start = now
      BY <2>2
    <3> HIDE DEF buffer, start, line
    <3> QED BY <1>3, <3>1, <3>2
  <2> QED BY <2>1, <2>2
<1>5. early \in Seq(Record)
  <2>1. CASE first = {}
    <3>1. early = <<>>
      BY <2>1
    <3> QED BY <3>1
  <2>2. CASE first # {}
    <3>1. (CHOOSE j \in first : TRUE) \in DOMAIN buffers
      <4> HIDE DEF first
      <4> QED BY <1>2, <2>2
    <3>2. buffers[CHOOSE j \in first : TRUE] \in Record
      <4> HIDE DEF first
      <4> QED BY <3>1 DEF RInv
    <3>3. early = <<buffers[CHOOSE j \in first : TRUE]>>
      BY <2>2
    <3> HIDE DEF early, first
    <3> QED BY <3>2, <3>3
  <2> QED BY <2>1, <2>2
<1>6. puts \in Seq(Record)
  <2> HIDE DEF early, buffer, full
  <2> QED BY <1>4, <1>5
<1>7. kept \subseteq others \cup {k}
  <2> HIDE DEF full
  <2> QED OBVIOUS
<1>8. \A j \in kept : j # k => j \in DOMAIN buffers
  BY <1>7
<1> HIDE DEF line, first, joins, buffer, start, size2, timeout, full, others,
             kept, early, puts
<1>9. \A i \in DOMAIN emitted' : emitted'[i].lines \in Record
  BY <1>1, <1>6, PutKeepsRecords DEF IInv, TypeOK, RInv, Emission, Entry
<1>10. ASSUME NEW j \in DOMAIN buffers'
       PROVE  /\ buffers'[j] \in Record
              /\ buffers'[j][1].stream = j
              /\ buffers'[j][1].at = starts'[j]
  <2>1. j \in kept
    BY <1>1
  <2>2. CASE j = k
    BY <1>1, <1>4, <2>1, <2>2
  <2>3. CASE j # k
    BY <1>1, <1>8, <2>1, <2>3 DEF RInv
  <2> QED BY <2>2, <2>3
<1> QED BY <1>9, <1>10 DEF RInv

-----------------------------------------------------------------------------

\* Every entry, buffered or flushed, is a record from the start on.
THEOREM AssemblerRecords == Spec => []RInv
<1>1. Init => RInv
  BY DEF Init, NoStreams, RInv
<1>2. IInv /\ RInv /\ [Next]_vars => RInv'
  <2> SUFFICES ASSUME IInv, RInv, [Next]_vars PROVE RInv'
    OBVIOUS
  <2>1. ASSUME NEW k \in Streams, NEW kind \in Kinds, NEW size \in Sizes,
               Feed(k, kind, size)
        PROVE  RInv'
    BY <2>1, FeedKeepsRecords
  <2>2. ASSUME NEW k \in Streams, TimerFires(k)
        PROVE  RInv'
    <3>1. k \in DOMAIN buffers
      BY <2>2 DEF TimerFires, IInv, MapsInStep
    <3>2. <<buffers[k]>> \in Seq(Record)
      BY <3>1 DEF RInv
    <3> QED BY <2>2, <3>2, FlushKeepsRecords DEF TimerFires
  <2>3. CASE FlushAll
    <3> DEFINE n == Cardinality(DOMAIN buffers)
    <3>1. PICK order \in [1 .. n -> DOMAIN buffers] :
            Put([i \in DOMAIN order |-> buffers[order[i]]])
      BY <2>3 DEF FlushAll
    <3>2. n \in Nat
      BY FS_CardinalityType DEF IInv, StreamsFinite
    <3>3. [i \in DOMAIN order |-> buffers[order[i]]] \in Seq(Record)
      <4> HIDE DEF n
      <4>1. [i \in DOMAIN order |-> buffers[order[i]]] \in [1 .. n -> Record]
        BY <3>1 DEF RInv
      <4> QED BY <3>2, <4>1, SeqDef
    <3> QED BY <2>3, <3>1, <3>3, FlushKeepsRecords DEF FlushAll
  <2>4. CASE Take
    BY <2>4 DEF Take, assembler, RInv
  <2>5. CASE Tick
    BY <2>5 DEF Tick, assembler, RInv
  <2>6. CASE UNCHANGED vars
    BY <2>6 DEF vars, RInv
  <2> QED BY <2>1, <2>2, <2>3, <2>4, <2>5, <2>6 DEF Next
<1> QED BY <1>1, <1>2, AssemblerInvariant, PTL DEF Spec

\* Two records are never merged: no blank or indented line is taken into an
\* entry of another stream, or into one it does not continue.
THEOREM AssemblerOneEntryPerRecord == Spec => []OneEntryPerRecord
<1>1. RInv => OneEntryPerRecord
  BY DEF RInv, Record, OneEntryPerRecord
<1> QED BY <1>1, AssemblerRecords, PTL

\* However late the timers fire, no entry spans a stream lifetime.
THEOREM AssemblerLifetimeRespected == Spec => []LifetimeRespected
<1>1. RInv => LifetimeRespected
  BY DEF RInv, Record, LifetimeRespected
<1> QED BY <1>1, AssemblerRecords, PTL

-----------------------------------------------------------------------------
\* What put_nowait over a list of entries appends: the queue takes the first
\* ones, as many as it has room for.
Puts(entries, fits) ==
  /\ fits \in 0 .. Len(entries) /\ Len(queue) + fits <= QueueMaxSize
  /\ dropped' = dropped + (Len(entries) - fits)
  /\ Len(queue') = Len(queue) + fits
  /\ \A p \in 1 .. Len(queue) : queue'[p] = queue[p]
  /\ \A m \in 1 .. fits : queue'[Len(queue) + m] = entries[m]
  /\ emitted' \in Seq(Emission) /\ Len(emitted') = Len(emitted) + Len(entries)
  /\ \A i \in 1 .. Len(emitted) : emitted'[i] = emitted[i]
  /\ \A m \in 1 .. Len(entries) : emitted'[Len(emitted) + m].lines = entries[m]
  /\ \A m \in 1 .. fits : emitted'[Len(emitted) + m].queued
  /\ \A m \in fits + 1 .. Len(entries) : ~ emitted'[Len(emitted) + m].queued

LEMMA Lengths ==
  ASSUME TypeOK
  PROVE  /\ Len(queue) \in Nat /\ Len(emitted) \in Nat /\ dropped \in Nat
         /\ DOMAIN emitted = 1 .. Len(emitted)
         /\ queue \in Seq(Entry) /\ emitted \in Seq(Emission)
<1>1. queue \in Seq(Entry) /\ emitted \in Seq(Emission) /\ dropped \in Nat
  BY DEF TypeOK, Entry, Emission
<1> QED BY <1>1, LenProperties

LEMMA PutAppends ==
  ASSUME TypeOK, QueueBounded, NEW entries \in Seq(Entry), Put(entries)
  PROVE  \E fits \in Nat : Puts(entries, fits)
<1>1. /\ Len(queue) \in Nat /\ Len(emitted) \in Nat /\ dropped \in Nat
      /\ queue \in Seq(Entry) /\ emitted \in Seq(Emission)
      /\ Len(entries) \in Nat /\ QueueMaxSize \in Nat /\ Len(queue) <= QueueMaxSize
  BY Lengths, LenProperties, LimitsAssumption DEF QueueBounded
<1>2. PICK fits \in 0 .. Len(entries) :
        fits = IF Len(entries) <= QueueMaxSize - Len(queue) THEN Len(entries)
               ELSE QueueMaxSize - Len(queue)
  <2>1. PICK count \in Nat, room \in Nat : count = Len(entries) /\ room = QueueMaxSize - Len(queue)
    BY <1>1
  <2>2. \E fits \in 0 .. count : fits = IF count <= room THEN count ELSE room
    OBVIOUS
  <2> QED BY <2>1, <2>2
<1>3. Len(queue) + fits <= QueueMaxSize /\ fits \in Nat
  BY <1>1, <1>2
<1>0. PICK count \in Nat : count = Len(entries)
  BY <1>1
<1>4. PICK new : new = [i \in 1 .. count |-> [lines |-> entries[i], queued |-> i <= fits]]
  OBVIOUS
<1>5. /\ queue' = queue \o SubSeq(entries, 1, fits)
      /\ dropped' = dropped + (Len(entries) - fits)
      /\ emitted' = emitted \o new
  BY <1>0, <1>2, <1>4 DEF Put
<1>6. \A i \in 1 .. Len(entries) : entries[i] \in Entry
  BY ElementOfSeq
<1>7. PICK head \in Seq(Entry) : /\ head = SubSeq(entries, 1, fits) /\ Len(head) = fits
                                 /\ \A m \in 1 .. fits : head[m] = entries[m]
  <2>1. \A i \in 1 .. fits : entries[i] \in Entry
    BY <1>1, <1>2, <1>6
  <2>2. /\ SubSeq(entries, 1, fits) \in Seq(Entry)
        /\ Len(SubSeq(entries, 1, fits)) = (IF 1 <= fits THEN fits - 1 + 1 ELSE 0)
        /\ \A i \in 1 .. fits - 1 + 1 : SubSeq(entries, 1, fits)[i] = entries[1 + i - 1]
    BY <1>3, <2>1, SubSeqProperties
  <2>3. Len(SubSeq(entries, 1, fits)) = fits
    BY <1>3, <2>2
  <2>4. \A i \in 1 .. fits : SubSeq(entries, 1, fits)[i] = entries[i]
    BY <1>3, <2>2
  <2> QED BY <2>2, <2>3, <2>4
<1>8. /\ Len(queue') = Len(queue) + fits
      /\ \A p \in 1 .. Len(queue) : queue'[p] = queue[p]
      /\ \A m \in 1 .. fits : queue'[Len(queue) + m] = entries[m]
  <2>1. /\ Len(queue') = Len(queue) + fits
        /\ \A p \in 1 .. Len(queue) + fits :
             queue'[p] = IF p <= Len(queue) THEN queue[p] ELSE head[p - Len(queue)]
    <3>1. /\ Len(queue \o head) = Len(queue) + Len(head)
          /\ \A p \in 1 .. Len(queue) + Len(head) :
               (queue \o head)[p] = IF p <= Len(queue) THEN queue[p] ELSE head[p - Len(queue)]
      BY <1>1, ConcatProperties
    <3>2. queue' = queue \o head
      BY <1>5, <1>7
    <3> QED BY <1>7, <3>1, <3>2
  <2>2. \A m \in 1 .. fits : queue'[Len(queue) + m] = head[m]
    <3> TAKE m \in 1 .. fits
    <3>1. /\ Len(queue) + m \in 1 .. Len(queue) + fits /\ ~ (Len(queue) + m <= Len(queue))
          /\ (Len(queue) + m) - Len(queue) = m
      BY <1>1, <1>3
    <3> QED BY <2>1, <3>1
  <2>3. \A p \in 1 .. Len(queue) : p \in 1 .. Len(queue) + fits /\ p <= Len(queue)
    BY <1>1, <1>3
  <2> QED BY <1>7, <2>1, <2>2, <2>3
<1>9. new \in Seq(Emission) /\ Len(new) = Len(entries)
  <2>1. \A i \in 1 .. count : [lines |-> entries[i], queued |-> i <= fits] \in Emission
    BY <1>0, <1>6 DEF Emission
  <2>2. new \in [1 .. count -> Emission]
    BY <1>4, <2>1
  <2> HIDE DEF Emission
  <2>3. new \in Seq(Emission) /\ Len(new) = count
    BY ONLY <2>2
  <2> QED BY <1>0, <2>3
<1>10. /\ emitted' \in Seq(Emission) /\ Len(emitted') = Len(emitted) + Len(entries)
       /\ \A i \in 1 .. Len(emitted) : emitted'[i] = emitted[i]
       /\ \A m \in 1 .. Len(entries) : emitted'[Len(emitted) + m] = new[m]
  <2>1. /\ emitted' \in Seq(Emission) /\ Len(emitted') = Len(emitted) + Len(new)
        /\ \A i \in 1 .. Len(emitted) + Len(new) :
             emitted'[i] = IF i <= Len(emitted) THEN emitted[i] ELSE new[i - Len(emitted)]
    BY <1>1, <1>5, <1>9, ConcatProperties
  <2>2. \A m \in 1 .. Len(entries) : emitted'[Len(emitted) + m] = new[m]
    <3> TAKE m \in 1 .. Len(entries)
    <3>1. /\ Len(emitted) + m \in 1 .. Len(emitted) + Len(new)
          /\ ~ (Len(emitted) + m <= Len(emitted)) /\ (Len(emitted) + m) - Len(emitted) = m
      BY <1>1, <1>9
    <3> QED BY <2>1, <3>1
  <2>3. \A i \in 1 .. Len(emitted) : i \in 1 .. Len(emitted) + Len(new) /\ i <= Len(emitted)
    BY <1>1, <1>9
  <2> QED BY <1>9, <2>1, <2>2, <2>3
<1>11. ASSUME NEW m \in 1 .. Len(entries)
       PROVE  new[m].lines = entries[m] /\ new[m].queued = (m <= fits)
  <2>1. new[m] = [lines |-> entries[m], queued |-> m <= fits]
    BY <1>0, <1>4
  <2>2. new[m].lines = entries[m]
    BY <2>1
  <2>3. new[m].queued = (m <= fits)
    BY <2>1
  <2> QED BY <2>2, <2>3
<1>12. /\ \A m \in 1 .. Len(entries) : emitted'[Len(emitted) + m].lines = entries[m]
       /\ \A m \in 1 .. Len(entries) : emitted'[Len(emitted) + m].queued = (m <= fits)
  BY <1>10, <1>11, Zenon
<1>13. /\ \A m \in 1 .. fits : m \in 1 .. Len(entries) /\ (m <= fits) = TRUE
       /\ \A m \in fits + 1 .. Len(entries) : m \in 1 .. Len(entries) /\ (m <= fits) = FALSE
  BY <1>1, <1>2
<1>14. /\ \A m \in 1 .. fits : emitted'[Len(emitted) + m].queued
       /\ \A m \in fits + 1 .. Len(entries) : ~ emitted'[Len(emitted) + m].queued
  BY <1>12, <1>13, Zenon
<1> QED BY <1>2, <1>3, <1>5, <1>8, <1>10, <1>12, <1>14 DEF Puts

-----------------------------------------------------------------------------
\* Every entry is counted once: queued, or dropped.

Refused == {i \in DOMAIN emitted : ~ emitted[i].queued}

LEMMA CountsFinite ==
  ASSUME TypeOK, NEW i \in Nat
  PROVE  /\ IsFiniteSet(AcceptedAfter(i)) /\ Cardinality(AcceptedAfter(i)) \in Nat
         /\ IsFiniteSet(Refused) /\ Cardinality(Refused) \in Nat
<1>1. IsFiniteSet(i + 1 .. Len(emitted)) /\ IsFiniteSet(1 .. Len(emitted))
  BY Lengths, FS_Interval
<1>2. AcceptedAfter(i) \in SUBSET (i + 1 .. Len(emitted)) /\ Refused \in SUBSET (1 .. Len(emitted))
  BY Lengths DEF AcceptedAfter, Refused
<1>3. IsFiniteSet(AcceptedAfter(i)) /\ IsFiniteSet(Refused)
  BY ONLY <1>1, <1>2, FS_Subset
<1> QED BY <1>3, FS_CardinalityType

\* Numbers that follow each other join those before them.
LEMMA CountMore ==
  ASSUME NEW S, IsFiniteSet(S), NEW n \in Nat, \A x \in S : x \in Nat /\ x <= n,
         NEW a \in Nat, NEW b \in Nat, n < a, a <= b + 1
  PROVE  Cardinality(S \cup (a .. b)) = Cardinality(S) + (b - a + 1)
<1>1. IsFiniteSet(a .. b) /\ Cardinality(a .. b) = b - a + 1
  <2>1. IsFiniteSet(a .. b) /\ Cardinality(a .. b) = IF a > b THEN 0 ELSE b - a + 1
    BY FS_Interval
  <2> QED BY <2>1
<1>2. S \cap (a .. b) = {}
  OBVIOUS
<1>3. Cardinality(S \cup (a .. b)) = Cardinality(S) + Cardinality(a .. b) - Cardinality({})
  BY <1>1, <1>2, FS_Union
<1>4. Cardinality({}) = 0 /\ Cardinality(S) \in Nat
  BY FS_EmptySet, FS_CardinalityType
<1> QED BY <1>1, <1>3, <1>4

LEMMA PutCounts ==
  ASSUME TypeOK, DropsCounted, NEW entries, Len(entries) \in Nat, NEW fits \in Nat,
         Puts(entries, fits)
  PROVE  DropsCounted'
<1> DEFINE n == Len(emitted)
<1>1. /\ Len(queue) \in Nat /\ n \in Nat /\ dropped \in Nat /\ DOMAIN emitted = 1 .. n
      /\ fits <= Len(entries)
  BY Lengths DEF Puts
<1>2. DOMAIN emitted' = 1 .. n + Len(entries) /\ Len(emitted') = n + Len(entries)
  BY LenProperties DEF Puts
<1>3. /\ \A i \in 1 .. n : emitted'[i] = emitted[i]
      /\ \A i \in n + 1 .. n + fits : emitted'[i].queued
      /\ \A i \in n + fits + 1 .. n + Len(entries) : ~ emitted'[i].queued
      /\ \A i \in n + 1 .. n + Len(entries) : emitted'[i].lines = entries[i - n]
  <2>1. \A i \in n + 1 .. n + fits : i - n \in 1 .. fits /\ n + (i - n) = i
    BY <1>1
  <2>2. \A i \in n + fits + 1 .. n + Len(entries) :
          i - n \in fits + 1 .. Len(entries) /\ n + (i - n) = i
    BY <1>1
  <2>3. \A i \in n + 1 .. n + Len(entries) : i - n \in 1 .. Len(entries) /\ n + (i - n) = i
    BY <1>1
  <2>4. \A i \in n + 1 .. n + fits : emitted'[i].queued
    BY <2>1 DEF Puts
  <2>5. \A i \in n + fits + 1 .. n + Len(entries) : ~ emitted'[i].queued
    BY <2>2 DEF Puts
  <2>6. \A i \in n + 1 .. n + Len(entries) : emitted'[i].lines = entries[i - n]
    BY <2>3 DEF Puts
  <2> QED BY <2>4, <2>5, <2>6 DEF Puts
<1> HIDE DEF n
<1>4. dropped' = Cardinality(Refused')
  <2>1. Refused' = Refused \cup (n + fits + 1 .. n + Len(entries))
    <3>1. \A i \in 1 .. n + Len(entries) :
            i \in 1 .. n \/ i \in n + 1 .. n + fits \/ i \in n + fits + 1 .. n + Len(entries)
      BY <1>1
    <3>2. \A i \in 1 .. n : i \in 1 .. n + Len(entries)
      BY <1>1
    <3>3. \A i \in n + fits + 1 .. n + Len(entries) : i \in 1 .. n + Len(entries)
      BY <1>1
    <3>4. Refused' = {i \in 1 .. n + Len(entries) : ~ emitted'[i].queued}
      BY <1>2 DEF Refused
    <3>5. Refused = {i \in 1 .. n : ~ emitted[i].queued}
      BY <1>1 DEF Refused
    <3> QED BY <1>3, <3>1, <3>2, <3>3, <3>4, <3>5
  <2>2. Cardinality(Refused') = Cardinality(Refused) + ((n + Len(entries)) - (n + fits + 1) + 1)
    <3>1. IsFiniteSet(Refused)
      BY CountsFinite
    <3>2. \A x \in Refused : x \in Nat /\ x <= n
      BY <1>1 DEF Refused
    <3>3. n + fits + 1 \in Nat /\ n + Len(entries) \in Nat /\ n < n + fits + 1
          /\ n + fits + 1 <= n + Len(entries) + 1
      BY <1>1
    <3> QED BY <1>1, <2>1, <3>1, <3>2, <3>3, CountMore
  <2>3. dropped = Cardinality(Refused)
    BY DEF DropsCounted, Refused
  <2>4. dropped' = dropped + (Len(entries) - fits)
    BY DEF Puts
  <2> QED BY <1>1, <2>2, <2>3, <2>4
<1>5. ASSUME NEW i \in 0 .. n
      PROVE  /\ Cardinality(AcceptedAfter(i)') = Cardinality(AcceptedAfter(i)) + fits
             /\ Cardinality(AcceptedAfter(i)) \in Nat
  <2>1. AcceptedAfter(i)' = AcceptedAfter(i) \cup (n + 1 .. n + fits)
    <3>1. \A j \in i + 1 .. n + Len(entries) :
            j \in i + 1 .. n \/ j \in n + 1 .. n + fits \/ j \in n + fits + 1 .. n + Len(entries)
      BY <1>1
    <3>2. \A j \in i + 1 .. n : j \in i + 1 .. n + Len(entries) /\ j \in 1 .. n
      BY <1>1
    <3>3. \A j \in n + 1 .. n + fits : j \in i + 1 .. n + Len(entries)
      BY <1>1
    <3>4. AcceptedAfter(i)' = {j \in i + 1 .. n + Len(entries) : emitted'[j].queued}
      BY <1>2 DEF AcceptedAfter
    <3>5. AcceptedAfter(i) = {j \in i + 1 .. n : emitted[j].queued}
      BY DEF AcceptedAfter, n
    <3> QED BY <1>3, <3>1, <3>2, <3>3, <3>4, <3>5
  <2>2. IsFiniteSet(AcceptedAfter(i)) /\ Cardinality(AcceptedAfter(i)) \in Nat
    <3>1. i \in Nat
      BY <1>1
    <3> QED BY <3>1, CountsFinite
  <2>3. \A x \in AcceptedAfter(i) : x \in Nat /\ x <= n
    BY <1>1 DEF AcceptedAfter, n
  <2>4. /\ n + 1 \in Nat /\ n + fits \in Nat /\ n < n + 1 /\ n + 1 <= n + fits + 1
        /\ (n + fits) - (n + 1) + 1 = fits
    BY <1>1
  <2>5. Cardinality(AcceptedAfter(i)') = Cardinality(AcceptedAfter(i)) + ((n + fits) - (n + 1) + 1)
    BY <1>1, <2>1, <2>2, <2>3, <2>4, CountMore
  <2> QED BY <2>2, <2>4, <2>5
<1>6. ASSUME NEW i \in n + 1 .. n + fits
      PROVE  Cardinality(AcceptedAfter(i)') = fits - (i - n)
  <2>1. AcceptedAfter(i)' = i + 1 .. n + fits
    <3>1. AcceptedAfter(i)' = {j \in i + 1 .. n + Len(entries) : emitted'[j].queued}
      BY <1>2 DEF AcceptedAfter
    <3>2. \A j \in i + 1 .. n + Len(entries) :
            j \in i + 1 .. n + fits \/ j \in n + fits + 1 .. n + Len(entries)
      BY <1>1
    <3>3. \A j \in i + 1 .. n + fits : j \in i + 1 .. n + Len(entries) /\ j \in n + 1 .. n + fits
      BY <1>1
    <3> QED BY <1>3, <3>1, <3>2, <3>3
  <2>2. Cardinality(i + 1 .. n + fits) = IF i + 1 > n + fits THEN 0 ELSE n + fits - (i + 1) + 1
    BY <1>1, FS_Interval
  <2> QED BY <1>1, <2>1, <2>2
<1>7. Len(queue') <= QueueMaxSize /\ Len(queue') <= Cardinality(AcceptedAfter(0)')
  <2>1. 0 \in 0 .. n
    BY <1>1
  <2>2. Len(queue) <= Cardinality(AcceptedAfter(0)) /\ Len(queue') = Len(queue) + fits
        /\ Len(queue) + fits <= QueueMaxSize
    BY DEF DropsCounted, Puts
  <2> QED BY <1>1, <1>5, <2>1, <2>2
<1>8. ASSUME NEW i \in 1 .. n + Len(entries), emitted'[i].queued,
             Len(queue') - Cardinality(AcceptedAfter(i)') > 0
      PROVE  queue'[Len(queue') - Cardinality(AcceptedAfter(i)')] = emitted'[i].lines
  <2>0. /\ Len(queue') = Len(queue) + fits
        /\ \A p \in 1 .. Len(queue) : queue'[p] = queue[p]
        /\ \A m \in 1 .. fits : queue'[Len(queue) + m] = entries[m]
    BY DEF Puts
  <2>1. CASE i \in 1 .. n
    <3>1. PICK place \in Int : place = Len(queue) - Cardinality(AcceptedAfter(i))
      BY <1>1, <1>5, <2>1
    <3>2. Len(queue') - Cardinality(AcceptedAfter(i)') = place
      BY <1>1, <1>5, <2>0, <2>1, <3>1
    <3>3. place \in 1 .. Len(queue)
      BY <1>1, <1>5, <1>8, <2>1, <3>1, <3>2
    <3>4. emitted[i].queued /\ emitted'[i] = emitted[i]
      BY <1>3, <1>8, <2>1
    <3>5. queue[place] = emitted[i].lines
      BY <1>1, <2>1, <3>1, <3>3, <3>4 DEF DropsCounted
    <3> QED BY <2>0, <3>2, <3>3, <3>4, <3>5
  <2>2. CASE i \in n + 1 .. n + fits
    <3>1. /\ Len(queue') - Cardinality(AcceptedAfter(i)') = Len(queue) + (i - n)
          /\ i - n \in 1 .. fits /\ i \in n + 1 .. n + Len(entries)
      BY <1>1, <1>6, <2>0, <2>2
    <3> QED BY <1>3, <2>0, <3>1
  <2>3. CASE i \in n + fits + 1 .. n + Len(entries)
    BY <1>3, <1>8, <2>3
  <2> QED BY <1>1, <2>1, <2>2, <2>3
<1> QED BY <1>2, <1>4, <1>7, <1>8 DEF DropsCounted, Refused

\* The consumer takes the first entry of the queue.
LEMMA TakeCounts ==
  ASSUME TypeOK, DropsCounted, Take
  PROVE  DropsCounted'
<1>1. queue \in Seq(Entry) /\ queue # <<>> /\ queue' = Tail(queue) /\ UNCHANGED <<dropped, emitted>>
  BY Lengths DEF Take
<1>2. /\ Len(queue') = Len(queue) - 1 /\ Len(queue) \in Nat
      /\ \A p \in 1 .. Len(queue') : queue'[p] = queue[p + 1]
  BY <1>1, HeadTailProperties, LenProperties
<1>3. \A i : AcceptedAfter(i)' = AcceptedAfter(i)
  BY <1>1 DEF AcceptedAfter
<1>4. \A i \in Nat : Cardinality(AcceptedAfter(i)) \in Nat
  BY CountsFinite
<1>5. DOMAIN emitted = 1 .. Len(emitted) /\ QueueMaxSize \in Nat
  BY Lengths, LimitsAssumption
<1>6. ASSUME NEW i \in DOMAIN emitted, emitted[i].queued,
             Len(queue') - Cardinality(AcceptedAfter(i)) > 0
      PROVE  queue'[Len(queue') - Cardinality(AcceptedAfter(i))] = emitted[i].lines
  <2>0. PICK behind \in Nat : behind = Cardinality(AcceptedAfter(i))
    BY <1>4, <1>5
  <2>1. PICK n \in Nat, place \in Int :
          n = Len(queue) /\ place = n - 1 - behind /\ place = Len(queue') - behind
    BY <1>2
  <2>2. place \in 1 .. Len(queue') /\ place + 1 = Len(queue) - Cardinality(AcceptedAfter(i))
    BY <1>2, <1>6, <2>0, <2>1
  <2>3. queue[place + 1] = emitted[i].lines
    BY <1>2, <1>6, <2>2 DEF DropsCounted
  <2> QED BY <1>2, <2>0, <2>1, <2>2, <2>3
<1>7. Len(queue') <= QueueMaxSize /\ Len(queue') <= Cardinality(AcceptedAfter(0))
  <2>1. PICK accepted \in Nat : accepted = Cardinality(AcceptedAfter(0))
    BY <1>4
  <2>2. Len(queue) <= QueueMaxSize /\ Len(queue) <= accepted
    BY <2>1 DEF DropsCounted
  <2> QED BY <1>2, <1>5, <2>1, <2>2
<1> QED BY <1>1, <1>3, <1>6, <1>7 DEF DropsCounted

-----------------------------------------------------------------------------
\* Where the lines are

OfEntries(entries) == UNION {Numbers(entries[m]) : m \in 1 .. Len(entries)}

\* What a list of entries and the buffers that stay have to be for a step to
\* keep LinesConserved.
InOrder(entries) ==
  \A m \in 1 .. Len(entries) :
    /\ Ascending(entries[m])
    /\ \A l \in 1 .. Len(entries) : m < l => Precedes(entries[m], entries[l])
    /\ \A i \in DOMAIN emitted : Precedes(emitted[i].lines, entries[m])
    /\ \A k \in DOMAIN buffers' : Precedes(entries[m], buffers'[k])
Stay ==
  \A k \in DOMAIN buffers' :
    /\ Ascending(buffers'[k])
    /\ \A j \in DOMAIN buffers' \ {k} : Precedes(buffers'[k], buffers'[j])
    /\ \A i \in DOMAIN emitted : Precedes(emitted[i].lines, buffers'[k])

LEMMA PutConserves ==
  ASSUME IInv, LinesConserved, NEW entries \in Seq(Entry), Put(entries),
         InOrder(entries), Stay,
         Flushed \cup OfEntries(entries) \cup Waiting' = 1 .. fed'
  PROVE  LinesConserved'
<1>1. TypeOK /\ QueueBounded /\ DropsCounted /\ InArrivalOrder
  BY DEF IInv, LinesConserved
<1>2. PICK fits \in Nat : Puts(entries, fits)
  BY <1>1, PutAppends
<1>3. Len(entries) \in Nat /\ Len(emitted) \in Nat /\ DOMAIN emitted = 1 .. Len(emitted)
  BY <1>1, Lengths, LenProperties
<1>4. DropsCounted'
  BY <1>1, <1>2, <1>3, PutCounts
<1>5. DOMAIN emitted' = 1 .. Len(emitted) + Len(entries)
  BY <1>2, LenProperties DEF Puts
<1>6. ASSUME NEW i \in DOMAIN emitted'
      PROVE  \/ i \in DOMAIN emitted /\ emitted'[i].lines = emitted[i].lines
             \/ /\ i - Len(emitted) \in 1 .. Len(entries)
                /\ emitted'[i].lines = entries[i - Len(emitted)]
  <2>1. CASE i \in 1 .. Len(emitted)
    BY <1>2, <1>3, <2>1 DEF Puts
  <2>2. CASE i \notin 1 .. Len(emitted)
    <3>1. i - Len(emitted) \in 1 .. Len(entries) /\ Len(emitted) + (i - Len(emitted)) = i
      BY <1>3, <1>5, <2>2
    <3> QED BY <1>2, <3>1 DEF Puts
  <2> QED BY <2>1, <2>2
<1>7. Flushed' = Flushed \cup OfEntries(entries)
  <2>1. ASSUME NEW x \in Flushed PROVE x \in Flushed'
    <3>1. PICK i \in DOMAIN emitted : x \in Numbers(emitted[i].lines)
      BY <2>1 DEF Flushed
    <3>2. i \in DOMAIN emitted' /\ emitted'[i] = emitted[i]
      BY <1>2, <1>3, <1>5 DEF Puts
    <3> QED BY <3>1, <3>2 DEF Flushed, Numbers
  <2>2. ASSUME NEW x \in OfEntries(entries) PROVE x \in Flushed'
    <3>1. PICK m \in 1 .. Len(entries) : x \in Numbers(entries[m])
      BY <2>2 DEF OfEntries
    <3>2. /\ Len(emitted) + m \in DOMAIN emitted'
          /\ emitted'[Len(emitted) + m].lines = entries[m]
      BY <1>2, <1>3, <1>5 DEF Puts
    <3> QED BY <3>1, <3>2 DEF Flushed, Numbers
  <2>3. ASSUME NEW x \in Flushed' PROVE x \in Flushed \cup OfEntries(entries)
    <3>1. PICK i \in DOMAIN emitted' : x \in Numbers(emitted'[i].lines)
      BY <2>3 DEF Flushed, Numbers
    <3> QED BY <1>6, <3>1 DEF Flushed, OfEntries
  <2> QED BY <2>1, <2>2, <2>3
<1>8. ASSUME NEW i \in DOMAIN emitted'
      PROVE  /\ Ascending(emitted'[i].lines)
             /\ \A k \in DOMAIN buffers' : Precedes(emitted'[i].lines, buffers'[k])
  BY <1>1, <1>6 DEF InArrivalOrder, InOrder, Stay
<1>9. ASSUME NEW i \in DOMAIN emitted', NEW j \in DOMAIN emitted', i < j
      PROVE  Precedes(emitted'[i].lines, emitted'[j].lines)
  <2>1. CASE i \in DOMAIN emitted /\ j \in DOMAIN emitted
    <3>1. emitted'[i] = emitted[i] /\ emitted'[j] = emitted[j]
      BY <1>2, <1>3, <2>1 DEF Puts
    <3> QED BY <1>1, <1>9, <2>1, <3>1 DEF InArrivalOrder
  <2>2. CASE i \in DOMAIN emitted /\ j \notin DOMAIN emitted
    <3>1. emitted'[i].lines = emitted[i].lines
      BY <1>2, <1>3, <2>2 DEF Puts
    <3>2. PICK m \in 1 .. Len(entries) : emitted'[j].lines = entries[m]
      BY <1>6, <2>2
    <3> QED BY <2>2, <3>1, <3>2 DEF InOrder
  <2>3. CASE i \notin DOMAIN emitted
    <3>1. j \notin DOMAIN emitted
      BY <1>3, <1>5, <1>9, <2>3
    <3>2. PICK m \in 1 .. Len(entries) : m = i - Len(emitted) /\ emitted'[i].lines = entries[m]
      BY <1>6, <2>3
    <3>3. PICK l \in 1 .. Len(entries) : l = j - Len(emitted) /\ emitted'[j].lines = entries[l]
      BY <1>6, <3>1
    <3>4. m < l
      BY <1>3, <1>5, <1>9, <3>2, <3>3
    <3> QED BY <3>2, <3>3, <3>4 DEF InOrder
  <2> QED BY <2>1, <2>2, <2>3
<1>10. InArrivalOrder'
  <2>1. /\ \A i \in DOMAIN emitted' :
             /\ Ascending(emitted'[i].lines)
             /\ \A j \in DOMAIN emitted' : i < j => Precedes(emitted'[i].lines, emitted'[j].lines)
             /\ \A k \in DOMAIN buffers' : Precedes(emitted'[i].lines, buffers'[k])
        /\ \A k \in DOMAIN buffers' :
             /\ Ascending(buffers'[k])
             /\ \A j \in DOMAIN buffers' \ {k} : Precedes(buffers'[k], buffers'[j])
    BY <1>8, <1>9 DEF Stay
  <2> QED BY <2>1 DEF InArrivalOrder, Ascending, Precedes
<1> QED BY <1>4, <1>7, <1>10 DEF LinesConserved

\* A flush that is not part of a feed puts each buffer that goes, once.
LEMMA FlushConserves ==
  ASSUME IInv, LinesConserved, NEW kept, kept \subseteq DOMAIN buffers, Restricted(kept),
         fed' = fed, NEW entries \in Seq(Entry), Put(entries), NEW from,
         \A m \in 1 .. Len(entries) :
           /\ from[m] \in DOMAIN buffers \ kept /\ entries[m] = buffers[from[m]]
           /\ \A l \in 1 .. Len(entries) : m < l => from[m] # from[l],
         \A k \in DOMAIN buffers \ kept : \E m \in 1 .. Len(entries) : from[m] = k
  PROVE  LinesConserved'
<1>1. DOMAIN buffers' = kept /\ \A k \in kept : buffers'[k] = buffers[k]
  BY DEF Restricted
<1>2. /\ \A i \in DOMAIN emitted : \A k \in DOMAIN buffers : Precedes(emitted[i].lines, buffers[k])
      /\ \A k \in DOMAIN buffers :
           /\ Ascending(buffers[k])
           /\ \A j \in DOMAIN buffers \ {k} : Precedes(buffers[k], buffers[j])
  BY DEF LinesConserved, InArrivalOrder
<1>3. Stay
  BY <1>1, <1>2 DEF Stay
<1>4. InOrder(entries)
  <2> SUFFICES ASSUME NEW m \in 1 .. Len(entries)
               PROVE  /\ Ascending(entries[m])
                      /\ \A l \in 1 .. Len(entries) : m < l => Precedes(entries[m], entries[l])
                      /\ \A i \in DOMAIN emitted : Precedes(emitted[i].lines, entries[m])
                      /\ \A k \in DOMAIN buffers' : Precedes(entries[m], buffers'[k])
    BY DEF InOrder
  <2> QED BY <1>1, <1>2
<1>5. OfEntries(entries) \cup Waiting' = Waiting
  <2>1. Waiting' = UNION {Numbers(buffers[k]) : k \in kept}
    BY <1>1 DEF Waiting, Numbers
  <2>2. OfEntries(entries) \subseteq Waiting
    BY DEF OfEntries, Waiting
  <2>3. ASSUME NEW x \in Waiting PROVE x \in OfEntries(entries) \cup Waiting'
    <3>1. PICK k \in DOMAIN buffers : x \in Numbers(buffers[k])
      BY <2>3 DEF Waiting
    <3>2. CASE k \in kept
      BY <2>1, <3>1, <3>2
    <3>3. CASE k \notin kept
      <4>1. PICK m \in 1 .. Len(entries) : from[m] = k
        BY <3>3
      <4>2. x \in Numbers(entries[m])
        BY <3>1, <4>1
      <4> QED BY <4>2 DEF OfEntries
    <3> QED BY <3>2, <3>3
  <2>4. Waiting' \subseteq Waiting
    BY <2>1 DEF Waiting
  <2> QED BY <2>2, <2>3, <2>4
<1>6. Flushed \cup OfEntries(entries) \cup Waiting' = 1 .. fed'
  BY <1>5 DEF LinesConserved
<1> QED BY <1>3, <1>4, <1>6, PutConserves

LEMMA TimerConserves ==
  ASSUME IInv, LinesConserved, NEW k \in Streams, TimerFires(k)
  PROVE  LinesConserved'
<1>1. k \in DOMAIN buffers /\ buffers[k] \in Entry
  BY DEF TimerFires, IInv, TypeOK, MapsInStep, Entry
<1>2. PICK x \in Entry : x = buffers[k]
  BY <1>1
<1>3. PICK entries : entries = <<x>>
  OBVIOUS
<1>4. entries \in Seq(Entry) /\ Len(entries) = 1 /\ entries[1] = x
  BY ONLY <1>2, <1>3
<1>5. PICK from, kept : from = [m \in 1 .. 1 |-> k] /\ kept = DOMAIN buffers \ {k}
  OBVIOUS
<1>6. Put(entries) /\ Restricted(kept) /\ fed' = fed /\ kept \subseteq DOMAIN buffers
  BY <1>2, <1>3, <1>5 DEF TimerFires
<1>7. \A m \in 1 .. Len(entries) : m = 1
  BY <1>4
<1>8. from[1] = k /\ DOMAIN buffers \ kept = {k} /\ 1 \in 1 .. Len(entries)
  BY <1>1, <1>4, <1>5
<1>9. /\ \A m \in 1 .. Len(entries) :
           /\ from[m] \in DOMAIN buffers \ kept /\ entries[m] = buffers[from[m]]
           /\ \A l \in 1 .. Len(entries) : m < l => from[m] # from[l]
      /\ \A j \in DOMAIN buffers \ kept : \E m \in 1 .. Len(entries) : from[m] = j
  BY <1>2, <1>4, <1>7, <1>8
<1> QED BY <1>4, <1>6, <1>9, FlushConserves

\* The streams flush_all puts in order are all of them, once each.
LEMMA FlushAllConserves ==
  ASSUME IInv, LinesConserved, FlushAll
  PROVE  LinesConserved'
<1>1. IsFiniteSet(DOMAIN buffers)
  BY DEF IInv, StreamsFinite
<1>2. PICK n \in Nat : n = Cardinality(DOMAIN buffers)
  BY <1>1, FS_CardinalityType
<1>3. PICK order \in [1 .. n -> DOMAIN buffers] :
        /\ \A i, j \in DOMAIN order :
             i < j => buffers[order[i]][1].id < buffers[order[j]][1].id
        /\ Put([i \in DOMAIN order |-> buffers[order[i]]])
  BY <1>2 DEF FlushAll
<1>4. PICK entries : entries = [i \in 1 .. n |-> buffers[order[i]]]
  OBVIOUS
<1>5. entries \in Seq(Entry) /\ Len(entries) = n
  <2>1. entries \in [1 .. n -> Entry]
    BY <1>3, <1>4 DEF IInv, TypeOK, Entry
  <2> QED BY ONLY <1>2, <2>1
<1>6. Put(entries) /\ Restricted({}) /\ fed' = fed
  BY <1>3, <1>4 DEF FlushAll
<1>7. \A k \in DOMAIN buffers : buffers[k][1].id \in Nat
  <2> TAKE k \in DOMAIN buffers
  <2>1. buffers[k] \in Seq(Line) /\ Len(buffers[k]) \in 1 .. MaxStreamLines - 1
    BY DEF IInv, TypeOK, CapacityBound
  <2>2. buffers[k][1] \in Line
    BY <2>1, LimitsAssumption, ElementOfSeq
  <2> QED BY <2>2 DEF Line
<1>8. \A i, j \in 1 .. n : i # j => order[i] # order[j]
  <2> SUFFICES ASSUME NEW i \in 1 .. n, NEW j \in 1 .. n, i < j PROVE order[i] # order[j]
    OBVIOUS
  <2>1. buffers[order[i]][1].id < buffers[order[j]][1].id
    BY <1>3
  <2> QED BY <1>3, <1>7, <2>1
<1>9. \A k \in DOMAIN buffers : \E m \in 1 .. n : order[m] = k
  <2>1. order \in Injection(1 .. n, DOMAIN buffers)
    BY <1>3, <1>8 DEF Injection, IsInjective
  <2>2. Cardinality(1 .. n) = Cardinality(DOMAIN buffers)
    BY <1>2, FS_Interval
  <2>3. order \in Surjection(1 .. n, DOMAIN buffers)
    BY <1>1, <2>1, <2>2, FS_Injection
  <2> QED BY <2>3 DEF Surjection
<1>10. /\ \A m \in 1 .. Len(entries) :
            /\ order[m] \in DOMAIN buffers \ {} /\ entries[m] = buffers[order[m]]
            /\ \A l \in 1 .. Len(entries) : m < l => order[m] # order[l]
       /\ \A k \in DOMAIN buffers \ {} : \E m \in 1 .. Len(entries) : order[m] = k
  BY <1>3, <1>4, <1>5, <1>8, <1>9
<1> QED BY <1>5, <1>6, <1>10, FlushConserves

-----------------------------------------------------------------------------
\* A line more

\* A sequence of lines with one more.
Longer(longer, base, line) ==
  /\ base \in Entry /\ longer \in Entry /\ Len(longer) = Len(base) + 1
  /\ longer[Len(base) + 1] = line
  /\ \A x \in 1 .. Len(base) : longer[x] = base[x]

LEMMA LongerLines ==
  ASSUME NEW longer, NEW base, NEW line, Longer(longer, base, line)
  PROVE  /\ Len(base) \in Nat /\ DOMAIN base = 1 .. Len(base)
         /\ DOMAIN longer = 1 .. Len(base) + 1
         /\ \A x \in DOMAIN longer :
              \/ x \in DOMAIN base /\ longer[x] = base[x]
              \/ x = Len(base) + 1 /\ longer[x] = line
         /\ \A x \in DOMAIN base : base[x].id \in Nat
         /\ Numbers(longer) = Numbers(base) \cup {line.id}
<1>1. base \in Seq(Line) /\ longer \in Seq(Line)
  BY DEF Longer, Entry
<1>2. /\ Len(base) \in Nat /\ DOMAIN base = 1 .. Len(base)
      /\ DOMAIN longer = 1 .. Len(base) + 1
  BY <1>1, LenProperties DEF Longer
<1>3. \A x \in DOMAIN longer :
        \/ x \in DOMAIN base /\ longer[x] = base[x]
        \/ x = Len(base) + 1 /\ longer[x] = line
  BY <1>2 DEF Longer
<1>4. \A x \in DOMAIN base : base[x].id \in Nat
  <2> TAKE x \in DOMAIN base
  <2>1. base[x] \in Line
    BY <1>1, <1>2, ElementOfSeq
  <2> QED BY <2>1 DEF Line
<1>5. Numbers(longer) = Numbers(base) \cup {line.id}
  <2>1. \A x \in DOMAIN base : x \in DOMAIN longer /\ longer[x] = base[x]
    BY <1>2 DEF Longer
  <2>2. Len(base) + 1 \in DOMAIN longer /\ longer[Len(base) + 1] = line
    BY <1>2 DEF Longer
  <2> QED BY <1>3, <2>1, <2>2 DEF Numbers
<1> QED BY <1>2, <1>3, <1>4, <1>5

\* It comes after what its other lines come after.
LEMMA LongerAfter ==
  ASSUME NEW longer, NEW base, NEW line, Longer(longer, base, line), line.id \in Nat,
         NEW earlier, Precedes(earlier, base),
         \A n \in Numbers(earlier) : n \in Nat /\ n < line.id
  PROVE  Precedes(earlier, longer)
<1> SUFFICES ASSUME NEW i \in DOMAIN earlier, NEW j \in DOMAIN longer
             PROVE  /\ earlier[i].id # longer[j].id
                    /\ earlier[i].stream = longer[j].stream => earlier[i].id < longer[j].id
  BY DEF Precedes
<1>1. CASE j \in DOMAIN base /\ longer[j] = base[j]
  BY <1>1 DEF Precedes
<1>2. CASE longer[j] = line
  <2>1. earlier[i].id \in Nat /\ earlier[i].id < line.id
    BY DEF Numbers
  <2> QED BY <1>2, <2>1
<1> QED BY <1>1, <1>2, LongerLines

\* It comes before what its other lines come before, in another stream.
LEMMA LongerBefore ==
  ASSUME NEW longer, NEW base, NEW line, Longer(longer, base, line), line.id \in Nat,
         NEW later, Precedes(base, later),
         \A i \in DOMAIN later : /\ later[i].id \in Nat /\ later[i].id < line.id
                                 /\ later[i].stream # line.stream
  PROVE  Precedes(longer, later)
<1> SUFFICES ASSUME NEW i \in DOMAIN longer, NEW j \in DOMAIN later
             PROVE  /\ longer[i].id # later[j].id
                    /\ longer[i].stream = later[j].stream => longer[i].id < later[j].id
  BY DEF Precedes
<1>1. CASE i \in DOMAIN base /\ longer[i] = base[i]
  BY <1>1 DEF Precedes
<1>2. CASE longer[i] = line
  BY <1>2
<1> QED BY <1>1, <1>2, LongerLines

LEMMA LongerAscends ==
  ASSUME NEW longer, NEW base, NEW line, Longer(longer, base, line), line.id \in Nat,
         Ascending(base), \A n \in Numbers(base) : n < line.id
  PROVE  Ascending(longer)
<1>1. /\ Len(base) \in Nat /\ DOMAIN base = 1 .. Len(base)
      /\ DOMAIN longer = 1 .. Len(base) + 1
      /\ \A x \in DOMAIN longer :
           \/ x \in DOMAIN base /\ longer[x] = base[x]
           \/ x = Len(base) + 1 /\ longer[x] = line
  BY LongerLines
<1> SUFFICES ASSUME NEW i \in DOMAIN longer, NEW j \in DOMAIN longer, i < j
             PROVE  longer[i].id < longer[j].id
  BY DEF Ascending
<1>2. i \in DOMAIN base /\ longer[i] = base[i]
  BY <1>1
<1>3. CASE j \in DOMAIN base /\ longer[j] = base[j]
  BY <1>2, <1>3 DEF Ascending
<1>4. CASE longer[j] = line
  <2>1. base[i].id \in Numbers(base)
    BY <1>2 DEF Numbers
  <2> QED BY <1>2, <1>4, <2>1
<1> QED BY <1>1, <1>3, <1>4

\* The lines of a buffer are those of its stream, and were fed.
LEMMA BufferLines ==
  ASSUME IInv, RInv, LinesConserved
  PROVE  /\ fed \in Nat
         /\ \A k \in DOMAIN buffers :
              /\ buffers[k] \in Entry
              /\ Numbers(buffers[k]) \subseteq 1 .. fed
              /\ \A x \in DOMAIN buffers[k] : /\ buffers[k][x].stream = k
                                              /\ buffers[k][x].id \in 1 .. fed
         /\ \A i \in DOMAIN emitted : Numbers(emitted[i].lines) \subseteq 1 .. fed
<1>1. fed \in Nat
  BY DEF IInv, TypeOK
<1>2. ASSUME NEW k \in DOMAIN buffers
      PROVE  buffers[k] \in Entry /\ \A x \in DOMAIN buffers[k] : buffers[k][x].stream = k
  <2>1. /\ buffers[k] \in Entry /\ Len(buffers[k]) > 0 /\ Whole(buffers[k])
        /\ buffers[k][1].stream = k
    BY DEF RInv, Record
  <2>2. DOMAIN buffers[k] = 1 .. Len(buffers[k]) /\ Len(buffers[k]) \in Nat
    BY <2>1, LenProperties DEF Entry
  <2>3. \A x \in DOMAIN buffers[k] : x = 1 \/ x \in 2 .. Len(buffers[k])
    BY <2>2
  <2> QED BY <2>1, <2>3 DEF Whole
<1>3. ASSUME NEW k \in DOMAIN buffers
      PROVE  Numbers(buffers[k]) \subseteq 1 .. fed
  BY DEF LinesConserved, Waiting
<1>4. ASSUME NEW i \in DOMAIN emitted
      PROVE  Numbers(emitted[i].lines) \subseteq 1 .. fed
  BY DEF LinesConserved, Flushed
<1>5. \A k \in DOMAIN buffers : \A x \in DOMAIN buffers[k] : buffers[k][x].id \in 1 .. fed
  BY <1>3 DEF Numbers
<1> QED BY <1>1, <1>2, <1>3, <1>4, <1>5

\* What a feed puts: first the buffer it flushes before it takes the line, and
\* last the one the line is in, when that is full.
PutsEarly(entries, m, early) == m = 1 /\ \E e \in early : entries[m] = buffers[e]
PutsFull(entries, m, buffer) == m = Len(entries) /\ entries[m] = buffer
FeedPuts(entries, early, full, buffer) ==
  /\ \A m \in 1 .. Len(entries) :
       PutsEarly(entries, m, early) \/ (full /\ PutsFull(entries, m, buffer))
  /\ \A m, l \in 1 .. Len(entries) :
       m < l => PutsEarly(entries, m, early) /\ full /\ PutsFull(entries, l, buffer)
  /\ early # {} => \E m \in 1 .. Len(entries) : PutsEarly(entries, m, early)
  /\ full => \E m \in 1 .. Len(entries) : PutsFull(entries, m, buffer)

\* What a feed does to entries and buffers.
Takes(k, line, first, base, buffer, full, entries) ==
  /\ fed' = fed + 1 /\ line \in Line /\ line.id = fed + 1 /\ line.stream = k
  /\ first \subseteq DOMAIN buffers /\ \A i, j \in first : i = j
  /\ base = (IF k \in DOMAIN buffers \ first THEN buffers[k] ELSE <<>>)
  /\ Longer(buffer, base, line)
  /\ DOMAIN buffers' = IF full THEN DOMAIN buffers \ (first \cup {k})
                       ELSE (DOMAIN buffers \ first) \cup {k}
  /\ \A j \in DOMAIN buffers' : buffers'[j] = IF j = k THEN buffer ELSE buffers[j]
  /\ entries \in Seq(Entry) /\ Put(entries) /\ FeedPuts(entries, first, full, buffer)
  /\ full \in BOOLEAN

LEMMA EntryOfOne ==
  ASSUME NEW x \in Entry
  PROVE  <<x>> \in Seq(Entry) /\ Len(<<x>>) = 1 /\ <<x>>[1] = x
OBVIOUS

LEMMA EntryOfTwo ==
  ASSUME NEW x \in Entry, NEW y \in Entry
  PROVE  /\ Append(<<x>>, y) \in Seq(Entry) /\ Len(Append(<<x>>, y)) = 2
         /\ Append(<<x>>, y)[1] = x /\ Append(<<x>>, y)[2] = y
<1>1. <<x>> \in Seq(Entry) /\ Len(<<x>>) = 1 /\ <<x>>[1] = x
  BY EntryOfOne
<1> QED BY <1>1, AppendProperties

LEMMA FeedTakes ==
  ASSUME IInv, NEW k \in Streams, NEW kind \in Kinds, NEW size \in Sizes,
         Feed(k, kind, size)
  PROVE  \E line, base, buffer, full, entries :
           Takes(k, line, FlushedFirst(k, kind), base, buffer, full, entries)
<1>1. PICK line : line = [stream |-> k, kind |-> kind, size |-> size, at |-> now, id |-> fed + 1]
  OBVIOUS
<1>2. PICK first : first = FlushedFirst(k, kind)
  OBVIOUS
<1>3. PICK joins \in BOOLEAN : joins <=> k \in DOMAIN buffers \ first
  OBVIOUS
<1>4. PICK buffer : buffer = IF joins THEN Append(buffers[k], line) ELSE <<line>>
  OBVIOUS
<1>5. PICK size2, start : /\ size2 = BytesWith(k, joins, size)
                          /\ start = IF joins THEN starts[k] ELSE now
  OBVIOUS
<1>6. PICK full \in BOOLEAN : full <=> \/ Len(buffer) >= MaxStreamLines
                                       \/ size2 >= MaxStreamBytes
                                       \/ Timeout(start) <= 0
  OBVIOUS
<1>7. PICK others, kept : /\ others = DOMAIN buffers \ (first \cup {k})
                          /\ kept = IF full THEN others ELSE others \cup {k}
  OBVIOUS
<1>8. PICK early : early = IF first = {} THEN <<>> ELSE <<buffers[CHOOSE j \in first : TRUE]>>
  OBVIOUS
<1>9. PICK entries : entries = IF full THEN Append(early, buffer) ELSE early
  OBVIOUS
<1>10. /\ fed' = fed + 1
       /\ buffers' = [j \in kept |-> IF j = k THEN buffer ELSE buffers[j]]
       /\ Put(entries)
  BY <1>1, <1>2, <1>3, <1>4, <1>5, <1>6, <1>7, <1>8, <1>9 DEF Feed
<1>11. line \in Line /\ line.id = fed + 1 /\ line.stream = k
  BY <1>1, LinesAssumption DEF IInv, TypeOK, Line
<1>12. first \subseteq DOMAIN buffers /\ (first # {} => first = {CHOOSE j \in first : TRUE})
  BY <1>2, FeedMakesRoom
<1>13. PICK base : base = IF joins THEN buffers[k] ELSE <<>>
  OBVIOUS
<1>14. \A j \in DOMAIN buffers : buffers[j] \in Entry
  BY DEF IInv, TypeOK, Entry
<1>15. Longer(buffer, base, line)
  <2>1. CASE joins
    <3>1. base \in Seq(Line) /\ buffer = Append(base, line)
      BY <1>3, <1>4, <1>13, <1>14, <2>1 DEF Entry
    <3>2. /\ Append(base, line) \in Seq(Line) /\ Len(Append(base, line)) = Len(base) + 1
          /\ Append(base, line)[Len(base) + 1] = line
          /\ \A x \in 1 .. Len(base) : Append(base, line)[x] = base[x]
      BY <1>11, <3>1, AppendProperties
    <3> QED BY <3>1, <3>2 DEF Longer, Entry
  <2>2. CASE ~ joins
    <3>1. base = <<>> /\ buffer = <<line>>
      BY <1>4, <1>13, <2>2
    <3>2. <<>> \in Seq(Line) /\ Len(<<>>) = 0 /\ <<line>> \in Seq(Line) /\ Len(<<line>>) = 1
          /\ <<line>>[1] = line
      BY ONLY <1>11
    <3> QED BY <3>1, <3>2 DEF Longer, Entry
  <2> QED BY <2>1, <2>2
<1>16. /\ DOMAIN buffers' = IF full THEN DOMAIN buffers \ (first \cup {k})
                            ELSE (DOMAIN buffers \ first) \cup {k}
       /\ \A j \in DOMAIN buffers' : buffers'[j] = IF j = k THEN buffer ELSE buffers[j]
  <2>1. DOMAIN buffers' = kept
    BY <1>10
  <2>2. \A j \in kept : buffers'[j] = IF j = k THEN buffer ELSE buffers[j]
    BY <1>10
  <2> QED BY <1>7, <2>1, <2>2
<1>17. entries \in Seq(Entry) /\ FeedPuts(entries, first, full, buffer)
  <2>0. buffer \in Entry
    BY <1>15 DEF Longer
  <2>1. CASE first = {} /\ ~ full
    <3>1. entries = <<>> /\ Len(entries) = 0
      BY <1>8, <1>9, <2>1
    <3> QED BY <2>1, <3>1 DEF FeedPuts
  <2>2. CASE first = {} /\ full
    <3>1. entries = <<buffer>>
      BY <1>8, <1>9, <2>2
    <3>2. entries \in Seq(Entry) /\ Len(entries) = 1 /\ entries[1] = buffer
      BY <2>0, <3>1, EntryOfOne
    <3>3. PutsFull(entries, 1, buffer)
      BY <3>2 DEF PutsFull
    <3> QED BY <2>2, <3>2, <3>3 DEF FeedPuts
  <2>3. CASE first # {}
    <3>1. PICK e \in first : e = CHOOSE j \in first : TRUE
      BY <2>3
    <3>2. PICK x \in Entry : x = buffers[e]
      BY <1>12, <1>14, <3>1
    <3>3. early = <<x>>
      BY <1>8, <2>3, <3>1, <3>2
    <3>4. CASE ~ full
      <4>1. entries \in Seq(Entry) /\ Len(entries) = 1 /\ entries[1] = x
        BY <1>9, <3>3, <3>4, EntryOfOne
      <4>2. PutsEarly(entries, 1, first)
        BY <3>2, <4>1 DEF PutsEarly
      <4> QED BY <3>4, <4>1, <4>2 DEF FeedPuts
    <3>5. CASE full
      <4>1. /\ entries \in Seq(Entry) /\ Len(entries) = 2
            /\ entries[1] = x /\ entries[2] = buffer
        BY <1>9, <2>0, <3>3, <3>5, EntryOfTwo
      <4>2. PutsEarly(entries, 1, first) /\ PutsFull(entries, 2, buffer)
        BY <3>2, <4>1 DEF PutsEarly, PutsFull
      <4>3. \A m, l \in 1 .. Len(entries) : (m = 1 \/ m = 2) /\ (m < l => m = 1 /\ l = 2)
        BY <4>1
      <4>4. 1 \in 1 .. Len(entries) /\ 2 \in 1 .. Len(entries)
        BY <4>1
      <4> QED BY <3>5, <4>1, <4>2, <4>3, <4>4 DEF FeedPuts
    <3> QED BY <3>4, <3>5
  <2> QED BY <2>1, <2>2, <2>3
<1>18. Takes(k, line, first, base, buffer, full, entries)
  BY <1>3, <1>10, <1>11, <1>12, <1>13, <1>15, <1>16, <1>17 DEF Takes
<1> QED BY <1>2, <1>18

\* The line is last in its buffer, behind all that was fed before it; a buffer
\* that a feed flushes comes before the one it fills.
LEMMA FeedConserves ==
  ASSUME IInv, RInv, LinesConserved,
         NEW k, NEW line, NEW first, NEW base, NEW buffer, NEW full, NEW entries,
         Takes(k, line, first, base, buffer, full, entries)
  PROVE  LinesConserved'
<1>1. /\ fed' = fed + 1 /\ line \in Line /\ line.id = fed + 1 /\ line.stream = k
      /\ first \subseteq DOMAIN buffers /\ \A i, j \in first : i = j
      /\ base = (IF k \in DOMAIN buffers \ first THEN buffers[k] ELSE <<>>)
      /\ Longer(buffer, base, line)
      /\ entries \in Seq(Entry) /\ Put(entries) /\ FeedPuts(entries, first, full, buffer)
  BY DEF Takes
<1>2. /\ DOMAIN buffers' = IF full THEN DOMAIN buffers \ (first \cup {k})
                           ELSE (DOMAIN buffers \ first) \cup {k}
      /\ \A j \in DOMAIN buffers' : buffers'[j] = IF j = k THEN buffer ELSE buffers[j]
  BY DEF Takes
<1>3. /\ fed \in Nat /\ line.id \in Nat
      /\ \A j \in DOMAIN buffers :
           /\ \A n \in Numbers(buffers[j]) : n \in Nat /\ n < line.id
           /\ \A x \in DOMAIN buffers[j] : /\ buffers[j][x].stream = j
                                           /\ buffers[j][x].id \in Nat /\ buffers[j][x].id < line.id
      /\ \A i \in DOMAIN emitted : \A n \in Numbers(emitted[i].lines) : n \in Nat /\ n < line.id
  <2>1. fed \in Nat /\ line.id = fed + 1
    BY <1>1, BufferLines
  <2>2. \A n \in 1 .. fed : n \in Nat /\ n < line.id
    BY <2>1
  <2> QED BY <2>1, <2>2, BufferLines
<1>4. /\ \A i \in DOMAIN emitted : \A j \in DOMAIN buffers : Precedes(emitted[i].lines, buffers[j])
      /\ \A j \in DOMAIN buffers : Ascending(buffers[j])
      /\ \A i, j \in DOMAIN buffers : i # j => Precedes(buffers[i], buffers[j])
      /\ Flushed \cup Waiting = 1 .. fed
  BY DEF LinesConserved, InArrivalOrder
<1>5. DOMAIN <<>> = {}
  OBVIOUS
\* The buffer with the line.
<1>6. Ascending(buffer)
  <2>1. Ascending(base) /\ \A n \in Numbers(base) : n < line.id
    BY <1>1, <1>3, <1>4, <1>5 DEF Ascending, Numbers
  <2> QED BY <1>1, <1>3, <2>1, LongerAscends
<1>7. \A i \in DOMAIN emitted : Precedes(emitted[i].lines, buffer)
  <2> TAKE i \in DOMAIN emitted
  <2>1. Precedes(emitted[i].lines, base)
    BY <1>1, <1>4, <1>5 DEF Precedes
  <2> QED BY <1>1, <1>3, <2>1, LongerAfter
<1>8. \A j \in DOMAIN buffers : j \in first \/ j # k => Precedes(buffers[j], buffer)
  <2> SUFFICES ASSUME NEW j \in DOMAIN buffers, j \in first \/ j # k
               PROVE  Precedes(buffers[j], buffer)
    OBVIOUS
  <2>1. Precedes(buffers[j], base)
    BY <1>1, <1>4, <1>5 DEF Precedes
  <2> QED BY <1>1, <1>3, <2>1, LongerAfter
<1>9. \A j \in DOMAIN buffers : j # k => Precedes(buffer, buffers[j])
  <2> SUFFICES ASSUME NEW j \in DOMAIN buffers, j # k PROVE Precedes(buffer, buffers[j])
    OBVIOUS
  <2>1. Precedes(base, buffers[j])
    BY <1>1, <1>4, <1>5 DEF Precedes
  <2>2. \A x \in DOMAIN buffers[j] : /\ buffers[j][x].id \in Nat /\ buffers[j][x].id < line.id
                                     /\ buffers[j][x].stream # line.stream
    BY <1>1, <1>3
  <2> QED BY <1>1, <1>3, <2>1, <2>2, LongerBefore
<1>10. Numbers(buffer) = Numbers(base) \cup {fed + 1}
  BY <1>1, LongerLines
\* The buffers that stay, and the entries.
<1>11. \A j \in DOMAIN buffers' :
         \/ j = k /\ ~ full /\ buffers'[j] = buffer
         \/ j # k /\ j \in DOMAIN buffers \ first /\ buffers'[j] = buffers[j]
  BY <1>2
<1>12. Stay
  <2> SUFFICES ASSUME NEW j \in DOMAIN buffers'
               PROVE  /\ Ascending(buffers'[j])
                      /\ \A l \in DOMAIN buffers' \ {j} : Precedes(buffers'[j], buffers'[l])
                      /\ \A i \in DOMAIN emitted : Precedes(emitted[i].lines, buffers'[j])
    BY DEF Stay
  <2>1. CASE j = k /\ ~ full /\ buffers'[j] = buffer
    BY <1>6, <1>7, <1>9, <1>11, <2>1
  <2>2. CASE j # k /\ j \in DOMAIN buffers \ first /\ buffers'[j] = buffers[j]
    BY <1>4, <1>8, <1>11, <2>2
  <2> QED BY <1>11, <2>1, <2>2
<1>13. ASSUME NEW m \in 1 .. Len(entries), PutsEarly(entries, m, first)
       PROVE  \E e \in first : entries[m] = buffers[e] /\ e \in DOMAIN buffers
  BY <1>1, <1>13 DEF PutsEarly
<1>14. InOrder(entries)
  <2>1. ASSUME NEW m \in 1 .. Len(entries), PutsEarly(entries, m, first)
        PROVE  /\ Ascending(entries[m])
               /\ \A i \in DOMAIN emitted : Precedes(emitted[i].lines, entries[m])
               /\ \A j \in DOMAIN buffers' : Precedes(entries[m], buffers'[j])
               /\ Precedes(entries[m], buffer)
    <3>1. PICK e \in first : entries[m] = buffers[e] /\ e \in DOMAIN buffers
      BY <1>13, <2>1
    <3>2. Precedes(buffers[e], buffer)
      BY <1>8, <3>1
    <3>3. \A j \in DOMAIN buffers' : Precedes(buffers[e], buffers'[j])
      BY <1>4, <1>11, <3>1, <3>2
    <3> QED BY <1>4, <3>1, <3>2, <3>3
  <2>2. ASSUME NEW m \in 1 .. Len(entries), full, PutsFull(entries, m, buffer)
        PROVE  /\ Ascending(entries[m])
               /\ \A i \in DOMAIN emitted : Precedes(emitted[i].lines, entries[m])
               /\ \A j \in DOMAIN buffers' : Precedes(entries[m], buffers'[j])
    <3>1. entries[m] = buffer
      BY <2>2 DEF PutsFull
    <3>2. \A j \in DOMAIN buffers' : Precedes(buffer, buffers'[j])
      BY <1>9, <1>11, <2>2
    <3> QED BY <1>6, <1>7, <3>1, <3>2
  <2>3. \A m, l \in 1 .. Len(entries) : m < l => Precedes(entries[m], entries[l])
    BY <1>1, <2>1 DEF FeedPuts, PutsFull
  <2>4. \A m \in 1 .. Len(entries) :
          PutsEarly(entries, m, first) \/ (full /\ PutsFull(entries, m, buffer))
    BY <1>1 DEF FeedPuts
  <2> QED BY <2>1, <2>2, <2>3, <2>4 DEF InOrder
<1>15. Flushed \cup OfEntries(entries) \cup Waiting' = 1 .. fed'
  <2>1. Numbers(buffer) \subseteq OfEntries(entries) \cup Waiting'
    <3>1. CASE full
      <4>1. PICK m \in 1 .. Len(entries) : entries[m] = buffer
        BY <1>1, <3>1 DEF FeedPuts, PutsFull
      <4> QED BY <4>1 DEF OfEntries
    <3>2. CASE ~ full
      <4>1. k \in DOMAIN buffers' /\ buffers'[k] = buffer
        BY <1>2, <3>2
      <4> QED BY <4>1 DEF Waiting, Numbers
    <3> QED BY <3>1, <3>2
  <2>2. ASSUME NEW j \in DOMAIN buffers
        PROVE  Numbers(buffers[j]) \subseteq OfEntries(entries) \cup Waiting'
    <3>1. CASE j \in first
      <4>1. PICK m \in 1 .. Len(entries) : PutsEarly(entries, m, first)
        BY <1>1, <3>1 DEF FeedPuts
      <4>2. entries[m] = buffers[j]
        BY <1>1, <3>1, <4>1 DEF PutsEarly
      <4> QED BY <4>2 DEF OfEntries
    <3>2. CASE j \notin first /\ j = k
      <4>1. base = buffers[j]
        BY <1>1, <3>2
      <4> QED BY <1>10, <2>1, <4>1
    <3>3. CASE j \notin first /\ j # k
      <4>1. j \in DOMAIN buffers' /\ buffers'[j] = buffers[j]
        BY <1>2, <3>3
      <4> QED BY <4>1 DEF Waiting, Numbers
    <3> QED BY <3>1, <3>2, <3>3
  <2>3. Waiting \subseteq OfEntries(entries) \cup Waiting'
    BY <2>2 DEF Waiting
  <2>4. Numbers(buffer) \subseteq Waiting \cup {fed + 1} /\ fed + 1 \in Numbers(buffer)
    <3>1. Numbers(base) \subseteq Waiting
      BY <1>1, <1>5 DEF Waiting, Numbers
    <3> QED BY <1>10, <3>1
  <2>5. OfEntries(entries) \subseteq Waiting \cup {fed + 1}
    <3>1. ASSUME NEW m \in 1 .. Len(entries)
          PROVE  Numbers(entries[m]) \subseteq Waiting \cup {fed + 1}
      <4>1. CASE PutsEarly(entries, m, first)
        BY <1>13, <4>1 DEF Waiting
      <4>2. CASE PutsFull(entries, m, buffer)
        BY <2>4, <4>2 DEF PutsFull
      <4> QED BY <1>1, <4>1, <4>2 DEF FeedPuts
    <3> QED BY <3>1 DEF OfEntries
  <2>6. Waiting' \subseteq Waiting \cup {fed + 1}
    <3>1. ASSUME NEW j \in DOMAIN buffers'
          PROVE  Numbers(buffers'[j]) \subseteq Waiting \cup {fed + 1}
      BY <1>11, <2>4 DEF Waiting
    <3>2. Waiting' = UNION {Numbers(buffers'[j]) : j \in DOMAIN buffers'}
      BY DEF Waiting, Numbers
    <3> QED BY <3>1, <3>2
  <2>7. Flushed \cup OfEntries(entries) \cup Waiting' = Flushed \cup Waiting \cup {fed + 1}
    BY <2>1, <2>3, <2>4, <2>5, <2>6
  <2>8. 1 .. fed' = (1 .. fed) \cup {fed + 1}
    BY <1>1, <1>3
  <2> QED BY <1>4, <2>7, <2>8
<1> QED BY <1>1, <1>12, <1>14, <1>15, PutConserves

-----------------------------------------------------------------------------

LEMMA LinesInit == Init => LinesConserved
<1> SUFFICES ASSUME Init PROVE LinesConserved
  OBVIOUS
<1>1. /\ DOMAIN emitted = {} /\ Len(emitted) = 0 /\ Len(queue) = 0 /\ DOMAIN buffers = {}
      /\ dropped = 0 /\ fed = 0
  BY DEF Init, NoStreams
<1>2. DropsCounted
  <2>1. AcceptedAfter(0) = {} /\ Refused = {}
    BY <1>1 DEF AcceptedAfter, Refused
  <2>2. Cardinality({}) = 0
    BY FS_EmptySet
  <2>3. Len(queue) <= QueueMaxSize /\ Len(queue) <= Cardinality(AcceptedAfter(0))
    <3>1. Cardinality(AcceptedAfter(0)) = 0
      BY <2>1, <2>2
    <3>2. Len(queue) <= 0 /\ 0 <= QueueMaxSize
      BY <1>1, LimitsAssumption
    <3> QED BY <1>1, <3>1, <3>2
  <2>4. dropped = Cardinality(Refused)
    BY <1>1, <2>1, <2>2
  <2> QED BY <1>1, <2>3, <2>4 DEF DropsCounted, Refused
<1>3. InArrivalOrder
  BY <1>1 DEF InArrivalOrder
<1>4. Flushed \cup Waiting = 1 .. fed
  BY <1>1 DEF Flushed, Waiting
<1> QED BY <1>2, <1>3, <1>4 DEF LinesConserved

LEMMA LinesStep == IInv /\ RInv /\ LinesConserved /\ [Next]_vars => LinesConserved'
<1> SUFFICES ASSUME IInv, RInv, LinesConserved, [Next]_vars PROVE LinesConserved'
  OBVIOUS
<1>1. ASSUME NEW k \in Streams, NEW kind \in Kinds, NEW size \in Sizes, Feed(k, kind, size)
      PROVE  LinesConserved'
  BY <1>1, FeedTakes, FeedConserves
<1>2. ASSUME NEW k \in Streams, TimerFires(k) PROVE LinesConserved'
  BY <1>2, TimerConserves
<1>3. CASE FlushAll
  BY <1>3, FlushAllConserves
<1>4. ASSUME UNCHANGED <<buffers, emitted, fed>>, DropsCounted' PROVE LinesConserved'
  <2>1. Flushed' = Flushed /\ Waiting' = Waiting
    BY <1>4 DEF Flushed, Waiting
  <2>2. InArrivalOrder'
    BY <1>4 DEF LinesConserved, InArrivalOrder
  <2> QED BY <1>4, <2>1, <2>2 DEF LinesConserved
<1>5. CASE Take
  <2>1. DropsCounted'
    BY <1>5, TakeCounts DEF IInv, LinesConserved
  <2> QED BY <1>4, <1>5, <2>1 DEF Take, assembler
<1>6. CASE Tick \/ UNCHANGED vars
  <2>1. UNCHANGED <<buffers, emitted, fed, queue, dropped>>
    BY <1>6 DEF Tick, vars, assembler
  <2>2. DropsCounted'
    BY <2>1 DEF LinesConserved, DropsCounted, AcceptedAfter
  <2> QED BY <1>4, <2>1, <2>2
<1> QED BY <1>1, <1>2, <1>3, <1>5, <1>6 DEF Next

\* Whatever streams interleave and whichever flush ends an entry: every line
\* fed is in exactly one entry or buffer, the lines of a stream stay in the
\* order they arrived in, and an entry is taken by the queue, in the order of
\* the flushes, or counted as dropped.
THEOREM AssemblerConservesLines == Spec => []LinesConserved
<1>1. Init => RInv
  BY DEF Init, NoStreams, RInv
<1> QED BY <1>1, LinesInit, LinesStep, AssemblerInvariant, AssemblerRecords, PTL DEF Spec

-----------------------------------------------------------------------------
\* Evictions

\* The line just fed is in its stream's buffer, or in the last entry.
LEMMA FedIsLast ==
  ASSUME IInv, RInv, LinesConserved,
         NEW k, NEW line, NEW first, NEW base, NEW buffer, NEW full, NEW entries,
         Takes(k, line, first, base, buffer, full, entries)
  PROVE  FedLast(k)'
<1>1. /\ fed' = fed + 1 /\ line.id = fed + 1 /\ line.stream = k
      /\ base = (IF k \in DOMAIN buffers \ first THEN buffers[k] ELSE <<>>)
      /\ Longer(buffer, base, line)
      /\ entries \in Seq(Entry) /\ Put(entries) /\ FeedPuts(entries, first, full, buffer)
  BY DEF Takes
<1>2. fed' \in Numbers(buffer)
  BY <1>1, LongerLines
<1>3. CASE ~ full
  <2>1. k \in DOMAIN buffers' /\ buffers'[k] = buffer
    BY <1>3 DEF Takes
  <2> QED BY <1>2, <2>1 DEF FedLast, Numbers
<1>4. CASE full
  <2>1. PICK m \in 1 .. Len(entries) : entries[m] = buffer
    BY <1>1, <1>4 DEF FeedPuts, PutsFull
  <2>2. PICK fits \in Nat : Puts(entries, fits)
    BY <1>1, PutAppends DEF IInv
  <2>3. /\ Len(emitted) + m \in DOMAIN emitted'
        /\ emitted'[Len(emitted) + m].lines = buffer
    <3>1. DOMAIN emitted' = 1 .. Len(emitted) + Len(entries)
      BY <2>2, LenProperties DEF Puts
    <3>2. Len(emitted) \in Nat /\ Len(entries) \in Nat
      BY <1>1, Lengths, LenProperties DEF IInv
    <3> QED BY <2>1, <2>2, <3>1, <3>2 DEF Puts
  <2>4. buffer[1].stream = k
    <3>1. Len(base) \in Nat /\ DOMAIN base = 1 .. Len(base)
      BY <1>1, LongerLines
    <3>2. CASE Len(base) = 0
      BY <1>1, <3>2 DEF Longer
    <3>3. CASE Len(base) # 0
      <4>1. 1 \in DOMAIN base /\ buffer[1] = base[1]
        BY <1>1, <3>1, <3>3 DEF Longer
      <4>2. base = buffers[k] /\ k \in DOMAIN buffers
        BY <1>1, <4>1
      <4> QED BY <4>1, <4>2, BufferLines
    <3> QED BY <3>2, <3>3
  <2> QED BY <1>2, <2>3, <2>4 DEF FedLast, Numbers
<1> QED BY <1>3, <1>4

\* A feed evicts the oldest stream, and none unless every slot is taken.
THEOREM AssemblerEvictsOldest == Spec => EvictsOldest
<1> DEFINE Evicts ==
             \A k \in DOMAIN buffers \ DOMAIN buffers' :
               fed' # fed /\ ~ FedLast(k)'
                 => /\ Cardinality(DOMAIN buffers) = MaxTotalStreams
                    /\ \A j \in DOMAIN buffers : starts[k] <= starts[j]
<1>1. IInv /\ RInv /\ LinesConserved /\ [Next]_vars => [Evicts]_vars
  <2> SUFFICES ASSUME IInv, RInv, LinesConserved, [Next]_vars,
                      NEW k \in DOMAIN buffers \ DOMAIN buffers', fed' # fed, ~ FedLast(k)'
               PROVE  /\ Cardinality(DOMAIN buffers) = MaxTotalStreams
                      /\ \A j \in DOMAIN buffers : starts[k] <= starts[j]
    OBVIOUS
  <2>1. PICK s \in Streams, kind \in Kinds, size \in Sizes : Feed(s, kind, size)
    BY DEF Next, TimerFires, FlushAll, Take, Tick, vars
  <2>2. PICK line, base, buffer, full, entries :
          Takes(s, line, FlushedFirst(s, kind), base, buffer, full, entries)
    BY <2>1, FeedTakes
  <2>3. k # s
    BY <2>2, FedIsLast
  <2>4. k \in FlushedFirst(s, kind)
    BY <2>2, <2>3 DEF Takes
  <2>5. /\ s \notin DOMAIN buffers /\ k = Oldest
        /\ Cardinality(DOMAIN buffers) >= MaxTotalStreams
    BY <2>3, <2>4 DEF FlushedFirst
  <2>6. Cardinality(DOMAIN buffers) \in Nat /\ Cardinality(DOMAIN buffers) <= MaxTotalStreams
    BY FS_CardinalityType DEF IInv, StreamsFinite, CapacityBound
  <2>7. Cardinality(DOMAIN buffers) = MaxTotalStreams
    BY <2>5, <2>6, LimitsAssumption
  <2>8. \A j \in DOMAIN buffers : starts[Oldest] <= starts[j]
    BY OldestIsActive
  <2> QED BY <2>5, <2>7, <2>8
<1>2. Spec => [](IInv /\ RInv /\ LinesConserved)
  BY AssemblerInvariant, AssemblerRecords, AssemblerConservesLines, PTL
<1>3. [][Evicts]_vars => EvictsOldest
  BY DEF EvictsOldest
<1> HIDE DEF Evicts
<1> QED BY <1>1, <1>2, <1>3, PTL DEF Spec

=============================================================================
