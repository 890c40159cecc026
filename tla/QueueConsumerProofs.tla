-------------------------- MODULE QueueConsumerProofs --------------------------
(***************************************************************************)
(* Proofs about QueueConsumer, for every value of its constants: its       *)
(* types, that a cancellation loses nothing while the database works,      *)
(* and, as long as the task of run() is not cancelled, that one insert     *)
(* runs at a time, rows are committed before they are published, entries   *)
(* are lost only to a database that fails for good, stop() leaves nothing  *)
(* behind, and the consumer implements LogDelivery.                        *)
(***************************************************************************)
EXTENDS QueueConsumer, SequenceTheorems, FiniteSetTheorems,
        WellFoundedInduction, TLAPS

\* Induction over the naturals, for a set.
LEMMA NatSetInduction ==
  ASSUME NEW S, 0 \in S, \A n \in Nat : n \in S => n + 1 \in S
  PROVE  Nat \subseteq S
<1>1. SUFFICES ASSUME Nat \ S # {} PROVE FALSE
  OBVIOUS
<1>2. PICK m \in Nat \ S : \A n \in Nat \ S : <<n, m>> \notin OpToRel(<, Nat)
  BY <1>1, NatLessThanWellFounded, WFMin
<1>3. \A n \in Nat \ S : ~ (n < m)
  BY <1>2 DEF OpToRel
<1>4. m - 1 \in Nat /\ m - 1 < m /\ (m - 1) + 1 = m
  OBVIOUS
<1>5. m - 1 \in S
  BY <1>3, <1>4
<1> QED BY <1>4, <1>5

-----------------------------------------------------------------------------
\* The entries of a queue.

\* The recursion of EntriesAmong has a solution.
LEMMA EntriesUnfold ==
  ASSUME NEW S, NEW s \in Seq(S)
  PROVE  \A n \in 0 .. Len(s) :
           EntriesAmong(s)[n] =
             IF n = 0 THEN <<>>
             ELSE IF IsEntry(s[n]) THEN Append(EntriesAmong(s)[n - 1], s[n])
                                   ELSE EntriesAmong(s)[n - 1]
<1> DEFINE Turn(f, n) == IF IsEntry(s[n]) THEN Append(f[n - 1], s[n]) ELSE f[n - 1]
           Solves(f, m) == f = [n \in 0 .. m |-> IF n = 0 THEN <<>> ELSE Turn(f, n)]
           Solved == {m \in Nat : \E f : Solves(f, m)}
<1>1. 0 \in Solved
  <2>1. Solves([n \in 0 .. 0 |-> <<>>], 0)
    OBVIOUS
  <2> QED BY <2>1
<1>2. ASSUME NEW m \in Nat, m \in Solved
      PROVE  m + 1 \in Solved
  <2>1. PICK g : Solves(g, m)
    BY <1>2
  <2> DEFINE h == [n \in 0 .. m + 1 |-> IF n = m + 1 THEN Turn(g, m + 1) ELSE g[n]]
  <2>2. \A n \in 0 .. m : g[n] = IF n = 0 THEN <<>> ELSE Turn(g, n)
    BY <2>1
  <2>3. \A n \in 0 .. m + 1 : h[n] = IF n = 0 THEN <<>> ELSE Turn(h, n)
    <3> TAKE n \in 0 .. m + 1
    <3>1. CASE n = m + 1
      BY <3>1
    <3>2. CASE n # m + 1
      <4>1. n \in 0 .. m /\ (n # 0 => n - 1 \in 0 .. m)
        BY <3>2
      <4> QED BY <2>2, <4>1
    <3> QED BY <3>1, <3>2
  <2>4. Solves(h, m + 1)
    BY <2>3
  <2> HIDE DEF h
  <2> QED BY <2>4
<1>3. Len(s) \in Solved
  BY <1>1, <1>2, NatSetInduction, LenProperties
<1>4. PICK f : Solves(f, Len(s))
  BY <1>3
<1>5. Solves(EntriesAmong(s), Len(s))
  BY <1>4 DEF EntriesAmong
<1> QED BY <1>5

\* They are the items of the queue but the sentinels, no more of them than items.
LEMMA EntriesAmongTypes ==
  ASSUME NEW S, NEW s \in Seq(S)
  PROVE  \A n \in 0 .. Len(s) :
           /\ EntriesAmong(s)[n] \in Seq(S \ {Sentinel})
           /\ ToSet(EntriesAmong(s)[n]) = {s[i] : i \in 1 .. n} \ {Sentinel}
           /\ Len(EntriesAmong(s)[n]) <= n
<1> DEFINE Right(n) ==
             /\ EntriesAmong(s)[n] \in Seq(S \ {Sentinel})
             /\ ToSet(EntriesAmong(s)[n]) = {s[i] : i \in 1 .. n} \ {Sentinel}
             /\ Len(EntriesAmong(s)[n]) <= n
           Done == {n \in Nat : n <= Len(s) => Right(n)}
<1>1. 0 \in Done
  <2>1. 0 \in 0 .. Len(s)
    BY LenProperties
  <2>2. EntriesAmong(s)[0] = <<>>
    BY <2>1, EntriesUnfold
  <2>3. ToSet(<<>>) = {} /\ {s[i] : i \in 1 .. 0} = {}
    BY DEF ToSet
  <2>4. <<>> \in Seq(S \ {Sentinel}) /\ Len(<<>>) <= 0
    OBVIOUS
  <2>5. Right(0)
    BY <2>2, <2>3, <2>4
  <2> QED BY <2>5
<1>2. ASSUME NEW n \in Nat, n \in Done
      PROVE  n + 1 \in Done
  <2>1. SUFFICES ASSUME n + 1 <= Len(s) PROVE Right(n + 1)
    OBVIOUS
  <2>2. n + 1 \in 0 .. Len(s) /\ n + 1 \in 1 .. Len(s) /\ n + 1 # 0
    BY <2>1, LenProperties
  <2>3. PICK e : e = EntriesAmong(s)[n]
    OBVIOUS
  <2>4. /\ e \in Seq(S \ {Sentinel})
        /\ ToSet(e) = {s[i] : i \in 1 .. n} \ {Sentinel}
        /\ Len(e) <= n
    BY <1>2, <2>1, <2>3, LenProperties
  <2>5. EntriesAmong(s)[n + 1] = IF IsEntry(s[n + 1]) THEN Append(e, s[n + 1]) ELSE e
    BY <2>2, <2>3, EntriesUnfold
  <2>6. s[n + 1] \in S
    BY <2>2, ElementOfSeq
  <2>7. {s[i] : i \in 1 .. n + 1} = {s[i] : i \in 1 .. n} \cup {s[n + 1]}
    OBVIOUS
  <2>8. CASE IsEntry(s[n + 1])
    <3>1. ToSet(Append(e, s[n + 1])) = ToSet(e) \cup {s[n + 1]}
      BY <2>4, <2>6, <2>8, AppendProperties DEF ToSet, IsEntry
    <3> QED BY <2>4, <2>5, <2>6, <2>7, <2>8, <3>1, AppendProperties DEF IsEntry
  <2>9. CASE ~ IsEntry(s[n + 1])
    BY <2>4, <2>5, <2>7, <2>9 DEF IsEntry
  <2> QED BY <2>8, <2>9
<1> HIDE DEF Right
<1>3. Nat \subseteq Done
  BY <1>1, <1>2, NatSetInduction
<1>4. \A n \in 0 .. Len(s) : Right(n)
  BY <1>3, LenProperties
<1> QED BY <1>4 DEF Right

LEMMA EntriesAreItems ==
  ASSUME NEW S, NEW s \in Seq(S)
  PROVE  /\ EntriesOf(s) \in Seq(S \ {Sentinel})
         /\ ToSet(EntriesOf(s)) = ToSet(s) \ {Sentinel}
         /\ Len(EntriesOf(s)) <= Len(s)
<1>1. ToSet(s) = {s[i] : i \in 1 .. Len(s)}
  BY LenProperties DEF ToSet
<1>2. Len(s) \in 0 .. Len(s)
  BY LenProperties
<1> QED BY <1>1, <1>2, EntriesAmongTypes DEF EntriesOf

\* Entries keep their order when queues are joined.
LEMMA EntriesOfJoin ==
  ASSUME NEW S, NEW s \in Seq(S), NEW t \in Seq(S)
  PROVE  EntriesOf(s \o t) = EntriesOf(s) \o EntriesOf(t)
<1> DEFINE st == s \o t
           Left == {n \in Nat : n <= Len(s) => EntriesAmong(st)[n] = EntriesAmong(s)[n]}
           Right == {n \in Nat : n <= Len(t) =>
                       EntriesAmong(st)[Len(s) + n] = EntriesOf(s) \o EntriesAmong(t)[n]}
<1>1. /\ st \in Seq(S) /\ Len(st) = Len(s) + Len(t)
      /\ Len(s) \in Nat /\ Len(t) \in Nat
      /\ \A i \in 1 .. Len(s) : st[i] = s[i]
      /\ \A i \in 1 .. Len(t) : st[Len(s) + i] = t[i]
  BY ConcatProperties, LenProperties
<1> HIDE DEF st
<1>2. Len(s) \in Left
  <2>1. 0 \in Left
    BY <1>1, EntriesUnfold
  <2>2. ASSUME NEW n \in Nat, n \in Left
        PROVE  n + 1 \in Left
    <3>1. SUFFICES ASSUME n + 1 <= Len(s)
                   PROVE  EntriesAmong(st)[n + 1] = EntriesAmong(s)[n + 1]
      OBVIOUS
    <3>2. /\ n + 1 \in 0 .. Len(s) /\ n + 1 \in 0 .. Len(st)
          /\ n + 1 # 0 /\ (n + 1) - 1 = n /\ st[n + 1] = s[n + 1]
      BY <1>1, <3>1
    <3>3. EntriesAmong(st)[n] = EntriesAmong(s)[n]
      BY <2>2, <3>1, <1>1
    <3>4. EntriesAmong(st)[n + 1] =
            IF IsEntry(s[n + 1]) THEN Append(EntriesAmong(st)[n], s[n + 1])
                                 ELSE EntriesAmong(st)[n]
      BY <1>1, <3>2, EntriesUnfold
    <3>5. EntriesAmong(s)[n + 1] =
            IF IsEntry(s[n + 1]) THEN Append(EntriesAmong(s)[n], s[n + 1])
                                 ELSE EntriesAmong(s)[n]
      BY <3>2, EntriesUnfold
    <3> QED BY <3>3, <3>4, <3>5
  <2> QED BY <1>1, <2>1, <2>2, NatSetInduction
<1>3. EntriesAmong(st)[Len(s)] = EntriesOf(s)
  BY <1>1, <1>2 DEF EntriesOf
<1>4. EntriesOf(s) \in Seq(S \ {Sentinel})
  BY EntriesAreItems
<1>5. Len(t) \in Right
  <2>1. 0 \in Right
    <3>1. EntriesAmong(t)[0] = <<>>
      BY <1>1, EntriesUnfold
    <3> QED BY <1>1, <1>3, <1>4, <3>1, ConcatEmptySeq
  <2>2. ASSUME NEW n \in Nat, n \in Right
        PROVE  n + 1 \in Right
    <3>1. SUFFICES ASSUME n + 1 <= Len(t)
                   PROVE  EntriesAmong(st)[Len(s) + (n + 1)] =
                            EntriesOf(s) \o EntriesAmong(t)[n + 1]
      OBVIOUS
    <3>2. /\ n + 1 \in 0 .. Len(t) /\ n \in 0 .. Len(t)
          /\ Len(s) + (n + 1) \in 0 .. Len(st)
          /\ n + 1 # 0 /\ (n + 1) - 1 = n
          /\ Len(s) + (n + 1) # 0 /\ (Len(s) + (n + 1)) - 1 = Len(s) + n
          /\ st[Len(s) + (n + 1)] = t[n + 1] /\ t[n + 1] \in S
      BY <1>1, <3>1, ElementOfSeq
    <3>3. PICK e : e = EntriesAmong(t)[n]
      OBVIOUS
    <3>4. EntriesAmong(st)[Len(s) + n] = EntriesOf(s) \o e
      BY <2>2, <3>1, <3>3, <1>1
    <3>5. e \in Seq(S \ {Sentinel})
      BY EntriesAmongTypes, <3>2, <3>3
    <3>6. EntriesAmong(t)[n + 1] = IF IsEntry(t[n + 1]) THEN Append(e, t[n + 1]) ELSE e
      BY <3>2, <3>3, EntriesUnfold
    <3>7. EntriesAmong(st)[Len(s) + (n + 1)] =
            IF IsEntry(t[n + 1]) THEN Append(EntriesOf(s) \o e, t[n + 1])
                                 ELSE EntriesOf(s) \o e
      <4>1. EntriesAmong(st)[Len(s) + (n + 1)] =
              IF IsEntry(t[n + 1])
              THEN Append(EntriesAmong(st)[Len(s) + n], t[n + 1])
              ELSE EntriesAmong(st)[Len(s) + n]
        <5>1. PICK k \in 0 .. Len(st) : k = Len(s) + (n + 1)
          BY <3>2
        <5>2. k # 0 /\ k - 1 = Len(s) + n /\ st[k] = t[n + 1]
          BY <3>2, <5>1
        <5>3. EntriesAmong(st)[k] = IF IsEntry(st[k]) THEN Append(EntriesAmong(st)[k - 1], st[k])
                                                      ELSE EntriesAmong(st)[k - 1]
          BY <1>1, <5>2, EntriesUnfold
        <5> QED BY <5>1, <5>2, <5>3
      <4> QED BY <3>4, <4>1
    <3>8. CASE IsEntry(t[n + 1])
      <4>1. Append(EntriesOf(s) \o e, t[n + 1]) = EntriesOf(s) \o Append(e, t[n + 1])
        <5>1. PICK x \in S \ {Sentinel} : x = t[n + 1]
          BY <3>2, <3>8 DEF IsEntry
        <5>2. PICK u \in Seq(S \ {Sentinel}) : u = EntriesOf(s)
          BY <1>4
        <5>3. PICK v \in Seq(S \ {Sentinel}) : v = <<x>>
          <6>1. <<x>> \in Seq(S \ {Sentinel})
            OBVIOUS
          <6> QED BY <6>1
        <5>4. Append(e, x) = e \o v /\ Append(u \o e, x) = (u \o e) \o v
          BY <3>5, <5>3, AppendIsConcat, ConcatProperties
        <5>5. e \in Seq(S \ {Sentinel})
          BY <3>5
        <5>6. (u \o e) \o v = u \o (e \o v)
          BY ONLY <5>2, <5>3, <5>5, ConcatAssociative
        <5> QED BY <5>1, <5>2, <5>4, <5>6
      <4> QED BY <3>6, <3>7, <3>8, <4>1
    <3>9. CASE ~ IsEntry(t[n + 1])
      BY <3>6, <3>7, <3>9
    <3> QED BY <3>8, <3>9
  <2> QED BY <1>1, <2>1, <2>2, NatSetInduction
<1>6. EntriesAmong(st)[Len(st)] = EntriesOf(s) \o EntriesAmong(t)[Len(t)]
  BY <1>1, <1>5
<1> QED BY <1>6 DEF EntriesOf, st

LEMMA JoinHas ==
  ASSUME NEW S, NEW s \in Seq(S), NEW t \in Seq(S)
  PROVE  ToSet(s \o t) = ToSet(s) \cup ToSet(t)
<1>1. /\ s \o t \in Seq(S) /\ Len(s \o t) = Len(s) + Len(t)
      /\ Len(s) \in Nat /\ Len(t) \in Nat
      /\ DOMAIN s = 1 .. Len(s) /\ DOMAIN t = 1 .. Len(t)
      /\ DOMAIN (s \o t) = 1 .. Len(s) + Len(t)
  BY ConcatProperties, LenProperties
<1>2. \A i \in 1 .. Len(s) : (s \o t)[i] = s[i]
  BY <1>1, ConcatProperties
<1>3. \A i \in 1 .. Len(t) : (s \o t)[Len(s) + i] = t[i]
  BY <1>1, ConcatProperties
<1>4. ASSUME NEW i \in 1 .. Len(s) + Len(t)
      PROVE  (s \o t)[i] \in ToSet(s) \cup ToSet(t)
  <2>1. CASE i <= Len(s)
    BY <1>1, <1>2, <2>1 DEF ToSet
  <2>2. CASE i > Len(s)
    <3>1. i - Len(s) \in 1 .. Len(t) /\ Len(s) + (i - Len(s)) = i
      BY <1>1, <2>2
    <3> QED BY <1>1, <1>3, <3>1 DEF ToSet
  <2> QED BY <1>1, <2>1, <2>2
<1>5. \A i \in 1 .. Len(s) : s[i] \in ToSet(s \o t)
  <2>1. \A i \in 1 .. Len(s) : i \in 1 .. Len(s) + Len(t)
    BY <1>1
  <2> QED BY <1>1, <1>2, <2>1 DEF ToSet
<1>6. \A i \in 1 .. Len(t) : t[i] \in ToSet(s \o t)
  <2>1. \A i \in 1 .. Len(t) : Len(s) + i \in 1 .. Len(s) + Len(t)
    BY <1>1
  <2> QED BY <1>1, <1>3, <2>1 DEF ToSet
<1>7. ToSet(s \o t) \subseteq ToSet(s) \cup ToSet(t)
  BY <1>1, <1>4 DEF ToSet
<1>8. ToSet(s) \subseteq ToSet(s \o t) /\ ToSet(t) \subseteq ToSet(s \o t)
  BY <1>1, <1>5, <1>6 DEF ToSet
<1> QED BY <1>7, <1>8

\* A queue of one item.
LEMMA OneItem ==
  ASSUME NEW S, NEW x \in S
  PROVE  /\ <<x>> \in Seq(S) /\ Len(<<x>>) = 1 /\ ToSet(<<x>>) = {x}
         /\ EntriesOf(<<x>>) = IF IsEntry(x) THEN <<x>> ELSE <<>>
<1>1. PICK s \in Seq(S) : s = <<x>> /\ Len(s) = 1 /\ s[1] = x /\ DOMAIN s = {1}
  <2>1. <<x>> \in Seq(S) /\ Len(<<x>>) = 1 /\ <<x>>[1] = x
    OBVIOUS
  <2>2. DOMAIN <<x>> = 1 .. 1 /\ 1 .. 1 = {1}
    OBVIOUS
  <2> QED BY <2>1, <2>2
<1>2. EntriesAmong(s)[0] = <<>>
  <2>1. 0 \in 0 .. Len(s)
    BY <1>1
  <2> QED BY <2>1, EntriesUnfold
<1>3. EntriesAmong(s)[1] = IF IsEntry(s[1]) THEN Append(EntriesAmong(s)[1 - 1], s[1])
                                            ELSE EntriesAmong(s)[1 - 1]
  <2>1. 1 \in 0 .. Len(s) /\ 1 # 0
    BY <1>1
  <2> QED BY <2>1, EntriesUnfold
<1>4. EntriesOf(s) = IF IsEntry(x) THEN <<x>> ELSE <<>>
  <2>1. Append(<<>>, x) = <<x>> /\ 1 - 1 = 0
    OBVIOUS
  <2> QED BY <1>1, <1>2, <1>3, <2>1 DEF EntriesOf
<1>5. ToSet(s) = {x}
  BY <1>1 DEF ToSet
<1> QED BY <1>1, <1>4, <1>5

\* An item goes to the end of a queue.
LEMMA QueueAppend ==
  ASSUME NEW S, NEW q \in Seq(S), NEW x \in S
  PROVE  /\ Append(q, x) \in Seq(S) /\ Len(Append(q, x)) = Len(q) + 1
         /\ ToSet(Append(q, x)) = ToSet(q) \cup {x}
         /\ EntriesOf(Append(q, x)) =
              IF IsEntry(x) THEN Append(EntriesOf(q), x) ELSE EntriesOf(q)
<1>1. Append(q, x) = q \o <<x>> /\ Append(q, x) \in Seq(S) /\ Len(Append(q, x)) = Len(q) + 1
  BY AppendIsConcat, AppendProperties
<1>2. /\ <<x>> \in Seq(S) /\ ToSet(<<x>>) = {x}
      /\ EntriesOf(<<x>>) = IF IsEntry(x) THEN <<x>> ELSE <<>>
  BY OneItem
<1>3. ToSet(q \o <<x>>) = ToSet(q) \cup {x}
  <2>1. PICK u \in Seq(S) : u = <<x>>
    BY <1>2
  <2>2. q \in Seq(S) /\ u \in Seq(S)
    OBVIOUS
  <2>3. ToSet(q \o u) = ToSet(q) \cup ToSet(u)
    BY ONLY <2>2, JoinHas
  <2> QED BY <1>2, <2>1, <2>3
<1>4. EntriesOf(q \o <<x>>) = EntriesOf(q) \o EntriesOf(<<x>>)
  BY <1>2, EntriesOfJoin
<1>5. EntriesOf(q) \in Seq(S \ {Sentinel})
  BY EntriesAreItems
<1>6. CASE IsEntry(x)
  <2>1. x \in S \ {Sentinel}
    BY <1>6 DEF IsEntry
  <2>2. EntriesOf(q) \o <<x>> = Append(EntriesOf(q), x)
    BY <1>5, <2>1, AppendIsConcat
  <2> QED BY <1>1, <1>2, <1>3, <1>4, <1>6, <2>2
<1>7. CASE ~ IsEntry(x)
  <2>1. EntriesOf(q) \o <<>> = EntriesOf(q)
    BY <1>5, ConcatEmptySeq
  <2> QED BY <1>1, <1>2, <1>3, <1>4, <1>7, <2>1
<1> QED BY <1>6, <1>7

CutInto(q, n, front, rest) ==
  /\ front = SubSeq(q, 1, n) /\ rest = SubSeq(q, n + 1, Len(q))
  /\ Len(rest) <= Len(q)
  /\ ToSet(q) = ToSet(front) \cup ToSet(rest)
  /\ EntriesOf(q) = EntriesOf(front) \o EntriesOf(rest)

\* A queue is cut after its first n items.
LEMMA QueueCut ==
  ASSUME NEW S, NEW q \in Seq(S), NEW n \in 1 .. Len(q)
  PROVE  \E front, rest \in Seq(S) : CutInto(q, n, front, rest)
<1>0. PICK front, rest : front = SubSeq(q, 1, n) /\ rest = SubSeq(q, n + 1, Len(q))
  OBVIOUS
<1>1. n \in 1 .. Len(q) /\ Len(q) \in Nat
  BY LenProperties
<1>2. front \in Seq(S) /\ rest \in Seq(S) /\ Len(rest) <= Len(q)
  BY <1>0, <1>1, SubSeqProperties, ElementOfSeq
<1>3. q = front \o rest
  <2>1. 1 \in 1 .. Len(q) + 1 /\ n \in 0 .. Len(q) /\ Len(q) \in n .. Len(q) /\ 1 - 1 = 0
    BY <1>1
  <2>2. front \o rest = SubSeq(q, 1, Len(q))
    BY <1>0, <2>1, ConcatAdjacentSubSeq
  <2> QED BY <2>2, SubSeqFull
<1>4. ToSet(front \o rest) = ToSet(front) \cup ToSet(rest)
  BY ONLY <1>2, JoinHas
<1>5. EntriesOf(front \o rest) = EntriesOf(front) \o EntriesOf(rest)
  BY ONLY <1>2, EntriesOfJoin
<1>6. CutInto(q, n, front, rest)
  BY <1>0, <1>2, <1>3, <1>4, <1>5 DEF CutInto
<1> QED BY <1>2, <1>6

\* The first item leaves a queue.
LEMMA QueueTail ==
  ASSUME NEW S, NEW q \in Seq(S), q # <<>>
  PROVE  /\ Head(q) \in S /\ Tail(q) \in Seq(S) /\ Len(Tail(q)) <= Len(q)
         /\ ToSet(q) = {Head(q)} \cup ToSet(Tail(q))
         /\ EntriesOf(q) =
              IF IsEntry(Head(q)) THEN <<Head(q)>> \o EntriesOf(Tail(q)) ELSE EntriesOf(Tail(q))
<1>1. PICK h \in S : h = Head(q)
  BY HeadTailProperties
<1>2. PICK rest \in Seq(S) : rest = Tail(q) /\ Len(rest) <= Len(q)
  <2>1. Len(q) - 1 <= Len(q)
    BY LenProperties
  <2> QED BY <2>1, HeadTailProperties
<1>3. q = <<h>> \o rest
  BY <1>1, <1>2
<1>4. /\ <<h>> \in Seq(S) /\ ToSet(<<h>>) = {h}
      /\ EntriesOf(<<h>>) = IF IsEntry(h) THEN <<h>> ELSE <<>>
  BY OneItem
<1>5. EntriesOf(q) = EntriesOf(<<h>>) \o EntriesOf(rest) /\ ToSet(q) = {h} \cup ToSet(rest)
  <2>1. PICK u \in Seq(S) : u = <<h>>
    BY <1>4
  <2>2. u \in Seq(S) /\ rest \in Seq(S)
    OBVIOUS
  <2>3. EntriesOf(u \o rest) = EntriesOf(u) \o EntriesOf(rest)
    BY ONLY <2>2, EntriesOfJoin
  <2>4. ToSet(u \o rest) = ToSet(u) \cup ToSet(rest)
    BY ONLY <2>2, JoinHas
  <2> QED BY <1>3, <1>4, <2>1, <2>3, <2>4
<1>6. <<>> \o EntriesOf(rest) = EntriesOf(rest)
  BY EntriesAreItems, ConcatEmptySeq
<1> QED BY <1>1, <1>2, <1>4, <1>5, <1>6

LEMMA EmptyQueue == EntriesOf(<<>>) = <<>> /\ ToSet(<<>>) = {}
<1>1. <<>> \in Seq({}) /\ Len(<<>>) = 0 /\ 0 \in 0 .. Len(<<>>)
  OBVIOUS
<1>2. EntriesOf(<<>>) = <<>>
  BY <1>1, EntriesUnfold DEF EntriesOf
<1> QED BY <1>2 DEF ToSet

-----------------------------------------------------------------------------
\* The inductive invariant.

Flushing == {"insert", "shielded", "backoff", "lastBackoff", "publish"}

\* run() and stop() are suspended at awaits of their own.
PlacesAgree ==
  /\ pc[Run] \notin {"idle", "yield", "wait", "close"}
  /\ \A s \in Stoppers :
       pc[s] \notin {"new", "connect", "crashed", "check", "get", "collect", "shielded"}

\* _drain_lock is held exactly by the one that drains; run() also flushes
\* batches of its main loop, without it.
LockAgrees ==
  /\ \A s \in Stoppers : lock = s <=> pc[s] \in Flushing \cup {"drain"}
  /\ pc[Run] = "drain" => lock = Run
  /\ lock = Run => pc[Run] \in Flushing \cup {"drain"}

\* A coroutine awaits one insert, of the batch it holds, or none.
InsertsAgree ==
  \A p \in Coroutines :
    /\ pc[p] \in {"insert", "shielded"} => \E t \in inserts : t.by = p
    /\ \A t \in inserts :
         t.by = p => pc[p] \in {"insert", "shielded"} /\ t.batch = batch[p]
    /\ \A t, u \in inserts : t.by = p /\ u.by = p => t = u

BatchesFilled ==
  \A p \in Coroutines : pc[p] \in Flushing \cup {"collect"} => batch[p] # <<>>

StopSeen ==
  /\ Sentinel \in ToSet(queue) => stopping
  /\ \A s \in Stoppers : pc[s] # "idle" => stopping

RetriesCounted == \A p \in Coroutines : retries[p] <= insertFaults

\* No insert failed: none is wiped and no one backs off.
Faultless ==
  insertFaults = 0 =>
    /\ \A t \in inserts : ~ t.wiped
    /\ \A p \in Coroutines : pc[p] \notin {"backoff", "lastBackoff"}
    /\ CancelPreserves

\* While the task was not cancelled: run() ends only by draining, and leaves
\* the queue alone once a stop() is past its wait.
PastWait == \E s \in Stoppers : pc[s] \notin {"idle", "yield", "wait"}
RunWaitedFor ==
  /\ raising = "nothing"
  /\ pc[Run] # "shielded"
  /\ started <=> pc[Run] # "new"
  /\ drainDone => pc[Run] = "done"
  /\ started /\ ~ running => stopping
  /\ PastWait => \/ lock = Run
                 \/ pc[Run] \in {"new", "connect", "crashed", "check", "lock", "done"}
  /\ \A t \in inserts : t.by # NoOne /\ ~ t.wiped

\* What is committed and not published is the batch of the one that publishes.
Committed ==
  /\ (\A p \in Coroutines : pc[p] # "publish") => rows = published
  /\ \A p \in Coroutines : pc[p] = "publish" => rows = published \o batch[p]

\* A stop() that goes on to close the connection leaves run() nothing to do.
NothingLeft ==
  (\E s \in Stoppers : pc[s] \in {"close", "done"}) =>
    EntriesOf(queue) = <<>> /\ pc[Run] \notin Holding

Uncancelled ==
  cancels = 0 =>
    RunWaitedFor /\ Committed /\ NothingLeft /\ LossNeedsPermanentFailure

IInv ==
  /\ TypeOK
  /\ PlacesAgree /\ LockAgrees /\ InsertsAgree /\ BatchesFilled
  /\ StopSeen /\ RetriesCounted /\ Faultless /\ Uncancelled

-----------------------------------------------------------------------------
\* Every step keeps it.

LEMMA Names ==
  /\ Run \in Coroutines /\ NoOne \notin Coroutines
  /\ \A s \in Stoppers : s \in Coroutines /\ s # Run
  /\ \A p \in Coroutines : p = Run \/ p \in Stoppers
  /\ \A n \in Nat : n # Sentinel
BY NamesAssumption DEF Coroutines

LEMMA InitIInv == ASSUME Init PROVE IInv
<1> USE DEF Init
<1>1. TypeOK
  <2>1. <<>> \in Seq(Accepted) /\ <<>> \in Seq(Accepted \cup {Sentinel}) /\ Len(<<>>) = 0
    BY EmptySeq
  <2>2. /\ batch \in [Coroutines -> Seq(Accepted)] /\ pc \in [Coroutines -> Labels]
        /\ retries \in [Coroutines -> 0 .. MaxShutdownRetries]
    BY <2>1, SizesAssumption DEF Labels
  <2>3. /\ put \in 0 .. MaxEntries /\ lock \in Coroutines \cup {NoOne}
        /\ raising \in {"nothing", "error", "cancelled"} /\ inserts \subseteq Inserts
        /\ insertFaults \in 0 .. MaxInsertFaults /\ connectFaults \in 0 .. MaxConnectFaults
        /\ cancels \in 0 .. MaxCancels
    BY ModelBoundsAssumption
  <2>4. 0 <= QueueMaxSize
    BY SizesAssumption
  <2> QED BY <2>1, <2>2, <2>3, <2>4 DEF TypeOK
<1>2. PlacesAgree /\ LockAgrees
  BY Names DEF PlacesAgree, LockAgrees, Flushing, Coroutines
<1>3. InsertsAgree /\ BatchesFilled /\ StopSeen /\ RetriesCounted
  BY Names, EmptyQueue DEF InsertsAgree, BatchesFilled, StopSeen, RetriesCounted, Flushing
<1>4. Faultless
  BY Names DEF Faultless, CancelPreserves
<1>5. Uncancelled
  <2>1. <<>> \o <<>> = <<>>
    OBVIOUS
  <2> QED BY Names, <2>1 DEF Uncancelled, RunWaitedFor, PastWait, Committed, NothingLeft,
                             LossNeedsPermanentFailure
<1> QED BY <1>1, <1>2, <1>3, <1>4, <1>5 DEF IInv

\* Where a coroutine goes, and who stays.
LEMMA GoToMoves ==
  ASSUME TypeOK, NEW p \in Coroutines, NEW label \in Labels, GoTo(p, label)
  PROVE  /\ pc' \in [Coroutines -> Labels] /\ pc'[p] = label
         /\ \A q \in Coroutines \ {p} : pc'[q] = pc[q]
BY DEF TypeOK, GoTo

LEMMA PutKeeps == ASSUME IInv, Put PROVE IInv'
<1> USE DEF Put, flags, faults, IInv
<1>1. /\ put \in Nat /\ put' = put + 1 /\ put' \in 0 .. MaxEntries
      /\ Accepted' = Accepted \cup {put + 1} /\ put + 1 \in Accepted'
  BY ModelBoundsAssumption DEF TypeOK, Accepted
<1>2. /\ queue \in Seq(Accepted' \cup {Sentinel}) /\ rows \in Seq(Accepted')
      /\ published \in Seq(Accepted') /\ batch \in [Coroutines -> Seq(Accepted')]
  <2>1. Accepted \subseteq Accepted' /\ Accepted \cup {Sentinel} \subseteq Accepted' \cup {Sentinel}
    BY <1>1
  <2>2. \A S, T : S \subseteq T => Seq(S) \subseteq Seq(T)
    BY SeqMonotonic
  <2> QED BY <2>1, <2>2 DEF TypeOK
<1>3. inserts' \subseteq Inserts'
  <2>1. \A t \in Inserts : t \in Inserts'
    BY <1>1, SeqMonotonic DEF Inserts
  <2> QED BY <2>1 DEF TypeOK
<1>4. /\ queue' \in Seq(Accepted' \cup {Sentinel}) /\ Len(queue') <= QueueMaxSize
      /\ ToSet(queue) \subseteq ToSet(queue')
      /\ Sentinel \in ToSet(queue') => Sentinel \in ToSet(queue)
      /\ put + 1 \in ToSet(queue') \cup dropped'
      /\ dropped \subseteq dropped' /\ dropped' \subseteq Accepted'
  <2>1. CASE HasRoom
    <3>1. queue' = Append(queue, put + 1) /\ dropped' = dropped /\ Len(queue) < QueueMaxSize
      BY <2>1 DEF HasRoom
    <3>2. /\ queue' \in Seq(Accepted' \cup {Sentinel}) /\ Len(queue') = Len(queue) + 1
          /\ ToSet(queue') = ToSet(queue) \cup {put + 1}
      BY <1>1, <1>2, <3>1, QueueAppend
    <3>3. Len(queue) + 1 <= QueueMaxSize
      BY <3>1, <1>2, LenProperties, SizesAssumption
    <3> QED BY <1>1, <3>1, <3>2, <3>3, Names DEF TypeOK
  <2>2. CASE ~ HasRoom
    BY <2>2, <1>1, <1>2 DEF TypeOK
  <2> QED BY <2>1, <2>2
<1>5. TypeOK'
  BY <1>1, <1>2, <1>3, <1>4 DEF TypeOK
<1>6. PlacesAgree' /\ LockAgrees' /\ InsertsAgree' /\ BatchesFilled' /\ RetriesCounted' /\ StopSeen'
  BY <1>4 DEF PlacesAgree, LockAgrees, InsertsAgree, BatchesFilled, RetriesCounted, StopSeen
<1>7. Faultless'
  <2>1. \A e \in 1 .. put' : e \in 1 .. put \/ e = put + 1
    BY <1>1
  <2> QED BY <2>1, <1>4 DEF Faultless, CancelPreserves, Held
<1>8. Uncancelled'
  BY DEF Uncancelled, RunWaitedFor, PastWait, Committed, NothingLeft, LossNeedsPermanentFailure
<1> QED BY <1>5, <1>6, <1>7, <1>8

LEMMA StartKeeps == ASSUME IInv, Start PROVE IInv'
<1> USE DEF Start, flags, faults, IInv
<1>1. /\ pc' \in [Coroutines -> Labels] /\ pc'[Run] = "connect"
      /\ \A p \in Coroutines \ {Run} : pc'[p] = pc[p]
  BY Names, GoToMoves DEF Labels
<1>2. TypeOK'
  BY <1>1 DEF TypeOK, Accepted, Inserts
<1>3. PlacesAgree' /\ LockAgrees'
  BY Names, <1>1 DEF PlacesAgree, LockAgrees, Flushing
<1>4. InsertsAgree' /\ BatchesFilled' /\ StopSeen' /\ RetriesCounted'
  BY Names, <1>1 DEF InsertsAgree, BatchesFilled, StopSeen, RetriesCounted, Flushing
<1>5. Faultless'
  BY Names, <1>1 DEF Faultless, CancelPreserves, Held, Holding
<1>6. Uncancelled'
  BY Names, <1>1 DEF Uncancelled, RunWaitedFor, PastWait, Committed, NothingLeft,
                     LossNeedsPermanentFailure, Holding
<1> QED BY <1>2, <1>3, <1>4, <1>5, <1>6

LEMMA ConnectKeeps == ASSUME IInv, Connect PROVE IInv'
<1> USE DEF Connect, flags, faults, IInv
<1>1. /\ pc' \in [Coroutines -> Labels] /\ pc'[Run] \in {"check", "crashed"}
      /\ \A p \in Coroutines \ {Run} : pc'[p] = pc[p]
  BY Names, GoToMoves DEF Labels
<1>2. TypeOK'
  <2>1. connectFaults' \in 0 .. MaxConnectFaults
    BY ModelBoundsAssumption DEF TypeOK, ConnectionFault
  <2> QED BY <1>1, <2>1 DEF TypeOK, Accepted, Inserts
<1>3. PlacesAgree' /\ LockAgrees'
  BY Names, <1>1 DEF PlacesAgree, LockAgrees, Flushing
<1>4. InsertsAgree' /\ BatchesFilled' /\ StopSeen' /\ RetriesCounted'
  BY Names, <1>1 DEF InsertsAgree, BatchesFilled, StopSeen, RetriesCounted, Flushing
<1>5. Faultless'
  BY Names, <1>1 DEF Faultless, CancelPreserves, Held, Holding
<1>6. Uncancelled'
  BY Names, <1>1 DEF Uncancelled, RunWaitedFor, PastWait, Committed, NothingLeft,
                     LossNeedsPermanentFailure, Holding
<1> QED BY <1>2, <1>3, <1>4, <1>5, <1>6

LEMMA CheckKeeps == ASSUME IInv, Check PROVE IInv'
<1> USE DEF Check, ShuttingDown, flags, faults, IInv
<1>1. /\ pc' \in [Coroutines -> Labels]
      /\ pc'[Run] = IF ~ running \/ stopping THEN "lock" ELSE "get"
      /\ \A p \in Coroutines \ {Run} : pc'[p] = pc[p]
  BY Names, GoToMoves DEF Labels
<1>2. TypeOK'
  BY <1>1 DEF TypeOK, Accepted, Inserts
<1>3. PlacesAgree' /\ LockAgrees'
  BY Names, <1>1 DEF PlacesAgree, LockAgrees, Flushing
<1>4. InsertsAgree' /\ BatchesFilled' /\ StopSeen' /\ RetriesCounted'
  BY Names, <1>1 DEF InsertsAgree, BatchesFilled, StopSeen, RetriesCounted, Flushing
<1>5. Faultless'
  BY Names, <1>1 DEF Faultless, CancelPreserves, Held, Holding
<1>6. Uncancelled'
  BY Names, <1>1 DEF Uncancelled, RunWaitedFor, PastWait, Committed, NothingLeft,
                     LossNeedsPermanentFailure, Holding, StopSeen
<1> QED BY <1>2, <1>3, <1>4, <1>5, <1>6

\* What run() finds at the head of the queue.
LEMMA HeadOfQueue ==
  ASSUME TypeOK, queue # <<>>
  PROVE  /\ Head(queue) \in Accepted \cup {Sentinel}
         /\ Tail(queue) \in Seq(Accepted \cup {Sentinel}) /\ Len(Tail(queue)) <= QueueMaxSize
         /\ ToSet(queue) = {Head(queue)} \cup ToSet(Tail(queue))
<1>1. PICK r \in Seq(Accepted \cup {Sentinel}) : r = Tail(queue) /\ Len(r) <= Len(queue)
  BY QueueTail DEF TypeOK
<1>2. Len(queue) \in Nat /\ Len(r) \in Nat
  BY LenProperties DEF TypeOK
<1>3. Len(r) <= QueueMaxSize
  BY <1>1, <1>2, SizesAssumption DEF TypeOK
<1> QED BY <1>1, <1>3, QueueTail DEF TypeOK

LEMMA GetKeeps == ASSUME IInv, Get PROVE IInv'
<1> USE DEF Get, flags, faults, IInv
<1>1. /\ pc' \in [Coroutines -> Labels] /\ pc'[Run] \in {"check", "lock", "collect"}
      /\ \A p \in Coroutines \ {Run} : pc'[p] = pc[p]
      /\ pc[Run] = "get"
  BY Names, GoToMoves DEF Labels
<1>2. \/ /\ queue = <<>> /\ pc'[Run] = "check"
         /\ UNCHANGED <<queue, batch, running>>
      \/ /\ queue # <<>> /\ Head(queue) = Sentinel /\ queue' = Tail(queue)
         /\ pc'[Run] = "lock" /\ running' = FALSE /\ UNCHANGED batch
      \/ /\ queue # <<>> /\ Head(queue) # Sentinel /\ queue' = Tail(queue)
         /\ pc'[Run] = "collect" /\ batch' = [batch EXCEPT ![Run] = <<Head(queue)>>]
         /\ UNCHANGED running
  BY Names, GoToMoves DEF Labels, IsEntry
<1>3. queue # <<>> =>
        /\ Head(queue) \in Accepted \cup {Sentinel}
        /\ Tail(queue) \in Seq(Accepted \cup {Sentinel}) /\ Len(Tail(queue)) <= QueueMaxSize
        /\ ToSet(queue) = {Head(queue)} \cup ToSet(Tail(queue))
  BY HeadOfQueue
<1>4. /\ queue' \in Seq(Accepted \cup {Sentinel}) /\ Len(queue') <= QueueMaxSize
      /\ Sentinel \in ToSet(queue') => Sentinel \in ToSet(queue)
  <2>1. CASE queue' = queue
    BY <2>1 DEF TypeOK
  <2>2. CASE queue # <<>> /\ queue' = Tail(queue)
    BY <1>3, <2>2
  <2> QED BY <1>2, <2>1, <2>2
<1>5. /\ batch' \in [Coroutines -> Seq(Accepted)]
      /\ \A p \in Coroutines \ {Run} : batch'[p] = batch[p]
      /\ pc'[Run] = "collect" => /\ batch'[Run] # <<>>
                                 /\ ToSet(batch'[Run]) = {Head(queue)}
  <2>1. CASE pc'[Run] = "collect"
    <3>1. PICK h \in Accepted : h = Head(queue)
      BY <1>2, <1>3, <2>1
    <3>2. <<h>> \in Seq(Accepted) /\ ToSet(<<h>>) = {h} /\ <<h>> # <<>>
      BY OneItem
    <3> QED BY <1>2, <2>1, <3>1, <3>2, Names DEF TypeOK
  <2>2. CASE pc'[Run] # "collect"
    BY <1>2, <2>2 DEF TypeOK
  <2> QED BY <2>1, <2>2
<1>6. \A e \in Nat : e \in ToSet(queue) =>
        e \in ToSet(queue') \/ (pc'[Run] = "collect" /\ e \in ToSet(batch'[Run]))
  BY <1>2, <1>3, <1>5, Names
<1>7. TypeOK'
  BY <1>1, <1>2, <1>4, <1>5 DEF TypeOK, Accepted, Inserts
<1>8. PlacesAgree' /\ LockAgrees'
  BY Names, <1>1 DEF PlacesAgree, LockAgrees, Flushing
<1>9. InsertsAgree'
  BY Names, <1>1, <1>5 DEF InsertsAgree
<1>10. BatchesFilled' /\ StopSeen' /\ RetriesCounted'
  BY Names, <1>1, <1>4, <1>5 DEF BatchesFilled, StopSeen, RetriesCounted, Flushing
<1>11. Faultless'
  <2>1. insertFaults = 0 => CancelPreserves'
    <3> SUFFICES ASSUME insertFaults = 0, NEW e \in 1 .. put
                 PROVE  \/ e \in ToSet(queue') \cup ToSet(rows) \cup dropped
                        \/ \E p \in Coroutines : e \in ToSet(Held(p)')
                        \/ \E t \in inserts : e \in ToSet(t.batch)
      BY DEF CancelPreserves
    <3>1. e \in Nat
      BY DEF TypeOK
    <3>2. \A p \in Coroutines \ {Run} : Held(p)' = Held(p)
      BY <1>1, <1>5 DEF Held
    <3>3. Held(Run) = <<>> /\ (pc'[Run] = "collect" => Held(Run)' = batch'[Run])
      BY <1>1 DEF Held, Holding
    <3>4. \/ e \in ToSet(queue) \cup ToSet(rows) \cup dropped
          \/ \E p \in Coroutines : e \in ToSet(Held(p))
          \/ \E t \in inserts : e \in ToSet(t.batch)
      BY DEF Faultless, CancelPreserves
    <3> QED BY <1>6, <3>1, <3>2, <3>3, <3>4, EmptyQueue, Names
  <2> QED BY Names, <1>1, <2>1 DEF Faultless
<1>12. Uncancelled'
  <2>1. cancels = 0 => RunWaitedFor'
    BY Names, <1>1, <1>2, <1>3 DEF Uncancelled, RunWaitedFor, PastWait, StopSeen
  <2>2. cancels = 0 => Committed'
    BY Names, <1>1, <1>5 DEF Uncancelled, Committed
  <2>3. cancels = 0 => NothingLeft'
    BY Names, <1>1 DEF Uncancelled, NothingLeft, RunWaitedFor, PastWait, LockAgrees, Flushing
  <2> QED BY <2>1, <2>2, <2>3 DEF Uncancelled, LossNeedsPermanentFailure
<1> QED BY <1>7, <1>8, <1>9, <1>10, <1>11, <1>12

\* A batch is handed to a worker thread.
LEMMA StartInsertMoves ==
  ASSUME TypeOK, NEW p \in Coroutines, NEW b \in Seq(Accepted), StartInsert(p, b)
  PROVE  /\ pc' \in [Coroutines -> Labels] /\ pc'[p] = "insert"
         /\ \A q \in Coroutines \ {p} : pc'[q] = pc[q]
         /\ batch' \in [Coroutines -> Seq(Accepted)] /\ batch'[p] = b
         /\ \A q \in Coroutines \ {p} : batch'[q] = batch[q]
         /\ retries' \in [Coroutines -> 0 .. MaxShutdownRetries] /\ retries'[p] = 0
         /\ \A q \in Coroutines \ {p} : retries'[q] = retries[q]
         /\ inserts' = inserts \cup {Insert(p, b)}
         /\ Insert(p, b) \in Inserts
<1>1. GoTo(p, "insert")
  BY DEF StartInsert
<1>2. Insert(p, b) \in Inserts
  BY DEF Insert, Inserts, TypeOK
<1>3. /\ pc' \in [Coroutines -> Labels] /\ pc'[p] = "insert"
      /\ \A q \in Coroutines \ {p} : pc'[q] = pc[q]
  BY <1>1, GoToMoves DEF Labels
<1>4. /\ batch' \in [Coroutines -> Seq(Accepted)] /\ batch'[p] = b
      /\ \A q \in Coroutines \ {p} : batch'[q] = batch[q]
  BY DEF StartInsert, TypeOK
<1>5. /\ retries' \in [Coroutines -> 0 .. MaxShutdownRetries] /\ retries'[p] = 0
      /\ \A q \in Coroutines \ {p} : retries'[q] = retries[q]
  BY SizesAssumption DEF StartInsert, TypeOK
<1>6. inserts' = inserts \cup {Insert(p, b)}
  BY DEF StartInsert
<1> QED BY <1>2, <1>3, <1>4, <1>5, <1>6

LEMMA StartInsertKeeps ==
  ASSUME IInv, NEW p \in Coroutines, NEW b \in Seq(Accepted), b # <<>>,
         StartInsert(p, b), pc[p] \notin {"insert", "shielded"}, UNCHANGED insertFaults
  PROVE  InsertsAgree' /\ BatchesFilled' /\ RetriesCounted'
<1> USE DEF IInv
<1>1. /\ pc'[p] = "insert" /\ batch'[p] = b /\ retries'[p] = 0
      /\ \A q \in Coroutines \ {p} :
           pc'[q] = pc[q] /\ batch'[q] = batch[q] /\ retries'[q] = retries[q]
  BY StartInsertMoves
<1>2. PICK new : new = Insert(p, b)
  OBVIOUS
<1>3. new.by = p /\ new.batch = b /\ inserts' = inserts \cup {new}
  BY <1>2, StartInsertMoves DEF Insert
<1>4. \A t \in inserts : t.by # p
  BY DEF InsertsAgree
<1>5. InsertsAgree'
  BY <1>1, <1>3, <1>4 DEF InsertsAgree
<1>6. BatchesFilled'
  BY <1>1 DEF BatchesFilled
<1>7. RetriesCounted'
  <2>1. insertFaults \in Nat /\ insertFaults' = insertFaults
    BY ModelBoundsAssumption DEF TypeOK
  <2> QED BY <1>1, <2>1 DEF RetriesCounted
<1> QED BY <1>5, <1>6, <1>7

\* run() takes one more entry, or hands over what it collected.
LEMMA CollectKeeps == ASSUME IInv, Collect PROVE IInv'
<1> USE DEF IInv
<1>1. /\ pc[Run] = "collect" /\ UNCHANGED <<put, dropped, started, stopping, drainDone, lock,
                                            raising, rows, lost, published, faults>>
  BY DEF Collect
<1>2. PICK b \in Seq(Accepted) : b = batch[Run] /\ b # <<>>
  BY <1>1, Names DEF TypeOK, BatchesFilled
<1>3. queue # <<>> =>
        /\ Head(queue) \in Accepted \cup {Sentinel}
        /\ Tail(queue) \in Seq(Accepted \cup {Sentinel}) /\ Len(Tail(queue)) <= QueueMaxSize
        /\ ToSet(queue) = {Head(queue)} \cup ToSet(Tail(queue))
  BY HeadOfQueue
<1>4. ASSUME queue # <<>>, Head(queue) # Sentinel, queue' = Tail(queue),
             batch' = [batch EXCEPT ![Run] = Append(@, Head(queue))],
             UNCHANGED <<running, retries, inserts, pc>>
      PROVE  IInv'
  <2> USE <1>1, <1>4 DEF faults
  <2>1. PICK h \in Accepted : h = Head(queue)
    BY <1>3
  <2>2. /\ Append(b, h) \in Seq(Accepted) /\ Append(b, h) # <<>>
        /\ ToSet(Append(b, h)) = ToSet(b) \cup {h}
    BY QueueAppend, AppendProperties
  <2>3. /\ batch' \in [Coroutines -> Seq(Accepted)] /\ batch'[Run] = Append(b, h)
        /\ \A p \in Coroutines \ {Run} : batch'[p] = batch[p]
    BY <1>2, <2>1, <2>2, Names DEF TypeOK
  <2>4. TypeOK'
    BY <1>3, <2>3 DEF TypeOK, Accepted, Inserts
  <2>5. PlacesAgree' /\ LockAgrees' /\ InsertsAgree' /\ RetriesCounted'
    BY Names, <2>3 DEF PlacesAgree, LockAgrees, InsertsAgree, RetriesCounted
  <2>6. BatchesFilled' /\ StopSeen'
    BY Names, <1>3, <2>2, <2>3 DEF BatchesFilled, StopSeen
  <2>7. Faultless'
    <3>1. Held(Run) = b /\ Held(Run)' = Append(b, h)
      BY <1>2, <2>3 DEF Held, Holding
    <3>2. \A p \in Coroutines \ {Run} : Held(p)' = Held(p)
      BY <2>3 DEF Held
    <3>3. insertFaults = 0 => CancelPreserves'
      BY <1>3, <2>1, <2>2, <3>1, <3>2, Names DEF Faultless, CancelPreserves
    <3> QED BY <3>3 DEF Faultless
  <2>8. Uncancelled'
    <3>1. cancels = 0 => RunWaitedFor'
      BY DEF Uncancelled, RunWaitedFor, PastWait
    <3>2. cancels = 0 => Committed'
      BY Names, <2>3 DEF Uncancelled, Committed
    <3>3. cancels = 0 => NothingLeft'
      BY DEF Uncancelled, NothingLeft, Holding
    <3> QED BY <3>1, <3>2, <3>3 DEF Uncancelled, LossNeedsPermanentFailure
  <2> QED BY <2>4, <2>5, <2>6, <2>7, <2>8
<1>5. ASSUME StartInsert(Run, batch[Run]),
             \/ /\ queue # <<>> /\ Head(queue) = Sentinel /\ queue' = Tail(queue)
                /\ running' = FALSE
             \/ UNCHANGED <<queue, running>>
      PROVE  IInv'
  <2> USE <1>1 DEF faults
  <2>1. /\ pc' \in [Coroutines -> Labels] /\ pc'[Run] = "insert"
        /\ \A p \in Coroutines \ {Run} : pc'[p] = pc[p]
        /\ batch' = batch
        /\ retries' \in [Coroutines -> 0 .. MaxShutdownRetries]
        /\ inserts' = inserts \cup {Insert(Run, b)}
        /\ Insert(Run, b) \in Inserts
    <3>1. batch' = batch
      BY <1>5, Names DEF StartInsert, TypeOK
    <3> QED BY <1>2, <1>5, <3>1, StartInsertMoves, Names
  <2>2. Insert(Run, b).by = Run /\ ~ Insert(Run, b).wiped
    BY DEF Insert
  <2>3. /\ queue' \in Seq(Accepted \cup {Sentinel}) /\ Len(queue') <= QueueMaxSize
        /\ Sentinel \in ToSet(queue') => Sentinel \in ToSet(queue)
        /\ ToSet(queue) \ {Sentinel} \subseteq ToSet(queue')
        /\ running' \in BOOLEAN
        /\ ~ running' => ~ running \/ Sentinel \in ToSet(queue)
    <3>1. CASE /\ queue # <<>> /\ Head(queue) = Sentinel /\ queue' = Tail(queue)
               /\ running' = FALSE
      BY <1>3, <3>1
    <3>2. CASE UNCHANGED <<queue, running>>
      BY <3>2 DEF TypeOK
    <3> QED BY <1>5, <3>1, <3>2
  <2>4. TypeOK'
    BY <2>1, <2>3 DEF TypeOK, Accepted, Inserts
  <2>5. PlacesAgree' /\ LockAgrees'
    BY Names, <2>1 DEF PlacesAgree, LockAgrees, Flushing
  <2>6. InsertsAgree' /\ BatchesFilled' /\ RetriesCounted'
    BY <1>2, <1>5, Names, StartInsertKeeps
  <2>7. StopSeen'
    BY <2>1, <2>3, Names DEF StopSeen
  <2>8. Faultless'
    <3>1. \A p \in Coroutines : Held(p)' = Held(p)
      BY <2>1, Names DEF Held, Holding
    <3>2. \A e \in Nat : e # Sentinel
      BY Names
    <3>3. insertFaults = 0 => CancelPreserves'
      <4> SUFFICES ASSUME insertFaults = 0, NEW e \in 1 .. put
                   PROVE  \/ e \in ToSet(queue') \cup ToSet(rows) \cup dropped
                          \/ \E p \in Coroutines : e \in ToSet(Held(p)')
                          \/ \E t \in inserts' : e \in ToSet(t.batch)
        BY DEF CancelPreserves
      <4>1. e # Sentinel
        BY <3>2 DEF TypeOK
      <4>2. \/ e \in ToSet(queue) \cup ToSet(rows) \cup dropped
            \/ \E p \in Coroutines : e \in ToSet(Held(p))
            \/ \E t \in inserts : e \in ToSet(t.batch)
        BY DEF Faultless, CancelPreserves
      <4> QED BY <2>1, <2>3, <3>1, <4>1, <4>2
    <3> QED BY <2>1, <2>2, <3>3, Names DEF Faultless
  <2>9. Uncancelled'
    <3>1. cancels = 0 => RunWaitedFor'
      BY <2>1, <2>2, <2>3, Names DEF Uncancelled, RunWaitedFor, PastWait, StopSeen
    <3>2. cancels = 0 => Committed'
      BY Names, <2>1 DEF Uncancelled, Committed
    <3>3. cancels = 0 => NothingLeft'
      BY <2>1, Names DEF Uncancelled, RunWaitedFor, PastWait, NothingLeft, LockAgrees, Flushing
    <3> QED BY <3>1, <3>2, <3>3 DEF Uncancelled, LossNeedsPermanentFailure
  <2> QED BY <2>4, <2>5, <2>6, <2>7, <2>8, <2>9
<1> QED BY <1>4, <1>5 DEF Collect, IsEntry

\* A commit: the rows of a batch that no other thread wiped.
LEMMA CommitWrites ==
  ASSUME TypeOK, NEW t \in inserts, Commit(t)
  PROVE  /\ rows' \in Seq(Accepted) /\ ToSet(rows) \subseteq ToSet(rows')
         /\ ~ t.wiped => rows' = rows \o t.batch /\ ToSet(rows') = ToSet(rows) \cup ToSet(t.batch)
<1>1. PICK erased \in (IF t.wiped THEN 0 .. Len(t.batch) ELSE {0}) :
        rows' = rows \o SubSeq(t.batch, erased + 1, Len(t.batch))
  BY DEF Commit
<1>2. t.batch \in Seq(Accepted) /\ rows \in Seq(Accepted)
  BY DEF TypeOK, Inserts
<1>3. PICK part : part = SubSeq(t.batch, erased + 1, Len(t.batch))
  OBVIOUS
<1>4. part \in Seq(Accepted)
  <2>1. erased + 1 \in 1 .. Len(t.batch) + 1 /\ Len(t.batch) \in Nat
    BY <1>2, LenProperties
  <2>2. \A i \in erased + 1 .. Len(t.batch) : t.batch[i] \in Accepted
    BY <1>2, <2>1, ElementOfSeq
  <2> QED BY <1>3, <2>1, <2>2, SubSeqProperties
<1>5. rows' = rows \o part
  BY <1>1, <1>3
<1>6. rows' \in Seq(Accepted) /\ ToSet(rows') = ToSet(rows) \cup ToSet(part)
  BY <1>2, <1>4, <1>5, JoinHas, ConcatProperties
<1>7. ~ t.wiped => part = t.batch
  BY <1>2, <1>3, SubSeqFull
<1> QED BY <1>5, <1>6, <1>7

\* While the task is not cancelled, one coroutine at a time has a batch or drains.
LEMMA OneFlushes ==
  ASSUME IInv, cancels = 0, NEW p \in Coroutines, NEW q \in Coroutines,
         {pc[p], pc[q]} \subseteq Flushing \cup {"collect", "drain"}
  PROVE  p = q
<1> USE DEF IInv, PlacesAgree, LockAgrees, Flushing
<1>1. CASE p \in Stoppers /\ q \in Stoppers
  BY <1>1, Names
<1>2. ASSUME NEW s \in Stoppers, pc[s] \in Flushing \cup {"collect", "drain"}
      PROVE  pc[Run] \notin Flushing \cup {"collect", "drain"}
  <2>1. lock = s /\ PastWait
    BY <1>2 DEF PastWait
  <2> QED BY <2>1, Names DEF Uncancelled, RunWaitedFor
<1> QED BY <1>1, <1>2, Names

LEMMA InsertDoneKeeps ==
  ASSUME IInv, NEW p \in Coroutines, InsertDone(p)
  PROVE  IInv'
<1> USE DEF IInv
<1>1. /\ pc[p] \in {"insert", "shielded"}
      /\ UNCHANGED <<queue, put, dropped, started, running, stopping, drainDone, lock, batch,
                     retries, raising, lost, published, insertFaults, connectFaults, cancels>>
  BY DEF InsertDone, flags, faults
<1>2. PICK t \in inserts : t.by = p /\ Commit(t) /\ inserts' = inserts \ {t}
  BY DEF InsertDone
<1>3. /\ pc' \in [Coroutines -> Labels] /\ pc'[p] = "publish"
      /\ \A q \in Coroutines \ {p} : pc'[q] = pc[q]
  BY GoToMoves DEF InsertDone, Labels
<1>4. t.batch = batch[p] /\ \A u \in inserts : u.by = p => u = t
  BY <1>2 DEF InsertsAgree
<1>5. /\ rows' \in Seq(Accepted) /\ ToSet(rows) \subseteq ToSet(rows')
      /\ ~ t.wiped => /\ rows' = rows \o batch[p]
                      /\ ToSet(rows') = ToSet(rows) \cup ToSet(batch[p])
  BY <1>2, <1>4, CommitWrites
<1>6. TypeOK'
  BY <1>1, <1>2, <1>3, <1>5 DEF TypeOK, Accepted, Inserts
<1>7. PlacesAgree' /\ LockAgrees'
  BY Names, <1>1, <1>3 DEF PlacesAgree, LockAgrees, Flushing
<1>8. InsertsAgree'
  BY <1>1, <1>2, <1>3, <1>4 DEF InsertsAgree
<1>9. BatchesFilled' /\ StopSeen' /\ RetriesCounted'
  BY <1>1, <1>3, Names DEF BatchesFilled, StopSeen, RetriesCounted, Flushing
<1>10. Faultless'
  <2>1. \A q \in Coroutines \ {p} : Held(q)' = Held(q)
    BY <1>1, <1>3 DEF Held
  <2>2. Held(p) = batch[p]
    BY <1>1 DEF Held, Holding
  <2>3. insertFaults = 0 => CancelPreserves'
    <3> SUFFICES ASSUME insertFaults = 0, NEW e \in 1 .. put
                 PROVE  \/ e \in ToSet(queue) \cup ToSet(rows') \cup dropped
                        \/ \E q \in Coroutines : e \in ToSet(Held(q)')
                        \/ \E u \in inserts' : e \in ToSet(u.batch)
      BY <1>1 DEF CancelPreserves
    <3>1. \/ e \in ToSet(queue) \cup ToSet(rows) \cup dropped
          \/ \E q \in Coroutines : e \in ToSet(Held(q))
          \/ \E u \in inserts : e \in ToSet(u.batch)
      BY DEF Faultless, CancelPreserves
    <3>2. ~ t.wiped
      BY DEF Faultless
    <3> QED BY <1>2, <1>4, <1>5, <2>1, <2>2, <3>1, <3>2
  <2> QED BY <1>1, <1>2, <1>3, <2>3 DEF Faultless
<1>11. Uncancelled'
  <2> SUFFICES ASSUME cancels = 0 
               PROVE  RunWaitedFor' /\ Committed' /\ NothingLeft' /\ LossNeedsPermanentFailure'
    BY <1>1 DEF Uncancelled
  <2>1. RunWaitedFor'
    BY <1>1, <1>2, <1>3, Names DEF Uncancelled, RunWaitedFor, PastWait
  <2>2. Committed'
    <3>1. ~ t.wiped /\ \A q \in Coroutines \ {p} : pc[q] # "publish"
      BY <1>1, OneFlushes DEF Uncancelled, RunWaitedFor, Flushing
    <3>2. rows = published
      BY <1>1, <3>1 DEF Uncancelled, Committed
    <3> QED BY <1>1, <1>3, <1>5, <3>1, <3>2 DEF Committed
  <2>3. NothingLeft'
    BY <1>1, <1>3, Names DEF Uncancelled, NothingLeft, Holding
  <2> QED BY <1>1, <2>1, <2>2, <2>3 DEF Uncancelled, LossNeedsPermanentFailure
<1> QED BY <1>6, <1>7, <1>8, <1>9, <1>10, <1>11

LEMMA PublishKeeps ==
  ASSUME IInv, NEW p \in Coroutines, Publish(p)
  PROVE  IInv'
<1> USE DEF IInv
<1>1. /\ pc[p] = "publish" /\ published' = published \o batch[p]
      /\ UNCHANGED <<queue, put, dropped, started, running, stopping, drainDone, lock, inserts,
                     retries, raising, lost, rows, insertFaults, connectFaults, cancels>>
  BY DEF Publish, flags, faults
<1>2. /\ batch' \in [Coroutines -> Seq(Accepted)]
      /\ \A q \in Coroutines \ {p} : batch'[q] = batch[q]
  BY EmptySeq DEF Publish, TypeOK
<1>3. /\ pc' \in [Coroutines -> Labels] /\ pc'[p] = IF lock = p THEN "drain" ELSE "check"
      /\ \A q \in Coroutines \ {p} : pc'[q] = pc[q]
  BY GoToMoves DEF Publish, Labels
<1>4. TypeOK'
  BY <1>1, <1>2, <1>3, ConcatProperties DEF TypeOK, Accepted, Inserts
<1>5. PlacesAgree' /\ LockAgrees'
  BY Names, <1>1, <1>3 DEF PlacesAgree, LockAgrees, Flushing
<1>6. InsertsAgree'
  <2>1. ASSUME NEW q \in Coroutines, q # p
        PROVE  pc'[q] = pc[q] /\ batch'[q] = batch[q] /\ inserts' = inserts
    BY <1>1, <1>2, <1>3, <2>1
  <2>2. inserts' = inserts /\ pc'[p] \notin {"insert", "shielded"} /\ \A t \in inserts : t.by # p
    BY <1>1, <1>3 DEF InsertsAgree
  <2> QED BY <2>1, <2>2 DEF InsertsAgree
<1>7. BatchesFilled' /\ StopSeen' /\ RetriesCounted'
  BY <1>1, <1>2, <1>3, Names DEF BatchesFilled, StopSeen, RetriesCounted, Flushing
<1>8. Faultless'
  <2>1. \A q \in Coroutines : Held(q)' = Held(q)
    BY <1>1, <1>2, <1>3 DEF Held, Holding
  <2> QED BY <1>1, <1>3, <2>1 DEF Faultless, CancelPreserves
<1>9. Uncancelled'
  <2> SUFFICES ASSUME cancels = 0 
               PROVE  RunWaitedFor' /\ Committed' /\ NothingLeft' /\ LossNeedsPermanentFailure'
    BY <1>1 DEF Uncancelled
  <2>1. RunWaitedFor'
    BY <1>1, <1>3, Names DEF Uncancelled, RunWaitedFor, PastWait, LockAgrees, Flushing
  <2>2. Committed'
    <3>1. \A q \in Coroutines \ {p} : pc[q] # "publish"
      BY <1>1, OneFlushes DEF Flushing
    <3>2. rows = published \o batch[p]
      BY <1>1 DEF Uncancelled, Committed
    <3> QED BY <1>1, <1>3, <3>1, <3>2 DEF Committed
  <2>3. NothingLeft'
    BY <1>1, <1>3, Names DEF Uncancelled, NothingLeft, Holding
  <2> QED BY <1>1, <2>1, <2>2, <2>3 DEF Uncancelled, LossNeedsPermanentFailure
<1> QED BY <1>4, <1>5, <1>6, <1>7, <1>8, <1>9

LEMMA RetryKeeps ==
  ASSUME IInv, NEW p \in Coroutines, Retry(p)
  PROVE  IInv'
<1> USE DEF IInv
<1>1. /\ pc[p] \in {"backoff", "lastBackoff"}
      /\ UNCHANGED <<queue, put, dropped, started, running, stopping, drainDone, lock, batch,
                     retries, raising, lost, rows, published,
                     insertFaults, connectFaults, cancels>>
  BY DEF Retry, flags, faults
<1>2. PICK new : new = Insert(p, batch[p])
  OBVIOUS
<1>3. /\ new \in Inserts /\ new.by = p /\ new.batch = batch[p] /\ ~ new.wiped
      /\ inserts' = inserts \cup {new}
  BY <1>2 DEF Insert, Inserts, TypeOK, Retry
<1>4. /\ pc' \in [Coroutines -> Labels] /\ pc'[p] = "insert"
      /\ \A q \in Coroutines \ {p} : pc'[q] = pc[q]
  BY GoToMoves DEF Retry, Labels
<1>5. TypeOK'
  BY <1>1, <1>3, <1>4 DEF TypeOK, Accepted, Inserts
<1>6. PlacesAgree' /\ LockAgrees'
  BY Names, <1>1, <1>4 DEF PlacesAgree, LockAgrees, Flushing
<1>7. InsertsAgree'
  <2>1. \A t \in inserts : t.by # p
    BY <1>1 DEF InsertsAgree
  <2> QED BY <1>1, <1>3, <1>4, <2>1 DEF InsertsAgree
<1>8. BatchesFilled' /\ StopSeen' /\ RetriesCounted'
  BY <1>1, <1>4, Names DEF BatchesFilled, StopSeen, RetriesCounted, Flushing
<1>9. Faultless'
  BY <1>1 DEF Faultless
<1>10. Uncancelled'
  <2> SUFFICES ASSUME cancels = 0 
               PROVE  RunWaitedFor' /\ Committed' /\ NothingLeft' /\ LossNeedsPermanentFailure'
    BY <1>1 DEF Uncancelled
  <2>1. RunWaitedFor'
    BY <1>1, <1>3, <1>4, Names DEF Uncancelled, RunWaitedFor, PastWait
  <2>2. Committed'
    BY <1>1, <1>4 DEF Uncancelled, Committed
  <2>3. NothingLeft'
    BY <1>1, <1>4, Names DEF Uncancelled, NothingLeft, Holding
  <2> QED BY <1>1, <2>1, <2>2, <2>3 DEF Uncancelled, LossNeedsPermanentFailure
<1> QED BY <1>5, <1>6, <1>7, <1>8, <1>9, <1>10

LEMMA AcquireKeeps ==
  ASSUME IInv, NEW p \in Coroutines, Acquire(p)
  PROVE  IInv'
<1> USE DEF IInv
<1>1. /\ pc[p] = "lock" /\ lock = NoOne /\ lock' = p
      /\ UNCHANGED <<queue, put, dropped, started, running, stopping, drainDone, batch,
                     retries, inserts, raising, lost, rows, published,
                     insertFaults, connectFaults, cancels>>
  BY DEF Acquire, flags, faults
<1>2. /\ pc' \in [Coroutines -> Labels] /\ pc'[p] = "drain"
      /\ \A q \in Coroutines \ {p} : pc'[q] = pc[q]
  BY GoToMoves DEF Acquire, Labels
<1>3. TypeOK'
  BY <1>1, <1>2 DEF TypeOK, Accepted, Inserts
<1>4. PlacesAgree' /\ LockAgrees'
  BY Names, <1>1, <1>2 DEF PlacesAgree, LockAgrees, Flushing
<1>5. InsertsAgree'
  BY <1>1, <1>2 DEF InsertsAgree
<1>6. BatchesFilled' /\ StopSeen' /\ RetriesCounted'
  BY <1>1, <1>2, Names DEF BatchesFilled, StopSeen, RetriesCounted, Flushing
<1>7. Faultless'
  <2>1. \A q \in Coroutines : Held(q)' = Held(q)
    BY <1>1, <1>2 DEF Held, Holding
  <2> QED BY <1>1, <1>2, <2>1 DEF Faultless, CancelPreserves
<1>8. Uncancelled'
  <2> SUFFICES ASSUME cancels = 0 
               PROVE  RunWaitedFor' /\ Committed' /\ NothingLeft' /\ LossNeedsPermanentFailure'
    BY <1>1 DEF Uncancelled
  <2>1. RunWaitedFor'
    BY <1>1, <1>2, Names DEF Uncancelled, RunWaitedFor, PastWait
  <2>2. Committed'
    BY <1>1, <1>2 DEF Uncancelled, Committed
  <2>3. NothingLeft'
    BY <1>1, <1>2, Names DEF Uncancelled, NothingLeft, Holding
  <2> QED BY <1>1, <2>1, <2>2, <2>3 DEF Uncancelled, LossNeedsPermanentFailure
<1> QED BY <1>3, <1>4, <1>5, <1>6, <1>7, <1>8

\* The end of _drain_queue.
LEMMA EndDrainMoves ==
  ASSUME IInv, NEW p \in Coroutines, pc[p] \in {"drain", "insert"}, lock = p, EndDrain(p),
         UNCHANGED raising
  PROVE  /\ pc' \in [Coroutines -> Labels] /\ \A q \in Coroutines \ {p} : pc'[q] = pc[q]
         /\ pc'[p] \in {"done", "crashed", "close"} /\ lock' = NoOne
         /\ p = Run => pc'[p] # "close" /\ drainDone' = TRUE
         /\ p # Run => pc'[p] = "close" /\ drainDone' = drainDone
         /\ raising = "nothing" => pc'[p] # "crashed"
<1>1. PICK label \in {"done", "crashed", "close"} :
        /\ GoTo(p, label)
        /\ p = Run => label # "close" /\ drainDone' = TRUE
        /\ p # Run => label = "close" /\ drainDone' = drainDone
        /\ raising = "nothing" => label # "crashed"
        /\ lock' = NoOne
  <2>1. CASE p = Run /\ raising = "error"
    BY <2>1 DEF EndDrain
  <2>2. CASE p = Run /\ raising # "error"
    BY <2>2 DEF EndDrain
  <2>3. CASE p # Run
    BY <2>3 DEF EndDrain
  <2> QED BY <2>1, <2>2, <2>3
<1>2. label \in Labels
  BY DEF Labels
<1> QED BY <1>1, <1>2, GoToMoves DEF IInv

LEMMA EndDrainKeeps ==
  ASSUME IInv, NEW p \in Coroutines, pc[p] \in {"drain", "insert"}, lock = p, EndDrain(p),
         queue' = <<>>, UNCHANGED <<raising, started, running, stopping, cancels>>
  PROVE  /\ PlacesAgree' /\ LockAgrees' /\ StopSeen'
         /\ cancels = 0 /\ (\A t \in inserts' : t.by # NoOne /\ ~ t.wiped)
              => RunWaitedFor' /\ NothingLeft'
<1> USE DEF IInv
<1>1. PlacesAgree' /\ LockAgrees'
  <2>1. PlacesAgree'
    BY EndDrainMoves, Names DEF PlacesAgree
  <2>2. LockAgrees'
    BY EndDrainMoves, Names DEF LockAgrees, Flushing
  <2> QED BY <2>1, <2>2
<1>2. StopSeen'
  BY EndDrainMoves, EmptyQueue, Names DEF StopSeen, PlacesAgree
<1>3. ASSUME cancels = 0, \A t \in inserts' : t.by # NoOne /\ ~ t.wiped
      PROVE  RunWaitedFor' /\ NothingLeft'
  <2>1. p # Run => PastWait /\ pc[Run] \in {"new", "connect", "crashed", "check", "lock", "done"}
    BY <1>3, Names DEF PastWait, Uncancelled, RunWaitedFor
  <2>2. RunWaitedFor'
    BY <1>3, <2>1, EndDrainMoves, Names DEF Uncancelled, RunWaitedFor
  <2>3. NothingLeft'
    BY <2>1, EndDrainMoves, EmptyQueue, Names DEF NothingLeft, Holding
  <2> QED BY <2>2, <2>3
<1> QED BY <1>1, <1>2, <1>3

\* A rollback ends its insert and wipes the others.
LEMMA RollbackWipes ==
  ASSUME TypeOK, InsertsAgree, NEW t \in inserts, Rollback(t)
  PROVE  /\ inserts' \subseteq Inserts
         /\ \A u \in inserts' : u.wiped /\ (t.by \in Coroutines => u.by # t.by)
         /\ \A u \in inserts' : \E v \in inserts \ {t} : u.by = v.by /\ u.batch = v.batch
         /\ \A v \in inserts \ {t} : \E u \in inserts' : u.by = v.by /\ u.batch = v.batch
         /\ \A q \in Coroutines : \A u, w \in inserts' : u.by = q /\ w.by = q => u = w
         /\ insertFaults' = insertFaults + 1 /\ insertFaults' \in 0 .. MaxInsertFaults
         /\ insertFaults \in Nat
<1>1. /\ insertFaults' = insertFaults + 1 /\ insertFaults' \in 0 .. MaxInsertFaults
      /\ insertFaults \in Nat
      /\ inserts' = {[u EXCEPT !.wiped = TRUE] : u \in inserts \ {t}}
  BY ModelBoundsAssumption DEF Rollback, TypeOK
<1> DEFINE W(v) == [v EXCEPT !.wiped = TRUE]
<1>3. \A v \in Inserts : W(v) \in Inserts /\ W(v).by = v.by /\ W(v).batch = v.batch /\ W(v).wiped
  BY DEF Inserts
<1>4. inserts' = {W(u) : u \in inserts \ {t}}
  BY <1>1
<1> HIDE DEF W
<1>5. \A v \in inserts \ {t} : v \in Inserts /\ (t.by \in Coroutines => v.by # t.by)
  BY DEF InsertsAgree, TypeOK
<1>6. \A u \in inserts' : \E v \in inserts \ {t} : u = W(v)
  BY <1>4
<1>7. \A v \in inserts \ {t} : W(v) \in inserts'
  BY <1>4
<1>8. ASSUME NEW q \in Coroutines, NEW u \in inserts', NEW w \in inserts', u.by = q, w.by = q
      PROVE  u = w
  <2>1. PICK x \in inserts \ {t} : u = W(x)
    BY <1>6
  <2>2. PICK y \in inserts \ {t} : w = W(y)
    BY <1>6
  <2>3. x.by = q /\ y.by = q
    BY <1>3, <1>5, <1>8, <2>1, <2>2
  <2> QED BY <2>1, <2>2, <2>3 DEF InsertsAgree
<1>9. /\ inserts' \subseteq Inserts
      /\ \A u \in inserts' : u.wiped /\ (t.by \in Coroutines => u.by # t.by)
  BY <1>3, <1>5, <1>6
<1>10. /\ \A u \in inserts' : \E v \in inserts \ {t} : u.by = v.by /\ u.batch = v.batch
       /\ \A v \in inserts \ {t} : \E u \in inserts' : u.by = v.by /\ u.batch = v.batch
  BY <1>3, <1>5, <1>6, <1>7
<1>11. \A q \in Coroutines : \A u, w \in inserts' : u.by = q /\ w.by = q => u = w
  BY <1>8
<1> QED BY <1>1, <1>9, <1>10, <1>11

\* A failed insert is retried, or its batch is given up.
LEMMA InsertFailsKeeps ==
  ASSUME IInv, NEW p \in Coroutines, InsertFails(p)
  PROVE  IInv'
<1> USE DEF IInv
<1>1. /\ pc[p] = "insert"
      /\ UNCHANGED <<put, dropped, started, stopping, raising, rows,
                     published, connectFaults, cancels>>
  BY DEF InsertFails
<1>2. PICK t \in inserts : t.by = p /\ Rollback(t)
  BY DEF InsertFails
<1>3. /\ inserts' \subseteq Inserts
      /\ \A u \in inserts' : u.by # p /\ u.wiped
      /\ \A u \in inserts' : \E v \in inserts \ {t} : u.by = v.by /\ u.batch = v.batch
      /\ \A v \in inserts \ {t} : \E u \in inserts' : u.by = v.by /\ u.batch = v.batch
      /\ \A q \in Coroutines : \A u, w \in inserts' : u.by = q /\ w.by = q => u = w
      /\ insertFaults' = insertFaults + 1 /\ insertFaults' \in 0 .. MaxInsertFaults
      /\ insertFaults \in Nat
  BY <1>2, RollbackWipes
<1>4. insertFaults' # 0
  BY <1>3
<1>5. Faultless'
  BY <1>4 DEF Faultless
<1>6. cancels = 0 => inserts' = {}
  <2>1. ASSUME cancels = 0, NEW u \in inserts' PROVE FALSE
    <3>1. PICK v \in inserts \ {t} : u.by = v.by
      BY <1>3
    <3>2. v.by \in Coroutines /\ v.by # p
      BY <2>1, <3>1, <1>3 DEF Uncancelled, RunWaitedFor, TypeOK, Inserts
    <3>3. pc[v.by] \in {"insert", "shielded"}
      BY <3>2 DEF InsertsAgree
    <3> QED BY <1>1, <2>1, <3>2, <3>3, OneFlushes DEF Flushing
  <2> QED BY <2>1
<1>7. cancels = 0 /\ ShuttingDown => stopping
  <2>1. p \in Stoppers => stopping
    BY <1>1 DEF StopSeen
  <2>2. p = Run /\ cancels = 0 => started
    BY <1>1 DEF Uncancelled, RunWaitedFor
  <2> QED BY <2>1, <2>2, Names DEF ShuttingDown, Uncancelled, RunWaitedFor
<1>8. cancels = 0 => rows = published /\ \A q \in Coroutines \ {p} : pc[q] # "publish"
  <2>1. cancels = 0 => \A q \in Coroutines \ {p} : pc[q] # "publish"
    BY <1>1, OneFlushes DEF Flushing
  <2> QED BY <1>1, <2>1 DEF Uncancelled, Committed
<1>9. ASSUME NEW label \in {"backoff", "lastBackoff"}, GoTo(p, label),
             retries' = retries \/
               (RetriesLeft(p) /\ retries' = [retries EXCEPT ![p] = @ + 1]),
             UNCHANGED <<batch, lost, queue, running, drainDone, lock>>
      PROVE  IInv'
  <2> USE <1>1
  <2>1. /\ pc' \in [Coroutines -> Labels] /\ pc'[p] = label
        /\ \A q \in Coroutines \ {p} : pc'[q] = pc[q]
    BY <1>9, GoToMoves DEF Labels
  <2>2. /\ retries' \in [Coroutines -> 0 .. MaxShutdownRetries]
        /\ \A q \in Coroutines : retries'[q] <= retries[q] + 1
    <3>1. \A q \in Coroutines : retries[q] \in 0 .. MaxShutdownRetries
      BY DEF TypeOK
    <3>2. CASE retries' = retries
      BY <3>1, <3>2, SizesAssumption DEF TypeOK
    <3>3. CASE RetriesLeft(p) /\ retries' = [retries EXCEPT ![p] = @ + 1]
      <4>1. retries[p] + 1 \in 0 .. MaxShutdownRetries
        BY <3>1, <3>3, SizesAssumption DEF RetriesLeft
      <4> QED BY <3>1, <3>3, <4>1 DEF TypeOK
    <3> QED BY <1>9, <3>2, <3>3
  <2>3. TypeOK'
    BY <1>3, <1>9, <2>1, <2>2 DEF TypeOK, Accepted, Inserts
  <2>4. PlacesAgree' /\ LockAgrees'
    BY <1>9, <2>1, Names DEF PlacesAgree, LockAgrees, Flushing
  <2>5. InsertsAgree'
    <3>1. \A u \in inserts' : u.by \in Coroutines =>
            /\ u.by # p /\ pc'[u.by] = pc[u.by] /\ batch'[u.by] = batch[u.by]
            /\ pc[u.by] \in {"insert", "shielded"} /\ u.batch = batch[u.by]
      BY <1>3, <1>9, <2>1 DEF InsertsAgree
    <3>2. \A q \in Coroutines : pc'[q] \in {"insert", "shielded"} => \E u \in inserts' : u.by = q
      BY <1>2, <1>3, <2>1 DEF InsertsAgree
    <3> QED BY <1>3, <3>1, <3>2 DEF InsertsAgree
  <2>6. BatchesFilled' /\ StopSeen'
    BY <1>9, <2>1, Names DEF BatchesFilled, StopSeen, Flushing
  <2>7. RetriesCounted'
    <3>1. \A q \in Coroutines : retries[q] \in Nat /\ retries'[q] \in Nat /\ retries[q] <= insertFaults
      BY <2>2, SizesAssumption DEF TypeOK, RetriesCounted
    <3> QED BY <1>3, <2>2, <3>1 DEF RetriesCounted
  <2>8. Uncancelled'
    <3> SUFFICES ASSUME cancels = 0 
                 PROVE  RunWaitedFor' /\ Committed' /\ NothingLeft' /\ LossNeedsPermanentFailure'
      BY DEF Uncancelled
    <3>1. RunWaitedFor'
      BY <1>6, <1>9, <2>1, Names DEF Uncancelled, RunWaitedFor, PastWait
    <3>2. Committed'
      BY <1>8, <2>1 DEF Committed
    <3>3. NothingLeft'
      BY <1>9, <2>1, Names DEF Uncancelled, NothingLeft, Holding
    <3>4. LossNeedsPermanentFailure'
      BY <1>3, <1>9, SizesAssumption DEF Uncancelled, LossNeedsPermanentFailure
    <3> QED BY <3>1, <3>2, <3>3, <3>4
  <2> QED BY <1>5, <2>3, <2>4, <2>5, <2>6, <2>7, <2>8
<1>10. ASSUME ShuttingDown, ~ RetriesLeft(p), UNCHANGED retries,
              batch' = [batch EXCEPT ![p] = <<>>],
              \/ /\ lock = p /\ queue' = <<>> /\ EndDrain(p) /\ UNCHANGED running
                 /\ lost' = lost \cup ToSet(batch[p]) \cup ToSet(EntriesOf(queue))
              \/ /\ lock # p /\ running' = FALSE /\ GoTo(p, "lock")
                 /\ lost' = lost \cup ToSet(batch[p])
                 /\ UNCHANGED <<queue, drainDone, lock>>
       PROVE  IInv'
  <2> USE <1>1
  <2>1. /\ pc' \in [Coroutines -> Labels] /\ pc'[p] \in {"lock", "done", "crashed", "close"}
        /\ \A q \in Coroutines \ {p} : pc'[q] = pc[q]
    BY <1>10, EndDrainMoves, GoToMoves DEF Labels
  <2>2. /\ batch' \in [Coroutines -> Seq(Accepted)]
        /\ \A q \in Coroutines \ {p} : batch'[q] = batch[q]
    BY <1>10, EmptySeq DEF TypeOK
  <2>3. lost' \subseteq Accepted
    <3>1. ToSet(batch[p]) \subseteq Accepted
      BY LenProperties, ElementOfSeq DEF TypeOK, ToSet
    <3>2. EntriesOf(queue) \in Seq((Accepted \cup {Sentinel}) \ {Sentinel})
      BY EntriesAreItems DEF TypeOK
    <3>3. ToSet(EntriesOf(queue)) \subseteq Accepted
      BY <3>2, LenProperties, ElementOfSeq DEF ToSet
    <3> QED BY <1>10, <3>1, <3>3 DEF TypeOK
  <2>4. /\ queue' \in Seq(Accepted \cup {Sentinel}) /\ Len(queue') <= QueueMaxSize
        /\ Sentinel \in ToSet(queue') => Sentinel \in ToSet(queue)
        /\ running' \in BOOLEAN /\ drainDone' \in BOOLEAN /\ lock' \in Coroutines \cup {NoOne}
    <3>1. CASE lock = p
      <4>1. /\ queue' = <<>> /\ queue' \in Seq(Accepted \cup {Sentinel}) /\ Len(queue') = 0
            /\ ToSet(queue') = {}
        BY <1>10, <3>1, EmptyQueue
      <4>2. 0 <= QueueMaxSize
        BY SizesAssumption
      <4>3. running' = running /\ drainDone' \in BOOLEAN /\ lock' = NoOne
        BY <1>10, <3>1, EndDrainMoves DEF TypeOK
      <4> QED BY <4>1, <4>2, <4>3 DEF TypeOK
    <3>2. CASE lock # p
      BY <1>10, <3>2 DEF TypeOK
    <3> QED BY <3>1, <3>2
  <2>5. TypeOK'
    BY <1>3, <1>10, <2>1, <2>2, <2>3, <2>4 DEF TypeOK, Accepted, Inserts
  <2>6. PlacesAgree' /\ LockAgrees'
    <3>1. CASE lock = p
      BY <1>10, <3>1, EndDrainKeeps
    <3>2. CASE lock # p
      <4>1. pc'[p] = "lock" /\ p = Run
        BY <1>10, <3>2, GoToMoves, Names DEF LockAgrees, Flushing, Labels
      <4> QED BY <1>10, <2>1, <3>2, <4>1, Names DEF PlacesAgree, LockAgrees, Flushing
    <3> QED BY <3>1, <3>2
  <2>7. InsertsAgree'
    <3>1. \A u \in inserts' : u.by \in Coroutines =>
            /\ u.by # p /\ pc'[u.by] = pc[u.by] /\ batch'[u.by] = batch[u.by]
            /\ pc[u.by] \in {"insert", "shielded"} /\ u.batch = batch[u.by]
      BY <1>3, <2>1, <2>2 DEF InsertsAgree
    <3>2. \A q \in Coroutines : pc'[q] \in {"insert", "shielded"} => \E u \in inserts' : u.by = q
      BY <1>2, <1>3, <2>1 DEF InsertsAgree
    <3> QED BY <1>3, <3>1, <3>2 DEF InsertsAgree
  <2>8. BatchesFilled' /\ StopSeen'
    BY <2>1, <2>2, <2>4, Names DEF BatchesFilled, StopSeen, Flushing
  <2>9. RetriesCounted'
    <3>1. \A q \in Coroutines : retries[q] \in Nat /\ retries[q] <= insertFaults
      BY SizesAssumption DEF TypeOK, RetriesCounted
    <3> QED BY <1>3, <1>10, <3>1 DEF RetriesCounted
  <2>10. Uncancelled'
    <3> SUFFICES ASSUME cancels = 0 
                 PROVE  RunWaitedFor' /\ Committed' /\ NothingLeft' /\ LossNeedsPermanentFailure'
      BY DEF Uncancelled
    <3>1. RunWaitedFor' /\ NothingLeft'
      <4>1. CASE lock = p
        BY <1>6, <1>10, <4>1, EndDrainKeeps
      <4>2. CASE lock # p
        <5>1. pc'[p] = "lock" /\ p = Run
          BY <1>10, <4>2, GoToMoves, Names DEF LockAgrees, Flushing, Labels
        <5>2. RunWaitedFor'
          BY <1>6, <1>7, <1>10, <2>1, <4>2, <5>1, Names DEF Uncancelled, RunWaitedFor, PastWait
        <5>3. NothingLeft'
          BY <1>10, <2>1, <4>2, <5>1, Names DEF Uncancelled, NothingLeft, Holding
        <5> QED BY <5>2, <5>3
      <4> QED BY <4>1, <4>2
    <3>2. Committed'
      BY <1>8, <2>1 DEF Committed
    <3>3. LossNeedsPermanentFailure'
      <4>1. retries[p] \in Nat /\ retries[p] <= insertFaults
        BY SizesAssumption DEF TypeOK, RetriesCounted
      <4>2. insertFaults' >= MaxShutdownRetries
        BY <1>3, <1>10, <4>1, SizesAssumption DEF RetriesLeft
      <4> QED BY <1>7, <1>10, <4>2 DEF LossNeedsPermanentFailure
    <3> QED BY <3>1, <3>2, <3>3
  <2> QED BY <1>5, <2>5, <2>6, <2>7, <2>8, <2>9, <2>10
<1> QED BY <1>9, <1>10 DEF InsertFails

\* What _drain_queue takes from the front of the queue.
LEMMA DrainTakes ==
  ASSUME TypeOK, NEW n \in DOMAIN queue
  PROVE  \E taken \in Seq(Accepted), rest \in Seq(Accepted \cup {Sentinel}) :
           /\ taken = EntriesOf(SubSeq(queue, 1, n))
           /\ rest = SubSeq(queue, n + 1, Len(queue)) /\ Len(rest) <= QueueMaxSize
           /\ ToSet(rest) \subseteq ToSet(queue)
           /\ ToSet(queue) \ {Sentinel} \subseteq ToSet(taken) \cup ToSet(rest)
           /\ EntriesOf(queue) = taken \o EntriesOf(rest)
           /\ EntriesOf(queue) = <<>> => taken = <<>> /\ EntriesOf(rest) = <<>>
<1>0. PICK S : S = Accepted \cup {Sentinel}
  OBVIOUS
<1>1. PICK front, rest \in Seq(S) : CutInto(queue, n, front, rest)
  <2>1. queue \in Seq(S)
    BY <1>0 DEF TypeOK
  <2>2. n \in 1 .. Len(queue)
    BY <2>1, LenProperties
  <2> QED BY ONLY <2>1, <2>2, QueueCut
<1>2. PICK taken : taken = EntriesOf(front)
  OBVIOUS
<1>3. /\ EntriesOf(front) \in Seq(S \ {Sentinel}) /\ EntriesOf(rest) \in Seq(S \ {Sentinel})
      /\ ToSet(EntriesOf(front)) = ToSet(front) \ {Sentinel}
  BY <1>1, EntriesAreItems
<1>4. S \ {Sentinel} \subseteq Accepted
  BY <1>0
<1>5. taken \in Seq(Accepted)
  BY <1>3, <1>2, <1>4, SeqMonotonic
<1>6. Len(rest) <= QueueMaxSize
  <2>1. Len(rest) \in Nat /\ Len(queue) \in Nat
    BY LenProperties DEF TypeOK
  <2> QED BY <1>1, <2>1, SizesAssumption DEF TypeOK, CutInto
<1>7. EntriesOf(queue) = <<>> => taken = <<>> /\ EntriesOf(rest) = <<>>
  <2>1. EntriesOf(front) \o EntriesOf(rest) = <<>>
          => EntriesOf(front) = <<>> /\ EntriesOf(rest) = <<>>
    BY ONLY <1>3, ConcatEqualIffEmpty
  <2> QED BY <1>1, <1>2, <2>1 DEF CutInto
<1> QED BY <1>0, <1>1, <1>2, <1>3, <1>5, <1>6, <1>7 DEF CutInto

LEMMA DrainKeeps ==
  ASSUME IInv, NEW p \in Coroutines, Drain(p)
  PROVE  IInv'
<1> USE DEF IInv
<1>1. /\ pc[p] = "drain" /\ lock = p
      /\ UNCHANGED <<put, dropped, started, running, stopping, raising, rows,
                     lost, published, insertFaults, connectFaults, cancels>>
  BY Names DEF Drain, faults, LockAgrees
<1>2. ASSUME queue = <<>>, EndDrain(p), UNCHANGED <<queue, batch, retries, inserts>>
      PROVE  IInv'
  <2> USE <1>1, <1>2
  <2>1. /\ pc' \in [Coroutines -> Labels] /\ pc'[p] \in {"done", "crashed", "close"}
        /\ \A q \in Coroutines \ {p} : pc'[q] = pc[q]
        /\ lock' = NoOne /\ drainDone' \in BOOLEAN
    BY EndDrainMoves DEF TypeOK
  <2>2. TypeOK'
    BY <2>1 DEF TypeOK, Accepted, Inserts
  <2>3. PlacesAgree' /\ LockAgrees' /\ StopSeen'
    BY EndDrainKeeps
  <2>4. InsertsAgree' /\ BatchesFilled' /\ RetriesCounted'
    BY <2>1 DEF InsertsAgree, BatchesFilled, RetriesCounted, Flushing
  <2>5. Faultless'
    <3>1. \A q \in Coroutines : Held(q)' = Held(q)
      BY <2>1 DEF Held, Holding
    <3> QED BY <2>1, <3>1 DEF Faultless, CancelPreserves
  <2>6. Uncancelled'
    <3>1. cancels = 0 => RunWaitedFor' /\ NothingLeft'
      BY EndDrainKeeps DEF Uncancelled, RunWaitedFor
    <3>2. cancels = 0 => Committed'
      BY <2>1 DEF Uncancelled, Committed
    <3> QED BY <3>1, <3>2 DEF Uncancelled, LossNeedsPermanentFailure
  <2> QED BY <2>2, <2>3, <2>4, <2>5, <2>6
<1>3. ASSUME NEW n \in DOMAIN queue, NEW taken, taken = EntriesOf(SubSeq(queue, 1, n)),
             queue' = SubSeq(queue, n + 1, Len(queue)),
             IF taken = <<>> THEN UNCHANGED <<pc, batch, retries, inserts>>
                             ELSE StartInsert(p, taken),
             UNCHANGED <<lock, drainDone>>
      PROVE  IInv'
  <2> USE <1>1, <1>3
  <2>1. /\ taken \in Seq(Accepted)
        /\ queue' \in Seq(Accepted \cup {Sentinel}) /\ Len(queue') <= QueueMaxSize
        /\ ToSet(queue') \subseteq ToSet(queue)
        /\ ToSet(queue) \ {Sentinel} \subseteq ToSet(taken) \cup ToSet(queue')
        /\ EntriesOf(queue) = <<>> => taken = <<>> /\ EntriesOf(queue') = <<>>
    BY DrainTakes
  <2>2. /\ pc' \in [Coroutines -> Labels] /\ batch' \in [Coroutines -> Seq(Accepted)]
        /\ retries' \in [Coroutines -> 0 .. MaxShutdownRetries] /\ inserts' \subseteq Inserts
        /\ pc'[p] = IF taken = <<>> THEN "drain" ELSE "insert"
        /\ taken # <<>> => batch'[p] = taken
        /\ \A q \in Coroutines \ {p} : pc'[q] = pc[q] /\ batch'[q] = batch[q]
        /\ \A t \in inserts' : t \in inserts \/ (t.by = p /\ ~ t.wiped)
        /\ inserts \subseteq inserts'
    <3>1. CASE taken = <<>>
      BY <3>1 DEF TypeOK
    <3>2. CASE taken # <<>>
      <4>1. PICK new : new = Insert(p, taken)
        OBVIOUS
      <4>2. new.by = p /\ ~ new.wiped
        BY <4>1 DEF Insert
      <4>3. StartInsert(p, taken)
        BY <3>2
      <4>4. inserts' = inserts \cup {new} /\ new \in Inserts
        BY <2>1, <4>1, <4>3, StartInsertMoves
      <4>5. inserts' \subseteq Inserts
        BY <4>4 DEF TypeOK
      <4>6. /\ pc' \in [Coroutines -> Labels] /\ pc'[p] = "insert"
            /\ \A q \in Coroutines \ {p} : pc'[q] = pc[q]
            /\ batch' \in [Coroutines -> Seq(Accepted)] /\ batch'[p] = taken
            /\ \A q \in Coroutines \ {p} : batch'[q] = batch[q]
            /\ retries' \in [Coroutines -> 0 .. MaxShutdownRetries]
        BY <2>1, <4>3, StartInsertMoves
      <4> QED BY <3>2, <4>2, <4>4, <4>5, <4>6
    <3> QED BY <3>1, <3>2
  <2>3. TypeOK'
    BY <2>1, <2>2 DEF TypeOK, Accepted, Inserts
  <2>4. PlacesAgree' /\ LockAgrees'
    BY <2>2, Names DEF PlacesAgree, LockAgrees, Flushing
  <2>5. InsertsAgree' /\ BatchesFilled' /\ RetriesCounted'
    <3>1. CASE taken = <<>>
      BY <3>1 DEF InsertsAgree, BatchesFilled, RetriesCounted
    <3>2. CASE taken # <<>>
      BY <2>1, <3>2, StartInsertKeeps
    <3> QED BY <3>1, <3>2
  <2>6. StopSeen'
    BY <2>1, <2>2, Names DEF StopSeen
  <2>7. Faultless'
    <3>1. \A q \in Coroutines \ {p} : Held(q)' = Held(q)
      BY <2>2 DEF Held
    <3>2. Held(p) = <<>> /\ ToSet(Held(p)) = {} /\ (taken # <<>> => Held(p)' = taken)
      BY <2>2, EmptyQueue DEF Held, Holding
    <3>3. insertFaults = 0 => CancelPreserves'
      <4> SUFFICES ASSUME insertFaults = 0, NEW e \in 1 .. put
                   PROVE  \/ e \in ToSet(queue') \cup ToSet(rows) \cup dropped
                          \/ \E q \in Coroutines : e \in ToSet(Held(q)')
                          \/ \E t \in inserts' : e \in ToSet(t.batch)
        BY DEF CancelPreserves
      <4>1. e # Sentinel
        BY Names DEF TypeOK
      <4>2. \/ e \in ToSet(queue) \cup ToSet(rows) \cup dropped
            \/ \E q \in Coroutines : e \in ToSet(Held(q))
            \/ \E t \in inserts : e \in ToSet(t.batch)
        BY DEF Faultless, CancelPreserves
      <4>3. e \in ToSet(taken) => e \in ToSet(Held(p)')
        BY <3>2, EmptyQueue
      <4> QED BY <2>1, <2>2, <3>1, <3>2, <4>1, <4>2, <4>3
    <3> QED BY <2>2, <3>3 DEF Faultless
  <2>8. Uncancelled'
    <3>1. cancels = 0 => RunWaitedFor'
      BY <2>2, Names DEF Uncancelled, RunWaitedFor, PastWait
    <3>2. cancels = 0 => Committed'
      BY <2>2 DEF Uncancelled, Committed
    <3>3. cancels = 0 => NothingLeft'
      BY <2>1, <2>2, Names DEF Uncancelled, NothingLeft, Holding
    <3> QED BY <3>1, <3>2, <3>3 DEF Uncancelled, LossNeedsPermanentFailure
  <2> QED BY <2>3, <2>4, <2>5, <2>6, <2>7, <2>8
<1> QED BY <1>2, <1>3 DEF Drain

LEMMA StopKeeps ==
  ASSUME IInv, NEW s \in Stoppers, Stop(s)
  PROVE  IInv'
<1> USE DEF IInv
<1>1. /\ pc[s] = "idle" /\ stopping' = TRUE
      /\ UNCHANGED <<put, dropped, started, running, drainDone, lock, batch, retries,
                     inserts, raising, rows, lost, published,
                     insertFaults, connectFaults, cancels>>
  BY DEF Stop, faults
<1>2. /\ pc' \in [Coroutines -> Labels] /\ pc'[s] = "yield"
      /\ \A q \in Coroutines \ {s} : pc'[q] = pc[q]
  BY Names, GoToMoves DEF Stop, Labels
<1>3. /\ queue' \in Seq(Accepted \cup {Sentinel}) /\ Len(queue') <= QueueMaxSize
      /\ ToSet(queue) \subseteq ToSet(queue') /\ EntriesOf(queue') = EntriesOf(queue)
  <2>1. CASE HasRoom
    <3>1. queue' = Append(queue, Sentinel) /\ Len(queue) < QueueMaxSize
      BY <2>1 DEF HasRoom, Stop
    <3>2. /\ queue' \in Seq(Accepted \cup {Sentinel}) /\ Len(queue') = Len(queue) + 1
          /\ ToSet(queue) \subseteq ToSet(queue') /\ EntriesOf(queue') = EntriesOf(queue)
      BY <3>1, QueueAppend DEF TypeOK, IsEntry
    <3>3. Len(queue) + 1 <= QueueMaxSize
      BY <3>1, LenProperties, SizesAssumption DEF TypeOK
    <3> QED BY <3>2, <3>3
  <2>2. CASE ~ HasRoom
    BY <2>2 DEF Stop, TypeOK
  <2> QED BY <2>1, <2>2
<1>4. TypeOK'
  BY <1>1, <1>2, <1>3 DEF TypeOK, Accepted, Inserts
<1>5. PlacesAgree' /\ LockAgrees'
  BY Names, <1>1, <1>2 DEF PlacesAgree, LockAgrees, Flushing
<1>6. InsertsAgree'
  BY Names, <1>1, <1>2 DEF InsertsAgree
<1>7. BatchesFilled' /\ StopSeen' /\ RetriesCounted'
  BY <1>1, <1>2, Names DEF BatchesFilled, StopSeen, RetriesCounted, Flushing
<1>8. Faultless'
  <2>1. \A q \in Coroutines : Held(q)' = Held(q)
    BY <1>1, <1>2, Names DEF Held, Holding
  <2> QED BY <1>1, <1>2, <1>3, <2>1, Names DEF Faultless, CancelPreserves
<1>9. Uncancelled'
  <2>1. cancels = 0 => RunWaitedFor'
    BY <1>1, <1>2, Names DEF Uncancelled, RunWaitedFor, PastWait
  <2>2. cancels = 0 => Committed'
    BY <1>1, <1>2, Names DEF Uncancelled, Committed
  <2>3. cancels = 0 => NothingLeft'
    BY <1>1, <1>2, <1>3, Names DEF Uncancelled, NothingLeft
  <2> QED BY <1>1, <2>1, <2>2, <2>3 DEF Uncancelled, LossNeedsPermanentFailure
<1> QED BY <1>4, <1>5, <1>6, <1>7, <1>8, <1>9

LEMMA StopStepKeeps ==
  ASSUME IInv, NEW s \in Stoppers, StopStep(s)
  PROVE  IInv'
<1> USE DEF IInv
<1>1. UNCHANGED <<queue, put, dropped, started, running, stopping, drainDone, lock, batch,
                  retries, inserts, raising, rows, lost, published,
                  insertFaults, connectFaults, cancels>>
  BY DEF StopStep, flags, faults
<1>2. /\ pc' \in [Coroutines -> Labels]
      /\ \A q \in Coroutines \ {s} : pc'[q] = pc[q]
      /\ \/ pc[s] = "yield" /\ pc'[s] = IF started THEN "wait" ELSE "lock"
         \/ pc[s] = "wait" /\ drainDone /\ pc'[s] = IF queue = <<>> THEN "close" ELSE "lock"
         \/ pc[s] = "close" /\ pc'[s] = "done"
  BY Names, GoToMoves DEF StopStep, Labels
<1>3. TypeOK'
  BY <1>1, <1>2 DEF TypeOK, Accepted, Inserts
<1>4. PlacesAgree' /\ LockAgrees'
  BY Names, <1>1, <1>2 DEF PlacesAgree, LockAgrees, Flushing
<1>5. InsertsAgree'
  BY Names, <1>1, <1>2 DEF InsertsAgree
<1>6. BatchesFilled' /\ StopSeen' /\ RetriesCounted'
  BY <1>1, <1>2, Names DEF BatchesFilled, StopSeen, RetriesCounted, Flushing
<1>7. Faultless'
  <2>1. \A q \in Coroutines : Held(q)' = Held(q)
    BY <1>1, <1>2, Names DEF Held, Holding
  <2> QED BY <1>1, <1>2, <2>1, Names DEF Faultless, CancelPreserves
<1>8. Uncancelled'
  <2>1. cancels = 0 => RunWaitedFor'
    BY <1>1, <1>2, Names DEF Uncancelled, RunWaitedFor, PastWait
  <2>2. cancels = 0 => Committed'
    BY <1>1, <1>2, Names DEF Uncancelled, Committed
  <2>3. cancels = 0 => NothingLeft'
    BY <1>1, <1>2, EmptyQueue, Names DEF Uncancelled, NothingLeft, RunWaitedFor, Holding
  <2> QED BY <1>1, <2>1, <2>2, <2>3 DEF Uncancelled, LossNeedsPermanentFailure
<1> QED BY <1>3, <1>4, <1>5, <1>6, <1>7, <1>8

\* An exception leaves a flush of run().
LEMMA UnwindMoves ==
  ASSUME TypeOK, NEW why \in {"error", "cancelled"}, Unwind(why)
  PROVE  /\ pc' \in [Coroutines -> Labels]
         /\ \A q \in Coroutines \ {Run} : pc'[q] = pc[q]
         /\ pc'[Run] \in {"lock", "done", "crashed"}
         /\ lock = Run => lock' = NoOne
         /\ lock # Run => lock' = lock
         /\ batch' \in [Coroutines -> Seq(Accepted)] /\ batch'[Run] = <<>>
         /\ \A q \in Coroutines \ {Run} : batch'[q] = batch[q]
         /\ running' \in BOOLEAN /\ drainDone' \in BOOLEAN
         /\ raising' \in {"nothing", "error", "cancelled"}
<1>1. /\ batch' \in [Coroutines -> Seq(Accepted)] /\ batch'[Run] = <<>>
      /\ \A q \in Coroutines \ {Run} : batch'[q] = batch[q]
  BY Names, EmptySeq DEF Unwind, TypeOK
<1>2. PICK label \in {"lock", "done", "crashed"} : GoTo(Run, label)
  BY DEF Unwind
<1>3. label \in Labels
  BY DEF Labels
<1> QED BY <1>1, <1>2, <1>3, Names, GoToMoves DEF Unwind, TypeOK

LEMMA UnwindKeeps ==
  ASSUME IInv, NEW why \in {"error", "cancelled"}, Unwind(why), pc[Run] \in Flushing,
         UNCHANGED <<queue, stopping, retries>>, insertFaults' >= insertFaults,
         insertFaults' \in Nat
  PROVE  PlacesAgree' /\ LockAgrees' /\ BatchesFilled' /\ StopSeen' /\ RetriesCounted'
<1> USE DEF IInv
<1>1. PlacesAgree' /\ LockAgrees'
  BY UnwindMoves, Names DEF PlacesAgree, LockAgrees, Flushing
<1>2. BatchesFilled' /\ StopSeen'
  BY UnwindMoves, Names DEF BatchesFilled, StopSeen, Flushing
<1>3. RetriesCounted'
  <2>1. \A q \in Coroutines : retries[q] \in Nat /\ retries[q] <= insertFaults
    BY SizesAssumption DEF TypeOK, RetriesCounted
  <2>2. insertFaults \in Nat
    BY ModelBoundsAssumption DEF TypeOK
  <2> QED BY <2>1, <2>2 DEF RetriesCounted
<1> QED BY <1>1, <1>2, <1>3

\* An insert that is no longer awaited keeps its batch.
LEMMA AbandonedKeep ==
  ASSUME TypeOK, InsertsAgree
  PROVE  /\ Abandoned(Run) \subseteq Inserts
         /\ \A u \in Abandoned(Run) : u.by # Run
         /\ \A u \in Abandoned(Run) : u.by \in Coroutines => u \in inserts
         /\ \A t \in inserts : t.by # Run => t \in Abandoned(Run)
         /\ \A t \in inserts : \E u \in Abandoned(Run) : u.batch = t.batch
         /\ (\A t \in inserts : ~ t.wiped) => \A u \in Abandoned(Run) : ~ u.wiped
<1> DEFINE W(t) == IF t.by = Run THEN [t EXCEPT !.by = NoOne] ELSE t
<1>1. \A t \in Inserts : /\ W(t) \in Inserts /\ W(t).by # Run
                         /\ W(t).by \in Coroutines => W(t) = t
                         /\ t.by # Run => W(t) = t
                         /\ W(t).batch = t.batch /\ W(t).wiped = t.wiped
  BY Names DEF Inserts
<1>2. Abandoned(Run) = {W(t) : t \in inserts}
  BY DEF Abandoned
<1>3. inserts \subseteq Inserts
  BY DEF TypeOK
<1> HIDE DEF W
<1> QED BY <1>1, <1>2, <1>3

LEMMA ShieldedInsertKeeps ==
  ASSUME IInv, ShieldedInsert, cancels' = cancels + 1, cancels' \in 0 .. MaxCancels,
         UNCHANGED <<queue, put, dropped, started, stopping, rows, published,
                     insertFaults, connectFaults>>
  PROVE  IInv'
<1> USE DEF IInv
<1>1. /\ pc[Run] \in {"insert", "backoff"}
      /\ UNCHANGED <<running, drainDone, lock, batch, retries, raising, lost>>
  BY DEF ShieldedInsert
<1>2. PICK again : again = [Insert(Run, batch[Run]) EXCEPT !.after = cancels + 1]
  OBVIOUS
<1>3. /\ again \in Inserts' /\ again.by = Run /\ again.batch = batch[Run] /\ ~ again.wiped
  <2>1. again = [by |-> Run, batch |-> batch[Run], after |-> cancels + 1, wiped |-> FALSE]
    BY <1>2 DEF Insert
  <2>2. cancels + 1 \in 0 .. cancels'
    BY ModelBoundsAssumption DEF TypeOK
  <2>3. batch[Run] \in Seq(Accepted) /\ Accepted' = Accepted
    BY Names DEF TypeOK, Accepted
  <2> QED BY <2>1, <2>2, <2>3, Names DEF Inserts
<1>4. PICK others \in {Abandoned(Run), {t \in inserts : t.by # Run}} :
        inserts' = others \cup {again}
  BY <1>2 DEF ShieldedInsert
<1>5. /\ others \subseteq Inserts
      /\ \A u \in others : u.by # Run
      /\ \A u \in others : u.by \in Coroutines => u \in inserts
      /\ \A t \in inserts : t.by # Run => t \in others
      /\ (\A t \in inserts : ~ t.wiped) => \A u \in others : ~ u.wiped
  BY AbandonedKeep DEF TypeOK
<1>6. /\ pc' \in [Coroutines -> Labels] /\ pc'[Run] = "shielded"
      /\ \A q \in Coroutines \ {Run} : pc'[q] = pc[q]
  BY Names, GoToMoves DEF ShieldedInsert, Labels
<1>7. TypeOK'
  <2>1. cancels \in Nat /\ Inserts \subseteq Inserts'
    BY ModelBoundsAssumption DEF TypeOK, Inserts, Accepted
  <2> QED BY <1>1, <1>3, <1>4, <1>5, <1>6, <2>1 DEF TypeOK, Accepted
<1>8. PlacesAgree' /\ LockAgrees'
  BY <1>1, <1>6, Names DEF PlacesAgree, LockAgrees, Flushing
<1>9. InsertsAgree'
  BY <1>1, <1>3, <1>4, <1>5, <1>6, Names DEF InsertsAgree
<1>10. BatchesFilled' /\ StopSeen' /\ RetriesCounted'
  BY <1>1, <1>6, Names DEF BatchesFilled, StopSeen, RetriesCounted, Flushing
<1>11. Faultless'
  <2>1. \A q \in Coroutines : Held(q)' = Held(q)
    BY <1>1, <1>6 DEF Held, Holding
  <2>2. insertFaults = 0 => CancelPreserves'
    <3>1. \A t \in inserts : \E u \in inserts' : u.batch = t.batch
      BY <1>3, <1>4, <1>5, Names DEF InsertsAgree
    <3> QED BY <2>1, <3>1 DEF Faultless, CancelPreserves
  <2> QED BY <1>3, <1>4, <1>5, <1>6, <2>2, Names DEF Faultless
<1>12. Uncancelled'
  <2>1. cancels' # 0
    BY ModelBoundsAssumption DEF TypeOK
  <2> QED BY <2>1 DEF Uncancelled
<1> QED BY <1>7, <1>8, <1>9, <1>10, <1>11, <1>12

\* The other cancellations of a flush.
LEMMA FlushUnwindKeeps ==
  ASSUME IInv, Unwind("cancelled"), pc[Run] \in {"lastBackoff", "shielded", "publish"},
         lost' = IF pc[Run] = "lastBackoff" THEN lost \cup ToSet(batch[Run]) ELSE lost,
         inserts' = IF pc[Run] = "shielded" THEN Abandoned(Run) ELSE inserts,
         cancels' = cancels + 1, cancels' \in 0 .. MaxCancels,
         UNCHANGED <<queue, put, dropped, started, stopping, retries, rows, published,
                     insertFaults, connectFaults>>
  PROVE  IInv'
<1> USE DEF IInv
<1>1. /\ inserts' \subseteq Inserts
      /\ \A u \in inserts' : u.by # Run
      /\ \A u \in inserts' : u.by \in Coroutines => u \in inserts
      /\ \A t \in inserts : t.by # Run => t \in inserts'
      /\ \A t \in inserts : \E u \in inserts' : u.batch = t.batch
      /\ (\A t \in inserts : ~ t.wiped) => \A u \in inserts' : ~ u.wiped
  <2>1. CASE pc[Run] = "shielded"
    BY <2>1, AbandonedKeep
  <2>2. CASE pc[Run] # "shielded"
    BY <2>2, Names DEF TypeOK, InsertsAgree
  <2> QED BY <2>1, <2>2
<1>2. /\ pc' \in [Coroutines -> Labels]
      /\ \A q \in Coroutines \ {Run} : pc'[q] = pc[q] /\ batch'[q] = batch[q]
      /\ pc'[Run] \in {"lock", "done", "crashed"}
      /\ lock' \in Coroutines \cup {NoOne}
      /\ batch' \in [Coroutines -> Seq(Accepted)]
      /\ running' \in BOOLEAN /\ drainDone' \in BOOLEAN
      /\ raising' \in {"nothing", "error", "cancelled"}
  BY UnwindMoves DEF TypeOK
<1>3. TypeOK'
  <2>1. cancels \in Nat /\ Inserts \subseteq Inserts'
    BY ModelBoundsAssumption DEF TypeOK, Inserts, Accepted
  <2>2. ToSet(batch[Run]) \subseteq Accepted
    BY Names, LenProperties, ElementOfSeq DEF TypeOK, ToSet
  <2> QED BY <1>1, <1>2, <2>1, <2>2 DEF TypeOK, Accepted
<1>4. PlacesAgree' /\ LockAgrees' /\ BatchesFilled' /\ StopSeen' /\ RetriesCounted'
  <2>1. insertFaults \in Nat
    BY ModelBoundsAssumption DEF TypeOK
  <2> QED BY <2>1, UnwindKeeps DEF Flushing
<1>5. InsertsAgree'
  <2> SUFFICES ASSUME NEW q \in Coroutines
               PROVE  /\ pc'[q] \in {"insert", "shielded"} => \E t \in inserts' : t.by = q
                      /\ \A t \in inserts' :
                           t.by = q => pc'[q] \in {"insert", "shielded"} /\ t.batch = batch'[q]
                      /\ \A t, u \in inserts' : t.by = q /\ u.by = q => t = u
    BY DEF InsertsAgree
  <2>1. CASE q = Run
    BY <1>1, <1>2, <2>1
  <2>2. CASE q # Run
    <3>1. \A t \in inserts' : t.by = q => t \in inserts
      BY <1>1
    <3>2. \A t \in inserts : t.by = q => t \in inserts'
      BY <1>1, <2>2
    <3>3. pc'[q] = pc[q] /\ batch'[q] = batch[q]
      BY <1>2, <2>2
    <3>4. /\ pc[q] \in {"insert", "shielded"} => \E t \in inserts : t.by = q
          /\ \A t \in inserts :
               t.by = q => pc[q] \in {"insert", "shielded"} /\ t.batch = batch[q]
          /\ \A t, u \in inserts : t.by = q /\ u.by = q => t = u
      BY DEF InsertsAgree
    <3> QED BY <3>1, <3>2, <3>3, <3>4
  <2> QED BY <2>1, <2>2
<1>6. Faultless'
  <2>1. \A q \in Coroutines \ {Run} : Held(q)' = Held(q)
    BY <1>2 DEF Held
  <2>2. insertFaults = 0 => CancelPreserves'
    <3> SUFFICES ASSUME insertFaults = 0, NEW e \in 1 .. put
                 PROVE  \/ e \in ToSet(queue) \cup ToSet(rows) \cup dropped
                        \/ \E q \in Coroutines : e \in ToSet(Held(q)')
                        \/ \E u \in inserts' : e \in ToSet(u.batch)
      BY DEF CancelPreserves
    <3>1. \/ e \in ToSet(queue) \cup ToSet(rows) \cup dropped
          \/ \E q \in Coroutines : e \in ToSet(Held(q))
          \/ \E t \in inserts : e \in ToSet(t.batch)
      BY DEF Faultless, CancelPreserves
    <3>2. ASSUME e \in ToSet(Held(Run)) PROVE \E u \in inserts' : e \in ToSet(u.batch)
      <4>1. pc[Run] = "shielded"
        BY <3>2, EmptyQueue, Names DEF Held, Holding, Faultless
      <4>2. PICK t \in inserts : t.batch = batch[Run]
        BY <4>1, Names DEF InsertsAgree
      <4> QED BY <1>1, <3>2, <4>1, <4>2 DEF Held, Holding
    <3> QED BY <1>1, <2>1, <3>1, <3>2
  <2> QED BY <1>1, <1>2, <2>2, Names DEF Faultless
<1>7. Uncancelled'
  <2>1. cancels' # 0
    BY ModelBoundsAssumption DEF TypeOK
  <2> QED BY <2>1 DEF Uncancelled
<1> QED BY <1>3, <1>4, <1>5, <1>6, <1>7

LEMMA CancelElsewhereKeeps ==
  ASSUME IInv, CancelElsewhere, cancels' = cancels + 1, cancels' \in 0 .. MaxCancels,
         UNCHANGED <<queue, put, dropped, started, stopping, rows, published,
                     insertFaults, connectFaults>>
  PROVE  IInv'
<1> USE DEF IInv
<1>1. UNCHANGED <<lock, raising, lost>>
  BY DEF CancelElsewhere
<1>2. cancels' # 0 /\ Inserts \subseteq Inserts'
  BY ModelBoundsAssumption DEF TypeOK, Inserts, Accepted
<1>3. Uncancelled'
  BY <1>2 DEF Uncancelled
<1>4. ASSUME NEW label \in {"done", "lock"}, GoTo(Run, label),
             pc[Run] \in {"new", "connect", "crashed", "get", "lock"},
             label = "lock" => pc[Run] = "get",
             running' \in BOOLEAN, drainDone' \in BOOLEAN, UNCHANGED <<batch, retries, inserts>>
      PROVE  IInv'
  <2> USE <1>1, <1>4
  <2>1. /\ pc' \in [Coroutines -> Labels] /\ pc'[Run] = label
        /\ \A q \in Coroutines \ {Run} : pc'[q] = pc[q]
    BY Names, GoToMoves DEF Labels
  <2>2. TypeOK'
    BY <1>2, <2>1 DEF TypeOK, Accepted
  <2>3. PlacesAgree' /\ LockAgrees'
    BY <2>1, Names DEF PlacesAgree, LockAgrees, Flushing
  <2>4. InsertsAgree' /\ BatchesFilled' /\ StopSeen' /\ RetriesCounted'
    BY <2>1, Names DEF InsertsAgree, BatchesFilled, StopSeen, RetriesCounted, Flushing
  <2>5. Faultless'
    <3>1. \A q \in Coroutines : Held(q)' = Held(q)
      BY <2>1 DEF Held, Holding
    <3> QED BY <2>1, <3>1 DEF Faultless, CancelPreserves
  <2> QED BY <1>3, <2>2, <2>3, <2>4, <2>5
<1>5. ASSUME pc[Run] = "collect", StartInsert(Run, batch[Run]), UNCHANGED <<running, drainDone>>
      PROVE  IInv'
  <2> USE <1>1, <1>5
  <2>1. PICK b \in Seq(Accepted) : b = batch[Run] /\ b # <<>>
    BY Names DEF TypeOK, BatchesFilled
  <2>2. /\ pc' \in [Coroutines -> Labels] /\ pc'[Run] = "insert"
        /\ \A p \in Coroutines \ {Run} : pc'[p] = pc[p]
        /\ batch' = batch
        /\ retries' \in [Coroutines -> 0 .. MaxShutdownRetries]
        /\ inserts' = inserts \cup {Insert(Run, b)}
        /\ Insert(Run, b) \in Inserts
    <3>1. batch' = batch
      BY Names DEF StartInsert, TypeOK
    <3> QED BY <2>1, <3>1, StartInsertMoves, Names
  <2>3. ~ Insert(Run, b).wiped
    BY DEF Insert
  <2>4. TypeOK'
    BY <1>2, <2>2 DEF TypeOK, Accepted
  <2>5. PlacesAgree' /\ LockAgrees'
    BY <2>2, Names DEF PlacesAgree, LockAgrees, Flushing
  <2>6. InsertsAgree' /\ BatchesFilled' /\ RetriesCounted'
    BY <2>1, Names, StartInsertKeeps
  <2>7. StopSeen'
    BY <2>2, Names DEF StopSeen
  <2>8. Faultless'
    <3>1. \A p \in Coroutines : Held(p)' = Held(p)
      BY <2>2, Names DEF Held, Holding
    <3>2. insertFaults = 0 => CancelPreserves'
      BY <2>2, <3>1 DEF Faultless, CancelPreserves
    <3> QED BY <2>2, <2>3, <3>2, Names DEF Faultless
  <2> QED BY <1>3, <2>4, <2>5, <2>6, <2>7, <2>8
<1>6. drainDone' \in BOOLEAN /\ running' \in BOOLEAN
  BY DEF CancelElsewhere, TypeOK
<1> QED BY <1>4, <1>5, <1>6 DEF CancelElsewhere

LEMMA CancelKeeps == ASSUME IInv, Cancel PROVE IInv'
<1>1. /\ cancels' = cancels + 1 /\ cancels' \in 0 .. MaxCancels
      /\ UNCHANGED <<queue, put, dropped, started, stopping, rows, published,
                     insertFaults, connectFaults>>
  BY ModelBoundsAssumption DEF Cancel, IInv, TypeOK
<1>2. CASE ShieldedInsert
  BY <1>1, <1>2, ShieldedInsertKeeps
<1>3. CASE /\ pc[Run] \in {"lastBackoff", "shielded", "publish"} /\ Unwind("cancelled")
           /\ lost' = IF pc[Run] = "lastBackoff" THEN lost \cup ToSet(batch[Run]) ELSE lost
           /\ inserts' = IF pc[Run] = "shielded" THEN Abandoned(Run) ELSE inserts
           /\ UNCHANGED retries
  BY <1>1, <1>3, FlushUnwindKeeps
<1>4. CASE CancelElsewhere
  BY <1>1, <1>4, CancelElsewhereKeeps
<1> QED BY <1>2, <1>3, <1>4 DEF Cancel, CancelFlush

LEMMA ShieldedFailsKeeps == ASSUME IInv, ShieldedFails PROVE IInv'
<1> USE DEF IInv
<1>1. /\ pc[Run] = "shielded" /\ Unwind("error") /\ lost' = lost \cup ToSet(batch[Run])
      /\ UNCHANGED <<queue, put, dropped, started, stopping, retries, rows, published,
                     connectFaults, cancels>>
  BY DEF ShieldedFails
<1>2. PICK t \in inserts : t.by = Run /\ Rollback(t)
  BY DEF ShieldedFails
<1>3. /\ inserts' \subseteq Inserts
      /\ \A u \in inserts' : u.by # Run
      /\ \A u \in inserts' : \E v \in inserts \ {t} : u.by = v.by /\ u.batch = v.batch
      /\ \A v \in inserts \ {t} : \E u \in inserts' : u.by = v.by /\ u.batch = v.batch
      /\ \A q \in Coroutines : \A u, w \in inserts' : u.by = q /\ w.by = q => u = w
      /\ insertFaults' = insertFaults + 1 /\ insertFaults' \in 0 .. MaxInsertFaults
      /\ insertFaults \in Nat
  BY <1>2, Names, RollbackWipes
<1>4. /\ pc' \in [Coroutines -> Labels]
      /\ \A q \in Coroutines \ {Run} : pc'[q] = pc[q] /\ batch'[q] = batch[q]
      /\ pc'[Run] \in {"lock", "done", "crashed"}
      /\ lock' \in Coroutines \cup {NoOne}
      /\ batch' \in [Coroutines -> Seq(Accepted)]
      /\ running' \in BOOLEAN /\ drainDone' \in BOOLEAN
      /\ raising' \in {"nothing", "error", "cancelled"}
  BY <1>1, UnwindMoves DEF TypeOK
<1>5. TypeOK'
  <2>1. ToSet(batch[Run]) \subseteq Accepted
    BY Names, LenProperties, ElementOfSeq DEF TypeOK, ToSet
  <2> QED BY <1>1, <1>3, <1>4, <2>1 DEF TypeOK, Accepted, Inserts
<1>6. PlacesAgree' /\ LockAgrees' /\ BatchesFilled' /\ StopSeen' /\ RetriesCounted'
  <2>1. insertFaults' \in Nat /\ insertFaults' >= insertFaults
    BY <1>3
  <2> QED BY <1>1, <2>1, UnwindKeeps DEF Flushing
<1>7. InsertsAgree'
  <2>1. \A u \in inserts' : u.by \in Coroutines =>
          /\ pc'[u.by] = pc[u.by] /\ batch'[u.by] = batch[u.by]
          /\ pc[u.by] \in {"insert", "shielded"} /\ u.batch = batch[u.by]
    BY <1>3, <1>4 DEF InsertsAgree
  <2>2. \A q \in Coroutines : pc'[q] \in {"insert", "shielded"} => \E u \in inserts' : u.by = q
    <3> SUFFICES ASSUME NEW q \in Coroutines \ {Run}, pc[q] \in {"insert", "shielded"}
                 PROVE  \E u \in inserts' : u.by = q
      BY <1>4
    <3>1. PICK v \in inserts : v.by = q
      BY DEF InsertsAgree
    <3> QED BY <1>2, <1>3, <3>1
  <2> QED BY <1>3, <2>1, <2>2 DEF InsertsAgree
<1>8. Faultless'
  BY <1>3 DEF Faultless
<1>9. Uncancelled'
  BY <1>1 DEF Uncancelled, RunWaitedFor
<1> QED BY <1>5, <1>6, <1>7, <1>8, <1>9

LEMMA AbandonedEndsKeeps == ASSUME IInv, AbandonedEnds PROVE IInv'
<1> USE DEF IInv
<1>1. UNCHANGED <<queue, put, dropped, started, running, stopping, drainDone, lock, pc, batch,
                  retries, raising, lost, published, connectFaults, cancels>>
  BY DEF AbandonedEnds, flags
<1>2. PICK t \in inserts :
        /\ t.by = NoOne
        /\ \/ Commit(t) /\ inserts' = inserts \ {t} /\ UNCHANGED insertFaults
           \/ Rollback(t) /\ UNCHANGED rows
  BY DEF AbandonedEnds
<1>3. cancels # 0
  BY <1>2 DEF Uncancelled, RunWaitedFor
<1>4. PlacesAgree' /\ LockAgrees' /\ BatchesFilled' /\ StopSeen' /\ Uncancelled'
  BY <1>1, <1>3 DEF PlacesAgree, LockAgrees, BatchesFilled, StopSeen, Uncancelled
<1>5. \A q \in Coroutines : retries[q] \in Nat /\ retries[q] <= insertFaults
  BY SizesAssumption DEF TypeOK, RetriesCounted
<1>6. ASSUME Commit(t), inserts' = inserts \ {t}, UNCHANGED insertFaults
      PROVE  IInv'
  <2> USE <1>1, <1>6
  <2>1. /\ rows' \in Seq(Accepted) /\ ToSet(rows) \subseteq ToSet(rows')
        /\ ~ t.wiped => ToSet(rows') = ToSet(rows) \cup ToSet(t.batch)
    BY CommitWrites
  <2>2. TypeOK'
    BY <2>1 DEF TypeOK, Accepted, Inserts
  <2>3. InsertsAgree' /\ RetriesCounted'
    BY <1>2, Names DEF InsertsAgree, RetriesCounted
  <2>4. Faultless'
    <3>1. \A q \in Coroutines : Held(q)' = Held(q)
      BY DEF Held
    <3>2. insertFaults = 0 => CancelPreserves'
      BY <2>1, <3>1 DEF Faultless, CancelPreserves
    <3> QED BY <3>2 DEF Faultless
  <2> QED BY <1>4, <2>2, <2>3, <2>4
<1>7. ASSUME Rollback(t), UNCHANGED rows
      PROVE  IInv'
  <2> USE <1>1, <1>7
  <2>1. /\ inserts' \subseteq Inserts
        /\ \A u \in inserts' : \E v \in inserts \ {t} : u.by = v.by /\ u.batch = v.batch
        /\ \A v \in inserts \ {t} : \E u \in inserts' : u.by = v.by /\ u.batch = v.batch
        /\ \A q \in Coroutines : \A u, w \in inserts' : u.by = q /\ w.by = q => u = w
        /\ insertFaults' = insertFaults + 1 /\ insertFaults' \in 0 .. MaxInsertFaults
        /\ insertFaults \in Nat
    BY RollbackWipes
  <2>2. TypeOK'
    BY <2>1 DEF TypeOK, Accepted, Inserts
  <2>3. InsertsAgree'
    <3>1. \A u \in inserts' : u.by \in Coroutines =>
            pc[u.by] \in {"insert", "shielded"} /\ u.batch = batch[u.by]
      BY <2>1 DEF InsertsAgree
    <3>2. \A q \in Coroutines : pc[q] \in {"insert", "shielded"} => \E u \in inserts' : u.by = q
      BY <1>2, <2>1, Names DEF InsertsAgree
    <3> QED BY <2>1, <3>1, <3>2 DEF InsertsAgree
  <2>4. RetriesCounted' /\ Faultless'
    BY <1>5, <2>1 DEF RetriesCounted, Faultless
  <2> QED BY <1>4, <2>2, <2>3, <2>4
<1> QED BY <1>2, <1>6, <1>7

LEMMA NextIInv == ASSUME IInv, [Next]_vars PROVE IInv'
<1>1. CASE UNCHANGED vars
  <2>1. UNCHANGED <<queue, put, dropped, started, running, stopping, drainDone, lock, pc, batch,
                    retries, inserts, raising, rows, lost, published,
                    insertFaults, connectFaults, cancels>>
    BY <1>1 DEF vars, flags, faults
  <2>2. TypeOK'
    BY <2>1 DEF IInv, TypeOK, Accepted, Inserts
  <2>3. PlacesAgree' /\ LockAgrees' /\ InsertsAgree' /\ BatchesFilled'
    BY <2>1 DEF IInv, PlacesAgree, LockAgrees, InsertsAgree, BatchesFilled
  <2>4. StopSeen' /\ RetriesCounted'
    BY <2>1 DEF IInv, StopSeen, RetriesCounted
  <2>5. Faultless'
    BY <2>1 DEF IInv, Faultless, CancelPreserves, Held
  <2>6. Uncancelled'
    BY <2>1 DEF IInv, Uncancelled, RunWaitedFor, PastWait, Committed, NothingLeft,
                LossNeedsPermanentFailure
  <2> QED BY <2>2, <2>3, <2>4, <2>5, <2>6 DEF IInv
<1>2. CASE Put
  BY <1>2, PutKeeps
<1>3. ASSUME NEW p \in Coroutines, Flush(p)
      PROVE  IInv'
  BY <1>3, InsertDoneKeeps, InsertFailsKeeps, PublishKeeps, RetryKeeps, AcquireKeeps, DrainKeeps
     DEF Flush
<1>4. CASE RunStep
  BY <1>3, <1>4, Names, StartKeeps, ConnectKeeps, CheckKeeps, GetKeeps, CollectKeeps,
     ShieldedFailsKeeps DEF RunStep
<1>5. ASSUME NEW s \in Stoppers, Stop(s) \/ StopperStep(s)
      PROVE  IInv'
  BY <1>3, <1>5, Names, StopKeeps, StopStepKeeps DEF StopperStep
<1>6. CASE Cancel
  BY <1>6, CancelKeeps
<1>7. CASE AbandonedEnds
  BY <1>7, AbandonedEndsKeeps
<1>8. CASE Finished
  BY <1>1, <1>8 DEF Finished
<1> QED BY <1>1, <1>2, <1>4, <1>5, <1>6, <1>7, <1>8 DEF Next

-----------------------------------------------------------------------------
\* What follows for every run of the consumer.

THEOREM ConsumerInvariant == Spec => []IInv
<1>1. Init => IInv
  BY InitIInv
<1>2. IInv /\ [Next]_vars => IInv'
  BY NextIInv
<1> QED BY <1>1, <1>2, PTL DEF Spec

\* The queue stays within its bound and nothing is anywhere that was not put
\* (pipeline.py:160-170, 600-646).
THEOREM ConsumerTypes == Spec => []TypeOK
<1>1. IInv => TypeOK
  BY DEF IInv
<1> QED BY <1>1, ConsumerInvariant, PTL

\* While no insert fails, no cancellation of run() loses an entry, wherever it
\* strikes and however often (pipeline.py:666-704).
THEOREM ConsumerCancelPreserves == Spec => []CancelPreserves
<1>1. IInv => CancelPreserves
  BY DEF IInv, Faultless, CancelPreserves
<1> QED BY <1>1, ConsumerInvariant, PTL

\* Until the task of run() is cancelled, run() and any number of calls of stop()
\* never have two inserts on the shared connection (pipeline.py:649-668, 748-781).
THEOREM ConsumerOneInsert == Spec => [](cancels = 0 => OneInsertAtATime)
<1>1. IInv => (cancels = 0 => OneInsertAtATime)
  <2> SUFFICES ASSUME IInv, cancels = 0 PROVE Cardinality(inserts) <= 1
    BY DEF OneInsertAtATime
  <2>1. ASSUME NEW t \in inserts, NEW u \in inserts PROVE t = u
    <3>1. t.by \in Coroutines /\ u.by \in Coroutines
      BY DEF IInv, Uncancelled, RunWaitedFor, TypeOK, Inserts
    <3>2. {pc[t.by], pc[u.by]} \subseteq {"insert", "shielded"}
      BY <3>1 DEF IInv, InsertsAgree
    <3>3. t.by = u.by
      BY <3>1, <3>2, OneFlushes DEF Flushing
    <3> QED BY <3>1, <3>3 DEF IInv, InsertsAgree
  <2>2. CASE inserts = {}
    BY <2>2, FS_EmptySet
  <2>3. ASSUME NEW t \in inserts PROVE Cardinality(inserts) <= 1
    <3>1. inserts = {t}
      BY <2>1
    <3>2. Cardinality({t}) = 1
      BY FS_Singleton
    <3> QED BY <3>1, <3>2
  <2> QED BY <2>2, <2>3
<1> QED BY <1>1, ConsumerInvariant, PTL

\* Until then, what the subscribers were sent is a prefix of the table
\* (pipeline.py:666-711).
THEOREM ConsumerPublishesCommitted == Spec => [](cancels = 0 => PublishedAfterCommit)
<1>1. IInv => (cancels = 0 => PublishedAfterCommit)
  <2> SUFFICES ASSUME IInv, cancels = 0 PROVE IsPrefix(published, rows)
    BY DEF PublishedAfterCommit
  <2>1. \E b \in Seq(Accepted) : rows = published \o b
    <3>1. CASE \A p \in Coroutines : pc[p] # "publish"
      <4>1. rows = published /\ published \o <<>> = published /\ <<>> \in Seq(Accepted)
        BY <3>1, EmptySeq, ConcatEmptySeq DEF IInv, TypeOK, Uncancelled, Committed
      <4> QED BY <4>1
    <3>2. CASE \E p \in Coroutines : pc[p] = "publish"
      BY <3>2 DEF IInv, TypeOK, Uncancelled, Committed
    <3> QED BY <3>1, <3>2
  <2>2. PICK b \in Seq(Accepted) : rows = published \o b
    BY <2>1
  <2>3. published \in Seq(Accepted)
    BY DEF IInv, TypeOK
  <2>4. Len(published) <= Len(rows)
    BY <2>2, <2>3, ConcatProperties, LenProperties
  <2>5. SubSeq(published, 1, Len(published)) = SubSeq(rows, 1, Len(published))
    BY <2>2, <2>3
  <2> QED BY <2>4, <2>5 DEF IsPrefix
<1> QED BY <1>1, ConsumerInvariant, PTL

\* Until then, entries are given up only during shutdown, after
\* MaxShutdownRetries failed inserts (pipeline.py:676-705).
THEOREM ConsumerLosesOnlyToFailure == Spec => [](cancels = 0 => LossNeedsPermanentFailure)
<1>1. IInv => (cancels = 0 => LossNeedsPermanentFailure)
  BY DEF IInv, Uncancelled
<1> QED BY <1>1, ConsumerInvariant, PTL

\* When every one of its calls returned, stop() left no batch in hand, no insert
\* running and no entry in the queue (pipeline.py:748-781).
THEOREM ConsumerStopsDrained ==
  ASSUME Stoppers # {}
  PROVE  Spec => []StoppedMeansDrained
<1>1. IInv => StoppedMeansDrained
  <2> SUFFICES ASSUME IInv, cancels = 0, \A s \in Stoppers : pc[s] = "done"
               PROVE  /\ \A p \in Coroutines : Held(p) = <<>>
                      /\ inserts = {} /\ EntriesOf(queue) = <<>>
    BY DEF StoppedMeansDrained
  <2>1. EntriesOf(queue) = <<>> /\ pc[Run] \notin Holding
    BY DEF IInv, Uncancelled, NothingLeft
  <2>2. \A p \in Coroutines : pc[p] \notin Holding
    BY <2>1, Names DEF Holding
  <2>3. \A t \in inserts : t.by \in Coroutines
    BY DEF IInv, Uncancelled, RunWaitedFor, TypeOK, Inserts
  <2>4. inserts = {}
    BY <2>2, <2>3 DEF IInv, InsertsAgree, Holding
  <2> QED BY <2>1, <2>2, <2>4 DEF Held
<1> QED BY <1>1, ConsumerInvariant, PTL

-----------------------------------------------------------------------------
\* The refinement: what LogDelivery calls waiting is the batch in hand,
\* followed by the entries of the queue.

InLine ==
  /\ \A p \in Coroutines : pc[p] \in Holding => Waiting = batch[p] \o EntriesOf(queue)
  /\ (\A p \in Coroutines : pc[p] \notin Holding) => Waiting = EntriesOf(queue)

LEMMA QueueTypes ==
  ASSUME TypeOK
  PROVE  /\ EntriesOf(queue) \in Seq(Accepted)
         /\ \A p \in Coroutines : batch[p] \in Seq(Accepted)
<1>1. PICK S : S = Accepted \cup {Sentinel}
  OBVIOUS
<1>2. EntriesOf(queue) \in Seq(S \ {Sentinel})
  BY <1>1, EntriesAreItems DEF TypeOK
<1>3. S \ {Sentinel} \subseteq Accepted
  BY <1>1
<1>4. EntriesOf(queue) \in Seq(Accepted)
  BY ONLY <1>2, <1>3, SeqMonotonic
<1> QED BY <1>4 DEF TypeOK

LEMMA IInvInLine == IInv /\ cancels = 0 => InLine
<1> SUFFICES ASSUME IInv, cancels = 0 PROVE InLine
  OBVIOUS
<1>1. \A p \in Coroutines : p \in InHand <=> pc[p] \in Holding
  BY DEF InHand, Held, IInv, BatchesFilled, Holding, Flushing
<1>2. InHand \subseteq Coroutines
  BY DEF InHand
<1>3. ASSUME NEW p \in Coroutines, pc[p] \in Holding
      PROVE  Waiting = batch[p] \o EntriesOf(queue)
  <2>1. p \in InHand
    BY <1>1, <1>3
  <2>2. \A q \in InHand : q = p
    BY <1>1, <1>2, <1>3, OneFlushes DEF Holding, Flushing
  <2>3. (CHOOSE q \in InHand : TRUE) = p
    BY <2>1, <2>2
  <2>4. Held(p) = batch[p]
    BY <1>3 DEF Held
  <2> QED BY <2>1, <2>3, <2>4 DEF Waiting
<1>4. ASSUME \A p \in Coroutines : pc[p] \notin Holding
      PROVE  Waiting = EntriesOf(queue)
  <2>1. InHand = {}
    BY <1>1, <1>2, <1>4
  <2>2. <<>> \o EntriesOf(queue) = EntriesOf(queue)
    BY QueueTypes, ConcatEmptySeq DEF IInv
  <2> QED BY <2>1, <2>2 DEF Waiting
<1> QED BY <1>3, <1>4 DEF InLine

LEMMA WaitingTypes == ASSUME IInv, InLine PROVE Waiting \in Seq(Accepted)
<1>1. CASE \A p \in Coroutines : pc[p] \notin Holding
  BY <1>1, QueueTypes DEF IInv, InLine
<1>2. ASSUME NEW p \in Coroutines, pc[p] \in Holding
      PROVE  Waiting \in Seq(Accepted)
  <2>1. Waiting = batch[p] \o EntriesOf(queue)
    BY <1>2 DEF InLine
  <2> QED BY <2>1, QueueTypes, ConcatProperties DEF IInv
<1> QED BY <1>1, <1>2

\* A step that leaves the entries of the queue and the batches in hand.
LEMMA StillWaiting ==
  ASSUME InLine, InLine', EntriesOf(queue)' = EntriesOf(queue),
         \A p \in Coroutines : pc'[p] \in Holding <=> pc[p] \in Holding,
         \A p \in Coroutines : pc[p] \in Holding => batch'[p] = batch[p]
  PROVE  Waiting' = Waiting
<1>1. CASE \A p \in Coroutines : pc[p] \notin Holding
  BY <1>1 DEF InLine, Holding
<1>2. CASE \E p \in Coroutines : pc[p] \in Holding
  BY <1>2 DEF InLine, Holding
<1> QED BY <1>1, <1>2

\* What Store and Discard take from the front.
TakenFrom(w, b, rest) ==
  /\ Len(b) \in 1 .. Len(w)
  /\ SubSeq(w, 1, Len(b)) = b
  /\ SubSeq(w, Len(b) + 1, Len(w)) = rest
  /\ {w[i] : i \in 1 .. Len(b)} = ToSet(b)

LEMMA TakenFirst ==
  ASSUME NEW S, NEW b \in Seq(S), NEW rest \in Seq(S), NEW w, b # <<>>, w = b \o rest
  PROVE  TakenFrom(w, b, rest)
<1>1. w = b \o rest
  OBVIOUS
<1>2. /\ Len(b) \in Nat \ {0} /\ Len(rest) \in Nat /\ Len(w) = Len(b) + Len(rest)
      /\ DOMAIN b = 1 .. Len(b)
  BY <1>1, EmptySeq, LenProperties, ConcatProperties
<1>3. SubSeq(w, 1, Len(b)) = b
  <2>1. 1 \in 1 .. Len(b) /\ Len(b) \in 1 .. Len(b)
    BY <1>2
  <2> QED BY <1>1, <2>1, SubSeqOfConcat1, SubSeqFull
<1>4. SubSeq(w, Len(b) + 1, Len(w)) = rest
  <2>1. CASE rest = <<>>
    <3>1. Len(w) < Len(b) + 1 /\ Len(w) \in Int /\ Len(b) + 1 \in Int
      BY <1>2, <2>1
    <3> QED BY <2>1, <3>1, SubSeqEmpty
  <2>2. CASE rest # <<>>
    <3>1. Len(rest) \in Nat \ {0}
      BY <2>2, EmptySeq
    <3>2. /\ Len(b) + 1 \in Len(b) + 1 .. Len(b) + Len(rest)
          /\ Len(w) \in Len(b) + 1 .. Len(b) + Len(rest)
          /\ (Len(b) + 1) - Len(b) = 1 /\ Len(w) - Len(b) = Len(rest)
      BY <1>2, <3>1
    <3>3. SubSeq(b \o rest, Len(b) + 1, Len(w)) = SubSeq(rest, 1, Len(rest))
      BY <3>2, SubSeqOfConcat2
    <3> QED BY <1>1, <3>3, SubSeqFull
  <2> QED BY <2>1, <2>2
<1>5. {w[i] : i \in 1 .. Len(b)} = ToSet(b)
  <2>1. \A i \in 1 .. Len(b) : w[i] = b[i]
    BY <1>1, <1>2, ConcatProperties
  <2> QED BY <1>2, <2>1 DEF ToSet
<1>6. Len(b) \in 1 .. Len(w)
  BY <1>2
<1> QED BY <1>3, <1>4, <1>5, <1>6 DEF TakenFrom

\* The entry that is put joins the line at its end.
LEMMA PutAccepts ==
  ASSUME IInv, InLine, InLine', Put
  PROVE  [Delivery!DeliveryNext]_(Delivery!deliveryVars)
<1> USE DEF Put, flags, faults, IInv
<1>1. CASE ~ HasRoom
  <2>1. Waiting' = Waiting
    BY <1>1, StillWaiting
  <2> QED BY <2>1 DEF Delivery!deliveryVars
<1>2. CASE HasRoom
  <2>1. PICK x : x = put + 1 /\ x \in 1 .. MaxEntries /\ x \notin Accepted /\ x \in Nat
    BY ModelBoundsAssumption DEF TypeOK, Accepted
  <2>2. PICK S : S = Accepted \cup {Sentinel, x}
    OBVIOUS
  <2>3. queue \in Seq(S)
    <3>1. Accepted \cup {Sentinel} \subseteq S
      BY <2>2
    <3> QED BY <3>1, SeqMonotonic DEF TypeOK
  <2>4. EntriesOf(queue') = Append(EntriesOf(queue), x)
    <3>1. queue' = Append(queue, x) /\ x \in S /\ IsEntry(x)
      BY <1>2, <2>1, <2>2, Names DEF IsEntry
    <3> QED BY <2>3, <3>1, QueueAppend
  <2>5. Waiting' = Append(Waiting, x)
    <3>1. CASE \A p \in Coroutines : pc[p] \notin Holding
      BY <2>4, <3>1 DEF InLine, Holding
    <3>2. ASSUME NEW p \in Coroutines, pc[p] \in Holding
          PROVE  Waiting' = Append(Waiting, x)
      <4>1. Waiting = batch[p] \o EntriesOf(queue)
        BY <3>2 DEF InLine
      <4>2. Waiting' = batch[p] \o Append(EntriesOf(queue), x)
        BY <2>4, <3>2 DEF InLine, Holding
      <4>3. PICK e \in Seq(S) : e = EntriesOf(queue)
        <5>1. Accepted \subseteq S
          BY <2>2
        <5>2. EntriesOf(queue) \in Seq(Accepted)
          BY QueueTypes
        <5> QED BY <5>1, <5>2, SeqMonotonic
      <4>4. PICK b \in Seq(S) : b = batch[p]
        <5>1. Accepted \subseteq S
          BY <2>2
        <5>2. batch[p] \in Seq(Accepted)
          BY QueueTypes
        <5> QED BY <5>1, <5>2, SeqMonotonic
      <4>5. b \o Append(e, x) = Append(b \o e, x)
        BY ONLY b \in Seq(S), e \in Seq(S)
      <4> QED BY <4>1, <4>2, <4>3, <4>4, <4>5
    <3> QED BY <3>1, <3>2
  <2>6. x \notin Delivery!Known
    <3>1. Waiting \in Seq(Accepted) /\ rows \in Seq(Accepted) /\ lost \subseteq Accepted
      BY WaitingTypes DEF TypeOK
    <3>2. /\ \A i \in DOMAIN Waiting : Waiting[i] \in Accepted
          /\ \A i \in DOMAIN rows : rows[i] \in Accepted
      BY <3>1, LenProperties, ElementOfSeq
    <3> QED BY <2>1, <3>1, <3>2 DEF Delivery!Known
  <2>7. Delivery!Accept(x)
    BY <2>5, <2>6 DEF Delivery!Accept
  <2> QED BY <2>1, <2>7 DEF Delivery!DeliveryNext
<1> QED BY <1>1, <1>2

\* Steps that only move between awaits, start an insert again or publish.
LEMMA OthersStutter ==
  ASSUME IInv, InLine, InLine',
         \/ Start \/ Connect \/ Check
         \/ \E p \in Coroutines : Publish(p) \/ Retry(p) \/ Acquire(p)
         \/ \E s \in Stoppers : StopStep(s)
  PROVE  UNCHANGED Delivery!deliveryVars
<1>1. PICK p \in Coroutines, label \in Labels :
        /\ pc[p] \notin Holding <=> label \notin Holding
        /\ GoTo(p, label)
  <2>1. CASE Start
    BY <2>1, Names DEF Start, Holding, Labels
  <2>2. CASE Connect
    BY <2>2, Names DEF Connect, Holding, Labels
  <2>3. CASE Check
    BY <2>3, Names DEF Check, Holding, Labels
  <2>4. ASSUME NEW q \in Coroutines, Publish(q)
        PROVE  \E label \in Labels : (pc[q] \notin Holding <=> label \notin Holding) /\ GoTo(q, label)
    BY <2>4 DEF Publish, Holding, Labels
  <2>5. ASSUME NEW q \in Coroutines, Retry(q) \/ Acquire(q)
        PROVE  \E label \in Labels : (pc[q] \notin Holding <=> label \notin Holding) /\ GoTo(q, label)
    BY <2>5 DEF Retry, Acquire, Holding, Labels
  <2>6. ASSUME NEW s \in Stoppers, StopStep(s)
        PROVE  \E label \in Labels : (pc[s] \notin Holding <=> label \notin Holding) /\ GoTo(s, label)
    BY <2>6 DEF StopStep, Holding, Labels
  <2> QED BY <2>1, <2>2, <2>3, <2>4, <2>5, <2>6, Names
<1>2. \A q \in Coroutines : pc'[q] \in Holding <=> pc[q] \in Holding
  BY <1>1, GoToMoves DEF IInv
<1>3. \A q \in Coroutines : pc[q] \in Holding => batch'[q] = batch[q]
  <2>1. ASSUME NEW q \in Coroutines, Publish(q), NEW r \in Coroutines, pc[r] \in Holding
        PROVE  batch'[r] = batch[r]
    BY <2>1 DEF Publish, Holding, IInv, TypeOK
  <2>2. ASSUME ~ \E q \in Coroutines : Publish(q)
        PROVE  UNCHANGED batch
    BY <2>2 DEF Start, Connect, Check, Retry, Acquire, StopStep
  <2> QED BY <2>1, <2>2
<1>4. UNCHANGED <<queue, rows, lost, stopping>>
  BY DEF Start, Connect, Check, Publish, Retry, Acquire, StopStep, flags
<1>5. Waiting' = Waiting
  BY <1>2, <1>3, <1>4, StillWaiting
<1> QED BY <1>4, <1>5 DEF Delivery!deliveryVars

\* run() takes the first entry of a batch out of the queue.
LEMMA GetTakes ==
  ASSUME IInv, cancels = 0, InLine, InLine', Get
  PROVE  UNCHANGED Delivery!deliveryVars
<1>1. /\ pc[Run] = "get" /\ Run \in Coroutines
      /\ \A p \in Coroutines \ {Run} : pc'[p] = pc[p]
      /\ UNCHANGED <<rows, lost, stopping>>
  BY Names, GoToMoves DEF Get, Labels, IInv, flags
<1>2. \A p \in Coroutines : pc[p] \notin Holding
  <2> SUFFICES ASSUME NEW s \in Stoppers, pc[s] \in Holding PROVE FALSE
    BY <1>1, Names DEF Holding
  <2>1. pc[s] # "collect" /\ pc[s] # "shielded"
    BY DEF IInv, PlacesAgree
  <2>2. lock = s /\ PastWait
    BY <2>1 DEF IInv, LockAgrees, Flushing, Holding, PastWait
  <2> QED BY <1>1, <2>2, Names DEF IInv, Uncancelled, RunWaitedFor
<1>3. Waiting = EntriesOf(queue)
  BY <1>2 DEF InLine
<1>4. CASE queue = <<>> \/ Head(queue) = Sentinel
  <2>1. pc'[Run] \notin Holding
    BY <1>1, <1>4, Names, GoToMoves DEF Get, Labels, Holding, IInv, IsEntry
  <2>2. Waiting' = EntriesOf(queue')
    BY <1>1, <1>2, <2>1 DEF InLine, Holding
  <2>3. EntriesOf(queue') = EntriesOf(queue)
    <3>1. CASE queue' = queue
      BY <3>1
    <3>2. CASE queue # <<>> /\ Head(queue) = Sentinel /\ queue' = Tail(queue)
      BY <3>2, QueueTail DEF IInv, TypeOK, IsEntry
    <3> QED BY <1>4, <3>1, <3>2 DEF Get, IsEntry
  <2>4. Waiting' = Waiting
    BY <1>3, <2>2, <2>3
  <2> QED BY <1>1, <2>4 DEF Delivery!deliveryVars
<1>5. CASE queue # <<>> /\ IsEntry(Head(queue))
  <2>1. queue' = Tail(queue) /\ batch'[Run] = <<Head(queue)>> /\ pc'[Run] = "collect"
    BY <1>1, <1>5, GoToMoves DEF Get, Labels, IInv, TypeOK, IsEntry
  <2>2. Waiting' = <<Head(queue)>> \o EntriesOf(Tail(queue))
    BY <1>1, <2>1 DEF InLine, Holding
  <2>3. EntriesOf(queue) = <<Head(queue)>> \o EntriesOf(Tail(queue))
    BY <1>5, QueueTail DEF IInv, TypeOK
  <2> QED BY <1>1, <1>3, <2>2, <2>3 DEF Delivery!deliveryVars
<1> QED BY <1>4, <1>5 DEF IsEntry

\* run() takes one more, or hands the batch to a thread.
LEMMA CollectTakes ==
  ASSUME IInv, InLine, InLine', Collect
  PROVE  UNCHANGED Delivery!deliveryVars
<1> USE DEF IInv
<1>1. /\ pc[Run] = "collect" /\ Run \in Coroutines
      /\ UNCHANGED <<rows, lost, stopping>>
  BY Names DEF Collect, flags
<1>2. batch[Run] \in Seq(Accepted)
  BY <1>1, QueueTypes
<1>3. Waiting = batch[Run] \o EntriesOf(queue)
  BY <1>1 DEF InLine, Holding
<1>4. CASE queue # <<>> /\ IsEntry(Head(queue)) /\ queue' = Tail(queue)
           /\ batch' = [batch EXCEPT ![Run] = Append(@, Head(queue))] /\ UNCHANGED pc
  <2>1. PICK h \in Accepted : h = Head(queue)
    BY <1>4, HeadOfQueue DEF IsEntry
  <2>2. PICK e \in Seq(Accepted) : e = EntriesOf(Tail(queue))
    <3>1. PICK S : S = Accepted \cup {Sentinel}
      OBVIOUS
    <3>2. Tail(queue) \in Seq(S)
      BY <1>4, <3>1, HeadOfQueue
    <3>3. EntriesOf(Tail(queue)) \in Seq(S \ {Sentinel}) /\ S \ {Sentinel} \subseteq Accepted
      BY <3>1, <3>2, EntriesAreItems
    <3>4. EntriesOf(Tail(queue)) \in Seq(Accepted)
      BY ONLY <3>3, SeqMonotonic
    <3> QED BY <3>4
  <2>3. EntriesOf(queue) = <<h>> \o e
    BY <1>4, <2>1, <2>2, QueueTail DEF TypeOK
  <2>4. Waiting' = Append(batch[Run], h) \o e
    <3>1. batch'[Run] = Append(batch[Run], h)
      BY <1>1, <1>4, <2>1 DEF TypeOK
    <3>2. pc'[Run] \in Holding
      BY <1>1, <1>4 DEF Holding
    <3> QED BY <1>1, <1>4, <2>2, <3>1, <3>2 DEF InLine, Holding
  <2>5. PICK b \in Seq(Accepted) : b = batch[Run]
    BY <1>2
  <2>6. Append(b, h) \o e = b \o (<<h>> \o e)
    <3>1. PICK one \in Seq(Accepted) : one = <<h>>
      <4>1. <<h>> \in Seq(Accepted)
        OBVIOUS
      <4> QED BY <4>1
    <3>2. Append(b, h) = b \o one
      BY <3>1, AppendIsConcat
    <3>3. b \in Seq(Accepted) /\ one \in Seq(Accepted) /\ e \in Seq(Accepted)
      OBVIOUS
    <3>4. (b \o one) \o e = b \o (one \o e)
      BY ONLY <3>3, ConcatAssociative
    <3> QED BY <3>1, <3>2, <3>4
  <2> QED BY <1>1, <1>3, <2>3, <2>4, <2>5, <2>6 DEF Delivery!deliveryVars
<1>5. CASE /\ StartInsert(Run, batch[Run])
           /\ \/ queue # <<>> /\ Head(queue) = Sentinel /\ queue' = Tail(queue)
              \/ UNCHANGED queue
  <2>1. pc'[Run] \in Holding /\ batch'[Run] = batch[Run]
    BY <1>1, <1>2, <1>5, StartInsertMoves DEF Holding
  <2>2. EntriesOf(queue') = EntriesOf(queue)
    <3>1. CASE queue' = queue
      BY <3>1
    <3>2. CASE queue # <<>> /\ Head(queue) = Sentinel /\ queue' = Tail(queue)
      BY <3>2, QueueTail DEF TypeOK, IsEntry
    <3> QED BY <1>5, <3>1, <3>2
  <2>3. Waiting' = batch[Run] \o EntriesOf(queue)
    BY <1>1, <2>1, <2>2 DEF InLine, Holding
  <2> QED BY <1>1, <1>3, <2>3 DEF Delivery!deliveryVars
<1> QED BY <1>4, <1>5 DEF Collect, IsEntry

\* A call of stop() begins the shutdown.
LEMMA StopCloses ==
  ASSUME IInv, InLine, InLine', NEW s \in Stoppers, Stop(s)
  PROVE  Delivery!Close
<1>1. /\ UNCHANGED <<rows, lost, batch>> /\ stopping' = TRUE
      /\ queue' = IF HasRoom THEN Append(queue, Sentinel) ELSE queue
  BY DEF Stop
<1>2. \A p \in Coroutines : pc'[p] \in Holding <=> pc[p] \in Holding
  BY GoToMoves, Names DEF Stop, Labels, Holding, IInv
<1>3. EntriesOf(queue') = EntriesOf(queue)
  <2>1. CASE queue' = queue
    BY <2>1
  <2>2. CASE queue' = Append(queue, Sentinel)
    <3>1. PICK S : S = Accepted \cup {Sentinel}
      OBVIOUS
    <3>2. queue \in Seq(S) /\ Sentinel \in S /\ ~ IsEntry(Sentinel)
      BY <3>1 DEF IInv, TypeOK, IsEntry
    <3>3. EntriesOf(Append(queue, Sentinel)) = EntriesOf(queue)
      BY ONLY <3>2, QueueAppend
    <3> QED BY <2>2, <3>3
  <2> QED BY <1>1, <2>1, <2>2
<1>4. Waiting' = Waiting
  BY <1>1, <1>2, <1>3, StillWaiting
<1> QED BY <1>1, <1>4 DEF Delivery!Close

\* A commit stores the batch in hand.
LEMMA InsertDoneStores ==
  ASSUME IInv, cancels = 0, InLine, InLine', NEW p \in Coroutines, InsertDone(p)
  PROVE  \E n \in 1 .. Len(Waiting) : Delivery!Store(n)
<1> USE DEF IInv
<1>1. /\ pc[p] \in {"insert", "shielded"} /\ UNCHANGED <<queue, batch, lost, stopping>>
      /\ pc'[p] = "publish" /\ \A q \in Coroutines \ {p} : pc'[q] = pc[q]
  BY GoToMoves DEF InsertDone, Labels, flags
<1>2. \A q \in Coroutines : pc'[q] \notin Holding
  BY <1>1, OneFlushes DEF Holding, Flushing
<1>3. PICK b \in Seq(Accepted), e \in Seq(Accepted) :
        b = batch[p] /\ b # <<>> /\ e = EntriesOf(queue)
  BY <1>1, QueueTypes DEF BatchesFilled, Flushing
<1>4. Waiting = b \o e /\ Waiting' = e
  BY <1>1, <1>2, <1>3 DEF InLine, Holding
<1>5. rows' = rows \o b
  <2>1. PICK t \in inserts : t.by = p /\ Commit(t)
    BY DEF InsertDone
  <2>2. t.batch = b /\ ~ t.wiped
    BY <1>3, <2>1 DEF InsertsAgree, Uncancelled, RunWaitedFor
  <2> QED BY <2>1, <2>2, CommitWrites
<1>6. TakenFrom(Waiting, b, e)
  <2>1. b \in Seq(Accepted) /\ e \in Seq(Accepted) /\ b # <<>> /\ Waiting = b \o e
    BY <1>3, <1>4
  <2> QED BY ONLY <2>1, TakenFirst
<1>7. Delivery!Store(Len(b))
  BY <1>1, <1>4, <1>5, <1>6 DEF Delivery!Store, TakenFrom
<1> QED BY <1>6, <1>7 DEF TakenFrom

\* A failed insert keeps its batch, or gives it up while the service closes.
LEMMA InsertFailsDiscards ==
  ASSUME IInv, cancels = 0, InLine, InLine', NEW p \in Coroutines, InsertFails(p)
  PROVE  \/ UNCHANGED Delivery!deliveryVars
         \/ \E n \in 1 .. Len(Waiting) : Delivery!Discard(n)
<1> USE DEF IInv
<1>1. pc[p] = "insert" /\ UNCHANGED <<rows, stopping>>
  BY DEF InsertFails
<1>2. PICK b \in Seq(Accepted), e \in Seq(Accepted) :
        b = batch[p] /\ b # <<>> /\ e = EntriesOf(queue)
  BY <1>1, QueueTypes DEF BatchesFilled, Flushing
<1>3. Waiting = b \o e
  BY <1>1, <1>2 DEF InLine, Holding
<1>4. CASE \E label \in {"backoff", "lastBackoff"} :
             GoTo(p, label) /\ UNCHANGED <<batch, lost, queue>>
  <2>1. \A q \in Coroutines : pc'[q] \in Holding <=> pc[q] \in Holding
    BY <1>1, <1>4, GoToMoves DEF Labels, Holding
  <2>2. Waiting' = Waiting
    BY <1>4, <2>1, StillWaiting
  <2> QED BY <1>1, <1>4, <2>2 DEF Delivery!deliveryVars
<1>5. ASSUME ShuttingDown, NEW label \in {"lock", "crashed", "done", "close"}, GoTo(p, label)
      PROVE  stopping /\ \A q \in Coroutines : pc'[q] \notin Holding
  <2>1. stopping
    <3>1. p \in Stoppers => stopping
      BY <1>1 DEF StopSeen
    <3>2. p = Run => started /\ (~ running => stopping)
      BY <1>1 DEF Uncancelled, RunWaitedFor
    <3> QED BY <1>5, <3>1, <3>2, Names DEF ShuttingDown
  <2>2. pc'[p] \notin Holding /\ \A q \in Coroutines \ {p} : pc'[q] = pc[q]
    BY <1>5, GoToMoves DEF Labels, Holding
  <2>3. \A q \in Coroutines \ {p} : pc[q] \notin Holding
    BY <1>1, OneFlushes DEF Holding, Flushing
  <2> QED BY <2>1, <2>2, <2>3
<1>6. CASE /\ ShuttingDown /\ lock = p /\ EndDrain(p) /\ queue' = <<>>
           /\ lost' = lost \cup ToSet(b) \cup ToSet(e)
  <2>1. stopping /\ \A q \in Coroutines : pc'[q] \notin Holding
    BY <1>5, <1>6 DEF EndDrain
  <2>2. Waiting' = <<>>
    BY <1>6, <2>1, EmptyQueue DEF InLine
  <2>3. PICK w \in Seq(Accepted) : w = Waiting
    BY <1>2, <1>3, ConcatProperties
  <2>4. Len(w) \in 1 .. Len(w) /\ SubSeq(w, Len(w) + 1, Len(w)) = <<>>
    <3>1. Len(w) \in Nat \ {0}
      BY <1>2, <1>3, <2>3, ConcatEqualIffEmpty, EmptySeq
    <3>2. Len(w) + 1 \in Int /\ Len(w) \in Int /\ Len(w) < Len(w) + 1
      BY <3>1
    <3> QED BY <3>1, <3>2, SubSeqEmpty
  <2>5. {w[i] : i \in 1 .. Len(w)} = ToSet(b) \cup ToSet(e)
    <3>1. ToSet(w) = ToSet(b) \cup ToSet(e)
      BY <1>3, <2>3, JoinHas
    <3>2. DOMAIN w = 1 .. Len(w)
      BY <2>3, LenProperties
    <3> QED BY <3>1, <3>2 DEF ToSet
  <2>6. Delivery!Discard(Len(w))
    BY <1>1, <1>6, <2>1, <2>2, <2>3, <2>4, <2>5 DEF Delivery!Discard
  <2> QED BY <2>3, <2>4, <2>6
<1>7. CASE /\ ShuttingDown /\ GoTo(p, "lock") /\ UNCHANGED queue
           /\ lost' = lost \cup ToSet(b)
  <2>1. stopping /\ \A q \in Coroutines : pc'[q] \notin Holding
    BY <1>5, <1>7
  <2>2. Waiting' = e
    BY <1>2, <1>7, <2>1 DEF InLine
  <2>3. TakenFrom(Waiting, b, e)
    <3>1. b \in Seq(Accepted) /\ e \in Seq(Accepted) /\ b # <<>> /\ Waiting = b \o e
      BY <1>2, <1>3
    <3> QED BY ONLY <3>1, TakenFirst
  <2>4. Delivery!Discard(Len(b))
    BY <1>1, <1>7, <2>1, <2>2, <2>3 DEF Delivery!Discard, TakenFrom
  <2> QED BY <2>3, <2>4 DEF TakenFrom
<1> QED BY <1>2, <1>4, <1>6, <1>7 DEF InsertFails

\* The next batch of _drain_queue, or its end.
LEMMA DrainTakesNext ==
  ASSUME IInv, cancels = 0, InLine, InLine', NEW p \in Coroutines, Drain(p)
  PROVE  UNCHANGED Delivery!deliveryVars
<1> USE DEF IInv
<1>1. pc[p] = "drain" /\ UNCHANGED <<rows, lost, stopping>>
  BY DEF Drain
<1>2. \A q \in Coroutines : pc[q] \notin Holding
  BY <1>1, OneFlushes DEF Holding, Flushing
<1>3. Waiting = EntriesOf(queue)
  BY <1>2 DEF InLine
<1>4. CASE UNCHANGED queue /\ EndDrain(p)
  <2>1. \A q \in Coroutines : pc'[q] \notin Holding
    BY <1>2, <1>4, GoToMoves DEF EndDrain, Labels, Holding
  <2>2. Waiting' = EntriesOf(queue)
    BY <1>4, <2>1 DEF InLine
  <2> QED BY <1>1, <1>3, <2>2 DEF Delivery!deliveryVars
<1>5. ASSUME NEW n \in DOMAIN queue,
             queue' = SubSeq(queue, n + 1, Len(queue)),
             IF EntriesOf(SubSeq(queue, 1, n)) = <<>>
               THEN UNCHANGED <<pc, batch, retries, inserts>>
               ELSE StartInsert(p, EntriesOf(SubSeq(queue, 1, n)))
      PROVE  UNCHANGED Delivery!deliveryVars
  <2>1. PICK taken \in Seq(Accepted), rest \in Seq(Accepted \cup {Sentinel}) :
          /\ taken = EntriesOf(SubSeq(queue, 1, n)) /\ rest = SubSeq(queue, n + 1, Len(queue))
          /\ EntriesOf(queue) = taken \o EntriesOf(rest)
    BY DrainTakes
  <2>2. CASE taken = <<>>
    <3>1. Waiting' = EntriesOf(rest)
      BY <1>2, <1>5, <2>1, <2>2 DEF InLine, Holding
    <3>2. <<>> \o EntriesOf(rest) = EntriesOf(rest)
      BY EntriesAreItems, ConcatEmptySeq
    <3>3. Waiting' = Waiting
      BY <1>3, <2>1, <2>2, <3>1, <3>2
    <3> QED BY <1>1, <3>3 DEF Delivery!deliveryVars
  <2>3. CASE taken # <<>>
    <3>1. pc'[p] \in Holding /\ batch'[p] = taken
      BY <1>5, <2>1, <2>3, StartInsertMoves DEF Holding
    <3>2. Waiting' = taken \o EntriesOf(rest)
      BY <1>5, <2>1, <3>1 DEF InLine
    <3>3. Waiting' = Waiting
      BY <1>3, <2>1, <3>2
    <3> QED BY <1>1, <3>3 DEF Delivery!deliveryVars
  <2> QED BY <2>2, <2>3
<1> QED BY <1>4, <1>5 DEF Drain

\* Every step of the consumer is a step of the delivery or leaves it.
LEMMA StepDelivers ==
  IInv /\ cancels = 0 /\ InLine /\ (cancels = 0)' /\ InLine' /\ [Next]_vars
    => [Delivery!DeliveryNext]_(Delivery!deliveryVars)
<1> SUFFICES ASSUME IInv, cancels = 0, InLine, cancels' = 0, InLine', [Next]_vars
             PROVE  [Delivery!DeliveryNext]_(Delivery!deliveryVars)
  OBVIOUS
<1>1. CASE UNCHANGED vars
  <2>1. Waiting' = Waiting
    BY <1>1, StillWaiting DEF vars
  <2> QED BY <1>1, <2>1 DEF vars, flags, Delivery!deliveryVars
<1>2. CASE Put
  BY <1>2, PutAccepts
<1>3. ASSUME NEW p \in Coroutines, Flush(p)
      PROVE  [Delivery!DeliveryNext]_(Delivery!deliveryVars)
  <2>1. CASE InsertDone(p)
    BY <2>1, InsertDoneStores DEF Delivery!DeliveryNext
  <2>2. CASE InsertFails(p)
    BY <2>2, InsertFailsDiscards DEF Delivery!DeliveryNext
  <2>3. CASE Drain(p)
    BY <2>3, DrainTakesNext
  <2>4. CASE Publish(p) \/ Retry(p) \/ Acquire(p)
    BY <2>4, OthersStutter
  <2> QED BY <1>3, <2>1, <2>2, <2>3, <2>4 DEF Flush
<1>4. CASE RunStep
  <2>1. CASE Start \/ Connect \/ Check
    BY <2>1, OthersStutter
  <2>2. CASE Get
    BY <2>2, GetTakes
  <2>3. CASE Collect
    BY <2>3, CollectTakes
  <2>4. CASE ShieldedFails
    BY <2>4 DEF ShieldedFails, IInv, Uncancelled, RunWaitedFor
  <2> QED BY <1>3, <1>4, <2>1, <2>2, <2>3, <2>4, Names DEF RunStep
<1>5. ASSUME NEW s \in Stoppers, Stop(s) \/ StopperStep(s)
      PROVE  [Delivery!DeliveryNext]_(Delivery!deliveryVars)
  <2>1. CASE Stop(s)
    BY <2>1, StopCloses DEF Delivery!DeliveryNext
  <2>2. CASE StopStep(s)
    BY <2>2, OthersStutter
  <2> QED BY <1>3, <1>5, <2>1, <2>2, Names DEF StopperStep
<1>6. CASE Cancel
  BY <1>6 DEF Cancel
<1>7. CASE AbandonedEnds
  BY <1>7 DEF AbandonedEnds, IInv, Uncancelled, RunWaitedFor
<1>8. CASE Finished
  BY <1>1, <1>8 DEF Finished
<1> QED BY <1>1, <1>2, <1>4, <1>5, <1>6, <1>7, <1>8 DEF Next

\* As long as the task of run() is not cancelled, the queue, the batch in hand
\* and the table are a delivery: every accepted entry is written once, in order,
\* or given up while the service shuts down (pipeline.py:598-781).
THEOREM ConsumerDeliversInOrder == Spec /\ [](cancels = 0) => DeliversInOrder
<1>1. Init /\ InLine => Delivery!DeliveryInit
  <2> SUFFICES ASSUME Init, InLine PROVE Delivery!DeliveryInit
    OBVIOUS
  <2>1. Waiting = <<>>
    BY EmptyQueue DEF Init, InLine, Holding
  <2> QED BY <2>1 DEF Init, Delivery!DeliveryInit
<1> QED BY <1>1, StepDelivers, IInvInLine, ConsumerInvariant, PTL
      DEF Spec, DeliversInOrder, Delivery!DeliverySpec
=============================================================================
