------------------------- MODULE SseBroadcasterProofs -------------------------
(***************************************************************************)
(* Proofs about SseBroadcaster, for every value of its constants: what a   *)
(* bounded queue holds after any number of entries were put into it, the   *)
(* types, the two promises of the broadcaster, and that the stream         *)
(* implements LiveFeed.                                                    *)
(***************************************************************************)
EXTENDS SseBroadcaster, SequenceTheorems, WellFoundedInduction, TLAPS

\* Induction over the naturals, for a set.
LEMMA NatSetInduction ==
  ASSUME NEW S, 0 \in S, \A n \in Nat : n \in S => n + 1 \in S
  PROVE  Nat \subseteq S
<1>1. SUFFICES ASSUME Nat \ S # {} PROVE FALSE
  OBVIOUS
<1>2. PICK m \in Nat \ S : \A n \in Nat \ S : <<n, m>> \notin OpToRel(<, Nat)
  BY <1>1, NatLessThanWellFounded, WFMin
<1>3. \A n \in Nat \ S : ~ (n < m)
  BY <1>2 DEF OpToRel
<1>4. m - 1 \in Nat /\ m - 1 < m /\ (m - 1) + 1 = m
  OBVIOUS
<1>5. m - 1 \in S
  BY <1>3, <1>4
<1> QED BY <1>4, <1>5

-----------------------------------------------------------------------------
\* A bounded queue.

\* The recursion of Pushed has a solution: the queue after each put.
LEMMA PushedUnfolds ==
  ASSUME NEW q, NEW S, NEW entries \in Seq(S)
  PROVE  \A i \in 0 .. Len(entries) :
           Pushed(q, entries)[i] =
             IF i = 0 THEN q ELSE Push(Pushed(q, entries)[i - 1], entries[i])
<1> DEFINE Solves(f, m) ==
             f = [i \in 0 .. m |->
                    IF i = 0 THEN q ELSE Push(f[i - 1], entries[i])]
           Solved == {m \in Nat : \E f : Solves(f, m)}
<1>1. 0 \in Solved
  <2>1. Solves([i \in 0 .. 0 |-> q], 0)
    OBVIOUS
  <2> QED BY <2>1
<1>2. ASSUME NEW m \in Nat, m \in Solved
      PROVE  m + 1 \in Solved
  <2>1. PICK g : Solves(g, m)
    BY <1>2
  <2> DEFINE h == [i \in 0 .. m + 1 |->
                     IF i = m + 1 THEN Push(g[m], entries[m + 1]) ELSE g[i]]
  <2>2. \A i \in 0 .. m : g[i] = IF i = 0 THEN q ELSE Push(g[i - 1], entries[i])
    BY <2>1
  <2>3. \A i \in 0 .. m + 1 :
          h[i] = IF i = 0 THEN q ELSE Push(h[i - 1], entries[i])
    <3> TAKE i \in 0 .. m + 1
    <3>1. CASE i = m + 1
      BY <3>1
    <3>2. CASE i # m + 1
      <4>1. i \in 0 .. m /\ (i # 0 => i - 1 \in 0 .. m)
        BY <3>2
      <4> QED BY <2>2, <4>1
    <3> QED BY <3>1, <3>2
  <2>4. Solves(h, m + 1)
    BY <2>3
  <2> HIDE DEF h, Solves
  <2> QED BY <2>4
<1>3. Len(entries) \in Solved
  <2> HIDE DEF Solved
  <2> QED BY <1>1, <1>2, NatSetInduction, LenProperties
<1>4. Solves(Pushed(q, entries), Len(entries))
  BY <1>3 DEF Pushed
<1> QED BY <1>4

Lesser(m, n) == IF m <= n THEN m ELSE n

\* new holds the newest elements of all, as many as a queue has room for.
NewestOf(new, all) ==
  /\ Len(new) = Lesser(MaxSize, Len(all))
  /\ \A j \in 1 .. Len(new) : new[j] = all[Len(all) - Len(new) + j]

\* A queue of at most MaxSize entries holds the newest entries of q \o entries
\* once all of them were put, as many as it has room for.
LEMMA PushedNewest ==
  ASSUME SseAssumption, NEW S, NEW q \in Seq(S), Len(q) <= MaxSize,
         NEW entries \in Seq(S),
         NEW new, new = Pushed(q, entries)[Len(entries)]
  PROVE  new \in Seq(S) /\ NewestOf(new, q \o entries)
<1> DEFINE all == q \o entries
           after == Pushed(q, entries)
           Newest(i) ==
             /\ after[i] \in Seq(S)
             /\ Len(after[i]) = Lesser(MaxSize, Len(q) + i)
             /\ \A j \in 1 .. Len(after[i]) :
                  after[i][j] = all[Len(q) + i - Len(after[i]) + j]
           Right == {i \in Nat : i <= Len(entries) => Newest(i)}
<1>1. /\ Len(q) \in Nat /\ Len(entries) \in Nat
      /\ all \in Seq(S) /\ Len(all) = Len(q) + Len(entries)
      /\ \A i \in 1 .. Len(all) :
           all[i] = IF i <= Len(q) THEN q[i] ELSE entries[i - Len(q)]
      /\ MaxSize \in Nat \ {0}
  BY ConcatProperties, LenProperties DEF SseAssumption
<1>2. \A i \in 0 .. Len(entries) :
        after[i] = IF i = 0 THEN q ELSE Push(after[i - 1], entries[i])
  BY PushedUnfolds
<1> HIDE DEF all, after
<1>3. 0 \in Right
  <2>1. after[0] = q
    BY <1>1, <1>2
  <2>2. Newest(0)
    BY <1>1, <2>1 DEF Lesser
  <2> QED BY <2>2
<1>4. ASSUME NEW i \in Nat, i \in Right
      PROVE  i + 1 \in Right
  <2> HIDE DEF Newest
  <2>1. SUFFICES ASSUME i + 1 <= Len(entries) PROVE Newest(i + 1)
    OBVIOUS
  <2> DEFINE kept == IF Len(after[i]) >= MaxSize THEN Tail(after[i]) ELSE after[i]
             e == entries[i + 1]
  <2> HIDE DEF kept, e
  <2>2. /\ Newest(i)
        /\ i + 1 \in 0 .. Len(entries) /\ i + 1 \in 1 .. Len(entries)
    BY <1>1, <1>4, <2>1
  <2> USE DEF Newest
  <2>0. Len(after[i]) \in Nat
    BY <2>2, LenProperties
  <2>3. after[i + 1] = Append(kept, e)
    BY <1>2, <2>2, (i + 1) - 1 = i, i + 1 # 0 DEF Push, kept, e
  <2>4. e \in S
    BY <2>2, ElementOfSeq DEF e
  <2>5. all[Len(q) + i + 1] = e
    BY <1>1, <2>2 DEF e
  <2>6. /\ kept \in Seq(S)
        /\ Len(kept) + 1 = Lesser(MaxSize, Len(q) + i + 1)
        /\ \A j \in 1 .. Len(kept) : kept[j] = all[Len(q) + i - Len(kept) + j]
    <3>1. CASE Len(after[i]) >= MaxSize
      <4>1. after[i] # <<>> /\ kept = Tail(after[i]) /\ Len(after[i]) = MaxSize
        BY <1>1, <2>2, <3>1, EmptySeq DEF Lesser, kept
      <4>2. /\ kept \in Seq(S) /\ Len(kept) = MaxSize - 1
            /\ \A j \in 1 .. Len(kept) : kept[j] = after[i][j + 1]
        BY <2>2, <4>1, HeadTailProperties
      <4>3. MaxSize <= Len(q) + i
        BY <1>1, <2>2, <4>1 DEF Lesser
      <4>4. ASSUME NEW j \in 1 .. Len(kept)
            PROVE  kept[j] = all[Len(q) + i - Len(kept) + j]
        <5>1. j + 1 \in 1 .. Len(after[i])
          BY <1>1, <4>1, <4>2
        <5>2. kept[j] = all[Len(q) + i - Len(after[i]) + (j + 1)]
          BY <2>2, <4>2, <5>1
        <5>3. /\ Len(q) + i - Len(after[i]) + (j + 1) = Len(q) + i - Len(kept) + j
          <6>1. Len(kept) = MaxSize - 1 /\ Len(after[i]) = MaxSize
            BY <4>1, <4>2
          <6>2. Len(q) \in Nat /\ MaxSize \in Nat /\ j \in Int
            BY <1>1, <6>1
          <6> QED BY <6>1, <6>2
        <5> QED BY <5>2, <5>3
      <4>5. Len(kept) + 1 = Lesser(MaxSize, Len(q) + i + 1)
        BY <1>1, <4>2, <4>3 DEF Lesser
      <4> QED BY <4>2, <4>4, <4>5
    <3>2. CASE ~(Len(after[i]) >= MaxSize)
      <4>1. kept = after[i] /\ Len(after[i]) = Len(q) + i
        BY <1>1, <2>0, <2>2, <3>2 DEF Lesser, kept
      <4>2. Len(kept) + 1 = Lesser(MaxSize, Len(q) + i + 1)
        <5>1. Len(kept) = Len(q) + i /\ Len(kept) < MaxSize
          BY <1>1, <3>2, <4>1
        <5>2. \A k, l, m \in Nat : k < m => k + 1 = Lesser(m, k + 1)
          BY DEF Lesser
        <5>3. Len(q) \in Nat /\ MaxSize \in Nat /\ Len(kept) \in Nat
          BY <1>1, <5>1
        <5>4. Len(kept) + 1 = Lesser(MaxSize, Len(kept) + 1)
          BY <5>1, <5>2, <5>3
        <5>5. Len(kept) + 1 = Len(q) + i + 1
          BY <5>1, <5>3
        <5> QED BY <5>4, <5>5
      <4> QED BY <2>2, <4>1, <4>2
    <3> QED BY <3>1, <3>2
  <2>7. /\ after[i + 1] \in Seq(S)
        /\ Len(after[i + 1]) = Len(kept) + 1
        /\ \A j \in 1 .. Len(kept) : after[i + 1][j] = kept[j]
        /\ after[i + 1][Len(kept) + 1] = e
        /\ Len(kept) \in Nat
    BY <2>3, <2>4, <2>6, AppendProperties, LenProperties
  <2>8. ASSUME NEW j \in 1 .. Len(after[i + 1])
        PROVE  after[i + 1][j] = all[Len(q) + (i + 1) - Len(after[i + 1]) + j]
    <3>1. CASE j = Len(kept) + 1
      <4>1. Len(q) + (i + 1) - Len(after[i + 1]) + j = Len(q) + i + 1
        <5>1. Len(after[i + 1]) = j /\ j \in Int /\ Len(q) \in Int
          BY <1>1, <2>7, <3>1
        <5> QED BY <5>1
      <4>2. after[i + 1][j] = e
        BY <2>7, <3>1
      <4> QED BY <2>5, <4>1, <4>2
    <3>2. CASE j # Len(kept) + 1
      <4>1. j \in 1 .. Len(kept)
        BY <2>7, <3>2
      <4>2. after[i + 1][j] = all[Len(q) + i - Len(kept) + j]
        BY <2>6, <2>7, <4>1
      <4>3. Len(q) + (i + 1) - Len(after[i + 1]) + j = Len(q) + i - Len(kept) + j
        <5>1. /\ Len(after[i + 1]) = Len(kept) + 1 /\ Len(kept) \in Int
              /\ Len(q) \in Int /\ j \in Int
          BY <1>1, <2>7
        <5> QED BY <5>1
      <4> QED BY <4>2, <4>3
    <3> QED BY <3>1, <3>2
  <2> QED BY <2>6, <2>7, <2>8
<1>5. Newest(Len(entries))
  <2> HIDE DEF Newest
  <2>1. Nat \subseteq Right
    <3> HIDE DEF Right
    <3> QED BY <1>3, <1>4, NatSetInduction
  <2> QED BY <1>1, <2>1
<1>6. new = after[Len(entries)]
  BY DEF after
<1>7. /\ new \in Seq(S)
      /\ Len(new) = Lesser(MaxSize, Len(all))
      /\ \A j \in 1 .. Len(new) : new[j] = all[Len(all) - Len(new) + j]
  <2>1. Len(all) - Len(new) = Len(q) + Len(entries) - Len(new)
    BY <1>1
  <2> QED BY <1>1, <1>5, <1>6, <2>1
<1> QED BY <1>7 DEF all, NewestOf

\* The numbers in q increase at least as fast as their places.
Spread(q) == \A i, j \in 1 .. Len(q) : i <= j => q[i] + (j - i) <= q[j]

\* all is q followed by the n numbers after old.
Continued(q, all, old, n) ==
  /\ Len(all) = Len(q) + n
  /\ \A i \in 1 .. Len(q) : all[i] = q[i]
  /\ \A i \in 1 .. n : all[Len(q) + i] = old + i

\* new comes from q and the n numbers after old, and of the MaxSize newest
\* numbers up to old + n it lacks only those q lacked.
Refilled(q, new, old, n) ==
  /\ \A i \in 1 .. Len(new) :
       /\ new[i] <= old + n
       /\ new[i] > old \/ \E j \in 1 .. Len(q) : new[i] = q[j]
  /\ \A e \in 1 .. old + n :
       /\ e > old + n - MaxSize
       /\ e > old \/ \E i \in 1 .. Len(q) : q[i] = e
       => \E i \in 1 .. Len(new) : new[i] = e

\* The queue of a subscriber after a batch: still spread, and refilled.
LEMMA PutsStayInOrder ==
  ASSUME SseAssumption, NEW old \in Nat, NEW n \in Nat,
         NEW q \in Seq(Nat), NEW all \in Seq(Nat), NEW new \in Seq(Nat),
         Spread(q), \A i \in 1 .. Len(q) : q[i] <= old,
         Continued(q, all, old, n), NewestOf(new, all)
  PROVE  Spread(new) /\ Refilled(q, new, old, n)
<1> USE DEF NewestOf, Continued
<1>0. MaxSize \in Nat \ {0}
  BY DEF SseAssumption
<1>1. PICK lq \in Nat : lq = Len(q)
  BY LenProperties
<1>2. PICK la \in Nat : la = Len(all)
  BY LenProperties
<1>3. PICK ln \in Nat : ln = Len(new)
  BY LenProperties
<1>4. PICK gone \in Nat : gone = la - ln
  <2>1. ln <= la
    BY <1>0, <1>2, <1>3 DEF Lesser
  <2> QED BY <2>1
<1>5. /\ la = lq + n /\ ln + gone = la /\ ln <= MaxSize
      /\ gone > 0 => ln = MaxSize
  BY <1>0, <1>1, <1>2, <1>3, <1>4 DEF Lesser
<1>6. /\ \A i \in 1 .. lq : all[i] = q[i] /\ q[i] \in Nat /\ q[i] <= old
      /\ \A i \in 1 .. n : all[lq + i] = old + i
      /\ \A i, j \in 1 .. lq : i <= j => q[i] + (j - i) <= q[j]
  BY <1>1, ElementOfSeq DEF Spread
<1>7. \A j \in 1 .. ln : gone + j \in 1 .. la /\ new[j] = all[gone + j]
  <2> TAKE j \in 1 .. ln
  <2>1. Len(all) - Len(new) + j = gone + j
    BY <1>2, <1>3, <1>4
  <2>2. new[j] = all[Len(all) - Len(new) + j]
    BY <1>3
  <2>3. gone + j \in 1 .. la
    BY <1>5
  <2> QED BY <2>1, <2>2, <2>3
<1> HIDE DEF NewestOf, Continued
\* The new numbers come after all that was committed.
<1>8. ASSUME NEW i \in 1 .. la
      PROVE  \/ i \in 1 .. lq /\ all[i] = q[i]
             \/ i > lq /\ all[i] = old + (i - lq)
  <2>1. CASE i <= lq
    BY <1>6, <2>1
  <2>2. CASE i > lq
    <3>1. i - lq \in 1 .. n /\ lq + (i - lq) = i
      BY <1>5, <2>2
    <3> QED BY <1>6, <2>2, <3>1
  <2> QED BY <2>1, <2>2
<1>9. ASSUME NEW i \in 1 .. la, NEW j \in 1 .. la, i <= j
      PROVE  all[i] + (j - i) <= all[j]
  <2>1. CASE j <= lq
    <3>1. i \in 1 .. lq /\ j \in 1 .. lq
      BY <1>9, <2>1
    <3>2. q[i] + (j - i) <= q[j]
      BY <1>6, <1>9, <3>1
    <3>3. all[i] = q[i] /\ all[j] = q[j]
      BY <1>6, <3>1
    <3> QED BY <3>2, <3>3
  <2>2. CASE i > lq
    <3>1. all[i] = old + (i - lq)
      BY <1>8, <2>2
    <3>2. all[j] = old + (j - lq)
      BY <1>8, <1>9, <2>2
    <3> QED BY <3>1, <3>2
  <2>3. CASE i <= lq /\ j > lq
    <3>1. /\ i \in 1 .. lq /\ lq \in 1 .. lq
          /\ all[i] = q[i] /\ all[j] = old + (j - lq)
      BY <1>8, <2>3
    <3>2. q[i] + (lq - i) <= q[lq] /\ q[lq] <= old
      BY <1>6, <2>3, <3>1
    <3>3. q[i] \in Nat /\ q[lq] \in Nat
      BY <1>6, <3>1
    <3>4. \A a, b, c, x, y \in Nat :
            a + (b - x) <= c /\ c <= old => a + (y - x) <= old + (y - b)
      OBVIOUS
    <3>5. q[i] + (j - i) <= old + (j - lq)
      <4>1. i \in Nat /\ j \in Nat
        OBVIOUS
      <4> QED BY <3>2, <3>3, <3>4, <4>1
    <3> QED BY <3>1, <3>5
  <2> QED BY <2>1, <2>2, <2>3
<1>10. ASSUME NEW i \in 1 .. ln, NEW j \in 1 .. ln, i <= j
       PROVE  new[i] + (j - i) <= new[j]
  <2>1. /\ gone + i \in 1 .. la /\ gone + j \in 1 .. la
        /\ new[i] = all[gone + i] /\ new[j] = all[gone + j]
    BY <1>7
  <2>2. gone + i <= gone + j /\ (gone + j) - (gone + i) = j - i
    BY <1>10
  <2>3. all[gone + i] + ((gone + j) - (gone + i)) <= all[gone + j]
    BY <1>9, <2>1, <2>2
  <2> QED BY <2>1, <2>2, <2>3
<1>11. ASSUME NEW i \in 1 .. ln
       PROVE  /\ new[i] <= old + n
              /\ new[i] > old \/ \E j \in 1 .. lq : new[i] = q[j]
  <2>1. PICK p \in 1 .. la : new[i] = all[p]
    BY <1>7
  <2>2. CASE p \in 1 .. lq /\ all[p] = q[p]
    <3>1. q[p] \in Nat /\ q[p] <= old
      BY <1>6, <2>2
    <3>2. new[i] <= old + n
      BY <2>1, <2>2, <3>1
    <3> QED BY <2>1, <2>2, <3>2
  <2>3. CASE p > lq /\ all[p] = old + (p - lq)
    <3>1. p - lq \in 1 .. n
      BY <1>5, <2>3
    <3>2. new[i] = old + (p - lq)
      BY <2>1, <2>3
    <3> QED BY <3>1, <3>2
  <2> QED BY <1>8, <2>2, <2>3
<1>12. ASSUME NEW e \in 1 .. old + n, e > old + n - MaxSize,
              e > old \/ \E i \in 1 .. lq : q[i] = e
       PROVE  \E i \in 1 .. ln : new[i] = e
  <2>1. ASSUME NEW p \in 1 .. la, all[p] = e, p > gone
        PROVE  \E i \in 1 .. ln : new[i] = e
    <3>1. p - gone \in 1 .. ln /\ gone + (p - gone) = p
      BY <1>5, <2>1
    <3>2. new[p - gone] = e
      BY <1>7, <2>1, <3>1
    <3> QED BY <3>1, <3>2
  <2>2. CASE e > old
    <3>1. PICK i \in 1 .. n : i = e - old
      BY <1>12, <2>2
    <3>2. lq + i \in 1 .. la /\ all[lq + i] = e
      <4>1. all[lq + i] = old + i
        BY <1>6
      <4>2. old + i = e /\ lq + i \in 1 .. la
        BY <1>5, <3>1
      <4> QED BY <4>1, <4>2
    <3>3. lq + i > gone
      BY <1>0, <1>5, <1>12, <3>1
    <3> QED BY <2>1, <3>2, <3>3
  <2>3. CASE e <= old
    <3>1. PICK p \in 1 .. lq : q[p] = e
      BY <1>12, <2>3
    <3>2. p \in 1 .. la /\ all[p] = e /\ p <= lq /\ lq \in 1 .. lq
      BY <1>5, <1>6, <3>1
    <3>3. q[p] + (lq - p) <= q[lq] /\ q[lq] <= old /\ q[lq] \in Nat
      BY <1>6, <3>1, <3>2
    <3>4. e + (lq - p) <= old
      BY <3>1, <3>3
    <3>5. p > gone
      <4>1. CASE gone = 0
        BY <3>1, <4>1
      <4>2. CASE gone > 0
        BY <1>0, <1>5, <1>12, <3>1, <3>4, <4>2
      <4> QED BY <4>1, <4>2
    <3> QED BY <2>1, <3>2, <3>5
  <2> QED BY <2>2, <2>3
<1> QED BY <1>1, <1>3, <1>10, <1>11, <1>12 DEF Spread, Refilled

-----------------------------------------------------------------------------
\* The inductive invariant.

\* The numbers in a queue increase, so that its newest entry is at least as
\* far from an older one as the two are apart in the queue; all of them were
\* committed, and come after everything the browser received.
QueuesInOrder ==
  \A s \in Subscribers :
    /\ Spread(queue[s])
    /\ \A i \in 1 .. Len(queue[s]) : queue[s][i] <= Len(published)
    /\ \A r \in 1 .. Len(received[s]) :
         /\ received[s][r] <= Len(published)
         /\ \A i \in 1 .. Len(queue[s]) : received[s][r] < queue[s][i]

\* NewestKept is not inductive alone: that a full queue pushes out entries
\* which are no longer among the newest is seen on their numbers, which
\* QueuesInOrder relates to their places.
IInv ==
  /\ TypeOK
  /\ SubscribedWhileOpen
  /\ NewestKept
  /\ QueuesInOrder

-----------------------------------------------------------------------------
\* Invariance.

LEMMA InitIInv == ASSUME SseAssumption, Init PROVE IInv
<1> USE DEF Init, SseAssumption
<1>1. TypeOK
  BY EmptySeq DEF TypeOK
<1>2. SubscribedWhileOpen
  BY DEF SubscribedWhileOpen
<1>3. NewestKept
  BY DEF NewestKept
<1>4. QueuesInOrder
  <2>1. Len(<<>>) = 0 /\ 1 .. 0 = {}
    BY EmptySeq
  <2>2. \A s \in Subscribers : queue[s] = <<>> /\ received[s] = <<>>
    OBVIOUS
  <2> QED BY <2>1, <2>2 DEF QueuesInOrder, Spread
<1> QED BY <1>1, <1>2, <1>3, <1>4 DEF IInv

\* A batch keeps the order of every queue, and every queue keeps the newest.
LEMMA BroadcastKeeps ==
  ASSUME SseAssumption, IInv, NEW batch \in Seq(Kinds), BroadcastBatch(batch)
  PROVE  IInv'
<1> DEFINE entries == [i \in DOMAIN batch |-> Len(published) + i]
<1>1. PICK old \in Nat : old = Len(published)
  BY LenProperties DEF IInv, TypeOK
<1>2. PICK n \in Nat : n = Len(batch)
  BY LenProperties
<1>3. /\ published' \in Seq(Kinds) /\ Len(published') = old + n
      /\ old + n <= MaxEntries /\ MaxEntries \in Nat
      /\ MaxSize \in Nat \ {0}
      /\ UNCHANGED <<subscribers, pc, connected, received, taken, since>>
  BY <1>1, <1>2, ConcatProperties
  DEF IInv, TypeOK, BroadcastBatch, SseAssumption
<1>4. /\ entries \in Seq(Nat) /\ entries \in Seq(1 .. MaxEntries)
      /\ Len(entries) = n
      /\ \A i \in 1 .. n : entries[i] = old + i
  <2>1. entries = [i \in 1 .. n |-> old + i]
    BY <1>1, <1>2, LenProperties
  <2>2. \A i \in 1 .. n : old + i \in 1 .. MaxEntries
    BY <1>3
  <2>3. entries \in [1 .. n -> 1 .. MaxEntries]
    <3> HIDE DEF entries
    <3> QED BY <2>1, <2>2
  <2>4. entries \in Seq(1 .. MaxEntries) /\ 1 .. MaxEntries \subseteq Nat
    <3> HIDE DEF entries
    <3> QED BY <2>3, SeqDef, <1>3
  <2>5. entries \in Seq(Nat)
    BY <2>4, SeqMonotonic
  <2> HIDE DEF entries
  <2> QED BY <2>1, <2>3, <2>4, <2>5, LenProperties
<1> HIDE DEF entries
<1>5. /\ queue \in [Subscribers -> Seq(1 .. MaxEntries)]
      /\ queue' \in [Subscribers -> Seq(1 .. MaxEntries)]
      /\ \A s \in Subscribers : Len(queue'[s]) <= MaxSize
      /\ \A s \in Subscribers : Spread(queue'[s])
      /\ \A s \in Subscribers : \A i \in 1 .. Len(queue'[s]) :
           /\ queue'[s][i] <= old + n
           /\ queue'[s][i] > old
              \/ \E j \in 1 .. Len(queue[s]) : queue'[s][i] = queue[s][j]
      /\ \A s \in subscribers : Refilled(queue[s], queue'[s], old, n)
  <2>1. queue \in [Subscribers -> Seq(1 .. MaxEntries)]
    BY DEF IInv, TypeOK
  <2>2. queue' = [s \in Subscribers |->
                    IF s \in subscribers
                    THEN Pushed(queue[s], entries)[Len(entries)]
                    ELSE queue[s]]
    BY DEF BroadcastBatch, entries
  <2>3. ASSUME NEW s \in Subscribers, s \in subscribers
        PROVE  /\ queue'[s] \in Seq(1 .. MaxEntries) /\ Len(queue'[s]) <= MaxSize
               /\ Spread(queue'[s]) /\ Refilled(queue[s], queue'[s], old, n)
    <3>1. PICK q \in Seq(1 .. MaxEntries) : q = queue[s]
      BY <2>1
    <3>2. PICK all \in Seq(1 .. MaxEntries) : all = q \o entries
      BY <1>4, ConcatProperties
    <3>3. Continued(q, all, old, n)
      <4>1. /\ Len(all) = Len(q) + n
            /\ \A i \in 1 .. Len(q) + n :
                 all[i] = IF i <= Len(q) THEN q[i] ELSE entries[i - Len(q)]
        <5>1. entries \in Seq(1 .. MaxEntries) /\ Len(entries) = n
          BY <1>4
        <5>2. /\ Len(q \o entries) = Len(q) + Len(entries)
              /\ \A i \in 1 .. Len(q) + Len(entries) :
                   (q \o entries)[i] =
                     IF i <= Len(q) THEN q[i] ELSE entries[i - Len(q)]
          BY ONLY <5>1, ConcatProperties, q \in Seq(1 .. MaxEntries)
        <5> QED BY ONLY <3>2, <5>1, <5>2
      <4>2. Len(q) \in Nat
        BY LenProperties
      <4>3. ASSUME NEW i \in 1 .. n PROVE all[Len(q) + i] = old + i
        <5>1. Len(q) + i \in 1 .. Len(q) + n /\ ~(Len(q) + i <= Len(q))
              /\ (Len(q) + i) - Len(q) = i
          BY <4>2
        <5> QED BY <1>4, <4>1, <5>1
      <4> QED BY <4>1, <4>2, <4>3 DEF Continued
    <3>4. PICK new : new = Pushed(q, entries)[Len(entries)]
      OBVIOUS
    <3>5. queue'[s] = new
      BY <2>2, <2>3, <3>1, <3>4
    <3>6. Len(q) <= MaxSize
      BY <3>1 DEF IInv, TypeOK
    <3>7. new \in Seq(1 .. MaxEntries) /\ NewestOf(new, all)
      BY <1>4, <3>2, <3>4, <3>6, PushedNewest
    <3>8. q \in Seq(Nat) /\ all \in Seq(Nat) /\ new \in Seq(Nat)
      BY <1>3, <3>7, SeqMonotonic, 1 .. MaxEntries \subseteq Nat
    <3>9. Spread(q) /\ \A i \in 1 .. Len(q) : q[i] <= old
      BY <1>1, <3>1 DEF IInv, QueuesInOrder
    <3>10. Spread(new) /\ Refilled(q, new, old, n)
      BY <3>3, <3>7, <3>8, <3>9, PutsStayInOrder
    <3>11. Len(new) <= MaxSize
      <4>1. Len(all) \in Nat
        BY LenProperties
      <4> QED BY <1>3, <3>7, <4>1 DEF Lesser, NewestOf
    <3> QED BY <3>1, <3>5, <3>7, <3>10, <3>11
  <2>4. ASSUME NEW s \in Subscribers, s \notin subscribers
        PROVE  queue'[s] = queue[s]
    BY <2>2, <2>4
  <2>5. \A s \in Subscribers :
          /\ Len(queue[s]) <= MaxSize
          /\ Spread(queue[s])
          /\ \A i \in 1 .. Len(queue[s]) :
               queue[s][i] <= old /\ queue[s][i] \in Nat
    <3> TAKE s \in Subscribers
    <3>1. /\ Len(queue[s]) <= MaxSize /\ Spread(queue[s])
          /\ \A i \in 1 .. Len(queue[s]) : queue[s][i] <= old
      BY <1>1 DEF IInv, TypeOK, QueuesInOrder
    <3>2. \A i \in 1 .. Len(queue[s]) : queue[s][i] \in 1 .. MaxEntries
      BY <2>1, ElementOfSeq
    <3> QED BY <1>3, <3>1, <3>2
  <2>6. ASSUME NEW s \in Subscribers
        PROVE  queue'[s] \in Seq(1 .. MaxEntries) /\ Len(queue'[s]) <= MaxSize
    BY <2>1, <2>3, <2>4, <2>5
  <2>7. queue' \in [Subscribers -> Seq(1 .. MaxEntries)]
    BY <2>2, <2>6
  <2>8. ASSUME NEW s \in Subscribers
        PROVE  /\ Spread(queue'[s])
               /\ \A i \in 1 .. Len(queue'[s]) :
                    /\ queue'[s][i] <= old + n
                    /\ \/ queue'[s][i] > old
                       \/ \E j \in 1 .. Len(queue[s]) :
                            queue'[s][i] = queue[s][j]
    <3>1. CASE s \in subscribers
      BY <2>3, <3>1 DEF Refilled
    <3>2. CASE s \notin subscribers
      <4>1. queue'[s] = queue[s]
        BY <2>4, <3>2
      <4>2. \A x \in Nat : x <= old => x <= old + n
        OBVIOUS
      <4> QED BY <2>5, <4>1, <4>2
    <3> QED BY <3>1, <3>2
  <2>9. subscribers \subseteq Subscribers
    BY DEF IInv, TypeOK
  <2>10. \A s \in subscribers : Refilled(queue[s], queue'[s], old, n)
    BY <2>3, <2>9
  <2> QED BY <2>1, <2>6, <2>7, <2>8, <2>10
<1>6. TypeOK'
  BY <1>3, <1>5 DEF IInv, TypeOK
<1>7. SubscribedWhileOpen'
  BY <1>3 DEF IInv, SubscribedWhileOpen
<1>8. NewestKept'
  <2> SUFFICES ASSUME NEW s \in subscribers, NEW e \in 1 .. old + n,
                      e > since[s], e > old + n - MaxSize, e \notin taken[s]
               PROVE  \E i \in 1 .. Len(queue'[s]) : queue'[s][i] = e
    <3>1. DOMAIN published' = 1 .. old + n
      BY <1>3, LenProperties
    <3>2. \A s \in subscribers :
            s \in Subscribers /\ DOMAIN queue'[s] = 1 .. Len(queue'[s])
      BY <1>5, LenProperties DEF IInv, TypeOK
    <3>3. \A s \in subscribers : Len(queue'[s]) <= MaxSize
      BY <1>5, <3>2
    <3>4. ASSUME \A s \in subscribers : \A e \in 1 .. old + n :
                   (e > since[s] /\ e > old + n - MaxSize)
                     => e \in taken[s]
                              \cup {queue'[s][i] : i \in 1 .. Len(queue'[s])}
          PROVE  NewestKept'
      <4>1. /\ Len(published') = old + n
            /\ UNCHANGED <<subscribers, taken, since>>
        BY <1>3
      <4> QED BY <3>1, <3>2, <3>3, <3>4, <4>1 DEF NewestKept
    <3> QED BY <3>4
  <2>1. s \in Subscribers
    BY DEF IInv, TypeOK
  <2>2. CASE e > old
    BY <1>5, <2>2 DEF Refilled
  <2>3. CASE e <= old
    <3>1. e \in 1 .. old /\ e > old - MaxSize
      BY <1>3, <2>3
    <3>2. e \in DOMAIN published
      BY <1>1, <3>1, LenProperties DEF IInv, TypeOK
    <3>3. e \in {queue[s][i] : i \in DOMAIN queue[s]}
      BY <1>1, <3>1, <3>2 DEF IInv, NewestKept
    <3>4. \E i \in 1 .. Len(queue[s]) : queue[s][i] = e
      BY <1>5, <2>1, <3>3, LenProperties
    <3> QED BY <1>5, <3>4 DEF Refilled
  <2> QED BY <2>2, <2>3
<1>9. QueuesInOrder'
  <2>1. ASSUME NEW s \in Subscribers, NEW r \in 1 .. Len(received[s])
        PROVE  /\ received[s][r] <= old + n
               /\ \A i \in 1 .. Len(queue'[s]) : received[s][r] < queue'[s][i]
    <3>0. received[s][r] \in Nat
      <4>1. received[s] \in Seq(1 .. MaxEntries)
        BY DEF IInv, TypeOK
      <4>2. received[s][r] \in 1 .. MaxEntries
        BY <4>1, ElementOfSeq
      <4> QED BY <1>3, <4>2
    <3>1. /\ received[s][r] <= old
          /\ \A j \in 1 .. Len(queue[s]) : received[s][r] < queue[s][j]
      BY <1>1 DEF IInv, QueuesInOrder
    <3>2. \A i \in 1 .. Len(queue'[s]) : queue'[s][i] \in Nat
      BY <1>3, <1>5, ElementOfSeq
    <3>3. \A i \in 1 .. Len(queue'[s]) :
            queue'[s][i] > old
              \/ \E j \in 1 .. Len(queue[s]) : queue'[s][i] = queue[s][j]
      BY <1>5
    <3>4. received[s][r] <= old + n
      BY <3>0, <3>1
    <3>5. ASSUME NEW i \in 1 .. Len(queue'[s])
          PROVE  received[s][r] < queue'[s][i]
      <4>1. CASE queue'[s][i] > old
        BY <3>0, <3>1, <3>2, <4>1
      <4>2. CASE \E j \in 1 .. Len(queue[s]) : queue'[s][i] = queue[s][j]
        BY <3>1, <4>2
      <4> QED BY <3>3, <4>1, <4>2
    <3> QED BY <3>4, <3>5
  <2>2. \A s \in Subscribers : Spread(queue'[s])
    BY <1>5
  <2>3. \A s \in Subscribers : \A i \in 1 .. Len(queue'[s]) :
          queue'[s][i] <= old + n
    BY <1>5
  <2> QED BY <1>3, <2>1, <2>2, <2>3 DEF QueuesInOrder, Spread
<1> QED BY <1>6, <1>7, <1>8, <1>9 DEF IInv

\* A step that adds no subscriber and leaves the entries alone.
LEMMA EntriesAloneKeep ==
  ASSUME IInv, UNCHANGED <<published, queue, received, taken, since>>,
         subscribers' \subseteq subscribers
  PROVE  NewestKept' /\ QueuesInOrder'
<1>1. NewestKept'
  BY DEF IInv, NewestKept
<1>2. QueuesInOrder'
  BY DEF IInv, QueuesInOrder, Spread
<1> QED BY <1>1, <1>2

LEMMA SubscribeKeeps ==
  ASSUME SseAssumption, IInv, NEW s \in Subscribers, Subscribe(s)
  PROVE  IInv'
<1> USE DEF Subscribe
<1>1. Len(published) \in Nat /\ DOMAIN published = 1 .. Len(published)
  BY LenProperties DEF IInv, TypeOK
<1>2. TypeOK'
  BY <1>1 DEF IInv, TypeOK
<1>3. SubscribedWhileOpen'
  BY DEF IInv, TypeOK, SubscribedWhileOpen
<1>4. NewestKept'
  <2> SUFFICES ASSUME NEW t \in subscribers'
               PROVE  /\ Len(queue[t]) <= MaxSize
                      /\ \A e \in DOMAIN published :
                           (e > since'[t] /\ e > Len(published) - MaxSize)
                             => e \in taken[t]
                                  \cup {queue[t][i] : i \in DOMAIN queue[t]}
    BY DEF NewestKept
  <2>1. CASE t = s
    <3>1. since'[t] = Len(published) /\ Len(queue[t]) <= MaxSize
      BY <2>1 DEF IInv, TypeOK
    <3> QED BY <1>1, <3>1
  <2>2. CASE t # s
    <3>1. t \in subscribers /\ t \in Subscribers /\ since'[t] = since[t]
      BY <2>2 DEF IInv, TypeOK
    <3> QED BY <3>1 DEF IInv, NewestKept
  <2> QED BY <2>1, <2>2
<1>5. QueuesInOrder'
  BY DEF IInv, QueuesInOrder, Spread
<1> QED BY <1>2, <1>3, <1>4, <1>5 DEF IInv

\* Get moves the oldest entry of the queue to taken, so that nothing is missed,
\* and what is received comes before what is left.
LEMMA GetKeeps ==
  ASSUME SseAssumption, IInv, NEW s \in Subscribers, Get(s)
  PROVE  IInv'
<1>1. PICK q \in Seq(1 .. MaxEntries) : q = queue[s] /\ q # <<>>
  BY DEF IInv, TypeOK, Get
<1>2. PICK e : e = Head(q)
  OBVIOUS
<1>3. PICK rest : rest = Tail(q)
  OBVIOUS
<1>4. /\ e = q[1] /\ e \in 1 .. MaxEntries
      /\ rest \in Seq(1 .. MaxEntries) /\ Len(rest) = Len(q) - 1
      /\ \A i \in 1 .. Len(rest) : rest[i] = q[i + 1]
      /\ Len(q) \in Nat \ {0} /\ Len(rest) \in Nat
  <2>1. e = q[1]
    BY <1>1, <1>2
  <2>2. Len(q) \in Nat \ {0}
    BY <1>1, EmptySeq
  <2>3. /\ e \in 1 .. MaxEntries /\ rest \in Seq(1 .. MaxEntries)
        /\ Len(rest) = Len(q) - 1
        /\ \A i \in 1 .. Len(rest) : rest[i] = q[i + 1]
    BY <1>1, <1>2, <1>3, HeadTailProperties
  <2> QED BY <2>1, <2>2, <2>3
<1>5. /\ queue' = [queue EXCEPT ![s] = rest]
      /\ taken' = [taken EXCEPT ![s] = @ \cup {e}]
      /\ \/ /\ published[e] \in Wanted[s]
            /\ received' = [received EXCEPT ![s] = Append(@, e)]
            /\ pc' = [pc EXCEPT ![s] = "send"]
         \/ pc' = [pc EXCEPT ![s] = "loop"] /\ received' = received
      /\ UNCHANGED <<subscribers, connected, since, published>>
      /\ pc[s] = "get"
  BY <1>1, <1>2, <1>3 DEF Get, Passes, stream
<1> HIDE DEF Get
<1>6. /\ published \in Seq(Kinds) /\ Len(published) <= MaxEntries
      /\ subscribers \subseteq Subscribers
      /\ queue \in [Subscribers -> Seq(1 .. MaxEntries)]
      /\ received \in [Subscribers -> Seq(1 .. MaxEntries)]
      /\ taken \in [Subscribers -> SUBSET (1 .. MaxEntries)]
      /\ \A t \in Subscribers : Len(queue[t]) <= MaxSize
      /\ MaxSize \in Nat /\ MaxEntries \in Nat
  BY DEF IInv, TypeOK, SseAssumption
<1>7. /\ queue'[s] = rest
      /\ \A t \in Subscribers \ {s} : queue'[t] = queue[t]
      /\ taken'[s] = taken[s] \cup {e}
      /\ \A t \in Subscribers \ {s} : taken'[t] = taken[t] /\ received'[t] = received[t]
      /\ received'[s] \in {received[s], Append(received[s], e)}
  BY <1>5, <1>6
<1>8. /\ received[s] \in Seq(1 .. MaxEntries)
      /\ Append(received[s], e) \in Seq(1 .. MaxEntries)
  BY <1>4, <1>6, AppendProperties
<1>9. TypeOK'
  <2>1. /\ queue' \in [Subscribers -> Seq(1 .. MaxEntries)]
        /\ taken' \in [Subscribers -> SUBSET (1 .. MaxEntries)]
        /\ received' \in [Subscribers -> Seq(1 .. MaxEntries)]
    <3>1. queue' \in [Subscribers -> Seq(1 .. MaxEntries)]
      BY <1>4, <1>5, <1>6
    <3>2. taken' \in [Subscribers -> SUBSET (1 .. MaxEntries)]
      BY <1>4, <1>5, <1>6
    <3>3. received' \in [Subscribers -> Seq(1 .. MaxEntries)]
      BY <1>5, <1>6, <1>8
    <3> QED BY <3>1, <3>2, <3>3
  <2>2. \A t \in Subscribers : Len(queue'[t]) <= MaxSize
    <3>1. Len(q) <= MaxSize
      BY <1>1, <1>6
    <3>2. Len(queue'[s]) <= MaxSize
      BY <1>4, <1>6, <1>7, <3>1
    <3> QED BY <1>6, <1>7, <3>2
  <2> QED BY <1>5, <2>1, <2>2 DEF IInv, TypeOK
<1>10. SubscribedWhileOpen'
  BY <1>5 DEF IInv, TypeOK, SubscribedWhileOpen
<1>11. /\ \A i, j \in 1 .. Len(q) : i <= j => q[i] + (j - i) <= q[j]
       /\ \A i \in 1 .. Len(q) : q[i] \in Nat /\ q[i] <= Len(published)
       /\ \A r \in 1 .. Len(received[s]) :
            /\ received[s][r] <= Len(published)
            /\ \A i \in 1 .. Len(q) : received[s][r] < q[i]
  <2>1. \A i \in 1 .. Len(q) : q[i] \in Nat
    BY <1>6, ElementOfSeq
  <2>2. Spread(q)
    BY <1>1 DEF IInv, QueuesInOrder
  <2>3. /\ \A i \in 1 .. Len(q) : q[i] <= Len(published)
        /\ \A r \in 1 .. Len(received[s]) :
             /\ received[s][r] <= Len(published)
             /\ \A i \in 1 .. Len(q) : received[s][r] < q[i]
    BY <1>1 DEF IInv, QueuesInOrder
  <2> QED BY <2>1, <2>2, <2>3 DEF Spread
<1>12. \A i \in 1 .. Len(q) : i = 1 \/ i - 1 \in 1 .. Len(rest)
  BY <1>4
<1>13. {q[i] : i \in DOMAIN q} \subseteq {e} \cup {rest[i] : i \in DOMAIN rest}
  <2>1. DOMAIN q = 1 .. Len(q) /\ DOMAIN rest = 1 .. Len(rest)
    BY <1>4, LenProperties
  <2>2. ASSUME NEW i \in 1 .. Len(q), i # 1
        PROVE  q[i] \in {rest[j] : j \in 1 .. Len(rest)}
    <3>1. i - 1 \in 1 .. Len(rest) /\ (i - 1) + 1 = i
      BY <1>12, <2>2
    <3>2. rest[i - 1] = q[i]
      BY <1>4, <3>1
    <3> QED BY <3>1, <3>2
  <2>3. \A i \in DOMAIN q : q[i] \in {e} \cup {rest[j] : j \in DOMAIN rest}
    BY <1>4, <2>1, <2>2
  <2> QED BY <2>3
<1>14. NewestKept'
  <2>1. \A t \in subscribers : Len(queue'[t]) <= MaxSize
    BY <1>5, <1>6, <1>9 DEF TypeOK
  <2>2. ASSUME NEW t \in subscribers
        PROVE  taken[t] \cup {queue[t][i] : i \in DOMAIN queue[t]}
                 \subseteq taken'[t] \cup {queue'[t][i] : i \in DOMAIN queue'[t]}
    <3>1. CASE t = s
      <4>1. queue[t] = q /\ queue'[t] = rest /\ taken'[t] = taken[t] \cup {e}
        BY <1>1, <1>7, <3>1
      <4>2. {queue[t][i] : i \in DOMAIN queue[t]}
              \subseteq {e} \cup {queue'[t][i] : i \in DOMAIN queue'[t]}
        BY <1>13, <4>1
      <4> QED BY <4>1, <4>2
    <3>2. CASE t # s
      <4>1. queue'[t] = queue[t] /\ taken'[t] = taken[t]
        BY <1>6, <1>7, <3>2
      <4> QED BY <4>1
    <3> QED BY <3>1, <3>2
  <2>3. ASSUME NEW t \in subscribers, NEW n \in DOMAIN published,
               n > since[t], n > Len(published) - MaxSize
        PROVE  n \in taken'[t] \cup {queue'[t][i] : i \in DOMAIN queue'[t]}
    <3>1. n \in taken[t] \cup {queue[t][i] : i \in DOMAIN queue[t]}
      BY <2>3 DEF IInv, NewestKept
    <3> QED BY <2>2, <3>1
  <2> QED BY <1>5, <2>1, <2>3 DEF NewestKept
<1>15. QueuesInOrder'
  <2>1. Spread(rest) /\ \A i \in 1 .. Len(rest) :
          rest[i] \in Nat /\ rest[i] <= Len(published) /\ e < rest[i]
    <3>1. \A i \in 1 .. Len(rest) :
            /\ i + 1 \in 1 .. Len(q) /\ 1 \in 1 .. Len(q)
            /\ rest[i] = q[i + 1] /\ 1 <= i + 1
      BY <1>4
    <3>2. \A i \in 1 .. Len(rest) :
            rest[i] \in Nat /\ rest[i] <= Len(published)
      BY <1>11, <3>1
    <3>3. ASSUME NEW i \in 1 .. Len(rest)
          PROVE  e < rest[i]
      <4>1. q[1] + ((i + 1) - 1) <= q[i + 1]
        BY <1>11, <3>1
      <4>2. e = q[1] /\ e \in Nat /\ rest[i] = q[i + 1] /\ rest[i] \in Nat
        <5>1. 1 .. MaxEntries \subseteq Nat
          BY <1>6
        <5> QED BY <1>4, <3>1, <3>2, <5>1
      <4>3. i \in Nat /\ i >= 1
        OBVIOUS
      <4>4. \A a, b, c \in Nat : c >= 1 /\ a + ((c + 1) - 1) <= b => a < b
        OBVIOUS
      <4> QED BY <4>1, <4>2, <4>3, <4>4
    <3>4. ASSUME NEW i \in 1 .. Len(rest), NEW j \in 1 .. Len(rest), i <= j
          PROVE  rest[i] + (j - i) <= rest[j]
      <4>1. q[i + 1] + ((j + 1) - (i + 1)) <= q[j + 1]
        <5>1. i + 1 <= j + 1
          BY <3>4
        <5> QED BY <1>11, <3>1, <5>1
      <4>2. (j + 1) - (i + 1) = j - i
        OBVIOUS
      <4> QED BY <3>1, <4>1, <4>2
    <3> QED BY <3>2, <3>3, <3>4 DEF Spread
  <2>2. \A r \in 1 .. Len(received'[s]) :
          /\ received'[s][r] <= Len(published)
          /\ \A i \in 1 .. Len(rest) : received'[s][r] < rest[i]
    <3>1. \A r \in 1 .. Len(received[s]) : \A i \in 1 .. Len(rest) :
            received[s][r] < rest[i]
      <4> TAKE r \in 1 .. Len(received[s])
      <4> TAKE i \in 1 .. Len(rest)
      <4>1. i + 1 \in 1 .. Len(q) /\ rest[i] = q[i + 1]
        BY <1>4
      <4> QED BY <1>11, <4>1
    <3>2. e <= Len(published)
      BY <1>4, <1>11
    <3>3. CASE received'[s] = received[s]
      BY <1>11, <3>1, <3>3
    <3>4. CASE received'[s] = Append(received[s], e)
      <4>1. /\ Len(received'[s]) = Len(received[s]) + 1
            /\ Len(received[s]) \in Nat
            /\ \A r \in 1 .. Len(received[s]) : received'[s][r] = received[s][r]
            /\ received'[s][Len(received[s]) + 1] = e
        BY <1>4, <1>8, <3>4, AppendProperties, LenProperties
      <4>2. \A r \in 1 .. Len(received'[s]) :
              r \in 1 .. Len(received[s]) \/ r = Len(received[s]) + 1
        BY <4>1
      <4> QED BY <1>11, <2>1, <3>1, <3>2, <4>1, <4>2
    <3> QED BY <1>7, <3>3, <3>4
  <2>3. ASSUME NEW t \in Subscribers, t # s
        PROVE  /\ queue'[t] = queue[t] /\ received'[t] = received[t]
    BY <1>7, <2>3
  <2>4. ASSUME NEW t \in Subscribers
        PROVE  /\ Spread(queue'[t])
               /\ \A i \in 1 .. Len(queue'[t]) : queue'[t][i] <= Len(published)
               /\ \A r \in 1 .. Len(received'[t]) :
                    /\ received'[t][r] <= Len(published)
                    /\ \A i \in 1 .. Len(queue'[t]) :
                         received'[t][r] < queue'[t][i]
    <3>1. CASE t = s
      BY <1>7, <2>1, <2>2, <3>1
    <3>2. CASE t # s
      <4>1. queue'[t] = queue[t] /\ received'[t] = received[t]
        BY <2>3, <3>2
      <4> QED BY <4>1 DEF IInv, QueuesInOrder
    <3> QED BY <3>1, <3>2
  <2>5. published' = published
    BY <1>5
  <2> QED BY <2>4, <2>5 DEF QueuesInOrder, Spread
<1> QED BY <1>9, <1>10, <1>14, <1>15 DEF IInv

\* The batches of a step are sequences of entries.
LEMMA BatchIsSeq ==
  ASSUME NEW n \in 1 .. MaxBatch, SseAssumption, NEW batch \in [1 .. n -> Kinds]
  PROVE  batch \in Seq(Kinds) /\ Len(batch) \in Nat \ {0}
<1>1. n \in Nat
  BY DEF SseAssumption
<1> QED BY <1>1, SeqDef, LenProperties

LEMMA NextIInv == ASSUME SseAssumption, IInv, [Next]_vars PROVE IInv'
<1> USE DEF IInv
<1>1. CASE UNCHANGED vars
  BY <1>1, EntriesAloneKeep DEF vars, TypeOK, SubscribedWhileOpen
<1>2. ASSUME NEW n \in 1 .. MaxBatch, NEW batch \in [1 .. n -> Kinds],
             BroadcastBatch(batch)
      PROVE  IInv'
  BY <1>2, BatchIsSeq, BroadcastKeeps
<1>3. ASSUME NEW s \in Subscribers, Subscribe(s)
      PROVE  IInv'
  BY <1>3, SubscribeKeeps
<1>4. ASSUME NEW s \in Subscribers, Start(s)
      PROVE  IInv'
  <2>1. TypeOK' /\ SubscribedWhileOpen'
    BY <1>4 DEF Start, stream, TypeOK, SubscribedWhileOpen
  <2> QED BY <1>4, <2>1, EntriesAloneKeep DEF Start, stream
<1>5. ASSUME NEW s \in Subscribers, Loop(s)
      PROVE  IInv'
  <2>1. TypeOK' /\ SubscribedWhileOpen'
    BY <1>5 DEF Loop, Unsubscribe, stream, TypeOK, SubscribedWhileOpen
  <2>2. UNCHANGED <<published, queue, received, taken, since>>
        /\ subscribers' \subseteq subscribers
    BY <1>5 DEF Loop, Unsubscribe, stream
  <2> QED BY <2>1, <2>2, EntriesAloneKeep
<1>6. ASSUME NEW s \in Subscribers, Get(s)
      PROVE  IInv'
  BY <1>6, GetKeeps
<1>7. ASSUME NEW s \in Subscribers, Timeout(s)
      PROVE  IInv'
  <2>1. TypeOK' /\ SubscribedWhileOpen'
    BY <1>7 DEF Timeout, Unsubscribe, TypeOK, SubscribedWhileOpen
  <2>2. UNCHANGED <<published, queue, received, taken, since>>
        /\ subscribers' \subseteq subscribers
    BY <1>7 DEF Timeout, Unsubscribe
  <2> QED BY <2>1, <2>2, EntriesAloneKeep
<1>8. ASSUME NEW s \in Subscribers, Sent(s)
      PROVE  IInv'
  <2>1. TypeOK' /\ SubscribedWhileOpen'
    BY <1>8 DEF Sent, stream, TypeOK, SubscribedWhileOpen
  <2> QED BY <1>8, <2>1, EntriesAloneKeep DEF Sent, stream
<1>9. ASSUME NEW s \in Subscribers, Disconnect(s)
      PROVE  IInv'
  <2>1. TypeOK' /\ SubscribedWhileOpen'
    BY <1>9 DEF Disconnect, TypeOK, SubscribedWhileOpen
  <2> QED BY <1>9, <2>1, EntriesAloneKeep DEF Disconnect
<1>10. ASSUME NEW s \in Subscribers, Cancel(s)
       PROVE  IInv'
  <2>1. TypeOK' /\ SubscribedWhileOpen'
    BY <1>10 DEF Cancel, Unsubscribe, TypeOK, SubscribedWhileOpen
  <2>2. UNCHANGED <<published, queue, received, taken, since>>
        /\ subscribers' \subseteq subscribers
    BY <1>10 DEF Cancel, Unsubscribe
  <2> QED BY <2>1, <2>2, EntriesAloneKeep
<1> HIDE DEF IInv
<1> QED BY <1>1, <1>2, <1>3, <1>4, <1>5, <1>6, <1>7, <1>8, <1>9, <1>10
        DEF Next, GeneratorStep

\* The inductive invariant holds in every reachable state, whatever the
\* filters, the capacity and the size of the batches (sse.py:12-53,
\* logs.py:366-402).
THEOREM SseInvariant == Spec => []IInv
<1>1. Init => IInv
  BY InitIInv, SseAssumption
<1>2. IInv /\ [Next]_vars => IInv'
  BY NextIInv, SseAssumption
<1> QED BY <1>1, <1>2, PTL DEF Spec

\* Every queue stays within its capacity and holds committed entries
\* (sse.py:21-23).
THEOREM SseTypes == Spec => []TypeOK
<1>1. IInv => TypeOK
  BY DEF IInv
<1> QED BY <1>1, SseInvariant, PTL

\* A request is subscribed exactly while its stream is open (sse.py:21-31,
\* logs.py:366 and 401).
THEOREM SseSubscribedWhileOpen == Spec => []SubscribedWhileOpen
<1>1. IInv => SubscribedWhileOpen
  BY DEF IInv
<1> QED BY <1>1, SseInvariant, PTL

\* A queue that overflows gives up its oldest entries only (sse.py:43-51).
THEOREM SseNewestKept == Spec => []NewestKept
<1>1. IInv => NewestKept
  BY DEF IInv
<1> QED BY <1>1, SseInvariant, PTL

-----------------------------------------------------------------------------
\* Refinement.

\* What Get sends comes after everything sent before, so the feed can receive it.
LEMMA GetReceives ==
  ASSUME SseAssumption, IInv, NEW s \in Subscribers, Get(s)
  PROVE  Feed!FeedNext \/ UNCHANGED Feed!feedVars
<1>1. PICK e : e = Head(queue[s])
  OBVIOUS
<1>2. /\ queue[s] \in Seq(1 .. MaxEntries) /\ queue[s] # <<>>
      /\ received[s] \in Seq(1 .. MaxEntries) /\ published \in Seq(Kinds)
      /\ Len(published) \in Nat /\ MaxEntries \in Nat
  BY LenProperties DEF IInv, TypeOK, Get, SseAssumption
<1>3. 1 \in 1 .. Len(queue[s]) /\ e = queue[s][1] /\ e \in 1 .. MaxEntries
  <2>1. Len(queue[s]) \in Nat \ {0}
    BY <1>2, EmptySeq
  <2>2. e = queue[s][1]
    BY <1>1, <1>2
  <2> QED BY <1>2, <2>1, <2>2, ElementOfSeq
<1>4. e \in DOMAIN published
  <2>1. e <= Len(published)
    BY <1>3 DEF IInv, QueuesInOrder
  <2> QED BY <1>2, <1>3, <2>1, LenProperties
<1>5. CASE received' = received
  BY <1>5 DEF Get, stream, Feed!feedVars
<1>6. CASE Passes(s, e) /\ received' = [received EXCEPT ![s] = Append(@, e)]
  <2>1. e > Feed!Newest(s)
    <3>1. CASE received[s] = <<>>
      BY <1>3, <3>1 DEF Feed!Newest
    <3>2. CASE received[s] # <<>>
      <4>1. Len(received[s]) \in 1 .. Len(received[s])
        BY <1>2, <3>2, EmptySeq
      <4>2. /\ received[s][Len(received[s])] < queue[s][1]
            /\ received[s][Len(received[s])] \in Nat
        <5>1. received[s][Len(received[s])] \in Nat
          BY <1>2, <4>1, ElementOfSeq
        <5>2. received[s][Len(received[s])] < queue[s][1]
          BY <1>3, <4>1 DEF IInv, QueuesInOrder
        <5> QED BY <5>1, <5>2
      <4> QED BY <1>3, <3>2, <4>2 DEF Feed!Newest
    <3> QED BY <3>1, <3>2
  <2>2. Feed!Receive(s, e)
    BY <1>6, <2>1 DEF Feed!Receive, Passes, Get, stream
  <2> QED BY <1>4, <2>2 DEF Feed!FeedNext
<1> QED BY <1>1, <1>5, <1>6 DEF Get

\* A batch is published at the end of what was.
LEMMA BroadcastPublishes ==
  ASSUME SseAssumption, IInv, NEW batch \in Seq(Kinds),
         Len(batch) \in Nat \ {0}, BroadcastBatch(batch)
  PROVE  Feed!Publish
<1>1. published \in Seq(Kinds) /\ published' = published \o batch
  BY DEF IInv, TypeOK, BroadcastBatch
<1>2. /\ published' \in Seq(Kinds)
      /\ Len(published') = Len(published) + Len(batch)
      /\ Len(published) \in Nat
      /\ \A i \in 1 .. Len(published) : published'[i] = published[i]
  BY <1>1, ConcatProperties, LenProperties
<1>3. SubSeq(published, 1, Len(published)) = SubSeq(published', 1, Len(published))
  BY <1>2
<1>4. Len(published) <= Len(published') /\ published # published'
  BY <1>2
<1> QED BY <1>2, <1>3, <1>4
        DEF Feed!Publish, Feed!IsStrictPrefix, Feed!IsPrefix, BroadcastBatch

\* The stream implements the feed: entries are received at most once, in commit
\* order, and only those that pass the filters (logs.py:371-399).
THEOREM SseImplementsFeed == Spec => FeedSpec
<1>1. Init => Feed!FeedInit
  BY DEF Init, Feed!FeedInit
<1>2. IInv /\ [Next]_vars => [Feed!FeedNext]_(Feed!feedVars)
  <2> SUFFICES ASSUME IInv, [Next]_vars
               PROVE  Feed!FeedNext \/ UNCHANGED Feed!feedVars
    OBVIOUS
  <2>1. ASSUME NEW n \in 1 .. MaxBatch, NEW batch \in [1 .. n -> Kinds],
               BroadcastBatch(batch)
        PROVE  Feed!FeedNext
    BY <2>1, BatchIsSeq, BroadcastPublishes, SseAssumption DEF Feed!FeedNext
  <2>2. ASSUME NEW s \in Subscribers, Get(s)
        PROVE  Feed!FeedNext \/ UNCHANGED Feed!feedVars
    BY <2>2, GetReceives, SseAssumption
  <2>3. ASSUME NEW s \in Subscribers,
               Subscribe(s) \/ Start(s) \/ Loop(s) \/ Timeout(s) \/ Sent(s)
                 \/ Disconnect(s) \/ Cancel(s)
        PROVE  UNCHANGED Feed!feedVars
    BY <2>3 DEF Subscribe, Start, Loop, Timeout, Sent, Disconnect, Cancel,
                stream, Feed!feedVars
  <2>4. CASE UNCHANGED vars
    BY <2>4 DEF vars, Feed!feedVars
  <2> QED BY <2>1, <2>2, <2>3, <2>4 DEF Next, GeneratorStep
<1> QED BY <1>1, <1>2, SseInvariant, PTL DEF Spec, FeedSpec, Feed!FeedSpec

=============================================================================
