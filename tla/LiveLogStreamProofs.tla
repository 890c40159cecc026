-------------------------- MODULE LiveLogStreamProofs --------------------------
(***************************************************************************)
(* Proofs about LiveLogStream, for every value of its constants: the end   *)
(* of a selection stays on its row, and, as long as searches are asked for *)
(* with the Enter key, the rows on the screen pass the filters that are    *)
(* set and the pages of the history leave no hole.                         *)
(***************************************************************************)
EXTENDS LiveLogStream, SequenceTheorems, WellFoundedInduction, TLAPS

\* Induction over the naturals, for a set.
LEMMA NatSetInduction ==
  ASSUME NEW S, 0 \in S, \A n \in Nat : n \in S => n + 1 \in S
  PROVE  Nat \subseteq S
<1>1. SUFFICES ASSUME Nat \ S # {} PROVE FALSE
  OBVIOUS
<1>2. PICK m \in Nat \ S : \A n \in Nat \ S : <<n, m>> \notin OpToRel(<, Nat)
  BY <1>1, NatLessThanWellFounded, WFMin
<1>3. \A n \in Nat \ S : ~ (n < m)
  BY <1>2 DEF OpToRel
<1>4. m - 1 \in Nat /\ m - 1 < m /\ (m - 1) + 1 = m
  OBVIOUS
<1>5. m - 1 \in S
  BY <1>3, <1>4
<1> QED BY <1>4, <1>5

-----------------------------------------------------------------------------
\* The rows that pass a filter.

\* The recursion of Passing has a solution.
LEMMA PassingUnfold ==
  ASSUME NEW K, NEW t \in Seq(K), NEW f
  PROVE  /\ Passing(t, f)[0] = <<>>
         /\ \A n \in 0 .. Len(t) : n # 0 =>
              Passing(t, f)[n] =
                IF Passes(f, t[n], n) THEN <<n>> \o Passing(t, f)[n - 1]
                                      ELSE Passing(t, f)[n - 1]
<1> DEFINE Turn(g, n) == IF Passes(f, t[n], n) THEN <<n>> \o g[n - 1] ELSE g[n - 1]
           Solves(g, m) == g = [n \in 0 .. m |-> IF n = 0 THEN <<>> ELSE Turn(g, n)]
           Solved == {m \in Nat : \E g : Solves(g, m)}
<1>1. 0 \in Solved
  <2>1. Solves([n \in 0 .. 0 |-> <<>>], 0)
    OBVIOUS
  <2> QED BY <2>1
<1>2. ASSUME NEW m \in Nat, m \in Solved
      PROVE  m + 1 \in Solved
  <2>1. PICK g : Solves(g, m)
    BY <1>2
  <2> DEFINE h == [n \in 0 .. m + 1 |-> IF n = m + 1 THEN Turn(g, m + 1) ELSE g[n]]
  <2>2. \A n \in 0 .. m : g[n] = IF n = 0 THEN <<>> ELSE Turn(g, n)
    BY <2>1
  <2>3. \A n \in 0 .. m + 1 : h[n] = IF n = 0 THEN <<>> ELSE Turn(h, n)
    <3> TAKE n \in 0 .. m + 1
    <3>1. CASE n = m + 1
      BY <3>1
    <3>2. CASE n # m + 1
      <4>1. n \in 0 .. m /\ (n # 0 => n - 1 \in 0 .. m)
        BY <3>2
      <4> QED BY <2>2, <4>1
    <3> QED BY <3>1, <3>2
  <2>4. Solves(h, m + 1)
    BY <2>3
  <2> HIDE DEF h
  <2> QED BY <2>4
<1>3. Len(t) \in Solved
  BY <1>1, <1>2, NatSetInduction, LenProperties
<1>4. PICK g : Solves(g, Len(t))
  BY <1>3
<1>5. Solves(Passing(t, f), Len(t))
  BY <1>4 DEF Passing
<1>6. Len(t) \in Nat /\ 0 \in 0 .. Len(t)
  BY LenProperties
<1> QED BY <1>5, <1>6

Decreasing(s) == \A i, j \in 1 .. Len(s) : i < j => s[j] < s[i]

\* The rows up to n that pass, each once, newest first.
Lists(s, t, f, n) ==
  /\ s \in Seq(1 .. n)
  /\ Decreasing(s)
  /\ \A k \in 1 .. n : Passes(f, t[k], k) => \E i \in 1 .. Len(s) : s[i] = k
  /\ \A i \in 1 .. Len(s) : s[i] \in 1 .. n /\ Passes(f, t[s[i]], s[i])

LEMMA PassingRows ==
  ASSUME NEW K, NEW t \in Seq(K), NEW f
  PROVE  \A n \in 0 .. Len(t) : Lists(Passing(t, f)[n], t, f, n)
<1> DEFINE Fine == {n \in Nat : n <= Len(t) => Lists(Passing(t, f)[n], t, f, n)}
<1>0. /\ Len(t) \in Nat /\ Passing(t, f)[0] = <<>>
      /\ \A n \in 0 .. Len(t) : n # 0 =>
           Passing(t, f)[n] =
             IF Passes(f, t[n], n) THEN <<n>> \o Passing(t, f)[n - 1]
                                   ELSE Passing(t, f)[n - 1]
  BY LenProperties, PassingUnfold
<1>1. 0 \in Fine
  <2>1. Lists(<<>>, t, f, 0)
    BY EmptySeq DEF Decreasing, Lists
  <2> QED BY <1>0, <2>1
<1>2. ASSUME NEW n \in Nat, n \in Fine
      PROVE  n + 1 \in Fine
  <2> SUFFICES ASSUME n + 1 <= Len(t) PROVE Lists(Passing(t, f)[n + 1], t, f, n + 1)
    OBVIOUS
  <2> DEFINE s == Passing(t, f)[n]
             z == Passing(t, f)[n + 1]
  <2>1. Lists(s, t, f, n)
    BY <1>0, <1>2
  <2>2. z = IF Passes(f, t[n + 1], n + 1) THEN <<n + 1>> \o s ELSE s
    <3>1. n + 1 \in 0 .. Len(t) /\ n + 1 # 0 /\ (n + 1) - 1 = n
      BY <1>0
    <3> QED BY <1>0, <3>1
  <2> HIDE DEF s, z
  <2> USE DEF Lists
  <2>3. PICK len \in Nat : len = Len(s)
    BY <2>1, LenProperties
  <2>4. ASSUME ~ Passes(f, t[n + 1], n + 1) PROVE Lists(z, t, f, n + 1)
    <3>1. z = s
      BY <2>2, <2>4
    <3>2. s \in Seq(1 .. n + 1)
      BY <2>1, SeqDef
    <3>3. \A k \in 1 .. n + 1 : Passes(f, t[k], k) => k \in 1 .. n
      BY <2>4
    <3> QED BY <2>1, <3>1, <3>2, <3>3
  <2>5. ASSUME Passes(f, t[n + 1], n + 1) PROVE Lists(z, t, f, n + 1)
    <3>1. z = <<n + 1>> \o s
      BY <2>2, <2>5
    <3>2. s \in Seq(1 .. n + 1) /\ <<n + 1>> \in Seq(1 .. n + 1)
      BY <2>1, SeqDef
    <3>3. z \in Seq(1 .. n + 1) /\ Len(z) = len + 1
      BY <2>3, <3>1, <3>2, ConcatProperties
    <3>4. z[1] = n + 1 /\ \A i \in 2 .. len + 1 : z[i] = s[i - 1]
      BY <2>3, <3>1, <3>2, ConcatProperties
    <3>5. \A i \in 1 .. len : z[i + 1] = s[i] /\ s[i] \in 1 .. n
      BY <2>1, <2>3, <3>4
    <3>6. Decreasing(z)
      <4> SUFFICES ASSUME NEW i \in 1 .. len + 1, NEW j \in 1 .. len + 1, i < j
                   PROVE  z[j] < z[i]
        BY <3>3 DEF Decreasing
      <4>1. j - 1 \in 1 .. len /\ z[j] = s[j - 1] /\ s[j - 1] \in 1 .. n
        BY <2>1, <2>3, <3>4
      <4>2. CASE i = 1
        BY <3>4, <4>1, <4>2
      <4>3. CASE i # 1
        <5>1. i - 1 \in 1 .. len /\ z[i] = s[i - 1] /\ i - 1 < j - 1
          BY <3>4, <4>3
        <5> QED BY <2>1, <2>3, <4>1, <5>1 DEF Decreasing
      <4> QED BY <4>2, <4>3
    <3>7. \A k \in 1 .. n + 1 : Passes(f, t[k], k) => \E i \in 1 .. len + 1 : z[i] = k
      <4> TAKE k \in 1 .. n + 1
      <4> HAVE Passes(f, t[k], k)
      <4>1. CASE k = n + 1
        <5>1. 1 \in 1 .. len + 1
          BY <2>3
        <5> QED BY <3>4, <4>1, <5>1
      <4>2. CASE k # n + 1
        <5>1. k \in 1 .. n
          BY <4>2
        <5>2. PICK i \in 1 .. len : s[i] = k
          BY <2>1, <2>3, <5>1
        <5>3. i + 1 \in 1 .. len + 1
          BY <2>3
        <5> QED BY <3>5, <5>2, <5>3
      <4> QED BY <4>1, <4>2
    <3>8. \A i \in 1 .. len + 1 : z[i] \in 1 .. n + 1 /\ Passes(f, t[z[i]], z[i])
      <4> TAKE i \in 1 .. len + 1
      <4>1. CASE i = 1
        BY <2>5, <3>4, <4>1
      <4>2. CASE i # 1
        <5>1. i - 1 \in 1 .. len /\ z[i] = s[i - 1]
          BY <3>4, <4>2
        <5> QED BY <2>1, <2>3, <5>1
      <4> QED BY <4>1, <4>2
    <3> QED BY <3>3, <3>6, <3>7, <3>8
  <2>6. Lists(z, t, f, n + 1)
    BY <2>4, <2>5
  <2> QED BY <2>6 DEF z
<1>3. Nat \subseteq Fine
  BY <1>1, <1>2, NatSetInduction
<1> QED BY <1>0, <1>3

\* A row that is committed later does not change what passed before it.
LEMMA PassingAppend ==
  ASSUME NEW K, NEW t \in Seq(K), NEW x \in K, NEW f
  PROVE  \A n \in 0 .. Len(t) : Passing(Append(t, x), f)[n] = Passing(t, f)[n]
<1> DEFINE u == Append(t, x)
           Fine == {n \in Nat : n <= Len(t) => Passing(u, f)[n] = Passing(t, f)[n]}
<1>0. /\ Len(t) \in Nat /\ u \in Seq(K) /\ Len(u) = Len(t) + 1
      /\ \A i \in 1 .. Len(t) : u[i] = t[i]
  BY LenProperties, AppendProperties
<1> HIDE DEF u
<1>U. ASSUME NEW v \in Seq(K)
      PROVE  /\ Passing(v, f)[0] = <<>>
             /\ \A n \in 0 .. Len(v) : n # 0 =>
                  Passing(v, f)[n] =
                    IF Passes(f, v[n], n) THEN <<n>> \o Passing(v, f)[n - 1]
                                          ELSE Passing(v, f)[n - 1]
  BY PassingUnfold
<1>1. 0 \in Fine
  <2> QED BY <1>0, <1>U
<1>2. ASSUME NEW n \in Nat, n \in Fine
      PROVE  n + 1 \in Fine
  <2> SUFFICES ASSUME n + 1 <= Len(t) PROVE Passing(u, f)[n + 1] = Passing(t, f)[n + 1]
    OBVIOUS
  <2>1. Passing(u, f)[n] = Passing(t, f)[n] /\ u[n + 1] = t[n + 1]
    BY <1>0, <1>2
  <2>2. n + 1 \in 0 .. Len(t) /\ n + 1 \in 0 .. Len(u) /\ n + 1 # 0 /\ (n + 1) - 1 = n
    BY <1>0
  <2>3. Passing(t, f)[n + 1] =
          IF Passes(f, t[n + 1], n + 1) THEN <<n + 1>> \o Passing(t, f)[n]
                                        ELSE Passing(t, f)[n]
    BY <1>U, <2>2
  <2>4. Passing(u, f)[n + 1] =
          IF Passes(f, u[n + 1], n + 1) THEN <<n + 1>> \o Passing(u, f)[n]
                                        ELSE Passing(u, f)[n]
    BY <1>0, <1>U, <2>2
  <2> QED BY <2>1, <2>3, <2>4
<1>3. Nat \subseteq Fine
  BY <1>1, <1>2, NatSetInduction
<1> QED BY <1>0, <1>3 DEF u

-----------------------------------------------------------------------------
\* Pages.

AllPassing(t, f) == Passing(t, f)[Len(t)]

LEMMA AllPassingRows ==
  ASSUME NEW K, NEW t \in Seq(K), NEW f
  PROVE  Lists(AllPassing(t, f), t, f, Len(t))
<1>1. Len(t) \in 0 .. Len(t)
  BY LenProperties
<1> QED BY <1>1, PassingRows DEF AllPassing

\* Rows of the table that pass a filter.
Passed(t, f, S) == \A n \in S : n \in 1 .. Len(t) /\ Passes(f, t[n], n)

\* Of the rows up to top that pass, S has those newer than some row of S, or all
\* when the last page is reached, and the first ones in the order of the pages.
Covers(S, t, f, depth, top, last) ==
  /\ \A n \in 1 .. top :
       Passes(f, t[n], n) /\ (last \/ \E m \in S : m < n) => n \in S
  /\ \A i \in 1 .. Len(AllPassing(t, f)) :
       i <= depth /\ AllPassing(t, f)[i] <= top => AllPassing(t, f)[i] \in S

\* A page is a stretch of the rows that pass.
Stretch(p, all, from, len, total, last) ==
  /\ len = Len(p.rows) /\ total = Len(all) /\ p.total = total
  /\ last = (IF from + PageSize < total THEN from + PageSize ELSE total)
  /\ len = IF from < last THEN last - from ELSE 0
  /\ p.newest = Len(rows)
  /\ p.rows \in Seq(1 .. Len(rows))
  /\ \A i \in 1 .. len : from + i \in 1 .. total /\ p.rows[i] = all[from + i]

LEMMA PageStretch ==
  ASSUME rows \in Seq(Kinds), NEW f, NEW from \in Nat
  PROVE  \E len, total, last \in Nat :
           Stretch(Page(f, from), AllPassing(rows, f), from, len, total, last)
<1> DEFINE M == AllPassing(rows, f)
           last == IF from + PageSize < Len(M) THEN from + PageSize ELSE Len(M)
           s == SubSeq(M, from + 1, last)
<1>1. M \in Seq(1 .. Len(rows))
  BY AllPassingRows DEF Lists
<1>2. PICK total \in Nat : total = Len(M)
  BY <1>1, LenProperties
<1>3. PageSize \in Nat \ {0}
  BY StreamAssumption
<1>4. Page(f, from) = [rows |-> s, total |-> Len(M), newest |-> Len(rows)]
  BY DEF Page, Matching, AllPassing
<1> HIDE DEF M
<1>5. /\ last \in Nat /\ last <= total
      /\ last = (IF from + PageSize < total THEN from + PageSize ELSE total)
  BY <1>2, <1>3
<1> HIDE DEF last
<1>6. \A i \in from + 1 .. last : M[i] \in 1 .. Len(rows)
  <2> TAKE i \in from + 1 .. last
  <2>1. i \in 1 .. Len(M)
    BY <1>2, <1>5
  <2> QED BY <1>1, <2>1, ElementOfSeq
<1>7. /\ s \in Seq(1 .. Len(rows))
      /\ Len(s) = IF from + 1 <= last THEN last - (from + 1) + 1 ELSE 0
      /\ \A i \in 1 .. last - (from + 1) + 1 : s[i] = M[(from + 1) + i - 1]
  <2>1. from + 1 \in Int /\ last \in Int
    BY <1>5
  <2> QED BY <1>6, <2>1, SubSeqProperties
<1> HIDE DEF s
<1>8. Len(s) \in Nat /\ Len(s) = IF from < last THEN last - from ELSE 0
  BY <1>5, <1>7, LenProperties
<1>9. \A i \in 1 .. Len(s) : from + i \in 1 .. total /\ s[i] = M[from + i]
  <2> TAKE i \in 1 .. Len(s)
  <2>1. i \in 1 .. last - (from + 1) + 1 /\ (from + 1) + i - 1 = from + i /\ from + i <= last
    BY <1>5, <1>8
  <2> QED BY <1>2, <1>5, <1>7, <2>1
<1>10. Page(f, from).rows = s /\ Page(f, from).total = total /\ Page(f, from).newest = Len(rows)
  BY <1>2, <1>4
<1> QED BY <1>2, <1>5, <1>7, <1>8, <1>9, <1>10 DEF M, Stretch

\* The rows of a page pass its filter.
LEMMA PageRows ==
  ASSUME rows \in Seq(Kinds), NEW f, NEW from \in Nat
  PROVE  /\ Page(f, from).rows \in Seq(1 .. Len(rows))
         /\ Page(f, from).newest = Len(rows)
         /\ Passed(rows, f, Range(Page(f, from).rows))
<1>0. PICK len, all, last \in Nat :
        Stretch(Page(f, from), AllPassing(rows, f), from, len, all, last)
  BY PageStretch
<1>1. /\ len = Len(Page(f, from).rows) /\ all = Len(AllPassing(rows, f))
      /\ Page(f, from).newest = Len(rows)
      /\ Page(f, from).rows \in Seq(1 .. Len(rows))
      /\ \A i \in 1 .. len :
           /\ from + i \in 1 .. all
           /\ Page(f, from).rows[i] = AllPassing(rows, f)[from + i]
  BY <1>0 DEF Stretch
<1>2. DOMAIN Page(f, from).rows = 1 .. len
  BY <1>1, LenProperties
<1>3. Lists(AllPassing(rows, f), rows, f, Len(rows))
  BY AllPassingRows
<1>4. ASSUME NEW n \in Range(Page(f, from).rows)
      PROVE  n \in 1 .. Len(rows) /\ Passes(f, rows[n], n)
  <2>1. PICK i \in 1 .. len : n = Page(f, from).rows[i]
    BY <1>2, <1>4 DEF Range
  <2>2. from + i \in 1 .. all /\ n = AllPassing(rows, f)[from + i]
    BY <1>1, <2>1
  <2> QED BY <1>1, <1>3, <2>2 DEF Lists
<1> QED BY <1>1, <1>4 DEF Passed

\* A page that begins where the rows read before it end covers what follows.
LEMMA PageCovers ==
  ASSUME rows \in Seq(Kinds), NEW f, NEW S, NEW from \in Nat, NEW top \in Nat,
         top <= Len(rows), Covers(S, rows, f, from, top, FALSE)
  PROVE  Covers(S \cup Range(Page(f, from).rows), rows, f,
                from + Len(Page(f, from).rows), top,
                IsLastPage(Page(f, from), from + Len(Page(f, from).rows)))
<1> DEFINE p == Page(f, from)
           M == AllPassing(rows, f)
           T == S \cup Range(p.rows)
<1>0. PICK len, all, last \in Nat : Stretch(p, M, from, len, all, last)
  BY PageStretch
<1>1. /\ len = Len(p.rows) /\ all = Len(M)
      /\ p.total = all
      /\ last = (IF from + PageSize < all THEN from + PageSize ELSE all)
      /\ len = IF from < last THEN last - from ELSE 0
      /\ p.rows \in Seq(1 .. Len(rows))
      /\ \A i \in 1 .. len : from + i \in 1 .. all /\ p.rows[i] = M[from + i]
  BY <1>0 DEF Stretch
<1>2. DOMAIN p.rows = 1 .. len
  BY <1>1, LenProperties
<1>3. /\ \A i, j \in 1 .. all : i < j => M[j] < M[i]
      /\ \A k \in 1 .. Len(rows) : Passes(f, rows[k], k) => \E i \in 1 .. all : M[i] = k
      /\ \A i \in 1 .. all : M[i] \in Nat
  <2>1. Lists(M, rows, f, Len(rows))
    BY AllPassingRows
  <2> HIDE DEF M
  <2>2. Len(rows) \in Nat /\ Len(M) = all
    BY <1>1, LenProperties
  <2> QED BY <2>1, <2>2 DEF Lists, Decreasing
<1>4. /\ \A n \in 1 .. top : Passes(f, rows[n], n) /\ (\E m \in S : m < n) => n \in S
      /\ \A i \in 1 .. all : i <= from /\ M[i] <= top => M[i] \in S
  BY <1>1 DEF Covers
<1> HIDE DEF M, p
<1>5. Range(p.rows) = {p.rows[i] : i \in 1 .. len}
  BY <1>2 DEF Range
<1>6. \A i \in 1 .. all : i <= from + len /\ M[i] <= top => M[i] \in T
  <2> SUFFICES ASSUME NEW i \in 1 .. all, i <= from + len, M[i] <= top PROVE M[i] \in T
    OBVIOUS
  <2>1. CASE i <= from
    BY <1>4, <2>1
  <2>2. CASE ~ (i <= from)
    <3>1. i - from \in 1 .. len /\ from + (i - from) = i
      BY <2>2
    <3>2. p.rows[i - from] = M[i]
      BY <1>1, <3>1
    <3>3. M[i] \in Range(p.rows)
      BY <1>5, <3>1, <3>2
    <3> QED BY <3>3
  <2> QED BY <2>1, <2>2
<1>7. ASSUME NEW n \in 1 .. top, Passes(f, rows[n], n),
             IsLastPage(p, from + len) \/ \E m \in T : m < n
      PROVE  n \in T
  <2>1. PICK j \in 1 .. all : M[j] = n
    <3>1. Len(rows) \in Nat
      BY LenProperties
    <3>2. n \in 1 .. Len(rows)
      BY <3>1
    <3> QED BY <1>3, <1>7, <3>2
  <2>2. j <= from + len => n \in T
    BY <1>6, <2>1
  <2>3. CASE IsLastPage(p, from + len)
    <3>1. len < PageSize \/ from + len >= all
      BY <1>1, <2>3 DEF IsLastPage
    <3>2. PageSize \in Nat
      BY StreamAssumption
    <3>3. all <= from + len
      BY <1>1, <3>1, <3>2
    <3> QED BY <2>2, <3>3
  <2>4. CASE \E m \in S : m < n
    BY <1>4, <1>7, <2>4
  <2>5. CASE \E m \in Range(p.rows) : m < n
    <3>1. PICK i \in 1 .. len : p.rows[i] < n
      BY <1>5, <2>5
    <3>2. from + i \in 1 .. all /\ M[from + i] < M[j]
      BY <1>1, <2>1, <3>1
    <3>3. j <= from + i
      BY <1>3, <3>2
    <3> QED BY <2>2, <3>3
  <2> QED BY <1>7, <2>3, <2>4, <2>5
<1> QED BY <1>1, <1>6, <1>7 DEF Covers, p, M

\* Rows committed later do not matter.
LEMMA PassedAppend ==
  ASSUME NEW K, NEW t \in Seq(K), NEW x \in K, NEW f, NEW S, Passed(t, f, S)
  PROVE  Passed(Append(t, x), f, S)
<1>1. /\ Len(t) \in Nat /\ Len(Append(t, x)) = Len(t) + 1
      /\ \A i \in 1 .. Len(t) : Append(t, x)[i] = t[i]
  BY LenProperties, AppendProperties
<1> QED BY <1>1 DEF Passed

LEMMA CoversAppend ==
  ASSUME NEW K, NEW t \in Seq(K), NEW x \in K, NEW f, NEW S, NEW depth \in Nat,
         NEW top \in Nat, top <= Len(t), NEW last, Covers(S, t, f, depth, top, last)
  PROVE  Covers(S, Append(t, x), f, depth, top, last)
<1> DEFINE u == Append(t, x)
           M == AllPassing(t, f)
           N == AllPassing(u, f)
<1>1. PICK k \in Nat : k = Len(t)
  BY LenProperties
<1>2. u \in Seq(K) /\ Len(u) = k + 1 /\ \A i \in 1 .. k : u[i] = t[i]
  BY <1>1, AppendProperties
<1>3. M \in Seq(1 .. k)
  BY <1>1, AllPassingRows DEF Lists
<1>4. N = M \/ N = <<k + 1>> \o M
  <2>1. Passing(u, f)[k] = M
    BY <1>1, PassingAppend DEF AllPassing
  <2>2. k + 1 \in 0 .. Len(u) /\ k + 1 # 0 /\ (k + 1) - 1 = k
    BY <1>2
  <2>3. \A n \in 0 .. Len(u) : n # 0 =>
          Passing(u, f)[n] = IF Passes(f, u[n], n) THEN <<n>> \o Passing(u, f)[n - 1]
                                                   ELSE Passing(u, f)[n - 1]
    BY <1>2, PassingUnfold
  <2>4. N = IF Passes(f, u[k + 1], k + 1) THEN <<k + 1>> \o M ELSE M
    BY <1>2, <2>1, <2>2, <2>3 DEF AllPassing
  <2> QED BY <2>4
<1>5. /\ \A n \in 1 .. top : Passes(f, t[n], n) /\ (last \/ \E m \in S : m < n) => n \in S
      /\ \A i \in 1 .. Len(M) : i <= depth /\ M[i] <= top => M[i] \in S
  BY DEF Covers
<1>6. \A n \in 1 .. top : u[n] = t[n]
  BY <1>1, <1>2
<1> HIDE DEF M, N, u
<1>7. \A i \in 1 .. Len(N) : i <= depth /\ N[i] <= top => N[i] \in S
  <2>1. CASE N = M
    BY <1>5, <2>1
  <2>2. CASE N = <<k + 1>> \o M
    <3>1. M \in Seq(Nat) /\ <<k + 1>> \in Seq(Nat)
      BY <1>3, SeqDef
    <3>2. PICK len \in Nat : len = Len(M)
      BY <1>3, LenProperties
    <3>3. /\ Len(N) = len + 1 /\ N[1] = k + 1
          /\ \A i \in 2 .. len + 1 : N[i] = M[i - 1]
      BY <2>2, <3>1, <3>2, ConcatProperties
    <3> SUFFICES ASSUME NEW i \in 1 .. len + 1, i <= depth, N[i] <= top PROVE N[i] \in S
      BY <3>3
    <3>4. i # 1
      BY <1>1, <3>3
    <3>5. i - 1 \in 1 .. len /\ i - 1 <= depth /\ N[i] = M[i - 1]
      BY <3>3, <3>4
    <3> QED BY <1>5, <3>2, <3>5
  <2> QED BY <1>4, <2>1, <2>2
<1> QED BY <1>5, <1>6, <1>7 DEF Covers, N, u

-----------------------------------------------------------------------------
\* The view.

\* What two sequences show, one below the other.
LEMMA RangeOfBoth ==
  ASSUME NEW S, NEW s \in Seq(S), NEW t \in Seq(S)
  PROVE  Range(s \o t) = Range(s) \cup Range(t)
<1>1. PICK m, n \in Nat : m = Len(s) /\ n = Len(t)
  BY LenProperties
<1>2. /\ s \o t \in Seq(S) /\ Len(s \o t) = m + n
      /\ \A i \in 1 .. m + n : (s \o t)[i] = IF i <= m THEN s[i] ELSE t[i - m]
  BY <1>1, ConcatProperties
<1>3. DOMAIN s = 1 .. m /\ DOMAIN t = 1 .. n /\ DOMAIN (s \o t) = 1 .. m + n
  BY <1>1, <1>2, LenProperties
<1> DEFINE c == s \o t
<1> HIDE DEF c
<1>4. \A i \in 1 .. m : i \in 1 .. m + n /\ c[i] = s[i]
  BY <1>2 DEF c
<1>5. \A i \in 1 .. n : m + i \in 1 .. m + n /\ c[m + i] = t[i]
  <2> TAKE i \in 1 .. n
  <2>1. m + i \in 1 .. m + n /\ ~ (m + i <= m) /\ (m + i) - m = i
    OBVIOUS
  <2> QED BY <1>2, <2>1 DEF c
<1>6. \A i \in 1 .. m + n : (i <= m /\ i \in 1 .. m /\ c[i] = s[i])
                            \/ (i - m \in 1 .. n /\ c[i] = t[i - m])
  BY <1>2 DEF c
<1>7. Range(c) = {c[i] : i \in 1 .. m + n}
  BY <1>3 DEF Range, c
<1>8. Range(s) = {s[i] : i \in 1 .. m} /\ Range(t) = {t[i] : i \in 1 .. n}
  BY <1>3 DEF Range
<1>9. Range(c) \subseteq Range(s) \cup Range(t)
  BY <1>6, <1>7, <1>8
<1>10. Range(s) \cup Range(t) \subseteq Range(c)
  BY <1>4, <1>5, <1>7, <1>8
<1> QED BY <1>9, <1>10 DEF c

LEMMA ReverseRows ==
  ASSUME NEW S, NEW s \in Seq(S)
  PROVE  /\ Reverse(s) \in Seq(S) /\ Len(Reverse(s)) = Len(s)
         /\ Range(Reverse(s)) = Range(s)
<1>1. PICK n \in Nat : n = Len(s)
  BY LenProperties
<1>2. \A i \in 1 .. n : s[i] \in S
  BY <1>1, ElementOfSeq
<1>3. Reverse(s) = [i \in 1 .. n |-> s[(n - i) + 1]]
  BY <1>1 DEF Reverse
<1>4. \A i \in 1 .. n : (n - i) + 1 \in 1 .. n /\ (n - ((n - i) + 1)) + 1 = i
  OBVIOUS
<1>5. Reverse(s) \in [1 .. n -> S]
  BY <1>2, <1>3, <1>4
<1>6. Reverse(s) \in Seq(S) /\ Len(Reverse(s)) = n
  BY <1>5, IsASeq, LenProperties
<1>7. DOMAIN s = 1 .. n /\ DOMAIN Reverse(s) = 1 .. n
  BY <1>1, <1>3, LenProperties
<1>8. \A i \in 1 .. n : Reverse(s)[i] = s[(n - i) + 1] /\ Reverse(s)[(n - i) + 1] = s[i]
  BY <1>3, <1>4
<1>9. Range(Reverse(s)) \subseteq Range(s)
  BY <1>4, <1>7, <1>8 DEF Range
<1>10. Range(s) \subseteq Range(Reverse(s))
  BY <1>4, <1>7, <1>8 DEF Range
<1> QED BY <1>1, <1>6, <1>9, <1>10

\* The recursion of Missing has a solution.
LEMMA MissingUnfold ==
  ASSUME NEW K, NEW t \in Seq(K), NEW shown
  PROVE  /\ Missing(shown, t)[0] = <<>>
         /\ \A n \in 0 .. Len(t) : n # 0 =>
              Missing(shown, t)[n] =
                IF Contains(shown, t[n]) THEN Missing(shown, t)[n - 1]
                                         ELSE Append(Missing(shown, t)[n - 1], t[n])
<1> DEFINE Turn(g, n) == IF Contains(shown, t[n]) THEN g[n - 1] ELSE Append(g[n - 1], t[n])
           Solves(g, m) == g = [n \in 0 .. m |-> IF n = 0 THEN <<>> ELSE Turn(g, n)]
           Solved == {m \in Nat : \E g : Solves(g, m)}
<1>1. 0 \in Solved
  <2>1. Solves([n \in 0 .. 0 |-> <<>>], 0)
    OBVIOUS
  <2> QED BY <2>1
<1>2. ASSUME NEW m \in Nat, m \in Solved
      PROVE  m + 1 \in Solved
  <2>1. PICK g : Solves(g, m)
    BY <1>2
  <2> DEFINE h == [n \in 0 .. m + 1 |-> IF n = m + 1 THEN Turn(g, m + 1) ELSE g[n]]
  <2>2. \A n \in 0 .. m : g[n] = IF n = 0 THEN <<>> ELSE Turn(g, n)
    BY <2>1
  <2>3. \A n \in 0 .. m + 1 : h[n] = IF n = 0 THEN <<>> ELSE Turn(h, n)
    <3> TAKE n \in 0 .. m + 1
    <3>1. CASE n = m + 1
      BY <3>1
    <3>2. CASE n # m + 1
      <4>1. n \in 0 .. m /\ (n # 0 => n - 1 \in 0 .. m)
        BY <3>2
      <4> QED BY <2>2, <4>1
    <3> QED BY <3>1, <3>2
  <2>4. Solves(h, m + 1)
    BY <2>3
  <2> HIDE DEF h
  <2> QED BY <2>4
<1>3. Len(t) \in Solved
  BY <1>1, <1>2, NatSetInduction, LenProperties
<1>4. PICK g : Solves(g, Len(t))
  BY <1>3
<1>5. Solves(Missing(shown, t), Len(t))
  BY <1>4 DEF Missing
<1>6. Len(t) \in Nat /\ 0 \in 0 .. Len(t)
  BY LenProperties
<1> QED BY <1>5, <1>6

\* The rows of a page that are not shown are the ones that are missing.
Lacks(shown, t, n) == {e \in {t[i] : i \in 1 .. n} : ~ Contains(shown, e)}

LEMMA MissingRows ==
  ASSUME NEW K, NEW t \in Seq(K), NEW shown
  PROVE  \A n \in 0 .. Len(t) :
           Missing(shown, t)[n] \in {u \in Seq(K) : Range(u) = Lacks(shown, t, n)}
<1> DEFINE Good(n) == {u \in Seq(K) : Range(u) = Lacks(shown, t, n)}
           Fine == {n \in Nat : n <= Len(t) => Missing(shown, t)[n] \in Good(n)}
<1>0. /\ Len(t) \in Nat /\ Missing(shown, t)[0] = <<>>
      /\ \A n \in 0 .. Len(t) : n # 0 =>
           Missing(shown, t)[n] =
             IF Contains(shown, t[n]) THEN Missing(shown, t)[n - 1]
                                      ELSE Append(Missing(shown, t)[n - 1], t[n])
  BY LenProperties, MissingUnfold
<1>1. 0 \in Fine
  <2>1. <<>> \in Good(0)
    <3>1. <<>> \in Seq(K) /\ DOMAIN <<>> = {}
      BY EmptySeq
    <3> QED BY <3>1 DEF Range, Lacks
  <2> QED BY <1>0, <2>1
<1>2. ASSUME NEW n \in Nat, n \in Fine
      PROVE  n + 1 \in Fine
  <2> SUFFICES ASSUME n + 1 <= Len(t) PROVE Missing(shown, t)[n + 1] \in Good(n + 1)
    OBVIOUS
  <2> DEFINE u == Missing(shown, t)[n]
             z == Missing(shown, t)[n + 1]
  <2>1. u \in Seq(K) /\ Range(u) = Lacks(shown, t, n)
    BY <1>0, <1>2
  <2>2. z = IF Contains(shown, t[n + 1]) THEN u ELSE Append(u, t[n + 1])
    <3>1. n + 1 \in 0 .. Len(t) /\ n + 1 # 0 /\ (n + 1) - 1 = n
      BY <1>0
    <3> QED BY <1>0, <3>1
  <2>3. t[n + 1] \in K
    <3>1. n + 1 \in 1 .. Len(t)
      BY <1>0
    <3> QED BY <3>1, ElementOfSeq
  <2>4. {t[i] : i \in 1 .. n + 1} = {t[i] : i \in 1 .. n} \cup {t[n + 1]}
    <3>1. \A i \in 1 .. n + 1 : i \in 1 .. n \/ i = n + 1
      OBVIOUS
    <3>2. \A i \in 1 .. n : i \in 1 .. n + 1
      OBVIOUS
    <3> QED BY <3>1, <3>2
  <2> HIDE DEF u, z
  <2>5. CASE Contains(shown, t[n + 1])
    <3>1. z \in Good(n + 1)
      BY <2>1, <2>2, <2>4, <2>5 DEF Lacks
    <3> QED BY <3>1 DEF z
  <2>6. CASE ~ Contains(shown, t[n + 1])
    <3>1. z = Append(u, t[n + 1]) /\ z \in Seq(K)
      BY <2>1, <2>2, <2>3, <2>6, AppendProperties
    <3>2. PICK one \in Seq(K) : one = <<t[n + 1]>> /\ z = u \o one
      <4>1. <<t[n + 1]>> \in Seq(K)
        BY <2>3, SeqDef
      <4>2. Append(u, t[n + 1]) = u \o <<t[n + 1]>>
        BY <2>1, <2>3, AppendIsConcat
      <4> QED BY <3>1, <4>1, <4>2
    <3>3. Range(z) = Range(u) \cup Range(one)
      <4>1. Range(u \o one) = Range(u) \cup Range(one)
        BY <2>1, RangeOfBoth
      <4> QED BY <3>2, <4>1
    <3>4. Range(one) = {t[n + 1]}
      BY <3>2 DEF Range
    <3>5. z \in Good(n + 1)
      BY <2>1, <2>4, <2>6, <3>1, <3>3, <3>4 DEF Lacks
    <3> QED BY <3>5 DEF z
  <2> QED BY <2>5, <2>6
<1>3. Nat \subseteq Fine
  BY <1>1, <1>2, NatSetInduction
<1> QED BY <1>0, <1>3

LEMMA UnseenRows ==
  ASSUME logs \in Seq(Nat), NEW page \in Seq(Nat)
  PROVE  /\ Unseen(page) \in Seq(Nat)
         /\ Range(logs \o Unseen(page)) = Range(logs) \cup Range(page)
<1>1. PICK n \in Nat : n = Len(page)
  BY LenProperties
<1>2. /\ Unseen(page) \in Seq(Nat)
      /\ Range(Unseen(page)) = Lacks(logs, page, n)
  <2>1. \A k \in 0 .. Len(page) :
          Missing(logs, page)[k] \in {u \in Seq(Nat) : Range(u) = Lacks(logs, page, k)}
    BY MissingRows
  <2>2. n \in 0 .. Len(page) /\ Unseen(page) = Missing(logs, page)[n]
    BY <1>1 DEF Unseen
  <2> QED BY <2>1, <2>2
<1>3. Range(page) = {page[i] : i \in 1 .. n}
  BY <1>1, LenProperties DEF Range
<1>4. \A e : Contains(logs, e) => e \in Range(logs)
  <2>1. DOMAIN logs = 1 .. Len(logs)
    BY LenProperties
  <2> QED BY <2>1 DEF Contains, Range
<1>5. Range(logs \o Unseen(page)) = Range(logs) \cup Range(Unseen(page))
  BY <1>2, RangeOfBoth
<1> QED BY <1>2, <1>3, <1>4, <1>5 DEF Lacks

-----------------------------------------------------------------------------
\* Types.

\* A fetch asked for before the id became n.
WellFormed(r, n) ==
  /\ r = [id |-> r.id, kind |-> r.kind, filters |-> r.filters, offset |-> r.offset,
          done |-> r.done, page |-> r.page]
  /\ r.id \in Nat /\ r.id <= n
  /\ r.kind \in {"initial", "more"} /\ r.offset \in Nat /\ r.done \in BOOLEAN
  /\ r.done => r.page.rows \in Seq(Nat)

TypeInv ==
  /\ rows \in Seq(Kinds) /\ Len(rows) <= NoTo /\ broadcast \in 0 .. Len(rows)
  /\ wire \in Seq(Nat) /\ buffer \in Seq(Nat)
  /\ requestId \in Nat /\ offset \in Nat /\ loading \in BOOLEAN /\ upset \in BOOLEAN
  /\ \A r \in requests : WellFormed(r, requestId)

LEMMA RequestWellFormed ==
  ASSUME NEW n \in Nat, NEW kind \in {"initial", "more"}, NEW f, NEW from \in Nat
  PROVE  WellFormed(Request(n, kind, f, from), n)
BY DEF WellFormed, Request

LEMMA StaysWellFormed ==
  ASSUME NEW n \in Nat, NEW m \in Nat, n <= m, NEW r, WellFormed(r, n)
  PROVE  WellFormed(r, m)
BY DEF WellFormed

LEMMA AnsweredRequest ==
  ASSUME NEW n \in Nat, NEW r, WellFormed(r, n), NEW p, p.rows \in Seq(Nat),
         NEW x, x = [r EXCEPT !.done = TRUE, !.page = p]
  PROVE  WellFormed(x, n)
<1>1. PICK id, kind, f, from, done, page :
        /\ r = [id |-> id, kind |-> kind, filters |-> f, offset |-> from,
                done |-> done, page |-> page]
        /\ id \in Nat /\ id <= n /\ kind \in {"initial", "more"} /\ from \in Nat
  BY DEF WellFormed
<1>2. x = [id |-> id, kind |-> kind, filters |-> f, offset |-> from,
           done |-> TRUE, page |-> p]
  BY <1>1
<1> QED BY <1>1, <1>2 DEF WellFormed

\* What the three ways of asking for a new load have in common.
Reload(f) ==
  /\ LoadInitial(f)
  /\ UNCHANGED <<server, logs, history, upset>>
  /\ UNCHANGED selection \/ (lastSelected' = 0 /\ clicked' = 0)
  /\ \/ UNCHANGED feed /\ filters'.stream = filters.stream /\ filters'.to = filters.to
     \/ es' = Connection(filters') /\ wire' = <<>>

LEMMA Reloads ==
  /\ \A f \in Filters : SetFilters(f) => Reload(f) /\ filters' = f
  /\ ResetFilters => Reload(NoFilter) /\ filters' = NoFilter
  /\ \A way \in Ways : Search(way) =>
       \E f : Reload(f) /\ (way = "enter" => f = filters')
<1>1. ASSUME NEW f \in Filters, SetFilters(f) PROVE Reload(f) /\ filters' = f
  BY <1>1 DEF SetFilters, Reconnect, Reload, feed
<1>2. ASSUME ResetFilters PROVE Reload(NoFilter) /\ filters' = NoFilter
  BY <1>2 DEF ResetFilters, Reconnect, Reload, feed
<1>3. ASSUME NEW way \in Ways, Search(way)
      PROVE  \E f : Reload(f) /\ (way = "enter" => f = filters')
  <2>1. Reload(SearchFilters(way))
    BY <1>3 DEF Search, Reload, selection
  <2>2. way = "enter" => SearchFilters(way) = filters'
    BY <1>3 DEF Search, SearchFilters
  <2> QED BY <2>1, <2>2
<1> QED BY <1>1, <1>2, <1>3

\* The steps of an action, one by one.
LEMMA Steps ==
  ASSUME [Next]_vars
  PROVE  \/ \E kind \in Kinds : Commit(kind)
         \/ Broadcast \/ Connected \/ Disconnected
         \/ OnEvent \/ Flush \/ LoadMore
         \/ \E r \in requests : Answer(r) \/ OnInitial(r) \/ OnMore(r) \/ Failed(r)
         \/ \E f : Reload(f) /\ (Ways \subseteq {"enter"} => f = filters')
         \/ ClearLogsBuffer
         \/ \E i \in DOMAIN logs : ToggleSelectLog(i) \/ InspectWithContext(i)
         \/ UNCHANGED vars
BY Reloads DEF Next

LEMMA TypeInit == ASSUME Init PROVE TypeInv
<1>1. rows \in Seq(Kinds) /\ Len(rows) = 1
  <2>1. rows \in [1 .. 1 -> Kinds]
    BY DEF Init
  <2>2. rows \in Seq(Kinds)
    <3>1. [1 .. 1 -> Kinds] \in {[1 .. n -> Kinds] : n \in Nat}
      OBVIOUS
    <3> QED BY <2>1, <3>1, SeqDef
  <2>3. PICK n \in Nat : n = Len(rows) /\ 1 .. 1 = 1 .. n
    BY <2>1, <2>2, LenProperties
  <2>4. 1 \in 1 .. n
    BY <2>3
  <2>5. n \in 1 .. 1
    BY <2>3, <2>4
  <2> QED BY <2>2, <2>3, <2>5
<1>2. 1 <= NoTo
  BY StreamAssumption DEF NoTo
<1>3. wire = <<>> /\ buffer = <<>> /\ <<>> \in Seq(Nat)
  BY EmptySeq DEF Init
<1>4. requests = {Request(1, "initial", NoFilter, 0)} /\ requestId = 1
      /\ WellFormed(Request(1, "initial", NoFilter, 0), 1)
  BY RequestWellFormed DEF Init
<1>5. broadcast = 1 /\ offset = 0 /\ loading = TRUE /\ upset = FALSE
  BY DEF Init
<1>6. \A r \in requests : WellFormed(r, requestId)
  BY <1>4
<1>7. Len(rows) <= NoTo /\ broadcast \in 0 .. Len(rows)
  BY <1>1, <1>2, <1>5
<1>8. wire \in Seq(Nat) /\ buffer \in Seq(Nat)
  BY <1>3
<1> QED BY <1>1, <1>4, <1>5, <1>6, <1>7, <1>8 DEF TypeInv

LEMMA TypeStep == ASSUME TypeInv, [Next]_vars PROVE TypeInv'
<1> USE DEF TypeInv
<1>1. ASSUME NEW kind \in Kinds, Commit(kind) PROVE TypeInv'
  <2>1. rows' \in Seq(Kinds) /\ Len(rows') = Len(rows) + 1 /\ Len(rows) \in Nat
    BY <1>1, AppendProperties, LenProperties DEF Commit
  <2>2. Len(rows') <= NoTo
    BY <1>1, <2>1, StreamAssumption DEF Commit, NoTo
  <2> QED BY <1>1, <2>1, <2>2 DEF Commit, feed, paging
<1>2. CASE Broadcast
  <2>1. Len(rows) \in Nat
    BY LenProperties
  <2>2. wire' \in Seq(Nat)
    BY <1>2, <2>1, AppendProperties DEF Broadcast
  <2> QED BY <1>2, <2>1, <2>2 DEF Broadcast, paging
<1>3. CASE Connected
  BY <1>3 DEF Connected, server, paging
<1>4. CASE Disconnected
  BY <1>4, EmptySeq DEF Disconnected, server, paging
<1>5. CASE OnEvent
  <2>1. wire' \in Seq(Nat) /\ Head(wire) \in Nat
    BY <1>5, HeadTailProperties DEF OnEvent
  <2>2. Append(buffer, Head(wire)) \in Seq(Nat) /\ <<>> \in Seq(Nat)
    BY <2>1, AppendProperties, EmptySeq
  <2>3. buffer' \in Seq(Nat)
    BY <1>5, <2>2 DEF OnEvent, FlushOf
  <2>4. upset' \in BOOLEAN
    BY <1>5 DEF OnEvent, FlushOf
  <2>5. UNCHANGED <<server, paging>>
    BY <1>5 DEF OnEvent
  <2> QED BY <2>1, <2>3, <2>4, <2>5 DEF server, paging
<1>6. CASE Flush
  <2>1. buffer' \in Seq(Nat) /\ upset' \in BOOLEAN
    BY <1>6, EmptySeq DEF Flush, FlushOf
  <2> QED BY <1>6, <2>1 DEF Flush, server, feed, paging
<1>7. CASE LoadMore
  <2>1. WellFormed(Request(requestId, "more", filters, offset), requestId)
    BY RequestWellFormed
  <2> QED BY <1>7, <2>1 DEF LoadMore, server, feed
<1>8. ASSUME NEW r \in requests, Answer(r) PROVE TypeInv'
  <2> DEFINE x == [r EXCEPT !.done = TRUE, !.page = Page(r.filters, r.offset)]
  <2>1. WellFormed(r, requestId) /\ r.offset \in Nat
    BY DEF WellFormed
  <2>2. Page(r.filters, r.offset).rows \in Seq(Nat)
    <3>1. Page(r.filters, r.offset).rows \in Seq(1 .. Len(rows))
      BY <2>1, PageRows
    <3> QED BY <3>1, SeqDef
  <2>3. WellFormed(x, requestId)
    BY <2>1, <2>2, AnsweredRequest
  <2>4. requests' = (requests \ {r}) \cup {x}
    BY <1>8 DEF Answer
  <2> HIDE DEF x
  <2>5. \A q \in requests' : WellFormed(q, requestId)
    BY <2>3, <2>4
  <2> QED BY <1>8, <2>5 DEF Answer, server, feed
<1>9. ASSUME NEW r \in requests, OnInitial(r) \/ OnMore(r) \/ Failed(r) PROVE TypeInv'
  <2>1. requests' \subseteq requests /\ requestId' = requestId
    BY <1>9 DEF OnInitial, OnMore, Failed
  <2>2. offset' \in Nat
    <3>1. CASE OnInitial(r)
      <4>1. r.page.rows \in Seq(Nat)
        BY <3>1 DEF OnInitial, WellFormed
      <4> QED BY <3>1, <4>1, LenProperties DEF OnInitial
    <3>2. CASE OnMore(r)
      <4>1. r.page.rows \in Seq(Nat) /\ r.offset \in Nat
        BY <3>2 DEF OnMore, WellFormed
      <4>2. Len(r.page.rows) \in Nat
        BY <4>1, LenProperties
      <4> QED BY <3>2, <4>1, <4>2 DEF OnMore, Fetched
    <3>3. CASE Failed(r)
      BY <3>3 DEF Failed
    <3> QED BY <1>9, <3>1, <3>2, <3>3
  <2>3. loading' \in BOOLEAN /\ upset' \in BOOLEAN
    <3>1. CASE OnInitial(r)
      BY <3>1 DEF OnInitial
    <3>2. CASE OnMore(r)
      BY <3>2 DEF OnMore
    <3>3. CASE Failed(r)
      BY <3>3 DEF Failed
    <3> QED BY <1>9, <3>1, <3>2, <3>3
  <2>4. UNCHANGED <<rows, broadcast, wire, buffer>>
    BY <1>9 DEF OnInitial, OnMore, Failed, server, feed
  <2> QED BY <2>1, <2>2, <2>3, <2>4
<1>10. ASSUME NEW f, Reload(f) PROVE TypeInv'
  <2>1. /\ requestId' = requestId + 1 /\ requestId' \in Nat
        /\ requests' = requests \cup {Request(requestId', "initial", f, 0)}
        /\ offset' = 0 /\ loading' = TRUE
    BY <1>10 DEF Reload, LoadInitial, AskInitial
  <2>2. WellFormed(Request(requestId', "initial", f, 0), requestId')
    BY <2>1, RequestWellFormed
  <2>3. \A r \in requests : WellFormed(r, requestId')
    BY <2>1, StaysWellFormed
  <2>4. buffer' \in Seq(Nat) /\ wire' \in Seq(Nat)
    BY <1>10, EmptySeq DEF Reload, LoadInitial, DropBuffer, feed
  <2> QED BY <1>10, <2>1, <2>2, <2>3, <2>4 DEF Reload, server
<1>11. CASE ClearLogsBuffer
  <2>1. requestId' = requestId + 1 /\ requestId' \in Nat /\ UNCHANGED requests
    BY <1>11 DEF ClearLogsBuffer
  <2>2. \A r \in requests : WellFormed(r, requestId')
    BY <2>1, StaysWellFormed
  <2> QED BY <1>11, <2>1, <2>2, EmptySeq DEF ClearLogsBuffer, DropBuffer, server, feed
<1>12. ASSUME NEW i, ToggleSelectLog(i) \/ InspectWithContext(i) PROVE TypeInv'
  BY <1>12 DEF ToggleSelectLog, InspectWithContext, server, feed, paging
<1>13. CASE UNCHANGED vars
  BY <1>13 DEF vars, server, feed, paging
<1> QED BY <1>1, <1>2, <1>3, <1>4, <1>5, <1>6, <1>7, <1>8, <1>9, <1>10, <1>11, <1>12,
           <1>13, Steps

-----------------------------------------------------------------------------
\* The end of a selection.

\* Until rows are cut off, or added between others.
SelectionInv ==
  ~ upset =>
    /\ logs \in Seq(Nat) /\ lastSelected \in Nat
    /\ lastSelected # 0 =>
         lastSelected \in 1 .. Len(logs) /\ logs[lastSelected] = clicked

\* A flush that cuts nothing off puts its rows on top of the others.
LEMMA FlushPutsOnTop ==
  ASSUME NEW events \in Seq(Nat), logs \in Seq(Nat), FlushOf(events), ~ upset'
  PROVE  /\ logs' \in Seq(Nat) /\ Len(logs') = Len(events) + Len(logs)
         /\ \A i \in 1 .. Len(logs) : logs'[Len(events) + i] = logs[i]
         /\ Range(logs') = Range(events) \cup Range(logs)
<1>1. PICK m, n \in Nat : m = Len(events) /\ n = Len(logs)
  BY LenProperties
<1>2. PICK above \in Seq(Nat) :
        above = Reverse(events) /\ Len(above) = m /\ Range(above) = Range(events)
  BY <1>1, ReverseRows
<1> DEFINE all == above \o logs
<1>3. /\ all \in Seq(Nat) /\ Len(all) = m + n
      /\ \A i \in 1 .. m + n : all[i] = IF i <= m THEN above[i] ELSE logs[i - m]
  <2>1. /\ all \in Seq(Nat) /\ Len(all) = Len(above) + Len(logs)
        /\ \A i \in 1 .. Len(above) + Len(logs) :
             all[i] = IF i <= Len(above) THEN above[i] ELSE logs[i - Len(above)]
    BY ConcatProperties
  <2> HIDE DEF all
  <2> QED BY <1>1, <1>2, <2>1
<1>4. Range(all) = Range(events) \cup Range(logs)
  BY <1>2, RangeOfBoth
<1>5. logs' = all
  BY <1>2 DEF FlushOf
<1> HIDE DEF all
<1>6. \A i \in 1 .. n : all[m + i] = logs[i]
  <2> TAKE i \in 1 .. n
  <2>1. m + i \in 1 .. m + n /\ ~ (m + i <= m) /\ (m + i) - m = i
    OBVIOUS
  <2> QED BY <1>3, <2>1
<1> QED BY <1>1, <1>3, <1>4, <1>5, <1>6

LEMMA FlushKeepsSelection ==
  ASSUME NEW events \in Seq(Nat), SelectionInv, FlushOf(events), UNCHANGED clicked
  PROVE  SelectionInv'
<1> SUFFICES ASSUME ~ upset' PROVE SelectionInv'
  BY DEF SelectionInv
<1>1. ~ upset
  BY DEF FlushOf
<1>2. /\ logs \in Seq(Nat) /\ lastSelected \in Nat
      /\ lastSelected # 0 =>
           lastSelected \in 1 .. Len(logs) /\ logs[lastSelected] = clicked
  BY <1>1 DEF SelectionInv
<1>3. /\ logs' \in Seq(Nat) /\ Len(logs') = Len(events) + Len(logs)
      /\ \A i \in 1 .. Len(logs) : logs'[Len(events) + i] = logs[i]
  BY <1>2, FlushPutsOnTop
<1>4. Len(events) \in Nat /\ Len(logs) \in Nat
  BY <1>2, LenProperties
<1>5. CASE lastSelected = 0
  BY <1>3, <1>5 DEF SelectionInv, FlushOf, Shift
<1>6. CASE lastSelected # 0
  <2>1. lastSelected' = Len(events) + lastSelected
    BY <1>2, <1>4, <1>6 DEF FlushOf, Shift
  <2>2. lastSelected' \in Nat /\ lastSelected' \in 1 .. Len(logs')
    BY <1>2, <1>3, <1>4, <1>6, <2>1
  <2>3. logs'[lastSelected'] = logs[lastSelected] /\ logs[lastSelected] = clicked'
    BY <1>2, <1>3, <1>6, <2>1
  <2> QED BY <1>3, <2>2, <2>3 DEF SelectionInv
<1> QED BY <1>5, <1>6

LEMMA SelectionInit == ASSUME Init PROVE SelectionInv
<1>1. logs = <<>> /\ lastSelected = 0 /\ <<>> \in Seq(Nat)
  BY EmptySeq DEF Init
<1> QED BY <1>1 DEF SelectionInv

LEMMA SelectionStep ==
  ASSUME TypeInv, SelectionInv, [Next]_vars PROVE SelectionInv'
<1>1. ASSUME UNCHANGED <<logs, selection, upset>> PROVE SelectionInv'
  BY <1>1 DEF SelectionInv, selection
<1>2. ASSUME NEW kind, Commit(kind) PROVE SelectionInv'
  BY <1>1, <1>2 DEF Commit
<1>3. ASSUME Broadcast \/ Connected \/ Disconnected \/ LoadMore PROVE SelectionInv'
  BY <1>1, <1>3 DEF Broadcast, Connected, Disconnected, LoadMore
<1>4. CASE OnEvent
  <2>1. Append(buffer, Head(wire)) \in Seq(Nat)
    BY <1>4, HeadTailProperties, AppendProperties DEF OnEvent, TypeInv
  <2>2. CASE FlushOf(Append(buffer, Head(wire)))
    BY <1>4, <2>1, <2>2, FlushKeepsSelection DEF OnEvent
  <2>3. CASE UNCHANGED <<logs, lastSelected, upset>>
    BY <1>1, <1>4, <2>3 DEF OnEvent, selection
  <2> QED BY <1>4, <2>2, <2>3 DEF OnEvent
<1>5. CASE Flush
  BY <1>5, FlushKeepsSelection DEF Flush, TypeInv
<1>6. ASSUME NEW r \in requests, Answer(r) PROVE SelectionInv'
  BY <1>1, <1>6 DEF Answer
<1>7. ASSUME NEW r \in requests, OnInitial(r) PROVE SelectionInv'
  <2>1. CASE IsCurrent(r)
    <3>1. r.page.rows \in Seq(Nat)
      BY <1>7 DEF OnInitial, WellFormed, TypeInv
    <3> QED BY <1>7, <2>1, <3>1 DEF OnInitial, SelectionInv
  <2>2. CASE ~ IsCurrent(r)
    BY <1>1, <1>7, <2>2 DEF OnInitial
  <2> QED BY <2>1, <2>2
<1>8. ASSUME NEW r \in requests, OnMore(r) PROVE SelectionInv'
  <2>1. UNCHANGED <<selection, upset>>
    BY <1>8 DEF OnMore
  <2>2. CASE UNCHANGED logs
    BY <1>1, <2>1, <2>2
  <2>3. CASE logs' = logs \o Unseen(r.page.rows) /\ ~ upset
    <3>1. r.page.rows \in Seq(Nat)
      BY <1>8 DEF OnMore, WellFormed, TypeInv
    <3>2. logs \in Seq(Nat) /\ Unseen(r.page.rows) \in Seq(Nat)
      BY <2>3, <3>1, UnseenRows DEF SelectionInv
    <3>3. PICK m, n \in Nat : m = Len(logs) /\ n = Len(Unseen(r.page.rows))
      BY <3>2, LenProperties
    <3>4. /\ logs' \in Seq(Nat) /\ Len(logs') = m + n
          /\ \A i \in 1 .. m : logs'[i] = logs[i]
      <4> DEFINE both == logs \o Unseen(r.page.rows)
      <4>1. /\ both \in Seq(Nat) /\ Len(both) = m + n
            /\ \A i \in 1 .. m + n :
                 both[i] = IF i <= m THEN logs[i] ELSE Unseen(r.page.rows)[i - m]
        BY <3>2, <3>3, ConcatProperties
      <4> HIDE DEF both
      <4>2. \A i \in 1 .. m : both[i] = logs[i]
        BY <4>1
      <4> QED BY <2>3, <4>1, <4>2 DEF both
    <3> QED BY <2>1, <2>3, <3>3, <3>4 DEF SelectionInv, selection
  <2>4. CASE upset
    BY <2>1, <2>4 DEF SelectionInv
  <2> QED BY <1>8, <2>2, <2>3, <2>4 DEF OnMore
<1>9. ASSUME NEW r \in requests, Failed(r) PROVE SelectionInv'
  <2>1. UNCHANGED <<logs, selection>> /\ (~ upset' => ~ upset)
    BY <1>9 DEF Failed
  <2> QED BY <2>1 DEF SelectionInv, selection
<1>10. ASSUME NEW f, Reload(f) PROVE SelectionInv'
  <2>1. UNCHANGED <<logs, upset>>
    BY <1>10 DEF Reload
  <2>2. CASE UNCHANGED selection
    BY <1>1, <2>1, <2>2
  <2>3. CASE lastSelected' = 0
    BY <2>1, <2>3 DEF SelectionInv
  <2> QED BY <1>10, <2>2, <2>3 DEF Reload
<1>11. CASE ClearLogsBuffer
  BY <1>11 DEF ClearLogsBuffer, SelectionInv
<1>12. ASSUME NEW i \in DOMAIN logs, ToggleSelectLog(i) PROVE SelectionInv'
  <2> SUFFICES ASSUME ~ upset PROVE SelectionInv'
    BY <1>12 DEF ToggleSelectLog, SelectionInv
  <2>1. logs \in Seq(Nat) /\ i \in 1 .. Len(logs) /\ Len(logs) \in Nat
    BY <1>12, LenProperties DEF SelectionInv
  <2> QED BY <1>12, <2>1 DEF ToggleSelectLog, SelectionInv
<1>13. ASSUME NEW i, InspectWithContext(i) PROVE SelectionInv'
  BY <1>13 DEF InspectWithContext, SelectionInv
<1>14. CASE UNCHANGED vars
  BY <1>1, <1>14 DEF vars
<1> QED BY <1>2, <1>3, <1>4, <1>5, <1>6, <1>7, <1>8, <1>9, <1>10, <1>11, <1>12, <1>13,
           <1>14, Steps

-----------------------------------------------------------------------------
\* Requests in flight.

\* At most one load of older rows, and one initial load for each id.
FlightInv ==
  /\ \A r, q \in requests :
       r.kind = q.kind /\ (r.kind = "more" \/ r.id = q.id) => r = q
  /\ \A r \in requests : r.kind = "more" => loadingMore

\* What a request that counts was asked with is still so.
Asked(r) ==
  IsCurrent(r) =>
    /\ r.filters = filters
    /\ r.kind = "initial" => loading /\ hasMore /\ r.offset = 0
    /\ r.kind = "more" => ~ loading /\ r.offset = offset
AskedInv == \A r \in requests : Asked(r)

LEMMA OneCurrent ==
  ASSUME TypeInv, FlightInv, AskedInv, NEW r \in requests, NEW q \in requests,
         IsCurrent(r), IsCurrent(q)
  PROVE  r = q
<1>1. {r.kind, q.kind} \subseteq {"initial", "more"}
  BY DEF TypeInv, WellFormed
<1>2. Asked(r) /\ Asked(q)
  BY DEF AskedInv
<1>3. r.kind = q.kind
  BY <1>1, <1>2 DEF Asked
<1>4. r.id = q.id
  BY DEF IsCurrent
<1> QED BY <1>3, <1>4 DEF FlightInv

\* What an answer leaves of a request.
LEMMA AnswerSteps ==
  ASSUME TypeInv, NEW r \in requests, Answer(r)
  PROVE  \E x :
           /\ requests' = (requests \ {r}) \cup {x}
           /\ x.id = r.id /\ x.kind = r.kind /\ x.filters = r.filters
           /\ x.offset = r.offset /\ x.done /\ x.page = Page(r.filters, r.offset)
<1>1. PICK id, kind, f, from, done, page :
        r = [id |-> id, kind |-> kind, filters |-> f, offset |-> from,
             done |-> done, page |-> page]
  BY DEF TypeInv, WellFormed
<1>2. PICK p : p = Page(r.filters, r.offset)
  OBVIOUS
<1>3. PICK x : x = [r EXCEPT !.done = TRUE, !.page = p]
  OBVIOUS
<1>4. x = [id |-> id, kind |-> kind, filters |-> f, offset |-> from,
           done |-> TRUE, page |-> p]
  BY <1>1, <1>3
<1>5. /\ x.id = r.id /\ x.kind = r.kind /\ x.filters = r.filters
      /\ x.offset = r.offset /\ x.done /\ x.page = p
  BY <1>1, <1>4
<1>6. requests' = (requests \ {r}) \cup {x}
  BY <1>2, <1>3 DEF Answer
<1> QED BY <1>2, <1>5, <1>6

LEMMA FlightInit == ASSUME Init PROVE FlightInv /\ AskedInv
<1>1. requests = {Request(1, "initial", NoFilter, 0)} /\ filters = NoFilter
      /\ loading = TRUE /\ hasMore = TRUE
  BY DEF Init
<1>2. \A r \in requests : r.kind = "initial" /\ r.filters = NoFilter /\ r.offset = 0
  BY <1>1 DEF Request
<1>3. FlightInv
  BY <1>1, <1>2 DEF FlightInv
<1> QED BY <1>1, <1>2, <1>3 DEF AskedInv, Asked

LEMMA FlightStep == ASSUME TypeInv, FlightInv, [Next]_vars PROVE FlightInv'
<1>1. ASSUME requests' \subseteq requests, UNCHANGED loadingMore PROVE FlightInv'
  BY <1>1 DEF FlightInv
<1>2. ASSUME NEW kind, Commit(kind) PROVE FlightInv'
  BY <1>1, <1>2 DEF Commit, paging
<1>3. ASSUME Broadcast \/ Connected \/ Disconnected PROVE FlightInv'
  BY <1>1, <1>3 DEF Broadcast, Connected, Disconnected, paging
<1>4. ASSUME OnEvent \/ Flush PROVE FlightInv'
  BY <1>1, <1>4 DEF OnEvent, Flush, paging
<1>5. CASE LoadMore
  <2> DEFINE q == Request(requestId, "more", filters, offset)
  <2>1. q.kind = "more" /\ requests' = requests \cup {q} /\ loadingMore' = TRUE
    BY <1>5 DEF LoadMore, Request
  <2>2. \A r \in requests : r.kind # "more"
    BY <1>5 DEF LoadMore, FlightInv
  <2> HIDE DEF q
  <2> QED BY <2>1, <2>2 DEF FlightInv
<1>6. ASSUME NEW r \in requests, Answer(r) PROVE FlightInv'
  <2>1. PICK x : /\ requests' = (requests \ {r}) \cup {x}
                 /\ x.id = r.id /\ x.kind = r.kind
    BY <1>6, AnswerSteps
  <2>2. UNCHANGED loadingMore
    BY <1>6 DEF Answer
  <2> QED BY <2>1, <2>2 DEF FlightInv
<1>7. ASSUME NEW r \in requests, OnInitial(r) PROVE FlightInv'
  BY <1>1, <1>7 DEF OnInitial
<1>8. ASSUME NEW r \in requests, OnMore(r) PROVE FlightInv'
  <2>1. requests' = requests \ {r} /\ r.kind = "more"
    BY <1>8 DEF OnMore
  <2> QED BY <2>1 DEF FlightInv
<1>9. ASSUME NEW r \in requests, Failed(r) PROVE FlightInv'
  <2>1. requests' = requests \ {r}
    BY <1>9 DEF Failed
  <2>2. CASE r.kind = "initial"
    BY <1>1, <1>9, <2>1, <2>2 DEF Failed
  <2>3. CASE r.kind # "initial"
    <3>1. r.kind = "more"
      BY <2>3 DEF TypeInv, WellFormed
    <3> QED BY <2>1, <3>1 DEF FlightInv
  <2> QED BY <2>2, <2>3
<1>10. ASSUME NEW f, Reload(f) PROVE FlightInv'
  <2> DEFINE q == Request(requestId + 1, "initial", f, 0)
  <2>1. /\ q.kind = "initial" /\ q.id = requestId + 1
        /\ requests' = requests \cup {q} /\ UNCHANGED loadingMore
    BY <1>10 DEF Reload, LoadInitial, AskInitial, Request
  <2>2. \A r \in requests : r.id # requestId + 1
    BY DEF TypeInv, WellFormed
  <2> HIDE DEF q
  <2> QED BY <2>1, <2>2 DEF FlightInv
<1>11. CASE ClearLogsBuffer
  BY <1>1, <1>11 DEF ClearLogsBuffer
<1>12. ASSUME NEW i, ToggleSelectLog(i) \/ InspectWithContext(i) PROVE FlightInv'
  BY <1>1, <1>12 DEF ToggleSelectLog, InspectWithContext, paging
<1>13. CASE UNCHANGED vars
  BY <1>1, <1>13 DEF vars, paging
<1> QED BY <1>2, <1>3, <1>4, <1>5, <1>6, <1>7, <1>8, <1>9, <1>10, <1>11, <1>12, <1>13, Steps

LEMMA AskedStep ==
  ASSUME Ways \subseteq {"enter"}, TypeInv, FlightInv, AskedInv, [Next]_vars
  PROVE  AskedInv'
<1>0. ASSUME UNCHANGED <<filters, paging>> PROVE AskedInv'
  BY <1>0 DEF AskedInv, Asked, IsCurrent, paging
<1>1. ASSUME requests' \subseteq requests, UNCHANGED <<filters, requestId>>,
             NEW r \in requests, IsCurrent(r), r \notin requests'
      PROVE  AskedInv'
  <2>1. \A q \in requests' : q \in requests /\ ~ IsCurrent(q)
    BY <1>1, OneCurrent
  <2> QED BY <1>1, <2>1 DEF AskedInv, Asked, IsCurrent
<1>2. ASSUME requests' \subseteq requests,
             UNCHANGED <<filters, requestId, offset, loading, hasMore>>
      PROVE  AskedInv'
  BY <1>2 DEF AskedInv, Asked, IsCurrent
<1>3. ASSUME NEW kind, Commit(kind) PROVE AskedInv'
  BY <1>0, <1>3 DEF Commit
<1>4. ASSUME Broadcast \/ Connected \/ Disconnected PROVE AskedInv'
  BY <1>0, <1>4 DEF Broadcast, Connected, Disconnected
<1>5. ASSUME OnEvent \/ Flush PROVE AskedInv'
  BY <1>0, <1>5 DEF OnEvent, Flush
<1>6. CASE LoadMore
  <2> DEFINE q == Request(requestId, "more", filters, offset)
  <2>1. /\ q.kind = "more" /\ q.filters = filters /\ q.offset = offset
        /\ requests' = requests \cup {q} /\ ~ loading
        /\ UNCHANGED <<filters, requestId, offset, loading, hasMore>>
    BY <1>6 DEF LoadMore, Request
  <2> HIDE DEF q
  <2> QED BY <2>1 DEF AskedInv, Asked, IsCurrent
<1>7. ASSUME NEW r \in requests, Answer(r) PROVE AskedInv'
  <2>1. PICK x : /\ requests' = (requests \ {r}) \cup {x}
                 /\ x.id = r.id /\ x.kind = r.kind /\ x.filters = r.filters
                 /\ x.offset = r.offset
    BY <1>7, AnswerSteps
  <2>2. UNCHANGED <<filters, requestId, offset, loading, hasMore>>
    BY <1>7 DEF Answer
  <2> QED BY <2>1, <2>2 DEF AskedInv, Asked, IsCurrent
<1>8. ASSUME NEW r \in requests, OnInitial(r) \/ OnMore(r) \/ Failed(r) PROVE AskedInv'
  <2>1. requests' = requests \ {r} /\ UNCHANGED <<filters, requestId>>
    BY <1>8 DEF OnInitial, OnMore, Failed
  <2>2. CASE IsCurrent(r)
    BY <1>1, <2>1, <2>2
  <2>3. CASE ~ IsCurrent(r)
    <3>1. UNCHANGED <<offset, hasMore>>
      BY <1>8, <2>3 DEF OnInitial, OnMore, Failed
    <3>2. loading' = loading
      <4>1. CASE OnInitial(r) \/ OnMore(r)
        BY <2>3, <4>1 DEF OnInitial, OnMore
      <4>2. CASE Failed(r)
        <5>1. loading \in BOOLEAN
          BY DEF TypeInv
        <5> QED BY <2>3, <4>2, <5>1 DEF Failed
      <4> QED BY <1>8, <4>1, <4>2
    <3> QED BY <1>2, <2>1, <3>1, <3>2
  <2> QED BY <2>2, <2>3
<1>9. ASSUME NEW f, Reload(f), f = filters' PROVE AskedInv'
  <2> DEFINE q == Request(requestId + 1, "initial", f, 0)
  <2>1. /\ q.kind = "initial" /\ q.filters = filters' /\ q.offset = 0
        /\ requests' = requests \cup {q} /\ requestId' = requestId + 1
        /\ loading' = TRUE /\ hasMore' = TRUE
    BY <1>9 DEF Reload, LoadInitial, AskInitial, Request
  <2>2. \A r \in requests : r.id # requestId + 1
    BY DEF TypeInv, WellFormed
  <2> HIDE DEF q
  <2> QED BY <2>1, <2>2 DEF AskedInv, Asked, IsCurrent
<1>10. CASE ClearLogsBuffer
  <2>1. requests' = requests /\ requestId' = requestId + 1
    BY <1>10 DEF ClearLogsBuffer
  <2>2. \A r \in requests : r.id # requestId + 1
    BY DEF TypeInv, WellFormed
  <2> QED BY <2>1, <2>2 DEF AskedInv, Asked, IsCurrent
<1>11. ASSUME NEW i, ToggleSelectLog(i) \/ InspectWithContext(i) PROVE AskedInv'
  BY <1>0, <1>11 DEF ToggleSelectLog, InspectWithContext
<1>12. CASE UNCHANGED vars
  BY <1>0, <1>12 DEF vars
<1> QED BY <1>3, <1>4, <1>5, <1>6, <1>7, <1>8, <1>9, <1>10, <1>11, <1>12, Steps

-----------------------------------------------------------------------------
\* Events.

\* Events on their way are of rows the server filters in, and the stream is
\* followed only when the range of the filters has no end.
Sent(t, f, S) == \A n \in S : n \in 1 .. Len(t) /\ t[n] \in f.stream /\ f.to = NoTo
FeedInv ==
  /\ es # "closed" => filters.to = NoTo
  /\ Sent(rows, filters, Range(wire))
  /\ Passed(rows, filters, Range(buffer))

LEMMA RangeOfAppend ==
  ASSUME NEW S, NEW s \in Seq(S), NEW e \in S
  PROVE  Range(Append(s, e)) = Range(s) \cup {e}
<1>1. <<e>> \in Seq(S)
  BY SeqDef
<1>2. PICK one \in Seq(S) : one = <<e>>
  BY <1>1
<1>3. Append(s, e) = s \o one
  BY <1>2, AppendIsConcat
<1>4. Range(s \o one) = Range(s) \cup Range(one)
  BY RangeOfBoth
<1>5. Range(one) = {e}
  BY <1>2 DEF Range
<1> QED BY <1>3, <1>4, <1>5

LEMMA RangeOfTail ==
  ASSUME NEW S, NEW s \in Seq(S), s # <<>>
  PROVE  Head(s) \in Range(s) /\ Range(Tail(s)) \subseteq Range(s)
<1>1. PICK n \in Nat : n = Len(s)
  BY LenProperties
<1>2. DOMAIN s = 1 .. n /\ DOMAIN Tail(s) = 1 .. n - 1
  BY <1>1, LenProperties, HeadTailProperties
<1>3. \A i \in 1 .. n - 1 : Tail(s)[i] = s[i + 1] /\ i + 1 \in 1 .. n
  BY <1>1, HeadTailProperties
<1>4. n # 0
  BY <1>1, EmptySeq
<1>5. 1 \in 1 .. n /\ Head(s) = s[1]
  BY <1>4
<1> QED BY <1>2, <1>3, <1>5 DEF Range

LEMMA NothingSent ==
  /\ <<>> \in Seq(Nat) /\ Range(<<>>) = {}
  /\ \A t, f : Sent(t, f, {}) /\ Passed(t, f, {})
<1>1. <<>> \in Seq(Nat) /\ DOMAIN <<>> = {}
  BY EmptySeq
<1> QED BY <1>1 DEF Range, Sent, Passed

LEMMA FeedInit == ASSUME Init PROVE FeedInv
<1>1. wire = <<>> /\ buffer = <<>>
  BY DEF Init
<1>2. filters.to = NoTo
  BY StreamAssumption DEF Init
<1> QED BY <1>1, <1>2, NothingSent DEF FeedInv

\* An event that arrives is of a row that passes the filters, if the query finds it.
LEMMA ArrivingPasses ==
  ASSUME TypeInv, FeedInv, wire # <<>>, rows[Head(wire)] \in filters.query
  PROVE  Head(wire) \in Nat /\ Passed(rows, filters, Range(buffer) \cup {Head(wire)})
<1>1. PICK n : n = Head(wire) /\ n \in Range(wire)
  BY RangeOfTail DEF TypeInv
<1>2. n \in 1 .. Len(rows) /\ rows[n] \in filters.stream /\ filters.to = NoTo
  BY <1>1 DEF FeedInv, Sent
<1>3. Len(rows) \in Nat /\ Len(rows) <= NoTo /\ NoTo \in Int
  BY LenProperties, StreamAssumption DEF TypeInv, NoTo
<1>4. n <= filters.to
  BY <1>2, <1>3
<1>5. Passes(filters, rows[n], n)
  BY <1>1, <1>2, <1>4 DEF Passes
<1> QED BY <1>1, <1>2, <1>5 DEF FeedInv, Passed

LEMMA FeedStep == ASSUME TypeInv, FeedInv, [Next]_vars PROVE FeedInv'
<1>0. ASSUME UNCHANGED <<rows, feed, filters, buffer>> PROVE FeedInv'
  BY <1>0 DEF FeedInv, feed
<1>1. ASSUME NEW kind \in Kinds, Commit(kind) PROVE FeedInv'
  <2>1. rows \in Seq(Kinds) /\ rows' = Append(rows, kind)
    BY <1>1 DEF Commit, TypeInv
  <2>2. /\ Len(rows) \in Nat /\ Len(rows') = Len(rows) + 1
        /\ \A i \in 1 .. Len(rows) : rows'[i] = rows[i]
    BY <2>1, LenProperties, AppendProperties
  <2>3. Sent(rows', filters, Range(wire))
    BY <2>2 DEF FeedInv, Sent
  <2>4. Passed(rows', filters, Range(buffer))
    BY <2>2 DEF FeedInv, Passed
  <2> QED BY <1>1, <2>3, <2>4 DEF Commit, FeedInv, feed
<1>2. CASE Broadcast
  <2>1. PICK n \in Nat : n = broadcast + 1 /\ n \in 1 .. Len(rows)
    BY <1>2, LenProperties DEF Broadcast, TypeInv
  <2>2. UNCHANGED <<rows, es, filters, buffer>>
    BY <1>2 DEF Broadcast
  <2>3. CASE wire' = wire
    BY <1>0, <2>2, <2>3 DEF feed
  <2>4. CASE wire' = Append(wire, n) /\ es = "open" /\ rows[n] \in filters.stream
    <3>1. Range(wire') = Range(wire) \cup {n}
      <4>1. wire \in Seq(Nat)
        BY DEF TypeInv
      <4>2. Range(Append(wire, n)) = Range(wire) \cup {n}
        BY <4>1, RangeOfAppend
      <4> QED BY <2>4, <4>2
    <3>2. Sent(rows, filters, Range(wire'))
      BY <2>1, <2>4, <3>1 DEF FeedInv, Sent
    <3> QED BY <2>2, <3>2 DEF FeedInv
  <2> QED BY <1>2, <2>1, <2>3, <2>4 DEF Broadcast
<1>3. CASE Connected
  <2>1. UNCHANGED <<rows, wire, filters, buffer>> /\ es # "closed"
    BY <1>3 DEF Connected, server
  <2> QED BY <2>1 DEF FeedInv
<1>4. CASE Disconnected
  <2>1. UNCHANGED <<rows, filters, buffer>> /\ es # "closed" /\ wire' = <<>>
    BY <1>4 DEF Disconnected, server
  <2> QED BY <2>1, NothingSent DEF FeedInv
<1>5. CASE OnEvent
  <2>1. UNCHANGED <<rows, es, filters>> /\ wire # <<>> /\ wire' = Tail(wire)
    BY <1>5 DEF OnEvent, server
  <2>2. Range(wire') \subseteq Range(wire)
    BY <2>1, RangeOfTail DEF TypeInv
  <2>3. Sent(rows, filters, Range(wire'))
    BY <2>2 DEF FeedInv, Sent
  <2>4. Passed(rows, filters, Range(buffer'))
    <3>1. CASE UNCHANGED buffer
      BY <3>1 DEF FeedInv
    <3>2. CASE buffer' = <<>>
      BY <3>2, NothingSent
    <3>3. CASE buffer' = Append(buffer, Head(wire)) /\ rows[Head(wire)] \in filters.query
      <4>1. Head(wire) \in Nat /\ Passed(rows, filters, Range(buffer) \cup {Head(wire)})
        BY <2>1, <3>3, ArrivingPasses
      <4>2. Range(buffer') = Range(buffer) \cup {Head(wire)}
        BY <3>3, <4>1, RangeOfAppend DEF TypeInv
      <4> QED BY <4>1, <4>2
    <3> QED BY <1>5, <3>1, <3>2, <3>3 DEF OnEvent, FlushOf
  <2> QED BY <2>1, <2>3, <2>4 DEF FeedInv
<1>6. CASE Flush
  <2>1. UNCHANGED <<rows, es, wire, filters>> /\ buffer' = <<>>
    BY <1>6 DEF Flush, FlushOf, server, feed
  <2> QED BY <2>1, NothingSent DEF FeedInv
<1>7. CASE LoadMore
  BY <1>0, <1>7 DEF LoadMore, server
<1>8. ASSUME NEW r, Answer(r) \/ OnInitial(r) \/ OnMore(r) \/ Failed(r) PROVE FeedInv'
  BY <1>0, <1>8 DEF Answer, OnInitial, OnMore, Failed, server
<1>9. ASSUME NEW f, Reload(f) PROVE FeedInv'
  <2>1. UNCHANGED rows /\ buffer' = <<>>
    BY <1>9 DEF Reload, LoadInitial, DropBuffer, server
  <2>2. /\ es' # "closed" => filters'.to = NoTo
        /\ Sent(rows, filters', Range(wire'))
    <3>1. CASE UNCHANGED feed /\ filters'.stream = filters.stream /\ filters'.to = filters.to
      BY <3>1 DEF FeedInv, Sent, feed
    <3>2. CASE es' = Connection(filters') /\ wire' = <<>>
      BY <3>2, NothingSent DEF Connection
    <3> QED BY <1>9, <3>1, <3>2 DEF Reload
  <2> QED BY <2>1, <2>2, NothingSent DEF FeedInv
<1>10. CASE ClearLogsBuffer
  <2>1. UNCHANGED <<rows, es, wire, filters>> /\ buffer' = <<>>
    BY <1>10 DEF ClearLogsBuffer, DropBuffer, server, feed
  <2> QED BY <2>1, NothingSent DEF FeedInv
<1>11. ASSUME NEW i, ToggleSelectLog(i) \/ InspectWithContext(i) PROVE FeedInv'
  BY <1>0, <1>11 DEF ToggleSelectLog, InspectWithContext, server
<1>12. CASE UNCHANGED vars
  BY <1>0, <1>12 DEF vars, server
<1> QED BY <1>1, <1>2, <1>3, <1>4, <1>5, <1>6, <1>7, <1>8, <1>9, <1>10, <1>11, <1>12, Steps

-----------------------------------------------------------------------------
\* The history on the screen.

\* What a request that counts brought passes the filters, and covers the rows it
\* was asked for; an older page does so together with the pages before it.
Answered(r) ==
  r.done /\ IsCurrent(r) =>
    /\ Passed(rows, filters, Range(r.page.rows))
    /\ r.kind = "initial" =>
         /\ r.page.newest \in Nat /\ r.page.newest <= Len(rows)
         /\ Covers(Range(r.page.rows), rows, filters, Len(r.page.rows), r.page.newest,
                   IsLastPage(r.page, Len(r.page.rows)))
    /\ r.kind = "more" /\ Settled =>
         Covers(fetched \cup Range(r.page.rows), rows, filters,
                offset + Len(r.page.rows), newest,
                IsLastPage(r.page, offset + Len(r.page.rows)))
AnsweredInv == \A r \in requests : Answered(r)

SettledInv ==
  Settled =>
    /\ Passed(rows, filters, Range(logs))
    /\ newest \in Nat /\ newest <= Len(rows)
    /\ fetched \subseteq Range(logs)
    /\ Covers(fetched, rows, filters, offset, newest, ~ hasMore)

HistoryInv == AnsweredInv /\ SettledInv

LEMMA HistoryInit == ASSUME Init PROVE HistoryInv
<1>1. requests = {Request(1, "initial", NoFilter, 0)} /\ loading = TRUE
  BY DEF Init
<1>2. \A r \in requests : r.done = FALSE
  BY <1>1 DEF Request
<1> QED BY <1>1, <1>2 DEF HistoryInv, AnsweredInv, Answered, SettledInv, Settled

LEMMA HistoryStep ==
  ASSUME Ways \subseteq {"enter"}, TypeInv, TypeInv', SelectionInv, SelectionInv', FlightInv,
         AskedInv, FeedInv, HistoryInv, [Next]_vars
  PROVE  HistoryInv'
<1>T. /\ rows \in Seq(Kinds) /\ Len(rows) \in Nat /\ requestId \in Nat /\ offset \in Nat
      /\ loading \in BOOLEAN /\ upset \in BOOLEAN
      /\ \A r \in requests : r.done => r.page.rows \in Seq(Nat) /\ Len(r.page.rows) \in Nat
  BY LenProperties DEF TypeInv, WellFormed
<1>A. ASSUME NEW r \in requests, Answered(r),
             UNCHANGED <<rows, filters, requestId, offset, newest, fetched>>,
             Settled' => Settled
      PROVE  Answered(r)'
  BY <1>A DEF Answered, IsCurrent
<1>S. ASSUME UNCHANGED <<rows, filters, offset, newest, fetched, hasMore, logs>>,
             Settled' => Settled
      PROVE  SettledInv'
  BY <1>S DEF SettledInv, HistoryInv
<1>0. ASSUME UNCHANGED <<rows, filters, logs, paging, history, upset>> PROVE HistoryInv'
  <2>1. Settled' = Settled
    BY <1>0 DEF Settled, paging
  <2>2. \A r \in requests : Answered(r)'
    BY <1>0, <1>A, <2>1 DEF HistoryInv, AnsweredInv, paging, history
  <2>3. SettledInv'
    BY <1>0, <1>S, <2>1 DEF paging, history
  <2> QED BY <1>0, <2>2, <2>3 DEF HistoryInv, AnsweredInv, paging
<1>1. ASSUME NEW kind \in Kinds, Commit(kind) PROVE HistoryInv'
  <2>1. rows' = Append(rows, kind) /\ UNCHANGED <<filters, logs, paging, history, upset>>
    BY <1>1 DEF Commit
  <2>2. Settled' = Settled
    BY <2>1 DEF Settled, paging
  <2>3. Len(rows') = Len(rows) + 1
    BY <1>T, <2>1, AppendProperties
  <2>4. ASSUME NEW S, Passed(rows, filters, S) PROVE Passed(rows', filters, S)
    BY <1>T, <2>1, <2>4, PassedAppend
  <2>5. ASSUME NEW S, NEW depth \in Nat, NEW top \in Nat, top <= Len(rows), NEW last,
               Covers(S, rows, filters, depth, top, last)
        PROVE  Covers(S, rows', filters, depth, top, last)
    BY <1>T, <2>1, <2>5, CoversAppend
  <2>6. ASSUME NEW r \in requests PROVE Answered(r)'
    <3> SUFFICES ASSUME r.done, IsCurrent(r) PROVE Answered(r)'
      BY <2>1 DEF Answered, IsCurrent, paging
    <3>1. Answered(r)
      BY DEF HistoryInv, AnsweredInv
    <3>2. PICK len \in Nat : len = Len(r.page.rows)
      BY <1>T
    <3>3. Passed(rows', filters, Range(r.page.rows))
      BY <2>4, <3>1 DEF Answered
    <3>4. ASSUME r.kind = "initial"
          PROVE  /\ r.page.newest \in Nat /\ r.page.newest <= Len(rows')
                 /\ Covers(Range(r.page.rows), rows', filters, len, r.page.newest,
                           IsLastPage(r.page, len))
      <4>1. /\ r.page.newest \in Nat /\ r.page.newest <= Len(rows)
            /\ Covers(Range(r.page.rows), rows, filters, len, r.page.newest,
                      IsLastPage(r.page, len))
        BY <3>1, <3>2, <3>4 DEF Answered
      <4> QED BY <1>T, <2>3, <2>5, <3>2, <4>1
    <3>5. ASSUME r.kind = "more", Settled
          PROVE  Covers(fetched \cup Range(r.page.rows), rows', filters, offset + len,
                        newest, IsLastPage(r.page, offset + len))
      <4>1. Covers(fetched \cup Range(r.page.rows), rows, filters, offset + len,
                   newest, IsLastPage(r.page, offset + len))
        BY <3>1, <3>2, <3>5 DEF Answered
      <4>2. newest \in Nat /\ newest <= Len(rows) /\ offset + len \in Nat
        BY <1>T, <3>2, <3>5 DEF HistoryInv, SettledInv
      <4> QED BY <2>5, <4>1, <4>2
    <3> QED BY <2>1, <2>2, <3>2, <3>3, <3>4, <3>5 DEF Answered, paging, history
  <2>7. SettledInv'
    <3> SUFFICES ASSUME Settled PROVE SettledInv'
      BY <2>2 DEF SettledInv
    <3>1. /\ Passed(rows, filters, Range(logs)) /\ newest \in Nat /\ newest <= Len(rows)
          /\ fetched \subseteq Range(logs)
          /\ Covers(fetched, rows, filters, offset, newest, ~ hasMore)
      BY DEF HistoryInv, SettledInv
    <3>2. Passed(rows', filters, Range(logs))
      BY <2>4, <3>1
    <3>3. Covers(fetched, rows', filters, offset, newest, ~ hasMore)
      BY <1>T, <2>5, <3>1
    <3>4. newest <= Len(rows')
      BY <1>T, <2>3, <3>1
    <3> QED BY <2>1, <3>1, <3>2, <3>3, <3>4 DEF SettledInv, paging, history
  <2> QED BY <2>1, <2>6, <2>7 DEF HistoryInv, AnsweredInv, paging
<1>2. ASSUME Broadcast \/ Connected \/ Disconnected PROVE HistoryInv'
  BY <1>0, <1>2 DEF Broadcast, Connected, Disconnected, server
<1>3. ASSUME NEW events \in Seq(Nat), FlushOf(events), Passed(rows, filters, Range(events)),
             UNCHANGED <<rows, filters, paging, history>>
      PROVE  HistoryInv'
  <2>1. Settled' => Settled
    BY <1>3 DEF Settled, FlushOf, paging
  <2>2. \A r \in requests : Answered(r)'
    BY <1>3, <1>A, <2>1 DEF HistoryInv, AnsweredInv, paging, history
  <2>3. SettledInv'
    <3> SUFFICES ASSUME Settled' PROVE SettledInv'
      BY DEF SettledInv
    <3>1. Settled /\ ~ upset /\ ~ upset'
      BY <2>1 DEF Settled
    <3>2. logs \in Seq(Nat)
      BY <3>1 DEF SelectionInv
    <3>3. Range(logs') = Range(events) \cup Range(logs)
      BY <1>3, <3>1, <3>2, FlushPutsOnTop
    <3>4. /\ Passed(rows, filters, Range(logs)) /\ newest \in Nat /\ newest <= Len(rows)
          /\ fetched \subseteq Range(logs)
          /\ Covers(fetched, rows, filters, offset, newest, ~ hasMore)
      BY <3>1 DEF HistoryInv, SettledInv
    <3>5. Passed(rows, filters, Range(logs')) /\ fetched \subseteq Range(logs')
      BY <1>3, <3>3, <3>4 DEF Passed
    <3> QED BY <1>3, <3>4, <3>5 DEF SettledInv, paging, history
  <2> QED BY <1>3, <2>2, <2>3 DEF HistoryInv, AnsweredInv, paging
<1>4. CASE OnEvent
  <2>1. UNCHANGED <<rows, filters, paging, history>> /\ wire # <<>>
    BY <1>4 DEF OnEvent, server
  <2>2. CASE UNCHANGED <<logs, upset>>
    BY <1>0, <2>1, <2>2
  <2>3. CASE FlushOf(Append(buffer, Head(wire))) /\ rows[Head(wire)] \in filters.query
    <3>1. Head(wire) \in Nat /\ Passed(rows, filters, Range(buffer) \cup {Head(wire)})
      BY <2>1, <2>3, ArrivingPasses
    <3>2. /\ Append(buffer, Head(wire)) \in Seq(Nat)
          /\ Range(Append(buffer, Head(wire))) = Range(buffer) \cup {Head(wire)}
      BY <3>1, AppendProperties, RangeOfAppend DEF TypeInv
    <3> QED BY <1>3, <2>1, <2>3, <3>1, <3>2
  <2> QED BY <1>4, <2>2, <2>3 DEF OnEvent
<1>5. CASE Flush
  <2>1. UNCHANGED <<rows, filters, paging, history>> /\ FlushOf(buffer)
    BY <1>5 DEF Flush, server
  <2>2. buffer \in Seq(Nat) /\ Passed(rows, filters, Range(buffer))
    BY DEF TypeInv, FeedInv
  <2> QED BY <1>3, <2>1, <2>2
<1>6. CASE LoadMore
  <2>0. PICK q : q = Request(requestId, "more", filters, offset)
    OBVIOUS
  <2>1. /\ q.done = FALSE /\ requests' = requests \cup {q}
        /\ UNCHANGED <<rows, filters, logs, requestId, offset, loading, hasMore, history,
                       upset>>
    BY <1>6, <2>0 DEF LoadMore, Request, server
  <2>2. Settled' = Settled
    BY <2>1 DEF Settled
  <2>3. \A r \in requests : Answered(r)'
    BY <1>A, <2>1, <2>2 DEF HistoryInv, AnsweredInv, history
  <2>4. Answered(q)'
    BY <2>1 DEF Answered
  <2>5. SettledInv'
    BY <1>S, <2>1, <2>2 DEF history
  <2> QED BY <2>1, <2>3, <2>4, <2>5 DEF HistoryInv, AnsweredInv
<1>7. ASSUME NEW r \in requests, Answer(r) PROVE HistoryInv'
  <2>1. /\ UNCHANGED <<rows, filters, logs, requestId, offset, loading, hasMore, history,
                       upset>>
    BY <1>7 DEF Answer, server
  <2>2. Settled' = Settled
    BY <2>1 DEF Settled
  <2>3. \A q \in requests : Answered(q)'
    BY <1>A, <2>1, <2>2 DEF HistoryInv, AnsweredInv, history
  <2>4. PICK x : /\ requests' = (requests \ {r}) \cup {x}
                 /\ x.id = r.id /\ x.kind = r.kind /\ x.filters = r.filters
                 /\ x.offset = r.offset /\ x.done /\ x.page = Page(r.filters, r.offset)
    BY <1>7, AnswerSteps
  <2>5. Answered(x)'
    <3> SUFFICES ASSUME IsCurrent(r) PROVE Answered(x)'
      BY <2>1, <2>4 DEF Answered, IsCurrent
    <3>1. /\ r.filters = filters
          /\ r.kind = "initial" => loading /\ hasMore /\ r.offset = 0
          /\ r.kind = "more" => ~ loading /\ r.offset = offset
      BY DEF AskedInv, Asked
    <3>2. PICK p, from : p = Page(filters, from) /\ p = x.page /\ from = r.offset
      BY <2>4, <3>1
    <3>3. from \in Nat
      BY <3>2 DEF TypeInv, WellFormed
    <3>4. /\ p.rows \in Seq(1 .. Len(rows)) /\ p.newest = Len(rows)
          /\ Passed(rows, filters, Range(p.rows))
      BY <1>T, <3>2, <3>3, PageRows
    <3>5. \A S, top : top \in Nat /\ top <= Len(rows) /\ Covers(S, rows, filters, from, top, FALSE)
            => Covers(S \cup Range(p.rows), rows, filters, from + Len(p.rows), top,
                      IsLastPage(p, from + Len(p.rows)))
      BY <1>T, <3>2, <3>3, PageCovers
    <3>6. Len(p.rows) \in Nat
      BY <3>4, LenProperties
    <3>7. ASSUME r.kind = "initial"
          PROVE  Covers(Range(p.rows), rows, filters, Len(p.rows), p.newest,
                        IsLastPage(p, Len(p.rows)))
      <4>1. from = 0 /\ p.newest \in Nat /\ p.newest <= Len(rows)
        BY <1>T, <3>1, <3>2, <3>4, <3>7
      <4>2. Covers({}, rows, filters, 0, p.newest, FALSE)
        <5>1. AllPassing(rows, filters) \in Seq(1 .. Len(rows))
          BY <1>T, AllPassingRows DEF Lists
        <5>2. Len(AllPassing(rows, filters)) \in Nat
          BY <5>1, LenProperties
        <5> QED BY <5>2 DEF Covers
      <4>3. Covers({} \cup Range(p.rows), rows, filters, 0 + Len(p.rows), p.newest,
                   IsLastPage(p, 0 + Len(p.rows)))
        BY <3>5, <4>1, <4>2
      <4>4. 0 + Len(p.rows) = Len(p.rows) /\ {} \cup Range(p.rows) = Range(p.rows)
        BY <3>6
      <4> QED BY <4>3, <4>4
    <3>8. ASSUME r.kind = "more", Settled
          PROVE  Covers(fetched \cup Range(p.rows), rows, filters, offset + Len(p.rows),
                        newest, IsLastPage(p, offset + Len(p.rows)))
      <4>1. newest \in Nat /\ newest <= Len(rows)
            /\ Covers(fetched, rows, filters, offset, newest, ~ hasMore)
        BY <3>8 DEF HistoryInv, SettledInv
      <4>2. Covers(fetched, rows, filters, offset, newest, FALSE) /\ from = offset
        BY <3>1, <3>2, <3>8, <4>1 DEF Covers
      <4> QED BY <3>5, <4>1, <4>2
    <3>9. p.newest \in Nat /\ p.newest <= Len(rows)
      BY <1>T, <3>4
    <3> QED BY <2>1, <2>2, <2>4, <3>2, <3>4, <3>7, <3>8, <3>9 DEF Answered, history
  <2>6. SettledInv'
    BY <1>S, <2>1, <2>2 DEF history
  <2> QED BY <2>3, <2>4, <2>5, <2>6 DEF HistoryInv, AnsweredInv
<1>8. ASSUME NEW r \in requests, OnInitial(r) PROVE HistoryInv'
  <2>1. /\ requests' = requests \ {r} /\ UNCHANGED <<rows, filters, requestId>>
        /\ r.kind = "initial" /\ r.done
    BY <1>8 DEF OnInitial, server
  <2>2. CASE ~ IsCurrent(r)
    <3>1. UNCHANGED <<logs, offset, hasMore, loading, history, upset>>
      BY <1>8, <2>2 DEF OnInitial
    <3>2. Settled' = Settled
      BY <3>1 DEF Settled
    <3>3. \A q \in requests : Answered(q)'
      BY <1>A, <2>1, <3>1, <3>2 DEF HistoryInv, AnsweredInv, history
    <3>4. SettledInv'
      BY <1>S, <2>1, <3>1, <3>2 DEF history
    <3> QED BY <2>1, <3>3, <3>4 DEF HistoryInv, AnsweredInv
  <2>3. CASE IsCurrent(r)
    <3>1. \A q \in requests' : ~ IsCurrent(q)'
      BY <2>1, <2>3, OneCurrent DEF IsCurrent
    <3>2. AnsweredInv'
      BY <3>1 DEF AnsweredInv, Answered
    <3>3. hasMore
      BY <2>1, <2>3 DEF AskedInv, Asked
    <3>4. /\ Passed(rows, filters, Range(r.page.rows))
          /\ r.page.newest \in Nat /\ r.page.newest <= Len(rows)
          /\ Covers(Range(r.page.rows), rows, filters, Len(r.page.rows), r.page.newest,
                    IsLastPage(r.page, Len(r.page.rows)))
      BY <2>1, <2>3 DEF HistoryInv, AnsweredInv, Answered
    <3>5. /\ logs' = r.page.rows /\ offset' = Len(r.page.rows) /\ newest' = r.page.newest
          /\ fetched' = Range(r.page.rows)
          /\ hasMore' = (hasMore /\ ~ IsLastPage(r.page, Len(r.page.rows)))
      BY <1>8, <2>3 DEF OnInitial
    <3>6. ~ hasMore' => IsLastPage(r.page, Len(r.page.rows))
      BY <3>3, <3>5
    <3>7. Covers(fetched', rows', filters', offset', newest', ~ hasMore')
      BY <2>1, <3>4, <3>5, <3>6 DEF Covers
    <3> QED BY <2>1, <3>2, <3>4, <3>5, <3>7 DEF HistoryInv, SettledInv
  <2> QED BY <2>2, <2>3
<1>9. ASSUME NEW r \in requests, OnMore(r) PROVE HistoryInv'
  <2>1. /\ requests' = requests \ {r} /\ r.kind = "more" /\ r.done
        /\ UNCHANGED <<rows, filters, requestId, loading, newest, upset>>
    BY <1>9 DEF OnMore, server
  <2>2. Settled' = Settled
    BY <2>1 DEF Settled
  <2>3. CASE ~ IsCurrent(r)
    <3>1. UNCHANGED <<offset, hasMore, logs, fetched>>
      BY <1>9, <2>3 DEF OnMore
    <3>2. \A q \in requests : Answered(q)'
      BY <1>A, <2>1, <2>2, <3>1 DEF HistoryInv, AnsweredInv
    <3>3. SettledInv'
      BY <1>S, <2>1, <2>2, <3>1
    <3> QED BY <2>1, <3>2, <3>3 DEF HistoryInv, AnsweredInv
  <2>4. CASE IsCurrent(r)
    <3>1. \A q \in requests' : ~ IsCurrent(q)'
      BY <2>1, <2>4, OneCurrent DEF IsCurrent
    <3>2. AnsweredInv'
      BY <3>1 DEF AnsweredInv, Answered
    <3>3. SettledInv'
      <4> SUFFICES ASSUME Settled PROVE SettledInv'
        BY <2>2 DEF SettledInv
      <4>1. r.offset = offset
        BY <2>1, <2>4 DEF AskedInv, Asked
      <4>2. /\ Passed(rows, filters, Range(r.page.rows))
            /\ Covers(fetched \cup Range(r.page.rows), rows, filters,
                      offset + Len(r.page.rows), newest,
                      IsLastPage(r.page, offset + Len(r.page.rows)))
        BY <2>1, <2>4 DEF HistoryInv, AnsweredInv, Answered
      <4>3. /\ Passed(rows, filters, Range(logs))
            /\ newest \in Nat /\ newest <= Len(rows)
            /\ fetched \subseteq Range(logs)
            /\ Covers(fetched, rows, filters, offset, newest, ~ hasMore)
        BY DEF HistoryInv, SettledInv
      <4>4. /\ offset' = offset + Len(r.page.rows)
            /\ hasMore' = (hasMore /\ ~ IsLastPage(r.page, offset'))
            /\ logs' = logs \o Unseen(r.page.rows)
            /\ fetched' = fetched \cup Range(r.page.rows)
        BY <1>9, <2>4, <4>1 DEF OnMore, Fetched
      <4>5. Range(logs') = Range(logs) \cup Range(r.page.rows)
        <5>1. logs \in Seq(Nat) /\ r.page.rows \in Seq(Nat)
          BY <1>T, <2>1 DEF SelectionInv, Settled
        <5> QED BY <4>4, <5>1, UnseenRows
      <4>6. Passed(rows, filters, Range(logs')) /\ fetched' \subseteq Range(logs')
        BY <4>2, <4>3, <4>4, <4>5 DEF Passed
      <4>7. Covers(fetched', rows, filters, offset', newest, ~ hasMore')
        <5>1. Covers(fetched', rows, filters, offset', newest,
                     IsLastPage(r.page, offset'))
          BY <4>2, <4>4
        <5>2. CASE hasMore
          <6>1. ~ hasMore' => IsLastPage(r.page, offset')
            BY <4>4, <5>2
          <6> QED BY <5>1, <6>1 DEF Covers
        <5>3. CASE ~ hasMore
          <6>1. \A n \in 1 .. newest : Passes(filters, rows[n], n) => n \in fetched
            BY <4>3, <5>3 DEF Covers
          <6>2. \A n \in 1 .. newest : Passes(filters, rows[n], n) => n \in fetched'
            BY <4>4, <6>1
          <6> QED BY <5>1, <6>2 DEF Covers
        <5> QED BY <5>2, <5>3
      <4> QED BY <2>1, <4>3, <4>6, <4>7 DEF SettledInv
    <3> QED BY <3>2, <3>3 DEF HistoryInv
  <2> QED BY <2>3, <2>4
<1>10. ASSUME NEW r \in requests, Failed(r) PROVE HistoryInv'
  <2>1. /\ requests' = requests \ {r}
        /\ UNCHANGED <<rows, filters, logs, requestId, offset, hasMore, history>>
    BY <1>10 DEF Failed, server
  <2>2. Settled' => Settled
    BY <1>10, <1>T DEF Failed, Settled
  <2>3. \A q \in requests : Answered(q)'
    BY <1>A, <2>1, <2>2 DEF HistoryInv, AnsweredInv, history
  <2>4. SettledInv'
    BY <1>S, <2>1, <2>2 DEF history
  <2> QED BY <2>1, <2>3, <2>4 DEF HistoryInv, AnsweredInv
<1>11. ASSUME NEW f, Reload(f) PROVE HistoryInv'
  <2> DEFINE q == Request(requestId + 1, "initial", f, 0)
  <2>1. /\ q.done = FALSE /\ requests' = requests \cup {q} /\ requestId' = requestId + 1
        /\ loading' = TRUE
    BY <1>11 DEF Reload, LoadInitial, AskInitial, Request
  <2>2. \A r \in requests : r.id # requestId + 1
    BY DEF TypeInv, WellFormed
  <2> HIDE DEF q
  <2>3. \A r \in requests' : ~ (r.done /\ IsCurrent(r)')
    BY <2>1, <2>2 DEF IsCurrent
  <2> QED BY <2>1, <2>3 DEF HistoryInv, AnsweredInv, Answered, SettledInv, Settled
<1>12. CASE ClearLogsBuffer
  <2>1. requests' = requests /\ requestId' = requestId + 1 /\ upset' = TRUE
    BY <1>12 DEF ClearLogsBuffer
  <2>2. \A r \in requests' : ~ IsCurrent(r)'
    BY <2>1 DEF TypeInv, WellFormed, IsCurrent
  <2> QED BY <2>1, <2>2 DEF HistoryInv, AnsweredInv, Answered, SettledInv, Settled
<1>13. ASSUME NEW i, ToggleSelectLog(i) PROVE HistoryInv'
  BY <1>0, <1>13 DEF ToggleSelectLog, server
<1>14. ASSUME NEW i, InspectWithContext(i) PROVE HistoryInv'
  <2>1. UNCHANGED <<rows, filters, paging, history>> /\ upset' = TRUE
    BY <1>14 DEF InspectWithContext, server
  <2>2. ~ Settled'
    BY <2>1 DEF Settled
  <2>3. \A r \in requests : Answered(r)'
    BY <1>A, <2>1, <2>2 DEF HistoryInv, AnsweredInv, paging, history
  <2> QED BY <2>1, <2>2, <2>3 DEF HistoryInv, AnsweredInv, SettledInv, paging
<1>15. CASE UNCHANGED vars
  BY <1>0, <1>15 DEF vars, server
<1> QED BY <1>1, <1>2, <1>4, <1>5, <1>6, <1>7, <1>8, <1>9, <1>10, <1>11, <1>12, <1>13, <1>14,
           <1>15, Steps

-----------------------------------------------------------------------------
\* What follows for every run.

\* The end of a Shift-click range stays on the row that was clicked, whatever is
\* flushed on top of it or loaded below it, however the search was asked for
\* (LiveLogStream.tsx:404, 862-888).
THEOREM StreamSelectionFollows == Spec => []SelectionFollowsRow
<1>1. Init => TypeInv /\ SelectionInv
  BY TypeInit, SelectionInit
<1>2. TypeInv /\ [Next]_vars => TypeInv'
  BY TypeStep
<1>3. TypeInv /\ SelectionInv /\ [Next]_vars => SelectionInv'
  BY SelectionStep
<1>4. SelectionInv => SelectionFollowsRow
  <2> SUFFICES ASSUME SelectionInv, ~ upset, lastSelected \in DOMAIN logs
               PROVE  logs[lastSelected] = clicked
    BY DEF SelectionFollowsRow
  <2>1. logs \in Seq(Nat)
    BY DEF SelectionInv
  <2>2. lastSelected # 0
    BY <2>1, LenProperties
  <2> QED BY <2>2 DEF SelectionInv
<1> QED BY <1>1, <1>2, <1>3, <1>4, PTL DEF Spec

\* What holds when every search is asked for with the Enter key.
StreamInv ==
  TypeInv /\ SelectionInv /\ FlightInv /\ AskedInv /\ FeedInv /\ HistoryInv

LEMMA StreamInductive ==
  ASSUME Ways \subseteq {"enter"}
  PROVE  Spec => []StreamInv
<1>1. Init => StreamInv
  BY TypeInit, SelectionInit, FlightInit, FeedInit, HistoryInit DEF StreamInv
<1>2. StreamInv /\ [Next]_vars => StreamInv'
  <2> SUFFICES ASSUME StreamInv, [Next]_vars PROVE StreamInv'
    OBVIOUS
  <2>1. TypeInv /\ SelectionInv /\ FlightInv /\ AskedInv /\ FeedInv /\ HistoryInv
    BY DEF StreamInv
  <2>2. TypeInv' /\ SelectionInv' /\ FlightInv' /\ AskedInv' /\ FeedInv'
    BY <2>1, TypeStep, SelectionStep, FlightStep, AskedStep, FeedStep
  <2>3. HistoryInv'
    BY <2>1, <2>2, HistoryStep
  <2> QED BY <2>2, <2>3 DEF StreamInv
<1> QED BY <1>1, <1>2, PTL DEF Spec

\* As long as the Filter button is not used, every row on the screen and in the
\* buffer passes the filters that are set once a load has ended well, whatever
\* requests and events of older filters arrive late
\* (LiveLogStream.tsx:429-433, 443-446, 488-491, 561-565, 591-598).
THEOREM StreamViewMatches ==
  ASSUME Ways \subseteq {"enter"}
  PROVE  Spec => []ViewMatchesFilters
<1>1. StreamInv => ViewMatchesFilters
  <2> SUFFICES ASSUME StreamInv, Settled, NEW n \in Shown \cup Range(buffer)
               PROVE  Matches(filters, n)
    BY DEF ViewMatchesFilters
  <2>1. Passed(rows, filters, Range(logs)) /\ Passed(rows, filters, Range(buffer))
    BY DEF StreamInv, HistoryInv, SettledInv, FeedInv
  <2> QED BY <2>1 DEF Passed, Matches, Shown
<1> QED BY <1>1, StreamInductive, PTL

\* As long as the Filter button is not used, older pages leave no hole, for any
\* size of page and any rows committed between the requests: of the rows there
\* were when the history was read, those that pass the filters and are newer than
\* some row a page brought are shown, and all of them when the beginning of the
\* history is reached (LiveLogStream.tsx:470-527, 1158).
THEOREM StreamHistoryContiguous ==
  ASSUME Ways \subseteq {"enter"}
  PROVE  Spec => []HistoryContiguous
<1>1. StreamInv => HistoryContiguous
  <2> SUFFICES ASSUME StreamInv, Settled PROVE HistoryContiguous
    BY DEF HistoryContiguous
  <2>1. /\ fetched \subseteq Range(logs)
        /\ Covers(fetched, rows, filters, offset, newest, ~ hasMore)
    BY DEF StreamInv, HistoryInv, SettledInv
  <2> QED BY <2>1 DEF Covers, HistoryContiguous, Matches, Shown
<1> QED BY <1>1, StreamInductive, PTL

=============================================================================
