----------------------------- MODULE AliasSyncProofs -----------------------------
(***************************************************************************)
(* Proofs about AliasSync, for every set of aliases and requests and any   *)
(* size of batch: its types, and that the stored logs follow the alias     *)
(* when the requests of an address come one after the other.               *)
(***************************************************************************)
EXTENDS AliasSync, SequenceTheorems, FiniteSetTheorems, TLAPS

-----------------------------------------------------------------------------
\* Types

Stages == {"idle", "update", "load", "loaded", "done"}

\* The entries that wait are counted with the rows.
WithinBound == Len(rows) + Len(queued) <= MaxEntries
TypeInv == TypeOK /\ WithinBound

LEMMA Names == Requests \subseteq Loaders /\ Refresh \in Loaders /\ Ip \in Labels
BY DEF Loaders, Labels

LEMMA LabelLengths ==
  ASSUME TypeOK
  PROVE  /\ Len(rows) \in Nat /\ DOMAIN rows = 1 .. Len(rows)
         /\ Len(queued) \in Nat
         /\ \A i \in 1 .. Len(rows) : rows[i] \in Labels
BY LenProperties, ElementOfSeq DEF TypeOK

LEMMA GoToMoves ==
  ASSUME TypeOK, NEW p \in Loaders, NEW label \in Stages, GoTo(p, label)
  PROVE  /\ pc' \in [Loaders -> Stages] /\ pc'[p] = label
         /\ \A q \in Loaders \ {p} : pc'[q] = pc[q]
BY DEF TypeOK, GoTo, Stages

\* What a batch writes.
LEMMA BatchRelabels ==
  ASSUME TypeOK, NEW r \in Requests, UpdateBatch(r)
  PROVE  /\ rows' \in Seq(Labels) /\ Len(rows') = Len(rows)
         /\ \E label \in {"update", "load"} :
              /\ GoTo(r, label)
              /\ label = "load" => \A i \in 1 .. Len(rows) : rows'[i] = target[r]
<1> DEFINE others == {i \in DOMAIN rows : rows[i] # target[r]}
           n == IF Cardinality(others) < BatchSize THEN Cardinality(others) ELSE BatchSize
<1>1. DOMAIN rows = 1 .. Len(rows) /\ Len(rows) \in Nat
      /\ \A i \in 1 .. Len(rows) : rows[i] \in Labels
  BY LabelLengths
<1>2. target[r] \in Labels
  BY DEF TypeOK
<1>3. IsFiniteSet(others) /\ Cardinality(others) \in Nat
  <2>1. IsFiniteSet(1 .. Len(rows))
    BY <1>1, FS_Interval
  <2>2. others \in SUBSET (1 .. Len(rows))
    BY <1>1
  <2>3. IsFiniteSet(others)
    BY ONLY <2>1, <2>2, FS_Subset
  <2> QED BY <2>3, FS_CardinalityType
<1>4. PICK batch \in kSubset(n, others) :
        /\ rows' = [i \in DOMAIN rows |-> IF i \in batch THEN target[r] ELSE rows[i]]
        /\ GoTo(r, IF LastBatch(n) THEN "load" ELSE "update")
  BY DEF UpdateBatch
<1>5. rows' \in Seq(Labels) /\ Len(rows') = Len(rows)
      /\ \A i \in 1 .. Len(rows) : rows'[i] = IF i \in batch THEN target[r] ELSE rows[i]
  BY <1>1, <1>2, <1>4
<1>6. LastBatch(n) => \A i \in 1 .. Len(rows) : rows'[i] = target[r]
  <2> SUFFICES ASSUME LastBatch(n) PROVE \A i \in 1 .. Len(rows) : rows'[i] = target[r]
    OBVIOUS
  <2>1. n = Cardinality(others)
    BY <1>3, AliasAssumption DEF LastBatch
  <2>2. batch \in SUBSET others /\ Cardinality(batch) = Cardinality(others)
    BY <1>4, <2>1 DEF kSubset
  <2>3. batch = others
    BY <1>3, <2>2, FS_Subset
  <2> QED BY <1>1, <1>5, <2>3
<1> QED BY <1>4, <1>5, <1>6

LEMMA TypeStep == ASSUME TypeInv, [Next]_vars PROVE TypeInv'
<1> USE DEF TypeInv
<1>1. Len(rows) \in Nat /\ Len(queued) \in Nat /\ MaxEntries \in Nat
  BY LabelLengths, AliasAssumption
<1>2. ASSUME NEW r \in Requests, NEW label \in Labels, Change(r, label),
             \E l \in Labels : target' = [target EXCEPT ![r] = l]
      PROVE  TypeInv'
  <2>1. pc' \in [Loaders -> Stages]
    BY <1>2, Names, GoToMoves DEF Change, Stages
  <2>2. /\ alias' \in Labels /\ latest' \in Requests /\ target' \in [Requests -> Labels]
        /\ UNCHANGED <<rows, cache, queued, loaded, failures>>
    BY <1>2 DEF Change, TypeOK
  <2>3. seen' \in [Requests -> 0 .. MaxEntries]
    BY <1>1, <1>2 DEF Change, TypeOK, WithinBound
  <2> QED BY <2>1, <2>2, <2>3 DEF TypeOK, Stages, WithinBound
<1>3. ASSUME NEW r \in Requests, NEW a \in Aliases, Upsert(r, a) PROVE TypeInv'
  <2>1. a \in Labels
    BY DEF Labels
  <2> QED BY <1>2, <1>3, <2>1 DEF Upsert
<1>4. ASSUME NEW r \in Requests, Delete(r) PROVE TypeInv'
  <2>1. CASE alias # Ip /\ Change(r, Ip) /\ target' = [target EXCEPT ![r] = Reverted]
    BY <1>2, <2>1, Names DEF Reverted
  <2>2. CASE GoTo(r, "done") /\ UNCHANGED <<alias, rows, cache, queued, target, seen, loaded,
                                             latest, failures>>
    <3>1. pc' \in [Loaders -> Stages]
      BY <2>2, Names, GoToMoves DEF Stages
    <3> QED BY <2>2, <3>1 DEF TypeOK, Stages, WithinBound
  <2> QED BY <1>4, <2>1, <2>2 DEF Delete
<1>5. ASSUME NEW r \in Requests, UpdateBatch(r) PROVE TypeInv'
  <2>1. rows' \in Seq(Labels) /\ Len(rows') = Len(rows) /\ pc' \in [Loaders -> Stages]
    BY <1>5, Names, BatchRelabels, GoToMoves DEF Stages
  <2>2. UNCHANGED <<alias, cache, queued, target, seen, loaded, latest, failures>>
    BY <1>5 DEF UpdateBatch
  <2> QED BY <2>1, <2>2 DEF TypeOK, Stages, WithinBound
<1>6. ASSUME NEW p \in Loaders, Load(p) PROVE TypeInv'
  <2>1. AfterLoad(p) \in Stages /\ "loaded" \in Stages
    BY DEF AfterLoad, Stages
  <2>2. pc' \in [Loaders -> Stages]
    BY <1>6, <2>1, GoToMoves DEF Load, Read, ReadFails, TakeOver
  <2>3. /\ loaded' \in [Loaders -> Labels] /\ cache' \in Labels
        /\ failures' \in 0 .. MaxFailures
    <3>1. CASE Read(p)
      BY <3>1 DEF Read, TypeOK
    <3>2. CASE ReadFails(p)
      <4>1. failures' \in 0 .. MaxFailures
        BY <3>2, AliasAssumption DEF ReadFails, TypeOK
      <4> QED BY <3>2, <4>1, Names DEF ReadFails, TypeOK
    <3>3. CASE TakeOver(p)
      BY <3>3 DEF TakeOver, TypeOK
    <3> QED BY <1>6, <3>1, <3>2, <3>3 DEF Load
  <2>4. UNCHANGED <<alias, rows, queued, target, seen, latest>>
    BY <1>6 DEF Load, Read, ReadFails, TakeOver
  <2> QED BY <2>2, <2>3, <2>4 DEF TypeOK, Stages, WithinBound
<1>7. CASE Resolve
  <2>1. queued' \in Seq(Labels) /\ Len(queued') = Len(queued) + 1
    BY <1>7, AppendProperties DEF Resolve, TypeOK
  <2> QED BY <1>1, <1>7, <2>1 DEF Resolve, TypeOK, WithinBound
<1>8. CASE Store
  <2>1. /\ rows' \in Seq(Labels) /\ Len(rows') = Len(rows) + 1
        /\ queued' \in Seq(Labels) /\ Len(queued') = Len(queued) - 1
    BY <1>8, AppendProperties, HeadTailProperties DEF Store, TypeOK
  <2> QED BY <1>1, <1>8, <2>1 DEF Store, TypeOK, WithinBound
<1>9. CASE UNCHANGED vars
  BY <1>9 DEF vars, TypeOK, WithinBound
<1> QED BY <1>3, <1>4, <1>5, <1>6, <1>7, <1>8, <1>9 DEF Next

-----------------------------------------------------------------------------
\* The relabelling, with one request at a time.

UnderWay(r) == pc[r] \notin {"idle", "done"}

\* The one that changed the alias last gives it to the rows, and has given it to
\* those it found once it has ended its batches.
RelabelInv ==
  /\ \A r \in Requests : UnderWay(r) => r = latest
  /\ latest # None =>
       /\ pc[latest] # "idle"
       /\ target[latest] = alias
       /\ seen[latest] <= Len(rows)
       /\ pc[latest] # "update" => \A i \in 1 .. seen[latest] : rows[i] = alias

LEMMA RelabelInit == ASSUME Init PROVE TypeInv /\ RelabelInv
<1>1. rows \in Seq(Labels) /\ queued \in Seq(Labels) /\ Len(rows) = 0 /\ Len(queued) = 0
  BY EmptySeq DEF Init
<1>2. 0 \in 0 .. MaxEntries /\ 0 \in 0 .. MaxFailures /\ 0 + 0 <= MaxEntries
  BY AliasAssumption
<1>3. TypeInv
  BY <1>1, <1>2, Names DEF Init, TypeInv, TypeOK, WithinBound
<1> QED BY <1>3, Names DEF Init, RelabelInv, UnderWay

LEMMA RelabelStep ==
  ASSUME ~ Overlapping, TypeInv, TypeInv', RelabelInv, [Next]_vars
  PROVE  RelabelInv'
<1> USE DEF TypeInv
<1>1. /\ Len(rows) \in Nat /\ \A r \in Requests : seen[r] \in Nat
      /\ latest \in Requests \cup {None} /\ None \notin Requests
  BY LabelLengths, AliasAssumption DEF TypeOK
<1>2. ASSUME NEW r \in Requests, NEW label, Change(r, label),
             target' = [target EXCEPT ![r] = label]
      PROVE  RelabelInv'
  <2>1. \A q \in Requests : pc[q] \in {"idle", "done"}
    BY <1>2 DEF Change
  <2>2. pc'[r] = "update" /\ \A q \in Requests \ {r} : pc'[q] = pc[q]
    BY <1>2, Names, GoToMoves DEF Change, Stages
  <2>3. latest' = r /\ alias' = label /\ target'[r] = label /\ seen'[r] = Len(rows')
    BY <1>2 DEF Change, TypeOK
  <2> QED BY <1>1, <2>1, <2>2, <2>3 DEF RelabelInv, UnderWay
<1>3. ASSUME NEW r \in Requests, Delete(r) PROVE RelabelInv'
  <2>1. CASE Change(r, Ip) /\ target' = [target EXCEPT ![r] = Reverted]
    BY <1>2, <2>1 DEF Reverted
  <2>2. CASE pc[r] = "idle" /\ GoTo(r, "done") /\ UNCHANGED <<alias, rows, target, seen, latest>>
    <3>1. pc'[r] = "done" /\ \A q \in Requests \ {r} : pc'[q] = pc[q]
      BY <2>2, Names, GoToMoves DEF Stages
    <3> QED BY <1>1, <2>2, <3>1 DEF RelabelInv, UnderWay
  <2> QED BY <1>3, <2>1, <2>2 DEF Delete
<1>4. ASSUME NEW r \in Requests, UpdateBatch(r) PROVE RelabelInv'
  <2>1. r = latest /\ latest # None
    BY <1>1, <1>4 DEF RelabelInv, UnderWay, UpdateBatch
  <2>2. UNCHANGED <<alias, target, seen, latest>>
    BY <1>4 DEF UpdateBatch
  <2>3. PICK label \in {"update", "load"} :
          /\ GoTo(r, label)
          /\ label = "load" => \A i \in 1 .. Len(rows) : rows'[i] = target[r]
    BY <1>4, BatchRelabels
  <2>4. pc'[r] = label /\ \A q \in Requests \ {r} : pc'[q] = pc[q]
    BY <2>3, Names, GoToMoves DEF Stages
  <2>5. Len(rows') = Len(rows)
    BY <1>4, BatchRelabels
  <2>6. pc'[r] # "update" => \A i \in 1 .. seen[r] : rows'[i] = alias
    BY <1>1, <2>1, <2>3, <2>4 DEF RelabelInv
  <2> QED BY <2>1, <2>2, <2>3, <2>4, <2>5, <2>6 DEF RelabelInv, UnderWay
<1>5. ASSUME NEW p \in Loaders, Load(p) PROVE RelabelInv'
  <2>1. UNCHANGED <<alias, rows, target, seen, latest>>
    BY <1>5 DEF Load, Read, ReadFails, TakeOver
  <2>2. PICK label \in {"loaded", "idle", "done"} :
          /\ GoTo(p, label)
          /\ p # Refresh => pc[p] \in {"load", "loaded"} /\ label # "idle"
    BY <1>5 DEF Load, Read, ReadFails, TakeOver, AfterLoad
  <2>3. pc'[p] = label /\ \A q \in Loaders \ {p} : pc'[q] = pc[q]
    BY <2>2, GoToMoves DEF Stages
  <2>4. \A r \in Requests : r # Refresh /\ r \in Loaders
    BY Names, AliasAssumption
  <2> QED BY <1>1, <2>1, <2>2, <2>3, <2>4 DEF RelabelInv, UnderWay
<1>6. CASE Resolve
  BY <1>6 DEF Resolve, RelabelInv, UnderWay
<1>7. CASE Store
  <2>1. PICK label \in Labels : label = Head(queued) /\ rows' = Append(rows, label)
    BY <1>7, HeadTailProperties DEF Store, TypeOK
  <2>2. Len(rows') = Len(rows) + 1 /\ \A i \in 1 .. Len(rows) : rows'[i] = rows[i]
    BY <2>1, AppendProperties DEF TypeOK
  <2>3. UNCHANGED <<alias, pc, target, seen, latest>>
    BY <1>7 DEF Store
  <2> QED BY <1>1, <2>2, <2>3 DEF RelabelInv, UnderWay
<1>8. CASE UNCHANGED vars
  BY <1>8 DEF vars, RelabelInv, UnderWay
<1> QED BY <1>2, <1>3, <1>4, <1>5, <1>6, <1>7, <1>8 DEF Next, Upsert

-----------------------------------------------------------------------------
\* What follows for every run.

\* The stored logs and the waiting entries are labelled, and no more of them
\* than were logged (aliases.py:37-125, syslog.py:370-399).
THEOREM AliasTypes == Spec => []TypeOK
<1>1. Init => TypeInv
  BY RelabelInit
<1>2. TypeInv /\ [Next]_vars => TypeInv'
  BY TypeStep
<1>3. TypeInv => TypeOK
  BY DEF TypeInv
<1> QED BY <1>1, <1>2, <1>3, PTL DEF Spec

\* When requests for an address come one after the other, the logs stored
\* before the last one changed the alias carry it once its batches have ended,
\* however many batches it takes and whatever is inserted between them
\* (aliases.py:37-125).
THEOREM AliasLogsFollow ==
  ASSUME ~ Overlapping
  PROVE  Spec => []ExistingLogsFollow
<1>1. Init => TypeInv /\ RelabelInv
  BY RelabelInit
<1>2. TypeInv /\ [Next]_vars => TypeInv'
  BY TypeStep
<1>3. TypeInv /\ RelabelInv /\ TypeInv' /\ [Next]_vars => RelabelInv'
  BY RelabelStep
<1>4. TypeInv /\ RelabelInv => ExistingLogsFollow
  BY DEF TypeInv, TypeOK, RelabelInv, ExistingLogsFollow
<1> QED BY <1>1, <1>2, <1>3, <1>4, PTL DEF Spec

=============================================================================
