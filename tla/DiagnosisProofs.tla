----------------------------- MODULE DiagnosisProofs -----------------------------
(***************************************************************************)
(* Proofs about Diagnosis, for every set of rows, models and contexts, any *)
(* number of openings, edits and failures: the progress names the models   *)
(* asked, a result belongs to its rows, what is sent is what is shown, the *)
(* offers match the provider, and the drawer hands over its own context.   *)
(***************************************************************************)
EXTENDS Diagnosis, SequenceTheorems, TLAPS

-----------------------------------------------------------------------------
\* The events of a stream.  The server says of the chain c, of which it has reached
\* place a: calling c[1], failover to c[2], calling c[2], ... and at the end, when it
\* is over, complete or error.

EventsOf(c) ==
  [stage : {"calling", "failover", "complete", "error"},
   model : {c[i] : i \in Nat}, failed : {c[i] : i \in Nat} \cup {None}]

\* When n of them have arrived, e are on their way.
Follows(c, a, e, n) ==
  /\ \A m \in 1 .. a, i \in 1 .. Len(e) :
       /\ n + i = 2 * m - 1 => e[i].stage = "calling" /\ e[i].model = c[m]
       /\ n + i = 2 * m - 2 =>
            e[i].stage = "failover" /\ e[i].model = c[m] /\ e[i].failed = c[m - 1]
  /\ \A i \in 1 .. Len(e) : n + i = 2 * a => e[i].stage \in {"complete", "error"}

EventsAgree(c, a, e, over, n) ==
  /\ a \in Nat /\ a > 0 /\ n \in Nat /\ over \in BOOLEAN /\ e \in Seq(EventsOf(c))
  /\ n + Len(e) = IF over THEN 2 * a ELSE 2 * a - 1
  /\ Follows(c, a, e, n)

\* The modal has named the model of the last event that arrived, and struck out the
\* ones before it.
Named(c, a, n, current, failed) ==
  \A j \in 0 .. a - 1 :
    (n = 2 * j \/ n = 2 * j + 1 \/ (n = 2 * a /\ j = a - 1)) =>
      /\ failed = {c[i] : i \in 1 .. j}
      /\ n > 0 => current = c[j + 1]

LEMMA Halves ==
  ASSUME NEW n \in Nat
  PROVE  \E m \in Nat : n = 2 * m \/ n = 2 * m + 1
<1>1. n \div 2 \in Nat /\ (n = 2 * (n \div 2) \/ n = 2 * (n \div 2) + 1)
  OBVIOUS
<1> QED BY <1>1

LEMMA FirstEvent ==
  ASSUME NEW c, NEW ev, ev = [stage |-> "calling", model |-> c[1], failed |-> None]
  PROVE  EventsAgree(c, 1, <<ev>>, FALSE, 0)
<1>1. PICK e : e = <<ev>>
  OBVIOUS
<1>2. ev \in EventsOf(c)
  BY DEF EventsOf
<1>3. e \in Seq(EventsOf(c)) /\ Len(e) = 1 /\ e[1] = ev
  BY <1>1, <1>2
<1>4. ev.stage = "calling" /\ ev.model = c[1]
  OBVIOUS
<1>5. Follows(c, 1, e, 0)
  <2>1. \A m \in 1 .. 1, i \in 1 .. Len(e) : m = 1 /\ i = 1
    BY <1>3
  <2> QED BY <1>3, <1>4, <2>1 DEF Follows
<1> QED BY <1>1, <1>3, <1>5 DEF EventsAgree

LEMMA FailoverEvent ==
  ASSUME NEW m, NEW x, NEW h, h = [stage |-> "calling", model |-> m, failed |-> None],
         NEW k, k = [h EXCEPT !.stage = "failover", !.failed = x]
  PROVE  k = [stage |-> "failover", model |-> m, failed |-> x]
<1>1. DOMAIN k = {"stage", "model", "failed"} /\ k.stage = "failover" /\ k.model = m /\ k.failed = x
  OBVIOUS
<1>2. k = [f \in DOMAIN k |-> k[f]]
  OBVIOUS
<1> QED BY <1>1, <1>2

\* The next model is asked.
LEMMA NextModel ==
  ASSUME NEW c, NEW a, NEW e, NEW n, EventsAgree(c, a, e, FALSE, n), NEW f, NEW g,
         f = [stage |-> "failover", model |-> c[a + 1], failed |-> c[a]],
         g = [stage |-> "calling", model |-> c[a + 1], failed |-> None]
  PROVE  EventsAgree(c, a + 1, e \o <<f, g>>, FALSE, n)
<1>1. /\ a \in Nat /\ a > 0 /\ n \in Nat /\ e \in Seq(EventsOf(c)) /\ n + Len(e) = 2 * a - 1
      /\ Follows(c, a, e, n)
  BY DEF EventsAgree
<1>2. f \in EventsOf(c) /\ g \in EventsOf(c)
  BY <1>1 DEF EventsOf
<1>3. PICK d, len : d = e \o <<f, g>> /\ len = Len(e)
  OBVIOUS
<1>4. /\ d \in Seq(EventsOf(c)) /\ len \in Nat /\ Len(d) = len + 2
      /\ \A i \in 1 .. len : d[i] = e[i]
      /\ d[len + 1] = f /\ d[len + 2] = g
  BY <1>1, <1>2, <1>3
<1>5. n + len = 2 * a - 1
  BY <1>1, <1>3
<1>6. ASSUME NEW m \in 1 .. a + 1, NEW i \in 1 .. Len(d)
      PROVE  /\ n + i = 2 * m - 1 => d[i].stage = "calling" /\ d[i].model = c[m]
             /\ n + i = 2 * m - 2 =>
                  d[i].stage = "failover" /\ d[i].model = c[m] /\ d[i].failed = c[m - 1]
  <2>1. CASE i \in 1 .. len
    <3>1. n + i = 2 * m - 1 \/ n + i = 2 * m - 2 => m \in 1 .. a
      BY <1>1, <1>4, <1>5, <2>1
    <3>2. i \in 1 .. Len(e) /\ d[i] = e[i]
      BY <1>3, <1>4, <2>1
    <3>3. m \in 1 .. a =>
            /\ n + i = 2 * m - 1 => e[i].stage = "calling" /\ e[i].model = c[m]
            /\ n + i = 2 * m - 2 =>
                 e[i].stage = "failover" /\ e[i].model = c[m] /\ e[i].failed = c[m - 1]
      BY <1>1, <3>2 DEF Follows
    <3> QED BY <3>1, <3>2, <3>3
  <2>2. CASE i = len + 1
    <3>1. n + i # 2 * m - 1 /\ (n + i = 2 * m - 2 => m = a + 1 /\ m - 1 = a)
      BY <1>1, <1>4, <1>5, <2>2
    <3>2. d[i].stage = "failover" /\ d[i].model = c[a + 1] /\ d[i].failed = c[a]
      BY <1>4, <2>2
    <3> QED BY <3>1, <3>2
  <2>3. CASE i = len + 2
    <3>1. n + i # 2 * m - 2 /\ (n + i = 2 * m - 1 => m = a + 1)
      BY <1>1, <1>4, <1>5, <2>3
    <3>2. d[i].stage = "calling" /\ d[i].model = c[a + 1]
      BY <1>4, <2>3
    <3> QED BY <3>1, <3>2
  <2> QED BY <1>4, <2>1, <2>2, <2>3
<1>7. \A i \in 1 .. Len(d) : n + i # 2 * (a + 1)
  BY <1>1, <1>4, <1>5
<1>8. Follows(c, a + 1, d, n)
  BY <1>6, <1>7 DEF Follows
<1>9. a + 1 \in Nat /\ a + 1 > 0 /\ n + Len(d) = 2 * (a + 1) - 1
  <2>1. a \in Nat /\ a > 0 /\ n \in Nat /\ len \in Nat /\ Len(d) = len + 2
    BY <1>1, <1>4
  <2> QED BY <1>5, <2>1
<1>10. EventsAgree(c, a + 1, d, FALSE, n)
  BY <1>1, <1>4, <1>8, <1>9 DEF EventsAgree
<1> QED BY <1>3, <1>10

\* The last event is said.
LEMMA LastEvent ==
  ASSUME NEW c, NEW a, NEW e, NEW n, EventsAgree(c, a, e, FALSE, n), NEW s \in {"complete", "error"},
         NEW g, g = [stage |-> s, model |-> c[a], failed |-> None]
  PROVE  EventsAgree(c, a, e \o <<g>>, TRUE, n)
<1>1. /\ a \in Nat /\ a > 0 /\ n \in Nat /\ e \in Seq(EventsOf(c)) /\ n + Len(e) = 2 * a - 1
      /\ Follows(c, a, e, n)
  BY DEF EventsAgree
<1>2. g \in EventsOf(c) /\ g.stage = s
  BY <1>1 DEF EventsOf
<1>3. PICK d, len : d = e \o <<g>> /\ len = Len(e)
  OBVIOUS
<1>4. /\ d \in Seq(EventsOf(c)) /\ len \in Nat /\ Len(d) = len + 1
      /\ \A i \in 1 .. len : d[i] = e[i]
      /\ d[len + 1] = g
  BY <1>1, <1>2, <1>3
<1>5. n + len = 2 * a - 1
  BY <1>1, <1>3
<1>6. ASSUME NEW m \in 1 .. a, NEW i \in 1 .. Len(d)
      PROVE  /\ n + i = 2 * m - 1 => d[i].stage = "calling" /\ d[i].model = c[m]
             /\ n + i = 2 * m - 2 =>
                  d[i].stage = "failover" /\ d[i].model = c[m] /\ d[i].failed = c[m - 1]
  <2>1. CASE i \in 1 .. len
    <3>1. i \in 1 .. Len(e) /\ d[i] = e[i]
      BY <1>3, <1>4, <2>1
    <3>2. /\ n + i = 2 * m - 1 => e[i].stage = "calling" /\ e[i].model = c[m]
          /\ n + i = 2 * m - 2 =>
               e[i].stage = "failover" /\ e[i].model = c[m] /\ e[i].failed = c[m - 1]
      BY <1>1, <3>1 DEF Follows
    <3> QED BY <3>1, <3>2
  <2>2. CASE i = len + 1
    <3>1. n + i # 2 * m - 1 /\ n + i # 2 * m - 2
      BY <1>1, <1>4, <1>5, <2>2
    <3> QED BY <3>1
  <2> QED BY <1>4, <2>1, <2>2
<1>7. ASSUME NEW i \in 1 .. Len(d), n + i = 2 * a PROVE d[i].stage \in {"complete", "error"}
  <2>1. i = len + 1
    BY <1>1, <1>4, <1>5, <1>7
  <2> QED BY <1>2, <1>4, <2>1
<1>8. Follows(c, a, d, n)
  BY <1>6, <1>7 DEF Follows
<1>9. n + Len(d) = 2 * a
  <2>1. a \in Nat /\ n \in Nat /\ len \in Nat /\ Len(d) = len + 1
    BY <1>1, <1>4
  <2> QED BY <1>5, <2>1
<1>10. EventsAgree(c, a, d, TRUE, n)
  BY <1>1, <1>4, <1>8, <1>9 DEF EventsAgree
<1> QED BY <1>3, <1>10

\* The first of them arrives.
LEMMA EventTaken ==
  ASSUME NEW c, NEW a, NEW e, NEW over, NEW n, EventsAgree(c, a, e, over, n), e # <<>>
  PROVE  EventsAgree(c, a, Tail(e), over, n + 1) /\ n + 1 <= 2 * a /\ Len(e) > 0
<1>1. /\ a \in Nat /\ a > 0 /\ n \in Nat /\ over \in BOOLEAN /\ e \in Seq(EventsOf(c))
      /\ n + Len(e) = IF over THEN 2 * a ELSE 2 * a - 1
      /\ Follows(c, a, e, n)
  BY DEF EventsAgree
<1>2. PICK d, len : d = Tail(e) /\ len = Len(e)
  OBVIOUS
<1>3. /\ d \in Seq(EventsOf(c)) /\ len \in Nat /\ len > 0 /\ Len(d) = len - 1
      /\ \A i \in 1 .. len - 1 : d[i] = e[i + 1]
  BY <1>1, <1>2, EmptySeq, HeadTailProperties
<1>4. n + len <= 2 * a
  BY <1>1, <1>2, <1>3
<1>5. ASSUME NEW i \in 1 .. Len(d)
      PROVE  i + 1 \in 1 .. Len(e) /\ d[i] = e[i + 1] /\ (n + 1) + i = n + (i + 1)
  BY <1>1, <1>2, <1>3
<1>6. Follows(c, a, d, n + 1)
  <2>1. ASSUME NEW m \in 1 .. a, NEW i \in 1 .. Len(d)
        PROVE  /\ (n + 1) + i = 2 * m - 1 => d[i].stage = "calling" /\ d[i].model = c[m]
               /\ (n + 1) + i = 2 * m - 2 =>
                    d[i].stage = "failover" /\ d[i].model = c[m] /\ d[i].failed = c[m - 1]
    <3>1. PICK k \in 1 .. Len(e) : k = i + 1 /\ d[i] = e[k] /\ (n + 1) + i = n + k
      BY <1>5
    <3>2. /\ n + k = 2 * m - 1 => e[k].stage = "calling" /\ e[k].model = c[m]
          /\ n + k = 2 * m - 2 =>
               e[k].stage = "failover" /\ e[k].model = c[m] /\ e[k].failed = c[m - 1]
      BY <1>1 DEF Follows
    <3> QED BY <3>1, <3>2
  <2>2. ASSUME NEW i \in 1 .. Len(d), (n + 1) + i = 2 * a
        PROVE  d[i].stage \in {"complete", "error"}
    <3>1. PICK k \in 1 .. Len(e) : k = i + 1 /\ d[i] = e[k] /\ (n + 1) + i = n + k
      BY <1>5
    <3>2. n + k = 2 * a => e[k].stage \in {"complete", "error"}
      BY <1>1 DEF Follows
    <3> QED BY <2>2, <3>1, <3>2
  <2> QED BY <2>1, <2>2 DEF Follows
<1>7. (n + 1) + Len(d) = n + Len(e)
  BY <1>1, <1>2, <1>3
<1>8. EventsAgree(c, a, d, over, n + 1)
  BY <1>1, <1>3, <1>6, <1>7 DEF EventsAgree
<1> QED BY <1>1, <1>2, <1>3, <1>4, <1>8

\* What the modal makes of the event that arrives.
LEMMA EventNamed ==
  ASSUME NEW c, NEW a, NEW e, NEW over, NEW n, EventsAgree(c, a, e, over, n), e # <<>>,
         NEW x, NEW f, Named(c, a, n, x, f), NEW ev, ev = e[1]
  PROVE  /\ ev.stage = "complete" => Named(c, a, n + 1, x, f)
         /\ ev.stage = "calling" => Named(c, a, n + 1, ev.model, f)
         /\ ev.stage = "failover" => Named(c, a, n + 1, ev.model, f \cup {ev.failed})
<1>1. a \in Nat /\ a > 0 /\ n \in Nat /\ Follows(c, a, e, n) /\ n + 1 <= 2 * a
  BY EventTaken DEF EventsAgree
<1>2. 1 \in 1 .. Len(e)
  BY EventTaken, LenProperties DEF EventsAgree
<1>3. PICK m \in Nat : n = 2 * m \/ n = 2 * m + 1
  BY <1>1, Halves
<1>4. CASE n = 2 * m
  <2>1. /\ m + 1 \in 1 .. a /\ n + 1 = 2 * (m + 1) - 1
        /\ m \in 0 .. a - 1
    BY <1>1, <1>3, <1>4
  <2>2. ev.stage = "calling" /\ ev.model = c[m + 1]
    BY <1>1, <1>2, <2>1 DEF Follows
  <2>3. f = {c[i] : i \in 1 .. m}
    BY <1>4, <2>1 DEF Named
  <2>4. \A j \in 0 .. a - 1 :
          (n + 1 = 2 * j \/ n + 1 = 2 * j + 1 \/ (n + 1 = 2 * a /\ j = a - 1)) => j = m
    BY <1>1, <1>3, <1>4
  <2>5. Named(c, a, n + 1, ev.model, f)
    BY <2>2, <2>3, <2>4 DEF Named
  <2> QED BY <2>2, <2>5
<1>5. CASE n = 2 * m + 1 /\ m + 2 <= a
  <2>1. /\ m + 2 \in 1 .. a /\ n + 1 = 2 * (m + 2) - 2 /\ (m + 2) - 1 = m + 1
        /\ m \in 0 .. a - 1
    BY <1>1, <1>3, <1>5
  <2>2. ev.stage = "failover" /\ ev.model = c[m + 2] /\ ev.failed = c[m + 1]
    BY <1>1, <1>2, <2>1 DEF Follows
  <2>3. f = {c[i] : i \in 1 .. m}
    BY <1>5, <2>1 DEF Named
  <2>4. f \cup {ev.failed} = {c[i] : i \in 1 .. m + 1}
    <3>1. 1 .. m + 1 = (1 .. m) \cup {m + 1}
      BY <1>3
    <3> QED BY <2>2, <2>3, <3>1
  <2>5. \A j \in 0 .. a - 1 :
          (n + 1 = 2 * j \/ n + 1 = 2 * j + 1 \/ (n + 1 = 2 * a /\ j = a - 1)) =>
            j = m + 1 /\ j + 1 = m + 2
    BY <1>1, <1>3, <1>5
  <2>6. Named(c, a, n + 1, ev.model, f \cup {ev.failed})
    BY <2>2, <2>4, <2>5 DEF Named
  <2> QED BY <2>2, <2>6
<1>6. CASE n = 2 * m + 1 /\ m + 2 > a
  <2>1. n + 1 = 2 * a /\ a - 1 \in 0 .. a - 1 /\ n = 2 * (a - 1) + 1 /\ n > 0 /\ n + 1 > 0
    BY <1>1, <1>3, <1>6
  <2>2. ev.stage \in {"complete", "error"}
    BY <1>1, <1>2, <2>1 DEF Follows
  <2>3. f = {c[i] : i \in 1 .. a - 1} /\ x = c[(a - 1) + 1]
    BY <2>1 DEF Named
  <2>4. \A j \in 0 .. a - 1 :
          (n + 1 = 2 * j \/ n + 1 = 2 * j + 1 \/ (n + 1 = 2 * a /\ j = a - 1)) => j = a - 1
    BY <1>1, <2>1
  <2>5. Named(c, a, n + 1, x, f)
    BY <2>3, <2>4 DEF Named
  <2> QED BY <2>2, <2>5
<1> QED BY <1>1, <1>3, <1>4, <1>5, <1>6

-----------------------------------------------------------------------------
\* The run.

IsRun(r) ==
  \E s, l, c, a, e, o, w, x, f, t :
    r = [step |-> s, logs |-> l, chain |-> c, at |-> a, events |-> e, over |-> o, answer |-> w,
         progress |-> [current |-> x, failed |-> f], watched |-> t]

\* The events on their way are what is left of the ones the server says, and while the
\* modal watches its progress is what the others said.
Streaming(r) ==
  \E n \in Nat :
    /\ EventsAgree(r.chain, r.at, r.events, r.over, n)
    /\ r.watched => Named(r.chain, r.at, n, r.progress.current, r.progress.failed)

RunOk(r) ==
  /\ IsRun(r)
  /\ r.step = "asked" =>
       /\ r.at = 1 /\ r.events = <<>> /\ r.over = FALSE
       /\ r.watched => r.progress.failed = {}
  /\ r.step = "streamed" => Streaming(r)

RunAgrees == run # NoRun => RunOk(run)

\* The run goes on, about the same rows, or ends.
GoesOn == run' = NoRun \/ (RunOk(run') /\ run'.logs = run.logs)

LEMMA RunBegins ==
  ASSUME handleRunAnalysis
  PROVE  RunOk(run') /\ run'.logs = selectedLogs
<1>1. PICK c, x : run' = [step |-> "asked", logs |-> selectedLogs, chain |-> c, at |-> 1,
                       events |-> <<>>, over |-> FALSE, answer |-> None,
                       progress |-> [current |-> x, failed |-> {}], watched |-> TRUE]
  BY DEF handleRunAnalysis
<1>2. IsRun(run')
  BY <1>1 DEF IsRun
<1> QED BY <1>1, <1>2 DEF RunOk

LEMMA RunUnwatched ==
  ASSUME RunAgrees, Close, run # NoRun
  PROVE  GoesOn
<1>1. PICK s, l, c, a, e, o, w, x, f, t :
        run = [step |-> s, logs |-> l, chain |-> c, at |-> a, events |-> e, over |-> o,
               answer |-> w, progress |-> [current |-> x, failed |-> f], watched |-> t]
  BY DEF RunAgrees, RunOk, IsRun
<1>2. run' = [step |-> s, logs |-> l, chain |-> c, at |-> a, events |-> e, over |-> o,
              answer |-> w, progress |-> [current |-> None, failed |-> {}], watched |-> FALSE]
  BY <1>1 DEF Close, isDiagnosing, NoProgress
<1>3. IsRun(run')
  BY <1>2 DEF IsRun
<1>4. RunOk(run') /\ run'.logs = run.logs
  BY <1>1, <1>2, <1>3 DEF RunAgrees, RunOk, Streaming
<1> QED BY <1>4 DEF GoesOn

LEMMA StreamAnsweredGoesOn ==
  ASSUME RunAgrees, NEW ok, StreamAnswered(ok)
  PROVE  GoesOn
<1>1. PICK s, l, c, a, e, o, w, x, f, t :
        run = [step |-> s, logs |-> l, chain |-> c, at |-> a, events |-> e, over |-> o,
               answer |-> w, progress |-> [current |-> x, failed |-> f], watched |-> t]
  BY DEF StreamAnswered, RunAgrees, RunOk, IsRun
<1>2. a = 1 /\ e = <<>> /\ o = FALSE /\ (t => f = {})
  BY <1>1 DEF StreamAnswered, RunAgrees, RunOk
<1>3. CASE ok
  <2>1. PICK ev, d : ev = [stage |-> "calling", model |-> c[1], failed |-> None] /\ d = <<ev>>
    OBVIOUS
  <2>2. run' = [step |-> "streamed", logs |-> l, chain |-> c, at |-> 1, events |-> d, over |-> FALSE,
                answer |-> w, progress |-> [current |-> x, failed |-> f], watched |-> t]
    <3>1. Event("calling") = ev
      BY <1>1, <1>2, <2>1 DEF Event
    <3>2. PICK b : b = e \o <<ev>>
      OBVIOUS
    <3>3. b = d
      BY <1>2, <2>1, <3>2
    <3>4. run' = Says([run EXCEPT !.step = "streamed"], <<ev>>)
      BY <1>3, <3>1 DEF StreamAnswered
    <3>5. run' = [step |-> "streamed", logs |-> l, chain |-> c, at |-> a, events |-> b, over |-> o,
                  answer |-> w, progress |-> [current |-> x, failed |-> f], watched |-> t]
      BY <1>1, <3>2, <3>4 DEF Says
    <3> QED BY <1>2, <3>3, <3>5
  <2>3. EventsAgree(c, 1, d, FALSE, 0)
    BY <2>1, FirstEvent
  <2>4. t => Named(c, 1, 0, x, f)
    <3>1. f = {} => f = {c[i] : i \in 1 .. 0}
      OBVIOUS
    <3> QED BY <1>2, <3>1 DEF Named
  <2>5. IsRun(run')
    BY <2>2 DEF IsRun
  <2>6. Streaming(run')
    BY <2>2, <2>3, <2>4 DEF Streaming
  <2> QED BY <1>1, <2>2, <2>5, <2>6 DEF GoesOn, RunOk
<1>4. CASE ~ ok
  <2>1. run' = [step |-> "direct", logs |-> l, chain |-> c, at |-> a, events |-> e, over |-> o,
                answer |-> w, progress |-> [current |-> x, failed |-> f], watched |-> t]
    BY <1>1, <1>4 DEF StreamAnswered
  <2>2. IsRun(run')
    BY <2>1 DEF IsRun
  <2> QED BY <1>1, <2>1, <2>2 DEF GoesOn, RunOk
<1> QED BY <1>3, <1>4 DEF StreamAnswered

LEMMA ModelAnswersGoesOn ==
  ASSUME RunAgrees, NEW out, ModelAnswers(out)
  PROVE  GoesOn
<1>1. PICK s, l, c, a, e, o, w, x, f, t :
        run = [step |-> s, logs |-> l, chain |-> c, at |-> a, events |-> e, over |-> o,
               answer |-> w, progress |-> [current |-> x, failed |-> f], watched |-> t]
  BY DEF ModelAnswers, RunAgrees, RunOk, IsRun
<1>2. Streaming(run) /\ s = "streamed" /\ ~ o
  BY <1>1 DEF ModelAnswers, RunAgrees, RunOk
<1>3. PICK n \in Nat : /\ EventsAgree(c, a, e, o, n)
                       /\ t => Named(c, a, n, x, f)
  BY <1>1, <1>2 DEF Streaming
<1>4. o = FALSE /\ a \in Nat
  BY <1>2, <1>3 DEF EventsAgree
<1>5. ASSUME NEW st \in {"complete", "error"},
             run' = Says([run EXCEPT !.over = TRUE], <<Event(st)>>)
      PROVE  GoesOn
  <2>1. PICK g, d : g = [stage |-> st, model |-> c[a], failed |-> None] /\ d = e \o <<g>>
    OBVIOUS
  <2>2. run' = [step |-> s, logs |-> l, chain |-> c, at |-> a, events |-> d, over |-> TRUE,
                answer |-> w, progress |-> [current |-> x, failed |-> f], watched |-> t]
    BY <1>1, <1>5, <2>1 DEF Says, Event
  <2>3. EventsAgree(c, a, d, TRUE, n)
    BY <1>3, <1>4, <2>1, LastEvent
  <2>4. IsRun(run')
    BY <2>2 DEF IsRun
  <2>5. Streaming(run')
    BY <1>3, <2>2, <2>3 DEF Streaming
  <2> QED BY <1>1, <1>2, <2>2, <2>4, <2>5 DEF GoesOn, RunOk
<1>6. CASE out = "overloaded"
  <2>1. PICK g, h, d : /\ g = [stage |-> "failover", model |-> c[a + 1], failed |-> c[a]]
                       /\ h = [stage |-> "calling", model |-> c[a + 1], failed |-> None]
                       /\ d = e \o <<g, h>>
    OBVIOUS
  <2>2. run' = [step |-> s, logs |-> l, chain |-> c, at |-> a + 1, events |-> d, over |-> o,
                answer |-> w, progress |-> [current |-> x, failed |-> f], watched |-> t]
    <3>1. Event("calling") = [stage |-> "calling", model |-> c[a], failed |-> None]
      BY <1>1 DEF Event
    <3>2. [Event("calling") EXCEPT !.model = c[a + 1]] = h
      BY <2>1, <3>1
    <3>3. [h EXCEPT !.stage = "failover", !.failed = c[a]] = g
      <4>1. PICK k : k = [h EXCEPT !.stage = "failover", !.failed = c[a]]
        OBVIOUS
      <4>2. k = [stage |-> "failover", model |-> c[a + 1], failed |-> c[a]]
        BY <2>1, <4>1, FailoverEvent
      <4> QED BY <2>1, <4>1, <4>2
    <3>4. run' = Says([run EXCEPT !.at = @ + 1], <<g, h>>)
      BY <1>1, <1>6, <3>2, <3>3 DEF ModelAnswers
    <3> QED BY <1>1, <2>1, <3>4 DEF Says
  <2>3. EventsAgree(c, a + 1, d, o, n)
    BY <1>3, <1>4, <2>1, NextModel
  <2>4. t => Named(c, a + 1, n, x, f)
    <3>1. n + Len(e) = 2 * a - 1 /\ Len(e) \in Nat
      BY <1>3, <1>4, LenProperties DEF EventsAgree
    <3>2. n <= 2 * a - 1
      BY <1>4, <3>1
    <3>3. \A j \in 0 .. a :
            (n = 2 * j \/ n = 2 * j + 1 \/ (n = 2 * (a + 1) /\ j = (a + 1) - 1)) =>
              j \in 0 .. a - 1 /\ (n = 2 * j \/ n = 2 * j + 1)
      BY <1>4, <3>2
    <3>4. (a + 1) - 1 = a
      BY <1>4
    <3> QED BY <1>3, <3>3, <3>4 DEF Named
  <2>5. IsRun(run')
    BY <2>2 DEF IsRun
  <2>6. Streaming(run')
    BY <1>3, <2>2, <2>3, <2>4 DEF Streaming
  <2> QED BY <1>1, <1>2, <2>2, <2>5, <2>6 DEF GoesOn, RunOk
<1> QED BY <1>5, <1>6 DEF ModelAnswers

LEMMA EventArrivesGoesOn ==
  ASSUME RunAgrees, EventArrives
  PROVE  GoesOn
<1>1. PICK s, l, c, a, e, o, w, x, f, t :
        run = [step |-> s, logs |-> l, chain |-> c, at |-> a, events |-> e, over |-> o,
               answer |-> w, progress |-> [current |-> x, failed |-> f], watched |-> t]
  BY DEF EventArrives, RunAgrees, RunOk, IsRun
<1>2. Streaming(run) /\ s = "streamed" /\ e # <<>>
  BY <1>1 DEF EventArrives, RunAgrees, RunOk
<1>3. PICK n \in Nat : /\ EventsAgree(c, a, e, o, n)
                       /\ t => Named(c, a, n, x, f)
  BY <1>1, <1>2 DEF Streaming
<1>4. EventsAgree(c, a, Tail(e), o, n + 1) /\ n + 1 \in Nat
  BY <1>2, <1>3, EventTaken
<1>5. PICK ev, d : ev = e[1] /\ d = Tail(e)
  OBVIOUS
<1>6. Head(e) = ev /\ ev.stage \in {"calling", "failover", "complete", "error"}
  <2>1. Head(e) = e[1] /\ e[1] \in EventsOf(c)
    BY <1>2, <1>3, EventTaken, HeadTailProperties DEF EventsAgree
  <2> QED BY <1>5, <2>1 DEF EventsOf
<1>7. CASE ev.stage = "complete"
  <2>1. run' = [step |-> s, logs |-> l, chain |-> c, at |-> a, events |-> d, over |-> o,
                answer |-> "result", progress |-> [current |-> x, failed |-> f], watched |-> t]
    BY <1>1, <1>5, <1>6, <1>7 DEF EventArrives
  <2>2. t => Named(c, a, n + 1, x, f)
    BY <1>2, <1>3, <1>5, <1>7, EventNamed
  <2>3. IsRun(run')
    BY <2>1 DEF IsRun
  <2>4. Streaming(run')
    BY <1>4, <1>5, <2>1, <2>2 DEF Streaming
  <2> QED BY <1>1, <1>2, <2>1, <2>3, <2>4 DEF GoesOn, RunOk
<1>8. CASE ev.stage = "error"
  <2>1. run' = [step |-> "direct", logs |-> l, chain |-> c, at |-> a, events |-> d, over |-> o,
                answer |-> "error", progress |-> [current |-> x, failed |-> f], watched |-> t]
    BY <1>1, <1>5, <1>6, <1>8 DEF EventArrives
  <2>2. IsRun(run')
    BY <2>1 DEF IsRun
  <2> QED BY <1>1, <2>1, <2>2 DEF GoesOn, RunOk
<1>9. CASE ev.stage \in {"calling", "failover"}
  <2>1. PICK y, h : y = ev.model /\ h = IF ev.stage = "failover" THEN f \cup {ev.failed} ELSE f
    OBVIOUS
  <2>2. run' = [step |-> s, logs |-> l, chain |-> c, at |-> a, events |-> d, over |-> o,
                answer |-> w, progress |-> [current |-> y, failed |-> h], watched |-> t]
    BY <1>1, <1>5, <1>6, <1>9, <2>1 DEF EventArrives, ProgressAfter
  <2>3. t => Named(c, a, n + 1, y, h)
    BY <1>2, <1>3, <1>5, <1>9, <2>1, EventNamed
  <2>4. IsRun(run')
    BY <2>2 DEF IsRun
  <2>5. Streaming(run')
    BY <1>4, <1>5, <2>2, <2>3 DEF Streaming
  <2> QED BY <1>1, <1>2, <2>2, <2>4, <2>5 DEF GoesOn, RunOk
<1> QED BY <1>6, <1>7, <1>8, <1>9

LEMMA RunStepGoesOn ==
  ASSUME RunAgrees, RunStep
  PROVE  GoesOn /\ run # NoRun
<1>1. ASSUME NEW ok, StreamAnswered(ok) PROVE GoesOn /\ run # NoRun
  BY <1>1, StreamAnsweredGoesOn DEF StreamAnswered
<1>2. ASSUME NEW ok, DirectAnswered(ok) PROVE GoesOn /\ run # NoRun
  BY <1>2 DEF DirectAnswered, Finish, GoesOn
<1>3. ASSUME NEW out, ModelAnswers(out) PROVE GoesOn /\ run # NoRun
  BY <1>3, ModelAnswersGoesOn DEF ModelAnswers
<1>4. CASE EventArrives
  BY <1>4, EventArrivesGoesOn DEF EventArrives
<1>5. CASE StreamEnds
  BY <1>5 DEF StreamEnds, Finish, GoesOn
<1>6. CASE StreamBreaks
  <2>1. run # NoRun
    BY <1>6 DEF StreamBreaks
  <2>2. PICK s, l, c, a, e, o, w, x, f, t :
          run = [step |-> s, logs |-> l, chain |-> c, at |-> a, events |-> e, over |-> o,
                 answer |-> w, progress |-> [current |-> x, failed |-> f], watched |-> t]
    BY <2>1 DEF RunAgrees, RunOk, IsRun
  <2>3. run' = [step |-> "direct", logs |-> l, chain |-> c, at |-> a, events |-> <<>>, over |-> o,
                answer |-> w, progress |-> [current |-> x, failed |-> f], watched |-> t]
    BY <1>6, <2>2 DEF StreamBreaks
  <2>4. IsRun(run')
    BY <2>3 DEF IsRun
  <2> QED BY <2>1, <2>2, <2>3, <2>4 DEF GoesOn, RunOk
<1> QED BY <1>1, <1>2, <1>3, <1>4, <1>5, <1>6 DEF RunStep

LEMMA RunAgreesStep == RunAgrees /\ [Next]_vars => RunAgrees'
<1> SUFFICES ASSUME RunAgrees, [Next]_vars PROVE RunAgrees'
  OBVIOUS
<1>1. CASE run' = run
  BY <1>1 DEF RunAgrees
<1>2. CASE handleRunAnalysis
  BY <1>2, RunBegins DEF RunAgrees
<1>3. CASE Close
  BY <1>1, <1>3, RunUnwatched DEF RunAgrees, GoesOn, Close, isDiagnosing
<1>4. CASE RunStep
  BY <1>4, RunStepGoesOn DEF RunAgrees, GoesOn
<1> QED BY <1>1, <1>2, <1>3, <1>4
        DEF Next, vars, handleLaunchAiAnalysis, ExplainWithAi, handleInspectTargetAndContext, Open,
            BackToPreview, DrawerStep, ModalStep

\* While the modal stays open it names the model the server asks, and strikes out the
\* ones before it, once every event has arrived (AiAnalysisModal.tsx:358-391;
\* ai_engine.py:646-740).
THEOREM DiagnosisProgressTrue == Spec => []ProgressTrue
<1>1. Init => RunAgrees
  BY DEF Init, RunAgrees
<1>2. ASSUME RunAgrees PROVE ProgressTrue
  <2> SUFFICES ASSUME run # NoRun, run.step = "streamed", run.watched, run.events = <<>>
               PROVE  /\ run.progress.current = run.chain[run.at]
                      /\ run.progress.failed = {run.chain[i] : i \in 1 .. run.at - 1}
    BY DEF ProgressTrue
  <2>1. PICK n \in Nat :
          /\ EventsAgree(run.chain, run.at, run.events, run.over, n)
          /\ Named(run.chain, run.at, n, run.progress.current, run.progress.failed)
    BY <1>2 DEF RunAgrees, RunOk, Streaming
  <2>2. /\ run.at \in Nat /\ run.at > 0 /\ run.over \in BOOLEAN
        /\ n + Len(<<>>) = IF run.over THEN 2 * run.at ELSE 2 * run.at - 1
    BY <2>1 DEF EventsAgree
  <2>3. n = 2 * run.at \/ n = 2 * (run.at - 1) + 1
    BY <2>2
  <2>4. run.at - 1 \in 0 .. run.at - 1 /\ n > 0 /\ (run.at - 1) + 1 = run.at
    BY <2>2, <2>3
  <2> QED BY <2>1, <2>3, <2>4 DEF Named
<1> QED BY <1>1, <1>2, RunAgreesStep, PTL DEF Spec

-----------------------------------------------------------------------------
\* The rows.  While nothing is left of an earlier opening, all that is under way and all
\* that is shown is about the rows of this one.

RowsAgree ==
  calm =>
    /\ \A p \in previews : p.logs = selectedLogs
    /\ preview \in {{}, selectedLogs}
    /\ result \in {{}, selectedLogs}
    /\ run # NoRun => run.logs = selectedLogs
    /\ selectedLogs = {} => previews = {} /\ run = NoRun

LEMMA RowsAgreeStep == RunAgrees /\ RowsAgree /\ [Next]_vars => RowsAgree'
<1> SUFFICES ASSUME RunAgrees, RowsAgree, [Next]_vars, calm' PROVE RowsAgree'
  BY DEF RowsAgree
<1>1. CASE UNCHANGED <<selectedLogs, preview, previews, calm, run, result>>
  BY <1>1 DEF RowsAgree
<1>2. ASSUME NEW L, Open(L) PROVE RowsAgree'
  <2>1. /\ selectedLogs = {} /\ calm /\ selectedLogs' = L /\ L # {}
        /\ UNCHANGED <<preview, run, result>>
    BY <1>2 DEF Open, OpenModal
  <2>2. /\ preview = {} /\ result = {} /\ previews = {} /\ run = NoRun
    BY <2>1 DEF RowsAgree
  <2>3. \A p \in previews' : p.logs = L
    BY <1>2, <2>2 DEF Open, OpenModal
  <2> QED BY <2>1, <2>2, <2>3 DEF RowsAgree
<1>3. CASE Close
  BY <1>3 DEF Close, CloseModal, isDiagnosing, RowsAgree
<1>4. CASE BackToPreview
  BY <1>4 DEF BackToPreview, modalVars, RowsAgree
<1>5. CASE handleRunAnalysis
  <2>1. run'.logs = selectedLogs /\ selectedLogs # {}
    BY <1>5, RunBegins DEF handleRunAnalysis, CanRun
  <2> QED BY <1>5, <2>1 DEF handleRunAnalysis, modalVars, RowsAgree
<1>6. ASSUME NEW p, NEW ok, PreviewAnswered(p, ok), UNCHANGED <<run, result>> PROVE RowsAgree'
  <2>1. p \in previews /\ calm /\ previews' = previews \ {p} /\ preview' \in {preview, p.logs}
        /\ UNCHANGED selectedLogs
    BY <1>6 DEF PreviewAnswered
  <2> QED BY <1>6, <2>1 DEF RowsAgree
<1>7. CASE RunStep
  <2>1. GoesOn /\ run # NoRun
    BY <1>7, RunStepGoesOn
  <2>2. /\ UNCHANGED <<selectedLogs, preview, previews, calm>>
        /\ result' \in {result, run.logs}
    BY <1>7 DEF RunStep, StreamAnswered, DirectAnswered, ModelAnswers, EventArrives, StreamBreaks,
                StreamEnds, Finish, modalVars
  <2> QED BY <2>1, <2>2 DEF RowsAgree, GoesOn
<1>8. CASE ModalStep
  BY <1>1, <1>6, <1>8
     DEF ModalStep, ModelsAnswered, ShowAnalysis, ShowFull, handlePromptChange, handleResetPrompt,
         handleUserContextChange, CancelFallback, addFallback, TypePrimary, handleProviderChange,
         removeFallback, moveFallback, PickPrimary, UseDropdown, PickFallback, Chooses, Acts
<1> QED BY <1>1, <1>2, <1>3, <1>4, <1>5, <1>7, <1>8
        DEF Next, vars, modalVars, handleLaunchAiAnalysis, ExplainWithAi,
            handleInspectTargetAndContext, DrawerStep

LEMMA RowsAgreeAlways == Spec => [](RunAgrees /\ RowsAgree)
<1>1. Init => RunAgrees /\ RowsAgree
  BY DEF Init, ModalInit, RunAgrees, RowsAgree
<1> QED BY <1>1, RunAgreesStep, RowsAgreeStep, PTL DEF Spec

ModeKnown == promptViewMode \in {"analysis", "full"}

LEMMA ModeKnownAlways == Spec => []ModeKnown
<1>1. Init => ModeKnown
  BY DEF Init, ModalInit, ModeKnown
<1>2. ModeKnown /\ [Next]_vars => ModeKnown'
  <2> SUFFICES ASSUME [Next]_vars
               PROVE  promptViewMode' \in {promptViewMode, "analysis", "full"}
    BY DEF ModeKnown
  <2>1. CASE UNCHANGED promptViewMode
    BY <2>1
  <2>2. CASE ModalStep
    BY <2>2
       DEF ModalStep, PreviewAnswered, ModelsAnswered, ShowAnalysis, ShowFull, handlePromptChange,
           handleResetPrompt, handleUserContextChange, CancelFallback, addFallback, TypePrimary,
           handleProviderChange, removeFallback, moveFallback, PickPrimary, UseDropdown,
           PickFallback, Chooses, texts
  <2>3. CASE RunStep
    BY <2>3 DEF RunStep, StreamAnswered, DirectAnswered, ModelAnswers, EventArrives,
                StreamBreaks, StreamEnds, Finish, modalVars, texts
  <2> QED BY <2>1, <2>2, <2>3
          DEF Next, vars, modalVars, texts, handleLaunchAiAnalysis, ExplainWithAi, BackToPreview,
              handleInspectTargetAndContext, handleRunAnalysis, Open, OpenModal, DrawerStep,
              Close, CloseModal, ClosedTexts
<1> QED BY <1>1, <1>2, PTL DEF Spec

\* A result is shown for the logs it is about, unless an earlier opening left a run or a
\* preview under way (AiAnalysisModal.tsx:115-133, 394).
THEOREM DiagnosisResultBelongs == Spec => []ResultBelongs
<1>1. RowsAgree => ResultBelongs
  BY DEF RowsAgree, ResultBelongs, Showing
<1> QED BY <1>1, RowsAgreeAlways, PTL

\* What the server would send to the AI is what the modal shows, whichever view it is in
\* and whatever was edited (AiAnalysisModal.tsx:83-113, 265-348, 494-529;
\* ai_service.py:198-227).
THEOREM DiagnosisSentIsShown == Spec => []SentIsShown
<1>1. ASSUME RowsAgree, ModeKnown PROVE SentIsShown
  <2> SUFFICES ASSUME CanRun, calm
               PROVE  /\ ShownPrompt.user \in {Blank, SentUser(Overrides.user, selectedLogs, userContext)}
                      /\ ShownPrompt.system \in {"", SentSystem(Overrides.system)}
    BY DEF SentIsShown
  <2>1. preview = selectedLogs /\ preview # {}
    BY <1>1 DEF RowsAgree, CanRun
  <2>2. defaultPrompt = Generated(selectedLogs, userContext)
    BY <2>1 DEF defaultPrompt, buildCombinedPrompt, Generated
  <2>3. Typed # Blank
    BY DEF Typed, Blank
  <2>4. CASE promptViewMode = "analysis"
    BY <2>1, <2>2, <2>4
       DEF ShownPrompt, Overrides, hasEditedPrompt, hasEditedSystem, SentUser, SentSystem
  <2>5. CASE promptViewMode = "full" /\ ~ hasEditedFull
    <3>1. fullPromptText = [headers |-> "both", system |-> "server", user |-> defaultPrompt]
      BY <2>1, <2>5 DEF hasEditedFull, defaultFullPrompt, buildFullEnvelope
    <3>2. ShownPrompt = [user |-> defaultPrompt, system |-> "server"]
      BY <2>5, <3>1 DEF ShownPrompt
    <3>3. Overrides = NoOverride
      BY <2>5 DEF Overrides
    <3> QED BY <2>2, <3>2, <3>3 DEF NoOverride, SentUser, SentSystem
  <2>6. CASE promptViewMode = "full" /\ hasEditedFull
    <3>1. PICK parsed : parsed = parseFullEnvelope(fullPromptText, systemPrompt)
      OBVIOUS
    <3>2. Overrides = [user |-> IF parsed.user # defaultPrompt THEN parsed.user ELSE Blank,
                       system |-> IF parsed.system # "server" THEN parsed.system ELSE ""]
      BY <2>6, <3>1 DEF Overrides
    <3>3. CASE fullPromptText.headers # "none"
      <4>1. ShownPrompt = [user |-> fullPromptText.user, system |-> fullPromptText.system]
        BY <2>6, <3>3 DEF ShownPrompt
      <4>2. /\ parsed.user = fullPromptText.user
            /\ fullPromptText.system # "" => parsed.system = fullPromptText.system
        BY <3>1, <3>3 DEF parseFullEnvelope
      <4> QED BY <2>2, <3>2, <4>1, <4>2 DEF SentUser, SentSystem
    <3>4. CASE fullPromptText.headers = "none"
      <4>1. /\ ShownPrompt.user = IF fullPromptText = BlankEnvelope THEN Blank ELSE Typed
            /\ ShownPrompt.system = systemPrompt
        <5>1. BlankEnvelope.user = Blank
          BY DEF BlankEnvelope
        <5> QED BY <2>6, <3>4, <5>1 DEF ShownPrompt
      <4>2. /\ parsed.user = IF fullPromptText = BlankEnvelope THEN Blank ELSE Typed
            /\ parsed.system = systemPrompt
        BY <3>1, <3>4 DEF parseFullEnvelope
      <4> QED BY <2>2, <2>3, <3>2, <4>1, <4>2 DEF SentUser, SentSystem
    <3> QED BY <3>3, <3>4
  <2> QED BY <1>1, <2>4, <2>5, <2>6 DEF ModeKnown
<1> QED BY <1>1, RowsAgreeAlways, ModeKnownAlways, PTL

-----------------------------------------------------------------------------
\* The models offered.

IsLoad(l) == l = [id |-> l.id, provider |-> l.provider, alone |-> l.alone]
IsChoice(c) == c = [provider |-> c.provider, model |-> c.model, fallbacks |-> c.fallbacks]

\* A read of the models with no other under way is of the provider chosen.
LoadsAgree(loads, p) ==
  \A l \in loads : IsLoad(l) /\ (l.alone => loads = {l} /\ l.provider = p)

OffersAgree ==
  /\ IsChoice(choice) /\ LoadsAgree(modelLoads, choice.provider)
  /\ OffersMatch

LEMMA LoadOvertaken ==
  ASSUME NEW l, IsLoad(l), NEW x, x = [l EXCEPT !.alone = FALSE]
  PROVE  IsLoad(x) /\ ~ x.alone
<1>1. PICK i, p, t : l = [id |-> i, provider |-> p, alone |-> t]
  BY DEF IsLoad
<1> QED BY <1>1 DEF IsLoad

LEMMA LoadsBegin ==
  ASSUME NEW q, LoadsAgree(modelLoads, q), NEW p, loadModels(p)
  PROVE  LoadsAgree(modelLoads', p) /\ modelLoads' # {}
<1>1. PICK new : new = [id |-> FreeId(modelLoads), provider |-> p, alone |-> modelLoads = {}]
  OBVIOUS
<1>2. modelLoads' = {[l EXCEPT !.alone = FALSE] : l \in modelLoads} \cup {new}
  BY <1>1 DEF loadModels
<1>3. \A x \in modelLoads' : x = new \/ (IsLoad(x) /\ ~ x.alone)
  BY <1>2, LoadOvertaken DEF LoadsAgree
<1>4. IsLoad(new) /\ new.provider = p /\ (new.alone <=> modelLoads = {})
  BY <1>1 DEF IsLoad
<1>5. modelLoads = {} => modelLoads' = {new}
  BY <1>2
<1> QED BY <1>2, <1>3, <1>4, <1>5 DEF LoadsAgree

LEMMA ChoiceKeepsProvider ==
  ASSUME IsChoice(choice), NEW x
  PROVE  /\ \A f : x = [choice EXCEPT !.fallbacks = f] =>
                  IsChoice(x) /\ x.provider = choice.provider
         /\ \A m, f : x = [choice EXCEPT !.model = m, !.fallbacks = f] =>
                     IsChoice(x) /\ x.provider = choice.provider
         /\ \A p : x = [choice EXCEPT !.provider = p] => IsChoice(x) /\ x.provider = p
<1>1. PICK q, n, g : choice = [provider |-> q, model |-> n, fallbacks |-> g]
  BY DEF IsChoice
<1> QED BY <1>1 DEF IsChoice

LEMMA OffersAgreeStep == OffersAgree /\ [Next]_vars => OffersAgree'
<1> SUFFICES ASSUME OffersAgree, [Next]_vars PROVE OffersAgree'
  OBVIOUS
<1> USE DEF OffersAgree
<1>1. CASE UNCHANGED <<choice, offers>>
  BY <1>1 DEF offers, OffersMatch
<1>2. ASSUME UNCHANGED offers, IsChoice(choice'), choice'.provider = choice.provider
      PROVE  OffersAgree'
  BY <1>2 DEF offers, OffersMatch
<1>3. ASSUME NEW p, loadModels(p), IsChoice(choice'), choice'.provider = p PROVE OffersAgree'
  <2>1. LoadsAgree(modelLoads', p) /\ modelLoads' # {}
    BY <1>3, LoadsBegin
  <2> QED BY <1>3, <2>1 DEF OffersMatch
<1>4. CASE Close
  BY <1>2, <1>4, ChoiceKeepsProvider DEF Close, CloseModal
<1>5. ASSUME NEW p, NEW ok, PreviewAnswered(p, ok) PROVE OffersAgree'
  <2>1. CASE ok
    <3>1. Configured \in [provider : Providers, model : Models, fallbacks : Seq(Models)]
      BY ModalAssumption DEF ModelChoices
    <3>2. IsChoice(Configured)
      BY <3>1 DEF IsChoice
    <3>3. choice' = Configured /\ loadModels(Configured.provider)
      BY <1>5, <2>1 DEF PreviewAnswered
    <3> QED BY <1>3, <3>2, <3>3
  <2>2. CASE ~ ok
    BY <1>1, <1>5, <2>2 DEF PreviewAnswered
  <2> QED BY <2>1, <2>2
<1>6. ASSUME NEW l, NEW ok, ModelsAnswered(l, ok) PROVE OffersAgree'
  <2>1. /\ l \in modelLoads /\ modelLoads' = modelLoads \ {l} /\ offersAlone' = l.alone
        /\ availableModels' \in {{}, Offered[l.provider]} /\ UNCHANGED choice
    BY <1>6 DEF ModelsAnswered
  <2>2. LoadsAgree(modelLoads', choice')
    BY <2>1 DEF LoadsAgree
  <2> QED BY <2>1, <2>2 DEF LoadsAgree, OffersMatch
<1>7. ASSUME NEW p, NEW showing, handleProviderChange(p, showing) PROVE OffersAgree'
  BY <1>3, <1>7, ChoiceKeepsProvider DEF handleProviderChange
<1>8. ASSUME NEW name, handlePrimaryModelChange(name), UNCHANGED offers PROVE OffersAgree'
  BY <1>2, <1>8, ChoiceKeepsProvider DEF handlePrimaryModelChange
<1>9. ASSUME NEW showing, addFallback(showing) PROVE OffersAgree'
  BY <1>1, <1>2, <1>9, ChoiceKeepsProvider DEF addFallback
<1>10. ASSUME NEW i, NEW showing, removeFallback(i, showing) PROVE OffersAgree'
  BY <1>2, <1>10, ChoiceKeepsProvider DEF removeFallback
<1>11. ASSUME NEW i, NEW d, NEW showing, moveFallback(i, d, showing) PROVE OffersAgree'
  BY <1>2, <1>11, ChoiceKeepsProvider DEF moveFallback
<1>12. ASSUME NEW name, NEW showing, PickPrimary(name, showing) PROVE OffersAgree'
  BY <1>8, <1>12 DEF PickPrimary
<1>13. ASSUME NEW name, NEW showing, UseDropdown(name, showing) PROVE OffersAgree'
  BY <1>1, <1>8, <1>13 DEF UseDropdown
<1>14. CASE ModalStep
  BY <1>1, <1>5, <1>6, <1>7, <1>9, <1>10, <1>11, <1>12, <1>13, <1>14
     DEF ModalStep, ShowAnalysis, ShowFull, handlePromptChange, handleResetPrompt, models,
         handleUserContextChange, CancelFallback, TypePrimary, PickFallback
<1>15. CASE RunStep
  BY <1>1, <1>15 DEF RunStep, StreamAnswered, DirectAnswered, ModelAnswers, EventArrives,
                     StreamBreaks, StreamEnds, Finish, modalVars, models
<1> QED BY <1>1, <1>4, <1>14, <1>15
        DEF Next, vars, modalVars, models, handleLaunchAiAnalysis, ExplainWithAi, BackToPreview,
            handleInspectTargetAndContext, handleRunAnalysis, Open, OpenModal, DrawerStep

\* When no list is awaited, the models offered are the provider's, or none, unless reads
\* overlapped (AiAnalysisModal.tsx:190, 208-230).
THEOREM DiagnosisOffersMatch == Spec => []OffersMatch
<1>1. Init => OffersAgree
  <2> SUFFICES ASSUME Init PROVE OffersAgree
    OBVIOUS
  <2>1. Configured \in [provider : Providers, model : Models, fallbacks : Seq(Models)]
    BY ModalAssumption DEF ModelChoices
  <2>2. choice = [provider |-> Configured.provider, model |-> Configured.model, fallbacks |-> <<>>]
    BY <2>1 DEF Init, ModalInit
  <2>3. IsChoice(choice)
    BY <2>2 DEF IsChoice
  <2> QED BY <2>3 DEF Init, ModalInit, OffersAgree, LoadsAgree, OffersMatch
<1>2. OffersAgree => OffersMatch
  BY DEF OffersAgree
<1> QED BY <1>1, <1>2, OffersAgreeStep, PTL DEF Spec

-----------------------------------------------------------------------------
\* The drawer.

IsRead(r) == r = [id |-> r.id, row |-> r.row, same |-> r.same, alone |-> r.alone]

LEMMA ReadOvertaken ==
  ASSUME NEW r, IsRead(r), NEW x, x = [r EXCEPT !.alone = FALSE]
  PROVE  IsRead(x) /\ ~ x.alone
<1>1. PICK i, w, s, t : r = [id |-> i, row |-> w, same |-> s, alone |-> t]
  BY DEF IsRead
<1> QED BY <1>1 DEF IsRead

\* A read with no other under way is of the row on the screen, if its context is shown.
ReadsAgree(calls, row, show, same) ==
  \A r \in calls :
    /\ IsRead(r)
    /\ r.alone => calls = {r} /\ (row # NoRow /\ show => r.row = row /\ r.same = same)

DrawerAgrees ==
  /\ detail \in Rows \cup {NoRow}
  /\ ReadsAgree(contextReads, detail, showContext, sameAppOnly)
  /\ around /\ ~ isLoadingContext /\ detail # NoRow /\ showContext =>
       contextLogs = get_log_context(detail, sameAppOnly)

LEMMA ReadsBegin ==
  ASSUME DrawerAgrees, NEW row, NEW show, NEW same, loadContext(row, show, same),
         row # NoRow, show
  PROVE  ReadsAgree(contextReads', row, show, same) /\ isLoadingContext' = TRUE
<1>1. PICK new : new = [id |-> reads', row |-> row, same |-> same, alone |-> contextReads = {}]
  OBVIOUS
<1>2. contextReads' = {[r EXCEPT !.alone = FALSE] : r \in contextReads} \cup {new}
  BY <1>1 DEF loadContext
<1>3. \A x \in contextReads' : x = new \/ (IsRead(x) /\ ~ x.alone)
  BY <1>2, ReadOvertaken DEF DrawerAgrees, ReadsAgree
<1>4. IsRead(new) /\ new.row = row /\ new.same = same /\ (new.alone <=> contextReads = {})
  BY <1>1 DEF IsRead
<1>5. contextReads = {} => contextReads' = {new}
  BY <1>2
<1>6. ReadsAgree(contextReads', row, show, same)
  BY <1>2, <1>3, <1>4, <1>5 DEF ReadsAgree
<1> QED BY <1>6 DEF loadContext

\* The effect after a change of the row, or of what is shown of its context.
LEMMA EffectAgrees ==
  ASSUME DrawerAgrees, loadContext(detail', showContext', sameAppOnly'),
         detail' \in Rows \cup {NoRow}
  PROVE  DrawerAgrees'
<1>1. CASE detail' # NoRow /\ showContext'
  BY <1>1, ReadsBegin DEF DrawerAgrees
<1>2. CASE ~ (detail' # NoRow /\ showContext')
  BY <1>2 DEF loadContext, DrawerAgrees, ReadsAgree
<1> QED BY <1>1, <1>2

LEMMA DrawerAgreesStep == DrawerAgrees /\ [Next]_vars => DrawerAgrees'
<1> SUFFICES ASSUME DrawerAgrees, [Next]_vars PROVE DrawerAgrees'
  OBVIOUS
<1>1. CASE UNCHANGED drawerVars
  BY <1>1 DEF drawerVars, DrawerAgrees, ReadsAgree, get_log_context
<1>2. CASE CloseDetail
  BY <1>2 DEF CloseDetail, DrawerAgrees, ReadsAgree
<1>3. ASSUME NEW row \in Rows, OpenDetail(row) PROVE DrawerAgrees'
  BY <1>3, EffectAgrees DEF OpenDetail
<1>4. CASE ToggleContext
  BY <1>4, EffectAgrees DEF ToggleContext, DrawerAgrees
<1>5. CASE ToggleSameApp
  BY <1>5, EffectAgrees DEF ToggleSameApp, DrawerAgrees
<1>6. ASSUME NEW r, NEW ok, ContextRead(r, ok) PROVE DrawerAgrees'
  <2>1. /\ r \in contextReads /\ contextReads' = contextReads \ {r}
        /\ around' = (ok /\ r.alone)
        /\ ok => contextLogs' = get_log_context(r.row, r.same)
        /\ UNCHANGED <<detail, showContext, sameAppOnly>>
    BY <1>6 DEF ContextRead
  <2>2. ReadsAgree(contextReads', detail, showContext, sameAppOnly)
    BY <2>1 DEF DrawerAgrees, ReadsAgree
  <2>3. around' /\ detail # NoRow /\ showContext =>
          contextLogs' = get_log_context(detail, sameAppOnly)
    BY <2>1 DEF DrawerAgrees, ReadsAgree
  <2> QED BY <2>1, <2>2, <2>3 DEF DrawerAgrees, get_log_context
<1>7. CASE DrawerStep
  BY <1>2, <1>3, <1>4, <1>5, <1>6, <1>7 DEF DrawerStep
<1>8. CASE RunStep
  BY <1>1, <1>8 DEF RunStep, StreamAnswered, DirectAnswered, ModelAnswers, EventArrives,
                    StreamBreaks, StreamEnds, Finish
<1> QED BY <1>1, <1>2, <1>7, <1>8
        DEF Next, vars, handleLaunchAiAnalysis, ExplainWithAi, handleInspectTargetAndContext,
            Close, BackToPreview, handleRunAnalysis, ModalStep

\* The rows handed over with a row are the ones around it, of its host, unless reads
\* overlapped or one failed (LogDetailModal.tsx:39-71, 229).
THEOREM DiagnosisHandsItsContext == Spec => []HandsItsContext
<1>1. Init => DrawerAgrees
  BY DEF Init, DrawerInit, DrawerAgrees, ReadsAgree
<1>2. DrawerAgrees => HandsItsContext
  BY DEF DrawerAgrees, HandsItsContext, Inspectable, targetAndContextLogs, get_log_context
<1> QED BY <1>1, <1>2, DrawerAgreesStep, PTL DEF Spec

=============================================================================
