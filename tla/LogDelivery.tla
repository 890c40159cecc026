----------------------------- MODULE LogDelivery ------------------------------
(***************************************************************************)
(* What the ingestion queue and its consumer promise (docs/SPEC.md 3,      *)
(* QueueConsumer's docstrings): an accepted log entry waits its turn and   *)
(* is written to the logs table exactly once and in order; entries are     *)
(* given up only while the service shuts down.                             *)
(***************************************************************************)
EXTENDS Naturals, Sequences

CONSTANT Entries  \* the entries that may be accepted, numbered as they come

VARIABLES
  waiting,    \* accepted entries not yet written, oldest first
  stored,     \* rows of the logs table, in insertion order
  discarded,  \* entries given up at shutdown
  closing     \* the service is shutting down

deliveryVars == <<waiting, stored, discarded, closing>>

Known == {waiting[i] : i \in DOMAIN waiting}
           \cup {stored[i] : i \in DOMAIN stored} \cup discarded

DeliveryInit ==
  /\ waiting = <<>> /\ stored = <<>>
  /\ discarded = {} /\ closing = FALSE

Accept(e) ==
  /\ e \notin Known
  /\ waiting' = Append(waiting, e)
  /\ UNCHANGED <<stored, discarded, closing>>

\* A transaction writes the n entries that wait longest.
Store(n) ==
  /\ stored' = stored \o SubSeq(waiting, 1, n)
  /\ waiting' = SubSeq(waiting, n + 1, Len(waiting))
  /\ UNCHANGED <<discarded, closing>>

Discard(n) ==
  /\ closing
  /\ discarded' = discarded \cup {waiting[i] : i \in 1 .. n}
  /\ waiting' = SubSeq(waiting, n + 1, Len(waiting))
  /\ UNCHANGED <<stored, closing>>

Close ==
  /\ closing' = TRUE
  /\ UNCHANGED <<waiting, stored, discarded>>

DeliveryNext ==
  \/ \E e \in Entries : Accept(e)
  \/ \E n \in 1 .. Len(waiting) : Store(n) \/ Discard(n)
  \/ Close

DeliverySpec == DeliveryInit /\ [][DeliveryNext]_deliveryVars

=============================================================================
