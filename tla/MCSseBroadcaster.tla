--------------------------- MODULE MCSseBroadcaster ----------------------------
(* Small instances of SseBroadcaster for TLC. *)
EXTENDS SseBroadcaster

CONSTANTS s1, s2, kernel, nginx

\* s1 filters and never ends; s2 takes everything and ends after two events.
MCWanted == [s \in Subscribers |-> IF s = s1 THEN {kernel} ELSE Kinds]
MCMaxEvents == [s \in Subscribers |-> IF s = s2 THEN 2 ELSE Unlimited]

=============================================================================
