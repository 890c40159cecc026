------------------------------- MODULE LiveFeed --------------------------------
(***************************************************************************)
(* What the live stream promises to every subscriber: committed entries,   *)
(* numbered in commit order, of the kinds it asked for, each at most once  *)
(* and in that order.  A slow subscriber may miss entries.                 *)
(***************************************************************************)
EXTENDS Naturals, Sequences, SequencesExt

CONSTANTS Subscribers, Kinds, Wanted

VARIABLES
  published,  \* the kinds of the committed entries, in commit order
  received    \* received[s]: the numbers of the entries subscriber s received

feedVars == <<published, received>>

FeedInit ==
  /\ published = <<>>
  /\ received = [s \in Subscribers |-> <<>>]

Publish ==
  /\ published' \in Seq(Kinds)
  /\ IsStrictPrefix(published, published')
  /\ UNCHANGED received

Newest(s) == IF received[s] = <<>> THEN 0 ELSE received[s][Len(received[s])]

Receive(s, n) ==
  /\ n > Newest(s)
  /\ published[n] \in Wanted[s]
  /\ received' = [received EXCEPT ![s] = Append(@, n)]
  /\ UNCHANGED published

FeedNext ==
  \/ Publish
  \/ \E s \in Subscribers, n \in DOMAIN published : Receive(s, n)

FeedSpec == FeedInit /\ [][FeedNext]_feedVars

=============================================================================
