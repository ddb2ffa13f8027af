----------------------------- MODULE OrderedFeed -----------------------------
(***************************************************************************)
(* What a run's event stream promises its readers, and nothing of how: the *)
(* events of the run are numbered in the order in which they were          *)
(* published, only a window of the newest is kept, and a reader that may   *)
(* come and go receives them one at a time, never one it has and never one *)
(* older than one it has, past none that was still kept.  It is told that  *)
(* the run is over once the run is, and once it has all that was kept.     *)
(***************************************************************************)
EXTENDS Naturals, Sequences

CONSTANT Readers

VARIABLES published, \* how many events were published
          dropped,   \* how many of them are no longer kept
          over,      \* the run is over
          got,       \* the events each reader has received since it began, in order
          told       \* the readers that know the run is over, each for itself

feedVars == <<published, dropped, over, got, told>>

FeedInit ==
  /\ published = 0 /\ dropped = 0
  /\ over = FALSE
  /\ got = [r \in Readers |-> <<>>]
  /\ told = [r \in Readers |-> FALSE]

\* The events a reader lacks below n are dropped.
HasBelow(r, n) ==
  \A m \in 0 .. n - 1 : m < dropped \/ \E i \in 1 .. Len(got[r]) : got[r][i] = m

\* An event, for which older ones may be dropped.
PublishNext ==
  /\ ~over
  /\ published' = published + 1
  /\ dropped' \in dropped .. published'
  /\ UNCHANGED <<over, got, told>>

Close ==
  /\ ~over
  /\ over' = TRUE
  /\ UNCHANGED <<published, dropped, got, told>>

Receive(r) ==
  /\ ~told[r]
  /\ \E n \in 0 .. published - 1 :
       /\ \A i \in 1 .. Len(got[r]) : got[r][i] < n
       /\ HasBelow(r, n)
       /\ got' = [got EXCEPT ![r] = Append(@, n)]
  /\ UNCHANGED <<published, dropped, over, told>>

Tell(r) ==
  /\ over /\ ~told[r]
  /\ HasBelow(r, published)
  /\ told' = [told EXCEPT ![r] = TRUE]
  /\ UNCHANGED <<published, dropped, over, got>>

\* A reader that does not say what it has received begins anew.
Restart(r) ==
  /\ got' = [got EXCEPT ![r] = <<>>]
  /\ told' = [told EXCEPT ![r] = FALSE]
  /\ UNCHANGED <<published, dropped, over>>

FeedNext ==
  \/ PublishNext \/ Close
  \/ \E r \in Readers : Receive(r) \/ Tell(r) \/ Restart(r)

FeedSpec == FeedInit /\ [][FeedNext]_feedVars
=============================================================================
