---------------------------- MODULE ThreadContents ----------------------------
(***************************************************************************)
(* What the runs of a thread may do to its contents, as if each of them    *)
(* read and wrote the checkpoint in one step: a run adds its own writes,   *)
(* and one that has stopped may take them back.  A rollback that has no    *)
(* snapshot deletes the thread, and a run that was at work may yet bring   *)
(* back what that deleted.  Nothing else comes in or gets lost.            *)
(***************************************************************************)
CONSTANT Runs

VARIABLES content, \* the runs whose writes the thread contains
          deleted, \* the deleted ones that a run at work may bring back
          stopped  \* the runs that write nothing of their own any more

contentsVars == <<content, deleted, stopped>>

ContentsInit == content = {} /\ deleted = {} /\ stopped = {}

Write(r) ==
  /\ \E new \in SUBSET (deleted \cup ({r} \ stopped)) : content' = content \cup new
  /\ deleted' \subseteq deleted
  /\ UNCHANGED stopped

TakeBack(r) ==
  /\ r \in stopped
  /\ \E new \in SUBSET deleted : content' = (content \cup new) \ {r}
  /\ deleted' \subseteq deleted \ {r}
  /\ UNCHANGED stopped

Delete ==
  /\ content' = {}
  /\ deleted' \subseteq deleted \cup content
  /\ UNCHANGED stopped

\* Runs stop, and with them what they could bring back.
Stop ==
  /\ stopped \subseteq stopped' /\ stopped' \subseteq Runs
  /\ deleted' \subseteq deleted
  /\ UNCHANGED content

ContentsNext == (\E r \in Runs : Write(r) \/ TakeBack(r)) \/ Delete \/ Stop

ContentsSpec == ContentsInit /\ [][ContentsNext]_contentsVars
=============================================================================
