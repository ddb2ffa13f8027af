---------------------------- MODULE FencedResults ----------------------------
(***************************************************************************)
(* What the claims of code_change/store.py promise, and nothing of how:    *)
(* claims are granted with ever newer ids, and a task takes a result only  *)
(* from its newest claim, and from no claim twice.  A task that was never  *)
(* claimed has claim 0, the one run_task_now works under.                  *)
(***************************************************************************)
EXTENDS Naturals, Sequences

CONSTANT Tasks

VARIABLES granted,  \* the newest claim of each task
          results   \* the claims whose results it took, in order

fencedVars == <<granted, results>>

FencedInit ==
  /\ granted = [t \in Tasks |-> 0]
  /\ results = [t \in Tasks |-> <<>>]

\* Claim ids are unique across tasks.
Grant(t) ==
  /\ \A u \in Tasks : granted'[t] > granted[u]
  /\ granted' = [granted EXCEPT ![t] = granted'[t]]
  /\ UNCHANGED results

Taken(t, id) == \E i \in 1..Len(results[t]) : results[t][i] = id

Accept(t) ==
  /\ ~Taken(t, granted[t])
  /\ results' = [results EXCEPT ![t] = Append(@, granted[t])]
  /\ UNCHANGED granted

FencedNext == \E t \in Tasks : Grant(t) \/ Accept(t)

FencedSpec == FencedInit /\ [][FencedNext]_fencedVars
=============================================================================
