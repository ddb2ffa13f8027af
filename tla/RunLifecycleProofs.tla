------------------------- MODULE RunLifecycleProofs -------------------------
(***************************************************************************)
(* Proofs about RunLifecycle, for any number of runs and faults.           *)
(***************************************************************************)
EXTENDS RunLifecycle, TLAPS

-----------------------------------------------------------------------------
(* Types *)

LEMMA InitType == Init => TypeOK
  BY DEF Init, TypeOK, Active, Terminal, Strategies, PCs

LEMMA StepType == TypeOK /\ [Next]_vars => TypeOK'
<1> SUFFICES ASSUME TypeOK, [Next]_vars
             PROVE  TypeOK'
  OBVIOUS
<1> USE DEF TypeOK, Active, Terminal, Strategies, TaskPCs, PCs, Trying
<1>1. ASSUME NEW r \in Runs, NEW s \in Strategies, Request(r, s)
      PROVE  TypeOK'
  BY <1>1 DEF Request, Early, Fault, Goto, storeVars, bookVars
<1>2. ASSUME NEW r \in Runs, NEW a \in {"interrupt", "rollback"}, Cancel(r, a)
      PROVE  TypeOK'
  BY <1>2 DEF Cancel, Early, Fault, SetFinalizing, TaskActive, Cancellable, bookVars
<1>3. ASSUME NEW r \in Runs, Admit(r)
      PROVE  TypeOK'
  BY <1>3 DEF Admit, Goto, Cut, TaskActive, bookVars
<1>4. ASSUME NEW r \in Runs, Refuse(r)
      PROVE  TypeOK'
  BY <1>4 DEF Refuse, Goto, Fault
<1>5. ASSUME NEW r \in Runs, Launch(r)
      PROVE  TypeOK'
  BY <1>5 DEF Launch, Goto, recordVars, storeVars, bookVars
<1>6. ASSUME NEW r \in Runs, LaunchFails(r)
      PROVE  TypeOK'
  BY <1>6 DEF LaunchFails, Goto, Fault, recordVars, storeVars
<1>7. ASSUME NEW r \in Runs, PersistLate(r)
      PROVE  TypeOK'
  BY <1>7 DEF PersistLate, Persist, Fault, recordVars, workerVars, bookVars
<1>8. ASSUME NEW r \in Runs, Begin(r)
      PROVE  TypeOK'
  BY <1>8 DEF Begin, Goto, recordVars, storeVars, bookVars
<1>9. ASSUME NEW r \in Runs, NeverRuns(r)
      PROVE  TypeOK'
  BY <1>9 DEF NeverRuns, Goto, recordVars, storeVars, bookVars
<1>10. ASSUME NEW r \in Runs, Proceed(r)
      PROVE  TypeOK'
  BY <1>10 DEF Proceed, Goto, Persist, Fault, bookVars
<1>11. ASSUME NEW r \in Runs, Snapshot(r)
      PROVE  TypeOK'
  BY <1>11 DEF Snapshot, Goto, Fault, recordVars, storeVars
<1>12. ASSUME NEW r \in Runs, Turn(r)
      PROVE  TypeOK'
  BY <1>12 DEF Turn, recordVars, bookVars
<1>13. ASSUME NEW r \in Runs, GraphEnds(r)
      PROVE  TypeOK'
  BY <1>13 DEF GraphEnds, Goto, Persist, Fault, bookVars
<1>14. ASSUME NEW r \in Runs, GraphRaises(r)
      PROVE  TypeOK'
  BY <1>14 DEF GraphRaises, SetError, Goto, Persist, Fault, bookVars
<1>15. ASSUME NEW r \in Runs, GraphRaisesLocked(r)
      PROVE  TypeOK'
  BY <1>15 DEF GraphRaisesLocked, Goto, recordVars, storeVars, bookVars
<1>16. ASSUME NEW r \in Runs, Fail(r)
      PROVE  TypeOK'
  BY <1>16 DEF Fail, SetError, Goto, Persist, Fault, bookVars
<1>17. ASSUME NEW r \in Runs, FailCancelled(r)
      PROVE  TypeOK'
  BY <1>17 DEF FailCancelled, Goto, recordVars, storeVars, bookVars
<1>18. ASSUME NEW r \in Runs, CleanUp(r)
      PROVE  TypeOK'
  BY <1>18 DEF CleanUp, SetFinalizing, Persist, Fault, Goto, AbortStatus, bookVars
<1>19. ASSUME NEW r \in Runs, Restore(r)
      PROVE  TypeOK'
  BY <1>19 DEF Restore, Restored, Goto, Fault, recordVars
<1>20. ASSUME NEW r \in Runs, Complete(r)
      PROVE  TypeOK'
  BY <1>20 DEF Complete, Goto, recordVars, bookVars
<1>21. ASSUME NEW r \in Runs, Title(r)
      PROVE  TypeOK'
  BY <1>21 DEF Title, Goto, recordVars, storeVars, bookVars
<1>22. ASSUME NEW r \in Runs, TitleSkipped(r)
      PROVE  TypeOK'
  BY <1>22 DEF TitleSkipped, Goto, recordVars, storeVars, bookVars
<1>23. ASSUME NEW r \in Runs, TitleRead(r)
      PROVE  TypeOK'
  BY <1>23 DEF TitleRead, Goto, recordVars, storeVars, bookVars
<1>24. ASSUME NEW r \in Runs, TitlePut(r)
      PROVE  TypeOK'
  BY <1>24 DEF TitlePut, Goto, recordVars, bookVars
<1>25. ASSUME NEW r \in Runs, Close(r)
      PROVE  TypeOK'
  BY <1>25 DEF Close, SetFinalizing, Goto, storeVars, bookVars
<1>26. CASE ShutDown
  BY <1>26 DEF ShutDown, TaskActive, storeVars, bookVars
<1>27. CASE Exit
  BY <1>27 DEF Exit, Forget, bookVars
<1>28. CASE Crash
  BY <1>28 DEF Crash, Forget, Fault
<1>29. CASE Recover
  BY <1>29 DEF Recover, Fault, Orphans, recordVars, workerVars
<1>30. CASE UNCHANGED vars
  BY <1>30 DEF vars, recordVars, workerVars, storeVars, bookVars
<1> HIDE DEF TypeOK, Active, Terminal, Strategies, TaskPCs, PCs, Trying
<1> QED
  BY <1>1, <1>2, <1>3, <1>4, <1>5, <1>6, <1>7, <1>8, <1>9, <1>10, <1>11, <1>12, <1>13, <1>14, <1>15, <1>16, <1>17, <1>18, <1>19, <1>20, <1>21, <1>22, <1>23, <1>24, <1>25, <1>26, <1>27, <1>28, <1>29, <1>30 DEF Next, Work

\* Every variable keeps its type, whatever fails (RunRecord, RunRow).
THEOREM TypeCorrect == Spec => []TypeOK
  BY InitType, StepType, PTL DEF Spec

-----------------------------------------------------------------------------
(* What a status write does, whether the store takes it or not *)

LEMMA PersistEffect ==
  ASSUME TypeOK, NEW r \in Runs, NEW s, Persist(r, s)
  PROVE  /\ \A q \in Runs : q # r => row'[q] = row[q]
         /\ row'[r] \in {row[r], s}
         /\ row'[r] = s \/ r \in unsaved'
         /\ unsaved \subseteq unsaved'
         /\ unsaved' \subseteq unsaved \cup {r}
  BY DEF Persist, Fault, TypeOK, bookVars

-----------------------------------------------------------------------------
(* Runs are created in order and have no outcome before their end *)

LEMMA StepOrder == TypeOK /\ OrderInv /\ [Next]_vars => OrderInv'
<1> SUFFICES ASSUME TypeOK, OrderInv, [Next]_vars
             PROVE  OrderInv'
  OBVIOUS
<1> USE DEF TypeOK, OrderInv, Runs, TaskPCs, PCs, Trying, LockFree
<1>1. ASSUME NEW r \in Runs, NEW s \in Strategies, Request(r, s)
      PROVE  OrderInv'
  BY <1>1 DEF Request, Early, Fault, Goto, storeVars, bookVars
<1>2. ASSUME NEW r \in Runs, NEW a \in {"interrupt", "rollback"}, Cancel(r, a)
      PROVE  OrderInv'
  BY <1>2 DEF Cancel, Early, Fault, SetFinalizing, TaskActive, Cancellable, bookVars
<1>3. ASSUME NEW r \in Runs, Admit(r)
      PROVE  OrderInv'
  BY <1>3 DEF Admit, Goto, Cut, TaskActive, bookVars
<1>4. ASSUME NEW r \in Runs, Refuse(r)
      PROVE  OrderInv'
  BY <1>4 DEF Refuse, Goto, Fault
<1>5. ASSUME NEW r \in Runs, Launch(r)
      PROVE  OrderInv'
  BY <1>5 DEF Launch, Goto, recordVars, storeVars, bookVars
<1>6. ASSUME NEW r \in Runs, LaunchFails(r)
      PROVE  OrderInv'
  BY <1>6 DEF LaunchFails, Goto, Fault, recordVars, storeVars
<1>7. ASSUME NEW r \in Runs, PersistLate(r)
      PROVE  OrderInv'
  BY PersistEffect, <1>7 DEF PersistLate, recordVars, workerVars, bookVars
<1>8. ASSUME NEW r \in Runs, Begin(r)
      PROVE  OrderInv'
  BY <1>8 DEF Begin, Goto, recordVars, storeVars, bookVars
<1>9. ASSUME NEW r \in Runs, NeverRuns(r)
      PROVE  OrderInv'
  BY <1>9 DEF NeverRuns, Goto, recordVars, storeVars, bookVars
<1>10. ASSUME NEW r \in Runs, Proceed(r)
      PROVE  OrderInv'
  BY PersistEffect, <1>10 DEF Proceed, Goto, bookVars
<1>11. ASSUME NEW r \in Runs, Snapshot(r)
      PROVE  OrderInv'
  BY <1>11 DEF Snapshot, Goto, Fault, recordVars, storeVars
<1>12. ASSUME NEW r \in Runs, Turn(r)
      PROVE  OrderInv'
  BY <1>12 DEF Turn, recordVars, bookVars
<1>13. ASSUME NEW r \in Runs, GraphEnds(r)
      PROVE  OrderInv'
  BY PersistEffect, <1>13 DEF GraphEnds, Goto, bookVars
<1>14. ASSUME NEW r \in Runs, GraphRaises(r)
      PROVE  OrderInv'
  BY PersistEffect, <1>14 DEF GraphRaises, SetError, Goto, bookVars
<1>15. ASSUME NEW r \in Runs, GraphRaisesLocked(r)
      PROVE  OrderInv'
  BY <1>15 DEF GraphRaisesLocked, Goto, recordVars, storeVars, bookVars
<1>16. ASSUME NEW r \in Runs, Fail(r)
      PROVE  OrderInv'
  BY PersistEffect, <1>16 DEF Fail, SetError, Goto, bookVars
<1>17. ASSUME NEW r \in Runs, FailCancelled(r)
      PROVE  OrderInv'
  BY <1>17 DEF FailCancelled, Goto, recordVars, storeVars, bookVars
<1>18. ASSUME NEW r \in Runs, CleanUp(r)
      PROVE  OrderInv'
  BY PersistEffect, <1>18 DEF CleanUp, SetFinalizing, Goto, AbortStatus, bookVars
<1>19. ASSUME NEW r \in Runs, Restore(r)
      PROVE  OrderInv'
  BY <1>19 DEF Restore, Restored, Goto, Fault, recordVars
<1>20. ASSUME NEW r \in Runs, Complete(r)
      PROVE  OrderInv'
  BY <1>20 DEF Complete, Goto, recordVars, bookVars
<1>21. ASSUME NEW r \in Runs, Title(r)
      PROVE  OrderInv'
  BY <1>21 DEF Title, Goto, recordVars, storeVars, bookVars
<1>22. ASSUME NEW r \in Runs, TitleSkipped(r)
      PROVE  OrderInv'
  BY <1>22 DEF TitleSkipped, Goto, recordVars, storeVars, bookVars
<1>23. ASSUME NEW r \in Runs, TitleRead(r)
      PROVE  OrderInv'
  BY <1>23 DEF TitleRead, Goto, recordVars, storeVars, bookVars
<1>24. ASSUME NEW r \in Runs, TitlePut(r)
      PROVE  OrderInv'
  BY <1>24 DEF TitlePut, Goto, recordVars, bookVars
<1>25. ASSUME NEW r \in Runs, Close(r)
      PROVE  OrderInv'
  BY <1>25 DEF Close, SetFinalizing, Goto, storeVars, bookVars
<1>26. CASE ShutDown
  BY <1>26 DEF ShutDown, TaskActive, storeVars, bookVars
<1>27. CASE Exit
  BY <1>27 DEF Exit, Forget, bookVars
<1>28. CASE Crash
  BY <1>28 DEF Crash, Forget, Fault
<1>29. CASE Recover
  BY <1>29 DEF Recover, Fault, Orphans, recordVars, workerVars
<1>30. CASE UNCHANGED vars
  BY <1>30 DEF vars, recordVars, workerVars, storeVars, bookVars
<1> HIDE DEF TypeOK, OrderInv, Runs, TaskPCs, PCs, Trying, LockFree
<1> QED
  BY <1>1, <1>2, <1>3, <1>4, <1>5, <1>6, <1>7, <1>8, <1>9, <1>10, <1>11, <1>12, <1>13, <1>14, <1>15, <1>16, <1>17, <1>18, <1>19, <1>20, <1>21, <1>22, <1>23, <1>24, <1>25, <1>26, <1>27, <1>28, <1>29, <1>30 DEF Next, Work

LEMMA StepNoOutcome == TypeOK /\ OrderInv /\ NoOutcomeYet /\ [Next]_vars => NoOutcomeYet'
<1> SUFFICES ASSUME TypeOK, OrderInv, NoOutcomeYet, [Next]_vars
             PROVE  NoOutcomeYet'
  OBVIOUS
<1> USE DEF TypeOK, OrderInv, NoOutcomeYet, Active, Terminal, TaskPCs, PCs, Trying, Runs, LockFree
<1>1. ASSUME NEW r \in Runs, NEW s \in Strategies, Request(r, s)
      PROVE  NoOutcomeYet'
  BY <1>1 DEF Request, Early, Fault, Goto, storeVars, bookVars
<1>2. ASSUME NEW r \in Runs, NEW a \in {"interrupt", "rollback"}, Cancel(r, a)
      PROVE  NoOutcomeYet'
  BY <1>2 DEF Cancel, Early, Fault, SetFinalizing, TaskActive, Cancellable, bookVars
<1>3. ASSUME NEW r \in Runs, Admit(r)
      PROVE  NoOutcomeYet'
  BY <1>3 DEF Admit, Goto, Cut, TaskActive, bookVars
<1>4. ASSUME NEW r \in Runs, Refuse(r)
      PROVE  NoOutcomeYet'
  BY <1>4 DEF Refuse, Goto, Fault
<1>5. ASSUME NEW r \in Runs, Launch(r)
      PROVE  NoOutcomeYet'
  BY <1>5 DEF Launch, Goto, recordVars, storeVars, bookVars
<1>6. ASSUME NEW r \in Runs, LaunchFails(r)
      PROVE  NoOutcomeYet'
  BY <1>6 DEF LaunchFails, Goto, Fault, recordVars, storeVars
<1>7. ASSUME NEW r \in Runs, PersistLate(r)
      PROVE  NoOutcomeYet'
  BY PersistEffect, <1>7 DEF PersistLate, recordVars, workerVars, bookVars
<1>8. ASSUME NEW r \in Runs, Begin(r)
      PROVE  NoOutcomeYet'
  BY <1>8 DEF Begin, Goto, recordVars, storeVars, bookVars
<1>9. ASSUME NEW r \in Runs, NeverRuns(r)
      PROVE  NoOutcomeYet'
  BY <1>9 DEF NeverRuns, Goto, recordVars, storeVars, bookVars
<1>10. ASSUME NEW r \in Runs, Proceed(r)
      PROVE  NoOutcomeYet'
  BY PersistEffect, <1>10 DEF Proceed, Goto, bookVars
<1>11. ASSUME NEW r \in Runs, Snapshot(r)
      PROVE  NoOutcomeYet'
  <2> HIDE DEF NoOutcomeYet
  <2>1. /\ pc[r] = "snapshot" /\ pc' = [pc EXCEPT ![r] = "graph"]
        /\ status' = status /\ row' = row /\ late' = late
        /\ \A q \in Runs : q # r => captured'[q] = captured[q]
    BY <1>11 DEF Snapshot, Goto, recordVars, storeVars
  <2>2. r \in Runs
    BY <1>11
  <2> QED
    BY <2>1, <2>2 DEF NoOutcomeYet
<1>12. ASSUME NEW r \in Runs, Turn(r)
      PROVE  NoOutcomeYet'
  BY <1>12 DEF Turn, recordVars, bookVars
<1>13. ASSUME NEW r \in Runs, GraphEnds(r)
      PROVE  NoOutcomeYet'
  <2>1. PICK s \in {"success", "error"} : status' = [status EXCEPT ![r] = s] /\ Persist(r, s)
    BY <1>13 DEF GraphEnds
  <2>2. QED
    BY PersistEffect, <1>13, <2>1 DEF GraphEnds, Goto, bookVars
<1>14. ASSUME NEW r \in Runs, GraphRaises(r)
      PROVE  NoOutcomeYet'
  BY PersistEffect, <1>14 DEF GraphRaises, SetError, Goto, bookVars
<1>15. ASSUME NEW r \in Runs, GraphRaisesLocked(r)
      PROVE  NoOutcomeYet'
  BY <1>15 DEF GraphRaisesLocked, Goto, recordVars, storeVars, bookVars
<1>16. ASSUME NEW r \in Runs, Fail(r)
      PROVE  NoOutcomeYet'
  BY PersistEffect, <1>16 DEF Fail, SetError, Goto, bookVars
<1>17. ASSUME NEW r \in Runs, FailCancelled(r)
      PROVE  NoOutcomeYet'
  BY <1>17 DEF FailCancelled, Goto, recordVars, storeVars, bookVars
<1>18. ASSUME NEW r \in Runs, CleanUp(r)
      PROVE  NoOutcomeYet'
  BY PersistEffect, <1>18 DEF CleanUp, SetFinalizing, Goto, AbortStatus, bookVars
<1>19. ASSUME NEW r \in Runs, Restore(r)
      PROVE  NoOutcomeYet'
  <2> HIDE DEF NoOutcomeYet
  <2>1. /\ pc[r] = "restore" /\ pc' = [pc EXCEPT ![r] = "complete"]
        /\ status' = status /\ row' = row /\ late' = late
        /\ \A q \in Runs : q # r => captured'[q] = captured[q]
    BY <1>19 DEF Restore, Goto, recordVars
  <2>2. r \in Runs
    BY <1>19
  <2> QED
    BY <2>1, <2>2 DEF NoOutcomeYet
<1>20. ASSUME NEW r \in Runs, Complete(r)
      PROVE  NoOutcomeYet'
  BY <1>20 DEF Complete, Goto, recordVars, bookVars
<1>21. ASSUME NEW r \in Runs, Title(r)
      PROVE  NoOutcomeYet'
  BY <1>21 DEF Title, Goto, recordVars, storeVars, bookVars
<1>22. ASSUME NEW r \in Runs, TitleSkipped(r)
      PROVE  NoOutcomeYet'
  BY <1>22 DEF TitleSkipped, Goto, recordVars, storeVars, bookVars
<1>23. ASSUME NEW r \in Runs, TitleRead(r)
      PROVE  NoOutcomeYet'
  BY <1>23 DEF TitleRead, Goto, recordVars, storeVars, bookVars
<1>24. ASSUME NEW r \in Runs, TitlePut(r)
      PROVE  NoOutcomeYet'
  BY <1>24 DEF TitlePut, Goto, recordVars, bookVars
<1>25. ASSUME NEW r \in Runs, Close(r)
      PROVE  NoOutcomeYet'
  BY <1>25 DEF Close, SetFinalizing, Goto, storeVars, bookVars
<1>26. CASE ShutDown
  BY <1>26 DEF ShutDown, TaskActive, storeVars, bookVars
<1>27. CASE Exit
  BY <1>27 DEF Exit, Forget, bookVars
<1>28. CASE Crash
  BY <1>28 DEF Crash, Forget, Fault
<1>29. CASE Recover
  BY <1>29 DEF Recover, Fault, Orphans, recordVars, workerVars
<1>30. CASE UNCHANGED vars
  BY <1>30 DEF vars, recordVars, workerVars, storeVars, bookVars
<1> HIDE DEF TypeOK, OrderInv, NoOutcomeYet, Active, Terminal, TaskPCs, PCs, Trying, Runs, LockFree
<1> QED
  BY <1>1, <1>2, <1>3, <1>4, <1>5, <1>6, <1>7, <1>8, <1>9, <1>10, <1>11, <1>12, <1>13, <1>14, <1>15, <1>16, <1>17, <1>18, <1>19, <1>20, <1>21, <1>22, <1>23, <1>24, <1>25, <1>26, <1>27, <1>28, <1>29, <1>30 DEF Next, Work

LEMMA StepRecord == TypeOK /\ OrderInv /\ NoOutcomeYet /\ RecordInv /\ [Next]_vars => RecordInv'
<1> SUFFICES ASSUME TypeOK, OrderInv, NoOutcomeYet, RecordInv, [Next]_vars
             PROVE  RecordInv'
  OBVIOUS
<1> USE DEF TypeOK, NoOutcomeYet, RecordInv, RecordOK, ModeOK, Unmarked, Untouched, Beside, CutShort, Drained, Inflight, Active, Terminal, TaskPCs, PCs, Trying, Runs, LockFree, LockQueueEmpty
<1>1. ASSUME NEW r \in Runs, NEW s \in Strategies, Request(r, s)
      PROVE  RecordInv'
  BY <1>1 DEF Request, Early, Fault, Goto, storeVars, bookVars
<1>2. ASSUME NEW r \in Runs, NEW a \in {"interrupt", "rollback"}, Cancel(r, a)
      PROVE  RecordInv'
  <2> SUFFICES ASSUME NEW q \in Runs
               PROVE  RecordOK(q)' /\ ModeOK(q)'
    BY DEF RecordInv
  <2>1. ModeOK(q)'
    BY <1>2 DEF Cancel, Early, Fault, SetFinalizing, TaskActive, Cancellable, bookVars, TypeOK, NoOutcomeYet, RecordInv, ModeOK, RecordOK, Active, Terminal, TaskPCs, PCs, Trying
  <2>2. RecordOK(q)' \/ q = r
    BY <1>2 DEF Cancel, Early, Fault, SetFinalizing, TaskActive, Cancellable, bookVars, TypeOK, NoOutcomeYet, RecordInv, RecordOK, Unmarked, Untouched, Beside, CutShort, Drained, Active, Terminal, TaskPCs, PCs, Trying, LockFree
  <2>3. CASE q = r
    <3>1. RecordOK(r)'
      BY <1>2 DEF Cancel, Early, Fault, SetFinalizing, TaskActive, Cancellable, bookVars, TypeOK, NoOutcomeYet, RecordInv, RecordOK, ModeOK, Unmarked, Untouched, Beside, CutShort, Drained, Active, Terminal, TaskPCs, PCs, Trying, LockFree
    <3>2. QED
      BY <2>1, <2>3, <3>1
  <2>4. QED
    BY <2>1, <2>2, <2>3
<1>3. ASSUME NEW r \in Runs, Admit(r)
      PROVE  RecordInv'
  <2>1. /\ pc' = [pc EXCEPT ![r] = "launch"] /\ mode' = mode /\ mode # "draining" /\ mode # "down" /\ pc[r] = "put"
        /\ unborn' = unborn \cup {q \in Cut(r) : pc[q] = "launch"}
    BY <1>3 DEF Admit, Goto, RecordInv, ModeOK, Serving
  <2>2. \A q \in Runs : ModeOK(q)'
    BY <2>1 DEF TypeOK, RecordInv, ModeOK
  <2>3. RecordOK(r)'
    <3>1. Untouched(r) /\ status[r] = "pending" /\ r \notin Cut(r)
      BY <2>1 DEF RecordInv, RecordOK, NoOutcomeYet, Cut
    <3>2. Untouched(r)' /\ status'[r] = "pending"
      BY <3>1, <1>3 DEF Admit, Untouched, Unmarked, TypeOK
    <3>3. QED
      BY <2>1, <3>2 DEF RecordOK, TypeOK, Trying
  <2>4. ASSUME NEW q \in Runs, q # r, q \notin Cut(r)
        PROVE  RecordOK(q)'
    <3>1. status'[q] = status[q] /\ action'[q] = action[q] /\ pc'[q] = pc[q]
          /\ (q \in fin' <=> q \in fin) /\ (q \in kill' <=> q \in kill) /\ (q \in unborn' <=> q \in unborn)
      BY <2>1, <2>4, <1>3 DEF Admit, TypeOK
    <3>2. QED
      BY <2>1, <3>1 DEF RecordInv, RecordOK, Unmarked, Untouched, Beside, CutShort, Drained
  <2>5. ASSUME NEW q \in Runs, q # r, q \in Cut(r)
        PROVE  RecordOK(q)'
    <3>1. status'[q] = "interrupted" /\ pc'[q] = pc[q] /\ q \notin fin
      BY <2>1, <2>5, <1>3 DEF Admit, Cut, TypeOK
    <3>2. (TaskActive(q) => q \in fin' /\ q \in kill') /\ (~TaskActive(q) => q \notin fin' /\ (q \in kill' <=> q \in kill))
      BY <2>5, <3>1, <1>3 DEF Admit
    <3>3. status[q] \in Active /\ RecordOK(q)
      BY <2>5 DEF Cut, RecordInv
    <3>4. pc[q] # "put"
      BY <1>3, <2>5 DEF Admit, OrderInv, Runs
    <3>5. pc[q] \in Trying \cup {"launch", "new", "aborted", "failing"}
      BY <2>1, <3>1, <3>3, <3>4
         DEF RecordOK, Active, Terminal, TypeOK, PCs, TaskPCs, Trying, NoOutcomeYet
    <3>6. CASE pc[q] = "launch"
      <4>1. Unmarked(q) /\ q \in unborn' /\ ~TaskActive(q)
        BY <2>1, <2>5, <3>1, <3>3, <3>6 DEF RecordOK, Untouched, Beside, TaskActive, TaskPCs
      <4> QED
        BY <3>1, <3>2, <3>6, <4>1 DEF RecordOK, Unmarked, Beside, Trying
    <3>7. CASE pc[q] = "aborted"
      <4>1. Unmarked(q) /\ ~TaskActive(q)
        BY <3>3, <3>7 DEF RecordOK, TaskActive, TaskPCs
      <4> QED
        BY <3>1, <3>2, <3>7, <4>1 DEF RecordOK, Unmarked, Trying
    <3>8. CASE pc[q] \in Trying \cup {"new", "failing"}
      BY <3>1, <3>2, <3>8 DEF RecordOK, CutShort, TaskActive, TaskPCs, Trying
    <3>9. QED
      BY <3>5, <3>6, <3>7, <3>8
  <2>6. QED
    BY <2>2, <2>3, <2>4, <2>5 DEF RecordInv
<1>4. ASSUME NEW r \in Runs, Refuse(r)
      PROVE  RecordInv'
  BY <1>4 DEF Refuse, Goto, Fault
<1>5. ASSUME NEW r \in Runs, Launch(r)
      PROVE  RecordInv'
  BY <1>5 DEF Launch, Goto, recordVars, storeVars, bookVars
<1>6. ASSUME NEW r \in Runs, LaunchFails(r)
      PROVE  RecordInv'
  BY <1>6 DEF LaunchFails, Goto, Fault, recordVars, storeVars
<1>7. ASSUME NEW r \in Runs, PersistLate(r)
      PROVE  RecordInv'
  BY PersistEffect, <1>7 DEF PersistLate, recordVars, workerVars, bookVars
<1>8. ASSUME NEW r \in Runs, Begin(r)
      PROVE  RecordInv'
  BY <1>8 DEF Begin, Goto, recordVars, storeVars, bookVars
<1>9. ASSUME NEW r \in Runs, NeverRuns(r)
      PROVE  RecordInv'
  BY <1>9 DEF NeverRuns, Goto, recordVars, storeVars, bookVars
<1>10. ASSUME NEW r \in Runs, Proceed(r)
      PROVE  RecordInv'
  BY PersistEffect, <1>10 DEF Proceed, Goto, bookVars
<1>11. ASSUME NEW r \in Runs, Snapshot(r)
      PROVE  RecordInv'
  BY <1>11 DEF Snapshot, Goto, Fault, recordVars, storeVars
<1>12. ASSUME NEW r \in Runs, Turn(r)
      PROVE  RecordInv'
  BY <1>12 DEF Turn, recordVars, bookVars
<1>13. ASSUME NEW r \in Runs, GraphEnds(r)
      PROVE  RecordInv'
  <2>1. PICK s \in {"success", "error"} : status' = [status EXCEPT ![r] = s] /\ Persist(r, s)
    BY <1>13 DEF GraphEnds
  <2>2. QED
    BY PersistEffect, <1>13, <2>1 DEF GraphEnds, Goto, bookVars
<1>14. ASSUME NEW r \in Runs, GraphRaises(r)
      PROVE  RecordInv'
  BY PersistEffect, <1>14 DEF GraphRaises, SetError, Goto, bookVars
<1>15. ASSUME NEW r \in Runs, GraphRaisesLocked(r)
      PROVE  RecordInv'
  BY <1>15 DEF GraphRaisesLocked, Goto, recordVars, storeVars, bookVars
<1>16. ASSUME NEW r \in Runs, Fail(r)
      PROVE  RecordInv'
  BY PersistEffect, <1>16 DEF Fail, SetError, Goto, bookVars
<1>17. ASSUME NEW r \in Runs, FailCancelled(r)
      PROVE  RecordInv'
  <2> SUFFICES ASSUME NEW q \in Runs
               PROVE  RecordOK(q)' /\ ModeOK(q)'
    BY DEF RecordInv
  <2>1. ModeOK(q)'
    BY <1>17 DEF FailCancelled, Goto, recordVars, storeVars, bookVars, TypeOK, NoOutcomeYet, RecordInv, ModeOK, RecordOK, Active, Terminal, TaskPCs, PCs, Trying
  <2>2. RecordOK(q)' \/ q = r
    BY <1>17 DEF FailCancelled, Goto, recordVars, storeVars, bookVars, TypeOK, NoOutcomeYet, RecordInv, RecordOK, Unmarked, Untouched, Beside, CutShort, Drained, Active, Terminal, TaskPCs, PCs, Trying
  <2>3. CASE q = r
    <3>1. RecordOK(r)'
      BY <1>17 DEF FailCancelled, Goto, recordVars, storeVars, bookVars, TypeOK, NoOutcomeYet, RecordInv, RecordOK, ModeOK, Unmarked, Untouched, Beside, CutShort, Drained, Active, Terminal, TaskPCs, PCs, Trying
    <3>2. QED
      BY <2>1, <2>3, <3>1
  <2>4. QED
    BY <2>1, <2>2, <2>3
<1>18. ASSUME NEW r \in Runs, CleanUp(r)
      PROVE  RecordInv'
  BY PersistEffect, <1>18 DEF CleanUp, SetFinalizing, Goto, AbortStatus, bookVars
<1>19. ASSUME NEW r \in Runs, Restore(r)
      PROVE  RecordInv'
  BY <1>19 DEF Restore, Restored, Goto, Fault, recordVars
<1>20. ASSUME NEW r \in Runs, Complete(r)
      PROVE  RecordInv'
  BY <1>20 DEF Complete, Goto, recordVars, bookVars
<1>21. ASSUME NEW r \in Runs, Title(r)
      PROVE  RecordInv'
  BY <1>21 DEF Title, Goto, recordVars, storeVars, bookVars
<1>22. ASSUME NEW r \in Runs, TitleSkipped(r)
      PROVE  RecordInv'
  BY <1>22 DEF TitleSkipped, Goto, recordVars, storeVars, bookVars
<1>23. ASSUME NEW r \in Runs, TitleRead(r)
      PROVE  RecordInv'
  BY <1>23 DEF TitleRead, Goto, recordVars, storeVars, bookVars
<1>24. ASSUME NEW r \in Runs, TitlePut(r)
      PROVE  RecordInv'
  BY <1>24 DEF TitlePut, Goto, recordVars, bookVars
<1>25. ASSUME NEW r \in Runs, Close(r)
      PROVE  RecordInv'
  BY <1>25 DEF Close, SetFinalizing, Goto, storeVars, bookVars
<1>26. CASE ShutDown
  BY <1>26 DEF ShutDown, TaskActive, storeVars, bookVars
<1>27. CASE Exit
  BY <1>27 DEF Exit, Forget, bookVars
<1>28. CASE Crash
  BY <1>28 DEF Crash, Forget, Fault
<1>29. CASE Recover
  BY <1>29 DEF Recover, Fault, Orphans, recordVars, workerVars
<1>30. CASE UNCHANGED vars
  BY <1>30 DEF vars, recordVars, workerVars, storeVars, bookVars
<1> HIDE DEF TypeOK, NoOutcomeYet, RecordInv, RecordOK, ModeOK, Unmarked, Untouched, Beside, CutShort, Drained, Inflight, Active, Terminal, TaskPCs, PCs, Trying, Runs, LockFree, LockQueueEmpty
<1> QED
  BY <1>1, <1>2, <1>3, <1>4, <1>5, <1>6, <1>7, <1>8, <1>9, <1>10, <1>11, <1>12, <1>13, <1>14, <1>15, <1>16, <1>17, <1>18, <1>19, <1>20, <1>21, <1>22, <1>23, <1>24, <1>25, <1>26, <1>27, <1>28, <1>29, <1>30 DEF Next, Work

LEMMA StepOlderInactive == TypeOK /\ OrderInv /\ NoOutcomeYet /\ RecordInv /\ OlderInactive /\ [Next]_vars => OlderInactive'
<1> SUFFICES ASSUME TypeOK, OrderInv, NoOutcomeYet, RecordInv, OlderInactive, [Next]_vars
             PROVE  OlderInactive'
  OBVIOUS
<1> USE DEF TypeOK, OrderInv, NoOutcomeYet, RecordInv, RecordOK, Unmarked, Untouched, Beside, CutShort, Drained, OlderInactive, Alone, Admitted, Active, Terminal, TaskPCs, PCs, Trying, Runs
<1>1. ASSUME NEW r \in Runs, NEW s \in Strategies, Request(r, s)
      PROVE  OlderInactive'
  <2>1. \A q \in Runs : q > r => pc[q] = "none"
    BY <1>1 DEF Request, OrderInv
  <2>2. s = "reject" => \A q \in Runs : status[q] \notin Active
    BY <1>1 DEF Request, Inflight
  <2>3. QED
    BY <2>1, <2>2, <1>1 DEF Request, Early, Fault, Goto, TypeOK, OlderInactive, Alone, Admitted, Runs
<1>2. ASSUME NEW r \in Runs, NEW a \in {"interrupt", "rollback"}, Cancel(r, a)
      PROVE  OlderInactive'
  BY <1>2 DEF Cancel, Early, Fault, SetFinalizing, TaskActive, Cancellable, bookVars
<1>3. ASSUME NEW r \in Runs, Admit(r)
      PROVE  OlderInactive'
  <2>1. \A q \in Runs : q # r /\ strategy[r] # "reject" => status'[q] \notin Active
    <3>1. \A q \in Runs : status[q] \in Active => q \notin fin
      BY DEF RecordInv, RecordOK, Unmarked, Untouched, Beside, CutShort, Drained, TypeOK, PCs, TaskPCs, Trying, Active, Terminal
    <3>2. QED
      BY <3>1, <1>3 DEF Admit, Cut, Active, TypeOK
  <2>2. \A q \in Runs : status'[q] \in Active => status[q] \in Active
    BY <1>3 DEF Admit, Active, TypeOK
  <2>3. \A q \in Runs : Alone(q)' => Alone(q) \/ q = r
    BY <1>3 DEF Admit, Goto, Alone, Admitted, TypeOK
  <2>4. pc[r] = "put"
    BY <1>3 DEF Admit
  <2>5. unborn \subseteq unborn'
    BY <1>3 DEF Admit
  <2>6. QED
    BY <2>1, <2>2, <2>3, <2>4, <2>5 DEF OlderInactive, Alone, Runs
<1>4. ASSUME NEW r \in Runs, Refuse(r)
      PROVE  OlderInactive'
  BY <1>4 DEF Refuse, Goto, Fault
<1>5. ASSUME NEW r \in Runs, Launch(r)
      PROVE  OlderInactive'
  BY <1>5 DEF Launch, Goto, recordVars, storeVars, bookVars
<1>6. ASSUME NEW r \in Runs, LaunchFails(r)
      PROVE  OlderInactive'
  BY <1>6 DEF LaunchFails, Goto, Fault, recordVars, storeVars
<1>7. ASSUME NEW r \in Runs, PersistLate(r)
      PROVE  OlderInactive'
  BY PersistEffect, <1>7 DEF PersistLate, recordVars, workerVars, bookVars
<1>8. ASSUME NEW r \in Runs, Begin(r)
      PROVE  OlderInactive'
  BY <1>8 DEF Begin, Goto, recordVars, storeVars, bookVars
<1>9. ASSUME NEW r \in Runs, NeverRuns(r)
      PROVE  OlderInactive'
  BY <1>9 DEF NeverRuns, Goto, recordVars, storeVars, bookVars
<1>10. ASSUME NEW r \in Runs, Proceed(r)
      PROVE  OlderInactive'
  BY PersistEffect, <1>10 DEF Proceed, Goto, bookVars
<1>11. ASSUME NEW r \in Runs, Snapshot(r)
      PROVE  OlderInactive'
  BY <1>11 DEF Snapshot, Goto, Fault, recordVars, storeVars
<1>12. ASSUME NEW r \in Runs, Turn(r)
      PROVE  OlderInactive'
  BY <1>12 DEF Turn, recordVars, bookVars
<1>13. ASSUME NEW r \in Runs, GraphEnds(r)
      PROVE  OlderInactive'
  <2>1. PICK s \in {"success", "error"} : status' = [status EXCEPT ![r] = s] /\ Persist(r, s)
    BY <1>13 DEF GraphEnds
  <2>2. QED
    BY PersistEffect, <1>13, <2>1 DEF GraphEnds, Goto, bookVars
<1>14. ASSUME NEW r \in Runs, GraphRaises(r)
      PROVE  OlderInactive'
  BY PersistEffect, <1>14 DEF GraphRaises, SetError, Goto, bookVars
<1>15. ASSUME NEW r \in Runs, GraphRaisesLocked(r)
      PROVE  OlderInactive'
  BY <1>15 DEF GraphRaisesLocked, Goto, recordVars, storeVars, bookVars
<1>16. ASSUME NEW r \in Runs, Fail(r)
      PROVE  OlderInactive'
  BY PersistEffect, <1>16 DEF Fail, SetError, Goto, bookVars
<1>17. ASSUME NEW r \in Runs, FailCancelled(r)
      PROVE  OlderInactive'
  BY <1>17 DEF FailCancelled, Goto, recordVars, storeVars, bookVars
<1>18. ASSUME NEW r \in Runs, CleanUp(r)
      PROVE  OlderInactive'
  BY PersistEffect, <1>18 DEF CleanUp, SetFinalizing, Goto, AbortStatus, bookVars
<1>19. ASSUME NEW r \in Runs, Restore(r)
      PROVE  OlderInactive'
  BY <1>19 DEF Restore, Restored, Goto, Fault, recordVars
<1>20. ASSUME NEW r \in Runs, Complete(r)
      PROVE  OlderInactive'
  BY <1>20 DEF Complete, Goto, recordVars, bookVars
<1>21. ASSUME NEW r \in Runs, Title(r)
      PROVE  OlderInactive'
  BY <1>21 DEF Title, Goto, recordVars, storeVars, bookVars
<1>22. ASSUME NEW r \in Runs, TitleSkipped(r)
      PROVE  OlderInactive'
  BY <1>22 DEF TitleSkipped, Goto, recordVars, storeVars, bookVars
<1>23. ASSUME NEW r \in Runs, TitleRead(r)
      PROVE  OlderInactive'
  BY <1>23 DEF TitleRead, Goto, recordVars, storeVars, bookVars
<1>24. ASSUME NEW r \in Runs, TitlePut(r)
      PROVE  OlderInactive'
  BY <1>24 DEF TitlePut, Goto, recordVars, bookVars
<1>25. ASSUME NEW r \in Runs, Close(r)
      PROVE  OlderInactive'
  BY <1>25 DEF Close, SetFinalizing, Goto, storeVars, bookVars
<1>26. CASE ShutDown
  BY <1>26 DEF ShutDown, TaskActive, storeVars, bookVars
<1>27. CASE Exit
  BY <1>27 DEF Exit, Forget, bookVars
<1>28. CASE Crash
  BY <1>28 DEF Crash, Forget, Fault
<1>29. CASE Recover
  BY <1>29 DEF Recover, Fault, Orphans, recordVars, workerVars
<1>30. CASE UNCHANGED vars
  BY <1>30 DEF vars, recordVars, workerVars, storeVars, bookVars
<1> HIDE DEF TypeOK, OrderInv, NoOutcomeYet, RecordInv, RecordOK, Unmarked, Untouched, Beside, CutShort, Drained, OlderInactive, Alone, Admitted, Active, Terminal, TaskPCs, PCs, Trying, Runs
<1> QED
  BY <1>1, <1>2, <1>3, <1>4, <1>5, <1>6, <1>7, <1>8, <1>9, <1>10, <1>11, <1>12, <1>13, <1>14, <1>15, <1>16, <1>17, <1>18, <1>19, <1>20, <1>21, <1>22, <1>23, <1>24, <1>25, <1>26, <1>27, <1>28, <1>29, <1>30 DEF Next, Work

LEMMA StepOlderSettled == TypeOK /\ OrderInv /\ NoOutcomeYet /\ RecordInv /\ OlderInactive /\ OlderSettled /\ [Next]_vars => OlderSettled'
<1> SUFFICES ASSUME TypeOK, OrderInv, NoOutcomeYet, RecordInv, OlderInactive, OlderSettled, [Next]_vars
             PROVE  OlderSettled'
  OBVIOUS
<1> USE DEF TypeOK, NoOutcomeYet, RecordInv, RecordOK, Unmarked, Untouched, Beside, CutShort, Drained, OlderInactive, Alone, Admitted, OlderSettled, PastWait, PriorFinalizing, Active, Terminal, TaskPCs, PCs, Trying, Runs
<1>1. ASSUME NEW r \in Runs, NEW s \in Strategies, Request(r, s)
      PROVE  OlderSettled'
  BY <1>1 DEF Request, Early, Fault, Goto, storeVars, bookVars
<1>2. ASSUME NEW r \in Runs, NEW a \in {"interrupt", "rollback"}, Cancel(r, a)
      PROVE  OlderSettled'
  BY <1>2 DEF Cancel, Early, Fault, SetFinalizing, TaskActive, Cancellable, bookVars
<1>3. ASSUME NEW r \in Runs, Admit(r)
      PROVE  OlderSettled'
  BY <1>3 DEF Admit, Goto, Cut, TaskActive, bookVars
<1>4. ASSUME NEW r \in Runs, Refuse(r)
      PROVE  OlderSettled'
  BY <1>4 DEF Refuse, Goto, Fault
<1>5. ASSUME NEW r \in Runs, Launch(r)
      PROVE  OlderSettled'
  BY <1>5 DEF Launch, Goto, recordVars, storeVars, bookVars
<1>6. ASSUME NEW r \in Runs, LaunchFails(r)
      PROVE  OlderSettled'
  BY <1>6 DEF LaunchFails, Goto, Fault, recordVars, storeVars
<1>7. ASSUME NEW r \in Runs, PersistLate(r)
      PROVE  OlderSettled'
  BY PersistEffect, <1>7 DEF PersistLate, recordVars, workerVars, bookVars
<1>8. ASSUME NEW r \in Runs, Begin(r)
      PROVE  OlderSettled'
  BY <1>8 DEF Begin, Goto, recordVars, storeVars, bookVars
<1>9. ASSUME NEW r \in Runs, NeverRuns(r)
      PROVE  OlderSettled'
  BY <1>9 DEF NeverRuns, Goto, recordVars, storeVars, bookVars
<1>10. ASSUME NEW r \in Runs, Proceed(r)
      PROVE  OlderSettled'
  BY PersistEffect, <1>10 DEF Proceed, Goto, bookVars
<1>11. ASSUME NEW r \in Runs, Snapshot(r)
      PROVE  OlderSettled'
  <2> HIDE DEF TypeOK, NoOutcomeYet, RecordInv, RecordOK, OlderInactive, OlderSettled, PastWait
  <2>1. /\ fin' = fin /\ unborn' = unborn
        /\ pc[r] = "snapshot" /\ pc' = [pc EXCEPT ![r] = "graph"]
        /\ \A q \in Runs : q # r => captured'[q] = captured[q]
    BY <1>11 DEF Snapshot, Goto, recordVars, TypeOK
  <2> QED
    BY <2>1, <1>11 DEF TypeOK, OlderSettled, PastWait
<1>12. ASSUME NEW r \in Runs, Turn(r)
      PROVE  OlderSettled'
  BY <1>12 DEF Turn, recordVars, bookVars
<1>13. ASSUME NEW r \in Runs, GraphEnds(r)
      PROVE  OlderSettled'
  <2>1. PICK s \in {"success", "error"} : status' = [status EXCEPT ![r] = s] /\ Persist(r, s)
    BY <1>13 DEF GraphEnds
  <2>2. QED
    BY PersistEffect, <1>13, <2>1 DEF GraphEnds, Goto, bookVars
<1>14. ASSUME NEW r \in Runs, GraphRaises(r)
      PROVE  OlderSettled'
  BY PersistEffect, <1>14 DEF GraphRaises, SetError, Goto, bookVars
<1>15. ASSUME NEW r \in Runs, GraphRaisesLocked(r)
      PROVE  OlderSettled'
  BY <1>15 DEF GraphRaisesLocked, Goto, recordVars, storeVars, bookVars
<1>16. ASSUME NEW r \in Runs, Fail(r)
      PROVE  OlderSettled'
  BY PersistEffect, <1>16 DEF Fail, SetError, Goto, bookVars
<1>17. ASSUME NEW r \in Runs, FailCancelled(r)
      PROVE  OlderSettled'
  BY <1>17 DEF FailCancelled, Goto, recordVars, storeVars, bookVars
<1>18. ASSUME NEW r \in Runs, CleanUp(r)
      PROVE  OlderSettled'
  BY PersistEffect, <1>18 DEF CleanUp, SetFinalizing, Goto, AbortStatus, bookVars
<1>19. ASSUME NEW r \in Runs, Restore(r)
      PROVE  OlderSettled'
  <2> HIDE DEF TypeOK, NoOutcomeYet, RecordInv, RecordOK, OlderInactive, OlderSettled, PastWait
  <2>1. /\ fin' = fin /\ unborn' = unborn /\ pc' = [pc EXCEPT ![r] = "complete"]
        /\ \A q \in Runs : q # r => captured'[q] = captured[q]
    BY <1>19 DEF Restore, Goto, recordVars, TypeOK
  <2> QED
    BY <2>1 DEF TypeOK, OlderSettled, PastWait
<1>20. ASSUME NEW r \in Runs, Complete(r)
      PROVE  OlderSettled'
  BY <1>20 DEF Complete, Goto, recordVars, bookVars
<1>21. ASSUME NEW r \in Runs, Title(r)
      PROVE  OlderSettled'
  BY <1>21 DEF Title, Goto, recordVars, storeVars, bookVars
<1>22. ASSUME NEW r \in Runs, TitleSkipped(r)
      PROVE  OlderSettled'
  BY <1>22 DEF TitleSkipped, Goto, recordVars, storeVars, bookVars
<1>23. ASSUME NEW r \in Runs, TitleRead(r)
      PROVE  OlderSettled'
  BY <1>23 DEF TitleRead, Goto, recordVars, storeVars, bookVars
<1>24. ASSUME NEW r \in Runs, TitlePut(r)
      PROVE  OlderSettled'
  BY <1>24 DEF TitlePut, Goto, recordVars, bookVars
<1>25. ASSUME NEW r \in Runs, Close(r)
      PROVE  OlderSettled'
  BY <1>25 DEF Close, SetFinalizing, Goto, storeVars, bookVars
<1>26. CASE ShutDown
  BY <1>26 DEF ShutDown, TaskActive, storeVars, bookVars
<1>27. CASE Exit
  BY <1>27 DEF Exit, Forget, bookVars
<1>28. CASE Crash
  BY <1>28 DEF Crash, Forget, Fault
<1>29. CASE Recover
  BY <1>29 DEF Recover, Fault, Orphans, recordVars, workerVars
<1>30. CASE UNCHANGED vars
  BY <1>30 DEF vars, recordVars, workerVars, storeVars, bookVars
<1> HIDE DEF TypeOK, NoOutcomeYet, RecordInv, RecordOK, Unmarked, Untouched, Beside, CutShort, Drained, OlderInactive, Alone, Admitted, OlderSettled, PastWait, PriorFinalizing, Active, Terminal, TaskPCs, PCs, Trying, Runs
<1> QED
  BY <1>1, <1>2, <1>3, <1>4, <1>5, <1>6, <1>7, <1>8, <1>9, <1>10, <1>11, <1>12, <1>13, <1>14, <1>15, <1>16, <1>17, <1>18, <1>19, <1>20, <1>21, <1>22, <1>23, <1>24, <1>25, <1>26, <1>27, <1>28, <1>29, <1>30 DEF Next, Work

LEMMA StepRow == TypeOK /\ NoOutcomeYet /\ RecordInv /\ RowInv /\ [Next]_vars => RowInv'
<1> SUFFICES ASSUME TypeOK, NoOutcomeYet, RecordInv, RowInv, [Next]_vars
             PROVE  RowInv'
  OBVIOUS
<1> USE DEF TypeOK, NoOutcomeYet, RecordInv, RecordOK, Unmarked, Untouched, Beside, CutShort, Drained, RowInv, Active, Terminal, TaskPCs, PCs, Trying
<1>1. ASSUME NEW r \in Runs, NEW s \in Strategies, Request(r, s)
      PROVE  RowInv'
  BY <1>1 DEF Request, Early, Fault, Goto, storeVars, bookVars
<1>2. ASSUME NEW r \in Runs, NEW a \in {"interrupt", "rollback"}, Cancel(r, a)
      PROVE  RowInv'
  BY <1>2 DEF Cancel, Early, Fault, SetFinalizing, TaskActive, Cancellable, bookVars
<1>3. ASSUME NEW r \in Runs, Admit(r)
      PROVE  RowInv'
  BY <1>3 DEF Admit, Goto, Cut, TaskActive, bookVars
<1>4. ASSUME NEW r \in Runs, Refuse(r)
      PROVE  RowInv'
  BY <1>4 DEF Refuse, Goto, Fault
<1>5. ASSUME NEW r \in Runs, Launch(r)
      PROVE  RowInv'
  BY <1>5 DEF Launch, Goto, recordVars, storeVars, bookVars
<1>6. ASSUME NEW r \in Runs, LaunchFails(r)
      PROVE  RowInv'
  BY <1>6 DEF LaunchFails, Goto, Fault, recordVars, storeVars
<1>7. ASSUME NEW r \in Runs, PersistLate(r)
      PROVE  RowInv'
  BY PersistEffect, <1>7 DEF PersistLate, recordVars, workerVars, bookVars
<1>8. ASSUME NEW r \in Runs, Begin(r)
      PROVE  RowInv'
  BY <1>8 DEF Begin, Goto, recordVars, storeVars, bookVars
<1>9. ASSUME NEW r \in Runs, NeverRuns(r)
      PROVE  RowInv'
  BY <1>9 DEF NeverRuns, Goto, recordVars, storeVars, bookVars
<1>10. ASSUME NEW r \in Runs, Proceed(r)
      PROVE  RowInv'
  BY PersistEffect, <1>10 DEF Proceed, Goto, bookVars
<1>11. ASSUME NEW r \in Runs, Snapshot(r)
      PROVE  RowInv'
  BY <1>11 DEF Snapshot, Goto, Fault, recordVars, storeVars
<1>12. ASSUME NEW r \in Runs, Turn(r)
      PROVE  RowInv'
  BY <1>12 DEF Turn, recordVars, bookVars
<1>13. ASSUME NEW r \in Runs, GraphEnds(r)
      PROVE  RowInv'
  <2>1. PICK s \in {"success", "error"} : status' = [status EXCEPT ![r] = s] /\ Persist(r, s)
    BY <1>13 DEF GraphEnds
  <2>2. QED
    BY PersistEffect, <1>13, <2>1 DEF GraphEnds, Goto, bookVars
<1>14. ASSUME NEW r \in Runs, GraphRaises(r)
      PROVE  RowInv'
  BY PersistEffect, <1>14 DEF GraphRaises, SetError, Goto, bookVars
<1>15. ASSUME NEW r \in Runs, GraphRaisesLocked(r)
      PROVE  RowInv'
  BY <1>15 DEF GraphRaisesLocked, Goto, recordVars, storeVars, bookVars
<1>16. ASSUME NEW r \in Runs, Fail(r)
      PROVE  RowInv'
  BY PersistEffect, <1>16 DEF Fail, SetError, Goto, bookVars
<1>17. ASSUME NEW r \in Runs, FailCancelled(r)
      PROVE  RowInv'
  BY <1>17 DEF FailCancelled, Goto, recordVars, storeVars, bookVars
<1>18. ASSUME NEW r \in Runs, CleanUp(r)
      PROVE  RowInv'
  BY PersistEffect, <1>18 DEF CleanUp, SetFinalizing, Goto, AbortStatus, bookVars
<1>19. ASSUME NEW r \in Runs, Restore(r)
      PROVE  RowInv'
  BY <1>19 DEF Restore, Restored, Goto, Fault, recordVars
<1>20. ASSUME NEW r \in Runs, Complete(r)
      PROVE  RowInv'
  BY <1>20 DEF Complete, Goto, recordVars, bookVars
<1>21. ASSUME NEW r \in Runs, Title(r)
      PROVE  RowInv'
  BY <1>21 DEF Title, Goto, recordVars, storeVars, bookVars
<1>22. ASSUME NEW r \in Runs, TitleSkipped(r)
      PROVE  RowInv'
  BY <1>22 DEF TitleSkipped, Goto, recordVars, storeVars, bookVars
<1>23. ASSUME NEW r \in Runs, TitleRead(r)
      PROVE  RowInv'
  BY <1>23 DEF TitleRead, Goto, recordVars, storeVars, bookVars
<1>24. ASSUME NEW r \in Runs, TitlePut(r)
      PROVE  RowInv'
  BY <1>24 DEF TitlePut, Goto, recordVars, bookVars
<1>25. ASSUME NEW r \in Runs, Close(r)
      PROVE  RowInv'
  BY <1>25 DEF Close, SetFinalizing, Goto, storeVars, bookVars
<1>26. CASE ShutDown
  BY <1>26 DEF ShutDown, TaskActive, storeVars, bookVars
<1>27. CASE Exit
  BY <1>27 DEF Exit, Forget, bookVars
<1>28. CASE Crash
  BY <1>28 DEF Crash, Forget, Fault
<1>29. CASE Recover
  BY <1>29 DEF Recover, Fault, Orphans, recordVars, workerVars
<1>30. CASE UNCHANGED vars
  BY <1>30 DEF vars, recordVars, workerVars, storeVars, bookVars
<1> HIDE DEF TypeOK, NoOutcomeYet, RecordInv, RecordOK, Unmarked, Untouched, Beside, CutShort, Drained, RowInv, Active, Terminal, TaskPCs, PCs, Trying
<1> QED
  BY <1>1, <1>2, <1>3, <1>4, <1>5, <1>6, <1>7, <1>8, <1>9, <1>10, <1>11, <1>12, <1>13, <1>14, <1>15, <1>16, <1>17, <1>18, <1>19, <1>20, <1>21, <1>22, <1>23, <1>24, <1>25, <1>26, <1>27, <1>28, <1>29, <1>30 DEF Next, Work

-----------------------------------------------------------------------------
(* The theorems *)

LEMMA InitIInv == Init => IInv
  BY InitType DEF Init, IInv, OrderInv, NoOutcomeYet, RecordInv, RecordOK, ModeOK,
     Unmarked, Untouched, OlderInactive, Alone, Admitted, OlderSettled, PastWait, RowInv, Active, Trying

LEMMA StepIInv == IInv /\ [Next]_vars => IInv'
  BY StepType, StepOrder, StepNoOutcome, StepRecord, StepOlderInactive, StepOlderSettled, StepRow
     DEF IInv

\* The manager's records, the tasks and the rows agree as IInv says, however
\* early runs are cancelled.
THEOREM Invariance == Spec => []IInv
<1>1. IInv /\ [Next]_vars => IInv'
  BY StepIInv
<1> QED
  BY InitIInv, <1>1, PTL DEF Spec

\* A thread has one active run (create_or_reject), for any number of runs,
\* cancellations, failed writes and restarts, but for those that were cancelled
\* before they had a task, which run beside newer ones.
THEOREM OneActiveRun == Spec => []OneActive
<1>1. IInv => OneActive
  <2> SUFFICES ASSUME IInv, NEW q \in Runs, NEW r \in Runs,
                      status[q] \in Active, status[r] \in Active, q < r, q \notin unborn
               PROVE  pc[r] = "put"
    BY DEF OneActive
  <2>1. ~Alone(r)
    BY DEF IInv, OlderInactive
  <2>2. pc[r] \notin {"none", "refused", "lost"}
    BY DEF IInv, RecordInv, RecordOK, NoOutcomeYet, Active
  <2> QED
    BY <2>1, <2>2 DEF Alone, Admitted
<1> QED
  BY Invariance, <1>1, PTL

LEMMA WritersAlone == IInv => OneWriter
<1>1. ASSUME IInv, NEW q \in Runs, NEW r \in Runs, q < r, Writing(r), q \notin unborn
      PROVE  ~Writing(q)
  <2>1. PastWait(r) /\ Alone(r)
    BY <1>1 DEF Writing, PastWait, Alone, Admitted
  <2>2. q \notin fin /\ status[q] \notin Active
    BY <1>1, <2>1 DEF IInv, OlderSettled, OlderInactive
  <2>3. RecordOK(q)
    BY <1>1 DEF IInv, RecordInv
  <2> QED
    BY <2>2, <2>3 DEF Writing, RecordOK, Trying, CutShort, Drained
<1> QED
  BY <1>1 DEF OneWriter

\* One run at a time works on the checkpoint of the thread: the hand-over from
\* a cancelled run to the one that cut it (wait_for_prior_finalizing), unless
\* the older of the two was cancelled before it had a task.
THEOREM OneWriterAtATime == Spec => []OneWriter
  BY Invariance, WritersAlone, PTL

\* The rows of the run store that say "pending" or "running" are those of runs
\* this process owns, unless a write failed (_persist_status,
\* reconcile_orphaned_inflight_runs).
THEOREM ActiveRowsOwned == Spec => []ActiveRowsAreOwned
<1>1. IInv => ActiveRowsAreOwned
  BY DEF IInv, RowInv, RecordInv, RecordOK, ActiveRowsAreOwned, Active, TaskPCs, Trying
<1> QED
  BY Invariance, <1>1, PTL

\* Runs that came to their end are no longer waited for, whatever they were cut
\* or cancelled by (set_finalizing in run_agent's finally block).
THEOREM DoneLetsGo == Spec => []DoneIsNotFinalizing
<1>1. IInv => DoneIsNotFinalizing
  BY DEF IInv, RecordInv, RecordOK, DoneIsNotFinalizing
<1> QED
  BY Invariance, <1>1, PTL

\* The status of a run that succeeded or failed is final, and that however
\* early runs are cancelled (RunManager.cancel, create_or_reject).
THEOREM OutcomeIsFinal == Spec => OutcomeStays
<1> DEFINE Inv == TypeOK /\ OrderInv /\ NoOutcomeYet
<1>1. Init => Inv
  BY InitIInv DEF IInv
<1>2. Inv /\ [Next]_vars => Inv'
  BY StepType, StepOrder, StepNoOutcome
<1> DEFINE Final == \A r \in Runs :
       status[r] \in {"success", "error"} => status'[r] \in {status[r], "none"}
<1>3. ASSUME Inv, [Next]_vars
      PROVE  [Final]_status
  <2> SUFFICES ASSUME NEW q \in Runs, status[q] \in {"success", "error"}
               PROVE  status'[q] \in {status[q], "none"}
    OBVIOUS
  <2>1. ASSUME NEW r \in Runs, NEW s \in Strategies, Request(r, s)
        PROVE  status'[q] \in {status[q], "none"}
    BY <1>3, <2>1 DEF Request, Inv, TypeOK, NoOutcomeYet, Active, Trying
  <2>2. ASSUME NEW r \in Runs, NEW a \in {"interrupt", "rollback"}, Cancel(r, a)
        PROVE  status'[q] \in {status[q], "none"}
    BY <1>3, <2>2 DEF Cancel, Early, Fault, SetFinalizing, TaskActive, Cancellable, Inv, TypeOK, NoOutcomeYet, Active, Trying
  <2>3. ASSUME NEW r \in Runs, Admit(r)
        PROVE  status'[q] \in {status[q], "none"}
    BY <1>3, <2>3 DEF Admit, Cut, TaskActive, Inv, TypeOK, NoOutcomeYet, Active, Trying
  <2>4. ASSUME NEW r \in Runs, Refuse(r)
        PROVE  status'[q] \in {status[q], "none"}
    BY <1>3, <2>4 DEF Refuse, Inv, TypeOK, NoOutcomeYet, Active, Trying
  <2>5. ASSUME NEW r \in Runs, Launch(r)
        PROVE  status'[q] \in {status[q], "none"}
    BY <1>3, <2>5 DEF Launch, recordVars, Inv, TypeOK, NoOutcomeYet, Active, Trying
  <2>6. ASSUME NEW r \in Runs, LaunchFails(r)
        PROVE  status'[q] \in {status[q], "none"}
    BY <1>3, <2>6 DEF LaunchFails, recordVars, Inv, TypeOK, NoOutcomeYet, Active, Trying
  <2>7. ASSUME NEW r \in Runs, PersistLate(r)
        PROVE  status'[q] \in {status[q], "none"}
    BY <1>3, <2>7 DEF PersistLate, recordVars, Inv, TypeOK, NoOutcomeYet, Active, Trying
  <2>8. ASSUME NEW r \in Runs, Begin(r)
        PROVE  status'[q] \in {status[q], "none"}
    BY <1>3, <2>8 DEF Begin, recordVars, Inv, TypeOK, NoOutcomeYet, Active, Trying
  <2>9. ASSUME NEW r \in Runs, NeverRuns(r)
        PROVE  status'[q] \in {status[q], "none"}
    BY <1>3, <2>9 DEF NeverRuns, recordVars, Inv, TypeOK, NoOutcomeYet, Active, Trying
  <2>10. ASSUME NEW r \in Runs, Proceed(r)
        PROVE  status'[q] \in {status[q], "none"}
    BY <1>3, <2>10 DEF Proceed, Inv, TypeOK, NoOutcomeYet, Active, Trying
  <2>11. ASSUME NEW r \in Runs, Snapshot(r)
        PROVE  status'[q] \in {status[q], "none"}
    BY <1>3, <2>11 DEF Snapshot, recordVars, Inv, TypeOK, NoOutcomeYet, Active, Trying
  <2>12. ASSUME NEW r \in Runs, Turn(r)
        PROVE  status'[q] \in {status[q], "none"}
    BY <1>3, <2>12 DEF Turn, recordVars, Inv, TypeOK, NoOutcomeYet, Active, Trying
  <2>13. ASSUME NEW r \in Runs, GraphEnds(r)
        PROVE  status'[q] \in {status[q], "none"}
    BY <1>3, <2>13 DEF GraphEnds, Inv, TypeOK, NoOutcomeYet, Active, Trying
  <2>14. ASSUME NEW r \in Runs, GraphRaises(r)
        PROVE  status'[q] \in {status[q], "none"}
    BY <1>3, <2>14 DEF GraphRaises, SetError, Inv, TypeOK, NoOutcomeYet, Active, Trying
  <2>15. ASSUME NEW r \in Runs, GraphRaisesLocked(r)
        PROVE  status'[q] \in {status[q], "none"}
    BY <1>3, <2>15 DEF GraphRaisesLocked, recordVars, Inv, TypeOK, NoOutcomeYet, Active, Trying
  <2>16. ASSUME NEW r \in Runs, Fail(r)
        PROVE  status'[q] \in {status[q], "none"}
    BY <1>3, <2>16 DEF Fail, SetError, Inv, TypeOK, NoOutcomeYet, Active, Trying
  <2>17. ASSUME NEW r \in Runs, FailCancelled(r)
        PROVE  status'[q] \in {status[q], "none"}
    BY <1>3, <2>17 DEF FailCancelled, recordVars, Inv, TypeOK, NoOutcomeYet, Active, Trying
  <2>18. ASSUME NEW r \in Runs, CleanUp(r)
        PROVE  status'[q] \in {status[q], "none"}
    BY <1>3, <2>18 DEF CleanUp, SetFinalizing, AbortStatus, Trying, Inv, TypeOK, NoOutcomeYet, Active
  <2>19. ASSUME NEW r \in Runs, Restore(r)
        PROVE  status'[q] \in {status[q], "none"}
    BY <1>3, <2>19 DEF Restore, Restored, recordVars, Inv, TypeOK, NoOutcomeYet, Active, Trying
  <2>20. ASSUME NEW r \in Runs, Complete(r)
        PROVE  status'[q] \in {status[q], "none"}
    BY <1>3, <2>20 DEF Complete, recordVars, Inv, TypeOK, NoOutcomeYet, Active, Trying
  <2>21. ASSUME NEW r \in Runs, Title(r)
        PROVE  status'[q] \in {status[q], "none"}
    BY <1>3, <2>21 DEF Title, recordVars, Inv, TypeOK, NoOutcomeYet, Active, Trying
  <2>22. ASSUME NEW r \in Runs, TitleSkipped(r)
        PROVE  status'[q] \in {status[q], "none"}
    BY <1>3, <2>22 DEF TitleSkipped, recordVars, Inv, TypeOK, NoOutcomeYet, Active, Trying
  <2>23. ASSUME NEW r \in Runs, TitleRead(r)
        PROVE  status'[q] \in {status[q], "none"}
    BY <1>3, <2>23 DEF TitleRead, recordVars, Inv, TypeOK, NoOutcomeYet, Active, Trying
  <2>24. ASSUME NEW r \in Runs, TitlePut(r)
        PROVE  status'[q] \in {status[q], "none"}
    BY <1>3, <2>24 DEF TitlePut, recordVars, Inv, TypeOK, NoOutcomeYet, Active, Trying
  <2>25. ASSUME NEW r \in Runs, Close(r)
        PROVE  status'[q] \in {status[q], "none"}
    BY <1>3, <2>25 DEF Close, SetFinalizing, Inv, TypeOK, NoOutcomeYet, Active, Trying
  <2>26. CASE ShutDown
    BY <1>3, <2>26 DEF ShutDown, TaskActive, Inv, TypeOK, NoOutcomeYet, Active, Trying
  <2>27. CASE Exit
    BY <1>3, <2>27 DEF Exit, Forget, Inv, TypeOK, NoOutcomeYet, Active, Trying
  <2>28. CASE Crash
    BY <1>3, <2>28 DEF Crash, Forget, Inv, TypeOK, NoOutcomeYet, Active, Trying
  <2>29. CASE Recover
    BY <1>3, <2>29 DEF Recover, Orphans, recordVars, Inv, TypeOK, NoOutcomeYet, Active, Trying
  <2>30. CASE UNCHANGED vars
    BY <2>30 DEF vars, recordVars
  <2> QED
    BY <1>3, <2>1, <2>2, <2>3, <2>4, <2>5, <2>6, <2>7, <2>8, <2>9, <2>10, <2>11, <2>12, <2>13, <2>14, <2>15, <2>16, <2>17, <2>18, <2>19, <2>20, <2>21, <2>22, <2>23, <2>24, <2>25, <2>26, <2>27, <2>28, <2>29, <2>30 DEF Next, Work
<1> QED
  BY <1>1, <1>2, <1>3, PTL DEF Spec, OutcomeStays

-----------------------------------------------------------------------------
(* The checkpoint *)

\* A step of which the checkpoint and what runs read of it know nothing.
Calm ==
  /\ UNCHANGED <<ckpt, captured, snap, base>>
  /\ \A r \in Runs :
       /\ pc'[r] \in {"graph", "title_put"} => pc'[r] = pc[r]
       /\ pc'[r] = "restore" => pc[r] \in {"graph", "restore"} \/ captured[r] = "no"
       /\ pc[r] = "lost" => pc'[r] = "lost"
       /\ RolledBack(r)' => RolledBack(r)

LEMMA CalmKeeps == CheckpointInv /\ Calm => CheckpointInv'
<1> SUFFICES ASSUME CheckpointInv, Calm, NEW r \in Runs
             PROVE  (SnapshotOK(r) /\ NotWrittenYet(r) /\ Gone(r))'
  BY DEF CheckpointInv
<1>0. /\ SnapshotOK(r) /\ NotWrittenYet(r) /\ Gone(r)
      /\ \A q \in Runs : SnapshotOK(q) /\ NotWrittenYet(q)
  BY DEF CheckpointInv
<1>1. SnapshotOK(r)'
  BY <1>0 DEF Calm, SnapshotOK
<1>2. NotWrittenYet(r)'
  BY <1>0 DEF Calm, NotWrittenYet
<1>3. Gone(r)'
  BY <1>0 DEF Calm, Gone, SnapshotOK
<1> QED
  BY <1>1, <1>2, <1>3

\* The facts of the other invariants that steps on the checkpoint need.
Steady == TypeOK /\ NoOutcomeYet /\ RecordInv /\ OneWriter /\ unborn = {}

LEMMA CalmStep ==
  ASSUME Steady, CheckpointInv, [Next]_vars
  PROVE  \/ Calm
         \/ \E r \in Runs : \/ Snapshot(r) \/ Turn(r) \/ Restore(r)
                           \/ TitleRead(r) \/ TitlePut(r) \/ Close(r)
         \/ Exit \/ Crash
<1> USE DEF Steady, TypeOK, RolledBack
<1>1. ASSUME NEW r \in Runs, NEW s \in Strategies, Request(r, s)
      PROVE  Calm
  BY <1>1 DEF Calm, Request, Goto, storeVars, bookVars
<1>2. ASSUME NEW r \in Runs, NEW a \in {"interrupt", "rollback"}, Cancel(r, a)
      PROVE  Calm
  BY <1>2 DEF Calm, Cancel, Cancellable, Active
<1>3. ASSUME NEW r \in Runs, Admit(r)
      PROVE  Calm
  BY <1>3 DEF Calm, Admit, Goto, Cut, Active
<1>4. ASSUME NEW r \in Runs, Refuse(r)
      PROVE  Calm
  BY <1>4 DEF Calm, Refuse, Goto
<1>5. ASSUME NEW r \in Runs, Launch(r)
      PROVE  Calm
  BY <1>5 DEF Calm, Launch, Goto, recordVars, storeVars
<1>6. ASSUME NEW r \in Runs, LaunchFails(r)
      PROVE  Calm
  BY <1>6 DEF Calm, LaunchFails, Goto, recordVars, storeVars
<1>7. ASSUME NEW r \in Runs, PersistLate(r)
      PROVE  Calm
  BY <1>7 DEF Calm, PersistLate, recordVars, workerVars
<1>8. ASSUME NEW r \in Runs, Begin(r)
      PROVE  Calm
  BY <1>8 DEF Calm, Begin, Goto, recordVars, storeVars
<1>9. ASSUME NEW r \in Runs, NeverRuns(r)
      PROVE  Calm
  BY <1>9 DEF Calm, NeverRuns, Goto, recordVars, storeVars
<1>10. ASSUME NEW r \in Runs, Proceed(r)
      PROVE  Calm
  BY <1>10 DEF Calm, Proceed, Goto
<1>13. ASSUME NEW r \in Runs, GraphEnds(r)
      PROVE  Calm
  BY <1>13 DEF Calm, GraphEnds, Goto, RecordInv
<1>14. ASSUME NEW r \in Runs, GraphRaises(r)
      PROVE  Calm
  BY <1>14 DEF Calm, GraphRaises, SetError, Goto, RecordInv, RecordOK, Unmarked, Untouched, Beside, CutShort, Drained, Trying
<1>15. ASSUME NEW r \in Runs, GraphRaisesLocked(r)
      PROVE  Calm
  BY <1>15 DEF Calm, GraphRaisesLocked, Goto, recordVars, storeVars
<1>16. ASSUME NEW r \in Runs, Fail(r)
      PROVE  Calm
  BY <1>16 DEF Calm, Fail, SetError, Goto, RecordInv, RecordOK, Unmarked, Untouched, Beside, CutShort
<1>17. ASSUME NEW r \in Runs, FailCancelled(r)
      PROVE  Calm
  BY <1>17 DEF Calm, FailCancelled, Goto, recordVars, storeVars, NoOutcomeYet, Active
<1>18. ASSUME NEW r \in Runs, CleanUp(r)
      PROVE  Calm
  BY <1>18 DEF Calm, CleanUp, Goto, AbortStatus, NoOutcomeYet, Trying
<1>20. ASSUME NEW r \in Runs, Complete(r)
      PROVE  Calm
  BY <1>20 DEF Calm, Complete, Goto, recordVars
<1>21. ASSUME NEW r \in Runs, Title(r)
      PROVE  Calm
  BY <1>21 DEF Calm, Title, Goto, recordVars, storeVars, RecordInv, RecordOK
<1>22. ASSUME NEW r \in Runs, TitleSkipped(r)
      PROVE  Calm
  BY <1>22 DEF Calm, TitleSkipped, Goto, recordVars, storeVars, RecordInv, RecordOK
<1>26. CASE ShutDown
  BY <1>26 DEF Calm, ShutDown, TaskActive, storeVars, Active
<1>29. CASE Recover
  BY <1>29 DEF Calm, Recover, recordVars, workerVars
<1>30. CASE UNCHANGED vars
  BY <1>30 DEF Calm, vars, recordVars, workerVars, storeVars
<1> HIDE DEF Steady, TypeOK, RolledBack
<1> QED
  BY <1>1, <1>2, <1>3, <1>4, <1>5, <1>6, <1>7, <1>8, <1>9, <1>10, <1>13, <1>14, <1>15, <1>16, <1>17, <1>18, <1>20, <1>21, <1>22, <1>26, <1>29, <1>30 DEF Next, Work

LEMMA SnapshotKeeps ==
  ASSUME Steady, CheckpointInv, NEW p \in Runs, Snapshot(p)
  PROVE  CheckpointInv'
<1> SUFFICES ASSUME NEW r \in Runs
             PROVE  (SnapshotOK(r) /\ NotWrittenYet(r) /\ Gone(r))'
  BY DEF CheckpointInv
<1>1. /\ \A q \in Runs : SnapshotOK(q) /\ NotWrittenYet(q) /\ Gone(q)
      /\ captured[p] = "no" /\ pc[p] = "snapshot"
      /\ UNCHANGED <<ckpt, status, action>>
      /\ base' = [base EXCEPT ![p] = ckpt]
      /\ pc' = [pc EXCEPT ![p] = "graph"]
      /\ \/ captured' = [captured EXCEPT ![p] = "yes"] /\ snap' = [snap EXCEPT ![p] = ckpt]
         \/ captured' = [captured EXCEPT ![p] = "failed"] /\ snap' = snap
  BY DEF CheckpointInv, Snapshot, Goto, Steady, NoOutcomeYet, recordVars, storeVars
<1>2. p \notin ckpt
  BY <1>1 DEF NotWrittenYet
<1>3. SnapshotOK(r)'
  BY <1>1, <1>2 DEF SnapshotOK, Steady, TypeOK
<1>4. NotWrittenYet(r)'
  BY <1>1 DEF NotWrittenYet, Steady, TypeOK
<1>5. Gone(r)'
  BY <1>1 DEF Gone, RolledBack, Steady, TypeOK
<1> QED
  BY <1>3, <1>4, <1>5

\* While no run is unborn, a writer has no other beside it.
LEMMA WriterAlone ==
  ASSUME OneWriter, unborn = {}, NEW p \in Runs, Writing(p)
  PROVE  \A q \in Runs : q # p => ~Writing(q)
<1> SUFFICES ASSUME NEW q \in Runs, q # p
             PROVE  ~Writing(q)
  OBVIOUS
<1>1. q < p \/ p < q
  BY DEF Runs
<1> QED
  BY <1>1 DEF OneWriter

LEMMA TurnKeeps ==
  ASSUME Steady, CheckpointInv, NEW p \in Runs, Turn(p)
  PROVE  CheckpointInv' /\ ckpt \subseteq ckpt'
<1>1. /\ \A q \in Runs : SnapshotOK(q) /\ NotWrittenYet(q) /\ Gone(q)
      /\ pc[p] = "graph"
      /\ UNCHANGED <<status, action, pc, captured, snap>>
      /\ base' = [base EXCEPT ![p] = base[p] \cup {p}]
      /\ ckpt' = base[p] \cup {p}
  BY DEF CheckpointInv, Turn, recordVars
<1>2. captured[p] # "no" /\ ckpt \subseteq base[p]
  BY <1>1 DEF SnapshotOK
<1>3. \A q \in Runs : q # p => ~Writing(q)
  <2>1. Writing(p)
    BY <1>1 DEF Writing
  <2> QED
    BY <2>1, WriterAlone DEF Steady
<1>4. ASSUME NEW r \in Runs
      PROVE  SnapshotOK(r)'
  BY <1>1, <1>3 DEF SnapshotOK, Writing, Steady, TypeOK
<1>5. ASSUME NEW r \in Runs
      PROVE  NotWrittenYet(r)'
  BY <1>1, <1>2 DEF NotWrittenYet, Steady, TypeOK
<1>6. ASSUME NEW r \in Runs
      PROVE  Gone(r)'
  BY <1>1 DEF Gone, RolledBack, Steady, TypeOK
<1> QED
  BY <1>1, <1>2, <1>4, <1>5, <1>6 DEF CheckpointInv

LEMMA RestoreKeeps ==
  ASSUME Steady, CheckpointInv, NEW p \in Runs, Restore(p)
  PROVE  /\ CheckpointInv'
         /\ captured[p] # "no" => ckpt \ {p} \subseteq ckpt'
<1>1. /\ \A q \in Runs : SnapshotOK(q) /\ NotWrittenYet(q) /\ Gone(q)
      /\ pc[p] = "restore"
      /\ UNCHANGED <<status, action, snap, base>>
      /\ pc' = [pc EXCEPT ![p] = "complete"]
      /\ \/ ckpt' = Restored(p) /\ captured' = captured
         \/ ckpt' = ckpt /\ captured' = [captured EXCEPT ![p] = "failed"]
  BY DEF CheckpointInv, Restore, Goto, recordVars
<1>2. captured[p] = "yes" => \A q \in Runs : q # p => ~Writing(q)
  <2>1. captured[p] = "yes" => Writing(p)
    BY <1>1 DEF Writing
  <2> QED
    BY <2>1, WriterAlone DEF Steady
<1>3. \/ ckpt' = ckpt
      \/ captured[p] = "no" /\ ckpt' = {}
      \/ captured[p] = "yes" /\ ckpt' = snap[p]
  BY <1>1 DEF Restored, SnapshotOK, Steady, TypeOK
<1>4. ASSUME NEW r \in Runs
      PROVE  SnapshotOK(r)'
  BY <1>1, <1>2, <1>3 DEF SnapshotOK, Writing, Steady, TypeOK
<1>5. ASSUME NEW r \in Runs
      PROVE  NotWrittenYet(r)'
  BY <1>1, <1>3 DEF NotWrittenYet, Steady, TypeOK
<1>6. ASSUME NEW r \in Runs, RolledBack(r)'
      PROVE  Gone(r)'
  <2>1. CASE r # p
    <3>1. RolledBack(r)
      BY <1>1, <1>6, <2>1 DEF RolledBack, Steady, TypeOK
    <3> QED
      BY <1>1, <1>3, <2>1, <3>1 DEF Gone, Steady, TypeOK
  <2>2. CASE r = p
    <3>1. captured[p] = "yes" /\ ckpt' = snap[p] /\ p \notin snap[p]
      BY <1>1, <1>6, <2>2 DEF RolledBack, Restored, SnapshotOK, Steady, TypeOK
    <3>2. ASSUME NEW q \in Runs
          PROVE  /\ pc'[q] \notin {"graph", "title_put"}
                 /\ ~(pc'[q] = "restore" /\ captured'[q] = "yes")
      BY <1>1, <1>2, <3>1 DEF Writing, Steady, TypeOK
    <3> QED
      BY <1>1, <2>2, <3>1, <3>2 DEF Gone
  <2> QED
    BY <2>1, <2>2
<1>7. captured[p] # "no" => ckpt \ {p} \subseteq ckpt'
  BY <1>1, <1>3 DEF SnapshotOK
<1> QED
  BY <1>4, <1>5, <1>6, <1>7 DEF CheckpointInv, Gone

LEMMA TitleReadKeeps ==
  ASSUME Steady, CheckpointInv, NEW p \in Runs, TitleRead(p)
  PROVE  CheckpointInv'
<1>1. /\ \A q \in Runs : SnapshotOK(q) /\ NotWrittenYet(q) /\ Gone(q)
      /\ UNCHANGED <<ckpt, status, action, captured, snap>>
      /\ base' = [base EXCEPT ![p] = ckpt]
      /\ pc[p] = "title_read" /\ pc' = [pc EXCEPT ![p] = "title_put"]
  BY DEF CheckpointInv, TitleRead, Goto, recordVars, storeVars
<1>2. ASSUME NEW r \in Runs
      PROVE  SnapshotOK(r)' /\ NotWrittenYet(r)'
  BY <1>1 DEF SnapshotOK, NotWrittenYet, Steady, TypeOK
<1>3. ASSUME NEW r \in Runs
      PROVE  Gone(r)'
  BY <1>1 DEF Gone, RolledBack, Steady, TypeOK
<1> QED
  BY <1>2, <1>3 DEF CheckpointInv

LEMMA TitlePutKeeps ==
  ASSUME Steady, CheckpointInv, NEW p \in Runs, TitlePut(p)
  PROVE  CheckpointInv' /\ ckpt \subseteq ckpt'
<1>1. /\ \A q \in Runs : SnapshotOK(q) /\ NotWrittenYet(q) /\ Gone(q)
      /\ UNCHANGED <<status, action, captured, snap, base>>
      /\ ckpt' = base[p]
      /\ pc[p] = "title_put" /\ pc' = [pc EXCEPT ![p] = "close"]
      /\ status[p] = "interrupted"
  BY DEF CheckpointInv, TitlePut, Goto, recordVars, Steady, RecordInv, RecordOK
<1>2. \A q \in Runs : q # p => ~Writing(q)
  <2>1. Writing(p)
    BY <1>1 DEF Writing
  <2> QED
    BY <2>1, WriterAlone DEF Steady
<1>3. ASSUME NEW r \in Runs
      PROVE  SnapshotOK(r)'
  BY <1>1, <1>2 DEF SnapshotOK, Writing, Steady, TypeOK
<1>4. ASSUME NEW r \in Runs
      PROVE  NotWrittenYet(r)'
  BY <1>1 DEF NotWrittenYet, Steady, TypeOK
<1>5. ASSUME NEW r \in Runs
      PROVE  Gone(r)'
  BY <1>1 DEF Gone, RolledBack, Steady, TypeOK
<1> QED
  BY <1>1, <1>3, <1>4, <1>5 DEF CheckpointInv, SnapshotOK

LEMMA CloseKeeps ==
  ASSUME Steady, CheckpointInv, NEW p \in Runs, Close(p)
  PROVE  CheckpointInv'
<1>1. /\ \A q \in Runs : SnapshotOK(q) /\ NotWrittenYet(q) /\ Gone(q)
      /\ UNCHANGED <<ckpt, status, action, captured>>
      /\ snap' = [snap EXCEPT ![p] = {}] /\ base' = [base EXCEPT ![p] = {}]
      /\ pc[p] = "close" /\ pc' = [pc EXCEPT ![p] = "done"]
  BY DEF CheckpointInv, Close, Goto, storeVars
<1>2. ASSUME NEW r \in Runs
      PROVE  SnapshotOK(r)' /\ NotWrittenYet(r)'
  BY <1>1 DEF SnapshotOK, NotWrittenYet, Steady, TypeOK
<1>3. ASSUME NEW r \in Runs
      PROVE  Gone(r)'
  BY <1>1 DEF Gone, RolledBack, Steady, TypeOK
<1> QED
  BY <1>2, <1>3 DEF CheckpointInv

LEMMA ForgetKeeps ==
  ASSUME Steady, CheckpointInv, Forget
  PROVE  CheckpointInv'
<1> SUFFICES ASSUME NEW r \in Runs
             PROVE  (SnapshotOK(r) /\ NotWrittenYet(r) /\ Gone(r))'
  BY DEF CheckpointInv
<1>1. /\ pc'[r] \in {"none", "lost"} /\ (pc'[r] # "lost" => pc[r] = "none")
      /\ captured'[r] = "no" /\ snap'[r] = {}
      /\ \A q \in Runs : snap'[q] = {} /\ base'[q] = {}
      /\ ckpt' = ckpt
  BY DEF Forget
<1>2. pc[r] = "none" => r \notin ckpt
  BY DEF CheckpointInv, NotWrittenYet, Steady, NoOutcomeYet
<1> QED
  BY <1>1, <1>2 DEF SnapshotOK, NotWrittenYet, Gone, RolledBack

LEMMA StepCheckpoint ==
  Steady /\ CheckpointInv /\ [Next]_vars => CheckpointInv'
<1> SUFFICES ASSUME Steady, CheckpointInv, [Next]_vars
             PROVE  CheckpointInv'
  OBVIOUS
<1>1. CASE Calm
  BY <1>1, CalmKeeps
<1>2. ASSUME NEW r \in Runs,
             \/ Snapshot(r) \/ Turn(r) \/ Restore(r)
             \/ TitleRead(r) \/ TitlePut(r) \/ Close(r)
      PROVE  CheckpointInv'
  BY <1>2, SnapshotKeeps, TurnKeeps, RestoreKeeps, TitleReadKeeps, TitlePutKeeps, CloseKeeps
<1>3. CASE Exit \/ Crash
  BY <1>3, ForgetKeeps DEF Exit, Crash
<1> QED
  BY <1>1, <1>2, <1>3, CalmStep

LEMMA SteadyIsInvariant == IInv /\ unborn = {} => Steady
  BY WritersAlone DEF IInv, Steady

\* A run that was cancelled without a task is remembered for good.
LEMMA UnbornGrows == [Next]_vars => unborn \subseteq unborn'
<1> SUFFICES ASSUME [Next]_vars
             PROVE  unborn \subseteq unborn'
  OBVIOUS
<1>1. ASSUME NEW r \in Runs,
             \/ \E s \in Strategies : Request(r, s)
             \/ \E a \in {"interrupt", "rollback"} : Cancel(r, a)
             \/ Admit(r) \/ Refuse(r) \/ Launch(r) \/ LaunchFails(r) \/ PersistLate(r)
      PROVE  unborn \subseteq unborn'
  BY <1>1 DEF Request, Cancel, Admit, Refuse, Launch, LaunchFails, PersistLate
<1>2. ASSUME NEW r \in Runs, Work(r)
      PROVE  unborn \subseteq unborn'
  BY <1>2 DEF Work, Begin, NeverRuns, Proceed, Snapshot, Turn, GraphEnds, GraphRaises,
              GraphRaisesLocked, Fail, FailCancelled, SetError, CleanUp, Restore, Complete,
              Title, TitleSkipped, TitleRead, TitlePut, Close
<1>3. CASE ShutDown \/ Exit \/ Crash \/ Recover \/ UNCHANGED vars
  BY <1>3 DEF ShutDown, Exit, Crash, Recover, Forget, vars
<1> QED
  BY <1>1, <1>2, <1>3 DEF Next

\* As long as no run was cancelled before it had a task, what runs have read
\* of the checkpoint agrees with it as CheckpointInv says, through
\* cancellations, rollbacks, failed writes and restarts.
THEOREM CheckpointInvariance == Spec => [](unborn = {} => CheckpointInv)
<1>1. Init => CheckpointInv
  BY DEF Init, CheckpointInv, SnapshotOK, NotWrittenYet, Gone, RolledBack
<1>2. IInv /\ (unborn = {} => CheckpointInv) /\ [Next]_vars => (unborn = {} => CheckpointInv)'
  <2> SUFFICES ASSUME IInv, unborn = {} => CheckpointInv, [Next]_vars, unborn' = {}
               PROVE  CheckpointInv'
    OBVIOUS
  <2>1. unborn = {}
    BY UnbornGrows
  <2> QED
    BY <2>1, StepCheckpoint, SteadyIsInvariant
<1> QED
  BY Invariance, <1>1, <1>2, PTL DEF Spec

\* A run that was rolled back never comes back into the thread, not with what
\* a later run or the title of an interrupted one writes, as long as no run was
\* cancelled before it had a task (run_agent, _rollback_to_pre_run_checkpoint,
\* _ensure_interrupted_title).
THEOREM RollbackLasts == Spec => []RolledBackIsGone
<1>1. IInv /\ (unborn = {} => CheckpointInv) => RolledBackIsGone
  <2> SUFFICES ASSUME IInv, CheckpointInv, NEW r \in Runs,
                      pc[r] \in {"complete", "close", "done"},
                      status[r] = "error", action[r] = "rollback", captured[r] # "failed"
               PROVE  r \notin ckpt
    BY DEF RolledBackIsGone
  <2>1. captured[r] \in {"no", "yes"}
    BY DEF IInv, TypeOK
  <2> QED
    BY <2>1 DEF CheckpointInv, NotWrittenYet, Gone, RolledBack
<1> QED
  BY Invariance, CheckpointInvariance, <1>1, PTL

\* No run's checkpoint drops what another run wrote, and a rollback only its
\* own run's writes, unless it has no snapshot or some run was cancelled before
\* it had a task (run_agent, the graph's writes).
THEOREM WritesOfOthersStay == Spec => OthersKept
<1> DEFINE Kept == \A q \in ckpt \ ckpt' :
                     \/ unborn # {}
                     \/ \E r \in Runs : pc[r] = "restore" /\ (q = r \/ captured[r] = "no")
<1>1. ASSUME IInv, unborn = {} => CheckpointInv, [Next]_vars
      PROVE  [Kept]_ckpt
  <2>0. CASE unborn # {}
    BY <2>0
  <2> SUFFICES ASSUME unborn = {}
               PROVE  [Kept]_ckpt
    BY <2>0
  <2> USE <1>1
  <2>1. Steady
    BY SteadyIsInvariant
  <2>2. CASE Calm
    BY <2>2 DEF Calm
  <2>3. ASSUME NEW r \in Runs, Snapshot(r) \/ TitleRead(r) \/ Close(r)
        PROVE  ckpt' = ckpt
    BY <2>3 DEF Snapshot, TitleRead, Close, storeVars
  <2>4. ASSUME NEW r \in Runs, Turn(r) \/ TitlePut(r)
        PROVE  ckpt \subseteq ckpt'
    BY <2>1, <2>4, TurnKeeps, TitlePutKeeps
  <2>5. ASSUME NEW r \in Runs, Restore(r)
        PROVE  Kept
    <3>1. pc[r] = "restore"
      BY <2>5 DEF Restore
    <3> QED
      BY <2>1, <2>5, <3>1, RestoreKeeps
  <2>6. CASE Exit \/ Crash
    BY <2>6 DEF Exit, Crash, Forget
  <2> QED
    BY <2>1, <2>2, <2>3, <2>4, <2>5, <2>6, CalmStep
<1> QED
  BY Invariance, CheckpointInvariance, <1>1, PTL DEF Spec, OthersKept

-----------------------------------------------------------------------------
(* The refinement of ThreadContents *)

\* A run that has stopped writes nothing of its own again.
LEMMA StepStopped == TypeOK /\ [Next]_vars => Stopped \subseteq Stopped'
<1> SUFFICES ASSUME TypeOK, [Next]_vars
             PROVE  Stopped \subseteq Stopped'
  OBVIOUS
<1> USE DEF TypeOK, Stopped, Goto
<1>0. ASSUME NEW r \in Runs, NEW s \in Strategies, Request(r, s)
      PROVE  Stopped \subseteq Stopped'
  <2>1. pc[r] = "none" /\ pc' = [pc EXCEPT ![r] = "put"]
    BY <1>0 DEF Request
  <2> QED
    BY <2>1
<1>1. ASSUME NEW r \in Runs, Admit(r) \/ Refuse(r) \/ Launch(r) \/ LaunchFails(r)
      PROVE  Stopped \subseteq Stopped'
  BY <1>1 DEF Admit, Refuse, Launch, LaunchFails
<1>2. ASSUME NEW r \in Runs,
             \/ Begin(r) \/ NeverRuns(r) \/ Proceed(r) \/ Snapshot(r)
             \/ GraphEnds(r) \/ GraphRaises(r) \/ GraphRaisesLocked(r)
             \/ Fail(r) \/ FailCancelled(r) \/ CleanUp(r) \/ Restore(r)
      PROVE  Stopped \subseteq Stopped'
  BY <1>2 DEF Begin, NeverRuns, Proceed, Snapshot, GraphEnds, GraphRaises, GraphRaisesLocked,
              Fail, FailCancelled, SetError, CleanUp, Restore
<1>3. ASSUME NEW r \in Runs,
             \/ Complete(r) \/ Title(r) \/ TitleSkipped(r) \/ TitleRead(r) \/ TitlePut(r) \/ Close(r)
      PROVE  Stopped \subseteq Stopped'
  BY <1>3 DEF Complete, Title, TitleSkipped, TitleRead, TitlePut, Close
<1>4. ASSUME NEW r \in Runs,
             (\E a \in {"interrupt", "rollback"} : Cancel(r, a)) \/ PersistLate(r) \/ Turn(r)
      PROVE  Stopped \subseteq Stopped'
  BY <1>4 DEF Cancel, PersistLate, Turn, workerVars
<1>5. CASE ShutDown \/ Recover \/ UNCHANGED vars
  BY <1>5 DEF ShutDown, Recover, vars, workerVars
<1>6. CASE Exit \/ Crash
  BY <1>6 DEF Exit, Crash, Forget
<1> HIDE DEF TypeOK, Stopped, Goto
<1> QED
  BY <1>0, <1>1, <1>2, <1>3, <1>4, <1>5, <1>6 DEF Next, Work

\* While a run may put back what it read, no other one may.
LEMMA HeldAlone ==
  ASSUME OneWriter, unborn = {}, NEW p \in Runs, Writing(p)
  PROVE  \A q \in Runs : q # p => Held(q) = {} /\ ~Writing(q)
  BY WriterAlone DEF Held

LEMMA DeletedShrinks ==
  ASSUME ckpt \subseteq ckpt', \A q \in Runs : Held(q)' \subseteq Held(q) \cup ckpt'
  PROVE  Deleted' \subseteq Deleted
<1> SUFFICES ASSUME NEW x \in Deleted' PROVE x \in Deleted
  OBVIOUS
<1>1. PICK q \in Runs : x \in Held(q)' /\ x \notin ckpt'
  BY DEF Deleted
<1>2. x \in Held(q) /\ x \notin ckpt
  BY <1>1
<1> QED
  BY <1>2 DEF Deleted

LEMMA CalmStops ==
  ASSUME Calm, Stopped \subseteq Stopped' PROVE Contents!Stop
<1>1. ASSUME NEW q \in Runs PROVE Held(q)' \subseteq Held(q)
  BY DEF Calm, Held, Writing
<1>2. ckpt' = ckpt /\ Deleted' \subseteq Deleted
  BY <1>1, DeletedShrinks DEF Calm
<1> QED
  BY <1>2 DEF Contents!Stop, Stopped

\* What is read adds nothing to what the checkpoint holds; what is forgotten
\* neither.
LEMMA ReadStops ==
  ASSUME Steady, Stopped \subseteq Stopped', NEW p \in Runs,
         Snapshot(p) \/ TitleRead(p) \/ Close(p)
  PROVE  Contents!Stop
<1>1. ckpt' = ckpt
  BY DEF Snapshot, TitleRead, Close, storeVars
<1>2. Held(p)' \subseteq Held(p) \cup ckpt'
  <2>1. CASE Snapshot(p)
    BY <2>1 DEF Snapshot, Goto, Held, Writing, Steady, TypeOK, NoOutcomeYet, storeVars
  <2>2. CASE TitleRead(p)
    BY <2>2 DEF TitleRead, Goto, Held, Writing, Steady, TypeOK, storeVars
  <2>3. CASE Close(p)
    BY <2>3 DEF Close, Goto, Held, Writing, Steady, TypeOK
  <2> QED
    BY <2>1, <2>2, <2>3
<1>3. ASSUME NEW q \in Runs, q # p PROVE Held(q)' = Held(q)
  <2>1. pc'[q] = pc[q] /\ base'[q] = base[q] /\ snap'[q] = snap[q] /\ captured'[q] = captured[q]
    BY <1>3 DEF Snapshot, TitleRead, Close, Goto, Steady, TypeOK
  <2> QED
    BY <2>1 DEF Held, Writing
<1>4. Deleted' \subseteq Deleted
  BY <1>1, <1>2, <1>3, DeletedShrinks
<1> QED
  BY <1>1, <1>4 DEF Contents!Stop, Stopped

\* A restart leaves nobody at work.
LEMMA ForgetStops ==
  ASSUME Forget, Stopped \subseteq Stopped' PROVE Contents!Stop
<1>1. ckpt' = ckpt
  BY DEF Forget
<1>2. \A q \in Runs : Held(q)' = {}
  BY DEF Forget, Held, Writing
<1>3. Deleted' \subseteq Deleted
  BY <1>1, <1>2, DeletedShrinks
<1> QED
  BY <1>1, <1>3 DEF Contents!Stop, Stopped

\* What a writer held when it puts a checkpoint back, it adds.
LEMMA TurnWrites ==
  ASSUME Steady, CheckpointInv, NEW p \in Runs, Turn(p) \/ TitlePut(p)
  PROVE  Contents!Write(p)
<1>1. Writing(p) /\ ckpt \subseteq base[p] /\ base[p] \subseteq Held(p)
  BY DEF Turn, TitlePut, Writing, Held, CheckpointInv, SnapshotOK
<1>2. \A q \in Runs : q # p => Held(q) = {} /\ ~Writing(q)
  BY <1>1, HeldAlone DEF Steady
<1>3. base[p] \ ckpt \subseteq Deleted
  BY <1>1 DEF Deleted
<1>4. /\ ckpt' = base[p] \/ (p \notin Stopped /\ ckpt' = base[p] \cup {p})
      /\ ckpt \subseteq ckpt'
  BY <1>1 DEF Turn, TitlePut, Stopped
<1>5. \E new \in SUBSET (Deleted \cup ({p} \ Stopped)) : ckpt' = ckpt \cup new
  <2>1. ckpt' \ ckpt \subseteq Deleted \cup ({p} \ Stopped)
    BY <1>3, <1>4
  <2>2. ckpt' = ckpt \cup (ckpt' \ ckpt)
    BY <1>4
  <2> QED
    BY <2>1, <2>2
<1>6. ASSUME NEW q \in Runs PROVE Held(q)' \subseteq Held(q) \cup ckpt'
  <2>1. CASE q # p
    <3>1. pc'[q] = pc[q] /\ captured'[q] = captured[q]
      BY <2>1 DEF Turn, TitlePut, Goto, Steady, TypeOK
    <3> QED
      BY <1>2, <2>1, <3>1 DEF Held, Writing
  <2>2. CASE q = p
    <3>1. CASE Turn(p)
      BY <2>2, <3>1 DEF Turn, Held, Writing, Steady, TypeOK
    <3>2. CASE TitlePut(p)
      BY <2>2, <3>2 DEF TitlePut, Goto, Held, Writing, Steady, TypeOK
    <3> QED
      BY <3>1, <3>2
  <2> QED
    BY <2>1, <2>2
<1>7. Deleted' \subseteq Deleted
  BY <1>4, <1>6, DeletedShrinks
<1>8. Stopped' = Stopped
  BY DEF Turn, TitlePut, Goto, Stopped, Steady, TypeOK
<1> QED
  BY <1>5, <1>7, <1>8 DEF Contents!Write

\* The snapshot is what the thread holds without the run, or it has none.
LEMMA RestoreTakesBack ==
  ASSUME Steady, CheckpointInv, NEW p \in Runs, Restore(p)
  PROVE  Contents!TakeBack(p) \/ Contents!Delete \/ Contents!Stop
<1>1. /\ pc[p] = "restore"
      /\ UNCHANGED <<snap, base>>
      /\ pc' = [pc EXCEPT ![p] = "complete"]
      /\ \/ ckpt' = Restored(p) /\ captured' = captured
         \/ ckpt' = ckpt /\ captured' = [captured EXCEPT ![p] = "failed"]
  BY DEF Restore, Goto
<1>2. SnapshotOK(p) /\ captured[p] \in {"no", "failed", "yes"}
  BY DEF CheckpointInv, Steady, TypeOK
<1>3. \/ ckpt' = ckpt
      \/ captured[p] = "no" /\ ckpt' = {}
      \/ captured[p] = "yes" /\ ckpt' = snap[p]
  BY <1>1, <1>2 DEF Restored, SnapshotOK
<1>4. Stopped' = Stopped
  BY <1>1 DEF Stopped, Steady, TypeOK
<1>5. Held(p)' = {}
  BY <1>1 DEF Held, Writing, Steady, TypeOK
<1>6. ASSUME NEW q \in Runs, q # p PROVE Held(q)' = Held(q)
  <2>1. pc'[q] = pc[q] /\ captured'[q] = captured[q] /\ base'[q] = base[q] /\ snap'[q] = snap[q]
    BY <1>1, <1>6 DEF Steady, TypeOK
  <2> QED
    BY <2>1 DEF Held, Writing
<1>7. CASE ckpt' = ckpt
  <2>1. Deleted' \subseteq Deleted
    BY <1>5, <1>6, <1>7, DeletedShrinks
  <2> QED
    BY <1>4, <1>7, <2>1 DEF Contents!Stop, Stopped
<1>8. CASE captured[p] = "no" /\ ckpt' = {}
  <2>1. Deleted' \subseteq Deleted \cup ckpt
    BY <1>5, <1>6 DEF Deleted
  <2> QED
    BY <1>4, <1>8, <2>1 DEF Contents!Delete
<1>9. CASE captured[p] = "yes" /\ ckpt' = snap[p]
  <2>1. Writing(p) /\ Held(p) = snap[p] /\ p \notin snap[p] /\ ckpt \subseteq snap[p] \cup {p}
    BY <1>1, <1>2, <1>9 DEF Writing, Held, SnapshotOK
  <2>2. \A q \in Runs : Held(q)' = {}
    BY <1>5, <1>6, <2>1, HeldAlone DEF Steady
  <2>3. Deleted' = {}
    BY <2>2 DEF Deleted
  <2>4. snap[p] \ ckpt \subseteq Deleted
    BY <2>1 DEF Deleted
  <2>5. ckpt' = (ckpt \cup (snap[p] \ ckpt)) \ {p}
    BY <1>9, <2>1
  <2>6. \E new \in SUBSET Deleted : ckpt' = (ckpt \cup new) \ {p}
    BY <2>4, <2>5
  <2>7. p \in Stopped
    BY <1>1 DEF Stopped
  <2> QED
    BY <1>4, <2>3, <2>6, <2>7 DEF Contents!TakeBack
<1> QED
  BY <1>3, <1>7, <1>8, <1>9

LEMMA ContentsStep ==
  ASSUME IInv, unborn = {} => CheckpointInv, [Next]_vars
  PROVE  unborn' # {} \/ Contents!ContentsNext
<1> SUFFICES ASSUME unborn' = {}
             PROVE  Contents!ContentsNext
  OBVIOUS
<1>0. unborn = {} /\ CheckpointInv
  BY UnbornGrows
<1>1. Steady /\ Stopped \subseteq Stopped'
  BY <1>0, SteadyIsInvariant, StepStopped DEF Steady
<1>2. CASE Calm
  BY <1>0, <1>1, <1>2, CalmStops DEF Contents!ContentsNext
<1>3. ASSUME NEW r \in Runs, Snapshot(r) \/ TitleRead(r) \/ Close(r)
      PROVE  Contents!ContentsNext
  BY <1>0, <1>1, <1>3, ReadStops DEF Contents!ContentsNext
<1>4. ASSUME NEW r \in Runs, Turn(r) \/ TitlePut(r)
      PROVE  Contents!ContentsNext
  BY <1>0, <1>1, <1>4, TurnWrites DEF Contents!ContentsNext
<1>5. ASSUME NEW r \in Runs, Restore(r)
      PROVE  Contents!ContentsNext
  BY <1>0, <1>1, <1>5, RestoreTakesBack DEF Contents!ContentsNext
<1>6. CASE Exit \/ Crash
  BY <1>0, <1>1, <1>6, ForgetStops DEF Exit, Crash, Contents!ContentsNext
<1> QED
  BY <1>0, <1>1, <1>2, <1>3, <1>4, <1>5, <1>6, CalmStep

\* The runs of a thread implement ThreadContents: the checkpoint changes as if
\* each run read and wrote it in one step, up to the first cancellation of a
\* run that has no task (run_agent, the graph's writes,
\* _rollback_to_pre_run_checkpoint, _ensure_interrupted_title).
THEOREM AtomicContents == Spec => ContentsAreAtomic
<1>1. Init => Contents!ContentsInit
  BY DEF Init, Contents!ContentsInit, Deleted, Stopped, Held, Writing
<1>2. IInv /\ (unborn = {} => CheckpointInv) /\ [Next]_vars
         => [unborn' # {} \/ Contents!ContentsNext]_(Contents!contentsVars)
  BY ContentsStep
<1> QED
  BY Invariance, CheckpointInvariance, <1>1, <1>2, PTL DEF Spec, ContentsAreAtomic

\* A run that has stopped and has nothing in the thread never has again, not
\* even after the process came back, unless some run was cancelled before it
\* had a task: what was rolled back stays so.
THEOREM OutForGood == Spec => StaysOut
<1> DEFINE Out == \A r \in Stopped : r \notin ckpt \cup Deleted => r \notin ckpt' \cup Deleted'
<1>1. Contents!ContentsNext => Out
  BY DEF Contents!ContentsNext, Contents!Write, Contents!TakeBack, Contents!Delete, Contents!Stop
<1>2. IInv /\ (unborn = {} => CheckpointInv) /\ [Next]_vars => [unborn' = {} => Out]_vars
  BY <1>1, ContentsStep
<1> QED
  BY Invariance, CheckpointInvariance, <1>2, PTL DEF Spec, StaysOut

=============================================================================
