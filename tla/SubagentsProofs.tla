--------------------------- MODULE SubagentsProofs ---------------------------
(* Subagents, for any number of tasks and scheduler threads: the first      *)
(* terminal status wins, the tool's answers are complete, and no entry of   *)
(* _background_tasks is without an owner.                                   *)
EXTENDS Subagents, SequenceTheorems, TLAPS

\* The backlog holds each task that is queued once.
BacklogIsQueued ==
  /\ \A i \in 1 .. Len(backlog) : sched[backlog[i]] = "queued"
  /\ \A i, j \in 1 .. Len(backlog) : backlog[i] = backlog[j] => i = j

\* What has not begun has no status to lose.
NotBegun ==
  \A t \in Tasks :
    /\ tool[t] = "idle" <=> sched[t] = "none"
    /\ tool[t] = "idle" => status[t] = "none"
    /\ sched[t] = "queued" => status[t] = "pending"
    /\ sched[t] \in {"none", "queued", "submit"} => co[t] = "none" /\ status[t] \notin Terminal
    /\ sched[t] = "settling" \/ co[t] # "none" => sched[t] \notin {"none", "queued", "submit"}

\* Exactly one thread is in try_set_terminal while a status is being set; it
\* found none, and payload and status belong together.
OneSetter ==
  \A t \in Tasks :
    /\ setting[t] # "none" <=> sched[t] = "settling" \/ co[t] = "settling"
    /\ ~ (sched[t] = "settling" /\ co[t] = "settling")
    /\ setting[t] # "none" => status[t] \notin Terminal /\ payload[t] = setting[t]
    /\ status[t] \in Terminal => payload[t] = status[t]

Lives == BacklogIsQueued /\ NotBegun /\ OneSetter

\* Who may remove an entry: the tool while it polls, then the cleanup it left.
Owned ==
  \A t \in Tasks :
    /\ tool[t] \in {"poll", "sleep", "drain", "leave"} => t \in entries
    /\ sched[t] = "queued" => t \in entries
    /\ cleaner[t] # "none" => tool[t] = "done"
    /\ tool[t] = "done" /\ cleaner[t] = "none" => Finished(t)

\* A tool that leaves has reported a task that had ended.
Leaving ==
  \A t \in Tasks :
    tool[t] = "leave" /\ t \notin unheard => Finished(t) /\ (t \in usage => t \in reported)

Answered ==
  /\ Owned /\ Leaving /\ AnswersAreComplete /\ EntriesAreOwned
  /\ \A t \in Tasks : tool[t] # "done" => answer[t] = "none"

IInv == TypeOK /\ Lives /\ Answered

\* Every step keeps the types.
LEMMA TypeStep == TypeOK /\ [Next]_vars => TypeOK'
<1> SUFFICES ASSUME TypeOK, [Next]_vars PROVE TypeOK' OBVIOUS
<1> USE DEF TypeOK, Terminal, Statuses
<1>0. CASE UNCHANGED vars BY <1>0 DEF vars, resultVars, execVars, toolVars
<1>1. ASSUME NEW t \in Tasks, Call(t) PROVE TypeOK'
  BY <1>1 DEF Call, resultVars, execVars, toolVars
<1>2. ASSUME NEW t \in Tasks, Poll(t) PROVE TypeOK'
  BY <1>2 DEF Poll, Return, Report, Remove, Finished, resultVars, execVars, toolVars
<1>3. ASSUME NEW t \in Tasks, Wake(t) PROVE TypeOK'
  BY <1>3 DEF Wake, resultVars, execVars, toolVars
<1>4. ASSUME NEW t \in Tasks, Drained(t) PROVE TypeOK'
  BY <1>4 DEF Drained, Report, Finished, resultVars, execVars, toolVars
<1>5. ASSUME NEW t \in Tasks, Clean(t) PROVE TypeOK'
  BY <1>5 DEF Clean, Remove, Finished, resultVars, execVars, toolVars
<1>6. ASSUME NEW t \in Tasks, PollsOut(t) PROVE TypeOK'
  BY <1>6 DEF PollsOut, Return, Report, resultVars, execVars, toolVars
<1>7. ASSUME NEW t \in Tasks, CancelTool(t) PROVE TypeOK'
  BY <1>7 DEF CancelTool, resultVars, execVars, toolVars
<1>8. ASSUME NEW t \in Tasks, DrainGivesUp(t) PROVE TypeOK'
  BY <1>8 DEF DrainGivesUp, Report, Finished, resultVars, execVars, toolVars
<1>9. ASSUME NEW t \in Tasks, CleanGivesUp(t) PROVE TypeOK'
  BY <1>9 DEF CleanGivesUp, Finished, resultVars, execVars, toolVars
<1>10. ASSUME NEW t \in Tasks, Start(t) PROVE TypeOK'
  <2>1. backlog' \in Seq(Tasks) BY <1>10 DEF Start
  <2>2. status' \in {status, [status EXCEPT ![t] = "running"]} /\ sched' \in {[sched EXCEPT ![t] = "submit"], [sched EXCEPT ![t] = "done"]}
        /\ UNCHANGED <<setting, payload, usage, cancelled, entries, co, killed, toolVars>>
    <3> USE <1>10 DEF Start
    <3>1. CASE t \in entries BY <3>1
    <3>2. CASE t \notin entries BY <3>2
    <3> QED BY <3>1, <3>2
  <2>3. status' \in [Tasks -> Statuses] BY <2>2
  <2>4. sched' \in [Tasks -> {"none", "queued", "submit", "wait", "expired", "settling", "cancel", "done"}]
    BY <2>2
  <2> QED BY <2>1, <2>2, <2>3, <2>4 DEF toolVars
<1>11. ASSUME NEW t \in Tasks, Submit(t) PROVE TypeOK'
  BY <1>11 DEF Submit, resultVars, execVars, toolVars
<1>12. ASSUME NEW t \in Tasks, SubmitFails(t) PROVE TypeOK'
  BY <1>12 DEF SubmitFails, Enter, resultVars, execVars, toolVars
<1>13. ASSUME NEW t \in Tasks, Ends(t) PROVE TypeOK'
  BY <1>13 DEF Ends, resultVars, execVars, toolVars
<1>14. ASSUME NEW t \in Tasks, Expire(t) PROVE TypeOK'
  BY <1>14 DEF Expire, resultVars, execVars, toolVars
<1>15. ASSUME NEW t \in Tasks, MarkTimedOut(t) PROVE TypeOK'
  BY <1>15 DEF MarkTimedOut, Enter, ExpiredNext, Settled, resultVars, execVars, toolVars
<1>16. ASSUME NEW t \in Tasks, Marked(t) PROVE TypeOK'
  BY <1>16 DEF Marked, Leave, resultVars, execVars, toolVars
<1>17. ASSUME NEW t \in Tasks, CancelFuture(t) PROVE TypeOK'
  BY <1>17 DEF CancelFuture, Kill, resultVars, execVars, toolVars
<1>18. ASSUME NEW t \in Tasks, BuildFails(t) PROVE TypeOK'
  <2>1. co' \in [Tasks -> {"none", "build", "stream", "settling", "end"}] /\ usage' \subseteq Tasks
    BY <1>18 DEF BuildFails, Finish
  <2>2. setting' \in [Tasks -> {"none"} \cup Terminal] /\ payload' \in [Tasks -> {"none"} \cup Terminal]
    BY <1>18 DEF BuildFails, Finish, Enter
  <2>3. UNCHANGED <<status, cancelled, entries, backlog, sched, killed, toolVars>>
    BY <1>18 DEF BuildFails, Finish, Enter
  <2> QED BY <2>1, <2>2, <2>3 DEF toolVars
<1>19. ASSUME NEW t \in Tasks, Stream(t) PROVE TypeOK'
  BY <1>19 DEF Stream, resultVars, execVars, toolVars
<1>20. ASSUME NEW t \in Tasks, Notice(t) PROVE TypeOK'
  <2>1. co' \in [Tasks -> {"none", "build", "stream", "settling", "end"}] /\ usage' \subseteq Tasks
    BY <1>20 DEF Notice, Finish
  <2>2. setting' \in [Tasks -> {"none"} \cup Terminal] /\ payload' \in [Tasks -> {"none"} \cup Terminal]
    BY <1>20 DEF Notice, Finish, Enter
  <2>3. UNCHANGED <<status, cancelled, entries, backlog, sched, killed, toolVars>>
    BY <1>20 DEF Notice, Finish, Enter
  <2> QED BY <2>1, <2>2, <2>3 DEF toolVars
<1>21. ASSUME NEW t \in Tasks, StreamEnds(t) PROVE TypeOK'
  <2>1. PICK s \in {"completed", "failed"} : Finish(t, s, TRUE) BY <1>21 DEF StreamEnds
  <2>2. co' \in [Tasks -> {"none", "build", "stream", "settling", "end"}] /\ usage' \subseteq Tasks
    BY <2>1 DEF Finish
  <2>3. setting' \in [Tasks -> {"none"} \cup Terminal] /\ payload' \in [Tasks -> {"none"} \cup Terminal]
    BY <2>1 DEF Finish, Enter
  <2>4. UNCHANGED <<status, cancelled, entries, backlog, sched, killed, toolVars>>
    BY <2>1 DEF Finish, Enter
  <2> QED BY <2>2, <2>3, <2>4 DEF toolVars
<1>22. ASSUME NEW t \in Tasks, Finishes(t) PROVE TypeOK'
  <2>1. co' = [co EXCEPT ![t] = "end"] /\ setting' = [setting EXCEPT ![t] = "none"]
        /\ status' = [status EXCEPT ![t] = setting[t]]
    BY <1>22 DEF Finishes, Leave
  <2>2. UNCHANGED <<payload, usage, cancelled, entries, backlog, sched, killed, toolVars>>
    BY <1>22 DEF Finishes, Leave
  <2>3. status' \in [Tasks -> Statuses] BY <2>1
  <2> QED BY <2>1, <2>2, <2>3 DEF toolVars
<1>23. ASSUME NEW t \in Tasks, Die(t) PROVE TypeOK'
  BY <1>23 DEF Die, resultVars, execVars, toolVars
<1>24. ASSUME NEW t \in Tasks, Raise(t) PROVE TypeOK'
  BY <1>24 DEF Raise, Return, Remove, Finished, Leftover, resultVars, execVars, toolVars
<1> QED
  BY <1>0, <1>1, <1>2, <1>3, <1>4, <1>5, <1>6, <1>7, <1>8, <1>9, <1>10, <1>11, <1>12, <1>13, <1>14, <1>15, <1>16, <1>17, <1>18, <1>19, <1>20, <1>21, <1>22, <1>23, <1>24
  DEF Next, Serve, Schedule, Execute

\* Every step keeps one setter of a status.
LEMMA LivesStep == TypeOK /\ TypeOK' /\ NotBegun /\ OneSetter /\ (\A t \in Tasks : Start(t) => sched[t] = "queued") /\ [Next]_vars => (NotBegun /\ OneSetter)'
<1> SUFFICES ASSUME TypeOK /\ TypeOK' /\ NotBegun /\ OneSetter /\ (\A t \in Tasks : Start(t) => sched[t] = "queued"), [Next]_vars PROVE (NotBegun /\ OneSetter)' OBVIOUS
<1> USE DEF TypeOK, NotBegun, OneSetter, Terminal, Statuses
<1>0. CASE UNCHANGED vars BY <1>0 DEF vars, resultVars, execVars, toolVars
<1>1. ASSUME NEW t \in Tasks, Call(t) PROVE (NotBegun /\ OneSetter)'
  BY <1>1 DEF Call, resultVars, execVars, toolVars
<1>2. ASSUME NEW t \in Tasks, Poll(t) PROVE (NotBegun /\ OneSetter)'
  BY <1>2 DEF Poll, Return, Report, Remove, Finished, resultVars, execVars, toolVars
<1>3. ASSUME NEW t \in Tasks, Wake(t) PROVE (NotBegun /\ OneSetter)'
  BY <1>3 DEF Wake, resultVars, execVars, toolVars
<1>4. ASSUME NEW t \in Tasks, Drained(t) PROVE (NotBegun /\ OneSetter)'
  BY <1>4 DEF Drained, Report, Finished, resultVars, execVars, toolVars
<1>5. ASSUME NEW t \in Tasks, Clean(t) PROVE (NotBegun /\ OneSetter)'
  BY <1>5 DEF Clean, Remove, Finished, resultVars, execVars, toolVars
<1>6. ASSUME NEW t \in Tasks, PollsOut(t) PROVE (NotBegun /\ OneSetter)'
  BY <1>6 DEF PollsOut, Return, Report, resultVars, execVars, toolVars
<1>7. ASSUME NEW t \in Tasks, CancelTool(t) PROVE (NotBegun /\ OneSetter)'
  BY <1>7 DEF CancelTool, resultVars, execVars, toolVars
<1>8. ASSUME NEW t \in Tasks, DrainGivesUp(t) PROVE (NotBegun /\ OneSetter)'
  BY <1>8 DEF DrainGivesUp, Report, Finished, resultVars, execVars, toolVars
<1>9. ASSUME NEW t \in Tasks, CleanGivesUp(t) PROVE (NotBegun /\ OneSetter)'
  BY <1>9 DEF CleanGivesUp, Finished, resultVars, execVars, toolVars
<1>10. ASSUME NEW t \in Tasks, Start(t) PROVE (NotBegun /\ OneSetter)'
  BY <1>10 DEF Start, resultVars, execVars, toolVars
<1>11. ASSUME NEW t \in Tasks, Submit(t) PROVE (NotBegun /\ OneSetter)'
  BY <1>11 DEF Submit, resultVars, execVars, toolVars
<1>12. ASSUME NEW t \in Tasks, SubmitFails(t) PROVE (NotBegun /\ OneSetter)'
  BY <1>12 DEF SubmitFails, Enter, resultVars, execVars, toolVars
<1>13. ASSUME NEW t \in Tasks, Ends(t) PROVE (NotBegun /\ OneSetter)'
  BY <1>13 DEF Ends, resultVars, execVars, toolVars
<1>14. ASSUME NEW t \in Tasks, Expire(t) PROVE (NotBegun /\ OneSetter)'
  BY <1>14 DEF Expire, resultVars, execVars, toolVars
<1>15. ASSUME NEW t \in Tasks, MarkTimedOut(t) PROVE (NotBegun /\ OneSetter)'
  BY <1>15 DEF MarkTimedOut, Enter, ExpiredNext, Settled, resultVars, execVars, toolVars
<1>16. ASSUME NEW t \in Tasks, Marked(t) PROVE (NotBegun /\ OneSetter)'
  BY <1>16 DEF Marked, Leave, resultVars, execVars, toolVars
<1>17. ASSUME NEW t \in Tasks, CancelFuture(t) PROVE (NotBegun /\ OneSetter)'
  BY <1>17 DEF CancelFuture, Kill, resultVars, execVars, toolVars
<1>18. ASSUME NEW t \in Tasks, BuildFails(t) PROVE (NotBegun /\ OneSetter)'
  BY <1>18 DEF BuildFails, Finish, Settled, Enter, resultVars, execVars, toolVars
<1>19. ASSUME NEW t \in Tasks, Stream(t) PROVE (NotBegun /\ OneSetter)'
  BY <1>19 DEF Stream, resultVars, execVars, toolVars
<1>20. ASSUME NEW t \in Tasks, Notice(t) PROVE (NotBegun /\ OneSetter)'
  BY <1>20 DEF Notice, Finish, Settled, Enter, resultVars, execVars, toolVars
<1>21. ASSUME NEW t \in Tasks, StreamEnds(t) PROVE (NotBegun /\ OneSetter)'
  BY <1>21 DEF StreamEnds, Finish, Settled, Enter, resultVars, execVars, toolVars
<1>22. ASSUME NEW t \in Tasks, Finishes(t) PROVE (NotBegun /\ OneSetter)'
  BY <1>22 DEF Finishes, Leave, resultVars, execVars, toolVars
<1>23. ASSUME NEW t \in Tasks, Die(t) PROVE (NotBegun /\ OneSetter)'
  BY <1>23 DEF Die, resultVars, execVars, toolVars
<1>24. ASSUME NEW t \in Tasks, Raise(t) PROVE (NotBegun /\ OneSetter)'
  BY <1>24 DEF Raise, Return, Remove, Finished, Leftover, resultVars, execVars, toolVars
<1> QED
  BY <1>0, <1>1, <1>2, <1>3, <1>4, <1>5, <1>6, <1>7, <1>8, <1>9, <1>10, <1>11, <1>12, <1>13, <1>14, <1>15, <1>16, <1>17, <1>18, <1>19, <1>20, <1>21, <1>22, <1>23, <1>24
  DEF Next, Serve, Schedule, Execute

\* Every step keeps the entries owned and the answers complete.
LEMMA AnsweredStep == TypeOK /\ TypeOK' /\ Lives /\ Answered /\ [Next]_vars => Answered'
<1> SUFFICES ASSUME TypeOK /\ TypeOK' /\ Lives /\ Answered, [Next]_vars PROVE Answered' OBVIOUS
<1> USE DEF TypeOK, Lives, NotBegun, OneSetter, Answered, Owned, Leaving, AnswersAreComplete, EntriesAreOwned, Finished, Terminal, Statuses
<1>0. CASE UNCHANGED vars BY <1>0 DEF vars, resultVars, execVars, toolVars
<1>1. ASSUME NEW t \in Tasks, Call(t) PROVE Answered'
  BY <1>1 DEF Call, resultVars, execVars, toolVars
<1>2. ASSUME NEW t \in Tasks, Poll(t) PROVE Answered'
  BY <1>2 DEF Poll, Return, Report, Remove, Finished, resultVars, execVars, toolVars
<1>3. ASSUME NEW t \in Tasks, Wake(t) PROVE Answered'
  BY <1>3 DEF Wake, resultVars, execVars, toolVars
<1>4. ASSUME NEW t \in Tasks, Drained(t) PROVE Answered'
  BY <1>4 DEF Drained, Report, Finished, resultVars, execVars, toolVars
<1>5. ASSUME NEW t \in Tasks, Clean(t) PROVE Answered'
  BY <1>5 DEF Clean, Remove, Finished, resultVars, execVars, toolVars
<1>6. ASSUME NEW t \in Tasks, PollsOut(t) PROVE Answered'
  BY <1>6 DEF PollsOut, Return, Report, resultVars, execVars, toolVars
<1>7. ASSUME NEW t \in Tasks, CancelTool(t) PROVE Answered'
  BY <1>7 DEF CancelTool, resultVars, execVars, toolVars
<1>8. ASSUME NEW t \in Tasks, DrainGivesUp(t) PROVE Answered'
  BY <1>8 DEF DrainGivesUp, Report, Finished, resultVars, execVars, toolVars
<1>9. ASSUME NEW t \in Tasks, CleanGivesUp(t) PROVE Answered'
  BY <1>9 DEF CleanGivesUp, Finished, resultVars, execVars, toolVars
<1>10. ASSUME NEW t \in Tasks, Start(t) PROVE Answered'
  <2>1. sched[t] = "queued" BY <1>10 DEF Start, BacklogIsQueued
  <2>2. status[t] = "pending" /\ setting[t] = "none" /\ t \in entries BY <2>1
  <2>3. status' = [status EXCEPT ![t] = "running"] /\ sched' = [sched EXCEPT ![t] = "submit"]
        /\ UNCHANGED <<setting, payload, usage, entries, toolVars>>
    BY <1>10, <2>2 DEF Start
  <2> QED BY <2>1, <2>2, <2>3 DEF toolVars
<1>11. ASSUME NEW t \in Tasks, Submit(t) PROVE Answered'
  BY <1>11 DEF Submit, resultVars, execVars, toolVars
<1>12. ASSUME NEW t \in Tasks, SubmitFails(t) PROVE Answered'
  BY <1>12 DEF SubmitFails, Enter, resultVars, execVars, toolVars
<1>13. ASSUME NEW t \in Tasks, Ends(t) PROVE Answered'
  BY <1>13 DEF Ends, resultVars, execVars, toolVars
<1>14. ASSUME NEW t \in Tasks, Expire(t) PROVE Answered'
  BY <1>14 DEF Expire, resultVars, execVars, toolVars
<1>15. ASSUME NEW t \in Tasks, MarkTimedOut(t) PROVE Answered'
  BY <1>15 DEF MarkTimedOut, Enter, ExpiredNext, Settled, resultVars, execVars, toolVars
<1>16. ASSUME NEW t \in Tasks, Marked(t) PROVE Answered'
  BY <1>16 DEF Marked, Leave, resultVars, execVars, toolVars
<1>17. ASSUME NEW t \in Tasks, CancelFuture(t) PROVE Answered'
  BY <1>17 DEF CancelFuture, Kill, resultVars, execVars, toolVars
<1>18. ASSUME NEW t \in Tasks, BuildFails(t) PROVE Answered'
  BY <1>18 DEF BuildFails, Finish, Settled, Enter, resultVars, execVars, toolVars
<1>19. ASSUME NEW t \in Tasks, Stream(t) PROVE Answered'
  BY <1>19 DEF Stream, resultVars, execVars, toolVars
<1>20. ASSUME NEW t \in Tasks, Notice(t) PROVE Answered'
  BY <1>20 DEF Notice, Finish, Settled, Enter, resultVars, execVars, toolVars
<1>21. ASSUME NEW t \in Tasks, StreamEnds(t) PROVE Answered'
  BY <1>21 DEF StreamEnds, Finish, Settled, Enter, resultVars, execVars, toolVars
<1>22. ASSUME NEW t \in Tasks, Finishes(t) PROVE Answered'
  BY <1>22 DEF Finishes, Leave, resultVars, execVars, toolVars
<1>23. ASSUME NEW t \in Tasks, Die(t) PROVE Answered'
  BY <1>23 DEF Die, resultVars, execVars, toolVars
<1>24. ASSUME NEW t \in Tasks, Raise(t) PROVE Answered'
  BY <1>24 DEF Raise, Return, Remove, Finished, Leftover, resultVars, execVars, toolVars
<1> QED
  BY <1>0, <1>1, <1>2, <1>3, <1>4, <1>5, <1>6, <1>7, <1>8, <1>9, <1>10, <1>11, <1>12, <1>13, <1>14, <1>15, <1>16, <1>17, <1>18, <1>19, <1>20, <1>21, <1>22, <1>23, <1>24
  DEF Next, Serve, Schedule, Execute

\* Every step keeps the backlog.
LEMMA BacklogStep == TypeOK /\ Lives /\ [Next]_vars => BacklogIsQueued'
<1> SUFFICES ASSUME TypeOK, Lives, [Next]_vars PROVE BacklogIsQueued' OBVIOUS
<1> USE DEF BacklogIsQueued, TypeOK, Lives, NotBegun
<1>1. ASSUME NEW t \in Tasks, Call(t) PROVE BacklogIsQueued'
  <2>1. sched[t] = "none" /\ backlog' = Append(backlog, t) /\ sched' = [sched EXCEPT ![t] = "queued"]
    BY <1>1 DEF Call
  <2>2. Len(backlog') = Len(backlog) + 1 /\ Len(backlog) \in Nat BY <2>1
  <2>3. \A i \in 1 .. Len(backlog') : backlog'[i] = IF i = Len(backlog) + 1 THEN t ELSE backlog[i]
    BY <2>1, <2>2
  <2>4. \A i \in 1 .. Len(backlog) : backlog[i] \in Tasks /\ backlog[i] # t BY <2>1
  <2> QED BY <2>1, <2>2, <2>3, <2>4
<1>2. ASSUME NEW t \in Tasks, Start(t) PROVE BacklogIsQueued'
  <2>1. backlog # <<>> /\ t = backlog[1] /\ backlog' = Tail(backlog) BY <1>2 DEF Start
  <2>2. Len(backlog') = Len(backlog) - 1 /\ Len(backlog) \in Nat \ {0} BY <2>1
  <2>3. \A i \in 1 .. Len(backlog') : i + 1 \in 1 .. Len(backlog) /\ backlog'[i] = backlog[i + 1]
    BY <2>1, <2>2
  <2>4. \A i \in 1 .. Len(backlog') : backlog'[i] # t /\ backlog'[i] \in Tasks BY <2>1, <2>2, <2>3
  <2>5. \A u \in Tasks : u # t => sched'[u] = sched[u] BY <1>2 DEF Start
  <2>6. \A i \in 1 .. Len(backlog') : sched'[backlog'[i]] = "queued" BY <2>3, <2>4, <2>5
  <2>7. ASSUME NEW i \in 1 .. Len(backlog'), NEW j \in 1 .. Len(backlog'), backlog'[i] = backlog'[j]
        PROVE i = j
    <3>1. i + 1 \in 1 .. Len(backlog) /\ j + 1 \in 1 .. Len(backlog) /\ backlog[i + 1] = backlog[j + 1]
      BY <2>3, <2>7
    <3>2. i + 1 = j + 1 BY <3>1
    <3> QED BY <2>2, <3>2
  <2> QED BY <2>2, <2>6, <2>7
<1>3. CASE UNCHANGED backlog /\ (\A u \in Tasks : sched[u] = "queued" => sched'[u] = "queued")
  BY <1>3
<1>4. ASSUME NEW t \in Tasks,
             Serve(t) \/ PollsOut(t) \/ CancelTool(t) \/ DrainGivesUp(t) \/ CleanGivesUp(t) \/ Execute(t)
      PROVE BacklogIsQueued'
  <2>1. UNCHANGED <<backlog, sched>>
    BY <1>4 DEF Serve, Poll, Wake, Drained, Clean, Raise, PollsOut, CancelTool, DrainGivesUp, CleanGivesUp,
       Execute, BuildFails, Stream, Notice, StreamEnds, Finishes, Die, Finish, execVars
  <2> QED BY <1>3, <2>1
<1>5. ASSUME NEW t \in Tasks, Schedule(t), ~ Start(t) PROVE BacklogIsQueued'
  <2>1. UNCHANGED backlog /\ (\A u \in Tasks : sched[u] = "queued" => sched'[u] = "queued")
    BY <1>5 DEF Schedule, Submit, SubmitFails, Ends, Expire, MarkTimedOut, Marked, CancelFuture
  <2> QED BY <1>3, <2>1
<1>6. CASE UNCHANGED vars BY <1>3, <1>6 DEF vars, execVars
<1> QED BY <1>1, <1>2, <1>4, <1>5, <1>6 DEF Next

LEMMA InitIInv == Init => IInv
<1> SUFFICES ASSUME Init PROVE IInv OBVIOUS
<1>1. TypeOK BY DEF Init, TypeOK, Statuses, Terminal
<1>2. Lives BY DEF Init, Lives, BacklogIsQueued, NotBegun, OneSetter, Terminal
<1>3. Answered BY DEF Init, Answered, Owned, Leaving, AnswersAreComplete, EntriesAreOwned, Terminal
<1> QED BY <1>1, <1>2, <1>3 DEF IInv

LEMMA NextIInv == IInv /\ [Next]_vars => IInv'
<1> SUFFICES ASSUME IInv, [Next]_vars PROVE IInv' OBVIOUS
<1>1. TypeOK' BY TypeStep DEF IInv
<1>2. \A t \in Tasks : Start(t) => sched[t] = "queued"
  BY DEF IInv, Lives, BacklogIsQueued, TypeOK, Start
<1>3. NotBegun' /\ OneSetter' BY <1>1, <1>2, LivesStep DEF IInv, Lives
<1>4. Answered' BY <1>1, AnsweredStep DEF IInv
<1> QED BY <1>1, <1>3, <1>4, BacklogStep DEF IInv, Lives

\* The inductive invariant holds in every state.
THEOREM Invariance == Spec => []IInv
BY InitIInv, NextIInv, PTL DEF Spec

\* The variables keep their types.
THEOREM TypeCorrect == Spec => []TypeOK
<1>1. IInv => TypeOK BY DEF IInv
<1> QED BY <1>1, Invariance, PTL

\* The tool answers with what the task came to, after its usage was reported;
\* also after the cancellation of its run, unless it stopped waiting before the
\* task ended.
THEOREM CompleteAnswers == Spec => []AnswersAreComplete
<1>1. IInv => AnswersAreComplete BY DEF IInv, Answered
<1> QED BY <1>1, Invariance, PTL

\* Every entry that outlives its tool call has somebody to remove it.
THEOREM OwnedEntries == Spec => []EntriesAreOwned
<1>1. IInv => EntriesAreOwned BY DEF IInv, Answered
<1> QED BY <1>1, Invariance, PTL

SettledKept ==
  \A t \in Tasks : status[t] \in Terminal => status'[t] = status[t] /\ payload'[t] = payload[t]

\* No step changes a terminal status or what belongs to it.
LEMMA SettledStays == TypeOK /\ NotBegun /\ OneSetter /\ (\A t \in Tasks : Start(t) => sched[t] = "queued") /\ [Next]_vars => SettledKept
<1> SUFFICES ASSUME TypeOK /\ NotBegun /\ OneSetter /\ (\A t \in Tasks : Start(t) => sched[t] = "queued"), [Next]_vars PROVE SettledKept OBVIOUS
<1> USE DEF SettledKept, TypeOK, NotBegun, OneSetter, Terminal, Statuses
<1>0. CASE UNCHANGED vars BY <1>0 DEF vars, resultVars, execVars, toolVars
<1>1. ASSUME NEW t \in Tasks, Call(t) PROVE SettledKept
  BY <1>1 DEF Call, resultVars, execVars, toolVars
<1>2. ASSUME NEW t \in Tasks, Poll(t) PROVE SettledKept
  BY <1>2 DEF Poll, Return, Report, Remove, Finished, resultVars, execVars, toolVars
<1>3. ASSUME NEW t \in Tasks, Wake(t) PROVE SettledKept
  BY <1>3 DEF Wake, resultVars, execVars, toolVars
<1>4. ASSUME NEW t \in Tasks, Drained(t) PROVE SettledKept
  BY <1>4 DEF Drained, Report, Finished, resultVars, execVars, toolVars
<1>5. ASSUME NEW t \in Tasks, Clean(t) PROVE SettledKept
  BY <1>5 DEF Clean, Remove, Finished, resultVars, execVars, toolVars
<1>6. ASSUME NEW t \in Tasks, PollsOut(t) PROVE SettledKept
  BY <1>6 DEF PollsOut, Return, Report, resultVars, execVars, toolVars
<1>7. ASSUME NEW t \in Tasks, CancelTool(t) PROVE SettledKept
  BY <1>7 DEF CancelTool, resultVars, execVars, toolVars
<1>8. ASSUME NEW t \in Tasks, DrainGivesUp(t) PROVE SettledKept
  BY <1>8 DEF DrainGivesUp, Report, Finished, resultVars, execVars, toolVars
<1>9. ASSUME NEW t \in Tasks, CleanGivesUp(t) PROVE SettledKept
  BY <1>9 DEF CleanGivesUp, Finished, resultVars, execVars, toolVars
<1>10. ASSUME NEW t \in Tasks, Start(t) PROVE SettledKept
  BY <1>10 DEF Start, resultVars, execVars, toolVars
<1>11. ASSUME NEW t \in Tasks, Submit(t) PROVE SettledKept
  BY <1>11 DEF Submit, resultVars, execVars, toolVars
<1>12. ASSUME NEW t \in Tasks, SubmitFails(t) PROVE SettledKept
  BY <1>12 DEF SubmitFails, Enter, resultVars, execVars, toolVars
<1>13. ASSUME NEW t \in Tasks, Ends(t) PROVE SettledKept
  BY <1>13 DEF Ends, resultVars, execVars, toolVars
<1>14. ASSUME NEW t \in Tasks, Expire(t) PROVE SettledKept
  BY <1>14 DEF Expire, resultVars, execVars, toolVars
<1>15. ASSUME NEW t \in Tasks, MarkTimedOut(t) PROVE SettledKept
  BY <1>15 DEF MarkTimedOut, Enter, ExpiredNext, Settled, resultVars, execVars, toolVars
<1>16. ASSUME NEW t \in Tasks, Marked(t) PROVE SettledKept
  BY <1>16 DEF Marked, Leave, resultVars, execVars, toolVars
<1>17. ASSUME NEW t \in Tasks, CancelFuture(t) PROVE SettledKept
  BY <1>17 DEF CancelFuture, Kill, resultVars, execVars, toolVars
<1>18. ASSUME NEW t \in Tasks, BuildFails(t) PROVE SettledKept
  BY <1>18 DEF BuildFails, Finish, Settled, Enter, resultVars, execVars, toolVars
<1>19. ASSUME NEW t \in Tasks, Stream(t) PROVE SettledKept
  BY <1>19 DEF Stream, resultVars, execVars, toolVars
<1>20. ASSUME NEW t \in Tasks, Notice(t) PROVE SettledKept
  BY <1>20 DEF Notice, Finish, Settled, Enter, resultVars, execVars, toolVars
<1>21. ASSUME NEW t \in Tasks, StreamEnds(t) PROVE SettledKept
  BY <1>21 DEF StreamEnds, Finish, Settled, Enter, resultVars, execVars, toolVars
<1>22. ASSUME NEW t \in Tasks, Finishes(t) PROVE SettledKept
  BY <1>22 DEF Finishes, Leave, resultVars, execVars, toolVars
<1>23. ASSUME NEW t \in Tasks, Die(t) PROVE SettledKept
  BY <1>23 DEF Die, resultVars, execVars, toolVars
<1>24. ASSUME NEW t \in Tasks, Raise(t) PROVE SettledKept
  BY <1>24 DEF Raise, Return, Remove, Finished, Leftover, resultVars, execVars, toolVars
<1> QED
  BY <1>0, <1>1, <1>2, <1>3, <1>4, <1>5, <1>6, <1>7, <1>8, <1>9, <1>10, <1>11, <1>12, <1>13, <1>14, <1>15, <1>16, <1>17, <1>18, <1>19, <1>20, <1>21, <1>22, <1>23, <1>24
  DEF Next, Serve, Schedule, Execute

\* The first terminal status of a subagent is its last.
THEOREM FirstWins == Spec => FirstTerminalWins
<1>1. IInv /\ [Next]_vars
        => [\A t \in Tasks : status[t] \in Terminal => status'[t] = status[t] /\ payload'[t] = payload[t]]_<<status, payload>>
  <2> SUFFICES ASSUME IInv, [Next]_vars PROVE SettledKept BY DEF SettledKept
  <2>1. \A t \in Tasks : Start(t) => sched[t] = "queued"
    BY DEF IInv, Lives, BacklogIsQueued, TypeOK, Start
  <2> QED BY <2>1, SettledStays DEF IInv, Lives
<1> QED BY <1>1, Invariance, PTL DEF Spec, FirstTerminalWins
=============================================================================
