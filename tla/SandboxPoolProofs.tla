-------------------------- MODULE SandboxPoolProofs --------------------------
(* SandboxPool keeps its types and its tables, for any users, sandboxes,    *)
(* replicas, crashes and cancelled calls.  It loses no container as long as *)
(* no sandbox has the functions of two cancelled calls under way at once.   *)
EXTENDS SandboxPool, TLAPS

\* Every step keeps what a call has in its hands.
LEMMA SeenStep == TypeOK /\ SeenIsReal /\ [Next]_vars => SeenIsReal'
<1> SUFFICES ASSUME TypeOK /\ SeenIsReal, [Next]_vars PROVE SeenIsReal' OBVIOUS
<1> USE SandboxPoolAssumption DEF TypeOK, SeenIsReal, Info, Container, NoInfo, Of
<1>0. CASE UNCHANGED vars BY <1>0 DEF vars, poolVars, callVars, idleVars, faultVars
<1>1. ASSUME NEW u \in Users, Enter(u) PROVE SeenIsReal'
  BY <1>1 DEF Enter, poolVars, callVars, idleVars, faultVars
<1>2. ASSUME NEW u \in Users, Look(u) PROVE SeenIsReal'
  BY <1>2 DEF Look, Miss, Leave, Pool, poolVars, callVars, idleVars, faultVars
<1>3. ASSUME NEW u \in Users, Check(u) PROVE SeenIsReal'
  BY <1>3 DEF Check, Up, poolVars, callVars, idleVars, faultVars
<1>4. ASSUME NEW u \in Users, Take(u) PROVE SeenIsReal'
  BY <1>4 DEF Take, Miss, Leave, Got, Pool, poolVars, callVars, idleVars, faultVars
<1>5. ASSUME NEW u \in Users, Drop(u) PROVE SeenIsReal'
  BY <1>5 DEF Drop, Miss, Leave, Forget, Removed, poolVars, callVars, idleVars, faultVars
<1>6. ASSUME NEW u \in Users, Stop(u) PROVE SeenIsReal'
  BY <1>6 DEF Stop, Destroy, Miss, Leave, poolVars, callVars, idleVars, faultVars
<1>7. ASSUME NEW u \in Users, Discover(u) PROVE SeenIsReal'
  BY <1>7 DEF Discover, Leave, NamedInfo, poolVars, callVars, idleVars, faultVars
<1>8. ASSUME NEW u \in Users, Count(u) PROVE SeenIsReal'
  BY <1>8 DEF Count, poolVars, callVars, idleVars, faultVars
<1>9. ASSUME NEW u \in Users, Evict(u) PROVE SeenIsReal'
  BY <1>9 DEF Evict, Leave, poolVars, callVars, idleVars, faultVars
<1>10. ASSUME NEW u \in Users, Evicted(u) PROVE SeenIsReal'
  BY <1>10 DEF Evicted, Destroy, Leave, poolVars, callVars, idleVars, faultVars
<1>11. ASSUME NEW u \in Users, Start(u) PROVE SeenIsReal'
  BY <1>11 DEF Start, Leave, NamedInfo, Up, poolVars, callVars, idleVars, faultVars
<1>12. ASSUME NEW u \in Users, StartFails(u) PROVE SeenIsReal'
  BY <1>12 DEF StartFails, Leave, poolVars, callVars, idleVars, faultVars
<1>13. ASSUME NEW u \in Users, Register(u) PROVE SeenIsReal'
  BY <1>13 DEF Register, Got, poolVars, callVars, idleVars, faultVars
<1>14. ASSUME NEW u \in Users, Unready(u) PROVE SeenIsReal'
  BY <1>14 DEF Unready, poolVars, callVars, idleVars, faultVars
<1>15. ASSUME NEW u \in Users, Failed(u) PROVE SeenIsReal'
  BY <1>15 DEF Failed, Destroy, Leave, poolVars, callVars, idleVars, faultVars
<1>16. ASSUME NEW u \in Users, Cancel(u) PROVE SeenIsReal'
  BY <1>16 DEF Cancel, Leave, poolVars, callVars, idleVars, faultVars
<1>17. ASSUME NEW u \in Users, Use(u) PROVE SeenIsReal'
  BY <1>17 DEF Use, poolVars, callVars, idleVars, faultVars
<1>18. ASSUME NEW u \in Users, Release(u) PROVE SeenIsReal'
  BY <1>18 DEF Release, poolVars, callVars, idleVars, faultVars
<1>19. ASSUME NEW s \in Sandboxes, Age(s) PROVE SeenIsReal'
  BY <1>19 DEF Age, poolVars, callVars, idleVars, faultVars
<1>20. ASSUME NEW s \in Sandboxes, Verify(s) PROVE SeenIsReal'
  BY <1>20 DEF Verify, poolVars, callVars, idleVars, faultVars
<1>21. ASSUME NEW s \in Sandboxes, Condemn(s) PROVE SeenIsReal'
  BY <1>21 DEF Condemn, Forget, Removed, poolVars, callVars, idleVars, faultVars
<1>22. CASE Sweep
  BY <1>22 DEF Sweep, poolVars, callVars, idleVars, faultVars
<1>23. ASSUME NEW i \in dying \cup victims, StopIdle(i) PROVE SeenIsReal'
  BY <1>23 DEF StopIdle, Destroy, poolVars, callVars, idleVars, faultVars
<1>24. ASSUME NEW c \in running, Crash(c) PROVE SeenIsReal'
  BY <1>24 DEF Crash, poolVars, callVars, idleVars, faultVars
<1> QED
  BY <1>0, <1>1, <1>2, <1>3, <1>4, <1>5, <1>6, <1>7, <1>8, <1>9, <1>10, <1>11, <1>12, <1>13, <1>14, <1>15, <1>16, <1>17, <1>18, <1>19, <1>20, <1>21, <1>22, <1>23, <1>24
  DEF Next, UserStep

\* Every step keeps the tables.
LEMMA TypeStep == TypeOK /\ SeenIsReal /\ [Next]_vars => TypeOK'
<1> SUFFICES ASSUME TypeOK /\ SeenIsReal, [Next]_vars PROVE TypeOK' OBVIOUS
<1> USE SandboxPoolAssumption DEF TypeOK, SeenIsReal, Info, Container, NoInfo, Of, OnePerSandbox, Stages, Stopped
<1>0. CASE UNCHANGED vars BY <1>0 DEF vars, poolVars, callVars, idleVars, faultVars
<1>1. ASSUME NEW u \in Users, Enter(u) PROVE TypeOK'
  BY <1>1 DEF Enter, poolVars, callVars, idleVars, faultVars
<1>2. ASSUME NEW u \in Users, Look(u) PROVE TypeOK'
  BY <1>2 DEF Look, Miss, Leave, Pool, poolVars, callVars, idleVars, faultVars
<1>3. ASSUME NEW u \in Users, Check(u) PROVE TypeOK'
  BY <1>3 DEF Check, Up, poolVars, callVars, idleVars, faultVars
<1>4. ASSUME NEW u \in Users, Take(u) PROVE TypeOK'
  BY <1>4 DEF Take, Miss, Leave, Got, Pool, poolVars, callVars, idleVars, faultVars
<1>5. ASSUME NEW u \in Users, Drop(u) PROVE TypeOK'
  BY <1>5 DEF Drop, Miss, Leave, Forget, Removed, poolVars, callVars, idleVars, faultVars
<1>6. ASSUME NEW u \in Users, Stop(u) PROVE TypeOK'
  BY <1>6 DEF Stop, Destroy, Miss, Leave, poolVars, callVars, idleVars, faultVars
<1>7. ASSUME NEW u \in Users, Discover(u) PROVE TypeOK'
  BY <1>7 DEF Discover, Leave, NamedInfo, poolVars, callVars, idleVars, faultVars
<1>8. ASSUME NEW u \in Users, Count(u) PROVE TypeOK'
  BY <1>8 DEF Count, poolVars, callVars, idleVars, faultVars
<1>9. ASSUME NEW u \in Users, Evict(u) PROVE TypeOK'
  BY <1>9 DEF Evict, Leave, poolVars, callVars, idleVars, faultVars
<1>10. ASSUME NEW u \in Users, Evicted(u) PROVE TypeOK'
  BY <1>10 DEF Evicted, Destroy, Leave, poolVars, callVars, idleVars, faultVars
<1>11. ASSUME NEW u \in Users, Start(u) PROVE TypeOK'
  BY <1>11 DEF Start, Leave, NamedInfo, Up, poolVars, callVars, idleVars, faultVars
<1>12. ASSUME NEW u \in Users, StartFails(u) PROVE TypeOK'
  BY <1>12 DEF StartFails, Leave, poolVars, callVars, idleVars, faultVars
<1>13. ASSUME NEW u \in Users, Register(u) PROVE TypeOK'
  BY <1>13 DEF Register, Got, poolVars, callVars, idleVars, faultVars
<1>14. ASSUME NEW u \in Users, Unready(u) PROVE TypeOK'
  BY <1>14 DEF Unready, poolVars, callVars, idleVars, faultVars
<1>15. ASSUME NEW u \in Users, Failed(u) PROVE TypeOK'
  BY <1>15 DEF Failed, Destroy, Leave, poolVars, callVars, idleVars, faultVars
<1>16. ASSUME NEW u \in Users, Cancel(u) PROVE TypeOK'
  BY <1>16 DEF Cancel, Leave, poolVars, callVars, idleVars, faultVars
<1>17. ASSUME NEW u \in Users, Use(u) PROVE TypeOK'
  BY <1>17 DEF Use, poolVars, callVars, idleVars, faultVars
<1>18. ASSUME NEW u \in Users, Release(u) PROVE TypeOK'
  BY <1>18 DEF Release, poolVars, callVars, idleVars, faultVars
<1>19. ASSUME NEW s \in Sandboxes, Age(s) PROVE TypeOK'
  BY <1>19 DEF Age, poolVars, callVars, idleVars, faultVars
<1>20. ASSUME NEW s \in Sandboxes, Verify(s) PROVE TypeOK'
  BY <1>20 DEF Verify, poolVars, callVars, idleVars, faultVars
<1>21. ASSUME NEW s \in Sandboxes, Condemn(s) PROVE TypeOK'
  BY <1>21 DEF Condemn, Forget, Removed, poolVars, callVars, idleVars, faultVars
<1>22. CASE Sweep
  BY <1>22 DEF Sweep, poolVars, callVars, idleVars, faultVars
<1>23. ASSUME NEW i \in dying \cup victims, StopIdle(i) PROVE TypeOK'
  BY <1>23 DEF StopIdle, Destroy, poolVars, callVars, idleVars, faultVars
<1>24. ASSUME NEW c \in running, Crash(c) PROVE TypeOK'
  BY <1>24 DEF Crash, poolVars, callVars, idleVars, faultVars
<1> QED
  BY <1>0, <1>1, <1>2, <1>3, <1>4, <1>5, <1>6, <1>7, <1>8, <1>9, <1>10, <1>11, <1>12, <1>13, <1>14, <1>15, <1>16, <1>17, <1>18, <1>19, <1>20, <1>21, <1>22, <1>23, <1>24
  DEF Next, UserStep

\* Every step keeps generations apart.
LEMMA GenStep == TypeOK /\ TypeOK' /\ SeenIsReal /\ Generations /\ [Next]_vars => Generations'
<1> SUFFICES ASSUME TypeOK /\ TypeOK' /\ SeenIsReal /\ Generations, [Next]_vars PROVE Generations' OBVIOUS
<1> USE SandboxPoolAssumption DEF TypeOK, SeenIsReal, Generations, Info, Container, NoInfo, Of
<1>0. CASE UNCHANGED vars BY <1>0 DEF vars, poolVars, callVars, idleVars, faultVars
<1>1. ASSUME NEW u \in Users, Enter(u) PROVE Generations'
  BY <1>1 DEF Enter, poolVars, callVars, idleVars, faultVars
<1>2. ASSUME NEW u \in Users, Look(u) PROVE Generations'
  BY <1>2 DEF Look, Miss, Leave, Pool, poolVars, callVars, idleVars, faultVars
<1>3. ASSUME NEW u \in Users, Check(u) PROVE Generations'
  BY <1>3 DEF Check, Up, poolVars, callVars, idleVars, faultVars
<1>4. ASSUME NEW u \in Users, Take(u) PROVE Generations'
  BY <1>4 DEF Take, Miss, Leave, Got, Pool, poolVars, callVars, idleVars, faultVars
<1>5. ASSUME NEW u \in Users, Drop(u) PROVE Generations'
  BY <1>5 DEF Drop, Miss, Leave, Forget, Removed, poolVars, callVars, idleVars, faultVars
<1>6. ASSUME NEW u \in Users, Stop(u) PROVE Generations'
  BY <1>6 DEF Stop, Destroy, Miss, Leave, poolVars, callVars, idleVars, faultVars
<1>7. ASSUME NEW u \in Users, Discover(u) PROVE Generations'
  BY <1>7 DEF Discover, Leave, NamedInfo, poolVars, callVars, idleVars, faultVars
<1>8. ASSUME NEW u \in Users, Count(u) PROVE Generations'
  BY <1>8 DEF Count, poolVars, callVars, idleVars, faultVars
<1>9. ASSUME NEW u \in Users, Evict(u) PROVE Generations'
  BY <1>9 DEF Evict, Leave, poolVars, callVars, idleVars, faultVars
<1>10. ASSUME NEW u \in Users, Evicted(u) PROVE Generations'
  BY <1>10 DEF Evicted, Destroy, Leave, poolVars, callVars, idleVars, faultVars
<1>11. ASSUME NEW u \in Users, Start(u) PROVE Generations'
  BY <1>11 DEF Start, Leave, NamedInfo, Up, poolVars, callVars, idleVars, faultVars
<1>12. ASSUME NEW u \in Users, StartFails(u) PROVE Generations'
  BY <1>12 DEF StartFails, Leave, poolVars, callVars, idleVars, faultVars
<1>13. ASSUME NEW u \in Users, Register(u) PROVE Generations'
  BY <1>13 DEF Register, Got, poolVars, callVars, idleVars, faultVars
<1>14. ASSUME NEW u \in Users, Unready(u) PROVE Generations'
  BY <1>14 DEF Unready, poolVars, callVars, idleVars, faultVars
<1>15. ASSUME NEW u \in Users, Failed(u) PROVE Generations'
  BY <1>15 DEF Failed, Destroy, Leave, poolVars, callVars, idleVars, faultVars
<1>16. ASSUME NEW u \in Users, Cancel(u) PROVE Generations'
  BY <1>16 DEF Cancel, Leave, poolVars, callVars, idleVars, faultVars
<1>17. ASSUME NEW u \in Users, Use(u) PROVE Generations'
  BY <1>17 DEF Use, poolVars, callVars, idleVars, faultVars
<1>18. ASSUME NEW u \in Users, Release(u) PROVE Generations'
  BY <1>18 DEF Release, poolVars, callVars, idleVars, faultVars
<1>19. ASSUME NEW s \in Sandboxes, Age(s) PROVE Generations'
  BY <1>19 DEF Age, poolVars, callVars, idleVars, faultVars
<1>20. ASSUME NEW s \in Sandboxes, Verify(s) PROVE Generations'
  BY <1>20 DEF Verify, poolVars, callVars, idleVars, faultVars
<1>21. ASSUME NEW s \in Sandboxes, Condemn(s) PROVE Generations'
  BY <1>21 DEF Condemn, Forget, Removed, poolVars, callVars, idleVars, faultVars
<1>22. CASE Sweep
  BY <1>22 DEF Sweep, poolVars, callVars, idleVars, faultVars
<1>23. ASSUME NEW i \in dying \cup victims, StopIdle(i) PROVE Generations'
  BY <1>23 DEF StopIdle, Destroy, poolVars, callVars, idleVars, faultVars
<1>24. ASSUME NEW c \in running, Crash(c) PROVE Generations'
  BY <1>24 DEF Crash, poolVars, callVars, idleVars, faultVars
<1> QED
  BY <1>0, <1>1, <1>2, <1>3, <1>4, <1>5, <1>6, <1>7, <1>8, <1>9, <1>10, <1>11, <1>12, <1>13, <1>14, <1>15, <1>16, <1>17, <1>18, <1>19, <1>20, <1>21, <1>22, <1>23, <1>24
  DEF Next, UserStep

\* Every step keeps a lookup to its sandbox.
LEMMA OwnStep == TypeOK /\ TypeOK' /\ SeenIsReal /\ LooksAtOwn /\ [Next]_vars => LooksAtOwn'
<1> SUFFICES ASSUME TypeOK /\ TypeOK' /\ SeenIsReal /\ LooksAtOwn, [Next]_vars PROVE LooksAtOwn' OBVIOUS
<1> USE SandboxPoolAssumption DEF TypeOK, SeenIsReal, LooksAtOwn, Info, Container, NoInfo, Of
<1>0. CASE UNCHANGED vars BY <1>0 DEF vars, poolVars, callVars, idleVars, faultVars
<1>1. ASSUME NEW u \in Users, Enter(u) PROVE LooksAtOwn'
  BY <1>1 DEF Enter, poolVars, callVars, idleVars, faultVars
<1>2. ASSUME NEW u \in Users, Look(u) PROVE LooksAtOwn'
  BY <1>2 DEF Look, Miss, Leave, Pool, poolVars, callVars, idleVars, faultVars
<1>3. ASSUME NEW u \in Users, Check(u) PROVE LooksAtOwn'
  BY <1>3 DEF Check, Up, poolVars, callVars, idleVars, faultVars
<1>4. ASSUME NEW u \in Users, Take(u) PROVE LooksAtOwn'
  BY <1>4 DEF Take, Miss, Leave, Got, Pool, poolVars, callVars, idleVars, faultVars
<1>5. ASSUME NEW u \in Users, Drop(u) PROVE LooksAtOwn'
  BY <1>5 DEF Drop, Miss, Leave, Forget, Removed, poolVars, callVars, idleVars, faultVars
<1>6. ASSUME NEW u \in Users, Stop(u) PROVE LooksAtOwn'
  BY <1>6 DEF Stop, Destroy, Miss, Leave, poolVars, callVars, idleVars, faultVars
<1>7. ASSUME NEW u \in Users, Discover(u) PROVE LooksAtOwn'
  BY <1>7 DEF Discover, Leave, NamedInfo, poolVars, callVars, idleVars, faultVars
<1>8. ASSUME NEW u \in Users, Count(u) PROVE LooksAtOwn'
  BY <1>8 DEF Count, poolVars, callVars, idleVars, faultVars
<1>9. ASSUME NEW u \in Users, Evict(u) PROVE LooksAtOwn'
  BY <1>9 DEF Evict, Leave, poolVars, callVars, idleVars, faultVars
<1>10. ASSUME NEW u \in Users, Evicted(u) PROVE LooksAtOwn'
  BY <1>10 DEF Evicted, Destroy, Leave, poolVars, callVars, idleVars, faultVars
<1>11. ASSUME NEW u \in Users, Start(u) PROVE LooksAtOwn'
  BY <1>11 DEF Start, Leave, NamedInfo, Up, poolVars, callVars, idleVars, faultVars
<1>12. ASSUME NEW u \in Users, StartFails(u) PROVE LooksAtOwn'
  BY <1>12 DEF StartFails, Leave, poolVars, callVars, idleVars, faultVars
<1>13. ASSUME NEW u \in Users, Register(u) PROVE LooksAtOwn'
  BY <1>13 DEF Register, Got, poolVars, callVars, idleVars, faultVars
<1>14. ASSUME NEW u \in Users, Unready(u) PROVE LooksAtOwn'
  BY <1>14 DEF Unready, poolVars, callVars, idleVars, faultVars
<1>15. ASSUME NEW u \in Users, Failed(u) PROVE LooksAtOwn'
  BY <1>15 DEF Failed, Destroy, Leave, poolVars, callVars, idleVars, faultVars
<1>16. ASSUME NEW u \in Users, Cancel(u) PROVE LooksAtOwn'
  BY <1>16 DEF Cancel, Leave, poolVars, callVars, idleVars, faultVars
<1>17. ASSUME NEW u \in Users, Use(u) PROVE LooksAtOwn'
  BY <1>17 DEF Use, poolVars, callVars, idleVars, faultVars
<1>18. ASSUME NEW u \in Users, Release(u) PROVE LooksAtOwn'
  BY <1>18 DEF Release, poolVars, callVars, idleVars, faultVars
<1>19. ASSUME NEW s \in Sandboxes, Age(s) PROVE LooksAtOwn'
  BY <1>19 DEF Age, poolVars, callVars, idleVars, faultVars
<1>20. ASSUME NEW s \in Sandboxes, Verify(s) PROVE LooksAtOwn'
  BY <1>20 DEF Verify, poolVars, callVars, idleVars, faultVars
<1>21. ASSUME NEW s \in Sandboxes, Condemn(s) PROVE LooksAtOwn'
  BY <1>21 DEF Condemn, Forget, Removed, poolVars, callVars, idleVars, faultVars
<1>22. CASE Sweep
  BY <1>22 DEF Sweep, poolVars, callVars, idleVars, faultVars
<1>23. ASSUME NEW i \in dying \cup victims, StopIdle(i) PROVE LooksAtOwn'
  BY <1>23 DEF StopIdle, Destroy, poolVars, callVars, idleVars, faultVars
<1>24. ASSUME NEW c \in running, Crash(c) PROVE LooksAtOwn'
  BY <1>24 DEF Crash, poolVars, callVars, idleVars, faultVars
<1> QED
  BY <1>0, <1>1, <1>2, <1>3, <1>4, <1>5, <1>6, <1>7, <1>8, <1>9, <1>10, <1>11, <1>12, <1>13, <1>14, <1>15, <1>16, <1>17, <1>18, <1>19, <1>20, <1>21, <1>22, <1>23, <1>24
  DEF Next, UserStep

\* Every step keeps a verdict true.
LEMMA VerdictStep == TypeOK /\ TypeOK' /\ SeenIsReal /\ Generations /\ VerdictStands /\ LooksAtOwn /\ [Next]_vars => VerdictStands'
<1> SUFFICES ASSUME TypeOK /\ TypeOK' /\ SeenIsReal /\ Generations /\ VerdictStands /\ LooksAtOwn, [Next]_vars PROVE VerdictStands' OBVIOUS
<1> USE SandboxPoolAssumption DEF TypeOK, SeenIsReal, LooksAtOwn, Generations, VerdictStands, ContainerOf, Info, Container, NoInfo, Of
<1>0. CASE UNCHANGED vars BY <1>0 DEF vars, poolVars, callVars, idleVars, faultVars
<1>1. ASSUME NEW u \in Users, Enter(u) PROVE VerdictStands'
  BY <1>1 DEF Enter, poolVars, callVars, idleVars, faultVars
<1>2. ASSUME NEW u \in Users, Look(u) PROVE VerdictStands'
  BY <1>2 DEF Look, Miss, Leave, Pool, poolVars, callVars, idleVars, faultVars
<1>3. ASSUME NEW u \in Users, Check(u) PROVE VerdictStands'
  BY <1>3 DEF Check, Up, poolVars, callVars, idleVars, faultVars
<1>4. ASSUME NEW u \in Users, Take(u) PROVE VerdictStands'
  BY <1>4 DEF Take, Miss, Leave, Got, Pool, poolVars, callVars, idleVars, faultVars
<1>5. ASSUME NEW u \in Users, Drop(u) PROVE VerdictStands'
  BY <1>5 DEF Drop, Miss, Leave, Forget, Removed, poolVars, callVars, idleVars, faultVars
<1>6. ASSUME NEW u \in Users, Stop(u) PROVE VerdictStands'
  BY <1>6 DEF Stop, Destroy, Miss, Leave, poolVars, callVars, idleVars, faultVars
<1>7. ASSUME NEW u \in Users, Discover(u) PROVE VerdictStands'
  BY <1>7 DEF Discover, Leave, NamedInfo, poolVars, callVars, idleVars, faultVars
<1>8. ASSUME NEW u \in Users, Count(u) PROVE VerdictStands'
  BY <1>8 DEF Count, poolVars, callVars, idleVars, faultVars
<1>9. ASSUME NEW u \in Users, Evict(u) PROVE VerdictStands'
  BY <1>9 DEF Evict, Leave, poolVars, callVars, idleVars, faultVars
<1>10. ASSUME NEW u \in Users, Evicted(u) PROVE VerdictStands'
  BY <1>10 DEF Evicted, Destroy, Leave, poolVars, callVars, idleVars, faultVars
<1>11. ASSUME NEW u \in Users, Start(u) PROVE VerdictStands'
  BY <1>11 DEF Start, Leave, NamedInfo, Up, poolVars, callVars, idleVars, faultVars
<1>12. ASSUME NEW u \in Users, StartFails(u) PROVE VerdictStands'
  BY <1>12 DEF StartFails, Leave, poolVars, callVars, idleVars, faultVars
<1>13. ASSUME NEW u \in Users, Register(u) PROVE VerdictStands'
  BY <1>13 DEF Register, Got, poolVars, callVars, idleVars, faultVars
<1>14. ASSUME NEW u \in Users, Unready(u) PROVE VerdictStands'
  BY <1>14 DEF Unready, poolVars, callVars, idleVars, faultVars
<1>15. ASSUME NEW u \in Users, Failed(u) PROVE VerdictStands'
  BY <1>15 DEF Failed, Destroy, Leave, poolVars, callVars, idleVars, faultVars
<1>16. ASSUME NEW u \in Users, Cancel(u) PROVE VerdictStands'
  BY <1>16 DEF Cancel, Leave, poolVars, callVars, idleVars, faultVars
<1>17. ASSUME NEW u \in Users, Use(u) PROVE VerdictStands'
  BY <1>17 DEF Use, poolVars, callVars, idleVars, faultVars
<1>18. ASSUME NEW u \in Users, Release(u) PROVE VerdictStands'
  BY <1>18 DEF Release, poolVars, callVars, idleVars, faultVars
<1>19. ASSUME NEW s \in Sandboxes, Age(s) PROVE VerdictStands'
  BY <1>19 DEF Age, poolVars, callVars, idleVars, faultVars
<1>20. ASSUME NEW s \in Sandboxes, Verify(s) PROVE VerdictStands'
  BY <1>20 DEF Verify, poolVars, callVars, idleVars, faultVars
<1>21. ASSUME NEW s \in Sandboxes, Condemn(s) PROVE VerdictStands'
  BY <1>21 DEF Condemn, Forget, Removed, poolVars, callVars, idleVars, faultVars
<1>22. CASE Sweep
  BY <1>22 DEF Sweep, poolVars, callVars, idleVars, faultVars
<1>23. ASSUME NEW i \in dying \cup victims, StopIdle(i) PROVE VerdictStands'
  BY <1>23 DEF StopIdle, Destroy, poolVars, callVars, idleVars, faultVars
<1>24. ASSUME NEW c \in running, Crash(c) PROVE VerdictStands'
  BY <1>24 DEF Crash, poolVars, callVars, idleVars, faultVars
<1> QED
  BY <1>0, <1>1, <1>2, <1>3, <1>4, <1>5, <1>6, <1>7, <1>8, <1>9, <1>10, <1>11, <1>12, <1>13, <1>14, <1>15, <1>16, <1>17, <1>18, <1>19, <1>20, <1>21, <1>22, <1>23, <1>24
  DEF Next, UserStep

LEMMA InitHands == Init => HandsInv
BY SandboxPoolAssumption
   DEF Init, HandsInv, TypeOK, SeenIsReal, Generations, VerdictStands, LooksAtOwn, OnePerSandbox, Info, Container, NoInfo, Stages

\* What the calls have in their hands is what they take it for, in every state.
THEOREM Invariance == Spec => []HandsInv
<1>1. HandsInv /\ [Next]_vars => HandsInv' BY SeenStep, TypeStep, GenStep, OwnStep, VerdictStep DEF HandsInv
<1> QED BY InitHands, <1>1, PTL DEF Spec

\* The variables keep their types; a name is one container's and an id has at
\* most one entry in each pool.
THEOREM TypeCorrect == Spec => []TypeOK
<1>1. HandsInv => TypeOK BY DEF HandsInv
<1> QED BY <1>1, Invariance, PTL

\* A failed health check is never out of date when it is acted on: containers
\* are not revived, only made anew.
THEOREM VerdictsStand == Spec => []VerdictStands
<1>1. HandsInv => VerdictStands BY DEF HandsInv
<1> QED BY <1>1, Invariance, PTL

-----------------------------------------------------------------------------
(* No container is lost *)

\* What _remove_tracked_sandbox forgets is what is to be destroyed, one entry
\* at most.
LEMMA ForgetRemoves ==
  ASSUME TypeOK, PoolsDisjoint, NEW s \in Sandboxes, Forget(s)
  PROVE  /\ active \cup warm = (active' \cup warm') \cup Removed(s)
         /\ \A i, j \in Removed(s) : i = j
BY DEF TypeOK, PoolsDisjoint, Forget, Removed, Of, OnePerSandbox

\* Every step keeps the locks: who has one is under way, and cancelled calls
\* have none.
LEMMA LockStep == TypeOK /\ LockInv /\ [Next]_vars => LockInv'
<1> SUFFICES ASSUME TypeOK /\ LockInv, [Next]_vars PROVE LockInv' OBVIOUS
<1> USE SandboxPoolAssumption DEF TypeOK, LockInv, Stages
<1>0. CASE UNCHANGED vars BY <1>0 DEF vars, poolVars, callVars, idleVars, faultVars
<1>1. ASSUME NEW u \in Users, Enter(u) PROVE LockInv'
  BY <1>1 DEF Enter, poolVars, callVars, idleVars, faultVars
<1>2. ASSUME NEW u \in Users, Look(u) PROVE LockInv'
  BY <1>2 DEF Look, Miss, Leave, Pool, poolVars, callVars, idleVars, faultVars
<1>3. ASSUME NEW u \in Users, Check(u) PROVE LockInv'
  BY <1>3 DEF Check, Up, poolVars, callVars, idleVars, faultVars
<1>4. ASSUME NEW u \in Users, Take(u) PROVE LockInv'
  BY <1>4 DEF Take, Miss, Leave, Got, Pool, poolVars, callVars, idleVars, faultVars
<1>5. ASSUME NEW u \in Users, Drop(u) PROVE LockInv'
  BY <1>5 DEF Drop, Miss, Leave, Forget, Removed, poolVars, callVars, idleVars, faultVars
<1>6. ASSUME NEW u \in Users, Stop(u) PROVE LockInv'
  BY <1>6 DEF Stop, Destroy, Miss, Leave, poolVars, callVars, idleVars, faultVars
<1>7. ASSUME NEW u \in Users, Discover(u) PROVE LockInv'
  BY <1>7 DEF Discover, Leave, NamedInfo, poolVars, callVars, idleVars, faultVars
<1>8. ASSUME NEW u \in Users, Count(u) PROVE LockInv'
  BY <1>8 DEF Count, poolVars, callVars, idleVars, faultVars
<1>9. ASSUME NEW u \in Users, Evict(u) PROVE LockInv'
  BY <1>9 DEF Evict, Leave, poolVars, callVars, idleVars, faultVars
<1>10. ASSUME NEW u \in Users, Evicted(u) PROVE LockInv'
  BY <1>10 DEF Evicted, Destroy, Leave, poolVars, callVars, idleVars, faultVars
<1>11. ASSUME NEW u \in Users, Start(u) PROVE LockInv'
  BY <1>11 DEF Start, Leave, NamedInfo, Up, poolVars, callVars, idleVars, faultVars
<1>12. ASSUME NEW u \in Users, StartFails(u) PROVE LockInv'
  BY <1>12 DEF StartFails, Leave, poolVars, callVars, idleVars, faultVars
<1>13. ASSUME NEW u \in Users, Register(u) PROVE LockInv'
  BY <1>13 DEF Register, Got, poolVars, callVars, idleVars, faultVars
<1>14. ASSUME NEW u \in Users, Unready(u) PROVE LockInv'
  BY <1>14 DEF Unready, poolVars, callVars, idleVars, faultVars
<1>15. ASSUME NEW u \in Users, Failed(u) PROVE LockInv'
  BY <1>15 DEF Failed, Destroy, Leave, poolVars, callVars, idleVars, faultVars
<1>16. ASSUME NEW u \in Users, Cancel(u) PROVE LockInv'
  BY <1>16 DEF Cancel, Leave, poolVars, callVars, idleVars, faultVars
<1>17. ASSUME NEW u \in Users, Use(u) PROVE LockInv'
  BY <1>17 DEF Use, poolVars, callVars, idleVars, faultVars
<1>18. ASSUME NEW u \in Users, Release(u) PROVE LockInv'
  BY <1>18 DEF Release, poolVars, callVars, idleVars, faultVars
<1>19. ASSUME NEW s \in Sandboxes, Age(s) PROVE LockInv'
  BY <1>19 DEF Age, poolVars, callVars, idleVars, faultVars
<1>20. ASSUME NEW s \in Sandboxes, Verify(s) PROVE LockInv'
  BY <1>20 DEF Verify, poolVars, callVars, idleVars, faultVars
<1>21. ASSUME NEW s \in Sandboxes, Condemn(s) PROVE LockInv'
  BY <1>21 DEF Condemn, Forget, Removed, poolVars, callVars, idleVars, faultVars
<1>22. CASE Sweep
  BY <1>22 DEF Sweep, poolVars, callVars, idleVars, faultVars
<1>23. ASSUME NEW i \in dying \cup victims, StopIdle(i) PROVE LockInv'
  BY <1>23 DEF StopIdle, Destroy, poolVars, callVars, idleVars, faultVars
<1>24. ASSUME NEW c \in running, Crash(c) PROVE LockInv'
  BY <1>24 DEF Crash, poolVars, callVars, idleVars, faultVars
<1> QED
  BY <1>0, <1>1, <1>2, <1>3, <1>4, <1>5, <1>6, <1>7, <1>8, <1>9, <1>10, <1>11, <1>12, <1>13, <1>14, <1>15, <1>16, <1>17, <1>18, <1>19, <1>20, <1>21, <1>22, <1>23, <1>24
  DEF Next, UserStep

\* Every step keeps a sandbox in one pool: who registers one knows that it is
\* in none.
LEMMA DisjointStep == TypeOK /\ SeenIsReal /\ LockInv /\ PoolsDisjoint /\ KnowledgeInv /\ [Next]_vars => PoolsDisjoint'
<1> SUFFICES ASSUME TypeOK /\ SeenIsReal /\ LockInv /\ PoolsDisjoint /\ KnowledgeInv, [Next]_vars PROVE PoolsDisjoint' OBVIOUS
<1> USE SandboxPoolAssumption DEF TypeOK, LockInv, PoolsDisjoint, KnowledgeInv, Knows, PastLookups, Tracked, Of
<1>0. CASE UNCHANGED vars BY <1>0 DEF vars, poolVars, callVars, idleVars, faultVars
<1>1. ASSUME NEW u \in Users, Enter(u) PROVE PoolsDisjoint'
  BY <1>1 DEF Enter, poolVars, callVars, idleVars, faultVars
<1>2. ASSUME NEW u \in Users, Look(u) PROVE PoolsDisjoint'
  BY <1>2 DEF Look, Miss, Leave, Pool, poolVars, callVars, idleVars, faultVars
<1>3. ASSUME NEW u \in Users, Check(u) PROVE PoolsDisjoint'
  BY <1>3 DEF Check, Up, poolVars, callVars, idleVars, faultVars
<1>4. ASSUME NEW u \in Users, Take(u) PROVE PoolsDisjoint'
  <2>1. CASE UNCHANGED <<active, warm>> BY <2>1
  <2>2. ASSUME NEW i \in warm, warm' = warm \ {i},
               active' = (active \ Of(i.s, active)) \cup {i}
        PROVE PoolsDisjoint'
    <3>1. Of(i.s, warm') = {} BY <2>2 DEF OnePerSandbox
    <3>2. ASSUME NEW s \in Sandboxes, s # i.s
          PROVE Of(s, active)' = Of(s, active) /\ Of(s, warm)' = Of(s, warm)
      BY <2>2, <3>2
    <3> QED BY <3>1, <3>2
  <2> QED BY <1>4, <2>1, <2>2 DEF Take, Pool, poolVars
<1>5. ASSUME NEW u \in Users, Drop(u) PROVE PoolsDisjoint'
  BY <1>5 DEF Drop, Miss, Leave, Forget, Removed, poolVars, callVars, idleVars, faultVars
<1>6. ASSUME NEW u \in Users, Stop(u) PROVE PoolsDisjoint'
  BY <1>6 DEF Stop, Destroy, Miss, Leave, poolVars, callVars, idleVars, faultVars
<1>7. ASSUME NEW u \in Users, Discover(u) PROVE PoolsDisjoint'
  BY <1>7 DEF Discover, Leave, NamedInfo, poolVars, callVars, idleVars, faultVars
<1>8. ASSUME NEW u \in Users, Count(u) PROVE PoolsDisjoint'
  BY <1>8 DEF Count, poolVars, callVars, idleVars, faultVars
<1>9. ASSUME NEW u \in Users, Evict(u) PROVE PoolsDisjoint'
  BY <1>9 DEF Evict, Leave, poolVars, callVars, idleVars, faultVars
<1>10. ASSUME NEW u \in Users, Evicted(u) PROVE PoolsDisjoint'
  BY <1>10 DEF Evicted, Destroy, Leave, poolVars, callVars, idleVars, faultVars
<1>11. ASSUME NEW u \in Users, Start(u) PROVE PoolsDisjoint'
  BY <1>11 DEF Start, Leave, NamedInfo, Up, poolVars, callVars, idleVars, faultVars
<1>12. ASSUME NEW u \in Users, StartFails(u) PROVE PoolsDisjoint'
  BY <1>12 DEF StartFails, Leave, poolVars, callVars, idleVars, faultVars
<1>13. ASSUME NEW u \in Users, Register(u) PROVE PoolsDisjoint'
  <2>1. u \in held /\ seen[u].s = SandboxOf[u]
    BY <1>13 DEF Register, SeenIsReal
  <2>2. Of(SandboxOf[u], active \cup warm) = {}
    BY <1>13, <2>1 DEF Register
  <2> QED
    BY <1>13, <2>1, <2>2 DEF Register
<1>14. ASSUME NEW u \in Users, Unready(u) PROVE PoolsDisjoint'
  BY <1>14 DEF Unready, poolVars, callVars, idleVars, faultVars
<1>15. ASSUME NEW u \in Users, Failed(u) PROVE PoolsDisjoint'
  BY <1>15 DEF Failed, Destroy, Leave, poolVars, callVars, idleVars, faultVars
<1>16. ASSUME NEW u \in Users, Cancel(u) PROVE PoolsDisjoint'
  BY <1>16 DEF Cancel, Leave, poolVars, callVars, idleVars, faultVars
<1>17. ASSUME NEW u \in Users, Use(u) PROVE PoolsDisjoint'
  BY <1>17 DEF Use, poolVars, callVars, idleVars, faultVars
<1>18. ASSUME NEW u \in Users, Release(u) PROVE PoolsDisjoint'
  BY <1>18 DEF Release, poolVars, callVars, idleVars, faultVars
<1>19. ASSUME NEW s \in Sandboxes, Age(s) PROVE PoolsDisjoint'
  BY <1>19 DEF Age, poolVars, callVars, idleVars, faultVars
<1>20. ASSUME NEW s \in Sandboxes, Verify(s) PROVE PoolsDisjoint'
  BY <1>20 DEF Verify, poolVars, callVars, idleVars, faultVars
<1>21. ASSUME NEW s \in Sandboxes, Condemn(s) PROVE PoolsDisjoint'
  BY <1>21 DEF Condemn, Forget, Removed, poolVars, callVars, idleVars, faultVars
<1>22. CASE Sweep
  BY <1>22 DEF Sweep, poolVars, callVars, idleVars, faultVars
<1>23. ASSUME NEW i \in dying \cup victims, StopIdle(i) PROVE PoolsDisjoint'
  BY <1>23 DEF StopIdle, Destroy, poolVars, callVars, idleVars, faultVars
<1>24. ASSUME NEW c \in running, Crash(c) PROVE PoolsDisjoint'
  BY <1>24 DEF Crash, poolVars, callVars, idleVars, faultVars
<1> QED
  BY <1>0, <1>1, <1>2, <1>3, <1>4, <1>5, <1>6, <1>7, <1>8, <1>9, <1>10, <1>11, <1>12, <1>13, <1>14, <1>15, <1>16, <1>17, <1>18, <1>19, <1>20, <1>21, <1>22, <1>23, <1>24
  DEF Next, UserStep

\* Every step keeps what the call with the lock knows of its sandbox, if at
\* most one cancelled call of it is under way.
LEMMA KnowledgeStep == TypeOK /\ TypeOK' /\ SeenIsReal /\ LockInv /\ LockInv' /\ OneOrphan /\ OneOrphan' /\ PoolsDisjoint /\ KnowledgeInv /\ [Next]_vars => KnowledgeInv'
<1> SUFFICES ASSUME TypeOK /\ TypeOK' /\ SeenIsReal /\ LockInv /\ LockInv' /\ OneOrphan /\ OneOrphan' /\ PoolsDisjoint /\ KnowledgeInv, [Next]_vars PROVE KnowledgeInv' OBVIOUS
<1> USE SandboxPoolAssumption DEF TypeOK, SeenIsReal, LockInv, OneOrphan, PoolsDisjoint, KnowledgeInv, Knows, LookingUp, PastLookups, Tracked, NoOrphan, Of, OnePerSandbox, Stages
<1>0. CASE UNCHANGED vars BY <1>0 DEF vars, poolVars, callVars, idleVars, faultVars
<1>1. ASSUME NEW u \in Users, Enter(u) PROVE KnowledgeInv'
  BY <1>1 DEF Enter, poolVars, callVars, idleVars, faultVars
<1>2. ASSUME NEW u \in Users, Look(u) PROVE KnowledgeInv'
  BY <1>2 DEF Look, Miss, Leave, Pool, poolVars, callVars, idleVars, faultVars
<1>3. ASSUME NEW u \in Users, Check(u) PROVE KnowledgeInv'
  BY <1>3 DEF Check, Up, poolVars, callVars, idleVars, faultVars
<1>4. ASSUME NEW u \in Users, Take(u) PROVE KnowledgeInv'
  BY <1>4 DEF Take, Miss, Leave, Got, Pool, poolVars, callVars, idleVars, faultVars
<1>5. ASSUME NEW u \in Users, Drop(u) PROVE KnowledgeInv'
  BY <1>5 DEF Drop, Miss, Leave, Forget, Removed, poolVars, callVars, idleVars, faultVars
<1>6. ASSUME NEW u \in Users, Stop(u) PROVE KnowledgeInv'
  BY <1>6 DEF Stop, Destroy, Miss, Leave, poolVars, callVars, idleVars, faultVars
<1>7. ASSUME NEW u \in Users, Discover(u) PROVE KnowledgeInv'
  BY <1>7 DEF Discover, Leave, NamedInfo, poolVars, callVars, idleVars, faultVars
<1>8. ASSUME NEW u \in Users, Count(u) PROVE KnowledgeInv'
  BY <1>8 DEF Count, poolVars, callVars, idleVars, faultVars
<1>9. ASSUME NEW u \in Users, Evict(u) PROVE KnowledgeInv'
  BY <1>9 DEF Evict, Leave, poolVars, callVars, idleVars, faultVars
<1>10. ASSUME NEW u \in Users, Evicted(u) PROVE KnowledgeInv'
  BY <1>10 DEF Evicted, Destroy, Leave, poolVars, callVars, idleVars, faultVars
<1>11. ASSUME NEW u \in Users, Start(u) PROVE KnowledgeInv'
  BY <1>11 DEF Start, Leave, NamedInfo, Up, poolVars, callVars, idleVars, faultVars
<1>12. ASSUME NEW u \in Users, StartFails(u) PROVE KnowledgeInv'
  BY <1>12 DEF StartFails, Leave, poolVars, callVars, idleVars, faultVars
<1>13. ASSUME NEW u \in Users, Register(u) PROVE KnowledgeInv'
  BY <1>13 DEF Register, Got, poolVars, callVars, idleVars, faultVars
<1>14. ASSUME NEW u \in Users, Unready(u) PROVE KnowledgeInv'
  BY <1>14 DEF Unready, poolVars, callVars, idleVars, faultVars
<1>15. ASSUME NEW u \in Users, Failed(u) PROVE KnowledgeInv'
  BY <1>15 DEF Failed, Destroy, Leave, poolVars, callVars, idleVars, faultVars
<1>16. ASSUME NEW u \in Users, Cancel(u) PROVE KnowledgeInv'
  BY <1>16 DEF Cancel, Leave, poolVars, callVars, idleVars, faultVars
<1>17. ASSUME NEW u \in Users, Use(u) PROVE KnowledgeInv'
  BY <1>17 DEF Use, poolVars, callVars, idleVars, faultVars
<1>18. ASSUME NEW u \in Users, Release(u) PROVE KnowledgeInv'
  BY <1>18 DEF Release, poolVars, callVars, idleVars, faultVars
<1>19. ASSUME NEW s \in Sandboxes, Age(s) PROVE KnowledgeInv'
  BY <1>19 DEF Age, poolVars, callVars, idleVars, faultVars
<1>20. ASSUME NEW s \in Sandboxes, Verify(s) PROVE KnowledgeInv'
  BY <1>20 DEF Verify, poolVars, callVars, idleVars, faultVars
<1>21. ASSUME NEW s \in Sandboxes, Condemn(s) PROVE KnowledgeInv'
  BY <1>21 DEF Condemn, Forget, Removed, poolVars, callVars, idleVars, faultVars
<1>22. CASE Sweep
  BY <1>22 DEF Sweep, poolVars, callVars, idleVars, faultVars
<1>23. ASSUME NEW i \in dying \cup victims, StopIdle(i) PROVE KnowledgeInv'
  BY <1>23 DEF StopIdle, Destroy, poolVars, callVars, idleVars, faultVars
<1>24. ASSUME NEW c \in running, Crash(c) PROVE KnowledgeInv'
  BY <1>24 DEF Crash, poolVars, callVars, idleVars, faultVars
<1> QED
  BY <1>0, <1>1, <1>2, <1>3, <1>4, <1>5, <1>6, <1>7, <1>8, <1>9, <1>10, <1>11, <1>12, <1>13, <1>14, <1>15, <1>16, <1>17, <1>18, <1>19, <1>20, <1>21, <1>22, <1>23, <1>24
  DEF Next, UserStep

\* Every step keeps each container that runs in somebody's hands.
LEMMA CoverStep == TypeOK /\ SeenIsReal /\ LockInv /\ PoolsDisjoint /\ KnowledgeInv /\ CoverInv /\ [Next]_vars => CoverInv'
<1> SUFFICES ASSUME TypeOK /\ SeenIsReal /\ LockInv /\ PoolsDisjoint /\ KnowledgeInv /\ CoverInv, [Next]_vars PROVE CoverInv' OBVIOUS
<1> USE SandboxPoolAssumption DEF TypeOK, SeenIsReal, LockInv, CoverInv, Covered, Stopped, Of
<1>0. CASE UNCHANGED vars BY <1>0 DEF vars, poolVars, callVars, idleVars, faultVars
<1>1. ASSUME NEW u \in Users, Enter(u) PROVE CoverInv'
  BY <1>1 DEF Enter, poolVars, callVars, idleVars, faultVars
<1>2. ASSUME NEW u \in Users, Look(u) PROVE CoverInv'
  BY <1>2 DEF Look, Miss, Leave, Pool, poolVars, callVars, idleVars, faultVars
<1>3. ASSUME NEW u \in Users, Check(u) PROVE CoverInv'
  BY <1>3 DEF Check, Up, poolVars, callVars, idleVars, faultVars
<1>4. ASSUME NEW u \in Users, Take(u) PROVE CoverInv'
  <2>1. active' \cup warm' = active \cup warm
    <3>1. CASE UNCHANGED <<active, warm>> BY <3>1
    <3>2. ASSUME NEW i \in warm, warm' = warm \ {i},
                 active' = (active \ Of(i.s, active)) \cup {i}
          PROVE active' \cup warm' = active \cup warm
      <4>1. Of(i.s, active) = {} BY <3>2 DEF PoolsDisjoint, Info
      <4> QED BY <3>2, <4>1
    <3> QED BY <1>4, <3>1, <3>2 DEF Take, Pool, poolVars
  <2>2. \A v \in Users : at[v] \in {"stop", "evicting", "ready", "failing"}
                          => at'[v] = at[v] /\ seen'[v] = seen[v]
    BY <1>4 DEF Take, Miss, Leave, Got, callVars
  <2> QED BY <1>4, <2>1, <2>2 DEF Take, idleVars
<1>5. ASSUME NEW u \in Users, Drop(u) PROVE CoverInv'
  <2> DEFINE s == SandboxOf[u]
  <2>1. s \in Sandboxes BY SandboxPoolAssumption
  <2>2. CASE UNCHANGED <<poolVars, seen>>
    <3>1. \A v \in Users : at[v] \in {"stop", "evicting", "ready", "failing"} => at'[v] = at[v]
      BY <1>5, <2>2 DEF Drop, Miss, Leave, Forget
    <3> QED BY <1>5, <2>2, <3>1 DEF Drop, poolVars, idleVars
  <2>3. ASSUME Forget(s), NEW i \in Removed(s), seen' = [seen EXCEPT ![u] = i],
               at' = [at EXCEPT ![u] = "stop"]
        PROVE CoverInv'
    <3>1. active \cup warm = (active' \cup warm') \cup {i}
      BY <2>1, <2>3, ForgetRemoves
    <3>2. \A v \in Users : at[v] \in {"stop", "evicting", "ready", "failing"}
                            => at'[v] = at[v] /\ seen'[v] = seen[v]
      BY <1>5, <2>3 DEF Drop
    <3>3. at'[u] = "stop" /\ seen'[u] = i BY <2>3
    <3> QED BY <1>5, <3>1, <3>2, <3>3 DEF Drop, idleVars
  <2> QED BY <1>5, <2>2, <2>3 DEF Drop
<1>6. ASSUME NEW u \in Users, Stop(u) PROVE CoverInv'
  BY <1>6 DEF Stop, Destroy, Miss, Leave, poolVars, callVars, idleVars, faultVars
<1>7. ASSUME NEW u \in Users, Discover(u) PROVE CoverInv'
  BY <1>7 DEF Discover, Leave, NamedInfo, poolVars, callVars, idleVars, faultVars
<1>8. ASSUME NEW u \in Users, Count(u) PROVE CoverInv'
  BY <1>8 DEF Count, poolVars, callVars, idleVars, faultVars
<1>9. ASSUME NEW u \in Users, Evict(u) PROVE CoverInv'
  BY <1>9 DEF Evict, Leave, poolVars, callVars, idleVars, faultVars
<1>10. ASSUME NEW u \in Users, Evicted(u) PROVE CoverInv'
  BY <1>10 DEF Evicted, Destroy, Leave, poolVars, callVars, idleVars, faultVars
<1>11. ASSUME NEW u \in Users, Start(u) PROVE CoverInv'
  BY <1>11 DEF Start, Leave, NamedInfo, Up, poolVars, callVars, idleVars, faultVars
<1>12. ASSUME NEW u \in Users, StartFails(u) PROVE CoverInv'
  BY <1>12 DEF StartFails, Leave, poolVars, callVars, idleVars, faultVars
<1>13. ASSUME NEW u \in Users, Register(u) PROVE CoverInv'
  <2>1. u \in held /\ seen[u].s = SandboxOf[u] /\ SandboxOf[u] \in Sandboxes
    BY <1>13 DEF Register
  <2>2. Of(SandboxOf[u], active) = {}
    BY <1>13, <2>1 DEF Register, KnowledgeInv, Knows, PastLookups, Tracked
  <2>3. active' = active \cup {seen[u]} BY <1>13, <2>2 DEF Register
  <2>4. \A v \in Users \ {u} : at'[v] = at[v] /\ seen'[v] = seen[v]
    BY <1>13 DEF Register, Got
  <2> QED BY <1>13, <2>3, <2>4 DEF Register, idleVars
<1>14. ASSUME NEW u \in Users, Unready(u) PROVE CoverInv'
  BY <1>14 DEF Unready, poolVars, callVars, idleVars, faultVars
<1>15. ASSUME NEW u \in Users, Failed(u) PROVE CoverInv'
  BY <1>15 DEF Failed, Destroy, Leave, poolVars, callVars, idleVars, faultVars
<1>16. ASSUME NEW u \in Users, Cancel(u) PROVE CoverInv'
  BY <1>16 DEF Cancel, Leave, poolVars, callVars, idleVars, faultVars
<1>17. ASSUME NEW u \in Users, Use(u) PROVE CoverInv'
  BY <1>17 DEF Use, poolVars, callVars, idleVars, faultVars
<1>18. ASSUME NEW u \in Users, Release(u) PROVE CoverInv'
  <2> DEFINE s == SandboxOf[u]
  <2>1. s \in Sandboxes BY SandboxPoolAssumption
  <2>2. Of(s, active) = {} \/ Of(s, warm) = {} BY <2>1 DEF PoolsDisjoint
  <2>3. active' \cup warm' = active \cup warm BY <1>18, <2>2 DEF Release
  <2>4. \A v \in Users : at[v] \in {"stop", "evicting", "ready", "failing"} => at'[v] = at[v]
    BY <1>18 DEF Release
  <2> QED BY <1>18, <2>3, <2>4 DEF Release, idleVars
<1>19. ASSUME NEW s \in Sandboxes, Age(s) PROVE CoverInv'
  BY <1>19 DEF Age, poolVars, callVars, idleVars, faultVars
<1>20. ASSUME NEW s \in Sandboxes, Verify(s) PROVE CoverInv'
  BY <1>20 DEF Verify, poolVars, callVars, idleVars, faultVars
<1>21. ASSUME NEW s \in Sandboxes, Condemn(s) PROVE CoverInv'
  <2>1. active \cup warm = (active' \cup warm') \cup dying'
    BY <1>21, ForgetRemoves DEF Condemn
  <2>2. dying = {} /\ doomed' = {} BY <1>21 DEF Condemn
  <2> QED BY <1>21, <2>1, <2>2 DEF Condemn, callVars
<1>22. CASE Sweep
  BY <1>22 DEF Sweep, poolVars, callVars, idleVars, faultVars
<1>23. ASSUME NEW i \in dying \cup victims, StopIdle(i) PROVE CoverInv'
  BY <1>23 DEF StopIdle, Destroy, poolVars, callVars, idleVars, faultVars
<1>24. ASSUME NEW c \in running, Crash(c) PROVE CoverInv'
  BY <1>24 DEF Crash, poolVars, callVars, idleVars, faultVars
<1> QED
  BY <1>0, <1>1, <1>2, <1>3, <1>4, <1>5, <1>6, <1>7, <1>8, <1>9, <1>10, <1>11, <1>12, <1>13, <1>14, <1>15, <1>16, <1>17, <1>18, <1>19, <1>20, <1>21, <1>22, <1>23, <1>24
  DEF Next, UserStep

LEMMA InitPool == Init => PoolInv
<1> SUFFICES ASSUME Init PROVE PoolInv OBVIOUS
<1> USE DEF Init
<1>1. LockInv BY DEF LockInv
<1>2. PoolsDisjoint BY DEF PoolsDisjoint, Of
<1>3. KnowledgeInv BY DEF KnowledgeInv
<1>4. CoverInv
  <2> SUFFICES ASSUME NEW c \in running PROVE Covered(c) BY DEF CoverInv
  <2>1. PICK left \in SUBSET Sandboxes :
          running = [s : left, gen : {0}] /\ warm = [s : left, n : {1}, gen : {0}]
    OBVIOUS
  <2> DEFINE i == [s |-> c.s, n |-> 1, gen |-> 0]
  <2>2. i \in warm /\ c.s = i.s /\ c.gen = i.gen BY <2>1
  <2> QED BY <2>2 DEF Covered, Stopped
<1> QED BY <1>1, <1>2, <1>3, <1>4 DEF PoolInv

\* Locks, pools, the calls' knowledge and the cover of the containers hold
\* together, as long as no sandbox has two cancelled calls under way.
THEOREM PoolInvariance == Spec /\ []OneOrphan => []PoolInv
<1>1. HandsInv /\ HandsInv' /\ OneOrphan /\ OneOrphan' /\ PoolInv /\ [Next]_vars => PoolInv'
  BY LockStep, DisjointStep, KnowledgeStep, CoverStep DEF HandsInv, PoolInv
<1> QED BY InitPool, Invariance, <1>1, PTL DEF Spec

\* A container that runs on is tracked or in the hands of who can stop it.
LEMMA CoverIsHand == CoverInv => NoContainerLost
BY DEF CoverInv, Covered, NoContainerLost, InHand

\* No container is lost by the lookups, creations, evictions, releases and idle
\* sweeps, in any order, with any crashes, if of each sandbox at most one
\* cancelled call is under way.  With two it is false.
THEOREM NothingLost == Spec /\ []OneOrphan => []NoContainerLost
<1>1. PoolInv => NoContainerLost BY CoverIsHand DEF PoolInv
<1> QED BY <1>1, PoolInvariance, PTL

\* Who drops an entry drops the one it checked, and its container is gone.
LEMMA DropStep ==
  ASSUME TypeOK, LooksAtOwn, VerdictStands, PoolsDisjoint, NEW u \in Users, Drop(u)
  PROVE  \A i \in (active \cup warm) \ (active' \cup warm') : ContainerOf(i) \notin running
<1>1. CASE UNCHANGED poolVars BY <1>1 DEF poolVars
<1>2. CASE seen[u] \in active \cup warm /\ Forget(SandboxOf[u])
  <2>1. at[u] = "drop" /\ SandboxOf[u] \in Sandboxes BY SandboxPoolAssumption DEF Drop
  <2>2. seen[u].s = SandboxOf[u] /\ ContainerOf(seen[u]) \notin running
    BY <2>1 DEF LooksAtOwn, VerdictStands
  <2>3. ASSUME NEW i \in (active \cup warm) \ (active' \cup warm') PROVE i = seen[u]
    <3>1. i.s = SandboxOf[u] BY <1>2 DEF Forget, Of
    <3> QED BY <1>2, <2>1, <2>2, <3>1 DEF TypeOK, PoolsDisjoint, OnePerSandbox, Of
  <2> QED BY <2>2, <2>3
<1> QED BY <1>1, <1>2 DEF Drop

\* Nobody else ends a call that is about to drop an entry.
LEMMA OnlyDrop ==
  ASSUME TypeOK, Next, NEW u \in Users, at[u] = "drop", at'[u] # "drop"
  PROVE  Drop(u)
<1> USE DEF TypeOK, poolVars, callVars, idleVars, faultVars
<1>1. ASSUME NEW v \in Users, UserStep(v), v # u PROVE at'[u] = at[u]
  BY <1>1 DEF UserStep, Enter, Look, Check, Take, Drop, Stop, Discover, Count, Evict, Evicted,
              Start, StartFails, Register, Unready, Failed, Cancel, Use, Release, Miss, Leave, Got
<1>2. ASSUME UserStep(u), ~Drop(u) PROVE at'[u] = at[u]
  BY <1>2 DEF UserStep, Enter, Look, Check, Take, Stop, Discover, Count, Evict, Evicted,
              Start, StartFails, Register, Unready, Failed, Cancel, Use, Release
<1>3. ASSUME NEW s \in Sandboxes, Age(s) \/ Verify(s) \/ Condemn(s) PROVE at' = at
  BY <1>3 DEF Age, Verify, Condemn
<1>4. ASSUME Sweep PROVE at' = at BY <1>4 DEF Sweep
<1>5. ASSUME NEW i \in dying \cup victims, StopIdle(i) PROVE at' = at BY <1>5 DEF StopIdle
<1>6. ASSUME NEW c \in running, Crash(c) PROVE at' = at BY <1>6 DEF Crash
<1> QED BY <1>1, <1>2, <1>3, <1>4, <1>5, <1>6 DEF Next

\* No live entry is dropped on a failed health check, however often the sandbox
\* was recreated between the check and the drop, if of each sandbox at most one
\* cancelled call is under way.  With three it is false.
THEOREM LiveKept == Spec /\ []OneOrphan => LiveIsKept
<1>1. HandsInv /\ PoolInv /\ [Next]_vars =>
        [\A u \in Users :
           at[u] = "drop" /\ at'[u] # "drop" =>
             \A i \in (active \cup warm) \ (active' \cup warm') : ContainerOf(i) \notin running]_vars
  BY DropStep, OnlyDrop DEF HandsInv, PoolInv
<1> QED BY <1>1, Invariance, PoolInvariance, PTL DEF Spec, LiveIsKept

\* With one cancelled call at most no sandbox has two.
LEMMA FewCancels == ASSUME MaxCancels <= 1 PROVE Spec => []OneOrphan
<1> DEFINE Few == /\ cancels = 0 => orphans = {}
                  /\ \A u, v \in orphans : u = v
<1>1. Init => Few BY DEF Init
<1>2. TypeOK /\ Few /\ [Next]_vars => Few'
  <2> SUFFICES ASSUME TypeOK, Few, [Next]_vars PROVE Few' OBVIOUS
  <2> USE DEF TypeOK, poolVars, callVars, idleVars, faultVars
  <2>1. CASE orphans' \subseteq orphans /\ cancels' = cancels BY <2>1
  <2>2. ASSUME NEW u \in Users, Cancel(u) PROVE Few'
    BY <2>2, SandboxPoolAssumption DEF Cancel, Leave
  <2>3. ASSUME NEW u \in Users, UserStep(u), ~Cancel(u)
        PROVE orphans' \subseteq orphans /\ cancels' = cancels
    BY <2>3 DEF UserStep, Enter, Look, Check, Take, Drop, Stop, Discover, Count, Evict, Evicted,
                Start, StartFails, Register, Unready, Failed, Use, Release, Miss, Leave, Got
  <2>4. ASSUME NEW s \in Sandboxes, Age(s) \/ Verify(s) \/ Condemn(s)
        PROVE orphans' = orphans /\ cancels' = cancels
    BY <2>4 DEF Age, Verify, Condemn
  <2>5. ASSUME Sweep PROVE orphans' = orphans /\ cancels' = cancels BY <2>5 DEF Sweep
  <2>6. ASSUME NEW i \in dying \cup victims, StopIdle(i) PROVE orphans' = orphans /\ cancels' = cancels
    BY <2>6 DEF StopIdle
  <2>7. ASSUME NEW c \in running, Crash(c) PROVE orphans' = orphans /\ cancels' = cancels
    BY <2>7 DEF Crash
  <2>8. CASE UNCHANGED vars BY <2>8 DEF vars
  <2> QED BY <2>1, <2>2, <2>3, <2>4, <2>5, <2>6, <2>7, <2>8 DEF Next
<1>3. Few => OneOrphan BY DEF OneOrphan
<1> QED BY <1>1, <1>2, <1>3, TypeCorrect, PTL DEF Spec

\* What the runs see of one cancelled call holds for any users, sandboxes,
\* crashes and creations.
THEOREM OneCancelLosesNothing ==
  ASSUME MaxCancels <= 1 PROVE Spec => []NoContainerLost /\ LiveIsKept
BY FewCancels, NothingLost, LiveKept, PTL
=============================================================================
