---------------------------- MODULE SandboxPool ----------------------------
(***************************************************************************)
(* The containers of AioSandboxProvider                                    *)
(* (community/aio_sandbox/aio_sandbox_provider.py) in one process: the     *)
(* sandboxes in use, the warm pool of released ones, the calls of          *)
(* acquire_async that find, reclaim, discover or create one, and the       *)
(* thread that destroys idle ones.                                         *)
(*                                                                         *)
(* What happens under the provider's lock is one step; what the backend    *)
(* does is a step of its own.  The lock of a thread and its lock file are  *)
(* taken and released together here.  A cancelled call lets its lock go,   *)
(* but the function it had in a worker thread runs to its end.             *)
(***************************************************************************)
EXTENDS Naturals, FiniteSets

CONSTANTS Users,       \* runs and uploads that need a sandbox
          Sandboxes,   \* sandbox ids, one for each conversation thread
          SandboxOf,   \* the sandbox of a user
          Replicas,    \* config replicas
          MaxInfos,    \* bound on the SandboxInfo objects made
          MaxCrashes,  \* bound on the containers that die
          MaxCancels   \* bound on the cancelled calls

ASSUME SandboxPoolAssumption ==
  /\ SandboxOf \in [Users -> Sandboxes]
  /\ Replicas \in Nat /\ MaxInfos \in Nat
  /\ MaxCrashes \in Nat /\ MaxCancels \in Nat

VARIABLES
  running,    \* the containers: a sandbox and the number of its creation
  active,     \* _sandboxes and _sandbox_infos
  warm,       \* _warm_pool
  idle,       \* the sandboxes whose time stamp is older than idle_timeout
  made,       \* the number of SandboxInfo objects made
  \* calls of acquire
  at,         \* where a user is
  cache,      \* the pool its lookup is in
  again,      \* the users that look up the second time
  seen,       \* the info it looks at, or is about to register or destroy
  held,       \* the users that hold their thread's lock
  orphans,    \* the cancelled calls whose function still runs
  \* the idle checker
  marked,     \* sandboxes that were idle when it looked
  doomed,     \* the one it found idle again
  dying,      \* the info it removed from the active ones
  victims,    \* the infos it removed from the warm pool
  \* history and faults
  abandoned,  \* containers of cancelled creations and failed destructions
  crashes, cancels

poolVars  == <<active, warm, idle>>
callVars  == <<at, cache, again, seen, held, orphans>>
idleVars  == <<marked, doomed, dying, victims>>
faultVars == <<crashes, cancels>>
vars == <<running, poolVars, made, callVars, idleVars, abandoned, faultVars>>

Container == [s : Sandboxes, gen : Nat]

\* A SandboxInfo.  The one that its creation returned has the container's id,
\* any other one has only its name.
Info == [s : Sandboxes, n : Nat, gen : Nat]
NoInfo == [s |-> "none", n |-> 0, gen |-> 0]

ContainerOf(i) == [s |-> i.s, gen |-> i.gen]
ByName(i) == i.n # i.gen
Of(s, infos) == {i \in infos : i.s = s}
Up(s) == \E c \in running : c.s = s

\* What backend.destroy stops: the container with that id or with that name.
Stopped(i) == {c \in running : c.s = i.s /\ (ByName(i) \/ c.gen = i.gen)}

\* Everything runs and nothing is tracked but what _reconcile_orphans adopts.
Init ==
  \E left \in SUBSET Sandboxes :
    /\ running = [s : left, gen : {0}]
    /\ warm = [s : left, n : {1}, gen : {0}]
    /\ active = {} /\ idle = {} /\ made = 1
    /\ at = [u \in Users |-> "off"]
    /\ cache = [u \in Users |-> "active"]
    /\ seen = [u \in Users |-> NoInfo]
    /\ again = {} /\ held = {} /\ orphans = {}
    /\ marked = {} /\ doomed = {} /\ dying = {} /\ victims = {}
    /\ abandoned = {} /\ crashes = 0 /\ cancels = 0

-----------------------------------------------------------------------------
(* A call of acquire ends, one way or another *)

Leave(u) ==
  /\ at' = [at EXCEPT ![u] = "off"]
  /\ held' = held \ {u} /\ orphans' = orphans \ {u} /\ again' = again \ {u}

\* Nobody is left to use what a cancelled call got.
Got(u) ==
  /\ at' = [at EXCEPT ![u] = IF u \in orphans THEN "off" ELSE "using"]
  /\ held' = held \ {u} /\ orphans' = orphans \ {u} /\ again' = again \ {u}

\* The lookup goes from the active ones to the warm ones, is repeated under
\* the file lock, and gives up.  A cancelled call ends with its function: the
\* first two lookups are one each, and the second pass is one.
Miss(u) ==
  \/ /\ u \in orphans /\ ~ (cache[u] = "active" /\ u \in again)
     /\ Leave(u) /\ UNCHANGED cache
  \/ /\ cache[u] = "active" /\ (u \in orphans => u \in again)
     /\ cache' = [cache EXCEPT ![u] = "warm"]
     /\ at' = [at EXCEPT ![u] = "look"]
     /\ UNCHANGED <<held, orphans, again>>
  \/ /\ cache[u] = "warm" /\ u \notin orphans
     /\ cache' = [cache EXCEPT ![u] = "active"]
     /\ at' = [at EXCEPT ![u] = IF u \in again THEN "discover" ELSE "look"]
     /\ again' = again \cup {u}
     /\ UNCHANGED <<held, orphans>>

Pool(u) == Of(SandboxOf[u], IF cache[u] = "active" THEN active ELSE warm)

-----------------------------------------------------------------------------
(* acquire: the lookups *)

Enter(u) ==
  /\ at[u] = "off"
  /\ \A v \in held : SandboxOf[v] # SandboxOf[u]
  /\ at' = [at EXCEPT ![u] = "look"]
  /\ cache' = [cache EXCEPT ![u] = "active"]
  /\ held' = held \cup {u}
  /\ UNCHANGED <<running, poolVars, made, again, seen, orphans, idleVars, abandoned, faultVars>>

Look(u) ==
  /\ at[u] = "look"
  /\ \/ \E i \in Pool(u) :
          /\ seen' = [seen EXCEPT ![u] = i]
          /\ at' = [at EXCEPT ![u] = "check"]
          /\ UNCHANGED <<cache, again, held, orphans>>
     \/ Pool(u) = {} /\ Miss(u) /\ UNCHANGED seen
  /\ UNCHANGED <<running, poolVars, made, idleVars, abandoned, faultVars>>

\* is_alive asks for the name; when the backend cannot say, the sandbox is kept.
Check(u) ==
  /\ at[u] = "check"
  /\ \E verdict \in {"take", "drop"} :
       /\ verdict = "drop" => ~ Up(SandboxOf[u])
       /\ at' = [at EXCEPT ![u] = verdict]
  /\ UNCHANGED <<running, poolVars, made, cache, again, seen, held, orphans, idleVars,
                 abandoned, faultVars>>

Take(u) ==
  /\ at[u] = "take"
  /\ \/ Pool(u) = {} /\ Miss(u) /\ UNCHANGED poolVars
     \/ \E i \in Pool(u) :
          /\ Got(u) /\ UNCHANGED cache
          /\ idle' = idle \ {i.s}
          /\ IF cache[u] = "warm"
             THEN /\ warm' = warm \ {i}
                  /\ active' = (active \ Of(i.s, active)) \cup {i}
             ELSE UNCHANGED <<active, warm>>
  /\ UNCHANGED <<running, made, seen, idleVars, abandoned, faultVars>>

\* Mutant of Forget: the time stamp stays.
ForgetStamped(s) ==
  /\ active' = active \ Of(s, active) /\ warm' = warm \ Of(s, warm)
  /\ UNCHANGED idle

\* _remove_tracked_sandbox: what is forgotten of a sandbox, and what of it is
\* to be destroyed.
Forget(s) ==
  /\ active' = active \ Of(s, active) /\ warm' = warm \ Of(s, warm)
  /\ idle' = idle \ {s}

\* Mutant of Removed: what was released meanwhile is not destroyed.
RemovedActive(s) == Of(s, active)

Removed(s) == IF Of(s, active) # {} THEN Of(s, active) ELSE Of(s, warm)

\* Mutant of Drop: the verdict is taken to be about what is there now.
DropAnything(u) ==
  /\ at[u] = "drop"
  /\ LET s == SandboxOf[u] IN
     \/ /\ Of(s, active \cup warm) # {}
        /\ Forget(s)
        /\ \E i \in Removed(s) : seen' = [seen EXCEPT ![u] = i]
        /\ at' = [at EXCEPT ![u] = "stop"]
        /\ UNCHANGED <<cache, again, held, orphans>>
     \/ /\ Of(s, active \cup warm) = {}
        /\ Miss(u) /\ UNCHANGED <<poolVars, seen>>
  /\ UNCHANGED <<running, made, idleVars, abandoned, faultVars>>

\* The check failed; the entry goes if it is the one that was checked.
Drop(u) ==
  /\ at[u] = "drop"
  /\ LET s == SandboxOf[u] IN
     \/ /\ seen[u] \in active \cup warm
        /\ Forget(s)
        /\ \E i \in Removed(s) : seen' = [seen EXCEPT ![u] = i]
        /\ at' = [at EXCEPT ![u] = "stop"]
        /\ UNCHANGED <<cache, again, held, orphans>>
     \/ /\ seen[u] \notin active \cup warm
        /\ Miss(u) /\ UNCHANGED <<poolVars, seen>>
  /\ UNCHANGED <<running, made, idleVars, abandoned, faultVars>>

\* backend.destroy, which may fail: the error is logged.
Destroy(i) ==
  \/ running' = running \ Stopped(i) /\ UNCHANGED abandoned
  \/ abandoned' = abandoned \cup Stopped(i) /\ UNCHANGED running

Stop(u) ==
  /\ at[u] = "stop"
  /\ Destroy(seen[u])
  /\ Miss(u)
  /\ UNCHANGED <<poolVars, made, seen, idleVars, faultVars>>

-----------------------------------------------------------------------------
(* acquire: discovery and creation under the file lock *)

NamedInfo(c) == [s |-> c.s, n |-> made + 1, gen |-> c.gen]

\* A container that cannot be verified is not discovered.
Discover(u) ==
  /\ at[u] = "discover"
  /\ \/ \E c \in running :
          /\ c.s = SandboxOf[u] /\ made < MaxInfos
          /\ made' = made + 1
          /\ IF u \in orphans THEN Leave(u) /\ UNCHANGED seen
             ELSE /\ at' = [at EXCEPT ![u] = "register"]
                  /\ seen' = [seen EXCEPT ![u] = NamedInfo(c)]
                  /\ UNCHANGED <<held, orphans, again>>
     \/ /\ IF u \in orphans THEN Leave(u)
           ELSE at' = [at EXCEPT ![u] = "count"] /\ UNCHANGED <<held, orphans, again>>
        /\ UNCHANGED <<made, seen>>
  /\ UNCHANGED <<running, poolVars, cache, idleVars, abandoned, faultVars>>

\* _replica_count
Count(u) ==
  /\ at[u] = "count"
  /\ at' = [at EXCEPT ![u] = IF Cardinality(active) + Cardinality(warm) >= Replicas
                             THEN "evict" ELSE "start"]
  /\ UNCHANGED <<running, poolVars, made, cache, again, seen, held, orphans, idleVars,
                 abandoned, faultVars>>

\* _evict_oldest_warm, under the lock.  Which one is the oldest is left open.
Evict(u) ==
  /\ at[u] = "evict"
  /\ \/ \E i \in warm :
          /\ warm' = warm \ {i}
          /\ idle' = {s \in idle : Of(s, active \cup warm') # {}}
          /\ seen' = [seen EXCEPT ![u] = i]
          /\ at' = [at EXCEPT ![u] = "evicting"]
          /\ UNCHANGED <<held, orphans, again>>
     \/ /\ warm = {}
        /\ IF u \in orphans THEN Leave(u)
           ELSE at' = [at EXCEPT ![u] = "start"] /\ UNCHANGED <<held, orphans, again>>
        /\ UNCHANGED <<warm, idle, seen>>
  /\ UNCHANGED <<running, active, made, cache, idleVars, abandoned, faultVars>>

\* _evict_oldest_warm, outside the lock.
Evicted(u) ==
  /\ at[u] = "evicting"
  /\ Destroy(seen[u])
  /\ IF u \in orphans THEN Leave(u)
     ELSE at' = [at EXCEPT ![u] = "start"] /\ UNCHANGED <<held, orphans, again>>
  /\ UNCHANGED <<poolVars, made, cache, seen, idleVars, faultVars>>

\* backend.create: a new container, or the one that has the name already.
\* Nobody hears of what a cancelled call created.
Start(u) ==
  /\ at[u] = "start" /\ made < MaxInfos
  /\ made' = made + 1
  /\ LET s == SandboxOf[u]
         new == [s |-> s, gen |-> made + 1] IN
     \E c \in IF Up(s) THEN Of(s, running) ELSE {new} :
       /\ running' = running \cup {c}
       /\ IF u \in orphans
          THEN /\ Leave(u) /\ UNCHANGED seen
               /\ abandoned' = IF c = new THEN abandoned \cup {c} ELSE abandoned
          ELSE /\ at' = [at EXCEPT ![u] = "ready"]
               /\ seen' = [seen EXCEPT ![u] = NamedInfo(c)]
               /\ UNCHANGED <<held, orphans, again, abandoned>>
  /\ UNCHANGED <<poolVars, cache, idleVars, faultVars>>

\* backend.create fails.
StartFails(u) ==
  /\ at[u] = "start"
  /\ Leave(u)
  /\ UNCHANGED <<running, poolVars, made, cache, seen, idleVars, abandoned, faultVars>>

\* _register_discovered_sandbox, _register_created_sandbox
Register(u) ==
  /\ at[u] \in {"register", "ready"}
  /\ active' = (active \ Of(SandboxOf[u], active)) \cup {seen[u]}
  /\ idle' = idle \ {SandboxOf[u]}
  /\ Got(u)
  /\ UNCHANGED <<running, warm, made, cache, seen, idleVars, abandoned, faultVars>>

\* wait_for_sandbox_ready times out.
Unready(u) ==
  /\ at[u] = "ready"
  /\ at' = [at EXCEPT ![u] = "failing"]
  /\ UNCHANGED <<running, poolVars, made, cache, again, seen, held, orphans, idleVars,
                 abandoned, faultVars>>

Failed(u) ==
  /\ at[u] = "failing"
  /\ Destroy(seen[u])
  /\ Leave(u)
  /\ UNCHANGED <<poolVars, made, cache, seen, idleVars, faultVars>>

\* The call is cancelled.  Between discovery or creation and registration
\* nothing runs in another thread, so the call ends there.
Cancel(u) ==
  /\ u \in held /\ cancels < MaxCancels
  /\ cancels' = cancels + 1
  /\ IF at[u] \in {"ready", "register", "count"}
     THEN /\ Leave(u)
          /\ abandoned' = IF at[u] = "ready" THEN abandoned \cup Stopped(seen[u]) ELSE abandoned
     ELSE /\ held' = held \ {u} /\ orphans' = orphans \cup {u}
          /\ UNCHANGED <<at, again, abandoned>>
  /\ UNCHANGED <<running, poolVars, made, cache, seen, idleVars, crashes>>

-----------------------------------------------------------------------------
(* The user has its sandbox *)

\* get: a tool call finds the sandbox, or has to acquire it again.
Use(u) ==
  /\ at[u] = "using"
  /\ IF Of(SandboxOf[u], active) # {}
     THEN idle' = idle \ {SandboxOf[u]} /\ UNCHANGED at
     ELSE at' = [at EXCEPT ![u] = "off"] /\ UNCHANGED idle
  /\ UNCHANGED <<running, active, warm, made, cache, again, seen, held, orphans, idleVars,
                 abandoned, faultVars>>

\* release, at the end of the agent: the container stays.
Release(u) ==
  /\ at[u] = "using"
  /\ at' = [at EXCEPT ![u] = "off"]
  /\ LET s == SandboxOf[u] IN
       /\ active' = active \ Of(s, active)
       /\ warm' = IF Of(s, warm) = {} THEN warm \cup Of(s, active) ELSE warm
       /\ idle' = idle \ {s}
  /\ UNCHANGED <<running, made, cache, again, seen, held, orphans, idleVars, abandoned, faultVars>>

-----------------------------------------------------------------------------
(* The idle checker, and time *)

Age(s) ==
  /\ Of(s, active \cup warm) # {} /\ s \notin idle
  /\ idle' = idle \cup {s}
  /\ UNCHANGED <<running, active, warm, made, callVars, idleVars, abandoned, faultVars>>

\* _cleanup_idle_sandboxes, under the lock.
Sweep ==
  /\ marked = {} /\ doomed = {} /\ dying = {} /\ victims = {}
  /\ marked' = {s \in idle : Of(s, active) # {}}
  /\ victims' = {i \in warm : i.s \in idle}
  /\ warm' = warm \ victims'
  /\ idle' = marked'
  /\ UNCHANGED <<running, active, made, callVars, doomed, dying, abandoned, faultVars>>

\* Is it idle still?
Verify(s) ==
  /\ s \in marked /\ doomed = {} /\ dying = {}
  /\ marked' = marked \ {s}
  /\ doomed' = IF s \in idle /\ Of(s, active) # {} THEN {s} ELSE {}
  /\ UNCHANGED <<running, poolVars, made, callVars, dying, victims, abandoned, faultVars>>

\* destroy, under the lock
Condemn(s) ==
  /\ s \in doomed
  /\ doomed' = {}
  /\ Forget(s)
  /\ dying' = Removed(s)
  /\ UNCHANGED <<running, made, callVars, marked, victims, abandoned, faultVars>>

\* The containers: each active one at once, the warm ones after them.
StopIdle(i) ==
  /\ \/ i \in dying
     \/ i \in victims /\ marked = {} /\ doomed = {} /\ dying = {}
  /\ Destroy(i)
  /\ dying' = dying \ {i} /\ victims' = IF i \in dying THEN victims ELSE victims \ {i}
  /\ UNCHANGED <<poolVars, made, callVars, marked, doomed, faultVars>>

Crash(c) ==
  /\ crashes < MaxCrashes /\ crashes' = crashes + 1
  /\ running' = running \ {c}
  /\ UNCHANGED <<poolVars, made, callVars, idleVars, abandoned, cancels>>

UserStep(u) ==
  \/ Enter(u) \/ Look(u) \/ Check(u) \/ Take(u) \/ Drop(u) \/ Stop(u)
  \/ Discover(u) \/ Count(u) \/ Evict(u) \/ Evicted(u) \/ Start(u) \/ StartFails(u)
  \/ Register(u) \/ Unready(u) \/ Failed(u) \/ Cancel(u) \/ Use(u) \/ Release(u)

Next ==
  \/ \E u \in Users : UserStep(u)
  \/ \E s \in Sandboxes : Age(s) \/ Verify(s) \/ Condemn(s)
  \/ Sweep
  \/ \E i \in dying \cup victims : StopIdle(i)
  \/ \E c \in running : Crash(c)

Spec == Init /\ [][Next]_vars

-----------------------------------------------------------------------------
(* Properties *)

Stages == {"off", "look", "check", "take", "drop", "stop", "discover", "count", "evict",
           "evicting", "start", "register", "ready", "failing", "using"}

\* A sandbox has at most one active and one warm entry.
OnePerSandbox(infos) == \A i, j \in infos : i.s = j.s => i = j

\* The variables have their types, a name is one container's, an id is one
\* entry's in each pool, and what is stamped is tracked.
TypeOK ==
  /\ running \subseteq Container /\ OnePerSandbox(running)
  /\ active \subseteq Info /\ OnePerSandbox(active)
  /\ warm \subseteq Info /\ OnePerSandbox(warm)
  /\ idle \subseteq {i.s : i \in active \cup warm}
  /\ made \in Nat
  /\ at \in [Users -> Stages] /\ cache \in [Users -> {"active", "warm"}]
  /\ seen \in [Users -> Info \cup {NoInfo}]
  /\ again \subseteq Users /\ held \subseteq Users /\ orphans \subseteq Users
  /\ marked \subseteq Sandboxes /\ doomed \subseteq Sandboxes
  /\ dying \subseteq Info /\ victims \subseteq Info
  /\ abandoned \subseteq Container
  /\ crashes \in Nat /\ cancels \in Nat

\* No container runs on with nobody who could stop it: one that runs is
\* tracked, or in the hands of a call or of the idle checker, or it is one that
\* a cancelled creation or a failed destruction left (_create_sandbox, release,
\* _evict_oldest_warm, _cleanup_idle_sandboxes).
InHand ==
  active \cup warm \cup dying \cup victims
    \cup {seen[u] : u \in {v \in Users : at[v] \in {"stop", "evicting", "register", "ready",
                                                    "failing"}}}
NoContainerLost ==
  \A c \in running \ abandoned : \E i \in InHand : c \in Stopped(i)

\* A failed health check is about the entry that was checked: by the time it
\* acts on it, it drops no entry whose container runs, however often the
\* sandbox was recreated since (_remove_tracked_sandbox, 603-609), as long as no
\* sandbox has two cancelled calls under way (OneOrphan).
LiveIsKept ==
  [][\A u \in Users :
       at[u] = "drop" /\ at'[u] # "drop" =>
         \A i \in (active \cup warm) \ (active' \cup warm') : ContainerOf(i) \notin running]_vars

\* "Active sandboxes are in use by live threads and must not be forcibly
\* stopped" (862): no container is stopped while its sandbox is active.
ActiveIsNotStopped ==
  [][\A i \in active : ContainerOf(i) \in running /\ crashes' = crashes
       => ContainerOf(i) \in running']_vars

-----------------------------------------------------------------------------
(* What makes them inductive *)

\* What a call is about to register or to destroy is an info, and what it
\* registers is its own sandbox's.
SeenIsReal ==
  \A u \in Users :
    /\ at[u] \in {"check", "take", "drop", "stop", "evicting", "register", "ready", "failing"}
         => seen[u] \in Info
    /\ at[u] \in {"register", "ready"} => seen[u].s = SandboxOf[u]

\* Generations are never used twice.
Generations ==
  /\ \A c \in running : c.gen <= made
  /\ \A i \in active \cup warm : i.gen <= made
  /\ \A u \in Users : seen[u].gen <= made

\* When a call is about to drop what failed its check, the container it has
\* checked is gone for good (_check_tracked_sandbox_alive,
\* _drop_unhealthy_sandbox).
VerdictStands == \A u \in Users : at[u] = "drop" => ContainerOf(seen[u]) \notin running

\* What a call looks at while it looks up is its own sandbox's.
LooksAtOwn ==
  \A u \in Users : at[u] \in {"check", "take", "drop"} => seen[u].s = SandboxOf[u]

HandsInv == TypeOK /\ SeenIsReal /\ Generations /\ VerdictStands /\ LooksAtOwn

\* The functions of two cancelled calls of one sandbox are never under way at
\* the same time.
OneOrphan == \A u, v \in orphans : SandboxOf[u] = SandboxOf[v] => u = v

\* A call has its thread's lock until it has its sandbox or is cancelled; one
\* that is cancelled past the lookups does not go on.
LockInv ==
  /\ \A u, v \in held : SandboxOf[u] = SandboxOf[v] => u = v
  /\ held \cap orphans = {}
  /\ \A u \in Users : at[u] \in {"off", "using"} <=> u \notin held \cup orphans
  /\ \A u \in orphans : at[u] \notin {"count", "register", "ready"}
  /\ again \subseteq held \cup orphans

Tracked(s) == Of(s, active \cup warm) # {}

\* A sandbox is in one pool.
PoolsDisjoint == \A s \in Sandboxes : Of(s, active) = {} \/ Of(s, warm) = {}

LookingUp == {"look", "check", "take", "drop"}
PastLookups == {"discover", "count", "evict", "evicting", "start", "register", "ready", "failing"}

NoOrphan(s) == \A w \in orphans : SandboxOf[w] # s

\* What a call with the lock knows of its sandbox from the lookups it made.  A
\* release moves the entry to the warm pool behind its back; only an orphan
\* moves it the other way, and only once.
Knows(u) ==
  LET s == SandboxOf[u] IN
  /\ at[u] \in {"check", "take", "drop"} =>
       \A i \in active \cup warm : i.s = s => i = seen[u]
  /\ at[u] \in LookingUp =>
       /\ cache[u] = "warm" /\ u \notin again /\ Of(s, active) # {} => NoOrphan(s)
       /\ cache[u] = "active" /\ u \in again /\ Tracked(s) => NoOrphan(s)
       /\ cache[u] = "warm" /\ u \in again =>
            Of(s, active) = {} /\ (Of(s, warm) # {} => NoOrphan(s))
  /\ at[u] \in {"stop"} \cup PastLookups => ~Tracked(s)

KnowledgeInv == \A u \in held : Knows(u)

\* The idle checker has one sandbox in hand, and it is whoever destroys a
\* container that has it in hand, not whoever has only discovered it.
Covered(c) ==
  \/ \E i \in active \cup warm \cup dying \cup victims : c \in Stopped(i)
  \/ \E u \in Users : at[u] \in {"stop", "evicting", "ready", "failing"} /\ c \in Stopped(seen[u])

CoverInv ==
  /\ doomed = {} \/ dying = {}
  /\ \A c \in running \ abandoned : Covered(c)

PoolInv == LockInv /\ PoolsDisjoint /\ KnowledgeInv /\ CoverInv

=============================================================================
