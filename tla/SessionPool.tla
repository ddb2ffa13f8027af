---------------------------- MODULE SessionPool ----------------------------
(***************************************************************************)
(* The pool of MCP sessions (mcp/session_pool.py).  Tool calls on several  *)
(* event loops get, share, evict and close sessions; each session belongs  *)
(* to an owner task that enters and exits its context manager.             *)
(*                                                                         *)
(* A call names the owner task it creates.  Under the pool's lock a step   *)
(* is atomic; awaits, and signals to other loops, are steps of their own.  *)
(***************************************************************************)
EXTENDS Naturals, Sequences, FiniteSets

CONSTANTS Calls,        \* calls of get_session, close_scope, close_server and close_all
          Keys,         \* pairs of a server and a scope
          LoopOf,       \* the event loop of a call
          ShortLived,   \* the loops that asyncio.run closes
          MaxSessions,  \* MAX_SESSIONS
          MaxCloses,    \* bound on the calls that close
          MaxFaults     \* bound on the cancellations of calls and the
                        \* connections that break, together

ASSUME SessionPoolAssumption ==
  MaxSessions \in Nat \ {0} /\ MaxCloses \in Nat /\ MaxFaults \in Nat

VARIABLES
  entries,    \* _entries
  older,      \* their order: pairs of entries, the less recently used first
  inflight,   \* _inflight
  \* owner tasks
  owner,      \* where _run_session is
  ready,      \* the future that carries the session to the call
  told,       \* the living tasks whose close event is set
  cancelled,  \* the living tasks with a cancellation to come
  broken,     \* history: the tasks whose connection broke under an open session
  signals,    \* what other loops were asked to close, and not done yet
  \* calls
  key,        \* the server and scope of a call
  at,         \* where the call is
  source,     \* the task whose session the call waits for, or got
  todo,       \* what the call still has to shut down
  forgotten,  \* history: what cancelled calls did not shut down any more
  \* loops
  closed,     \* the loops that were closed
  closes,     \* the number of calls that closed
  cancels     \* the number of cancelled calls

poolVars  == <<entries, older, inflight>>
ownerVars == <<owner, ready, told, cancelled, signals>>
callVars  == <<at, source, todo, forgotten>>
loopVars  == <<closed, closes, cancels>>
vars == <<poolVars, ownerVars, broken, key, callVars, loopVars>>

Alive == {t \in Calls : owner[t] \in {"new", "starting", "open", "exiting"}}

\* The tasks of a list of what to shut down.
Listed(list) == {list[i].task : i \in DOMAIN list}

\* Where a call goes when it still has to shut down what is left.
After(left, next) == IF left # <<>> THEN "evicting" ELSE next

\* A call that creates no session and waits for none, but closes some.
Closing(c) == source[c] = c /\ owner[c] = "none"

Init ==
  /\ entries = {} /\ older = {} /\ inflight = {}
  /\ owner = [t \in Calls |-> "none"]
  /\ ready = [t \in Calls |-> "pending"]
  /\ told = {} /\ cancelled = {} /\ signals = {} /\ broken = {}
  /\ key \in [Calls -> Keys]
  /\ at = [c \in Calls |-> "idle"]
  /\ source = [c \in Calls |-> c]
  /\ todo = [c \in Calls |-> <<>>]
  /\ forgotten = {}
  /\ closed = {} /\ closes = 0 /\ cancels = 0

-----------------------------------------------------------------------------
(* get_session, phase 1: under the lock *)

Same(c, t) == key[t] = key[c] /\ LoopOf[t] = LoopOf[c]

\* The entries of kept stay, in their order; new ones come last.
Keep(kept) == older \cap (kept \X kept)
Register(kept, t) ==
  /\ entries' = kept \cup {t}
  /\ older' = Keep(kept) \cup (kept \X {t})

\* A session of this loop.
Hit(c) ==
  \E t \in entries :
    /\ Same(c, t)
    /\ Register(entries \ {t}, t)
    /\ at' = [at EXCEPT ![c] = "got"]
    /\ source' = [source EXCEPT ![c] = t]
    /\ UNCHANGED <<inflight, ownerVars, todo, forgotten>>

\* The oldest entries of kept go until there is room for one more.
Oldest(kept) ==
  {t \in kept : Cardinality({u \in kept : <<u, t>> \in older}) + MaxSessions <= Cardinality(kept)}

Shut(t, cancel) == [task |-> t, cancel |-> cancel]

\* The owner of a dropped creation may be blocked where only a cancellation
\* wakes it.
Cancels(t) == t \in inflight

\* The lists of the tasks of a set that respect an order, as what to shut down.
Shutdowns(gone, before) ==
  LET Lists == {s \in [1 .. Cardinality(gone) -> gone] :
                  /\ \A t \in gone : \E i \in DOMAIN s : s[i] = t
                  /\ \A i, j \in DOMAIN s : i < j => <<s[i], s[j]>> \in before} IN
  {[i \in DOMAIN s |-> Shut(s[i], Cancels(s[i]))] : s \in Lists}

\* Mutant of Gone: the oldest entries are dropped and not shut down.
GoneButOldest(foreign, stale, oldest) == foreign \cup stale

Gone(foreign, stale, oldest) == foreign \cup stale \cup oldest

\* No session of this loop: the call shares a creation of its loop or starts
\* one.  The session or creation of another loop goes, and the oldest entries.
Miss(c) ==
  LET foreign == {t \in entries : key[t] = key[c]}
      kept    == entries \ foreign
      shared  == {t \in inflight : Same(c, t)}
      stale   == {t \in inflight : key[t] = key[c] /\ LoopOf[t] # LoopOf[c]}
      oldest  == Oldest(kept)
  IN
  /\ \A t \in entries : ~Same(c, t)
  /\ entries' = kept \ oldest
  /\ older' = Keep(kept \ oldest)
  /\ IF shared # {}
     THEN /\ \E t \in shared : source' = [source EXCEPT ![c] = t]
          /\ UNCHANGED <<inflight, owner>>
     ELSE /\ inflight' = (inflight \ stale) \cup {c}
          /\ owner' = [owner EXCEPT ![c] = "new"]
          /\ UNCHANGED source
  /\ \E list \in Shutdowns(Gone(foreign, stale, oldest),
                          Keep(oldest) \cup (foreign \X (stale \cup oldest)) \cup (stale \X oldest)) :
       /\ todo' = [todo EXCEPT ![c] = list]
       /\ at' = [at EXCEPT ![c] = After(list, IF shared = {} THEN "waiting" ELSE "joining")]
  /\ UNCHANGED <<ready, told, cancelled, signals, forgotten>>

Get(c) ==
  /\ at[c] = "idle" /\ LoopOf[c] \notin closed
  /\ Hit(c) \/ Miss(c)
  /\ UNCHANGED loopVars

-----------------------------------------------------------------------------
(* close_scope, close_server, close_all: under the lock *)

\* The keys of a scope, of a server, or all: their sessions and creations
\* leave the registry, to be shut down one after the other.
CloseKeys(c) ==
  /\ at[c] = "idle" /\ LoopOf[c] \notin closed
  /\ closes < MaxCloses /\ closes' = closes + 1
  /\ \E ks \in SUBSET Keys \ {{}} :
       LET sessions  == {t \in entries : key[t] \in ks}
           creations == {t \in inflight : key[t] \in ks} IN
       /\ entries' = entries \ sessions
       /\ older' = Keep(entries \ sessions)
       /\ inflight' = inflight \ creations
       /\ \E list \in Shutdowns(sessions \cup creations,
                               older \cup ((sessions \cup creations) \X creations)) :
            /\ todo' = [todo EXCEPT ![c] = list]
            /\ at' = [at EXCEPT ![c] = After(list, "over")]
  /\ UNCHANGED <<ownerVars, source, forgotten, closed, cancels>>

-----------------------------------------------------------------------------
(* Phase 2: shutting down what was evicted, one after the other *)

\* _shutdown on the loop of the task.
Tell(e) ==
  /\ told' = told \cup ({e.task} \cap Alive)
  /\ cancelled' = IF e.cancel THEN cancelled \cup ({e.task} \cap Alive) ELSE cancelled

Local(c, e) == LoopOf[e.task] = LoopOf[c]

\* What is next on the list is done.
Done(c) ==
  /\ todo' = [todo EXCEPT ![c] = Tail(@)]
  /\ at' = [at EXCEPT ![c] = After(Tail(todo[c]), IF Closing(c) THEN "over"
                                  ELSE IF source[c] = c THEN "waiting" ELSE "joining")]

\* The task of a closed loop is gone; one of this loop is shut down and
\* awaited; one of another loop is signalled, and get_session waits for it
\* only if it is cancelled.
Ask(c) ==
  /\ at[c] = "evicting"
  /\ LET e == Head(todo[c]) IN
     IF LoopOf[e.task] \in closed
     THEN Done(c) /\ UNCHANGED <<told, cancelled, signals>>
     ELSE /\ IF Local(c, e) THEN Tell(e) /\ UNCHANGED signals
                            ELSE signals' = signals \cup {e} /\ UNCHANGED <<told, cancelled>>
          /\ IF Local(c, e) \/ e.cancel \/ Closing(c)
             THEN at' = [at EXCEPT ![c] = "asked"] /\ UNCHANGED todo
             ELSE Done(c)
  /\ UNCHANGED <<poolVars, owner, ready, source, forgotten, loopVars>>

\* What another loop was asked to do must have been done there: it never is
\* if the loop closes first.
Asked(c) ==
  /\ at[c] = "asked" /\ Head(todo[c]).task \notin Alive /\ Head(todo[c]) \notin signals
  /\ Done(c)
  /\ UNCHANGED <<poolVars, ownerVars, source, forgotten, loopVars>>

-----------------------------------------------------------------------------
(* Phases 2b to 4 *)

Joined(c) ==
  /\ at[c] = "joining" /\ ready[source[c]] # "pending"
  /\ at' = [at EXCEPT ![c] = IF ready[source[c]] = "ok" THEN "got" ELSE "failed"]
  /\ UNCHANGED <<poolVars, ownerVars, source, todo, forgotten, loopVars>>

\* The owner has failed, and is unwinding.
Fail(c) ==
  /\ at[c] = "waiting" /\ ready[c] = "failed"
  /\ at' = [at EXCEPT ![c] = "unwinding"]
  /\ UNCHANGED <<poolVars, ownerVars, source, todo, forgotten, loopVars>>

Unwind(c) ==
  /\ inflight' = inflight \ {c}
  /\ at' = [at EXCEPT ![c] = "failed"]
  /\ UNCHANGED <<entries, older, ownerVars, source, todo, forgotten>>

Unwound(c) == at[c] = "unwinding" /\ c \notin Alive /\ Unwind(c) /\ UNCHANGED loopVars

\* Mutant of StillOurs: what was closed meanwhile is registered all the same.
StillOursAlways(c) == TRUE

StillOurs(c) == c \in inflight

\* The session is registered, or shut down if the pool was closed meanwhile.
Promote(c) ==
  /\ at[c] = "waiting" /\ ready[c] = "ok"
  /\ IF StillOurs(c)
     THEN /\ inflight' = inflight \ {c}
          /\ Register(entries, c)
          /\ at' = [at EXCEPT ![c] = "got"]
          /\ UNCHANGED told
     ELSE /\ told' = told \cup ({c} \cap Alive)
          /\ at' = [at EXCEPT ![c] = "shutting"]
          /\ UNCHANGED poolVars
  /\ UNCHANGED <<owner, ready, cancelled, signals, source, todo, forgotten, loopVars>>

Refuse(c) ==
  /\ at[c] = "shutting" /\ c \notin Alive
  /\ at' = [at EXCEPT ![c] = "failed"]
  /\ UNCHANGED <<poolVars, ownerVars, source, todo, forgotten, loopVars>>

Proceed(c) == Ask(c) \/ Asked(c) \/ Joined(c) \/ Fail(c) \/ Unwound(c) \/ Promote(c) \/ Refuse(c)

-----------------------------------------------------------------------------
(* The call is cancelled at one of its awaits *)

\* The await passes the cancellation to the task and swallows it.
CancelSwallowed(c) ==
  /\ \/ at[c] = "asked" /\ Local(c, Head(todo[c])) /\ cancelled' = cancelled \cup ({Head(todo[c]).task} \cap Alive)
     \/ at[c] = "shutting" /\ cancelled' = cancelled \cup ({c} \cap Alive)
  /\ UNCHANGED <<poolVars, owner, ready, told, signals, callVars>>

\* What is left to shut down is forgotten, and so is the own creation.  The
\* other loop does what it was asked to; the cancellation reaches it behind
\* that, and the task it waits for.
CancelEviction(c) ==
  /\ at[c] = "asked" /\ ~Local(c, Head(todo[c]))
  /\ at' = [at EXCEPT ![c] = "failed"]
  /\ todo' = [todo EXCEPT ![c] = <<>>]
  /\ signals' = signals \cup {Shut(Head(todo[c]).task, TRUE)}
  /\ forgotten' = forgotten \cup Listed(Tail(todo[c]))
  /\ UNCHANGED <<poolVars, owner, ready, told, cancelled, source>>

\* The creation belongs to another call.
CancelJoin(c) ==
  /\ at[c] = "joining"
  /\ at' = [at EXCEPT ![c] = "failed"]
  /\ UNCHANGED <<poolVars, ownerVars, source, todo, forgotten>>

\* The owner is signalled and cancelled, unless it has failed already.
Reclaim(c) ==
  IF ready[c] = "failed" THEN UNCHANGED <<told, cancelled>> ELSE Tell(Shut(c, TRUE))

CancelWait(c) ==
  /\ at[c] = "waiting"
  /\ Reclaim(c)
  /\ at' = [at EXCEPT ![c] = "unwinding"]
  /\ UNCHANGED <<poolVars, owner, ready, signals, source, todo, forgotten>>

\* A second cancellation: the owner is not waited for.
CancelUnwind(c) == at[c] = "unwinding" /\ Unwind(c)

Cancel(c) ==
  /\ cancels + Cardinality(broken) < MaxFaults
  /\ cancels' = cancels + 1
  /\ UNCHANGED <<closed, closes>>
  /\ CancelSwallowed(c) \/ CancelEviction(c) \/ CancelJoin(c) \/ CancelWait(c) \/ CancelUnwind(c)

-----------------------------------------------------------------------------
(* Owner tasks: _run_session *)

Become(t, place, answer) ==
  /\ owner' = [owner EXCEPT ![t] = place]
  /\ ready' = [ready EXCEPT ![t] = IF @ = "pending" THEN answer ELSE @]
  /\ told' = IF place = "ended" THEN told \ {t} ELSE told
  /\ UNCHANGED <<poolVars, signals, callVars, loopVars>>

Uncancelled(t) == cancelled' = cancelled \ {t}

\* The first step of the task.
Begin(t) ==
  /\ owner[t] = "new"
  /\ Become(t, "starting", "pending")
  /\ UNCHANGED cancelled

\* Connecting and initializing succeed, or fail before or after the context
\* manager was entered; they may take for ever.
Start(t) ==
  /\ owner[t] = "starting"
  /\ \/ Become(t, "open", "ok") /\ UNCHANGED cancelled
     \/ Become(t, "exiting", "failed") /\ UNCHANGED cancelled
     \/ Become(t, "ended", "failed") /\ Uncancelled(t)

\* The transport or the server dies and anyio cancels the task where it waits
\* to be closed.  A registered session stays in the registry.
Break(t) ==
  /\ cancels + Cardinality(broken) < MaxFaults
  /\ owner[t] = "open"
  /\ Become(t, "exiting", "ok")
  /\ broken' = broken \cup {t}
  /\ UNCHANGED cancelled

\* A cancellation, also during the exit.  A task that has not begun never
\* runs, and its future stays pending.
Interrupted(t) ==
  /\ t \in cancelled
  /\ \/ owner[t] \in {"starting", "open"} /\ Become(t, "exiting", "failed")
     \/ owner[t] \in {"starting", "exiting"} /\ Become(t, "ended", "failed")
     \/ owner[t] = "new" /\ Become(t, "ended", "pending")
  /\ Uncancelled(t)

Close(t) ==
  /\ owner[t] = "open" /\ t \in told
  /\ Become(t, "exiting", "ok")
  /\ UNCHANGED cancelled

Exit(t) ==
  /\ owner[t] = "exiting"
  /\ Become(t, "ended", "failed")
  /\ Uncancelled(t)

Unblocked(t) == Interrupted(t) \/ Close(t) \/ Exit(t)

-----------------------------------------------------------------------------
(* Other threads and loops *)

\* close_all_sync: the registry is emptied, its owners are told one by one.
CloseAll ==
  /\ closes < MaxCloses
  /\ closes' = closes + 1
  /\ signals' = signals \cup {Shut(t, Cancels(t)) : t \in entries \cup inflight}
  /\ entries' = {} /\ older' = {} /\ inflight' = {}
  /\ UNCHANGED <<owner, ready, told, cancelled, callVars, closed, cancels>>

\* The loop of the task runs what it was asked to.
Deliver(e) ==
  /\ e \in signals /\ LoopOf[e.task] \notin closed
  /\ signals' = signals \ {e}
  /\ Tell(e)
  /\ UNCHANGED <<poolVars, owner, ready, callVars, loopVars>>

\* The calls of an asyncio.run are over: it cancels the tasks it finds, waits
\* for them and closes the loop.
CloseLoop(l) ==
  /\ l \in ShortLived \ closed
  /\ \A c \in Calls : LoopOf[c] = l => at[c] \in {"idle", "got", "failed", "over"}
  /\ closed' = closed \cup {l}
  /\ LET gone == {t \in Alive : LoopOf[t] = l} IN
     /\ owner' = [t \in Calls |-> IF t \in gone THEN "ended" ELSE owner[t]]
     /\ ready' = [t \in Calls |-> IF t \in gone /\ owner[t] = "starting" THEN "failed" ELSE ready[t]]
     /\ told' = told \ gone
     /\ cancelled' = cancelled \ gone
  /\ UNCHANGED <<poolVars, signals, callVars, closes, cancels>>

-----------------------------------------------------------------------------

Next ==
  /\ \/ /\ \/ \E c \in Calls :
               Get(c) \/ CloseKeys(c) \/ Proceed(c) \/ Cancel(c) \/ Begin(c) \/ Start(c) \/ Unblocked(c)
           \/ CloseAll
           \/ \E e \in signals : Deliver(e)
           \/ \E l \in ShortLived : CloseLoop(l)
        /\ UNCHANGED broken
     \/ \E t \in Calls : Break(t)
  /\ UNCHANGED key

Spec == Init /\ [][Next]_vars

-----------------------------------------------------------------------------
(* Correctness *)

Shuts == [task : Calls, cancel : BOOLEAN]

\* A strict order on a set.
Orders(order, set) ==
  /\ order \subseteq set \X set
  /\ \A t, u \in set : <<t, u>> \in order <=> t # u /\ <<u, t>> \notin order
  /\ \A t, u, v \in set : <<t, u>> \in order /\ <<u, v>> \in order => <<t, v>> \in order

\* A key has one session or one creation.
RegistryOK ==
  /\ entries \in SUBSET Calls /\ inflight \in SUBSET Calls
  /\ IsFiniteSet(entries \cup inflight)
  /\ entries \cap inflight = {}
  /\ \A t, u \in entries \cup inflight : key[t] = key[u] => t = u
  /\ Orders(older, entries)

OwnersOK ==
  /\ owner \in [Calls -> {"none", "new", "starting", "open", "exiting", "ended"}]
  /\ ready \in [Calls -> {"pending", "ok", "failed"}]
  /\ told \in SUBSET Calls /\ cancelled \in SUBSET Calls /\ broken \in SUBSET Calls
  /\ signals \in SUBSET Shuts

CallsOK ==
  /\ key \in [Calls -> Keys]
  /\ at \in [Calls -> {"idle", "evicting", "asked", "joining", "waiting", "unwinding", "shutting",
                       "got", "failed", "over"}]
  /\ source \in [Calls -> Calls]
  /\ todo \in [Calls -> Seq(Shuts)]
  /\ forgotten \in SUBSET Calls
  /\ closed \in SUBSET ShortLived
  /\ closes \in 0 .. MaxCloses /\ cancels \in Nat

\* The types of the registry, of the owner tasks and of the calls.
TypeOK == RegistryOK /\ OwnersOK /\ CallsOK

\* The pool never ends what it still hands out: nobody has told the owner of a
\* registered session to go, and it waits, unless its connection broke or its
\* loop was closed, of which the pool hears nothing.
EntriesAreKept ==
  \A t \in entries :
    LoopOf[t] \in closed \/ (t \notin told \cup cancelled /\ (owner[t] = "open" \/ t \in broken))

\* The tasks somebody has asked, or still means, to end.
Pending == UNION {Listed(todo[c]) : c \in Calls}
Doomed == told \cup cancelled \cup {e.task : e \in signals} \cup Pending

\* No owner task is lost, whoever is cancelled or closes: one that lives is
\* registered or being created, on its way out, told to go or going to be told.
\* A call that is cancelled while it waits for another loop forgets its list.
NoOwnerLost ==
  \A t \in Alive :
    t \in entries \cup inflight \cup Doomed \cup forgotten \/ owner[t] = "exiting"

-----------------------------------------------------------------------------
(* What makes them inductive *)

\* A call has a list while it works on it.
ListInv ==
  \A c \in Calls : at[c] \in {"evicting", "asked"} <=> todo[c] # <<>>

\* Who is told to go lives, and who lives has a loop.
LivingInv ==
  /\ told \cup cancelled \subseteq Alive
  /\ \A t \in Alive : LoopOf[t] \notin closed

\* The owner task of a call is there from its Get on.
OwnedInv ==
  /\ \A c \in Calls : at[c] = "idle" => owner[c] = "none"
  /\ \A t \in entries \cup inflight \cup Doomed : owner[t] # "none"
  /\ LivingInv

\* The future of an owner task says where the task is.
FutureInv ==
  \A t \in Calls :
    /\ owner[t] \in {"none", "new", "starting"} => ready[t] = "pending"
    /\ owner[t] = "open" => ready[t] = "ok"
    /\ ready[t] = "failed" => owner[t] \in {"exiting", "ended"}

\* An owner whose call waits for its end is told to go.
UnwindInv == \A t \in Alive : at[t] = "unwinding" => t \in told \/ owner[t] = "exiting"

\* What is in the registry has not been told to go, but for a creation whose
\* call gives up on it; and a creation that has succeeded waits for its call.
RegistryInv ==
  /\ entries \cap Doomed = {}
  /\ \A t \in entries : at[t] = "got"
  /\ \A t \in inflight : at[t] # "shutting"
  /\ \A t \in inflight \cap Doomed : at[t] = "unwinding"
  /\ \A t \in inflight : at[t] \in {"evicting", "asked", "waiting"} /\ ready[t] = "ok"
                           => owner[t] = "open" \/ t \in broken
  /\ UnwindInv

SessionInv == ListInv /\ OwnedInv /\ FutureInv /\ RegistryInv /\ EntriesAreKept /\ NoOwnerLost
=============================================================================
