---------------------------- MODULE MemoryQueue ----------------------------
(***************************************************************************)
(* The memory update queue (agents/memory/queue.py) and its callers: the   *)
(* middleware that queues a thread's messages after a run (agents/         *)
(* middlewares/memory_middleware.py), and the hook that queues the         *)
(* messages a summary is about to replace (agents/memory/                  *)
(* summarization_hook.py).                                                 *)
(*                                                                         *)
(* A context stands for the messages that a call gives to the queue.  A    *)
(* timer is armed (the one _timer holds and could cancel), a stray (it     *)
(* still waits, but _timer forgot it) or fired: a thread on its way to     *)
(* _process_queue.  The order of the contexts of one batch is left open;   *)
(* their keys differ.                                                      *)
(***************************************************************************)
EXTENDS Naturals

CONSTANTS Keys,       \* threads, with their user and agent
          MaxCalls,   \* bound on the calls a thread makes to the queue
          MaxFlushes  \* bound on the calls that flush or clear it

ASSUME MemoryQueueAssumption == MaxCalls \in Nat /\ MaxFlushes \in Nat

VARIABLES
  \* MemoryUpdateQueue
  queue,       \* the contexts that wait
  processing,  \* _processing
  armed,       \* the timer of _timer waits
  stray,       \* how many other timers wait
  fired,       \* how many threads are about to process the queue
  batch,       \* the contexts taken from the queue and not updated yet
  running,     \* the threads with a run
  calls,       \* the number of calls of each thread
  flushes,     \* the number of calls that flushed or cleared the queue
  latest,      \* history: the call whose context was updated last
  cleared      \* history: the threads whose newest context was cleared

queueVars == <<queue, processing, armed, stray, fired, batch>>
vars == <<queueVars, running, calls, flushes, latest, cleared>>

Contexts == [key : Keys, call : 1 .. MaxCalls]

Init ==
  /\ queue = {} /\ processing = FALSE
  /\ armed = FALSE /\ stray = 0 /\ fired = 0
  /\ batch = {}
  /\ running = {}
  /\ calls = [k \in Keys |-> 0]
  /\ flushes = 0
  /\ latest = [k \in Keys |-> 0]
  /\ cleared = {}

-----------------------------------------------------------------------------
(* Adding *)

\* Mutant of Others: a context of the same key stays in the queue.
OthersAndOwn(k) == queue

\* Mutant of Others: the context takes the place of all that wait.
OthersNone(k) == {}

Others(k) == {c \in queue : c.key # k}

\* add and add_nowait; they differ in the delay of the timer that takes the
\* place of the one that waits.
Add(k) ==
  /\ calls[k] < MaxCalls
  /\ calls' = [calls EXCEPT ![k] = @ + 1]
  /\ queue' = Others(k) \cup {[key |-> k, call |-> calls[k] + 1]}
  /\ armed' = TRUE
  /\ cleared' = cleared \ {k}
  /\ UNCHANGED <<processing, stray, fired, batch, flushes, latest>>

RunStarts(k) ==
  /\ k \notin running
  /\ running' = running \cup {k}
  /\ UNCHANGED <<queueVars, calls, flushes, latest, cleared>>

\* after_agent.
RunEnds(k) ==
  /\ k \in running
  /\ Add(k)
  /\ running' = running \ {k}

\* The run fails or is cancelled: there is no after_agent.
RunBreaks(k) ==
  /\ k \in running
  /\ running' = running \ {k}
  /\ UNCHANGED <<queueVars, calls, flushes, latest, cleared>>

\* before_model with a conversation that has grown too long: the hook.
Summarize(k) ==
  /\ k \in running
  /\ Add(k)
  /\ UNCHANGED running

-----------------------------------------------------------------------------
(* Processing *)

\* A timer goes off.
Fire ==
  /\ \/ armed /\ armed' = FALSE /\ UNCHANGED stray
     \/ stray > 0 /\ stray' = stray - 1 /\ UNCHANGED armed
  /\ fired' = fired + 1
  /\ UNCHANGED <<queue, processing, batch, running, calls, flushes, latest, cleared>>

\* Mutant of Busy: two threads process at a time.
BusyNever == FALSE

Busy == processing

\* Mutant of Retry: a thread that finds another one processing just ends.
RetryNot == UNCHANGED <<armed, stray>>

\* _schedule_timer(0): the timer that waits is replaced.
Retry == armed' = TRUE /\ UNCHANGED stray

\* Taking the queue; _timer forgets a timer that was set meanwhile.
Take ==
  /\ processing' = TRUE
  /\ batch' = batch \cup queue
  /\ queue' = {}
  /\ armed' = FALSE
  /\ stray' = stray + (IF armed THEN 1 ELSE 0)

\* _process_queue up to the release of the lock.
Process ==
  /\ fired > 0
  /\ fired' = fired - 1
  /\ \/ Busy /\ Retry /\ UNCHANGED <<queue, processing, batch>>
     \/ ~Busy /\ queue = {} /\ UNCHANGED <<queue, processing, batch, armed, stray>>
     \/ ~Busy /\ queue # {} /\ Take
  /\ UNCHANGED <<running, calls, flushes, latest, cleared>>

\* update_memory of one context; what it raises is swallowed.
Update ==
  \E c \in batch :
    /\ batch' = batch \ {c}
    /\ latest' = [latest EXCEPT ![c.key] = c.call]
    /\ UNCHANGED <<queue, processing, armed, stray, fired, running, calls, flushes, cleared>>

\* The finally of _process_queue.
Finish ==
  /\ processing /\ batch = {}
  /\ processing' = FALSE
  /\ UNCHANGED <<queue, armed, stray, fired, batch, running, calls, flushes, latest, cleared>>

-----------------------------------------------------------------------------
(* Flushing and clearing *)

Flushing == flushes < MaxFlushes /\ flushes' = flushes + 1

\* flush: the timer is cancelled, and the caller is the thread that is about
\* to process.
Flush ==
  /\ Flushing
  /\ armed' = FALSE
  /\ fired' = fired + 1
  /\ UNCHANGED <<queue, processing, stray, batch, running, calls, latest, cleared>>

\* flush_nowait: a timer of no delay.
FlushNowait ==
  /\ Flushing
  /\ armed' = TRUE
  /\ UNCHANGED <<queue, processing, stray, fired, batch, running, calls, latest, cleared>>

\* clear, which nobody calls while a batch is updated: its users are tests
\* and reset_memory_queue.
Clear ==
  /\ Flushing
  /\ ~processing
  /\ armed' = FALSE
  /\ queue' = {}
  /\ cleared' = cleared \cup {c.key : c \in queue}
  /\ UNCHANGED <<processing, stray, fired, batch, running, calls, latest>>

-----------------------------------------------------------------------------

Next ==
  \/ \E k \in Keys : RunStarts(k) \/ RunEnds(k) \/ RunBreaks(k) \/ Summarize(k)
  \/ Fire \/ Process \/ Update \/ Finish
  \/ Flush \/ FlushNowait \/ Clear

Spec == Init /\ [][Next]_vars

\* Timers go off, threads run, and an update ends.
FairSpec == Spec /\ WF_vars(Fire) /\ WF_vars(Process) /\ WF_vars(Update) /\ WF_vars(Finish)

-----------------------------------------------------------------------------
(* Correctness *)

\* Types; the queue holds one context per key.
TypeOK ==
  /\ queue \in SUBSET Contexts
  /\ \A c, d \in queue : c.key = d.key => c = d
  /\ processing \in BOOLEAN
  /\ armed \in BOOLEAN
  /\ stray \in Nat
  /\ fired \in Nat
  /\ batch \in SUBSET Contexts
  /\ running \in SUBSET Keys
  /\ calls \in [Keys -> 0 .. MaxCalls]
  /\ flushes \in Nat
  /\ latest \in [Keys -> 0 .. MaxCalls]
  /\ cleared \in SUBSET Keys

\* While contexts wait there is a timer or a thread that will take them: no
\* cancelled, forgotten or early timer leaves them behind.
QueueIsWatched == queue # {} => armed \/ stray > 0 \/ fired > 0

\* The newest context of a thread is not lost: it waits, or is in a batch, or
\* was applied or cleared, whatever was added, taken, replaced or flushed at
\* the same time.
NewestIsKept ==
  \A k \in Keys \ cleared : latest[k] < calls[k] =>
    [key |-> k, call |-> calls[k]] \in queue \cup batch

\* The memory of a thread never takes an older snapshot of its messages after
\* a newer one, although batches are taken while others are worked on.
AppliedInOrder == [][\A k \in Keys : latest'[k] >= latest[k]]_latest

\* Every context that waits is taken, once its thread stops renewing the
\* timer: MaxCalls ends that here.
QueueDrains == queue # {} ~> queue = {}
=============================================================================
