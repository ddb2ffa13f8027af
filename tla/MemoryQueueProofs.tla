------------------------- MODULE MemoryQueueProofs -------------------------
(* The memory queue, for any threads, calls and interleavings of timers:    *)
(* nothing waits unwatched, the newest context is kept, and contexts are    *)
(* applied in the order of their calls.                                     *)
EXTENDS MemoryQueue, TLAPS

\* Only the thread that processes has a batch, one context for each key.
BatchIsOwned ==
  /\ batch # {} => processing
  /\ \A c, d \in batch : c.key = d.key => c = d

\* A context is newer than what was applied, and one that waits is newer than
\* one of the same key in the batch.
Ordered ==
  /\ \A k \in Keys : latest[k] <= calls[k]
  /\ \A c \in queue \cup batch : latest[c.key] < c.call /\ c.call <= calls[c.key]
  /\ \A c \in batch : \A d \in queue : c.key = d.key => c.call < d.call

IInv == TypeOK /\ BatchIsOwned /\ Ordered /\ NewestIsKept /\ QueueIsWatched

LEMMA InitIInv == Init => IInv
<1> SUFFICES ASSUME Init PROVE IInv OBVIOUS
<1> USE MemoryQueueAssumption DEF Init
<1>1. TypeOK
  <2>1. queue \subseteq Contexts /\ batch \subseteq Contexts /\ running \subseteq Keys OBVIOUS
  <2>2. \A c, d \in queue : c.key = d.key => c = d OBVIOUS
  <2>3. processing \in BOOLEAN /\ armed \in BOOLEAN BY Zenon
  <2>4. stray \in Nat /\ fired \in Nat OBVIOUS
  <2>5. calls \in [Keys -> 0 .. MaxCalls] /\ latest \in [Keys -> 0 .. MaxCalls]
        /\ flushes \in Nat /\ cleared \subseteq Keys
    OBVIOUS
  <2> QED BY <2>1, <2>2, <2>3, <2>4, <2>5 DEF TypeOK
<1>2. BatchIsOwned /\ Ordered BY DEF BatchIsOwned, Ordered
<1>3. NewestIsKept /\ QueueIsWatched BY DEF NewestIsKept, QueueIsWatched
<1> QED BY <1>1, <1>2, <1>3 DEF IInv

\* Every step keeps the invariant.
LEMMA NextIInv == IInv /\ [Next]_vars => IInv'
<1> SUFFICES ASSUME IInv, [Next]_vars PROVE IInv' OBVIOUS
<1> USE MemoryQueueAssumption
        DEF IInv, TypeOK, BatchIsOwned, Ordered, NewestIsKept, QueueIsWatched
<1>0. CASE UNCHANGED vars BY <1>0 DEF vars, queueVars
<1>1. ASSUME NEW k \in Keys, Add(k), running' \subseteq Keys PROVE IInv'
  <2> DEFINE new == [key |-> k, call |-> calls[k] + 1]
  <2>1. new \in Contexts /\ calls' = [calls EXCEPT ![k] = @ + 1] /\ calls[k] + 1 \in 0 .. MaxCalls
    BY <1>1 DEF Add, Contexts
  <2>2. queue' = Others(k) \cup {new} /\ Others(k) = {c \in queue : c.key # k}
    BY <1>1 DEF Add, Others
  <2>3. UNCHANGED <<processing, stray, fired, batch, flushes, latest>> /\ armed' = TRUE
        /\ cleared' = cleared \ {k}
    BY <1>1 DEF Add
  <2>4. \A c \in queue \cup batch : c.key \in Keys /\ c.call \in Nat BY DEF Contexts
  <2>5. new.key = k /\ new.call = calls[k] + 1 OBVIOUS
  <2> HIDE DEF new
  <2>6. TypeOK' BY <1>1, <2>1, <2>2, <2>3, <2>5
  <2>7. BatchIsOwned' BY <2>3
  <2>8. Ordered'
    <3>1. \A c \in queue \cup batch : latest[c.key] < c.call /\ c.call <= calls[c.key] OBVIOUS
    <3>2. \A j \in Keys : calls[j] <= calls'[j] /\ calls[j] \in Nat /\ calls'[j] \in Nat BY <2>1
    <3>3. latest[k] \in Nat /\ latest[k] <= calls[k] OBVIOUS
    <3>4. \A c \in queue' \cup batch' : latest[c.key] < c.call /\ c.call <= calls'[c.key]
      BY <2>1, <2>2, <2>3, <2>4, <2>5, <3>1, <3>2, <3>3
    <3>5. \A c \in batch' : \A d \in queue' : c.key = d.key => c.call < d.call
      BY <2>1, <2>2, <2>3, <2>4, <2>5, <3>1
    <3>6. \A j \in Keys : latest[j] <= calls'[j] BY <3>2, <3>3
    <3> QED BY <2>3, <3>4, <3>5, <3>6
  <2>9. ASSUME NEW j \in Keys \ cleared', latest'[j] < calls'[j]
        PROVE [key |-> j, call |-> calls'[j]] \in queue' \cup batch'
    <3>1. CASE j = k BY <2>1, <2>2, <3>1 DEF new
    <3>2. CASE j # k BY <2>1, <2>2, <2>3, <2>9, <3>2
    <3> QED BY <3>1, <3>2
  <2> QED BY <2>3, <2>6, <2>7, <2>8, <2>9
<1>2. ASSUME NEW k \in Keys, RunStarts(k) \/ RunBreaks(k) PROVE IInv'
  BY <1>2 DEF RunStarts, RunBreaks, queueVars
<1>3. ASSUME NEW k \in Keys, RunEnds(k) \/ Summarize(k) PROVE IInv'
  BY <1>1, <1>3 DEF RunEnds, Summarize
<1>4. CASE Fire
  <2>1. UNCHANGED <<queue, processing, batch, running, calls, flushes, latest, cleared>>
        /\ armed' \in BOOLEAN
        /\ stray' \in Nat /\ fired' \in Nat /\ fired' > 0
    <3>1. CASE armed /\ armed' = FALSE /\ UNCHANGED stray
      <4>1. armed' \in BOOLEAN BY <3>1, Zenon
      <4> QED BY <1>4, <3>1, <4>1 DEF Fire
    <3>2. CASE stray > 0 /\ stray' = stray - 1 /\ UNCHANGED armed BY <1>4, <3>2 DEF Fire
    <3> QED BY <1>4, <3>1, <3>2 DEF Fire
  <2> QED BY <2>1
<1>5. CASE Process
  <2>1. CASE Busy /\ Retry /\ UNCHANGED <<queue, processing, batch>>
    BY <1>5, <2>1 DEF Process, Busy, Retry
  <2>2. CASE ~Busy /\ queue = {} /\ UNCHANGED <<queue, processing, batch, armed, stray>>
    BY <1>5, <2>2 DEF Process, Busy
  <2>3. CASE ~Busy /\ queue # {} /\ Take
    <3>1. batch = {} BY <2>3 DEF Busy
    <3>2. processing' = TRUE /\ batch' = queue /\ queue' = {} /\ armed' = FALSE /\ stray' \in Nat
          /\ fired' \in Nat /\ UNCHANGED <<running, calls, flushes, latest, cleared>>
      BY <1>5, <2>3, <3>1 DEF Process, Take
    <3>3. TypeOK' BY <3>2
    <3>4. BatchIsOwned' /\ Ordered' /\ NewestIsKept' /\ QueueIsWatched' BY <3>1, <3>2
    <3> QED BY <3>3, <3>4
  <2> QED BY <1>5, <2>1, <2>2, <2>3 DEF Process
<1>6. CASE Update
  <2>1. PICK c \in batch : /\ batch' = batch \ {c}
                           /\ latest' = [latest EXCEPT ![c.key] = c.call]
                           /\ UNCHANGED <<queue, processing, armed, stray, fired, running, calls, flushes,
                                          cleared>>
    BY <1>6 DEF Update
  <2>2. c.key \in Keys /\ c.call \in 1 .. MaxCalls BY DEF Contexts
  <2>3. TypeOK' BY <2>1, <2>2
  <2>4. BatchIsOwned' BY <2>1
  <2>5. \A d \in queue \cup batch : d.key \in Keys /\ d.call \in Nat BY DEF Contexts
  <2>6. Ordered' BY <2>1, <2>2, <2>5
  <2>7. ASSUME NEW k \in Keys \ cleared, latest'[k] < calls'[k]
        PROVE [key |-> k, call |-> calls[k]] \in queue' \cup batch'
    <3>1. [key |-> k, call |-> calls[k]] \in queue \cup batch BY <2>1, <2>2, <2>5, <2>7
    <3>2. [key |-> k, call |-> calls[k]] # c BY <2>1, <2>2, <2>7
    <3> QED BY <2>1, <3>1, <3>2
  <2> QED BY <2>1, <2>3, <2>4, <2>6, <2>7
<1>7. CASE Finish BY <1>7 DEF Finish
<1>8. CASE Flush
  <2>1. armed' = FALSE /\ fired' \in Nat /\ fired' > 0 /\ flushes' \in Nat
        /\ UNCHANGED <<queue, processing, stray, batch, running, calls, latest, cleared>>
    BY <1>8 DEF Flush, Flushing
  <2>2. armed' \in BOOLEAN BY <2>1, Zenon
  <2> QED BY <2>1, <2>2
<1>9. CASE FlushNowait
  <2>1. armed' = TRUE /\ flushes' \in Nat
        /\ UNCHANGED <<queue, processing, stray, fired, batch, running, calls, latest, cleared>>
    BY <1>9 DEF FlushNowait, Flushing
  <2>2. armed' \in BOOLEAN BY <2>1, Zenon
  <2> QED BY <2>1, <2>2
<1>10. CASE Clear
  <2>1. armed' = FALSE /\ queue' = {} /\ flushes' \in Nat
        /\ cleared' = cleared \cup {c.key : c \in queue}
        /\ UNCHANGED <<processing, stray, fired, batch, running, calls, latest>>
    BY <1>10 DEF Clear, Flushing
  <2>2. armed' \in BOOLEAN BY <2>1, Zenon
  <2>3. cleared' \subseteq Keys BY <2>1 DEF Contexts
  <2>4. TypeOK' /\ BatchIsOwned' /\ Ordered' /\ QueueIsWatched' BY <2>1, <2>2, <2>3
  <2>5. ASSUME NEW k \in Keys \ cleared', latest'[k] < calls'[k]
        PROVE [key |-> k, call |-> calls'[k]] \in queue' \cup batch'
    <3>1. [key |-> k, call |-> calls[k]] \in queue \cup batch BY <2>1, <2>5
    <3>2. [key |-> k, call |-> calls[k]] \notin queue BY <2>1, <2>5
    <3> QED BY <2>1, <3>1, <3>2
  <2> QED BY <2>4, <2>5
<1> QED BY <1>0, <1>2, <1>3, <1>4, <1>5, <1>6, <1>7, <1>8, <1>9, <1>10 DEF Next

\* The inductive invariant holds in every state.
THEOREM Invariance == Spec => []IInv
BY InitIInv, NextIInv, PTL DEF Spec

\* The variables keep their types, and the queue one context for each key.
THEOREM TypeCorrect == Spec => []TypeOK
<1>1. IInv => TypeOK BY DEF IInv
<1> QED BY <1>1, Invariance, PTL

\* The newest context of a thread waits, is in a batch, was applied or cleared.
THEOREM NothingIsLost == Spec => []NewestIsKept
<1>1. IInv => NewestIsKept BY DEF IInv
<1> QED BY <1>1, Invariance, PTL

\* While contexts wait, a timer or a thread is there to take them.
THEOREM NothingIsForgotten == Spec => []QueueIsWatched
<1>1. IInv => QueueIsWatched BY DEF IInv
<1> QED BY <1>1, Invariance, PTL

\* No older context of a thread is applied after a newer one.
THEOREM InOrder == Spec => AppliedInOrder
<1>1. IInv /\ [Next]_vars => [\A k \in Keys : latest'[k] >= latest[k]]_latest
  <2> SUFFICES ASSUME IInv, [Next]_vars, UNCHANGED latest => FALSE
               PROVE \A k \in Keys : latest'[k] >= latest[k] OBVIOUS
  <2>1. Update
    BY DEF Next, vars, queueVars, RunStarts, RunBreaks, RunEnds, Summarize, Add, Fire, Process, Take, Finish,
       Flush, FlushNowait, Clear
  <2>2. PICK c \in batch : latest' = [latest EXCEPT ![c.key] = c.call] BY <2>1 DEF Update
  <2>3. c.key \in Keys /\ c.call \in Nat /\ latest[c.key] < c.call
    BY DEF IInv, TypeOK, Ordered, Contexts
  <2> QED BY <2>2, <2>3 DEF IInv, TypeOK
<1> QED BY <1>1, Invariance, PTL DEF Spec, AppliedInOrder
=============================================================================
