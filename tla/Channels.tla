------------------------------ MODULE Channels ------------------------------
(***************************************************************************)
(* Messages of chat platforms (app/channels/manager.py): the dispatch loop *)
(* drops what it has seen, every other delivery is handled by a task of    *)
(* its own, which finds or creates the thread of the conversation, runs    *)
(* the agent on it through the Gateway and publishes a final answer.       *)
(*                                                                         *)
(* All run on one event loop: what happens between two awaits is a step.   *)
(* The order in which the inbound queue is emptied is left open, for the   *)
(* tasks of two deliveries are not ordered.                                *)
(***************************************************************************)
EXTENDS Naturals, FiniteSets

CONSTANTS Deliveries,      \* what the platforms deliver
          MessageOf,       \* the message a delivery carries: its dedupe key
          ConversationOf,  \* the chat and topic of a message: the key of its lock
          MappingOf,       \* what its thread is stored under: chat and topic of a
                           \* connection, or the chat and topic where there is none
          Commands,        \* the messages that are /new
          Streaming,       \* the messages of channels that stream
          MaxConcurrency,  \* max_concurrency
          MaxExpiries,     \* bound on the keys that expire or are pushed out
          MaxFailures,     \* bound on the failures of the Gateway
          NoDelivery

Messages == {MessageOf[d] : d \in Deliveries}
Conversations == {ConversationOf[m] : m \in Messages}
Conversation(d) == ConversationOf[MessageOf[d]]
Mappings == {MappingOf[m] : m \in Messages}
Mapping(d) == MappingOf[MessageOf[d]]

ASSUME ChannelsAssumption ==
  /\ MessageOf \in [Deliveries -> Messages]
  /\ ConversationOf \in [Messages -> Conversations]
  /\ MappingOf \in [Messages -> Mappings]
  /\ \A m, n \in Messages : MappingOf[m] = MappingOf[n] => ConversationOf[m] = ConversationOf[n]
  /\ Commands \subseteq Messages /\ Streaming \subseteq Messages
  /\ MaxConcurrency \in Nat \ {0}
  /\ MaxExpiries \in Nat /\ MaxFailures \in Nat
  /\ NoDelivery \notin Deliveries

VARIABLES
  recent,     \* _recent_inbound_events: the keys
  thread,     \* the store: the delivery whose thread a mapping leads to
  registry,   \* _thread_create_locks: a lock is named after who made it
  at,         \* where a delivery is
  lock,       \* the lock a task waits for or holds
  target,     \* the thread its agent runs on
  outcome,    \* the final answer it published
  \* history and faults
  created,    \* the deliveries whose thread was stored
  troubled,   \* mappings of /new, and of those left behind on a forgotten lock
  expired,    \* messages whose key has expired
  expiries, failures

taskVars == <<at, lock, target, outcome>>
storeVars == <<thread, created>>
vars == <<recent, storeVars, registry, taskVars, troubled, expired, expiries, failures>>

Init ==
  /\ recent = {}
  /\ thread = [k \in Mappings |-> NoDelivery]
  /\ registry = [c \in Conversations |-> NoDelivery]
  /\ at = [d \in Deliveries |-> "coming"]
  /\ lock = [d \in Deliveries |-> NoDelivery]
  /\ target = [d \in Deliveries |-> NoDelivery]
  /\ outcome = [d \in Deliveries |-> "none"]
  /\ created = {} /\ troubled = {} /\ expired = {}
  /\ expiries = 0 /\ failures = 0

At(stages) == {d \in Deliveries : at[d] \in stages}
InSlot == {"lookup", "missed", "locking", "creating", "asking", "running"}
Handled == {"accepted"} \cup InSlot

Move(d, stage) == at' = [at EXCEPT ![d] = stage]

\* publish_outbound of a final message
Finish(d, what) ==
  /\ at' = [at EXCEPT ![d] = "done"]
  /\ outcome' = [outcome EXCEPT ![d] = what]

-----------------------------------------------------------------------------
(* The provider and the dispatch loop *)

\* A key is older than INBOUND_DEDUPE_TTL_SECONDS, or pushed out by others.
Expire(m) ==
  /\ expiries < MaxExpiries /\ expiries' = expiries + 1
  /\ m \in recent
  /\ recent' = recent \ {m} /\ expired' = expired \cup {m}
  /\ UNCHANGED <<storeVars, registry, taskVars, troubled, failures>>

\* Mutant of Dispatch: the key is not recorded on receipt.
DispatchUnrecorded(d) ==
  /\ at[d] = "coming"
  /\ Move(d, IF MessageOf[d] \in recent THEN "dropped" ELSE "accepted")
  /\ UNCHANGED <<recent, storeVars, registry, lock, target, outcome, troubled, expired, expiries,
                 failures>>

\* publish_inbound, and _is_duplicate_inbound when the loop comes to it.
Dispatch(d) ==
  /\ at[d] = "coming"
  /\ Move(d, IF MessageOf[d] \in recent THEN "dropped" ELSE "accepted")
  /\ recent' = recent \cup {MessageOf[d]}
  /\ UNCHANGED <<storeVars, registry, lock, target, outcome, troubled, expired, expiries, failures>>

-----------------------------------------------------------------------------
(* _handle_message *)

\* The identity is not bound; or, with the thread at hand, the configuration
\* of the session is refused.
Refuse(d) ==
  /\ at[d] = "accepted" \/ (at[d] = "asking" /\ MessageOf[d] \notin Commands)
  /\ Finish(d, "refused")
  /\ UNCHANGED <<recent, storeVars, registry, lock, target, troubled, expired, expiries, failures>>

\* A slot of the semaphore.
Begin(d) ==
  /\ at[d] = "accepted"
  /\ Cardinality(At(InSlot)) < MaxConcurrency
  /\ Move(d, IF MessageOf[d] \in Commands THEN "creating" ELSE "lookup")
  /\ troubled' = IF MessageOf[d] \in Commands THEN troubled \cup {Mapping(d)} ELSE troubled
  /\ UNCHANGED <<recent, storeVars, registry, lock, target, outcome, expired, expiries, failures>>

\* Mutant of Fail: the key stays until it expires.
FailKept(d) == UNCHANGED recent /\ Move(d, "failed")

\* An exception: the key is released, and the error is sent after that.
Fail(d) ==
  /\ recent' = recent \ {MessageOf[d]}
  /\ Move(d, "failed")

\* What is called without a lock fails: the identity's lookup, the thread's,
\* the files or the last lookup of /new.
Stumble(d) ==
  /\ at[d] \in {"accepted", "lookup", "asking"}
  /\ failures < MaxFailures /\ failures' = failures + 1
  /\ Fail(d)
  /\ UNCHANGED <<storeVars, registry, lock, target, outcome, troubled, expired, expiries>>

SendError(d) ==
  /\ at[d] = "failed"
  /\ Finish(d, "error")
  /\ UNCHANGED <<recent, storeVars, registry, lock, target, troubled, expired, expiries, failures>>

-----------------------------------------------------------------------------
(* _get_or_create_thread *)

Known(d) == thread[Mapping(d)] # NoDelivery
Use(d, t) == target' = [target EXCEPT ![d] = t] /\ Move(d, "asking")

\* The lookup.
Lookup(d) ==
  /\ at[d] = "lookup"
  /\ IF Known(d) THEN Use(d, thread[Mapping(d)]) ELSE Move(d, "missed") /\ UNCHANGED target
  /\ UNCHANGED <<recent, storeVars, registry, lock, outcome, troubled, expired, expiries, failures>>

\* It found nothing, back then: the lock of the conversation.
Enlist(d) ==
  /\ at[d] = "missed"
  /\ registry' = [registry EXCEPT ![Conversation(d)] = IF @ = NoDelivery THEN d ELSE @]
  /\ lock' = [lock EXCEPT ![d] = registry'[Conversation(d)]]
  /\ Move(d, "locking")
  /\ UNCHANGED <<recent, storeVars, target, outcome, troubled, expired, expiries, failures>>

\* The holder of a lock is in the middle of a creation under it.
Free(d) == \A e \in At({"creating"}) : lock[e] # lock[d]

\* Who waits for a lock of d's conversation, or holds another one, and has no
\* thread yet.
LeftBehind(d) ==
  {e \in At({"locking", "creating"}) :
     /\ e # d /\ Conversation(e) = Conversation(d)
     /\ thread'[Mapping(e)] = NoDelivery}

\* Mutant of Unlock: the registry forgets, the task does not.
UnlockRegistry(d) ==
  /\ registry' = [registry EXCEPT ![Conversation(d)] = NoDelivery]
  /\ troubled' = troubled \cup {Mapping(e) : e \in LeftBehind(d)}
  /\ UNCHANGED lock

\* The lock is left, and the registry forgets the conversation's lock,
\* whichever that is now and whoever needs it.
Unlock(d) ==
  /\ lock' = [lock EXCEPT ![d] = NoDelivery]
  /\ registry' = [registry EXCEPT ![Conversation(d)] = NoDelivery]
  /\ troubled' = troubled \cup {Mapping(e) : e \in LeftBehind(d)}

\* Mutant of Recheck: the store is not looked up again.
RecheckNot(d) ==
  /\ at[d] = "locking" /\ Free(d)
  /\ Move(d, "creating")
  /\ UNCHANGED <<recent, storeVars, registry, lock, target, outcome, troubled, expired, expiries,
                 failures>>

\* Under the lock the store is looked up once more.
Recheck(d) ==
  /\ at[d] = "locking" /\ Free(d)
  /\ UNCHANGED <<recent, storeVars, outcome, expired, expiries, failures>>
  /\ IF Known(d) THEN Use(d, thread[Mapping(d)]) /\ Unlock(d)
     ELSE Move(d, "creating") /\ UNCHANGED <<target, lock, registry, troubled>>

RecheckFails(d) ==
  /\ at[d] = "locking" /\ Free(d)
  /\ failures < MaxFailures /\ failures' = failures + 1
  /\ UNCHANGED <<storeVars, target, outcome, expired, expiries>>
  /\ Fail(d) /\ Unlock(d)

\* _store_thread_id
Store(d) ==
  /\ created' = created \cup {d}
  /\ thread' = [thread EXCEPT ![Mapping(d)] = d]

\* /new takes no lock.
Leave(d) == IF MessageOf[d] \in Commands THEN UNCHANGED <<lock, registry, troubled>> ELSE Unlock(d)

\* _create_thread: a thread at the Gateway, then the mapping.
Create(d) ==
  /\ at[d] = "creating"
  /\ Store(d) /\ Use(d, d) /\ Leave(d)
  /\ UNCHANGED <<recent, outcome, expired, expiries, failures>>

\* The Gateway fails, or storing does: before or after the mapping is there.
CreateFails(d) ==
  /\ at[d] = "creating"
  /\ failures < MaxFailures /\ failures' = failures + 1
  /\ UNCHANGED storeVars \/ Store(d)
  /\ Fail(d) /\ Leave(d)
  /\ UNCHANGED <<target, outcome, expired, expiries>>

-----------------------------------------------------------------------------
(* The run: multitask_strategy "reject" *)

Busy(t) == \E e \in At({"running"}) : target[e] = t

\* Mutant of Ask: a busy thread is not reported.
AskSilently(d) ==
  /\ at[d] = "asking" /\ MessageOf[d] \notin Commands
  /\ Move(d, IF Busy(target[d]) THEN "done" ELSE "running")
  /\ UNCHANGED <<recent, storeVars, registry, lock, target, outcome, troubled, expired, expiries,
                 failures>>

\* runs.wait, runs.stream: a thread that has a run rejects another one.
Ask(d) ==
  /\ at[d] = "asking" /\ MessageOf[d] \notin Commands
  /\ IF Busy(target[d]) THEN Finish(d, "busy") ELSE Move(d, "running") /\ UNCHANGED outcome
  /\ UNCHANGED <<recent, storeVars, registry, lock, target, troubled, expired, expiries, failures>>

\* Of a run, or of /new.
Answer(d) ==
  /\ at[d] = "running" \/ (at[d] = "asking" /\ MessageOf[d] \in Commands)
  /\ Finish(d, "answer")
  /\ UNCHANGED <<recent, storeVars, registry, lock, target, troubled, expired, expiries, failures>>

\* The request fails, or the delivery of its artifacts.  Where the request
\* does, _handle_streaming_chat answers with what it has.
RunFails(d) ==
  /\ at[d] = "running"
  /\ failures < MaxFailures /\ failures' = failures + 1
  /\ \/ MessageOf[d] \in Streaming /\ Finish(d, "cut") /\ UNCHANGED recent
     \/ Fail(d) /\ UNCHANGED outcome
  /\ UNCHANGED <<storeVars, registry, lock, target, troubled, expired, expiries>>

\* What the task of a delivery does by itself.
Work(d) ==
  \/ Begin(d) \/ SendError(d) \/ Lookup(d) \/ Enlist(d) \/ Recheck(d) \/ Create(d) \/ Ask(d)
  \/ Answer(d)

Next ==
  \/ \E m \in Messages : Expire(m)
  \/ \E d \in Deliveries :
       \/ Dispatch(d) \/ Refuse(d) \/ Work(d)
       \/ Stumble(d) \/ RecheckFails(d) \/ CreateFails(d) \/ RunFails(d)

Spec == Init /\ [][Next]_vars

\* The event loop runs what is ready, and the Gateway answers or fails.
FairSpec == Spec /\ \A d \in Deliveries : WF_vars(Work(d))

-----------------------------------------------------------------------------
(* Properties *)

Stages == {"coming", "dropped", "failed", "done"} \cup Handled
Outcomes == {"none", "refused", "busy", "answer", "cut", "error"}

\* The variables have their types, and a task in need of a lock has one.
TypeOK ==
  /\ recent \subseteq Messages
  /\ thread \in [Mappings -> Deliveries \cup {NoDelivery}]
  /\ registry \in [Conversations -> Deliveries \cup {NoDelivery}]
  /\ at \in [Deliveries -> Stages]
  /\ lock \in [Deliveries -> Deliveries \cup {NoDelivery}]
  /\ \A d \in Deliveries : lock[d] # NoDelivery <=>
       at[d] \in {"locking", "creating"} /\ MessageOf[d] \notin Commands
  /\ \A d \in At({"lookup", "missed", "locking", "running"}) : MessageOf[d] \notin Commands
  /\ target \in [Deliveries -> Deliveries \cup {NoDelivery}]
  /\ outcome \in [Deliveries -> Outcomes]
  /\ \A d \in Deliveries : outcome[d] # "none" <=> at[d] = "done"
  /\ created \subseteq Deliveries
  /\ troubled \subseteq Mappings /\ expired \subseteq recent \cup Messages
  /\ expiries \in Nat /\ failures \in Nat

\* A message that is delivered again while it is handled is not handled a
\* second time, unless its key expired meanwhile (_is_duplicate_inbound).
OneAtATime ==
  \A d, e \in At(Handled) :
    d # e /\ MessageOf[d] = MessageOf[e] => MessageOf[d] \in expired

\* What the dispatch loop takes for a duplicate is a message that is being
\* handled or was answered: one whose handling failed can be delivered again
\* (_release_inbound_dedupe_key).
RememberedIsHandled ==
  \A m \in recent : \E d \in Deliveries :
    MessageOf[d] = m /\ (at[d] \in Handled \/ outcome[d] \in {"refused", "busy", "answer", "cut"})

\* Messages that arrive together share one thread: a mapping gets no second
\* one, unless /new was sent or the lock was forgotten while one of its
\* messages had it without a thread: by one that failed under it, or by one of
\* another connection (_get_or_create_thread).
OneThread ==
  \A d, e \in created :
    d # e /\ Mapping(d) = Mapping(e) => Mapping(d) \in troubled

\* Every message the loop accepts is answered in the end, whatever waits for
\* whatever: slots, locks, the Gateway (_handle_message).
AcceptedIsAnswered ==
  \A d \in Deliveries : at[d] = "accepted" ~> outcome[d] # "none"

\* "Serialize the create path per conversation and re-check inside the lock so
\* only the first message creates a thread and the rest reuse it" (1223-1229),
\* where nobody sent /new.
CreatedOnce ==
  \A d, e \in created : Mapping(d) = Mapping(e) => d = e
=============================================================================
