--------------------------- MODULE ChannelsProofs ---------------------------
(* Channels keeps its invariants whatever is delivered, however often, over *)
(* whatever connections, and whatever the numbers of slots, expired keys    *)
(* and failures.                                                            *)
EXTENDS Channels, TLAPS

\* A message that is handled is remembered, unless its key expired.
HandledIsRecent == \A d \in At(Handled) : MessageOf[d] \in recent \cup expired

\* /new troubles its mapping before it creates.
CommandsTrouble ==
  \A d \in At({"creating"}) : MessageOf[d] \in Commands => Mapping(d) \in troubled

\* While a mapping has no thread, all that wait to create it share a lock, and
\* the registry knows it.
OneLock ==
  \A d \in At({"locking", "creating"}) :
    Mapping(d) \in troubled \/ thread[Mapping(d)] # NoDelivery
      \/ lock[d] = registry[Conversation(d)]

\* So only one creates, and none when there is a thread.
OneCreator ==
  \A d \in At({"creating"}) :
    \/ Mapping(d) \in troubled
    \/ /\ thread[Mapping(d)] = NoDelivery
       /\ \A e \in At({"creating"}) : Mapping(e) = Mapping(d) => e = d

\* A thread that was stored is the mapping's, or was.
CreatedIsKnown == \A d \in created : thread[Mapping(d)] # NoDelivery

Dedupe == HandledIsRecent /\ OneAtATime
Locks == CommandsTrouble /\ OneLock /\ OneCreator /\ CreatedIsKnown /\ OneThread
IInv == TypeOK /\ Dedupe /\ RememberedIsHandled /\ Locks

\* What is stored under one mapping is created under one lock.
LEMMA Places ==
  /\ \A d \in Deliveries : Conversation(d) \in Conversations /\ Mapping(d) \in Mappings
  /\ \A d, e \in Deliveries : Mapping(d) = Mapping(e) => Conversation(d) = Conversation(e)
BY ChannelsAssumption DEF Messages, Conversations, Mappings, Conversation, Mapping

\* Who leaves a lock troubles those who may part.
LEMMA Unlocked ==
  ASSUME TypeOK, OneLock, NEW d \in Deliveries, NEW s \in {"asking", "failed"}, Unlock(d),
         at' = [at EXCEPT ![d] = s], \A k \in Mappings : thread[k] # NoDelivery => thread'[k] # NoDelivery
  PROVE OneLock'
<1> SUFFICES ASSUME NEW e \in Deliveries, at'[e] \in {"locking", "creating"}, Mapping(e) \notin troubled',
                    thread'[Mapping(e)] = NoDelivery
             PROVE lock'[e] = registry'[Conversation(e)]
  BY DEF OneLock, At, Mapping, Conversation
<1>1. e # d /\ at'[e] = at[e] /\ lock'[e] = lock[e] BY DEF TypeOK, Unlock
<1>2. Mapping(e) \notin troubled /\ thread[Mapping(e)] = NoDelivery BY Places DEF Unlock
<1>3. lock[e] = registry[Conversation(e)] BY <1>1, <1>2 DEF OneLock, At
<1>4. Conversation(e) # Conversation(d) BY <1>1 DEF Unlock, LeftBehind, At
<1> QED BY <1>1, <1>3, <1>4, Places DEF TypeOK, Unlock

\* Who creates, and whether it stores its thread or not, keeps the locks.
LEMMA Created ==
  ASSUME TypeOK, TypeOK', Locks, NEW d \in Deliveries, NEW s \in {"asking", "failed"}, at[d] = "creating",
         at' = [at EXCEPT ![d] = s], UNCHANGED <<thread, created>> \/ Store(d), Leave(d)
  PROVE Locks'
<1> USE DEF TypeOK, Locks, CommandsTrouble, OneLock, OneCreator, CreatedIsKnown, OneThread, At
<1>1. troubled \subseteq troubled' BY DEF Leave, Unlock
<1>2. \A k \in Mappings : thread[k] # NoDelivery => thread'[k] # NoDelivery
  BY ChannelsAssumption, Places DEF Store
<1>3. \A e \in Deliveries : at'[e] \in {"locking", "creating"} => e # d /\ at'[e] = at[e] OBVIOUS
<1>4. OneLock'
  <2>1. CASE MessageOf[d] \in Commands
    <3>1. UNCHANGED <<lock, registry, troubled>> BY <2>1 DEF Leave
    <3>2. ASSUME NEW e \in Deliveries, at'[e] \in {"locking", "creating"}
          PROVE Mapping(e) \in troubled' \/ thread'[Mapping(e)] # NoDelivery \/ lock'[e] = registry'[Conversation(e)]
      BY <1>2, <1>3, <3>1, <3>2, Places
    <3> QED BY <3>2 DEF Mapping, Conversation
  <2>2. CASE MessageOf[d] \notin Commands
    <3>1. Unlock(d) BY <2>2 DEF Leave
    <3>2. TypeOK /\ OneLock OBVIOUS
    <3> QED BY <1>2, <3>1, <3>2, Unlocked
  <2> QED BY <2>1, <2>2
<1>5. OneCreator'
  <2>1. ASSUME NEW e \in Deliveries, at'[e] = "creating", Mapping(e) \notin troubled'
        PROVE thread'[Mapping(e)] = NoDelivery /\ Mapping(e) # Mapping(d)
    <3>1. e # d /\ at[e] = "creating" /\ Mapping(e) \notin troubled BY <1>1, <1>3, <2>1
    <3>2. thread[Mapping(e)] = NoDelivery /\ Mapping(e) # Mapping(d) BY <3>1
    <3> QED BY <3>2, Places DEF Store
  <2>2. ASSUME NEW e \in Deliveries, NEW f \in Deliveries, at'[e] = "creating", at'[f] = "creating",
               Mapping(e) = Mapping(f), Mapping(e) \notin troubled'
        PROVE e = f
    BY <1>1, <1>3, <2>2
  <2> QED BY <2>1, <2>2 DEF Mapping
<1>6. CommandsTrouble' BY <1>1, <1>3 DEF Mapping
<1>7. CreatedIsKnown'
  <2>1. ASSUME NEW e \in created' PROVE thread'[Mapping(e)] # NoDelivery
    BY <1>2, <2>1, Places, ChannelsAssumption DEF Store
  <2> QED BY <2>1 DEF Mapping
<1>8. OneThread'
  <2>1. ASSUME NEW e \in created PROVE Mapping(e) = Mapping(d) => Mapping(d) \in troubled
    BY <2>1
  <2>2. ASSUME NEW e \in created', NEW f \in created', e # f, Mapping(e) = Mapping(f)
        PROVE Mapping(e) \in troubled'
    BY <1>1, <2>1, <2>2 DEF Store
  <2> QED BY <2>2 DEF Mapping
<1> QED BY <1>4, <1>5, <1>6, <1>7, <1>8

\* Every step keeps the types.
LEMMA TypeStep == TypeOK /\ [Next]_vars => TypeOK'
<1> SUFFICES ASSUME TypeOK, [Next]_vars PROVE TypeOK' OBVIOUS
<1> USE ChannelsAssumption DEF TypeOK, At, Handled, InSlot, Stages, Outcomes, Conversation
<1>0. CASE UNCHANGED vars BY <1>0 DEF vars, storeVars, taskVars
<1>1. ASSUME NEW m \in Messages, Expire(m) PROVE TypeOK'
  BY <1>1 DEF Expire, storeVars, taskVars
<1>2. ASSUME NEW d \in Deliveries, Lookup(d) PROVE TypeOK'
  <2>1. thread[Mapping(d)] \in Deliveries \cup {NoDelivery} BY Places
  <2> QED BY <1>2, <2>1 DEF Lookup, Known, Use, Move, storeVars
<1>3. ASSUME NEW d \in Deliveries, Dispatch(d) PROVE TypeOK'
  BY <1>3 DEF Dispatch, Move, storeVars, taskVars
<1>4. ASSUME NEW d \in Deliveries, Refuse(d) PROVE TypeOK'
  BY <1>4 DEF Refuse, Finish, storeVars, taskVars
<1>5. ASSUME NEW d \in Deliveries, CreateFails(d) PROVE TypeOK'
  <2>1. ASSUME Unlock(d)
        PROVE /\ lock' = [lock EXCEPT ![d] = NoDelivery]
              /\ registry' \in [Conversations -> Deliveries \cup {NoDelivery}]
              /\ troubled' \subseteq Mappings
    BY <2>1, Places DEF Unlock, LeftBehind
  <2> QED BY <1>5, <2>1, Places DEF CreateFails, Fail, Move, Store, Leave, storeVars, taskVars
<1>6. ASSUME NEW d \in Deliveries, RunFails(d) PROVE TypeOK'
  BY <1>6 DEF RunFails, Fail, Move, Finish, storeVars, taskVars
<1>7. ASSUME NEW d \in Deliveries, Begin(d) PROVE TypeOK'
  BY <1>7, Places DEF Begin, Move, storeVars, taskVars
<1>8. ASSUME NEW d \in Deliveries, SendError(d) PROVE TypeOK'
  BY <1>8 DEF SendError, Finish, storeVars, taskVars
<1>9. ASSUME NEW d \in Deliveries, Enlist(d) PROVE TypeOK'
  <2>1. registry'[Conversation(d)] \in Deliveries /\ registry' \in [Conversations -> Deliveries \cup {NoDelivery}]
    BY <1>9, Places DEF Enlist
  <2>2. lock' = [lock EXCEPT ![d] = registry'[Conversation(d)]] /\ at' = [at EXCEPT ![d] = "locking"]
    BY <1>9 DEF Enlist, Move
  <2>3. MessageOf[d] \notin Commands BY <1>9 DEF Enlist
  <2> QED BY <1>9, <2>1, <2>2, <2>3 DEF Enlist, storeVars
<1>10. ASSUME NEW d \in Deliveries, Recheck(d) PROVE TypeOK'
  <2>1. CASE Known(d)
    <3>1. /\ lock' = [lock EXCEPT ![d] = NoDelivery]
          /\ registry' \in [Conversations -> Deliveries \cup {NoDelivery}]
          /\ troubled' \subseteq Mappings
      BY <1>10, <2>1, Places DEF Recheck, Unlock, LeftBehind
    <3>2. thread[Mapping(d)] \in Deliveries BY <2>1, Places DEF Known
    <3>3. /\ at[d] = "locking" /\ at' = [at EXCEPT ![d] = "asking"]
          /\ target' = [target EXCEPT ![d] = thread[Mapping(d)]]
      BY <1>10, <2>1 DEF Recheck, Use, Move
    <3>4. UNCHANGED <<recent, thread, created, outcome, expired, expiries, failures>>
      BY <1>10 DEF Recheck, storeVars
    <3> HIDE DEF Conversation
    <3> QED BY <3>1, <3>2, <3>3, <3>4
  <2>2. CASE ~ Known(d) BY <1>10, <2>2 DEF Recheck, Move, storeVars
  <2> QED BY <2>1, <2>2
<1>11. ASSUME NEW d \in Deliveries, Create(d) PROVE TypeOK'
  <2>1. ASSUME Unlock(d)
        PROVE /\ lock' = [lock EXCEPT ![d] = NoDelivery]
              /\ registry' \in [Conversations -> Deliveries \cup {NoDelivery}]
              /\ troubled' \subseteq Mappings
    BY <2>1, Places DEF Unlock, LeftBehind
  <2> QED BY <1>11, <2>1, Places DEF Create, Use, Move, Store, Leave, storeVars, taskVars
<1>12. ASSUME NEW d \in Deliveries, Ask(d) PROVE TypeOK'
  BY <1>12 DEF Ask, Busy, Move, Finish, storeVars, taskVars
<1>13. ASSUME NEW d \in Deliveries, Answer(d) PROVE TypeOK'
  BY <1>13 DEF Answer, Finish, storeVars, taskVars
<1>14. ASSUME NEW d \in Deliveries, RecheckFails(d) PROVE TypeOK'
  <2>1. ASSUME Unlock(d)
        PROVE /\ lock' = [lock EXCEPT ![d] = NoDelivery]
              /\ registry' \in [Conversations -> Deliveries \cup {NoDelivery}]
              /\ troubled' \subseteq Mappings
    BY <2>1, Places DEF Unlock, LeftBehind
  <2> QED BY <1>14, <2>1, Places DEF RecheckFails, Fail, Move, Free, storeVars, taskVars
<1>15. ASSUME NEW d \in Deliveries, Stumble(d) PROVE TypeOK'
  BY <1>15 DEF Stumble, Fail, Move, storeVars, taskVars
<1> QED BY <1>0, <1>1, <1>2, <1>3, <1>4, <1>5, <1>6, <1>7, <1>8, <1>9, <1>10, <1>11, <1>12, <1>13, <1>14, <1>15 DEF Next, Work

\* Every step keeps one handling of a message at a time.
LEMMA DedupeStep == TypeOK /\ TypeOK' /\ Dedupe /\ [Next]_vars => Dedupe'
<1> SUFFICES ASSUME TypeOK /\ TypeOK' /\ Dedupe, [Next]_vars PROVE Dedupe' OBVIOUS
<1> USE ChannelsAssumption DEF TypeOK, Dedupe, HandledIsRecent, OneAtATime, At, Handled, InSlot
<1>0. CASE UNCHANGED vars BY <1>0 DEF vars, storeVars, taskVars
<1>1. ASSUME NEW m \in Messages, Expire(m) PROVE Dedupe'
  BY <1>1 DEF Expire, storeVars, taskVars
<1>2. ASSUME NEW d \in Deliveries, Lookup(d) PROVE Dedupe'
  BY <1>2 DEF Lookup, Known, Use, Move, storeVars, taskVars
<1>3. ASSUME NEW d \in Deliveries, Dispatch(d) PROVE Dedupe'
  BY <1>3 DEF Dispatch, Move, storeVars, taskVars
<1>4. ASSUME NEW d \in Deliveries, Refuse(d) PROVE Dedupe'
  BY <1>4 DEF Refuse, Finish, storeVars, taskVars
<1>5. ASSUME NEW d \in Deliveries, CreateFails(d) PROVE Dedupe'
  BY <1>5 DEF CreateFails, Fail, Move, Leave, Unlock, Store, storeVars, taskVars
<1>6. ASSUME NEW d \in Deliveries, RunFails(d) PROVE Dedupe'
  BY <1>6 DEF RunFails, Fail, Move, Finish, storeVars, taskVars
<1>7. ASSUME NEW d \in Deliveries, Begin(d) PROVE Dedupe'
  BY <1>7 DEF Begin, Move, storeVars, taskVars
<1>8. ASSUME NEW d \in Deliveries, SendError(d) PROVE Dedupe'
  BY <1>8 DEF SendError, Finish, storeVars, taskVars
<1>9. ASSUME NEW d \in Deliveries, Enlist(d) PROVE Dedupe'
  BY <1>9 DEF Enlist, Move, storeVars, taskVars
<1>10. ASSUME NEW d \in Deliveries, Recheck(d) PROVE Dedupe'
  BY <1>10 DEF Recheck, Known, Use, Move, Unlock, Free, storeVars, taskVars
<1>11. ASSUME NEW d \in Deliveries, Create(d) PROVE Dedupe'
  BY <1>11 DEF Create, Use, Move, Store, Leave, Unlock, storeVars, taskVars
<1>12. ASSUME NEW d \in Deliveries, Ask(d) PROVE Dedupe'
  BY <1>12 DEF Ask, Busy, Move, Finish, storeVars, taskVars
<1>13. ASSUME NEW d \in Deliveries, Answer(d) PROVE Dedupe'
  BY <1>13 DEF Answer, Finish, storeVars, taskVars
<1>14. ASSUME NEW d \in Deliveries, RecheckFails(d) PROVE Dedupe'
  BY <1>14 DEF RecheckFails, Fail, Move, Unlock, storeVars, taskVars
<1>15. ASSUME NEW d \in Deliveries, Stumble(d) PROVE Dedupe'
  BY <1>15 DEF Stumble, Fail, Move, storeVars, taskVars
<1> QED BY <1>0, <1>1, <1>2, <1>3, <1>4, <1>5, <1>6, <1>7, <1>8, <1>9, <1>10, <1>11, <1>12, <1>13, <1>14, <1>15 DEF Next, Work

\* Every step keeps what the dispatch loop remembers.
LEMMA RememberedStep == TypeOK /\ TypeOK' /\ Dedupe /\ RememberedIsHandled /\ [Next]_vars => RememberedIsHandled'
<1> SUFFICES ASSUME TypeOK /\ TypeOK' /\ Dedupe /\ RememberedIsHandled, [Next]_vars PROVE RememberedIsHandled' OBVIOUS
<1> USE ChannelsAssumption DEF TypeOK, Dedupe, HandledIsRecent, OneAtATime, RememberedIsHandled, At, Handled, InSlot
<1>0. CASE UNCHANGED vars BY <1>0 DEF vars, storeVars, taskVars
<1>1. ASSUME NEW m \in Messages, Expire(m) PROVE RememberedIsHandled'
  BY <1>1 DEF Expire, storeVars, taskVars
<1>2. ASSUME NEW d \in Deliveries, Lookup(d) PROVE RememberedIsHandled'
  BY <1>2 DEF Lookup, Known, Use, Move, storeVars, taskVars
<1>3. ASSUME NEW d \in Deliveries, Dispatch(d) PROVE RememberedIsHandled'
  BY <1>3 DEF Dispatch, Move, storeVars, taskVars
<1>4. ASSUME NEW d \in Deliveries, Refuse(d) PROVE RememberedIsHandled'
  BY <1>4 DEF Refuse, Finish, storeVars, taskVars
<1>5. ASSUME NEW d \in Deliveries, CreateFails(d) PROVE RememberedIsHandled'
  BY <1>5 DEF CreateFails, Fail, Move, Leave, Unlock, Store, storeVars, taskVars
<1>6. ASSUME NEW d \in Deliveries, RunFails(d) PROVE RememberedIsHandled'
  BY <1>6 DEF RunFails, Fail, Move, Finish, storeVars, taskVars
<1>7. ASSUME NEW d \in Deliveries, Begin(d) PROVE RememberedIsHandled'
  BY <1>7 DEF Begin, Move, storeVars, taskVars
<1>8. ASSUME NEW d \in Deliveries, SendError(d) PROVE RememberedIsHandled'
  BY <1>8 DEF SendError, Finish, storeVars, taskVars
<1>9. ASSUME NEW d \in Deliveries, Enlist(d) PROVE RememberedIsHandled'
  BY <1>9 DEF Enlist, Move, storeVars, taskVars
<1>10. ASSUME NEW d \in Deliveries, Recheck(d) PROVE RememberedIsHandled'
  BY <1>10 DEF Recheck, Known, Use, Move, Unlock, Free, storeVars, taskVars
<1>11. ASSUME NEW d \in Deliveries, Create(d) PROVE RememberedIsHandled'
  BY <1>11 DEF Create, Use, Move, Store, Leave, Unlock, storeVars, taskVars
<1>12. ASSUME NEW d \in Deliveries, Ask(d) PROVE RememberedIsHandled'
  BY <1>12 DEF Ask, Busy, Move, Finish, storeVars, taskVars
<1>13. ASSUME NEW d \in Deliveries, Answer(d) PROVE RememberedIsHandled'
  BY <1>13 DEF Answer, Finish, storeVars, taskVars
<1>14. ASSUME NEW d \in Deliveries, RecheckFails(d) PROVE RememberedIsHandled'
  BY <1>14 DEF RecheckFails, Fail, Move, Unlock, storeVars, taskVars
<1>15. ASSUME NEW d \in Deliveries, Stumble(d) PROVE RememberedIsHandled'
  BY <1>15 DEF Stumble, Fail, Move, storeVars, taskVars
<1> QED BY <1>0, <1>1, <1>2, <1>3, <1>4, <1>5, <1>6, <1>7, <1>8, <1>9, <1>10, <1>11, <1>12, <1>13, <1>14, <1>15 DEF Next, Work

\* Every step keeps the locks of the conversations.
LEMMA LocksStep == TypeOK /\ TypeOK' /\ Locks /\ [Next]_vars => Locks'
<1> SUFFICES ASSUME TypeOK /\ TypeOK' /\ Locks, [Next]_vars PROVE Locks' OBVIOUS
<1> USE ChannelsAssumption DEF TypeOK, Locks, CommandsTrouble, OneLock, OneCreator, CreatedIsKnown, OneThread, At
<1>0. CASE UNCHANGED vars BY <1>0 DEF vars, storeVars, taskVars
<1>1. ASSUME NEW m \in Messages, Expire(m) PROVE Locks'
  BY <1>1 DEF Expire, storeVars, taskVars
<1>2. ASSUME NEW d \in Deliveries, Lookup(d) PROVE Locks'
  BY <1>2 DEF Lookup, Known, Use, Move, storeVars, taskVars
<1>3. ASSUME NEW d \in Deliveries, Dispatch(d) PROVE Locks'
  BY <1>3 DEF Dispatch, Move, storeVars, taskVars
<1>4. ASSUME NEW d \in Deliveries, Refuse(d) PROVE Locks'
  BY <1>4 DEF Refuse, Finish, storeVars, taskVars
<1>5. ASSUME NEW d \in Deliveries, CreateFails(d) PROVE Locks'
  <2>1. at[d] = "creating" /\ at' = [at EXCEPT ![d] = "failed"] BY <1>5 DEF CreateFails, Fail, Move
  <2>2. UNCHANGED <<thread, created>> \/ Store(d) BY <1>5 DEF CreateFails, storeVars
  <2>3. Leave(d) BY <1>5 DEF CreateFails
  <2> QED BY <2>1, <2>2, <2>3, Created
<1>6. ASSUME NEW d \in Deliveries, RunFails(d) PROVE Locks'
  BY <1>6 DEF RunFails, Fail, Move, Finish, storeVars, taskVars
<1>7. ASSUME NEW d \in Deliveries, Begin(d) PROVE Locks'
  BY <1>7 DEF Begin, Move, storeVars, taskVars
<1>8. ASSUME NEW d \in Deliveries, SendError(d) PROVE Locks'
  BY <1>8 DEF SendError, Finish, storeVars, taskVars
<1>9. ASSUME NEW d \in Deliveries, Enlist(d) PROVE Locks'
  <2>1. registry' = [registry EXCEPT ![Conversation(d)] = registry'[Conversation(d)]]
        /\ (registry[Conversation(d)] # NoDelivery => registry' = registry)
    BY <1>9, Places DEF Enlist
  <2>2. lock' = [lock EXCEPT ![d] = registry'[Conversation(d)]] /\ at' = [at EXCEPT ![d] = "locking"]
    BY <1>9 DEF Enlist, Move
  <2>3. UNCHANGED <<thread, created, troubled>> BY <1>9 DEF Enlist, storeVars
  <2>4. CommandsTrouble' /\ OneCreator' /\ CreatedIsKnown' /\ OneThread' BY <2>2, <2>3 DEF Mapping
  <2>5. ASSUME NEW e \in Deliveries, at'[e] \in {"locking", "creating"}, Mapping(e) \notin troubled,
               thread[Mapping(e)] = NoDelivery
        PROVE lock'[e] = registry'[Conversation(e)]
    <3>1. CASE e = d BY <2>2, <3>1 DEF Conversation
    <3>2. CASE e # d
      <4>1. lock'[e] = lock[e] /\ at'[e] = at[e] BY <2>2, <3>2
      <4>2. lock[e] = registry[Conversation(e)] /\ lock[e] # NoDelivery BY <2>5, <4>1
      <4>3. CASE Conversation(e) = Conversation(d) BY <2>1, <4>1, <4>2, <4>3
      <4>4. CASE Conversation(e) # Conversation(d) BY <2>1, <4>1, <4>2, <4>4, Places
      <4> QED BY <4>3, <4>4
    <3> QED BY <3>1, <3>2
  <2>6. OneLock' BY <2>3, <2>5
  <2> QED BY <2>4, <2>6
<1>10. ASSUME NEW d \in Deliveries, Recheck(d) PROVE Locks'
  <2>1. CASE Known(d)
    <3>1. at' = [at EXCEPT ![d] = "asking"] /\ UNCHANGED <<thread, created>> /\ Unlock(d)
      BY <1>10, <2>1 DEF Recheck, Use, Move, storeVars
    <3>2. OneLock' BY <3>1, Unlocked
    <3> QED BY <3>1, <3>2 DEF Unlock, Mapping
  <2>2. CASE ~ Known(d)
    <3>1. at' = [at EXCEPT ![d] = "creating"] /\ UNCHANGED <<lock, registry, thread, created, troubled>>
      BY <1>10, <2>2 DEF Recheck, Move, storeVars
    <3>2. at[d] = "locking" /\ \A e \in Deliveries : at[e] = "creating" => lock[e] # lock[d]
      BY <1>10 DEF Recheck, Free
    <3>3. CommandsTrouble' /\ OneLock' /\ CreatedIsKnown' /\ OneThread' BY <3>1, <3>2 DEF Mapping, Conversation
    <3>4. ASSUME NEW e \in Deliveries, at[e] = "creating", Mapping(e) = Mapping(d), Mapping(d) \notin troubled
          PROVE FALSE
      <4>1. lock[e] = registry[Conversation(e)] /\ lock[d] = registry[Conversation(d)]
        BY <2>2, <3>2, <3>4 DEF Known
      <4>2. Conversation(e) = Conversation(d) BY <3>4, Places
      <4> QED BY <3>2, <3>4, <4>1, <4>2
    <3>5. ASSUME NEW e \in Deliveries, NEW f \in Deliveries, at'[e] = "creating", at'[f] = "creating",
                 Mapping(e) = Mapping(f), Mapping(e) \notin troubled
          PROVE thread[Mapping(e)] = NoDelivery /\ e = f
      <4>1. CASE e = d \/ f = d BY <2>2, <3>1, <3>4, <3>5, <4>1 DEF Known
      <4>2. CASE e # d /\ f # d BY <3>1, <3>5, <4>2
      <4> QED BY <4>1, <4>2
    <3>6. OneCreator' BY <3>1, <3>5 DEF Mapping
    <3> QED BY <3>3, <3>6
  <2> QED BY <2>1, <2>2
<1>11. ASSUME NEW d \in Deliveries, Create(d) PROVE Locks'
  <2>1. at[d] = "creating" /\ at' = [at EXCEPT ![d] = "asking"] BY <1>11 DEF Create, Use, Move
  <2>2. Store(d) BY <1>11 DEF Create, storeVars
  <2>3. Leave(d) BY <1>11 DEF Create
  <2> QED BY <2>1, <2>2, <2>3, Created
<1>12. ASSUME NEW d \in Deliveries, Ask(d) PROVE Locks'
  BY <1>12 DEF Ask, Busy, Move, Finish, storeVars, taskVars
<1>13. ASSUME NEW d \in Deliveries, Answer(d) PROVE Locks'
  BY <1>13 DEF Answer, Finish, storeVars, taskVars
<1>14. ASSUME NEW d \in Deliveries, RecheckFails(d) PROVE Locks'
  <2>1. at' = [at EXCEPT ![d] = "failed"] /\ UNCHANGED <<thread, created>> /\ Unlock(d)
    BY <1>14 DEF RecheckFails, Fail, Move, storeVars
  <2>2. OneLock' BY <2>1, Unlocked
  <2> QED BY <2>1, <2>2 DEF Unlock, Mapping
<1>15. ASSUME NEW d \in Deliveries, Stumble(d) PROVE Locks'
  BY <1>15 DEF Stumble, Fail, Move, storeVars, taskVars
<1> QED BY <1>0, <1>1, <1>2, <1>3, <1>4, <1>5, <1>6, <1>7, <1>8, <1>9, <1>10, <1>11, <1>12, <1>13, <1>14, <1>15 DEF Next, Work

\* The inductive invariant holds in every state.
THEOREM Invariance == Spec => []IInv
<1>1. Init => IInv
  BY ChannelsAssumption DEF Init, IInv, TypeOK, Dedupe, HandledIsRecent, OneAtATime, RememberedIsHandled, Locks,
     CommandsTrouble, OneLock, OneCreator, CreatedIsKnown, OneThread, At, Handled, InSlot, Stages, Outcomes, Conversation, Mapping
<1>2. IInv /\ [Next]_vars => IInv'
  BY TypeStep, DedupeStep, RememberedStep, LocksStep DEF IInv
<1> QED BY <1>1, <1>2, PTL DEF Spec

\* The variables keep their types.
THEOREM TypeCorrect == Spec => []TypeOK
<1>1. IInv => TypeOK BY DEF IInv
<1> QED BY <1>1, Invariance, PTL

\* A message is not handled twice at a time, unless its key expired, in any
\* number of deliveries and failures.
THEOREM HandledOnceAtATime == Spec => []OneAtATime
<1>1. IInv => OneAtATime BY DEF IInv, Dedupe
<1> QED BY <1>1, Invariance, PTL

\* What is dropped as a duplicate is being handled or was answered.
THEOREM DuplicatesAreHandled == Spec => []RememberedIsHandled
<1>1. IInv => RememberedIsHandled BY DEF IInv
<1> QED BY <1>1, Invariance, PTL

\* An untroubled mapping gets one thread, however many messages arrive.
THEOREM OneThreadEach == Spec => []OneThread
<1>1. IInv => OneThread BY DEF IInv, Locks
<1> QED BY <1>1, Invariance, PTL
=============================================================================
