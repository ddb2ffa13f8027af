-------------------------- MODULE SessionPoolProofs --------------------------
(* SessionPool keeps its types, never ends a session it still offers and     *)
(* loses no owner task, for any calls, keys, loops, size of the pool,        *)
(* closes, cancellations and connections that break.                         *)
EXTENDS SessionPool, SequenceTheorems, FiniteSetTheorems, TLAPS

\* The conditions get_session and a cancellation add to their cases.
Gets(c) == at[c] = "idle" /\ LoopOf[c] \notin closed /\ UNCHANGED loopVars
CountsCancel == cancels' = cancels + 1 /\ UNCHANGED <<closed, closes>>

\* What is dropped is listed, all of it and nothing else, to be shut down.
LEMMA ListProperties ==
  ASSUME NEW gone \in SUBSET Calls, IsFiniteSet(gone), NEW before, NEW list \in Shutdowns(gone, before)
  PROVE  list \in Seq(Shuts) /\ Listed(list) = gone /\ (list = <<>> => gone = {})
<1> DEFINE n == Cardinality(gone)
<1>1. n \in Nat BY FS_CardinalityType
<1>2. PICK s \in [1 .. n -> gone] :
        /\ \A t \in gone : \E i \in DOMAIN s : s[i] = t
        /\ list = [i \in DOMAIN s |-> Shut(s[i], Cancels(s[i]))]
  BY DEF Shutdowns
<1>3. list \in [1 .. n -> Shuts] BY <1>2 DEF Shut, Shuts, Cancels
<1>4. list \in Seq(Shuts) BY <1>1, <1>3, SeqDef
<1>5. Listed(list) = gone BY <1>2 DEF Listed, Shut
<1>6. list = <<>> => Listed(list) = {} BY DEF Listed
<1> QED BY <1>4, <1>5, <1>6

\* A list is its head and its tail.
LEMMA HeadOfList ==
  ASSUME NEW list \in Seq(Shuts), list # <<>>
  PROVE  /\ Head(list) \in Shuts /\ Tail(list) \in Seq(Shuts)
         /\ Listed(list) = Listed(Tail(list)) \cup {Head(list).task}
<1>1. Head(list) \in Shuts /\ Tail(list) \in Seq(Shuts) BY HeadTailProperties
<1>2. /\ Len(list) \in Nat \ {0} /\ DOMAIN list = 1 .. Len(list) /\ Head(list) = list[1]
      /\ Len(Tail(list)) = Len(list) - 1 /\ DOMAIN Tail(list) = 1 .. Len(list) - 1
      /\ \A i \in 1 .. Len(list) - 1 : Tail(list)[i] = list[i + 1]
  BY <1>1, EmptySeq
<1>3. ASSUME NEW t \in Listed(list) PROVE t \in Listed(Tail(list)) \cup {Head(list).task}
  <2>1. PICK i \in DOMAIN list : t = list[i].task BY DEF Listed
  <2>2. CASE i = 1 BY <1>2, <2>1, <2>2
  <2>3. CASE i # 1
    <3>1. i - 1 \in DOMAIN Tail(list) /\ Tail(list)[i - 1] = list[i] BY <1>2, <2>3
    <3> QED BY <2>1, <3>1 DEF Listed
  <2> QED BY <2>2, <2>3
<1>4. ASSUME NEW t \in Listed(Tail(list)) PROVE t \in Listed(list)
  <2>1. PICK i \in DOMAIN Tail(list) : t = Tail(list)[i].task BY DEF Listed
  <2>2. i + 1 \in DOMAIN list /\ list[i + 1] = Tail(list)[i] BY <1>2
  <2> QED BY <2>1, <2>2 DEF Listed
<1>5. Head(list).task \in Listed(list) BY <1>2 DEF Listed
<1> QED BY <1>1, <1>3, <1>4, <1>5

\* A call that shuts sessions down has a list of them.
LEMMA OwnTodo ==
  ASSUME TypeOK, ListInv, NEW c \in Calls, at[c] \in {"evicting", "asked"}
  PROVE  todo[c] \in Seq(Shuts) /\ todo[c] # <<>>
BY DEF TypeOK, CallsOK, ListInv

\* Entries that stay, stay in order.
LEMMA SubOrder ==
  ASSUME NEW E, NEW o, Orders(o, E), NEW K \in SUBSET E
  PROVE  Orders(o \cap (K \X K), K)
BY DEF Orders

\* A new entry comes last.
LEMMA LastInOrder ==
  ASSUME NEW K, NEW o, Orders(o, K), NEW t, t \notin K
  PROVE  Orders(o \cup (K \X {t}), K \cup {t})
BY DEF Orders

\* The registry keeps its shape when entries and creations leave it.
LEMMA Shrinks ==
  ASSUME RegistryOK, UNCHANGED key, NEW K \in SUBSET entries, entries' = K, older' = Keep(K),
         inflight' \subseteq inflight
  PROVE  RegistryOK'
<1>1. Orders(older', entries') BY SubOrder DEF RegistryOK, Keep
<1>2. IsFiniteSet(entries' \cup inflight')
  BY FS_Subset DEF RegistryOK
<1> QED BY <1>1, <1>2 DEF RegistryOK

\* The registry keeps its shape when a session is used or a creation succeeds.
LEMMA Registers ==
  ASSUME RegistryOK, UNCHANGED key, NEW t \in entries \cup inflight, Register(entries \ {t}, t), inflight' = inflight \ {t}
  PROVE  RegistryOK'
<1> DEFINE K == entries \ {t}
<1>1. Orders(Keep(K), K) BY SubOrder DEF RegistryOK, Keep
<1>2. Orders(older', entries') BY <1>1, LastInOrder DEF Register
<1>3. entries' \cup inflight' = entries \cup inflight BY DEF Register
<1> QED BY <1>2, <1>3 DEF RegistryOK, Register

\* Every step keeps the shape of the registry.
LEMMA RegistryStep == RegistryOK /\ [Next]_vars => RegistryOK'
<1> SUFFICES ASSUME RegistryOK, [Next]_vars PROVE RegistryOK' OBVIOUS
<1> USE SessionPoolAssumption DEF poolVars, ownerVars, callVars, loopVars, Gets, CountsCancel
<1>0. CASE UNCHANGED vars BY <1>0 DEF vars, RegistryOK
<1> SUFFICES ASSUME Next, UNCHANGED key PROVE RegistryOK' BY <1>0 DEF Next
<1>1. ASSUME NEW c \in Calls, Hit(c), Gets(c) PROVE RegistryOK'
  <2>1. PICK t \in entries : Register(entries \ {t}, t) /\ UNCHANGED inflight BY <1>1 DEF Hit
  <2> QED BY <2>1, Registers DEF RegistryOK
<1>2. ASSUME NEW c \in Calls, Miss(c), Gets(c) PROVE RegistryOK'
  <2> DEFINE foreign == {t \in entries : key[t] = key[c]}
             kept    == entries \ foreign
             shared  == {t \in inflight : Same(c, t)}
             stale   == {t \in inflight : key[t] = key[c] /\ LoopOf[t] # LoopOf[c]}
             left    == kept \ Oldest(kept)
  <2>1. entries' = left /\ older' = Keep(left) /\ left \subseteq entries BY <1>2 DEF Miss
  <2>2. CASE UNCHANGED inflight BY <2>1, <2>2, Shrinks
  <2>3. CASE shared = {} /\ inflight' = (inflight \ stale) \cup {c}
    <3>1. Orders(older', entries') BY <2>1, SubOrder DEF RegistryOK, Keep
    <3>2. IsFiniteSet(entries' \cup inflight')
      <4>1. IsFiniteSet((entries \cup inflight) \cup {c}) BY FS_AddElement DEF RegistryOK
      <4>2. entries' \cup inflight' \subseteq (entries \cup inflight) \cup {c} BY <2>1, <2>3
      <4> QED BY <4>1, <4>2, FS_Subset
    <3>3. \A t \in entries' \cup inflight' : key[t] = key[c] => t = c
      BY <2>1, <2>3 DEF Same
    <3>4. c \notin entries' BY <2>1
    <3> QED BY <2>1, <2>3, <3>1, <3>2, <3>3, <3>4 DEF RegistryOK
  <2> QED BY <1>2, <2>2, <2>3 DEF Miss
<1>3. ASSUME NEW c \in Calls, CloseKeys(c) PROVE RegistryOK'
  <2>1. PICK ks \in SUBSET Keys \ {{}} :
          /\ entries' = entries \ {t \in entries : key[t] \in ks}
          /\ older' = Keep(entries \ {t \in entries : key[t] \in ks})
          /\ inflight' = inflight \ {t \in inflight : key[t] \in ks}
    BY <1>3 DEF CloseKeys
  <2> QED BY <2>1, Shrinks
<1>4. ASSUME NEW c \in Calls, Ask(c) PROVE RegistryOK'
  BY <1>4 DEF Ask, Tell, Done, After, Local, Closing, RegistryOK
<1>5. ASSUME NEW c \in Calls, Asked(c) PROVE RegistryOK'
  BY <1>5 DEF Asked, Done, After, Closing, RegistryOK
<1>6. ASSUME NEW c \in Calls, Joined(c) PROVE RegistryOK'
  BY <1>6 DEF Joined, RegistryOK
<1>7. ASSUME NEW c \in Calls, Fail(c) PROVE RegistryOK'
  BY <1>7 DEF Fail, RegistryOK
<1>8. ASSUME NEW c \in Calls, Unwound(c) PROVE RegistryOK'
  BY <1>8, FS_Subset DEF Unwound, Unwind, RegistryOK
<1>9. ASSUME NEW c \in Calls, Promote(c) PROVE RegistryOK'
  <2>1. CASE UNCHANGED poolVars BY <2>1 DEF RegistryOK
  <2>2. CASE c \in inflight /\ inflight' = inflight \ {c} /\ Register(entries, c)
    <3>1. entries = entries \ {c} BY <2>2 DEF RegistryOK
    <3> QED BY <2>2, <3>1, Registers
  <2> QED BY <1>9, <2>1, <2>2 DEF Promote, StillOurs
<1>10. ASSUME NEW c \in Calls, Refuse(c) PROVE RegistryOK'
  BY <1>10 DEF Refuse, RegistryOK
<1>11. ASSUME NEW c \in Calls, CancelSwallowed(c), CountsCancel PROVE RegistryOK'
  BY <1>11 DEF CancelSwallowed, Local, RegistryOK
<1>12. ASSUME NEW c \in Calls, CancelEviction(c), CountsCancel PROVE RegistryOK'
  BY <1>12 DEF CancelEviction, Local, Shut, RegistryOK
<1>13. ASSUME NEW c \in Calls, CancelJoin(c), CountsCancel PROVE RegistryOK'
  BY <1>13 DEF CancelJoin, RegistryOK
<1>14. ASSUME NEW c \in Calls, CancelWait(c), CountsCancel PROVE RegistryOK'
  BY <1>14 DEF CancelWait, Reclaim, Tell, Shut, RegistryOK
<1>15. ASSUME NEW c \in Calls, CancelUnwind(c), CountsCancel PROVE RegistryOK'
  BY <1>15, FS_Subset DEF CancelUnwind, Unwind, RegistryOK
<1>16. ASSUME NEW c \in Calls, Start(c) PROVE RegistryOK'
  BY <1>16 DEF Start, Become, Uncancelled, RegistryOK
<1>17. ASSUME NEW c \in Calls, Interrupted(c) PROVE RegistryOK'
  BY <1>17 DEF Interrupted, Become, Uncancelled, RegistryOK
<1>18. ASSUME NEW c \in Calls, Close(c) PROVE RegistryOK'
  BY <1>18 DEF Close, Become, RegistryOK
<1>19. ASSUME NEW c \in Calls, Exit(c) PROVE RegistryOK'
  BY <1>19 DEF Exit, Become, Uncancelled, RegistryOK
<1>20. CASE CloseAll
  BY <1>20, FS_EmptySet DEF CloseAll, RegistryOK, Orders
<1>21. ASSUME NEW e \in signals, Deliver(e) PROVE RegistryOK'
  BY <1>21 DEF Deliver, RegistryOK
<1>22. ASSUME NEW l \in ShortLived, CloseLoop(l) PROVE RegistryOK'
  BY <1>22 DEF CloseLoop, RegistryOK
<1>23. ASSUME NEW c \in Calls, Break(c) PROVE RegistryOK'
  BY <1>23 DEF Break, Become, RegistryOK
<1>24. ASSUME NEW c \in Calls, Begin(c) PROVE RegistryOK'
  BY <1>24 DEF Begin, Become, RegistryOK
<1> QED
  BY <1>1, <1>2, <1>3, <1>4, <1>5, <1>6, <1>7, <1>8, <1>9, <1>10, <1>11, <1>12, <1>13,
     <1>14, <1>15, <1>16, <1>17, <1>18, <1>19, <1>20, <1>21, <1>22, <1>23, <1>24
  DEF Next, Get, Proceed, Cancel, Unblocked, Gets, CountsCancel

\* What is listed are owner tasks.
LEMMA ListedCalls ==
  ASSUME NEW list \in Seq(Shuts) PROVE Listed(list) \subseteq Calls
<1>1. \A i \in DOMAIN list : list[i] \in Shuts BY ElementOfSeq
<1> QED BY <1>1 DEF Listed, Shuts

\* get_session lists what it drops from the registry.
LEMMA MissLists ==
  ASSUME TypeOK, NEW c \in Calls, Miss(c)
  PROVE  \E list \in Seq(Shuts) :
           /\ todo' = [todo EXCEPT ![c] = list]
           /\ \E next \in {"waiting", "joining"} : at' = [at EXCEPT ![c] = After(list, next)]
           /\ entries \cup inflight \subseteq (entries' \cup inflight') \cup Listed(list)
           /\ Listed(list) \subseteq (entries \cup inflight) \ (entries' \cup inflight')
           /\ inflight' \subseteq inflight \cup {c}
<1> DEFINE foreign == {t \in entries : key[t] = key[c]}
           kept    == entries \ foreign
           shared  == {t \in inflight : Same(c, t)}
           stale   == {t \in inflight : key[t] = key[c] /\ LoopOf[t] # LoopOf[c]}
           gone    == Gone(foreign, stale, Oldest(kept))
           before  == Keep(Oldest(kept)) \cup (foreign \X (stale \cup Oldest(kept)))
                        \cup (stale \X Oldest(kept))
<1>1. PICK list \in Shutdowns(gone, before) :
        /\ todo' = [todo EXCEPT ![c] = list]
        /\ at' = [at EXCEPT ![c] = After(list, IF shared = {} THEN "waiting" ELSE "joining")]
  BY DEF Miss
<1>2. gone \subseteq entries \cup inflight BY DEF Gone, Oldest
<1>3. gone \in SUBSET Calls /\ IsFiniteSet(gone)
  BY <1>2, FS_Subset DEF TypeOK, RegistryOK
<1>4. list \in Seq(Shuts) /\ Listed(list) = gone BY <1>1, <1>3, ListProperties
<1>5. entries' = kept \ Oldest(kept) BY DEF Miss
<1>6. \/ inflight' = inflight /\ stale = {}
      \/ inflight' = (inflight \ stale) \cup {c}
  BY DEF Miss, TypeOK, RegistryOK, Same
<1>7. entries \cup inflight \subseteq (entries' \cup inflight') \cup Listed(list)
  BY <1>4, <1>5, <1>6 DEF Gone
<1>8. Listed(list) \cap entries' = {}
  BY <1>4, <1>5, <1>6 DEF Gone, TypeOK, RegistryOK
<1>9. Listed(list) \cap inflight' = {}
  <2>1. gone \cap inflight \subseteq stale BY DEF Gone, Oldest, TypeOK, RegistryOK
  <2>2. c \notin gone BY DEF Gone, Oldest, Miss, Same, TypeOK, RegistryOK
  <2> QED BY <1>4, <1>6, <2>1, <2>2
<1>10. Listed(list) \subseteq entries \cup inflight BY <1>2, <1>4
<1>11. inflight' \subseteq inflight \cup {c} BY <1>6
<1> HIDE DEF foreign, kept, shared, stale, gone, before
<1> QED BY <1>1, <1>4, <1>7, <1>8, <1>9, <1>10, <1>11

\* close_scope, close_server and close_all list what they drop.
LEMMA CloseLists ==
  ASSUME TypeOK, NEW c \in Calls, CloseKeys(c)
  PROVE  \E list \in Seq(Shuts) :
           /\ todo' = [todo EXCEPT ![c] = list] /\ at' = [at EXCEPT ![c] = After(list, "over")]
           /\ entries \cup inflight = (entries' \cup inflight') \cup Listed(list)
           /\ Listed(list) \cap (entries' \cup inflight') = {}
<1>1. PICK ks \in SUBSET Keys :
        LET sessions  == {t \in entries : key[t] \in ks}
            creations == {t \in inflight : key[t] \in ks} IN
        /\ entries' = entries \ sessions /\ inflight' = inflight \ creations
        /\ \E list \in Shutdowns(sessions \cup creations,
                                older \cup ((sessions \cup creations) \X creations)) :
             /\ todo' = [todo EXCEPT ![c] = list]
             /\ at' = [at EXCEPT ![c] = After(list, "over")]
  BY DEF CloseKeys
<1> DEFINE gone == {t \in entries : key[t] \in ks} \cup {t \in inflight : key[t] \in ks}
           before == older \cup (gone \X {t \in inflight : key[t] \in ks})
<1>2. PICK list \in Shutdowns(gone, before) :
        todo' = [todo EXCEPT ![c] = list] /\ at' = [at EXCEPT ![c] = After(list, "over")]
  BY <1>1
<1>3. gone \in SUBSET Calls /\ IsFiniteSet(gone)
  BY FS_Subset DEF TypeOK, RegistryOK
<1>4. list \in Seq(Shuts) /\ Listed(list) = gone BY <1>2, <1>3, ListProperties
<1> QED BY <1>1, <1>2, <1>4 DEF TypeOK, RegistryOK

\* Every step keeps the types of the owner tasks.
LEMMA OwnersStep == TypeOK /\ ListInv /\ [Next]_vars => OwnersOK'
<1> SUFFICES ASSUME TypeOK /\ ListInv, [Next]_vars PROVE OwnersOK' OBVIOUS
<1> USE SessionPoolAssumption DEF OwnersOK, TypeOK, poolVars, ownerVars, callVars, loopVars, Gets, CountsCancel
<1>0. CASE UNCHANGED vars BY <1>0 DEF vars
<1> SUFFICES ASSUME Next, UNCHANGED key, broken' \in SUBSET Calls
    PROVE  OwnersOK' BY <1>0 DEF Next, Break
<1>1. ASSUME NEW c \in Calls, Hit(c), Gets(c) PROVE OwnersOK'
  BY <1>1 DEF Hit, Register, Keep, Same
<1>2. ASSUME NEW c \in Calls, Miss(c), Gets(c) PROVE OwnersOK'
  BY <1>2 DEF Miss, Same, Keep, Oldest, Gone, After
<1>3. ASSUME NEW c \in Calls, CloseKeys(c) PROVE OwnersOK'
  BY <1>3 DEF CloseKeys, Keep, After
<1>4. ASSUME NEW c \in Calls, Ask(c) PROVE OwnersOK'
  <2>1. Head(todo[c]) \in Shuts BY <1>4, OwnTodo, HeadOfList DEF Ask
  <2>2. Head(todo[c]).task \in Calls BY <2>1 DEF Shuts
  <2>3. UNCHANGED <<owner, ready>> BY <1>4 DEF Ask
  <2>4. CASE UNCHANGED <<told, cancelled, signals>> BY <2>3, <2>4
  <2>5. CASE Tell(Head(todo[c])) /\ UNCHANGED signals BY <2>2, <2>3, <2>5 DEF Tell
  <2>6. CASE signals' = signals \cup {Head(todo[c])} /\ UNCHANGED <<told, cancelled>>
    BY <2>1, <2>3, <2>6
  <2> QED BY <1>4, <2>4, <2>5, <2>6 DEF Ask
<1>5. ASSUME NEW c \in Calls, Asked(c) PROVE OwnersOK'
  BY <1>5 DEF Asked, Done, After, Closing
<1>6. ASSUME NEW c \in Calls, Joined(c) PROVE OwnersOK'
  BY <1>6 DEF Joined
<1>7. ASSUME NEW c \in Calls, Fail(c) PROVE OwnersOK'
  BY <1>7 DEF Fail
<1>8. ASSUME NEW c \in Calls, Unwound(c) PROVE OwnersOK'
  BY <1>8 DEF Unwound, Unwind
<1>9. ASSUME NEW c \in Calls, Promote(c) PROVE OwnersOK'
  BY <1>9 DEF Promote, StillOurs, Register, Keep
<1>10. ASSUME NEW c \in Calls, Refuse(c) PROVE OwnersOK'
  BY <1>10 DEF Refuse
<1>11. ASSUME NEW c \in Calls, CancelSwallowed(c), CountsCancel PROVE OwnersOK'
  BY <1>11, HeadOfList, OwnTodo DEF CancelSwallowed, Shuts
<1>12. ASSUME NEW c \in Calls, CancelEviction(c), CountsCancel PROVE OwnersOK'
  <2>1. Head(todo[c]) \in Shuts BY <1>12, OwnTodo, HeadOfList DEF CancelEviction
  <2>2. Shut(Head(todo[c]).task, TRUE) \in Shuts BY <2>1 DEF Shut, Shuts
  <2> QED BY <1>12, <2>1, <2>2 DEF CancelEviction
<1>13. ASSUME NEW c \in Calls, CancelJoin(c), CountsCancel PROVE OwnersOK'
  BY <1>13 DEF CancelJoin
<1>14. ASSUME NEW c \in Calls, CancelWait(c), CountsCancel PROVE OwnersOK'
  BY <1>14 DEF CancelWait, Reclaim, Tell, Shut
<1>15. ASSUME NEW c \in Calls, CancelUnwind(c), CountsCancel PROVE OwnersOK'
  BY <1>15 DEF CancelUnwind, Unwind
<1>16. ASSUME NEW c \in Calls, Start(c) PROVE OwnersOK'
  BY <1>16 DEF Start, Become, Uncancelled
<1>17. ASSUME NEW c \in Calls, Interrupted(c) PROVE OwnersOK'
  BY <1>17 DEF Interrupted, Become, Uncancelled
<1>18. ASSUME NEW c \in Calls, Close(c) PROVE OwnersOK'
  BY <1>18 DEF Close, Become
<1>19. ASSUME NEW c \in Calls, Exit(c) PROVE OwnersOK'
  BY <1>19 DEF Exit, Become, Uncancelled
<1>20. CASE CloseAll
  <2>1. \A t \in entries \cup inflight : Shut(t, Cancels(t)) \in Shuts
    BY DEF Shut, Cancels, Shuts, RegistryOK
  <2> QED BY <1>20, <2>1 DEF CloseAll
<1>21. ASSUME NEW e \in signals, Deliver(e) PROVE OwnersOK'
  BY <1>21 DEF Deliver, Tell, Shuts
<1>22. ASSUME NEW l \in ShortLived, CloseLoop(l) PROVE OwnersOK'
  BY <1>22 DEF CloseLoop
<1>23. ASSUME NEW c \in Calls, Break(c) PROVE OwnersOK'
  BY <1>23 DEF Break, Become
<1>24. ASSUME NEW c \in Calls, Begin(c) PROVE OwnersOK'
  BY <1>24 DEF Begin, Become
<1> QED
  BY <1>1, <1>2, <1>3, <1>4, <1>5, <1>6, <1>7, <1>8, <1>9, <1>10, <1>11, <1>12, <1>13,
     <1>14, <1>15, <1>16, <1>17, <1>18, <1>19, <1>20, <1>21, <1>22, <1>23, <1>24
  DEF Next, Get, Proceed, Cancel, Unblocked, Gets, CountsCancel

\* Every step keeps the types of the calls.
LEMMA CallsStep == TypeOK /\ ListInv /\ [Next]_vars => CallsOK'
<1> SUFFICES ASSUME TypeOK /\ ListInv, [Next]_vars PROVE CallsOK' OBVIOUS
<1> USE SessionPoolAssumption DEF CallsOK, TypeOK, poolVars, ownerVars, callVars, loopVars, Gets, CountsCancel
<1>0. CASE UNCHANGED vars BY <1>0 DEF vars
<1> SUFFICES ASSUME Next, UNCHANGED key PROVE CallsOK' BY <1>0 DEF Next
<1>1. ASSUME NEW c \in Calls, Hit(c), Gets(c) PROVE CallsOK'
  BY <1>1 DEF Hit, RegistryOK
<1>2. ASSUME NEW c \in Calls, Miss(c), Gets(c) PROVE CallsOK'
  <2>1. PICK list \in Seq(Shuts) :
          /\ todo' = [todo EXCEPT ![c] = list]
          /\ \E next \in {"waiting", "joining"} : at' = [at EXCEPT ![c] = After(list, next)]
    BY <1>2, MissLists
  <2>2. source' \in [Calls -> Calls]
    <3>1. inflight \subseteq Calls BY DEF RegistryOK
    <3>2. UNCHANGED source \/ \E t \in inflight : source' = [source EXCEPT ![c] = t]
      BY <1>2 DEF Miss
    <3> QED BY <3>1, <3>2
  <2> QED BY <1>2, <2>1, <2>2 DEF Miss, After
<1>3. ASSUME NEW c \in Calls, CloseKeys(c) PROVE CallsOK'
  <2>1. PICK list \in Seq(Shuts) :
          todo' = [todo EXCEPT ![c] = list] /\ at' = [at EXCEPT ![c] = After(list, "over")]
    BY <1>3, CloseLists
  <2> QED BY <1>3, <2>1 DEF CloseKeys, After
<1>4. ASSUME NEW c \in Calls, Ask(c) PROVE CallsOK'
  <2>1. Tail(todo[c]) \in Seq(Shuts) BY <1>4, OwnTodo, HeadOfList DEF Ask
  <2>2. \/ todo' = [todo EXCEPT ![c] = Tail(@)] /\ \E p \in {"evicting", "over", "waiting", "joining"} : at' = [at EXCEPT ![c] = p]
        \/ UNCHANGED todo /\ at' = [at EXCEPT ![c] = "asked"]
    BY <1>4 DEF Ask, Done, After
  <2>3. todo' \in [Calls -> Seq(Shuts)] BY <2>1, <2>2
  <2>4. UNCHANGED <<source, forgotten, loopVars>> BY <1>4 DEF Ask
  <2>5. at' \in [Calls -> {"idle", "evicting", "asked", "joining", "waiting", "unwinding", "shutting",
                          "got", "failed", "over"}]
    BY <2>2
  <2> HIDE <2>2
  <2> QED BY <2>3, <2>4, <2>5
<1>5. ASSUME NEW c \in Calls, Asked(c) PROVE CallsOK'
  BY <1>5, HeadOfList, OwnTodo DEF Asked, Done, After, Closing
<1>6. ASSUME NEW c \in Calls, Joined(c) PROVE CallsOK'
  BY <1>6 DEF Joined
<1>7. ASSUME NEW c \in Calls, Fail(c) PROVE CallsOK'
  BY <1>7 DEF Fail
<1>8. ASSUME NEW c \in Calls, Unwound(c) PROVE CallsOK'
  BY <1>8 DEF Unwound, Unwind
<1>9. ASSUME NEW c \in Calls, Promote(c) PROVE CallsOK'
  BY <1>9 DEF Promote, StillOurs, Register, Keep
<1>10. ASSUME NEW c \in Calls, Refuse(c) PROVE CallsOK'
  BY <1>10 DEF Refuse
<1>11. ASSUME NEW c \in Calls, CancelSwallowed(c), CountsCancel PROVE CallsOK'
  BY <1>11 DEF CancelSwallowed, Local
<1>12. ASSUME NEW c \in Calls, CancelEviction(c), CountsCancel PROVE CallsOK'
  <2>1. todo[c] \in Seq(Shuts) /\ todo[c] # <<>> BY <1>12, OwnTodo DEF CancelEviction
  <2>2. Head(todo[c]).task \in Calls /\ Listed(Tail(todo[c])) \subseteq Calls
    BY <2>1, HeadOfList, ListedCalls DEF Shuts
  <2>3. <<>> \in Seq(Shuts) BY EmptySeq
  <2> QED BY <1>12, <2>2, <2>3 DEF CancelEviction
<1>13. ASSUME NEW c \in Calls, CancelJoin(c), CountsCancel PROVE CallsOK'
  BY <1>13 DEF CancelJoin
<1>14. ASSUME NEW c \in Calls, CancelWait(c), CountsCancel PROVE CallsOK'
  BY <1>14 DEF CancelWait, Reclaim, Tell, Shut
<1>15. ASSUME NEW c \in Calls, CancelUnwind(c), CountsCancel PROVE CallsOK'
  BY <1>15 DEF CancelUnwind, Unwind
<1>16. ASSUME NEW c \in Calls, Start(c) PROVE CallsOK'
  BY <1>16 DEF Start, Become, Uncancelled
<1>17. ASSUME NEW c \in Calls, Interrupted(c) PROVE CallsOK'
  BY <1>17 DEF Interrupted, Become, Uncancelled
<1>18. ASSUME NEW c \in Calls, Close(c) PROVE CallsOK'
  BY <1>18 DEF Close, Become
<1>19. ASSUME NEW c \in Calls, Exit(c) PROVE CallsOK'
  BY <1>19 DEF Exit, Become, Uncancelled
<1>20. CASE CloseAll
  BY <1>20 DEF CloseAll, Shut
<1>21. ASSUME NEW e \in signals, Deliver(e) PROVE CallsOK'
  BY <1>21 DEF Deliver, Tell
<1>22. ASSUME NEW l \in ShortLived, CloseLoop(l) PROVE CallsOK'
  BY <1>22 DEF CloseLoop
<1>23. ASSUME NEW c \in Calls, Break(c) PROVE CallsOK'
  BY <1>23 DEF Break, Become
<1>24. ASSUME NEW c \in Calls, Begin(c) PROVE CallsOK'
  BY <1>24 DEF Begin, Become
<1> QED
  BY <1>1, <1>2, <1>3, <1>4, <1>5, <1>6, <1>7, <1>8, <1>9, <1>10, <1>11, <1>12, <1>13,
     <1>14, <1>15, <1>16, <1>17, <1>18, <1>19, <1>20, <1>21, <1>22, <1>23, <1>24
  DEF Next, Get, Proceed, Cancel, Unblocked, Gets, CountsCancel

\* When one call gets a new list, the lists of the others stay pending.
LEMMA PendingChange ==
  ASSUME todo \in [Calls -> Seq(Shuts)], NEW c \in Calls, NEW list, todo' = [todo EXCEPT ![c] = list]
  PROVE  /\ Pending' \subseteq Pending \cup Listed(list)
         /\ Pending \subseteq Pending' \cup Listed(todo[c])
         /\ Listed(list) \subseteq Pending' /\ Listed(todo[c]) \subseteq Pending
BY DEF Pending

\* An empty list names no task.
LEMMA EmptyList == Listed(<<>>) = {}
BY DEF Listed

\* What is shut down next is pending.
LEMMA HeadIsPending ==
  ASSUME TypeOK, ListInv, NEW c \in Calls, at[c] \in {"evicting", "asked"}
  PROVE  Head(todo[c]) \in Shuts /\ Head(todo[c]).task \in Pending \cap Calls
<1>1. todo[c] \in Seq(Shuts) /\ todo[c] # <<>> BY OwnTodo
<1>2. Head(todo[c]) \in Shuts /\ Head(todo[c]).task \in Listed(todo[c]) BY <1>1, HeadOfList
<1> QED BY <1>2 DEF Pending, Shuts

\* The rest of a list stays pending.
LEMMA TailIsPending ==
  ASSUME TypeOK, ListInv, NEW c \in Calls, at[c] \in {"evicting", "asked"},
         todo' = [todo EXCEPT ![c] = Tail(@)]
  PROVE  /\ Pending' \subseteq Pending
         /\ Pending \subseteq Pending' \cup {Head(todo[c]).task}
<1>1. todo[c] \in Seq(Shuts) /\ todo[c] # <<>> BY OwnTodo
<1>2. Listed(todo[c]) = Listed(Tail(todo[c])) \cup {Head(todo[c]).task} BY <1>1, HeadOfList
<1>3. todo \in [Calls -> Seq(Shuts)] BY DEF TypeOK, CallsOK
<1>4. todo' = [todo EXCEPT ![c] = Tail(todo[c])] OBVIOUS
<1>5. /\ Pending' \subseteq Pending \cup Listed(Tail(todo[c]))
      /\ Pending \subseteq Pending' \cup Listed(todo[c])
      /\ Listed(Tail(todo[c])) \subseteq Pending' /\ Listed(todo[c]) \subseteq Pending
  BY <1>3, <1>4, PendingChange
<1> QED BY <1>2, <1>5

\* Who is newly told to go has left the registry, or is a creation whose call
\* gives up on it.
DoomedGrows ==
  \A t \in Doomed' \ Doomed :
    \/ t \in (entries \cup inflight) \ (entries' \cup inflight')
    \/ /\ t \in Alive /\ at[t] \in {"waiting", "shutting"} /\ at'[t] \in {"unwinding", "shutting"}
       /\ UNCHANGED <<entries, inflight>>

\* Who was told to go goes, or was forgotten by a cancelled call.
DoomedStays ==
  \A t \in Doomed \ Doomed' : t \in forgotten' \/ t \notin Alive' \/ owner'[t] = "exiting"

\* What leaves the registry is told to go.
PoolLeaves ==
  \A t \in (entries \cup inflight) \ (entries' \cup inflight') :
    t \in Doomed' \/ t \notin Alive' \/ owner'[t] = "exiting"

\* How owner tasks move.
OwnersMove ==
  /\ closed \subseteq closed' /\ forgotten \subseteq forgotten' /\ broken \subseteq broken'
  /\ \A t \in Calls :
       /\ owner[t] # "none" => owner'[t] # "none"
       /\ owner[t] = "exiting" => owner'[t] \in {"exiting", "ended"}
       /\ t \in Alive' \ Alive => t \in inflight'
       /\ owner[t] = "open" /\ owner'[t] # "open" =>
            \/ t \in told \cup cancelled \cup broken'
            \/ at[t] \in {"idle", "got", "failed", "over"} /\ LoopOf[t] \in closed'
       /\ ready'[t] = "ok" /\ ready[t] # "ok" => owner'[t] = "open"

\* How calls move, and what they put into the registry.
CallsMove ==
  \A t \in Calls :
    /\ at[t] = "got" => at'[t] = "got"
    /\ at'[t] = "idle" => at[t] = "idle" /\ owner'[t] = owner[t]
    /\ at'[t] \in {"evicting", "asked", "waiting"} => at[t] \in {"idle", "evicting", "asked", "waiting"}
    /\ at[t] = "unwinding" /\ at'[t] # "unwinding" => t \notin inflight'
    /\ at[t] # "shutting" /\ at'[t] = "shutting" => t \notin inflight'
    /\ t \in entries' \ entries =>
         t \in inflight /\ at[t] = "waiting" /\ ready[t] = "ok" /\ at'[t] = "got"
    /\ t \in inflight' \ inflight =>
         /\ at[t] = "idle" /\ at'[t] \in {"evicting", "waiting", "joining"}
         /\ owner'[t] = "new" /\ ready'[t] = ready[t]

\* Only what leaves the registry, or is given up by its call, is told to go.
LEMMA DoomedGrowsStep == TypeOK /\ ListInv /\ [Next]_vars => DoomedGrows
<1> SUFFICES ASSUME TypeOK /\ ListInv, [Next]_vars PROVE DoomedGrows OBVIOUS
<1> USE SessionPoolAssumption DEF DoomedGrows, Doomed, poolVars, ownerVars, callVars, loopVars, Gets, CountsCancel
<1>0. CASE UNCHANGED vars BY <1>0 DEF vars, Pending
<1> SUFFICES ASSUME Next, UNCHANGED key PROVE DoomedGrows BY <1>0 DEF Next
<1>1. ASSUME NEW c \in Calls, Hit(c), Gets(c) PROVE DoomedGrows
  <2>1. Pending' = Pending BY <1>1 DEF Hit, Register, Keep, Same, Pending
  <2> QED BY <1>1, <2>1 DEF Hit, Register, Keep, Same
<1>2. ASSUME NEW c \in Calls, Miss(c), Gets(c) PROVE DoomedGrows
  <2>1. PICK list \in Seq(Shuts) :
          /\ todo' = [todo EXCEPT ![c] = list]
          /\ Listed(list) \subseteq (entries \cup inflight) \ (entries' \cup inflight')
    BY <1>2, MissLists
  <2>2. Pending' \subseteq Pending \cup Listed(list)
    BY <2>1, PendingChange DEF TypeOK, CallsOK
  <2> QED BY <1>2, <2>1, <2>2 DEF Miss
<1>3. ASSUME NEW c \in Calls, CloseKeys(c) PROVE DoomedGrows
  <2>1. PICK list \in Seq(Shuts) :
          /\ todo' = [todo EXCEPT ![c] = list]
          /\ entries \cup inflight = (entries' \cup inflight') \cup Listed(list)
          /\ Listed(list) \cap (entries' \cup inflight') = {}
    BY <1>3, CloseLists
  <2>2. Pending' \subseteq Pending \cup Listed(list)
    BY <2>1, PendingChange DEF TypeOK, CallsOK
  <2> QED BY <1>3, <2>1, <2>2 DEF CloseKeys
<1>4. ASSUME NEW c \in Calls, Ask(c) PROVE DoomedGrows
  <2>1. Head(todo[c]).task \in Pending BY <1>4, HeadIsPending DEF Ask
  <2>2. Pending' \subseteq Pending
    <3>1. CASE UNCHANGED todo BY <3>1 DEF Pending
    <3>2. CASE Done(c) BY <1>4, <3>2, TailIsPending DEF Ask, Done
    <3> QED BY <1>4, <3>1, <3>2 DEF Ask
  <2> QED BY <1>4, <2>1, <2>2 DEF Ask, Tell, Done
<1>5. ASSUME NEW c \in Calls, Asked(c) PROVE DoomedGrows
  <2>1. Pending' \subseteq Pending BY <1>5, TailIsPending DEF Asked, Done
  <2> QED BY <1>5, <2>1 DEF Asked, Done
<1>6. ASSUME NEW c \in Calls, Joined(c) PROVE DoomedGrows
  <2>1. Pending' = Pending BY <1>6 DEF Joined, Pending
  <2> QED BY <1>6, <2>1 DEF Joined
<1>7. ASSUME NEW c \in Calls, Fail(c) PROVE DoomedGrows
  <2>1. Pending' = Pending BY <1>7 DEF Fail, Pending
  <2> QED BY <1>7, <2>1 DEF Fail
<1>8. ASSUME NEW c \in Calls, Unwound(c) PROVE DoomedGrows
  <2>1. Pending' = Pending BY <1>8 DEF Unwound, Unwind, Pending
  <2> QED BY <1>8, <2>1 DEF Unwound, Unwind
<1>9. ASSUME NEW c \in Calls, Promote(c) PROVE DoomedGrows
  <2>1. Pending' = Pending BY <1>9 DEF Promote, StillOurs, Register, Keep, Pending
  <2> QED BY <1>9, <2>1 DEF Promote, StillOurs, Register, Keep, TypeOK, CallsOK
<1>10. ASSUME NEW c \in Calls, Refuse(c) PROVE DoomedGrows
  <2>1. Pending' = Pending BY <1>10 DEF Refuse, Pending
  <2> QED BY <1>10, <2>1 DEF Refuse
<1>11. ASSUME NEW c \in Calls, CancelSwallowed(c), CountsCancel PROVE DoomedGrows
  <2>1. Pending' = Pending BY <1>11 DEF CancelSwallowed, Pending
  <2>2. CASE at[c] = "asked" /\ cancelled' = cancelled \cup ({Head(todo[c]).task} \cap Alive)
    <3>1. Head(todo[c]).task \in Pending BY <2>2, HeadIsPending
    <3> QED BY <1>11, <2>1, <2>2, <3>1 DEF CancelSwallowed
  <2>3. CASE at[c] = "shutting" /\ cancelled' = cancelled \cup ({c} \cap Alive)
    BY <1>11, <2>1, <2>3 DEF CancelSwallowed
  <2> QED BY <1>11, <2>2, <2>3 DEF CancelSwallowed
<1>12. ASSUME NEW c \in Calls, CancelEviction(c), CountsCancel PROVE DoomedGrows
  <2>1. Head(todo[c]).task \in Pending BY <1>12, HeadIsPending DEF CancelEviction
  <2>2. Pending' \subseteq Pending
    BY <1>12, PendingChange, EmptyList DEF CancelEviction, TypeOK, CallsOK
  <2> QED BY <1>12, <2>1, <2>2 DEF CancelEviction, Shut
<1>13. ASSUME NEW c \in Calls, CancelJoin(c), CountsCancel PROVE DoomedGrows
  <2>1. Pending' = Pending BY <1>13 DEF CancelJoin, Pending
  <2> QED BY <1>13, <2>1 DEF CancelJoin
<1>14. ASSUME NEW c \in Calls, CancelWait(c), CountsCancel PROVE DoomedGrows
  <2>1. Pending' = Pending BY <1>14 DEF CancelWait, Reclaim, Tell, Shut, Pending
  <2> QED BY <1>14, <2>1 DEF CancelWait, Reclaim, Tell, Shut, TypeOK, CallsOK
<1>15. ASSUME NEW c \in Calls, CancelUnwind(c), CountsCancel PROVE DoomedGrows
  <2>1. Pending' = Pending BY <1>15 DEF CancelUnwind, Unwind, Pending
  <2> QED BY <1>15, <2>1 DEF CancelUnwind, Unwind
<1>16. ASSUME NEW c \in Calls, Start(c) PROVE DoomedGrows
  <2>1. Pending' = Pending BY <1>16 DEF Start, Become, Uncancelled, Pending
  <2> QED BY <1>16, <2>1 DEF Start, Become, Uncancelled
<1>17. ASSUME NEW c \in Calls, Interrupted(c) PROVE DoomedGrows
  <2>1. Pending' = Pending BY <1>17 DEF Interrupted, Become, Uncancelled, Pending
  <2> QED BY <1>17, <2>1 DEF Interrupted, Become, Uncancelled
<1>18. ASSUME NEW c \in Calls, Close(c) PROVE DoomedGrows
  <2>1. Pending' = Pending BY <1>18 DEF Close, Become, Pending
  <2> QED BY <1>18, <2>1 DEF Close, Become
<1>19. ASSUME NEW c \in Calls, Exit(c) PROVE DoomedGrows
  <2>1. Pending' = Pending BY <1>19 DEF Exit, Become, Uncancelled, Pending
  <2> QED BY <1>19, <2>1 DEF Exit, Become, Uncancelled
<1>20. CASE CloseAll
  <2>1. Pending' = Pending BY <1>20 DEF CloseAll, Pending
  <2> QED BY <1>20, <2>1 DEF CloseAll, Shut
<1>21. ASSUME NEW e \in signals, Deliver(e) PROVE DoomedGrows
  <2>1. Pending' = Pending BY <1>21 DEF Deliver, Pending
  <2> QED BY <1>21, <2>1 DEF Deliver, Tell
<1>22. ASSUME NEW l \in ShortLived, CloseLoop(l) PROVE DoomedGrows
  <2>1. Pending' = Pending BY <1>22 DEF CloseLoop, Pending
  <2> QED BY <1>22, <2>1 DEF CloseLoop
<1>23. ASSUME NEW c \in Calls, Break(c) PROVE DoomedGrows
  <2>1. Pending' = Pending BY <1>23 DEF Break, Become, Pending
  <2> QED BY <1>23, <2>1 DEF Break, Become
<1>24. ASSUME NEW c \in Calls, Begin(c) PROVE DoomedGrows
  <2>1. Pending' = Pending BY <1>24 DEF Begin, Become, Pending
  <2> QED BY <1>24, <2>1 DEF Begin, Become
<1> QED
  BY <1>1, <1>2, <1>3, <1>4, <1>5, <1>6, <1>7, <1>8, <1>9, <1>10, <1>11, <1>12, <1>13,
     <1>14, <1>15, <1>16, <1>17, <1>18, <1>19, <1>20, <1>21, <1>22, <1>23, <1>24
  DEF Next, Get, Proceed, Cancel, Unblocked, Gets, CountsCancel

\* Whoever was told to go goes, or was forgotten.
LEMMA DoomedStaysStep == TypeOK /\ ListInv /\ OwnedInv /\ [Next]_vars => DoomedStays
<1> SUFFICES ASSUME TypeOK /\ ListInv /\ OwnedInv, [Next]_vars PROVE DoomedStays OBVIOUS
<1> USE SessionPoolAssumption DEF DoomedStays, Doomed, poolVars, ownerVars, callVars, loopVars, Gets, CountsCancel
<1>0. CASE UNCHANGED vars BY <1>0 DEF vars, Pending
<1> SUFFICES ASSUME Next, UNCHANGED key PROVE DoomedStays BY <1>0 DEF Next
<1>1. ASSUME NEW c \in Calls, Hit(c), Gets(c) PROVE DoomedStays
  <2>1. Pending' = Pending BY <1>1 DEF Hit, Register, Keep, Same, Pending
  <2> QED BY <1>1, <2>1 DEF Hit, Register, Keep, Same
<1>2. ASSUME NEW c \in Calls, Miss(c), Gets(c) PROVE DoomedStays
  <2>1. PICK list \in Seq(Shuts) : todo' = [todo EXCEPT ![c] = list] BY <1>2, MissLists
  <2>2. todo[c] = <<>> BY <1>2 DEF ListInv
  <2>3. Pending \subseteq Pending'
    BY <2>1, <2>2, PendingChange, EmptyList DEF TypeOK, CallsOK
  <2> QED BY <1>2, <2>3 DEF Miss
<1>3. ASSUME NEW c \in Calls, CloseKeys(c) PROVE DoomedStays
  <2>1. PICK list \in Seq(Shuts) : todo' = [todo EXCEPT ![c] = list] BY <1>3, CloseLists
  <2>2. todo[c] = <<>> BY <1>3 DEF CloseKeys, ListInv
  <2>3. Pending \subseteq Pending'
    BY <2>1, <2>2, PendingChange, EmptyList DEF TypeOK, CallsOK
  <2> QED BY <1>3, <2>3 DEF CloseKeys
<1>4. ASSUME NEW c \in Calls, Ask(c) PROVE DoomedStays
  <2> DEFINE e == Head(todo[c])
  <2>1. e \in Shuts /\ e.task \in Calls BY <1>4, HeadIsPending DEF Ask
  <2>2. Pending \subseteq Pending' \cup {e.task}
    <3>1. CASE UNCHANGED todo BY <3>1 DEF Pending
    <3>2. CASE Done(c) BY <1>4, <3>2, TailIsPending DEF Ask, Done
    <3> QED BY <1>4, <3>1, <3>2 DEF Ask
  <2>3. UNCHANGED <<owner, closed>> BY <1>4 DEF Ask
  <2>4. CASE LoopOf[e.task] \in closed /\ UNCHANGED <<told, cancelled, signals>>
    <3>1. e.task \notin Alive' BY <2>3, <2>4 DEF OwnedInv, LivingInv, Alive
    <3> QED BY <2>2, <2>4, <3>1
  <2>5. CASE Tell(e) /\ UNCHANGED signals
    <3>1. told \subseteq told' /\ cancelled \subseteq cancelled' /\ (e.task \in Alive => e.task \in told')
      BY <2>5 DEF Tell
    <3>2. Alive' = Alive BY <2>3 DEF Alive
    <3> QED BY <2>2, <2>5, <3>1, <3>2
  <2>6. CASE signals' = signals \cup {e} /\ UNCHANGED <<told, cancelled>>
    BY <2>2, <2>6
  <2> QED BY <1>4, <2>4, <2>5, <2>6 DEF Ask
<1>5. ASSUME NEW c \in Calls, Asked(c) PROVE DoomedStays
  <2>1. Pending \subseteq Pending' \cup {Head(todo[c]).task}
    BY <1>5, TailIsPending DEF Asked, Done
  <2>2. Head(todo[c]).task \notin Alive' BY <1>5 DEF Asked, Alive
  <2> QED BY <1>5, <2>1, <2>2 DEF Asked, Done
<1>6. ASSUME NEW c \in Calls, Joined(c) PROVE DoomedStays
  <2>1. Pending' = Pending BY <1>6 DEF Joined, Pending
  <2> QED BY <1>6, <2>1 DEF Joined
<1>7. ASSUME NEW c \in Calls, Fail(c) PROVE DoomedStays
  <2>1. Pending' = Pending BY <1>7 DEF Fail, Pending
  <2> QED BY <1>7, <2>1 DEF Fail
<1>8. ASSUME NEW c \in Calls, Unwound(c) PROVE DoomedStays
  <2>1. Pending' = Pending BY <1>8 DEF Unwound, Unwind, Pending
  <2> QED BY <1>8, <2>1 DEF Unwound, Unwind
<1>9. ASSUME NEW c \in Calls, Promote(c) PROVE DoomedStays
  <2>1. Pending' = Pending BY <1>9 DEF Promote, StillOurs, Register, Keep, Pending
  <2> QED BY <1>9, <2>1 DEF Promote, StillOurs, Register, Keep
<1>10. ASSUME NEW c \in Calls, Refuse(c) PROVE DoomedStays
  <2>1. Pending' = Pending BY <1>10 DEF Refuse, Pending
  <2> QED BY <1>10, <2>1 DEF Refuse
<1>11. ASSUME NEW c \in Calls, CancelSwallowed(c), CountsCancel PROVE DoomedStays
  <2>1. Pending' = Pending BY <1>11 DEF CancelSwallowed, Local, Pending
  <2> QED BY <1>11, <2>1 DEF CancelSwallowed, Local
<1>12. ASSUME NEW c \in Calls, CancelEviction(c), CountsCancel PROVE DoomedStays
  <2> DEFINE e == Head(todo[c])
  <2>1. todo[c] \in Seq(Shuts) /\ todo[c] # <<>> BY <1>12, OwnTodo DEF CancelEviction
  <2>2. Listed(todo[c]) = Listed(Tail(todo[c])) \cup {e.task} BY <2>1, HeadOfList
  <2>3. Pending \subseteq Pending' \cup Listed(Tail(todo[c])) \cup {e.task}
    BY <1>12, <2>2, PendingChange DEF CancelEviction, TypeOK, CallsOK
  <2>4. Listed(Tail(todo[c])) \subseteq forgotten' BY <1>12 DEF CancelEviction
  <2>5. CASE e \in signals
    BY <1>12, <2>3, <2>4, <2>5 DEF CancelEviction
  <2>6. CASE e \notin signals
    <3>1. signals' = signals \cup {Shut(e.task, TRUE)} BY <1>12, <2>6 DEF CancelEviction
    <3>2. Shut(e.task, TRUE) \in signals' /\ Shut(e.task, TRUE).task = e.task BY <3>1 DEF Shut
    <3> QED BY <1>12, <2>3, <2>4, <3>1, <3>2 DEF CancelEviction
  <2> QED BY <2>5, <2>6
<1>13. ASSUME NEW c \in Calls, CancelJoin(c), CountsCancel PROVE DoomedStays
  <2>1. Pending' = Pending BY <1>13 DEF CancelJoin, Pending
  <2> QED BY <1>13, <2>1 DEF CancelJoin
<1>14. ASSUME NEW c \in Calls, CancelWait(c), CountsCancel PROVE DoomedStays
  <2>1. Pending' = Pending BY <1>14 DEF CancelWait, Reclaim, Tell, Shut, Pending
  <2> QED BY <1>14, <2>1 DEF CancelWait, Reclaim, Tell, Shut
<1>15. ASSUME NEW c \in Calls, CancelUnwind(c), CountsCancel PROVE DoomedStays
  <2>1. Pending' = Pending BY <1>15 DEF CancelUnwind, Unwind, Pending
  <2> QED BY <1>15, <2>1 DEF CancelUnwind, Unwind
<1>16. ASSUME NEW c \in Calls, Start(c) PROVE DoomedStays
  <2>1. Pending' = Pending BY <1>16 DEF Start, Become, Uncancelled, Pending
  <2> QED BY <1>16, <2>1 DEF Start, Become, Uncancelled, Alive, TypeOK, OwnersOK
<1>17. ASSUME NEW c \in Calls, Interrupted(c) PROVE DoomedStays
  <2>1. Pending' = Pending BY <1>17 DEF Interrupted, Become, Uncancelled, Pending
  <2> QED BY <1>17, <2>1 DEF Interrupted, Become, Uncancelled, Alive, TypeOK, OwnersOK
<1>18. ASSUME NEW c \in Calls, Close(c) PROVE DoomedStays
  <2>1. Pending' = Pending BY <1>18 DEF Close, Become, Pending
  <2> QED BY <1>18, <2>1 DEF Close, Become, Alive, TypeOK, OwnersOK
<1>19. ASSUME NEW c \in Calls, Exit(c) PROVE DoomedStays
  <2>1. Pending' = Pending BY <1>19 DEF Exit, Become, Uncancelled, Pending
  <2> QED BY <1>19, <2>1 DEF Exit, Become, Uncancelled, Alive, TypeOK, OwnersOK
<1>20. CASE CloseAll
  <2>1. Pending' = Pending BY <1>20 DEF CloseAll, Pending
  <2> QED BY <1>20, <2>1 DEF CloseAll, Shut
<1>21. ASSUME NEW e \in signals, Deliver(e) PROVE DoomedStays
  <2>1. Pending' = Pending BY <1>21 DEF Deliver, Pending
  <2>2. Alive' = Alive BY <1>21 DEF Deliver, Alive
  <2> QED BY <1>21, <2>1, <2>2 DEF Deliver, Tell
<1>22. ASSUME NEW l \in ShortLived, CloseLoop(l) PROVE DoomedStays
  <2>1. Pending' = Pending BY <1>22 DEF CloseLoop, Pending
  <2> QED BY <1>22, <2>1 DEF CloseLoop, Alive, TypeOK, OwnersOK
<1>23. ASSUME NEW c \in Calls, Break(c) PROVE DoomedStays
  <2>1. Pending' = Pending BY <1>23 DEF Break, Become, Pending
  <2> QED BY <1>23, <2>1 DEF Break, Become, Alive, TypeOK, OwnersOK
<1>24. ASSUME NEW c \in Calls, Begin(c) PROVE DoomedStays
  <2>1. Pending' = Pending BY <1>24 DEF Begin, Become, Pending
  <2> QED BY <1>24, <2>1 DEF Begin, Become, Alive, TypeOK, OwnersOK
<1> QED
  BY <1>1, <1>2, <1>3, <1>4, <1>5, <1>6, <1>7, <1>8, <1>9, <1>10, <1>11, <1>12, <1>13,
     <1>14, <1>15, <1>16, <1>17, <1>18, <1>19, <1>20, <1>21, <1>22, <1>23, <1>24
  DEF Next, Get, Proceed, Cancel, Unblocked, Gets, CountsCancel

\* Every step keeps that a call works on its list until it is empty.
LEMMA ListStep == TypeOK /\ ListInv /\ [Next]_vars => ListInv'
<1> SUFFICES ASSUME TypeOK /\ ListInv, [Next]_vars PROVE ListInv' OBVIOUS
<1> USE SessionPoolAssumption DEF ListInv, poolVars, ownerVars, callVars, loopVars, Gets, CountsCancel
<1>0. CASE UNCHANGED vars BY <1>0 DEF vars
<1> SUFFICES ASSUME Next, UNCHANGED key PROVE ListInv' BY <1>0 DEF Next, TypeOK, CallsOK
<1>1. ASSUME NEW c \in Calls, Hit(c), Gets(c) PROVE ListInv'
  BY <1>1 DEF Hit, Register, Keep, Same, TypeOK, CallsOK
<1>2. ASSUME NEW c \in Calls, Miss(c), Gets(c) PROVE ListInv'
  <2>1. PICK list \in Seq(Shuts) :
          /\ todo' = [todo EXCEPT ![c] = list]
          /\ \E next \in {"waiting", "joining"} : at' = [at EXCEPT ![c] = After(list, next)]
    BY <1>2, MissLists
  <2> QED BY <2>1 DEF After, TypeOK, CallsOK
<1>3. ASSUME NEW c \in Calls, CloseKeys(c) PROVE ListInv'
  <2>1. PICK list \in Seq(Shuts) :
          todo' = [todo EXCEPT ![c] = list] /\ at' = [at EXCEPT ![c] = After(list, "over")]
    BY <1>3, CloseLists
  <2> QED BY <2>1 DEF After, TypeOK, CallsOK
<1>4. ASSUME NEW c \in Calls, Ask(c) PROVE ListInv'
  BY <1>4 DEF Ask, Tell, Done, After, Local, Closing, TypeOK, CallsOK
<1>5. ASSUME NEW c \in Calls, Asked(c) PROVE ListInv'
  BY <1>5 DEF Asked, Done, After, Closing, TypeOK, CallsOK
<1>6. ASSUME NEW c \in Calls, Joined(c) PROVE ListInv'
  BY <1>6 DEF Joined, TypeOK, CallsOK
<1>7. ASSUME NEW c \in Calls, Fail(c) PROVE ListInv'
  BY <1>7 DEF Fail, TypeOK, CallsOK
<1>8. ASSUME NEW c \in Calls, Unwound(c) PROVE ListInv'
  BY <1>8 DEF Unwound, Unwind, TypeOK, CallsOK
<1>9. ASSUME NEW c \in Calls, Promote(c) PROVE ListInv'
  BY <1>9 DEF Promote, StillOurs, Register, Keep, TypeOK, CallsOK
<1>10. ASSUME NEW c \in Calls, Refuse(c) PROVE ListInv'
  BY <1>10 DEF Refuse, TypeOK, CallsOK
<1>11. ASSUME NEW c \in Calls, CancelSwallowed(c), CountsCancel PROVE ListInv'
  BY <1>11 DEF CancelSwallowed, Local, TypeOK, CallsOK
<1>12. ASSUME NEW c \in Calls, CancelEviction(c), CountsCancel PROVE ListInv'
  BY <1>12 DEF CancelEviction, Local, Shut, TypeOK, CallsOK
<1>13. ASSUME NEW c \in Calls, CancelJoin(c), CountsCancel PROVE ListInv'
  BY <1>13 DEF CancelJoin, TypeOK, CallsOK
<1>14. ASSUME NEW c \in Calls, CancelWait(c), CountsCancel PROVE ListInv'
  BY <1>14 DEF CancelWait, Reclaim, Tell, Shut, TypeOK, CallsOK
<1>15. ASSUME NEW c \in Calls, CancelUnwind(c), CountsCancel PROVE ListInv'
  BY <1>15 DEF CancelUnwind, Unwind, TypeOK, CallsOK
<1>16. ASSUME NEW c \in Calls, Start(c) PROVE ListInv'
  BY <1>16 DEF Start, Become, Uncancelled, TypeOK, CallsOK
<1>17. ASSUME NEW c \in Calls, Interrupted(c) PROVE ListInv'
  BY <1>17 DEF Interrupted, Become, Uncancelled, TypeOK, CallsOK
<1>18. ASSUME NEW c \in Calls, Close(c) PROVE ListInv'
  BY <1>18 DEF Close, Become, TypeOK, CallsOK
<1>19. ASSUME NEW c \in Calls, Exit(c) PROVE ListInv'
  BY <1>19 DEF Exit, Become, Uncancelled, TypeOK, CallsOK
<1>20. CASE CloseAll
  BY <1>20 DEF CloseAll, Shut, TypeOK, CallsOK
<1>21. ASSUME NEW e \in signals, Deliver(e) PROVE ListInv'
  BY <1>21 DEF Deliver, Tell, TypeOK, CallsOK
<1>22. ASSUME NEW l \in ShortLived, CloseLoop(l) PROVE ListInv'
  BY <1>22 DEF CloseLoop, TypeOK, CallsOK
<1>23. ASSUME NEW c \in Calls, Break(c) PROVE ListInv'
  BY <1>23 DEF Break, Become, TypeOK, CallsOK
<1>24. ASSUME NEW c \in Calls, Begin(c) PROVE ListInv'
  BY <1>24 DEF Begin, Become, TypeOK, CallsOK
<1> QED
  BY <1>1, <1>2, <1>3, <1>4, <1>5, <1>6, <1>7, <1>8, <1>9, <1>10, <1>11, <1>12, <1>13,
     <1>14, <1>15, <1>16, <1>17, <1>18, <1>19, <1>20, <1>21, <1>22, <1>23, <1>24
  DEF Next, Get, Proceed, Cancel, Unblocked, Gets, CountsCancel

\* Every step keeps what a future says of its owner.
LEMMA FutureStep == TypeOK /\ OwnedInv /\ FutureInv /\ [Next]_vars => FutureInv'
<1> SUFFICES ASSUME TypeOK /\ OwnedInv /\ FutureInv, [Next]_vars PROVE FutureInv' OBVIOUS
<1> USE SessionPoolAssumption DEF FutureInv, poolVars, ownerVars, callVars, loopVars, Gets, CountsCancel
<1>0. CASE UNCHANGED vars BY <1>0 DEF vars
<1> SUFFICES ASSUME Next, UNCHANGED key
    PROVE  FutureInv' BY <1>0 DEF Next, TypeOK, OwnersOK, OwnedInv, LivingInv
<1>1. ASSUME NEW c \in Calls, Hit(c), Gets(c) PROVE FutureInv'
  BY <1>1 DEF Hit, Register, Keep, Same, TypeOK, OwnersOK, OwnedInv, LivingInv
<1>2. ASSUME NEW c \in Calls, Miss(c), Gets(c) PROVE FutureInv'
  BY <1>2 DEF Miss, Same, Keep, Oldest, Gone, After, TypeOK, OwnersOK, OwnedInv, LivingInv
<1>3. ASSUME NEW c \in Calls, CloseKeys(c) PROVE FutureInv'
  BY <1>3 DEF CloseKeys, Keep, After, TypeOK, OwnersOK, OwnedInv, LivingInv
<1>4. ASSUME NEW c \in Calls, Ask(c) PROVE FutureInv'
  BY <1>4 DEF Ask, Tell, Done, After, Local, Closing, TypeOK, OwnersOK, OwnedInv, LivingInv
<1>5. ASSUME NEW c \in Calls, Asked(c) PROVE FutureInv'
  BY <1>5 DEF Asked, Done, After, Closing, TypeOK, OwnersOK, OwnedInv, LivingInv
<1>6. ASSUME NEW c \in Calls, Joined(c) PROVE FutureInv'
  BY <1>6 DEF Joined, TypeOK, OwnersOK, OwnedInv, LivingInv
<1>7. ASSUME NEW c \in Calls, Fail(c) PROVE FutureInv'
  BY <1>7 DEF Fail, TypeOK, OwnersOK, OwnedInv, LivingInv
<1>8. ASSUME NEW c \in Calls, Unwound(c) PROVE FutureInv'
  BY <1>8 DEF Unwound, Unwind, TypeOK, OwnersOK, OwnedInv, LivingInv
<1>9. ASSUME NEW c \in Calls, Promote(c) PROVE FutureInv'
  BY <1>9 DEF Promote, StillOurs, Register, Keep, TypeOK, OwnersOK, OwnedInv, LivingInv
<1>10. ASSUME NEW c \in Calls, Refuse(c) PROVE FutureInv'
  BY <1>10 DEF Refuse, TypeOK, OwnersOK, OwnedInv, LivingInv
<1>11. ASSUME NEW c \in Calls, CancelSwallowed(c), CountsCancel PROVE FutureInv'
  BY <1>11 DEF CancelSwallowed, Local, TypeOK, OwnersOK, OwnedInv, LivingInv
<1>12. ASSUME NEW c \in Calls, CancelEviction(c), CountsCancel PROVE FutureInv'
  BY <1>12 DEF CancelEviction, Local, Shut, TypeOK, OwnersOK, OwnedInv, LivingInv
<1>13. ASSUME NEW c \in Calls, CancelJoin(c), CountsCancel PROVE FutureInv'
  BY <1>13 DEF CancelJoin, TypeOK, OwnersOK, OwnedInv, LivingInv
<1>14. ASSUME NEW c \in Calls, CancelWait(c), CountsCancel PROVE FutureInv'
  BY <1>14 DEF CancelWait, Reclaim, Tell, Shut, TypeOK, OwnersOK, OwnedInv, LivingInv
<1>15. ASSUME NEW c \in Calls, CancelUnwind(c), CountsCancel PROVE FutureInv'
  BY <1>15 DEF CancelUnwind, Unwind, TypeOK, OwnersOK, OwnedInv, LivingInv
<1>16. ASSUME NEW c \in Calls, Start(c) PROVE FutureInv'
  BY <1>16 DEF Start, Become, Uncancelled, TypeOK, OwnersOK, OwnedInv, LivingInv
<1>17. ASSUME NEW c \in Calls, Interrupted(c) PROVE FutureInv'
  BY <1>17 DEF Interrupted, Become, Uncancelled, TypeOK, OwnersOK, OwnedInv, LivingInv
<1>18. ASSUME NEW c \in Calls, Close(c) PROVE FutureInv'
  BY <1>18 DEF Close, Become, TypeOK, OwnersOK, OwnedInv, LivingInv
<1>19. ASSUME NEW c \in Calls, Exit(c) PROVE FutureInv'
  BY <1>19 DEF Exit, Become, Uncancelled, TypeOK, OwnersOK, OwnedInv, LivingInv
<1>20. CASE CloseAll
  BY <1>20 DEF CloseAll, Shut, TypeOK, OwnersOK, OwnedInv, LivingInv
<1>21. ASSUME NEW e \in signals, Deliver(e) PROVE FutureInv'
  BY <1>21 DEF Deliver, Tell, TypeOK, OwnersOK, OwnedInv, LivingInv
<1>22. ASSUME NEW l \in ShortLived, CloseLoop(l) PROVE FutureInv'
  BY <1>22 DEF CloseLoop, TypeOK, OwnersOK, OwnedInv, LivingInv
<1>23. ASSUME NEW c \in Calls, Break(c) PROVE FutureInv'
  BY <1>23 DEF Break, Become, TypeOK, OwnersOK, OwnedInv, LivingInv
<1>24. ASSUME NEW c \in Calls, Begin(c) PROVE FutureInv'
  BY <1>24 DEF Begin, Become, TypeOK, OwnersOK, OwnedInv, LivingInv
<1> QED
  BY <1>1, <1>2, <1>3, <1>4, <1>5, <1>6, <1>7, <1>8, <1>9, <1>10, <1>11, <1>12, <1>13,
     <1>14, <1>15, <1>16, <1>17, <1>18, <1>19, <1>20, <1>21, <1>22, <1>23, <1>24
  DEF Next, Get, Proceed, Cancel, Unblocked, Gets, CountsCancel

\* A step moves owner tasks forward; an open session closes when it is told to or
\* its loop closes.
LEMMA OwnersMoveStep == TypeOK /\ OwnedInv /\ FutureInv /\ [Next]_vars => OwnersMove
<1> SUFFICES ASSUME TypeOK /\ OwnedInv /\ FutureInv, [Next]_vars PROVE OwnersMove OBVIOUS
<1> USE SessionPoolAssumption DEF OwnersMove, Alive, poolVars, ownerVars, callVars, loopVars, Gets, CountsCancel
<1>0. CASE UNCHANGED vars BY <1>0 DEF vars
<1> SUFFICES ASSUME Next, UNCHANGED key, broken \subseteq broken'
    PROVE  OwnersMove BY <1>0 DEF Next, Break, TypeOK, OwnersOK, CallsOK, OwnedInv, LivingInv, FutureInv
<1>1. ASSUME NEW c \in Calls, Hit(c), Gets(c) PROVE OwnersMove
  BY <1>1 DEF Hit, Register, Keep, Same, TypeOK, OwnersOK, CallsOK, OwnedInv, LivingInv,
     FutureInv
<1>2. ASSUME NEW c \in Calls, Miss(c), Gets(c) PROVE OwnersMove
  BY <1>2 DEF Miss, Same, Keep, Oldest, Gone, After, TypeOK, OwnersOK, CallsOK, OwnedInv,
     LivingInv, FutureInv
<1>3. ASSUME NEW c \in Calls, CloseKeys(c) PROVE OwnersMove
  BY <1>3 DEF CloseKeys, Keep, After, TypeOK, OwnersOK, CallsOK, OwnedInv, LivingInv, FutureInv
<1>4. ASSUME NEW c \in Calls, Ask(c) PROVE OwnersMove
  BY <1>4 DEF Ask, Tell, Done, After, Local, Closing, TypeOK, OwnersOK, CallsOK, OwnedInv,
     LivingInv, FutureInv
<1>5. ASSUME NEW c \in Calls, Asked(c) PROVE OwnersMove
  BY <1>5 DEF Asked, Done, After, Closing, TypeOK, OwnersOK, CallsOK, OwnedInv, LivingInv,
     FutureInv
<1>6. ASSUME NEW c \in Calls, Joined(c) PROVE OwnersMove
  BY <1>6 DEF Joined, TypeOK, OwnersOK, CallsOK, OwnedInv, LivingInv, FutureInv
<1>7. ASSUME NEW c \in Calls, Fail(c) PROVE OwnersMove
  BY <1>7 DEF Fail, TypeOK, OwnersOK, CallsOK, OwnedInv, LivingInv, FutureInv
<1>8. ASSUME NEW c \in Calls, Unwound(c) PROVE OwnersMove
  BY <1>8 DEF Unwound, Unwind, TypeOK, OwnersOK, CallsOK, OwnedInv, LivingInv, FutureInv
<1>9. ASSUME NEW c \in Calls, Promote(c) PROVE OwnersMove
  BY <1>9 DEF Promote, StillOurs, Register, Keep, TypeOK, OwnersOK, CallsOK, OwnedInv,
     LivingInv, FutureInv
<1>10. ASSUME NEW c \in Calls, Refuse(c) PROVE OwnersMove
  BY <1>10 DEF Refuse, TypeOK, OwnersOK, CallsOK, OwnedInv, LivingInv, FutureInv
<1>11. ASSUME NEW c \in Calls, CancelSwallowed(c), CountsCancel PROVE OwnersMove
  BY <1>11 DEF CancelSwallowed, Local, TypeOK, OwnersOK, CallsOK, OwnedInv, LivingInv, FutureInv
<1>12. ASSUME NEW c \in Calls, CancelEviction(c), CountsCancel PROVE OwnersMove
  BY <1>12 DEF CancelEviction, Local, Shut, TypeOK, OwnersOK, CallsOK, OwnedInv,
     LivingInv, FutureInv
<1>13. ASSUME NEW c \in Calls, CancelJoin(c), CountsCancel PROVE OwnersMove
  BY <1>13 DEF CancelJoin, TypeOK, OwnersOK, CallsOK, OwnedInv, LivingInv, FutureInv
<1>14. ASSUME NEW c \in Calls, CancelWait(c), CountsCancel PROVE OwnersMove
  BY <1>14 DEF CancelWait, Reclaim, Tell, Shut, TypeOK, OwnersOK, CallsOK, OwnedInv,
     LivingInv, FutureInv
<1>15. ASSUME NEW c \in Calls, CancelUnwind(c), CountsCancel PROVE OwnersMove
  BY <1>15 DEF CancelUnwind, Unwind, TypeOK, OwnersOK, CallsOK, OwnedInv, LivingInv, FutureInv
<1>16. ASSUME NEW c \in Calls, Start(c) PROVE OwnersMove
  BY <1>16 DEF Start, Become, Uncancelled, TypeOK, OwnersOK, CallsOK, OwnedInv, LivingInv,
     FutureInv
<1>17. ASSUME NEW c \in Calls, Interrupted(c) PROVE OwnersMove
  BY <1>17 DEF Interrupted, Become, Uncancelled, TypeOK, OwnersOK, CallsOK, OwnedInv,
     LivingInv, FutureInv
<1>18. ASSUME NEW c \in Calls, Close(c) PROVE OwnersMove
  BY <1>18 DEF Close, Become, TypeOK, OwnersOK, CallsOK, OwnedInv, LivingInv, FutureInv
<1>19. ASSUME NEW c \in Calls, Exit(c) PROVE OwnersMove
  BY <1>19 DEF Exit, Become, Uncancelled, TypeOK, OwnersOK, CallsOK, OwnedInv, LivingInv,
     FutureInv
<1>20. CASE CloseAll
  BY <1>20 DEF CloseAll, Shut, TypeOK, OwnersOK, CallsOK, OwnedInv, LivingInv, FutureInv
<1>21. ASSUME NEW e \in signals, Deliver(e) PROVE OwnersMove
  BY <1>21 DEF Deliver, Tell, TypeOK, OwnersOK, CallsOK, OwnedInv, LivingInv, FutureInv
<1>22. ASSUME NEW l \in ShortLived, CloseLoop(l) PROVE OwnersMove
  BY <1>22 DEF CloseLoop, TypeOK, OwnersOK, CallsOK, OwnedInv, LivingInv, FutureInv
<1>23. ASSUME NEW c \in Calls, Break(c) PROVE OwnersMove
  BY <1>23 DEF Break, Become, TypeOK, OwnersOK, CallsOK, OwnedInv, LivingInv, FutureInv
<1>24. ASSUME NEW c \in Calls, Begin(c) PROVE OwnersMove
  BY <1>24 DEF Begin, Become, TypeOK, OwnersOK, CallsOK, OwnedInv, LivingInv, FutureInv
<1> QED
  BY <1>1, <1>2, <1>3, <1>4, <1>5, <1>6, <1>7, <1>8, <1>9, <1>10, <1>11, <1>12, <1>13,
     <1>14, <1>15, <1>16, <1>17, <1>18, <1>19, <1>20, <1>21, <1>22, <1>23, <1>24
  DEF Next, Get, Proceed, Cancel, Unblocked, Gets, CountsCancel

\* A step moves calls forward; a session enters the registry as a creation.
LEMMA CallsMoveStep == TypeOK /\ OwnedInv /\ [Next]_vars => CallsMove
<1> SUFFICES ASSUME TypeOK /\ OwnedInv, [Next]_vars PROVE CallsMove OBVIOUS
<1> USE SessionPoolAssumption DEF CallsMove, Alive, poolVars, ownerVars, callVars, loopVars, Gets, CountsCancel
<1>0. CASE UNCHANGED vars BY <1>0 DEF vars
<1> SUFFICES ASSUME Next, UNCHANGED key
    PROVE  CallsMove BY <1>0 DEF Next, TypeOK, RegistryOK, OwnersOK, CallsOK, OwnedInv, LivingInv
<1>1. ASSUME NEW c \in Calls, Hit(c), Gets(c) PROVE CallsMove
  BY <1>1 DEF Hit, Register, Keep, Same, TypeOK, RegistryOK, OwnersOK, CallsOK, OwnedInv,
     LivingInv
<1>2. ASSUME NEW c \in Calls, Miss(c), Gets(c) PROVE CallsMove
  <2>1. PICK list \in Seq(Shuts) : \E next \in {"waiting", "joining"} : at' = [at EXCEPT ![c] = After(list, next)]
    BY <1>2, MissLists
  <2>2. entries' \subseteq entries /\ ready' = ready
    BY <1>2 DEF Miss
  <2>3. \/ inflight' \subseteq inflight /\ owner' = owner
        \/ inflight' \subseteq inflight \cup {c} /\ owner' = [owner EXCEPT ![c] = "new"]
    BY <1>2 DEF Miss
  <2>4. at'[c] \in {"evicting", "waiting", "joining"} /\ \A t \in Calls \ {c} : at'[t] = at[t]
    BY <2>1 DEF After, TypeOK, CallsOK
  <2> QED BY <1>2, <2>2, <2>3, <2>4 DEF TypeOK, RegistryOK, OwnersOK
<1>3. ASSUME NEW c \in Calls, CloseKeys(c) PROVE CallsMove
  BY <1>3 DEF CloseKeys, Keep, After, TypeOK, RegistryOK, OwnersOK, CallsOK, OwnedInv, LivingInv
<1>4. ASSUME NEW c \in Calls, Ask(c) PROVE CallsMove
  BY <1>4 DEF Ask, Tell, Done, After, Local, Closing, TypeOK, RegistryOK, OwnersOK,
     CallsOK, OwnedInv, LivingInv
<1>5. ASSUME NEW c \in Calls, Asked(c) PROVE CallsMove
  BY <1>5 DEF Asked, Done, After, Closing, TypeOK, RegistryOK, OwnersOK, CallsOK,
     OwnedInv, LivingInv
<1>6. ASSUME NEW c \in Calls, Joined(c) PROVE CallsMove
  BY <1>6 DEF Joined, TypeOK, RegistryOK, OwnersOK, CallsOK, OwnedInv, LivingInv
<1>7. ASSUME NEW c \in Calls, Fail(c) PROVE CallsMove
  BY <1>7 DEF Fail, TypeOK, RegistryOK, OwnersOK, CallsOK, OwnedInv, LivingInv
<1>8. ASSUME NEW c \in Calls, Unwound(c) PROVE CallsMove
  BY <1>8 DEF Unwound, Unwind, TypeOK, RegistryOK, OwnersOK, CallsOK, OwnedInv, LivingInv
<1>9. ASSUME NEW c \in Calls, Promote(c) PROVE CallsMove
  BY <1>9 DEF Promote, StillOurs, Register, Keep, TypeOK, RegistryOK, OwnersOK, CallsOK,
     OwnedInv, LivingInv
<1>10. ASSUME NEW c \in Calls, Refuse(c) PROVE CallsMove
  BY <1>10 DEF Refuse, TypeOK, RegistryOK, OwnersOK, CallsOK, OwnedInv, LivingInv
<1>11. ASSUME NEW c \in Calls, CancelSwallowed(c), CountsCancel PROVE CallsMove
  BY <1>11 DEF CancelSwallowed, Local, TypeOK, RegistryOK, OwnersOK, CallsOK, OwnedInv,
     LivingInv
<1>12. ASSUME NEW c \in Calls, CancelEviction(c), CountsCancel PROVE CallsMove
  BY <1>12 DEF CancelEviction, Local, Shut, TypeOK, RegistryOK, OwnersOK, CallsOK,
     OwnedInv, LivingInv
<1>13. ASSUME NEW c \in Calls, CancelJoin(c), CountsCancel PROVE CallsMove
  BY <1>13 DEF CancelJoin, TypeOK, RegistryOK, OwnersOK, CallsOK, OwnedInv, LivingInv
<1>14. ASSUME NEW c \in Calls, CancelWait(c), CountsCancel PROVE CallsMove
  BY <1>14 DEF CancelWait, Reclaim, Tell, Shut, TypeOK, RegistryOK, OwnersOK, CallsOK,
     OwnedInv, LivingInv
<1>15. ASSUME NEW c \in Calls, CancelUnwind(c), CountsCancel PROVE CallsMove
  BY <1>15 DEF CancelUnwind, Unwind, TypeOK, RegistryOK, OwnersOK, CallsOK, OwnedInv, LivingInv
<1>16. ASSUME NEW c \in Calls, Start(c) PROVE CallsMove
  BY <1>16 DEF Start, Become, Uncancelled, TypeOK, RegistryOK, OwnersOK, CallsOK,
     OwnedInv, LivingInv
<1>17. ASSUME NEW c \in Calls, Interrupted(c) PROVE CallsMove
  BY <1>17 DEF Interrupted, Become, Uncancelled, TypeOK, RegistryOK, OwnersOK, CallsOK,
     OwnedInv, LivingInv
<1>18. ASSUME NEW c \in Calls, Close(c) PROVE CallsMove
  BY <1>18 DEF Close, Become, TypeOK, RegistryOK, OwnersOK, CallsOK, OwnedInv, LivingInv
<1>19. ASSUME NEW c \in Calls, Exit(c) PROVE CallsMove
  BY <1>19 DEF Exit, Become, Uncancelled, TypeOK, RegistryOK, OwnersOK, CallsOK, OwnedInv,
     LivingInv
<1>20. CASE CloseAll
  BY <1>20 DEF CloseAll, Shut, TypeOK, RegistryOK, OwnersOK, CallsOK, OwnedInv, LivingInv
<1>21. ASSUME NEW e \in signals, Deliver(e) PROVE CallsMove
  BY <1>21 DEF Deliver, Tell, TypeOK, RegistryOK, OwnersOK, CallsOK, OwnedInv, LivingInv
<1>22. ASSUME NEW l \in ShortLived, CloseLoop(l) PROVE CallsMove
  BY <1>22 DEF CloseLoop, TypeOK, RegistryOK, OwnersOK, CallsOK, OwnedInv, LivingInv
<1>23. ASSUME NEW c \in Calls, Break(c) PROVE CallsMove
  BY <1>23 DEF Break, Become, TypeOK, RegistryOK, OwnersOK, CallsOK, OwnedInv, LivingInv
<1>24. ASSUME NEW c \in Calls, Begin(c) PROVE CallsMove
  BY <1>24 DEF Begin, Become, TypeOK, RegistryOK, OwnersOK, CallsOK, OwnedInv, LivingInv
<1> QED
  BY <1>1, <1>2, <1>3, <1>4, <1>5, <1>6, <1>7, <1>8, <1>9, <1>10, <1>11, <1>12, <1>13,
     <1>14, <1>15, <1>16, <1>17, <1>18, <1>19, <1>20, <1>21, <1>22, <1>23, <1>24
  DEF Next, Get, Proceed, Cancel, Unblocked, Gets, CountsCancel

\* Who leaves the registry is told to go, or is on its way out.
LEMMA PoolLeavesStep == TypeOK /\ RegistryInv /\ [Next]_vars => PoolLeaves
<1> SUFFICES ASSUME TypeOK /\ RegistryInv, [Next]_vars PROVE PoolLeaves OBVIOUS
<1> USE SessionPoolAssumption DEF PoolLeaves, poolVars, ownerVars, callVars, loopVars, Gets, CountsCancel
<1>0. CASE UNCHANGED vars BY <1>0 DEF vars
<1> SUFFICES ASSUME Next, UNCHANGED key PROVE PoolLeaves BY <1>0 DEF Next
<1>1. ASSUME NEW c \in Calls, Hit(c), Gets(c) PROVE PoolLeaves
  BY <1>1 DEF Hit, Register
<1>2. ASSUME NEW c \in Calls, Miss(c), Gets(c) PROVE PoolLeaves
  <2>1. PICK list \in Seq(Shuts) :
          /\ todo' = [todo EXCEPT ![c] = list]
          /\ entries \cup inflight \subseteq (entries' \cup inflight') \cup Listed(list)
    BY <1>2, MissLists
  <2>2. Listed(list) \subseteq Pending' BY <2>1, PendingChange DEF TypeOK, CallsOK
  <2> QED BY <2>1, <2>2 DEF Doomed
<1>3. ASSUME NEW c \in Calls, CloseKeys(c) PROVE PoolLeaves
  <2>1. PICK list \in Seq(Shuts) :
          /\ todo' = [todo EXCEPT ![c] = list]
          /\ entries \cup inflight = (entries' \cup inflight') \cup Listed(list)
    BY <1>3, CloseLists
  <2>2. Listed(list) \subseteq Pending' BY <2>1, PendingChange DEF TypeOK, CallsOK
  <2> QED BY <2>1, <2>2 DEF Doomed
<1>4. ASSUME NEW c \in Calls, Ask(c) PROVE PoolLeaves
  BY <1>4 DEF Ask, Tell, Done, After, Local, Closing
<1>5. ASSUME NEW c \in Calls, Asked(c) PROVE PoolLeaves
  BY <1>5 DEF Asked, Done, After, Closing
<1>6. ASSUME NEW c \in Calls, Joined(c) PROVE PoolLeaves
  BY <1>6 DEF Joined
<1>7. ASSUME NEW c \in Calls, Fail(c) PROVE PoolLeaves
  BY <1>7 DEF Fail
<1>8. ASSUME NEW c \in Calls, Unwound(c) PROVE PoolLeaves
  BY <1>8 DEF Unwound, Unwind, Alive
<1>9. ASSUME NEW c \in Calls, Promote(c) PROVE PoolLeaves
  BY <1>9 DEF Promote, Register
<1>10. ASSUME NEW c \in Calls, Refuse(c) PROVE PoolLeaves
  BY <1>10 DEF Refuse
<1>11. ASSUME NEW c \in Calls, CancelSwallowed(c), CountsCancel PROVE PoolLeaves
  BY <1>11 DEF CancelSwallowed, Local
<1>12. ASSUME NEW c \in Calls, CancelEviction(c), CountsCancel PROVE PoolLeaves
  BY <1>12 DEF CancelEviction, Local, Shut
<1>13. ASSUME NEW c \in Calls, CancelJoin(c), CountsCancel PROVE PoolLeaves
  BY <1>13 DEF CancelJoin
<1>14. ASSUME NEW c \in Calls, CancelWait(c), CountsCancel PROVE PoolLeaves
  BY <1>14 DEF CancelWait, Reclaim, Tell, Shut
<1>15. ASSUME NEW c \in Calls, CancelUnwind(c), CountsCancel PROVE PoolLeaves
  <2>1. c \in Alive' => c \in told' \/ owner'[c] = "exiting"
    BY <1>15 DEF CancelUnwind, Unwind, RegistryInv, UnwindInv, Alive
  <2> QED BY <1>15, <2>1 DEF CancelUnwind, Unwind, Doomed
<1>16. ASSUME NEW c \in Calls, Start(c) PROVE PoolLeaves
  BY <1>16 DEF Start, Become, Uncancelled
<1>17. ASSUME NEW c \in Calls, Interrupted(c) PROVE PoolLeaves
  BY <1>17 DEF Interrupted, Become, Uncancelled
<1>18. ASSUME NEW c \in Calls, Close(c) PROVE PoolLeaves
  BY <1>18 DEF Close, Become
<1>19. ASSUME NEW c \in Calls, Exit(c) PROVE PoolLeaves
  BY <1>19 DEF Exit, Become, Uncancelled
<1>20. CASE CloseAll
  <2>1. \A t \in entries \cup inflight : Shut(t, Cancels(t)) \in signals' /\ Shut(t, Cancels(t)).task = t
    BY <1>20 DEF CloseAll, Shut
  <2> QED BY <2>1 DEF Doomed
<1>21. ASSUME NEW e \in signals, Deliver(e) PROVE PoolLeaves
  BY <1>21 DEF Deliver, Tell
<1>22. ASSUME NEW l \in ShortLived, CloseLoop(l) PROVE PoolLeaves
  BY <1>22 DEF CloseLoop
<1>23. ASSUME NEW c \in Calls, Break(c) PROVE PoolLeaves
  BY <1>23 DEF Break, Become
<1>24. ASSUME NEW c \in Calls, Begin(c) PROVE PoolLeaves
  BY <1>24 DEF Begin, Become
<1> QED
  BY <1>1, <1>2, <1>3, <1>4, <1>5, <1>6, <1>7, <1>8, <1>9, <1>10, <1>11, <1>12, <1>13,
     <1>14, <1>15, <1>16, <1>17, <1>18, <1>19, <1>20, <1>21, <1>22, <1>23, <1>24
  DEF Next, Get, Proceed, Cancel, Unblocked, Gets, CountsCancel

\* Every step keeps the living apart: who is told to go lives, on a loop that is
\* open.
LEMMA LivingStep == TypeOK /\ LivingInv /\ [Next]_vars => LivingInv'
<1> SUFFICES ASSUME TypeOK /\ LivingInv, [Next]_vars PROVE LivingInv' OBVIOUS
<1> USE SessionPoolAssumption DEF LivingInv, Alive, poolVars, ownerVars, callVars, loopVars, Gets, CountsCancel
<1>0. CASE UNCHANGED vars BY <1>0 DEF vars
<1> SUFFICES ASSUME Next, UNCHANGED key PROVE LivingInv' BY <1>0 DEF Next, TypeOK, OwnersOK
<1>1. ASSUME NEW c \in Calls, Hit(c), Gets(c) PROVE LivingInv'
  BY <1>1 DEF Hit, Register, Keep, Same, TypeOK, OwnersOK
<1>2. ASSUME NEW c \in Calls, Miss(c), Gets(c) PROVE LivingInv'
  BY <1>2 DEF Miss, Same, Keep, Oldest, Gone, After, TypeOK, OwnersOK
<1>3. ASSUME NEW c \in Calls, CloseKeys(c) PROVE LivingInv'
  BY <1>3 DEF CloseKeys, Keep, After, TypeOK, OwnersOK
<1>4. ASSUME NEW c \in Calls, Ask(c) PROVE LivingInv'
  BY <1>4 DEF Ask, Tell, Done, After, Local, Closing, TypeOK, OwnersOK
<1>5. ASSUME NEW c \in Calls, Asked(c) PROVE LivingInv'
  BY <1>5 DEF Asked, Done, After, Closing, TypeOK, OwnersOK
<1>6. ASSUME NEW c \in Calls, Joined(c) PROVE LivingInv'
  BY <1>6 DEF Joined, TypeOK, OwnersOK
<1>7. ASSUME NEW c \in Calls, Fail(c) PROVE LivingInv'
  BY <1>7 DEF Fail, TypeOK, OwnersOK
<1>8. ASSUME NEW c \in Calls, Unwound(c) PROVE LivingInv'
  BY <1>8 DEF Unwound, Unwind, TypeOK, OwnersOK
<1>9. ASSUME NEW c \in Calls, Promote(c) PROVE LivingInv'
  BY <1>9 DEF Promote, StillOurs, Register, Keep, TypeOK, OwnersOK
<1>10. ASSUME NEW c \in Calls, Refuse(c) PROVE LivingInv'
  BY <1>10 DEF Refuse, TypeOK, OwnersOK
<1>11. ASSUME NEW c \in Calls, CancelSwallowed(c), CountsCancel PROVE LivingInv'
  BY <1>11 DEF CancelSwallowed, Local, TypeOK, OwnersOK
<1>12. ASSUME NEW c \in Calls, CancelEviction(c), CountsCancel PROVE LivingInv'
  BY <1>12 DEF CancelEviction, Local, Shut, TypeOK, OwnersOK
<1>13. ASSUME NEW c \in Calls, CancelJoin(c), CountsCancel PROVE LivingInv'
  BY <1>13 DEF CancelJoin, TypeOK, OwnersOK
<1>14. ASSUME NEW c \in Calls, CancelWait(c), CountsCancel PROVE LivingInv'
  BY <1>14 DEF CancelWait, Reclaim, Tell, Shut, TypeOK, OwnersOK
<1>15. ASSUME NEW c \in Calls, CancelUnwind(c), CountsCancel PROVE LivingInv'
  BY <1>15 DEF CancelUnwind, Unwind, TypeOK, OwnersOK
<1>16. ASSUME NEW c \in Calls, Start(c) PROVE LivingInv'
  BY <1>16 DEF Start, Become, Uncancelled, TypeOK, OwnersOK
<1>17. ASSUME NEW c \in Calls, Interrupted(c) PROVE LivingInv'
  BY <1>17 DEF Interrupted, Become, Uncancelled, TypeOK, OwnersOK
<1>18. ASSUME NEW c \in Calls, Close(c) PROVE LivingInv'
  BY <1>18 DEF Close, Become, TypeOK, OwnersOK
<1>19. ASSUME NEW c \in Calls, Exit(c) PROVE LivingInv'
  BY <1>19 DEF Exit, Become, Uncancelled, TypeOK, OwnersOK
<1>20. CASE CloseAll
  BY <1>20 DEF CloseAll, Shut, TypeOK, OwnersOK
<1>21. ASSUME NEW e \in signals, Deliver(e) PROVE LivingInv'
  BY <1>21 DEF Deliver, Tell, TypeOK, OwnersOK
<1>22. ASSUME NEW l \in ShortLived, CloseLoop(l) PROVE LivingInv'
  BY <1>22 DEF CloseLoop, TypeOK, OwnersOK
<1>23. ASSUME NEW c \in Calls, Break(c) PROVE LivingInv'
  BY <1>23 DEF Break, Become, TypeOK, OwnersOK
<1>24. ASSUME NEW c \in Calls, Begin(c) PROVE LivingInv'
  BY <1>24 DEF Begin, Become, TypeOK, OwnersOK
<1> QED
  BY <1>1, <1>2, <1>3, <1>4, <1>5, <1>6, <1>7, <1>8, <1>9, <1>10, <1>11, <1>12, <1>13,
     <1>14, <1>15, <1>16, <1>17, <1>18, <1>19, <1>20, <1>21, <1>22, <1>23, <1>24
  DEF Next, Get, Proceed, Cancel, Unblocked, Gets, CountsCancel

\* Every step keeps that a call waits only for an owner that is told to go.
LEMMA UnwindStep == TypeOK /\ FutureInv /\ UnwindInv /\ [Next]_vars => UnwindInv'
<1> SUFFICES ASSUME TypeOK /\ FutureInv /\ UnwindInv, [Next]_vars PROVE UnwindInv' OBVIOUS
<1> USE SessionPoolAssumption DEF UnwindInv, Alive, poolVars, ownerVars, callVars, loopVars, Gets, CountsCancel
<1>0. CASE UNCHANGED vars BY <1>0 DEF vars
<1> SUFFICES ASSUME Next, UNCHANGED key
    PROVE  UnwindInv' BY <1>0 DEF Next, TypeOK, OwnersOK, CallsOK, FutureInv
<1>1. ASSUME NEW c \in Calls, Hit(c), Gets(c) PROVE UnwindInv'
  BY <1>1 DEF Hit, Register, Keep, Same, TypeOK, OwnersOK, CallsOK, FutureInv
<1>2. ASSUME NEW c \in Calls, Miss(c), Gets(c) PROVE UnwindInv'
  BY <1>2 DEF Miss, Same, Keep, Oldest, Gone, After, TypeOK, OwnersOK, CallsOK, FutureInv
<1>3. ASSUME NEW c \in Calls, CloseKeys(c) PROVE UnwindInv'
  BY <1>3 DEF CloseKeys, Keep, After, TypeOK, OwnersOK, CallsOK, FutureInv
<1>4. ASSUME NEW c \in Calls, Ask(c) PROVE UnwindInv'
  BY <1>4 DEF Ask, Tell, Done, After, Local, Closing, TypeOK, OwnersOK, CallsOK, FutureInv
<1>5. ASSUME NEW c \in Calls, Asked(c) PROVE UnwindInv'
  BY <1>5 DEF Asked, Done, After, Closing, TypeOK, OwnersOK, CallsOK, FutureInv
<1>6. ASSUME NEW c \in Calls, Joined(c) PROVE UnwindInv'
  BY <1>6 DEF Joined, TypeOK, OwnersOK, CallsOK, FutureInv
<1>7. ASSUME NEW c \in Calls, Fail(c) PROVE UnwindInv'
  BY <1>7 DEF Fail, TypeOK, OwnersOK, CallsOK, FutureInv
<1>8. ASSUME NEW c \in Calls, Unwound(c) PROVE UnwindInv'
  BY <1>8 DEF Unwound, Unwind, TypeOK, OwnersOK, CallsOK, FutureInv
<1>9. ASSUME NEW c \in Calls, Promote(c) PROVE UnwindInv'
  BY <1>9 DEF Promote, StillOurs, Register, Keep, TypeOK, OwnersOK, CallsOK, FutureInv
<1>10. ASSUME NEW c \in Calls, Refuse(c) PROVE UnwindInv'
  BY <1>10 DEF Refuse, TypeOK, OwnersOK, CallsOK, FutureInv
<1>11. ASSUME NEW c \in Calls, CancelSwallowed(c), CountsCancel PROVE UnwindInv'
  BY <1>11 DEF CancelSwallowed, Local, TypeOK, OwnersOK, CallsOK, FutureInv
<1>12. ASSUME NEW c \in Calls, CancelEviction(c), CountsCancel PROVE UnwindInv'
  BY <1>12 DEF CancelEviction, Local, Shut, TypeOK, OwnersOK, CallsOK, FutureInv
<1>13. ASSUME NEW c \in Calls, CancelJoin(c), CountsCancel PROVE UnwindInv'
  BY <1>13 DEF CancelJoin, TypeOK, OwnersOK, CallsOK, FutureInv
<1>14. ASSUME NEW c \in Calls, CancelWait(c), CountsCancel PROVE UnwindInv'
  BY <1>14 DEF CancelWait, Reclaim, Tell, Shut, TypeOK, OwnersOK, CallsOK, FutureInv
<1>15. ASSUME NEW c \in Calls, CancelUnwind(c), CountsCancel PROVE UnwindInv'
  BY <1>15 DEF CancelUnwind, Unwind, TypeOK, OwnersOK, CallsOK, FutureInv
<1>16. ASSUME NEW c \in Calls, Start(c) PROVE UnwindInv'
  BY <1>16 DEF Start, Become, TypeOK, OwnersOK
<1>17. ASSUME NEW c \in Calls, Interrupted(c) PROVE UnwindInv'
  BY <1>17 DEF Interrupted, Become, TypeOK, OwnersOK
<1>18. ASSUME NEW c \in Calls, Close(c) PROVE UnwindInv'
  BY <1>18 DEF Close, Become, TypeOK, OwnersOK, CallsOK, FutureInv
<1>19. ASSUME NEW c \in Calls, Exit(c) PROVE UnwindInv'
  BY <1>19 DEF Exit, Become, Uncancelled, TypeOK, OwnersOK, CallsOK, FutureInv
<1>20. CASE CloseAll
  BY <1>20 DEF CloseAll, Shut, TypeOK, OwnersOK, CallsOK, FutureInv
<1>21. ASSUME NEW e \in signals, Deliver(e) PROVE UnwindInv'
  BY <1>21 DEF Deliver, Tell, TypeOK, OwnersOK, CallsOK, FutureInv
<1>22. ASSUME NEW l \in ShortLived, CloseLoop(l) PROVE UnwindInv'
  BY <1>22 DEF CloseLoop, TypeOK, OwnersOK, CallsOK, FutureInv
<1>23. ASSUME NEW c \in Calls, Break(c) PROVE UnwindInv'
  BY <1>23 DEF Break, Become, TypeOK, OwnersOK, CallsOK, FutureInv
<1>24. ASSUME NEW c \in Calls, Begin(c) PROVE UnwindInv'
  BY <1>24 DEF Begin, Become, TypeOK, OwnersOK, CallsOK, FutureInv
<1> QED
  BY <1>1, <1>2, <1>3, <1>4, <1>5, <1>6, <1>7, <1>8, <1>9, <1>10, <1>11, <1>12, <1>13,
     <1>14, <1>15, <1>16, <1>17, <1>18, <1>19, <1>20, <1>21, <1>22, <1>23, <1>24
  DEF Next, Get, Proceed, Cancel, Unblocked, Gets, CountsCancel

\* Only owner tasks are told to go.
LEMMA DoomedCalls == TypeOK => Doomed \subseteq Calls
<1> SUFFICES ASSUME TypeOK PROVE Doomed \subseteq Calls OBVIOUS
<1>1. \A c \in Calls : Listed(todo[c]) \subseteq Calls BY ListedCalls DEF TypeOK, CallsOK
<1>2. \A e \in signals : e.task \in Calls BY DEF TypeOK, OwnersOK, Shuts
<1> QED BY <1>1, <1>2 DEF Doomed, Pending, TypeOK, OwnersOK

\* Every step keeps that only owner tasks are registered or told to go.
LEMMA OwnedStep ==
  ASSUME TypeOK, TypeOK', ListInv, OwnedInv, FutureInv, [Next]_vars
  PROVE  OwnedInv'
<1>1. OwnersMove /\ CallsMove /\ DoomedGrows
  BY OwnersMoveStep, CallsMoveStep, DoomedGrowsStep
<1>2. LivingInv'
  BY LivingStep DEF OwnedInv
<1>3. ASSUME NEW c \in Calls, at'[c] = "idle" PROVE owner'[c] = "none"
  BY <1>1, <1>3 DEF CallsMove, OwnedInv
<1>4. ASSUME NEW t \in entries' \cup inflight' \cup Doomed' PROVE owner'[t] # "none"
  <2>1. t \in Calls
    <3>1. Doomed' \subseteq Calls
      BY <1>1, DoomedCalls DEF DoomedGrows, TypeOK, RegistryOK, Alive
    <3> QED BY <3>1 DEF TypeOK, RegistryOK
  <2>2. CASE t \in inflight' \ inflight BY <1>1, <2>1, <2>2 DEF CallsMove
  <2>3. CASE t \in entries \cup inflight \cup Doomed
    BY <1>1, <2>1, <2>3 DEF OwnersMove, OwnedInv
  <2>4. CASE t \in entries' \ entries BY <1>1, <2>1, <2>3, <2>4 DEF CallsMove
  <2>5. CASE t \in Doomed' \ Doomed
    <3>1. t \in entries \cup inflight \/ owner[t] # "none" BY <1>1, <2>5 DEF DoomedGrows, Alive
    <3> QED BY <1>1, <2>1, <2>3, <3>1 DEF OwnersMove
  <2> QED BY <1>4, <2>2, <2>3, <2>4, <2>5
<1> QED BY <1>2, <1>3, <1>4 DEF OwnedInv

\* Every step keeps what is registered from being told to go.
LEMMA UntoldStep ==
  ASSUME TypeOK, TypeOK', ListInv, OwnedInv, FutureInv, RegistryInv, [Next]_vars
  PROVE  RegistryInv'
<1>1. OwnersMove /\ CallsMove /\ DoomedGrows
  BY OwnersMoveStep, CallsMoveStep, DoomedGrowsStep
<1>2. entries \cup inflight \cup entries' \cup inflight' \subseteq Calls
  BY DEF TypeOK, RegistryOK
<1>3. ASSUME NEW t \in entries' PROVE at'[t] = "got"
  BY <1>1, <1>2, <1>3 DEF CallsMove, RegistryInv
<1>4. ASSUME NEW t \in entries', t \in Doomed' PROVE FALSE
  <2>1. CASE t \in Doomed
    <3>1. t \in inflight /\ at[t] = "waiting"
      BY <1>1, <1>2, <1>4, <2>1 DEF CallsMove, RegistryInv
    <3> QED BY <2>1, <3>1 DEF RegistryInv
  <2>2. CASE t \notin Doomed
    <3>1. at[t] \in {"waiting", "shutting"} /\ t \in entries BY <1>1, <1>4, <2>2 DEF DoomedGrows
    <3> QED BY <3>1 DEF RegistryInv
  <2> QED BY <2>1, <2>2
<1>5. ASSUME NEW t \in inflight' PROVE at'[t] # "shutting"
  BY <1>1, <1>2, <1>5 DEF CallsMove, RegistryInv
<1>6. ASSUME NEW t \in inflight', t \in Doomed' PROVE at'[t] = "unwinding"
  <2>1. CASE t \in Doomed
    <3>1. t \in inflight BY <1>1, <1>2, <1>6, <2>1 DEF CallsMove, OwnedInv
    <3>2. at[t] = "unwinding" BY <2>1, <3>1 DEF RegistryInv
    <3> QED BY <1>1, <1>2, <1>6, <3>2 DEF CallsMove
  <2>2. CASE t \notin Doomed
    <3>1. at'[t] \in {"unwinding", "shutting"} BY <1>1, <1>6, <2>2 DEF DoomedGrows
    <3> QED BY <1>5, <1>6, <3>1
  <2> QED BY <2>1, <2>2
<1>7. ASSUME NEW t \in inflight', at'[t] \in {"evicting", "asked", "waiting"}, ready'[t] = "ok"
      PROVE  owner'[t] = "open" \/ t \in broken'
  <2>1. t \in Calls BY <1>2
  <2>2. CASE t \notin inflight
    <3>1. at[t] = "idle" /\ ready'[t] = ready[t] BY <1>1, <1>7, <2>1, <2>2 DEF CallsMove
    <3>2. ready[t] = "pending" BY <2>1, <3>1 DEF OwnedInv, FutureInv
    <3> QED BY <1>7, <3>1, <3>2
  <2>3. CASE t \in inflight
    <3>1. at[t] \in {"evicting", "asked", "waiting"}
      BY <1>1, <1>7, <2>1, <2>3 DEF CallsMove, OwnedInv
    <3>2. CASE ready[t] # "ok" BY <1>1, <1>7, <2>1, <3>2 DEF OwnersMove
    <3>3. CASE ready[t] = "ok"
      <4>1. owner[t] = "open" \/ t \in broken BY <2>3, <3>1, <3>3 DEF RegistryInv
      <4>2. t \notin told \cup cancelled BY <2>3, <3>1 DEF RegistryInv, Doomed
      <4> QED BY <1>1, <2>1, <3>1, <4>1, <4>2 DEF OwnersMove
    <3> QED BY <3>2, <3>3
  <2> QED BY <2>2, <2>3
<1>8. UnwindInv'
  BY UnwindStep DEF RegistryInv
<1> QED BY <1>3, <1>4, <1>5, <1>6, <1>7, <1>8 DEF RegistryInv

\* Every step keeps the registered sessions from being ended.
LEMMA KeptStep ==
  ASSUME TypeOK, TypeOK', ListInv, OwnedInv, FutureInv, RegistryInv, RegistryInv', EntriesAreKept, [Next]_vars
  PROVE  EntriesAreKept'
<1>1. OwnersMove /\ CallsMove BY OwnersMoveStep, CallsMoveStep
<1> SUFFICES ASSUME NEW t \in entries', LoopOf[t] \notin closed'
             PROVE  t \notin told' \cup cancelled' /\ (owner'[t] = "open" \/ t \in broken')
  BY DEF EntriesAreKept
<1>2. t \in Calls BY DEF TypeOK, RegistryOK
<1>3. t \notin told' \cup cancelled' BY DEF RegistryInv, Doomed
<1>4. LoopOf[t] \notin closed BY <1>1 DEF OwnersMove
<1>5. t \notin told \cup cancelled /\ (owner[t] = "open" \/ t \in broken)
  <2>1. CASE t \in entries BY <1>4, <2>1 DEF EntriesAreKept
  <2>2. CASE t \notin entries
    <3>1. t \in inflight /\ at[t] = "waiting" /\ ready[t] = "ok"
      BY <1>1, <1>2, <2>2 DEF CallsMove
    <3> QED BY <3>1 DEF RegistryInv, Doomed
  <2> QED BY <2>1, <2>2
<1> QED BY <1>1, <1>2, <1>3, <1>5 DEF OwnersMove

\* Every step keeps each living owner task in somebody's hands.
LEMMA NoneLostStep ==
  ASSUME TypeOK, ListInv, OwnedInv, FutureInv, RegistryInv, NoOwnerLost, [Next]_vars
  PROVE  NoOwnerLost'
<1>1. OwnersMove /\ DoomedStays /\ PoolLeaves
  BY OwnersMoveStep, DoomedStaysStep, PoolLeavesStep
<1> SUFFICES ASSUME NEW t \in Alive'
             PROVE  t \in entries' \cup inflight' \cup Doomed' \cup forgotten' \/ owner'[t] = "exiting"
  BY DEF NoOwnerLost
<1>2. t \in Calls BY DEF Alive
<1>3. CASE t \notin Alive BY <1>1, <1>2, <1>3 DEF OwnersMove
<1>4. CASE t \in Alive
  <2>1. CASE t \in entries \cup inflight BY <1>1, <2>1 DEF PoolLeaves
  <2>2. CASE t \in Doomed BY <1>1, <2>2 DEF DoomedStays
  <2>3. CASE t \in forgotten BY <1>1, <2>3 DEF OwnersMove
  <2>4. CASE owner[t] = "exiting" BY <1>1, <1>2, <2>4 DEF OwnersMove, Alive
  <2> QED BY <1>4, <2>1, <2>2, <2>3, <2>4 DEF NoOwnerLost
<1> QED BY <1>3, <1>4

\* At first the pool is empty.
LEMMA InitSessions == Init => TypeOK /\ SessionInv
<1> SUFFICES ASSUME Init PROVE TypeOK /\ SessionInv OBVIOUS
<1> USE DEF Init
<1>1. <<>> \in Seq(Shuts) BY EmptySeq
<1>2. RegistryOK BY FS_EmptySet DEF RegistryOK, Orders
<1>3. OwnersOK BY DEF OwnersOK
<1>4. CallsOK BY <1>1, SessionPoolAssumption DEF CallsOK
<1>5. Doomed = {} BY EmptyList DEF Doomed, Pending
<1>6. ListInv BY DEF ListInv
<1>7. OwnedInv BY <1>5 DEF OwnedInv, LivingInv, Alive
<1>8. FutureInv BY DEF FutureInv
<1>9. RegistryInv BY <1>5 DEF RegistryInv, UnwindInv, Alive
<1>10. EntriesAreKept BY DEF EntriesAreKept
<1>11. NoOwnerLost BY DEF NoOwnerLost, Alive
<1> QED BY <1>2, <1>3, <1>4, <1>6, <1>7, <1>8, <1>9, <1>10, <1>11 DEF TypeOK, SessionInv

\* The types and the inductive invariant hold in every state.
THEOREM Invariance == Spec => [](TypeOK /\ SessionInv)
<1>1. TypeOK /\ SessionInv /\ [Next]_vars => TypeOK'
  BY RegistryStep, OwnersStep, CallsStep DEF TypeOK, SessionInv
<1>2. TypeOK /\ TypeOK' /\ SessionInv /\ [Next]_vars => SessionInv'
  <2> SUFFICES ASSUME TypeOK, TypeOK', SessionInv, [Next]_vars PROVE SessionInv' OBVIOUS
  <2> USE DEF SessionInv
  <2>1. ListInv' BY ListStep
  <2>2. OwnedInv' BY OwnedStep
  <2>3. FutureInv' BY FutureStep
  <2>4. RegistryInv' BY UntoldStep
  <2>5. EntriesAreKept' BY <2>4, KeptStep
  <2>6. NoOwnerLost' BY NoneLostStep
  <2> QED BY <2>1, <2>2, <2>3, <2>4, <2>5, <2>6
<1> QED BY InitSessions, <1>1, <1>2, PTL DEF Spec

\* The variables keep their types; a key has one session or one creation, and the
\* sessions are in a strict order.
THEOREM TypeCorrect == Spec => []TypeOK
BY Invariance, PTL

\* The pool never ends what it still hands out, whoever evicts, closes or is
\* cancelled: nobody has told the owner of a registered session to go, and it waits
\* unless its connection broke or its loop was closed.
THEOREM KeptEntries == Spec => []EntriesAreKept
<1>1. SessionInv => EntriesAreKept BY DEF SessionInv
<1> QED BY <1>1, Invariance, PTL

\* No owner task is lost but by a call that is cancelled while it waits for another
\* loop.
THEOREM OwnersAreKept == Spec => []NoOwnerLost
<1>1. SessionInv => NoOwnerLost BY DEF SessionInv
<1> QED BY <1>1, Invariance, PTL
=============================================================================
