--------------------------- MODULE OsalQueue_proofs ---------------------------
(***************************************************************************)
(* Theorems about OsalQueue, for any number of threads, objects and slots. *)
(***************************************************************************)
EXTENDS OsalQueue, FiniteSetTheorems, TLAPS

-----------------------------------------------------------------------------
(* Type correctness: TypeOK is inductive together with PushesObject. *)

Typed == TypeOK /\ PushesObject

LEMMA InitTyped == Init => Typed
BY ConstantsAssumption DEF Init, Typed, TypeOK, PushesObject, Labels, Statuses

LEMMA PushTyped ==
  ASSUME Typed, NEW t \in Threads, PushSteps(t)
  PROVE  Typed'
<1> USE DEF Typed, TypeOK, PushesObject, Labels, Statuses, Goto, AbandonObject
<1>1. CASE PushTakeSlot(t)    BY <1>1 DEF PushTakeSlot
<1>2. CASE PushGiveUp(t)      BY <1>2 DEF PushGiveUp, BlockedWaitStatuses
<1>3. CASE PushWaitFailed(t)  BY <1>3 DEF PushWaitFailed
<1>4. CASE PushInsert(t)      BY <1>4 DEF PushInsert
<1>5. CASE PushPost(t)        BY <1>5 DEF PushPost
<1>6. CASE PushOverflow(t)    BY <1>6 DEF PushOverflow
<1>7. CASE PushOverwrite(t)
  <2>1. WithoutReplaced \in Seq(Objs)
    BY DEF WithoutReplaced
  <2>2. list' \in Seq(Objs)
    BY <1>7, <2>1 DEF PushOverwrite
  <2> QED BY <1>7, <2>2 DEF PushOverwrite
<1>8. CASE PushInterrupted(t) BY <1>8 DEF PushInterrupted
<1>9. CASE PushUnlock(t)      BY <1>9 DEF PushUnlock
<1> QED
  BY <1>1, <1>2, <1>3, <1>4, <1>5, <1>6, <1>7, <1>8, <1>9 DEF PushSteps

LEMMA PullTyped ==
  ASSUME Typed, NEW t \in Threads, PullSteps(t)
  PROVE  Typed'
<1> USE DEF Typed, TypeOK, PushesObject, Labels, Statuses, Goto
<1>1. CASE PullTakeToken(t)  BY <1>1 DEF PullTakeToken
<1>2. CASE PullGiveUp(t)     BY <1>2 DEF PullGiveUp, BlockedWaitStatuses
<1>3. CASE PullWaitFailed(t) BY <1>3 DEF PullWaitFailed
<1>4. CASE PullUnderflow(t)  BY <1>4 DEF PullUnderflow
<1>5. CASE PullRemove(t)     BY <1>5 DEF PullRemove
<1>6. CASE PullPost(t)       BY <1>6 DEF PullPost
<1>7. CASE PullUnlock(t)     BY <1>7 DEF PullUnlock
<1>8. CASE Consume(t)        BY <1>8 DEF Consume
<1>9. CASE FlushFree(t)      BY <1>9 DEF FlushFree
<1> QED
  BY <1>1, <1>2, <1>3, <1>4, <1>5, <1>6, <1>7, <1>8, <1>9 DEF PullSteps

LEMMA CallTyped ==
  ASSUME Typed,
         \/ \E t \in Pushers, o \in Objs, timeout \in PushTimeouts :
              PushCall(t, o, timeout)
         \/ \E t \in Pullers, timeout \in PullTimeouts : PullCall(t, timeout)
         \/ \E t \in Flushers : FlushCall(t)
  PROVE  Typed'
<1> USE ConstantsAssumption
    DEF Typed, TypeOK, PushesObject, Labels, Statuses, Goto, Threads
<1>1. ASSUME NEW t \in Pushers, NEW o \in Objs, NEW timeout \in PushTimeouts,
             PushCall(t, o, timeout)
      PROVE  Typed'
  BY <1>1 DEF PushCall
<1>2. ASSUME NEW t \in Pullers, NEW timeout \in PullTimeouts, PullCall(t, timeout)
      PROVE  Typed'
  BY <1>2 DEF PullCall
<1>3. ASSUME NEW t \in Flushers, FlushCall(t)
      PROVE  Typed'
  BY <1>3 DEF FlushCall, FlushTimeout
<1> QED BY <1>1, <1>2, <1>3

LEMMA StepTyped == Typed /\ [Next]_vars => Typed'
<1> SUFFICES ASSUME Typed, [Next]_vars PROVE Typed'
  OBVIOUS
<1>1. CASE UNCHANGED vars
  BY <1>1 DEF vars, Typed, TypeOK, PushesObject
<1>2. CASE Next
  BY <1>2, PushTyped, PullTyped, CallTyped DEF Next
<1> QED BY <1>1, <1>2

(* Every variable of the queue keeps its type, and a producer that waits   *)
(* for a slot or for the mutex has an object to queue.                     *)
THEOREM TypeCorrect == Spec => [](TypeOK /\ PushesObject)
<1>1. Spec => []Typed
  BY InitTyped, StepTyped, PTL DEF Spec
<1> QED BY <1>1 DEF Typed

-----------------------------------------------------------------------------
(* Mutual exclusion: a thread in its critical section holds the mutex, so  *)
(* two of them are the same thread.                                        *)

InsideHolds == \A t \in Threads : InCritical(t) => mutex = t

LEMMA PushInside ==
  ASSUME Typed, InsideHolds, NEW t \in Threads, PushSteps(t)
  PROVE  InsideHolds'
<1> USE ConstantsAssumption
    DEF Typed, TypeOK, InsideHolds, InCritical, Labels, Goto, AbandonObject
<1>1. CASE PushTakeSlot(t)    BY <1>1 DEF PushTakeSlot
<1>2. CASE PushGiveUp(t)      BY <1>2 DEF PushGiveUp
<1>3. CASE PushWaitFailed(t)  BY <1>3 DEF PushWaitFailed
<1>4. CASE PushInsert(t)      BY <1>4 DEF PushInsert
<1>5. CASE PushPost(t)        BY <1>5 DEF PushPost
<1>6. CASE PushOverflow(t)    BY <1>6 DEF PushOverflow
<1>7. CASE PushOverwrite(t)   BY <1>7 DEF PushOverwrite
<1>8. CASE PushInterrupted(t) BY <1>8 DEF PushInterrupted
<1>9. CASE PushUnlock(t)      BY <1>9 DEF PushUnlock
<1> QED
  BY <1>1, <1>2, <1>3, <1>4, <1>5, <1>6, <1>7, <1>8, <1>9 DEF PushSteps

LEMMA PullInside ==
  ASSUME Typed, InsideHolds, NEW t \in Threads, PullSteps(t)
  PROVE  InsideHolds'
<1> USE ConstantsAssumption
    DEF Typed, TypeOK, InsideHolds, InCritical, Labels, Goto
<1>1. CASE PullTakeToken(t)  BY <1>1 DEF PullTakeToken
<1>2. CASE PullGiveUp(t)     BY <1>2 DEF PullGiveUp
<1>3. CASE PullWaitFailed(t) BY <1>3 DEF PullWaitFailed
<1>4. CASE PullUnderflow(t)  BY <1>4 DEF PullUnderflow
<1>5. CASE PullRemove(t)     BY <1>5 DEF PullRemove
<1>6. CASE PullPost(t)       BY <1>6 DEF PullPost
<1>7. CASE PullUnlock(t)     BY <1>7 DEF PullUnlock
<1>8. CASE Consume(t)        BY <1>8 DEF Consume
<1>9. CASE FlushFree(t)      BY <1>9 DEF FlushFree
<1> QED
  BY <1>1, <1>2, <1>3, <1>4, <1>5, <1>6, <1>7, <1>8, <1>9 DEF PullSteps

LEMMA StepInside == Typed /\ InsideHolds /\ [Next]_vars => InsideHolds'
<1> SUFFICES ASSUME Typed, InsideHolds, [Next]_vars PROVE InsideHolds'
  OBVIOUS
<1>1. CASE UNCHANGED vars
  BY <1>1 DEF vars, InsideHolds, InCritical
<1>2. CASE \E t \in Threads : PushSteps(t) \/ PullSteps(t)
  BY <1>2, PushInside, PullInside
<1>3. ASSUME NEW t \in Threads, pc' = [pc EXCEPT ![t] = "pushWait"], mutex' = mutex
      PROVE  InsideHolds'
  BY <1>3 DEF Typed, TypeOK, InsideHolds, InCritical
<1>4. ASSUME NEW t \in Threads, pc' = [pc EXCEPT ![t] = "pullWait"], mutex' = mutex
      PROVE  InsideHolds'
  BY <1>4 DEF Typed, TypeOK, InsideHolds, InCritical
<1> QED
  BY <1>1, <1>2, <1>3, <1>4
     DEF Next, PushCall, PullCall, FlushCall, Goto, Threads

(* Only one thread at a time touches the list, and it holds qMutex,        *)
(* whatever waits timed out or were interrupted before.                    *)
THEOREM MutexSafe == Spec => []MutualExclusion
<1>1. Init => InsideHolds
  BY DEF Init, InsideHolds, InCritical
<1>2. InsideHolds => MutualExclusion
  BY DEF InsideHolds, MutualExclusion
<1> QED
  BY <1>1, <1>2, StepInside, InitTyped, StepTyped, PTL DEF Spec

-----------------------------------------------------------------------------
(* Counting threads.  A step takes its thread out of one of the four sets  *)
(* of token holders, puts it into another, or both.                        *)

LEMMA HolderSets ==
  /\ IsFiniteSet(PushGrant) /\ Cardinality(PushGrant) \in Nat
  /\ IsFiniteSet(PushDone)  /\ Cardinality(PushDone) \in Nat
  /\ IsFiniteSet(PullGrant) /\ Cardinality(PullGrant) \in Nat
  /\ IsFiniteSet(PullDone)  /\ Cardinality(PullDone) \in Nat
<1>1. ASSUME NEW S \in SUBSET Threads
      PROVE  IsFiniteSet(S) /\ Cardinality(S) \in Nat
  BY <1>1, ConstantsAssumption, FS_Subset, FS_CardinalityType
<1> QED BY <1>1 DEF PushGrant, PushDone, PullGrant, PullDone

LEMMA Joins ==
  ASSUME NEW S, IsFiniteSet(S), NEW t, t \notin S
  PROVE  Cardinality(S \cup {t}) = Cardinality(S) + 1
BY FS_AddElement

LEMMA Leaves ==
  ASSUME NEW S, IsFiniteSet(S), NEW t \in S
  PROVE  /\ Cardinality(S) >= 1
         /\ Cardinality(S \ {t}) = Cardinality(S) - 1
<1>1. Cardinality(S \ {t}) \in Nat /\ Cardinality(S) \in Nat
  BY FS_RemoveElement, FS_CardinalityType
<1>2. Cardinality(S \ {t}) = Cardinality(S) - 1
  BY FS_RemoveElement
<1> QED BY <1>1, <1>2

(* What every step of the queue does to the token holders. *)
SlotTaken(t) ==
  /\ t \notin PushGrant /\ PushGrant' = PushGrant \cup {t}
  /\ semPush > 0 /\ semPush' = semPush - 1
  /\ UNCHANGED <<PushDone, PullGrant, PullDone, semPull, list, mode>>

ObjectInserted(t) ==
  /\ t \in PushGrant /\ PushGrant' = PushGrant \ {t}
  /\ t \notin PushDone /\ PushDone' = PushDone \cup {t}
  /\ list' = Append(list, obj[t])
  /\ UNCHANGED <<PullGrant, PullDone, semPush, semPull, mode>>

ObjectPosted(t) ==
  /\ t \in PushDone /\ PushDone' = PushDone \ {t}
  /\ semPull' = semPull + 1
  /\ UNCHANGED <<PushGrant, PullGrant, PullDone, semPush, list, mode>>

ObjectReplaced(t) ==
  /\ mode # "NO_OVERWRITE"
  /\ list' = Append(WithoutReplaced, obj[t])
  /\ UNCHANGED <<PushGrant, PushDone, PullGrant, PullDone, semPush, semPull, mode>>

TokenTaken(t) ==
  /\ t \notin PullGrant /\ PullGrant' = PullGrant \cup {t}
  /\ semPull > 0 /\ semPull' = semPull - 1
  /\ UNCHANGED <<PushGrant, PushDone, PullDone, semPush, list, mode>>

ObjectRemoved(t) ==
  /\ t \in PullGrant /\ PullGrant' = PullGrant \ {t}
  /\ t \notin PullDone /\ PullDone' = PullDone \cup {t}
  /\ list # <<>> /\ list' = Tail(list)
  /\ UNCHANGED <<PushGrant, PushDone, semPush, semPull, mode>>

SlotPosted(t) ==
  /\ t \in PullDone /\ PullDone' = PullDone \ {t}
  /\ semPush' = semPush + 1
  /\ UNCHANGED <<PushGrant, PushDone, PullGrant, semPull, list, mode>>

NothingCounted ==
  UNCHANGED <<PushGrant, PushDone, PullGrant, PullDone, semPush, semPull, list, mode>>

Effect(t) ==
  \/ SlotTaken(t) \/ ObjectInserted(t) \/ ObjectPosted(t) \/ ObjectReplaced(t)
  \/ TokenTaken(t) \/ ObjectRemoved(t) \/ SlotPosted(t) \/ NothingCounted

LEMMA PushEffect ==
  ASSUME Typed, NEW t \in Threads, PushSteps(t)
  PROVE  Effect(t)
<1> USE DEF Typed, TypeOK, Goto, AbandonObject,
            PushGrant, PushDone, PullGrant, PullDone
<1>1. CASE PushTakeSlot(t)
  <2>1. SlotTaken(t)  BY <1>1 DEF PushTakeSlot, SlotTaken
  <2> QED BY <2>1 DEF Effect
<1>2. CASE PushGiveUp(t)
  <2>1. NothingCounted
    BY <1>2 DEF PushGiveUp, BlockedWaitStatuses, NothingCounted
  <2> QED BY <2>1 DEF Effect
<1>3. CASE PushWaitFailed(t)
  <2>1. NothingCounted  BY <1>3 DEF PushWaitFailed, NothingCounted
  <2> QED BY <2>1 DEF Effect
<1>4. CASE PushInsert(t)
  <2>1. ObjectInserted(t)  BY <1>4 DEF PushInsert, ObjectInserted
  <2> QED BY <2>1 DEF Effect
<1>5. CASE PushPost(t)
  <2>1. ObjectPosted(t)  BY <1>5 DEF PushPost, ObjectPosted
  <2> QED BY <2>1 DEF Effect
<1>6. CASE PushOverflow(t)
  <2>1. NothingCounted  BY <1>6 DEF PushOverflow, NothingCounted
  <2> QED BY <2>1 DEF Effect
<1>7. CASE PushOverwrite(t)
  <2>1. ObjectReplaced(t)  BY <1>7 DEF PushOverwrite, ObjectReplaced
  <2> QED BY <2>1 DEF Effect
<1>8. CASE PushInterrupted(t)
  <2>1. NothingCounted  BY <1>8 DEF PushInterrupted, NothingCounted
  <2> QED BY <2>1 DEF Effect
<1>9. CASE PushUnlock(t)
  <2>1. NothingCounted  BY <1>9 DEF PushUnlock, NothingCounted
  <2> QED BY <2>1 DEF Effect
<1> QED
  BY <1>1, <1>2, <1>3, <1>4, <1>5, <1>6, <1>7, <1>8, <1>9 DEF PushSteps

LEMMA PullEffect ==
  ASSUME Typed, NEW t \in Threads, PullSteps(t)
  PROVE  Effect(t)
<1> USE DEF Typed, TypeOK, Goto, PushGrant, PushDone, PullGrant, PullDone
<1>1. CASE PullTakeToken(t)
  <2>1. TokenTaken(t)  BY <1>1 DEF PullTakeToken, TokenTaken
  <2> QED BY <2>1 DEF Effect
<1>2. CASE PullGiveUp(t)
  <2>1. NothingCounted
    BY <1>2 DEF PullGiveUp, BlockedWaitStatuses, NothingCounted
  <2> QED BY <2>1 DEF Effect
<1>3. CASE PullWaitFailed(t)
  <2>1. NothingCounted  BY <1>3 DEF PullWaitFailed, NothingCounted
  <2> QED BY <2>1 DEF Effect
<1>4. CASE PullUnderflow(t)
  <2>1. NothingCounted  BY <1>4 DEF PullUnderflow, NothingCounted
  <2> QED BY <2>1 DEF Effect
<1>5. CASE PullRemove(t)
  <2>1. ObjectRemoved(t)  BY <1>5 DEF PullRemove, ObjectRemoved
  <2> QED BY <2>1 DEF Effect
<1>6. CASE PullPost(t)
  <2>1. SlotPosted(t)  BY <1>6 DEF PullPost, SlotPosted
  <2> QED BY <2>1 DEF Effect
<1>7. CASE PullUnlock(t)
  <2>1. NothingCounted  BY <1>7 DEF PullUnlock, NothingCounted
  <2> QED BY <2>1 DEF Effect
<1>8. CASE Consume(t)
  <2>1. NothingCounted  BY <1>8 DEF Consume, NothingCounted
  <2> QED BY <2>1 DEF Effect
<1>9. CASE FlushFree(t)
  <2>1. NothingCounted  BY <1>9 DEF FlushFree, NothingCounted
  <2> QED BY <2>1 DEF Effect
<1> QED
  BY <1>1, <1>2, <1>3, <1>4, <1>5, <1>6, <1>7, <1>8, <1>9 DEF PullSteps

LEMMA StepEffect ==
  ASSUME Typed, [Next]_vars
  PROVE  NothingCounted \/ \E t \in Threads : Effect(t)
<1> USE DEF PushGrant, PushDone, PullGrant, PullDone, NothingCounted
<1>1. CASE UNCHANGED vars
  BY <1>1 DEF vars
<1>2. CASE \E t \in Threads : PushSteps(t) \/ PullSteps(t)
  BY <1>2, PushEffect, PullEffect
<1>3. ASSUME NEW t \in Pushers, NEW o \in Objs, NEW timeout \in PushTimeouts,
             PushCall(t, o, timeout)
      PROVE  NothingCounted
  BY <1>3 DEF PushCall, Goto, Typed, TypeOK
<1>4. ASSUME NEW t \in Pullers, NEW timeout \in PullTimeouts, PullCall(t, timeout)
      PROVE  NothingCounted
  BY <1>4 DEF PullCall, Goto, Typed, TypeOK
<1>5. ASSUME NEW t \in Flushers, FlushCall(t)
      PROVE  NothingCounted
  BY <1>5 DEF FlushCall, Goto, Typed, TypeOK
<1> QED BY <1>1, <1>2, <1>3, <1>4, <1>5 DEF Next

-----------------------------------------------------------------------------
(* The accounting, as one inductive invariant. *)

Accounts == TokenConservation /\ TokensBackedByObjects

LEMMA InitAccounts == Init => Accounts
<1> SUFFICES ASSUME Init PROVE Accounts
  OBVIOUS
<1>1. PushGrant = {} /\ PushDone = {} /\ PullGrant = {} /\ PullDone = {}
  BY DEF Init, PushGrant, PushDone, PullGrant, PullDone
<1>2. Cardinality({}) = 0
  BY FS_EmptySet
<1> QED
  BY <1>1, <1>2, ConstantsAssumption
     DEF Init, Accounts, TokenConservation, TokensBackedByObjects

LEMMA EffectAccounts ==
  ASSUME Typed, Accounts, NEW t \in Threads, Effect(t)
  PROVE  Accounts'
<1> DEFINE pushG == Cardinality(PushGrant)
           pushD == Cardinality(PushDone)
           pullG == Cardinality(PullGrant)
           pullD == Cardinality(PullDone)
<1> USE DEF Accounts, TokenConservation, TokensBackedByObjects
<1>0. /\ pushG \in Nat /\ pushD \in Nat /\ pullG \in Nat /\ pullD \in Nat
      /\ semPush \in Nat /\ semPull \in Nat /\ Len(list) \in Nat
      /\ list \in Seq(Objs)
  BY HolderSets DEF Typed, TypeOK
<1>1. CASE SlotTaken(t)
  <2>1. pushG' = pushG + 1
    BY <1>1, Joins, HolderSets DEF SlotTaken
  <2>2. /\ pushD' = pushD /\ pullG' = pullG /\ pullD' = pullD
        /\ semPush' = semPush - 1
        /\ UNCHANGED <<semPull, list, mode>>
    BY <1>1 DEF SlotTaken
  <2> QED BY <1>0, <2>1, <2>2
<1>2. CASE ObjectInserted(t)
  <2>1. pushG' = pushG - 1
    BY <1>2, Leaves, HolderSets DEF ObjectInserted
  <2>2. pushD' = pushD + 1
    BY <1>2, Joins, HolderSets DEF ObjectInserted
  <2>3. Len(list)' = Len(list) + 1
    <3>1. obj[t] \in Objs
      BY <1>2 DEF ObjectInserted, PushGrant, Typed, PushesObject
    <3> QED BY <1>0, <1>2, <3>1 DEF ObjectInserted
  <2>4. /\ pullG' = pullG /\ pullD' = pullD
        /\ UNCHANGED <<semPush, semPull, mode>>
    BY <1>2 DEF ObjectInserted
  <2>5. TokenConservation'  BY <1>0, <2>1, <2>2, <2>4
  <2>6. (semPull + pullG + pushD)' = semPull + pullG + pushD + 1
    BY <1>0, <2>2, <2>4
  <2>7. Len(list) >= semPull + pullG + pushD
    OBVIOUS
  <2>8. Len(list)' >= (semPull + pullG + pushD)'
    BY <1>0, <2>3, <2>6, <2>7
  <2>9. (mode = "NO_OVERWRITE" => Len(list) = (semPull + pullG + pushD))'
    BY <1>0, <2>3, <2>4, <2>6
  <2>10. TokensBackedByObjects'
    BY <2>8, <2>9
  <2> QED BY <2>5, <2>10
<1>3. CASE ObjectPosted(t)
  <2>1. pushD' = pushD - 1
    BY <1>3, Leaves, HolderSets DEF ObjectPosted
  <2>2. /\ pushG' = pushG /\ pullG' = pullG /\ pullD' = pullD
        /\ semPull' = semPull + 1
        /\ UNCHANGED <<semPush, list, mode>>
    BY <1>3 DEF ObjectPosted
  <2>3. TokenConservation'  BY <1>0, <2>1, <2>2
  <2>4. TokensBackedByObjects'  BY SMTT(30), <1>0, <2>1, <2>2
  <2> QED BY <2>3, <2>4
<1>4. CASE ObjectReplaced(t)
  <2>1. Len(list)' >= Len(list) /\ Len(list)' \in Nat
    <3>1. /\ WithoutReplaced \in Seq(Objs) /\ Len(WithoutReplaced) \in Nat
          /\ Len(WithoutReplaced) + 1 >= Len(list)
      BY <1>0 DEF WithoutReplaced
    <3>2. Len(list') = Len(WithoutReplaced) + 1
      BY <1>4, <3>1 DEF ObjectReplaced
    <3> QED BY <1>0, <3>1, <3>2
  <2>2. /\ pushG' = pushG /\ pushD' = pushD /\ pullG' = pullG /\ pullD' = pullD
        /\ mode # "NO_OVERWRITE"
        /\ UNCHANGED <<semPush, semPull, mode>>
    BY <1>4 DEF ObjectReplaced
  <2> QED BY <1>0, <2>1, <2>2
<1>5. CASE TokenTaken(t)
  <2>1. pullG' = pullG + 1
    BY <1>5, Joins, HolderSets DEF TokenTaken
  <2>2. /\ pushG' = pushG /\ pushD' = pushD /\ pullD' = pullD
        /\ semPull' = semPull - 1
        /\ UNCHANGED <<semPush, list, mode>>
    BY <1>5 DEF TokenTaken
  <2> QED BY SMTT(30), <1>0, <2>1, <2>2
<1>6. CASE ObjectRemoved(t)
  <2>1. pullG' = pullG - 1
    BY <1>6, Leaves, HolderSets DEF ObjectRemoved
  <2>2. pullD' = pullD + 1
    BY <1>6, Joins, HolderSets DEF ObjectRemoved
  <2>3. Len(list)' = Len(list) - 1
    BY <1>0, <1>6 DEF ObjectRemoved
  <2>4. /\ pushG' = pushG /\ pushD' = pushD
        /\ UNCHANGED <<semPush, semPull, mode>>
    BY <1>6 DEF ObjectRemoved
  <2>5. TokenConservation'  BY <1>0, <2>1, <2>2, <2>4
  <2>6. (semPull + pullG + pushD)' = semPull + pullG + pushD - 1
    BY <1>0, <2>1, <2>4
  <2>7. Len(list) >= semPull + pullG + pushD
    OBVIOUS
  <2>8. Len(list)' >= (semPull + pullG + pushD)'
    BY <1>0, <2>3, <2>6, <2>7
  <2>9. (mode = "NO_OVERWRITE" => Len(list) = (semPull + pullG + pushD))'
    BY SMTT(30), <1>0, <2>3, <2>4, <2>6
  <2>10. TokensBackedByObjects'
    BY <2>8, <2>9
  <2> QED BY <2>5, <2>10
<1>7. CASE SlotPosted(t)
  <2>1. pullD' = pullD - 1
    BY <1>7, Leaves, HolderSets DEF SlotPosted
  <2>2. /\ pushG' = pushG /\ pushD' = pushD /\ pullG' = pullG
        /\ semPush' = semPush + 1
        /\ UNCHANGED <<semPull, list, mode>>
    BY <1>7 DEF SlotPosted
  <2> QED BY <1>0, <2>1, <2>2
<1>8. CASE NothingCounted
  BY <1>8 DEF NothingCounted
<1> QED
  BY <1>1, <1>2, <1>3, <1>4, <1>5, <1>6, <1>7, <1>8 DEF Effect

LEMMA StepAccounts == Typed /\ Accounts /\ [Next]_vars => Accounts'
<1> SUFFICES ASSUME Typed, Accounts, [Next]_vars PROVE Accounts'
  OBVIOUS
<1>1. CASE NothingCounted
  BY <1>1 DEF NothingCounted, Accounts, TokenConservation, TokensBackedByObjects
<1> QED BY <1>1, StepEffect, EffectAccounts

LEMMA Accounted == Spec => [](Typed /\ Accounts)
BY InitTyped, StepTyped, InitAccounts, StepAccounts, PTL DEF Spec

(* No timeout, overflow, overwrite or failed wait loses or invents a slot. *)
THEOREM SlotsConserved == Spec => []TokenConservation
<1>1. Accounts => TokenConservation
  BY DEF Accounts
<1> QED BY <1>1, Accounted, PTL

(* A consumer past its semPull wait always finds an object in the list.    *)
THEOREM TokensBacked == Spec => []TokensBackedByObjects
<1>1. Accounts => TokensBackedByObjects
  BY DEF Accounts
<1> QED BY <1>1, Accounted, PTL

-----------------------------------------------------------------------------
(* Refinement.  Without overwriting, an insertion happens while the        *)
(* producer holds one of the slots the accounting covers, so the list is   *)
(* shorter than the queue length at that moment.                           *)

LEMMA EffectRefines ==
  ASSUME Typed, Accounts, mode = "NO_OVERWRITE", NEW t \in Threads, Effect(t)
  PROVE  [Fifo!Next]_list
<1> USE DEF Fifo!Next, Fifo!Get, Fifo!Put
<1>1. CASE ObjectInserted(t)
  <2>1. obj[t] \in Objs
    BY <1>1 DEF ObjectInserted, PushGrant, Typed, PushesObject
  <2>2. Cardinality(PushGrant) >= 1
    BY <1>1, Leaves, HolderSets DEF ObjectInserted
  <2>3. Len(list) < QLength
    BY <2>2, HolderSets, ConstantsAssumption
       DEF Accounts, TokenConservation, TokensBackedByObjects, Typed, TypeOK
  <2> QED BY <1>1, <2>1, <2>3 DEF ObjectInserted
<1>2. CASE ObjectRemoved(t)
  BY <1>2 DEF ObjectRemoved
<1>3. CASE ObjectReplaced(t)
  BY <1>3 DEF ObjectReplaced
<1>4. CASE list' = list
  BY <1>4
<1> QED
  BY <1>1, <1>2, <1>3, <1>4
     DEF Effect, SlotTaken, ObjectPosted, TokenTaken, SlotPosted, NothingCounted

(* A queue created with PHOSAL_QUEUE_NO_OVERWRITE, the mode both queues of *)
(* the library use, is a FIFO of at most wQLength objects however its      *)
(* producers, its consumers and their timeouts interleave.                 *)
THEOREM QueueIsFifo ==
  ASSUME Modes = {"NO_OVERWRITE"}
  PROVE  Spec => FifoSpec
<1>1. Init => Fifo!Init
  BY DEF Init, Fifo!Init
<1>2. Typed /\ Accounts /\ [Next]_vars => [Fifo!Next]_list
  <2> SUFFICES ASSUME Typed, Accounts, [Next]_vars PROVE [Fifo!Next]_list
    OBVIOUS
  <2>1. mode = "NO_OVERWRITE"
    BY DEF Typed, TypeOK
  <2>2. CASE NothingCounted
    BY <2>2 DEF NothingCounted
  <2> QED BY <2>1, <2>2, StepEffect, EffectRefines
<1> QED
  BY <1>1, <1>2, Accounted, PTL DEF Spec, FifoSpec, Fifo!Spec

-----------------------------------------------------------------------------
(* The mutex outside the critical section.  Only a wait that a signal       *)
(* interrupted lets a producer return without unlocking, so without such   *)
(* waits no thread has the status that leads there.                        *)

NoneInterrupted == \A t \in Threads : st[t] # "INVALID_PARAMS"

LockInv == NoneInterrupted /\ LockHeldOnlyInside

LEMMA PushLocks ==
  ASSUME Interruptible = FALSE, Typed, LockInv, NEW t \in Threads, PushSteps(t)
  PROVE  LockInv'
<1> USE ConstantsAssumption
    DEF Typed, TypeOK, LockInv, NoneInterrupted, LockHeldOnlyInside, InCritical,
        Labels, Goto, AbandonObject
<1>1. CASE PushTakeSlot(t)    BY <1>1 DEF PushTakeSlot
<1>2. CASE PushGiveUp(t)      BY <1>2 DEF PushGiveUp, BlockedWaitStatuses
<1>3. CASE PushWaitFailed(t)  BY <1>3 DEF PushWaitFailed
<1>4. CASE PushInsert(t)      BY <1>4 DEF PushInsert
<1>5. CASE PushPost(t)        BY <1>5 DEF PushPost
<1>6. CASE PushOverflow(t)    BY <1>6 DEF PushOverflow
<1>7. CASE PushOverwrite(t)   BY <1>7 DEF PushOverwrite
<1>8. CASE PushInterrupted(t) BY <1>8 DEF PushInterrupted
<1>9. CASE PushUnlock(t)      BY <1>9 DEF PushUnlock
<1> QED
  BY <1>1, <1>2, <1>3, <1>4, <1>5, <1>6, <1>7, <1>8, <1>9 DEF PushSteps

LEMMA PullLocks ==
  ASSUME Interruptible = FALSE, Typed, LockInv, NEW t \in Threads, PullSteps(t)
  PROVE  LockInv'
<1> USE ConstantsAssumption
    DEF Typed, TypeOK, LockInv, NoneInterrupted, LockHeldOnlyInside, InCritical,
        Labels, Goto
<1>1. CASE PullTakeToken(t)  BY <1>1 DEF PullTakeToken
<1>2. CASE PullGiveUp(t)     BY <1>2 DEF PullGiveUp, BlockedWaitStatuses
<1>3. CASE PullWaitFailed(t) BY <1>3 DEF PullWaitFailed
<1>4. CASE PullUnderflow(t)  BY <1>4 DEF PullUnderflow
<1>5. CASE PullRemove(t)     BY <1>5 DEF PullRemove
<1>6. CASE PullPost(t)       BY <1>6 DEF PullPost
<1>7. CASE PullUnlock(t)     BY <1>7 DEF PullUnlock
<1>8. CASE Consume(t)        BY <1>8 DEF Consume
<1>9. CASE FlushFree(t)      BY <1>9 DEF FlushFree
<1> QED
  BY <1>1, <1>2, <1>3, <1>4, <1>5, <1>6, <1>7, <1>8, <1>9 DEF PullSteps

LEMMA StepLocks ==
  ASSUME Interruptible = FALSE
  PROVE  Typed /\ LockInv /\ [Next]_vars => LockInv'
<1> SUFFICES ASSUME Typed, LockInv, [Next]_vars PROVE LockInv'
  OBVIOUS
<1>1. CASE UNCHANGED vars
  BY <1>1 DEF vars, LockInv, NoneInterrupted, LockHeldOnlyInside, InCritical
<1>2. CASE \E t \in Threads : PushSteps(t) \/ PullSteps(t)
  BY <1>2, PushLocks, PullLocks
<1>3. ASSUME NEW t \in Threads, pc[t] = "idle", UNCHANGED <<st, mutex>>,
             \/ pc' = [pc EXCEPT ![t] = "pushWait"]
             \/ pc' = [pc EXCEPT ![t] = "pullWait"]
      PROVE  LockInv'
  BY <1>3 DEF Typed, TypeOK, LockInv, NoneInterrupted, LockHeldOnlyInside, InCritical
<1> QED
  BY <1>1, <1>2, <1>3
     DEF Next, PushCall, PullCall, FlushCall, Goto, Threads

(* When no signal interrupts a wait, every path through push, pull and     *)
(* flush leaves qMutex unlocked behind it.                                 *)
THEOREM LockReleased ==
  ASSUME Interruptible = FALSE
  PROVE  Spec => []LockHeldOnlyInside
<1>1. Init => LockInv
  BY DEF Init, LockInv, NoneInterrupted, LockHeldOnlyInside
<1>2. LockInv => LockHeldOnlyInside
  BY DEF LockInv
<1> QED
  BY <1>1, <1>2, InitTyped, StepTyped, StepLocks, PTL DEF Spec

-----------------------------------------------------------------------------
(* Ownership of objects.  The objects of a sequence, and what the list     *)
(* operations of push and pull do to them.                                 *)

Queued(s) == {s[i] : i \in DOMAIN s}
Distinct(s) == \A i, j \in DOMAIN s : s[i] = s[j] => i = j

LEMMA AppendQueues ==
  ASSUME NEW s \in Seq(Objs), Distinct(s), NEW o \in Objs, o \notin Queued(s)
  PROVE  /\ Distinct(Append(s, o))
         /\ Queued(Append(s, o)) = Queued(s) \cup {o}
<1>1. /\ DOMAIN s = 1 .. Len(s) /\ Len(s) \in Nat
      /\ DOMAIN Append(s, o) = 1 .. Len(s) + 1
      /\ \A i \in 1 .. Len(s) : Append(s, o)[i] = s[i]
      /\ Append(s, o)[Len(s) + 1] = o
  OBVIOUS
<1>2. Distinct(Append(s, o))
  BY <1>1 DEF Distinct, Queued
<1>3. Queued(Append(s, o)) = Queued(s) \cup {o}
  BY <1>1 DEF Queued
<1> QED BY <1>2, <1>3

LEMMA TailQueues ==
  ASSUME NEW s \in Seq(Objs), Distinct(s), s # <<>>
  PROVE  /\ Tail(s) \in Seq(Objs)
         /\ Distinct(Tail(s))
         /\ Head(s) \in Queued(s)
         /\ Queued(Tail(s)) = Queued(s) \ {Head(s)}
<1>1. /\ DOMAIN s = 1 .. Len(s) /\ Len(s) \in Nat /\ Len(s) >= 1
      /\ Tail(s) \in Seq(Objs)
      /\ DOMAIN Tail(s) = 1 .. Len(s) - 1
      /\ \A i \in 1 .. Len(s) - 1 : Tail(s)[i] = s[i + 1]
      /\ Head(s) = s[1]
  OBVIOUS
<1>2. Distinct(Tail(s))
  BY <1>1 DEF Distinct
<1>3. ASSUME NEW i \in DOMAIN s, s[i] # Head(s)
      PROVE  s[i] \in Queued(Tail(s))
  <2>1. i - 1 \in DOMAIN Tail(s) /\ Tail(s)[i - 1] = s[i]
    BY <1>1, <1>3
  <2> QED BY <2>1 DEF Queued
<1>4. Queued(Tail(s)) \subseteq Queued(s) \ {Head(s)}
  BY <1>1 DEF Queued, Distinct
<1>5. Head(s) \in Queued(s)
  BY <1>1 DEF Queued
<1> QED BY SMTT(30), <1>1, <1>2, <1>3, <1>4, <1>5 DEF Queued

LEMMA ReplacedQueues ==
  ASSUME Typed, Distinct(list)
  PROVE  /\ WithoutReplaced \in Seq(Objs)
         /\ Distinct(WithoutReplaced)
         /\ Queued(WithoutReplaced) \subseteq Queued(list)
<1>1. list \in Seq(Objs)
  BY DEF Typed, TypeOK
<1>2. CASE list = <<>> \/ mode = "OVERWRITE_OLDEST"
  BY <1>1, <1>2, TailQueues DEF WithoutReplaced
<1>3. CASE list # <<>> /\ mode # "OVERWRITE_OLDEST"
  <2>1. /\ Len(list) \in Nat /\ Len(list) >= 1 /\ DOMAIN list = 1 .. Len(list)
        /\ WithoutReplaced \in Seq(Objs)
        /\ DOMAIN WithoutReplaced = 1 .. Len(list) - 1
        /\ \A i \in 1 .. Len(list) - 1 : WithoutReplaced[i] = list[i]
    BY <1>1, <1>3 DEF WithoutReplaced
  <2> QED BY <2>1 DEF Distinct, Queued
<1> QED BY <1>2, <1>3

(* SingleOwner in terms of the queued objects, with the parts it takes to  *)
(* carry it over a step: nobody flushes, and what a producer is about to   *)
(* queue is its own.                                                       *)

NobodyFlushes == \A t \in Threads : ~flushing[t] /\ pc[t] # "flushFree"

ListOwned == Distinct(list) /\ Queued(list) \subseteq live

HeldOwned ==
  \A t \in Threads : Holds(t) =>
    /\ obj[t] \in live \ Queued(list)
    /\ \A u \in Threads \ {t} : Holds(u) => obj[u] # obj[t]

Ownership == NobodyFlushes /\ ListOwned /\ HeldOwned

LEMMA PushOwns ==
  ASSUME Typed, Ownership, NEW t \in Threads, PushSteps(t)
  PROVE  Ownership'
<1> USE DEF Typed, TypeOK, PushesObject, Ownership, NobodyFlushes, ListOwned,
            HeldOwned, Holds, Labels, Goto, AbandonObject
<1>1. CASE PushTakeSlot(t)    BY <1>1 DEF PushTakeSlot
<1>2. CASE PushGiveUp(t)      BY <1>2 DEF PushGiveUp
<1>3. CASE PushWaitFailed(t)  BY <1>3 DEF PushWaitFailed
<1>4. CASE PushInsert(t)
  <2>1. Distinct(list') /\ Queued(list') = Queued(list) \cup {obj[t]}
    BY <1>4, AppendQueues DEF PushInsert
  <2> QED BY <1>4, <2>1 DEF PushInsert
<1>5. CASE PushPost(t)        BY <1>5 DEF PushPost
<1>6. CASE PushOverflow(t)    BY <1>6 DEF PushOverflow
<1>7. CASE PushOverwrite(t)
  <2>1. /\ obj[t] \in Objs /\ obj[t] \notin Queued(WithoutReplaced)
        /\ Queued(WithoutReplaced) \subseteq Queued(list)
    BY <1>7, ReplacedQueues DEF PushOverwrite
  <2>2. Distinct(list') /\ Queued(list') = Queued(WithoutReplaced) \cup {obj[t]}
    BY <1>7, <2>1, ReplacedQueues, AppendQueues DEF PushOverwrite
  <2>3. live' = live \ (Queued(list) \ Queued(WithoutReplaced))
    BY <1>7 DEF PushOverwrite, Queued
  <2>4. Holds(t)
    BY <1>7 DEF PushOverwrite
  <2>5. ListOwned'
    <3>1. obj[t] \in live \ Queued(list) /\ Queued(list) \subseteq live
      BY <2>4
    <3>2. Queued(list') \subseteq live'
      BY <2>1, <2>2, <2>3, <3>1
    <3> QED BY <2>2, <3>2 DEF ListOwned
  <2>6. HeldOwned'
    <3>1. \A u \in Threads : Holds(u)' => u # t /\ Holds(u) /\ obj'[u] = obj[u]
      BY <1>7 DEF PushOverwrite
    <3> QED BY <2>1, <2>2, <2>3, <2>4, <3>1
  <2> QED BY SMTT(30), <1>7, <2>5, <2>6 DEF PushOverwrite
<1>8. CASE PushInterrupted(t) BY <1>8 DEF PushInterrupted
<1>9. CASE PushUnlock(t)      BY <1>9 DEF PushUnlock
<1> QED
  BY <1>1, <1>2, <1>3, <1>4, <1>5, <1>6, <1>7, <1>8, <1>9 DEF PushSteps

LEMMA PullOwns ==
  ASSUME Typed, Ownership, NEW t \in Threads, PullSteps(t)
  PROVE  Ownership'
<1> USE DEF Typed, TypeOK, Ownership, NobodyFlushes, ListOwned, HeldOwned, Holds,
            Labels, Goto
<1>1. CASE PullTakeToken(t)  BY <1>1 DEF PullTakeToken
<1>2. CASE PullGiveUp(t)     BY <1>2 DEF PullGiveUp
<1>3. CASE PullWaitFailed(t) BY <1>3 DEF PullWaitFailed
<1>4. CASE PullUnderflow(t)  BY <1>4 DEF PullUnderflow
<1>5. CASE PullRemove(t)
  <2>1. /\ Distinct(list') /\ Head(list) \in Queued(list)
        /\ Queued(list') = Queued(list) \ {Head(list)}
    BY <1>5, TailQueues DEF PullRemove
  <2> QED BY <1>5, <2>1 DEF PullRemove
<1>6. CASE PullPost(t)       BY <1>6 DEF PullPost
<1>7. CASE PullUnlock(t)     BY <1>7 DEF PullUnlock
<1>8. CASE Consume(t)        BY <1>8 DEF Consume
<1>9. CASE FlushFree(t)      BY <1>9 DEF FlushFree
<1> QED
  BY <1>1, <1>2, <1>3, <1>4, <1>5, <1>6, <1>7, <1>8, <1>9 DEF PullSteps

LEMMA StepOwns ==
  ASSUME Flushers = {}
  PROVE  Typed /\ Ownership /\ [Next]_vars => Ownership'
<1> SUFFICES ASSUME Typed, Ownership, [Next]_vars PROVE Ownership'
  OBVIOUS
<1> USE DEF Typed, TypeOK, Ownership, NobodyFlushes, ListOwned, HeldOwned, Holds
<1>1. CASE UNCHANGED vars
  BY <1>1 DEF vars
<1>2. CASE \E t \in Threads : PushSteps(t) \/ PullSteps(t)
  BY <1>2, PushOwns, PullOwns
<1>3. ASSUME NEW t \in Pushers, NEW o \in Objs, NEW timeout \in PushTimeouts,
             PushCall(t, o, timeout)
      PROVE  Ownership'
  <2>1. t \in Threads /\ o \notin Queued(list)
    BY <1>3 DEF PushCall, Threads
  <2> QED BY <1>3, <2>1 DEF PushCall, Goto
<1>4. ASSUME NEW t \in Pullers, NEW timeout \in PullTimeouts, PullCall(t, timeout)
      PROVE  Ownership'
  BY <1>4 DEF PullCall, Goto, Threads
<1> QED BY <1>1, <1>2, <1>3, <1>4 DEF Next

(* Where nobody flushes the queue, an object is at every moment in one     *)
(* place, the list or the hands of one thread, and it is allocated there,  *)
(* also when producers overwrite and waits time out or fail.               *)
THEOREM OneOwner ==
  ASSUME Flushers = {}
  PROVE  Spec => []SingleOwner
<1>1. Init => Ownership
  BY DEF Init, Ownership, NobodyFlushes, ListOwned, HeldOwned, Holds, Queued, Distinct
<1>2. Ownership => SingleOwner
  BY DEF Ownership, ListOwned, HeldOwned, SingleOwner, Queued, Distinct
<1> QED
  BY <1>1, <1>2, InitTyped, StepTyped, StepOwns, PTL DEF Spec

=============================================================================
