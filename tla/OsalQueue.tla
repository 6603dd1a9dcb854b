------------------------------ MODULE OsalQueue ------------------------------
(***************************************************************************)
(* The bounded queue of the OSAL (phOsal_Queue.c on phDTAOSALAndroid.c):   *)
(* two counting semaphores, a mutex and a linked list.  semPush counts the *)
(* empty slots, semPull the objects ready for a consumer, and the list is  *)
(* only touched with qMutex held.  Every thread runs phOsal_QueuePush,     *)
(* phOsal_QueuePull or phOsal_QueueFlush one step at a time; a step ends   *)
(* at each operation on a semaphore or on the mutex, because that is where *)
(* another thread can get in.                                              *)
(*                                                                         *)
(* The list is its sequence of data pointers, head first; OsalLinkList     *)
(* shows that the pointer structure behaves like that sequence under the   *)
(* calls made here.  Objects are heap blocks: `live' is the set allocated  *)
(* and not yet freed.                                                      *)
(***************************************************************************)
EXTENDS Naturals, Sequences, FiniteSets

CONSTANTS
  Pushers,       \* threads that call phOsal_QueuePush
  Pullers,       \* threads that call phOsal_QueuePull and free what they get
  Flushers,      \* threads that call phOsal_QueueFlush
  Objs,          \* heap addresses of queue objects
  QLength,       \* wQLength given to phOsal_QueueCreate
  Modes,         \* values of eOverwriteMode the queue may be created with
  PushTimeouts,  \* uwTimeoutMs of the pushes, 0 is wait forever
  PullTimeouts,  \* uwTimeoutMs of the pulls
  Interruptible, \* TRUE when a signal handler may interrupt sem_wait (EINTR)
  NULL,          \* the null pointer
  Junk,          \* what an uninitialised local pointer holds
  NoThread       \* mutex value: not locked

Threads == Pushers \cup Pullers \cup Flushers

AllModes == {"NO_OVERWRITE", "OVERWRITE_OLDEST", "OVERWRITE_NEWEST"}

Labels == {"idle",
           "pushWait", "pushLock", "pushPost", "pushUnlock",
           "pullWait", "pullLock", "pullPost", "pullUnlock", "pulled",
           "flushFree"}

Statuses == {"SUCCESS", "SEM_TIMEOUT", "INVALID_PARAMS"}

ASSUME ConstantsAssumption ==
  /\ IsFiniteSet(Threads)
  /\ NoThread \notin Threads
  /\ NULL \notin Objs /\ Junk \notin Objs
  /\ QLength \in Nat \ {0}
  /\ Modes \subseteq AllModes
  /\ PushTimeouts \subseteq Nat /\ PullTimeouts \subseteq Nat
  /\ Interruptible \in BOOLEAN

VARIABLES
  mode,      \* eOverwriteMode, fixed at creation
  list,      \* data pointers of linkListHdl, head first
  semPush,   \* value of semPush
  semPull,   \* value of semPull
  mutex,     \* holder of qMutex
  live,      \* allocated objects
  pc,        \* where each thread is
  st,        \* dwStatus of each thread after its semaphore wait
  ms,        \* uwTimeoutMs of each thread's call
  obj,       \* pushed object, or the local the pull writes to
  flushing   \* the pull is one of phOsal_QueueFlush's

vars == <<mode, list, semPush, semPull, mutex, live, pc, st, ms, obj, flushing>>

-----------------------------------------------------------------------------
(* phOsal_QueueCreate: semPush starts at the queue length, semPull at 0. *)
Init ==
  /\ mode \in Modes
  /\ list = <<>>
  /\ semPush = QLength
  /\ semPull = 0
  /\ mutex = NoThread
  /\ live = {}
  /\ pc = [t \in Threads |-> "idle"]
  /\ st = [t \in Threads |-> "SUCCESS"]
  /\ ms = [t \in Threads |-> 0]
  /\ obj = [t \in Threads |-> NULL]
  /\ flushing = [t \in Threads |-> FALSE]

Goto(t, label) == pc' = [pc EXCEPT ![t] = label]

(* What phOsal_SemaphoreWait may return to a thread that found the count   *)
(* at 0.  sem_wait stopped by a signal is INVALID_PARAMS.  sem_timedwait   *)
(* restarts after a signal; the code adds (timeout % 1000) milliseconds to *)
(* tv_nsec without a carry into tv_sec, so a timeout that is not a whole   *)
(* number of seconds can give tv_nsec >= 10^9, which is EINVAL: FAILED.    *)
BlockedWaitStatuses(timeout) ==
  IF timeout = 0
  THEN IF Interruptible THEN {"INVALID_PARAMS"} ELSE {}
  ELSE {"SEM_TIMEOUT"} \cup IF timeout % 1000 = 0 THEN {} ELSE {"FAILED"}

(* phOsal_QueueFlush pulls with a timeout of 1 ms. *)
FlushTimeout == 1

-----------------------------------------------------------------------------
(* phOsal_QueuePush *)

(* A caller allocates an object and pushes it. *)
PushCall(t, o, timeout) ==
  /\ pc[t] = "idle"
  /\ o \notin live
  /\ live' = live \cup {o}
  /\ obj' = [obj EXCEPT ![t] = o]
  /\ ms' = [ms EXCEPT ![t] = timeout]
  /\ Goto(t, "pushWait")
  /\ UNCHANGED <<mode, list, semPush, semPull, mutex, st, flushing>>

(* The wait for an empty slot succeeds. *)
PushTakeSlot(t) ==
  /\ pc[t] = "pushWait"
  /\ semPush > 0
  /\ semPush' = semPush - 1
  /\ st' = [st EXCEPT ![t] = "SUCCESS"]
  /\ Goto(t, "pushLock")
  /\ UNCHANGED <<mode, list, semPull, mutex, live, ms, obj, flushing>>

(* The wait ends without a slot, and the code goes on to the mutex. *)
PushGiveUp(t) ==
  /\ pc[t] = "pushWait"
  /\ semPush = 0
  /\ \E s \in BlockedWaitStatuses(ms[t]) \ {"FAILED"} :
       st' = [st EXCEPT ![t] = s]
  /\ Goto(t, "pushLock")
  /\ UNCHANGED <<mode, list, semPush, semPull, mutex, live, ms, obj, flushing>>

(* A call that did not queue its object returns; its caller keeps no other *)
(* reference to the object, which leaves `live'.                           *)
AbandonObject(t) ==
  /\ live' = live \ {obj[t]}
  /\ Goto(t, "idle")

(* The wait reports OSALSTATUS_FAILED: return before the mutex. *)
PushWaitFailed(t) ==
  /\ pc[t] = "pushWait"
  /\ semPush = 0
  /\ "FAILED" \in BlockedWaitStatuses(ms[t])
  /\ AbandonObject(t)
  /\ UNCHANGED <<mode, list, semPush, semPull, mutex, st, ms, obj, flushing>>

(* Mutant of PushInsert: the list is touched without the mutex. *)
PushInsertUnlocked(t) ==
  /\ pc[t] = "pushLock"
  /\ st[t] = "SUCCESS"
  /\ mutex' = t
  /\ list' = Append(list, obj[t])
  /\ Goto(t, "pushPost")
  /\ UNCHANGED <<mode, semPush, semPull, live, st, ms, obj, flushing>>

(* Mutant of PushInsert: PHOSAL_LIST_POS_HEAD instead of POS_TAIL. *)
PushInsertAtHead(t) ==
  /\ pc[t] = "pushLock"
  /\ st[t] = "SUCCESS"
  /\ mutex = NoThread
  /\ mutex' = t
  /\ list' = <<obj[t]>> \o list
  /\ Goto(t, "pushPost")
  /\ UNCHANGED <<mode, semPush, semPull, live, st, ms, obj, flushing>>

(* With a slot: lock, insert at the tail. *)
PushInsert(t) ==
  /\ pc[t] = "pushLock"
  /\ st[t] = "SUCCESS"
  /\ mutex = NoThread
  /\ mutex' = t
  /\ list' = Append(list, obj[t])
  /\ Goto(t, "pushPost")
  /\ UNCHANGED <<mode, semPush, semPull, live, st, ms, obj, flushing>>

(* Mutant of PushPost: the post on semPull is forgotten. *)
PushPostForgotten(t) ==
  /\ pc[t] = "pushPost"
  /\ Goto(t, "pushUnlock")
  /\ UNCHANGED <<mode, list, semPush, semPull, mutex, live, st, ms, obj, flushing>>

(* Announce the object to the consumers. *)
PushPost(t) ==
  /\ pc[t] = "pushPost"
  /\ semPull' = semPull + 1
  /\ Goto(t, "pushUnlock")
  /\ UNCHANGED <<mode, list, semPush, mutex, live, st, ms, obj, flushing>>

(* Overflow of a queue that does not overwrite: lock, unlock, Q_OVERFLOW. *)
PushOverflow(t) ==
  /\ pc[t] = "pushLock"
  /\ st[t] = "SEM_TIMEOUT"
  /\ mode = "NO_OVERWRITE"
  /\ mutex = NoThread
  /\ AbandonObject(t)
  /\ UNCHANGED <<mode, list, semPush, semPull, mutex, st, ms, obj, flushing>>

(* The list after removing the node an overwriting push replaces; removing *)
(* from an empty list fails and changes nothing.                           *)
WithoutReplaced ==
  IF list = <<>> THEN <<>>
  ELSE IF mode = "OVERWRITE_OLDEST" THEN Tail(list)
  ELSE SubSeq(list, 1, Len(list) - 1)

(* Mutant of PushOverwrite: an end is removed and nothing inserted. *)
PushOverwriteNothing(t) ==
  /\ pc[t] = "pushLock"
  /\ st[t] = "SEM_TIMEOUT"
  /\ mode # "NO_OVERWRITE"
  /\ mutex = NoThread
  /\ mutex' = t
  /\ list' = WithoutReplaced
  /\ Goto(t, "pushUnlock")
  /\ UNCHANGED <<mode, semPush, semPull, live, st, ms, obj, flushing>>

(* Overflow of an overwriting queue: lock, remove one end, insert at the   *)
(* tail.  No semaphore is posted, the new object is to stand for the       *)
(* removed one, whose data pointer is dropped.                             *)
PushOverwrite(t) ==
  /\ pc[t] = "pushLock"
  /\ st[t] = "SEM_TIMEOUT"
  /\ mode # "NO_OVERWRITE"
  /\ mutex = NoThread
  /\ mutex' = t
  /\ list' = Append(WithoutReplaced, obj[t])
  /\ live' = live \ {o \in Objs : /\ \E i \in DOMAIN list : list[i] = o
                                  /\ \A i \in DOMAIN WithoutReplaced :
                                       WithoutReplaced[i] # o}
  /\ Goto(t, "pushUnlock")
  /\ UNCHANGED <<mode, semPush, semPull, st, ms, obj, flushing>>

(* Any other status takes the last else branch: OSALSTATUS_FAILED is       *)
(* returned with the mutex locked.                                         *)
PushInterrupted(t) ==
  /\ pc[t] = "pushLock"
  /\ st[t] = "INVALID_PARAMS"
  /\ mutex = NoThread
  /\ mutex' = t
  /\ AbandonObject(t)
  /\ UNCHANGED <<mode, list, semPush, semPull, st, ms, obj, flushing>>

(* Mutant of PushUnlock: a path that returns with the mutex locked. *)
PushUnlockForgotten(t) ==
  /\ pc[t] = "pushUnlock"
  /\ Goto(t, "idle")
  /\ UNCHANGED <<mode, list, semPush, semPull, mutex, live, st, ms, obj, flushing>>

PushUnlock(t) ==
  /\ pc[t] = "pushUnlock"
  /\ mutex' = NoThread
  /\ Goto(t, "idle")
  /\ UNCHANGED <<mode, list, semPush, semPull, live, st, ms, obj, flushing>>

-----------------------------------------------------------------------------
(* phOsal_QueuePull, and phOsal_QueueFlush which calls it in a loop *)

PullCall(t, timeout) ==
  /\ pc[t] = "idle"
  /\ ms' = [ms EXCEPT ![t] = timeout]
  /\ obj' = [obj EXCEPT ![t] = Junk]
  /\ flushing' = [flushing EXCEPT ![t] = FALSE]
  /\ Goto(t, "pullWait")
  /\ UNCHANGED <<mode, list, semPush, semPull, mutex, live, st>>

FlushCall(t) ==
  /\ pc[t] = "idle"
  /\ ms' = [ms EXCEPT ![t] = FlushTimeout]
  /\ obj' = [obj EXCEPT ![t] = Junk]
  /\ flushing' = [flushing EXCEPT ![t] = TRUE]
  /\ Goto(t, "pullWait")
  /\ UNCHANGED <<mode, list, semPush, semPull, mutex, live, st>>

(* Mutant of PullTakeToken: the wait does not look at the count. *)
PullTakeTokenUnchecked(t) ==
  /\ pc[t] = "pullWait"
  /\ semPull' = semPull - 1
  /\ st' = [st EXCEPT ![t] = "SUCCESS"]
  /\ Goto(t, "pullLock")
  /\ UNCHANGED <<mode, list, semPush, mutex, live, ms, obj, flushing>>

(* The wait for an object succeeds. *)
PullTakeToken(t) ==
  /\ pc[t] = "pullWait"
  /\ semPull > 0
  /\ semPull' = semPull - 1
  /\ st' = [st EXCEPT ![t] = "SUCCESS"]
  /\ Goto(t, "pullLock")
  /\ UNCHANGED <<mode, list, semPush, mutex, live, ms, obj, flushing>>

(* The wait ends without an object, and the code goes on to the mutex. *)
PullGiveUp(t) ==
  /\ pc[t] = "pullWait"
  /\ semPull = 0
  /\ \E s \in BlockedWaitStatuses(ms[t]) \ {"FAILED"} :
       st' = [st EXCEPT ![t] = s]
  /\ Goto(t, "pullLock")
  /\ UNCHANGED <<mode, list, semPush, semPull, mutex, live, ms, obj, flushing>>

(* The wait reports OSALSTATUS_FAILED: *pvQueueObj is not written.  A      *)
(* flush frees its local all the same, since the status is not Q_UNDERFLOW.*)
PullWaitFailed(t) ==
  /\ pc[t] = "pullWait"
  /\ semPull = 0
  /\ "FAILED" \in BlockedWaitStatuses(ms[t])
  /\ Goto(t, IF flushing[t] THEN "flushFree" ELSE "idle")
  /\ UNCHANGED <<mode, list, semPush, semPull, mutex, live, st, ms, obj, flushing>>

(* Lock, store NULL, unlock, Q_UNDERFLOW: what ends a flush. *)
PullUnderflow(t) ==
  /\ pc[t] = "pullLock"
  /\ st[t] # "SUCCESS"
  /\ mutex = NoThread
  /\ obj' = [obj EXCEPT ![t] = NULL]
  /\ Goto(t, "idle")
  /\ UNCHANGED <<mode, list, semPush, semPull, mutex, live, st, ms, flushing>>

(* Mutant of PullRemove: the head is read and stays in the list. *)
PullRemovePeeks(t) ==
  /\ pc[t] = "pullLock"
  /\ st[t] = "SUCCESS"
  /\ mutex = NoThread
  /\ list # <<>>
  /\ mutex' = t
  /\ obj' = [obj EXCEPT ![t] = Head(list)]
  /\ Goto(t, "pullPost")
  /\ UNCHANGED <<mode, list, semPush, semPull, live, st, ms, flushing>>

(* With a token: lock, remove the head.  The error branch for an empty     *)
(* list is not modelled: TokensBackedByObjects shows it is never taken.    *)
PullRemove(t) ==
  /\ pc[t] = "pullLock"
  /\ st[t] = "SUCCESS"
  /\ mutex = NoThread
  /\ list # <<>>
  /\ mutex' = t
  /\ obj' = [obj EXCEPT ![t] = Head(list)]
  /\ list' = Tail(list)
  /\ Goto(t, "pullPost")
  /\ UNCHANGED <<mode, semPush, semPull, live, st, ms, flushing>>

(* Mutant of PullPost: the post on semPush is forgotten. *)
PullPostForgotten(t) ==
  /\ pc[t] = "pullPost"
  /\ Goto(t, "pullUnlock")
  /\ UNCHANGED <<mode, list, semPush, semPull, mutex, live, st, ms, obj, flushing>>

(* Announce the empty slot to the producers. *)
PullPost(t) ==
  /\ pc[t] = "pullPost"
  /\ semPush' = semPush + 1
  /\ Goto(t, "pullUnlock")
  /\ UNCHANGED <<mode, list, semPull, mutex, live, st, ms, obj, flushing>>

PullUnlock(t) ==
  /\ pc[t] = "pullUnlock"
  /\ mutex' = NoThread
  /\ Goto(t, IF flushing[t] THEN "flushFree" ELSE "pulled")
  /\ UNCHANGED <<mode, list, semPush, semPull, live, st, ms, obj, flushing>>

(* The consumer is done with the object and frees it. *)
Consume(t) ==
  /\ pc[t] = "pulled"
  /\ live' = live \ {obj[t]}
  /\ Goto(t, "idle")
  /\ UNCHANGED <<mode, list, semPush, semPull, mutex, st, ms, obj, flushing>>

(* phOsal_QueueFlush frees its local and pulls again; the local keeps its  *)
(* value.                                                                  *)
FlushFree(t) ==
  /\ pc[t] = "flushFree"
  /\ live' = live \ {obj[t]}
  /\ Goto(t, "pullWait")
  /\ UNCHANGED <<mode, list, semPush, semPull, mutex, st, ms, obj, flushing>>

-----------------------------------------------------------------------------
PushSteps(t) ==
  \/ PushTakeSlot(t) \/ PushGiveUp(t) \/ PushWaitFailed(t)
  \/ PushInsert(t) \/ PushPost(t) \/ PushOverflow(t)
  \/ PushOverwrite(t) \/ PushInterrupted(t) \/ PushUnlock(t)

PullSteps(t) ==
  \/ PullTakeToken(t) \/ PullGiveUp(t) \/ PullWaitFailed(t)
  \/ PullUnderflow(t) \/ PullRemove(t) \/ PullPost(t) \/ PullUnlock(t)
  \/ Consume(t) \/ FlushFree(t)

Next ==
  \/ \E t \in Pushers, o \in Objs, timeout \in PushTimeouts :
       PushCall(t, o, timeout)
  \/ \E t \in Pullers, timeout \in PullTimeouts : PullCall(t, timeout)
  \/ \E t \in Flushers : FlushCall(t)
  \/ \E t \in Threads : PushSteps(t) \/ PullSteps(t)

Spec == Init /\ [][Next]_vars

(* Threads are scheduled fairly once inside a call, and a consumer calls   *)
(* phOsal_QueuePull in an endless loop.  Nobody has to push or flush.      *)
Fairness ==
  /\ \A t \in Threads : WF_vars(PushSteps(t) \/ PullSteps(t))
  /\ \A t \in Pullers : WF_vars(\E timeout \in PullTimeouts : PullCall(t, timeout))

FairSpec == Spec /\ Fairness

-----------------------------------------------------------------------------
(* Threads by what they hold of the queue's tokens. *)

PushGrant == {t \in Threads : pc[t] = "pushLock" /\ st[t] = "SUCCESS"}
PushDone  == {t \in Threads : pc[t] = "pushPost"}
PullGrant == {t \in Threads : pc[t] = "pullLock" /\ st[t] = "SUCCESS"}
PullDone  == {t \in Threads : pc[t] = "pullPost"}

InCritical(t) == pc[t] \in {"pushPost", "pushUnlock", "pullPost", "pullUnlock"}

(* Every variable has the type the code gives it. *)
TypeOK ==
  /\ mode \in Modes
  /\ list \in Seq(Objs)
  /\ semPush \in Nat
  /\ semPull \in Nat
  /\ mutex \in Threads \cup {NoThread}
  /\ live \subseteq Objs
  /\ pc \in [Threads -> Labels]
  /\ st \in [Threads -> Statuses]
  /\ ms \in [Threads -> Nat]
  /\ obj \in [Threads -> Objs \cup {NULL, Junk}]
  /\ flushing \in [Threads -> BOOLEAN]

(* What a producer is about to queue is an object: with TypeOK, an         *)
(* inductive invariant.                                                    *)
PushesObject ==
  \A t \in Threads : pc[t] \in {"pushWait", "pushLock"} => obj[t] \in Objs

(* No two threads are inside the critical section of phOsal_QueuePush and  *)
(* phOsal_QueuePull, and the one inside holds qMutex, whatever timeouts    *)
(* and interrupted waits happened before.                                  *)
MutualExclusion ==
  /\ \A t \in Threads : InCritical(t) => mutex = t
  /\ \A t, u \in Threads : InCritical(t) /\ InCritical(u) => t = u

(* The two semaphores together with the threads between a wait and the     *)
(* matching post always account for exactly wQLength slots: no timeout,    *)
(* overflow, overwrite or failed wait loses or invents one.                *)
TokenConservation ==
  semPush + semPull + Cardinality(PushGrant) + Cardinality(PushDone)
    + Cardinality(PullGrant) + Cardinality(PullDone) = QLength

(* A consumer that got through the semPull wait finds an object in the     *)
(* list, also when producers overwrite; in a queue that does not overwrite *)
(* the list holds no more than the objects announced or about to be.       *)
TokensBackedByObjects ==
  LET announced == semPull + Cardinality(PullGrant) + Cardinality(PushDone)
  IN  /\ Len(list) >= announced
      /\ mode = "NO_OVERWRITE" => Len(list) = announced

(* An object is in one place at a time: queued once, or in the hands of    *)
(* the one thread that pushes it or pulled it, and it is allocated there.  *)
Holds(t) == pc[t] \in {"pushWait", "pushLock", "pullPost", "pullUnlock", "pulled"}
              /\ obj[t] \in Objs
SingleOwner ==
  /\ \A i, j \in DOMAIN list : list[i] = list[j] => i = j
  /\ \A i \in DOMAIN list : list[i] \in live
  /\ \A t \in Threads : Holds(t) =>
       /\ obj[t] \in live
       /\ \A i \in DOMAIN list : list[i] # obj[t]
       /\ \A u \in Threads \ {t} : Holds(u) => obj[u] # obj[t]

(* phOsal_Queue.c:198 says of the point after the lock: "Either timeout  *)
(* has occured or an empty slot exists".  So the mutex is held only by a   *)
(* thread inside its critical section.                                     *)
LockHeldOnlyInside ==
  mutex # NoThread => InCritical(mutex)

(* phOsal_Queue.c:370 logs "Osal> Flushed an object from Q": what a flush  *)
(* frees is an allocated object that is no longer in the queue.            *)
FlushFreesFlushedObject ==
  \A t \in Threads : pc[t] = "flushFree" =>
    obj[t] \in live /\ \A i \in DOMAIN list : list[i] # obj[t]

(* Every queued object reaches a consumer, when consumers keep pulling. *)
EveryObjectPulled ==
  \A o \in Objs : (\E i \in DOMAIN list : list[i] = o) ~>
                    (\E t \in Pullers : pc[t] = "pulled" /\ obj[t] = o)

(* A producer blocked on a full queue gets its slot and returns, when      *)
(* consumers keep pulling.                                                 *)
EveryPushReturns ==
  \A t \in Pushers : pc[t] = "pushWait" ~> pc[t] = "idle"

-----------------------------------------------------------------------------
(* What a queue that does not overwrite promises: a bounded FIFO. *)
Fifo == INSTANCE BoundedFifo WITH queue <- list, Values <- Objs, Capacity <- QLength

FifoSpec == Fifo!Spec

=============================================================================
