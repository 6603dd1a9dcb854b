----------------------------- MODULE DtaLifeCycle -----------------------------
(***************************************************************************)
(* Starting and stopping the library again and again: the JNI bridge       *)
(* (phDTALibJNI.cpp), phDtaLib_Init and phDtaLib_DeInit, phMwIf_Init and   *)
(* phMwIf_DeInit, and the threads these create: the message handler and    *)
(* the integration thread.  The GUI's calls come one after the other.      *)
(*                                                                         *)
(* What is created is numbered, and a handle is the number of what it      *)
(* refers to; each phDtaLib_Init that gets beyond the flag creates one of  *)
(* each kind and overwrites the handles.  What the threads do in a round   *)
(* is in DtaLib; here a round takes events out of pvQueueHdl at will.      *)
(***************************************************************************)
EXTENDS Naturals, Sequences

CONSTANTS
  MaxLives,  \* bound: how often the library is initialised
  MayFail    \* which commands may be refused, or given up by their wait while
             \* the stack still has them to serve

ASSUME LifeCycleAssumption ==
  /\ MaxLives \in Nat \ {0}
  /\ MayFail \subseteq {"EnableRefused", "EnableAbandoned",
                      "DisableRefused", "DisableAbandoned"}

VARIABLES
  pc,                     \* where the GUI's call is, "idle" when there is none
  dtalibState,            \* the flag of the JNI bridge
  bDtaInitialized,        \* the flag of the library
  queueHdl,               \* the DTA library's queue, 0 at first
  pvQueueHdl,             \* the middleware interface's queue, 0 at first
  mwQueue,                \* the events in it
  mwQueueLive,            \* it is not destroyed
  pvSemIntgrnThrd,        \* the semaphore of the integration thread
  sem,                    \* value of each semaphore created
  semLive,                \* the semaphores not deleted
  sIntegrationThrdHdl,    \* the integration thread
  blStopIntegrationThrd,
  mwIfCb,                 \* the library's callback is registered
  handler,                \* each handler thread: "none", "waiting", "serving"
  handlerQueue,           \* the queue it waits in
  integration,            \* each integration thread, also "exited"
  integrationSem,         \* the semaphore it waits for
  stack,                  \* "on" from its enabling to its disabling
  nfaIn                   \* commands the stack has not yet served

libVars == <<dtalibState, bDtaInitialized, queueHdl, mwIfCb>>
mwHandles == <<pvQueueHdl, mwQueueLive, pvSemIntgrnThrd, semLive,
               sIntegrationThrdHdl, blStopIntegrationThrd>>
handlerVars == <<handler, handlerQueue>>
integrationVars == <<integration, integrationSem>>
stackVars == <<stack, nfaIn>>
vars == <<pc, libVars, mwHandles, mwQueue, sem, handlerVars, integrationVars,
          stackVars>>

Lives == 1 .. MaxLives

Init ==
  /\ pc = "idle"
  /\ dtalibState = "DEINITIALIZED" /\ bDtaInitialized = FALSE
  /\ queueHdl = 0 /\ mwIfCb = FALSE
  /\ pvQueueHdl = 0 /\ mwQueue = <<>> /\ mwQueueLive = FALSE
  /\ pvSemIntgrnThrd = 0 /\ semLive = {} /\ sem = [i \in Lives |-> 0]
  /\ sIntegrationThrdHdl = 0 /\ blStopIntegrationThrd = FALSE
  /\ handler = [i \in Lives |-> "none"] /\ handlerQueue = [i \in Lives |-> 0]
  /\ integration = [i \in Lives |-> "none"] /\ integrationSem = [i \in Lives |-> 0]
  /\ stack = "off" /\ nfaIn = <<>>

Goto(from, to) == pc = from /\ pc' = to

-----------------------------------------------------------------------------
(* phDtaLib_Init, called by the bridge unless its flag is set. *)

JniInit ==
  /\ dtalibState # "INITIALIZED" /\ queueHdl < MaxLives
  /\ Goto("idle", "LibInit")
  /\ UNCHANGED <<libVars, mwHandles, mwQueue, sem, handlerVars, integrationVars,
                 stackVars>>

LibInit ==
  /\ Goto("LibInit", IF bDtaInitialized THEN "InitOk" ELSE "CreateHandler")
  /\ queueHdl' = IF bDtaInitialized THEN queueHdl ELSE queueHdl + 1
  /\ UNCHANGED <<dtalibState, bDtaInitialized, mwIfCb, mwHandles, mwQueue, sem,
                 handlerVars, integrationVars, stackVars>>

(* The thread begins with a pull from the queue the handle tells. *)
CreateHandler ==
  /\ Goto("CreateHandler", "CreateMwQueue")
  /\ handler' = [handler EXCEPT ![queueHdl] = "waiting"]
  /\ handlerQueue' = [handlerQueue EXCEPT ![queueHdl] = queueHdl]
  /\ UNCHANGED <<libVars, mwHandles, mwQueue, sem, integrationVars, stackVars>>

CreateMwQueue ==
  /\ Goto("CreateMwQueue", "CreateSemaphore")
  /\ pvQueueHdl' = pvQueueHdl + 1 /\ mwQueue' = <<>> /\ mwQueueLive' = TRUE
  /\ UNCHANGED <<libVars, pvSemIntgrnThrd, semLive, sIntegrationThrdHdl,
                 blStopIntegrationThrd, sem, handlerVars, integrationVars, stackVars>>

CreateSemaphore ==
  /\ Goto("CreateSemaphore", "CreateIntegration")
  /\ pvSemIntgrnThrd' = pvSemIntgrnThrd + 1
  /\ semLive' = semLive \cup {pvSemIntgrnThrd + 1}
  /\ UNCHANGED <<libVars, pvQueueHdl, mwQueueLive, sIntegrationThrdHdl,
                 blStopIntegrationThrd, mwQueue, sem, handlerVars, integrationVars,
                 stackVars>>

CreateIntegration ==
  /\ Goto("CreateIntegration", "Enable")
  /\ blStopIntegrationThrd' = FALSE
  /\ sIntegrationThrdHdl' = sIntegrationThrdHdl + 1
  /\ integration' = [integration EXCEPT ![sIntegrationThrdHdl + 1] = "waiting"]
  /\ integrationSem' = [integrationSem EXCEPT ![sIntegrationThrdHdl + 1] = pvSemIntgrnThrd]
  /\ UNCHANGED <<libVars, pvQueueHdl, mwQueueLive, pvSemIntgrnThrd, semLive,
                 mwQueue, sem, handlerVars, stackVars>>

(* NFA_Enable; a refusal is the end of phDtaLib_Init. *)
Enable ==
  /\ \/ Goto("Enable", "AwaitEnabled") /\ nfaIn' = Append(nfaIn, "Enable")
     \/ "EnableRefused" \in MayFail /\ Goto("Enable", "idle") /\ UNCHANGED nfaIn
  /\ UNCHANGED <<libVars, mwHandles, mwQueue, sem, handlerVars, integrationVars, stack>>

(* PH_WAIT_FOR_CBACK_EVT on pvQueueHdl: the end of a contact (also an      *)
(* error of the RF interface) ends the wait, other events are thrown away, *)
(* and nothing in the queue ends it with its timeout: the event is late,   *)
(* was taken by another thread or is never sent.                           *)
Await(from, event, to, abandoned, failed) ==
  LET GivesUp == Goto(from, failed) /\ (abandoned \in MayFail \/ nfaIn = <<>>)
      Meets(e) == CASE e = event -> Goto(from, to)
                    [] e = "DEACTIVATED" -> GivesUp
                    [] OTHER -> Goto(from, from)
  IN  /\ \/ mwQueue # <<>> /\ mwQueue' = Tail(mwQueue) /\ Meets(Head(mwQueue))
         \/ mwQueue = <<>> /\ UNCHANGED mwQueue /\ GivesUp
      /\ UNCHANGED <<libVars, mwHandles, sem, handlerVars, integrationVars, stackVars>>

(* Mutant of AwaitEnabled: a start that timed out goes on all the same. *)
AwaitEnabledIgnored ==
  Await("AwaitEnabled", "ENABLED", "Register", "EnableAbandoned", "Register")

(* Mutant of AwaitEnabled: whatever is pulled counts as the answer. *)
AwaitEnabledAny ==
  /\ mwQueue # <<>> /\ mwQueue' = Tail(mwQueue)
  /\ Goto("AwaitEnabled", "Register")
  /\ UNCHANGED <<libVars, mwHandles, sem, handlerVars, integrationVars, stackVars>>

(* The status the event carries is not looked at. *)
AwaitEnabled == Await("AwaitEnabled", "ENABLED", "Register", "EnableAbandoned", "idle")

Register ==
  /\ Goto("Register", "InitOk")
  /\ mwIfCb' = TRUE /\ bDtaInitialized' = TRUE
  /\ UNCHANGED <<dtalibState, queueHdl, mwHandles, mwQueue, sem, handlerVars,
                 integrationVars, stackVars>>

InitOk ==
  /\ Goto("InitOk", "idle")
  /\ dtalibState' = "INITIALIZED"
  /\ UNCHANGED <<bDtaInitialized, queueHdl, mwIfCb, mwHandles, mwQueue, sem,
                 handlerVars, integrationVars, stackVars>>

-----------------------------------------------------------------------------
(* phDtaLib_DeInit, called by the bridge while its flag is set. *)

JniDeInit ==
  /\ dtalibState # "DEINITIALIZED"
  /\ Goto("idle", "LibDeInit")
  /\ UNCHANGED <<libVars, mwHandles, mwQueue, sem, handlerVars, integrationVars,
                 stackVars>>

LibDeInit ==
  /\ Goto("LibDeInit", IF bDtaInitialized THEN "Disable" ELSE "DeInitOk")
  /\ UNCHANGED <<libVars, mwHandles, mwQueue, sem, handlerVars, integrationVars,
                 stackVars>>

(* The wait begins although NFA_Disable was refused. *)
Disable ==
  /\ Goto("Disable", "AwaitDisabled")
  /\ \/ nfaIn' = Append(nfaIn, "Disable")
     \/ "DisableRefused" \in MayFail /\ UNCHANGED nfaIn
  /\ UNCHANGED <<libVars, mwHandles, mwQueue, sem, handlerVars, integrationVars, stack>>

(* Mutant of AwaitDisabled: a stop that timed out goes on all the same. *)
AwaitDisabledIgnored ==
  Await("AwaitDisabled", "DISABLED", "Stop", "DisableAbandoned", "Stop")

(* phMwIf_DeInit gives up when the wait failed, and the library does not   *)
(* look at its result.                                                     *)
AwaitDisabled ==
  Await("AwaitDisabled", "DISABLED", "Stop", "DisableAbandoned", "MwDone")

Stop ==
  /\ Goto("Stop", "Post")
  /\ blStopIntegrationThrd' = TRUE
  /\ UNCHANGED <<libVars, pvQueueHdl, mwQueueLive, pvSemIntgrnThrd, semLive,
                 sIntegrationThrdHdl, mwQueue, sem, handlerVars, integrationVars,
                 stackVars>>

(* Mutant of Post: the thread is not woken. *)
PostForgotten ==
  /\ Goto("Post", "Join")
  /\ UNCHANGED <<libVars, mwHandles, mwQueue, sem, handlerVars, integrationVars,
                 stackVars>>

Post ==
  /\ Goto("Post", "Join")
  /\ sem' = [sem EXCEPT ![pvSemIntgrnThrd] = @ + 1]
  /\ UNCHANGED <<libVars, mwHandles, mwQueue, handlerVars, integrationVars, stackVars>>

(* Mutant of Join: the thread is not waited for. *)
JoinAtOnce ==
  /\ Goto("Join", "DeleteSemaphore")
  /\ UNCHANGED <<libVars, mwHandles, mwQueue, sem, handlerVars, integrationVars,
                 stackVars>>

(* phOsal_ThreadDelete is a join. *)
Join ==
  /\ Goto("Join", "DeleteSemaphore")
  /\ integration[sIntegrationThrdHdl] = "exited"
  /\ UNCHANGED <<libVars, mwHandles, mwQueue, sem, handlerVars, integrationVars,
                 stackVars>>

DeleteSemaphore ==
  /\ Goto("DeleteSemaphore", "DestroyMwQueue")
  /\ semLive' = semLive \ {pvSemIntgrnThrd}
  /\ UNCHANGED <<libVars, pvQueueHdl, mwQueueLive, pvSemIntgrnThrd,
                 sIntegrationThrdHdl, blStopIntegrationThrd, mwQueue, sem,
                 handlerVars, integrationVars, stackVars>>

(* The handles keep their values. *)
DestroyMwQueue ==
  /\ Goto("DestroyMwQueue", "MwDone")
  /\ mwQueueLive' = FALSE /\ mwQueue' = <<>>
  /\ UNCHANGED <<libVars, pvQueueHdl, pvSemIntgrnThrd, semLive, sIntegrationThrdHdl,
                 blStopIntegrationThrd, sem, handlerVars, integrationVars, stackVars>>

(* Queue and handler thread of the library are kept. *)
MwDone ==
  /\ Goto("MwDone", "DeInitOk")
  /\ bDtaInitialized' = FALSE
  /\ UNCHANGED <<dtalibState, queueHdl, mwIfCb, mwHandles, mwQueue, sem,
                 handlerVars, integrationVars, stackVars>>

DeInitOk ==
  /\ Goto("DeInitOk", "idle")
  /\ dtalibState' = "DEINITIALIZED"
  /\ UNCHANGED <<bDtaInitialized, queueHdl, mwIfCb, mwHandles, mwQueue, sem,
                 handlerVars, integrationVars, stackVars>>

-----------------------------------------------------------------------------
(* The stack serves its commands in order and reports to pvQueueHdl.       *)

Nfa ==
  /\ nfaIn # <<>> /\ nfaIn' = Tail(nfaIn)
  /\ \/ Head(nfaIn) = "Enable" /\ stack' = "on"
     \/ Head(nfaIn) = "Disable" /\ stack' = "off"
  /\ mwQueue' = IF ~mwQueueLive THEN mwQueue
                ELSE Append(mwQueue, IF Head(nfaIn) = "Enable" THEN "ENABLED"
                                     ELSE "DISABLED")
  /\ UNCHANGED <<pc, libVars, mwHandles, sem, handlerVars, integrationVars>>

(* A contact is told to the handler that waits in the library's queue.     *)
Contact(i) ==
  /\ stack = "on" /\ mwIfCb
  /\ handler[i] = "waiting" /\ handlerQueue[i] = queueHdl
  /\ handler' = [handler EXCEPT ![i] = "serving"]
  /\ UNCHANGED <<pc, libVars, mwHandles, mwQueue, sem, handlerQueue,
                 integrationVars, stackVars>>

(* The handle is read again for each pull. *)
HandlerDone(i) ==
  /\ handler[i] = "serving"
  /\ handler' = [handler EXCEPT ![i] = "waiting"]
  /\ handlerQueue' = [handlerQueue EXCEPT ![i] = queueHdl]
  /\ UNCHANGED <<pc, libVars, mwHandles, mwQueue, sem, integrationVars, stackVars>>

(* The end of a contact is reported to pvQueueHdl too, where nobody need   *)
(* wait for it.  Bound: one such event at a time.                          *)
ContactEnds ==
  /\ stack = "on" /\ mwIfCb /\ mwQueueLive
  /\ \A j \in DOMAIN mwQueue : mwQueue[j] # "DEACTIVATED"
  /\ mwQueue' = Append(mwQueue, "DEACTIVATED")
  /\ UNCHANGED <<pc, libVars, mwHandles, sem, handlerVars, integrationVars, stackVars>>

(* Several targets answered the poll: work for the integration thread.     *)
(* Bound: one at a time.                                                   *)
DiscoveryResult ==
  /\ stack = "on" /\ sem[pvSemIntgrnThrd] = 0
  /\ sem' = [sem EXCEPT ![pvSemIntgrnThrd] = 1]
  /\ UNCHANGED <<pc, libVars, mwHandles, mwQueue, handlerVars, integrationVars,
                 stackVars>>

(* Mutant of IntegrationWake: the wait returns without a post. *)
IntegrationWakeAnyway(t) ==
  /\ integration[t] = "waiting" /\ integrationSem[t] \in semLive
  /\ sem' = [sem EXCEPT ![integrationSem[t]] = @ - 1]
  /\ integration' = [integration EXCEPT
       ![t] = IF blStopIntegrationThrd THEN "exited" ELSE "serving"]
  /\ UNCHANGED <<pc, libVars, mwHandles, mwQueue, handlerVars, integrationSem,
                 stackVars>>

IntegrationWake(t) ==
  /\ integration[t] = "waiting" /\ integrationSem[t] \in semLive
  /\ sem[integrationSem[t]] > 0
  /\ sem' = [sem EXCEPT ![integrationSem[t]] = @ - 1]
  /\ integration' = [integration EXCEPT
       ![t] = IF blStopIntegrationThrd THEN "exited" ELSE "serving"]
  /\ UNCHANGED <<pc, libVars, mwHandles, mwQueue, handlerVars, integrationSem,
                 stackVars>>

(* A selection that fails returns from the thread. *)
IntegrationDone(t) ==
  /\ integration[t] = "serving"
  /\ \/ /\ integration' = [integration EXCEPT ![t] = "waiting"]
        /\ integrationSem' = [integrationSem EXCEPT ![t] = pvSemIntgrnThrd]
     \/ integration' = [integration EXCEPT ![t] = "exited"] /\ UNCHANGED integrationSem
  /\ UNCHANGED <<pc, libVars, mwHandles, mwQueue, sem, handlerVars, stackVars>>

(* A thread in the middle of a round waits in pvQueueHdl for its own event *)
(* and takes whichever comes.  What a pull from a destroyed queue would do *)
(* is left out.                                                            *)
Pull ==
  /\ \E i \in Lives : handler[i] = "serving" \/ integration[i] = "serving"
  /\ mwQueueLive /\ mwQueue # <<>>
  /\ mwQueue' = Tail(mwQueue)
  /\ UNCHANGED <<pc, libVars, mwHandles, sem, handlerVars, integrationVars, stackVars>>

-----------------------------------------------------------------------------
Call == \/ LibInit \/ CreateHandler \/ CreateMwQueue \/ CreateSemaphore
        \/ CreateIntegration \/ Enable \/ AwaitEnabled \/ Register \/ InitOk
        \/ LibDeInit \/ Disable \/ AwaitDisabled \/ Stop \/ Post \/ Join
        \/ DeleteSemaphore \/ DestroyMwQueue \/ MwDone \/ DeInitOk

Integration(t) == IntegrationWake(t) \/ IntegrationDone(t)

Next == \/ JniInit \/ JniDeInit \/ Call \/ Nfa \/ ContactEnds \/ DiscoveryResult \/ Pull
        \/ \E i \in Lives : Contact(i) \/ HandlerDone(i) \/ Integration(i)

(* The threads are scheduled, the stack serves what it accepted, and every *)
(* round ends, since its waits have timeouts.  The GUI need not call.      *)
Fairness == /\ WF_vars(Call) /\ WF_vars(Nfa)
            /\ \A i \in Lives : WF_vars(HandlerDone(i)) /\ WF_vars(Integration(i))

Spec == Init /\ [][Next]_vars /\ Fairness

-----------------------------------------------------------------------------
InitSteps == {"LibInit", "CreateHandler", "CreateMwQueue", "CreateSemaphore",
              "CreateIntegration", "Enable", "AwaitEnabled", "Register", "InitOk"}
DeInitSteps == {"LibDeInit", "Disable", "AwaitDisabled", "Stop", "Post", "Join",
                "DeleteSemaphore", "DestroyMwQueue", "MwDone", "DeInitOk"}

TypeOK ==
  /\ pc \in {"idle"} \cup InitSteps \cup DeInitSteps
  /\ dtalibState \in {"INITIALIZED", "DEINITIALIZED"}
  /\ bDtaInitialized \in BOOLEAN /\ mwIfCb \in BOOLEAN
  /\ mwQueueLive \in BOOLEAN /\ blStopIntegrationThrd \in BOOLEAN
  /\ queueHdl \in 0 .. MaxLives /\ pvQueueHdl \in 0 .. MaxLives
  /\ pvSemIntgrnThrd \in 0 .. MaxLives /\ sIntegrationThrdHdl \in 0 .. MaxLives
  /\ mwQueue \in Seq({"ENABLED", "DISABLED", "DEACTIVATED"})
  /\ nfaIn \in Seq({"Enable", "Disable"})
  /\ sem \in [Lives -> Nat] /\ semLive \subseteq Lives
  /\ handler \in [Lives -> {"none", "waiting", "serving"}]
  /\ handlerQueue \in [Lives -> 0 .. MaxLives]
  /\ integration \in [Lives -> {"none", "waiting", "serving", "exited"}]
  /\ integrationSem \in [Lives -> 0 .. MaxLives]
  /\ stack \in {"on", "off"}

(* While the bridge takes the library for started and no call is under     *)
(* way, the library does too, the stack is on, and the queue and the       *)
(* semaphore its callbacks use are there; while it takes it for stopped,   *)
(* so does the library: although starts that were given up leave their     *)
(* answers, or stops that were given up their commands, to a later life,   *)
(* and what failed leaves half of its resources behind.                    *)
SessionOpen ==
  pc = "idle" =>
    IF dtalibState = "INITIALIZED"
    THEN /\ bDtaInitialized /\ mwIfCb
         /\ stack = "on" /\ mwQueueLive /\ pvSemIntgrnThrd \in semLive
    ELSE ~bDtaInitialized

(* Once phMwIf_DeInit deleted the semaphore or destroyed the queue the     *)
(* stack has nothing left to tell: no callback uses what was freed.        *)
NothingAfterTearDown ==
  ~mwQueueLive \/ pvSemIntgrnThrd \notin semLive => stack = "off" /\ nfaIn = <<>>

(* The semaphore an integration thread was created with is there until the *)
(* thread has ended: phMwIf_DeInit may find it in the middle of a round.   *)
OwnSemaphoreLives ==
  \A t \in Lives : integration[t] \in {"waiting", "serving"} => t \in semLive

(* An integration thread of an earlier life that may take the post meant   *)
(* for the present one.                                                    *)
Intruder ==
  \E t \in Lives \ {sIntegrationThrdHdl} :
    \/ integration[t] = "serving"
    \/ integration[t] = "waiting" /\ integrationSem[t] = pvSemIntgrnThrd

(* phMwIf_DeInit joins the integration thread without a timeout: the post  *)
(* reaches that thread whatever it was doing, even selecting a target or   *)
(* already gone, and the stop ends, unless a thread of an earlier life,    *)
(* left behind by a start or a stop that failed, can take the post.        *)
JoinReturns == (pc = "Post" /\ ~Intruder) ~> (pc = "idle")

===============================================================================
