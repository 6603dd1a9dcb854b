------------------------- MODULE DtaLifeCycle_proofs -------------------------
(***************************************************************************)
(* What DtaLifeCycle promises for any number of lives.  Typed and Threads  *)
(* need nothing of the stack; Sessions needs that starts or stops are not  *)
(* abandoned.                                                              *)
(***************************************************************************)
EXTENDS DtaLifeCycle, TLAPS

(* Every start creates one of each kind, so the handles go up together.    *)
Handles ==
  /\ pc = "LibInit" => queueHdl < MaxLives
  /\ queueHdl = pvQueueHdl +
       IF pc \in {"CreateHandler", "CreateMwQueue"} THEN 1 ELSE 0
  /\ queueHdl = pvSemIntgrnThrd +
       IF pc \in {"CreateHandler", "CreateMwQueue", "CreateSemaphore"} THEN 1 ELSE 0
  /\ queueHdl = sIntegrationThrdHdl +
       IF pc \in {"CreateHandler", "CreateMwQueue", "CreateSemaphore",
                  "CreateIntegration"} THEN 1 ELSE 0

(* A thread keeps its semaphore until it is gone, as phMwIf_DeInit knows   *)
(* of the present one once the join returned.                              *)
Threads ==
  /\ pc = "CreateIntegration" => pvSemIntgrnThrd \in semLive
  /\ pc = "DeleteSemaphore" => integration[sIntegrationThrdHdl] = "exited"
  /\ OwnSemaphoreLives

USE LifeCycleAssumption DEF Lives

-----------------------------------------------------------------------------
(* Type correctness, with the numbers of the handles.                      *)

Typed == TypeOK /\ Handles

QueuesTyped == /\ mwQueue \in Seq({"ENABLED", "DISABLED", "DEACTIVATED"})
               /\ nfaIn \in Seq({"Enable", "Disable"})
SemTyped == sem \in [Lives -> Nat]

LEMMA InitTyped == Init => Typed
<1> SUFFICES ASSUME Init PROVE Typed
  OBVIOUS
<1>1. QueuesTyped BY DEF Init, QueuesTyped
<1>2. /\ sem \in [Lives -> Nat] /\ semLive \subseteq Lives
      /\ handler \in [Lives -> {"none", "waiting", "serving"}]
      /\ handlerQueue \in [Lives -> 0 .. MaxLives]
      /\ integration \in [Lives -> {"none", "waiting", "serving", "exited"}]
      /\ integrationSem \in [Lives -> 0 .. MaxLives]
  BY DEF Init
<1>3. /\ pc = "idle" /\ dtalibState = "DEINITIALIZED" /\ stack = "off"
      /\ bDtaInitialized = FALSE /\ mwIfCb = FALSE
      /\ mwQueueLive = FALSE /\ blStopIntegrationThrd = FALSE
      /\ queueHdl = 0 /\ pvQueueHdl = 0
      /\ pvSemIntgrnThrd = 0 /\ sIntegrationThrdHdl = 0
  BY DEF Init
<1>4. TypeOK
  <2>1. 0 \in 0 .. MaxLives
    OBVIOUS
  <2>2. BOOLEAN = {TRUE, FALSE}
    OBVIOUS
  <2> QED BY <1>1, <1>2, <1>3, <2>1, <2>2, Zenon DEF QueuesTyped, TypeOK
<1>5. Handles BY <1>3 DEF Handles
<1> QED BY <1>4, <1>5 DEF Typed

LEMMA QueuesStep ==
  ASSUME QueuesTyped, [Next]_vars
  PROVE  QueuesTyped'
<1> USE DEF QueuesTyped, Goto, libVars, mwHandles, handlerVars, integrationVars, stackVars
<1>1. CASE JniInit             BY <1>1 DEF JniInit
<1>2. CASE JniDeInit           BY <1>2 DEF JniDeInit
<1>3. CASE LibInit             BY <1>3 DEF LibInit
<1>4. CASE CreateHandler       BY <1>4 DEF CreateHandler
<1>5. CASE CreateMwQueue       BY <1>5 DEF CreateMwQueue
<1>6. CASE CreateSemaphore     BY <1>6 DEF CreateSemaphore
<1>7. CASE CreateIntegration   BY <1>7 DEF CreateIntegration
<1>8. CASE Enable              BY <1>8 DEF Enable
<1>9. CASE AwaitEnabled        BY SMTT(30), <1>9 DEF AwaitEnabled, Await
<1>10. CASE Register           BY <1>10 DEF Register
<1>11. CASE InitOk             BY <1>11 DEF InitOk
<1>12. CASE LibDeInit          BY <1>12 DEF LibDeInit
<1>13. CASE Disable            BY <1>13 DEF Disable
<1>14. CASE AwaitDisabled      BY SMTT(30), <1>14 DEF AwaitDisabled, Await
<1>15. CASE Stop               BY <1>15 DEF Stop
<1>16. CASE Post               BY <1>16 DEF Post
<1>17. CASE Join               BY <1>17 DEF Join
<1>18. CASE DeleteSemaphore    BY <1>18 DEF DeleteSemaphore
<1>19. CASE DestroyMwQueue     BY <1>19 DEF DestroyMwQueue
<1>20. CASE MwDone             BY <1>20 DEF MwDone
<1>21. CASE DeInitOk           BY <1>21 DEF DeInitOk
<1>22. CASE Nfa                BY <1>22 DEF Nfa
<1>23. CASE DiscoveryResult    BY <1>23 DEF DiscoveryResult
<1>24. CASE Pull               BY <1>24 DEF Pull
<1>25. ASSUME NEW i \in Lives, Contact(i) PROVE QueuesTyped'
  BY <1>25 DEF Contact
<1>26. ASSUME NEW i \in Lives, HandlerDone(i) PROVE QueuesTyped'
  BY <1>26 DEF HandlerDone
<1>27. ASSUME NEW i \in Lives, IntegrationWake(i) PROVE QueuesTyped'
  BY <1>27 DEF IntegrationWake
<1>28. ASSUME NEW i \in Lives, IntegrationDone(i) PROVE QueuesTyped'
  BY <1>28 DEF IntegrationDone
<1>29. CASE ContactEnds        BY <1>29 DEF ContactEnds
<1>30. CASE UNCHANGED vars     BY <1>30 DEF vars
<1> QED
  BY <1>1, <1>2, <1>3, <1>4, <1>5, <1>6, <1>7, <1>8, <1>9, <1>10, <1>11,
     <1>12, <1>13, <1>14, <1>15, <1>16, <1>17, <1>18, <1>19, <1>20, <1>21,
     <1>22, <1>23, <1>24, <1>25, <1>26, <1>27, <1>28, <1>29, <1>30
  DEF Next, Call, Integration

LEMMA SemStep ==
  ASSUME SemTyped, [Next]_vars
  PROVE  SemTyped'
<1> USE DEF SemTyped, Goto, libVars, mwHandles, handlerVars, integrationVars, stackVars
<1>1. CASE JniInit             BY <1>1 DEF JniInit
<1>2. CASE JniDeInit           BY <1>2 DEF JniDeInit
<1>3. CASE LibInit             BY <1>3 DEF LibInit
<1>4. CASE CreateHandler       BY <1>4 DEF CreateHandler
<1>5. CASE CreateMwQueue       BY <1>5 DEF CreateMwQueue
<1>6. CASE CreateSemaphore     BY <1>6 DEF CreateSemaphore
<1>7. CASE CreateIntegration   BY <1>7 DEF CreateIntegration
<1>8. CASE Enable              BY <1>8 DEF Enable
<1>9. CASE AwaitEnabled        BY <1>9 DEF AwaitEnabled, Await
<1>10. CASE Register           BY <1>10 DEF Register
<1>11. CASE InitOk             BY <1>11 DEF InitOk
<1>12. CASE LibDeInit          BY <1>12 DEF LibDeInit
<1>13. CASE Disable            BY <1>13 DEF Disable
<1>14. CASE AwaitDisabled      BY <1>14 DEF AwaitDisabled, Await
<1>15. CASE Stop               BY <1>15 DEF Stop
<1>16. CASE Post
  <2>1. CASE pvSemIntgrnThrd \in Lives
    BY <1>16, <2>1 DEF Post
  <2>2. CASE pvSemIntgrnThrd \notin Lives
    BY <1>16, <2>2 DEF Post
  <2> QED BY <2>1, <2>2
<1>17. CASE Join               BY <1>17 DEF Join
<1>18. CASE DeleteSemaphore    BY <1>18 DEF DeleteSemaphore
<1>19. CASE DestroyMwQueue     BY <1>19 DEF DestroyMwQueue
<1>20. CASE MwDone             BY <1>20 DEF MwDone
<1>21. CASE DeInitOk           BY <1>21 DEF DeInitOk
<1>22. CASE Nfa                BY <1>22 DEF Nfa
<1>23. CASE DiscoveryResult    BY <1>23 DEF DiscoveryResult
<1>24. CASE Pull               BY <1>24 DEF Pull
<1>25. ASSUME NEW i \in Lives, Contact(i) PROVE SemTyped'
  BY <1>25 DEF Contact
<1>26. ASSUME NEW i \in Lives, HandlerDone(i) PROVE SemTyped'
  BY <1>26 DEF HandlerDone
<1>27. ASSUME NEW i \in Lives, IntegrationWake(i) PROVE SemTyped'
  <2> DEFINE s == integrationSem[i]
  <2>1. CASE s \in Lives
    <3>1. sem[s] \in Nat /\ sem[s] > 0 /\ sem' = [sem EXCEPT ![s] = @ - 1]
      BY <1>27, <2>1 DEF IntegrationWake
    <3> HIDE DEF s
    <3> QED BY <3>1, <2>1
  <2>2. CASE s \notin Lives
    BY <1>27, <2>2 DEF IntegrationWake
  <2> QED BY <2>1, <2>2
<1>28. ASSUME NEW i \in Lives, IntegrationDone(i) PROVE SemTyped'
  BY <1>28 DEF IntegrationDone
<1>29. CASE ContactEnds        BY <1>29 DEF ContactEnds
<1>30. CASE UNCHANGED vars     BY <1>30 DEF vars
<1> QED
  BY <1>1, <1>2, <1>3, <1>4, <1>5, <1>6, <1>7, <1>8, <1>9, <1>10, <1>11,
     <1>12, <1>13, <1>14, <1>15, <1>16, <1>17, <1>18, <1>19, <1>20, <1>21,
     <1>22, <1>23, <1>24, <1>25, <1>26, <1>27, <1>28, <1>29, <1>30
  DEF Next, Call, Integration

LEMMA HandlesStep ==
  ASSUME Typed, [Next]_vars
  PROVE  Handles'
<1>0. /\ Handles
      /\ queueHdl \in Nat /\ pvQueueHdl \in Nat
      /\ pvSemIntgrnThrd \in Nat /\ sIntegrationThrdHdl \in Nat
  BY DEF Typed, TypeOK
<1> USE <1>0 DEF Handles, Goto, libVars, mwHandles, handlerVars, integrationVars, stackVars
<1>1. CASE JniInit             BY <1>1 DEF JniInit
<1>2. CASE JniDeInit           BY <1>2 DEF JniDeInit
<1>3. CASE LibInit             BY <1>3 DEF LibInit
<1>4. CASE CreateHandler       BY <1>4 DEF CreateHandler
<1>5. CASE CreateMwQueue       BY <1>5 DEF CreateMwQueue
<1>6. CASE CreateSemaphore     BY <1>6 DEF CreateSemaphore
<1>7. CASE CreateIntegration   BY <1>7 DEF CreateIntegration
<1>8. CASE Enable              BY <1>8 DEF Enable
<1>9. CASE AwaitEnabled        BY <1>9 DEF AwaitEnabled, Await
<1>10. CASE Register           BY <1>10 DEF Register
<1>11. CASE InitOk             BY <1>11 DEF InitOk
<1>12. CASE LibDeInit          BY <1>12 DEF LibDeInit
<1>13. CASE Disable            BY <1>13 DEF Disable
<1>14. CASE AwaitDisabled      BY <1>14 DEF AwaitDisabled, Await
<1>15. CASE Stop               BY <1>15 DEF Stop
<1>16. CASE Post               BY <1>16 DEF Post
<1>17. CASE Join               BY <1>17 DEF Join
<1>18. CASE DeleteSemaphore    BY <1>18 DEF DeleteSemaphore
<1>19. CASE DestroyMwQueue     BY <1>19 DEF DestroyMwQueue
<1>20. CASE MwDone             BY <1>20 DEF MwDone
<1>21. CASE DeInitOk           BY <1>21 DEF DeInitOk
<1>22. CASE Nfa                BY <1>22 DEF Nfa
<1>23. CASE DiscoveryResult    BY <1>23 DEF DiscoveryResult
<1>24. CASE Pull               BY <1>24 DEF Pull
<1>25. ASSUME NEW i \in Lives, Contact(i) PROVE Handles'
  BY <1>25 DEF Contact
<1>26. ASSUME NEW i \in Lives, HandlerDone(i) PROVE Handles'
  BY <1>26 DEF HandlerDone
<1>27. ASSUME NEW i \in Lives, IntegrationWake(i) PROVE Handles'
  BY <1>27 DEF IntegrationWake
<1>28. ASSUME NEW i \in Lives, IntegrationDone(i) PROVE Handles'
  BY <1>28 DEF IntegrationDone
<1>29. CASE ContactEnds        BY <1>29 DEF ContactEnds
<1>30. CASE UNCHANGED vars     BY <1>30 DEF vars
<1> QED
  BY <1>1, <1>2, <1>3, <1>4, <1>5, <1>6, <1>7, <1>8, <1>9, <1>10, <1>11,
     <1>12, <1>13, <1>14, <1>15, <1>16, <1>17, <1>18, <1>19, <1>20, <1>21,
     <1>22, <1>23, <1>24, <1>25, <1>26, <1>27, <1>28, <1>29, <1>30
  DEF Next, Call, Integration

LEMMA TypeStep ==
  ASSUME Typed, [Next]_vars
  PROVE  TypeOK'
<1>0. QueuesTyped' /\ SemTyped'
  BY QueuesStep, SemStep DEF Typed, TypeOK, QueuesTyped, SemTyped
<1> USE <1>0 DEF QueuesTyped, SemTyped, Typed, TypeOK, Handles, InitSteps, DeInitSteps, Goto,
           libVars, mwHandles, handlerVars, integrationVars, stackVars
<1>1. CASE JniInit             BY <1>1 DEF JniInit
<1>2. CASE JniDeInit           BY <1>2 DEF JniDeInit
<1>3. CASE LibInit             BY <1>3 DEF LibInit
<1>4. CASE CreateHandler       BY <1>4 DEF CreateHandler
<1>5. CASE CreateMwQueue       BY <1>5 DEF CreateMwQueue
<1>6. CASE CreateSemaphore     BY SMTT(30), <1>6 DEF CreateSemaphore
<1>7. CASE CreateIntegration   BY <1>7 DEF CreateIntegration
<1>8. CASE Enable              BY <1>8 DEF Enable
<1>9. CASE AwaitEnabled        BY <1>9 DEF AwaitEnabled, Await
<1>10. CASE Register           BY <1>10 DEF Register
<1>11. CASE InitOk             BY <1>11 DEF InitOk
<1>12. CASE LibDeInit          BY <1>12 DEF LibDeInit
<1>13. CASE Disable            BY <1>13 DEF Disable
<1>14. CASE AwaitDisabled      BY <1>14 DEF AwaitDisabled, Await
<1>15. CASE Stop               BY <1>15 DEF Stop
<1>16. CASE Post               BY <1>16 DEF Post
<1>17. CASE Join               BY <1>17 DEF Join
<1>18. CASE DeleteSemaphore    BY <1>18 DEF DeleteSemaphore
<1>19. CASE DestroyMwQueue     BY <1>19 DEF DestroyMwQueue
<1>20. CASE MwDone             BY <1>20 DEF MwDone
<1>21. CASE DeInitOk           BY <1>21 DEF DeInitOk
<1>22. CASE Nfa                BY ZenonT(60), <1>22 DEF Nfa
<1>23. CASE DiscoveryResult    BY <1>23 DEF DiscoveryResult
<1>24. CASE Pull               BY <1>24 DEF Pull
<1>25. ASSUME NEW i \in Lives, Contact(i) PROVE TypeOK'
  BY <1>25 DEF Contact
<1>26. ASSUME NEW i \in Lives, HandlerDone(i) PROVE TypeOK'
  BY ZenonT(60), <1>26 DEF HandlerDone
<1>27. ASSUME NEW i \in Lives, IntegrationWake(i) PROVE TypeOK'
  BY ZenonT(60), <1>27 DEF IntegrationWake
<1>28. ASSUME NEW i \in Lives, IntegrationDone(i) PROVE TypeOK'
  <2>1. integration' \in [Lives -> {"none", "waiting", "serving", "exited"}]
    BY <1>28 DEF IntegrationDone
  <2>2. integrationSem' \in [Lives -> 0 .. MaxLives]
    BY ZenonT(60), <1>28 DEF IntegrationDone
  <2> QED BY ZenonT(60), <1>28, <2>1, <2>2 DEF IntegrationDone
<1>29. CASE ContactEnds        BY <1>29 DEF ContactEnds
<1>30. CASE UNCHANGED vars     BY SMTT(30), <1>30 DEF vars
<1> QED
  BY <1>1, <1>2, <1>3, <1>4, <1>5, <1>6, <1>7, <1>8, <1>9, <1>10, <1>11,
     <1>12, <1>13, <1>14, <1>15, <1>16, <1>17, <1>18, <1>19, <1>20, <1>21,
     <1>22, <1>23, <1>24, <1>25, <1>26, <1>27, <1>28, <1>29, <1>30
  DEF Next, Call, Integration

-----------------------------------------------------------------------------
(* Whatever the stack does, no thread loses the semaphore it began with.   *)

LEMMA ThreadsStep ==
  ASSUME Typed, Threads, [Next]_vars
  PROVE  Threads'
<1> USE DEF Typed, TypeOK, Handles, Threads, OwnSemaphoreLives, Goto,
           libVars, mwHandles, handlerVars, integrationVars, stackVars
<1>1. CASE JniInit             BY <1>1 DEF JniInit
<1>2. CASE JniDeInit           BY <1>2 DEF JniDeInit
<1>3. CASE LibInit             BY <1>3 DEF LibInit
<1>4. CASE CreateHandler       BY <1>4 DEF CreateHandler
<1>5. CASE CreateMwQueue       BY <1>5 DEF CreateMwQueue
<1>6. CASE CreateSemaphore     BY <1>6 DEF CreateSemaphore
<1>7. CASE CreateIntegration
  <2>1. sIntegrationThrdHdl + 1 = pvSemIntgrnThrd /\ sIntegrationThrdHdl + 1 \in Lives
    BY <1>7 DEF CreateIntegration
  <2>2. \A t \in Lives \ {sIntegrationThrdHdl + 1} : integration'[t] = integration[t]
    BY <1>7 DEF CreateIntegration
  <2> QED BY <1>7, <2>1, <2>2 DEF CreateIntegration
<1>8. CASE Enable              BY <1>8 DEF Enable
<1>9. CASE AwaitEnabled        BY <1>9 DEF AwaitEnabled, Await
<1>10. CASE Register           BY <1>10 DEF Register
<1>11. CASE InitOk             BY <1>11 DEF InitOk
<1>12. CASE LibDeInit          BY <1>12 DEF LibDeInit
<1>13. CASE Disable            BY <1>13 DEF Disable
<1>14. CASE AwaitDisabled      BY <1>14 DEF AwaitDisabled, Await
<1>15. CASE Stop               BY <1>15 DEF Stop
<1>16. CASE Post               BY <1>16 DEF Post
<1>17. CASE Join               BY <1>17 DEF Join
<1>18. CASE DeleteSemaphore    BY <1>18 DEF DeleteSemaphore
<1>19. CASE DestroyMwQueue     BY <1>19 DEF DestroyMwQueue
<1>20. CASE MwDone             BY <1>20 DEF MwDone
<1>21. CASE DeInitOk           BY <1>21 DEF DeInitOk
<1>22. CASE Nfa                BY <1>22 DEF Nfa
<1>23. CASE DiscoveryResult    BY <1>23 DEF DiscoveryResult
<1>24. CASE Pull               BY <1>24 DEF Pull
<1>25. ASSUME NEW i \in Lives, Contact(i) PROVE Threads'
  BY <1>25 DEF Contact
<1>26. ASSUME NEW i \in Lives, HandlerDone(i) PROVE Threads'
  BY <1>26 DEF HandlerDone
<1>27. ASSUME NEW i \in Lives, IntegrationWake(i) PROVE Threads'
  BY SMTT(30), <1>27 DEF IntegrationWake
<1>28. ASSUME NEW i \in Lives, IntegrationDone(i) PROVE Threads'
  <2>1. CASE integration' = [integration EXCEPT ![i] = "waiting"]
    BY <1>28, <2>1 DEF IntegrationDone
  <2>2. CASE integration' = [integration EXCEPT ![i] = "exited"]
    BY <1>28, <2>2 DEF IntegrationDone
  <2> QED BY <1>28, <2>1, <2>2 DEF IntegrationDone
<1>29. CASE ContactEnds        BY <1>29 DEF ContactEnds
<1>30. CASE UNCHANGED vars     BY <1>30 DEF vars
<1> QED
  BY <1>1, <1>2, <1>3, <1>4, <1>5, <1>6, <1>7, <1>8, <1>9, <1>10, <1>11,
     <1>12, <1>13, <1>14, <1>15, <1>16, <1>17, <1>18, <1>19, <1>20, <1>21,
     <1>22, <1>23, <1>24, <1>25, <1>26, <1>27, <1>28, <1>29, <1>30
  DEF Next, Call, Integration

LEMMA TypedThreads == Spec => [](Typed /\ Threads)
<1>1. Init => Typed /\ Threads
  <2>1. Init => Threads
    BY DEF Init, Threads, OwnSemaphoreLives
  <2> QED BY InitTyped, <2>1
<1>2. Typed /\ Threads /\ [Next]_vars => (Typed /\ Threads)'
  BY TypeStep, HandlesStep, ThreadsStep DEF Typed
<1> QED BY <1>1, <1>2, PTL DEF Spec

(* Every variable keeps its type, for any number of lives and any failure. *)
THEOREM TypeCorrect == Spec => []TypeOK
<1>1. Typed /\ Threads => TypeOK
  BY DEF Typed
<1> QED BY <1>1, TypedThreads, PTL

(* phOsal_SemaphoreDelete in phMwIf_DeInit comes after the end of the      *)
(* thread that was created with the semaphore, in every life.              *)
THEOREM SemaphoreOutlivesThread == Spec => []OwnSemaphoreLives
<1>1. Typed /\ Threads => OwnSemaphoreLives
  BY DEF Threads
<1> QED BY <1>1, TypedThreads, PTL

-----------------------------------------------------------------------------
(* The flags of the bridge and of the library agree between calls, and     *)
(* within a call they tell which half of it is under way.                  *)

StartSteps == {"LibInit", "CreateHandler", "CreateMwQueue", "CreateSemaphore",
               "CreateIntegration", "Enable", "AwaitEnabled", "Register"}
StopSteps == {"Stop", "Post", "Join", "DeleteSemaphore", "DestroyMwQueue"}
OpenSteps == {"InitOk", "LibDeInit", "Disable"}

Flags ==
  /\ pc \in StartSteps => ~bDtaInitialized /\ dtalibState = "DEINITIALIZED"
  /\ pc \in OpenSteps \cup StopSteps \cup {"AwaitDisabled", "MwDone"} => bDtaInitialized
  /\ pc = "DeInitOk" => ~bDtaInitialized
  /\ pc = "idle" => (bDtaInitialized <=> dtalibState = "INITIALIZED")
  /\ bDtaInitialized => mwIfCb

LEMMA FlagsStep ==
  ASSUME Typed, Flags, [Next]_vars
  PROVE  Flags'
<1>0. /\ dtalibState \in {"INITIALIZED", "DEINITIALIZED"}
      /\ bDtaInitialized \in BOOLEAN /\ mwIfCb \in BOOLEAN
  BY DEF Typed, TypeOK
<1> USE <1>0 DEF Flags, StartSteps, StopSteps, OpenSteps, Goto,
           libVars, mwHandles, handlerVars, integrationVars, stackVars
<1>1. CASE JniInit             BY <1>1 DEF JniInit
<1>2. CASE JniDeInit           BY <1>2 DEF JniDeInit
<1>3. CASE LibInit             BY <1>3 DEF LibInit
<1>4. CASE CreateHandler       BY <1>4 DEF CreateHandler
<1>5. CASE CreateMwQueue       BY <1>5 DEF CreateMwQueue
<1>6. CASE CreateSemaphore     BY <1>6 DEF CreateSemaphore
<1>7. CASE CreateIntegration   BY <1>7 DEF CreateIntegration
<1>8. CASE Enable              BY <1>8 DEF Enable
<1>9. CASE AwaitEnabled        BY <1>9 DEF AwaitEnabled, Await
<1>10. CASE Register           BY <1>10 DEF Register
<1>11. CASE InitOk             BY <1>11 DEF InitOk
<1>12. CASE LibDeInit          BY <1>12 DEF LibDeInit
<1>13. CASE Disable            BY <1>13 DEF Disable
<1>14. CASE AwaitDisabled      BY <1>14 DEF AwaitDisabled, Await
<1>15. CASE Stop               BY <1>15 DEF Stop
<1>16. CASE Post               BY <1>16 DEF Post
<1>17. CASE Join               BY <1>17 DEF Join
<1>18. CASE DeleteSemaphore    BY <1>18 DEF DeleteSemaphore
<1>19. CASE DestroyMwQueue     BY <1>19 DEF DestroyMwQueue
<1>20. CASE MwDone             BY <1>20 DEF MwDone
<1>21. CASE DeInitOk           BY <1>21 DEF DeInitOk
<1>22. CASE Nfa                BY <1>22 DEF Nfa
<1>23. CASE DiscoveryResult    BY <1>23 DEF DiscoveryResult
<1>24. CASE Pull               BY <1>24 DEF Pull
<1>25. ASSUME NEW i \in Lives, Contact(i) PROVE Flags'
  BY <1>25 DEF Contact
<1>26. ASSUME NEW i \in Lives, HandlerDone(i) PROVE Flags'
  BY <1>26 DEF HandlerDone
<1>27. ASSUME NEW i \in Lives, IntegrationWake(i) PROVE Flags'
  BY <1>27 DEF IntegrationWake
<1>28. ASSUME NEW i \in Lives, IntegrationDone(i) PROVE Flags'
  BY <1>28 DEF IntegrationDone
<1>29. CASE ContactEnds        BY <1>29 DEF ContactEnds
<1>30. CASE UNCHANGED vars     BY <1>30 DEF vars
<1> QED
  BY <1>1, <1>2, <1>3, <1>4, <1>5, <1>6, <1>7, <1>8, <1>9, <1>10, <1>11,
     <1>12, <1>13, <1>14, <1>15, <1>16, <1>17, <1>18, <1>19, <1>20, <1>21,
     <1>22, <1>23, <1>24, <1>25, <1>26, <1>27, <1>28, <1>29, <1>30
  DEF Next, Call, Integration

-----------------------------------------------------------------------------
(* A session is what the bridge takes it for as long as each wait reads    *)
(* what the stack did with the latest command.                             *)

Built ==
  /\ pc \in {"CreateSemaphore", "CreateIntegration", "Enable", "AwaitEnabled",
             "AwaitDisabled"} \cup StopSteps => mwQueueLive
  /\ pc \in {"CreateIntegration", "Enable", "AwaitEnabled", "AwaitDisabled"}
     => pvSemIntgrnThrd \in semLive

Opened == pc \in {"Register"} \cup OpenSteps \/ (pc = "idle" /\ bDtaInitialized)

Session == Opened => stack = "on" /\ mwQueueLive /\ pvSemIntgrnThrd \in semLive

TearDown == /\ pc \in StopSteps => stack = "off" /\ nfaIn = <<>>
            /\ NothingAfterTearDown

Sessions == Flags /\ Built /\ Session /\ TearDown

Answered ==
  /\ pc = "AwaitEnabled" /\ mwQueue # <<>> /\ Head(mwQueue) = "ENABLED" => stack = "on"
  /\ pc = "AwaitDisabled" /\ mwQueue # <<>> /\ Head(mwQueue) = "DISABLED"
     => stack = "off" /\ nfaIn = <<>>
  /\ Opened /\ nfaIn # <<>> => Head(nfaIn) # "Disable"

LEMMA BuiltStep ==
  ASSUME Typed, Sessions, [Next]_vars
  PROVE  Built'
<1>0. Built /\ Session
  BY DEF Sessions
<1> USE <1>0 DEF Built, Session, Opened, StopSteps, OpenSteps, Goto,
           libVars, mwHandles, handlerVars, integrationVars, stackVars
<1>1. CASE JniInit             BY <1>1 DEF JniInit
<1>2. CASE JniDeInit           BY <1>2 DEF JniDeInit
<1>3. CASE LibInit             BY <1>3 DEF LibInit
<1>4. CASE CreateHandler       BY <1>4 DEF CreateHandler
<1>5. CASE CreateMwQueue       BY <1>5 DEF CreateMwQueue
<1>6. CASE CreateSemaphore     BY <1>6 DEF CreateSemaphore
<1>7. CASE CreateIntegration   BY <1>7 DEF CreateIntegration
<1>8. CASE Enable              BY <1>8 DEF Enable
<1>9. CASE AwaitEnabled        BY <1>9 DEF AwaitEnabled, Await
<1>10. CASE Register           BY <1>10 DEF Register
<1>11. CASE InitOk             BY <1>11 DEF InitOk
<1>12. CASE LibDeInit          BY <1>12 DEF LibDeInit
<1>13. CASE Disable            BY <1>13 DEF Disable
<1>14. CASE AwaitDisabled      BY <1>14 DEF AwaitDisabled, Await
<1>15. CASE Stop               BY <1>15 DEF Stop
<1>16. CASE Post               BY <1>16 DEF Post
<1>17. CASE Join               BY <1>17 DEF Join
<1>18. CASE DeleteSemaphore    BY <1>18 DEF DeleteSemaphore
<1>19. CASE DestroyMwQueue     BY <1>19 DEF DestroyMwQueue
<1>20. CASE MwDone             BY <1>20 DEF MwDone
<1>21. CASE DeInitOk           BY <1>21 DEF DeInitOk
<1>22. CASE Nfa                BY <1>22 DEF Nfa
<1>23. CASE DiscoveryResult    BY <1>23 DEF DiscoveryResult
<1>24. CASE Pull               BY <1>24 DEF Pull
<1>25. ASSUME NEW i \in Lives, Contact(i) PROVE Built'
  BY <1>25 DEF Contact
<1>26. ASSUME NEW i \in Lives, HandlerDone(i) PROVE Built'
  BY <1>26 DEF HandlerDone
<1>27. ASSUME NEW i \in Lives, IntegrationWake(i) PROVE Built'
  BY <1>27 DEF IntegrationWake
<1>28. ASSUME NEW i \in Lives, IntegrationDone(i) PROVE Built'
  BY <1>28 DEF IntegrationDone
<1>29. CASE ContactEnds        BY <1>29 DEF ContactEnds
<1>30. CASE UNCHANGED vars     BY <1>30 DEF vars
<1> QED
  BY <1>1, <1>2, <1>3, <1>4, <1>5, <1>6, <1>7, <1>8, <1>9, <1>10, <1>11,
     <1>12, <1>13, <1>14, <1>15, <1>16, <1>17, <1>18, <1>19, <1>20, <1>21,
     <1>22, <1>23, <1>24, <1>25, <1>26, <1>27, <1>28, <1>29, <1>30
  DEF Next, Call, Integration

LEMMA SessionStep ==
  ASSUME Typed, Sessions, Answered, [Next]_vars
  PROVE  Session'
<1>0. /\ mwQueue \in Seq({"ENABLED", "DISABLED", "DEACTIVATED"})
      /\ nfaIn \in Seq({"Enable", "Disable"})
      /\ queueHdl \in Nat /\ pvSemIntgrnThrd \in Nat
      /\ dtalibState \in {"INITIALIZED", "DEINITIALIZED"}
  BY DEF Typed, TypeOK
<1> USE <1>0 DEF Sessions, Flags, Built, Session, Opened, Answered, StartSteps, StopSteps, OpenSteps,
           Goto,
           libVars, mwHandles, handlerVars, integrationVars, stackVars
<1>1. CASE JniInit             BY <1>1 DEF JniInit
<1>2. CASE JniDeInit           BY <1>2 DEF JniDeInit
<1>3. CASE LibInit             BY <1>3 DEF LibInit
<1>4. CASE CreateHandler       BY <1>4 DEF CreateHandler
<1>5. CASE CreateMwQueue       BY <1>5 DEF CreateMwQueue
<1>6. CASE CreateSemaphore     BY <1>6 DEF CreateSemaphore
<1>7. CASE CreateIntegration   BY <1>7 DEF CreateIntegration
<1>8. CASE Enable              BY <1>8 DEF Enable
<1>9. CASE AwaitEnabled        BY <1>9 DEF AwaitEnabled, Await
<1>10. CASE Register           BY <1>10 DEF Register
<1>11. CASE InitOk             BY <1>11 DEF InitOk
<1>12. CASE LibDeInit          BY <1>12 DEF LibDeInit
<1>13. CASE Disable            BY <1>13 DEF Disable
<1>14. CASE AwaitDisabled      BY <1>14 DEF AwaitDisabled, Await
<1>15. CASE Stop               BY <1>15 DEF Stop
<1>16. CASE Post               BY <1>16 DEF Post
<1>17. CASE Join               BY <1>17 DEF Join
<1>18. CASE DeleteSemaphore    BY <1>18 DEF DeleteSemaphore
<1>19. CASE DestroyMwQueue     BY <1>19 DEF DestroyMwQueue
<1>20. CASE MwDone             BY <1>20 DEF MwDone
<1>21. CASE DeInitOk           BY <1>21 DEF DeInitOk
<1>22. CASE Nfa                BY <1>22 DEF Nfa
<1>23. CASE DiscoveryResult    BY <1>23 DEF DiscoveryResult
<1>24. CASE Pull               BY <1>24 DEF Pull
<1>25. ASSUME NEW i \in Lives, Contact(i) PROVE Session'
  BY <1>25 DEF Contact
<1>26. ASSUME NEW i \in Lives, HandlerDone(i) PROVE Session'
  BY <1>26 DEF HandlerDone
<1>27. ASSUME NEW i \in Lives, IntegrationWake(i) PROVE Session'
  BY <1>27 DEF IntegrationWake
<1>28. ASSUME NEW i \in Lives, IntegrationDone(i) PROVE Session'
  BY <1>28 DEF IntegrationDone
<1>29. CASE ContactEnds        BY <1>29 DEF ContactEnds
<1>30. CASE UNCHANGED vars     BY <1>30 DEF vars
<1> QED
  BY <1>1, <1>2, <1>3, <1>4, <1>5, <1>6, <1>7, <1>8, <1>9, <1>10, <1>11,
     <1>12, <1>13, <1>14, <1>15, <1>16, <1>17, <1>18, <1>19, <1>20, <1>21,
     <1>22, <1>23, <1>24, <1>25, <1>26, <1>27, <1>28, <1>29, <1>30
  DEF Next, Call, Integration

LEMMA TearDownStep ==
  ASSUME Typed, Sessions, Answered, [Next]_vars
  PROVE  TearDown'
<1>0. /\ mwQueue \in Seq({"ENABLED", "DISABLED", "DEACTIVATED"})
      /\ nfaIn \in Seq({"Enable", "Disable"})
      /\ queueHdl \in Nat /\ pvSemIntgrnThrd \in Nat
      /\ dtalibState \in {"INITIALIZED", "DEINITIALIZED"}
  BY DEF Typed, TypeOK
<1> USE <1>0 DEF Sessions, Built, Session, Opened, Answered, TearDown, NothingAfterTearDown,
           StartSteps, StopSteps, OpenSteps, Goto,
           libVars, mwHandles, handlerVars, integrationVars, stackVars
<1>1. CASE JniInit             BY <1>1 DEF JniInit
<1>2. CASE JniDeInit           BY <1>2 DEF JniDeInit
<1>3. CASE LibInit             BY <1>3 DEF LibInit
<1>4. CASE CreateHandler       BY <1>4 DEF CreateHandler
<1>5. CASE CreateMwQueue       BY <1>5 DEF CreateMwQueue
<1>6. CASE CreateSemaphore     BY <1>6 DEF CreateSemaphore
<1>7. CASE CreateIntegration   BY <1>7 DEF CreateIntegration
<1>8. CASE Enable              BY <1>8 DEF Enable
<1>9. CASE AwaitEnabled        BY <1>9 DEF AwaitEnabled, Await
<1>10. CASE Register           BY <1>10 DEF Register
<1>11. CASE InitOk             BY <1>11 DEF InitOk
<1>12. CASE LibDeInit          BY <1>12 DEF LibDeInit
<1>13. CASE Disable            BY <1>13 DEF Disable
<1>14. CASE AwaitDisabled      BY <1>14 DEF AwaitDisabled, Await
<1>15. CASE Stop               BY <1>15 DEF Stop
<1>16. CASE Post               BY <1>16 DEF Post
<1>17. CASE Join               BY <1>17 DEF Join
<1>18. CASE DeleteSemaphore    BY <1>18 DEF DeleteSemaphore
<1>19. CASE DestroyMwQueue     BY <1>19 DEF DestroyMwQueue
<1>20. CASE MwDone             BY <1>20 DEF MwDone
<1>21. CASE DeInitOk           BY <1>21 DEF DeInitOk
<1>22. CASE Nfa                BY <1>22 DEF Nfa
<1>23. CASE DiscoveryResult    BY <1>23 DEF DiscoveryResult
<1>24. CASE Pull               BY <1>24 DEF Pull
<1>25. ASSUME NEW i \in Lives, Contact(i) PROVE TearDown'
  BY <1>25 DEF Contact
<1>26. ASSUME NEW i \in Lives, HandlerDone(i) PROVE TearDown'
  BY <1>26 DEF HandlerDone
<1>27. ASSUME NEW i \in Lives, IntegrationWake(i) PROVE TearDown'
  BY <1>27 DEF IntegrationWake
<1>28. ASSUME NEW i \in Lives, IntegrationDone(i) PROVE TearDown'
  BY <1>28 DEF IntegrationDone
<1>29. CASE ContactEnds        BY <1>29 DEF ContactEnds
<1>30. CASE UNCHANGED vars     BY <1>30 DEF vars
<1> QED
  BY <1>1, <1>2, <1>3, <1>4, <1>5, <1>6, <1>7, <1>8, <1>9, <1>10, <1>11,
     <1>12, <1>13, <1>14, <1>15, <1>16, <1>17, <1>18, <1>19, <1>20, <1>21,
     <1>22, <1>23, <1>24, <1>25, <1>26, <1>27, <1>28, <1>29, <1>30
  DEF Next, Call, Integration

LEMMA SessionsStep ==
  ASSUME Typed, Sessions, Answered, [Next]_vars
  PROVE  Sessions'
BY FlagsStep, BuiltStep, SessionStep, TearDownStep DEF Sessions

LEMMA InitSessions == Init => Sessions
BY DEF Init, Sessions, Flags, Built, Session, Opened, TearDown, NothingAfterTearDown,
       StartSteps, StopSteps, OpenSteps

(* What is in the queue before the next start creates its own is not read. *)
Stale == \/ pc \in {"MwDone", "DeInitOk", "LibInit", "CreateHandler", "CreateMwQueue"}
         \/ pc = "idle" /\ ~bDtaInitialized

-----------------------------------------------------------------------------
(* When no stop is abandoned a disable is the last command, and            *)
(* phMwIfi_StackDeInit waits for it.                                       *)

StopCommands ==
  \A j \in 1 .. Len(nfaIn) :
    nfaIn[j] = "Disable" => pc = "AwaitDisabled" /\ j = Len(nfaIn)

StopEvents ==
  \A j \in 1 .. Len(mwQueue) :
    /\ mwQueue[j] = "DISABLED" =>
         \/ Stale
         \/ pc = "AwaitDisabled" /\ j = Len(mwQueue) /\ stack = "off" /\ nfaIn = <<>>
    /\ mwQueue[j] = "ENABLED" =>
         Stale \/ pc \in {"AwaitDisabled"} \cup StopSteps \/ stack = "on"

StopsInOrder == Sessions /\ StopCommands /\ StopEvents

LEMMA StopCommandsStep ==
  ASSUME "DisableAbandoned" \notin MayFail, Typed, StopsInOrder, [Next]_vars
  PROVE  StopCommands'
<1>0. /\ mwQueue \in Seq({"ENABLED", "DISABLED", "DEACTIVATED"})
      /\ nfaIn \in Seq({"Enable", "Disable"})
      /\ queueHdl \in Nat /\ pvSemIntgrnThrd \in Nat
      /\ dtalibState \in {"INITIALIZED", "DEINITIALIZED"}
  BY DEF Typed, TypeOK
<1> USE <1>0 DEF StopsInOrder, StopCommands, Goto,
           libVars, mwHandles, handlerVars, integrationVars, stackVars
<1>1. CASE JniInit             BY <1>1 DEF JniInit
<1>2. CASE JniDeInit           BY <1>2 DEF JniDeInit
<1>3. CASE LibInit             BY <1>3 DEF LibInit
<1>4. CASE CreateHandler       BY <1>4 DEF CreateHandler
<1>5. CASE CreateMwQueue       BY <1>5 DEF CreateMwQueue
<1>6. CASE CreateSemaphore     BY <1>6 DEF CreateSemaphore
<1>7. CASE CreateIntegration   BY <1>7 DEF CreateIntegration
<1>8. CASE Enable
  <2>1. CASE nfaIn' = nfaIn
    BY <1>8, <2>1 DEF Enable
  <2>2. CASE nfaIn' = Append(nfaIn, "Enable")
    <3>1. Len(nfaIn') = Len(nfaIn) + 1 /\ nfaIn'[Len(nfaIn) + 1] = "Enable"
      BY <2>2
    <3>2. \A j \in 1 .. Len(nfaIn) : nfaIn'[j] = nfaIn[j]
      BY <2>2
    <3> QED BY <1>8, <3>1, <3>2 DEF Enable
  <2> QED BY <1>8, <2>1, <2>2 DEF Enable
<1>9. CASE AwaitEnabled        BY <1>9 DEF AwaitEnabled, Await
<1>10. CASE Register           BY <1>10 DEF Register
<1>11. CASE InitOk             BY <1>11 DEF InitOk
<1>12. CASE LibDeInit          BY <1>12 DEF LibDeInit
<1>13. CASE Disable
  <2>1. CASE nfaIn' = nfaIn
    BY <1>13, <2>1 DEF Disable
  <2>2. CASE nfaIn' = Append(nfaIn, "Disable")
    <3>1. Len(nfaIn') = Len(nfaIn) + 1 /\ nfaIn'[Len(nfaIn) + 1] = "Disable"
      BY <2>2
    <3>2. \A j \in 1 .. Len(nfaIn) : nfaIn'[j] = nfaIn[j]
      BY <2>2
    <3> QED BY <1>13, <3>1, <3>2 DEF Disable
  <2> QED BY <1>13, <2>1, <2>2 DEF Disable
<1>14. CASE AwaitDisabled
  <2>1. /\ pc = "AwaitDisabled" /\ nfaIn' = nfaIn
        /\ pc' = "AwaitDisabled" \/ nfaIn = <<>>
           \/ (mwQueue # <<>> /\ Head(mwQueue) = "DISABLED")
    BY <1>14 DEF AwaitDisabled, Await
  <2>2. mwQueue # <<>> /\ Head(mwQueue) = "DISABLED" => nfaIn = <<>>
    BY <2>1 DEF StopEvents, Stale
  <2> QED BY <2>1, <2>2
<1>15. CASE Stop               BY <1>15 DEF Stop
<1>16. CASE Post               BY <1>16 DEF Post
<1>17. CASE Join               BY <1>17 DEF Join
<1>18. CASE DeleteSemaphore    BY <1>18 DEF DeleteSemaphore
<1>19. CASE DestroyMwQueue     BY <1>19 DEF DestroyMwQueue
<1>20. CASE MwDone             BY <1>20 DEF MwDone
<1>21. CASE DeInitOk           BY <1>21 DEF DeInitOk
<1>22. CASE Nfa                BY <1>22 DEF Nfa
<1>23. CASE DiscoveryResult    BY <1>23 DEF DiscoveryResult
<1>24. CASE Pull               BY <1>24 DEF Pull
<1>25. ASSUME NEW i \in Lives, Contact(i) PROVE StopCommands'
  BY <1>25 DEF Contact
<1>26. ASSUME NEW i \in Lives, HandlerDone(i) PROVE StopCommands'
  BY <1>26 DEF HandlerDone
<1>27. ASSUME NEW i \in Lives, IntegrationWake(i) PROVE StopCommands'
  BY <1>27 DEF IntegrationWake
<1>28. ASSUME NEW i \in Lives, IntegrationDone(i) PROVE StopCommands'
  BY <1>28 DEF IntegrationDone
<1>29. CASE ContactEnds        BY <1>29 DEF ContactEnds
<1>30. CASE UNCHANGED vars     BY <1>30 DEF vars
<1> QED
  BY <1>1, <1>2, <1>3, <1>4, <1>5, <1>6, <1>7, <1>8, <1>9, <1>10, <1>11,
     <1>12, <1>13, <1>14, <1>15, <1>16, <1>17, <1>18, <1>19, <1>20, <1>21,
     <1>22, <1>23, <1>24, <1>25, <1>26, <1>27, <1>28, <1>29, <1>30
  DEF Next, Call, Integration

LEMMA StopEventsStep ==
  ASSUME "DisableAbandoned" \notin MayFail, Typed, StopsInOrder, [Next]_vars
  PROVE  StopEvents'
<1>0. /\ mwQueue \in Seq({"ENABLED", "DISABLED", "DEACTIVATED"})
      /\ nfaIn \in Seq({"Enable", "Disable"})
      /\ queueHdl \in Nat /\ pvSemIntgrnThrd \in Nat
      /\ dtalibState \in {"INITIALIZED", "DEINITIALIZED"}
  BY DEF Typed, TypeOK
<1> USE <1>0 DEF StopsInOrder, Sessions, Flags, StopCommands, StopEvents, Stale, TearDown,
           NothingAfterTearDown, StartSteps, StopSteps, OpenSteps, Goto,
           libVars, mwHandles, handlerVars, integrationVars, stackVars
<1>1. CASE JniInit             BY <1>1 DEF JniInit
<1>2. CASE JniDeInit           BY <1>2 DEF JniDeInit
<1>3. CASE LibInit             BY <1>3 DEF LibInit
<1>4. CASE CreateHandler       BY <1>4 DEF CreateHandler
<1>5. CASE CreateMwQueue       BY <1>5 DEF CreateMwQueue
<1>6. CASE CreateSemaphore     BY <1>6 DEF CreateSemaphore
<1>7. CASE CreateIntegration   BY <1>7 DEF CreateIntegration
<1>8. CASE Enable              BY <1>8 DEF Enable
<1>9. CASE AwaitEnabled
  <2>1. CASE mwQueue' = mwQueue
    BY <1>9, <2>1 DEF AwaitEnabled, Await
  <2>2. CASE mwQueue # <<>> /\ mwQueue' = Tail(mwQueue)
    <3>1. Len(mwQueue') = Len(mwQueue) - 1 /\ Len(mwQueue) \in Nat
      BY <2>2
    <3>2. \A j \in 1 .. Len(mwQueue') : mwQueue'[j] = mwQueue[j + 1]
      BY <2>2
    <3>3. pc = "AwaitEnabled" /\ stack' = stack
      BY <1>9 DEF AwaitEnabled, Await
    <3>4. \A j \in 1 .. Len(mwQueue) :
            mwQueue[j] # "DISABLED" /\ (mwQueue[j] = "ENABLED" => stack = "on")
      BY <3>3
    <3>5. \A j \in 1 .. Len(mwQueue') :
            mwQueue'[j] # "DISABLED" /\ (mwQueue'[j] = "ENABLED" => stack' = "on")
      BY <3>1, <3>2, <3>3, <3>4
    <3> QED BY <3>5
  <2> QED BY <1>9, <2>1, <2>2 DEF AwaitEnabled, Await
<1>10. CASE Register           BY <1>10 DEF Register
<1>11. CASE InitOk             BY <1>11 DEF InitOk
<1>12. CASE LibDeInit          BY <1>12 DEF LibDeInit
<1>13. CASE Disable            BY <1>13 DEF Disable
<1>14. CASE AwaitDisabled
  <2>1. CASE pc' = "MwDone"
    BY <2>1
  <2>2. CASE pc' # "MwDone"
    <3>1. /\ mwQueue # <<>> /\ mwQueue' = Tail(mwQueue) /\ UNCHANGED <<stack, nfaIn>>
          /\ pc = "AwaitDisabled"
          /\ pc' = IF Head(mwQueue) = "DISABLED" THEN "Stop" ELSE "AwaitDisabled"
      BY <1>14, <2>2 DEF AwaitDisabled, Await
    <3>2. Len(mwQueue') = Len(mwQueue) - 1 /\ Len(mwQueue) \in Nat
          /\ Head(mwQueue) = mwQueue[1] /\ Len(mwQueue) > 0
      BY <3>1
    <3>3. \A j \in 1 .. Len(mwQueue') : mwQueue'[j] = mwQueue[j + 1]
      BY <3>1
    <3>4. \A j \in 1 .. Len(mwQueue) : mwQueue[j] = "DISABLED" =>
            j = Len(mwQueue) /\ stack = "off" /\ nfaIn = <<>>
      BY <3>1
    <3>5. CASE Head(mwQueue) = "DISABLED"
      <4>1. Len(mwQueue) = 1
        BY <3>2, <3>4, <3>5
      <4> QED BY <3>2, <4>1
    <3>6. CASE Head(mwQueue) # "DISABLED"
      <4>1. pc' = "AwaitDisabled"
        BY <3>1, <3>6
      <4>2. \A j \in 1 .. Len(mwQueue') : mwQueue'[j] = "DISABLED" =>
              j = Len(mwQueue') /\ stack' = "off" /\ nfaIn' = <<>>
        <5> TAKE j \in 1 .. Len(mwQueue')
        <5>1. j + 1 \in 1 .. Len(mwQueue) /\ mwQueue'[j] = mwQueue[j + 1]
          BY <3>2, <3>3
        <5>2. mwQueue[j + 1] = "DISABLED" =>
                j + 1 = Len(mwQueue) /\ stack = "off" /\ nfaIn = <<>>
          BY <5>1, <3>4
        <5>3. j + 1 = Len(mwQueue) => j = Len(mwQueue')
          BY <3>2, j \in 1 .. Len(mwQueue')
        <5> QED BY <3>1, <5>1, <5>2, <5>3
      <4> QED BY <4>1, <4>2
    <3> QED BY <3>5, <3>6
  <2> QED BY <2>1, <2>2
<1>15. CASE Stop               BY <1>15 DEF Stop
<1>16. CASE Post               BY <1>16 DEF Post
<1>17. CASE Join               BY <1>17 DEF Join
<1>18. CASE DeleteSemaphore    BY <1>18 DEF DeleteSemaphore
<1>19. CASE DestroyMwQueue     BY <1>19 DEF DestroyMwQueue
<1>20. CASE MwDone             BY <1>20 DEF MwDone
<1>21. CASE DeInitOk           BY <1>21 DEF DeInitOk
<1>22. CASE Nfa                BY <1>22 DEF Nfa
<1>23. CASE DiscoveryResult    BY <1>23 DEF DiscoveryResult
<1>24. CASE Pull               BY <1>24 DEF Pull
<1>25. ASSUME NEW i \in Lives, Contact(i) PROVE StopEvents'
  BY <1>25 DEF Contact
<1>26. ASSUME NEW i \in Lives, HandlerDone(i) PROVE StopEvents'
  BY <1>26 DEF HandlerDone
<1>27. ASSUME NEW i \in Lives, IntegrationWake(i) PROVE StopEvents'
  BY <1>27 DEF IntegrationWake
<1>28. ASSUME NEW i \in Lives, IntegrationDone(i) PROVE StopEvents'
  BY <1>28 DEF IntegrationDone
<1>29. CASE ContactEnds        BY <1>29 DEF ContactEnds
<1>30. CASE UNCHANGED vars     BY <1>30 DEF vars
<1> QED
  BY <1>1, <1>2, <1>3, <1>4, <1>5, <1>6, <1>7, <1>8, <1>9, <1>10, <1>11,
     <1>12, <1>13, <1>14, <1>15, <1>16, <1>17, <1>18, <1>19, <1>20, <1>21,
     <1>22, <1>23, <1>24, <1>25, <1>26, <1>27, <1>28, <1>29, <1>30
  DEF Next, Call, Integration

LEMMA StopsHold ==
  ASSUME "DisableAbandoned" \notin MayFail
  PROVE  Spec => [](Typed /\ Sessions)
<1>1. Init => Typed /\ StopsInOrder
  <2>1. Init => StopCommands /\ StopEvents
    BY DEF Init, StopCommands, StopEvents
  <2> QED BY InitTyped, InitSessions, <2>1 DEF StopsInOrder
<1>2. Typed /\ StopsInOrder /\ [Next]_vars => (Typed /\ StopsInOrder)'
  <2> SUFFICES ASSUME Typed, StopsInOrder, [Next]_vars PROVE (Typed /\ StopsInOrder)'
    OBVIOUS
  <2>1. Typed'
    BY TypeStep, HandlesStep DEF Typed
  <2>2. Answered
    <3>1. /\ mwQueue \in Seq({"ENABLED", "DISABLED", "DEACTIVATED"})
          /\ nfaIn \in Seq({"Enable", "Disable"})
      BY DEF Typed, TypeOK
    <3> QED BY <3>1 DEF Answered, Opened, Stale, StopsInOrder, StopCommands, StopEvents,
                        StopSteps, OpenSteps
  <2>3. Sessions'
    BY <2>2, SessionsStep DEF StopsInOrder
  <2>4. StopCommands' /\ StopEvents'
    BY StopCommandsStep, StopEventsStep
  <2> QED BY <2>1, <2>3, <2>4 DEF StopsInOrder
<1>3. Typed /\ StopsInOrder => Typed /\ Sessions
  BY DEF StopsInOrder
<1> QED BY <1>1, <1>2, <1>3, PTL DEF Spec

-----------------------------------------------------------------------------
(* When no start is abandoned an enable is the last command, and           *)
(* phMwIfi_StackInit waits for it: what abandoned stops left comes before. *)

StartCommands ==
  /\ \A j \in 1 .. Len(nfaIn) :
       nfaIn[j] = "Enable" => pc = "AwaitEnabled" /\ j = Len(nfaIn)
  /\ Opened => nfaIn = <<>>
  /\ pc = "AwaitDisabled" => Len(nfaIn) <= 1

StartEvents ==
  \A j \in 1 .. Len(mwQueue) :
    /\ mwQueue[j] = "ENABLED" =>
         \/ Stale
         \/ /\ pc = "AwaitEnabled" /\ stack = "on" /\ nfaIn = <<>>
            /\ \A k \in j + 1 .. Len(mwQueue) : mwQueue[k] = "DEACTIVATED"
    /\ mwQueue[j] = "DISABLED" =>
         ~Opened /\ (pc = "AwaitDisabled" => stack = "off" /\ nfaIn = <<>>)

StartsInOrder == Sessions /\ StartCommands /\ StartEvents

LEMMA StartCommandsStep ==
  ASSUME "EnableAbandoned" \notin MayFail, Typed, StartsInOrder, [Next]_vars
  PROVE  StartCommands'
<1>0. /\ mwQueue \in Seq({"ENABLED", "DISABLED", "DEACTIVATED"})
      /\ nfaIn \in Seq({"Enable", "Disable"})
      /\ queueHdl \in Nat /\ pvSemIntgrnThrd \in Nat
      /\ dtalibState \in {"INITIALIZED", "DEINITIALIZED"}
  BY DEF Typed, TypeOK
<1> USE <1>0 DEF StartsInOrder, Sessions, Flags, TearDown, StartCommands, StartEvents, Opened, Stale,
           StartSteps, StopSteps, OpenSteps, Goto,
           libVars, mwHandles, handlerVars, integrationVars, stackVars
<1>1. CASE JniInit             BY <1>1 DEF JniInit
<1>2. CASE JniDeInit           BY <1>2 DEF JniDeInit
<1>3. CASE LibInit             BY <1>3 DEF LibInit
<1>4. CASE CreateHandler       BY <1>4 DEF CreateHandler
<1>5. CASE CreateMwQueue       BY <1>5 DEF CreateMwQueue
<1>6. CASE CreateSemaphore     BY <1>6 DEF CreateSemaphore
<1>7. CASE CreateIntegration   BY <1>7 DEF CreateIntegration
<1>8. CASE Enable
  <2>1. CASE nfaIn' = nfaIn
    BY <1>8, <2>1 DEF Enable
  <2>2. CASE nfaIn' = Append(nfaIn, "Enable")
    <3>1. Len(nfaIn') = Len(nfaIn) + 1 /\ nfaIn'[Len(nfaIn) + 1] = "Enable"
      BY <2>2
    <3>2. \A j \in 1 .. Len(nfaIn) : nfaIn'[j] = nfaIn[j]
      BY <2>2
    <3> QED BY <1>8, <3>1, <3>2 DEF Enable
  <2> QED BY <1>8, <2>1, <2>2 DEF Enable
<1>9. CASE AwaitEnabled        BY <1>9 DEF AwaitEnabled, Await
<1>10. CASE Register           BY <1>10 DEF Register
<1>11. CASE InitOk             BY <1>11 DEF InitOk
<1>12. CASE LibDeInit          BY <1>12 DEF LibDeInit
<1>13. CASE Disable
  <2>1. CASE nfaIn' = nfaIn
    BY <1>13, <2>1 DEF Disable
  <2>2. CASE nfaIn' = Append(nfaIn, "Disable")
    <3>1. Len(nfaIn') = Len(nfaIn) + 1 /\ nfaIn'[Len(nfaIn) + 1] = "Disable"
      BY <2>2
    <3>2. \A j \in 1 .. Len(nfaIn) : nfaIn'[j] = nfaIn[j]
      BY <2>2
    <3> QED BY <1>13, <3>1, <3>2 DEF Disable
  <2> QED BY <1>13, <2>1, <2>2 DEF Disable
<1>14. CASE AwaitDisabled      BY <1>14 DEF AwaitDisabled, Await
<1>15. CASE Stop               BY <1>15 DEF Stop
<1>16. CASE Post               BY <1>16 DEF Post
<1>17. CASE Join               BY <1>17 DEF Join
<1>18. CASE DeleteSemaphore    BY <1>18 DEF DeleteSemaphore
<1>19. CASE DestroyMwQueue     BY <1>19 DEF DestroyMwQueue
<1>20. CASE MwDone             BY <1>20 DEF MwDone
<1>21. CASE DeInitOk           BY <1>21 DEF DeInitOk
<1>22. CASE Nfa                BY <1>22 DEF Nfa
<1>23. CASE DiscoveryResult    BY <1>23 DEF DiscoveryResult
<1>24. CASE Pull               BY <1>24 DEF Pull
<1>25. ASSUME NEW i \in Lives, Contact(i) PROVE StartCommands'
  BY <1>25 DEF Contact
<1>26. ASSUME NEW i \in Lives, HandlerDone(i) PROVE StartCommands'
  BY <1>26 DEF HandlerDone
<1>27. ASSUME NEW i \in Lives, IntegrationWake(i) PROVE StartCommands'
  BY <1>27 DEF IntegrationWake
<1>28. ASSUME NEW i \in Lives, IntegrationDone(i) PROVE StartCommands'
  BY <1>28 DEF IntegrationDone
<1>29. CASE ContactEnds        BY <1>29 DEF ContactEnds
<1>30. CASE UNCHANGED vars     BY <1>30 DEF vars
<1> QED
  BY <1>1, <1>2, <1>3, <1>4, <1>5, <1>6, <1>7, <1>8, <1>9, <1>10, <1>11,
     <1>12, <1>13, <1>14, <1>15, <1>16, <1>17, <1>18, <1>19, <1>20, <1>21,
     <1>22, <1>23, <1>24, <1>25, <1>26, <1>27, <1>28, <1>29, <1>30
  DEF Next, Call, Integration

LEMMA StartEventsStep ==
  ASSUME "EnableAbandoned" \notin MayFail, Typed, StartsInOrder, [Next]_vars
  PROVE  StartEvents'
<1>0. /\ mwQueue \in Seq({"ENABLED", "DISABLED", "DEACTIVATED"})
      /\ nfaIn \in Seq({"Enable", "Disable"})
      /\ queueHdl \in Nat /\ pvSemIntgrnThrd \in Nat
      /\ dtalibState \in {"INITIALIZED", "DEINITIALIZED"}
  BY DEF Typed, TypeOK
<1> USE <1>0 DEF StartsInOrder, Sessions, Flags, StartCommands, StartEvents, Stale, Opened,
           StartSteps, StopSteps, OpenSteps, Goto,
           libVars, mwHandles, handlerVars, integrationVars, stackVars
<1>1. CASE JniInit             BY <1>1 DEF JniInit
<1>2. CASE JniDeInit           BY <1>2 DEF JniDeInit
<1>3. CASE LibInit             BY <1>3 DEF LibInit
<1>4. CASE CreateHandler       BY <1>4 DEF CreateHandler
<1>5. CASE CreateMwQueue       BY <1>5 DEF CreateMwQueue
<1>6. CASE CreateSemaphore     BY <1>6 DEF CreateSemaphore
<1>7. CASE CreateIntegration   BY <1>7 DEF CreateIntegration
<1>8. CASE Enable              BY <1>8 DEF Enable
<1>9. CASE AwaitEnabled
  <2>1. CASE pc' = "idle"
    <3>1. pc = "AwaitEnabled" /\ bDtaInitialized' = bDtaInitialized /\ ~bDtaInitialized
      BY <1>9 DEF AwaitEnabled, Await
    <3> QED BY <2>1, <3>1
  <2>2. CASE pc' # "idle"
    <3>1. /\ mwQueue # <<>> /\ mwQueue' = Tail(mwQueue) /\ UNCHANGED <<stack, nfaIn>>
          /\ pc = "AwaitEnabled"
          /\ pc' = IF Head(mwQueue) = "ENABLED" THEN "Register" ELSE "AwaitEnabled"
      BY <1>9, <2>2 DEF AwaitEnabled, Await
    <3>2. Len(mwQueue') = Len(mwQueue) - 1 /\ Len(mwQueue) \in Nat
          /\ Head(mwQueue) = mwQueue[1] /\ Len(mwQueue) > 0
      BY <3>1
    <3>3. \A j \in 1 .. Len(mwQueue') : mwQueue'[j] = mwQueue[j + 1]
      BY <3>1
    <3>4. \A j \in 1 .. Len(mwQueue) : mwQueue[j] = "ENABLED" =>
            /\ stack = "on" /\ nfaIn = <<>>
            /\ \A k \in j + 1 .. Len(mwQueue) : mwQueue[k] = "DEACTIVATED"
      BY <3>1
    <3>5. CASE Head(mwQueue) = "ENABLED"
      <4>1. \A j \in 1 .. Len(mwQueue') : mwQueue'[j] = "DEACTIVATED"
        BY <3>2, <3>3, <3>4, <3>5
      <4> QED BY <4>1
    <3>6. CASE Head(mwQueue) # "ENABLED"
      <4>1. pc' = "AwaitEnabled"
        BY <3>1, <3>6
      <4>2. \A j \in 1 .. Len(mwQueue') : mwQueue'[j] = "ENABLED" =>
              /\ stack' = "on" /\ nfaIn' = <<>>
              /\ \A k \in j + 1 .. Len(mwQueue') : mwQueue'[k] = "DEACTIVATED"
        BY <3>1, <3>2, <3>3, <3>4
      <4> QED BY <4>1, <4>2
    <3> QED BY <3>5, <3>6
  <2> QED BY <2>1, <2>2
<1>10. CASE Register           BY <1>10 DEF Register
<1>11. CASE InitOk             BY <1>11 DEF InitOk
<1>12. CASE LibDeInit          BY <1>12 DEF LibDeInit
<1>13. CASE Disable            BY <1>13 DEF Disable
<1>14. CASE AwaitDisabled
  <2>1. CASE pc' = "MwDone"
    BY <2>1
  <2>2. CASE pc' # "MwDone"
    <3>1. /\ mwQueue # <<>> /\ mwQueue' = Tail(mwQueue) /\ UNCHANGED <<stack, nfaIn>>
          /\ pc = "AwaitDisabled" /\ pc' \in {"Stop", "AwaitDisabled"}
      BY <1>14, <2>2 DEF AwaitDisabled, Await
    <3>2. Len(mwQueue') = Len(mwQueue) - 1 /\ Len(mwQueue) \in Nat
      BY <3>1
    <3>3. \A j \in 1 .. Len(mwQueue') : mwQueue'[j] = mwQueue[j + 1]
      BY <3>1
    <3>4. \A j \in 1 .. Len(mwQueue) :
            mwQueue[j] # "ENABLED" /\
            (mwQueue[j] = "DISABLED" => stack = "off" /\ nfaIn = <<>>)
      BY <3>1
    <3>5. \A j \in 1 .. Len(mwQueue') :
            mwQueue'[j] # "ENABLED" /\
            (mwQueue'[j] = "DISABLED" => stack' = "off" /\ nfaIn' = <<>>)
      BY <3>1, <3>2, <3>3, <3>4
    <3> QED BY <3>1, <3>5
  <2> QED BY <2>1, <2>2
<1>15. CASE Stop               BY <1>15 DEF Stop
<1>16. CASE Post               BY <1>16 DEF Post
<1>17. CASE Join               BY <1>17 DEF Join
<1>18. CASE DeleteSemaphore    BY <1>18 DEF DeleteSemaphore
<1>19. CASE DestroyMwQueue     BY <1>19 DEF DestroyMwQueue
<1>20. CASE MwDone             BY <1>20 DEF MwDone
<1>21. CASE DeInitOk           BY <1>21 DEF DeInitOk
<1>22. CASE Nfa                BY <1>22 DEF Nfa
<1>23. CASE DiscoveryResult    BY <1>23 DEF DiscoveryResult
<1>24. CASE Pull               BY <1>24 DEF Pull
<1>25. ASSUME NEW i \in Lives, Contact(i) PROVE StartEvents'
  BY <1>25 DEF Contact
<1>26. ASSUME NEW i \in Lives, HandlerDone(i) PROVE StartEvents'
  BY <1>26 DEF HandlerDone
<1>27. ASSUME NEW i \in Lives, IntegrationWake(i) PROVE StartEvents'
  BY <1>27 DEF IntegrationWake
<1>28. ASSUME NEW i \in Lives, IntegrationDone(i) PROVE StartEvents'
  BY <1>28 DEF IntegrationDone
<1>29. CASE ContactEnds        BY <1>29 DEF ContactEnds
<1>30. CASE UNCHANGED vars     BY <1>30 DEF vars
<1> QED
  BY <1>1, <1>2, <1>3, <1>4, <1>5, <1>6, <1>7, <1>8, <1>9, <1>10, <1>11,
     <1>12, <1>13, <1>14, <1>15, <1>16, <1>17, <1>18, <1>19, <1>20, <1>21,
     <1>22, <1>23, <1>24, <1>25, <1>26, <1>27, <1>28, <1>29, <1>30
  DEF Next, Call, Integration

LEMMA StartsHold ==
  ASSUME "EnableAbandoned" \notin MayFail
  PROVE  Spec => [](Typed /\ Sessions)
<1>1. Init => Typed /\ StartsInOrder
  <2>1. Init => StartCommands /\ StartEvents
    BY DEF Init, StartCommands, StartEvents
  <2> QED BY InitTyped, InitSessions, <2>1 DEF StartsInOrder
<1>2. Typed /\ StartsInOrder /\ [Next]_vars => (Typed /\ StartsInOrder)'
  <2> SUFFICES ASSUME Typed, StartsInOrder, [Next]_vars PROVE (Typed /\ StartsInOrder)'
    OBVIOUS
  <2>1. Typed'
    BY TypeStep, HandlesStep DEF Typed
  <2>2. Answered
    <3>1. /\ mwQueue \in Seq({"ENABLED", "DISABLED", "DEACTIVATED"})
          /\ nfaIn \in Seq({"Enable", "Disable"})
      BY DEF Typed, TypeOK
    <3> QED BY <3>1 DEF Answered, Stale, StartsInOrder, StartCommands, StartEvents
  <2>3. Sessions'
    BY <2>2, SessionsStep DEF StartsInOrder
  <2>4. StartCommands' /\ StartEvents'
    BY StartCommandsStep, StartEventsStep
  <2> QED BY <2>1, <2>3, <2>4 DEF StartsInOrder
<1>3. Typed /\ StartsInOrder => Typed /\ Sessions
  BY DEF StartsInOrder
<1> QED BY <1>1, <1>2, <1>3, PTL DEF Spec

-----------------------------------------------------------------------------
(* A library that counts as started has an enabled stack and all its       *)
(* resources, one that counts as stopped has none in use, whatever was     *)
(* left behind by the starts and stops before: if starts and stops are not *)
(* both given up while the stack still has their command to serve, be it   *)
(* because the answer is late or because the wait pulled the end of a      *)
(* contact.  Given up for want of an answer, both may be.                  *)
THEOREM SessionIsOpen ==
  ASSUME ~({"EnableAbandoned", "DisableAbandoned"} \subseteq MayFail)
  PROVE  Spec => []SessionOpen
<1>1. Typed /\ Sessions => SessionOpen
  BY DEF Typed, TypeOK, Sessions, Flags, Session, Opened, SessionOpen
<1>2. CASE "DisableAbandoned" \notin MayFail
  BY <1>1, <1>2, StopsHold, PTL
<1>3. CASE "EnableAbandoned" \notin MayFail
  BY <1>1, <1>3, StartsHold, PTL
<1> QED BY <1>2, <1>3

(* phMwIf_DeInit frees the semaphore and the queue after the stack's last  *)
(* report, under the same assumption.                                      *)
THEOREM TornDownIsSilent ==
  ASSUME ~({"EnableAbandoned", "DisableAbandoned"} \subseteq MayFail)
  PROVE  Spec => []NothingAfterTearDown
<1>1. Typed /\ Sessions => NothingAfterTearDown
  BY DEF Sessions, TearDown
<1>2. CASE "DisableAbandoned" \notin MayFail
  BY <1>1, <1>2, StopsHold, PTL
<1>3. CASE "EnableAbandoned" \notin MayFail
  BY <1>1, <1>3, StartsHold, PTL
<1> QED BY <1>2, <1>3

===============================================================================
