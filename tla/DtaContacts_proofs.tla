-------------------------- MODULE DtaContacts_proofs --------------------------
(***************************************************************************)
(* Theorems about the contacts of DtaLib: how the library's view of the    *)
(* radio, the events on their way to the handler and the calls it is in    *)
(* keep a contact from being forgotten.                                    *)
(***************************************************************************)
EXTENDS DtaLib_proofs

(* The events on their way to the handler.                                 *)
ToDta == cb.todo \in {<<"dta">>, <<"mw", "dta">>, <<"dta", "mw">>}
Coming == { nfaOut[i] : i \in DOMAIN nfaOut } \cup (IF ToDta THEN {cb.ev} ELSE {})
          \cup { dtaQueue[i] : i \in DOMAIN dtaQueue }

(* The events of a contact the handler is told of.                         *)
OfContact(e) == \/ e.type = "CE_ACTIVATED"
                \/ e.type = "ACTIVATED" /\ e.detail \in ReaderProtocols

CeComing == \E e \in Coming : e.type = "CE_ACTIVATED"
ContactComing == \E e \in Coming : Serves(e)

(* The handler has a call left that begins with one of the steps X.        *)
Will(X) == \E i \in 1 .. Len(calls["handler"]) :
             /\ calls["handler"][i][1] \in X
             /\ i = 1 => at["handler"] = "run"

(* Nothing can keep the handler from stopping discovery; it will stop      *)
(* discovery, or deactivate the contact at the end of its test.            *)
StopComing == NoEot(calls["handler"]) /\ Will(Stops)
EndSteps == Stops \cup {"Deactivate"}
EndComing == Will(EndSteps)

(* The library knows of a contact, or is about to be told of it.           *)
Known ==
  rf \in {"active", "emulating"} =>
    \/ eDeviceState # "IDLE" /\ \A i \in DOMAIN nfaOut : ~IdleEvent(nfaOut[i])
    \/ \E i \in DOMAIN nfaOut :
         /\ nfaOut[i] = Beginning
         /\ \A j \in DOMAIN nfaOut : j > i => ~IdleEvent(nfaOut[j])

(* A contact to attend to has its event on the way, or the handler is in   *)
(* the calls that end it.                                                  *)
Served ==
  /\ rf = "emulating" => CeComing \/ StopComing
  /\ rf = "active" /\ ~Unattended => ContactComing \/ EndComing

(* Before the application enables discovery nothing happens.               *)
Off ==
  appState = "off" =>
    /\ rf = "stopped" /\ nfaOut = <<>> /\ links = NoLinks /\ ~sdp
    /\ CallbackIdle /\ dtaQueue = <<>> /\ pvSemIntgrnThrd = 0
    /\ \A t \in Threads : ~Busy(t)

(* The commands that end contacts are never refused.                       *)
EndsAccepted == MayRefuse \cap {"StopRfDiscovery", "Deactivate"} = {}

-----------------------------------------------------------------------------
(* Nothing moves before discovery is enabled.                              *)

LEMMA HandlerStill ==
  ASSUME ~Busy("handler"), dtaQueue = <<>>
  PROVE  ~Handler
BY DEF Handler, HandlerPull, CheckEot, Eot, SendLast, HcePull, UiccPull, SaveConn, SaveClSap,
       CallStep, LlcpStep, IssueLlcp, At

LEMMA OffIsStill ==
  ASSUME DtaAssumption, Typed, AppIdle, Off, appState = "off", Next
  PROVE  AppEnable
<1>1. /\ rf = "stopped" /\ nfaOut = <<>> /\ links = NoLinks /\ ~sdp
      /\ CallbackIdle /\ dtaQueue = <<>> /\ pvSemIntgrnThrd = 0
      /\ \A t \in Threads : ~Busy(t)
  BY DEF Off
<1>2. ~Handler
  <2>1. ~Busy("handler") BY <1>1 DEF DtaAssumption
  <2> QED BY <1>1, <2>1, HandlerStill
<1>3. ~App
  <2>1. ~Busy("app") BY <1>1 DEF DtaAssumption
  <2> QED BY <1>1, <2>1 DEF App, Enable, SavePrev, AppReturns, CallStep, At
<1>4. ~StackThread
  BY <1>1 DEF StackThread, Callback, CallbackPush
<1>5. ~Tester
  <2>1. \A h \in DOMAIN links : links[h] = "free"
    BY <1>1 DEF NoLinks
  <2>2. ~OnLink
    BY <1>1, <2>1 DEF OnLink, RemoteConnects, SendData, RemoteAnswers, RemoteAccepts,
                     RemoteCloses, SdpAnswer, LinkUp
  <2> QED BY <1>1, <2>2 DEF Tester, PresentTag, StartEmulation, PresentSeveral, SendApdu,
                     TagAnswers, TagLost, EndEmulation
<1>6. ASSUME NEW t \in Integrator PROVE ~Integration(t)
  <2>1. ~Busy(t) BY <1>1 DEF Integrator
  <2> QED BY <1>1, <2>1 DEF Integration, IntegrationWake, IntegrationRestart, CallStep, At
<1> QED BY <1>2, <1>3, <1>4, <1>5, <1>6 DEF Next, AppDisable, TesterActs

LEMMA OffKept ==
  ASSUME StackAssumption, MwIfAssumption, DtaAssumption, Typed, AppIdle, Off, [Next]_vars
  PROVE  Off'
<1>1. CASE appState = "off"
  <2>1. CASE AppEnable BY <2>1 DEF AppEnable, Off
  <2>2. CASE UNCHANGED vars
    BY <2>2 DEF vars, Off, stackVars, linkVars, mwVars, queueVars, threadVars, dtaVars, appVars,
                NoLinks, CallbackIdle, Busy
  <2> QED BY <1>1, <2>1, <2>2, OffIsStill
<1>2. CASE appState # "off"
  <2>1. appState' # "off"
    <3>1. CASE Handler BY <1>2, <3>1, HandlerKeepsApp
    <3>2. CASE ~Handler
      BY <1>2, <3>2 DEF Next, AppEnable, AppDisable, App, Enable, SavePrev, AppReturns,
             StackThread, TesterActs, Integration, dtaVars, appVars, vars
    <3> QED BY <3>1, <3>2
  <2> QED BY <2>1 DEF Off
<1> QED BY <1>1, <1>2

-----------------------------------------------------------------------------
(* The library's view of the radio.                                        *)

(* How a step reaches the radio.                                           *)
RadioEffect == Keeps \/ Polls \/ Begun \/ Ended

LEMMA Reported ==
  ASSUME nfaOut \in Seq(Events), NEW s \in Seq(Events), Report(s)
  PROVE  /\ DOMAIN nfaOut = 1 .. Len(nfaOut) /\ Len(nfaOut) \in Nat
         /\ DOMAIN s = 1 .. Len(s) /\ Len(s) \in Nat
         /\ DOMAIN nfaOut' = 1 .. Len(nfaOut) + Len(s)
         /\ \A i \in 1 .. Len(nfaOut) : nfaOut'[i] = nfaOut[i]
         /\ \A i \in 1 .. Len(s) : nfaOut'[Len(nfaOut) + i] = s[i]
         /\ \A i \in Len(nfaOut) + 1 .. Len(nfaOut) + Len(s) : nfaOut'[i] = s[i - Len(nfaOut)]
<1>1. /\ nfaOut \o s \in Seq(Events) /\ Len(nfaOut \o s) = Len(nfaOut) + Len(s)
      /\ \A i \in 1 .. Len(nfaOut) + Len(s) :
           (nfaOut \o s)[i] = IF i <= Len(nfaOut) THEN nfaOut[i] ELSE s[i - Len(nfaOut)]
  BY ConcatProperties
<1>2. /\ DOMAIN nfaOut = 1 .. Len(nfaOut) /\ Len(nfaOut) \in Nat
      /\ DOMAIN s = 1 .. Len(s) /\ Len(s) \in Nat
  BY LenProperties
<1>3. nfaOut' = nfaOut \o s
  BY DEF Report
<1>4. DOMAIN nfaOut' = 1 .. Len(nfaOut) + Len(s)
  BY <1>1, <1>3, LenProperties
<1> DEFINE m == Len(nfaOut)
           n == Len(s)
           q == nfaOut \o s
<1>5. m \in Nat /\ n \in Nat /\ \A i \in 1 .. m + n : q[i] = IF i <= m THEN nfaOut[i] ELSE s[i - m]
  BY <1>1, <1>2
<1> HIDE DEF m, n, q
<1>6. /\ \A i \in 1 .. m : q[i] = nfaOut[i]
      /\ \A i \in 1 .. n : q[m + i] = s[i]
      /\ \A i \in m + 1 .. m + n : q[i] = s[i - m]
  <2>1. \A i \in 1 .. m : i \in 1 .. m + n /\ i <= m
    BY <1>5
  <2>2. \A i \in 1 .. n : m + i \in 1 .. m + n /\ ~(m + i <= m) /\ (m + i) - m = i
    BY <1>5
  <2>3. \A i \in m + 1 .. m + n : i \in 1 .. m + n /\ ~(i <= m)
    BY <1>5
  <2> QED BY <1>5, <2>1, <2>2, <2>3
<1> QED BY <1>2, <1>3, <1>4, <1>6 DEF m, n, q

LEMMA KnownAfter ==
  ASSUME StackTyped, Known, RadioEffect,
         eDeviceState' = eDeviceState \/ eDeviceState' # "IDLE"
  PROVE  Known'
<1>1. CASE Polls \/ Ended
  BY <1>1 DEF Polls, Ended, Known
<1>2. CASE Begun
  <2>1. PICK s \in Seq(Events) : /\ Report(s) /\ \E i \in DOMAIN s : s[i] = Beginning'
                                 /\ \A i \in DOMAIN s : ~IdleEvent(s[i])
    BY <1>2 DEF Begun
  <2>2. PICK i \in DOMAIN s : s[i] = Beginning'
    BY <2>1
  <2> DEFINE m == Len(nfaOut)
             n == Len(s)
  <2>3. /\ m \in Nat /\ n \in Nat /\ DOMAIN s = 1 .. n /\ DOMAIN nfaOut' = 1 .. m + n
        /\ nfaOut'[m + i] = s[i]
        /\ \A j \in m + 1 .. m + n : nfaOut'[j] = s[j - m]
    BY <2>1, <2>2, Reported DEF StackTyped
  <2> HIDE DEF m, n
  <2>4. m + i \in 1 .. m + n /\ i \in 1 .. n
    BY <2>2, <2>3
  <2>5. ASSUME NEW j \in 1 .. m + n, j > m + i PROVE ~IdleEvent(nfaOut'[j])
    <3>1. j \in m + 1 .. m + n /\ j - m \in 1 .. n BY <2>3, <2>4, <2>5
    <3> QED BY <2>1, <2>3, <3>1
  <2>6. \A j \in 1 .. m + n : j > m + i => ~IdleEvent(nfaOut[j])'
    BY <2>5 DEF IdleEvent
  <2> QED BY <2>2, <2>3, <2>4, <2>6 DEF Known
<1>3. CASE Keeps /\ rf \in {"active", "emulating"}
  <2>1. PICK s \in Seq(PlainEvents) : Report(s)
    BY <1>3 DEF Keeps
  <2>2. s \in Seq(Events)
    BY PlainIsEvent
  <2> DEFINE m == Len(nfaOut)
             n == Len(s)
  <2>3. /\ m \in Nat /\ n \in Nat /\ DOMAIN nfaOut = 1 .. m /\ DOMAIN s = 1 .. n
        /\ DOMAIN nfaOut' = 1 .. m + n
        /\ \A j \in 1 .. m : nfaOut'[j] = nfaOut[j]
        /\ \A j \in m + 1 .. m + n : nfaOut'[j] = s[j - m]
    BY <2>1, <2>2, Reported DEF StackTyped
  <2>4. \A j \in DOMAIN s : s[j] \in PlainEvents
    BY ElementOfSeq, LenProperties
  <2> HIDE DEF m, n
  <2>5. \A j \in m + 1 .. m + n : ~IdleEvent(nfaOut'[j])
    <3>1. \A j \in m + 1 .. m + n : j - m \in 1 .. n BY <2>3
    <3> QED BY <2>3, <2>4, <3>1, PlainEvent
  <2>6. Beginning' = Beginning
    BY <1>3 DEF Keeps, Beginning
  <2>7. \A j \in 1 .. m + n : j \in 1 .. m \/ j \in m + 1 .. m + n
    BY <2>3
  <2>8. CASE eDeviceState # "IDLE" /\ \A i \in DOMAIN nfaOut : ~IdleEvent(nfaOut[i])
    <3>1. \A j \in 1 .. m + n : ~IdleEvent(nfaOut'[j])
      BY <2>3, <2>5, <2>7, <2>8
    <3> QED BY <2>3, <2>8, <3>1 DEF Known, IdleEvent
  <2>9. CASE \E i \in DOMAIN nfaOut : /\ nfaOut[i] = Beginning
                                      /\ \A j \in DOMAIN nfaOut : j > i => ~IdleEvent(nfaOut[j])
    <3>1. PICK i \in 1 .. m : /\ nfaOut[i] = Beginning
                              /\ \A j \in 1 .. m : j > i => ~IdleEvent(nfaOut[j])
      BY <2>3, <2>9
    <3>2. i \in 1 .. m + n /\ nfaOut'[i] = Beginning'
      BY <2>3, <2>6, <3>1
    <3>3. \A j \in 1 .. m + n : j > i => ~IdleEvent(nfaOut'[j])
      BY <2>3, <2>5, <2>7, <3>1
    <3> QED BY <2>3, <3>2, <3>3 DEF Known, IdleEvent
  <2> QED BY <1>3, <2>8, <2>9 DEF Known
<1>4. CASE Keeps /\ rf \notin {"active", "emulating"}
  BY <1>4 DEF Keeps, Known
<1> QED BY <1>1, <1>2, <1>3, <1>4 DEF RadioEffect

LEMMA KnownAfterCallback ==
  ASSUME StackTyped, MwTyped, Known, Callback
  PROVE  Known'
<1> DEFINE e == Head(nfaOut)
           q == Tail(nfaOut)
           n == Len(nfaOut)
<1>1. /\ nfaOut' = q /\ UNCHANGED <<rf, peer>> /\ eDeviceState' = StateAfter(e)
  BY DEF Callback
<1>2. /\ n \in Nat \ {0} /\ DOMAIN nfaOut = 1 .. n /\ e = nfaOut[1] /\ DOMAIN q = 1 .. n - 1
      /\ \A i \in 1 .. n - 1 : q[i] = nfaOut[i + 1]
  <2>1. nfaOut \in Seq(Events) /\ nfaOut # <<>>
    BY DEF StackTyped, Callback
  <2>2. q \in Seq(Events) /\ Len(q) = n - 1 /\ n \in Nat /\ n # 0 /\ DOMAIN nfaOut = 1 .. n
    BY <2>1, HeadTailProperties, LenProperties, EmptySeq
  <2> QED BY <2>1, <2>2, HeadTailProperties, LenProperties
<1>3. ~IdleEvent(e) /\ eDeviceState # "IDLE" => StateAfter(e) # "IDLE"
  BY DEF StateAfter, IdleEvent
<1>4. rf \in {"active", "emulating"} /\ e = Beginning => StateAfter(e) = "POLL_ACTIVE"
  BY DEF Beginning, Event, StateAfter
<1>5. Beginning' = Beginning
  BY <1>1 DEF Beginning
<1> HIDE DEF e, q, n
<1>6. SUFFICES ASSUME rf \in {"active", "emulating"} PROVE Known'
  BY <1>1 DEF Known
<1>7. \A i \in 1 .. n - 1 : i + 1 \in 1 .. n
  BY <1>2
<1>8. CASE eDeviceState # "IDLE" /\ \A i \in DOMAIN nfaOut : ~IdleEvent(nfaOut[i])
  <2>1. 1 \in 1 .. n BY <1>2
  <2>2. eDeviceState' # "IDLE" BY <1>1, <1>2, <1>3, <1>8, <2>1
  <2>3. \A i \in 1 .. n - 1 : ~IdleEvent(q[i]) BY <1>2, <1>7, <1>8
  <2> QED BY <1>1, <1>2, <2>2, <2>3 DEF Known, IdleEvent
<1>9. ASSUME NEW i \in DOMAIN nfaOut, nfaOut[i] = Beginning,
             \A j \in DOMAIN nfaOut : j > i => ~IdleEvent(nfaOut[j])
      PROVE  Known'
  <2>1. CASE i = 1
    <3>1. eDeviceState' # "IDLE" BY <1>1, <1>2, <1>4, <1>6, <1>9, <2>1
    <3>2. \A j \in 1 .. n - 1 : ~IdleEvent(q[j])
      <4>1. \A j \in 1 .. n - 1 : j + 1 \in 1 .. n /\ j + 1 > 1 BY <1>2
      <4> QED BY <1>2, <1>9, <2>1, <4>1
    <3> QED BY <1>1, <1>2, <3>1, <3>2 DEF Known, IdleEvent
  <2>2. CASE i # 1
    <3>1. i - 1 \in 1 .. n - 1 /\ (i - 1) + 1 = i BY <1>2, <1>9, <2>2
    <3>2. q[i - 1] = Beginning' BY <1>2, <1>5, <1>9, <3>1
    <3>3. \A j \in 1 .. n - 1 : j > i - 1 => ~IdleEvent(q[j])
      <4>1. \A j \in 1 .. n - 1 : j + 1 \in 1 .. n /\ (j > i - 1 => j + 1 > i) BY <1>2, <3>1
      <4> QED BY <1>2, <1>9, <4>1
    <3> QED BY <1>1, <1>2, <3>1, <3>2, <3>3 DEF Known, IdleEvent
  <2> QED BY <2>1, <2>2
<1> QED BY <1>6, <1>8, <1>9 DEF Known

-----------------------------------------------------------------------------
(* The events on their way.                                                *)

LEMMA ComingReported ==
  ASSUME nfaOut \in Seq(Events), NEW s \in Seq(Events), Report(s), UNCHANGED <<cb, dtaQueue>>
  PROVE  Coming \subseteq Coming' /\ \A i \in DOMAIN s : s[i] \in Coming'
<1>1. /\ DOMAIN nfaOut = 1 .. Len(nfaOut) /\ Len(nfaOut) \in Nat
      /\ DOMAIN s = 1 .. Len(s) /\ Len(s) \in Nat
      /\ DOMAIN nfaOut' = 1 .. Len(nfaOut) + Len(s)
      /\ \A i \in 1 .. Len(nfaOut) : nfaOut'[i] = nfaOut[i]
      /\ \A i \in 1 .. Len(s) : nfaOut'[Len(nfaOut) + i] = s[i]
  BY Reported
<1> DEFINE m == Len(nfaOut)
           n == Len(s)
<1>2. m \in Nat /\ n \in Nat
  BY <1>1
<1> HIDE DEF m, n
<1>3. /\ \A i \in 1 .. m : i \in 1 .. m + n
      /\ \A i \in 1 .. n : m + i \in 1 .. m + n
  BY <1>2
<1>4. ASSUME NEW i \in DOMAIN nfaOut PROVE nfaOut[i] \in Coming'
  <2>1. i \in DOMAIN nfaOut' /\ nfaOut'[i] = nfaOut[i] BY <1>1, <1>3 DEF m, n
  <2> QED BY <2>1 DEF Coming
<1>5. ASSUME NEW i \in DOMAIN s PROVE s[i] \in Coming'
  <2>1. m + i \in DOMAIN nfaOut' /\ nfaOut'[m + i] = s[i] BY <1>1, <1>3 DEF m, n
  <2> QED BY <2>1 DEF Coming
<1> QED BY <1>4, <1>5 DEF Coming, ToDta

LEMMA ContactPushes ==
  ASSUME NEW e, OfContact(e)
  PROVE  PushesOf(e) \in {<<"dta">>, <<"mw", "dta">>}
<1>1. CASE e.type = "ACTIVATED"
  <2>1. /\ e.type \notin {"LLCP_ACTIVATED", "LLCP_DEACTIVATED"} /\ e.type # "DISC_RESULT"
        /\ e.type \notin {"DEACTIVATED", "CE_ACTIVATED", "CE_DATA", "CE_DEACTIVATED"}
        /\ e.type \notin ServerEvents /\ e.type # "CL_DATA" /\ e.type \notin ClientEvents
    BY <1>1 DEF ServerEvents, ClientEvents
  <2> QED BY <1>1, <2>1 DEF PushesOf, ActivatedPushes, OfContact, Event
<1>2. CASE e.type = "CE_ACTIVATED"
  <2>1. /\ e.type \notin {"LLCP_ACTIVATED", "LLCP_DEACTIVATED"} /\ e.type # "DISC_RESULT"
        /\ e.type \notin ServerEvents /\ e.type # "CL_DATA" /\ e.type \notin ClientEvents
    BY <1>2 DEF ServerEvents, ClientEvents
  <2> QED BY <1>2, <2>1 DEF PushesOf, Event
<1> QED BY <1>1, <1>2 DEF OfContact

(* The event of a contact is handed to the callback, and pushed.           *)
LEMMA ComingCalledBack ==
  ASSUME StackTyped, Callback, NEW e \in Coming, OfContact(e)
  PROVE  e \in Coming'
<1> DEFINE h == Head(nfaOut)
           q == Tail(nfaOut)
           n == Len(nfaOut)
<1>1. /\ nfaOut' = q /\ cb' = [ev |-> h, todo |-> PushesOf(h)] /\ dtaQueue' = dtaQueue
      /\ cb.todo = <<>>
  BY DEF Callback, CallbackIdle, queueVars
<1>2. /\ n \in Nat \ {0} /\ DOMAIN nfaOut = 1 .. n /\ h = nfaOut[1] /\ DOMAIN q = 1 .. n - 1
      /\ \A i \in 1 .. n - 1 : q[i] = nfaOut[i + 1]
  <2>1. nfaOut \in Seq(Events) /\ nfaOut # <<>>
    BY DEF StackTyped, Callback
  <2>2. q \in Seq(Events) /\ Len(q) = n - 1 /\ n \in Nat /\ n # 0 /\ DOMAIN nfaOut = 1 .. n
    BY <2>1, HeadTailProperties, LenProperties, EmptySeq
  <2> QED BY <2>1, <2>2, HeadTailProperties, LenProperties
<1>3. ~ToDta
  BY <1>1 DEF ToDta
<1>4. e = h => PushesOf(h) \in {<<"dta">>, <<"mw", "dta">>}
  BY ContactPushes
<1> HIDE DEF h, q, n
<1>5. CASE e = h
  BY <1>1, <1>4, <1>5 DEF Coming, ToDta
<1>6. ASSUME NEW i \in DOMAIN nfaOut, e = nfaOut[i], e # h PROVE e \in Coming'
  <2>1. i - 1 \in 1 .. n - 1 /\ (i - 1) + 1 = i BY <1>2, <1>6
  <2>2. q[i - 1] = e BY <1>2, <1>6, <2>1
  <2> QED BY <1>1, <1>2, <2>1, <2>2 DEF Coming
<1>7. CASE \E i \in DOMAIN dtaQueue : e = dtaQueue[i]
  BY <1>1, <1>7 DEF Coming
<1> QED BY <1>3, <1>5, <1>6, <1>7 DEF Coming

LEMMA TodoHeads ==
  ASSUME NEW todo \in Todos, todo # <<>>
  PROVE  /\ todo = <<"mw">> \/ todo = <<"dta">> \/ todo = <<"mw", "dta">> \/ todo = <<"dta", "mw">>
         /\ Head(<<"mw">>) = "mw" /\ Len(<<"mw">>) = 1
         /\ Head(<<"dta">>) = "dta" /\ Len(<<"dta">>) = 1
         /\ Head(<<"mw", "dta">>) = "mw" /\ Len(<<"mw", "dta">>) = 2
         /\ Tail(<<"mw", "dta">>) = <<"dta">>
         /\ Head(<<"dta", "mw">>) = "dta" /\ Len(<<"dta", "mw">>) = 2
BY DEF Todos

LEMMA ComingPushed ==
  ASSUME MwTyped, CallbackPush, NEW e \in Coming, OfContact(e)
  PROVE  e \in Coming'
<1>1. cb \in [ev : Events \cup {NoEvent}, todo : Todos] /\ cb.todo # <<>> /\ nfaOut' = nfaOut
      /\ dtaQueue \in Seq(DtaEvents)
  BY DEF MwTyped, CallbackPush, CallbackIdle, stackVars
<1>2. DtaEvent(cb.ev) \in DtaEvents
  BY <1>1, EventTyped
<1>3. CASE Head(cb.todo) = "dta"
  <2>1. dtaQueue' = Append(dtaQueue, DtaEvent(cb.ev))
    BY <1>3 DEF CallbackPush
  <2> DEFINE n == Len(dtaQueue)
  <2>2. /\ n \in Nat /\ DOMAIN dtaQueue = 1 .. n /\ DOMAIN dtaQueue' = 1 .. n + 1
        /\ \A i \in 1 .. n : dtaQueue'[i] = dtaQueue[i]
        /\ dtaQueue'[n + 1] = DtaEvent(cb.ev)
    BY <1>1, <1>2, <2>1, AppendProperties, LenProperties
  <2> HIDE DEF n
  <2>3. n + 1 \in 1 .. n + 1 /\ \A i \in 1 .. n : i \in 1 .. n + 1
    BY <2>2
  <2>4. CASE e = cb.ev
    <3>1. DtaEvent(cb.ev) = e BY <2>4 DEF DtaEvent, OfContact
    <3> QED BY <2>2, <2>3, <3>1 DEF Coming
  <2>5. ASSUME NEW i \in DOMAIN dtaQueue, e = dtaQueue[i] PROVE e \in Coming'
    <3>1. i \in DOMAIN dtaQueue' /\ dtaQueue'[i] = e BY <2>2, <2>3, <2>5
    <3> QED BY <3>1 DEF Coming
  <2>6. CASE \E i \in DOMAIN nfaOut : e = nfaOut[i]
    BY <1>1, <2>6 DEF Coming
  <2> QED BY <2>4, <2>5, <2>6 DEF Coming
<1>4. CASE Head(cb.todo) # "dta"
  <2>1. dtaQueue' = dtaQueue
    BY <1>4 DEF CallbackPush
  <2>2. ToDta => ToDta' /\ cb'.ev = cb.ev
    <3>1. ToDta => cb.todo = <<"mw", "dta">>
      BY <1>1, <1>4, TodoHeads DEF ToDta
    <3>2. cb.todo = <<"mw", "dta">> => cb' = [cb EXCEPT !.todo = <<"dta">>]
      BY <1>1, TodoHeads DEF CallbackPush
    <3> QED BY <1>1, <3>1, <3>2 DEF ToDta
  <2> QED BY <1>1, <2>1, <2>2 DEF Coming
<1> QED BY <1>3, <1>4

LEMMA ComingPulled ==
  ASSUME MwTyped, UNCHANGED <<nfaOut, cb>>, dtaQueue # <<>>, dtaQueue' = Tail(dtaQueue),
         NEW e \in Coming, e # Head(dtaQueue)
  PROVE  e \in Coming'
<1> DEFINE q == Tail(dtaQueue)
           n == Len(dtaQueue)
<1>1. /\ n \in Nat \ {0} /\ DOMAIN dtaQueue = 1 .. n /\ DOMAIN q = 1 .. n - 1
      /\ Head(dtaQueue) = dtaQueue[1]
      /\ \A i \in 1 .. n - 1 : q[i] = dtaQueue[i + 1]
  <2>1. dtaQueue \in Seq(DtaEvents)
    BY DEF MwTyped
  <2>2. q \in Seq(DtaEvents) /\ Len(q) = n - 1 /\ n \in Nat /\ n # 0 /\ DOMAIN dtaQueue = 1 .. n
    BY <2>1, HeadTailProperties, LenProperties, EmptySeq
  <2> QED BY <2>1, <2>2, HeadTailProperties, LenProperties
<1>2. dtaQueue' = q OBVIOUS
<1> HIDE DEF q, n
<1>3. ASSUME NEW i \in DOMAIN dtaQueue, e = dtaQueue[i] PROVE e \in Coming'
  <2>1. i - 1 \in 1 .. n - 1 /\ (i - 1) + 1 = i BY <1>1, <1>3
  <2>2. q[i - 1] = e BY <1>1, <1>3, <2>1
  <2> QED BY <1>1, <1>2, <2>1, <2>2 DEF Coming
<1> QED BY <1>3 DEF Coming, ToDta

(* A contact whose event is on its way is served.                          *)
LEMMA ServesContact ==
  ASSUME NEW e, Serves(e)
  PROVE  OfContact(e)
BY DEF Serves, OfContact

LEMMA ServedByEvents ==
  ASSUME Served, rf' = rf, peer' = peer, llcpMode' = llcpMode,
         \A e \in Coming : OfContact(e) => e \in Coming',
         rf = "emulating" /\ StopComing => CeComing' \/ StopComing',
         rf = "active" /\ ~Unattended /\ EndComing =>
           ContactComing' \/ EndComing'
  PROVE  Served'
<1>1. CeComing => CeComing'
  BY DEF CeComing, OfContact
<1>2. ContactComing => ContactComing'
  <2> SUFFICES ASSUME NEW e \in Coming, Serves(e) PROVE ContactComing'
    BY DEF ContactComing
  <2>1. e \in Coming' /\ Serves(e)' BY ServesContact DEF Serves
  <2> QED BY <2>1 DEF ContactComing
<1> QED BY <1>1, <1>2 DEF Served, Unattended

(* The end of a contact, and the beginning of one.                         *)
LEMMA ServedAfter ==
  ASSUME StackTyped, RadioEffect, UNCHANGED <<cb, dtaQueue, llcpMode>>, Served,
         Keeps /\ rf \in {"active", "emulating"} => Served'
  PROVE  Served'
<1>1. CASE Polls \/ Ended
  BY <1>1 DEF Polls, Ended, Served
<1>2. CASE Begun
  <2>1. PICK s \in Seq(Events) : Report(s) /\ \E i \in DOMAIN s : s[i] = Beginning'
    BY <1>2 DEF Begun
  <2>2. Beginning' \in Coming'
    BY <2>1, ComingReported DEF StackTyped
  <2>3. (rf \in {"active", "emulating"})'
    BY <1>2 DEF Begun
  <2>4. rf' = "active" => peer' \in TagProtocols
    <3>1. Beginning' \in Events
      BY <2>1, ElementOfSeq, LenProperties
    <3> QED BY <3>1 DEF Beginning, Event, Events, Begins, Selected, Ends, PlainEvents, Results, PlainTypes,
                    LocalTypes, TagReplies
  <2>5. /\ rf' = "emulating" => CeComing'
        /\ rf' = "active" /\ ~Unattended' => ContactComing'
    BY <2>2, <2>3, <2>4 DEF Beginning, Event, CeComing, ContactComing, Serves, Unattended, TagProtocols
  <2> QED BY <2>5 DEF Served
<1>3. CASE Keeps /\ rf \notin {"active", "emulating"}
  BY <1>3 DEF Keeps, Served
<1> QED BY <1>1, <1>2, <1>3 DEF RadioEffect

(* The rest of the contacts' events comes as it did.                       *)
LEMMA ComingKept ==
  ASSUME StackTyped, Keeps, UNCHANGED <<cb, dtaQueue>>
  PROVE  Coming \subseteq Coming'
BY PlainIsEvent, ComingReported DEF Keeps, StackTyped

LEMMA OthersServed ==
  ASSUME StackTyped, RadioEffect, UNCHANGED <<cb, dtaQueue, llcpMode>>, Served,
         calls'["handler"] = calls["handler"], at'["handler"] = at["handler"]
  PROVE  Served'
<1>1. StopComing' = StopComing /\ EndComing' = EndComing
  BY DEF StopComing, EndComing, Will
<1>2. ASSUME Keeps PROVE Served'
  <2>1. Coming \subseteq Coming'
    BY <1>2, ComingKept
  <2> QED BY <1>1, <1>2, <2>1, ServedByEvents DEF Keeps
<1> QED BY <1>2, ServedAfter

-----------------------------------------------------------------------------
(* The calls the handler has left.                                         *)

(* Behind a step, every later call is where it was or one nearer.          *)
LEMMA PushedKeeps ==
  ASSUME NEW S, NEW c \in CallsOf(S), c # <<>>, NEW s \in Seq(S)
  PROVE  /\ Rest(c, s) # <<>> =>
              /\ Len(Pushed(c, s)) = Len(c) /\ Pushed(c, s)[1] = Rest(c, s)
              /\ \A i \in 2 .. Len(c) : Pushed(c, s)[i] = c[i]
         /\ Rest(c, s) = <<>> =>
              /\ Len(Pushed(c, s)) = Len(c) - 1
              /\ \A i \in 1 .. Len(c) - 1 : Pushed(c, s)[i] = c[i + 1]
         /\ Len(c) \in Nat \ {0}
<1> DEFINE d == Rest(c, s)
           q == Tail(c)
           n == Len(c)
<1>1. n \in Nat \ {0}
  BY CallFacts
<1>2. q \in CallsOf(S) /\ Len(q) = n - 1 /\ \A i \in 1 .. n - 1 : q[i] = c[i + 1]
  BY TailFacts
<1>3. d \in Seq(S)
  BY RestFacts
<1>4. CASE d = <<>>
  <2>1. Pushed(c, s) = q BY <1>4 DEF Pushed
  <2> HIDE DEF d, q
  <2> QED BY <1>1, <1>2, <1>4, <2>1 DEF d, n
<1>5. CASE d # <<>>
  <2> DEFINE b == << d >> \o q
  <2>1. Pushed(c, s) = b BY <1>5 DEF Pushed
  <2> HIDE DEF d, q
  <2>2. /\ Len(b) = Len(q) + 1 /\ b[1] = d /\ \A i \in 2 .. Len(q) + 1 : b[i] = q[i - 1]
    BY <1>2, <1>3, <1>5, ConsFacts
  <2> HIDE DEF b, n
  <2>3. Len(b) = n BY <1>1, <1>2, <2>2
  <2>4. ASSUME NEW i \in 2 .. n PROVE b[i] = c[i]
    <3>1. i - 1 \in 1 .. n - 1 /\ (i - 1) + 1 = i /\ Len(q) + 1 = n BY <1>1, <1>2
    <3> QED BY <1>2, <2>2, <3>1
  <2> QED BY <1>1, <1>5, <2>1, <2>2, <2>3, <2>4 DEF d, n
<1> QED BY <1>4, <1>5

(* A step that puts no end of a test in its place leaves none.             *)
LEMMA PushedNoEot ==
  ASSUME NEW S, NEW c \in CallsOf(S), c # <<>>, NoEot(c), NEW s \in Seq(S),
         \A j \in 1 .. Len(s) : s[j] \notin Eots
  PROVE  NoEot(Pushed(c, s))
<1> DEFINE d == Rest(c, s)
           b == Pushed(c, s)
           n == Len(c)
           m == Len(s)
           p == Len(c[1])
<1>1. /\ d \in Seq(S) /\ m \in Nat /\ Len(d) = m + p - 1
      /\ \A j \in 1 .. m : d[j] = s[j]
      /\ \A j \in m + 1 .. m + p - 1 : d[j] = c[1][j - m + 1]
  <2>1. d \in Seq(S) /\ RestIs(d, c, s) BY RestFacts
  <2> QED BY <2>1 DEF RestIs
<1>2. n \in Nat \ {0} /\ p \in Nat \ {0} /\ 1 \in 1 .. n
  <2>1. Len(c) \in Nat /\ Len(c) > 0 /\ 1 \in DOMAIN c /\ Len(c[1]) \in Nat \ {0}
    BY CallFacts
  <2> QED BY <2>1
<1>3. /\ d # <<>> => Len(b) = n /\ b[1] = d /\ \A i \in 2 .. n : b[i] = c[i]
      /\ d = <<>> => Len(b) = n - 1 /\ \A i \in 1 .. n - 1 : b[i] = c[i + 1]
  BY PushedKeeps
<1> HIDE DEF d, b, n, m, p
<1>4. ASSUME NEW j \in 1 .. Len(d) PROVE d[j] \notin Eots
  <2>1. CASE j \in 1 .. m BY <1>1, <2>1 DEF m
  <2>2. CASE j \in m + 1 .. m + p - 1
    <3>1. j - m + 1 \in 1 .. p BY <1>1, <1>2, <2>2
    <3> QED BY <1>1, <1>2, <2>2, <3>1 DEF NoEot, n, p
  <2>3. j \in 1 .. m \/ j \in m + 1 .. m + p - 1
    BY <1>1, <1>2
  <2> QED BY <2>1, <2>2, <2>3
<1>5. CASE d # <<>>
  <2> SUFFICES ASSUME NEW i \in 1 .. n, NEW j \in 1 .. Len(b[i]) PROVE b[i][j] \notin Eots
    BY <1>3, <1>5 DEF NoEot, b
  <2>1. CASE i = 1 BY <1>3, <1>4, <1>5, <2>1
  <2>2. CASE i \in 2 .. n BY <1>3, <1>5, <2>2 DEF NoEot, n
  <2> QED BY <1>2, <2>1, <2>2
<1>6. CASE d = <<>>
  <2> SUFFICES ASSUME NEW i \in 1 .. n - 1, NEW j \in 1 .. Len(b[i]) PROVE b[i][j] \notin Eots
    BY <1>3, <1>6 DEF NoEot, b
  <2>1. i + 1 \in 1 .. n BY <1>2
  <2> QED BY <1>3, <1>6, <2>1 DEF NoEot, n
<1> QED BY <1>5, <1>6 DEF b

LEMMA TailNoEot ==
  ASSUME NEW S, NEW c \in CallsOf(S), c # <<>>, NoEot(c)
  PROVE  NoEot(Tail(c))
<1>1. Len(c) \in Nat /\ Len(Tail(c)) = Len(c) - 1
      /\ \A i \in 1 .. Len(c) - 1 : Tail(c)[i] = c[i + 1]
  BY CallFacts, TailFacts
<1>2. \A i \in 1 .. Len(c) - 1 : i + 1 \in 1 .. Len(c)
  BY <1>1
<1> QED BY <1>1, <1>2 DEF NoEot

(* A later call of the handler that begins with one of the steps X.        *)
Later(X) == \E i \in 2 .. Len(calls["handler"]) : calls["handler"][i][1] \in X

LEMMA LaterWill ==
  ASSUME NEW X, Later(X), Len(calls["handler"]) \in Nat
  PROVE  Will(X)
<1>1. \A i \in 2 .. Len(calls["handler"]) : i \in 1 .. Len(calls["handler"]) /\ i # 1
  OBVIOUS
<1> QED BY <1>1 DEF Later, Will

LEMMA WillIs ==
  ASSUME DtaAssumption, Typed, NEW X, Will(X)
  PROVE  /\ Busy("handler") /\ "handler" \in Threads
         /\ Later(X) \/ (Step("handler") \in X /\ at["handler"] = "run")
<1> DEFINE c == calls["handler"]
<1>1. "handler" \in Threads
  BY DEF DtaAssumption
<1>2. c \in CallsOf(StepsOf("handler"))
  BY <1>1 DEF Typed, ControlTyped, CallsTyped
<1>3. PICK i \in 1 .. Len(c) : c[i][1] \in X /\ (i = 1 => at["handler"] = "run")
  BY DEF Will
<1>4. Len(c) \in Nat /\ (c # <<>> => Head(c) = c[1] /\ Head(c[1]) = c[1][1])
  BY <1>2, CallFacts
<1>5. c # <<>>
  BY <1>3
<1>6. i = 1 \/ i \in 2 .. Len(c)
  BY <1>3, <1>4
<1> HIDE DEF c
<1>7. CASE i = 1
  <2>1. Step("handler") = c[1][1] BY <1>4, <1>5 DEF Step, c
  <2> QED BY <1>1, <1>3, <1>5, <1>7, <2>1 DEF Busy, c
<1>8. CASE i \in 2 .. Len(c)
  BY <1>1, <1>3, <1>5, <1>8 DEF Later, Busy, c
<1> QED BY <1>6, <1>7, <1>8

LEMMA MovedWill ==
  ASSUME DtaAssumption, Typed, Busy("handler"), NEW CONSTANT X, Later(X),
         NEW s \in Seq(StepsOf("handler")),
         calls' = [calls EXCEPT !["handler"] = Pushed(@, s)],
         Rest(calls["handler"], s) # <<>> \/ at' = [at EXCEPT !["handler"] = "run"]
  PROVE  Will(X)'
<1> DEFINE c == calls["handler"]
           b == Pushed(c, s)
           n == Len(c)
<1>1. "handler" \in Threads
  BY DEF DtaAssumption
<1>2. c \in CallsOf(StepsOf("handler")) /\ c # <<>>
  BY <1>1 DEF Typed, ControlTyped, CallsTyped, Busy
<1>3. calls'["handler"] = b /\ (at' = [at EXCEPT !["handler"] = "run"] => at'["handler"] = "run")
  BY <1>1 DEF Typed, ControlTyped, CallsTyped
<1>4. PICK i \in 2 .. n : c[i][1] \in X
  BY DEF Later
<1>5. /\ Rest(c, s) # <<>> => Len(b) = n /\ \A k \in 2 .. n : b[k] = c[k]
      /\ Rest(c, s) = <<>> => Len(b) = n - 1 /\ \A k \in 1 .. n - 1 : b[k] = c[k + 1]
      /\ n \in Nat \ {0}
  <2> DEFINE S == StepsOf("handler")
  <2>1. c \in CallsOf(S) /\ c # <<>> /\ s \in Seq(S) BY <1>2
  <2> HIDE DEF c, b, n, S
  <2>2. /\ Rest(c, s) # <<>> =>
             /\ Len(Pushed(c, s)) = Len(c) /\ Pushed(c, s)[1] = Rest(c, s)
             /\ \A k \in 2 .. Len(c) : Pushed(c, s)[k] = c[k]
        /\ Rest(c, s) = <<>> =>
             /\ Len(Pushed(c, s)) = Len(c) - 1
             /\ \A k \in 1 .. Len(c) - 1 : Pushed(c, s)[k] = c[k + 1]
        /\ Len(c) \in Nat \ {0}
    BY <2>1, PushedKeeps
  <2> QED BY <2>2 DEF b, n
<1> HIDE DEF c, b, n
<1>6. i \in 1 .. n /\ i # 1 /\ i - 1 \in 1 .. n - 1 /\ (i - 1) + 1 = i
  BY <1>4, <1>5
<1>7. CASE Rest(c, s) # <<>>
  <2>1. b[i][1] \in X /\ i \in 1 .. Len(b)
    BY <1>4, <1>5, <1>6, <1>7
  <2> QED BY <1>3, <1>6, <2>1 DEF Will
<1>8. CASE Rest(c, s) = <<>>
  <2>1. b[i - 1][1] \in X /\ i - 1 \in 1 .. Len(b)
    BY <1>4, <1>5, <1>6, <1>8
  <2>2. at'["handler"] = "run"
    BY <1>3, <1>8 DEF c
  <2> QED BY <1>3, <2>1, <2>2 DEF Will
<1> QED BY <1>7, <1>8

LEMMA PoppedWill ==
  ASSUME DtaAssumption, Typed, Busy("handler"), NEW CONSTANT X, Later(X), Popped("handler")
  PROVE  Will(X)'
<1> DEFINE c == calls["handler"]
           b == Tail(c)
           n == Len(c)
<1>1. "handler" \in Threads
  BY DEF DtaAssumption
<1>2. c \in CallsOf(StepsOf("handler")) /\ c # <<>>
  BY <1>1 DEF Typed, ControlTyped, CallsTyped, Busy
<1>3. calls'["handler"] = b /\ at'["handler"] = "run"
  BY <1>1 DEF Typed, ControlTyped, CallsTyped, Popped
<1>4. PICK i \in 2 .. n : c[i][1] \in X
  BY DEF Later
<1>5. Len(b) = n - 1 /\ n \in Nat /\ \A k \in 1 .. n - 1 : b[k] = c[k + 1]
  BY <1>2, TailFacts, CallFacts
<1> HIDE DEF c, b, n
<1>6. i - 1 \in 1 .. n - 1 /\ (i - 1) + 1 = i
  BY <1>4, <1>5
<1>7. b[i - 1][1] \in X /\ i - 1 \in 1 .. Len(b)
  BY <1>4, <1>5, <1>6
<1> QED BY <1>3, <1>7 DEF Will

(* What a step of the handler's call does to the end, or to the start of   *)
(* discovery, it is to bring about.                                        *)
LEMMA CallWill ==
  ASSUME DtaAssumption, Typed, CallEffect("handler"),
         NEW CONSTANT X, X \subseteq EndSteps \cup {"StartRfDiscovery"},
         X \cap MayRefuse \subseteq {"DiscoveryStop"},
         "DiscoveryStop" \in X => "StopRfDiscovery" \in X, Will(X)
  PROVE  \/ Will(X)'
         \/ Commands("handler") /\ Step("handler") \in X
         \/ "DiscoveryStop" \in X /\ Keeps /\ eDeviceState = "IDLE"
<1>1. Busy("handler") /\ "handler" \in Threads
      /\ (Later(X) \/ (Step("handler") \in X /\ at["handler"] = "run"))
  BY WillIs
<1>2. /\ calls["handler"] \in CallsOf(StepsOf("handler")) /\ calls["handler"] # <<>>
      /\ Step("handler") = calls["handler"][1][1] /\ Step("handler") \in StepsOf("handler")
  BY <1>1, StepIs DEF Typed
<1>3. \A step \in X \cap MayRefuse : step = "DiscoveryStop"
  OBVIOUS
<1>4. \A step \in X \cap Immediate : step = "DiscoveryStop"
  BY DEF EndSteps, Stops, Immediate, Steps, Reply, P2pCommands, LinkCommands
<1>5. "DiscoveryStop" \notin DOMAIN Reply
  BY SpecialSteps
<1>6. CASE Stays("handler")
  BY <1>6 DEF Stays, Will
<1>7. CASE Commands("handler") \/ Waits("handler")
  <2>1. Entered("handler")
    BY <1>7 DEF Commands, Waits
  <2>2. CASE Later(X)
    <3>1. PICK i \in 2 .. Len(calls["handler"]) : calls["handler"][i][1] \in X
      BY <2>2 DEF Later
    <3>2. Len(calls["handler"]) \in Nat BY <1>2, CallFacts
    <3>3. i \in 1 .. Len(calls["handler"]) /\ i # 1 BY <3>2
    <3> QED BY <2>1, <3>1, <3>3 DEF Entered, Will
  <2>3. CASE Step("handler") \in X /\ at["handler"] = "run"
    <3>1. ~Waits("handler")
      BY <1>3, <1>4, <1>5, <2>1, <2>3 DEF Waits, Entered
    <3> QED BY <1>7, <2>3, <3>1
  <2> QED BY <1>1, <2>2, <2>3
<1>8. CASE Goes("handler")
  <2>1. Keeps BY <1>8 DEF Goes
  <2>2. CASE Popped("handler") /\ Step("handler") # "DiscoveryStop"
    <3>1. Later(X)
      BY <1>1, <1>4, <1>8, <2>2 DEF Goes
    <3> QED BY <1>1, <2>2, <3>1, PoppedWill
  <2>3. ASSUME NEW s \in Filling(Step("handler")), Moved("handler", s) 
                PROVE Will(X)' \/ ("DiscoveryStop" \in X /\ eDeviceState = "IDLE")
    <3>1. s \in Seq(StepsOf("handler"))
      BY <1>2, <2>3, FillingFits
    <3>2. CASE Later(X)
      BY <1>1, <2>3, <3>1, <3>2, MovedWill DEF Moved
    <3>3. CASE Step("handler") \in X /\ at["handler"] = "run" /\ eDeviceState # "IDLE"
      <4>1. Step("handler") = "DiscoveryStop"
        BY <1>4, <1>8, <3>3 DEF Goes
      <4>0. "StopRfDiscovery" \in X BY <3>3, <4>1
      <4>2. s = <<"StopRfDiscovery">>
        BY <2>3, <3>3, <4>1 DEF Filling
      <4> DEFINE c == calls["handler"]
                 b == Pushed(c, s)
                 S == StepsOf("handler")
      <4>3. c \in CallsOf(S) /\ c # <<>> /\ s \in Seq(S)
        BY <1>2, <3>1
      <4>4. Len(s) = 1 /\ s[1] = "StopRfDiscovery"
        BY <4>2
      <4>5. calls'["handler"] = b /\ at'["handler"] = "run"
        BY <1>1, <2>3 DEF Typed, ControlTyped, CallsTyped, Moved
      <4> HIDE DEF c, b, S
      <4>6. Len(s) > 0 BY <4>4
      <4>7. Rest(c, s)[1] = s[1] /\ Rest(c, s) # <<>>
        BY <4>3, <4>6, RestFirst
      <4>8. b[1] = Rest(c, s) /\ Len(b) \in Nat \ {0}
        BY <4>3, <4>7, PushedKeeps DEF b
      <4>9. 1 \in 1 .. Len(b) /\ b[1][1] \in X
        BY <4>0, <4>4, <4>7, <4>8
      <4> QED BY <4>5, <4>9 DEF Will
    <3>4. CASE Step("handler") \in X /\ at["handler"] = "run" /\ eDeviceState = "IDLE"
      <4>1. Step("handler") = "DiscoveryStop"
        BY <1>4, <1>8, <3>4 DEF Goes
      <4> QED BY <3>4, <4>1
    <3> QED BY <1>1, <3>2, <3>3, <3>4
  <2> QED BY <1>8, <2>1, <2>2, <2>3 DEF Goes
<1> QED BY <1>6, <1>7, <1>8 DEF CallEffect

LEMMA CallNoEot ==
  ASSUME DtaAssumption, Typed, CallEffect("handler"), NoEot(calls["handler"])
  PROVE  NoEot(calls["handler"])'
<1>1. Busy("handler") /\ "handler" \in Threads
  BY DEF CallEffect, DtaAssumption
<1>2. /\ calls["handler"] \in CallsOf(StepsOf("handler")) /\ calls["handler"] # <<>>
      /\ Step("handler") = calls["handler"][1][1] /\ Step("handler") \in StepsOf("handler")
  BY <1>1, StepIs DEF Typed
<1>3. calls \in [Threads -> CallsOf(Steps)]
  BY DEF Typed, ControlTyped, CallsTyped
<1>4. CASE UNCHANGED calls BY <1>4
<1>5. CASE Popped("handler")
  <2>1. calls'["handler"] = Tail(calls["handler"]) BY <1>1, <1>3, <1>5 DEF Popped
  <2>2. NoEot(Tail(calls["handler"])) BY <1>2, TailNoEot
  <2> QED BY <2>1, <2>2
<1>6. ASSUME NEW s \in Filling(Step("handler")), Moved("handler", s)
      PROVE  NoEot(calls["handler"])'
  <2>1. s \in Seq(StepsOf("handler")) /\ \A j \in 1 .. Len(s) : s[j] \notin Eots
    BY <1>2, <1>6, FillingFits DEF MayReplace
  <2>2. calls'["handler"] = Pushed(calls["handler"], s) BY <1>1, <1>3, <1>6 DEF Moved
  <2>3. NoEot(Pushed(calls["handler"], s)) BY <1>2, <2>1, PushedNoEot
  <2> QED BY <2>2, <2>3
<1> QED BY <1>4, <1>5, <1>6 DEF CallEffect, Stays, Commands, Waits, Goes, Entered

-----------------------------------------------------------------------------
(* The handler's steps serve the contact.                                  *)

LEMMA StopServes ==
  ASSUME StopComing'
  PROVE  Served'
BY DEF Served, StopComing, EndComing, Will, EndSteps

LEMMA CommandEnds ==
  ASSUME Commands("handler")
  PROVE  /\ Step("handler") \in Stops /\ rf' \in {"active", "emulating"} => FALSE
         /\ Step("handler") = "Deactivate" /\ rf = "active" => rf' \notin {"active", "emulating"}
<1>1. Step("handler") \in DOMAIN Reply /\ CommandEffect(Step("handler"))
  BY DEF Commands, Entered
<1>2. Step("handler") \in Stops => Step("handler") = "StopRfDiscovery"
  BY <1>1, SpecialSteps DEF Stops
<1> QED BY <1>1, <1>2 DEF CommandEffect, Ended

LEMMA HandlerCallServed ==
  ASSUME StackAssumption, MwIfAssumption, DtaAssumption, Typed, EndsAccepted, Known, Served,
         CallEffect("handler"), RadioEffect, UNCHANGED <<cb, dtaQueue, llcpMode>>
  PROVE  Served'
<1>0. StackTyped BY DEF Typed
<1>1. SUFFICES ASSUME Keeps, rf \in {"active", "emulating"} PROVE Served'
  BY <1>0, ServedAfter
<1>2. Coming \subseteq Coming' /\ rf' = rf /\ peer' = peer
  BY <1>0, <1>1, ComingKept DEF Keeps
<1>3. ASSUME eDeviceState = "IDLE" PROVE Served'
  <2>1. \E i \in DOMAIN nfaOut : nfaOut[i] = Beginning
    BY <1>1, <1>3 DEF Known
  <2>2. Beginning \in Coming BY <2>1 DEF Coming
  <2>3. Beginning' \in Coming' /\ (rf \in {"active", "emulating"})'
    BY <1>1, <1>2, <2>2 DEF Beginning
  <2>4. rf' = "active" => peer' \in TagProtocols
    BY <1>0, <1>2 DEF StackTyped
  <2> QED BY <2>3, <2>4 DEF Served, Beginning, Event, CeComing, ContactComing, Serves, Unattended,
                            TagProtocols
<1>4. /\ Stops \subseteq EndSteps /\ "StopRfDiscovery" \in Stops
      /\ EndSteps \cap MayRefuse \subseteq {"DiscoveryStop"}
  BY DEF EndsAccepted, EndSteps, Stops
<1>5. ASSUME rf = "emulating", StopComing PROVE StopComing' \/ Served'
  <2>1. NoEot(calls["handler"])' BY <1>5, CallNoEot DEF StopComing
  <2>2. Will(Stops)' \/ (Commands("handler") /\ Step("handler") \in Stops) \/ Served'
    BY <1>3, <1>5, <1>4, CallWill DEF StopComing
  <2>3. CASE Commands("handler") /\ Step("handler") \in Stops
    BY <1>1, <1>2, <2>3, CommandEnds
  <2> QED BY <2>1, <2>2, <2>3 DEF StopComing
<1>6. ASSUME rf = "active", EndComing PROVE EndComing' \/ Served'
  <2>1. Will(EndSteps)' \/ (Commands("handler") /\ Step("handler") \in EndSteps) \/ Served'
    BY <1>3, <1>6, <1>4, CallWill DEF EndComing
  <2>2. CASE Commands("handler") /\ Step("handler") \in EndSteps
    <3>1. Step("handler") \in Stops \/ Step("handler") = "Deactivate" BY <2>2 DEF EndSteps
    <3> QED BY <1>1, <1>2, <1>6, <2>2, <3>1, CommandEnds
  <2> QED BY <2>1, <2>2 DEF EndComing
<1> QED BY <1>2, <1>5, <1>6, ServedByEvents

(* The steps of its own that only go on with the call.                     *)
LEMMA GoesWill ==
  ASSUME DtaAssumption, Typed, NEW step, At("handler", step),
         NEW CONSTANT X, step \notin X, Will(X),
         NEW s \in Seq(StepsOf("handler")),
         calls' = [calls EXCEPT !["handler"] = Pushed(@, s)],
         Rest(calls["handler"], s) # <<>> \/ at' = [at EXCEPT !["handler"] = "run"]
  PROVE  Will(X)'
<1>1. Busy("handler") /\ Step("handler") = step
  BY DEF At
<1>2. Later(X) BY <1>1, WillIs
<1> QED BY <1>1, <1>2, MovedWill

LEMMA GoesNoEot ==
  ASSUME DtaAssumption, Typed, NEW step, At("handler", step), NoEot(calls["handler"]),
         NEW s \in Seq(StepsOf("handler")), \A j \in 1 .. Len(s) : s[j] \notin Eots,
         calls' = [calls EXCEPT !["handler"] = Pushed(@, s)]
  PROVE  NoEot(calls["handler"])'
<1>1. /\ calls["handler"] \in CallsOf(StepsOf("handler")) /\ calls["handler"] # <<>>
      /\ "handler" \in Threads
  BY HandlerAt
<1>2. NoEot(Pushed(calls["handler"], s)) BY <1>1, PushedNoEot
<1>3. calls'["handler"] = Pushed(calls["handler"], s)
  BY <1>1 DEF Typed, ControlTyped, CallsTyped
<1> QED BY <1>2, <1>3

LEMMA HandlerGoesServed ==
  ASSUME StackAssumption, MwIfAssumption, DtaAssumption, Typed, Served,
         UNCHANGED <<stackVars, cb, dtaQueue, llcpMode>>, NEW step, At("handler", step),
         step \notin EndSteps,
         NEW s \in Seq(StepsOf("handler")), \A j \in 1 .. Len(s) : s[j] \notin Eots,
         calls' = [calls EXCEPT !["handler"] = Pushed(@, s)],
         Rest(calls["handler"], s) # <<>> \/ at' = [at EXCEPT !["handler"] = "run"]
  PROVE  Served'
<1>1. rf' = rf /\ peer' = peer /\ Coming \subseteq Coming'
  BY DEF stackVars, Coming, ToDta
<1>2. ASSUME EndComing PROVE EndComing'
  BY <1>2, GoesWill DEF EndComing, EndSteps, Stops
<1>3. ASSUME StopComing PROVE StopComing'
  <2>1. step \notin Stops BY DEF EndSteps
  <2>2. Will(Stops)' BY <1>3, <2>1, GoesWill DEF StopComing, Stops
  <2> QED BY <1>3, <2>2, GoesNoEot DEF StopComing
<1> QED BY <1>1, <1>2, <1>3, ServedByEvents

LEMMA ProceedServed ==
  ASSUME StackAssumption, MwIfAssumption, DtaAssumption, Typed, Served,
         UNCHANGED <<stackVars, cb, dtaQueue, llcpMode>>, NEW step, At("handler", step),
         step \notin EndSteps, Proceed("handler", <<>>)
  PROVE  Served'
<1>1. Moved("handler", <<>>) BY Proceeded
<1>2. <<>> \in Seq(StepsOf("handler")) /\ \A j \in 1 .. Len(<<>>) : <<>>[j] \notin Eots
  OBVIOUS
<1> QED BY <1>1, <1>2, HandlerGoesServed DEF Moved

LEMMA SendLastGoes ==
  ASSUME DtaAssumption, Typed, SendLast
  PROVE  /\ At("handler", "SendLast") /\ UNCHANGED <<stackVars, cb, dtaQueue, llcpMode>>
         /\ <<"SendRawFrame">> \in Seq(StepsOf("handler"))
         /\ \A j \in 1 .. Len(<<"SendRawFrame">>) : <<"SendRawFrame">>[j] \notin Eots
         /\ calls' = [calls EXCEPT !["handler"] = Pushed(@, <<"SendRawFrame">>)]
         /\ Rest(calls["handler"], <<"SendRawFrame">>) # <<>>
<1> DEFINE c == calls["handler"]
           s == <<"SendRawFrame">>
           S == StepsOf("handler")
<1>1. At("handler", "SendLast") /\ UNCHANGED <<stackVars, cb, dtaQueue, llcpMode>>
      /\ calls' = [calls EXCEPT !["handler"] = Pushed(c, s)]
  BY IntoIsPushed DEF SendLast, queueVars, dtaVars, appVars
<1>2. c \in CallsOf(S) /\ c # <<>>
  BY <1>1, HandlerAt
<1>3. s \in Seq(S)
  BY HandlerTuples, StepsWithin, SeqMonotonic
<1>4. Len(s) = 1 /\ s[1] = "SendRawFrame"
  OBVIOUS
<1>5. \A j \in 1 .. Len(s) : s[j] \notin Eots
  BY <1>4 DEF Eots
<1>6. Rest(c, s) # <<>>
  <2>1. Len(s) > 0 BY <1>4
  <2> HIDE DEF c, s, S
  <2> QED BY <1>2, <1>3, <2>1, RestFirst
<1>7. calls' = [calls EXCEPT !["handler"] = Pushed(@, s)]
  BY <1>1
<1> QED BY <1>1, <1>3, <1>5, <1>6, <1>7

LEMMA SendLastServed ==
  ASSUME StackAssumption, MwIfAssumption, DtaAssumption, Typed, Served, SendLast
  PROVE  Served'
<1> DEFINE s == <<"SendRawFrame">>
<1>1. /\ At("handler", "SendLast") /\ UNCHANGED <<stackVars, cb, dtaQueue, llcpMode>>
      /\ s \in Seq(StepsOf("handler")) /\ \A j \in 1 .. Len(s) : s[j] \notin Eots
      /\ calls' = [calls EXCEPT !["handler"] = Pushed(@, s)]
      /\ Rest(calls["handler"], s) # <<>>
  BY SendLastGoes
<1>2. "SendLast" \notin EndSteps
  BY DEF EndSteps, Stops
<1> HIDE DEF s
<1> QED BY <1>1, <1>2, HandlerGoesServed

(* The end of the test deactivates; a contact that needs more has its      *)
(* event on the way.                                                       *)
LEMMA EotServed ==
  ASSUME StackAssumption, MwIfAssumption, DtaAssumption, Typed, Served, CheckEot \/ Eot
  PROVE  Served'
<1>1. PICK step \in Eots : At("handler", step)
  BY DEF CheckEot, Eot, Eots
<1>2. /\ EndOfTest \/ Proceed("handler", <<>>)
      /\ UNCHANGED <<stackVars, cb, dtaQueue, llcpMode>>
  BY DEF CheckEot, Eot, queueVars, dtaVars, appVars
<1>3. /\ calls["handler"] \in CallsOf(StepsOf("handler")) /\ calls["handler"] # <<>>
      /\ calls["handler"][1][1] = step /\ at["handler"] = "run" /\ "handler" \in Threads
  BY <1>1, HandlerAt
<1>4. ~NoEot(calls["handler"])
  <2>1. 1 \in 1 .. Len(calls["handler"]) /\ 1 \in 1 .. Len(calls["handler"][1])
    BY <1>3, CallFacts
  <2> QED BY <1>3, <2>1 DEF NoEot
<1>5. CASE Proceed("handler", <<>>)
  <2>1. step \notin EndSteps BY DEF Eots, EndSteps, Stops
  <2> QED BY <1>1, <1>2, <1>5, <2>1, ProceedServed
<1>6. CASE EndOfTest
  <2> DEFINE x == << <<"Deactivate">> >>
             y == << <<"DeactivateSleep">>, <<"Deactivate">> >>
  <2>1. calls'["handler"] \in {x, y} /\ at'["handler"] = "run"
    BY <1>3, <1>6 DEF EndOfTest, Typed, ControlTyped, CallsTyped
  <2>2. Len(x) = 1 /\ x[1][1] = "Deactivate" /\ Len(y) = 2 /\ y[2][1] = "Deactivate"
    OBVIOUS
  <2> HIDE DEF x, y
  <2>3. EndComing'
    <3>1. 1 \in 1 .. 1 /\ 2 \in 1 .. 2 OBVIOUS
    <3> QED BY <2>1, <2>2, <3>1 DEF EndComing, Will, EndSteps
  <2>4. rf' = rf /\ peer' = peer /\ Coming \subseteq Coming'
    BY <1>2 DEF stackVars, Coming, ToDta
  <2> QED BY <1>2, <1>4, <2>3, <2>4, ServedByEvents DEF StopComing
<1> QED BY <1>2, <1>5, <1>6

(* A wait of card emulation is always followed by a stop of discovery.     *)
LEMMA PullStops ==
  ASSUME StackAssumption, MwIfAssumption, DtaAssumption, Typed, HcePull \/ UiccPull
  PROVE  StopComing'
<1> DEFINE c == calls["handler"]
           S == StepsOf("handler")
           x == <<"CheckActive", "SendRawFrame">>
           z == <<"CheckActive", "SendRawFrame", "HcePull">>
<1>1. PICK step \in Pulls : At("handler", step)
  BY DEF HcePull, UiccPull, Pulls
<1>2. /\ c \in CallsOf(S) /\ c # <<>> /\ Shape(c) /\ c[1][1] \in Pulls
      /\ at["handler"] = "run" /\ "handler" \in Threads /\ Busy("handler")
      /\ step \notin Ignored /\ Step("handler") = step
  BY <1>1, HandlerAt DEF Pulls, Ignored, At
<1>3. \/ Return("handler") \/ Proceed("handler", z) \/ Proceed("handler", <<>>)
      \/ calls' = [calls EXCEPT !["handler"] = << x >> \o c] /\ UNCHANGED at
      \/ UNCHANGED threadVars
  BY HandlerTuples DEF HcePull, UiccPull
<1>4. NoEot(c) /\ Later(Stops)
  <2>1. 1 \in 1 .. Len(c) /\ 1 \in 1 .. Len(c[1])
    BY <1>2, CallFacts
  <2>2. NoEot(c) /\ \E k \in 1 + 1 .. Len(c) : c[k][1] \in Stops
    BY <1>2, <2>1 DEF Shape
  <2>3. 1 + 1 = 2 OBVIOUS
  <2> QED BY <2>2, <2>3 DEF Later
<1>5. calls \in [Threads -> CallsOf(Steps)]
  BY DEF Typed, ControlTyped, CallsTyped
<1>6. CASE Return("handler")
  <2>1. Popped("handler") BY <1>2, <1>6, Returned
  <2>2. Will(Stops)' BY <1>2, <1>4, <2>1, PoppedWill DEF Stops
  <2>3. calls'["handler"] = Tail(c) BY <1>2, <1>5, <2>1 DEF Popped
  <2>4. NoEot(Tail(c)) BY <1>2, <1>4, TailNoEot
  <2> QED BY <2>2, <2>3, <2>4 DEF StopComing
<1>7. ASSUME NEW s \in Seq(S), \A j \in 1 .. Len(s) : s[j] \notin Eots, Proceed("handler", s)
      PROVE  StopComing'
  <2>1. Moved("handler", s) BY <1>7, Proceeded
  <2>2. Will(Stops)' BY <1>2, <1>4, <1>7, <2>1, MovedWill DEF Moved, Stops
  <2>3. calls'["handler"] = Pushed(c, s) BY <1>2, <1>5, <2>1 DEF Moved
  <2>4. NoEot(Pushed(c, s)) BY <1>2, <1>4, <1>7, PushedNoEot
  <2> QED BY <2>2, <2>3, <2>4 DEF StopComing
<1>8. CASE Proceed("handler", z)
  <2>1. "CheckActive" \in S /\ "SendRawFrame" \in S /\ "HcePull" \in S
    BY DEF StepsOf, TestSteps, Pulls
  <2> HIDE DEF S
  <2>2. z \in Seq(S) BY <2>1
  <2>3. Len(z) = 3 /\ z[1] = "CheckActive" /\ z[2] = "SendRawFrame" /\ z[3] = "HcePull"
    OBVIOUS
  <2> HIDE DEF z
  <2>4. \A j \in 1 .. Len(z) : z[j] \in {"CheckActive", "SendRawFrame", "HcePull"}
    BY <2>3
  <2>5. \A j \in 1 .. Len(z) : z[j] \notin Eots
    BY <2>4 DEF Eots
  <2> QED BY <1>7, <1>8, <2>2, <2>5
<1>9. CASE Proceed("handler", <<>>)
  <2>1. <<>> \in Seq(S) /\ \A j \in 1 .. Len(<<>>) : <<>>[j] \notin Eots OBVIOUS
  <2> QED BY <1>7, <1>9, <2>1
<1>10. CASE calls' = [calls EXCEPT !["handler"] = << x >> \o c] /\ UNCHANGED at
  <2> DEFINE b == << x >> \o c
             n == Len(c)
  <2>1. x \in Seq(S) /\ x # <<>>
    BY HandlerTuples, StepsWithin, SeqMonotonic
  <2>2. Len(x) = 2 /\ x[1] = "CheckActive" /\ x[2] = "SendRawFrame"
    OBVIOUS
  <2>3. calls'["handler"] = b
    BY <1>2, <1>5, <1>10
  <2> HIDE DEF x, c, S
  <2>4. /\ Len(b) = n + 1 /\ b[1] = x /\ \A i \in 2 .. n + 1 : b[i] = c[i - 1]
    BY <1>2, <2>1, ConsFacts
  <2>5. n \in Nat BY <1>2, CallFacts
  <2> HIDE DEF b, n
  <2>6. NoEot(b)
    <3> SUFFICES ASSUME NEW i \in 1 .. n + 1, NEW j \in 1 .. Len(b[i]) PROVE b[i][j] \notin Eots
      BY <2>4 DEF NoEot
    <3>1. CASE i = 1
      <4>1. j \in 1 .. 2 BY <2>2, <2>4, <3>1
      <4>2. x[j] \in {"CheckActive", "SendRawFrame"} BY <2>2, <4>1
      <4> QED BY <2>4, <3>1, <4>2 DEF Eots
    <3>2. CASE i \in 2 .. n + 1
      <4>1. i - 1 \in 1 .. n BY <2>5, <3>2
      <4> QED BY <1>4, <2>4, <3>2, <4>1 DEF NoEot, n
    <3> QED BY <2>5, <3>1, <3>2
  <2>7. Will(Stops)'
    <3>1. PICK i \in 2 .. n : c[i][1] \in Stops
      BY <1>4 DEF Later, n, c
    <3>2. i + 1 \in 2 .. n + 1 /\ i + 1 \in 1 .. n + 1 /\ (i + 1) - 1 = i /\ i + 1 # 1
      BY <2>5, <3>1
    <3>3. b[i + 1][1] \in Stops BY <2>4, <3>1, <3>2
    <3> QED BY <2>3, <2>4, <3>2, <3>3 DEF Will
  <2> QED BY <2>3, <2>6, <2>7 DEF StopComing
<1>11. CASE UNCHANGED threadVars
  <2>1. Will(Stops)
    <3>1. Len(c) \in Nat BY <1>2, CallFacts
    <3> QED BY <1>4, <3>1, LaterWill
  <2> QED BY <1>4, <1>11, <2>1 DEF StopComing, Will, threadVars
<1> QED BY <1>3, <1>6, <1>8, <1>9, <1>10, <1>11

-----------------------------------------------------------------------------
(* The round of a contact ends it.                                         *)

LEMMA ConcatCalls ==
  ASSUME NEW S, NEW c \in CallsOf(S), NEW T, NEW b \in CallsOf(T)
  PROVE  /\ Len(c) \in Nat /\ Len(b) \in Nat /\ Len(c \o b) = Len(c) + Len(b)
         /\ \A i \in 1 .. Len(c) : (c \o b)[i] = c[i]
         /\ \A i \in 1 .. Len(b) : (c \o b)[Len(c) + i] = b[i]
<1> DEFINE U == S \cup T
           m == Len(c)
           n == Len(b)
           q == c \o b
<1>1. c \in CallsOf(U) /\ b \in CallsOf(U)
  BY CallsWithin
<1>2. c \in Seq(Seq(U) \ {<<>>}) /\ b \in Seq(Seq(U) \ {<<>>})
  BY <1>1 DEF CallsOf
<1>3. /\ Len(q) = m + n /\ m \in Nat /\ n \in Nat
      /\ \A i \in 1 .. m + n : q[i] = IF i <= m THEN c[i] ELSE b[i - m]
  BY <1>2, ConcatProperties, LenProperties
<1> HIDE DEF m, n, q
<1>4. /\ \A i \in 1 .. m : i \in 1 .. m + n /\ i <= m
      /\ \A i \in 1 .. n : m + i \in 1 .. m + n /\ ~(m + i <= m) /\ (m + i) - m = i
  BY <1>3
<1>5. /\ \A i \in 1 .. m : q[i] = c[i]
      /\ \A i \in 1 .. n : q[m + i] = b[i]
  BY <1>3, <1>4
<1> QED BY <1>3, <1>5 DEF m, n, q

LEMMA ContactRoundEnds ==
  ASSUME DtaAssumption, StackTyped, NEW p \in ReaderProtocols \cup CeProtocols,
         NEW round \in ContactRounds(p)
  PROVE  /\ \E i \in 1 .. Len(round) : round[i][1] \in EndSteps
         /\ p \in CeProtocols =>
              NoEot(round) /\ \E i \in 1 .. Len(round) : round[i][1] \in Stops
<1>1. PICK ops \in Operations(p) :
        round = ops \o (IF p = "T2T" THEN StartAgain ELSE StopAndStart)
  BY DEF ContactRounds
<1>2. CASE p = "T2T"
  <2>1. ops \in T2TOperations /\ round = ops \o EnableDiscovery
    BY <1>1, <1>2 DEF Operations, StartAgain
  <2>2. ops \in CallsOf(TestSteps) /\ Len(ops) > 0 /\ ops[Len(ops)][1] = "Deactivate"
    BY <2>1, T2TOperationsTyped
  <2>3. EnableDiscovery \in CallsOf(DiscoverySteps)
    BY DiscoveryCalls
  <2>4. /\ Len(ops) \in Nat /\ Len(EnableDiscovery) \in Nat
        /\ Len(round) = Len(ops) + Len(EnableDiscovery)
        /\ \A i \in 1 .. Len(ops) : round[i] = ops[i]
    BY <2>1, <2>2, <2>3, ConcatCalls
  <2> DEFINE m == Len(ops)
             n == Len(EnableDiscovery)
  <2>5. m \in Nat /\ n \in Nat /\ m > 0
    BY <2>2, <2>4
  <2> HIDE DEF m, n
  <2>6. m \in 1 .. m /\ m \in 1 .. m + n
    BY <2>5
  <2>7. round[m][1] = "Deactivate" /\ m \in 1 .. Len(round)
    BY <2>2, <2>4, <2>6 DEF m, n
  <2> QED BY <1>2, <2>7 DEF EndSteps, CeProtocols
<1>3. CASE p # "T2T"
  <2>1. round = ops \o StopAndStart
    BY <1>1, <1>3
  <2>2. StopAndStart \in CallsOf(DiscoverySteps)
    BY DiscoveryCalls
  <2>3. Len(StopAndStart) = 4 /\ StopAndStart[1][1] = "DiscoveryStop"
    BY StopAndStartShape
  <2>4. ASSUME NEW S, ops \in CallsOf(S)
        PROVE  \E i \in 1 .. Len(round) : round[i][1] = "DiscoveryStop"
    <3> DEFINE m == Len(ops)
               q == StopAndStart
    <3>1. /\ m \in Nat /\ Len(round) = m + Len(q)
          /\ \A i \in 1 .. Len(q) : round[m + i] = q[i]
      <4> HIDE DEF q
      <4>1. q \in CallsOf(DiscoverySteps) /\ round = ops \o q BY <2>1, <2>2 DEF q
      <4> QED BY <2>4, <4>1, ConcatCalls
    <3> HIDE DEF m
    <3>2. m + 1 \in 1 .. m + 4 /\ 1 \in 1 .. 4
      BY <3>1
    <3> QED BY <2>3, <3>1, <3>2
  <2>5. CASE p \in ReaderProtocols
    <3>1. ops \in CallsOf(TestSteps)
      BY <1>1, <2>5, OperationsTyped
    <3>2. p \notin CeProtocols
      BY <2>5 DEF ReaderProtocols, CeProtocols
    <3> QED BY <2>4, <3>1, <3>2 DEF EndSteps, Stops
  <2>6. CASE p \in CeProtocols
    <3>1. \E x \in Pulls : ops = << <<x>> >>
      BY <1>1, <2>6 DEF Operations, CeProtocols, Pulls
    <3>2. PICK x \in Pulls : ops = << <<x>> >>
      BY <3>1
    <3>3. ops \in CallsOf(TestSteps \cup Pulls)
      BY <3>2, PullRound
    <3>4. Shape(round) /\ round \in CallsOf(StepsOf("handler"))
      BY ContactRound
    <3>5. Len(ops) = 1 /\ ops[1][1] = x
      BY <3>2
    <3>6. /\ Len(round) = Len(ops) + Len(StopAndStart)
          /\ \A i \in 1 .. Len(ops) : round[i] = ops[i]
      BY <2>1, <2>2, <3>3, ConcatCalls
    <3>7. Len(round) = 5 /\ round[1][1] = x
      <4>1. 1 \in 1 .. 1 OBVIOUS
      <4> QED BY <2>3, <3>5, <3>6, <4>1
    <3>8. 1 \in 1 .. Len(round) /\ 1 \in 1 .. Len(round[1])
      <4>1. 1 \in 1 .. 5 /\ 5 > 0 OBVIOUS
      <4>2. round # <<>> /\ 1 \in 1 .. Len(round) BY <3>7, <4>1
      <4> QED BY <3>4, <4>2, CallFacts
    <3>9. NoEot(round)
      BY <3>4, <3>7, <3>8 DEF Shape
    <3> QED BY <2>4, <3>3, <3>9 DEF EndSteps, Stops
  <2> QED BY <2>5, <2>6
<1> QED BY <1>2, <1>3

LEMMA HandlerPullServed ==
  ASSUME MwIfAssumption, DtaAssumption, Typed, Served, HandlerPull
  PROVE  Served'
<1> DEFINE e == Head(dtaQueue)
<1>1. e \in DtaEvents
  BY HeadTailProperties DEF HandlerPull, Typed, MwTyped
<1>2. UNCHANGED <<stackVars, cb, at, llcpMode>> /\ dtaQueue # <<>> /\ dtaQueue' = Tail(dtaQueue)
  BY DEF HandlerPull, appVars
<1>3. at'["handler"] = "run" /\ "handler" \in Threads
  BY <1>2 DEF DtaAssumption, HandlerPull, HandlerIdle, Busy, Typed, ControlTyped, CallsTyped
<1>4. PICK round \in Rounds(e) : calls' = [calls EXCEPT !["handler"] = round]
  BY DEF HandlerPull
<1>5. calls'["handler"] = round
  BY <1>3, <1>4 DEF Typed, ControlTyped, CallsTyped
<1>6. ~EndComing /\ ~StopComing
  <2>1. calls["handler"] = <<>> BY DEF HandlerPull, HandlerIdle
  <2>2. ~\E i \in 1 .. Len(calls["handler"]) : TRUE BY <2>1
  <2> QED BY <2>2 DEF EndComing, StopComing, Will
<1>7. rf' = rf /\ peer' = peer /\ llcpMode' = llcpMode /\ UNCHANGED <<nfaOut, cb>>
  BY <1>2 DEF stackVars
<1> HIDE DEF e
<1>8. \A x \in Coming : x # e => x \in Coming'
  BY <1>2, <1>7, ComingPulled DEF Typed, e
<1>9. CASE Serves(e)
  <2>1. e.detail \in ReaderProtocols \cup CeProtocols
        /\ (e.type = "CE_ACTIVATED" => e.detail \in CeProtocols)
    BY <1>1, <1>9 DEF Serves, DtaEvents, Events, Begins, Selected, Ends, PlainEvents, Results, PlainTypes,
                LocalTypes, TagReplies
  <2>2. round \in ContactRounds(e.detail)
    BY <1>4, <1>9 DEF Rounds, ContactRounds, Serves
  <2>3. EndComing'
    <3>1. \E i \in 1 .. Len(round) : round[i][1] \in EndSteps
      BY <2>1, <2>2, ContactRoundEnds DEF Typed
    <3> QED BY <1>3, <1>5, <3>1 DEF EndComing, Will
  <2>4. e.type = "CE_ACTIVATED" => StopComing'
    <3> SUFFICES ASSUME e.type = "CE_ACTIVATED" PROVE StopComing' OBVIOUS
    <3>1. NoEot(round) /\ \E i \in 1 .. Len(round) : round[i][1] \in Stops
      BY <2>1, <2>2, ContactRoundEnds DEF Typed
    <3> QED BY <1>3, <1>5, <3>1 DEF StopComing, Will
  <2>5. CeComing => CeComing' \/ StopComing'
    BY <1>8, <2>4 DEF CeComing
  <2> QED BY <1>6, <1>7, <2>3, <2>5 DEF Served
<1>10. CASE ~Serves(e)
  <2>1. CeComing => CeComing'
    BY <1>8, <1>10 DEF CeComing, Serves
  <2>2. ContactComing => ContactComing'
    BY <1>7, <1>8, <1>10 DEF ContactComing, Serves
  <2> QED BY <1>6, <1>7, <2>1, <2>2 DEF Served, Unattended
<1> QED BY <1>9, <1>10
-----------------------------------------------------------------------------
(* Every step keeps contacts known and served.                             *)

LEMMA CallRadio ==
  ASSUME NEW t, CallEffect(t), MwEffect(t)
  PROVE  /\ RadioEffect /\ UNCHANGED <<cb, dtaQueue>>
         /\ eDeviceState' = eDeviceState \/ eDeviceState' # "IDLE"
<1>1. RadioEffect
  BY DEF CallEffect, Stays, Commands, Waits, Goes, CommandEffect, RadioEffect
<1>2. eDeviceState' = eDeviceState \/ eDeviceState' # "IDLE"
  BY DEF MwEffect
<1> QED BY <1>1, <1>2 DEF MwEffect

(* A step that leaves the radio, the events and the handler alone.         *)
LEMMA AloneKept ==
  ASSUME StackTyped, Known, Served, UNCHANGED <<stackVars, eDeviceState, cb, dtaQueue, llcpMode>>,
         calls'["handler"] = calls["handler"], at'["handler"] = at["handler"]
  PROVE  Known' /\ Served'
<1>1. Keeps
  <2>1. <<>> \in Seq(PlainEvents) /\ nfaOut' = nfaOut /\ nfaOut \in Seq(Events)
    BY DEF stackVars, StackTyped
  <2>2. nfaOut \o <<>> = nfaOut
    BY <2>1, ConcatEmptySeq
  <2> QED BY <2>1, <2>2 DEF Keeps, Report, stackVars
<1> QED BY <1>1, KnownAfter, OthersServed DEF RadioEffect

LEMMA HandlerKept ==
  ASSUME StackAssumption, MwIfAssumption, DtaAssumption, Typed, EndsAccepted, Known, Served,
         Handler
  PROVE  Known' /\ Served'
<1>1. "handler" \in Threads
  BY DEF DtaAssumption
<1>2. ASSUME CallStep("handler") \/ LlcpStep, UNCHANGED dtaVars PROVE Known' /\ Served'
  <2>1. UNCHANGED <<setting, llcpMode>>
    BY <1>2 DEF dtaVars, appVars
  <2>2. CallEffect("handler") /\ MwEffect("handler")
    BY <1>1, <1>2, <2>1, CallStepEffect, IssueLlcpEffect DEF LlcpStep
  <2>3. /\ RadioEffect /\ UNCHANGED <<cb, dtaQueue, llcpMode>>
        /\ eDeviceState' = eDeviceState \/ eDeviceState' # "IDLE"
    BY <2>1, <2>2, CallRadio
  <2>4. Known'
    BY <2>3, KnownAfter DEF Typed
  <2> QED BY <2>2, <2>3, <2>4, HandlerCallServed
<1>3. ASSUME Handler, ~(CallStep("handler") \/ LlcpStep) \/ ~UNCHANGED dtaVars
      PROVE  UNCHANGED <<stackVars, eDeviceState>>
  BY <1>3 DEF Handler, HandlerPull, CheckEot, Eot, SendLast, HcePull, UiccPull, SaveConn,
              SaveClSap, mwVars
<1>4. UNCHANGED <<stackVars, eDeviceState>> => Known'
  BY DEF stackVars, Known, Beginning, IdleEvent
<1>5. CASE HandlerPull
  BY <1>4, <1>5, HandlerPullServed DEF HandlerPull, mwVars
<1>6. CASE CheckEot \/ Eot
  BY <1>4, <1>6, EotServed DEF CheckEot, Eot, mwVars
<1>7. CASE SendLast
  BY <1>4, <1>7, SendLastServed DEF SendLast, mwVars
<1>8. CASE HcePull \/ UiccPull
  BY <1>4, <1>8, PullStops, StopServes DEF HcePull, UiccPull, mwVars
<1>9. CASE SaveConn \/ SaveClSap
  <2>1. PICK step \in {"SaveConn", "SaveClSap"} : At("handler", step)
    BY <1>9 DEF SaveConn, SaveClSap
  <2>2. Proceed("handler", <<>>) /\ UNCHANGED <<stackVars, eDeviceState, cb, dtaQueue, llcpMode>>
    BY <1>9 DEF SaveConn, SaveClSap, mwVars, queueVars, appVars
  <2>3. step \notin EndSteps
    BY DEF EndSteps, Stops
  <2> QED BY <1>4, <2>1, <2>2, <2>3, ProceedServed
<1> QED BY <1>2, <1>5, <1>6, <1>7, <1>8, <1>9 DEF Handler

(* The other threads' calls.                                               *)
LEMMA OtherCallKept ==
  ASSUME StackAssumption, MwIfAssumption, DtaAssumption, Typed, Known, Served,
         NEW t \in Threads, t # "handler", CallStep(t), UNCHANGED dtaVars
  PROVE  Known' /\ Served'
<1>1. /\ CallEffect(t) /\ MwEffect(t)
      /\ calls'["handler"] = calls["handler"] /\ at'["handler"] = at["handler"]
  BY CallStepTyped DEF DtaAssumption
<1>2. /\ RadioEffect /\ UNCHANGED <<cb, dtaQueue, llcpMode>>
      /\ eDeviceState' = eDeviceState \/ eDeviceState' # "IDLE"
  BY <1>1, CallRadio DEF dtaVars, appVars
<1> QED BY <1>1, <1>2, KnownAfter, OthersServed DEF Typed

LEMMA AppKept ==
  ASSUME StackAssumption, MwIfAssumption, DtaAssumption, Typed, Off, Known, Served,
         AppEnable \/ AppDisable \/ App
  PROVE  Known' /\ Served'
<1>1. "app" \in Threads /\ "handler" \in Threads
      /\ calls \in [Threads -> CallsOf(Steps)] /\ at \in [Threads -> {"run", "check", "wait"}]
  BY DEF DtaAssumption, Typed, ControlTyped, CallsTyped
<1>2. CASE AppEnable
  <2>1. rf' = "stopped"
    BY <1>2 DEF AppEnable, Off, stackVars
  <2> QED BY <2>1 DEF Known, Served
<1>3. CASE CallStep("app") /\ UNCHANGED dtaVars
  BY <1>1, <1>3, OtherCallKept
<1>4. CASE AppDisable \/ Enable \/ SavePrev \/ AppReturns
  <2>1. UNCHANGED <<stackVars, eDeviceState, cb, dtaQueue, llcpMode>>
    BY <1>4 DEF AppDisable, Enable, SavePrev, AppReturns, mwVars, queueVars, dtaVars, appVars
  <2>2. calls'["handler"] = calls["handler"] /\ at'["handler"] = at["handler"]
    BY <1>1, <1>4 DEF AppDisable, Enable, SavePrev, AppReturns, Proceed, threadVars
  <2> QED BY <2>1, <2>2, AloneKept DEF Typed
<1> QED BY <1>2, <1>3, <1>4 DEF App

LEMMA StackThreadKept ==
  ASSUME Typed, Known, Served, StackThread
  PROVE  Known' /\ Served'
<1>1. /\ UNCHANGED <<rf, peer, llcpMode>>
      /\ calls'["handler"] = calls["handler"] /\ at'["handler"] = at["handler"]
  BY DEF StackThread, Callback, CallbackPush, dtaVars, appVars, stackVars, threadVars
<1>2. StopComing' = StopComing /\ EndComing' = EndComing
  BY <1>1 DEF StopComing, EndComing, Will
<1>3. CASE Callback
  <2>1. \A e \in Coming : OfContact(e) => e \in Coming'
    BY <1>3, ComingCalledBack DEF Typed
  <2> QED BY <1>1, <1>2, <1>3, <2>1, ServedByEvents, KnownAfterCallback DEF Typed
<1>4. CASE CallbackPush
  <2>1. \A e \in Coming : OfContact(e) => e \in Coming'
    BY <1>4, ComingPushed DEF Typed
  <2>2. UNCHANGED <<stackVars, eDeviceState>>
    BY <1>4 DEF CallbackPush, mwVars
  <2>3. Known'
    BY <2>2 DEF stackVars, Known, Beginning, IdleEvent
  <2> QED BY <1>1, <1>2, <2>1, <2>3, ServedByEvents
<1> QED BY <1>3, <1>4 DEF StackThread

LEMMA TesterKept ==
  ASSUME StackAssumption, Typed, Known, Served, TesterActs
  PROVE  Known' /\ Served'
<1>1. /\ Tester /\ UNCHANGED <<setting, eDeviceState, cb, dtaQueue, llcpMode>>
      /\ calls'["handler"] = calls["handler"] /\ at'["handler"] = at["handler"]
  BY DEF TesterActs, mwVars, queueVars, threadVars, dtaVars, appVars
<1>2. RadioEffect
  BY <1>1, TesterStep DEF Typed, TesterEffect, RadioEffect
<1> QED BY <1>1, <1>2, KnownAfter, OthersServed DEF Typed

LEMMA IntegrationKept ==
  ASSUME StackAssumption, MwIfAssumption, DtaAssumption, Typed, Known, Served,
         NEW t \in Integrator, Integration(t)
  PROVE  Known' /\ Served'
<1>1. t \in Threads /\ t # "handler" /\ "handler" \in Threads
      /\ calls \in [Threads -> CallsOf(Steps)] /\ at \in [Threads -> {"run", "check", "wait"}]
  BY IntegratorIs DEF DtaAssumption, Typed, ControlTyped, CallsTyped
<1>2. CASE CallStep(t)
  BY <1>1, <1>2, OtherCallKept DEF Integration
<1>3. CASE IntegrationWake(t) \/ IntegrationRestart(t)
  <2>1. UNCHANGED <<stackVars, eDeviceState, cb, dtaQueue, llcpMode>>
    BY <1>3 DEF Integration, IntegrationWake, IntegrationRestart, mwVars, queueVars, dtaVars,
                appVars
  <2>2. calls'["handler"] = calls["handler"] /\ at'["handler"] = at["handler"]
    BY <1>1, <1>3 DEF IntegrationWake, IntegrationRestart
  <2> QED BY <2>1, <2>2, AloneKept DEF Typed
<1> QED BY <1>2, <1>3 DEF Integration

ContactsKept == Typed /\ AppIdle /\ Off /\ Known /\ Served

LEMMA InitKept == ASSUME MwIfAssumption, DtaAssumption, Init PROVE ContactsKept
<1>1. Typed /\ AppIdle
  BY InitTyped
<1>2. Known /\ Served
  BY DEF Init, StackInit, Known, Served
<1>3. Off
  BY DEF Init, StackInit, MwInit, Off, CallbackIdle, Busy
<1> QED BY <1>1, <1>2, <1>3 DEF ContactsKept

LEMMA NextKept ==
  ASSUME StackAssumption, MwIfAssumption, DtaAssumption, EndsAccepted, ContactsKept, [Next]_vars
  PROVE  ContactsKept'
<1> USE DEF ContactsKept
<1>1. Typed' /\ AppIdle' /\ Off'
  BY NextTyped, OffKept
<1>2. Known' /\ Served'
  <2>1. CASE AppEnable \/ AppDisable \/ App BY <2>1, AppKept
  <2>2. CASE Handler BY <2>2, HandlerKept
  <2>3. CASE StackThread BY <2>3, StackThreadKept
  <2>4. CASE TesterActs BY <2>4, TesterKept
  <2>5. CASE \E t \in Integrator : Integration(t) BY <2>5, IntegrationKept
  <2>6. CASE UNCHANGED vars
    BY <2>6, AloneKept DEF Typed, vars, mwVars, queueVars, threadVars, dtaVars, appVars
  <2> QED BY <2>1, <2>2, <2>3, <2>4, <2>5, <2>6 DEF Next
<1> QED BY <1>1, <1>2

LEMMA KeptIsServed ==
  ASSUME DtaAssumption, ContactsKept
  PROVE  NoForgottenContact
<1>1. SUFFICES ASSUME Quiet, rf \in {"active", "emulating"}, ~Unattended
               PROVE  FALSE
  BY DEF NoForgottenContact
<1>2. "handler" \in Threads
  BY DEF DtaAssumption
<1>3. ~Busy("handler")
  <2>1. CASE At("handler", "Exited")
    <3>1. calls["handler"] \in CallsOf(StepsOf("handler")) /\ calls["handler"] # <<>>
          /\ Step("handler") = "Exited"
      BY <1>2, <2>1 DEF At, Busy, ContactsKept, Typed, ControlTyped, CallsTyped
    <3>2. Step("handler") \in StepsOf("handler")
      BY <2>1, <1>2, StepIs DEF At, ContactsKept, Typed
    <3> QED BY <3>1, <3>2 DEF StepsOf, DiscoverySteps, TestSteps, LinkSteps, Pulls, Eots,
                              ListenSteps, Stops
  <2> QED BY <1>1, <1>2, <2>1 DEF Quiet
<1>4. ~EndComing /\ ~StopComing
  <2>1. calls["handler"] = <<>> BY <1>3 DEF Busy
  <2>2. ~\E i \in 1 .. Len(calls["handler"]) : TRUE BY <2>1
  <2> QED BY <2>2 DEF EndComing, StopComing, Will
<1>5. Coming = {}
  BY <1>1 DEF Quiet, CallbackIdle, Coming, ToDta
<1> QED BY <1>1, <1>4, <1>5 DEF ContactsKept, Served, CeComing, ContactComing

(* A contact with a tag or a reader is never left open with nobody to      *)
(* serve it, for any protocols, bounds, lengths of the queues and threads, *)
(* whether answers come late or the tester early, if the stack never       *)
(* refuses the two commands that end contacts: the event of the contact is *)
(* on its way to the handler, or the handler has a call left that stops    *)
(* discovery or deactivates.  A refused command ends no contact, and the   *)
(* code does not repeat it.  Excepted are the contacts the code leaves to  *)
(* themselves, whoever comes and goes before or after them: those of peers *)
(* over LLCP and of devices of a protocol it does not know (Unattended).   *)
THEOREM ContactsServed == EndsAccepted => (Spec => []NoForgottenContact)
<1> USE StackAssumption, MwIfAssumption, DtaAssumption
<1> SUFFICES ASSUME EndsAccepted PROVE Spec => []NoForgottenContact
  OBVIOUS
<1>1. Init => ContactsKept
  BY InitKept
<1>2. ContactsKept /\ [Next]_vars => ContactsKept'
  BY NextKept
<1>3. ContactsKept => NoForgottenContact
  BY KeptIsServed
<1> QED BY <1>1, <1>2, <1>3, PTL DEF Spec

=============================================================================
