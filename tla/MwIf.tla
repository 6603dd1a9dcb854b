--------------------------------- MODULE MwIf ---------------------------------
(***************************************************************************)
(* The middleware interface (phMwIfAndroid.c).  Threads issue commands to  *)
(* the NFC stack and wait for the answer in one queue, pvQueueHdl, which   *)
(* the callback thread of the stack fills (PH_WAIT_FOR_CBACK_EVT); the     *)
(* same callback hands events on to the DTA library's queue.               *)
(*                                                                         *)
(* A thread is in a stack of calls.  A call is the sequence of steps it    *)
(* has left; a failing step returns from the innermost call, whose caller  *)
(* goes on with its next step: no caller on these paths looks at a status  *)
(* except where the two calls are kept as one here.  Both queues were      *)
(* created NO_OVERWRITE, and are what OsalQueue shows such queues to be:   *)
(* first-in first-out, of bounded length, blocking when full.              *)
(***************************************************************************)
EXTENDS NfcStack

CONSTANTS
  Threads        \* threads that call into the middleware interface

CeTypes == {"UICC_CE", "SE_CE", "HOST_CE", "INVALID_CE"}

ASSUME MwIfAssumption ==
  \A name \in DOMAIN Settings :
    /\ Settings[name].configs \subseteq
         [enableCE : BOOLEAN, ceType : CeTypes, blAnalogMode : BOOLEAN]
    /\ Settings[name].mwQLength \in Nat \ {0}
    /\ Settings[name].dtaQLength \in Nat \ {0}
    /\ Settings[name].lateAnswers \in BOOLEAN

VARIABLES
  eDeviceState,          \* IDLE, DISCOVERY_STARTED or POLL_ACTIVE
  sDiscCfg,              \* last configuration given to phMwIf_EnableDiscovery
  blDiscAnalogMode,
  gx_status,             \* global: status of the last command or event
  Pgu_event,             \* global: last event of the callback, as far as it matters:
                         \* "DATA" or "none"
  gb_discovery_notify,   \* a discovery result waits for the integration thread
  pvSemIntgrnThrd,       \* value of the integration thread's semaphore
  pfMwIfLlcpCb,          \* the application's LLCP callback is registered
  mwQueue,               \* events in pvQueueHdl
  sLastQueueData,        \* what the last awaited event told
  dtaQueue,              \* events in the DTA library's queue
  cb,                    \* the callback: its event and the pushes it has left
  calls,                 \* per thread: its calls, innermost first
  at,                    \* per thread: "run", "check", "wait"
  arg                    \* per thread: configuration it enables discovery with

mwVars == <<eDeviceState, sDiscCfg, blDiscAnalogMode, gx_status, Pgu_event,
            gb_discovery_notify, pvSemIntgrnThrd, pfMwIfLlcpCb>>
queueVars == <<mwQueue, sLastQueueData, dtaQueue>>
threadVars == <<calls, at, arg>>

(* Lengths of pvQueueHdl and of the DTA library's queue; whether a wait may *)
(* time out before its answer comes.                                       *)
MwQLength == Settings[setting].mwQLength
DtaQLength == Settings[setting].dtaQLength
LateAnswers == Settings[setting].lateAnswers

NoEvent == Event("none", "none")

MwInit(cfg) ==
  /\ eDeviceState = "IDLE"
  /\ sDiscCfg = cfg /\ blDiscAnalogMode = FALSE
  /\ gx_status = "OK" /\ Pgu_event = "none"
  /\ gb_discovery_notify = FALSE /\ pvSemIntgrnThrd = 0
  /\ pfMwIfLlcpCb = FALSE
  /\ mwQueue = <<>> /\ sLastQueueData = "none" /\ dtaQueue = <<>>
  /\ cb = [ev |-> NoEvent, todo |-> <<>>]
  /\ calls = [t \in Threads |-> <<>>]
  /\ at = [t \in Threads |-> "run"]
  /\ arg = [t \in Threads |-> cfg]

-----------------------------------------------------------------------------
(* phMwIfi_NfaConnCallback, run by the stack's thread.  It updates the     *)
(* globals, then pushes to the queues in the order of `todo'.              *)

CallbackIdle == cb.todo = <<>>

(* Every event carries a first byte that the callback reads as its status. *)
(* Of a deactivation that byte is the deactivation type, of which only     *)
(* IDLE is 0; of the end of a card emulation it is part of a handle, of an *)
(* LLCP link's beginning the role and of its end the reason.  The switch   *)
(* has no case for the secure element's configuration: BAD_RESP.  The      *)
(* callbacks of the NXP commands and of LLCP leave the status alone.       *)
ServerEvents == {"CONN_REQ", "SERVER_DISC", "SERVER_DATA"}
ClientEvents == {"CONNECTED", "DISC", "SDP"}
LlcpEvents == { Reply[c] : c \in P2pCommands }
              \cup ServerEvents \cup ClientEvents \cup {"CL_DATA"}

StatusOf(e) ==
  CASE e.type \in {"NXP_RSP"} \cup LlcpEvents -> {gx_status}
    [] e.type \in {"RW_INTF_ERROR", "DEACTIVATE_FAIL",
                   "CE_ESE_LISTEN_CONFIGURED"} -> {"FAILED"}
    [] e = Event("DATA", "bad") -> {"FAILED"}
    [] e.type \in {"DEACTIVATED"} -> IF e.detail = "IDLE" THEN {"OK"} ELSE {"FAILED"}
    [] e.type \in {"CE_DEACTIVATED", "LLCP_ACTIVATED", "LLCP_DEACTIVATED"} ->
         {"OK", "FAILED"}
    [] OTHER -> {"OK"}

(* Mutant of StateAfter: the end of RF activity is not noticed. *)
StateAfterNoIdle(e) ==
  IF e.type \in {"ACTIVATED", "CE_ACTIVATED", "SELECT_RESULT"} THEN "POLL_ACTIVE"
  ELSE eDeviceState

StateAfter(e) ==
  CASE e.type \in {"ACTIVATED", "CE_ACTIVATED", "SELECT_RESULT"} -> "POLL_ACTIVE"
    [] e.type \in {"DEACTIVATED", "CE_DEACTIVATED"} /\ e.detail = "IDLE" -> "IDLE"
    [] e.type = "CE_DEACTIVATED" /\ e.detail = "DISCOVERY" -> "DISCOVERY_STARTED"
    [] OTHER -> eDeviceState

(* phMwIfi_HandleActivatedEvent: no command waits for an activation, and   *)
(* nobody is told of a device whose protocol is not one of the five.       *)
ActivatedPushes(e) == IF e.detail \in ReaderProtocols THEN <<"dta">> ELSE <<>>

(* What the servers' callbacks hand to the application they do not push to *)
(* pvQueueHdl.                                                             *)
ToApplication == IF pfMwIfLlcpCb THEN <<"dta">> ELSE <<>>
LlcpServerPushes(e) ==
  IF e.type \in {"CONN_REQ", "SERVER_DISC"} THEN ToApplication ELSE <<"mw">>
ConnLessServerPushes == ToApplication
LlcpClientPushes == <<"mw">>

(* The LLCP callback is called from inside the switch, before the push to  *)
(* pvQueueHdl; the application's callback after it.                        *)
PushesOf(e) ==
  CASE e.type = "ACTIVATED" -> ActivatedPushes(e)
    [] e.type \in {"LLCP_ACTIVATED", "LLCP_DEACTIVATED"} ->
         ToApplication \o <<"mw">>
    [] e.type \in {"DEACTIVATED", "CE_ACTIVATED", "CE_DATA", "CE_DEACTIVATED"} ->
         <<"mw", "dta">>
    [] e.type \in ServerEvents -> LlcpServerPushes(e)
    [] e.type = "CL_DATA" -> ConnLessServerPushes
    [] e.type \in ClientEvents -> LlcpClientPushes
    [] e \in {Event("DISC_RESULT", "more"), Event("DATA", "bad")} -> <<>>
    [] OTHER -> <<"mw">>

(* phDtaLibi_EvtCb is told of the end of a card emulation as of any other. *)
DtaEvent(e) == IF e.type \in {"CE_DEACTIVATED", "DEACTIVATED"}
               THEN Event("DEACTIVATED", "none") ELSE e

(* Only the connection and the device management callbacks set Pgu_event. *)
OfOtherCallbacks == {"NXP_RSP"} \cup LlcpEvents \cup { Reply[c] : c \in EeCommands }
TellsEvent(e) == e.type \notin OfOtherCallbacks

(* Of an event in pvQueueHdl the waits use the type, and what it tells of  *)
(* a connection made and of a service found.                               *)
MwEvent(e) == IF e.type \in {"CONNECTED", "SDP"} THEN e ELSE Event(e.type, "none")

Callback ==
  /\ CallbackIdle /\ nfaOut # <<>>
  /\ LET e == Head(nfaOut) IN
     /\ nfaOut' = Tail(nfaOut)
     /\ Pgu_event' = IF ~TellsEvent(e) THEN Pgu_event
                     ELSE IF e.type = "DATA" THEN "DATA" ELSE "none"
     /\ gx_status' \in StatusOf(e)
     /\ eDeviceState' = StateAfter(e)
     /\ IF e = Event("DISC_RESULT", "last")
        THEN gb_discovery_notify' = TRUE /\ pvSemIntgrnThrd' = pvSemIntgrnThrd + 1
        ELSE UNCHANGED <<gb_discovery_notify, pvSemIntgrnThrd>>
     /\ cb' = [ev |-> e, todo |-> PushesOf(e)]
  /\ UNCHANGED <<rf, peer, owed, ceSent, several, linkVars, sDiscCfg, blDiscAnalogMode,
                 pfMwIfLlcpCb, queueVars, threadVars>>

(* Mutant of CallbackPush: the push does not wait for an empty slot. *)
CallbackPushOver ==
  /\ ~CallbackIdle
  /\ mwQueue' = IF Head(cb.todo) = "mw" THEN Append(mwQueue, MwEvent(cb.ev)) ELSE mwQueue
  /\ dtaQueue' = IF Head(cb.todo) = "dta" THEN Append(dtaQueue, DtaEvent(cb.ev))
                 ELSE dtaQueue
  /\ cb' = IF Len(cb.todo) = 1 THEN [ev |-> NoEvent, todo |-> <<>>]
           ELSE [cb EXCEPT !.todo = Tail(cb.todo)]
  /\ UNCHANGED <<stackVars, mwVars, sLastQueueData, threadVars>>

(* phOsal_QueuePush with timeout 0: waits for room. *)
CallbackPush ==
  /\ ~CallbackIdle
  /\ \/ /\ Head(cb.todo) = "mw"
        /\ Len(mwQueue) < MwQLength
        /\ mwQueue' = Append(mwQueue, MwEvent(cb.ev))
        /\ UNCHANGED dtaQueue
     \/ /\ Head(cb.todo) = "dta"
        /\ Len(dtaQueue) < DtaQLength
        /\ dtaQueue' = Append(dtaQueue, DtaEvent(cb.ev))
        /\ UNCHANGED mwQueue
  /\ cb' = IF Len(cb.todo) = 1 THEN [ev |-> NoEvent, todo |-> <<>>]
           ELSE [cb EXCEPT !.todo = Tail(cb.todo)]
  /\ UNCHANGED <<stackVars, mwVars, sLastQueueData, threadVars>>

-----------------------------------------------------------------------------
(* Calls. *)

Busy(t) == calls[t] # <<>>
Step(t) == Head(Head(calls[t]))

(* Replace the current step of t by the steps s. *)
Into(t, s) == LET rest == s \o Tail(Head(calls[t]))
              IN  IF rest = <<>> THEN Tail(calls[t])
                  ELSE <<rest>> \o Tail(calls[t])

Proceed(t, s) == /\ calls' = [calls EXCEPT ![t] = Into(t, s)]
                 /\ at' = [at EXCEPT ![t] = "run"]
                 /\ UNCHANGED arg

(* Commands in functions of their own whose result the caller ignores in   *)
(* the middle of a call.                                                   *)
Ignored == {"RegisterAid", "SendNxpNci", "SetParam", "RegisterClServer", "HciRegister"}

(* Return with an error. *)
Return(t) ==
  /\ calls' = [calls EXCEPT ![t] = IF Step(t) \in Ignored THEN Into(t, <<>>)
                                   ELSE Tail(calls[t])]
  /\ at' = [at EXCEPT ![t] = "run"]
  /\ UNCHANGED arg

Enter(t, label) == at' = [at EXCEPT ![t] = label] /\ UNCHANGED <<calls, arg>>

(* gx_status = NFA_...(); *)
Issue(t) ==
  /\ Busy(t) /\ at[t] = "run"
  /\ Step(t) \in DOMAIN Reply \ ({"Receive"} \cup P2pCommands \cup LinkCommands)
  /\ \/ Accept(Step(t)) /\ gx_status' = "OK"
     \/ Step(t) \in MayRefuse /\ gx_status' = "FAILED" /\ UNCHANGED stackVars
  /\ Enter(t, IF Step(t) = "Select" THEN "wait" ELSE "check")
  /\ UNCHANGED <<eDeviceState, sDiscCfg, blDiscAnalogMode, Pgu_event,
                 gb_discovery_notify, pvSemIntgrnThrd, pfMwIfLlcpCb, queueVars, cb>>

(* bNfaStatus = NFA_P2p...(); the status is local. *)
IssueP2p(t) ==
  /\ Busy(t) /\ at[t] = "run"
  /\ Step(t) \in P2pCommands
  /\ \/ Accept(Step(t)) /\ Enter(t, "wait")
     \/ Step(t) \in MayRefuse /\ UNCHANGED stackVars /\ Return(t)
  /\ UNCHANGED <<mwVars, queueVars, cb>>

(* The calls that name a connection do nothing for a handle that is NULL;  *)
(* data is not sent to the SAP 0.  A command whose answer the code does    *)
(* not wait for is done when it was accepted.                              *)
NotForLink(c, h, sap) == \/ c \in {"AcceptConn", "P2pDisconnect"} /\ h = "none"
                         \/ c = "SendUi" /\ sap = "none"

IssueLlcp(t, h, sap) ==
  /\ Busy(t) /\ at[t] = "run"
  /\ LET c == Step(t) IN
     /\ c \in LinkCommands
     /\ \/ ~NotForLink(c, h, sap) /\ AcceptOnLink(c, h)
           /\ IF Reply[c] = "none" THEN Proceed(t, <<>>) ELSE Enter(t, "wait")
        \/ /\ NotForLink(c, h, sap) \/ NoSuchConn(c, h) \/ c \in MayRefuse
           /\ UNCHANGED stackVars /\ Return(t)
  /\ UNCHANGED <<mwVars, queueVars, cb>>

(* PH_ON_ERROR_EXIT, PH_ON_ERROR_RETURN: the global is read again, and the *)
(* callback may have written it meanwhile.                                 *)
Check(t) ==
  /\ Busy(t) /\ at[t] = "check"
  /\ \/ gx_status # "OK" /\ Return(t)
     \/ gx_status = "OK" /\ Reply[Step(t)] = "none" /\ Proceed(t, <<>>)
     \/ gx_status = "OK" /\ Reply[Step(t)] # "none" /\ Enter(t, "wait")
  /\ UNCHANGED <<stackVars, mwVars, queueVars, cb>>

(* An event that ends the wait of t with an error. *)
Aborts(t, type) ==
  /\ Reply[Step(t)] # "RF_DISCOVERY_STOPPED"
  /\ \/ type = "DEACTIVATED" /\ Reply[Step(t)] # "DEACTIVATED"
     \/ type = "RW_INTF_ERROR"

(* Mutant of WaitPull: the first event ends the wait, whatever it is. *)
WaitPullAny(t) ==
  /\ Busy(t) /\ at[t] = "wait"
  /\ mwQueue # <<>>
  /\ mwQueue' = Tail(mwQueue)
  /\ LET e == Head(mwQueue) IN
     \/ ~Aborts(t, e.type) /\ Proceed(t, <<>>) /\ sLastQueueData' = e.detail
     \/ Aborts(t, e.type) /\ Return(t) /\ UNCHANGED sLastQueueData
  /\ UNCHANGED <<stackVars, mwVars, dtaQueue, cb>>

(* PH_WAIT_FOR_CBACK_EVT: pull one event; stop at the expected one. *)
WaitPull(t) ==
  /\ Busy(t) /\ at[t] = "wait"
  /\ mwQueue # <<>>
  /\ mwQueue' = Tail(mwQueue)
  /\ LET e == Head(mwQueue) IN
     \/ e.type = Reply[Step(t)] /\ Proceed(t, <<>>) /\ sLastQueueData' = e.detail
     \/ Aborts(t, e.type) /\ Return(t) /\ UNCHANGED sLastQueueData
     \/ e.type # Reply[Step(t)] /\ ~Aborts(t, e.type)
        /\ UNCHANGED <<threadVars, sLastQueueData>>
  /\ UNCHANGED <<stackVars, mwVars, dtaQueue, cb>>

(* Nothing can arrive in pvQueueHdl unless a thread acts. *)
Silent == /\ owed = "none" /\ ~sdp
          /\ \A h \in DOMAIN links : links[h] # "calling"
          /\ IF CallbackIdle THEN nfaOut = <<>>
             ELSE Head(cb.todo) = "dta" /\ Len(dtaQueue) = DtaQLength

WaitTimeout(t) ==
  /\ Busy(t) /\ at[t] = "wait"
  /\ mwQueue = <<>>
  /\ LateAnswers \/ Silent
  /\ Return(t)
  /\ UNCHANGED <<stackVars, mwVars, queueVars, cb>>

-----------------------------------------------------------------------------
(* Before discovery: LLCP with its two servers, and the secure elements.   *)
(* One SetParam or SendNxpNci stands for a series of them.                 *)

LlcpInit == <<"SetConfig", "SetConfig",
              "RegisterClient", "RegisterClient", "RegisterClient", "SaveLlcpInit">>
LlcpServers == <<"RegisterServer", "RegisterClServer">>

SetRouting == <<"SetTechRouting", "SetProtoRouting">>

HceInit == <<"EeRegister">>
HceConfigNciParams == <<"SetParam">>
HceConfigure ==
  HceConfigNciParams \o SetRouting \o SetRouting \o <<"EeUpdateNow">>
HceDeInit == <<"EeDeregister">>

EeInit == <<"EeRegister", "EeGetInfo", "HciRegister", "EeStatus">>
EeConfigure == SetRouting \o <<"EeUpdateNow">>
EeDeInit == <<"EeDeregister", "HciDeregister">>

At(t, step) == Busy(t) /\ at[t] = "run" /\ Step(t) = step

(* The callback is stored when all of phMwIf_LlcpInit went well. *)
SaveLlcpInit(t) ==
  /\ At(t, "SaveLlcpInit")
  /\ pfMwIfLlcpCb' = TRUE
  /\ Proceed(t, <<>>)
  /\ UNCHANGED <<stackVars, eDeviceState, sDiscCfg, blDiscAnalogMode, gx_status,
                 Pgu_event, gb_discovery_notify, pvSemIntgrnThrd, queueVars, cb>>

(* The element is absent or invalid, active, or has to be activated. *)
EeGetInfo(t) ==
  /\ At(t, "EeGetInfo")
  /\ \/ gx_status' = "FAILED" /\ Return(t)
     \/ gx_status' = "OK" /\ Proceed(t, <<>>)
     \/ gx_status' = "OK" /\ Proceed(t, <<"EeModeSet">>)
  /\ UNCHANGED <<stackVars, eDeviceState, sDiscCfg, blDiscAnalogMode, Pgu_event,
                 gb_discovery_notify, pvSemIntgrnThrd, pfMwIfLlcpCb, queueVars, cb>>

(* phMwIf_EeInit returns the global after phMwIfi_HciRegister. *)
EeStatus(t) ==
  /\ At(t, "EeStatus")
  /\ IF gx_status = "OK" THEN Proceed(t, <<>>) ELSE Return(t)
  /\ UNCHANGED <<stackVars, mwVars, queueVars, cb>>

-----------------------------------------------------------------------------
(* phMwIfi_DiscoveryStop and phMwIf_EnableDiscovery. *)

DisableDiscovery ==
  <<"DiscoveryStop", "ClearAnalog", "DisablePolling", "DisableListening", "DisableCe">>

EnableDiscovery ==
  << <<"SaveConfig">>,
     <<"EnablePolling", "DiscoveryConfig", "EnableListening", "SetRfDiscoveryDuration">>,
     <<"StartRfDiscovery", "SetStarted">> >>

(* The commands by which sDiscCfg and the mode configure listening. *)
ListenCommands ==
  LET onHost == <<"SetIsoDepListenTech", "RegisterAid">>
      emulate == CASE sDiscCfg.ceType = "UICC_CE" -> <<"ConfigureUiccListen">>
                   [] sDiscCfg.ceType = "SE_CE" ->
                        IF blDiscAnalogMode THEN onHost ELSE <<"ConfigureEseListen">>
                   [] sDiscCfg.ceType = "HOST_CE" -> onHost
                   [] OTHER -> IF blDiscAnalogMode THEN onHost ELSE <<>>
      p2p == IF blDiscAnalogMode \/ ~sDiscCfg.enableCE
             THEN <<"SetP2pListenTech">> ELSE <<>>
  IN  p2p \o (IF sDiscCfg.enableCE THEN emulate ELSE <<>>)

(* The commands by which phMwIfi_DiscoveryStop undoes it. *)
UnlistenCommands ==
  IF ~sDiscCfg.enableCE THEN <<"SetP2pListenTech">>
  ELSE CASE sDiscCfg.ceType = "UICC_CE" -> <<"ConfigureUiccListen", "ClearCe">>
         [] sDiscCfg.ceType = "SE_CE" -> <<"ConfigureEseListen", "ClearCe">>
         [] sDiscCfg.ceType = "HOST_CE" -> <<"DeregisterAid", "ClearCe">>
         [] OTHER -> <<"ClearCe">>

(* Only a device that is not idle is stopped; otherwise flush the queue. *)
DiscoveryStop(t) ==
  /\ At(t, "DiscoveryStop")
  /\ Proceed(t, IF eDeviceState = "IDLE" THEN <<"Flush">> ELSE <<"StopRfDiscovery">>)
  /\ UNCHANGED <<stackVars, mwVars, queueVars, cb>>

(* phOsal_QueueFlush, one object at a time. *)
Flush(t) ==
  /\ At(t, "Flush")
  /\ IF mwQueue = <<>> THEN Proceed(t, <<>>) /\ UNCHANGED mwQueue
     ELSE mwQueue' = Tail(mwQueue) /\ UNCHANGED threadVars
  /\ UNCHANGED <<stackVars, mwVars, sLastQueueData, dtaQueue, cb>>

ClearAnalog(t) ==
  /\ At(t, "ClearAnalog")
  /\ blDiscAnalogMode' = FALSE
  /\ Proceed(t, <<>>)
  /\ UNCHANGED <<stackVars, eDeviceState, sDiscCfg, gx_status, Pgu_event,
                 gb_discovery_notify, pvSemIntgrnThrd, pfMwIfLlcpCb, queueVars, cb>>

Configure(t) ==
  /\ \/ At(t, "DiscoveryConfig") /\ Proceed(t, ListenCommands)
     \/ At(t, "DisableCe") /\ Proceed(t, UnlistenCommands)
  /\ UNCHANGED <<stackVars, mwVars, queueVars, cb>>

ClearCe(t) ==
  /\ At(t, "ClearCe")
  /\ sDiscCfg' = [sDiscCfg EXCEPT !.enableCE = FALSE]
  /\ Proceed(t, <<>>)
  /\ UNCHANGED <<stackVars, eDeviceState, blDiscAnalogMode, gx_status, Pgu_event,
                 gb_discovery_notify, pvSemIntgrnThrd, pfMwIfLlcpCb, queueVars, cb>>

SaveConfig(t, cfg) ==
  /\ At(t, "SaveConfig")
  /\ sDiscCfg' = cfg
  /\ blDiscAnalogMode' = cfg.blAnalogMode
  /\ Proceed(t, <<>>)
  /\ UNCHANGED <<stackVars, eDeviceState, gx_status, Pgu_event,
                 gb_discovery_notify, pvSemIntgrnThrd, pfMwIfLlcpCb, queueVars, cb>>

SetStarted(t) ==
  /\ At(t, "SetStarted")
  /\ eDeviceState' = "DISCOVERY_STARTED"
  /\ Proceed(t, <<>>)
  /\ UNCHANGED <<stackVars, sDiscCfg, blDiscAnalogMode, gx_status, Pgu_event,
                 gb_discovery_notify, pvSemIntgrnThrd, pfMwIfLlcpCb, queueVars, cb>>

-----------------------------------------------------------------------------
(* phMwIf_Transceive and phMwIf_ReceiveP2PData. *)

Receive == <<"Receive", "CheckData">>
Transceive == <<"CheckActive", "SendRawFrame">> \o Receive

CheckActive(t) ==
  /\ At(t, "CheckActive")
  /\ IF eDeviceState = "POLL_ACTIVE" THEN Proceed(t, <<>>) ELSE Return(t)
  /\ UNCHANGED <<stackVars, mwVars, queueVars, cb>>

BeginReceive(t) ==
  /\ At(t, "Receive")
  /\ IF eDeviceState = "POLL_ACTIVE" THEN Enter(t, "wait") ELSE Return(t)
  /\ UNCHANGED <<stackVars, mwVars, queueVars, cb>>

CheckData(t) ==
  /\ At(t, "CheckData")
  /\ IF Pgu_event = "DATA" /\ gx_status = "OK" /\ eDeviceState = "POLL_ACTIVE"
     THEN Proceed(t, <<>>) ELSE Return(t)
  /\ UNCHANGED <<stackVars, mwVars, queueVars, cb>>

(* phMwIfi_CheckNdef fails on a tag that is not NDEF compliant. *)
IsNdef(t) ==
  /\ At(t, "IsNdef")
  /\ Proceed(t, <<>>) \/ Return(t)
  /\ UNCHANGED <<stackVars, mwVars, queueVars, cb>>

-----------------------------------------------------------------------------
(* phMwIfi_IntegrationThread: one round per discovery result.  A selection *)
(* that fails returns from the thread: "Exited" is a step nothing takes.   *)

IntegrationWake(t) ==
  /\ ~Busy(t)
  /\ pvSemIntgrnThrd > 0
  /\ pvSemIntgrnThrd' = pvSemIntgrnThrd - 1
  /\ gb_discovery_notify' = FALSE
  /\ calls' = [calls EXCEPT ![t] =
       IF gb_discovery_notify THEN << <<"Select", "Restart">>, <<"Exited">> >>
       ELSE << <<"Restart">> >>]
  /\ UNCHANGED <<stackVars, eDeviceState, sDiscCfg, blDiscAnalogMode, gx_status,
                 Pgu_event, pfMwIfLlcpCb, queueVars, cb, at, arg>>

IntegrationRestart(t) ==
  /\ At(t, "Restart")
  /\ arg' = [arg EXCEPT ![t] = sDiscCfg]
  /\ calls' = [calls EXCEPT ![t] = <<DisableDiscovery>> \o EnableDiscovery]
  /\ UNCHANGED <<stackVars, mwVars, queueVars, cb, at>>

===============================================================================
