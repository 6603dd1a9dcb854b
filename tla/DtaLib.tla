-------------------------------- MODULE DtaLib --------------------------------
(***************************************************************************)
(* The DTA library (phDTALib.c and the test files beside it) on top of the *)
(* middleware interface: the application's calls, and the message handler  *)
(* thread, which serves one event of the DTA queue after the other: it     *)
(* runs the tag operations the test pattern asks for and restarts the      *)
(* discovery loop.                                                         *)
(***************************************************************************)
EXTENDS MwIf, FiniteSets

CONSTANTS
  EarlyTester  \* TRUE: the tester does not wait for discovery to be enabled

ASSUME DtaAssumption ==
  /\ Threads \subseteq {"app", "handler", "integration"}
  /\ {"app", "handler"} \subseteq Threads
  /\ EarlyTester \in BOOLEAN
  /\ \A name \in DOMAIN Settings :
       LET s == Settings[name]
       IN  /\ s.llcpModes \subseteq BOOLEAN /\ s.appDisables \in BOOLEAN
           /\ s.maxLoopBack \in Nat \ {0}
           /\ s.maxConnReqs > 0 \/ s.maxUi > 0 => s.llcpModes = {TRUE}

VARIABLES
  appState,            \* the application: "off", "starting", "on", "stopping", "done"
  sPrevdiscCfgParams,  \* configuration the handler restarts discovery with
  llcpMode,            \* peer-to-peer type or test pattern is one of LLCP
  pvCORemoteClientConnHandle,  \* connection the peer last asked for
  pvCORemoteServerConnHandle,  \* connection last made to the peer
  bRemoteSapClEchoOut          \* SAP found for the data to send back

llcpTestVars == <<pvCORemoteClientConnHandle, pvCORemoteServerConnHandle,
                  bRemoteSapClEchoOut>>
appVars == <<setting, appState, sPrevdiscCfgParams, llcpMode>>
dtaVars == <<appVars, llcpTestVars>>
vars == <<stackVars, mwVars, queueVars, cb, threadVars, dtaVars>>

(* Configurations and values of llcpMode the application may choose; it    *)
(* disables discovery at some time; bound: frames of a loopback test       *)
(* before the tester ends it.                                              *)
Configs == Settings[setting].configs
LlcpModes == Settings[setting].llcpModes
AppDisables == Settings[setting].appDisables
MaxLoopBack == Settings[setting].maxLoopBack

NoConfig == [enableCE |-> FALSE, ceType |-> "INVALID_CE", blAnalogMode |-> FALSE]

Init == /\ StackInit
        /\ MwInit(NoConfig)
        /\ appState = "off"
        /\ sPrevdiscCfgParams = NoConfig /\ llcpMode = FALSE
        /\ pvCORemoteClientConnHandle = "none" /\ pvCORemoteServerConnHandle = "none"
        /\ bRemoteSapClEchoOut = "none"

-----------------------------------------------------------------------------
(* The operations on an activated device, as the calls they make. *)

(* The steps s, n times over. *)
Repeat(s, n) == [i \in 1 .. n * Len(s) |-> s[((i - 1) % Len(s)) + 1]]

Exchanges(n) == Repeat(Transceive, n)

(* After each frame the code looks for the end of the test in the answer. *)
LoopBack(eot) ==
  << Repeat(Transceive \o eot, MaxLoopBack - 1) \o Transceive \o <<"Eot">> >>

NdefOps(ops) == { << <<"DetectNDef", "IsNdef">> \o op >> : op \in ops }

(* Blocks are read and written until one fails; the tag is deactivated     *)
(* whatever happened before.                                               *)
T2TOperations ==
  { blocks \o << <<"DeactivateSleep">>, <<"Deactivate">> >> :
      blocks \in { <<>>, << <<"T2tRead">> >>, << <<"T2tRead", "T2tWrite">> >>,
                   << <<"T2tRead", "T2tSectorSelect", "CheckActive", "SendRawFrame">> >> } }

(* A poll, then commands; the checks end with a frame nobody answers.  Two *)
(* of the patterns end the test there.                                     *)
T3TOperations ==
  { << Exchanges(2) >>, << Exchanges(3) >>, << Exchanges(3) \o <<"SendLast">> >>,
    << Exchanges(5) \o <<"SendLast">> >>, << Exchanges(3) \o <<"SendLast", "Eot">> >> }

(* The initiator's data, sent back; the pattern command ends the loop. *)
NfcDepInitiatorOperations ==
  { << Receive \o Exchanges(n) >> : n \in 0 .. MaxLoopBack }

(* A pattern number may ask for nothing on this kind of tag. *)
NoOperations == {<<>>}

Operations(p) ==
  CASE p = "T1T" -> NdefOps({<<"ReadNDef">>, <<"WriteNDef">>, <<"SetTagReadOnly">>, <<>>})
    [] p = "T2T" -> T2TOperations
    [] p = "T3T" -> T3TOperations \cup NoOperations
    [] p = "ISO_DEP" -> {LoopBack(<<"MayEot">>)}
                        \cup NdefOps({<<"ReadNDef">>, <<"WriteNDef">>}) \cup NoOperations
    [] p = "NFC_DEP" -> {LoopBack(<<"MayEot1", "MayEot">>)}
                        \cup NfcDepInitiatorOperations \cup NoOperations
    [] p = "CE_ISO_DEP" -> { << <<"HcePull">> >> }
    [] p = "CE_UNKNOWN" -> { << <<"UiccPull">> >> }

(* Mutant of StopAndStart: discovery is enabled without being stopped. *)
StartOnly == EnableDiscovery

(* Mutant of StopAndStart: the two calls in the other order. *)
StartThenStop == EnableDiscovery \o <<DisableDiscovery>>

(* phMwIf_DisableDiscovery and phMwIf_EnableDiscovery at the end of a round. *)
StartAgain == EnableDiscovery
StopAndStart == <<DisableDiscovery>> \o StartAgain

(* Which activations the handler serves: not those of LLCP, nor of a       *)
(* device it knows no operations for.                                      *)
Serves(e) ==
  \/ e.type = "CE_ACTIVATED"
  \/ /\ e.type = "ACTIVATED" /\ e.detail \in ReaderProtocols
     /\ ~(e.detail = "NFC_DEP" /\ llcpMode)

(* phDtaLibi_LlcpOperations: to a connection of the peer's the library     *)
(* answers with one of its own, to a SAP it knows or searches for first.   *)
LlcpOperations ==
  { << <<"AcceptConn">> \o search \o <<"Connect", "SaveConn">> >> :
      search \in { <<>>, <<"GetRemoteSap">> } }

(* phDtaLibi_LlcpHandleCoClientDisconnect. *)
LlcpHandleCoClientDisconnect == << <<"P2pDisconnect">> >>

(* phDtaLibi_LlcpConnLessOperations: the command that starts the test, or  *)
(* data to send back.                                                      *)
LlcpConnLessOperations ==
  { << <<"ReadUi">> \o reply >> :
      reply \in { <<"GetRemoteSap", "SaveClSap">>, <<"SendUi">> } }

(* What the handler does on an event of its queue. *)
Rounds(e) ==
  CASE Serves(e) -> { ops \o (IF e.detail = "T2T" THEN StartAgain ELSE StopAndStart) :
                        ops \in Operations(e.detail) }
    [] e.type = "DEACTIVATED" /\ llcpMode -> {StopAndStart}
    [] e.type = "CONN_REQ" -> LlcpOperations
    [] e.type = "SERVER_DISC" -> {LlcpHandleCoClientDisconnect}
    [] e.type = "CL_DATA" -> LlcpConnLessOperations
    [] OTHER -> {<<>>}

HandlerIdle == calls["handler"] = <<>>

(* phDtaLibi_CbMsgHandleThrd: pull with timeout 0, wait for an object. *)
HandlerPull ==
  /\ HandlerIdle /\ dtaQueue # <<>>
  /\ dtaQueue' = Tail(dtaQueue)
  /\ \E round \in Rounds(Head(dtaQueue)) :
       calls' = [calls EXCEPT !["handler"] = round]
  /\ pvCORemoteClientConnHandle' = IF Head(dtaQueue).type = "CONN_REQ"
                                   THEN Head(dtaQueue).detail
                                   ELSE pvCORemoteClientConnHandle
  /\ UNCHANGED <<stackVars, mwVars, mwQueue, sLastQueueData, cb, at, arg, appVars,
                 pvCORemoteServerConnHandle, bRemoteSapClEchoOut>>

(* Mutant of SaveConn: the handle of the peer's connection is kept.        *)
SaveConnPeer ==
  /\ At("handler", "SaveConn")
  /\ pvCORemoteServerConnHandle' = pvCORemoteClientConnHandle
  /\ Proceed("handler", <<>>)
  /\ UNCHANGED <<stackVars, mwVars, queueVars, cb, appVars,
                 pvCORemoteClientConnHandle, bRemoteSapClEchoOut>>

(* A connection made: its handle is kept until the next one is made. *)
SaveConn ==
  /\ At("handler", "SaveConn")
  /\ pvCORemoteServerConnHandle' = sLastQueueData
  /\ Proceed("handler", <<>>)
  /\ UNCHANGED <<stackVars, mwVars, queueVars, cb, appVars,
                 pvCORemoteClientConnHandle, bRemoteSapClEchoOut>>

SaveClSap ==
  /\ At("handler", "SaveClSap")
  /\ bRemoteSapClEchoOut' = sLastQueueData
  /\ Proceed("handler", <<>>)
  /\ UNCHANGED <<stackVars, mwVars, queueVars, cb, appVars,
                 pvCORemoteClientConnHandle, pvCORemoteServerConnHandle>>

(* The end of the test is in the data received: deactivate, do not restart. *)
(* A peer may also be put to sleep first (EOT1).                            *)
EndOfTest ==
  /\ calls' = [calls EXCEPT !["handler"] =
       IF Step("handler") = "MayEot1" THEN << <<"DeactivateSleep">>, <<"Deactivate">> >>
       ELSE << <<"Deactivate">> >>]
  /\ UNCHANGED <<at, arg>>

CheckEot ==
  /\ \/ At("handler", "MayEot") \/ At("handler", "MayEot1")
  /\ EndOfTest \/ Proceed("handler", <<>>)
  /\ UNCHANGED <<stackVars, mwVars, queueVars, cb, dtaVars>>

Eot == /\ At("handler", "Eot") /\ EndOfTest
       /\ UNCHANGED <<stackVars, mwVars, queueVars, cb, dtaVars>>

(* The last frame of the T3T checks: only gx_status tells whether it went  *)
(* out, and a refusal by phMwIf_SendRawFrame itself leaves it as it is.    *)
SendLast ==
  /\ At("handler", "SendLast")
  /\ calls' = [calls EXCEPT !["handler"] = Into("handler", <<"SendRawFrame">>)]
  /\ at' = [at EXCEPT !["handler"] =
               IF eDeviceState = "POLL_ACTIVE" THEN "run" ELSE "check"]
  /\ UNCHANGED <<stackVars, mwVars, queueVars, cb, arg, dtaVars>>

(* phDtaLibi_HceOperations pulls from the DTA queue and answers each APDU. *)
(* A response that cannot be sent ends the operations, except the one to   *)
(* the selection of the application; an unknown command is not answered.   *)
HcePull ==
  /\ At("handler", "HcePull") /\ dtaQueue # <<>>
  /\ dtaQueue' = Tail(dtaQueue)
  /\ LET send == <<"CheckActive", "SendRawFrame">> IN
     CASE Head(dtaQueue).type = "DEACTIVATED" -> Return("handler")
       [] Head(dtaQueue).type = "CE_DATA" ->
            \/ Proceed("handler", send \o <<"HcePull">>)
            \/ calls' = [calls EXCEPT !["handler"] = <<send>> \o @] /\ UNCHANGED <<at, arg>>
            \/ UNCHANGED threadVars
       [] OTHER -> UNCHANGED threadVars
  /\ UNCHANGED <<stackVars, mwVars, mwQueue, sLastQueueData, cb, dtaVars>>

(* phDtaLibi_UICCOperations only waits for the deactivation. *)
UiccPull ==
  /\ At("handler", "UiccPull") /\ dtaQueue # <<>>
  /\ dtaQueue' = Tail(dtaQueue)
  /\ IF Head(dtaQueue).type = "DEACTIVATED" THEN Proceed("handler", <<>>)
     ELSE UNCHANGED threadVars
  /\ UNCHANGED <<stackVars, mwVars, mwQueue, sLastQueueData, cb, dtaVars>>

-----------------------------------------------------------------------------
(* The application: phDtaLib_ConfigureP2p and phDtaLib_SetTestProfile      *)
(* (llcpMode), phDtaLib_EnableDiscovery, and later                         *)
(* phDtaLib_DisableDiscovery.                                              *)

SetMwIfConfig == <<"SendNxpNci", "SetParam">>

(* What phDtaLib_EnableDiscovery sets up first; an error ends it. *)
SetUp(cfg, llcp) ==
  LET emulation == CASE cfg.ceType = "HOST_CE" -> HceInit \o HceConfigure
                     [] cfg.ceType \in {"UICC_CE", "SE_CE"} -> EeInit \o EeConfigure
                     [] OTHER -> <<>>
  IN  SetMwIfConfig \o (IF llcp THEN LlcpInit \o LlcpServers ELSE <<>>)
        \o (IF cfg.enableCE THEN emulation ELSE <<>>) \o <<"Enable">>

AppEnable ==
  /\ appState = "off"
  /\ \E cfg \in Configs, llcp \in LlcpModes :
       /\ arg' = [arg EXCEPT !["app"] = cfg]
       /\ llcpMode' = llcp
       /\ calls' = [calls EXCEPT !["app"] = << SetUp(cfg, llcp) >>]
  /\ appState' = "starting"
  /\ UNCHANGED <<stackVars, mwVars, queueVars, cb, at, sPrevdiscCfgParams,
                 setting, llcpTestVars>>

(* The call of phMwIf_EnableDiscovery. *)
Enable ==
  /\ At("app", "Enable")
  /\ calls' = [calls EXCEPT !["app"] =
       << EnableDiscovery[1], EnableDiscovery[2], EnableDiscovery[3] \o <<"SavePrev">> >>]
  /\ UNCHANGED <<stackVars, mwVars, queueVars, cb, at, arg, dtaVars>>

SavePrev ==
  /\ At("app", "SavePrev")
  /\ sPrevdiscCfgParams' = arg["app"]
  /\ Proceed("app", <<>>)
  /\ UNCHANGED <<stackVars, mwVars, queueVars, cb, appState, llcpMode,
                 setting, llcpTestVars>>

AppReturns ==
  /\ appState \in {"starting", "stopping"} /\ ~Busy("app")
  /\ appState' = IF appState = "starting" THEN "on" ELSE "done"
  /\ UNCHANGED <<stackVars, mwVars, queueVars, cb, threadVars,
                 sPrevdiscCfgParams, llcpMode, setting, llcpTestVars>>

(* What phDtaLib_DisableDiscovery takes down first; an error is ignored. *)
TakeDown(cfg) ==
  CASE cfg.enableCE /\ cfg.ceType = "HOST_CE" -> <<HceDeInit>>
    [] cfg.enableCE /\ cfg.ceType \in {"UICC_CE", "SE_CE"} -> <<EeDeInit>>
    [] OTHER -> <<>>

AppDisable ==
  /\ AppDisables /\ appState = "on"
  /\ calls' = [calls EXCEPT !["app"] = TakeDown(arg["app"]) \o <<DisableDiscovery>>]
  /\ appState' = "stopping"
  /\ UNCHANGED <<stackVars, mwVars, queueVars, cb, at, arg,
                 sPrevdiscCfgParams, llcpMode, setting, llcpTestVars>>

-----------------------------------------------------------------------------
(* One step of a call of thread t. *)
CallStep(t) ==
  /\ Busy(t)
  /\ \/ Issue(t) \/ IssueP2p(t) \/ Check(t) \/ WaitPull(t) \/ WaitTimeout(t)
     \/ SaveLlcpInit(t) \/ EeGetInfo(t) \/ EeStatus(t)
     \/ DiscoveryStop(t) \/ Flush(t) \/ ClearAnalog(t) \/ Configure(t) \/ ClearCe(t)
     \/ SaveConfig(t, IF t = "handler" THEN sPrevdiscCfgParams ELSE arg[t])
     \/ SetStarted(t)
     \/ CheckActive(t) \/ BeginReceive(t) \/ CheckData(t) \/ IsNdef(t)

(* The handle and the SAP the handler gives to the call. *)
LlcpStep == IssueLlcp("handler",
                      IF At("handler", "AcceptConn") THEN pvCORemoteClientConnHandle
                      ELSE pvCORemoteServerConnHandle,
                      bRemoteSapClEchoOut)

Handler == \/ HandlerPull \/ CheckEot \/ Eot \/ SendLast \/ HcePull \/ UiccPull
           \/ SaveConn \/ SaveClSap
           \/ (CallStep("handler") \/ LlcpStep) /\ UNCHANGED dtaVars

App == \/ Enable \/ SavePrev \/ AppReturns
       \/ CallStep("app") /\ UNCHANGED dtaVars

Integration(t) == /\ IntegrationWake(t) \/ IntegrationRestart(t) \/ CallStep(t)
                  /\ UNCHANGED dtaVars

(* The integration thread, where an instance has it. *)
Integrator == Threads \ {"app", "handler"}

StackThread == /\ Callback \/ CallbackPush
               /\ UNCHANGED dtaVars

TesterActs == /\ EarlyTester \/ appState # "starting"
              /\ Tester
              /\ UNCHANGED <<mwVars, queueVars, cb, threadVars,
                             dtaVars>>

Next == \/ AppEnable \/ AppDisable
        \/ Handler \/ App \/ StackThread \/ TesterActs
        \/ \E t \in Integrator : Integration(t)

(* Every thread of the program is scheduled and time passes for its waits; *)
(* a reader that began a card emulation ends it; the application need not  *)
(* call anything and the tester need not present anything.                 *)
Fairness == /\ WF_vars(Handler) /\ WF_vars(App) /\ WF_vars(StackThread)
            /\ \A t \in Integrator : WF_vars(Integration(t))
            /\ WF_vars((TagAnswers \/ RemoteAnswers) /\ TesterActs)
            /\ SF_vars(EndEmulation /\ TesterActs)

Spec == Init /\ [][Next]_vars /\ Fairness

-----------------------------------------------------------------------------
Steps == DOMAIN Reply \cup
         {"DiscoveryStop", "Flush", "ClearAnalog", "DiscoveryConfig", "DisableCe",
          "ClearCe", "SaveConfig", "SetStarted", "SavePrev", "CheckActive",
          "CheckData", "IsNdef", "MayEot", "MayEot1", "Eot", "SendLast",
          "HcePull", "UiccPull", "EeGetInfo", "EeStatus", "Enable",
          "SaveLlcpInit", "SaveConn", "SaveClSap", "Restart", "Exited"}

(* The lines of control are well formed: a thread is only between issuing  *)
(* a command and its answer while the current step is that command, and    *)
(* the queues keep to their lengths.                                       *)
TypeOK ==
  /\ eDeviceState \in {"IDLE", "DISCOVERY_STARTED", "POLL_ACTIVE"}
  /\ gx_status \in {"OK", "FAILED"}
  /\ {pvCORemoteClientConnHandle, pvCORemoteServerConnHandle}
       \subseteq DOMAIN links \cup {"none"}
  /\ Len(mwQueue) <= MwQLength /\ Len(dtaQueue) <= DtaQLength
  /\ \A t \in Threads :
       /\ \A i \in 1 .. Len(calls[t]) :
            calls[t][i] # <<>> /\ ToSet(calls[t][i]) \subseteq Steps
       /\ at[t] # "run" => Busy(t) /\ Step(t) \in DOMAIN Reply

(* Nothing is under way: no call, no callback, no event on its way. *)
Quiet == /\ \A t \in Threads : ~Busy(t) \/ At(t, "Exited")
         /\ CallbackIdle /\ nfaOut = <<>> /\ dtaQueue = <<>>

(* Once everything has settled, the library does not take a radio that     *)
(* stopped for a running one: eDeviceState decides whether the next stop   *)
(* goes to the NFCC (phMwIfi_DiscoveryStop), and three callback events, a  *)
(* late or lost answer and the last line of phMwIf_EnableDiscovery write   *)
(* it in whatever order they come.                                         *)
StoppedIsKnown ==
  Quiet /\ appState = "on" /\ rf = "stopped" => eDeviceState = "IDLE"

(* Two contacts stay open until they leave: a peer's in LLCP mode, whose   *)
(* connections are served by callbacks, and that of a device of a protocol *)
(* other than the five, of which nobody is told.                           *)
Unattended == peer = "UNKNOWN" \/ (peer = "NFC_DEP" /\ llcpMode)

(* Any other contact, with a tag or a reader, is never left open with      *)
(* nobody to serve it: when everything has settled the radio is not in     *)
(* one, although commands were aborted, timed out or answered by an        *)
(* earlier command's event, the handler may have served contacts that were *)
(* over, and contacts nobody attends to came before and left their events. *)
NoForgottenContact ==
  Quiet /\ appState = "on" => rf \notin {"active", "emulating"} \/ Unattended

(* Card emulation is served again and again: once it was enabled and       *)
(* everything has settled, the radio looks for the next reader, whoever    *)
(* ended the emulation and to which state, and although the handler may    *)
(* stop and start a later contact on the event of an earlier one.          *)
DiscoveryResumes ==
  Quiet /\ appState = "on" /\ sPrevdiscCfgParams.enableCE => rf = "discovering"

(* A connection to the peer is opened for each connection of the peer's    *)
(* and closed with it: once everything has settled, one of ours is only    *)
(* there while one of the peer's is, although the peer may close either    *)
(* while ours is being made, the contact may end and be followed by the    *)
(* next before its events are served, and the handle that is kept may be   *)
(* that of a connection long closed.                                       *)
NoLeakedConnection ==
  Quiet /\ (\E h \in DOMAIN links : links[h] = "out")
    => \E h \in DOMAIN links : links[h] \in {"asked", "in"}

(* After a contact in LLCP mode, however it ended and whatever connections *)
(* it had, the radio looks for the next peer once everything has settled:  *)
(* only the deactivation among the events of the contact makes the handler *)
(* stop and start discovery, which takes the peer that may have come       *)
(* meanwhile down, with its connections, and finds it again.  What may     *)
(* have come instead is a device of an unknown protocol, which nobody      *)
(* serves and which stays until it leaves.                                 *)
LlcpResumes ==
  Quiet /\ appState = "on" /\ llcpMode =>
    rf = "discovering" \/ LinkUp \/ (rf = "active" /\ peer = "UNKNOWN")

(* What one card emulation on the host leaves in pvQueueHdl, events of     *)
(* APDUs and of its beginning and end that no wait was meant for, does not *)
(* add up over the emulations: once everything has settled the queue is    *)
(* empty, whichever of the commands that stop and start discovery were     *)
(* refused or stopped at the status of another event.  So the length of    *)
(* the queue, at which the callback stays in its push, limits the APDUs of *)
(* one emulation and not how often a reader comes.  (Of the set-up of a    *)
(* secure element or the UICC events stay for good.)                       *)
NothingLeftInQueue ==
  Quiet /\ appState = "on" /\ arg["app"].ceType = "HOST_CE" => mwQueue = <<>>

(* phOsal_Queue.c:186 on a full queue: "In case of overflow, This wait     *)
(* condition will ensure that one of the object is released if configured  *)
(* for infinite timeout".  So a push of the callback ends and the stack's  *)
(* thread returns.                                                         *)
CallbackReturns == []<>CallbackIdle

(* phDTALib.h:200 on phDtaLib_DisableDiscovery: "This function Disables    *)
(* NFCC to run discovery wheel."  So when it returned and everything has   *)
(* settled, discovery does not run.                                        *)
StoppedAfterDisable ==
  Quiet /\ appState = "done" => rf = "stopped"

=============================================================================
