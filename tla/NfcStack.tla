------------------------------- MODULE NfcStack -------------------------------
(***************************************************************************)
(* The NFC stack (the NFA_* calls and the events it reports) and the       *)
(* tester in front of the antenna, as the middleware interface uses them.  *)
(* None of this is in the repository: it is modelled from the calls        *)
(* phMwIfAndroid.c makes and from the events its callbacks expect.  The    *)
(* stack answers commands in the order it got them; what the tester does   *)
(* comes at any time in between.                                           *)
(***************************************************************************)
EXTENDS Naturals, Sequences, SequencesExt

CONSTANTS
  Settings,    \* the settings of an instance, by name: a behaviour has one of them
  MayRefuse,   \* commands the stack may refuse
  MaxOut,      \* bound: no new tester event while this many are undelivered
  MaxCeData,   \* bound: command APDUs a reader sends in one card emulation
  MaxSeveral,  \* bound: how often several targets answer the poll together
  Handles      \* the connection handles of LLCP

(* The protocols of a contact: those the callback tells the library of,    *)
(* and any other, which it knows nothing to do about.                      *)
ReaderProtocols == {"T1T", "T2T", "T3T", "ISO_DEP", "NFC_DEP"}
TagProtocols == ReaderProtocols \cup {"UNKNOWN"}
CeProtocols == {"CE_ISO_DEP", "CE_UNKNOWN"}

ASSUME StackAssumption ==
  /\ \A name \in DOMAIN Settings :
       /\ Settings[name].protocols \subseteq TagProtocols \cup CeProtocols
       /\ Settings[name].selectable \subseteq TagProtocols
       /\ Settings[name].maxConnReqs \in Nat /\ Settings[name].maxUi \in Nat
  /\ MaxOut \in Nat \ {0}
  /\ MaxCeData \in Nat /\ MaxSeveral \in Nat
  /\ IsFiniteSet(Handles) /\ "none" \notin Handles

VARIABLES
  setting, \* name of the setting, chosen once: no step changes it
  rf,      \* "stopped", "discovering", "selecting", "active", "asleep", "emulating"
  peer,    \* protocol of the present contact, or "none"
  owed,    \* event that answers the tag command in progress, or "none"
  ceSent,  \* APDUs sent in this card emulation
  several, \* how often several targets have answered
  links,   \* per handle: "free", "asked", "in" by the peer, "calling", "out" by us
  sdp,     \* a service discovery of ours is not yet answered
  sent,    \* what the peer did so far: connections asked for, data units sent
  nfaOut   \* events not yet handed to the callback, oldest first

(* What the tester may present alone, and what the host may have to select *)
(* among several targets.  Bounds: connections the peer asks for, data     *)
(* units it sends, on and without a connection.                            *)
Protocols == Settings[setting].protocols
Selectable == Settings[setting].selectable
MaxConnReqs == Settings[setting].maxConnReqs
MaxUi == Settings[setting].maxUi

linkVars == <<links, sdp, sent>>
stackVars == <<rf, peer, owed, ceSent, several, linkVars, nfaOut>>

(* The event by which the stack answers each command; "none": no answer. *)
Reply ==
  [ StartRfDiscovery       |-> "RF_DISCOVERY_STARTED",
    StopRfDiscovery        |-> "RF_DISCOVERY_STOPPED",
    EnablePolling          |-> "POLL_ENABLED",
    DisablePolling         |-> "POLL_DISABLED",
    EnableListening        |-> "LISTEN_ENABLED",
    DisableListening       |-> "LISTEN_DISABLED",
    SetP2pListenTech       |-> "SET_P2P_LISTEN_TECH",
    ConfigureUiccListen    |-> "CE_UICC_LISTEN_CONFIGURED",
    ConfigureEseListen     |-> "CE_ESE_LISTEN_CONFIGURED",
    SetIsoDepListenTech    |-> "none",
    RegisterAid            |-> "CE_REGISTERED",
    DeregisterAid          |-> "CE_DEREGISTERED",
    SetRfDiscoveryDuration |-> "none",
    Select                 |-> "SELECT_RESULT",
    DeactivateSleep        |-> "DEACTIVATED",
    Deactivate             |-> "DEACTIVATED",
    DetectNDef             |-> "NDEF_DETECT",
    ReadNDef               |-> "READ_CPLT",
    WriteNDef              |-> "WRITE_CPLT",
    SetTagReadOnly         |-> "SET_TAG_RO",
    T2tRead                |-> "READ_CPLT",
    T2tWrite               |-> "WRITE_CPLT",
    T2tSectorSelect        |-> "SELECT_CPLT",
    Receive                |-> "DATA",
    SendRawFrame           |-> "none",
    SendNxpNci             |-> "NXP_RSP",
    SetConfig              |-> "SET_CONFIG",
    SetParam               |-> "SET_CONFIG",
    RegisterClient         |-> "P2P_REG_CLIENT",
    RegisterServer         |-> "P2P_REG_SERVER",
    RegisterClServer       |-> "P2P_REG_SERVER",
    EeRegister             |-> "EE_REGISTER",
    EeDeregister           |-> "EE_DEREGISTER",
    EeModeSet              |-> "EE_MODE_SET",
    SetTechRouting         |-> "EE_SET_TECH_CFG",
    SetProtoRouting        |-> "EE_SET_PROTO_CFG",
    EeUpdateNow            |-> "none",
    HciRegister            |-> "HCI_REGISTER",
    HciDeregister          |-> "HCI_DEREGISTER",
    AcceptConn             |-> "none",
    Connect                |-> "CONNECTED",
    GetRemoteSap           |-> "SDP",
    P2pDisconnect          |-> "DISC",
    ReadUi                 |-> "none",
    SendUi                 |-> "none" ]

(* Commands to the secure elements; their callbacks report the events. *)
EeCommands == {"EeRegister", "EeDeregister", "EeModeSet", "SetTechRouting",
               "SetProtoRouting", "HciRegister", "HciDeregister"}
P2pCommands == {"RegisterClient", "RegisterServer", "RegisterClServer"}

(* Commands on the LLCP link. *)
LinkCommands == {"AcceptConn", "Connect", "GetRemoteSap", "P2pDisconnect",
                 "ReadUi", "SendUi"}

TagCommands == {"DetectNDef", "ReadNDef", "WriteNDef", "SetTagReadOnly",
                "T2tRead", "T2tWrite", "T2tSectorSelect"}

(* Commands answered by the stack alone, without the radio. *)
LocalCommands == {"EnablePolling", "DisablePolling", "EnableListening",
                  "DisableListening", "SetP2pListenTech", "ConfigureUiccListen",
                  "ConfigureEseListen", "RegisterAid", "DeregisterAid",
                  "SendNxpNci", "SetConfig", "SetParam"}
                 \cup EeCommands \cup P2pCommands

SilentCommands == {"SetIsoDepListenTech", "SetRfDiscoveryDuration", "EeUpdateNow",
                   "ReadUi", "SendUi"}

(* An event is its type and, for some types, a detail. *)
Event(type, detail) == [type |-> type, detail |-> detail]

Report(events) == nfaOut' = nfaOut \o events

Activation(p) == IF p = "NFC_DEP"
                 THEN <<Event("ACTIVATED", p), Event("LLCP_ACTIVATED", "none")>>
                 ELSE <<Event("ACTIVATED", p)>>

(* The end of a connection is told to the side that was registered for it: *)
(* the server where the peer asked for the connection, else the client.    *)
Disconnected(h) == IF links[h] \in {"asked", "in"} THEN Event("SERVER_DISC", "none")
                   ELSE Event("DISC", "none")

(* What the end of the link reports: each connection, a search of ours.    *)
LinkEnd ==
  LET open == SetToSeq({ h \in Handles : links[h] # "free" })
  IN  [i \in DOMAIN open |-> Disconnected(open[i])]
        \o (IF sdp THEN <<Event("SDP", "none")>> ELSE <<>>)
        \o <<Event("LLCP_DEACTIVATED", "none")>>

(* The events that tell of the end of the present contact. *)
Deactivation(type) ==
  CASE rf = "emulating" -> <<Event("CE_DEACTIVATED", type)>>
    [] rf # "emulating" /\ peer = "NFC_DEP" -> LinkEnd \o <<Event("DEACTIVATED", type)>>
    [] OTHER -> <<Event("DEACTIVATED", type)>>

NoLinks == [h \in Handles |-> "free"]

LinksDown == links' = NoLinks /\ sdp' = FALSE /\ UNCHANGED sent

StackInit == /\ setting \in DOMAIN Settings
             /\ rf = "stopped" /\ peer = "none" /\ owed = "none"
             /\ ceSent = 0 /\ several = 0 /\ nfaOut = <<>>
             /\ links = NoLinks /\ sdp = FALSE /\ sent = [conns |-> 0, data |-> 0]

-----------------------------------------------------------------------------
(* What an accepted command does. *)

LocalDone(c) ==
  /\ c \in LocalCommands
  /\ Report(<<Event(Reply[c], "none")>>)
  /\ UNCHANGED <<rf, peer, owed, ceSent, several, linkVars>>

SilentDone(c) == c \in SilentCommands /\ UNCHANGED stackVars

StartDone(c) ==
  /\ c = "StartRfDiscovery"
  /\ rf' = IF rf = "stopped" THEN "discovering" ELSE rf
  /\ Report(<<Event(Reply[c], "none")>>)
  /\ UNCHANGED <<peer, owed, ceSent, several, linkVars>>

StopDone(c) ==
  /\ c = "StopRfDiscovery"
  /\ rf' = "stopped"
  /\ peer' = "none" /\ owed' = "none"
  /\ Report((IF rf \in {"active", "asleep", "emulating"}
             THEN Deactivation("IDLE") ELSE <<>>)
            \o <<Event(Reply[c], "none")>>)
  /\ LinksDown
  /\ UNCHANGED <<ceSent, several>>

(* NFA_Deactivate(TRUE) puts the tag to sleep. *)
SleepDone(c) ==
  /\ c = "DeactivateSleep"
  /\ owed' = "none"
  /\ IF rf = "active"
     THEN rf' = "asleep" /\ Report(Deactivation("SLEEP")) /\ LinksDown
     ELSE UNCHANGED <<rf, linkVars>> /\ Report(<<Event("DEACTIVATE_FAIL", "none")>>)
  /\ UNCHANGED <<peer, ceSent, several>>

(* NFA_Deactivate(FALSE): the stack goes back to discovery or to idle. *)
DeactivateDone(c) ==
  /\ c = "Deactivate"
  /\ owed' = "none"
  /\ IF rf \in {"active", "asleep"}
     THEN /\ peer' = "none"
          /\ LinksDown
          /\ \/ rf' = "discovering" /\ Report(Deactivation("DISCOVERY"))
             \/ rf' = "stopped" /\ Report(Deactivation("IDLE"))
     ELSE UNCHANGED <<rf, peer, linkVars>>
          /\ Report(<<Event("DEACTIVATE_FAIL", "none")>>)
  /\ UNCHANGED <<ceSent, several>>

SelectDone(c) ==
  /\ c = "Select"
  /\ IF rf = "selecting"
     THEN /\ rf' = "active"
          /\ Report(<<Event("SELECT_RESULT", "none")>> \o Activation(peer))
     ELSE UNCHANGED <<rf, nfaOut>>
  /\ UNCHANGED <<peer, owed, ceSent, several, linkVars>>

(* A command to the tag is answered by the tag, if there is one. *)
TagSent(c) ==
  /\ c \in TagCommands \cup {"SendRawFrame"}
  /\ owed' = IF rf # "active" THEN "none"
             ELSE IF c = "SendRawFrame" THEN "DATA" ELSE Reply[c]
  /\ UNCHANGED <<rf, peer, ceSent, several, linkVars, nfaOut>>

(* The commands on the LLCP link; h is the connection they name, if any.   *)
LinkUp == rf = "active" /\ peer = "NFC_DEP"

FreeHandles == { h \in Handles : links[h] = "free" }
NextHandle == CHOOSE h \in FreeHandles : TRUE

Close(h) == /\ links' = [links EXCEPT ![h] = "free"]
            /\ Report(<<Disconnected(h)>>)

AcceptConnDone(c, h) ==
  /\ c = "AcceptConn" /\ h \in DOMAIN links /\ links[h] # "free"
  /\ links' = [links EXCEPT ![h] = IF @ = "asked" THEN "in" ELSE @]
  /\ UNCHANGED <<rf, peer, owed, ceSent, several, sdp, sent, nfaOut>>

ConnectDone(c) ==
  /\ c = "Connect"
  /\ IF LinkUp /\ FreeHandles # {}
     THEN links' = [links EXCEPT ![NextHandle] = "calling"] /\ UNCHANGED nfaOut
     ELSE UNCHANGED links /\ Report(<<Event("DISC", "none")>>)
  /\ UNCHANGED <<rf, peer, owed, ceSent, several, sdp, sent>>

GetRemoteSapDone(c) ==
  /\ c = "GetRemoteSap"
  /\ IF LinkUp THEN sdp' = TRUE /\ UNCHANGED nfaOut
     ELSE UNCHANGED sdp /\ Report(<<Event("SDP", "none")>>)
  /\ UNCHANGED <<rf, peer, owed, ceSent, several, links, sent>>

P2pDisconnectDone(c, h) ==
  /\ c = "P2pDisconnect" /\ h \in DOMAIN links /\ links[h] # "free"
  /\ Close(h)
  /\ UNCHANGED <<rf, peer, owed, ceSent, several, sdp, sent>>

AcceptOnLink(c, h) == \/ AcceptConnDone(c, h) \/ ConnectDone(c) \/ GetRemoteSapDone(c)
                      \/ P2pDisconnectDone(c, h)
                      \/ c \in {"ReadUi", "SendUi"} /\ SilentDone(c)

(* A connection that is not there is refused at once. *)
NoSuchConn(c, h) == /\ c \in {"AcceptConn", "P2pDisconnect"}
                    /\ h \in DOMAIN links => links[h] = "free"

Accept(c) == \/ LocalDone(c) \/ SilentDone(c) \/ StartDone(c) \/ StopDone(c)
             \/ SleepDone(c) \/ DeactivateDone(c) \/ SelectDone(c) \/ TagSent(c)

-----------------------------------------------------------------------------
(* What the tester does. *)

Room == Len(nfaOut) < MaxOut

PresentTag(p) ==
  /\ rf = "discovering" /\ Room
  /\ p \in TagProtocols \cap Protocols
  /\ rf' = "active" /\ peer' = p
  /\ Report(Activation(p))
  /\ UNCHANGED <<owed, ceSent, several, linkVars>>

(* Several targets answer the poll: the host has to select one. *)
PresentSeveral(p) ==
  /\ rf = "discovering" /\ Room
  /\ several < MaxSeveral /\ several' = several + 1
  /\ rf' = "selecting" /\ peer' = p
  /\ Report(<<Event("DISC_RESULT", "more"), Event("DISC_RESULT", "last")>>)
  /\ UNCHANGED <<owed, ceSent, linkVars>>

StartEmulation(p) ==
  /\ rf = "discovering" /\ Room
  /\ p \in CeProtocols \cap Protocols
  /\ rf' = "emulating" /\ peer' = p
  /\ ceSent' = 0
  /\ Report(<<Event("CE_ACTIVATED", p)>>)
  /\ UNCHANGED <<owed, several, linkVars>>

SendApdu ==
  /\ rf = "emulating" /\ peer = "CE_ISO_DEP" /\ Room
  /\ ceSent < MaxCeData
  /\ ceSent' = ceSent + 1
  /\ Report(<<Event("CE_DATA", "none")>>)
  /\ UNCHANGED <<rf, peer, owed, several, linkVars>>

(* A block of a Type 2 tag comes before the completion of its read.  Data  *)
(* may be without content, or too long for the callback: "bad".            *)
AnswersOfTag ==
  LET data == { Event("DATA", d) : d \in {"none", "bad"} }
  IN  CASE peer = "T2T" /\ owed = "READ_CPLT" ->
             { <<d, Event(owed, "none")>> : d \in data }
        [] owed = "DATA" -> { <<d>> : d \in data }
        [] OTHER -> { <<Event(owed, "none")>> }

TagAnswers ==
  /\ rf = "active" /\ owed # "none"
  /\ owed' = "none"
  /\ \/ \E answer \in AnswersOfTag : Report(answer)
     \/ Report(<<Event("RW_INTF_ERROR", "none")>>)
  /\ UNCHANGED <<rf, peer, ceSent, several, linkVars>>

(* The tag leaves the field; polling goes on. *)
TagLost ==
  /\ rf = "active" /\ Room
  /\ rf' = "discovering" /\ peer' = "none" /\ owed' = "none"
  /\ Report(Deactivation("DISCOVERY")) /\ LinksDown
  /\ UNCHANGED <<ceSent, several>>

(* The reader switches its field off. *)
EndEmulation ==
  /\ rf = "emulating" /\ Room
  /\ \/ rf' = "discovering" /\ Report(Deactivation("DISCOVERY"))
     \/ rf' = "stopped" /\ Report(Deactivation("IDLE"))
  /\ peer' = "none" /\ ceSent' = 0
  /\ UNCHANGED <<owed, several, linkVars>>

(* The peer asks for one connection at a time; what it asks for is told to *)
(* the server.                                                             *)
RemoteConnects ==
  /\ LinkUp /\ Room /\ FreeHandles # {}
  /\ \A h \in DOMAIN links : links[h] \notin {"asked", "in"}
  /\ sent.conns < MaxConnReqs /\ sent' = [sent EXCEPT !.conns = @ + 1]
  /\ links' = [links EXCEPT ![NextHandle] = "asked"]
  /\ Report(<<Event("CONN_REQ", NextHandle)>>)
  /\ UNCHANGED <<rf, peer, owed, ceSent, several, sdp>>

(* The peer accepts the connection we called for. *)
RemoteAccepts(h) ==
  /\ links[h] = "calling"
  /\ links' = [links EXCEPT ![h] = "out"]
  /\ Report(<<Event("CONNECTED", h)>>)
  /\ UNCHANGED <<rf, peer, owed, ceSent, several, sdp, sent>>

(* The peer refuses a connection or closes one, its own or ours. *)
RemoteCloses(h) ==
  /\ links[h] # "free" /\ (links[h] # "calling" => Room)
  /\ Close(h)
  /\ UNCHANGED <<rf, peer, owed, ceSent, several, sdp, sent>>

SdpAnswer ==
  /\ sdp /\ sdp' = FALSE
  /\ \E sap \in {"sap", "none"} : Report(<<Event("SDP", sap)>>)
  /\ UNCHANGED <<rf, peer, owed, ceSent, several, links, sent>>

(* Data on the peer's connection, or without a connection. *)
SendData ==
  /\ LinkUp /\ Room
  /\ sent.data < MaxUi /\ sent' = [sent EXCEPT !.data = @ + 1]
  /\ \/ Report(<<Event("CL_DATA", "none")>>)
     \/ /\ \E h \in DOMAIN links : links[h] = "in"
        /\ Report(<<Event("SERVER_DATA", "none")>>)
  /\ UNCHANGED <<rf, peer, owed, ceSent, several, links, sdp>>

RemoteAnswers == \/ \E h \in DOMAIN links : RemoteAccepts(h)
                 \/ \E h \in DOMAIN links : links[h] = "calling" /\ RemoteCloses(h)
                 \/ SdpAnswer

OnLink == \/ RemoteConnects \/ SendData \/ RemoteAnswers
          \/ \E h \in DOMAIN links : RemoteCloses(h)

Tester == \/ \E p \in Protocols : PresentTag(p) \/ StartEmulation(p)
          \/ \E p \in Selectable : PresentSeveral(p)
          \/ SendApdu \/ TagAnswers \/ TagLost \/ EndEmulation
          \/ OnLink

===============================================================================
