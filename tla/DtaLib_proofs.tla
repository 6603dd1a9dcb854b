---------------------------- MODULE DtaLib_proofs ----------------------------
(***************************************************************************)
(* Theorems about DtaLib, for any stack, tester, application and bounds:   *)
(* what its variables hold, the shape of the handler's calls, and what     *)
(* each step does to the contact in the field.                             *)
(***************************************************************************)
EXTENDS DtaLib, FiniteSetTheorems, SequenceTheorems, TLAPS

RfStates == {"stopped", "discovering", "selecting", "active", "asleep", "emulating"}
LinkStates == {"free", "asked", "in", "calling", "out"}
TagReplies == {"NDEF_DETECT", "READ_CPLT", "WRITE_CPLT", "SET_TAG_RO", "SELECT_CPLT", "DATA"}

LocalTypes ==
  {"POLL_ENABLED", "POLL_DISABLED", "LISTEN_ENABLED", "LISTEN_DISABLED",
   "SET_P2P_LISTEN_TECH", "CE_UICC_LISTEN_CONFIGURED", "CE_ESE_LISTEN_CONFIGURED",
   "CE_REGISTERED", "CE_DEREGISTERED", "NXP_RSP", "SET_CONFIG", "P2P_REG_CLIENT",
   "P2P_REG_SERVER", "EE_REGISTER", "EE_DEREGISTER", "EE_MODE_SET",
   "EE_SET_TECH_CFG", "EE_SET_PROTO_CFG", "HCI_REGISTER", "HCI_DEREGISTER"}

PlainTypes ==
  LocalTypes \cup TagReplies \cup
  {"RF_DISCOVERY_STARTED", "RF_DISCOVERY_STOPPED", "DEACTIVATE_FAIL", "RW_INTF_ERROR",
   "LLCP_ACTIVATED", "LLCP_DEACTIVATED", "DISC", "SERVER_DISC", "CE_DATA", "CL_DATA",
   "SERVER_DATA"}

(* The events of the stack: those that tell of a contact, and the others.  *)
Begins == [type : {"ACTIVATED"}, detail : TagProtocols]
          \cup [type : {"CE_ACTIVATED"}, detail : CeProtocols]
Selected == [type : {"SELECT_RESULT"}, detail : {"none"}]
Ends == [type : {"DEACTIVATED", "CE_DEACTIVATED"}, detail : {"IDLE", "SLEEP", "DISCOVERY"}]

(* Several targets answer the poll together in no setting, or in some; only *)
(* then are there discovery results.                                       *)
OneTarget == \A name \in DOMAIN Settings : Settings[name].selectable = {}
Results == IF OneTarget THEN {} ELSE {"DISC_RESULT"}
PlainEvents ==
  [type : PlainTypes, detail : {"none"}]
  \cup [type : Results, detail : {"more", "last"}]
  \cup [type : {"SDP"}, detail : {"sap", "none"}]
  \cup [type : {"CONN_REQ", "CONNECTED"}, detail : Handles]
  \cup [type : {"DATA"}, detail : {"bad"}]
Events == Begins \cup Selected \cup Ends \cup PlainEvents

(* What becomes of them in the two queues.                                 *)
AllTypes == PlainTypes \cup {"ACTIVATED", "CE_ACTIVATED", "SELECT_RESULT", "DEACTIVATED",
             "CE_DEACTIVATED", "DISC_RESULT", "SDP", "CONN_REQ", "CONNECTED", "none"}
MwEvents == [type : {"CONNECTED"}, detail : Handles]
            \cup [type : {"SDP"}, detail : {"sap", "none"}]
            \cup [type : AllTypes \ {"CONNECTED", "SDP"}, detail : {"none"}]
DtaEvents == Events \cup [type : {"DEACTIVATED", "none"}, detail : {"none"}]

StackTyped ==
  /\ setting \in DOMAIN Settings
  /\ rf \in RfStates
  /\ peer \in TagProtocols \cup CeProtocols \cup {"none"}
  /\ rf \in {"selecting", "active"} => peer \in TagProtocols
  /\ rf = "emulating" => peer \in CeProtocols
  /\ owed \in TagReplies \cup {"none"}
  /\ links \in [Handles -> LinkStates]
  /\ sdp \in BOOLEAN
  /\ nfaOut \in Seq(Events)

-----------------------------------------------------------------------------
(* What a step of the stack may do to the contact, told by the events it   *)
(* reports.                                                                *)

IdleEvent(e) == e.type \in {"DEACTIVATED", "CE_DEACTIVATED"} /\ e.detail = "IDLE"
MakesActive(e) == e.type \in {"ACTIVATED", "CE_ACTIVATED", "SELECT_RESULT"}

Wakes(e) == MakesActive(e) \/ (e.type = "CE_DEACTIVATED" /\ e.detail = "DISCOVERY")

(* The event that told of the present contact.                             *)
Beginning == Event(IF rf = "active" THEN "ACTIVATED" ELSE "CE_ACTIVATED", peer)

Keeps == /\ rf' = rf /\ peer' = peer
         /\ \E s \in Seq(PlainEvents) : Report(s)

Polls == /\ rf \in {"stopped", "discovering"} /\ rf' \in {"discovering", "selecting"}
         /\ \E s \in Seq(PlainEvents) : Report(s)

Begun == /\ rf \in {"discovering", "selecting"} /\ rf' \in {"active", "emulating"}
         /\ \E s \in Seq(Events) :
              /\ Report(s)
              /\ \E i \in DOMAIN s : s[i] = Beginning'
              /\ \A i \in DOMAIN s : ~IdleEvent(s[i])

Ended == /\ rf' \in {"stopped", "discovering", "asleep"}
         /\ \E s \in Seq(Events) :
              /\ Report(s)
              /\ \A i \in DOMAIN s : ~MakesActive(s[i])
              /\ rf' = "stopped" => \A i \in DOMAIN s : ~Wakes(s[i])
              /\ rf \in {"active", "asleep", "emulating"} /\ rf' = "stopped" =>
                   \E i \in DOMAIN s : IdleEvent(s[i])

LEMMA PlainIsEvent == Seq(PlainEvents) \subseteq Seq(Events)
<1>1. PlainEvents \subseteq Events BY DEF Events
<1> QED BY <1>1, SeqMonotonic

LEMMA PlainEvent ==
  ASSUME NEW e \in PlainEvents
  PROVE  ~IdleEvent(e) /\ ~MakesActive(e) /\ ~Wakes(e)
BY DEF PlainEvents, Results, PlainTypes, LocalTypes, TagReplies, IdleEvent, MakesActive, Wakes

LEMMA OnePlain ==
  ASSUME NEW type \in PlainTypes
  PROVE  <<Event(type, "none")>> \in Seq(PlainEvents)
<1>1. Event(type, "none") \in PlainEvents BY DEF PlainEvents, Event
<1> QED BY <1>1

(* Whatever is reported, the events remain events.                         *)
LEMMA ReportTyped ==
  ASSUME nfaOut \in Seq(Events), NEW s \in Seq(Events), Report(s)
  PROVE  nfaOut' \in Seq(Events)
BY ConcatProperties DEF Report

(* The end of the link is told by plain events.                            *)
LEMMA LinkEndTyped ==
  ASSUME StackAssumption, links \in [Handles -> LinkStates], sdp \in BOOLEAN
  PROVE  LinkEnd \in Seq(PlainEvents)
<1> DEFINE Open == { h \in Handles : links[h] # "free" }
           n == Cardinality(Open)
           open == SetToSeq(Open)
           told == [i \in DOMAIN open |-> Disconnected(open[i])]
<1>1. IsFiniteSet(Open)
  BY FS_Subset DEF StackAssumption
<1>2. n \in Nat /\ ExistsBijection(1 .. n, Open)
  BY <1>1, FS_CardinalityType
<1>3. \E f \in [1 .. n -> Open] : IsInjective(f)
  BY <1>2 DEF ExistsBijection, Bijection, Injection
<1>4. open \in [1 .. n -> Open]
  BY <1>3 DEF SetToSeq
<1>5. \A h : Disconnected(h) \in PlainEvents
  BY DEF Disconnected, Event, PlainEvents, PlainTypes
<1> HIDE DEF open, n
<1>6. told \in [1 .. n -> PlainEvents]
  BY <1>4, <1>5
<1>7. told \in Seq(PlainEvents)
  BY <1>2, <1>6, IsASeq
<1>8. /\ <<Event("LLCP_DEACTIVATED", "none")>> \in Seq(PlainEvents)
      /\ (IF sdp THEN <<Event("SDP", "none")>> ELSE <<>>) \in Seq(PlainEvents)
  <2>1. Event("LLCP_DEACTIVATED", "none") \in PlainEvents /\ Event("SDP", "none") \in PlainEvents
    BY DEF Event, PlainEvents, PlainTypes
  <2> QED BY <2>1
<1> HIDE DEF told
<1>9. LinkEnd = told \o (IF sdp THEN <<Event("SDP", "none")>> ELSE <<>>)
                  \o <<Event("LLCP_DEACTIVATED", "none")>>
  BY DEF LinkEnd, told, open
<1> QED BY <1>7, <1>8, <1>9, ConcatProperties

(* The end of a contact is one event; the link's, if any, come before it.  *)
LEMMA DeactivationTyped ==
  ASSUME StackAssumption, StackTyped, NEW type \in {"IDLE", "SLEEP", "DISCOVERY"}
  PROVE  /\ Deactivation(type) \in Seq(Events)
         /\ \A i \in DOMAIN Deactivation(type) : ~MakesActive(Deactivation(type)[i])
         /\ type = "IDLE" => \A i \in DOMAIN Deactivation(type) : ~Wakes(Deactivation(type)[i])
         /\ type = "IDLE" =>
              \E i \in DOMAIN Deactivation(type) : IdleEvent(Deactivation(type)[i])
<1> DEFINE s == Deactivation(type)
<1>1. CASE s \in { <<Event("CE_DEACTIVATED", type)>>, <<Event("DEACTIVATED", type)>> }
  <2>1. \E e \in Ends : s = <<e>> /\ e.detail = type
    BY <1>1 DEF Ends, Event
  <2>2. PICK e \in Ends : s = <<e>> /\ e.detail = type
    BY <2>1
  <2>3. e \in Events /\ ~MakesActive(e) /\ (type = "IDLE" => IdleEvent(e) /\ ~Wakes(e))
    BY <2>2 DEF Events, Ends, MakesActive, IdleEvent, Wakes
  <2> HIDE DEF s
  <2>4. s \in Seq(Events) /\ DOMAIN s = {1} /\ s[1] = e
    BY <2>2, <2>3
  <2> QED BY <2>3, <2>4 DEF s
<1>2. CASE s = LinkEnd \o <<Event("DEACTIVATED", type)>>
  <2> DEFINE e == Event("DEACTIVATED", type)
  <2>1. e \in Events /\ ~MakesActive(e) /\ (type = "IDLE" => IdleEvent(e) /\ ~Wakes(e))
    BY DEF Events, Ends, Event, MakesActive, IdleEvent, Wakes
  <2> HIDE DEF e, s
  <2>2. LinkEnd \in Seq(PlainEvents) /\ LinkEnd \in Seq(Events)
    BY LinkEndTyped, PlainIsEvent DEF StackTyped
  <2>3. s = LinkEnd \o <<e>>
    BY <1>2 DEF e, s
  <2>4. <<e>> \in Seq(Events) /\ Len(<<e>>) = 1 /\ <<e>>[1] = e
    BY <2>1
  <2>5. /\ s \in Seq(Events) /\ Len(LinkEnd) \in Nat
        /\ DOMAIN s = 1 .. Len(LinkEnd) + 1
        /\ s[Len(LinkEnd) + 1] = e
        /\ \A i \in 1 .. Len(LinkEnd) : s[i] = LinkEnd[i] /\ LinkEnd[i] \in PlainEvents
    BY <2>2, <2>3, <2>4, ConcatProperties, LenProperties, ElementOfSeq
  <2>6. \A i \in DOMAIN s : ~MakesActive(s[i])
    <3> SUFFICES ASSUME NEW i \in DOMAIN s PROVE ~MakesActive(s[i])
      OBVIOUS
    <3>1. CASE i = Len(LinkEnd) + 1 BY <2>1, <2>5, <3>1
    <3>2. CASE i \in 1 .. Len(LinkEnd) BY <2>5, <3>2, PlainEvent
    <3> QED BY <2>5, <3>1, <3>2
  <2>7. type = "IDLE" => \A i \in DOMAIN s : ~Wakes(s[i])
    <3> SUFFICES ASSUME type = "IDLE", NEW i \in DOMAIN s PROVE ~Wakes(s[i])
      OBVIOUS
    <3>1. CASE i = Len(LinkEnd) + 1 BY <2>1, <2>5, <3>1
    <3>2. CASE i \in 1 .. Len(LinkEnd) BY <2>5, <3>2, PlainEvent
    <3> QED BY <2>5, <3>1, <3>2
  <2>8. Len(LinkEnd) + 1 \in DOMAIN s
    BY <2>5
  <2> QED BY <2>1, <2>5, <2>6, <2>7, <2>8 DEF s
<1> QED
  <2>1. CASE rf = "emulating" BY <1>1, <2>1 DEF Deactivation
  <2>2. CASE rf # "emulating" /\ peer = "NFC_DEP" BY <1>2, <2>2 DEF Deactivation
  <2>3. CASE rf # "emulating" /\ peer # "NFC_DEP" BY <1>1, <2>3 DEF Deactivation
  <2> QED BY <2>1, <2>2, <2>3

(* An activation is told as one, with the peer.                            *)
LEMMA ActivationTyped ==
  ASSUME NEW p \in TagProtocols
  PROVE  /\ Activation(p) \in Seq(Events)
         /\ 1 \in DOMAIN Activation(p) /\ Activation(p)[1] = Event("ACTIVATED", p)
         /\ \A i \in DOMAIN Activation(p) : ~IdleEvent(Activation(p)[i])
<1> DEFINE a == Event("ACTIVATED", p)
           b == Event("LLCP_ACTIVATED", "none")
<1>1. a \in Events /\ b \in Events /\ ~IdleEvent(a) /\ ~IdleEvent(b)
  BY DEF Events, Begins, PlainEvents, PlainTypes, Event, IdleEvent
<1>2. Activation(p) = IF p = "NFC_DEP" THEN <<a, b>> ELSE <<a>>
  BY DEF Activation
<1> HIDE DEF a, b
<1>3. CASE p = "NFC_DEP"
  <2>1. /\ Activation(p) \in Seq(Events) /\ DOMAIN Activation(p) = {1, 2}
        /\ Activation(p)[1] = a /\ Activation(p)[2] = b
    BY <1>1, <1>2, <1>3
  <2> QED BY <1>1, <2>1 DEF a
<1>4. CASE p # "NFC_DEP"
  <2>1. /\ Activation(p) \in Seq(Events) /\ DOMAIN Activation(p) = {1}
        /\ Activation(p)[1] = a
    BY <1>1, <1>2, <1>4
  <2> QED BY <1>1, <2>1 DEF a
<1> QED BY <1>3, <1>4

(* What a command may do to the contact.                                   *)
CommandEffect(c) ==
  \/ c \notin {"StopRfDiscovery"} /\ Keeps
     /\ (c = "StartRfDiscovery" => rf # "stopped")
     /\ (c = "Deactivate" => rf \notin {"active", "asleep"})
  \/ c = "StartRfDiscovery" /\ Polls /\ rf' = "discovering"
  \/ c = "StopRfDiscovery" /\ Ended /\ rf' = "stopped"
  \/ c = "DeactivateSleep" /\ Ended /\ rf' = "asleep"
  \/ c = "Deactivate" /\ Ended /\ rf \in {"active", "asleep"} /\ rf' # "asleep"
  \/ c = "Select" /\ Begun

LEMMA LocalReply == \A c \in LocalCommands : Reply[c] \in LocalTypes
BY DEF LocalCommands, EeCommands, P2pCommands, Reply, LocalTypes

LEMMA TagReply == \A c \in TagCommands : Reply[c] \in TagReplies
BY DEF TagCommands, Reply, TagReplies

LEMMA NothingReported ==
  ASSUME nfaOut \in Seq(Events), UNCHANGED nfaOut
  PROVE  Report(<<>>) /\ <<>> \in Seq(PlainEvents)
BY ConcatEmptySeq DEF Report

LEMMA LocalStep ==
  ASSUME StackTyped, UNCHANGED setting, NEW c, LocalDone(c)
  PROVE  StackTyped' /\ CommandEffect(c)
<1>1. Reply[c] \in PlainTypes
  BY LocalReply DEF LocalDone, PlainTypes
<1>2. <<Event(Reply[c], "none")>> \in Seq(PlainEvents)
  BY <1>1, OnePlain
<1>3. nfaOut' \in Seq(Events) /\ Keeps
  BY <1>2, PlainIsEvent, ReportTyped DEF LocalDone, StackTyped, Keeps
<1>4. c \notin {"StartRfDiscovery", "StopRfDiscovery", "Deactivate"}
  BY DEF LocalDone, LocalCommands, EeCommands, P2pCommands
<1>5. StackTyped'
  BY <1>3 DEF LocalDone, StackTyped, linkVars
<1>6. CommandEffect(c)
  BY <1>3, <1>4 DEF CommandEffect
<1> QED BY <1>5, <1>6

LEMMA SilentStep ==
  ASSUME StackTyped, UNCHANGED setting, NEW c, SilentDone(c)
  PROVE  StackTyped' /\ CommandEffect(c)
<1>1. Keeps
  BY NothingReported DEF SilentDone, StackTyped, stackVars, Keeps
<1>2. c \notin {"StartRfDiscovery", "StopRfDiscovery", "Deactivate"}
  BY DEF SilentDone, SilentCommands
<1>3. StackTyped'
  BY <1>2 DEF SilentDone, StackTyped, stackVars, linkVars
<1>4. CommandEffect(c)
  BY <1>1, <1>2 DEF CommandEffect
<1> QED BY <1>3, <1>4

LEMMA StartStep ==
  ASSUME StackTyped, UNCHANGED setting, NEW c, StartDone(c)
  PROVE  StackTyped' /\ CommandEffect(c)
<1>1. Reply[c] \in PlainTypes
  BY DEF StartDone, Reply, PlainTypes
<1>2. <<Event(Reply[c], "none")>> \in Seq(PlainEvents)
  BY <1>1, OnePlain
<1>3. nfaOut' \in Seq(Events)
  BY <1>2, PlainIsEvent, ReportTyped DEF StartDone, StackTyped
<1>4. StackTyped'
  BY <1>3 DEF StartDone, StackTyped, RfStates, linkVars
<1>5. CASE rf = "stopped"
  <2>1. Polls /\ rf' = "discovering"
    BY <1>2, <1>5 DEF StartDone, Polls
  <2> QED BY <1>4, <2>1 DEF StartDone, CommandEffect
<1>6. CASE rf # "stopped"
  <2>1. Keeps
    BY <1>2, <1>6 DEF StartDone, Keeps
  <2> QED BY <1>4, <1>6, <2>1 DEF StartDone, CommandEffect
<1> QED BY <1>5, <1>6

LEMMA LinksDownTyped ==
  ASSUME LinksDown
  PROVE  links' \in [Handles -> LinkStates] /\ sdp' \in BOOLEAN
BY DEF LinksDown, NoLinks, LinkStates

LEMMA StopStep ==
  ASSUME StackAssumption, StackTyped, UNCHANGED setting, NEW c, StopDone(c)
  PROVE  StackTyped' /\ CommandEffect(c)
<1> DEFINE d == IF rf \in {"active", "asleep", "emulating"} THEN Deactivation("IDLE") ELSE <<>>
           r == <<Event(Reply[c], "none")>>
<1>1. r \in Seq(PlainEvents) /\ r \in Seq(Events) /\ Len(r) = 1
  <2>1. Reply[c] \in PlainTypes BY DEF StopDone, Reply, PlainTypes
  <2> QED BY <2>1, OnePlain, PlainIsEvent
<1>2. /\ d \in Seq(Events)
      /\ \A i \in DOMAIN d : ~MakesActive(d[i]) /\ ~Wakes(d[i])
      /\ rf \in {"active", "asleep", "emulating"} => \E i \in DOMAIN d : IdleEvent(d[i])
  BY DeactivationTyped
<1> HIDE DEF d, r
<1> DEFINE s == d \o r
<1>3. /\ s \in Seq(Events) /\ DOMAIN s = 1 .. Len(d) + Len(r) /\ DOMAIN d = 1 .. Len(d)
      /\ DOMAIN r = 1 .. Len(r) /\ Len(d) \in Nat
      /\ \A i \in 1 .. Len(d) : s[i] = d[i]
      /\ \A i \in 1 .. Len(r) : s[Len(d) + i] = r[i] /\ r[i] \in PlainEvents
  BY <1>1, <1>2, ConcatProperties, LenProperties, ElementOfSeq
<1>4. Report(s) /\ rf' = "stopped" /\ peer' = "none" /\ owed' = "none" /\ LinksDown
      /\ c = "StopRfDiscovery"
  BY DEF StopDone, d, r
<1> HIDE DEF s
<1>5. StackTyped'
  BY <1>3, <1>4, ReportTyped, LinksDownTyped DEF StackTyped, RfStates
<1>6. \A i \in DOMAIN s : ~MakesActive(s[i]) /\ ~Wakes(s[i])
  <2> SUFFICES ASSUME NEW i \in DOMAIN s PROVE ~MakesActive(s[i]) /\ ~Wakes(s[i])
    OBVIOUS
  <2>1. CASE i \in 1 .. Len(d) BY <1>2, <1>3, <2>1
  <2>2. CASE i \notin 1 .. Len(d)
    <3>1. i = Len(d) + 1 BY <1>1, <1>3, <2>2
    <3>2. s[Len(d) + 1] \in PlainEvents BY <1>1, <1>3
    <3> QED BY <3>1, <3>2, PlainEvent
  <2> QED BY <2>1, <2>2
<1>7. (\E i \in DOMAIN d : IdleEvent(d[i])) => \E i \in DOMAIN s : IdleEvent(s[i])
  BY <1>1, <1>3
<1>8. Ended
  BY <1>2, <1>3, <1>4, <1>6, <1>7 DEF Ended
<1> QED BY <1>4, <1>5, <1>8 DEF CommandEffect

LEMMA DeactivateFail == <<Event("DEACTIVATE_FAIL", "none")>> \in Seq(PlainEvents)
<1>1. "DEACTIVATE_FAIL" \in PlainTypes BY DEF PlainTypes
<1> QED BY <1>1, OnePlain

(* The end of the contact as the only thing that is told.                  *)
LEMMA EndTold ==
  ASSUME StackAssumption, StackTyped, NEW type \in {"IDLE", "SLEEP", "DISCOVERY"},
         Report(Deactivation(type)), rf' \in {"stopped", "discovering", "asleep"},
         rf' = "stopped" => type = "IDLE"
  PROVE  Ended /\ nfaOut' \in Seq(Events)
<1>1. nfaOut' \in Seq(Events)
  BY DeactivationTyped, ReportTyped DEF StackTyped
<1> QED BY <1>1, DeactivationTyped DEF Ended

LEMMA SleepStep ==
  ASSUME StackAssumption, StackTyped, UNCHANGED setting, NEW c, SleepDone(c)
  PROVE  StackTyped' /\ CommandEffect(c)
<1>1. CASE rf = "active"
  <2>1. /\ c = "DeactivateSleep" /\ owed' = "none" /\ rf' = "asleep" /\ peer' = peer
        /\ Report(Deactivation("SLEEP")) /\ LinksDown
    BY <1>1 DEF SleepDone
  <2>2. Ended /\ nfaOut' \in Seq(Events)
    BY <2>1, EndTold
  <2>3. StackTyped'
    BY <2>1, <2>2, LinksDownTyped DEF StackTyped, RfStates
  <2> QED BY <2>1, <2>2, <2>3 DEF CommandEffect
<1>2. CASE rf # "active"
  <2>1. /\ c = "DeactivateSleep" /\ owed' = "none" /\ UNCHANGED <<rf, peer, links, sdp>>
        /\ Report(<<Event("DEACTIVATE_FAIL", "none")>>)
    BY <1>2 DEF SleepDone, linkVars
  <2>2. Keeps /\ nfaOut' \in Seq(Events)
    BY <2>1, DeactivateFail, PlainIsEvent, ReportTyped DEF StackTyped, Keeps
  <2>3. StackTyped'
    BY <2>1, <2>2 DEF StackTyped, RfStates
  <2> QED BY <2>1, <2>2, <2>3 DEF CommandEffect
<1> QED BY <1>1, <1>2

LEMMA DeactivateStep ==
  ASSUME StackAssumption, StackTyped, UNCHANGED setting, NEW c, DeactivateDone(c)
  PROVE  StackTyped' /\ CommandEffect(c)
<1>1. CASE rf \in {"active", "asleep"}
  <2>1. /\ c = "Deactivate" /\ owed' = "none" /\ peer' = "none" /\ LinksDown
        /\ \/ rf' = "discovering" /\ Report(Deactivation("DISCOVERY"))
           \/ rf' = "stopped" /\ Report(Deactivation("IDLE"))
    BY <1>1 DEF DeactivateDone
  <2>2. Ended /\ nfaOut' \in Seq(Events)
    BY <2>1, EndTold
  <2>3. StackTyped'
    BY <2>1, <2>2, LinksDownTyped DEF StackTyped, RfStates
  <2> QED BY <1>1, <2>1, <2>2, <2>3 DEF CommandEffect
<1>2. CASE rf \notin {"active", "asleep"}
  <2>1. /\ c = "Deactivate" /\ owed' = "none" /\ UNCHANGED <<rf, peer, links, sdp>>
        /\ Report(<<Event("DEACTIVATE_FAIL", "none")>>)
    BY <1>2 DEF DeactivateDone, linkVars
  <2>2. Keeps /\ nfaOut' \in Seq(Events)
    BY <2>1, DeactivateFail, PlainIsEvent, ReportTyped DEF StackTyped, Keeps
  <2>3. StackTyped'
    BY <2>1, <2>2 DEF StackTyped, RfStates
  <2> QED BY <1>2, <2>1, <2>2, <2>3 DEF CommandEffect
<1> QED BY <1>1, <1>2

LEMMA SelectStep ==
  ASSUME StackTyped, UNCHANGED setting, NEW c, SelectDone(c)
  PROVE  StackTyped' /\ CommandEffect(c)
<1>1. CASE rf = "selecting"
  <2> DEFINE a == Activation(peer)
             r == <<Event("SELECT_RESULT", "none")>>
             s == r \o a
  <2>1. /\ c = "Select" /\ rf' = "active" /\ Report(s)
        /\ UNCHANGED <<peer, owed, links, sdp>>
    BY <1>1 DEF SelectDone, linkVars
  <2>2. /\ a \in Seq(Events) /\ 1 \in DOMAIN a /\ a[1] = Event("ACTIVATED", peer)
        /\ \A i \in DOMAIN a : ~IdleEvent(a[i])
    BY <1>1, ActivationTyped DEF StackTyped
  <2>3. Event("SELECT_RESULT", "none") \in Events /\ ~IdleEvent(Event("SELECT_RESULT", "none"))
    BY DEF Event, Events, Selected, IdleEvent
  <2>4. r \in Seq(Events) /\ Len(r) = 1 /\ ~IdleEvent(r[1])
    BY <2>3
  <2> HIDE DEF a, r
  <2>5. /\ s \in Seq(Events) /\ Len(a) \in Nat /\ DOMAIN a = 1 .. Len(a)
        /\ DOMAIN s = 1 .. 1 + Len(a)
        /\ s[1] = r[1] /\ \A i \in 2 .. 1 + Len(a) : s[i] = a[i - 1]
    <3>1. /\ s \in Seq(Events) /\ Len(s) = Len(r) + Len(a)
          /\ \A i \in 1 .. Len(r) + Len(a) :
               s[i] = IF i <= Len(r) THEN r[i] ELSE a[i - Len(r)]
      BY <2>2, <2>4, ConcatProperties
    <3>2. Len(a) \in Nat /\ DOMAIN a = 1 .. Len(a) /\ DOMAIN s = 1 .. Len(s)
      BY <2>2, <3>1, LenProperties
    <3> QED BY <2>4, <3>1, <3>2
  <2> HIDE DEF s
  <2>6. 2 \in DOMAIN s /\ s[2] = a[1]
    BY <2>2, <2>5
  <2>7. s[2] = Beginning'
    BY <2>1, <2>2, <2>6 DEF Beginning
  <2>8. \A i \in DOMAIN s : ~IdleEvent(s[i])
    <3> SUFFICES ASSUME NEW i \in DOMAIN s PROVE ~IdleEvent(s[i])
      OBVIOUS
    <3>1. CASE i = 1 BY <2>4, <2>5, <3>1
    <3>2. CASE i # 1
      <4>1. i \in 2 .. 1 + Len(a) /\ i - 1 \in DOMAIN a BY <2>5, <3>2
      <4> QED BY <2>2, <2>5, <4>1
    <3> QED BY <3>1, <3>2
  <2>9. Begun
    BY <1>1, <2>1, <2>5, <2>6, <2>7, <2>8 DEF Begun
  <2>10. StackTyped'
    BY <1>1, <2>1, <2>5, ReportTyped DEF StackTyped, RfStates
  <2> QED BY <2>1, <2>9, <2>10 DEF CommandEffect
<1>2. CASE rf # "selecting"
  <2>1. c = "Select" /\ UNCHANGED <<rf, peer, owed, links, sdp, nfaOut>>
    BY <1>2 DEF SelectDone, linkVars
  <2>2. Keeps
    BY <2>1, NothingReported DEF StackTyped, Keeps
  <2> QED BY <2>1, <2>2 DEF StackTyped, CommandEffect
<1> QED BY <1>1, <1>2

LEMMA TagStep ==
  ASSUME StackTyped, UNCHANGED setting, NEW c, TagSent(c)
  PROVE  StackTyped' /\ CommandEffect(c)
<1>1. /\ UNCHANGED <<rf, peer, links, sdp, nfaOut>>
      /\ c \notin {"StartRfDiscovery", "StopRfDiscovery", "Deactivate"}
  BY DEF TagSent, TagCommands, linkVars
<1>2. owed' \in TagReplies \cup {"none"}
  BY TagReply DEF TagSent, TagReplies
<1>3. Keeps
  BY <1>1, NothingReported DEF StackTyped, Keeps
<1> QED BY <1>1, <1>2, <1>3 DEF StackTyped, CommandEffect

LEMMA AcceptStep ==
  ASSUME StackAssumption, StackTyped, UNCHANGED setting, NEW c, Accept(c)
  PROVE  StackTyped' /\ CommandEffect(c)
BY LocalStep, SilentStep, StartStep, StopStep, SleepStep, DeactivateStep, SelectStep, TagStep
   DEF Accept

-----------------------------------------------------------------------------
(* The commands on the link and the tester.                                *)

LEMMA NextHandleTyped ==
  ASSUME FreeHandles # {}
  PROVE  NextHandle \in Handles /\ links[NextHandle] = "free"
BY DEF FreeHandles, NextHandle

LEMMA KeptTyped ==
  ASSUME StackTyped, UNCHANGED <<setting, rf, peer, owed>>,
         links' \in [Handles -> LinkStates], sdp' \in BOOLEAN,
         NEW s \in Seq(PlainEvents), Report(s)
  PROVE  StackTyped' /\ Keeps
<1>1. nfaOut' \in Seq(Events)
  BY PlainIsEvent, ReportTyped DEF StackTyped
<1> QED BY <1>1 DEF StackTyped, Keeps

LEMMA HandleEvent ==
  ASSUME NEW type \in {"CONN_REQ", "CONNECTED"}, NEW h \in Handles
  PROVE  <<Event(type, h)>> \in Seq(PlainEvents)
<1>1. Event(type, h) \in PlainEvents BY DEF PlainEvents, Event
<1> QED BY <1>1

LEMMA DisconnectedEvent ==
  ASSUME NEW h
  PROVE  <<Disconnected(h)>> \in Seq(PlainEvents)
<1>1. Disconnected(h) \in PlainEvents
  BY DEF Disconnected, Event, PlainEvents, PlainTypes
<1> QED BY <1>1

LEMMA SapEvent ==
  ASSUME NEW sap \in {"sap", "none"}
  PROVE  <<Event("SDP", sap)>> \in Seq(PlainEvents)
<1>1. Event("SDP", sap) \in PlainEvents BY DEF PlainEvents, Event
<1> QED BY <1>1

LEMMA CloseStep ==
  ASSUME StackTyped, NEW h \in Handles, Close(h),
         UNCHANGED <<setting, rf, peer, owed, sdp>>
  PROVE  StackTyped' /\ Keeps
<1>1. links' \in [Handles -> LinkStates]
  BY DEF Close, StackTyped, LinkStates
<1> QED BY <1>1, DisconnectedEvent, KeptTyped DEF Close, StackTyped

LEMMA AcceptOnLinkStep ==
  ASSUME StackTyped, UNCHANGED setting, NEW c, NEW h, AcceptOnLink(c, h)
  PROVE  StackTyped' /\ Keeps
<1> USE DEF StackTyped
<1>0. <<>> \in Seq(PlainEvents) /\ (UNCHANGED nfaOut => Report(<<>>))
  BY NothingReported
<1>1. ASSUME AcceptConnDone(c, h) PROVE StackTyped' /\ Keeps
  <2>1. links' \in [Handles -> LinkStates]
    BY <1>1 DEF AcceptConnDone, LinkStates
  <2> QED BY <1>0, <1>1, <2>1, KeptTyped DEF AcceptConnDone
<1>2. ASSUME ConnectDone(c) PROVE StackTyped' /\ Keeps
  <2>1. CASE LinkUp /\ FreeHandles # {}
    <3>1. links' \in [Handles -> LinkStates]
      BY <1>2, <2>1, NextHandleTyped DEF ConnectDone, LinkStates
    <3> QED BY <1>0, <1>2, <2>1, <3>1, KeptTyped DEF ConnectDone
  <2>2. CASE ~(LinkUp /\ FreeHandles # {})
    <3>1. <<Event("DISC", "none")>> \in Seq(PlainEvents)
      BY OnePlain DEF PlainTypes
    <3> QED BY <1>2, <2>2, <3>1, KeptTyped DEF ConnectDone
  <2> QED BY <2>1, <2>2
<1>3. ASSUME GetRemoteSapDone(c) PROVE StackTyped' /\ Keeps
  <2>1. <<Event("SDP", "none")>> \in Seq(PlainEvents)
    BY SapEvent
  <2> QED BY <1>0, <1>3, <2>1, KeptTyped DEF GetRemoteSapDone
<1>4. ASSUME P2pDisconnectDone(c, h) PROVE StackTyped' /\ Keeps
  BY <1>4, CloseStep DEF P2pDisconnectDone
<1>5. ASSUME SilentDone(c) PROVE StackTyped' /\ Keeps
  BY <1>0, <1>5, KeptTyped DEF SilentDone, stackVars, linkVars
<1> QED BY <1>1, <1>2, <1>3, <1>4, <1>5 DEF AcceptOnLink

LEMMA PresentTagStep ==
  ASSUME StackTyped, UNCHANGED setting, NEW p, PresentTag(p)
  PROVE  StackTyped' /\ Begun
<1>1. p \in TagProtocols
  BY DEF PresentTag
<1>2. /\ Activation(p) \in Seq(Events)
      /\ 1 \in DOMAIN Activation(p) /\ Activation(p)[1] = Event("ACTIVATED", p)
      /\ \A i \in DOMAIN Activation(p) : ~IdleEvent(Activation(p)[i])
  BY <1>1, ActivationTyped
<1>3. StackTyped'
  BY <1>1, <1>2, ReportTyped DEF PresentTag, StackTyped, RfStates, linkVars
<1>4. Activation(p)[1] = Beginning'
  BY <1>2 DEF PresentTag, Beginning
<1>5. Begun
  BY <1>2, <1>4 DEF PresentTag, Begun
<1> QED BY <1>3, <1>5

LEMMA PresentSeveralStep ==
  ASSUME StackTyped, UNCHANGED setting, NEW p \in Selectable, p \in TagProtocols,
         PresentSeveral(p)
  PROVE  StackTyped' /\ Polls
<1> DEFINE s == <<Event("DISC_RESULT", "more"), Event("DISC_RESULT", "last")>>
<1>1. s \in Seq(PlainEvents)
  <2>1. "DISC_RESULT" \in Results
    BY DEF StackTyped, Selectable, OneTarget, Results
  <2>2. Event("DISC_RESULT", "more") \in PlainEvents /\ Event("DISC_RESULT", "last") \in PlainEvents
    BY <2>1 DEF Event, PlainEvents
  <2> QED BY <2>2
<1>2. nfaOut' \in Seq(Events)
  BY <1>1, PlainIsEvent, ReportTyped DEF PresentSeveral, StackTyped
<1>3. StackTyped'
  BY <1>2 DEF PresentSeveral, StackTyped, RfStates, linkVars
<1>4. Polls
  BY <1>1 DEF PresentSeveral, Polls
<1> QED BY <1>3, <1>4

LEMMA StartEmulationStep ==
  ASSUME StackTyped, UNCHANGED setting, NEW p, StartEmulation(p)
  PROVE  StackTyped' /\ Begun
<1> DEFINE e == Event("CE_ACTIVATED", p)
<1>1. e \in Events /\ ~IdleEvent(e) /\ p \in CeProtocols
  BY DEF StartEmulation, Event, Events, Begins, IdleEvent
<1>2. e = Beginning' /\ Report(<<e>>)
  BY DEF StartEmulation, Beginning
<1> HIDE DEF e
<1>3. <<e>> \in Seq(Events) /\ DOMAIN <<e>> = {1} /\ <<e>>[1] = e
  BY <1>1
<1>4. StackTyped'
  BY <1>1, <1>2, <1>3, ReportTyped DEF StartEmulation, StackTyped, RfStates, linkVars
<1>5. Begun
  BY <1>1, <1>2, <1>3 DEF StartEmulation, Begun
<1> QED BY <1>4, <1>5

LEMMA TagAnswersStep ==
  ASSUME StackTyped, UNCHANGED setting, TagAnswers
  PROVE  StackTyped' /\ Keeps
<1>1. owed \in PlainTypes
  BY DEF TagAnswers, StackTyped, PlainTypes
<1>2. <<Event(owed, "none")>> \in Seq(PlainEvents)
  BY <1>1, OnePlain
<1>3. /\ Event("DATA", "none") \in PlainEvents /\ Event("DATA", "bad") \in PlainEvents
      /\ Event(owed, "none") \in PlainEvents
  BY <1>1 DEF Event, PlainEvents, PlainTypes, TagReplies
<1>4. <<Event("RW_INTF_ERROR", "none")>> \in Seq(PlainEvents)
  BY OnePlain DEF PlainTypes
<1>5. ASSUME NEW answer \in AnswersOfTag PROVE answer \in Seq(PlainEvents)
  <2> DEFINE last == Event(owed, "none")
  <2>1. \A d \in PlainEvents : <<d>> \in Seq(PlainEvents)
    OBVIOUS
  <2>2. \A d \in PlainEvents : last \in PlainEvents => <<d, last>> \in Seq(PlainEvents)
    <3> HIDE DEF last
    <3> QED OBVIOUS
  <2>3. \A d \in { Event("DATA", x) : x \in {"none", "bad"} } : d \in PlainEvents
    BY <1>3
  <2> QED BY <1>2, <1>3, <2>1, <2>2, <2>3, Zenon DEF AnswersOfTag
<1>6. \E s \in Seq(PlainEvents) : Report(s)
  BY <1>4, <1>5 DEF TagAnswers
<1>7. Keeps /\ nfaOut' \in Seq(Events)
  BY <1>6, PlainIsEvent, ReportTyped DEF TagAnswers, StackTyped, Keeps
<1> QED BY <1>7 DEF TagAnswers, StackTyped, linkVars

LEMMA TagLostStep ==
  ASSUME StackAssumption, StackTyped, UNCHANGED setting, TagLost
  PROVE  StackTyped' /\ Ended
<1>1. Ended /\ nfaOut' \in Seq(Events)
  BY EndTold DEF TagLost
<1> QED BY <1>1, LinksDownTyped DEF TagLost, StackTyped, RfStates

LEMMA EndEmulationStep ==
  ASSUME StackAssumption, StackTyped, UNCHANGED setting, EndEmulation
  PROVE  StackTyped' /\ Ended
<1>1. Ended /\ nfaOut' \in Seq(Events)
  BY EndTold DEF EndEmulation
<1> QED BY <1>1 DEF EndEmulation, StackTyped, RfStates, linkVars

LEMMA OnLinkStep ==
  ASSUME StackTyped, UNCHANGED setting, OnLink
  PROVE  StackTyped' /\ Keeps
<1> USE DEF StackTyped
<1>1. ASSUME RemoteConnects PROVE StackTyped' /\ Keeps
  <2>1. NextHandle \in Handles
    BY <1>1, NextHandleTyped DEF RemoteConnects
  <2>2. links' \in [Handles -> LinkStates]
    BY <1>1, <2>1 DEF RemoteConnects, LinkStates
  <2> QED BY <1>1, <2>1, <2>2, HandleEvent, KeptTyped DEF RemoteConnects
<1>2. ASSUME NEW h \in Handles, RemoteAccepts(h) PROVE StackTyped' /\ Keeps
  <2>1. links' \in [Handles -> LinkStates]
    BY <1>2 DEF RemoteAccepts, LinkStates
  <2> QED BY <1>2, <2>1, HandleEvent, KeptTyped DEF RemoteAccepts
<1>3. ASSUME NEW h \in Handles, RemoteCloses(h) PROVE StackTyped' /\ Keeps
  BY <1>3, CloseStep DEF RemoteCloses
<1>4. ASSUME SdpAnswer PROVE StackTyped' /\ Keeps
  BY <1>4, SapEvent, KeptTyped DEF SdpAnswer
<1>5. ASSUME SendData PROVE StackTyped' /\ Keeps
  <2>1. /\ <<Event("CL_DATA", "none")>> \in Seq(PlainEvents)
        /\ <<Event("SERVER_DATA", "none")>> \in Seq(PlainEvents)
    BY OnePlain DEF PlainTypes
  <2> QED BY <1>5, <2>1, KeptTyped DEF SendData
<1>6. DOMAIN links = Handles
  OBVIOUS
<1> QED BY <1>1, <1>2, <1>3, <1>4, <1>5, <1>6 DEF OnLink, RemoteAnswers

(* What the tester may do to the contact.                                  *)
TesterEffect == Keeps \/ Begun \/ (Polls /\ rf = "discovering") \/ Ended

LEMMA TesterStep ==
  ASSUME StackAssumption, StackTyped, UNCHANGED setting, Tester
  PROVE  StackTyped' /\ TesterEffect
<1>1. ASSUME SendApdu PROVE StackTyped' /\ Keeps
  <2>1. <<Event("CE_DATA", "none")>> \in Seq(PlainEvents)
    BY OnePlain DEF PlainTypes
  <2> QED BY <1>1, <2>1, KeptTyped DEF SendApdu, StackTyped, linkVars
<1>2. Selectable \subseteq TagProtocols
  BY DEF StackAssumption, StackTyped, Selectable
<1>3. ASSUME NEW p \in Selectable, PresentSeveral(p)
      PROVE  StackTyped' /\ Polls /\ rf = "discovering"
  BY <1>2, <1>3, PresentSeveralStep DEF PresentSeveral
<1> QED
  BY <1>1, <1>3, PresentTagStep, StartEmulationStep, TagAnswersStep, TagLostStep,
     EndEmulationStep, OnLinkStep DEF Tester, TesterEffect

-----------------------------------------------------------------------------
(* Calls.  What a step puts in front of the rest of a call, as a function  *)
(* of the stack of calls c.                                                *)

CallsOf(S) == Seq(Seq(S) \ {<<>>})

Rest(c, s) == s \o Tail(Head(c))
Pushed(c, s) == IF Rest(c, s) = <<>> THEN Tail(c) ELSE <<Rest(c, s)>> \o Tail(c)

LEMMA IntoIsPushed ==
  ASSUME NEW t, NEW s
  PROVE  Into(t, s) = Pushed(calls[t], s)
BY DEF Into, Pushed, Rest

LEMMA CallsWithin ==
  ASSUME NEW S, NEW T, S \subseteq T
  PROVE  CallsOf(S) \subseteq CallsOf(T)
<1>1. Seq(S) \subseteq Seq(T)
  BY SeqMonotonic
<1>2. Seq(S) \ {<<>>} \subseteq Seq(T) \ {<<>>}
  BY <1>1
<1> QED BY <1>2, SeqMonotonic DEF CallsOf

LEMMA CallFacts ==
  ASSUME NEW S, NEW c \in CallsOf(S)
  PROVE  /\ Len(c) \in Nat /\ DOMAIN c = 1 .. Len(c)
         /\ \A i \in DOMAIN c : /\ c[i] \in Seq(S) /\ c[i] # <<>>
                                /\ Len(c[i]) \in Nat \ {0} /\ DOMAIN c[i] = 1 .. Len(c[i])
                                /\ \A j \in DOMAIN c[i] : c[i][j] \in S
         /\ c # <<>> => Len(c) > 0 /\ Head(c) = c[1] /\ 1 \in DOMAIN c
                        /\ Head(c[1]) = c[1][1] /\ c[1][1] \in S
<1>1. Len(c) \in Nat /\ DOMAIN c = 1 .. Len(c)
  BY LenProperties DEF CallsOf
<1>2. \A i \in DOMAIN c : c[i] \in Seq(S) \ {<<>>}
  BY <1>1, ElementOfSeq DEF CallsOf
<1>3. ASSUME NEW d \in Seq(S) \ {<<>>}
      PROVE  /\ Len(d) \in Nat \ {0} /\ DOMAIN d = 1 .. Len(d)
             /\ \A j \in DOMAIN d : d[j] \in S
             /\ Head(d) = d[1] /\ d[1] \in S
  <2>1. Len(d) \in Nat /\ DOMAIN d = 1 .. Len(d) /\ Len(d) # 0
    BY LenProperties, EmptySeq
  <2>2. \A j \in DOMAIN d : d[j] \in S
    BY <2>1, ElementOfSeq
  <2> QED BY <2>1, <2>2, HeadTailProperties
<1>4. ASSUME c # <<>> PROVE Len(c) > 0 /\ Head(c) = c[1] /\ 1 \in DOMAIN c
  <2>1. Len(c) # 0 BY <1>4, EmptySeq DEF CallsOf
  <2> QED BY <1>1, <2>1
<1> QED BY <1>1, <1>2, <1>3, <1>4

(* The stack without the innermost call.                                   *)
LEMMA TailFacts ==
  ASSUME NEW S, NEW c \in CallsOf(S), c # <<>>
  PROVE  /\ Tail(c) \in CallsOf(S)
         /\ Len(Tail(c)) = Len(c) - 1
         /\ \A i \in 1 .. Len(c) - 1 : Tail(c)[i] = c[i + 1]
BY HeadTailProperties DEF CallsOf

(* The rest d of the innermost call, behind the steps s.                   *)
RestIs(d, c, s) ==
  /\ Len(s) \in Nat /\ Len(d) = Len(s) + Len(c[1]) - 1
  /\ \A j \in 1 .. Len(s) : d[j] = s[j]
  /\ \A j \in Len(s) + 1 .. Len(s) + Len(c[1]) - 1 : d[j] = c[1][j - Len(s) + 1]

LEMMA RestFacts ==
  ASSUME NEW S, NEW c \in CallsOf(S), c # <<>>, NEW s \in Seq(S)
  PROVE  Rest(c, s) \in Seq(S) /\ RestIs(Rest(c, s), c, s)
<1> DEFINE d == c[1]
           q == Tail(d)
<1>1. d \in Seq(S) /\ d # <<>> /\ Len(d) \in Nat \ {0} /\ Head(c) = d
  BY CallFacts
<1> HIDE DEF d
<1>2. /\ q \in Seq(S) /\ Len(q) = Len(d) - 1
      /\ \A i \in 1 .. Len(d) - 1 : q[i] = d[i + 1]
  BY <1>1, HeadTailProperties
<1> HIDE DEF q
<1>3. Rest(c, s) = s \o q
  BY <1>1 DEF Rest, q
<1>4. /\ s \o q \in Seq(S) /\ Len(s \o q) = Len(s) + Len(q) /\ Len(s) \in Nat
      /\ \A j \in 1 .. Len(s) + Len(q) :
           (s \o q)[j] = IF j <= Len(s) THEN s[j] ELSE q[j - Len(s)]
  BY <1>2, ConcatProperties, LenProperties
<1>5. \A j \in 1 .. Len(s) : (s \o q)[j] = s[j]
  BY <1>1, <1>2, <1>4
<1>6. ASSUME NEW j \in Len(s) + 1 .. Len(s) + Len(d) - 1
      PROVE  (s \o q)[j] = d[j - Len(s) + 1]
  <2>1. (s \o q)[j] = q[j - Len(s)] /\ j - Len(s) \in 1 .. Len(d) - 1
    BY <1>1, <1>2, <1>4
  <2> QED BY <1>2, <2>1
<1>7. Rest(c, s) \in Seq(S) /\ Len(Rest(c, s)) = Len(s) + Len(d) - 1
  BY <1>1, <1>2, <1>3, <1>4
<1> QED BY <1>3, <1>4, <1>5, <1>6, <1>7 DEF d, RestIs

LEMMA RestFirst ==
  ASSUME NEW S, NEW c \in CallsOf(S), c # <<>>, NEW s \in Seq(S), Len(s) > 0
  PROVE  Rest(c, s) # <<>> /\ Rest(c, s)[1] = s[1]
<1> DEFINE d == Rest(c, s)
<1>1. d \in Seq(S) /\ RestIs(d, c, s)
  BY RestFacts
<1>2. Len(c[1]) \in Nat \ {0}
  BY CallFacts
<1> HIDE DEF d
<1>3. Len(d) > 0 /\ d[1] = s[1]
  BY <1>1, <1>2 DEF RestIs
<1> QED BY <1>3 DEF d

LEMMA ConsFacts ==
  ASSUME NEW S, NEW c \in CallsOf(S), NEW d \in Seq(S), d # <<>>
  PROVE  /\ <<d>> \o c \in CallsOf(S)
         /\ <<d>> \o c # <<>>
         /\ Len(<<d>> \o c) = Len(c) + 1
         /\ (<<d>> \o c)[1] = d
         /\ \A i \in 2 .. Len(c) + 1 : (<<d>> \o c)[i] = c[i - 1]
<1> DEFINE e == <<d>>
           T == Seq(S) \ {<<>>}
<1>1. e \in Seq(T) /\ Len(e) = 1 /\ e[1] = d
  OBVIOUS
<1>2. c \in Seq(T) /\ Len(c) \in Nat
  BY LenProperties DEF CallsOf
<1> HIDE DEF e, T
<1>3. /\ e \o c \in Seq(T) /\ Len(e \o c) = Len(e) + Len(c)
      /\ \A i \in 1 .. Len(e) + Len(c) :
           (e \o c)[i] = IF i <= Len(e) THEN e[i] ELSE c[i - Len(e)]
  BY <1>1, <1>2, ConcatProperties
<1>4. /\ Len(e \o c) = Len(c) + 1
      /\ (e \o c)[1] = d
      /\ \A i \in 2 .. Len(c) + 1 : (e \o c)[i] = c[i - 1]
  BY <1>1, <1>2, <1>3
<1>5. e \o c # <<>>
  BY <1>2, <1>3, <1>4, EmptySeq
<1> QED BY <1>3, <1>4, <1>5 DEF e, T, CallsOf

LEMMA PushedTyped ==
  ASSUME NEW S, NEW c \in CallsOf(S), c # <<>>, NEW s \in Seq(S)
  PROVE  Pushed(c, s) \in CallsOf(S)
BY TailFacts, RestFacts, ConsFacts DEF Pushed

-----------------------------------------------------------------------------
(* The steps of each thread.                                               *)

ListenSteps == {"SetIsoDepListenTech", "RegisterAid", "ConfigureUiccListen",
                "ConfigureEseListen", "SetP2pListenTech", "DeregisterAid", "ClearCe"}
DiscoverySteps ==
  {"DiscoveryStop", "StopRfDiscovery", "Flush", "ClearAnalog", "DisablePolling",
   "DisableListening", "DisableCe", "SaveConfig", "EnablePolling", "DiscoveryConfig",
   "EnableListening", "SetRfDiscoveryDuration", "StartRfDiscovery", "SetStarted"}
  \cup ListenSteps

Eots == {"MayEot", "MayEot1", "Eot"}
Pulls == {"HcePull", "UiccPull"}
Stops == {"DiscoveryStop", "StopRfDiscovery"}

TestSteps == {"CheckActive", "SendRawFrame", "Receive", "CheckData", "DetectNDef",
              "IsNdef", "ReadNDef", "WriteNDef", "SetTagReadOnly", "T2tRead", "T2tWrite",
              "T2tSectorSelect", "DeactivateSleep", "Deactivate", "SendLast"} \cup Eots
AwakeSteps == TestSteps \ {"DeactivateSleep"}
LinkSteps == {"AcceptConn", "GetRemoteSap", "Connect", "SaveConn", "P2pDisconnect",
              "ReadUi", "SaveClSap", "SendUi"}
SetUpSteps ==
  {"SendNxpNci", "SetParam", "SetConfig", "RegisterClient", "SaveLlcpInit",
   "RegisterServer", "RegisterClServer", "EeRegister", "SetTechRouting",
   "SetProtoRouting", "EeUpdateNow", "EeDeregister", "EeGetInfo", "HciRegister",
   "EeStatus", "EeModeSet", "HciDeregister", "Enable"}

StepsOf(t) ==
  DiscoverySteps \cup (IF t = "handler" THEN TestSteps \cup LinkSteps \cup Pulls
                       ELSE SetUpSteps \cup {"SavePrev", "Select", "Restart", "Exited"})

LEMMA StepsOfThread == \A t : StepsOf(t) \subseteq Steps
BY DEF StepsOf, Steps, DiscoverySteps, ListenSteps, TestSteps, LinkSteps, SetUpSteps, Eots,
       Pulls, Reply

(* What the handler's calls look like: a connection is saved only after it *)
(* was made, and discovery is marked started only after the command that   *)
(* starts it; a stop begins a call, and after it there is no end of a test *)
(* but a start of discovery; so it is after the waits of card emulation.   *)
Follows(d) ==
  \A j \in 1 .. Len(d) - 1 :
    /\ d[j + 1] = "SaveConn" => d[j] = "Connect"
    /\ d[j + 1] = "SetStarted" => d[j] = "StartRfDiscovery"
    /\ d[j + 1] \notin Stops

NoEot(c) == \A i \in 1 .. Len(c) : \A j \in 1 .. Len(c[i]) : c[i][j] \notin Eots

Shape(c) ==
  /\ \A i \in 1 .. Len(c) : Follows(c[i])
  /\ \A i \in 2 .. Len(c) : c[i][1] \notin {"SaveConn", "SetStarted"}
  /\ \A i \in 1 .. Len(c) : c[i][1] \in Stops =>
       /\ i < Len(c) /\ c[Len(c)][1] = "StartRfDiscovery"
       /\ \A k \in i .. Len(c) : \A j \in 1 .. Len(c[k]) : c[k][j] \notin Eots
  /\ \A i \in 1 .. Len(c) : \A j \in 1 .. Len(c[i]) : c[i][j] \in Pulls =>
       /\ NoEot(c)
       /\ \E k \in i + 1 .. Len(c) : c[k][1] \in Stops

(* The steps s may take the place of the first of the calls c.             *)
MayReplace(s, c) ==
  /\ \A j \in 1 .. Len(s) :
       /\ s[j] \notin {"SaveConn", "SetStarted"} \cup Eots
       /\ s[j] \in Pulls => c[1][1] \in Pulls
       /\ s[j] \in Stops => j = 1 /\ c[1][1] \in Stops
  /\ Len(s) > 0 => c[1][1] \notin {"Connect", "StartRfDiscovery"}

LEMMA TailShape ==
  ASSUME NEW S, NEW c \in CallsOf(S), c # <<>>, Shape(c)
  PROVE  Shape(Tail(c))
<1> DEFINE q == Tail(c)
           n == Len(c) - 1
<1>1. /\ n \in Nat /\ Len(c) = n + 1 /\ Len(q) = n
      /\ \A i \in 1 .. n : q[i] = c[i + 1]
  BY CallFacts, TailFacts
<1> HIDE DEF q, n
<1>2. \A i \in 1 .. n : i + 1 \in 1 .. Len(c) /\ i + 1 \in 2 .. Len(c)
  BY <1>1
<1>3. \A i \in 1 .. n : Follows(q[i])
  BY <1>1, <1>2 DEF Shape
<1>4. \A i \in 1 .. n : q[i][1] \notin {"SaveConn", "SetStarted"}
  BY <1>1, <1>2 DEF Shape
<1>5. ASSUME NEW i \in 1 .. n, q[i][1] \in Stops
      PROVE  /\ i < n /\ q[n][1] = "StartRfDiscovery"
             /\ \A k \in i .. n : \A j \in 1 .. Len(q[k]) : q[k][j] \notin Eots
  <2>1. c[i + 1][1] \in Stops /\ i + 1 \in 1 .. Len(c)
    BY <1>1, <1>2, <1>5
  <2>2. /\ i + 1 < Len(c) /\ c[Len(c)][1] = "StartRfDiscovery"
        /\ \A k \in i + 1 .. Len(c) : \A j \in 1 .. Len(c[k]) : c[k][j] \notin Eots
    BY <2>1 DEF Shape
  <2>3. i < n /\ q[n] = c[Len(c)]
    BY <1>1, <2>2
  <2>4. \A k \in i .. n : q[k] = c[k + 1] /\ k + 1 \in i + 1 .. Len(c)
    BY <1>1
  <2> QED BY <2>2, <2>3, <2>4
<1>6. ASSUME NEW i \in 1 .. n, NEW j \in 1 .. Len(q[i]), q[i][j] \in Pulls
      PROVE  NoEot(q) /\ \E k \in i + 1 .. n : q[k][1] \in Stops
  <2>1. c[i + 1][j] \in Pulls /\ i + 1 \in 1 .. Len(c) /\ j \in 1 .. Len(c[i + 1])
    BY <1>1, <1>2, <1>6
  <2>2. NoEot(c) /\ \E k \in i + 2 .. Len(c) : c[k][1] \in Stops
    <3>1. NoEot(c) /\ \E k \in i + 1 + 1 .. Len(c) : c[k][1] \in Stops
      BY <2>1 DEF Shape
    <3> QED BY <3>1
  <2>3. PICK k \in i + 2 .. Len(c) : c[k][1] \in Stops
    BY <2>2
  <2>4. k - 1 \in i + 1 .. n /\ q[k - 1][1] \in Stops
    BY <1>1, <2>3
  <2>5. NoEot(q)
    BY <1>1, <1>2, <2>2 DEF NoEot
  <2> QED BY <2>4, <2>5
<1>7. Shape(q)
  <2>1. \A i \in 2 .. Len(q) : i \in 1 .. n BY <1>1
  <2> QED BY <1>1, <1>3, <1>4, <1>5, <1>6, <2>1 DEF Shape
<1> QED BY <1>7 DEF q

(* A call without marks in front of calls that go on where they are.       *)
LEMMA ReplacedShape ==
  ASSUME NEW c, NEW b, NEW n \in Nat, n > 0, Shape(c), Len(c) = n, Len(b) = n,
         \A i \in 2 .. n : b[i] = c[i], Len(b[1]) \in Nat,
         Follows(b[1]),
         \A j \in 1 .. Len(b[1]) : /\ b[1][j] \in Eots => \E k \in 1 .. Len(c[1]) : c[1][k] \in Eots
                                   /\ b[1][j] \in Pulls => \E k \in 1 .. Len(c[1]) : c[1][k] \in Pulls,
         b[1][1] \in Stops => c[1][1] \in Stops,
         Len(b[1]) > 0
  PROVE  Shape(b)
<1>1. 1 \in 1 .. n /\ \A i \in 1 .. n : i = 1 \/ i \in 2 .. n
  OBVIOUS
<1>2. ASSUME NEW m \in 1 .. n,
             \A k \in m .. n : \A j \in 1 .. Len(c[k]) : c[k][j] \notin Eots
      PROVE  \A k \in m .. n : \A j \in 1 .. Len(b[k]) : b[k][j] \notin Eots
  <2> SUFFICES ASSUME NEW k \in m .. n, NEW j \in 1 .. Len(b[k]) PROVE b[k][j] \notin Eots
    OBVIOUS
  <2>1. CASE k = 1 BY <1>2, <2>1
  <2>2. CASE k # 1
    <3>1. k \in 2 .. n BY <2>2
    <3> QED BY <1>2, <3>1
  <2> QED BY <2>1, <2>2
<1>3. NoEot(c) => NoEot(b)
  BY <1>1, <1>2 DEF NoEot
<1>4. \A i \in 1 .. n : Follows(b[i])
  BY <1>1 DEF Shape
<1>5. \A i \in 2 .. n : b[i][1] \notin {"SaveConn", "SetStarted"}
  BY DEF Shape
<1>6. ASSUME NEW i \in 1 .. n, b[i][1] \in Stops
      PROVE  /\ i < n /\ b[n][1] = "StartRfDiscovery"
             /\ \A k \in i .. n : \A j \in 1 .. Len(b[k]) : b[k][j] \notin Eots
  <2>1. c[i][1] \in Stops
    BY <1>1, <1>6
  <2>2. /\ i < n /\ c[n][1] = "StartRfDiscovery"
        /\ \A k \in i .. n : \A j \in 1 .. Len(c[k]) : c[k][j] \notin Eots
    BY <2>1 DEF Shape
  <2>3. n \in 2 .. n
    BY <2>2
  <2> QED BY <1>2, <2>2, <2>3
<1>7. ASSUME NEW i \in 1 .. n, NEW j \in 1 .. Len(b[i]), b[i][j] \in Pulls
      PROVE  NoEot(b) /\ \E k \in i + 1 .. n : b[k][1] \in Stops
  <2>1. \E k \in 1 .. Len(c[i]) : c[i][k] \in Pulls
    BY <1>1, <1>7
  <2>2. NoEot(c) /\ \E k \in i + 1 .. n : c[k][1] \in Stops
    BY <2>1 DEF Shape
  <2>3. \A k \in i + 1 .. n : k \in 2 .. n
    OBVIOUS
  <2> QED BY <1>3, <2>2, <2>3
<1> QED BY <1>4, <1>5, <1>6, <1>7 DEF Shape

LEMMA PushedShape ==
  ASSUME NEW S, NEW c \in CallsOf(S), c # <<>>, Shape(c), NEW s \in Seq(S), MayReplace(s, c)
  PROVE  Shape(Pushed(c, s))
<1> DEFINE d == Rest(c, s)
           m == Len(s)
           p == Len(c[1])
           n == Len(c)
<1>1. CASE d = <<>>
  BY <1>1, TailShape DEF Pushed
<1>2. CASE d # <<>>
  <2>1. /\ n \in Nat /\ n > 0 /\ m \in Nat /\ p \in Nat \ {0}
        /\ d \in Seq(S) /\ Len(d) = m + p - 1
        /\ \A j \in 1 .. m : d[j] = s[j]
        /\ \A j \in m + 1 .. m + p - 1 : d[j] = c[1][j - m + 1]
        /\ Tail(c) \in CallsOf(S) /\ Len(Tail(c)) = n - 1
        /\ \A i \in 1 .. n - 1 : Tail(c)[i] = c[i + 1]
    <3>1. n \in Nat /\ n > 0 /\ p \in Nat \ {0}
      BY CallFacts
    <3>2. d \in Seq(S) /\ RestIs(d, c, s)
      BY RestFacts
    <3>3. /\ Tail(c) \in CallsOf(S) /\ Len(Tail(c)) = n - 1
          /\ \A i \in 1 .. n - 1 : Tail(c)[i] = c[i + 1]
      BY TailFacts
    <3> QED BY <3>1, <3>2, <3>3 DEF RestIs
  <2>2. Len(d) > 0
    BY <1>2, <2>1, EmptySeq
  <2> DEFINE b == Pushed(c, s)
  <2>3. b = <<d>> \o Tail(c)
    BY <1>2 DEF Pushed
  <2> HIDE DEF d, n, m, p, b
  <2>4. Len(b) = n /\ b[1] = d /\ \A i \in 2 .. n : b[i] = c[i]
    <3>1. /\ Len(b) = Len(Tail(c)) + 1 /\ b[1] = d
          /\ \A i \in 2 .. Len(Tail(c)) + 1 : b[i] = Tail(c)[i - 1]
      BY <1>2, <2>1, <2>3, ConsFacts
    <3>2. \A i \in 2 .. n : i - 1 \in 1 .. n - 1 /\ (i - 1) + 1 = i
      BY <2>1
    <3> QED BY <2>1, <3>1, <3>2
  <2>5. 1 \in 1 .. n /\ Follows(c[1])
    BY <2>1 DEF Shape, n
  <2>6. Follows(d)
    <3> SUFFICES ASSUME NEW j \in 1 .. Len(d) - 1
                 PROVE  /\ d[j + 1] = "SaveConn" => d[j] = "Connect"
                        /\ d[j + 1] = "SetStarted" => d[j] = "StartRfDiscovery"
                        /\ d[j + 1] \notin Stops
      BY DEF Follows
    <3>1. CASE j + 1 <= m
      <4>1. j + 1 \in 1 .. m /\ d[j + 1] = s[j + 1] /\ j + 1 # 1
        BY <2>1, <3>1
      <4> QED BY <4>1 DEF MayReplace, m
    <3>2. CASE j = m
      <4>1. d[j + 1] = c[1][2] /\ 1 \in 1 .. p - 1 /\ m > 0
        BY <2>1, <3>2
      <4> QED BY <2>5, <4>1 DEF MayReplace, Follows, m, p
    <3>3. CASE j > m
      <4>1. /\ d[j] = c[1][j - m + 1] /\ d[j + 1] = c[1][j - m + 1 + 1]
            /\ j - m + 1 \in 1 .. p - 1
        BY <2>1, <3>3
      <4> QED BY <2>5, <4>1 DEF Follows, p
    <3> QED BY <2>1, <3>1, <3>2, <3>3
  <2>7. \A j \in 1 .. Len(d) :
          /\ d[j] \in Eots => \E k \in 1 .. Len(c[1]) : c[1][k] \in Eots
          /\ d[j] \in Pulls => \E k \in 1 .. Len(c[1]) : c[1][k] \in Pulls
    <3> SUFFICES ASSUME NEW j \in 1 .. Len(d)
                 PROVE  /\ d[j] \in Eots => \E k \in 1 .. p : c[1][k] \in Eots
                        /\ d[j] \in Pulls => \E k \in 1 .. p : c[1][k] \in Pulls
      BY DEF p
    <3>1. CASE j <= m
      <4>1. j \in 1 .. m /\ d[j] = s[j] /\ 1 \in 1 .. p BY <2>1, <3>1
      <4> QED BY <4>1 DEF MayReplace, m
    <3>2. CASE j > m
      <4>1. d[j] = c[1][j - m + 1] /\ j - m + 1 \in 1 .. p BY <2>1, <3>2
      <4> QED BY <4>1
    <3> QED BY <2>1, <3>1, <3>2
  <2>8. d[1] \in Stops => c[1][1] \in Stops
    <3>1. CASE m > 0
      <4>1. 1 \in 1 .. m /\ d[1] = s[1] BY <2>1, <3>1
      <4> QED BY <4>1 DEF MayReplace, m
    <3>2. CASE m = 0
      <4>1. d[1] = c[1][2] /\ 1 \in 1 .. p - 1 BY <2>1, <2>2, <3>2
      <4> QED BY <2>5, <4>1 DEF Follows, p
    <3> QED BY <2>1, <3>1, <3>2
  <2>9. Shape(b)
    <3>1. Len(d) \in Nat BY <2>1
    <3> QED BY <2>1, <2>2, <2>4, <2>6, <2>7, <2>8, <3>1, ReplacedShape DEF n
  <2> QED BY <2>9 DEF b
<1> QED BY <1>1, <1>2

-----------------------------------------------------------------------------
(* What the variables hold.                                                *)

Todos == {<<>>, <<"mw">>, <<"dta">>, <<"mw", "dta">>, <<"dta", "mw">>}

MwTyped ==
  /\ eDeviceState \in {"IDLE", "DISCOVERY_STARTED", "POLL_ACTIVE"}
  /\ gx_status \in {"OK", "FAILED"}
  /\ mwQueue \in Seq(MwEvents) /\ Len(mwQueue) <= MwQLength
  /\ dtaQueue \in Seq(DtaEvents) /\ Len(dtaQueue) <= DtaQLength
  /\ sLastQueueData \in Handles \cup {"none", "sap"}
  /\ cb \in [ev : Events \cup {NoEvent}, todo : Todos]

CallsTyped ==
  /\ calls \in [Threads -> CallsOf(Steps)]
  /\ at \in [Threads -> {"run", "check", "wait"}]
  /\ \A t \in Threads : /\ calls[t] \in CallsOf(StepsOf(t))
                        /\ at[t] # "run" => Busy(t) /\ Step(t) \in DOMAIN Reply
  /\ Shape(calls["handler"])

(* The data of the last wait is a connection when it is to be saved.       *)
HandleKnown ==
  Busy("handler") /\ Step("handler") = "SaveConn" => sLastQueueData \in Handles \cup {"none"}

ControlTyped == CallsTyped /\ HandleKnown

DtaTyped ==
  {pvCORemoteClientConnHandle, pvCORemoteServerConnHandle} \subseteq Handles \cup {"none"}

Typed == StackTyped /\ MwTyped /\ ControlTyped /\ DtaTyped

(* How a step of thread t may change its calls.                            *)
Filling(step) ==
  CASE step = "DiscoveryStop" ->
         {IF eDeviceState = "IDLE" THEN <<"Flush">> ELSE <<"StopRfDiscovery">>}
    [] step \in {"DiscoveryConfig", "DisableCe"} -> Seq(ListenSteps)
    [] step = "EeGetInfo" -> {<<>>, <<"EeModeSet">>}
    [] OTHER -> {<<>>}

Entered(t) == /\ UNCHANGED calls /\ \E label \in {"check", "wait"} : at' = [at EXCEPT ![t] = label]
              /\ Step(t) \in DOMAIN Reply
Moved(t, s) == calls' = [calls EXCEPT ![t] = Pushed(@, s)] /\ at' = [at EXCEPT ![t] = "run"]
Popped(t) == calls' = [calls EXCEPT ![t] = Tail(@)] /\ at' = [at EXCEPT ![t] = "run"]

(* Steps that are over as soon as they are taken, or may be.               *)
Immediate == (Steps \ DOMAIN Reply) \cup {"Receive"} \cup P2pCommands \cup LinkCommands

Stays(t) == Keeps /\ UNCHANGED <<calls, at, sLastQueueData>>
Commands(t) == /\ at[t] = "run" /\ Entered(t) /\ CommandEffect(Step(t))
               /\ UNCHANGED sLastQueueData
Waits(t) == /\ Entered(t) /\ Keeps
            /\ at[t] = "run" => Step(t) \in MayRefuse \cup Immediate
            /\ UNCHANGED sLastQueueData
Goes(t) == /\ Keeps
           /\ at[t] = "run" => Step(t) \in Immediate
           /\ \/ Popped(t) /\ Step(t) # "DiscoveryStop"
              \/ \E s \in Filling(Step(t)) :
                   Moved(t, s) /\ (Step(t) = "Connect" => sLastQueueData' \in Handles)
CallEffect(t) == Busy(t) /\ (Stays(t) \/ Commands(t) \/ Waits(t) \/ Goes(t))

(* What a call does to the rest of the interface.                          *)
MwEffect(t) ==
  /\ \/ UNCHANGED eDeviceState
     \/ At(t, "SetStarted") /\ eDeviceState' = "DISCOVERY_STARTED"
  /\ gx_status' \in {"OK", "FAILED"}
  /\ UNCHANGED mwQueue \/ (mwQueue # <<>> /\ mwQueue' = Tail(mwQueue))
  /\ \/ UNCHANGED sLastQueueData
     \/ /\ mwQueue # <<>> /\ Busy(t) /\ at[t] = "wait"
        /\ Head(mwQueue).type = Reply[Step(t)] /\ sLastQueueData' = Head(mwQueue).detail
  /\ UNCHANGED <<dtaQueue, cb, pvSemIntgrnThrd>>

LEMMA StepIs ==
  ASSUME ControlTyped, NEW t \in Threads, Busy(t)
  PROVE  /\ calls[t] \in CallsOf(StepsOf(t)) /\ calls[t] # <<>>
         /\ Step(t) = calls[t][1][1] /\ Step(t) \in StepsOf(t) /\ Step(t) \in Steps
BY CallFacts, StepsOfThread DEF ControlTyped, CallsTyped, Busy, Step

LEMMA StackKept ==
  ASSUME StackTyped, UNCHANGED <<setting, stackVars>>
  PROVE  StackTyped' /\ Keeps
BY NothingReported DEF StackTyped, stackVars, linkVars, Keeps

(* An error return leaves the call, or only the step where it is ignored.  *)
LEMMA Returned ==
  ASSUME NEW t, Return(t)
  PROVE  Popped(t) \/ (Moved(t, <<>>) /\ Step(t) \in Ignored)
BY DEF Return, Popped, Moved, Into, Pushed, Rest

LEMMA Proceeded ==
  ASSUME NEW t, NEW s, Proceed(t, s)
  PROVE  Moved(t, s)
BY DEF Proceed, Moved, Into, Pushed, Rest

LEMMA PlainFilling ==
  ASSUME NEW step, step \notin {"DiscoveryStop", "DiscoveryConfig", "DisableCe", "EeGetInfo"}
  PROVE  Filling(step) = {<<>>}
BY DEF Filling

LEMMA SpecialSteps ==
  /\ {"DiscoveryStop", "DiscoveryConfig", "DisableCe", "EeGetInfo", "EeStatus", "SaveLlcpInit",
      "Flush", "ClearAnalog", "ClearCe", "SaveConfig", "SetStarted", "CheckActive",
      "CheckData", "IsNdef", "SaveConn", "SaveClSap", "SendLast"} \cup Eots \cup Pulls
       \subseteq Steps \ DOMAIN Reply
  /\ Ignored \subseteq DOMAIN Reply \ {"Connect"}
  /\ {"Receive"} \cup P2pCommands \cup LinkCommands \subseteq DOMAIN Reply
BY DEF Steps, Reply, Ignored, P2pCommands, LinkCommands, Eots, Pulls

LEMMA Fails ==
  ASSUME NEW t, Return(t), Keeps, Step(t) # "DiscoveryStop",
         at[t] = "run" => Step(t) \in Immediate
  PROVE  Goes(t)
<1>1. Step(t) \in Ignored => Filling(Step(t)) = {<<>>} /\ Step(t) # "Connect"
  BY SpecialSteps, PlainFilling
<1> QED BY <1>1, Returned DEF Goes

LEMMA GoesOn ==
  ASSUME NEW t, Proceed(t, <<>>), Keeps,
         Step(t) \notin {"DiscoveryStop", "DiscoveryConfig", "DisableCe", "EeGetInfo"},
         at[t] = "run" => Step(t) \in Immediate,
         Step(t) = "Connect" => sLastQueueData' \in Handles
  PROVE  Goes(t)
BY Proceeded, PlainFilling DEF Goes
LEMMA IssueEffect ==
  ASSUME StackAssumption, Typed, UNCHANGED setting, NEW t \in Threads, Issue(t)
  PROVE  StackTyped' /\ CallEffect(t) /\ MwEffect(t)
<1>1. Entered(t) /\ Busy(t) /\ at[t] = "run" /\ UNCHANGED sLastQueueData
  BY DEF Issue, Enter, Entered, queueVars
<1>2. ASSUME Accept(Step(t)) PROVE StackTyped' /\ Commands(t)
  BY <1>1, <1>2, AcceptStep DEF Typed, Commands
<1>3. ASSUME Step(t) \in MayRefuse, UNCHANGED stackVars PROVE StackTyped' /\ Waits(t)
  BY <1>1, <1>3, StackKept DEF Typed, Waits
<1>4. MwEffect(t)
  BY DEF Issue, MwEffect, queueVars
<1> QED BY <1>1, <1>2, <1>3, <1>4 DEF Issue, CallEffect

LEMMA IssueP2pEffect ==
  ASSUME StackAssumption, Typed, UNCHANGED setting, NEW t \in Threads, IssueP2p(t)
  PROVE  StackTyped' /\ CallEffect(t) /\ MwEffect(t)
<1>1. /\ Busy(t) /\ at[t] = "run" /\ UNCHANGED sLastQueueData /\ Step(t) \in Immediate
      /\ Step(t) \in DOMAIN Reply /\ Step(t) # "DiscoveryStop"
  BY SpecialSteps DEF IssueP2p, queueVars, Immediate
<1>2. ASSUME Accept(Step(t)), Enter(t, "wait") PROVE StackTyped' /\ Commands(t)
  BY <1>1, <1>2, AcceptStep DEF Typed, Commands, Enter, Entered
<1>3. ASSUME UNCHANGED stackVars, Return(t) PROVE StackTyped' /\ Goes(t)
  BY <1>1, <1>3, StackKept, Fails DEF Typed
<1>4. MwEffect(t)
  BY DEF IssueP2p, MwEffect, queueVars, mwVars, Typed, MwTyped
<1> QED BY <1>1, <1>2, <1>3, <1>4 DEF IssueP2p, CallEffect

LEMMA IssueLlcpEffect ==
  ASSUME StackAssumption, Typed, UNCHANGED setting, NEW t \in Threads, NEW h, NEW sap,
         IssueLlcp(t, h, sap)
  PROVE  StackTyped' /\ CallEffect(t) /\ MwEffect(t)
<1>1. /\ Busy(t) /\ at[t] = "run" /\ UNCHANGED sLastQueueData /\ Step(t) \in LinkCommands
      /\ Step(t) \in Immediate /\ Step(t) \in DOMAIN Reply
      /\ Step(t) \notin {"DiscoveryStop", "DiscoveryConfig", "DisableCe", "EeGetInfo"}
  BY SpecialSteps DEF IssueLlcp, queueVars, Immediate
<1>2. ASSUME AcceptOnLink(Step(t), h) PROVE StackTyped' /\ Keeps
  BY <1>2, AcceptOnLinkStep DEF Typed
<1>3. ASSUME AcceptOnLink(Step(t), h), Reply[Step(t)] = "none", Proceed(t, <<>>)
      PROVE  StackTyped' /\ Goes(t)
  <2>1. Step(t) # "Connect"
    BY <1>3 DEF Reply
  <2> QED BY <1>1, <1>2, <1>3, <2>1, GoesOn
<1>4. ASSUME AcceptOnLink(Step(t), h), Enter(t, "wait") PROVE StackTyped' /\ Waits(t)
  BY <1>1, <1>2, <1>4 DEF Waits, Enter, Entered
<1>5. ASSUME UNCHANGED stackVars, Return(t) PROVE StackTyped' /\ Goes(t)
  BY <1>1, <1>5, StackKept, Fails DEF Typed
<1>6. MwEffect(t)
  BY DEF IssueLlcp, MwEffect, queueVars, mwVars, Typed, MwTyped
<1>7. StackTyped' /\ (Goes(t) \/ Waits(t))
  BY <1>3, <1>4, <1>5 DEF IssueLlcp
<1> QED BY <1>1, <1>6, <1>7 DEF CallEffect

LEMMA NotDone ==
  ASSUME ControlTyped, NEW t \in Threads, Busy(t), at[t] # "run"
  PROVE  Step(t) \notin {"DiscoveryStop", "DiscoveryConfig", "DisableCe", "EeGetInfo"}
BY SpecialSteps DEF ControlTyped, CallsTyped

LEMMA CheckEffect ==
  ASSUME Typed, UNCHANGED setting, NEW t \in Threads, Check(t)
  PROVE  StackTyped' /\ CallEffect(t) /\ MwEffect(t)
<1>1. /\ Busy(t) /\ at[t] # "run" /\ UNCHANGED sLastQueueData
      /\ Step(t) \notin {"DiscoveryStop", "DiscoveryConfig", "DisableCe", "EeGetInfo"}
      /\ Step(t) \in DOMAIN Reply
  BY NotDone DEF Check, queueVars, Typed, ControlTyped, CallsTyped
<1>2. StackTyped' /\ Keeps
  BY StackKept DEF Check, Typed
<1>3. ASSUME Return(t) PROVE Goes(t)
  BY <1>1, <1>2, <1>3, Fails
<1>4. ASSUME Reply[Step(t)] = "none", Proceed(t, <<>>) PROVE Goes(t)
  <2>1. Step(t) # "Connect" BY <1>4 DEF Reply
  <2> QED BY <1>1, <1>2, <1>4, <2>1, GoesOn
<1>5. ASSUME Enter(t, "wait") PROVE Waits(t)
  BY <1>1, <1>2, <1>5 DEF Waits, Enter, Entered
<1>6. MwEffect(t)
  BY DEF Check, MwEffect, queueVars, mwVars, Typed, MwTyped
<1>7. Goes(t) \/ Waits(t)
  BY <1>3, <1>4, <1>5 DEF Check
<1> QED BY <1>1, <1>2, <1>6, <1>7 DEF CallEffect

LEMMA WaitPullEffect ==
  ASSUME Typed, UNCHANGED setting, NEW t \in Threads, WaitPull(t)
  PROVE  StackTyped' /\ CallEffect(t) /\ MwEffect(t)
<1> DEFINE e == Head(mwQueue)
<1>1. /\ Busy(t) /\ at[t] = "wait" /\ mwQueue # <<>> /\ mwQueue' = Tail(mwQueue)
      /\ Step(t) \notin {"DiscoveryStop", "DiscoveryConfig", "DisableCe", "EeGetInfo"}
      /\ Step(t) \in DOMAIN Reply
  BY NotDone DEF WaitPull, Typed, ControlTyped, CallsTyped
<1>2. StackTyped' /\ Keeps
  BY StackKept DEF WaitPull, Typed
<1>3. e \in MwEvents
  BY <1>1, HeadTailProperties DEF Typed, MwTyped
<1> HIDE DEF e
<1>4. /\ \/ e.type = Reply[Step(t)] /\ Proceed(t, <<>>) /\ sLastQueueData' = e.detail
         \/ Return(t) /\ UNCHANGED sLastQueueData
         \/ UNCHANGED <<threadVars, sLastQueueData>>
      /\ UNCHANGED <<stackVars, mwVars, dtaQueue, cb>>
  BY DEF WaitPull, e
<1>5. ASSUME e.type = Reply[Step(t)], Proceed(t, <<>>), sLastQueueData' = e.detail
      PROVE  Goes(t)
  <2>1. ASSUME Step(t) = "Connect" PROVE sLastQueueData' \in Handles
    <3>1. e.type = "CONNECTED" BY <1>5, <2>1 DEF Reply
    <3> QED BY <1>3, <1>5, <3>1 DEF MwEvents
  <2> QED BY <1>1, <1>2, <1>5, <2>1, GoesOn
<1>6. ASSUME Return(t) PROVE Goes(t)
  BY <1>1, <1>2, <1>6, Fails
<1>7. ASSUME UNCHANGED <<threadVars, sLastQueueData>> PROVE Stays(t)
  BY <1>2, <1>7 DEF Stays, threadVars
<1>8. MwEffect(t)
  BY <1>1, <1>4 DEF MwEffect, mwVars, Typed, MwTyped, e
<1> QED BY <1>1, <1>2, <1>4, <1>5, <1>6, <1>7, <1>8 DEF CallEffect

LEMMA WaitTimeoutEffect ==
  ASSUME Typed, UNCHANGED setting, NEW t \in Threads, WaitTimeout(t)
  PROVE  StackTyped' /\ CallEffect(t) /\ MwEffect(t)
<1>1. /\ Busy(t) /\ at[t] # "run"
      /\ Step(t) \notin {"DiscoveryStop", "DiscoveryConfig", "DisableCe", "EeGetInfo"}
  BY NotDone DEF WaitTimeout, Typed
<1>2. StackTyped' /\ Keeps
  BY StackKept DEF WaitTimeout, Typed
<1>3. Goes(t)
  BY <1>1, <1>2, Fails DEF WaitTimeout
<1>4. MwEffect(t)
  BY DEF WaitTimeout, MwEffect, queueVars, mwVars, Typed, MwTyped
<1> QED BY <1>1, <1>2, <1>3, <1>4 DEF CallEffect

(* The steps that are no commands.                                         *)
LEMMA LocalStepEffect ==
  ASSUME Typed, UNCHANGED setting, NEW t \in Threads, NEW cfg,
         \/ SaveLlcpInit(t) \/ EeStatus(t) \/ ClearAnalog(t) \/ ClearCe(t)
         \/ SaveConfig(t, cfg) \/ SetStarted(t) \/ CheckActive(t) \/ CheckData(t) \/ IsNdef(t)
  PROVE  StackTyped' /\ CallEffect(t) /\ MwEffect(t)
<1> DEFINE Here == {"SaveLlcpInit", "EeStatus", "ClearAnalog", "ClearCe", "SaveConfig",
                    "SetStarted", "CheckActive", "CheckData", "IsNdef"}
<1>1. /\ Busy(t) /\ at[t] = "run" /\ Step(t) \in Here
      /\ UNCHANGED <<stackVars, queueVars, cb>>
      /\ Proceed(t, <<>>) \/ Return(t)
  BY DEF SaveLlcpInit, EeStatus, ClearAnalog, ClearCe, SaveConfig, SetStarted, CheckActive,
         CheckData, IsNdef, At
<1>2. Step(t) \in Immediate
      /\ Step(t) \notin {"DiscoveryStop", "DiscoveryConfig", "DisableCe", "EeGetInfo", "Connect"}
  BY <1>1, SpecialSteps DEF Immediate
<1>3. StackTyped' /\ Keeps
  BY <1>1, StackKept DEF Typed
<1>4. Goes(t)
  BY <1>1, <1>2, <1>3, GoesOn, Fails
<1>5. MwEffect(t)
  <2>1. /\ UNCHANGED eDeviceState \/ (At(t, "SetStarted") /\ eDeviceState' = "DISCOVERY_STARTED")
        /\ UNCHANGED <<gx_status, pvSemIntgrnThrd>>
    BY DEF SaveLlcpInit, EeStatus, ClearAnalog, ClearCe, SaveConfig, SetStarted, CheckActive,
           CheckData, IsNdef, mwVars
  <2> QED BY <1>1, <2>1 DEF MwEffect, queueVars, Typed, MwTyped
<1> QED BY <1>1, <1>3, <1>4, <1>5 DEF CallEffect

LEMMA ReceiveEffect ==
  ASSUME Typed, UNCHANGED setting, NEW t \in Threads, BeginReceive(t)
  PROVE  StackTyped' /\ CallEffect(t) /\ MwEffect(t)
<1>1. Busy(t) /\ at[t] = "run" /\ Step(t) = "Receive" /\ UNCHANGED sLastQueueData
  BY DEF BeginReceive, At, queueVars
<1>2. Step(t) \in DOMAIN Reply /\ Step(t) \in Immediate /\ Step(t) # "DiscoveryStop"
  BY <1>1, SpecialSteps DEF Immediate
<1>3. StackTyped' /\ Keeps
  BY StackKept DEF BeginReceive, Typed
<1>4. ASSUME Enter(t, "wait") PROVE Waits(t)
  BY <1>1, <1>2, <1>3, <1>4 DEF Waits, Enter, Entered
<1>5. ASSUME Return(t) PROVE Goes(t)
  BY <1>1, <1>2, <1>3, <1>5, Fails
<1>6. MwEffect(t)
  BY DEF BeginReceive, MwEffect, queueVars, mwVars, Typed, MwTyped
<1> QED BY <1>1, <1>3, <1>4, <1>5, <1>6 DEF BeginReceive, CallEffect

LEMMA ListenCommandsTyped ==
  ListenCommands \in Seq(ListenSteps) /\ UnlistenCommands \in Seq(ListenSteps)
<1>1. \A a, b \in ListenSteps : <<a, b>> \in Seq(ListenSteps) /\ <<a>> \in Seq(ListenSteps)
  OBVIOUS
<1>2. {"SetIsoDepListenTech", "RegisterAid", "ConfigureUiccListen",
       "ConfigureEseListen", "SetP2pListenTech", "DeregisterAid", "ClearCe"} \subseteq ListenSteps
  BY DEF ListenSteps
<1> DEFINE onHost == <<"SetIsoDepListenTech", "RegisterAid">>
           emulate == CASE sDiscCfg.ceType = "UICC_CE" -> <<"ConfigureUiccListen">>
                        [] sDiscCfg.ceType = "SE_CE" ->
                             IF blDiscAnalogMode THEN onHost ELSE <<"ConfigureEseListen">>
                        [] sDiscCfg.ceType = "HOST_CE" -> onHost
                        [] OTHER -> IF blDiscAnalogMode THEN onHost ELSE <<>>
           p2p == IF blDiscAnalogMode \/ ~sDiscCfg.enableCE
                  THEN <<"SetP2pListenTech">> ELSE <<>>
           ce == IF sDiscCfg.enableCE THEN emulate ELSE <<>>
<1>3. <<>> \in Seq(ListenSteps) /\ onHost \in Seq(ListenSteps)
  BY <1>1, <1>2
<1>4. emulate \in Seq(ListenSteps) /\ p2p \in Seq(ListenSteps)
  BY <1>1, <1>2, <1>3
<1>5. ce \in Seq(ListenSteps)
  BY <1>3, <1>4
<1>6. ListenCommands = p2p \o ce
  BY DEF ListenCommands
<1> HIDE DEF p2p, ce, emulate, onHost
<1>7. ListenCommands \in Seq(ListenSteps)
  BY <1>4, <1>5, <1>6, ConcatProperties
<1>8. UnlistenCommands \in Seq(ListenSteps)
  BY <1>1, <1>2 DEF UnlistenCommands
<1> QED BY <1>7, <1>8

LEMMA DiscoveryStopEffect ==
  ASSUME Typed, UNCHANGED setting, NEW t \in Threads,
         DiscoveryStop(t) \/ Flush(t) \/ Configure(t) \/ EeGetInfo(t)
  PROVE  StackTyped' /\ CallEffect(t) /\ MwEffect(t)
<1>1. Busy(t) /\ at[t] = "run" /\ UNCHANGED <<stackVars, sLastQueueData>>
      /\ Step(t) \in {"DiscoveryStop", "Flush", "DiscoveryConfig", "DisableCe", "EeGetInfo"}
  BY DEF DiscoveryStop, Flush, Configure, EeGetInfo, At, queueVars
<1>2. Step(t) \in Immediate /\ Step(t) # "Connect"
  BY <1>1, SpecialSteps DEF Immediate
<1>3. StackTyped' /\ Keeps
  BY <1>1, StackKept DEF Typed
<1>4. ASSUME DiscoveryStop(t) PROVE Goes(t)
  <2>1. PICK s \in Filling(Step(t)) : Proceed(t, s)
    BY <1>4 DEF DiscoveryStop, At, Filling
  <2> QED BY <1>2, <1>3, <2>1, Proceeded DEF Goes
<1>5. ASSUME Flush(t) PROVE Goes(t) \/ Stays(t)
  <2>1. Step(t) = "Flush" BY <1>5 DEF Flush, At
  <2>2. ASSUME Proceed(t, <<>>) PROVE Goes(t)
    BY <1>2, <1>3, <2>1, <2>2, GoesOn
  <2>3. ASSUME UNCHANGED threadVars PROVE Stays(t)
    BY <1>1, <1>3, <2>3 DEF Stays, threadVars
  <2> QED BY <1>5, <2>2, <2>3 DEF Flush
<1>6. ASSUME Configure(t) PROVE Goes(t)
  <2>1. PICK s \in Filling(Step(t)) : Proceed(t, s)
    <3>1. /\ Step(t) \in {"DiscoveryConfig", "DisableCe"}
          /\ Proceed(t, ListenCommands) \/ Proceed(t, UnlistenCommands)
      BY <1>6 DEF Configure, At
    <3> QED BY <3>1, ListenCommandsTyped DEF Filling
  <2> QED BY <1>2, <1>3, <2>1, Proceeded DEF Goes
<1>7. ASSUME EeGetInfo(t) PROVE Goes(t)
  <2>1. Step(t) = "EeGetInfo" BY <1>7 DEF EeGetInfo, At
  <2>2. ASSUME NEW s \in {<<>>, <<"EeModeSet">>}, Proceed(t, s) PROVE Goes(t)
    <3>1. s \in Filling(Step(t)) BY <2>1 DEF Filling
    <3> QED BY <1>2, <1>3, <2>2, <3>1, Proceeded DEF Goes
  <2>3. ASSUME Return(t) PROVE Goes(t)
    BY <1>2, <1>3, <2>1, <2>3, Fails
  <2> QED BY <1>7, <2>2, <2>3 DEF EeGetInfo
<1>8. MwEffect(t)
  BY DEF DiscoveryStop, Flush, Configure, EeGetInfo, MwEffect, queueVars, mwVars, Typed, MwTyped
<1> QED BY <1>1, <1>3, <1>4, <1>5, <1>6, <1>7, <1>8 DEF CallEffect

LEMMA CallStepEffect ==
  ASSUME StackAssumption, Typed, UNCHANGED setting, NEW t \in Threads, CallStep(t)
  PROVE  StackTyped' /\ CallEffect(t) /\ MwEffect(t)
<1> DEFINE cfg == IF t = "handler" THEN sPrevdiscCfgParams ELSE arg[t]
<1>1. CallStep(t) <=>
        Busy(t) /\
        \/ Issue(t) \/ IssueP2p(t) \/ Check(t) \/ WaitPull(t) \/ WaitTimeout(t)
        \/ BeginReceive(t)
        \/ DiscoveryStop(t) \/ Flush(t) \/ Configure(t) \/ EeGetInfo(t)
        \/ SaveLlcpInit(t) \/ EeStatus(t) \/ ClearAnalog(t) \/ ClearCe(t)
        \/ SaveConfig(t, cfg) \/ SetStarted(t) \/ CheckActive(t) \/ CheckData(t) \/ IsNdef(t)
  BY DEF CallStep
<1> HIDE DEF cfg
<1> QED BY <1>1, IssueEffect, IssueP2pEffect, CheckEffect, WaitPullEffect, WaitTimeoutEffect,
           ReceiveEffect, DiscoveryStopEffect, LocalStepEffect
-----------------------------------------------------------------------------
(* The calls keep their type and shape.                                    *)

LEMMA PushedFirst ==
  ASSUME NEW S, NEW c \in CallsOf(S), c # <<>>, Shape(c), NEW s \in Seq(S), MayReplace(s, c),
         Pushed(c, s) # <<>>
  PROVE  /\ Pushed(c, s)[1][1] = "SaveConn" => c[1][1] = "Connect" /\ Rest(c, s) # <<>>
         /\ Pushed(c, s)[1][1] = "SetStarted" => c[1][1] = "StartRfDiscovery" /\ Rest(c, s) # <<>>
<1> DEFINE d == Rest(c, s)
<1>1. CASE d = <<>>
  <2>1. Pushed(c, s) = Tail(c) /\ Tail(c) \in CallsOf(S) /\ Len(Tail(c)) = Len(c) - 1
        /\ \A i \in 1 .. Len(c) - 1 : Tail(c)[i] = c[i + 1]
    BY <1>1, TailFacts DEF Pushed
  <2>2. Len(c) \in Nat /\ Len(Tail(c)) > 0
    BY <2>1, CallFacts
  <2>3. Tail(c)[1] = c[2] /\ 2 \in 2 .. Len(c)
    BY <2>1, <2>2
  <2> QED BY <2>1, <2>3 DEF Shape
<1>2. CASE d # <<>>
  <2>1. Len(c[1]) \in Nat \ {0} /\ Len(c) \in Nat /\ Len(c) > 0
    BY CallFacts
  <2>2. /\ d \in Seq(S) /\ Len(s) \in Nat /\ Len(d) = Len(s) + Len(c[1]) - 1
        /\ \A j \in 1 .. Len(s) : d[j] = s[j]
        /\ \A j \in Len(s) + 1 .. Len(s) + Len(c[1]) - 1 : d[j] = c[1][j - Len(s) + 1]
    <3>1. d \in Seq(S) /\ RestIs(d, c, s) BY RestFacts
    <3> QED BY <3>1 DEF RestIs
  <2>3. Len(d) > 0
    BY <1>2, <2>1, <2>2, EmptySeq
  <2>4. Tail(c) \in CallsOf(S)
    BY TailFacts
  <2>5. Pushed(c, s)[1] = d
    BY <1>2, <2>2, <2>4, ConsFacts DEF Pushed
  <2> HIDE DEF d
  <2>6. CASE Len(s) > 0
    <3>1. 1 \in 1 .. Len(s) /\ d[1] = s[1] BY <2>2, <2>6
    <3> QED BY <2>5, <3>1 DEF MayReplace
  <2>7. CASE Len(s) = 0
    <3>1. d[1] = c[1][2] /\ 1 \in 1 .. Len(c[1]) - 1 BY <2>1, <2>2, <2>3, <2>7
    <3>2. Follows(c[1])
      <4>1. 1 \in 1 .. Len(c) BY <2>1
      <4> QED BY <4>1 DEF Shape
    <3> QED BY <1>2, <2>5, <3>1, <3>2 DEF Follows, d
  <2> QED BY <2>2, <2>6, <2>7
<1> QED BY <1>1, <1>2

LEMMA TailFirst ==
  ASSUME NEW S, NEW c \in CallsOf(S), c # <<>>, Shape(c), Tail(c) # <<>>
  PROVE  Tail(c)[1][1] \notin {"SaveConn", "SetStarted"}
<1>1. Tail(c) \in CallsOf(S) /\ Len(Tail(c)) = Len(c) - 1
      /\ \A i \in 1 .. Len(c) - 1 : Tail(c)[i] = c[i + 1]
  BY TailFacts
<1>2. Len(c) \in Nat /\ Len(Tail(c)) > 0
  BY <1>1, CallFacts
<1>3. Tail(c)[1] = c[2] /\ 2 \in 2 .. Len(c)
  BY <1>1, <1>2
<1> QED BY <1>3 DEF Shape

(* What a thread's calls are set to.                                       *)
LEMMA CallsSet ==
  ASSUME DtaAssumption, CallsTyped, NEW t \in Threads, NEW c \in CallsOf(StepsOf(t)),
         t = "handler" => Shape(c),
         calls' = [calls EXCEPT ![t] = c],
         at' = [at EXCEPT ![t] = "run"] \/ (UNCHANGED at /\ at[t] = "run")
  PROVE  CallsTyped'
<1>1. c \in CallsOf(Steps)
  BY StepsOfThread, SeqMonotonic DEF CallsOf
<1>2. calls' \in [Threads -> CallsOf(Steps)] /\ at' \in [Threads -> {"run", "check", "wait"}]
  BY <1>1 DEF CallsTyped
<1>3. ASSUME NEW u \in Threads
      PROVE  /\ calls'[u] \in CallsOf(StepsOf(u))
             /\ at'[u] # "run" => Busy(u)' /\ Step(u)' \in DOMAIN Reply
  <2>1. CASE u = t
    BY <2>1 DEF CallsTyped
  <2>2. CASE u # t
    <3>1. calls'[u] = calls[u] /\ at'[u] = at[u] BY <2>2 DEF CallsTyped
    <3> QED BY <3>1 DEF CallsTyped, Busy, Step
  <2> QED BY <2>1, <2>2
<1>4. Shape(calls'["handler"])
  <2>1. "handler" \in Threads BY DEF DtaAssumption
  <2> QED BY <2>1 DEF CallsTyped
<1> QED BY <1>2, <1>3, <1>4 DEF CallsTyped

LEMMA CallsEntered ==
  ASSUME CallsTyped, NEW t \in Threads, Busy(t), Entered(t)
  PROVE  CallsTyped'
<1>1. at' \in [Threads -> {"run", "check", "wait"}]
  BY DEF CallsTyped, Entered
<1>2. ASSUME NEW u \in Threads
      PROVE  at'[u] # "run" => Busy(u)' /\ Step(u)' \in DOMAIN Reply
  <2>1. u # t => at'[u] = at[u] BY DEF CallsTyped, Entered
  <2> QED BY <2>1 DEF CallsTyped, Entered, Busy, Step
<1> QED BY <1>1, <1>2 DEF CallsTyped, Entered

LEMMA FillingFits ==
  ASSUME NEW t, NEW c, c[1][1] \in StepsOf(t), NEW s \in Filling(c[1][1])
  PROVE  s \in Seq(StepsOf(t)) /\ MayReplace(s, c)
<1>1. CASE c[1][1] = "DiscoveryStop"
  <2>1. s \in { <<"Flush">>, <<"StopRfDiscovery">> }
    BY <1>1 DEF Filling
  <2>2. \E x \in {"Flush", "StopRfDiscovery"} : s = <<x>>
    BY <2>1
  <2>3. PICK x \in {"Flush", "StopRfDiscovery"} : s = <<x>>
    BY <2>2
  <2>4. x \in StepsOf(t) /\ x \notin {"SaveConn", "SetStarted"} \cup Eots \cup Pulls
    BY DEF StepsOf, DiscoverySteps, Eots, Pulls
  <2>5. Len(s) = 1 /\ s[1] = x /\ s \in Seq(StepsOf(t))
    BY <2>3, <2>4
  <2> QED BY <1>1, <2>4, <2>5 DEF MayReplace, Stops
<1>2. CASE c[1][1] \in {"DiscoveryConfig", "DisableCe"}
  <2>1. s \in Seq(ListenSteps)
    BY <1>2 DEF Filling
  <2>2. \A j \in 1 .. Len(s) : s[j] \in ListenSteps
    BY <2>1
  <2>3. ListenSteps \subseteq StepsOf(t)
    BY DEF StepsOf, DiscoverySteps
  <2>4. s \in Seq(StepsOf(t))
    BY <2>1, <2>3, SeqMonotonic
  <2> QED BY <1>2, <2>2, <2>4 DEF MayReplace, ListenSteps, Eots, Pulls, Stops
<1>3. CASE c[1][1] = "EeGetInfo"
  <2>1. s \in {<<>>, <<"EeModeSet">>}
    BY <1>3 DEF Filling
  <2>2. "EeModeSet" \in StepsOf(t)
    BY <1>3 DEF StepsOf, DiscoverySteps, ListenSteps, TestSteps, LinkSteps, SetUpSteps, Eots, Pulls
  <2>3. s \in Seq(StepsOf(t))
    <3> DEFINE S == StepsOf(t)
    <3>1. "EeModeSet" \in S BY <2>2
    <3> HIDE DEF S
    <3>2. <<>> \in Seq(S) /\ <<"EeModeSet">> \in Seq(S) BY <3>1
    <3> QED BY <2>1, <3>2 DEF S
  <2>4. \A j \in 1 .. Len(s) : s[j] = "EeModeSet"
    BY <2>1
  <2> QED BY <1>3, <2>3, <2>4 DEF MayReplace, Eots, Pulls, Stops
<1>4. CASE c[1][1] \notin {"DiscoveryStop", "DiscoveryConfig", "DisableCe", "EeGetInfo"}
  <2>1. s = <<>>
    BY <1>4, PlainFilling
  <2> QED BY <2>1 DEF MayReplace
<1> QED BY <1>1, <1>2, <1>3, <1>4

LEMMA CallsMoved ==
  ASSUME DtaAssumption, ControlTyped, NEW t \in Threads, Busy(t), NEW s \in Seq(StepsOf(t)),
         MayReplace(s, calls[t]), Moved(t, s)
  PROVE  CallsTyped'
<1>1. calls[t] \in CallsOf(StepsOf(t)) /\ calls[t] # <<>>
  BY StepIs
<1>2. Pushed(calls[t], s) \in CallsOf(StepsOf(t))
  BY <1>1, PushedTyped
<1>3. t = "handler" => Shape(Pushed(calls[t], s))
  BY <1>1, PushedShape DEF ControlTyped, CallsTyped
<1>4. CallsTyped
  BY DEF ControlTyped
<1>5. calls' = [calls EXCEPT ![t] = Pushed(calls[t], s)] /\ at' = [at EXCEPT ![t] = "run"]
  BY DEF Moved
<1> QED BY <1>2, <1>3, <1>4, <1>5, CallsSet

LEMMA CallsPopped ==
  ASSUME DtaAssumption, ControlTyped, NEW t \in Threads, Busy(t), Popped(t)
  PROVE  CallsTyped'
<1>1. calls[t] \in CallsOf(StepsOf(t)) /\ calls[t] # <<>>
  BY StepIs
<1>2. Tail(calls[t]) \in CallsOf(StepsOf(t))
  BY <1>1, TailFacts
<1>3. t = "handler" => Shape(Tail(calls[t]))
  BY <1>1, TailShape DEF ControlTyped, CallsTyped
<1>4. CallsTyped
  BY DEF ControlTyped
<1>5. calls' = [calls EXCEPT ![t] = Tail(calls[t])] /\ at' = [at EXCEPT ![t] = "run"]
  BY DEF Popped
<1> QED BY <1>2, <1>3, <1>4, <1>5, CallsSet

LEMMA CallEffectCalls ==
  ASSUME DtaAssumption, ControlTyped, NEW t \in Threads, CallEffect(t)
  PROVE  CallsTyped'
<1>1. Busy(t)
  BY DEF CallEffect
<1>2. ASSUME Stays(t) PROVE CallsTyped'
  BY <1>2 DEF Stays, ControlTyped, CallsTyped, Busy, Step
<1>3. ASSUME Entered(t) PROVE CallsTyped'
  BY <1>1, <1>3, CallsEntered DEF ControlTyped
<1>4. ASSUME Goes(t) PROVE CallsTyped'
  <2>1. CASE Popped(t)
    BY <1>1, <2>1, CallsPopped
  <2>2. ASSUME NEW s \in Filling(Step(t)), Moved(t, s) PROVE CallsTyped'
    <3>1. Step(t) = calls[t][1][1] /\ Step(t) \in StepsOf(t)
      BY <1>1, StepIs
    <3>2. s \in Seq(StepsOf(t)) /\ MayReplace(s, calls[t])
      BY <3>1, FillingFits
    <3> QED BY <1>1, <2>2, <3>2, CallsMoved
  <2> QED BY <1>4, <2>1, <2>2 DEF Goes
<1> QED BY <1>2, <1>3, <1>4 DEF CallEffect, Commands, Waits

(* Only the handler waits for a connection or a service.                   *)
LEMMA OthersWait ==
  ASSUME NEW t, t # "handler", NEW c \in StepsOf(t) \cap DOMAIN Reply
  PROVE  Reply[c] \notin {"CONNECTED", "SDP"}
BY DEF StepsOf, DiscoverySteps, ListenSteps, SetUpSteps, Reply

LEMMA QueueLengths ==
  ASSUME MwIfAssumption, StackTyped
  PROVE  MwQLength \in Nat \ {0} /\ DtaQLength \in Nat \ {0}
BY DEF MwIfAssumption, StackTyped, MwQLength, DtaQLength

LEMMA MwEffectTyped ==
  ASSUME MwIfAssumption, StackTyped, MwTyped, UNCHANGED setting, NEW t, MwEffect(t)
  PROVE  MwTyped'
<1>1. eDeviceState' \in {"IDLE", "DISCOVERY_STARTED", "POLL_ACTIVE"} /\ gx_status' \in {"OK", "FAILED"}
  BY DEF MwTyped, MwEffect
<1>2. MwQLength' = MwQLength /\ DtaQLength' = DtaQLength /\ MwQLength \in Nat
  BY QueueLengths DEF MwQLength, DtaQLength
<1>3. CASE UNCHANGED mwQueue /\ UNCHANGED sLastQueueData
  BY <1>1, <1>2, <1>3 DEF MwTyped, MwEffect
<1>4. CASE mwQueue # <<>>
  <2>1. /\ Head(mwQueue) \in MwEvents /\ Tail(mwQueue) \in Seq(MwEvents)
        /\ Len(Tail(mwQueue)) = Len(mwQueue) - 1 /\ Len(mwQueue) \in Nat
    BY <1>4, HeadTailProperties, LenProperties DEF MwTyped
  <2>2. Head(mwQueue).detail \in Handles \cup {"none", "sap"}
    BY <2>1 DEF MwEvents
  <2>3. mwQueue' \in Seq(MwEvents) /\ (mwQueue' = mwQueue \/ Len(mwQueue') = Len(mwQueue) - 1)
    BY <2>1 DEF MwEffect, MwTyped
  <2>4. sLastQueueData' \in Handles \cup {"none", "sap"}
    BY <2>2 DEF MwEffect, MwTyped
  <2>5. UNCHANGED <<dtaQueue, cb>>
    BY DEF MwEffect
  <2>6. Len(mwQueue') <= MwQLength'
    <3>1. Len(mwQueue) <= MwQLength BY DEF MwTyped
    <3>2. Len(mwQueue') = Len(mwQueue) \/ Len(mwQueue') = Len(mwQueue) - 1 BY <2>3
    <3> DEFINE n == Len(mwQueue)
               m == MwQLength
    <3>3. n \in Nat /\ m \in Nat /\ n <= m BY <1>2, <2>1, <3>1
    <3>4. Len(mwQueue') \in {n, n - 1} BY <3>2
    <3> HIDE DEF n, m
    <3>5. Len(mwQueue') <= m BY <3>3, <3>4
    <3> QED BY <1>2, <3>5 DEF m
  <2>7. /\ dtaQueue' \in Seq(DtaEvents) /\ Len(dtaQueue') <= DtaQLength'
        /\ cb' \in [ev : Events \cup {NoEvent}, todo : Todos]
    BY <1>2, <2>5 DEF MwTyped
  <2> QED BY <1>1, <2>3, <2>4, <2>6, <2>7 DEF MwTyped
<1> QED BY <1>3, <1>4 DEF MwEffect

LEMMA CallEffectHandle ==
  ASSUME DtaAssumption, ControlTyped, MwTyped, NEW t \in Threads, CallEffect(t), MwEffect(t)
  PROVE  HandleKnown'
<1>0. Busy(t) /\ "handler" \in Threads
  BY DEF CallEffect, DtaAssumption
<1>1. CASE t = "handler"
  <2> DEFINE c == calls["handler"]
             c1 == calls'["handler"]
  <2>1. /\ c \in CallsOf(StepsOf(t)) /\ c # <<>> /\ Shape(c)
        /\ Step(t) = c[1][1] /\ Step(t) \in StepsOf(t)
    BY <1>0, <1>1, StepIs DEF ControlTyped, CallsTyped
  <2>2. CASE UNCHANGED <<calls, sLastQueueData>>
    BY <2>2 DEF ControlTyped, HandleKnown, Busy, Step
  <2>3. CASE Popped(t)
    <3>1. c1 = Tail(c)
      BY <1>0, <1>1, <2>3 DEF Popped, ControlTyped, CallsTyped
    <3>2. Tail(c) \in CallsOf(StepsOf(t))
      BY <2>1, TailFacts
    <3>3. Tail(c) # <<>> => Head(Head(Tail(c))) = Tail(c)[1][1]
      BY <3>2, CallFacts
    <3> QED BY <2>1, <3>1, <3>3, TailFirst DEF HandleKnown, Busy, Step
  <2>4. ASSUME NEW s \in Filling(Step(t)), Moved(t, s),
               Step(t) = "Connect" => sLastQueueData' \in Handles
        PROVE  HandleKnown'
    <3>1. s \in Seq(StepsOf(t)) /\ MayReplace(s, c)
      BY <2>1, FillingFits
    <3>2. c1 = Pushed(c, s)
      BY <1>0, <1>1, <2>4 DEF Moved, ControlTyped, CallsTyped
    <3>3. Pushed(c, s) \in CallsOf(StepsOf(t))
      BY <2>1, <3>1, PushedTyped
    <3>4. Pushed(c, s) # <<>> => Head(Head(Pushed(c, s))) = Pushed(c, s)[1][1]
      BY <3>3, CallFacts
    <3>5. Pushed(c, s) # <<>> /\ Pushed(c, s)[1][1] = "SaveConn" => c[1][1] = "Connect"
      BY <2>1, <3>1, PushedFirst
    <3> HIDE DEF c
    <3> QED BY <2>1, <2>4, <3>2, <3>4, <3>5 DEF HandleKnown, Busy, Step
  <2> QED BY <2>2, <2>3, <2>4 DEF CallEffect, Stays, Commands, Waits, Goes, Entered
<1>2. CASE t # "handler"
  <2>1. calls'["handler"] = calls["handler"]
    BY <1>0, <1>2 DEF CallEffect, Stays, Commands, Waits, Goes, Entered, Popped, Moved,
                     ControlTyped, CallsTyped
  <2>2. CASE UNCHANGED sLastQueueData
    BY <2>1, <2>2 DEF ControlTyped, HandleKnown, Busy, Step
  <2>3. ASSUME mwQueue # <<>>, at[t] = "wait", Head(mwQueue).type = Reply[Step(t)],
               sLastQueueData' = Head(mwQueue).detail
        PROVE  HandleKnown'
    <3>1. Head(mwQueue) \in MwEvents
      BY <2>3, HeadTailProperties DEF MwTyped
    <3>2. Step(t) \in StepsOf(t) /\ Step(t) \in DOMAIN Reply
      BY <1>0, <2>3, StepIs DEF ControlTyped, CallsTyped
    <3>3. Head(mwQueue).type \notin {"CONNECTED", "SDP"}
      BY <1>2, <2>3, <3>2, OthersWait
    <3>4. sLastQueueData' = "none"
      BY <2>3, <3>1, <3>3 DEF MwEvents
    <3> QED BY <3>4 DEF HandleKnown
  <2> QED BY <2>2, <2>3 DEF MwEffect
<1> QED BY <1>1, <1>2

LEMMA CallTyped ==
  ASSUME MwIfAssumption, DtaAssumption, Typed, UNCHANGED <<setting, llcpTestVars>>, NEW t \in Threads,
         StackTyped', CallEffect(t), MwEffect(t)
  PROVE  Typed'
BY CallEffectCalls, CallEffectHandle, MwEffectTyped DEF Typed, ControlTyped, DtaTyped, llcpTestVars

-----------------------------------------------------------------------------
(* The rounds the handler begins.                                          *)

LEMMA RepeatTyped ==
  ASSUME NEW S, NEW s \in Seq(S), s # <<>>, NEW n \in Nat
  PROVE  /\ Repeat(s, n) \in Seq(S) /\ Len(Repeat(s, n)) = n * Len(s) /\ n * Len(s) \in Nat
<1> DEFINE k == Len(s)
           m == n * k
<1>1. k \in Nat \ {0} /\ DOMAIN s = 1 .. k
  BY LenProperties, EmptySeq
<1>2. \A j \in 1 .. k : s[j] \in S
  BY <1>1, ElementOfSeq
<1>3. m \in Nat
  BY <1>1
<1> HIDE DEF k, m
<1>4. ASSUME NEW i \in 1 .. m PROVE ((i - 1) % k) + 1 \in 1 .. k
  <2>1. i - 1 \in Nat BY <1>3
  <2>2. (i - 1) % k \in 0 .. k - 1 BY <1>1, <2>1
  <2> QED BY <1>1, <2>2
<1>5. Repeat(s, n) = [i \in 1 .. m |-> s[((i - 1) % k) + 1]]
  BY DEF Repeat, m, k
<1>6. Repeat(s, n) \in [1 .. m -> S]
  BY <1>2, <1>4, <1>5
<1>7. Repeat(s, n) \in Seq(S) /\ Len(Repeat(s, n)) = m
  BY <1>3, <1>5, <1>6, IsASeq, LenProperties
<1> QED BY <1>3, <1>7 DEF m, k

LEMMA Tuples ==
  ASSUME NEW S
  PROVE  /\ <<>> \in Seq(S)
         /\ \A a \in S : <<a>> \in Seq(S) /\ <<a>> # <<>>
         /\ \A a, b \in S : <<a, b>> \in Seq(S) /\ <<a, b>> # <<>>
         /\ \A a, b, c \in S : <<a, b, c>> \in Seq(S) /\ <<a, b, c>> # <<>>
         /\ \A a, b, c, d \in S : <<a, b, c, d>> \in Seq(S) /\ <<a, b, c, d>> # <<>>
OBVIOUS

LEMMA OneCall ==
  ASSUME NEW S, NEW d \in Seq(S), d # <<>>
  PROVE  << d >> \in CallsOf(S) /\ Len(<< d >>) = 1 /\ << d >>[1] = d
<1> DEFINE T == Seq(S) \ {<<>>}
<1>1. d \in T OBVIOUS
<1> HIDE DEF T
<1>2. << d >> \in Seq(T) BY <1>1
<1> QED BY <1>2 DEF CallsOf, T

LEMMA TwoCalls ==
  ASSUME NEW S, NEW c \in CallsOf(S), NEW b \in CallsOf(S)
  PROVE  c \o b \in CallsOf(S)
BY ConcatProperties DEF CallsOf

LEMMA ConcatNotEmpty ==
  ASSUME NEW S, NEW d \in Seq(S), NEW e \in Seq(S), d # <<>>
  PROVE  d \o e \in Seq(S) /\ d \o e # <<>>
<1>1. Len(d) \in Nat /\ Len(d) # 0 /\ Len(e) \in Nat
  BY LenProperties, EmptySeq
<1>2. d \o e \in Seq(S) /\ Len(d \o e) = Len(d) + Len(e)
  BY ConcatProperties
<1>3. Len(d \o e) # 0
  BY <1>1, <1>2
<1> QED BY <1>2, <1>3, EmptySeq

LEMMA TestTuples ==
  /\ Transceive \in Seq(AwakeSteps) /\ Receive \in Seq(AwakeSteps)
  /\ Transceive # <<>> /\ Receive # <<>>
<1> DEFINE S == AwakeSteps
<1>1. {"CheckActive", "SendRawFrame", "Receive", "CheckData"} \subseteq S
  BY DEF AwakeSteps, TestSteps
<1> HIDE DEF S
<1>2. Receive \in Seq(S) /\ <<"CheckActive", "SendRawFrame">> \in Seq(S)
      /\ Receive # <<>> /\ <<"CheckActive", "SendRawFrame">> # <<>>
  BY <1>1 DEF Receive
<1>3. Transceive \in Seq(S) /\ Transceive # <<>>
  BY <1>2, ConcatNotEmpty DEF Transceive
<1> QED BY <1>2, <1>3 DEF S

LEMMA ExchangesTyped ==
  ASSUME NEW n \in Nat
  PROVE  Exchanges(n) \in Seq(AwakeSteps) /\ (n > 0 => Exchanges(n) # <<>>)
<1> DEFINE k == Len(Transceive)
<1>1. k \in Nat \ {0}
  BY TestTuples, LenProperties, EmptySeq
<1>2. Exchanges(n) \in Seq(AwakeSteps) /\ Len(Exchanges(n)) = n * k
  BY TestTuples, RepeatTyped DEF Exchanges
<1> HIDE DEF k
<1>3. n > 0 => n * k # 0
  BY <1>1
<1> QED BY <1>2, <1>3, EmptySeq

LEMMA LoopBackTyped ==
  ASSUME DtaAssumption, StackTyped,
         NEW eot \in {<<"MayEot">>, <<"MayEot1", "MayEot">>}
  PROVE  LoopBack(eot) \in CallsOf(AwakeSteps)
<1> DEFINE S == AwakeSteps
<1>1. MaxLoopBack - 1 \in Nat
  <2>1. MaxLoopBack \in Nat \ {0} BY DEF DtaAssumption, StackTyped, MaxLoopBack
  <2> QED BY <2>1
<1>2. {"MayEot", "MayEot1", "Eot"} \subseteq S
  BY DEF AwakeSteps, TestSteps, Eots
<1>3. Transceive \in Seq(S) /\ Transceive # <<>>
  BY TestTuples
<1> HIDE DEF S
<1>4. eot \in Seq(S) /\ <<"Eot">> \in Seq(S) /\ <<"Eot">> # <<>>
  <2>1. "MayEot" \in S /\ "MayEot1" \in S /\ "Eot" \in S BY <1>2
  <2>2. <<"MayEot">> \in Seq(S) BY <2>1
  <2>3. <<"MayEot1", "MayEot">> \in Seq(S) BY <2>1
  <2>4. <<"Eot">> \in Seq(S) /\ <<"Eot">> # <<>> BY <2>1
  <2> QED BY <2>2, <2>3, <2>4
<1>5. Transceive \o eot \in Seq(S) /\ Transceive \o eot # <<>>
  BY <1>3, <1>4, ConcatNotEmpty
<1>6. Repeat(Transceive \o eot, MaxLoopBack - 1) \in Seq(S)
  BY <1>1, <1>5, RepeatTyped
<1>7. Transceive \o <<"Eot">> \in Seq(S) /\ Transceive \o <<"Eot">> # <<>>
  BY <1>3, <1>4, ConcatNotEmpty
<1> DEFINE a == Repeat(Transceive \o eot, MaxLoopBack - 1)
           b == <<"Eot">>
<1>8. a \o Transceive \in Seq(S)
  BY <1>3, <1>6, ConcatProperties
<1> HIDE DEF a, b
<1>9. (a \o Transceive) \o b \in Seq(S) /\ (a \o Transceive) \o b # <<>>
  <2>1. b \in Seq(S) /\ Len(b) = 1 BY <1>4 DEF b
  <2>2. /\ (a \o Transceive) \o b \in Seq(S)
        /\ Len((a \o Transceive) \o b) = Len(a \o Transceive) + 1
    <3> DEFINE x == a \o Transceive
    <3>1. x \in Seq(S) BY <1>8
    <3> HIDE DEF x
    <3>2. b \in Seq(S) BY <2>1
    <3>3. x \o b \in Seq(S) /\ Len(x \o b) = Len(x) + Len(b) BY <3>1, <3>2, ConcatProperties
    <3> QED BY <2>1, <3>3 DEF x
  <2>3. Len(a \o Transceive) \in Nat BY <1>8, LenProperties
  <2>4. Len((a \o Transceive) \o b) # 0 BY <2>2, <2>3
  <2> QED BY <2>2, <2>4, EmptySeq
<1>10. << (a \o Transceive) \o b >> \in CallsOf(S)
  BY <1>9, OneCall
<1> QED BY <1>10 DEF LoopBack, S, a, b

LEMMA NdefOpsTyped ==
  NdefOps({<<"ReadNDef">>, <<"WriteNDef">>, <<"SetTagReadOnly">>, <<>>}) \subseteq CallsOf(AwakeSteps)
<1> DEFINE S == AwakeSteps
           d == <<"DetectNDef", "IsNdef">>
<1>1. {"DetectNDef", "IsNdef", "ReadNDef", "WriteNDef", "SetTagReadOnly"} \subseteq S
  BY DEF AwakeSteps, TestSteps
<1> HIDE DEF S
<1> SUFFICES ASSUME NEW op \in {<<"ReadNDef">>, <<"WriteNDef">>, <<"SetTagReadOnly">>, <<>>}
             PROVE  << d \o op >> \in CallsOf(S)
  BY DEF NdefOps, S
<1>2. d \in Seq(S) /\ d # <<>> /\ op \in Seq(S)
  BY <1>1, Tuples
<1> HIDE DEF d
<1>3. d \o op \in Seq(S) /\ d \o op # <<>>
  BY <1>2, ConcatNotEmpty
<1> QED BY <1>3, OneCall

LEMMA T2TOperationsTyped ==
  ASSUME NEW ops \in T2TOperations
  PROVE  /\ ops \in CallsOf(TestSteps)
         /\ Len(ops) > 0 /\ ops[Len(ops)][1] = "Deactivate"
<1> DEFINE S == TestSteps
           T == Seq(S) \ {<<>>}
           e == << <<"DeactivateSleep">>, <<"Deactivate">> >>
<1>1. {"T2tRead", "T2tWrite", "T2tSectorSelect", "CheckActive", "SendRawFrame",
       "DeactivateSleep", "Deactivate"} \subseteq S
  BY DEF TestSteps
<1> HIDE DEF S
<1>2. <<"T2tRead">> \in T /\ <<"T2tRead", "T2tWrite">> \in T
      /\ <<"T2tRead", "T2tSectorSelect", "CheckActive", "SendRawFrame">> \in T
      /\ <<"DeactivateSleep">> \in T /\ <<"Deactivate">> \in T
  BY <1>1
<1> HIDE DEF T
<1>3. e \in Seq(T) /\ Len(e) = 2 /\ e[2] = <<"Deactivate">>
  BY <1>2
<1>4. PICK b \in { <<>>, << <<"T2tRead">> >>, << <<"T2tRead", "T2tWrite">> >>,
                   << <<"T2tRead", "T2tSectorSelect", "CheckActive", "SendRawFrame">> >> } :
         ops = b \o e
  BY DEF T2TOperations
<1>5. b \in Seq(T)
  BY <1>2, <1>4, Tuples
<1> HIDE DEF e
<1>6. /\ ops \in Seq(T) /\ Len(ops) = Len(b) + 2 /\ Len(b) \in Nat
      /\ ops[Len(b) + 2] = e[2]
  BY <1>3, <1>4, <1>5, ConcatProperties, LenProperties
<1> QED BY <1>3, <1>6 DEF CallsOf, S, T

LEMMA T3TOperationsTyped == T3TOperations \subseteq CallsOf(AwakeSteps)
<1> DEFINE S == AwakeSteps
<1>1. {"SendLast", "Eot"} \subseteq S
  BY DEF AwakeSteps, TestSteps, Eots
<1>2. \A n \in {2, 3, 5} : Exchanges(n) \in Seq(S) /\ Exchanges(n) # <<>>
  BY ExchangesTyped
<1> HIDE DEF S
<1>3. <<"SendLast">> \in Seq(S) /\ <<"SendLast", "Eot">> \in Seq(S)
  BY <1>1
<1>4. \A n \in {2, 3, 5}, x \in {<<"SendLast">>, <<"SendLast", "Eot">>} :
        Exchanges(n) \o x \in Seq(S) /\ Exchanges(n) \o x # <<>>
  BY <1>2, <1>3, ConcatNotEmpty
<1>5. \A n \in {2, 3, 5} : << Exchanges(n) >> \in CallsOf(S)
  BY <1>2, OneCall
<1>6. \A n \in {2, 3, 5}, x \in {<<"SendLast">>, <<"SendLast", "Eot">>} :
        << Exchanges(n) \o x >> \in CallsOf(S)
  BY <1>4, OneCall
<1> QED BY <1>5, <1>6 DEF T3TOperations, S

LEMMA NfcDepInitiatorOperationsTyped ==
  ASSUME DtaAssumption, StackTyped
  PROVE  NfcDepInitiatorOperations \subseteq CallsOf(AwakeSteps)
<1>1. MaxLoopBack \in Nat
  BY DEF DtaAssumption, StackTyped, MaxLoopBack
<1>2. ASSUME NEW n \in 0 .. MaxLoopBack PROVE << Receive \o Exchanges(n) >> \in CallsOf(AwakeSteps)
  <2>1. Exchanges(n) \in Seq(AwakeSteps)
    BY <1>1, ExchangesTyped
  <2>2. Receive \o Exchanges(n) \in Seq(AwakeSteps) /\ Receive \o Exchanges(n) # <<>>
    BY <2>1, TestTuples, ConcatNotEmpty
  <2> QED BY <2>2, OneCall
<1> QED BY <1>2 DEF NfcDepInitiatorOperations

(* Only the operations on a Type 2 tag put it to sleep.                     *)
LEMMA AwakeOperations ==
  ASSUME DtaAssumption, StackTyped, NEW p \in ReaderProtocols \ {"T2T"}, NEW ops \in Operations(p)
  PROVE  ops \in CallsOf(AwakeSteps)
<1>1. <<>> \in CallsOf(AwakeSteps)
  BY DEF CallsOf
<1>2. NdefOps({<<"ReadNDef">>, <<"WriteNDef">>}) \subseteq CallsOf(AwakeSteps)
  BY NdefOpsTyped DEF NdefOps
<1>3. CASE p = "T1T" BY <1>3, NdefOpsTyped DEF Operations
<1>4. CASE p = "T3T"
  <2>1. ops \in T3TOperations \cup NoOperations BY <1>4 DEF Operations
  <2> QED BY <1>1, <2>1, T3TOperationsTyped DEF NoOperations
<1>5. CASE p = "ISO_DEP"
  <2>1. ops \in {LoopBack(<<"MayEot">>)} \cup NdefOps({<<"ReadNDef">>, <<"WriteNDef">>})
                \cup NoOperations
    BY <1>5 DEF Operations
  <2>2. LoopBack(<<"MayEot">>) \in CallsOf(AwakeSteps) BY LoopBackTyped
  <2> QED BY <1>1, <1>2, <2>1, <2>2 DEF NoOperations
<1>6. CASE p = "NFC_DEP"
  <2>1. ops \in {LoopBack(<<"MayEot1", "MayEot">>)} \cup NfcDepInitiatorOperations \cup NoOperations
    BY <1>6 DEF Operations
  <2>2. LoopBack(<<"MayEot1", "MayEot">>) \in CallsOf(AwakeSteps) BY LoopBackTyped
  <2> QED BY <1>1, <2>1, <2>2, NfcDepInitiatorOperationsTyped DEF NoOperations
<1> QED BY <1>3, <1>4, <1>5, <1>6 DEF ReaderProtocols

LEMMA OperationsTyped ==
  ASSUME DtaAssumption, StackTyped, NEW p \in ReaderProtocols, NEW ops \in Operations(p)
  PROVE  ops \in CallsOf(TestSteps)
<1>1. CallsOf(AwakeSteps) \subseteq CallsOf(TestSteps)
  <2>1. AwakeSteps \subseteq TestSteps BY DEF AwakeSteps
  <2> QED BY <2>1, CallsWithin
<1>2. CASE p = "T2T"
  <2>1. ops \in T2TOperations BY <1>2 DEF Operations
  <2> QED BY <2>1, T2TOperationsTyped
<1>3. CASE p # "T2T"
  BY <1>1, <1>3, AwakeOperations
<1> QED BY <1>2, <1>3

(* A round: operations, then calls that stop or start discovery.           *)
LEMMA RoundShape ==
  ASSUME NEW ops \in CallsOf(TestSteps \cup Pulls), NEW q \in CallsOf(DiscoverySteps), Shape(q),
         Len(q) > 0, q[1][1] \notin {"SaveConn", "SetStarted"},
         (\E i \in 1 .. Len(ops) : \E j \in 1 .. Len(ops[i]) : ops[i][j] \in Pulls)
           => NoEot(ops) /\ q[1][1] \in Stops
  PROVE  Shape(ops \o q) /\ (ops \o q)[1][1] \notin {"SaveConn", "SetStarted"}
<1> DEFINE m == Len(ops)
           n == Len(q)
           b == ops \o q
           T == TestSteps \cup Pulls
<1>1. m \in Nat /\ n \in Nat /\ n > 0
  BY CallFacts
<1>2. /\ Len(b) = m + n
      /\ \A i \in 1 .. m : b[i] = ops[i]
      /\ \A i \in m + 1 .. m + n : b[i] = q[i - m]
  <2> DEFINE U == Seq(T \cup DiscoverySteps)
  <2>1. ops \in Seq(Seq(T)) /\ q \in Seq(Seq(DiscoverySteps))
    BY SeqMonotonic DEF CallsOf
  <2>2. Seq(T) \subseteq U /\ Seq(DiscoverySteps) \subseteq U
    BY SeqMonotonic
  <2>3. ops \in Seq(U) /\ q \in Seq(U)
    BY <2>1, <2>2, SeqMonotonic
  <2> HIDE DEF U
  <2>4. /\ Len(ops \o q) = Len(ops) + Len(q)
        /\ \A i \in 1 .. Len(ops) + Len(q) :
             (ops \o q)[i] = IF i <= Len(ops) THEN ops[i] ELSE q[i - Len(ops)]
    BY <2>3, ConcatProperties
  <2> QED BY <1>1, <2>4
<1>3. \A i \in 1 .. m : /\ Len(ops[i]) \in Nat \ {0}
                        /\ \A j \in 1 .. Len(ops[i]) : ops[i][j] \in T
  BY CallFacts
<1>4. \A i \in 1 .. n : /\ Len(q[i]) \in Nat \ {0}
                        /\ \A j \in 1 .. Len(q[i]) : q[i][j] \in DiscoverySteps
  BY CallFacts
<1>5. /\ \A x \in T : x \notin {"SaveConn", "SetStarted"} \cup Stops
      /\ \A x \in DiscoverySteps : x \notin Eots \cup Pulls
  BY DEF TestSteps, Pulls, Stops, Eots, DiscoverySteps, ListenSteps
<1> HIDE DEF m, n, b, T
<1>6. \A i \in 1 .. m + n : i \in 1 .. m \/ (i \in m + 1 .. m + n /\ i - m \in 1 .. n)
  BY <1>1
<1>7. ASSUME NEW i \in 1 .. m + n PROVE Follows(b[i])
  <2>1. CASE i \in 1 .. m
    <3>1. \A j \in 1 .. Len(b[i]) - 1 : b[i][j + 1] \in T
      BY <1>2, <1>3, <2>1
    <3> QED BY <1>5, <3>1 DEF Follows
  <2>2. CASE i \in m + 1 .. m + n
    <3>1. b[i] = q[i - m] /\ i - m \in 1 .. Len(q) BY <1>1, <1>2, <2>2 DEF n
    <3>2. Follows(q[i - m]) BY <3>1 DEF Shape
    <3> QED BY <3>1, <3>2
  <2> QED BY <1>6, <2>1, <2>2
<1>8. ASSUME NEW i \in 2 .. m + n PROVE b[i][1] \notin {"SaveConn", "SetStarted"}
  <2>1. CASE i \in 1 .. m
    BY <1>2, <1>3, <1>5, <2>1
  <2>2. CASE i = m + 1
    BY <1>1, <1>2, <2>2
  <2>3. CASE i > m + 1
    <3>1. b[i] = q[i - m] /\ i - m \in 2 .. n BY <1>1, <1>2, <2>3
    <3> QED BY <3>1 DEF Shape, n
  <2> QED BY <1>1, <2>1, <2>2, <2>3
<1>9. ASSUME NEW i \in 1 .. m + n, b[i][1] \in Stops
      PROVE  /\ i < m + n /\ b[m + n][1] = "StartRfDiscovery"
             /\ \A k \in i .. m + n : \A j \in 1 .. Len(b[k]) : b[k][j] \notin Eots
  <2>1. i \notin 1 .. m
    BY <1>2, <1>3, <1>5, <1>9
  <2>2. i \in m + 1 .. m + n /\ i - m \in 1 .. n /\ q[i - m][1] \in Stops
    BY <1>2, <1>6, <1>9, <2>1
  <2>3. i - m < n /\ q[n][1] = "StartRfDiscovery"
    BY <2>2 DEF Shape, n
  <2>4. b[m + n] = q[n]
    <3>1. m + n \in m + 1 .. m + n /\ (m + n) - m = n BY <1>1
    <3> QED BY <1>2, <3>1
  <2>5. \A k \in i .. m + n : k - m \in 1 .. n /\ b[k] = q[k - m]
    BY <1>1, <1>2, <2>2
  <2>6. i < m + n
    BY <1>1, <2>2, <2>3
  <2>7. \A k \in i .. m + n : \A j \in 1 .. Len(b[k]) : b[k][j] \in DiscoverySteps
    BY <1>4, <2>5
  <2> QED BY <1>5, <2>3, <2>4, <2>6, <2>7
<1>10. ASSUME NEW i \in 1 .. m + n, NEW j \in 1 .. Len(b[i]), b[i][j] \in Pulls
       PROVE  NoEot(b) /\ \E k \in i + 1 .. m + n : b[k][1] \in Stops
  <2>1. i \in 1 .. m
    BY <1>2, <1>4, <1>5, <1>6, <1>10
  <2>2. NoEot(ops) /\ q[1][1] \in Stops
    BY <1>2, <1>10, <2>1 DEF m
  <2>3. m + 1 \in i + 1 .. m + n /\ b[m + 1] = q[1]
    <3>1. m + 1 \in m + 1 .. m + n /\ (m + 1) - m = 1 /\ m + 1 \in i + 1 .. m + n BY <1>1, <2>1
    <3> QED BY <1>2, <3>1
  <2>4. NoEot(b)
    <3>1. ASSUME NEW k \in 1 .. m + n, NEW l \in 1 .. Len(b[k]) PROVE b[k][l] \notin Eots
      <4>1. CASE k \in 1 .. m BY <1>2, <2>2, <3>1, <4>1 DEF NoEot, m
      <4>2. CASE k \in m + 1 .. m + n
        <5>1. b[k] = q[k - m] /\ k - m \in 1 .. n BY <1>1, <1>2, <4>2
        <5>2. b[k][l] \in DiscoverySteps BY <1>4, <3>1, <5>1
        <5> QED BY <1>5, <5>2
      <4> QED BY <1>6, <4>1, <4>2
    <3> QED BY <1>2, <3>1 DEF NoEot
  <2> QED BY <2>2, <2>3, <2>4
<1>11. b[1][1] \notin {"SaveConn", "SetStarted"}
  <2>1. CASE m > 0
    <3>1. 1 \in 1 .. m /\ b[1] = ops[1] BY <1>1, <1>2, <2>1
    <3> QED BY <1>3, <1>5, <3>1
  <2>2. CASE m = 0
    <3>1. 1 \in m + 1 .. m + n /\ 1 - m = 1 BY <1>1, <2>2
    <3> QED BY <1>2, <3>1
  <2> QED BY <1>1, <2>1, <2>2
<1> QED BY <1>2, <1>7, <1>8, <1>9, <1>10, <1>11 DEF Shape, b

(* The calls that stop and start discovery.                                *)
LEMMA DiscoveryCalls ==
  /\ DisableDiscovery \in Seq(DiscoverySteps) \ {<<>>}
  /\ EnableDiscovery \in CallsOf(DiscoverySteps)
  /\ StopAndStart = << DisableDiscovery, EnableDiscovery[1], EnableDiscovery[2],
                       EnableDiscovery[3] >>
  /\ StopAndStart \in CallsOf(DiscoverySteps)
<1> DEFINE S == DiscoverySteps
           T == Seq(S) \ {<<>>}
           e1 == <<"SaveConfig">>
           e2 == <<"EnablePolling", "DiscoveryConfig", "EnableListening", "SetRfDiscoveryDuration">>
           e3 == <<"StartRfDiscovery", "SetStarted">>
<1>1. /\ "DiscoveryStop" \in S /\ "ClearAnalog" \in S /\ "DisablePolling" \in S
      /\ "DisableListening" \in S /\ "DisableCe" \in S /\ "SaveConfig" \in S
      /\ "EnablePolling" \in S /\ "DiscoveryConfig" \in S /\ "EnableListening" \in S
      /\ "SetRfDiscoveryDuration" \in S /\ "StartRfDiscovery" \in S /\ "SetStarted" \in S
  BY DEF DiscoverySteps
<1> HIDE DEF S
<1>2. DisableDiscovery \in T
  BY <1>1 DEF DisableDiscovery
<1>3. e1 \in T /\ e2 \in T /\ e3 \in T
  BY <1>1
<1>4. EnableDiscovery = << e1, e2, e3 >>
  BY DEF EnableDiscovery
<1> HIDE DEF T, e1, e2, e3
<1>5. EnableDiscovery \in Seq(T)
  BY <1>3, <1>4
<1>6. StopAndStart = << DisableDiscovery >> \o << e1, e2, e3 >>
  BY <1>4 DEF StopAndStart, StartAgain
<1>7. StopAndStart = << DisableDiscovery, e1, e2, e3 >>
  <2> DEFINE d == DisableDiscovery
  <2>1. StopAndStart = << d >> \o << e1, e2, e3 >> BY <1>6
  <2> HIDE DEF d
  <2> DEFINE x == << d >>
             y == << e1, e2, e3 >>
             z == << d, e1, e2, e3 >>
  <2>2. d \in T BY <1>2 DEF d
  <2>3. /\ x \in Seq(T) /\ Len(x) = 1 /\ x[1] = d
        /\ y \in Seq(T) /\ Len(y) = 3 /\ y[1] = e1 /\ y[2] = e2 /\ y[3] = e3
        /\ z \in Seq(T) /\ Len(z) = 4 /\ z[1] = d /\ z[2] = e1 /\ z[3] = e2 /\ z[4] = e3
    BY <1>3, <2>2
  <2> HIDE DEF x, y, z
  <2>4. /\ x \o y \in Seq(T) /\ Len(x \o y) = Len(x) + Len(y)
        /\ \A i \in 1 .. Len(x) + Len(y) :
             (x \o y)[i] = IF i <= Len(x) THEN x[i] ELSE y[i - Len(x)]
    BY <2>3, ConcatProperties
  <2>5. Len(x \o y) = Len(z) /\ \A i \in 1 .. Len(x \o y) : (x \o y)[i] = z[i]
    BY <2>3, <2>4
  <2>6. x \o y = z
    BY <2>3, <2>4, <2>5, SeqEqual
  <2> QED BY <2>1, <2>6 DEF d, x, y, z
<1>8. StopAndStart \in Seq(T)
  BY <1>2, <1>3, <1>7
<1>9. EnableDiscovery[1] = e1 /\ EnableDiscovery[2] = e2 /\ EnableDiscovery[3] = e3
  BY <1>4
<1>10. DisableDiscovery \in Seq(S) \ {<<>>}
  BY <1>2 DEF T
<1>11. EnableDiscovery \in CallsOf(S) /\ StopAndStart \in CallsOf(S)
  BY <1>5, <1>8 DEF CallsOf, T
<1> QED BY <1>7, <1>9, <1>10, <1>11 DEF S
LEMMA FollowsOne ==
  ASSUME NEW d, Len(d) = 1
  PROVE  Follows(d)
BY DEF Follows

LEMMA EnableShape ==
  /\ Len(EnableDiscovery) = 3
  /\ EnableDiscovery[1] = <<"SaveConfig">>
  /\ EnableDiscovery[2] =
       <<"EnablePolling", "DiscoveryConfig", "EnableListening", "SetRfDiscoveryDuration">>
  /\ EnableDiscovery[3] = <<"StartRfDiscovery", "SetStarted">>
  /\ \A i \in 1 .. 3 : Follows(EnableDiscovery[i])
  /\ \A i \in 1 .. 3 : EnableDiscovery[i][1] \notin {"SaveConn", "SetStarted"} \cup Stops
  /\ \A i \in 1 .. 3 : \A j \in 1 .. Len(EnableDiscovery[i]) :
       EnableDiscovery[i][j] \notin Eots \cup Pulls
<1>1. /\ Len(EnableDiscovery) = 3
      /\ EnableDiscovery[1] = <<"SaveConfig">>
      /\ EnableDiscovery[2] =
           <<"EnablePolling", "DiscoveryConfig", "EnableListening", "SetRfDiscoveryDuration">>
      /\ EnableDiscovery[3] = <<"StartRfDiscovery", "SetStarted">>
  BY DEF EnableDiscovery
<1>2. Follows(EnableDiscovery[1])
  BY <1>1, FollowsOne
<1>3. Follows(EnableDiscovery[2])
  BY <1>1 DEF Follows, Stops
<1>4. Follows(EnableDiscovery[3])
  BY <1>1 DEF Follows, Stops
<1>5. \A i \in 1 .. 3 : Follows(EnableDiscovery[i])
  BY <1>2, <1>3, <1>4
<1>6. \A i \in 1 .. 3 : EnableDiscovery[i][1] \notin {"SaveConn", "SetStarted"} \cup Stops
  BY <1>1 DEF Stops
<1>7. \A i \in 1 .. 3 : \A j \in 1 .. Len(EnableDiscovery[i]) :
        EnableDiscovery[i][j] \notin Eots \cup Pulls
  <2>1. EnableDiscovery \in CallsOf(DiscoverySteps) BY DiscoveryCalls
  <2>2. \A i \in 1 .. 3 : \A j \in 1 .. Len(EnableDiscovery[i]) :
          EnableDiscovery[i][j] \in DiscoverySteps
    BY <1>1, <2>1, CallFacts
  <2> QED BY <2>2 DEF DiscoverySteps, ListenSteps, Eots, Pulls
<1> QED BY <1>1, <1>5, <1>6, <1>7

LEMMA StartAgainShape == Shape(EnableDiscovery)
BY EnableShape DEF Shape

LEMMA StopAndStartShape ==
  Shape(StopAndStart) /\ Len(StopAndStart) = 4 /\ StopAndStart[1][1] = "DiscoveryStop"
<1> DEFINE q == StopAndStart
           e == EnableDiscovery
<1>1. Len(q) = 4 /\ q[1] = DisableDiscovery /\ q[2] = e[1] /\ q[3] = e[2] /\ q[4] = e[3]
  <2> DEFINE d == DisableDiscovery
             e1 == e[1]
             e2 == e[2]
             e3 == e[3]
  <2>1. q = << d, e1, e2, e3 >> BY DiscoveryCalls
  <2> HIDE DEF d, e1, e2, e3, q, e
  <2>2. Len(q) = 4 /\ q[1] = d /\ q[2] = e1 /\ q[3] = e2 /\ q[4] = e3 BY <2>1
  <2> QED BY <2>2 DEF d, e1, e2, e3
<1>2. q \in CallsOf(DiscoverySteps)
  BY DiscoveryCalls
<1>3. Follows(DisableDiscovery) /\ DisableDiscovery[1] = "DiscoveryStop"
  BY DEF DisableDiscovery, Follows, Stops
<1>4. \A i \in 1 .. 4 : \A j \in 1 .. Len(q[i]) : q[i][j] \in DiscoverySteps
  BY <1>1, <1>2, CallFacts
<1> HIDE DEF q, e
<1>5. \A i \in 1 .. 4 : \A j \in 1 .. Len(q[i]) : q[i][j] \notin Eots \cup Pulls
  BY <1>4 DEF DiscoverySteps, ListenSteps, Eots, Pulls
<1>6. /\ \A i \in 1 .. 3 : Follows(e[i])
      /\ \A i \in 1 .. 3 : e[i][1] \notin {"SaveConn", "SetStarted"} \cup Stops
      /\ e[3][1] = "StartRfDiscovery"
  BY EnableShape DEF e
<1>7. \A i \in 1 .. 4 : i = 1 \/ i = 2 \/ i = 3 \/ i = 4
  OBVIOUS
<1>8. \A i \in 1 .. 4 : Follows(q[i])
  BY <1>1, <1>3, <1>6, <1>7
<1>9. \A i \in 2 .. 4 : q[i][1] \notin {"SaveConn", "SetStarted"} \cup Stops
  <2>1. \A i \in 2 .. 4 : i = 2 \/ i = 3 \/ i = 4 OBVIOUS
  <2> QED BY <1>1, <1>6, <2>1
<1>10. \A i \in 1 .. 4 : q[i][1] \in Stops => i = 1
  BY <1>7, <1>9
<1>11. Shape(q)
  BY SMTT(30), <1>1, <1>5, <1>6, <1>8, <1>9, <1>10 DEF Shape
<1> QED BY <1>1, <1>3, <1>11 DEF q

(* One call of steps on the link.                                          *)
LEMMA OneCallShape ==
  ASSUME NEW d, Follows(d), d[1] \notin Stops,
         \A j \in 1 .. Len(d) : d[j] \notin Pulls
  PROVE  Shape(<< d >>)
<1> DEFINE b == << d >>
<1>1. Len(b) = 1 /\ b[1] = d
  OBVIOUS
<1> HIDE DEF b
<1>2. Shape(b)
  BY <1>1 DEF Shape
<1> QED BY <1>2 DEF b

LEMMA LinkRound ==
  ASSUME NEW d \in { <<"AcceptConn", "Connect", "SaveConn">>,
                     <<"AcceptConn", "GetRemoteSap", "Connect", "SaveConn">>,
                     <<"P2pDisconnect">>, <<"ReadUi", "GetRemoteSap", "SaveClSap">>,
                     <<"ReadUi", "SendUi">> }
  PROVE  /\ << d >> \in CallsOf(StepsOf("handler")) /\ Shape(<< d >>)
         /\ << d >>[1][1] \notin {"SaveConn", "SetStarted"}
<1> DEFINE S == LinkSteps
<1>1. "AcceptConn" \in S /\ "Connect" \in S /\ "SaveConn" \in S /\ "GetRemoteSap" \in S
      /\ "P2pDisconnect" \in S /\ "ReadUi" \in S /\ "SaveClSap" \in S /\ "SendUi" \in S
  BY DEF LinkSteps
<1>2. S \subseteq StepsOf("handler") /\ S \cap (Pulls \cup Stops) = {}
  BY DEF StepsOf, LinkSteps, Pulls, Stops
<1> HIDE DEF S
<1>3. d \in Seq(S) /\ d # <<>>
  <2>1. /\ <<"AcceptConn", "Connect", "SaveConn">> \in Seq(S)
        /\ <<"AcceptConn", "Connect", "SaveConn">> # <<>>
    BY <1>1
  <2>2. /\ <<"AcceptConn", "GetRemoteSap", "Connect", "SaveConn">> \in Seq(S)
        /\ <<"AcceptConn", "GetRemoteSap", "Connect", "SaveConn">> # <<>>
    BY <1>1
  <2>3. <<"P2pDisconnect">> \in Seq(S) /\ <<"P2pDisconnect">> # <<>>
    BY <1>1
  <2>4. <<"ReadUi", "GetRemoteSap", "SaveClSap">> \in Seq(S)
        /\ <<"ReadUi", "GetRemoteSap", "SaveClSap">> # <<>>
    BY <1>1
  <2>5. <<"ReadUi", "SendUi">> \in Seq(S) /\ <<"ReadUi", "SendUi">> # <<>>
    BY <1>1
  <2> QED BY <2>1, <2>2, <2>3, <2>4, <2>5
<1>4. d \in Seq(StepsOf("handler"))
  BY <1>2, <1>3, SeqMonotonic
<1>5. << d >> \in CallsOf(StepsOf("handler"))
  BY <1>3, <1>4, OneCall
<1>6. \A j \in 1 .. Len(d) : d[j] \in S
  BY <1>3, ElementOfSeq
<1>7. Len(d) > 0
  BY <1>3
<1>8. Follows(d)
  BY <1>2, <1>6 DEF Follows
<1>9. d[1] \notin Stops /\ \A j \in 1 .. Len(d) : d[j] \notin Pulls
  BY <1>2, <1>6, <1>7
<1>10. << d >>[1] = d /\ d[1] \notin {"SaveConn", "SetStarted"}
  OBVIOUS
<1> QED BY <1>5, <1>8, <1>9, <1>10, OneCallShape

LEMMA StepsWithin ==
  /\ DiscoverySteps \subseteq StepsOf("handler")
  /\ TestSteps \cup Pulls \subseteq StepsOf("handler")
  /\ DiscoverySteps \subseteq StepsOf("app") /\ DiscoverySteps \subseteq StepsOf("integration")
BY DEF StepsOf

(* The round of a contact.                                                 *)
ContactRounds(p) == { ops \o (IF p = "T2T" THEN StartAgain ELSE StopAndStart) :
                        ops \in Operations(p) }

LEMMA PullRound ==
  ASSUME NEW x \in Pulls
  PROVE  /\ << <<x>> >> \in CallsOf(TestSteps \cup Pulls)
         /\ NoEot(<< <<x>> >>)
<1> DEFINE d == <<x>>
           S == TestSteps \cup Pulls
<1>1. d \in Seq(S) /\ d # <<>> /\ Len(d) = 1 /\ d[1] = x
  <2>1. x \in S OBVIOUS
  <2> HIDE DEF S
  <2> QED BY <2>1
<1> HIDE DEF d, S
<1>2. << d >> \in CallsOf(S) /\ Len(<< d >>) = 1 /\ << d >>[1] = d
  BY <1>1, OneCall
<1>3. NoEot(<< d >>)
  BY <1>1, <1>2 DEF NoEot, Eots, Pulls
<1> QED BY <1>2, <1>3 DEF d, S

LEMMA ContactRound ==
  ASSUME DtaAssumption, StackTyped, NEW p \in ReaderProtocols \cup CeProtocols,
         NEW round \in ContactRounds(p)
  PROVE  /\ round \in CallsOf(StepsOf("handler")) /\ Shape(round)
         /\ round[1][1] \notin {"SaveConn", "SetStarted"}
<1> DEFINE S == TestSteps \cup Pulls
           q == IF p = "T2T" THEN StartAgain ELSE StopAndStart
<1>1. /\ q \in CallsOf(DiscoverySteps) /\ Shape(q) /\ Len(q) > 0
      /\ q[1][1] \notin {"SaveConn", "SetStarted"}
      /\ p # "T2T" => q[1][1] \in Stops
  <2>1. CASE p = "T2T"
    <3>1. q = EnableDiscovery BY <2>1 DEF StartAgain
    <3>2. 1 \in 1 .. 3 OBVIOUS
    <3> HIDE DEF q
    <3> QED BY <2>1, <3>1, <3>2, DiscoveryCalls, EnableShape, StartAgainShape
  <2>2. CASE p # "T2T"
    <3>1. q = StopAndStart BY <2>2
    <3> HIDE DEF q
    <3> QED BY <3>1, DiscoveryCalls, StopAndStartShape DEF Stops
  <2> QED BY <2>1, <2>2
<1>2. PICK ops \in Operations(p) : round = ops \o q
  BY DEF ContactRounds
<1> HIDE DEF q
<1>3. CASE p \in ReaderProtocols
  <2>1. ops \in CallsOf(TestSteps)
    BY <1>2, <1>3, OperationsTyped
  <2>2. ops \in CallsOf(S)
    BY <2>1, CallsWithin
  <2>3. \A i \in 1 .. Len(ops) : \A j \in 1 .. Len(ops[i]) : ops[i][j] \in TestSteps
    BY <2>1, CallFacts
  <2>4. \A i \in 1 .. Len(ops) : \A j \in 1 .. Len(ops[i]) : ops[i][j] \notin Pulls
    BY <2>3 DEF TestSteps, Eots, Pulls
  <2>5. Shape(ops \o q) /\ (ops \o q)[1][1] \notin {"SaveConn", "SetStarted"}
    BY <1>1, <2>2, <2>4, RoundShape
  <2> QED BY <1>1, <1>2, <2>2, <2>5, StepsWithin, CallsWithin, TwoCalls
<1>4. CASE p \in CeProtocols
  <2>1. \E x \in Pulls : ops = << <<x>> >>
    BY <1>2, <1>4 DEF Operations, CeProtocols, Pulls
  <2>2. ops \in CallsOf(S) /\ NoEot(ops)
    BY <2>1, PullRound
  <2>3. q[1][1] \in Stops
    BY <1>1, <1>4 DEF CeProtocols
  <2>4. Shape(ops \o q) /\ (ops \o q)[1][1] \notin {"SaveConn", "SetStarted"}
    BY <1>1, <2>2, <2>3, RoundShape
  <2> QED BY <1>1, <1>2, <2>2, <2>4, StepsWithin, CallsWithin, TwoCalls
<1> QED BY <1>3, <1>4

LEMMA EmptyRound == <<>> \in CallsOf(StepsOf("handler")) /\ Shape(<<>>)
BY DEF CallsOf, Shape

LEMMA ConcatIs ==
  ASSUME NEW S, NEW x \in Seq(S), NEW y \in Seq(S), NEW z \in Seq(S),
         Len(z) = Len(x) + Len(y),
         \A i \in 1 .. Len(x) : z[i] = x[i],
         \A i \in 1 .. Len(y) : z[Len(x) + i] = y[i]
  PROVE  x \o y = z
<1>1. /\ x \o y \in Seq(S) /\ Len(x \o y) = Len(x) + Len(y)
      /\ \A i \in 1 .. Len(x) + Len(y) :
           (x \o y)[i] = IF i <= Len(x) THEN x[i] ELSE y[i - Len(x)]
  BY ConcatProperties
<1>2. ASSUME NEW i \in 1 .. Len(x \o y) PROVE (x \o y)[i] = z[i]
  <2>1. Len(x) \in Nat /\ Len(y) \in Nat BY LenProperties
  <2>2. CASE i <= Len(x)
    <3>1. i \in 1 .. Len(x) BY <1>1, <2>1, <2>2
    <3> QED BY <1>1, <2>2, <3>1
  <2>3. CASE ~(i <= Len(x))
    <3>1. i - Len(x) \in 1 .. Len(y) /\ Len(x) + (i - Len(x)) = i BY <1>1, <2>1, <2>3
    <3>2. z[i] = y[i - Len(x)] BY <3>1
    <3> QED BY <1>1, <2>3, <3>2
  <2> QED BY <2>2, <2>3
<1> QED BY <1>1, <1>2, SeqEqual

LEMMA ConcatOneTwo ==
  ASSUME NEW S, NEW a \in S, NEW b \in S, NEW c \in S
  PROVE  <<a>> \o <<b, c>> = <<a, b, c>>
<1> DEFINE x == <<a>>
           y == <<b, c>>
           z == <<a, b, c>>
<1>1. /\ x \in Seq(S) /\ y \in Seq(S) /\ z \in Seq(S)
      /\ Len(x) = 1 /\ Len(y) = 2 /\ Len(z) = 3
      /\ x[1] = a /\ y[1] = b /\ y[2] = c /\ z[1] = a /\ z[2] = b /\ z[3] = c
  OBVIOUS
<1> HIDE DEF x, y, z
<1>2. \A i \in 1 .. Len(x) : z[i] = x[i]
  BY <1>1
<1>3. \A i \in 1 .. Len(y) : z[Len(x) + i] = y[i]
  BY <1>1
<1>4. Len(z) = Len(x) + Len(y)
  BY <1>1
<1>5. x \in Seq(S) /\ y \in Seq(S) /\ z \in Seq(S)
  BY <1>1
<1>6. x \o y = z
  BY <1>2, <1>3, <1>4, <1>5, ConcatIs
<1> QED BY <1>6 DEF x, y, z

LEMMA ConcatOneOne ==
  ASSUME NEW S, NEW a \in S, NEW b \in S
  PROVE  <<a>> \o <<b>> = <<a, b>>
<1> DEFINE x == <<a>>
           y == <<b>>
           z == <<a, b>>
<1>1. /\ x \in Seq(S) /\ y \in Seq(S) /\ z \in Seq(S)
      /\ Len(x) = 1 /\ Len(y) = 1 /\ Len(z) = 2
      /\ x[1] = a /\ y[1] = b /\ z[1] = a /\ z[2] = b
  OBVIOUS
<1> HIDE DEF x, y, z
<1>2. \A i \in 1 .. Len(x) : z[i] = x[i]
  BY <1>1
<1>3. \A i \in 1 .. Len(y) : z[Len(x) + i] = y[i]
  BY <1>1
<1>4. Len(z) = Len(x) + Len(y)
  BY <1>1
<1>5. x \in Seq(S) /\ y \in Seq(S) /\ z \in Seq(S)
  BY <1>1
<1>6. x \o y = z
  BY <1>2, <1>3, <1>4, <1>5, ConcatIs
<1> QED BY <1>6 DEF x, y, z

LEMMA ConcatTwoTwo ==
  ASSUME NEW S, NEW a \in S, NEW b \in S, NEW c \in S, NEW d \in S
  PROVE  <<a, b>> \o <<c, d>> = <<a, b, c, d>>
<1> DEFINE x == <<a, b>>
           y == <<c, d>>
           z == <<a, b, c, d>>
<1>1. /\ x \in Seq(S) /\ y \in Seq(S) /\ z \in Seq(S)
      /\ Len(x) = 2 /\ Len(y) = 2 /\ Len(z) = 4
      /\ x[1] = a /\ x[2] = b /\ y[1] = c /\ y[2] = d
      /\ z[1] = a /\ z[2] = b /\ z[3] = c /\ z[4] = d
  OBVIOUS
<1> HIDE DEF x, y, z
<1>2. \A i \in 1 .. Len(x) : z[i] = x[i]
  BY <1>1
<1>3. \A i \in 1 .. Len(y) : z[Len(x) + i] = y[i]
  BY <1>1
<1>4. Len(z) = Len(x) + Len(y)
  BY <1>1
<1>5. x \in Seq(S) /\ y \in Seq(S) /\ z \in Seq(S)
  BY <1>1
<1>6. x \o y = z
  BY <1>2, <1>3, <1>4, <1>5, ConcatIs
<1> QED BY <1>6 DEF x, y, z

LEMMA LinkTuples ==
  /\ <<"AcceptConn">> \o <<>> \o <<"Connect", "SaveConn">> = <<"AcceptConn", "Connect", "SaveConn">>
  /\ <<"AcceptConn">> \o <<"GetRemoteSap">> \o <<"Connect", "SaveConn">>
       = <<"AcceptConn", "GetRemoteSap", "Connect", "SaveConn">>
  /\ <<"ReadUi">> \o <<"GetRemoteSap", "SaveClSap">> = <<"ReadUi", "GetRemoteSap", "SaveClSap">>
  /\ <<"ReadUi">> \o <<"SendUi">> = <<"ReadUi", "SendUi">>
<1> DEFINE S == LinkSteps
<1>1. "AcceptConn" \in S /\ "Connect" \in S /\ "SaveConn" \in S /\ "GetRemoteSap" \in S
      /\ "ReadUi" \in S /\ "SaveClSap" \in S /\ "SendUi" \in S
  BY DEF LinkSteps
<1> HIDE DEF S
<1>2. <<"AcceptConn">> \in Seq(S)
  BY <1>1
<1>3. <<"AcceptConn">> \o <<>> = <<"AcceptConn">>
  BY <1>2, ConcatEmptySeq
<1>4. <<"AcceptConn">> \o <<"Connect", "SaveConn">> = <<"AcceptConn", "Connect", "SaveConn">>
  BY <1>1, ConcatOneTwo, ConcatOneOne, ConcatTwoTwo
<1>5. <<"AcceptConn">> \o <<"GetRemoteSap">> = <<"AcceptConn", "GetRemoteSap">>
  BY <1>1, ConcatOneTwo, ConcatOneOne, ConcatTwoTwo
<1>6. <<"AcceptConn", "GetRemoteSap">> \o <<"Connect", "SaveConn">>
        = <<"AcceptConn", "GetRemoteSap", "Connect", "SaveConn">>
  BY <1>1, ConcatOneTwo, ConcatOneOne, ConcatTwoTwo
<1>7. <<"ReadUi">> \o <<"GetRemoteSap", "SaveClSap">> = <<"ReadUi", "GetRemoteSap", "SaveClSap">>
  BY <1>1, ConcatOneTwo, ConcatOneOne, ConcatTwoTwo
<1>8. <<"ReadUi">> \o <<"SendUi">> = <<"ReadUi", "SendUi">>
  BY <1>1, ConcatOneTwo, ConcatOneOne, ConcatTwoTwo
<1> QED BY <1>3, <1>4, <1>5, <1>6, <1>7, <1>8

(* Whatever the handler begins.                                            *)
LEMMA RoundsTyped ==
  ASSUME DtaAssumption, StackTyped, NEW e \in DtaEvents, NEW round \in Rounds(e)
  PROVE  /\ round \in CallsOf(StepsOf("handler")) /\ Shape(round)
         /\ round # <<>> => round[1][1] \notin {"SaveConn", "SetStarted"}
<1>1. CASE Serves(e)
  <2>1. e.detail \in ReaderProtocols \cup CeProtocols
    BY <1>1 DEF Serves, DtaEvents, Events, Begins, Selected, Ends, PlainEvents, Results, PlainTypes,
                LocalTypes, TagReplies
  <2>2. round \in ContactRounds(e.detail)
    BY <1>1 DEF Rounds, ContactRounds, Serves
  <2> QED BY <2>1, <2>2, ContactRound
<1>2. CASE ~Serves(e)
  <2>1. \/ round = StopAndStart \/ round = <<>>
        \/ round \in LlcpOperations \cup {LlcpHandleCoClientDisconnect} \cup LlcpConnLessOperations
    BY <1>2 DEF Rounds
  <2>2. CASE round = StopAndStart
    <3>1. StopAndStart \in CallsOf(StepsOf("handler"))
      BY DiscoveryCalls, StepsWithin, CallsWithin
    <3> QED BY <2>2, <3>1, StopAndStartShape
  <2>3. CASE round \in LlcpOperations \cup {LlcpHandleCoClientDisconnect} \cup LlcpConnLessOperations
    <3>1. \E d \in { <<"AcceptConn", "Connect", "SaveConn">>,
                     <<"AcceptConn", "GetRemoteSap", "Connect", "SaveConn">>,
                     <<"P2pDisconnect">>, <<"ReadUi", "GetRemoteSap", "SaveClSap">>,
                     <<"ReadUi", "SendUi">> } : round = << d >>
      BY <2>3, LinkTuples
         DEF LlcpOperations, LlcpHandleCoClientDisconnect, LlcpConnLessOperations
    <3> QED BY <3>1, LinkRound
  <2> QED BY <2>1, <2>2, <2>3, EmptyRound
<1> QED BY <1>1, <1>2
-----------------------------------------------------------------------------
(* The other steps keep the types.                                         *)

LEMMA PushesTyped ==
  ASSUME NEW e \in Events
  PROVE  PushesOf(e) \in Todos
<1>1. ToApplication \in {<<"dta">>, <<>>}
  BY DEF ToApplication
<1>2. <<"dta">> \o <<"mw">> = <<"dta", "mw">> /\ <<>> \o <<"mw">> = <<"mw">>
  <2> DEFINE S == {"dta", "mw"}
  <2>1. "dta" \in S /\ "mw" \in S OBVIOUS
  <2> HIDE DEF S
  <2>2. <<"dta">> \o <<"mw">> = <<"dta", "mw">> BY <2>1, ConcatOneOne
  <2>3. <<"mw">> \in Seq(S) BY <2>1
  <2> QED BY <2>2, <2>3, ConcatEmptySeq
<1>3. ToApplication \o <<"mw">> \in Todos
  BY <1>1, <1>2 DEF Todos
<1>4. {<<>>, <<"mw">>, <<"dta">>, <<"mw", "dta">>} \subseteq Todos
  BY DEF Todos
<1>5. /\ ActivatedPushes(e) \in Todos /\ LlcpServerPushes(e) \in Todos
      /\ ConnLessServerPushes \in Todos /\ LlcpClientPushes \in Todos
  BY <1>1, <1>4 DEF ActivatedPushes, LlcpServerPushes, ConnLessServerPushes, LlcpClientPushes
<1> QED BY <1>3, <1>4, <1>5 DEF PushesOf

LEMMA CallbackTyped ==
  ASSUME Typed, UNCHANGED <<setting, llcpTestVars>>, Callback
  PROVE  Typed'
<1> DEFINE e == Head(nfaOut)
<1>1. e \in Events /\ nfaOut' \in Seq(Events)
  BY HeadTailProperties DEF Typed, StackTyped, Callback
<1> HIDE DEF e
<1>2. /\ UNCHANGED <<rf, peer, owed, links, sdp, mwQueue, sLastQueueData, dtaQueue, calls, at>>
      /\ gx_status' \in StatusOf(e) /\ eDeviceState' = StateAfter(e)
      /\ cb' = [ev |-> e, todo |-> PushesOf(e)]
  BY DEF Callback, e, linkVars, queueVars, threadVars
<1>3. StackTyped'
  BY <1>1, <1>2 DEF Typed, StackTyped
<1>4. eDeviceState' \in {"IDLE", "DISCOVERY_STARTED", "POLL_ACTIVE"} /\ gx_status' \in {"OK", "FAILED"}
  <2>1. StatusOf(e) \subseteq {"OK", "FAILED"} BY DEF Typed, MwTyped, StatusOf
  <2>2. StateAfter(e) \in {"IDLE", "DISCOVERY_STARTED", "POLL_ACTIVE"}
    BY DEF Typed, MwTyped, StateAfter
  <2> QED BY <1>2, <2>1, <2>2
<1>5. cb' \in [ev : Events \cup {NoEvent}, todo : Todos]
  BY <1>1, <1>2, PushesTyped
<1>6. MwTyped'
  BY <1>2, <1>4, <1>5 DEF Typed, MwTyped, MwQLength, DtaQLength
<1>7. ControlTyped' /\ DtaTyped'
  BY <1>2 DEF Typed, ControlTyped, CallsTyped, HandleKnown, Busy, Step, DtaTyped, llcpTestVars
<1> QED BY <1>3, <1>6, <1>7 DEF Typed

LEMMA EventTyped ==
  ASSUME NEW e \in Events \cup {NoEvent}
  PROVE  MwEvent(e) \in MwEvents /\ DtaEvent(e) \in DtaEvents
<1>1. NoEvent.type = "none" /\ NoEvent.detail = "none" /\ NoEvent = [type |-> "none", detail |-> "none"]
  BY DEF NoEvent, Event
<1>2. e.type \in AllTypes
  BY <1>1 DEF Events, Begins, Selected, Ends, PlainEvents, Results, PlainTypes, LocalTypes, TagReplies, AllTypes
<1>3. e.type \in {"CONNECTED", "SDP"} => e \in MwEvents
  BY <1>1 DEF Events, Begins, Selected, Ends, PlainEvents, Results, PlainTypes, LocalTypes, TagReplies, MwEvents
<1>4. MwEvent(e) \in MwEvents
  BY <1>2, <1>3 DEF MwEvent, MwEvents, Event
<1>5. e \in DtaEvents
  BY <1>1 DEF DtaEvents
<1>6. DtaEvent(e) \in DtaEvents
  BY <1>5 DEF DtaEvent, DtaEvents, Event
<1> QED BY <1>4, <1>6

LEMMA AppendTyped ==
  ASSUME NEW S, NEW q \in Seq(S), NEW x \in S, NEW n \in Nat, Len(q) < n
  PROVE  Append(q, x) \in Seq(S) /\ Len(Append(q, x)) <= n
<1>1. Append(q, x) \in Seq(S) /\ Len(Append(q, x)) = Len(q) + 1 /\ Len(q) \in Nat
  BY AppendProperties, LenProperties
<1> QED BY <1>1

LEMMA CallbackPushTyped ==
  ASSUME MwIfAssumption, Typed, UNCHANGED <<setting, llcpTestVars>>, CallbackPush
  PROVE  Typed'
<1>1. /\ UNCHANGED <<stackVars, eDeviceState, gx_status, sLastQueueData, calls, at>>
  BY DEF CallbackPush, mwVars, threadVars
<1>2. /\ MwQLength \in Nat /\ DtaQLength \in Nat
      /\ MwQLength' = MwQLength /\ DtaQLength' = DtaQLength
  BY QueueLengths DEF Typed, MwQLength, DtaQLength
<1>3. MwEvent(cb.ev) \in MwEvents /\ DtaEvent(cb.ev) \in DtaEvents
  BY EventTyped DEF Typed, MwTyped
<1>4. /\ mwQueue' \in Seq(MwEvents) /\ Len(mwQueue') <= MwQLength'
      /\ dtaQueue' \in Seq(DtaEvents) /\ Len(dtaQueue') <= DtaQLength'
  <2>1. /\ mwQueue \in Seq(MwEvents) /\ Len(mwQueue) <= MwQLength
        /\ dtaQueue \in Seq(DtaEvents) /\ Len(dtaQueue) <= DtaQLength
    BY DEF Typed, MwTyped
  <2>2. CASE Len(mwQueue) < MwQLength /\ mwQueue' = Append(mwQueue, MwEvent(cb.ev))
             /\ UNCHANGED dtaQueue
    <3>1. mwQueue' \in Seq(MwEvents) /\ Len(mwQueue') <= MwQLength
      BY <1>2, <1>3, <2>1, <2>2, AppendTyped
    <3> QED BY <1>2, <2>1, <2>2, <3>1
  <2>3. CASE Len(dtaQueue) < DtaQLength /\ dtaQueue' = Append(dtaQueue, DtaEvent(cb.ev))
             /\ UNCHANGED mwQueue
    <3>1. dtaQueue' \in Seq(DtaEvents) /\ Len(dtaQueue') <= DtaQLength
      BY <1>2, <1>3, <2>1, <2>3, AppendTyped
    <3> QED BY <1>2, <2>1, <2>3, <3>1
  <2> QED BY <2>2, <2>3 DEF CallbackPush
<1>5. cb' \in [ev : Events \cup {NoEvent}, todo : Todos]
  <2>1. /\ cb \in [ev : Events \cup {NoEvent}, todo : Todos] /\ cb.todo # <<>>
    BY DEF Typed, MwTyped, CallbackPush, CallbackIdle
  <2>2. CASE Len(cb.todo) = 1
    BY <2>2 DEF CallbackPush, Todos
  <2>3. CASE Len(cb.todo) # 1
    <3>1. cb.todo \in {<<"mw", "dta">>, <<"dta", "mw">>}
      <4>1. Len(<<"mw">>) = 1 /\ Len(<<"dta">>) = 1 OBVIOUS
      <4>2. cb.todo \in Todos BY <2>1
      <4> QED BY <2>1, <2>3, <4>1, <4>2 DEF Todos
    <3>2. Tail(<<"mw", "dta">>) = <<"dta">> /\ Tail(<<"dta", "mw">>) = <<"mw">>
      OBVIOUS
    <3>3. Tail(cb.todo) \in Todos
      BY <3>1, <3>2 DEF Todos
    <3>4. cb' = [cb EXCEPT !.todo = Tail(cb.todo)]
      BY <2>3 DEF CallbackPush
    <3> QED BY <2>1, <3>3, <3>4
  <2> QED BY <2>2, <2>3
<1>6. StackTyped'
  BY <1>1, StackKept DEF Typed
<1>7. MwTyped'
  BY <1>1, <1>4, <1>5 DEF Typed, MwTyped
<1>8. ControlTyped' /\ DtaTyped'
  BY <1>1 DEF Typed, ControlTyped, CallsTyped, HandleKnown, Busy, Step, DtaTyped, llcpTestVars
<1> QED BY <1>6, <1>7, <1>8 DEF Typed

(* The handler's calls set to calls whose first step saves no connection.  *)
LEMMA HandlerSet ==
  ASSUME DtaAssumption, MwIfAssumption, Typed, NEW c \in CallsOf(StepsOf("handler")), Shape(c),
         c # <<>> => c[1][1] # "SaveConn",
         calls' = [calls EXCEPT !["handler"] = c],
         at' = [at EXCEPT !["handler"] = "run"] \/ (UNCHANGED at /\ at["handler"] = "run")
  PROVE  ControlTyped'
<1>1. "handler" \in Threads
  BY DEF DtaAssumption
<1>2. CallsTyped
  BY DEF Typed, ControlTyped
<1>3. CallsTyped'
  BY <1>1, <1>2, CallsSet
<1>4. calls'["handler"] = c
  BY <1>1, <1>2 DEF CallsTyped
<1>5. c # <<>> => Head(Head(c)) = c[1][1]
  BY CallFacts
<1>6. HandleKnown'
  BY <1>4, <1>5 DEF HandleKnown, Busy, Step
<1> QED BY <1>3, <1>6 DEF ControlTyped

LEMMA HandlerAt ==
  ASSUME DtaAssumption, Typed, NEW step, At("handler", step)
  PROVE  /\ calls["handler"] \in CallsOf(StepsOf("handler")) /\ calls["handler"] # <<>>
         /\ Shape(calls["handler"]) /\ calls["handler"][1][1] = step
         /\ at["handler"] = "run" /\ Busy("handler") /\ "handler" \in Threads
<1>1. "handler" \in Threads
  BY DEF DtaAssumption
<1> QED BY <1>1, StepIs DEF Typed, ControlTyped, CallsTyped, At

(* The steps s in the place of one that is no connection made.             *)
LEMMA HandlerMoved ==
  ASSUME DtaAssumption, MwIfAssumption, Typed, NEW step, At("handler", step), step # "Connect",
         NEW s \in Seq(StepsOf("handler")), MayReplace(s, calls["handler"]),
         Moved("handler", s)
  PROVE  ControlTyped'
<1> DEFINE c == calls["handler"]
<1>1. c \in CallsOf(StepsOf("handler")) /\ c # <<>> /\ Shape(c) /\ c[1][1] = step
  BY HandlerAt
<1>2. Pushed(c, s) \in CallsOf(StepsOf("handler")) /\ Shape(Pushed(c, s))
  BY <1>1, PushedTyped, PushedShape
<1>3. Pushed(c, s) # <<>> => Pushed(c, s)[1][1] # "SaveConn"
  BY <1>1, PushedFirst
<1>4. calls' = [calls EXCEPT !["handler"] = Pushed(c, s)] /\ at' = [at EXCEPT !["handler"] = "run"]
  BY DEF Moved
<1> HIDE DEF c
<1> QED BY <1>2, <1>3, <1>4, HandlerSet

LEMMA HandlerProceeds ==
  ASSUME DtaAssumption, MwIfAssumption, Typed, NEW step, At("handler", step), step # "Connect",
         Proceed("handler", <<>>)
  PROVE  ControlTyped'
<1>1. <<>> \in Seq(StepsOf("handler")) /\ MayReplace(<<>>, calls["handler"])
  BY DEF MayReplace
<1> QED BY <1>1, HandlerMoved, Proceeded

LEMMA HandlerReturns ==
  ASSUME DtaAssumption, MwIfAssumption, Typed, NEW step, At("handler", step),
         Popped("handler")
  PROVE  ControlTyped'
<1> DEFINE c == calls["handler"]
<1>1. c \in CallsOf(StepsOf("handler")) /\ c # <<>> /\ Shape(c)
  BY HandlerAt
<1>2. Tail(c) \in CallsOf(StepsOf("handler")) /\ Shape(Tail(c))
  BY <1>1, TailFacts, TailShape
<1>3. Tail(c) # <<>> => Tail(c)[1][1] # "SaveConn"
  BY <1>1, TailFirst
<1>4. calls' = [calls EXCEPT !["handler"] = Tail(c)] /\ at' = [at EXCEPT !["handler"] = "run"]
  BY DEF Popped
<1> HIDE DEF c
<1> QED BY <1>2, <1>3, <1>4, HandlerSet

(* What is left of the types when a step changes only the handler's calls  *)
(* and the handles.                                                        *)
LEMMA OwnTyped ==
  ASSUME Typed, UNCHANGED <<setting, stackVars, mwVars, mwQueue, cb, sLastQueueData>>,
         UNCHANGED dtaQueue \/ (dtaQueue # <<>> /\ dtaQueue' = Tail(dtaQueue)), MwIfAssumption
  PROVE  StackTyped' /\ MwTyped'
<1>1. StackTyped'
  BY StackKept DEF Typed
<1>2. DtaQLength \in Nat /\ DtaQLength' = DtaQLength /\ MwQLength' = MwQLength
  BY QueueLengths DEF Typed, MwQLength, DtaQLength
<1>3. dtaQueue \in Seq(DtaEvents) /\ Len(dtaQueue) <= DtaQLength
  BY DEF Typed, MwTyped
<1>4. CASE dtaQueue # <<>> /\ dtaQueue' = Tail(dtaQueue)
  <2> DEFINE n == Len(dtaQueue)
             m == DtaQLength
  <2>1. dtaQueue' \in Seq(DtaEvents) /\ Len(dtaQueue') = n - 1 /\ n \in Nat /\ n <= m /\ m \in Nat
    BY <1>2, <1>3, <1>4, HeadTailProperties, LenProperties
  <2> HIDE DEF n, m
  <2>2. Len(dtaQueue') <= m
    BY <2>1
  <2>3. Len(dtaQueue') <= DtaQLength'
    BY <1>2, <2>2 DEF m
  <2> QED BY <1>1, <1>2, <2>1, <2>3 DEF Typed, MwTyped, mwVars
<1>5. CASE UNCHANGED dtaQueue
  BY <1>1, <1>2, <1>5 DEF Typed, MwTyped, mwVars
<1> QED BY <1>4, <1>5

LEMMA HandlerPullTyped ==
  ASSUME MwIfAssumption, DtaAssumption, Typed, HandlerPull
  PROVE  Typed'
<1> DEFINE e == Head(dtaQueue)
<1>1. e \in DtaEvents
  BY HeadTailProperties DEF HandlerPull, Typed, MwTyped
<1>2. UNCHANGED <<setting, stackVars, mwVars, mwQueue, cb, sLastQueueData, at,
                  pvCORemoteServerConnHandle>>
      /\ dtaQueue # <<>> /\ dtaQueue' = Tail(dtaQueue)
  BY DEF HandlerPull, appVars
<1>3. at["handler"] = "run"
  BY DEF DtaAssumption, HandlerPull, HandlerIdle, Busy, Typed, ControlTyped, CallsTyped
<1>4. PICK round \in Rounds(e) : calls' = [calls EXCEPT !["handler"] = round]
  BY DEF HandlerPull
<1>5. pvCORemoteClientConnHandle' = IF e.type = "CONN_REQ" THEN e.detail
                                    ELSE pvCORemoteClientConnHandle
  BY DEF HandlerPull
<1> HIDE DEF e
<1>6. /\ round \in CallsOf(StepsOf("handler")) /\ Shape(round)
      /\ round # <<>> => round[1][1] \notin {"SaveConn", "SetStarted"}
  BY <1>1, RoundsTyped DEF Typed
<1>7. ControlTyped'
  BY <1>2, <1>3, <1>4, <1>6, HandlerSet
<1>8. e.type = "CONN_REQ" => e.detail \in Handles
  BY <1>1 DEF DtaEvents, Events, Begins, Selected, Ends, PlainEvents, Results, PlainTypes, LocalTypes,
              TagReplies
<1>9. DtaTyped'
  BY <1>2, <1>5, <1>8 DEF Typed, DtaTyped
<1> QED BY <1>2, <1>7, <1>9, OwnTyped DEF Typed

LEMMA SaveTyped ==
  ASSUME MwIfAssumption, DtaAssumption, Typed, SaveConn \/ SaveClSap
  PROVE  Typed'
<1>1. PICK step \in {"SaveConn", "SaveClSap"} : At("handler", step)
  BY DEF SaveConn, SaveClSap
<1>2. Proceed("handler", <<>>) /\ step # "Connect"
      /\ UNCHANGED <<setting, stackVars, mwVars, mwQueue, cb, sLastQueueData, dtaQueue,
                     pvCORemoteClientConnHandle>>
  BY DEF SaveConn, SaveClSap, queueVars, appVars
<1>3. ControlTyped'
  BY <1>1, <1>2, HandlerProceeds
<1>4. pvCORemoteServerConnHandle' \in Handles \cup {"none"}
  <2>1. CASE SaveConn
    BY <2>1 DEF SaveConn, At, Typed, ControlTyped, HandleKnown
  <2>2. CASE SaveClSap
    BY <2>2 DEF SaveClSap, Typed, DtaTyped
  <2> QED BY <2>1, <2>2
<1>5. DtaTyped'
  BY <1>2, <1>4 DEF Typed, DtaTyped
<1> QED BY <1>2, <1>3, <1>5, OwnTyped DEF Typed

LEMMA EndCalls ==
  /\ << <<"Deactivate">> >> \in CallsOf(StepsOf("handler")) /\ Shape(<< <<"Deactivate">> >>)
  /\ << <<"DeactivateSleep">>, <<"Deactivate">> >> \in CallsOf(StepsOf("handler"))
  /\ Shape(<< <<"DeactivateSleep">>, <<"Deactivate">> >>)
<1> DEFINE S == StepsOf("handler")
           T == Seq(S) \ {<<>>}
           a == <<"DeactivateSleep">>
           b == <<"Deactivate">>
<1>1. "Deactivate" \in S /\ "DeactivateSleep" \in S
  BY DEF StepsOf, TestSteps
<1> HIDE DEF S
<1>2. a \in T /\ b \in T
  BY <1>1
<1>3. /\ Len(a) = 1 /\ a[1] = "DeactivateSleep" /\ Len(b) = 1 /\ b[1] = "Deactivate"
  OBVIOUS
<1> HIDE DEF T, a, b
<1>4. << b >> \in Seq(T) /\ << a, b >> \in Seq(T)
  BY <1>2
<1> DEFINE x == << b >>
           y == << a, b >>
<1>5. Len(x) = 1 /\ x[1] = b /\ Len(y) = 2 /\ y[1] = a /\ y[2] = b
  OBVIOUS
<1> HIDE DEF x, y
<1>6. Follows(a) /\ Follows(b)
  BY <1>3, FollowsOne
<1>7. Shape(x)
  BY <1>3, <1>5, <1>6 DEF Shape, Stops, Pulls
<1>8. Shape(y)
  <2>1. \A i \in 1 .. 2 : (i = 1 /\ y[i] = a) \/ (i = 2 /\ y[i] = b) BY <1>5
  <2>2. \A i \in 1 .. 2 : /\ Follows(y[i]) /\ Len(y[i]) = 1
                          /\ y[i][1] \in {"DeactivateSleep", "Deactivate"}
    BY <1>3, <1>6, <2>1
  <2>3. \A i \in 1 .. 2 : y[i][1] \notin Stops \cup Pulls \cup {"SaveConn", "SetStarted"}
    BY <2>2 DEF Stops, Pulls
  <2> QED BY <1>5, <2>2, <2>3 DEF Shape
<1> QED BY <1>4, <1>7, <1>8 DEF CallsOf, S, T, a, b, x, y

LEMMA EotTyped ==
  ASSUME MwIfAssumption, DtaAssumption, Typed, CheckEot \/ Eot
  PROVE  Typed'
<1>1. PICK step \in Eots : At("handler", step)
  BY DEF CheckEot, Eot, Eots
<1>2. /\ EndOfTest \/ Proceed("handler", <<>>)
      /\ UNCHANGED <<setting, stackVars, mwVars, mwQueue, cb, sLastQueueData, dtaQueue,
                     llcpTestVars>>
  BY DEF CheckEot, Eot, queueVars, dtaVars, appVars
<1>3. ControlTyped'
  <2>1. CASE Proceed("handler", <<>>)
    BY <1>1, <2>1, HandlerProceeds DEF Eots
  <2>2. CASE EndOfTest
    <3>1. PICK c \in { << <<"DeactivateSleep">>, <<"Deactivate">> >>, << <<"Deactivate">> >> } :
            calls' = [calls EXCEPT !["handler"] = c]
      BY <2>2 DEF EndOfTest
    <3>2. c \in CallsOf(StepsOf("handler")) /\ Shape(c) /\ c[1][1] # "SaveConn"
      BY <3>1, EndCalls
    <3>3. UNCHANGED at /\ at["handler"] = "run"
      BY <1>1, <2>2, HandlerAt DEF EndOfTest
    <3> QED BY <3>1, <3>2, <3>3, HandlerSet
  <2> QED BY <1>2, <2>1, <2>2
<1> QED BY <1>2, <1>3, OwnTyped DEF Typed, DtaTyped, llcpTestVars

LEMMA HandlerTuples ==
  /\ <<"SendRawFrame">> \in Seq(TestSteps)
  /\ <<"CheckActive", "SendRawFrame">> \in Seq(TestSteps)
  /\ <<"CheckActive", "SendRawFrame">> # <<>>
  /\ <<"CheckActive", "SendRawFrame">> \o <<"HcePull">>
       = <<"CheckActive", "SendRawFrame", "HcePull">>
<1> DEFINE S == TestSteps
           T == TestSteps \cup Pulls
           x == <<"CheckActive", "SendRawFrame">>
           y == <<"HcePull">>
           z == <<"CheckActive", "SendRawFrame", "HcePull">>
<1>1. /\ "CheckActive" \in S /\ "SendRawFrame" \in S
      /\ "CheckActive" \in T /\ "SendRawFrame" \in T /\ "HcePull" \in T
  BY DEF TestSteps, Pulls
<1> HIDE DEF S, T
<1>2. <<"SendRawFrame">> \in Seq(S) /\ x \in Seq(S) /\ x # <<>>
  BY <1>1
<1>3. /\ x \in Seq(T) /\ y \in Seq(T) /\ z \in Seq(T)
      /\ Len(x) = 2 /\ Len(y) = 1 /\ Len(z) = 3
      /\ x[1] = z[1] /\ x[2] = z[2] /\ y[1] = z[3]
  BY <1>1
<1> HIDE DEF x, y, z
<1>4. \A i \in 1 .. Len(x) : z[i] = x[i]
  BY <1>3
<1>5. \A i \in 1 .. Len(y) : z[Len(x) + i] = y[i]
  BY <1>3
<1>6. Len(z) = Len(x) + Len(y)
  BY <1>3
<1>7. x \in Seq(T) /\ y \in Seq(T) /\ z \in Seq(T)
  BY <1>3
<1>8. x \o y = z
  BY <1>4, <1>5, <1>6, <1>7, ConcatIs
<1> QED BY <1>2, <1>8 DEF S, x, y, z

LEMMA SendLastTyped ==
  ASSUME MwIfAssumption, DtaAssumption, Typed, SendLast
  PROVE  Typed'
<1> DEFINE c == calls["handler"]
           s == <<"SendRawFrame">>
           b == Pushed(c, s)
<1>1. At("handler", "SendLast")
      /\ UNCHANGED <<setting, stackVars, mwVars, mwQueue, cb, sLastQueueData, dtaQueue, llcpTestVars>>
  BY DEF SendLast, queueVars, dtaVars, appVars
<1>2. /\ c \in CallsOf(StepsOf("handler")) /\ c # <<>> /\ Shape(c) /\ c[1][1] = "SendLast"
      /\ "handler" \in Threads
  BY <1>1, HandlerAt
<1>3. s \in Seq(StepsOf("handler"))
  BY HandlerTuples, StepsWithin, SeqMonotonic
<1>4. Len(s) = 1 /\ s[1] = "SendRawFrame"
  OBVIOUS
<1>5. /\ calls' = [calls EXCEPT !["handler"] = b]
      /\ \E label \in {"run", "check"} : at' = [at EXCEPT !["handler"] = label]
  BY IntoIsPushed DEF SendLast
<1> HIDE DEF s
<1>6. MayReplace(s, c)
  BY <1>2, <1>4 DEF MayReplace, Stops, Eots, Pulls
<1>7. b \in CallsOf(StepsOf("handler")) /\ Shape(b)
  BY <1>2, <1>3, <1>6, PushedTyped, PushedShape
<1>8. b # <<>> /\ b[1][1] = "SendRawFrame"
  <2> DEFINE S == StepsOf("handler")
  <2>1. c \in CallsOf(S) /\ c # <<>> /\ s \in Seq(S) /\ Len(s) > 0
    BY <1>2, <1>3, <1>4
  <2> HIDE DEF c, s, S
  <2>2. Rest(c, s) # <<>> /\ Rest(c, s)[1] = s[1] /\ Rest(c, s) \in Seq(S)
    BY <2>1, RestFirst, RestFacts
  <2>3. Tail(c) \in CallsOf(S)
    BY <2>1, TailFacts
  <2>4. b = << Rest(c, s) >> \o Tail(c)
    BY <2>2 DEF Pushed
  <2>5. b # <<>> /\ b[1] = Rest(c, s)
    BY <2>2, <2>3, <2>4, ConsFacts
  <2>6. Rest(c, s)[1] = "SendRawFrame"
    BY <1>4, <2>2
  <2> HIDE DEF b
  <2> QED BY <2>5, <2>6
<1> HIDE DEF b, c
<1>9. Head(Head(b)) = "SendRawFrame"
  BY <1>7, <1>8, CallFacts
<1>10. CallsTyped'
  <2>1. CallsTyped BY DEF Typed, ControlTyped
  <2>2. b \in CallsOf(Steps)
    BY <1>2, <1>7, StepsOfThread, CallsWithin
  <2>3. calls' \in [Threads -> CallsOf(Steps)] /\ at' \in [Threads -> {"run", "check", "wait"}]
    BY <1>5, <2>1, <2>2 DEF CallsTyped
  <2>4. calls'["handler"] = b
    BY <1>2, <1>5, <2>1 DEF CallsTyped
  <2>5. ASSUME NEW u \in Threads
        PROVE  /\ calls'[u] \in CallsOf(StepsOf(u))
               /\ at'[u] # "run" => Busy(u)' /\ Step(u)' \in DOMAIN Reply
    <3>1. CASE u = "handler"
      <4>1. "SendRawFrame" \in DOMAIN Reply BY DEF Reply
      <4> QED BY <1>7, <1>8, <1>9, <2>4, <3>1, <4>1 DEF Busy, Step
    <3>2. CASE u # "handler"
      <4>1. calls'[u] = calls[u] /\ at'[u] = at[u] BY <1>5, <2>1, <3>2 DEF CallsTyped
      <4> QED BY <2>1, <4>1 DEF CallsTyped, Busy, Step
    <3> QED BY <3>1, <3>2
  <2> QED BY <1>7, <2>3, <2>4, <2>5 DEF CallsTyped
<1>11. HandleKnown'
  <2>1. calls'["handler"] = b
    BY <1>2, <1>5 DEF Typed, ControlTyped, CallsTyped
  <2> QED BY <1>9, <2>1 DEF HandleKnown, Step
<1>12. ControlTyped'
  BY <1>10, <1>11 DEF ControlTyped
<1> QED BY <1>1, <1>12, OwnTyped DEF Typed, DtaTyped, llcpTestVars
LEMMA HcePullTyped ==
  ASSUME MwIfAssumption, DtaAssumption, Typed, HcePull \/ UiccPull
  PROVE  Typed'
<1> DEFINE c == calls["handler"]
           x == <<"CheckActive", "SendRawFrame">>
           z == <<"CheckActive", "SendRawFrame", "HcePull">>
<1>1. PICK step \in Pulls : At("handler", step)
  BY DEF HcePull, UiccPull, Pulls
<1>2. /\ UNCHANGED <<setting, stackVars, mwVars, mwQueue, cb, sLastQueueData, llcpTestVars>>
      /\ dtaQueue # <<>> /\ dtaQueue' = Tail(dtaQueue)
  BY DEF HcePull, UiccPull, dtaVars, appVars
<1>3. /\ c \in CallsOf(StepsOf("handler")) /\ c # <<>> /\ Shape(c) /\ c[1][1] \in Pulls
      /\ at["handler"] = "run" /\ step \notin {"Connect"} \cup Ignored
  BY <1>1, HandlerAt DEF Pulls, Ignored
<1>4. \/ Return("handler") \/ Proceed("handler", z) \/ Proceed("handler", <<>>)
      \/ calls' = [calls EXCEPT !["handler"] = << x >> \o c] /\ UNCHANGED at
      \/ UNCHANGED threadVars
  BY HandlerTuples DEF HcePull, UiccPull
<1>5. CASE Return("handler")
  <2>1. Step("handler") = step BY <1>1 DEF At
  <2>2. Popped("handler") BY <1>3, <1>5, <2>1, Returned
  <2>3. ControlTyped' BY <1>1, <2>2, HandlerReturns
  <2> QED BY <1>2, <2>3, OwnTyped DEF Typed, DtaTyped, llcpTestVars
<1>6. CASE Proceed("handler", z)
  <2>1. z \in Seq(TestSteps \cup Pulls) /\ Len(z) = 3 /\ z[1] = "CheckActive"
        /\ z[2] = "SendRawFrame" /\ z[3] = "HcePull"
    <3> DEFINE T == TestSteps \cup Pulls
    <3>1. "CheckActive" \in T /\ "SendRawFrame" \in T /\ "HcePull" \in T
      BY DEF TestSteps, Pulls
    <3> HIDE DEF T
    <3>2. z \in Seq(T) /\ Len(z) = 3 /\ z[1] = "CheckActive"
          /\ z[2] = "SendRawFrame" /\ z[3] = "HcePull"
      BY <3>1
    <3> QED BY <3>2 DEF T
  <2> HIDE DEF z
  <2>2. z \in Seq(StepsOf("handler"))
    BY <2>1, StepsWithin, SeqMonotonic
  <2>3. MayReplace(z, c)
    <3>1. \A j \in 1 .. Len(z) : z[j] \in {"CheckActive", "SendRawFrame", "HcePull"}
      BY <2>1
    <3>2. c[1][1] \notin {"Connect", "StartRfDiscovery"} BY <1>3 DEF Pulls
    <3> QED BY <1>3, <3>1, <3>2 DEF MayReplace, Eots, Stops
  <2>4. Moved("handler", z) BY <1>6, Proceeded
  <2>5. ControlTyped'
    BY <1>1, <1>3, <2>2, <2>3, <2>4, HandlerMoved
  <2> QED BY <1>2, <2>5, OwnTyped DEF Typed, DtaTyped, llcpTestVars
<1>7. CASE Proceed("handler", <<>>)
  <2>1. ControlTyped' BY <1>1, <1>3, <1>7, HandlerProceeds
  <2> QED BY <1>2, <2>1, OwnTyped DEF Typed, DtaTyped, llcpTestVars
<1>8. CASE calls' = [calls EXCEPT !["handler"] = << x >> \o c] /\ UNCHANGED at
  <2>1. x \in Seq(StepsOf("handler")) /\ x # <<>>
    BY HandlerTuples, StepsWithin, SeqMonotonic
  <2>2. Len(x) = 2 /\ x[1] = "CheckActive" /\ x[2] = "SendRawFrame"
    OBVIOUS
  <2> DEFINE b == << x >> \o c
             n == Len(c)
  <2> HIDE DEF x
  <2>3. /\ b \in CallsOf(StepsOf("handler")) /\ b # <<>> /\ Len(b) = n + 1 /\ b[1] = x
        /\ \A i \in 2 .. n + 1 : b[i] = c[i - 1]
    BY <1>3, <2>1, ConsFacts
  <2>4. n \in Nat
    BY <1>3, CallFacts
  <2>5. Shape(b)
    <3>1. \A i \in 1 .. n : /\ Follows(c[i])
                            /\ i # 1 => c[i][1] \notin {"SaveConn", "SetStarted"}
      BY <2>4, <1>3 DEF Shape, n
    <3>2. c[1][1] \notin {"SaveConn", "SetStarted"} BY <1>3 DEF Pulls
    <3> HIDE DEF b, n, c
    <3>3. Follows(x) BY <2>2 DEF Follows, Stops
    <3>4. x[1] \notin Stops /\ \A j \in 1 .. Len(x) : x[j] \notin Eots \cup Pulls
      <4>1. \A j \in 1 .. Len(x) : x[j] \in {"CheckActive", "SendRawFrame"} BY <2>2
      <4> QED BY <2>2, <4>1 DEF Eots, Pulls, Stops
    <3>5. \A i \in 2 .. n + 1 : i - 1 \in 1 .. n /\ b[i] = c[i - 1]
      BY <2>3, <2>4
    <3>6. \A i \in 1 .. n + 1 : i = 1 \/ i \in 2 .. n + 1
      BY <2>4
    <3>7. \A i \in 1 .. n + 1 : Follows(b[i])
      BY <2>3, <3>1, <3>3, <3>5, <3>6
    <3>8. \A i \in 2 .. n + 1 : b[i][1] \notin {"SaveConn", "SetStarted"}
      BY <3>1, <3>2, <3>5
    <3>9. NoEot(c) => NoEot(b)
      <4> SUFFICES ASSUME NoEot(c), NEW i \in 1 .. n + 1, NEW j \in 1 .. Len(b[i])
                   PROVE  b[i][j] \notin Eots
        BY <2>3 DEF NoEot
      <4>1. CASE i = 1 BY <2>3, <3>4, <4>1
      <4>2. CASE i \in 2 .. n + 1 BY <3>5, <4>2 DEF NoEot, n
      <4> QED BY <3>6, <4>1, <4>2
    <3>10. ASSUME NEW i \in 1 .. n + 1, b[i][1] \in Stops
           PROVE  /\ i < n + 1 /\ b[n + 1][1] = "StartRfDiscovery"
                  /\ \A k \in i .. n + 1 : \A j \in 1 .. Len(b[k]) : b[k][j] \notin Eots
      <4>1. i \in 2 .. n + 1 /\ c[i - 1][1] \in Stops /\ i - 1 \in 1 .. n
        BY <2>3, <3>4, <3>5, <3>6, <3>10
      <4>2. /\ i - 1 < n /\ c[n][1] = "StartRfDiscovery"
            /\ \A k \in i - 1 .. n : \A j \in 1 .. Len(c[k]) : c[k][j] \notin Eots
        BY <1>3, <4>1 DEF Shape, n
      <4>3. i < n + 1 /\ n + 1 \in 2 .. n + 1 /\ (n + 1) - 1 = n
        BY <2>4, <4>1, <4>2
      <4>4. \A k \in i .. n + 1 : b[k] = c[k - 1] /\ k - 1 \in i - 1 .. n
        BY <2>4, <3>5, <4>1
      <4> QED BY <2>3, <4>2, <4>3, <4>4
    <3>11. ASSUME NEW i \in 1 .. n + 1, NEW j \in 1 .. Len(b[i]), b[i][j] \in Pulls
           PROVE  NoEot(b) /\ \E k \in i + 1 .. n + 1 : b[k][1] \in Stops
      <4>1. i \in 2 .. n + 1 /\ c[i - 1][j] \in Pulls /\ i - 1 \in 1 .. n /\ j \in 1 .. Len(c[i - 1])
        BY <2>3, <3>4, <3>5, <3>6, <3>11
      <4>2. NoEot(c) /\ \E k \in (i - 1) + 1 .. n : c[k][1] \in Stops
        BY <1>3, <4>1 DEF Shape, n
      <4>3. PICK k \in (i - 1) + 1 .. n : c[k][1] \in Stops
        BY <4>2
      <4>4. k + 1 \in i + 1 .. n + 1 /\ b[k + 1] = c[k]
        <5>1. k + 1 \in i + 1 .. n + 1 /\ k + 1 \in 2 .. n + 1 /\ (k + 1) - 1 = k
          BY <2>4, <4>1, <4>3
        <5> QED BY <3>5, <5>1
      <4> QED BY <3>9, <4>2, <4>3, <4>4
    <3> QED BY <2>3, <3>7, <3>8, <3>10, <3>11 DEF Shape
  <2>6. b[1][1] # "SaveConn"
    BY <2>2, <2>3
  <2>7. calls' = [calls EXCEPT !["handler"] = b] /\ UNCHANGED at /\ at["handler"] = "run"
    BY <1>3, <1>8 DEF x
  <2> HIDE DEF b
  <2>8. ControlTyped'
    BY <2>3, <2>5, <2>6, <2>7, HandlerSet
  <2> QED BY <1>2, <2>8, OwnTyped DEF Typed, DtaTyped, llcpTestVars
<1>9. CASE UNCHANGED threadVars
  <2>1. ControlTyped'
    BY <1>2, <1>9 DEF Typed, ControlTyped, CallsTyped, HandleKnown, Busy, Step, threadVars
  <2> QED BY <1>2, <2>1, OwnTyped DEF Typed, DtaTyped, llcpTestVars
<1> QED BY <1>4, <1>5, <1>6, <1>7, <1>8, <1>9

LEMMA HandlerTyped ==
  ASSUME StackAssumption, MwIfAssumption, DtaAssumption, Typed, Handler
  PROVE  Typed'
<1>1. "handler" \in Threads
  BY DEF DtaAssumption
<1>2. ASSUME CallStep("handler") \/ LlcpStep, UNCHANGED dtaVars PROVE Typed'
  <2>1. UNCHANGED <<setting, llcpTestVars>>
    BY <1>2 DEF dtaVars, appVars
  <2>2. StackTyped' /\ CallEffect("handler") /\ MwEffect("handler")
    BY <1>1, <1>2, <2>1, CallStepEffect, IssueLlcpEffect DEF LlcpStep
  <2> QED BY <1>1, <2>1, <2>2, CallTyped
<1> QED
  BY <1>2, HandlerPullTyped, EotTyped, SendLastTyped, HcePullTyped, SaveTyped DEF Handler

-----------------------------------------------------------------------------
(* The application, the integration thread and the tester.                 *)

LEMMA OtherSteps ==
  /\ DiscoverySteps \cup SetUpSteps \subseteq StepsOf("app")
  /\ DiscoverySteps \cup {"Select", "Restart", "Exited"} \subseteq StepsOf("integration")
BY DEF StepsOf

LEMMA SetUpTyped ==
  ASSUME NEW cfg, NEW llcp
  PROVE  SetUp(cfg, llcp) \in Seq(SetUpSteps) /\ SetUp(cfg, llcp) # <<>>
<1> DEFINE S == SetUpSteps
           host == HceInit \o HceConfigure
           element == EeInit \o EeConfigure
           emulation == CASE cfg.ceType = "HOST_CE" -> host
                          [] cfg.ceType \in {"UICC_CE", "SE_CE"} -> element
                          [] OTHER -> <<>>
           x == IF llcp THEN LlcpInit \o LlcpServers ELSE <<>>
           y == IF cfg.enableCE THEN emulation ELSE <<>>
<1>1. /\ "SendNxpNci" \in S /\ "SetParam" \in S /\ "SetConfig" \in S /\ "RegisterClient" \in S
      /\ "SaveLlcpInit" \in S /\ "RegisterServer" \in S /\ "RegisterClServer" \in S
      /\ "EeRegister" \in S /\ "SetTechRouting" \in S /\ "SetProtoRouting" \in S
      /\ "EeUpdateNow" \in S /\ "EeGetInfo" \in S /\ "HciRegister" \in S
      /\ "EeStatus" \in S /\ "Enable" \in S
  BY DEF SetUpSteps
<1> HIDE DEF S
<1>2. SetMwIfConfig \in Seq(S) /\ SetMwIfConfig # <<>>
  BY <1>1 DEF SetMwIfConfig
<1>3. LlcpInit \in Seq(S) BY <1>1 DEF LlcpInit
<1>4. LlcpServers \in Seq(S) BY <1>1 DEF LlcpServers
<1>5. HceInit \in Seq(S) /\ HceConfigNciParams \in Seq(S)
  BY <1>1 DEF HceInit, HceConfigNciParams
<1>6. SetRouting \in Seq(S) /\ <<"EeUpdateNow">> \in Seq(S) /\ <<"Enable">> \in Seq(S)
      /\ <<>> \in Seq(S)
  BY <1>1 DEF SetRouting
<1>7. EeInit \in Seq(S) BY <1>1 DEF EeInit
<1>8. \A a, b \in Seq(S) : a \o b \in Seq(S)
  BY ConcatProperties
<1>9. HceConfigure \in Seq(S) BY <1>5, <1>6, <1>8 DEF HceConfigure
<1>10. EeConfigure \in Seq(S) BY <1>6, <1>8 DEF EeConfigure
<1>11. host \in Seq(S) /\ element \in Seq(S) BY <1>5, <1>7, <1>8, <1>9, <1>10
<1>12. LlcpInit \o LlcpServers \in Seq(S) BY <1>3, <1>4, <1>8
<1> HIDE DEF host, element
<1>13. x \in Seq(S) /\ y \in Seq(S)
  BY <1>6, <1>11, <1>12
<1>14. SetUp(cfg, llcp) = SetMwIfConfig \o x \o y \o <<"Enable">>
  BY DEF SetUp, host, element
<1> HIDE DEF x, y
<1>15. SetMwIfConfig \o x \in Seq(S) /\ SetMwIfConfig \o x # <<>>
  BY <1>2, <1>13, ConcatNotEmpty
<1>16. SetMwIfConfig \o x \o y \in Seq(S) /\ SetMwIfConfig \o x \o y # <<>>
  BY <1>13, <1>15, ConcatNotEmpty
<1> QED BY <1>6, <1>14, <1>16, ConcatNotEmpty DEF S

(* Between its calls the application is in none of them.                   *)
AppIdle == appState \notin {"starting", "stopping"} => ~Busy("app")

LEMMA OtherSet ==
  ASSUME DtaAssumption, Typed, NEW t \in Threads, t # "handler",
         NEW c \in CallsOf(StepsOf(t)), calls' = [calls EXCEPT ![t] = c],
         at' = [at EXCEPT ![t] = "run"] \/ (UNCHANGED at /\ at[t] = "run"),
         sLastQueueData' = sLastQueueData
  PROVE  ControlTyped'
<1>1. CallsTyped'
  BY CallsSet DEF Typed, ControlTyped
<1>2. calls'["handler"] = calls["handler"]
  BY DEF Typed, ControlTyped, CallsTyped, DtaAssumption
<1> QED BY <1>1, <1>2 DEF Typed, ControlTyped, HandleKnown, Busy, Step

(* Its own steps leave the interface alone.                                *)
LEMMA OtherTyped ==
  ASSUME MwIfAssumption, Typed, ControlTyped',
         UNCHANGED <<setting, stackVars, mwVars, queueVars, cb, llcpTestVars>>
  PROVE  Typed'
BY OwnTyped DEF Typed, DtaTyped, llcpTestVars, queueVars

LEMMA AppEnableTyped ==
  ASSUME MwIfAssumption, DtaAssumption, Typed, AppIdle, AppEnable
  PROVE  Typed' /\ AppIdle'
<1>1. PICK cfg \in Configs, llcp \in LlcpModes :
        calls' = [calls EXCEPT !["app"] = << SetUp(cfg, llcp) >>]
  BY DEF AppEnable
<1>2. "app" \in Threads /\ ~Busy("app") /\ appState' = "starting"
      /\ UNCHANGED <<setting, stackVars, mwVars, queueVars, cb, at, llcpTestVars>>
  BY DEF AppEnable, AppIdle, DtaAssumption
<1> DEFINE d == SetUp(cfg, llcp)
<1>3. d \in Seq(StepsOf("app")) /\ d # <<>>
  BY SetUpTyped, OtherSteps, SeqMonotonic
<1> HIDE DEF d
<1>4. << d >> \in CallsOf(StepsOf("app"))
  BY <1>3, OneCall
<1>5. at["app"] = "run"
  BY <1>2 DEF Typed, ControlTyped, CallsTyped
<1>6. ControlTyped'
  BY <1>1, <1>2, <1>4, <1>5, OtherSet DEF d, queueVars
<1> QED BY <1>2, <1>6, OtherTyped DEF AppIdle

LEMMA AppDisableTyped ==
  ASSUME MwIfAssumption, DtaAssumption, Typed, AppIdle, AppDisable
  PROVE  Typed' /\ AppIdle'
<1> DEFINE S == StepsOf("app")
           x == TakeDown(arg["app"])
           c == x \o <<DisableDiscovery>>
<1>1. /\ "app" \in Threads /\ ~Busy("app") /\ appState' = "stopping"
      /\ calls' = [calls EXCEPT !["app"] = c]
      /\ UNCHANGED <<setting, stackVars, mwVars, queueVars, cb, at, llcpTestVars>>
  BY DEF AppDisable, AppIdle, DtaAssumption
<1>2. at["app"] = "run"
  BY <1>1 DEF Typed, ControlTyped, CallsTyped
<1>3. x \in {<<HceDeInit>>, <<EeDeInit>>, <<>>}
  BY DEF TakeDown
<1>4. "EeDeregister" \in S /\ "HciDeregister" \in S
  BY DEF StepsOf, SetUpSteps
<1>5. DisableDiscovery \in Seq(S) /\ DisableDiscovery # <<>>
  BY DiscoveryCalls, StepsWithin, SeqMonotonic
<1> HIDE DEF S, x
<1>6. HceDeInit \in Seq(S) /\ HceDeInit # <<>>
  BY <1>4 DEF HceDeInit
<1>7. EeDeInit \in Seq(S) /\ EeDeInit # <<>>
  BY <1>4 DEF EeDeInit
<1>8. /\ <<HceDeInit>> \in CallsOf(S) /\ <<EeDeInit>> \in CallsOf(S) /\ <<>> \in CallsOf(S)
      /\ <<DisableDiscovery>> \in CallsOf(S)
  BY <1>5, <1>6, <1>7, OneCall DEF CallsOf
<1>9. c \in CallsOf(S)
  BY <1>3, <1>8, TwoCalls
<1> HIDE DEF c
<1>10. ControlTyped'
  BY <1>1, <1>2, <1>9, OtherSet DEF S, queueVars
<1> QED BY <1>1, <1>10, OtherTyped DEF AppIdle

LEMMA EnableTyped ==
  ASSUME MwIfAssumption, DtaAssumption, Typed, Enable
  PROVE  Typed'
<1> DEFINE S == StepsOf("app")
           T == Seq(S) \ {<<>>}
           a == EnableDiscovery[1]
           b == EnableDiscovery[2]
           d == <<"StartRfDiscovery", "SetStarted">>
           e == d \o <<"SavePrev">>
           c == << a, b, e >>
<1>1. "app" \in Threads /\ at["app"] = "run"
      /\ UNCHANGED <<setting, stackVars, mwVars, queueVars, cb, at, llcpTestVars>>
  BY DEF Enable, At, dtaVars, appVars, DtaAssumption
<1>2. "StartRfDiscovery" \in S /\ "SetStarted" \in S /\ "SavePrev" \in S
  BY DEF StepsOf, SetUpSteps, DiscoverySteps
<1>3. EnableDiscovery \in CallsOf(S)
  BY DiscoveryCalls, StepsWithin, CallsWithin
<1>4. Len(EnableDiscovery) = 3 /\ EnableDiscovery[3] = d
  BY EnableShape
<1> HIDE DEF S
<1>5. a \in T /\ b \in T
  BY <1>3, <1>4, CallFacts
<1>6. d \in Seq(S) /\ d # <<>> /\ <<"SavePrev">> \in Seq(S)
  BY <1>2
<1>7. e \in T
  BY <1>6, ConcatNotEmpty
<1>8. calls' = [calls EXCEPT !["app"] = c]
  BY <1>4 DEF Enable
<1> HIDE DEF a, b, e, T
<1>9. c \in Seq(T)
  BY <1>5, <1>7
<1>10. c \in CallsOf(S)
  BY <1>9 DEF CallsOf, T
<1> HIDE DEF c
<1>11. ControlTyped'
  BY <1>1, <1>8, <1>10, OtherSet DEF S, queueVars
<1> QED BY <1>1, <1>11, OtherTyped

LEMMA SavePrevTyped ==
  ASSUME MwIfAssumption, DtaAssumption, Typed, SavePrev
  PROVE  Typed'
<1>1. "app" \in Threads /\ Busy("app") /\ Proceed("app", <<>>)
      /\ UNCHANGED <<setting, stackVars, mwVars, queueVars, cb, llcpTestVars>>
  BY DEF SavePrev, At, DtaAssumption
<1>2. Moved("app", <<>>)
  BY <1>1, Proceeded
<1>3. /\ calls["app"] \in CallsOf(StepsOf("app")) /\ calls["app"] # <<>>
  BY <1>1, StepIs DEF Typed
<1>4. Pushed(calls["app"], <<>>) \in CallsOf(StepsOf("app"))
  <2>1. <<>> \in Seq(StepsOf("app")) OBVIOUS
  <2> QED BY <1>3, <2>1, PushedTyped
<1>5. calls' = [calls EXCEPT !["app"] = Pushed(calls["app"], <<>>)]
      /\ at' = [at EXCEPT !["app"] = "run"]
  BY <1>2 DEF Moved
<1>6. ControlTyped'
  BY <1>1, <1>4, <1>5, OtherSet DEF queueVars
<1> QED BY <1>1, <1>6, OtherTyped

(* A step of a call of a thread; the other threads stay where they are.    *)
LEMMA CallStepTyped ==
  ASSUME StackAssumption, MwIfAssumption, DtaAssumption, Typed, NEW t \in Threads,
         CallStep(t), UNCHANGED dtaVars
  PROVE  /\ Typed' /\ CallEffect(t) /\ MwEffect(t)
         /\ \A u \in Threads \ {t} : calls'[u] = calls[u] /\ at'[u] = at[u]
<1>1. UNCHANGED <<setting, llcpTestVars>>
  BY DEF dtaVars, appVars
<1>2. StackTyped' /\ CallEffect(t) /\ MwEffect(t)
  BY <1>1, CallStepEffect
<1>3. Typed'
  BY <1>1, <1>2, CallTyped
<1>4. calls \in [Threads -> CallsOf(Steps)] /\ at \in [Threads -> {"run", "check", "wait"}]
  BY DEF Typed, ControlTyped, CallsTyped
<1>5. \A u \in Threads \ {t} : calls'[u] = calls[u] /\ at'[u] = at[u]
  BY <1>2, <1>4 DEF CallEffect, Stays, Commands, Waits, Goes, Entered, Moved, Popped
<1> QED BY <1>2, <1>3, <1>5

LEMMA AppTyped ==
  ASSUME StackAssumption, MwIfAssumption, DtaAssumption, Typed, AppIdle, App
  PROVE  Typed' /\ AppIdle'
<1>1. "app" \in Threads
  BY DEF DtaAssumption
<1>2. CASE Enable
  BY <1>2, EnableTyped DEF Enable, AppIdle, At, dtaVars, appVars
<1>3. CASE SavePrev
  BY <1>3, SavePrevTyped DEF SavePrev, AppIdle, At
<1>4. CASE AppReturns
  <2>1. UNCHANGED <<setting, stackVars, mwVars, queueVars, cb, threadVars, llcpTestVars>>
        /\ ~Busy("app")
    BY <1>4 DEF AppReturns
  <2>2. ControlTyped'
    BY <2>1 DEF Typed, ControlTyped, CallsTyped, HandleKnown, Busy, Step, threadVars, queueVars
  <2>3. AppIdle'
    BY <2>1 DEF AppIdle, Busy, threadVars
  <2> QED BY <2>1, <2>2, <2>3, OtherTyped
<1>5. CASE CallStep("app") /\ UNCHANGED dtaVars
  <2>1. Busy("app") /\ appState' = appState
    BY <1>5 DEF CallStep, dtaVars, appVars
  <2> QED BY <1>1, <1>5, <2>1, CallStepTyped DEF AppIdle
<1> QED BY <1>2, <1>3, <1>4, <1>5 DEF App

LEMMA IntegratorIs ==
  ASSUME DtaAssumption, NEW t \in Integrator
  PROVE  t = "integration" /\ t \in Threads
BY DEF DtaAssumption, Integrator

LEMMA WakeCalls ==
  /\ << <<"Select", "Restart">>, <<"Exited">> >> \in CallsOf(StepsOf("integration"))
  /\ << <<"Restart">> >> \in CallsOf(StepsOf("integration"))
<1> DEFINE S == StepsOf("integration")
           T == Seq(S) \ {<<>>}
           a == <<"Select", "Restart">>
           b == <<"Exited">>
           d == <<"Restart">>
<1>1. "Select" \in S /\ "Restart" \in S /\ "Exited" \in S
  BY DEF StepsOf
<1> HIDE DEF S
<1>2. a \in T /\ b \in T /\ d \in T
  BY <1>1
<1> HIDE DEF T, a, b, d
<1>3. << a, b >> \in Seq(T) /\ << d >> \in Seq(T)
  BY <1>2
<1> QED BY <1>3 DEF CallsOf, S, T, a, b, d

LEMMA IntegrationTyped ==
  ASSUME StackAssumption, MwIfAssumption, DtaAssumption, Typed, AppIdle,
         NEW t \in Integrator, Integration(t)
  PROVE  Typed' /\ AppIdle'
<1>1. t = "integration" /\ t \in Threads /\ "app" \in Threads \ {t}
  BY IntegratorIs DEF DtaAssumption
<1>2. UNCHANGED <<setting, llcpTestVars, appState>>
  BY DEF Integration, dtaVars, appVars
<1>3. calls \in [Threads -> CallsOf(Steps)]
  BY DEF Typed, ControlTyped, CallsTyped
<1>4. CASE IntegrationWake(t)
  <2>1. PICK c \in { << <<"Select", "Restart">>, <<"Exited">> >>, << <<"Restart">> >> } :
          calls' = [calls EXCEPT ![t] = c]
    BY <1>4 DEF IntegrationWake
  <2>2. c \in CallsOf(StepsOf(t))
    BY <1>1, WakeCalls
  <2>3. ~Busy(t) /\ UNCHANGED <<stackVars, eDeviceState, gx_status, queueVars, cb, at>>
    BY <1>4 DEF IntegrationWake
  <2>4. at[t] = "run"
    BY <1>1, <2>3 DEF Typed, ControlTyped, CallsTyped
  <2>5. ControlTyped'
    BY <1>1, <2>1, <2>2, <2>3, <2>4, OtherSet DEF queueVars
  <2>6. StackTyped'
    BY <1>2, <2>3, StackKept DEF Typed
  <2>7. MwTyped' /\ DtaTyped'
    BY <1>2, <2>3 DEF Typed, MwTyped, DtaTyped, llcpTestVars, queueVars, MwQLength, DtaQLength
  <2>8. AppIdle'
    BY <1>1, <1>2, <1>3, <2>1 DEF AppIdle, Busy
  <2> QED BY <2>5, <2>6, <2>7, <2>8 DEF Typed
<1>5. CASE IntegrationRestart(t)
  <2>1. calls' = [calls EXCEPT ![t] = StopAndStart] /\ at[t] = "run"
        /\ UNCHANGED <<stackVars, mwVars, queueVars, cb, at>>
    BY <1>5 DEF IntegrationRestart, At, StopAndStart, StartAgain
  <2>2. StopAndStart \in CallsOf(StepsOf(t))
    BY <1>1, DiscoveryCalls, StepsWithin, CallsWithin
  <2>3. ControlTyped'
    BY <1>1, <2>1, <2>2, OtherSet DEF queueVars
  <2>4. AppIdle'
    BY <1>1, <1>2, <1>3, <2>1 DEF AppIdle, Busy
  <2> QED BY <1>2, <2>1, <2>3, <2>4, OtherTyped
<1>6. CASE CallStep(t)
  <2>1. UNCHANGED dtaVars BY DEF Integration
  <2>2. Typed' /\ calls'["app"] = calls["app"]
    BY <1>1, <1>6, <2>1, CallStepTyped
  <2> QED BY <1>2, <2>2 DEF AppIdle, Busy
<1> QED BY <1>4, <1>5, <1>6 DEF Integration

LEMMA TesterTyped ==
  ASSUME StackAssumption, Typed, AppIdle, TesterActs
  PROVE  Typed' /\ AppIdle'
<1>1. UNCHANGED <<setting, appState, llcpTestVars, mwVars, queueVars, cb, threadVars>> /\ Tester
  BY DEF TesterActs, dtaVars, appVars
<1>2. StackTyped'
  BY <1>1, TesterStep DEF Typed
<1>3. MwTyped' /\ DtaTyped' /\ ControlTyped' /\ AppIdle'
  BY <1>1 DEF Typed, MwTyped, DtaTyped, ControlTyped, CallsTyped, HandleKnown, Busy, Step,
              mwVars, queueVars, threadVars, llcpTestVars, MwQLength, DtaQLength, AppIdle
<1> QED BY <1>2, <1>3 DEF Typed

(* The handler and the stack's thread do not touch the application's calls. *)
LEMMA HandlerAlone ==
  ASSUME StackAssumption, MwIfAssumption, DtaAssumption, Typed, Handler,
         NEW u \in Threads \ {"handler"}
  PROVE  calls'[u] = calls[u] /\ at'[u] = at[u]
<1>1. "handler" \in Threads
      /\ calls \in [Threads -> CallsOf(Steps)] /\ at \in [Threads -> {"run", "check", "wait"}]
  BY DEF DtaAssumption, Typed, ControlTyped, CallsTyped
<1>2. CASE CallStep("handler") /\ UNCHANGED dtaVars
  <2>1. \A v \in Threads \ {"handler"} : calls'[v] = calls[v] /\ at'[v] = at[v]
    BY <1>1, <1>2, CallStepTyped
  <2> QED BY <2>1
<1>3. CASE LlcpStep
  BY <1>1, <1>3 DEF LlcpStep, IssueLlcp, Proceed, Enter, Return
<1>4. CASE HcePull \/ UiccPull
  BY <1>1, <1>4 DEF HcePull, UiccPull, Proceed, Return, threadVars
<1>5. CASE HandlerPull \/ CheckEot \/ Eot \/ SendLast \/ SaveConn \/ SaveClSap
  BY <1>1, <1>5 DEF HandlerPull, CheckEot, Eot, EndOfTest, SendLast, SaveConn, SaveClSap,
                    Proceed
<1> QED BY <1>2, <1>3, <1>4, <1>5 DEF Handler

LEMMA HandlerKeepsApp ==
  ASSUME StackAssumption, MwIfAssumption, DtaAssumption, Typed, Handler
  PROVE  calls'["app"] = calls["app"] /\ at'["app"] = at["app"] /\ appState' = appState
<1>1. "app" \in Threads \ {"handler"}
  BY DEF DtaAssumption
<1>2. appState' = appState
  BY DEF Handler, HandlerPull, CheckEot, Eot, SendLast, HcePull, UiccPull, SaveConn, SaveClSap,
         dtaVars, appVars
<1> QED BY <1>1, <1>2, HandlerAlone

LEMMA StackThreadTyped ==
  ASSUME MwIfAssumption, Typed, AppIdle, StackThread
  PROVE  Typed' /\ AppIdle'
<1>1. UNCHANGED <<setting, appState, llcpTestVars>>
  BY DEF StackThread, dtaVars, appVars
<1>2. AppIdle'
  BY <1>1 DEF AppIdle, Busy, StackThread, Callback, CallbackPush, threadVars
<1> QED BY <1>1, <1>2, CallbackTyped, CallbackPushTyped DEF StackThread

LEMMA InitTyped ==
  ASSUME MwIfAssumption, DtaAssumption, Init
  PROVE  Typed /\ AppIdle
<1> USE DEF Init, StackInit, MwInit
<1>1. StackTyped
  <2>1. setting \in DOMAIN Settings /\ rf = "stopped" /\ peer = "none" /\ owed = "none"
        /\ nfaOut = <<>> /\ sdp = FALSE
    OBVIOUS
  <2>2. links \in [Handles -> LinkStates]
    BY DEF NoLinks, LinkStates
  <2>3. nfaOut \in Seq(Events)
    BY <2>1
  <2> QED BY <2>1, <2>2, <2>3 DEF StackTyped, RfStates
<1>2. MwTyped
  <2>1. MwQLength \in Nat /\ DtaQLength \in Nat
    BY <1>1 DEF MwIfAssumption, StackTyped, MwQLength, DtaQLength
  <2>2. <<>> \in Todos BY DEF Todos
  <2> QED BY <2>1, <2>2 DEF MwTyped
<1>3. CallsTyped
  <2>1. \A S : <<>> \in CallsOf(S)
    BY DEF CallsOf
  <2> QED BY <2>1 DEF CallsTyped, DtaAssumption, Shape
<1>4. HandleKnown /\ DtaTyped /\ AppIdle
  BY DEF HandleKnown, DtaTyped, AppIdle, Busy, DtaAssumption
<1> QED BY <1>1, <1>2, <1>3, <1>4 DEF Typed, ControlTyped

LEMMA NextTyped ==
  ASSUME StackAssumption, MwIfAssumption, DtaAssumption, Typed, AppIdle, [Next]_vars
  PROVE  Typed' /\ AppIdle'
<1>1. CASE AppEnable BY <1>1, AppEnableTyped
<1>2. CASE AppDisable BY <1>2, AppDisableTyped
<1>3. CASE Handler
  BY <1>3, HandlerTyped, HandlerKeepsApp DEF AppIdle, Busy
<1>4. CASE App BY <1>4, AppTyped
<1>5. CASE StackThread BY <1>5, StackThreadTyped
<1>6. CASE TesterActs BY <1>6, TesterTyped
<1>7. CASE \E t \in Integrator : Integration(t)
  BY <1>7, IntegrationTyped
<1>8. CASE UNCHANGED vars
  <2>1. UNCHANGED <<setting, stackVars, mwVars, queueVars, cb, threadVars, llcpTestVars, appState>>
    BY <1>8 DEF vars, dtaVars, appVars
  <2>2. ControlTyped' /\ AppIdle'
    BY <2>1 DEF Typed, ControlTyped, CallsTyped, HandleKnown, Busy, Step, threadVars, queueVars,
                AppIdle
  <2> QED BY <2>1, <2>2, OtherTyped
<1> QED BY <1>1, <1>2, <1>3, <1>4, <1>5, <1>6, <1>7, <1>8 DEF Next

LEMMA TypedIsTypeOK ==
  ASSUME Typed
  PROVE  TypeOK
<1>1. DOMAIN links = Handles
  BY DEF Typed, StackTyped
<1>2. ASSUME NEW t \in Threads
      PROVE  /\ \A i \in 1 .. Len(calls[t]) :
                  calls[t][i] # <<>> /\ ToSet(calls[t][i]) \subseteq Steps
             /\ at[t] # "run" => Busy(t) /\ Step(t) \in DOMAIN Reply
  <2>1. calls[t] \in CallsOf(Steps) BY DEF Typed, ControlTyped, CallsTyped
  <2>2. \A i \in 1 .. Len(calls[t]) :
          calls[t][i] # <<>> /\ \A j \in DOMAIN calls[t][i] : calls[t][i][j] \in Steps
    BY <2>1, CallFacts
  <2> QED BY <2>2 DEF ToSet, Typed, ControlTyped, CallsTyped
<1> QED BY <1>1, <1>2 DEF TypeOK, Typed, MwTyped, DtaTyped

(* Whatever the tester presents and the stack answers or refuses, the      *)
(* threads stay in calls of the interface, each between a command and its  *)
(* answer only at a command, the queues keep to their lengths and the      *)
(* handles the library keeps are connections' handles, for any lengths of  *)
(* the queues, any set of handles and any bounds.                          *)
THEOREM TypeCorrect == Spec => []TypeOK
<1> USE StackAssumption, MwIfAssumption, DtaAssumption
<1>1. Init => Typed /\ AppIdle
  BY InitTyped
<1>2. (Typed /\ AppIdle) /\ [Next]_vars => (Typed /\ AppIdle)'
  BY NextTyped
<1>3. Typed /\ AppIdle => TypeOK
  BY TypedIsTypeOK
<1> QED BY <1>1, <1>2, <1>3, PTL DEF Spec

=============================================================================
