------------------------------- MODULE MCDtaLib -------------------------------
(***************************************************************************)
(* Instances of DtaLib for TLC: one thread of each kind, short queues, and *)
(* the discovery configurations the application's settings lead to.        *)
(***************************************************************************)
EXTENDS DtaLib

Emulate(ce, analog) == [enableCE |-> TRUE, ceType |-> ce, blAnalogMode |-> analog]
HostCe == Emulate("HOST_CE", FALSE)

Plain ==
  [ protocols |-> {}, selectable |-> {}, maxConnReqs |-> 0, maxUi |-> 0,
    mwQLength |-> 3, dtaQLength |-> 3, lateAnswers |-> FALSE, configs |-> {NoConfig},
    llcpModes |-> {FALSE}, appDisables |-> FALSE, maxLoopBack |-> 1 ]

(* Every tag and a target, with answers that come after their wait gave    *)
(* up, where stale answers may queue up or contacts may; or several        *)
(* targets, one of which is selected, with discovery disabled meanwhile.   *)
Reader == [Plain EXCEPT !.protocols = TagProtocols, !.lateAnswers = TRUE,
                        !.maxLoopBack = 2]
ReaderOrSelect ==
  [ answers  |-> [Reader EXCEPT !.mwQLength = 2, !.dtaQLength = 1],
    contacts |-> [Reader EXCEPT !.mwQLength = 1, !.dtaQLength = 2],
    select   |-> [Plain EXCEPT !.selectable = {"ISO_DEP", "UNKNOWN"}, !.appDisables = TRUE,
                               !.mwQLength = 1, !.dtaQLength = 2] ]

(* Card emulation on the host, on the UICC, and on the secure element in   *)
(* analog mode.  Or a peer over LLCP that asks for connections, or asks    *)
(* for one and sends data, or takes turns with another device, which       *)
(* leaves in the queue what nobody awaits.                                 *)
Llcp == [Plain EXCEPT !.protocols = {"NFC_DEP"}, !.llcpModes = {TRUE},
                      !.mwQLength = 4, !.dtaQLength = 4]
ListenOrLlcp ==
  [ listen  |-> [Plain EXCEPT !.protocols = CeProtocols,
                              !.configs = {HostCe, Emulate("UICC_CE", FALSE),
                                           Emulate("SE_CE", TRUE)},
                              !.mwQLength = 4, !.dtaQLength = 4],
    connect |-> [Llcp EXCEPT !.maxConnReqs = 2],
    data    |-> [Llcp EXCEPT !.maxConnReqs = 1, !.maxUi = 1],
    other   |-> [Llcp EXCEPT !.protocols = {"NFC_DEP", "UNKNOWN"}] ]

(* Card emulation on the host in shorter queues.                           *)
HceOnly ==
  [ hce |-> [Plain EXCEPT !.protocols = {"CE_ISO_DEP"}, !.configs = {HostCe}] ]

(* A tag, and an application that disables discovery.                      *)
DisableOnly ==
  [ disable |-> [Plain EXCEPT !.protocols = {"ISO_DEP"}, !.appDisables = TRUE] ]

===============================================================================
