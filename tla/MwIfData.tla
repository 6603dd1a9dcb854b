------------------------------- MODULE MwIfData -------------------------------
(***************************************************************************)
(* The receive path of the middleware interface (phMwIfAndroid.c): data of *)
(* a contact reaches the stack's thread in fragments, which the callback   *)
(* gathers in the global Pgs_cbTempBuffer; the event of the last fragment  *)
(* goes to pvQueueHdl and wakes the thread of the DTA library that waits   *)
(* for the answer and copies the buffer out.  Buffer, event and the checks *)
(* between them are not one step, and contacts end and begin meanwhile.    *)
(*                                                                         *)
(* MwIf and DtaLib have the commands and the restart of discovery in full, *)
(* without the data.  Here the data is in full, with the calls of the tag  *)
(* and peer operations that touch it.  A fragment is a record that says    *)
(* where it belongs; its bytes do not matter.  Control is kept as in MwIf: *)
(* a thread is a stack of calls, a call the sequence of steps it has left. *)
(***************************************************************************)
EXTENDS Naturals, Sequences, SequencesExt

CONSTANTS
  Testers,       \* what testers do: the kinds of their contacts, and a bound on how
                 \* often a contact sends data
  Builds,        \* subset of BOOLEAN: APP_HANDLE_DATA_CHAINING is defined
  MwQLength,     \* length of pvQueueHdl
  DtaQLength,    \* length of the DTA library's queue
  MaxOut,        \* bound: no new tester event while this many are undelivered
  MaxContacts,   \* bound: contacts the tester makes
  MaxFragments   \* bound: fragments of an answer

AllKinds == {"ISO_DEP", "T2T", "LISTEN"}

ASSUME DataAssumption ==
  /\ \A s \in Testers : s.kinds \subseteq AllKinds /\ s.answers \in Nat \ {0}
  /\ Builds \subseteq BOOLEAN
  /\ {MwQLength, DtaQLength, MaxOut, MaxContacts, MaxFragments} \subseteq Nat \ {0}

VARIABLES
  tester,            \* the tester, chosen once
  chaining,          \* this build has APP_HANDLE_DATA_CHAINING
  rf,                \* "stopped", "discovering", "active", "asleep"
  contact,           \* number of the last contact, its kind, what it sent so far
  owed,              \* events the contact is about to cause
  nfaOut,            \* events not yet handed to the callback
  eDeviceState, Pgu_event, gx_status,
  Pgs_cbTempBuffer,  \* fragments up to Pgui_cbTempBufferLength
  mwQueue, dtaQueue,
  cb,                \* the callback: its event and the pushes it has left
  calls, at,         \* the handler's calls, and where it is in the current step
  out,               \* what the last receiving call gave out: contents and length
  asked              \* history: the contact the frame of a call went to, 0 if none did

fixedVars == <<tester, chaining>>
stackVars == <<rf, contact, owed, nfaOut>>
mwVars == <<eDeviceState, Pgu_event, gx_status>>
threadVars == <<calls, at>>
vars == <<fixedVars, stackVars, mwVars, Pgs_cbTempBuffer, mwQueue, dtaQueue, cb,
          threadVars, out, asked>>

(* Nothing was given out. *)
Nothing == [data |-> <<>>, len |-> 0]

Event(type, detail) == [type |-> type, detail |-> detail]
NoEvent == Event("none", "none")

(* Discovery was enabled. *)
Init ==
  /\ tester \in Testers /\ chaining \in Builds
  /\ rf = "discovering"
  /\ contact = [id |-> 0, kind |-> "none", sent |-> 0]
  /\ owed = <<>> /\ nfaOut = <<>>
  /\ eDeviceState = "DISCOVERY_STARTED" /\ Pgu_event = "RF_DISCOVERY_STARTED"
  /\ gx_status = "OK"
  /\ Pgs_cbTempBuffer = <<>>
  /\ mwQueue = <<>> /\ dtaQueue = <<>>
  /\ cb = [ev |-> NoEvent, todo |-> <<>>]
  /\ calls = <<>> /\ at = "run"
  /\ out = Nothing
  /\ asked = 0

-----------------------------------------------------------------------------
(* The stack and the tester: outside the repository. *)

Report(events) == nfaOut' = nfaOut \o events

Fragment(n, i, of) == [contact |-> contact.id, no |-> n, part |-> i, of |-> of]

(* Stands for the place of a block longer than the callback takes. *)
TooBig == 0

(* The n-th answer of the contact.  Before Android L the stack puts the    *)
(* fragments together, and may then deliver more than the callback takes.  *)
Answers(n) ==
  IF chaining
  THEN { [i \in 1 .. of |-> Event("DATA", Fragment(n, i, of))] : of \in 1 .. MaxFragments }
  ELSE { <<Event("DATA", Fragment(n, i, 1))>> : i \in {1, TooBig} }

(* A block of a Type 2 tag comes before the completion of its read. *)
Block(n) == <<Event("DATA", Fragment(n, 1, 1)), Event("READ_CPLT", "none")>>

(* The present contact prepares its next answer, one of `answers'. *)
Prepare(answers) ==
  IF contact.sent < tester.answers
  THEN /\ contact' = [contact EXCEPT !.sent = @ + 1]
       /\ owed' \in answers
  ELSE UNCHANGED contact /\ owed' = <<>>

Present(k) ==
  /\ rf = "discovering" /\ owed = <<>>
  /\ contact.id < MaxContacts
  /\ rf' = "active"
  /\ contact' = [id |-> contact.id + 1, kind |-> k, sent |-> 0]
  /\ Report(<<Event("ACTIVATED", k)>>)
  /\ UNCHANGED owed

(* An initiator sends its first data without being asked. *)
Begin ==
  /\ rf = "active" /\ contact.kind = "LISTEN" /\ contact.sent = 0
  /\ Prepare(Answers(1))
  /\ UNCHANGED <<rf, nfaOut>>

Answer ==
  /\ rf = "active" /\ owed # <<>>
  /\ \/ Report(<<Head(owed)>>) /\ owed' = Tail(owed)
     \/ Report(<<Event("RW_INTF_ERROR", "none")>>) /\ owed' = <<>>
  /\ UNCHANGED <<rf, contact>>

(* The contact leaves the field, or the NFCC goes to idle. *)
Leave ==
  /\ rf = "active"
  /\ owed' = <<>>
  /\ \/ rf' = "discovering" /\ Report(<<Event("DEACTIVATED", "DISCOVERY")>>)
     \/ rf' = "stopped" /\ Report(<<Event("DEACTIVATED", "IDLE")>>)
  /\ UNCHANGED contact

Tester == /\ \/ \E k \in tester.kinds : Present(k)
             \/ Begin \/ Answer \/ Leave
          /\ Len(nfaOut) < MaxOut
          /\ UNCHANGED <<fixedVars, mwVars, Pgs_cbTempBuffer, mwQueue, dtaQueue, cb,
                         threadVars, out, asked>>

(* The commands; "Configure" stands for those between stop and start. *)
Reply == [Transceive |-> "DATA", Receive |-> "DATA", T2tRead |-> "READ_CPLT",
          DeactivateSleep |-> "DEACTIVATED", Deactivate |-> "DEACTIVATED",
          Stop |-> "RF_DISCOVERY_STOPPED", Configure |-> "CONFIGURED",
          StartRf |-> "RF_DISCOVERY_STARTED"]

Deactivation(type) ==
  IF rf \in {"active", "asleep"} THEN <<Event("DEACTIVATED", type)>> ELSE <<>>

Done(c) == <<Event(Reply[c], "none")>>

(* A frame goes to whatever contact there is, the read of a block only to *)
(* a Type 2 tag.                                                           *)
ToContact(c) ==
  /\ \/ c = "Transceive" /\ Prepare(Answers(contact.sent + 1))
     \/ c = "T2tRead" /\ contact.kind = "T2T" /\ Prepare({Block(contact.sent + 1)})
     \/ c = "T2tRead" /\ contact.kind # "T2T" /\ UNCHANGED <<contact, owed>>
  /\ asked' = contact.id
  /\ UNCHANGED <<rf, nfaOut>>

(* What follows an accepted command other than a frame. *)
Controls(c) ==
  /\ owed' = IF c \in {"Configure", "StartRf"} THEN owed ELSE <<>>
  /\ \/ c = "DeactivateSleep" /\ rf' = "asleep" /\ Report(Deactivation("SLEEP"))
     \/ c = "Deactivate" /\ rf' = "discovering" /\ Report(Deactivation("DISCOVERY"))
     \/ c = "Deactivate" /\ rf' = "stopped" /\ Report(Deactivation("IDLE"))
     \/ c = "Stop" /\ rf' = "stopped" /\ Report(Deactivation("IDLE") \o Done(c))
     \/ c = "Configure" /\ UNCHANGED rf /\ Report(Done(c))
     \/ /\ c = "StartRf" /\ Report(Done(c))
        /\ rf' = IF rf = "stopped" THEN "discovering" ELSE rf
  /\ asked' = 0
  /\ UNCHANGED contact

(* Commands that need a contact are refused without one. *)
Refused(c) == \/ c \in {"Transceive", "T2tRead", "DeactivateSleep"} /\ rf # "active"
              \/ c = "Deactivate" /\ rf \notin {"active", "asleep"}

-----------------------------------------------------------------------------
(* phMwIfi_NfaConnCallback: globals and buffer first, then the pushes.    *)

CallbackIdle == cb.todo = <<>>

(* Data without an event: a fragment that is not the last, a block that is *)
(* too long.                                                               *)
BadLength(e) == e.type = "DATA" /\ e.detail.part = TooBig
Silent(e) == \/ BadLength(e)
             \/ chaining /\ e.type = "DATA" /\ e.detail.part < e.detail.of

(* Mutant of BufferAfter: the end of the contact leaves the buffer as it is. *)
BufferKept(e) ==
  IF e.type = "DATA" /\ ~BadLength(e) THEN Append(Pgs_cbTempBuffer, e.detail)
  ELSE Pgs_cbTempBuffer

BufferAfter(e) ==
  CASE e.type = "DATA" /\ ~BadLength(e) -> Append(Pgs_cbTempBuffer, e.detail)
    [] e.type = "DEACTIVATED" -> <<>>
    [] OTHER -> Pgs_cbTempBuffer

StateAfter(e) ==
  CASE e.type = "ACTIVATED" -> "POLL_ACTIVE"
    [] e.type = "DEACTIVATED" /\ e.detail = "IDLE" -> "IDLE"
    [] OTHER -> eDeviceState

StatusAfter(e) ==
  IF BadLength(e) \/ e.type = "RW_INTF_ERROR" \/
     (e.type = "DEACTIVATED" /\ e.detail # "IDLE") THEN "FAILED" ELSE "OK"

PushesOf(e) ==
  CASE e.type = "ACTIVATED" -> <<"dta">>
    [] e.type = "DEACTIVATED" -> <<"mw", "dta">>
    [] Silent(e) -> <<>>
    [] OTHER -> <<"mw">>

Callback ==
  /\ CallbackIdle /\ nfaOut # <<>>
  /\ LET e == Head(nfaOut) IN
     /\ Pgu_event' = e.type
     /\ gx_status' = StatusAfter(e)
     /\ eDeviceState' = StateAfter(e)
     /\ Pgs_cbTempBuffer' = BufferAfter(e)
     /\ cb' = [ev |-> e, todo |-> PushesOf(e)]
  /\ nfaOut' = Tail(nfaOut)
  /\ UNCHANGED <<fixedVars, rf, contact, owed, mwQueue, dtaQueue, threadVars, out, asked>>

Pushed == cb' = IF Len(cb.todo) = 1 THEN [ev |-> NoEvent, todo |-> <<>>]
                ELSE [cb EXCEPT !.todo = Tail(@)]

(* Mutant of CallbackPush: it does not wait for room in pvQueueHdl. *)
PushAnyway ==
  /\ ~CallbackIdle /\ Pushed
  /\ \/ /\ Head(cb.todo) = "mw"
        /\ mwQueue' = Append(mwQueue, cb.ev.type)
        /\ UNCHANGED dtaQueue
     \/ /\ Head(cb.todo) = "dta" /\ Len(dtaQueue) < DtaQLength
        /\ dtaQueue' = Append(dtaQueue, cb.ev)
        /\ UNCHANGED mwQueue
  /\ UNCHANGED <<fixedVars, stackVars, mwVars, Pgs_cbTempBuffer, threadVars, out, asked>>

(* phOsal_QueuePush with timeout 0: waits for room. *)
CallbackPush ==
  /\ ~CallbackIdle /\ Pushed
  /\ \/ /\ Head(cb.todo) = "mw" /\ Len(mwQueue) < MwQLength
        /\ mwQueue' = Append(mwQueue, cb.ev.type)
        /\ UNCHANGED dtaQueue
     \/ /\ Head(cb.todo) = "dta" /\ Len(dtaQueue) < DtaQLength
        /\ dtaQueue' = Append(dtaQueue, cb.ev)
        /\ UNCHANGED mwQueue
  /\ UNCHANGED <<fixedVars, stackVars, mwVars, Pgs_cbTempBuffer, threadVars, out, asked>>

StackThread == Callback \/ CallbackPush

-----------------------------------------------------------------------------
(* The message handler thread: calls. *)

Busy == calls # <<>>
Step == Head(Head(calls))

Into(s) == LET rest == s \o Tail(Head(calls))
           IN  IF rest = <<>> THEN Tail(calls) ELSE <<rest>> \o Tail(calls)

Proceed(s) == calls' = Into(s) /\ at' = "run"
Return == calls' = Tail(calls) /\ at' = "run"
Enter(label) == at' = label /\ UNCHANGED calls

At(step) == Busy /\ at = "run" /\ Step = step

StartAgain == << <<"Configure">>, <<"StartRf", "SetStarted">> >>
StopAndStart == << <<"DiscoveryStop">> >> \o StartAgain

(* The operations of which received data is a part: the loop back with a   *)
(* tag or target, with an initiator, the reading of blocks.                *)
Round(e) ==
  CASE e = Event("ACTIVATED", "ISO_DEP") ->
         { << <<"Transceive", "LoopBack">> >> \o StopAndStart }
    [] e = Event("ACTIVATED", "LISTEN") ->
         { << <<"Receive", "Echo">> >> \o StopAndStart }
    [] e = Event("ACTIVATED", "T2T") ->
         { << reads, <<"DeactivateSleep">>, <<"Deactivate">> >> \o StartAgain :
             reads \in { <<"T2tRead">>, <<"T2tRead", "T2tRead">> } }
    [] OTHER -> {<<>>}

HandlerPull ==
  /\ ~Busy /\ dtaQueue # <<>>
  /\ calls' \in Round(Head(dtaQueue))
  /\ dtaQueue' = Tail(dtaQueue)
  /\ UNCHANGED <<at, stackVars, mwVars, Pgs_cbTempBuffer, mwQueue, cb, out, asked>>

(* The frame received goes back, or is the end of the test: deactivate, do *)
(* not restart.  An empty one goes back to a target too; the loop with a   *)
(* Type 4 tag then copies its length less two, and may end the program.    *)
LoopBack ==
  /\ At("LoopBack")
  /\ \/ Proceed(<<"Transceive", "LoopBack">>)
     \/ calls' = << <<"Deactivate">> >> /\ UNCHANGED at
  /\ UNCHANGED <<stackVars, mwVars, Pgs_cbTempBuffer, mwQueue, dtaQueue, cb, out, asked>>

(* Here the pattern command ends the loop, and so does an empty frame. *)
Echo ==
  /\ At("Echo")
  /\ \/ out.len # 0 /\ Proceed(<<"Transceive", "Echo">>)
     \/ Return
  /\ UNCHANGED <<stackVars, mwVars, Pgs_cbTempBuffer, mwQueue, dtaQueue, cb, out, asked>>

Active == eDeviceState = "POLL_ACTIVE"

(* phMwIf_Transceive returns at once when no contact is known. *)
NotConnected ==
  /\ At("Transceive") \/ At("Receive")
  /\ ~Active /\ Return
  /\ UNCHANGED <<stackVars, mwVars, Pgs_cbTempBuffer, mwQueue, dtaQueue, cb, out, asked>>

(* phMwIf_ReceiveP2PData: an initiator's data is awaited, not asked for. *)
BeginReceive ==
  /\ At("Receive") /\ Active /\ Enter("wait")
  /\ asked' = 0
  /\ UNCHANGED <<stackVars, mwVars, Pgs_cbTempBuffer, mwQueue, dtaQueue, cb, out>>

(* gx_status = NFA_...();  What the call before it gave out has been used. *)
Issue ==
  /\ Busy /\ at = "run" /\ Step \in DOMAIN Reply \ {"Receive"}
  /\ Step = "Transceive" => Active
  /\ Enter("sent")
  /\ IF Refused(Step) THEN gx_status' = "FAILED" /\ asked' = 0 /\ UNCHANGED stackVars
     ELSE gx_status' = "OK" /\ (ToContact(Step) \/ Controls(Step))
  /\ out' = Nothing
  /\ UNCHANGED <<eDeviceState, Pgu_event, Pgs_cbTempBuffer, mwQueue, dtaQueue, cb>>

(* PH_ON_ERROR_RETURN reads the global again; phMwIf_Transceive then looks *)
(* at the device once more.                                                *)
CheckSent ==
  /\ at = "sent"
  /\ IF gx_status = "OK" /\ (Step = "Transceive" => Active) THEN Enter("wait") ELSE Return
  /\ UNCHANGED <<stackVars, mwVars, Pgs_cbTempBuffer, mwQueue, dtaQueue, cb, out, asked>>

(* PH_WAIT_FOR_CBACK_EVT. *)
Aborts(type) == /\ Step # "Stop"
                /\ \/ type = "DEACTIVATED" /\ Reply[Step] # "DEACTIVATED"
                   \/ type = "RW_INTF_ERROR"

(* Where the calls go on once their event came. *)
Awaited == IF Step \in {"Transceive", "Receive"} THEN Enter("check")
           ELSE IF Step = "T2tRead" THEN Enter("copy")
           ELSE Proceed(<<>>)

(* Mutant of Wait: the end of a contact does not end the wait for data. *)
WaitOn ==
  /\ at = "wait" /\ mwQueue # <<>>
  /\ mwQueue' = Tail(mwQueue)
  /\ IF Head(mwQueue) = Reply[Step] THEN Awaited ELSE UNCHANGED threadVars
  /\ UNCHANGED <<stackVars, mwVars, Pgs_cbTempBuffer, dtaQueue, cb, out, asked>>

Wait ==
  /\ at = "wait" /\ mwQueue # <<>>
  /\ mwQueue' = Tail(mwQueue)
  /\ \/ Head(mwQueue) = Reply[Step] /\ Awaited
     \/ Aborts(Head(mwQueue)) /\ Return
     \/ /\ Head(mwQueue) # Reply[Step] /\ ~Aborts(Head(mwQueue))
        /\ UNCHANGED threadVars
  /\ UNCHANGED <<stackVars, mwVars, Pgs_cbTempBuffer, dtaQueue, cb, out, asked>>

(* A contact may answer too late or not at all; the stack answers in time. *)
Timeout ==
  /\ at = "wait" /\ mwQueue = <<>>
  /\ Step \in {"Transceive", "Receive", "T2tRead"}
     \/ (CallbackIdle /\ nfaOut = <<>>)
  /\ Return
  /\ UNCHANGED <<stackVars, mwVars, Pgs_cbTempBuffer, mwQueue, dtaQueue, cb, out, asked>>

(* The last event of the callback and the device are looked at, not what   *)
(* the wait ended with.                                                    *)
CheckData ==
  /\ at = "check"
  /\ IF Pgu_event = "DATA" /\ gx_status = "OK" /\ Active THEN Enter("copy") ELSE Return
  /\ UNCHANGED <<stackVars, mwVars, Pgs_cbTempBuffer, mwQueue, dtaQueue, cb, out, asked>>

(* Three statements, and no lock between the two threads: copy the buffer, *)
(* give out its length, set the length to zero.                            *)
Copy ==
  /\ at = "copy" /\ Enter("length")
  /\ out' = [out EXCEPT !.data = Pgs_cbTempBuffer]
  /\ UNCHANGED <<stackVars, mwVars, Pgs_cbTempBuffer, mwQueue, dtaQueue, cb, asked>>

GiveLength ==
  /\ at = "length" /\ Enter("clear")
  /\ out' = [out EXCEPT !.len = Len(Pgs_cbTempBuffer)]
  /\ UNCHANGED <<stackVars, mwVars, Pgs_cbTempBuffer, mwQueue, dtaQueue, cb, asked>>

Clear ==
  /\ at = "clear" /\ Proceed(<<"Received">>)
  /\ Pgs_cbTempBuffer' = <<>>
  /\ UNCHANGED <<stackVars, mwVars, mwQueue, dtaQueue, cb, out, asked>>

(* The call returned MWIFSTATUS_SUCCESS. *)
Received ==
  /\ At("Received") /\ Proceed(<<>>)
  /\ asked' = 0
  /\ UNCHANGED <<stackVars, mwVars, Pgs_cbTempBuffer, mwQueue, dtaQueue, cb, out>>

(* phMwIfi_DiscoveryStop: an idle device is not stopped, the queue flushed. *)
DiscoveryStop ==
  /\ At("DiscoveryStop")
  /\ Proceed(<<IF eDeviceState = "IDLE" THEN "Flush" ELSE "Stop", "ResetLength">>)
  /\ UNCHANGED <<stackVars, mwVars, Pgs_cbTempBuffer, mwQueue, dtaQueue, cb, out, asked>>

Flush ==
  /\ At("Flush")
  /\ IF mwQueue = <<>> THEN Proceed(<<>>) /\ UNCHANGED mwQueue
     ELSE mwQueue' = Tail(mwQueue) /\ UNCHANGED threadVars
  /\ UNCHANGED <<stackVars, mwVars, Pgs_cbTempBuffer, dtaQueue, cb, out, asked>>

ResetLength ==
  /\ At("ResetLength") /\ Proceed(<<>>)
  /\ Pgs_cbTempBuffer' = <<>>
  /\ UNCHANGED <<stackVars, mwVars, mwQueue, dtaQueue, cb, out, asked>>

SetStarted ==
  /\ At("SetStarted") /\ Proceed(<<>>)
  /\ eDeviceState' = "DISCOVERY_STARTED"
  /\ UNCHANGED <<stackVars, Pgu_event, gx_status, Pgs_cbTempBuffer, mwQueue, dtaQueue,
                 cb, out, asked>>

Handler ==
  /\ \/ HandlerPull \/ LoopBack \/ Echo \/ NotConnected \/ BeginReceive \/ Issue
     \/ CheckSent \/ Wait \/ Timeout \/ CheckData \/ Copy \/ GiveLength \/ Clear
     \/ Received \/ DiscoveryStop \/ Flush \/ ResetLength \/ SetStarted
  /\ UNCHANGED fixedVars

Next == Tester \/ StackThread \/ Handler

Spec == Init /\ [][Next]_vars

-----------------------------------------------------------------------------
Steps == DOMAIN Reply \cup {"LoopBack", "Echo", "Received", "DiscoveryStop", "Flush",
                           "ResetLength", "SetStarted"}

(* The lines of control are well formed: the handler is inside a step only *)
(* while that step is a command, copies only in a call that receives, and  *)
(* the queues keep to their lengths.                                       *)
TypeOK ==
  /\ eDeviceState \in {"IDLE", "DISCOVERY_STARTED", "POLL_ACTIVE"}
  /\ gx_status \in {"OK", "FAILED"}
  /\ Len(mwQueue) <= MwQLength /\ Len(dtaQueue) <= DtaQLength
  /\ \A i \in 1 .. Len(calls) : calls[i] # <<>> /\ ToSet(calls[i]) \subseteq Steps
  /\ at # "run" => Busy /\ Step \in DOMAIN Reply
  /\ at \in {"check", "copy", "length", "clear"} =>
       Step \in {"Transceive", "Receive", "T2tRead"}

(* A receiving call is about to return success. *)
Success == At("Received")

(* All of d was sent by the same contact. *)
OfOneContact(d) == \A i \in DOMAIN d : d[i].contact = d[1].contact

(* Data was given out, and is of the contact asked if one was. *)
IsAnswer == /\ out.data # <<>> /\ out.len # 0
            /\ asked \in {0, out.data[1].contact}

(* The end of a contact is on its way to the next wait. *)
EndUnderWay ==
  \/ "DEACTIVATED" \in ToSet(mwQueue)
  \/ cb.ev.type = "DEACTIVATED" /\ Head(cb.todo) = "mw"
  \/ \E i \in DOMAIN nfaOut : nfaOut[i].type = "DEACTIVATED"

(* Data of two contacts is never given out as one answer, although the     *)
(* callback appends to whatever is in the buffer: what an answer that broke *)
(* off left behind is gone before the data of the next contact is copied,  *)
(* whichever way the test or the contact ended.                            *)
NeverMixed == Success => OfOneContact(out.data)

(* The call is one of the round of a Type 2 tag. *)
OfBlocks == Len(calls) > 1 /\ calls[2] = <<"DeactivateSleep">>

(* A call that returns success with data of another contact than the one   *)
(* asked, with data but no length, or with no block at all (that contact   *)
(* ended between the event and the copy) is the last of its test: the news *)
(* of the end is on its way and ends the next wait, so that the test does  *)
(* not go on with a contact that is over or with the next one.             *)
EndIsNoticed == Success /\ ~IsAnswer /\ (out.data # <<>> \/ OfBlocks) => EndUnderWay

===============================================================================
