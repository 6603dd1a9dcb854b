------------------------------ MODULE NioServer ------------------------------
(***************************************************************************)
(* PhNioServer.java: the TCP server over which the tester (LT) commands    *)
(* the application.  One thread runs a selector loop (PhNioServer.run):    *)
(* it applies the changes that `send' asked for, selects, and accepts,     *)
(* reads or writes for each channel that is ready.  A message is answered  *)
(* from inside the read, so `send' only runs in that thread.               *)
(*                                                                         *)
(* Messages are reduced to their kinds.  A read that returns a part of a   *)
(* message, or several of them at once, fails the check of its CRC.        *)
(***************************************************************************)
EXTENDS Naturals, Sequences

CONSTANTS
  Conns,        \* the connections of testers
  Sends,        \* the messages testers send
  MaxMessages,  \* bound: how many messages testers send
  SndBuf        \* answers the socket takes before the tester reads them

(* HELLO carries the type of the tester; REQUEST is $%K, $%E or $%R; BAD   *)
(* is what fails the check of the CRC.                                     *)
Messages == {"HELLO_PRO", "HELLO_OTHER", "REQUEST", "STOP", "BAD"}
Answers == {"HELLOLT", "REPLY", "STOP", "NACK", "HELLODUT", "EXECUTE"}

ASSUME ServerAssumption == /\ Sends \subseteq Messages
                           /\ MaxMessages \in Nat /\ SndBuf \in Nat \ {0}
                           /\ "server" \notin Conns

VARIABLES
  pc,              \* where the loop is: "changes", "select" or "keys"
  selected,        \* the selected keys still to be handled in this round
  key,             \* a connection's key: its interest, or why it has none
  pendingChanges,  \* the channels whose interest is to become OP_WRITE
  pendingData,     \* the answers queued for each channel
  ltType,          \* PhUtilities.ltType, set by $%HELLODUT
  simulated,       \* PhUtilities.SIMULATED_SERVER_SELECTED
  peer,            \* the tester's end of a connection
  inbox,           \* what it sent and the server did not read
  sent,            \* how many messages the testers sent
  sndbuf           \* answers in the socket, not yet read by the tester

serverVars == <<pc, selected, key, pendingChanges, pendingData, ltType, simulated>>
peerVars == <<peer, inbox, sent, sndbuf>>
vars == <<serverVars, peerVars>>

(* READ and WRITE are registered keys; a cancelled key is with the selector *)
(* until its next select.                                                  *)
Registered == {"READ", "WRITE"}

Init ==
  /\ pc = "changes" /\ selected = {}
  /\ key = [c \in Conns |-> "none"]
  /\ pendingChanges = <<>>
  /\ pendingData = [c \in Conns |-> <<>>]
  /\ ltType = "null" /\ simulated \in BOOLEAN
  /\ peer = [c \in Conns |-> "open"]
  /\ inbox = [c \in Conns |-> <<>>]
  /\ sent = 0
  /\ sndbuf = [c \in Conns |-> 0]

-----------------------------------------------------------------------------
(* The testers: each connects, sends, reads its answers, and ends its side *)
(* in order, closes the socket, or resets the connection.                  *)

Connected(c) == key[c] \in {"backlog"} \cup Registered

Connect(c) ==
  /\ key[c] = "none"
  /\ key' = [key EXCEPT ![c] = "backlog"]
  /\ UNCHANGED <<pc, selected, pendingChanges, pendingData, ltType, simulated, peerVars>>

PeerSends(c, m) ==
  /\ Connected(c) /\ peer[c] = "open" /\ sent < MaxMessages
  /\ inbox' = [inbox EXCEPT ![c] = Append(@, m)]
  /\ sent' = sent + 1
  /\ UNCHANGED <<serverVars, peer, sndbuf>>

PeerReads(c) ==
  /\ peer[c] \in {"open", "shut"} /\ sndbuf[c] > 0
  /\ sndbuf' = [sndbuf EXCEPT ![c] = @ - 1]
  /\ UNCHANGED <<serverVars, peer, inbox, sent>>

PeerEnds(c, how) ==
  /\ Connected(c)
  /\ IF how = "shut" THEN peer[c] = "open" ELSE peer[c] \in {"open", "shut"}
  /\ peer' = [peer EXCEPT ![c] = how]
  /\ UNCHANGED <<serverVars, inbox, sent, sndbuf>>

-----------------------------------------------------------------------------
(* PhNioServer.run: the pending changes.                                   *)

ChangeFor(c) == \E i \in DOMAIN pendingChanges : pendingChanges[i] = c

(* interestOps throws on a key that was cancelled. *)
Valid(c) == key[c] \in Registered

(* The changes are applied one after the other, up to the first that throws. *)
Applied ==
  [c \in Conns |->
     IF \E j \in DOMAIN pendingChanges :
          pendingChanges[j] = c /\ \A k \in 1 .. j : Valid(pendingChanges[k])
     THEN "WRITE" ELSE key[c]]

ApplyChanges ==
  /\ pc = "changes"
  /\ \A i \in DOMAIN pendingChanges : Valid(pendingChanges[i])
  /\ key' = Applied
  /\ pendingChanges' = <<>>
  /\ pc' = "select"
  /\ UNCHANGED <<selected, pendingData, ltType, simulated, peerVars>>

(* The exception is caught around the whole round: the list is not cleared *)
(* and the next round begins with it again.                                *)
ChangesThrow ==
  /\ pc = "changes"
  /\ \E i \in DOMAIN pendingChanges : ~Valid(pendingChanges[i])
  /\ key' = Applied
  /\ UNCHANGED <<pc, selected, pendingChanges, pendingData, ltType, simulated, peerVars>>

(* What makes a channel ready. *)
Readable(c) == key[c] = "READ" /\ (inbox[c] # <<>> \/ peer[c] # "open")
Writable(c) == key[c] = "WRITE" /\ (sndbuf[c] < SndBuf \/ peer[c] \in {"closed", "reset"})

(* Mutant of Ready: a tester is accepted when nothing else is to be done. *)
ReadyOthersFirst ==
  IF \E c \in Conns : Readable(c) \/ Writable(c)
  THEN {c \in Conns : Readable(c) \/ Writable(c)}
  ELSE {s \in {"server"} : \E c \in Conns : key[c] = "backlog"}

(* Which keys a select finds ready. *)
Ready == {c \in Conns : Readable(c) \/ Writable(c)}
           \cup {s \in {"server"} : \E c \in Conns : key[c] = "backlog"}

(* Blocks until a channel is ready, and drops cancelled keys.  A select    *)
(* that a wakeup ended with no channel ready only repeats the loop.        *)
Select ==
  /\ pc = "select" /\ Ready # {}
  /\ selected' = Ready
  /\ key' = [c \in Conns |-> IF key[c] = "cancelled" THEN "closed" ELSE key[c]]
  /\ pc' = "keys"
  /\ UNCHANGED <<pendingChanges, pendingData, ltType, simulated, peerVars>>

(* k is handled; after the last one the next round begins. *)
Handled(k) ==
  /\ pc = "keys" /\ k \in selected
  /\ selected' = selected \ {k}
  /\ pc' = IF selected' = {} THEN "changes" ELSE "keys"

(* accept: one connection per round, registered for reading. *)
Accept(c) ==
  /\ Handled("server") /\ key[c] = "backlog"
  /\ key' = [key EXCEPT ![c] = "READ"]
  /\ UNCHANGED <<pendingChanges, pendingData, ltType, simulated, peerVars>>

-----------------------------------------------------------------------------
(* Mutant of send: the interest of the channel is not to be changed. *)
sendNoChange(c, answers) ==
  /\ pendingData' = [pendingData EXCEPT ![c] = @ \o answers]
  /\ UNCHANGED pendingChanges

(* send, once for each of the answers. *)
send(c, answers) ==
  /\ pendingData' = [pendingData EXCEPT ![c] = @ \o answers]
  /\ pendingChanges' = pendingChanges \o [i \in 1 .. Len(answers) |-> c]

(* What a message is answered with.  Before the tester said that it is of  *)
(* type PRO, its requests are not answered; a server that plays the tester *)
(* goes on with the first commands of a session.                           *)
AnswersTo(m) ==
  CASE m = "BAD" -> <<"NACK">>
    [] m \in {"REQUEST", "STOP"} ->
         IF ltType # "PRO" THEN <<>> ELSE IF m = "STOP" THEN <<"STOP">> ELSE <<"REPLY">>
    [] m \in {"HELLO_PRO", "HELLO_OTHER"} ->
         IF simulated THEN <<"HELLOLT", "HELLODUT", "EXECUTE">> ELSE <<"HELLOLT">>

(* read: what arrived, in one piece. *)
ReadMessage(c) ==
  \E n \in 1 .. Len(inbox[c]) :
    LET m == IF n = 1 THEN Head(inbox[c]) ELSE "BAD" IN
    /\ inbox' = [inbox EXCEPT ![c] = SubSeq(@, n + 1, Len(@))]
    /\ send(c, AnswersTo(m))
    /\ ltType' = CASE m = "HELLO_PRO" -> "PRO"
                   [] m = "HELLO_OTHER" -> "other"
                   [] OTHER -> ltType
    /\ key' = [key EXCEPT ![c] = IF m = "STOP" /\ ltType = "PRO" THEN "cancelled" ELSE @]

(* Mutant of ReadEnd: the two lines that close the channel, which the code *)
(* has as comments, are executed.                                          *)
ReadEndCloses(c) ==
  /\ inbox[c] = <<>> /\ peer[c] \in {"shut", "closed"}
  /\ send(c, <<"NACK">>)
  /\ key' = [key EXCEPT ![c] = "cancelled"]
  /\ UNCHANGED <<ltType, inbox>>

(* The end of the stream: the empty buffer fails the check of the CRC, so  *)
(* it is answered before the -1 is looked at, and the channel stays.       *)
ReadEnd(c) ==
  /\ inbox[c] = <<>> /\ peer[c] \in {"shut", "closed"}
  /\ send(c, <<"NACK">>)
  /\ UNCHANGED <<key, ltType, inbox>>

(* An IOException: the key is cancelled and the channel closed. *)
ReadFails(c) ==
  /\ peer[c] = "reset"
  /\ key' = [key EXCEPT ![c] = "cancelled"]
  /\ UNCHANGED <<pendingChanges, pendingData, ltType, inbox>>

Read(c) ==
  /\ Handled(c) /\ key[c] = "READ"
  /\ ReadMessage(c) \/ ReadEnd(c) \/ ReadFails(c)
  /\ UNCHANGED <<simulated, peer, sent, sndbuf>>

(* Mutant of WriteData: the socket is taken to have written everything. *)
WriteDataAll(c) ==
  /\ peer[c] # "reset"
  /\ pendingData' = [pendingData EXCEPT ![c] = <<>>]
  /\ sndbuf' = [sndbuf EXCEPT ![c] = @ + Len(pendingData[c])]
  /\ key' = [key EXCEPT ![c] = "READ"]
  /\ peer' = [peer EXCEPT ![c] = IF @ = "closed" THEN "reset" ELSE @]

(* Mutant of WriteData: back to reading although answers are left. *)
WriteDataReadsOn(c) ==
  LET room == SndBuf - sndbuf[c]
      n == IF Len(pendingData[c]) < room THEN Len(pendingData[c]) ELSE room
  IN /\ peer[c] # "reset"
     /\ pendingData' = [pendingData EXCEPT ![c] = SubSeq(@, n + 1, Len(@))]
     /\ sndbuf' = [sndbuf EXCEPT ![c] = @ + n]
     /\ key' = [key EXCEPT ![c] = "READ"]
     /\ peer' = [peer EXCEPT ![c] = IF @ = "closed" THEN "reset" ELSE @]

(* write: as much as the socket takes; when all is written the channel     *)
(* waits for data again.  What is written to a closed peer resets the      *)
(* connection.  (The branch that closes the channel after the answer to    *)
(* $%STOP is never reached: the channel is closed when that is queued.)    *)
WriteData(c) ==
  LET room == SndBuf - sndbuf[c]
      n == IF Len(pendingData[c]) < room THEN Len(pendingData[c]) ELSE room
      left == SubSeq(pendingData[c], n + 1, Len(pendingData[c]))
  IN /\ peer[c] # "reset"
     /\ pendingData' = [pendingData EXCEPT ![c] = left]
     /\ sndbuf' = [sndbuf EXCEPT ![c] = @ + n]
     /\ key' = [key EXCEPT ![c] = IF left = <<>> THEN "READ" ELSE @]
     /\ peer' = [peer EXCEPT ![c] = IF @ = "closed" THEN "reset" ELSE @]

(* Mutant of WriteFails: the exception is not caught in write. *)
WriteFailsThrows(c) ==
  /\ peer[c] = "reset"
  /\ UNCHANGED <<pendingData, key, sndbuf, peer>>

(* A SocketException: the queue is cleared, the next read will fail too. *)
WriteFails(c) ==
  /\ peer[c] = "reset"
  /\ pendingData' = [pendingData EXCEPT ![c] = <<>>]
  /\ key' = [key EXCEPT ![c] = "READ"]
  /\ UNCHANGED <<sndbuf, peer>>

Write(c) ==
  /\ Handled(c) /\ key[c] = "WRITE"
  /\ WriteData(c) \/ WriteFails(c)
  /\ UNCHANGED <<pendingChanges, ltType, simulated, inbox, sent>>

-----------------------------------------------------------------------------
ServerStep == \/ ApplyChanges \/ ChangesThrow \/ Select
              \/ \E c \in Conns : Accept(c) \/ Read(c) \/ Write(c)

PeerStep == \E c \in Conns :
  \/ Connect(c) \/ PeerReads(c)
  \/ \E m \in Sends : PeerSends(c, m)
  \/ \E how \in {"shut", "closed", "reset"} : PeerEnds(c, how)

Next == ServerStep \/ PeerStep

(* The loop is scheduled, and a tester that keeps its socket open reads.   *)
Fairness == /\ WF_vars(ServerStep)
            /\ \A c \in Conns : WF_vars(PeerReads(c))

Spec == Init /\ [][Next]_vars /\ Fairness

-----------------------------------------------------------------------------
(* Every variable has its type. *)
TypeOK ==
  /\ pc \in {"changes", "select", "keys"}
  /\ selected \subseteq Conns \cup {"server"}
  /\ key \in [Conns -> {"none", "backlog", "READ", "WRITE", "cancelled", "closed"}]
  /\ pendingChanges \in Seq(Conns)
  /\ pendingData \in [Conns -> Seq(Answers)]
  /\ ltType \in {"null", "PRO", "other"} /\ simulated \in BOOLEAN
  /\ peer \in [Conns -> {"open", "shut", "closed", "reset"}]
  /\ inbox \in [Conns -> Seq(Messages)]
  /\ sent \in Nat /\ sndbuf \in [Conns -> 0 .. SndBuf]

(* No queued answer is forgotten: while a channel waits for data, answers  *)
(* queued for it are covered by a pending change, whatever was written     *)
(* only in part, failed or ended in between.                               *)
NoAnswerForgotten ==
  \A c \in Conns : key[c] = "READ" /\ pendingData[c] # <<>> => ChangeFor(c)

(* A tester that sends on and on without reading its answers cannot make   *)
(* the server queue them without bound: it is not read from until all      *)
(* answers to its last message went out.                                   *)
BacklogBounded ==
  \A c \in Conns : Len(pendingData[c]) <= IF simulated THEN 3 ELSE 1

(* A change that throws is repeated in every round and nothing is selected *)
(* any more.  Only the answer to $%STOP, queued for the channel that the   *)
(* same read closes, leads there: no reset, no end of a stream and no      *)
(* failed write does.                                                      *)
OnlyStopBlocks ==
  \A c \in Conns : ChangeFor(c) /\ ~Valid(c) =>
    key[c] = "cancelled" /\ pendingData[c] = <<"STOP">>

Blocked == \E c \in Conns : ChangeFor(c) /\ ~Valid(c)

(* As long as no session was stopped, every answer leaves the queue: it is *)
(* written, or its connection was reset.                                   *)
AnswersLeave ==
  \A c \in Conns : pendingData[c] # <<>> ~> (pendingData[c] = <<>> \/ Blocked)

(* As long as no session was stopped, every tester that connects is        *)
(* accepted, however many bytes the others send and whatever they leave.   *)
PeersAccepted ==
  \A c \in Conns : key[c] = "backlog" ~> (key[c] # "backlog" \/ Blocked)

=============================================================================
