-------------------------- MODULE NioServer_proofs --------------------------
(***************************************************************************)
(* Theorems about NioServer, for any connections, messages and sockets.    *)
(***************************************************************************)
EXTENDS NioServer, SequenceTheorems, TLAPS

-----------------------------------------------------------------------------
(* What send does to the list of changes. *)

LEMMA AnswersTyped ==
  ASSUME TypeOK, NEW m \in Messages
  PROVE  /\ AnswersTo(m) \in Seq(Answers)
         /\ Len(AnswersTo(m)) <= IF simulated THEN 3 ELSE 1
         /\ m = "STOP" /\ ltType = "PRO" => AnswersTo(m) = <<"STOP">>
<1>1. CASE m = "BAD"
  BY <1>1 DEF AnswersTo, Answers
<1>2. CASE m \in {"REQUEST", "STOP"}
  <2>1. CASE ltType # "PRO"
    <3>1. AnswersTo(m) = <<>>
      BY <1>2, <2>1 DEF AnswersTo
    <3> QED BY <1>2, <2>1, <3>1
  <2>2. CASE ltType = "PRO" /\ m = "STOP"
    <3>1. AnswersTo(m) = <<"STOP">>
      BY <1>2, <2>2 DEF AnswersTo
    <3> QED BY <3>1 DEF Answers
  <2>3. CASE ltType = "PRO" /\ m = "REQUEST"
    <3>1. AnswersTo(m) = <<"REPLY">>
      BY <1>2, <2>3 DEF AnswersTo
    <3>2. m # "STOP"
      BY <2>3
    <3>3. <<"REPLY">> \in Seq(Answers) /\ Len(<<"REPLY">>) = 1
      BY DEF Answers
    <3> QED BY <3>1, <3>2, <3>3
  <2> QED BY <1>2, <2>1, <2>2, <2>3
<1>3. CASE m \in {"HELLO_PRO", "HELLO_OTHER"}
  <2>1. CASE simulated
    <3>1. AnswersTo(m) = <<"HELLOLT", "HELLODUT", "EXECUTE">>
      BY <1>3, <2>1 DEF AnswersTo
    <3> QED BY <1>3, <2>1, <3>1 DEF Answers
  <2>2. CASE ~simulated
    <3>1. AnswersTo(m) = <<"HELLOLT">>
      BY <1>3, <2>2 DEF AnswersTo
    <3> QED BY <1>3, <2>2, <3>1 DEF Answers
  <2> QED BY <2>1, <2>2
<1> QED BY <1>1, <1>2, <1>3 DEF Messages

LEMMA SendTyped ==
  ASSUME TypeOK, NEW c \in Conns, NEW answers \in Seq(Answers), send(c, answers)
  PROVE  /\ pendingChanges' \in Seq(Conns)
         /\ pendingData' \in [Conns -> Seq(Answers)]
         /\ pendingData'[c] = pendingData[c] \o answers
         /\ \A d \in Conns \ {c} : pendingData'[d] = pendingData[d]
         /\ \A d \in Conns : ChangeFor(d)' => ChangeFor(d) \/ d = c
         /\ \A d \in Conns : ChangeFor(d) => ChangeFor(d)'
         /\ answers # <<>> => ChangeFor(c)'
<1> DEFINE added == [i \in 1 .. Len(answers) |-> c]
<1>1. /\ added \in Seq(Conns) /\ Len(added) = Len(answers) /\ Len(answers) \in Nat
      /\ \A i \in 1 .. Len(answers) : added[i] = c
  OBVIOUS
<1>2. /\ pendingChanges \in Seq(Conns) /\ Len(pendingChanges) \in Nat
      /\ pendingData \in [Conns -> Seq(Answers)]
      /\ DOMAIN pendingChanges = 1 .. Len(pendingChanges)
  BY DEF TypeOK
<1>3. pendingChanges' = pendingChanges \o added
  BY DEF send
<1> HIDE DEF added
<1>4. /\ pendingChanges' \in Seq(Conns)
      /\ Len(pendingChanges') = Len(pendingChanges) + Len(added)
      /\ \A i \in 1 .. Len(pendingChanges) + Len(added) :
           pendingChanges'[i] = IF i <= Len(pendingChanges) THEN pendingChanges[i]
                                ELSE added[i - Len(pendingChanges)]
  BY <1>1, <1>2, <1>3, ConcatProperties
<1>9. DOMAIN pendingChanges' = 1 .. Len(pendingChanges) + Len(added)
  BY <1>4
<1>5. ASSUME NEW d \in Conns, ChangeFor(d)' PROVE ChangeFor(d) \/ d = c
  <2>1. PICK i \in DOMAIN pendingChanges' : pendingChanges'[i] = d
    BY <1>5 DEF ChangeFor
  <2>2. CASE i <= Len(pendingChanges)
    BY <1>2, <1>4, <1>9, <2>1, <2>2 DEF ChangeFor
  <2>3. CASE ~(i <= Len(pendingChanges))
    <3>1. i - Len(pendingChanges) \in 1 .. Len(answers)
      BY <1>1, <1>2, <1>9, <2>1, <2>3
    <3> QED BY <1>1, <1>4, <1>9, <2>1, <2>3, <3>1
  <2> QED BY <2>2, <2>3
<1>6. ASSUME NEW d \in Conns, ChangeFor(d) PROVE ChangeFor(d)'
  <2>1. PICK i \in 1 .. Len(pendingChanges) : pendingChanges[i] = d
    BY <1>2, <1>6 DEF ChangeFor
  <2>2. i \in 1 .. Len(pendingChanges) + Len(added) /\ i <= Len(pendingChanges)
    BY <1>1, <1>2, <2>1
  <2>3. pendingChanges'[i] = d
    BY <1>4, <2>1, <2>2
  <2> QED BY <1>9, <2>2, <2>3 DEF ChangeFor
<1>7. ASSUME answers # <<>> PROVE ChangeFor(c)'
  <2>1. Len(added) >= 1 /\ Len(added) \in Nat
    BY <1>1, <1>7
  <2> DEFINE k == Len(pendingChanges) + 1
  <2>2. k \in 1 .. Len(pendingChanges) + Len(added) /\ ~(k <= Len(pendingChanges))
        /\ k - Len(pendingChanges) = 1
    BY <1>2, <2>1
  <2>3. added[1] = c
    BY <1>1, <2>1
  <2> HIDE DEF k
  <2>4. pendingChanges'[k] = c
    BY <1>4, <2>2, <2>3
  <2> QED BY <1>9, <2>2, <2>4 DEF ChangeFor
<1>8. /\ pendingData' \in [Conns -> Seq(Answers)]
      /\ pendingData'[c] = pendingData[c] \o answers
      /\ \A d \in Conns \ {c} : pendingData'[d] = pendingData[d]
  BY <1>2 DEF send
<1> QED BY <1>4, <1>5, <1>6, <1>7, <1>8

-----------------------------------------------------------------------------
(* Type correctness. *)

LEMMA ReadMessageTyped ==
  ASSUME TypeOK, NEW c \in Conns, ReadMessage(c)
  PROVE  /\ pendingChanges' \in Seq(Conns)
         /\ pendingData' \in [Conns -> Seq(Answers)]
         /\ ltType' \in {"null", "PRO", "other"}
         /\ inbox' \in [Conns -> Seq(Messages)]
         /\ key' \in [Conns -> {"none", "backlog", "READ", "WRITE", "cancelled", "closed"}]
<1>1. PICK n \in 1 .. Len(inbox[c]) :
        LET m == IF n = 1 THEN Head(inbox[c]) ELSE "BAD" IN
        /\ inbox' = [inbox EXCEPT ![c] = SubSeq(@, n + 1, Len(@))]
        /\ send(c, AnswersTo(m))
        /\ ltType' = CASE m = "HELLO_PRO" -> "PRO"
                       [] m = "HELLO_OTHER" -> "other"
                       [] OTHER -> ltType
        /\ key' = [key EXCEPT ![c] =
                     IF m = "STOP" /\ ltType = "PRO" THEN "cancelled" ELSE @]
  BY DEF ReadMessage
<1> DEFINE m == IF n = 1 THEN Head(inbox[c]) ELSE "BAD"
<1>2. inbox[c] \in Seq(Messages) /\ Len(inbox[c]) \in Nat /\ Len(inbox[c]) >= 1
  BY DEF TypeOK
<1>3. m \in Messages
  BY <1>2 DEF Messages
<1>4. SubSeq(inbox[c], n + 1, Len(inbox[c])) \in Seq(Messages)
  BY <1>2
<1>5. send(c, AnswersTo(m))
  BY <1>1
<1>6. AnswersTo(m) \in Seq(Answers)
  BY <1>3, AnswersTyped
<1>7. /\ pendingChanges' \in Seq(Conns)
      /\ pendingData' \in [Conns -> Seq(Answers)]
  BY <1>5, <1>6, SendTyped
<1>8. inbox' \in [Conns -> Seq(Messages)]
  BY <1>1, <1>4 DEF TypeOK
<1>9. /\ ltType' \in {"null", "PRO", "other"}
      /\ key' \in [Conns -> {"none", "backlog", "READ", "WRITE", "cancelled", "closed"}]
  BY <1>1 DEF TypeOK
<1> QED BY <1>7, <1>8, <1>9

LEMMA WriteTyped ==
  ASSUME TypeOK, NEW c \in Conns, WriteData(c)
  PROVE  /\ pendingData' \in [Conns -> Seq(Answers)]
         /\ sndbuf' \in [Conns -> 0 .. SndBuf]
         /\ Len(pendingData'[c]) <= Len(pendingData[c])
         /\ \A d \in Conns \ {c} : pendingData'[d] = pendingData[d]
         /\ key' = [key EXCEPT ![c] = IF pendingData'[c] = <<>> THEN "READ" ELSE @]
         /\ peer' \in [Conns -> {"open", "shut", "closed", "reset"}]
<1> DEFINE room == SndBuf - sndbuf[c]
           n == IF Len(pendingData[c]) < room THEN Len(pendingData[c]) ELSE room
           left == SubSeq(pendingData[c], n + 1, Len(pendingData[c]))
<1>1. /\ pendingData[c] \in Seq(Answers) /\ Len(pendingData[c]) \in Nat
      /\ sndbuf[c] \in 0 .. SndBuf /\ SndBuf \in Nat
  BY ServerAssumption DEF TypeOK
<1>2. n \in Nat /\ n <= Len(pendingData[c]) /\ sndbuf[c] + n \in 0 .. SndBuf
  BY <1>1
<1>3. left \in Seq(Answers) /\ Len(left) <= Len(pendingData[c])
  <2> HIDE DEF n
  <2> QED BY <1>1, <1>2
<1>4. /\ pendingData' = [pendingData EXCEPT ![c] = left]
      /\ sndbuf' = [sndbuf EXCEPT ![c] = @ + n]
      /\ key' = [key EXCEPT ![c] = IF left = <<>> THEN "READ" ELSE @]
      /\ peer' = [peer EXCEPT ![c] = IF @ = "closed" THEN "reset" ELSE @]
  BY DEF WriteData
<1> HIDE DEF n, left
<1>5. pendingData' \in [Conns -> Seq(Answers)] /\ pendingData'[c] = left
  BY <1>3, <1>4 DEF TypeOK
<1> QED BY <1>2, <1>3, <1>4, <1>5 DEF TypeOK

LEMMA StepTyped == TypeOK /\ [Next]_vars => TypeOK'
<1> SUFFICES ASSUME TypeOK, [Next]_vars PROVE TypeOK'
  OBVIOUS
<1> USE DEF TypeOK
<1>1. CASE UNCHANGED vars
  BY <1>1 DEF vars, serverVars, peerVars
<1>2. CASE PeerStep
  <2>1. PICK c \in Conns :
          \/ Connect(c) \/ PeerReads(c)
          \/ \E m \in Sends : PeerSends(c, m)
          \/ \E how \in {"shut", "closed", "reset"} : PeerEnds(c, how)
    BY <1>2 DEF PeerStep
  <2>2. CASE Connect(c)
    BY <2>2 DEF Connect, peerVars
  <2>3. CASE PeerReads(c)
    BY <2>3, ServerAssumption DEF PeerReads, serverVars
  <2>4. CASE \E m \in Sends : PeerSends(c, m)
    BY <2>4, ServerAssumption DEF PeerSends, serverVars
  <2>5. CASE \E how \in {"shut", "closed", "reset"} : PeerEnds(c, how)
    BY <2>5 DEF PeerEnds, serverVars
  <2> QED BY <2>1, <2>2, <2>3, <2>4, <2>5
<1>3. CASE ApplyChanges \/ ChangesThrow
  <2>1. Applied \in [Conns -> {"none", "backlog", "READ", "WRITE", "cancelled", "closed"}]
    BY DEF Applied
  <2>2. pendingChanges' \in Seq(Conns)
    <3>1. <<>> \in Seq(Conns)
      OBVIOUS
    <3>2. pendingChanges' = <<>> \/ pendingChanges' = pendingChanges
      BY <1>3 DEF ApplyChanges, ChangesThrow
    <3> QED BY <3>1, <3>2
  <2>3. key' = Applied /\ pc' \in {"changes", "select"}
    BY <1>3 DEF ApplyChanges, ChangesThrow
  <2>4. UNCHANGED <<selected, pendingData, ltType, simulated, peerVars>>
    BY <1>3 DEF ApplyChanges, ChangesThrow
  <2> QED BY <2>1, <2>2, <2>3, <2>4 DEF peerVars
<1>4. CASE Select
  BY <1>4 DEF Select, Ready, peerVars
<1>5. ASSUME NEW c \in Conns, Accept(c) PROVE TypeOK'
  BY <1>5 DEF Accept, Handled, peerVars
<1>6. ASSUME NEW c \in Conns, Read(c) PROVE TypeOK'
  <2>1. /\ pc' \in {"changes", "select", "keys"}
        /\ selected' \subseteq Conns \cup {"server"}
        /\ UNCHANGED <<simulated, peer, sent, sndbuf>>
    BY <1>6 DEF Read, Handled
  <2>2. CASE ReadMessage(c)
    BY <2>1, <2>2, ReadMessageTyped
  <2>3. CASE ReadEnd(c)
    <3>1. <<"NACK">> \in Seq(Answers)
      BY DEF Answers
    <3>2. send(c, <<"NACK">>) /\ UNCHANGED <<key, ltType, inbox>>
      BY <2>3 DEF ReadEnd
    <3>3. /\ pendingChanges' \in Seq(Conns)
          /\ pendingData' \in [Conns -> Seq(Answers)]
      BY <3>1, <3>2, SendTyped
    <3> QED BY <2>1, <3>2, <3>3
  <2>4. CASE ReadFails(c)
    BY <2>1, <2>4 DEF ReadFails
  <2> QED BY <1>6, <2>2, <2>3, <2>4 DEF Read
<1>7. ASSUME NEW c \in Conns, Write(c) PROVE TypeOK'
  <2>1. /\ pc' \in {"changes", "select", "keys"}
        /\ selected' \subseteq Conns \cup {"server"}
        /\ UNCHANGED <<pendingChanges, ltType, simulated, inbox, sent>>
    BY <1>7 DEF Write, Handled
  <2>2. CASE WriteData(c)
    BY <2>1, <2>2, WriteTyped
  <2>3. CASE WriteFails(c)
    BY <2>1, <2>3 DEF WriteFails
  <2> QED BY <1>7, <2>2, <2>3 DEF Write
<1> QED
  BY <1>1, <1>2, <1>3, <1>4, <1>5, <1>6, <1>7 DEF Next, ServerStep

LEMMA InitTyped == Init => TypeOK
BY ServerAssumption DEF Init, TypeOK

(* Every variable of the server and of its peers keeps its type. *)
THEOREM TypeCorrect == Spec => []TypeOK
BY InitTyped, StepTyped, PTL DEF Spec

-----------------------------------------------------------------------------
(* The inductive invariant.  While keys are handled no selected channel    *)
(* has a change pending, so what is read from a channel is read with an    *)
(* empty queue of answers.                                                 *)

Fresh ==
  \A c \in Conns : key[c] \in {"none", "backlog"} => pendingData[c] = <<>>

Phase == /\ pc = "select" => pendingChanges = <<>>
         /\ pc = "keys" => \A c \in Conns : c \in selected => ~ChangeFor(c)

Inv == /\ NoAnswerForgotten /\ BacklogBounded /\ OnlyStopBlocks
       /\ Fresh /\ Phase

(* What applying the changes does to a key: it turns to writing, and only  *)
(* if it is registered; if all are, every key with a change turns.         *)
LEMMA AppliedKeys ==
  ASSUME TypeOK, NEW c \in Conns
  PROVE  /\ Applied[c] = key[c] \/ (Applied[c] = "WRITE" /\ Valid(c))
         /\ ChangeFor(c) /\ (\A i \in DOMAIN pendingChanges : Valid(pendingChanges[i]))
              => Applied[c] = "WRITE"
<1>1. DOMAIN pendingChanges = 1 .. Len(pendingChanges) /\ Len(pendingChanges) \in Nat
  BY DEF TypeOK
<1>2. Applied[c] = IF \E j \in DOMAIN pendingChanges :
                        pendingChanges[j] = c /\ \A k \in 1 .. j : Valid(pendingChanges[k])
                   THEN "WRITE" ELSE key[c]
  BY DEF Applied
<1>3. ASSUME NEW j \in DOMAIN pendingChanges, pendingChanges[j] = c,
             \A k \in 1 .. j : Valid(pendingChanges[k])
      PROVE  Valid(c)
  <2>1. j \in 1 .. j
    BY <1>1
  <2> QED BY <1>3, <2>1
<1>4. ASSUME NEW j \in DOMAIN pendingChanges
      PROVE  1 .. j \subseteq DOMAIN pendingChanges
  BY <1>1
<1> QED BY <1>2, <1>3, <1>4 DEF ChangeFor

LEMMA ChangesInv ==
  ASSUME TypeOK, Inv, ApplyChanges \/ ChangesThrow
  PROVE  Inv'
<1>1. /\ key' = Applied /\ UNCHANGED <<selected, pendingData, simulated>>
      /\ \A c \in Conns : /\ Valid(c)' <=> Valid(c)
                          /\ ~Valid(c) => key'[c] = key[c]
                          /\ key'[c] \in {"none", "backlog", "READ"} => key'[c] = key[c]
  BY AppliedKeys DEF ApplyChanges, ChangesThrow, Valid, Registered
<1>2. Fresh' /\ BacklogBounded'
  BY <1>1 DEF Inv, Fresh, BacklogBounded
<1>3. CASE ApplyChanges
  <2>1. /\ pendingChanges' = <<>> /\ pc' = "select"
        /\ \A i \in DOMAIN pendingChanges : Valid(pendingChanges[i])
    BY <1>3 DEF ApplyChanges
  <2>2. \A c \in Conns : ~ChangeFor(c)'
    BY <2>1 DEF ChangeFor
  <2>3. NoAnswerForgotten'
    BY <1>1, <2>1, AppliedKeys DEF Inv, NoAnswerForgotten
  <2> QED BY <1>2, <2>1, <2>2, <2>3 DEF Inv, OnlyStopBlocks, Phase
<1>4. CASE ChangesThrow
  <2>1. UNCHANGED <<pc, pendingChanges>> /\ pc = "changes"
    BY <1>4 DEF ChangesThrow, ApplyChanges
  <2>2. pc = "changes"
    BY <2>1
  <2>3. \A c \in Conns : ChangeFor(c)' <=> ChangeFor(c)
    BY <2>1 DEF ChangeFor
  <2>4. NoAnswerForgotten' /\ OnlyStopBlocks'
    BY <1>1, <2>3 DEF Inv, NoAnswerForgotten, OnlyStopBlocks
  <2> QED BY <1>2, <2>1, <2>4 DEF Inv, Phase
<1> QED BY <1>3, <1>4

LEMMA SelectInv == ASSUME TypeOK, Inv, Select PROVE Inv'
<1>1. /\ pendingChanges = <<>> /\ pc' = "keys"
      /\ UNCHANGED <<pendingChanges, pendingData, simulated>>
      /\ key' = [c \in Conns |-> IF key[c] = "cancelled" THEN "closed" ELSE key[c]]
  BY DEF Select, Inv, Phase
<1>2. \A c \in Conns : ~ChangeFor(c) /\ ~ChangeFor(c)'
  BY <1>1 DEF ChangeFor
<1> QED
  BY <1>1, <1>2
     DEF Inv, NoAnswerForgotten, BacklogBounded, OnlyStopBlocks, Fresh, Phase

LEMMA AcceptInv == ASSUME TypeOK, Inv, NEW c \in Conns, Accept(c) PROVE Inv'
<1>1. /\ key[c] = "backlog" /\ key' = [key EXCEPT ![c] = "READ"]
      /\ pc = "keys" /\ pc' \in {"keys", "changes"} /\ selected' \subseteq selected
      /\ UNCHANGED <<pendingChanges, pendingData, simulated>>
  BY DEF Accept, Handled
<1>2. \A d \in Conns : ChangeFor(d)' <=> ChangeFor(d)
  BY <1>1 DEF ChangeFor
<1>3. key \in [Conns -> {"none", "backlog", "READ", "WRITE", "cancelled", "closed"}]
  BY DEF TypeOK
<1>4. /\ key'[c] = "READ" /\ pendingData[c] = <<>> /\ Valid(c)'
      /\ \A d \in Conns \ {c} : key'[d] = key[d] /\ (Valid(d)' <=> Valid(d))
  BY <1>1, <1>3 DEF Inv, Fresh, Valid, Registered
<1> QED
  BY <1>1, <1>2, <1>4
     DEF Inv, NoAnswerForgotten, BacklogBounded, OnlyStopBlocks, Fresh, Phase

(* A read with its answers: the queue was empty, and the answers that are  *)
(* left have their change, unless they are the one to $%STOP.              *)
LEMMA SentInv ==
  ASSUME TypeOK, Inv, NEW c \in Conns, NEW answers \in Seq(Answers),
         send(c, answers), Handled(c), key[c] = "READ", UNCHANGED simulated,
         Len(answers) <= IF simulated THEN 3 ELSE 1,
         key' = key \/ (answers = <<"STOP">> /\ key' = [key EXCEPT ![c] = "cancelled"])
  PROVE  Inv'
<1>1. /\ pc = "keys" /\ pc' \in {"keys", "changes"} /\ selected' = selected \ {c}
      /\ c \in selected
  BY DEF Handled
<1>2. /\ pendingData'[c] = pendingData[c] \o answers
      /\ \A d \in Conns \ {c} : pendingData'[d] = pendingData[d]
      /\ \A d \in Conns : ChangeFor(d)' => ChangeFor(d) \/ d = c
      /\ \A d \in Conns : ChangeFor(d) => ChangeFor(d)'
      /\ answers # <<>> => ChangeFor(c)'
  BY SendTyped
<1>3. ~ChangeFor(c) /\ pendingData[c] = <<>>
  BY <1>1 DEF Inv, Phase, NoAnswerForgotten
<1>4. pendingData'[c] = answers
  BY <1>2, <1>3
<1>5. /\ \A d \in Conns \ {c} : key'[d] = key[d] /\ (Valid(d)' <=> Valid(d))
      /\ key'[c] = "READ" \/ (key'[c] = "cancelled" /\ answers = <<"STOP">>)
      /\ key'[c] = "READ" => Valid(c)'
  BY DEF TypeOK, Valid, Registered
<1>6. NoAnswerForgotten'
  BY <1>2, <1>4, <1>5 DEF Inv, NoAnswerForgotten
<1>7. BacklogBounded'
  BY <1>2, <1>4 DEF Inv, BacklogBounded
<1>8. OnlyStopBlocks'
  BY <1>2, <1>4, <1>5 DEF Inv, OnlyStopBlocks
<1>9. Fresh' /\ Phase'
  BY <1>1, <1>2, <1>5 DEF Inv, Fresh, Phase
<1> QED BY <1>6, <1>7, <1>8, <1>9 DEF Inv

LEMMA ReadInv == ASSUME TypeOK, Inv, NEW c \in Conns, Read(c) PROVE Inv'
<1>1. Handled(c) /\ key[c] = "READ" /\ UNCHANGED simulated
  BY DEF Read
<1>2. CASE ReadMessage(c)
  <2>1. PICK n \in 1 .. Len(inbox[c]) :
          LET m == IF n = 1 THEN Head(inbox[c]) ELSE "BAD" IN
          /\ send(c, AnswersTo(m))
          /\ key' = [key EXCEPT ![c] =
                       IF m = "STOP" /\ ltType = "PRO" THEN "cancelled" ELSE @]
    BY <1>2 DEF ReadMessage
  <2> DEFINE m == IF n = 1 THEN Head(inbox[c]) ELSE "BAD"
  <2>2. m \in Messages
    BY DEF TypeOK, Messages
  <2>3. /\ AnswersTo(m) \in Seq(Answers)
        /\ Len(AnswersTo(m)) <= IF simulated THEN 3 ELSE 1
        /\ m = "STOP" /\ ltType = "PRO" => AnswersTo(m) = <<"STOP">>
    BY <2>2, AnswersTyped
  <2>4. send(c, AnswersTo(m))
    BY <2>1
  <2>5. key' = key \/ (AnswersTo(m) = <<"STOP">> /\ key' = [key EXCEPT ![c] = "cancelled"])
    <3>1. CASE m = "STOP" /\ ltType = "PRO"
      BY <2>1, <2>3, <3>1
    <3>2. CASE ~(m = "STOP" /\ ltType = "PRO")
      BY <2>1, <3>2 DEF TypeOK
    <3> QED BY <3>1, <3>2
  <2> HIDE DEF m
  <2> QED BY <1>1, <2>3, <2>4, <2>5, SentInv
<1>3. CASE ReadEnd(c)
  <2>1. <<"NACK">> \in Seq(Answers) /\ Len(<<"NACK">>) = 1
    BY DEF Answers
  <2>2. send(c, <<"NACK">>) /\ key' = key
    BY <1>3 DEF ReadEnd
  <2> DEFINE nack == <<"NACK">>
  <2>3. /\ nack \in Seq(Answers) /\ send(c, nack)
        /\ Len(nack) <= IF simulated THEN 3 ELSE 1
    BY <2>1, <2>2
  <2> HIDE DEF nack
  <2> QED BY <1>1, <2>2, <2>3, SentInv
<1>4. CASE ReadFails(c)
  <2>1. /\ key' = [key EXCEPT ![c] = "cancelled"]
        /\ UNCHANGED <<pendingChanges, pendingData>>
        /\ pc = "keys" /\ pc' \in {"keys", "changes"} /\ selected' \subseteq selected
        /\ c \in selected
    BY <1>1, <1>4 DEF ReadFails, Handled
  <2>2. \A d \in Conns : ChangeFor(d)' <=> ChangeFor(d)
    BY <2>1 DEF ChangeFor
  <2>3. /\ ~ChangeFor(c) /\ key'[c] = "cancelled"
        /\ \A d \in Conns \ {c} : key'[d] = key[d] /\ (Valid(d)' <=> Valid(d))
    BY <2>1 DEF Inv, Phase, TypeOK, Valid
  <2> QED
    BY <1>1, <2>1, <2>2, <2>3
       DEF Inv, NoAnswerForgotten, BacklogBounded, OnlyStopBlocks, Fresh, Phase
<1> QED BY <1>2, <1>3, <1>4 DEF Read

LEMMA WriteInv == ASSUME TypeOK, Inv, NEW c \in Conns, Write(c) PROVE Inv'
<1>1. /\ key[c] = "WRITE" /\ UNCHANGED <<pendingChanges, simulated>>
      /\ pc = "keys" /\ pc' \in {"keys", "changes"} /\ selected' \subseteq selected
  BY DEF Write, Handled
<1>2. /\ Len(pendingData'[c]) <= Len(pendingData[c])
      /\ \A d \in Conns \ {c} : pendingData'[d] = pendingData[d]
      /\ \/ key' = key
         \/ key' = [key EXCEPT ![c] = "READ"] /\ pendingData'[c] = <<>>
  <2>1. CASE WriteData(c)
    BY <2>1, WriteTyped DEF TypeOK
  <2>2. CASE WriteFails(c)
    BY <2>2 DEF WriteFails, TypeOK
  <2> QED BY <2>1, <2>2 DEF Write
<1>3. \A d \in Conns : ChangeFor(d)' <=> ChangeFor(d)
  BY <1>1 DEF ChangeFor
<1>4. /\ key'[c] = "WRITE" \/ (key'[c] = "READ" /\ pendingData'[c] = <<>>)
      /\ \A d \in Conns \ {c} : key'[d] = key[d] /\ (Valid(d)' <=> Valid(d))
  BY <1>1, <1>2 DEF TypeOK, Valid
<1>5. Valid(c)'
  BY <1>4 DEF Valid, Registered
<1>6. Len(pendingData[c]) \in Nat /\ Len(pendingData'[c]) \in Nat
  BY StepTyped DEF TypeOK, Next, ServerStep
<1>7. BacklogBounded'
  BY <1>1, <1>2, <1>6 DEF Inv, BacklogBounded
<1> QED
  BY <1>1, <1>2, <1>3, <1>4, <1>5, <1>7
     DEF Inv, NoAnswerForgotten, OnlyStopBlocks, Fresh, Phase

LEMMA PeerInv == ASSUME TypeOK, Inv, PeerStep PROVE Inv'
<1>1. /\ UNCHANGED <<pc, selected, pendingChanges, pendingData, simulated>>
      /\ \/ key' = key
         \/ \E c \in Conns : key[c] = "none" /\ key' = [key EXCEPT ![c] = "backlog"]
  BY DEF PeerStep, Connect, PeerSends, PeerReads, PeerEnds, serverVars
<1>2. \A d \in Conns : ChangeFor(d)' <=> ChangeFor(d)
  BY <1>1 DEF ChangeFor
<1>3. \A d \in Conns : \/ key'[d] = key[d] /\ (Valid(d)' <=> Valid(d))
                       \/ key[d] = "none" /\ key'[d] = "backlog" /\ ~Valid(d)
  BY <1>1 DEF TypeOK, Valid, Registered
<1> QED
  BY <1>1, <1>2, <1>3
     DEF Inv, NoAnswerForgotten, BacklogBounded, OnlyStopBlocks, Fresh, Phase

LEMMA StepInv == TypeOK /\ Inv /\ [Next]_vars => Inv'
<1> SUFFICES ASSUME TypeOK, Inv, [Next]_vars PROVE Inv'
  OBVIOUS
<1>1. CASE UNCHANGED vars
  BY <1>1 DEF vars, serverVars, Inv, NoAnswerForgotten, BacklogBounded,
              OnlyStopBlocks, Fresh, Phase, ChangeFor, Valid
<1> QED
  BY <1>1, ChangesInv, SelectInv, AcceptInv, ReadInv, WriteInv, PeerInv
     DEF Next, ServerStep

LEMMA InitInv == Init => Inv
BY DEF Init, Inv, NoAnswerForgotten, BacklogBounded, OnlyStopBlocks, Fresh,
       Phase, ChangeFor

LEMMA Inductive == Spec => []Inv
BY InitTyped, InitInv, StepTyped, StepInv, PTL DEF Spec

(* A channel that waits for data has a pending change for every answer     *)
(* that is still queued for it: send and write never lose one.             *)
THEOREM AnswersRemembered == Spec => []NoAnswerForgotten
BY Inductive, PTL DEF Inv

(* The server queues at most the answers to one message of each tester.    *)
THEOREM BacklogStaysBounded == Spec => []BacklogBounded
BY Inductive, PTL DEF Inv

(* Only the answer to $%STOP leaves a change for a key that was cancelled. *)
THEOREM StopAloneBlocks == Spec => []OnlyStopBlocks
BY Inductive, PTL DEF Inv

=============================================================================
