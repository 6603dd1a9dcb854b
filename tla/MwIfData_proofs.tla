--------------------------- MODULE MwIfData_proofs ---------------------------
(***************************************************************************)
(* Theorems about MwIfData, for any testers, builds and bounds.            *)
(***************************************************************************)
EXTENDS MwIfData, SequenceTheorems, TLAPS

Fragments == [contact : Nat, no : Nat, part : Nat, of : Nat]

Types == {"ACTIVATED", "DEACTIVATED", "RW_INTF_ERROR", "READ_CPLT",
          "RF_DISCOVERY_STOPPED", "CONFIGURED", "RF_DISCOVERY_STARTED"}
Kinds == AllKinds \cup {"none"}
Details == Kinds \cup {"IDLE", "DISCOVERY", "SLEEP"}
RfStates == {"stopped", "discovering", "active", "asleep"}
Contacts == [id : Nat, kind : Kinds, sent : Nat]

Events == [type : {"DATA"}, detail : Fragments] \cup [type : Types, detail : Details]

(* What the invariant needs of the types.                                  *)
Typed ==
  /\ tester \in Testers
  /\ rf \in RfStates
  /\ contact \in Contacts
  /\ owed \in Seq(Events) /\ nfaOut \in Seq(Events)
  /\ Pgs_cbTempBuffer \in Seq(Fragments)
  /\ out \in [data : Seq(Fragments), len : Nat]

InField == {"active", "asleep"}

(* Among the events q, a contact ends between the positions i and j.       *)
EndBetween(q, i, j) ==
  \E k \in DOMAIN q : i < k /\ k < j /\ q[k].type = "DEACTIVATED"

(* Where the data of a contact stops, in buffer and events, its end follows *)
(* unless that contact c is still there in the radio state r.              *)
InOrder(buffer, q, r, c) ==
  /\ OfOneContact(buffer)
  /\ buffer # <<>> => \/ EndBetween(q, 0, Len(q) + 1)
                      \/ r \in InField /\ buffer[1].contact = c
  /\ buffer # <<>> => \A j \in DOMAIN q : q[j].type = "DATA" =>
       q[j].detail.contact = buffer[1].contact \/ EndBetween(q, 0, j)
  /\ \A i \in DOMAIN q : q[i].type = "DATA" =>
       \/ EndBetween(q, i, Len(q) + 1)
       \/ r \in InField /\ q[i].detail.contact = c
  /\ \A i, j \in DOMAIN q :
       i < j /\ q[i].type = "DATA" /\ q[j].type = "DATA" =>
         q[i].detail.contact = q[j].detail.contact \/ EndBetween(q, i, j)

Inv ==
  /\ Typed
  /\ \A i \in DOMAIN owed : owed[i].type = "DATA" => owed[i].detail.contact = contact.id
  /\ InOrder(Pgs_cbTempBuffer, nfaOut, rf, contact.id)
  /\ OfOneContact(out.data)

-----------------------------------------------------------------------------
(* How the order of data and ends changes with the events.                 *)

(* Events without data come behind, among them the end of the contact in   *)
(* the field, unless that contact stays.                                   *)
LEMMA OrderExtend ==
  ASSUME NEW buffer \in Seq(Fragments), NEW q \in Seq(Events), NEW s \in Seq(Events),
         NEW r, NEW c, NEW r2, NEW c2,
         InOrder(buffer, q, r, c),
         \A i \in DOMAIN s : s[i].type # "DATA",
         \/ \E i \in DOMAIN s : s[i].type = "DEACTIVATED"
         \/ r \in InField => r2 \in InField /\ c2 = c
  PROVE  InOrder(buffer, q \o s, r2, c2)
<1> DEFINE t == q \o s
<1>1. /\ t \in Seq(Events)
      /\ Len(q) \in Nat /\ Len(s) \in Nat /\ Len(t) = Len(q) + Len(s)
      /\ DOMAIN q = 1 .. Len(q) /\ DOMAIN s = 1 .. Len(s) /\ DOMAIN t = 1 .. Len(t)
      /\ \A i \in 1 .. Len(q) + Len(s) :
           t[i] = IF i <= Len(q) THEN q[i] ELSE s[i - Len(q)]
  BY ConcatProperties, LenProperties
<1> HIDE DEF t
<1>2. \A i \in DOMAIN t : t[i].type = "DATA" => i \in DOMAIN q /\ t[i] = q[i]
  <2> SUFFICES ASSUME NEW i \in DOMAIN t, t[i].type = "DATA", ~(i <= Len(q))
               PROVE FALSE
    BY <1>1
  <2>1. i - Len(q) \in DOMAIN s /\ t[i] = s[i - Len(q)]
    BY <1>1
  <2> QED BY <2>1
<1>3. ASSUME NEW i \in Nat, NEW j \in Nat, EndBetween(q, i, j) PROVE EndBetween(t, i, j)
  <2>1. PICK k \in DOMAIN q : i < k /\ k < j /\ q[k].type = "DEACTIVATED"
    BY <1>3 DEF EndBetween
  <2>2. k \in DOMAIN t /\ t[k] = q[k]
    BY <1>1
  <2> QED BY <2>1, <2>2 DEF EndBetween
<1>4. ASSUME NEW i \in 0 .. Len(q), EndBetween(q, i, Len(q) + 1)
      PROVE  EndBetween(t, i, Len(t) + 1)
  <2>1. PICK k \in DOMAIN q : i < k /\ k < Len(q) + 1 /\ q[k].type = "DEACTIVATED"
    BY <1>4 DEF EndBetween
  <2>2. k \in DOMAIN t /\ t[k] = q[k] /\ k < Len(t) + 1
    BY <1>1, <2>1
  <2> QED BY <2>1, <2>2 DEF EndBetween
<1>5. ASSUME NEW i \in 0 .. Len(q), NEW n \in DOMAIN s, s[n].type = "DEACTIVATED"
      PROVE  EndBetween(t, i, Len(t) + 1)
  <2>1. /\ Len(q) + n \in DOMAIN t /\ t[Len(q) + n] = s[n]
        /\ i < Len(q) + n /\ Len(q) + n < Len(t) + 1
    BY <1>1
  <2> QED BY <1>5, <2>1 DEF EndBetween
<1>6. \/ \A i \in 0 .. Len(q) : EndBetween(t, i, Len(t) + 1)
      \/ r \in InField => r2 \in InField /\ c2 = c
  BY <1>5
<1>7. OfOneContact(buffer)
  BY DEF InOrder
<1>8. ASSUME buffer # <<>>
      PROVE  \/ EndBetween(t, 0, Len(t) + 1)
             \/ r2 \in InField /\ buffer[1].contact = c2
  <2>1. EndBetween(q, 0, Len(q) + 1) \/ (r \in InField /\ buffer[1].contact = c)
    BY <1>8 DEF InOrder
  <2>2. 0 \in 0 .. Len(q)
    BY <1>1
  <2> QED BY <1>4, <1>6, <2>1, <2>2
<1>9. ASSUME buffer # <<>>, NEW j \in DOMAIN t, t[j].type = "DATA"
      PROVE  t[j].detail.contact = buffer[1].contact \/ EndBetween(t, 0, j)
  <2>1. j \in DOMAIN q /\ t[j] = q[j]
    BY <1>2, <1>9
  <2>2. q[j].detail.contact = buffer[1].contact \/ EndBetween(q, 0, j)
    BY <1>9, <2>1 DEF InOrder
  <2> QED BY <1>1, <1>3, <2>1, <2>2
<1>10. ASSUME NEW i \in DOMAIN t, t[i].type = "DATA"
       PROVE  \/ EndBetween(t, i, Len(t) + 1)
              \/ r2 \in InField /\ t[i].detail.contact = c2
  <2>1. i \in DOMAIN q /\ t[i] = q[i]
    BY <1>2, <1>10
  <2>2. EndBetween(q, i, Len(q) + 1) \/ (r \in InField /\ q[i].detail.contact = c)
    BY <1>10, <2>1 DEF InOrder
  <2>3. i \in 0 .. Len(q)
    BY <1>1, <2>1
  <2> QED BY <1>4, <1>6, <2>1, <2>2, <2>3
<1>11. ASSUME NEW i \in DOMAIN t, NEW j \in DOMAIN t, i < j,
              t[i].type = "DATA", t[j].type = "DATA"
       PROVE  t[i].detail.contact = t[j].detail.contact \/ EndBetween(t, i, j)
  <2>1. /\ i \in DOMAIN q /\ t[i] = q[i]
        /\ j \in DOMAIN q /\ t[j] = q[j]
    BY <1>2, <1>11
  <2>2. q[i].detail.contact = q[j].detail.contact \/ EndBetween(q, i, j)
    BY <1>11, <2>1 DEF InOrder
  <2> QED BY <1>1, <1>3, <2>1, <2>2
<1>12. InOrder(buffer, t, r2, c2)
  BY <1>7, <1>8, <1>9, <1>10, <1>11 DEF InOrder
<1> QED BY <1>12 DEF t

(* Data of the contact in the field comes behind.                          *)
LEMMA OrderData ==
  ASSUME NEW buffer \in Seq(Fragments), NEW q \in Seq(Events), NEW e \in Events,
         NEW r, NEW c, r \in InField,
         InOrder(buffer, q, r, c),
         e.type = "DATA", e.detail.contact = c
  PROVE  InOrder(buffer, Append(q, e), r, c)
<1> DEFINE t == Append(q, e)
<1>1. /\ t \in Seq(Events)
      /\ Len(q) \in Nat /\ Len(t) = Len(q) + 1
      /\ DOMAIN q = 1 .. Len(q) /\ DOMAIN t = 1 .. Len(q) + 1
      /\ \A i \in 1 .. Len(q) : t[i] = q[i]
      /\ t[Len(q) + 1] = e
  BY AppendProperties, LenProperties
<1> HIDE DEF t
<1>2. ASSUME NEW i \in Nat, NEW j \in Nat, NEW m \in Nat, j <= m, EndBetween(q, i, j)
      PROVE  EndBetween(t, i, m)
  <2>1. PICK k \in DOMAIN q : i < k /\ k < j /\ q[k].type = "DEACTIVATED"
    BY <1>2 DEF EndBetween
  <2>2. k \in DOMAIN t /\ t[k] = q[k] /\ k < m
    BY <1>1, <1>2, <2>1
  <2> QED BY <2>1, <2>2 DEF EndBetween
<1>3. OfOneContact(buffer)
  BY DEF InOrder
<1>4. ASSUME buffer # <<>>
      PROVE  \/ EndBetween(t, 0, Len(t) + 1)
             \/ r \in InField /\ buffer[1].contact = c
  <2>1. EndBetween(q, 0, Len(q) + 1) \/ (r \in InField /\ buffer[1].contact = c)
    BY <1>4 DEF InOrder
  <2>2. EndBetween(q, 0, Len(q) + 1) => EndBetween(t, 0, Len(t) + 1)
    BY <1>1, <1>2
  <2> QED BY <2>1, <2>2
<1>5. ASSUME buffer # <<>>, NEW j \in DOMAIN t, t[j].type = "DATA"
      PROVE  t[j].detail.contact = buffer[1].contact \/ EndBetween(t, 0, j)
  <2>1. CASE j \in DOMAIN q
    <3>1. q[j].detail.contact = buffer[1].contact \/ EndBetween(q, 0, j)
      BY <1>1, <1>5, <2>1 DEF InOrder
    <3>2. EndBetween(q, 0, j) => EndBetween(t, 0, j)
      BY <1>1, <1>2, <2>1
    <3> QED BY <1>1, <2>1, <3>1, <3>2
  <2>2. CASE j = Len(q) + 1
    <3>1. EndBetween(q, 0, Len(q) + 1) \/ buffer[1].contact = c
      BY <1>5 DEF InOrder
    <3>2. EndBetween(q, 0, Len(q) + 1) => EndBetween(t, 0, j)
      BY <1>1, <1>2, <2>2
    <3> QED BY <1>1, <2>2, <3>1, <3>2
  <2> QED BY <1>1, <2>1, <2>2
<1>6. ASSUME NEW i \in DOMAIN t, t[i].type = "DATA"
      PROVE  \/ EndBetween(t, i, Len(t) + 1)
             \/ r \in InField /\ t[i].detail.contact = c
  <2>1. CASE i \in DOMAIN q
    <3>1. EndBetween(q, i, Len(q) + 1) \/ (r \in InField /\ q[i].detail.contact = c)
      BY <1>1, <1>6, <2>1 DEF InOrder
    <3>2. EndBetween(q, i, Len(q) + 1) => EndBetween(t, i, Len(t) + 1)
      BY <1>1, <1>2, <2>1
    <3> QED BY <1>1, <2>1, <3>1, <3>2
  <2>2. CASE i = Len(q) + 1
    BY <1>1, <2>2
  <2> QED BY <1>1, <2>1, <2>2
<1>7. ASSUME NEW i \in DOMAIN t, NEW j \in DOMAIN t, i < j,
             t[i].type = "DATA", t[j].type = "DATA"
      PROVE  t[i].detail.contact = t[j].detail.contact \/ EndBetween(t, i, j)
  <2>1. i \in DOMAIN q /\ t[i] = q[i]
    BY <1>1, <1>7
  <2>2. CASE j \in DOMAIN q
    <3>1. q[i].detail.contact = q[j].detail.contact \/ EndBetween(q, i, j)
      BY <1>1, <1>7, <2>1, <2>2 DEF InOrder
    <3>2. EndBetween(q, i, j) => EndBetween(t, i, j)
      BY <1>1, <1>2, <2>1, <2>2
    <3> QED BY <1>1, <2>1, <2>2, <3>1, <3>2
  <2>3. CASE j = Len(q) + 1
    <3>1. EndBetween(q, i, Len(q) + 1) \/ q[i].detail.contact = c
      BY <1>7, <2>1 DEF InOrder
    <3>2. EndBetween(q, i, Len(q) + 1) => EndBetween(t, i, j)
      BY <1>1, <1>2, <2>1, <2>3
    <3> QED BY <1>1, <2>1, <2>3, <3>1, <3>2
  <2> QED BY <1>1, <2>2, <2>3
<1>8. InOrder(buffer, t, r, c)
  BY <1>3, <1>4, <1>5, <1>6, <1>7 DEF InOrder
<1> QED BY <1>8 DEF t

(* The buffer is emptied.                                                  *)
LEMMA OrderClear ==
  ASSUME NEW buffer \in Seq(Fragments), NEW q, NEW r, NEW c, InOrder(buffer, q, r, c)
  PROVE  InOrder(<<>>, q, r, c)
BY DEF InOrder, OfOneContact

(* The callback takes the first event, and what counts begins behind it.   *)
LEMMA TailBetween ==
  ASSUME NEW q \in Seq(Events), q # <<>>, NEW i \in Nat, NEW j \in Nat,
         EndBetween(q, i, j), i = 0 => Head(q).type # "DEACTIVATED"
  PROVE  EndBetween(Tail(q), IF i = 0 THEN 0 ELSE i - 1, j - 1)
<1> DEFINE t == Tail(q)
<1>1. /\ Len(q) \in Nat /\ DOMAIN q = 1 .. Len(q) /\ DOMAIN t = 1 .. Len(q) - 1
      /\ \A n \in 1 .. Len(q) - 1 : t[n] = q[n + 1]
      /\ Head(q) = q[1]
  BY HeadTailProperties, LenProperties
<1> HIDE DEF t
<1>2. PICK k \in DOMAIN q : i < k /\ k < j /\ q[k].type = "DEACTIVATED"
  BY DEF EndBetween
<1>3. k # 1
  BY <1>1, <1>2
<1>4. k - 1 \in DOMAIN t /\ t[k - 1] = q[k] /\ k - 1 < j - 1
  BY <1>1, <1>2, <1>3
<1>5. (IF i = 0 THEN 0 ELSE i - 1) < k - 1
  BY <1>1, <1>2, <1>3
<1>6. EndBetween(t, IF i = 0 THEN 0 ELSE i - 1, j - 1)
  BY <1>2, <1>4, <1>5 DEF EndBetween
<1> QED BY <1>6 DEF t

LEMMA OrderEnd ==
  ASSUME NEW buffer \in Seq(Fragments), NEW q \in Seq(Events), q # <<>>,
         NEW r, NEW c, InOrder(buffer, q, r, c)
  PROVE  InOrder(<<>>, Tail(q), r, c)
<1> DEFINE t == Tail(q)
<1>1. /\ Len(q) \in Nat /\ Len(t) = Len(q) - 1
      /\ DOMAIN q = 1 .. Len(q) /\ DOMAIN t = 1 .. Len(q) - 1
      /\ \A n \in 1 .. Len(q) - 1 : t[n] = q[n + 1]
  BY HeadTailProperties, LenProperties
<1>2. \A i \in DOMAIN t : \A j \in Nat : EndBetween(q, i + 1, j) => EndBetween(t, i, j - 1)
  <2> TAKE i \in DOMAIN t
  <2> TAKE j \in Nat
  <2>1. i + 1 \in Nat /\ i + 1 # 0 /\ (i + 1) - 1 = i
    BY <1>1
  <2> HAVE EndBetween(q, i + 1, j)
  <2>2. EndBetween(t, IF i + 1 = 0 THEN 0 ELSE (i + 1) - 1, j - 1)
    BY <2>1, TailBetween
  <2> QED BY <2>1, <2>2
<1> HIDE DEF t
<1>3. ASSUME NEW i \in DOMAIN t, t[i].type = "DATA"
      PROVE  EndBetween(t, i, Len(t) + 1) \/ (r \in InField /\ t[i].detail.contact = c)
  <2>1. i + 1 \in DOMAIN q /\ t[i] = q[i + 1]
    BY <1>1
  <2>2. \/ EndBetween(q, i + 1, Len(q) + 1)
        \/ r \in InField /\ q[i + 1].detail.contact = c
    BY <1>3, <2>1 DEF InOrder
  <2>3. EndBetween(q, i + 1, Len(q) + 1) => EndBetween(t, i, (Len(q) + 1) - 1)
    BY <1>1, <1>2
  <2>4. (Len(q) + 1) - 1 = Len(t) + 1
    BY <1>1
  <2> QED BY <2>1, <2>2, <2>3, <2>4
<1>4. ASSUME NEW i \in DOMAIN t, NEW j \in DOMAIN t, i < j,
             t[i].type = "DATA", t[j].type = "DATA"
      PROVE  t[i].detail.contact = t[j].detail.contact \/ EndBetween(t, i, j)
  <2>1. /\ i + 1 \in DOMAIN q /\ t[i] = q[i + 1]
        /\ j + 1 \in DOMAIN q /\ t[j] = q[j + 1] /\ i + 1 < j + 1
    BY <1>1, <1>4
  <2>2. \/ q[i + 1].detail.contact = q[j + 1].detail.contact
        \/ EndBetween(q, i + 1, j + 1)
    BY <1>4, <2>1 DEF InOrder
  <2>3. EndBetween(q, i + 1, j + 1) => EndBetween(t, i, (j + 1) - 1)
    BY <1>1, <1>2
  <2>4. (j + 1) - 1 = j
    BY <1>1
  <2> QED BY <2>1, <2>2, <2>3, <2>4
<1>5. InOrder(<<>>, t, r, c)
  BY <1>3, <1>4 DEF InOrder, OfOneContact
<1> QED BY <1>5 DEF t

(* An event that neither ends the contact nor adds to the buffer.          *)
LEMMA OrderDrop ==
  ASSUME NEW buffer \in Seq(Fragments), NEW q \in Seq(Events), q # <<>>,
         NEW r, NEW c, InOrder(buffer, q, r, c), Head(q).type # "DEACTIVATED"
  PROVE  InOrder(buffer, Tail(q), r, c)
<1> DEFINE t == Tail(q)
<1>1. /\ Len(q) \in Nat /\ Len(t) = Len(q) - 1
      /\ DOMAIN q = 1 .. Len(q) /\ DOMAIN t = 1 .. Len(q) - 1
      /\ \A n \in 1 .. Len(q) - 1 : t[n] = q[n + 1]
  BY HeadTailProperties, LenProperties
<1>2. \A j \in Nat : EndBetween(q, 0, j) => EndBetween(t, 0, j - 1)
  <2> TAKE j \in Nat
  <2> HAVE EndBetween(q, 0, j)
  <2>1. EndBetween(t, IF 0 = 0 THEN 0 ELSE 0 - 1, j - 1)
    BY TailBetween
  <2> QED BY <2>1
<1>3. InOrder(<<>>, t, r, c)
  BY OrderEnd
<1> HIDE DEF t
<1>4. ASSUME buffer # <<>>
      PROVE  EndBetween(t, 0, Len(t) + 1) \/ (r \in InField /\ buffer[1].contact = c)
  <2>1. EndBetween(q, 0, Len(q) + 1) \/ (r \in InField /\ buffer[1].contact = c)
    BY <1>4 DEF InOrder
  <2>2. EndBetween(q, 0, Len(q) + 1) => EndBetween(t, 0, (Len(q) + 1) - 1)
    BY <1>1, <1>2
  <2>3. (Len(q) + 1) - 1 = Len(t) + 1
    BY <1>1
  <2> QED BY <2>1, <2>2, <2>3
<1>5. ASSUME buffer # <<>>, NEW j \in DOMAIN t, t[j].type = "DATA"
      PROVE  t[j].detail.contact = buffer[1].contact \/ EndBetween(t, 0, j)
  <2>1. j + 1 \in DOMAIN q /\ t[j] = q[j + 1] /\ (j + 1) - 1 = j
    BY <1>1
  <2>2. q[j + 1].detail.contact = buffer[1].contact \/ EndBetween(q, 0, j + 1)
    BY <1>5, <2>1 DEF InOrder
  <2>3. EndBetween(q, 0, j + 1) => EndBetween(t, 0, (j + 1) - 1)
    BY <1>1, <1>2
  <2> QED BY <2>1, <2>2, <2>3
<1>6. InOrder(buffer, t, r, c)
  BY <1>3, <1>4, <1>5 DEF InOrder
<1> QED BY <1>6 DEF t

(* A fragment moves from the events into the buffer.                       *)
LEMMA OrderGather ==
  ASSUME NEW buffer \in Seq(Fragments), NEW q \in Seq(Events), q # <<>>,
         NEW r, NEW c, InOrder(buffer, q, r, c), Head(q).type = "DATA"
  PROVE  InOrder(Append(buffer, Head(q).detail), Tail(q), r, c)
<1> DEFINE t == Tail(q)  d == Head(q).detail  more == Append(buffer, d)
<1>1. /\ Len(q) \in Nat /\ Len(t) = Len(q) - 1 /\ Head(q) = q[1]
      /\ DOMAIN q = 1 .. Len(q) /\ DOMAIN t = 1 .. Len(q) - 1 /\ 1 \in DOMAIN q
      /\ \A n \in 1 .. Len(q) - 1 : t[n] = q[n + 1]
  BY HeadTailProperties, LenProperties, EmptySeq
<1>2. Head(q) \in Events /\ d \in Fragments
  <2>1. Head(q) \in Events
    BY HeadTailProperties
  <2> QED BY <2>1 DEF Events, Types
<1>3. \A j \in Nat : EndBetween(q, 1, j) => EndBetween(t, 0, j - 1)
  <2> TAKE j \in Nat
  <2> HAVE EndBetween(q, 1, j)
  <2>1. EndBetween(t, IF 1 = 0 THEN 0 ELSE 1 - 1, j - 1)
    BY TailBetween
  <2> QED BY <2>1
<1>4. InOrder(<<>>, t, r, c)
  BY OrderEnd
<1>5. OfOneContact(more) /\ more[1].contact = d.contact
  <2>1. /\ Len(buffer) \in Nat /\ DOMAIN buffer = 1 .. Len(buffer)
        /\ DOMAIN more = 1 .. Len(buffer) + 1
        /\ \A i \in 1 .. Len(buffer) : more[i] = buffer[i]
        /\ more[Len(buffer) + 1] = d
        /\ buffer # <<>> => Len(buffer) # 0
        /\ buffer = <<>> => Len(buffer) = 0
    BY <1>2, AppendProperties, LenProperties, EmptySeq
  <2>2. ASSUME buffer # <<>> PROVE d.contact = buffer[1].contact
    <3>1. ~EndBetween(q, 0, 1)
      BY <1>1 DEF EndBetween
    <3> QED BY <1>1, <2>2, <3>1 DEF InOrder
  <2>3. \A i \in 1 .. Len(buffer) : buffer[i].contact = buffer[1].contact
    BY <2>1 DEF InOrder, OfOneContact
  <2> HIDE DEF more, d
  <2>4. CASE buffer = <<>>
    <3>1. DOMAIN more = 1 .. 1 /\ more[1] = d
      BY <2>1, <2>4
    <3> QED BY <3>1 DEF OfOneContact
  <2>5. CASE buffer # <<>>
    <3>1. more[1] = buffer[1]
      BY <2>1, <2>5
    <3>2. \A i \in 1 .. Len(buffer) + 1 : more[i].contact = buffer[1].contact
      BY <2>1, <2>2, <2>3, <2>5
    <3> QED BY <2>1, <2>2, <2>5, <3>1, <3>2 DEF OfOneContact
  <2> QED BY <2>4, <2>5
<1>6. EndBetween(t, 0, Len(t) + 1) \/ (r \in InField /\ more[1].contact = c)
  <2>1. EndBetween(q, 1, Len(q) + 1) \/ (r \in InField /\ d.contact = c)
    BY <1>1 DEF InOrder
  <2>2. EndBetween(q, 1, Len(q) + 1) => EndBetween(t, 0, (Len(q) + 1) - 1)
    BY <1>1, <1>3
  <2>3. (Len(q) + 1) - 1 = Len(t) + 1
    BY <1>1
  <2> QED BY <1>5, <2>1, <2>2, <2>3
<1>7. ASSUME NEW j \in DOMAIN t, t[j].type = "DATA"
      PROVE  t[j].detail.contact = more[1].contact \/ EndBetween(t, 0, j)
  <2>1. j + 1 \in DOMAIN q /\ t[j] = q[j + 1] /\ (j + 1) - 1 = j /\ 1 < j + 1
    BY <1>1
  <2>2. q[1].detail.contact = q[j + 1].detail.contact \/ EndBetween(q, 1, j + 1)
    BY <1>1, <1>7, <2>1 DEF InOrder
  <2>3. EndBetween(q, 1, j + 1) => EndBetween(t, 0, (j + 1) - 1)
    BY <1>1, <1>3
  <2> QED BY <1>1, <1>5, <2>1, <2>2, <2>3
<1> HIDE DEF more, t
<1>8. InOrder(more, t, r, c)
  BY <1>4, <1>5, <1>6, <1>7 DEF InOrder
<1> QED BY <1>8 DEF more, t

-----------------------------------------------------------------------------
(* The tester and the stack.                                               *)

OfContact(events) ==
  \A i \in DOMAIN events :
    events[i].type = "DATA" => events[i].detail.contact = contact.id

LEMMA FragmentTyped ==
  ASSUME Typed, NEW n \in Nat, NEW i \in Nat, NEW of \in Nat
  PROVE  /\ Event("DATA", Fragment(n, i, of)) \in Events
         /\ Event("DATA", Fragment(n, i, of)).detail.contact = contact.id
BY DEF Typed, Contacts, Event, Fragment, Events, Fragments

(* What a contact prepares is its own.                                     *)
LEMMA AnswersTyped ==
  ASSUME Typed, NEW n \in Nat, NEW a \in Answers(n) \cup {Block(n)}
  PROVE  a \in Seq(Events) /\ OfContact(a)
<1>1. CASE a = Block(n)
  <2> DEFINE e == Event("DATA", Fragment(n, 1, 1))
             f == Event("READ_CPLT", "none")
  <2>1. e \in Events /\ e.detail.contact = contact.id
    BY FragmentTyped
  <2>2. f \in Events /\ f.type # "DATA"
    BY DEF Event, Events, Types, Details, Kinds
  <2>3. a = <<e, f>>
    BY <1>1 DEF Block
  <2> HIDE DEF e, f
  <2> QED BY <2>1, <2>2, <2>3 DEF OfContact
<1>2. CASE a \in Answers(n) /\ chaining
  <2>1. PICK of \in 1 .. MaxFragments : a = [i \in 1 .. of |-> Event("DATA", Fragment(n, i, of))]
    BY <1>2 DEF Answers
  <2>2. of \in Nat
    BY DataAssumption
  <2>3. \A i \in 1 .. of : a[i] \in Events /\ a[i].detail.contact = contact.id
    BY <2>1, <2>2, FragmentTyped
  <2>4. DOMAIN a = 1 .. of
    BY <2>1
  <2>5. a \in [1 .. of -> Events]
    BY <2>1, <2>3, <2>4
  <2>6. a \in Seq(Events)
    BY <2>2, <2>5, SeqDef
  <2> QED BY <2>3, <2>4, <2>6 DEF OfContact
<1>3. CASE a \in Answers(n) /\ ~chaining
  <2>1. PICK i \in {1, TooBig} : a = <<Event("DATA", Fragment(n, i, 1))>>
    BY <1>3 DEF Answers
  <2>2. i \in Nat
    BY DEF TooBig
  <2> DEFINE e == Event("DATA", Fragment(n, i, 1))
  <2>3. e \in Events /\ e.detail.contact = contact.id
    BY <2>2, FragmentTyped
  <2> HIDE DEF e
  <2> QED BY <2>1, <2>3 DEF OfContact, e
<1> QED BY <1>1, <1>2, <1>3

LEMMA Prepared ==
  ASSUME Typed, NEW answers,
         \A a \in answers : a \in Seq(Events) /\ OfContact(a),
         Prepare(answers)
  PROVE  /\ contact' \in Contacts
         /\ contact'.id = contact.id
         /\ owed' \in Seq(Events)
         /\ OfContact(owed)'
<1>1. /\ contact' \in Contacts
      /\ contact'.id = contact.id
  BY DEF Prepare, Typed, Contacts
<1>2. owed' \in answers \cup {<<>>}
  BY DEF Prepare
<1>3. owed' \in Seq(Events) /\ OfContact(owed')
  <2>1. CASE owed' \in answers
    BY <2>1
  <2>2. CASE owed' = <<>>
    BY <2>2 DEF OfContact
  <2> QED BY <1>2, <2>1, <2>2
<1> QED BY <1>1, <1>3 DEF OfContact

(* Events without data are reported, among them the end of the contact     *)
(* unless it stays.                                                        *)
LEMMA Reported ==
  ASSUME Inv, NEW s \in Seq(Events), Report(s),
         \A i \in DOMAIN s : s[i].type # "DATA",
         \/ \E i \in DOMAIN s : s[i].type = "DEACTIVATED"
         \/ rf \in InField => rf' \in InField /\ contact'.id = contact.id,
         UNCHANGED Pgs_cbTempBuffer
  PROVE  nfaOut' \in Seq(Events) /\ InOrder(Pgs_cbTempBuffer, nfaOut, rf, contact.id)'
<1>1. InOrder(Pgs_cbTempBuffer, nfaOut \o s, rf', contact'.id)
  BY OrderExtend DEF Inv, Typed
<1>2. nfaOut' = nfaOut \o s
  BY DEF Report
<1>3. nfaOut \o s \in Seq(Events)
  BY ConcatProperties DEF Inv, Typed
<1>4. nfaOut' \in Seq(Events) /\ InOrder(Pgs_cbTempBuffer', nfaOut', rf', contact'.id)
  BY <1>1, <1>2, <1>3
<1> QED BY <1>4 DEF InOrder, EndBetween, OfOneContact

LEMMA DeactivationTyped ==
  ASSUME NEW type \in Details
  PROVE  /\ Deactivation(type) \in Seq(Events)
         /\ \A i \in DOMAIN Deactivation(type) : Deactivation(type)[i].type # "DATA"
         /\ rf \in InField =>
              /\ 1 \in DOMAIN Deactivation(type)
              /\ Deactivation(type)[1].type = "DEACTIVATED"
<1>1. CASE rf \in InField
  <2>1. Deactivation(type) = <<Event("DEACTIVATED", type)>>
    BY <1>1 DEF Deactivation, InField
  <2>2. Event("DEACTIVATED", type) \in Events /\ Event("DEACTIVATED", type).type = "DEACTIVATED"
    BY DEF Event, Events, Types, Details, Kinds
  <2> QED BY <2>1, <2>2
<1>2. CASE rf \notin InField
  <2>1. Deactivation(type) = <<>>
    BY <1>2 DEF Deactivation, InField
  <2> QED BY <1>2, <2>1
<1> QED BY <1>1, <1>2

LEMMA EventTyped ==
  ASSUME NEW type \in Types, NEW detail \in Details
  PROVE  /\ <<Event(type, detail)>> \in Seq(Events)
         /\ DOMAIN <<Event(type, detail)>> = {1}
         /\ <<Event(type, detail)>>[1].type = type
<1>1. Event(type, detail) \in Events /\ Event(type, detail).type = type
  BY DEF Event, Events
<1> QED BY <1>1

LEMMA TesterInv ==
  ASSUME Inv, Tester
  PROVE  Inv'
<1>1. /\ UNCHANGED <<tester, Pgs_cbTempBuffer, out>>
      /\ tester \in Testers /\ tester' \in Testers
      /\ Pgs_cbTempBuffer' \in Seq(Fragments)
      /\ out' \in [data : Seq(Fragments), len : Nat]
      /\ OfOneContact(out.data)'
  BY DEF Inv, Typed, Tester, fixedVars, OfOneContact
<1> SUFFICES /\ rf' \in RfStates
             /\ contact' \in Contacts
             /\ owed' \in Seq(Events) /\ nfaOut' \in Seq(Events)
             /\ OfContact(owed)'
             /\ InOrder(Pgs_cbTempBuffer, nfaOut, rf, contact.id)'
  BY <1>1 DEF Inv, Typed, OfContact
<1>2. ASSUME NEW k \in tester.kinds, Present(k) PROVE
         /\ rf' \in RfStates
         /\ contact' \in Contacts
         /\ owed' \in Seq(Events) /\ nfaOut' \in Seq(Events)
         /\ OfContact(owed)'
         /\ InOrder(Pgs_cbTempBuffer, nfaOut, rf, contact.id)'
  <2>1. k \in Kinds /\ k \in Details /\ "ACTIVATED" \in Types
    BY <1>1, DataAssumption DEF Kinds, Details, Types
  <2>2. rf = "discovering" /\ rf \notin InField
    BY <1>2 DEF Present, InField
  <2>3. /\ nfaOut' \in Seq(Events)
        /\ InOrder(Pgs_cbTempBuffer, nfaOut, rf, contact.id)'
    <3>1. /\ <<Event("ACTIVATED", k)>> \in Seq(Events)
          /\ \A i \in DOMAIN <<Event("ACTIVATED", k)>> :
               <<Event("ACTIVATED", k)>>[i].type # "DATA"
      BY <2>1, EventTyped
    <3>2. Report(<<Event("ACTIVATED", k)>>)
      BY <1>2 DEF Present
    <3> QED BY <1>1, <2>2, <3>1, <3>2, Reported
  <2>4. owed' = <<>> /\ owed' \in Seq(Events) /\ OfContact(owed)'
    BY <1>2 DEF Present, OfContact
  <2>5. contact' \in Contacts
    BY <1>2, <2>1 DEF Present, Inv, Typed, Contacts
  <2>6. rf' \in RfStates
    BY <1>2 DEF Present, RfStates
  <2> QED BY <2>3, <2>4, <2>5, <2>6
<1>3. CASE Begin
  <2>1. \A a \in Answers(1) : a \in Seq(Events) /\ OfContact(a)
    BY AnswersTyped DEF Inv
  <2>2. /\ contact' \in Contacts
        /\ contact'.id = contact.id
        /\ owed' \in Seq(Events) /\ OfContact(owed)'
    BY <1>3, <2>1, Prepared DEF Begin, Inv
  <2>3. UNCHANGED <<rf, nfaOut>> /\ nfaOut' \in Seq(Events) /\ rf' \in RfStates
    BY <1>3 DEF Begin, Inv, Typed
  <2>4. InOrder(Pgs_cbTempBuffer, nfaOut, rf, contact.id)'
    BY <1>1, <2>2, <2>3 DEF Inv, InOrder, EndBetween, OfOneContact
  <2> QED BY <2>2, <2>3, <2>4
<1>4. CASE Answer
  <2>1. /\ rf = "active" /\ rf \in InField /\ UNCHANGED <<rf, contact>>
        /\ rf' \in RfStates /\ contact' \in Contacts
    BY <1>4 DEF Answer, Inv, Typed, InField
  <2>2. CASE Report(<<Head(owed)>>) /\ owed' = Tail(owed)
    <3>1. owed # <<>> /\ owed \in Seq(Events)
      BY <1>4 DEF Answer, Inv, Typed
    <3>2. /\ Head(owed) \in Events /\ owed' \in Seq(Events)
          /\ DOMAIN owed = 1 .. Len(owed) /\ DOMAIN owed' = 1 .. Len(owed) - 1
          /\ Len(owed) \in Nat \ {0} /\ Head(owed) = owed[1]
          /\ \A i \in 1 .. Len(owed) - 1 : owed'[i] = owed[i + 1]
      BY <2>2, <3>1, HeadTailProperties, LenProperties, EmptySeq
    <3>3. Head(owed).type = "DATA" => Head(owed).detail.contact = contact.id
      BY <3>2 DEF Inv
    <3>4. OfContact(owed)'
      BY <2>1, <3>2 DEF Inv, OfContact
    <3>5. nfaOut' = nfaOut \o <<Head(owed)>> /\ <<Head(owed)>> \in Seq(Events)
      BY <2>2, <3>2 DEF Report
    <3>6. nfaOut' = Append(nfaOut, Head(owed)) /\ nfaOut' \in Seq(Events)
      BY <3>2, <3>5, AppendIsConcat, AppendProperties DEF Inv, Typed
    <3>7. InOrder(Pgs_cbTempBuffer, nfaOut', rf, contact.id)
      <4>1. CASE Head(owed).type = "DATA"
        BY <2>1, <3>2, <3>3, <3>6, <4>1, OrderData DEF Inv, Typed
      <4>2. CASE Head(owed).type # "DATA"
        <5>1. \A i \in DOMAIN <<Head(owed)>> : <<Head(owed)>>[i].type # "DATA"
          BY <4>2
        <5> QED BY <2>1, <3>5, <5>1, OrderExtend DEF Inv, Typed
      <4> QED BY <4>1, <4>2
    <3>8. InOrder(Pgs_cbTempBuffer, nfaOut, rf, contact.id)'
      BY <1>1, <2>1, <3>7 DEF InOrder, EndBetween, OfOneContact
    <3> QED BY <2>1, <3>2, <3>4, <3>6, <3>8
  <2>3. CASE Report(<<Event("RW_INTF_ERROR", "none")>>) /\ owed' = <<>>
    <3>1. /\ nfaOut' \in Seq(Events)
          /\ InOrder(Pgs_cbTempBuffer, nfaOut, rf, contact.id)'
      <4>1. "RW_INTF_ERROR" \in Types /\ "none" \in Details /\ "RW_INTF_ERROR" # "DATA"
        BY DEF Types, Details, Kinds
      <4>2. /\ <<Event("RW_INTF_ERROR", "none")>> \in Seq(Events)
            /\ \A i \in DOMAIN <<Event("RW_INTF_ERROR", "none")>> :
                 <<Event("RW_INTF_ERROR", "none")>>[i].type # "DATA"
        BY <4>1, EventTyped
      <4> QED BY <1>1, <2>1, <2>3, <4>2, Reported
    <3>2. owed' \in Seq(Events) /\ OfContact(owed)'
      BY <2>3 DEF OfContact
    <3> QED BY <2>1, <3>1, <3>2
  <2> QED BY <1>4, <2>2, <2>3 DEF Answer
<1>5. CASE Leave
  <2>1. PICK type \in Details : Report(<<Event("DEACTIVATED", type)>>)
    BY <1>5 DEF Leave, Details
  <2> DEFINE s == <<Event("DEACTIVATED", type)>>
  <2>2. /\ s \in Seq(Events) /\ \A i \in DOMAIN s : s[i].type # "DATA"
        /\ \E i \in DOMAIN s : s[i].type = "DEACTIVATED"
    <3>1. "DEACTIVATED" \in Types
      BY DEF Types
    <3> QED BY <3>1, EventTyped
  <2>3. /\ nfaOut' \in Seq(Events)
        /\ InOrder(Pgs_cbTempBuffer, nfaOut, rf, contact.id)'
    BY <1>1, <2>1, <2>2, Reported
  <2>4. /\ rf' \in RfStates /\ contact' \in Contacts
        /\ owed' \in Seq(Events) /\ OfContact(owed)'
    BY <1>5 DEF Leave, Inv, Typed, RfStates, OfContact
  <2> QED BY <2>3, <2>4
<1> QED BY <1>2, <1>3, <1>4, <1>5 DEF Tester

(* The commands.                                                           *)
LEMMA SentToContact ==
  ASSUME Inv, NEW c, ToContact(c), UNCHANGED Pgs_cbTempBuffer
  PROVE  /\ rf' \in RfStates /\ contact' \in Contacts
         /\ owed' \in Seq(Events) /\ nfaOut' \in Seq(Events)
         /\ OfContact(owed)'
         /\ InOrder(Pgs_cbTempBuffer, nfaOut, rf, contact.id)'
<1>1. /\ contact' \in Contacts /\ contact'.id = contact.id
      /\ owed' \in Seq(Events) /\ OfContact(owed)'
  <2>1. contact.sent + 1 \in Nat
    BY DEF Inv, Typed, Contacts
  <2>2. CASE Prepare(Answers(contact.sent + 1))
    <3>1. \A a \in Answers(contact.sent + 1) : a \in Seq(Events) /\ OfContact(a)
      BY <2>1, AnswersTyped DEF Inv
    <3> QED BY <2>2, <3>1, Prepared DEF Inv
  <2>3. CASE Prepare({Block(contact.sent + 1)})
    <3>1. \A a \in {Block(contact.sent + 1)} : a \in Seq(Events) /\ OfContact(a)
      BY <2>1, AnswersTyped DEF Inv
    <3> QED BY <2>3, <3>1, Prepared DEF Inv
  <2>4. CASE UNCHANGED <<contact, owed>>
    BY <2>4 DEF Inv, Typed, OfContact
  <2> QED BY <2>2, <2>3, <2>4 DEF ToContact
<1>2. UNCHANGED <<rf, nfaOut>> /\ nfaOut' \in Seq(Events) /\ rf' \in RfStates
  BY DEF ToContact, Inv, Typed
<1>3. InOrder(Pgs_cbTempBuffer, nfaOut, rf, contact.id)'
  BY <1>1, <1>2 DEF Inv, InOrder, EndBetween, OfOneContact
<1> QED BY <1>1, <1>2, <1>3

LEMMA DoneTyped ==
  ASSUME NEW c \in {"Stop", "Configure", "StartRf"}
  PROVE  /\ Done(c) \in Seq(Events)
         /\ \A i \in DOMAIN Done(c) : Done(c)[i].type # "DATA"
<1>1. /\ Reply[c] \in {"RF_DISCOVERY_STOPPED", "CONFIGURED", "RF_DISCOVERY_STARTED"}
  BY DEF Reply
<1>2. Reply[c] \in Types /\ Reply[c] # "DATA" /\ "none" \in Details
  BY <1>1 DEF Types, Details, Kinds
<1> QED BY <1>2, EventTyped DEF Done

LEMMA ControlsOrder ==
  ASSUME Inv, NEW c, Controls(c), UNCHANGED Pgs_cbTempBuffer
  PROVE  /\ rf' \in RfStates /\ contact' \in Contacts
         /\ owed' \in Seq(Events) /\ nfaOut' \in Seq(Events)
         /\ OfContact(owed)'
         /\ InOrder(Pgs_cbTempBuffer, nfaOut, rf, contact.id)'
<1>1. /\ contact' = contact /\ contact' \in Contacts
      /\ owed' \in {<<>>, owed} /\ rf \in RfStates
  BY DEF Controls, Inv, Typed
<1>2. owed' \in Seq(Events) /\ OfContact(owed)'
  <2>1. CASE owed' = <<>>
    BY <2>1 DEF OfContact
  <2>2. CASE owed' = owed
    BY <1>1, <2>2 DEF Inv, Typed, OfContact
  <2> QED BY <1>1, <2>1, <2>2
<1>3. {"IDLE", "DISCOVERY", "SLEEP"} \subseteq Details
  BY DEF Details
<1>4. ASSUME NEW type \in Details, Report(Deactivation(type)), rf' \in RfStates
      PROVE  /\ nfaOut' \in Seq(Events)
             /\ InOrder(Pgs_cbTempBuffer, nfaOut, rf, contact.id)'
  <2> DEFINE s == Deactivation(type)
  <2>1. /\ s \in Seq(Events) /\ \A i \in DOMAIN s : s[i].type # "DATA"
        /\ rf \in InField => \E i \in DOMAIN s : s[i].type = "DEACTIVATED"
    BY DeactivationTyped
  <2> HIDE DEF s
  <2>2. Report(s)
    BY <1>4 DEF s
  <2> QED BY <2>1, <2>2, Reported
<1>5. CASE c \in {"DeactivateSleep", "Deactivate"}
  <2>1. PICK type \in Details : Report(Deactivation(type))
    BY <1>3, <1>5 DEF Controls
  <2>2. rf' \in RfStates
    BY <1>5 DEF Controls, RfStates
  <2> QED BY <1>1, <1>2, <1>4, <2>1, <2>2
<1>6. CASE c = "Stop"
  <2> DEFINE d == Deactivation("IDLE")  s == d \o Done(c)
  <2>1. rf' = "stopped" /\ Report(s)
    BY <1>6 DEF Controls
  <2>2. /\ d \in Seq(Events) /\ \A i \in DOMAIN d : d[i].type # "DATA"
        /\ rf \in InField => 1 \in DOMAIN d /\ d[1].type = "DEACTIVATED"
    BY <1>3, DeactivationTyped
  <2>3. /\ Done(c) \in Seq(Events)
        /\ \A i \in DOMAIN Done(c) : Done(c)[i].type # "DATA"
    BY <1>6, DoneTyped
  <2> HIDE DEF d
  <2>4. /\ s \in Seq(Events) /\ DOMAIN s = 1 .. Len(d) + Len(Done(c))
        /\ Len(d) \in Nat /\ Len(Done(c)) \in Nat
        /\ DOMAIN d = 1 .. Len(d) /\ DOMAIN Done(c) = 1 .. Len(Done(c))
        /\ \A i \in 1 .. Len(d) + Len(Done(c)) :
             s[i] = IF i <= Len(d) THEN d[i] ELSE Done(c)[i - Len(d)]
    BY <2>2, <2>3, ConcatProperties, LenProperties
  <2> HIDE DEF s
  <2>5. \A i \in DOMAIN s : s[i].type # "DATA"
    <3> TAKE i \in DOMAIN s
    <3>1. CASE i <= Len(d)
      BY <2>2, <2>4, <3>1
    <3>2. CASE ~(i <= Len(d))
      <4>1. i - Len(d) \in DOMAIN Done(c) /\ s[i] = Done(c)[i - Len(d)]
        BY <2>4, <3>2
      <4> QED BY <2>3, <4>1
    <3> QED BY <3>1, <3>2
  <2>6. rf \in InField => \E i \in DOMAIN s : s[i].type = "DEACTIVATED"
    <3> HAVE rf \in InField
    <3>1. 1 \in DOMAIN s /\ s[1] = d[1]
      BY <2>2, <2>4
    <3> QED BY <2>2, <3>1
  <2>7. /\ nfaOut' \in Seq(Events)
        /\ InOrder(Pgs_cbTempBuffer, nfaOut, rf, contact.id)'
    BY <2>1, <2>4, <2>5, <2>6, Reported
  <2> QED BY <1>1, <1>2, <2>1, <2>7 DEF RfStates
<1>7. CASE c \in {"Configure", "StartRf"}
  <2>1. Report(Done(c)) /\ rf' \in RfStates /\ (rf \in InField => rf' = rf)
    BY <1>1, <1>7 DEF Controls, RfStates, InField
  <2>2. /\ Done(c) \in Seq(Events)
        /\ \A i \in DOMAIN Done(c) : Done(c)[i].type # "DATA"
    BY <1>7, DoneTyped
  <2>3. /\ nfaOut' \in Seq(Events)
        /\ InOrder(Pgs_cbTempBuffer, nfaOut, rf, contact.id)'
    BY <1>1, <2>1, <2>2, Reported
  <2> QED BY <1>1, <1>2, <2>1, <2>3
<1> QED BY <1>5, <1>6, <1>7 DEF Controls

-----------------------------------------------------------------------------
(* The two threads.                                                        *)

(* The buffer may be emptied and what is given out be what was in it; the  *)
(* rest of what Inv speaks of stays.                                       *)
LEMMA Elsewhere ==
  ASSUME Inv, UNCHANGED <<tester, rf, contact, owed, nfaOut>>,
         Pgs_cbTempBuffer' \in {Pgs_cbTempBuffer, <<>>},
         out' \in [data : Seq(Fragments), len : Nat],
         out'.data \in {out.data, Pgs_cbTempBuffer, <<>>}
  PROVE  Inv'
<1>1. Typed'
  <2>1. Pgs_cbTempBuffer' \in Seq(Fragments)
    BY EmptySeq DEF Inv, Typed
  <2> QED BY <2>1 DEF Inv, Typed
<1>2. (\A i \in DOMAIN owed : owed[i].type = "DATA" => owed[i].detail.contact = contact.id)'
  BY DEF Inv
<1>3. InOrder(Pgs_cbTempBuffer, nfaOut, rf, contact.id)'
  <2>1. InOrder(<<>>, nfaOut, rf, contact.id)
    BY OrderClear DEF Inv, Typed
  <2>2. InOrder(Pgs_cbTempBuffer', nfaOut', rf', contact'.id)
    BY <2>1 DEF Inv
  <2> QED BY <2>2 DEF InOrder, EndBetween, OfOneContact
<1>4. OfOneContact(out.data)'
  BY DEF Inv, InOrder, OfOneContact
<1> QED BY <1>1, <1>2, <1>3, <1>4 DEF Inv

LEMMA StackThreadInv ==
  ASSUME Inv, StackThread
  PROVE  Inv'
<1>1. CASE Callback
  <2> DEFINE e == Head(nfaOut)
  <2>1. /\ nfaOut # <<>> /\ nfaOut' = Tail(nfaOut)
        /\ Pgs_cbTempBuffer' = BufferAfter(e)
        /\ UNCHANGED <<tester, rf, contact, owed, out>>
    BY <1>1 DEF Callback, fixedVars
  <2>2. /\ e \in Events /\ nfaOut' \in Seq(Events)
        /\ nfaOut \in Seq(Events) /\ Pgs_cbTempBuffer \in Seq(Fragments)
    BY <2>1, HeadTailProperties DEF Inv, Typed
  <2>3. /\ Pgs_cbTempBuffer' \in Seq(Fragments)
        /\ InOrder(Pgs_cbTempBuffer', nfaOut', rf, contact.id)
    <3> HIDE DEF e
    <3>1. CASE e.type = "DATA" /\ ~BadLength(e)
      <4>1. Pgs_cbTempBuffer' = Append(Pgs_cbTempBuffer, e.detail) /\ e.detail \in Fragments
        BY <2>1, <2>2, <3>1 DEF BufferAfter, Events, Types
      <4> QED BY ZenonT(60), <2>1, <2>2, <3>1, <4>1, OrderGather, AppendProperties DEF Inv, e
    <3>2. CASE e.type = "DEACTIVATED"
      <4>1. Pgs_cbTempBuffer' = <<>>
        BY <2>1, <3>2 DEF BufferAfter
      <4> QED BY <2>1, <2>2, <4>1, OrderEnd DEF Inv
    <3>3. CASE ~(e.type = "DATA" /\ ~BadLength(e)) /\ e.type # "DEACTIVATED"
      <4>1. Pgs_cbTempBuffer' = Pgs_cbTempBuffer
        BY <2>1, <3>3 DEF BufferAfter
      <4> QED BY <2>1, <2>2, <3>3, <4>1, OrderDrop DEF Inv, e
    <3> QED BY <3>1, <3>2, <3>3
  <2>4. InOrder(Pgs_cbTempBuffer, nfaOut, rf, contact.id)'
    BY <2>1, <2>3 DEF InOrder, EndBetween, OfOneContact
  <2> QED BY <2>1, <2>2, <2>3, <2>4 DEF Inv, Typed, OfOneContact
<1>2. CASE CallbackPush
  BY <1>2, Elsewhere DEF CallbackPush, fixedVars, stackVars, Inv, Typed
<1> QED BY <1>1, <1>2 DEF StackThread

LEMMA HandlerInv ==
  ASSUME Inv, Handler
  PROVE  Inv'
<1> USE DEF fixedVars, stackVars
<1>1. tester' = tester /\ out \in [data : Seq(Fragments), len : Nat]
  BY DEF Handler, Inv, Typed
<1>2. Nothing \in [data : Seq(Fragments), len : Nat] /\ Nothing.data = <<>>
  BY DEF Nothing
<1>3. CASE HandlerPull
  BY <1>1, <1>3, Elsewhere DEF HandlerPull
<1>4. CASE LoopBack
  BY <1>1, <1>4, Elsewhere DEF LoopBack
<1>5. CASE Echo
  BY <1>1, <1>5, Elsewhere DEF Echo
<1>6. CASE NotConnected
  BY <1>1, <1>6, Elsewhere DEF NotConnected
<1>7. CASE BeginReceive
  BY <1>1, <1>7, Elsewhere DEF BeginReceive
<1>8. CASE Issue
  <2>1. out' = Nothing /\ UNCHANGED Pgs_cbTempBuffer
    BY <1>8 DEF Issue
  <2>2. CASE Refused(Step)
    <3>1. UNCHANGED <<rf, contact, owed, nfaOut>>
      BY <1>8, <2>2 DEF Issue
    <3> QED BY <1>1, <1>2, <2>1, <3>1, Elsewhere
  <2>3. CASE ~Refused(Step)
    <3>1. ToContact(Step) \/ Controls(Step)
      BY <1>8, <2>3 DEF Issue
    <3>2. /\ rf' \in RfStates /\ contact' \in Contacts
          /\ owed' \in Seq(Events) /\ nfaOut' \in Seq(Events)
          /\ OfContact(owed)'
          /\ InOrder(Pgs_cbTempBuffer, nfaOut, rf, contact.id)'
      <4>1. CASE Controls(Step)
        BY <2>1, <4>1, ControlsOrder
      <4>2. CASE ToContact(Step)
        BY <2>1, <4>2, SentToContact
      <4> QED BY <3>1, <4>1, <4>2
    <3>3. OfOneContact(out.data)'
      BY <1>2, <2>1 DEF OfOneContact
    <3> QED BY <1>1, <1>2, <2>1, <3>2, <3>3 DEF Inv, Typed, OfContact
  <2> QED BY <2>2, <2>3
<1>9. CASE CheckSent
  BY <1>1, <1>9, Elsewhere DEF CheckSent
<1>10. CASE Wait
  BY <1>1, <1>10, Elsewhere DEF Wait
<1>11. CASE Timeout
  BY <1>1, <1>11, Elsewhere DEF Timeout
<1>12. CASE CheckData
  BY <1>1, <1>12, Elsewhere DEF CheckData
<1>13. CASE Copy
  <2>1. /\ out' \in [data : Seq(Fragments), len : Nat] /\ out'.data = Pgs_cbTempBuffer
        /\ UNCHANGED Pgs_cbTempBuffer
    BY <1>1, <1>13 DEF Copy, Inv, Typed
  <2> QED BY <1>1, <1>13, <2>1, Elsewhere DEF Copy
<1>14. CASE GiveLength
  <2>1. Len(Pgs_cbTempBuffer) \in Nat
    BY LenProperties DEF Inv, Typed
  <2>2. /\ out' \in [data : Seq(Fragments), len : Nat] /\ out'.data = out.data
        /\ UNCHANGED Pgs_cbTempBuffer
    BY <1>1, <1>14, <2>1 DEF GiveLength
  <2> QED BY <1>1, <1>14, <2>2, Elsewhere DEF GiveLength
<1>15. CASE Clear
  BY <1>1, <1>15, Elsewhere DEF Clear
<1>16. CASE Received
  BY <1>1, <1>16, Elsewhere DEF Received
<1>17. CASE DiscoveryStop
  BY <1>1, <1>17, Elsewhere DEF DiscoveryStop
<1>18. CASE Flush
  BY <1>1, <1>18, Elsewhere DEF Flush
<1>19. CASE ResetLength
  BY <1>1, <1>19, Elsewhere DEF ResetLength
<1>20. CASE SetStarted
  BY <1>1, <1>20, Elsewhere DEF SetStarted
<1> QED BY <1>3, <1>4, <1>5, <1>6, <1>7, <1>8, <1>9, <1>10, <1>11, <1>12, <1>13,
           <1>14, <1>15, <1>16, <1>17, <1>18, <1>19, <1>20 DEF Handler

-----------------------------------------------------------------------------
LEMMA InitInv == Init => Inv
<1> SUFFICES ASSUME Init PROVE Inv
  OBVIOUS
<1>1. Typed
  BY DEF Init, Typed, RfStates, Contacts, Kinds, Nothing
<1>2. DOMAIN owed = {} /\ DOMAIN out.data = {} /\ DOMAIN nfaOut = {} /\ Pgs_cbTempBuffer = <<>>
  BY DEF Init, Nothing
<1> QED BY <1>1, <1>2 DEF Inv, InOrder, OfOneContact

LEMMA NextInv == Inv /\ [Next]_vars => Inv'
<1> SUFFICES ASSUME Inv, [Next]_vars PROVE Inv'
  OBVIOUS
<1>1. CASE Tester
  BY <1>1, TesterInv
<1>2. CASE StackThread
  BY <1>2, StackThreadInv
<1>3. CASE Handler
  BY <1>3, HandlerInv
<1>4. CASE UNCHANGED vars
  <2>1. UNCHANGED <<tester, rf, contact, owed, nfaOut, Pgs_cbTempBuffer, out>>
    BY <1>4 DEF vars, fixedVars, stackVars
  <2> QED BY <2>1, Elsewhere DEF Inv, Typed
<1> QED BY <1>1, <1>2, <1>3, <1>4 DEF Next

(* Whatever testers send, in whatever fragments, and wherever contacts end *)
(* between the statements of the two threads: the data a receiving call    *)
(* gives out is of one contact.                                            *)
THEOREM DataNeverMixed == Spec => []NeverMixed
<1>1. Inv => NeverMixed
  BY DEF Inv, NeverMixed
<1> QED BY InitInv, NextInv, <1>1, PTL DEF Spec

-----------------------------------------------------------------------------
(* Type correctness: the calls of the handler and the queues.              *)

AnyType == Types \cup {"DATA", "none"}
Calls == Seq(Seq(Steps) \ {<<>>})

Shaped ==
  /\ eDeviceState \in {"IDLE", "DISCOVERY_STARTED", "POLL_ACTIVE"}
  /\ gx_status \in {"OK", "FAILED"}
  /\ mwQueue \in Seq(AnyType) /\ Len(mwQueue) <= MwQLength
  /\ dtaQueue \in Seq(Events \cup {NoEvent}) /\ Len(dtaQueue) <= DtaQLength
  /\ cb \in [ev : Events \cup {NoEvent}, todo : Seq({"mw", "dta"})]
  /\ calls \in Calls
  /\ at # "run" => Busy /\ Step \in DOMAIN Reply
  /\ at \in {"check", "copy", "length", "clear"} =>
       Step \in {"Transceive", "Receive", "T2tRead"}

LEMMA Commands ==
  /\ DOMAIN Reply = {"Transceive", "Receive", "T2tRead", "DeactivateSleep", "Deactivate",
                     "Stop", "Configure", "StartRf"}
  /\ DOMAIN Reply \subseteq Steps
  /\ {"LoopBack", "Echo", "Received", "DiscoveryStop", "Flush", "ResetLength",
      "SetStarted"} \subseteq Steps
BY DEF Reply, Steps

LEMMA IntoTyped ==
  ASSUME calls \in Calls, Busy, NEW s \in Seq(Steps)
  PROVE  Into(s) \in Calls
<1> DEFINE call == Head(calls)  rest == s \o Tail(call)
<1>1. /\ call \in Seq(Steps) /\ call # <<>>
      /\ Tail(calls) \in Calls
  BY HeadTailProperties DEF Calls, Busy
<1>2. Tail(call) \in Seq(Steps)
  BY <1>1, HeadTailProperties
<1>3. rest \in Seq(Steps)
  BY <1>2, ConcatProperties
<1> HIDE DEF rest
<1>4. CASE rest = <<>>
  BY <1>1, <1>4 DEF Into, rest
<1>5. CASE rest # <<>>
  <2>1. <<rest>> \in Calls
    BY <1>3, <1>5 DEF Calls
  <2>2. <<rest>> \o Tail(calls) \in Calls
    BY <1>1, <2>1, ConcatProperties DEF Calls
  <2> QED BY <1>5, <2>2 DEF Into, rest
<1> QED BY <1>4, <1>5

LEMMA RoundTyped ==
  ASSUME NEW e, NEW c \in Round(e)
  PROVE  c \in Calls
<1>1. StartAgain \in Calls
  <2>1. <<"Configure">> \in Seq(Steps) \ {<<>>} /\ <<"StartRf", "SetStarted">> \in Seq(Steps) \ {<<>>}
    BY Commands
  <2> QED BY <2>1 DEF StartAgain, Calls
<1>2. ASSUME NEW call \in Seq(Steps) \ {<<>>}, NEW more \in Calls
      PROVE  <<call>> \o more \in Calls
  <2>1. <<call>> \in Calls
    BY DEF Calls
  <2> QED BY <2>1, ConcatProperties DEF Calls
<1>3. StopAndStart \in Calls
  <2>1. <<"DiscoveryStop">> \in Seq(Steps) \ {<<>>}
    BY Commands
  <2> QED BY <1>1, <1>2, <2>1 DEF StopAndStart
<1>4. CASE c \in { << <<"Transceive", "LoopBack">> >> \o StopAndStart,
                   << <<"Receive", "Echo">> >> \o StopAndStart }
  <2>1. /\ <<"Transceive", "LoopBack">> \in Seq(Steps) \ {<<>>}
        /\ <<"Receive", "Echo">> \in Seq(Steps) \ {<<>>}
    BY Commands
  <2> QED BY <1>2, <1>3, <1>4, <2>1
<1>5. ASSUME NEW reads \in { <<"T2tRead">>, <<"T2tRead", "T2tRead">> },
             c = << reads, <<"DeactivateSleep">>, <<"Deactivate">> >> \o StartAgain
      PROVE  c \in Calls
  <2>1. /\ <<"T2tRead">> \in Seq(Steps) \ {<<>>} /\ <<"T2tRead", "T2tRead">> \in Seq(Steps) \ {<<>>}
        /\ <<"DeactivateSleep">> \in Seq(Steps) \ {<<>>} /\ <<"Deactivate">> \in Seq(Steps) \ {<<>>}
    BY Commands
  <2>2. << reads, <<"DeactivateSleep">>, <<"Deactivate">> >> \in Calls
    <3>1. reads \in Seq(Steps) \ {<<>>}
      BY <2>1
    <3> QED BY <2>1, <3>1 DEF Calls
  <2> QED BY <1>1, <1>5, <2>2, ConcatProperties DEF Calls
<1>6. CASE c = <<>>
  BY <1>6 DEF Calls
<1> QED BY <1>4, <1>5, <1>6 DEF Round

(* The calls left after a step of the top one, and after its return.       *)
LEMMA CallTyped ==
  ASSUME Shaped, Busy, NEW s \in Seq(Steps), Proceed(s)
  PROVE  calls' \in Calls /\ at' = "run"
BY IntoTyped DEF Shaped, Proceed

LEMMA ReturnTyped ==
  ASSUME Shaped, Busy, Return
  PROVE  calls' \in Calls /\ at' = "run"
BY HeadTailProperties DEF Shaped, Return, Busy, Calls

(* The control of the handler after a step: it is between steps, or inside *)
(* the step that it was in or has begun.                                   *)
ControlAfter ==
  \/ calls' \in Calls /\ at' = "run"
  \/ /\ UNCHANGED calls /\ Busy /\ Step \in DOMAIN Reply
     /\ at' \in {"check", "copy", "length", "clear"} =>
          Step \in {"Transceive", "Receive", "T2tRead"}
  \/ UNCHANGED <<calls, at>>

LEMMA ControlTyped ==
  ASSUME Shaped, ControlAfter
  PROVE  /\ calls' \in Calls
         /\ (at # "run" => Busy /\ Step \in DOMAIN Reply)'
         /\ (at \in {"check", "copy", "length", "clear"} =>
               Step \in {"Transceive", "Receive", "T2tRead"})'
BY DEF Shaped, ControlAfter, Busy, Step

LEMMA HandlerControl ==
  ASSUME Shaped, Handler
  PROVE  ControlAfter
<1>1. <<>> \in Seq(Steps)
  BY EmptySeq
<1>2. at # "run" => Busy /\ Step \in DOMAIN Reply
  BY DEF Shaped
<1>3. CASE HandlerPull
  BY <1>2, <1>3, RoundTyped DEF HandlerPull, ControlAfter
<1>4. CASE LoopBack
  <2>1. <<"Transceive", "LoopBack">> \in Seq(Steps) /\ <<"Deactivate">> \in Seq(Steps) \ {<<>>}
    BY Commands
  <2>2. << <<"Deactivate">> >> \in Calls
    BY <2>1 DEF Calls
  <2> QED BY <1>4, <2>1, <2>2, CallTyped DEF LoopBack, At, ControlAfter
<1>5. CASE Echo
  <2>1. <<"Transceive", "Echo">> \in Seq(Steps)
    BY Commands
  <2> QED BY <1>5, <2>1, CallTyped, ReturnTyped DEF Echo, At, ControlAfter
<1>6. CASE NotConnected
  BY <1>6, ReturnTyped DEF NotConnected, At, ControlAfter
<1>7. CASE BeginReceive
  BY <1>7, Commands DEF BeginReceive, At, Enter, ControlAfter
<1>8. CASE Issue
  BY <1>8 DEF Issue, Enter, ControlAfter
<1>9. CASE CheckSent
  BY <1>2, <1>9, ReturnTyped DEF CheckSent, Enter, ControlAfter
<1>10. CASE Wait
  <2>1. Awaited => ControlAfter
    BY <1>1, <1>2, <1>10, CallTyped DEF Wait, Awaited, Enter, ControlAfter
  <2> QED BY <1>2, <1>10, <2>1, ReturnTyped DEF Wait, threadVars, ControlAfter
<1>11. CASE Timeout
  BY <1>2, <1>11, ReturnTyped DEF Timeout, ControlAfter
<1>12. CASE CheckData
  BY <1>2, <1>12, ReturnTyped DEF CheckData, Enter, ControlAfter, Shaped
<1>13. CASE Copy \/ GiveLength
  BY <1>2, <1>13 DEF Copy, GiveLength, Enter, ControlAfter, Shaped
<1>14. CASE Clear
  <2>1. <<"Received">> \in Seq(Steps)
    BY Commands
  <2> QED BY <1>2, <1>14, <2>1, CallTyped DEF Clear, ControlAfter
<1>15. CASE Received
  BY <1>1, <1>15, CallTyped DEF Received, At, ControlAfter
<1>16. CASE DiscoveryStop
  <2>1. <<"Flush", "ResetLength">> \in Seq(Steps) /\ <<"Stop", "ResetLength">> \in Seq(Steps)
    BY Commands
  <2> QED BY <1>16, <2>1, CallTyped DEF DiscoveryStop, At, ControlAfter
<1>17. CASE Flush
  BY <1>1, <1>17, CallTyped DEF Flush, At, threadVars, ControlAfter
<1>18. CASE ResetLength
  BY <1>1, <1>18, CallTyped DEF ResetLength, At, ControlAfter
<1>19. CASE SetStarted
  BY <1>1, <1>19, CallTyped DEF SetStarted, At, ControlAfter
<1> QED BY <1>3, <1>4, <1>5, <1>6, <1>7, <1>8, <1>9, <1>10, <1>11, <1>12, <1>13,
           <1>14, <1>15, <1>16, <1>17, <1>18, <1>19 DEF Handler

LEMMA HandlerShaped ==
  ASSUME Shaped, Handler
  PROVE  Shaped'
<1>1. UNCHANGED cb
  BY DEF Handler, HandlerPull, LoopBack, Echo, NotConnected, BeginReceive, Issue, CheckSent,
         Wait, Timeout, CheckData, Copy, GiveLength, Clear, Received, DiscoveryStop, Flush,
         ResetLength, SetStarted
<1>2. /\ eDeviceState' \in {eDeviceState, "DISCOVERY_STARTED"}
      /\ gx_status' \in {gx_status, "OK", "FAILED"}
  BY DEF Handler, HandlerPull, LoopBack, Echo, NotConnected, BeginReceive, Issue, CheckSent,
         Wait, Timeout, CheckData, Copy, GiveLength, Clear, Received, DiscoveryStop, Flush,
         ResetLength, SetStarted, mwVars
<1>3. /\ mwQueue' = mwQueue \/ (mwQueue # <<>> /\ mwQueue' = Tail(mwQueue))
      /\ dtaQueue' = dtaQueue \/ (dtaQueue # <<>> /\ dtaQueue' = Tail(dtaQueue))
  BY DEF Handler, HandlerPull, LoopBack, Echo, NotConnected, BeginReceive, Issue, CheckSent,
         Wait, Timeout, CheckData, Copy, GiveLength, Clear, Received, DiscoveryStop, Flush,
         ResetLength, SetStarted
<1>4. mwQueue' \in Seq(AnyType) /\ Len(mwQueue') <= MwQLength
  <2>1. mwQueue \in Seq(AnyType) /\ Len(mwQueue) \in Nat /\ Len(mwQueue) <= MwQLength
    BY LenProperties DEF Shaped
  <2>2. CASE mwQueue # <<>> /\ mwQueue' = Tail(mwQueue)
    <3>1. mwQueue' \in Seq(AnyType) /\ Len(mwQueue') = Len(mwQueue) - 1
      BY <2>1, <2>2, HeadTailProperties
    <3> QED BY <2>1, <3>1, DataAssumption
  <2> QED BY <1>3, <2>1, <2>2
<1>5. dtaQueue' \in Seq(Events \cup {NoEvent}) /\ Len(dtaQueue') <= DtaQLength
  <2>1. /\ dtaQueue \in Seq(Events \cup {NoEvent})
        /\ Len(dtaQueue) \in Nat /\ Len(dtaQueue) <= DtaQLength
    BY LenProperties DEF Shaped
  <2>2. CASE dtaQueue # <<>> /\ dtaQueue' = Tail(dtaQueue)
    <3>1. dtaQueue' \in Seq(Events \cup {NoEvent}) /\ Len(dtaQueue') = Len(dtaQueue) - 1
      BY <2>1, <2>2, HeadTailProperties
    <3> QED BY <2>1, <3>1, DataAssumption
  <2> QED BY <1>3, <2>1, <2>2
<1>6. ControlAfter
  BY HandlerControl
<1> QED BY <1>1, <1>2, <1>4, <1>5, <1>6, ControlTyped DEF Shaped

LEMMA StackThreadShaped ==
  ASSUME Typed, Shaped, StackThread
  PROVE  Shaped'
<1>1. UNCHANGED <<calls, at>> /\ ControlAfter
  BY DEF StackThread, Callback, CallbackPush, threadVars, ControlAfter
<1>2. CASE Callback
  <2> DEFINE e == Head(nfaOut)
  <2>1. e \in Events
    BY <1>2, HeadTailProperties DEF Callback, Typed
  <2>2. PushesOf(e) \in Seq({"mw", "dta"})
    <3>1. PushesOf(e) \in { <<"dta">>, <<"mw", "dta">>, <<>>, <<"mw">> }
      BY DEF PushesOf
    <3>2. <<"mw">> \in Seq({"mw", "dta"}) /\ <<"dta">> \in Seq({"mw", "dta"})
      OBVIOUS
    <3>3. <<"mw", "dta">> \in Seq({"mw", "dta"}) /\ <<>> \in Seq({"mw", "dta"})
      OBVIOUS
    <3> QED BY <3>1, <3>2, <3>3
  <2>3. cb' \in [ev : Events \cup {NoEvent}, todo : Seq({"mw", "dta"})]
    BY <1>2, <2>1, <2>2 DEF Callback
  <2>4. gx_status' \in {"OK", "FAILED"} /\ eDeviceState' \in {eDeviceState, "IDLE", "POLL_ACTIVE"}
    BY <1>2 DEF Callback, StatusAfter, StateAfter
  <2>5. UNCHANGED <<mwQueue, dtaQueue>>
    BY <1>2 DEF Callback
  <2> QED BY <1>1, <2>3, <2>4, <2>5, ControlTyped DEF Shaped
<1>3. CASE CallbackPush
  <2>1. UNCHANGED <<eDeviceState, gx_status>>
    BY <1>3 DEF CallbackPush, mwVars
  <2>2. cb.ev \in Events \cup {NoEvent} /\ cb.ev.type \in AnyType /\ cb.todo # <<>>
    BY <1>3 DEF CallbackPush, CallbackIdle, Shaped, Events, NoEvent, Event, AnyType
  <2>3. cb' \in [ev : Events \cup {NoEvent}, todo : Seq({"mw", "dta"})]
    <3>1. Tail(cb.todo) \in Seq({"mw", "dta"}) /\ <<>> \in Seq({"mw", "dta"})
      BY <2>2, HeadTailProperties, EmptySeq DEF Shaped
    <3> QED BY <1>3, <3>1 DEF CallbackPush, Pushed, Shaped
  <2>4. mwQueue' \in Seq(AnyType) /\ Len(mwQueue') <= MwQLength
    <3>1. CASE UNCHANGED mwQueue
      BY <3>1 DEF Shaped
    <3>2. CASE mwQueue' = Append(mwQueue, cb.ev.type) /\ Len(mwQueue) < MwQLength
      BY <2>2, <3>2, AppendProperties, LenProperties, DataAssumption DEF Shaped
    <3> QED BY <1>3, <3>1, <3>2 DEF CallbackPush
  <2>5. dtaQueue' \in Seq(Events \cup {NoEvent}) /\ Len(dtaQueue') <= DtaQLength
    <3>1. CASE UNCHANGED dtaQueue
      BY <3>1 DEF Shaped
    <3>2. CASE dtaQueue' = Append(dtaQueue, cb.ev) /\ Len(dtaQueue) < DtaQLength
      BY <2>2, <3>2, AppendProperties, LenProperties, DataAssumption DEF Shaped
    <3> QED BY <1>3, <3>1, <3>2 DEF CallbackPush
  <2> QED BY <1>1, <2>1, <2>3, <2>4, <2>5, ControlTyped DEF Shaped
<1> QED BY <1>2, <1>3 DEF StackThread

LEMMA ShapedNext == Inv /\ Shaped /\ [Next]_vars => Shaped'
<1> SUFFICES ASSUME Inv, Shaped, [Next]_vars PROVE Shaped'
  OBVIOUS
<1>1. CASE Handler
  BY <1>1, HandlerShaped
<1>2. CASE StackThread
  BY <1>2, StackThreadShaped DEF Inv
<1>3. CASE Tester \/ UNCHANGED vars
  <2>1. UNCHANGED <<eDeviceState, gx_status, mwQueue, dtaQueue, cb, calls, at>>
    BY <1>3 DEF Tester, vars, mwVars, threadVars
  <2> QED BY <2>1, ControlTyped DEF Shaped, ControlAfter
<1> QED BY <1>1, <1>2, <1>3 DEF Next

LEMMA ShapedInit == Init => Shaped
BY DataAssumption, EmptySeq DEF Init, Shaped, NoEvent, Event, Calls

LEMMA ShapedTypeOK == Shaped => TypeOK
<1> SUFFICES ASSUME Shaped PROVE TypeOK
  OBVIOUS
<1>1. \A i \in 1 .. Len(calls) : calls[i] # <<>> /\ ToSet(calls[i]) \subseteq Steps
  <2> TAKE i \in 1 .. Len(calls)
  <2>1. calls[i] \in Seq(Steps) /\ calls[i] # <<>>
    BY ElementOfSeq DEF Shaped, Calls
  <2>2. \A j \in DOMAIN calls[i] : calls[i][j] \in Steps
    BY <2>1, ElementOfSeq, LenProperties
  <2> QED BY <2>1, <2>2 DEF ToSet
<1> QED BY <1>1 DEF Shaped, TypeOK

(* Queues keep to their lengths, and the handler is only where its calls   *)
(* lead: inside a step only if that is a command, copying only in a call   *)
(* that receives.                                                          *)
THEOREM TypeCorrect == Spec => []TypeOK
<1> QED BY InitInv, NextInv, ShapedInit, ShapedNext, ShapedTypeOK, PTL DEF Spec

-----------------------------------------------------------------------------
(* The end of a contact is noticed.                                        *)

(* The calls of the handler.  Data of a Type 2 tag is read in the first    *)
(* call of its round, and what comes next puts the tag to sleep.           *)
Frames == {"Transceive", "Receive", "T2tRead"}
PlainSteps == Steps \ {"T2tRead", "DeactivateSleep", "Received"}
PlainCalls == Seq(PlainSteps) \ {<<>>}
BlockCalls == { <<"T2tRead">>, <<"T2tRead", "T2tRead">>,
                <<"Received">>, <<"Received", "T2tRead">> }

Plain(cs) == cs \in Seq(PlainCalls)
Back(cs) == /\ cs # <<>> /\ Tail(cs) \in Seq(PlainCalls)
            /\ Head(cs) # <<>> /\ Head(Head(cs)) = "Received"
            /\ Tail(Head(cs)) \in Seq(PlainSteps)
Sleeping(cs) == cs # <<>> /\ Head(cs) = <<"DeactivateSleep">> /\ Tail(cs) \in Seq(PlainCalls)
Reading(cs) == cs # <<>> /\ Head(cs) \in BlockCalls /\ Sleeping(Tail(cs))

Rounds == Plain(calls) \/ Back(calls) \/ Sleeping(calls) \/ Reading(calls)

(* Where events are on their way to the waits: the queue mq, the push p of *)
(* the callback, and the line l of those reported and owed.                *)
Pending == IF cb.todo # <<>> /\ Head(cb.todo) = "mw" THEN cb.ev.type ELSE "none"
Line == nfaOut \o owed

Has(q, type) == \E i \in DOMAIN q : q[i].type = type

Coming(mq, p, l) == \/ \E i \in DOMAIN mq : mq[i] = "DEACTIVATED"
                    \/ p = "DEACTIVATED"
                    \/ Has(l, "DEACTIVATED")

(* Behind every completion of a read there is the end of its contact.      *)
Followed(mq, p, l) ==
  /\ \A i \in DOMAIN mq : mq[i] = "READ_CPLT" =>
       \/ \E j \in DOMAIN mq : i < j /\ mq[j] = "DEACTIVATED"
       \/ p = "DEACTIVATED" \/ Has(l, "DEACTIVATED")
  /\ p = "READ_CPLT" => Has(l, "DEACTIVATED")
  /\ \A i \in DOMAIN l : l[i].type = "READ_CPLT" =>
       \E j \in DOMAIN l : i < j /\ l[j].type = "DEACTIVATED"

Unread(mq, p, l) == /\ \A i \in DOMAIN mq : mq[i] # "READ_CPLT"
                    /\ p # "READ_CPLT" /\ ~Has(l, "READ_CPLT")

(* There is one completion of a read at most, and its block before it.     *)
OneRead(mq, p, l, buffer) ==
  /\ \A i, j \in DOMAIN mq : mq[i] = "READ_CPLT" /\ mq[j] = "READ_CPLT" => i = j
  /\ \A i \in DOMAIN mq : mq[i] = "READ_CPLT" =>
       buffer # <<>> /\ p # "READ_CPLT" /\ ~Has(l, "READ_CPLT")
  /\ p = "READ_CPLT" => buffer # <<>> /\ ~Has(l, "READ_CPLT")
  /\ \A i, j \in DOMAIN l : l[i].type = "READ_CPLT" /\ l[j].type = "READ_CPLT" => i = j
  /\ \A i \in DOMAIN l : l[i].type = "READ_CPLT" =>
       buffer # <<>> \/ \E j \in DOMAIN l : j < i /\ l[j].type = "DATA" /\ ~BadLength(l[j])

EndComes == Coming(mwQueue, Pending, Line)

(* A frame is under way, or what it brought is given out.                  *)
Given == at \in {"length", "clear"} \/ Success
InFrame == (at # "run" /\ Step \in Frames) \/ Success
Here(c) == rf \in InField /\ contact.id = c

Pushes == cb.todo \in { <<>>, <<"mw">>, <<"dta">>, <<"mw", "dta">> }
OwedKinds == \A i \in DOMAIN owed : owed[i].type \in {"DATA", "READ_CPLT"}
AskedHere == InFrame /\ asked # 0 => EndComes \/ Here(asked)
GivenHere == Given /\ out.data # <<>> => EndComes \/ Here(out.data[1].contact)
Lengthless == \/ at = "length" /\ Pgs_cbTempBuffer = <<>>
              \/ (at = "clear" \/ Success) /\ out.len = 0
GivenWhole == out.data # <<>> /\ Lengthless => EndComes

(* A completion of a read nothing follows is that of the tag being read.   *)
ReadsEnd == \/ Followed(mwQueue, Pending, Line)
            \/ rf = "active" /\ (Reading(calls) \/ (Sleeping(calls) /\ at = "run"))

Ready == /\ at \in {"sent", "wait"} => OneRead(mwQueue, Pending, Line, Pgs_cbTempBuffer)
         /\ at \notin {"sent", "wait"} => Unread(mwQueue, Pending, Line)
         /\ at # "check" /\ (at = "copy" => Pgs_cbTempBuffer # <<>>)
         /\ Given => out.data # <<>>
ReadsReady == Reading(calls) => EndComes \/ Ready

Noticing == /\ Rounds /\ Pushes /\ OwedKinds
            /\ AskedHere /\ GivenHere /\ GivenWhole
            /\ ReadsEnd /\ ReadsReady

-----------------------------------------------------------------------------
(* How the events on their way move.                                       *)

LEMMA Joined ==
  ASSUME NEW q \in Seq(Events), NEW s \in Seq(Events)
  PROVE  /\ q \o s \in Seq(Events)
         /\ Len(q) \in Nat /\ Len(s) \in Nat
         /\ DOMAIN q = 1 .. Len(q) /\ DOMAIN s = 1 .. Len(s)
         /\ DOMAIN (q \o s) = 1 .. Len(q) + Len(s)
         /\ \A i \in DOMAIN q : (q \o s)[i] = q[i]
         /\ \A i \in DOMAIN s : (q \o s)[Len(q) + i] = s[i]
         /\ \A i \in DOMAIN (q \o s) : \/ i \in DOMAIN q
                                       \/ i - Len(q) \in DOMAIN s /\ (q \o s)[i] = s[i - Len(q)]
BY ConcatProperties, LenProperties

(* The head of the line goes, the rest stays.                              *)
LEMMA Shifted ==
  ASSUME NEW S, NEW q \in Seq(S), q # <<>>
  PROVE  /\ Tail(q) \in Seq(S) /\ Head(q) = q[1] /\ Head(q) \in S
         /\ 1 \in DOMAIN q
         /\ \A i \in DOMAIN Tail(q) : i \in Nat \ {0} /\ i + 1 \in DOMAIN q /\ Tail(q)[i] = q[i + 1]
         /\ \A i \in DOMAIN q : i = 1 \/ (i - 1 \in DOMAIN Tail(q) /\ Tail(q)[i - 1] = q[i])
         /\ \A i \in DOMAIN q : i \in Nat
<1>1. /\ Len(q) \in Nat \ {0} /\ DOMAIN q = 1 .. Len(q)
      /\ Tail(q) \in Seq(S) /\ Len(Tail(q)) = Len(q) - 1
      /\ DOMAIN Tail(q) = 1 .. Len(q) - 1
      /\ \A i \in 1 .. Len(q) - 1 : Tail(q)[i] = q[i + 1]
  BY HeadTailProperties, LenProperties, EmptySeq
<1> QED BY <1>1, HeadTailProperties

(* What is owed is replaced by the events s: none of them completes a read. *)
LEMMA CutEnds ==
  ASSUME NEW mq, NEW p, NEW q \in Seq(Events), NEW o \in Seq(Events), NEW s \in Seq(Events),
         ~Has(o, "DEACTIVATED")
  PROVE  /\ Has(q \o o, "DEACTIVATED") => Has(q \o s, "DEACTIVATED")
         /\ Coming(mq, p, q \o o) => Coming(mq, p, q \o s)
<1>1. ASSUME Has(q \o o, "DEACTIVATED") PROVE Has(q \o s, "DEACTIVATED")
  <2>1. PICK i \in DOMAIN (q \o o) : (q \o o)[i].type = "DEACTIVATED"
    BY <1>1 DEF Has
  <2>2. i \in DOMAIN q
    BY <2>1, Joined DEF Has
  <2>3. i \in DOMAIN (q \o s) /\ (q \o s)[i] = q[i] /\ (q \o o)[i] = q[i]
    BY <2>2, Joined
  <2> QED BY <2>1, <2>3 DEF Has
<1> QED BY <1>1 DEF Coming

LEMMA CutRead ==
  ASSUME NEW q \in Seq(Events), NEW s \in Seq(Events), ~Has(s, "READ_CPLT"),
         NEW i \in DOMAIN (q \o s), (q \o s)[i].type = "READ_CPLT"
  PROVE  /\ i \in DOMAIN q /\ q[i].type = "READ_CPLT" /\ i \in Nat
         /\ \A o \in Seq(Events) : i \in DOMAIN (q \o o) /\ (q \o o)[i] = (q \o s)[i]
<1>1. i \in DOMAIN q
  BY Joined DEF Has
<1> QED BY <1>1, Joined

LEMMA CutFollowed ==
  ASSUME NEW mq, NEW p, NEW q \in Seq(Events), NEW o \in Seq(Events), NEW s \in Seq(Events),
         ~Has(o, "DEACTIVATED"), ~Has(s, "READ_CPLT"), Followed(mq, p, q \o o)
  PROVE  Followed(mq, p, q \o s)
<1>1. Has(q \o o, "DEACTIVATED") => Has(q \o s, "DEACTIVATED")
  BY CutEnds
<1>2. ASSUME NEW i \in DOMAIN (q \o s), (q \o s)[i].type = "READ_CPLT"
      PROVE  \E j \in DOMAIN (q \o s) : i < j /\ (q \o s)[j].type = "DEACTIVATED"
  <2>1. i \in DOMAIN (q \o o) /\ (q \o o)[i].type = "READ_CPLT"
    BY <1>2, CutRead
  <2>2. PICK j \in DOMAIN (q \o o) : i < j /\ (q \o o)[j].type = "DEACTIVATED"
    BY <2>1 DEF Followed
  <2>3. j \in DOMAIN q
    BY <2>2, Joined DEF Has
  <2>4. j \in DOMAIN (q \o s) /\ (q \o s)[j] = (q \o o)[j]
    BY <2>3, Joined
  <2> QED BY <2>2, <2>4
<1> QED BY <1>1, <1>2 DEF Followed

LEMMA CutUnread ==
  ASSUME NEW mq, NEW p, NEW q \in Seq(Events), NEW o \in Seq(Events), NEW s \in Seq(Events),
         ~Has(s, "READ_CPLT"), Unread(mq, p, q \o o)
  PROVE  Unread(mq, p, q \o s)
<1>1. ~Has(q \o s, "READ_CPLT")
  <2> SUFFICES ASSUME NEW i \in DOMAIN (q \o s), (q \o s)[i].type = "READ_CPLT" PROVE FALSE
    BY DEF Has
  <2>1. i \in DOMAIN (q \o o) /\ (q \o o)[i].type = "READ_CPLT"
    BY CutRead
  <2> QED BY <2>1 DEF Unread, Has
<1> QED BY <1>1 DEF Unread

LEMMA CutOneRead ==
  ASSUME NEW mq, NEW p, NEW q \in Seq(Events), NEW o \in Seq(Events), NEW s \in Seq(Events),
         NEW buffer, ~Has(s, "READ_CPLT"), OneRead(mq, p, q \o o, buffer)
  PROVE  OneRead(mq, p, q \o s, buffer)
<1> DEFINE l == q \o o  m == q \o s
<1>1. ASSUME NEW i \in DOMAIN m, m[i].type = "READ_CPLT"
      PROVE  i \in DOMAIN q /\ i \in Nat /\ i \in DOMAIN l /\ l[i] = m[i]
  BY <1>1, CutRead
<1>2. \A j \in DOMAIN q : j \in DOMAIN l /\ j \in DOMAIN m /\ l[j] = m[j]
  BY Joined
<1>3. \A i \in DOMAIN q, j \in DOMAIN l : j < i => j \in DOMAIN q
  BY Joined
<1>4. ~Has(l, "READ_CPLT") => ~Has(m, "READ_CPLT")
  BY <1>1 DEF Has
<1>5. OneRead(mq, p, l, buffer)
  OBVIOUS
<1> HIDE DEF l, m
<1>6. \A i \in DOMAIN m : m[i].type = "READ_CPLT" =>
        buffer # <<>> \/ \E j \in DOMAIN m : j < i /\ m[j].type = "DATA" /\ ~BadLength(m[j])
  <2> SUFFICES ASSUME NEW i \in DOMAIN m, m[i].type = "READ_CPLT", buffer = <<>>
               PROVE  \E j \in DOMAIN m : j < i /\ m[j].type = "DATA" /\ ~BadLength(m[j])
    OBVIOUS
  <2>1. PICK j \in DOMAIN l : j < i /\ l[j].type = "DATA" /\ ~BadLength(l[j])
    BY <1>1, <1>5 DEF OneRead
  <2>2. j \in DOMAIN m /\ l[j] = m[j]
    BY <1>1, <1>2, <1>3, <2>1
  <2> QED BY <2>1, <2>2
<1>7. \A i, j \in DOMAIN m : m[i].type = "READ_CPLT" /\ m[j].type = "READ_CPLT" => i = j
  BY <1>1, <1>5 DEF OneRead
<1>8. OneRead(mq, p, m, buffer)
  BY <1>4, <1>5, <1>6, <1>7 DEF OneRead
<1> QED BY <1>8 DEF m

(* An end behind all that was reported.                                    *)
LEMMA Closed ==
  ASSUME NEW mq, NEW p, NEW q \in Seq(Events), NEW s \in Seq(Events),
         Has(s, "DEACTIVATED"), ~Has(s, "READ_CPLT")
  PROVE  Followed(mq, p, q \o s) /\ Coming(mq, p, q \o s)
<1>1. PICK k \in DOMAIN s : s[k].type = "DEACTIVATED"
  BY DEF Has
<1>2. /\ Len(q) + k \in DOMAIN (q \o s) /\ (q \o s)[Len(q) + k].type = "DEACTIVATED"
      /\ \A i \in DOMAIN q : i < Len(q) + k
  BY <1>1, Joined
<1>3. Has(q \o s, "DEACTIVATED")
  BY <1>2 DEF Has
<1>4. \A i \in DOMAIN (q \o s) : (q \o s)[i].type = "READ_CPLT" =>
        \E j \in DOMAIN (q \o s) : i < j /\ (q \o s)[j].type = "DEACTIVATED"
  BY <1>2, CutRead
<1> QED BY <1>3, <1>4 DEF Followed, Coming

(* The callback takes the first event of the line.                         *)
Taken(e, p) == p = e.type \/ (p = "none" /\ e.type \notin {"DEACTIVATED", "READ_CPLT"})

LEMMA TakeFollowed ==
  ASSUME NEW mq, NEW l \in Seq(Events), l # <<>>, NEW p, Taken(Head(l), p),
         Followed(mq, "none", l)
  PROVE  Followed(mq, p, Tail(l))
<1> DEFINE t == Tail(l)
<1>1. /\ \A i \in DOMAIN t : i \in Nat \ {0} /\ i + 1 \in DOMAIN l /\ t[i] = l[i + 1]
      /\ \A i \in DOMAIN l : i = 1 \/ (i - 1 \in DOMAIN t /\ t[i - 1] = l[i])
      /\ \A i \in DOMAIN l : i \in Nat
      /\ Head(l) = l[1] /\ 1 \in DOMAIN l
  BY Shifted
<1> HIDE DEF t
<1>2. Has(l, "DEACTIVATED") => p = "DEACTIVATED" \/ Has(t, "DEACTIVATED")
  BY <1>1 DEF Has, Taken
<1>3. \A i \in DOMAIN l : l[i].type = "READ_CPLT" =>
        \E j \in DOMAIN t : i < j + 1 /\ t[j].type = "DEACTIVATED"
  <2> SUFFICES ASSUME NEW i \in DOMAIN l, l[i].type = "READ_CPLT"
               PROVE  \E j \in DOMAIN t : i < j + 1 /\ t[j].type = "DEACTIVATED"
    OBVIOUS
  <2>1. PICK j \in DOMAIN l : i < j /\ l[j].type = "DEACTIVATED"
    BY DEF Followed
  <2>2. i \in Nat \ {0} /\ j \in Nat /\ j # 1
    BY <1>1, <2>1
  <2>3. j - 1 \in DOMAIN t /\ t[j - 1] = l[j] /\ i < (j - 1) + 1
    BY <1>1, <2>1, <2>2
  <2> QED BY <2>1, <2>3
<1>4. p = "READ_CPLT" => Has(t, "DEACTIVATED")
  BY <1>1, <1>3 DEF Has, Taken
<1>5. \A i \in DOMAIN t : t[i].type = "READ_CPLT" =>
        \E j \in DOMAIN t : i < j /\ t[j].type = "DEACTIVATED"
  <2> SUFFICES ASSUME NEW i \in DOMAIN t, t[i].type = "READ_CPLT"
               PROVE  \E j \in DOMAIN t : i < j /\ t[j].type = "DEACTIVATED"
    OBVIOUS
  <2>1. i + 1 \in DOMAIN l /\ l[i + 1].type = "READ_CPLT"
    BY <1>1
  <2>2. PICK j \in DOMAIN t : i + 1 < j + 1 /\ t[j].type = "DEACTIVATED"
    BY <1>3, <2>1
  <2>3. i \in Nat /\ j \in Nat
    BY <1>1
  <2> QED BY <2>2, <2>3
<1>6. Followed(mq, p, t)
  <2>1. \A i \in DOMAIN mq : mq[i] = "READ_CPLT" =>
          \/ \E j \in DOMAIN mq : i < j /\ mq[j] = "DEACTIVATED"
          \/ p = "DEACTIVATED" \/ Has(t, "DEACTIVATED")
    BY <1>2 DEF Followed
  <2> QED BY <1>4, <1>5, <2>1 DEF Followed
<1> QED BY <1>6 DEF t

LEMMA TakeHas ==
  ASSUME NEW l \in Seq(Events), l # <<>>, NEW type
  PROVE  /\ Has(Tail(l), type) => Has(l, type)
         /\ Has(l, type) => Head(l).type = type \/ Has(Tail(l), type)
<1> DEFINE t == Tail(l)
<1>1. /\ \A i \in DOMAIN t : i + 1 \in DOMAIN l /\ t[i] = l[i + 1]
      /\ \A i \in DOMAIN l : i = 1 \/ (i - 1 \in DOMAIN t /\ t[i - 1] = l[i])
      /\ Head(l) = l[1]
  BY Shifted
<1> HIDE DEF t
<1>2. Has(t, type) => Has(l, type)
  BY <1>1 DEF Has
<1>3. Has(l, type) => Head(l).type = type \/ Has(t, type)
  BY <1>1 DEF Has
<1> QED BY <1>2, <1>3 DEF t

LEMMA TakeUnread ==
  ASSUME NEW mq, NEW l \in Seq(Events), l # <<>>, NEW p, Taken(Head(l), p),
         Unread(mq, "none", l)
  PROVE  Unread(mq, p, Tail(l))
<1>1. Head(l).type # "READ_CPLT"
  BY Shifted DEF Unread, Has
<1> QED BY <1>1, TakeHas DEF Unread, Taken

LEMMA TakeComing ==
  ASSUME NEW mq, NEW l \in Seq(Events), l # <<>>, NEW p, Taken(Head(l), p),
         Coming(mq, "none", l)
  PROVE  Coming(mq, p, Tail(l))
BY TakeHas DEF Coming, Taken

LEMMA TakeOneRead ==
  ASSUME NEW mq, NEW l \in Seq(Events), l # <<>>, NEW p, Taken(Head(l), p),
         NEW buffer, NEW after, buffer # <<>> => after # <<>>,
         Head(l).type = "DATA" /\ ~BadLength(Head(l)) => after # <<>>,
         OneRead(mq, "none", l, buffer)
  PROVE  OneRead(mq, p, Tail(l), after)
<1> DEFINE t == Tail(l)
<1>1. /\ \A i \in DOMAIN t : i \in Nat \ {0} /\ i + 1 \in DOMAIN l /\ t[i] = l[i + 1]
      /\ \A i \in DOMAIN l : i = 1 \/ (i - 1 \in DOMAIN t /\ t[i - 1] = l[i])
      /\ \A i \in DOMAIN l : i \in Nat
      /\ Head(l) = l[1] /\ 1 \in DOMAIN l
  BY Shifted
<1>2. Has(t, "READ_CPLT") => Has(l, "READ_CPLT")
  BY TakeHas
<1> HIDE DEF t
<1>3. p = "READ_CPLT" => l[1].type = "READ_CPLT"
  BY <1>1 DEF Taken
<1>4. \A i \in DOMAIN mq : mq[i] = "READ_CPLT" =>
        after # <<>> /\ p # "READ_CPLT" /\ ~Has(t, "READ_CPLT")
  <2> SUFFICES ASSUME NEW i \in DOMAIN mq, mq[i] = "READ_CPLT"
               PROVE  after # <<>> /\ p # "READ_CPLT" /\ ~Has(t, "READ_CPLT")
    OBVIOUS
  <2>1. buffer # <<>> /\ ~Has(l, "READ_CPLT")
    BY DEF OneRead
  <2>2. p # "READ_CPLT"
    BY <1>1, <1>3, <2>1 DEF Has
  <2> QED BY <1>2, <2>1, <2>2
<1>5. p = "READ_CPLT" => after # <<>> /\ ~Has(t, "READ_CPLT")
  <2> SUFFICES ASSUME p = "READ_CPLT" PROVE after # <<>> /\ ~Has(t, "READ_CPLT")
    OBVIOUS
  <2>1. l[1].type = "READ_CPLT" /\ 1 \in DOMAIN l
    BY <1>1, <1>3
  <2>2. buffer # <<>>
    <3>1. buffer # <<>> \/ \E j \in DOMAIN l : j < 1 /\ l[j].type = "DATA" /\ ~BadLength(l[j])
      BY <2>1 DEF OneRead
    <3>2. \A j \in DOMAIN l : ~(j < 1)
      BY <1>1
    <3> QED BY <3>1, <3>2
  <2>3. \A i \in DOMAIN t : t[i].type # "READ_CPLT"
    <3> SUFFICES ASSUME NEW i \in DOMAIN t, t[i].type = "READ_CPLT" PROVE FALSE
      OBVIOUS
    <3>1. i + 1 \in DOMAIN l /\ l[i + 1].type = "READ_CPLT"
      BY <1>1
    <3>2. i + 1 = 1
      BY <2>1, <3>1 DEF OneRead
    <3> QED BY <1>1, <3>2
  <2> QED BY <2>2, <2>3 DEF Has
<1>6. \A i, j \in DOMAIN t : t[i].type = "READ_CPLT" /\ t[j].type = "READ_CPLT" => i = j
  <2> SUFFICES ASSUME NEW i \in DOMAIN t, NEW j \in DOMAIN t,
                      t[i].type = "READ_CPLT", t[j].type = "READ_CPLT"
               PROVE  i = j
    OBVIOUS
  <2>1. i + 1 = j + 1
    BY <1>1 DEF OneRead
  <2> QED BY <1>1, <2>1
<1>7. \A i \in DOMAIN t : t[i].type = "READ_CPLT" =>
        after # <<>> \/ \E j \in DOMAIN t : j < i /\ t[j].type = "DATA" /\ ~BadLength(t[j])
  <2> SUFFICES ASSUME NEW i \in DOMAIN t, t[i].type = "READ_CPLT", after = <<>>
               PROVE  \E j \in DOMAIN t : j < i /\ t[j].type = "DATA" /\ ~BadLength(t[j])
    OBVIOUS
  <2>1. i + 1 \in DOMAIN l /\ l[i + 1].type = "READ_CPLT" /\ buffer = <<>>
    BY <1>1
  <2>2. PICK j \in DOMAIN l : j < i + 1 /\ l[j].type = "DATA" /\ ~BadLength(l[j])
    BY <2>1 DEF OneRead
  <2>3. j # 1
    BY <1>1, <2>2
  <2>4. j - 1 \in DOMAIN t /\ t[j - 1] = l[j]
    BY <1>1, <2>3
  <2>5. j - 1 < i
    BY <1>1, <2>2
  <2> QED BY <2>2, <2>4, <2>5
<1>8. OneRead(mq, p, t, after)
  BY <1>4, <1>5, <1>6, <1>7 DEF OneRead
<1> QED BY <1>8 DEF t

(* The callback's push.                                                    *)
LEMMA Queued ==
  ASSUME NEW mq \in Seq(AnyType), NEW p \in AnyType, NEW l, NEW buffer
  PROVE  /\ Followed(mq, p, l) => Followed(Append(mq, p), "none", l)
         /\ Unread(mq, p, l) => Unread(Append(mq, p), "none", l)
         /\ OneRead(mq, p, l, buffer) => OneRead(Append(mq, p), "none", l, buffer)
         /\ Coming(mq, p, l) => Coming(Append(mq, p), "none", l)
<1> DEFINE a == Append(mq, p)
<1>1. /\ Len(mq) \in Nat /\ DOMAIN mq = 1 .. Len(mq) /\ DOMAIN a = 1 .. Len(mq) + 1
      /\ \A i \in 1 .. Len(mq) : a[i] = mq[i]
      /\ a[Len(mq) + 1] = p
  BY AppendProperties, LenProperties
<1>2. /\ \A i \in DOMAIN a : i \in DOMAIN mq \/ (i = Len(mq) + 1 /\ a[i] = p)
      /\ \A i \in DOMAIN mq : i \in DOMAIN a /\ a[i] = mq[i] /\ i < Len(mq) + 1
      /\ Len(mq) + 1 \in DOMAIN a
  BY <1>1
<1> HIDE DEF a
<1>3. ASSUME Followed(mq, p, l) PROVE Followed(a, "none", l)
  BY <1>1, <1>2, <1>3 DEF Followed
<1>4. ASSUME Unread(mq, p, l) PROVE Unread(a, "none", l)
  BY <1>1, <1>2, <1>4 DEF Unread
<1>5. ASSUME OneRead(mq, p, l, buffer) PROVE OneRead(a, "none", l, buffer)
  <2>1. \A i \in DOMAIN a : a[i] = "READ_CPLT" => buffer # <<>> /\ ~Has(l, "READ_CPLT")
    BY <1>1, <1>2, <1>5 DEF OneRead
  <2>2. \A i, j \in DOMAIN a : a[i] = "READ_CPLT" /\ a[j] = "READ_CPLT" => i = j
    BY <1>1, <1>2, <1>5 DEF OneRead
  <2> QED BY <1>5, <2>1, <2>2 DEF OneRead
<1>6. ASSUME Coming(mq, p, l) PROVE Coming(a, "none", l)
  BY <1>1, <1>2, <1>6 DEF Coming
<1> QED BY <1>3, <1>4, <1>5, <1>6 DEF a

(* A wait or the flush takes the first one.                                *)
LEMMA Pulled ==
  ASSUME NEW mq \in Seq(AnyType), mq # <<>>, NEW p, NEW l, NEW buffer
  PROVE  /\ Followed(mq, p, l) => Followed(Tail(mq), p, l)
         /\ Unread(mq, p, l) => Unread(Tail(mq), p, l)
         /\ OneRead(mq, p, l, buffer) => OneRead(Tail(mq), p, l, buffer)
         /\ OneRead(mq, p, l, buffer) /\ Head(mq) = "READ_CPLT" =>
              Unread(Tail(mq), p, l) /\ buffer # <<>>
         /\ Coming(mq, p, l) /\ Head(mq) # "DEACTIVATED" => Coming(Tail(mq), p, l)
<1> DEFINE t == Tail(mq)
<1>1. /\ \A i \in DOMAIN t : i \in Nat \ {0} /\ i + 1 \in DOMAIN mq /\ t[i] = mq[i + 1]
      /\ \A i \in DOMAIN mq : i = 1 \/ (i - 1 \in DOMAIN t /\ t[i - 1] = mq[i])
      /\ \A i \in DOMAIN mq : i \in Nat
      /\ Head(mq) = mq[1] /\ 1 \in DOMAIN mq
  BY Shifted
<1> HIDE DEF t
<1>2. ASSUME Followed(mq, p, l) PROVE Followed(t, p, l)
  <2>1. ASSUME NEW i \in DOMAIN t, t[i] = "READ_CPLT"
        PROVE  \/ \E j \in DOMAIN t : i < j /\ t[j] = "DEACTIVATED"
               \/ p = "DEACTIVATED" \/ Has(l, "DEACTIVATED")
    <3>1. i + 1 \in DOMAIN mq /\ mq[i + 1] = "READ_CPLT"
      BY <1>1, <2>1
    <3>2. ASSUME NEW j \in DOMAIN mq, i + 1 < j, mq[j] = "DEACTIVATED"
          PROVE  j - 1 \in DOMAIN t /\ i < j - 1 /\ t[j - 1] = "DEACTIVATED"
      BY <1>1, <3>2
    <3> QED BY <1>2, <3>1, <3>2 DEF Followed
  <2> QED BY <1>2, <2>1 DEF Followed
<1>3. ASSUME Unread(mq, p, l) PROVE Unread(t, p, l)
  BY <1>1, <1>3 DEF Unread
<1>4. ASSUME OneRead(mq, p, l, buffer) PROVE OneRead(t, p, l, buffer)
  <2>1. \A i, j \in DOMAIN t : t[i] = "READ_CPLT" /\ t[j] = "READ_CPLT" => i = j
    <3> SUFFICES ASSUME NEW i \in DOMAIN t, NEW j \in DOMAIN t,
                        t[i] = "READ_CPLT", t[j] = "READ_CPLT"
                 PROVE  i = j
      OBVIOUS
    <3>1. i + 1 = j + 1
      BY <1>1, <1>4 DEF OneRead
    <3> QED BY <1>1, <3>1
  <2> QED BY <1>1, <1>4, <2>1 DEF OneRead
<1>5. ASSUME OneRead(mq, p, l, buffer), Head(mq) = "READ_CPLT"
      PROVE  Unread(t, p, l) /\ buffer # <<>>
  <2>1. \A i \in DOMAIN t : t[i] # "READ_CPLT"
    <3> SUFFICES ASSUME NEW i \in DOMAIN t, t[i] = "READ_CPLT" PROVE FALSE
      OBVIOUS
    <3>1. i + 1 \in DOMAIN mq /\ mq[i + 1] = "READ_CPLT" /\ mq[1] = "READ_CPLT"
      BY <1>1, <1>5
    <3>2. i + 1 = 1
      BY <1>1, <1>5, <3>1 DEF OneRead
    <3> QED BY <1>1, <3>2
  <2> QED BY <1>1, <1>5, <2>1 DEF OneRead, Unread
<1>6. ASSUME Coming(mq, p, l), Head(mq) # "DEACTIVATED" PROVE Coming(t, p, l)
  BY <1>1, <1>6 DEF Coming
<1> QED BY <1>2, <1>3, <1>4, <1>5, <1>6 DEF t

LEMMA UnreadIsFine ==
  ASSUME NEW mq, NEW p, NEW l, NEW buffer
  PROVE  /\ Unread(mq, p, l) => Followed(mq, p, l) /\ OneRead(mq, p, l, buffer)
         /\ Followed(mq, p, l) /\ ~Coming(mq, p, l) => Unread(mq, p, l)
BY DEF Unread, Followed, OneRead, Coming, Has

(* The first event reported is the first of the line.                      *)
LEMMA LineTail ==
  ASSUME NEW q \in Seq(Events), q # <<>>, NEW o \in Seq(Events)
  PROVE  /\ q \o o \in Seq(Events) /\ q \o o # <<>>
         /\ Head(q \o o) = Head(q) /\ Tail(q \o o) = Tail(q) \o o
<1> DEFINE l == q \o o  t == Tail(q)  m == t \o o
<1>1. /\ Len(q) \in Nat \ {0} /\ Len(o) \in Nat /\ DOMAIN q = 1 .. Len(q)
      /\ t \in Seq(Events) /\ Len(t) = Len(q) - 1
      /\ \A i \in 1 .. Len(t) : t[i] = q[i + 1]
      /\ Head(q) = q[1]
  BY HeadTailProperties, LenProperties, EmptySeq
<1>2. /\ l \in Seq(Events) /\ Len(l) = Len(q) + Len(o)
      /\ \A i \in 1 .. Len(q) + Len(o) : l[i] = IF i <= Len(q) THEN q[i] ELSE o[i - Len(q)]
  BY ConcatProperties
<1> HIDE DEF t
<1>3. /\ m \in Seq(Events) /\ Len(m) = Len(t) + Len(o)
      /\ \A i \in 1 .. Len(t) + Len(o) : m[i] = IF i <= Len(t) THEN t[i] ELSE o[i - Len(t)]
  BY <1>1, ConcatProperties
<1> HIDE DEF l, m
<1>4. l # <<>> /\ Head(l) = l[1] /\ l[1] = q[1]
  BY <1>1, <1>2, EmptySeq
<1>5. Tail(l) \in Seq(Events) /\ Len(Tail(l)) = Len(l) - 1
      /\ \A i \in 1 .. Len(Tail(l)) : Tail(l)[i] = l[i + 1]
  BY <1>2, <1>4, HeadTailProperties
<1>6. \A i \in 1 .. Len(m) : Tail(l)[i] = m[i]
  <2> TAKE i \in 1 .. Len(m)
  <2>1. Tail(l)[i] = l[i + 1] /\ i \in Nat
    BY <1>1, <1>2, <1>3, <1>5
  <2>2. CASE i <= Len(t)
    BY <1>1, <1>2, <1>3, <2>1, <2>2
  <2>3. CASE ~(i <= Len(t))
    BY <1>1, <1>2, <1>3, <2>1, <2>3
  <2> QED BY <2>2, <2>3
<1>7. Len(Tail(l)) = Len(m)
  BY <1>1, <1>2, <1>3, <1>5
<1>8. Tail(l) = m
  BY <1>3, <1>5, <1>6, <1>7, SeqEqual
<1> QED BY <1>1, <1>2, <1>4, <1>8 DEF l, m, t

LEMMA AnswersKinds ==
  ASSUME NEW n \in Nat, NEW a \in Answers(n)
  PROVE  \A i \in DOMAIN a : a[i].type = "DATA"
<1>1. CASE chaining
  BY <1>1 DEF Answers, Event
<1>2. CASE ~chaining
  <2>1. PICK i \in {1, TooBig} : a = <<Event("DATA", Fragment(n, i, 1))>>
    BY <1>2 DEF Answers
  <2> QED BY <2>1 DEF Event
<1> QED BY <1>1, <1>2

LEMMA BlockKinds ==
  ASSUME NEW n \in Nat
  PROVE  /\ DOMAIN Block(n) = {1, 2}
         /\ Block(n)[1].type = "DATA" /\ ~BadLength(Block(n)[1])
         /\ Block(n)[2].type = "READ_CPLT"
BY DEF Block, Event, BadLength, Fragment, TooBig

(* A step of tester or stack, which leaves the handler where it is.        *)
LEMMA NoticingKept ==
  ASSUME Noticing, UNCHANGED <<calls, at, out, asked>>, Pushes', OwedKinds',
         EndComes => EndComes',
         EndComes' \/ (rf \in InField => rf' \in InField /\ contact'.id = contact.id),
         EndComes' \/ Pgs_cbTempBuffer' # <<>> \/ Pgs_cbTempBuffer = <<>>,
         ReadsEnd',
         Reading(calls) /\ Ready => EndComes' \/ Ready'
  PROVE  Noticing'
<1>1. Rounds'
  BY DEF Noticing, Rounds
<1>2. Given' = Given /\ InFrame' = InFrame /\ Success' = Success
  BY DEF Given, InFrame, Success, At, Busy, Step
<1>3. AskedHere'
  BY <1>2 DEF Noticing, AskedHere, Here
<1>4. GivenHere'
  BY <1>2 DEF Noticing, GivenHere, Here
<1>5. GivenWhole'
  BY <1>2 DEF Noticing, GivenWhole, Lengthless
<1>6. ReadsReady'
  BY DEF Noticing, ReadsReady
<1> QED BY <1>1, <1>3, <1>4, <1>5, <1>6 DEF Noticing

LEMMA TesterNoticed ==
  ASSUME Inv, Noticing, Tester
  PROVE  Noticing'
<1>1. /\ UNCHANGED <<mwQueue, cb, calls, at, out, asked, Pgs_cbTempBuffer>>
      /\ Pending' = Pending /\ Given' = Given
      /\ nfaOut \in Seq(Events) /\ owed \in Seq(Events) /\ ~Has(owed, "DEACTIVATED")
      /\ Pushes'
  BY DEF Pushes, Tester, threadVars, Pending, Inv, Typed, Given, Success, At, Busy, Step,
         Noticing, OwedKinds, Has
<1>2. ASSUME NEW CONSTANT s \in Seq(Events), Line' = nfaOut \o s, OwedKinds',
             ~Has(s, "READ_CPLT"),
             \/ Has(s, "DEACTIVATED")
             \/ UNCHANGED rf /\ contact'.id = contact.id
             \/ rf = "discovering"
      PROVE  Noticing'
  <2> DEFINE mq == mwQueue  p == Pending  o == owed  q == nfaOut  b == Pgs_cbTempBuffer
  <2>1. /\ Coming(mq, p, q \o o) => Coming(mq, p, q \o s)
        /\ Followed(mq, p, q \o o) => Followed(mq, p, q \o s)
        /\ Unread(mq, p, q \o o) => Unread(mq, p, q \o s)
        /\ OneRead(mq, p, q \o o, b) => OneRead(mq, p, q \o s, b)
        /\ Has(s, "DEACTIVATED") => Followed(mq, p, q \o s) /\ Coming(mq, p, q \o s)
    BY <1>1, <1>2, CutEnds, CutFollowed, CutUnread, CutOneRead, Closed
  <2> HIDE DEF mq, p, o, q, b
  <2>2. /\ mwQueue' = mq /\ mwQueue = mq /\ Pending' = p /\ Pending = p
        /\ Line = q \o o /\ Line' = q \o s
        /\ Pgs_cbTempBuffer' = b /\ Pgs_cbTempBuffer = b
    BY <1>1, <1>2 DEF Line, mq, p, o, q, b
  <2>3. EndComes => EndComes'
    BY <2>1, <2>2 DEF EndComes
  <2>4. EndComes' \/ (rf \in InField => rf' \in InField /\ contact'.id = contact.id)
    BY <1>2, <2>1, <2>2 DEF EndComes, InField
  <2>5. ReadsEnd'
    BY <1>1, <1>2, <2>1, <2>2 DEF Noticing, ReadsEnd
  <2>6. Ready => Ready'
    BY <1>1, <2>1, <2>2 DEF Ready
  <2>7. Pgs_cbTempBuffer' = Pgs_cbTempBuffer
    BY <2>2
  <2> QED BY <1>1, <1>2, <2>3, <2>4, <2>5, <2>6, <2>7, NoticingKept
<1>3. ASSUME NEW k \in tester.kinds, Present(k) PROVE Noticing'
  <2> DEFINE s == <<Event("ACTIVATED", k)>>
  <2>1. k \in Details /\ "ACTIVATED" \in Types
    BY DataAssumption DEF Inv, Typed, Kinds, Details, Types
  <2>2. s \in Seq(Events) /\ ~Has(s, "READ_CPLT")
    BY <2>1, EventTyped DEF Has
  <2>3. owed' = <<>> /\ nfaOut' = nfaOut \o s /\ rf = "discovering"
    BY <1>3 DEF Present, Report
  <2> HIDE DEF s
  <2>4. Line' = nfaOut \o s
    <3>1. nfaOut \o s \in Seq(Events)
      BY <1>1, <2>2, ConcatProperties
    <3> QED BY <2>3, <3>1, ConcatEmptySeq DEF Line
  <2>5. OwedKinds'
    BY <2>3 DEF OwedKinds
  <2> QED BY <1>2, <2>2, <2>3, <2>4, <2>5
<1>4. CASE Begin
  <2>1. UNCHANGED <<rf, nfaOut>> /\ contact'.id = contact.id /\ owed' \in Answers(1) \cup {<<>>}
    BY <1>4 DEF Begin, Prepare, Inv, Typed, Contacts
  <2>2. ASSUME NEW CONSTANT s, s = owed' PROVE Noticing'
    <3>1. s \in Seq(Events)
      <4>1. CASE s \in Answers(1)
        <5>1. 1 \in Nat /\ s \in Answers(1) \cup {Block(1)} /\ Typed
          BY <4>1 DEF Inv
        <5> QED BY <5>1, AnswersTyped
      <4>2. CASE s = <<>>
        BY <4>2
      <4> QED BY <2>1, <2>2, <4>1, <4>2
    <3>2. \A i \in DOMAIN s : s[i].type = "DATA"
      BY <2>1, <2>2, AnswersKinds
    <3>3. ~Has(s, "READ_CPLT") /\ OwedKinds' /\ Line' = nfaOut \o s
      BY <2>1, <2>2, <3>2 DEF Has, OwedKinds, Line
    <3> QED BY <1>2, <2>1, <3>1, <3>3
  <2> QED BY <2>2
<1>5. CASE Answer
  <2>1. UNCHANGED <<rf, contact>> /\ owed # <<>>
    BY <1>5 DEF Answer
  <2>2. CASE Report(<<Head(owed)>>) /\ owed' = Tail(owed)
    <3>1. /\ Head(owed) \in Events /\ Tail(owed) \in Seq(Events)
          /\ <<Head(owed)>> \o Tail(owed) = owed
      <4>1. Head(owed) \in Events /\ Tail(owed) \in Seq(Events)
        BY <1>1, <2>1, HeadTailProperties
      <4>2. <<Head(owed)>> \o Tail(owed) = owed
        BY <1>1, <2>1
      <4> QED BY <4>1, <4>2
    <3>2. Line' = Line
      <4>1. <<Head(owed)>> \in Seq(Events)
        BY <3>1
      <4>2. (nfaOut \o <<Head(owed)>>) \o Tail(owed) = nfaOut \o (<<Head(owed)>> \o Tail(owed))
        BY <1>1, <3>1, <4>1, ConcatAssociative
      <4> QED BY <2>2, <3>1, <4>2 DEF Line, Report
    <3>3. OwedKinds'
      BY <1>1, <2>1, <2>2, Shifted DEF Noticing, OwedKinds
    <3>4. EndComes' = EndComes
      BY <1>1, <3>2 DEF EndComes
    <3>5. ReadsEnd'
      BY <1>1, <2>1, <3>2 DEF Noticing, ReadsEnd
    <3>6. Ready => Ready'
      BY <1>1, <3>2 DEF Ready
    <3> QED BY <1>1, <2>1, <3>3, <3>4, <3>5, <3>6, NoticingKept
  <2>3. CASE Report(<<Event("RW_INTF_ERROR", "none")>>) /\ owed' = <<>>
    <3> DEFINE s == <<Event("RW_INTF_ERROR", "none")>>
    <3>1. s \in Seq(Events) /\ ~Has(s, "READ_CPLT")
      <4>1. "RW_INTF_ERROR" \in Types /\ "none" \in Details
        BY DEF Types, Details, Kinds
      <4> QED BY <4>1, EventTyped DEF Has
    <3> HIDE DEF s
    <3>2. Line' = nfaOut \o s
      <4>1. nfaOut \o s \in Seq(Events)
        BY <1>1, <3>1, ConcatProperties
      <4> QED BY <2>3, <4>1, ConcatEmptySeq DEF Line, Report, s
    <3>3. OwedKinds'
      BY <2>3 DEF OwedKinds
    <3> QED BY <1>2, <2>1, <3>1, <3>2, <3>3
  <2> QED BY <1>5, <2>2, <2>3 DEF Answer
<1>6. CASE Leave
  <2>1. PICK type \in Details : Report(<<Event("DEACTIVATED", type)>>)
    BY <1>6 DEF Leave, Details
  <2> DEFINE s == <<Event("DEACTIVATED", type)>>
  <2>2. s \in Seq(Events) /\ ~Has(s, "READ_CPLT") /\ Has(s, "DEACTIVATED")
    BY EventTyped DEF Types, Has
  <2> HIDE DEF s
  <2>3. Line' = nfaOut \o s
    <3>1. nfaOut \o s \in Seq(Events)
      BY <1>1, <2>2, ConcatProperties
    <3> QED BY <1>6, <2>1, <3>1, ConcatEmptySeq DEF Line, Leave, Report, s
  <2>4. OwedKinds'
    BY <1>6 DEF Leave, OwedKinds
  <2> QED BY <1>2, <2>2, <2>3, <2>4
<1> QED BY <1>3, <1>4, <1>5, <1>6 DEF Tester

LEMMA StackThreadNoticed ==
  ASSUME Inv, Shaped, Noticing, StackThread
  PROVE  Noticing'
<1>1. /\ UNCHANGED <<rf, contact, owed, calls, at, out, asked>>
      /\ nfaOut \in Seq(Events) /\ owed \in Seq(Events) /\ mwQueue \in Seq(AnyType)
      /\ cb.todo \in { <<>>, <<"mw">>, <<"dta">>, <<"mw", "dta">> }
      /\ Given' = Given /\ OwedKinds'
  BY DEF StackThread, Callback, CallbackPush, stackVars, threadVars, Inv, Typed, Shaped,
         Noticing, Pushes, OwedKinds, Given, Success, At, Busy, Step
<1> DEFINE mq == mwQueue  p == Pending  l == Line  b == Pgs_cbTempBuffer
           mq2 == mwQueue'  p2 == Pending'  l2 == Line'  b2 == Pgs_cbTempBuffer'
<1>2. SUFFICES /\ Pushes'
               /\ Coming(mq, p, l) => Coming(mq2, p2, l2)
               /\ Followed(mq, p, l) => Followed(mq2, p2, l2)
               /\ Unread(mq, p, l) => Unread(mq2, p2, l2)
               /\ Coming(mq2, p2, l2) \/ (OneRead(mq, p, l, b) => OneRead(mq2, p2, l2, b2))
               /\ Coming(mq2, p2, l2) \/ b2 # <<>> \/ b = <<>>
  <2>1. EndComes' = Coming(mq2, p2, l2) /\ EndComes = Coming(mq, p, l)
    BY DEF EndComes
  <2>2. ReadsEnd'
    BY <1>1, <1>2 DEF Noticing, ReadsEnd
  <2>3. Ready => EndComes' \/ Ready'
    BY <1>1, <1>2, <2>1 DEF Ready
  <2> HIDE DEF mq, p, l, b, mq2, p2, l2
  <2> QED BY <1>1, <1>2, <2>1, <2>2, <2>3, NoticingKept DEF b, b2
<1>3. CASE Callback
  <2> DEFINE e == Head(nfaOut)
  <2>1. /\ nfaOut # <<>> /\ nfaOut' = Tail(nfaOut) /\ mwQueue' = mwQueue
        /\ cb' = [ev |-> e, todo |-> PushesOf(e)] /\ Pgs_cbTempBuffer' = BufferAfter(e)
        /\ cb.todo = <<>>
    BY <1>3 DEF Callback, CallbackIdle
  <2>2. l \in Seq(Events) /\ l # <<>> /\ Head(l) = e /\ l2 = Tail(l)
    BY <1>1, <2>1, LineTail DEF Line
  <2>3. p = "none" /\ mq2 = mq
    BY <2>1 DEF Pending
  <2>4. /\ PushesOf(e) \in { <<>>, <<"mw">>, <<"dta">>, <<"mw", "dta">> }
        /\ e.type = "DEACTIVATED" => PushesOf(e) = <<"mw", "dta">>
        /\ e.type = "READ_CPLT" => PushesOf(e) = <<"mw">>
    BY DEF PushesOf, Silent, BadLength
  <2>5. Pushes' /\ Taken(e, p2) /\ (e.type = "DEACTIVATED" => p2 = "DEACTIVATED")
    <3>1. cb'.ev = e /\ cb'.todo = PushesOf(e) /\ Pushes'
      BY <2>1, <2>4 DEF Pushes
    <3>2. CASE PushesOf(e) \in { <<"mw">>, <<"mw", "dta">> }
      <4>1. p2 = e.type
        BY <3>1, <3>2 DEF Pending
      <4> QED BY <3>1, <4>1 DEF Taken
    <3>3. CASE PushesOf(e) \in { <<>>, <<"dta">> }
      <4>1. p2 = "none" /\ e.type \notin {"DEACTIVATED", "READ_CPLT"}
        BY <2>4, <3>1, <3>3 DEF Pending
      <4> QED BY <3>1, <4>1 DEF Taken
    <3> QED BY <2>4, <3>2, <3>3
  <2>6. /\ e.type = "DATA" /\ ~BadLength(e) => b2 # <<>>
        /\ e.type # "DEACTIVATED" /\ b # <<>> => b2 # <<>>
    <3>1. /\ e.type = "DATA" /\ ~BadLength(e) => b2 = Append(b, e.detail)
          /\ e.type # "DEACTIVATED" => b2 \in {b, Append(b, e.detail)}
      BY <2>1 DEF BufferAfter
    <3>2. e.type = "DATA" => Append(b, e.detail) # <<>>
      <4>1. e.type = "DATA" => e.detail \in Fragments
        <5>1. e \in Events
          BY <1>1, <2>1, HeadTailProperties
        <5> HIDE DEF e
        <5> QED BY <5>1 DEF Events, Types
      <4> QED BY <4>1, AppendProperties, LenProperties, EmptySeq DEF Inv, Typed
    <3>3. e.type # "DEACTIVATED" => b2 = b \/ (e.type = "DATA" /\ b2 = Append(b, e.detail))
      BY <2>1 DEF BufferAfter
    <3> QED BY <3>1, <3>2, <3>3
  <2> HIDE DEF mq, p, l, b, mq2, p2, l2, b2, e
  <2>7. CASE e.type = "DEACTIVATED"
    <3>1. Coming(mq2, p2, l2)
      BY <2>5, <2>7 DEF Coming
    <3> QED BY <2>2, <2>3, <2>5, <3>1, TakeFollowed, TakeUnread
  <2>8. CASE e.type # "DEACTIVATED"
    BY <2>2, <2>3, <2>5, <2>6, <2>8, TakeFollowed, TakeUnread, TakeComing, TakeOneRead
  <2> QED BY <2>7, <2>8
<1>4. CASE CallbackPush
  <2>1. UNCHANGED <<nfaOut, Pgs_cbTempBuffer>> /\ cb.todo # <<>>
    BY <1>4 DEF CallbackPush, CallbackIdle, stackVars
  <2>2. l2 = l /\ b2 = b
    BY <1>1, <2>1 DEF Line
  <2>3. cb.ev.type \in AnyType
    BY DEF Shaped, Events, NoEvent, Event, AnyType
  <2>4. Pushes' /\ p2 = "none"
    <3>1. CASE Len(cb.todo) = 1
      <4>1. cb'.todo = <<>>
        BY <1>4, <3>1 DEF CallbackPush, Pushed
      <4> QED BY <4>1 DEF Pushes, Pending
    <3>2. CASE Len(cb.todo) # 1
      <4>1. cb.todo = <<"mw", "dta">>
        BY <1>1, <2>1, <3>2
      <4>2. cb'.todo = <<"dta">>
        BY <1>4, <3>2, <4>1 DEF CallbackPush, Pushed, Shaped
      <4> QED BY <4>2 DEF Pushes, Pending
    <3> QED BY <3>1, <3>2
  <2>5. CASE Head(cb.todo) = "mw" /\ mwQueue' = Append(mwQueue, cb.ev.type)
    <3>1. p \in AnyType /\ mq \in Seq(AnyType) /\ mq2 = Append(mq, p)
      BY <1>1, <2>1, <2>3, <2>5 DEF Pending
    <3> HIDE DEF mq, p, l, b, mq2, p2, l2, b2
    <3> QED BY <2>2, <2>4, <3>1, Queued
  <2>6. CASE Head(cb.todo) = "dta" /\ UNCHANGED mwQueue
    <3>1. p = "none" /\ mq2 = mq
      BY <2>6 DEF Pending
    <3> HIDE DEF mq, p, l, b, mq2, p2, l2, b2
    <3> QED BY <2>2, <2>4, <3>1
  <2> QED BY <1>4, <2>5, <2>6 DEF CallbackPush
<1> QED BY <1>3, <1>4 DEF StackThread

-----------------------------------------------------------------------------
(* The calls of the handler.                                               *)

LEMMA ConsSplits ==
  ASSUME NEW S, NEW x \in S, NEW t \in Seq(S)
  PROVE  /\ Cons(x, t) \in Seq(S) /\ Cons(x, t) # <<>>
         /\ Head(Cons(x, t)) = x /\ Tail(Cons(x, t)) = t
<1> DEFINE c == <<x>> \o t
<1>1. /\ <<x>> \in Seq(S) /\ Len(<<x>>) = 1 /\ <<x>>[1] = x
  OBVIOUS
<1>2. /\ Len(t) \in Nat /\ c \in Seq(S) /\ Len(c) = 1 + Len(t)
      /\ \A i \in 1 .. 1 + Len(t) : c[i] = IF i <= 1 THEN x ELSE t[i - 1]
  BY <1>1, ConcatProperties, LenProperties
<1> HIDE DEF c
<1>3. c # <<>> /\ Head(c) = c[1] /\ c[1] = x
  BY <1>2, EmptySeq
<1>4. Tail(c) \in Seq(S) /\ Len(Tail(c)) = Len(c) - 1
      /\ \A i \in 1 .. Len(Tail(c)) : Tail(c)[i] = c[i + 1]
  BY <1>2, <1>3, HeadTailProperties
<1>5. \A i \in 1 .. Len(Tail(c)) : Tail(c)[i] = t[i]
  BY <1>2, <1>4
<1>6. Tail(c) = t
  BY <1>2, <1>4, <1>5, SeqEqual
<1> QED BY <1>2, <1>3, <1>6 DEF c, Cons

LEMMA Paired ==
  ASSUME NEW S, NEW x \in S, NEW y \in S
  PROVE  Cons(x, <<y>>) = <<x, y>>
<1> DEFINE a == <<x, y>>  f == <<x>>  g == <<y>>
<1>1. /\ f \in Seq(S) /\ g \in Seq(S) /\ a \in Seq(S)
      /\ Len(f) = 1 /\ Len(g) = 1 /\ Len(a) = 2
      /\ a[1] = f[1] /\ a[2] = g[1]
  OBVIOUS
<1>2. Cons(x, g) = f \o g
  BY DEF Cons
<1> HIDE DEF a, f, g
<1>3. /\ f \o g \in Seq(S) /\ Len(f \o g) = 2
      /\ (f \o g)[1] = a[1] /\ (f \o g)[2] = a[2]
  BY <1>1, ConcatProperties
<1>4. \A i \in 1 .. 2 : (f \o g)[i] = a[i]
  BY <1>3
<1>5. f \o g = a
  BY <1>1, <1>3, <1>4, SeqEqual
<1> QED BY <1>2, <1>5 DEF a, g

LEMMA PlainTyped ==
  /\ PlainSteps = {"Transceive", "Receive", "Deactivate", "Stop", "Configure", "StartRf",
                   "LoopBack", "Echo", "DiscoveryStop", "Flush", "ResetLength", "SetStarted"}
  /\ PlainSteps \subseteq Steps /\ PlainCalls \subseteq Seq(Steps) \ {<<>>}
BY Commands DEF PlainSteps, PlainCalls, Steps

(* Where the handler is, by what it is at.                                 *)
LEMMA RoundSteps ==
  /\ Plain(calls) /\ Busy => /\ Step \in PlainSteps /\ Plain(Tail(calls))
                             /\ Tail(Head(calls)) \in Seq(PlainSteps)
  /\ Back(calls) => Busy /\ Step = "Received"
  /\ Sleeping(calls) => Busy /\ Step = "DeactivateSleep" /\ Tail(Head(calls)) = <<>>
  /\ Reading(calls) => /\ Busy /\ Step \in {"T2tRead", "Received"}
                       /\ Tail(Head(calls)) \in {<<>>, <<"T2tRead">>}
<1>1. ASSUME Plain(calls), Busy
      PROVE  Step \in PlainSteps /\ Plain(Tail(calls)) /\ Tail(Head(calls)) \in Seq(PlainSteps)
  <2>1. Head(calls) \in PlainCalls /\ Tail(calls) \in Seq(PlainCalls)
    BY <1>1, HeadTailProperties DEF Plain, Busy
  <2>2. Head(calls) \in Seq(PlainSteps) /\ Head(calls) # <<>>
    BY <2>1 DEF PlainCalls
  <2>3. Head(Head(calls)) \in PlainSteps /\ Tail(Head(calls)) \in Seq(PlainSteps)
    BY <2>2, HeadTailProperties
  <2> QED BY <2>1, <2>3 DEF Step, Plain
<1>2. ASSUME Back(calls) PROVE Busy /\ Step = "Received"
  BY <1>2 DEF Back, Busy, Step
<1>3. ASSUME Sleeping(calls) PROVE Busy /\ Step = "DeactivateSleep" /\ Tail(Head(calls)) = <<>>
  <2> DEFINE c == Head(calls)
  <2>1. Busy /\ c = <<"DeactivateSleep">>
    BY <1>3 DEF Sleeping, Busy
  <2> HIDE DEF c
  <2>2. Head(c) = "DeactivateSleep" /\ Tail(c) = <<>>
    BY <2>1
  <2> QED BY <2>1, <2>2 DEF Step, c
<1>4. ASSUME Reading(calls)
      PROVE  Busy /\ Step \in {"T2tRead", "Received"} /\ Tail(Head(calls)) \in {<<>>, <<"T2tRead">>}
  <2>1. Busy /\ Head(calls) \in BlockCalls
    BY <1>4 DEF Reading, Busy
  <2>2. \A c \in BlockCalls : /\ Head(c) \in {"T2tRead", "Received"}
                             /\ Tail(c) \in {<<>>, <<"T2tRead">>}
    <3>1. Head(<<"T2tRead">>) = "T2tRead" /\ Tail(<<"T2tRead">>) = <<>>
      OBVIOUS
    <3>2. Head(<<"Received">>) = "Received" /\ Tail(<<"Received">>) = <<>>
      OBVIOUS
    <3>3. Head(<<"T2tRead", "T2tRead">>) = "T2tRead" /\ Tail(<<"T2tRead", "T2tRead">>) = <<"T2tRead">>
      OBVIOUS
    <3>4. Head(<<"Received", "T2tRead">>) = "Received" /\ Tail(<<"Received", "T2tRead">>) = <<"T2tRead">>
      OBVIOUS
    <3> QED BY <3>1, <3>2, <3>3, <3>4 DEF BlockCalls
  <2> QED BY <2>1, <2>2 DEF Step
<1> QED BY <1>1, <1>2, <1>3, <1>4

LEMMA OnlyReading ==
  ASSUME NEW cs, Reading(cs)
  PROVE  ~Plain(cs) /\ ~Back(cs) /\ ~Sleeping(cs)
<1>1. <<"DeactivateSleep">> \notin PlainCalls
  <2> SUFFICES ASSUME <<"DeactivateSleep">> \in Seq(PlainSteps) PROVE FALSE
    BY DEF PlainCalls
  <2>1. "DeactivateSleep" \in PlainSteps
    <3>1. <<"DeactivateSleep">> # <<>> /\ Head(<<"DeactivateSleep">>) = "DeactivateSleep"
      OBVIOUS
    <3> QED BY <3>1, HeadTailProperties
  <2> QED BY <2>1, PlainTyped
<1>2. Head(Tail(cs)) = <<"DeactivateSleep">> /\ Tail(cs) # <<>> /\ cs # <<>>
  BY DEF Reading, Sleeping
<1>3. Tail(cs) \notin Seq(PlainCalls)
  BY <1>1, <1>2, HeadTailProperties
<1>4. cs \notin Seq(PlainCalls)
  BY <1>2, <1>3, HeadTailProperties
<1> QED BY <1>3, <1>4 DEF Plain, Back, Sleeping

LEMMA PlainInto ==
  ASSUME Plain(calls), Busy, NEW s \in Seq(PlainSteps)
  PROVE  Plain(Into(s))
<1> DEFINE rest == s \o Tail(Head(calls))
<1>1. Tail(calls) \in Seq(PlainCalls) /\ rest \in Seq(PlainSteps)
  BY RoundSteps, ConcatProperties DEF Plain
<1> HIDE DEF rest
<1>2. CASE rest = <<>>
  BY <1>1, <1>2 DEF Into, Plain, rest
<1>3. CASE rest # <<>>
  <2>1. Cons(rest, Tail(calls)) \in Seq(PlainCalls)
    <3>1. rest \in PlainCalls
      BY <1>1, <1>3 DEF PlainCalls
    <3> QED BY <1>1, <3>1, ConsSplits
  <2>2. Into(s) = Cons(rest, Tail(calls))
    BY <1>3 DEF Into, rest, Cons
  <2> QED BY <2>1, <2>2 DEF Plain
<1> QED BY <1>2, <1>3

(* A call that received gives out what it has, then goes on.               *)
LEMMA ReceivedInto ==
  ASSUME calls \in Calls, Busy
  PROVE  /\ Head(Into(<<"Received">>)) = Cons("Received", Tail(Head(calls)))
         /\ Tail(Into(<<"Received">>)) = Tail(calls)
         /\ Into(<<"Received">>) # <<>>
         /\ Head(Head(Into(<<"Received">>))) = "Received"
         /\ Tail(Head(Into(<<"Received">>))) = Tail(Head(calls))
<1> DEFINE rest == Cons("Received", Tail(Head(calls)))
<1>1. Tail(calls) \in Calls /\ Tail(Head(calls)) \in Seq(Steps) /\ "Received" \in Steps
  <2>1. Head(calls) \in Seq(Steps) \ {<<>>} /\ Tail(calls) \in Calls
    BY HeadTailProperties DEF Calls, Busy
  <2> QED BY <2>1, HeadTailProperties, Commands
<1>2. /\ rest \in Seq(Steps) /\ rest # <<>>
      /\ Head(rest) = "Received" /\ Tail(rest) = Tail(Head(calls))
  BY <1>1, ConsSplits
<1> HIDE DEF rest
<1>3. Into(<<"Received">>) = Cons(rest, Tail(calls))
  <2>1. rest = <<"Received">> \o Tail(Head(calls))
    BY DEF rest, Cons
  <2> QED BY <1>2, <2>1 DEF Into, Cons
<1>4. rest \in Seq(Steps) \ {<<>>}
  BY <1>2
<1>5. /\ Cons(rest, Tail(calls)) # <<>> /\ Head(Cons(rest, Tail(calls))) = rest
      /\ Tail(Cons(rest, Tail(calls))) = Tail(calls)
  BY <1>1, <1>4, ConsSplits DEF Calls
<1> QED BY <1>2, <1>3, <1>5 DEF rest

LEMMA NothingInto ==
  ASSUME calls \in Calls, Busy
  PROVE  /\ Tail(Head(calls)) = <<>> => Into(<<>>) = Tail(calls)
         /\ Tail(Head(calls)) # <<>> => /\ Into(<<>>) # <<>>
                                        /\ Head(Into(<<>>)) = Tail(Head(calls))
                                        /\ Tail(Into(<<>>)) = Tail(calls)
<1> DEFINE rest == Tail(Head(calls))
<1>1. Tail(calls) \in Calls /\ rest \in Seq(Steps)
  <2>1. Head(calls) \in Seq(Steps) \ {<<>>} /\ Tail(calls) \in Calls
    BY HeadTailProperties DEF Calls, Busy
  <2> QED BY <2>1, HeadTailProperties
<1>2. <<>> \o rest = rest
  BY <1>1, ConcatEmptySeq
<1>3. Into(<<>>) = IF rest = <<>> THEN Tail(calls) ELSE Cons(rest, Tail(calls))
  BY <1>2 DEF Into, Cons
<1> HIDE DEF rest
<1>4. ASSUME rest # <<>>
      PROVE  /\ Cons(rest, Tail(calls)) # <<>> /\ Head(Cons(rest, Tail(calls))) = rest
             /\ Tail(Cons(rest, Tail(calls))) = Tail(calls)
  <2>1. rest \in Seq(Steps) \ {<<>>}
    BY <1>1, <1>4
  <2> QED BY <1>1, <2>1, ConsSplits DEF Calls
<1> QED BY <1>3, <1>4 DEF rest

LEMMA BackInto ==
  ASSUME calls \in Calls, Back(calls)
  PROVE  Plain(Into(<<>>))
<1>1. Busy /\ Tail(calls) \in Seq(PlainCalls) /\ Tail(Head(calls)) \in Seq(PlainSteps)
  BY DEF Back, Busy
<1>2. CASE Tail(Head(calls)) = <<>>
  BY <1>1, <1>2, NothingInto DEF Plain
<1>3. CASE Tail(Head(calls)) # <<>>
  <2> DEFINE rest == Tail(Head(calls))
  <2>1. Into(<<>>) = Cons(rest, Tail(calls))
    <3>1. <<>> \o rest = rest
      BY <1>1, ConcatEmptySeq
    <3> QED BY <1>3, <3>1 DEF Into, Cons
  <2>2. rest \in PlainCalls
    BY <1>1, <1>3 DEF PlainCalls
  <2> HIDE DEF rest
  <2>3. Cons(rest, Tail(calls)) \in Seq(PlainCalls)
    BY <1>1, <2>2, ConsSplits
  <2> QED BY <2>1, <2>3 DEF Plain
<1> QED BY <1>2, <1>3

(* The call a round begins with reads blocks, or no call of it does.       *)
LEMMA RoundBegins ==
  ASSUME NEW e, NEW c \in Round(e)
  PROVE  Plain(c) \/ (Reading(c) /\ Head(Head(c)) = "T2tRead")
<1>1. ASSUME NEW x \in PlainSteps PROVE <<x>> \in PlainCalls
  BY <1>1 DEF PlainCalls
<1>2. ASSUME NEW x \in PlainSteps, NEW y \in PlainSteps PROVE <<x, y>> \in PlainCalls
  BY <1>2 DEF PlainCalls
<1>3. StartAgain \in Seq(PlainCalls)
  <2>1. <<"Configure">> \in PlainCalls /\ <<"StartRf", "SetStarted">> \in PlainCalls
    BY <1>1, <1>2, PlainTyped
  <2> QED BY <2>1 DEF StartAgain
<1>4. StopAndStart \in Seq(PlainCalls)
  <2>1. <<"DiscoveryStop">> \in PlainCalls
    BY <1>1, PlainTyped
  <2>2. StopAndStart = Cons(<<"DiscoveryStop">>, StartAgain)
    BY DEF StopAndStart, Cons
  <2> DEFINE d == <<"DiscoveryStop">>
  <2>3. d \in PlainCalls /\ StopAndStart = Cons(d, StartAgain)
    BY <2>1, <2>2
  <2> HIDE DEF d
  <2> QED BY <1>3, <2>3, ConsSplits
<1>5. CASE c \in { << <<"Transceive", "LoopBack">> >> \o StopAndStart,
                   << <<"Receive", "Echo">> >> \o StopAndStart }
  <2>1. PICK f \in PlainCalls : c = Cons(f, StopAndStart)
    <3>1. <<"Transceive", "LoopBack">> \in PlainCalls /\ <<"Receive", "Echo">> \in PlainCalls
      BY <1>2, PlainTyped
    <3> QED BY <1>5, <3>1 DEF Cons
  <2> QED BY <1>4, <2>1, ConsSplits DEF Plain
<1>6. ASSUME NEW reads \in { <<"T2tRead">>, <<"T2tRead", "T2tRead">> },
             c = << reads, <<"DeactivateSleep">>, <<"Deactivate">> >> \o StartAgain
      PROVE  Reading(c) /\ Head(Head(c)) = "T2tRead"
  <2> DEFINE sleep == <<"DeactivateSleep">>  off == <<"Deactivate">>  S == Seq(Steps)
             d == Cons(off, StartAgain)  k == Cons(sleep, d)
  <2>1. sleep \in S /\ off \in S /\ off \in PlainCalls
    <3>1. {"DeactivateSleep", "Deactivate"} \subseteq Steps /\ "Deactivate" \in PlainSteps
      BY PlainTyped, Commands
    <3> QED BY <1>1, <3>1
  <2>2. reads \in S
    <3>1. "T2tRead" \in Steps
      BY Commands
    <3>2. <<"T2tRead">> \in Seq(Steps) /\ <<"T2tRead", "T2tRead">> \in Seq(Steps)
      BY <3>1
    <3> QED BY <3>2
  <2>3. StartAgain \in Seq(S)
    <3>1. PlainCalls \subseteq S
      BY PlainTyped
    <3> HIDE DEF S
    <3>2. Seq(PlainCalls) \subseteq Seq(S)
      BY <3>1
    <3> QED BY <1>3, <3>2
  <2>4. c = <<reads, sleep, off>> \o StartAgain
    BY <1>6
  <2> HIDE DEF sleep, off, S
  <2>5. d \in Seq(PlainCalls) /\ d \in Seq(S)
    BY <1>3, <2>1, <2>3, ConsSplits
  <2> HIDE DEF d
  <2>6. k \in Seq(S) /\ k # <<>> /\ Head(k) = sleep /\ Tail(k) = d
    BY <2>1, <2>5, ConsSplits
  <2>7. c = Cons(reads, k)
    <3>1. /\ <<reads, sleep, off>> = <<reads>> \o <<sleep, off>>
          /\ <<sleep, off>> = <<sleep>> \o <<off>>
      <4>1. <<sleep, off>> = <<sleep>> \o <<off>>
        BY <2>1, Paired DEF Cons
      <4>2. <<reads, sleep, off>> = <<reads>> \o <<sleep, off>>
        OBVIOUS
      <4> QED BY <4>1, <4>2
    <3>2. /\ <<reads>> \in Seq(S) /\ <<sleep>> \in Seq(S) /\ <<off>> \in Seq(S)
          /\ <<sleep, off>> \in Seq(S)
      BY <2>1, <2>2
    <3>3. (<<reads>> \o <<sleep, off>>) \o StartAgain = <<reads>> \o (<<sleep, off>> \o StartAgain)
      BY <2>3, <3>2, ConcatAssociative
    <3>4. (<<sleep>> \o <<off>>) \o StartAgain = <<sleep>> \o (<<off>> \o StartAgain)
      BY <2>3, <3>2, ConcatAssociative
    <3> QED BY <2>4, <3>1, <3>3, <3>4 DEF d, k, Cons
  <2> HIDE DEF k
  <2>8. c # <<>> /\ Head(c) = reads /\ Tail(c) = k
    <3>1. /\ Cons(reads, k) # <<>> /\ Head(Cons(reads, k)) = reads
          /\ Tail(Cons(reads, k)) = k
      BY <2>2, <2>6, ConsSplits
    <3> QED BY <2>7, <3>1
  <2>9. Sleeping(k)
    BY <2>5, <2>6 DEF Sleeping, sleep
  <2>10. Head(reads) = "T2tRead"
    OBVIOUS
  <2> QED BY <2>8, <2>9, <2>10 DEF Reading, BlockCalls
<1>7. CASE c = <<>>
  BY <1>7 DEF Plain
<1> QED BY <1>5, <1>6, <1>7 DEF Round

-----------------------------------------------------------------------------
(* The steps of the handler.                                               *)

LEMMA Headings ==
  ASSUME NEW cs
  PROVE  /\ Plain(cs) => ~Sleeping(cs) /\ ~Back(cs) /\ ~Reading(cs)
         /\ Plain(cs) /\ cs # <<>> => Head(Head(cs)) \in PlainSteps
         /\ Sleeping(cs) => ~Back(cs) /\ ~Reading(cs) /\ Head(Head(cs)) = "DeactivateSleep"
         /\ Back(cs) => ~Reading(cs)
<1>1. ASSUME Plain(cs), cs # <<>> PROVE Head(Head(cs)) \in PlainSteps
  <2>1. Head(cs) \in PlainCalls
    BY <1>1, HeadTailProperties DEF Plain
  <2>2. Head(cs) \in Seq(PlainSteps) /\ Head(cs) # <<>>
    BY <2>1 DEF PlainCalls
  <2> QED BY <2>2, HeadTailProperties
<1>2. ASSUME Sleeping(cs) PROVE cs # <<>> /\ Head(Head(cs)) = "DeactivateSleep"
  <2> DEFINE c == Head(cs)
  <2>1. cs # <<>> /\ c = <<"DeactivateSleep">>
    BY <1>2 DEF Sleeping
  <2> HIDE DEF c
  <2>2. Head(c) = "DeactivateSleep"
    BY <2>1
  <2> QED BY <2>1, <2>2 DEF c
<1>3. Back(cs) => cs # <<>> /\ Head(Head(cs)) = "Received"
  BY DEF Back
<1>4. "DeactivateSleep" \notin PlainSteps /\ "Received" \notin PlainSteps
  BY DEF PlainSteps
<1> QED BY <1>1, <1>2, <1>3, <1>4, OnlyReading

LEMMA HandlerStill ==
  ASSUME Handler
  PROVE  /\ UNCHANGED cb /\ Pending' = Pending /\ (Pushes => Pushes')
         /\ UNCHANGED stackVars \/ Issue
         /\ UNCHANGED mwQueue \/ Wait \/ Flush
<1>1. /\ UNCHANGED cb
      /\ UNCHANGED stackVars \/ Issue
      /\ UNCHANGED mwQueue \/ Wait \/ Flush
  BY DEF Handler, HandlerPull, LoopBack, Echo, NotConnected, BeginReceive, Issue, CheckSent,
         Wait, Timeout, CheckData, Copy, GiveLength, Clear, Received, DiscoveryStop, Flush,
         ResetLength, SetStarted
<1> QED BY <1>1 DEF Pending, Pushes

(* The call returned, or goes on with its next step.                       *)
LEMMA PlainAfter ==
  ASSUME Pushes', OwedKinds', Followed(mwQueue', Pending', Line'), Plain(calls'), at' = "run"
  PROVE  Noticing'
<1>1. ~Success'
  <2>1. Plain(calls') /\ calls' # <<>> => Head(Head(calls')) \in PlainSteps
    BY Headings
  <2>2. "Received" \notin PlainSteps
    BY DEF PlainSteps
  <2> QED BY <2>1, <2>2 DEF Success, At, Busy, Step
<1>2. ~Given' /\ ~InFrame' /\ ~Lengthless'
  BY <1>1 DEF Given, InFrame, Lengthless
<1>3. ~Reading(calls')
  BY Headings
<1>4. AskedHere' /\ GivenHere' /\ GivenWhole'
  BY <1>2 DEF AskedHere, GivenHere, GivenWhole
<1>5. ReadsEnd' /\ ReadsReady' /\ Rounds'
  BY <1>3 DEF ReadsEnd, ReadsReady, Rounds
<1> QED BY <1>4, <1>5 DEF Noticing

(* The call goes on inside its step, and has given out nothing.            *)
LEMMA WithinAfter ==
  ASSUME Pushes', OwedKinds', Followed(mwQueue', Pending', Line'),
         Plain(calls') \/ Sleeping(calls'), at' \in {"sent", "wait", "check", "copy"}, AskedHere'
  PROVE  Noticing'
<1>1. ~Given' /\ ~Lengthless'
  BY DEF Given, Lengthless, Success, At
<1>2. ~Reading(calls')
  BY Headings
<1>3. GivenHere' /\ GivenWhole'
  BY <1>1 DEF GivenHere, GivenWhole
<1>4. ReadsEnd' /\ ReadsReady' /\ Rounds'
  BY <1>2 DEF ReadsEnd, ReadsReady, Rounds
<1> QED BY <1>3, <1>4 DEF Noticing

(* The radio and the queues are left alone.                                *)
LEMMA Still ==
  ASSUME Noticing, Handler, UNCHANGED stackVars, UNCHANGED mwQueue
  PROVE  /\ Pushes' /\ OwedKinds' /\ Line' = Line /\ EndComes' = EndComes
         /\ Followed(mwQueue', Pending', Line') = Followed(mwQueue, Pending, Line)
         /\ rf' = rf /\ contact' = contact
<1>1. /\ Pending' = Pending /\ Pushes'
      /\ rf' = rf /\ contact' = contact /\ owed' = owed /\ nfaOut' = nfaOut
  BY HandlerStill DEF Noticing, stackVars
<1> QED BY <1>1 DEF Noticing, Line, EndComes, OwedKinds

(* The news of an end are among the events reported.                       *)
LEMMA EndReported ==
  ASSUME Inv, NEW i, NEW j, EndBetween(nfaOut, i, j)
  PROVE  EndComes
<1>1. nfaOut \in Seq(Events) /\ owed \in Seq(Events)
  BY DEF Inv, Typed
<1>2. PICK k \in DOMAIN nfaOut : nfaOut[k].type = "DEACTIVATED"
  BY DEF EndBetween
<1>3. k \in DOMAIN Line /\ Line[k].type = "DEACTIVATED"
  BY <1>1, <1>2, Joined DEF Line
<1> QED BY <1>3 DEF EndComes, Coming, Has

(* Copying out, giving the length and clearing, in whatever call.          *)
LEMMA GivenOut ==
  ASSUME Inv, Shaped, Noticing, Handler, Copy \/ GiveLength \/ Clear
  PROVE  AskedHere' /\ GivenHere' /\ GivenWhole'
<1>1. /\ UNCHANGED stackVars /\ UNCHANGED mwQueue /\ UNCHANGED asked
      /\ at # "run" /\ Busy /\ Step \in Frames
  BY DEF Copy, GiveLength, Clear, Shaped, Frames
<1>2. EndComes' = EndComes /\ rf' = rf /\ contact' = contact
  BY <1>1, Still
<1>3. InFrame
  BY <1>1 DEF InFrame
<1>4. AskedHere'
  BY <1>1, <1>2, <1>3 DEF Noticing, AskedHere, Here
<1>5. CASE Copy
  <2>1. at' = "length" /\ out'.data = Pgs_cbTempBuffer /\ Pgs_cbTempBuffer' = Pgs_cbTempBuffer
    BY <1>5 DEF Copy, Enter, Inv, Typed
  <2>2. Pgs_cbTempBuffer # <<>> => EndComes \/ Here(Pgs_cbTempBuffer[1].contact)
    BY EndReported DEF Inv, InOrder, Here
  <2>3. GivenHere'
    BY <1>2, <2>1, <2>2 DEF GivenHere, Here
  <2>4. GivenWhole'
    BY <2>1 DEF GivenWhole, Lengthless, Success, At
  <2> QED BY <1>4, <2>3, <2>4
<1>6. CASE GiveLength
  <2>1. /\ at = "length" /\ at' = "clear" /\ out'.data = out.data
        /\ out'.len = Len(Pgs_cbTempBuffer)
    BY <1>6 DEF GiveLength, Enter, Inv, Typed
  <2>2. Len(Pgs_cbTempBuffer) = 0 => Pgs_cbTempBuffer = <<>>
    BY EmptySeq DEF Inv, Typed
  <2>3. GivenHere'
    BY <1>2, <2>1 DEF Noticing, GivenHere, Given, Here
  <2>4. GivenWhole'
    BY <1>2, <2>1, <2>2 DEF Noticing, GivenWhole, Lengthless
  <2> QED BY <1>4, <2>3, <2>4
<1>7. CASE Clear
  <2>1. at = "clear" /\ at' = "run" /\ out' = out
    BY <1>7 DEF Clear, Proceed
  <2>2. GivenHere'
    BY <1>2, <2>1 DEF Noticing, GivenHere, Given, Here
  <2>3. GivenWhole'
    BY <1>2, <2>1 DEF Noticing, GivenWhole, Lengthless
  <2> QED BY <1>4, <2>2, <2>3
<1> QED BY <1>5, <1>6, <1>7

LEMMA BlockAwaited ==
  ASSUME NEW mq, NEW p, NEW q \in Seq(Events), NEW o \in Seq(Events), NEW b \in Seq(Events),
         NEW buffer, Unread(mq, p, q \o o),
         DOMAIN b = {1, 2}, b[1].type = "DATA", ~BadLength(b[1])
  PROVE  OneRead(mq, p, q \o b, buffer)
<1> DEFINE l == q \o b
<1>1. /\ Len(q) \in Nat /\ DOMAIN q = 1 .. Len(q) /\ Len(b) \in Nat /\ DOMAIN b = 1 .. Len(b)
      /\ DOMAIN l = 1 .. Len(q) + Len(b)
      /\ \A i \in DOMAIN q : l[i] = q[i] /\ i \in DOMAIN (q \o o) /\ (q \o o)[i] = q[i]
      /\ \A i \in DOMAIN b : l[Len(q) + i] = b[i]
      /\ \A i \in DOMAIN l : i \in DOMAIN q \/ i - Len(q) \in DOMAIN b
  <2>1. /\ Len(q) \in Nat /\ DOMAIN q = 1 .. Len(q) /\ Len(b) \in Nat /\ DOMAIN b = 1 .. Len(b)
        /\ DOMAIN l = 1 .. Len(q) + Len(b)
    BY Joined
  <2>2. \A i \in DOMAIN q : l[i] = q[i]
    BY Joined
  <2>3. \A i \in DOMAIN b : l[Len(q) + i] = b[i]
    BY Joined
  <2>4. \A i \in DOMAIN l : i \in DOMAIN q \/ i - Len(q) \in DOMAIN b
    BY Joined
  <2>5. \A i \in DOMAIN q : i \in DOMAIN (q \o o) /\ (q \o o)[i] = q[i]
    BY Joined
  <2> QED BY <2>1, <2>2, <2>3, <2>4, <2>5
<1> HIDE DEF l
<1>2. Len(b) = 2
  BY <1>1
<1>3. /\ Len(q) + 1 \in DOMAIN l /\ l[Len(q) + 1] = b[1]
      /\ DOMAIN l = 1 .. Len(q) + 2
  BY <1>1, <1>2
<1>4. \A i \in DOMAIN q : l[i].type # "READ_CPLT"
  BY <1>1 DEF Unread, Has
<1>5. \A i \in DOMAIN l : l[i].type = "READ_CPLT" => i = Len(q) + 2
  BY <1>1, <1>3, <1>4
<1>6. \A i \in DOMAIN l : l[i].type = "READ_CPLT" =>
        \E j \in DOMAIN l : j < i /\ l[j].type = "DATA" /\ ~BadLength(l[j])
  <2> SUFFICES ASSUME NEW i \in DOMAIN l, l[i].type = "READ_CPLT"
               PROVE  Len(q) + 1 < i
    BY <1>3
  <2> QED BY <1>1, <1>5
<1>7. OneRead(mq, p, l, buffer)
  BY <1>5, <1>6 DEF OneRead, Unread
<1> QED BY <1>7 DEF l

(* What is owed without an end has no completion of a read that is followed. *)
LEMMA OwedClean ==
  ASSUME NEW mq, NEW p, NEW q \in Seq(Events), NEW o \in Seq(Events),
         ~Has(o, "DEACTIVATED"), Followed(mq, p, q \o o)
  PROVE  ~Has(o, "READ_CPLT")
<1> SUFFICES ASSUME NEW i \in DOMAIN o, o[i].type = "READ_CPLT" PROVE FALSE
  BY DEF Has
<1>1. Len(q) + i \in DOMAIN (q \o o) /\ (q \o o)[Len(q) + i] = o[i]
  <2>1. /\ Len(q) \in Nat /\ Len(o) \in Nat /\ i \in 1 .. Len(o)
        /\ DOMAIN (q \o o) = 1 .. Len(q) + Len(o)
        /\ (q \o o)[Len(q) + i] = o[i]
    BY Joined
  <2>2. Len(q) + i \in 1 .. Len(q) + Len(o)
    BY <2>1
  <2> QED BY <2>1, <2>2
<1>2. PICK j \in DOMAIN (q \o o) : Len(q) + i < j /\ (q \o o)[j].type = "DEACTIVATED"
  BY <1>1 DEF Followed
<1>3. j \notin DOMAIN q
  BY <1>2, Joined
<1>4. j - Len(q) \in DOMAIN o /\ (q \o o)[j] = o[j - Len(q)]
  BY <1>3, Joined
<1> QED BY <1>2, <1>4 DEF Has

(* A frame: what is owed after it.                                         *)
LEMMA FrameLine ==
  ASSUME Inv, Noticing, NEW c, ToContact(c), UNCHANGED Pgs_cbTempBuffer
  PROVE  /\ Line' = nfaOut \o owed' /\ owed' \in Seq(Events)
         /\ UNCHANGED rf /\ contact'.id = contact.id /\ asked' = contact.id
         /\ OwedKinds'
         /\ c # "T2tRead" => ~Has(owed', "READ_CPLT")
         /\ c = "T2tRead" => \/ owed' = Block(contact.sent + 1)
                             \/ owed' = <<>> \/ owed' = owed
<1>1. UNCHANGED <<rf, nfaOut>> /\ asked' = contact.id
  BY DEF ToContact
<1>2. owed' \in Seq(Events)
  BY SentToContact
<1>3. contact.sent + 1 \in Nat /\ contact \in Contacts
  BY DEF Inv, Typed, Contacts
<1>4. CASE Prepare(Answers(contact.sent + 1)) /\ c # "T2tRead"
  <2>1. owed' = <<>> \/ owed' \in Answers(contact.sent + 1)
    BY <1>4 DEF Prepare
  <2>2. contact'.id = contact.id
    BY <1>3, <1>4 DEF Prepare, Contacts
  <2>3. \A i \in DOMAIN owed' : owed'[i].type = "DATA"
    BY <1>3, <2>1, AnswersKinds
  <2> QED BY <1>1, <1>2, <1>4, <2>2, <2>3 DEF Line, OwedKinds, Has
<1>5. CASE Prepare({Block(contact.sent + 1)}) /\ c = "T2tRead"
  <2>1. owed' = <<>> \/ owed' = Block(contact.sent + 1)
    BY <1>5 DEF Prepare
  <2>2. contact'.id = contact.id
    BY <1>3, <1>5 DEF Prepare, Contacts
  <2>3. \A i \in DOMAIN owed' : owed'[i].type \in {"DATA", "READ_CPLT"}
    BY <1>3, <2>1, BlockKinds
  <2> QED BY <1>1, <1>2, <1>5, <2>1, <2>2, <2>3 DEF Line, OwedKinds
<1>6. CASE UNCHANGED <<contact, owed>> /\ c = "T2tRead"
  BY <1>1, <1>2, <1>6 DEF Line, Noticing, OwedKinds
<1> QED BY <1>4, <1>5, <1>6 DEF ToContact

(* Another command: what is reported, and what is still owed.              *)
LEMMA ControlLine ==
  ASSUME Inv, Noticing, NEW c, Controls(c),
         Followed(mwQueue, Pending, Line) \/ (c = "DeactivateSleep" /\ rf = "active")
  PROVE  Followed(mwQueue, Pending, Line') /\ OwedKinds' /\ asked' = 0
<1> DEFINE mq == mwQueue  p == Pending  q == nfaOut  o == owed
<1>1. /\ q \in Seq(Events) /\ o \in Seq(Events) /\ ~Has(o, "DEACTIVATED")
      /\ owed' \in {<<>>, o} /\ OwedKinds' /\ asked' = 0
  BY DEF Inv, Typed, Noticing, OwedKinds, Has, Controls
<1>2. {"IDLE", "DISCOVERY", "SLEEP"} \subseteq Details
  BY DEF Details
<1>3. ASSUME NEW d \in Details
      PROVE  /\ Deactivation(d) \in Seq(Events) /\ ~Has(Deactivation(d), "READ_CPLT")
             /\ rf = "active" => Has(Deactivation(d), "DEACTIVATED")
  <2>1. CASE rf \in InField
    <3>1. <<Event("DEACTIVATED", d)>> \in Seq(Events)
      BY EventTyped DEF Types
    <3> QED BY <2>1, <3>1 DEF Deactivation, Has, InField, Event
  <2>2. CASE rf \notin InField
    BY <2>2 DEF Deactivation, Has, InField
  <2> QED BY <2>1, <2>2
<1>4. ASSUME NEW e \in {"Stop", "Configure", "StartRf"}
      PROVE  Done(e) \in Seq(Events) /\ ~Has(Done(e), "READ_CPLT")
  BY DoneTyped DEF Done, Event, Has, Reply
<1>5. ASSUME NEW CONSTANT s \in Seq(Events), Line' = q \o s, ~Has(s, "READ_CPLT"),
             Followed(mq, p, q \o o) \/ Has(s, "DEACTIVATED")
      PROVE  Followed(mq, p, Line')
  BY <1>1, <1>5, CutFollowed, Closed
<1>6. Line = q \o o
  BY DEF Line
<1>7. ASSUME NEW CONSTANT s \in Seq(Events), nfaOut' = q \o s, owed' = <<>>, ~Has(s, "READ_CPLT"),
             Followed(mq, p, q \o o) \/ Has(s, "DEACTIVATED")
      PROVE  Followed(mq, p, Line')
  <2>1. q \o s \in Seq(Events)
    BY <1>1, ConcatProperties
  <2>2. Line' = q \o s
    BY <1>7, <2>1, ConcatEmptySeq DEF Line
  <2> QED BY <1>5, <1>7, <2>2
<1>8. CASE c \in {"DeactivateSleep", "Deactivate"}
  <2>1. PICK d \in Details : Report(Deactivation(d))
    BY <1>2, <1>8 DEF Controls
  <2>2. owed' = <<>>
    BY <1>8 DEF Controls
  <2> DEFINE s == Deactivation(d)
  <2>3. s \in Seq(Events) /\ ~Has(s, "READ_CPLT") /\ (rf = "active" => Has(s, "DEACTIVATED"))
    BY <1>3
  <2>4. nfaOut' = q \o s
    BY <2>1 DEF Report
  <2> HIDE DEF s, mq, p, q, o
  <2>5. ASSUME NEW CONSTANT t, t = s PROVE Followed(mq, p, Line')
    BY <1>6, <1>7, <2>2, <2>3, <2>4, <2>5 DEF mq, p
  <2> QED BY <1>1, <2>5 DEF mq, p
<1>9. CASE c = "Stop"
  <2> DEFINE s == Deactivation("IDLE") \o Done(c)
  <2>1. s \in Seq(Events) /\ ~Has(s, "READ_CPLT")
    <3>1. /\ Deactivation("IDLE") \in Seq(Events) /\ ~Has(Deactivation("IDLE"), "READ_CPLT")
          /\ Done(c) \in Seq(Events) /\ ~Has(Done(c), "READ_CPLT")
      BY <1>2, <1>3, <1>4, <1>9
    <3> QED BY <3>1, Joined DEF Has
  <2>2. nfaOut' = q \o s /\ owed' = <<>>
    BY <1>9 DEF Controls, Report
  <2> HIDE DEF s, mq, p, q, o
  <2>5. ASSUME NEW CONSTANT t, t = s PROVE Followed(mq, p, Line')
    BY <1>6, <1>7, <1>9, <2>1, <2>2, <2>5 DEF mq, p
  <2> QED BY <1>1, <2>5 DEF mq, p
<1>10. CASE c \in {"Configure", "StartRf"}
  <2> DEFINE d == Done(c)  s == d \o o
  <2>1. d \in Seq(Events) /\ ~Has(d, "READ_CPLT")
    BY <1>4, <1>10
  <2>2. nfaOut' = q \o d /\ owed' = o
    BY <1>10 DEF Controls, Report
  <2> HIDE DEF d, mq, p, q, o
  <2>3. Followed(mq, p, q \o o)
    BY <1>6, <1>10 DEF mq, p
  <2>4. ~Has(o, "READ_CPLT")
    BY <1>1, <2>3, OwedClean
  <2>5. s \in Seq(Events) /\ ~Has(s, "READ_CPLT")
    BY <1>1, <2>1, <2>4, Joined DEF Has
  <2>6. Line' = q \o s
    <3>1. (q \o d) \o o = q \o (d \o o)
      BY <1>1, <2>1, ConcatAssociative
    <3> QED BY <2>2, <3>1 DEF Line
  <2> HIDE DEF s
  <2>7. ASSUME NEW CONSTANT t, t = s PROVE Followed(mq, p, Line')
    BY <1>5, <2>3, <2>5, <2>6, <2>7
  <2> QED BY <1>1, <2>7 DEF mq, p
<1> QED BY <1>8, <1>9, <1>10 DEF Controls

LEMMA MostlyFollowed ==
  ASSUME Noticing
  PROVE  /\ Plain(calls) \/ Back(calls) => Followed(mwQueue, Pending, Line)
         /\ Sleeping(calls) /\ (at # "run" \/ rf # "active") => Followed(mwQueue, Pending, Line)
         /\ Reading(calls) /\ rf # "active" => Followed(mwQueue, Pending, Line)
BY Headings DEF Noticing, ReadsEnd

(* A command is issued, other than the read of a block.                    *)
LEMMA IssueNoticed ==
  ASSUME Inv, Noticing, Handler, Issue, Plain(calls) \/ Sleeping(calls)
  PROVE  Noticing'
<1>1. /\ at = "run" /\ at' = "sent" /\ calls' = calls /\ mwQueue' = mwQueue
      /\ UNCHANGED Pgs_cbTempBuffer /\ calls # <<>> /\ Step' = Step
  BY DEF Issue, Enter, Busy, Step
<1>2. Pending' = Pending /\ Pushes'
  BY HandlerStill DEF Noticing
<1>3. /\ Plain(calls) => Step \in PlainSteps
      /\ Sleeping(calls) => Step = "DeactivateSleep"
      /\ Step # "T2tRead"
  BY <1>1, Headings DEF Step, PlainSteps
<1>4. SUFFICES OwedKinds' /\ Followed(mwQueue, Pending, Line') /\ AskedHere'
  BY <1>1, <1>2, <1>4, WithinAfter
<1>5. CASE Refused(Step)
  <2>1. asked' = 0 /\ UNCHANGED stackVars
    BY <1>5 DEF Issue
  <2>2. Followed(mwQueue, Pending, Line)
    BY <1>3, <1>5, MostlyFollowed DEF Refused
  <2>3. OwedKinds' /\ Line' = Line
    BY <1>1, <2>1, Still
  <2> QED BY <2>1, <2>2, <2>3 DEF AskedHere
<1>6. CASE ~Refused(Step) /\ ToContact(Step)
  <2>1. Step = "Transceive" /\ rf = "active"
    BY <1>3, <1>6 DEF ToContact, Refused
  <2>2. /\ Line' = nfaOut \o owed' /\ owed' \in Seq(Events)
        /\ rf' = rf /\ contact'.id = contact.id /\ asked' = contact.id
        /\ OwedKinds' /\ ~Has(owed', "READ_CPLT")
    BY <1>1, <1>3, <1>6, FrameLine
  <2>3. Followed(mwQueue, Pending, Line)
    BY <1>3, <2>1, MostlyFollowed
  <2>4. nfaOut \in Seq(Events) /\ owed \in Seq(Events) /\ ~Has(owed, "DEACTIVATED")
    BY DEF Inv, Typed, Noticing, OwedKinds, Has
  <2>5. ASSUME NEW CONSTANT s, s = owed' PROVE Followed(mwQueue, Pending, Line')
    BY <2>2, <2>3, <2>4, <2>5, CutFollowed DEF Line
  <2>6. AskedHere'
    BY <2>1, <2>2 DEF AskedHere, Here, InField
  <2> QED BY <2>2, <2>5, <2>6
<1>7. CASE ~Refused(Step) /\ Controls(Step)
  <2>1. Followed(mwQueue, Pending, Line) \/ (Step = "DeactivateSleep" /\ rf = "active")
    BY <1>3, MostlyFollowed
  <2>2. Followed(mwQueue, Pending, Line') /\ OwedKinds' /\ asked' = 0
    BY <1>7, <2>1, ControlLine
  <2> QED BY <2>2 DEF AskedHere
<1> QED BY <1>5, <1>6, <1>7 DEF Issue

(* A wait takes an event.                                                  *)
LEMMA WaitTakes ==
  ASSUME Inv, Shaped, Noticing, Handler, Wait \/ (Flush /\ mwQueue # <<>>)
  PROVE  /\ Pushes' /\ OwedKinds' /\ Line' = Line /\ Pending' = Pending
         /\ rf' = rf /\ contact' = contact /\ Pgs_cbTempBuffer' = Pgs_cbTempBuffer
         /\ out' = out /\ asked' = asked
         /\ Followed(mwQueue, Pending, Line) => Followed(mwQueue', Pending', Line')
         /\ EndComes /\ Head(mwQueue) # "DEACTIVATED" => EndComes'
         /\ Unread(mwQueue, Pending, Line) => Unread(mwQueue', Pending', Line')
         /\ OneRead(mwQueue, Pending, Line, Pgs_cbTempBuffer) =>
              OneRead(mwQueue', Pending', Line', Pgs_cbTempBuffer')
         /\ OneRead(mwQueue, Pending, Line, Pgs_cbTempBuffer) /\ Head(mwQueue) = "READ_CPLT" =>
              Unread(mwQueue', Pending', Line') /\ Pgs_cbTempBuffer # <<>>
<1>1. /\ mwQueue # <<>> /\ mwQueue' = Tail(mwQueue) /\ mwQueue \in Seq(AnyType)
      /\ UNCHANGED <<stackVars, cb, Pgs_cbTempBuffer, out, asked>>
  BY DEF Wait, Flush, Shaped
<1>2. /\ Pending' = Pending /\ Pushes' /\ rf' = rf /\ contact' = contact
      /\ nfaOut' = nfaOut /\ owed' = owed
      /\ Pgs_cbTempBuffer' = Pgs_cbTempBuffer /\ out' = out /\ asked' = asked
  BY <1>1, HandlerStill DEF Noticing, stackVars
<1>3. Line' = Line /\ OwedKinds'
  BY <1>2 DEF Line, OwedKinds, Noticing
<1> DEFINE mq == mwQueue  p == Pending  l == Line  b == Pgs_cbTempBuffer
<1>4. /\ Followed(mq, p, l) => Followed(Tail(mq), p, l)
      /\ Unread(mq, p, l) => Unread(Tail(mq), p, l)
      /\ OneRead(mq, p, l, b) => OneRead(Tail(mq), p, l, b)
      /\ OneRead(mq, p, l, b) /\ Head(mq) = "READ_CPLT" => Unread(Tail(mq), p, l) /\ b # <<>>
      /\ Coming(mq, p, l) /\ Head(mq) # "DEACTIVATED" => Coming(Tail(mq), p, l)
  BY <1>1, Pulled
<1>5. EndComes /\ Head(mwQueue) # "DEACTIVATED" => EndComes'
  BY <1>1, <1>2, <1>3, <1>4 DEF EndComes
<1> QED BY <1>1, <1>2, <1>3, <1>4, <1>5

(* A call of the loop back, of the restart, or between rounds.             *)
LEMMA PlainReturns ==
  ASSUME Plain(calls), Busy, Return
  PROVE  Plain(calls') /\ at' = "run"
BY RoundSteps DEF Return

LEMMA PlainProceeds ==
  ASSUME Plain(calls), Busy, NEW s \in Seq(PlainSteps), Proceed(s)
  PROVE  Plain(calls') /\ at' = "run"
BY PlainInto DEF Proceed

(* The data is given out.                                                  *)
LEMMA CopyNoticed ==
  ASSUME Inv, Shaped, Noticing, Handler, Copy \/ GiveLength \/ Clear, Plain(calls) \/ Reading(calls)
  PROVE  Noticing'
<1>1. /\ UNCHANGED stackVars /\ UNCHANGED mwQueue /\ at \in {"copy", "length", "clear"}
      /\ calls \in Calls /\ Busy
  BY DEF Copy, GiveLength, Clear, Shaped
<1>2. /\ Pushes' /\ OwedKinds' /\ Line' = Line /\ EndComes' = EndComes
      /\ Followed(mwQueue', Pending', Line') = Followed(mwQueue, Pending, Line)
      /\ rf' = rf
  BY <1>1, Still
<1>3. AskedHere' /\ GivenHere' /\ GivenWhole'
  BY GivenOut
<1>4. /\ Plain(calls) => Plain(calls') \/ Back(calls')
      /\ Reading(calls) => Reading(calls')
  <2>1. CASE Copy \/ GiveLength
    BY <2>1 DEF Copy, GiveLength, Enter
  <2>2. CASE Clear
    <3> DEFINE c == calls'
    <3>1. calls' = Into(<<"Received">>)
      BY <2>2 DEF Clear, Proceed
    <3>2. /\ Head(c) = Cons("Received", Tail(Head(calls)))
          /\ Tail(c) = Tail(calls) /\ c # <<>>
          /\ Head(Head(c)) = "Received" /\ Tail(Head(c)) = Tail(Head(calls))
      BY <1>1, <3>1, ReceivedInto
    <3>3. Tail(Head(calls)) \in Seq(Steps)
      BY <1>1, HeadTailProperties DEF Calls, Busy
    <3> HIDE DEF c
    <3>4. Head(c) # <<>>
      <4> DEFINE t == Tail(Head(calls))
      <4>1. t \in Seq(Steps) /\ "Received" \in Steps /\ Head(c) = Cons("Received", t)
        BY <3>2, <3>3, Commands
      <4> HIDE DEF t
      <4>2. Cons("Received", t) # <<>>
        BY <4>1, ConsSplits
      <4> QED BY <4>1, <4>2
    <3>5. ASSUME Plain(calls) PROVE Back(c)
      <4>1. Tail(calls) \in Seq(PlainCalls) /\ Tail(Head(calls)) \in Seq(PlainSteps)
        BY <1>1, <3>5, RoundSteps DEF Plain
      <4> QED BY <3>2, <3>4, <4>1 DEF Back
    <3>6. ASSUME Reading(calls) PROVE Reading(c)
      <4>1. Tail(Head(calls)) \in {<<>>, <<"T2tRead">>}
        BY <3>6, RoundSteps
      <4>2. /\ Cons("Received", <<>>) = <<"Received">>
            /\ Cons("Received", <<"T2tRead">>) = <<"Received", "T2tRead">>
        <5>1. Cons("Received", <<>>) = <<"Received">>
          BY DEF Cons
        <5>2. Cons("Received", <<"T2tRead">>) = <<"Received", "T2tRead">>
          BY Commands, Paired
        <5> QED BY <5>1, <5>2
      <4>3. Head(c) \in BlockCalls
        BY <3>2, <4>1, <4>2 DEF BlockCalls
      <4> QED BY <3>2, <3>6, <4>3 DEF Reading
    <3> QED BY <3>5, <3>6 DEF c
  <2> QED BY <2>1, <2>2
<1>5. Rounds' /\ ReadsEnd'
  BY <1>2, <1>4, Headings DEF Rounds, Noticing, ReadsEnd
<1>6. ASSUME Reading(calls) PROVE EndComes' \/ Ready'
  <2>1. SUFFICES ASSUME Ready PROVE Ready'
    BY <1>2, <1>6, <2>1 DEF Noticing, ReadsReady
  <2>2. Unread(mwQueue', Pending', Line')
    <3>1. Unread(mwQueue, Pending, Line)
      BY <1>1, <2>1 DEF Ready
    <3>2. mwQueue' = mwQueue /\ Pending' = Pending /\ Line' = Line
      BY <1>1, <1>2, HandlerStill
    <3> QED BY <3>1, <3>2
  <2>3. CASE Copy
    <3>1. at' = "length" /\ out'.data # <<>>
      BY <2>1, <2>3 DEF Copy, Enter, Ready, Inv, Typed
    <3> QED BY <2>2, <3>1 DEF Ready
  <2>4. CASE GiveLength
    <3>1. at = "length" /\ at' = "clear" /\ out'.data = out.data
      BY <2>4 DEF GiveLength, Enter, Inv, Typed
    <3>2. out.data # <<>>
      BY <2>1, <3>1 DEF Ready, Given
    <3> QED BY <2>2, <3>1, <3>2 DEF Ready
  <2>5. CASE Clear
    <3>1. at = "clear" /\ at' = "run" /\ out' = out
      BY <2>5 DEF Clear, Proceed
    <3>2. out.data # <<>>
      BY <2>1, <3>1 DEF Ready, Given
    <3> QED BY <2>2, <3>1, <3>2 DEF Ready
  <2> QED BY <2>3, <2>4, <2>5
<1>7. ReadsReady'
  BY <1>4, <1>6, Headings DEF ReadsReady
<1> QED BY <1>2, <1>3, <1>5, <1>7 DEF Noticing

(* A wait or a check in a call that reads no block.                        *)
LEMMA WithinNoticed ==
  ASSUME Inv, Shaped, Noticing, Handler, Plain(calls) \/ Sleeping(calls),
         CheckSent \/ Wait \/ Timeout \/ CheckData
  PROVE  Noticing'
<1>1. /\ at \in {"sent", "wait", "check"} /\ Busy /\ Step \in DOMAIN Reply
      /\ calls \in Calls /\ asked' = asked
  BY DEF CheckSent, Wait, Timeout, CheckData, Shaped
<1>2. Followed(mwQueue, Pending, Line)
  BY <1>1, MostlyFollowed
<1>3. /\ Pushes' /\ OwedKinds' /\ Followed(mwQueue', Pending', Line')
      /\ rf' = rf /\ contact' = contact
      /\ EndComes /\ (Wait => Head(mwQueue) # "DEACTIVATED") => EndComes'
  <2>1. CASE Wait
    BY <1>2, <2>1, WaitTakes
  <2>2. CASE ~Wait
    <3>1. UNCHANGED stackVars /\ UNCHANGED mwQueue
      BY <2>2 DEF CheckSent, Timeout, CheckData
    <3> QED BY <1>2, <2>2, <3>1, Still
  <2> QED BY <2>1, <2>2
<1>4. ASSUME Return PROVE Noticing'
  <2>1. Plain(calls') /\ at' = "run"
    <3>1. CASE Plain(calls)
      BY <1>1, <1>4, <3>1, PlainReturns
    <3>2. CASE Sleeping(calls)
      BY <1>4, <3>2 DEF Return, Sleeping, Plain
    <3> QED BY <3>1, <3>2
  <2> QED BY <1>3, <2>1, PlainAfter
<1>5. ASSUME calls' = calls, at' \in {"wait", "check", "copy"},
             Wait /\ Head(mwQueue) = "DEACTIVATED" => Step \notin Frames
      PROVE  Noticing'
  <2>1. AskedHere'
    <3>1. SUFFICES ASSUME InFrame', asked' # 0
                   PROVE  EndComes' \/ (rf' \in InField /\ contact'.id = asked')
      BY DEF AskedHere, Here
    <3>2. at' # "run" /\ Step' = Step
      BY <1>5 DEF Step
    <3>3. Step \in Frames
      BY <3>1, <3>2 DEF InFrame, Success, At
    <3>4. InFrame
      BY <1>1, <3>3 DEF InFrame
    <3>5. EndComes \/ Here(asked)
      BY <1>1, <3>1, <3>4 DEF Noticing, AskedHere
    <3>6. CASE EndComes
      BY <1>3, <1>5, <3>3, <3>6
    <3>7. CASE Here(asked)
      BY <1>1, <1>3, <3>7 DEF Here
    <3> QED BY <3>5, <3>6, <3>7
  <2> QED BY <1>3, <1>5, <2>1, WithinAfter
<1>6. CASE CheckSent
  BY <1>4, <1>5, <1>6 DEF CheckSent, Enter, Wait
<1>7. CASE Timeout
  BY <1>4, <1>7 DEF Timeout
<1>8. CASE CheckData
  BY <1>4, <1>5, <1>8 DEF CheckData, Enter, Wait
<1>9. CASE Wait
  <2>1. at = "wait"
    BY <1>9 DEF Wait
  <2>2. Step \in Frames => Step # "Stop" /\ Reply[Step] # "DEACTIVATED"
    BY DEF Frames, Reply
  <2>3. CASE Head(mwQueue) = Reply[Step] /\ Awaited
    <3>1. CASE Step \in Frames
      <4>1. calls' = calls /\ at' \in {"check", "copy"}
        BY <2>3, <3>1 DEF Awaited, Enter, Frames
      <4> QED BY <1>5, <2>2, <2>3, <4>1
    <3>2. CASE Step \notin Frames
      <4>1. Proceed(<<>>)
        BY <2>3, <3>2 DEF Awaited, Frames
      <4>2. Plain(calls') /\ at' = "run"
        <5>1. CASE Plain(calls)
          <6>1. <<>> \in Seq(PlainSteps)
            BY EmptySeq
          <6> QED BY <1>1, <4>1, <5>1, <6>1, PlainProceeds
        <5>2. CASE Sleeping(calls)
          <6>1. Into(<<>>) = Tail(calls)
            BY <1>1, <5>2, RoundSteps, NothingInto
          <6> QED BY <4>1, <5>2, <6>1 DEF Proceed, Sleeping, Plain
        <5> QED BY <5>1, <5>2
      <4> QED BY <1>3, <4>2, PlainAfter
    <3> QED BY <3>1, <3>2
  <2>4. CASE Aborts(Head(mwQueue)) /\ Return
    BY <1>4, <2>4
  <2>5. CASE /\ Head(mwQueue) # Reply[Step] /\ ~Aborts(Head(mwQueue))
             /\ UNCHANGED threadVars
    <3>1. calls' = calls /\ at' = "wait"
      BY <2>1, <2>5 DEF threadVars
    <3>2. Head(mwQueue) = "DEACTIVATED" => Step \notin Frames
      BY <2>2, <2>5 DEF Aborts
    <3> QED BY <1>5, <3>1, <3>2
  <2> QED BY <1>9, <2>3, <2>4, <2>5 DEF Wait
<1> QED BY <1>6, <1>7, <1>8, <1>9

(* A step in a call that reads no block and puts no tag to sleep.          *)
LEMMA PlainNoticed ==
  ASSUME Inv, Shaped, Noticing, Handler, Busy, Plain(calls)
  PROVE  Noticing'
<1>1. /\ Followed(mwQueue, Pending, Line) /\ Step \in PlainSteps /\ Step # "Received"
      /\ <<>> \in Seq(PlainSteps)
  BY MostlyFollowed, RoundSteps, EmptySeq DEF PlainSteps
<1>2. ASSUME UNCHANGED stackVars, UNCHANGED mwQueue, Plain(calls'), at' = "run"
      PROVE  Noticing'
  BY <1>1, <1>2, Still, PlainAfter
<1>3. ASSUME UNCHANGED stackVars, UNCHANGED mwQueue,
             Return \/ \E s \in Seq(PlainSteps) : Proceed(s)
      PROVE  Noticing'
  BY <1>2, <1>3, PlainReturns, PlainProceeds
<1>4. CASE LoopBack
  <2>1. UNCHANGED stackVars /\ UNCHANGED mwQueue /\ at = "run"
    BY <1>4 DEF LoopBack, At
  <2>2. <<"Transceive", "LoopBack">> \in Seq(PlainSteps)
    <3>1. {"Transceive", "LoopBack"} \subseteq PlainSteps
      BY PlainTyped
    <3> QED BY <3>1
  <2>3. CASE calls' = << <<"Deactivate">> >> /\ UNCHANGED at
    <3>1. << <<"Deactivate">> >> \in Seq(PlainCalls)
      <4>1. <<"Deactivate">> \in PlainCalls
        BY PlainTyped DEF PlainCalls
      <4> QED BY <4>1
    <3> QED BY <1>2, <2>1, <2>3, <3>1 DEF Plain
  <2> QED BY <1>3, <1>4, <2>1, <2>2, <2>3 DEF LoopBack
<1>5. CASE Echo
  <2>1. UNCHANGED stackVars /\ UNCHANGED mwQueue
    BY <1>5 DEF Echo
  <2>2. <<"Transceive", "Echo">> \in Seq(PlainSteps)
    <3>1. {"Transceive", "Echo"} \subseteq PlainSteps
      BY PlainTyped
    <3> QED BY <3>1
  <2> QED BY <1>3, <1>5, <2>1, <2>2 DEF Echo
<1>6. CASE NotConnected
  BY <1>3, <1>6 DEF NotConnected
<1>7. CASE BeginReceive
  <2>1. /\ UNCHANGED stackVars /\ UNCHANGED mwQueue
        /\ calls' = calls /\ at' = "wait" /\ asked' = 0
    BY <1>7 DEF BeginReceive, Enter
  <2>2. AskedHere'
    BY <2>1 DEF AskedHere
  <2> QED BY <1>1, <2>1, <2>2, Still, WithinAfter
<1>8. CASE Issue
  BY <1>8, IssueNoticed
<1>9. CASE CheckSent \/ Wait \/ Timeout \/ CheckData
  BY <1>9, WithinNoticed
<1>10. CASE Copy \/ GiveLength \/ Clear
  BY <1>10, CopyNoticed
<1>11. CASE DiscoveryStop
  <2>1. UNCHANGED stackVars /\ UNCHANGED mwQueue
    BY <1>11 DEF DiscoveryStop
  <2>2. <<"Flush", "ResetLength">> \in Seq(PlainSteps) /\ <<"Stop", "ResetLength">> \in Seq(PlainSteps)
    <3>1. {"Flush", "Stop", "ResetLength"} \subseteq PlainSteps
      BY PlainTyped
    <3> QED BY <3>1
  <2> QED BY <1>3, <1>11, <2>1, <2>2 DEF DiscoveryStop
<1>12. CASE Flush
  <2>1. UNCHANGED stackVars /\ at = "run"
    BY <1>12 DEF Flush, At
  <2>2. CASE mwQueue = <<>>
    BY <1>1, <1>3, <1>12, <2>1, <2>2 DEF Flush
  <2>3. CASE mwQueue # <<>>
    <3>1. calls' = calls /\ at' = "run"
      BY <1>12, <2>1, <2>3 DEF Flush, threadVars
    <3> QED BY <1>1, <1>12, <2>3, <3>1, WaitTakes, PlainAfter
  <2> QED BY <2>2, <2>3
<1>13. CASE ResetLength
  BY <1>1, <1>3, <1>13 DEF ResetLength
<1>14. CASE SetStarted
  BY <1>1, <1>3, <1>14 DEF SetStarted
<1>15. ~HandlerPull /\ ~Received
  BY <1>1 DEF HandlerPull, Received, At
<1> QED BY <1>4, <1>5, <1>6, <1>7, <1>8, <1>9, <1>10, <1>11, <1>12, <1>13, <1>14, <1>15
    DEF Handler

(* A call of the loop back returns success.                                *)
LEMMA BackNoticed ==
  ASSUME Inv, Shaped, Noticing, Handler, Back(calls)
  PROVE  Noticing'
<1>1. Busy /\ Step = "Received" /\ calls \in Calls /\ Followed(mwQueue, Pending, Line)
  BY RoundSteps, MostlyFollowed DEF Shaped
<1>2. at = "run"
  BY <1>1, Commands DEF Shaped
<1>3. Received
  BY <1>1, <1>2, Commands DEF Handler, HandlerPull, LoopBack, Echo, NotConnected, BeginReceive, Issue,
         CheckSent, Wait, Timeout, CheckData, Copy, GiveLength, Clear, DiscoveryStop, Flush,
         ResetLength, SetStarted, At
<1>4. UNCHANGED stackVars /\ UNCHANGED mwQueue /\ calls' = Into(<<>>) /\ at' = "run"
  BY <1>3 DEF Received, Proceed
<1>5. Plain(calls')
  BY <1>1, <1>4, BackInto
<1> QED BY <1>1, <1>4, <1>5, Still, PlainAfter

(* A tag is put to sleep.                                                  *)
LEMMA SleepingNoticed ==
  ASSUME Inv, Shaped, Noticing, Handler, Sleeping(calls)
  PROVE  Noticing'
<1>1. Busy /\ Step = "DeactivateSleep"
  BY RoundSteps
<1>2. Issue \/ CheckSent \/ Wait \/ Timeout \/ CheckData
  BY <1>1 DEF Handler, HandlerPull, LoopBack, Echo, NotConnected, BeginReceive, Copy, GiveLength,
         Clear, Received, DiscoveryStop, Flush, ResetLength, SetStarted, At, Shaped
<1> QED BY <1>2, IssueNoticed, WithinNoticed

(* Blocks are read, and what was read is given out.                        *)
LEMMA ReadingNoticed ==
  ASSUME Inv, Shaped, Noticing, Handler, Reading(calls)
  PROVE  Noticing'
<1>1. /\ Busy /\ Step \in {"T2tRead", "Received"} /\ calls \in Calls
      /\ Tail(Head(calls)) \in {<<>>, <<"T2tRead">>} /\ Sleeping(Tail(calls))
      /\ at # "run" => Step = "T2tRead"
  BY RoundSteps, Commands DEF Reading, Shaped
<1>2. /\ EndComes \/ Ready
      /\ rf # "active" => Followed(mwQueue, Pending, Line)
  BY MostlyFollowed DEF Noticing, ReadsReady
<1>3. /\ Reply["T2tRead"] = "READ_CPLT" /\ "T2tRead" \in Frames
  BY DEF Reply, Frames
(* The read failed or timed out: the tag is put to sleep next. *)
<1>4. ASSUME Return, Pushes', OwedKinds', rf' = rf,
             Followed(mwQueue, Pending, Line) => Followed(mwQueue', Pending', Line')
      PROVE  Noticing'
  <2>1. at' = "run" /\ Sleeping(calls')
    BY <1>1, <1>4 DEF Return
  <2>2. calls' # <<>> /\ Head(Head(calls')) = "DeactivateSleep" /\ ~Reading(calls')
    BY <2>1, Headings DEF Sleeping
  <2>3. ~Given' /\ ~InFrame' /\ ~Lengthless'
    BY <2>1, <2>2 DEF Given, InFrame, Lengthless, Success, At, Busy, Step
  <2>4. ReadsEnd'
    BY <1>2, <1>4, <2>1 DEF ReadsEnd
  <2>5. AskedHere' /\ GivenHere' /\ GivenWhole'
    BY <2>3 DEF AskedHere, GivenHere, GivenWhole
  <2> QED BY <1>4, <2>1, <2>2, <2>4, <2>5 DEF Noticing, Rounds, ReadsReady
(* The read goes on. *)
<1>5. ASSUME calls' = calls, at' \in {"sent", "wait", "copy"}, Pushes', OwedKinds',
             (rf' = "active") \/ Followed(mwQueue', Pending', Line'),
             AskedHere', EndComes' \/ Ready'
      PROVE  Noticing'
  <2>1. ~Given' /\ ~Lengthless'
    BY <1>5 DEF Given, Lengthless, Success, At
  <2>2. GivenHere' /\ GivenWhole'
    BY <2>1 DEF GivenHere, GivenWhole
  <2>3. Reading(calls')
    BY <1>5
  <2> QED BY <1>5, <2>2, <2>3 DEF Noticing, Rounds, ReadsEnd, ReadsReady
<1>6. CASE CheckSent
  <2>1. /\ UNCHANGED stackVars /\ UNCHANGED mwQueue /\ asked' = asked
        /\ Pgs_cbTempBuffer' = Pgs_cbTempBuffer /\ at = "sent"
    BY <1>6 DEF CheckSent
  <2>2. /\ Pushes' /\ OwedKinds' /\ EndComes' = EndComes
        /\ Followed(mwQueue', Pending', Line') = Followed(mwQueue, Pending, Line)
        /\ mwQueue' = mwQueue /\ Pending' = Pending /\ Line' = Line
        /\ rf' = rf /\ contact' = contact
    BY <2>1, Still, HandlerStill
  <2>3. CASE Return
    BY <1>4, <2>2, <2>3
  <2>4. CASE Enter("wait")
    <3>1. calls' = calls /\ at' = "wait"
      BY <2>4 DEF Enter
    <3>2. InFrame
      BY <1>1, <1>3, <2>1 DEF InFrame
    <3>3. AskedHere'
      BY <2>1, <2>2, <3>2 DEF Noticing, AskedHere, Here
    <3>4. Ready => Ready'
      <4>1. Ready => OneRead(mwQueue', Pending', Line', Pgs_cbTempBuffer')
        BY <2>1, <2>2 DEF Ready
      <4> QED BY <3>1, <4>1 DEF Ready, Given, Success, At
    <3> QED BY <1>2, <1>5, <2>2, <3>1, <3>3, <3>4
  <2> QED BY <1>6, <2>3, <2>4 DEF CheckSent
<1>7. CASE Timeout
  <2>1. UNCHANGED stackVars /\ UNCHANGED mwQueue /\ Return
    BY <1>7 DEF Timeout
  <2> QED BY <1>4, <2>1, Still
<1>8. CASE Wait
  <2>1. /\ Pushes' /\ OwedKinds' /\ rf' = rf /\ contact' = contact /\ asked' = asked
        /\ Followed(mwQueue, Pending, Line) => Followed(mwQueue', Pending', Line')
        /\ EndComes /\ Head(mwQueue) # "DEACTIVATED" => EndComes'
        /\ OneRead(mwQueue, Pending, Line, Pgs_cbTempBuffer) =>
             OneRead(mwQueue', Pending', Line', Pgs_cbTempBuffer')
        /\ OneRead(mwQueue, Pending, Line, Pgs_cbTempBuffer) /\ Head(mwQueue) = "READ_CPLT" =>
             Unread(mwQueue', Pending', Line') /\ Pgs_cbTempBuffer # <<>>
        /\ Pgs_cbTempBuffer' = Pgs_cbTempBuffer
    BY <1>8, WaitTakes
  <2>2. at = "wait" /\ Step = "T2tRead"
    BY <1>1, <1>8 DEF Wait
  <2>3. ASSUME calls' = calls, at' \in {"wait", "copy"}, Head(mwQueue) # "DEACTIVATED"
        PROVE  AskedHere'
    <3>1. InFrame
      BY <1>3, <2>2 DEF InFrame
    <3> QED BY <2>1, <2>3, <3>1 DEF Noticing, AskedHere, Here
  <2>4. Ready => OneRead(mwQueue, Pending, Line, Pgs_cbTempBuffer)
    BY <2>2 DEF Ready
  <2>5. CASE Head(mwQueue) = Reply[Step] /\ Awaited
    <3>1. Head(mwQueue) = "READ_CPLT" /\ calls' = calls /\ at' = "copy"
      BY <1>3, <2>2, <2>5 DEF Awaited, Enter
    <3>2. Ready => Ready'
      <4>1. Ready => Unread(mwQueue', Pending', Line') /\ Pgs_cbTempBuffer' # <<>>
        BY <2>1, <2>4, <3>1
      <4> QED BY <3>1, <4>1 DEF Ready, Given, Success, At
    <3> QED BY <1>2, <1>5, <2>1, <2>3, <3>1, <3>2
  <2>6. CASE Aborts(Head(mwQueue)) /\ Return
    BY <1>4, <2>1, <2>6
  <2>7. CASE /\ Head(mwQueue) # Reply[Step] /\ ~Aborts(Head(mwQueue))
             /\ UNCHANGED threadVars
    <3>1. Head(mwQueue) # "DEACTIVATED" /\ calls' = calls /\ at' = "wait"
      BY <1>3, <2>2, <2>7 DEF Aborts, threadVars
    <3>2. Ready => Ready'
      <4>1. Ready => OneRead(mwQueue', Pending', Line', Pgs_cbTempBuffer')
        BY <2>1, <2>4
      <4> QED BY <3>1, <4>1 DEF Ready, Given, Success, At
    <3> QED BY <1>2, <1>5, <2>1, <2>3, <3>1, <3>2
  <2> QED BY <1>8, <2>5, <2>6, <2>7 DEF Wait
<1>9. CASE Copy \/ GiveLength \/ Clear
  BY <1>9, CopyNoticed
<1>10. CASE Received
  <2>1. /\ UNCHANGED stackVars /\ UNCHANGED mwQueue /\ calls' = Into(<<>>)
        /\ at = "run" /\ at' = "run" /\ asked' = 0
    BY <1>10 DEF Received, At, Proceed
  <2>2. /\ Pushes' /\ OwedKinds' /\ EndComes' = EndComes
        /\ Followed(mwQueue', Pending', Line') = Followed(mwQueue, Pending, Line)
        /\ mwQueue' = mwQueue /\ Pending' = Pending /\ Line' = Line
        /\ rf' = rf /\ contact' = contact
    BY <2>1, Still, HandlerStill
  <2>3. CASE Tail(Head(calls)) = <<>>
    <3>1. Return
      BY <1>1, <2>1, <2>3, NothingInto DEF Return
    <3> QED BY <1>4, <2>2, <3>1
  <2>4. CASE Tail(Head(calls)) = <<"T2tRead">>
    <3> DEFINE c == calls'
    <3>1. c # <<>> /\ Head(c) = <<"T2tRead">> /\ Tail(c) = Tail(calls)
      <4>1. <<"T2tRead">> # <<>>
        OBVIOUS
      <4> QED BY <1>1, <2>1, <2>4, <4>1, NothingInto
    <3> HIDE DEF c
    <3>2. Reading(c)
      BY <1>1, <3>1 DEF Reading, BlockCalls
    <3>3. Head(Head(c)) = "T2tRead"
      BY <3>1
    <3>4. ~Given' /\ ~InFrame' /\ ~Lengthless'
      BY <2>1, <3>3 DEF Given, InFrame, Lengthless, Success, At, Step, c
    <3>5. AskedHere' /\ GivenHere' /\ GivenWhole'
      BY <3>4 DEF AskedHere, GivenHere, GivenWhole
    <3>6. Ready => Ready'
      <4>1. Ready => Unread(mwQueue', Pending', Line')
        BY <2>1, <2>2 DEF Ready
      <4> QED BY <2>1, <3>4, <4>1 DEF Ready
    <3>7. ReadsEnd' /\ ReadsReady' /\ Rounds'
      BY <1>2, <2>2, <3>2, <3>6 DEF ReadsEnd, ReadsReady, Rounds, c
    <3> QED BY <2>2, <3>5, <3>7 DEF Noticing
  <2> QED BY <1>1, <2>3, <2>4
<1>11. CASE Issue
  <2>1. /\ at = "run" /\ at' = "sent" /\ calls' = calls /\ mwQueue' = mwQueue
        /\ Pgs_cbTempBuffer' = Pgs_cbTempBuffer /\ Step = "T2tRead"
    BY <1>1, <1>11, Commands DEF Issue, Enter
  <2>2. Pending' = Pending /\ Pushes'
    BY HandlerStill DEF Noticing
  <2> DEFINE mq == mwQueue  p == Pending  q == nfaOut  o == owed  b == Pgs_cbTempBuffer
  <2>3. q \in Seq(Events) /\ o \in Seq(Events) /\ ~Has(o, "DEACTIVATED") /\ Line = q \o o
    BY DEF Inv, Typed, Noticing, OwedKinds, Has, Line
  <2>4. Ready => Unread(mq, p, q \o o)
    BY <2>1, <2>3 DEF Ready
  <2>5. OneRead(mq, p, Line', b) => Ready'
    BY <2>1, <2>2 DEF Ready, Given, Success, At
  <2>6. CASE Refused(Step)
    <3>1. asked' = 0 /\ UNCHANGED stackVars /\ rf # "active"
      BY <1>11, <2>1, <2>6 DEF Issue, Refused
    <3>2. /\ OwedKinds' /\ Line' = Line /\ EndComes' = EndComes /\ rf' = rf
          /\ Followed(mwQueue', Pending', Line')
      BY <1>2, <2>1, <3>1, Still
    <3>3. Ready => Ready'
      BY <2>3, <2>4, <2>5, <3>2, UnreadIsFine
    <3>4. AskedHere'
      BY <3>1 DEF AskedHere
    <3> QED BY <1>2, <1>5, <2>1, <2>2, <3>2, <3>3, <3>4
  <2>7. CASE ~Refused(Step) /\ ToContact(Step)
    <3>1. rf = "active"
      BY <2>1, <2>7 DEF Refused
    <3>2. /\ Line' = nfaOut \o owed' /\ owed' \in Seq(Events)
          /\ rf' = rf /\ contact'.id = contact.id /\ asked' = contact.id
          /\ OwedKinds'
          /\ owed' = Block(contact.sent + 1) \/ owed' = <<>> \/ owed' = owed
      BY <2>1, <2>7, FrameLine
    <3>3. AskedHere'
      BY <3>1, <3>2 DEF AskedHere, Here, InField
    <3>4. contact.sent + 1 \in Nat
      BY DEF Inv, Typed, Contacts
    <3> HIDE DEF mq, p, q, o, b
    <3>5. ASSUME NEW CONSTANT s, s = owed', Ready PROVE OneRead(mq, p, q \o s, b)
      <4>1. Unread(mq, p, q \o o) /\ s \in Seq(Events)
        BY <2>4, <3>2, <3>5
      <4>2. CASE s = Block(contact.sent + 1)
        <5>1. DOMAIN s = {1, 2} /\ s[1].type = "DATA" /\ ~BadLength(s[1])
          BY <3>4, <4>2, BlockKinds
        <5> QED BY <2>3, <4>1, <5>1, BlockAwaited
      <4>3. CASE s = <<>>
        <5>1. ~Has(s, "READ_CPLT")
          BY <4>3 DEF Has
        <5> QED BY <2>3, <4>1, <5>1, CutUnread, UnreadIsFine
      <4>4. CASE s = o
        BY <4>1, <4>4, UnreadIsFine
      <4> QED BY <3>2, <3>5, <4>2, <4>3, <4>4 DEF o
    <3>6. Ready => OneRead(mq, p, Line', b)
      BY <3>2, <3>5 DEF q
    <3>7. EndComes => EndComes'
      <4>1. ASSUME NEW CONSTANT s, s = owed', Coming(mq, p, q \o o) PROVE Coming(mq, p, q \o s)
        BY <2>3, <3>2, <4>1, CutEnds
      <4>2. Coming(mq, p, q \o o) => Coming(mq, p, Line')
        BY <3>2, <4>1 DEF q
      <4> QED BY <2>1, <2>2, <2>3, <4>2 DEF EndComes, mq, p
    <3> QED BY <1>2, <1>5, <2>1, <2>2, <2>5, <3>1, <3>2, <3>3, <3>6, <3>7
  <2>8. ~Controls(Step)
    BY <2>1 DEF Controls
  <2> QED BY <1>11, <2>6, <2>7, <2>8 DEF Issue
<1>12. CASE CheckData
  <2>1. UNCHANGED stackVars /\ UNCHANGED mwQueue /\ asked' = asked /\ at = "check"
    BY <1>12 DEF CheckData
  <2>2. /\ Pushes' /\ OwedKinds' /\ EndComes' = EndComes
        /\ Followed(mwQueue', Pending', Line') = Followed(mwQueue, Pending, Line)
        /\ rf' = rf /\ contact' = contact
    BY <2>1, Still
  <2>3. CASE Return
    BY <1>4, <2>2, <2>3
  <2>4. CASE Enter("copy")
    <3>1. calls' = calls /\ at' = "copy"
      BY <2>4 DEF Enter
    <3>2. InFrame
      BY <1>1, <1>3, <2>1 DEF InFrame
    <3>3. AskedHere'
      BY <2>1, <2>2, <3>2 DEF Noticing, AskedHere, Here
    <3>4. EndComes'
      BY <1>2, <2>1, <2>2 DEF Ready
    <3> QED BY <1>2, <1>5, <2>2, <3>1, <3>3, <3>4
  <2> QED BY <1>12, <2>3, <2>4 DEF CheckData
<1>13. \/ CheckSent \/ Timeout \/ Wait \/ Copy \/ GiveLength \/ Clear
       \/ Received \/ Issue \/ CheckData
  BY <1>1 DEF Handler, HandlerPull, LoopBack, Echo, NotConnected, BeginReceive,
         DiscoveryStop, Flush, ResetLength, SetStarted, At
<1> QED BY <1>6, <1>7, <1>8, <1>9, <1>10, <1>11, <1>12, <1>13

(* The handler begins a round.                                             *)
LEMMA PullNoticed ==
  ASSUME Inv, Shaped, Noticing, Handler, HandlerPull
  PROVE  Noticing'
<1>1. /\ UNCHANGED stackVars /\ UNCHANGED mwQueue /\ at = "run" /\ at' = "run"
      /\ calls = <<>> /\ calls' \in Round(Head(dtaQueue))
  BY DEF HandlerPull, Busy, Shaped
<1>2. /\ Pushes' /\ OwedKinds' /\ EndComes' = EndComes
      /\ Followed(mwQueue', Pending', Line') = Followed(mwQueue, Pending, Line)
      /\ mwQueue' = mwQueue /\ Pending' = Pending /\ Line' = Line
  BY <1>1, Still, HandlerStill
<1>3. Followed(mwQueue, Pending, Line)
  <2>1. Plain(calls)
    BY <1>1 DEF Plain
  <2> QED BY <2>1, MostlyFollowed
<1> DEFINE c == calls'
<1>4. Plain(c) \/ (Reading(c) /\ Head(Head(c)) = "T2tRead")
  BY <1>1, RoundBegins
<1> HIDE DEF c
<1>5. CASE Plain(c)
  BY <1>1, <1>2, <1>3, <1>5, PlainAfter DEF c
<1>6. CASE Reading(c) /\ Head(Head(c)) = "T2tRead"
  <2>1. ~Given' /\ ~InFrame' /\ ~Lengthless'
    BY <1>1, <1>6 DEF Given, InFrame, Lengthless, Success, At, Step, c
  <2>2. AskedHere' /\ GivenHere' /\ GivenWhole'
    BY <2>1 DEF AskedHere, GivenHere, GivenWhole
  <2>3. EndComes' \/ Ready'
    <3>1. ~Coming(mwQueue, Pending, Line) => Unread(mwQueue, Pending, Line)
      BY <1>3, UnreadIsFine
    <3> QED BY <1>1, <1>2, <2>1, <3>1 DEF EndComes, Ready
  <2>4. ReadsEnd' /\ ReadsReady' /\ Rounds'
    BY <1>2, <1>3, <1>6, <2>3 DEF ReadsEnd, ReadsReady, Rounds, c
  <2> QED BY <1>2, <2>2, <2>4 DEF Noticing
<1> QED BY <1>4, <1>5, <1>6

LEMMA HandlerNoticed ==
  ASSUME Inv, Shaped, Noticing, Handler
  PROVE  Noticing'
<1>1. CASE ~Busy
  <2>1. HandlerPull
    BY <1>1 DEF Handler, HandlerPull, LoopBack, Echo, NotConnected, BeginReceive, Issue, CheckSent,
         Wait, Timeout, CheckData, Copy, GiveLength, Clear, Received, DiscoveryStop, Flush,
         ResetLength, SetStarted, At, Shaped
  <2> QED BY <2>1, PullNoticed
<1>2. CASE Busy
  BY <1>2, PlainNoticed, BackNoticed, SleepingNoticed, ReadingNoticed DEF Noticing, Rounds
<1> QED BY <1>1, <1>2

-----------------------------------------------------------------------------
LEMMA InitNoticing == Init => Noticing
<1> SUFFICES ASSUME Init PROVE Noticing
  OBVIOUS
<1>1. /\ calls = <<>> /\ at = "run" /\ mwQueue = <<>> /\ nfaOut = <<>> /\ owed = <<>>
      /\ cb.todo = <<>> /\ out.data = <<>> /\ asked = 0
  BY DEF Init, Nothing
<1>2. Line = <<>>
  <2>1. <<>> \in Seq(Events)
    BY EmptySeq
  <2> QED BY <1>1, <2>1, ConcatEmptySeq DEF Line
<1>3. Plain(calls) /\ Pending = "none" /\ Pushes /\ OwedKinds
  BY <1>1 DEF Plain, Pending, Pushes, OwedKinds
<1>4. Followed(mwQueue, Pending, Line)
  BY <1>1, <1>2, <1>3 DEF Followed
<1> QED BY <1>1, <1>3, <1>4, Headings DEF Noticing, Rounds, AskedHere, GivenHere, GivenWhole,
       ReadsEnd, ReadsReady

LEMMA NextNoticing == Inv /\ Shaped /\ Noticing /\ [Next]_vars => Noticing'
<1> SUFFICES ASSUME Inv, Shaped, Noticing, [Next]_vars PROVE Noticing'
  OBVIOUS
<1>1. CASE Tester
  BY <1>1, TesterNoticed
<1>2. CASE StackThread
  BY <1>2, StackThreadNoticed
<1>3. CASE Handler
  BY <1>3, HandlerNoticed
<1>4. CASE UNCHANGED vars
  <2>1. /\ UNCHANGED <<calls, at, out, asked>> /\ mwQueue' = mwQueue /\ Pending' = Pending
        /\ Line' = Line /\ Pgs_cbTempBuffer' = Pgs_cbTempBuffer /\ rf' = rf /\ contact' = contact
        /\ Pushes' /\ OwedKinds'
    BY <1>4 DEF vars, stackVars, threadVars, Pending, Line, Noticing, Pushes, OwedKinds
  <2>2. EndComes' = EndComes
    BY <2>1 DEF EndComes
  <2>3. ReadsEnd'
    BY <2>1 DEF Noticing, ReadsEnd
  <2>4. Ready => Ready'
    BY <2>1 DEF Ready, Given, Success, At, Busy, Step
  <2> QED BY <2>1, <2>2, <2>3, <2>4, NoticingKept
<1> QED BY <1>1, <1>2, <1>3, <1>4 DEF Next

LEMMA NoticingEnds == Inv /\ Shaped /\ Noticing => EndIsNoticed
<1> SUFFICES ASSUME Inv, Shaped, Noticing, Success, ~IsAnswer, out.data # <<>> \/ OfBlocks
             PROVE  EndUnderWay
  BY DEF EndIsNoticed
<1>1. at = "run" /\ Busy /\ Step = "Received" /\ calls \in Calls
  BY DEF Success, At, Shaped
<1>2. EndComes
  <2>1. CASE out.data = <<>>
    <3>1. Len(calls) > 1 /\ calls[2] = <<"DeactivateSleep">>
      BY <2>1 DEF OfBlocks
    <3>2. Tail(calls) \in Calls /\ Tail(calls) # <<>> /\ Head(Tail(calls)) = calls[2]
      <4>1. /\ calls # <<>> /\ Len(calls) \in Nat /\ Tail(calls) \in Calls
            /\ Len(Tail(calls)) = Len(calls) - 1
            /\ \A i \in 1 .. Len(Tail(calls)) : Tail(calls)[i] = calls[i + 1]
        BY <1>1, HeadTailProperties, LenProperties DEF Busy, Calls
      <4> DEFINE t == Tail(calls)
      <4>2. Len(t) \in Nat \ {0} /\ t[1] = calls[2] /\ t \in Calls
        BY <3>1, <4>1
      <4> HIDE DEF t
      <4>3. t # <<>> /\ Head(t) = t[1]
        BY <4>2, EmptySeq, HeadTailProperties DEF Calls
      <4> QED BY <4>2, <4>3 DEF t
    <3>3. ~(Tail(calls) \in Seq(PlainCalls))
      <4>1. <<"DeactivateSleep">> \notin PlainCalls
        <5> DEFINE s == <<"DeactivateSleep">>
        <5>1. s # <<>> /\ Head(s) = "DeactivateSleep"
          OBVIOUS
        <5> HIDE DEF s
        <5>2. s \in Seq(PlainSteps) => Head(s) \in PlainSteps
          BY <5>1, HeadTailProperties
        <5>3. "DeactivateSleep" \notin PlainSteps
          BY DEF PlainSteps
        <5>4. s \notin PlainCalls
          BY <5>1, <5>2, <5>3 DEF PlainCalls
        <5> QED BY <5>4 DEF s
      <4> QED BY <3>1, <3>2, <4>1, HeadTailProperties
    <3>4. Reading(calls)
      <4>1. ~Plain(calls)
        BY <1>1, <3>3, RoundSteps DEF Plain
      <4>2. ~Back(calls)
        BY <3>3 DEF Back
      <4>3. ~Sleeping(calls)
        BY <1>1, RoundSteps
      <4> QED BY <4>1, <4>2, <4>3 DEF Noticing, Rounds
    <3>5. ~Ready
      BY <2>1 DEF Ready, Given
    <3> QED BY <3>4, <3>5 DEF Noticing, ReadsReady
  <2>2. CASE out.data # <<>>
    <3>1. InFrame /\ Given
      BY DEF InFrame, Given
    <3>2. EndComes \/ Here(out.data[1].contact)
      BY <2>2, <3>1 DEF Noticing, GivenHere
    <3>3. CASE out.len = 0
      BY <2>2, <3>3 DEF Noticing, GivenWhole, Lengthless
    <3>4. CASE asked \notin {0, out.data[1].contact}
      BY <3>1, <3>2, <3>4 DEF Noticing, AskedHere, Here
    <3> QED BY <2>2, <3>3, <3>4 DEF IsAnswer
  <2> QED BY <2>1, <2>2
<1>3. CASE \E i \in DOMAIN mwQueue : mwQueue[i] = "DEACTIVATED"
  <2>1. "DEACTIVATED" \in ToSet(mwQueue)
    BY <1>3 DEF ToSet
  <2> QED BY <2>1 DEF EndUnderWay
<1>4. CASE Pending = "DEACTIVATED"
  BY <1>4 DEF Pending, EndUnderWay
<1>5. CASE Has(Line, "DEACTIVATED")
  <2>1. nfaOut \in Seq(Events) /\ owed \in Seq(Events) /\ ~Has(owed, "DEACTIVATED")
    BY DEF Inv, Typed, Noticing, OwedKinds, Has
  <2>2. PICK i \in DOMAIN Line : Line[i].type = "DEACTIVATED"
    BY <1>5 DEF Has
  <2>3. i \in DOMAIN nfaOut /\ nfaOut[i] = Line[i]
    BY <2>1, <2>2, Joined DEF Line, Has
  <2> QED BY <2>2, <2>3 DEF EndUnderWay
<1> QED BY <1>2, <1>3, <1>4, <1>5 DEF EndComes, Coming

(* Whatever testers send, and wherever contacts end between the statements *)
(* of the two threads: a receiving call that returns success with data     *)
(* that is not the answer, or for a block with none, has the news of the   *)
(* end ahead of the next wait.                                             *)
THEOREM EndNoticed == Spec => []EndIsNoticed
<1> QED BY InitInv, NextInv, ShapedInit, ShapedNext, InitNoticing, NextNoticing, NoticingEnds,
           PTL DEF Spec
===============================================================================
