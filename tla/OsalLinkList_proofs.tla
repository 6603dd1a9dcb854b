------------------------- MODULE OsalLinkList_proofs -------------------------
(***************************************************************************)
(* Theorems about OsalLinkList, for every heap and all data: the pointers  *)
(* are a chain of exactly the allocated nodes, and read along it they are  *)
(* the ordered collection Deque.                                           *)
(***************************************************************************)
EXTENDS OsalLinkList, FiniteSetTheorems, SequenceTheorems, TLAPS

-----------------------------------------------------------------------------
(* Induction over natural numbers, in the form of a least element: the     *)
(* intervals 1 .. k are ordered by inclusion, which is well-founded.       *)

LEMMA LeastOf ==
  ASSUME NEW D \in SUBSET Nat, D # {}
  PROVE  \E m \in D : \A k \in D : m <= k
<1> DEFINE Prefixes == {1 .. k : k \in D}
<1>1. Prefixes \subseteq FiniteSubsetsOf(Nat)
  <2>1. \A k \in D : k \in Int /\ 1 \in Int /\ 1 .. k \in SUBSET Nat
    OBVIOUS
  <2>2. \A k \in D : IsFiniteSet(1 .. k)
    BY <2>1, FS_Interval
  <2> QED BY <2>1, <2>2 DEF FiniteSubsetsOf
<1>2. Prefixes # {}
  OBVIOUS
<1>3. \E X \in Prefixes : \A Y \in Prefixes : ~(<<Y, X>> \in StrictSubsetOrdering(Nat))
  BY <1>1, <1>2, FS_StrictSubsetOrderingWellFounded, WFMin
<1>4. PICK m \in D : \A k \in D : ~(<<1 .. k, 1 .. m>> \in StrictSubsetOrdering(Nat))
  BY <1>3
<1>5. ASSUME NEW k \in D, k < m PROVE FALSE
  <2>1. 1 .. k \subseteq 1 .. m /\ m \in 1 .. m /\ m \notin 1 .. k
    BY <1>5
  <2>2. 1 .. k # 1 .. m /\ 1 .. k \subseteq Nat /\ 1 .. m \subseteq Nat
    BY <2>1
  <2> QED BY <1>4, <2>1, <2>2 DEF StrictSubsetOrdering
<1> QED BY <1>4, <1>5

-----------------------------------------------------------------------------
(* s lists the nodes in link order. *)
Chain(s) ==
  /\ s \in Seq(Nodes)
  /\ dwNumNodes = Len(s)
  /\ alloc = {s[i] : i \in 1 .. Len(s)}
  /\ IsFiniteSet(alloc) /\ Cardinality(alloc) = Len(s)
  /\ \A i, j \in 1 .. Len(s) : s[i] = s[j] => i = j
  /\ \A i \in 1 .. Len(s) - 1 : ps_next[s[i]] = s[i + 1]
  /\ s = <<>> => psHead = NULL /\ psTail = NULL
  /\ s # <<>> => /\ psHead = s[1] /\ psTail = s[Len(s)]
                 /\ repair \/ ps_next[s[Len(s)]] = NULL

(* Following the links from the head visits s in order. *)
NodesAlong(s) ==
  /\ DOMAIN NodeAt = 1 .. Len(s)
  /\ \A i \in 1 .. Len(s) : NodeAt[i] = s[i]

ChainVisited == \A s : Chain(s) => NodesAlong(s)

LEMMA Visited == ChainVisited
<1> SUFFICES ASSUME NEW s, Chain(s) PROVE NodesAlong(s)
  BY DEF ChainVisited
<1> DEFINE N == Len(s)
           Follows(f) ==
             f = [i \in 1 .. Cardinality(alloc) |-> IF i = 1 THEN psHead ELSE ps_next[f[i - 1]]]
<1>1. /\ s \in Seq(Nodes) /\ N \in Nat /\ DOMAIN s = 1 .. N
      /\ Cardinality(alloc) = N
      /\ N >= 1 => psHead = s[1]
      /\ \A i \in 1 .. N - 1 : ps_next[s[i]] = s[i + 1]
  <2>1. s \in Seq(Nodes) /\ Cardinality(alloc) = N /\ (s # <<>> => psHead = s[1])
        /\ \A i \in 1 .. N - 1 : ps_next[s[i]] = s[i + 1]
    BY DEF Chain
  <2>2. N \in Nat /\ DOMAIN s = 1 .. N /\ (N >= 1 => s # <<>>)
    BY <2>1
  <2> QED BY <2>1, <2>2
<1>2. Follows(s)
  <2>1. \A i \in 1 .. N : s[i] = IF i = 1 THEN psHead ELSE ps_next[s[i - 1]]
    <3> SUFFICES ASSUME NEW i \in 1 .. N
                 PROVE  s[i] = IF i = 1 THEN psHead ELSE ps_next[s[i - 1]]
      OBVIOUS
    <3>1. CASE i = 1
      BY <1>1, <3>1
    <3>2. CASE i # 1
      <4>1. i - 1 \in 1 .. N - 1 /\ (i - 1) + 1 = i
        BY <1>1, <3>2
      <4> QED BY <1>1, <3>2, <4>1
    <3> QED BY <3>1, <3>2
  <2>2. s = [i \in 1 .. N |-> s[i]]
    BY <1>1
  <2> QED BY <1>1, <2>1, <2>2
<1>3. NodeAt = CHOOSE f : Follows(f)
  BY DEF NodeAt
<1>4. Follows(NodeAt)
  <2> HIDE DEF Follows
  <2> QED BY <1>2, <1>3
<1>5. /\ DOMAIN NodeAt = 1 .. N
      /\ \A i \in 1 .. N : NodeAt[i] = IF i = 1 THEN psHead ELSE ps_next[NodeAt[i - 1]]
  BY <1>1, <1>4
<1>6. /\ \A i \in 1 .. N : s[i] = IF i = 1 THEN psHead ELSE ps_next[s[i - 1]]
  BY <1>1, <1>2
<1>7. ASSUME NEW j \in 1 .. N, NodeAt[j] # s[j] PROVE FALSE
  <2> DEFINE D == {i \in 1 .. N : NodeAt[i] # s[i]}
  <2>1. D \in SUBSET Nat /\ D # {}
    BY <1>7
  <2>2. PICK m \in D : \A k \in D : m <= k
    <3> HIDE DEF D
    <3> QED BY <2>1, LeastOf
  <2>3. m \in 1 .. N /\ NodeAt[m] # s[m]
    OBVIOUS
  <2>4. m # 1
    BY <1>5, <1>6, <2>3
  <2>5. m - 1 \in 1 .. N /\ m - 1 \notin D
    BY <1>1, <2>2, <2>3, <2>4
  <2>6. NodeAt[m - 1] = s[m - 1]
    BY <2>5
  <2> QED BY <1>5, <1>6, <2>3, <2>4, <2>6
<1> QED BY <1>5, <1>7 DEF NodesAlong

-----------------------------------------------------------------------------
(* What each function does to the chain.                                   *)

(* The data along the chain. *)
Contents(s) == [i \in 1 .. Len(s) |-> pvData[s[i]]]

(* z is the chain of the next state, with the data c along it. *)
BecomesChain(z, c) == Chain(z)' /\ Contents(z)' = c

LEMMA ChainFacts ==
  ASSUME NEW s, Chain(s)
  PROVE  /\ s \in Seq(Nodes) /\ Len(s) \in Nat /\ DOMAIN s = 1 .. Len(s)
         /\ \A i \in 1 .. Len(s) : s[i] \in alloc /\ s[i] \in Nodes
         /\ psHead = NULL <=> s = <<>>
         /\ psTail = NULL <=> s = <<>>
         /\ s # <<>> => Len(s) >= 1
<1>1. s \in Seq(Nodes) /\ Len(s) \in Nat /\ DOMAIN s = 1 .. Len(s)
  BY DEF Chain
<1>2. \A i \in 1 .. Len(s) : s[i] \in alloc /\ s[i] \in Nodes
  BY <1>1 DEF Chain
<1>3. s # <<>> => Len(s) >= 1
  BY <1>1
<1>4. s # <<>> => psHead = s[1] /\ psTail = s[Len(s)] /\ s[1] \in Nodes /\ s[Len(s)] \in Nodes
  BY <1>1, <1>2, <1>3 DEF Chain
<1>5. s = <<>> => psHead = NULL /\ psTail = NULL
  BY DEF Chain
<1> QED BY <1>1, <1>2, <1>3, <1>4, <1>5, NullAssumption

(* A sequence that agrees with the data of the nodes of z is Contents(z).  *)
LEMMA NextContents ==
  ASSUME NEW z, NEW e \in Seq(Data \cup {NULL}), Len(e) = Len(z),
         \A i \in 1 .. Len(z) : e[i] = pvData'[z[i]]
  PROVE  Contents(z)' = e
<1>1. DOMAIN e = 1 .. Len(z) /\ e = [i \in DOMAIN e |-> e[i]]
  OBVIOUS
<1>2. e = [i \in 1 .. Len(z) |-> pvData'[z[i]]]
  BY <1>1
<1> QED BY <1>2 DEF Contents

(* The data along a chain is a sequence. *)
LEMMA ContentsTyped ==
  ASSUME TypeOK, NEW s, Chain(s)
  PROVE  /\ Contents(s) \in Seq(Data \cup {NULL}) /\ Len(Contents(s)) = Len(s)
         /\ \A i \in 1 .. Len(s) : Contents(s)[i] = pvData[s[i]]
<1>1. Len(s) \in Nat /\ \A i \in 1 .. Len(s) : pvData[s[i]] \in Data \cup {NULL}
  BY ChainFacts DEF TypeOK
<1> QED BY <1>1 DEF Contents

LEMMA InsertTailChain ==
  ASSUME TypeOK, NEW s, Chain(s), NEW d \in Data, InsertTail(d)
  PROVE  \E z : BecomesChain(z, Append(Contents(s), d))
<1>1. PICK n \in Nodes \ alloc :
        /\ alloc' = alloc \cup {n}
        /\ pvData' = [pvData EXCEPT ![n] = d]
        /\ psTail' = n
        /\ IF psTail = NULL
           THEN psHead' = n /\ ps_next' = [ps_next EXCEPT ![n] = NULL]
           ELSE psHead' = psHead /\ ps_next' = [ps_next EXCEPT ![n] = NULL, ![psTail] = n]
        /\ dwNumNodes' = dwNumNodes + 1
  BY DEF InsertTail
<1> DEFINE z == Append(s, n)
           N == Len(s)
<1>2. /\ s \in Seq(Nodes) /\ N \in Nat /\ DOMAIN s = 1 .. N
      /\ \A i \in 1 .. N : s[i] \in alloc /\ s[i] \in Nodes
      /\ psTail = NULL <=> s = <<>>
      /\ s # <<>> => N >= 1
  BY ChainFacts
<1>3. /\ z \in Seq(Nodes) /\ Len(z) = N + 1 /\ z[N + 1] = n
      /\ \A i \in 1 .. N : z[i] = s[i]
      /\ z # <<>>
  BY <1>1, <1>2
<1> HIDE DEF z
<1>4. alloc' = {z[i] : i \in 1 .. N + 1}
  <2>1. alloc = {s[i] : i \in 1 .. N}
    BY DEF Chain
  <2>2. 1 .. N + 1 = (1 .. N) \cup {N + 1}
    BY <1>2
  <2> QED BY <1>1, <1>3, <2>1, <2>2
<1>5. IsFiniteSet(alloc') /\ Cardinality(alloc') = N + 1
  <2>1. IsFiniteSet(alloc) /\ Cardinality(alloc) = N
    BY DEF Chain
  <2> HIDE DEF N
  <2> QED BY <1>1, <2>1, FS_AddElement
<1>6. \A i, j \in 1 .. N + 1 : z[i] = z[j] => i = j
  <2>1. \A i, j \in 1 .. N : s[i] = s[j] => i = j
    BY DEF Chain
  <2>2. \A i \in 1 .. N : z[i] # n
    BY <1>1, <1>2, <1>3
  <2>3. \A i \in 1 .. N + 1 : i \in 1 .. N \/ i = N + 1
    BY <1>2
  <2> QED BY <1>3, <2>1, <2>2, <2>3
<1>7. ps_next \in [Nodes -> Nodes \cup {NULL}] /\ pvData \in [Nodes -> Data \cup {NULL}]
  BY DEF TypeOK
<1>8. /\ psHead' = z[1] /\ psTail' = z[N + 1] /\ ps_next'[n] = NULL
      /\ \A i \in 1 .. N : ps_next'[z[i]] = z[i + 1]
  <2>1. CASE s = <<>>
    BY <1>1, <1>2, <1>3, <1>7, <2>1
  <2>2. CASE s # <<>>
    <3>1. /\ psHead' = psHead /\ ps_next' = [ps_next EXCEPT ![n] = NULL, ![psTail] = n]
          /\ psHead = s[1] /\ psTail = s[N] /\ s[N] \in Nodes /\ s[N] # n /\ N >= 1
      BY <1>1, <1>2, <2>2 DEF Chain
    <3>2. ps_next'[n] = NULL /\ ps_next'[s[N]] = n
      BY <1>7, <3>1
    <3>3. \A i \in 1 .. N - 1 : ps_next'[s[i]] = s[i + 1]
      <4> SUFFICES ASSUME NEW i \in 1 .. N - 1 PROVE ps_next'[s[i]] = s[i + 1]
        OBVIOUS
      <4>1. /\ i \in 1 .. N /\ N \in 1 .. N /\ i # N
            /\ s[i] # s[N] /\ s[i] # n /\ s[i] \in Nodes
        BY <1>1, <1>2, <3>1 DEF Chain
      <4>2. ps_next[s[i]] = s[i + 1]
        BY DEF Chain
      <4> QED BY <1>7, <3>1, <4>1, <4>2
    <3>4. ASSUME NEW i \in 1 .. N PROVE ps_next'[z[i]] = z[i + 1]
      <4>1. CASE i = N
        BY <1>3, <3>2, <4>1
      <4>2. CASE i # N
        <5>1. i \in 1 .. N - 1 /\ i + 1 \in 1 .. N
          <6> HIDE DEF N
          <6> QED BY <1>2, <4>2
        <5> QED BY <1>3, <3>3, <5>1
      <4> QED BY <4>1, <4>2
    <3>5. psHead' = z[1] /\ psTail' = z[N + 1]
      BY <1>1, <1>2, <1>3, <3>1
    <3> QED BY <3>2, <3>4, <3>5
  <2> QED BY <2>1, <2>2
<1>9. Chain(z)'
  <2>1. dwNumNodes' = N + 1
    BY <1>1 DEF Chain
  <2>2. \A i \in 1 .. Len(z) - 1 : ps_next'[z[i]] = z[i + 1]
    BY <1>2, <1>3, <1>8
  <2>3. ps_next'[z[Len(z)]] = NULL /\ psTail' = z[Len(z)]
    BY <1>3, <1>8
  <2> QED BY <1>3, <1>4, <1>5, <1>6, <1>8, <2>1, <2>2, <2>3 DEF Chain
<1>10. Contents(z)' = Append(Contents(s), d)
  <2> DEFINE c == Contents(s)
  <2>1. /\ c \in Seq(Data \cup {NULL}) /\ Len(c) = N
        /\ \A i \in 1 .. N : c[i] = pvData[s[i]]
    BY ContentsTyped
  <2> HIDE DEF c
  <2>2. /\ Append(c, d) \in Seq(Data \cup {NULL}) /\ Len(Append(c, d)) = N + 1
        /\ \A i \in 1 .. N : Append(c, d)[i] = c[i]
        /\ Append(c, d)[N + 1] = d
    BY <2>1, AppendProperties
  <2>3. \A i \in 1 .. N : pvData'[z[i]] = c[i]
    BY <1>1, <1>2, <1>3, <1>7, <2>1
  <2>4. pvData'[z[N + 1]] = d
    BY <1>1, <1>3, <1>7
  <2>5. \A i \in 1 .. N + 1 : i \in 1 .. N \/ i = N + 1
    BY <1>2
  <2>6. \A i \in 1 .. Len(z) : Append(c, d)[i] = pvData'[z[i]]
    BY <1>3, <2>2, <2>3, <2>4, <2>5
  <2> DEFINE e == Append(c, d)
  <2>7. /\ e \in Seq(Data \cup {NULL}) /\ Len(e) = Len(z)
        /\ \A i \in 1 .. Len(z) : e[i] = pvData'[z[i]]
    BY <1>3, <2>2, <2>6
  <2> HIDE DEF e
  <2>8. Contents(z)' = e
    BY <2>7, NextContents
  <2> QED BY <2>8 DEF c, e
<1> QED BY <1>9, <1>10 DEF BecomesChain

LEMMA InsertHeadChain ==
  ASSUME TypeOK, NEW s, Chain(s), NEW d \in Data, InsertHead(d)
  PROVE  \E z : BecomesChain(z, <<d>> \o Contents(s))
<1>1. PICK n \in Nodes \ alloc :
        /\ alloc' = alloc \cup {n}
        /\ pvData' = [pvData EXCEPT ![n] = d]
        /\ psHead' = n
        /\ ps_next' = [ps_next EXCEPT ![n] = psHead]
        /\ psTail' = IF psHead = NULL THEN n ELSE psTail
  BY DEF InsertHead
<1>2. ~repair /\ repair' = repair /\ dwNumNodes' = dwNumNodes + 1
  BY DEF InsertHead
<1> DEFINE z == <<n>> \o s
           N == Len(s)
<1>3. /\ s \in Seq(Nodes) /\ N \in Nat /\ DOMAIN s = 1 .. N
      /\ \A i \in 1 .. N : s[i] \in alloc /\ s[i] \in Nodes
      /\ psHead = NULL <=> s = <<>>
      /\ s # <<>> => N >= 1
      /\ s = <<>> => N = 0
  BY ChainFacts
<1>4. /\ z \in Seq(Nodes) /\ Len(z) = N + 1 /\ z[1] = n
      /\ \A i \in 1 .. N : z[i + 1] = s[i]
      /\ z # <<>>
  BY <1>1, <1>3
<1>5. /\ dwNumNodes = N /\ alloc = {s[i] : i \in 1 .. N}
      /\ IsFiniteSet(alloc) /\ Cardinality(alloc) = N
      /\ \A i, j \in 1 .. N : s[i] = s[j] => i = j
      /\ \A i \in 1 .. N - 1 : ps_next[s[i]] = s[i + 1]
      /\ s # <<>> => psHead = s[1] /\ psTail = s[N] /\ ps_next[s[N]] = NULL
  BY <1>2 DEF Chain
<1>6. ps_next \in [Nodes -> Nodes \cup {NULL}] /\ pvData \in [Nodes -> Data \cup {NULL}]
  BY DEF TypeOK
<1> HIDE DEF z, N
<1>7. \A i \in 1 .. N + 1 : i = 1 \/ (i - 1 \in 1 .. N /\ i = (i - 1) + 1)
  BY <1>3
<1>8. \A i \in 1 .. N : i + 1 \in 1 .. N + 1
  BY <1>3
<1>9. \A i \in 1 .. N + 1 : (i = 1 /\ z[i] = n) \/ (i - 1 \in 1 .. N /\ z[i] = s[i - 1])
  <2> SUFFICES ASSUME NEW i \in 1 .. N + 1, i # 1
               PROVE  i - 1 \in 1 .. N /\ z[i] = s[i - 1]
    BY <1>4
  <2>1. i - 1 \in 1 .. N /\ i = (i - 1) + 1
    BY <1>7
  <2>2. z[(i - 1) + 1] = s[i - 1]
    BY <1>4, <2>1
  <2> QED BY <2>1, <2>2
<1>10. alloc' = {z[i] : i \in 1 .. N + 1}
  <2>1. 1 \in 1 .. N + 1
    BY <1>3
  <2> QED BY <1>1, <1>4, <1>5, <1>8, <1>9, <2>1
<1>11. IsFiniteSet(alloc') /\ Cardinality(alloc') = N + 1
  BY <1>1, <1>5, FS_AddElement
<1>12. \A i, j \in 1 .. N + 1 : z[i] = z[j] => i = j
  <2> SUFFICES ASSUME NEW i \in 1 .. N + 1, NEW j \in 1 .. N + 1, z[i] = z[j]
               PROVE  i = j
    OBVIOUS
  <2>1. \A k \in 1 .. N : s[k] # n
    BY <1>1, <1>3
  <2>2. (i = 1 /\ j = 1) \/ (i - 1 \in 1 .. N /\ j - 1 \in 1 .. N /\ s[i - 1] = s[j - 1])
    BY <1>9, <2>1
  <2>3. i - 1 = j - 1 => i = j
    BY <1>3
  <2> QED BY <1>5, <2>2, <2>3
<1>13. \A i \in 1 .. N : ps_next'[s[i]] = ps_next[s[i]]
  BY <1>1, <1>3, <1>6
<1>14. ASSUME NEW i \in 1 .. N PROVE ps_next'[z[i]] = z[i + 1]
  <2>1. CASE i = 1
    <3>1. s # <<>> /\ 1 \in 1 .. N
      BY <1>3, <2>1
    <3> QED BY <1>1, <1>4, <1>5, <1>6, <2>1, <3>1
  <2>2. CASE i # 1
    <3>1. /\ i - 1 \in 1 .. N - 1 /\ i - 1 \in 1 .. N
          /\ (i - 1) + 1 = i
      BY <1>3, <2>2
    <3>2. ps_next[s[i - 1]] = s[i]
      BY <1>5, <3>1
    <3>3. z[i] = s[i - 1] /\ z[i + 1] = s[i]
      BY <1>4, <3>1
    <3> QED BY <1>13, <3>1, <3>2, <3>3
  <2> QED BY <2>1, <2>2
<1>15. psHead' = z[1] /\ psTail' = z[N + 1] /\ ps_next'[z[N + 1]] = NULL
  <2>1. CASE s = <<>>
    BY <1>1, <1>3, <1>4, <1>6, <2>1
  <2>2. CASE s # <<>>
    <3>1. N \in 1 .. N
      BY <1>3, <2>2
    <3> QED BY <1>1, <1>3, <1>4, <1>5, <1>13, <2>2, <3>1
  <2> QED BY <2>1, <2>2
<1>16. Chain(z)'
  <2>1. dwNumNodes' = Len(z)
    BY <1>2, <1>4, <1>5
  <2>2. \A i \in 1 .. Len(z) - 1 : ps_next'[z[i]] = z[i + 1]
    BY <1>3, <1>4, <1>14
  <2> QED BY <1>4, <1>10, <1>11, <1>12, <1>15, <2>1, <2>2 DEF Chain
<1>17. Contents(z)' = <<d>> \o Contents(s)
  <2> DEFINE c == Contents(s)
             e == <<d>> \o c
  <2>1. /\ c \in Seq(Data \cup {NULL}) /\ Len(c) = N
        /\ \A i \in 1 .. N : c[i] = pvData[s[i]]
    BY ContentsTyped DEF N
  <2> HIDE DEF c
  <2>2. /\ e \in Seq(Data \cup {NULL}) /\ Len(e) = N + 1 /\ e[1] = d
        /\ \A i \in 1 .. N : e[i + 1] = c[i]
    BY <1>3, <2>1
  <2> HIDE DEF e
  <2>3. \A i \in 1 .. N : pvData'[s[i]] = c[i]
    BY <1>1, <1>3, <1>6, <2>1
  <2>4. pvData'[n] = d
    BY <1>1, <1>6
  <2>5. \A i \in 1 .. N + 1 : (i = 1 /\ e[i] = d) \/ (i - 1 \in 1 .. N /\ e[i] = c[i - 1])
    <3> SUFFICES ASSUME NEW i \in 1 .. N + 1, i # 1
                 PROVE  i - 1 \in 1 .. N /\ e[i] = c[i - 1]
      BY <2>2
    <3>1. i - 1 \in 1 .. N /\ i = (i - 1) + 1
      BY <1>7
    <3>2. e[(i - 1) + 1] = c[i - 1]
      BY <2>2, <3>1
    <3> QED BY <3>1, <3>2
  <2>6. \A i \in 1 .. Len(z) : e[i] = pvData'[z[i]]
    BY <1>4, <1>9, <2>3, <2>4, <2>5
  <2>7. Contents(z)' = e
    BY <1>4, <2>2, <2>6, NextContents
  <2> QED BY <2>7 DEF c, e
<1> QED BY <1>16, <1>17 DEF BecomesChain

(* What is left without the node at one end is a chain, when the end       *)
(* pointers follow it.                                                     *)
LEMMA ShorterChain ==
  ASSUME NEW s, Chain(s), s # <<>>,
         NEW z \in Seq(Nodes), Len(z) = Len(s) - 1,
         NEW k \in {0, 1}, \A i \in 1 .. Len(z) : z[i] = s[i + k],
         NEW x, x = IF k = 1 THEN s[1] ELSE s[Len(s)],
         alloc' = alloc \ {x}, dwNumNodes' = dwNumNodes - 1, ps_next' = ps_next,
         z = <<>> => psHead' = NULL /\ psTail' = NULL,
         z # <<>> => /\ psHead' = z[1] /\ psTail' = z[Len(z)]
                     /\ repair' \/ ps_next[z[Len(z)]] = NULL
  PROVE  Chain(z)'
<1> DEFINE N == Len(s)
           M == Len(z)
           r == IF k = 1 THEN 1 ELSE N
<1>1. N \in Nat /\ N >= 1 /\ M = N - 1 /\ \A i \in 1 .. M : z[i] = s[i + k]
  BY ChainFacts
<1>2. /\ dwNumNodes = N /\ alloc = {s[i] : i \in 1 .. N}
      /\ IsFiniteSet(alloc) /\ Cardinality(alloc) = N
      /\ \A i, j \in 1 .. N : s[i] = s[j] => i = j
      /\ \A i \in 1 .. N - 1 : ps_next[s[i]] = s[i + 1]
  BY DEF Chain
<1> HIDE DEF N, M
<1>3. r \in 1 .. N /\ x = s[r]
  BY <1>1 DEF N
<1>4. \A i \in 1 .. M : i + k \in 1 .. N /\ i + k # r
  BY <1>1
<1>5. \A i \in 1 .. N : i # r => i - k \in 1 .. M /\ i = (i - k) + k
  BY <1>1
<1>6. alloc' = {z[i] : i \in 1 .. M}
  <2>1. ASSUME NEW y \in alloc \ {x} PROVE \E i \in 1 .. M : y = z[i]
    <3>1. PICK i \in 1 .. N : y = s[i]
      BY <1>2
    <3>2. i # r
      BY <1>3, <3>1
    <3>3. i - k \in 1 .. M /\ s[(i - k) + k] = y
      BY <1>5, <3>1, <3>2
    <3> QED BY <1>1, <3>3
  <2>2. ASSUME NEW i \in 1 .. M PROVE z[i] \in alloc \ {x}
    <3>1. i + k \in 1 .. N /\ i + k # r /\ z[i] = s[i + k]
      BY <1>1, <1>4
    <3>2. s[i + k] \in alloc /\ s[i + k] # s[r]
      <4> HIDE DEF r
      <4> QED BY <1>2, <1>3, <3>1
    <3> QED BY <1>3, <3>1, <3>2
  <2> QED BY <2>1, <2>2
<1>7. IsFiniteSet(alloc') /\ Cardinality(alloc') = M
  <2>1. x \in alloc
    BY <1>2, <1>3
  <2>2. IsFiniteSet(alloc \ {x}) /\ Cardinality(alloc \ {x}) = Cardinality(alloc) - 1
    BY <1>2, <2>1, FS_RemoveElement
  <2> QED BY <1>1, <1>2, <2>2
<1>8. \A i, j \in 1 .. M : z[i] = z[j] => i = j
  <2> SUFFICES ASSUME NEW i \in 1 .. M, NEW j \in 1 .. M, z[i] = z[j]
               PROVE  i = j
    OBVIOUS
  <2>1. i + k \in 1 .. N /\ j + k \in 1 .. N /\ s[i + k] = s[j + k]
    BY <1>1, <1>4
  <2>2. i + k = j + k
    BY <1>2, <2>1
  <2> QED BY <1>1, <2>2
<1>9. ASSUME NEW i \in 1 .. M - 1 PROVE ps_next'[z[i]] = z[i + 1]
  <2>1. /\ i \in 1 .. M /\ i + 1 \in 1 .. M
        /\ i + k \in 1 .. N - 1 /\ (i + k) + 1 = (i + 1) + k
    BY <1>1
  <2>2. z[i] = s[i + k] /\ z[i + 1] = s[(i + 1) + k]
    BY <1>1, <2>1
  <2>3. ps_next[s[i + k]] = s[(i + k) + 1]
    BY <1>2, <2>1
  <2> QED BY <2>1, <2>2, <2>3
<1>10. z # <<>> => /\ psHead' = z[1] /\ psTail' = z[M]
                   /\ repair' \/ ps_next'[z[M]] = NULL
  BY DEF M
<1>11. dwNumNodes' = M
  BY <1>1, <1>2
<1> QED BY <1>6, <1>7, <1>8, <1>9, <1>10, <1>11 DEF M, Chain

(* The ends of a chain that is not under repair, as the code finds them.   *)
LEMMA Ends ==
  ASSUME TypeOK, NEW s, Chain(s), s # <<>>, ~repair
  PROVE  /\ psHead = s[1] /\ psTail = s[Len(s)] /\ ps_next[s[Len(s)]] = NULL
         /\ ps_next[psHead] = NULL <=> Len(s) = 1
         /\ LastIndex = Len(s)
         /\ \A i \in 1 .. Len(s) : NodeAt[i] = s[i]
<1> DEFINE N == Len(s)
<1>1. /\ N \in Nat /\ N >= 1
      /\ \A i \in 1 .. N : s[i] \in Nodes
  BY ChainFacts
<1>2. /\ psHead = s[1] /\ psTail = s[N] /\ ps_next[s[N]] = NULL
      /\ Cardinality(alloc) = N
      /\ \A i \in 1 .. N - 1 : ps_next[s[i]] = s[i + 1]
  BY DEF Chain
<1>3. \A i \in 1 .. N : NodeAt[i] = s[i]
  BY Visited DEF ChainVisited, NodesAlong
<1> HIDE DEF N
<1>4. ASSUME NEW i \in 1 .. N - 1 PROVE ps_next[s[i]] # NULL
  <2>1. i + 1 \in 1 .. N
    BY <1>1
  <2> QED BY <1>1, <1>2, <2>1, NullAssumption
<1>5. ps_next[psHead] = NULL <=> N = 1
  <2>1. CASE N = 1
    BY <1>2, <2>1
  <2>2. CASE N # 1
    <3>1. 1 \in 1 .. N - 1
      BY <1>1, <2>2
    <3> QED BY <1>2, <1>4, <2>2, <3>1
  <2> QED BY <2>1, <2>2
<1>6. LastIndex = N
  <2> DEFINE Stops(i) == /\ ps_next[NodeAt[i]] = NULL
                         /\ \A j \in 1 .. (i - 1) : ps_next[NodeAt[j]] # NULL
  <2>1. N \in 1 .. N /\ Stops(N)
    <3>1. N \in 1 .. N /\ \A j \in 1 .. N - 1 : j \in 1 .. N
      BY <1>1
    <3> QED BY <1>2, <1>3, <1>4, <3>1
  <2>2. \A i \in 1 .. N : Stops(i) => i = N
    <3> SUFFICES ASSUME NEW i \in 1 .. N, i # N PROVE ps_next[NodeAt[i]] # NULL
      OBVIOUS
    <3>1. i \in 1 .. N - 1
      BY <1>1
    <3> QED BY <1>3, <1>4, <3>1
  <2>3. LastIndex = CHOOSE i \in 1 .. N : Stops(i)
    BY <1>2 DEF LastIndex
  <2> HIDE DEF Stops
  <2> QED BY <2>1, <2>2, <2>3
<1> QED BY <1>2, <1>3, <1>5, <1>6 DEF N

LEMMA RemoveHeadChain ==
  ASSUME TypeOK, NEW s, Chain(s), RemoveHead
  PROVE  /\ Contents(s) # <<>> /\ removed' = Head(Contents(s))
         /\ \E z : BecomesChain(z, Tail(Contents(s)))
<1> DEFINE z == Tail(s)
           N == Len(s)
<1>1. /\ ~repair /\ psHead # NULL
      /\ removed' = pvData[psHead]
      /\ psHead' = ps_next[psHead]
      /\ psTail' = IF ps_next[psHead] = NULL THEN NULL ELSE psTail
      /\ alloc' = alloc \ {psHead} /\ dwNumNodes' = dwNumNodes - 1
      /\ ps_next' = ps_next /\ pvData' = pvData
  BY DEF RemoveHead, Free
<1>2. /\ s \in Seq(Nodes) /\ N \in Nat /\ s # <<>> /\ N >= 1
  BY <1>1, ChainFacts
<1>3. /\ psHead = s[1] /\ psTail = s[N] /\ ps_next[s[N]] = NULL
      /\ ps_next[psHead] = NULL <=> N = 1
  BY <1>1, <1>2, Ends
<1>4. z \in Seq(Nodes) /\ Len(z) = N - 1 /\ \A i \in 1 .. Len(z) : z[i] = s[i + 1]
  BY <1>2, HeadTailProperties
<1>5. \A i \in 1 .. N - 1 : ps_next[s[i]] = s[i + 1]
  BY DEF Chain
<1> HIDE DEF z, N
<1>6. z = <<>> => psHead' = NULL /\ psTail' = NULL
  <2>1. z = <<>> => N = 1
    BY <1>2, <1>4
  <2> QED BY <1>1, <1>3, <2>1
<1>7. z # <<>> => /\ psHead' = z[1] /\ psTail' = z[Len(z)]
                  /\ ps_next[z[Len(z)]] = NULL
  <2> SUFFICES ASSUME z # <<>>
               PROVE  psHead' = z[1] /\ psTail' = z[Len(z)] /\ ps_next[z[Len(z)]] = NULL
    OBVIOUS
  <2>1. /\ Len(z) \in 1 .. Len(z) /\ 1 \in 1 .. Len(z) /\ N # 1
        /\ 1 \in 1 .. N - 1 /\ Len(z) + 1 = N
    BY <1>2, <1>4
  <2>2. z[1] = s[1 + 1] /\ z[Len(z)] = s[N]
    BY <1>4, <2>1
  <2>3. ps_next[s[1]] = s[1 + 1]
    BY <1>5, <2>1
  <2> QED BY <1>1, <1>3, <2>1, <2>2, <2>3
<1>8. Chain(z)'
  <2>1. 1 \in {0, 1} /\ psHead = IF 1 = 1 THEN s[1] ELSE s[Len(s)]
    BY <1>3
  <2> QED BY <1>1, <1>2, <1>4, <1>6, <1>7, <2>1, ShorterChain DEF N
<1> DEFINE c == Contents(s)
<1>9. /\ c \in Seq(Data \cup {NULL}) /\ Len(c) = N
      /\ \A i \in 1 .. N : c[i] = pvData[s[i]]
  BY ContentsTyped DEF N
<1> HIDE DEF c
<1>10. c # <<>> /\ Head(c) = c[1] /\ 1 \in 1 .. N
  BY <1>2, <1>9
<1>11. Contents(z)' = Tail(c)
  <2> DEFINE e == Tail(c)
  <2>1. e \in Seq(Data \cup {NULL}) /\ Len(e) = N - 1 /\ \A i \in 1 .. Len(e) : e[i] = c[i + 1]
    BY <1>9, <1>10, HeadTailProperties
  <2> HIDE DEF e
  <2>2. \A i \in 1 .. Len(z) : i + 1 \in 1 .. N
    BY <1>2, <1>4
  <2>3. \A i \in 1 .. Len(z) : e[i] = pvData'[z[i]]
    BY <1>1, <1>4, <1>9, <2>1, <2>2
  <2>4. Contents(z)' = e
    BY <1>4, <2>1, <2>3, NextContents
  <2> QED BY <2>4 DEF e
<1> QED BY <1>1, <1>3, <1>8, <1>9, <1>10, <1>11 DEF BecomesChain, c

LEMMA RemoveOnlyTailChain ==
  ASSUME TypeOK, NEW s, Chain(s), RemoveOnlyTail
  PROVE  /\ Contents(s) # <<>> /\ removed' = Contents(s)[Len(Contents(s))]
         /\ \E z : BecomesChain(z, SubSeq(Contents(s), 1, Len(Contents(s)) - 1))
<1>1. /\ ~repair /\ psTail # NULL /\ ps_next[psHead] = NULL
      /\ removed' = pvData[psHead]
      /\ psHead' = NULL /\ psTail' = NULL
      /\ alloc' = alloc \ {psHead} /\ dwNumNodes' = dwNumNodes - 1
      /\ ps_next' = ps_next /\ pvData' = pvData
  BY DEF RemoveOnlyTail, Free
<1>2. s # <<>>
  BY <1>1, ChainFacts
<1>3. psHead = s[1] /\ Len(s) = 1
  BY <1>1, <1>2, Ends
<1>4. <<>> \in Seq(Nodes) /\ Len(<<>>) = 0 /\ \A i \in 1 .. Len(<<>>) : FALSE
  BY EmptySeq
<1>5. Chain(<<>>)'
  <2> DEFINE z == <<>>
  <2>1. /\ z \in Seq(Nodes) /\ Len(z) = Len(s) - 1 /\ z = <<>>
        /\ \A i \in 1 .. Len(z) : z[i] = s[i + 1]
    BY <1>3, <1>4
  <2> HIDE DEF z
  <2>2. 1 \in {0, 1} /\ psHead = IF 1 = 1 THEN s[1] ELSE s[Len(s)]
    BY <1>3
  <2>3. Chain(z)'
    BY <1>1, <1>2, <2>1, <2>2, ShorterChain
  <2> QED BY <2>3 DEF z
<1> DEFINE c == Contents(s)
<1>6. /\ c \in Seq(Data \cup {NULL}) /\ Len(c) = 1
      /\ \A i \in 1 .. 1 : c[i] = pvData[s[i]]
  BY <1>3, ContentsTyped
<1> HIDE DEF c
<1>7. c # <<>> /\ c[Len(c)] = pvData[s[1]] /\ SubSeq(c, 1, Len(c) - 1) = <<>>
  <2>1. SubSeq(c, 1, 0) = <<>>
    BY SubSeqEmpty
  <2>2. Len(c) - 1 = 0 /\ c # <<>>
    <3>1. Len(c) = 1 /\ Len(<<>>) = 0
      BY <1>6
    <3> QED BY <3>1
  <2>3. Len(c) \in 1 .. 1 /\ Len(c) = 1
    BY <1>6
  <2>4. c[Len(c)] = pvData[s[1]]
    BY <1>6, <2>3
  <2> QED BY <2>1, <2>2, <2>4
<1>8. Contents(<<>>)' = <<>>
  <2> DEFINE z == <<>>
             e == <<>>
  <2>1. /\ e \in Seq(Data \cup {NULL}) /\ Len(e) = Len(z)
        /\ \A i \in 1 .. Len(z) : e[i] = pvData'[z[i]]
    BY <1>4, EmptySeq
  <2> HIDE DEF z, e
  <2>2. Contents(z)' = e
    BY <2>1, NextContents
  <2> QED BY <2>2 DEF z, e
<1> QED BY <1>1, <1>3, <1>5, <1>7, <1>8 DEF BecomesChain, c

LEMMA RemoveTailChain ==
  ASSUME TypeOK, NEW s, Chain(s), RemoveTail
  PROVE  /\ Contents(s) # <<>> /\ removed' = Contents(s)[Len(Contents(s))]
         /\ \E z : BecomesChain(z, SubSeq(Contents(s), 1, Len(Contents(s)) - 1))
<1> DEFINE N == Len(s)
           z == SubSeq(s, 1, N - 1)
<1>1. /\ ~repair /\ psTail # NULL /\ ps_next[psHead] # NULL
      /\ removed' = pvData[NodeAt[LastIndex]]
      /\ psTail' = NodeAt[LastIndex - 1]
      /\ alloc' = alloc \ {NodeAt[LastIndex]} /\ dwNumNodes' = dwNumNodes - 1
      /\ repair' = TRUE
      /\ psHead' = psHead /\ ps_next' = ps_next /\ pvData' = pvData
  BY DEF RemoveTail, Free
<1>2. /\ N \in Nat /\ s # <<>> /\ N >= 1
      /\ \A i \in 1 .. N : s[i] \in Nodes
  BY <1>1, ChainFacts
<1>3. /\ psHead = s[1] /\ N # 1 /\ LastIndex = N
      /\ \A i \in 1 .. N : NodeAt[i] = s[i]
  BY <1>1, <1>2, Ends
<1> HIDE DEF N
<1>4. /\ N \in 1 .. N /\ N - 1 \in 1 .. N /\ 1 \in 1 .. N - 1 /\ 1 <= N - 1
      /\ (N - 1) - 1 + 1 = N - 1
      /\ N - 1 \in Int /\ \A i \in 1 .. N - 1 : i \in 1 .. N /\ 1 + i - 1 = i
  BY <1>2, <1>3
<1>5. z \in Seq(Nodes) /\ Len(z) = N - 1 /\ \A i \in 1 .. N - 1 : z[i] = s[i]
  <2>1. \A i \in 1 .. N - 1 : s[i] \in Nodes
    BY <1>2, <1>4
  <2>2. /\ z \in Seq(Nodes)
        /\ Len(z) = IF 1 <= N - 1 THEN (N - 1) - 1 + 1 ELSE 0
        /\ \A i \in 1 .. (N - 1) - 1 + 1 : z[i] = s[1 + i - 1]
    BY <1>4, <2>1, SubSeqProperties
  <2> QED BY <1>4, <2>2
<1>6. psTail' = s[N - 1] /\ alloc' = alloc \ {s[N]} /\ removed' = pvData[s[N]]
  BY <1>1, <1>3, <1>4
<1> HIDE DEF z
<1>7. Chain(z)'
  <2>1. 0 \in {0, 1} /\ s[N] = IF 0 = 1 THEN s[1] ELSE s[N]
    OBVIOUS
  <2>2. \A i \in 1 .. Len(z) : z[i] = s[i + 0]
    BY <1>2, <1>5
  <2>3. /\ z # <<>>
        /\ psHead' = z[1] /\ psTail' = z[Len(z)] /\ repair'
    <3>1. Len(<<>>) = 0 /\ Len(z) # 0 /\ Len(z) \in 1 .. N - 1
      BY <1>4, <1>5
    <3> QED BY <1>1, <1>3, <1>4, <1>5, <1>6, <3>1
  <2> QED BY <1>1, <1>2, <1>5, <1>6, <2>1, <2>2, <2>3, ShorterChain DEF N
<1> DEFINE c == Contents(s)
<1>8. /\ c \in Seq(Data \cup {NULL}) /\ Len(c) = N
      /\ \A i \in 1 .. N : c[i] = pvData[s[i]] /\ c[i] \in Data \cup {NULL}
  BY ContentsTyped DEF N
<1> HIDE DEF c
<1>9. c # <<>> /\ c[Len(c)] = pvData[s[N]]
  <2>1. Len(<<>>) = 0 /\ Len(c) # 0
    BY <1>2, <1>8
  <2> QED BY <1>4, <1>8, <2>1
<1>10. Contents(z)' = SubSeq(c, 1, N - 1)
  <2> DEFINE e == SubSeq(c, 1, N - 1)
  <2>1. \A i \in 1 .. N - 1 : c[i] \in Data \cup {NULL}
    BY <1>4, <1>8
  <2>2. /\ e \in Seq(Data \cup {NULL})
        /\ Len(e) = IF 1 <= N - 1 THEN (N - 1) - 1 + 1 ELSE 0
        /\ \A i \in 1 .. (N - 1) - 1 + 1 : e[i] = c[1 + i - 1]
    BY <1>4, <2>1, SubSeqProperties
  <2> HIDE DEF e
  <2>3. Len(e) = Len(z) /\ \A i \in 1 .. Len(z) : e[i] = pvData'[z[i]]
    BY <1>1, <1>4, <1>5, <1>8, <2>2
  <2>4. Contents(z)' = e
    BY <2>2, <2>3, NextContents
  <2> QED BY <2>4 DEF e
<1> QED BY <1>6, <1>7, <1>8, <1>9, <1>10 DEF BecomesChain, c

LEMMA FlushChain ==
  ASSUME TypeOK, NEW s, Chain(s), Flush
  PROVE  \E z : BecomesChain(z, <<>>)
<1>1. /\ ~repair /\ psHead' = NULL /\ psTail' = NULL /\ dwNumNodes' = 0
      /\ alloc' = IF psHead = NULL THEN alloc ELSE alloc \ {NodeAt[i] : i \in 1 .. LastIndex}
  BY DEF Flush
<1>2. alloc = {s[i] : i \in 1 .. Len(s)}
  BY DEF Chain
<1>3. alloc' = {}
  <2>1. CASE s = <<>>
    <3>1. psHead = NULL /\ Len(s) = 0
      BY <2>1, ChainFacts
    <3> QED BY <1>1, <1>2, <3>1
  <2>2. CASE s # <<>>
    <3>1. psHead # NULL
      BY <2>2, ChainFacts
    <3>2. LastIndex = Len(s) /\ \A i \in 1 .. Len(s) : NodeAt[i] = s[i]
      BY <1>1, <2>2, Ends
    <3> QED BY <1>1, <1>2, <3>1, <3>2
  <2> QED BY <2>1, <2>2
<1>4. <<>> \in Seq(Nodes) /\ Len(<<>>) = 0 /\ 1 .. Len(<<>>) = {} /\ 1 .. Len(<<>>) - 1 = {}
  OBVIOUS
<1>5. IsFiniteSet({}) /\ Cardinality({}) = 0
  BY FS_EmptySet
<1>6. Chain(<<>>)'
  BY <1>1, <1>3, <1>4, <1>5 DEF Chain
<1>7. Contents(<<>>)' = <<>>
  BY <1>4 DEF Contents
<1> QED BY <1>6, <1>7 DEF BecomesChain

LEMMA RemoveFromEmptyChain ==
  ASSUME TypeOK, NEW s, Chain(s), RemoveFromEmpty
  PROVE  Contents(s) = <<>> /\ BecomesChain(s, Contents(s))
<1>1. s = <<>>
  BY ChainFacts DEF RemoveFromEmpty
<1>2. Contents(s) = <<>>
  BY <1>1 DEF Contents
<1>3. Chain(s)' /\ Contents(s)' = Contents(s)
  BY DEF Chain, Contents, RemoveFromEmpty
<1> QED BY <1>2, <1>3 DEF BecomesChain

-----------------------------------------------------------------------------
(* The inductive invariant: some sequence of nodes is the chain.           *)

Inv == TypeOK /\ \E s : Chain(s)

(* What an operation of Deque does to its items and to out. *)
DequeStep(c, c2) ==
  \/ \E d \in Data : (c2 = Append(c, d) \/ c2 = <<d>> \o c) /\ removed' = removed
  \/ c # <<>> /\ removed' = Head(c) /\ c2 = Tail(c)
  \/ c # <<>> /\ removed' = c[Len(c)] /\ c2 = SubSeq(c, 1, Len(c) - 1)
  \/ c = <<>> /\ removed' = NULL /\ c2 = c
  \/ c2 = <<>> /\ removed' = removed

LEMMA StepEffect ==
  ASSUME TypeOK, NEW s, Chain(s), Next
  PROVE  \E z : Chain(z)' /\ DequeStep(Contents(s), Contents(z)')
<1> USE DEF BecomesChain
<1>1. ASSUME NEW d \in Data, InsertTail(d)
      PROVE  \E z : Chain(z)' /\ DequeStep(Contents(s), Contents(z)')
  BY <1>1, InsertTailChain DEF DequeStep, InsertTail
<1>2. ASSUME NEW d \in Data, InsertHead(d)
      PROVE  \E z : Chain(z)' /\ DequeStep(Contents(s), Contents(z)')
  BY <1>2, InsertHeadChain DEF DequeStep, InsertHead
<1>3. CASE RemoveFromEmpty
  BY <1>3, RemoveFromEmptyChain DEF DequeStep, RemoveFromEmpty
<1>4. CASE RemoveHead
  BY <1>4, RemoveHeadChain DEF DequeStep
<1>5. CASE RemoveOnlyTail
  BY <1>5, RemoveOnlyTailChain DEF DequeStep
<1>6. CASE RemoveTail
  BY <1>6, RemoveTailChain DEF DequeStep
<1>7. CASE Flush
  BY <1>7, FlushChain DEF DequeStep, Flush
<1> QED BY <1>1, <1>2, <1>3, <1>4, <1>5, <1>6, <1>7 DEF Next

(* The pointers and the count of a chain are in their types. *)
ChainTyped ==
  \A s : Chain(s) => /\ psHead \in Nodes \cup {NULL} /\ psTail \in Nodes \cup {NULL}
                    /\ dwNumNodes \in Nat /\ alloc \subseteq Nodes

LEMMA PointersTyped == ChainTyped
<1> SUFFICES ASSUME NEW s, Chain(s)
             PROVE  /\ psHead \in Nodes \cup {NULL} /\ psTail \in Nodes \cup {NULL}
                    /\ dwNumNodes \in Nat /\ alloc \subseteq Nodes
  BY DEF ChainTyped
<1>1. /\ Len(s) \in Nat /\ \A i \in 1 .. Len(s) : s[i] \in Nodes
      /\ s # <<>> => 1 \in 1 .. Len(s) /\ Len(s) \in 1 .. Len(s)
  BY ChainFacts
<1> QED BY <1>1 DEF Chain

(* Reading the list as Abstract does gives the data along the chain. *)
Items == [i \in 1 .. dwNumNodes |-> pvData[NodeAt[i]]]

ItemsRead == \A s : Chain(s) => Items = Contents(s)

LEMMA ItemsAreContents == ItemsRead
<1> SUFFICES ASSUME NEW s, Chain(s) PROVE Items = Contents(s)
  BY DEF ItemsRead
<1>1. dwNumNodes = Len(s) /\ \A i \in 1 .. Len(s) : NodeAt[i] = s[i]
  BY Visited DEF Chain, ChainVisited, NodesAlong
<1> QED BY <1>1 DEF Items, Contents

LEMMA InitChain == Init => TypeOK /\ Chain(<<>>)
<1> SUFFICES ASSUME Init PROVE TypeOK /\ Chain(<<>>)
  OBVIOUS
<1>1. <<>> \in Seq(Nodes) /\ Len(<<>>) = 0 /\ 1 .. Len(<<>>) = {} /\ 1 .. Len(<<>>) - 1 = {}
  OBVIOUS
<1>2. IsFiniteSet({}) /\ Cardinality({}) = 0
  BY FS_EmptySet
<1>3. Chain(<<>>)
  BY <1>1, <1>2 DEF Init, Chain
<1>4. TypeOK
  BY DEF Init, TypeOK
<1> QED BY <1>3, <1>4

(* The fields an operation writes in the heap, and what it hands out.      *)
LEMMA StepFields ==
  ASSUME TypeOK, NEW s, Chain(s), Next
  PROVE  /\ ps_next' \in [Nodes -> Nodes \cup {NULL}]
         /\ pvData' \in [Nodes -> Data \cup {NULL}]
         /\ removed' \in Data \cup {NULL}
         /\ repair' \in BOOLEAN
<1> USE DEF TypeOK
<1>1. ASSUME NEW d \in Data, InsertTail(d)
      PROVE  /\ ps_next' \in [Nodes -> Nodes \cup {NULL}]
             /\ pvData' \in [Nodes -> Data \cup {NULL}]
             /\ removed' = removed /\ repair' \in BOOLEAN
  <2>1. PICK n \in Nodes :
          /\ pvData' = [pvData EXCEPT ![n] = d]
          /\ \/ ps_next' = [ps_next EXCEPT ![n] = NULL]
             \/ ps_next' = [ps_next EXCEPT ![n] = NULL, ![psTail] = n]
    BY <1>1 DEF InsertTail
  <2>2. repair' = FALSE /\ removed' = removed
    BY <1>1 DEF InsertTail
  <2> QED BY <2>1, <2>2
<1>2. ASSUME NEW d \in Data, InsertHead(d)
      PROVE  /\ ps_next' \in [Nodes -> Nodes \cup {NULL}]
             /\ pvData' \in [Nodes -> Data \cup {NULL}]
             /\ removed' = removed /\ repair' \in BOOLEAN
  BY <1>2 DEF InsertHead
<1>3. CASE RemoveFromEmpty
  BY <1>3 DEF RemoveFromEmpty
<1>4. CASE RemoveHead
  BY <1>4 DEF RemoveHead
<1>5. CASE RemoveOnlyTail
  <2>1. psHead # NULL
    BY <1>5, ChainFacts DEF RemoveOnlyTail
  <2> QED BY <1>5, <2>1 DEF RemoveOnlyTail
<1>6. CASE RemoveTail
  <2>1. s # <<>> /\ Len(s) \in 1 .. Len(s) /\ s[Len(s)] \in Nodes
    BY <1>6, ChainFacts DEF RemoveTail
  <2>2. NodeAt[LastIndex] = s[Len(s)]
    BY <1>6, <2>1, Ends DEF RemoveTail
  <2> QED BY <1>6, <2>1, <2>2 DEF RemoveTail
<1>7. CASE Flush
  BY <1>7 DEF Flush
<1> QED BY <1>1, <1>2, <1>3, <1>4, <1>5, <1>6, <1>7 DEF Next

LEMMA StepInv == Inv /\ ChainTyped' /\ [Next]_vars => Inv'
<1> SUFFICES ASSUME Inv, ChainTyped', [Next]_vars PROVE Inv'
  OBVIOUS
<1>1. PICK s : Chain(s)
  BY DEF Inv
<1>2. CASE UNCHANGED vars
  <2>1. Chain(s)' /\ TypeOK'
    BY <1>1, <1>2 DEF vars, Chain, Inv, TypeOK
  <2> QED BY <2>1 DEF Inv
<1>3. CASE Next
  <2>1. PICK z : Chain(z)'
    BY <1>1, <1>3, StepEffect DEF Inv
  <2>2. /\ psHead' \in Nodes \cup {NULL} /\ psTail' \in Nodes \cup {NULL}
        /\ dwNumNodes' \in Nat /\ alloc' \subseteq Nodes
    BY <2>1 DEF ChainTyped
  <2>3. TypeOK'
    BY <1>1, <1>3, <2>2, StepFields DEF Inv, TypeOK
  <2> QED BY <2>1, <2>3 DEF Inv
<1> QED BY <1>2, <1>3

LEMMA Invariance == Spec => []Inv
<1>1. Init => Inv
  BY InitChain DEF Inv
<1> QED BY <1>1, StepInv, PointersTyped, PTL DEF Spec

-----------------------------------------------------------------------------
(* Every field keeps its type, and the node count never goes below zero,   *)
(* whatever the lists are used for.                                        *)
THEOREM TypeCorrect == Spec => []TypeOK
<1>1. Inv => TypeOK
  BY DEF Inv
<1> QED BY <1>1, Invariance, PTL

(* Head, links, count and tail of phOsal_LinkList.c agree after every      *)
(* operation: the nodes the links lead to are the allocated ones, each     *)
(* once, the tail is the last of them and ends the links, but for the      *)
(* moment between the tail removal and the insertion of an overwrite.      *)
THEOREM ChainIsSound == Spec => []ChainSound
<1>1. Inv => ChainSound
  <2> SUFFICES ASSUME Inv PROVE ChainSound
    OBVIOUS
  <2>1. PICK s : Chain(s)
    BY DEF Inv
  <2>2. /\ dwNumNodes = Len(s) /\ Len(s) \in Nat
        /\ psHead = NULL <=> s = <<>>
        /\ psTail = NULL <=> s = <<>>
        /\ Cardinality(alloc) = Len(s)
        /\ s = <<>> <=> Len(s) = 0
    <3>1. /\ Len(s) \in Nat /\ (s # <<>> => Len(s) >= 1)
          /\ psHead = NULL <=> s = <<>>
          /\ psTail = NULL <=> s = <<>>
      BY <2>1, ChainFacts
    <3>2. dwNumNodes = Len(s) /\ Cardinality(alloc) = Len(s)
      BY <2>1 DEF Chain
    <3> QED BY <3>1, <3>2
  <2>3. \A i \in 1 .. Len(s) : NodeAt[i] = s[i]
    BY <2>1, Visited DEF ChainVisited, NodesAlong
  <2>4. ASSUME dwNumNodes > 0
        PROVE  /\ alloc = {NodeAt[i] : i \in 1 .. dwNumNodes}
               /\ psTail = NodeAt[dwNumNodes]
               /\ repair \/ ps_next[psTail] = NULL
    <3>1. /\ s # <<>> /\ Len(s) \in 1 .. Len(s)
          /\ alloc = {s[i] : i \in 1 .. Len(s)} /\ psTail = s[Len(s)]
          /\ repair \/ ps_next[s[Len(s)]] = NULL
      BY <2>1, <2>2, <2>4 DEF Chain
    <3>2. alloc = {NodeAt[i] : i \in 1 .. Len(s)}
      BY <2>3, <3>1
    <3> QED BY <2>2, <2>3, <3>1, <3>2
  <2> QED BY <2>2, <2>4 DEF ChainSound
<1> QED BY <1>1, Invariance, PTL

(* The linked list implements the ordered collection its header promises:  *)
(* every insertion and removal acts at the end it names, and a removal     *)
(* hands out the data that left.                                           *)
THEOREM ListIsDeque == Spec => DequeSpec
<1>1. Init => Abstract!Init
  <2> SUFFICES ASSUME Init PROVE Abstract!Init
    OBVIOUS
  <2>1. dwNumNodes = 0 /\ removed = NULL
    BY DEF Init
  <2>2. [i \in 1 .. dwNumNodes |-> pvData[NodeAt[i]]] = <<>>
    BY <2>1
  <2> QED BY <2>1, <2>2 DEF Abstract!Init
<1>2. Inv /\ ItemsRead /\ ItemsRead' /\ [Next]_vars => [Abstract!Next]_(Abstract!vars)
  <2> SUFFICES ASSUME Inv, ItemsRead, ItemsRead', [Next]_vars
               PROVE  [Abstract!Next]_(Abstract!vars)
    OBVIOUS
  <2>1. PICK s : Chain(s)
    BY DEF Inv
  <2>2. CASE UNCHANGED vars
    <3>1. Items' = Items /\ removed' = removed
      <4>1. Chain(s)' /\ Contents(s)' = Contents(s)
        BY <2>1, <2>2 DEF vars, Chain, Contents
      <4> QED BY <2>1, <2>2, <4>1 DEF ItemsRead, vars
    <3> QED BY <3>1 DEF Items, Abstract!vars
  <2>3. CASE Next
    <3>1. PICK z : Chain(z)' /\ DequeStep(Contents(s), Contents(z)')
      BY <2>1, <2>3, StepEffect DEF Inv
    <3>2. Items = Contents(s) /\ Items' = Contents(z)'
      BY <2>1, <3>1 DEF ItemsRead
    <3>3. DequeStep(Items, Items')
      BY <3>1, <3>2
    <3>4. Abstract!Next
      BY <3>3 DEF DequeStep, Items, Abstract!Next, Abstract!PutTail, Abstract!PutHead,
                  Abstract!TakeHead, Abstract!TakeTail, Abstract!TakeNothing, Abstract!Clear
    <3> QED BY <3>4
  <2> QED BY <2>2, <2>3
<1> QED
  BY <1>1, <1>2, Invariance, ItemsAreContents, PTL DEF Spec, DequeSpec, Abstract!Spec

=============================================================================
