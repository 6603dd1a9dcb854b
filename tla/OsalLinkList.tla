---------------------------- MODULE OsalLinkList ----------------------------
(***************************************************************************)
(* phOsal_LinkList.c: a singly linked list with a head and a tail pointer, *)
(* as nodes in a heap.  Removing the tail of a list of several nodes moves *)
(* psTail back but leaves the ps_next of the new last node pointing at the *)
(* freed node, until an insertion at the tail overwrites that field.  The  *)
(* one caller that removes at the tail, phOsal_QueuePush, inserts at the   *)
(* tail next, under the same lock: `repair' is set between those two calls *)
(* and the other operations are only called when it is not.                *)
(*                                                                         *)
(* Allocation of a node is taken to succeed: the code does not test it.    *)
(***************************************************************************)
EXTENDS Naturals, Sequences, FiniteSets

CONSTANTS
  Nodes,   \* heap addresses a list node may get
  Data,    \* data pointers
  NULL

ASSUME NullAssumption == NULL \notin Nodes /\ NULL \notin Data

VARIABLES
  psHead, psTail, dwNumNodes,   \* phOsal_ListCtxt_t
  ps_next, pvData,              \* the fields of every node
  alloc,                        \* nodes allocated and not yet freed
  removed,                      \* *ppvData after the last removal
  repair                        \* a tail removal is not yet followed by an insertion

vars == <<psHead, psTail, dwNumNodes, ps_next, pvData, alloc, removed, repair>>

(* phOsal_ListCreate *)
Init ==
  /\ psHead = NULL /\ psTail = NULL /\ dwNumNodes = 0
  /\ ps_next \in [Nodes -> {NULL}]
  /\ pvData \in [Nodes -> {NULL}]
  /\ alloc = {}
  /\ removed = NULL
  /\ repair = FALSE

-----------------------------------------------------------------------------
(* The node reached from the head after i - 1 links, as far as allocated   *)
(* nodes can lead.                                                         *)
NodeAt[i \in 1..Cardinality(alloc)] ==
  IF i = 1 THEN psHead ELSE ps_next[NodeAt[i - 1]]

(* Where the traversal for ps_next = NULL stops. *)
LastIndex ==
  CHOOSE i \in 1..Cardinality(alloc) :
    /\ ps_next[NodeAt[i]] = NULL
    /\ \A j \in 1..(i - 1) : ps_next[NodeAt[j]] # NULL

(* Mutant of Free: the count is decremented twice. *)
FreeCountsTwice(n) == alloc' = alloc \ {n} /\ dwNumNodes' = dwNumNodes - 2

Free(n) == alloc' = alloc \ {n} /\ dwNumNodes' = dwNumNodes - 1

(* phOsal_ListInsertNode, PHOSAL_LIST_POS_TAIL *)
InsertTail(d) ==
  \E n \in Nodes \ alloc :
    /\ alloc' = alloc \cup {n}
    /\ pvData' = [pvData EXCEPT ![n] = d]
    /\ psTail' = n
    /\ IF psTail = NULL
       THEN psHead' = n /\ ps_next' = [ps_next EXCEPT ![n] = NULL]
       ELSE psHead' = psHead /\ ps_next' = [ps_next EXCEPT ![n] = NULL, ![psTail] = n]
    /\ dwNumNodes' = dwNumNodes + 1
    /\ repair' = FALSE
    /\ UNCHANGED removed

(* phOsal_ListInsertNode, PHOSAL_LIST_POS_HEAD *)
InsertHead(d) ==
  /\ ~repair
  /\ \E n \in Nodes \ alloc :
       /\ alloc' = alloc \cup {n}
       /\ pvData' = [pvData EXCEPT ![n] = d]
       /\ psHead' = n
       /\ ps_next' = [ps_next EXCEPT ![n] = psHead]
       /\ psTail' = IF psHead = NULL THEN n ELSE psTail
  /\ dwNumNodes' = dwNumNodes + 1
  /\ UNCHANGED <<removed, repair>>

(* phOsal_ListRemoveNode on an empty list, either end: *ppvData = NULL. *)
RemoveFromEmpty ==
  /\ psHead = NULL
  /\ removed' = NULL
  /\ UNCHANGED <<psHead, psTail, dwNumNodes, ps_next, pvData, alloc, repair>>

(* Mutant of RemoveHead: psTail is kept when the last node goes. *)
RemoveHeadKeepsTail ==
  /\ ~repair
  /\ psHead # NULL
  /\ removed' = pvData[psHead]
  /\ psHead' = ps_next[psHead]
  /\ Free(psHead)
  /\ UNCHANGED <<psTail, ps_next, pvData, repair>>

(* phOsal_ListRemoveNode, PHOSAL_LIST_POS_HEAD *)
RemoveHead ==
  /\ ~repair
  /\ psHead # NULL
  /\ removed' = pvData[psHead]
  /\ psHead' = ps_next[psHead]
  /\ psTail' = IF ps_next[psHead] = NULL THEN NULL ELSE psTail
  /\ Free(psHead)
  /\ UNCHANGED <<ps_next, pvData, repair>>

(* phOsal_ListRemoveNode, PHOSAL_LIST_POS_TAIL, of the only node *)
RemoveOnlyTail ==
  /\ ~repair
  /\ psTail # NULL
  /\ ps_next[psHead] = NULL
  /\ removed' = pvData[psHead]
  /\ psHead' = NULL /\ psTail' = NULL
  /\ Free(psHead)
  /\ repair' = TRUE
  /\ UNCHANGED <<ps_next, pvData>>

(* Mutant of RemoveTail: the data of the wrong node is handed out. *)
RemoveTailOfOther ==
  /\ ~repair
  /\ psTail # NULL
  /\ ps_next[psHead] # NULL
  /\ removed' = pvData[psHead]
  /\ psTail' = NodeAt[LastIndex - 1]
  /\ Free(NodeAt[LastIndex])
  /\ repair' = TRUE
  /\ UNCHANGED <<psHead, ps_next, pvData>>

(* phOsal_ListRemoveNode, PHOSAL_LIST_POS_TAIL, of several nodes: the      *)
(* ps_next of the node before the last is left as it is.                   *)
RemoveTail ==
  /\ ~repair
  /\ psTail # NULL
  /\ ps_next[psHead] # NULL
  /\ removed' = pvData[NodeAt[LastIndex]]
  /\ psTail' = NodeAt[LastIndex - 1]
  /\ Free(NodeAt[LastIndex])
  /\ repair' = TRUE
  /\ UNCHANGED <<psHead, ps_next, pvData>>

(* phOsal_ListFlush with phOsali_ListDeleteAllNodes *)
Flush ==
  /\ ~repair
  /\ alloc' = IF psHead = NULL THEN alloc
              ELSE alloc \ {NodeAt[i] : i \in 1..LastIndex}
  /\ psHead' = NULL /\ psTail' = NULL /\ dwNumNodes' = 0
  /\ UNCHANGED <<ps_next, pvData, removed, repair>>

Next ==
  \/ \E d \in Data : InsertTail(d) \/ InsertHead(d)
  \/ RemoveFromEmpty \/ RemoveHead \/ RemoveOnlyTail \/ RemoveTail
  \/ Flush

Spec == Init /\ [][Next]_vars

-----------------------------------------------------------------------------
(* Every field has the type the structures declare; the node count never   *)
(* goes below zero.                                                        *)
TypeOK ==
  /\ psHead \in Nodes \cup {NULL} /\ psTail \in Nodes \cup {NULL}
  /\ dwNumNodes \in Nat
  /\ ps_next \in [Nodes -> Nodes \cup {NULL}]
  /\ pvData \in [Nodes -> Data \cup {NULL}]
  /\ alloc \subseteq Nodes
  /\ removed \in Data \cup {NULL}
  /\ repair \in BOOLEAN

(* The nodes the list consists of, by the head pointer, the links and the  *)
(* count are exactly the allocated ones (none is leaked, none was freed),  *)
(* psTail is the last of them, and its link is NULL except between a tail  *)
(* removal and the insertion that repairs it.                              *)
ChainSound ==
  /\ psHead = NULL <=> dwNumNodes = 0
  /\ psTail = NULL <=> dwNumNodes = 0
  /\ dwNumNodes = Cardinality(alloc)
  /\ dwNumNodes > 0 =>
       /\ alloc = {NodeAt[i] : i \in 1..dwNumNodes}
       /\ psTail = NodeAt[dwNumNodes]
       /\ repair \/ ps_next[psTail] = NULL

(* Reading the nodes in link order gives the ordered collection that       *)
(* phOsal_LinkList.h describes, every operation changes it at the end it   *)
(* names, and every removal hands out the data that left.                  *)
Abstract == INSTANCE Deque
  WITH items <- [i \in 1..dwNumNodes |-> pvData[NodeAt[i]]],
       out <- removed, NoData <- NULL

DequeSpec == Abstract!Spec

=============================================================================
