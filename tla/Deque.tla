-------------------------------- MODULE Deque --------------------------------
(***************************************************************************)
(* What phOsal_LinkList.h promises: an ordered collection of data pointers *)
(* that is extended and reduced at either end; a removal hands out the     *)
(* data it removes.                                                        *)
(***************************************************************************)
EXTENDS Naturals, Sequences

CONSTANTS Data, NoData

VARIABLES items, out

vars == <<items, out>>

Init == items = <<>> /\ out = NoData

PutTail(d) == items' = Append(items, d) /\ UNCHANGED out

PutHead(d) == items' = <<d>> \o items /\ UNCHANGED out

TakeHead == /\ items # <<>>
            /\ out' = Head(items)
            /\ items' = Tail(items)

TakeTail == /\ items # <<>>
            /\ out' = items[Len(items)]
            /\ items' = SubSeq(items, 1, Len(items) - 1)

(* A removal from an empty collection hands out the null pointer. *)
TakeNothing == items = <<>> /\ out' = NoData /\ UNCHANGED items

Clear == items' = <<>> /\ UNCHANGED out

Next == \/ \E d \in Data : PutTail(d) \/ PutHead(d)
        \/ TakeHead \/ TakeTail \/ TakeNothing \/ Clear

Spec == Init /\ [][Next]_vars

=============================================================================
