----------------------------- MODULE BoundedFifo -----------------------------
(***************************************************************************)
(* What phOsal_Queue.h promises of a queue created without overwriting:    *)
(* a first-in first-out queue of at most Capacity objects, in which an     *)
(* insertion or a removal takes effect at one instant.                     *)
(***************************************************************************)
EXTENDS Naturals, Sequences

CONSTANTS Values, Capacity

VARIABLE queue

Init == queue = <<>>

(* A push takes effect. *)
Put(v) == /\ Len(queue) < Capacity
          /\ queue' = Append(queue, v)

(* A pull takes effect. *)
Get == /\ queue # <<>>
       /\ queue' = Tail(queue)

Next == Get \/ \E v \in Values : Put(v)

Spec == Init /\ [][Next]_queue

=============================================================================
