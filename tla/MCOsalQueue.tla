----------------------------- MODULE MCOsalQueue -----------------------------
(***************************************************************************)
(* Instances of OsalQueue for TLC: a handful of threads, a queue of one or *)
(* two slots and no more objects than the slots and the threads can hold.  *)
(***************************************************************************)
EXTENDS OsalQueue, TLC

Symmetry == Permutations(Objs)

=============================================================================
