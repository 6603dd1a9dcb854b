----------------------------- MODULE MCMwIfData -----------------------------
(* The tester of the instance has contacts of every kind, each of which     *)
(* sends twice: tags and targets answer, initiators begin.                  *)
EXTENDS MwIfData

Sends(kinds, answers) == [kinds |-> kinds, answers |-> answers]

EveryTester == { Sends(AllKinds, 2) }
==============================================================================
