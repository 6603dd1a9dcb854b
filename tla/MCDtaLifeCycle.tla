---------------------------- MODULE MCDtaLifeCycle ----------------------------
(***************************************************************************)
(* Two or three lives of the library, for TLC.                             *)
(***************************************************************************)
EXTENDS DtaLifeCycle
===============================================================================
