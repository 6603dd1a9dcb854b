--------------------------- MODULE MCOsalLinkList ---------------------------
(* OsalLinkList with a heap of four nodes and two data values. *)
EXTENDS OsalLinkList
=============================================================================
