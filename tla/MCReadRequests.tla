---------------------------- MODULE MCReadRequests ----------------------------
(* Constants for checking ReadRequests with TLC.                           *)
EXTENDS ReadRequests

CONSTANTS f, g, t0, t1, r1, r2

MCRename == {<<r1, [kind |-> "rename", doc |-> f]>>}
MCDefinition == {<<r1, [kind |-> "definition", doc |-> f]>>}
MCReads == MCDefinition \cup {<<r2, [kind |-> "workspace", doc |-> None]>>}
=============================================================================
