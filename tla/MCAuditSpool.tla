---------------------------- MODULE MCAuditSpool ----------------------------
(***************************************************************************)
(* Two Web processes and two events.                                       *)
(***************************************************************************)
EXTENDS AuditSpool

CONSTANTS p1, p2, e1, e2

Processes == {p1, p2}
Events2 == {e1, e2}
Files == 1..4
=============================================================================
