---------------------------- MODULE MCAuthCache ----------------------------
(***************************************************************************)
(* Two Web processes with one request thread each.                         *)
(***************************************************************************)
EXTENDS AuthCache

CONSTANTS p1, p2, q1, q2

Processes == {p1, p2}
Requests == {q1, q2}
Homes == [q \in Requests |-> IF q = q1 THEN p1 ELSE p2]
TwoTokens == 1..2
OneRight == 0..1
=============================================================================
