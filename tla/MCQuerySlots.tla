---------------------------- MODULE MCQuerySlots ----------------------------
(* Two tokens of one user, whose queries are served by two processes.         *)
EXTENDS QuerySlots
CONSTANTS q1, q2, p1, p2, user, token1, token2, everybody
ServerOf == [q \in {q1, q2} |-> IF q = q1 THEN p1 ELSE p2]
AllKeys == {user, token1, token2, everybody}
KeysOfQuery == [q \in {q1, q2} |-> {user, everybody, IF q = q1 THEN token1 ELSE token2}]
Limits == [k \in AllKeys |-> IF k = user THEN 2 ELSE IF k = everybody THEN 2 ELSE 1]
=============================================================================
