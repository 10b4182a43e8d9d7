--------------------------- MODULE MCApiTestBatch ---------------------------
(***************************************************************************)
(* Instances of ApiTestBatch: an ordinary batch whose second item is not   *)
(* eligible, a single test, and either of them.                            *)
(***************************************************************************)
EXTENDS ApiTestBatch

CONSTANTS b1, s1

OneBatch == {b1}
OneSingle == {s1}
BothKinds == {b1, s1}
ThreeItems == 1..3
OneItem == {1}
AllInBatch == [i \in Item |-> CHOOSE b \in Batch : TRUE]
TwoAndOne == [i \in Item |-> IF i = 3 THEN s1 ELSE b1]
SecondIneligible == {2}

\* Two batches, of which a behaviour has only one.
OneKind == \A b, c \in Batch : creator[b] # "none" /\ creator[c] # "none" => b = c
OneKindSpec == Init /\ [][Next /\ OneKind']_vars /\ Fairness
=============================================================================
