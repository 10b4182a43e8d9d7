--------------------------- MODULE MCSubscription ---------------------------
(***************************************************************************)
(* A user who can buy four rows of two plans, of two lengths.              *)
(***************************************************************************)
EXTENDS Subscription, TLC

CONSTANTS month, year

Plans == {month, year}
Rows == 1..4
Durations == month :> 1 @@ year :> 2
NoExtra == {0}

\* No action reads the columns of a closed row, and the properties only the end of
\* an expired one: states that differ elsewhere in closed rows are explored once.
OpenColumns ==
    <<[r \in Row |-> CASE r \in Live(sub) -> <<sub[r], bought[r]>>
                       [] sub[r].status = "expired" -> <<"expired", sub[r].expire>>
                       [] OTHER -> <<sub[r].status>>],
      now, reader, revoked = {}, demoted \cap Live(sub)>>
=============================================================================
