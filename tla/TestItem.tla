------------------------------- MODULE TestItem -------------------------------
(***************************************************************************)
(* What becomes of the items of the interface-test batches: an item waits, *)
(* is run to a result, or is cancelled while it waits.  A run that is      *)
(* interrupted waits again.  A result and a cancellation are final, except *)
(* that an item whose task met a database error may end as failed.         *)
(* ApiTestBatch, with its tables, pools, claims, cancellations and         *)
(* recoveries, implements this specification for the items that are        *)
(* eligible and not of a single test.                                      *)
(***************************************************************************)
CONSTANT Items

VARIABLES
    state,    \* the state of each item
    erring    \* items whose task has met a database error

vars == <<state, erring>>

Init == state = [i \in Items |-> "absent"] /\ erring = {}

Moves(i, from, to) ==
    /\ state[i] \in from
    /\ state' = [state EXCEPT ![i] = to]

Add(i) == Moves(i, {"absent"}, "queued") /\ UNCHANGED erring

\* Only an item that waits is run or cancelled, and no task holds one that is cancelled.
Run(i) == i \notin erring /\ Moves(i, {"queued"}, "running") /\ UNCHANGED erring
Cancel(i) == i \notin erring /\ Moves(i, {"queued"}, "cancelled") /\ UNCHANGED erring

End(i) ==
    /\ i \notin erring
    /\ \E result \in {"success", "failed"} : Moves(i, {"running"}, result)
    /\ UNCHANGED erring

\* A task that met a database error, before, while or after it ran, ends as failed.
Fail(i) ==
    /\ i \in erring /\ erring' = erring \ {i}
    /\ Moves(i, {"queued", "running", "success", "failed"}, "failed")

\* Runs that were interrupted wait again.
Requeue(S) ==
    /\ \A i \in S : state[i] = "running" /\ i \notin erring
    /\ state' = [i \in Items |-> IF i \in S THEN "queued" ELSE state[i]]
    /\ UNCHANGED erring

\* Tasks meet errors and disappear with their process.
Trouble == UNCHANGED state /\ erring' \subseteq Items

Next ==
    \/ Trouble
    \/ \E i \in Items : Add(i) \/ Run(i) \/ Cancel(i) \/ End(i) \/ Fail(i)
    \/ \E S \in SUBSET Items : Requeue(S)

Spec == Init /\ [][Next]_vars
=============================================================================
