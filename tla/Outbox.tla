-------------------------------- MODULE Outbox --------------------------------
(***************************************************************************)
(* What the audit spool promises about the events it has taken: they wait  *)
(* until they are delivered, and are given up only after as many failed    *)
(* attempts as the configuration asks for.  An event may be delivered or   *)
(* taken more than once (the main database ignores the second time).       *)
(* AuditSpool, with its ids, batches and writers that hold copies of rows, *)
(* implements this specification.                                          *)
(***************************************************************************)
EXTENDS Naturals

CONSTANTS
    Event,       \* event ids
    MaxRetries   \* how often delivery is tried

VARIABLES
    held,        \* events that wait
    delivered,   \* events that have reached the main database
    dead,        \* events that were given up
    attempts     \* failed attempts to deliver each event

vars == <<held, delivered, dead, attempts>>

Init ==
    /\ held = {} /\ delivered = {} /\ dead = {}
    /\ attempts = [e \in Event |-> 0]

\* Every event that was ever taken.
Taken == held \cup delivered \cup dead

Take(e) ==
    /\ held' = held \cup {e}
    /\ UNCHANGED <<delivered, dead, attempts>>

Deliver(S) ==
    /\ delivered' = delivered \cup S
    /\ UNCHANGED <<held, dead, attempts>>

Fail(S) ==
    /\ attempts' = [e \in Event |-> IF e \in S THEN attempts[e] + 1 ELSE attempts[e]]
    /\ UNCHANGED <<held, delivered, dead>>

\* What is delivered need not wait any longer.
Release(S) ==
    /\ S \subseteq delivered
    /\ held' = held \ S
    /\ UNCHANGED <<delivered, dead, attempts>>

\* Events that have failed often enough are given up, and those of them that wait stop
\* waiting, unless they have been taken anew meanwhile.
GiveUp(S) ==
    /\ \A e \in S : attempts[e] >= MaxRetries
    /\ dead' = dead \cup S
    /\ \E gone \in SUBSET S : held' = held \ gone
    /\ UNCHANGED <<delivered, attempts>>

Next ==
    \/ \E e \in Event : Take(e)
    \/ \E S \in SUBSET Taken : Deliver(S) \/ Fail(S) \/ Release(S) \/ GiveUp(S)

Spec == Init /\ [][Next]_vars
=============================================================================
