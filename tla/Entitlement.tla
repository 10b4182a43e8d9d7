----------------------------- MODULE Entitlement -----------------------------
(***************************************************************************)
(* What the subscriptions of a user are worth to the user: the instants,   *)
(* from now on, at which the user has the rights that were paid for.  Only *)
(* a purchase adds to them, only a switch that takes effect at once or the *)
(* cancellation of a purchase takes from them, each purchase once and no   *)
(* more than was paid for it, and otherwise they just go by: no row,       *)
(* status, refresh or migration is to be seen here.  Subscription, which   *)
(* has the rows, implements this specification.                            *)
(***************************************************************************)
EXTENDS Integers

CONSTANTS
    Lengths,    \* how long a purchase may last
    Purchases,  \* what can be bought and cancelled
    Horizon     \* the last instant a datetime can hold

VARIABLES
    now,        \* the clock
    rights,     \* the instants, not before now, at which the user is entitled
    paid,       \* how much was paid for each purchase
    revoked     \* the purchases that were cancelled by themselves

vars == <<now, rights, paid, revoked>>

Time == 0..Horizon

Init ==
    /\ now = 0 /\ rights = {}
    /\ paid = [i \in Purchases |-> 0] /\ revoked = {}

\* A purchase of its own, or an addition to one.
Sell(n) ==
    /\ \E i \in Purchases :
         paid' \in {[paid EXCEPT ![i] = n], [paid EXCEPT ![i] = @ + n]}
    /\ UNCHANGED <<now, revoked>>

\* Somebody without rights gets them from this instant on.
Begin(n) ==
    /\ rights = {}
    /\ now + n <= Horizon
    /\ rights' = now..(now + n)
    /\ Sell(n)

\* A purchase puts its length in at some instant of the rights, and all that comes
\* after that instant comes later by as much.
Insert(n) ==
    /\ \E cut \in rights :
         /\ cut + n <= Horizon
         /\ rights' = {x \in rights : x <= cut} \cup cut..(cut + n)
                          \cup {x + n : x \in {y \in rights : cut <= y}}
    /\ rights' \subseteq Time
    /\ Sell(n)

\* A switch that takes effect at once: the new plan lasts what was bought, without a
\* break the queue may follow, and nobody ends up with more than was bought on top of
\* what there was.
Switch(n) ==
    /\ now \in rights
    /\ \E y \in rights, end \in Time :
         /\ now + n <= end /\ end <= y + n
         /\ rights' = now..end
    /\ Sell(n)

\* A queued purchase is cancelled: once, and it takes no more along than was paid
\* for it.
Revoke(i) ==
    /\ i \notin revoked
    /\ revoked' = revoked \cup {i}
    /\ \E from, to \in Time :
         /\ to - from <= paid[i]
         /\ rights' = rights \ (from..to)
    /\ UNCHANGED <<now, paid>>

Pass ==
    /\ now < Horizon
    /\ now' = now + 1
    /\ rights' = rights \ {now}
    /\ UNCHANGED <<paid, revoked>>

Next ==
    \/ \E n \in Lengths : Begin(n) \/ Insert(n) \/ Switch(n)
    \/ \E i \in Purchases : Revoke(i)
    \/ Pass

Spec == Init /\ [][Next]_vars
=============================================================================
