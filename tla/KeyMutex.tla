------------------------------ MODULE KeyMutex ------------------------------
(***************************************************************************)
(* What services/keyed_lock.py promises to its callers: one thread at a    *)
(* time is inside the block of a key.  KeyedLock, which has the table of   *)
(* counted lock objects, implements this specification.                    *)
(***************************************************************************)
CONSTANTS
    Threads,    \* the threads that use the locks
    Keys,       \* the keys that are locked
    Nobody      \* the owner of a key that is free

VARIABLE
    owner       \* [Keys -> Threads or Nobody]

Init == owner = [k \in Keys |-> Nobody]

Take(t, k) ==
    /\ owner[k] = Nobody
    /\ owner' = [owner EXCEPT ![k] = t]

Give(t, k) ==
    /\ owner[k] = t
    /\ owner' = [owner EXCEPT ![k] = Nobody]

Next == \E t \in Threads, k \in Keys : Take(t, k) \/ Give(t, k)

Spec == Init /\ [][Next]_owner
=============================================================================
