----------------------------- MODULE KeyedLock ------------------------------
(***************************************************************************)
(* services/keyed_lock.py: a table of reference-counted lock objects, one  *)
(* per key in use.  A caller registers under the guard of the table, then  *)
(* acquires the object it was given outside of the guard, releases it, and *)
(* takes its reference back under the guard; the object leaves the table   *)
(* with the last reference.  The four steps of different callers           *)
(* interleave.                                                             *)
(***************************************************************************)
EXTENDS Naturals, FiniteSets

CONSTANTS
    Threads,    \* the threads of the process
    Keys,       \* the keys they lock
    Objects,    \* identities of threading.Lock objects
    NoObject,   \* no object: an absent entry, a caller that is not inside
    Nobody      \* the holder of an object that is free

ASSUME ThreadsFinite == IsFiniteSet(Threads)
ASSUME NobodyIsNoThread == Nobody \notin Threads
ASSUME NoObjectIsNone == NoObject \notin Objects

VARIABLES
    table,      \* _locks: the object and the references of each key
    holder,     \* who has acquired each object
    pc,         \* where each thread is in keyed_lock
    key,        \* the argument of its call
    mine        \* its local variable lock

vars == <<table, holder, pc, key, mine>>

Absent == [lock |-> NoObject, refs |-> 0]

Init ==
    /\ table = [k \in Keys |-> Absent]
    /\ holder = [o \in Objects |-> Nobody]
    /\ pc = [t \in Threads |-> "out"]
    /\ key \in [Threads -> Keys]
    /\ mine = [t \in Threads |-> NoObject]

\* An object that nothing refers to: a new one, as far as anybody can tell.
New(o) ==
    /\ \A k \in Keys : table[k].lock # o
    /\ \A t \in Threads : mine[t] # o

\* Under the guard: take the object of the key, or make one, and count it.
Enter(t, k) ==
    /\ pc[t] = "out"
    /\ \E o \in Objects :
          /\ IF table[k].lock = NoObject THEN New(o) ELSE o = table[k].lock
          /\ table' = [table EXCEPT ![k] = [lock |-> o, refs |-> table[k].refs + 1]]
          /\ mine' = [mine EXCEPT ![t] = o]
    /\ pc' = [pc EXCEPT ![t] = "waiting"]
    /\ key' = [key EXCEPT ![t] = k]
    /\ UNCHANGED holder

\* lock.acquire(): outside of the guard.
Acquire(t) ==
    /\ pc[t] = "waiting"
    /\ holder[mine[t]] = Nobody
    /\ holder' = [holder EXCEPT ![mine[t]] = t]
    /\ pc' = [pc EXCEPT ![t] = "in"]
    /\ UNCHANGED <<table, key, mine>>

\* lock.release(), before the guard is taken again.
Release(t) ==
    /\ pc[t] = "in"
    /\ holder' = [holder EXCEPT ![mine[t]] = Nobody]
    /\ pc' = [pc EXCEPT ![t] = "released"]
    /\ UNCHANGED <<table, key, mine>>

\* Mutant of the next operator: the first to leave takes the entry away.
DroppedUncounted(t) ==
    IF table[key[t]].lock # mine[t] THEN table[key[t]] ELSE Absent

\* The entry of the key after one reference to the caller's object is gone.
\* The code also meets an entry that is absent or holds another object, and
\* leaves both alone.
Dropped(t) ==
    LET e == table[key[t]]
    IN  IF e.lock # mine[t] THEN e
        ELSE IF e.refs <= 1 THEN Absent
        ELSE [lock |-> e.lock, refs |-> e.refs - 1]

\* Under the guard: take the reference back.
Leave(t) ==
    /\ pc[t] = "released"
    /\ table' = [table EXCEPT ![key[t]] = Dropped(t)]
    /\ mine' = [mine EXCEPT ![t] = NoObject]
    /\ pc' = [pc EXCEPT ![t] = "out"]
    /\ UNCHANGED <<holder, key>>

Next ==
    \E t \in Threads :
        \/ \E k \in Keys : Enter(t, k)
        \/ Acquire(t)
        \/ Release(t)
        \/ Leave(t)

Spec == Init /\ [][Next]_vars

-----------------------------------------------------------------------------

Users(k) == {t \in Threads : pc[t] # "out" /\ key[t] = k}

TypeOK ==
    /\ table \in [Keys -> [lock : Objects \cup {NoObject}, refs : Nat]]
    /\ holder \in [Objects -> Threads \cup {Nobody}]
    /\ pc \in [Threads -> {"out", "waiting", "in", "released"}]
    /\ key \in [Threads -> Keys]
    /\ mine \in [Threads -> Objects \cup {NoObject}]

\* Two callers inside the block of one key are one caller, although each
\* acquires the object it was given some time after the guard was left
\* (query_market_data relies on it to send one call upstream).
MutualExclusion ==
    \A t, u \in Threads :
        pc[t] = "in" /\ pc[u] = "in" /\ key[t] = key[u] => t = u

\* An entry stays exactly as long as somebody uses the key: the table neither
\* forgets a lock that is waited for nor grows with every key ever asked for.
TableIsExact ==
    \A k \in Keys :
        /\ table[k].refs = Cardinality(Users(k))
        /\ table[k].lock = NoObject <=> Users(k) = {}

\* The owner of a key as a caller sees it.
OwnerOf(k) ==
    IF \E t \in Threads : pc[t] = "in" /\ key[t] = k
    THEN CHOOSE t \in Threads : pc[t] = "in" /\ key[t] = k
    ELSE Nobody

Mutex == INSTANCE KeyMutex WITH owner <- [k \in Keys |-> OwnerOf(k)]

\* The table of counted objects behaves as one plain lock per key
\* (keyed_lock.py as its callers in market_data_service.py use it).
ImplementsMutex == Mutex!Spec
=============================================================================
