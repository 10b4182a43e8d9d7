--------------------------- MODULE ServicesProofs ---------------------------
(***************************************************************************)
(* Five services that share no state, each for every value of its          *)
(* constants; at the end all services of MCServices side by side, with the *)
(* slots of concurrent queries, whose proofs are in QuerySlotsProofs.      *)
(*                                                                         *)
(* keyed_lock.py is a lock per key, for any finite set of threads, any     *)
(* keys and any supply of lock objects: everybody between Enter and Leave  *)
(* has the object the table holds for its key, and the references count    *)
(* these callers, so that the entry cannot go while one of them is left.   *)
(*                                                                         *)
(* Of the official snapshots the first stays, and two schedulers capture a *)
(* type at once only when one of them read the clock at least the life of  *)
(* a lease ago: whoever has passed acquire_lease with a younger clock      *)
(* still has the lease, reckoned from this clock.                          *)
(*                                                                         *)
(* Of the batches of interface tests, results are removed only when they   *)
(* are due, and a deletion leaves nothing behind that does not show, for   *)
(* any batches, periods, changes and mishaps: the rows follow the runners, *)
(* a deletion shows from its mark to its end, and what a deleter holds was *)
(* due when it was chosen.                                                 *)
(*                                                                         *)
(* The members' table of Feishu follows the local database, for any        *)
(* publishers, members, people and failing calls: who publishes or imports *)
(* has the lock, a row shows one edition of its member unless a visitor has*)
(* filled it in, and what a publication has passed is published.           *)
(*                                                                         *)
(* The daily quota is kept for any processes, threads and days: with sums  *)
(* over finite sets, which come first, records are neither lost nor        *)
(* doubled, what is allowed is paid for by the windows that were opened,   *)
(* and no window or seed shows more than was spent.                        *)
(***************************************************************************)
EXTENDS MCServices, DailyQuota, QuerySlotsProofs, WellFoundedInduction, TLAPS

(* The table of locks. *)

\* Whoever is inside keyed_lock has the object of the table.
SharedObject ==
    \A t \in Threads :
        IF pc[t] = "out" THEN mine[t] = NoObject
        ELSE /\ mine[t] \in Objects
             /\ table[key[t]].lock = mine[t]

HolderIsIn == \A t \in Threads : pc[t] = "in" => holder[mine[t]] = t

LockInv == TypeOK /\ SharedObject /\ HolderIsIn /\ TableIsExact

\* Any two in the block of one key have the same object, which has one holder.
LEMMA InvExcludes == LockInv => MutualExclusion
  BY DEF LockInv, SharedObject, HolderIsIn, MutualExclusion, TypeOK

LEMMA UsersFinite == \A k : IsFiniteSet(Users(k))
  BY ThreadsFinite, FS_Subset DEF Users

\* The first reference makes the entry, every other one finds it.
LEMMA EnterKeepsInv ==
  ASSUME LockInv, NEW t \in Threads, NEW k \in Keys, Enter(t, k)
  PROVE  LockInv'
<1> USE NoObjectIsNone, NobodyIsNoThread DEF LockInv
<1>1. PICK o \in Objects :
        /\ IF table[k].lock = NoObject THEN New(o) ELSE o = table[k].lock
        /\ table' = [table EXCEPT ![k] = [lock |-> o, refs |-> table[k].refs + 1]]
        /\ mine' = [mine EXCEPT ![t] = o]
  BY DEF Enter
<1>2. /\ pc[t] = "out"
      /\ pc' = [pc EXCEPT ![t] = "waiting"]
      /\ key' = [key EXCEPT ![t] = k]
      /\ holder' = holder
  BY DEF Enter
<1>3. TypeOK'
  BY <1>1, <1>2 DEF TypeOK
<1>4. SharedObject'
  <2> SUFFICES ASSUME NEW u \in Threads
               PROVE  IF pc'[u] = "out" THEN mine'[u] = NoObject
                      ELSE /\ mine'[u] \in Objects
                           /\ table'[key'[u]].lock = mine'[u]
    BY DEF SharedObject
  <2>1. CASE u = t
    BY <2>1, <1>1, <1>2 DEF TypeOK
  <2>2. CASE u # t /\ pc[u] = "out"
    BY <2>2, <1>1, <1>2 DEF TypeOK, SharedObject
  <2>3. CASE u # t /\ pc[u] # "out" /\ key[u] # k
    BY <2>3, <1>1, <1>2 DEF TypeOK, SharedObject
  <2>4. CASE u # t /\ pc[u] # "out" /\ key[u] = k
    <3>1. table[k].lock = mine[u] /\ mine[u] \in Objects
      BY <2>4 DEF SharedObject
    <3>2. o = table[k].lock
      BY <3>1, <1>1
    <3> QED BY <3>1, <3>2, <2>4, <1>1, <1>2 DEF TypeOK
  <2> QED BY <2>1, <2>2, <2>3, <2>4
<1>5. HolderIsIn'
  BY <1>1, <1>2 DEF TypeOK, HolderIsIn
<1>6. TableIsExact'
  <2> SUFFICES ASSUME NEW j \in Keys
               PROVE  /\ table'[j].refs = Cardinality(Users(j)')
                      /\ table'[j].lock = NoObject <=> Users(j)' = {}
    BY DEF TableIsExact
  <2>1. CASE j # k
    <3>1. Users(j)' = Users(j)
      BY <2>1, <1>2 DEF Users, TypeOK
    <3> QED BY <3>1, <2>1, <1>1 DEF TypeOK, TableIsExact
  <2>2. CASE j = k
    <3>1. Users(k)' = Users(k) \cup {t}
      BY <1>2 DEF Users, TypeOK
    <3>2. t \notin Users(k)
      BY <1>2 DEF Users
    <3>3. Cardinality(Users(k)') = Cardinality(Users(k)) + 1
      BY <3>1, <3>2, UsersFinite, FS_AddElement
    <3> QED BY <3>1, <3>3, <2>2, <1>1 DEF TypeOK, TableIsExact
  <2> QED BY <2>1, <2>2
<1> QED BY <1>3, <1>4, <1>5, <1>6

\* Acquiring changes the holder of a free object only.
LEMMA AcquireKeepsInv ==
  ASSUME LockInv, NEW t \in Threads, Acquire(t)
  PROVE  LockInv'
<1> USE NoObjectIsNone, NobodyIsNoThread DEF LockInv, Acquire
<1>1. TypeOK'
  BY DEF TypeOK, SharedObject
<1>2. SharedObject'
  BY DEF TypeOK, SharedObject
<1>3. HolderIsIn'
  BY DEF TypeOK, SharedObject, HolderIsIn
<1>4. ASSUME NEW k PROVE Users(k)' = Users(k)
  BY DEF Users, TypeOK
<1>5. TableIsExact'
  BY <1>4 DEF TableIsExact
<1> QED BY <1>1, <1>2, <1>3, <1>5

\* Releasing frees the one object the caller holds.
LEMMA ReleaseKeepsInv ==
  ASSUME LockInv, NEW t \in Threads, Release(t)
  PROVE  LockInv'
<1> USE NoObjectIsNone, NobodyIsNoThread DEF LockInv, Release
<1>1. TypeOK'
  BY DEF TypeOK, SharedObject
<1>2. SharedObject'
  BY DEF TypeOK, SharedObject
<1>3. HolderIsIn'
  BY DEF TypeOK, SharedObject, HolderIsIn
<1>4. ASSUME NEW k PROVE Users(k)' = Users(k)
  BY DEF Users, TypeOK
<1>5. TableIsExact'
  BY <1>4 DEF TableIsExact
<1> QED BY <1>1, <1>2, <1>3, <1>5

\* The entry goes with its last user, and with no other.
LEMMA LeaveKeepsInv ==
  ASSUME LockInv, NEW t \in Threads, Leave(t)
  PROVE  LockInv'
<1> USE NoObjectIsNone, NobodyIsNoThread DEF LockInv
<1> DEFINE k == key[t]
           e == table[k]
<1>1. /\ pc[t] = "released"
      /\ table' = [table EXCEPT ![k] = Dropped(t)]
      /\ mine' = [mine EXCEPT ![t] = NoObject]
      /\ pc' = [pc EXCEPT ![t] = "out"]
      /\ holder' = holder
      /\ key' = key
  BY DEF Leave
<1>2. k \in Keys /\ e.lock = mine[t] /\ mine[t] \in Objects /\ e.refs \in Nat
  BY <1>1 DEF TypeOK, SharedObject
<1>3. t \in Users(k)
  BY <1>1 DEF Users
<1>4. Users(k)' = Users(k) \ {t}
  BY <1>1 DEF Users, TypeOK
<1>5. /\ Cardinality(Users(k)') = e.refs - 1
      /\ Users(k)' = {} <=> e.refs - 1 = 0
      /\ e.refs >= 1
  <2>1. IsFiniteSet(Users(k)) /\ IsFiniteSet(Users(k)')
    BY <1>4, UsersFinite, FS_RemoveElement
  <2>2. Cardinality(Users(k)') = Cardinality(Users(k)) - 1
    BY <1>3, <1>4, <2>1, FS_RemoveElement
  <2>3. Cardinality(Users(k)) = e.refs
    BY <1>2 DEF TableIsExact
  <2>4. Cardinality(Users(k)') \in Nat /\ (Cardinality(Users(k)') = 0 <=> Users(k)' = {})
    BY <2>1, FS_CardinalityType, FS_EmptySet
  <2> QED BY <2>2, <2>3, <2>4, <1>2
<1>6. Dropped(t) = IF e.refs = 1 THEN Absent ELSE [lock |-> e.lock, refs |-> e.refs - 1]
  BY <1>2, <1>5 DEF Dropped
<1>7. TypeOK'
  BY <1>1, <1>2, <1>5, <1>6 DEF TypeOK, Absent
<1>8. SharedObject'
  <2> SUFFICES ASSUME NEW u \in Threads
               PROVE  IF pc'[u] = "out" THEN mine'[u] = NoObject
                      ELSE /\ mine'[u] \in Objects
                           /\ table'[key'[u]].lock = mine'[u]
    BY DEF SharedObject
  <2>1. CASE u = t \/ pc[u] = "out" \/ key[u] # k
    BY <2>1, <1>1, <1>2 DEF TypeOK, SharedObject
  <2>2. CASE u # t /\ pc[u] # "out" /\ key[u] = k
    <3>1. u \in Users(k)'
      BY <2>2, <1>1 DEF Users, TypeOK
    <3>2. e.refs # 1
      BY <3>1, <1>5
    <3> QED BY <3>2, <2>2, <1>1, <1>2, <1>6 DEF TypeOK, SharedObject
  <2> QED BY <2>1, <2>2
<1>9. HolderIsIn'
  BY <1>1 DEF TypeOK, HolderIsIn
<1>10. TableIsExact'
  <2> SUFFICES ASSUME NEW j \in Keys
               PROVE  /\ table'[j].refs = Cardinality(Users(j)')
                      /\ table'[j].lock = NoObject <=> Users(j)' = {}
    BY DEF TableIsExact
  <2>1. CASE j # k
    <3>1. Users(j)' = Users(j)
      BY <2>1, <1>1 DEF Users, TypeOK
    <3> QED BY <3>1, <2>1, <1>1 DEF TypeOK, TableIsExact
  <2>2. CASE j = k
    BY <2>2, <1>1, <1>2, <1>5, <1>6 DEF TypeOK, Absent
  <2> QED BY <2>1, <2>2
<1> QED BY <1>7, <1>8, <1>9, <1>10

LEMMA InitHasLockInv == Init => LockInv
<1> SUFFICES ASSUME Init PROVE LockInv
  OBVIOUS
<1> USE NoObjectIsNone DEF Init, Absent
<1>1. TypeOK
  BY DEF TypeOK
<1>2. SharedObject /\ HolderIsIn
  BY DEF SharedObject, HolderIsIn
<1>3. ASSUME NEW k PROVE Users(k) = {}
  BY DEF Users
<1>4. TableIsExact
  BY <1>3, FS_EmptySet DEF TableIsExact
<1> QED BY <1>1, <1>2, <1>4 DEF LockInv

LEMMA NextKeepsLockInv == LockInv /\ [Next]_vars => LockInv'
<1> SUFFICES ASSUME LockInv, [Next]_vars PROVE LockInv'
  OBVIOUS
<1>1. ASSUME NEW t \in Threads, NEW k \in Keys, Enter(t, k) PROVE LockInv'
  BY <1>1, EnterKeepsInv
<1>2. ASSUME NEW t \in Threads, Acquire(t) PROVE LockInv'
  BY <1>2, AcquireKeepsInv
<1>3. ASSUME NEW t \in Threads, Release(t) PROVE LockInv'
  BY <1>3, ReleaseKeepsInv
<1>4. ASSUME NEW t \in Threads, Leave(t) PROVE LockInv'
  BY <1>4, LeaveKeepsInv
<1>5. CASE UNCHANGED vars
  <2>1. ASSUME NEW k PROVE Users(k)' = Users(k)
    BY <1>5 DEF vars, Users
  <2>2. TypeOK' /\ SharedObject' /\ HolderIsIn'
    BY <1>5 DEF vars, LockInv, TypeOK, SharedObject, HolderIsIn
  <2>3. TableIsExact'
    BY <1>5, <2>1 DEF vars, LockInv, TableIsExact
  <2> QED BY <2>2, <2>3 DEF LockInv
<1> QED BY <1>1, <1>2, <1>3, <1>4, <1>5 DEF Next

\* The inductive invariant holds of every behaviour of the table.
THEOREM LockInvariant == Spec => []LockInv
<1> QED BY InitHasLockInv, NextKeepsLockInv, PTL DEF Spec

\* No two threads are inside the block of one key, however their
\* registrations, acquisitions and departures interleave.
THEOREM LockExcludes == Spec => []MutualExclusion
<1> QED BY LockInvariant, InvExcludes, PTL

\* The table never forgets a lock that is in use and keeps none that is not.
THEOREM TableExact == Spec => []TableIsExact
<1>1. LockInv => TableIsExact
  BY DEF LockInv
<1> QED BY LockInvariant, <1>1, PTL

-----------------------------------------------------------------------------

\* Only Acquire and Release change who is inside a block.
LEMMA OwnerUnchanged ==
  ASSUME TypeOK, NEW t \in Threads, pc[t] # "in",
         key' \in [Threads -> Keys],
         pc' = [pc EXCEPT ![t] = pc'[t]], pc'[t] # "in",
         \A u \in Threads : u # t => key'[u] = key[u]
  PROVE  \A k \in Keys : OwnerOf(k)' = OwnerOf(k)
<1> TAKE k \in Keys
<1>1. \A u \in Threads : (pc'[u] = "in" /\ key'[u] = k) <=> (pc[u] = "in" /\ key[u] = k)
  BY DEF TypeOK
<1> QED BY <1>1 DEF OwnerOf

\* With mutual exclusion the owner is the thread that is inside.
LEMMA OwnerIs ==
  ASSUME MutualExclusion, NEW t \in Threads, pc[t] = "in"
  PROVE  OwnerOf(key[t]) = t
  BY DEF OwnerOf, MutualExclusion

\* Every step of the table is a step of the plain lock or leaves it alone.
LEMMA StepRefines == LockInv /\ LockInv' /\ [Next]_vars => [Mutex!Next]_([k \in Keys |-> OwnerOf(k)])
<1> SUFFICES ASSUME LockInv, LockInv', [Next]_vars
             PROVE  Mutex!Next \/ UNCHANGED [k \in Keys |-> OwnerOf(k)]
  OBVIOUS
<1> USE NobodyIsNoThread
<1>0. TypeOK /\ TypeOK' /\ MutualExclusion /\ MutualExclusion'
  <2>1. LockInv' => MutualExclusion'
    BY InvExcludes, PTL
  <2> QED BY <2>1, InvExcludes DEF LockInv
<1>1. ASSUME NEW t \in Threads, NEW k \in Keys, Enter(t, k)
      PROVE  UNCHANGED [j \in Keys |-> OwnerOf(j)]
  BY <1>0, <1>1, OwnerUnchanged DEF Enter, TypeOK
<1>2. ASSUME NEW t \in Threads, Acquire(t)
      PROVE  Mutex!Take(t, key[t])
  <2>1. \A u \in Threads : u # t => ((pc'[u] = "in") <=> (pc[u] = "in")) /\ key'[u] = key[u]
    BY <1>2, <1>0 DEF Acquire, TypeOK
  <2>2. pc'[t] = "in" /\ key' = key /\ pc[t] # "in" /\ key[t] \in Keys
    BY <1>2, <1>0 DEF Acquire, TypeOK
  <2>3. \A u \in Threads : pc[u] = "in" => key[u] # key[t]
    BY <2>1, <2>2, <1>0 DEF MutualExclusion
  <2>4. OwnerOf(key[t]) = Nobody
    BY <2>3 DEF OwnerOf
  <2>5. OwnerOf(key[t])' = t
    BY <1>0, <2>2 DEF OwnerOf, MutualExclusion
  <2>6. ASSUME NEW j \in Keys, j # key[t] PROVE OwnerOf(j)' = OwnerOf(j)
    <3>1. \A u \in Threads : (pc'[u] = "in" /\ key'[u] = j) <=> (pc[u] = "in" /\ key[u] = j)
      BY <2>1, <2>2, <2>6
    <3> QED BY <3>1 DEF OwnerOf
  <2> QED BY <2>2, <2>4, <2>5, <2>6 DEF Mutex!Take
<1>3. ASSUME NEW t \in Threads, Release(t)
      PROVE  Mutex!Give(t, key[t])
  <2>1. \A u \in Threads : u # t => ((pc'[u] = "in") <=> (pc[u] = "in")) /\ key'[u] = key[u]
    BY <1>3, <1>0 DEF Release, TypeOK
  <2>2. pc'[t] # "in" /\ key' = key /\ pc[t] = "in" /\ key[t] \in Keys
    BY <1>3, <1>0 DEF Release, TypeOK
  <2>3. OwnerOf(key[t]) = t
    BY <1>0, <2>2, OwnerIs
  <2>4. \A u \in Threads : pc'[u] = "in" => key'[u] # key[t]
    BY <2>1, <2>2, <1>0 DEF MutualExclusion
  <2>5. OwnerOf(key[t])' = Nobody
    BY <2>2, <2>4 DEF OwnerOf
  <2>6. ASSUME NEW j \in Keys, j # key[t] PROVE OwnerOf(j)' = OwnerOf(j)
    <3>1. \A u \in Threads : (pc'[u] = "in" /\ key'[u] = j) <=> (pc[u] = "in" /\ key[u] = j)
      BY <2>1, <2>2, <2>6
    <3> QED BY <3>1 DEF OwnerOf
  <2> QED BY <2>2, <2>3, <2>5, <2>6 DEF Mutex!Give
<1>4. ASSUME NEW t \in Threads, Leave(t)
      PROVE  UNCHANGED [j \in Keys |-> OwnerOf(j)]
  BY <1>0, <1>4, OwnerUnchanged DEF Leave, TypeOK
<1>5. ASSUME UNCHANGED vars
      PROVE  UNCHANGED [j \in Keys |-> OwnerOf(j)]
  BY <1>5 DEF vars, OwnerOf
<1>6. ASSUME NEW t \in Threads PROVE key[t] \in Keys
  BY <1>0 DEF TypeOK
<1> QED BY <1>1, <1>2, <1>3, <1>4, <1>5, <1>6 DEF Next, Mutex!Next

\* The table of counted lock objects is one plain lock per key.
THEOREM LockRefinesMutex == Spec => ImplementsMutex
<1>1. Init => Mutex!Init
  BY DEF Init, Mutex!Init, OwnerOf
<1> QED BY <1>1, LockInvariant, StepRefines, PTL DEF Spec, ImplementsMutex, Mutex!Spec

-----------------------------------------------------------------------------
(* The official snapshots. *)

\* Nobody has read the future.
ClocksPast == \A s \in Schedulers : current[s] <= instant

\* A scheduler whose clock is young has the lease it captures under.
YoungHasLease ==
    \A s \in Schedulers :
        /\ phase[s] \in {"recheck", "fetching"}
        /\ instant - current[s] < LeaseTTL
        => lease[kind[s]] = [owner |-> s, until |-> current[s] + LeaseTTL]

CaptureInv == CaptureTypeOK /\ ClocksPast /\ YoungHasLease

-----------------------------------------------------------------------------

\* The marks of an absent row are no rows.
LEMMA AbsentSnapshots ==
  /\ NoSnapshot \notin Snapshot
  /\ NoLease \notin Lease
  BY DEF NoSnapshot, NoLease, Snapshot, Lease

\* The first state has the types of the columns and variables.
LEMMA CaptureInitTyped == CaptureInit => CaptureTypeOK
  BY SomeType, TimesAreNat DEF CaptureInit, CaptureTypeOK, Instants

\* No step leaves the domains of the columns and variables.
LEMMA CaptureStepTyped ==
  ASSUME CaptureTypeOK, [CaptureNext]_captureVars
  PROVE  CaptureTypeOK'
<1> USE TimesAreNat DEF CaptureTypeOK, Instants
<1>1. ASSUME NEW s \in Schedulers, Poll(s)
      PROVE  CaptureTypeOK'
  BY <1>1 DEF Poll, Goes
<1>2. ASSUME NEW s \in Schedulers, Calendar(s) \/ Recheck(s) \/ FetchFails(s)
      PROVE  CaptureTypeOK'
  BY <1>2 DEF Calendar, Recheck, FetchFails, Goes, Keep
<1>3. ASSUME NEW s \in Schedulers, AcquireLease(s)
      PROVE  CaptureTypeOK'
  <2>1. [owner |-> s, until |-> current[s] + LeaseTTL] \in Lease
    BY DEF Lease
  <2>2. lease' \in [Types -> Lease \cup {NoLease}]
    BY <1>3, <2>1 DEF AcquireLease, Keep
  <2> QED
    BY <1>3, <2>2 DEF AcquireLease, Goes, Keep
<1>4. ASSUME NEW s \in Schedulers, Save(s)
      PROVE  CaptureTypeOK'
  <2> DEFINE new == [time |-> current[s], asked |-> since[s], by |-> s, revised |-> FALSE]
  <2>1. new \in Snapshot
    BY DEF Snapshot
  <2> HIDE DEF new
  <2>2. snapshot' = [snapshot EXCEPT ![kind[s]] = Saved(snapshot[kind[s]], new)]
    BY <1>4 DEF Save, new
  <2>3. snapshot' \in [Types -> Snapshot \cup {NoSnapshot}]
    BY <2>1, <2>2 DEF Saved
  <2> QED
    BY <1>4, <2>3 DEF Save, Goes, Keep
<1>5. ASSUME NEW s \in Schedulers, ReleaseLease(s)
      PROVE  CaptureTypeOK'
  BY <1>5 DEF ReleaseLease, Released, Goes, Keep
<1>6. ASSUME NEW s \in Schedulers, Crash(s)
      PROVE  CaptureTypeOK'
  BY <1>6 DEF Crash, Goes
<1>7. ASSUME NEW k \in Types, Revise(k)
      PROVE  CaptureTypeOK'
  <2>1. [snapshot[k] EXCEPT !.revised = TRUE] \in Snapshot
    BY <1>7 DEF Revise, Snapshot
  <2>2. snapshot' \in [Types -> Snapshot \cup {NoSnapshot}]
    BY <1>7, <2>1 DEF Revise
  <2> QED
    BY <1>7, <2>2 DEF Revise
<1>8. CASE Elapse
  BY <1>8 DEF Elapse
<1>9. CASE UNCHANGED captureVars
  BY <1>9 DEF captureVars
<1> QED
  BY <1>1, <1>2, <1>3, <1>4, <1>5, <1>6, <1>7, <1>8, <1>9 DEF CaptureNext, Run

-----------------------------------------------------------------------------

\* A lease is taken over only when it is over by a clock that is not ahead of
\* the present one; and released only by its owner.
LEMMA CaptureStepLeased ==
  ASSUME CaptureInv, [CaptureNext]_captureVars, CaptureTypeOK'
  PROVE  ClocksPast' /\ YoungHasLease'
<1> USE TimesAreNat DEF CaptureInv, CaptureTypeOK, Instants
<1>1. ASSUME NEW s \in Schedulers, Poll(s)
      PROVE  ClocksPast' /\ YoungHasLease'
  BY <1>1 DEF Poll, Goes, ClocksPast, YoungHasLease
<1>2. ASSUME NEW s \in Schedulers, Calendar(s) \/ FetchFails(s) \/ Crash(s)
      PROVE  ClocksPast' /\ YoungHasLease'
  BY <1>2 DEF Calendar, FetchFails, Crash, Goes, Keep, ClocksPast, YoungHasLease
<1>3. ASSUME NEW s \in Schedulers, Recheck(s)
      PROVE  ClocksPast' /\ YoungHasLease'
  BY <1>3 DEF Recheck, Goes, Keep, ClocksPast, YoungHasLease
<1>4. ASSUME NEW s \in Schedulers, Save(s)
      PROVE  ClocksPast' /\ YoungHasLease'
  BY <1>4 DEF Save, Goes, Keep, ClocksPast, YoungHasLease
<1>5. ASSUME NEW s \in Schedulers, AcquireLease(s)
      PROVE  ClocksPast' /\ YoungHasLease'
  <2>1. ClocksPast'
    BY <1>5 DEF AcquireLease, Keep, ClocksPast
  <2>2. SUFFICES ASSUME NEW u \in Schedulers,
                        phase'[u] \in {"recheck", "fetching"},
                        instant' - current'[u] < LeaseTTL
                 PROVE  lease'[kind'[u]] = [owner |-> u, until |-> current'[u] + LeaseTTL]
    BY <2>1 DEF YoungHasLease
  <2>3. /\ instant' = instant /\ current' = current /\ kind' = kind
    BY <1>5 DEF AcquireLease, Keep
  <2>4. CASE u = s
    <3>1. Free(s) /\ lease' = [lease EXCEPT ![kind[s]] = [owner |-> s, until |-> current[s] + LeaseTTL]]
      BY <1>5, <2>2, <2>4 DEF AcquireLease, Goes
    <3> QED
      BY <2>3, <2>4, <3>1
  <2>5. CASE u # s
    <3>1. lease[kind[u]] = [owner |-> u, until |-> current[u] + LeaseTTL]
      BY <1>5, <2>2, <2>3, <2>5 DEF AcquireLease, Goes, YoungHasLease
    <3>2. CASE kind[u] # kind[s]
      BY <1>5, <2>3, <3>1, <3>2 DEF AcquireLease
    <3>3. CASE kind[u] = kind[s]
      <4>1. lease[kind[s]] # NoLease /\ lease[kind[s]].owner = u
            /\ lease[kind[s]].until = current[u] + LeaseTTL
        BY <3>1, <3>3, AbsentSnapshots DEF Lease
      <4>2. current[s] < current[u] + LeaseTTL
        BY <2>2, <2>3 DEF ClocksPast
      <4>3. ~Free(s)
        BY <4>1, <4>2, <2>5 DEF Free
      <4> QED
        BY <1>5, <2>3, <3>1, <4>3 DEF AcquireLease
    <3> QED
      BY <3>2, <3>3
  <2> QED
    BY <2>4, <2>5
<1>6. ASSUME NEW s \in Schedulers, ReleaseLease(s)
      PROVE  ClocksPast' /\ YoungHasLease'
  <2>1. ClocksPast'
    BY <1>6 DEF ReleaseLease, Keep, ClocksPast
  <2>2. SUFFICES ASSUME NEW u \in Schedulers,
                        phase'[u] \in {"recheck", "fetching"},
                        instant' - current'[u] < LeaseTTL
                 PROVE  lease'[kind'[u]] = [owner |-> u, until |-> current'[u] + LeaseTTL]
    BY <2>1 DEF YoungHasLease
  <2>3. u # s /\ lease[kind[u]] = [owner |-> u, until |-> current[u] + LeaseTTL]
    BY <1>6, <2>2 DEF ReleaseLease, Goes, Keep, YoungHasLease
  <2> QED
    BY <1>6, <2>3 DEF ReleaseLease, Released, Keep
<1>7. ASSUME NEW k \in Types, Revise(k)
      PROVE  ClocksPast' /\ YoungHasLease'
  BY <1>7 DEF Revise, ClocksPast, YoungHasLease
<1>8. CASE Elapse
  BY <1>8 DEF Elapse, ClocksPast, YoungHasLease
<1>9. CASE UNCHANGED captureVars
  BY <1>9 DEF captureVars, ClocksPast, YoungHasLease
<1> QED
  BY <1>1, <1>2, <1>3, <1>4, <1>5, <1>6, <1>7, <1>8, <1>9 DEF CaptureNext, Run

\* No variable leaves its domain, no clock is ahead, and whoever captures with
\* a young clock has the lease (run_once of any number of schedulers).
THEOREM CaptureInvariant == CaptureSpec => []CaptureInv
<1>1. CaptureInit => CaptureInv
  <2> SUFFICES ASSUME CaptureInit PROVE CaptureInv
    OBVIOUS
  <2>1. CaptureTypeOK
    BY CaptureInitTyped
  <2>2. ClocksPast /\ YoungHasLease
    BY DEF CaptureInit, ClocksPast, YoungHasLease
  <2> QED
    BY <2>1, <2>2 DEF CaptureInv
<1>2. CaptureInv /\ [CaptureNext]_captureVars => CaptureInv'
  BY CaptureStepTyped, CaptureStepLeased DEF CaptureInv
<1> QED
  BY <1>1, <1>2, PTL DEF CaptureSpec

\* Two schedulers that ask the upstream for the same snapshot at once: one of
\* them read its clock at least the life of a lease ago.
THEOREM ExclusiveCaptures == CaptureSpec => []CapturesExclusive
<1>1. CaptureInv => CapturesExclusive
  <2> SUFFICES ASSUME CaptureInv, NEW s \in Schedulers, NEW u \in Schedulers, s # u,
                      phase[s] = "fetching", phase[u] = "fetching", kind[s] = kind[u],
                      ~(instant - current[s] >= LeaseTTL), ~(instant - current[u] >= LeaseTTL)
               PROVE  FALSE
    BY DEF CapturesExclusive
  <2>1. instant - current[s] < LeaseTTL /\ instant - current[u] < LeaseTTL
    BY TimesAreNat DEF CaptureInv, CaptureTypeOK, Instants
  <2>2. /\ lease[kind[s]] = [owner |-> s, until |-> current[s] + LeaseTTL]
        /\ lease[kind[u]] = [owner |-> u, until |-> current[u] + LeaseTTL]
    BY <2>1 DEF CaptureInv, YoungHasLease
  <2> QED
    BY <2>2
<1> QED
  BY <1>1, CaptureInvariant, PTL

\* Whatever is captured later, the first snapshot of a type stays but for the
\* rows derived from it (save_snapshot looks again in its transaction).
THEOREM FirstKept == CaptureSpec => FirstCaptureKept
<1> DEFINE Kept(k) == /\ snapshot'[k] # NoSnapshot
                      /\ [snapshot'[k] EXCEPT !.revised = snapshot[k].revised] = snapshot[k]
           Step == \A k \in Types : snapshot[k] # NoSnapshot => Kept(k)
<1>1. CaptureTypeOK /\ [CaptureNext]_captureVars => [Step]_captureVars
  <2> SUFFICES ASSUME CaptureTypeOK, CaptureNext, NEW k \in Types, snapshot[k] # NoSnapshot
               PROVE  Kept(k)
    OBVIOUS
  <2>0. snapshot[k] \in Snapshot
    BY DEF CaptureTypeOK
  <2>1. CASE snapshot'[k] = snapshot[k]
    BY <2>0, <2>1 DEF Snapshot
  <2>2. ASSUME NEW s \in Schedulers, Save(s)
        PROVE  snapshot'[k] = snapshot[k]
    BY <2>2 DEF Save, Saved, CaptureTypeOK
  <2>3. CASE Revise(k)
    <3>1. snapshot'[k] = [snapshot[k] EXCEPT !.revised = TRUE]
      BY <2>3 DEF Revise, CaptureTypeOK
    <3>2. snapshot'[k] \in Snapshot
      BY <2>0, <3>1 DEF Snapshot
    <3>3. [snapshot'[k] EXCEPT !.revised = snapshot[k].revised] = snapshot[k]
      BY <2>0, <3>1 DEF Snapshot
    <3> QED
      BY <3>2, <3>3, AbsentSnapshots
  <2>4. ASSUME NEW l \in Types, l # k, Revise(l)
        PROVE  snapshot'[k] = snapshot[k]
    BY <2>4 DEF Revise, CaptureTypeOK
  <2>5. ASSUME NEW s \in Schedulers, Run(s), ~Save(s)
        PROVE  snapshot'[k] = snapshot[k]
    BY <2>5 DEF Run, Poll, Calendar, AcquireLease, Recheck, FetchFails, ReleaseLease, Crash
  <2>6. CASE Elapse
    BY <2>1, <2>6 DEF Elapse
  <2> QED
    BY <2>1, <2>2, <2>3, <2>4, <2>5, <2>6 DEF CaptureNext
<1>2. CaptureSpec => []CaptureTypeOK
  <2>1. CaptureInv => CaptureTypeOK
    BY DEF CaptureInv
  <2> QED
    BY <2>1, CaptureInvariant, PTL
<1> QED
  BY <1>1, <1>2, PTL DEF CaptureSpec, FirstCaptureKept

-----------------------------------------------------------------------------
(* The end of a batch. *)

Change == [batch : Batches, unlock : BOOLEAN, days : Retention, expires : Nat]

RetentionTyped ==
    /\ RetentionTypeOK
    /\ change \in Change \cup {NoChange}
    /\ \A d \in Deleters : stage[d] # "idle" => target[d] \in Batches

\* The row of a batch follows its runner; one that a deleter holds is finished.
RowsFollow ==
    \A b \in Batches :
        /\ runner[b] = "new" => ~Exists(b)
        /\ runner[b] = "running" => Busy(b)
        /\ Held(b) => runner[b] \in {"finishing", "over"}

\* A deletion that has begun shows; what it removed came back with the manifest.
Begun(d, b) == stage[d] \in {"marked", "emptied", "failing"} /\ target[d] = b

MarksShow ==
    \A d \in Deleters, b \in Batches :
        target[d] = b =>
            /\ stage[d] \in {"marked", "emptied"} /\ Exists(b) => row[b].cleanup # "active"
            /\ stage[d] = "emptied" /\ files[b] => b \in late

Honest ==
    \A b \in Batches :
        /\ runner[b] # "new" /\ ~Exists(b) /\ files[b] => b \in late
        /\ Exists(b) /\ row[b].cleanup = "active" => files[b]
        /\ Exists(b) /\ row[b].cleanup = "deleting" =>
               b \in forsaken \/ \E d \in Deleters : Begun(d, b)

\* What a deleter holds was due when it was chosen, and nobody has touched it.
StillDue ==
    \A b \in Batches :
        Exists(b) /\ b \notin touched =>
            /\ Held(b) => ~row[b].locked
            /\ b \in list \/ (stage[Cleaner] # "idle" /\ target[Cleaner] = b) => row[b].expires < now

RetentionInv == RetentionTyped /\ RowsFollow /\ MarksShow /\ Honest /\ StillDue

-----------------------------------------------------------------------------

\* The marks of an absent row and of no change are neither rows nor changes.
LEMMA AbsentBatches == NoRow \notin BatchRow /\ NoChange \notin Change
  BY DEF NoRow, NoChange, BatchRow, Change

LEMMA RowOf ==
  ASSUME RetentionTyped, NEW b \in Batches
  PROVE  Exists(b) <=> row[b] \in BatchRow
  BY AbsentBatches DEF RetentionTyped, RetentionTypeOK, Exists

LEMMA InitHasRetentionInv == RetentionInit => RetentionInv
<1> SUFFICES ASSUME RetentionInit PROVE RetentionInv
  OBVIOUS
<1>1. RetentionTyped
  BY RetentionIsNat DEF RetentionInit, RetentionTyped, RetentionTypeOK
<1>2. RowsFollow /\ MarksShow /\ Honest /\ StillDue
  BY DEF RetentionInit, RowsFollow, MarksShow, Honest, StillDue, Exists, Held
<1> QED BY <1>1, <1>2 DEF RetentionInv

-----------------------------------------------------------------------------
(* What each action does to the rows. *)

LEMMA CreateEffect ==
  ASSUME RetentionTyped, NEW b \in Batches, CreateBatch(b)
  PROVE  /\ runner[b] = "new" /\ runner' = [runner EXCEPT ![b] = "running"]
         /\ row'[b] \in BatchRow /\ row' \in [Batches -> BatchRow \cup {NoRow}]
         /\ row'[b].cleanup = "active" /\ row'[b].finished = Never
         /\ \A c \in Batches : c # b => row'[c] = row[c]
         /\ files' = [files EXCEPT ![b] = TRUE]
<1>1. PICK days \in Retention :
        row' = [row EXCEPT ![b] = [locked |-> FALSE, cleanup |-> "active", days |-> days,
                                   finished |-> Never, expires |-> Never]]
  BY DEF CreateBatch
<1>2. Never \in Nat
  BY RetentionIsNat DEF Never
<1>3. [locked |-> FALSE, cleanup |-> "active", days |-> days,
       finished |-> Never, expires |-> Never] \in BatchRow
  BY <1>2 DEF BatchRow
<1> QED BY <1>1, <1>3 DEF CreateBatch, RetentionTyped, RetentionTypeOK

LEMMA FinishEffect ==
  ASSUME RetentionTyped, NEW b \in Batches, row[b] \in BatchRow, FinishBatch(b)
  PROVE  /\ runner[b] = "running" /\ runner' = [runner EXCEPT ![b] = "finishing"]
         /\ row'[b] \in BatchRow /\ row' \in [Batches -> BatchRow \cup {NoRow}]
         /\ row'[b].cleanup = row[b].cleanup /\ row'[b].finished # Never
         /\ \A c \in Batches : c # b => row'[c] = row[c]
<1>1. PICK expires \in {now + row[b].days, Never} :
        row' = [row EXCEPT ![b].finished = now, ![b].expires = expires]
  BY DEF FinishBatch
<1>2. now \in Nat /\ now \in 0..MaxNow /\ Never \in Nat /\ now # Never
  BY RetentionIsNat DEF Never, RetentionTyped, RetentionTypeOK
<1>3. row[b].days \in Nat
  BY RetentionIsNat DEF BatchRow
<1>4. expires \in Nat
  BY <1>1, <1>2, <1>3
<1> DEFINE r == [row[b] EXCEPT !.finished = now, !.expires = expires]
<1>5. r \in BatchRow /\ r.cleanup = row[b].cleanup /\ r.finished = now
  BY <1>2, <1>4 DEF BatchRow
<1>6. row' = [row EXCEPT ![b] = r]
  BY <1>1 DEF RetentionTyped, RetentionTypeOK
<1> HIDE DEF r
<1> QED BY <1>2, <1>5, <1>6 DEF FinishBatch, RetentionTyped, RetentionTypeOK

\* An administrator writes another row, which is as finished and as deleted.
LEMMA UpdateEffect ==
  ASSUME RetentionTyped, NEW b \in Batches, NEW r, Update(b, r),
         Exists(b) => /\ r \in BatchRow /\ r.cleanup = row[b].cleanup
                      /\ r.finished = row[b].finished
  PROVE  /\ row' \in [Batches -> BatchRow \cup {NoRow}]
         /\ \A c \in Batches :
               /\ Exists(c)' <=> Exists(c)
               /\ Exists(c) => /\ row'[c].cleanup = row[c].cleanup
                               /\ row'[c].finished = row[c].finished
               /\ c # b \/ ~Exists(b) => row'[c] = row[c]
         /\ touched' = IF Held(b) THEN touched \cup {b} ELSE touched
         /\ UNCHANGED <<now, files, runner, stage, target, list, late, forsaken>>
<1>1. CASE Exists(b)
  <2>1. row' = [row EXCEPT ![b] = r] /\ r \in BatchRow /\ r # NoRow
    BY <1>1, AbsentBatches DEF Update
  <2> QED BY <1>1, <2>1 DEF Update, RetentionTyped, RetentionTypeOK, Exists, deleterVars
<1>2. CASE ~Exists(b)
  BY <1>2 DEF Update, RetentionTyped, RetentionTypeOK, Exists, deleterVars
<1> QED BY <1>1, <1>2

LEMMA LockIsUpdate ==
  ASSUME RetentionTyped, NEW b \in Batches, LockBatch(b)
  PROVE  LET r == [row[b] EXCEPT !.locked = TRUE]
         IN  /\ Update(b, r) /\ r \in BatchRow
             /\ r.cleanup = row[b].cleanup /\ r.finished = row[b].finished
<1>1. row[b] \in BatchRow
  BY RowOf DEF LockBatch
<1> QED BY <1>1 DEF LockBatch, BatchRow

LEMMA EndIsUpdate ==
  ASSUME RetentionTyped, EndChange
  PROVE  LET b == change.batch
             r == Written(row[change.batch])
         IN  /\ b \in Batches /\ Update(b, r)
             /\ Exists(b) => /\ r \in BatchRow /\ r.cleanup = row[b].cleanup
                             /\ r.finished = row[b].finished
<1>1. change \in Change
  BY DEF EndChange, RetentionTyped
<1>2. /\ change.batch \in Batches /\ change.unlock \in BOOLEAN
      /\ change.days \in Retention /\ change.expires \in Nat
  BY <1>1 DEF Change
<1>3. ASSUME NEW r \in BatchRow
      PROVE  /\ [r EXCEPT !.locked = FALSE, !.expires = change.expires] \in BatchRow
             /\ [r EXCEPT !.days = change.days, !.expires = change.expires] \in BatchRow
  BY <1>2 DEF BatchRow
<1>4. ASSUME Exists(change.batch)
      PROVE  /\ Written(row[change.batch]) \in BatchRow
             /\ Written(row[change.batch]).cleanup = row[change.batch].cleanup
             /\ Written(row[change.batch]).finished = row[change.batch].finished
  <2>1. row[change.batch] \in BatchRow
    BY <1>2, <1>4, RowOf
  <2>2. Written(row[change.batch]) \in BatchRow
    BY <2>1, <1>3 DEF Written
  <2> QED BY <2>1, <2>2 DEF Written, BatchRow
<1> QED BY <1>2, <1>4 DEF EndChange

-----------------------------------------------------------------------------
(* The life of a batch. *)

LEMMA CreateKeeps ==
  ASSUME RetentionInv, NEW b \in Batches, CreateBatch(b)
  PROVE  RetentionInv'
<1> USE DEF RetentionInv
<1>0. /\ runner[b] = "new" /\ runner' = [runner EXCEPT ![b] = "running"]
      /\ row'[b] \in BatchRow /\ row' \in [Batches -> BatchRow \cup {NoRow}]
      /\ row'[b].cleanup = "active" /\ row'[b].finished = Never
      /\ \A c \in Batches : c # b => row'[c] = row[c]
      /\ files' = [files EXCEPT ![b] = TRUE]
  BY CreateEffect
<1>1. UNCHANGED <<now, stage, target, list, change, touched, late, forsaken>>
  BY DEF CreateBatch, deleterVars, historyVars
<1>2. RetentionTyped'
  BY <1>0, <1>1 DEF RetentionTyped, RetentionTypeOK
<1>3. \A c \in Batches : Held(c)' <=> Held(c)
  BY <1>1 DEF Held
<1>4. ~Held(b) /\ ~Exists(b) /\ Exists(b)' /\ row'[b] # NoRow
  BY <1>0, AbsentBatches DEF RowsFollow, Exists
<1>5. \A c \in Batches : c # b => (Exists(c)' <=> Exists(c)) /\ (Busy(c)' <=> Busy(c)) /\ row'[c] = row[c]
  BY <1>0 DEF Exists, Busy
<1>6. RowsFollow'
  BY <1>0, <1>3, <1>4, <1>5 DEF RowsFollow, RetentionTyped, RetentionTypeOK, Busy
<1>7. \A d \in Deleters : stage[d] # "idle" => target[d] # b
  BY <1>4 DEF Held
<1>8. MarksShow'
  BY <1>0, <1>1, <1>5, <1>7 DEF MarksShow, RetentionTyped, RetentionTypeOK
<1>9. Honest'
  BY <1>0, <1>1, <1>4, <1>5 DEF Honest, RetentionTyped, RetentionTypeOK, Begun
<1>a. ~(b \in list \/ (stage[Cleaner] # "idle" /\ target[Cleaner] = b))
  BY <1>4 DEF Held, Deleters
<1>10. StillDue'
  BY <1>1, <1>3, <1>4, <1>5, <1>a DEF StillDue
<1> QED BY <1>2, <1>6, <1>8, <1>9, <1>10

LEMMA FinishKeeps ==
  ASSUME RetentionInv, NEW b \in Batches, FinishBatch(b)
  PROVE  RetentionInv'
<1> USE DEF RetentionInv
<1>a. runner[b] = "running" /\ Busy(b)
  BY DEF FinishBatch, RowsFollow
<1>b. row[b] \in BatchRow
  BY <1>a, RowOf DEF Busy
<1>0. /\ runner' = [runner EXCEPT ![b] = "finishing"]
      /\ row'[b] \in BatchRow /\ row' \in [Batches -> BatchRow \cup {NoRow}]
      /\ row'[b].cleanup = row[b].cleanup /\ row'[b].finished # Never
      /\ \A c \in Batches : c # b => row'[c] = row[c]
  BY <1>b, FinishEffect
<1>1. UNCHANGED <<now, files, stage, target, list, change, touched, late, forsaken>>
  BY DEF FinishBatch, deleterVars, historyVars
<1>2. RetentionTyped'
  BY <1>0, <1>1 DEF RetentionTyped, RetentionTypeOK
<1>3. \A c \in Batches : Held(c)' <=> Held(c)
  BY <1>1 DEF Held
<1>4. ~Held(b) /\ Exists(b) /\ Exists(b)'
  BY <1>0, <1>a, AbsentBatches DEF RowsFollow, Exists, Busy
<1>5. \A c \in Batches : c # b => (Exists(c)' <=> Exists(c)) /\ (Busy(c)' <=> Busy(c)) /\ row'[c] = row[c]
  BY <1>0 DEF Exists, Busy
<1>6. RowsFollow'
  BY <1>0, <1>3, <1>4, <1>5 DEF RowsFollow, RetentionTyped, RetentionTypeOK
<1>7. MarksShow'
  BY <1>0, <1>1, <1>4, <1>5 DEF MarksShow
<1>8. Honest'
  BY <1>0, <1>1, <1>4, <1>5, <1>a DEF Honest, RetentionTyped, RetentionTypeOK, Begun
<1>c. ~(b \in list \/ (stage[Cleaner] # "idle" /\ target[Cleaner] = b))
  BY <1>4 DEF Held, Deleters
<1>9. StillDue'
  BY <1>1, <1>3, <1>4, <1>5, <1>c DEF StillDue
<1> QED BY <1>2, <1>6, <1>7, <1>8, <1>9

LEMMA ManifestKeeps ==
  ASSUME RetentionInv, NEW b \in Batches, WriteManifest(b)
  PROVE  RetentionInv'
<1> USE DEF RetentionInv
<1>0. /\ runner[b] = "finishing" /\ runner' = [runner EXCEPT ![b] = "over"]
      /\ files' = [files EXCEPT ![b] = TRUE]
      /\ late' = IF files[b] THEN late ELSE late \cup {b}
  BY DEF WriteManifest
<1>1. UNCHANGED <<now, row, stage, target, list, change, touched, forsaken>>
  BY DEF WriteManifest, deleterVars, historyVars
<1>2. RetentionTyped'
  BY <1>0, <1>1 DEF RetentionTyped, RetentionTypeOK
<1>3. \A c \in Batches : (Held(c)' <=> Held(c)) /\ (Exists(c)' <=> Exists(c)) /\ (Busy(c)' <=> Busy(c))
  BY <1>1 DEF Held, Exists, Busy
<1>6. RowsFollow'
  BY <1>0, <1>3 DEF RowsFollow, RetentionTyped, RetentionTypeOK
<1>7. MarksShow'
  BY <1>0, <1>1, <1>3 DEF MarksShow, RetentionTyped, RetentionTypeOK
<1>8. Honest'
  BY <1>0, <1>1, <1>3 DEF Honest, RetentionTyped, RetentionTypeOK, Begun
<1>9. StillDue'
  BY <1>1, <1>3 DEF StillDue
<1> QED BY <1>2, <1>6, <1>7, <1>8, <1>9

-----------------------------------------------------------------------------
(* The administrator's changes. *)

LEMMA UpdateKeeps ==
  ASSUME RetentionInv, NEW b \in Batches, NEW r, Update(b, r),
         Exists(b) => /\ r \in BatchRow /\ r.cleanup = row[b].cleanup
                      /\ r.finished = row[b].finished,
         change' \in {change, NoChange}
  PROVE  RetentionInv'
<1> USE DEF RetentionInv
<1>0. /\ row' \in [Batches -> BatchRow \cup {NoRow}]
      /\ \A c \in Batches :
            /\ Exists(c)' <=> Exists(c)
            /\ Exists(c) => /\ row'[c].cleanup = row[c].cleanup
                            /\ row'[c].finished = row[c].finished
            /\ c # b \/ ~Exists(b) => row'[c] = row[c]
      /\ touched' = IF Held(b) THEN touched \cup {b} ELSE touched
      /\ UNCHANGED <<now, files, runner, stage, target, list, late, forsaken>>
  BY UpdateEffect
<1>2. RetentionTyped'
  BY <1>0 DEF RetentionTyped, RetentionTypeOK
<1>3. \A c \in Batches : (Held(c)' <=> Held(c)) /\ (Busy(c)' <=> Busy(c))
  BY <1>0 DEF Held, Busy
<1>6. RowsFollow'
  BY <1>0, <1>3 DEF RowsFollow
<1>7. MarksShow'
  BY <1>0 DEF MarksShow
<1>8. Honest'
  BY <1>0 DEF Honest, Begun
<1>9. StillDue'
  <2> SUFFICES ASSUME NEW c \in Batches, Exists(c)', c \notin touched'
               PROVE  /\ Held(c)' => ~row'[c].locked
                      /\ c \in list' \/ (stage'[Cleaner] # "idle" /\ target'[Cleaner] = c) => row'[c].expires < now'
    BY DEF StillDue
  <2>1. c \notin touched /\ Exists(c)
    BY <1>0
  <2>2. CASE c # b
    BY <1>0, <1>3, <2>1, <2>2 DEF StillDue
  <2>3. CASE c = b
    <3>1. ~Held(b)
      BY <1>0, <2>3
    <3>2. ~(b \in list \/ (stage[Cleaner] # "idle" /\ target[Cleaner] = b))
      BY <3>1 DEF Held, Deleters
    <3> QED BY <1>0, <1>3, <2>3, <3>1, <3>2
  <2> QED BY <2>2, <2>3
<1> QED BY <1>2, <1>6, <1>7, <1>8, <1>9

LEMMA LockKeeps ==
  ASSUME RetentionInv, NEW b \in Batches, LockBatch(b)
  PROVE  RetentionInv'
<1> DEFINE r == [row[b] EXCEPT !.locked = TRUE]
<1>1. /\ Update(b, r) /\ r \in BatchRow
      /\ r.cleanup = row[b].cleanup /\ r.finished = row[b].finished
  BY LockIsUpdate DEF RetentionInv
<1>2. change' = change
  BY DEF LockBatch
<1> HIDE DEF r
<1> QED BY <1>1, <1>2, UpdateKeeps

LEMMA EndKeeps ==
  ASSUME RetentionInv, EndChange
  PROVE  RetentionInv'
<1> DEFINE b == change.batch
           r == Written(row[change.batch])
<1>1. /\ b \in Batches /\ Update(b, r)
      /\ Exists(b) => /\ r \in BatchRow /\ r.cleanup = row[b].cleanup
                      /\ r.finished = row[b].finished
  BY EndIsUpdate DEF RetentionInv
<1>2. change' = NoChange
  BY DEF EndChange
<1> HIDE DEF b, r
<1> QED BY <1>1, <1>2, UpdateKeeps

\* Reading the row changes nothing of it.
LEMMA BeginKeeps ==
  ASSUME RetentionInv, NEW b \in Batches, Unlock(b) \/ SetRetentionDays(b)
  PROVE  RetentionInv'
<1> USE DEF RetentionInv
<1>1. row[b] \in BatchRow
  BY RowOf DEF Unlock, SetRetentionDays, BeginChange
<1>2. /\ now \in Nat /\ row[b].days \in Retention /\ row[b].days \in Nat
      /\ row[b].expires \in Nat /\ row[b].finished \in Nat
  <2>1. now \in Nat /\ Never \in Nat /\ \A i \in 0..MaxNow : i \in Nat
    BY RetentionIsNat DEF RetentionTyped, RetentionTypeOK, Never
  <2>2. row[b].days \in Retention /\ row[b].expires \in Nat /\ row[b].finished \in 0..MaxNow \cup {Never}
    BY <1>1 DEF BatchRow
  <2> QED BY <2>1, <2>2, RetentionIsNat
<1>3. change' \in Change
  <2>1. CASE Unlock(b)
    BY <1>2, <2>1 DEF Unlock, BeginChange, Change
  <2>2. CASE SetRetentionDays(b)
    <3>1. PICK days \in Retention :
            change' = [batch |-> b, unlock |-> FALSE, days |-> days,
                       expires |-> IF row[b].locked \/ Busy(b) THEN row[b].expires
                                   ELSE row[b].finished + days]
      BY <2>2 DEF SetRetentionDays, BeginChange
    <3>2. days \in Nat
      BY RetentionIsNat
    <3> QED BY <1>2, <3>1, <3>2 DEF Change
  <2> QED BY <2>1, <2>2
<1>4. UNCHANGED <<now, row, files, runner, stage, target, list, touched, late, forsaken>>
  BY DEF Unlock, SetRetentionDays, BeginChange, deleterVars, historyVars
<1>5. RetentionTyped'
  BY <1>3, <1>4 DEF RetentionTyped, RetentionTypeOK
<1>6. (RowsFollow /\ MarksShow /\ Honest /\ StillDue)'
  BY <1>4 DEF RowsFollow, MarksShow, Honest, StillDue, Exists, Busy, Held, Begun
<1> QED BY <1>5, <1>6

-----------------------------------------------------------------------------
(* Deletion. *)

\* Choosing changes what is held: batches that are finished and not locked.
LEMMA ChooseKeeps ==
  ASSUME RetentionInv, BeginCleanup \/ NextOfList \/ \E b \in Managed : BeginDelete(b)
  PROVE  RetentionInv'
<1> USE DEF RetentionInv
<1>1. UNCHANGED <<now, row, files, runner, change, touched, late, forsaken>>
  BY DEF BeginCleanup, NextOfList, BeginDelete, historyVars
<1>2. \A c \in Batches : (Exists(c)' <=> Exists(c)) /\ (Busy(c)' <=> Busy(c))
  BY <1>1 DEF Exists, Busy
<1>3. CASE BeginCleanup
  <2>1. list' = Expired /\ UNCHANGED <<stage, target>>
    BY <1>3 DEF BeginCleanup
  <2>2. \A c \in Batches : c \in list' =>
           Exists(c) /\ ~Busy(c) /\ ~row[c].locked /\ row[c].expires < now
    BY <2>1 DEF Expired
  <2>3. \A c \in Batches : Held(c)' => Held(c) \/ c \in list'
    BY <2>1 DEF Held
  <2>4. RetentionTyped'
    BY <1>1, <2>1 DEF RetentionTyped, RetentionTypeOK, Expired
  <2>5. RowsFollow'
    BY <1>1, <1>2, <2>2, <2>3 DEF RowsFollow, RetentionTyped, RetentionTypeOK
  <2>6. MarksShow' /\ Honest'
    BY <1>1, <1>2, <2>1 DEF MarksShow, Honest, Begun
  <2>7. StillDue'
    BY <1>1, <1>2, <2>1, <2>2, <2>3 DEF StillDue
  <2> QED BY <2>4, <2>5, <2>6, <2>7
<1>4. CASE NextOfList
  <2>1. PICK b \in list : list' = list \ {b} /\ At(Cleaner, "chosen", b)
    BY <1>4 DEF NextOfList
  <2>2. b \in Batches /\ Held(b) /\ stage[Cleaner] = "idle"
    BY <1>4 DEF NextOfList, RetentionTyped, RetentionTypeOK, Held
  <2>3. /\ stage' = [stage EXCEPT ![Cleaner] = "chosen"]
        /\ target' = [target EXCEPT ![Cleaner] = b]
    BY <2>1 DEF At
  <2>4. RetentionTyped'
    BY <1>1, <2>1, <2>2, <2>3 DEF RetentionTyped, RetentionTypeOK
  <2>5. \A c \in Batches : Held(c)' => Held(c)
    BY <2>1, <2>2, <2>3 DEF Held, RetentionTyped, RetentionTypeOK
  <2>6. RowsFollow'
    BY <1>1, <1>2, <2>5 DEF RowsFollow
  <2>7. MarksShow'
    BY <1>1, <1>2, <2>3 DEF MarksShow, RetentionTyped, RetentionTypeOK
  <2>8. Honest'
    BY <1>1, <1>2, <2>2, <2>3 DEF Honest, Begun, RetentionTyped, RetentionTypeOK
  <2>9. StillDue'
    <3>1. \A c \in Batches : c \in list' \/ (stage'[Cleaner] # "idle" /\ target'[Cleaner] = c) => c \in list
      BY <2>1, <2>3 DEF RetentionTyped, RetentionTypeOK, Deleters
    <3> QED BY <1>1, <1>2, <2>5, <3>1 DEF StillDue
  <2> QED BY <2>4, <2>6, <2>7, <2>8, <2>9
<1>5. CASE \E b \in Managed : BeginDelete(b)
  <2>1. PICK b \in Managed : BeginDelete(b)
    BY <1>5
  <2>2. /\ b \in Batches /\ stage[Admin] = "idle" /\ list' = list
        /\ Exists(b) /\ ~row[b].locked /\ ~Busy(b)
    BY <2>1, ParentIsBatch DEF BeginDelete
  <2>3. /\ stage' = [stage EXCEPT ![Admin] = "chosen"]
        /\ target' = [target EXCEPT ![Admin] = b]
    BY <2>1 DEF BeginDelete, At
  <2>4. RetentionTyped'
    BY <1>1, <2>2, <2>3 DEF RetentionTyped, RetentionTypeOK
  <2>5. \A c \in Batches : Held(c)' => Held(c) \/ c = b
    BY <2>2, <2>3 DEF Held, RetentionTyped, RetentionTypeOK
  <2>6. RowsFollow'
    BY <1>1, <1>2, <2>2, <2>5 DEF RowsFollow, RetentionTyped, RetentionTypeOK
  <2>7. MarksShow'
    BY <1>1, <1>2, <2>3 DEF MarksShow, RetentionTyped, RetentionTypeOK
  <2>8. Honest'
    BY <1>1, <1>2, <2>2, <2>3 DEF Honest, Begun, RetentionTyped, RetentionTypeOK
  <2>9. StillDue'
    <3>1. stage'[Cleaner] = stage[Cleaner] /\ target'[Cleaner] = target[Cleaner]
      BY <2>3 DEF RetentionTyped, RetentionTypeOK, Deleters, Cleaner, Admin
    <3> QED BY <1>1, <1>2, <2>2, <2>5, <3>1 DEF StillDue
  <2> QED BY <2>4, <2>6, <2>7, <2>8, <2>9
<1> QED BY <1>3, <1>4, <1>5

\* A step of a deletion holds nothing that was not held; the Cleaner its own.
LEMMA HeldBefore ==
  ASSUME RetentionTyped, NEW d \in Deleters, NEW next, NEW b,
         stage[d] # "idle", b = target[d] \/ next = "idle", At(d, next, b), list' \subseteq list
  PROVE  \A c \in Batches :
           /\ Held(c)' => Held(c)
           /\ c \in list' \/ (stage'[Cleaner] # "idle" /\ target'[Cleaner] = c) =>
                 c \in list \/ (stage[Cleaner] # "idle" /\ target[Cleaner] = c)
<1>1. \A e \in Deleters : stage'[e] # "idle" => stage[e] # "idle" /\ target'[e] = target[e]
  BY DEF At, RetentionTyped, RetentionTypeOK
<1> QED BY <1>1 DEF Held, Deleters

\* So a step that changes only how far the deletion of finished rows has come
\* keeps what follows from the runner, and what was due.
LEMMA DeletionStepKeeps ==
  ASSUME RetentionInv,
         \A c \in Batches : Held(c)' => Held(c),
         \A c \in Batches :
           c \in list' \/ (stage'[Cleaner] # "idle" /\ target'[Cleaner] = c) =>
              c \in list \/ (stage[Cleaner] # "idle" /\ target[Cleaner] = c),
         \A c \in Batches :
           /\ Exists(c)' => /\ Exists(c)
                            /\ row'[c].finished = row[c].finished
                            /\ row'[c].locked = row[c].locked
                            /\ row'[c].expires = row[c].expires
           /\ Exists(c) /\ ~Exists(c)' => Held(c),
         UNCHANGED <<runner, touched>>, now' \in Nat, now' >= now
  PROVE  RowsFollow' /\ StillDue'
<1> USE DEF RetentionInv
<1>1. RowsFollow'
  BY DEF RowsFollow, Busy
<1>2. StillDue'
  <2> SUFFICES ASSUME NEW c \in Batches, Exists(c)', c \notin touched'
               PROVE  /\ Held(c)' => ~row'[c].locked
                      /\ c \in list' \/ (stage'[Cleaner] # "idle" /\ target'[Cleaner] = c) => row'[c].expires < now'
    BY DEF StillDue
  <2>1. Exists(c) /\ c \notin touched
    OBVIOUS
  <2>2. row[c].expires \in Nat /\ now \in Nat
    BY <2>1, RowOf DEF BatchRow, RetentionTyped, RetentionTypeOK
  <2> QED BY <2>1, <2>2 DEF StillDue
<1> QED BY <1>1, <1>2

LEMMA MarkKeeps ==
  ASSUME RetentionInv, NEW d \in Deleters, Mark(d), NEW b \in Batches, b = target[d]
  PROVE  RetentionInv'
<1> USE DEF RetentionInv
<1>1. /\ stage[d] = "chosen" /\ b \in Batches /\ Held(b)
      /\ UNCHANGED <<now, files, runner, list, change, touched, late, forsaken>>
  BY DEF Mark, historyVars, RetentionTyped, Held
<1>2. CASE Exists(b) /\ row' = [row EXCEPT ![b].cleanup = "deleting"] /\ At(d, "marked", b)
  <2> DEFINE r == [row[b] EXCEPT !.cleanup = "deleting"]
  <2>1. /\ r \in BatchRow /\ r.cleanup = "deleting" /\ r.finished = row[b].finished
        /\ r.locked = row[b].locked /\ r.expires = row[b].expires
    BY <1>1, <1>2, RowOf DEF BatchRow
  <2>2. row' = [row EXCEPT ![b] = r]
    BY <1>2 DEF RetentionTyped, RetentionTypeOK
  <2> HIDE DEF r
  <2>3. /\ row'[b] = r /\ \A c \in Batches : c # b => row'[c] = row[c]
        /\ \A c \in Batches : Exists(c)' <=> Exists(c)
    BY <1>1, <1>2, <2>1, <2>2, AbsentBatches DEF RetentionTyped, RetentionTypeOK, Exists
  <2>4. /\ stage' = [stage EXCEPT ![d] = "marked"]
        /\ target' = [target EXCEPT ![d] = b]
    BY <1>2 DEF At
  <2>5. RetentionTyped'
    BY <1>1, <2>1, <2>2, <2>4 DEF RetentionTyped, RetentionTypeOK
  <2>6. RowsFollow' /\ StillDue'
    <3>1. now' \in Nat /\ now' >= now
      BY <1>1 DEF RetentionTyped, RetentionTypeOK
    <3>2. list' \subseteq list
      BY <1>1
    <3>3. \A c \in Batches : row'[c].finished = row[c].finished
                              /\ row'[c].locked = row[c].locked /\ row'[c].expires = row[c].expires
      BY <2>1, <2>3
    <3> QED BY <1>1, <1>2, <2>3, <3>1, <3>2, <3>3, HeldBefore, DeletionStepKeeps
  <2>7. MarksShow'
    BY <1>1, <2>1, <2>3, <2>4 DEF MarksShow, RetentionTyped, RetentionTypeOK
  <2>8. Honest'
    <3>1. Begun(d, b)' /\ \A e \in Deleters, c \in Batches : Begun(e, c) => Begun(e, c)'
      BY <1>1, <2>4 DEF Begun, RetentionTyped, RetentionTypeOK
    <3> QED BY <1>1, <2>1, <2>3, <3>1 DEF Honest
  <2> QED BY <2>5, <2>6, <2>7, <2>8
<1>3. CASE ~Exists(b) /\ At(d, "failing", b) /\ UNCHANGED row
  <2>4. /\ stage' = [stage EXCEPT ![d] = "failing"]
        /\ target' = [target EXCEPT ![d] = b]
    BY <1>3 DEF At
  <2>5. RetentionTyped'
    BY <1>1, <1>3, <2>4 DEF RetentionTyped, RetentionTypeOK
  <2>6. RowsFollow' /\ StillDue'
    <3>1. now' \in Nat /\ now' >= now /\ list' \subseteq list
      BY <1>1 DEF RetentionTyped, RetentionTypeOK
    <3>2. \A c \in Batches : Exists(c)' <=> Exists(c)
      BY <1>3 DEF Exists
    <3> QED BY <1>1, <1>3, <3>1, <3>2, HeldBefore, DeletionStepKeeps
  <2>7. MarksShow'
    BY <1>1, <1>3, <2>4 DEF MarksShow, RetentionTyped, RetentionTypeOK, Exists
  <2>8. Honest'
    <3>1. \A e \in Deleters, c \in Batches : Begun(e, c) => Begun(e, c)'
      BY <1>1, <2>4 DEF Begun, RetentionTyped, RetentionTypeOK
    <3> QED BY <1>1, <1>3, <3>1 DEF Honest, Exists
  <2> QED BY <2>5, <2>6, <2>7, <2>8
<1> QED BY <1>2, <1>3 DEF Mark

\* Once the directory is gone, only a manifest brings it back.
LEMMA RemoveFilesKeeps ==
  ASSUME RetentionInv, NEW d \in Deleters, RemoveFiles(d), NEW b \in Batches, b = target[d]
  PROVE  RetentionInv'
<1> USE DEF RetentionInv
<1>1. /\ stage[d] = "marked" /\ b \in Batches /\ Held(b)
      /\ UNCHANGED <<now, row, runner, list, change, touched, late, forsaken>>
  BY DEF RemoveFiles, historyVars, RetentionTyped, Held
<1>2. PICK next \in {"emptied", "failing"} :
        /\ At(d, next, b)
        /\ files' = IF next = "emptied" THEN [files EXCEPT ![b] = FALSE] ELSE files
  BY DEF RemoveFiles
<1>4. /\ stage' = [stage EXCEPT ![d] = next]
      /\ target' = [target EXCEPT ![d] = b]
  BY <1>2 DEF At
<1>5. RetentionTyped'
  BY <1>1, <1>2, <1>4 DEF RetentionTyped, RetentionTypeOK
<1>6. RowsFollow' /\ StillDue'
  <2>1. now' \in Nat /\ now' >= now /\ list' \subseteq list
    BY <1>1 DEF RetentionTyped, RetentionTypeOK
  <2>2. \A c \in Batches : Exists(c)' <=> Exists(c)
    BY <1>1 DEF Exists
  <2> QED BY <1>1, <1>2, <2>1, <2>2, HeldBefore, DeletionStepKeeps
<1>7. MarksShow'
  BY <1>1, <1>2, <1>4 DEF MarksShow, RetentionTyped, RetentionTypeOK, Exists
<1>8. Honest'
  <2>1. \A e \in Deleters, c \in Batches : Begun(e, c) => Begun(e, c)'
    BY <1>1, <1>4 DEF Begun, RetentionTyped, RetentionTypeOK
  <2>2. Exists(b) => row[b].cleanup # "active"
    BY <1>1 DEF MarksShow
  <2>3. \A c \in Batches : (Exists(c)' <=> Exists(c)) /\ row'[c] = row[c] /\ (files'[c] => files[c])
                            /\ (c # b => files'[c] = files[c])
    BY <1>1, <1>2 DEF Exists, RetentionTyped, RetentionTypeOK
  <2> QED BY <1>1, <2>1, <2>2, <2>3 DEF Honest
<1> QED BY <1>5, <1>6, <1>7, <1>8

\* The row goes when the directory is gone, or back with the manifest.
LEMMA RemoveRowKeeps ==
  ASSUME RetentionInv, NEW d \in Deleters, RemoveRow(d), NEW b \in Batches, b = target[d]
  PROVE  RetentionInv'
<1> USE DEF RetentionInv
<1>1. /\ stage[d] = "emptied" /\ b \in Batches /\ Held(b)
      /\ UNCHANGED <<now, files, runner, list, change, touched, late, forsaken>>
  BY DEF RemoveRow, historyVars, RetentionTyped, Held
<1>2. CASE row' = [row EXCEPT ![b] = NoRow] /\ At(d, "idle", None)
  <2>3. /\ ~Exists(b)' /\ \A c \in Batches : c # b => row'[c] = row[c] /\ (Exists(c)' <=> Exists(c))
    BY <1>1, <1>2 DEF RetentionTyped, RetentionTypeOK, Exists
  <2>4. /\ stage' = [stage EXCEPT ![d] = "idle"]
        /\ target' = [target EXCEPT ![d] = None]
    BY <1>2 DEF At
  <2>5. RetentionTyped'
    BY <1>1, <1>2, <2>4 DEF RetentionTyped, RetentionTypeOK
  <2>6. RowsFollow' /\ StillDue'
    <3>1. now' \in Nat /\ now' >= now /\ list' \subseteq list
      BY <1>1 DEF RetentionTyped, RetentionTypeOK
    <3>2. \A c \in Batches :
            /\ Exists(c)' => /\ Exists(c)
                             /\ row'[c].finished = row[c].finished
                             /\ row'[c].locked = row[c].locked
                             /\ row'[c].expires = row[c].expires
            /\ Exists(c) /\ ~Exists(c)' => Held(c)
      BY <1>1, <2>3
    <3>3. /\ \A c \in Batches : Held(c)' => Held(c)
          /\ \A c \in Batches :
                c \in list' \/ (stage'[Cleaner] # "idle" /\ target'[Cleaner] = c) =>
                   c \in list \/ (stage[Cleaner] # "idle" /\ target[Cleaner] = c)
      BY <1>1, <1>2, <3>1, HeldBefore
    <3> QED BY <1>1, <3>1, <3>2, <3>3, DeletionStepKeeps
  <2>7. MarksShow'
    BY <1>1, <2>3, <2>4 DEF MarksShow, RetentionTyped, RetentionTypeOK
  <2>8. Honest'
    <3>1. \A e \in Deleters, c \in Batches : c # b /\ Begun(e, c) => Begun(e, c)'
      BY <2>4 DEF Begun, RetentionTyped, RetentionTypeOK
    <3>2. files[b] => b \in late
      BY <1>1 DEF MarksShow
    <3> QED BY <1>1, <2>3, <3>1, <3>2 DEF Honest
  <2> QED BY <2>5, <2>6, <2>7, <2>8
<1>3. CASE At(d, "failing", b) /\ UNCHANGED row
  <2>4. /\ stage' = [stage EXCEPT ![d] = "failing"]
        /\ target' = [target EXCEPT ![d] = b]
    BY <1>3 DEF At
  <2>5. RetentionTyped'
    BY <1>1, <1>3, <2>4 DEF RetentionTyped, RetentionTypeOK
  <2>6. RowsFollow' /\ StillDue'
    <3>1. now' \in Nat /\ now' >= now /\ list' \subseteq list
      BY <1>1 DEF RetentionTyped, RetentionTypeOK
    <3>2. \A c \in Batches : Exists(c)' <=> Exists(c)
      BY <1>3 DEF Exists
    <3> QED BY <1>1, <1>3, <3>1, <3>2, HeldBefore, DeletionStepKeeps
  <2>7. MarksShow'
    BY <1>1, <1>3, <2>4 DEF MarksShow, RetentionTyped, RetentionTypeOK, Exists
  <2>8. Honest'
    <3>1. \A e \in Deleters, c \in Batches : Begun(e, c) => Begun(e, c)'
      BY <1>1, <2>4 DEF Begun, RetentionTyped, RetentionTypeOK
    <3> QED BY <1>1, <1>3, <3>1 DEF Honest, Exists
  <2> QED BY <2>5, <2>6, <2>7, <2>8
<1> QED BY <1>2, <1>3 DEF RemoveRow

\* A failure is shown in the row, and ends the deletion.
LEMMA FailureKeeps ==
  ASSUME RetentionInv, NEW d \in Deleters, RecordFailure(d), NEW b \in Batches, b = target[d]
  PROVE  RetentionInv'
<1> DEFINE r == [row[b] EXCEPT !.cleanup = "delete_failed"]
<1> USE DEF RetentionInv
<1>1. /\ stage[d] = "failing" /\ b \in Batches /\ Held(b) /\ At(d, "idle", None)
      /\ UNCHANGED <<now, files, runner, list, change, touched, late, forsaken>>
  BY DEF RecordFailure, historyVars, RetentionTyped, Held
<1>2. row' = IF Exists(b) THEN [row EXCEPT ![b] = r] ELSE row
  BY DEF RecordFailure, RetentionTyped, RetentionTypeOK
<1>3. Exists(b) =>
        /\ r \in BatchRow /\ r.cleanup = "delete_failed" /\ r.finished = row[b].finished
        /\ r.locked = row[b].locked /\ r.expires = row[b].expires
  BY <1>1, RowOf DEF BatchRow
<1> HIDE DEF r
<1>4. /\ Exists(b) => row'[b] = r
      /\ \A c \in Batches : (c # b => row'[c] = row[c]) /\ (Exists(c)' <=> Exists(c))
  BY <1>1, <1>2, <1>3, AbsentBatches DEF RetentionTyped, RetentionTypeOK, Exists
<1>5. /\ stage' = [stage EXCEPT ![d] = "idle"]
      /\ target' = [target EXCEPT ![d] = None]
  BY <1>1 DEF At
<1>6. RetentionTyped'
  BY <1>1, <1>2, <1>3, <1>5 DEF RetentionTyped, RetentionTypeOK
<1>7. RowsFollow' /\ StillDue'
  <2>1. now' \in Nat /\ now' >= now /\ list' \subseteq list
    BY <1>1 DEF RetentionTyped, RetentionTypeOK
  <2>2. \A c \in Batches :
          Exists(c)' => /\ Exists(c)
                        /\ row'[c].finished = row[c].finished
                        /\ row'[c].locked = row[c].locked
                        /\ row'[c].expires = row[c].expires
    BY <1>3, <1>4
  <2>3. /\ \A c \in Batches : Held(c)' => Held(c)
        /\ \A c \in Batches :
              c \in list' \/ (stage'[Cleaner] # "idle" /\ target'[Cleaner] = c) =>
                 c \in list \/ (stage[Cleaner] # "idle" /\ target[Cleaner] = c)
    BY <1>1, <2>1, HeldBefore
  <2> QED BY <1>1, <1>4, <2>1, <2>2, <2>3, DeletionStepKeeps
<1>8. MarksShow'
  BY <1>1, <1>3, <1>4, <1>5 DEF MarksShow, RetentionTyped, RetentionTypeOK
<1>9. Honest'
  <2>1. \A e \in Deleters, c \in Batches : c # b /\ Begun(e, c) => Begun(e, c)'
    BY <1>5 DEF Begun, RetentionTyped, RetentionTypeOK
  <2> QED BY <1>1, <1>3, <1>4, <2>1 DEF Honest
<1> QED BY <1>6, <1>7, <1>8, <1>9

\* Who dies leaves the row as it is; the batch is remembered as forsaken.
LEMMA DieKeeps ==
  ASSUME RetentionInv, NEW d \in Deleters, Die(d)
  PROVE  RetentionInv'
<1> DEFINE b == target[d]
<1> USE DEF RetentionInv
<1>1. /\ stage[d] # "idle" /\ At(d, "idle", None)
      /\ forsaken' = IF stage[d] = "chosen" THEN forsaken ELSE forsaken \cup {b}
      /\ list' \subseteq list
      /\ UNCHANGED <<now, row, files, runner, change, touched, late>>
  BY DEF Die
<1>2. /\ stage' = [stage EXCEPT ![d] = "idle"]
      /\ target' = [target EXCEPT ![d] = None]
  BY <1>1 DEF At
<1>3. RetentionTyped'
  BY <1>1, <1>2 DEF RetentionTyped, RetentionTypeOK
<1>4. \A c \in Batches : Exists(c)' <=> Exists(c)
  BY <1>1 DEF Exists
<1>5. RowsFollow' /\ StillDue'
  <2>1. now' \in Nat /\ now' >= now
    BY <1>1 DEF RetentionTyped, RetentionTypeOK
  <2>3. /\ \A c \in Batches : Held(c)' => Held(c)
        /\ \A c \in Batches :
              c \in list' \/ (stage'[Cleaner] # "idle" /\ target'[Cleaner] = c) =>
                 c \in list \/ (stage[Cleaner] # "idle" /\ target[Cleaner] = c)
    BY <1>1, HeldBefore
  <2> QED BY <1>1, <1>4, <2>1, <2>3, DeletionStepKeeps
<1>6. MarksShow'
  BY <1>1, <1>2, <1>4 DEF MarksShow, RetentionTyped, RetentionTypeOK
<1>7. Honest'
  <2>1. \A e \in Deleters, c \in Batches : Begun(e, c) => Begun(e, c)' \/ c \in forsaken'
    BY <1>1, <1>2 DEF Begun, RetentionTyped, RetentionTypeOK
  <2> QED BY <1>1, <1>4, <2>1 DEF Honest
<1> QED BY <1>3, <1>5, <1>6, <1>7

LEMMA WaitKeeps ==
  ASSUME RetentionInv, Wait
  PROVE  RetentionInv'
<1> USE DEF RetentionInv
<1>1. /\ now' \in 0..MaxNow /\ now' \in Nat /\ now' >= now
      /\ UNCHANGED <<row, files, runner, stage, target, list, change, touched, late, forsaken>>
  BY RetentionIsNat DEF Wait, deleterVars, historyVars, RetentionTyped, RetentionTypeOK
<1>2. RetentionTyped'
  BY <1>1 DEF RetentionTyped, RetentionTypeOK
<1>3. \A c \in Batches : (Exists(c)' <=> Exists(c)) /\ (Held(c)' <=> Held(c))
  BY <1>1 DEF Exists, Held
<1>4. RowsFollow' /\ StillDue'
  BY <1>1, <1>3, DeletionStepKeeps
<1>5. MarksShow' /\ Honest'
  BY <1>1, <1>3 DEF MarksShow, Honest, Begun
<1> QED BY <1>2, <1>4, <1>5

-----------------------------------------------------------------------------

LEMMA NextKeepsRetentionInv == RetentionInv /\ [RetentionNext]_retentionVars => RetentionInv'
<1> SUFFICES ASSUME RetentionInv, [RetentionNext]_retentionVars PROVE RetentionInv'
  OBVIOUS
<1>1. ASSUME NEW b \in Batches, CreateBatch(b) \/ FinishBatch(b) \/ WriteManifest(b)
      PROVE  RetentionInv'
  BY <1>1, CreateKeeps, FinishKeeps, ManifestKeeps
<1>2. ASSUME NEW b \in Managed, LockBatch(b) \/ Unlock(b) \/ SetRetentionDays(b) \/ BeginDelete(b)
      PROVE  RetentionInv'
  BY <1>2, ParentIsBatch, LockKeeps, BeginKeeps, ChooseKeeps
<1>3. CASE EndChange \/ BeginCleanup \/ NextOfList \/ Wait
  BY <1>3, EndKeeps, ChooseKeeps, WaitKeeps
<1>4. ASSUME NEW d \in Deleters, Delete(d)
      PROVE  RetentionInv'
  <2>1. target[d] \in Batches
    BY <1>4 DEF Delete, Mark, RemoveFiles, RemoveRow, RecordFailure, Die, RetentionInv, RetentionTyped
  <2> QED
    BY <1>4, <2>1, MarkKeeps, RemoveFilesKeeps, RemoveRowKeeps, FailureKeeps, DieKeeps DEF Delete
<1>5. CASE UNCHANGED retentionVars
  BY <1>5 DEF retentionVars, deleterVars, historyVars, RetentionInv, RetentionTyped, RetentionTypeOK,
     RowsFollow, MarksShow, Honest, StillDue, Exists, Busy, Held, Begun
<1> QED BY <1>1, <1>2, <1>3, <1>4, <1>5 DEF RetentionNext

THEOREM RetentionInvariant == RetentionSpec => []RetentionInv
<1> QED BY InitHasRetentionInv, NextKeepsRetentionInv, PTL DEF RetentionSpec

\* Whatever is created, deleted, changed or dies on the way, rows, directories, deleters
\* and the list of the cleanup keep their types.
THEOREM RetentionTypeCorrect == RetentionSpec => []RetentionTypeOK
<1>1. RetentionInv => RetentionTypeOK
  BY DEF RetentionInv, RetentionTyped
<1> QED BY <1>1, RetentionInvariant, PTL

\* Whatever dies or fails: no deleted batch leaves results behind but by a late
\* manifest, an active one has its results, and one shown as being deleted has
\* somebody who deletes it or was forsaken.
THEOREM HonestDeletions == RetentionSpec => []DeletionsHonest
<1>1. RetentionInv => DeletionsHonest
  <2>1. \A d \in Deleters, b \in Batches : Begun(d, b) => stage[d] # "idle" /\ target[d] = b
    BY DEF Begun
  <2> QED BY <2>1 DEF RetentionInv, Honest, DeletionsHonest
<1> QED BY <1>1, RetentionInvariant, PTL

\* Only RemoveFiles removes results, of what its deleter holds.
THEOREM ResultsKept == RetentionSpec => KeptWhileDue
<1> DEFINE Kept(b) ==
             files[b] /\ ~files'[b] /\ Exists(b) /\ b \notin touched =>
                /\ ~row[b].locked
                /\ row[b].expires < now \/ (stage[Admin] = "marked" /\ target[Admin] = b)
           Step == \A b \in Batches : Kept(b)
<1>1. RetentionInv /\ [RetentionNext]_retentionVars => [Step]_retentionVars
  <2> SUFFICES ASSUME RetentionInv, RetentionNext, NEW b \in Batches,
                      files[b], ~files'[b], Exists(b), b \notin touched
               PROVE  /\ ~row[b].locked
                      /\ row[b].expires < now \/ (stage[Admin] = "marked" /\ target[Admin] = b)
    OBVIOUS
  <2>1. PICK d \in Deleters : RemoveFiles(d)
    <3>1. files' # files
      OBVIOUS
    <3>2. \A c \in Batches : ~CreateBatch(c) /\ ~WriteManifest(c)
      BY DEF CreateBatch, WriteManifest, RetentionInv, RetentionTyped, RetentionTypeOK
    <3>3. \A c \in Batches : ~FinishBatch(c)
      BY <3>1 DEF FinishBatch
    <3>4. \A c \in Managed : ~(LockBatch(c) \/ Unlock(c) \/ SetRetentionDays(c) \/ BeginDelete(c))
      BY <3>1 DEF LockBatch, Unlock, SetRetentionDays, BeginDelete, BeginChange, Update
    <3>5. ~(EndChange \/ BeginCleanup \/ NextOfList \/ Wait)
      BY <3>1 DEF EndChange, BeginCleanup, NextOfList, Wait, Update
    <3>6. \A d \in Deleters : ~(Mark(d) \/ RemoveRow(d) \/ RecordFailure(d) \/ Die(d))
      BY <3>1 DEF Mark, RemoveRow, RecordFailure, Die
    <3> QED BY <3>2, <3>3, <3>4, <3>5, <3>6 DEF RetentionNext, Delete
  <2>2. stage[d] = "marked" /\ target[d] = b
    BY <2>1 DEF RemoveFiles, RetentionInv, RetentionTyped, RetentionTypeOK
  <2>3. Held(b)
    BY <2>2 DEF Held
  <2>4. d = Cleaner => row[b].expires < now
    BY <2>2 DEF RetentionInv, StillDue
  <2> QED BY <2>2, <2>3, <2>4 DEF RetentionInv, StillDue, Deleters
<1> QED BY <1>1, RetentionInvariant, PTL DEF RetentionSpec, KeptWhileDue

-----------------------------------------------------------------------------
(* The members' table. *)

Stages == {"idle", "read", "publish", "upsert", "records", "import", "create", "fetch", "writeback"}
JobType ==
    [at : Stages, todo : SUBSET Members, read : [Members -> 0..MaxEdition], records : SUBSET SheetRows,
     member : Members \cup {NoMember}, row : 0..MaxSheet, good : BOOLEAN]
SheetRow == [member : Members \cup {NoMember}, person : People \cup {NoPerson}, edition : 0..MaxEdition]

ProfilesTyped ==
    /\ profile \in [Members -> Seq(People \cup {NoPerson})]
    /\ \A u \in Members : Edition(u) \in 0..MaxEdition

MembersTyped ==
    /\ ProfilesTyped
    /\ sheet \in [SheetRows -> SheetRow]
    /\ filled \subseteq Listed
    /\ missed \in [Members -> Nat]
    /\ job \in [Publishers -> JobType]
    /\ fileLock \in Publishers \cup {NoPublisher}
    /\ applicants \subseteq People
    /\ failures \in 0..MaxFailures

\* Whoever does anything has the lock.
UnderLock == \A p \in Publishers : job[p].at # "idle" => fileLock = p

\* A row shows the data of one edition of its member, or a visitor has filled it.
RowsTrue ==
    \A r \in SheetRows :
        IF Shows(r)
        THEN /\ sheet[r].member \in Members /\ sheet[r].edition <= Edition(sheet[r].member)
             /\ sheet[r].person = profile[sheet[r].member][sheet[r].edition]
        ELSE r \in Listed => r \in filled

\* The rows that publications have added for a member.
Made(u) == RowsOf(u) \ filled
MadeCounted == \A u \in Members : Cardinality(Made(u)) <= 1 + missed[u] /\ missed[u] <= failures

\* Some row of the member is as new as the publisher has read it.
UpToDate(p, u) == \E r \in RowsOf(u) : sheet[r].edition >= job[p].read[u]

Published(p) ==
    job[p].at \in {"publish", "upsert"} =>
        /\ \A u \in Members : job[p].read[u] > 0 =>
              /\ job[p].read[u] <= Edition(u)
              /\ \A r \in RowsOf(u) : sheet[r].edition <= job[p].read[u]
        /\ \A u \in job[p].todo : job[p].read[u] > 0
        /\ job[p].good =>
              \A u \in Members \ job[p].todo :
                 job[p].read[u] > 0 => UpToDate(p, u) \/ (job[p].at = "upsert" /\ u = job[p].member)

Found(p) ==
    job[p].at = "upsert" =>
        /\ job[p].member \in Members /\ job[p].read[job[p].member] > 0
        /\ IF job[p].row = 0 THEN Cardinality(Made(job[p].member)) <= missed[job[p].member]
           ELSE job[p].row \in RowsOf(job[p].member)

Linked(p) ==
    /\ job[p].at \in {"import", "create", "fetch", "writeback"} => job[p].records \subseteq Listed
    /\ job[p].at \in {"create", "fetch", "writeback"} => job[p].row \in Listed
    /\ job[p].at = "create" => ~Shows(job[p].row)
    /\ job[p].at \in {"fetch", "writeback"} =>
          /\ job[p].member \in Members /\ Edition(job[p].member) > 0
          /\ Shows(job[p].row) => sheet[job[p].row].member = job[p].member
    /\ job[p].at = "writeback" =>
          /\ job[p].read[job[p].member] > 0 /\ job[p].read[job[p].member] <= Edition(job[p].member)
          /\ sheet[job[p].row].edition <= job[p].read[job[p].member]

MembersInv ==
    /\ MembersTyped /\ UnderLock /\ RowsTrue /\ MadeCounted
    /\ \A p \in Publishers : Published(p) /\ Found(p) /\ Linked(p)

-----------------------------------------------------------------------------

LEMMA JobStep ==
  ASSUME MembersTyped, NEW p \in Publishers, NEW j \in JobType, job' = [job EXCEPT ![p] = j]
  PROVE  /\ job' \in [Publishers -> JobType] /\ job'[p] = j
         /\ \A q \in Publishers : q # p => job'[q] = job[q]
  BY DEF MembersTyped

LEMMA NoJobTyped == NoJob \in JobType
  BY BoundsAssumption DEF NoJob, JobType, Stages

LEMMA EmptyRowTyped == NoSheetRow \in SheetRow
  BY BoundsAssumption DEF NoSheetRow, SheetRow

\* Of two publishers one is idle.
LEMMA Alone ==
  ASSUME UnderLock, NEW p \in Publishers, job[p].at # "idle" \/ fileLock = NoPublisher
  PROVE  \A q \in Publishers : q # p => job[q].at = "idle"
  BY NamesAssumption DEF UnderLock

\* A publisher that is idle has nothing to keep.
LEMMA IdleKeeps ==
  ASSUME NEW p \in Publishers, job'[p].at \in {"idle", "read", "records"}
  PROVE  Published(p)' /\ Found(p)' /\ Linked(p)'
  BY DEF Published, Found, Linked

\* The rows that are counted are finitely many.
LEMMA MadeFinite ==
  ASSUME NEW u
  PROVE  IsFiniteSet(Made(u)) /\ Cardinality(Made(u)) \in Nat
<1>1. IsFiniteSet(SheetRows)
  BY FS_Interval, BoundsAssumption DEF SheetRows
<1>2. IsFiniteSet(Made(u))
  BY <1>1, FS_Subset DEF Made, RowsOf
<1> QED BY <1>2, FS_CardinalityType

\* What the types say of the numbers.
LEMMA MembersNumbers ==
  ASSUME MembersTyped
  PROVE  /\ \A u \in Members : Edition(u) \in Nat /\ missed[u] \in Nat
         /\ \A r \in SheetRows : sheet[r].edition \in Nat
         /\ \A p \in Publishers, u \in Members : job[p].read[u] \in Nat
         /\ failures \in Nat
  BY BoundsAssumption DEF MembersTyped, ProfilesTyped, SheetRow, JobType

LEMMA InitHasMembersInv == MembersInit => MembersInv
<1> SUFFICES ASSUME MembersInit PROVE MembersInv
  OBVIOUS
<1>1. ProfilesTyped
  BY BoundsAssumption DEF MembersInit, ProfilesTyped, Edition
<1>2. MembersTyped
  BY <1>1, NoJobTyped, EmptyRowTyped, BoundsAssumption DEF MembersInit, MembersTyped
<1>3. \A p \in Publishers : job[p].at = "idle"
  BY DEF MembersInit, NoJob
<1>4. RowsTrue
  BY DEF MembersInit, RowsTrue, NoSheetRow, Shows, Listed
<1>5. MadeCounted
  <2> SUFFICES ASSUME NEW u \in Members
               PROVE  Cardinality(Made(u)) <= 1 + missed[u] /\ missed[u] <= failures
    BY DEF MadeCounted
  <2>1. Made(u) = {}
    BY NamesAssumption DEF MembersInit, Made, RowsOf, NoSheetRow
  <2> QED BY <2>1, FS_EmptySet DEF MembersInit
<1> QED BY <1>2, <1>3, <1>4, <1>5 DEF MembersInv, UnderLock, Published, Found, Linked

-----------------------------------------------------------------------------
(* The local database and the visitors. *)

\* Every edition that was there is there, and there may be newer ones.
Newer ==
    /\ ProfilesTyped'
    /\ \A u \in Members :
          Edition(u)' >= Edition(u) /\ \A i \in 1..Edition(u) : profile'[u][i] = profile[u][i]

\* A new member changes nothing of the others.
LEMMA CreatedEffect ==
  ASSUME MembersTyped, NEW q \in People \cup {NoPerson}, Created(q)
  PROVE  /\ Newer
         /\ \E u \in Members \ Known :
               (\A v \in Members \ Known : u <= v) /\ profile' = [profile EXCEPT ![u] = <<q>>]
               /\ Edition(u)' = 1
<1>1. PICK u \in Members \ Known :
         (\A v \in Members \ Known : u <= v) /\ profile' = [profile EXCEPT ![u] = <<q>>]
  BY DEF Created
<1>2. Edition(u) = 0
  BY MembersNumbers DEF Known
<1>3. /\ profile' \in [Members -> Seq(People \cup {NoPerson})]
      /\ profile'[u] = <<q>> /\ \A v \in Members : v # u => profile'[v] = profile[v]
  BY <1>1 DEF MembersTyped, ProfilesTyped
<1>4. Edition(u)' = 1 /\ \A v \in Members : v # u => Edition(v)' = Edition(v)
  BY <1>3 DEF Edition
<1>5. \A v \in Members : Edition(v) \in 0..MaxEdition
  BY DEF MembersTyped, ProfilesTyped
<1>6. \A v \in Members : Edition(v)' \in 0..MaxEdition /\ Edition(v)' >= Edition(v)
  BY <1>2, <1>4, <1>5, BoundsAssumption
<1>7. \A v \in Members : \A i \in 1..Edition(v) : profile'[v][i] = profile[v][i]
  BY <1>2, <1>3
<1>8. Newer
  BY <1>3, <1>6, <1>7 DEF Newer, ProfilesTyped
<1> QED BY <1>1, <1>4, <1>8

LEMMA ChangeEffect ==
  ASSUME MembersTyped, NEW u \in Members, NEW q \in People \cup {NoPerson}, ChangeMember(u, q)
  PROVE  Newer
<1>1. profile[u] \in Seq(People \cup {NoPerson}) /\ profile' = [profile EXCEPT ![u] = Append(profile[u], q)]
  BY DEF ChangeMember, MembersTyped, ProfilesTyped
<1>2. /\ Append(profile[u], q) \in Seq(People \cup {NoPerson})
      /\ Len(Append(profile[u], q)) = Len(profile[u]) + 1
      /\ \A i \in 1..Len(profile[u]) : Append(profile[u], q)[i] = profile[u][i]
  BY <1>1
<1>3. /\ profile' \in [Members -> Seq(People \cup {NoPerson})]
      /\ profile'[u] = Append(profile[u], q) /\ \A v \in Members : v # u => profile'[v] = profile[v]
  BY <1>1, <1>2 DEF MembersTyped, ProfilesTyped
<1>4. Edition(u)' = Edition(u) + 1 /\ \A v \in Members : v # u => Edition(v)' = Edition(v)
  BY <1>2, <1>3 DEF Edition
<1>5. Edition(u) < MaxEdition /\ \A v \in Members : Edition(v) \in 0..MaxEdition
  BY DEF ChangeMember, MembersTyped, ProfilesTyped
<1>6. \A v \in Members : Edition(v)' \in 0..MaxEdition /\ Edition(v)' >= Edition(v)
  BY <1>4, <1>5, BoundsAssumption
<1>7. \A v \in Members : \A i \in 1..Edition(v) : profile'[v][i] = profile[v][i]
  BY <1>2, <1>3 DEF Edition
<1> QED BY <1>3, <1>6, <1>7 DEF Newer, ProfilesTyped

\* Newer data and new members keep what is said of the rows and of the jobs that
\* stay as they are.
LEMMA NewerKeeps ==
  ASSUME MembersInv, Newer, UNCHANGED Remote
  PROVE  /\ RowsTrue' /\ MadeCounted'
         /\ \A p \in Publishers : job'[p] = job[p] => Published(p)' /\ Found(p)' /\ Linked(p)'
<1> USE DEF MembersInv
<1>1. /\ \A u \in Members : Edition(u) \in Nat /\ Edition(u)' \in Nat /\ Edition(u)' >= Edition(u)
      /\ \A r \in SheetRows : sheet[r].edition \in Nat
      /\ \A p \in Publishers, u \in Members : job[p].read[u] \in Nat
  BY MembersNumbers, BoundsAssumption DEF Newer, ProfilesTyped
<1>2. /\ sheet' = sheet /\ filled' = filled /\ missed' = missed /\ failures' = failures
      /\ Listed' = Listed /\ (\A u : RowsOf(u)' = RowsOf(u) /\ Made(u)' = Made(u))
      /\ \A r \in SheetRows : Shows(r)' <=> Shows(r)
  BY DEF Remote, Listed, RowsOf, Made, Shows
<1>3. RowsTrue'
  <2> SUFFICES ASSUME NEW r \in SheetRows
               PROVE  IF Shows(r)
                      THEN /\ sheet[r].member \in Members /\ sheet[r].edition <= Edition(sheet[r].member)'
                           /\ sheet[r].person = profile'[sheet[r].member][sheet[r].edition]
                      ELSE r \in Listed => r \in filled
    BY <1>2 DEF RowsTrue
  <2>1. CASE Shows(r)
    <3>1. /\ sheet[r].member \in Members /\ sheet[r].edition <= Edition(sheet[r].member)
          /\ sheet[r].person = profile[sheet[r].member][sheet[r].edition]
      BY <2>1 DEF RowsTrue
    <3>2. PICK u \in Members : u = sheet[r].member
      BY <3>1
    <3>3. PICK e \in Nat : e = sheet[r].edition
      BY <1>1
    <3>4. e \in 1..Edition(u) /\ e <= Edition(u)'
      BY <1>1, <2>1, <3>1, <3>2, <3>3 DEF Shows
    <3>5. profile'[u][e] = profile[u][e]
      BY <3>4 DEF Newer
    <3> QED BY <1>2, <2>1, <3>1, <3>2, <3>3, <3>4, <3>5 DEF Edition
  <2>2. CASE ~Shows(r)
    BY <2>2 DEF RowsTrue
  <2> QED BY <2>1, <2>2
<1>4. MadeCounted'
  BY <1>2 DEF MadeCounted
<1>5. ASSUME NEW p \in Publishers, job'[p] = job[p]
      PROVE  Published(p)' /\ Found(p)' /\ Linked(p)'
  <2>1. \A u : UpToDate(p, u)' <=> UpToDate(p, u)
    BY <1>2, <1>5 DEF UpToDate
  <2>2. \A u \in Members : job[p].read[u] <= Edition(u) => job[p].read[u] <= Edition(u)'
    BY <1>1
  <2>3. Published(p)'
    BY <1>2, <1>5, <2>1, <2>2 DEF Published
  <2>4. Found(p)'
    BY <1>2, <1>5 DEF Found
  <2>5. Linked(p)'
    <3>1. \A u \in Members : Edition(u) > 0 => Edition(u)' > 0
      BY <1>1
    <3>2. job[p].at \in {"create", "fetch", "writeback"} => (Shows(job[p].row)' <=> Shows(job[p].row))
      BY <1>2, <1>5 DEF Linked, Listed, Shows
    <3> QED BY <1>2, <1>5, <2>2, <3>1, <3>2 DEF Linked, Edition, Shows
  <2> QED BY <2>3, <2>4, <2>5
<1> QED BY <1>3, <1>4, <1>5

LEMMA LocalKeeps ==
  ASSUME MembersInv, Newer, UNCHANGED <<Remote, fileLock, job>>, applicants' \subseteq People
  PROVE  MembersInv'
<1> USE DEF MembersInv
<1>1. MembersTyped' /\ UnderLock'
  BY DEF MembersTyped, UnderLock, Newer, Remote, Listed
<1> QED BY <1>1, NewerKeeps

\* A row that a visitor appends is nobody's, whatever it shows.
LEMMA FillInKeeps ==
  ASSUME MembersInv, NEW q \in People \cup {NoPerson}, NEW u \in Members \cup {NoMember}, FillIn(q, u)
  PROVE  MembersInv'
<1> USE DEF MembersInv
<1> DEFINE e == [member |-> u, person |-> q, edition |-> 0]
<1>1. UNCHANGED <<profile, applicants, missed, fileLock, job, failures>>
  BY DEF FillIn
<1>2. /\ e \in SheetRow /\ e # NoSheetRow /\ e.edition = 0 /\ NoSheetRow.edition = 0
  BY BoundsAssumption DEF FillIn, NoSheetRow, SheetRow
<1>3. PICK r \in SheetRows :
         sheet[r] = NoSheetRow /\ sheet' = [sheet EXCEPT ![r] = e] /\ filled' = filled \cup {r}
  BY DEF FillIn, NextRow
<1> HIDE DEF e
<1>4. /\ sheet'[r] = e /\ (\A s \in SheetRows : s # r => sheet'[s] = sheet[s])
      /\ sheet' \in [SheetRows -> SheetRow]
  BY <1>2, <1>3 DEF MembersTyped
<1>5. Listed' = Listed \cup {r} /\ r \notin Listed
  BY <1>2, <1>3, <1>4 DEF Listed
<1>6. MembersTyped' /\ UnderLock'
  <2>1. ProfilesTyped'
    BY <1>1 DEF MembersTyped, ProfilesTyped, Edition
  <2>2. filled' \subseteq Listed'
    BY <1>3, <1>5 DEF MembersTyped
  <2> QED BY <1>1, <1>4, <2>1, <2>2 DEF MembersTyped, UnderLock
<1>7. /\ ~Shows(r) /\ ~Shows(r)' /\ \A s \in SheetRows : Shows(s)' <=> Shows(s)
  BY <1>2, <1>3, <1>4 DEF Shows
<1>8. RowsTrue'
  <2> SUFFICES ASSUME NEW s \in SheetRows
               PROVE  IF Shows(s)'
                      THEN /\ sheet'[s].member \in Members /\ sheet'[s].edition <= Len(profile'[sheet'[s].member])
                           /\ sheet'[s].person = profile'[sheet'[s].member][sheet'[s].edition]
                      ELSE s \in Listed' => s \in filled'
    BY DEF RowsTrue, Edition
  <2>1. CASE s = r
    BY <1>3, <1>7, <2>1
  <2>2. CASE s # r
    BY <1>1, <1>3, <1>4, <1>5, <1>7, <2>2 DEF RowsTrue, Edition
  <2> QED BY <2>1, <2>2
<1>9. \A v : \A s \in RowsOf(v)' : s = r \/ s \in RowsOf(v)
  BY <1>4 DEF RowsOf
<1>10. \A v \in Members : \A s \in RowsOf(v) : s # r => s \in RowsOf(v)' /\ sheet'[s] = sheet[s]
  BY <1>4 DEF RowsOf
<1>11. \A v \in Members : r \notin RowsOf(v)
  BY <1>3, NamesAssumption DEF RowsOf, NoSheetRow
<1>12. \A v \in Members : Made(v)' = Made(v)
  <2> SUFFICES ASSUME NEW v \in Members PROVE Made(v)' = Made(v)
    OBVIOUS
  <2>1. Made(v)' = RowsOf(v)' \ filled' /\ Made(v) = RowsOf(v) \ filled
    BY DEF Made
  <2> QED BY <1>3, <1>9, <1>10, <1>11, <2>1
<1>13. MadeCounted'
  BY <1>1, <1>12 DEF MadeCounted
<1>14. ASSUME NEW p \in Publishers
       PROVE  Published(p)' /\ Found(p)' /\ Linked(p)'
  <2>1. \A v \in Members : UpToDate(p, v) => UpToDate(p, v)'
    BY <1>1, <1>10, <1>11 DEF UpToDate
  <2>2. \A v \in Members : \A s \in RowsOf(v)' :
           sheet'[s].edition = 0 \/ (s \in RowsOf(v) /\ sheet'[s] = sheet[s])
    BY <1>2, <1>4, <1>9, <1>10
  <2>3. \A v \in Members : job[p].read[v] \in Nat
    BY MembersNumbers
  <2>4. Published(p)'
    <3>1. \A v \in Members : Edition(v)' = Edition(v)
      BY <1>1 DEF Edition
    <3>2. job'[p] = job[p]
      BY <1>1
    <3> QED BY <2>1, <2>2, <2>3, <3>1, <3>2 DEF Published
  <2>5. Found(p)'
    <3> SUFFICES ASSUME job[p].at = "upsert"
                 PROVE  Found(p)'
      BY <1>1 DEF Found
    <3>1. PICK v \in Members : v = job[p].member
      BY DEF Found
    <3>2. job[p].row # 0 => job[p].row \in RowsOf(v)'
      BY <1>10, <1>11, <3>1 DEF Found
    <3>3. job[p].row = 0 => Cardinality(Made(v)') <= missed'[v]
      BY <1>1, <1>12, <3>1 DEF Found
    <3> QED BY <1>1, <3>1, <3>2, <3>3 DEF Found, RowsOf, Made
  <2>6. Linked(p)'
    <3>1. ASSUME NEW s \in Listed PROVE sheet'[s] = sheet[s] /\ s \in Listed'
      BY <1>4, <1>5 DEF Listed
    <3> QED BY <1>1, <3>1 DEF Linked, Edition, Shows
  <2> QED BY <2>4, <2>5, <2>6
<1> QED BY <1>6, <1>8, <1>13, <1>14

-----------------------------------------------------------------------------
(* What a publisher reads. *)

\* A step of one publisher that writes nothing keeps what the others know.
LEMMA ReadingKeeps ==
  ASSUME MembersInv, NEW p \in Publishers, NEW j \in JobType,
         job' = [job EXCEPT ![p] = j],
         UNCHANGED <<profile, applicants, sheet, filled>>,
         missed' \in [Members -> Nat], failures' \in 0..MaxFailures,
         \A u \in Members : missed'[u] >= missed[u] /\ missed'[u] <= failures',
         fileLock' \in Publishers \cup {NoPublisher},
         \A q \in Publishers : q # p => job[q].at = "idle",
         j.at # "idle" => fileLock' = p,
         Published(p)' /\ Found(p)' /\ Linked(p)'
  PROVE  MembersInv'
<1> USE DEF MembersInv
<1>1. /\ job' \in [Publishers -> JobType] /\ job'[p] = j
      /\ \A q \in Publishers : q # p => job'[q] = job[q] /\ job'[q].at = "idle"
  BY JobStep
<1>2. MembersTyped' /\ UnderLock'
  <2>1. ProfilesTyped' /\ Listed' = Listed
    BY DEF MembersTyped, ProfilesTyped, Edition, Listed
  <2> QED BY <1>1, <2>1 DEF MembersTyped, UnderLock
<1>3. RowsTrue'
  BY DEF RowsTrue, Shows, Edition, Listed
<1>4. MadeCounted'
  <2> SUFFICES ASSUME NEW u \in Members
               PROVE  Cardinality(Made(u)') <= 1 + missed'[u]
    BY DEF MadeCounted
  <2>1. Made(u)' = Made(u)
    BY DEF Made, RowsOf
  <2>2. Cardinality(Made(u)) <= 1 + missed[u] /\ missed[u] \in Nat /\ missed'[u] \in Nat
    BY DEF MadeCounted, MembersTyped
  <2> QED BY <2>1, <2>2, MadeFinite
<1>5. \A q \in Publishers : Published(q)' /\ Found(q)' /\ Linked(q)'
  BY <1>1, IdleKeeps
<1> QED BY <1>2, <1>3, <1>4, <1>5

\* Most of them leave the counters alone.
LEMMA QuietKeeps ==
  ASSUME MembersInv, NEW p \in Publishers, NEW j \in JobType,
         job' = [job EXCEPT ![p] = j],
         UNCHANGED <<profile, applicants, sheet, filled, missed>>,
         failures' \in 0..MaxFailures, failures' >= failures,
         fileLock' \in Publishers \cup {NoPublisher},
         \A q \in Publishers : q # p => job[q].at = "idle",
         j.at # "idle" => fileLock' = p,
         Published(p)' /\ Found(p)' /\ Linked(p)'
  PROVE  MembersInv'
<1>1. \A u \in Members : missed'[u] >= missed[u] /\ missed'[u] <= failures'
  BY MembersNumbers, BoundsAssumption DEF MembersInv, MadeCounted
<1>2. missed' \in [Members -> Nat]
  BY DEF MembersInv, MembersTyped
<1> QED BY <1>1, <1>2, ReadingKeeps

LEMMA BeginPublisherKeeps ==
  ASSUME MembersInv, NEW p \in Publishers, NEW todo \in SUBSET Members,
         BeginPublish(p, todo) \/ BeginImport(p)
  PROVE  MembersInv'
<1> USE DEF MembersInv
<1>1. PICK j \in JobType : job' = [job EXCEPT ![p] = j] /\ j.at \in {"read", "records"}
  <2>1. /\ [NoJob EXCEPT !.at = "read", !.todo = todo] \in JobType
        /\ [NoJob EXCEPT !.at = "read", !.todo = todo].at = "read"
        /\ [NoJob EXCEPT !.at = "records"] \in JobType
        /\ [NoJob EXCEPT !.at = "records"].at = "records"
    BY NoJobTyped DEF JobType, Stages
  <2> QED BY <2>1 DEF BeginPublish, BeginImport
<1>2. /\ UNCHANGED <<profile, applicants, sheet, filled, missed, failures>>
      /\ fileLock = NoPublisher /\ fileLock' = p
  BY DEF BeginPublish, BeginImport, Working, Taken, LocalAndRemote, Remote
<1>3. \A q \in Publishers : q # p => job[q].at = "idle"
  BY <1>2, Alone
<1>4. Published(p)' /\ Found(p)' /\ Linked(p)'
  <2>1. job'[p].at \in {"read", "records"}
    BY <1>1, JobStep
  <2> QED BY <2>1, IdleKeeps
<1>5. failures' \in 0..MaxFailures /\ failures' >= failures
  BY <1>2, MembersNumbers DEF MembersTyped
<1> QED BY <1>1, <1>2, <1>3, <1>4, <1>5, QuietKeeps

LEMMA ReadMembersKeeps ==
  ASSUME MembersInv, NEW p \in Publishers, ReadMembers(p)
  PROVE  MembersInv'
<1> USE DEF MembersInv
<1> DEFINE old == job[p]
           read == [u \in Members |-> IF u \in old.todo THEN Edition(u) ELSE 0]
           j == [old EXCEPT !.at = "publish", !.todo = @ \cap Known, !.read = read]
<1>0. old \in JobType /\ read \in [Members -> 0..MaxEdition]
  BY BoundsAssumption DEF MembersTyped, ProfilesTyped
<1>1. /\ j \in JobType /\ j.at = "publish" /\ j.todo = old.todo \cap Known /\ j.read = read
      /\ j.good = old.good
  BY <1>0 DEF JobType, Stages
<1>2. job' = [job EXCEPT ![p] = j]
  BY DEF ReadMembers, MembersTyped
<1>3. /\ UNCHANGED <<profile, applicants, sheet, filled, missed, failures, fileLock>>
      /\ fileLock' = p
  BY DEF ReadMembers, Working, LocalAndRemote, Remote, UnderLock
<1>4. \A q \in Publishers : q # p => job[q].at = "idle"
  BY Alone DEF ReadMembers, Working
<1>a. /\ \A u \in Members : read[u] = IF u \in old.todo THEN Edition(u) ELSE 0
      /\ \A u \in Known : Edition(u) > 0
  BY DEF Known
<1> HIDE DEF read, j, old
<1>5. job'[p] = j
  BY <1>1, <1>2, JobStep
<1>6. Published(p)'
  <2>0. /\ \A u \in Members : Edition(u) \in Nat /\ Edition(u)' = Edition(u)
        /\ \A r \in SheetRows : sheet[r].edition \in Nat
        /\ \A u : RowsOf(u)' = RowsOf(u) /\ RowsOf(u) \subseteq SheetRows
    BY <1>3, MembersNumbers DEF RowsOf, Edition
  <2>1. \A u \in Members : read[u] > 0 => u \in old.todo /\ read[u] = Edition(u)
    BY <1>a
  <2>2. ASSUME NEW u \in Members, read[u] > 0
        PROVE  /\ read[u] <= Edition(u)'
               /\ \A r \in RowsOf(u)' : sheet'[r].edition <= read[u]
    <3>1. read[u] = Edition(u) /\ Edition(u)' = Edition(u) /\ Edition(u) \in Nat
      BY <2>0, <2>1, <2>2
    <3>2. \A r \in RowsOf(u) : r \in SheetRows /\ sheet[r].member = u
      BY DEF RowsOf
    <3>3. \A r \in RowsOf(u) : sheet[r].edition <= Edition(u)
      BY <2>0, <3>1, <3>2 DEF RowsTrue, Shows
    <3> QED BY <1>3, <2>0, <3>1, <3>3
  <2>3. \A u \in j.todo : read[u] > 0
    BY <1>0, <1>1, <1>a DEF Known
  <2>4. \A u \in Members \ j.todo : ~(read[u] > 0)
    BY <1>1, <1>a, <2>1 DEF Known
  <2>5. job'[p].read = read /\ job'[p].todo = j.todo /\ job'[p].at = "publish"
    BY <1>1, <1>5
  <2> QED BY <2>2, <2>3, <2>4, <2>5 DEF Published
<1>7. Found(p)' /\ Linked(p)'
  BY <1>1, <1>5 DEF Found, Linked
<1>8. failures' \in 0..MaxFailures /\ failures' >= failures /\ fileLock' \in Publishers \cup {NoPublisher}
  BY <1>3, MembersNumbers DEF MembersTyped
<1> QED BY <1>1, <1>2, <1>3, <1>4, <1>6, <1>7, <1>8, QuietKeeps

\* A nonempty set of rows has a first.
LEMMA LeastRow ==
  ASSUME NEW S \in SUBSET SheetRows, S # {}
  PROVE  \E r \in S : \A s \in S : r <= s
<1>1. S \subseteq Nat
  BY BoundsAssumption DEF SheetRows
<1>2. PICK r \in S : \A s \in S : ~(<<s, r>> \in OpToRel(<, Nat))
  BY <1>1, NatLessThanWellFounded, WFMin
<1>3. \A s \in S : ~(s < r)
  BY <1>1, <1>2 DEF OpToRel
<1> QED BY <1>1, <1>3

\* A search finds a row of the member, or none and then it is counted if there
\* is one; a search of the whole table misses none.
LEMMA FindRowKeeps ==
  ASSUME MembersInv, NEW p \in Publishers, NEW u \in Members, FindRow(p, u)
  PROVE  MembersInv'
<1> USE DEF MembersInv
<1>1. PICK rows \in SUBSET Listed :
        LET found == {r \in rows : sheet[r].member = u}
        IN  /\ Listing(p, rows)
            /\ job' = [job EXCEPT ![p].at = "upsert", ![p].todo = @ \ {u}, ![p].member = u,
                          ![p].row = IF found = {} THEN 0
                                     ELSE CHOOSE r \in found : \A s \in found : r <= s]
            /\ missed' = IF found = {} /\ RowsOf(u) # {} THEN [missed EXCEPT ![u] = @ + 1] ELSE missed
  BY DEF FindRow
<1> DEFINE found == {r \in rows : sheet[r].member = u}
           old == job[p]
           first == IF found = {} THEN 0 ELSE CHOOSE r \in found : \A s \in found : r <= s
           j == [old EXCEPT !.at = "upsert", !.todo = @ \ {u}, !.member = u, !.row = first]
<1>0. old \in JobType /\ old.at = "publish" /\ u \in old.todo
  BY DEF FindRow, Working, MembersTyped
<1>2. found = {} => first = 0
  OBVIOUS
<1>3. found # {} => first \in found
  <2>1. found \subseteq SheetRows
    BY DEF Listed
  <2>2. found # {} => \E r \in found : \A s \in found : r <= s
    BY <2>1, LeastRow
  <2> QED BY <2>2
<1>a. /\ Listing(p, rows)
      /\ job' = [job EXCEPT ![p].at = "upsert", ![p].todo = @ \ {u}, ![p].member = u, ![p].row = first]
      /\ missed' = IF found = {} /\ RowsOf(u) # {} THEN [missed EXCEPT ![u] = @ + 1] ELSE missed
  BY <1>1
<1>b. \A r : r \in found <=> r \in rows /\ r \in RowsOf(u)
  BY DEF Listed, RowsOf
<1>c. RowsOf(u) \subseteq Listed
  BY NamesAssumption DEF RowsOf, Listed, NoSheetRow
<1>4. job' = [job EXCEPT ![p] = j]
  <2>1. p \in DOMAIN job
    BY DEF MembersTyped
  <2> HIDE DEF first, found
  <2> QED BY <1>a, <2>1
<1> HIDE DEF found, first
<1>5. first \in 0..MaxSheet /\ 0 \notin SheetRows /\ RowsOf(u) \subseteq SheetRows
  BY <1>2, <1>3, <1>b, BoundsAssumption DEF RowsOf, SheetRows
<1>6. /\ j \in JobType /\ j.at = "upsert" /\ j.todo = old.todo \ {u} /\ j.member = u
      /\ j.read = old.read /\ j.row = first /\ j.good = old.good
  BY <1>0, <1>5 DEF JobType, Stages
<1> HIDE DEF j, old
<1>7. job'[p] = j /\ job[p] = old
  BY <1>4, <1>6, JobStep DEF old
<1>8. /\ UNCHANGED <<profile, applicants, sheet, filled, fileLock>>
      /\ failures' \in 0..MaxFailures
      /\ failures' = failures \/ (failures' = failures + 1 /\ rows # Listed)
      /\ rows # Listed => failures' = failures + 1
  <2>1. UNCHANGED <<profile, applicants, sheet, filled, fileLock>>
    BY DEF FindRow, Working
  <2>2. \/ rows = Listed /\ failures' = failures
        \/ failures < MaxFailures /\ failures' = failures + 1 /\ rows # Listed
    BY <1>a DEF Listing
  <2>3. failures \in 0..MaxFailures
    BY DEF MembersTyped
  <2> QED BY <2>1, <2>2, <2>3, BoundsAssumption
<1>9. fileLock' = p /\ \A q \in Publishers : q # p => job[q].at = "idle"
  BY <1>0, <1>7, <1>8, Alone DEF UnderLock
<1>10. /\ missed' \in [Members -> Nat] /\ \A v \in Members : missed'[v] >= missed[v] /\ missed'[v] <= failures'
       /\ found = {} /\ RowsOf(u) # {} => missed'[u] = missed[u] + 1
  <2>1. \A v \in Members : missed[v] \in Nat /\ missed[v] <= failures /\ failures \in Nat
    BY MembersNumbers DEF MadeCounted
  <2>2. CASE found = {} /\ RowsOf(u) # {}
    <3>1. rows # Listed
      BY <1>b, <1>c, <2>2
    <3>2. missed' = [missed EXCEPT ![u] = @ + 1]
      BY <1>a, <2>2
    <3> QED BY <1>8, <2>1, <3>1, <3>2 DEF MembersTyped
  <2>3. CASE ~(found = {} /\ RowsOf(u) # {})
    <3>1. missed' = missed
      BY <1>a, <2>3
    <3> QED BY <1>8, <2>1, <2>3, <3>1 DEF MembersTyped
  <2> QED BY <2>2, <2>3
<1>11. \A v : RowsOf(v)' = RowsOf(v) /\ Made(v)' = Made(v)
  BY <1>8 DEF RowsOf, Made
<1>12. Published(p)'
  <2>1. \A v : UpToDate(p, v)' <=> UpToDate(p, v)
    BY <1>6, <1>7, <1>8, <1>11 DEF UpToDate
  <2>2. Published(p)
    OBVIOUS
  <2> QED BY <1>0, <1>6, <1>7, <1>8, <1>11, <2>1, <2>2 DEF Published, Edition
<1>13. Found(p)'
  <2>1. old.read[u] > 0
    BY <1>0, <1>7 DEF Published
  <2>2. first # 0 => first \in RowsOf(u)
    BY <1>2, <1>3, <1>b
  <2>3. first = 0 => Cardinality(Made(u)) <= missed'[u]
    <3> SUFFICES ASSUME first = 0 PROVE Cardinality(Made(u)) <= missed'[u]
      OBVIOUS
    <3>1. found = {}
      BY <1>3, <1>5, <1>b
    <3>2. Cardinality(Made(u)) <= 1 + missed[u] /\ missed[u] \in Nat /\ Cardinality(Made(u)) \in Nat
      BY MembersNumbers, MadeFinite DEF MadeCounted
    <3>3. CASE RowsOf(u) # {}
      BY <1>10, <3>1, <3>2, <3>3
    <3>4. CASE RowsOf(u) = {}
      <4>1. Made(u) = {}
        BY <3>4 DEF Made
      <4>2. Cardinality(Made(u)) = 0
        BY <4>1, FS_EmptySet
      <4>3. missed'[u] \in Nat
        BY <1>10
      <4> QED BY <4>2, <4>3
    <3> QED BY <3>3, <3>4
  <2>4. /\ job'[p].member = u /\ job'[p].row = first /\ job'[p].read[u] > 0 /\ job'[p].at = "upsert"
    BY <1>6, <1>7, <2>1
  <2> QED BY <1>8, <1>11, <2>2, <2>3, <2>4 DEF Found, Made, RowsOf
<1>14. Linked(p)'
  BY <1>6, <1>7 DEF Linked
<1>15. fileLock' \in Publishers \cup {NoPublisher}
  BY <1>9
<1> QED BY <1>4, <1>6, <1>8, <1>9, <1>10, <1>12, <1>13, <1>14, <1>15, ReadingKeeps

\* The lock is given up by its owner, or by the operating system.
LEMMA UnlockedKeeps ==
  ASSUME MembersInv, NEW p \in Publishers, EndPublish(p) \/ EndImport(p) \/ PublisherDies(p)
  PROVE  MembersInv'
<1> USE DEF MembersInv
<1>1. /\ job' = [job EXCEPT ![p] = NoJob] /\ job[p].at # "idle"
      /\ fileLock' = IF fileLock = p THEN NoPublisher ELSE fileLock
      /\ UNCHANGED <<profile, applicants, sheet, filled, missed, failures>>
  BY DEF EndPublish, EndImport, PublisherDies, Unlocked, Working, LocalAndRemote, Remote
<1>2. \A q \in Publishers : q # p => job[q].at = "idle"
  BY <1>1, Alone
<1>3. NoJob \in JobType /\ NoJob.at = "idle"
  BY NoJobTyped DEF NoJob
<1>4. Published(p)' /\ Found(p)' /\ Linked(p)'
  <2>1. job'[p] = NoJob
    BY <1>1, <1>3, JobStep
  <2> QED BY <1>3, <2>1, IdleKeeps
<1>5. failures' \in 0..MaxFailures /\ failures' >= failures /\ fileLock' \in Publishers \cup {NoPublisher}
  BY <1>1, MembersNumbers DEF MembersTyped
<1> QED BY <1>1, <1>2, <1>3, <1>4, <1>5, QuietKeeps

-----------------------------------------------------------------------------
(* What a publisher writes. *)

\* The job after a row has been written, or the attempt has failed.
AfterWrite(p, next, good) ==
    [job[p] EXCEPT !.at = next, !.member = NoMember, !.row = 0, !.good = @ /\ good]

LEMMA AfterWriteIs ==
  ASSUME MembersTyped, NEW p \in Publishers, NEW next \in Stages, NEW good \in BOOLEAN
  PROVE  LET j == AfterWrite(p, next, good)
         IN  /\ j \in JobType /\ j.at = next /\ j.todo = job[p].todo /\ j.read = job[p].read
             /\ j.records = job[p].records /\ j.good = (job[p].good /\ good)
<1>1. job[p] \in JobType
  BY DEF MembersTyped
<1>2. 0 \in 0..MaxSheet
  BY BoundsAssumption
<1> DEFINE j == AfterWrite(p, next, good)
<1>3. j.at = next /\ j.todo = job[p].todo /\ j.read = job[p].read /\ j.records = job[p].records
  BY <1>1 DEF AfterWrite, JobType
<1>4. j.good = (job[p].good /\ good)
  BY <1>1 DEF AfterWrite, JobType
<1>5. j \in JobType
  BY <1>1, <1>2 DEF AfterWrite, JobType
<1> HIDE DEF j
<1> QED BY <1>3, <1>4, <1>5 DEF j

\* The two writes of a publisher: an upsert, or the answer to an import.
Writes(p, from, next) ==
    /\ WriteRow(p, from, next)
    /\ \/ from = "upsert" /\ next = "publish"
       \/ from = "writeback" /\ next = "import"

\* A publisher puts the member it has found or linked into a row of this member,
\* into one of a visitor, or into a new one, over nothing that is newer.
Puts(p, r) ==
    LET u == job[p].member
    IN  /\ sheet' = [sheet EXCEPT ![r] = Entry(p)]
        /\ u \in Members /\ job[p].read[u] > 0 /\ job[p].read[u] <= Edition(u)
        /\ Shows(r) => sheet[r].member = u
        /\ sheet[r].edition <= job[p].read[u]
        /\ r \in filled \/ r \in RowsOf(u) \/ Cardinality(Made(u)) <= missed[u]

LEMMA PutEffect ==
  ASSUME MembersInv, NEW p \in Publishers, job[p].at \in {"upsert", "writeback"}, EntryPut(p)
  PROVE  \E r \in SheetRows : Puts(p, r)
<1> USE DEF MembersInv
<1> DEFINE u == job[p].member
<1>0. job[p] \in JobType
  BY DEF MembersTyped
<1>1. u \in Members /\ job[p].read[u] > 0 /\ job[p].read[u] <= Edition(u) /\ job[p].read[u] \in Nat
  BY MembersNumbers DEF Found, Published, Linked
<1>2. CASE job[p].row # 0
  <2> DEFINE r == job[p].row
  <2>1. sheet' = [sheet EXCEPT ![r] = Entry(p)]
    BY <1>2 DEF EntryPut
  <2>2. CASE job[p].at = "upsert"
    <3>1. r \in RowsOf(u) /\ r \in SheetRows /\ sheet[r].member = u
      BY <1>2, <2>2 DEF Found, RowsOf
    <3>2. sheet[r].edition <= job[p].read[u]
      BY <1>1, <2>2, <3>1 DEF Published
    <3> QED BY <1>1, <2>1, <3>1, <3>2 DEF Puts
  <2>3. CASE job[p].at = "writeback"
    <3>1. /\ r \in Listed /\ r \in SheetRows /\ (Shows(r) => sheet[r].member = u)
          /\ sheet[r].edition <= job[p].read[u]
      BY <2>3 DEF Linked, Listed
    <3>2. r \in filled \/ r \in RowsOf(u)
      BY <3>1 DEF RowsTrue, RowsOf
    <3> QED BY <1>1, <2>1, <3>1, <3>2 DEF Puts
  <2> QED BY <2>2, <2>3
<1>3. CASE job[p].row = 0
  <2>1. PICK r \in SheetRows : NextRow(r) /\ sheet' = [sheet EXCEPT ![r] = Entry(p)]
    BY <1>3 DEF EntryPut
  <2>2. sheet[r].edition = 0 /\ ~Shows(r)
    BY <2>1 DEF NextRow, NoSheetRow, Shows
  <2>3. 0 \notin SheetRows
    BY BoundsAssumption DEF SheetRows
  <2>4. job[p].at = "upsert"
    BY <1>3, <2>3 DEF Linked, Listed
  <2>5. Cardinality(Made(u)) <= missed[u]
    BY <1>3, <2>4 DEF Found
  <2>6. sheet[r].edition <= job[p].read[u]
    BY <1>1, <2>2
  <2> HIDE DEF u
  <2>7. ~Shows(r) /\ u = job[p].member
    BY <2>2 DEF u
  <2> QED BY <1>1, <2>1, <2>5, <2>6, <2>7 DEF Puts
<1> QED BY <1>2, <1>3

LEMMA WriteEffect ==
  ASSUME MembersInv, NEW p \in Publishers, NEW from, NEW next, Writes(p, from, next)
  PROVE  \E good \in BOOLEAN :
            /\ job' = [job EXCEPT ![p] = AfterWrite(p, next, good)]
            /\ failures' \in 0..MaxFailures /\ failures' >= failures
            /\ (sheet' = sheet /\ ~good) \/ \E r \in SheetRows : Puts(p, r)
<1>0. /\ job[p].at = from /\ from \in {"upsert", "writeback"} /\ job[p] \in JobType
      /\ failures \in 0..MaxFailures
  BY DEF Writes, WriteRow, Working, MembersInv, MembersTyped
<1>1. PICK good \in BOOLEAN :
         /\ IF good THEN EntryPut(p) /\ UNCHANGED failures
            ELSE /\ failures < MaxFailures /\ failures' = failures + 1
                 /\ EntryPut(p) \/ UNCHANGED sheet
         /\ job' = [job EXCEPT ![p].at = next, ![p].member = NoMember, ![p].row = 0,
                               ![p].good = @ /\ good]
  BY DEF Writes, WriteRow
<1>2. job' = [job EXCEPT ![p] = AfterWrite(p, next, good)]
  BY <1>1 DEF AfterWrite, MembersInv, MembersTyped
<1>3. failures' \in 0..MaxFailures /\ failures' >= failures
  BY <1>0, <1>1, BoundsAssumption
<1>4. (sheet' = sheet /\ ~good) \/ EntryPut(p)
  BY <1>1
<1> QED BY <1>0, <1>2, <1>3, <1>4, PutEffect

\* A row that is put keeps all rows true, and at most one more is counted.
LEMMA PutKeeps ==
  ASSUME MembersInv, NEW p \in Publishers, NEW r \in SheetRows, Puts(p, r),
         NEW u \in Members, u = job[p].member,
         UNCHANGED <<profile, filled, missed>>, failures' >= failures, failures' \in Nat
  PROVE  /\ sheet' \in [SheetRows -> SheetRow] /\ RowsTrue' /\ MadeCounted' /\ Listed \subseteq Listed'
         /\ r \in RowsOf(u)' /\ sheet'[r] = Entry(p) /\ sheet'[r].edition = job[p].read[u]
         /\ \A s \in SheetRows : s # r => sheet'[s] = sheet[s]
         /\ \A v \in Members : /\ \A s \in RowsOf(v)' : s \in RowsOf(v) \/ (s = r /\ v = u)
                               /\ \A s \in RowsOf(v) : s # r => s \in RowsOf(v)'
<1> USE DEF MembersInv
<1>0. job[p] \in JobType /\ job[p].read[u] \in 0..MaxEdition
  BY DEF MembersTyped, JobType
<1>1. PICK n \in 0..MaxEdition : n = job[p].read[u]
  BY <1>0
<1>2. /\ sheet' = [sheet EXCEPT ![r] = Entry(p)]
      /\ n > 0 /\ n <= Edition(u)
      /\ Shows(r) => sheet[r].member = u
      /\ r \in filled \/ r \in RowsOf(u) \/ Cardinality(Made(u)) <= missed[u]
  BY <1>1 DEF Puts
<1>3. n \in 1..Edition(u)
  BY <1>2, MembersNumbers, BoundsAssumption
<1>4. profile[u] \in Seq(People \cup {NoPerson}) /\ profile[u][n] \in People \cup {NoPerson}
  BY <1>3 DEF MembersTyped, ProfilesTyped, Edition
<1>5. Entry(p) \in SheetRow /\ Entry(p).member = u /\ Entry(p).edition = n /\ Entry(p).person = profile[u][n]
  BY <1>1, <1>4 DEF Entry, SheetRow
<1>6. /\ sheet'[r] = Entry(p) /\ (\A s \in SheetRows : s # r => sheet'[s] = sheet[s])
      /\ sheet' \in [SheetRows -> SheetRow]
  BY <1>2, <1>5 DEF MembersTyped
<1>7. Listed \subseteq Listed' /\ Listed' \subseteq Listed \cup {r}
  BY <1>5, <1>6, NamesAssumption DEF Listed, NoSheetRow
<1>8. RowsTrue'
  <2> SUFFICES ASSUME NEW s \in SheetRows
               PROVE  IF sheet'[s].edition > 0
                      THEN /\ sheet'[s].member \in Members /\ sheet'[s].edition <= Len(profile[sheet'[s].member])
                           /\ sheet'[s].person = profile[sheet'[s].member][sheet'[s].edition]
                      ELSE s \in Listed' => s \in filled
    BY DEF RowsTrue, Edition, Shows
  <2>1. CASE s = r
    BY <1>2, <1>5, <1>6, <2>1 DEF Edition
  <2>2. CASE s # r
    BY <1>6, <1>7, <2>2 DEF RowsTrue, Edition, Shows
  <2> QED BY <2>1, <2>2
<1>9. r \in RowsOf(u)' /\ sheet'[r].edition = job[p].read[u]
  BY <1>1, <1>5, <1>6 DEF RowsOf
<1>10. ASSUME NEW v \in Members
       PROVE  /\ \A s \in RowsOf(v)' : s \in RowsOf(v) \/ (s = r /\ v = u)
              /\ \A s \in RowsOf(v) : s # r => s \in RowsOf(v)'
  BY <1>5, <1>6 DEF RowsOf
<1>11. MadeCounted'
  <2> SUFFICES ASSUME NEW v \in Members
               PROVE  Cardinality(Made(v)') <= 1 + missed[v] /\ missed[v] <= failures'
    BY DEF MadeCounted
  <2>0. /\ Cardinality(Made(v)) <= 1 + missed[v] /\ missed[v] <= failures
        /\ missed[v] \in Nat /\ failures \in Nat
    BY MembersNumbers DEF MadeCounted
  <2>1. /\ IsFiniteSet(Made(v)) /\ Cardinality(Made(v)) \in Nat
        /\ Made(v)' = RowsOf(v)' \ filled /\ Made(v) = RowsOf(v) \ filled
    BY MadeFinite DEF Made
  <2>2. CASE v = u /\ r \notin filled /\ r \notin RowsOf(u)
    <3>1. Made(v)' \subseteq Made(v) \cup {r}
      BY <1>10, <2>1
    <3>a. /\ IsFiniteSet(Made(v) \cup {r})
          /\ Cardinality(Made(v) \cup {r}) =
                IF r \in Made(v) THEN Cardinality(Made(v)) ELSE Cardinality(Made(v)) + 1
      BY <2>1, FS_AddElement
    <3>2. /\ IsFiniteSet(Made(v) \cup {r})
          /\ Cardinality(Made(v) \cup {r}) <= Cardinality(Made(v)) + 1
          /\ Cardinality(Made(v) \cup {r}) \in Nat
      BY <2>1, <3>a
    <3>3. Cardinality(Made(v)') <= Cardinality(Made(v) \cup {r}) /\ Cardinality(Made(v)') \in Nat
      BY <3>1, <3>2, FS_Subset, FS_CardinalityType
    <3>4. Cardinality(Made(v)) <= missed[v]
      BY <1>2, <2>2
    <3> HIDE DEF MembersInv
    <3> QED BY <2>0, <2>1, <3>2, <3>3, <3>4
  <2>3. CASE ~(v = u /\ r \notin filled /\ r \notin RowsOf(u))
    <3>1. Made(v)' \subseteq Made(v)
      BY <1>10, <2>1, <2>3
    <3>2. Cardinality(Made(v)') <= Cardinality(Made(v)) /\ Cardinality(Made(v)') \in Nat
      BY <2>1, <3>1, FS_Subset, FS_CardinalityType
    <3> QED BY <2>0, <2>1, <3>2
  <2> QED BY <2>2, <2>3
<1> QED BY <1>6, <1>7, <1>8, <1>9, <1>10, <1>11

LEMMA WriteKeeps ==
  ASSUME MembersInv, NEW p \in Publishers, NEW from, NEW next, Writes(p, from, next)
  PROVE  MembersInv'
<1> DEFINE old == job[p]
<1> USE DEF MembersInv
<1>0. /\ old.at = from /\ old \in JobType /\ next \in Stages /\ next # "idle" /\ old.at # "idle"
      /\ next \in {"publish", "import"} /\ (next = "publish" <=> from = "upsert")
      /\ from \in {"upsert", "writeback"}
      /\ UNCHANGED <<profile, applicants, filled, missed, fileLock>>
  BY DEF Writes, WriteRow, Working, MembersTyped, Stages
<1>1. fileLock' = p /\ \A q \in Publishers : q # p => job[q].at = "idle"
  BY <1>0, Alone DEF UnderLock
<1>2. PICK good \in BOOLEAN :
            /\ job' = [job EXCEPT ![p] = AfterWrite(p, next, good)]
            /\ failures' \in 0..MaxFailures /\ failures' >= failures
            /\ (sheet' = sheet /\ ~good) \/ \E r \in SheetRows : Puts(p, r)
  BY WriteEffect
<1> DEFINE j == AfterWrite(p, next, good)
<1>3. /\ j \in JobType /\ j.at = next /\ j.todo = old.todo /\ j.read = old.read
      /\ j.records = old.records /\ j.good = (old.good /\ good)
  BY <1>0, AfterWriteIs
<1>4. job' = [job EXCEPT ![p] = j]
  BY <1>2
<1> HIDE DEF j
<1>5. /\ job' \in [Publishers -> JobType] /\ job'[p] = j
      /\ \A q \in Publishers : q # p => job'[q] = job[q] /\ job'[q].at = "idle"
  BY <1>1, <1>3, <1>4, JobStep
<1>6. CASE sheet' = sheet /\ ~good
  <2>1. Published(p)'
    <3>1. \A v : RowsOf(v)' = RowsOf(v) /\ Edition(v)' = Edition(v)
      BY <1>0, <1>6 DEF RowsOf, Edition
    <3> QED BY <1>0, <1>3, <1>5, <1>6, <3>1 DEF Published
  <2>2. Found(p)'
    BY <1>0, <1>3, <1>5 DEF Found
  <2>3. Linked(p)'
    <3>1. Listed' = Listed
      BY <1>6 DEF Listed
    <3> QED BY <1>0, <1>3, <1>5, <3>1 DEF Linked, Writes
  <2>4. fileLock' \in Publishers \cup {NoPublisher}
    BY <1>1
  <2> QED BY <1>0, <1>1, <1>2, <1>3, <1>4, <1>6, <2>1, <2>2, <2>3, <2>4, QuietKeeps
<1>7. ASSUME NEW r \in SheetRows, Puts(p, r)
      PROVE  MembersInv'
  <2>0. PICK u \in Members : u = job[p].member
    BY <1>7 DEF Puts
  <2>1. /\ sheet' \in [SheetRows -> SheetRow] /\ RowsTrue' /\ MadeCounted' /\ Listed \subseteq Listed'
        /\ r \in RowsOf(u)' /\ sheet'[r].edition = old.read[u]
        /\ \A s \in SheetRows : s # r => sheet'[s] = sheet[s]
        /\ \A v \in Members : /\ \A s \in RowsOf(v)' : s \in RowsOf(v) \/ (s = r /\ v = u)
                              /\ \A s \in RowsOf(v) : s # r => s \in RowsOf(v)'
    <3>1. failures' \in Nat
      BY <1>2, BoundsAssumption
    <3> QED BY <1>0, <1>2, <1>7, <2>0, <3>1, PutKeeps
  <2>2. MembersTyped' /\ UnderLock'
    <3>1. ProfilesTyped'
      BY <1>0 DEF MembersTyped, ProfilesTyped, Edition
    <3> QED BY <1>0, <1>1, <1>2, <1>5, <2>1, <3>1 DEF MembersTyped, UnderLock
  <2>3. \A v \in Members : old.read[v] \in Nat
    BY MembersNumbers
  <2>4. Published(p)'
    <3> SUFFICES ASSUME next = "publish" PROVE Published(p)'
      BY <1>0, <1>3, <1>5 DEF Published
    <3>1. ASSUME NEW v \in Members, old.read[v] > 0
          PROVE  /\ old.read[v] <= Edition(v)'
                 /\ \A s \in RowsOf(v)' : sheet'[s].edition <= old.read[v]
      <4>1. old.read[v] <= Edition(v) /\ \A s \in RowsOf(v) : sheet[s].edition <= old.read[v]
        BY <1>0, <3>1 DEF Published
      <4>2. old.read[v] <= Edition(v)'
        BY <1>0, <4>1 DEF Edition
      <4>3. ASSUME NEW s \in RowsOf(v)'
            PROVE  sheet'[s].edition <= old.read[v]
        <5>0. s \in SheetRows /\ sheet'[s].member = v /\ sheet'[r].member = u
          BY <2>1 DEF RowsOf
        <5>1. CASE s = r
          BY <2>1, <2>3, <5>0, <5>1
        <5>2. CASE s # r
          BY <2>1, <4>1, <5>0, <5>2
        <5> QED BY <5>1, <5>2
      <4> QED BY <4>2, <4>3
    <3>2. \A v \in old.todo : old.read[v] > 0
      BY <1>0 DEF Published
    <3>3. ASSUME j.good, NEW v \in Members \ old.todo, old.read[v] > 0
          PROVE  UpToDate(p, v)'
      <4>1. job'[p].read[v] = old.read[v]
        BY <1>3, <1>5
      <4>2. CASE v = u
        <5>1. r \in RowsOf(v)' /\ sheet'[r].edition >= old.read[v]
          BY <2>1, <2>3, <4>2
        <5> QED BY <4>1, <5>1 DEF UpToDate
      <4>3. CASE v # u
        <5>1. UpToDate(p, v)
          BY <1>0, <1>3, <2>0, <3>3, <4>3 DEF Published
        <5>2. PICK s \in RowsOf(v) : sheet[s].edition >= old.read[v]
          BY <5>1 DEF UpToDate
        <5>3. s \in SheetRows /\ sheet[s].member = v /\ sheet[s].edition \in Nat
          BY MembersNumbers DEF RowsOf
        <5>4. Shows(s)
          BY <2>3, <3>3, <5>2, <5>3 DEF Shows
        <5>5. s # r
          BY <1>7, <2>0, <4>3, <5>3, <5>4 DEF Puts
        <5>6. s \in RowsOf(v)' /\ sheet'[s].edition >= old.read[v]
          BY <2>1, <5>2, <5>3, <5>5
        <5> QED BY <4>1, <5>6 DEF UpToDate
      <4> QED BY <4>2, <4>3
    <3> QED BY <1>3, <1>5, <3>1, <3>2, <3>3 DEF Published
  <2>5. Found(p)' /\ Linked(p)'
    BY <1>0, <1>3, <1>5, <2>1 DEF Found, Linked, Writes
  <2>6. \A q \in Publishers : q # p => Published(q)' /\ Found(q)' /\ Linked(q)'
    BY <1>5, IdleKeeps
  <2> QED BY <2>1, <2>2, <2>4, <2>5, <2>6
<1> QED BY <1>2, <1>6, <1>7

-----------------------------------------------------------------------------
(* Importing. *)

LEMMA ReadRecordsKeeps ==
  ASSUME MembersInv, NEW p \in Publishers, ReadRecords(p)
  PROVE  MembersInv'
<1> USE DEF MembersInv
<1>1. PICK rows \in SUBSET Listed :
        Listing(p, rows) /\ job' = [job EXCEPT ![p].at = "import", ![p].records = rows]
  BY DEF ReadRecords
<1> DEFINE j == [job[p] EXCEPT !.at = "import", !.records = rows]
<1>2. job[p].at = "records" /\ UNCHANGED <<profile, applicants, sheet, filled, missed, fileLock>>
  BY DEF ReadRecords, Working
<1>3. j \in JobType /\ j.at = "import" /\ j.records = rows
  BY DEF MembersTyped, JobType, Stages, Listed
<1>4. job' = [job EXCEPT ![p] = j]
  BY <1>1 DEF MembersTyped
<1> HIDE DEF j
<1>5. job'[p] = j
  BY <1>3, <1>4, JobStep
<1>6. /\ fileLock' = p /\ fileLock' \in Publishers \cup {NoPublisher}
      /\ \A q \in Publishers : q # p => job[q].at = "idle"
  BY <1>2, Alone DEF UnderLock
<1>7. failures' \in 0..MaxFailures /\ failures' >= failures
  BY <1>1, BoundsAssumption DEF Listing, MembersTyped
<1>8. Listed' = Listed
  BY <1>2 DEF Listed
<1>9. Published(p)' /\ Found(p)' /\ Linked(p)'
  BY <1>3, <1>5, <1>8 DEF Published, Found, Linked
<1> QED BY <1>2, <1>3, <1>4, <1>6, <1>7, <1>9, QuietKeeps

\* A row that shows a member is linked with no other.
LEMMA LinkKeeps ==
  ASSUME MembersInv, NEW p \in Publishers, NEW r \in SheetRows, LinkRecord(p, r)
  PROVE  MembersInv'
<1> USE DEF MembersInv
<1>1. /\ job[p].at = "import" /\ r \in job[p].records /\ r \in Listed
      /\ UNCHANGED <<profile, applicants, sheet, filled, missed, fileLock, failures>>
  BY DEF LinkRecord, Working, LocalAndRemote, Remote, Linked
<1>2. /\ fileLock' = p /\ fileLock' \in Publishers \cup {NoPublisher}
      /\ failures' \in 0..MaxFailures /\ failures' >= failures
      /\ \A q \in Publishers : q # p => job[q].at = "idle"
  BY <1>1, Alone, MembersNumbers DEF UnderLock, MembersTyped
<1>3. job[p] \in JobType /\ Listed' = Listed /\ r \in 0..MaxSheet
  BY <1>1, BoundsAssumption DEF MembersTyped, Listed, SheetRows
<1>a. Shows(r) => sheet[r].member \in Known
  <2> SUFFICES ASSUME Shows(r) PROVE sheet[r].member \in Known
    OBVIOUS
  <2>1. PICK u \in Members : u = sheet[r].member
    BY DEF RowsTrue
  <2>2. sheet[r].edition <= Edition(u) /\ Edition(u) \in Nat /\ sheet[r].edition \in Nat
    BY <2>1, MembersNumbers DEF RowsTrue
  <2> QED BY <2>1, <2>2 DEF Known, Shows
<1>4. CASE IsNew(r) /\ job' = [job EXCEPT ![p].at = "create", ![p].row = r, ![p].records = @ \ {r}]
  <2> DEFINE j == [job[p] EXCEPT !.at = "create", !.row = r, !.records = @ \ {r}]
  <2>1. /\ j \in JobType /\ j.at = "create" /\ j.row = r /\ j.records = job[p].records \ {r}
    BY <1>3 DEF JobType, Stages
  <2>2. job' = [job EXCEPT ![p] = j]
    BY <1>4 DEF MembersTyped
  <2> HIDE DEF j
  <2>3. job'[p] = j
    BY <2>1, <2>2, JobStep
  <2>4. ~Shows(r)
    BY <1>4, <1>a DEF IsNew
  <2>5. Published(p)' /\ Found(p)' /\ Linked(p)'
    BY <1>1, <1>3, <2>1, <2>3, <2>4 DEF Published, Found, Linked, Shows
  <2> QED BY <1>1, <1>2, <2>1, <2>2, <2>5, QuietKeeps
<1>5. CASE job' = [job EXCEPT ![p].records = @ \ {r}]
  <2> DEFINE j == [job[p] EXCEPT !.records = @ \ {r}]
  <2>1. /\ j \in JobType /\ j.at = "import" /\ j.records = job[p].records \ {r}
    BY <1>1, <1>3 DEF JobType, Stages
  <2>2. job' = [job EXCEPT ![p] = j]
    BY <1>5 DEF MembersTyped
  <2> HIDE DEF j
  <2>3. job'[p] = j
    BY <2>1, <2>2, JobStep
  <2>5. Published(p)' /\ Found(p)' /\ Linked(p)'
    BY <1>1, <1>3, <2>1, <2>3 DEF Published, Found, Linked
  <2> QED BY <1>1, <1>2, <2>1, <2>2, <2>5, QuietKeeps
<1>6. ASSUME NEW u \in Owners(r),
             job' = [job EXCEPT ![p].at = "fetch", ![p].row = r, ![p].records = @ \ {r}, ![p].member = u]
      PROVE  MembersInv'
  <2> DEFINE j == [job[p] EXCEPT !.at = "fetch", !.row = r, !.records = @ \ {r}, !.member = u]
  <2>0. u \in Members /\ Edition(u) > 0 /\ (Shows(r) => sheet[r].member = u)
    <3>1. \/ u \in OfPerson(sheet[r].person) /\ {sheet[r].member} \cap Known = {}
          \/ u \in {sheet[r].member} \cap Known
      BY DEF Owners
    <3> QED BY <1>a, <3>1 DEF OfPerson, Known
  <2>1. /\ j \in JobType /\ j.at = "fetch" /\ j.row = r /\ j.records = job[p].records \ {r}
        /\ j.member = u
    BY <1>3, <2>0 DEF JobType, Stages
  <2>2. job' = [job EXCEPT ![p] = j]
    BY <1>6 DEF MembersTyped
  <2> HIDE DEF j
  <2>3. job'[p] = j
    BY <2>1, <2>2, JobStep
  <2>5. Published(p)' /\ Found(p)' /\ Linked(p)'
    BY <1>1, <1>3, <2>0, <2>1, <2>3 DEF Published, Found, Linked, Shows, Edition
  <2> QED BY <1>1, <1>2, <2>1, <2>2, <2>5, QuietKeeps
<1> QED BY <1>4, <1>5, <1>6 DEF LinkRecord

LEMMA FetchKeeps ==
  ASSUME MembersInv, NEW p \in Publishers, FetchMember(p)
  PROVE  MembersInv'
<1> USE DEF MembersInv
<1> DEFINE old == job[p]
           u == old.member
           j == [old EXCEPT !.at = "writeback", !.read = [@ EXCEPT ![u] = Edition(u)]]
<1>1. /\ old.at = "fetch" /\ UNCHANGED <<profile, applicants, sheet, filled, missed, fileLock, failures>>
  BY DEF FetchMember, Working, LocalAndRemote, Remote
<1>2. /\ old \in JobType /\ u \in Members /\ Edition(u) \in 0..MaxEdition
  BY <1>1 DEF MembersTyped, ProfilesTyped, Linked
<1>3. /\ j \in JobType /\ j.at = "writeback" /\ j.row = old.row /\ j.records = old.records
      /\ j.member = u /\ j.read[u] = Edition(u)
  BY <1>2 DEF JobType, Stages
<1>4. job' = [job EXCEPT ![p] = j]
  BY DEF FetchMember, MembersTyped
<1> HIDE DEF j
<1>5. job'[p] = j
  BY <1>3, <1>4, JobStep
<1>6. /\ fileLock' = p /\ fileLock' \in Publishers \cup {NoPublisher}
      /\ failures' \in 0..MaxFailures /\ failures' >= failures
      /\ \A q \in Publishers : q # p => job[q].at = "idle"
  BY <1>1, Alone, MembersNumbers DEF UnderLock, MembersTyped
<1>7. Published(p)' /\ Found(p)'
  BY <1>3, <1>5 DEF Published, Found
<1>8. Linked(p)'
  <2>1. Listed' = Listed
    BY <1>1 DEF Listed
  <2>2. Edition(u) <= Edition(u) /\ Edition(u) > 0
    BY <1>1, <1>2, BoundsAssumption DEF Linked
  <2>3. /\ old.row \in SheetRows /\ old.row \in Listed /\ old.records \subseteq Listed
        /\ Shows(old.row) => sheet[old.row].member = u
    BY <1>1 DEF Linked, Listed
  <2>4. sheet[old.row].edition <= Edition(u)
    <3>1. sheet[old.row].edition \in Nat /\ Edition(u) \in Nat
      BY <1>2, <2>3, MembersNumbers
    <3>2. CASE Shows(old.row)
      BY <2>3, <3>2 DEF RowsTrue
    <3>3. CASE ~Shows(old.row)
      BY <2>2, <3>1, <3>3 DEF Shows
    <3> QED BY <3>2, <3>3
  <2> QED BY <1>1, <1>2, <1>3, <1>5, <2>1, <2>2, <2>3, <2>4 DEF Linked, Edition, Shows
<1> QED BY <1>1, <1>3, <1>4, <1>6, <1>7, <1>8, QuietKeeps

\* The member an import creates is the one it answers with.
LEMMA CreateMemberKeeps ==
  ASSUME MembersInv, NEW p \in Publishers, CreateMember(p)
  PROVE  MembersInv'
<1> USE DEF MembersInv
<1> DEFINE old == job[p]
           c == CHOOSE u \in Members \ Known : \A v \in Members \ Known : u <= v
           j == [old EXCEPT !.at = "fetch", !.member = c]
<1>1. /\ old.at = "create" /\ UNCHANGED <<applicants, Remote, fileLock>>
      /\ Created(sheet[old.row].person)
  BY DEF CreateMember, Working
<1>2. old \in JobType /\ old.row \in Listed /\ old.row \in SheetRows /\ ~Shows(old.row)
  BY <1>1 DEF MembersTyped, Linked, Listed
<1>3. sheet[old.row].person \in People \cup {NoPerson}
  BY <1>2 DEF MembersTyped, SheetRow
<1>4. /\ Newer
      /\ \E u \in Members \ Known : (\A v \in Members \ Known : u <= v) /\ Edition(u)' = 1
  BY <1>1, <1>3, CreatedEffect
<1>5. PICK u \in Members \ Known : (\A v \in Members \ Known : u <= v) /\ Edition(u)' = 1
  BY <1>4
<1>6. c = u
  <2>1. c \in Members \ Known /\ \A v \in Members \ Known : c <= v
    BY <1>5
  <2>2. c <= u /\ u <= c /\ c \in Nat /\ u \in Nat
    BY <1>5, <2>1, NamesAssumption
  <2> QED BY <2>2
<1>7. /\ j \in JobType /\ j.at = "fetch" /\ j.member = u /\ j.row = old.row /\ j.records = old.records
  BY <1>2, <1>6 DEF JobType, Stages
<1>8. job' = [job EXCEPT ![p] = j]
  <2>1. job' = [job EXCEPT ![p].at = "fetch", ![p].member = c]
    BY DEF CreateMember
  <2>2. p \in DOMAIN job
    BY DEF MembersTyped
  <2> HIDE DEF c
  <2> QED BY <2>1, <2>2
<1> HIDE DEF j, c
<1>9. /\ job' \in [Publishers -> JobType] /\ job'[p] = j
      /\ \A q \in Publishers : q # p => job'[q] = job[q]
  BY <1>7, <1>8, JobStep
<1>10. fileLock' = p /\ \A q \in Publishers : q # p => job'[q].at = "idle"
  BY <1>1, <1>9, Alone DEF UnderLock
<1>11. sheet' = sheet /\ Listed' = Listed
  BY <1>1 DEF Listed, Remote
<1>12. MembersTyped' /\ UnderLock'
  BY <1>1, <1>4, <1>9, <1>10, <1>11 DEF MembersTyped, UnderLock, Newer, Remote
<1>13. RowsTrue' /\ MadeCounted'
  BY <1>1, <1>4, NewerKeeps
<1>14. Published(p)' /\ Found(p)'
  BY <1>7, <1>9 DEF Published, Found
<1>15. Linked(p)'
  <2>1. old.records \subseteq Listed
    BY <1>1 DEF Linked
  <2> QED BY <1>2, <1>5, <1>7, <1>9, <1>11, <2>1 DEF Linked, Edition, Shows
<1>16. \A q \in Publishers : q # p => Published(q)' /\ Found(q)' /\ Linked(q)'
  BY <1>10, IdleKeeps
<1> QED BY <1>12, <1>13, <1>14, <1>15, <1>16

-----------------------------------------------------------------------------

LEMMA PublisherKeeps ==
  ASSUME MembersInv, NEW p \in Publishers, Publisher(p)
  PROVE  MembersInv'
<1>1. ASSUME NEW todo \in {Members} \cup {{u} : u \in Known}, BeginPublish(p, todo)
      PROVE  MembersInv'
  <2>1. todo \in SUBSET Members
    BY DEF Known
  <2> QED BY <1>1, <2>1, BeginPublisherKeeps
<1>2. ASSUME BeginImport(p)
      PROVE  MembersInv'
  <2>1. {} \in SUBSET Members
    OBVIOUS
  <2> QED BY <1>2, <2>1, BeginPublisherKeeps
<1>3. CASE ReadMembers(p) \/ (\E u \in Members : FindRow(p, u))
  BY <1>3, ReadMembersKeeps, FindRowKeeps
<1>4. CASE Upsert(p) \/ WriteBack(p)
  BY <1>4, WriteKeeps DEF Upsert, WriteBack, Writes
<1>5. CASE EndPublish(p) \/ EndImport(p) \/ PublisherDies(p)
  BY <1>5, UnlockedKeeps
<1>6. CASE ReadRecords(p) \/ (\E r \in SheetRows : LinkRecord(p, r)) \/ CreateMember(p) \/ FetchMember(p)
  BY <1>6, ReadRecordsKeeps, LinkKeeps, CreateMemberKeeps, FetchKeeps
<1> QED BY <1>1, <1>2, <1>3, <1>4, <1>5, <1>6 DEF Publisher

LEMMA NextKeepsMembersInv == MembersInv /\ [MembersNext]_memberVars => MembersInv'
<1> SUFFICES ASSUME MembersInv, [MembersNext]_memberVars PROVE MembersInv'
  OBVIOUS
<1>0. MembersTyped /\ applicants \subseteq People
  BY DEF MembersInv, MembersTyped
<1>a. profile' = profile => Newer
  BY <1>0, MembersNumbers DEF Newer, MembersTyped, ProfilesTyped, Edition
<1>1. ASSUME NEW p \in Publishers, Publisher(p) PROVE MembersInv'
  BY <1>1, PublisherKeeps
<1>2. ASSUME NEW q \in People, Apply(q) PROVE MembersInv'
  BY <1>0, <1>2, <1>a, LocalKeeps DEF Apply
<1>3. ASSUME NEW q \in People, Register(q) PROVE MembersInv'
  <2>1. Newer
    BY <1>0, <1>3, CreatedEffect DEF Register
  <2> QED BY <1>0, <1>3, <2>1, LocalKeeps DEF Register
<1>4. ASSUME NEW u \in Members, NEW q \in People \cup {NoPerson}, ChangeMember(u, q) PROVE MembersInv'
  <2>1. Newer
    BY <1>0, <1>4, ChangeEffect
  <2> QED BY <1>0, <1>4, <2>1, LocalKeeps DEF ChangeMember
<1>5. ASSUME NEW u \in Members \cup {NoMember}, NEW q \in People \cup {NoPerson}, FillIn(q, u)
      PROVE MembersInv'
  BY <1>5, FillInKeeps
<1>6. CASE UNCHANGED memberVars
  BY <1>0, <1>6, <1>a, LocalKeeps DEF memberVars, Remote
<1> QED BY <1>1, <1>2, <1>3, <1>4, <1>5, <1>6 DEF MembersNext

\* Whoever publishes or imports has the lock; a row shows one edition of its
\* member, or a visitor has filled it in; a member has at most one row more than
\* searches have missed, those of visitors apart; and what a publication has
\* passed is published.
THEOREM MembersInvariant == MembersSpec => []MembersInv
<1> QED BY InitHasMembersInv, NextKeepsMembersInv, PTL DEF MembersSpec

\* The variables of the members' table keep their domains.
THEOREM MembersTypeCorrect == MembersSpec => []MembersTypeOK
<1>1. MembersInv => MembersTypeOK
  <2> SUFFICES ASSUME MembersInv PROVE MembersTypeOK
    OBVIOUS
  <2>1. \A p \in Publishers : job[p] \in JobType
    BY DEF MembersInv, MembersTyped
  <2>2. missed \in [Members -> 0..MaxFailures]
    <3>1. \A u \in Members : missed[u] \in Nat /\ missed[u] <= failures
      BY DEF MembersInv, MembersTyped, MadeCounted
    <3> QED BY <3>1, BoundsAssumption DEF MembersInv, MembersTyped
  <2>3. \A u \in Members : Edition(u) <= MaxEdition
    BY BoundsAssumption DEF MembersInv, MembersTyped, ProfilesTyped
  <2> QED BY <2>1, <2>2, <2>3 DEF MembersInv, MembersTyped, ProfilesTyped, MembersTypeOK, UnderLock, JobType,
                                 Stages, SheetRow
<1> QED BY <1>1, MembersInvariant, PTL

-----------------------------------------------------------------------------

\* Only two steps of a publisher and a visitor write the table.
LEMMA WhoWrites ==
  ASSUME MembersInv, MembersNext, sheet' # sheet
  PROVE  \/ \E u \in Members \cup {NoMember}, q \in People \cup {NoPerson} : FillIn(q, u)
         \/ \E p \in Publishers : Writes(p, "upsert", "publish") \/ Writes(p, "writeback", "import")
<1>1. \A q \in People : ~Apply(q) /\ ~Register(q)
  BY DEF Apply, Register, Remote
<1>2. \A u \in Members, q \in People \cup {NoPerson} : ~ChangeMember(u, q)
  BY DEF ChangeMember, Remote
<1>3. ASSUME NEW p \in Publishers, Publisher(p)
      PROVE  Upsert(p) \/ WriteBack(p)
  <2>1. \A todo : ~BeginPublish(p, todo)
    BY DEF BeginPublish, LocalAndRemote, Remote
  <2>2. ~ReadMembers(p) /\ ~BeginImport(p) /\ ~ReadRecords(p) /\ ~CreateMember(p) /\ ~FetchMember(p)
    BY DEF ReadMembers, BeginImport, ReadRecords, CreateMember, FetchMember, LocalAndRemote, Remote
  <2>3. \A u \in Members : ~FindRow(p, u)
    BY DEF FindRow
  <2>4. \A r \in SheetRows : ~LinkRecord(p, r)
    BY DEF LinkRecord, LocalAndRemote, Remote
  <2>5. ~EndPublish(p) /\ ~EndImport(p) /\ ~PublisherDies(p)
    BY DEF EndPublish, EndImport, PublisherDies, Unlocked, LocalAndRemote, Remote
  <2> QED BY <1>3, <2>1, <2>2, <2>3, <2>4, <2>5 DEF Publisher
<1> QED BY <1>1, <1>2, <1>3 DEF MembersNext, Upsert, WriteBack, Writes

\* A row that shows a member goes on to show it, and never an older edition.
LEMMA RowsStay ==
  ASSUME MembersInv, MembersNext, NEW r \in SheetRows, Shows(r)
  PROVE  LET shown == sheet'[r]
         IN  /\ shown.member = sheet[r].member /\ shown.edition >= sheet[r].edition
             /\ shown.person = profile[shown.member][shown.edition]
<1>0. /\ sheet[r].edition \in Nat /\ sheet[r].edition > 0
      /\ sheet[r].person = profile[sheet[r].member][sheet[r].edition]
  BY MembersNumbers DEF MembersInv, RowsTrue, Shows
<1>1. CASE sheet'[r] = sheet[r]
  BY <1>0, <1>1
<1>2. ASSUME NEW u, NEW q, FillIn(q, u)
      PROVE  sheet'[r] = sheet[r]
  <2>1. sheet[r] # NoSheetRow
    BY <1>0 DEF NoSheetRow
  <2> QED BY <1>2, <2>1 DEF FillIn, NextRow, MembersInv, MembersTyped
<1>3. ASSUME NEW p \in Publishers, NEW from, NEW next, Writes(p, from, next), sheet'[r] # sheet[r]
      PROVE  LET shown == sheet'[r]
             IN  /\ shown.member = sheet[r].member /\ shown.edition >= sheet[r].edition
                 /\ shown.person = profile[shown.member][shown.edition]
  <2>1. PICK s \in SheetRows : Puts(p, s)
    BY <1>3, WriteEffect
  <2>2. r = s /\ sheet'[r] = Entry(p)
    BY <1>3, <2>1 DEF Puts, MembersInv, MembersTyped
  <2>3. /\ sheet[r].member = job[p].member /\ sheet[r].edition <= job[p].read[job[p].member]
        /\ job[p].member \in Members
    BY <2>1, <2>2 DEF Puts
  <2>4. job[p].read[job[p].member] \in Nat
    BY <2>3, MembersNumbers DEF MembersInv
  <2> QED BY <1>0, <2>2, <2>3, <2>4 DEF Entry
<1>4. CASE sheet' # sheet
  BY <1>1, <1>2, <1>3, <1>4, WhoWrites
<1> QED BY <1>1, <1>4

\* A publication that ends well has made every member it read at least as new.
LEMMA EndsUpToDate ==
  ASSUME MembersInv, NEW p \in Publishers, job[p].at = "publish", job[p].good, job[p].todo = {},
         NEW u \in Members, job[p].read[u] > 0
  PROVE  \E r \in RowsOf(u) : sheet[r].edition >= job[p].read[u]
<1>1. UpToDate(p, u)
  BY DEF MembersInv, Published
<1> QED BY <1>1 DEF UpToDate

\* Whatever publishers, visitors and members do, and whichever calls fail: each
\* row of a member beyond the first is one that a search has missed or a visitor
\* has filled in, no row that shows a member changes hands or goes back, and a
\* publication that reports no failure has published all that it has read.
THEOREM TableKept == MembersSpec => TableFollows
<1> DEFINE RowStays(r) ==
             Shows(r) => LET shown == sheet'[r]
                         IN  /\ shown.member = sheet[r].member /\ shown.edition >= sheet[r].edition
                             /\ shown.person = profile[shown.member][shown.edition]
           Finishes(p) ==
             job[p].at = "publish" /\ job[p].good /\ job[p].todo = {} /\ job'[p].at = "idle" =>
                 \A u \in Members : job[p].read[u] > 0 =>
                     \E r \in RowsOf(u) : sheet[r].edition >= job[p].read[u]
           Step == /\ \A r \in SheetRows : RowStays(r)
                   /\ \A p \in Publishers : Finishes(p)
           Few == \A u \in Members : Cardinality(RowsOf(u) \ filled) <= 1 + missed[u]
<1>1. MembersInv /\ [MembersNext]_memberVars => [Step]_memberVars
  <2> SUFFICES ASSUME MembersInv, MembersNext PROVE Step
    OBVIOUS
  <2>1. ASSUME NEW r \in SheetRows PROVE RowStays(r)
    BY <2>1, RowsStay
  <2>2. ASSUME NEW p \in Publishers PROVE Finishes(p)
    BY <2>2, EndsUpToDate
  <2> HIDE DEF RowStays, Finishes
  <2> QED BY <2>1, <2>2
<1>2. MembersInv => Few
  BY DEF MembersInv, MadeCounted, Made
<1> HIDE DEF Few
<1>3. MembersSpec => []Few /\ [][Step]_memberVars
  BY <1>1, <1>2, MembersInvariant, PTL DEF MembersSpec
<1> QED BY <1>3 DEF TableFollows, Few

-----------------------------------------------------------------------------
(* Sums over finite sets. *)

Least(s) == CHOOSE x \in s : TRUE

\* The partial sums over the subsets of a set.
SumsOf(g, f, S) ==
    \A s \in SUBSET S : g[s] = IF s = {} THEN 0 ELSE f[Least(s)] + g[s \ {Least(s)}]

\* A set of subsets that is not empty has a smallest member.
LEMMA Smallest ==
  ASSUME NEW S, IsFiniteSet(S), NEW B \in SUBSET SUBSET S, B # {}
  PROVE  \E s \in B : \A t \in SUBSET S : Cardinality(t) < Cardinality(s) => t \notin B
<1> DEFINE sizes == {Cardinality(s) : s \in B}
<1>1. \A s \in SUBSET S : IsFiniteSet(s) /\ Cardinality(s) \in Nat
  BY FS_Subset, FS_CardinalityType
<1>2. sizes # {} /\ sizes \in SUBSET Nat
  BY <1>1
<1> HIDE DEF sizes
<1>3. PICK n \in sizes : \A m \in sizes : ~(<<m, n>> \in OpToRel(<, Nat))
  BY <1>2, NatLessThanWellFounded, WFMin
<1>4. \A m \in sizes : ~(m < n)
  BY <1>2, <1>3 DEF OpToRel
<1>5. PICK s \in B : n = Cardinality(s)
  BY <1>3 DEF sizes
<1>6. \A t \in B : Cardinality(t) \in sizes
  BY DEF sizes
<1> QED BY <1>4, <1>5, <1>6

\* Taking away an element makes a set smaller.
LEMMA LeastIn ==
  ASSUME NEW S, IsFiniteSet(S), NEW s \in SUBSET S
  PROVE  /\ s # {} => Least(s) \in s
         /\ \A x \in s : /\ s \ {x} \in SUBSET S
                         /\ Cardinality(s \ {x}) < Cardinality(s)
                         /\ Cardinality(s \ {x}) + 1 = Cardinality(s)
<1>1. IsFiniteSet(s) /\ Cardinality(s) \in Nat
  BY FS_Subset, FS_CardinalityType
<1>2. ASSUME NEW x \in s
      PROVE  Cardinality(s \ {x}) = Cardinality(s) - 1 /\ s \ {x} \in SUBSET S
  BY <1>1, FS_RemoveElement
<1>3. s # {} => Least(s) \in s
  BY DEF Least
<1> QED BY <1>1, <1>2, <1>3

\* The partial sums exist for the subsets up to a size, hence for all.
AreSums(g, f, S) == g = [s \in SUBSET S |-> IF s = {} THEN 0 ELSE f[Least(s)] + g[s \ {Least(s)}]]

LEMMA SumsExist ==
  ASSUME NEW S, IsFiniteSet(S), NEW f
  PROVE  \E g : AreSums(g, f, S)
<1> DEFINE Small(n) == {s \in SUBSET S : Cardinality(s) <= n}
           Has(g, n) == \A s \in Small(n) : g[s] = IF s = {} THEN 0 ELSE f[Least(s)] + g[s \ {Least(s)}]
           bad == {n \in Nat : ~ \E g : Has(g, n)}
<1>0. \A s \in SUBSET S : IsFiniteSet(s) /\ Cardinality(s) \in Nat /\ (Cardinality(s) = 0 => s = {})
  BY FS_Subset, FS_CardinalityType, FS_EmptySet
<1>1. bad = {}
  <2> SUFFICES ASSUME bad # {} PROVE FALSE
    OBVIOUS
  <2>1. PICK n \in bad : \A m \in bad : ~(<<m, n>> \in OpToRel(<, Nat))
    <3>1. bad \in SUBSET Nat
      OBVIOUS
    <3> HIDE DEF bad
    <3> QED BY <3>1, NatLessThanWellFounded, WFMin
  <2>2. n \in Nat /\ ~ \E g : Has(g, n)
    OBVIOUS
  <2>3. CASE n = 0
    <3>1. \A s \in Small(n) : s = {}
      BY <1>0, <2>3
    <3>2. Has([s \in SUBSET S |-> 0], n)
      BY <3>1
    <3> QED BY <2>2, <3>2
  <2>4. CASE n # 0
    <3>1. n - 1 \in Nat /\ n - 1 < n
      BY <2>2, <2>4
    <3>2. n - 1 \notin bad
      BY <2>1, <2>2, <3>1 DEF OpToRel
    <3>3. PICK g : Has(g, n - 1)
      BY <3>1, <3>2
    <3> DEFINE h == [s \in SUBSET S |->
                       IF s \in Small(n - 1) THEN g[s] ELSE f[Least(s)] + g[s \ {Least(s)}]]
    <3>4. ASSUME NEW s \in Small(n)
          PROVE  h[s] = IF s = {} THEN 0 ELSE f[Least(s)] + h[s \ {Least(s)}]
      <4>0. s \in SUBSET S /\ Cardinality(s) \in Nat /\ Cardinality(s) <= n
        BY <1>0, <3>4
      <4>1. CASE s = {}
        <5>1. s \in Small(n - 1)
          BY <3>1, <4>0, <4>1, FS_EmptySet
        <5> QED BY <3>3, <4>1, <5>1
      <4>2. CASE s # {}
        <5> DEFINE t == s \ {Least(s)}
        <5>1. /\ Least(s) \in s /\ t \in SUBSET S
              /\ Cardinality(t) + 1 = Cardinality(s) /\ Cardinality(t) \in Nat
          BY <1>0, <4>0, <4>2, LeastIn
        <5>2. t \in Small(n - 1)
          <6>1. Cardinality(t) <= n - 1
            BY <2>2, <4>0, <5>1
          <6> QED BY <5>1, <6>1
        <5>3. h[t] = g[t]
          BY <5>1, <5>2
        <5>4. h[s] = f[Least(s)] + g[t]
          BY <3>3, <4>0, <4>2
        <5> QED BY <4>2, <5>3, <5>4
      <4> QED BY <4>1, <4>2
    <3>5. Has(h, n)
      BY <3>4
    <3> QED BY <2>2, <3>5
  <2> QED BY <2>3, <2>4
<1>2. PICK g : Has(g, Cardinality(S))
  <2>1. Cardinality(S) \in Nat
    BY FS_CardinalityType
  <2> QED BY <1>1, <2>1
<1>3. \A s \in SUBSET S : s \in Small(Cardinality(S))
  BY FS_Subset
<1> DEFINE h == [s \in SUBSET S |-> g[s]]
<1>4. h = [s \in SUBSET S |-> IF s = {} THEN 0 ELSE f[Least(s)] + h[s \ {Least(s)}]]
  <2>1. ASSUME NEW s \in SUBSET S
        PROVE  h[s] = IF s = {} THEN 0 ELSE f[Least(s)] + h[s \ {Least(s)}]
    <3>1. s \ {Least(s)} \in SUBSET S
      OBVIOUS
    <3>2. g[s] = IF s = {} THEN 0 ELSE f[Least(s)] + g[s \ {Least(s)}]
      BY <1>2, <1>3
    <3> QED BY <3>1, <3>2
  <2> HIDE DEF h
  <2>2. h = [s \in SUBSET S |-> h[s]]
    BY DEF h
  <2> QED BY <2>1, <2>2
<1> HIDE DEF h
<1>5. AreSums(h, f, S)
  BY <1>4 DEF AreSums
<1> QED BY <1>5

\* So SumOf is the last of the partial sums.
LEMMA SumIs ==
  ASSUME NEW S, IsFiniteSet(S), NEW f, \A x \in S : f[x] \in Nat
  PROVE  \E g : SumsOf(g, f, S) /\ g[S] = SumOf(f, S) /\ \A s \in SUBSET S : g[s] \in Nat
<1> DEFINE iter == CHOOSE g : AreSums(g, f, S)
<1>1. iter = [s \in SUBSET S |-> IF s = {} THEN 0 ELSE f[Least(s)] + iter[s \ {Least(s)}]]
  <2>1. \E g : AreSums(g, f, S)
    BY SumsExist
  <2>2. AreSums(iter, f, S)
    BY <2>1
  <2> HIDE DEF iter
  <2> QED BY <2>2 DEF AreSums
<1>2. SumOf(f, S) = iter[S]
  BY DEF SumOf, MapThenSumSet, MapThenFoldSet, Least, AreSums
<1> HIDE DEF iter
<1>3. SumsOf(iter, f, S)
  BY <1>1 DEF SumsOf
<1>4. \A s \in SUBSET S : iter[s] \in Nat
  <2> DEFINE bad == {s \in SUBSET S : iter[s] \notin Nat}
  <2> SUFFICES ASSUME bad # {} PROVE FALSE
    OBVIOUS
  <2>1. PICK s \in bad : \A t \in SUBSET S : Cardinality(t) < Cardinality(s) => t \notin bad
    <3>1. bad \in SUBSET SUBSET S
      OBVIOUS
    <3> HIDE DEF bad
    <3> QED BY <3>1, Smallest
  <2>2. s # {}
    <3>1. iter[{}] = 0
      BY <1>3 DEF SumsOf
    <3>2. s \in SUBSET S /\ iter[s] \notin Nat
      BY <2>1
    <3> QED BY <3>1, <3>2
  <2>3. Least(s) \in S /\ iter[s \ {Least(s)}] \in Nat
    BY <2>1, <2>2, LeastIn
  <2> QED BY <1>3, <2>2, <2>3 DEF SumsOf
<1> QED BY <1>2, <1>3, <1>4


LEMMA SumTyped ==
  ASSUME NEW S, IsFiniteSet(S), NEW f, \A x \in S : f[x] \in Nat
  PROVE  SumOf(f, S) \in Nat
<1>1. S \in SUBSET S
  OBVIOUS
<1> QED BY <1>1, SumIs

\* The sum of equal summands is equal.
LEMMA SumSame ==
  ASSUME NEW S, IsFiniteSet(S), NEW f, \A x \in S : f[x] \in Nat,
         NEW h, \A x \in S : h[x] = f[x]
  PROVE  SumOf(h, S) = SumOf(f, S)
<1>1. PICK gf : SumsOf(gf, f, S) /\ gf[S] = SumOf(f, S) /\ \A s \in SUBSET S : gf[s] \in Nat
  BY SumIs
<1>2. PICK gh : SumsOf(gh, h, S) /\ gh[S] = SumOf(h, S) /\ \A s \in SUBSET S : gh[s] \in Nat
  BY SumIs
<1> DEFINE bad == {s \in SUBSET S : gh[s] # gf[s]}
<1>3. bad = {}
  <2> SUFFICES ASSUME bad # {} PROVE FALSE
    OBVIOUS
  <2>1. PICK s \in bad : \A t \in SUBSET S : Cardinality(t) < Cardinality(s) => t \notin bad
    <3>1. bad \in SUBSET SUBSET S
      OBVIOUS
    <3> HIDE DEF bad
    <3> QED BY <3>1, Smallest
  <2>2. s \in SUBSET S /\ gh[s] # gf[s]
    BY <2>1
  <2>3. s # {}
    BY <1>1, <1>2, <2>2 DEF SumsOf
  <2> DEFINE t == s \ {Least(s)}
  <2>4. Least(s) \in S /\ t \in SUBSET S /\ Cardinality(t) < Cardinality(s)
    BY <2>2, <2>3, LeastIn
  <2>5. gh[t] = gf[t]
    BY <2>1, <2>4
  <2> QED BY <1>1, <1>2, <2>2, <2>3, <2>4, <2>5 DEF SumsOf
<1>4. S \notin bad
  BY <1>3
<1> QED BY <1>1, <1>2, <1>4

\* The sum changes by as much as one summand does.
LEMMA SumUpdate ==
  ASSUME NEW S, IsFiniteSet(S), NEW f, \A x \in S : f[x] \in Nat,
         NEW h, \A x \in S : h[x] \in Nat,
         NEW d \in S, \A x \in S : x # d => h[x] = f[x]
  PROVE  SumOf(h, S) + f[d] = SumOf(f, S) + h[d]
<1>1. PICK gf : SumsOf(gf, f, S) /\ gf[S] = SumOf(f, S) /\ \A s \in SUBSET S : gf[s] \in Nat
  BY SumIs
<1>2. PICK gh : SumsOf(gh, h, S) /\ gh[S] = SumOf(h, S) /\ \A s \in SUBSET S : gh[s] \in Nat
  BY SumIs
<1> DEFINE bad == {s \in SUBSET S : ~ IF d \in s THEN gh[s] + f[d] = gf[s] + h[d] ELSE gh[s] = gf[s]}
<1>3. bad = {}
  <2> SUFFICES ASSUME bad # {} PROVE FALSE
    OBVIOUS
  <2>1. PICK s \in bad : \A t \in SUBSET S : Cardinality(t) < Cardinality(s) => t \notin bad
    <3>1. bad \in SUBSET SUBSET S
      OBVIOUS
    <3> HIDE DEF bad
    <3> QED BY <3>1, Smallest
  <2>2. s \in SUBSET S /\ ~ IF d \in s THEN gh[s] + f[d] = gf[s] + h[d] ELSE gh[s] = gf[s]
    BY <2>1
  <2>3. s # {}
    BY <1>1, <1>2, <2>2 DEF SumsOf
  <2> DEFINE t == s \ {Least(s)}
  <2>4. Least(s) \in S /\ Least(s) \in s /\ t \in SUBSET S /\ Cardinality(t) < Cardinality(s)
    BY <2>2, <2>3, LeastIn
  <2>5. IF d \in t THEN gh[t] + f[d] = gf[t] + h[d] ELSE gh[t] = gf[t]
    BY <2>1, <2>4
  <2>6. gf[s] = f[Least(s)] + gf[t] /\ gh[s] = h[Least(s)] + gh[t]
    BY <1>1, <1>2, <2>2, <2>3 DEF SumsOf
  <2>7. gf[t] \in Nat /\ gh[t] \in Nat /\ f[d] \in Nat /\ h[d] \in Nat
        /\ f[Least(s)] \in Nat /\ h[Least(s)] \in Nat
    BY <1>1, <1>2, <2>4
  <2>8. CASE Least(s) = d
    BY <2>2, <2>4, <2>5, <2>6, <2>7, <2>8
  <2>9. CASE Least(s) # d
    <3>1. h[Least(s)] = f[Least(s)] /\ (d \in t <=> d \in s)
      BY <2>4, <2>9
    <3> QED BY <2>2, <2>5, <2>6, <2>7, <3>1
  <2> QED BY <2>8, <2>9
<1>4. S \notin bad
  BY <1>3
<1>5. gh[S] + f[d] = gf[S] + h[d]
  BY <1>4
<1> QED BY <1>1, <1>2, <1>5

LEMMA SumZero ==
  ASSUME NEW S, IsFiniteSet(S), NEW f, \A x \in S : f[x] = 0
  PROVE  SumOf(f, S) = 0
<1>1. PICK g : SumsOf(g, f, S) /\ g[S] = SumOf(f, S) /\ \A s \in SUBSET S : g[s] \in Nat
  BY SumIs
<1> DEFINE bad == {s \in SUBSET S : g[s] # 0}
<1>2. bad = {}
  <2> SUFFICES ASSUME bad # {} PROVE FALSE
    OBVIOUS
  <2>1. PICK s \in bad : \A t \in SUBSET S : Cardinality(t) < Cardinality(s) => t \notin bad
    <3>1. bad \in SUBSET SUBSET S
      OBVIOUS
    <3> HIDE DEF bad
    <3> QED BY <3>1, Smallest
  <2>2. s \in SUBSET S /\ g[s] # 0
    BY <2>1
  <2>3. s # {}
    BY <1>1, <2>2 DEF SumsOf
  <2>4. Least(s) \in S /\ g[s \ {Least(s)}] = 0
    BY <2>1, <2>2, <2>3, LeastIn
  <2> QED BY <1>1, <2>2, <2>3, <2>4 DEF SumsOf
<1>3. S \notin bad
  BY <1>2
<1> QED BY <1>1, <1>3

\* The partial sums do not depend on the order.
LEMMA AnyOrder ==
  ASSUME NEW S, IsFiniteSet(S), NEW f, \A x \in S : f[x] \in Nat,
         NEW g, SumsOf(g, f, S), \A s \in SUBSET S : g[s] \in Nat
  PROVE  \A s \in SUBSET S : \A x \in s : g[s] = f[x] + g[s \ {x}]
<1> DEFINE bad == {s \in SUBSET S : \E x \in s : g[s] # f[x] + g[s \ {x}]}
<1> SUFFICES ASSUME bad # {} PROVE FALSE
  OBVIOUS
<1>1. PICK s \in bad : \A t \in SUBSET S : Cardinality(t) < Cardinality(s) => t \notin bad
  <2>1. bad \in SUBSET SUBSET S
    OBVIOUS
  <2> HIDE DEF bad
  <2> QED BY <2>1, Smallest
<1>2. PICK x \in s : g[s] # f[x] + g[s \ {x}]
  BY <1>1
<1> DEFINE y == Least(s)
<1>3. s \in SUBSET S /\ y \in s /\ g[s] = f[y] + g[s \ {y}]
  BY <1>1, <1>2, LeastIn DEF SumsOf
<1> HIDE DEF y
<1>4. x # y
  BY <1>2, <1>3
<1>5. /\ s \ {x} \in SUBSET S /\ s \ {x} \notin bad
      /\ s \ {y} \in SUBSET S /\ s \ {y} \notin bad
  <2>1. IsFiniteSet(s)
    BY <1>3, FS_Subset
  <2>2. ASSUME NEW z \in s PROVE s \ {z} \in SUBSET S /\ s \ {z} \notin bad
    <3>1. /\ Cardinality(s \ {z}) = Cardinality(s) - 1
          /\ Cardinality(s) \in Nat
      BY <2>1, FS_RemoveElement, FS_CardinalityType
    <3>2. Cardinality(s \ {z}) < Cardinality(s)
      BY <3>1
    <3>3. s \ {z} \in SUBSET S
      BY <1>3
    <3> HIDE DEF bad
    <3> QED BY <1>1, <3>2, <3>3
  <2> QED BY <1>2, <1>3, <2>2
<1>6. /\ g[s \ {y}] = f[x] + g[(s \ {y}) \ {x}]
      /\ g[s \ {x}] = f[y] + g[(s \ {x}) \ {y}]
  BY <1>2, <1>3, <1>4, <1>5
<1>7. (s \ {y}) \ {x} = (s \ {x}) \ {y}
  OBVIOUS
<1>8. f[x] \in Nat /\ f[y] \in Nat /\ g[(s \ {x}) \ {y}] \in Nat
  BY <1>2, <1>3
<1>9. g[s \ {x}] = f[y] + g[(s \ {x}) \ {y}] /\ g[s] = f[y] + (f[x] + g[(s \ {x}) \ {y}])
  BY <1>3, <1>6, <1>7
<1> QED BY <1>2, <1>8, <1>9

\* A sum over a set is the sum over a part of it and one more summand, when
\* the rest adds nothing.
LEMMA SumSplit ==
  ASSUME NEW S, IsFiniteSet(S), NEW f, \A x \in S : f[x] \in Nat,
         NEW P \in SUBSET S, NEW d \in S, d \notin P,
         \A x \in S : x \notin P /\ x # d => f[x] = 0
  PROVE  SumOf(f, S) = SumOf(f, P) + f[d]
<1>0. IsFiniteSet(P)
  BY FS_Subset
<1>1. PICK g : SumsOf(g, f, S) /\ g[S] = SumOf(f, S) /\ \A s \in SUBSET S : g[s] \in Nat
  BY SumIs
<1>2. PICK e : SumsOf(e, f, P) /\ e[P] = SumOf(f, P) /\ \A s \in SUBSET P : e[s] \in Nat
  BY <1>0, SumIs
<1>3. e[P] = g[P]
  <2> DEFINE bad == {s \in SUBSET P : e[s] # g[s]}
  <2> SUFFICES ASSUME bad # {} PROVE FALSE
    OBVIOUS
  <2>1. PICK s \in bad : \A t \in SUBSET P : Cardinality(t) < Cardinality(s) => t \notin bad
    <3>1. bad \in SUBSET SUBSET P
      OBVIOUS
    <3> HIDE DEF bad
    <3> QED BY <1>0, <3>1, Smallest
  <2>2. s \in SUBSET P /\ s \in SUBSET S /\ e[s] # g[s]
    BY <2>1
  <2>3. s # {}
    BY <1>1, <1>2, <2>2 DEF SumsOf
  <2>4. e[s \ {Least(s)}] = g[s \ {Least(s)}]
    BY <1>0, <2>1, <2>2, <2>3, LeastIn
  <2> QED BY <1>1, <1>2, <2>2, <2>3, <2>4 DEF SumsOf
<1>4. g[S \ {d}] = g[P]
  <2> DEFINE bad == {s \in SUBSET (S \ {d}) : g[s] # g[s \cap P]}
  <2>0. IsFiniteSet(S \ {d})
    BY FS_Subset
  <2>a. bad = {}
    <3> SUFFICES ASSUME bad # {} PROVE FALSE
      OBVIOUS
    <3>1. PICK s \in bad : \A t \in SUBSET (S \ {d}) : Cardinality(t) < Cardinality(s) => t \notin bad
      <4>1. bad \in SUBSET SUBSET (S \ {d})
        OBVIOUS
      <4> HIDE DEF bad
      <4> QED BY <2>0, <4>1, Smallest
    <3>2. s \in SUBSET (S \ {d}) /\ s \in SUBSET S /\ g[s] # g[s \cap P]
      BY <3>1
    <3>3. PICK x \in s : x \notin P
      <4>1. s \cap P # s
        BY <3>2
      <4> QED BY <4>1
    <3>4. s \ {x} \notin bad /\ s \ {x} \in SUBSET (S \ {d})
      BY <2>0, <3>1, <3>2, LeastIn
    <3>5. g[s \ {x}] = g[(s \ {x}) \cap P]
      BY <3>4
    <3>6. (s \ {x}) \cap P = s \cap P
      BY <3>3
    <3>7. f[x] = 0 /\ g[s] = f[x] + g[s \ {x}] /\ g[s \ {x}] \in Nat
      BY <1>1, <3>2, <3>3, AnyOrder
    <3>8. g[s] = g[s \ {x}]
      BY <3>7
    <3> QED BY <3>2, <3>5, <3>6, <3>8
  <2>1. S \ {d} \notin bad
    BY <2>a
  <2>2. (S \ {d}) \cap P = P
    OBVIOUS
  <2> QED BY <2>1, <2>2
<1>5. g[S] = f[d] + g[S \ {d}] /\ g[S \ {d}] \in Nat
  <2>1. S \in SUBSET S
    OBVIOUS
  <2> QED BY <1>1, <2>1, AnyOrder
<1> QED BY <1>1, <1>2, <1>3, <1>4, <1>5

(***************************************************************************)
(* The daily quota.                                                        *)
(***************************************************************************)

USE ProcessesFinite, QuotaIsNat

QuotaTyped ==
    /\ today \in Days /\ required \in BOOLEAN /\ refused \in Days \cup {NoWindow}
    /\ shared \in [Days -> Nat]
    /\ window \in [Procs -> [Days -> Nat]]
    /\ seeds \in [Procs -> [Days -> [Formats -> Nat]]]
    /\ serving \in [Requests -> {"idle", "shared", "local", "running"}]
    /\ day \in [Requests -> Days] /\ seed \in [Requests -> Nat]
    /\ counter \in [Days -> Nat] /\ allowed \in [Days -> Nat]
    /\ opened \in [Days -> Nat] /\ carried \in [Days -> Nat] /\ unanswered \in [Days -> Nat]
    /\ queue \in [Procs -> [Days -> Nat]] /\ batch \in [Procs -> [Days -> Nat]]
    /\ calls \in Nat /\ ended \in Nat /\ lost \in Nat /\ outages \in Nat

LEMMA DaysFinite == IsFiniteSet(Days) /\ \A n \in Days : n \in Nat /\ n # NoWindow
<1>1. IsFiniteSet(0..MaxDay)
  BY FS_Interval
<1> QED BY <1>1 DEF Days, NoWindow

LEMMA TotalTyped ==
  ASSUME NEW f \in [Days -> Nat]
  PROVE  Total(f) \in Nat
BY DaysFinite, SumTyped DEF Total

LEMMA NoRecordsTyped == NoRecords \in [Days -> Nat] /\ Total(NoRecords) = 0
<1>1. NoRecords \in [Days -> Nat] /\ \A d \in Days : NoRecords[d] = 0
  BY DEF NoRecords
<1> QED BY <1>1, DaysFinite, SumZero DEF Total

LEMMA NoWindowTyped == NoWindow \in Nat /\ NoWindow > Limit
BY DEF NoWindow

LEMMA QuotaInitTyped == QuotaInit => QuotaTyped
BY DaysFinite, NoRecordsTyped, NoWindowTyped DEF QuotaInit, QuotaTyped, Days, Formats

LEMMA ReadSeedTyped ==
  ASSUME QuotaTyped, NEW t \in Requests, NEW f \in Formats, ReadSeed(t, f)
  PROVE  /\ seed' \in [Requests -> Nat] /\ day' \in [Requests -> Days]
         /\ seeds' \in [Procs -> [Days -> [Formats -> Nat]]]
<1> DEFINE p == Home[t]
           cached == seeds[p][today][f]
<1>1. p \in Procs /\ cached \in Nat /\ counter[today] \in Nat /\ today \in Days
  BY DEF QuotaTyped
<1>2. PICK value \in IF cached # NoWindow THEN {cached} ELSE {counter[today], 0} :
        /\ seed' = [seed EXCEPT ![t] = value]
        /\ seeds' = [seeds EXCEPT ![p][today][f] = value]
  BY DEF ReadSeed
<1>3. value \in Nat
  BY <1>1, <1>2
<1> QED BY <1>1, <1>2, <1>3 DEF QuotaTyped, ReadSeed

LEMMA CountedTyped ==
  ASSUME QuotaTyped, NEW w \in Nat, NEW t \in Requests
  PROVE  Counted(w, t) \in Nat
BY DEF QuotaTyped, Counted

LEMMA EarlierTyped ==
  ASSUME QuotaTyped, NEW p \in Procs
  PROVE  SumOf(batch[p], 0..today - 1) \in Nat
<1>1. IsFiniteSet(0..today - 1) /\ \A d \in 0..today - 1 : d \in Days
  <2>1. today \in Int /\ today <= MaxDay /\ today - 1 \in Int
    BY DEF QuotaTyped, Days
  <2>2. IsFiniteSet(0..today - 1)
    BY <2>1, FS_Interval
  <2> QED BY <2>1, <2>2 DEF Days
<1>2. \A d \in 0..today - 1 : batch[p][d] \in Nat
  BY <1>1 DEF QuotaTyped
<1> QED BY <1>1, <1>2, SumTyped

\* A call is allowed or refused, and the window it was counted in.
LEMMA DecidedTyped ==
  ASSUME QuotaTyped, NEW t \in Requests, NEW w \in Nat
  PROVE  /\ Opens(w, t) => opened' \in [Days -> Nat]
         /\ Allow(t) => /\ allowed' \in [Days -> Nat]
                        /\ refused' \in Days \cup {NoWindow}
                        /\ serving' \in [Requests -> {"idle", "shared", "local", "running"}]
         /\ \A d \in Days \cup {NoWindow} :
              Refuse(t, d) => /\ allowed' \in [Days -> Nat]
                              /\ refused' \in Days \cup {NoWindow}
                              /\ serving' \in [Requests -> {"idle", "shared", "local", "running"}]
<1>1. day[t] \in Days
  BY DEF QuotaTyped
<1>2. Opens(w, t) => opened' \in [Days -> Nat]
  BY <1>1 DEF QuotaTyped, Opens
<1>3. Allow(t) => /\ allowed' \in [Days -> Nat]
                  /\ refused' \in Days \cup {NoWindow}
                  /\ serving' \in [Requests -> {"idle", "shared", "local", "running"}]
  BY <1>1 DEF QuotaTyped, Allow
<1> QED BY <1>2, <1>3 DEF QuotaTyped, Refuse

\* The script leaves the counter alone, or counts in it and opens it if it is missing.
LEMMA ScriptTyped ==
  ASSUME QuotaTyped, NEW t \in Requests, NEW verdict, Script(t, verdict)
  PROVE  /\ shared' \in [Days -> Nat] /\ opened' \in [Days -> Nat]
         /\ \/ verdict = "wait" /\ UNCHANGED <<shared, opened>>
            \/ /\ Opens(shared[day[t]], t)
               /\ \A e \in Days : e # day[t] => shared'[e] = shared[e]
               /\ \/ /\ verdict = "daily" /\ Counted(shared[day[t]], t) >= Limit
                     /\ shared'[day[t]] = Counted(shared[day[t]], t)
                  \/ /\ verdict = "allowed" /\ Counted(shared[day[t]], t) < Limit
                     /\ shared'[day[t]] = Counted(shared[day[t]], t) + 1
<1> DEFINE count == Counted(shared[day[t]], t)
<1>1. shared \in [Days -> Nat] /\ day[t] \in Days /\ shared[day[t]] \in Nat /\ opened \in [Days -> Nat]
  BY DEF QuotaTyped
<1>2. count \in Nat /\ count + 1 \in Nat
  BY <1>1, CountedTyped
<1>3. \A n \in Nat : shared' = [shared EXCEPT ![day[t]] = n] =>
        shared' \in [Days -> Nat] /\ shared'[day[t]] = n /\ \A e \in Days : e # day[t] => shared'[e] = shared[e]
  BY <1>1
<1>4. Opens(shared[day[t]], t) => opened' \in [Days -> Nat]
  BY <1>1, DecidedTyped
<1>5. \/ verdict = "wait" /\ UNCHANGED <<shared, opened>>
      \/ /\ Opens(shared[day[t]], t)
         /\ \/ verdict = "daily" /\ count >= Limit /\ shared' = [shared EXCEPT ![day[t]] = count]
            \/ verdict = "allowed" /\ count < Limit /\ shared' = [shared EXCEPT ![day[t]] = count + 1]
  BY DEF Script
<1> HIDE DEF count
<1> QED BY <1>1, <1>2, <1>3, <1>4, <1>5 DEF count

\* Without Redis a call is refused at once, or goes on with the local seed of today.
LEMMA FallsBack ==
  ASSUME QuotaTyped, NEW t \in Requests, WithoutRedis(t)
  PROVE  /\ seed' \in [Requests -> Nat] /\ day' \in [Requests -> Days]
         /\ seeds' \in [Procs -> [Days -> [Formats -> Nat]]]
         /\ serving' \in [Requests -> {"idle", "shared", "local", "running"}]
         /\ refused' = NoWindow /\ allowed' = allowed
         /\ \A u \in Requests : u # t => serving'[u] = serving[u]
         /\ \/ required /\ serving'[t] = "idle" /\ UNCHANGED <<seeds, day, seed>>
            \/ ~required /\ serving'[t] = "local" /\ ReadSeed(t, "local")
<1>1. "local" \in Formats
  BY DEF Formats
<1>2. CASE required /\ Refuse(t, NoWindow) /\ UNCHANGED <<seeds, day, seed>>
  BY <1>2 DEF QuotaTyped, Refuse
<1>3. CASE ~required /\ ReadSeed(t, "local") /\ Onwards(t, "local")
  BY <1>1, <1>3, ReadSeedTyped DEF QuotaTyped, Onwards
<1> QED BY <1>2, <1>3 DEF WithoutRedis

\* One count of one process is set.
LEMMA CountSet ==
  ASSUME NEW f \in [Procs -> [Days -> Nat]], NEW p \in Procs, NEW d \in Days, NEW n \in Nat
  PROVE  /\ [f EXCEPT ![p][d] = n] \in [Procs -> [Days -> Nat]]
         /\ \A q \in Procs : \A e \in Days :
               [f EXCEPT ![p][d] = n][q][e] = IF q = p /\ e = d THEN n ELSE f[q][e]
<1>1. [f[p] EXCEPT ![d] = n] \in [Days -> Nat]
  OBVIOUS
<1>2. [f EXCEPT ![p][d] = n] = [f EXCEPT ![p] = [f[p] EXCEPT ![d] = n]]
  OBVIOUS
<1> QED BY <1>1, <1>2

LEMMA WrittenTyped ==
  ASSUME QuotaTyped, NEW n \in Nat, NEW earlier \in Nat, Write(today, n, earlier)
  PROVE  counter' \in [Days -> Nat] /\ carried' \in [Days -> Nat]
BY DEF QuotaTyped, Write

LEMMA QuotaStepTyped == QuotaTyped /\ [QuotaNext]_quotaVars => QuotaTyped'
<1> SUFFICES ASSUME QuotaTyped, QuotaNext PROVE QuotaTyped'
  BY DEF QuotaTyped, quotaVars, windowVars, threadVars, logVars
<1>0. /\ \A t \in Requests : Home[t] \in Procs /\ day[t] \in Days /\ seed[t] \in Nat
      /\ \A p \in Procs : /\ queue[p] \in [Days -> Nat] /\ Total(queue[p]) \in Nat
                          /\ batch[p] \in [Days -> Nat] /\ Total(batch[p]) \in Nat
      /\ NoRecords \in [Days -> Nat]
  BY TotalTyped, NoRecordsTyped DEF QuotaTyped
<1>1. CASE \E t \in Requests : Arrive(t)
  <2>1. PICK t \in Requests : Arrive(t)
    BY <1>1
  <2>2. /\ seed' \in [Requests -> Nat] /\ day' \in [Requests -> Days]
        /\ seeds' \in [Procs -> [Days -> [Formats -> Nat]]]
        /\ serving' \in [Requests -> {"idle", "shared", "local", "running"}]
        /\ refused' = NoWindow /\ allowed' = allowed
    <3>1. CASE ReadSeed(t, "shared") /\ Onwards(t, "shared")
      <4>1. "shared" \in Formats
        BY DEF Formats
      <4> QED BY <3>1, <4>1, ReadSeedTyped DEF QuotaTyped, Onwards
    <3>2. CASE WithoutRedis(t)
      BY <3>2, FallsBack
    <3> QED BY <2>1, <3>1, <3>2 DEF Arrive
  <2>3. /\ UNCHANGED <<today, required, shared, window, counter, queue, batch, carried, ended, lost>>
        /\ UNCHANGED <<opened, unanswered, outages>> /\ calls' = calls + 1
    BY <2>1 DEF Arrive, logVars
  <2> QED BY <2>2, <2>3, NoWindowTyped DEF QuotaTyped
<1>2. CASE \E t \in Requests : EvalShared(t)
  <2>1. PICK t \in Requests : EvalShared(t)
    BY <1>2
  <2>2. shared' \in [Days -> Nat] /\ opened' \in [Days -> Nat]
    BY <2>1, ScriptTyped DEF EvalShared
  <2>3. /\ allowed' \in [Days -> Nat] /\ refused' \in Days \cup {NoWindow}
        /\ serving' \in [Requests -> {"idle", "shared", "local", "running"}]
    <3>1. shared[day[t]] \in Nat
      BY <1>0 DEF QuotaTyped
    <3>2. Allow(t) \/ Refuse(t, day[t]) \/ Refuse(t, NoWindow)
      BY <2>1 DEF EvalShared
    <3> QED BY <1>0, <3>1, <3>2, DecidedTyped
  <2> QED BY <2>1, <2>2, <2>3 DEF QuotaTyped, EvalShared, logVars
<1>3. CASE \E t \in Requests : SharedFails(t)
  <2>1. PICK t \in Requests : SharedFails(t)
    BY <1>3
  <2>2. shared' \in [Days -> Nat] /\ opened' \in [Days -> Nat]
    BY <2>1, ScriptTyped DEF SharedFails
  <2>3. /\ seed' \in [Requests -> Nat] /\ day' \in [Requests -> Days]
        /\ seeds' \in [Procs -> [Days -> [Formats -> Nat]]]
        /\ serving' \in [Requests -> {"idle", "shared", "local", "running"}]
        /\ refused' = NoWindow /\ allowed' = allowed
    BY <2>1, FallsBack DEF SharedFails
  <2>4. unanswered' \in [Days -> Nat]
    <3>1. unanswered \in [Days -> Nat] /\ day[t] \in Days
      BY <1>0 DEF QuotaTyped
    <3>2. UNCHANGED unanswered \/ unanswered' = [unanswered EXCEPT ![day[t]] = @ + 1]
      BY <2>1 DEF SharedFails
    <3> QED BY <3>1, <3>2
  <2>5. UNCHANGED <<today, required, window, counter, queue, batch, carried, ended, lost, calls, outages>>
    BY <2>1 DEF SharedFails, logVars
  <2> QED BY <2>2, <2>3, <2>4, <2>5, NoWindowTyped DEF QuotaTyped
<1>4. CASE \E t \in Requests : CheckLocal(t)
  <2>1. PICK t \in Requests : CheckLocal(t)
    BY <1>4
  <2>2. Counted(window[Home[t]][day[t]], t) \in Nat
    BY <1>0, CountedTyped DEF QuotaTyped
  <2>3. window' \in [Procs -> [Days -> Nat]]
    <3>1. \/ UNCHANGED window
          \/ \E n \in Nat : window' = [window EXCEPT ![Home[t]][day[t]] = n]
      BY <2>1, <2>2 DEF CheckLocal
    <3>2. window \in [Procs -> [Days -> Nat]]
      BY DEF QuotaTyped
    <3>3. \A n \in Nat : [window EXCEPT ![Home[t]][day[t]] = n] \in [Procs -> [Days -> Nat]]
      BY <1>0, <3>2, CountSet
    <3> QED BY <3>1, <3>2, <3>3
  <2>4. /\ opened' \in [Days -> Nat] /\ allowed' \in [Days -> Nat]
        /\ refused' \in Days \cup {NoWindow}
        /\ serving' \in [Requests -> {"idle", "shared", "local", "running"}]
    <3>1. window[Home[t]][day[t]] \in Nat
      BY <1>0 DEF QuotaTyped
    <3> QED BY <1>0, <2>1, <3>1, DecidedTyped DEF QuotaTyped, CheckLocal
  <2> QED BY <2>1, <2>3, <2>4 DEF QuotaTyped, CheckLocal, logVars
<1>5. CASE \E t \in Requests : Finish(t)
  <2>1. PICK t \in Requests : Finish(t)
    BY <1>5
  <2> DEFINE past == IF day[t] < today THEN 1 ELSE 0
  <2>2. past \in Nat /\ 1 \in Nat
    OBVIOUS
  <2>3. counter' \in [Days -> Nat] /\ carried' \in [Days -> Nat]
    <3>1. Write(today, 1, past) \/ UNCHANGED <<counter, carried>>
      BY <2>1 DEF Finish
    <3> HIDE DEF past
    <3> QED BY <2>2, <3>1, WrittenTyped DEF QuotaTyped
  <2>4. queue' \in [Procs -> [Days -> Nat]] /\ lost' \in Nat
    <3>1. \/ UNCHANGED queue
          \/ queue' = [queue EXCEPT ![Home[t]][day[t]] = @ + 1]
      BY <2>1 DEF Finish
    <3>2. lost' = lost \/ lost' = lost + 1
      BY <2>1 DEF Finish
    <3>3. queue[Home[t]][day[t]] + 1 \in Nat
      BY <1>0
    <3>4. queue' \in [Procs -> [Days -> Nat]]
      <4>1. queue \in [Procs -> [Days -> Nat]]
        BY DEF QuotaTyped
      <4>2. [queue EXCEPT ![Home[t]][day[t]] = queue[Home[t]][day[t]] + 1] \in [Procs -> [Days -> Nat]]
        BY <1>0, <3>3, <4>1, CountSet
      <4> QED BY <3>1, <4>1, <4>2
    <3> QED BY <3>2, <3>4 DEF QuotaTyped
  <2>5. /\ serving' \in [Requests -> {"idle", "shared", "local", "running"}]
        /\ refused' = NoWindow /\ allowed' = allowed /\ calls' = calls /\ ended' \in Nat
    BY <2>1 DEF QuotaTyped, Finish, Onwards
  <2> QED BY <2>1, <2>3, <2>4, <2>5 DEF QuotaTyped, Finish, windowVars
<1>6. CASE \E p \in Procs : Take(p)
  BY <1>0, <1>6 DEF QuotaTyped, Take, Quietly, threadVars, windowVars
<1>7. CASE \E p \in Procs : Flush(p)
  <2>1. PICK p \in Procs : Flush(p)
    BY <1>7
  <2>2. counter' \in [Days -> Nat] /\ carried' \in [Days -> Nat]
    BY <1>0, <2>1, EarlierTyped, WrittenTyped DEF QuotaTyped, Flush, Flushed
  <2>3. batch' \in [Procs -> [Days -> Nat]] /\ lost' \in Nat
    BY <1>0, <2>1 DEF QuotaTyped, Flush
  <2> QED BY <2>1, <2>2, <2>3 DEF QuotaTyped, Flush, Quietly, threadVars, windowVars
<1>8. CASE \E p \in Procs : Restart(p)
  <2>1. PICK p \in Procs : Restart(p)
    BY <1>8
  <2>2. window' \in [Procs -> [Days -> Nat]] /\ seeds' \in [Procs -> [Days -> [Formats -> Nat]]]
    BY <2>1, NoWindowTyped DEF QuotaTyped, Restart
  <2> QED BY <1>0, <2>1, <2>2 DEF QuotaTyped, Restart
<1>9. CASE LoseShared
  BY <1>9, NoWindowTyped DEF QuotaTyped, LoseShared, Quietly, threadVars, logVars
<1>10. CASE Midnight
  BY <1>10 DEF QuotaTyped, Midnight, Quietly, threadVars, logVars, windowVars, Days
<1> QED BY <1>1, <1>2, <1>3, <1>4, <1>5, <1>6, <1>7, <1>8, <1>9, <1>10 DEF QuotaNext

\* What a process holds of the log, and what all hold of a day.
HeldBy(p) == Total(queue[p]) + Total(batch[p])
HeldByAll == SumOf([p \in Procs |-> HeldBy(p)], Procs)
Due(d) == SumOf([p \in Procs |-> queue[p][d] + batch[p][d]], Procs)

LEMMA TotalUpdate ==
  ASSUME NEW f \in [Days -> Nat], NEW h \in [Days -> Nat], NEW d \in Days,
         \A e \in Days : e # d => h[e] = f[e]
  PROVE  Total(h) + f[d] = Total(f) + h[d]
<1>1. \A e \in Days : f[e] \in Nat /\ h[e] \in Nat
  OBVIOUS
<1> QED BY <1>1, DaysFinite, SumUpdate DEF Total

LEMMA HeldTyped ==
  ASSUME QuotaTyped
  PROVE  /\ \A p \in Procs : Total(queue[p]) \in Nat /\ Total(batch[p]) \in Nat /\ HeldBy(p) \in Nat
         /\ HeldByAll \in Nat
         /\ \A d \in Days : Due(d) \in Nat
<1>1. ASSUME NEW p \in Procs
      PROVE  Total(queue[p]) \in Nat /\ Total(batch[p]) \in Nat /\ HeldBy(p) \in Nat
  BY TotalTyped DEF QuotaTyped, HeldBy
<1>2. HeldByAll \in Nat
  <2> DEFINE f == [p \in Procs |-> HeldBy(p)]
  <2>1. \A p \in Procs : f[p] \in Nat
    BY <1>1
  <2> HIDE DEF f
  <2>2. SumOf(f, Procs) \in Nat
    BY <2>1, SumTyped
  <2> QED BY <2>2 DEF HeldByAll, f
<1>3. ASSUME NEW d \in Days PROVE Due(d) \in Nat
  <2> DEFINE f == [p \in Procs |-> queue[p][d] + batch[p][d]]
  <2>1. \A p \in Procs : f[p] \in Nat
    BY DEF QuotaTyped
  <2> HIDE DEF f
  <2>2. SumOf(f, Procs) \in Nat
    BY <2>1, SumTyped
  <2> QED BY <2>2 DEF Due, f
<1> QED BY <1>1, <1>2, <1>3

\* Only what one process holds changes.
LEMMA HeldStep ==
  ASSUME QuotaTyped, QuotaTyped', NEW p \in Procs,
         \A q \in Procs : q # p => queue'[q] = queue[q] /\ batch'[q] = batch[q]
  PROVE  /\ HeldByAll' \in Nat
         /\ HeldByAll' + HeldBy(p) = HeldByAll + HeldBy(p)'
         /\ \A d \in Days : Due(d)' + (queue[p][d] + batch[p][d]) = Due(d) + (queue[p][d] + batch[p][d])'
<1> DEFINE f == [q \in Procs |-> HeldBy(q)]
           h == [q \in Procs |-> HeldBy(q)']
<1>1. HeldByAll' = SumOf(h, Procs) /\ HeldByAll = SumOf(f, Procs)
  BY DEF HeldByAll, HeldBy
<1>2. \A q \in Procs : f[q] \in Nat /\ h[q] \in Nat
  <2>1. ASSUME NEW q \in Procs PROVE HeldBy(q) \in Nat /\ HeldBy(q)' \in Nat
    <3>1. queue'[q] \in [Days -> Nat] /\ batch'[q] \in [Days -> Nat]
      BY DEF QuotaTyped
    <3>2. Total(queue'[q]) \in Nat /\ Total(batch'[q]) \in Nat
      BY <3>1, TotalTyped
    <3>3. HeldBy(q)' = Total(queue'[q]) + Total(batch'[q])
      BY DEF HeldBy
    <3> QED BY <3>2, <3>3, HeldTyped
  <2> QED BY <2>1
<1>3. \A q \in Procs : q # p => h[q] = f[q]
  BY DEF HeldBy
<1>4. f[p] = HeldBy(p) /\ h[p] = HeldBy(p)'
  OBVIOUS
<1> HIDE DEF f, h
<1>5. SumOf(h, Procs) + f[p] = SumOf(f, Procs) + h[p]
  BY <1>2, <1>3, SumUpdate
<1>7. SumOf(h, Procs) \in Nat
  BY <1>2, SumTyped
<1>6. ASSUME NEW d \in Days
      PROVE  Due(d)' + (queue[p][d] + batch[p][d]) = Due(d) + (queue[p][d] + batch[p][d])'
  <2> DEFINE i == [q \in Procs |-> queue[q][d] + batch[q][d]]
             j == [q \in Procs |-> queue'[q][d] + batch'[q][d]]
  <2>1. Due(d)' = SumOf(j, Procs) /\ Due(d) = SumOf(i, Procs)
    BY DEF Due
  <2>2. \A q \in Procs : i[q] \in Nat /\ j[q] \in Nat
    BY DEF QuotaTyped
  <2>3. \A q \in Procs : q # p => j[q] = i[q]
    OBVIOUS
  <2>4. i[p] = queue[p][d] + batch[p][d] /\ j[p] = queue'[p][d] + batch'[p][d]
    OBVIOUS
  <2> HIDE DEF i, j
  <2>5. SumOf(j, Procs) + i[p] = SumOf(i, Procs) + j[p]
    BY <2>2, <2>3, SumUpdate
  <2> QED BY <2>1, <2>4, <2>5
<1> QED BY <1>1, <1>4, <1>5, <1>6, <1>7

\* Every record is counted, on its way or given up.
LEMMA AccountedInit == QuotaInit => UsageAccounted
<1> SUFFICES ASSUME QuotaInit PROVE UsageAccounted
  OBVIOUS
<1>1. Total(counter) = 0 /\ \A p \in Procs : HeldBy(p) = 0
  <2>1. counter = NoRecords /\ \A p \in Procs : queue[p] = NoRecords /\ batch[p] = NoRecords
    BY DEF QuotaInit, NoRecords
  <2> QED BY <2>1, NoRecordsTyped DEF HeldBy
<1>2. HeldByAll = 0
  <2> DEFINE f == [p \in Procs |-> HeldBy(p)]
  <2>1. \A p \in Procs : f[p] = 0
    BY <1>1
  <2> HIDE DEF f
  <2>2. SumOf(f, Procs) = 0
    BY <2>1, SumZero
  <2> QED BY <2>2 DEF HeldByAll, f
<1>3. UsageAccounted <=> Total(counter) + HeldByAll + lost = ended
  BY DEF UsageAccounted, HeldByAll, HeldBy
<1> QED BY <1>1, <1>2, <1>3 DEF QuotaInit

\* Counting adds to one day.
LEMMA WriteStep ==
  ASSUME QuotaTyped, NEW d \in Days, NEW n \in Nat, NEW earlier \in Nat, Write(d, n, earlier)
  PROVE  Total(counter)' = Total(counter) + n
<1>1. counter' \in [Days -> Nat] /\ counter \in [Days -> Nat]
  BY DEF QuotaTyped, Write
<1>2. counter'[d] = counter[d] + n /\ \A e \in Days : e # d => counter'[e] = counter[e]
  BY <1>1 DEF Write
<1>3. Total(counter') + counter[d] = Total(counter) + counter'[d]
  BY <1>1, <1>2, TotalUpdate
<1>4. Total(counter') \in Nat /\ Total(counter) \in Nat /\ counter[d] \in Nat
  BY <1>1, TotalTyped
<1> QED BY <1>2, <1>3, <1>4

LEMMA AccountedStep ==
  QuotaTyped /\ QuotaTyped' /\ UsageAccounted /\ [QuotaNext]_quotaVars => UsageAccounted'
<1> SUFFICES ASSUME QuotaTyped, QuotaTyped', UsageAccounted, [QuotaNext]_quotaVars PROVE UsageAccounted'
  OBVIOUS
<1>0. /\ UsageAccounted <=> Total(counter) + HeldByAll + lost = ended
      /\ UsageAccounted' <=> Total(counter)' + HeldByAll' + lost' = ended'
  BY DEF UsageAccounted, HeldByAll, HeldBy
<1>t. /\ Total(counter) \in Nat /\ lost \in Nat /\ ended \in Nat /\ HeldByAll \in Nat
      /\ \A p \in Procs : Total(queue[p]) \in Nat /\ Total(batch[p]) \in Nat /\ HeldBy(p) \in Nat
      /\ \A t \in Requests : Home[t] \in Procs /\ day[t] \in Days
      /\ today \in Days
  BY TotalTyped, HeldTyped DEF QuotaTyped
<1>1. CASE UNCHANGED <<logVars>>
  BY <1>0, <1>1 DEF logVars, HeldByAll, HeldBy
<1>2. ASSUME NEW t \in Requests, Finish(t) PROVE UsageAccounted'
  <2> DEFINE p == Home[t]
             past == IF day[t] < today THEN 1 ELSE 0
  <2>0. p \in Procs /\ ended' = ended + 1 /\ batch' = batch /\ past \in Nat
    BY <1>t, <1>2 DEF Finish
  <2>1. CASE queue' = [queue EXCEPT ![p][day[t]] = @ + 1] /\ UNCHANGED <<counter, carried, lost>>
    <3>1. queue[p] \in [Days -> Nat] /\ queue'[p] \in [Days -> Nat]
      BY <1>t DEF QuotaTyped
    <3>2. /\ queue'[p] = [queue[p] EXCEPT ![day[t]] = @ + 1]
          /\ \A q \in Procs : q # p => queue'[q] = queue[q] /\ batch'[q] = batch[q]
      BY <2>0, <2>1 DEF QuotaTyped
    <3>3. queue'[p][day[t]] = queue[p][day[t]] + 1 /\ \A e \in Days : e # day[t] => queue'[p][e] = queue[p][e]
      BY <1>t, <3>1, <3>2
    <3>4. Total(queue'[p]) + queue[p][day[t]] = Total(queue[p]) + queue'[p][day[t]]
      BY <1>t, <3>1, <3>3, TotalUpdate
    <3>5. queue[p][day[t]] \in Nat /\ Total(queue'[p]) \in Nat
      BY <1>t, <3>1, TotalTyped
    <3>6. Total(queue'[p]) = Total(queue[p]) + 1
      BY <1>t, <3>3, <3>4, <3>5
    <3>7. HeldBy(p)' = HeldBy(p) + 1
      BY <1>t, <2>0, <3>6 DEF HeldBy
    <3>8. HeldByAll' + HeldBy(p) = HeldByAll + HeldBy(p)'
      BY <2>0, <3>2, HeldStep
    <3>9. HeldByAll' \in Nat
      BY <2>0, <3>2, HeldStep
    <3> QED BY <1>0, <1>t, <2>0, <2>1, <3>7, <3>8, <3>9
  <2>2. CASE UNCHANGED queue
    <3>1. HeldByAll' = HeldByAll
      BY <2>0, <2>2 DEF HeldByAll, HeldBy
    <3>2. \/ lost' = lost + 1 /\ counter' = counter
          \/ Write(today, 1, past) /\ lost' = lost
      <4>2. \/ queue' = [queue EXCEPT ![p][day[t]] = @ + 1]
            \/ lost' = lost + 1 /\ counter' = counter
            \/ Write(today, 1, past) /\ lost' = lost
        BY <1>2 DEF Finish
      <4>3. queue' # [queue EXCEPT ![p][day[t]] = @ + 1]
        <5>1. [queue EXCEPT ![p][day[t]] = @ + 1][p][day[t]] = queue[p][day[t]] + 1
          BY <1>t, <2>0 DEF QuotaTyped
        <5>2. queue[p][day[t]] \in Nat
          BY <1>t, <2>0 DEF QuotaTyped
        <5> QED BY <2>2, <5>1, <5>2
      <4> QED BY <4>2, <4>3
    <3>3. \/ lost' = lost + 1 /\ Total(counter)' = Total(counter)
          \/ Total(counter)' = Total(counter) + 1 /\ lost' = lost
      <4>1. Write(today, 1, past) => Total(counter)' = Total(counter) + 1
        BY <1>t, <2>0, WriteStep
      <4> QED BY <3>2, <4>1
    <3> QED BY <1>0, <1>t, <2>0, <3>1, <3>3
  <2> QED BY <1>2, <2>1, <2>2 DEF Finish
<1>3. ASSUME NEW p \in Procs, Take(p) PROVE UsageAccounted'
  <2>1. PICK d \in Days :
          /\ queue[p][d] > 0
          /\ queue' = [queue EXCEPT ![p][d] = @ - 1]
          /\ batch' = [batch EXCEPT ![p][d] = @ + 1]
          /\ UNCHANGED <<counter, lost, ended>>
    BY <1>3 DEF Take
  <2>2. /\ queue[p] \in [Days -> Nat] /\ queue'[p] \in [Days -> Nat]
        /\ batch[p] \in [Days -> Nat] /\ batch'[p] \in [Days -> Nat]
    BY DEF QuotaTyped
  <2>3. /\ queue'[p] = [queue[p] EXCEPT ![d] = @ - 1]
        /\ batch'[p] = [batch[p] EXCEPT ![d] = @ + 1]
        /\ \A q \in Procs : q # p => queue'[q] = queue[q] /\ batch'[q] = batch[q]
    BY <2>1 DEF QuotaTyped
  <2>4. /\ queue'[p][d] = queue[p][d] - 1 /\ \A e \in Days : e # d => queue'[p][e] = queue[p][e]
        /\ batch'[p][d] = batch[p][d] + 1 /\ \A e \in Days : e # d => batch'[p][e] = batch[p][e]
    BY <2>2, <2>3
  <2>5. /\ Total(queue'[p]) + queue[p][d] = Total(queue[p]) + queue'[p][d]
        /\ Total(batch'[p]) + batch[p][d] = Total(batch[p]) + batch'[p][d]
    BY <2>2, <2>4, TotalUpdate
  <2>6. /\ queue[p][d] \in Nat /\ batch[p][d] \in Nat
        /\ Total(queue'[p]) \in Nat /\ Total(batch'[p]) \in Nat
    BY <2>2, TotalTyped
  <2>7. HeldBy(p)' = HeldBy(p)
    BY <1>t, <2>4, <2>5, <2>6 DEF HeldBy
  <2>8. HeldByAll' + HeldBy(p) = HeldByAll + HeldBy(p)'
    BY <2>3, HeldStep
  <2>9. HeldByAll' \in Nat
    BY <2>3, HeldStep
  <2> QED BY <1>0, <1>t, <2>1, <2>7, <2>8, <2>9
<1>4. ASSUME NEW p \in Procs, Flush(p) PROVE UsageAccounted'
  <2>1. /\ batch' = [batch EXCEPT ![p] = NoRecords] /\ queue' = queue /\ ended' = ended
        /\ \/ Flushed(p) /\ lost' = lost
           \/ lost' = lost + Total(batch[p]) /\ counter' = counter
    BY <1>4 DEF Flush
  <2>2. /\ batch'[p] = NoRecords
        /\ \A q \in Procs : q # p => queue'[q] = queue[q] /\ batch'[q] = batch[q]
    BY <2>1 DEF QuotaTyped
  <2>3. HeldBy(p)' = Total(queue[p])
    BY <1>t, <2>1, <2>2, NoRecordsTyped DEF HeldBy
  <2>4. HeldByAll' + HeldBy(p) = HeldByAll + HeldBy(p)'
    BY <2>2, HeldStep
  <2>5. Flushed(p) => Total(counter)' = Total(counter) + Total(batch[p])
    BY <1>t, EarlierTyped, WriteStep DEF Flushed
  <2>6. HeldByAll' \in Nat
    BY <2>2, HeldStep
  <2>7. HeldByAll' + Total(batch[p]) = HeldByAll
    BY <1>t, <2>3, <2>4, <2>6 DEF HeldBy
  <2>8. \/ Total(counter)' = Total(counter) + Total(batch[p]) /\ lost' = lost
        \/ lost' = lost + Total(batch[p]) /\ Total(counter)' = Total(counter)
    BY <2>1, <2>5
  <2> QED BY <1>0, <1>t, <2>1, <2>6, <2>7, <2>8
<1>5. ASSUME NEW p \in Procs, Restart(p) PROVE UsageAccounted'
  <2>1. /\ batch' = [batch EXCEPT ![p] = NoRecords] /\ queue' = [queue EXCEPT ![p] = NoRecords]
        /\ ended' = ended /\ counter' = counter
        /\ lost' = lost + Total(queue[p]) + Total(batch[p])
    BY <1>5 DEF Restart
  <2>2. /\ batch'[p] = NoRecords /\ queue'[p] = NoRecords
        /\ \A q \in Procs : q # p => queue'[q] = queue[q] /\ batch'[q] = batch[q]
    BY <2>1 DEF QuotaTyped
  <2>3. HeldBy(p)' = 0
    BY <2>2, NoRecordsTyped DEF HeldBy
  <2>4. HeldByAll' + HeldBy(p) = HeldByAll + HeldBy(p)'
    BY <2>2, HeldStep
  <2>6. HeldByAll' \in Nat
    BY <2>2, HeldStep
  <2>7. HeldByAll' + (Total(queue[p]) + Total(batch[p])) = HeldByAll
    BY <1>t, <2>3, <2>4, <2>6 DEF HeldBy
  <2> QED BY <1>0, <1>t, <2>1, <2>6, <2>7
<1> QED
  <2>1. \A t \in Requests : Arrive(t) \/ EvalShared(t) \/ SharedFails(t) \/ CheckLocal(t) => UNCHANGED logVars
    BY DEF Arrive, EvalShared, SharedFails, CheckLocal
  <2>2. LoseShared \/ Midnight \/ UNCHANGED quotaVars => UNCHANGED logVars
    BY DEF LoseShared, Midnight, quotaVars
  <2> QED BY <1>1, <1>2, <1>3, <1>4, <1>5, <2>1, <2>2 DEF QuotaNext

\* What a window still allows, and what the local windows of a day do.
Slack(w) == IF w >= Limit THEN 0 ELSE Limit - w
StillFree(d) == SumOf([p \in Procs |-> Slack(window[p][d])], Procs)

\* What was allowed and what the windows there are still allow is paid for by
\* the windows opened.
WindowsPaid == \A d \in Days : allowed[d] + Slack(shared[d]) + StillFree(d) <= Limit * opened[d]

LEMMA SlackTyped ==
  /\ \A w \in Nat : Slack(w) \in Nat /\ Slack(w) <= Limit
  /\ Slack(NoWindow) = 0
BY NoWindowTyped DEF Slack

LEMMA FreeTyped ==
  ASSUME QuotaTyped, NEW d \in Days
  PROVE  StillFree(d) \in Nat
<1> DEFINE f == [p \in Procs |-> Slack(window[p][d])]
<1>1. \A p \in Procs : f[p] \in Nat
  BY SlackTyped DEF QuotaTyped
<1> HIDE DEF f
<1>2. SumOf(f, Procs) \in Nat
  BY <1>1, SumTyped
<1> QED BY <1>2 DEF StillFree, f

LEMMA FreeStep ==
  ASSUME QuotaTyped, QuotaTyped', NEW p \in Procs, NEW d \in Days,
         \A q \in Procs : q # p => window'[q][d] = window[q][d]
  PROVE  StillFree(d)' \in Nat /\ StillFree(d)' + Slack(window[p][d]) = StillFree(d) + Slack(window'[p][d])
<1> DEFINE f == [q \in Procs |-> Slack(window[q][d])]
           h == [q \in Procs |-> Slack(window'[q][d])]
<1>1. StillFree(d)' = SumOf(h, Procs) /\ StillFree(d) = SumOf(f, Procs)
  BY DEF StillFree, Slack
<1>2. \A q \in Procs : f[q] \in Nat /\ h[q] \in Nat
  BY SlackTyped DEF QuotaTyped
<1>3. \A q \in Procs : q # p => h[q] = f[q]
  OBVIOUS
<1>4. f[p] = Slack(window[p][d]) /\ h[p] = Slack(window'[p][d])
  OBVIOUS
<1> HIDE DEF f, h
<1>5. SumOf(h, Procs) + f[p] = SumOf(f, Procs) + h[p] /\ SumOf(h, Procs) \in Nat
  BY <1>2, <1>3, SumUpdate, SumTyped
<1> QED BY <1>1, <1>4, <1>5

LEMMA OneMore == \A n \in Nat : Limit * n \in Nat /\ Limit * (n + 1) = Limit * n + Limit
OBVIOUS

\* Whoever counts a call in a window pays for it with the window or its opening.
LEMMA CountedStep ==
  ASSUME QuotaTyped, NEW t \in Requests, NEW w \in Nat, NEW n \in Nat, Opens(w, t),
         \/ Counted(w, t) >= Limit /\ n = Counted(w, t) /\ UNCHANGED allowed
         \/ Counted(w, t) < Limit /\ n = Counted(w, t) + 1 /\ (Allow(t) \/ UNCHANGED allowed)
  PROVE  /\ allowed'[day[t]] + Slack(n) + Limit * opened[day[t]]
              <= allowed[day[t]] + Slack(w) + Limit * opened'[day[t]]
         /\ \A e \in Days : e # day[t] => allowed'[e] = allowed[e] /\ opened'[e] = opened[e]
<1>1. /\ day[t] \in Days /\ allowed \in [Days -> Nat] /\ opened \in [Days -> Nat]
      /\ allowed[day[t]] \in Nat /\ opened[day[t]] \in Nat /\ Counted(w, t) \in Nat /\ seed[t] \in Nat
  BY CountedTyped DEF QuotaTyped
<1>2. /\ \A e \in Days : e # day[t] => allowed'[e] = allowed[e] /\ opened'[e] = opened[e]
      /\ opened'[day[t]] = IF w = NoWindow THEN opened[day[t]] + 1 ELSE opened[day[t]]
  BY <1>1 DEF Opens, Allow
<1>3. Limit * opened'[day[t]] = IF w = NoWindow THEN Limit * opened[day[t]] + Limit ELSE Limit * opened[day[t]]
  BY <1>1, <1>2, OneMore
<1>4. /\ Limit * opened[day[t]] \in Nat /\ Slack(w) \in Nat /\ Slack(n) \in Nat
      /\ w = NoWindow => Slack(w) = 0
  BY <1>1, OneMore, SlackTyped
<1>5. allowed'[day[t]] + Slack(n) <= allowed[day[t]] + Slack(w) + (IF w = NoWindow THEN Limit ELSE 0)
  <2>1. CASE Counted(w, t) >= Limit /\ n = Counted(w, t) /\ UNCHANGED allowed
    <3>1. Slack(n) = 0
      BY <2>1 DEF Slack
    <3> QED BY <1>1, <1>4, <2>1, <3>1
  <2>2. CASE Counted(w, t) < Limit /\ n = Counted(w, t) + 1 /\ (Allow(t) \/ UNCHANGED allowed)
    <3>1. allowed'[day[t]] = allowed[day[t]] + 1 \/ allowed'[day[t]] = allowed[day[t]]
      BY <1>1, <2>2 DEF Allow
    <3>2. Slack(n) + 1 = Limit - Counted(w, t)
      BY <1>1, <2>2 DEF Slack
    <3>3. w # NoWindow => Slack(w) = Limit - Counted(w, t)
      BY <1>1, <2>2 DEF Slack, Counted
    <3> QED BY <1>1, <1>4, <3>1, <3>2, <3>3
  <2> QED BY <2>1, <2>2
<1>6. allowed'[day[t]] \in Nat
  BY <1>1 DEF Allow
<1> QED BY <1>1, <1>2, <1>3, <1>4, <1>5, <1>6

LEMMA PaidInit == QuotaInit => WindowsPaid
<1> SUFFICES ASSUME QuotaInit, NEW d \in Days PROVE allowed[d] + Slack(shared[d]) + StillFree(d) <= Limit * opened[d]
  BY DEF WindowsPaid
<1> DEFINE f == [p \in Procs |-> Slack(window[p][d])]
<1>1. \A p \in Procs : f[p] = 0
  BY SlackTyped DEF QuotaInit
<1>2. StillFree(d) = SumOf(f, Procs)
  BY DEF StillFree
<1>3. allowed[d] = 0 /\ Slack(shared[d]) = 0 /\ opened[d] = 0
  BY SlackTyped DEF QuotaInit
<1> HIDE DEF f
<1>4. SumOf(f, Procs) = 0
  BY <1>1, SumZero
<1> QED BY <1>2, <1>3, <1>4

LEMMA PaidStep ==
  QuotaTyped /\ QuotaTyped' /\ WindowsPaid /\ [QuotaNext]_quotaVars => WindowsPaid'
<1> SUFFICES ASSUME QuotaTyped, QuotaTyped', WindowsPaid, [QuotaNext]_quotaVars, NEW d \in Days
             PROVE  allowed'[d] + Slack(shared'[d]) + StillFree(d)' <= Limit * opened'[d]
  BY DEF WindowsPaid, Slack
<1>0. /\ allowed[d] + Slack(shared[d]) + StillFree(d) <= Limit * opened[d]
      /\ allowed[d] \in Nat /\ Slack(shared[d]) \in Nat /\ StillFree(d) \in Nat /\ opened[d] \in Nat
      /\ allowed'[d] \in Nat /\ Slack(shared'[d]) \in Nat /\ opened'[d] \in Nat
      /\ Limit * opened[d] \in Nat /\ Limit * opened'[d] \in Nat
  BY FreeTyped, SlackTyped, OneMore DEF QuotaTyped, WindowsPaid
<1>t. \A t \in Requests : Home[t] \in Procs /\ day[t] \in Days
  BY DEF QuotaTyped
<1>1. CASE UNCHANGED <<shared, window, allowed, opened>>
  <2>1. StillFree(d)' = StillFree(d)
    BY <1>1 DEF StillFree, Slack
  <2> QED BY <1>0, <1>1, <2>1
<1>2. ASSUME NEW t \in Requests, EvalShared(t) \/ SharedFails(t)
      PROVE  allowed'[d] + Slack(shared'[d]) + StillFree(d)' <= Limit * opened'[d]
  <2> DEFINE w == shared[day[t]]
             n == shared'[day[t]]
             Paid == /\ Opens(w, t)
                     /\ \A e \in Days : e # day[t] => shared'[e] = shared[e]
                     /\ \/ Counted(w, t) >= Limit /\ n = Counted(w, t) /\ UNCHANGED allowed
                        \/ Counted(w, t) < Limit /\ n = Counted(w, t) + 1 /\ (Allow(t) \/ UNCHANGED allowed)
  <2>1. window' = window
    BY <1>2 DEF EvalShared, SharedFails
  <2>2. StillFree(d)' = StillFree(d)
    BY <2>1 DEF StillFree, Slack
  <2>3. w \in Nat /\ n \in Nat /\ shared \in [Days -> Nat] /\ day[t] \in Days
    BY <1>t DEF QuotaTyped
  <2>4. UNCHANGED <<shared, window, allowed, opened>> \/ Paid
    <3>1. CASE Script(t, "allowed") /\ (Allow(t) \/ UNCHANGED allowed)
      BY <3>1, ScriptTyped
    <3>2. CASE (Script(t, "daily") \/ Script(t, "wait")) /\ UNCHANGED allowed
      BY <2>1, <3>2, ScriptTyped
    <3>3. SharedFails(t) => UNCHANGED allowed
      BY FallsBack DEF SharedFails
    <3>4. EvalShared(t) => \/ Allow(t) /\ Script(t, "allowed")
                           \/ UNCHANGED allowed /\ (Script(t, "daily") \/ Script(t, "wait"))
      BY DEF EvalShared, Refuse
    <3> HIDE DEF Paid
    <3> QED BY <1>2, <3>1, <3>2, <3>3, <3>4 DEF SharedFails
  <2> HIDE DEF w, n
  <2>5. CASE Paid
    <3>1. /\ allowed'[day[t]] + Slack(n) + Limit * opened[day[t]]
              <= allowed[day[t]] + Slack(w) + Limit * opened'[day[t]]
          /\ \A e \in Days : e # day[t] => allowed'[e] = allowed[e] /\ opened'[e] = opened[e]
      BY <2>3, <2>5, CountedStep
    <3>2. CASE d = day[t]
      BY <1>0, <2>2, <3>1, <3>2 DEF w, n
    <3>3. CASE d # day[t]
      BY <1>0, <2>2, <2>5, <3>1, <3>3
    <3> QED BY <3>2, <3>3
  <2> HIDE DEF Paid
  <2> QED BY <1>1, <2>4, <2>5
<1>3. ASSUME NEW t \in Requests, CheckLocal(t)
      PROVE  allowed'[d] + Slack(shared'[d]) + StillFree(d)' <= Limit * opened'[d]
  <2> DEFINE p == Home[t]
             w == window[p][day[t]]
             n == window'[p][day[t]]
  <2>1. shared' = shared
    BY <1>3 DEF CheckLocal
  <2>3. p \in Procs /\ w \in Nat /\ n \in Nat /\ window \in [Procs -> [Days -> Nat]] /\ day[t] \in Days
    BY <1>t DEF QuotaTyped
  <2>4. \/ UNCHANGED <<shared, window, allowed, opened>>
        \/ /\ Opens(w, t)
           /\ \A q \in Procs : \A e \in Days : q # p \/ e # day[t] => window'[q][e] = window[q][e]
           /\ \/ Counted(w, t) >= Limit /\ n = Counted(w, t) /\ UNCHANGED allowed
              \/ Counted(w, t) < Limit /\ n = Counted(w, t) + 1 /\ Allow(t)
    <3>1. Counted(w, t) \in Nat /\ Counted(w, t) + 1 \in Nat
      BY <2>3, CountedTyped
    <3>2. \A m \in Nat : window' = [window EXCEPT ![p][day[t]] = m] =>
             n = m /\ \A q \in Procs : \A e \in Days : q # p \/ e # day[t] => window'[q][e] = window[q][e]
      BY <2>3, CountSet
    <3>3. \/ UNCHANGED <<shared, window, allowed, opened>>
          \/ /\ Opens(w, t)
             /\ \/ /\ Counted(w, t) >= Limit /\ UNCHANGED allowed
                   /\ window' = [window EXCEPT ![p][day[t]] = Counted(w, t)]
                \/ /\ Counted(w, t) < Limit /\ Allow(t)
                   /\ window' = [window EXCEPT ![p][day[t]] = Counted(w, t) + 1]
      BY <1>3 DEF CheckLocal, Refuse
    <3> HIDE DEF w, n, p
    <3> QED BY <3>1, <3>2, <3>3
  <2> HIDE DEF w, n, p
  <2>5. CASE /\ Opens(w, t)
             /\ \A q \in Procs : \A e \in Days : q # p \/ e # day[t] => window'[q][e] = window[q][e]
             /\ \/ Counted(w, t) >= Limit /\ n = Counted(w, t) /\ UNCHANGED allowed
                \/ Counted(w, t) < Limit /\ n = Counted(w, t) + 1 /\ Allow(t)
    <3>1. /\ allowed'[day[t]] + Slack(n) + Limit * opened[day[t]]
              <= allowed[day[t]] + Slack(w) + Limit * opened'[day[t]]
          /\ \A e \in Days : e # day[t] => allowed'[e] = allowed[e] /\ opened'[e] = opened[e]
      BY <2>3, <2>5, CountedStep
    <3>2. CASE d = day[t]
      <4>1. StillFree(d)' \in Nat /\ StillFree(d)' + Slack(w) = StillFree(d) + Slack(n)
        <5>1. \A q \in Procs : q # p => window'[q][d] = window[q][d]
          BY <2>5
        <5> QED BY <2>3, <3>2, <5>1, FreeStep DEF w, n
      <4>2. Slack(w) \in Nat /\ Slack(n) \in Nat
        BY <2>3, SlackTyped
      <4> QED BY <1>0, <2>1, <3>1, <3>2, <4>1, <4>2
    <3>3. CASE d # day[t]
      <4>1. \A q \in Procs : window'[q][d] = window[q][d]
        BY <2>5, <3>3
      <4>2. StillFree(d)' = StillFree(d)
        BY <4>1 DEF StillFree, Slack
      <4> QED BY <1>0, <2>1, <3>1, <3>3, <4>2
    <3> QED BY <3>2, <3>3
  <2> QED BY <1>1, <2>4, <2>5
<1>4. ASSUME NEW p \in Procs, Restart(p)
      PROVE  allowed'[d] + Slack(shared'[d]) + StillFree(d)' <= Limit * opened'[d]
  <2>1. UNCHANGED <<shared, allowed, opened>> /\ window' = [window EXCEPT ![p] = [e \in Days |-> NoWindow]]
    BY <1>4 DEF Restart
  <2>2. window'[p][d] = NoWindow /\ \A q \in Procs : q # p => window'[q][d] = window[q][d]
    BY <2>1 DEF QuotaTyped
  <2>3. StillFree(d)' \in Nat /\ StillFree(d)' + Slack(window[p][d]) = StillFree(d) + Slack(window'[p][d])
    BY <2>2, FreeStep
  <2>4. Slack(window[p][d]) \in Nat /\ Slack(window'[p][d]) = 0
    BY <2>2, SlackTyped DEF QuotaTyped
  <2> QED BY <1>0, <2>1, <2>3, <2>4
<1>5. CASE LoseShared
  <2>1. UNCHANGED <<window, allowed, opened>> /\ \E e \in Days : shared' = [shared EXCEPT ![e] = NoWindow]
    BY <1>5 DEF LoseShared, Quietly
  <2>2. shared'[d] = shared[d] \/ shared'[d] = NoWindow
    BY <2>1 DEF QuotaTyped
  <2>3. Slack(shared'[d]) <= Slack(shared[d])
    BY <1>0, <2>2, SlackTyped
  <2>4. StillFree(d)' = StillFree(d)
    BY <2>1 DEF StillFree, Slack
  <2> QED BY <1>0, <2>1, <2>3, <2>4
<1> QED
  <2>1. \A t \in Requests : Arrive(t) \/ Finish(t) => UNCHANGED <<shared, window, allowed, opened>>
    BY DEF Arrive, WithoutRedis, Finish, Onwards, Refuse, windowVars
  <2>2. \A p \in Procs : Take(p) \/ Flush(p) => UNCHANGED <<shared, window, allowed, opened>>
    BY DEF Take, Flush, Quietly, windowVars
  <2>3. Midnight \/ UNCHANGED quotaVars => UNCHANGED <<shared, window, allowed, opened>>
    BY DEF Midnight, Quietly, windowVars, quotaVars
  <2> QED BY <1>1, <1>2, <1>3, <1>4, <1>5, <2>1, <2>2, <2>3 DEF QuotaNext

RunsOf(d) == {t \in Requests : serving[t] = "running" /\ day[t] = d}
Spent(d) == allowed[d] + carried[d]

\* What is counted, on its way or still running on a day was spent on it.
Logged == \A d \in Days : counter[d] + Due(d) + Cardinality(RunsOf(d)) <= Spent(d)

\* Nothing is of a day that has not come.
NotAhead ==
    /\ \A d \in Days : d > today => \A p \in Procs : queue[p][d] = 0 /\ batch[p][d] = 0
    /\ \A t \in Requests : serving[t] # "idle" => day[t] <= today

\* No window and no seed shows more than was spent; the counter in Redis also holds
\* the calls whose reply was lost.
Backed ==
    /\ \A d \in Days :
          /\ shared[d] # NoWindow => shared[d] <= Spent(d) + unanswered[d]
          /\ \A p \in Procs :
                /\ window[p][d] # NoWindow => window[p][d] <= Spent(d)
                /\ \A f \in Formats : seeds[p][d][f] # NoWindow => seeds[p][d][f] <= Spent(d)
    /\ \A t \in Requests : serving[t] \in {"shared", "local"} => seed[t] <= Spent(day[t])

LEMMA SpentTyped ==
  ASSUME QuotaTyped, NEW d \in Days
  PROVE  /\ Spent(d) \in Nat /\ IsFiniteSet(RunsOf(d)) /\ Cardinality(RunsOf(d)) \in Nat
         /\ counter[d] \in Nat /\ Due(d) \in Nat
<1>1. IsFiniteSet(RunsOf(d))
  BY FS_Subset DEF RunsOf
<1>2. Cardinality(RunsOf(d)) \in Nat
  BY <1>1, FS_CardinalityType
<1> QED BY <1>1, <1>2, HeldTyped DEF QuotaTyped, Spent

\* Nothing that was spent is taken back.
LEMMA SpentGrows ==
  ASSUME QuotaTyped, QuotaTyped', [QuotaNext]_quotaVars
  PROVE  \A d \in Days : allowed'[d] >= allowed[d] /\ carried'[d] >= carried[d] /\ Spent(d)' >= Spent(d)
<1>0. /\ allowed \in [Days -> Nat] /\ carried \in [Days -> Nat] /\ today \in Days
      /\ \A t \in Requests : day[t] \in Days
      /\ allowed' \in [Days -> Nat] /\ carried' \in [Days -> Nat]
  BY DEF QuotaTyped
<1> SUFFICES \A d \in Days : allowed'[d] >= allowed[d] /\ carried'[d] >= carried[d]
  BY <1>0 DEF Spent
<1>1. CASE UNCHANGED <<allowed, carried>>
  BY <1>0, <1>1
<1>2. ASSUME NEW t \in Requests, allowed' = [allowed EXCEPT ![day[t]] = @ + 1], UNCHANGED carried
      PROVE  \A d \in Days : allowed'[d] >= allowed[d] /\ carried'[d] >= carried[d]
  BY <1>0, <1>2
<1>3. ASSUME NEW n \in Nat, NEW earlier \in Nat, Write(today, n, earlier), UNCHANGED allowed
      PROVE  \A d \in Days : allowed'[d] >= allowed[d] /\ carried'[d] >= carried[d]
  BY <1>0, <1>3 DEF Write
<1>4. ASSUME NEW t \in Requests, EvalShared(t) \/ CheckLocal(t)
      PROVE  \/ UNCHANGED <<allowed, carried>>
             \/ allowed' = [allowed EXCEPT ![day[t]] = @ + 1] /\ UNCHANGED carried
  BY <1>4 DEF EvalShared, CheckLocal, Refuse, Allow, logVars
<1>5. ASSUME NEW t \in Requests, Arrive(t) \/ SharedFails(t)
      PROVE  UNCHANGED <<allowed, carried>>
  BY <1>5 DEF Arrive, SharedFails, WithoutRedis, Refuse, Onwards, logVars
<1>6. ASSUME NEW t \in Requests, Finish(t)
      PROVE  \/ UNCHANGED <<allowed, carried>>
             \/ UNCHANGED allowed /\ \E n, earlier \in Nat : Write(today, n, earlier)
  <2>1. (IF day[t] < today THEN 1 ELSE 0) \in Nat /\ 1 \in Nat
    OBVIOUS
  <2> QED BY <1>6, <2>1 DEF Finish, Onwards
<1>7. ASSUME NEW p \in Procs, Flush(p)
      PROVE  \/ UNCHANGED <<allowed, carried>>
             \/ UNCHANGED allowed /\ \E n, earlier \in Nat : Write(today, n, earlier)
  <2>1. Total(batch[p]) \in Nat /\ SumOf(batch[p], 0..today - 1) \in Nat
    BY HeldTyped, EarlierTyped
  <2> QED BY <1>7, <2>1 DEF Flush, Flushed, Quietly
<1>8. \A p \in Procs : Take(p) \/ Restart(p) => UNCHANGED <<allowed, carried>>
  BY DEF Take, Restart, Quietly
<1>9. LoseShared \/ Midnight \/ UNCHANGED quotaVars => UNCHANGED <<allowed, carried>>
  BY DEF LoseShared, Midnight, Quietly, logVars, quotaVars
<1> QED BY <1>1, <1>2, <1>3, <1>4, <1>5, <1>6, <1>7, <1>8, <1>9 DEF QuotaNext

LEMMA NotAheadStep ==
  QuotaTyped /\ QuotaTyped' /\ NotAhead /\ [QuotaNext]_quotaVars => NotAhead'
<1> SUFFICES ASSUME QuotaTyped, QuotaTyped', NotAhead, [QuotaNext]_quotaVars PROVE NotAhead'
  OBVIOUS
<1>0. /\ today \in Nat /\ today \in Days /\ \A d \in Days : d \in Nat
      /\ \A t \in Requests : Home[t] \in Procs /\ day[t] \in Days
      /\ queue \in [Procs -> [Days -> Nat]] /\ batch \in [Procs -> [Days -> Nat]]
      /\ serving \in [Requests -> {"idle", "shared", "local", "running"}]
      /\ day \in [Requests -> Days] /\ day' \in [Requests -> Days]
  BY DaysFinite DEF QuotaTyped
<1>1. /\ today' >= today /\ today' \in Nat
      /\ (\A d \in Days : d > today => \A p \in Procs : queue'[p][d] = 0 /\ batch'[p][d] = 0)
      /\ (\A t \in Requests : serving'[t] # "idle" => day'[t] <= today)
      => NotAhead'
  <2>1. \A t \in Requests : day'[t] \in Nat
    BY <1>0
  <2> QED BY <1>0, <2>1 DEF NotAhead
<1>2. CASE UNCHANGED <<queue, batch, serving, day>> /\ today' >= today /\ today' \in Nat
  BY <1>1, <1>2 DEF NotAhead
<1>3. ASSUME NEW t \in Requests, Arrive(t) \/ EvalShared(t) \/ SharedFails(t) \/ CheckLocal(t) PROVE NotAhead'
  <2>1. UNCHANGED <<today, queue, batch>>
    BY <1>3 DEF Arrive, EvalShared, SharedFails, CheckLocal, logVars
  <2>2. \A u \in Requests : u # t => serving'[u] = serving[u] /\ day'[u] = day[u]
    BY <1>0, <1>3 DEF Arrive, EvalShared, SharedFails, WithoutRedis, CheckLocal, Onwards, Allow, Refuse, ReadSeed
  <2>3. \/ day'[t] = today \/ serving'[t] = "idle"
        \/ day'[t] = day[t] /\ serving[t] # "idle"
    <3>1. WithoutRedis(t) => day'[t] = today \/ serving'[t] = "idle"
      BY <1>0, FallsBack DEF ReadSeed
    <3>2. ReadSeed(t, "shared") => day'[t] = today
      BY <1>0 DEF ReadSeed
    <3>3. EvalShared(t) \/ CheckLocal(t) => day'[t] = day[t] /\ serving[t] # "idle"
      BY DEF EvalShared, CheckLocal
    <3> QED BY <1>3, <3>1, <3>2, <3>3 DEF Arrive, SharedFails
  <2> QED BY <1>0, <1>1, <2>1, <2>2, <2>3 DEF NotAhead
<1>4. ASSUME NEW t \in Requests, Finish(t) PROVE NotAhead'
  <2>1. /\ UNCHANGED <<today, batch, day>> /\ serving[t] = "running"
        /\ serving' = [serving EXCEPT ![t] = "idle"]
        /\ queue' = queue \/ queue' = [queue EXCEPT ![Home[t]][day[t]] = queue[Home[t]][day[t]] + 1]
    BY <1>4 DEF Finish, Onwards
  <2>2. \A p \in Procs : \A d \in Days : d # day[t] => queue'[p][d] = queue[p][d]
    <3>1. queue[Home[t]][day[t]] + 1 \in Nat
      <4>1. queue[Home[t]] \in [Days -> Nat] /\ day[t] \in Days
        BY <1>0
      <4> QED BY <4>1
    <3>2. \A p \in Procs : \A d \in Days : d # day[t] =>
             [queue EXCEPT ![Home[t]][day[t]] = queue[Home[t]][day[t]] + 1][p][d] = queue[p][d]
      BY <1>0, <3>1, CountSet
    <3> QED BY <2>1, <3>2
  <2>3. day[t] <= today
    BY <2>1 DEF NotAhead
  <2>4. \A u \in Requests : serving'[u] # "idle" => day'[u] <= today
    BY <1>0, <2>1 DEF NotAhead
  <2>5. \A d \in Days : d > today => d # day[t]
    BY <1>0, <2>3
  <2>6. \A d \in Days : d > today => \A p \in Procs : queue'[p][d] = 0 /\ batch'[p][d] = 0
    BY <2>1, <2>2, <2>5 DEF NotAhead
  <2> QED BY <1>0, <1>1, <2>1, <2>4, <2>6 DEF NotAhead
<1>5. ASSUME NEW p \in Procs, Take(p) PROVE NotAhead'
  <2>1. PICK e \in Days :
          /\ queue[p][e] > 0
          /\ queue' = [queue EXCEPT ![p][e] = queue[p][e] - 1]
          /\ batch' = [batch EXCEPT ![p][e] = batch[p][e] + 1]
          /\ UNCHANGED <<today, serving, day>>
    BY <1>5 DEF Take, Quietly, threadVars
  <2>2. queue[p][e] - 1 \in Nat /\ batch[p][e] + 1 \in Nat
    BY <1>0, <2>1
  <2>3. \A q \in Procs : \A d \in Days : d # e => queue'[q][d] = queue[q][d] /\ batch'[q][d] = batch[q][d]
    <3>1. \A q \in Procs : \A d \in Days : d # e => queue'[q][d] = queue[q][d]
      BY <1>0, <2>1, <2>2, CountSet
    <3>2. \A q \in Procs : \A d \in Days : d # e => batch'[q][d] = batch[q][d]
      BY <1>0, <2>1, <2>2, CountSet
    <3> QED BY <3>1, <3>2
  <2>4. ~(e > today)
    BY <1>0, <2>1 DEF NotAhead
  <2> QED BY <1>0, <1>1, <2>1, <2>3, <2>4 DEF NotAhead
<1>6. ASSUME NEW p \in Procs, Flush(p) \/ Restart(p) PROVE NotAhead'
  <2>1. /\ today' = today /\ day' = day
        /\ \A t \in Requests : serving'[t] = serving[t] \/ serving'[t] = "idle"
    BY <1>0, <1>6 DEF Flush, Restart, Quietly, threadVars
  <2>2. \A q \in Procs : \A d \in Days :
           /\ queue'[q][d] = queue[q][d] \/ queue'[q][d] = 0
           /\ batch'[q][d] = batch[q][d] \/ batch'[q][d] = 0
    BY <1>0, <1>6 DEF Flush, Restart, NoRecords
  <2> QED BY <1>0, <1>1, <2>1, <2>2 DEF NotAhead
<1> QED
  <2>1. LoseShared \/ UNCHANGED quotaVars => UNCHANGED <<today, queue, batch, serving, day>>
    BY DEF LoseShared, Quietly, threadVars, logVars, quotaVars
  <2>2. Midnight => UNCHANGED <<queue, batch, serving, day>> /\ today' = today + 1
    BY DEF Midnight, Quietly, threadVars, logVars
  <2> QED BY <1>0, <1>2, <1>3, <1>4, <1>5, <1>6, <2>1, <2>2 DEF QuotaNext

LEMMA DueTyped ==
  ASSUME QuotaTyped', NEW d \in Days
  PROVE  Due(d)' \in Nat
<1> DEFINE f == [p \in Procs |-> queue'[p][d] + batch'[p][d]]
<1>1. \A p \in Procs : f[p] \in Nat
  BY DEF QuotaTyped
<1>2. Due(d)' = SumOf(f, Procs)
  BY DEF Due
<1> HIDE DEF f
<1>3. SumOf(f, Procs) \in Nat
  BY <1>1, SumTyped
<1> QED BY <1>2, <1>3

\* Threads that begin to run or stop running.
LEMMA RunsStep ==
  ASSUME QuotaTyped, QuotaTyped', NEW t \in Requests,
         \A u \in Requests : u # t => serving'[u] = serving[u] /\ day'[u] = day[u]
  PROVE  /\ (serving[t] # "running" /\ serving'[t] # "running") =>
               \A d \in Days : Cardinality(RunsOf(d))' = Cardinality(RunsOf(d))
         /\ (serving[t] # "running" /\ serving'[t] = "running") =>
               \A d \in Days : Cardinality(RunsOf(d))' =
                  IF d = day'[t] THEN Cardinality(RunsOf(d)) + 1 ELSE Cardinality(RunsOf(d))
         /\ (serving[t] = "running" /\ serving'[t] # "running") =>
               \A d \in Days : Cardinality(RunsOf(d))' =
                  IF d = day[t] THEN Cardinality(RunsOf(d)) - 1 ELSE Cardinality(RunsOf(d))
<1>1. ASSUME serving[t] # "running", serving'[t] # "running", NEW d \in Days
      PROVE  Cardinality(RunsOf(d))' = Cardinality(RunsOf(d))
  <2>1. RunsOf(d)' = RunsOf(d)
    BY <1>1 DEF RunsOf
  <2> QED BY <2>1
<1>2. ASSUME serving[t] # "running", serving'[t] = "running", NEW d \in Days
      PROVE  Cardinality(RunsOf(d))' =
                  IF d = day'[t] THEN Cardinality(RunsOf(d)) + 1 ELSE Cardinality(RunsOf(d))
  <2>1. CASE d = day'[t]
    <3>1. RunsOf(d)' = RunsOf(d) \cup {t} /\ t \notin RunsOf(d)
      BY <1>2, <2>1 DEF RunsOf
    <3>2. Cardinality(RunsOf(d) \cup {t}) = Cardinality(RunsOf(d)) + 1
      BY <3>1, SpentTyped, FS_AddElement
    <3> QED BY <2>1, <3>1, <3>2
  <2>2. CASE d # day'[t]
    <3>1. RunsOf(d)' = RunsOf(d)
      BY <1>2, <2>2 DEF RunsOf
    <3> QED BY <2>2, <3>1
  <2> QED BY <2>1, <2>2
<1>3. ASSUME serving[t] = "running", serving'[t] # "running", NEW d \in Days
      PROVE  Cardinality(RunsOf(d))' =
                  IF d = day[t] THEN Cardinality(RunsOf(d)) - 1 ELSE Cardinality(RunsOf(d))
  <2>1. CASE d = day[t]
    <3>1. RunsOf(d)' = RunsOf(d) \ {t} /\ t \in RunsOf(d)
      BY <1>3, <2>1 DEF RunsOf
    <3>2. Cardinality(RunsOf(d) \ {t}) = Cardinality(RunsOf(d)) - 1
      BY <3>1, SpentTyped, FS_RemoveElement
    <3> QED BY <2>1, <3>1, <3>2
  <2>2. CASE d # day[t]
    <3>1. RunsOf(d)' = RunsOf(d)
      BY <1>3, <2>2 DEF RunsOf
    <3> QED BY <2>2, <3>1
  <2> QED BY <2>1, <2>2
<1> QED BY <1>1, <1>2, <1>3

LEMMA LoggedInit == QuotaInit => Logged
<1> SUFFICES ASSUME QuotaInit, NEW d \in Days
             PROVE  counter[d] + Due(d) + Cardinality(RunsOf(d)) <= Spent(d)
  BY DEF Logged
<1> DEFINE f == [p \in Procs |-> queue[p][d] + batch[p][d]]
<1>1. \A p \in Procs : f[p] = 0
  BY DEF QuotaInit, NoRecords
<1>2. Due(d) = SumOf(f, Procs)
  BY DEF Due
<1> HIDE DEF f
<1>3. SumOf(f, Procs) = 0
  BY <1>1, SumZero
<1>4. RunsOf(d) = {}
  BY DEF RunsOf, QuotaInit
<1>5. Cardinality(RunsOf(d)) = 0
  BY <1>4, FS_EmptySet
<1> QED BY <1>2, <1>3, <1>5 DEF QuotaInit, Spent

LEMMA LoggedStep ==
  QuotaTyped /\ QuotaTyped' /\ NotAhead /\ Logged /\ [QuotaNext]_quotaVars => Logged'
<1> SUFFICES ASSUME QuotaTyped, QuotaTyped', NotAhead, Logged, [QuotaNext]_quotaVars, NEW d \in Days
             PROVE  counter'[d] + Due(d)' + Cardinality(RunsOf(d))' <= Spent(d)'
  BY DEF Logged
<1>0. /\ counter[d] + Due(d) + Cardinality(RunsOf(d)) <= Spent(d)
      /\ counter[d] \in Nat /\ Due(d) \in Nat /\ Cardinality(RunsOf(d)) \in Nat /\ Spent(d) \in Nat
      /\ \A t \in Requests : Home[t] \in Procs /\ day[t] \in Days
      /\ today \in Days /\ allowed[d] \in Nat /\ carried[d] \in Nat
      /\ counter \in [Days -> Nat] /\ carried \in [Days -> Nat] /\ allowed \in [Days -> Nat]
      /\ serving \in [Requests -> {"idle", "shared", "local", "running"}]
      /\ queue \in [Procs -> [Days -> Nat]] /\ batch \in [Procs -> [Days -> Nat]]
      /\ d \in Nat /\ today \in Nat
  BY SpentTyped, DaysFinite DEF QuotaTyped, Logged
<1>n. today \in Nat /\ d \in Nat /\ Due(d) \in Nat
  BY <1>0
<1>s. Spent(d)' = allowed'[d] + carried'[d] /\ Spent(d) = allowed[d] + carried[d]
  BY DEF Spent
<1>g. Spent(d)' >= Spent(d) /\ Spent(d)' \in Nat
  <2>1. allowed'[d] \in Nat /\ carried'[d] \in Nat
    BY DEF QuotaTyped
  <2> QED BY <1>s, <2>1, SpentGrows
<1>1. ASSUME NEW t \in Requests, Arrive(t) \/ EvalShared(t) \/ SharedFails(t) \/ CheckLocal(t)
      PROVE  counter'[d] + Due(d)' + Cardinality(RunsOf(d))' <= Spent(d)'
  <2>1. UNCHANGED <<counter, queue, batch, carried>>
    BY <1>1 DEF Arrive, EvalShared, SharedFails, CheckLocal, logVars
  <2>2. Due(d)' = Due(d)
    BY <2>1 DEF Due
  <2>3. \A u \in Requests : u # t => serving'[u] = serving[u] /\ day'[u] = day[u]
    BY <1>0, <1>1 DEF QuotaTyped, Arrive, EvalShared, SharedFails, WithoutRedis, CheckLocal, Onwards, Allow, Refuse, ReadSeed
  <2>4. /\ serving[t] # "running"
        /\ \/ serving'[t] # "running"
           \/ serving'[t] = "running" /\ Allow(t) /\ day' = day
    BY <1>0, <1>1 DEF Arrive, EvalShared, SharedFails, WithoutRedis, CheckLocal, Onwards, Allow, Refuse
  <2>5. CASE serving'[t] # "running"
    <3>1. Cardinality(RunsOf(d))' = Cardinality(RunsOf(d))
      BY <2>3, <2>4, <2>5, RunsStep
    <3> QED BY <1>0, <1>g, <2>1, <2>2, <3>1
  <2>6. CASE serving'[t] = "running" /\ Allow(t) /\ day' = day
    <3>1. Cardinality(RunsOf(d))' =
             IF d = day[t] THEN Cardinality(RunsOf(d)) + 1 ELSE Cardinality(RunsOf(d))
      BY <2>3, <2>4, <2>6, RunsStep
    <3>2. allowed'[d] = IF d = day[t] THEN allowed[d] + 1 ELSE allowed[d]
      BY <1>0, <2>6 DEF Allow
    <3> QED BY <1>0, <1>s, <2>1, <2>2, <3>1, <3>2
  <2> QED BY <2>4, <2>5, <2>6
<1>2. ASSUME NEW t \in Requests, Finish(t)
      PROVE  counter'[d] + Due(d)' + Cardinality(RunsOf(d))' <= Spent(d)'
  <2> DEFINE p == Home[t]
             past == IF day[t] < today THEN 1 ELSE 0
  <2>0. /\ p \in Procs /\ day[t] \in Days /\ past \in Nat /\ day[t] \in Nat
        /\ UNCHANGED <<today, day, batch, allowed>> /\ serving[t] = "running"
        /\ serving' = [serving EXCEPT ![t] = "idle"]
    BY <1>0, <1>2, DaysFinite DEF Finish, Onwards
  <2>1. Cardinality(RunsOf(d))' =
           IF d = day[t] THEN Cardinality(RunsOf(d)) - 1 ELSE Cardinality(RunsOf(d))
    <3>1. serving'[t] # "running" /\ \A u \in Requests : u # t => serving'[u] = serving[u] /\ day'[u] = day[u]
      BY <1>0, <2>0
    <3> QED BY <2>0, <3>1, RunsStep
  <2>2. day[t] <= today
    BY <2>0 DEF NotAhead
  <2>3. CASE queue' = [queue EXCEPT ![p][day[t]] = @ + 1] /\ UNCHANGED <<counter, carried, lost>>
    <3>1. queue[p][day[t]] + 1 \in Nat /\ queue[p][d] \in Nat /\ batch[p][d] \in Nat
      <4>1. queue[p] \in [Days -> Nat] /\ batch[p] \in [Days -> Nat]
        BY <1>0, <2>0
      <4> QED BY <2>0, <4>1
    <3>2. /\ queue'[p][d] = IF d = day[t] THEN queue[p][d] + 1 ELSE queue[p][d]
          /\ \A q \in Procs : q # p => queue'[q] = queue[q] /\ batch'[q] = batch[q]
      <4>1. \A e \in Days : [queue EXCEPT ![p][day[t]] = queue[p][day[t]] + 1][p][e] =
                               IF e = day[t] THEN queue[p][day[t]] + 1 ELSE queue[p][e]
        BY <1>0, <2>0, <3>1, CountSet
      <4> QED BY <1>0, <2>0, <2>3, <4>1
    <3>3. Due(d)' + (queue[p][d] + batch[p][d]) = Due(d) + (queue'[p][d] + batch'[p][d])
      BY <2>0, <3>2, HeldStep
    <3>4. Due(d)' \in Nat
      BY SpentTyped, DueTyped
    <3>5. Due(d)' = IF d = day[t] THEN Due(d) + 1 ELSE Due(d)
      <4>1. batch'[p][d] = batch[p][d]
        BY <2>0
      <4> QED BY <1>n, <3>1, <3>2, <3>3, <3>4, <4>1
    <3> QED BY <1>0, <1>s, <2>0, <2>1, <2>3, <3>5
  <2>4. CASE UNCHANGED queue /\ lost' = lost + 1 /\ UNCHANGED <<counter, carried>>
    <3>1. Due(d)' = Due(d)
      BY <2>0, <2>4 DEF Due
    <3> QED BY <1>0, <1>g, <2>0, <2>1, <2>4, <3>1
  <2>5. CASE UNCHANGED queue /\ Write(today, 1, past)
    <3>1. Due(d)' = Due(d)
      BY <2>0, <2>5 DEF Due
    <3>2. /\ counter'[d] = IF d = today THEN counter[d] + 1 ELSE counter[d]
          /\ carried'[d] = IF d = today THEN carried[d] + past ELSE carried[d]
      BY <1>0, <2>5 DEF Write
    <3>3. CASE d = today /\ day[t] = today
      BY <1>0, <1>s, <2>0, <2>1, <3>1, <3>2, <3>3
    <3>4. CASE d = today /\ day[t] < today
      BY <1>0, <1>s, <2>0, <2>1, <3>1, <3>2, <3>4
    <3>5. CASE d # today
      BY <1>0, <1>s, <2>0, <2>1, <3>1, <3>2, <3>5
    <3>6. day[t] = today \/ day[t] < today
      <4>1. day[t] \in Nat
        BY <2>0
      <4> QED BY <1>n, <2>2, <4>1
    <3> QED BY <3>3, <3>4, <3>5, <3>6
  <2> QED BY <1>2, <2>3, <2>4, <2>5 DEF Finish
<1>3. ASSUME NEW p \in Procs, Take(p)
      PROVE  counter'[d] + Due(d)' + Cardinality(RunsOf(d))' <= Spent(d)'
  <2>1. PICK e \in Days :
          /\ queue[p][e] > 0
          /\ queue' = [queue EXCEPT ![p][e] = queue[p][e] - 1]
          /\ batch' = [batch EXCEPT ![p][e] = batch[p][e] + 1]
          /\ UNCHANGED <<serving, day, counter>>
    BY <1>3 DEF Take, Quietly, threadVars
  <2>2. /\ queue[p][e] \in Nat /\ batch[p][e] \in Nat /\ queue[p][e] - 1 \in Nat /\ batch[p][e] + 1 \in Nat
        /\ queue[p][d] \in Nat /\ batch[p][d] \in Nat
    <3>1. queue[p] \in [Days -> Nat] /\ batch[p] \in [Days -> Nat]
      BY <1>0
    <3> QED BY <2>1, <3>1
  <2>3. \A q \in Procs : \A i \in Days :
           queue'[q][i] = IF q = p /\ i = e THEN queue[p][e] - 1 ELSE queue[q][i]
    BY <1>0, <2>1, <2>2, CountSet
  <2>4. \A q \in Procs : \A i \in Days :
           batch'[q][i] = IF q = p /\ i = e THEN batch[p][e] + 1 ELSE batch[q][i]
    BY <1>0, <2>1, <2>2, CountSet
  <2>5. \A q \in Procs : q # p => queue'[q] = queue[q] /\ batch'[q] = batch[q]
    BY <1>0, <2>1
  <2>6. Due(d)' + (queue[p][d] + batch[p][d]) = Due(d) + (queue'[p][d] + batch'[p][d])
    BY <2>5, HeldStep
  <2>7. queue'[p][d] + batch'[p][d] = queue[p][d] + batch[p][d]
    BY <2>2, <2>3, <2>4
  <2>8. Due(d)' \in Nat
    BY DueTyped
  <2>9. Due(d)' = Due(d) /\ RunsOf(d)' = RunsOf(d)
    <3>1. RunsOf(d)' = RunsOf(d)
      BY <2>1 DEF RunsOf
    <3>2. queue[p][d] + batch[p][d] \in Nat
      BY <2>2
    <3> QED BY <1>n, <2>6, <2>7, <2>8, <3>1, <3>2
  <2> QED BY <1>0, <1>g, <2>1, <2>9
<1>4. ASSUME NEW p \in Procs, Flush(p)
      PROVE  counter'[d] + Due(d)' + Cardinality(RunsOf(d))' <= Spent(d)'
  <2> DEFINE earlier == SumOf(batch[p], 0..today - 1)
             all == Total(batch[p])
  <2>1. /\ batch' = [batch EXCEPT ![p] = NoRecords] /\ queue' = queue
        /\ UNCHANGED <<serving, day, allowed>>
        /\ Write(today, all, earlier) \/ UNCHANGED <<counter, carried>>
    BY <1>4 DEF Flush, Flushed, Quietly, threadVars
  <2>2. batch'[p][d] = 0 /\ \A q \in Procs : q # p => queue'[q] = queue[q] /\ batch'[q] = batch[q]
    BY <1>0, <2>1 DEF NoRecords
  <2>3. Due(d)' + (queue[p][d] + batch[p][d]) = Due(d) + (queue'[p][d] + batch'[p][d])
    BY <2>2, HeldStep
  <2>4. queue[p][d] \in Nat /\ batch[p][d] \in Nat /\ Due(d)' \in Nat
    BY <1>0, DueTyped
  <2>5. Due(d)' + batch[p][d] = Due(d) /\ RunsOf(d)' = RunsOf(d)
    <3>1. RunsOf(d)' = RunsOf(d)
      BY <2>1 DEF RunsOf
    <3>2. queue'[p][d] = queue[p][d]
      BY <2>1
    <3> QED BY <1>n, <2>2, <2>3, <2>4, <3>1, <3>2
  <2>6. all \in Nat /\ earlier \in Nat /\ batch[p][today] \in Nat /\ all = earlier + batch[p][today]
    <3>1. batch[p] \in [Days -> Nat]
      BY <1>0
    <3>2. 0..today - 1 \in SUBSET Days /\ today \notin 0..today - 1
      BY <1>0 DEF Days
    <3>3. \A x \in Days : x \notin 0..today - 1 /\ x # today => batch[p][x] = 0
      <4> SUFFICES ASSUME NEW x \in Days, x \notin 0..today - 1, x # today PROVE batch[p][x] = 0
        OBVIOUS
      <4>1. x \in Nat
        BY DaysFinite
      <4>2. x > today
        BY <1>n, <4>1
      <4> QED BY <4>2 DEF NotAhead
    <3>4. Total(batch[p]) = SumOf(batch[p], 0..today - 1) + batch[p][today]
      <4>1. \A x \in Days : batch[p][x] \in Nat
        BY <3>1
      <4>2. IsFiniteSet(Days) /\ today \in Days
        BY <1>0, DaysFinite
      <4> HIDE DEF earlier, all
      <4>3. SumOf(batch[p], Days) = SumOf(batch[p], 0..today - 1) + batch[p][today]
        <5> DEFINE f == batch[p]
                   P == 0..today - 1
        <5>1. P \in SUBSET Days /\ today \notin P /\ \A x \in Days : f[x] \in Nat
          BY <3>2, <4>1
        <5>2. \A x \in Days : x \notin P /\ x # today => f[x] = 0
          BY <3>3
        <5> HIDE DEF f, P
        <5>3. SumOf(f, Days) = SumOf(f, P) + f[today]
          BY <4>2, <5>1, <5>2, SumSplit
        <5> QED BY <5>3 DEF f, P
      <4> QED BY <4>3 DEF Total
    <3> QED BY <1>0, <3>1, <3>4, EarlierTyped, TotalTyped
  <2> HIDE DEF earlier, all
  <2>7. CASE UNCHANGED <<counter, carried>>
    BY <1>0, <1>g, <2>4, <2>5, <2>7
  <2>8. CASE Write(today, all, earlier)
    <3>1. /\ counter'[d] = IF d = today THEN counter[d] + all ELSE counter[d]
          /\ carried'[d] = IF d = today THEN carried[d] + earlier ELSE carried[d]
      BY <1>0, <2>8 DEF Write
    <3>2. CASE d = today
      BY <1>0, <1>s, <2>1, <2>4, <2>5, <2>6, <3>1, <3>2
    <3>3. CASE d # today
      BY <1>0, <1>g, <2>4, <2>5, <3>1, <3>3
    <3> QED BY <3>2, <3>3
  <2> QED BY <2>1, <2>7, <2>8
<1>5. ASSUME NEW p \in Procs, Restart(p)
      PROVE  counter'[d] + Due(d)' + Cardinality(RunsOf(d))' <= Spent(d)'
  <2>1. /\ batch' = [batch EXCEPT ![p] = NoRecords] /\ queue' = [queue EXCEPT ![p] = NoRecords]
        /\ UNCHANGED <<day, counter>>
        /\ serving' = [t \in Requests |-> IF Home[t] = p THEN "idle" ELSE serving[t]]
    BY <1>5 DEF Restart
  <2>2. /\ batch'[p][d] = 0 /\ queue'[p][d] = 0
        /\ \A q \in Procs : q # p => queue'[q] = queue[q] /\ batch'[q] = batch[q]
    BY <1>0, <2>1 DEF NoRecords
  <2>3. Due(d)' + (queue[p][d] + batch[p][d]) = Due(d) + (queue'[p][d] + batch'[p][d])
    BY <2>2, HeldStep
  <2>4. queue[p][d] \in Nat /\ batch[p][d] \in Nat /\ Due(d)' \in Nat
    BY <1>0, DueTyped
  <2>5. Due(d)' <= Due(d)
    BY <1>0, <2>2, <2>3, <2>4
  <2>6. Cardinality(RunsOf(d))' <= Cardinality(RunsOf(d)) /\ Cardinality(RunsOf(d))' \in Nat
    <3>1. RunsOf(d)' \subseteq RunsOf(d)
      BY <2>1 DEF RunsOf
    <3>2. IsFiniteSet(RunsOf(d))
      BY SpentTyped
    <3> DEFINE n == RunsOf(d)'
    <3>3. Cardinality(n) <= Cardinality(RunsOf(d)) /\ IsFiniteSet(n)
      BY <3>1, <3>2, FS_Subset
    <3>4. Cardinality(n) \in Nat
      BY <3>3, FS_CardinalityType
    <3> QED BY <3>3, <3>4
  <2> QED BY <1>0, <1>g, <2>1, <2>4, <2>5, <2>6
<1>6. CASE UNCHANGED <<counter, queue, batch, serving, day>>
  <2>1. Due(d)' = Due(d) /\ RunsOf(d)' = RunsOf(d)
    BY <1>6 DEF Due, RunsOf
  <2> QED BY <1>0, <1>g, <1>6, <2>1
<1> QED
  <2>1. LoseShared \/ Midnight \/ UNCHANGED quotaVars => UNCHANGED <<counter, queue, batch, serving, day>>
    BY DEF LoseShared, Midnight, Quietly, threadVars, logVars, quotaVars
  <2> QED BY <1>1, <1>2, <1>3, <1>4, <1>5, <1>6, <2>1 DEF QuotaNext

\* Replies that were lost stay lost.
LEMMA UnansweredGrows ==
  ASSUME QuotaTyped, [QuotaNext]_quotaVars
  PROVE  \A d \in Days : unanswered'[d] \in Nat /\ unanswered'[d] >= unanswered[d]
<1>0. unanswered \in [Days -> Nat] /\ \A t \in Requests : day[t] \in Days
  BY DEF QuotaTyped
<1>1. CASE UNCHANGED unanswered
  BY <1>0, <1>1
<1>2. ASSUME NEW t \in Requests, SharedFails(t)
      PROVE  \A d \in Days : unanswered'[d] \in Nat /\ unanswered'[d] >= unanswered[d]
  <2>1. UNCHANGED unanswered \/ unanswered' = [unanswered EXCEPT ![day[t]] = @ + 1]
    BY <1>2 DEF SharedFails
  <2> QED BY <1>0, <2>1
<1>3. \A t \in Requests : Arrive(t) \/ EvalShared(t) \/ CheckLocal(t) \/ Finish(t) => UNCHANGED unanswered
  BY DEF Arrive, EvalShared, CheckLocal, Finish
<1>4. \A p \in Procs : Take(p) \/ Flush(p) \/ Restart(p) => UNCHANGED unanswered
  BY DEF Take, Flush, Restart, Quietly
<1>5. LoseShared \/ Midnight \/ UNCHANGED quotaVars => UNCHANGED unanswered
  BY DEF LoseShared, Midnight, Quietly, quotaVars
<1> QED BY <1>1, <1>2, <1>3, <1>4, <1>5 DEF QuotaNext

\* A call is decided by a count that was spent, and leaves one behind.
LEMMA DecidedBacked ==
  ASSUME QuotaTyped, NEW t \in Requests, NEW d \in Days, d = day[t],
         seed[t] <= Spent(d), NEW more \in Nat, more <= unanswered[d], UNCHANGED unanswered,
         NEW w \in Nat, w # NoWindow => w <= Spent(d) + more,
         NEW n \in Nat, UNCHANGED carried,
         \/ Counted(w, t) >= Limit /\ n = Counted(w, t) /\ Refuse(t, d)
         \/ Counted(w, t) < Limit /\ n = Counted(w, t) + 1 /\ Allow(t)
  PROVE  n <= Spent(d)' + more /\ NotRefusedEarly'
<1>1. /\ allowed \in [Days -> Nat] /\ carried \in [Days -> Nat] /\ unanswered[d] \in Nat
      /\ allowed[d] \in Nat /\ carried[d] \in Nat /\ Counted(w, t) \in Nat /\ seed[t] \in Nat
  BY CountedTyped DEF QuotaTyped
<1>2. Counted(w, t) <= allowed[d] + carried[d] + more
  BY <1>1 DEF Counted, Spent
<1>3. CASE Counted(w, t) >= Limit /\ n = Counted(w, t) /\ Refuse(t, d)
  <2>1. refused' = d /\ allowed' = allowed
    BY <1>3 DEF Refuse
  <2>2. Spent(d)' = allowed[d] + carried[d]
    BY <2>1 DEF Spent
  <2>3. allowed[d] + carried[d] + unanswered[d] >= Limit
    BY <1>1, <1>2, <1>3
  <2> QED BY <1>2, <1>3, <2>1, <2>2, <2>3 DEF NotRefusedEarly
<1>4. CASE Counted(w, t) < Limit /\ n = Counted(w, t) + 1 /\ Allow(t)
  <2>1. refused' = NoWindow /\ allowed'[d] = allowed[d] + 1
    BY <1>1, <1>4 DEF Allow
  <2>2. Spent(d)' = allowed[d] + carried[d] + 1
    BY <1>1, <2>1 DEF Spent
  <2> QED BY <1>1, <1>2, <1>4, <2>1, <2>2 DEF NotRefusedEarly
<1> QED BY <1>3, <1>4

\* A seed that is read was spent.
LEMMA SeedBacked ==
  ASSUME QuotaTyped, Backed, Logged, NEW t \in Requests, NEW f \in Formats, ReadSeed(t, f)
  PROVE  /\ day' = [day EXCEPT ![t] = today]
         /\ seed'[t] <= Spent(today) /\ \A u \in Requests : u # t => seed'[u] = seed[u]
         /\ \A p \in Procs : \A d \in Days : \A g \in Formats :
               seeds'[p][d][g] = seeds[p][d][g] \/ (d = today /\ seeds'[p][d][g] <= Spent(today))
<1> DEFINE h == Home[t]
           cached == seeds[h][today][f]
<1>1. /\ h \in Procs /\ today \in Days /\ seed \in [Requests -> Nat]
      /\ seeds \in [Procs -> [Days -> [Formats -> Nat]]]
  BY DEF QuotaTyped
<1>2. PICK value \in IF cached # NoWindow THEN {cached} ELSE {counter[today], 0} :
        /\ seed' = [seed EXCEPT ![t] = value]
        /\ seeds' = [seeds EXCEPT ![h][today][f] = value]
  BY DEF ReadSeed
<1>3. value <= Spent(today)
  <2>1. counter[today] <= Spent(today) /\ 0 <= Spent(today)
    <3>1. /\ counter[today] \in Nat /\ Due(today) \in Nat /\ Cardinality(RunsOf(today)) \in Nat
          /\ Spent(today) \in Nat
          /\ counter[today] + Due(today) + Cardinality(RunsOf(today)) <= Spent(today)
      BY <1>1, SpentTyped DEF Logged
    <3> QED BY <3>1
  <2>2. cached # NoWindow => cached <= Spent(today)
    BY <1>1 DEF Backed
  <2> QED BY <1>2, <2>1, <2>2
<1> HIDE DEF h, cached
<1>4. \A p \in Procs : \A d \in Days : \A g \in Formats :
         seeds'[p][d][g] = IF p = h /\ d = today /\ g = f THEN value ELSE seeds[p][d][g]
  BY <1>1, <1>2
<1> QED BY <1>1, <1>2, <1>3, <1>4 DEF ReadSeed

\* What changes and what does not, put together.
LEMMA BackedFrom ==
  ASSUME QuotaTyped, QuotaTyped', Backed, [QuotaNext]_quotaVars,
         \A d \in Days : \/ shared'[d] = shared[d] \/ shared'[d] = NoWindow
                         \/ shared'[d] <= Spent(d)' + unanswered'[d],
         \A p \in Procs : \A d \in Days :
            \/ window'[p][d] = window[p][d] \/ window'[p][d] = NoWindow
            \/ window'[p][d] <= Spent(d)',
         \A p \in Procs : \A d \in Days : \A f \in Formats :
            \/ seeds'[p][d][f] = seeds[p][d][f] \/ seeds'[p][d][f] = NoWindow
            \/ seeds'[p][d][f] <= Spent(d)',
         \A t \in Requests : serving'[t] \in {"shared", "local"} =>
            \/ serving[t] \in {"shared", "local"} /\ seed'[t] = seed[t] /\ day'[t] = day[t]
            \/ seed'[t] <= allowed'[day'[t]] + carried'[day'[t]]
  PROVE  Backed'
<1>1. \A d \in Days : Spent(d) <= Spent(d)' /\ Spent(d) \in Nat /\ Spent(d)' \in Nat
  <2> TAKE d \in Days
  <2>1. allowed[d] \in Nat /\ carried[d] \in Nat /\ allowed'[d] \in Nat /\ carried'[d] \in Nat
    BY DEF QuotaTyped
  <2>2. allowed'[d] >= allowed[d] /\ carried'[d] >= carried[d]
    BY SpentGrows
  <2> QED BY <2>1, <2>2 DEF Spent
<1>2. ASSUME NEW d \in Days, shared'[d] # NoWindow PROVE shared'[d] <= Spent(d)' + unanswered'[d]
  <2>1. shared[d] \in Nat /\ unanswered[d] \in Nat
    BY DEF QuotaTyped
  <2>2. unanswered'[d] \in Nat /\ unanswered'[d] >= unanswered[d]
    BY UnansweredGrows
  <2> QED BY <1>1, <1>2, <2>1, <2>2 DEF Backed
<1>3. ASSUME NEW p \in Procs, NEW d \in Days, window'[p][d] # NoWindow PROVE window'[p][d] <= Spent(d)'
  <2>1. window[p][d] \in Nat
    BY DEF QuotaTyped
  <2> QED BY <1>1, <1>3, <2>1 DEF Backed
<1>4. ASSUME NEW p \in Procs, NEW d \in Days, NEW f \in Formats, seeds'[p][d][f] # NoWindow
      PROVE  seeds'[p][d][f] <= Spent(d)'
  <2>1. seeds[p][d][f] \in Nat
    BY DEF QuotaTyped
  <2> QED BY <1>1, <1>4, <2>1 DEF Backed
<1>5. ASSUME NEW t \in Requests, serving'[t] \in {"shared", "local"}
      PROVE  seed'[t] <= allowed'[day'[t]] + carried'[day'[t]]
  <2>1. CASE serving[t] \in {"shared", "local"} /\ seed'[t] = seed[t] /\ day'[t] = day[t]
    <3>1. seed[t] <= Spent(day[t]) /\ seed[t] \in Nat /\ day[t] \in Days
      BY <2>1 DEF Backed, QuotaTyped
    <3> DEFINE e == day[t]
    <3>2. e \in Days /\ day'[t] = e /\ seed'[t] <= Spent(e) /\ seed'[t] \in Nat
      BY <2>1, <3>1
    <3> HIDE DEF e
    <3>3. allowed'[e] \in Nat /\ carried'[e] \in Nat /\ allowed[e] \in Nat /\ carried[e] \in Nat
      BY <3>2 DEF QuotaTyped
    <3>4. allowed'[e] >= allowed[e] /\ carried'[e] >= carried[e]
      BY <3>2, SpentGrows
    <3>5. seed'[t] <= allowed[e] + carried[e]
      BY <3>2 DEF Spent
    <3> QED BY <3>2, <3>3, <3>4, <3>5
  <2> QED BY <1>5, <2>1
<1> QED BY <1>2, <1>3, <1>4, <1>5 DEF Backed, Spent

LEMMA BackedStep ==
  ASSUME QuotaTyped, QuotaTyped', NotAhead, Logged, Backed, NotRefusedEarly, [QuotaNext]_quotaVars
  PROVE  Backed' /\ NotRefusedEarly'
<1>0. /\ \A t \in Requests : Home[t] \in Procs /\ day[t] \in Days
      /\ serving \in [Requests -> {"idle", "shared", "local", "running"}]
      /\ shared \in [Days -> Nat] /\ window \in [Procs -> [Days -> Nat]]
      /\ seeds \in [Procs -> [Days -> [Formats -> Nat]]]
      /\ day \in [Requests -> Days] /\ seed \in [Requests -> Nat] /\ today \in Days
  BY DEF QuotaTyped
<1> DEFINE Covered == \A d \in Days : \/ shared'[d] = shared[d]
                                       \/ shared'[d] <= Spent(d)' + unanswered'[d]
<1>1. ASSUME refused' = NoWindow, Covered, UNCHANGED <<window, seeds, seed, day>>,
             \A t \in Requests : serving'[t] \in {"shared", "local"} => serving[t] \in {"shared", "local"}
      PROVE  Backed' /\ NotRefusedEarly'
  <2>1. Backed'
    BY <1>1, BackedFrom
  <2> QED BY <1>1, <2>1 DEF NotRefusedEarly
<1>2. ASSUME NEW t \in Requests, NEW f \in Formats, ReadSeed(t, f), refused' = NoWindow, Covered,
             UNCHANGED <<window, allowed, carried>>,
             \A u \in Requests : u # t => serving'[u] = serving[u]
      PROVE  Backed' /\ NotRefusedEarly'
  <2>1. /\ day' = [day EXCEPT ![t] = today]
        /\ seed'[t] <= Spent(today) /\ \A u \in Requests : u # t => seed'[u] = seed[u]
        /\ \A p \in Procs : \A d \in Days : \A g \in Formats :
              seeds'[p][d][g] = seeds[p][d][g] \/ (d = today /\ seeds'[p][d][g] <= Spent(today))
    BY <1>2, SeedBacked
  <2>2. \A d \in Days : Spent(d)' = Spent(d) /\ allowed'[d] + carried'[d] = Spent(d)
    BY <1>2 DEF Spent
  <2>3. day'[t] = today /\ \A u \in Requests : u # t => day'[u] = day[u]
    BY <1>0, <2>1
  <2>4. ASSUME NEW u \in Requests, serving'[u] \in {"shared", "local"}
        PROVE  \/ serving[u] \in {"shared", "local"} /\ seed'[u] = seed[u] /\ day'[u] = day[u]
               \/ seed'[u] <= allowed'[day'[u]] + carried'[day'[u]]
    <3>1. CASE u = t
      <4>1. allowed'[today] + carried'[today] = Spent(today)
        BY <1>0, <2>2
      <4> QED BY <2>1, <2>3, <3>1, <4>1
    <3> QED BY <1>2, <2>1, <2>3, <2>4, <3>1
  <2>5. \A p \in Procs : \A d \in Days : \A g \in Formats :
           seeds'[p][d][g] = seeds[p][d][g] \/ seeds'[p][d][g] <= Spent(d)'
    BY <2>1, <2>2
  <2>6. Backed'
    BY <1>2, <2>4, <2>5, BackedFrom
  <2> QED BY <1>2, <2>6 DEF NotRefusedEarly
<1>f. ASSUME NEW t \in Requests, WithoutRedis(t), Covered, UNCHANGED <<window, carried>>
      PROVE  Backed' /\ NotRefusedEarly'
  <2>0. /\ refused' = NoWindow /\ allowed' = allowed
        /\ \A u \in Requests : u # t => serving'[u] = serving[u]
        /\ \/ serving'[t] = "idle" /\ UNCHANGED <<seeds, day, seed>>
           \/ ReadSeed(t, "local")
    BY <1>f, FallsBack
  <2>1. CASE serving'[t] = "idle" /\ UNCHANGED <<seeds, day, seed>>
    <3>1. \A u \in Requests : serving'[u] = serving[u] \/ serving'[u] = "idle"
      BY <2>0, <2>1
    <3> HIDE DEF Covered
    <3> QED BY <1>1, <1>f, <2>0, <2>1, <3>1
  <2>2. CASE ReadSeed(t, "local")
    <3>1. "local" \in Formats
      BY DEF Formats
    <3> HIDE DEF Covered
    <3> QED BY <1>2, <1>f, <2>0, <2>2, <3>1
  <2> QED BY <2>0, <2>1, <2>2
<1>3. ASSUME NEW t \in Requests, Arrive(t) PROVE Backed' /\ NotRefusedEarly'
  <2>1. Covered /\ UNCHANGED <<window, carried>>
    BY <1>3 DEF Arrive, logVars
  <2>2. CASE ReadSeed(t, "shared") /\ Onwards(t, "shared")
    <3>1. "shared" \in Formats
      BY DEF Formats
    <3>2. /\ refused' = NoWindow /\ UNCHANGED allowed
          /\ \A u \in Requests : u # t => serving'[u] = serving[u]
      BY <1>0, <2>2 DEF Onwards
    <3> HIDE DEF Covered
    <3> QED BY <1>2, <2>1, <2>2, <3>1, <3>2
  <2>3. CASE WithoutRedis(t)
    <3> HIDE DEF Covered
    <3> QED BY <1>f, <2>1, <2>3
  <2> QED BY <1>3, <2>2, <2>3 DEF Arrive
<1>4. ASSUME NEW t \in Requests, SharedFails(t) PROVE Backed' /\ NotRefusedEarly'
  <2> DEFINE d == day[t]
             w == shared[d]
  <2>1. /\ UNCHANGED <<window, carried>> /\ WithoutRedis(t) /\ serving[t] = "shared"
        /\ \/ (Script(t, "wait") \/ Script(t, "daily")) /\ UNCHANGED unanswered
           \/ Script(t, "allowed") /\ unanswered' = [unanswered EXCEPT ![d] = @ + 1]
    BY <1>4 DEF SharedFails, logVars
  <2>2. UNCHANGED <<allowed, carried>>
    BY <2>1, FallsBack
  <2>3. /\ d \in Days /\ w \in Nat /\ seed[t] \in Nat /\ seed[t] <= Spent(d)
        /\ w # NoWindow => w <= Spent(d) + unanswered[d]
        /\ unanswered[d] \in Nat /\ Spent(d) \in Nat /\ unanswered \in [Days -> Nat]
    BY <1>0, <2>1, SpentTyped DEF QuotaTyped, Backed
  <2>5. Counted(w, t) \in Nat /\ Counted(w, t) <= Spent(d) + unanswered[d]
    BY <2>3, CountedTyped DEF Counted
  <2>6. \/ UNCHANGED shared
        \/ /\ \A e \in Days : e # d => shared'[e] = shared[e]
           /\ \/ shared'[d] = Counted(w, t) /\ UNCHANGED unanswered
              \/ shared'[d] = Counted(w, t) + 1 /\ unanswered'[d] = unanswered[d] + 1
    <3>1. CASE (Script(t, "wait") \/ Script(t, "daily")) /\ UNCHANGED unanswered
      BY <3>1, ScriptTyped
    <3>2. CASE Script(t, "allowed") /\ unanswered' = [unanswered EXCEPT ![d] = @ + 1]
      <4>1. unanswered'[d] = unanswered[d] + 1
        BY <2>3, <3>2
      <4> QED BY <3>2, <4>1, ScriptTyped
    <3> QED BY <2>1, <3>1, <3>2
  <2>7. Covered
    <3> HIDE DEF d, w
    <3>1. shared'[d] = shared[d] \/ shared'[d] <= Spent(d) + unanswered'[d]
      BY <2>3, <2>5, <2>6
    <3>2. ASSUME NEW e \in Days PROVE shared'[e] = shared[e] \/ shared'[e] <= Spent(e)' + unanswered'[e]
      <4>1. CASE e = d
        <5>1. Spent(e)' = Spent(e)
          BY <2>2 DEF Spent
        <5>2. shared'[e] = shared[e] \/ shared'[e] <= Spent(e) + unanswered'[e]
          BY <3>1, <4>1
        <5> QED BY <5>1, <5>2
      <4>2. CASE e # d
        BY <2>6, <4>2
      <4> QED BY <4>1, <4>2
    <3> QED BY <3>2
  <2> HIDE DEF Covered
  <2> QED BY <1>f, <2>1, <2>7
<1>5. ASSUME NEW t \in Requests, EvalShared(t) PROVE Backed' /\ NotRefusedEarly'
  <2> DEFINE d == day[t]
             w == shared[d]
             n == shared'[d]
  <2>1. /\ UNCHANGED <<window, seeds, day, seed, carried, unanswered>> /\ serving[t] = "shared"
        /\ \A u \in Requests : serving'[u] \in {"shared", "local"} => serving[u] \in {"shared", "local"}
    BY <1>0, <1>5 DEF EvalShared, Refuse, Allow, logVars
  <2>2. /\ d \in Days /\ w \in Nat /\ n \in Nat /\ seed[t] <= Spent(d)
        /\ w # NoWindow => w <= Spent(d) + unanswered[d]
        /\ unanswered[d] \in Nat
    BY <1>0, <2>1 DEF QuotaTyped, Backed
  <2>3. \/ Refuse(t, NoWindow) /\ UNCHANGED shared
        \/ /\ \A e \in Days : e # d => shared'[e] = shared[e]
           /\ \/ Counted(w, t) >= Limit /\ n = Counted(w, t) /\ Refuse(t, d)
              \/ Counted(w, t) < Limit /\ n = Counted(w, t) + 1 /\ Allow(t)
    BY <1>5, ScriptTyped DEF EvalShared
  <2>d. d = day[t]
    OBVIOUS
  <2>w. w = shared[d] /\ n = shared'[d]
    OBVIOUS
  <2> HIDE DEF w, n, d
  <2>4. CASE Refuse(t, NoWindow) /\ UNCHANGED shared
    <3>1. refused' = NoWindow /\ Covered /\ UNCHANGED <<window, seeds, seed, day>>
      BY <2>1, <2>4 DEF Refuse
    <3> HIDE DEF Covered
    <3> QED BY <1>1, <2>1, <3>1
  <2>5. CASE /\ \A e \in Days : e # d => shared'[e] = shared[e]
             /\ \/ Counted(w, t) >= Limit /\ n = Counted(w, t) /\ Refuse(t, d)
                \/ Counted(w, t) < Limit /\ n = Counted(w, t) + 1 /\ Allow(t)
    <3>1. ASSUME NEW e \in Days, e = d PROVE n <= Spent(e)' + unanswered'[e] /\ NotRefusedEarly'
      <4>1. n <= Spent(e)' + unanswered[e] /\ NotRefusedEarly'
        BY <2>1, <2>2, <2>5, <2>d, <3>1, DecidedBacked
      <4> QED BY <2>1, <4>1
    <3>2. \A e \in Days : shared'[e] = shared[e] \/ shared'[e] <= Spent(e)' + unanswered'[e]
      BY <2>5, <2>w, <3>1
    <3>3. Backed'
      BY <2>1, <3>2, BackedFrom
    <3> QED BY <2>2, <3>1, <3>3
  <2> QED BY <2>3, <2>4, <2>5
<1>6. ASSUME NEW t \in Requests, CheckLocal(t) PROVE Backed' /\ NotRefusedEarly'
  <2> DEFINE p == Home[t]
             d == day[t]
             w == window[p][d]
             n == window'[p][d]
  <2>1. /\ UNCHANGED <<shared, seeds, day, seed, carried, unanswered>> /\ serving[t] = "local"
        /\ \A u \in Requests : serving'[u] \in {"shared", "local"} => serving[u] \in {"shared", "local"}
    BY <1>0, <1>6 DEF CheckLocal, Refuse, Allow, logVars
  <2>2. /\ p \in Procs /\ d \in Days /\ w \in Nat /\ n \in Nat /\ seed[t] <= Spent(d)
        /\ w # NoWindow => w <= Spent(d)
    <3>1. p \in Procs /\ d \in Days
      BY <1>0
    <3>2. window[p] \in [Days -> Nat] /\ window'[p] \in [Days -> Nat]
      BY <3>1 DEF QuotaTyped
    <3> QED BY <2>1, <3>1, <3>2 DEF Backed
  <2>3. \/ Refuse(t, NoWindow) /\ UNCHANGED window
        \/ /\ \A q \in Procs : \A e \in Days : q # p \/ e # d => window'[q][e] = window[q][e]
           /\ \/ Counted(w, t) >= Limit /\ n = Counted(w, t) /\ Refuse(t, d)
              \/ Counted(w, t) < Limit /\ n = Counted(w, t) + 1 /\ Allow(t)
    <3>1. Counted(w, t) \in Nat /\ Counted(w, t) + 1 \in Nat
      BY <2>2, CountedTyped
    <3>2. \A m \in Nat : window' = [window EXCEPT ![p][d] = m] =>
             n = m /\ \A q \in Procs : \A e \in Days : q # p \/ e # d => window'[q][e] = window[q][e]
      BY <1>0, <2>2, CountSet
    <3>3. \/ Refuse(t, NoWindow) /\ UNCHANGED window
          \/ /\ Counted(w, t) >= Limit /\ Refuse(t, d)
             /\ window' = [window EXCEPT ![p][d] = Counted(w, t)]
          \/ /\ Counted(w, t) < Limit /\ Allow(t)
             /\ window' = [window EXCEPT ![p][d] = Counted(w, t) + 1]
      BY <1>6 DEF CheckLocal
    <3> HIDE DEF w, n, p, d
    <3> QED BY <3>1, <3>2, <3>3
  <2>d. d = day[t]
    OBVIOUS
  <2>w. n = window'[p][d]
    OBVIOUS
  <2> HIDE DEF w, n, d, p
  <2>4. CASE Refuse(t, NoWindow) /\ UNCHANGED window
    <3>1. refused' = NoWindow /\ UNCHANGED <<shared, window, seeds, seed, day>>
      BY <2>1, <2>4 DEF Refuse
    <3> QED BY <1>1, <2>1, <3>1
  <2>5. CASE /\ \A q \in Procs : \A e \in Days : q # p \/ e # d => window'[q][e] = window[q][e]
             /\ \/ Counted(w, t) >= Limit /\ n = Counted(w, t) /\ Refuse(t, d)
                \/ Counted(w, t) < Limit /\ n = Counted(w, t) + 1 /\ Allow(t)
    <3>1. ASSUME NEW e \in Days, e = d PROVE n <= Spent(e)' /\ NotRefusedEarly'
      <4>1. 0 \in Nat /\ 0 <= unanswered[e] /\ Spent(e) \in Nat /\ (w # NoWindow => w <= Spent(e) + 0)
        BY <2>2, <3>1, SpentTyped DEF QuotaTyped
      <4>2. n <= Spent(e)' + 0 /\ NotRefusedEarly'
        BY <2>1, <2>2, <2>5, <2>d, <3>1, <4>1, DecidedBacked
      <4>3. Spent(e)' \in Nat
        <5>1. allowed'[e] \in Nat /\ carried'[e] \in Nat
          BY DEF QuotaTyped
        <5> QED BY <5>1 DEF Spent
      <4> QED BY <4>2, <4>3
    <3>2. \A q \in Procs : \A e \in Days : window'[q][e] = window[q][e] \/ window'[q][e] <= Spent(e)'
      BY <2>5, <2>w, <3>1
    <3>3. Backed'
      BY <2>1, <3>2, BackedFrom
    <3> QED BY <2>2, <3>1, <3>3
  <2> QED BY <2>3, <2>4, <2>5
<1>7. ASSUME NEW t \in Requests, Finish(t) PROVE Backed' /\ NotRefusedEarly'
  <2>1. /\ refused' = NoWindow /\ UNCHANGED <<shared, window, seeds, seed, day>>
        /\ \A u \in Requests : serving'[u] = serving[u] \/ serving'[u] = "idle"
    BY <1>0, <1>7 DEF Finish, Onwards, windowVars
  <2> QED BY <1>1, <2>1
<1>8. ASSUME NEW p \in Procs, Take(p) \/ Flush(p) PROVE Backed' /\ NotRefusedEarly'
  <2>1. refused' = NoWindow /\ UNCHANGED <<shared, window, seeds, seed, day, serving>>
    BY <1>8 DEF Take, Flush, Quietly, threadVars, windowVars
  <2> QED BY <1>1, <2>1
<1>9. ASSUME NEW p \in Procs, Restart(p) PROVE Backed' /\ NotRefusedEarly'
  <2>1. /\ refused' = NoWindow /\ UNCHANGED <<shared, seed, day>>
        /\ window' = [window EXCEPT ![p] = [d \in Days |-> NoWindow]]
        /\ seeds' = [seeds EXCEPT ![p] = [d \in Days |-> [f \in Formats |-> NoWindow]]]
        /\ \A u \in Requests : serving'[u] = serving[u] \/ serving'[u] = "idle"
    BY <1>0, <1>9 DEF Restart
  <2>2. \A q \in Procs : \A d \in Days : window'[q][d] = window[q][d] \/ window'[q][d] = NoWindow
    BY <1>0, <2>1
  <2>3. \A q \in Procs : \A d \in Days : \A f \in Formats :
           seeds'[q][d][f] = seeds[q][d][f] \/ seeds'[q][d][f] = NoWindow
    BY <1>0, <2>1
  <2>4. \A u \in Requests : serving'[u] \in {"shared", "local"} =>
           serving[u] \in {"shared", "local"} /\ seed'[u] = seed[u] /\ day'[u] = day[u]
    BY <2>1
  <2>5. Backed'
    BY <2>1, <2>2, <2>3, <2>4, BackedFrom
  <2> QED BY <2>1, <2>5 DEF NotRefusedEarly
<1>10. CASE LoseShared
  <2>1. /\ refused' = NoWindow /\ UNCHANGED <<window, seeds, seed, day, serving>>
        /\ \E d \in Days : shared' = [shared EXCEPT ![d] = NoWindow]
    BY <1>10 DEF LoseShared, Quietly, threadVars
  <2>2. \A d \in Days : shared'[d] = shared[d] \/ shared'[d] = NoWindow
    BY <1>0, <2>1
  <2>3. Backed'
    BY <2>1, <2>2, BackedFrom
  <2> QED BY <2>1, <2>3 DEF NotRefusedEarly
<1>11. CASE Midnight
  <2>1. refused' = NoWindow /\ UNCHANGED <<shared, window, seeds, seed, day, serving>>
    BY <1>11 DEF Midnight, Quietly, threadVars, windowVars
  <2> QED BY <1>1, <2>1
<1>12. CASE UNCHANGED quotaVars
  BY <1>12 DEF quotaVars, windowVars, threadVars, logVars, Backed, NotRefusedEarly, Spent
<1> QED BY <1>3, <1>4, <1>5, <1>6, <1>7, <1>8, <1>9, <1>10, <1>11, <1>12 DEF QuotaNext

-----------------------------------------------------------------------------

QuotaInv ==
    /\ QuotaTyped
    /\ UsageAccounted
    /\ WindowsPaid
    /\ NotAhead
    /\ Logged
    /\ Backed
    /\ NotRefusedEarly

\* For any processes, threads, limits and days the inductive invariant of the quota
\* holds: records are counted, on their way or given up; what was allowed is paid for by
\* windows; no window and no seed shows more than was spent, but for the calls in Redis
\* whose reply was lost.
THEOREM QuotaInvariant == QuotaSpec => []QuotaInv
<1>1. QuotaInit => QuotaInv
  <2> SUFFICES ASSUME QuotaInit PROVE NotAhead /\ Backed /\ NotRefusedEarly
    BY QuotaInitTyped, AccountedInit, PaidInit, LoggedInit DEF QuotaInv
  <2>1. NotAhead
    BY DEF QuotaInit, NotAhead, NoRecords
  <2>2. Backed
    BY DEF QuotaInit, Backed
  <2> QED BY <2>1, <2>2 DEF QuotaInit, NotRefusedEarly
<1>2. QuotaInv /\ [QuotaNext]_quotaVars => QuotaInv'
  BY QuotaStepTyped, AccountedStep, PaidStep, NotAheadStep, LoggedStep, BackedStep DEF QuotaInv
<1> QED BY <1>1, <1>2, PTL DEF QuotaSpec

\* Every allowed call that came to an end is counted once, on its way, or given up on
\* purpose, whatever is dropped, flushed, refused by the database or lost with a process.
THEOREM CallsAccounted == QuotaSpec => []UsageAccounted
<1>1. QuotaInv => UsageAccounted
  BY DEF QuotaInv
<1> QED BY <1>1, QuotaInvariant, PTL

\* A day allows at most one quota for each window opened for it, in Redis or in a
\* process, whatever the threads do at once.
THEOREM QuotaKept == QuotaSpec => []QuotaBounded
<1>1. QuotaInv => QuotaBounded
  <2> SUFFICES ASSUME QuotaInv, NEW d \in Days PROVE allowed[d] <= Limit * opened[d]
    BY DEF QuotaBounded
  <2>1. QuotaTyped /\ allowed[d] + Slack(shared[d]) + StillFree(d) <= Limit * opened[d]
    BY DEF QuotaInv, WindowsPaid
  <2>2. /\ allowed[d] \in Nat /\ Slack(shared[d]) \in Nat /\ StillFree(d) \in Nat
        /\ opened[d] \in Nat /\ Limit * opened[d] \in Nat
    BY <2>1, FreeTyped, SlackTyped, OneMore DEF QuotaTyped
  <2> QED BY <2>1, <2>2
<1> QED BY <1>1, QuotaInvariant, PTL

\* Nobody is refused for a day before its quota is spent: on calls of the day, on records
\* of the day before that were written after midnight, or on calls Redis has counted and
\* whose reply was lost.
THEOREM NobodyRefusedEarly == QuotaSpec => []NotRefusedEarly
<1>1. QuotaInv => NotRefusedEarly
  BY DEF QuotaInv
<1> QED BY <1>1, QuotaInvariant, PTL

-----------------------------------------------------------------------------

\* The request threads that have a call, and the bounds of everything counted.
InCall == {t \in Requests : serving[t] # "idle"}

CallsWithin == calls <= MaxCalls /\ ended + Cardinality(InCall) <= calls

SeedsWithin ==
    /\ \A p \in Procs : \A d \in Days : \A f \in Formats :
          seeds[p][d][f] # NoWindow => seeds[p][d][f] <= MaxCalls
    /\ \A t \in Requests : seed[t] <= MaxCalls

WindowsWithin ==
    \A d \in Days : shared[d] \in Counts /\ \A p \in Procs : window[p][d] \in Counts

QueuesWithin == \A p \in Procs : Total(queue[p]) <= MaxQueue

\* One summand is not above the sum.
LEMMA PartOfTotal ==
  ASSUME NEW f \in [Days -> Nat], NEW d \in Days
  PROVE  f[d] <= Total(f)
<1> DEFINE h == [f EXCEPT ![d] = 0]
<1>1. h \in [Days -> Nat] /\ h[d] = 0 /\ \A e \in Days : e # d => h[e] = f[e]
  OBVIOUS
<1> HIDE DEF h
<1>2. Total(h) + f[d] = Total(f) + h[d]
  BY <1>1, TotalUpdate
<1>3. Total(h) \in Nat /\ Total(f) \in Nat /\ f[d] \in Nat
  BY <1>1, TotalTyped
<1> QED BY <1>1, <1>2, <1>3

LEMMA InCallFinite == IsFiniteSet(InCall) /\ Cardinality(InCall) \in Nat
<1>1. InCall \subseteq Requests
  BY DEF InCall
<1>2. IsFiniteSet(InCall)
  BY <1>1, FS_Subset
<1> QED BY <1>2, FS_CardinalityType

\* A day counts no more calls than there were.
LEMMA CounterWithin ==
  ASSUME QuotaTyped, UsageAccounted, CallsWithin
  PROVE  \A d \in Days : counter[d] <= MaxCalls
<1> SUFFICES ASSUME NEW d \in Days PROVE counter[d] <= MaxCalls
  OBVIOUS
<1>1. Total(counter) + HeldByAll + lost = ended
  BY DEF UsageAccounted, HeldByAll, HeldBy
<1>2. /\ counter \in [Days -> Nat] /\ counter[d] \in Nat /\ lost \in Nat
      /\ ended \in Nat /\ calls \in Nat
  BY DEF QuotaTyped
<1>3. counter[d] <= Total(counter) /\ Total(counter) \in Nat /\ HeldByAll \in Nat
  BY <1>2, PartOfTotal, TotalTyped, HeldTyped
<1>4. ended + Cardinality(InCall) <= calls /\ calls <= MaxCalls /\ Cardinality(InCall) \in Nat
  BY InCallFinite DEF CallsWithin
<1> QED BY <1>1, <1>2, <1>3, <1>4

\* A thread with a call is one of the calls that have not ended.
LEMMA CallsWithinStep == QuotaTyped /\ CallsWithin /\ [QuotaNext]_quotaVars => CallsWithin'
<1> SUFFICES ASSUME QuotaTyped, CallsWithin, [QuotaNext]_quotaVars PROVE CallsWithin'
  OBVIOUS
<1> DEFINE after == {t \in Requests : serving'[t] # "idle"}
<1>0. /\ CallsWithin' <=> calls' <= MaxCalls /\ ended' + Cardinality(after) <= calls'
      /\ calls <= MaxCalls /\ ended + Cardinality(InCall) <= calls
      /\ calls \in Nat /\ ended \in Nat
  BY DEF CallsWithin, InCall, QuotaTyped
<1>b. IsFiniteSet(InCall) /\ Cardinality(InCall) \in Nat
  BY InCallFinite
<1>c. after \subseteq InCall => Cardinality(after) <= Cardinality(InCall) /\ Cardinality(after) \in Nat
  <2>1. ASSUME after \subseteq InCall PROVE Cardinality(after) <= Cardinality(InCall) /\ IsFiniteSet(after)
    BY <1>b, <2>1, FS_Subset
  <2> QED BY <2>1, FS_CardinalityType
<1>1. ASSUME after \subseteq InCall, UNCHANGED <<calls, ended>> PROVE CallsWithin'
  BY <1>0, <1>b, <1>c, <1>1
<1>2. ASSUME NEW t \in Requests, Arrive(t) PROVE CallsWithin'
  <2>1. calls' = calls + 1 /\ calls < MaxCalls /\ ended' = ended /\ t \notin InCall
    BY <1>2 DEF Arrive, InCall, logVars
  <2>2. after = InCall \cup {t} \/ after = InCall
    <3>1. CASE ReadSeed(t, "shared") /\ Onwards(t, "shared")
      BY <2>1, <3>1 DEF Onwards, InCall, QuotaTyped
    <3>2. CASE WithoutRedis(t)
      <4>1. /\ \A u \in Requests : u # t => serving'[u] = serving[u]
            /\ serving'[t] = "idle" \/ serving'[t] = "local"
        BY <3>2, FallsBack
      <4> QED BY <2>1, <4>1 DEF InCall
    <3> QED BY <1>2, <3>1, <3>2 DEF Arrive
  <2>3. Cardinality(InCall \cup {t}) = Cardinality(InCall) + 1
    BY <1>b, <2>1, FS_AddElement
  <2> QED BY <1>0, <1>b, <2>1, <2>2, <2>3
<1>3. ASSUME NEW t \in Requests, EvalShared(t) \/ SharedFails(t) \/ CheckLocal(t) PROVE CallsWithin'
  <2>1. /\ calls' = calls /\ ended' = ended /\ t \in InCall
        /\ \E next \in {"idle", "local", "running"} : serving' = [serving EXCEPT ![t] = next]
    BY <1>3 DEF EvalShared, SharedFails, WithoutRedis, CheckLocal, Onwards, Refuse, Allow, InCall, logVars
  <2>2. after \subseteq InCall
    BY <2>1 DEF InCall, QuotaTyped
  <2> QED BY <1>1, <2>1, <2>2
<1>4. ASSUME NEW t \in Requests, Finish(t) PROVE CallsWithin'
  <2>1. calls' = calls /\ ended' = ended + 1 /\ t \in InCall /\ serving' = [serving EXCEPT ![t] = "idle"]
    BY <1>4 DEF Finish, Onwards, InCall
  <2>2. after = InCall \ {t}
    BY <2>1 DEF InCall, QuotaTyped
  <2>3. Cardinality(after) = Cardinality(InCall) - 1
    BY <1>b, <2>1, <2>2, FS_RemoveElement
  <2> QED BY <1>0, <1>b, <2>1, <2>3
<1>5. ASSUME NEW p \in Procs, Take(p) \/ Flush(p) PROVE CallsWithin'
  <2>1. UNCHANGED <<calls, ended>> /\ after \subseteq InCall
    BY <1>5 DEF Take, Flush, Quietly, threadVars, InCall
  <2> QED BY <1>1, <2>1
<1>6. ASSUME NEW p \in Procs, Restart(p) PROVE CallsWithin'
  <2>1. UNCHANGED <<calls, ended>> /\ after \subseteq InCall
    BY <1>6 DEF Restart, InCall
  <2> QED BY <1>1, <2>1
<1>7. CASE LoseShared \/ Midnight \/ UNCHANGED quotaVars
  <2>1. UNCHANGED <<calls, ended>> /\ after \subseteq InCall
    BY <1>7 DEF LoseShared, Midnight, Quietly, quotaVars, threadVars, logVars, InCall
  <2> QED BY <1>1, <2>1
<1> QED BY <1>2, <1>3, <1>4, <1>5, <1>6, <1>7 DEF QuotaNext

\* A seed is the durable count of a day, or 0.
LEMMA ReadSeedWithin ==
  ASSUME QuotaTyped, SeedsWithin, \A d \in Days : counter[d] <= MaxCalls,
         NEW t \in Requests, NEW f \in Formats, ReadSeed(t, f)
  PROVE  SeedsWithin'
<1> DEFINE p == Home[t]
           cached == seeds[p][today][f]
<1>1. p \in Procs /\ today \in Days /\ cached \in Nat /\ counter[today] \in Nat
  BY DEF QuotaTyped
<1>2. PICK value \in IF cached # NoWindow THEN {cached} ELSE {counter[today], 0} :
        /\ seed' = [seed EXCEPT ![t] = value]
        /\ seeds' = [seeds EXCEPT ![p][today][f] = value]
  BY DEF ReadSeed
<1>3. value \in Nat /\ value <= MaxCalls
  BY <1>1, <1>2 DEF SeedsWithin
<1>4. seeds \in [Procs -> [Days -> [Formats -> Nat]]] /\ seed \in [Requests -> Nat]
  BY DEF QuotaTyped
<1>5. \A u \in Requests : seed'[u] <= MaxCalls
  BY <1>2, <1>3, <1>4 DEF SeedsWithin
<1>6. ASSUME NEW q \in Procs, NEW d \in Days, NEW g \in Formats
      PROVE  seeds'[q][d][g] = IF q = p /\ d = today /\ g = f THEN value ELSE seeds[q][d][g]
  BY <1>1, <1>2, <1>4
<1>7. \A q \in Procs : \A d \in Days : \A g \in Formats :
         seeds'[q][d][g] # NoWindow => seeds'[q][d][g] <= MaxCalls
  BY <1>3, <1>6 DEF SeedsWithin
<1> QED BY <1>5, <1>7 DEF SeedsWithin, NoWindow, Days, Formats

LEMMA SeedsWithinStep ==
  QuotaTyped /\ CallsWithin /\ UsageAccounted /\ SeedsWithin /\ [QuotaNext]_quotaVars => SeedsWithin'
<1> SUFFICES ASSUME QuotaTyped, CallsWithin, UsageAccounted, SeedsWithin, [QuotaNext]_quotaVars
             PROVE  SeedsWithin'
  OBVIOUS
<1>0. \A d \in Days : counter[d] <= MaxCalls
  BY CounterWithin
<1>1. ASSUME NEW t \in Requests, NEW f \in Formats, ReadSeed(t, f) PROVE SeedsWithin'
  BY <1>0, <1>1, ReadSeedWithin
<1>2. CASE UNCHANGED <<seed, seeds>>
  BY <1>2 DEF SeedsWithin
<1>3. ASSUME NEW t \in Requests, Arrive(t) \/ SharedFails(t) PROVE SeedsWithin'
  <2>1. "shared" \in Formats /\ "local" \in Formats
    BY DEF Formats
  <2>2. ReadSeed(t, "shared") \/ ReadSeed(t, "local") \/ UNCHANGED <<seed, seeds>>
    BY <1>3 DEF Arrive, SharedFails, WithoutRedis
  <2> QED BY <1>1, <1>2, <2>1, <2>2
<1>4. ASSUME NEW t \in Requests, EvalShared(t) \/ CheckLocal(t) \/ Finish(t) PROVE SeedsWithin'
  <2>1. UNCHANGED <<seed, seeds>>
    BY <1>4 DEF EvalShared, CheckLocal, Finish, windowVars
  <2> QED BY <1>2, <2>1
<1>5. ASSUME NEW p \in Procs, Take(p) \/ Flush(p) PROVE SeedsWithin'
  <2>1. UNCHANGED <<seed, seeds>>
    BY <1>5 DEF Take, Flush, Quietly, threadVars, windowVars
  <2> QED BY <1>2, <2>1
<1>6. ASSUME NEW p \in Procs, Restart(p) PROVE SeedsWithin'
  <2>1. seed' = seed /\ seeds' = [seeds EXCEPT ![p] = [d \in Days |-> [f \in Formats |-> NoWindow]]]
    BY <1>6 DEF Restart
  <2>2. \A q \in Procs : \A d \in Days : \A f \in Formats :
           seeds'[q][d][f] = IF q = p THEN NoWindow ELSE seeds[q][d][f]
    BY <2>1 DEF QuotaTyped
  <2>3. \A q \in Procs : \A d \in Days : \A f \in Formats :
           seeds'[q][d][f] # NoWindow => seeds'[q][d][f] <= MaxCalls
    BY <2>2 DEF SeedsWithin
  <2> QED BY <2>1, <2>3 DEF SeedsWithin, NoWindow, Days, Formats
<1>7. CASE LoseShared \/ Midnight \/ UNCHANGED quotaVars
  <2>1. UNCHANGED <<seed, seeds>>
    BY <1>7 DEF LoseShared, Midnight, Quietly, quotaVars, threadVars, windowVars
  <2> QED BY <1>2, <2>1
<1> QED BY <1>3, <1>4, <1>5, <1>6, <1>7 DEF QuotaNext

\* A window that is opened or counted in stays a count.
LEMMA WindowsWithinStep ==
  QuotaTyped /\ QuotaTyped' /\ SeedsWithin /\ WindowsWithin /\ [QuotaNext]_quotaVars => WindowsWithin'
<1> SUFFICES ASSUME QuotaTyped, QuotaTyped', SeedsWithin, WindowsWithin, [QuotaNext]_quotaVars
             PROVE  WindowsWithin'
  OBVIOUS
<1>0. /\ NoWindow \in Counts /\ \A n \in Nat : n <= MaxCalls + Limit => n \in Counts
      /\ \A t \in Requests : Home[t] \in Procs /\ day[t] \in Days
  BY NoWindowTyped DEF Counts, QuotaTyped
<1>w. /\ shared \in [Days -> Nat] /\ window \in [Procs -> [Days -> Nat]]
      /\ \A d \in Days : shared[d] \in Counts
      /\ \A p \in Procs : \A d \in Days : window[p][d] \in Counts
  BY DEF QuotaTyped, WindowsWithin
<1>c. ASSUME NEW t \in Requests, NEW w \in Counts
      PROVE  Counted(w, t) \in Counts /\ (Counted(w, t) < Limit => Counted(w, t) + 1 \in Counts)
  <2>1. seed[t] \in Nat /\ seed[t] <= MaxCalls /\ w \in Nat
    BY NoWindowTyped DEF QuotaTyped, SeedsWithin, Counts
  <2>2. Counted(w, t) \in Nat /\ Counted(w, t) \in Counts
    BY <1>0, <2>1 DEF Counted
  <2>3. Counted(w, t) < Limit => Counted(w, t) + 1 <= MaxCalls + Limit
    BY <2>2
  <2> QED BY <1>0, <2>2, <2>3
<1>1. ASSUME NEW d \in Days, NEW n \in Counts, shared' = [shared EXCEPT ![d] = n], window' = window
      PROVE  WindowsWithin'
  <2>1. \A e \in Days : shared'[e] = IF e = d THEN n ELSE shared[e]
    BY <1>w, <1>1
  <2>2. \A e \in Days : shared'[e] \in Counts
    BY <1>w, <2>1
  <2> QED BY <1>w, <1>1, <2>2 DEF WindowsWithin, Counts, NoWindow, Days
<1>2. ASSUME NEW p \in Procs, NEW d \in Days, NEW n \in Counts,
             window' = [window EXCEPT ![p][d] = n], shared' = shared
      PROVE  WindowsWithin'
  <2>1. n \in Nat
    BY NoWindowTyped DEF Counts
  <2>2. \A q \in Procs : \A e \in Days : window'[q][e] = IF q = p /\ e = d THEN n ELSE window[q][e]
    BY <1>w, <1>2, <2>1, CountSet
  <2>3. \A q \in Procs : \A e \in Days : window'[q][e] \in Counts
    BY <1>w, <2>2
  <2> QED BY <1>w, <1>2, <2>3 DEF WindowsWithin, Counts, NoWindow, Days
<1>3. CASE UNCHANGED <<shared, window>>
  BY <1>3 DEF WindowsWithin
<1>4. ASSUME NEW t \in Requests, EvalShared(t) \/ SharedFails(t) PROVE WindowsWithin'
  <2> DEFINE count == Counted(shared[day[t]], t)
  <2>1. day[t] \in Days /\ count \in Counts /\ (count < Limit => count + 1 \in Counts)
    BY <1>0, <1>w, <1>c
  <2>2. /\ window' = window
        /\ \/ shared' = shared
           \/ shared' = [shared EXCEPT ![day[t]] = count]
           \/ count < Limit /\ shared' = [shared EXCEPT ![day[t]] = count + 1]
    BY <1>4 DEF EvalShared, SharedFails, Script
  <2> HIDE DEF count
  <2> QED BY <1>1, <1>3, <2>1, <2>2
<1>5. ASSUME NEW t \in Requests, CheckLocal(t) PROVE WindowsWithin'
  <2> DEFINE p == Home[t]
             count == Counted(window[p][day[t]], t)
  <2>1. p \in Procs /\ day[t] \in Days /\ count \in Counts /\ (count < Limit => count + 1 \in Counts)
    BY <1>0, <1>w, <1>c
  <2>2. /\ shared' = shared
        /\ \/ window' = window
           \/ window' = [window EXCEPT ![p][day[t]] = count]
           \/ count < Limit /\ window' = [window EXCEPT ![p][day[t]] = count + 1]
    BY <1>5 DEF CheckLocal
  <2> HIDE DEF p, count
  <2> QED BY <1>2, <1>3, <2>1, <2>2
<1>6. CASE LoseShared
  <2>1. PICK d \in Days : shared' = [shared EXCEPT ![d] = NoWindow] /\ window' = window
    BY <1>6 DEF LoseShared
  <2> QED BY <1>0, <1>1, <2>1
<1>7. ASSUME NEW p \in Procs, Restart(p) PROVE WindowsWithin'
  <2>1. shared' = shared /\ window' = [window EXCEPT ![p] = [d \in Days |-> NoWindow]]
    BY <1>7 DEF Restart
  <2>2. \A q \in Procs : \A e \in Days : window'[q][e] = IF q = p THEN NoWindow ELSE window[q][e]
    BY <1>w, <2>1
  <2>3. \A q \in Procs : \A e \in Days : window'[q][e] \in Counts
    BY <1>0, <1>w, <2>2
  <2> QED BY <1>w, <2>1, <2>3 DEF WindowsWithin, Counts, NoWindow, Days
<1>8. ASSUME NEW t \in Requests, Arrive(t) \/ Finish(t) PROVE WindowsWithin'
  <2>1. UNCHANGED <<shared, window>>
    BY <1>8 DEF Arrive, Finish, windowVars
  <2> QED BY <1>3, <2>1
<1>9. ASSUME NEW p \in Procs, Take(p) \/ Flush(p) PROVE WindowsWithin'
  <2>1. UNCHANGED <<shared, window>>
    BY <1>9 DEF Take, Flush, windowVars
  <2> QED BY <1>3, <2>1
<1>10. CASE Midnight \/ UNCHANGED quotaVars
  <2>1. UNCHANGED <<shared, window>>
    BY <1>10 DEF Midnight, quotaVars, windowVars
  <2> QED BY <1>3, <2>1
<1> QED BY <1>4, <1>5, <1>6, <1>7, <1>8, <1>9, <1>10 DEF QuotaNext

\* Finish looks at the size of the queue; only Take and a restart shorten it.
LEMMA QueuesWithinStep ==
  QuotaTyped /\ QuotaTyped' /\ QueuesWithin /\ [QuotaNext]_quotaVars => QueuesWithin'
<1> SUFFICES ASSUME QuotaTyped, QuotaTyped', QueuesWithin, [QuotaNext]_quotaVars, NEW q \in Procs
             PROVE  Total(queue'[q]) <= MaxQueue
  BY DEF QueuesWithin
<1>0. /\ queue \in [Procs -> [Days -> Nat]] /\ queue[q] \in [Days -> Nat] /\ queue'[q] \in [Days -> Nat]
      /\ Total(queue[q]) \in Nat /\ Total(queue'[q]) \in Nat /\ Total(queue[q]) <= MaxQueue
      /\ \A t \in Requests : Home[t] \in Procs /\ day[t] \in Days
  BY TotalTyped DEF QuotaTyped, QueuesWithin
<1>1. CASE queue'[q] = queue[q]
  BY <1>0, <1>1
<1>2. ASSUME NEW t \in Requests, Finish(t), queue'[q] # queue[q] PROVE Total(queue'[q]) <= MaxQueue
  <2>1. Total(queue[Home[t]]) < MaxQueue /\ queue' = [queue EXCEPT ![Home[t]][day[t]] = @ + 1]
    BY <1>2 DEF Finish
  <2>2. Home[t] = q /\ queue'[q] = [queue[q] EXCEPT ![day[t]] = @ + 1]
    BY <1>0, <1>2, <2>1
  <2>3. queue'[q][day[t]] = queue[q][day[t]] + 1 /\ \A e \in Days : e # day[t] => queue'[q][e] = queue[q][e]
    BY <1>0, <2>2
  <2>4. Total(queue'[q]) + queue[q][day[t]] = Total(queue[q]) + queue'[q][day[t]]
    BY <1>0, <2>3, TotalUpdate
  <2>5. queue[q][day[t]] \in Nat
    BY <1>0
  <2> QED BY <1>0, <2>1, <2>2, <2>3, <2>4, <2>5
<1>3. ASSUME NEW p \in Procs, Take(p), queue'[q] # queue[q] PROVE Total(queue'[q]) <= MaxQueue
  <2>1. PICK d \in Days : queue[p][d] > 0 /\ queue' = [queue EXCEPT ![p][d] = @ - 1]
    BY <1>3 DEF Take
  <2>2. p = q /\ queue'[q] = [queue[q] EXCEPT ![d] = @ - 1]
    BY <1>0, <1>3, <2>1
  <2>3. queue'[q][d] = queue[q][d] - 1 /\ \A e \in Days : e # d => queue'[q][e] = queue[q][e]
    BY <1>0, <2>2
  <2>4. Total(queue'[q]) + queue[q][d] = Total(queue[q]) + queue'[q][d]
    BY <1>0, <2>3, TotalUpdate
  <2>5. queue[q][d] \in Nat
    BY <1>0
  <2> QED BY <1>0, <2>3, <2>4, <2>5
<1>4. ASSUME NEW p \in Procs, Restart(p), queue'[q] # queue[q] PROVE Total(queue'[q]) <= MaxQueue
  <2>1. queue'[q] = NoRecords
    BY <1>0, <1>4 DEF Restart
  <2> QED BY <2>1, NoRecordsTyped
<1>5. ASSUME NEW t \in Requests, Arrive(t) \/ EvalShared(t) \/ SharedFails(t) \/ CheckLocal(t)
      PROVE  queue' = queue
  BY <1>5 DEF Arrive, EvalShared, SharedFails, CheckLocal, logVars
<1>6. ASSUME NEW p \in Procs, Flush(p) PROVE queue' = queue
  BY <1>6 DEF Flush
<1>7. LoseShared \/ Midnight \/ UNCHANGED quotaVars => queue' = queue
  BY DEF LoseShared, Midnight, quotaVars, logVars
<1> QED BY <1>1, <1>2, <1>3, <1>4, <1>5, <1>6, <1>7 DEF QuotaNext

\* All of the state of the quota stays in its type: no count exceeds the calls there
\* were, no window the quota and the calls, and no queue its limit.
THEOREM QuotaTypeCorrect == QuotaSpec => []QuotaTypeOK
<1> DEFINE Within == CallsWithin /\ SeedsWithin /\ WindowsWithin /\ QueuesWithin
<1>1. QuotaInit => Within
  <2> SUFFICES ASSUME QuotaInit PROVE Within
    OBVIOUS
  <2>1. InCall = {}
    BY DEF QuotaInit, InCall
  <2>2. CallsWithin
    BY <2>1, FS_EmptySet DEF QuotaInit, CallsWithin
  <2>3. SeedsWithin /\ WindowsWithin
    BY DEF QuotaInit, SeedsWithin, WindowsWithin, Counts
  <2>4. QueuesWithin
    BY NoRecordsTyped DEF QuotaInit, QueuesWithin
  <2> QED BY <2>2, <2>3, <2>4
<1>2. QuotaInv /\ QuotaInv' /\ Within /\ [QuotaNext]_quotaVars => Within'
  BY CallsWithinStep, SeedsWithinStep, WindowsWithinStep, QueuesWithinStep DEF QuotaInv
<1>3. QuotaInv /\ Within => QuotaTypeOK
  <2> SUFFICES ASSUME QuotaInv, Within PROVE QuotaTypeOK
    OBVIOUS
  <2>1. QuotaTyped /\ UsageAccounted
    BY DEF QuotaInv
  <2>2. counter \in [Days -> 0..MaxCalls]
    <3>1. \A d \in Days : counter[d] <= MaxCalls
      BY <2>1, CounterWithin
    <3> QED BY <2>1, <3>1 DEF QuotaTyped
  <2>3. seeds \in [Procs -> [Days -> [Formats -> Counts]]]
    <3>1. seeds \in [Procs -> [Days -> [Formats -> Nat]]]
      BY <2>1 DEF QuotaTyped
    <3>2. \A p \in Procs : \A d \in Days : \A f \in Formats : seeds[p][d][f] \in Counts
      BY <3>1 DEF SeedsWithin, Counts
    <3> HIDE DEF Within
    <3> QED BY <3>1, <3>2
  <2>4. shared \in [Days -> Counts] /\ window \in [Procs -> [Days -> Counts]]
    BY <2>1 DEF QuotaTyped, WindowsWithin
  <2>5. seed \in [Requests -> 0..MaxCalls]
    BY <2>1 DEF QuotaTyped, SeedsWithin
  <2> QED BY <2>1, <2>2, <2>3, <2>4, <2>5 DEF QuotaTyped, QuotaTypeOK, QueuesWithin
<1> HIDE DEF Within
<1> QED BY <1>1, <1>2, <1>3, QuotaInvariant, PTL DEF QuotaSpec

-----------------------------------------------------------------------------

\* The processes with a window of their own for a day, and all windows there are.
Openers(d) == {p \in Procs : window[p][d] # NoWindow}
WindowsOf(d) == (IF shared[d] = NoWindow THEN 0 ELSE 1) + Cardinality(Openers(d))

\* A window that was opened is there or was lost in an outage, and with REDIS_REQUIRED
\* no process ever counts by itself.
WindowsKept ==
    /\ \A d \in Days : opened[d] <= WindowsOf(d) + outages
    /\ required => /\ \A t \in Requests : serving[t] # "local"
                   /\ \A p \in Procs : \A d \in Days : window[p][d] = NoWindow

\* REDIS_REQUIRED is a setting.
LEMMA SettingKept == [QuotaNext]_quotaVars => required' = required
<1>1. \A t \in Requests :
         Arrive(t) \/ EvalShared(t) \/ SharedFails(t) \/ CheckLocal(t) \/ Finish(t) => required' = required
  BY DEF Arrive, EvalShared, SharedFails, CheckLocal, Finish
<1>2. \A p \in Procs : Take(p) \/ Flush(p) \/ Restart(p) => required' = required
  BY DEF Take, Flush, Restart, Quietly
<1>3. LoseShared \/ Midnight \/ UNCHANGED quotaVars => required' = required
  BY DEF LoseShared, Midnight, Quietly, quotaVars
<1> QED BY <1>1, <1>2, <1>3 DEF QuotaNext

LEMMA OpenersFinite ==
  ASSUME NEW d \in Days
  PROVE  IsFiniteSet(Openers(d)) /\ Cardinality(Openers(d)) \in Nat
         /\ Cardinality(Openers(d)) <= Cardinality(Procs)
<1>1. Openers(d) \subseteq Procs /\ IsFiniteSet(Procs)
  BY ProcessesFinite DEF Openers
<1> QED BY <1>1, FS_Subset, FS_CardinalityType

\* A process that opens its window is one more, a process that dies at most one less.
LEMMA OpenersStep ==
  ASSUME NEW d \in Days, NEW p \in Procs,
         \A q \in Procs : q # p => window'[q][d] = window[q][d]
  PROVE  /\ Cardinality(Openers(d))' \in Nat
         /\ window[p][d] # NoWindow /\ window'[p][d] # NoWindow
              => Cardinality(Openers(d))' = Cardinality(Openers(d))
         /\ window[p][d] = NoWindow /\ window'[p][d] # NoWindow
              => Cardinality(Openers(d))' = Cardinality(Openers(d)) + 1
         /\ Cardinality(Openers(d)) <= Cardinality(Openers(d))' + 1
<1> DEFINE S == Openers(d)
           T == Openers(d)'
<1>1. IsFiniteSet(S) /\ Cardinality(S) \in Nat
  BY OpenersFinite
<1>2. T \subseteq Procs /\ IsFiniteSet(Procs)
  BY ProcessesFinite DEF Openers
<1>3. IsFiniteSet(T) /\ Cardinality(T) \in Nat
  BY <1>2, FS_Subset, FS_CardinalityType
<1>4. CASE window[p][d] = NoWindow
  <2>1. p \notin S
    BY <1>4 DEF Openers
  <2>2. T = IF window'[p][d] = NoWindow THEN S ELSE S \cup {p}
    BY <1>4, NoWindowTyped DEF Openers
  <2>3. Cardinality(S \cup {p}) = Cardinality(S) + 1
    BY <1>1, <2>1, FS_AddElement
  <2> HIDE DEF S, T
  <2> QED BY <1>1, <1>3, <1>4, <2>2, <2>3 DEF S, T
<1>5. CASE window[p][d] # NoWindow
  <2>1. p \in S
    BY <1>5 DEF Openers
  <2>2. T = IF window'[p][d] = NoWindow THEN S \ {p} ELSE S
    BY <1>5, NoWindowTyped DEF Openers
  <2>3. Cardinality(S \ {p}) = Cardinality(S) - 1
    BY <1>1, <2>1, FS_RemoveElement
  <2> HIDE DEF S, T
  <2> QED BY <1>1, <1>3, <1>5, <2>2, <2>3 DEF S, T
<1> QED BY <1>4, <1>5

LEMMA KeptInit == QuotaInit => WindowsKept
<1> SUFFICES ASSUME QuotaInit PROVE WindowsKept
  OBVIOUS
<1>1. \A d \in Days : opened[d] <= WindowsOf(d) + outages
  <2> TAKE d \in Days
  <2>1. opened[d] = 0 /\ outages = 0 /\ shared[d] = NoWindow
    BY DEF QuotaInit
  <2>2. Cardinality(Openers(d)) \in Nat
    BY OpenersFinite
  <2> QED BY <2>1, <2>2 DEF WindowsOf
<1>2. /\ \A t \in Requests : serving[t] # "local"
      /\ \A p \in Procs : \A d \in Days : window[p][d] = NoWindow
  BY DEF QuotaInit
<1> QED BY <1>1, <1>2 DEF WindowsKept

\* What is counted in a window is a number, so the window is there afterwards.
LEMMA CountIsNoHole ==
  ASSUME QuotaTyped, QuotaTypeOK, NEW t \in Requests, NEW w \in Nat
  PROVE  /\ Counted(w, t) # NoWindow
         /\ Counted(w, t) < Limit => Counted(w, t) + 1 # NoWindow
<1>1. Limit \in Nat /\ MaxDay \in Nat /\ MaxCalls \in Nat
  BY QuotaIsNat
<1>2. Counted(w, t) \in Nat
  BY CountedTyped
<1>3. seed[t] \in Nat /\ seed[t] <= MaxCalls
  BY <1>1 DEF QuotaTypeOK
<1>4. NoWindow > MaxCalls /\ NoWindow > Limit
  BY <1>1 DEF NoWindow
<1>5. Counted(w, t) # NoWindow
  BY <1>1, <1>3, <1>4 DEF Counted
<1> QED BY <1>1, <1>2, <1>4, <1>5

LEMMA KeptStep ==
  QuotaTyped /\ QuotaTyped' /\ QuotaTypeOK /\ WindowsKept /\ [QuotaNext]_quotaVars => WindowsKept'
<1> SUFFICES ASSUME QuotaTyped, QuotaTyped', QuotaTypeOK, WindowsKept, [QuotaNext]_quotaVars
             PROVE  WindowsKept'
  OBVIOUS
<1> DEFINE NoneLocal == \A t \in Requests : serving[t] # "local"
           NoneOpen == \A p \in Procs : \A d \in Days : window[p][d] = NoWindow
           OnTheBooks(d) == opened[d] <= WindowsOf(d) + outages
<1>s. required' = required
  BY SettingKept
<1>t. \A t \in Requests : Home[t] \in Procs /\ day[t] \in Days
  BY ProcessesFinite DEF QuotaTyped
<1>n. /\ \A d \in Days : Cardinality(Openers(d)) \in Nat /\ Cardinality(Openers(d))' \in Nat
      /\ \A d \in Days : opened[d] \in Nat /\ opened'[d] \in Nat
      /\ outages \in Nat /\ outages' \in Nat
  <2>1. \A d \in Days : Cardinality(Openers(d))' \in Nat
    <3> TAKE d \in Days
    <3>1. Openers(d)' \subseteq Procs /\ IsFiniteSet(Procs)
      BY ProcessesFinite DEF Openers
    <3> QED BY <3>1, FS_Subset, FS_CardinalityType
  <2> QED BY <2>1, OpenersFinite DEF QuotaTyped
<1>h. (\A d \in Days : OnTheBooks(d)) /\ (required => NoneLocal /\ NoneOpen)
  BY DEF WindowsKept
<1>q. SUFFICES (\A d \in Days : OnTheBooks(d)') /\ (required => NoneLocal' /\ NoneOpen')
  BY <1>s DEF WindowsKept
<1>u. ASSUME UNCHANGED <<shared, window, opened, outages>> PROVE \A d \in Days : OnTheBooks(d)'
  BY <1>h, <1>u DEF WindowsOf, Openers
<1>1. ASSUME UNCHANGED <<shared, window, opened, outages>>,
             required => \A t \in Requests : serving'[t] = "local" => serving[t] = "local"
      PROVE  (\A d \in Days : OnTheBooks(d)') /\ (required => NoneLocal' /\ NoneOpen')
  BY <1>h, <1>u, <1>1
<1>2. ASSUME NEW t \in Requests, EvalShared(t) \/ SharedFails(t)
      PROVE  (\A d \in Days : OnTheBooks(d)') /\ (required => NoneLocal' /\ NoneOpen')
  <2> DEFINE w == shared[day[t]]
             n == shared'[day[t]]
  <2>1. UNCHANGED <<window, outages>>
    BY <1>2 DEF EvalShared, SharedFails
  <2>2. w \in Nat /\ n \in Nat /\ shared \in [Days -> Nat] /\ day[t] \in Days
    BY <1>t DEF QuotaTyped
  <2>3. \/ UNCHANGED <<shared, opened>>
        \/ /\ Opens(w, t)
           /\ \A e \in Days : e # day[t] => shared'[e] = shared[e]
           /\ n = Counted(w, t) \/ (Counted(w, t) < Limit /\ n = Counted(w, t) + 1)
    BY <1>2, ScriptTyped DEF EvalShared, SharedFails
  <2>4. required => \A s \in Requests : serving'[s] = "local" => serving[s] = "local"
    <3>1. CASE EvalShared(t)
      BY <3>1 DEF EvalShared, Refuse, Allow, QuotaTyped
    <3>2. CASE SharedFails(t)
      <4>1. required => serving'[t] = "idle"
        BY <3>2, FallsBack DEF SharedFails
      <4>2. \A u \in Requests : u # t => serving'[u] = serving[u]
        BY <3>2, FallsBack DEF SharedFails
      <4> QED BY <4>1, <4>2
    <3> QED BY <1>2, <3>1, <3>2
  <2>5. \A d \in Days : Openers(d)' = Openers(d)
    BY <2>1 DEF Openers
  <2>6. ASSUME NEW d \in Days PROVE OnTheBooks(d)'
    <3>1. CASE UNCHANGED <<shared, opened>>
      BY <1>h, <2>1, <3>1, <2>5 DEF WindowsOf
    <3>2. CASE /\ Opens(w, t)
               /\ \A e \in Days : e # day[t] => shared'[e] = shared[e]
               /\ n = Counted(w, t) \/ (Counted(w, t) < Limit /\ n = Counted(w, t) + 1)
      <4>1. n # NoWindow
        BY <2>2, <3>2, CountIsNoHole
      <4>2. opened'[d] = IF w = NoWindow /\ d = day[t] THEN opened[d] + 1 ELSE opened[d]
        BY <2>2, <3>2 DEF Opens, QuotaTyped
      <4>3. OnTheBooks(d)
        BY <1>h
      <4> QED BY <1>n, <2>1, <2>5, <3>2, <4>1, <4>2, <4>3 DEF WindowsOf
    <3> QED BY <2>3, <3>1, <3>2
  <2> HIDE DEF OnTheBooks
  <2> QED BY <1>h, <2>1, <2>4, <2>6
<1>3. ASSUME NEW t \in Requests, CheckLocal(t)
      PROVE  (\A d \in Days : OnTheBooks(d)') /\ (required => NoneLocal' /\ NoneOpen')
  <2> DEFINE p == Home[t]
             w == window[p][day[t]]
             n == window'[p][day[t]]
  <2>1. UNCHANGED <<shared, outages>> /\ serving[t] = "local"
    BY <1>3 DEF CheckLocal
  <2>2. p \in Procs /\ w \in Nat /\ n \in Nat /\ window \in [Procs -> [Days -> Nat]] /\ day[t] \in Days
    BY <1>t DEF QuotaTyped
  <2>3. \/ UNCHANGED <<window, opened>>
        \/ /\ Opens(w, t)
           /\ \A q \in Procs : \A e \in Days : q # p \/ e # day[t] => window'[q][e] = window[q][e]
           /\ n = Counted(w, t) \/ (Counted(w, t) < Limit /\ n = Counted(w, t) + 1)
    <3>1. Counted(w, t) \in Nat /\ Counted(w, t) + 1 \in Nat
      BY <2>2, CountedTyped
    <3>2. \A m \in Nat : window' = [window EXCEPT ![p][day[t]] = m] =>
             n = m /\ \A q \in Procs : \A e \in Days : q # p \/ e # day[t] => window'[q][e] = window[q][e]
      BY <2>2, CountSet
    <3>3. \/ UNCHANGED <<window, opened>>
          \/ /\ Opens(w, t)
             /\ \/ window' = [window EXCEPT ![p][day[t]] = Counted(w, t)]
                \/ /\ Counted(w, t) < Limit
                   /\ window' = [window EXCEPT ![p][day[t]] = Counted(w, t) + 1]
      BY <1>3 DEF CheckLocal
    <3>4. CASE UNCHANGED <<window, opened>>
      BY <3>4
    <3>5. CASE Opens(w, t) /\ window' = [window EXCEPT ![p][day[t]] = Counted(w, t)]
      <4>1. n = Counted(w, t)
            /\ \A q \in Procs : \A e \in Days : q # p \/ e # day[t] => window'[q][e] = window[q][e]
        BY <3>1, <3>2, <3>5
      <4> QED BY <3>5, <4>1
    <3>6. CASE /\ Opens(w, t) /\ Counted(w, t) < Limit
               /\ window' = [window EXCEPT ![p][day[t]] = Counted(w, t) + 1]
      <4>1. n = Counted(w, t) + 1
            /\ \A q \in Procs : \A e \in Days : q # p \/ e # day[t] => window'[q][e] = window[q][e]
        BY <3>1, <3>2, <3>6
      <4> QED BY <3>6, <4>1
    <3> QED BY <3>3, <3>4, <3>5, <3>6
  <2>4. ~required
    BY <1>h, <2>1
  <2>5. ASSUME NEW d \in Days PROVE OnTheBooks(d)'
    <3>1. CASE UNCHANGED <<window, opened>>
      BY <1>h, <2>1, <3>1 DEF WindowsOf, Openers
    <3>2. CASE /\ Opens(w, t)
               /\ \A q \in Procs : \A e \in Days : q # p \/ e # day[t] => window'[q][e] = window[q][e]
               /\ n = Counted(w, t) \/ (Counted(w, t) < Limit /\ n = Counted(w, t) + 1)
      <4>1. n # NoWindow
        BY <2>2, <3>2, CountIsNoHole
      <4>2. opened'[d] = IF w = NoWindow /\ d = day[t] THEN opened[d] + 1 ELSE opened[d]
        BY <2>2, <3>2 DEF Opens, QuotaTyped
      <4>3. Cardinality(Openers(d))' = IF w = NoWindow /\ d = day[t]
                                       THEN Cardinality(Openers(d)) + 1 ELSE Cardinality(Openers(d))
        <5>1. CASE d = day[t]
          <6>1. \A q \in Procs : q # p => window'[q][d] = window[q][d]
            BY <3>2
          <6> QED BY <2>2, <4>1, <5>1, <6>1, OpenersStep
        <5>2. CASE d # day[t]
          <6>1. Openers(d)' = Openers(d)
            BY <3>2, <5>2 DEF Openers
          <6> QED BY <5>2, <6>1
        <5> QED BY <5>1, <5>2
      <4>4. OnTheBooks(d)
        BY <1>h
      <4> QED BY <1>n, <2>1, <4>2, <4>3, <4>4 DEF WindowsOf
    <3> QED BY <2>3, <3>1, <3>2
  <2> HIDE DEF OnTheBooks
  <2> QED BY <2>4, <2>5
<1>4. ASSUME NEW t \in Requests, Arrive(t)
      PROVE  (\A d \in Days : OnTheBooks(d)') /\ (required => NoneLocal' /\ NoneOpen')
  <2>1. UNCHANGED <<shared, window, opened, outages>>
    BY <1>4 DEF Arrive
  <2>2. required => \A s \in Requests : serving'[s] = "local" => serving[s] = "local"
    <3>1. CASE ReadSeed(t, "shared") /\ Onwards(t, "shared")
      BY <3>1 DEF Onwards, QuotaTyped
    <3>2. CASE WithoutRedis(t)
      <4>1. required => serving'[t] = "idle"
        BY <3>2, FallsBack
      <4>2. \A u \in Requests : u # t => serving'[u] = serving[u]
        BY <3>2, FallsBack
      <4> QED BY <4>1, <4>2
    <3> QED BY <1>4, <3>1, <3>2 DEF Arrive
  <2> QED BY <1>1, <2>1, <2>2
<1>5. ASSUME NEW p \in Procs, Restart(p)
      PROVE  (\A d \in Days : OnTheBooks(d)') /\ (required => NoneLocal' /\ NoneOpen')
  <2>1. UNCHANGED <<shared, opened>> /\ outages' = outages + 1
    BY <1>5 DEF Restart
  <2>2. window' = [window EXCEPT ![p] = [d \in Days |-> NoWindow]]
    BY <1>5 DEF Restart
  <2>3. \A d \in Days : window'[p][d] = NoWindow /\ \A q \in Procs : q # p => window'[q][d] = window[q][d]
    BY <2>2 DEF QuotaTyped
  <2>4. ASSUME NEW d \in Days PROVE OnTheBooks(d)'
    <3>1. Cardinality(Openers(d)) <= Cardinality(Openers(d))' + 1
      BY <2>3, OpenersStep
    <3>2. OnTheBooks(d)
      BY <1>h
    <3> QED BY <1>n, <2>1, <3>1, <3>2 DEF WindowsOf
  <2>5. \A s \in Requests : serving'[s] = "local" => serving[s] = "local"
    BY <1>5 DEF Restart
  <2>6. NoneOpen => NoneOpen'
    BY <2>3
  <2> HIDE DEF OnTheBooks
  <2> QED BY <1>h, <2>4, <2>5, <2>6
<1>6. CASE LoseShared
  <2>1. UNCHANGED <<window, opened, serving>> /\ outages' = outages + 1
    BY <1>6 DEF LoseShared, Quietly, threadVars
  <2>2. \A d \in Days : Openers(d)' = Openers(d)
    BY <2>1 DEF Openers
  <2>3. ASSUME NEW d \in Days PROVE OnTheBooks(d)'
    <3>1. OnTheBooks(d)
      BY <1>h
    <3> QED BY <1>n, <2>1, <2>2, <3>1 DEF WindowsOf
  <2> HIDE DEF OnTheBooks
  <2> QED BY <1>h, <2>1, <2>3
<1> HIDE DEF OnTheBooks, NoneLocal, NoneOpen
<1> QED
  <2>1. \A t \in Requests : Finish(t) =>
          /\ UNCHANGED <<shared, window, opened, outages>>
          /\ \A s \in Requests : serving'[s] = "local" => serving[s] = "local"
    BY DEF Finish, Onwards, windowVars, QuotaTyped
  <2>2. \A p \in Procs : Take(p) \/ Flush(p) => UNCHANGED <<shared, window, opened, outages, serving>>
    BY DEF Take, Flush, Quietly, windowVars, threadVars
  <2>3. Midnight \/ UNCHANGED quotaVars => UNCHANGED <<shared, window, opened, outages, serving>>
    BY DEF Midnight, Quietly, windowVars, threadVars, quotaVars
  <2> QED BY <1>1, <1>2, <1>3, <1>4, <1>5, <1>6, <2>1, <2>2, <2>3 DEF QuotaNext

\* How many windows a day can have: one in Redis, one of each process where a process
\* may count by itself, and one for each counter or process that was lost.
WindowsAtMost == 1 + outages + (IF required THEN 0 ELSE Cardinality(Procs))

LossesCostAQuota == \A d \in Days : allowed[d] <= Limit * WindowsAtMost

LEMMA LimitTimes == \A m, n \in Nat : m <= n => Limit * m <= Limit * n
<1>1. Limit \in Nat
  BY QuotaIsNat
<1> QED BY <1>1

\* Each loss of the counter in Redis, and each restart, costs at most one more quota of
\* a day; with REDIS_REQUIRED nothing else does, without it each process may add its own.
THEOREM QuotaOverrun == QuotaSpec => []LossesCostAQuota
<1>1. QuotaInit => WindowsKept
  BY KeptInit
<1>2. QuotaInv /\ QuotaInv' /\ QuotaTypeOK /\ WindowsKept /\ [QuotaNext]_quotaVars => WindowsKept'
  BY KeptStep DEF QuotaInv
<1>3. QuotaInv /\ QuotaBounded /\ WindowsKept => LossesCostAQuota
  <2> SUFFICES ASSUME QuotaInv, QuotaBounded, WindowsKept, NEW d \in Days
               PROVE  allowed[d] <= Limit * WindowsAtMost
    BY DEF LossesCostAQuota
  <2>1. QuotaTyped
    BY DEF QuotaInv
  <2>2. /\ opened[d] \in Nat /\ allowed[d] \in Nat /\ outages \in Nat
        /\ opened[d] <= WindowsOf(d) + outages /\ allowed[d] <= Limit * opened[d]
    BY <2>1 DEF QuotaTyped, WindowsKept, QuotaBounded
  <2>3. Cardinality(Openers(d)) \in Nat /\ Cardinality(Openers(d)) <= Cardinality(Procs)
        /\ Cardinality(Procs) \in Nat
    BY OpenersFinite, ProcessesFinite, FS_CardinalityType
  <2>4. required => Cardinality(Openers(d)) = 0
    <3>1. required => Openers(d) = {}
      BY DEF WindowsKept, Openers
    <3> QED BY <3>1, FS_EmptySet
  <2>5. opened[d] <= WindowsAtMost /\ WindowsAtMost \in Nat
    BY <2>2, <2>3, <2>4 DEF WindowsOf, WindowsAtMost
  <2>6. Limit * opened[d] <= Limit * WindowsAtMost
    BY <2>2, <2>5, LimitTimes
  <2>7. Limit * opened[d] \in Nat /\ Limit * WindowsAtMost \in Nat
    BY <2>2, <2>5, OneMore
  <2> QED BY <2>2, <2>6, <2>7
<1> QED BY <1>1, <1>2, <1>3, QuotaInvariant, QuotaKept, QuotaTypeCorrect, PTL DEF QuotaSpec

-----------------------------------------------------------------------------
(* The services side by side. *)

servicesVars == <<part, vars, slotVars, retentionVars, captureVars, memberVars>>

\* A step of one service, or of none, is a step or a stutter of each of them.
LEMMA StepOfEach ==
  ASSUME [ServicesNext]_servicesVars
  PROVE  /\ [Next]_vars /\ [SlotsNext]_slotVars
         /\ [RetentionNext]_retentionVars /\ [CaptureNext]_captureVars
         /\ [MembersNext]_memberVars /\ part' = part
<1>1. CASE ServicesNext
  BY <1>1 DEF ServicesNext
<1>2. CASE UNCHANGED servicesVars
  BY <1>2 DEF servicesVars
<1> QED BY <1>1, <1>2

\* Side by side each service behaves as it does alone: whatever is proved of one of
\* them holds of the behaviours the run explores.
THEOREM ServicesApart ==
  ServicesSpec => Spec /\ SlotsSpec /\ RetentionSpec /\ CaptureSpec /\ MembersSpec
<1>1. ServicesInit =>
        Init /\ SlotsInit /\ RetentionInit /\ CaptureInit /\ MembersInit
  BY DEF ServicesInit
<1>2. [ServicesNext]_servicesVars =>
        /\ [Next]_vars /\ [SlotsNext]_slotVars
        /\ [RetentionNext]_retentionVars /\ [CaptureNext]_captureVars
        /\ [MembersNext]_memberVars
  BY StepOfEach
<1>3. ServicesSpec => ServicesInit /\ [][ServicesNext]_servicesVars
  BY DEF ServicesSpec, servicesVars
<1> QED
  BY <1>1, <1>2, <1>3, PTL
     DEF Spec, SlotsSpec, RetentionSpec, CaptureSpec, MembersSpec

\* The variables of the service a behaviour is about keep their domains.
THEOREM ServicesTypeCorrect == ServicesSpec => []ServicesTypeOK
<1>1. ServicesInit => part \in Parts
  BY DEF ServicesInit
<1>2. part \in Parts /\ [ServicesNext]_servicesVars => (part \in Parts)'
  BY StepOfEach DEF Parts
<1>3. ServicesSpec => ServicesInit /\ [][ServicesNext]_servicesVars
  BY DEF ServicesSpec, servicesVars
<1>4. ServicesSpec => [](part \in Parts)
  BY <1>1, <1>2, <1>3, PTL
<1>5. /\ part \in Parts /\ LockInv /\ SlotsTypeOK /\ RetentionTypeOK
      /\ CaptureInv /\ MembersTypeOK
      => ServicesTypeOK
  BY DEF ServicesTypeOK, LockInv, CaptureInv
<1> QED
  BY <1>4, <1>5, ServicesApart, LockInvariant, SlotsTyped,
     RetentionTypeCorrect, CaptureInvariant, MembersTypeCorrect, PTL
=============================================================================
