--------------------------- MODULE QuerySlotsProofs ---------------------------
(***************************************************************************)
(* For any queries, counters, limits and life of a counter, and any number *)
(* of failing calls and crashes: as long as no query runs for the life of  *)
(* a counter, a counter covers the queries that hold it and keeps its      *)
(* limit; and the counters of a process are exact.                         *)
(***************************************************************************)
EXTENDS QuerySlots, FiniteSetTheorems, TLAPS

Shared(k) == Holders(k, "shared")
LocalOf(p, k) == {q \in Holders(k, "local") : Server[q] = p}

Phases == {"idle", "shared", "acquire", "local"}

Domains ==
    /\ overrun \in BOOLEAN
    /\ slots \in [Counters -> Nat]
    /\ life \in [Counters -> 0..SlotTTL]
    /\ own \in [Servers -> [Counters -> Nat]]
    /\ query \in [Queries -> Phases]
    /\ age \in [Queries -> 0..SlotTTL]

\* No acquisition takes a counter over its limit.
LimitKept == \A k \in Counters : SlotLimit[k] > 0 => slots[k] <= SlotLimit[k]

\* A counter covers its holders; leaked slots only add to it.
SharedCounted == ~overrun => \A k \in Counters : Cardinality(Shared(k)) <= slots[k]

\* A counter outlives its holders until one of them overruns: the last
\* acquisition renewed it, and each holder is at least as old as that.
LifeCovers ==
    ~overrun => \A q \in Queries : query[q] = "shared" => \A k \in CountersOf[q] :
        age[q] < SlotTTL /\ life[k] + age[q] >= SlotTTL

\* A process counts its own queries exactly.
LocalCounted == \A p \in Servers, k \in Counters : own[p][k] = Cardinality(LocalOf(p, k))

Inv == Domains /\ LimitKept /\ SharedCounted /\ LifeCovers /\ LocalCounted

-----------------------------------------------------------------------------
(* Sets of holders. *)

\* There are finitely many holders.
LEMMA SharedFinite ==
  ASSUME SlotConstants, NEW k
  PROVE  IsFiniteSet(Shared(k)) /\ Cardinality(Shared(k)) \in Nat
<1>1. Shared(k) \in SUBSET Queries
  BY DEF Shared, Holders
<1> QED
  BY <1>1, FS_Subset, FS_CardinalityType DEF SlotConstants

\* In a process as well.
LEMMA LocalFinite ==
  ASSUME SlotConstants, NEW p, NEW k
  PROVE  IsFiniteSet(LocalOf(p, k)) /\ Cardinality(LocalOf(p, k)) \in Nat
<1>1. LocalOf(p, k) \in SUBSET Queries
  BY DEF LocalOf, Holders
<1> QED
  BY <1>1, FS_Subset, FS_CardinalityType DEF SlotConstants

\* What the move of one query does to the holders of a counter in Redis.
LEMMA MoveShared ==
  ASSUME Domains, NEW q \in Queries, NEW s, Moves(q, s), NEW k
  PROVE  Shared(k)' = IF s = "shared" /\ k \in CountersOf[q] THEN Shared(k) \cup {q}
                      ELSE Shared(k) \ {q}
  BY DEF Moves, Domains, Shared, Holders

\* A query that has no slot and gets none changes nothing.
LEMMA MoveElsewhere ==
  ASSUME Domains, NEW q \in Queries, NEW s, Moves(q, s), NEW k, q \notin Shared(k),
         s # "shared" \/ k \notin CountersOf[q]
  PROVE  Shared(k)' = Shared(k)
<1>1. Shared(k)' = Shared(k) \ {q}
  BY MoveShared
<1> QED BY <1>1

\* And to the holders of a counter of a process.
LEMMA MoveLocal ==
  ASSUME Domains, NEW q \in Queries, NEW s, Moves(q, s), NEW k, NEW p
  PROVE  LocalOf(p, k)' = IF s = "local" /\ k \in CountersOf[q] /\ Server[q] = p
                          THEN LocalOf(p, k) \cup {q} ELSE LocalOf(p, k) \ {q}
  BY DEF Moves, Domains, LocalOf, Holders

\* The sets of local holders depend on the local queries only.
LEMMA SameLocal ==
  ASSUME Domains, NEW q \in Queries, NEW s, Moves(q, s), query[q] # "local", s # "local",
         UNCHANGED own, LocalCounted
  PROVE  LocalCounted'
<1>1. ASSUME NEW p, NEW k PROVE LocalOf(p, k)' = LocalOf(p, k)
  <2>1. q \notin LocalOf(p, k)
    BY DEF LocalOf, Holders
  <2> QED
    BY <2>1, MoveLocal
<1> QED
  BY <1>1 DEF LocalCounted

-----------------------------------------------------------------------------
(* The steps. *)

\* An acquisition in Redis counts its caller and renews the counters.
LEMMA AcquireKeeps ==
  ASSUME SlotConstants, Inv, NEW q \in Queries, AcquireSlot(q)
  PROVE  Inv'
<1> USE DEF SlotConstants, Inv, AcquireSlot, Count
<1>1. CountersOf[q] \subseteq Counters /\ query[q] = "idle" /\ Moves(q, "shared")
  OBVIOUS
<1>2. /\ slots' \in [Counters -> Nat] /\ life' \in [Counters -> 0..SlotTTL]
      /\ \A k \in Counters : slots'[k] = IF k \in CountersOf[q] THEN slots[k] + 1 ELSE slots[k]
      /\ \A k \in Counters : life'[k] = IF k \in CountersOf[q] THEN SlotTTL ELSE life[k]
  BY DEF Plus, Renewed, Domains
<1>3. Domains'
  BY <1>2 DEF Domains, Moves, Phases
<1>4. LimitKept'
  BY <1>2 DEF LimitKept, HasRoom, Domains
<1>5. SharedCounted'
  <2> SUFFICES ASSUME ~overrun, NEW k \in Counters
               PROVE  Cardinality(Shared(k)') <= slots'[k]
    BY DEF SharedCounted
  <2>1. Cardinality(Shared(k)) <= slots[k] /\ Cardinality(Shared(k)) \in Nat
    BY SharedFinite DEF SharedCounted
  <2>2. q \notin Shared(k)
    BY <1>1 DEF Shared, Holders
  <2>3. CASE k \in CountersOf[q]
    <3>1. Shared(k)' = Shared(k) \cup {q}
      BY <1>1, <2>3, MoveShared
    <3>2. Cardinality(Shared(k)') = Cardinality(Shared(k)) + 1
      BY <2>2, <3>1, SharedFinite, FS_AddElement
    <3> QED
      BY <1>2, <2>1, <2>3, <3>2 DEF Domains
  <2>4. CASE k \notin CountersOf[q]
    <3>1. Shared(k)' = Shared(k)
      BY <1>1, <2>2, <2>4, MoveElsewhere
    <3> QED
      BY <1>2, <2>1, <2>4, <3>1
  <2> QED
    BY <2>3, <2>4
<1>6. LifeCovers'
  <2> SUFFICES ASSUME ~overrun, NEW u \in Queries, query'[u] = "shared", NEW k \in CountersOf[u]
               PROVE  age'[u] < SlotTTL /\ life'[k] + age'[u] >= SlotTTL
    BY DEF LifeCovers
  <2>1. k \in Counters
    OBVIOUS
  <2>2. CASE u = q
    BY <1>2, <2>1, <2>2 DEF Domains
  <2>3. CASE u # q
    <3>1. age'[u] = age[u] /\ query[u] = "shared"
      BY <2>3 DEF Domains, Moves
    <3>2. age[u] < SlotTTL /\ life[k] + age[u] >= SlotTTL
      BY <3>1 DEF LifeCovers
    <3> QED
      BY <1>2, <2>1, <3>1, <3>2 DEF Domains
  <2> QED
    BY <2>2, <2>3
<1>7. LocalCounted'
  BY <1>1, SameLocal
<1> QED
  BY <1>3, <1>4, <1>5, <1>6, <1>7

\* A call that fails may leave counted slots behind that nobody holds.
LEMMA AcquireFailsKeeps ==
  ASSUME SlotConstants, Inv, NEW q \in Queries, AcquireFails(q)
  PROVE  Inv'
<1> USE DEF SlotConstants, Inv, AcquireFails, Count
<1>1. CountersOf[q] \subseteq Counters /\ query[q] = "idle"
  OBVIOUS
<1>2. /\ slots' \in [Counters -> Nat] /\ life' \in [Counters -> 0..SlotTTL]
      /\ \A k \in Counters : slots[k] <= slots'[k] /\ life[k] <= life'[k]
  BY DEF Plus, Renewed, Domains
<1>3. LimitKept'
  BY DEF LimitKept, HasRoom, Domains, Plus
<1>4. \E s \in {"idle", "acquire"} : Moves(q, s)
  <2>1. query = [query EXCEPT ![q] = "idle"]
    BY <1>1 DEF Domains
  <2> QED
    BY <2>1 DEF Moves
<1>5. Domains'
  BY <1>2, <1>4 DEF Domains, Moves, Phases
<1>6. \A k : Shared(k)' = Shared(k)
  <2>1. PICK s \in {"idle", "acquire"} : Moves(q, s)
    BY <1>4
  <2> SUFFICES ASSUME NEW k PROVE Shared(k)' = Shared(k)
    OBVIOUS
  <2>2. Domains /\ q \notin Shared(k) /\ s # "shared"
    BY <1>1 DEF Shared, Holders
  <2> HIDE DEF SlotConstants, Inv, AcquireFails, Count
  <2> QED
    BY <2>1, <2>2, MoveElsewhere
<1>7. SharedCounted'
  <2> SUFFICES ASSUME ~overrun, NEW k \in Counters
               PROVE  Cardinality(Shared(k)) <= slots'[k]
    BY <1>6 DEF SharedCounted
  <2>1. Cardinality(Shared(k)) <= slots[k] /\ Cardinality(Shared(k)) \in Nat
    BY SharedFinite DEF SharedCounted
  <2> QED
    BY <1>2, <2>1 DEF Domains
<1>8. LifeCovers'
  <2> SUFFICES ASSUME ~overrun, NEW u \in Queries, query'[u] = "shared", NEW k \in CountersOf[u]
               PROVE  age[u] < SlotTTL /\ life'[k] + age[u] >= SlotTTL
    BY DEF LifeCovers
  <2>1. k \in Counters /\ query[u] = "shared"
    BY <1>4 DEF Moves, Domains
  <2>2. age[u] < SlotTTL /\ life[k] + age[u] >= SlotTTL
    BY <2>1 DEF LifeCovers
  <2> QED
    BY <1>2, <2>1, <2>2 DEF Domains
<1>9. LocalCounted'
  BY <1>1, <1>4, SameLocal
<1> QED
  BY <1>3, <1>5, <1>7, <1>8, <1>9

\* A local acquisition counts its caller in its process and in no other.
LEMMA AcquireLocalKeeps ==
  ASSUME SlotConstants, Inv, NEW q \in Queries, AcquireLocal(q)
  PROVE  Inv'
<1> DEFINE p == Server[q]
<1> USE DEF SlotConstants, Inv
<1>1. CountersOf[q] \subseteq Counters /\ query[q] = "acquire" /\ p \in Servers
      /\ UNCHANGED <<slots, life, overrun>>
  BY DEF AcquireLocal, Servers
<1>2. PICK s \in {"local", "idle"} : Moves(q, s)
  BY DEF AcquireLocal
<1>3. \A k : Shared(k)' = Shared(k)
  <2>1. \A k : q \notin Shared(k)
    BY <1>1 DEF Shared, Holders
  <2> QED
    BY <1>2, <2>1, MoveElsewhere
<1>4. LimitKept' /\ SharedCounted'
  BY <1>1, <1>3 DEF LimitKept, SharedCounted
<1>5. Domains'
  <2>1. Plus(q, own[p]) \in [Counters -> Nat]
    BY <1>1 DEF Plus, Domains
  <2>2. own' \in [Servers -> [Counters -> Nat]] /\ age' \in [Queries -> 0..SlotTTL]
    <3>1. \/ own' = [own EXCEPT ![p] = Plus(q, own[p])] /\ age' = [age EXCEPT ![q] = 0]
          \/ UNCHANGED <<own, age>>
      BY DEF AcquireLocal
    <3>2. age' \in [Queries -> 0..SlotTTL]
      BY <3>1 DEF Domains
    <3>3. own' \in [Servers -> [Counters -> Nat]]
      BY <1>1, <2>1, <3>1 DEF Domains
    <3> QED
      BY <3>2, <3>3
  <2> QED
    BY <1>1, <1>2, <2>2 DEF Domains, Moves, Phases
<1>6. LifeCovers'
  <2>1. \A u \in Queries : query'[u] = "shared" => query[u] = "shared" /\ age'[u] = age[u]
    BY <1>1 DEF AcquireLocal, Moves, Domains
  <2> QED
    BY <1>1, <2>1 DEF LifeCovers
<1>7. LocalCounted'
  <2>1. CASE ~HasRoom(q, own[p]) /\ Moves(q, "idle") /\ UNCHANGED <<own, age>>
    BY <1>1, <2>1, SameLocal
  <2>2. CASE own' = [own EXCEPT ![p] = Plus(q, own[p])] /\ Moves(q, "local")
    <3> SUFFICES ASSUME NEW r \in Servers, NEW k \in Counters
                 PROVE  own'[r][k] = Cardinality(LocalOf(r, k)')
      BY DEF LocalCounted
    <3>1. own[r][k] = Cardinality(LocalOf(r, k)) /\ q \notin LocalOf(r, k)
      BY <1>1 DEF LocalCounted, LocalOf, Holders
    <3>2. CASE r = p /\ k \in CountersOf[q]
      <4>1. Cardinality(LocalOf(r, k)') = Cardinality(LocalOf(r, k)) + 1
        <5>1. LocalOf(r, k)' = LocalOf(r, k) \cup {q}
          BY <2>2, <3>2, MoveLocal
        <5> QED
          BY <3>1, <5>1, LocalFinite, FS_AddElement
      <4>2. own'[r][k] = own[r][k] + 1
        BY <1>1, <2>2, <3>2 DEF Plus, Domains
      <4> QED
        BY <3>1, <4>1, <4>2
    <3>3. CASE ~(r = p /\ k \in CountersOf[q])
      <4>1. LocalOf(r, k)' = LocalOf(r, k)
        BY <2>2, <3>1, <3>3, MoveLocal
      <4>2. own'[r][k] = own[r][k]
        BY <1>1, <2>2, <3>3 DEF Plus, Domains
      <4> QED
        BY <3>1, <4>1, <4>2
    <3> QED
      BY <3>2, <3>3
  <2> QED
    BY <2>1, <2>2 DEF AcquireLocal
<1> QED
  BY <1>4, <1>5, <1>6, <1>7

\* A release takes its caller out of the counters; a counter that is deleted
\* had no other holder.
LEMMA ReleaseKeeps ==
  ASSUME SlotConstants, Inv, NEW q \in Queries, ReleaseSlot(q)
  PROVE  Inv'
<1> USE DEF SlotConstants, Inv, ReleaseSlot, Uncount
<1>1. CountersOf[q] \subseteq Counters /\ query[q] = "shared" /\ Moves(q, "idle")
  OBVIOUS
<1>2. /\ slots' \in [Counters -> Nat] /\ life' \in [Counters -> 0..SlotTTL]
      /\ \A k \in Counters : slots'[k] = IF k \in CountersOf[q] /\ slots[k] > 0 THEN slots[k] - 1 ELSE slots[k]
      /\ \A k \in Counters : life'[k] = IF slots'[k] = 0 THEN 0 ELSE life[k]
  BY DEF Minus, Domains
<1>3. Domains'
  BY <1>2 DEF Domains, Moves, Phases
<1>4. LimitKept'
  BY <1>2 DEF LimitKept, Domains
<1>5. SharedCounted'
  <2> SUFFICES ASSUME ~overrun, NEW k \in Counters
               PROVE  Cardinality(Shared(k)') <= slots'[k]
    BY DEF SharedCounted
  <2>1. Cardinality(Shared(k)) <= slots[k] /\ Cardinality(Shared(k)) \in Nat
    BY SharedFinite DEF SharedCounted
  <2>2. Shared(k)' = Shared(k) \ {q}
    BY <1>1, MoveShared
  <2>3. CASE k \in CountersOf[q]
    <3>1. q \in Shared(k)
      BY <1>1, <2>3 DEF Shared, Holders
    <3>2. Cardinality(Shared(k)') = Cardinality(Shared(k)) - 1
      BY <2>2, <3>1, SharedFinite, FS_RemoveElement
    <3>3. Cardinality(Shared(k)) # 0
      BY <3>1, SharedFinite, FS_EmptySet
    <3> QED
      BY <1>2, <2>1, <2>3, <3>2, <3>3 DEF Domains
  <2>4. CASE k \notin CountersOf[q]
    <3>1. q \notin Shared(k)
      BY <2>4 DEF Shared, Holders
    <3> QED
      BY <1>2, <2>1, <2>2, <2>4, <3>1
  <2> QED
    BY <2>3, <2>4
<1>6. LifeCovers'
  <2> SUFFICES ASSUME ~overrun, NEW u \in Queries, query'[u] = "shared", NEW k \in CountersOf[u]
               PROVE  age[u] < SlotTTL /\ life'[k] + age[u] >= SlotTTL
    BY DEF LifeCovers
  <2>1. k \in Counters /\ query[u] = "shared"
    BY <1>1 DEF Moves, Domains
  <2>2. age[u] < SlotTTL /\ life[k] + age[u] >= SlotTTL
    BY <2>1 DEF LifeCovers
  <2>3. u \in Shared(k)'
    BY DEF Shared, Holders
  <2>4. /\ IsFiniteSet(Shared(k)') /\ Cardinality(Shared(k)') \in Nat
    <3>1. Shared(k)' = Shared(k) \ {q}
      BY <1>1, MoveShared
    <3>2. IsFiniteSet(Shared(k)')
      BY <3>1, SharedFinite, FS_RemoveElement
    <3> QED
      BY <3>2, FS_CardinalityType
  <2>5. Cardinality(Shared(k)') # 0
    BY <2>3, <2>4, FS_EmptySet
  <2>6. slots'[k] # 0
    BY <1>2, <1>5, <2>1, <2>4, <2>5 DEF SharedCounted
  <2> QED
    BY <1>2, <2>1, <2>2, <2>6
<1>7. LocalCounted'
  BY <1>1, SameLocal
<1> QED
  BY <1>3, <1>4, <1>5, <1>6, <1>7

\* A release that fails leaves its slot counted.
LEMMA ReleaseFailsKeeps ==
  ASSUME SlotConstants, Inv, NEW q \in Queries, ReleaseFails(q)
  PROVE  Inv'
<1> USE DEF SlotConstants, Inv, ReleaseFails
<1>1. query[q] = "shared" /\ Moves(q, "idle")
  OBVIOUS
<1>2. Domains' /\ LimitKept'
  BY DEF Domains, LimitKept, Moves, Phases
<1>3. SharedCounted'
  <2> SUFFICES ASSUME ~overrun, NEW k \in Counters
               PROVE  Cardinality(Shared(k)') <= slots[k]
    BY DEF SharedCounted
  <2>1. Shared(k)' = Shared(k) \ {q}
    BY <1>1, MoveShared
  <2>2. Cardinality(Shared(k)) <= slots[k] /\ Cardinality(Shared(k)) \in Nat
    BY SharedFinite DEF SharedCounted
  <2>3. Cardinality(Shared(k)') \in Nat /\ Cardinality(Shared(k)') <= Cardinality(Shared(k))
    BY <2>1, SharedFinite, FS_Subset, FS_CardinalityType
  <2> QED
    BY <2>2, <2>3 DEF Domains
<1>4. LifeCovers'
  BY DEF LifeCovers, Moves, Domains
<1>5. LocalCounted'
  BY <1>1, SameLocal
<1> QED
  BY <1>2, <1>3, <1>4, <1>5

\* A local release takes its caller out of the counters of its process.
LEMMA ReleaseLocalKeeps ==
  ASSUME SlotConstants, Inv, NEW q \in Queries, ReleaseLocal(q)
  PROVE  Inv'
<1> DEFINE p == Server[q]
<1> USE DEF SlotConstants, Inv
<1>1. /\ CountersOf[q] \subseteq Counters /\ query[q] = "local" /\ p \in Servers
      /\ own' = [own EXCEPT ![p] = Minus(q, own[p])]
      /\ Moves(q, "idle")
      /\ UNCHANGED <<slots, life, age, overrun>>
  BY DEF ReleaseLocal, Servers
<1>2. \A k : Shared(k)' = Shared(k)
  <2>1. \A k : q \notin Shared(k)
    BY <1>1 DEF Shared, Holders
  <2> QED
    BY <1>1, <2>1, MoveElsewhere
<1>3. LimitKept' /\ SharedCounted'
  BY <1>1, <1>2 DEF LimitKept, SharedCounted
<1>4. Domains'
  <2>1. Minus(q, own[p]) \in [Counters -> Nat]
    BY <1>1 DEF Minus, Domains
  <2> QED
    BY <1>1, <2>1 DEF Domains, Moves, Phases
<1>5. LifeCovers'
  BY <1>1 DEF LifeCovers, Moves, Domains
<1>6. LocalCounted'
  <2> SUFFICES ASSUME NEW r \in Servers, NEW k \in Counters
               PROVE  own'[r][k] = Cardinality(LocalOf(r, k)')
    BY DEF LocalCounted
  <2>1. own[r][k] = Cardinality(LocalOf(r, k)) /\ LocalOf(r, k)' = LocalOf(r, k) \ {q}
    BY <1>1, MoveLocal DEF LocalCounted
  <2>2. CASE r = p /\ k \in CountersOf[q]
    <3>1. q \in LocalOf(r, k)
      BY <1>1, <2>2 DEF LocalOf, Holders
    <3>2. Cardinality(LocalOf(r, k)') = Cardinality(LocalOf(r, k)) - 1
      BY <2>1, <3>1, LocalFinite, FS_RemoveElement
    <3>3. own[r][k] > 0
      BY <2>1, <3>1, LocalFinite, FS_EmptySet
    <3>4. own'[r][k] = own[r][k] - 1
      BY <1>1, <2>2, <3>3 DEF Minus, Domains
    <3> QED
      BY <2>1, <3>2, <3>4
  <2>3. CASE ~(r = p /\ k \in CountersOf[q])
    <3>1. q \notin LocalOf(r, k)
      BY <2>3 DEF LocalOf, Holders
    <3>2. own'[r][k] = own[r][k]
      BY <1>1, <2>3 DEF Minus, Domains
    <3> QED
      BY <2>1, <3>1, <3>2
  <2> QED
    BY <2>2, <2>3
<1> QED
  BY <1>3, <1>4, <1>5, <1>6

\* A crash empties the counters of its process and leaves those of Redis.
LEMMA CrashKeeps ==
  ASSUME SlotConstants, Inv, NEW p \in Servers, ServerDies(p)
  PROVE  Inv'
<1> USE DEF SlotConstants, Inv
<1>1. /\ own' = [own EXCEPT ![p] = [k \in Counters |-> 0]]
      /\ query' = [q \in Queries |-> IF Server[q] = p THEN "idle" ELSE query[q]]
      /\ UNCHANGED <<slots, life, age, overrun>>
  BY DEF ServerDies
<1>2. Domains' /\ LimitKept'
  BY <1>1 DEF Domains, LimitKept, Phases
<1>3. SharedCounted'
  <2> SUFFICES ASSUME ~overrun, NEW k \in Counters
               PROVE  Cardinality(Shared(k)') <= slots[k]
    BY <1>1 DEF SharedCounted
  <2>1. Shared(k)' \in SUBSET Shared(k)
    BY <1>1 DEF Shared, Holders
  <2>2. Cardinality(Shared(k)) <= slots[k] /\ Cardinality(Shared(k)) \in Nat
    BY SharedFinite DEF SharedCounted
  <2>3. Cardinality(Shared(k)') \in Nat /\ Cardinality(Shared(k)') <= Cardinality(Shared(k))
    BY <2>1, SharedFinite, FS_Subset, FS_CardinalityType
  <2> QED
    BY <2>2, <2>3 DEF Domains
<1>4. LifeCovers'
  BY <1>1 DEF LifeCovers, Domains
<1>5. LocalCounted'
  <2> SUFFICES ASSUME NEW r \in Servers, NEW k \in Counters
               PROVE  own'[r][k] = Cardinality(LocalOf(r, k)')
    BY DEF LocalCounted
  <2>1. CASE r = p
    <3>1. LocalOf(r, k)' = {}
      BY <1>1, <2>1 DEF LocalOf, Holders
    <3> QED
      BY <1>1, <2>1, <3>1, FS_EmptySet DEF Domains
  <2>2. CASE r # p
    <3>1. LocalOf(r, k)' = LocalOf(r, k)
      BY <1>1, <2>2 DEF LocalOf, Holders
    <3> QED
      BY <1>1, <2>2, <3>1 DEF Domains, LocalCounted
  <2> QED
    BY <2>1, <2>2
<1> QED
  BY <1>2, <1>3, <1>4, <1>5

\* A counter expires only when its last acquisition is a life ago; whoever
\* still holds it has overrun by then.
LEMMA TickKeeps ==
  ASSUME SlotConstants, Inv, Tick
  PROVE  Inv'
<1> USE DEF SlotConstants, Inv
<1>1. /\ \A k \in Counters : life'[k] = IF life[k] > 0 THEN life[k] - 1 ELSE 0
      /\ \A k \in Counters : slots'[k] = IF life[k] <= 1 THEN 0 ELSE slots[k]
      /\ \A q \in Queries :
            age'[q] = IF Running(q) /\ age[q] < SlotTTL THEN age[q] + 1 ELSE age[q]
      /\ UNCHANGED <<own, query>>
  BY DEF Tick
<1>2. Domains'
  BY DEF Tick, Domains
<1>3. LimitKept'
  BY <1>1 DEF LimitKept, Domains
<1>4. ~overrun' => ~overrun /\ \A q \in Queries : query[q] = "shared" => age'[q] # SlotTTL
  BY DEF Tick, Running
<1>5. LifeCovers'
  <2> SUFFICES ASSUME ~overrun', NEW q \in Queries, query[q] = "shared", NEW k \in CountersOf[q]
               PROVE  age'[q] < SlotTTL /\ life'[k] + age'[q] >= SlotTTL
    BY <1>1 DEF LifeCovers
  <2>1. age[q] < SlotTTL /\ life[k] + age[q] >= SlotTTL /\ k \in Counters
    BY <1>4 DEF LifeCovers
  <2>2. age'[q] = age[q] + 1 /\ age'[q] # SlotTTL
    BY <1>1, <1>4, <2>1 DEF Running
  <2>3. life[k] \in Nat /\ age[q] \in Nat
    BY <2>1 DEF Domains
  <2>4. life'[k] = life[k] - 1
    BY <1>1, <2>1, <2>3
  <2> QED
    BY <2>1, <2>2, <2>3, <2>4
<1>6. SharedCounted'
  <2> SUFFICES ASSUME ~overrun', NEW k \in Counters
               PROVE  Cardinality(Shared(k)) <= slots'[k]
    <3>1. \A k \in Counters : Shared(k)' = Shared(k)
      BY <1>1 DEF Shared, Holders
    <3> QED
      BY <3>1 DEF SharedCounted
  <2>1. Cardinality(Shared(k)) <= slots[k]
    BY <1>4 DEF SharedCounted
  <2>2. CASE Shared(k) = {}
    BY <1>2, <2>2, FS_EmptySet DEF Domains
  <2>3. ASSUME NEW q \in Shared(k)
        PROVE  slots'[k] = slots[k]
    <3>1. q \in Queries /\ query[q] = "shared" /\ k \in CountersOf[q]
      BY DEF Shared, Holders
    <3>2. age[q] < SlotTTL /\ life[k] + age[q] >= SlotTTL
      BY <1>4, <3>1 DEF LifeCovers
    <3>3. age[q] + 1 # SlotTTL
      BY <1>1, <1>4, <3>1, <3>2 DEF Running
    <3>4. life[k] \in Nat /\ age[q] \in Nat
      BY <3>1 DEF Domains
    <3>5. life[k] > 1
      BY <3>2, <3>3, <3>4
    <3> QED
      BY <1>1, <3>4, <3>5
  <2> QED
    BY <2>1, <2>2, <2>3
<1>7. LocalCounted'
  BY <1>1 DEF LocalCounted, LocalOf, Holders
<1> QED
  BY <1>2, <1>3, <1>5, <1>6, <1>7

-----------------------------------------------------------------------------
(* The theorems. *)

\* No slot is counted and no query runs in the first state.
LEMMA InitKeeps == ASSUME SlotConstants, SlotsInit PROVE Inv
<1> USE DEF SlotConstants, SlotsInit
<1>1. Domains
  <2>1. overrun \in BOOLEAN /\ own \in [Servers -> [Counters -> Nat]]
    OBVIOUS
  <2>2. slots \in [Counters -> Nat] /\ life \in [Counters -> 0..SlotTTL]
    OBVIOUS
  <2>3. query \in [Queries -> Phases] /\ age \in [Queries -> 0..SlotTTL]
    BY DEF Phases
  <2> QED
    BY <2>1, <2>2, <2>3 DEF Domains
<1>2. LimitKept /\ LifeCovers
  BY DEF LimitKept, LifeCovers
<1>3. \A k : Shared(k) = {}
  BY DEF Shared, Holders
<1>4. \A p, k : LocalOf(p, k) = {}
  BY DEF LocalOf, Holders
<1>5. SharedCounted /\ LocalCounted
  <2>1. Cardinality({}) = 0
    BY FS_EmptySet
  <2>2. SharedCounted
    BY <1>3, <2>1 DEF SharedCounted
  <2>3. \A p \in Servers, k \in Counters : own[p][k] = 0
    OBVIOUS
  <2>4. LocalCounted
    BY <1>4, <2>1, <2>3 DEF LocalCounted
  <2> QED
    BY <2>2, <2>4
<1> QED
  BY <1>1, <1>2, <1>5 DEF Inv

\* The counters in Redis cover their holders, keep their limits and outlive
\* whoever does not overrun; those of a process are exact (request_lease under
\* any failures of Redis, crashes and expiries).
THEOREM SlotsInvariant == SlotsSpec => []Inv
<1> USE SlotsAssumption
<1>1. SlotsInit => Inv
  BY InitKeeps
<1>2. Inv /\ [SlotsNext]_slotVars => Inv'
  <2> SUFFICES ASSUME Inv, [SlotsNext]_slotVars PROVE Inv'
    OBVIOUS
  <2>1. ASSUME NEW q \in Queries, Query(q) PROVE Inv'
    BY <2>1, AcquireKeeps, AcquireFailsKeeps, AcquireLocalKeeps, ReleaseKeeps,
       ReleaseFailsKeeps, ReleaseLocalKeeps DEF Query
  <2>2. CASE UNCHANGED slotVars
    BY <2>2 DEF slotVars, Inv, Domains, LimitKept, SharedCounted, LifeCovers, LocalCounted,
                Shared, LocalOf, Holders
  <2> QED
    BY <2>1, <2>2, CrashKeeps, TickKeeps DEF SlotsNext
<1> QED
  BY <1>1, <1>2, PTL DEF SlotsSpec

\* As long as no query overruns, no limit of concurrent queries is exceeded,
\* and no holder's slot is given away.
THEOREM LimitsKept == SlotsSpec => []SlotsBounded
<1> USE SlotsAssumption
<1>1. Inv => SlotsBounded
  <2> SUFFICES ASSUME Inv PROVE SlotsBounded
    OBVIOUS
  <2>1. ASSUME ~overrun, NEW k \in Counters
        PROVE  /\ SlotLimit[k] > 0 => Cardinality(Holders(k, "shared")) <= SlotLimit[k]
               /\ Cardinality(Holders(k, "shared")) <= slots[k]
    <3>1. Cardinality(Shared(k)) <= slots[k] /\ Cardinality(Shared(k)) \in Nat
      BY <2>1, SharedFinite DEF Inv, SharedCounted
    <3>2. slots[k] \in Nat /\ SlotLimit[k] \in Nat
      BY DEF Inv, Domains, SlotConstants
    <3> QED
      BY <3>1, <3>2 DEF Inv, LimitKept, Shared
  <2>2. \A p \in Servers, k \in Counters :
            own[p][k] = Cardinality({q \in Holders(k, "local") : Server[q] = p})
    BY DEF Inv, LocalCounted, LocalOf
  <2> QED
    BY <2>1, <2>2 DEF SlotsBounded
<1> QED
  BY <1>1, SlotsInvariant, PTL

-----------------------------------------------------------------------------
(* How much can leak. *)

\* What a counter shows beyond its holders was left behind by failing calls and
\* crashes, each of which loses at most one slot of each query.
LeaksCounted ==
    /\ strict \in BOOLEAN /\ leaks \in 0..MaxLeaks
    /\ \A k \in Counters : slots[k] <= Cardinality(Shared(k)) + Cardinality(Queries) * leaks

LEMMA QueriesCounted ==
  ASSUME SlotConstants, NEW q \in Queries
  PROVE  Cardinality(Queries) \in Nat /\ Cardinality(Queries) >= 1
<1>1. IsFiniteSet(Queries) /\ Cardinality(Queries) \in Nat
  BY FS_CardinalityType DEF SlotConstants
<1>2. Cardinality(Queries) # 0
  BY <1>1, FS_EmptySet
<1> QED BY <1>1, <1>2

LEMMA SharedInQueries ==
  ASSUME SlotConstants, NEW k
  PROVE  Cardinality(Shared(k)) <= Cardinality(Queries)
<1>1. Shared(k) \in SUBSET Queries
  BY DEF Shared, Holders
<1> QED BY <1>1, FS_Subset DEF SlotConstants

LEMMA Product ==
  ASSUME NEW n \in Nat, NEW i \in Nat
  PROVE  n * i \in Nat /\ n * (i + 1) = n * i + n
OBVIOUS

\* A failure pays for what it leaves behind, less than one slot of each query.
LEMMA FailurePays ==
  ASSUME SlotConstants, Domains, LeaksCounted, Fail, strict' = strict,
         \A k \in Counters :
             \/ slots'[k] = slots[k]
             \/ slots'[k] = slots[k] + 1 /\ Shared(k)' = Shared(k) /\ Queries # {},
         slots' \in [Counters -> Nat], \A k \in Counters : Shared(k)' \subseteq Shared(k)
  PROVE  LeaksCounted'
<1>1. /\ leaks \in Nat /\ MaxLeaks \in Nat /\ leaks' = leaks + 1 /\ leaks' \in 0..MaxLeaks
      /\ strict' \in BOOLEAN
  BY DEF LeaksCounted, Fail, SlotConstants
<1>2. ASSUME NEW k \in Counters
      PROVE  slots'[k] <= Cardinality(Shared(k)') + Cardinality(Queries) * (leaks + 1)
  <2> DEFINE n == Cardinality(Queries)
             c == Cardinality(Shared(k))
             d == Cardinality(Shared(k)')
  <2>1. /\ n \in Nat /\ c \in Nat /\ c <= n /\ slots[k] <= c + n * leaks
        /\ slots[k] \in Nat /\ slots'[k] \in Nat
    BY SharedFinite, SharedInQueries, FS_CardinalityType DEF SlotConstants, LeaksCounted, Domains
  <2>2. d \in Nat
    <3>1. IsFiniteSet(Shared(k)')
      BY SharedFinite, FS_Subset
    <3> QED BY <3>1, FS_CardinalityType
  <2>3. n * leaks \in Nat /\ n * (leaks + 1) = n * leaks + n
    BY <1>1, <2>1, Product
  <2>4. CASE slots'[k] = slots[k]
    <3> HIDE DEF n, c, d
    <3>1. slots[k] <= d + (n * leaks + n)
      BY <2>1, <2>2, <2>3
    <3> QED BY <2>3, <2>4, <3>1 DEF n, d
  <2>5. CASE slots'[k] = slots[k] + 1 /\ Shared(k)' = Shared(k) /\ Queries # {}
    <3>1. d = c /\ n >= 1
      BY <2>5, QueriesCounted
    <3> HIDE DEF n, c, d
    <3>2. slots'[k] <= d + (n * leaks + n)
      BY <2>1, <2>2, <2>3, <2>5, <3>1
    <3> QED BY <2>3, <3>2 DEF n, d
  <2> QED BY <2>4, <2>5
<1> QED BY <1>1, <1>2 DEF LeaksCounted, Shared, Holders

LEMMA LeaksCountedStep ==
  ASSUME SlotConstants, Inv, Inv', LeaksCounted, [SlotsNext]_slotVars
  PROVE  LeaksCounted'
<1>0. Domains /\ slots \in [Counters -> Nat] /\ slots' \in [Counters -> Nat]
  BY DEF Inv, Domains
<1>1. ASSUME strict' = strict, leaks' = leaks,
             \A k \in Counters : slots'[k] <= Cardinality(Shared(k)') + Cardinality(Queries) * leaks
      PROVE  LeaksCounted'
  BY <1>1 DEF LeaksCounted, Shared, Holders
<1>n. /\ \A k \in Counters : slots[k] \in Nat /\ slots'[k] \in Nat
      /\ \A k : Cardinality(Shared(k)) \in Nat
      /\ Cardinality(Queries) * leaks \in Nat
      /\ \A k \in Counters : slots[k] <= Cardinality(Shared(k)) + Cardinality(Queries) * leaks
  <2>1. Cardinality(Queries) \in Nat /\ leaks \in Nat
    BY FS_CardinalityType DEF SlotConstants, LeaksCounted
  <2> QED BY <1>0, <2>1, SharedFinite, Product DEF LeaksCounted
<1>2. ASSUME NEW q \in Queries, AcquireSlot(q) PROVE LeaksCounted'
  <2> SUFFICES ASSUME NEW k \in Counters
               PROVE  slots'[k] <= Cardinality(Shared(k)') + Cardinality(Queries) * leaks
    BY <1>1, <1>2 DEF AcquireSlot
  <2>1. Moves(q, "shared") /\ q \notin Shared(k)
    BY <1>2 DEF AcquireSlot, Shared, Holders
  <2>2. slots'[k] = IF k \in CountersOf[q] THEN slots[k] + 1 ELSE slots[k]
    BY <1>2 DEF AcquireSlot, Count, Plus
  <2>3. Shared(k)' = IF k \in CountersOf[q] THEN Shared(k) \cup {q} ELSE Shared(k)
    <3>1. k \in CountersOf[q] => Shared(k)' = Shared(k) \cup {q}
      BY <1>0, <2>1, MoveShared
    <3>2. k \notin CountersOf[q] => Shared(k)' = Shared(k)
      BY <1>0, <2>1, MoveElsewhere
    <3> QED BY <3>1, <3>2
  <2>4. Cardinality(Shared(k)') = IF k \in CountersOf[q] THEN Cardinality(Shared(k)) + 1
                                ELSE Cardinality(Shared(k))
    BY <2>1, <2>3, SharedFinite, FS_AddElement
  <2> QED BY <1>n, <2>2, <2>4
<1>3. ASSUME NEW q \in Queries, AcquireFails(q) PROVE LeaksCounted'
  <2>1. \A k \in Counters : slots'[k] = slots[k] \/ slots'[k] = slots[k] + 1
    BY <1>3 DEF AcquireFails, Count, Plus
  <2>2. \A k : Shared(k)' = Shared(k)
    <3>1. query[q] = "idle" /\ (UNCHANGED query \/ Moves(q, "acquire"))
      BY <1>3 DEF AcquireFails
    <3>2. \A k : q \notin Shared(k)
      BY <3>1 DEF Shared, Holders
    <3> QED BY <1>0, <3>1, <3>2, MoveShared DEF Shared, Holders
  <2>3. Fail /\ strict' = strict /\ Queries # {}
    BY <1>3 DEF AcquireFails
  <2> QED BY <1>0, <2>1, <2>2, <2>3, FailurePays
<1>4. ASSUME NEW q \in Queries, AcquireLocal(q) \/ ReleaseLocal(q) PROVE LeaksCounted'
  <2>1. /\ UNCHANGED <<strict, slots, leaks>> /\ query[q] \in {"acquire", "local"}
        /\ Moves(q, "local") \/ Moves(q, "idle")
    BY <1>4 DEF AcquireLocal, ReleaseLocal
  <2>2. \A k : q \notin Shared(k)
    BY <2>1 DEF Shared, Holders
  <2>3. \A k : Shared(k)' = Shared(k)
    BY <1>0, <2>1, <2>2, MoveShared
  <2> QED BY <1>1, <1>n, <2>1, <2>3
<1>5. ASSUME NEW q \in Queries, ReleaseSlot(q) PROVE LeaksCounted'
  <2> SUFFICES ASSUME NEW k \in Counters
               PROVE  slots'[k] <= Cardinality(Shared(k)') + Cardinality(Queries) * leaks
    BY <1>1, <1>5 DEF ReleaseSlot
  <2>1. Moves(q, "idle") /\ query[q] = "shared"
    BY <1>5 DEF ReleaseSlot
  <2>2. slots'[k] = IF k \in CountersOf[q] /\ slots[k] > 0 THEN slots[k] - 1 ELSE slots[k]
    BY <1>5 DEF ReleaseSlot, Uncount, Minus
  <2>3. Shared(k)' = Shared(k) \ {q}
    BY <1>0, <2>1, MoveShared
  <2>4. q \in Shared(k) <=> k \in CountersOf[q]
    BY <2>1 DEF Shared, Holders
  <2>5. Cardinality(Shared(k)') = IF k \in CountersOf[q] THEN Cardinality(Shared(k)) - 1
                                ELSE Cardinality(Shared(k))
    BY <2>3, <2>4, SharedFinite, FS_RemoveElement
  <2>6. Cardinality(Shared(k)') \in Nat
    <3>1. Shared(k)' \subseteq Shared(k)
      BY <2>3
    <3>2. IsFiniteSet(Shared(k)')
      BY <3>1, SharedFinite, FS_Subset
    <3> QED BY <3>2, FS_CardinalityType
  <2> QED BY <1>n, <2>2, <2>5, <2>6
<1>6. ASSUME NEW q \in Queries, ReleaseFails(q) PROVE LeaksCounted'
  <2>1. Fail /\ slots' = slots /\ strict' = strict /\ Moves(q, "idle")
    BY <1>6 DEF ReleaseFails
  <2>2. \A k : Shared(k)' \subseteq Shared(k)
    BY <1>0, <2>1, MoveShared
  <2>3. \A k \in Counters : slots'[k] = slots[k]
    BY <2>1
  <2> QED BY <1>0, <2>1, <2>2, <2>3, FailurePays
<1>7. ASSUME NEW p \in Servers, ServerDies(p) PROVE LeaksCounted'
  <2>1. Fail /\ slots' = slots /\ strict' = strict
    BY <1>7 DEF ServerDies
  <2>2. \A k : Shared(k)' \subseteq Shared(k)
    BY <1>7 DEF ServerDies, Shared, Holders
  <2>3. \A k \in Counters : slots'[k] = slots[k]
    BY <2>1
  <2> QED BY <1>0, <2>1, <2>2, <2>3, FailurePays
<1>8. CASE Tick
  <2>1. \A k : Shared(k)' = Shared(k)
    BY <1>8 DEF Tick, Shared, Holders
  <2>2. \A k \in Counters : slots'[k] <= slots[k]
    BY <1>n, <1>8 DEF Tick
  <2>3. \A k \in Counters : slots'[k] <= Cardinality(Shared(k)') + Cardinality(Queries) * leaks
    BY <1>n, <2>1, <2>2
  <2> QED BY <1>1, <1>8, <2>3 DEF Tick
<1>9. CASE UNCHANGED slotVars
  BY <1>9 DEF slotVars, LeaksCounted, Shared, Holders
<1> QED
  BY <1>2, <1>3, <1>4, <1>5, <1>6, <1>7, <1>8, <1>9 DEF SlotsNext, Query

\* A counter never shows more than one slot of each query for itself and for every
\* failing call and crash; the other variables keep their domains.
THEOREM SlotsTyped == SlotsSpec => []SlotsTypeOK
<1> USE SlotsAssumption
<1>n. Cardinality(Queries) \in Nat /\ MaxLeaks \in Nat
  BY FS_CardinalityType DEF SlotConstants
<1>1. SlotsInit => LeaksCounted
  <2> SUFFICES ASSUME SlotsInit PROVE LeaksCounted
    OBVIOUS
  <2>1. ASSUME NEW k \in Counters PROVE slots[k] <= Cardinality(Shared(k)) + Cardinality(Queries) * leaks
    <3>1. Cardinality(Shared(k)) \in Nat /\ slots[k] = 0 /\ leaks = 0
      BY SharedFinite DEF SlotsInit
    <3>2. Cardinality(Queries) * leaks = 0
      BY <1>n, <3>1
    <3> QED BY <3>1, <3>2
  <2>2. strict \in BOOLEAN /\ leaks \in 0..MaxLeaks
    BY <1>n DEF SlotsInit
  <2> QED BY <2>1, <2>2 DEF LeaksCounted
<1>2. Inv /\ Inv' /\ LeaksCounted /\ [SlotsNext]_slotVars => LeaksCounted'
  BY LeaksCountedStep
<1>3. Inv /\ LeaksCounted => SlotsTypeOK
  <2> SUFFICES ASSUME Inv, LeaksCounted PROVE SlotsTypeOK
    OBVIOUS
  <2>1. ASSUME NEW k \in Counters PROVE slots[k] \in 0..Cardinality(Queries) * (MaxLeaks + 1)
    <3> DEFINE n == Cardinality(Queries)
    <3>1. /\ leaks \in Nat /\ leaks <= MaxLeaks /\ slots[k] \in Nat
          /\ slots[k] <= Cardinality(Shared(k)) + n * leaks
          /\ Cardinality(Shared(k)) \in Nat /\ Cardinality(Shared(k)) <= n
      BY <1>n, SharedFinite, SharedInQueries DEF Inv, Domains, LeaksCounted
    <3>2. n * leaks \in Nat /\ n * leaks <= n * MaxLeaks /\ n * MaxLeaks \in Nat
      <4>1. PICK i \in Nat : MaxLeaks = leaks + i
        BY <1>n, <3>1
      <4>2. n * (leaks + i) = n * leaks + n * i /\ n * i \in Nat /\ n * leaks \in Nat
        BY <1>n, <3>1
      <4> QED BY <4>1, <4>2
    <3>3. n * (MaxLeaks + 1) = n * MaxLeaks + n
      BY <1>n, Product
    <3> HIDE DEF n
    <3>4. slots[k] <= n * (MaxLeaks + 1) /\ n * (MaxLeaks + 1) \in Nat
      BY <1>n, <3>1, <3>2, <3>3 DEF n
    <3> QED BY <3>1, <3>4 DEF n
  <2>2. ASSUME NEW p \in Servers, NEW k \in Counters PROVE own[p][k] \in 0..Cardinality(Queries)
    <3>1. LocalOf(p, k) \in SUBSET Queries /\ own[p][k] = Cardinality(LocalOf(p, k))
      BY DEF LocalOf, Holders, Inv, LocalCounted
    <3>2. Cardinality(LocalOf(p, k)) <= Cardinality(Queries) /\ Cardinality(LocalOf(p, k)) \in Nat
      BY <3>1, LocalFinite, FS_Subset DEF SlotConstants
    <3> QED BY <1>n, <3>1, <3>2
  <2>3. slots \in [Counters -> 0..Cardinality(Queries) * (MaxLeaks + 1)]
    BY <2>1 DEF Inv, Domains
  <2>4. own \in [Servers -> [Counters -> 0..Cardinality(Queries)]]
    <3>1. own \in [Servers -> [Counters -> Nat]]
      BY DEF Inv, Domains
    <3> QED BY <2>2, <3>1
  <2> QED BY <2>3, <2>4 DEF Inv, Domains, LeaksCounted, SlotsTypeOK, Phases
<1> QED BY <1>1, <1>2, <1>3, SlotsInvariant, PTL DEF SlotsSpec
=============================================================================
