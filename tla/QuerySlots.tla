----------------------------- MODULE QuerySlots -----------------------------
(***************************************************************************)
(* request_lease (services/market_query_security.py): how many queries of  *)
(* a user, of a token and of all users run at once.  Redis counts them     *)
(* under one key each; the two Lua scripts are single steps of Redis.      *)
(* Without an answer of Redis a process counts its own queries, unless     *)
(* REDIS_REQUIRED is set.  A call to Redis may fail before it has had its  *)
(* effect or after it.                                                     *)
(*                                                                         *)
(* Time is relative: a counter knows how long it still lives and a query   *)
(* how long it has been running, up to the life of a counter.              *)
(***************************************************************************)
EXTENDS Naturals, FiniteSets

CONSTANTS
    Queries,        \* request threads
    Server,         \* [Queries -> the process of a thread]
    Counters,       \* the counters: of users, of tokens, and the global one
    CountersOf,     \* [Queries -> SUBSET Counters]: those of its user and token
    SlotLimit,      \* [Counters -> Nat]: 0 means no limit
    SlotTTL,        \* MARKET_QUERY_LEASE_TTL_SECONDS
    MaxLeaks        \* bound: calls to Redis that fail, and crashes

\* Every query has its counters, and a counter lives for a while.
SlotConstants ==
    /\ IsFiniteSet(Queries)
    /\ CountersOf \in [Queries -> SUBSET Counters]
    /\ SlotLimit \in [Counters -> Nat]
    /\ SlotTTL \in Nat \ {0} /\ MaxLeaks \in Nat
ASSUME SlotsAssumption == SlotConstants

VARIABLES
    strict,     \* REDIS_REQUIRED
    slots,      \* the counters in Redis
    life,       \* how long each still lives
    own,        \* _active_user, _active_token, _active_global of each process
    query,      \* where each thread is
    age,        \* how long a query has been running, SlotTTL for longer
    overrun,    \* a query has run for SlotTTL (history)
    leaks       \* failures so far

slotVars == <<strict, slots, life, own, query, age, overrun, leaks>>

Servers == {Server[q] : q \in Queries}

SlotsInit ==
    /\ strict \in BOOLEAN
    /\ slots = [k \in Counters |-> 0]
    /\ life = [k \in Counters |-> 0]
    /\ own = [p \in Servers |-> [k \in Counters |-> 0]]
    /\ query = [q \in Queries |-> "idle"]
    /\ age = [q \in Queries |-> 0]
    /\ overrun = FALSE
    /\ leaks = 0

Moves(q, next) == query' = [query EXCEPT ![q] = next]
Fail == leaks < MaxLeaks /\ leaks' = leaks + 1

\* Mutant of the next operator: one too many fits.
RoomForOneMore(q, counts) ==
    \A k \in CountersOf[q] : SlotLimit[k] = 0 \/ counts[k] <= SlotLimit[k]

\* A counter at its limit refuses, whether or not the others would; a limit of 0 is none.
HasRoom(q, counts) == \A k \in CountersOf[q] : SlotLimit[k] = 0 \/ counts[k] < SlotLimit[k]

Plus(q, counts) == [k \in Counters |-> IF k \in CountersOf[q] THEN counts[k] + 1 ELSE counts[k]]
Minus(q, counts) ==
    [k \in Counters |-> IF k \in CountersOf[q] /\ counts[k] > 0 THEN counts[k] - 1 ELSE counts[k]]

\* _ACQUIRE_LUA: every increment renews the life of the counter.
Renewed(q) == [k \in Counters |-> IF k \in CountersOf[q] THEN SlotTTL ELSE life[k]]

Count(q) == slots' = Plus(q, slots) /\ life' = Renewed(q)

AcquireSlot(q) ==
    /\ query[q] = "idle" /\ HasRoom(q, slots)
    /\ Count(q)
    /\ Moves(q, "shared")
    /\ age' = [age EXCEPT ![q] = 0]
    /\ UNCHANGED <<strict, own, overrun, leaks>>

\* The call fails, with or without its effect.
AcquireFails(q) ==
    /\ query[q] = "idle"
    /\ Fail
    /\ \/ UNCHANGED <<slots, life>>
       \/ HasRoom(q, slots) /\ Count(q)
    /\ IF strict THEN UNCHANGED query ELSE Moves(q, "acquire")
    /\ UNCHANGED <<strict, own, age, overrun>>

\* _acquire_local, under its lock.
AcquireLocal(q) ==
    LET p == Server[q]
    IN  /\ query[q] = "acquire"
        /\ \/ /\ HasRoom(q, own[p])
              /\ own' = [own EXCEPT ![p] = Plus(q, own[p])]
              /\ age' = [age EXCEPT ![q] = 0]
              /\ Moves(q, "local")
           \/ ~HasRoom(q, own[p]) /\ Moves(q, "idle") /\ UNCHANGED <<own, age>>
        /\ UNCHANGED <<strict, slots, life, overrun, leaks>>

\* _RELEASE_LUA: the last one deletes the counter; the life of the others is
\* not renewed.
Uncount(q) ==
    /\ slots' = Minus(q, slots)
    /\ life' = [k \in Counters |-> IF slots'[k] = 0 THEN 0 ELSE life[k]]

ReleaseSlot(q) ==
    /\ query[q] = "shared"
    /\ Uncount(q)
    /\ Moves(q, "idle")
    /\ UNCHANGED <<strict, own, age, overrun, leaks>>

\* The failure is ignored; with its effect it would be a release.
ReleaseFails(q) ==
    /\ query[q] = "shared"
    /\ Fail
    /\ Moves(q, "idle")
    /\ UNCHANGED <<strict, slots, life, own, age, overrun>>

ReleaseLocal(q) ==
    LET p == Server[q]
    IN  /\ query[q] = "local"
        /\ own' = [own EXCEPT ![p] = Minus(q, own[p])]
        /\ Moves(q, "idle")
        /\ UNCHANGED <<strict, slots, life, age, overrun, leaks>>

\* A process dies: its queries give nothing back.
ServerDies(p) ==
    /\ Fail
    /\ own' = [own EXCEPT ![p] = [k \in Counters |-> 0]]
    /\ query' = [q \in Queries |-> IF Server[q] = p THEN "idle" ELSE query[q]]
    /\ UNCHANGED <<strict, slots, life, age, overrun>>

Running(q) == query[q] \in {"shared", "local"}

Tick ==
    /\ life' = [k \in Counters |-> IF life[k] > 0 THEN life[k] - 1 ELSE 0]
    /\ slots' = [k \in Counters |-> IF life[k] <= 1 THEN 0 ELSE slots[k]]
    /\ age' = [q \in Queries |-> IF Running(q) /\ age[q] < SlotTTL THEN age[q] + 1 ELSE age[q]]
    /\ overrun' = (overrun \/ \E q \in Queries : Running(q) /\ age'[q] = SlotTTL)
    /\ UNCHANGED <<strict, own, query, leaks>>

Query(q) ==
    \/ AcquireSlot(q) \/ AcquireFails(q) \/ AcquireLocal(q)
    \/ ReleaseSlot(q) \/ ReleaseFails(q) \/ ReleaseLocal(q)

SlotsNext ==
    \/ \E q \in Queries : Query(q)
    \/ \E p \in Servers : ServerDies(p)
    \/ Tick

SlotsSpec == SlotsInit /\ [][SlotsNext]_slotVars

\* Queries come to an end (the upstream call has a timeout) and time passes.
SlotsFairSpec ==
    /\ SlotsSpec
    /\ WF_slotVars(Tick)
    /\ \A q \in Queries :
          /\ WF_slotVars(ReleaseSlot(q)) /\ WF_slotVars(ReleaseLocal(q))
          /\ WF_slotVars(AcquireLocal(q))

-----------------------------------------------------------------------------

\* A crash may leave behind the slots of all queries of its process.
SlotsTypeOK ==
    /\ strict \in BOOLEAN /\ overrun \in BOOLEAN
    /\ slots \in [Counters -> 0..Cardinality(Queries) * (MaxLeaks + 1)]
    /\ life \in [Counters -> 0..SlotTTL]
    /\ own \in [Servers -> [Counters -> 0..Cardinality(Queries)]]
    /\ query \in [Queries -> {"idle", "shared", "acquire", "local"}]
    /\ age \in [Queries -> 0..SlotTTL]
    /\ leaks \in 0..MaxLeaks

Holders(k, kind) == {q \in Queries : query[q] = kind /\ k \in CountersOf[q]}

\* A limit is kept as long as no query runs longer than a counter lives, with
\* failing calls, crashes and expiries in any order: nobody's slot is given
\* away while he runs.  (A query that overruns loses its slot with the counter
\* and gives back somebody else's afterwards.)
SlotsBounded ==
    /\ ~overrun => \A k \in Counters :
          /\ SlotLimit[k] > 0 => Cardinality(Holders(k, "shared")) <= SlotLimit[k]
          /\ Cardinality(Holders(k, "shared")) <= slots[k]
    /\ \A p \in Servers, k \in Counters :
          own[p][k] = Cardinality({q \in Holders(k, "local") : Server[q] = p})

\* "The keys have a bounded TTL, so a failed release cannot leak capacity
\* forever" (market_query_security.py:421): again and again no more slots are
\* counted than queries hold.
LeaksEnd == []<>(\A k \in Counters : slots[k] <= Cardinality(Holders(k, "shared")))
=============================================================================
