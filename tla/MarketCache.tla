----------------------------- MODULE MarketCache ----------------------------
(***************************************************************************)
(* query_market_data (services/market_data_service.py) over the two-level  *)
(* cache of services/market_data_cache.py, for one key of an interface     *)
(* with a stale window and a background refresh (the slow, static          *)
(* interfaces).  Each process has a local entry, a lock for the key and a  *)
(* flag for the refresh in flight; Redis is shared and may fail at any     *)
(* call.  The lock is the plain one of KeyMutex, which KeyedLock is proved *)
(* to implement.                                                           *)
(*                                                                         *)
(* What an upstream answer contains is abstracted to whether it has rows   *)
(* and to the instant it was asked for: the upstream reads its data at     *)
(* that instant or later, so ages computed from it are the worst case.     *)
(***************************************************************************)
EXTENDS Naturals, FiniteSets

CONSTANTS
    Servers,            \* the Web processes
    Callers,            \* request threads of all processes
    ServerOf,           \* [Callers -> Servers]
    Refreshes,          \* places for background refreshes in the pools of all processes
    PoolOf,             \* [Refreshes -> Servers]
    Nobody,             \* the owner of a free lock
    RowsTTL,            \* ttl_seconds of an answer with rows
    EmptyTTL,           \* empty_ttl_seconds
    Stale,              \* stale_if_error_seconds
    Ahead,              \* refresh_ahead_seconds
    MaxCall,            \* bound: the longest upstream call
    MaxNow              \* bound: the last instant

ASSUME ServerOfIsServer == ServerOf \in [Callers -> Servers] /\ PoolOf \in [Refreshes -> Servers]
ASSUME WindowsAreNat == {RowsTTL, EmptyTTL, Stale, Ahead, MaxCall, MaxNow} \subseteq Nat
ASSUME PolicyEnabled == RowsTTL > 0 /\ EmptyTTL > 0 /\ Stale > 0
ASSUME NobodyApart == Nobody \notin Callers /\ Callers \cap Refreshes = {}

VARIABLES
    now,
    memory,     \* _cache of each process: an entry or None
    redis,      \* the entry in Redis or None
    step,       \* where each request thread is
    look,       \* which of the four lookups it is in
    bypass,     \* its argument bypass_cache
    parcel,     \* the entry a thread or refresh carries between the caches
    existing,   \* existing_before
    asked,      \* when a thread or refresh asked the upstream
    owner,      \* who is inside keyed_lock in each process
    inflight,   \* _refresh_inflight of each process holds the key
    task,       \* the step of each background refresh
    unflagged,  \* a process in which a refresh began whose flag was taken back (history)
    answer      \* what the last step answered to a caller, if it did (history)

cacheVars == <<memory, redis>>
callVars == <<bypass, owner>>
taskVars == <<inflight, task, unflagged>>
marketVars == <<now, cacheVars, step, look, callVars, parcel, existing, asked, taskVars, answer>>

\* keyed_lock(cache_key) of each process.
Lock == INSTANCE KeyMutex WITH Threads <- Callers, Keys <- Servers

Instants == 0..MaxNow
None == [none |-> TRUE]

MarketEntry == [rows : BOOLEAN, asof : Instants,
                fresh : 0..MaxNow + RowsTTL + EmptyTTL,
                stale : 0..MaxNow + RowsTTL + EmptyTTL + Stale]

\* set_cached_dataframe: the windows begin when the answer is stored.
\* _set_success_cache gives an empty answer a short life and no stale window.
NewEntry(rows, asof) ==
    IF rows THEN [rows |-> TRUE, asof |-> asof, fresh |-> now + RowsTTL, stale |-> now + RowsTTL + Stale]
    ELSE [rows |-> FALSE, asof |-> asof, fresh |-> now + EmptyTTL, stale |-> now + EmptyTTL]

IsFresh(e) == e # None /\ now < e.fresh
IsUsable(e) == e # None /\ now < e.stale
HasRows(e) == e # None /\ e.rows

\* What is left of an entry at an instant.  Every reader compares the stale
\* window with the clock, so an entry past it counts for nothing from then on.
AtInstant(e, i) == IF e # None /\ e.stale <= i THEN None ELSE e

\* Only the lookups named fresh and recheck refuse stale entries.
Accepts(l, e) == IF l \in {"fresh", "recheck"} THEN IsFresh(e) ELSE IsUsable(e)

NoAnswer == [kind |-> "none"]
Failed == [kind |-> "error"]
Answer(t, rows, asof) ==
    [kind |-> IF rows THEN "rows" ELSE "empty", age |-> now - asof, bypass |-> bypass[t]]

MarketInit ==
    /\ now = 0
    /\ memory = [p \in Servers |-> None]
    /\ redis = None
    /\ step = [t \in Callers |-> "idle"]
    /\ look = [t \in Callers |-> "fresh"]
    /\ bypass = [t \in Callers |-> FALSE]
    /\ parcel = [x \in Callers \cup Refreshes |-> None]
    /\ existing = [t \in Callers |-> None]
    /\ asked = [x \in Callers \cup Refreshes |-> 0]
    /\ inflight = [p \in Servers |-> FALSE]
    /\ task = [r \in Refreshes |-> "none"]
    /\ unflagged = [p \in Servers |-> FALSE]
    /\ answer = NoAnswer
    /\ Lock!Init

-----------------------------------------------------------------------------
(* The four lookups of a request. *)

Query(t, b) ==
    /\ step[t] = "idle"
    /\ bypass' = [bypass EXCEPT ![t] = b]
    /\ look' = [look EXCEPT ![t] = "fresh"]
    /\ step' = [step EXCEPT ![t] = IF b THEN "enter" ELSE "look"]
    /\ answer' = NoAnswer
    /\ UNCHANGED <<now, cacheVars, owner, parcel, existing, asked, taskVars>>

Serve(t, e, next) ==
    /\ answer' = Answer(t, e.rows, e.asof)
    /\ step' = [step EXCEPT ![t] = next]
    /\ look' = [look EXCEPT ![t] = "fresh"]
    /\ UNCHANGED <<existing, asked>>

GoOn(t, next, l) ==
    /\ step' = [step EXCEPT ![t] = next]
    /\ look' = [look EXCEPT ![t] = l]
    /\ answer' = NoAnswer
    /\ UNCHANGED <<existing, asked>>

\* provider.query is called with existing_before in hand.
Ask(t, e) ==
    /\ existing' = [existing EXCEPT ![t] = e]
    /\ asked' = [asked EXCEPT ![t] = now]
    /\ step' = [step EXCEPT ![t] = "asked"]
    /\ answer' = NoAnswer
    /\ UNCHANGED look

\* The lookup a thread is in has found e.  A stale entry is served at once
\* only when it has rows; one that is fresh again by now is left to the lock.
Found(t, e) ==
    \/ /\ look[t] = "fresh"
       /\ Serve(t, e, IF e.fresh - now <= Ahead THEN "schedule" ELSE "idle")
    \/ /\ look[t] = "stale"
       /\ IF e.rows /\ ~IsFresh(e) THEN Serve(t, e, "schedule") ELSE GoOn(t, "enter", "stale")
    \/ look[t] = "recheck" /\ Serve(t, e, "release")
    \/ look[t] = "existing" /\ Ask(t, e)

Missed(t) ==
    \/ look[t] = "fresh" /\ GoOn(t, "look", "stale")
    \/ look[t] = "stale" /\ GoOn(t, "enter", "stale")
    \/ look[t] = "recheck" /\ GoOn(t, "look", "existing")
    \/ look[t] = "existing" /\ Ask(t, None)

\* get_cached_entry.  A local entry past its stale window is dropped.  Without
\* a local answer Redis is asked: a failure, no payload or one that is too old
\* is a miss, anything else is carried to the local cache first.
Look(t) ==
    LET p == ServerOf[t]
    IN  /\ step[t] = "look"
        /\ memory' = [memory EXCEPT ![p] = AtInstant(memory[p], now)]
        /\ \/ Accepts(look[t], memory[p]) /\ Found(t, memory[p]) /\ UNCHANGED parcel
           \/ ~Accepts(look[t], memory[p]) /\ Missed(t) /\ UNCHANGED parcel
           \/ /\ ~Accepts(look[t], memory[p]) /\ Accepts(look[t], redis)
              /\ parcel' = [parcel EXCEPT ![t] = redis]
              /\ GoOn(t, "promote", look[t])
        /\ UNCHANGED <<now, redis, callVars, taskVars>>

\* Mutant of the next operator: the windows start anew in the local cache.
PromotedAnew(e) == NewEntry(e.rows, e.asof)

\* The local copy keeps the windows of the entry in Redis.
Promoted(e) == e

CopyDown(t) ==
    /\ step[t] = "promote"
    /\ memory' = [memory EXCEPT ![ServerOf[t]] = Promoted(parcel[t])]
    /\ parcel' = [parcel EXCEPT ![t] = None]
    /\ Found(t, parcel[t])
    /\ UNCHANGED <<now, redis, callVars, taskVars>>

\* _schedule_background_refresh: under its guard, one refresh per key.
Schedule(t) ==
    LET p == ServerOf[t]
    IN  /\ step[t] = "schedule"
        /\ inflight' = [inflight EXCEPT ![p] = TRUE]
        /\ GoOn(t, IF inflight[p] THEN "idle" ELSE "submit", "fresh")
        /\ UNCHANGED <<now, cacheVars, callVars, parcel, task, unflagged>>

\* The pool gets a refresh.
Queued(p) ==
    \E r \in Refreshes :
        /\ PoolOf[r] = p /\ task[r] = "none"
        /\ task' = [task EXCEPT ![r] = "queued"]

\* executor.submit, outside of the guard, or its RuntimeError: nothing is queued
\* when the pool takes no more, but when no thread can be started for it, the
\* refresh is in the queue already and a thread that is there will begin it.
Submit(t) ==
    LET p == ServerOf[t]
    IN  /\ step[t] = "submit"
        /\ \/ Queued(p) /\ GoOn(t, "idle", "fresh") /\ UNCHANGED unflagged
           \/ GoOn(t, "refused", "fresh") /\ UNCHANGED <<task, unflagged>>
           \/ /\ Queued(p) /\ GoOn(t, "refused", "fresh")
              /\ unflagged' = [unflagged EXCEPT ![p] = TRUE]
        /\ UNCHANGED <<now, cacheVars, callVars, parcel, inflight>>

\* Mutant of the next action: the flag stays when the pool refuses.
TakeBackNothing(t) ==
    /\ step[t] = "refused"
    /\ GoOn(t, "idle", "fresh")
    /\ UNCHANGED <<now, cacheVars, callVars, parcel, taskVars>>

\* except RuntimeError: the flag is taken back under the guard.
TakeBack(t) ==
    /\ step[t] = "refused"
    /\ inflight' = [inflight EXCEPT ![ServerOf[t]] = FALSE]
    /\ GoOn(t, "idle", "fresh")
    /\ UNCHANGED <<now, cacheVars, callVars, parcel, task, unflagged>>

-----------------------------------------------------------------------------
(* Inside the keyed lock. *)

\* Mutant of the next action: nobody is waited for.
EnterLockAnyway(t) ==
    /\ step[t] = "enter"
    /\ owner' = [owner EXCEPT ![ServerOf[t]] = t]
    /\ GoOn(t, "look", IF bypass[t] THEN "existing" ELSE "recheck")
    /\ UNCHANGED <<now, cacheVars, bypass, parcel, taskVars>>

EnterLock(t) ==
    /\ step[t] = "enter"
    /\ Lock!Take(t, ServerOf[t])
    /\ GoOn(t, "look", IF bypass[t] THEN "existing" ELSE "recheck")
    /\ UNCHANGED <<now, cacheVars, bypass, parcel, taskVars>>

\* The call is over and gives the caller a.
Answered(t, a, next) ==
    /\ step[t] = "asked"
    /\ answer' = a
    /\ step' = [step EXCEPT ![t] = next]
    /\ existing' = [existing EXCEPT ![t] = None]
    /\ asked' = [asked EXCEPT ![t] = 0]
    /\ look' = [look EXCEPT ![t] = "fresh"]
    /\ bypass' = [bypass EXCEPT ![t] = FALSE]
    /\ UNCHANGED <<now, redis, owner, taskVars>>

\* set_cached_dataframe computes the entry x is to store and puts it into the
\* local cache; x carries it on to Redis.
StoreMemory(x, p, rows) ==
    /\ memory' = [memory EXCEPT ![p] = NewEntry(rows, asked[x])]
    /\ parcel' = [parcel EXCEPT ![x] = NewEntry(rows, asked[x])]

\* The second half of set_cached_dataframe, which Redis may refuse.
Share(x) ==
    /\ redis' \in {redis, parcel[x]}
    /\ parcel' = [parcel EXCEPT ![x] = None]

\* Rows, or no rows where none are known: store them and answer with them.
AnswerStored(t) ==
    \E rows \in BOOLEAN :
        /\ rows \/ ~HasRows(existing[t])
        /\ Answered(t, Answer(t, rows, asked[t]), "share")
        /\ StoreMemory(t, ServerOf[t], rows)

\* Rows that are too large, or no rows for a test that goes round the cache
\* where rows are known: answered and not stored.
AnswerUnstored(t) ==
    \E rows \in BOOLEAN :
        /\ rows \/ (bypass[t] /\ HasRows(existing[t]))
        /\ Answered(t, Answer(t, rows, asked[t]), "release")
        /\ UNCHANGED <<memory, parcel>>

\* No rows or an error where rows are known: answer with the known ones.
AnswerExisting(t) ==
    /\ ~bypass[t] /\ HasRows(existing[t])
    /\ Answered(t, Answer(t, TRUE, existing[t].asof), "release")
    /\ UNCHANGED <<memory, parcel>>

\* An error with nothing to fall back on, or an exception of the provider,
\* which leaves the block of the lock whatever is known.
AnswerFails(t) ==
    /\ Answered(t, Failed, "release")
    /\ UNCHANGED <<memory, parcel>>

ShareAnswer(t) ==
    /\ step[t] = "share"
    /\ Share(t)
    /\ GoOn(t, "release", "fresh")
    /\ UNCHANGED <<now, memory, callVars, taskVars>>

LeaveLock(t) ==
    /\ step[t] = "release"
    /\ Lock!Give(t, ServerOf[t])
    /\ GoOn(t, "idle", "fresh")
    /\ UNCHANGED <<now, cacheVars, bypass, parcel, taskVars>>

-----------------------------------------------------------------------------
(* The background refresh of a process: outside of the keyed lock. *)

RefreshGoesOn(r, next) ==
    /\ task' = [task EXCEPT ![r] = next]
    /\ answer' = NoAnswer
    /\ UNCHANGED <<now, step, look, callVars, existing, unflagged>>

BeginRefresh(r) ==
    /\ task[r] = "queued"
    /\ RefreshGoesOn(r, "asked")
    /\ asked' = [asked EXCEPT ![r] = now]
    /\ UNCHANGED <<cacheVars, parcel, inflight>>

RefreshStored(r) ==
    /\ task[r] = "asked"
    /\ RefreshGoesOn(r, "share")
    /\ StoreMemory(r, PoolOf[r], TRUE)
    /\ asked' = [asked EXCEPT ![r] = 0]
    /\ UNCHANGED <<redis, inflight>>

\* An error, no rows, an exception, or rows too large to be stored.
RefreshFails(r) ==
    /\ task[r] = "asked"
    /\ RefreshGoesOn(r, "discard")
    /\ asked' = [asked EXCEPT ![r] = 0]
    /\ UNCHANGED <<cacheVars, parcel, inflight>>

ShareRefresh(r) ==
    /\ task[r] = "share"
    /\ Share(r)
    /\ RefreshGoesOn(r, "discard")
    /\ UNCHANGED <<memory, asked, inflight>>

\* finally: whatever became of the refresh, the flag goes.
Discard(r) ==
    /\ task[r] = "discard"
    /\ RefreshGoesOn(r, "none")
    /\ inflight' = [inflight EXCEPT ![PoolOf[r]] = FALSE]
    /\ UNCHANGED <<cacheVars, parcel, asked>>

-----------------------------------------------------------------------------
(* The caches themselves, and time. *)

\* An entry goes: the local cache evicts by size and Redis by memory and time,
\* and clear_cache empties the one and then, if it answers, the other.
Lose ==
    /\ \/ \E p \in Servers : memory' = [memory EXCEPT ![p] = None] /\ UNCHANGED redis
       \/ redis' = None /\ UNCHANGED memory
    /\ answer' = NoAnswer
    /\ UNCHANGED <<now, step, look, callVars, parcel, existing, asked, taskVars>>

\* A process this model has no threads of stores what it asked for as long ago
\* as a call may take; a younger answer could only be served younger.
Elsewhere ==
    \E rows \in BOOLEAN :
        /\ redis' = NewEntry(rows, IF now > MaxCall THEN now - MaxCall ELSE 0)
        /\ answer' = NoAnswer
        /\ UNCHANGED <<now, memory, step, look, callVars, parcel, existing, asked, taskVars>>

\* An upstream call takes MaxCall at most; what a thread does between reading
\* the clock in a lookup and its next input or output takes no time.
MarketTick ==
    /\ now < MaxNow
    /\ \A t \in Callers :
          /\ step[t] # "promote"
          /\ step[t] = "asked" => now - asked[t] < MaxCall
    /\ \A r \in Refreshes : task[r] = "asked" => now - asked[r] < MaxCall
    /\ now' = now + 1
    /\ memory' = [p \in Servers |-> AtInstant(memory[p], now + 1)]
    /\ redis' = AtInstant(redis, now + 1)
    /\ answer' = NoAnswer
    /\ UNCHANGED <<step, look, callVars, parcel, existing, asked, taskVars>>

Caller(t) ==
    \/ \E b \in BOOLEAN : Query(t, b)
    \/ Look(t) \/ CopyDown(t) \/ EnterLock(t)
    \/ Schedule(t) \/ Submit(t) \/ TakeBack(t)
    \/ AnswerStored(t) \/ AnswerUnstored(t) \/ AnswerExisting(t) \/ AnswerFails(t)
    \/ ShareAnswer(t) \/ LeaveLock(t)

Refresh(r) ==
    \/ BeginRefresh(r) \/ RefreshStored(r) \/ RefreshFails(r)
    \/ ShareRefresh(r) \/ Discard(r)

MarketNext ==
    \/ \E t \in Callers : Caller(t)
    \/ \E r \in Refreshes : Refresh(r)
    \/ Lose
    \/ Elsewhere
    \/ MarketTick

MarketSpec == MarketInit /\ [][MarketNext]_marketVars

-----------------------------------------------------------------------------

\* No rows have no stale window.
Entries == {e \in MarketEntry : e.rows \/ e.stale = e.fresh} \cup {None}

MarketTypeOK ==
    /\ now \in Instants
    /\ memory \in [Servers -> Entries] /\ redis \in Entries
    /\ step \in [Callers -> {"idle", "look", "promote", "schedule", "submit", "refused",
                         "enter", "asked", "share", "release"}]
    /\ look \in [Callers -> {"fresh", "stale", "recheck", "existing"}]
    /\ bypass \in [Callers -> BOOLEAN]
    /\ parcel \in [Callers \cup Refreshes -> Entries]
    /\ existing \in [Callers -> Entries]
    /\ asked \in [Callers \cup Refreshes -> Instants]
    /\ owner \in [Servers -> Callers \cup {Nobody}]
    /\ inflight \in [Servers -> BOOLEAN]
    /\ task \in [Refreshes -> {"none", "queued", "asked", "share", "discard"}]
    /\ unflagged \in [Servers -> BOOLEAN]
    /\ answer \in {NoAnswer, Failed} \cup [kind : {"rows", "empty"}, age : Instants, bypass : BOOLEAN]

\* The identical requests of one process are collapsed: at most one of them is
\* asking the upstream (query_market_data under keyed_lock).
CallsCollapsed ==
    \A t, u \in Callers :
        step[t] = "asked" /\ step[u] = "asked" /\ ServerOf[t] = ServerOf[u] => t = u

\* How old what a caller gets can be.  Rows: one call until they are stored,
\* their life, the stale window, and one more call during which they are held
\* as existing_before.  No rows: one call and the short life.  A test that
\* goes round the cache: one call.  Copies made from Redis, refreshes that
\* overtake each other and evictions change nothing about it.
ServedAgeBounded ==
    /\ answer.kind = "rows" => answer.age < MaxCall + RowsTTL + Stale + MaxCall
    /\ answer.kind = "empty" => answer.age < MaxCall + EmptyTTL
    /\ answer.kind \in {"rows", "empty"} /\ answer.bypass => answer.age <= MaxCall

\* Who takes the flag of a process away: a refresh at its end, a thread that has
\* set it by handing it over to a refresh or by taking it back.
InCharge(p) ==
    {r \in Refreshes : PoolOf[r] = p /\ task[r] # "none"}
        \cup {t \in Callers : ServerOf[t] = p /\ step[t] \in {"submit", "refused"}}

\* A flag that keeps refreshes away has somebody who will take it away: left behind,
\* it would end the refreshing of the key until the process restarts.  And there is
\* one refresh at a time, with its flag set, unless a refresh began although its
\* submission had failed (_schedule_background_refresh, _background_refresh).
RefreshFlagExact ==
    \A p \in Servers :
        /\ inflight[p] => InCharge(p) # {}
        /\ ~unflagged[p] => \A x, y \in InCharge(p) : inflight[p] /\ x = y
=============================================================================
