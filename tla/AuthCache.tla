----------------------------- MODULE AuthCache -----------------------------
(***************************************************************************)
(* The authentication contexts of one user: the API key and the rights in  *)
(* the database, a cache in every Web process, one in Redis, the requests  *)
(* that look a token up in them and fill them, and the operations that     *)
(* change the key or the rights and then clear what is cached for the      *)
(* keys the database holds.  Every access to the database, to a process's  *)
(* cache (under its lock) and to Redis is a step of its own.               *)
(*                                                                         *)
(* Time is relative: an entry knows how long it still lives and how old    *)
(* what it says is, and both change when the clock advances, so that the   *)
(* clock itself is not bounded.                                            *)
(***************************************************************************)
EXTENDS Integers

CONSTANTS
    Process,      \* Web processes
    Request,      \* request threads
    ProcessOf,    \* [Request -> Process]
    Token,        \* tokens in the order in which rotations generate them
    Right,        \* what the subscription and plan SELECTs may return, 0 if nothing
    TTL,          \* AUTH_CONTEXT_CACHE_TTL_SECONDS
    Promotion,    \* min(TTL, 10): life of a local copy of a Redis entry
    MaxHold,      \* bound: the longest a request takes to be authenticated
    MaxRequests,  \* bound: requests that arrive
    MaxChanges,   \* bound: changes of the key or of the rights
    MaxFaults     \* bound: failures of Redis, or of the SELECT before a clear

ASSUME ProcessOfIsProcess == ProcessOf \in [Request -> Process]
ASSUME TokenAssumption == Token \subseteq Nat \ {0} /\ 1 \in Token
ASSUME RightAssumption == Right \subseteq Nat /\ 0 \in Right
ASSUME TimeAssumption ==
    /\ {TTL, Promotion} \subseteq Nat \ {0} /\ Promotion <= TTL
    /\ {MaxHold, MaxRequests, MaxChanges, MaxFaults} \subseteq Nat

VARIABLES
    key,      \* the token whose digest api_keys holds
    right,    \* what the database grants to the user
    local,    \* _cache of each process
    remote,   \* the entries in Redis
    req,      \* the requests
    change,   \* an operation between its commit and the end of its clear, per process
    budget,   \* what is left of the last three bounds
    changer,  \* history: the process that committed the last change
    missed    \* history: a clear met a failure, which is ignored

db == <<key, right>>
caches == <<local, remote>>
vars == <<db, caches, req, change, budget, changer, missed>>

NoEntry == [left |-> 0, right |-> 0, age |-> 0, raced |-> FALSE]
NoRequest == [pc |-> "idle", token |-> 1, held |-> 0, right |-> 0, age |-> 0,
              raced |-> FALSE, retired |-> FALSE]
NoChange == [pc |-> "none", token |-> 1, gives |-> 0]

\* A new token is shown when rotate_api_key has returned.
Known(t) == t <= key /\ \A p \in Process : change[p].gives # t
Changing == \E p \in Process : change[p].pc # "none"
Fresh(entry) == entry.left > 0
Entry(q, left) ==
    IF left <= 0 THEN NoEntry
    ELSE [left |-> left, right |-> req[q].right, age |-> req[q].age, raced |-> req[q].raced]
Loaded(q) == req[q].pc \in {"promote", "loadRight", "store", "storeShared", "served"}

Older(entry) ==
    IF entry.left <= 1 THEN NoEntry ELSE [entry EXCEPT !.left = @ - 1, !.age = @ + 1]

Spend(kind) == budget[kind] > 0 /\ budget' = [budget EXCEPT ![kind] = @ - 1]

Init ==
    /\ key = 1 /\ right \in Right \ {0}
    /\ local = [p \in Process |-> [t \in Token |-> NoEntry]]
    /\ remote = [t \in Token |-> NoEntry]
    /\ req = [q \in Request |-> NoRequest]
    /\ change = [p \in Process |-> NoChange]
    /\ budget = [request |-> MaxRequests, change |-> MaxChanges, fault |-> MaxFaults]
    /\ changer \in Process
    /\ missed = FALSE

-----------------------------------------------------------------------------
(* get_or_load_auth_context.                                               *)

Go(q, from, to) == req[q].pc = from /\ req' = [req EXCEPT ![q].pc = to]
Reject(q) == req' = [req EXCEPT ![q] = NoRequest]

\* The local lookup, at the instant the request keeps for the rest of the function.
BeginRequest(q, t) ==
    /\ req[q].pc = "idle" /\ Known(t) /\ Spend("request")
    /\ LET e == local[ProcessOf[q]][t]
           r == [NoRequest EXCEPT !.token = t, !.raced = Changing,
                                  !.retired = t # key /\ ~Changing]
       IN IF Fresh(e)
          THEN /\ req' = [req EXCEPT ![q] =
                    [r EXCEPT !.pc = "served", !.right = e.right, !.age = e.age]]
               /\ UNCHANGED local
          ELSE /\ req' = [req EXCEPT ![q] = [r EXCEPT !.pc = "shared"]]
               /\ local' = [local EXCEPT ![ProcessOf[q]][t] = NoEntry]
    /\ UNCHANGED <<db, remote, change, changer, missed>>

GetShared(q) ==
    /\ req[q].pc = "shared"
    /\ LET e == remote[req[q].token] IN
       req' = IF Fresh(e)
              THEN [req EXCEPT ![q].pc = "promote", ![q].right = e.right, ![q].age = e.age,
                               ![q].raced = @ \/ e.raced]
              ELSE [req EXCEPT ![q].pc = "load"]
    /\ UNCHANGED <<db, caches, change, budget, changer, missed>>

\* The exception of the Redis client is not caught: the request fails.
GetFails(q) ==
    /\ req[q].pc = "shared" /\ Spend("fault")
    /\ Reject(q)
    /\ UNCHANGED <<db, caches, change, changer, missed>>

\* Faulty variant: the local copy lives as long as a context just loaded.
PromoteForTTL(q) ==
    /\ Go(q, "promote", "served")
    /\ local' = [local EXCEPT ![ProcessOf[q]][req[q].token] = Entry(q, TTL - req[q].held)]
    /\ UNCHANGED <<db, remote, change, budget, changer, missed>>

Promote(q) ==
    /\ Go(q, "promote", "served")
    /\ local' = [local EXCEPT ![ProcessOf[q]][req[q].token] = Entry(q, Promotion - req[q].held)]
    /\ UNCHANGED <<db, remote, change, budget, changer, missed>>

\* _load_auth_context: first the key, then the subscription and its plan.  What it
\* refuses is not cached.
LoadKey(q) ==
    /\ req[q].pc = "load"
    /\ IF req[q].token = key
       THEN req' = [req EXCEPT ![q].pc = "loadRight"]
       ELSE Reject(q)
    /\ UNCHANGED <<db, caches, change, budget, changer, missed>>

LoadRight(q) ==
    /\ req[q].pc = "loadRight"
    /\ IF right # 0
       THEN req' = [req EXCEPT ![q].pc = "store", ![q].right = right]
       ELSE Reject(q)
    /\ UNCHANGED <<db, caches, change, budget, changer, missed>>

\* set_cached_auth_context.
StoreLocal(q) ==
    /\ Go(q, "store", "storeShared")
    /\ local' = [local EXCEPT ![ProcessOf[q]][req[q].token] = Entry(q, TTL)]
    /\ UNCHANGED <<db, remote, change, budget, changer, missed>>

StoreShared(q) ==
    /\ Go(q, "storeShared", "served")
    /\ \/ /\ remote' = [remote EXCEPT ![req[q].token] = Entry(q, TTL)]
          /\ UNCHANGED budget
       \/ Spend("fault") /\ UNCHANGED remote
    /\ UNCHANGED <<db, local, change, changer, missed>>

EndRequest(q) ==
    /\ req[q].pc = "served"
    /\ Reject(q)
    /\ UNCHANGED <<db, caches, change, budget, changer, missed>>

\* Beyond _MAX_ITEMS the contexts of other users push an entry out.
Evict(p, t) ==
    /\ local[p][t] # NoEntry
    /\ local' = [local EXCEPT ![p][t] = NoEntry]
    /\ UNCHANGED <<db, remote, req, change, budget, changer, missed>>

-----------------------------------------------------------------------------
(* The operations that change the key or the rights, on some Web process.   *)

\* Every request under way when a change is committed may act on what it read before.
Commit(p, gives) ==
    /\ change[p].pc = "none" /\ Spend("change")
    /\ change' = [change EXCEPT ![p].pc = "select", ![p].gives = gives]
    /\ req' = [q \in Request |-> IF req[q].pc = "idle" THEN req[q]
                                 ELSE [req[q] EXCEPT !.raced = TRUE]]
    /\ changer' = p

\* rotate_api_key: the row of the key gets the digest of a new token.
Rotate(p) ==
    /\ Commit(p, key + 1)
    /\ key + 1 \in Token /\ key' = key + 1
    /\ UNCHANGED <<right, caches, missed>>

\* A subscription action, a cancellation, a profile update: _clear_user_auth_cache.
ChangeRight(p) ==
    /\ Commit(p, 0)
    /\ right' \in Right \ {right}
    /\ UNCHANGED <<key, caches, missed>>

\* clear_user_auth_context_cache reads the digests as they are after the commit; if it
\* cannot, it clears nothing.
ClearSelect(p) ==
    /\ change[p].pc = "select"
    /\ \/ /\ change' = [change EXCEPT ![p].pc = "local", ![p].token = key]
          /\ UNCHANGED <<budget, missed>>
       \/ /\ Spend("fault")
          /\ change' = [change EXCEPT ![p] = NoChange]
          /\ missed' = TRUE
    /\ UNCHANGED <<db, caches, req, changer>>

ClearLocal(p) ==
    /\ change[p].pc = "local"
    /\ change' = [change EXCEPT ![p].pc = "shared"]
    /\ local' = [local EXCEPT ![p][change[p].token] = NoEntry]
    /\ UNCHANGED <<db, remote, req, budget, changer, missed>>

\* Faulty variant: Redis is left alone.
ClearSharedNot(p) ==
    /\ change[p].pc = "shared"
    /\ change' = [change EXCEPT ![p] = NoChange]
    /\ UNCHANGED <<db, caches, req, budget, changer, missed>>

ClearShared(p) ==
    /\ change[p].pc = "shared"
    /\ change' = [change EXCEPT ![p] = NoChange]
    /\ \/ /\ remote' = [remote EXCEPT ![change[p].token] = NoEntry]
          /\ UNCHANGED <<budget, missed>>
       \/ Spend("fault") /\ missed' = TRUE /\ UNCHANGED remote
    /\ UNCHANGED <<db, local, req, changer>>

Tick ==
    /\ \A q \in Request : req[q].pc # "idle" => req[q].pc # "served" /\ req[q].held < MaxHold
    /\ local' = [p \in Process |-> [t \in Token |-> Older(local[p][t])]]
    /\ remote' = [t \in Token |-> Older(remote[t])]
    /\ req' = [q \in Request |->
                 IF req[q].pc = "idle" THEN req[q]
                 ELSE [req[q] EXCEPT !.held = @ + 1, !.age = IF Loaded(q) THEN @ + 1 ELSE @]]
    /\ UNCHANGED <<db, change, budget, changer, missed>>

Next ==
    \/ \E q \in Request :
         \/ \E t \in Token : BeginRequest(q, t)
         \/ GetShared(q) \/ GetFails(q) \/ Promote(q)
         \/ LoadKey(q) \/ LoadRight(q) \/ StoreLocal(q) \/ StoreShared(q)
         \/ EndRequest(q)
    \/ \E p \in Process :
         \/ Rotate(p) \/ ChangeRight(p)
         \/ ClearSelect(p) \/ ClearLocal(p) \/ ClearShared(p)
         \/ \E t \in Token : Evict(p, t)
    \/ Tick

Spec == Init /\ [][Next]_vars

-----------------------------------------------------------------------------
(* Properties.                                                             *)

MaxAge == MaxHold + TTL + (IF Promotion > MaxHold THEN Promotion ELSE MaxHold)
EntrySet == [left : 0..TTL, right : Right, age : 0..MaxAge, raced : BOOLEAN]

\* Every variable keeps its domain; no cached context is one of a user without rights.
TypeOK ==
    /\ key \in Token /\ right \in Right
    /\ local \in [Process -> [Token -> EntrySet]] /\ remote \in [Token -> EntrySet]
    /\ req \in [Request ->
         [pc : {"idle", "shared", "promote", "load", "loadRight", "store", "storeShared", "served"},
          token : Token, held : 0..MaxHold, right : Right, age : 0..MaxAge,
          raced : BOOLEAN, retired : BOOLEAN]]
    /\ change \in [Process -> [pc : {"none", "select", "local", "shared"}, token : Token,
                               gives : Token \cup {0}]]
    /\ \A q \in Request : req[q].pc = "served" => req[q].right # 0

\* However entries travel between Redis and the processes, a request is served on what
\* the database said at most one life in Redis, one life as a local copy and the time of
\* a request ago: promotions do not add up.
StaleForAWhileOnly ==
    \A q \in Request : req[q].pc = "served" => req[q].age < MaxAge

\* Once an operation has cleared the user's key, neither its process nor Redis holds an
\* older context for that key, except one that a request under way during the operation
\* has put back (docs/features/subscription-actions.md:127).
ClearedIsGone ==
    ~Changing /\ ~missed =>
        \A e \in {remote[key], local[changer][key]} :
            Fresh(e) /\ ~e.raced => e.right = right

\* docs/security/production-security.md:47 - a token that has been rotated out before a
\* request arrives is refused.
RotatedTokenRefused ==
    \A q \in Request : req[q].retired => req[q].pc # "served"
=============================================================================
