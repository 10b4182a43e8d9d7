-------------------------- MODULE AuthCacheProofs --------------------------
(***************************************************************************)
(* Theorems about the authentication contexts, for any number of Web       *)
(* processes, requests, tokens and rights and any lives of the entries.    *)
(* AuthInv has five parts: what an entry or a request says bounds its age  *)
(* at the end of its life (Typed); nothing is known of a token before it   *)
(* is given out (NotBefore); a request that no change has overtaken runs      *)
(* while there is none (Undisturbed), so that what it carries is what the  *)
(* database says (Current); and an older context in Redis, or in the       *)
(* process of the last change, is one a clear is still to reach            *)
(* (ToBeCleared).                                                          *)
(***************************************************************************)
EXTENDS AuthCache, TLAPS

Pcs == {"idle", "shared", "promote", "load", "loadRight", "store", "storeShared", "served"}
RequestRow == [pc : Pcs, token : Token, held : 0..MaxHold, right : Right, age : Nat,
               raced : BOOLEAN, retired : BOOLEAN]

\* The contexts that say nothing older than bound at the end of their life.
YoungEntries(bound) ==
    {e \in [left : 0..TTL, right : Right, age : Nat, raced : BOOLEAN] :
        e.age + e.left <= bound /\ (Fresh(e) => e.right # 0)}
InShared == YoungEntries(MaxHold + TTL)
InLocal == YoungEntries(MaxHold + TTL + Promotion - 1)

\* How old what a request has found may be, and that it grants something.
Sound(r) ==
    /\ r.pc \in {"idle", "shared", "load"} => r.age = 0
    /\ r.pc = "promote" => r.age < MaxHold + TTL + r.held
    /\ r.pc \in {"loadRight", "store", "storeShared"} => r.age <= r.held
    /\ r.pc = "served" => r.age < MaxAge
    /\ r.pc \in {"promote", "store", "storeShared", "served"} => r.right # 0

Columns ==
    /\ key \in Token /\ right \in Right
    /\ local \in [Process -> [Token -> InLocal]]
    /\ remote \in [Token -> InShared]
    /\ req \in [Request -> RequestRow]
    /\ change \in [Process -> [pc : {"none", "select", "local", "shared"}, token : Token,
                               gives : Token \cup {0}]]
    /\ changer \in Process /\ missed \in BOOLEAN
Typed == Columns /\ \A q \in Request : Sound(req[q])

\* Nothing is known of a token before it is given out.
NotBefore ==
    /\ \A t \in Token : t > key => ~Fresh(remote[t]) /\ \A p \in Process : ~Fresh(local[p][t])
    /\ \A q \in Request : req[q].token <= key

\* A request that no operation has met runs while there is none.
Undisturbed == \A q \in Request : req[q].pc # "idle" /\ ~req[q].raced => ~Changing

\* An older context that nobody has just put back.
Outdated(e) == Fresh(e) /\ ~e.raced /\ e.right # right
Current ==
    \A q \in Request :
        /\ req[q].pc \in {"promote", "store", "storeShared"}
        /\ ~req[q].raced /\ req[q].token = key /\ ~missed
        => req[q].right = right

\* The operation of p has yet to clear the key in Redis, or in its process.
InRedis(p) ==
    change[p].pc = "select" \/ (change[p].pc \in {"local", "shared"} /\ change[p].token = key)
InProcess(p) ==
    change[p].pc = "select" \/ (change[p].pc = "local" /\ change[p].token = key)
ToBeCleared ==
    ~missed => /\ Outdated(remote[key]) => \E p \in Process : InRedis(p)
               /\ Outdated(local[changer][key]) => InProcess(changer)

AuthInv == Typed /\ NotBefore /\ Undisturbed /\ Current /\ ToBeCleared

-----------------------------------------------------------------------------
(* Entries. *)

LEMMA Times ==
    /\ TTL \in Nat /\ TTL > 0 /\ Promotion \in Nat /\ Promotion > 0 /\ Promotion <= TTL
    /\ MaxHold \in Nat
    /\ MaxAge \in Nat /\ MaxAge >= MaxHold + TTL + MaxHold /\ MaxAge >= MaxHold + TTL + Promotion
    /\ 0 \in Right /\ Right \subseteq Nat /\ Token \subseteq Nat \ {0} /\ 1 \in Token
  BY TimeAssumption, RightAssumption, TokenAssumption DEF MaxAge

LEMMA EmptyEntry ==
    NoEntry \in InShared /\ NoEntry \in InLocal /\ ~Fresh(NoEntry)
  BY Times DEF NoEntry, InShared, InLocal, YoungEntries, Fresh

\* An entry ages, and ends; it says the same as long as it lives.
LEMMA OlderEntry ==
    ASSUME NEW bound \in Nat, NEW e \in YoungEntries(bound)
    PROVE  /\ Older(e) \in YoungEntries(bound)
           /\ Fresh(Older(e)) => Fresh(e) /\ Older(e).right = e.right /\ Older(e).raced = e.raced
  <1>1. CASE e.left <= 1
    <2>1. Older(e) = NoEntry
      BY <1>1 DEF Older
    <2> QED BY <2>1, Times DEF NoEntry, YoungEntries, Fresh
  <1>2. CASE e.left > 1
    <2>1. Older(e) = [e EXCEPT !.left = @ - 1, !.age = @ + 1]
      BY <1>2 DEF Older, YoungEntries
    <2>2. /\ e \in [left : 0..TTL, right : Right, age : Nat, raced : BOOLEAN]
          /\ e.age + e.left <= bound /\ e.age \in Nat /\ e.left \in Nat /\ e.right # 0 /\ Fresh(e)
      BY <1>2, Times DEF YoungEntries, Fresh
    <2>3. e.left - 1 \in 0..TTL /\ e.age + 1 \in Nat
      BY <1>2, <2>2, Times
    <2>4. /\ Older(e) \in [left : 0..TTL, right : Right, age : Nat, raced : BOOLEAN]
          /\ Older(e).left = e.left - 1 /\ Older(e).age = e.age + 1
          /\ Older(e).right = e.right /\ Older(e).raced = e.raced
      BY <2>1, <2>2, <2>3
    <2>5. (e.age + 1) + (e.left - 1) <= bound
      BY <2>2
    <2> QED BY <2>4, <2>2, <2>5 DEF YoungEntries
  <1>3. e.left \in Nat
    BY Times DEF YoungEntries
  <1> QED BY <1>1, <1>2, <1>3

\* What a request stores.
LEMMA StoredEntry ==
    ASSUME Typed, NEW q \in Request, NEW left \in Int, left <= TTL, NEW bound \in Nat,
           left > 0 => req[q].age + left <= bound, req[q].right # 0
    PROVE  /\ Entry(q, left) \in YoungEntries(bound)
           /\ Fresh(Entry(q, left)) =>
                Entry(q, left).right = req[q].right /\ Entry(q, left).raced = req[q].raced
  <1>0. req[q] \in RequestRow
    BY DEF Typed, Columns
  <1>1. CASE left <= 0
    <2>1. Entry(q, left) = NoEntry
      BY <1>1 DEF Entry
    <2> QED BY <2>1, Times DEF NoEntry, YoungEntries, Fresh
  <1>2. CASE left > 0
    <2>1. Entry(q, left) = [left |-> left, right |-> req[q].right, age |-> req[q].age,
                            raced |-> req[q].raced]
      BY <1>2 DEF Entry
    <2>2. Entry(q, left) \in [left : 0..TTL, right : Right, age : Nat, raced : BOOLEAN]
      BY <1>0, <1>2, <2>1, Times DEF RequestRow
    <2> QED BY <1>0, <1>2, <2>1, <2>2, Times DEF YoungEntries, Fresh
  <1> QED BY <1>1, <1>2

-----------------------------------------------------------------------------
(* What each step does to the request, and to the entry it touches. *)

RequestIs(q, pc, right0, age, raced) ==
    /\ req' \in [Request -> RequestRow]
    /\ req'[q].pc = pc /\ req'[q].token = req[q].token /\ req'[q].held = req[q].held
    /\ req'[q].right = right0 /\ req'[q].age = age /\ req'[q].raced = raced
    /\ \A r \in Request : r # q => req'[r] = req[r]
Ended(q) ==
    /\ req' \in [Request -> RequestRow]
    /\ req'[q] = NoRequest
    /\ \A r \in Request : r # q => req'[r] = req[r]

LEMMA NoRequestRow == NoRequest \in RequestRow /\ Sound(NoRequest) /\ NoRequest.pc = "idle"
                      /\ NoRequest.token = 1
  BY Times DEF NoRequest, RequestRow, Pcs, Sound

LEMMA RefuseEffect ==
    ASSUME Typed, NEW q \in Request, Reject(q)
    PROVE  Ended(q)
  BY NoRequestRow DEF Reject, Ended, Typed, Columns

\* A context that may stay for the key in force.
Harmless(e, t) == t = key /\ ~missed => e.raced \/ e.right = right

\* A step of a request: what it puts into a cache is harmless, and it is itself current.
LEMMA RequestStep ==
    ASSUME AuthInv, Typed', UNCHANGED <<key, right, change, changer, missed>>,
           \A q \in Request :
              \/ req'[q] = req[q]
              \/ /\ req'[q].token <= key
                 /\ req'[q].pc # "idle" /\ ~req'[q].raced => ~Changing
                 /\ req'[q].pc \in {"promote", "store", "storeShared"} /\ ~req'[q].raced
                      /\ req'[q].token = key /\ ~missed
                      => req'[q].right = right,
           \A t \in Token : Fresh(remote'[t])
              => remote'[t] = remote[t] \/ (t <= key /\ Harmless(remote'[t], t)),
           \A p \in Process, t \in Token : Fresh(local'[p][t])
              => local'[p][t] = local[p][t] \/ (t <= key /\ Harmless(local'[p][t], t))
    PROVE  AuthInv'
  <1>k. key \in Token /\ changer \in Process /\ Token \subseteq Nat
    BY Times DEF AuthInv, Typed, Columns
  <1>1. NotBefore'
    <2>1. \A t \in Token : t > key => ~(t <= key)
      BY <1>k
    <2> QED BY <1>k, <2>1 DEF AuthInv, NotBefore, Fresh
  <1>2. Undisturbed'
    <2>1. Changing' <=> Changing
      BY DEF Changing
    <2> QED BY <2>1 DEF AuthInv, Undisturbed
  <1>3. Current'
    BY DEF AuthInv, Current
  <1>4. ToBeCleared'
    <2>1. ASSUME ~missed, Outdated(remote[key])'
          PROVE  \E p \in Process : InRedis(p)'
      <3>1. Outdated(remote[key])
        BY <1>k, <2>1 DEF Outdated, Harmless, Fresh
      <3>2. PICK p \in Process : InRedis(p)
        BY <2>1, <3>1 DEF AuthInv, ToBeCleared
      <3> QED BY <3>2 DEF InRedis
    <2>2. ASSUME ~missed, Outdated(local[changer][key])'
          PROVE  InProcess(changer)'
      <3>1. Outdated(local[changer][key])
        BY <1>k, <2>2 DEF Outdated, Harmless, Fresh
      <3> QED BY <2>2, <3>1 DEF AuthInv, ToBeCleared, InProcess
    <2> QED BY <2>1, <2>2 DEF ToBeCleared
  <1> QED BY <1>1, <1>2, <1>3, <1>4 DEF AuthInv

\* While no operation runs, a context in Redis is harmless.
LEMMA SharedIsCurrent ==
    ASSUME AuthInv, ~Changing, Fresh(remote[key]), ~missed
    PROVE  remote[key].raced \/ remote[key].right = right
  <1>1. \A p \in Process : ~InRedis(p)
    BY DEF Changing, InRedis
  <1> QED BY <1>1 DEF AuthInv, ToBeCleared, Outdated

LEMMA ArriveKeeps == ASSUME AuthInv, NEW q \in Request, NEW t \in Token, BeginRequest(q, t) PROVE AuthInv'
  <1> DEFINE e == local[ProcessOf[q]][t]
  <1>1. /\ Known(t) /\ UNCHANGED <<key, right, remote, change, changer, missed>>
        /\ ProcessOf[q] \in Process /\ e \in InLocal
        /\ t <= key
    BY ProcessOfIsProcess DEF BeginRequest, db, AuthInv, Typed, Columns, Known
  <1>2. CASE Fresh(e)
    <2>1. UNCHANGED local
      BY <1>2 DEF BeginRequest
    <2> DEFINE r == [pc |-> "served", token |-> t, held |-> 0, right |-> e.right, age |-> e.age,
                     raced |-> Changing, retired |-> (t # key /\ ~Changing)]
    <2>2. req' = [req EXCEPT ![q] = r]
      BY <1>2 DEF BeginRequest, NoRequest
    <2>3. r \in RequestRow /\ Sound(r) /\ r.token = t /\ r.pc = "served" /\ r.raced = Changing
      <3>1. e.age \in Nat /\ e.left \in Nat /\ e.left > 0 /\ e.right \in Right /\ e.right # 0
            /\ e.age + e.left <= MaxHold + TTL + Promotion - 1
        BY <1>1, <1>2 DEF InLocal, YoungEntries, Fresh
      <3>3. Changing \in BOOLEAN /\ (t # key /\ ~Changing) \in BOOLEAN
        BY DEF Changing
      <3>4. e.age < MaxAge
        BY <3>1, Times
      <3> HIDE DEF e
      <3> QED BY <3>1, <3>3, <3>4, Times DEF RequestRow, Pcs, Sound
    <2> HIDE DEF r
    <2>4. Typed'
      BY <1>1, <2>1, <2>2, <2>3 DEF AuthInv, Typed, Columns, Sound
    <2>5. req'[q] = r /\ \A s \in Request : s # q => req'[s] = req[s]
      BY <2>2 DEF AuthInv, Typed, Columns
    <2> QED BY <1>1, <2>1, <2>3, <2>4, <2>5, RequestStep
  <1>3. CASE ~Fresh(e)
    <2>1. local' = [local EXCEPT ![ProcessOf[q]][t] = NoEntry]
      BY <1>3 DEF BeginRequest
    <2> DEFINE r == [pc |-> "shared", token |-> t, held |-> 0, right |-> 0, age |-> 0,
                     raced |-> Changing, retired |-> (t # key /\ ~Changing)]
    <2>2. req' = [req EXCEPT ![q] = r]
      BY <1>3 DEF BeginRequest, NoRequest
    <2>3. r \in RequestRow /\ Sound(r) /\ r.token = t /\ r.pc = "shared" /\ r.raced = Changing
      <3>3. Changing \in BOOLEAN /\ (t # key /\ ~Changing) \in BOOLEAN
        BY DEF Changing
      <3> QED BY <3>3, Times DEF RequestRow, Pcs, Sound
    <2> HIDE DEF r
    <2>4. Typed'
      BY <1>1, <2>1, <2>2, <2>3, EmptyEntry DEF AuthInv, Typed, Columns, Sound
    <2>5. req'[q] = r /\ \A s \in Request : s # q => req'[s] = req[s]
      BY <2>2 DEF AuthInv, Typed, Columns
    <2>6. \A p \in Process, u \in Token : local'[p][u] = local[p][u] \/ local'[p][u] = NoEntry
      BY <2>1 DEF AuthInv, Typed, Columns
    <2> QED BY <1>1, <2>3, <2>4, <2>5, <2>6, EmptyEntry, RequestStep
  <1> QED BY <1>2, <1>3

LEMMA GetSharedKeeps == ASSUME AuthInv, NEW q \in Request, GetShared(q) PROVE AuthInv'
  <1> DEFINE e == remote[req[q].token]
  <1>1. /\ req[q].pc = "shared" /\ UNCHANGED <<key, right, local, remote, change, changer, missed>>
        /\ req[q] \in RequestRow /\ e \in InShared /\ Sound(req[q]) /\ req[q].token <= key
    BY DEF GetShared, db, caches, AuthInv, Typed, Columns, RequestRow, NotBefore
  <1>2. CASE Fresh(e)
    <2>1. RequestIs(q, "promote", e.right, e.age, req[q].raced \/ e.raced)
      BY <1>1, <1>2 DEF GetShared, RequestIs, RequestRow, Pcs, AuthInv, Typed, Columns, InShared, YoungEntries
    <2>2. Sound(req'[q])
      BY <1>1, <1>2, <2>1, Times DEF Sound, RequestIs, InShared, YoungEntries, Fresh, RequestRow
    <2>3. Typed'
      BY <1>1, <2>1, <2>2 DEF AuthInv, Typed, Columns, RequestIs
    <2>4. ~req'[q].raced => ~Changing /\ ~e.raced
      BY <1>1, <2>1 DEF AuthInv, Undisturbed, RequestIs
    <2>5. ~req'[q].raced /\ req'[q].token = key /\ ~missed => req'[q].right = right
      BY <1>2, <2>1, <2>4, SharedIsCurrent DEF RequestIs
    <2> HIDE DEF e
    <2> QED BY <1>1, <2>1, <2>3, <2>4, <2>5, RequestStep DEF RequestIs
  <1>3. CASE ~Fresh(e)
    <2>1. RequestIs(q, "load", req[q].right, req[q].age, req[q].raced)
      BY <1>1, <1>3 DEF GetShared, RequestIs, RequestRow, Pcs, AuthInv, Typed, Columns
    <2>2. Sound(req'[q])
      BY <1>1, <2>1 DEF Sound, RequestIs
    <2>3. Typed'
      BY <1>1, <2>1, <2>2 DEF AuthInv, Typed, Columns, RequestIs
    <2>4. ~req'[q].raced => ~Changing
      BY <1>1, <2>1 DEF AuthInv, Undisturbed, RequestIs
    <2> QED BY <1>1, <2>1, <2>3, <2>4, RequestStep DEF RequestIs
  <1> QED BY <1>2, <1>3

\* The end of a request, whatever its answer.
LEMMA EndKeeps ==
    ASSUME AuthInv, NEW q \in Request, Reject(q),
           UNCHANGED <<key, right, local, remote, change, changer, missed>>
    PROVE  AuthInv'
  <1>1. Ended(q)
    BY RefuseEffect DEF AuthInv
  <1>2. Typed'
    BY <1>1, NoRequestRow DEF Ended, AuthInv, Typed, Columns
  <1>3. 1 <= key
    BY Times DEF AuthInv, Typed, Columns
  <1> QED BY <1>1, <1>2, <1>3, NoRequestRow, RequestStep DEF Ended

LEMMA LoadKeeps ==
    ASSUME AuthInv, NEW q \in Request, LoadKey(q) \/ LoadRight(q)
    PROVE  AuthInv'
  <1>1. /\ req[q].pc \in {"load", "loadRight"}
        /\ UNCHANGED <<key, right, local, remote, change, changer, missed>>
        /\ req[q] \in RequestRow /\ Sound(req[q]) /\ req[q].token <= key
    BY DEF LoadKey, LoadRight, db, caches, AuthInv, Typed, Columns, RequestRow, NotBefore
  <1>2. CASE Reject(q)
    BY <1>1, <1>2, EndKeeps
  <1>3. CASE LoadKey(q) /\ ~Reject(q)
    <2>1. RequestIs(q, "loadRight", req[q].right, req[q].age, req[q].raced) /\ req[q].pc = "load"
      BY <1>1, <1>3 DEF LoadKey, RequestIs, RequestRow, Pcs, AuthInv, Typed, Columns
    <2>2. Sound(req'[q])
      BY <1>1, <2>1 DEF Sound, RequestIs, RequestRow
    <2>3. Typed'
      BY <1>1, <2>1, <2>2 DEF AuthInv, Typed, Columns, RequestIs
    <2>4. ~req'[q].raced => ~Changing
      BY <1>1, <2>1 DEF AuthInv, Undisturbed, RequestIs
    <2> QED BY <1>1, <2>1, <2>3, <2>4, RequestStep DEF RequestIs
  <1>4. CASE LoadRight(q) /\ ~Reject(q)
    <2>1. RequestIs(q, "store", right, req[q].age, req[q].raced) /\ req[q].pc = "loadRight"
          /\ right # 0
      <3>1. right # 0 /\ req[q].pc = "loadRight"
            /\ req' = [req EXCEPT ![q].pc = "store", ![q].right = right] /\ right \in Right
        BY <1>4 DEF LoadRight, AuthInv, Typed, Columns
      <3> QED BY <1>1, <3>1 DEF RequestIs, RequestRow, Pcs, AuthInv, Typed, Columns
    <2>2. Sound(req'[q])
      BY <1>1, <2>1 DEF Sound, RequestIs, RequestRow
    <2>3. Typed'
      BY <1>1, <2>1, <2>2 DEF AuthInv, Typed, Columns, RequestIs
    <2>4. ~req'[q].raced => ~Changing
      BY <1>1, <2>1 DEF AuthInv, Undisturbed, RequestIs
    <2> QED BY <1>1, <2>1, <2>3, <2>4, RequestStep DEF RequestIs
  <1> QED BY <1>2, <1>3, <1>4

LEMMA PromoteKeeps == ASSUME AuthInv, NEW q \in Request, Promote(q) PROVE AuthInv'
  <1> DEFINE e == Entry(q, Promotion - req[q].held)
             t == req[q].token
  <1>1. /\ req[q].pc = "promote" /\ UNCHANGED <<key, right, remote, change, changer, missed>>
        /\ req[q] \in RequestRow /\ Sound(req[q]) /\ t <= key /\ t \in Token /\ ProcessOf[q] \in Process
        /\ local' = [local EXCEPT ![ProcessOf[q]][t] = e]
    BY ProcessOfIsProcess DEF Promote, Go, db, AuthInv, Typed, Columns, RequestRow, NotBefore
  <1>2. RequestIs(q, "served", req[q].right, req[q].age, req[q].raced)
    BY <1>1 DEF Promote, Go, RequestIs, RequestRow, Pcs, AuthInv, Typed, Columns
  <1>3. Sound(req'[q])
    BY <1>1, <1>2, Times DEF Sound, RequestIs, RequestRow
  <1>4. e \in InLocal /\ (Fresh(e) => e.right = req[q].right /\ e.raced = req[q].raced)
    <2>1. /\ Promotion - req[q].held \in Int /\ Promotion - req[q].held <= TTL
          /\ MaxHold + TTL + Promotion - 1 \in Nat
          /\ req[q].age + (Promotion - req[q].held) <= MaxHold + TTL + Promotion - 1
          /\ req[q].right # 0
      BY <1>1, Times DEF RequestRow, Sound
    <2> QED BY <2>1, StoredEntry DEF InLocal, AuthInv
  <1> HIDE DEF e
  <1>5. Typed'
    BY <1>1, <1>2, <1>3, <1>4 DEF AuthInv, Typed, Columns, RequestIs
  <1>6. Fresh(e) => Harmless(e, t)
    BY <1>1, <1>4 DEF AuthInv, Current, Harmless
  <1>7. \A p \in Process, u \in Token : local'[p][u] = local[p][u] \/ (u = t /\ local'[p][u] = e)
    BY <1>1 DEF AuthInv, Typed, Columns
  <1>8. ~req'[q].raced => ~Changing
    BY <1>1, <1>2 DEF AuthInv, Undisturbed, RequestIs
  <1> HIDE DEF t
  <1> QED BY <1>1, <1>2, <1>5, <1>6, <1>7, <1>8, RequestStep DEF RequestIs, t

LEMMA StoreLocalKeeps == ASSUME AuthInv, NEW q \in Request, StoreLocal(q) PROVE AuthInv'
  <1> DEFINE e == Entry(q, TTL)
             t == req[q].token
  <1>1. /\ req[q].pc = "store" /\ UNCHANGED <<key, right, remote, change, changer, missed>>
        /\ req[q] \in RequestRow /\ Sound(req[q]) /\ t <= key /\ t \in Token /\ ProcessOf[q] \in Process
        /\ local' = [local EXCEPT ![ProcessOf[q]][t] = e]
    BY ProcessOfIsProcess DEF StoreLocal, Go, db, AuthInv, Typed, Columns, RequestRow, NotBefore
  <1>2. RequestIs(q, "storeShared", req[q].right, req[q].age, req[q].raced)
    BY <1>1 DEF StoreLocal, Go, RequestIs, RequestRow, Pcs, AuthInv, Typed, Columns
  <1>3. Sound(req'[q])
    BY <1>1, <1>2 DEF Sound, RequestIs, RequestRow
  <1>4. e \in InLocal /\ (Fresh(e) => e.right = req[q].right /\ e.raced = req[q].raced)
    <2>1. /\ TTL \in Int /\ TTL <= TTL
          /\ MaxHold + TTL + Promotion - 1 \in Nat
          /\ req[q].age + TTL <= MaxHold + TTL + Promotion - 1
          /\ req[q].right # 0
      BY <1>1, Times DEF RequestRow, Sound
    <2> QED BY <2>1, StoredEntry DEF InLocal, AuthInv
  <1> HIDE DEF e
  <1>5. Typed'
    BY <1>1, <1>2, <1>3, <1>4 DEF AuthInv, Typed, Columns, RequestIs
  <1>6. Fresh(e) => Harmless(e, t)
    BY <1>1, <1>4 DEF AuthInv, Current, Harmless
  <1>7. \A p \in Process, u \in Token : local'[p][u] = local[p][u] \/ (u = t /\ local'[p][u] = e)
    BY <1>1 DEF AuthInv, Typed, Columns
  <1>8. /\ ~req'[q].raced => ~Changing
        /\ ~req'[q].raced /\ req'[q].token = key /\ ~missed => req'[q].right = right
    BY <1>1, <1>2 DEF AuthInv, Undisturbed, Current, RequestIs
  <1> HIDE DEF t
  <1> QED BY <1>1, <1>2, <1>5, <1>6, <1>7, <1>8, RequestStep DEF RequestIs, t

LEMMA StoreSharedKeeps == ASSUME AuthInv, NEW q \in Request, StoreShared(q) PROVE AuthInv'
  <1> DEFINE e == Entry(q, TTL)
             t == req[q].token
  <1>1. /\ req[q].pc = "storeShared" /\ UNCHANGED <<key, right, local, change, changer, missed>>
        /\ req[q] \in RequestRow /\ Sound(req[q]) /\ t <= key /\ t \in Token
        /\ remote' = [remote EXCEPT ![t] = e] \/ UNCHANGED remote
    BY DEF StoreShared, Go, db, AuthInv, Typed, Columns, RequestRow, NotBefore
  <1>2. RequestIs(q, "served", req[q].right, req[q].age, req[q].raced)
    BY <1>1 DEF StoreShared, Go, RequestIs, RequestRow, Pcs, AuthInv, Typed, Columns
  <1>3. Sound(req'[q])
    BY <1>1, <1>2, Times DEF Sound, RequestIs, RequestRow
  <1>4. e \in InShared /\ (Fresh(e) => e.right = req[q].right /\ e.raced = req[q].raced)
    <2>1. /\ TTL \in Int /\ TTL <= TTL
          /\ MaxHold + TTL \in Nat
          /\ req[q].age + TTL <= MaxHold + TTL
          /\ req[q].right # 0
      BY <1>1, Times DEF RequestRow, Sound
    <2> QED BY <2>1, StoredEntry DEF InShared, AuthInv
  <1> HIDE DEF e
  <1>5. Typed'
    BY <1>1, <1>2, <1>3, <1>4 DEF AuthInv, Typed, Columns, RequestIs
  <1>6. Fresh(e) => Harmless(e, t)
    BY <1>1, <1>4 DEF AuthInv, Current, Harmless
  <1>7. \A u \in Token : remote'[u] = remote[u] \/ (u = t /\ remote'[u] = e)
    BY <1>1 DEF AuthInv, Typed, Columns
  <1>8. ~req'[q].raced => ~Changing
    BY <1>1, <1>2 DEF AuthInv, Undisturbed, RequestIs
  <1> HIDE DEF t
  <1> QED BY <1>1, <1>2, <1>5, <1>6, <1>7, <1>8, RequestStep DEF RequestIs, t

LEMMA EvictKeeps == ASSUME AuthInv, NEW p \in Process, NEW t \in Token, Evict(p, t) PROVE AuthInv'
  <1>1. /\ UNCHANGED <<key, right, remote, req, change, changer, missed>>
        /\ local' = [local EXCEPT ![p][t] = NoEntry]
    BY DEF Evict, db
  <1>2. Typed'
    BY <1>1, EmptyEntry DEF AuthInv, Typed, Columns, Sound
  <1>3. \A r \in Process, u \in Token : local'[r][u] = local[r][u] \/ local'[r][u] = NoEntry
    BY <1>1 DEF AuthInv, Typed, Columns
  <1> QED BY <1>1, <1>2, <1>3, EmptyEntry, RequestStep

-----------------------------------------------------------------------------
(* Clears, changes and the clock. *)

LEMMA ClearSelectKeeps == ASSUME AuthInv, NEW p \in Process, ClearSelect(p) PROVE AuthInv'
  <1>1. /\ change[p].pc = "select" /\ UNCHANGED <<key, right, local, remote, req, changer>>
        /\ key \in Token
    BY DEF ClearSelect, db, caches, AuthInv, Typed, Columns
  <1>2. Typed' /\ (\A r \in Process : r # p => change'[r] = change[r])
    <2>1. /\ change' = [change EXCEPT ![p].pc = "local", ![p].token = key]
             \/ change' = [change EXCEPT ![p] = NoChange]
          /\ missed' \in BOOLEAN
      BY DEF ClearSelect, AuthInv, Typed, Columns
    <2>2. NoChange \in [pc : {"none", "select", "local", "shared"}, token : Token,
                        gives : Token \cup {0}]
      BY Times DEF NoChange
    <2>3. change' \in [Process -> [pc : {"none", "select", "local", "shared"}, token : Token,
                                   gives : Token \cup {0}]]
      BY <1>1, <2>1, <2>2 DEF AuthInv, Typed, Columns
    <2> QED BY <1>1, <2>1, <2>3 DEF AuthInv, Typed, Columns
  <1>3. NotBefore'
    BY <1>1 DEF AuthInv, NotBefore, Fresh
  <1>4. Undisturbed'
    BY <1>1, <1>2 DEF AuthInv, Undisturbed, Changing
  <1>5. CASE missed'
    BY <1>2, <1>3, <1>4, <1>5 DEF AuthInv, Current, ToBeCleared
  <1>6. CASE ~missed'
    <2>1. change'[p].pc = "local" /\ change'[p].token = key /\ ~missed
      BY <1>1, <1>6 DEF ClearSelect, AuthInv, Typed, Columns
    <2>2. \A r \in Process : InRedis(r) => InRedis(r)'
      BY <1>1, <1>2, <2>1 DEF InRedis
    <2>3. \A r \in Process : InProcess(r) => InProcess(r)'
      BY <1>1, <1>2, <2>1 DEF InProcess
    <2>4. changer \in Process
      BY DEF AuthInv, Typed, Columns
    <2>5. Current'
      BY <1>1, <2>1 DEF AuthInv, Current
    <2>6. ToBeCleared'
      BY <1>1, <2>1, <2>2, <2>3, <2>4 DEF AuthInv, ToBeCleared, Outdated, Fresh
    <2> QED BY <1>2, <1>3, <1>4, <2>5, <2>6 DEF AuthInv
  <1> QED BY <1>5, <1>6

LEMMA ClearLocalKeeps == ASSUME AuthInv, NEW p \in Process, ClearLocal(p) PROVE AuthInv'
  <1>1. /\ change[p].pc = "local"
        /\ UNCHANGED <<key, right, remote, req, changer, missed>>
        /\ change' = [change EXCEPT ![p].pc = "shared"]
        /\ local' = [local EXCEPT ![p][change[p].token] = NoEntry]
        /\ change[p].token \in Token
    BY DEF ClearLocal, db, AuthInv, Typed, Columns
  <1>2. Typed'
    BY <1>1, EmptyEntry DEF AuthInv, Typed, Columns, Sound
  <1>3. /\ \A r \in Process : r # p => change'[r] = change[r]
        /\ change'[p].pc = "shared" /\ change'[p].token = change[p].token
        /\ \A r \in Process, t \in Token :
              \/ local'[r][t] = local[r][t]
              \/ local'[r][t] = NoEntry
        /\ local'[p][change[p].token] = NoEntry
    BY <1>1 DEF AuthInv, Typed, Columns
  <1>4. NotBefore'
    BY <1>1, <1>3, EmptyEntry DEF AuthInv, NotBefore, Fresh
  <1>5. Undisturbed'
    BY <1>1, <1>3 DEF AuthInv, Undisturbed, Changing
  <1>6. Current'
    BY <1>1 DEF AuthInv, Current
  <1>7. ToBeCleared'
    <2>1. \A r \in Process : InRedis(r) => InRedis(r)'
      BY <1>1, <1>3 DEF InRedis
    <2>2. \A r \in Process : r # p \/ change[p].token # key => (InProcess(r) => InProcess(r)')
      BY <1>1, <1>3 DEF InProcess
    <2>3. changer \in Process /\ key \in Token
      BY DEF AuthInv, Typed, Columns
    <2>4. Outdated(local[changer][key])' => Outdated(local[changer][key])
      BY <1>1, <1>3, <2>3, EmptyEntry DEF Outdated, Fresh
    <2>5. changer = p /\ change[p].token = key => ~Outdated(local[changer][key])'
      BY <1>1, <1>3, EmptyEntry DEF Outdated, Fresh
    <2>6. ASSUME ~missed', Outdated(local[changer][key])' PROVE InProcess(changer)'
      BY <1>1, <2>2, <2>3, <2>4, <2>5, <2>6 DEF AuthInv, ToBeCleared
    <2>7. ASSUME ~missed', Outdated(remote[key])' PROVE \E r \in Process : InRedis(r)'
      BY <1>1, <2>1, <2>7 DEF AuthInv, ToBeCleared, Outdated, Fresh
    <2> QED BY <2>6, <2>7 DEF ToBeCleared
  <1> QED BY <1>2, <1>4, <1>5, <1>6, <1>7 DEF AuthInv

LEMMA ClearSharedKeeps == ASSUME AuthInv, NEW p \in Process, ClearShared(p) PROVE AuthInv'
  <1>1. /\ change[p].pc = "shared" /\ UNCHANGED <<key, right, local, req, changer>>
        /\ change' = [change EXCEPT ![p] = NoChange]
        /\ change[p].token \in Token /\ key \in Token /\ changer \in Process
        /\ change'[p] = NoChange
        /\ \A r \in Process : r # p => change'[r] = change[r]
    BY DEF ClearShared, db, AuthInv, Typed, Columns
  <1>2. \/ remote' = [remote EXCEPT ![change[p].token] = NoEntry] /\ missed' = missed
        \/ missed' = TRUE /\ remote' = remote
    BY DEF ClearShared
  <1>3. Typed'
    <2>1. NoChange \in [pc : {"none", "select", "local", "shared"}, token : Token,
                        gives : Token \cup {0}]
      BY Times DEF NoChange
    <2>2. change' \in [Process -> [pc : {"none", "select", "local", "shared"}, token : Token,
                                   gives : Token \cup {0}]]
      BY <1>1, <2>1 DEF AuthInv, Typed, Columns
    <2>3. remote' \in [Token -> InShared] /\ missed' \in BOOLEAN
      BY <1>1, <1>2, EmptyEntry DEF AuthInv, Typed, Columns
    <2> QED BY <1>1, <2>2, <2>3 DEF AuthInv, Typed, Columns
  <1>4. /\ \A t \in Token : remote'[t] = remote[t] \/ remote'[t] = NoEntry
        /\ ~missed' => ~missed /\ remote'[change[p].token] = NoEntry
    BY <1>1, <1>2 DEF AuthInv, Typed, Columns
  <1>5. NotBefore'
    BY <1>1, <1>4, EmptyEntry DEF AuthInv, NotBefore, Fresh
  <1>6. Undisturbed'
    BY <1>1 DEF AuthInv, Undisturbed, Changing, NoChange
  <1>7. Current'
    BY <1>1, <1>4 DEF AuthInv, Current
  <1>8. ToBeCleared'
    <2>1. ASSUME ~missed', Outdated(local[changer][key])' PROVE InProcess(changer)'
      <3>1. InProcess(changer)
        BY <1>1, <1>4, <2>1 DEF AuthInv, ToBeCleared, Outdated, Fresh
      <3>2. changer # p
        BY <1>1, <3>1 DEF InProcess
      <3> QED BY <1>1, <3>1, <3>2 DEF InProcess
    <2>2. ASSUME ~missed', Outdated(remote[key])' PROVE \E r \in Process : InRedis(r)'
      <3>1. remote'[key] = remote[key] /\ change[p].token # key
        BY <1>1, <1>4, <2>2, EmptyEntry DEF Outdated, Fresh
      <3>2. PICK r \in Process : InRedis(r)
        BY <1>1, <1>4, <2>2, <3>1 DEF AuthInv, ToBeCleared, Outdated, Fresh
      <3>3. r # p
        BY <1>1, <3>1, <3>2 DEF InRedis
      <3> QED BY <1>1, <3>2, <3>3 DEF InRedis
    <2> QED BY <2>1, <2>2 DEF ToBeCleared
  <1> QED BY <1>3, <1>5, <1>6, <1>7, <1>8 DEF AuthInv

\* A commit disturbs every request under way, and everything is yet to be cleared.
LEMMA CommitKeeps ==
    ASSUME AuthInv, NEW p \in Process, NEW gives \in Token \cup {0}, Commit(p, gives),
           key' \in Token, key' >= key, right' \in Right, UNCHANGED <<local, remote, missed>>
    PROVE  AuthInv'
  <1>1. /\ change' = [change EXCEPT ![p].pc = "select", ![p].gives = gives] /\ changer' = p
        /\ req' = [q \in Request |-> IF req[q].pc = "idle" THEN req[q]
                                      ELSE [req[q] EXCEPT !.raced = TRUE]]
        /\ req \in [Request -> RequestRow]
    BY DEF Commit, AuthInv, Typed, Columns
  <1>2. \A q \in Request :
          /\ req'[q] \in RequestRow /\ (req'[q].pc # "idle" => req'[q].raced)
          /\ req'[q].pc = req[q].pc /\ req'[q].token = req[q].token
          /\ req'[q].age = req[q].age /\ req'[q].held = req[q].held
          /\ req'[q].right = req[q].right
    <2> TAKE q \in Request
    <2>1. req[q] \in RequestRow
      BY <1>1
    <2>2. CASE req[q].pc = "idle"
      BY <1>1, <2>1, <2>2
    <2>3. CASE req[q].pc # "idle"
      <3>1. req'[q] = [req[q] EXCEPT !.raced = TRUE]
        BY <1>1, <2>3
      <3> QED BY <2>1, <3>1 DEF RequestRow
    <2> QED BY <2>2, <2>3
  <1>3. req' \in [Request -> RequestRow]
    BY <1>1, <1>2
  <1>4. change' \in [Process -> [pc : {"none", "select", "local", "shared"}, token : Token,
                                 gives : Token \cup {0}]]
    BY <1>1 DEF AuthInv, Typed, Columns
  <1>5. Typed'
    <2>1. \A q \in Request : Sound(req'[q])
      BY <1>2 DEF Sound, AuthInv, Typed
    <2> QED BY <1>1, <1>3, <1>4, <2>1 DEF AuthInv, Typed, Columns
  <1>6. key \in Nat /\ key' \in Nat /\ Token \subseteq Nat
    BY Times DEF AuthInv, Typed, Columns
  <1>7. NotBefore'
    <2>1. \A t \in Token : t > key' => t > key
      BY <1>6
    <2>2. \A q \in Request : req'[q].token <= key'
      <3> TAKE q \in Request
      <3>1. req[q].token <= key /\ req[q].token \in Nat
        BY <1>1, <1>6 DEF AuthInv, NotBefore, RequestRow
      <3> QED BY <1>2, <1>6, <3>1
    <2> QED BY <2>1, <2>2 DEF AuthInv, NotBefore, Fresh
  <1>8. Undisturbed'
    BY <1>2 DEF Undisturbed
  <1>9. Current'
    BY <1>2 DEF Current
  <1>10. change'[p].pc = "select"
    BY <1>1 DEF AuthInv, Typed, Columns
  <1>11. InRedis(p)' /\ InProcess(changer)'
    BY <1>1, <1>10 DEF InRedis, InProcess
  <1>12. ToBeCleared'
    BY <1>11 DEF ToBeCleared
  <1> QED BY <1>5, <1>7, <1>8, <1>9, <1>12 DEF AuthInv

LEMMA RotateKeeps == ASSUME AuthInv, NEW p \in Process, Rotate(p) PROVE AuthInv'
  <1>1. /\ Commit(p, key + 1) /\ key + 1 \in Token /\ key' = key + 1
        /\ right' \in Right /\ UNCHANGED <<local, remote, missed>> /\ key \in Nat
    BY Times DEF Rotate, caches, AuthInv, Typed, Columns
  <1>2. key' >= key
    BY <1>1
  <1> QED BY <1>1, <1>2, CommitKeeps

LEMMA ChangeRightKeeps == ASSUME AuthInv, NEW p \in Process, ChangeRight(p) PROVE AuthInv'
  <1>1. /\ Commit(p, 0) /\ key' = key /\ key \in Token
        /\ right' \in Right /\ UNCHANGED <<local, remote, missed>> /\ key \in Nat
    BY Times DEF ChangeRight, caches, AuthInv, Typed, Columns
  <1>2. key' >= key
    BY <1>1
  <1> QED BY <1>1, <1>2, CommitKeeps

\* The clock does not make a request older than the time it is allowed to take.
LEMMA TickRequests ==
    ASSUME AuthInv, Tick, NEW q \in Request
    PROVE  /\ req'[q] \in RequestRow /\ Sound(req'[q])
           /\ req'[q].pc = req[q].pc /\ req'[q].token = req[q].token
           /\ req'[q].right = req[q].right /\ req'[q].raced = req[q].raced
  <1>1. req[q] \in RequestRow /\ Sound(req[q])
    BY DEF AuthInv, Typed, Columns
  <1>2. CASE req[q].pc = "idle"
    <2>1. req'[q] = req[q]
      BY <1>2 DEF Tick
    <2> QED BY <1>1, <2>1
  <1>3. CASE req[q].pc # "idle"
    <2> DEFINE later == IF Loaded(q) THEN req[q].age + 1 ELSE req[q].age
    <2>1. req'[q] = [req[q] EXCEPT !.held = @ + 1, !.age = IF Loaded(q) THEN @ + 1 ELSE @]
      BY <1>3 DEF Tick
    <2>2. req[q].held < MaxHold /\ req[q].pc # "served"
      BY <1>3 DEF Tick
    <2>3. req[q].held + 1 \in 0..MaxHold /\ later \in Nat
      BY <1>1, <2>2, Times DEF RequestRow
    <2>4. /\ req'[q].held = req[q].held + 1 /\ req'[q].age = later
          /\ req'[q].pc = req[q].pc /\ req'[q].token = req[q].token
          /\ req'[q].right = req[q].right /\ req'[q].raced = req[q].raced
          /\ req'[q] \in RequestRow
      BY <1>1, <2>1, <2>3 DEF RequestRow
    <2>5. CASE Loaded(q)
      <3>1. later = req[q].age + 1
        BY <2>5
      <3>2. req[q].age \in Nat /\ req[q].held \in Nat
        BY <1>1 DEF RequestRow
      <3> HIDE DEF later
      <3> QED BY <1>1, <1>3, <2>2, <2>4, <2>5, <3>1, <3>2, Times DEF Sound, Loaded
    <2>6. CASE ~Loaded(q)
      <3>1. req[q].pc \in {"shared", "load"} /\ later = req[q].age
        BY <1>1, <1>3, <2>6 DEF Loaded, RequestRow, Pcs
      <3> HIDE DEF later
      <3> QED BY <1>1, <2>4, <3>1 DEF Sound
    <2> QED BY <2>4, <2>5, <2>6
  <1> QED BY <1>2, <1>3

LEMMA AuthTickKeeps == ASSUME AuthInv, Tick PROVE AuthInv'
  <1>1. UNCHANGED <<key, right, change, changer, missed>> /\ key \in Token /\ changer \in Process
    BY DEF Tick, db, AuthInv, Typed, Columns
  <1>2. /\ \A p \in Process, t \in Token :
             local'[p][t] = Older(local[p][t]) /\ local[p][t] \in InLocal
        /\ \A t \in Token : remote'[t] = Older(remote[t]) /\ remote[t] \in InShared
    BY DEF Tick, AuthInv, Typed, Columns
  <1>3. MaxHold + TTL \in Nat /\ MaxHold + TTL + Promotion - 1 \in Nat
    BY Times
  <1>4. /\ \A p \in Process, t \in Token :
             /\ local'[p][t] \in InLocal
             /\ Fresh(local'[p][t]) => /\ Fresh(local[p][t])
                                       /\ local'[p][t].right = local[p][t].right
                                       /\ local'[p][t].raced = local[p][t].raced
        /\ \A t \in Token :
             /\ remote'[t] \in InShared
             /\ Fresh(remote'[t]) => /\ Fresh(remote[t])
                                     /\ remote'[t].right = remote[t].right
                                     /\ remote'[t].raced = remote[t].raced
    BY <1>2, <1>3, OlderEntry DEF InLocal, InShared
  <1>5. local' \in [Process -> [Token -> InLocal]] /\ remote' \in [Token -> InShared]
    <2>1. local' = [p \in Process |-> [t \in Token |-> Older(local[p][t])]]
          /\ remote' = [t \in Token |-> Older(remote[t])]
      BY DEF Tick
    <2>2. /\ \A p \in Process, t \in Token : Older(local[p][t]) \in InLocal
          /\ \A t \in Token : Older(remote[t]) \in InShared
      BY <1>2, <1>4
    <2> QED BY <2>1, <2>2
  <1>6. req' \in [Request -> RequestRow]
    <2>1. req' = [q \in Request |-> req'[q]]
      BY DEF Tick
    <2> QED BY <2>1, TickRequests
  <1>7. Typed'
    BY <1>1, <1>5, <1>6, TickRequests DEF AuthInv, Typed, Columns
  <1>8. NotBefore'
    BY <1>1, <1>4, TickRequests DEF AuthInv, NotBefore
  <1>9. Undisturbed'
    BY <1>1, TickRequests DEF AuthInv, Undisturbed, Changing
  <1>10. Current'
    BY <1>1, TickRequests DEF AuthInv, Current
  <1>11. ToBeCleared'
    <2>1. /\ Outdated(remote[key])' => Outdated(remote[key])
          /\ Outdated(local[changer][key])' => Outdated(local[changer][key])
      BY <1>1, <1>4 DEF Outdated
    <2>2. /\ \A p \in Process : InRedis(p) <=> InRedis(p)'
          /\ InProcess(changer) <=> InProcess(changer)'
      BY <1>1 DEF InRedis, InProcess
    <2> QED BY <1>1, <2>1, <2>2 DEF AuthInv, ToBeCleared
  <1> QED BY <1>7, <1>8, <1>9, <1>10, <1>11 DEF AuthInv

-----------------------------------------------------------------------------
(* The invariant. *)

LEMMA InvInit == Init => AuthInv
  <1> SUFFICES ASSUME Init PROVE AuthInv
    OBVIOUS
  <1>1. /\ key = 1 /\ key \in Token /\ right \in Right /\ changer \in Process
        /\ missed = FALSE /\ 0 \in Token \cup {0}
        /\ \A p \in Process : change[p] = NoChange
        /\ \A p \in Process, t \in Token : local[p][t] = NoEntry
        /\ \A t \in Token : remote[t] = NoEntry
        /\ \A q \in Request : req[q] = NoRequest
    BY Times DEF Init
  <1>2. Columns
    <2>1. change \in [Process -> [pc : {"none", "select", "local", "shared"}, token : Token,
                                  gives : Token \cup {0}]]
      BY Times DEF Init, NoChange
    <2> QED BY <1>1, <2>1, EmptyEntry, NoRequestRow DEF Columns, Init
  <1>3. Typed
    BY <1>1, <1>2, NoRequestRow DEF Typed
  <1>4. NotBefore
    BY <1>1, EmptyEntry, NoRequestRow DEF NotBefore
  <1>5. Undisturbed /\ Current
    BY <1>1, NoRequestRow DEF Undisturbed, Current
  <1>6. ToBeCleared
    BY <1>1, EmptyEntry DEF ToBeCleared, Outdated
  <1> QED BY <1>3, <1>4, <1>5, <1>6 DEF AuthInv

LEMMA InvNext == AuthInv /\ [Next]_vars => AuthInv'
  <1> SUFFICES ASSUME AuthInv, [Next]_vars PROVE AuthInv'
    OBVIOUS
  <1>1. ASSUME NEW q \in Request, NEW t \in Token, BeginRequest(q, t) PROVE AuthInv'
    BY <1>1, ArriveKeeps
  <1>2. ASSUME NEW q \in Request, GetShared(q) PROVE AuthInv'
    BY <1>2, GetSharedKeeps
  <1>3. ASSUME NEW q \in Request, GetFails(q) \/ EndRequest(q) PROVE AuthInv'
    <2>1. Reject(q) /\ UNCHANGED <<key, right, local, remote, change, changer, missed>>
      BY <1>3 DEF GetFails, EndRequest, db, caches
    <2> QED BY <2>1, EndKeeps
  <1>4. ASSUME NEW q \in Request, LoadKey(q) \/ LoadRight(q) PROVE AuthInv'
    BY <1>4, LoadKeeps
  <1>5. ASSUME NEW q \in Request, Promote(q) PROVE AuthInv'
    BY <1>5, PromoteKeeps
  <1>6. ASSUME NEW q \in Request, StoreLocal(q) PROVE AuthInv'
    BY <1>6, StoreLocalKeeps
  <1>7. ASSUME NEW q \in Request, StoreShared(q) PROVE AuthInv'
    BY <1>7, StoreSharedKeeps
  <1>8. ASSUME NEW p \in Process, Rotate(p) \/ ChangeRight(p) PROVE AuthInv'
    BY <1>8, RotateKeeps, ChangeRightKeeps
  <1>9. ASSUME NEW p \in Process, ClearSelect(p) \/ ClearLocal(p) \/ ClearShared(p) PROVE AuthInv'
    BY <1>9, ClearSelectKeeps, ClearLocalKeeps, ClearSharedKeeps
  <1>10. ASSUME NEW p \in Process, NEW t \in Token, Evict(p, t) PROVE AuthInv'
    BY <1>10, EvictKeeps
  <1>11. CASE Tick
    BY <1>11, AuthTickKeeps
  <1>12. CASE UNCHANGED vars
    <2>1. UNCHANGED <<key, right, local, remote, req, change, changer, missed>>
      BY <1>12 DEF vars, db, caches
    <2> QED BY <2>1 DEF AuthInv, Typed, Columns, Sound, NotBefore, Undisturbed, Changing, Current,
                        ToBeCleared, Outdated, Fresh, InRedis, InProcess
  <1> QED BY <1>1, <1>2, <1>3, <1>4, <1>5, <1>6, <1>7, <1>8, <1>9, <1>10, <1>11, <1>12 DEF Next

LEMMA Always == Spec => []AuthInv
  BY InvInit, InvNext, PTL DEF Spec

\* Every variable of the authentication cache keeps its domain, and what is cached or
\* served is never the context of a user without rights.
THEOREM AuthTypeCorrect == Spec => []TypeOK
  <1>1. AuthInv => TypeOK
    <2> SUFFICES ASSUME AuthInv PROVE TypeOK
      OBVIOUS
    <2>1. InLocal \subseteq EntrySet /\ InShared \subseteq EntrySet
      BY Times DEF InLocal, InShared, YoungEntries, EntrySet
    <2>2. \A q \in Request : /\ req[q].age \in 0..MaxAge
                             /\ req[q].pc = "served" => req[q].right # 0
      <3> TAKE q \in Request
      <3>1. /\ req[q].age \in Nat /\ req[q].held \in 0..MaxHold /\ req[q].pc \in Pcs
            /\ Sound(req[q])
        BY DEF AuthInv, Typed, Columns, RequestRow
      <3> QED BY <3>1, Times DEF Sound, Pcs
    <2>3. \A q \in Request : req[q] \in [pc : Pcs, token : Token, held : 0..MaxHold, right : Right,
                                         age : 0..MaxAge, raced : BOOLEAN, retired : BOOLEAN]
      BY <2>2 DEF AuthInv, Typed, Columns, RequestRow
    <2> QED BY <2>1, <2>2, <2>3 DEF AuthInv, Typed, Columns, TypeOK, Pcs
  <1> QED BY <1>1, Always, PTL

\* However many requests, processes and evictions there are, a served context is at most
\* one life in Redis, one as a local copy and the time of a request old.
THEOREM StaleOnlyForAWhile == Spec => []StaleForAWhileOnly
  <1>1. AuthInv => StaleForAWhileOnly
    BY DEF AuthInv, Typed, Sound, StaleForAWhileOnly
  <1> QED BY <1>1, Always, PTL

\* After a clear that met no failure, neither Redis nor the process that cleared holds an
\* older context for the key in force, unless a request the change overtook put it there.
THEOREM Cleared == Spec => []ClearedIsGone
  <1>1. AuthInv => ClearedIsGone
    <2> SUFFICES ASSUME AuthInv, ~Changing, ~missed,
                        NEW e \in {remote[key], local[changer][key]}, Fresh(e), ~e.raced
                 PROVE  e.right = right
      BY DEF ClearedIsGone
    <2>1. \A p \in Process : ~InRedis(p) /\ ~InProcess(p)
      BY DEF Changing, InRedis, InProcess
    <2>2. changer \in Process
      BY DEF AuthInv, Typed, Columns
    <2> QED BY <2>1, <2>2 DEF AuthInv, ToBeCleared, Outdated
  <1> QED BY <1>1, Always, PTL
=============================================================================
