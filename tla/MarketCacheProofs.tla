-------------------------- MODULE MarketCacheProofs --------------------------
(***************************************************************************)
(* For any processes, request threads, lives of an entry and lengths of an *)
(* upstream call: one thread of a process at a time asks the upstream, no  *)
(* flag of a refresh is left behind, and what a caller gets is no older    *)
(* than the windows and the calls add up to.                               *)
(* At the end the parts of MCCaches side by side.                          *)
(***************************************************************************)
EXTENDS MCCaches, AuthCacheProofs

(* The parts of the inductive invariant. *)

Steps == {"idle", "look", "promote", "schedule", "submit", "refused", "enter", "asked", "share", "release"}
Looks == {"fresh", "stale", "recheck", "existing"}
Tasks == {"none", "queued", "asked", "share", "discard"}
Holders == Callers \cup Refreshes
Answers ==
    {NoAnswer, Failed} \cup [kind : {"rows", "empty"}, age : Instants, bypass : BOOLEAN]

Domains ==
    /\ now \in Instants
    /\ step \in [Callers -> Steps]
    /\ look \in [Callers -> Looks]
    /\ bypass \in [Callers -> BOOLEAN]
    /\ owner \in [Servers -> Callers \cup {Nobody}]
    /\ inflight \in [Servers -> BOOLEAN]
    /\ task \in [Refreshes -> Tasks]
    /\ unflagged \in [Servers -> BOOLEAN]

\* An entry known at instant i: asked for by then, and stored one call later at
\* the latest, when its windows began.
LastUse(e) == e.asof + MaxCall + (IF e.rows THEN RowsTTL + Stale ELSE EmptyTTL)
KnownAt(i) == {e \in Entries : e # None => e.asof <= i /\ e.fresh <= e.stale /\ e.stale <= LastUse(e)}

EntriesKnown ==
    /\ memory \in [Servers -> KnownAt(now)]
    /\ redis \in KnownAt(now)
    /\ parcel \in [Holders -> KnownAt(now)]
    /\ existing \in [Callers -> KnownAt(now)]

\* No call lasts longer than MaxCall.
CallsShort ==
    /\ asked \in [Holders -> Instants]
    /\ \A x \in Holders : asked[x] <= now
    /\ \A t \in Callers : step[t] = "asked" => now - asked[t] <= MaxCall
    /\ \A r \in Refreshes : task[r] = "asked" => now - asked[r] <= MaxCall

\* What is held while the upstream is asked was usable when the call began.
HeldUsable ==
    \A t \in Callers :
        step[t] = "asked" /\ existing[t] # None => asked[t] < existing[t].stale

\* What is carried from Redis is usable when it arrives.
PromotedUsable ==
    \A t \in Callers : step[t] = "promote" => Accepts(look[t], parcel[t])

\* A test that goes round the cache is never answered by a lookup.
BypassLooks ==
    \A t \in Callers :
        bypass[t] /\ step[t] \in {"look", "promote"} => look[t] = "existing"

\* The steps between EnterLock and LeaveLock.
Inside(t) ==
    \/ step[t] \in {"asked", "share", "release"}
    \/ step[t] \in {"look", "promote"} /\ look[t] \in {"recheck", "existing"}
LockHeld == \A t \in Callers : Inside(t) => owner[ServerOf[t]] = t

AnswerSound == answer \in Answers /\ ServedAgeBounded

Inv ==
    /\ Domains
    /\ EntriesKnown
    /\ CallsShort
    /\ HeldUsable
    /\ PromotedUsable
    /\ BypassLooks
    /\ LockHeld
    /\ AnswerSound

-----------------------------------------------------------------------------
(* Entries. *)

\* The mark of an absent entry is no entry.
LEMMA NoneIsNoEntry == None \notin MarketEntry
  BY DEF None, MarketEntry

\* An absent entry is known at any time.
LEMMA NoneKnown == ASSUME NEW i PROVE None \in KnownAt(i)
  BY DEF KnownAt, Entries

\* What is known at an instant is known later (time goes on).
LEMMA KnownLater ==
  ASSUME NEW i \in Nat, NEW e \in KnownAt(i), NEW j \in Nat, i <= j
  PROVE  e \in KnownAt(j)
  BY DEF KnownAt, Entries, MarketEntry, Instants

\* Dropping what is past its stale window leaves known entries (Look, MarketTick).
LEMMA AtInstantKnown ==
  ASSUME NEW i \in Nat, NEW e \in KnownAt(i), NEW j PROVE AtInstant(e, j) \in KnownAt(i)
  BY NoneKnown DEF AtInstant

\* An entry stored within a call after it was asked for is known.
LEMMA NewEntryKnown ==
  ASSUME now \in Instants, NEW a \in Instants, a <= now, now - a <= MaxCall,
         NEW rows \in BOOLEAN
  PROVE  NewEntry(rows, a) \in KnownAt(now)
<1> USE WindowsAreNat
<1>1. NewEntry(rows, a) \in MarketEntry
  BY DEF NewEntry, MarketEntry, Instants
<1>2. NewEntry(rows, a) \in Entries
  BY <1>1 DEF NewEntry, Entries
<1>3. /\ NewEntry(rows, a).asof = a
      /\ NewEntry(rows, a).fresh <= NewEntry(rows, a).stale
      /\ NewEntry(rows, a).stale <= LastUse(NewEntry(rows, a))
  BY DEF NewEntry, LastUse, Instants
<1> QED
  BY <1>2, <1>3 DEF KnownAt

\* What a lookup accepts is an entry within its stale window.
LEMMA AcceptedIsUsable ==
  ASSUME now \in Instants, NEW e \in KnownAt(now), NEW l, Accepts(l, e)
  PROVE  e # None /\ e \in MarketEntry /\ e.asof <= now /\ now < e.stale /\ e.stale <= LastUse(e)
  BY WindowsAreNat DEF Accepts, IsFresh, IsUsable, KnownAt, Entries, MarketEntry, Instants

-----------------------------------------------------------------------------
(* Answers. *)

\* A step that answers nobody claims nothing.
LEMMA SilenceIsSound == ASSUME answer' \in {NoAnswer, Failed} PROVE AnswerSound'
  BY DEF AnswerSound, ServedAgeBounded, Answers, NoAnswer, Failed

\* An answer is sound when its age is within the bound of its kind.
LEMMA AnswerIsSound ==
  ASSUME Domains, NEW t \in Callers, NEW rows \in BOOLEAN, NEW a \in Instants, a <= now,
         rows => now - a < MaxCall + RowsTTL + Stale + MaxCall,
         ~rows => now - a < MaxCall + EmptyTTL,
         bypass[t] => now - a <= MaxCall,
         answer' = Answer(t, rows, a)
  PROVE  AnswerSound'
<1> USE WindowsAreNat DEF Domains, Instants
<1>1. now - a \in 0..MaxNow
  OBVIOUS
<1>2. answer' = [kind |-> IF rows THEN "rows" ELSE "empty", age |-> now - a, bypass |-> bypass[t]]
  BY DEF Answer
<1>3. answer' \in Answers
  BY <1>1, <1>2 DEF Answers
<1>4. ServedAgeBounded'
  BY <1>1, <1>2 DEF ServedAgeBounded
<1> QED
  BY <1>3, <1>4 DEF AnswerSound, Answers, Instants
-----------------------------------------------------------------------------
(* Lookups. *)

\* An accepted entry that is served is young enough.
LEMMA ServedIsSound ==
  ASSUME Domains, NEW t \in Callers, NEW e \in KnownAt(now), NEW next,
         Accepts(look[t], e), Serve(t, e, next), ~bypass[t]
  PROVE  AnswerSound'
<1> USE WindowsAreNat DEF Domains, Instants
<1>1. e \in MarketEntry /\ e.asof <= now /\ now < e.stale /\ e.stale <= LastUse(e)
  BY AcceptedIsUsable
<1>2. e.rows \in BOOLEAN /\ e.asof \in Instants /\ e.stale \in Nat
  BY <1>1 DEF MarketEntry
<1>3. e.rows => now - e.asof < MaxCall + RowsTTL + Stale + MaxCall
  BY <1>1, <1>2 DEF LastUse
<1>4. ~e.rows => now - e.asof < MaxCall + EmptyTTL
  BY <1>1, <1>2 DEF LastUse
<1>5. answer' = Answer(t, e.rows, e.asof)
  BY DEF Serve
<1> QED
  BY <1>1, <1>2, <1>3, <1>4, <1>5, AnswerIsSound

\* What a lookup may do to its thread: leave with an answer, go on to another
\* lookup or to the lock, or ask the upstream with what was found in hand.
Outcome(t) ==
    \/ /\ step' \in {[step EXCEPT ![t] = s] : s \in {"schedule", "idle"}}
       /\ look[t] \in {"fresh", "stale"} /\ look' = [look EXCEPT ![t] = "fresh"]
       /\ UNCHANGED <<existing, asked>>
    \/ /\ step' = [step EXCEPT ![t] = "enter"]
       /\ look[t] = "stale" /\ look' = look
       /\ UNCHANGED <<existing, asked>>
    \/ /\ step' = [step EXCEPT ![t] = "look"]
       /\ look[t] = "fresh" /\ look' = [look EXCEPT ![t] = "stale"]
       /\ UNCHANGED <<existing, asked>>
    \/ /\ step' = [step EXCEPT ![t] = "look"]
       /\ look[t] = "recheck" /\ look' = [look EXCEPT ![t] = "existing"]
       /\ UNCHANGED <<existing, asked>>
    \/ /\ step' = [step EXCEPT ![t] = "release"]
       /\ look[t] = "recheck" /\ look' = [look EXCEPT ![t] = "fresh"]
       /\ UNCHANGED <<existing, asked>>
    \/ /\ step' = [step EXCEPT ![t] = "promote"]
       /\ look' = look /\ Accepts(look[t], parcel'[t])
       /\ UNCHANGED <<existing, asked>>
    \/ /\ step' = [step EXCEPT ![t] = "asked"]
       /\ look[t] = "existing" /\ look' = look
       /\ asked' = [asked EXCEPT ![t] = now]
       /\ \E e \in KnownAt(now) :
             /\ existing' = [existing EXCEPT ![t] = e]
             /\ e # None => Accepts(look[t], e)

\* An accepted entry leads to an outcome, and to a sound answer if any.
LEMMA FoundOutcome ==
  ASSUME Domains, BypassLooks, NEW t \in Callers, NEW e \in KnownAt(now),
         step[t] \in {"look", "promote"}, Accepts(look[t], e), Found(t, e)
  PROVE  Outcome(t) /\ AnswerSound'
<1>1. ASSUME look[t] = "fresh", Serve(t, e, IF e.fresh - now <= Ahead THEN "schedule" ELSE "idle")
      PROVE  Outcome(t) /\ AnswerSound'
  BY <1>1, ServedIsSound DEF Serve, Outcome, BypassLooks
<1>2. ASSUME look[t] = "stale", Serve(t, e, "schedule")
      PROVE  Outcome(t) /\ AnswerSound'
  BY <1>2, ServedIsSound DEF Serve, Outcome, BypassLooks
<1>3. ASSUME look[t] = "stale", GoOn(t, "enter", "stale")
      PROVE  Outcome(t) /\ AnswerSound'
  BY <1>3, SilenceIsSound DEF GoOn, Outcome, Domains
<1>4. ASSUME look[t] = "recheck", Serve(t, e, "release")
      PROVE  Outcome(t) /\ AnswerSound'
  BY <1>4, ServedIsSound DEF Serve, Outcome, BypassLooks
<1>5. ASSUME look[t] = "existing", Ask(t, e)
      PROVE  Outcome(t) /\ AnswerSound'
  BY <1>5, SilenceIsSound DEF Ask, Outcome
<1> QED
  BY <1>1, <1>2, <1>3, <1>4, <1>5 DEF Found

\* A lookup that finds nothing leads to an outcome and answers nobody.
LEMMA MissedOutcome ==
  ASSUME Domains, NEW t \in Callers, Missed(t)
  PROVE  Outcome(t) /\ AnswerSound'
<1>1. answer' = NoAnswer
  BY DEF Missed, GoOn, Ask
<1>2. ASSUME look[t] = "existing", Ask(t, None) PROVE Outcome(t)
  BY <1>2, NoneKnown DEF Ask, Outcome
<1>3. ASSUME look[t] # "existing" PROVE Outcome(t)
  BY <1>3 DEF Missed, GoOn, Outcome, Domains
<1> QED
  BY <1>1, <1>2, <1>3, SilenceIsSound DEF Missed

\* The invariant survives an outcome, whatever the caches have become.
LEMMA OutcomeKeeps ==
  ASSUME Inv, NEW t \in Callers, step[t] \in {"look", "promote"}, Outcome(t), AnswerSound',
         UNCHANGED <<now, callVars, taskVars>>,
         memory' \in [Servers -> KnownAt(now)], redis' \in KnownAt(now),
         parcel' \in [Holders -> KnownAt(now)],
         \A x \in Holders \ {t} : parcel'[x] = parcel[x]
  PROVE  Inv'
<1> USE DEF Inv, callVars, taskVars
<1>1. Domains'
  BY DEF Domains, Outcome, Looks, Steps
<1>2. existing' \in [Callers -> KnownAt(now)]
  BY DEF Outcome, EntriesKnown
<1>3. EntriesKnown'
  BY <1>2 DEF EntriesKnown
<1>4. CallsShort'
  <2>1. CASE asked' = [asked EXCEPT ![t] = now] /\ step' = [step EXCEPT ![t] = "asked"]
    BY <2>1, WindowsAreNat, NobodyApart DEF CallsShort, Domains, Instants, Holders
  <2>2. CASE asked' = asked /\ \A u \in Callers : step'[u] = "asked" => step[u] = "asked"
    BY <2>2 DEF CallsShort
  <2> QED
    BY <2>1, <2>2 DEF Outcome, Domains
<1>5. HeldUsable'
  <2> SUFFICES ASSUME NEW u \in Callers, step'[u] = "asked", existing'[u] # None
               PROVE  asked'[u] < existing'[u].stale
    BY DEF HeldUsable
  <2>1. CASE u # t
    BY <2>1 DEF HeldUsable, Outcome, Domains, EntriesKnown, CallsShort, Holders
  <2>2. CASE u = t
    <3>1. PICK e \in KnownAt(now) : /\ existing' = [existing EXCEPT ![t] = e]
                                    /\ e # None => Accepts(look[t], e)
      BY <2>2 DEF Outcome, Domains
    <3>2. asked'[t] = now
      BY <2>2 DEF Outcome, Domains, CallsShort, Holders
    <3>3. existing \in [Callers -> KnownAt(now)] /\ now \in Instants
      BY DEF EntriesKnown, Domains
    <3> HIDE DEF Inv, callVars, taskVars
    <3>4. existing'[t] = e
      BY <3>1, <3>3
    <3>5. e # None => now < e.stale
      BY <3>1, <3>3, AcceptedIsUsable
    <3> QED
      BY <2>1, <2>2, <3>2, <3>4, <3>5
  <2> QED
    BY <2>1, <2>2
<1>6. PromotedUsable'
  <2> SUFFICES ASSUME NEW u \in Callers, step'[u] = "promote"
               PROVE  Accepts(look[u], parcel[u])'
    BY DEF PromotedUsable
  <2>1. CASE u # t
    <3>1. step[u] = "promote" /\ look'[u] = look[u] /\ parcel'[u] = parcel[u]
      BY <2>1 DEF Outcome, Domains, Holders
    <3> QED
      BY <3>1 DEF PromotedUsable, Accepts, IsFresh, IsUsable
  <2>2. CASE u = t
    BY <2>2 DEF Outcome, Domains, Accepts, IsFresh, IsUsable
  <2> QED
    BY <2>1, <2>2
<1>7. BypassLooks'
  BY DEF BypassLooks, Outcome, Domains
<1>8. LockHeld'
  BY DEF LockHeld, Inside, Outcome, Domains
<1> QED
  BY <1>1, <1>3, <1>4, <1>5, <1>6, <1>7, <1>8

\* A lookup in one of the two caches (get_cached_entry).
LEMMA LookKeeps ==
  ASSUME Inv, NEW t \in Callers, Look(t)
  PROVE  Inv'
<1> DEFINE p == ServerOf[t]
<1> USE DEF Inv
<1>1. p \in Servers /\ t \in Holders
  BY ServerOfIsServer DEF Holders
<1>2. /\ step[t] = "look"
      /\ memory' = [memory EXCEPT ![p] = AtInstant(memory[p], now)]
      /\ UNCHANGED <<now, redis, callVars, taskVars>>
  BY DEF Look
<1>3. memory[p] \in KnownAt(now) /\ redis \in KnownAt(now) /\ now \in Nat
  BY <1>1 DEF EntriesKnown, Domains, Instants
<1>4. memory' \in [Servers -> KnownAt(now)]
  BY <1>2, <1>3, AtInstantKnown DEF EntriesKnown
<1>5. ASSUME Accepts(look[t], memory[p]), Found(t, memory[p]), UNCHANGED parcel
      PROVE  Inv'
  <2>1. Outcome(t) /\ AnswerSound'
    BY <1>2, <1>3, <1>5, FoundOutcome
  <2> QED
    BY <1>2, <1>4, <1>5, <2>1, OutcomeKeeps DEF EntriesKnown
<1>6. ASSUME Missed(t), UNCHANGED parcel
      PROVE  Inv'
  <2>1. Outcome(t) /\ AnswerSound'
    BY <1>6, MissedOutcome
  <2> QED
    BY <1>2, <1>4, <1>6, <2>1, OutcomeKeeps DEF EntriesKnown
<1>7. ASSUME Accepts(look[t], redis), parcel' = [parcel EXCEPT ![t] = redis],
             GoOn(t, "promote", look[t])
      PROVE  Inv'
  <2>1. /\ parcel' \in [Holders -> KnownAt(now)]
        /\ \A x \in Holders \ {t} : parcel'[x] = parcel[x]
        /\ parcel'[t] = redis
    BY <1>1, <1>3, <1>7 DEF EntriesKnown
  <2>2. Outcome(t)
    BY <1>7, <2>1 DEF GoOn, Outcome, Domains
  <2>3. AnswerSound'
    BY <1>7, SilenceIsSound DEF GoOn
  <2> QED
    BY <1>2, <1>3, <1>4, <2>1, <2>2, <2>3, OutcomeKeeps
<1> QED
  BY <1>5, <1>6, <1>7 DEF Look

\* The entry of Redis arrives in the local cache with its own windows.
LEMMA CopyDownKeeps ==
  ASSUME Inv, NEW t \in Callers, CopyDown(t)
  PROVE  Inv'
<1> USE DEF Inv
<1>1. ServerOf[t] \in Servers /\ t \in Holders
  BY ServerOfIsServer DEF Holders
<1>2. /\ step[t] = "promote"
      /\ memory' = [memory EXCEPT ![ServerOf[t]] = parcel[t]]
      /\ parcel' = [parcel EXCEPT ![t] = None]
      /\ Found(t, parcel[t])
      /\ UNCHANGED <<now, redis, callVars, taskVars>>
  BY DEF CopyDown, Promoted
<1>3. parcel[t] \in KnownAt(now) /\ Accepts(look[t], parcel[t])
  BY <1>1, <1>2 DEF EntriesKnown, PromotedUsable
<1>4. Outcome(t) /\ AnswerSound'
  BY <1>2, <1>3, FoundOutcome
<1>5. /\ memory' \in [Servers -> KnownAt(now)]
      /\ parcel' \in [Holders -> KnownAt(now)]
      /\ \A x \in Holders \ {t} : parcel'[x] = parcel[x]
  BY <1>1, <1>2, <1>3, NoneKnown DEF EntriesKnown
<1> QED
  BY <1>2, <1>4, <1>5, OutcomeKeeps DEF EntriesKnown

-----------------------------------------------------------------------------
(* The other steps of a request. *)

\* Arrival, the guard of the refresh, the lock, and what follows an answer.
LEMMA PassageKeeps ==
  ASSUME Inv, NEW t \in Callers,
         \/ \E b \in BOOLEAN : Query(t, b)
         \/ Schedule(t) \/ Submit(t) \/ TakeBack(t) \/ EnterLock(t) \/ ShareAnswer(t) \/ LeaveLock(t)
  PROVE  Inv'
<1> USE DEF Inv
<1>0. ServerOf[t] \in Servers /\ t \in Holders
  BY ServerOfIsServer DEF Holders
<1>1. answer' = NoAnswer
  BY DEF Query, Schedule, Submit, TakeBack, EnterLock, ShareAnswer, LeaveLock, GoOn
<1>2. AnswerSound'
  BY <1>1, SilenceIsSound
<1>3. UNCHANGED <<now, memory, existing, asked>>
  BY DEF Query, Schedule, Submit, TakeBack, EnterLock, ShareAnswer, LeaveLock, GoOn, cacheVars
<1>4. ASSUME NEW b \in BOOLEAN, Query(t, b)
      PROVE  Inv'
  <2> USE <1>2, <1>4 DEF Query, cacheVars, taskVars
  <2>1. Domains' /\ EntriesKnown' /\ CallsShort'
    BY DEF Domains, Steps, Looks, EntriesKnown, CallsShort
  <2>2. HeldUsable' /\ PromotedUsable' /\ BypassLooks'
    BY DEF Domains, HeldUsable, PromotedUsable, Accepts, IsFresh, IsUsable, BypassLooks
  <2>3. LockHeld'
    BY DEF Domains, LockHeld, Inside
  <2> QED
    BY <2>1, <2>2, <2>3
<1>5. ASSUME Schedule(t) \/ Submit(t) \/ TakeBack(t)
      PROVE  Inv'
  <2>1. /\ \E s \in {"idle", "submit", "refused"} : step' = [step EXCEPT ![t] = s]
        /\ look' = [look EXCEPT ![t] = "fresh"]
        /\ UNCHANGED <<redis, bypass, owner, parcel>>
    BY <1>5 DEF Schedule, Submit, TakeBack, GoOn, cacheVars, callVars
  <2>2. /\ task' \in [Refreshes -> Tasks]
        /\ inflight' \in [Servers -> BOOLEAN] /\ unflagged' \in [Servers -> BOOLEAN]
        /\ \A r \in Refreshes : task'[r] = "asked" => task[r] = "asked"
    <3>1. ASSUME NEW p, Queued(p)
          PROVE  task' \in [Refreshes -> Tasks]
                 /\ \A r \in Refreshes : task'[r] = "asked" => task[r] = "asked"
      BY <3>1 DEF Queued, Domains, Tasks
    <3> QED
      BY <1>0, <1>5, <3>1 DEF Schedule, Submit, TakeBack, Domains
  <2> USE <1>0, <1>2, <1>3, <2>1, <2>2
  <2>3. Domains' /\ EntriesKnown'
    BY DEF Domains, Steps, Looks, EntriesKnown
  <2>4. CallsShort'
    BY DEF Domains, CallsShort
  <2>5. HeldUsable' /\ PromotedUsable' /\ BypassLooks'
    BY DEF Domains, HeldUsable, PromotedUsable, Accepts, IsFresh, IsUsable, BypassLooks
  <2>6. LockHeld'
    BY DEF Domains, LockHeld, Inside
  <2> QED
    BY <2>3, <2>4, <2>5, <2>6
<1>6. ASSUME EnterLock(t)
      PROVE  Inv'
  <2> USE <1>0, <1>2, <1>6, NobodyApart DEF EnterLock, GoOn, Lock!Take, cacheVars, taskVars
  <2>1. Domains' /\ EntriesKnown' /\ CallsShort'
    BY DEF Domains, Steps, Looks, EntriesKnown, CallsShort
  <2>2. HeldUsable' /\ PromotedUsable' /\ BypassLooks'
    BY DEF Domains, HeldUsable, PromotedUsable, Accepts, IsFresh, IsUsable, BypassLooks
  <2>3. LockHeld'
    BY DEF Domains, LockHeld, Inside
  <2> QED
    BY <2>1, <2>2, <2>3
<1>7. ASSUME ShareAnswer(t)
      PROVE  Inv'
  <2> USE <1>0, <1>2, <1>7 DEF ShareAnswer, GoOn, Share, callVars, taskVars
  <2>1. Domains' /\ CallsShort'
    BY DEF Domains, Steps, Looks, CallsShort
  <2>2. EntriesKnown'
    BY NoneKnown DEF EntriesKnown
  <2>3. HeldUsable' /\ PromotedUsable' /\ BypassLooks'
    BY DEF Domains, EntriesKnown, Holders, HeldUsable, PromotedUsable, Accepts, IsFresh, IsUsable, BypassLooks
  <2>4. LockHeld'
    BY DEF Domains, LockHeld, Inside
  <2> QED
    BY <2>1, <2>2, <2>3, <2>4
<1>8. ASSUME LeaveLock(t)
      PROVE  Inv'
  <2> USE <1>0, <1>2, <1>8 DEF LeaveLock, GoOn, Lock!Give, cacheVars, taskVars
  <2>1. Domains' /\ EntriesKnown' /\ CallsShort'
    BY DEF Domains, Steps, Looks, EntriesKnown, CallsShort
  <2>2. HeldUsable' /\ PromotedUsable' /\ BypassLooks'
    BY DEF Domains, HeldUsable, PromotedUsable, Accepts, IsFresh, IsUsable, BypassLooks
  <2>3. LockHeld'
    BY DEF Domains, LockHeld, Inside
  <2> QED
    BY <2>1, <2>2, <2>3
<1> QED
  BY <1>4, <1>5, <1>6, <1>7, <1>8

\* An upstream call that is over.  What it asked for is known by now, and so is
\* what was held meanwhile.
LEMMA AnsweredKeeps ==
  ASSUME Inv, NEW t \in Callers, NEW a, NEW next \in {"share", "release"},
         Answered(t, a, next), AnswerSound',
         memory' \in [Servers -> KnownAt(now)],
         parcel' \in [Holders -> KnownAt(now)],
         \A x \in Holders \ {t} : parcel'[x] = parcel[x]
  PROVE  Inv'
<1> USE DEF Inv, Answered, taskVars
<1>1. Domains'
  BY DEF Domains, Steps, Looks
<1>2. EntriesKnown'
  BY NoneKnown DEF EntriesKnown
<1>3. CallsShort'
  BY WindowsAreNat, NobodyApart DEF CallsShort, Domains, Instants, Holders
<1>4. HeldUsable'
  BY DEF HeldUsable, Domains, EntriesKnown, CallsShort, Holders
<1>5. PromotedUsable'
  BY DEF PromotedUsable, Domains, Holders, Accepts, IsFresh, IsUsable
<1>6. BypassLooks'
  BY DEF BypassLooks, Domains
<1>7. LockHeld'
  BY DEF LockHeld, Inside, Domains
<1> QED
  BY <1>1, <1>2, <1>3, <1>4, <1>5, <1>6, <1>7

\* An answer of the upstream is at most one call old.
LEMMA UpstreamIsSound ==
  ASSUME Inv, NEW t \in Callers, step[t] = "asked", NEW rows \in BOOLEAN,
         answer' = Answer(t, rows, asked[t])
  PROVE  AnswerSound'
<1>1. asked[t] \in Instants /\ asked[t] <= now /\ now - asked[t] <= MaxCall
  BY DEF Inv, CallsShort, Holders
<1>2. rows => now - asked[t] < MaxCall + RowsTTL + Stale + MaxCall
  BY <1>1, WindowsAreNat, PolicyEnabled DEF Inv, Domains, Instants
<1>3. ~rows => now - asked[t] < MaxCall + EmptyTTL
  BY <1>1, WindowsAreNat, PolicyEnabled DEF Inv, Domains, Instants
<1> QED
  BY <1>1, <1>2, <1>3, AnswerIsSound DEF Inv

\* The four ways in which a call ends keep the invariant.
LEMMA AnswersKeep ==
  ASSUME Inv, NEW t \in Callers,
         AnswerStored(t) \/ AnswerUnstored(t) \/ AnswerExisting(t) \/ AnswerFails(t)
  PROVE  Inv'
<1>0. /\ ServerOf[t] \in Servers /\ t \in Holders
      /\ step[t] = "asked" /\ now \in Instants
      /\ asked[t] \in Instants /\ asked[t] <= now /\ now - asked[t] <= MaxCall
  BY ServerOfIsServer DEF AnswerStored, AnswerUnstored, AnswerExisting, AnswerFails,
                          Answered, Inv, Domains, CallsShort, Holders
<1>1. ASSUME NEW rows \in BOOLEAN, Answered(t, Answer(t, rows, asked[t]), "share"),
             StoreMemory(t, ServerOf[t], rows)
      PROVE  Inv'
  <2>1. NewEntry(rows, asked[t]) \in KnownAt(now)
    BY <1>0, NewEntryKnown
  <2>2. /\ memory' \in [Servers -> KnownAt(now)]
        /\ parcel' \in [Holders -> KnownAt(now)]
        /\ \A x \in Holders \ {t} : parcel'[x] = parcel[x]
    BY <1>0, <1>1, <2>1 DEF StoreMemory, Inv, EntriesKnown
  <2>3. AnswerSound'
    BY <1>0, <1>1, UpstreamIsSound DEF Answered
  <2> QED
    BY <1>1, <2>2, <2>3, AnsweredKeeps
<1>2. ASSUME NEW rows \in BOOLEAN, Answered(t, Answer(t, rows, asked[t]), "release"),
             UNCHANGED <<memory, parcel>>
      PROVE  Inv'
  <2>1. AnswerSound'
    BY <1>0, <1>2, UpstreamIsSound DEF Answered
  <2> QED
    BY <1>2, <2>1, AnsweredKeeps DEF Inv, EntriesKnown
<1>3. ASSUME AnswerExisting(t)
      PROVE  Inv'
  <2> DEFINE e == existing[t]
  <2>1. /\ e \in MarketEntry /\ e.rows /\ ~bypass[t]
        /\ e.asof <= now /\ e.stale <= LastUse(e)
        /\ asked[t] < e.stale
    BY <1>0, <1>3, NoneIsNoEntry
       DEF AnswerExisting, HasRows, Inv, EntriesKnown, HeldUsable, KnownAt, Entries
  <2>2. e.asof \in Instants /\ e.stale \in Nat
    BY <2>1, WindowsAreNat DEF MarketEntry, Instants
  <2>3. now - e.asof < MaxCall + RowsTTL + Stale + MaxCall
    BY <1>0, <2>1, <2>2, WindowsAreNat DEF LastUse, Instants
  <2>4. answer' = Answer(t, TRUE, e.asof)
    BY <1>3 DEF AnswerExisting, Answered
  <2>5. AnswerSound'
    BY <2>1, <2>2, <2>3, <2>4, AnswerIsSound DEF Inv
  <2> QED
    BY <1>3, <2>5, AnsweredKeeps DEF AnswerExisting, Inv, EntriesKnown
<1>4. ASSUME AnswerFails(t)
      PROVE  Inv'
  <2>1. AnswerSound'
    BY <1>4, SilenceIsSound DEF AnswerFails, Answered
  <2> QED
    BY <1>4, <2>1, AnsweredKeeps DEF AnswerFails, Inv, EntriesKnown
<1> QED
  BY <1>1, <1>2, <1>3, <1>4 DEF AnswerStored, AnswerUnstored, AnswerFails, AnswerExisting

-----------------------------------------------------------------------------
(* The background refresh. *)

\* A refresh may share the caches with the requests because what it stores is
\* known, however its steps fall between theirs.
LEMMA RefreshKeeps ==
  ASSUME Inv, NEW r \in Refreshes, Refresh(r)
  PROVE  Inv'
<1> USE DEF Inv
<1>1. r \in Holders /\ r \notin Callers /\ PoolOf[r] \in Servers
  BY NobodyApart, ServerOfIsServer DEF Holders
<1>2. PICK next \in Tasks \ {"queued"} : RefreshGoesOn(r, next)
  BY DEF Refresh, BeginRefresh, RefreshStored, RefreshFails, ShareRefresh, Discard, Tasks
<1>3. UNCHANGED <<now, step, look, bypass, owner, existing>> /\ answer' = NoAnswer
  BY <1>2 DEF RefreshGoesOn, callVars
<1>4. AnswerSound'
  BY <1>3, SilenceIsSound
<1>5. /\ task' \in [Refreshes -> Tasks]
      /\ inflight' \in [Servers -> BOOLEAN] /\ unflagged' = unflagged
  BY <1>1 DEF Refresh, BeginRefresh, RefreshStored, RefreshFails, ShareRefresh, Discard,
         RefreshGoesOn, Domains, Tasks
<1>6. Domains'
  BY <1>3, <1>5 DEF Domains
<1>7. CallsShort' /\ \A x \in Holders \ {r} : asked'[x] = asked[x]
  <2>1. /\ \E a \in {asked[r], 0, now} : asked' = [asked EXCEPT ![r] = a]
        /\ task'[r] = "asked" => asked' = [asked EXCEPT ![r] = now]
        /\ \A q \in Refreshes \ {r} : task'[q] = task[q]
    <3>1. asked' = asked => asked' = [asked EXCEPT ![r] = asked[r]]
      BY <1>1 DEF CallsShort
    <3> QED
      BY <3>1 DEF Refresh, BeginRefresh, RefreshStored, RefreshFails, ShareRefresh, Discard,
                  RefreshGoesOn, Domains
  <2>2. /\ asked' \in [Holders -> Instants]
        /\ \A x \in Holders \ {r} : asked'[x] = asked[x]
        /\ asked'[r] <= now
    BY <1>1, <2>1, WindowsAreNat DEF CallsShort, Domains, Instants
  <2>3. \A x \in Holders : asked'[x] <= now
    BY <1>1, <2>2 DEF CallsShort
  <2>4. \A t \in Callers : step'[t] = "asked" => now - asked'[t] <= MaxCall
    BY <1>1, <1>3, <2>2 DEF CallsShort, Holders
  <2>5. ASSUME NEW q \in Refreshes, task'[q] = "asked"
        PROVE  now - asked'[q] <= MaxCall
    <3>1. CASE q = r
      BY <1>1, <2>1, <2>5, <3>1, WindowsAreNat DEF CallsShort, Domains, Instants
    <3>2. CASE q # r
      BY <2>1, <2>2, <2>5, <3>2 DEF CallsShort, Holders
    <3> QED
      BY <3>1, <3>2
  <2> QED
    BY <1>3, <2>2, <2>3, <2>4, <2>5 DEF CallsShort
<1>8. /\ memory' \in [Servers -> KnownAt(now)]
      /\ redis' \in KnownAt(now)
      /\ parcel' \in [Holders -> KnownAt(now)]
      /\ \A x \in Holders \ {r} : parcel'[x] = parcel[x]
  <2>1. CASE RefreshStored(r)
    <3>1. NewEntry(TRUE, asked[r]) \in KnownAt(now)
      BY <1>1, <2>1, NewEntryKnown DEF RefreshStored, CallsShort, Domains
    <3> QED
      BY <1>1, <2>1, <3>1 DEF RefreshStored, StoreMemory, EntriesKnown
  <2>2. CASE ShareRefresh(r)
    BY <1>1, <2>2, NoneKnown DEF ShareRefresh, Share, EntriesKnown
  <2>3. CASE BeginRefresh(r) \/ RefreshFails(r) \/ Discard(r)
    BY <2>3 DEF BeginRefresh, RefreshFails, Discard, cacheVars, EntriesKnown
  <2> QED
    BY <2>1, <2>2, <2>3 DEF Refresh
<1>9. EntriesKnown'
  BY <1>3, <1>8 DEF EntriesKnown
<1>10. HeldUsable' /\ PromotedUsable' /\ BypassLooks' /\ LockHeld'
  <2>1. \A t \in Callers : t \in Holders \ {r}
    BY <1>1 DEF Holders
  <2>2. HeldUsable'
    BY <1>3, <1>7, <2>1 DEF HeldUsable
  <2>3. PromotedUsable'
    BY <1>3, <1>8, <2>1 DEF PromotedUsable, Accepts, IsFresh, IsUsable
  <2> QED
    BY <1>3, <2>2, <2>3 DEF BypassLooks, LockHeld, Inside
<1> QED
  BY <1>4, <1>5, <1>6, <1>7, <1>9, <1>10

-----------------------------------------------------------------------------
(* The caches and time. *)

\* Losing an entry, and an entry that another process stores in Redis.
LEMMA CachesKeep ==
  ASSUME Inv, Lose \/ Elsewhere
  PROVE  Inv'
<1> USE DEF Inv
<1>1. UNCHANGED <<now, step, look, callVars, parcel, existing, asked, taskVars>>
  BY DEF Lose, Elsewhere
<1>2. AnswerSound'
  BY SilenceIsSound DEF Lose, Elsewhere
<1>3. memory' \in [Servers -> KnownAt(now)] /\ redis' \in KnownAt(now)
  <2>1. CASE Lose
    BY <2>1, NoneKnown DEF Lose, EntriesKnown
  <2>2. CASE Elsewhere
    <3> DEFINE a == IF now > MaxCall THEN now - MaxCall ELSE 0
    <3>1. a \in Instants /\ a <= now /\ now - a <= MaxCall
      BY WindowsAreNat DEF Domains, Instants
    <3>2. PICK rows \in BOOLEAN : redis' = NewEntry(rows, a)
      BY <2>2 DEF Elsewhere
    <3> HIDE DEF a
    <3>3. NewEntry(rows, a) \in KnownAt(now)
      BY <3>1, NewEntryKnown DEF Domains
    <3> QED
      BY <2>2, <3>2, <3>3 DEF Elsewhere, EntriesKnown
  <2> QED
    BY <2>1, <2>2
<1>4. Domains' /\ EntriesKnown' /\ CallsShort'
  BY <1>1, <1>3 DEF Domains, EntriesKnown, CallsShort, callVars, taskVars
<1>5. HeldUsable' /\ PromotedUsable' /\ BypassLooks'
  BY <1>1 DEF HeldUsable, PromotedUsable, Accepts, IsFresh, IsUsable, BypassLooks, callVars
<1>6. LockHeld'
  BY <1>1 DEF LockHeld, Inside, callVars, taskVars
<1> QED
  BY <1>2, <1>4, <1>5, <1>6

\* Time goes on while calls are young enough and nothing is on its way.
LEMMA TickKeeps ==
  ASSUME Inv, MarketTick
  PROVE  Inv'
<1> USE DEF Inv, MarketTick
<1>1. UNCHANGED <<step, look, bypass, owner, parcel, existing, asked, inflight, task, unflagged>>
  BY DEF callVars, taskVars
<1>2. AnswerSound'
  BY SilenceIsSound
<1>3. now \in Nat /\ now' = now + 1 /\ now' \in Instants /\ now <= now'
  BY WindowsAreNat DEF Domains, Instants
<1>4. \A e \in KnownAt(now) : e \in KnownAt(now')
  BY <1>3, KnownLater DEF Instants
<1>5. \A e \in KnownAt(now) : AtInstant(e, now + 1) \in KnownAt(now')
  BY <1>3, <1>4, AtInstantKnown
<1>6. EntriesKnown'
  BY <1>1, <1>4, <1>5 DEF EntriesKnown
<1>7. Domains'
  BY <1>1, <1>3 DEF Domains
<1>8. CallsShort'
  <2>1. \A x \in Holders : asked[x] \in Nat /\ asked[x] <= now'
    BY <1>3, WindowsAreNat DEF CallsShort, Instants
  <2>2. \A t \in Callers : step[t] = "asked" => now' - asked[t] <= MaxCall
    BY <1>3, <2>1, WindowsAreNat DEF Holders
  <2>3. \A r \in Refreshes : task[r] = "asked" => now' - asked[r] <= MaxCall
    BY <1>3, <2>1, WindowsAreNat DEF Holders
  <2> QED
    BY <1>1, <2>1, <2>2, <2>3 DEF CallsShort
<1>9. HeldUsable' /\ PromotedUsable' /\ BypassLooks'
  BY <1>1 DEF HeldUsable, PromotedUsable, BypassLooks
<1>10. LockHeld'
  BY <1>1 DEF LockHeld, Inside
<1> QED
  BY <1>2, <1>6, <1>7, <1>8, <1>9, <1>10

-----------------------------------------------------------------------------
(* The theorems. *)

\* The first state: nothing is cached, nobody is served.
LEMMA InitKeeps == MarketInit => Inv
<1> SUFFICES ASSUME MarketInit PROVE Inv
  OBVIOUS
<1> USE DEF MarketInit
<1>1. Domains
  BY WindowsAreNat DEF Domains, Instants, Steps, Looks, Tasks, Lock!Init
<1>2. EntriesKnown
  BY NoneKnown DEF EntriesKnown, Holders
<1>3. CallsShort
  BY WindowsAreNat DEF CallsShort, Holders, Instants
<1>4. HeldUsable /\ PromotedUsable /\ BypassLooks /\ LockHeld
  BY DEF HeldUsable, PromotedUsable, BypassLooks, LockHeld, Inside
<1>5. AnswerSound
  BY DEF AnswerSound, Answers, ServedAgeBounded, NoAnswer
<1> QED
  BY <1>1, <1>2, <1>3, <1>4, <1>5 DEF Inv

\* Domains, known entries, short calls, and the lock held through the whole
\* block, in every state of query_market_data and its background refreshes.
THEOREM MarketInvariant == MarketSpec => []Inv
<1>1. MarketInit => Inv
  BY InitKeeps
<1>2. Inv /\ [MarketNext]_marketVars => Inv'
  <2> SUFFICES ASSUME Inv, [MarketNext]_marketVars PROVE Inv'
    OBVIOUS
  <2>1. ASSUME NEW t \in Callers, Caller(t) PROVE Inv'
    BY <2>1, LookKeeps, CopyDownKeeps, PassageKeeps, AnswersKeep DEF Caller
  <2>2. CASE UNCHANGED marketVars
    <3>1. UNCHANGED <<now, memory, redis, step, look, bypass, owner, parcel, existing,
                      asked, inflight, task, unflagged, answer>>
      BY <2>2 DEF marketVars, cacheVars, callVars, taskVars
    <3>2. Domains' /\ EntriesKnown' /\ CallsShort' /\ HeldUsable'
      BY <3>1 DEF Inv, Domains, EntriesKnown, CallsShort, HeldUsable
    <3>3. PromotedUsable' /\ BypassLooks' /\ LockHeld'
      BY <3>1 DEF Inv, PromotedUsable, Accepts, IsFresh, IsUsable, BypassLooks, LockHeld, Inside
    <3>4. AnswerSound'
      BY <3>1 DEF Inv, AnswerSound, ServedAgeBounded
    <3> QED
      BY <3>2, <3>3, <3>4 DEF Inv
  <2> QED
    BY <2>1, <2>2, RefreshKeeps, CachesKeep, TickKeeps DEF MarketNext
<1> QED
  BY <1>1, <1>2, PTL DEF MarketSpec

\* The variables keep their domains.
THEOREM MarketTyped == MarketSpec => []MarketTypeOK
<1>1. Inv => MarketTypeOK
  BY DEF Inv, Domains, EntriesKnown, KnownAt, CallsShort, AnswerSound, MarketTypeOK,
         Steps, Looks, Tasks, Holders, Answers
<1> QED
  BY <1>1, MarketInvariant, PTL

\* Identical requests of one process: one of them asks the upstream
\* (query_market_data asks while it holds the lock of the key).
THEOREM OneAsks == MarketSpec => []CallsCollapsed
<1>1. Inv => CallsCollapsed
  BY DEF Inv, LockHeld, Inside, CallsCollapsed
<1> QED
  BY <1>1, MarketInvariant, PTL

\* Whatever is refreshed, evicted, copied from Redis or stored by others in
\* between: no caller gets data older than the windows and the calls allow.
THEOREM AgeBounded == MarketSpec => []ServedAgeBounded
<1>1. Inv => ServedAgeBounded
  BY DEF Inv, AnswerSound
<1> QED
  BY <1>1, MarketInvariant, PTL

-----------------------------------------------------------------------------
(* The flag. *)

\* Nobody takes charge of a flag or gives it up.
Calm ==
    /\ UNCHANGED <<inflight, unflagged>>
    /\ \A r \in Refreshes : task'[r] = "none" <=> task[r] = "none"
    /\ \A t \in Callers : step'[t] \in {"submit", "refused"} <=> step[t] \in {"submit", "refused"}

LEMMA CalmKeepsFlag == ASSUME RefreshFlagExact, Calm PROVE RefreshFlagExact'
<1>1. \A p : InCharge(p)' = InCharge(p)
  BY DEF InCharge, Calm
<1> QED BY <1>1 DEF RefreshFlagExact, Calm

\* The pool of a process gets a refresh that was not there: it is in charge, and of
\* the others in charge the same.
LEMMA QueuedInCharge ==
  ASSUME Domains, NEW t \in Callers, step[t] = "submit", Queued(ServerOf[t]),
         NEW s \in {"idle", "refused"}, step' = [step EXCEPT ![t] = s]
  PROVE  \E r \in Refreshes :
            /\ PoolOf[r] = ServerOf[t]
            /\ \A p \in Servers :
                  InCharge(p)' =
                    IF p = ServerOf[t] THEN (IF s = "idle" THEN InCharge(p) \ {t} ELSE InCharge(p)) \cup {r}
                    ELSE InCharge(p)
<1>1. PICK r \in Refreshes :
         PoolOf[r] = ServerOf[t] /\ task[r] = "none" /\ task' = [task EXCEPT ![r] = "queued"]
  BY DEF Queued
<1>2. t \notin Refreshes /\ r \notin Callers
  BY NobodyApart
<1>3. \A q \in Refreshes : task'[q] # "none" <=> task[q] # "none" \/ q = r
  BY <1>1 DEF Domains
<1>4. \A u \in Callers :
         step'[u] \in {"submit", "refused"} <=>
           step[u] \in {"submit", "refused"} /\ (u = t => s = "refused")
  BY DEF Domains
<1>5. ASSUME NEW p \in Servers
      PROVE  InCharge(p)' =
               IF p = ServerOf[t] THEN (IF s = "idle" THEN InCharge(p) \ {t} ELSE InCharge(p)) \cup {r}
               ELSE InCharge(p)
  BY <1>1, <1>2, <1>3, <1>4 DEF InCharge
<1> QED BY <1>1, <1>5

\* Who sets a flag is in charge of it, hands it over to a refresh or takes it away.
LEMMA FlagKept ==
  ASSUME Domains, RefreshFlagExact, [MarketNext]_marketVars
  PROVE  RefreshFlagExact'
<1>1. ASSUME NEW t \in Callers, Schedule(t) PROVE RefreshFlagExact'
  <2>1. ServerOf[t] \in Servers
    BY ServerOfIsServer
  <2>2. CASE inflight[ServerOf[t]]
    <3>1. inflight' = inflight
      BY <1>1, <2>1, <2>2 DEF Schedule, Domains
    <3>2. Calm
      BY <1>1, <2>2, <3>1 DEF Schedule, GoOn, Calm, Domains
    <3> QED BY <3>2, CalmKeepsFlag
  <2>3. CASE ~inflight[ServerOf[t]]
    <3>1. /\ step' = [step EXCEPT ![t] = "submit"] /\ step[t] = "schedule"
          /\ inflight' = [inflight EXCEPT ![ServerOf[t]] = TRUE]
          /\ UNCHANGED <<task, unflagged>>
      BY <1>1, <2>3 DEF Schedule, GoOn
    <3>2. \A p \in Servers :
             InCharge(p)' = IF p = ServerOf[t] THEN InCharge(p) \cup {t} ELSE InCharge(p)
      BY <3>1 DEF InCharge, Domains
    <3>3. ~unflagged[ServerOf[t]] => InCharge(ServerOf[t]) = {}
      BY <2>1, <2>3 DEF RefreshFlagExact
    <3> QED BY <2>1, <3>1, <3>2, <3>3 DEF RefreshFlagExact, Domains
  <2> QED BY <2>2, <2>3
<1>2. ASSUME NEW t \in Callers, Submit(t) PROVE RefreshFlagExact'
  <2>1. ServerOf[t] \in Servers /\ t \in InCharge(ServerOf[t])
    BY <1>2, ServerOfIsServer DEF Submit, InCharge
  <2>2. CASE GoOn(t, "refused", "fresh") /\ UNCHANGED <<task, unflagged>>
    <3>1. Calm
      BY <1>2, <2>2 DEF Submit, GoOn, Calm, Domains
    <3> QED BY <3>1, CalmKeepsFlag
  <2>3. CASE Queued(ServerOf[t]) /\ GoOn(t, "idle", "fresh") /\ UNCHANGED unflagged
    <3>1. PICK r \in Refreshes :
             \A p \in Servers :
                InCharge(p)' = IF p = ServerOf[t] THEN (InCharge(p) \ {t}) \cup {r} ELSE InCharge(p)
      BY <1>2, <2>3, QueuedInCharge DEF Submit, GoOn
    <3>2. ~unflagged[ServerOf[t]] => inflight[ServerOf[t]] /\ InCharge(ServerOf[t]) = {t}
      BY <2>1 DEF RefreshFlagExact
    <3> QED BY <1>2, <2>1, <2>3, <3>1, <3>2 DEF RefreshFlagExact, Submit
  <2>4. CASE /\ Queued(ServerOf[t]) /\ GoOn(t, "refused", "fresh")
             /\ unflagged' = [unflagged EXCEPT ![ServerOf[t]] = TRUE]
    <3>1. PICK r \in Refreshes :
             \A p \in Servers :
                InCharge(p)' = IF p = ServerOf[t] THEN InCharge(p) \cup {r} ELSE InCharge(p)
      BY <1>2, <2>4, QueuedInCharge DEF Submit, GoOn
    <3> QED BY <1>2, <2>1, <2>4, <3>1 DEF RefreshFlagExact, Submit, Domains
  <2> QED BY <1>2, <2>2, <2>3, <2>4 DEF Submit
<1>3. ASSUME NEW t \in Callers, TakeBack(t) PROVE RefreshFlagExact'
  <2>1. /\ step' = [step EXCEPT ![t] = "idle"] /\ step[t] = "refused"
        /\ inflight' = [inflight EXCEPT ![ServerOf[t]] = FALSE]
        /\ UNCHANGED <<task, unflagged>>
    BY <1>3 DEF TakeBack, GoOn
  <2>2. t \in InCharge(ServerOf[t]) /\ t \notin Refreshes
    BY <2>1, NobodyApart DEF InCharge
  <2>3. \A p \in Servers :
           InCharge(p)' = IF p = ServerOf[t] THEN InCharge(p) \ {t} ELSE InCharge(p)
    BY <2>1, <2>2 DEF InCharge, Domains
  <2> QED BY <2>1, <2>2, <2>3 DEF RefreshFlagExact, Domains
<1>4. ASSUME NEW r \in Refreshes, Discard(r) PROVE RefreshFlagExact'
  <2>1. /\ task[r] = "discard" /\ task' = [task EXCEPT ![r] = "none"]
        /\ inflight' = [inflight EXCEPT ![PoolOf[r]] = FALSE]
        /\ UNCHANGED <<step, unflagged>>
    BY <1>4 DEF Discard, RefreshGoesOn
  <2>2. r \in InCharge(PoolOf[r]) /\ r \notin Callers
    BY <2>1, NobodyApart DEF InCharge
  <2>3. \A p \in Servers :
           InCharge(p)' = IF p = PoolOf[r] THEN InCharge(p) \ {r} ELSE InCharge(p)
    BY <2>1, <2>2 DEF InCharge, Domains
  <2> QED BY <2>1, <2>2, <2>3 DEF RefreshFlagExact, Domains
<1>5. ASSUME NEW r \in Refreshes, Refresh(r), ~Discard(r) PROVE Calm
  BY <1>5 DEF Refresh, BeginRefresh, RefreshStored, RefreshFails, ShareRefresh,
              RefreshGoesOn, Calm, Domains
<1>6. ASSUME NEW t \in Callers, Caller(t), ~Schedule(t), ~Submit(t), ~TakeBack(t) PROVE Calm
  <2>1. UNCHANGED <<inflight, task, unflagged>>
    BY <1>6 DEF Caller, Query, Look, CopyDown, EnterLock, AnswerStored, AnswerUnstored,
                AnswerExisting, AnswerFails, Answered, ShareAnswer, LeaveLock, taskVars
  <2>2. PICK s \in Steps \ {"submit", "refused"} : step' = [step EXCEPT ![t] = s]
    <3>1. ASSUME NEW e, Found(t, e) PROVE \E s \in Steps \ {"submit", "refused"} : step' = [step EXCEPT ![t] = s]
      BY <3>1 DEF Found, Serve, GoOn, Ask, Steps
    <3>2. ASSUME Missed(t) PROVE \E s \in Steps \ {"submit", "refused"} : step' = [step EXCEPT ![t] = s]
      BY <3>2 DEF Missed, GoOn, Ask, Steps
    <3>3. ASSUME Look(t) \/ CopyDown(t)
          PROVE  \E s \in Steps \ {"submit", "refused"} : step' = [step EXCEPT ![t] = s]
      BY <3>1, <3>2, <3>3 DEF Look, CopyDown, GoOn, Steps
    <3>4. ASSUME AnswerStored(t) \/ AnswerUnstored(t) \/ AnswerExisting(t) \/ AnswerFails(t)
          PROVE  \E s \in Steps \ {"submit", "refused"} : step' = [step EXCEPT ![t] = s]
      BY <3>4 DEF AnswerStored, AnswerUnstored, AnswerExisting, AnswerFails, Answered, Steps
    <3> QED BY <1>6, <3>3, <3>4 DEF Caller, Query, EnterLock, ShareAnswer, LeaveLock, GoOn, Steps
  <2>3. step[t] \notin {"submit", "refused"}
    BY <1>6 DEF Caller, Query, Look, CopyDown, EnterLock, AnswerStored, AnswerUnstored,
                AnswerExisting, AnswerFails, Answered, ShareAnswer, LeaveLock
  <2> QED BY <2>1, <2>2, <2>3 DEF Calm, Domains
<1>7. ASSUME Lose \/ Elsewhere \/ MarketTick \/ UNCHANGED marketVars PROVE Calm
  BY <1>7 DEF Lose, Elsewhere, MarketTick, marketVars, taskVars, Calm
<1> QED BY <1>1, <1>2, <1>3, <1>4, <1>5, <1>6, <1>7, CalmKeepsFlag DEF MarketNext

\* Whoever sets the flag, and however the pool refuses: no flag is left behind, and
\* refreshes come one at a time unless one was queued although its submission failed
\* (_schedule_background_refresh, _background_refresh).
THEOREM FlagExact == MarketSpec => []RefreshFlagExact
<1>1. MarketInit => RefreshFlagExact
  BY DEF MarketInit, RefreshFlagExact, InCharge
<1>2. Inv /\ RefreshFlagExact /\ [MarketNext]_marketVars => RefreshFlagExact'
  BY FlagKept DEF Inv
<1> QED
  BY <1>1, <1>2, MarketInvariant, PTL DEF MarketSpec

-----------------------------------------------------------------------------
(* The two caches and the daily quota side by side. *)

cachesVars == <<part, vars, quotaVars, marketVars>>

\* Side by side the two caches and the quota behave as they do alone: whatever is proved
\* of one of them holds of the behaviours the run explores, and the variables of the
\* caches keep their domains.
THEOREM CachesApart ==
  CachesSpec => Spec /\ QuotaSpec /\ MarketSpec /\ [](TypeOK /\ MarketTypeOK)
<1>1. CachesInit => Init /\ QuotaInit /\ MarketInit
  BY DEF CachesInit
<1>2. ASSUME [CachesNext]_cachesVars
      PROVE  [Next]_vars /\ [QuotaNext]_quotaVars /\ [MarketNext]_marketVars
  <2>1. CASE CachesNext
    BY <2>1 DEF CachesNext
  <2>2. CASE UNCHANGED cachesVars
    BY <2>2 DEF cachesVars
  <2> QED BY <1>2, <2>1, <2>2
<1>3. CachesSpec => CachesInit /\ [][CachesNext]_cachesVars
  BY DEF CachesSpec, cachesVars
<1> QED
  BY <1>1, <1>2, <1>3, AuthTypeCorrect, MarketTyped, PTL DEF Spec, QuotaSpec, MarketSpec
=============================================================================
