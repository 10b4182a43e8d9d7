---------------------------- MODULE Subscription ----------------------------
(***************************************************************************)
(* The subscription rows of one user: what the four administrator actions  *)
(* (open, renew, switch_now, switch_scheduled), the cancellation of a      *)
(* queued row, the on-demand refresh and the start-up migration do to      *)
(* them.  Every statement of the code is restricted to one user_id, or     *)
(* treats the users one by one.  Each action is one SQLite write           *)
(* transaction; the refresh and the migration read the clock before they   *)
(* get the write lock, so the instant they use may be an old one.          *)
(*                                                                         *)
(* Instants are seconds, both ends of a period belong to it, and a         *)
(* successor starts at the very second its predecessor expires.            *)
(***************************************************************************)
EXTENDS Integers

CONSTANTS
    Row,         \* subscription ids, in order of insertion
    Plan,        \* plan codes, all of them active in the catalogue
    Duration,    \* [Plan -> Nat \ {0}]: duration_days, in instants
    ExtraDays,   \* compensation an administrator may add
    MaxLag,      \* how long a writer that has read the clock may wait for the lock
    Horizon      \* the last instant a datetime can hold

ASSUME RowAssumption == Row \subseteq Nat
ASSUME PlanAssumption == Plan # {}
ASSUME DurationAssumption == Duration \in [Plan -> Nat \ {0}]
ASSUME ExtraAssumption == ExtraDays \subseteq Nat
ASSUME HorizonAssumption == Horizon \in Nat
ASSUME LagAssumption == MaxLag \in Nat

VARIABLES
    sub,      \* the subscriptions table
    now,      \* the clock
    reader,   \* get_active_subscription between its refresh and its SELECT
    bought,   \* history: what was paid or given for each row
    revoked,  \* history: the queued rows that were cancelled by themselves
    demoted   \* history: rows a migration with an old clock has put back

vars == <<sub, now, reader, bought, revoked, demoted>>

Time == 0..Horizon
Status == {"absent", "active", "scheduled", "expired", "replaced", "cancelled"}
SubRow == [status : Status, plan : Plan, start : Time, expire : Time]
NoReader == -1

-----------------------------------------------------------------------------
(* The SELECTs, on the rows t of a transaction.                            *)

With(t, st) == {r \in Row : t[r].status = st}
Scheduled(t) == With(t, "scheduled")
Live(t) == With(t, "active") \cup Scheduled(t)
Covers(t, r, at) == t[r].start <= at /\ at <= t[r].expire
Length(t, r) == t[r].expire - t[r].start

\* _current_subscription_row (ORDER BY start_time DESC, id DESC).
Earlier(t, q, r) ==
    \/ t[q].start < t[r].start
    \/ t[q].start = t[r].start /\ q < r
Candidates(t, at) == {r \in With(t, "active") : Covers(t, r, at)}
IsCurrent(t, r, at) ==
    r \in Candidates(t, at) /\ \A q \in Candidates(t, at) : q = r \/ Earlier(t, q, r)

\* Queued rows that come before r (ORDER BY start_time ASC, id ASC).
Before(t, r) == {q \in Scheduled(t) : Earlier(t, q, r)}

\* Faulty variant: a row is expired in its last second.
ExpiredEarly(row, at) ==
    IF row.status \in {"active", "scheduled"} /\ row.expire <= at
    THEN [row EXCEPT !.status = "expired"] ELSE row

\* UPDATE ... SET status='expired' ... WHERE expire_time < at
Expired(row, at) ==
    IF row.status \in {"active", "scheduled"} /\ row.expire < at
    THEN [row EXCEPT !.status = "expired"] ELSE row
Expire(t, at) == [r \in Row |-> Expired(t[r], at)]

\* Active rows that start later are queued first.
Queued(row, at) ==
    IF row.status = "active" /\ row.start > at
    THEN [row EXCEPT !.status = "scheduled"] ELSE row
Normalize(t, at) == [r \in Row |-> Expired(Queued(t[r], at), at)]

IsNew(t, r) ==
    t[r].status = "absent" /\ \A q \in Row : q < r => t[q].status # "absent"

-----------------------------------------------------------------------------
Absent == [status |-> "absent", plan |-> CHOOSE p \in Plan : TRUE, start |-> 0, expire |-> 0]

Init ==
    /\ now = 0
    /\ sub = [r \in Row |-> Absent]
    /\ reader = NoReader
    /\ bought = [r \in Row |-> 0]
    /\ revoked = {}
    /\ demoted = {}

-----------------------------------------------------------------------------
(* apply_subscription_action.  t is the table after the normalisation; a     *)
(* branch that raises is rolled back, normalisation included.                *)

Days(p, extra) == Duration[p] + extra
NewRow(st, p, from, days) ==
    [status |-> st, plan |-> p, start |-> from, expire |-> from + days]

Sell(r, days) == bought' = [bought EXCEPT ![r] = days]

\* open: no current row and nothing queued.
Open(p, extra) ==
    LET t == Normalize(sub, now) IN
    /\ Candidates(t, now) = {} /\ Scheduled(t) = {}
    /\ now + Days(p, extra) <= Horizon
    /\ \E r \in Row :
         /\ IsNew(t, r)
         /\ sub' = [t EXCEPT ![r] = NewRow("active", p, now, Days(p, extra))]
         /\ Sell(r, Days(p, extra))
    /\ UNCHANGED <<now, reader, revoked, demoted>>

\* Faulty variants: the queue stays where it is, or only its ends move.
RenewMoving(p, extra, moved(_, _)) ==
    LET t == Normalize(sub, now) IN
    /\ \E c \in Row :
         /\ IsCurrent(t, c, now) /\ t[c].plan = p
         /\ \A r \in Scheduled(t) \cup {c} : t[r].expire + Days(p, extra) <= Horizon
         /\ sub' = [r \in Row |->
              IF r = c THEN [t[r] EXCEPT !.expire = @ + Days(p, extra)]
              ELSE IF r \in Scheduled(t) THEN moved(t[r], Days(p, extra)) ELSE t[r]]
         /\ Sell(c, bought[c] + Days(p, extra))
    /\ UNCHANGED <<now, reader, revoked, demoted>>
RenewNoShift(p, extra) == RenewMoving(p, extra, LAMBDA row, days : row)
RenewShiftEnds(p, extra) ==
    RenewMoving(p, extra, LAMBDA row, days : [row EXCEPT !.expire = @ + days])

\* renew: the current row, of the same plan, grows and the queue moves back by
\* as much (_shift_scheduled_subscriptions).
Renew(p, extra) ==
    LET t == Normalize(sub, now) IN
    /\ \E c \in Row :
         /\ IsCurrent(t, c, now) /\ t[c].plan = p
         /\ \A r \in Scheduled(t) \cup {c} : t[r].expire + Days(p, extra) <= Horizon
         /\ sub' = [r \in Row |->
              IF r = c THEN [t[r] EXCEPT !.expire = @ + Days(p, extra)]
              ELSE IF r \in Scheduled(t)
                   THEN [t[r] EXCEPT !.start = @ + Days(p, extra), !.expire = @ + Days(p, extra)]
                   ELSE t[r]]
         /\ Sell(c, bought[c] + Days(p, extra))
    /\ UNCHANGED <<now, reader, revoked, demoted>>

\* What becomes of the queue of t when the current row is replaced by one that
\* expires at end: it is cancelled ...
CancelQueue(t) ==
    sub' = [q \in Row |->
              IF q \in Scheduled(t) THEN [t[q] EXCEPT !.status = "cancelled"] ELSE t[q]]

\* ... or rebased (_rebase_scheduled_subscriptions): the first queued row starts at
\* end, each of the others where its predecessor now expires, all keep their length.
Chain(t, from, end) ==
    \A q \in Scheduled(t) :
        \/ Before(t, q) = {} /\ from[q] = end
        \/ \E p \in Before(t, q) :
             /\ \A o \in Before(t, q) : o = p \/ Earlier(t, o, p)
             /\ from[q] = from[p] + Length(t, p)

\* Faulty variant: the queue is left where it was.
RebaseNothing(t, end) == sub' = t

RebaseQueue(t, end) ==
    \E from \in [Scheduled(t) -> end..Horizon] :
        /\ Chain(t, from, end)
        /\ \A q \in Scheduled(t) : from[q] + Length(t, q) <= Horizon
        /\ sub' = [q \in Row |->
             IF q \in Scheduled(t)
             THEN [t[q] EXCEPT !.start = from[q], !.expire = from[q] + Length(t, q)]
             ELSE t[q]]

\* switch_now ends the current row at this second and starts another plan.
Switched(t, c, r, p, days) ==
    [t EXCEPT ![c].status = "replaced", ![c].expire = now,
              ![r] = NewRow("active", p, now, days)]

SwitchNow(p, extra) ==
    LET t == Normalize(sub, now) IN
    /\ \E c, r \in Row :
         /\ IsCurrent(t, c, now) /\ t[c].plan # p
         /\ IsNew(t, r)
         /\ now + Days(p, extra) <= Horizon
         /\ \/ CancelQueue(Switched(t, c, r, p, Days(p, extra)))
            \/ RebaseQueue(Switched(t, c, r, p, Days(p, extra)), now + Days(p, extra))
         /\ Sell(r, Days(p, extra))
    /\ UNCHANGED <<now, reader, revoked, demoted>>

\* Faulty variant: the new row may end after the last instant.
SwitchScheduledUnbounded(p, extra) ==
    LET t == Normalize(sub, now)
        ends == {now} \cup {t[r].expire : r \in Candidates(t, now) \cup Scheduled(t)}
    IN
    /\ Candidates(t, now) \cup Scheduled(t) # {}
    /\ \E from \in ends, r \in Row :
         /\ \A e \in ends : e <= from
         /\ IsNew(t, r)
         /\ sub' = [t EXCEPT ![r] = NewRow("scheduled", p, from, Days(p, extra))]
         /\ Sell(r, Days(p, extra))
    /\ UNCHANGED <<now, reader, revoked, demoted>>

\* switch_scheduled: behind everything the user has, and never in the past.
SwitchScheduled(p, extra) ==
    LET t == Normalize(sub, now)
        current == {c \in Row : IsCurrent(t, c, now)}
        ends == {now} \cup {t[r].expire : r \in current \cup Scheduled(t)}
    IN
    /\ current \cup Scheduled(t) # {}
    /\ Scheduled(t) = {} => \A c \in current : t[c].plan # p
    /\ \E from \in ends, r \in Row :
         /\ \A e \in ends : e <= from
         /\ IsNew(t, r)
         /\ from + Days(p, extra) <= Horizon
         /\ sub' = [t EXCEPT ![r] = NewRow("scheduled", p, from, Days(p, extra))]
         /\ Sell(r, Days(p, extra))
    /\ UNCHANGED <<now, reader, revoked, demoted>>

Apply(p, extra) ==
    \/ Open(p, extra) \/ Renew(p, extra)
    \/ SwitchNow(p, extra) \/ SwitchScheduled(p, extra)

\* cancel_scheduled_subscription: no normalisation here.
CancelScheduled(r) ==
    /\ r \in Scheduled(sub)
    /\ sub' = [sub EXCEPT ![r].status = "cancelled"]
    /\ revoked' = revoked \cup {r}
    /\ UNCHANGED <<now, reader, bought, demoted>>

-----------------------------------------------------------------------------
(* refresh_subscription_states, for a clock value read earlier.            *)

Due(t, at) == {r \in Scheduled(t) : Covers(t, r, at)}

\* Faulty variants: a due row is promoted beside an active one, or not at all while
\* a row that has just run out still counts as active.
RefreshRowsAlways(at) ==
    LET t == Expire(sub, at) IN
    \/ /\ Due(t, at) = {}
       /\ sub' = t
       /\ UNCHANGED demoted
    \/ \E d \in Due(t, at) :
         /\ \A q \in Due(t, at) : q = d \/ Earlier(t, d, q)
         /\ sub' = [t EXCEPT ![d].status = "active"]
         /\ demoted' = demoted \ {d}

RefreshRowsTooSoon(at) ==
    LET t == Expire(sub, at) IN
    \/ /\ With(sub, "active") # {} \/ Due(t, at) = {}
       /\ sub' = t
       /\ UNCHANGED demoted
    \/ /\ With(sub, "active") = {}
       /\ \E d \in Due(t, at) :
            /\ \A q \in Due(t, at) : q = d \/ Earlier(t, d, q)
            /\ sub' = [t EXCEPT ![d].status = "active"]
            /\ demoted' = demoted \ {d}

RefreshRows(at) ==
    LET t == Expire(sub, at) IN
    \/ /\ Candidates(t, at) # {} \/ Due(t, at) = {}
       /\ sub' = t
       /\ UNCHANGED demoted
    \/ /\ Candidates(t, at) = {}
       /\ \E d \in Due(t, at) :
            /\ \A q \in Due(t, at) : q = d \/ Earlier(t, d, q)
            /\ sub' = [t EXCEPT ![d].status = "active"]
            /\ demoted' = demoted \ {d}

\* What a process may have read from the clock before it got the write lock.
ClockRead == {at \in Time : at <= now /\ now - at <= MaxLag}

\* Some other request, page or synchronisation refreshes.
Refresh(at) ==
    /\ RefreshRows(at)
    /\ UNCHANGED <<now, reader, bought, revoked>>

\* get_active_subscription: the refresh, and later the SELECT at a new instant.
ReadRefresh(at) ==
    /\ reader = NoReader
    /\ RefreshRows(at)
    /\ reader' = at
    /\ UNCHANGED <<now, bought, revoked>>

ReadSelect ==
    /\ reader # NoReader
    /\ reader' = NoReader
    /\ UNCHANGED <<sub, now, bought, revoked, demoted>>

\* _migrate_subscription_statuses, when a process starts.
Migrate(at) ==
    /\ sub' = Normalize(sub, at)
    /\ demoted' = demoted \cup {r \in With(sub, "active") : sub[r].start > at}
    /\ UNCHANGED <<now, reader, bought, revoked>>

Tick ==
    /\ now < Horizon
    /\ now' = now + 1
    /\ UNCHANGED <<sub, reader, bought, revoked, demoted>>

Next ==
    \/ \E p \in Plan, extra \in ExtraDays : Apply(p, extra)
    \/ \E r \in Row : CancelScheduled(r)
    \/ \E at \in ClockRead : Refresh(at) \/ ReadRefresh(at) \/ Migrate(at)
    \/ ReadSelect \/ Tick

Spec == Init /\ [][Next]_vars

-----------------------------------------------------------------------------
(* Properties.                                                             *)

\* Every column holds a value of its domain: no period reaches past the last
\* instant that can be stored.
TypeOK ==
    /\ sub \in [Row -> SubRow]
    /\ now \in Time
    /\ reader \in Time \cup {NoReader}
    /\ bought \in [Row -> Nat]
    /\ revoked \subseteq Row
    /\ demoted \subseteq Row

\* A user never has two active rows, whatever refreshes, migrations and
\* administrator actions race (tests/test_subscription_actions.py only counts
\* them after open and renew).
AtMostOneActive == \A q, r \in With(sub, "active") : q = r

\* No two live rows of a user share more than the second at which one follows the
\* other: nothing is paid for twice and the queue is behind the current row.
PeriodsDisjoint ==
    \A q, r \in Live(sub) :
        q # r => sub[q].expire <= sub[r].start \/ sub[r].expire <= sub[q].start

\* A live row lasts exactly what was bought for it: shifting, rebasing, promoting
\* and migrating never shorten or lengthen it.
PaidTimeKept == \A r \in Live(sub) : Length(sub, r) = bought[r]

\* As long as no queued row is cancelled, the rights of a user have no hole: each
\* queued row starts where another one ends, or is the first of all.
QueueContiguous ==
    revoked = {} => \A s \in Scheduled(sub) :
        \/ \E r \in Live(sub) : sub[r].expire = sub[s].start
        \/ \A r \in Live(sub) : r = s \/ sub[s].start < sub[r].start

\* A row is closed as expired only when its period is over, even by a refresh that
\* waited for the write lock.
ExpiredOnlyAfterEnd == \A r \in With(sub, "expired") : sub[r].expire < now

\* A request is refused for lack of a subscription only if the user has none at
\* that instant, or is in the very second in which a queued row takes over, or a
\* migration with an old clock has just put the row back.
EntitledIsServed ==
    reader # NoReader =>
        \A r \in Live(sub) \ demoted :
            sub[r].start < reader /\ Covers(sub, r, now) => Candidates(sub, now) # {}

\* The instants, from the present one on, that a live row covers.
Rights == {x \in Time : now <= x /\ \E r \in Live(sub) : Covers(sub, r, x)}

Promise == INSTANCE Entitlement WITH
    Lengths <- {Days(p, extra) : p \in Plan, extra \in ExtraDays}, Purchases <- Row,
    rights <- Rights, paid <- bought

\* The rows implement what a user is entitled to: a renewal or a new plan in the queue
\* costs no instant of what was there, a switch leaves no break, the cancellation of a
\* queued row takes what was bought with it at most, and whatever refreshes, migrates
\* or reads, by a clock value however old, changes nothing for the user.
ImplementsEntitlement == Promise!Spec
=============================================================================
