-------------------------- MODULE KaipanlaSnapshot --------------------------
(***************************************************************************)
(* The official snapshots of one trading day: schedulers that compete in   *)
(* several processes (services/kaipanla_snapshot_scheduler.py), the capture*)
(* (services/kaipanla_bidding_service.py) and the transactions on the      *)
(* snapshots and their leases (services/kaipanla_snapshot_repository.py).  *)
(* run_once reads the clock first; the lease and the time of the snapshot  *)
(* are computed from that reading, whenever they are used.                 *)
(***************************************************************************)
EXTENDS Naturals

CONSTANTS
    Schedulers,     \* owner_id of each scheduler
    Types,          \* auction, post_open, close
    Target,         \* [Types -> Nat]: when each is due
    Window,         \* window_seconds
    LeaseTTL,       \* lease_seconds
    MaxCall,        \* bound: the longest call to the calendar or the upstream
    MaxInstant,     \* bound: the last instant
    MaxCrashes      \* bound: processes that die

ASSUME SomeType == Types # {}
ASSUME TimesAreNat ==
    /\ Target \in [Types -> Nat]
    /\ {Window, LeaseTTL, MaxCall, MaxInstant, MaxCrashes} \subseteq Nat

VARIABLES
    instant,
    snapshot,   \* the row of each type or NoSnapshot
    lease,      \* [owner, until] of each type or NoLease
    phase,      \* where each scheduler is in run_once
    current,    \* the clock it read first
    kind,       \* snapshot_type
    since,      \* when its present call began; of a fetch, when it asked
    crashes

captureVars == <<instant, snapshot, lease, phase, current, kind, since, crashes>>

Instants == 0..MaxInstant
NoSnapshot == [none |-> TRUE]
NoLease == [none |-> TRUE]

\* The type whose window holds an instant; the windows do not overlap.
Matches(i, k) == Target[k] <= i /\ i - Target[k] <= Window

CaptureInit ==
    /\ instant = 0
    /\ snapshot = [k \in Types |-> NoSnapshot]
    /\ lease = [k \in Types |-> NoLease]
    /\ phase = [s \in Schedulers |-> "waiting"]
    /\ current = [s \in Schedulers |-> 0]
    /\ kind = [s \in Schedulers |-> CHOOSE k \in Types : TRUE]
    /\ since = [s \in Schedulers |-> 0]
    /\ crashes = 0

Goes(s, next) ==
    /\ phase' = [phase EXCEPT ![s] = next]
    /\ since' = [since EXCEPT ![s] = instant]

Keep == UNCHANGED <<instant, current, kind, crashes>>

\* _loop and the beginning of run_once: the calendar is asked within a window.
Poll(s) ==
    /\ phase[s] = "waiting"
    /\ \E k \in Types : Matches(instant, k) /\ kind' = [kind EXCEPT ![s] = k]
    /\ current' = [current EXCEPT ![s] = instant]
    /\ Goes(s, "calendar")
    /\ UNCHANGED <<instant, snapshot, lease, crashes>>

\* The calendar answers; "closed" and "unknown" end the round, and so does a
\* snapshot that is there already.
Calendar(s) ==
    /\ phase[s] = "calendar"
    /\ \/ Goes(s, "waiting")
       \/ snapshot[kind[s]] = NoSnapshot /\ Goes(s, "acquire")
    /\ Keep /\ UNCHANGED <<snapshot, lease>>

\* acquire_lease, one transaction: everything is reckoned from current.
Free(s) ==
    LET l == lease[kind[s]]
    IN  l # NoLease => l.owner = s \/ l.until <= current[s]

AcquireLease(s) ==
    /\ phase[s] = "acquire"
    /\ \/ /\ Free(s)
          /\ lease' = [lease EXCEPT ![kind[s]] = [owner |-> s, until |-> current[s] + LeaseTTL]]
          /\ Goes(s, "recheck")
       \/ ~Free(s) /\ Goes(s, "waiting") /\ UNCHANGED lease
    /\ Keep /\ UNCHANGED snapshot

\* has_snapshot under the lease and get_snapshot in capture_snapshot.
Recheck(s) ==
    /\ phase[s] = "recheck"
    /\ Goes(s, IF snapshot[kind[s]] = NoSnapshot THEN "fetching" ELSE "release")
    /\ Keep /\ UNCHANGED <<snapshot, lease>>

\* The upstream answers: an error, or rows that are no valid snapshot.
FetchFails(s) ==
    /\ phase[s] = "fetching"
    /\ Goes(s, "release")
    /\ Keep /\ UNCHANGED <<snapshot, lease>>

\* Mutant of the next operator: a later capture replaces the first.
Replaced(old, new) == new

\* save_snapshot, one transaction: the first capture of a type stays.
Saved(old, new) == IF old = NoSnapshot THEN new ELSE old

Save(s) ==
    LET k == kind[s]
    IN  /\ phase[s] = "fetching"
        /\ snapshot' = [snapshot EXCEPT ![k] =
               Saved(@, [time |-> current[s], asked |-> since[s], by |-> s, revised |-> FALSE])]
        /\ Goes(s, "release")
        /\ Keep /\ UNCHANGED lease

\* Mutant of the next operator: the owner is not looked at.
ReleasedAnyway(s, l) == NoLease

\* release_lease: only its own row.
Released(s, l) == IF l # NoLease /\ l.owner = s THEN NoLease ELSE l

ReleaseLease(s) ==
    /\ phase[s] = "release"
    /\ lease' = [lease EXCEPT ![kind[s]] = Released(s, @)]
    /\ Goes(s, "waiting")
    /\ Keep /\ UNCHANGED snapshot

\* update_normalized_payload: rows of the snapshot are derived anew from its
\* raw payload.
Revise(k) ==
    /\ snapshot[k] # NoSnapshot /\ ~snapshot[k].revised
    /\ snapshot' = [snapshot EXCEPT ![k].revised = TRUE]
    /\ UNCHANGED <<instant, lease, phase, current, kind, since, crashes>>

\* A process dies; its successor's scheduler has another owner_id, but one of
\* the same name says as much about the row it leaves.
Crash(s) ==
    /\ phase[s] # "waiting" /\ crashes < MaxCrashes
    /\ crashes' = crashes + 1
    /\ Goes(s, "waiting")
    /\ UNCHANGED <<instant, snapshot, lease, current, kind>>

Elapse ==
    /\ instant < MaxInstant
    /\ \A s \in Schedulers : phase[s] \in {"calendar", "fetching"} => instant - since[s] < MaxCall
    /\ instant' = instant + 1
    /\ UNCHANGED <<snapshot, lease, phase, current, kind, since, crashes>>

Run(s) ==
    \/ Poll(s) \/ Calendar(s) \/ AcquireLease(s) \/ Recheck(s)
    \/ FetchFails(s) \/ Save(s) \/ ReleaseLease(s) \/ Crash(s)

CaptureNext ==
    \/ \E s \in Schedulers : Run(s)
    \/ \E k \in Types : Revise(k)
    \/ Elapse

CaptureSpec == CaptureInit /\ [][CaptureNext]_captureVars

-----------------------------------------------------------------------------

Snapshot == [time : Instants, asked : Instants, by : Schedulers, revised : BOOLEAN]
Lease == [owner : Schedulers, until : 0..MaxInstant + LeaseTTL]

CaptureTypeOK ==
    /\ instant \in Instants
    /\ snapshot \in [Types -> Snapshot \cup {NoSnapshot}]
    /\ lease \in [Types -> Lease \cup {NoLease}]
    /\ phase \in [Schedulers ->
           {"waiting", "calendar", "acquire", "recheck", "fetching", "release"}]
    /\ current \in [Schedulers -> Instants] /\ since \in [Schedulers -> Instants]
    /\ kind \in [Schedulers -> Types]
    /\ crashes \in 0..MaxCrashes

\* A day has one official snapshot of a type and it is the first one: whoever
\* captures later, with an expired lease or after a crash, and whatever the
\* upstream has changed meanwhile, does not replace it.
FirstCaptureKept ==
    [][\A k \in Types : snapshot[k] # NoSnapshot =>
          /\ snapshot'[k] # NoSnapshot
          /\ [snapshot'[k] EXCEPT !.revised = snapshot[k].revised] = snapshot[k]]_captureVars

\* Two schedulers ask the upstream for the same snapshot only when one of them
\* read the clock at least the life of a lease ago.
CapturesExclusive ==
    \A s, u \in Schedulers :
        s # u /\ phase[s] = "fetching" /\ phase[u] = "fetching" /\ kind[s] = kind[u] =>
            instant - current[s] >= LeaseTTL \/ instant - current[u] >= LeaseTTL
=============================================================================
