----------------------------- MODULE DailyQuota -----------------------------
(***************************************************************************)
(* The daily quota of one user: check_rate_limit                           *)
(* (services/rate_limit_service.py), the decorator that logs an allowed    *)
(* call (middleware/auth.py), the queue and the writer thread of the usage *)
(* log (services/usage_log_queue.py) and the daily counters it feeds       *)
(* (db_utils.py), from which the windows of the limiter are seeded.        *)
(*                                                                         *)
(* The windows of a minute and of a second end by themselves; here they    *)
(* only refuse or not.  All times are days.                                *)
(***************************************************************************)
EXTENDS Naturals, FiniteSets, FiniteSetsExt

CONSTANTS
    Procs,              \* the Web processes
    Requests,            \* request threads of all processes
    Home,               \* [Requests -> Procs]
    Limit,              \* quota_daily of the plan
    MaxQueue,           \* USAGE_LOG_QUEUE_SIZE
    MaxDay,             \* bound: the last day
    MaxCalls,           \* bound: calls
    MaxOutages           \* bound: lost Redis counters and restarts

ASSUME ProcessesFinite == IsFiniteSet(Procs) /\ IsFiniteSet(Requests) /\ Home \in [Requests -> Procs]
ASSUME QuotaIsNat == {Limit, MaxQueue, MaxDay, MaxCalls, MaxOutages} \subseteq Nat

VARIABLES
    today,
    required,   \* REDIS_REQUIRED
    shared,     \* the counter of each day in Redis, or NoWindow
    window,     \* _daily_windows of each process
    seeds,      \* _daily_seed_cache of each process, by day and format of its key
    serving,    \* where each request thread is
    day,        \* the day it read from the clock
    seed,       \* the initial usage it read
    counter,    \* request_count of each day in daily_usage_counters
    queue,      \* records in _log_queue of each process
    batch,      \* records its writer thread has taken
    allowed,    \* calls allowed on each day (history)
    opened,     \* windows opened for each day (history)
    carried,    \* calls of an earlier day counted on a day (history)
    ended,      \* allowed calls that came to an end (history)
    lost,       \* records given up (history)
    unanswered, \* calls Redis has counted on a day, and whose reply was lost (history)
    refused,    \* the last step refused a call for its day: that day, or NoWindow
    calls, outages

windowVars == <<shared, window, seeds>>
threadVars == <<serving, day, seed, calls>>
logVars == <<counter, queue, batch, carried, ended, lost>>
quotaVars ==
    <<today, required, windowVars, threadVars, logVars, allowed, opened, unanswered, refused, outages>>

Days == 0..MaxDay
NoWindow == MaxDay + MaxCalls + Limit + 1     \* no day and no count
Counts == 0..MaxCalls + Limit \cup {NoWindow}
Formats == {"shared", "local"}

\* A record in the queue remembers the day of its call only for the history.
NoRecords == [d \in Days |-> 0]
SumOf(f, S) == MapThenSumSet(LAMBDA x : f[x], S)
Total(f) == SumOf(f, Days)

QuotaInit ==
    /\ today = 0
    /\ required \in BOOLEAN
    /\ shared = [d \in Days |-> NoWindow]
    /\ window = [p \in Procs |-> [d \in Days |-> NoWindow]]
    /\ seeds = [p \in Procs |-> [d \in Days |-> [f \in Formats |-> NoWindow]]]
    /\ serving = [t \in Requests |-> "idle"]
    /\ day = [t \in Requests |-> 0]
    /\ seed = [t \in Requests |-> 0]
    /\ counter = [d \in Days |-> 0]
    /\ queue = [p \in Procs |-> NoRecords]
    /\ batch = [p \in Procs |-> NoRecords]
    /\ allowed = [d \in Days |-> 0]
    /\ opened = [d \in Days |-> 0]
    /\ unanswered = [d \in Days |-> 0]
    /\ carried = [d \in Days |-> 0]
    /\ ended = 0 /\ lost = 0
    /\ refused = NoWindow
    /\ calls = 0 /\ outages = 0

-----------------------------------------------------------------------------
(* check_rate_limit *)

\* _initial_daily_usage: the cached seed of the day, or the durable count,
\* which is 0 when it cannot be read.  The value is used and cached in one
\* step here: what another thread of the process caches in between is a count
\* of the same day as well.
ReadSeed(t, f) ==
    LET p == Home[t]
        cached == seeds[p][today][f]
    IN  /\ \E value \in IF cached # NoWindow THEN {cached} ELSE {counter[today], 0} :
              /\ seed' = [seed EXCEPT ![t] = value]
              /\ seeds' = [seeds EXCEPT ![p][today][f] = value]
        /\ day' = [day EXCEPT ![t] = today]

\* Nobody is refused or counted by this step.
Onwards(t, next) ==
    /\ serving' = [serving EXCEPT ![t] = next]
    /\ refused' = NoWindow
    /\ UNCHANGED allowed

Allow(t) ==
    /\ serving' = [serving EXCEPT ![t] = "running"]
    /\ allowed' = [allowed EXCEPT ![day[t]] = @ + 1]
    /\ refused' = NoWindow

Refuse(t, d) ==
    /\ serving' = [serving EXCEPT ![t] = "idle"]
    /\ refused' = d
    /\ UNCHANGED allowed

\* Redis is not at hand: the call is refused, or the process counts by itself.
WithoutRedis(t) ==
    \/ required /\ Refuse(t, NoWindow) /\ UNCHANGED <<seeds, day, seed>>
    \/ ~required /\ ReadSeed(t, "local") /\ Onwards(t, "local")

\* get_redis, and with a client the clock and the seed for the script.
Arrive(t) ==
    /\ serving[t] = "idle" /\ calls < MaxCalls
    /\ calls' = calls + 1
    /\ \/ ReadSeed(t, "shared") /\ Onwards(t, "shared")
       \/ WithoutRedis(t)
    /\ UNCHANGED <<today, required, shared, window, logVars, opened, unanswered, outages>>

\* What a window counts once it is there.
Counted(w, t) == IF w = NoWindow THEN seed[t] ELSE w

Opens(w, t) == opened' = IF w = NoWindow THEN [opened EXCEPT ![day[t]] = @ + 1] ELSE opened

\* Mutant of the next operator: the counter of the day is increased before the minute
\* is looked at.
ScriptCountsFirst(t, verdict) ==
    LET w == shared[day[t]]
        count == Counted(w, t)
    IN  /\ Opens(w, t)
        /\ \/ verdict = "wait" /\ shared' = [shared EXCEPT ![day[t]] = count + 1]
           \/ verdict = "daily" /\ count >= Limit /\ shared' = [shared EXCEPT ![day[t]] = count]
           \/ verdict = "allowed" /\ count < Limit /\ shared' = [shared EXCEPT ![day[t]] = count + 1]

\* _RATE_LUA, one step of Redis: a call that must wait for the next second or
\* minute touches nothing; a missing counter of the day begins at the seed.
Script(t, verdict) ==
    LET w == shared[day[t]]
        count == Counted(w, t)
    IN  \/ verdict = "wait" /\ UNCHANGED <<shared, opened>>
        \/ /\ Opens(w, t)
           /\ \/ verdict = "daily" /\ count >= Limit /\ shared' = [shared EXCEPT ![day[t]] = count]
              \/ verdict = "allowed" /\ count < Limit /\ shared' = [shared EXCEPT ![day[t]] = count + 1]

EvalShared(t) ==
    /\ serving[t] = "shared"
    /\ \/ Script(t, "allowed") /\ Allow(t)
       \/ Script(t, "daily") /\ Refuse(t, day[t])
       \/ Script(t, "wait") /\ Refuse(t, NoWindow)
    /\ UNCHANGED <<today, required, window, seeds, day, seed, logVars, calls, unanswered, outages>>

\* eval raises: the script did not run, or it did and its reply was lost (the
\* timeout of the socket is a second).  A script that Redis runs later still
\* counts here when the caller gives up.
SharedFails(t) ==
    /\ serving[t] = "shared"
    /\ \/ (Script(t, "wait") \/ Script(t, "daily")) /\ UNCHANGED unanswered
       \/ Script(t, "allowed") /\ unanswered' = [unanswered EXCEPT ![day[t]] = @ + 1]
    /\ WithoutRedis(t)
    /\ UNCHANGED <<today, required, window, logVars, calls, outages>>

\* Mutant of the next operator: the local window always begins at the seed.
CheckLocalAnew(t) ==
    LET p == Home[t]
    IN  /\ serving[t] = "local"
        /\ \/ seed[t] >= Limit /\ Refuse(t, day[t])
           \/ seed[t] < Limit /\ Allow(t)
        /\ window' = [window EXCEPT ![p][day[t]] = seed[t]]
        /\ Opens(window[p][day[t]], t)
        /\ UNCHANGED <<today, required, shared, seeds, day, seed, logVars, calls, unanswered, outages>>

\* _check_local, under its lock.
CheckLocal(t) ==
    LET p == Home[t]
        w == window[p][day[t]]
        count == Counted(w, t)
    IN  /\ serving[t] = "local"
        /\ \/ Refuse(t, NoWindow) /\ UNCHANGED <<window, opened>>
           \/ /\ Opens(w, t)
              /\ \/ /\ count >= Limit
                    /\ window' = [window EXCEPT ![p][day[t]] = count]
                    /\ Refuse(t, day[t])
                 \/ /\ count < Limit
                    /\ window' = [window EXCEPT ![p][day[t]] = count + 1]
                    /\ Allow(t)
        /\ UNCHANGED <<today, required, shared, seeds, day, seed, logVars, calls, unanswered, outages>>

-----------------------------------------------------------------------------
(* The usage log *)

Write(d, n, earlier) ==
    /\ counter' = [counter EXCEPT ![d] = @ + n]
    /\ carried' = [carried EXCEPT ![d] = @ + earlier]

\* The finally clause of the decorator: the record is queued; at the limit it
\* is dropped, or by USAGE_LOG_DROP_ON_FULL = False written at once.
Finish(t) ==
    LET p == Home[t]
    IN  /\ serving[t] = "running"
        /\ Onwards(t, "idle") /\ UNCHANGED calls
        /\ ended' = ended + 1
        /\ \/ /\ Total(queue[p]) < MaxQueue
              /\ queue' = [queue EXCEPT ![p][day[t]] = @ + 1]
              /\ UNCHANGED <<counter, carried, lost>>
           \/ /\ Total(queue[p]) >= MaxQueue
              /\ \/ lost' = lost + 1 /\ UNCHANGED <<counter, carried>>
                 \/ Write(today, 1, IF day[t] < today THEN 1 ELSE 0) /\ UNCHANGED lost
              /\ UNCHANGED queue
        /\ UNCHANGED <<today, required, windowVars, day, seed, batch, opened, unanswered, outages>>

Quietly == refused' = NoWindow /\ UNCHANGED <<required, threadVars, allowed, opened, unanswered>>

\* The writer thread takes one record.
Take(p) ==
    \E d \in Days :
        /\ queue[p][d] > 0
        /\ queue' = [queue EXCEPT ![p][d] = @ - 1]
        /\ batch' = [batch EXCEPT ![p][d] = @ + 1]
        /\ Quietly
        /\ UNCHANGED <<today, windowVars, counter, carried, ended, lost, outages>>

\* record_usage_logs_batch: a record has no date of its own, so all of the
\* batch is counted on the day of the flush.
Flushed(p) ==
    Write(today, Total(batch[p]), SumOf(batch[p], 0..today - 1))

\* Mutant of the next operator: the batch is not cleared when it has been written.
FlushKeepsBatch(p) ==
    /\ Total(batch[p]) > 0 /\ Total(counter) < MaxCalls + 1
    /\ Flushed(p)
    /\ Quietly
    /\ UNCHANGED <<today, windowVars, queue, batch, lost, ended, outages>>

\* _flush and batch.clear(): a batch that cannot be written is given up.
Flush(p) ==
    /\ Total(batch[p]) > 0
    /\ batch' = [batch EXCEPT ![p] = NoRecords]
    /\ \/ Flushed(p) /\ UNCHANGED lost
       \/ lost' = lost + Total(batch[p]) /\ UNCHANGED <<counter, carried>>
    /\ Quietly
    /\ UNCHANGED <<today, windowVars, queue, ended, outages>>

-----------------------------------------------------------------------------

\* Redis evicts the counter of a day or is restarted without it.
LoseShared ==
    \E d \in Days :
        /\ shared[d] # NoWindow /\ outages < MaxOutages
        /\ shared' = [shared EXCEPT ![d] = NoWindow]
        /\ outages' = outages + 1
        /\ Quietly
        /\ UNCHANGED <<today, window, seeds, logVars>>

\* A process dies with its windows, its seeds, its queue and its threads.
Restart(p) ==
    /\ outages < MaxOutages
    /\ outages' = outages + 1
    /\ window' = [window EXCEPT ![p] = [d \in Days |-> NoWindow]]
    /\ seeds' = [seeds EXCEPT ![p] = [d \in Days |-> [f \in Formats |-> NoWindow]]]
    /\ queue' = [queue EXCEPT ![p] = NoRecords]
    /\ batch' = [batch EXCEPT ![p] = NoRecords]
    /\ lost' = lost + Total(queue[p]) + Total(batch[p])
    /\ serving' = [t \in Requests |-> IF Home[t] = p THEN "idle" ELSE serving[t]]
    /\ refused' = NoWindow
    /\ UNCHANGED <<today, required, shared, day, seed, calls>>
    /\ UNCHANGED <<counter, carried, ended, allowed, opened, unanswered>>

Midnight ==
    /\ today < MaxDay
    /\ today' = today + 1
    /\ Quietly
    /\ UNCHANGED <<windowVars, logVars, outages>>

QuotaNext ==
    \/ \E t \in Requests :
          Arrive(t) \/ EvalShared(t) \/ SharedFails(t) \/ CheckLocal(t) \/ Finish(t)
    \/ \E p \in Procs : Take(p) \/ Flush(p) \/ Restart(p)
    \/ LoseShared
    \/ Midnight

QuotaSpec == QuotaInit /\ [][QuotaNext]_quotaVars

-----------------------------------------------------------------------------

QuotaTypeOK ==
    /\ today \in Days /\ required \in BOOLEAN
    /\ shared \in [Days -> Counts] /\ window \in [Procs -> [Days -> Counts]]
    /\ seeds \in [Procs -> [Days -> [Formats -> Counts]]]
    /\ serving \in [Requests -> {"idle", "shared", "local", "running"}]
    /\ day \in [Requests -> Days] /\ seed \in [Requests -> 0..MaxCalls]
    /\ counter \in [Days -> 0..MaxCalls]
    /\ \A p \in Procs : Total(queue[p]) <= MaxQueue

\* A window that is lost, or opened beside another one, costs at most one more
\* quota: with Redis at hand and its counter kept, a day has one window and its
\* quota is never exceeded, whatever the threads of all processes do at once.
QuotaBounded == \A d \in Days : allowed[d] <= Limit * opened[d]

\* Nobody is refused for the day before the quota is used up, except for two
\* kinds of calls: those of the day before whose records are written after
\* midnight, which count against the new day (db_utils.py:1249), and those Redis
\* has counted and whose reply was lost, which count although the caller was
\* refused or counted again (rate_limit_service.py:215).  Calls refused for
\* their minute, failures of Redis without an effect, restarts and counters that
\* begin anew never cost a part of the quota.
NotRefusedEarly ==
    refused # NoWindow => allowed[refused] + carried[refused] + unanswered[refused] >= Limit

\* Every allowed call that came to an end is counted once, is on its way, or
\* was given up on purpose.
UsageAccounted ==
    Total(counter) + SumOf([p \in Procs |-> Total(queue[p]) + Total(batch[p])], Procs) + lost = ended
=============================================================================
