# A verification development for stock_server

stock_server is a Flask service that sells access to market-data interfaces. A
user owns an API key and a subscription to a plan; each request is authenticated,
limited, answered from a cache or from an upstream provider, and logged. An
administrator manages subscriptions, runs batches of interface tests, follows the
upstream specifications and publishes them.

This directory holds TLA+ modules of the parts whose correctness depends on the
order of things (several processes, one SQLite database, crashes, clocks), the TLC
configurations that check them on small instances, and proofs that TLAPS checks
for every value of the constants. Every definition was translated from the Python
code; `PROJECT.json` maps it to the file and lines it stands for (`map`). Line
numbers below are those of `src/`.

    tlasany M.tla                      parse a module
    tlc -config X.cfg MCsomething      model-check (the runs are listed in section 5)
    tlapm SubscriptionProofs.tla       check the proofs of a module

## 1. The system and its processes

| process | what runs in it |
|---|---|
| Web processes (waitress or gunicorn, several) | routes, authentication, market queries, administrator pages; daemon threads: usage-log writer, audit-spool writer, Feishu publisher, snapshot and documentation-status schedulers |
| admin API test worker (`tools/admin_api_test_worker.py`, one) | polls the batch tables and executes batches on a thread pool; cleans results up at a fixed hour |
| SQLite in WAL mode | the authority for users, keys, subscriptions, batches, logs; one writer at a time, writers wait for the lock or retry (`run_db_write_with_retry`) |
| Redis (optional) | shared copies of authentication contexts and market data, and the request counters |
| external services | the market-data providers, the official documentation site, Feishu, mail and SMS |

The processes share nothing but SQLite, Redis, files and the remote tables. A module's state is
therefore mostly rows of tables plus, for each process or thread, where it stands
between two accesses to them.

## 2. Inventory

For each component: its state, its operations, whom it meets, what is hard about
it, and what makes it correct. `PROJECT.json` lists the same components with their
source files, and under `hazards` each hard behaviour at the line where it bites.

**Subscription store** (`services/member_service.py`, `db_utils.py`).
State: the rows of `subscriptions` (status, plan, start, expire). Operations: the
actions open, renew, switch_now and switch_scheduled (`apply_subscription_action`),
`cancel_scheduled_subscription`, the refresh that every reader triggers
(`refresh_subscription_states`), `get_active_subscription`, the start-up migration.
Met by: administrator routes, authentication, pages, Feishu. Hard: refreshes,
actions and migrations of several processes race, each with the clock value it read
before it got the lock; periods share their boundary second; a renewal or a switch
moves a whole queue. Correct when: at most one row is active, live periods do not
overlap, nobody loses paid time, a row ends only after its last second, the queue
has no hole nobody made, and a user with rights is served.

**Interface-test batches** (`services/admin_api_test_batch_service.py`,
`admin_api_test_repository.py`, `admin_market_test_service.py`). State: batch and
item rows; per execution the items left, the futures of the pool. Operations:
create, enqueue, cancel, progress (which recounts), execute a batch, execute an
item, recover after a crash. Met by: Web threads (create, cancel, view, execute
single tests) and the worker. Hard: each repository call is a transaction of its
own, so another process can act between any two; a crash leaves rows marked
running; a cancellation races with the end of the batch and with the pool. Correct
when: no item stays running without a runner, a finished batch has no item left
over, `completed` means that all succeeded, a cancellation stops new work, results
are not overwritten, every waiting batch ends.

**Authentication context cache** (`services/auth_context_cache.py`,
`middleware/auth.py`, key rotation in `member_service.py`). State: a dictionary per
process, keys in Redis, the key row and the rights in the database. Operations:
look-up with promotion from Redis, load, store, clear, evict; rotate a key, change
rights. Hard: a request under way stores what it read before a change; promotion
gives an old entry a new life; a clear may fail, or look for the wrong digest.
Correct when: what a request is served on is at most a bounded time old, and a
cleared entry does not come back by itself.

**Result retention and locking** (`admin_api_test_cleanup_service.py`,
`admin_api_test_storage.py`, repository). State: is_locked, cleanup_status,
retention_days, expires_at of a batch, its directory. Operations: the nightly
cleanup, manual deletion, lock, unlock, change of the retention. Hard: the cleanup
works on a list read earlier; an unlocking computes the new expiry from a row read
before; files go before rows; a crash leaves `deleting`, which nothing selects again;
the runner writes the manifest after the batch has ended. Correct when: results go
only when their time is over or an administrator says so, rows and files agree.

**Audit spool** (`services/audit_spool.py`, `audit_repository.py`). State: a spool
database, the main table, JSONL emergency files, retry counters. Operations:
enqueue, flush, mark failures, dead-letter, recover emergency files. Hard: two
databases and files without a common transaction, crashes between them, several
writers with copies of the same rows, several processes recovering the same
directory while requests append to it. Correct when: an accepted event is in the
main table, among the dead letters or still recorded somewhere, it becomes a dead
letter only after the configured failures, and the spool drains.

**Market-data query and cache** (`market_data_service.py`, `market_data_cache.py`,
`keyed_lock.py`). State: local and Redis entries with a fresh and a stale limit, the
table of locks, the refreshes in flight. Operations: query, background refresh,
promotion, clear. Hard: a background refresh does not hold the key's lock; the
fallback is chosen before the upstream call; locks are counted and dropped. Correct
when: one upstream call per key and process at a time, the age of an answer is
bounded, a flag that keeps refreshes away has somebody who will take it away.

**Kaipanla bidding snapshots** (`kaipanla_snapshot_scheduler.py`,
`kaipanla_bidding_service.py`, `kaipanla_snapshot_repository.py`). State: one
official row per date and type, a lease row. Operations: `run_once` of several
schedulers, the capture, a manual revision of the normalised rows. Hard: the lease is
computed from a clock read before a slow call; it expires under its owner. Correct
when: one capture at a time as long as nobody is slow, an official snapshot is never
replaced.

**Rate limiter** (`rate_limit_service.py`) and **usage-log queue**
(`usage_log_queue.py`). State: Redis counters, local windows seeded from the log, a
bounded queue, the batch of the writer, the counters in the database. Hard: the way
to the local fallback and back, replies of Redis that are lost, a full queue, a failing batch, midnight, a restart.
Correct when: a quota is exceeded at most by what an outage allows, nobody is refused
early, every allowed call is counted once or given up on purpose.

**Concurrent query slots** (`market_query_security.py`). State: three counters in
Redis that live for a while, local counters of each process. Operations:
`request_lease` (acquire, run, release). Hard: a call to Redis may fail before or
after its effect, a process dies in a query, a counter expires under a running query.
Correct when: no more queries run than the limit says; a slot that leaks comes back.

**Tushare specification monitor** (`tushare_spec_monitor_*.py`,
`tushare_spec_sync_service.py`, `routes/admin_market_test_routes.py`). State: a lease,
one alert per official content (new, viewed, syncing, candidate_ready, published,
verified, failed, superseded, ...), candidates. Operations: scan; view, synchronise,
publish, verify. Hard: scans outlive their lease; what a scan or a verification
compares was read earlier; the official page may return to what it said before.
Correct when: an interface that differs from its official specification is shown.

**Interface specification releases** (`market_interface_spec_service.py`). State:
directories of releases, a pointer file, the manifest of a candidate, a two-field
cache shared by threads. Operations: publish a selection, save a preset, load. Hard:
four files are written one by one, two editors start from the same release, the
cache is written without a lock. Correct when: the pointer names a complete release
with the last publication of each interface, and tests get what is in effect.

**Feishu publication** (`feishu_sync_service.py`, `process_lock.py`,
`integrations/feishu/bitable.py`). State: the members (local, authoritative), the rows
of the remote table, a lock file. Operations: publish all or one, import rows. Hard:
listings that fail halfway, lost replies, data read before the first row is written,
registrations and changes of contact data beside an import, visitors who fill in ids and
contact data of others, death of the lock's holder. Correct when: a row that shows a
member goes on to show it, never as of older data, no more rows are added than listings
were cut, and a publication without failures leaves every member up to date.

**API documentation and interface status**, **accounts, captcha and contact
verification**, **Web layer**, **configuration, deployment and tools**: see
`PROJECT.json`; they are not planned, because they are texts, stateless glue, or
concerned with security rather than with the order of steps.

## 3. The modules

| module | component | EXTENDS |
|---|---|---|
| `Entitlement` | abstract: the instants a user has rights | Integers |
| `Subscription` | rows of one user; implements `Entitlement` | Integers, INSTANCE Entitlement |
| `MCSubscription` | its instance and view | Subscription |
| `SubscriptionProofs` | theorems about it | Subscription, TLAPS |
| `TestItem` | abstract: the life of the items of a batch | (none) |
| `ApiTestBatch` | batches, the worker, the Web threads; implements `TestItem` | Integers, FiniteSets, FiniteSetsExt, INSTANCE TestItem |
| `ApiTestBatchProofs` | theorems about it | ApiTestBatch, TLAPS, FiniteSetTheorems, WellFoundedInduction |
| `MCApiTestBatch` | its instances | ApiTestBatch |
| `AuthCache` | contexts of one user in two processes and Redis | Integers |
| `AuthCacheProofs` | theorems about it | AuthCache, TLAPS |
| `MCAuthCache` | its instance | AuthCache |
| `KeyMutex` | abstract: one plain lock per key | (none) |
| `KeyedLock` | the table of counted lock objects; implements `KeyMutex` | FiniteSets, INSTANCE KeyMutex |
| `MarketCache` | market data of one key in one process, Redis and elsewhere | FiniteSets, INSTANCE KeyMutex |
| `MarketCacheProofs` | theorems about it, and about the parts of `MCCaches` side by side | MCCaches, AuthCacheProofs |
| `MCCaches` | contexts, market data or the daily quota, side by side | AuthCache, MarketCache, DailyQuota |
| `DailyQuota` | rate limiter and usage log of one user | FiniteSets, FiniteSetsExt |
| `QuerySlots` | concurrent queries | FiniteSets |
| `QuerySlotsProofs` | theorems about it | QuerySlots, FiniteSetTheorems, TLAPS |
| `MCQuerySlots` | its instance | QuerySlots |
| `BatchRetention` | deletion of test results | Naturals |
| `KaipanlaSnapshot` | snapshots of one trading day | Naturals |
| `MemberPublication` | members and the Feishu table | FiniteSets, Sequences |
| `ServicesProofs` | theorems about the locks, the snapshots, the retention, the members and the quota, the refinement of `KeyMutex` among them, and about the five services side by side | MCServices, DailyQuota, QuerySlotsProofs, WellFoundedInduction, TLAPS |
| `MCServices` | five services side by side | KeyedLock, QuerySlots, BatchRetention, KaipanlaSnapshot, MemberPublication |
| `SpecReleases` | versioned specifications | FiniteSets |
| `SpecMonitor` | alerts of one interface | Naturals |
| `SpecProofs` | theorems about both, and about the parts of the tester side by side | MCInterfaceTester, ApiTestBatchProofs |
| `MCInterfaceTester` | batches, releases or alerts, side by side | ApiTestBatch, SpecReleases, SpecMonitor |
| `Outbox` | abstract: events wait until they are delivered or given up | Naturals |
| `AuditSpool` | spool, main database, emergency file, writer threads, requests; implements `Outbox` | Integers, FiniteSets, FiniteSetsExt, INSTANCE Outbox |
| `MCAuditSpool` | its instance | AuditSpool |
| `AuditSpoolProofs` | theorems about the rows and the files | AuditSpool, TLAPS |

A module that stands side by side with others in an MC module has names of its own for
its specification (`QuotaInit`, `QuotaNext`, ...). The MC module chooses one `part`
per behaviour and lets it alone move: these services share no state, so a joint
interleaving would show nothing more, and one run asks the questions of all.

Definitions called "faulty variant" or "mutant" in a comment are not part of a
specification: each is an action or operator with a plausible mistake, used to see
that a property notices it (section 6).

### Subscription

`sub` is the table of one user (every statement of the code is restricted to one
user or treats them one by one), indexed by row id; `absent` is an id not yet used.
`now` is the clock in seconds, reduced to a few instants. `reader` is a
`get_active_subscription` between its refresh and its SELECT, which the code does in
two transactions with two clock values.

| action | code |
|---|---|
| `Open`, `Renew`, `SwitchNow`, `SwitchScheduled` | the branches of `apply_subscription_action`, normalisation included; a branch that raises is rolled back, so it is not a step |
| `CancelScheduled` | `cancel_scheduled_subscription`, which does not normalise |
| `Refresh(at)`, `ReadRefresh(at)` | `refresh_subscription_states` with a clock value `at` read up to `MaxLag` ago |
| `ReadSelect` | the SELECT of `get_active_subscription`, at `now` |
| `Migrate(at)` | `_migrate_subscription_statuses`, when a process starts |
| `Tick` | time |

Both ends of a period belong to it and a successor starts at the second in which
its predecessor ends, as in the code. `Chain` says what
`_rebase_scheduled_subscriptions` computes in its loop: the new start of each queued
row, in the old order. The administrator actions read the clock after
`BEGIN IMMEDIATE`, so they use `now`. A datetime has a last value; `Horizon` is that
value, and an action that would pass it raises.

History variables: `bought` (what each row was sold for), `revoked` (the queued rows that
were cancelled by themselves), `demoted` (a migration with an old clock has put back a row
that had just become active). The last two weaken invariants, in the way stated there; the
first two are also what the refinement mapping gives to `Entitlement`.

### ApiTestBatch

`status`, `cancelReq`, `bad`, `item` are columns; of the counts of a batch only
"some item failed or was skipped" is kept, because the verdict reads only that.
`creator` is the progress of `create_batch`; `run[e]` the execution in the worker or
in the request thread of a single test, whose `pc` names its next repository call;
`task[e][i]` is `run_item` on a pool thread and its future; `request` and `page` are
a cancellation and a progress view between their read and their write.

| actions | code |
|---|---|
| `InsertBatch` .. `Enqueue` | `create_batch`: the row is committed as queued before its items |
| `CancelRead`, `CancelWrite` | `request_cancel`: a status computed from an earlier read |
| `ViewRead`, `ViewWrite` | progress: `recalculate_batch_counts`, a read then a write |
| `Claim` .. `Manifest` | `_worker_loop` and `run_batch_now` |
| `RunFault`, `FailBatch` | its except branch, after the pool is shut down |
| `TaskStart` .. `TaskWrite`, `TaskFault` | `run_item` and `_store_and_finish` |
| `Crash`, `WorkerDies`, `WorkerStart` | a process dies, the polling thread dies of a database error, `start_worker` with `recover_interrupted_batches` |

`Claim` takes any waiting batch: the order is by `created_at`, whose resolution is a
second. One cancellation and one view are under way at a time. The in-process worker
of a development server is not modelled (production refuses it), nor are the files
of the results; an orderly `stop_worker` joins with a timeout, and if the timeout
passes it is the crash.

History variables name the exceptions the properties make: `early` (claimed before
all its items existed), `blurred` (a stale recount landed between the runner's write
and its read), `late` (items started after the cancellation), `lost` (cancellations
a restart wiped out), `aborted` (batches an exception marked failed).

### AuthCache

`key` is the token whose digest the key row holds, `right` what the SELECTs of
`_load_auth_context` grant; `local` and `shared` the caches; `req` the requests
between their steps; `change` an operation between its commit and the end of
`clear_user_auth_context_cache`. Time is relative: an entry carries how long it
still lives and how old its content is, so the clock is not bounded.

| actions | code |
|---|---|
| `BeginRequest` | the local look-up; the instant read here is used until the end |
| `GetShared`, `GetFails`, `Promote` | the Redis look-up and the local copy |
| `LoadKey`, `LoadRight`, `StoreLocal`, `StoreShared`, `EndRequest` | load and store |
| `Evict` | `_prune_locked` |
| `Rotate`, `ChangeRight` | the commits of `rotate_api_key`, of subscription actions and profile updates |
| `ClearSelect`, `ClearLocal`, `ClearShared` | `clear_user_auth_context_cache` |
| `Tick` | time; a request lasts at most `MaxHold` |

History: `changer` (who changed last), `missed` (a clear met a failure), and in
each request and entry `raced` (under way during a change) and `retired` (arrived
with a token already rotated out).

### AuditSpool

`queue`, `dead` and `lastId` are the spool database (the last is what AUTOINCREMENT
remembers), `main` the tables of the main database. Files have an identity: `orig`
and `proc` say which file is called `*.jsonl` and which `*.jsonl.processing`,
`lines` what is in each. A renaming changes the names only, so a thread that has a
file open goes on with the same file, as POSIX has it. `submit` is
`enqueue_event` of each event, `writer` the writer thread of each process: its `pc`,
the rows it has selected (copies), the file it has open, what it has read of it and
whether everything was durable so far.

| actions | code |
|---|---|
| `Submit` | `_insert_spool_row`, or its failure |
| `OpenForAppend`, `AppendLine`, `AppendFails` | `_write_emergency`: opening by name, then writing |
| `Start`, `Crash` | `start_audit_spool_worker` and `_worker_loop`; a process dies or stops |
| `Glob` .. `Repair`, `RecoveryFails` | `recover_emergency_files`, one action per access to the directory or the spool |
| `Select` | the SELECT of `flush_spool_once`: new rows and any whose delay may be over |
| `InsertMain`, `Confirm` | `insert_events_batch`: the transaction, then the SELECT that confirms |
| `Settle`, `MarkFailures`, `SpoolFails` | the last transaction of a flush, by row id |

One event type and one day are modelled (files of different names never meet), and
every row and line parses. The final flush of an orderly stop ignores the delays; since
a row may be due at any time here, it is a flush followed by the crash of an idle
writer. Old history is deleted from the main database elsewhere; `main` only grows.

History: `fails` counts the failed attempts per event; `overlap` is set when a
recovery meets another one, an append under way, or its early end by a crash or by
the failure of its last renaming.

### KeyMutex and KeyedLock

`table` is `_locks`, `holder` who has acquired each `threading.Lock`, `pc` and `mine`
each caller's place and local variable. `Enter` (register under the guard), `Acquire`,
`Release` and `Leave` (take the reference back) are separate because only the first and
the last hold the guard. `Dropped` has all three branches of the `finally` clause. An
object nobody refers to counts as new. `Mutex` is the refinement mapping: the owner of
a key is the thread inside its block.

### MarketCache

One key of an interface with a stale window. `step` and `look` say which of the four
lookups of `query_market_data` a thread is in (fresh, stale, recheck under the lock,
existing before the call) and what it does next; `parcel` is what it brings from one
cache to the other.

| actions | code |
|---|---|
| `Query`, `Look`, `CopyDown` | the lookups, `get_cached_entry` and the promotion from Redis |
| `Schedule`, `Submit`, `TakeBack` | `_schedule_background_refresh`: the flag under the guard, `executor.submit` after it, and its `RuntimeError` |
| `BeginRefresh` .. `Discard` | `_background_refresh` with its `finally` |
| `EnterLock`, `LeaveLock` | `keyed_lock`, as the plain lock `KeyMutex` |
| `AnswerStored` .. `AnswerFails`, `ShareAnswer` | the ways out of the upstream call; storing is local first, then Redis |
| `Lose`, `Elsewhere`, `MarketTick` | eviction and `clear_cache`; other processes; time |

An answer is abstracted to whether it has rows and to the instant it was asked for,
which is the worst case of its age. The pool refuses a task when it has been shut down, and
then has not taken it; `submit` also raises when no thread can be started, with the task
already in the queue, where a thread that is there will find it. `unflagged` (history) says
where this has happened: the flag is taken back and the refresh runs all the same.

### DailyQuota

Two processes, one user, a few days. `shared` and `window` are the counters of Redis
and of each process, `seeds` the cached seeds, `counter` the durable count,
`queue` and `batch` the records on their way.

| actions | code |
|---|---|
| `Arrive` | `check_rate_limit` as far as `get_redis`: the seed for the script, or no client |
| `EvalShared`, `SharedFails` | `_RATE_LUA` (`Script`) with its answer, or an exception: the script did not run, or it did and its reply was lost |
| `CheckLocal` | `_check_local` |
| `Finish` | the `finally` clause of the decorator and `enqueue_usage_log` |
| `Take`, `Flush` | the writer thread and `record_usage_logs_batch` |
| `LoseShared`, `Restart`, `Midnight` | Redis without its counter, a process that dies, the next day |

A record carries the day of its call for the history only: the code dates the batch.
Without Redis, and after any exception, `WithoutRedis` refuses the call (`REDIS_REQUIRED`)
or reads the seed of the local window. History: `allowed`, `opened` (windows begun for a
day), `unanswered` (calls Redis has counted and whose reply was lost), `carried` (calls of
one day counted on the next), `ended`, `lost`.

### QuerySlots

`slots` and `life` are the counters in Redis and how long they still live, `own` the
local ones. `AcquireSlot`, `AcquireFails` (before or after its effect), `AcquireLocal`,
`ReleaseSlot`, `ReleaseFails`, `ReleaseLocal` are the branches of `request_lease`, `ServerDies`
ends a process, `Tick` ages everything. Bound: `MaxLeaks` failures.

### BatchRetention

`row` has the columns that decide about a deletion, `files` whether there is a
directory, `stage`, `target` and `list` where the two deleters are (the nightly cleanup
and an administrator's request). `Mark`, `RemoveFiles`, `RemoveRow`, `RecordFailure`
are the steps of a deletion, `Die` a crash between any two; `LockBatch`, `BeginChange`
and `EndChange` the administrator's changes, the last two with a read in between
(`Written` is what they make of the columns read);
`FinishBatch` and `WriteManifest` the end of an execution. A batch that retries another
refers to its row (`Parent`), which a foreign key then keeps; only batches in `Managed`
are changed by hand, to keep the instance small. History: `touched`, `late`, `forsaken`.

### KaipanlaSnapshot

Each scheduler goes through `Poll` (which reads the clock), `Calendar`,
`AcquireLease`, `Recheck`, the fetch (`FetchFails` or `Save`) and `ReleaseLease`. A
call takes at most `MaxCall`. `Revise` is `update_normalized_payload`. A snapshot
remembers when it was asked for and by whom.

### SpecReleases

Editors are requests with a service object of their own: `BeginEdit` loads the
specifications in effect, `MakeDirectory`, `WriteSpecs`, `ReadManifest`,
`WriteManifest`, `Switch` are its accesses to files, `Abandon` its end between any two.
Readers are threads that share one object: `ReadPointer`, `Compare`, `CopyRows`,
`CacheVersion`, `CacheRows`. A specification is the release that introduced it.
History: `latest`, `overlapped`, `cutShort`, `crossed`, `outdated`.

### SpecMonitor

One interface; a specification is its hash. A scan goes through `ListTargets`,
`LeaseScan`, `FetchOfficial`, then `Supersede` and `Upsert` when the page differs or
`Resolve` when it does not, and `ReleaseScan`. An administrator views (`View`),
makes a candidate (`BeginSync` .. `MarkCandidate`), publishes (`Publish`, `AlertsOf`,
`Bind`) and has it verified (`BeginVerify` .. `VerifyMark`). `LeaseRunsOut`,
`ScanDies`, `AdminDies` may happen anywhere; the page changes `MaxMoves` times.

### MemberPublication

`profile` has, for each member, whose contact data it has had, edition by edition (a person,
or none); `sheet` the remote rows, each with the user id, the person and the edition it
shows (0: filled in by a visitor); `job` each publishing or importing thread. Publishing:
`BeginPublish` (takes the lock or gives up), `ReadMembers`, then per member `FindRow` and
`Upsert`. Importing: `BeginImport`, `ReadRecords`, then per row `LinkRecord`,
`CreateMember`, `FetchMember`, `WriteBack`. Beside them, without the lock, `Apply` and
`Register` (a look, then an INSERT), `ChangeMember` (`update_user_profile`, which may take
over the contact data of another member between its look and its UPDATE), and `FillIn` by
visitors, with any contact data and any user id, known or not. `Owners` is the decision of
the import: a user id counts unless the contact data speak of somebody else, and contact
data of several members are a conflict. A failing call, spent from `MaxFailures`, is a
listing that is cut or a write that is reported as failed, whether or not it took effect.
History: `filled` (rows visitors added), `missed` (searches that did not find a row of the
member).

## 4. Properties

**Subscription.** `AtMostOneActive`, `PeriodsDisjoint`, `PaidTimeKept`,
`QueueContiguous`, `ExpiredOnlyAfterEnd`: see the comments in the module. All hold,
also for writers that waited for the lock with an old clock: that is the question a
test does not reach. `EntitledIsServed` needs two exceptions, both consequences of
the code: in the very second a queued row takes over, a refresh that ran before that
second leaves it queued; and a migration with an old clock may demote a row.
`ImplementsEntitlement` is a refinement: what the rows, statuses, shifts, rebases,
refreshes and migrations amount to is a set of instants (`Rights`, what the live rows cover
from now on), which a purchase prolongs by its whole length, a switch that takes effect at
once replaces without a break, a cancelled queue entry shortens, and nothing else touches.
Only a cancellation can be an abstract `Revoke`: that is a step for a purchase not revoked
before, it takes away no more than was paid for it, and it is recorded. A refresh,
migration or renewal that lost an instant would be no step of `Entitlement` at all.

**ApiTestBatch.** `RunningHasOwner`, `LateStartsBounded`, `NothingStranded`,
`VerdictHonest`, the refinement `ImplementsTestItem`, `SingleSettles` and the liveness
`WaitingBatchesEnd`. `update_item` stores whatever status it is given over whatever is
there; the refinement says what that amounts to: an eligible item of an ordinary batch is
run only while it waits, cancelled only while no task holds it, waits again only after an
interruption, and what it has come to is final, except that a task that stored a result
and then met a database error turns it into a failure. The exceptions the properties make
(a batch claimed half-built, cut short by an exception, or recounted at a bad moment) are
real behaviours, each one a hazard in `PROJECT.json`; without an exception TLC finds the
behaviour at once. `WaitingBatchesEnd` holds unless a database error ends the polling
thread, which nothing restarts while its process lives.

**AuthCache.** `StaleForAWhileOnly` bounds the age of what a request is served on
by one life in Redis, one as a local copy and the time of a request. `ClearedIsGone`
says what is left after a clear in the process that cleared and in Redis. The copies of other
processes are not cleared, which `docs/features/subscription-actions.md:127` does not say:
they count for a while, and `StaleForAWhileOnly` says for how long.

**AuditSpool.** `SpooledIsKept` (nothing the spool has taken is lost, whatever writers
with stale copies do), `FiledIsKept` (nor what the emergency file has taken, with
the exception just named), the refinement `ImplementsOutbox` (an event that has been taken
waits until it has reached the main database, and is given up only when as many attempts as
`MaxRetries` have failed for it, although each writer counts on from its own copy of the
row), and the liveness `QueueDrains`.

**KeyedLock.** `TableIsExact` and `ImplementsMutex`, a temporal property: every behaviour
of the table is one of the plain lock.

**MarketCache.** `CallsCollapsed` is what the keyed lock is for. `ServedAgeBounded` adds
up what may come together: a call, a life, a stale window and a second call; refreshes
that overtake each other, promotions and evictions do not add to it.
`RefreshFlagExact`: a flag has somebody who will take it away (a refresh, or a thread
between setting it and the answer of the pool), since one left behind would end refreshing
for good; and refreshes are one at a time, but for one that runs although its submission
has failed.

**DailyQuota.** `QuotaBounded`: one quota per window opened, hence exactly one as long
as Redis answers. `NotRefusedEarly` counts against the quota, beside the calls allowed, two
kinds of calls by name: those dated on the day after (`db_utils.py:1249`) and those Redis
has counted and whose reply was lost (`rate_limit_service.py:215`), which the caller sees
refused or counted once more. Nothing else costs a part of the quota. `UsageAccounted`
balances calls, records and counts.

**QuerySlots.** `SlotsBounded` holds while no query outlives its counter; `LeaksEnd` is
refuted (section 7).

**BatchRetention.** `KeptWhileDue` (an action property) and `DeletionsHonest`; their
exceptions are the hazards at `admin_api_test_cleanup_service.py:51` and
`admin_api_test_storage.py:221`.

**KaipanlaSnapshot.** `FirstCaptureKept` holds without exception: the transaction that
stores looks again. `CapturesExclusive` says when two schedulers can ask at once: only
if one read its clock a whole lease ago.

**SpecReleases, SpecMonitor.** `PublishedIsServed` and `DriftIsAlerted`. Each excepts by
name what the code lets happen; the comments list the cases, each a hazard.

**MemberPublication.** `TableFollows` has three parts. The rows of a member that no visitor
added are at most one more than the searches that missed one: this needs the lock and the
order of listing and adding. A row that shows a member goes on to show it, as of an edition
that is not older, with the contact data of that edition, although imports go by contact
data that members change and visitors fill in at will. A publication that reports no
failure leaves each member it has read in a row at least as new as it has read it. That two
members may come to have the contact data of one person is a fact of the code, and no
property speaks against it.

**What an exception costs.** A property that excepts a case by a history variable (`early`,
`aborted`, `blurred`, `overlap`, `touched`, `cutShort`, `overlapped`, `crossed`) says nothing
of that case, however bad it is. In `PROJECT.json` such a case is a hazard of its own, at
its line, which that property is not credited with.

## 5. Runs and bounds

| run | bounds | states | why they are enough |
|---|---|---|---|
| `subscription` | 4 rows, plans of 1 and 2 instants, 7 instants, lag 1 | 142 k | a current row and a queue of three is the shortest on which a rebase or shift can go wrong in the middle; two lengths make a change of order visible; the proofs lift the bounds |
| `interface_tester` | batch: 3 items, one not eligible, pool of 1, one crash, cancellation, view and fault each; releases: 2 editors and 1 test or 1 editor and 2 tests, 2 interfaces, 2 releases after the seed; monitor: 2 scans, 1 administrator, 2 official contents, 1 change, 1 candidate | 2.4 M | a task in the pool, one about to be handed over and one left; two edits can start from the same release and two tests can meet in the cache; the page can change under a scan and return. All of its properties are proved for any number |
| `api_batch_live` | a batch of 2 items or a single test, pool of 2, one crash, cancellation and fault, no view | 775 k | liveness with two concurrent tasks, and both executors on the one item of a single test; a view only rewrites counts, which no guard of the runner waits for |
| `caches` | contexts: 2 processes with one request each, 2 tokens, 2 rights, TTL 3, promotion 1, hold 1, 3 requests, 1 change, 1 fault; market data: up to 2 threads of one process and up to 2 refreshes, lives 1, stale window 2, calls up to 1, 5 instants in the parts about ages and 1 in those about threads; quota: limit 2, 2 processes, queue of 1, with 3 calls over midnight or with an outage, or 2 calls with both | 2.5 M | three requests: one fills Redis, one copies it late, one is served; two threads compete for the lock or for the flag while the pool refuses; an entry can be filled, grow stale, end and be filled again; the quota can be used up in two windows, over midnight and by calls whose reply is lost. All of it is proved for any number |
| `audit_spool` | 2 processes, 2 events, 4 file identities, batch of 2, 2 retries, 2 faults, 1 crash | 420 k | two writers with copies of the same rows; a line filed, its recovery and one more failure; the crash can fall anywhere. The invariants were also explored with 3 faults (2.3 M states), and are proved for any number |
| `services` | locks: 3 threads, 2 keys, 3 objects; slots: 3 queries of one user in 2 processes, 2 at once for the user, 1 for a token that two of them share, life 3, 2 failures; retention: a batch and its retry, 3 instants, 1 change, 1 mishap; snapshots: 2 schedulers, 2 types, lease 1, calls up to 2, 4 instants, 1 crash; members: 2 publishers, 2 members, 2 rows, 2 editions, in one part one person, a failing call and no import, in the other imports, two people, of whom one registers, and no failure | 1.0 M | a thread inside, one waiting and one leaving; more queries than either limit lets in; a slot can leak and its counter expire under a query; a change can fall between the list and the deletion; a lease can end during a call; a publication can meet another, a registration and a cut listing, an import a change of contact data and a row with the id or the data of somebody else. All of its properties are proved for any number |
| `api_enqueue_refused`, `api_cancel_lost`, `api_single_twice`, `auth_rotated_token`, `audit_lost_lines`, `slots_leak` | as the passing runs, or smaller | | the disagreements of section 7 |

The bounds on faults, crashes, requests and the like are constants spent by the
guards (`Spend`, or a counter with its bound). `CHECK_DEADLOCK FALSE` in the runs whose
system may stop (nothing waits, the clock is at its bound, the thread that polls is dead);
of `services` this is true of every part but the locks and the slots.
`interface_tester` declares the two scans symmetric: no action or property tells them
apart, and the run has no liveness property.

The members' table is split in two parts because its whole instance (imports, two people
and a failing call at once, 11.3 M states) takes longer than a run should; it was explored
once by itself, without an error.

`MCSubscription` uses a `VIEW`: no action reads the columns of a closed row, and the
properties read only the end of an expired one, so states that differ elsewhere in
closed rows behave alike and are explored once.

**Fairness** (`FairSpec` of `ApiTestBatch`, run `api_batch_live`): weak fairness of the worker's
own steps, of each task in its pool, and of its restart. The worker loops until
stopped, pool threads run what is submitted, and the service unit restarts a process
that dies. Nothing is assumed of browsers, Web threads or the administrator, and
nothing of the rate at which errors or crashes occur beyond their bounds. `FairSpec`
of `AuditSpool` (run `audit_spool`): weak fairness of each process's start and of the
next step of its writer thread, which loops until its process ends. Nothing of requests;
that a file is recovered at all is not claimed, since recovery runs only at a start.
`SlotsFairSpec` of `QuerySlots` (run `slots_leak`): weak fairness of the clock, of the release
of each query and of the local acquisition that follows a failed one; nothing of the
arrival of queries.

## 6. How the properties are tested

Every property of every passing run has at least one mutant in `PROJECT.json`: a
definition of the model replaced by a variant with a mistake somebody could make (a
renewal that forgets the queue, a refresh that promotes beside an active row, a
recovery that forgets the items, a clear that forgets Redis). TLC then reports that
property violated under the run's own configuration.

## 7. Where code and text disagree

Six runs show a property, taken from a document or comment, that the code does not
have:

* `api_enqueue_refused`: `enqueue_batch` means to accept a batch that the worker has
  already finished, but its set names `completed_with_errors`, a status nobody
  writes; a batch finished with failures makes the create request fail.
* `api_cancel_lost`: recovery clears `cancel_requested`, so a restart during a
  cancellation resumes the batch; the design says no new interface is started.
* `api_single_twice`: the worker may claim the row of a single test and execute it
  together with the request thread; the deployment guide says the queue prevents it.
* `auth_rotated_token`: the clear after a rotation looks up the digest that is
  already the new one, so contexts of the old token live on in the caches; the
  document says the old token is invalid at once.
* `audit_lost_lines`: a request that has opened the emergency file before recovery
  renames it can write its line after recovery has read the file; the line is deleted
  with it, although the event counts as accepted and the design says that the file
  is deleted only when all its rows are durable.

* `slots_leak`: the comment at `market_query_security.py:422` says that the bounded life
  of the counters ends every leak; each acquisition renews that life, so under steady
  traffic a leaked slot stays counted.

## 8. Proofs

`SubscriptionProofs` proves, for every set of rows, catalogue, compensation, lag and
last instant that satisfy the named assumptions of `Subscription`:

| theorem | states |
|---|---|
| `TypeCorrect` | `Spec => []TypeOK` |
| `OneActiveRow` | `Spec => []AtMostOneActive` |
| `DisjointPeriods` | `Spec => []PeriodsDisjoint` |
| `PaidTime` | `Spec => []PaidTimeKept` |
| `ClosedAfterEnd` | `Spec => []ExpiredOnlyAfterEnd` |
| `NoHole` | `Spec => []QueueContiguous` |
| `Entitled` | `Spec => []EntitledIsServed` |
| `RowsImplementEntitlement` | `Spec => ImplementsEntitlement` |
| `RightsUnbroken` | `Spec => [](revoked = {} => Unbroken)` |
| `Invariance` | `Spec => []IInv`, on which all rest |

The assumptions: row ids are naturals, there is a plan, durations are positive
integers, compensations, the lag and the last instant are naturals. The catalogue
enforces the first ones; the last are what a clock and a date are.

*The inductive invariant.* `AtMostOneActive` and `PeriodsDisjoint` are not inductive:
from two overlapping queued rows a promotion leads to two active ones later, and from a
queued row that begins before the active one ends, so does a refresh. `IInv` adds to
`TypeOK` that live rows have a positive length, that of any two live rows one ends
before the other begins *and the later one is still queued* (`Sound`), and that each
lasts what was bought (`Paid`). The second half of `Sound` gives `AtMostOneActive`
directly: two active rows would each have to be queued.

*The argument.* `NormalizedRow` and `ExpiredRow` say that the bulk updates change
statuses only and never revive a row. Then one lemma per action: `RenewStep` needs
that the current row is the only active one and that the queue is behind it, so that
growing one and shifting the others by the same amount keeps the order;
`RebasedInOrder`, under `SwitchNowStep`, shows that the chain computed by the loop
lays the queued rows end to end, by taking a least counterexample in the order of ids
(`LeastNumber`, well-foundedness of the naturals); `PromotedSound` shows that a
refresh promotes the first of the queue and only when no active row covers the
instant, for whichever old instant it uses. `Inductive` collects them by cases of
`Next`. `ClosedAfterEnd` has an invariant of its own (`Over`), which uses `IInv`: a row
closed at an instant was over at that instant, the instant is not later than `now`,
and no action touches a closed row. For `NoHole` the table is `Contiguous`: every live
row but the first begins exactly where another ends; a refresh closes the first or none,
and the shift and the rebase move ends and beginnings by the same amount. For `Entitled`
what is to be kept is a statement about the whole of a request (`ReaderServed`): from the
refresh of the reader on, a row that covers its instant is active, was demoted by a
migration with an older clock, or begins at that very second.

*The refinement* goes step by step (`StepPromises`), each action by one lemma about the set
of instants the rows cover. `RenewInserts`: the end of the row that grows is the cut, every
row from there on moves by what was bought, and nothing in front of it. `SwitchedSoon` is
the longest: the rows behind a switch are laid end to end from its end on
(`ChainCovers`), so the user keeps one interval that is not longer than what there was and
what was bought (`LastEnd`). `RefreshUnseen` and `MigrateUnseen` show that statuses written
by any old clock value change no instant from now on: what they close was over.
That a cancelled row is never cancelled again, and takes no more along than its `bought`, is
what `Revoke` asks for (`RevokedClosed`, `PaidTimeKept`). `RightsUnbroken` then is an
invariant of the abstract steps but for a cancellation, which adds to `revoked`.

`ApiTestBatchProofs` proves, for any batches of either kind, items, pool size and numbers of
crashes, cancellations, views and database errors:

| theorem | states |
|---|---|
| `TypeCorrect` | `Spec => []TypeOK` |
| `NoOrphanItem` | `Spec => []RunningHasOwner` |
| `NoItemStranded` | `Spec => []NothingStranded` |
| `HonestVerdict` | `Spec => []VerdictHonest` |
| `FewLateStarts` | `Spec => []LateStartsBounded` |
| `ItemsImplementTestItem` | `Spec => ImplementsTestItem` |
| `FinishedIsFinal` | `Spec => FinishedItemsStay` (a finished item stays as it is, with the exception the refinement makes) |
| `SinglesSettle` | `Spec => []SingleSettles` |

*The inductive invariant* has one part per reason. An executor's local state agrees with
where it is (`Books`, and `Steady` within `Typed`); rows exist from `create_batch` on and
only such are run (`Made`, `Created`); an execution that has listed the items met them all,
or the batch is noted as early (`ListedReady`); it never has more futures than threads, and
one less while it looks for another item (`RoomInPool`); no terminal status is written under
the worker but by an exception (`Staged`); a running item of an ordinary batch has its task
(`Tracked`); the worker waits for its last future with nothing left to submit
(`DrainsToTheEnd`); what has not come to an end is still in its hands, or the batch will be
run again (`Covered`); the recount that decides on `completed` saw every failure
(`Judged`); and after a cancellation only what fits into the pool is started (`Late`).
*The argument.* Each action first has a lemma that says what it does to each table
(its effect), and the proofs of the parts cite only those. An action of a Web thread
on a single test does nothing to an ordinary batch (`Apart`), which halves the cases.
*The refinement* goes action by action (`LifeStep`): only creation, the start and the result
of a task, the collection of one that raised, a cancellation and a recovery touch an item, and
`Tracked` and `Books` say what it was before. It needs one more fact, shown along with it:
no eligible item is set aside, and no task holds one that is cancelled (`Alive`).
`SinglesSettle` has an invariant of its own (`Settling`) that holds while no crash and no
error has happened (`Calm`): whichever of the two executors is through has left no item
unless the other still has it.

`AuthCacheProofs` proves, for any processes, requests, tokens, rights, lives and numbers
of faults:

| theorem | states |
|---|---|
| `AuthTypeCorrect` | `Spec => []TypeOK` |
| `StaleOnlyForAWhile` | `Spec => []StaleForAWhileOnly` |
| `Cleared` | `Spec => []ClearedIsGone` |

*The inductive invariant.* The bound on ages is part of `Typed`: an entry in Redis, a local
copy and what a request holds each have an age that their life limits (`Sound`), and a
promotion gives a copy no longer life than `Promotion`. For `Cleared`: nothing is cached for
a token before it is given out (`NotBefore`); a request that no operation has met runs
while there is none (`Undisturbed`); and an entry older than the database, which nobody has
just put back, is in a place that an operation under way has yet to clear (`Current`,
`ToBeCleared`).

`SpecProofs` proves, for any scans, administrators, contents, candidates, editors, tests,
interfaces and numbers of releases:

| theorem | states |
|---|---|
| `MonitorTypeCorrect` | `MonitorSpec => []MonitorTypeOK` |
| `DriftAlerted` | `MonitorSpec => []DriftIsAlerted` |
| `ReleaseTypeCorrect` | `ReleaseSpec => []ReleaseTypeOK` |
| `PublicationServed` | `ReleaseSpec => []PublishedIsServed` |

*The inductive invariants.* `MonitorInv` adds to `DriftIsAlerted` that what is reported is
a difference (`Differs`) and that a scan or verification which nothing has overtaken
compares with what is in effect (`FreshScans`, `FreshVerdicts`): a verdict "same" or
"verified" of such a one is true when it is written. An earlier form of the property kept
only whether somebody else was active; its proof failed, and with two administrators there
is a counterexample, which is why the history variable `fresh` now says who has been
overtaken. `ReleaseInv` says which files an edit has written at each of its steps
(`Files`), that the release in effect is the last unless edits overlapped (`InEffect`), that
what a manifest calls published is in effect or about to be (`Noted`), and what the two
fields of the cache hold at each step of each thread (`CacheAgrees`).

`AuditSpoolProofs` proves, for every set of events and
processes, every set of positive file identities, batch size, number of retries and
numbers of faults and crashes:

| theorem | states |
|---|---|
| `TypeCorrect` | `Spec => []TypeOK` |
| `SpooledNeverLost` | `Spec => []SpooledIsKept` |
| `NothingGivenUpEarly` | `Spec => []DeadAfterRetries` |
| `FiledKept` | `Spec => []FiledIsKept` |
| `SpoolImplementsOutbox` | `Spec => ImplementsOutbox` |

*The inductive invariants.* A writer acts on copies, so `IInv` says what a copy still
tells about the table: no id lies beyond `lastId`, a copy and the row that now has its
id speak of the same event (`IdsInv`; this is what AUTOINCREMENT is for, and the mutant
that reuses ids breaks it), a writer about to delete has delivered (`DeliveredInv`), and
no row or copy counts more failures than there were, one less in a writer that has just
failed (`CountsInv`). `Inserted` shows what INSERT OR IGNORE keeps; `MarkStep`, the
longest, that each row left by a failed flush stems from one row with the same id
and event. `FileInv` holds until `overlap`: one thread recovers and nobody appends
meanwhile (`Exclusive`), a `.processing` file exists just while it is recovered and alone
(`NamesInv`), and all that has been read is stored while the recovery is durable
(`ReadInv`). `AloneStep` reduces a step of the recovery to what it does to the names,
`ElsewhereStep` covers the steps that touch neither. *The refinement* adds what the steps
need: a copy is of an event that was taken (`CopiesStored`), so that what a writer delivers,
marks or releases is in the promise's hands; `SettleReleases` and `MarkGivesUp` are the two
ends of a flush, where the row that goes may be one that recovery has inserted anew.

`ServicesProofs` proves of `KeyedLock`, for every finite set of threads, every set of keys and of lock
objects:

| theorem | states |
|---|---|
| `LockInvariant` | `Spec => []LockInv` |
| `LockExcludes` | `Spec => []MutualExclusion` |
| `TableExact` | `Spec => []TableIsExact` |
| `LockRefinesMutex` | `Spec => ImplementsMutex` |

*The inductive invariant.* Mutual exclusion does not follow from the count. `LockInv` has
the count (`TableIsExact`) and adds that everybody between `Enter` and `Leave` has the
object the table holds for its key (`SharedObject`), and that whoever is inside holds its
object (`HolderIsIn`): two inside the same key have one object, which has one holder
(`InvExcludes`). `LeaveKeepsInv` is the heart: the entry goes only with its last user.
*The refinement* is shown step by step (`StepRefines`): `Acquire` is `Take`,
`Release` is `Give`, the steps under the guard are stutters because they leave the thread
inside a block where it is (`OwnerUnchanged`, `OwnerIs`). `MarketCache` uses the plain
lock on the strength of this theorem.

It proves of `KaipanlaSnapshot`, for any schedulers, types, windows and lives of a lease
(`SomeType`, `TimesAreNat`):

| theorem | states |
|---|---|
| `CaptureInvariant` | `CaptureSpec => []CaptureInv` |
| `ExclusiveCaptures` | `CaptureSpec => []CapturesExclusive` |
| `FirstKept` | `CaptureSpec => FirstCaptureKept` |

*The inductive invariant.* A lease by itself excludes nobody: it is reckoned from a clock
that was read before two calls. `CaptureInv` adds to the types that no such clock is ahead
(`ClocksPast`) and that a scheduler past `acquire_lease`, whose clock is younger than a
lease lives, has the lease reckoned from that clock (`YoungHasLease`). Another scheduler
would find it over only by a clock from the future (`AcquireLease` in `StepLeased`). The
first snapshot stays whatever the leases do: `save_snapshot` looks again in its transaction.

Of `BatchRetention`, for any batches, periods, changes and mishaps, and of
`MemberPublication`, for any members, people, publishers, rows and failures:

| theorem | states |
|---|---|
| `RetentionInvariant` | `RetentionSpec => []RetentionInv` |
| `RetentionTypeCorrect` | `RetentionSpec => []RetentionTypeOK` |
| `HonestDeletions` | `RetentionSpec => []DeletionsHonest` |
| `ResultsKept` | `RetentionSpec => KeptWhileDue` |
| `MembersInvariant` | `MembersSpec => []MembersInv` |
| `MembersTypeCorrect` | `MembersSpec => []MembersTypeOK` |
| `TableKept` | `MembersSpec => TableFollows` |

`RetentionInv`: the row of a batch follows its runner (`RowsFollow`), a deletion shows from
its mark on (`MarksShow`), `DeletionsHonest` in its inductive form (`Honest`), and what a
deleter holds or has in its list was due when it was chosen and has not been touched since
(`StillDue`), from which `ResultsKept` follows for the one step that removes results.
`MembersInv`: whoever does anything has the lock (`UnderLock`); a row that shows a member
shows the contact data of one of its editions, and one that shows none was filled in by a
visitor (`RowsTrue`); each row added for a member beyond the first is paid for by a search
that missed one (`MadeCounted`); and, per publisher, what it has passed is published, what it
has found is there and what it has linked is right (`Published`, `Found`, `Linked`). None of
it says that a row keeps its person: members change their contact data under it.

Of `DailyQuota`, for any processes, threads, limits, days, calls and outages:

| theorem | states |
|---|---|
| `QuotaInvariant` | `QuotaSpec => []QuotaInv` |
| `QuotaTypeCorrect` | `QuotaSpec => []QuotaTypeOK` |
| `CallsAccounted` | `QuotaSpec => []UsageAccounted` |
| `QuotaKept` | `QuotaSpec => []QuotaBounded` |
| `QuotaOverrun` | `QuotaSpec => []LossesCostAQuota` (a day allows at most `Limit` times one, the outages, and the processes unless `REDIS_REQUIRED`) |
| `NobodyRefusedEarly` | `QuotaSpec => []NotRefusedEarly` |

*Sums first.* The model adds counts up with `MapThenSumSet`, a recursive function over the
subsets of a set. The library says nothing about it that could be cited, so the module
proves what is needed: the partial sums exist (`SumsExist`, by the least size at which they
would not) and do not depend on the order (`AnyOrder`), hence what one changed summand does
(`SumUpdate`) and how a sum splits (`SumSplit`). *The inductive invariant.* `UsageAccounted`
is inductive by these. For `QuotaKept`, `WindowsPaid`: calls allowed, plus what every window
that is there still allows (`Slack`), is paid for by the windows opened; opening brings
one quota, allowing moves one from the slack, losing a window forfeits the rest. For
`QuotaOverrun`, `WindowsKept`: a window that was opened is still there or was lost in an
outage, and with `REDIS_REQUIRED` no process ever counts by itself. For
`NobodyRefusedEarly`, what is counted, queued, in a batch or running on a day was allowed or
carried over on it (`Logged`), nothing is of a day to come (`NotAhead`, which makes the
split at midnight exact), and so no seed shows more and no window more than that and the
calls whose reply was lost (`Backed`). For
`QuotaTypeCorrect`, a thread with a call is one of the calls that have not ended
(`CallsWithin`), so no day counts more calls than there were (`CounterWithin`, from
`UsageAccounted`), nor does a seed or a window beyond the quota.

`MarketCacheProofs` proves, for any processes, request threads, lives, windows and lengths
of a call (`ServerOfIsServer`, `WindowsAreNat`, `NobodyApart`, and `PolicyEnabled`: with
`MARKET_DATA_EMPTY_CACHE_TTL_SECONDS` at 0 the bound for an empty answer is one call,
reached by an answer that is not stored):

| theorem | states |
|---|---|
| `MarketInvariant` | `MarketSpec => []Inv` |
| `MarketTyped` | `MarketSpec => []MarketTypeOK` |
| `OneAsks` | `MarketSpec => []CallsCollapsed` |
| `AgeBounded` | `MarketSpec => []ServedAgeBounded` |
| `FlagExact` | `MarketSpec => []RefreshFlagExact` |

*The inductive invariant.* Every entry, wherever it is or is carried, is `KnownAt` the moment: its
windows end within a call, a life and a stale window of what it was asked for
(`NewEntryKnown`; promotion keeps this because it keeps the windows). What a thread holds
while it asks was usable when the call began (`HeldUsable`), hence the second call in the
bound; what it copies from Redis is usable (`PromotedUsable`); a test that goes round the
cache is in the last lookup only (`BypassLooks`); and whoever is in the block has the lock
(`LockHeld`). A lookup may end in seven ways (`Outcome`); `OutcomeKeeps` shows once that
each keeps the invariant, and `LookKeeps` and `CopyDownKeeps` lead to it.

`QuerySlotsProofs` proves, for any queries, counters, limits, lives and numbers of failures
that satisfy `SlotConstants` (the assumption of `QuerySlots`):

| theorem | states |
|---|---|
| `SlotsInvariant` | `SlotsSpec => []Inv` |
| `LimitsKept` | `SlotsSpec => []SlotsBounded` |
| `SlotsTyped` | `SlotsSpec => []SlotsTypeOK` |

*The inductive invariant.* The limit is on counters, the promise on queries. `Inv` says
that a counter covers its holders (`SharedCounted`) as long as nobody has overrun, and why
its expiry cannot break this: a counter lives at least for what is left to each of its
holders (`LifeCovers`), since the last acquisition renewed it. With the renewal of the rate
limiter's script, only when a counter begins, `AcquireKeeps` fails. `SlotsTyped` says how
much can leak: each failing call and each crash leaves behind at most one slot of each
query (`LeaksCounted`). One slot for each failure would not do: a crash leaves the slots of all
queries of its process.

*Side by side.* The runs `services`, `interface_tester` and `caches` explore behaviours in
which one of several specifications moves. That this shows what it shows of each alone is a
theorem as well:

| module | theorem | states |
|---|---|---|
| `ServicesProofs` | `ServicesApart` | `ServicesSpec => Spec /\ SlotsSpec /\ RetentionSpec /\ CaptureSpec /\ MembersSpec` |
| `ServicesProofs` | `ServicesTypeCorrect` | `ServicesSpec => []ServicesTypeOK` |
| `SpecProofs` | `TesterApart` | `TesterSpec => Spec /\ ReleaseSpec /\ MonitorSpec` |
| `SpecProofs` | `TesterTypeCorrect` | `TesterSpec => []TesterTypeOK` |
| `MarketCacheProofs` | `CachesApart` | `CachesSpec => Spec /\ QuotaSpec /\ MarketSpec /\ [](TypeOK /\ MarketTypeOK)` |

A step of one part is a step of its specification and a stutter of the others
(`StepOfEach`, `TesterStepOfEach`), so every theorem above holds of what these runs check.

*Only model-checked.* The liveness properties `WaitingBatchesEnd` and `QueueDrains`: under
fairness and with ENABLED they are beyond the prover. Every invariant, action property and
refinement of a passing run is the statement of a theorem. No module uses a RECURSIVE
operator, and the rebase is stated as a function that satisfies `Chain`.

## 9. Plan

What is left, in this order.

1. An abstract promise of the single test (its item is executed by one of the two executors
   that may claim it, or cancelled before), which holds only while nothing crashes; today
   `SinglesSettle` states its end.
2. Smaller operations that are still left out: `update_candidate_overrides` beside a
   publication, and the touches of API keys in the usage log.

## 10. What the models leave out

Clocks are assumed monotonic and common to the processes. SQLite transactions are
atomic and durable, one writer at a time; a write that gives up after its retries is
the fault where it matters. Redis applies each command and script atomically. A call to
Feishu or a script of the rate limiter takes effect before its caller goes on or not at
all; an update that arrives after the lock has been given up is not modelled. Rows of the
members' table are filled in by visitors and not edited in place or deleted in Feishu. A
process that stops cancels the refreshes in its queue with their flags. In `MarketCache` what a thread does
between a look at the clock and its next input or output takes no time; in `DailyQuota`
a seed is read and cached in one step. Files of specifications can be read whenever they
exist. Manual orders, plan texts, result files, wording and logging are data without
influence on the properties. Users are independent of each other, except that contexts of
others may evict an entry.

Not modelled, and why: `api_doc_catalog.py` and the policy tables are data; the parsers of
official pages, the normalisation of frames and the validation of parameters are functions
of one input with unit tests of their own; the routes and pages render or call one
operation each; `tools/release`, deployment and configuration run once, by hand;
accounts, captchas and verification codes are about security, which is no subject of this
development. These make up most of the lines of the repository, so the mapped share stays
small although the parts in which order matters are covered.
