---------------------------- MODULE ApiTestBatch ----------------------------
(***************************************************************************)
(* The administrator's interface-test batches, in the deployment the       *)
(* operations guide recommends: Web processes create batches, ask for      *)
(* cancellation, show progress and run single tests on the request thread; *)
(* one external worker polls the SQLite tables and runs what is waiting.   *)
(* They share nothing but the tables, and every repository call is a       *)
(* transaction of its own, so each action below is one of these            *)
(* transactions (or a read followed by local work), and anything can       *)
(* happen between two of them.                                             *)
(***************************************************************************)
EXTENDS Integers, FiniteSets, FiniteSetsExt

CONSTANTS
    Batch,        \* batch ids
    Single,       \* the batches of kind "single", run by a Web thread
    Item,         \* item ids: naturals, in order of creation
    BatchOf,      \* [Item -> Batch]
    Ineligible,   \* items whose specification is not reviewed and published
    Worker,       \* the external worker process
    MaxWorkers,   \* size of the thread pool of one execution
    MaxRestarts,  \* bound: crashes of the worker or of a Web thread
    MaxCancels,   \* bound: cancellation requests
    MaxViews,     \* bound: progress views, which recount a batch
    MaxFaults     \* bound: database errors met by a runner or a task

ASSUME SingleAssumption == Single \subseteq Batch /\ Worker \notin Batch
ASSUME ItemAssumption ==
    Item \subseteq Nat /\ BatchOf \in [Item -> Batch] /\ Ineligible \subseteq Item
ASSUME BoundAssumption ==
    /\ MaxWorkers \in Nat \ {0}
    /\ {MaxRestarts, MaxCancels, MaxViews, MaxFaults} \subseteq Nat

VARIABLES
    status,     \* batches.status, "absent" before the row is inserted
    cancelReq,  \* batches.cancel_requested
    bad,        \* failure_count or skipped_count of the batch row is not zero
    item,       \* items.status
    creator,    \* progress of create_batch, per batch
    run,        \* run_batch_now, per executor
    task,       \* run_item in the pool of an executor, per executor and item
    request,    \* a request_cancel between its read and its write
    page,       \* a progress view between its read and its write
    budget,     \* what is left of each bound
    early,      \* history: batches whose items were listed before all existed
    blurred,    \* history: batches whose verdict was taken from a stale recount
    late,       \* history: items started after the cancellation was recorded
    lost,       \* history: batches whose cancellation a restart wiped out
    aborted     \* history: batches an exception of their runner marked failed

rows == <<status, cancelReq, bad, item>>
history == <<early, blurred, late, lost, aborted>>
vars == <<rows, creator, run, task, request, page, budget, history>>

Executor == {Worker} \cup Single
ItemsOf(b) == {i \in Item : BatchOf[i] = b}

Waiting == {"queued", "cancelling"}
Terminal == {"completed", "completed_with_failures", "cancelled", "failed"}
Finished == {"success", "failed", "cancelled", "pending"}
BadItem == {"failed", "cancelled", "pending"}

\* Faulty variant: skipped items are left out of the counts.
HasBadNoSkipped(b) == \E i \in ItemsOf(b) : item[i] = "failed"

\* What recalculate_batch_counts reads: some item failed or was skipped.
HasBad(b) == \E i \in ItemsOf(b) : item[i] \in BadItem

NoRequest == [batch |-> Worker, status |-> "none"]
NoPage == [batch |-> Worker, seen |-> FALSE]
NoRun(pc) == [pc |-> pc, job |-> Worker, todo |-> {}, verdict |-> "none", seen |-> FALSE]
NoTasks == [i \in Item |-> "none"]

\* The futures dictionary of an execution, finished tasks included.
Futures(e) == {i \in Item : task[e][i] # "none"}
Settled(e) == \A i \in Item : task[e][i] \in {"none", "done", "raised"}

Spend(kind) == budget[kind] > 0 /\ budget' = [budget EXCEPT ![kind] = @ - 1]

Init ==
    /\ status = [b \in Batch |-> "absent"]
    /\ cancelReq = [b \in Batch |-> FALSE]
    /\ bad = [b \in Batch |-> FALSE]
    /\ item = [i \in Item |-> "absent"]
    /\ creator = [b \in Batch |-> "none"]
    /\ run = [e \in Executor |-> NoRun("idle")]
    /\ task = [e \in Executor |-> NoTasks]
    /\ request = NoRequest
    /\ page = NoPage
    /\ budget = [restart |-> MaxRestarts, cancel |-> MaxCancels,
                 view |-> MaxViews, fault |-> MaxFaults]
    /\ early = {} /\ blurred = {} /\ lost = {} /\ aborted = {}
    /\ late = [b \in Batch |-> {}]

-----------------------------------------------------------------------------
(* create_batch: the row, then the items one by one, then a recount.       *)

Creator(b, from, to) == creator[b] = from /\ creator' = [creator EXCEPT ![b] = to]

InsertBatch(b) ==
    /\ Creator(b, "none", "items")
    /\ status' = [status EXCEPT ![b] = "queued"]
    /\ UNCHANGED <<cancelReq, bad, item, run, task, request, page, budget, history>>

Missing(b) == {i \in ItemsOf(b) : item[i] = "absent"}

CreateItem(b) ==
    /\ Missing(b) # {}
    /\ LET i == Min(Missing(b)) IN
       /\ Creator(b, "items", IF i \in Ineligible /\ b \notin Single THEN "mark" ELSE "items")
       /\ item' = [item EXCEPT ![i] = "queued"]
    /\ UNCHANGED <<status, cancelReq, bad, run, task, request, page, budget, history>>

\* The item created last is not eligible: a second transaction sets it aside.
MarkIneligible(b) ==
    /\ Creator(b, "mark", "items")
    /\ item' = [item EXCEPT ![Max({i \in ItemsOf(b) : item[i] # "absent"})] = "pending"]
    /\ UNCHANGED <<status, cancelReq, bad, run, task, request, page, budget, history>>

CreatorCount(b) ==
    /\ Missing(b) = {}
    /\ Creator(b, "items", IF HasBad(b) THEN "sawBad" ELSE "sawClean")
    /\ UNCHANGED <<rows, run, task, request, page, budget, history>>

\* The write half of a recount made from a read that said seen.  A runner that
\* has recounted and not yet looked at the row again will see this value.
WriteCount(b, seen) ==
    /\ bad' = [bad EXCEPT ![b] = seen]
    /\ blurred' = IF seen # HasBad(b) /\ \E e \in Executor : run[e].job = b /\ run[e].pc = "decide"
                  THEN blurred \cup {b} ELSE blurred

CreatorWrite(b) ==
    /\ creator[b] \in {"sawBad", "sawClean"}
    /\ WriteCount(b, creator[b] = "sawBad")
    /\ creator' = [creator EXCEPT ![b] = "counted"]
    /\ UNCHANGED <<status, cancelReq, item, run, task, request, page, budget, early, late, lost, aborted>>

\* enqueue_batch in external mode only looks at the status: it accepts, or it
\* raises ValueError and the administrator is told that the request failed.
EnqueueAccepts == Waiting \cup {"running", "completed", "completed_with_errors", "cancelled"}

Enqueue(b) ==
    /\ Creator(b, "counted",
               IF b \in Single \/ status[b] \in EnqueueAccepts THEN "done" ELSE "refused")
    /\ UNCHANGED <<rows, run, task, request, page, budget, history>>

Create(b) ==
    \/ InsertBatch(b) \/ CreateItem(b) \/ MarkIneligible(b)
    \/ CreatorCount(b) \/ CreatorWrite(b) \/ Enqueue(b)

-----------------------------------------------------------------------------
(* The Web pages: cancellation and progress, each a read and then a write. *)

CancelRead(b) ==
    /\ request = NoRequest /\ status[b] # "absent" /\ Spend("cancel")
    /\ request' = [batch |-> b,
                   status |-> IF status[b] \in {"queued", "running"}
                              THEN "cancelling" ELSE status[b]]
    /\ UNCHANGED <<rows, creator, run, task, page, history>>

CancelWrite ==
    /\ request # NoRequest
    /\ status' = [status EXCEPT ![request.batch] = request.status]
    /\ cancelReq' = [cancelReq EXCEPT ![request.batch] = TRUE]
    /\ request' = NoRequest
    /\ UNCHANGED <<bad, item, creator, run, task, page, budget, history>>

ViewRead(b) ==
    /\ page = NoPage /\ status[b] # "absent" /\ Spend("view")
    /\ page' = [batch |-> b, seen |-> HasBad(b)]
    /\ UNCHANGED <<rows, creator, run, task, request, history>>

ViewWrite ==
    /\ page # NoPage
    /\ WriteCount(page.batch, page.seen)
    /\ page' = NoPage
    /\ UNCHANGED <<status, cancelReq, item, creator, run, task, request, budget, early, late, lost, aborted>>

-----------------------------------------------------------------------------
(* run_batch_now.  pc names the next step of the execution.                *)

Idle(e) == IF e = Worker THEN "idle" ELSE "over"
Step(e, from, to) == run[e].pc = from /\ run' = [run EXCEPT ![e].pc = to]
Job(e) == run[e].job

Others == <<creator, request, page, budget, history>>

\* Faulty variant: the poll looks for queued batches only.
ClaimQueuedOnly(e) ==
    /\ run[e].pc = "idle"
    /\ \E b \in Batch :
         /\ IF e = Worker THEN status[b] = "queued" ELSE b = e /\ creator[b] = "done"
         /\ run' = [run EXCEPT ![e] = [NoRun("flag") EXCEPT !.job = b]]
    /\ UNCHANGED <<rows, task, Others>>

\* The worker takes a waiting batch (created_at has a resolution of a second, so
\* any of them may be the oldest); the Web thread takes the one it created.
Claim(e) ==
    /\ run[e].pc = "idle"
    /\ \E b \in Batch :
         /\ IF e = Worker THEN status[b] \in Waiting ELSE b = e /\ creator[b] = "done"
         /\ run' = [run EXCEPT ![e] = [NoRun("flag") EXCEPT !.job = b]]
    /\ UNCHANGED <<rows, task, Others>>

\* A batch whose cancellation is already recorded is not started.
ReadFlag(e) ==
    /\ run[e].pc = "flag"
    /\ run' = IF cancelReq[Job(e)]
              THEN [run EXCEPT ![e].pc = "listCancel", ![e].verdict = "cancelled"]
              ELSE [run EXCEPT ![e].pc = "start"]
    /\ UNCHANGED <<rows, task, Others>>

Start(e) ==
    /\ Step(e, "start", "list")
    /\ status' = [status EXCEPT ![Job(e)] = "running"]
    /\ UNCHANGED <<cancelReq, bad, item, task, Others>>

QueuedItems(b) == {i \in ItemsOf(b) : item[i] = "queued"}

\* list_queued_items, once: what is created later is not in the list.
NoteEarly(b) ==
    early' = IF creator[b] \in {"items", "mark"} THEN early \cup {b} ELSE early

List(e) ==
    /\ run[e].pc = "list"
    /\ run' = [run EXCEPT ![e].pc = "fill", ![e].todo = QueuedItems(Job(e))]
    /\ NoteEarly(Job(e))
    /\ UNCHANGED <<rows, task, creator, request, page, budget, blurred, late, lost, aborted>>

\* Faulty variant: submit_next does not look at the flag.
CheckNoFlag(e) ==
    /\ run[e].pc \in {"fill", "refill"}
    /\ run' = [run EXCEPT ![e].pc = IF run[e].todo = {} THEN "drain"
                                    ELSE IF @ = "fill" THEN "fillPut" ELSE "refillPut"]
    /\ UNCHANGED <<rows, task, Others>>

\* submit_next reads the flag first ...
Check(e) ==
    /\ run[e].pc \in {"fill", "refill"}
    /\ run' = [run EXCEPT ![e].pc =
                 IF cancelReq[Job(e)] \/ run[e].todo = {} THEN "drain"
                 ELSE IF @ = "fill" THEN "fillPut" ELSE "refillPut"]
    /\ UNCHANGED <<rows, task, Others>>

\* ... and then hands the next item to the pool.
Submit(e) ==
    /\ run[e].pc \in {"fillPut", "refillPut"}
    /\ LET i == Min(run[e].todo) IN
       /\ task' = [task EXCEPT ![e][i] = "submitted"]
       /\ run' = [run EXCEPT
            ![e].todo = @ \ {i},
            ![e].pc = IF @ = "fillPut" /\ Cardinality(Futures(e)) + 1 < MaxWorkers
                      THEN "fill" ELSE "drain"]
    /\ UNCHANGED <<rows, Others>>

\* A future is done: the safety net marks an item whose task raised.
Collect(e, i) ==
    /\ task[e][i] \in {"done", "raised"}
    /\ Step(e, "drain", "refill")
    /\ task' = [task EXCEPT ![e][i] = "none"]
    /\ item' = IF task[e][i] = "raised" THEN [item EXCEPT ![i] = "failed"] ELSE item
    /\ UNCHANGED <<status, cancelReq, bad, Others>>

\* Faulty variant: a cancelled batch is finished without cancelling its items.
DrainedNoCancel(e) ==
    /\ run[e].pc = "drain" /\ Futures(e) = {}
    /\ run' = IF cancelReq[Job(e)]
              THEN [run EXCEPT ![e].pc = "recount", ![e].verdict = "cancelled"]
              ELSE [run EXCEPT ![e].pc = "count"]
    /\ UNCHANGED <<rows, task, Others>>

Drained(e) ==
    /\ run[e].pc = "drain" /\ Futures(e) = {}
    /\ run' = IF cancelReq[Job(e)]
              THEN [run EXCEPT ![e].pc = "listCancel", ![e].verdict = "cancelled"]
              ELSE [run EXCEPT ![e].pc = "count"]
    /\ UNCHANGED <<rows, task, Others>>

\* _cancel_queued; the recount at its end is the one _finish_batch repeats.
ListCancel(e) ==
    /\ run[e].pc = "listCancel"
    /\ run' = [run EXCEPT ![e].pc = "cancelItem", ![e].todo = QueuedItems(Job(e))]
    /\ NoteEarly(Job(e))
    /\ UNCHANGED <<rows, task, creator, request, page, budget, blurred, late, lost, aborted>>

CancelItem(e) ==
    /\ run[e].pc = "cancelItem"
    /\ IF run[e].todo = {}
       THEN run' = [run EXCEPT ![e].pc = "recount"] /\ UNCHANGED item
       ELSE LET i == Min(run[e].todo) IN
            /\ run' = [run EXCEPT ![e].todo = @ \ {i}]
            /\ item' = [item EXCEPT ![i] = "cancelled"]
    /\ UNCHANGED <<status, cancelReq, bad, task, Others>>

\* recalculate_batch_counts of the runner: for the verdict, then in _finish_batch.
CountRead(e) ==
    /\ run[e].pc \in {"count", "recount"}
    /\ run' = [run EXCEPT ![e].seen = HasBad(Job(e)),
                          ![e].pc = IF @ = "count" THEN "countWrite" ELSE "recountWrite"]
    /\ UNCHANGED <<rows, task, Others>>

\* Faulty variant: the batch is finished before its verdict is known.
CountWriteNoVerdict(e) ==
    /\ run[e].pc \in {"countWrite", "recountWrite"}
    /\ WriteCount(Job(e), run[e].seen)
    /\ run' = [run EXCEPT ![e].seen = FALSE, ![e].pc = "finish"]
    /\ UNCHANGED <<status, cancelReq, item, task, creator, request, page, budget, early, late, lost, aborted>>

CountWrite(e) ==
    /\ run[e].pc \in {"countWrite", "recountWrite"}
    /\ WriteCount(Job(e), run[e].seen)
    /\ run' = [run EXCEPT ![e].seen = FALSE,
                          ![e].pc = IF @ = "countWrite" THEN "decide" ELSE "finish"]
    /\ UNCHANGED <<status, cancelReq, item, task, creator, request, page, budget, early, late, lost, aborted>>

\* The verdict comes from the row as it is read again after that write.
Decide(e) ==
    /\ run[e].pc = "decide"
    /\ run' = [run EXCEPT ![e].pc = "recount",
                 ![e].verdict = IF bad[Job(e)] THEN "completed_with_failures" ELSE "completed"]
    /\ UNCHANGED <<rows, task, Others>>

Finish(e) ==
    /\ run[e].pc = "finish"
    /\ status' = [status EXCEPT ![Job(e)] = run[e].verdict]
    /\ run' = [run EXCEPT ![e].pc = "manifest"]
    /\ UNCHANGED <<cancelReq, bad, item, task, Others>>

\* The manifest file is last; failing to write it turns the batch into a failed one.
Manifest(e) ==
    /\ run[e].pc = "manifest"
    /\ run' = [run EXCEPT ![e] = NoRun(Idle(e))]
    /\ UNCHANGED <<rows, task, Others>>

\* An exception in run_batch_now: the pool is shut down and waited for, and the
\* batch is marked failed.
RunFault(e) ==
    /\ run[e].pc \notin {"idle", "over", "dead", "down", "failing"} /\ Spend("fault")
    /\ run' = [run EXCEPT ![e].pc = "failing"]
    /\ UNCHANGED <<rows, task, creator, request, page, history>>

FailBatch(e) ==
    /\ run[e].pc = "failing" /\ Settled(e)
    /\ status' = [status EXCEPT ![Job(e)] = "failed"]
    /\ run' = [run EXCEPT ![e] = NoRun(Idle(e))]
    /\ task' = [task EXCEPT ![e] = NoTasks]
    /\ aborted' = aborted \cup {Job(e)}
    /\ UNCHANGED <<cancelReq, bad, item, creator, request, page, budget, early, blurred, late, lost>>

Execute(e) ==
    \/ Claim(e) \/ ReadFlag(e) \/ Start(e) \/ List(e) \/ Check(e) \/ Submit(e)
    \/ (\E i \in Item : Collect(e, i)) \/ Drained(e) \/ ListCancel(e) \/ CancelItem(e)
    \/ CountRead(e) \/ CountWrite(e) \/ Decide(e) \/ Finish(e)
    \/ Manifest(e) \/ FailBatch(e)

-----------------------------------------------------------------------------
(* run_item on a thread of the pool.                                       *)

Task(e, i, from, to) ==
    task[e][i] \in from /\ task' = [task EXCEPT ![e][i] = to]

TaskStart(e, i) ==
    /\ Task(e, i, {"submitted"}, "working")
    /\ item' = [item EXCEPT ![i] = "running"]
    /\ late' = IF cancelReq[BatchOf[i]] \/ BatchOf[i] \in lost
               THEN [late EXCEPT ![BatchOf[i]] = @ \cup {i}] ELSE late
    /\ UNCHANGED <<status, cancelReq, bad, run, creator, request, page, budget, early, blurred, lost, aborted>>

\* _store_and_finish: the answer, or the error it was turned into.
TaskStore(e, i) ==
    /\ \/ Task(e, i, {"working"}, "stored") /\ \E r \in {"success", "failed"} : item' = [item EXCEPT ![i] = r]
       \/ Task(e, i, {"erring"}, "storedError") /\ item' = [item EXCEPT ![i] = "failed"]
    /\ UNCHANGED <<status, cancelReq, bad, run, Others>>

TaskCount(e, i) ==
    /\ Task(e, i, {"stored", "storedError"}, IF HasBad(BatchOf[i]) THEN "sawBad" ELSE "sawClean")
    /\ UNCHANGED <<rows, run, Others>>

TaskWrite(e, i) ==
    /\ Task(e, i, {"sawBad", "sawClean"}, "done")
    /\ WriteCount(BatchOf[i], task[e][i] = "sawBad")
    /\ UNCHANGED <<status, cancelReq, item, run, creator, request, page, budget, early, late, lost, aborted>>

\* A database error: the first is stored as internal_error, the next escapes.
TaskFault(e, i) ==
    /\ \/ Task(e, i, {"submitted", "working", "stored"}, "erring")
       \/ Task(e, i, {"submitted", "erring", "storedError"}, "raised")
    /\ Spend("fault")
    /\ UNCHANGED <<rows, run, creator, request, page, history>>

RunItem(e, i) == TaskStart(e, i) \/ TaskStore(e, i) \/ TaskCount(e, i) \/ TaskWrite(e, i)

-----------------------------------------------------------------------------
(* Crashes and restarts.                                                   *)

\* A process goes away with its pool; the worker stays down until restarted.
Crash(e) ==
    /\ run[e].pc \notin {"over", "down"} /\ (e = Worker \/ run[e].pc # "idle") /\ Spend("restart")
    /\ run' = [run EXCEPT ![e] = NoRun(IF e = Worker THEN "down" ELSE "over")]
    /\ task' = [task EXCEPT ![e] = NoTasks]
    /\ UNCHANGED <<rows, creator, request, page, history>>

\* A database error while the worker polls, or while it marks a batch as failed,
\* ends its thread, not its process.
WorkerDies ==
    /\ run[Worker].pc \in {"idle", "failing"} /\ Settled(Worker) /\ Spend("fault")
    /\ run' = [run EXCEPT ![Worker] = NoRun("dead")]
    /\ task' = [task EXCEPT ![Worker] = NoTasks]
    /\ UNCHANGED <<rows, creator, request, page, history>>

Interrupted == {b \in Batch : status[b] \in {"running", "cancelling"}}

\* What recovery does, with the item statuses it puts back into the queue.
Recover(requeued) ==
    /\ Step(Worker, "down", "idle")
    /\ status' = [b \in Batch |-> IF b \in Interrupted THEN "queued" ELSE status[b]]
    /\ cancelReq' = [b \in Batch |-> cancelReq[b] /\ b \notin Interrupted]
    /\ item' = [i \in Item |-> IF BatchOf[i] \in Interrupted /\ item[i] \in requeued
                               THEN "queued" ELSE item[i]]
    /\ lost' = lost \cup {b \in Interrupted : cancelReq[b]}
    /\ UNCHANGED <<bad, task, creator, request, page, budget, early, blurred, late, aborted>>

\* Faulty variants: recovery leaves the items alone, or requeues all of them.
WorkerStartNoItems == Recover({})
WorkerStartAllItems == Recover({"running"} \cup Finished)

\* start_worker runs recover_interrupted_batches, in one transaction.
WorkerStart == Recover({"running"})

Next ==
    \/ \E b \in Batch : Create(b) \/ CancelRead(b) \/ ViewRead(b)
    \/ CancelWrite \/ ViewWrite
    \/ \E e \in Executor :
         \/ Execute(e) \/ RunFault(e) \/ Crash(e)
         \/ \E i \in Item : RunItem(e, i) \/ TaskFault(e, i)
    \/ WorkerDies \/ WorkerStart

Spec == Init /\ [][Next]_vars

\* The worker's loop, its pool and its supervisor keep going; a browser, a Web
\* thread and the administrator promise nothing.
Fairness ==
    /\ WF_vars(Execute(Worker)) /\ WF_vars(WorkerStart)
    /\ \A i \in Item : WF_vars(RunItem(Worker, i))
FairSpec == Spec /\ Fairness

-----------------------------------------------------------------------------
(* Properties.                                                             *)

\* Every variable keeps the values of its column, program counter or stage.
TypeOK ==
    /\ status \in [Batch -> {"absent", "running"} \cup Waiting \cup Terminal]
    /\ cancelReq \in [Batch -> BOOLEAN] /\ bad \in [Batch -> BOOLEAN]
    /\ item \in [Item -> {"absent", "queued", "running"} \cup Finished]
    /\ creator \in [Batch -> {"none", "items", "mark", "sawBad", "sawClean",
                              "counted", "done", "refused"}]
    /\ run \in [Executor ->
         [pc : {"idle", "flag", "start", "list", "fill", "fillPut", "refill", "refillPut",
                "drain", "count", "countWrite", "decide", "recount", "recountWrite", "finish", "manifest",
                "listCancel", "cancelItem", "failing", "over", "dead", "down"},
          job : Batch \cup {Worker}, todo : SUBSET Item,
          verdict : {"none", "completed", "completed_with_failures", "cancelled"},
          seen : BOOLEAN]]
    /\ task \in [Executor -> [Item -> {"none", "submitted", "working", "erring", "stored",
                                       "storedError", "sawBad", "sawClean", "done", "raised"}]]
    /\ late \in [Batch -> SUBSET Item]
    /\ early \cup blurred \cup lost \cup aborted \subseteq Batch

\* An item of an ordinary batch marked running is being worked on by the worker,
\* or the worker is gone and its restart will requeue it: a crash leaves no item
\* running that nobody runs (recover_interrupted_batches, run_item, the safety
\* net), except in a batch that an exception has marked failed.
RunningHasOwner ==
    \A i \in Item :
        item[i] = "running" /\ BatchOf[i] \notin Single \cup aborted
        => \/ task[Worker][i] \in {"working", "erring", "raised"}
           \/ run[Worker].pc \in {"down", "dead"}
\* Once a cancellation is recorded, at most the interfaces already handed to the
\* pool, or about to be, are still started, as long as no restart of the worker
\* takes the cancellation back (submit_next, request_cancel).
LateStartsBounded ==
    \A b \in Batch \ (Single \cup lost) : Cardinality(late[b]) <= MaxWorkers

\* The eligible items of ordinary batches, and those whose task met a database error.
Lasting == {i \in Item \ Ineligible : BatchOf[i] \notin Single}
Erring == {i \in Lasting : task[Worker][i] \in {"erring", "raised"}}

Life == INSTANCE TestItem WITH
    Items <- Lasting, state <- [i \in Lasting |-> item[i]], erring <- Erring

\* However often a batch is claimed, cancelled or recovered, an eligible item is run
\* only while it waits, cancelled only while no task holds it, and what it has come to
\* is never overwritten, except by the task that stored it and met a database error.
ImplementsTestItem == Life!Spec

\* A batch that ended normally has no item left to run, unless it was claimed
\* while create_batch was still adding its items or an exception cut it short.
NothingStranded ==
    \A b \in Batch \ (Single \cup early \cup aborted) :
        status[b] \in {"completed", "completed_with_failures", "cancelled"}
        => \A i \in ItemsOf(b) : item[i] \in Finished

\* "completed" means that every item succeeded: none failed, was cancelled, was
\* set aside or was left out, unless an exception cut the execution short,
\* the batch was claimed half-built or a stale recount replaced the runner's own
\* between its write and its second look at the row.
VerdictHonest ==
    \A b \in Batch \ (Single \cup early \cup blurred \cup aborted) :
        status[b] = "completed" => \A i \in ItemsOf(b) : item[i] = "success"

\* Every ordinary batch that waits is finished sooner or later, unless a database
\* error has ended the thread that polls (its process lives on without it).
WaitingBatchesEnd ==
    \A b \in Batch \ Single :
        status[b] \in Waiting ~> status[b] \in Terminal \/ run[Worker].pc = "dead"

\* However the Web thread and the worker interleave on a single test, and whenever
\* it is cancelled, once both are through with it the item has come to an end: no
\* crash or database error assumed so far.
SingleSettles ==
    \A b \in Single :
        /\ run[b].pc = "over" /\ run[Worker].pc = "idle"
        /\ budget.restart = MaxRestarts /\ budget.fault = MaxFaults
        => \A i \in ItemsOf(b) : item[i] \in Finished

\* docs/operations/admin-interface-tester-deployment.md:101 - the persisted queue
\* exists so that no two processes execute the same batch.
ExecutedByOneProcess ==
    \A i \in Item, e, f \in Executor :
        task[e][i] # "none" /\ task[f][i] # "none" => e = f

\* The comment in enqueue_batch: a batch the worker has already claimed or even
\* finished is an idempotent enqueue, not a failed create request.
EnqueueIsIdempotent == \A b \in Batch : creator[b] # "refused"

\* Section 12.3 of the design: after cancel_requested is set no new interface is
\* started, whatever happens next.
CancelIsKept ==
    \A b \in Batch \ Single : Cardinality(late[b]) <= MaxWorkers
=============================================================================
