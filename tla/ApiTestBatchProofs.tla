------------------------- MODULE ApiTestBatchProofs -------------------------
(***************************************************************************)
(* Theorems about the interface-test batches, for any number of batches of *)
(* either kind, items, pool size, crashes, cancellations, progress views   *)
(* and database errors.                                                    *)
(***************************************************************************)
EXTENDS ApiTestBatch, TLAPS, FiniteSetTheorems, WellFoundedInduction

Free == {"idle", "over", "dead", "down"}
Putting == {"fillPut", "refillPut"}
Pcs == {"idle", "flag", "start", "list", "fill", "fillPut", "refill", "refillPut",
        "drain", "count", "countWrite", "decide", "recount", "recountWrite", "finish", "manifest",
        "listCancel", "cancelItem", "failing", "over", "dead", "down"}
Verdicts == {"none", "completed", "completed_with_failures", "cancelled"}
RunRow == [pc : Pcs, job : Batch \cup {Worker}, todo : SUBSET Item,
           verdict : Verdicts, seen : BOOLEAN]
TaskState == {"none", "submitted", "working", "erring", "stored",
              "storedError", "sawBad", "sawClean", "done", "raised"}
StatusOf == {"absent", "running"} \cup Waiting \cup Terminal
CreatorStage == {"none", "items", "mark", "sawBad", "sawClean", "counted", "done", "refused"}
ItemStatus == {"absent", "queued", "running"} \cup Finished

\* What a request or a view holds between its read and its write.
Held ==
    /\ request \in [batch : Batch, status : {"cancelling"} \cup Terminal] \cup {NoRequest}
    /\ page \in [batch : Batch, seen : BOOLEAN] \cup {NoPage}

\* A free executor has no batch and a busy one has, one that puts an item into the
\* pool has one to put, and _finish_batch is reached with a verdict only.
Steady ==
    \A e \in Executor :
        /\ run[e].pc \in Free => run[e].job = Worker /\ run[e].todo = {}
        /\ run[e].pc \notin Free => run[e].job \in Batch
        /\ run[e].pc \in Putting => run[e].todo # {}
        /\ run[e].pc \in {"listCancel", "cancelItem"} => run[e].verdict = "cancelled"
        /\ run[e].pc \in {"recount", "recountWrite", "finish"} => run[e].verdict # "none"

\* The columns and the local state of TypeOK, by name.
Columns ==
    /\ status \in [Batch -> StatusOf]
    /\ cancelReq \in [Batch -> BOOLEAN] /\ bad \in [Batch -> BOOLEAN]
    /\ item \in [Item -> ItemStatus]
    /\ creator \in [Batch -> CreatorStage]
    /\ run \in [Executor -> RunRow]
    /\ task \in [Executor -> [Item -> TaskState]]
    /\ late \in [Batch -> SUBSET Item]
    /\ early \subseteq Batch /\ blurred \subseteq Batch
    /\ lost \subseteq Batch /\ aborted \subseteq Batch

\* TypeOK is not inductive alone: a request writes the status it has read, and the
\* runner the verdict it has come to.
Typed == Columns /\ Held /\ Steady

\* The columns have their types exactly when TypeOK says so.
LEMMA Types == Columns <=> TypeOK
  BY DEF Columns, TypeOK, StatusOf, ItemStatus, RunRow, Pcs, Verdicts, TaskState,
         CreatorStage

-----------------------------------------------------------------------------
(* What each action does to the tables and to the executors, row by row.   *)

\* The program counters by name.
LEMMA PcNames ==
    /\ Free \subseteq Pcs
    /\ {"flag", "start", "list", "fill", "fillPut", "refill", "refillPut", "drain",
        "count", "countWrite", "decide", "recount", "recountWrite", "finish", "manifest",
        "listCancel", "cancelItem", "failing"} \subseteq Pcs
  BY DEF Pcs, Free

RunIs(e, pc, job, todo, verdict, seen) ==
    /\ run' \in [Executor -> RunRow]
    /\ run'[e].pc = pc /\ run'[e].job = job /\ run'[e].todo = todo
    /\ run'[e].verdict = verdict /\ run'[e].seen = seen
    /\ \A f \in Executor : f # e => run'[f] = run[f]

PcIs(e, pc) == RunIs(e, pc, run[e].job, run[e].todo, run[e].verdict, run[e].seen)

TaskIs(e, i, to) ==
    /\ task' \in [Executor -> [Item -> TaskState]]
    /\ task'[e][i] = to
    /\ \A f \in Executor, j \in Item : f # e \/ j # i => task'[f][j] = task[f][j]

\* The pool of e is gone.
PoolGone(e) ==
    /\ task' \in [Executor -> [Item -> TaskState]]
    /\ \A j \in Item : task'[e][j] = "none"
    /\ \A f \in Executor, j \in Item : f # e => task'[f][j] = task[f][j]

ItemIs(i, to) ==
    /\ item' \in [Item -> ItemStatus]
    /\ item'[i] = to
    /\ \A j \in Item : j # i => item'[j] = item[j]

StatusIs(b, to) ==
    /\ status' \in [Batch -> StatusOf]
    /\ status'[b] = to
    /\ \A c \in Batch : c # b => status'[c] = status[c]

Counted(b, seen) ==
    /\ bad' \in [Batch -> BOOLEAN]
    /\ bad'[b] = seen
    /\ \A c \in Batch : c # b => bad'[c] = bad[c]
    /\ blurred \subseteq blurred' /\ blurred' \subseteq blurred \cup {b}
    /\ b \notin blurred' => \/ seen = HasBad(b)
                            \/ \A e \in Executor : run[e].job # b \/ run[e].pc # "decide"

Listing(b) ==
    /\ early \subseteq early' /\ early' \subseteq early \cup {b}
    /\ creator[b] \in {"items", "mark"} => b \in early'

CreatorIs(b, to) ==
    /\ creator' \in [Batch -> CreatorStage]
    /\ creator'[b] = to
    /\ \A c \in Batch : c # b => creator'[c] = creator[c]

\* A set of item ids that is not empty has a first one.
LEMMA FirstItem ==
    ASSUME NEW S \in SUBSET Item, S # {}
    PROVE  Min(S) \in S /\ \A j \in S : Min(S) <= j
  <1>1. S \in SUBSET Nat
    BY ItemAssumption
  <1>2. PICK n \in S : \A m \in S : ~ (<<m, n>> \in OpToRel(<, Nat))
    BY <1>1, NatLessThanWellFounded, WFMin
  <1>3. \A m \in S : ~(m < n)
    BY <1>1, <1>2 DEF OpToRel
  <1>4. \A m \in S : n <= m
    BY <1>1, <1>3
  <1> QED BY <1>4 DEF Min

\* The write half of a recount touches one row, and is noted when a runner is about
\* to read its verdict from it.
LEMMA WriteCountEffect ==
    ASSUME Typed, NEW b \in Batch, NEW seen \in BOOLEAN, WriteCount(b, seen)
    PROVE  Counted(b, seen)
  BY DEF WriteCount, Counted, Typed, Columns

\* An executor takes a batch.
LEMMA ClaimEffect ==
    ASSUME Typed, NEW e \in Executor, Claim(e)
    PROVE  /\ run[e].pc = "idle"
           /\ \E b \in Batch : /\ e = Worker => status[b] \in Waiting
                               /\ e # Worker => b = e /\ creator[b] = "done"
                               /\ RunIs(e, "flag", b, {}, "none", FALSE)
           /\ UNCHANGED <<rows, creator, task, request, page, history>>
  <1>1. PICK b \in Batch :
          /\ IF e = Worker THEN status[b] \in Waiting ELSE b = e /\ creator[b] = "done"
          /\ run' = [run EXCEPT ![e] = [NoRun("flag") EXCEPT !.job = b]]
    BY DEF Claim
  <1>2. RunIs(e, "flag", b, {}, "none", FALSE)
    BY <1>1, PcNames DEF NoRun, RunIs, RunRow, Verdicts, Typed, Columns
  <1>3. run[e].pc = "idle" /\ UNCHANGED <<rows, creator, task, request, page, history>>
    BY DEF Claim, rows, Others, history
  <1> QED BY <1>1, <1>2, <1>3

\* A cancelled batch goes straight to the cancellation of its items.
LEMMA ReadFlagEffect ==
    ASSUME Typed, NEW e \in Executor, ReadFlag(e)
    PROVE  /\ run[e].pc = "flag"
           /\ IF cancelReq[run[e].job]
              THEN RunIs(e, "listCancel", run[e].job, run[e].todo, "cancelled", run[e].seen)
              ELSE PcIs(e, "start")
           /\ UNCHANGED <<rows, creator, task, request, page, history>>
  <1>1. CASE cancelReq[run[e].job]
    <2>1. run' = [run EXCEPT ![e].pc = "listCancel", ![e].verdict = "cancelled"]
      BY <1>1 DEF ReadFlag, Job
    <2>2. RunIs(e, "listCancel", run[e].job, run[e].todo, "cancelled", run[e].seen)
      BY <2>1, PcNames DEF RunIs, RunRow, Verdicts, Typed, Columns
    <2> QED BY <1>1, <2>2 DEF ReadFlag, Others
  <1>2. CASE ~cancelReq[run[e].job]
    <2>1. run' = [run EXCEPT ![e].pc = "start"]
      BY <1>2 DEF ReadFlag, Job
    <2>2. PcIs(e, "start")
      BY <2>1, PcNames DEF PcIs, RunIs, RunRow, Typed, Columns
    <2> QED BY <1>2, <2>2 DEF ReadFlag, Others
  <1> QED BY <1>1, <1>2

\* The batch is marked running.
LEMMA StartEffect ==
    ASSUME Typed, NEW e \in Executor, Start(e)
    PROVE  /\ run[e].pc = "start" /\ PcIs(e, "list")
           /\ StatusIs(run[e].job, "running")
           /\ UNCHANGED <<cancelReq, bad, item, creator, task, request, page, history>>
  BY PcNames DEF Start, Step, Free, StatusIs, StatusOf, Typed, Columns, Steady,
           RunRow, RunIs, PcIs, rows, history, Others, Job

\* The queued items are listed once.
LEMMA ListEffect ==
    ASSUME Typed, NEW e \in Executor, List(e)
    PROVE  /\ run[e].pc = "list"
           /\ RunIs(e, "fill", run[e].job, QueuedItems(run[e].job), run[e].verdict, run[e].seen)
           /\ Listing(run[e].job)
           /\ UNCHANGED <<rows, creator, task, request, page, blurred, late, lost,
                          aborted>>
  <1>1. QueuedItems(run[e].job) \in SUBSET Item
    BY DEF QueuedItems, ItemsOf
  <1>2. RunIs(e, "fill", run[e].job, QueuedItems(run[e].job), run[e].verdict, run[e].seen)
    BY <1>1, PcNames DEF List, Job, RunIs, RunRow, Typed, Columns
  <1>3. Listing(run[e].job)
    BY DEF List, Job, NoteEarly, Listing
  <1> QED BY <1>2, <1>3 DEF List

\* submit_next stops at the flag or at the end of the list.
LEMMA CheckEffect ==
    ASSUME Typed, NEW e \in Executor, Check(e)
    PROVE  /\ run[e].pc \in {"fill", "refill"}
           /\ IF cancelReq[run[e].job] \/ run[e].todo = {} THEN PcIs(e, "drain")
              ELSE PcIs(e, IF run[e].pc = "fill" THEN "fillPut" ELSE "refillPut")
           /\ UNCHANGED <<rows, creator, task, request, page, history>>
  <1> DEFINE stop == cancelReq[run[e].job] \/ run[e].todo = {}
  <1>1. /\ run[e].pc \in {"fill", "refill"}
        /\ UNCHANGED <<rows, creator, task, request, page, history>>
        /\ run' = [run EXCEPT ![e].pc = IF stop THEN "drain"
                                       ELSE IF run[e].pc = "fill" THEN "fillPut" ELSE "refillPut"]
    BY DEF Check, rows, Others, history, Job
  <1> HIDE DEF stop
  <1>2. IF stop THEN PcIs(e, "drain")
        ELSE PcIs(e, IF run[e].pc = "fill" THEN "fillPut" ELSE "refillPut")
    BY <1>1, PcNames DEF PcIs, RunIs, RunRow, Typed, Columns
  <1> QED BY <1>1, <1>2 DEF stop

\* The first listed item goes to the pool.
LEMMA SubmitEffect ==
    ASSUME Typed, NEW e \in Executor, Submit(e)
    PROVE  /\ run[e].pc \in Putting
           /\ RunIs(e, IF run[e].pc = "fillPut" /\ Cardinality(Futures(e)) + 1 < MaxWorkers
                    THEN "fill" ELSE "drain",
                 run[e].job, run[e].todo \ {Min(run[e].todo)}, run[e].verdict, run[e].seen)
           /\ Min(run[e].todo) \in run[e].todo
           /\ Min(run[e].todo) \in Item
           /\ TaskIs(e, Min(run[e].todo), "submitted")
           /\ UNCHANGED <<rows, creator, request, page, history>>
  <1> DEFINE i == Min(run[e].todo)
  <1>1. run[e].todo # {} /\ run[e].todo \subseteq Item
    BY DEF Submit, Putting, Typed, Columns, Steady, RunRow
  <1>2. i \in run[e].todo /\ i \in Item
    BY <1>1, FirstItem
  <1> HIDE DEF i
  <1>3. run[e].pc \in Putting /\ UNCHANGED <<rows, creator, request, page, history>>
    BY DEF Submit, Putting, rows, Others, history
  <1>4. RunIs(e, IF run[e].pc = "fillPut" /\ Cardinality(Futures(e)) + 1 < MaxWorkers
                 THEN "fill" ELSE "drain",
              run[e].job, run[e].todo \ {i}, run[e].verdict, run[e].seen)
    BY PcNames DEF Submit, i, Typed, Columns, RunRow, RunIs
  <1>5. TaskIs(e, i, "submitted")
    BY <1>2 DEF Submit, i, Typed, Columns, TaskIs, TaskState
  <1> QED BY <1>2, <1>3, <1>4, <1>5 DEF i

\* A finished future leaves the pool; the safety net fails the item of one that raised.
LEMMA CollectEffect ==
    ASSUME Typed, NEW e \in Executor, NEW i \in Item, Collect(e, i)
    PROVE  /\ run[e].pc = "drain" /\ PcIs(e, "refill")
           /\ task[e][i] \in {"done", "raised"} /\ TaskIs(e, i, "none")
           /\ IF task[e][i] = "raised" THEN ItemIs(i, "failed") ELSE item' = item
           /\ UNCHANGED <<status, cancelReq, bad, creator, request, page, history>>
  <1>1. run[e].pc = "drain" /\ task[e][i] \in {"done", "raised"}
        /\ UNCHANGED <<status, cancelReq, bad, creator, request, page, history>>
    BY DEF Collect, Step, rows, Others, history
  <1>2. PcIs(e, "refill")
    BY PcNames DEF Collect, Step, Typed, Columns, Steady, RunRow, RunIs, PcIs, rows,
             history, Others, Job
  <1>3. TaskIs(e, i, "none")
    BY DEF Collect, TaskIs, TaskState, Typed, Columns
  <1>4. IF task[e][i] = "raised" THEN ItemIs(i, "failed") ELSE item' = item
    BY DEF Collect, ItemIs, ItemStatus, Finished, Typed, Columns
  <1> QED BY <1>1, <1>2, <1>3, <1>4

\* The pool is empty: the rest is cancelled or the batch is counted.
LEMMA DrainedEffect ==
    ASSUME Typed, NEW e \in Executor, Drained(e)
    PROVE  /\ run[e].pc = "drain" /\ Futures(e) = {}
           /\ IF cancelReq[run[e].job]
              THEN RunIs(e, "listCancel", run[e].job, run[e].todo, "cancelled", run[e].seen)
              ELSE PcIs(e, "count")
           /\ UNCHANGED <<rows, creator, task, request, page, history>>
  <1>1. CASE cancelReq[run[e].job]
    <2>1. run' = [run EXCEPT ![e].pc = "listCancel", ![e].verdict = "cancelled"]
      BY <1>1 DEF Drained, Job
    <2>2. RunIs(e, "listCancel", run[e].job, run[e].todo, "cancelled", run[e].seen)
      BY <2>1, PcNames DEF RunIs, RunRow, Verdicts, Typed, Columns
    <2> QED BY <1>1, <2>2 DEF Drained, Others
  <1>2. CASE ~cancelReq[run[e].job]
    <2>1. run' = [run EXCEPT ![e].pc = "count"]
      BY <1>2 DEF Drained, Job
    <2>2. PcIs(e, "count")
      BY <2>1, PcNames DEF PcIs, RunIs, RunRow, Typed, Columns
    <2> QED BY <1>2, <2>2 DEF Drained, Others
  <1> QED BY <1>1, <1>2

\* The items to cancel are listed.
LEMMA ListCancelEffect ==
    ASSUME Typed, NEW e \in Executor, ListCancel(e)
    PROVE  /\ run[e].pc = "listCancel"
           /\ RunIs(e, "cancelItem", run[e].job, QueuedItems(run[e].job),
                    run[e].verdict, run[e].seen)
           /\ Listing(run[e].job)
           /\ UNCHANGED <<rows, creator, task, request, page, blurred, late, lost,
                          aborted>>
  <1>1. QueuedItems(run[e].job) \in SUBSET Item
    BY DEF QueuedItems, ItemsOf
  <1>2. RunIs(e, "cancelItem", run[e].job, QueuedItems(run[e].job), run[e].verdict, run[e].seen)
    BY <1>1, PcNames DEF ListCancel, Job, RunIs, RunRow, Typed, Columns
  <1>3. Listing(run[e].job)
    BY DEF ListCancel, Job, NoteEarly, Listing
  <1> QED BY <1>2, <1>3 DEF ListCancel

\* One listed item is cancelled, or there is none left.
LEMMA CancelItemEffect ==
    ASSUME Typed, NEW e \in Executor, CancelItem(e)
    PROVE  /\ run[e].pc = "cancelItem"
           /\ IF run[e].todo = {} THEN PcIs(e, "recount") /\ item' = item
              ELSE /\ Min(run[e].todo) \in run[e].todo /\ Min(run[e].todo) \in Item
                   /\ ItemIs(Min(run[e].todo), "cancelled")
                   /\ RunIs(e, "cancelItem", run[e].job, run[e].todo \ {Min(run[e].todo)},
                            run[e].verdict, run[e].seen)
           /\ UNCHANGED <<status, cancelReq, bad, creator, task, request, page, history>>
  <1> DEFINE i == Min(run[e].todo)
  <1>1. run[e].todo \subseteq Item /\ (run[e].todo # {} => i \in run[e].todo)
    BY FirstItem DEF Typed, Columns, RunRow
  <1> HIDE DEF i
  <1>2. CASE run[e].todo = {}
    <2>1. run' = [run EXCEPT ![e].pc = "recount"]
      BY <1>2 DEF CancelItem
    <2>2. /\ run[e].pc = "cancelItem" /\ item' = item
           /\ UNCHANGED <<status, cancelReq, bad, creator, task, request, page, history>>
      BY <1>2 DEF CancelItem, rows, Others, history
    <2>3. PcIs(e, "recount")
      BY <2>1, PcNames DEF PcIs, RunIs, RunRow, Typed, Columns
    <2> QED BY <1>2, <2>2, <2>3
  <1>3. CASE run[e].todo # {}
    <2>4. run' = [run EXCEPT ![e].todo = run[e].todo \ {i}] /\ run[e].pc = "cancelItem"
      BY <1>3 DEF CancelItem, i
    <2>1. RunIs(e, "cancelItem", run[e].job, run[e].todo \ {i}, run[e].verdict, run[e].seen)
      BY <2>4 DEF Typed, Columns, RunRow, RunIs
    <2>2. ItemIs(i, "cancelled")
      BY <1>1, <1>3 DEF CancelItem, i, ItemIs, ItemStatus, Finished, Typed, Columns
    <2>3. /\ run[e].pc = "cancelItem"
           /\ UNCHANGED <<status, cancelReq, bad, creator, task, request, page, history>>
      BY DEF CancelItem, rows, Others, history
    <2> QED BY <1>1, <1>3, <2>1, <2>2, <2>3 DEF i
  <1> QED BY <1>2, <1>3

\* The read half of the runner's recount.
LEMMA CountReadEffect ==
    ASSUME Typed, NEW e \in Executor, CountRead(e)
    PROVE  /\ run[e].pc \in {"count", "recount"}
           /\ RunIs(e, IF run[e].pc = "count" THEN "countWrite" ELSE "recountWrite",
                 run[e].job, run[e].todo, run[e].verdict, HasBad(run[e].job))
           /\ UNCHANGED <<rows, creator, task, request, page, history>>
  <1>1. HasBad(run[e].job) \in BOOLEAN
    BY DEF HasBad
  <1> QED BY <1>1, PcNames DEF CountRead, Typed, Columns, Steady, RunRow, RunIs,
               PcIs, rows, history, Others, Job

\* The write half of the runner's recount.
LEMMA CountWriteEffect ==
    ASSUME Typed, NEW e \in Executor, CountWrite(e)
    PROVE  /\ run[e].pc \in {"countWrite", "recountWrite"}
           /\ RunIs(e, IF run[e].pc = "countWrite" THEN "decide" ELSE "finish",
                 run[e].job, run[e].todo, run[e].verdict, FALSE)
           /\ Counted(run[e].job, run[e].seen)
           /\ UNCHANGED <<status, cancelReq, item, creator, task, request, page, early,
                          late, lost, aborted>>
  <1>1. /\ run[e].pc \in {"countWrite", "recountWrite"}
        /\ UNCHANGED <<status, cancelReq, item, creator, task, request, page, early,
                       late, lost, aborted>>
    BY DEF CountWrite, rows, Others, history
  <1>2. RunIs(e, IF run[e].pc = "countWrite" THEN "decide" ELSE "finish",
                 run[e].job, run[e].todo, run[e].verdict, FALSE)
    BY PcNames DEF CountWrite, Typed, Columns, Steady, RunRow, RunIs, PcIs, rows,
             history, Others, Job
  <1>3. run[e].job \in Batch /\ run[e].seen \in BOOLEAN /\ WriteCount(run[e].job, run[e].seen)
    BY <1>1 DEF CountWrite, Free, Typed, Columns, Steady, RunRow, RunIs, PcIs, rows,
             history, Others, Job
  <1> QED BY <1>1, <1>2, <1>3, WriteCountEffect

\* The verdict comes from the row.
LEMMA DecideEffect ==
    ASSUME Typed, NEW e \in Executor, Decide(e)
    PROVE  /\ run[e].pc = "decide"
           /\ RunIs(e, "recount", run[e].job, run[e].todo,
                 IF bad[run[e].job] THEN "completed_with_failures" ELSE "completed", run[e].seen)
           /\ UNCHANGED <<rows, creator, task, request, page, history>>
  <1> DEFINE v == IF bad[run[e].job] THEN "completed_with_failures" ELSE "completed"
  <1>1. v \in Verdicts
    BY DEF Verdicts
  <1>2. run' = [run EXCEPT ![e].pc = "recount", ![e].verdict = v]
    BY DEF Decide, Job
  <1> HIDE DEF v
  <1>3. RunIs(e, "recount", run[e].job, run[e].todo, v, run[e].seen)
    BY <1>1, <1>2, PcNames DEF RunIs, RunRow, Typed, Columns
  <1> QED BY <1>3 DEF Decide, Others, v

\* The verdict is written.
LEMMA FinishEffect ==
    ASSUME Typed, NEW e \in Executor, Finish(e)
    PROVE  /\ run[e].pc = "finish" /\ PcIs(e, "manifest")
           /\ StatusIs(run[e].job, run[e].verdict)
           /\ UNCHANGED <<cancelReq, bad, item, creator, task, request, page, history>>
  <1>1. /\ run[e].pc = "finish" /\ PcIs(e, "manifest")
        /\ UNCHANGED <<cancelReq, bad, item, creator, task, request, page, history>>
    BY PcNames DEF Finish, Typed, Columns, Steady, RunRow, RunIs, PcIs, rows,
             history, Others, Job
  <1>2. run[e].job \in Batch /\ run[e].verdict \in StatusOf
    BY <1>1 DEF Typed, Columns, Steady, RunRow, Free, Verdicts, StatusOf, Terminal
  <1> QED BY <1>1, <1>2 DEF Finish, Job, StatusIs, Typed, Columns

\* The execution is over.
LEMMA ManifestEffect ==
    ASSUME Typed, NEW e \in Executor, Manifest(e)
    PROVE  /\ run[e].pc = "manifest"
           /\ RunIs(e, Idle(e), Worker, {}, "none", FALSE)
           /\ UNCHANGED <<rows, creator, task, request, page, history>>
  BY PcNames DEF Manifest, NoRun, Idle, Free, Verdicts, Typed, Columns, Steady,
           RunRow, RunIs, PcIs, rows, history, Others, Job

\* An exception of the runner.
LEMMA RunFaultEffect ==
    ASSUME Typed, NEW e \in Executor, RunFault(e)
    PROVE  /\ run[e].pc \notin Free /\ run[e].pc # "failing" /\ PcIs(e, "failing")
           /\ UNCHANGED <<rows, creator, task, request, page, history>>
  <1>1. /\ run[e].pc \notin Free /\ run[e].pc # "failing"
        /\ UNCHANGED <<rows, creator, task, request, page, history>>
        /\ run' = [run EXCEPT ![e].pc = "failing"]
    BY DEF RunFault, Free, rows, history
  <1> QED BY <1>1, PcNames DEF PcIs, RunIs, RunRow, Typed, Columns

\* The pool is waited for and the batch marked failed.
LEMMA FailBatchEffect ==
    ASSUME Typed, NEW e \in Executor, FailBatch(e)
    PROVE  /\ run[e].pc = "failing" /\ Settled(e)
           /\ RunIs(e, Idle(e), Worker, {}, "none", FALSE)
           /\ PoolGone(e)
           /\ StatusIs(run[e].job, "failed")
           /\ aborted' = aborted \cup {run[e].job}
           /\ UNCHANGED <<cancelReq, bad, item, creator, request, page, early, blurred,
                          late, lost>>
  <1>1. run[e].pc = "failing" /\ Settled(e) /\ aborted' = aborted \cup {run[e].job}
       /\ UNCHANGED <<cancelReq, bad, item, creator, request, page, early, blurred,
                      late, lost>>
    BY DEF FailBatch, Job
  <1>2. RunIs(e, Idle(e), Worker, {}, "none", FALSE)
    BY PcNames DEF FailBatch, NoRun, Idle, Free, Verdicts, Typed, Columns, Steady,
             RunRow, RunIs, PcIs, rows, history, Others, Job
  <1>3. PoolGone(e)
    BY DEF FailBatch, NoTasks, PoolGone, TaskState, Typed, Columns
  <1>4. run[e].job \in Batch
    BY <1>1 DEF Typed, Steady, Free
  <1>5. StatusIs(run[e].job, "failed")
    BY <1>4 DEF FailBatch, Job, StatusIs, StatusOf, Terminal, Typed, Columns
  <1> QED BY <1>1, <1>2, <1>3, <1>5

\* A process goes away with its pool.
LEMMA CrashEffect ==
    ASSUME Typed, NEW e \in Executor, Crash(e)
    PROVE  /\ RunIs(e, IF e = Worker THEN "down" ELSE "over", Worker, {}, "none", FALSE)
           /\ PoolGone(e)
           /\ UNCHANGED <<rows, creator, request, page, history>>
  <1>1. UNCHANGED <<rows, creator, request, page, history>>
    BY DEF Crash, rows, history
  <1>2. RunIs(e, IF e = Worker THEN "down" ELSE "over", Worker, {}, "none", FALSE)
    BY PcNames DEF Crash, NoRun, Free, Verdicts, Typed, Columns, Steady, RunRow,
             RunIs, PcIs, rows, history, Others, Job
  <1>3. PoolGone(e)
    BY DEF Crash, NoTasks, PoolGone, TaskState, Typed, Columns
  <1> QED BY <1>1, <1>2, <1>3

\* The thread that polls ends.
LEMMA WorkerDiesEffect ==
    ASSUME Typed, WorkerDies
    PROVE  /\ run[Worker].pc \in {"idle", "failing"}
           /\ RunIs(Worker, "dead", Worker, {}, "none", FALSE)
           /\ PoolGone(Worker)
           /\ UNCHANGED <<rows, creator, request, page, history>>
  <1>w. Worker \in Executor
    BY DEF Executor
  <1>1. /\ run[Worker].pc \in {"idle", "failing"}
        /\ UNCHANGED <<rows, creator, request, page, history>>
    BY DEF WorkerDies, rows, history
  <1>2. RunIs(Worker, "dead", Worker, {}, "none", FALSE)
    BY <1>w, PcNames DEF WorkerDies, NoRun, Free, Verdicts, Typed, Columns, Steady,
             RunRow, RunIs, PcIs, rows, history, Others, Job
  <1>3. PoolGone(Worker)
    BY <1>w DEF WorkerDies, NoTasks, PoolGone, TaskState, Typed, Columns
  <1> QED BY <1>1, <1>2, <1>3

\* The restart puts what was interrupted back into the queue.
LEMMA WorkerStartEffect ==
    ASSUME Typed, WorkerStart
    PROVE  /\ run[Worker].pc = "down" /\ PcIs(Worker, "idle")
           /\ status' \in [Batch -> StatusOf] /\ cancelReq' \in [Batch -> BOOLEAN]
           /\ item' \in [Item -> ItemStatus]
           /\ \A b \in Batch : IF b \in Interrupted THEN status'[b] = "queued" /\ ~cancelReq'[b]
                             ELSE status'[b] = status[b] /\ cancelReq'[b] = cancelReq[b]
           /\ \A i \in Item : item'[i] = IF BatchOf[i] \in Interrupted /\ item[i] = "running"
                                  THEN "queued" ELSE item[i]
           /\ lost' = lost \cup {b \in Interrupted : cancelReq[b]}
           /\ UNCHANGED <<bad, creator, task, request, page, early, blurred, late,
                          aborted>>
  <1>w. Worker \in Executor
    BY DEF Executor
  <1>a. /\ run[Worker].pc = "down" /\ run' = [run EXCEPT ![Worker].pc = "idle"]
        /\ UNCHANGED <<bad, creator, task, request, page, early, blurred, late, aborted>>
    BY DEF WorkerStart, Recover, Step
  <1>b. "idle" \in Pcs
    BY PcNames DEF Free
  <1>1. PcIs(Worker, "idle")
    BY <1>a, <1>b, <1>w DEF PcIs, RunIs, RunRow, Typed, Columns
  <1>2. /\ status' = [b \in Batch |-> IF b \in Interrupted THEN "queued" ELSE status[b]]
        /\ cancelReq' = [b \in Batch |-> cancelReq[b] /\ b \notin Interrupted]
        /\ item' = [i \in Item |-> IF BatchOf[i] \in Interrupted /\ item[i] \in {"running"}
                                  THEN "queued" ELSE item[i]]
        /\ lost' = lost \cup {b \in Interrupted : cancelReq[b]}
    BY DEF WorkerStart, Recover
  <1>3. /\ status' \in [Batch -> StatusOf]
        /\ \A b \in Batch : status'[b] = IF b \in Interrupted THEN "queued" ELSE status[b]
    BY <1>2 DEF StatusOf, Waiting, Typed, Columns
  <1>4. /\ cancelReq' \in [Batch -> BOOLEAN]
        /\ \A b \in Batch : IF b \in Interrupted THEN ~cancelReq'[b]
                           ELSE cancelReq'[b] = cancelReq[b]
    BY <1>2 DEF Typed, Columns
  <1>5. /\ item' \in [Item -> ItemStatus]
        /\ \A i \in Item : item'[i] = IF BatchOf[i] \in Interrupted /\ item[i] = "running"
                                     THEN "queued" ELSE item[i]
    BY <1>2 DEF ItemStatus, Typed, Columns
  <1> QED BY <1>a, <1>1, <1>2, <1>3, <1>4, <1>5

\* A task of the pool starts its item.
LEMMA TaskStartEffect ==
    ASSUME Typed, NEW e \in Executor, NEW i \in Item, TaskStart(e, i)
    PROVE  /\ task[e][i] = "submitted" /\ TaskIs(e, i, "working") /\ ItemIs(i, "running")
           /\ late' \in [Batch -> SUBSET Item]
           /\ \A b \in Batch : late'[b] = IF b = BatchOf[i] /\ (cancelReq[b] \/ b \in lost)
                                       THEN late[b] \cup {i} ELSE late[b]
           /\ UNCHANGED <<status, cancelReq, bad, creator, run, request, page, early,
                          blurred, lost, aborted>>
  <1>1. /\ task[e][i] = "submitted"
        /\ UNCHANGED <<status, cancelReq, bad, creator, run, request, page, early,
                       blurred, lost, aborted>>
    BY DEF TaskStart, Task
  <1>2. TaskIs(e, i, "working") /\ ItemIs(i, "running")
    BY DEF TaskStart, Task, TaskIs, TaskState, ItemIs, ItemStatus, Typed, Columns
  <1> QED BY <1>1, <1>2, ItemAssumption DEF TaskStart, Typed, Columns

\* A task stores its answer, or the error it was turned into.
LEMMA TaskStoreEffect ==
    ASSUME Typed, NEW e \in Executor, NEW i \in Item, TaskStore(e, i)
    PROVE  /\ \/ /\ task[e][i] = "working" /\ TaskIs(e, i, "stored")
                 /\ ItemIs(i, "success") \/ ItemIs(i, "failed")
              \/ task[e][i] = "erring" /\ TaskIs(e, i, "storedError") /\ ItemIs(i, "failed")
           /\ UNCHANGED <<status, cancelReq, bad, creator, run, request, page, history>>
  <1>1. UNCHANGED <<status, cancelReq, bad, creator, run, request, page, history>>
    BY DEF TaskStore, Others, history
  <1>2. CASE /\ Task(e, i, {"working"}, "stored")
             /\ \E r \in {"success", "failed"} : item' = [item EXCEPT ![i] = r]
    BY <1>1, <1>2 DEF Task, TaskIs, TaskState, ItemIs, ItemStatus, Finished, Typed,
             Columns
  <1>3. CASE Task(e, i, {"erring"}, "storedError") /\ item' = [item EXCEPT ![i] = "failed"]
    BY <1>1, <1>3 DEF Task, TaskIs, TaskState, ItemIs, ItemStatus, Finished, Typed,
             Columns
  <1> QED BY <1>2, <1>3 DEF TaskStore

\* The read half of a task's recount.
LEMMA TaskCountEffect ==
    ASSUME Typed, NEW e \in Executor, NEW i \in Item, TaskCount(e, i)
    PROVE  /\ task[e][i] \in {"stored", "storedError"}
           /\ TaskIs(e, i, IF HasBad(BatchOf[i]) THEN "sawBad" ELSE "sawClean")
           /\ UNCHANGED <<rows, creator, run, request, page, history>>
  <1>1. /\ task[e][i] \in {"stored", "storedError"}
        /\ UNCHANGED <<rows, creator, run, request, page, history>>
    BY DEF TaskCount, Task, rows, Others, history
  <1> QED BY <1>1 DEF TaskCount, Task, TaskIs, TaskState, Typed, Columns

\* The write half of a task's recount.
LEMMA TaskWriteEffect ==
    ASSUME Typed, NEW e \in Executor, NEW i \in Item, TaskWrite(e, i)
    PROVE  /\ task[e][i] \in {"sawBad", "sawClean"} /\ TaskIs(e, i, "done")
           /\ Counted(BatchOf[i], task[e][i] = "sawBad")
           /\ UNCHANGED <<status, cancelReq, item, creator, run, request, page, early,
                          late, lost, aborted>>
  <1>1. /\ task[e][i] \in {"sawBad", "sawClean"}
        /\ UNCHANGED <<status, cancelReq, item, creator, run, request, page, early,
                       late, lost, aborted>>
    BY DEF TaskWrite, Task
  <1>2. TaskIs(e, i, "done")
    BY DEF TaskWrite, Task, TaskIs, TaskState, Typed, Columns
  <1>3. BatchOf[i] \in Batch /\ (task[e][i] = "sawBad") \in BOOLEAN
    BY ItemAssumption
  <1>4. WriteCount(BatchOf[i], task[e][i] = "sawBad")
    BY DEF TaskWrite
  <1> QED BY <1>1, <1>2, <1>3, <1>4, WriteCountEffect

\* A database error of a task.
LEMMA TaskFaultEffect ==
    ASSUME Typed, NEW e \in Executor, NEW i \in Item, TaskFault(e, i)
    PROVE  /\ \/ task[e][i] \in {"submitted", "working", "stored"} /\ TaskIs(e, i, "erring")
              \/ task[e][i] \in {"submitted", "erring", "storedError"} /\ TaskIs(e, i, "raised")
           /\ UNCHANGED <<rows, creator, run, request, page, history>>
  <1>1. UNCHANGED <<rows, creator, run, request, page, history>>
    BY DEF TaskFault, rows, history
  <1>2. CASE Task(e, i, {"submitted", "working", "stored"}, "erring")
    <2>1. TaskIs(e, i, "erring")
      BY <1>2 DEF Task, TaskIs, TaskState, Typed, Columns
    <2> QED BY <1>1, <1>2, <2>1 DEF Task
  <1>3. CASE Task(e, i, {"submitted", "erring", "storedError"}, "raised")
    <2>1. TaskIs(e, i, "raised")
      BY <1>3 DEF Task, TaskIs, TaskState, Typed, Columns
    <2> QED BY <1>1, <1>3, <2>1 DEF Task
  <1> QED BY <1>1, <1>2, <1>3 DEF TaskFault

\* create_batch inserts the row.
LEMMA InsertBatchEffect ==
    ASSUME Typed, NEW b \in Batch, InsertBatch(b)
    PROVE  /\ creator[b] = "none" /\ CreatorIs(b, "items") /\ StatusIs(b, "queued")
           /\ UNCHANGED <<cancelReq, bad, item, run, task, request, page, history>>
  BY DEF InsertBatch, Creator, CreatorIs, CreatorStage, StatusIs, StatusOf, Waiting,
         Typed, Columns

\* Its items are created in the order of their ids.
LEMMA CreateItemEffect ==
    ASSUME Typed, NEW b \in Batch, CreateItem(b)
    PROVE  \E i \in Missing(b) :
             /\ \A j \in Missing(b) : i <= j
             /\ ItemIs(i, "queued")
             /\ creator[b] = "items"
             /\ CreatorIs(b, IF i \in Ineligible /\ b \notin Single THEN "mark" ELSE "items")
             /\ UNCHANGED <<status, cancelReq, bad, run, task, request, page, history>>
  <1> DEFINE i == Min(Missing(b))
  <1>1. Missing(b) # {} /\ Missing(b) \subseteq Item
    BY DEF CreateItem, Missing, ItemsOf
  <1>2. i \in Missing(b) /\ i \in Item /\ \A j \in Missing(b) : i <= j
    BY <1>1, FirstItem
  <1>3. /\ item' = [item EXCEPT ![i] = "queued"]
        /\ Creator(b, "items", IF i \in Ineligible /\ b \notin Single THEN "mark" ELSE "items")
        /\ UNCHANGED <<status, cancelReq, bad, run, task, request, page, history>>
    BY DEF CreateItem
  <1> HIDE DEF i
  <1>4. ItemIs(i, "queued")
    BY <1>2, <1>3 DEF ItemIs, ItemStatus, Typed, Columns
  <1>5. /\ creator[b] = "items"
        /\ CreatorIs(b, IF i \in Ineligible /\ b \notin Single THEN "mark" ELSE "items")
    BY <1>3 DEF Creator, CreatorIs, CreatorStage, Typed, Columns
  <1> QED BY <1>2, <1>3, <1>4, <1>5

\* The item created last is set aside.
LEMMA MarkIneligibleEffect ==
    ASSUME Typed, NEW b \in Batch, MarkIneligible(b),
           NEW m \in ItemsOf(b), item[m] # "absent",
           \A j \in ItemsOf(b) : item[j] # "absent" => j <= m
    PROVE  /\ creator[b] = "mark" /\ CreatorIs(b, "items") /\ ItemIs(m, "pending")
           /\ UNCHANGED <<status, cancelReq, bad, run, task, request, page, history>>
  <1> DEFINE S == {j \in ItemsOf(b) : item[j] # "absent"}
  <1>1. S \subseteq Nat /\ m \in S /\ \A j \in S : j <= m
    BY ItemAssumption DEF ItemsOf
  <1>2. \A n \in S : (\A j \in S : j <= n) => n = m
    BY <1>1
  <1> HIDE DEF S
  <1>3. Max(S) = m
    BY <1>1, <1>2 DEF Max
  <1>4. item' = [item EXCEPT ![m] = "pending"] /\ m \in Item
    BY <1>3 DEF MarkIneligible, S, ItemsOf
  <1>5. ItemIs(m, "pending")
    BY <1>4 DEF ItemIs, ItemStatus, Finished, Typed, Columns
  <1> QED BY <1>5 DEF MarkIneligible, Creator, CreatorIs, CreatorStage, Typed, Columns

\* The read half of the recount of create_batch.
LEMMA CreatorCountEffect ==
    ASSUME Typed, NEW b \in Batch, CreatorCount(b)
    PROVE  /\ creator[b] = "items" /\ Missing(b) = {}
           /\ CreatorIs(b, IF HasBad(b) THEN "sawBad" ELSE "sawClean")
           /\ UNCHANGED <<rows, run, task, request, page, history>>
  BY DEF CreatorCount, Creator, CreatorIs, CreatorStage, Typed, Columns

\* The write half of the recount of create_batch.
LEMMA CreatorWriteEffect ==
    ASSUME Typed, NEW b \in Batch, CreatorWrite(b)
    PROVE  /\ creator[b] \in {"sawBad", "sawClean"} /\ CreatorIs(b, "counted")
           /\ Counted(b, creator[b] = "sawBad")
           /\ UNCHANGED <<status, cancelReq, item, run, task, request, page, early, late,
                          lost, aborted>>
  <1>1. creator[b] \in {"sawBad", "sawClean"} /\ CreatorIs(b, "counted")
    BY DEF CreatorWrite, CreatorIs, CreatorStage, Typed, Columns
  <1>2. (creator[b] = "sawBad") \in BOOLEAN /\ WriteCount(b, creator[b] = "sawBad")
    BY DEF CreatorWrite
  <1> QED BY <1>1, <1>2, WriteCountEffect DEF CreatorWrite

\* The batch is enqueued, or the request refused.
LEMMA EnqueueEffect ==
    ASSUME Typed, NEW b \in Batch, Enqueue(b)
    PROVE  /\ creator[b] = "counted"
           /\ CreatorIs(b, "done") \/ CreatorIs(b, "refused")
           /\ UNCHANGED <<rows, run, task, request, page, history>>
  BY DEF Enqueue, Creator, CreatorIs, CreatorStage, Typed, Columns

\* A request reads the status it will write.
LEMMA CancelReadEffect ==
    ASSUME Typed, NEW b \in Batch, CancelRead(b)
    PROVE  /\ request = NoRequest /\ status[b] # "absent"
           /\ request' = [batch |-> b, status |-> IF status[b] \in {"queued", "running"}
                                                  THEN "cancelling" ELSE status[b]]
           /\ request' \in [batch : Batch, status : {"cancelling"} \cup Terminal]
           /\ UNCHANGED <<rows, creator, run, task, page, history>>
  <1>1. status[b] \in StatusOf
    BY DEF Typed, Columns
  <1> QED BY <1>1 DEF CancelRead, StatusOf, Waiting

\* It writes that status and the flag.
LEMMA CancelWriteEffect ==
    ASSUME Typed, CancelWrite
    PROVE  /\ request \in [batch : Batch, status : {"cancelling"} \cup Terminal]
           /\ request' = NoRequest
           /\ StatusIs(request.batch, request.status)
           /\ cancelReq' \in [Batch -> BOOLEAN]
           /\ cancelReq'[request.batch]
           /\ \A c \in Batch : c # request.batch => cancelReq'[c] = cancelReq[c]
           /\ UNCHANGED <<bad, item, creator, run, task, page, history>>
  <1>1. request \in [batch : Batch, status : {"cancelling"} \cup Terminal]
    BY DEF CancelWrite, Typed, Held
  <1>2. request.batch \in Batch /\ request.status \in StatusOf
    BY <1>1 DEF StatusOf, Waiting
  <1> QED BY <1>1, <1>2 DEF CancelWrite, StatusIs, Typed, Columns

\* A view reads a count.
LEMMA ViewReadEffect ==
    ASSUME Typed, NEW b \in Batch, ViewRead(b)
    PROVE  /\ page' \in [batch : Batch, seen : BOOLEAN]
           /\ UNCHANGED <<rows, creator, run, task, request, history>>
  <1>1. HasBad(b) \in BOOLEAN
    BY DEF HasBad
  <1> QED BY <1>1 DEF ViewRead

\* It writes the count it has read.
LEMMA ViewWriteEffect ==
    ASSUME Typed, ViewWrite
    PROVE  /\ page \in [batch : Batch, seen : BOOLEAN]
           /\ page' = NoPage
           /\ Counted(page.batch, page.seen)
           /\ UNCHANGED <<status, cancelReq, item, creator, run, task, request, early, late,
                          lost, aborted>>
  <1>1. page \in [batch : Batch, seen : BOOLEAN] /\ WriteCount(page.batch, page.seen)
    BY DEF ViewWrite, Typed, Held
  <1> QED BY <1>1, WriteCountEffect DEF ViewWrite

-----------------------------------------------------------------------------
(* Types.                                                                  *)

\* What only changes the execution of e keeps the types.
LEMMA TypedRun ==
    ASSUME Typed, NEW e \in Executor, NEW pc, NEW job, NEW todo, NEW verdict, NEW seen,
           RunIs(e, pc, job, todo, verdict, seen),
           Columns', UNCHANGED <<request, page>>,
           pc \in Free => job = Worker /\ todo = {},
           pc \notin Free => job \in Batch,
           pc \in Putting => todo # {},
           pc \in {"listCancel", "cancelItem"} => verdict = "cancelled",
           pc \in {"recount", "recountWrite", "finish"} => verdict # "none"
    PROVE  Typed'
  <1>1. Held'
    BY DEF Held, Typed
  <1>2. Steady'
    <2>1. ASSUME NEW f \in Executor
          PROVE /\ run'[f].pc \in Free => run'[f].job = Worker /\ run'[f].todo = {}
                /\ run'[f].pc \notin Free => run'[f].job \in Batch
                /\ run'[f].pc \in Putting => run'[f].todo # {}
                /\ run'[f].pc \in {"listCancel", "cancelItem"} => run'[f].verdict = "cancelled"
                /\ run'[f].pc \in {"recount", "recountWrite", "finish"}
                   => run'[f].verdict # "none"
      <3>1. CASE f = e
        BY <3>1 DEF RunIs
      <3>2. CASE f # e
        BY <3>2 DEF RunIs, Typed, Steady
      <3> QED BY <3>1, <3>2
    <2> QED BY <2>1 DEF Steady
  <1> QED BY <1>1, <1>2 DEF Typed

\* What leaves the executions alone keeps the types when the columns do.
LEMMA TypedKeep ==
    ASSUME Typed, Columns', UNCHANGED <<run, request, page>>
    PROVE  Typed'
  BY DEF Typed, Held, Steady

\* Every step keeps the types.
LEMMA TypedStep ==
    ASSUME Typed, [Next]_vars
    PROVE  Typed'
  <1>1. ASSUME NEW b \in Batch, Create(b) PROVE Typed'
    <2>1. CASE InsertBatch(b)
      BY <2>1, InsertBatchEffect, TypedKeep DEF Typed, Columns, rows, history, CreatorIs, StatusIs
    <2>2. CASE CreateItem(b)
      BY <2>2, CreateItemEffect, TypedKeep DEF Typed, Columns, rows, history, Missing, ItemsOf,
         ItemIs, CreatorIs
    <2>3. CASE MarkIneligible(b)
      BY <2>3, TypedKeep DEF MarkIneligible, Creator, CreatorStage, ItemStatus,
         Finished, Typed, Columns, history
    <2>4. CASE CreatorCount(b)
      BY <2>4, CreatorCountEffect, TypedKeep DEF Typed, Columns, rows, history, CreatorIs
    <2>5. CASE CreatorWrite(b)
      BY <2>5, CreatorWriteEffect, TypedKeep DEF Typed, Columns, rows, history, CreatorIs, Counted
    <2>6. CASE Enqueue(b)
      BY <2>6, EnqueueEffect, TypedKeep DEF Typed, Columns, rows, history, CreatorIs
    <2> QED BY <1>1, <2>1, <2>2, <2>3, <2>4, <2>5, <2>6 DEF Create
  <1>2. ASSUME NEW b \in Batch, CancelRead(b) PROVE Typed'
    BY <1>2, CancelReadEffect DEF Typed, Columns, Held, Steady, rows, history
  <1>3. ASSUME NEW b \in Batch, ViewRead(b) PROVE Typed'
    BY <1>3, ViewReadEffect DEF Typed, Columns, Held, Steady, rows, history
  <1>4. CASE CancelWrite
    BY <1>4, CancelWriteEffect DEF Typed, Columns, Held, Steady, StatusIs, rows, history
  <1>5. CASE ViewWrite
    BY <1>5, ViewWriteEffect DEF Typed, Columns, Held, Steady, Counted, rows, history
  <1>6. ASSUME NEW e \in Executor, Execute(e) PROVE Typed'
    <2>1. CASE Claim(e)
      <3>1. PICK b \in Batch :
               /\ e = Worker => status[b] \in Waiting
               /\ e # Worker => b = e /\ creator[b] = "done"
               /\ RunIs(e, "flag", b, {}, "none", FALSE)
        BY <2>1, ClaimEffect
      <3>r. RunIs(e, "flag", b, {}, "none", FALSE)
        BY <3>1
      <3>2. UNCHANGED <<rows, creator, task, request, page, history>>
        BY <2>1, ClaimEffect
      <3>3. Columns'
        BY <3>r, <3>2 DEF Typed, Columns, RunIs, rows, history
      <3>4. Steady'
        BY <3>r DEF Typed, Steady, RunIs, Free, Putting
      <3> QED BY <3>2, <3>3, <3>4 DEF Typed, Held
    <2>2. CASE ReadFlag(e)
      <3> USE <2>2, ReadFlagEffect
      <3>1. Columns'
        BY DEF Typed, Columns, RunIs, PcIs, rows, history
      <3>2. Steady'
        BY DEF Typed, Steady, RunIs, PcIs, Free, Putting
      <3> QED BY <3>1, <3>2 DEF Typed, Held
    <2>3. CASE Start(e)
      <3> USE <2>3, StartEffect
      <3>j. run[e].job \in Batch
        BY <2>3, StartEffect DEF Typed, Steady, Free
      <3>1. Columns'
        BY <3>j DEF Typed, Columns, RunIs, StatusIs, PcIs, rows, history
      <3>2. Steady'
        BY <3>j DEF Typed, Steady, RunIs, PcIs, Free, Putting
      <3> QED BY <3>1, <3>2 DEF Typed, Held
    <2>4. CASE List(e)
      <3> USE <2>4, ListEffect
      <3>j. run[e].job \in Batch
        BY DEF Typed, Steady, Free
      <3>1. Columns'
        BY <3>j DEF Typed, Columns, RunIs, Listing, rows, history
      <3>2. Steady'
        BY DEF Typed, Steady, RunIs, Free, Putting
      <3> QED BY <3>1, <3>2 DEF Typed, Held
    <2>5. CASE Check(e)
      <3> USE <2>5, CheckEffect
      <3>1. Columns'
        BY DEF Typed, Columns, RunIs, PcIs, rows, history
      <3>2. Steady'
        BY DEF Typed, Steady, RunIs, PcIs, Free, Putting
      <3> QED BY <3>1, <3>2 DEF Typed, Held
    <2>6. CASE Submit(e)
      <3> USE <2>6, SubmitEffect
      <3>1. Columns'
        BY DEF Typed, Columns, RunIs, TaskIs, rows, history
      <3>2. Steady'
        BY DEF Typed, Steady, RunIs, Free, Putting
      <3> QED BY <3>1, <3>2 DEF Typed, Held
    <2>7. ASSUME NEW i \in Item, Collect(e, i) PROVE Typed'
      <3> USE <2>7, CollectEffect
      <3>1. Columns'
        BY DEF Typed, Columns, RunIs, TaskIs, ItemIs, PcIs, rows, history
      <3>2. Steady'
        BY DEF Typed, Steady, RunIs, PcIs, Free, Putting
      <3> QED BY <3>1, <3>2 DEF Typed, Held
    <2>8. CASE Drained(e)
      <3> USE <2>8, DrainedEffect
      <3>1. Columns'
        BY DEF Typed, Columns, RunIs, PcIs, rows, history
      <3>2. Steady'
        BY DEF Typed, Steady, RunIs, PcIs, Free, Putting
      <3> QED BY <3>1, <3>2 DEF Typed, Held
    <2>9. CASE ListCancel(e)
      <3> USE <2>9, ListCancelEffect
      <3>j. run[e].job \in Batch
        BY DEF Typed, Steady, Free
      <3>1. Columns'
        BY <3>j DEF Typed, Columns, RunIs, Listing, rows, history
      <3>2. Steady'
        BY DEF Typed, Steady, RunIs, Free, Putting
      <3> QED BY <3>1, <3>2 DEF Typed, Held
    <2>10. CASE CancelItem(e)
      <3> USE <2>10, CancelItemEffect
      <3>1. Columns'
        BY DEF Typed, Columns, RunIs, ItemIs, PcIs, rows, history
      <3>2. Steady'
        BY DEF Typed, Steady, RunIs, PcIs, Free, Putting
      <3> QED BY <3>1, <3>2 DEF Typed, Held
    <2>11. CASE CountRead(e)
      <3> USE <2>11, CountReadEffect
      <3>1. Columns'
        BY DEF Typed, Columns, RunIs, rows, history
      <3>2. Steady'
        BY DEF Typed, Steady, RunIs, Free, Putting
      <3> QED BY <3>1, <3>2 DEF Typed, Held
    <2>12. CASE CountWrite(e)
      <3> USE <2>12, CountWriteEffect
      <3>j. run[e].job \in Batch
        BY <2>12, CountWriteEffect DEF Typed, Steady, Free
      <3>1. Columns'
        BY <3>j DEF Typed, Columns, RunIs, Counted, rows, history
      <3>2. Steady'
        BY <3>j DEF Typed, Steady, RunIs, Free, Putting
      <3> QED BY <3>1, <3>2 DEF Typed, Held
    <2>13. CASE Decide(e)
      <3> USE <2>13, DecideEffect
      <3>1. Columns'
        BY DEF Typed, Columns, RunIs, rows, history
      <3>2. Steady'
        BY DEF Typed, Steady, RunIs, Free, Putting
      <3> QED BY <3>1, <3>2 DEF Typed, Held
    <2>14. CASE Finish(e)
      <3> USE <2>14, FinishEffect
      <3>j. run[e].job \in Batch
        BY <2>14, FinishEffect DEF Typed, Steady, Free
      <3>1. Columns'
        BY <3>j DEF Typed, Columns, RunIs, StatusIs, PcIs, rows, history
      <3>2. Steady'
        BY <3>j DEF Typed, Steady, RunIs, PcIs, Free, Putting
      <3> QED BY <3>1, <3>2 DEF Typed, Held
    <2>15. CASE Manifest(e)
      <3>1. PICK pc \in Free : RunIs(e, pc, Worker, {}, "none", FALSE)
        BY <2>15, ManifestEffect DEF Free, Idle
      <3>2. UNCHANGED <<rows, creator, task, request, page, history>>
        BY <2>15, ManifestEffect
      <3>5. Columns'
        BY <3>1, <3>2 DEF Typed, Columns, RunIs, rows, history
      <3>6. Steady'
        BY <3>1 DEF Typed, Steady, RunIs, Free, Putting
      <3> QED BY <3>2, <3>5, <3>6 DEF Typed, Held
    <2>16. CASE FailBatch(e)
      <3>1. PICK pc \in Free : RunIs(e, pc, Worker, {}, "none", FALSE)
        BY <2>16, FailBatchEffect DEF Free, Idle
      <3>2. UNCHANGED <<cancelReq, bad, item, creator, request, page, early, blurred, late, lost>> /\ PoolGone(e)
        BY <2>16, FailBatchEffect
      <3>3. run[e].job \in Batch
        BY <2>16, FailBatchEffect DEF Typed, Steady, Free
      <3>a. StatusIs(run[e].job, "failed") /\ aborted' = aborted \cup {run[e].job}
        BY <2>16, FailBatchEffect
      <3>4. status' \in [Batch -> StatusOf] /\ aborted' \subseteq Batch
        BY <3>3, <3>a DEF StatusIs, Typed, Columns
      <3>5. Columns'
        BY <3>1, <3>2, <3>4 DEF Typed, Columns, RunIs, PoolGone
      <3>6. Steady'
        BY <3>1 DEF Typed, Steady, RunIs, Free, Putting
      <3> QED BY <3>2, <3>5, <3>6 DEF Typed, Held
    <2> QED
      BY <1>6, <2>1, <2>2, <2>3, <2>4, <2>5, <2>6, <2>7, <2>8, <2>9,
         <2>10, <2>11, <2>12, <2>13, <2>14, <2>15, <2>16 DEF Execute
  <1>7. ASSUME NEW e \in Executor, RunFault(e) PROVE Typed'
    <2> USE <1>7, RunFaultEffect
    <2>1. Columns'
      BY DEF Typed, Columns, RunIs, PcIs, rows, history
    <2>2. Steady'
      BY DEF Typed, Steady, RunIs, PcIs, Free, Putting
    <2> QED BY <2>1, <2>2 DEF Typed, Held
  <1>8. ASSUME NEW e \in Executor, Crash(e) PROVE Typed'
    <2>1. PICK pc \in Free : RunIs(e, pc, Worker, {}, "none", FALSE)
      BY <1>8, CrashEffect DEF Free
    <2>2. UNCHANGED <<rows, creator, request, page, history>> /\ PoolGone(e)
      BY <1>8, CrashEffect
    <2>5. Columns'
      BY <2>1, <2>2 DEF Typed, Columns, RunIs, PoolGone, rows, history
    <2>6. Steady'
      BY <2>1 DEF Typed, Steady, RunIs, Free, Putting
    <2> QED BY <2>2, <2>5, <2>6 DEF Typed, Held
  <1>9. ASSUME NEW e \in Executor, NEW i \in Item, RunItem(e, i) PROVE Typed'
    <2>1. CASE TaskStart(e, i)
      BY <2>1, TaskStartEffect, TypedKeep DEF Typed, Columns, TaskIs, ItemIs, rows, history
    <2>2. CASE TaskStore(e, i)
      BY <2>2, TaskStoreEffect, TypedKeep DEF Typed, Columns, TaskIs, ItemIs, rows, history
    <2>3. CASE TaskCount(e, i)
      BY <2>3, TaskCountEffect, TypedKeep DEF Typed, Columns, TaskIs, rows, history
    <2>4. CASE TaskWrite(e, i)
      <3>1. BatchOf[i] \in Batch
        BY ItemAssumption
      <3> QED
        BY <2>4, <3>1, TaskWriteEffect, TypedKeep
          DEF Typed, Columns, TaskIs, Counted, rows, history
    <2> QED BY <1>9, <2>1, <2>2, <2>3, <2>4 DEF RunItem
  <1>10. ASSUME NEW e \in Executor, NEW i \in Item, TaskFault(e, i) PROVE Typed'
    BY <1>10, TaskFaultEffect, TypedKeep DEF Typed, Columns, TaskIs, rows, history
  <1>11. CASE WorkerDies
    <2> USE <1>11, WorkerDiesEffect
    <2>w. Worker \in Executor
      BY DEF Executor
    <2>1. Columns'
      BY <2>w DEF Typed, Columns, RunIs, PoolGone, rows, history
    <2>2. Steady'
      BY <2>w DEF Typed, Steady, RunIs, Free, Putting
    <2> QED BY <2>1, <2>2 DEF Typed, Held
  <1>12. CASE WorkerStart
    <2> USE <1>12, WorkerStartEffect
    <2>w. Worker \in Executor
      BY DEF Executor
    <2>1. lost' \subseteq Batch /\ run' \in [Executor -> RunRow]
      BY DEF Typed, Columns, PcIs, RunIs, Interrupted
    <2>2. Columns'
      BY <2>1 DEF Typed, Columns
    <2>3. Steady'
      BY <2>w DEF Typed, Steady, RunIs, PcIs, Free, Putting
    <2> QED BY <2>2, <2>3 DEF Typed, Held
  <1>13. CASE UNCHANGED vars
    BY <1>13, TypedKeep DEF vars, rows, history, Typed, Columns
  <1> QED
    BY <1>1, <1>2, <1>3, <1>4, <1>5, <1>6, <1>7, <1>8, <1>9, <1>10, <1>11, <1>12,
       <1>13 DEF Next

-----------------------------------------------------------------------------
(* What an execution holds belongs to its batch.                           *)

Pool == {"fill", "fillPut", "refill", "refillPut", "drain", "failing"}

\* A Web thread runs its own batch; what is listed or in the pool is an item of the
\* batch being run, is in one of the two only, and has been created; the pool is
\* used between the list and the last future only.
BooksOf(e) ==
    /\ e # Worker => run[e].job \in {e, Worker}
    /\ \A i \in run[e].todo : i \in Item /\ BatchOf[i] = run[e].job /\ item[i] # "absent"
    /\ \A i \in Item : task[e][i] # "none" =>
          /\ BatchOf[i] = run[e].job /\ i \notin run[e].todo
          /\ run[e].pc \in Pool /\ item[i] # "absent"
Books == \A e \in Executor : BooksOf(e)

\* No item is created twice or goes away.
LEMMA ItemsRemain ==
    ASSUME Typed, [Next]_vars, NEW i \in Item, item[i] # "absent"
    PROVE  item'[i] # "absent"
  <1>1. ASSUME NEW b \in Batch, Create(b) PROVE item'[i] # "absent"
    <2>1. CASE InsertBatch(b)
      BY <2>1, InsertBatchEffect
    <2>2. CASE CreateItem(b)
      BY <2>2, CreateItemEffect DEF Missing, ItemsOf, ItemIs
    <2>3. CASE MarkIneligible(b)
      BY <2>3 DEF MarkIneligible, Typed, Columns
    <2>4. CASE CreatorCount(b)
      BY <2>4, CreatorCountEffect DEF rows
    <2>5. CASE CreatorWrite(b)
      BY <2>5, CreatorWriteEffect
    <2>6. CASE Enqueue(b)
      BY <2>6, EnqueueEffect DEF rows
    <2> QED BY <1>1, <2>1, <2>2, <2>3, <2>4, <2>5, <2>6 DEF Create
  <1>2. ASSUME NEW b \in Batch, CancelRead(b) PROVE item'[i] # "absent"
    BY <1>2, CancelReadEffect DEF rows
  <1>3. ASSUME NEW b \in Batch, ViewRead(b) PROVE item'[i] # "absent"
    BY <1>3, ViewReadEffect DEF rows
  <1>4. CASE CancelWrite
    BY <1>4, CancelWriteEffect
  <1>5. CASE ViewWrite
    BY <1>5, ViewWriteEffect
  <1>6. ASSUME NEW e \in Executor, Execute(e) PROVE item'[i] # "absent"
    <2>1. CASE Claim(e)
      BY <2>1, ClaimEffect DEF rows
    <2>2. CASE ReadFlag(e)
      BY <2>2, ReadFlagEffect DEF rows
    <2>3. CASE Start(e)
      BY <2>3, StartEffect
    <2>4. CASE List(e)
      BY <2>4, ListEffect DEF rows
    <2>5. CASE Check(e)
      BY <2>5, CheckEffect DEF rows
    <2>6. CASE Submit(e)
      BY <2>6, SubmitEffect DEF rows
    <2>7. ASSUME NEW j \in Item, Collect(e, j) PROVE item'[i] # "absent"
      BY <2>7, CollectEffect DEF ItemIs
    <2>8. CASE Drained(e)
      BY <2>8, DrainedEffect DEF rows
    <2>9. CASE ListCancel(e)
      BY <2>9, ListCancelEffect DEF rows
    <2>10. CASE CancelItem(e)
      BY <2>10, CancelItemEffect DEF ItemIs
    <2>11. CASE CountRead(e)
      BY <2>11, CountReadEffect DEF rows
    <2>12. CASE CountWrite(e)
      BY <2>12, CountWriteEffect
    <2>13. CASE Decide(e)
      BY <2>13, DecideEffect DEF rows
    <2>14. CASE Finish(e)
      BY <2>14, FinishEffect
    <2>15. CASE Manifest(e)
      BY <2>15, ManifestEffect DEF rows
    <2>16. CASE FailBatch(e)
      BY <2>16, FailBatchEffect
    <2> QED
      BY <1>6, <2>1, <2>2, <2>3, <2>4, <2>5, <2>6, <2>7, <2>8, <2>9,
         <2>10, <2>11, <2>12, <2>13, <2>14, <2>15, <2>16 DEF Execute
  <1>7. ASSUME NEW e \in Executor, RunFault(e) PROVE item'[i] # "absent"
    BY <1>7, RunFaultEffect DEF rows
  <1>8. ASSUME NEW e \in Executor, Crash(e) PROVE item'[i] # "absent"
    BY <1>8, CrashEffect DEF rows
  <1>9. ASSUME NEW e \in Executor, NEW j \in Item, RunItem(e, j) PROVE item'[i] # "absent"
    <2>1. CASE TaskStart(e, j)
      BY <2>1, TaskStartEffect DEF ItemIs
    <2>2. CASE TaskStore(e, j)
      BY <2>2, TaskStoreEffect DEF ItemIs
    <2>3. CASE TaskCount(e, j)
      BY <2>3, TaskCountEffect DEF rows
    <2>4. CASE TaskWrite(e, j)
      BY <2>4, TaskWriteEffect
    <2> QED BY <1>9, <2>1, <2>2, <2>3, <2>4 DEF RunItem
  <1>10. ASSUME NEW e \in Executor, NEW j \in Item, TaskFault(e, j) PROVE item'[i] # "absent"
    BY <1>10, TaskFaultEffect DEF rows
  <1>11. CASE WorkerDies
    BY <1>11, WorkerDiesEffect DEF rows
  <1>12. CASE WorkerStart
    BY <1>12, WorkerStartEffect
  <1>13. CASE UNCHANGED vars
    BY <1>13 DEF vars, rows
  <1> QED
    BY <1>1, <1>2, <1>3, <1>4, <1>5, <1>6, <1>7, <1>8, <1>9, <1>10, <1>11, <1>12,
       <1>13 DEF Next

\* The books are kept by what neither lists an item nor puts one into a pool.
LEMMA BooksKeep ==
    ASSUME Books, UNCHANGED run,
           \A i \in Item : item[i] # "absent" => item'[i] # "absent",
           \A e \in Executor, i \in Item : task'[e][i] # "none" => task[e][i] # "none"
    PROVE  Books'
  BY DEF Books, BooksOf

\* The books of the others are kept by what one execution does.
LEMMA BooksAt ==
    ASSUME Books, NEW e \in Executor, BooksOf(e)',
           \A i \in Item : item[i] # "absent" => item'[i] # "absent",
           \A f \in Executor \ {e} :
               run'[f] = run[f] /\ \A i \in Item : task'[f][i] = task[f][i]
    PROVE  Books'
  <1>1. ASSUME NEW f \in Executor, f # e
        PROVE  BooksOf(f)'
    BY <1>1 DEF Books, BooksOf
  <1> QED BY <1>1 DEF Books

\* Every step keeps the books.
LEMMA BooksStep ==
    ASSUME Typed, Books, [Next]_vars
    PROVE  Books'
  <1>r. \A i \in Item : item[i] # "absent" => item'[i] # "absent"
    BY ItemsRemain
  <1>1. ASSUME NEW b \in Batch, Create(b) PROVE Books'
    <2>1. CASE InsertBatch(b)
      BY <2>1, <1>r, InsertBatchEffect, BooksKeep
    <2>2. CASE CreateItem(b)
      BY <2>2, <1>r, CreateItemEffect, BooksKeep
    <2>3. CASE MarkIneligible(b)
      BY <2>3, <1>r, BooksKeep DEF MarkIneligible
    <2>4. CASE CreatorCount(b)
      BY <2>4, <1>r, CreatorCountEffect, BooksKeep
    <2>5. CASE CreatorWrite(b)
      BY <2>5, <1>r, CreatorWriteEffect, BooksKeep
    <2>6. CASE Enqueue(b)
      BY <2>6, <1>r, EnqueueEffect, BooksKeep
    <2> QED BY <1>1, <2>1, <2>2, <2>3, <2>4, <2>5, <2>6 DEF Create
  <1>2. ASSUME NEW b \in Batch, CancelRead(b) PROVE Books'
    BY <1>2, <1>r, CancelReadEffect, BooksKeep
  <1>3. ASSUME NEW b \in Batch, ViewRead(b) PROVE Books'
    BY <1>3, <1>r, ViewReadEffect, BooksKeep
  <1>4. CASE CancelWrite
    BY <1>4, <1>r, CancelWriteEffect, BooksKeep
  <1>5. CASE ViewWrite
    BY <1>5, <1>r, ViewWriteEffect, BooksKeep
  <1>6. ASSUME NEW e \in Executor, Execute(e) PROVE Books'
    <2>1. CASE Claim(e)
      <3>1. PICK b \in Batch :
               /\ e = Worker => status[b] \in Waiting
               /\ e # Worker => b = e /\ creator[b] = "done"
               /\ RunIs(e, "flag", b, {}, "none", FALSE)
        BY <2>1, ClaimEffect
      <3>2. run[e].pc = "idle" /\ UNCHANGED task
        BY <2>1, ClaimEffect
      <3>3. BooksOf(e)'
        BY <3>1, <3>2 DEF Books, BooksOf, RunIs, Pool
      <3> QED BY <1>r, <3>1, <3>2, <3>3, BooksAt DEF RunIs
    <2>2. CASE ReadFlag(e)
      <3>4. BooksOf(e)'
        BY <2>2, <1>r, ReadFlagEffect DEF Books, BooksOf, RunIs, Pool, PcIs
      <3>5. \A f \in Executor \ {e} :
               run'[f] = run[f] /\ \A j \in Item : task'[f][j] = task[f][j]
        BY <2>2, ReadFlagEffect DEF RunIs, PcIs
      <3> QED BY <1>r, <3>4, <3>5, BooksAt
    <2>3. CASE Start(e)
      <3>4. BooksOf(e)'
        BY <2>3, <1>r, StartEffect DEF Books, BooksOf, RunIs, Pool, PcIs
      <3>5. \A f \in Executor \ {e} :
               run'[f] = run[f] /\ \A j \in Item : task'[f][j] = task[f][j]
        BY <2>3, StartEffect DEF RunIs, PcIs
      <3> QED BY <1>r, <3>4, <3>5, BooksAt
    <2>4. CASE List(e)
      <3>4. BooksOf(e)'
        BY <2>4, <1>r, ListEffect DEF Books, BooksOf, RunIs, Pool, QueuedItems, ItemsOf
      <3>5. \A f \in Executor \ {e} :
               run'[f] = run[f] /\ \A j \in Item : task'[f][j] = task[f][j]
        BY <2>4, ListEffect DEF RunIs
      <3> QED BY <1>r, <3>4, <3>5, BooksAt
    <2>5. CASE Check(e)
      <3>4. BooksOf(e)'
        BY <2>5, <1>r, CheckEffect DEF Books, BooksOf, RunIs, Pool, PcIs
      <3>5. \A f \in Executor \ {e} :
               run'[f] = run[f] /\ \A j \in Item : task'[f][j] = task[f][j]
        BY <2>5, CheckEffect DEF RunIs, PcIs
      <3> QED BY <1>r, <3>4, <3>5, BooksAt
    <2>6. CASE Submit(e)
      <3>4. BooksOf(e)'
        BY <2>6, <1>r, SubmitEffect DEF Books, BooksOf, RunIs, Pool, TaskIs, Putting
      <3>5. \A f \in Executor \ {e} :
               run'[f] = run[f] /\ \A j \in Item : task'[f][j] = task[f][j]
        BY <2>6, SubmitEffect DEF RunIs, TaskIs
      <3> QED BY <1>r, <3>4, <3>5, BooksAt
    <2>7. ASSUME NEW i \in Item, Collect(e, i) PROVE Books'
      <3>4. BooksOf(e)'
        BY <2>7, <1>r, CollectEffect DEF Books, BooksOf, RunIs, Pool, PcIs, TaskIs
      <3>5. \A f \in Executor \ {e} :
               run'[f] = run[f] /\ \A j \in Item : task'[f][j] = task[f][j]
        BY <2>7, CollectEffect DEF RunIs, PcIs, TaskIs
      <3> QED BY <1>r, <3>4, <3>5, BooksAt
    <2>8. CASE Drained(e)
      <3>4. BooksOf(e)'
        BY <2>8, <1>r, DrainedEffect DEF Books, BooksOf, RunIs, Pool, PcIs, Futures
      <3>5. \A f \in Executor \ {e} :
               run'[f] = run[f] /\ \A j \in Item : task'[f][j] = task[f][j]
        BY <2>8, DrainedEffect DEF RunIs, PcIs
      <3> QED BY <1>r, <3>4, <3>5, BooksAt
    <2>9. CASE ListCancel(e)
      <3>4. BooksOf(e)'
        BY <2>9, <1>r, ListCancelEffect DEF Books, BooksOf, RunIs, Pool, QueuedItems, ItemsOf
      <3>5. \A f \in Executor \ {e} :
               run'[f] = run[f] /\ \A j \in Item : task'[f][j] = task[f][j]
        BY <2>9, ListCancelEffect DEF RunIs
      <3> QED BY <1>r, <3>4, <3>5, BooksAt
    <2>10. CASE CancelItem(e)
      <3>4. BooksOf(e)'
        BY <2>10, <1>r, CancelItemEffect DEF Books, BooksOf, RunIs, Pool, PcIs
      <3>5. \A f \in Executor \ {e} :
               run'[f] = run[f] /\ \A j \in Item : task'[f][j] = task[f][j]
        BY <2>10, CancelItemEffect DEF RunIs, PcIs
      <3> QED BY <1>r, <3>4, <3>5, BooksAt
    <2>11. CASE CountRead(e)
      <3>4. BooksOf(e)'
        BY <2>11, <1>r, CountReadEffect DEF Books, BooksOf, RunIs, Pool
      <3>5. \A f \in Executor \ {e} :
               run'[f] = run[f] /\ \A j \in Item : task'[f][j] = task[f][j]
        BY <2>11, CountReadEffect DEF RunIs
      <3> QED BY <1>r, <3>4, <3>5, BooksAt
    <2>12. CASE CountWrite(e)
      <3>1. PICK pc : RunIs(e, pc, run[e].job, run[e].todo, run[e].verdict, FALSE)
        BY <2>12, CountWriteEffect
      <3>2. run[e].pc \notin Pool /\ UNCHANGED <<task, item>>
        BY <2>12, CountWriteEffect DEF Pool
      <3>4. BooksOf(e)'
        BY <3>1, <3>2 DEF Books, BooksOf, RunIs
      <3> QED BY <1>r, <3>1, <3>2, <3>4, BooksAt DEF RunIs
    <2>13. CASE Decide(e)
      <3>4. BooksOf(e)'
        BY <2>13, <1>r, DecideEffect DEF Books, BooksOf, RunIs, Pool
      <3>5. \A f \in Executor \ {e} :
               run'[f] = run[f] /\ \A j \in Item : task'[f][j] = task[f][j]
        BY <2>13, DecideEffect DEF RunIs
      <3> QED BY <1>r, <3>4, <3>5, BooksAt
    <2>14. CASE Finish(e)
      <3>4. BooksOf(e)'
        BY <2>14, <1>r, FinishEffect DEF Books, BooksOf, RunIs, Pool, PcIs
      <3>5. \A f \in Executor \ {e} :
               run'[f] = run[f] /\ \A j \in Item : task'[f][j] = task[f][j]
        BY <2>14, FinishEffect DEF RunIs, PcIs
      <3> QED BY <1>r, <3>4, <3>5, BooksAt
    <2>15. CASE Manifest(e)
      <3>1. PICK pc : RunIs(e, pc, Worker, {}, "none", FALSE)
        BY <2>15, ManifestEffect
      <3>2. UNCHANGED task
        BY <2>15, ManifestEffect
      <3>3. run[e].pc \notin Pool
        BY <2>15, ManifestEffect DEF Pool
      <3>4. BooksOf(e)'
        BY <3>1, <3>2, <3>3 DEF Books, BooksOf, RunIs
      <3> QED BY <1>r, <3>1, <3>2, <3>4, BooksAt DEF RunIs
    <2>16. CASE FailBatch(e)
      <3>1. PICK pc : RunIs(e, pc, Worker, {}, "none", FALSE)
        BY <2>16, FailBatchEffect
      <3>2. PoolGone(e)
        BY <2>16, FailBatchEffect
      <3>4. BooksOf(e)'
        BY <3>1, <3>2 DEF BooksOf, RunIs, PoolGone
      <3> QED BY <1>r, <3>1, <3>2, <3>4, BooksAt DEF RunIs, PoolGone
    <2> QED
      BY <1>6, <2>1, <2>2, <2>3, <2>4, <2>5, <2>6, <2>7, <2>8, <2>9,
         <2>10, <2>11, <2>12, <2>13, <2>14, <2>15, <2>16 DEF Execute
  <1>7. ASSUME NEW e \in Executor, RunFault(e) PROVE Books'
    <2>4. BooksOf(e)'
      BY <1>7, <1>r, RunFaultEffect DEF Books, BooksOf, RunIs, Pool, PcIs
    <2>5. \A f \in Executor \ {e} :
             run'[f] = run[f] /\ \A j \in Item : task'[f][j] = task[f][j]
      BY <1>7, RunFaultEffect DEF RunIs, PcIs
    <2> QED BY <1>r, <2>4, <2>5, BooksAt
  <1>8. ASSUME NEW e \in Executor, Crash(e) PROVE Books'
    <2>1. PICK pc : RunIs(e, pc, Worker, {}, "none", FALSE)
      BY <1>8, CrashEffect
    <2>2. PoolGone(e)
      BY <1>8, CrashEffect
    <2>4. BooksOf(e)'
      BY <2>1, <2>2 DEF BooksOf, RunIs, PoolGone
    <2> QED BY <1>r, <2>1, <2>2, <2>4, BooksAt DEF RunIs, PoolGone
  <1>9. ASSUME NEW e \in Executor, NEW i \in Item, RunItem(e, i) PROVE Books'
    <2>1. CASE TaskStart(e, i)
      <3>1. \A f \in Executor, j \in Item : task'[f][j] # "none" => task[f][j] # "none"
        BY <2>1, TaskStartEffect DEF TaskIs
      <3>2. UNCHANGED run
        BY <2>1, TaskStartEffect
      <3> QED BY <1>r, <3>1, <3>2, BooksKeep
    <2>2. CASE TaskStore(e, i)
      <3>1. \A f \in Executor, j \in Item : task'[f][j] # "none" => task[f][j] # "none"
        BY <2>2, TaskStoreEffect DEF TaskIs
      <3>2. UNCHANGED run
        BY <2>2, TaskStoreEffect
      <3> QED BY <1>r, <3>1, <3>2, BooksKeep
    <2>3. CASE TaskCount(e, i)
      <3>1. \A f \in Executor, j \in Item : task'[f][j] # "none" => task[f][j] # "none"
        BY <2>3, TaskCountEffect DEF TaskIs
      <3>2. UNCHANGED run
        BY <2>3, TaskCountEffect
      <3> QED BY <1>r, <3>1, <3>2, BooksKeep
    <2>4. CASE TaskWrite(e, i)
      <3>1. \A f \in Executor, j \in Item : task'[f][j] # "none" => task[f][j] # "none"
        BY <2>4, TaskWriteEffect DEF TaskIs
      <3>2. UNCHANGED run
        BY <2>4, TaskWriteEffect
      <3> QED BY <1>r, <3>1, <3>2, BooksKeep
    <2> QED BY <1>9, <2>1, <2>2, <2>3, <2>4 DEF RunItem
  <1>10. ASSUME NEW e \in Executor, NEW i \in Item, TaskFault(e, i) PROVE Books'
    <2>1. \A f \in Executor, j \in Item : task'[f][j] # "none" => task[f][j] # "none"
      BY <1>10, TaskFaultEffect DEF TaskIs
    <2>2. UNCHANGED run
      BY <1>10, TaskFaultEffect
    <2> QED BY <1>r, <2>1, <2>2, BooksKeep
  <1>11. CASE WorkerDies
    <2>w. Worker \in Executor
      BY DEF Executor
    <2>1. PICK pc : RunIs(Worker, pc, Worker, {}, "none", FALSE)
      BY <1>11, WorkerDiesEffect
    <2>2. PoolGone(Worker)
      BY <1>11, WorkerDiesEffect
    <2>4. BooksOf(Worker)'
      BY <2>w, <2>1, <2>2 DEF BooksOf, RunIs, PoolGone
    <2> QED BY <1>r, <2>w, <2>1, <2>2, <2>4, BooksAt DEF RunIs, PoolGone
  <1>12. CASE WorkerStart
    <2>w. Worker \in Executor
      BY DEF Executor
    <2>4. BooksOf(Worker)'
      BY <1>12, <1>r, <2>w, WorkerStartEffect DEF Books, BooksOf, RunIs, Pool, PcIs
    <2>5. \A f \in Executor \ {Worker} :
             run'[f] = run[f] /\ \A j \in Item : task'[f][j] = task[f][j]
      BY <1>12, <2>w, WorkerStartEffect DEF RunIs, PcIs
    <2> QED BY <1>r, <2>w, <2>4, <2>5, BooksAt
  <1>13. CASE UNCHANGED vars
    BY <1>13, BooksKeep DEF vars, rows
  <1> QED
    BY <1>1, <1>2, <1>3, <1>4, <1>5, <1>6, <1>7, <1>8, <1>9, <1>10, <1>11, <1>12,
       <1>13 DEF Next

-----------------------------------------------------------------------------
(* create_batch.                                                           *)

Ready(b) == creator[b] \notin {"none", "items", "mark"}

\* A batch has a row once its creation has begun, and only such a batch is
\* cancelled or run.
Made ==
    /\ \A b \in Batch : status[b] = "absent" <=> creator[b] = "none"
    /\ request # NoRequest => creator[request.batch] # "none"
    /\ \A e \in Executor : run[e].job \in Batch => creator[run[e].job] # "none"

\* The items are created in order, all of them before the recount, and the one to
\* set aside is the last one created.
CreatedOf(b) ==
    /\ creator[b] = "none" => \A i \in ItemsOf(b) : item[i] = "absent"
    /\ Ready(b) => \A i \in ItemsOf(b) : item[i] # "absent"
    /\ \A i, j \in ItemsOf(b) : item[i] # "absent" /\ item[j] = "absent" => i < j
    /\ creator[b] = "mark" =>
         \E m \in ItemsOf(b) \cap Ineligible :
            item[m] # "absent" /\ \A j \in ItemsOf(b) : item[j] # "absent" => j <= m
Created == \A b \in Batch : CreatedOf(b)

\* Only create_batch makes items and moves its own progress.
LEMMA OthersCreateNothing ==
    ASSUME Typed, Books, [Next]_vars, \A b \in Batch : ~Create(b)
    PROVE  UNCHANGED creator /\ \A i \in Item : item'[i] = "absent" <=> item[i] = "absent"
  <1> DEFINE Kept == UNCHANGED creator /\ \A i \in Item : item'[i] = "absent" <=> item[i] = "absent"
  <1>1. ASSUME NEW b \in Batch, Create(b) PROVE Kept
    BY <1>1
  <1>2. ASSUME NEW b \in Batch, CancelRead(b) PROVE Kept
    BY <1>2, CancelReadEffect DEF rows
  <1>3. ASSUME NEW b \in Batch, ViewRead(b) PROVE Kept
    BY <1>3, ViewReadEffect DEF rows
  <1>4. CASE CancelWrite
    BY <1>4, CancelWriteEffect
  <1>5. CASE ViewWrite
    BY <1>5, ViewWriteEffect
  <1>6. ASSUME NEW e \in Executor, Execute(e) PROVE Kept
    <2>1. CASE Claim(e)
      BY <2>1, ClaimEffect DEF rows
    <2>2. CASE ReadFlag(e)
      BY <2>2, ReadFlagEffect DEF rows
    <2>3. CASE Start(e)
      BY <2>3, StartEffect
    <2>4. CASE List(e)
      BY <2>4, ListEffect DEF rows
    <2>5. CASE Check(e)
      BY <2>5, CheckEffect DEF rows
    <2>6. CASE Submit(e)
      BY <2>6, SubmitEffect DEF rows
    <2>7. ASSUME NEW i \in Item, Collect(e, i) PROVE Kept
      BY <2>7, CollectEffect DEF ItemIs, Books, BooksOf
    <2>8. CASE Drained(e)
      BY <2>8, DrainedEffect DEF rows
    <2>9. CASE ListCancel(e)
      BY <2>9, ListCancelEffect DEF rows
    <2>10. CASE CancelItem(e)
      <3>1. CASE run[e].todo = {}
        BY <2>10, <3>1, CancelItemEffect
      <3>2. CASE run[e].todo # {}
        <4>1. PICK j \in run[e].todo : j \in Item /\ ItemIs(j, "cancelled")
          BY <2>10, <3>2, CancelItemEffect
        <4>2. item[j] # "absent"
          BY <4>1 DEF Books, BooksOf
        <4> QED BY <2>10, <4>1, <4>2, CancelItemEffect DEF ItemIs
      <3> QED BY <3>1, <3>2
    <2>11. CASE CountRead(e)
      BY <2>11, CountReadEffect DEF rows
    <2>12. CASE CountWrite(e)
      BY <2>12, CountWriteEffect
    <2>13. CASE Decide(e)
      BY <2>13, DecideEffect DEF rows
    <2>14. CASE Finish(e)
      BY <2>14, FinishEffect
    <2>15. CASE Manifest(e)
      BY <2>15, ManifestEffect DEF rows
    <2>16. CASE FailBatch(e)
      BY <2>16, FailBatchEffect
    <2> QED
      BY <1>6, <2>1, <2>2, <2>3, <2>4, <2>5, <2>6, <2>7, <2>8, <2>9,
         <2>10, <2>11, <2>12, <2>13, <2>14, <2>15, <2>16 DEF Execute
  <1>7. ASSUME NEW e \in Executor, RunFault(e) PROVE Kept
    BY <1>7, RunFaultEffect DEF rows
  <1>8. ASSUME NEW e \in Executor, Crash(e) PROVE Kept
    BY <1>8, CrashEffect DEF rows
  <1>9. ASSUME NEW e \in Executor, NEW i \in Item, RunItem(e, i) PROVE Kept
    <2>1. CASE TaskStart(e, i)
      <3>1. task[e][i] # "none"
        BY <2>1, TaskStartEffect
      <3>2. item[i] # "absent"
        BY <3>1 DEF Books, BooksOf
      <3> QED BY <2>1, <3>2, TaskStartEffect DEF ItemIs
    <2>2. CASE TaskStore(e, i)
      <3>1. task[e][i] # "none"
        BY <2>2, TaskStoreEffect
      <3>2. item[i] # "absent"
        BY <3>1 DEF Books, BooksOf
      <3> QED BY <2>2, <3>2, TaskStoreEffect DEF ItemIs
    <2>3. CASE TaskCount(e, i)
      BY <2>3, TaskCountEffect DEF rows
    <2>4. CASE TaskWrite(e, i)
      BY <2>4, TaskWriteEffect
    <2> QED BY <1>9, <2>1, <2>2, <2>3, <2>4 DEF RunItem
  <1>10. ASSUME NEW e \in Executor, NEW i \in Item, TaskFault(e, i) PROVE Kept
    BY <1>10, TaskFaultEffect DEF rows
  <1>11. CASE WorkerDies
    BY <1>11, WorkerDiesEffect DEF rows
  <1>12. CASE WorkerStart
    BY <1>12, WorkerStartEffect
  <1>13. CASE UNCHANGED vars
    BY <1>13 DEF vars, rows
  <1>14. Kept
    BY <1>1, <1>2, <1>3, <1>4, <1>5, <1>6, <1>7, <1>8, <1>9, <1>10, <1>11, <1>12,
       <1>13 DEF Next
  <1> QED BY <1>14

\* The item create_batch sets aside is not eligible.
LEMMA MarksOneItem ==
    ASSUME Typed, Created, NEW b \in Batch, MarkIneligible(b)
    PROVE  \E m \in ItemsOf(b) \cap Ineligible :
             /\ item[m] # "absent" /\ ItemIs(m, "pending")
             /\ creator[b] = "mark" /\ CreatorIs(b, "items")
             /\ UNCHANGED <<status, cancelReq, bad, run, task, request, page, history>>
  <1>1. creator[b] = "mark"
    BY DEF MarkIneligible, Creator
  <1>2. PICK m \in ItemsOf(b) \cap Ineligible :
            item[m] # "absent" /\ \A j \in ItemsOf(b) : item[j] # "absent" => j <= m
    BY <1>1 DEF Created, CreatedOf
  <1>3. m \in ItemsOf(b)
    BY <1>2
  <1> QED BY <1>2, <1>3, MarkIneligibleEffect

\* Items are created in order in every step.
LEMMA CreatedStep ==
    ASSUME Typed, Books, Created, [Next]_vars
    PROVE  Created'
  <1> SUFFICES ASSUME NEW c \in Batch PROVE CreatedOf(c)'
    BY DEF Created
  <1>n. ItemsOf(c) \subseteq Item /\ ItemsOf(c) \subseteq Nat
    BY ItemAssumption DEF ItemsOf
  <1>o. CreatedOf(c)
    BY DEF Created
  <1>k. ASSUME creator'[c] = creator[c],
               \A i \in ItemsOf(c) : item'[i] = "absent" <=> item[i] = "absent"
        PROVE  CreatedOf(c)'
    BY <1>k, <1>o DEF CreatedOf, Ready, ItemsOf
  <1>1. CASE \A b \in Batch : ~Create(b)
    BY <1>1, <1>k, <1>n, OthersCreateNothing
  <1>2. ASSUME NEW b \in Batch, Create(b) PROVE CreatedOf(c)'
    <2>1. CASE InsertBatch(b)
      <3>1. /\ creator[b] = "none" /\ CreatorIs(b, "items") /\ UNCHANGED item
        BY <2>1, InsertBatchEffect
      <3>2. CASE c = b
        BY <3>1, <3>2, <1>o DEF CreatedOf, CreatorIs, Ready, ItemsOf
      <3>3. CASE c # b
        BY <3>1, <3>3, <1>k DEF CreatorIs
      <3> QED BY <3>2, <3>3
    <2>2. CASE CreateItem(b)
      <3>1. PICK i \in Missing(b) :
              /\ \A j \in Missing(b) : i <= j
              /\ ItemIs(i, "queued")
              /\ creator[b] = "items"
              /\ CreatorIs(b, IF i \in Ineligible /\ b \notin Single THEN "mark" ELSE "items")
        BY <2>2, CreateItemEffect
      <3>2. i \in ItemsOf(b) /\ i \in Item /\ item[i] = "absent" /\ BatchOf[i] = b
        BY <3>1 DEF Missing, ItemsOf
      <3>3. CASE c # b
        <4>1. \A j \in ItemsOf(c) : j \in Item /\ j # i
          BY <3>2, <3>3 DEF ItemsOf
        <4> QED BY <3>1, <3>3, <4>1, <1>k DEF CreatorIs, ItemIs
      <3>4. CASE c = b
        <4>1. \A j \in ItemsOf(c) : item'[j] # "absent" <=> item[j] # "absent" \/ j = i
          BY <3>1, <3>2, <1>n DEF ItemIs
        <4>2. \A j \in ItemsOf(c) : item[j] = "absent" => i <= j
          BY <3>1, <3>4 DEF Missing
        <4>3. \A j \in ItemsOf(c) : item[j] # "absent" => j < i
          BY <3>2, <3>4, <1>o DEF CreatedOf
        <4>4. \A j, k \in ItemsOf(c) : item'[j] # "absent" /\ item'[k] = "absent" => j < k
          BY <4>1, <4>2, <1>n, <1>o DEF CreatedOf
        <4>5. creator'[c] \in {"items", "mark"} /\ (creator'[c] = "mark" => i \in Ineligible)
          BY <3>1, <3>4 DEF CreatorIs
        <4>6. i \in ItemsOf(c) /\ item'[i] # "absent"
              /\ \A j \in ItemsOf(c) : item'[j] # "absent" => j <= i
          BY <3>2, <3>4, <4>1, <4>3, <1>n
        <4> QED BY <4>4, <4>5, <4>6 DEF CreatedOf, Ready, ItemsOf
      <3> QED BY <3>3, <3>4
    <2>3. CASE MarkIneligible(b)
      <3>1. PICK m \in ItemsOf(b) \cap Ineligible :
              /\ item[m] # "absent" /\ ItemIs(m, "pending")
              /\ creator[b] = "mark" /\ CreatorIs(b, "items")
        BY <2>3, MarksOneItem
      <3>2. \A i \in Item : item'[i] = "absent" <=> item[i] = "absent"
        BY <3>1 DEF ItemIs
      <3>3. CASE c = b
        BY <3>1, <3>2, <3>3, <1>n, <1>o DEF CreatedOf, CreatorIs, Ready, ItemsOf
      <3>4. CASE c # b
        BY <3>1, <3>2, <3>4, <1>n, <1>k DEF CreatorIs
      <3> QED BY <3>3, <3>4
    <2>4. CASE CreatorCount(b)
      <3>1. /\ creator[b] = "items" /\ Missing(b) = {} /\ UNCHANGED item
            /\ CreatorIs(b, IF HasBad(b) THEN "sawBad" ELSE "sawClean")
        BY <2>4, CreatorCountEffect DEF rows
      <3>2. CASE c = b
        <4>1. \A i \in ItemsOf(c) : item'[i] # "absent"
          BY <3>1, <3>2 DEF Missing
        <4>2. creator'[c] \notin {"none", "mark"}
          BY <3>1, <3>2 DEF CreatorIs
        <4> QED BY <4>1, <4>2 DEF CreatedOf, ItemsOf
      <3>3. CASE c # b
        BY <3>1, <3>3, <1>k DEF CreatorIs
      <3> QED BY <3>2, <3>3
    <2>5. CASE CreatorWrite(b)
      <3>1. Ready(b) /\ CreatorIs(b, "counted") /\ UNCHANGED item
        BY <2>5, CreatorWriteEffect DEF Ready
      <3>2. CASE c = b
        BY <3>1, <3>2, <1>o DEF CreatedOf, CreatorIs, Ready, ItemsOf
      <3>3. CASE c # b
        BY <3>1, <3>3, <1>k DEF CreatorIs
      <3> QED BY <3>2, <3>3
    <2>6. CASE Enqueue(b)
      <3>1. Ready(b) /\ (CreatorIs(b, "done") \/ CreatorIs(b, "refused")) /\ UNCHANGED item
        BY <2>6, EnqueueEffect DEF Ready, rows
      <3>2. CASE c = b
        BY <3>1, <3>2, <1>o DEF CreatedOf, CreatorIs, Ready, ItemsOf
      <3>3. CASE c # b
        BY <3>1, <3>3, <1>k DEF CreatorIs
      <3> QED BY <3>2, <3>3
    <2> QED BY <1>2, <2>1, <2>2, <2>3, <2>4, <2>5, <2>6 DEF Create
  <1> QED BY <1>1, <1>2

\* What neither writes a status nor takes a batch keeps the rows and their creation
\* in line.
LEMMA MadeKeep ==
    ASSUME Made, UNCHANGED <<status, creator, request>>,
           \A f \in Executor : run'[f].job = run[f].job \/ run'[f].job = Worker
    PROVE  Made'
  BY SingleAssumption DEF Made

\* A creation that moves on keeps them in line too.
LEMMA MadeCreate ==
    ASSUME Typed, Made, NEW b \in Batch, NEW to, to # "none", CreatorIs(b, to),
           UNCHANGED <<run, request>>,
           \A c \in Batch : c # b => status'[c] = status[c],
           status'[b] # "absent"
    PROVE  Made'
  <1>1. \A c \in Batch : creator[c] # "none" => creator'[c] # "none"
    BY DEF CreatorIs
  <1>2. request # NoRequest => request.batch \in Batch
    BY DEF Typed, Held
  <1>3. \A c \in Batch : status'[c] = "absent" <=> creator'[c] = "none"
    BY DEF CreatorIs, Made
  <1> QED BY <1>1, <1>2, <1>3 DEF Made

\* Every step keeps the rows and their creation in line.
LEMMA MadeStep ==
    ASSUME Typed, Made, [Next]_vars
    PROVE  Made'
  <1>1. ASSUME NEW b \in Batch, Create(b) PROVE Made'
    <2>1. CASE InsertBatch(b)
      BY <2>1, InsertBatchEffect, MadeCreate DEF StatusIs
    <2>2. CASE CreateItem(b)
      <3>1. PICK to \in CreatorStage : to # "none" /\ CreatorIs(b, to)
        BY <2>2, CreateItemEffect DEF CreatorStage
      <3>2. creator[b] # "none" /\ UNCHANGED <<status, run, request>>
        BY <2>2, CreateItemEffect
      <3>3. status[b] # "absent"
        BY <3>2 DEF Made
      <3> QED BY <3>1, <3>2, <3>3, MadeCreate
    <2>3. CASE MarkIneligible(b)
      <3>1. creator[b] = "mark" /\ CreatorIs(b, "items") /\ UNCHANGED <<status, run, request>>
        BY <2>3 DEF MarkIneligible, Creator, CreatorIs, CreatorStage, Typed, Columns
      <3>3. status[b] # "absent"
        BY <3>1 DEF Made
      <3> QED BY <3>1, <3>3, MadeCreate
    <2>4. CASE CreatorCount(b)
      <3>1. PICK to \in CreatorStage : to # "none" /\ CreatorIs(b, to)
        BY <2>4, CreatorCountEffect DEF CreatorStage
      <3>2. creator[b] # "none" /\ UNCHANGED <<status, run, request>>
        BY <2>4, CreatorCountEffect DEF rows
      <3>3. status[b] # "absent"
        BY <3>2 DEF Made
      <3> QED BY <3>1, <3>2, <3>3, MadeCreate
    <2>5. CASE CreatorWrite(b)
      <3>1. PICK to \in CreatorStage : to # "none" /\ CreatorIs(b, to)
        BY <2>5, CreatorWriteEffect DEF CreatorStage
      <3>2. creator[b] # "none" /\ UNCHANGED <<status, run, request>>
        BY <2>5, CreatorWriteEffect
      <3>3. status[b] # "absent"
        BY <3>2 DEF Made
      <3> QED BY <3>1, <3>2, <3>3, MadeCreate
    <2>6. CASE Enqueue(b)
      <3>1. PICK to \in CreatorStage : to # "none" /\ CreatorIs(b, to)
        BY <2>6, EnqueueEffect DEF CreatorStage
      <3>2. creator[b] # "none" /\ UNCHANGED <<status, run, request>>
        BY <2>6, EnqueueEffect DEF rows
      <3>3. status[b] # "absent"
        BY <3>2 DEF Made
      <3> QED BY <3>1, <3>2, <3>3, MadeCreate
    <2> QED BY <1>1, <2>1, <2>2, <2>3, <2>4, <2>5, <2>6 DEF Create
  <1>2. ASSUME NEW b \in Batch, CancelRead(b) PROVE Made'
    BY <1>2, CancelReadEffect DEF Made, rows
  <1>3. ASSUME NEW b \in Batch, ViewRead(b) PROVE Made'
    BY <1>3, ViewReadEffect, MadeKeep DEF rows
  <1>4. CASE CancelWrite
    <2>1. /\ request \in [batch : Batch, status : {"cancelling"} \cup Terminal]
          /\ request' = NoRequest /\ StatusIs(request.batch, request.status)
          /\ UNCHANGED <<creator, run>>
      BY <1>4, CancelWriteEffect
    <2>2. /\ request # NoRequest /\ request.status # "absent" /\ request.batch \in Batch
      BY <2>1 DEF NoRequest, Terminal
    <2> QED BY <2>1, <2>2 DEF Made, StatusIs
  <1>5. CASE ViewWrite
    BY <1>5, ViewWriteEffect, MadeKeep DEF rows
  <1>6. ASSUME NEW e \in Executor, Execute(e) PROVE Made'
    <2>1. CASE Claim(e)
      <3>1. PICK b \in Batch :
               /\ e = Worker => status[b] \in Waiting
               /\ e # Worker => b = e /\ creator[b] = "done"
               /\ RunIs(e, "flag", b, {}, "none", FALSE)
        BY <2>1, ClaimEffect
      <3>2. creator[b] # "none"
        BY <3>1 DEF Made, Waiting
      <3>3. UNCHANGED <<status, creator, request>>
        BY <2>1, ClaimEffect DEF rows
      <3> QED BY <3>1, <3>2, <3>3 DEF Made, RunIs
    <2>2. CASE ReadFlag(e)
      <3>1. \A f \in Executor : run'[f].job = run[f].job \/ run'[f].job = Worker
        BY <2>2, ReadFlagEffect DEF RunIs, PcIs
      <3> QED BY <2>2, <3>1, ReadFlagEffect, MadeKeep DEF rows
    <2>3. CASE Start(e)
      <3>1. run[e].job \in Batch
        BY <2>3, StartEffect DEF Typed, Steady, Free
      <3>2. "running" # "absent"
        BY DEF Typed, Columns, RunRow, Verdicts
      <3>3. StatusIs(run[e].job, "running") /\ UNCHANGED <<creator, request>>
        BY <2>3, StartEffect
      <3>4. \A f \in Executor : run'[f].job = run[f].job \/ run'[f].job = Worker
        BY <2>3, StartEffect DEF RunIs, PcIs
      <3> QED BY SingleAssumption, <3>1, <3>2, <3>3, <3>4 DEF Made, StatusIs
    <2>4. CASE List(e)
      <3>1. \A f \in Executor : run'[f].job = run[f].job \/ run'[f].job = Worker
        BY <2>4, ListEffect DEF RunIs, PcIs
      <3> QED BY <2>4, <3>1, ListEffect, MadeKeep DEF rows
    <2>5. CASE Check(e)
      <3>1. \A f \in Executor : run'[f].job = run[f].job \/ run'[f].job = Worker
        BY <2>5, CheckEffect DEF RunIs, PcIs
      <3> QED BY <2>5, <3>1, CheckEffect, MadeKeep DEF rows
    <2>6. CASE Submit(e)
      <3>1. \A f \in Executor : run'[f].job = run[f].job \/ run'[f].job = Worker
        BY <2>6, SubmitEffect DEF RunIs, PcIs
      <3> QED BY <2>6, <3>1, SubmitEffect, MadeKeep DEF rows
    <2>7. ASSUME NEW i \in Item, Collect(e, i) PROVE Made'
      <3>1. \A f \in Executor : run'[f].job = run[f].job \/ run'[f].job = Worker
        BY <2>7, CollectEffect DEF RunIs, PcIs
      <3> QED BY <2>7, <3>1, CollectEffect, MadeKeep DEF rows
    <2>8. CASE Drained(e)
      <3>1. \A f \in Executor : run'[f].job = run[f].job \/ run'[f].job = Worker
        BY <2>8, DrainedEffect DEF RunIs, PcIs
      <3> QED BY <2>8, <3>1, DrainedEffect, MadeKeep DEF rows
    <2>9. CASE ListCancel(e)
      <3>1. \A f \in Executor : run'[f].job = run[f].job \/ run'[f].job = Worker
        BY <2>9, ListCancelEffect DEF RunIs, PcIs
      <3> QED BY <2>9, <3>1, ListCancelEffect, MadeKeep DEF rows
    <2>10. CASE CancelItem(e)
      <3>1. \A f \in Executor : run'[f].job = run[f].job \/ run'[f].job = Worker
        BY <2>10, CancelItemEffect DEF RunIs, PcIs
      <3> QED BY <2>10, <3>1, CancelItemEffect, MadeKeep DEF rows
    <2>11. CASE CountRead(e)
      <3>1. \A f \in Executor : run'[f].job = run[f].job \/ run'[f].job = Worker
        BY <2>11, CountReadEffect DEF RunIs, PcIs
      <3> QED BY <2>11, <3>1, CountReadEffect, MadeKeep DEF rows
    <2>12. CASE CountWrite(e)
      <3>1. \A f \in Executor : run'[f].job = run[f].job \/ run'[f].job = Worker
        BY <2>12, CountWriteEffect DEF RunIs, PcIs
      <3> QED BY <2>12, <3>1, CountWriteEffect, MadeKeep DEF rows
    <2>13. CASE Decide(e)
      <3>1. \A f \in Executor : run'[f].job = run[f].job \/ run'[f].job = Worker
        BY <2>13, DecideEffect DEF RunIs, PcIs
      <3> QED BY <2>13, <3>1, DecideEffect, MadeKeep DEF rows
    <2>14. CASE Finish(e)
      <3>1. run[e].job \in Batch
        BY <2>14, FinishEffect DEF Typed, Steady, Free
      <3>2. run[e].verdict # "absent"
        BY DEF Typed, Columns, RunRow, Verdicts
      <3>3. StatusIs(run[e].job, run[e].verdict) /\ UNCHANGED <<creator, request>>
        BY <2>14, FinishEffect
      <3>4. \A f \in Executor : run'[f].job = run[f].job \/ run'[f].job = Worker
        BY <2>14, FinishEffect DEF RunIs, PcIs
      <3> QED BY SingleAssumption, <3>1, <3>2, <3>3, <3>4 DEF Made, StatusIs
    <2>15. CASE Manifest(e)
      <3>1. \A f \in Executor : run'[f].job = run[f].job \/ run'[f].job = Worker
        BY <2>15, ManifestEffect DEF RunIs, PcIs
      <3> QED BY <2>15, <3>1, ManifestEffect, MadeKeep DEF rows
    <2>16. CASE FailBatch(e)
      <3>1. run[e].job \in Batch
        BY <2>16, FailBatchEffect DEF Typed, Steady, Free
      <3>2. "failed" # "absent"
        BY DEF Typed, Columns, RunRow, Verdicts
      <3>3. StatusIs(run[e].job, "failed") /\ UNCHANGED <<creator, request>>
        BY <2>16, FailBatchEffect
      <3>4. \A f \in Executor : run'[f].job = run[f].job \/ run'[f].job = Worker
        BY <2>16, FailBatchEffect DEF RunIs, PcIs
      <3> QED BY SingleAssumption, <3>1, <3>2, <3>3, <3>4 DEF Made, StatusIs
    <2> QED
      BY <1>6, <2>1, <2>2, <2>3, <2>4, <2>5, <2>6, <2>7, <2>8, <2>9,
         <2>10, <2>11, <2>12, <2>13, <2>14, <2>15, <2>16 DEF Execute
  <1>7. ASSUME NEW e \in Executor, RunFault(e) PROVE Made'
    <2>1. \A f \in Executor : run'[f].job = run[f].job \/ run'[f].job = Worker
      BY <1>7, RunFaultEffect DEF RunIs, PcIs
    <2> QED BY <1>7, <2>1, RunFaultEffect, MadeKeep DEF rows
  <1>8. ASSUME NEW e \in Executor, Crash(e) PROVE Made'
    <2>1. \A f \in Executor : run'[f].job = run[f].job \/ run'[f].job = Worker
      BY <1>8, CrashEffect DEF RunIs, PcIs
    <2> QED BY <1>8, <2>1, CrashEffect, MadeKeep DEF rows
  <1>9. ASSUME NEW e \in Executor, NEW i \in Item, RunItem(e, i) PROVE Made'
    <2>1. CASE TaskStart(e, i)
      BY <2>1, TaskStartEffect, MadeKeep DEF rows
    <2>2. CASE TaskStore(e, i)
      BY <2>2, TaskStoreEffect, MadeKeep DEF rows
    <2>3. CASE TaskCount(e, i)
      BY <2>3, TaskCountEffect, MadeKeep DEF rows
    <2>4. CASE TaskWrite(e, i)
      BY <2>4, TaskWriteEffect, MadeKeep DEF rows
    <2> QED BY <1>9, <2>1, <2>2, <2>3, <2>4 DEF RunItem
  <1>10. ASSUME NEW e \in Executor, NEW i \in Item, TaskFault(e, i) PROVE Made'
    BY <1>10, TaskFaultEffect, MadeKeep DEF rows
  <1>11. CASE WorkerDies
    <2>1. \A f \in Executor : run'[f].job = run[f].job \/ run'[f].job = Worker
      BY <1>11, WorkerDiesEffect DEF RunIs, PcIs
    <2> QED BY <1>11, <2>1, WorkerDiesEffect, MadeKeep DEF rows
  <1>12. CASE WorkerStart
    <2>1. \A f \in Executor : run'[f].job = run[f].job
      BY <1>12, WorkerStartEffect DEF RunIs, PcIs
    <2>2. \A b \in Batch : status'[b] = "absent" <=> status[b] = "absent"
      BY <1>12, WorkerStartEffect DEF Interrupted
    <2> QED BY <1>12, <2>1, <2>2, WorkerStartEffect DEF Made
  <1>13. CASE UNCHANGED vars
    BY <1>13, MadeKeep DEF vars, rows
  <1> QED
    BY <1>1, <1>2, <1>3, <1>4, <1>5, <1>6, <1>7, <1>8, <1>9, <1>10, <1>11, <1>12,
       <1>13 DEF Next

-----------------------------------------------------------------------------
(* What is listed of a batch that is complete is all of it.                *)

Listed == {"fill", "fillPut", "refill", "refillPut", "drain", "count", "countWrite",
           "decide", "cancelItem", "recount", "recountWrite", "finish"}

Holds(e, i) == i \in run[e].todo \/ task[e][i] # "none"

\* An execution that has listed the items of a batch, or still holds some of them,
\* met it complete unless the batch is noted as early.
ListedReady ==
    \A e \in Executor :
        /\ run[e].job \in Batch \ early
        /\ run[e].pc \in Listed \/ \E i \in Item : Holds(e, i)
        => Ready(run[e].job)

\* Creation is never undone.
LEMMA ReadyStays ==
    ASSUME Typed, Books, [Next]_vars, NEW b \in Batch, Ready(b)
    PROVE  Ready(b)'
  <1>1. CASE \A c \in Batch : ~Create(c)
    BY <1>1, OthersCreateNothing DEF Ready
  <1>2. ASSUME NEW c \in Batch, Create(c)
        PROVE  creator'[b] \notin {"none", "items", "mark"}
    <2> USE DEF Ready, CreatorIs
    <2>1. CASE InsertBatch(c)
      BY <2>1, InsertBatchEffect
    <2>2. CASE CreateItem(c)
      BY <2>2, CreateItemEffect
    <2>3. CASE MarkIneligible(c)
      BY <2>3 DEF MarkIneligible, Creator, Typed, Columns
    <2>4. CASE CreatorCount(c)
      BY <2>4, CreatorCountEffect
    <2>5. CASE CreatorWrite(c)
      BY <2>5, CreatorWriteEffect
    <2>6. CASE Enqueue(c)
      BY <2>6, EnqueueEffect
    <2> QED BY <1>2, <2>1, <2>2, <2>3, <2>4, <2>5, <2>6 DEF Create
  <1> QED BY <1>1, <1>2 DEF Ready

\* What lists nothing and puts nothing into a pool keeps what has been listed complete.
LEMMA ReadyKeep ==
    ASSUME ListedReady, \A b \in Batch : Ready(b) => Ready(b)', early \subseteq early',
           \A f \in Executor :
              \/ run'[f].job = Worker
              \/ /\ run'[f].job = run[f].job /\ (run'[f].pc \in Listed => run[f].pc \in Listed)
                 /\ \A j \in Item : Holds(f, j)' => Holds(f, j) \/ run[f].pc \in Listed
    PROVE  ListedReady'
  BY SingleAssumption DEF ListedReady

\* Every step keeps what has been listed complete.
LEMMA ListedReadyStep ==
    ASSUME Typed, Books, Made, ListedReady, [Next]_vars
    PROVE  ListedReady'
  <1>r. \A b \in Batch : Ready(b) => Ready(b)'
    BY ReadyStays
  <1>1. ASSUME NEW b \in Batch, Create(b) PROVE ListedReady'
    <2>1. CASE InsertBatch(b)
      BY <2>1, <1>r, InsertBatchEffect, ReadyKeep DEF Holds, rows, history
    <2>2. CASE CreateItem(b)
      BY <2>2, <1>r, CreateItemEffect, ReadyKeep DEF Holds, rows, history
    <2>3. CASE MarkIneligible(b)
      <3>1. UNCHANGED <<run, task, early>>
        BY <2>3 DEF MarkIneligible, history
      <3> QED BY <1>r, <3>1, ReadyKeep DEF Holds
    <2>4. CASE CreatorCount(b)
      BY <2>4, <1>r, CreatorCountEffect, ReadyKeep DEF Holds, rows, history
    <2>5. CASE CreatorWrite(b)
      BY <2>5, <1>r, CreatorWriteEffect, ReadyKeep DEF Holds, rows, history
    <2>6. CASE Enqueue(b)
      BY <2>6, <1>r, EnqueueEffect, ReadyKeep DEF Holds, rows, history
    <2> QED BY <1>1, <2>1, <2>2, <2>3, <2>4, <2>5, <2>6 DEF Create
  <1>2. ASSUME NEW b \in Batch, CancelRead(b) PROVE ListedReady'
    BY <1>2, <1>r, CancelReadEffect, ReadyKeep DEF Holds, rows, history
  <1>3. ASSUME NEW b \in Batch, ViewRead(b) PROVE ListedReady'
    BY <1>3, <1>r, ViewReadEffect, ReadyKeep DEF Holds, rows, history
  <1>4. CASE CancelWrite
    BY <1>4, <1>r, CancelWriteEffect, ReadyKeep DEF Holds, rows, history
  <1>5. CASE ViewWrite
    BY <1>5, <1>r, ViewWriteEffect, ReadyKeep DEF Holds, rows, history
  <1>6. ASSUME NEW e \in Executor, Execute(e) PROVE ListedReady'
    <2>1. CASE Claim(e)
      <3>1. PICK b \in Batch :
               /\ e = Worker => status[b] \in Waiting
               /\ e # Worker => b = e /\ creator[b] = "done"
               /\ RunIs(e, "flag", b, {}, "none", FALSE)
        BY <2>1, ClaimEffect
      <3>2. run[e].pc = "idle" /\ UNCHANGED <<task, early>>
        BY <2>1, ClaimEffect DEF history
      <3>3. \A i \in Item : task'[e][i] = "none"
        BY <3>2 DEF Books, BooksOf, Pool
      <3>4. ListedReady'
        BY <1>r, <3>1, <3>2, <3>3 DEF ListedReady, Holds, RunIs, Listed
      <3> QED BY <3>4
    <2>2. CASE ReadFlag(e)
      <3>1. \A f \in Executor :
               /\ run'[f].job = run[f].job /\ (run'[f].pc \in Listed => run[f].pc \in Listed)
               /\ \A j \in Item : Holds(f, j)' => Holds(f, j) \/ run[f].pc \in Listed
        BY <2>2, ReadFlagEffect DEF Holds, RunIs, PcIs, Listed
      <3>2. UNCHANGED early
        BY <2>2, ReadFlagEffect DEF history
      <3> QED BY <1>r, <3>1, <3>2, ReadyKeep DEF Holds
    <2>3. CASE Start(e)
      <3>1. \A f \in Executor :
               /\ run'[f].job = run[f].job /\ (run'[f].pc \in Listed => run[f].pc \in Listed)
               /\ \A j \in Item : Holds(f, j)' => Holds(f, j) \/ run[f].pc \in Listed
        BY <2>3, StartEffect DEF Holds, RunIs, PcIs, Listed
      <3>2. UNCHANGED early
        BY <2>3, StartEffect DEF history
      <3> QED BY <1>r, <3>1, <3>2, ReadyKeep DEF Holds
    <2>4. CASE List(e)
      <3>1. /\ \A f \in Executor \ {e} : run'[f] = run[f]
            /\ run'[e].job = run[e].job /\ Listing(run[e].job) /\ UNCHANGED <<creator, task>>
        BY <2>4, ListEffect DEF RunIs
      <3>2. run[e].job \in Batch
        BY <2>4, ListEffect DEF Typed, Steady, Free
      <3>3. early \subseteq early' /\ (run[e].job \notin early' => Ready(run[e].job))
        BY <3>1, <3>2 DEF Made, Listing, Ready
      <3> QED BY <1>r, <3>1, <3>3 DEF ListedReady, Holds
    <2>5. CASE Check(e)
      <3>1. \A f \in Executor :
               /\ run'[f].job = run[f].job /\ (run'[f].pc \in Listed => run[f].pc \in Listed)
               /\ \A j \in Item : Holds(f, j)' => Holds(f, j) \/ run[f].pc \in Listed
        BY <2>5, CheckEffect DEF Holds, RunIs, PcIs, Listed
      <3>2. UNCHANGED early
        BY <2>5, CheckEffect DEF history
      <3> QED BY <1>r, <3>1, <3>2, ReadyKeep DEF Holds
    <2>6. CASE Submit(e)
      <3>1. \A f \in Executor :
               /\ run'[f].job = run[f].job /\ (run'[f].pc \in Listed => run[f].pc \in Listed)
               /\ \A j \in Item : Holds(f, j)' => Holds(f, j) \/ run[f].pc \in Listed
        BY <2>6, SubmitEffect DEF Holds, RunIs, PcIs, Listed, TaskIs, Putting
      <3>2. UNCHANGED early
        BY <2>6, SubmitEffect DEF history
      <3> QED BY <1>r, <3>1, <3>2, ReadyKeep DEF Holds
    <2>7. ASSUME NEW i \in Item, Collect(e, i) PROVE ListedReady'
      <3>1. \A f \in Executor :
               /\ run'[f].job = run[f].job /\ (run'[f].pc \in Listed => run[f].pc \in Listed)
               /\ \A j \in Item : Holds(f, j)' => Holds(f, j) \/ run[f].pc \in Listed
        BY <2>7, CollectEffect DEF Holds, RunIs, PcIs, Listed, TaskIs, Putting
      <3>2. UNCHANGED early
        BY <2>7, CollectEffect DEF history
      <3> QED BY <1>r, <3>1, <3>2, ReadyKeep DEF Holds
    <2>8. CASE Drained(e)
      <3>1. \A f \in Executor :
               /\ run'[f].job = run[f].job /\ (run'[f].pc \in Listed => run[f].pc \in Listed)
               /\ \A j \in Item : Holds(f, j)' => Holds(f, j) \/ run[f].pc \in Listed
        BY <2>8, DrainedEffect DEF Holds, RunIs, PcIs, Listed
      <3>2. UNCHANGED early
        BY <2>8, DrainedEffect DEF history
      <3> QED BY <1>r, <3>1, <3>2, ReadyKeep DEF Holds
    <2>9. CASE ListCancel(e)
      <3>1. /\ \A f \in Executor \ {e} : run'[f] = run[f]
            /\ run'[e].job = run[e].job /\ Listing(run[e].job) /\ UNCHANGED <<creator, task>>
        BY <2>9, ListCancelEffect DEF RunIs
      <3>2. run[e].job \in Batch
        BY <2>9, ListCancelEffect DEF Typed, Steady, Free
      <3>3. early \subseteq early' /\ (run[e].job \notin early' => Ready(run[e].job))
        BY <3>1, <3>2 DEF Made, Listing, Ready
      <3> QED BY <1>r, <3>1, <3>3 DEF ListedReady, Holds
    <2>10. CASE CancelItem(e)
      <3>1. \A f \in Executor :
               /\ run'[f].job = run[f].job /\ (run'[f].pc \in Listed => run[f].pc \in Listed)
               /\ \A j \in Item : Holds(f, j)' => Holds(f, j) \/ run[f].pc \in Listed
        BY <2>10, CancelItemEffect DEF Holds, RunIs, PcIs, Listed
      <3>2. UNCHANGED early
        BY <2>10, CancelItemEffect DEF history
      <3> QED BY <1>r, <3>1, <3>2, ReadyKeep DEF Holds
    <2>11. CASE CountRead(e)
      <3>1. \A f \in Executor :
               /\ run'[f].job = run[f].job /\ (run'[f].pc \in Listed => run[f].pc \in Listed)
               /\ \A j \in Item : Holds(f, j)' => Holds(f, j) \/ run[f].pc \in Listed
        BY <2>11, CountReadEffect DEF Holds, RunIs, PcIs, Listed
      <3>2. UNCHANGED early
        BY <2>11, CountReadEffect DEF history
      <3> QED BY <1>r, <3>1, <3>2, ReadyKeep DEF Holds
    <2>12. CASE CountWrite(e)
      <3>1. \A f \in Executor :
               /\ run'[f].job = run[f].job /\ (run'[f].pc \in Listed => run[f].pc \in Listed)
               /\ \A j \in Item : Holds(f, j)' => Holds(f, j) \/ run[f].pc \in Listed
        BY <2>12, CountWriteEffect DEF Holds, RunIs, PcIs, Listed
      <3>2. UNCHANGED early
        BY <2>12, CountWriteEffect DEF history
      <3> QED BY <1>r, <3>1, <3>2, ReadyKeep DEF Holds
    <2>13. CASE Decide(e)
      <3>1. \A f \in Executor :
               /\ run'[f].job = run[f].job /\ (run'[f].pc \in Listed => run[f].pc \in Listed)
               /\ \A j \in Item : Holds(f, j)' => Holds(f, j) \/ run[f].pc \in Listed
        BY <2>13, DecideEffect DEF Holds, RunIs, PcIs, Listed
      <3>2. UNCHANGED early
        BY <2>13, DecideEffect DEF history
      <3> QED BY <1>r, <3>1, <3>2, ReadyKeep DEF Holds
    <2>14. CASE Finish(e)
      <3>1. \A f \in Executor :
               /\ run'[f].job = run[f].job /\ (run'[f].pc \in Listed => run[f].pc \in Listed)
               /\ \A j \in Item : Holds(f, j)' => Holds(f, j) \/ run[f].pc \in Listed
        BY <2>14, FinishEffect DEF Holds, RunIs, PcIs, Listed
      <3>2. UNCHANGED early
        BY <2>14, FinishEffect DEF history
      <3> QED BY <1>r, <3>1, <3>2, ReadyKeep DEF Holds
    <2>15. CASE Manifest(e)
      <3>1. /\ run'[e].job = Worker
            /\ \A f \in Executor \ {e} : run'[f] = run[f] /\ \A j \in Item : task'[f][j] = task[f][j]
        BY <2>15, ManifestEffect DEF RunIs, PoolGone
      <3>2. UNCHANGED early
        BY <2>15, ManifestEffect DEF history
      <3> QED BY <1>r, <3>1, <3>2, ReadyKeep DEF Holds
    <2>16. CASE FailBatch(e)
      <3>1. /\ run'[e].job = Worker
            /\ \A f \in Executor \ {e} : run'[f] = run[f] /\ \A j \in Item : task'[f][j] = task[f][j]
        BY <2>16, FailBatchEffect DEF RunIs, PoolGone
      <3>2. UNCHANGED early
        BY <2>16, FailBatchEffect DEF history
      <3> QED BY <1>r, <3>1, <3>2, ReadyKeep DEF Holds
    <2> QED
      BY <1>6, <2>1, <2>2, <2>3, <2>4, <2>5, <2>6, <2>7, <2>8, <2>9,
         <2>10, <2>11, <2>12, <2>13, <2>14, <2>15, <2>16 DEF Execute
  <1>7. ASSUME NEW e \in Executor, RunFault(e) PROVE ListedReady'
    <2>1. \A f \in Executor :
             /\ run'[f].job = run[f].job /\ (run'[f].pc \in Listed => run[f].pc \in Listed)
             /\ \A j \in Item : Holds(f, j)' => Holds(f, j) \/ run[f].pc \in Listed
      BY <1>7, RunFaultEffect DEF Holds, RunIs, PcIs, Listed
    <2>2. UNCHANGED early
      BY <1>7, RunFaultEffect DEF history
    <2> QED BY <1>r, <2>1, <2>2, ReadyKeep DEF Holds
  <1>8. ASSUME NEW e \in Executor, Crash(e) PROVE ListedReady'
    <2>p. PICK pc : RunIs(e, pc, Worker, {}, "none", FALSE)
      BY <1>8, CrashEffect
    <2>q. PoolGone(e)
      BY <1>8, CrashEffect
    <2>1. /\ run'[e].job = Worker
          /\ \A f \in Executor \ {e} : run'[f] = run[f] /\ \A j \in Item : task'[f][j] = task[f][j]
      BY <2>p, <2>q DEF RunIs, PoolGone
    <2>2. UNCHANGED early
      BY <1>8, CrashEffect DEF history
    <2> QED BY <1>r, <2>1, <2>2, ReadyKeep DEF Holds
  <1>9. ASSUME NEW e \in Executor, NEW i \in Item, RunItem(e, i) PROVE ListedReady'
    <2>1. CASE TaskStart(e, i)
      <3>1. \A f \in Executor, j \in Item : task'[f][j] # "none" => task[f][j] # "none"
        BY <2>1, TaskStartEffect DEF TaskIs
      <3> QED BY <2>1, <1>r, <3>1, TaskStartEffect, ReadyKeep DEF Holds, history
    <2>2. CASE TaskStore(e, i)
      <3>1. \A f \in Executor, j \in Item : task'[f][j] # "none" => task[f][j] # "none"
        BY <2>2, TaskStoreEffect DEF TaskIs
      <3> QED BY <2>2, <1>r, <3>1, TaskStoreEffect, ReadyKeep DEF Holds, history
    <2>3. CASE TaskCount(e, i)
      <3>1. \A f \in Executor, j \in Item : task'[f][j] # "none" => task[f][j] # "none"
        BY <2>3, TaskCountEffect DEF TaskIs
      <3> QED BY <2>3, <1>r, <3>1, TaskCountEffect, ReadyKeep DEF Holds, history
    <2>4. CASE TaskWrite(e, i)
      <3>1. \A f \in Executor, j \in Item : task'[f][j] # "none" => task[f][j] # "none"
        BY <2>4, TaskWriteEffect DEF TaskIs
      <3> QED BY <2>4, <1>r, <3>1, TaskWriteEffect, ReadyKeep DEF Holds, history
    <2> QED BY <1>9, <2>1, <2>2, <2>3, <2>4 DEF RunItem
  <1>10. ASSUME NEW e \in Executor, NEW i \in Item, TaskFault(e, i) PROVE ListedReady'
    <2>1. \A f \in Executor, j \in Item : task'[f][j] # "none" => task[f][j] # "none"
      BY <1>10, TaskFaultEffect DEF TaskIs
    <2> QED BY <1>10, <1>r, <2>1, TaskFaultEffect, ReadyKeep DEF Holds, history
  <1>11. CASE WorkerDies
    <2>w. Worker \in Executor
      BY DEF Executor
    <2>1. /\ run'[Worker].job = Worker
          /\ \A f \in Executor \ {Worker} : run'[f] = run[f] /\ \A j \in Item : task'[f][j] = task[f][j]
      BY <1>11, <2>w, WorkerDiesEffect DEF RunIs, PoolGone
    <2>2. UNCHANGED early
      BY <1>11, WorkerDiesEffect DEF history
    <2> QED BY <1>r, <2>1, <2>2, ReadyKeep DEF Holds
  <1>12. CASE WorkerStart
    <2>w. Worker \in Executor
      BY DEF Executor
    <2>1. \A f \in Executor :
             /\ run'[f].job = run[f].job /\ (run'[f].pc \in Listed => run[f].pc \in Listed)
             /\ \A j \in Item : Holds(f, j)' => Holds(f, j) \/ run[f].pc \in Listed
      BY <1>12, <2>w, WorkerStartEffect DEF Holds, RunIs, PcIs, Listed
    <2>2. UNCHANGED early
      BY <1>12, WorkerStartEffect DEF history
    <2> QED BY <1>r, <2>1, <2>2, ReadyKeep DEF Holds
  <1>13. CASE UNCHANGED vars
    BY <1>13, <1>r, ReadyKeep DEF Holds, vars, rows, history
  <1> QED
    BY <1>1, <1>2, <1>3, <1>4, <1>5, <1>6, <1>7, <1>8, <1>9, <1>10, <1>11, <1>12,
       <1>13 DEF Next

-----------------------------------------------------------------------------
(* The pool.                                                               *)

Room == {"fill", "fillPut", "refill", "refillPut"}

\* An execution never has more futures than its pool has threads, and fewer while
\* it looks for another item.
RoomInPool ==
    \A e \in Executor :
        /\ IsFiniteSet(Futures(e)) /\ Cardinality(Futures(e)) <= MaxWorkers
        /\ run[e].pc \in Room => Cardinality(Futures(e)) < MaxWorkers

\* What neither adds a future nor looks for an item keeps the pool.
LEMMA RoomKeep ==
    ASSUME RoomInPool, \A f \in Executor : run'[f].pc \in Room => run[f].pc \in Room,
           \A f \in Executor, j \in Item : task'[f][j] = "none" <=> task[f][j] = "none"
    PROVE  RoomInPool'
  <1>1. \A f \in Executor : Futures(f)' = Futures(f)
    BY DEF Futures
  <1> QED BY <1>1 DEF RoomInPool

\* Every step keeps the pool within its size.
LEMMA RoomStep ==
    ASSUME Typed, Books, RoomInPool, [Next]_vars
    PROVE  RoomInPool'
  <1>1. ASSUME NEW b \in Batch, Create(b) PROVE RoomInPool'
    <2>1. CASE InsertBatch(b)
      BY <2>1, InsertBatchEffect, RoomKeep
    <2>2. CASE CreateItem(b)
      BY <2>2, CreateItemEffect, RoomKeep
    <2>3. CASE MarkIneligible(b)
      BY <2>3, RoomKeep DEF MarkIneligible
    <2>4. CASE CreatorCount(b)
      BY <2>4, CreatorCountEffect, RoomKeep
    <2>5. CASE CreatorWrite(b)
      BY <2>5, CreatorWriteEffect, RoomKeep
    <2>6. CASE Enqueue(b)
      BY <2>6, EnqueueEffect, RoomKeep
    <2> QED BY <1>1, <2>1, <2>2, <2>3, <2>4, <2>5, <2>6 DEF Create
  <1>2. ASSUME NEW b \in Batch, CancelRead(b) PROVE RoomInPool'
    BY <1>2, CancelReadEffect, RoomKeep
  <1>3. ASSUME NEW b \in Batch, ViewRead(b) PROVE RoomInPool'
    BY <1>3, ViewReadEffect, RoomKeep
  <1>4. CASE CancelWrite
    BY <1>4, CancelWriteEffect, RoomKeep
  <1>5. CASE ViewWrite
    BY <1>5, ViewWriteEffect, RoomKeep
  <1>6. ASSUME NEW e \in Executor, Execute(e) PROVE RoomInPool'
    <2>1. CASE Claim(e)
      <3>1. \A f \in Executor : run'[f].pc \in Room => run[f].pc \in Room
        BY <2>1, ClaimEffect DEF RunIs, PcIs, Room
      <3>2. UNCHANGED task
        BY <2>1, ClaimEffect
      <3> QED BY <3>1, <3>2, RoomKeep
    <2>2. CASE ReadFlag(e)
      <3>1. \A f \in Executor : run'[f].pc \in Room => run[f].pc \in Room
        BY <2>2, ReadFlagEffect DEF RunIs, PcIs, Room
      <3>2. UNCHANGED task
        BY <2>2, ReadFlagEffect
      <3> QED BY <3>1, <3>2, RoomKeep
    <2>3. CASE Start(e)
      <3>1. \A f \in Executor : run'[f].pc \in Room => run[f].pc \in Room
        BY <2>3, StartEffect DEF RunIs, PcIs, Room
      <3>2. UNCHANGED task
        BY <2>3, StartEffect
      <3> QED BY <3>1, <3>2, RoomKeep
    <2>4. CASE List(e)
      <3>1. run[e].pc = "list" /\ UNCHANGED task /\ \A f \in Executor \ {e} : run'[f] = run[f]
        BY <2>4, ListEffect DEF RunIs
      <3>2. Futures(e)' = {}
        BY <3>1 DEF Books, BooksOf, Pool, Futures
      <3>3. \A f \in Executor \ {e} : Futures(f)' = Futures(f)
        BY <3>1 DEF Futures
      <3>4. /\ IsFiniteSet(Futures(e)') /\ Cardinality(Futures(e)') < MaxWorkers
            /\ Cardinality(Futures(e)') <= MaxWorkers
        BY <3>2, FS_EmptySet, BoundAssumption
      <3> QED BY <3>1, <3>3, <3>4 DEF RoomInPool
    <2>5. CASE Check(e)
      <3>1. \A f \in Executor : run'[f].pc \in Room => run[f].pc \in Room
        BY <2>5, CheckEffect DEF RunIs, PcIs, Room
      <3>2. UNCHANGED task
        BY <2>5, CheckEffect
      <3> QED BY <3>1, <3>2, RoomKeep
    <2>6. CASE Submit(e)
      <3> DEFINE i == Min(run[e].todo)
      <3>1. /\ i \in run[e].todo /\ i \in Item /\ TaskIs(e, i, "submitted")
            /\ run[e].pc \in Putting
            /\ \A f \in Executor \ {e} : run'[f] = run[f]
            /\ run'[e].pc \in {"fill", "drain"}
            /\ run'[e].pc = "fill" => Cardinality(Futures(e)) + 1 < MaxWorkers
        BY <2>6, SubmitEffect DEF RunIs
      <3> HIDE DEF i
      <3>2. i \notin Futures(e)
        BY <3>1 DEF Books, BooksOf, Futures
      <3>3. Futures(e)' = Futures(e) \cup {i}
        BY <3>1 DEF TaskIs, Futures
      <3>4. IsFiniteSet(Futures(e)) /\ Cardinality(Futures(e)) < MaxWorkers
        BY <3>1 DEF RoomInPool, Room, Putting
      <3>5. /\ IsFiniteSet(Futures(e)') /\ Cardinality(Futures(e)') = Cardinality(Futures(e)) + 1
        BY <3>2, <3>3, <3>4, FS_AddElement
      <3>6. Cardinality(Futures(e)) \in Nat
        BY <3>4, FS_CardinalityType
      <3>7. \A f \in Executor \ {e} : Futures(f)' = Futures(f)
        BY <3>1 DEF TaskIs, Futures
      <3>8. /\ IsFiniteSet(Futures(e)') /\ Cardinality(Futures(e)') <= MaxWorkers
            /\ run'[e].pc \in Room => Cardinality(Futures(e)') < MaxWorkers
        BY <3>1, <3>4, <3>5, <3>6, BoundAssumption DEF Room
      <3> QED BY <3>1, <3>7, <3>8 DEF RoomInPool
    <2>7. ASSUME NEW i \in Item, Collect(e, i) PROVE RoomInPool'
      <3>1. /\ task[e][i] # "none" /\ TaskIs(e, i, "none") /\ PcIs(e, "refill")
        BY <2>7, CollectEffect
      <3>2. i \in Futures(e) /\ Futures(e)' = Futures(e) \ {i}
        BY <3>1 DEF TaskIs, Futures
      <3>3. IsFiniteSet(Futures(e)) /\ Cardinality(Futures(e)) <= MaxWorkers
        BY DEF RoomInPool
      <3>4. /\ IsFiniteSet(Futures(e)') /\ Cardinality(Futures(e)') = Cardinality(Futures(e)) - 1
            /\ Cardinality(Futures(e)) \in Nat
        BY <3>2, <3>3, FS_RemoveElement, FS_CardinalityType
      <3>5. \A f \in Executor \ {e} : run'[f] = run[f] /\ Futures(f)' = Futures(f)
        BY <3>1 DEF PcIs, RunIs, TaskIs, Futures
      <3>6. Cardinality(Futures(e)') < MaxWorkers
        BY <3>3, <3>4, BoundAssumption
      <3> QED BY <3>4, <3>5, <3>6, BoundAssumption DEF RoomInPool
    <2>8. CASE Drained(e)
      <3>1. \A f \in Executor : run'[f].pc \in Room => run[f].pc \in Room
        BY <2>8, DrainedEffect DEF RunIs, PcIs, Room
      <3>2. UNCHANGED task
        BY <2>8, DrainedEffect
      <3> QED BY <3>1, <3>2, RoomKeep
    <2>9. CASE ListCancel(e)
      <3>1. \A f \in Executor : run'[f].pc \in Room => run[f].pc \in Room
        BY <2>9, ListCancelEffect DEF RunIs, PcIs, Room
      <3>2. UNCHANGED task
        BY <2>9, ListCancelEffect
      <3> QED BY <3>1, <3>2, RoomKeep
    <2>10. CASE CancelItem(e)
      <3>1. \A f \in Executor : run'[f].pc \in Room => run[f].pc \in Room
        BY <2>10, CancelItemEffect DEF RunIs, PcIs, Room
      <3>2. UNCHANGED task
        BY <2>10, CancelItemEffect
      <3> QED BY <3>1, <3>2, RoomKeep
    <2>11. CASE CountRead(e)
      <3>1. \A f \in Executor : run'[f].pc \in Room => run[f].pc \in Room
        BY <2>11, CountReadEffect DEF RunIs, PcIs, Room
      <3>2. UNCHANGED task
        BY <2>11, CountReadEffect
      <3> QED BY <3>1, <3>2, RoomKeep
    <2>12. CASE CountWrite(e)
      <3>1. \A f \in Executor : run'[f].pc \in Room => run[f].pc \in Room
        BY <2>12, CountWriteEffect DEF RunIs, PcIs, Room
      <3>2. UNCHANGED task
        BY <2>12, CountWriteEffect
      <3> QED BY <3>1, <3>2, RoomKeep
    <2>13. CASE Decide(e)
      <3>1. \A f \in Executor : run'[f].pc \in Room => run[f].pc \in Room
        BY <2>13, DecideEffect DEF RunIs, PcIs, Room
      <3>2. UNCHANGED task
        BY <2>13, DecideEffect
      <3> QED BY <3>1, <3>2, RoomKeep
    <2>14. CASE Finish(e)
      <3>1. \A f \in Executor : run'[f].pc \in Room => run[f].pc \in Room
        BY <2>14, FinishEffect DEF RunIs, PcIs, Room
      <3>2. UNCHANGED task
        BY <2>14, FinishEffect
      <3> QED BY <3>1, <3>2, RoomKeep
    <2>15. CASE Manifest(e)
      <3>1. \A f \in Executor : run'[f].pc \in Room => run[f].pc \in Room
        BY <2>15, ManifestEffect DEF RunIs, PcIs, Room, Idle
      <3>2. UNCHANGED task
        BY <2>15, ManifestEffect
      <3> QED BY <3>1, <3>2, RoomKeep
    <2>16. CASE FailBatch(e)
      <3>1. /\ PoolGone(e) /\ run'[e].pc \notin Room
            /\ \A f \in Executor \ {e} : run'[f] = run[f]
        BY <2>16, FailBatchEffect DEF RunIs, Idle, Room
      <3>2. Futures(e)' = {} /\ \A f \in Executor \ {e} : Futures(f)' = Futures(f)
        BY <3>1 DEF PoolGone, Futures
      <3>3. IsFiniteSet(Futures(e)') /\ Cardinality(Futures(e)') <= MaxWorkers
        BY <3>2, FS_EmptySet, BoundAssumption
      <3> QED BY <3>1, <3>2, <3>3 DEF RoomInPool
    <2> QED
      BY <1>6, <2>1, <2>2, <2>3, <2>4, <2>5, <2>6, <2>7, <2>8, <2>9,
         <2>10, <2>11, <2>12, <2>13, <2>14, <2>15, <2>16 DEF Execute
  <1>7. ASSUME NEW e \in Executor, RunFault(e) PROVE RoomInPool'
    <2>1. \A f \in Executor : run'[f].pc \in Room => run[f].pc \in Room
      BY <1>7, RunFaultEffect DEF RunIs, PcIs, Room
    <2>2. UNCHANGED task
      BY <1>7, RunFaultEffect
    <2> QED BY <2>1, <2>2, RoomKeep
  <1>8. ASSUME NEW e \in Executor, Crash(e) PROVE RoomInPool'
    <2>1. /\ PoolGone(e) /\ run'[e].pc \notin Room
          /\ \A f \in Executor \ {e} : run'[f] = run[f]
      BY <1>8, CrashEffect DEF RunIs, Room
    <2>2. Futures(e)' = {} /\ \A f \in Executor \ {e} : Futures(f)' = Futures(f)
      BY <2>1 DEF PoolGone, Futures
    <2>3. IsFiniteSet(Futures(e)') /\ Cardinality(Futures(e)') <= MaxWorkers
      BY <2>2, FS_EmptySet, BoundAssumption
    <2> QED BY <2>1, <2>2, <2>3 DEF RoomInPool
  <1>9. ASSUME NEW e \in Executor, NEW i \in Item, RunItem(e, i) PROVE RoomInPool'
    <2>1. CASE TaskStart(e, i)
      <3>1. \A f \in Executor, j \in Item : task'[f][j] = "none" <=> task[f][j] = "none"
        BY <2>1, TaskStartEffect DEF TaskIs
      <3>2. UNCHANGED run
        BY <2>1, TaskStartEffect
      <3> QED BY <3>1, <3>2, RoomKeep
    <2>2. CASE TaskStore(e, i)
      <3>1. \A f \in Executor, j \in Item : task'[f][j] = "none" <=> task[f][j] = "none"
        BY <2>2, TaskStoreEffect DEF TaskIs
      <3>2. UNCHANGED run
        BY <2>2, TaskStoreEffect
      <3> QED BY <3>1, <3>2, RoomKeep
    <2>3. CASE TaskCount(e, i)
      <3>1. \A f \in Executor, j \in Item : task'[f][j] = "none" <=> task[f][j] = "none"
        BY <2>3, TaskCountEffect DEF TaskIs
      <3>2. UNCHANGED run
        BY <2>3, TaskCountEffect
      <3> QED BY <3>1, <3>2, RoomKeep
    <2>4. CASE TaskWrite(e, i)
      <3>1. \A f \in Executor, j \in Item : task'[f][j] = "none" <=> task[f][j] = "none"
        BY <2>4, TaskWriteEffect DEF TaskIs
      <3>2. UNCHANGED run
        BY <2>4, TaskWriteEffect
      <3> QED BY <3>1, <3>2, RoomKeep
    <2> QED BY <1>9, <2>1, <2>2, <2>3, <2>4 DEF RunItem
  <1>10. ASSUME NEW e \in Executor, NEW i \in Item, TaskFault(e, i) PROVE RoomInPool'
    <2>1. \A f \in Executor, j \in Item : task'[f][j] = "none" <=> task[f][j] = "none"
      BY <1>10, TaskFaultEffect DEF TaskIs
    <2>2. UNCHANGED run
      BY <1>10, TaskFaultEffect
    <2> QED BY <2>1, <2>2, RoomKeep
  <1>11. CASE WorkerDies
    <2>w. Worker \in Executor
      BY DEF Executor
    <2>1. /\ PoolGone(Worker) /\ run'[Worker].pc \notin Room
          /\ \A f \in Executor \ {Worker} : run'[f] = run[f]
      BY <1>11, <2>w, WorkerDiesEffect DEF RunIs, Room
    <2>2. Futures(Worker)' = {} /\ \A f \in Executor \ {Worker} : Futures(f)' = Futures(f)
      BY <2>1 DEF PoolGone, Futures
    <2>3. IsFiniteSet(Futures(Worker)') /\ Cardinality(Futures(Worker)') <= MaxWorkers
      BY <2>2, FS_EmptySet, BoundAssumption
    <2> QED BY <2>1, <2>2, <2>3 DEF RoomInPool
  <1>12. CASE WorkerStart
    <2>w. Worker \in Executor
      BY DEF Executor
    <2>1. \A f \in Executor : run'[f].pc \in Room => run[f].pc \in Room
      BY <1>12, <2>w, WorkerStartEffect DEF RunIs, PcIs, Room
    <2>2. UNCHANGED task
      BY <1>12, WorkerStartEffect
    <2> QED BY <2>1, <2>2, RoomKeep
  <1>13. CASE UNCHANGED vars
    BY <1>13, RoomKeep DEF vars
  <1> QED
    BY <1>1, <1>2, <1>3, <1>4, <1>5, <1>6, <1>7, <1>8, <1>9, <1>10, <1>11, <1>12,
       <1>13 DEF Next

-----------------------------------------------------------------------------
(* A Web thread runs single tests and nothing else.                        *)

Ordinary == Batch \ Single
W == run[Worker]

\* Nothing that concerns an ordinary batch changes.
Apart ==
    /\ run'[Worker] = run[Worker] /\ \A i \in Item : task'[Worker][i] = task[Worker][i]
    /\ \A b \in Ordinary :
         /\ status'[b] = status[b] /\ bad'[b] = bad[b] /\ late'[b] = late[b]
         /\ b \in early' <=> b \in early
         /\ b \in blurred' <=> b \in blurred
         /\ b \in aborted' <=> b \in aborted
    /\ \A i \in Item : BatchOf[i] \in Ordinary => item'[i] = item[i]
    /\ UNCHANGED <<creator, request, page, cancelReq, lost>>

\* What a Web thread and its pool do concerns single batches only.
LEMMA WebThread ==
    ASSUME Typed, Books, NEW e \in Executor, e # Worker,
           \/ Execute(e) \/ RunFault(e) \/ Crash(e)
           \/ \E i \in Item : RunItem(e, i) \/ TaskFault(e, i)
    PROVE  Apart
  <1>w. Worker \in Executor
    BY DEF Executor
  <1>j. run[e].job \in Batch => run[e].job \in Single
    BY SingleAssumption DEF Books, BooksOf, Executor
  <1> USE <1>w DEF Ordinary
  <1>1. CASE Execute(e)
    <2>1. CASE Claim(e)
      <3>1. PICK b \in Batch : RunIs(e, "flag", b, {}, "none", FALSE)
        BY <2>1, ClaimEffect
      <3>2. UNCHANGED <<rows, creator, task, request, page, history>>
        BY <2>1, ClaimEffect
      <3> QED BY <3>1, <3>2 DEF Apart, RunIs, rows, history
    <2>2. CASE ReadFlag(e)
      BY <2>2, ReadFlagEffect DEF Apart, RunIs, PcIs, rows, history
    <2>3. CASE Start(e)
      <3>1. run[e].job \in Single
        BY <2>3, StartEffect, <1>j DEF Typed, Steady, Free
      <3> QED BY <2>3, <3>1, StartEffect DEF Apart, RunIs, PcIs, StatusIs, rows, history
    <2>4. CASE List(e)
      <3>1. run[e].job \in Single
        BY <2>4, ListEffect, <1>j DEF Typed, Steady, Free
      <3> QED BY <2>4, <3>1, ListEffect DEF Apart, RunIs, PcIs, Listing, rows, history
    <2>5. CASE Check(e)
      BY <2>5, CheckEffect DEF Apart, RunIs, PcIs, rows, history
    <2>6. CASE Submit(e)
      BY <2>6, SubmitEffect DEF Apart, RunIs, PcIs, TaskIs, rows, history
    <2>7. ASSUME NEW i \in Item, Collect(e, i) PROVE Apart
      <3>1. BatchOf[i] = run[e].job /\ BatchOf[i] \in Batch
        BY <2>7, CollectEffect, ItemAssumption DEF Books, BooksOf
      <3>2. BatchOf[i] \in Single
        BY <3>1, <1>j
      <3> QED BY <2>7, <3>2, CollectEffect DEF Apart, RunIs, PcIs, TaskIs, ItemIs, rows, history
    <2>8. CASE Drained(e)
      BY <2>8, DrainedEffect DEF Apart, RunIs, PcIs, rows, history
    <2>9. CASE ListCancel(e)
      <3>1. run[e].job \in Single
        BY <2>9, ListCancelEffect, <1>j DEF Typed, Steady, Free
      <3> QED BY <2>9, <3>1, ListCancelEffect DEF Apart, RunIs, PcIs, Listing, rows, history
    <2>10. CASE CancelItem(e)
      <3>1. CASE run[e].todo = {}
        BY <2>10, <3>1, CancelItemEffect DEF Apart, RunIs, PcIs, rows, history
      <3>2. CASE run[e].todo # {}
        <4>1. PICK i \in run[e].todo : i \in Item /\ ItemIs(i, "cancelled")
          BY <2>10, <3>2, CancelItemEffect
        <4>2. BatchOf[i] = run[e].job /\ BatchOf[i] \in Batch
          BY <4>1, ItemAssumption DEF Books, BooksOf
        <4>3. BatchOf[i] \in Single
          BY <4>2, <1>j
        <4> QED BY <2>10, <3>2, <4>1, <4>3, CancelItemEffect
                  DEF Apart, RunIs, ItemIs, rows, history
      <3> QED BY <3>1, <3>2
    <2>11. CASE CountRead(e)
      BY <2>11, CountReadEffect DEF Apart, RunIs, PcIs, rows, history
    <2>12. CASE CountWrite(e)
      <3>1. run[e].job \in Single
        BY <2>12, CountWriteEffect, <1>j DEF Typed, Steady, Free
      <3> QED BY <2>12, <3>1, CountWriteEffect DEF Apart, RunIs, PcIs, Counted, rows, history
    <2>13. CASE Decide(e)
      BY <2>13, DecideEffect DEF Apart, RunIs, PcIs, rows, history
    <2>14. CASE Finish(e)
      <3>1. run[e].job \in Single
        BY <2>14, FinishEffect, <1>j DEF Typed, Steady, Free
      <3> QED BY <2>14, <3>1, FinishEffect DEF Apart, RunIs, PcIs, StatusIs, rows, history
    <2>15. CASE Manifest(e)
      BY <2>15, ManifestEffect DEF Apart, RunIs, PcIs, rows, history
    <2>16. CASE FailBatch(e)
      <3>1. run[e].job \in Single
        BY <2>16, FailBatchEffect, <1>j DEF Typed, Steady, Free
      <3>2. PICK pc : RunIs(e, pc, Worker, {}, "none", FALSE)
        BY <2>16, FailBatchEffect
      <3>3. PoolGone(e) /\ StatusIs(run[e].job, "failed") /\ aborted' = aborted \cup {run[e].job}
        BY <2>16, FailBatchEffect
      <3>4. UNCHANGED <<cancelReq, bad, item, creator, request, page, early, blurred, late, lost>>
        BY <2>16, FailBatchEffect
      <3> QED BY <3>1, <3>2, <3>3, <3>4 DEF Apart, RunIs, StatusIs, PoolGone
    <2> QED
      BY <1>1, <2>1, <2>2, <2>3, <2>4, <2>5, <2>6, <2>7, <2>8, <2>9,
         <2>10, <2>11, <2>12, <2>13, <2>14, <2>15, <2>16 DEF Execute
  <1>2. CASE RunFault(e)
    BY <1>2, RunFaultEffect DEF Apart, PcIs, RunIs, rows, history
  <1>3. CASE Crash(e)
    <2>1. PICK pc : RunIs(e, pc, Worker, {}, "none", FALSE)
      BY <1>3, CrashEffect
    <2>2. PoolGone(e) /\ UNCHANGED <<rows, creator, request, page, history>>
      BY <1>3, CrashEffect
    <2> QED BY <2>1, <2>2 DEF Apart, RunIs, PoolGone, rows, history
  <1>4. ASSUME NEW i \in Item, RunItem(e, i) PROVE Apart
    <2>1. CASE TaskStart(e, i)
      <3>1. task[e][i] # "none" /\ TaskIs(e, i, "working") /\ ItemIs(i, "running")
        BY <2>1, TaskStartEffect
      <3>2. BatchOf[i] \in Single
        BY <3>1, <1>j, ItemAssumption DEF Books, BooksOf
      <3>3. \A b \in Ordinary : late'[b] = late[b]
        BY <2>1, <3>2, TaskStartEffect
      <3>4. UNCHANGED <<status, cancelReq, bad, creator, run, request, page, early, blurred, lost, aborted>>
        BY <2>1, TaskStartEffect
      <3> QED BY <3>1, <3>2, <3>3, <3>4 DEF Apart, TaskIs, ItemIs
    <2>2. CASE TaskStore(e, i)
      <3>1. BatchOf[i] = run[e].job /\ BatchOf[i] \in Batch
        BY <2>2, TaskStoreEffect, ItemAssumption DEF Books, BooksOf
      <3>2. BatchOf[i] \in Single
        BY <3>1, <1>j
      <3> QED BY <2>2, <3>2, TaskStoreEffect DEF Apart, TaskIs, ItemIs, rows, history
    <2>3. CASE TaskCount(e, i)
      <3>1. BatchOf[i] = run[e].job /\ BatchOf[i] \in Batch
        BY <2>3, TaskCountEffect, ItemAssumption DEF Books, BooksOf
      <3>2. BatchOf[i] \in Single
        BY <3>1, <1>j
      <3> QED BY <2>3, <3>2, TaskCountEffect DEF Apart, TaskIs, rows, history
    <2>4. CASE TaskWrite(e, i)
      <3>1. BatchOf[i] = run[e].job /\ BatchOf[i] \in Batch
        BY <2>4, TaskWriteEffect, ItemAssumption DEF Books, BooksOf
      <3>2. BatchOf[i] \in Single
        BY <3>1, <1>j
      <3> QED BY <2>4, <3>2, TaskWriteEffect DEF Apart, TaskIs, Counted, rows, history
    <2> QED BY <1>4, <2>1, <2>2, <2>3, <2>4 DEF RunItem
  <1>5. ASSUME NEW i \in Item, TaskFault(e, i) PROVE Apart
    <2>1. BatchOf[i] = run[e].job /\ BatchOf[i] \in Batch
      BY <1>5, TaskFaultEffect, ItemAssumption DEF Books, BooksOf
    <2>2. BatchOf[i] \in Single
      BY <2>1, <1>j
    <2> QED BY <1>5, <2>2, TaskFaultEffect DEF Apart, TaskIs, rows, history
  <1> QED BY <1>1, <1>2, <1>3, <1>4, <1>5

-----------------------------------------------------------------------------
(* The status of an ordinary batch follows its execution.                  *)

Serving == {"list", "fill", "fillPut", "refill", "refillPut", "drain", "count",
            "countWrite", "decide"}
Closing == {"listCancel", "cancelItem", "recount", "recountWrite", "finish"}

\* While the worker has a batch, its status is not a terminal one until _finish_batch
\* has written it, and a request that has read a terminal one finds it unchanged,
\* unless an exception has marked the batch failed in between.
Staged ==
    \A b \in Ordinary :
        /\ request.batch = b /\ request.status \in Terminal =>
             status[b] \in Terminal /\ (b \notin aborted => status[b] = request.status)
        /\ W.job = b =>
             /\ W.pc \in {"flag", "start"} => status[b] \in Waiting
             /\ W.pc \in Serving => status[b] \in {"running", "cancelling"}
             /\ \A i \in Item : task[Worker][i] # "none" => status[b] \in {"running", "cancelling"}
             /\ W.pc \in Closing => status[b] \in {"queued", "running", "cancelling"}

\* What writes no status and goes no step back keeps the two in line.
LEMMA StagedKeep ==
    ASSUME Staged, UNCHANGED request,
           \A b \in Ordinary : status'[b] = status[b] /\ (b \in aborted => b \in aborted'),
           \/ run'[Worker].job = Worker
           \/ /\ run'[Worker].job = W.job
              /\ run'[Worker].pc \in {"flag", "start"} => W.pc \in {"flag", "start"}
              /\ run'[Worker].pc \in Serving => W.pc \in Serving
              /\ run'[Worker].pc \in Closing => W.pc \in Closing \cup Serving \cup {"flag", "start"}
              /\ \A j \in Item : task'[Worker][j] # "none" => task[Worker][j] # "none" \/ W.pc \in Serving
    PROVE  Staged'
  <1>1. CASE run'[Worker].job = Worker
    BY <1>1, SingleAssumption DEF Staged, W, Ordinary
  <1>2. CASE run'[Worker].job # Worker
    BY <1>2 DEF Staged, W, Waiting
  <1> QED BY <1>1, <1>2

\* Every step keeps them in line.
LEMMA StagedStep ==
    ASSUME Typed, Books, Made, Staged, [Next]_vars
    PROVE  Staged'
  <1>w. Worker \in Executor
    BY DEF Executor
  <1>1. CASE Apart
    BY <1>1, StagedKeep DEF Apart, W
  <1>2. CASE UNCHANGED vars
    BY <1>1, <1>2 DEF vars, rows, history, Apart
  <1>3. ASSUME NEW e \in Executor, e # Worker,
               \/ Execute(e) \/ RunFault(e) \/ Crash(e)
               \/ \E i \in Item : RunItem(e, i) \/ TaskFault(e, i)
        PROVE  Staged'
    BY <1>1, <1>3, WebThread
  <1>4. ASSUME NEW b \in Batch, Create(b) PROVE Staged'
    <2>1. CASE InsertBatch(b)
      <3>1. /\ creator[b] = "none" /\ StatusIs(b, "queued")
            /\ UNCHANGED <<request, run, task, aborted>>
        BY <2>1, InsertBatchEffect DEF history
      <3>2. status[b] = "absent" /\ W.job # b /\ (request.batch = b => request = NoRequest)
        BY <1>w, <3>1 DEF Made, W
      <3>3. \A c \in Ordinary : c # b => status'[c] = status[c]
        BY <3>1 DEF StatusIs, Ordinary
      <3> QED BY <3>1, <3>2, <3>3 DEF Staged, NoRequest, W, Terminal
    <2>2. CASE CreateItem(b)
      BY <2>2, CreateItemEffect, StagedKeep DEF rows, history, W
    <2>3. CASE MarkIneligible(b)
      BY <2>3, StagedKeep DEF MarkIneligible, history, W
    <2>4. CASE CreatorCount(b)
      BY <2>4, CreatorCountEffect, StagedKeep DEF rows, history, W
    <2>5. CASE CreatorWrite(b)
      BY <2>5, CreatorWriteEffect, StagedKeep DEF rows, history, W
    <2>6. CASE Enqueue(b)
      BY <2>6, EnqueueEffect, StagedKeep DEF rows, history, W
    <2> QED BY <1>4, <2>1, <2>2, <2>3, <2>4, <2>5, <2>6 DEF Create
  <1>5. ASSUME NEW b \in Batch, CancelRead(b) PROVE Staged'
    <2>1. /\ UNCHANGED <<status, run, task, aborted>>
          /\ request' = [batch |-> b, status |-> IF status[b] \in {"queued", "running"}
                                                 THEN "cancelling" ELSE status[b]]
      BY <1>5, CancelReadEffect DEF rows, history
    <2> QED BY <2>1 DEF Staged, W, Terminal
  <1>6. ASSUME NEW b \in Batch, ViewRead(b) PROVE Staged'
    BY <1>6, ViewReadEffect, StagedKeep DEF rows, history, W
  <1>7. CASE CancelWrite
    <2>1. /\ request \in [batch : Batch, status : {"cancelling"} \cup Terminal]
          /\ request' = NoRequest /\ StatusIs(request.batch, request.status)
          /\ UNCHANGED <<run, task, aborted>>
      BY <1>7, CancelWriteEffect DEF history
    <2>2. request'.status \notin Terminal
      BY <2>1 DEF NoRequest, Terminal
    <2>3. ASSUME NEW b \in Ordinary, request.batch = b, status[b] \notin Terminal
          PROVE  status'[b] = "cancelling"
      BY <2>1, <2>3 DEF Staged, StatusIs
    <2>4. \A b \in Ordinary : request.batch # b => status'[b] = status[b]
      BY <2>1 DEF StatusIs, Ordinary
    <2> QED BY <2>1, <2>2, <2>3, <2>4 DEF Staged, W, Waiting, Terminal
  <1>8. CASE ViewWrite
    BY <1>8, ViewWriteEffect, StagedKeep DEF rows, history, W
  <1>9. CASE Execute(Worker)
    <2>1. CASE Claim(Worker)
      <3>1. PICK b \in Batch : status[b] \in Waiting /\ RunIs(Worker, "flag", b, {}, "none", FALSE)
        BY <2>1, <1>w, ClaimEffect
      <3>2. run[Worker].pc = "idle" /\ UNCHANGED <<status, request, task, aborted>>
        BY <2>1, <1>w, ClaimEffect DEF rows, history
      <3>3. \A i \in Item : task[Worker][i] = "none"
        BY <3>2, <1>w DEF Books, BooksOf, Pool
      <3> QED BY <3>1, <3>2, <3>3 DEF Staged, RunIs, W, Serving, Closing
    <2>2. CASE ReadFlag(Worker)
      <3>1. /\ run'[Worker].job = W.job
            /\ run'[Worker].pc \in {"flag", "start"} => W.pc \in {"flag", "start"}
            /\ run'[Worker].pc \in Serving => W.pc \in Serving
            /\ run'[Worker].pc \in Closing => W.pc \in Closing \cup Serving \cup {"flag", "start"}
            /\ \A j \in Item : task'[Worker][j] # "none" => task[Worker][j] # "none" \/ W.pc \in Serving
        BY <2>2, <1>w, ReadFlagEffect DEF RunIs, PcIs, W, Serving, Closing
      <3>2. UNCHANGED <<status, request, aborted>>
        BY <2>2, <1>w, ReadFlagEffect DEF rows, history
      <3> QED BY <3>1, <3>2, StagedKeep
    <2>3. CASE Start(Worker)
      <3>1. /\ W.job \in Batch /\ StatusIs(W.job, "running") /\ run'[Worker].job = W.job
            /\ run'[Worker].pc = "list"
            /\ W.pc = "start" /\ UNCHANGED <<request, task, aborted>>
        BY <2>3, <1>w, StartEffect DEF PcIs, RunIs, W, Typed, Steady, Free, history
      <3>2. \A i \in Item : task[Worker][i] = "none"
        BY <3>1, <1>w DEF Books, BooksOf, Pool, W
      <3>3. W.job \in Ordinary => status[W.job] \notin Terminal
        BY <3>1 DEF Staged, Waiting, Terminal, Closing
      <3>4. \A b \in Ordinary : b # W.job => status'[b] = status[b]
        BY <3>1 DEF StatusIs, Ordinary
      <3> QED BY <3>1, <3>2, <3>3, <3>4 DEF Staged, StatusIs, W, Serving, Closing
    <2>4. CASE List(Worker)
      <3>1. /\ run'[Worker].job = W.job
            /\ run'[Worker].pc \in {"flag", "start"} => W.pc \in {"flag", "start"}
            /\ run'[Worker].pc \in Serving => W.pc \in Serving
            /\ run'[Worker].pc \in Closing => W.pc \in Closing \cup Serving \cup {"flag", "start"}
            /\ \A j \in Item : task'[Worker][j] # "none" => task[Worker][j] # "none" \/ W.pc \in Serving
        BY <2>4, <1>w, ListEffect DEF RunIs, PcIs, W, Serving, Closing
      <3>2. UNCHANGED <<status, request, aborted>>
        BY <2>4, <1>w, ListEffect DEF rows, history
      <3> QED BY <3>1, <3>2, StagedKeep
    <2>5. CASE Check(Worker)
      <3>1. /\ run'[Worker].job = W.job
            /\ run'[Worker].pc \in {"flag", "start"} => W.pc \in {"flag", "start"}
            /\ run'[Worker].pc \in Serving => W.pc \in Serving
            /\ run'[Worker].pc \in Closing => W.pc \in Closing \cup Serving \cup {"flag", "start"}
            /\ \A j \in Item : task'[Worker][j] # "none" => task[Worker][j] # "none" \/ W.pc \in Serving
        BY <2>5, <1>w, CheckEffect DEF RunIs, PcIs, W, Serving, Closing
      <3>2. UNCHANGED <<status, request, aborted>>
        BY <2>5, <1>w, CheckEffect DEF rows, history
      <3> QED BY <3>1, <3>2, StagedKeep
    <2>6. CASE Submit(Worker)
      <3>1. /\ run'[Worker].job = W.job
            /\ run'[Worker].pc \in {"flag", "start"} => W.pc \in {"flag", "start"}
            /\ run'[Worker].pc \in Serving => W.pc \in Serving
            /\ run'[Worker].pc \in Closing => W.pc \in Closing \cup Serving \cup {"flag", "start"}
            /\ \A j \in Item : task'[Worker][j] # "none" => task[Worker][j] # "none" \/ W.pc \in Serving
        BY <2>6, <1>w, SubmitEffect DEF RunIs, PcIs, W, Serving, Closing, TaskIs, Putting
      <3>2. UNCHANGED <<status, request, aborted>>
        BY <2>6, <1>w, SubmitEffect DEF rows, history
      <3> QED BY <3>1, <3>2, StagedKeep
    <2>7. ASSUME NEW i \in Item, Collect(Worker, i) PROVE Staged'
      <3>1. /\ run'[Worker].job = W.job
            /\ run'[Worker].pc \in {"flag", "start"} => W.pc \in {"flag", "start"}
            /\ run'[Worker].pc \in Serving => W.pc \in Serving
            /\ run'[Worker].pc \in Closing => W.pc \in Closing \cup Serving \cup {"flag", "start"}
            /\ \A j \in Item : task'[Worker][j] # "none" => task[Worker][j] # "none" \/ W.pc \in Serving
        BY <2>7, <1>w, CollectEffect DEF RunIs, PcIs, W, Serving, Closing, TaskIs, Putting
      <3>2. UNCHANGED <<status, request, aborted>>
        BY <2>7, <1>w, CollectEffect DEF rows, history
      <3> QED BY <3>1, <3>2, StagedKeep
    <2>8. CASE Drained(Worker)
      <3>1. /\ run'[Worker].job = W.job
            /\ run'[Worker].pc \in {"flag", "start"} => W.pc \in {"flag", "start"}
            /\ run'[Worker].pc \in Serving => W.pc \in Serving
            /\ run'[Worker].pc \in Closing => W.pc \in Closing \cup Serving \cup {"flag", "start"}
            /\ \A j \in Item : task'[Worker][j] # "none" => task[Worker][j] # "none" \/ W.pc \in Serving
        BY <2>8, <1>w, DrainedEffect DEF RunIs, PcIs, W, Serving, Closing
      <3>2. UNCHANGED <<status, request, aborted>>
        BY <2>8, <1>w, DrainedEffect DEF rows, history
      <3> QED BY <3>1, <3>2, StagedKeep
    <2>9. CASE ListCancel(Worker)
      <3>1. /\ run'[Worker].job = W.job
            /\ run'[Worker].pc \in {"flag", "start"} => W.pc \in {"flag", "start"}
            /\ run'[Worker].pc \in Serving => W.pc \in Serving
            /\ run'[Worker].pc \in Closing => W.pc \in Closing \cup Serving \cup {"flag", "start"}
            /\ \A j \in Item : task'[Worker][j] # "none" => task[Worker][j] # "none" \/ W.pc \in Serving
        BY <2>9, <1>w, ListCancelEffect DEF RunIs, PcIs, W, Serving, Closing
      <3>2. UNCHANGED <<status, request, aborted>>
        BY <2>9, <1>w, ListCancelEffect DEF rows, history
      <3> QED BY <3>1, <3>2, StagedKeep
    <2>10. CASE CancelItem(Worker)
      <3>1. /\ run'[Worker].job = W.job
            /\ run'[Worker].pc \in {"flag", "start"} => W.pc \in {"flag", "start"}
            /\ run'[Worker].pc \in Serving => W.pc \in Serving
            /\ run'[Worker].pc \in Closing => W.pc \in Closing \cup Serving \cup {"flag", "start"}
            /\ \A j \in Item : task'[Worker][j] # "none" => task[Worker][j] # "none" \/ W.pc \in Serving
        BY <2>10, <1>w, CancelItemEffect DEF RunIs, PcIs, W, Serving, Closing
      <3>2. UNCHANGED <<status, request, aborted>>
        BY <2>10, <1>w, CancelItemEffect DEF rows, history
      <3> QED BY <3>1, <3>2, StagedKeep
    <2>11. CASE CountRead(Worker)
      <3>1. /\ run'[Worker].job = W.job
            /\ run'[Worker].pc \in {"flag", "start"} => W.pc \in {"flag", "start"}
            /\ run'[Worker].pc \in Serving => W.pc \in Serving
            /\ run'[Worker].pc \in Closing => W.pc \in Closing \cup Serving \cup {"flag", "start"}
            /\ \A j \in Item : task'[Worker][j] # "none" => task[Worker][j] # "none" \/ W.pc \in Serving
        BY <2>11, <1>w, CountReadEffect DEF RunIs, PcIs, W, Serving, Closing
      <3>2. UNCHANGED <<status, request, aborted>>
        BY <2>11, <1>w, CountReadEffect DEF rows, history
      <3> QED BY <3>1, <3>2, StagedKeep
    <2>12. CASE CountWrite(Worker)
      <3>1. /\ run'[Worker].job = W.job
            /\ run'[Worker].pc \in {"flag", "start"} => W.pc \in {"flag", "start"}
            /\ run'[Worker].pc \in Serving => W.pc \in Serving
            /\ run'[Worker].pc \in Closing => W.pc \in Closing \cup Serving \cup {"flag", "start"}
            /\ \A j \in Item : task'[Worker][j] # "none" => task[Worker][j] # "none" \/ W.pc \in Serving
        BY <2>12, <1>w, CountWriteEffect DEF RunIs, PcIs, W, Serving, Closing
      <3>2. UNCHANGED <<status, request, aborted>>
        BY <2>12, <1>w, CountWriteEffect DEF rows, history
      <3> QED BY <3>1, <3>2, StagedKeep
    <2>13. CASE Decide(Worker)
      <3>1. /\ run'[Worker].job = W.job
            /\ run'[Worker].pc \in {"flag", "start"} => W.pc \in {"flag", "start"}
            /\ run'[Worker].pc \in Serving => W.pc \in Serving
            /\ run'[Worker].pc \in Closing => W.pc \in Closing \cup Serving \cup {"flag", "start"}
            /\ \A j \in Item : task'[Worker][j] # "none" => task[Worker][j] # "none" \/ W.pc \in Serving
        BY <2>13, <1>w, DecideEffect DEF RunIs, PcIs, W, Serving, Closing
      <3>2. UNCHANGED <<status, request, aborted>>
        BY <2>13, <1>w, DecideEffect DEF rows, history
      <3> QED BY <3>1, <3>2, StagedKeep
    <2>14. CASE Finish(Worker)
      <3>1. /\ W.job \in Batch /\ StatusIs(W.job, run[Worker].verdict) /\ run'[Worker].job = W.job
            /\ run'[Worker].pc = "manifest"
            /\ W.pc = "finish" /\ UNCHANGED <<request, task, aborted>>
        BY <2>14, <1>w, FinishEffect DEF PcIs, RunIs, W, Typed, Steady, Free, history
      <3>2. \A i \in Item : task[Worker][i] = "none"
        BY <3>1, <1>w DEF Books, BooksOf, Pool, W
      <3>3. W.job \in Ordinary => status[W.job] \notin Terminal
        BY <3>1 DEF Staged, Waiting, Terminal, Closing
      <3>4. \A b \in Ordinary : b # W.job => status'[b] = status[b]
        BY <3>1 DEF StatusIs, Ordinary
      <3> QED BY <3>1, <3>2, <3>3, <3>4 DEF Staged, StatusIs, W, Serving, Closing
    <2>15. CASE Manifest(Worker)
      <3>1. run'[Worker].job = Worker /\ UNCHANGED <<status, request, aborted>>
        BY <2>15, <1>w, ManifestEffect DEF RunIs, rows, history
      <3> QED BY <3>1, StagedKeep
    <2>16. CASE FailBatch(Worker)
      <3>1. /\ W.job \in Batch /\ StatusIs(W.job, "failed") /\ run'[Worker].job = Worker
            /\ UNCHANGED request /\ aborted' = aborted \cup {W.job}
        BY <2>16, <1>w, FailBatchEffect DEF RunIs, W, Typed, Steady, Free
      <3>2. \A b \in Ordinary : b # W.job => status'[b] = status[b]
        BY <3>1 DEF StatusIs, Ordinary
      <3> QED BY <3>1, <3>2, SingleAssumption DEF Staged, StatusIs, W, Terminal, Ordinary
    <2> QED
      BY <1>9, <2>1, <2>2, <2>3, <2>4, <2>5, <2>6, <2>7, <2>8, <2>9,
         <2>10, <2>11, <2>12, <2>13, <2>14, <2>15, <2>16 DEF Execute
  <1>10. CASE RunFault(Worker)
    <2>1. /\ run'[Worker].job = W.job
          /\ run'[Worker].pc \in {"flag", "start"} => W.pc \in {"flag", "start"}
          /\ run'[Worker].pc \in Serving => W.pc \in Serving
          /\ run'[Worker].pc \in Closing => W.pc \in Closing \cup Serving \cup {"flag", "start"}
          /\ \A j \in Item : task'[Worker][j] # "none" => task[Worker][j] # "none" \/ W.pc \in Serving
      BY <1>10, <1>w, RunFaultEffect DEF RunIs, PcIs, W, Serving, Closing
    <2>2. UNCHANGED <<status, request, aborted>>
      BY <1>10, <1>w, RunFaultEffect DEF rows, history
    <2> QED BY <2>1, <2>2, StagedKeep
  <1>11. CASE Crash(Worker)
    <2>1. run'[Worker].job = Worker /\ UNCHANGED <<status, request, aborted>>
      BY <1>11, <1>w, CrashEffect DEF RunIs, rows, history
    <2> QED BY <2>1, StagedKeep
  <1>12. ASSUME NEW i \in Item, RunItem(Worker, i) PROVE Staged'
    <2>1. CASE TaskStart(Worker, i)
      <3>1. \A j \in Item : task'[Worker][j] # "none" => task[Worker][j] # "none"
        BY <2>1, <1>w, TaskStartEffect DEF TaskIs
      <3> QED BY <2>1, <1>w, <3>1, TaskStartEffect, StagedKeep DEF rows, history, W
    <2>2. CASE TaskStore(Worker, i)
      <3>1. \A j \in Item : task'[Worker][j] # "none" => task[Worker][j] # "none"
        BY <2>2, <1>w, TaskStoreEffect DEF TaskIs
      <3> QED BY <2>2, <1>w, <3>1, TaskStoreEffect, StagedKeep DEF rows, history, W
    <2>3. CASE TaskCount(Worker, i)
      <3>1. \A j \in Item : task'[Worker][j] # "none" => task[Worker][j] # "none"
        BY <2>3, <1>w, TaskCountEffect DEF TaskIs
      <3> QED BY <2>3, <1>w, <3>1, TaskCountEffect, StagedKeep DEF rows, history, W
    <2>4. CASE TaskWrite(Worker, i)
      <3>1. \A j \in Item : task'[Worker][j] # "none" => task[Worker][j] # "none"
        BY <2>4, <1>w, TaskWriteEffect DEF TaskIs
      <3> QED BY <2>4, <1>w, <3>1, TaskWriteEffect, StagedKeep DEF rows, history, W
    <2> QED BY <1>12, <2>1, <2>2, <2>3, <2>4 DEF RunItem
  <1>13. ASSUME NEW i \in Item, TaskFault(Worker, i) PROVE Staged'
    <2>1. \A j \in Item : task'[Worker][j] # "none" => task[Worker][j] # "none"
      BY <1>13, <1>w, TaskFaultEffect DEF TaskIs
    <2> QED BY <1>13, <1>w, <2>1, TaskFaultEffect, StagedKeep DEF rows, history, W
  <1>14. CASE WorkerDies
    <2>1. run'[Worker].job = Worker /\ UNCHANGED <<status, request, aborted>>
      BY <1>14, <1>w, WorkerDiesEffect DEF RunIs, rows, history
    <2> QED BY <2>1, StagedKeep
  <1>15. CASE WorkerStart
    <2>1. /\ W.job = Worker /\ run'[Worker].job = Worker
      BY <1>15, <1>w, WorkerStartEffect DEF PcIs, RunIs, W, Typed, Steady, Free
    <2>2. \A b \in Batch : status[b] \in Terminal => status'[b] = status[b]
      BY <1>15, WorkerStartEffect DEF Interrupted, Terminal
    <2>3. UNCHANGED <<request, aborted>>
      BY <1>15, WorkerStartEffect
    <2> QED BY SingleAssumption, <2>1, <2>2, <2>3 DEF Staged, W, Ordinary
  <1> QED
    BY <1>2, <1>3, <1>4, <1>5, <1>6, <1>7, <1>8, <1>9, <1>10, <1>11, <1>12, <1>13,
       <1>14, <1>15 DEF Next

-----------------------------------------------------------------------------
(* The status of an item of an ordinary batch follows its task.            *)

\* A running item is being worked on, or the worker is gone and its batch is one that
\* a restart puts back; what a task has stored is a result; what is listed or in the
\* pool is still queued and what a task works on is running, unless the item was set
\* aside while a batch listed too early was still being created.
TrackedOf(i) ==
    /\ item[i] = "running" /\ BatchOf[i] \notin aborted =>
         /\ task[Worker][i] \in {"working", "erring", "raised"} \/ W.pc \in {"down", "dead"}
         /\ status[BatchOf[i]] \in {"running", "cancelling"}
    /\ task[Worker][i] \in {"stored", "storedError", "sawBad", "sawClean", "done"}
         => item[i] \in Finished
    /\ i \notin Ineligible \/ BatchOf[i] \notin early =>
         /\ i \in W.todo \/ task[Worker][i] = "submitted" => item[i] = "queued"
         /\ task[Worker][i] = "working" => item[i] = "running"
Tracked == \A i \in Item : BatchOf[i] \in Ordinary => TrackedOf(i)

\* What leaves an item and its task alone keeps them in line.
LEMMA TrackedKeep ==
    ASSUME NEW i \in Item, TrackedOf(i),
           item'[i] = item[i], task'[Worker][i] = task[Worker][i],
           status[BatchOf[i]] \in {"running", "cancelling"}
             => status'[BatchOf[i]] \in {"running", "cancelling"},
           i \in run'[Worker].todo => i \in W.todo,
           W.pc \in {"down", "dead"} => run'[Worker].pc \in {"down", "dead"},
           BatchOf[i] \in aborted => BatchOf[i] \in aborted',
           BatchOf[i] \in early => BatchOf[i] \in early'
    PROVE  TrackedOf(i)'
  BY DEF TrackedOf, W

\* Every step keeps them in line.
LEMMA TrackedStep ==
    ASSUME Typed, Books, Made, Created, ListedReady, Staged, Tracked, [Next]_vars
    PROVE  Tracked'
  <1> SUFFICES ASSUME NEW k \in Item, BatchOf[k] \in Ordinary
               PROVE  TrackedOf(k)'
    BY DEF Tracked
  <1>o. TrackedOf(k) /\ BatchOf[k] \in Batch
    BY DEF Tracked, Ordinary
  <1>w. Worker \in Executor
    BY DEF Executor
  <1>1. CASE Apart
    BY <1>1, <1>o, TrackedKeep DEF Apart, W
  <1>2. CASE UNCHANGED vars
    BY <1>1, <1>2 DEF vars, rows, history, Apart
  <1>3. ASSUME NEW e \in Executor, e # Worker,
               \/ Execute(e) \/ RunFault(e) \/ Crash(e)
               \/ \E i \in Item : RunItem(e, i) \/ TaskFault(e, i)
        PROVE  TrackedOf(k)'
    BY <1>1, <1>3, WebThread
  <1>4. ASSUME NEW b \in Batch, Create(b) PROVE TrackedOf(k)'
    <2>1. CASE InsertBatch(b)
      <3>1. /\ creator[b] = "none" /\ StatusIs(b, "queued")
            /\ UNCHANGED <<item, run, task, early, aborted>>
        BY <2>1, InsertBatchEffect DEF history
      <3>2. status[b] = "absent"
        BY <3>1 DEF Made
      <3>3. status[BatchOf[k]] \in {"running", "cancelling"} => status'[BatchOf[k]] = status[BatchOf[k]]
        BY <3>1, <3>2 DEF StatusIs, Ordinary
      <3> QED BY <1>o, <3>1, <3>3, TrackedKeep DEF W
    <2>2. CASE CreateItem(b)
      <3>1. PICK i \in Missing(b) : ItemIs(i, "queued")
        BY <2>2, CreateItemEffect
      <3>2. UNCHANGED <<status, run, task, early, aborted>>
        BY <2>2, CreateItemEffect DEF history
      <3>a. CASE k = i
        <4>1. item[k] = "absent" /\ item'[k] = "queued"
          BY <3>1, <3>a DEF Missing, ItemIs
        <4>2. k \notin W.todo /\ task[Worker][k] = "none"
          BY <4>1, <1>w DEF Books, BooksOf, W
        <4> QED BY <3>2, <4>1, <4>2 DEF TrackedOf, W
      <3>b. CASE k # i
        BY <1>o, <3>1, <3>2, <3>b, TrackedKeep DEF ItemIs, W
      <3> QED BY <3>a, <3>b
    <2>3. CASE MarkIneligible(b)
      <3>1. PICK m \in ItemsOf(b) \cap Ineligible : ItemIs(m, "pending")
        BY <2>3, MarksOneItem
      <3>2. creator[b] = "mark" /\ UNCHANGED <<status, run, task, early, aborted>>
        BY <2>3 DEF MarkIneligible, Creator, history
      <3>a. CASE k = m
        <4>1. item'[k] = "pending" /\ BatchOf[k] = b
          BY <3>1, <3>a DEF ItemsOf, ItemIs
        <4>2. b \notin early => ~Holds(Worker, k)
          BY <1>w, <3>2, <4>1 DEF Books, BooksOf, ListedReady, Ready, Holds
        <4> QED BY <3>1, <3>2, <3>a, <4>1, <4>2 DEF TrackedOf, W, Holds, Finished
      <3>b. CASE k # m
        BY <1>o, <3>1, <3>2, <3>b, TrackedKeep DEF ItemIs, W
      <3> QED BY <3>a, <3>b
    <2>4. CASE CreatorCount(b)
      BY <2>4, <1>o, CreatorCountEffect, TrackedKeep DEF rows, history, W
    <2>5. CASE CreatorWrite(b)
      BY <2>5, <1>o, CreatorWriteEffect, TrackedKeep DEF rows, history, W
    <2>6. CASE Enqueue(b)
      BY <2>6, <1>o, EnqueueEffect, TrackedKeep DEF rows, history, W
    <2> QED BY <1>4, <2>1, <2>2, <2>3, <2>4, <2>5, <2>6 DEF Create
  <1>5. ASSUME NEW b \in Batch, CancelRead(b) PROVE TrackedOf(k)'
    BY <1>5, <1>o, CancelReadEffect, TrackedKeep DEF rows, history, W
  <1>6. ASSUME NEW b \in Batch, ViewRead(b) PROVE TrackedOf(k)'
    BY <1>6, <1>o, ViewReadEffect, TrackedKeep DEF rows, history, W
  <1>7. CASE CancelWrite
    <2>1. /\ request \in [batch : Batch, status : {"cancelling"} \cup Terminal]
          /\ StatusIs(request.batch, request.status)
          /\ UNCHANGED <<item, run, task, early, aborted>>
      BY <1>7, CancelWriteEffect DEF history
    <2>2. status[BatchOf[k]] \in {"running", "cancelling"} => status'[BatchOf[k]] \in {"running", "cancelling"}
      BY <2>1 DEF Staged, StatusIs, Ordinary, Terminal
    <2> QED BY <1>o, <2>1, <2>2, TrackedKeep DEF W
  <1>8. CASE ViewWrite
    BY <1>8, <1>o, ViewWriteEffect, TrackedKeep DEF rows, history, W
  <1>9. CASE Execute(Worker)
    <2>1. CASE Claim(Worker)
      <3>1. PICK b \in Batch : RunIs(Worker, "flag", b, {}, "none", FALSE)
        BY <2>1, <1>w, ClaimEffect
      <3>2. W.pc = "idle" /\ UNCHANGED <<rows, task, history>>
        BY <2>1, <1>w, ClaimEffect DEF W
      <3> QED BY <1>o, <3>1, <3>2, TrackedKeep DEF RunIs, rows, history
    <2>2. CASE ReadFlag(Worker)
      <3>1. /\ run'[Worker].todo = W.todo /\ W.pc \notin {"down", "dead"}
            /\ UNCHANGED <<status, item, task, early, aborted>>
        BY <2>2, <1>w, ReadFlagEffect DEF PcIs, RunIs, W, Free, rows, history
      <3> QED BY <1>o, <3>1, TrackedKeep
    <2>3. CASE Start(Worker)
      <3>1. /\ W.job \in Batch /\ StatusIs(W.job, "running") /\ run'[Worker].todo = W.todo
            /\ W.pc = "start" /\ UNCHANGED <<item, task, early, aborted>>
        BY <2>3, <1>w, StartEffect DEF PcIs, RunIs, W, Typed, Steady, Free, history
      <3>2. status'[BatchOf[k]] = "running" \/ status'[BatchOf[k]] = status[BatchOf[k]]
        BY <3>1 DEF StatusIs, Ordinary
      <3> QED BY <1>o, <3>1, <3>2, TrackedKeep
    <2>4. CASE List(Worker)
      <3>1. /\ run'[Worker].todo = QueuedItems(W.job) /\ run'[Worker].pc = "fill"
            /\ W.pc = "list" /\ Listing(W.job) /\ UNCHANGED <<rows, task, aborted>>
        BY <2>4, <1>w, ListEffect DEF RunIs, W
      <3>2. task[Worker][k] = "none"
        BY <1>w, <3>1 DEF Books, BooksOf, Pool, W
      <3>3. k \in run'[Worker].todo => item[k] = "queued"
        BY <3>1 DEF QueuedItems
      <3> QED BY <1>o, <3>1, <3>2, <3>3 DEF TrackedOf, W, Listing, rows
    <2>5. CASE Check(Worker)
      <3>1. /\ run'[Worker].todo = W.todo /\ W.pc \notin {"down", "dead"}
            /\ UNCHANGED <<status, item, task, early, aborted>>
        BY <2>5, <1>w, CheckEffect DEF PcIs, RunIs, W, Free, rows, history
      <3> QED BY <1>o, <3>1, TrackedKeep
    <2>6. CASE Submit(Worker)
      <3> DEFINE i == Min(run[Worker].todo)
      <3>1. /\ i \in W.todo /\ TaskIs(Worker, i, "submitted") /\ run'[Worker].todo = W.todo \ {i}
            /\ W.pc \in Putting /\ i \in Item
            /\ UNCHANGED <<rows, history>>
        BY <2>6, <1>w, SubmitEffect DEF RunIs, W
      <3> HIDE DEF i
      <3>a. CASE k = i
        BY <1>o, <3>1, <3>a, <1>w DEF TrackedOf, TaskIs, Books, BooksOf, W, Putting, rows, history
      <3>b. CASE k # i
        BY <1>o, <3>1, <3>b, TrackedKeep, <1>w DEF TaskIs, Putting, rows, history
      <3> QED BY <3>a, <3>b
    <2>7. ASSUME NEW i \in Item, Collect(Worker, i) PROVE TrackedOf(k)'
      <3>1. /\ task[Worker][i] \in {"done", "raised"} /\ TaskIs(Worker, i, "none")
            /\ run'[Worker].todo = W.todo /\ W.pc = "drain"
            /\ IF task[Worker][i] = "raised" THEN ItemIs(i, "failed") ELSE item' = item
            /\ UNCHANGED <<status, history>>
        BY <2>7, <1>w, CollectEffect DEF PcIs, RunIs, W
      <3>a. CASE k = i
        <4>1. i \notin W.todo
          BY <1>w, <3>1 DEF Books, BooksOf, W
        <4>2. item'[k] \in Finished
          BY <1>o, <3>1, <3>a DEF TrackedOf, ItemIs, Finished
        <4> QED BY <1>w, <3>1, <3>a, <4>1, <4>2 DEF TrackedOf, TaskIs, Finished, W
      <3>b. CASE k # i
        BY <1>o, <3>1, <3>b, TrackedKeep, <1>w DEF TaskIs, ItemIs, history
      <3> QED BY <3>a, <3>b
    <2>8. CASE Drained(Worker)
      <3>1. /\ run'[Worker].todo = W.todo /\ W.pc \notin {"down", "dead"}
            /\ UNCHANGED <<status, item, task, early, aborted>>
        BY <2>8, <1>w, DrainedEffect DEF PcIs, RunIs, W, Free, rows, history
      <3> QED BY <1>o, <3>1, TrackedKeep
    <2>9. CASE ListCancel(Worker)
      <3>1. /\ run'[Worker].todo = QueuedItems(W.job) /\ run'[Worker].pc = "cancelItem"
            /\ W.pc = "listCancel" /\ Listing(W.job) /\ UNCHANGED <<rows, task, aborted>>
        BY <2>9, <1>w, ListCancelEffect DEF RunIs, W
      <3>2. task[Worker][k] = "none"
        BY <1>w, <3>1 DEF Books, BooksOf, Pool, W
      <3>3. k \in run'[Worker].todo => item[k] = "queued"
        BY <3>1 DEF QueuedItems
      <3> QED BY <1>o, <3>1, <3>2, <3>3 DEF TrackedOf, W, Listing, rows
    <2>10. CASE CancelItem(Worker)
      <3>1. CASE run[Worker].todo = {}
        BY <2>10, <3>1, <1>o, <1>w, CancelItemEffect, TrackedKeep DEF PcIs, RunIs, W, history
      <3>2. CASE run[Worker].todo # {}
        <4>1. PICK i \in W.todo : ItemIs(i, "cancelled") /\ run'[Worker].todo = W.todo \ {i}
          BY <2>10, <3>2, <1>w, CancelItemEffect DEF RunIs, W
        <4>2. W.pc = "cancelItem" /\ UNCHANGED <<status, task, history>>
          BY <2>10, <1>w, CancelItemEffect DEF W
        <4>3. task[Worker][k] = "none"
          BY <1>w, <4>2 DEF Books, BooksOf, Pool, W
        <4>a. CASE k = i
          BY <4>1, <4>2, <4>3, <4>a DEF TrackedOf, ItemIs, W
        <4>b. CASE k # i
          BY <1>o, <4>1, <4>2, <4>b, TrackedKeep DEF ItemIs, history
        <4> QED BY <4>a, <4>b
      <3> QED BY <3>1, <3>2
    <2>11. CASE CountRead(Worker)
      <3>1. /\ run'[Worker].todo = W.todo /\ W.pc \notin {"down", "dead"}
            /\ UNCHANGED <<status, item, task, early, aborted>>
        BY <2>11, <1>w, CountReadEffect DEF PcIs, RunIs, W, Free, rows, history
      <3> QED BY <1>o, <3>1, TrackedKeep
    <2>12. CASE CountWrite(Worker)
      <3>1. /\ run'[Worker].todo = W.todo /\ W.pc \notin {"down", "dead"}
            /\ UNCHANGED <<status, item, task, early, aborted>>
        BY <2>12, <1>w, CountWriteEffect DEF PcIs, RunIs, W, Free, rows, history
      <3> QED BY <1>o, <3>1, TrackedKeep
    <2>13. CASE Decide(Worker)
      <3>1. /\ run'[Worker].todo = W.todo /\ W.pc \notin {"down", "dead"}
            /\ UNCHANGED <<status, item, task, early, aborted>>
        BY <2>13, <1>w, DecideEffect DEF PcIs, RunIs, W, Free, rows, history
      <3> QED BY <1>o, <3>1, TrackedKeep
    <2>14. CASE Finish(Worker)
      <3>1. /\ W.job \in Batch /\ StatusIs(W.job, run[Worker].verdict)
            /\ run'[Worker].todo = W.todo
            /\ W.pc = "finish" /\ UNCHANGED <<item, task, early, aborted>>
        BY <2>14, <1>w, FinishEffect DEF PcIs, RunIs, W, Typed, Steady, Free, history
      <3>2. task[Worker][k] = "none"
        BY <1>w, <3>1 DEF Books, BooksOf, Pool, W
      <3> QED BY <1>o, <3>1, <3>2 DEF TrackedOf, W, StatusIs
    <2>15. CASE Manifest(Worker)
      <3>1. /\ run'[Worker].todo = {} /\ W.pc \notin {"down", "dead"}
            /\ UNCHANGED <<status, item, task, early, aborted>>
        BY <2>15, <1>w, ManifestEffect DEF PcIs, RunIs, W, Free, rows, history
      <3> QED BY <1>o, <3>1, TrackedKeep
    <2>16. CASE FailBatch(Worker)
      <3>1. /\ PoolGone(Worker) /\ W.pc = "failing" /\ run'[Worker].todo = {}
            /\ W.job \in Batch /\ StatusIs(W.job, "failed") /\ aborted' = aborted \cup {W.job}
            /\ UNCHANGED <<item, early>>
        BY <2>16, <1>w, FailBatchEffect DEF RunIs, W, Typed, Steady, Free
      <3>2. BatchOf[k] # W.job => task[Worker][k] = "none" /\ status'[BatchOf[k]] = status[BatchOf[k]]
        BY <3>1, <1>w DEF Books, BooksOf, W, StatusIs, Ordinary
      <3> QED BY <1>o, <1>w, <3>1, <3>2 DEF TrackedOf, PoolGone, W
    <2> QED
      BY <1>9, <2>1, <2>2, <2>3, <2>4, <2>5, <2>6, <2>7, <2>8, <2>9,
         <2>10, <2>11, <2>12, <2>13, <2>14, <2>15, <2>16 DEF Execute
  <1>10. CASE RunFault(Worker)
    <2>1. /\ run'[Worker].todo = W.todo /\ W.pc \notin {"down", "dead"}
          /\ UNCHANGED <<status, item, task, early, aborted>>
      BY <1>10, <1>w, RunFaultEffect DEF PcIs, RunIs, W, Free, rows, history
    <2> QED BY <1>o, <2>1, TrackedKeep
  <1>11. CASE Crash(Worker)
    <2>1. /\ PoolGone(Worker) /\ run'[Worker].pc \in {"down", "dead"} /\ run'[Worker].todo = {}
          /\ UNCHANGED <<rows, history>>
      BY <1>11, <1>w, CrashEffect DEF RunIs
    <2> QED BY <1>o, <1>w, <2>1 DEF TrackedOf, PoolGone, W, rows, history
  <1>12. ASSUME NEW i \in Item, RunItem(Worker, i) PROVE TrackedOf(k)'
    <2>1. CASE TaskStart(Worker, i)
      <3>1. /\ task[Worker][i] = "submitted" /\ TaskIs(Worker, i, "working")
            /\ ItemIs(i, "running")
            /\ UNCHANGED <<status, run, early, aborted>>
        BY <2>1, <1>w, TaskStartEffect
      <3>a. CASE k = i
        <4>1. BatchOf[k] = W.job /\ k \notin W.todo
          BY <1>w, <3>1, <3>a DEF Books, BooksOf, W
        <4>2. status[BatchOf[k]] \in {"running", "cancelling"}
          BY <3>1, <3>a, <4>1 DEF Staged
        <4> QED BY <1>w, <3>1, <3>a, <4>1, <4>2 DEF TrackedOf, TaskIs, ItemIs, W
      <3>b. CASE k # i
        BY <1>o, <1>w, <3>1, <3>b, TrackedKeep DEF TaskIs, ItemIs, W
      <3> QED BY <3>a, <3>b
    <2>2. CASE TaskStore(Worker, i)
      <3>1. PICK to \in {"stored", "storedError"} : TaskIs(Worker, i, to) /\ task[Worker][i] # "none"
        BY <2>2, <1>w, TaskStoreEffect
      <3>2. (ItemIs(i, "success") \/ ItemIs(i, "failed")) /\ UNCHANGED <<status, run, history>>
        BY <2>2, <1>w, TaskStoreEffect
      <3>a. CASE k = i
        <4>1. k \notin W.todo /\ item'[k] \in Finished /\ item'[k] # "running"
          BY <1>w, <3>1, <3>2, <3>a DEF Books, BooksOf, W, ItemIs, Finished
        <4> QED BY <1>w, <3>1, <3>2, <3>a, <4>1 DEF TrackedOf, TaskIs, W
      <3>b. CASE k # i
        BY <1>o, <1>w, <3>1, <3>2, <3>b, TrackedKeep DEF TaskIs, ItemIs, W, history
      <3> QED BY <3>a, <3>b
    <2>3. CASE TaskCount(Worker, i)
      <3>1. PICK to \in {"sawBad", "sawClean"} : TaskIs(Worker, i, to) /\ task[Worker][i] \in {"stored", "storedError"}
        BY <2>3, <1>w, TaskCountEffect
      <3>2. UNCHANGED <<status, item, run, early, aborted>>
        BY <2>3, <1>w, TaskCountEffect DEF rows, history
      <3>a. CASE k = i
        BY <1>o, <1>w, <3>1, <3>2, <3>a DEF TrackedOf, TaskIs, W, Finished, Books, BooksOf
      <3>b. CASE k # i
        BY <1>o, <1>w, <3>1, <3>2, <3>b, TrackedKeep DEF TaskIs, W
      <3> QED BY <3>a, <3>b
    <2>4. CASE TaskWrite(Worker, i)
      <3>1. PICK to \in {"done"} : TaskIs(Worker, i, to) /\ task[Worker][i] \in {"sawBad", "sawClean"}
        BY <2>4, <1>w, TaskWriteEffect
      <3>2. UNCHANGED <<status, item, run, early, aborted>>
        BY <2>4, <1>w, TaskWriteEffect DEF rows, history
      <3>a. CASE k = i
        BY <1>o, <1>w, <3>1, <3>2, <3>a DEF TrackedOf, TaskIs, W, Finished, Books, BooksOf
      <3>b. CASE k # i
        BY <1>o, <1>w, <3>1, <3>2, <3>b, TrackedKeep DEF TaskIs, W
      <3> QED BY <3>a, <3>b
    <2> QED BY <1>12, <2>1, <2>2, <2>3, <2>4 DEF RunItem
  <1>13. ASSUME NEW i \in Item, TaskFault(Worker, i) PROVE TrackedOf(k)'
    <2>1. PICK to \in {"erring", "raised"} : TaskIs(Worker, i, to) /\ task[Worker][i] # "none"
      BY <1>13, <1>w, TaskFaultEffect
    <2>2. UNCHANGED <<status, item, run, early, aborted>>
      BY <1>13, <1>w, TaskFaultEffect DEF rows, history
    <2>a. CASE k = i
      BY <1>o, <1>w, <2>1, <2>2, <2>a DEF TrackedOf, TaskIs, W, Books, BooksOf
    <2>b. CASE k # i
      BY <1>o, <1>w, <2>1, <2>2, <2>b, TrackedKeep DEF TaskIs, W
    <2> QED BY <2>a, <2>b
  <1>14. CASE WorkerDies
    <2>1. /\ PoolGone(Worker) /\ run'[Worker].pc \in {"down", "dead"} /\ run'[Worker].todo = {}
          /\ UNCHANGED <<rows, history>>
      BY <1>14, <1>w, WorkerDiesEffect DEF RunIs
    <2> QED BY <1>o, <1>w, <2>1 DEF TrackedOf, PoolGone, W, rows, history
  <1>15. CASE WorkerStart
    <2>1. /\ W.pc = "down" /\ W.todo = {} /\ run'[Worker].todo = {}
          /\ UNCHANGED <<task, early, aborted>>
      BY <1>15, <1>w, WorkerStartEffect DEF PcIs, RunIs, W, Typed, Steady, Free
    <2>2. task[Worker][k] = "none"
      BY <1>w, <2>1 DEF Books, BooksOf, Pool, W
    <2>3. item'[k] = "running" => item[k] = "running" /\ status[BatchOf[k]] \notin {"running", "cancelling"}
      BY <1>15, WorkerStartEffect DEF Interrupted, Ordinary
    <2> QED BY <1>o, <2>1, <2>2, <2>3 DEF TrackedOf, W
  <1> QED
    BY <1>2, <1>3, <1>4, <1>5, <1>6, <1>7, <1>8, <1>9, <1>10, <1>11, <1>12, <1>13,
       <1>14, <1>15 DEF Next

\* An item that has come to an end stays as it is, except that the task that stored
\* a result may still turn it into an internal error.
LEMMA FinishedStep ==
    ASSUME Typed, Books, Created, Tracked, [Next]_vars,
           NEW k \in Item, BatchOf[k] \in Ordinary, item[k] \in Finished,
           k \notin Ineligible \/ (Ready(BatchOf[k]) /\ BatchOf[k] \notin early)
    PROVE  \/ item'[k] = item[k]
           \/ item'[k] = "failed" /\ task[Worker][k] \in {"erring", "raised"}
  <1> DEFINE Stays == \/ item'[k] = item[k]
                      \/ item'[k] = "failed" /\ task[Worker][k] \in {"erring", "raised"}
  <1>f. item[k] \in Finished
    OBVIOUS
  <1>o. TrackedOf(k) /\ (k \notin Ineligible \/ BatchOf[k] \notin early)
    BY DEF Tracked
  <1>w. Worker \in Executor
    BY DEF Executor
  <1>1. CASE Apart
    BY <1>1 DEF Apart
  <1>2. CASE UNCHANGED vars
    BY <1>1, <1>2 DEF vars, rows, history, Apart
  <1>3. ASSUME NEW e \in Executor, e # Worker,
               \/ Execute(e) \/ RunFault(e) \/ Crash(e)
               \/ \E i \in Item : RunItem(e, i) \/ TaskFault(e, i)
        PROVE  Stays
    BY <1>1, <1>3, WebThread
  <1>4. ASSUME NEW b \in Batch, Create(b) PROVE Stays
    <2>1. CASE InsertBatch(b)
      BY <2>1, InsertBatchEffect
    <2>2. CASE CreateItem(b)
      <3>1. PICK i \in Missing(b) : ItemIs(i, "queued")
        BY <2>2, CreateItemEffect
      <3> QED BY <1>f, <3>1 DEF Missing, ItemIs, Finished
    <2>3. CASE MarkIneligible(b)
      <3>1. PICK m \in ItemsOf(b) \cap Ineligible : ItemIs(m, "pending")
        BY <2>3, MarksOneItem
      <3>2. creator[b] = "mark" /\ (m = k => BatchOf[k] = b)
        BY <2>3, <3>1 DEF MarkIneligible, Creator, ItemsOf
      <3>3. m # k
        BY <3>1, <3>2 DEF Ready
      <3> QED BY <3>1, <3>3 DEF ItemIs
    <2>4. CASE CreatorCount(b)
      BY <2>4, CreatorCountEffect DEF rows
    <2>5. CASE CreatorWrite(b)
      BY <2>5, CreatorWriteEffect
    <2>6. CASE Enqueue(b)
      BY <2>6, EnqueueEffect DEF rows
    <2> QED BY <1>4, <2>1, <2>2, <2>3, <2>4, <2>5, <2>6 DEF Create
  <1>5. ASSUME NEW b \in Batch, CancelRead(b) PROVE Stays
    BY <1>5, CancelReadEffect DEF rows
  <1>6. ASSUME NEW b \in Batch, ViewRead(b) PROVE Stays
    BY <1>6, ViewReadEffect DEF rows
  <1>7. CASE CancelWrite
    BY <1>7, CancelWriteEffect
  <1>8. CASE ViewWrite
    BY <1>8, ViewWriteEffect
  <1>9. CASE Execute(Worker)
    <2>1. CASE Claim(Worker)
      BY <2>1, <1>w, ClaimEffect DEF rows
    <2>2. CASE ReadFlag(Worker)
      BY <2>2, <1>w, ReadFlagEffect DEF rows
    <2>3. CASE Start(Worker)
      BY <2>3, <1>w, StartEffect
    <2>4. CASE List(Worker)
      BY <2>4, <1>w, ListEffect DEF rows
    <2>5. CASE Check(Worker)
      BY <2>5, <1>w, CheckEffect DEF rows
    <2>6. CASE Submit(Worker)
      BY <2>6, <1>w, SubmitEffect DEF rows
    <2>7. ASSUME NEW i \in Item, Collect(Worker, i) PROVE Stays
      BY <2>7, <1>w, CollectEffect DEF ItemIs
    <2>8. CASE Drained(Worker)
      BY <2>8, <1>w, DrainedEffect DEF rows
    <2>9. CASE ListCancel(Worker)
      BY <2>9, <1>w, ListCancelEffect DEF rows
    <2>10. CASE CancelItem(Worker)
      <3>1. CASE run[Worker].todo = {}
        BY <2>10, <3>1, <1>w, CancelItemEffect
      <3>2. CASE run[Worker].todo # {}
        <4>1. PICK i \in W.todo : ItemIs(i, "cancelled")
          BY <2>10, <3>2, <1>w, CancelItemEffect DEF W
        <4>2. i # k
          BY <1>f, <1>o, <4>1 DEF TrackedOf, Finished
        <4> QED BY <4>1, <4>2 DEF ItemIs
      <3> QED BY <3>1, <3>2
    <2>11. CASE CountRead(Worker)
      BY <2>11, <1>w, CountReadEffect DEF rows
    <2>12. CASE CountWrite(Worker)
      BY <2>12, <1>w, CountWriteEffect
    <2>13. CASE Decide(Worker)
      BY <2>13, <1>w, DecideEffect DEF rows
    <2>14. CASE Finish(Worker)
      BY <2>14, <1>w, FinishEffect
    <2>15. CASE Manifest(Worker)
      BY <2>15, <1>w, ManifestEffect DEF rows
    <2>16. CASE FailBatch(Worker)
      BY <2>16, <1>w, FailBatchEffect
    <2> QED
      BY <1>9, <2>1, <2>2, <2>3, <2>4, <2>5, <2>6, <2>7, <2>8, <2>9,
         <2>10, <2>11, <2>12, <2>13, <2>14, <2>15, <2>16 DEF Execute
  <1>10. CASE RunFault(Worker)
    BY <1>10, <1>w, RunFaultEffect DEF rows
  <1>11. CASE Crash(Worker)
    BY <1>11, <1>w, CrashEffect DEF rows
  <1>12. ASSUME NEW i \in Item, RunItem(Worker, i) PROVE Stays
    <2>1. CASE TaskStart(Worker, i)
      <3>1. task[Worker][i] = "submitted" /\ ItemIs(i, "running")
        BY <2>1, <1>w, TaskStartEffect
      <3> QED BY <1>f, <1>o, <3>1 DEF TrackedOf, ItemIs, Finished
    <2>2. CASE TaskStore(Worker, i)
      <3>1. CASE task[Worker][i] = "working"
        <4>1. ItemIs(i, "success") \/ ItemIs(i, "failed")
          BY <2>2, <1>w, TaskStoreEffect
        <4> QED BY <1>f, <1>o, <3>1, <4>1 DEF TrackedOf, ItemIs, Finished
      <3>2. CASE task[Worker][i] # "working"
        BY <2>2, <1>w, <3>2, TaskStoreEffect DEF ItemIs
      <3> QED BY <3>1, <3>2
    <2>3. CASE TaskCount(Worker, i)
      BY <2>3, <1>w, TaskCountEffect DEF rows
    <2>4. CASE TaskWrite(Worker, i)
      BY <2>4, <1>w, TaskWriteEffect
    <2> QED BY <1>12, <2>1, <2>2, <2>3, <2>4 DEF RunItem
  <1>13. ASSUME NEW i \in Item, TaskFault(Worker, i) PROVE Stays
    BY <1>13, <1>w, TaskFaultEffect DEF rows
  <1>14. CASE WorkerDies
    BY <1>14, <1>w, WorkerDiesEffect DEF rows
  <1>15. CASE WorkerStart
    BY <1>15, <1>f, WorkerStartEffect DEF Finished
  <1> QED
    BY <1>2, <1>3, <1>4, <1>5, <1>6, <1>7, <1>8, <1>9, <1>10, <1>11, <1>12, <1>13,
       <1>14, <1>15 DEF Next

-----------------------------------------------------------------------------
(* No item of a batch is forgotten.                                        *)

Counting == {"count", "countWrite", "decide", "recount", "recountWrite", "finish"}
Ended == {"completed", "completed_with_failures", "cancelled"}

\* Once the worker has listed the items of a batch, each of them has come to an end or
\* is still held; when it counts them all have, and they have in a batch that ended.
CoveredOf(i) ==
    BatchOf[i] \notin early \cup aborted =>
        /\ W.job = BatchOf[i] /\ W.pc \in Listed => item[i] \in Finished \/ Holds(Worker, i)
        /\ W.job = BatchOf[i] /\ W.pc \in Counting => item[i] \in Finished
        /\ status[BatchOf[i]] \in Ended => Ready(BatchOf[i]) /\ item[i] \in Finished
Covered == \A i \in Item : BatchOf[i] \in Ordinary => CoveredOf(i)

\* The worker waits for its last future with nothing left to submit or cancelled.
DrainsToTheEnd ==
    W.pc = "drain" => \/ \E i \in Item : task[Worker][i] # "none"
                      \/ W.todo = {} \/ cancelReq[W.job]

\* What lets go of no item, or of one that has come to an end, forgets none.
LEMMA CoveredKeep ==
    ASSUME NEW i \in Item, CoveredOf(i), Ready(BatchOf[i]) => Ready(BatchOf[i])',
           item'[i] = item[i] \/ item'[i] \in Finished,
           BatchOf[i] \in early => BatchOf[i] \in early',
           BatchOf[i] \in aborted => BatchOf[i] \in aborted',
           BatchOf[i] \notin aborted /\ status'[BatchOf[i]] \in Ended
             => status'[BatchOf[i]] = status[BatchOf[i]],
           run'[Worker].pc \in Listed =>
             /\ run'[Worker].job = W.job /\ W.pc \in Listed
             /\ item'[i] \in Finished \/ (Holds(Worker, i) => Holds(Worker, i)')
             /\ run'[Worker].pc \in Counting =>
                   item'[i] \in Finished \/ W.pc \in Counting \/ ~Holds(Worker, i)
    PROVE  CoveredOf(i)'
  <1>1. Counting \subseteq Listed
    BY DEF Counting, Listed
  <1>2. CASE run'[Worker].pc \in Listed
    BY <1>2 DEF CoveredOf, W
  <1>3. CASE run'[Worker].pc \notin Listed
    BY <1>1, <1>3 DEF CoveredOf, W
  <1> QED BY <1>2, <1>3

\* Every step keeps the future in sight while the worker waits for it.
LEMMA DrainStep ==
    ASSUME Typed, Books, DrainsToTheEnd, [Next]_vars
    PROVE  DrainsToTheEnd'
  <1>w. Worker \in Executor
    BY DEF Executor
  <1>1. CASE Apart
    BY <1>1 DEF DrainsToTheEnd, Apart, W
  <1>2. CASE UNCHANGED vars
    BY <1>1, <1>2 DEF vars, rows, history, Apart
  <1>3. ASSUME NEW e \in Executor, e # Worker,
               \/ Execute(e) \/ RunFault(e) \/ Crash(e)
               \/ \E i \in Item : RunItem(e, i) \/ TaskFault(e, i)
        PROVE  DrainsToTheEnd'
    BY <1>1, <1>3, WebThread
  <1>4. ASSUME NEW b \in Batch, Create(b) PROVE DrainsToTheEnd'
    <2>1. CASE InsertBatch(b)
      BY <2>1, InsertBatchEffect DEF DrainsToTheEnd, W
    <2>2. CASE CreateItem(b)
      BY <2>2, CreateItemEffect DEF DrainsToTheEnd, W
    <2>3. CASE MarkIneligible(b)
      BY <2>3 DEF MarkIneligible, DrainsToTheEnd, W
    <2>4. CASE CreatorCount(b)
      BY <2>4, CreatorCountEffect DEF DrainsToTheEnd, W, rows
    <2>5. CASE CreatorWrite(b)
      BY <2>5, CreatorWriteEffect DEF DrainsToTheEnd, W
    <2>6. CASE Enqueue(b)
      BY <2>6, EnqueueEffect DEF DrainsToTheEnd, W, rows
    <2> QED BY <1>4, <2>1, <2>2, <2>3, <2>4, <2>5, <2>6 DEF Create
  <1>5. ASSUME NEW b \in Batch, CancelRead(b) PROVE DrainsToTheEnd'
    BY <1>5, CancelReadEffect DEF DrainsToTheEnd, W, rows
  <1>6. ASSUME NEW b \in Batch, ViewRead(b) PROVE DrainsToTheEnd'
    BY <1>6, ViewReadEffect DEF DrainsToTheEnd, W, rows
  <1>7. CASE CancelWrite
    <2>1. \A b \in Batch : cancelReq[b] => cancelReq'[b]
      BY <1>7, CancelWriteEffect
    <2>2. W.pc = "drain" => W.job \in Batch
      BY <1>w DEF Typed, Steady, Free, W
    <2> QED BY <1>7, <2>1, <2>2, CancelWriteEffect DEF DrainsToTheEnd, W
  <1>8. CASE ViewWrite
    BY <1>8, ViewWriteEffect DEF DrainsToTheEnd, W
  <1>9. CASE Execute(Worker)
    <2>1. CASE Claim(Worker)
      <3>1. run'[Worker].pc # "drain"
        BY <2>1, <1>w, ClaimEffect DEF RunIs, PcIs
      <3> QED BY <3>1 DEF DrainsToTheEnd, W
    <2>2. CASE ReadFlag(Worker)
      <3>1. run'[Worker].pc # "drain"
        BY <2>2, <1>w, ReadFlagEffect DEF RunIs, PcIs
      <3> QED BY <3>1 DEF DrainsToTheEnd, W
    <2>3. CASE Start(Worker)
      <3>1. run'[Worker].pc # "drain"
        BY <2>3, <1>w, StartEffect DEF RunIs, PcIs
      <3> QED BY <3>1 DEF DrainsToTheEnd, W
    <2>4. CASE List(Worker)
      <3>1. run'[Worker].pc # "drain"
        BY <2>4, <1>w, ListEffect DEF RunIs, PcIs
      <3> QED BY <3>1 DEF DrainsToTheEnd, W
    <2>5. CASE Check(Worker)
      <3>1. UNCHANGED <<rows, task>>
        BY <2>5, <1>w, CheckEffect
      <3>2. CASE cancelReq[W.job] \/ W.todo = {}
        BY <2>5, <1>w, <3>1, <3>2, CheckEffect DEF DrainsToTheEnd, PcIs, RunIs, W, rows
      <3>3. CASE ~(cancelReq[W.job] \/ W.todo = {})
        BY <2>5, <1>w, <3>3, CheckEffect DEF DrainsToTheEnd, PcIs, RunIs, W
      <3> QED BY <3>2, <3>3
    <2>6. CASE Submit(Worker)
      <3>1. PICK i \in Item : TaskIs(Worker, i, "submitted")
        BY <2>6, <1>w, SubmitEffect
      <3> QED BY <3>1, <1>w DEF DrainsToTheEnd, TaskIs
    <2>7. ASSUME NEW i \in Item, Collect(Worker, i) PROVE DrainsToTheEnd'
      <3>1. run'[Worker].pc # "drain"
        BY <2>7, <1>w, CollectEffect DEF RunIs, PcIs
      <3> QED BY <3>1 DEF DrainsToTheEnd, W
    <2>8. CASE Drained(Worker)
      <3>1. run'[Worker].pc # "drain"
        BY <2>8, <1>w, DrainedEffect DEF RunIs, PcIs
      <3> QED BY <3>1 DEF DrainsToTheEnd, W
    <2>9. CASE ListCancel(Worker)
      <3>1. run'[Worker].pc # "drain"
        BY <2>9, <1>w, ListCancelEffect DEF RunIs, PcIs
      <3> QED BY <3>1 DEF DrainsToTheEnd, W
    <2>10. CASE CancelItem(Worker)
      <3>1. run'[Worker].pc # "drain"
        BY <2>10, <1>w, CancelItemEffect DEF RunIs, PcIs
      <3> QED BY <3>1 DEF DrainsToTheEnd, W
    <2>11. CASE CountRead(Worker)
      <3>1. run'[Worker].pc # "drain"
        BY <2>11, <1>w, CountReadEffect DEF RunIs, PcIs
      <3> QED BY <3>1 DEF DrainsToTheEnd, W
    <2>12. CASE CountWrite(Worker)
      <3>1. run'[Worker].pc # "drain"
        BY <2>12, <1>w, CountWriteEffect DEF RunIs, PcIs
      <3> QED BY <3>1 DEF DrainsToTheEnd, W
    <2>13. CASE Decide(Worker)
      <3>1. run'[Worker].pc # "drain"
        BY <2>13, <1>w, DecideEffect DEF RunIs, PcIs
      <3> QED BY <3>1 DEF DrainsToTheEnd, W
    <2>14. CASE Finish(Worker)
      <3>1. run'[Worker].pc # "drain"
        BY <2>14, <1>w, FinishEffect DEF RunIs, PcIs
      <3> QED BY <3>1 DEF DrainsToTheEnd, W
    <2>15. CASE Manifest(Worker)
      <3>1. run'[Worker].pc # "drain"
        BY <2>15, <1>w, ManifestEffect DEF RunIs, PcIs, Idle
      <3> QED BY <3>1 DEF DrainsToTheEnd, W
    <2>16. CASE FailBatch(Worker)
      <3>1. run'[Worker].pc # "drain"
        BY <2>16, <1>w, FailBatchEffect DEF RunIs, PcIs, Idle
      <3> QED BY <3>1 DEF DrainsToTheEnd, W
    <2> QED
      BY <1>9, <2>1, <2>2, <2>3, <2>4, <2>5, <2>6, <2>7, <2>8, <2>9,
         <2>10, <2>11, <2>12, <2>13, <2>14, <2>15, <2>16 DEF Execute
  <1>10. CASE RunFault(Worker)
    <2>1. run'[Worker].pc # "drain"
      BY <1>10, <1>w, RunFaultEffect DEF RunIs, PcIs
    <2> QED BY <2>1 DEF DrainsToTheEnd, W
  <1>11. CASE Crash(Worker)
    <2>1. run'[Worker].pc # "drain"
      BY <1>11, <1>w, CrashEffect DEF RunIs, PcIs
    <2> QED BY <2>1 DEF DrainsToTheEnd, W
  <1>12. ASSUME NEW i \in Item, RunItem(Worker, i) PROVE DrainsToTheEnd'
    <2>1. CASE TaskStart(Worker, i)
      <3>1. \A j \in Item : task[Worker][j] # "none" => task'[Worker][j] # "none"
        BY <2>1, <1>w, TaskStartEffect DEF TaskIs
      <3>2. UNCHANGED <<run, cancelReq>>
        BY <2>1, <1>w, TaskStartEffect DEF rows
      <3> QED BY <3>1, <3>2 DEF DrainsToTheEnd, W
    <2>2. CASE TaskStore(Worker, i)
      <3>1. \A j \in Item : task[Worker][j] # "none" => task'[Worker][j] # "none"
        BY <2>2, <1>w, TaskStoreEffect DEF TaskIs
      <3>2. UNCHANGED <<run, cancelReq>>
        BY <2>2, <1>w, TaskStoreEffect DEF rows
      <3> QED BY <3>1, <3>2 DEF DrainsToTheEnd, W
    <2>3. CASE TaskCount(Worker, i)
      <3>1. \A j \in Item : task[Worker][j] # "none" => task'[Worker][j] # "none"
        BY <2>3, <1>w, TaskCountEffect DEF TaskIs
      <3>2. UNCHANGED <<run, cancelReq>>
        BY <2>3, <1>w, TaskCountEffect DEF rows
      <3> QED BY <3>1, <3>2 DEF DrainsToTheEnd, W
    <2>4. CASE TaskWrite(Worker, i)
      <3>1. \A j \in Item : task[Worker][j] # "none" => task'[Worker][j] # "none"
        BY <2>4, <1>w, TaskWriteEffect DEF TaskIs
      <3>2. UNCHANGED <<run, cancelReq>>
        BY <2>4, <1>w, TaskWriteEffect DEF rows
      <3> QED BY <3>1, <3>2 DEF DrainsToTheEnd, W
    <2> QED BY <1>12, <2>1, <2>2, <2>3, <2>4 DEF RunItem
  <1>13. ASSUME NEW i \in Item, TaskFault(Worker, i) PROVE DrainsToTheEnd'
    <2>1. \A j \in Item : task[Worker][j] # "none" => task'[Worker][j] # "none"
      BY <1>13, <1>w, TaskFaultEffect DEF TaskIs
    <2>2. UNCHANGED <<run, cancelReq>>
      BY <1>13, <1>w, TaskFaultEffect DEF rows
    <2> QED BY <2>1, <2>2 DEF DrainsToTheEnd, W
  <1>14. CASE WorkerDies
    <2>1. run'[Worker].pc # "drain"
      BY <1>14, <1>w, WorkerDiesEffect DEF RunIs, PcIs
    <2> QED BY <2>1 DEF DrainsToTheEnd, W
  <1>15. CASE WorkerStart
    <2>1. run'[Worker].pc # "drain"
      BY <1>15, <1>w, WorkerStartEffect DEF RunIs, PcIs
    <2> QED BY <2>1 DEF DrainsToTheEnd, W
  <1> QED
    BY <1>2, <1>3, <1>4, <1>5, <1>6, <1>7, <1>8, <1>9, <1>10, <1>11, <1>12, <1>13,
       <1>14, <1>15 DEF Next

\* No step forgets an item.
LEMMA CoveredStep ==
    ASSUME Typed, Books, Made, Created, ListedReady, Staged, Tracked, DrainsToTheEnd,
           Covered, [Next]_vars
    PROVE  Covered'
  <1> SUFFICES ASSUME NEW k \in Item, BatchOf[k] \in Ordinary
               PROVE  CoveredOf(k)'
    BY DEF Covered
  <1>o. CoveredOf(k)
    BY DEF Covered
  <1>t. TrackedOf(k)
    BY DEF Tracked
  <1>b. BatchOf[k] \in Batch /\ BatchOf[k] \in Ordinary /\ BatchOf[k] # Worker
    BY SingleAssumption DEF Ordinary
  <1>r. Ready(BatchOf[k]) => Ready(BatchOf[k])'
    BY <1>b, ReadyStays
  <1>l. W.job = BatchOf[k] /\ W.pc \in Listed /\ BatchOf[k] \notin early => Ready(BatchOf[k])
    BY <1>b DEF ListedReady, Executor, W
  <1>w. Worker \in Executor
    BY DEF Executor
  <1>1. CASE Apart
    BY <1>1, <1>o, <1>r, CoveredKeep DEF Apart, W, Holds
  <1>2. CASE UNCHANGED vars
    BY <1>1, <1>2 DEF vars, rows, history, Apart
  <1>3. ASSUME NEW e \in Executor, e # Worker,
               \/ Execute(e) \/ RunFault(e) \/ Crash(e)
               \/ \E i \in Item : RunItem(e, i) \/ TaskFault(e, i)
        PROVE  CoveredOf(k)'
    BY <1>1, <1>3, WebThread
  <1>4. ASSUME NEW b \in Batch, Create(b) PROVE CoveredOf(k)'
    <2>1. CASE InsertBatch(b)
      <3>1. /\ creator[b] = "none" /\ StatusIs(b, "queued")
            /\ UNCHANGED <<item, run, task, early, aborted>>
        BY <2>1, InsertBatchEffect DEF history
      <3>2. status'[BatchOf[k]] \in Ended => status'[BatchOf[k]] = status[BatchOf[k]]
        BY <3>1, <1>b DEF StatusIs, Ended
      <3> QED BY <1>o, <1>r, <3>1, <3>2, CoveredKeep DEF W, Holds
    <2>2. CASE CreateItem(b)
      <3>1. PICK i \in Missing(b) : ItemIs(i, "queued")
        BY <2>2, CreateItemEffect
      <3>2. creator[b] = "items" /\ UNCHANGED <<status, run, task, early, aborted>>
        BY <2>2, CreateItemEffect DEF history
      <3>a. CASE k = i
        <4>1. item[k] = "absent" /\ BatchOf[k] = b
          BY <3>1, <3>a DEF Missing, ItemsOf
        <4>2. b \notin early \cup aborted => status[b] \notin Ended /\ ~(W.job = b /\ W.pc \in Listed)
          BY <1>w, <1>b, <1>o, <1>l, <3>2, <4>1 DEF Ready, CoveredOf
        <4> QED BY <3>2, <4>1, <4>2 DEF CoveredOf, W, Counting, Listed
      <3>b. CASE k # i
        BY <1>o, <1>r, <3>1, <3>2, <3>b, CoveredKeep DEF ItemIs, W, Holds
      <3> QED BY <3>a, <3>b
    <2>3. CASE MarkIneligible(b)
      <3>1. PICK m \in ItemsOf(b) \cap Ineligible : ItemIs(m, "pending")
        BY <2>3, MarksOneItem
      <3>2. UNCHANGED <<status, run, task, early, aborted>>
        BY <2>3 DEF MarkIneligible, history
      <3>3. item'[k] = item[k] \/ item'[k] \in Finished
        BY <3>1 DEF ItemIs, Finished
      <3> QED BY <1>o, <1>r, <3>2, <3>3, CoveredKeep DEF W, Holds
    <2>4. CASE CreatorCount(b)
      BY <2>4, <1>o, <1>r, CreatorCountEffect, CoveredKeep DEF rows, history, W, Holds
    <2>5. CASE CreatorWrite(b)
      BY <2>5, <1>o, <1>r, CreatorWriteEffect, CoveredKeep DEF rows, history, W, Holds
    <2>6. CASE Enqueue(b)
      BY <2>6, <1>o, <1>r, EnqueueEffect, CoveredKeep DEF rows, history, W, Holds
    <2> QED BY <1>4, <2>1, <2>2, <2>3, <2>4, <2>5, <2>6 DEF Create
  <1>5. ASSUME NEW b \in Batch, CancelRead(b) PROVE CoveredOf(k)'
    BY <1>5, <1>o, <1>r, CancelReadEffect, CoveredKeep DEF rows, history, W, Holds
  <1>6. ASSUME NEW b \in Batch, ViewRead(b) PROVE CoveredOf(k)'
    BY <1>6, <1>o, <1>r, ViewReadEffect, CoveredKeep DEF rows, history, W, Holds
  <1>7. CASE CancelWrite
    <2>1. /\ request \in [batch : Batch, status : {"cancelling"} \cup Terminal]
          /\ StatusIs(request.batch, request.status)
          /\ UNCHANGED <<item, run, task, early, aborted>>
      BY <1>7, CancelWriteEffect DEF history
    <2>2. status'[BatchOf[k]] \in Ended /\ BatchOf[k] \notin aborted => status'[BatchOf[k]] = status[BatchOf[k]]
      BY <2>1, <1>b DEF Staged, StatusIs, Ended, Terminal, Ordinary
    <2> QED BY <1>o, <1>r, <2>1, <2>2, CoveredKeep DEF W, Holds
  <1>8. CASE ViewWrite
    BY <1>8, <1>o, <1>r, ViewWriteEffect, CoveredKeep DEF rows, history, W, Holds
  <1>9. CASE Execute(Worker)
    <2>1. CASE Claim(Worker)
      <3>1. PICK b \in Batch : RunIs(Worker, "flag", b, {}, "none", FALSE)
        BY <2>1, <1>w, ClaimEffect
      <3>2. UNCHANGED <<rows, history>>
        BY <2>1, <1>w, ClaimEffect
      <3> QED BY <1>o, <1>r, <3>1, <3>2, CoveredKeep DEF RunIs, Listed, Counting, rows, history
    <2>2. CASE ReadFlag(Worker)
      <3>1. /\ run'[Worker].pc \in Listed => run'[Worker].job = W.job /\ W.pc \in Listed /\ run'[Worker].todo = W.todo
            /\ run'[Worker].pc \in Counting => W.pc \in Counting
            /\ UNCHANGED <<status, item, task, early, aborted>>
        BY <2>2, <1>w, ReadFlagEffect DEF PcIs, RunIs, W, Listed, Counting, rows, history
      <3> QED BY <1>o, <1>r, <3>1, CoveredKeep DEF Holds, Counting, Listed, W
    <2>3. CASE Start(Worker)
      <3>1. /\ W.job \in Batch /\ StatusIs(W.job, "running") /\ run'[Worker].pc = "list"
            /\ UNCHANGED <<item, task, early, aborted>>
        BY <2>3, <1>w, StartEffect DEF PcIs, RunIs, W, Typed, Steady, Free, history
      <3>2. status'[BatchOf[k]] \in Ended => status'[BatchOf[k]] = status[BatchOf[k]]
        BY <3>1, <1>b DEF StatusIs, Ended
      <3> QED BY <1>o, <1>r, <3>1, <3>2, CoveredKeep DEF Listed, Counting
    <2>4. CASE List(Worker)
      <3>1. /\ run'[Worker].todo = QueuedItems(W.job) /\ run'[Worker].pc = "fill"
            /\ run'[Worker].job = W.job
            /\ W.pc = "list" /\ W.job \in Batch /\ Listing(W.job)
            /\ UNCHANGED <<rows, creator, task, aborted>>
        BY <2>4, <1>w, ListEffect DEF RunIs, W, Typed, Steady, Free
      <3>2. task[Worker][k] = "none"
        BY <1>w, <3>1 DEF Books, BooksOf, Pool, W
      <3>3. ASSUME BatchOf[k] = W.job, BatchOf[k] \notin early' \cup aborted
            PROVE  item[k] \in Finished \/ k \in run'[Worker].todo
        <4>1. Ready(W.job)
          BY <1>w, <3>1, <3>3 DEF Made, Listing, Ready, W
        <4>2. item[k] \notin {"absent", "running"}
          BY <3>1, <3>2, <3>3, <4>1, <1>t DEF Created, CreatedOf, ItemsOf, TrackedOf
        <4>3. item[k] = "queued" => k \in run'[Worker].todo
          BY <3>1, <3>3 DEF QueuedItems, ItemsOf
        <4> QED BY <4>2, <4>3 DEF Typed, Columns, ItemStatus
      <3> QED BY <1>o, <1>r, <3>1, <3>3, <1>b DEF CoveredOf, Listing, Counting, Holds, W, rows
    <2>5. CASE Check(Worker)
      <3>1. /\ run'[Worker].pc \in Listed => run'[Worker].job = W.job /\ W.pc \in Listed /\ run'[Worker].todo = W.todo
            /\ run'[Worker].pc \in Counting => W.pc \in Counting
            /\ UNCHANGED <<status, item, task, early, aborted>>
        BY <2>5, <1>w, CheckEffect DEF PcIs, RunIs, W, Listed, Counting, rows, history
      <3> QED BY <1>o, <1>r, <3>1, CoveredKeep DEF Holds, Counting, Listed, W
    <2>6. CASE Submit(Worker)
      <3> DEFINE i == Min(run[Worker].todo)
      <3>1. /\ i \in W.todo /\ TaskIs(Worker, i, "submitted") /\ run'[Worker].todo = W.todo \ {i}
            /\ W.pc \in Putting /\ i \in Item /\ run'[Worker].pc \in {"fill", "drain"}
            /\ run'[Worker].job = W.job /\ UNCHANGED <<rows, history>>
        BY <2>6, <1>w, SubmitEffect DEF RunIs, W
      <3> HIDE DEF i
      <3>2. Holds(Worker, k) => Holds(Worker, k)'
        BY <3>1, <1>w DEF TaskIs, Holds, W
      <3>3. W.pc \in Listed /\ run'[Worker].pc \notin Counting
        BY <3>1 DEF Listed, Counting, Putting
      <3> QED BY <1>o, <1>r, <3>1, <3>2, <3>3, CoveredKeep DEF rows, history
    <2>7. ASSUME NEW i \in Item, Collect(Worker, i) PROVE CoveredOf(k)'
      <3>1. /\ task[Worker][i] \in {"done", "raised"} /\ TaskIs(Worker, i, "none")
            /\ run'[Worker].todo = W.todo /\ run'[Worker].pc = "refill"
            /\ run'[Worker].job = W.job
            /\ W.pc = "drain" /\ UNCHANGED <<status, history>>
            /\ IF task[Worker][i] = "raised" THEN ItemIs(i, "failed") ELSE item' = item
        BY <2>7, <1>w, CollectEffect DEF PcIs, RunIs, W
      <3>2. k = i => item'[k] \in Finished
        BY <3>1, <1>t DEF TrackedOf, ItemIs, Finished
      <3>3. k # i => item'[k] = item[k] /\ (Holds(Worker, k) => Holds(Worker, k)')
        BY <3>1, <1>w DEF ItemIs, TaskIs, Holds, W
      <3>4. W.pc \in Listed /\ run'[Worker].pc \notin Counting
        BY <3>1 DEF Listed, Counting
      <3> QED BY <1>o, <1>r, <3>1, <3>2, <3>3, <3>4, CoveredKeep DEF history
    <2>8. CASE Drained(Worker)
      <3>1. W.pc = "drain" /\ Futures(Worker) = {} /\ UNCHANGED <<rows, task, history>>
        BY <2>8, <1>w, DrainedEffect DEF W
      <3>2. CASE cancelReq[W.job]
        <4>1. run'[Worker].pc = "listCancel"
          BY <2>8, <3>2, <1>w, DrainedEffect DEF RunIs, W
        <4> QED BY <1>o, <1>r, <3>1, <4>1, CoveredKeep DEF Listed, Counting, rows, history
      <3>3. CASE ~cancelReq[W.job]
        <4>1. run'[Worker].job = W.job /\ run'[Worker].todo = W.todo
          BY <2>8, <3>3, <1>w, DrainedEffect DEF PcIs, RunIs, W
        <4>2. ~Holds(Worker, k)
          BY <3>1, <3>3 DEF DrainsToTheEnd, Futures, Holds, W
        <4>3. W.pc \in Listed
          BY <3>1 DEF Listed
        <4> QED BY <1>o, <1>r, <3>1, <4>1, <4>2, <4>3, CoveredKeep DEF rows, history
      <3> QED BY <3>2, <3>3
    <2>9. CASE ListCancel(Worker)
      <3>1. /\ run'[Worker].todo = QueuedItems(W.job) /\ run'[Worker].pc = "cancelItem"
            /\ run'[Worker].job = W.job
            /\ W.pc = "listCancel" /\ W.job \in Batch /\ Listing(W.job)
            /\ UNCHANGED <<rows, creator, task, aborted>>
        BY <2>9, <1>w, ListCancelEffect DEF RunIs, W, Typed, Steady, Free
      <3>2. task[Worker][k] = "none"
        BY <1>w, <3>1 DEF Books, BooksOf, Pool, W
      <3>3. ASSUME BatchOf[k] = W.job, BatchOf[k] \notin early' \cup aborted
            PROVE  item[k] \in Finished \/ k \in run'[Worker].todo
        <4>1. Ready(W.job)
          BY <1>w, <3>1, <3>3 DEF Made, Listing, Ready, W
        <4>2. item[k] \notin {"absent", "running"}
          BY <3>1, <3>2, <3>3, <4>1, <1>t DEF Created, CreatedOf, ItemsOf, TrackedOf
        <4>3. item[k] = "queued" => k \in run'[Worker].todo
          BY <3>1, <3>3 DEF QueuedItems, ItemsOf
        <4> QED BY <4>2, <4>3 DEF Typed, Columns, ItemStatus
      <3> QED BY <1>o, <1>r, <3>1, <3>3, <1>b DEF CoveredOf, Listing, Counting, Holds, W, rows
    <2>10. CASE CancelItem(Worker)
      <3>0. /\ W.pc = "cancelItem" /\ W.pc \in Listed /\ run'[Worker].job = W.job
            /\ UNCHANGED <<status, task, history>>
        BY <2>10, <1>w, CancelItemEffect DEF PcIs, RunIs, W, Listed
      <3>4. task[Worker][k] = "none"
        BY <1>w, <3>0 DEF Books, BooksOf, Pool, W
      <3>1. CASE run[Worker].todo = {}
        <4>1. run'[Worker].todo = W.todo /\ item' = item
          BY <2>10, <3>1, <1>w, CancelItemEffect DEF PcIs, RunIs, W
        <4>2. ~Holds(Worker, k)
          BY <3>1, <3>4 DEF Holds, W
        <4> QED BY <1>o, <1>r, <3>0, <4>1, <4>2, CoveredKeep DEF history
      <3>2. CASE run[Worker].todo # {}
        <4>1. PICK i \in W.todo : ItemIs(i, "cancelled") /\ run'[Worker].todo = W.todo \ {i} /\ run'[Worker].pc = "cancelItem"
          BY <2>10, <3>2, <1>w, CancelItemEffect DEF RunIs, W
        <4>2. k = i => item'[k] \in Finished
          BY <4>1 DEF ItemIs, Finished
        <4>3. k # i => item'[k] = item[k] /\ (Holds(Worker, k) => Holds(Worker, k)')
          BY <3>0, <4>1, <1>w DEF ItemIs, Holds, W
        <4>4. run'[Worker].pc \notin Counting
          BY <4>1 DEF Counting
        <4> QED BY <1>o, <1>r, <3>0, <4>2, <4>3, <4>4, CoveredKeep DEF history
      <3> QED BY <3>1, <3>2
    <2>11. CASE CountRead(Worker)
      <3>1. /\ run'[Worker].pc \in Listed => run'[Worker].job = W.job /\ W.pc \in Listed /\ run'[Worker].todo = W.todo
            /\ run'[Worker].pc \in Counting => W.pc \in Counting
            /\ UNCHANGED <<status, item, task, early, aborted>>
        BY <2>11, <1>w, CountReadEffect DEF PcIs, RunIs, W, Listed, Counting, rows, history
      <3> QED BY <1>o, <1>r, <3>1, CoveredKeep DEF Holds, Counting, Listed, W
    <2>12. CASE CountWrite(Worker)
      <3>1. /\ run'[Worker].pc \in Listed => run'[Worker].job = W.job /\ W.pc \in Listed /\ run'[Worker].todo = W.todo
            /\ run'[Worker].pc \in Counting => W.pc \in Counting
            /\ UNCHANGED <<status, item, task, early, aborted>>
        BY <2>12, <1>w, CountWriteEffect DEF PcIs, RunIs, W, Listed, Counting, rows, history
      <3> QED BY <1>o, <1>r, <3>1, CoveredKeep DEF Holds, Counting, Listed, W
    <2>13. CASE Decide(Worker)
      <3>1. /\ run'[Worker].pc \in Listed => run'[Worker].job = W.job /\ W.pc \in Listed /\ run'[Worker].todo = W.todo
            /\ run'[Worker].pc \in Counting => W.pc \in Counting
            /\ UNCHANGED <<status, item, task, early, aborted>>
        BY <2>13, <1>w, DecideEffect DEF PcIs, RunIs, W, Listed, Counting, rows, history
      <3> QED BY <1>o, <1>r, <3>1, CoveredKeep DEF Holds, Counting, Listed, W
    <2>14. CASE Finish(Worker)
      <3>1. /\ W.job \in Batch /\ StatusIs(W.job, run[Worker].verdict)
            /\ run'[Worker].pc = "manifest"
            /\ W.pc = "finish" /\ UNCHANGED <<item, task, early, aborted>>
        BY <2>14, <1>w, FinishEffect DEF PcIs, RunIs, W, Typed, Steady, Free, history
      <3>2. BatchOf[k] = W.job /\ BatchOf[k] \notin early \cup aborted => Ready(BatchOf[k]) /\ item[k] \in Finished
        BY <1>o, <1>l, <3>1 DEF CoveredOf, Counting, Listed
      <3>3. BatchOf[k] # W.job => status'[BatchOf[k]] = status[BatchOf[k]]
        BY <3>1, <1>b DEF StatusIs
      <3>4. run'[Worker].pc \notin Listed \cup Counting
        BY <3>1 DEF Listed, Counting
      <3> QED BY <1>o, <1>r, <3>1, <3>2, <3>3, <3>4 DEF CoveredOf, W
    <2>15. CASE Manifest(Worker)
      <3>1. run'[Worker].job = Worker /\ UNCHANGED <<rows, history>>
        BY <2>15, <1>w, ManifestEffect DEF RunIs
      <3> QED BY <1>o, <1>r, <1>b, <3>1, SingleAssumption DEF CoveredOf, rows, history, W
    <2>16. CASE FailBatch(Worker)
      <3>1. /\ run'[Worker].job = Worker /\ W.job \in Batch /\ StatusIs(W.job, "failed")
            /\ aborted' = aborted \cup {W.job} /\ UNCHANGED <<item, early>>
        BY <2>16, <1>w, FailBatchEffect DEF RunIs, W, Typed, Steady, Free
      <3>2. BatchOf[k] # W.job => status'[BatchOf[k]] = status[BatchOf[k]]
        BY <3>1, <1>b DEF StatusIs
      <3> QED BY <1>o, <1>r, <1>b, <3>1, <3>2, SingleAssumption DEF CoveredOf, W
    <2> QED
      BY <1>9, <2>1, <2>2, <2>3, <2>4, <2>5, <2>6, <2>7, <2>8, <2>9,
         <2>10, <2>11, <2>12, <2>13, <2>14, <2>15, <2>16 DEF Execute
  <1>10. CASE RunFault(Worker)
    <2>1. /\ run'[Worker].pc \in Listed => run'[Worker].job = W.job /\ W.pc \in Listed /\ run'[Worker].todo = W.todo
          /\ run'[Worker].pc \in Counting => W.pc \in Counting
          /\ UNCHANGED <<status, item, task, early, aborted>>
      BY <1>10, <1>w, RunFaultEffect DEF PcIs, RunIs, W, Listed, Counting, rows, history
    <2> QED BY <1>o, <1>r, <2>1, CoveredKeep DEF Holds, Counting, Listed, W
  <1>11. CASE Crash(Worker)
    <2>1. run'[Worker].job = Worker /\ UNCHANGED <<rows, history>>
      BY <1>11, <1>w, CrashEffect DEF RunIs
    <2> QED BY <1>o, <1>r, <1>b, <2>1, SingleAssumption DEF CoveredOf, rows, history, W
  <1>12. ASSUME NEW i \in Item, RunItem(Worker, i) PROVE CoveredOf(k)'
    <2>1. CASE TaskStart(Worker, i)
      <3>1. /\ task[Worker][i] = "submitted" /\ TaskIs(Worker, i, "working")
            /\ ItemIs(i, "running")
            /\ UNCHANGED <<status, run, early, aborted>>
        BY <2>1, <1>w, TaskStartEffect
      <3>a. CASE k = i
        <4>1. BatchOf[k] = W.job /\ W.pc \in Pool
          BY <1>w, <3>1, <3>a DEF Books, BooksOf, W
        <4>2. status[BatchOf[k]] \notin Ended
          BY <3>1, <3>a, <4>1, <1>b DEF Staged, Ended
        <4>3. W.pc \notin Counting
          BY <4>1 DEF Pool, Counting
        <4>4. Holds(Worker, k)'
          BY <3>1, <3>a, <1>w DEF TaskIs, Holds
        <4> QED BY <3>1, <4>2, <4>3, <4>4 DEF CoveredOf, W
      <3>b. CASE k # i
        BY <1>o, <1>r, <1>w, <3>1, <3>b, CoveredKeep DEF TaskIs, ItemIs, W, Holds
      <3> QED BY <3>a, <3>b
    <2>2. CASE TaskStore(Worker, i)
      <3>1. PICK to \in {"stored", "storedError"} : TaskIs(Worker, i, to)
        BY <2>2, <1>w, TaskStoreEffect
      <3>2. (ItemIs(i, "success") \/ ItemIs(i, "failed")) /\ UNCHANGED <<status, run, history>>
        BY <2>2, <1>w, TaskStoreEffect
      <3>3. item'[k] = item[k] \/ item'[k] \in Finished
        BY <3>2 DEF ItemIs, Finished
      <3>4. Holds(Worker, k) => Holds(Worker, k)'
        BY <1>w, <3>1, <3>2 DEF TaskIs, Holds
      <3> QED BY <1>o, <1>r, <3>2, <3>3, <3>4, CoveredKeep DEF history, W
    <2>3. CASE TaskCount(Worker, i)
      <3>1. PICK to \in {"sawBad", "sawClean"} : TaskIs(Worker, i, to)
        BY <2>3, <1>w, TaskCountEffect
      <3>2. UNCHANGED <<status, item, run, early, aborted>>
        BY <2>3, <1>w, TaskCountEffect DEF rows, history
      <3>4. Holds(Worker, k) => Holds(Worker, k)'
        BY <1>w, <3>1, <3>2 DEF TaskIs, Holds
      <3> QED BY <1>o, <1>r, <3>2, <3>4, CoveredKeep DEF W
    <2>4. CASE TaskWrite(Worker, i)
      <3>1. PICK to \in {"done"} : TaskIs(Worker, i, to)
        BY <2>4, <1>w, TaskWriteEffect
      <3>2. UNCHANGED <<status, item, run, early, aborted>>
        BY <2>4, <1>w, TaskWriteEffect DEF rows, history
      <3>4. Holds(Worker, k) => Holds(Worker, k)'
        BY <1>w, <3>1, <3>2 DEF TaskIs, Holds
      <3> QED BY <1>o, <1>r, <3>2, <3>4, CoveredKeep DEF W
    <2> QED BY <1>12, <2>1, <2>2, <2>3, <2>4 DEF RunItem
  <1>13. ASSUME NEW i \in Item, TaskFault(Worker, i) PROVE CoveredOf(k)'
    <2>1. PICK to \in {"erring", "raised"} : TaskIs(Worker, i, to)
      BY <1>13, <1>w, TaskFaultEffect
    <2>2. UNCHANGED <<status, item, run, early, aborted>>
      BY <1>13, <1>w, TaskFaultEffect DEF rows, history
    <2>4. Holds(Worker, k) => Holds(Worker, k)'
      BY <1>w, <2>1, <2>2 DEF TaskIs, Holds
    <2> QED BY <1>o, <1>r, <2>2, <2>4, CoveredKeep DEF W
  <1>14. CASE WorkerDies
    <2>1. run'[Worker].job = Worker /\ UNCHANGED <<rows, history>>
      BY <1>14, <1>w, WorkerDiesEffect DEF RunIs
    <2> QED BY <1>o, <1>r, <1>b, <2>1, SingleAssumption DEF CoveredOf, rows, history, W
  <1>15. CASE WorkerStart
    <2>1. run'[Worker].job = Worker /\ W.job = Worker /\ UNCHANGED <<early, aborted>>
      BY <1>15, <1>w, WorkerStartEffect DEF PcIs, RunIs, W, Typed, Steady, Free
    <2>2. status'[BatchOf[k]] \in Ended => status'[BatchOf[k]] = status[BatchOf[k]] /\ item'[k] = item[k]
      BY <1>15, <1>b, WorkerStartEffect DEF Interrupted, Ended
    <2> QED BY <1>o, <1>r, <1>b, <2>1, <2>2, SingleAssumption DEF CoveredOf, W
  <1> QED
    BY <1>2, <1>3, <1>4, <1>5, <1>6, <1>7, <1>8, <1>9, <1>10, <1>11, <1>12, <1>13,
       <1>14, <1>15 DEF Next

-----------------------------------------------------------------------------
(* The verdict.                                                            *)

AllGood(b) == \A i \in ItemsOf(b) : item[i] = "success"

\* The verdict is made from what the runner itself has read, its write and its second
\* look at the row in between, unless a stale recount came in the way.
VerdictOf(b) ==
    b \notin early \cup aborted =>
        /\ W.job = b /\ W.pc = "countWrite" => (W.seen <=> HasBad(b))
        /\ W.job = b /\ W.pc = "decide" /\ b \notin blurred => (bad[b] <=> HasBad(b))
        /\ W.job = b /\ W.pc \in {"recount", "recountWrite", "finish"}
              /\ W.verdict = "completed" /\ b \notin blurred => AllGood(b)
        /\ status[b] = "completed" /\ b \notin blurred => AllGood(b)
Judged == \A b \in Ordinary : VerdictOf(b)

\* The items of a batch that is being counted, or that ended, do not change.
LEMMA Quiet ==
    ASSUME Typed, Books, Made, Created, ListedReady, Staged, Tracked, Covered, [Next]_vars,
           NEW b \in Ordinary, b \notin early \cup aborted,
           status[b] \in Ended \/ (W.job = b /\ W.pc \in Counting),
           NEW i \in ItemsOf(b)
    PROVE  item'[i] = item[i]
  <1>1. i \in Item /\ BatchOf[i] = b /\ b \in Batch
    BY DEF ItemsOf, Ordinary
  <1>2. Worker \in Executor /\ Counting \subseteq Listed /\ Counting \cap Pool = {}
    BY DEF Executor, Counting, Listed, Pool
  <1>3. item[i] \in Finished /\ Ready(b)
    BY <1>1, <1>2 DEF Covered, CoveredOf, ListedReady, W
  <1>4. task[Worker][i] = "none"
    <2>1. CASE status[b] \in Ended
      BY <1>1, <1>2, <2>1 DEF Books, BooksOf, Staged, Ended, W
    <2>2. CASE W.pc \in Counting
      BY <1>1, <1>2, <2>2 DEF Books, BooksOf, W
    <2> QED BY <2>1, <2>2
  <1>5. \/ item'[i] = item[i]
        \/ item'[i] = "failed" /\ task[Worker][i] \in {"erring", "raised"}
    BY <1>1, <1>3, FinishedStep
  <1> QED BY <1>4, <1>5

\* What is not part of the verdict keeps it.
LEMMA VerdictKeep ==
    ASSUME NEW b \in Ordinary, VerdictOf(b),
           b \in early => b \in early', b \in aborted => b \in aborted',
           b \in blurred => b \in blurred',
           b \notin early \cup aborted
             /\ (status[b] \in Ended \/ (W.job = b /\ W.pc \in Counting))
             => \A i \in ItemsOf(b) : item'[i] = item[i],
           bad'[b] = bad[b],
           status'[b] = "completed" /\ b \notin aborted => status[b] = "completed",
           \/ run'[Worker] = W
           \/ run'[Worker].pc \notin {"countWrite", "decide", "recount", "recountWrite", "finish"}
           \/ run'[Worker].pc = "recount" /\ run'[Worker].verdict = "cancelled"
           \/ run'[Worker].job = Worker
    PROVE  VerdictOf(b)'
  <1>1. b # Worker /\ "completed" \in Ended
        /\ {"countWrite", "decide", "recount", "recountWrite", "finish"} \subseteq Counting
    BY SingleAssumption DEF Ordinary, Ended, Counting
  <1>2. (\A i \in ItemsOf(b) : item'[i] = item[i])
        => (HasBad(b)' <=> HasBad(b)) /\ (AllGood(b)' <=> AllGood(b))
    BY DEF HasBad, AllGood, ItemsOf
  <1>3. /\ status'[b] = "completed" /\ b \notin early' \cup aborted' => status[b] = "completed"
        /\ b \notin early' \cup aborted' => b \notin early \cup aborted
    OBVIOUS
  <1>4. ASSUME b \notin early' \cup aborted', status'[b] = "completed", b \notin blurred'
        PROVE  AllGood(b)'
    <2>1. b \notin early \cup aborted /\ status[b] = "completed" /\ b \notin blurred
      BY <1>3, <1>4
    <2>2. AllGood(b)
      BY <2>1 DEF VerdictOf
    <2>3. \A i \in ItemsOf(b) : item'[i] = item[i]
      BY <1>1, <2>1
    <2> QED BY <1>2, <2>2, <2>3
  <1>5. CASE run'[Worker] = W
    <2>1. ASSUME b \notin early' \cup aborted', W.job = b, W.pc \in Counting
          PROVE  (HasBad(b)' <=> HasBad(b)) /\ (AllGood(b)' <=> AllGood(b))
      BY <1>2, <1>3, <2>1
    <2>2. W' = W
      BY <1>5 DEF W
    <2> QED BY <1>1, <1>3, <1>4, <2>1, <2>2 DEF VerdictOf
  <1>6. CASE \/ run'[Worker].pc \notin {"countWrite", "decide", "recount", "recountWrite", "finish"}
             \/ run'[Worker].pc = "recount" /\ run'[Worker].verdict = "cancelled"
             \/ run'[Worker].job = Worker
    <2>1. \/ W'.pc \notin {"countWrite", "decide", "recount", "recountWrite", "finish"}
          \/ W'.pc = "recount" /\ W'.verdict = "cancelled"
          \/ W'.job = Worker
      BY <1>6 DEF W
    <2> QED BY <1>1, <1>4, <2>1 DEF VerdictOf
  <1> QED BY <1>5, <1>6

\* A recount keeps it, or is noted.
LEMMA VerdictCounted ==
    ASSUME Typed, NEW b \in Batch, NEW seen, Counted(b, seen), NEW c \in Ordinary, VerdictOf(c),
           UNCHANGED <<status, item, run, early, aborted>>
    PROVE  VerdictOf(c)'
  <1>1. (HasBad(c)' <=> HasBad(c)) /\ (AllGood(c)' <=> AllGood(c))
    BY DEF HasBad, AllGood, ItemsOf
  <1>2. /\ c \notin blurred' => c \notin blurred
        /\ c # b => bad'[c] = bad[c]
    BY DEF Counted, Ordinary
  <1>3. c = b /\ c \notin blurred' /\ W.job = c /\ W.pc = "decide" => (bad'[c] <=> HasBad(c))
    BY DEF Counted, Executor, W
  <1> QED BY <1>1, <1>2, <1>3 DEF VerdictOf, W

\* Every step keeps the verdict honest.
LEMMA JudgedStep ==
    ASSUME Typed, Books, Made, Created, ListedReady, Staged, Tracked, Covered, Judged,
           [Next]_vars
    PROVE  Judged'
  <1> SUFFICES ASSUME NEW c \in Ordinary
               PROVE  VerdictOf(c)'
    BY DEF Judged
  <1>o. VerdictOf(c)
    BY DEF Judged
  <1>b. c \in Batch /\ c \in Ordinary /\ c # Worker
    BY SingleAssumption DEF Ordinary
  <1>q. c \notin early \cup aborted /\ (status[c] \in Ended \/ (W.job = c /\ W.pc \in Counting))
        => \A i \in ItemsOf(c) : item'[i] = item[i]
    BY Quiet
  <1>w. Worker \in Executor
    BY DEF Executor
  <1>1. CASE Apart
    BY <1>1, <1>o, <1>q, VerdictKeep DEF Apart, W
  <1>2. CASE UNCHANGED vars
    BY <1>1, <1>2 DEF vars, rows, history, Apart
  <1>3. ASSUME NEW e \in Executor, e # Worker,
               \/ Execute(e) \/ RunFault(e) \/ Crash(e)
               \/ \E i \in Item : RunItem(e, i) \/ TaskFault(e, i)
        PROVE  VerdictOf(c)'
    BY <1>1, <1>3, WebThread
  <1>4. ASSUME NEW b \in Batch, Create(b) PROVE VerdictOf(c)'
    <2>1. CASE InsertBatch(b)
      <3>1. StatusIs(b, "queued") /\ UNCHANGED <<bad, run, history>>
        BY <2>1, InsertBatchEffect
      <3>2. status'[c] = "completed" => status[c] = "completed"
        BY <3>1, <1>b DEF StatusIs
      <3> QED BY <1>o, <1>q, <3>1, <3>2, VerdictKeep DEF history, W
    <2>2. CASE CreateItem(b)
      BY <2>2, <1>o, <1>q, CreateItemEffect, VerdictKeep DEF rows, history, W
    <2>3. CASE MarkIneligible(b)
      BY <2>3, <1>o, <1>q, VerdictKeep DEF MarkIneligible, history, W
    <2>4. CASE CreatorCount(b)
      BY <2>4, <1>o, <1>q, CreatorCountEffect, VerdictKeep DEF rows, history, W
    <2>5. CASE CreatorWrite(b)
      <3>1. Counted(b, creator[b] = "sawBad") /\ UNCHANGED <<status, item, run, early, aborted>>
        BY <2>5, CreatorWriteEffect
      <3> QED BY <1>o, <1>b, <3>1, VerdictCounted
    <2>6. CASE Enqueue(b)
      BY <2>6, <1>o, <1>q, EnqueueEffect, VerdictKeep DEF rows, history, W
    <2> QED BY <1>4, <2>1, <2>2, <2>3, <2>4, <2>5, <2>6 DEF Create
  <1>5. ASSUME NEW b \in Batch, CancelRead(b) PROVE VerdictOf(c)'
    BY <1>5, <1>o, <1>q, CancelReadEffect, VerdictKeep DEF rows, history, W
  <1>6. ASSUME NEW b \in Batch, ViewRead(b) PROVE VerdictOf(c)'
    BY <1>6, <1>o, <1>q, ViewReadEffect, VerdictKeep DEF rows, history, W
  <1>7. CASE CancelWrite
    <2>1. /\ request \in [batch : Batch, status : {"cancelling"} \cup Terminal]
          /\ StatusIs(request.batch, request.status)
          /\ UNCHANGED <<bad, run, history>>
      BY <1>7, CancelWriteEffect
    <2>2. status'[c] = "completed" /\ c \notin aborted => status[c] = "completed"
      BY <2>1, <1>b DEF Staged, StatusIs, Terminal
    <2> QED BY <1>o, <1>q, <2>1, <2>2, VerdictKeep DEF history, W
  <1>8. CASE ViewWrite
    <2>1. page \in [batch : Batch, seen : BOOLEAN] /\ Counted(page.batch, page.seen)
          /\ UNCHANGED <<status, item, run, early, aborted>>
      BY <1>8, ViewWriteEffect
    <2> QED BY <1>o, <1>b, <2>1, VerdictCounted
  <1>9. CASE Execute(Worker)
    <2>1. CASE Claim(Worker)
      <3>1. PICK b \in Batch : RunIs(Worker, "flag", b, {}, "none", FALSE)
        BY <2>1, <1>w, ClaimEffect
      <3>2. UNCHANGED <<rows, history>>
        BY <2>1, <1>w, ClaimEffect
      <3> QED BY <1>o, <1>q, <3>1, <3>2, VerdictKeep DEF RunIs, rows, history
    <2>2. CASE ReadFlag(Worker)
      <3>1. run'[Worker].pc \notin {"countWrite", "decide", "recount", "recountWrite", "finish"}
        BY <2>2, <1>w, ReadFlagEffect DEF PcIs, RunIs, Putting
      <3>2. UNCHANGED <<status, bad, blurred, aborted>> /\ \A b \in Batch : b \in early => b \in early'
        BY <2>2, <1>w, ReadFlagEffect DEF rows, history, Listing
      <3> QED BY <1>o, <1>q, <1>b, <3>1, <3>2, VerdictKeep
    <2>3. CASE Start(Worker)
      <3>1. /\ W.job \in Batch /\ StatusIs(W.job, "running") /\ run'[Worker].pc = "list"
            /\ UNCHANGED <<bad, history>>
        BY <2>3, <1>w, StartEffect DEF PcIs, RunIs, W, Typed, Steady, Free
      <3>2. status'[c] = "completed" => status[c] = "completed"
        BY <3>1, <1>b DEF StatusIs
      <3> QED BY <1>o, <1>q, <3>1, <3>2, VerdictKeep DEF history
    <2>4. CASE List(Worker)
      <3>1. run'[Worker].pc \notin {"countWrite", "decide", "recount", "recountWrite", "finish"}
        BY <2>4, <1>w, ListEffect DEF PcIs, RunIs, Putting
      <3>2. UNCHANGED <<status, bad, blurred, aborted>> /\ \A b \in Batch : b \in early => b \in early'
        BY <2>4, <1>w, ListEffect DEF rows, history, Listing
      <3> QED BY <1>o, <1>q, <1>b, <3>1, <3>2, VerdictKeep
    <2>5. CASE Check(Worker)
      <3>1. run'[Worker].pc \notin {"countWrite", "decide", "recount", "recountWrite", "finish"}
        BY <2>5, <1>w, CheckEffect DEF PcIs, RunIs, Putting
      <3>2. UNCHANGED <<status, bad, blurred, aborted>> /\ \A b \in Batch : b \in early => b \in early'
        BY <2>5, <1>w, CheckEffect DEF rows, history, Listing
      <3> QED BY <1>o, <1>q, <1>b, <3>1, <3>2, VerdictKeep
    <2>6. CASE Submit(Worker)
      <3>1. run'[Worker].pc \notin {"countWrite", "decide", "recount", "recountWrite", "finish"}
        BY <2>6, <1>w, SubmitEffect DEF PcIs, RunIs, Putting
      <3>2. UNCHANGED <<status, bad, blurred, aborted>> /\ \A b \in Batch : b \in early => b \in early'
        BY <2>6, <1>w, SubmitEffect DEF rows, history, Listing
      <3> QED BY <1>o, <1>q, <1>b, <3>1, <3>2, VerdictKeep
    <2>7. ASSUME NEW i \in Item, Collect(Worker, i) PROVE VerdictOf(c)'
      <3>1. run'[Worker].pc = "refill" /\ UNCHANGED <<status, bad, history>>
        BY <2>7, <1>w, CollectEffect DEF PcIs, RunIs
      <3> QED BY <1>o, <1>q, <3>1, VerdictKeep DEF history
    <2>8. CASE Drained(Worker)
      <3>1. run'[Worker].pc \notin {"countWrite", "decide", "recount", "recountWrite", "finish"}
        BY <2>8, <1>w, DrainedEffect DEF PcIs, RunIs, Putting
      <3>2. UNCHANGED <<status, bad, blurred, aborted>> /\ \A b \in Batch : b \in early => b \in early'
        BY <2>8, <1>w, DrainedEffect DEF rows, history, Listing
      <3> QED BY <1>o, <1>q, <1>b, <3>1, <3>2, VerdictKeep
    <2>9. CASE ListCancel(Worker)
      <3>1. run'[Worker].pc \notin {"countWrite", "decide", "recount", "recountWrite", "finish"}
        BY <2>9, <1>w, ListCancelEffect DEF PcIs, RunIs, Putting
      <3>2. UNCHANGED <<status, bad, blurred, aborted>> /\ \A b \in Batch : b \in early => b \in early'
        BY <2>9, <1>w, ListCancelEffect DEF rows, history, Listing
      <3> QED BY <1>o, <1>q, <1>b, <3>1, <3>2, VerdictKeep
    <2>10. CASE CancelItem(Worker)
      <3>1. /\ run'[Worker].pc \in {"cancelItem", "recount"} /\ run'[Worker].verdict = "cancelled"
            /\ UNCHANGED <<status, bad, history>>
        BY <2>10, <1>w, CancelItemEffect DEF PcIs, RunIs, W, Typed, Steady
      <3> QED BY <1>o, <1>q, <3>1, VerdictKeep DEF history
    <2>11. CASE CountRead(Worker)
      <3>1. /\ W.pc \in {"count", "recount"} /\ run'[Worker].job = W.job
            /\ run'[Worker].verdict = W.verdict /\ run'[Worker].seen = HasBad(W.job)
            /\ run'[Worker].pc = IF W.pc = "count" THEN "countWrite" ELSE "recountWrite"
            /\ UNCHANGED <<rows, history>>
        BY <2>11, <1>w, CountReadEffect DEF RunIs, W
      <3>2. HasBad(c)' <=> HasBad(c)
        BY <3>1 DEF HasBad, ItemsOf, rows
      <3> QED BY <1>o, <3>1, <3>2 DEF VerdictOf, AllGood, ItemsOf, W, rows, history
    <2>12. CASE CountWrite(Worker)
      <3>1. /\ W.pc \in {"countWrite", "recountWrite"} /\ run'[Worker].job = W.job
            /\ run'[Worker].verdict = W.verdict /\ Counted(W.job, W.seen)
            /\ run'[Worker].pc = IF W.pc = "countWrite" THEN "decide" ELSE "finish"
            /\ UNCHANGED <<status, item, early, aborted>>
        BY <2>12, <1>w, CountWriteEffect DEF RunIs, W
      <3>2. HasBad(c)' <=> HasBad(c)
        BY <3>1 DEF HasBad, ItemsOf
      <3>3. /\ c \notin blurred' => c \notin blurred
            /\ W.job = c => bad'[c] = W.seen
        BY <3>1 DEF Counted
      <3> QED BY <1>o, <3>1, <3>2, <3>3 DEF VerdictOf, AllGood, ItemsOf, W
    <2>13. CASE Decide(Worker)
      <3>1. /\ W.pc = "decide" /\ run'[Worker].job = W.job /\ run'[Worker].pc = "recount"
            /\ run'[Worker].verdict = IF bad[W.job] THEN "completed_with_failures" ELSE "completed"
            /\ UNCHANGED <<rows, history>>
        BY <2>13, <1>w, DecideEffect DEF RunIs, W
      <3>2. ASSUME W.job = c, c \notin early \cup aborted \cup blurred, ~bad[c]
            PROVE  AllGood(c)
        <4>1. ~HasBad(c)
          BY <1>o, <3>1, <3>2 DEF VerdictOf
        <4>2. \A i \in ItemsOf(c) : item[i] \in Finished
          BY <3>1, <3>2, <1>b DEF Covered, CoveredOf, Counting, ItemsOf
        <4> QED BY <4>1, <4>2 DEF HasBad, AllGood, BadItem, Finished
      <3>3. AllGood(c)' <=> AllGood(c)
        BY <3>1 DEF AllGood, ItemsOf, rows
      <3>4. UNCHANGED <<status, bad, early, aborted, blurred>> /\ W' = run'[Worker]
        BY <3>1 DEF rows, history, W
      <3>5. ASSUME c \notin early \cup aborted, W'.job = c, W'.verdict = "completed", c \notin blurred
            PROVE  AllGood(c)
        BY <3>1, <3>2, <3>4, <3>5
      <3>6. status[c] = "completed" /\ c \notin blurred /\ c \notin early \cup aborted => AllGood(c)
        BY <1>o DEF VerdictOf
      <3>7. W'.pc = "recount"
        BY <3>1, <3>4
      <3> QED BY <3>3, <3>4, <3>5, <3>6, <3>7 DEF VerdictOf
    <2>14. CASE Finish(Worker)
      <3>1. /\ W.job \in Batch /\ StatusIs(W.job, W.verdict) /\ run'[Worker].pc = "manifest"
            /\ W.pc = "finish" /\ UNCHANGED <<bad, item, history>>
        BY <2>14, <1>w, FinishEffect DEF PcIs, RunIs, W, Typed, Steady, Free
      <3>2. c # W.job => status'[c] = status[c]
        BY <3>1, <1>b DEF StatusIs
      <3>3. (AllGood(c)' <=> AllGood(c)) /\ W'.pc = "manifest" /\ UNCHANGED <<early, aborted, blurred>>
        BY <3>1 DEF AllGood, ItemsOf, history, W
      <3>4. status'[W.job] = W.verdict
        BY <3>1 DEF StatusIs
      <3>5. ASSUME c \notin early \cup aborted, status'[c] = "completed", c \notin blurred
            PROVE  AllGood(c)
        BY <1>o, <3>1, <3>2, <3>4, <3>5 DEF VerdictOf
      <3> QED BY <3>3, <3>5 DEF VerdictOf
    <2>15. CASE Manifest(Worker)
      <3>1. run'[Worker].job = Worker /\ UNCHANGED <<rows, history>>
        BY <2>15, <1>w, ManifestEffect DEF RunIs
      <3> QED BY <1>o, <1>b, <3>1 DEF VerdictOf, AllGood, ItemsOf, W, rows, history
    <2>16. CASE FailBatch(Worker)
      <3>1. /\ W.job \in Batch /\ StatusIs(W.job, "failed") /\ run'[Worker].job = Worker
            /\ UNCHANGED <<bad, item, early, blurred>>
            /\ aborted' = aborted \cup {W.job}
        BY <2>16, <1>w, FailBatchEffect DEF RunIs, W, Typed, Steady, Free
      <3>2. status'[c] = "completed" => status[c] = "completed"
        BY <3>1, <1>b DEF StatusIs
      <3> QED BY <1>o, <1>b, <3>1, <3>2 DEF VerdictOf, AllGood, ItemsOf, W
    <2> QED
      BY <1>9, <2>1, <2>2, <2>3, <2>4, <2>5, <2>6, <2>7, <2>8, <2>9,
         <2>10, <2>11, <2>12, <2>13, <2>14, <2>15, <2>16 DEF Execute
  <1>10. CASE RunFault(Worker)
    <2>1. run'[Worker].pc \notin {"countWrite", "decide", "recount", "recountWrite", "finish"}
      BY <1>10, <1>w, RunFaultEffect DEF PcIs, RunIs, Putting
    <2>2. UNCHANGED <<status, bad, blurred, aborted>> /\ \A b \in Batch : b \in early => b \in early'
      BY <1>10, <1>w, RunFaultEffect DEF rows, history, Listing
    <2> QED BY <1>o, <1>q, <1>b, <2>1, <2>2, VerdictKeep
  <1>11. CASE Crash(Worker)
    <2>1. run'[Worker].job = Worker /\ UNCHANGED <<rows, history>>
      BY <1>11, <1>w, CrashEffect DEF RunIs
    <2> QED BY <1>o, <1>b, <2>1 DEF VerdictOf, AllGood, ItemsOf, W, rows, history
  <1>12. ASSUME NEW i \in Item, RunItem(Worker, i) PROVE VerdictOf(c)'
    <2>1. CASE TaskStart(Worker, i)
      BY <2>1, <1>w, <1>o, <1>q, TaskStartEffect, VerdictKeep DEF rows, history, W
    <2>2. CASE TaskStore(Worker, i)
      BY <2>2, <1>w, <1>o, <1>q, TaskStoreEffect, VerdictKeep DEF rows, history, W
    <2>3. CASE TaskCount(Worker, i)
      BY <2>3, <1>w, <1>o, <1>q, TaskCountEffect, VerdictKeep DEF rows, history, W
    <2>4. CASE TaskWrite(Worker, i)
      <3>1. Counted(BatchOf[i], task[Worker][i] = "sawBad") /\ BatchOf[i] \in Batch
            /\ UNCHANGED <<status, item, run, early, aborted>>
        BY <2>4, <1>w, TaskWriteEffect, ItemAssumption
      <3> QED BY <1>o, <1>b, <3>1, VerdictCounted
    <2> QED BY <1>12, <2>1, <2>2, <2>3, <2>4 DEF RunItem
  <1>13. ASSUME NEW i \in Item, TaskFault(Worker, i) PROVE VerdictOf(c)'
    BY <1>13, <1>w, <1>o, <1>q, TaskFaultEffect, VerdictKeep DEF rows, history, W
  <1>14. CASE WorkerDies
    <2>1. run'[Worker].job = Worker /\ UNCHANGED <<rows, history>>
      BY <1>14, <1>w, WorkerDiesEffect DEF RunIs
    <2> QED BY <1>o, <1>b, <2>1 DEF VerdictOf, AllGood, ItemsOf, W, rows, history
  <1>15. CASE WorkerStart
    <2>1. run'[Worker].job = Worker /\ UNCHANGED <<bad, early, aborted, blurred>>
      BY <1>15, <1>w, WorkerStartEffect DEF PcIs, RunIs, W, Typed, Steady, Free
    <2>2. status'[c] = "completed" => status[c] = "completed"
      BY <1>15, <1>b, WorkerStartEffect
    <2> QED BY <1>o, <1>b, <1>q, <2>1, <2>2, VerdictKeep
  <1> QED
    BY <1>2, <1>3, <1>4, <1>5, <1>6, <1>7, <1>8, <1>9, <1>10, <1>11, <1>12, <1>13,
       <1>14, <1>15 DEF Next

-----------------------------------------------------------------------------
(* Cancellation.                                                           *)

\* The items handed to the pool and not started, and the one about to be.
Outstanding(b) ==
    {i \in ItemsOf(b) : task[Worker][i] = "submitted"}
      \cup (IF W.job = b /\ W.pc \in Putting THEN {Min(W.todo)} ELSE {})

\* Nothing starts late before the cancellation is recorded; from then on only what
\* was outstanding does.
LateOf(b) ==
    b \notin lost =>
        /\ ~cancelReq[b] => late[b] = {}
        /\ cancelReq[b] => /\ IsFiniteSet(late[b] \cup Outstanding(b))
                           /\ Cardinality(late[b] \cup Outstanding(b)) <= MaxWorkers
Late == \A b \in Ordinary : LateOf(b)

\* What is outstanding fits into the pool.
LEMMA HandedOut ==
    ASSUME Typed, Books, RoomInPool, NEW b \in Ordinary
    PROVE  IsFiniteSet(Outstanding(b)) /\ Cardinality(Outstanding(b)) <= MaxWorkers
  <1> DEFINE F == Futures(Worker)
             S == {i \in ItemsOf(b) : task[Worker][i] = "submitted"}
  <1>1. /\ Worker \in Executor /\ MaxWorkers \in Nat
        /\ Putting \subseteq Room
    BY BoundAssumption DEF Executor, Putting, Room
  <1>2. IsFiniteSet(F) /\ Cardinality(F) \in Nat /\ Cardinality(F) <= MaxWorkers
    BY <1>1, FS_CardinalityType DEF RoomInPool
  <1>3. S \subseteq F
    BY DEF Futures, ItemsOf
  <1>4. IsFiniteSet(S) /\ Cardinality(S) \in Nat /\ Cardinality(S) <= Cardinality(F)
    BY <1>2, <1>3, FS_Subset, FS_CardinalityType
  <1>5. CASE W.job = b /\ W.pc \in Putting
    <2>1. Cardinality(F) < MaxWorkers
      BY <1>1, <1>5 DEF RoomInPool, W
    <2>2. /\ IsFiniteSet(S \cup {Min(W.todo)})
          /\ Cardinality(S \cup {Min(W.todo)}) = Cardinality(S)
             \/ Cardinality(S \cup {Min(W.todo)}) = Cardinality(S) + 1
      BY <1>4, FS_AddElement
    <2>3. Outstanding(b) = S \cup {Min(W.todo)}
      BY <1>5 DEF Outstanding
    <2> HIDE DEF F, S
    <2> QED BY <1>1, <1>2, <1>4, <2>1, <2>2, <2>3
  <1>6. CASE ~(W.job = b /\ W.pc \in Putting)
    <2>1. Outstanding(b) = S
      BY <1>6 DEF Outstanding
    <2> HIDE DEF F, S
    <2> QED BY <1>1, <1>2, <1>4, <2>1
  <1> QED BY <1>5, <1>6

\* A step that adds nothing to what is late or outstanding keeps the bound.
LEMMA LateShrinks ==
    ASSUME NEW b \in Ordinary, LateOf(b), b \in lost => b \in lost',
           cancelReq'[b] = cancelReq[b],
           cancelReq[b] => (late[b] \cup Outstanding(b))' \subseteq late[b] \cup Outstanding(b),
           b \notin lost /\ ~cancelReq[b] => late'[b] = {}
    PROVE  LateOf(b)'
  <1>1. ASSUME b \notin lost, cancelReq[b]
        PROVE  /\ IsFiniteSet((late[b] \cup Outstanding(b))')
               /\ Cardinality((late[b] \cup Outstanding(b))') <= MaxWorkers
    <2> DEFINE L == late[b] \cup Outstanding(b)
               M == L'
    <2>1. IsFiniteSet(L) /\ Cardinality(L) <= MaxWorkers /\ M \subseteq L
      BY <1>1 DEF LateOf
    <2> HIDE DEF L, M
    <2>2. IsFiniteSet(M) /\ Cardinality(M) <= Cardinality(L)
      BY <2>1, FS_Subset
    <2>3. Cardinality(M) \in Nat /\ Cardinality(L) \in Nat /\ MaxWorkers \in Nat
      BY <2>1, <2>2, FS_CardinalityType, BoundAssumption
    <2>4. IsFiniteSet(M) /\ Cardinality(M) <= MaxWorkers
      BY <2>1, <2>2, <2>3
    <2> QED BY <2>4 DEF L, M
  <1> QED BY <1>1 DEF LateOf

\* In particular one that neither starts nor hands over an item.
LEMMA LateKeep ==
    ASSUME NEW b \in Ordinary, LateOf(b), b \in lost => b \in lost',
           cancelReq'[b] = cancelReq[b], late'[b] = late[b],
           \A i \in Item : task'[Worker][i] = "submitted" => task[Worker][i] = "submitted",
           \/ run'[Worker] = W
           \/ run'[Worker].pc \notin Putting
           \/ cancelReq[b] => run'[Worker].job # b
    PROVE  LateOf(b)'
  <1>1. ASSUME cancelReq[b]
        PROVE  (late[b] \cup Outstanding(b))' \subseteq late[b] \cup Outstanding(b)
    BY <1>1 DEF Outstanding, ItemsOf, W
  <1>2. b \notin lost /\ ~cancelReq[b] => late'[b] = {}
    BY DEF LateOf
  <1> QED BY <1>1, <1>2, LateShrinks

\* Every step keeps the late starts within the size of the pool.
LEMMA LateStep ==
    ASSUME Typed, Books, RoomInPool, Late, [Next]_vars
    PROVE  Late'
  <1> SUFFICES ASSUME NEW c \in Ordinary
               PROVE  LateOf(c)'
    BY DEF Late
  <1>o. LateOf(c)
    BY DEF Late
  <1>b. c \in Batch /\ c \in Ordinary /\ c # Worker
    BY SingleAssumption DEF Ordinary
  <1>w. Worker \in Executor
    BY DEF Executor
  <1>1. CASE Apart
    BY <1>1, <1>o, <1>b, LateKeep DEF Apart, W
  <1>2. CASE UNCHANGED vars
    BY <1>1, <1>2 DEF vars, rows, history, Apart
  <1>3. ASSUME NEW e \in Executor, e # Worker,
               \/ Execute(e) \/ RunFault(e) \/ Crash(e)
               \/ \E i \in Item : RunItem(e, i) \/ TaskFault(e, i)
        PROVE  LateOf(c)'
    BY <1>1, <1>3, WebThread
  <1>4. ASSUME NEW b \in Batch, Create(b) PROVE LateOf(c)'
    <2>1. CASE InsertBatch(b)
      BY <2>1, <1>o, InsertBatchEffect, LateKeep DEF rows, history, W
    <2>2. CASE CreateItem(b)
      BY <2>2, <1>o, CreateItemEffect, LateKeep DEF rows, history, W
    <2>3. CASE MarkIneligible(b)
      BY <2>3, <1>o, LateKeep DEF MarkIneligible, rows, history, W
    <2>4. CASE CreatorCount(b)
      BY <2>4, <1>o, CreatorCountEffect, LateKeep DEF rows, history, W
    <2>5. CASE CreatorWrite(b)
      BY <2>5, <1>o, CreatorWriteEffect, LateKeep DEF rows, history, W
    <2>6. CASE Enqueue(b)
      BY <2>6, <1>o, EnqueueEffect, LateKeep DEF rows, history, W
    <2> QED BY <1>4, <2>1, <2>2, <2>3, <2>4, <2>5, <2>6 DEF Create
  <1>5. ASSUME NEW b \in Batch, CancelRead(b) PROVE LateOf(c)'
    BY <1>5, <1>o, CancelReadEffect, LateKeep DEF rows, history, W
  <1>6. ASSUME NEW b \in Batch, ViewRead(b) PROVE LateOf(c)'
    BY <1>6, <1>o, ViewReadEffect, LateKeep DEF rows, history, W
  <1>7. CASE CancelWrite
    <2>1. /\ \A b \in Batch : b # request.batch => cancelReq'[b] = cancelReq[b]
          /\ cancelReq'[request.batch] /\ UNCHANGED <<run, task, late, lost>>
      BY <1>7, CancelWriteEffect DEF history
    <2>2. CASE cancelReq'[c] = cancelReq[c]
      BY <1>o, <2>1, <2>2, LateKeep DEF W
    <2>3. CASE cancelReq'[c] # cancelReq[c]
      <3>1. c = request.batch /\ cancelReq'[c] /\ (c \notin lost => ~cancelReq[c])
        BY <2>1, <2>3, <1>b DEF Typed, Columns
      <3>2. c \notin lost => (late[c] \cup Outstanding(c)) = Outstanding(c)
        BY <1>o, <3>1 DEF LateOf
      <3>3. IsFiniteSet(Outstanding(c)) /\ Cardinality(Outstanding(c)) <= MaxWorkers
        BY HandedOut
      <3>4. UNCHANGED Outstanding(c)
        BY <2>1 DEF Outstanding, ItemsOf, W
      <3> QED BY <2>1, <3>1, <3>2, <3>3, <3>4 DEF LateOf
    <2> QED BY <2>2, <2>3
  <1>8. CASE ViewWrite
    BY <1>8, <1>o, ViewWriteEffect, LateKeep DEF W
  <1>9. CASE Execute(Worker)
    <2>1. CASE Claim(Worker)
      <3>1. run'[Worker].pc = "flag" /\ UNCHANGED <<rows, task, history>>
        BY <2>1, <1>w, ClaimEffect DEF RunIs
      <3> QED BY <1>o, <3>1, LateKeep DEF rows, history, Putting
    <2>2. CASE ReadFlag(Worker)
      <3>1. run'[Worker].pc \notin Putting
        BY <2>2, <1>w, ReadFlagEffect DEF PcIs, RunIs, Putting, Idle
      <3>2. UNCHANGED <<cancelReq, task, late, lost>>
        BY <2>2, <1>w, ReadFlagEffect DEF rows, history
      <3> QED BY <1>o, <3>1, <3>2, LateKeep
    <2>3. CASE Start(Worker)
      <3>1. run'[Worker].pc \notin Putting
        BY <2>3, <1>w, StartEffect DEF PcIs, RunIs, Putting, Idle
      <3>2. UNCHANGED <<cancelReq, task, late, lost>>
        BY <2>3, <1>w, StartEffect DEF rows, history
      <3> QED BY <1>o, <3>1, <3>2, LateKeep
    <2>4. CASE List(Worker)
      <3>1. run'[Worker].pc \notin Putting
        BY <2>4, <1>w, ListEffect DEF PcIs, RunIs, Putting, Idle
      <3>2. UNCHANGED <<cancelReq, task, late, lost>>
        BY <2>4, <1>w, ListEffect DEF rows, history
      <3> QED BY <1>o, <3>1, <3>2, LateKeep
    <2>5. CASE Check(Worker)
      <3>1. /\ run'[Worker].job = W.job
            /\ cancelReq[W.job] => run'[Worker].pc = "drain"
            /\ UNCHANGED <<rows, task, history>>
        BY <2>5, <1>w, CheckEffect DEF PcIs, RunIs, W
      <3> QED BY <1>o, <3>1, LateKeep DEF rows, history, Putting
    <2>6. CASE Submit(Worker)
      <3> DEFINE m == Min(W.todo)
      <3>1. /\ W.pc \in Putting /\ TaskIs(Worker, m, "submitted") /\ m \in W.todo
            /\ run'[Worker].pc \in {"fill", "drain"} /\ UNCHANGED <<rows, history>>
        BY <2>6, <1>w, SubmitEffect DEF RunIs, W
      <3>2. BatchOf[m] = W.job
        BY <1>w, <3>1 DEF Books, BooksOf, W
      <3>3. W.job = c => m \in Outstanding(c)
        BY <3>1 DEF Outstanding
      <3>4. W'.pc \notin Putting
        BY <3>1 DEF W, Putting
      <3> HIDE DEF m
      <3>5. Outstanding(c)' \subseteq Outstanding(c)
        <4>1. ASSUME NEW j \in Outstanding(c)'
              PROVE  j \in Outstanding(c)
          <5>1. j \in ItemsOf(c) /\ task'[Worker][j] = "submitted"
            BY <3>4, <4>1 DEF Outstanding
          <5>2. CASE j = m
            BY <3>2, <3>3, <5>1, <5>2 DEF ItemsOf
          <5>3. CASE j # m
            BY <3>1, <5>1, <5>3, <1>w DEF TaskIs, Outstanding, ItemsOf
          <5> QED BY <5>2, <5>3
        <4> QED BY <4>1
      <3>6. (late[c] \cup Outstanding(c))' \subseteq late[c] \cup Outstanding(c)
        BY <3>1, <3>5 DEF history
      <3> QED BY <1>o, <3>1, <3>6, LateShrinks DEF LateOf, rows, history
    <2>7. ASSUME NEW i \in Item, Collect(Worker, i) PROVE LateOf(c)'
      <3>1. run'[Worker].pc = "refill" /\ UNCHANGED <<cancelReq, history>>
        BY <2>7, <1>w, CollectEffect DEF PcIs, RunIs
      <3>2. \A j \in Item : task'[Worker][j] = "submitted" => task[Worker][j] = "submitted"
        BY <2>7, <1>w, CollectEffect DEF TaskIs
      <3> QED BY <1>o, <3>1, <3>2, LateKeep DEF history, Putting
    <2>8. CASE Drained(Worker)
      <3>1. run'[Worker].pc \notin Putting
        BY <2>8, <1>w, DrainedEffect DEF PcIs, RunIs, Putting, Idle
      <3>2. UNCHANGED <<cancelReq, task, late, lost>>
        BY <2>8, <1>w, DrainedEffect DEF rows, history
      <3> QED BY <1>o, <3>1, <3>2, LateKeep
    <2>9. CASE ListCancel(Worker)
      <3>1. run'[Worker].pc \notin Putting
        BY <2>9, <1>w, ListCancelEffect DEF PcIs, RunIs, Putting, Idle
      <3>2. UNCHANGED <<cancelReq, task, late, lost>>
        BY <2>9, <1>w, ListCancelEffect DEF rows, history
      <3> QED BY <1>o, <3>1, <3>2, LateKeep
    <2>10. CASE CancelItem(Worker)
      <3>1. run'[Worker].pc \notin Putting
        BY <2>10, <1>w, CancelItemEffect DEF PcIs, RunIs, Putting, Idle
      <3>2. UNCHANGED <<cancelReq, task, late, lost>>
        BY <2>10, <1>w, CancelItemEffect DEF rows, history
      <3> QED BY <1>o, <3>1, <3>2, LateKeep
    <2>11. CASE CountRead(Worker)
      <3>1. run'[Worker].pc \notin Putting
        BY <2>11, <1>w, CountReadEffect DEF PcIs, RunIs, Putting, Idle
      <3>2. UNCHANGED <<cancelReq, task, late, lost>>
        BY <2>11, <1>w, CountReadEffect DEF rows, history
      <3> QED BY <1>o, <3>1, <3>2, LateKeep
    <2>12. CASE CountWrite(Worker)
      <3>1. run'[Worker].pc \notin Putting
        BY <2>12, <1>w, CountWriteEffect DEF PcIs, RunIs, Putting, Idle
      <3>2. UNCHANGED <<cancelReq, task, late, lost>>
        BY <2>12, <1>w, CountWriteEffect DEF rows, history
      <3> QED BY <1>o, <3>1, <3>2, LateKeep
    <2>13. CASE Decide(Worker)
      <3>1. run'[Worker].pc \notin Putting
        BY <2>13, <1>w, DecideEffect DEF PcIs, RunIs, Putting, Idle
      <3>2. UNCHANGED <<cancelReq, task, late, lost>>
        BY <2>13, <1>w, DecideEffect DEF rows, history
      <3> QED BY <1>o, <3>1, <3>2, LateKeep
    <2>14. CASE Finish(Worker)
      <3>1. run'[Worker].pc \notin Putting
        BY <2>14, <1>w, FinishEffect DEF PcIs, RunIs, Putting, Idle
      <3>2. UNCHANGED <<cancelReq, task, late, lost>>
        BY <2>14, <1>w, FinishEffect DEF rows, history
      <3> QED BY <1>o, <3>1, <3>2, LateKeep
    <2>15. CASE Manifest(Worker)
      <3>1. run'[Worker].pc \notin Putting
        BY <2>15, <1>w, ManifestEffect DEF PcIs, RunIs, Putting, Idle
      <3>2. UNCHANGED <<cancelReq, task, late, lost>>
        BY <2>15, <1>w, ManifestEffect DEF rows, history
      <3> QED BY <1>o, <3>1, <3>2, LateKeep
    <2>16. CASE FailBatch(Worker)
      <3>1. /\ run'[Worker].job = Worker /\ \A j \in Item : task'[Worker][j] = "none"
            /\ UNCHANGED <<cancelReq, late, lost>>
        BY <2>16, <1>w, FailBatchEffect DEF RunIs, PoolGone, rows, history
      <3> QED BY <1>o, <1>b, <3>1, LateKeep
    <2> QED
      BY <1>9, <2>1, <2>2, <2>3, <2>4, <2>5, <2>6, <2>7, <2>8, <2>9,
         <2>10, <2>11, <2>12, <2>13, <2>14, <2>15, <2>16 DEF Execute
  <1>10. CASE RunFault(Worker)
    <2>1. run'[Worker].pc \notin Putting
      BY <1>10, <1>w, RunFaultEffect DEF PcIs, RunIs, Putting, Idle
    <2>2. UNCHANGED <<cancelReq, task, late, lost>>
      BY <1>10, <1>w, RunFaultEffect DEF rows, history
    <2> QED BY <1>o, <2>1, <2>2, LateKeep
  <1>11. CASE Crash(Worker)
    <2>1. /\ run'[Worker].job = Worker /\ \A j \in Item : task'[Worker][j] = "none"
          /\ UNCHANGED <<cancelReq, late, lost>>
      BY <1>11, <1>w, CrashEffect DEF RunIs, PoolGone, rows, history
    <2> QED BY <1>o, <1>b, <2>1, LateKeep
  <1>12. ASSUME NEW i \in Item, RunItem(Worker, i) PROVE LateOf(c)'
    <2>1. CASE TaskStart(Worker, i)
      <3>1. /\ task[Worker][i] = "submitted" /\ TaskIs(Worker, i, "working")
            /\ UNCHANGED <<cancelReq, run, lost>>
            /\ late'[c] = IF c = BatchOf[i] /\ (cancelReq[c] \/ c \in lost)
                         THEN late[c] \cup {i} ELSE late[c]
        BY <2>1, <1>w, <1>b, TaskStartEffect
      <3>2. Outstanding(c)' \subseteq Outstanding(c)
        <4>1. \A j \in Item : task'[Worker][j] = "submitted" => task[Worker][j] = "submitted"
          BY <3>1, <1>w DEF TaskIs
        <4>2. W' = W
          BY <3>1 DEF W
        <4> QED BY <4>1, <4>2 DEF Outstanding, ItemsOf
      <3>3. c = BatchOf[i] => i \in Outstanding(c)
        BY <3>1 DEF Outstanding, ItemsOf
      <3>4. (late[c] \cup Outstanding(c))' \subseteq late[c] \cup Outstanding(c)
        BY <3>1, <3>2, <3>3
      <3>5. ASSUME c \notin lost, ~cancelReq[c]
            PROVE  late'[c] = {}
        BY <1>o, <3>1, <3>5 DEF LateOf
      <3> QED BY <1>o, <3>1, <3>4, <3>5, LateShrinks
    <2>2. CASE TaskStore(Worker, i)
      <3>1. \A j \in Item : task'[Worker][j] = "submitted" => task[Worker][j] = "submitted"
        BY <2>2, <1>w, TaskStoreEffect DEF TaskIs
      <3> QED BY <2>2, <1>w, <1>o, <3>1, TaskStoreEffect, LateKeep DEF rows, history, W
    <2>3. CASE TaskCount(Worker, i)
      <3>1. \A j \in Item : task'[Worker][j] = "submitted" => task[Worker][j] = "submitted"
        BY <2>3, <1>w, TaskCountEffect DEF TaskIs
      <3> QED BY <2>3, <1>w, <1>o, <3>1, TaskCountEffect, LateKeep DEF rows, history, W
    <2>4. CASE TaskWrite(Worker, i)
      <3>1. \A j \in Item : task'[Worker][j] = "submitted" => task[Worker][j] = "submitted"
        BY <2>4, <1>w, TaskWriteEffect DEF TaskIs
      <3> QED BY <2>4, <1>w, <1>o, <3>1, TaskWriteEffect, LateKeep DEF rows, history, W
    <2> QED BY <1>12, <2>1, <2>2, <2>3, <2>4 DEF RunItem
  <1>13. ASSUME NEW i \in Item, TaskFault(Worker, i) PROVE LateOf(c)'
    <2>1. \A j \in Item : task'[Worker][j] = "submitted" => task[Worker][j] = "submitted"
      BY <1>13, <1>w, TaskFaultEffect DEF TaskIs
    <2> QED BY <1>13, <1>w, <1>o, <2>1, TaskFaultEffect, LateKeep DEF rows, history, W
  <1>14. CASE WorkerDies
    <2>1. /\ run'[Worker].job = Worker /\ \A j \in Item : task'[Worker][j] = "none"
          /\ UNCHANGED <<cancelReq, late, lost>>
      BY <1>14, <1>w, WorkerDiesEffect DEF RunIs, PoolGone, rows, history
    <2> QED BY <1>o, <1>b, <2>1, LateKeep
  <1>15. CASE WorkerStart
    <2>1. /\ run'[Worker].pc = "idle" /\ UNCHANGED <<task, late>>
          /\ lost' = lost \cup {b \in Interrupted : cancelReq[b]}
          /\ IF c \in Interrupted THEN ~cancelReq'[c] ELSE cancelReq'[c] = cancelReq[c]
      BY <1>15, <1>w, <1>b, WorkerStartEffect DEF PcIs, RunIs
    <2>2. CASE c \in lost'
      BY <2>2 DEF LateOf
    <2>3. CASE c \notin lost' /\ c \in Interrupted
      BY <1>o, <2>1, <2>3 DEF LateOf
    <2>4. CASE c \notin Interrupted
      BY <1>o, <2>1, <2>4, LateKeep DEF Putting
    <2> QED BY <2>2, <2>3, <2>4
  <1> QED
    BY <1>2, <1>3, <1>4, <1>5, <1>6, <1>7, <1>8, <1>9, <1>10, <1>11, <1>12, <1>13,
       <1>14, <1>15 DEF Next

-----------------------------------------------------------------------------
(* Single tests, as long as no crash and no database error has occurred.   *)

Calm == budget.restart = MaxRestarts /\ budget.fault = MaxFaults
Budgeted ==
    /\ budget \in [{"restart", "cancel", "view", "fault"} -> Nat]
    /\ budget.restart <= MaxRestarts /\ budget.fault <= MaxFaults

\* A Web thread runs its test when create_batch has returned.
DoneFirst == \A b \in Single : run[b].pc # "idle" => creator[b] = "done"

Upright == \A e \in Executor : run[e].pc \notin {"failing", "down", "dead"}

\* Whoever waits for its pool has futures, or nothing more to hand over.
DrainsOut ==
    \A e \in Executor :
        run[e].pc = "drain" => \/ \E i \in Item : task[e][i] # "none"
                               \/ run[e].todo = {} \/ cancelReq[run[e].job]

\* An execution that will still run or cancel the item if it is queued.
Promised(e, i) ==
    /\ run[e].job = BatchOf[i]
    /\ \/ run[e].pc \in {"flag", "start", "list", "listCancel"}
       \/ /\ i \in run[e].todo
          /\ run[e].pc \in {"fill", "fillPut", "refill", "refillPut", "drain", "cancelItem"}
       \/ task[e][i] = "submitted"

\* An item of a single test that is running is being worked on, by either executor;
\* one that is queued is promised once the Web thread has begun.
Worked ==
    \A i \in Item : BatchOf[i] \in Single /\ item[i] = "running"
        => \E e \in Executor : task[e][i] = "working"
Promises ==
    \A i \in Item : BatchOf[i] \in Single /\ run[BatchOf[i]].pc # "idle" /\ item[i] = "queued"
        => \E e \in Executor : Promised(e, i)
Settling == Upright /\ DrainsOut /\ Worked /\ Promises

\* The bounds are only spent, and a crash or an error ends the calm.
LEMMA CalmStep ==
    ASSUME Budgeted, [Next]_vars
    PROVE  /\ Budgeted'
           /\ Calm' => /\ Calm /\ ~WorkerDies
                       /\ \A e \in Executor : ~RunFault(e) /\ ~Crash(e)
                       /\ \A e \in Executor, i \in Item : ~TaskFault(e, i)
  <1> DEFINE Kind == {"restart", "cancel", "view", "fault"}
  <1>n. {MaxRestarts, MaxFaults} \subseteq Nat /\ MaxRestarts \in Nat /\ MaxFaults \in Nat
    BY BoundAssumption
  <1>1. ASSUME NEW k \in Kind, Spend(k)
        PROVE  /\ Budgeted' /\ budget'[k] = budget[k] - 1
               /\ \A j \in Kind : j # k => budget'[j] = budget[j]
    BY <1>1, <1>n DEF Spend, Budgeted
  <1>2. ASSUME UNCHANGED budget
        PROVE  Budgeted' /\ (Calm' <=> Calm)
    BY <1>2 DEF Budgeted, Calm
  <1>3. ASSUME NEW k \in {"cancel", "view"}, Spend(k)
        PROVE  Budgeted' /\ (Calm' <=> Calm)
    BY <1>1, <1>3 DEF Calm
  <1>4. ASSUME Spend("restart") \/ Spend("fault")
        PROVE  Budgeted' /\ ~Calm'
    BY <1>1, <1>4, <1>n DEF Calm, Budgeted
  <1>5. ASSUME WorkerDies \/ (\E e \in Executor : RunFault(e) \/ Crash(e))
                 \/ (\E e \in Executor, i \in Item : TaskFault(e, i))
        PROVE  Spend("restart") \/ Spend("fault")
    BY <1>5 DEF WorkerDies, RunFault, Crash, TaskFault
  <1>6. CASE \E b \in Batch : CancelRead(b) \/ ViewRead(b)
    BY <1>3, <1>4, <1>5, <1>6 DEF CancelRead, ViewRead
  <1>7. CASE (\E b \in Batch : Create(b)) \/ CancelWrite \/ ViewWrite \/ WorkerStart
             \/ UNCHANGED vars
    <2>1. UNCHANGED budget
      BY <1>7 DEF Create, InsertBatch, CreateItem, MarkIneligible, CreatorCount, CreatorWrite,
               Enqueue, CancelWrite, ViewWrite, WorkerStart, Recover, vars
    <2> QED BY <1>2, <1>4, <1>5, <2>1
  <1>8. CASE \E e \in Executor : Execute(e)
    <2>1. UNCHANGED budget
      BY <1>8 DEF Execute, Claim, ReadFlag, Start, List, Check, Submit, Collect, Drained,
               ListCancel, CancelItem, CountRead, CountWrite, Decide, Finish, Manifest,
               FailBatch, Others
    <2> QED BY <1>2, <1>4, <1>5, <2>1
  <1>9. CASE \E e \in Executor, i \in Item : RunItem(e, i)
    <2>1. UNCHANGED budget
      BY <1>9 DEF RunItem, TaskStart, TaskStore, TaskCount, TaskWrite, Others
    <2> QED BY <1>2, <1>4, <1>5, <2>1
  <1>10. CASE WorkerDies \/ (\E e \in Executor : RunFault(e) \/ Crash(e))
              \/ (\E e \in Executor, i \in Item : TaskFault(e, i))
    BY <1>4, <1>5, <1>10
  <1> QED BY <1>6, <1>7, <1>8, <1>9, <1>10 DEF Next

\* Every step keeps the order of creation and execution.
LEMMA DoneFirstStep ==
    ASSUME Typed, Created, DoneFirst, [Next]_vars
    PROVE  DoneFirst'
  <1>d. Typed /\ DoneFirst /\ Single \subseteq Batch /\ Single \subseteq Executor
        /\ Worker \notin Single /\ Worker \in Executor
    BY SingleAssumption DEF Executor
  <1>1. ASSUME NEW b \in Batch, Create(b) PROVE DoneFirst'
    <2>1. CASE InsertBatch(b)
      <3>1. /\ creator[b] # "done" /\ UNCHANGED run
            /\ \A c \in Batch : c # b => creator'[c] = creator[c]
        BY <2>1, InsertBatchEffect DEF CreatorIs
      <3> QED BY <1>d, <3>1 DEF DoneFirst
    <2>2. CASE CreateItem(b)
      <3>1. /\ creator[b] # "done" /\ UNCHANGED run
            /\ \A c \in Batch : c # b => creator'[c] = creator[c]
        BY <2>2, CreateItemEffect DEF CreatorIs
      <3> QED BY <1>d, <3>1 DEF DoneFirst
    <2>3. CASE MarkIneligible(b)
      <3>1. /\ creator[b] = "mark" /\ creator' = [creator EXCEPT ![b] = "items"] /\ UNCHANGED run
        BY <2>3 DEF MarkIneligible, Creator
      <3> QED BY <1>d, <3>1 DEF DoneFirst, Typed, Columns
    <2>4. CASE CreatorCount(b)
      <3>1. /\ creator[b] # "done" /\ UNCHANGED run
            /\ \A c \in Batch : c # b => creator'[c] = creator[c]
        BY <2>4, CreatorCountEffect DEF CreatorIs
      <3> QED BY <1>d, <3>1 DEF DoneFirst
    <2>5. CASE CreatorWrite(b)
      <3>1. /\ creator[b] # "done" /\ UNCHANGED run
            /\ \A c \in Batch : c # b => creator'[c] = creator[c]
        BY <2>5, CreatorWriteEffect DEF CreatorIs
      <3> QED BY <1>d, <3>1 DEF DoneFirst
    <2>6. CASE Enqueue(b)
      <3>1. /\ creator[b] # "done" /\ UNCHANGED run
            /\ \A c \in Batch : c # b => creator'[c] = creator[c]
        BY <2>6, EnqueueEffect DEF CreatorIs
      <3> QED BY <1>d, <3>1 DEF DoneFirst
    <2> QED BY <1>1, <2>1, <2>2, <2>3, <2>4, <2>5, <2>6 DEF Create
  <1>2. ASSUME NEW b \in Batch, CancelRead(b) PROVE DoneFirst'
    BY <1>2, <1>d, CancelReadEffect DEF DoneFirst
  <1>3. ASSUME NEW b \in Batch, ViewRead(b) PROVE DoneFirst'
    BY <1>3, <1>d, ViewReadEffect DEF DoneFirst
  <1>4. CASE CancelWrite
    BY <1>4, <1>d, CancelWriteEffect DEF DoneFirst
  <1>5. CASE ViewWrite
    BY <1>5, <1>d, ViewWriteEffect DEF DoneFirst
  <1>6. ASSUME NEW e \in Executor, Execute(e) PROVE DoneFirst'
    <2>1. CASE Claim(e)
      <3>1. PICK b \in Batch :
               /\ e # Worker => b = e /\ creator[b] = "done"
               /\ RunIs(e, "flag", b, {}, "none", FALSE)
        BY <2>1, ClaimEffect
      <3>2. UNCHANGED creator
        BY <2>1, ClaimEffect
      <3> QED BY <1>d, <3>1, <3>2 DEF DoneFirst, RunIs
    <2>2. CASE ReadFlag(e)
      <3>1. (\A f \in Executor : f # e => run'[f] = run[f]) /\ UNCHANGED creator
            /\ run[e].pc # "idle"
        BY <2>2, ReadFlagEffect DEF PcIs, RunIs, Putting
      <3> QED BY <1>d, <3>1 DEF DoneFirst
    <2>3. CASE Start(e)
      <3>1. (\A f \in Executor : f # e => run'[f] = run[f]) /\ UNCHANGED creator
            /\ run[e].pc # "idle"
        BY <2>3, StartEffect DEF PcIs, RunIs, Putting
      <3> QED BY <1>d, <3>1 DEF DoneFirst
    <2>4. CASE List(e)
      <3>1. (\A f \in Executor : f # e => run'[f] = run[f]) /\ UNCHANGED creator
            /\ run[e].pc # "idle"
        BY <2>4, ListEffect DEF PcIs, RunIs, Putting
      <3> QED BY <1>d, <3>1 DEF DoneFirst
    <2>5. CASE Check(e)
      <3>1. (\A f \in Executor : f # e => run'[f] = run[f]) /\ UNCHANGED creator
            /\ run[e].pc # "idle"
        BY <2>5, CheckEffect DEF PcIs, RunIs, Putting
      <3> QED BY <1>d, <3>1 DEF DoneFirst
    <2>6. CASE Submit(e)
      <3>1. (\A f \in Executor : f # e => run'[f] = run[f]) /\ UNCHANGED creator
            /\ run[e].pc # "idle"
        BY <2>6, SubmitEffect DEF PcIs, RunIs, Putting
      <3> QED BY <1>d, <3>1 DEF DoneFirst
    <2>7. ASSUME NEW i \in Item, Collect(e, i) PROVE DoneFirst'
      <3>1. (\A f \in Executor : f # e => run'[f] = run[f]) /\ UNCHANGED creator
            /\ run[e].pc # "idle"
        BY <2>7, CollectEffect DEF PcIs, RunIs, Putting
      <3> QED BY <1>d, <3>1 DEF DoneFirst
    <2>8. CASE Drained(e)
      <3>1. (\A f \in Executor : f # e => run'[f] = run[f]) /\ UNCHANGED creator
            /\ run[e].pc # "idle"
        BY <2>8, DrainedEffect DEF PcIs, RunIs, Putting
      <3> QED BY <1>d, <3>1 DEF DoneFirst
    <2>9. CASE ListCancel(e)
      <3>1. (\A f \in Executor : f # e => run'[f] = run[f]) /\ UNCHANGED creator
            /\ run[e].pc # "idle"
        BY <2>9, ListCancelEffect DEF PcIs, RunIs, Putting
      <3> QED BY <1>d, <3>1 DEF DoneFirst
    <2>10. CASE CancelItem(e)
      <3>1. (\A f \in Executor : f # e => run'[f] = run[f]) /\ UNCHANGED creator
            /\ run[e].pc # "idle"
        BY <2>10, CancelItemEffect DEF PcIs, RunIs, Putting
      <3> QED BY <1>d, <3>1 DEF DoneFirst
    <2>11. CASE CountRead(e)
      <3>1. (\A f \in Executor : f # e => run'[f] = run[f]) /\ UNCHANGED creator
            /\ run[e].pc # "idle"
        BY <2>11, CountReadEffect DEF PcIs, RunIs, Putting
      <3> QED BY <1>d, <3>1 DEF DoneFirst
    <2>12. CASE CountWrite(e)
      <3>1. (\A f \in Executor : f # e => run'[f] = run[f]) /\ UNCHANGED creator
            /\ run[e].pc # "idle"
        BY <2>12, CountWriteEffect DEF PcIs, RunIs, Putting
      <3> QED BY <1>d, <3>1 DEF DoneFirst
    <2>13. CASE Decide(e)
      <3>1. (\A f \in Executor : f # e => run'[f] = run[f]) /\ UNCHANGED creator
            /\ run[e].pc # "idle"
        BY <2>13, DecideEffect DEF PcIs, RunIs, Putting
      <3> QED BY <1>d, <3>1 DEF DoneFirst
    <2>14. CASE Finish(e)
      <3>1. (\A f \in Executor : f # e => run'[f] = run[f]) /\ UNCHANGED creator
            /\ run[e].pc # "idle"
        BY <2>14, FinishEffect DEF PcIs, RunIs, Putting
      <3> QED BY <1>d, <3>1 DEF DoneFirst
    <2>15. CASE Manifest(e)
      <3>1. (\A f \in Executor : f # e => run'[f] = run[f]) /\ UNCHANGED creator
            /\ run[e].pc # "idle"
        BY <2>15, ManifestEffect DEF PcIs, RunIs, Putting
      <3> QED BY <1>d, <3>1 DEF DoneFirst
    <2>16. CASE FailBatch(e)
      <3>1. (\A f \in Executor : f # e => run'[f] = run[f]) /\ UNCHANGED creator
            /\ run[e].pc # "idle"
        BY <2>16, FailBatchEffect DEF PcIs, RunIs, Putting
      <3> QED BY <1>d, <3>1 DEF DoneFirst
    <2> QED
      BY <1>6, <2>1, <2>2, <2>3, <2>4, <2>5, <2>6, <2>7, <2>8, <2>9,
         <2>10, <2>11, <2>12, <2>13, <2>14, <2>15, <2>16 DEF Execute
  <1>7. ASSUME NEW e \in Executor, RunFault(e) PROVE DoneFirst'
    <2>1. (\A f \in Executor : f # e => run'[f] = run[f]) /\ UNCHANGED creator
          /\ run[e].pc # "idle"
      BY <1>7, RunFaultEffect DEF PcIs, RunIs, Putting, Free
    <2> QED BY <1>d, <2>1 DEF DoneFirst
  <1>8. ASSUME NEW e \in Executor, Crash(e) PROVE DoneFirst'
    <2>1. (e # Worker => run[e].pc # "idle") /\ UNCHANGED creator
      BY <1>8 DEF Crash
    <2>2. \A f \in Executor : f # e => run'[f] = run[f]
      BY <1>8, CrashEffect DEF RunIs
    <2> QED BY <1>d, <2>1, <2>2 DEF DoneFirst
  <1>9. ASSUME NEW e \in Executor, NEW i \in Item, RunItem(e, i) PROVE DoneFirst'
    <2>1. CASE TaskStart(e, i)
      BY <2>1, <1>d, TaskStartEffect DEF DoneFirst
    <2>2. CASE TaskStore(e, i)
      BY <2>2, <1>d, TaskStoreEffect DEF DoneFirst
    <2>3. CASE TaskCount(e, i)
      BY <2>3, <1>d, TaskCountEffect DEF DoneFirst
    <2>4. CASE TaskWrite(e, i)
      BY <2>4, <1>d, TaskWriteEffect DEF DoneFirst
    <2> QED BY <1>9, <2>1, <2>2, <2>3, <2>4 DEF RunItem
  <1>10. ASSUME NEW e \in Executor, NEW i \in Item, TaskFault(e, i) PROVE DoneFirst'
    BY <1>10, <1>d, TaskFaultEffect DEF DoneFirst
  <1>11. CASE WorkerDies
    <2>1. (\A f \in Executor : f # Worker => run'[f] = run[f]) /\ UNCHANGED creator
      BY <1>11, WorkerDiesEffect, SingleAssumption DEF PcIs, RunIs, Executor
    <2> QED BY <1>d, <2>1 DEF DoneFirst
  <1>12. CASE WorkerStart
    <2>1. (\A f \in Executor : f # Worker => run'[f] = run[f]) /\ UNCHANGED creator
      BY <1>12, WorkerStartEffect, SingleAssumption DEF PcIs, RunIs, Executor
    <2> QED BY <1>d, <2>1 DEF DoneFirst
  <1>13. CASE UNCHANGED vars
    BY <1>13, <1>d DEF DoneFirst, vars
  <1> QED
    BY <1>1, <1>2, <1>3, <1>4, <1>5, <1>6, <1>7, <1>8, <1>9, <1>10, <1>11, <1>12,
       <1>13 DEF Next

\* What neither executes nor takes an item out of its end settles as much as before.
LEMMA SettleAside ==
    ASSUME Typed, Settling, UNCHANGED <<run, task>>,
           \A b \in Batch : cancelReq[b] => cancelReq'[b],
           \A i \in Item : item'[i] = "running" => item[i] = "running",
           \A i \in Item : item'[i] = "queued" =>
               item[i] = "queued" \/ (BatchOf[i] \in Single => run[BatchOf[i]].pc = "idle")
    PROVE  Settling'
  <1>1. Upright' /\ Worked'
    BY DEF Settling, Upright, Worked
  <1>2. DrainsOut'
    <2>1. \A e \in Executor : run[e].pc = "drain" => run[e].job \in Batch
      BY DEF Typed, Steady, Free
    <2> QED BY <2>1 DEF Settling, DrainsOut
  <1>3. \A e \in Executor, i \in Item : Promised(e, i) => Promised(e, i)'
    BY DEF Promised
  <1>4. Promises'
    BY <1>3 DEF Settling, Promises
  <1> QED BY <1>1, <1>2, <1>4 DEF Settling

\* What a step of one execution has to show.
LEMMA SettleBy ==
    ASSUME Typed, Settling, NEW e \in Executor,
           \A f \in Executor : f # e => run'[f] = run[f] /\ \A i \in Item : task'[f][i] = task[f][i],
           run'[e].pc \notin {"failing", "down", "dead"},
           run'[e].pc = "drain" => \/ \E i \in Item : task'[e][i] # "none"
                                   \/ run'[e].todo = {} \/ cancelReq'[run'[e].job],
           \A b \in Batch : cancelReq[b] => cancelReq'[b],
           \A i \in Item : item'[i] = "running" =>
               task'[e][i] = "working" \/ (item[i] = "running" /\ task[e][i] # "working"),
           \A i \in Item : item'[i] = "queued" => item[i] = "queued",
           \A i \in Item : item'[i] = "queued" /\ Promised(e, i) => Promised(e, i)',
           \/ run[e].pc # "idle"
           \/ \A i \in Item : BatchOf[i] \in Single /\ run'[BatchOf[i]].pc # "idle"
                 => run[BatchOf[i]].pc # "idle" \/ Promised(e, i)'
    PROVE  Settling'
  <1>1. Upright'
    BY DEF Settling, Upright
  <1>2. DrainsOut'
    <2>1. \A f \in Executor : run[f].pc = "drain" => run[f].job \in Batch
      BY DEF Typed, Steady, Free
    <2> QED BY <2>1 DEF Settling, DrainsOut
  <1>3. Worked'
    BY DEF Settling, Worked
  <1>4. \A f \in Executor, i \in Item : f # e /\ Promised(f, i) => Promised(f, i)'
    BY DEF Promised
  <1>5. \A i \in Item : BatchOf[i] \in Single /\ run'[BatchOf[i]].pc # "idle"
            => run[BatchOf[i]].pc # "idle" \/ Promised(e, i)'
    BY DEF Executor
  <1>6. Promises'
    BY <1>4, <1>5 DEF Settling, Promises
  <1> QED BY <1>1, <1>2, <1>3, <1>6 DEF Settling

\* As long as the calm lasts, every step keeps single tests on their way.
LEMMA SettlingStep ==
    ASSUME Typed, Books, Created, Budgeted, DoneFirst, Settling, Calm', [Next]_vars
    PROVE  Settling'
  <1>f. /\ Typed /\ Books /\ Created /\ Budgeted /\ DoneFirst /\ Settling /\ Calm' /\ [Next]_vars
        /\ Upright /\ DrainsOut
    BY DEF Settling
  <1>1. ASSUME NEW b \in Batch, Create(b) PROVE Settling'
    <2>1. CASE InsertBatch(b)
      BY <2>1, <1>f, InsertBatchEffect, SettleAside DEF rows
    <2>2. CASE CreateItem(b)
      <3>1. PICK i \in Missing(b) :
               ItemIs(i, "queued") /\ creator[b] = "items" /\ UNCHANGED <<cancelReq, run, task>>
        BY <2>2, CreateItemEffect
      <3>2. BatchOf[i] = b /\ i \in Item
        BY DEF Missing, ItemsOf
      <3>3. \A j \in Item : item'[j] # item[j] => j = i /\ item'[j] = "queued"
        BY <3>1, <3>2 DEF ItemIs
      <3>4. b \in Single => run[b].pc = "idle"
        BY <1>f, <3>1 DEF DoneFirst
      <3> QED BY <1>f, <3>1, <3>2, <3>3, <3>4, SettleAside
    <2>3. CASE MarkIneligible(b)
      <3>1. creator[b] = "mark" /\ UNCHANGED <<cancelReq, run, task>>
        BY <2>3 DEF MarkIneligible, Creator
      <3>2. PICK m \in ItemsOf(b) : item[m] # "absent" /\ \A j \in ItemsOf(b) : item[j] # "absent" => j <= m
        BY <1>f, <3>1 DEF Created, CreatedOf
      <3>3. ItemIs(m, "pending") /\ m \in Item
        BY <2>3, <1>f, <3>2, MarkIneligibleEffect DEF ItemsOf
      <3>4. \A j \in Item : item'[j] # item[j] => item'[j] = "pending"
        BY <3>3 DEF ItemIs
      <3> QED BY <1>f, <3>1, <3>4, SettleAside
    <2>4. CASE CreatorCount(b)
      BY <2>4, <1>f, CreatorCountEffect, SettleAside DEF rows
    <2>5. CASE CreatorWrite(b)
      BY <2>5, <1>f, CreatorWriteEffect, SettleAside DEF rows
    <2>6. CASE Enqueue(b)
      BY <2>6, <1>f, EnqueueEffect, SettleAside DEF rows
    <2> QED BY <1>1, <2>1, <2>2, <2>3, <2>4, <2>5, <2>6 DEF Create
  <1>2. ASSUME NEW b \in Batch, CancelRead(b) PROVE Settling'
    BY <1>2, <1>f, CancelReadEffect, SettleAside DEF rows
  <1>3. ASSUME NEW b \in Batch, ViewRead(b) PROVE Settling'
    BY <1>3, <1>f, ViewReadEffect, SettleAside DEF rows
  <1>4. CASE CancelWrite
    <2>1. /\ \A b \in Batch : cancelReq[b] => cancelReq'[b]
          /\ UNCHANGED <<item, run, task>>
      BY <1>4, CancelWriteEffect
    <2> QED BY <1>f, <2>1, SettleAside
  <1>5. CASE ViewWrite
    BY <1>5, <1>f, ViewWriteEffect, SettleAside DEF rows
  <1>6. ASSUME NEW e \in Executor, Execute(e) PROVE Settling'
    <2>1. CASE Claim(e)
      <3>1. PICK b \in Batch :
               /\ e # Worker => b = e
               /\ RunIs(e, "flag", b, {}, "none", FALSE)
        BY <2>1, ClaimEffect
      <3>2. run[e].pc = "idle" /\ UNCHANGED <<task, item, cancelReq>>
        BY <2>1, ClaimEffect DEF rows
      <3>3. \A j \in Item : BatchOf[j] \in Batch /\ ~Promised(e, j)
        <4>1. run[e].job = Worker /\ \A j \in Item : task[e][j] = "none"
          BY <1>f, <3>2 DEF Typed, Steady, Free, Books, BooksOf, Pool
        <4> QED BY <4>1, SingleAssumption, ItemAssumption DEF Promised
      <3>4. \A j \in Item : BatchOf[j] \in Single /\ run'[BatchOf[j]].pc # "idle"
              => run[BatchOf[j]].pc # "idle" \/ Promised(e, j)'
        <4>1. SUFFICES ASSUME NEW j \in Item, BatchOf[j] \in Single, run[BatchOf[j]].pc = "idle",
                             run'[BatchOf[j]].pc # "idle"
                      PROVE  Promised(e, j)'
          OBVIOUS
        <4>2. BatchOf[j] = e /\ e # Worker
          BY <4>1, <3>1, SingleAssumption DEF RunIs, Executor
        <4> QED BY <4>2, <3>1 DEF Promised, RunIs
      <3>5. run'[e].pc = "flag" /\ \A f \in Executor : f # e => run'[f] = run[f]
        BY <3>1 DEF RunIs
      <3> QED BY <1>f, <3>2, <3>3, <3>4, <3>5, SettleBy
    <2>2. CASE ReadFlag(e)
      <3>1. /\ run'[e].pc \in {"listCancel", "start"}
            /\ run'[e].job = run[e].job /\ run[e].pc # "idle"
            /\ \A f \in Executor : f # e => run'[f] = run[f]
            /\ UNCHANGED <<task, item, cancelReq>>
        BY <2>2, ReadFlagEffect DEF PcIs, RunIs, rows, Putting
      <3>2. \A j \in Item : item'[j] = "queued" /\ Promised(e, j) => Promised(e, j)'
        BY <3>1 DEF Promised
      <3> QED BY <1>f, <3>1, <3>2, SettleBy
    <2>3. CASE Start(e)
      <3>1. /\ run'[e].pc = "list"
            /\ run'[e].job = run[e].job /\ run[e].pc # "idle"
            /\ \A f \in Executor : f # e => run'[f] = run[f]
            /\ UNCHANGED <<task, item, cancelReq>>
        BY <2>3, StartEffect DEF PcIs, RunIs, rows, Putting
      <3>2. \A j \in Item : item'[j] = "queued" /\ Promised(e, j) => Promised(e, j)'
        BY <3>1 DEF Promised
      <3> QED BY <1>f, <3>1, <3>2, SettleBy
    <2>4. CASE List(e)
      <3>1. /\ run'[e].pc = "fill" /\ run'[e].todo = QueuedItems(run[e].job)
            /\ run'[e].job = run[e].job /\ run[e].pc # "idle"
            /\ \A f \in Executor : f # e => run'[f] = run[f]
            /\ UNCHANGED <<task, item, cancelReq>>
        BY <2>4, ListEffect DEF PcIs, RunIs, rows, Putting
      <3>2. \A j \in Item : item'[j] = "queued" /\ Promised(e, j) => Promised(e, j)'
        BY <3>1 DEF Promised, QueuedItems, ItemsOf
      <3> QED BY <1>f, <3>1, <3>2, SettleBy
    <2>5. CASE Check(e)
      <3>1. /\ run'[e].pc \in {"drain", "fillPut", "refillPut"}
            /\ run[e].pc \in {"fill", "refill"}
            /\ run'[e].pc = "drain" => run[e].todo = {} \/ cancelReq[run[e].job]
            /\ run'[e].todo = run[e].todo
            /\ run'[e].job = run[e].job /\ run[e].pc # "idle"
            /\ \A f \in Executor : f # e => run'[f] = run[f]
            /\ UNCHANGED <<task, item, cancelReq>>
        BY <2>5, CheckEffect DEF PcIs, RunIs, rows, Putting
      <3>2. \A j \in Item : item'[j] = "queued" /\ Promised(e, j) => Promised(e, j)'
        BY <3>1 DEF Promised
      <3> QED BY <1>f, <3>1, <3>2, SettleBy
    <2>6. CASE Submit(e)
      <3> DEFINE m == Min(run[e].todo)
      <3>1. /\ run'[e].pc \in {"fill", "drain"} /\ run[e].pc \in Putting
            /\ run'[e].todo = run[e].todo \ {m}
            /\ run'[e].job = run[e].job /\ m \in run[e].todo /\ TaskIs(e, m, "submitted")
            /\ m \in Item
            /\ \A f \in Executor : f # e => run'[f] = run[f]
            /\ UNCHANGED <<item, cancelReq>>
        BY <2>6, SubmitEffect DEF RunIs, rows
      <3> HIDE DEF m
      <3>2. BatchOf[m] = run[e].job
        BY <1>f, <3>1 DEF Books, BooksOf
      <3>3. /\ \A f \in Executor : f # e => \A j \in Item : task'[f][j] = task[f][j]
            /\ \A j \in Item : j # m => task'[e][j] = task[e][j]
            /\ task'[e][m] = "submitted"
        BY <3>1 DEF TaskIs
      <3>4. \A j \in Item : item'[j] = "queued" /\ Promised(e, j) => Promised(e, j)'
        BY <3>1, <3>2, <3>3 DEF Promised, Putting
      <3>5. task[e][m] = "none"
        BY <1>f, <3>1 DEF Books, BooksOf
      <3>6. \A j \in Item : item'[j] = "running" =>
              task'[e][j] = "working" \/ (item[j] = "running" /\ task[e][j] # "working")
        BY <3>1, <3>3, <3>5
      <3> QED BY <1>f, <3>1, <3>3, <3>4, <3>6, SettleBy DEF Putting
    <2>7. ASSUME NEW i \in Item, Collect(e, i) PROVE Settling'
      <3>1. /\ run'[e].pc = "refill" /\ run[e].pc = "drain" /\ run'[e].todo = run[e].todo
            /\ run'[e].job = run[e].job /\ TaskIs(e, i, "none")
            /\ task[e][i] \in {"done", "raised"}
            /\ \A f \in Executor : f # e => run'[f] = run[f]
            /\ UNCHANGED cancelReq
            /\ item' = item \/ ItemIs(i, "failed")
        BY <2>7, CollectEffect DEF PcIs, RunIs
      <3>3. /\ \A f \in Executor : f # e => \A j \in Item : task'[f][j] = task[f][j]
            /\ \A j \in Item : j # i => task'[e][j] = task[e][j] /\ item'[j] = item[j]
            /\ item'[i] = item[i] \/ item'[i] = "failed"
        BY <3>1 DEF TaskIs, ItemIs
      <3>4. \A j \in Item : item'[j] = "queued" /\ Promised(e, j) => Promised(e, j)'
        BY <3>1, <3>3 DEF Promised
      <3>5. /\ \A j \in Item : item'[j] = "queued" => item[j] = "queued"
            /\ \A j \in Item : item'[j] = "running" =>
                  task'[e][j] = "working" \/ (item[j] = "running" /\ task[e][j] # "working")
        BY <3>1, <3>3
      <3> QED BY <1>f, <3>1, <3>3, <3>4, <3>5, SettleBy
    <2>8. CASE Drained(e)
      <3>1. /\ run'[e].pc \in {"listCancel", "count"} /\ Futures(e) = {} /\ run[e].pc = "drain"
            /\ cancelReq[run[e].job] => run'[e].pc = "listCancel"
            /\ run'[e].todo = run[e].todo
            /\ run'[e].job = run[e].job /\ run[e].pc # "idle"
            /\ \A f \in Executor : f # e => run'[f] = run[f]
            /\ UNCHANGED <<task, item, cancelReq>>
        BY <2>8, DrainedEffect DEF PcIs, RunIs, rows, Putting
      <3>2. \A j \in Item : item'[j] = "queued" /\ Promised(e, j) => Promised(e, j)'
        <4>1. \A j \in Item : task[e][j] = "none"
          BY <3>1 DEF Futures
        <4>2. run[e].todo = {} \/ cancelReq[run[e].job]
          BY <1>f, <3>1, <4>1 DEF DrainsOut
        <4> QED BY <3>1, <4>1, <4>2 DEF Promised
      <3> QED BY <1>f, <3>1, <3>2, SettleBy
    <2>9. CASE ListCancel(e)
      <3>1. /\ run'[e].pc = "cancelItem" /\ run'[e].todo = QueuedItems(run[e].job)
            /\ run'[e].job = run[e].job /\ run[e].pc # "idle"
            /\ \A f \in Executor : f # e => run'[f] = run[f]
            /\ UNCHANGED <<task, item, cancelReq>>
        BY <2>9, ListCancelEffect DEF PcIs, RunIs, rows, Putting
      <3>2. \A j \in Item : item'[j] = "queued" /\ Promised(e, j) => Promised(e, j)'
        BY <3>1 DEF Promised, QueuedItems, ItemsOf
      <3> QED BY <1>f, <3>1, <3>2, SettleBy
    <2>10. CASE CancelItem(e)
      <3>1. /\ run[e].pc = "cancelItem" /\ run'[e].job = run[e].job
            /\ run'[e].pc \in {"cancelItem", "recount"}
            /\ \A f \in Executor : f # e => run'[f] = run[f]
            /\ UNCHANGED <<task, cancelReq>>
        BY <2>10, CancelItemEffect DEF PcIs, RunIs
      <3>2. /\ \A j \in Item : item'[j] = item[j] \/ item'[j] = "cancelled"
            /\ \A j \in Item : item'[j] # "cancelled" /\ j \in run[e].todo
                             => j \in run'[e].todo /\ run'[e].pc = "cancelItem"
        <4>1. CASE run[e].todo = {}
          BY <2>10, <4>1, CancelItemEffect
        <4>2. CASE run[e].todo # {}
          BY <2>10, <4>2, CancelItemEffect DEF ItemIs, RunIs
        <4> QED BY <4>1, <4>2
      <3>3. \A j \in Item : item'[j] = "queued" /\ Promised(e, j) => Promised(e, j)'
        BY <3>1, <3>2 DEF Promised
      <3>4. /\ \A j \in Item : item'[j] = "queued" => item[j] = "queued"
            /\ \A j \in Item : item'[j] = "running" => item[j] = "running"
        BY <3>2
      <3> QED BY <1>f, <3>1, <3>3, <3>4, SettleBy
    <2>11. CASE CountRead(e)
      <3>1. /\ run'[e].pc \in {"countWrite", "recountWrite"} /\ run[e].pc \in {"count", "recount"}
            /\ run'[e].job = run[e].job /\ run[e].pc # "idle"
            /\ \A f \in Executor : f # e => run'[f] = run[f]
            /\ UNCHANGED <<task, item, cancelReq>>
        BY <2>11, CountReadEffect DEF PcIs, RunIs, rows, Putting
      <3>2. \A j \in Item : item'[j] = "queued" /\ Promised(e, j) => Promised(e, j)'
        BY <3>1 DEF Promised
      <3> QED BY <1>f, <3>1, <3>2, SettleBy
    <2>12. CASE CountWrite(e)
      <3>1. /\ run'[e].pc \in {"decide", "finish"} /\ run[e].pc \in {"countWrite", "recountWrite"}
            /\ run'[e].job = run[e].job /\ run[e].pc # "idle"
            /\ \A f \in Executor : f # e => run'[f] = run[f]
            /\ UNCHANGED <<task, item, cancelReq>>
        BY <2>12, CountWriteEffect DEF PcIs, RunIs, rows, Putting
      <3>2. \A j \in Item : item'[j] = "queued" /\ Promised(e, j) => Promised(e, j)'
        BY <3>1 DEF Promised
      <3> QED BY <1>f, <3>1, <3>2, SettleBy
    <2>13. CASE Decide(e)
      <3>1. /\ run'[e].pc \in {"recount"} /\ run[e].pc \in {"decide"}
            /\ run'[e].job = run[e].job /\ run[e].pc # "idle"
            /\ \A f \in Executor : f # e => run'[f] = run[f]
            /\ UNCHANGED <<task, item, cancelReq>>
        BY <2>13, DecideEffect DEF PcIs, RunIs, rows, Putting
      <3>2. \A j \in Item : item'[j] = "queued" /\ Promised(e, j) => Promised(e, j)'
        BY <3>1 DEF Promised
      <3> QED BY <1>f, <3>1, <3>2, SettleBy
    <2>14. CASE Finish(e)
      <3>1. /\ run'[e].pc \in {"manifest"} /\ run[e].pc \in {"finish"}
            /\ run'[e].job = run[e].job /\ run[e].pc # "idle"
            /\ \A f \in Executor : f # e => run'[f] = run[f]
            /\ UNCHANGED <<task, item, cancelReq>>
        BY <2>14, FinishEffect DEF PcIs, RunIs, rows, Putting
      <3>2. \A j \in Item : item'[j] = "queued" /\ Promised(e, j) => Promised(e, j)'
        BY <3>1 DEF Promised
      <3> QED BY <1>f, <3>1, <3>2, SettleBy
    <2>15. CASE Manifest(e)
      <3>1. /\ run[e].pc = "manifest" /\ run'[e].pc \in {"idle", "over"}
            /\ \A f \in Executor : f # e => run'[f] = run[f]
            /\ UNCHANGED <<task, item, cancelReq>>
        BY <2>15, ManifestEffect DEF RunIs, rows, Idle
      <3>2. \A j \in Item : ~Promised(e, j)
        BY <1>f, <3>1 DEF Promised, Books, BooksOf, Pool
      <3> QED BY <1>f, <3>1, <3>2, SettleBy
    <2>16. CASE FailBatch(e)
      BY <2>16, <1>f, FailBatchEffect DEF Upright
    <2> QED
      BY <1>6, <2>1, <2>2, <2>3, <2>4, <2>5, <2>6, <2>7, <2>8, <2>9,
         <2>10, <2>11, <2>12, <2>13, <2>14, <2>15, <2>16 DEF Execute
  <1>7. ASSUME NEW e \in Executor, RunFault(e) PROVE Settling'
    BY <1>7, <1>f, CalmStep
  <1>8. ASSUME NEW e \in Executor, Crash(e) PROVE Settling'
    BY <1>8, <1>f, CalmStep
  <1>9. ASSUME NEW e \in Executor, NEW i \in Item, RunItem(e, i) PROVE Settling'
    <2>1. CASE TaskStart(e, i)
      <3>1. /\ task[e][i] = "submitted" /\ TaskIs(e, i, "working")
            /\ ItemIs(i, "running")
            /\ UNCHANGED <<run, cancelReq>>
        BY <2>1, TaskStartEffect DEF rows, TaskIs
      <3>2. /\ \A f \in Executor : f # e => \A j \in Item : task'[f][j] = task[f][j]
            /\ \A j \in Item : j # i => task'[e][j] = task[e][j] /\ item'[j] = item[j]
        BY <3>1 DEF TaskIs, ItemIs
      <3>3. /\ \A j \in Item : item'[j] = "queued" => item[j] = "queued"
            /\ \A j \in Item : item'[j] = "running" =>
                  task'[e][j] = "working" \/ (item[j] = "running" /\ task[e][j] # "working")
        BY <3>1, <3>2 DEF ItemIs, TaskIs
      <3>4. \A j \in Item : item'[j] = "queued" /\ Promised(e, j) => Promised(e, j)'
        BY <3>1, <3>2 DEF Promised, ItemIs
      <3>5. /\ run'[e].pc \notin {"failing", "down", "dead"}
            /\ run'[e].pc = "drain" => \/ \E j \in Item : task'[e][j] # "none"
                                      \/ run'[e].todo = {} \/ cancelReq'[run'[e].job]
        BY <1>f, <3>1, <3>2 DEF Upright, DrainsOut, TaskIs
      <3> QED BY <1>f, <3>1, <3>2, <3>3, <3>4, <3>5, SettleBy
    <2>2. CASE TaskStore(e, i)
      <3>1. /\ task[e][i] \in {"working", "erring"} /\ TaskIs(e, i, task'[e][i])
            /\ task'[e][i] # "none"
            /\ ItemIs(i, "success") \/ ItemIs(i, "failed")
            /\ UNCHANGED <<run, cancelReq>>
        BY <2>2, TaskStoreEffect DEF rows, TaskIs
      <3>2. /\ \A f \in Executor : f # e => \A j \in Item : task'[f][j] = task[f][j]
            /\ \A j \in Item : j # i => task'[e][j] = task[e][j] /\ item'[j] = item[j]
        BY <3>1 DEF TaskIs, ItemIs
      <3>3. /\ \A j \in Item : item'[j] = "queued" => item[j] = "queued"
            /\ \A j \in Item : item'[j] = "running" =>
                  task'[e][j] = "working" \/ (item[j] = "running" /\ task[e][j] # "working")
        BY <3>1, <3>2 DEF ItemIs, TaskIs
      <3>4. \A j \in Item : item'[j] = "queued" /\ Promised(e, j) => Promised(e, j)'
        BY <3>1, <3>2 DEF Promised, ItemIs
      <3>5. /\ run'[e].pc \notin {"failing", "down", "dead"}
            /\ run'[e].pc = "drain" => \/ \E j \in Item : task'[e][j] # "none"
                                      \/ run'[e].todo = {} \/ cancelReq'[run'[e].job]
        BY <1>f, <3>1, <3>2 DEF Upright, DrainsOut, TaskIs
      <3> QED BY <1>f, <3>1, <3>2, <3>3, <3>4, <3>5, SettleBy
    <2>3. CASE TaskCount(e, i)
      <3>1. /\ task[e][i] \in {"stored", "storedError"} /\ TaskIs(e, i, task'[e][i])
            /\ task'[e][i] # "none"
            /\ item' = item
            /\ UNCHANGED <<run, cancelReq>>
        BY <2>3, TaskCountEffect DEF rows, TaskIs
      <3>2. /\ \A f \in Executor : f # e => \A j \in Item : task'[f][j] = task[f][j]
            /\ \A j \in Item : j # i => task'[e][j] = task[e][j] /\ item'[j] = item[j]
        BY <3>1 DEF TaskIs, ItemIs
      <3>3. /\ \A j \in Item : item'[j] = "queued" => item[j] = "queued"
            /\ \A j \in Item : item'[j] = "running" =>
                  task'[e][j] = "working" \/ (item[j] = "running" /\ task[e][j] # "working")
        BY <3>1, <3>2 DEF ItemIs, TaskIs
      <3>4. \A j \in Item : item'[j] = "queued" /\ Promised(e, j) => Promised(e, j)'
        BY <3>1, <3>2 DEF Promised, ItemIs
      <3>5. /\ run'[e].pc \notin {"failing", "down", "dead"}
            /\ run'[e].pc = "drain" => \/ \E j \in Item : task'[e][j] # "none"
                                      \/ run'[e].todo = {} \/ cancelReq'[run'[e].job]
        BY <1>f, <3>1, <3>2 DEF Upright, DrainsOut, TaskIs
      <3> QED BY <1>f, <3>1, <3>2, <3>3, <3>4, <3>5, SettleBy
    <2>4. CASE TaskWrite(e, i)
      <3>1. /\ task[e][i] \in {"sawBad", "sawClean"} /\ TaskIs(e, i, "done")
            /\ item' = item
            /\ UNCHANGED <<run, cancelReq>>
        BY <2>4, TaskWriteEffect DEF rows, TaskIs
      <3>2. /\ \A f \in Executor : f # e => \A j \in Item : task'[f][j] = task[f][j]
            /\ \A j \in Item : j # i => task'[e][j] = task[e][j] /\ item'[j] = item[j]
        BY <3>1 DEF TaskIs, ItemIs
      <3>3. /\ \A j \in Item : item'[j] = "queued" => item[j] = "queued"
            /\ \A j \in Item : item'[j] = "running" =>
                  task'[e][j] = "working" \/ (item[j] = "running" /\ task[e][j] # "working")
        BY <3>1, <3>2 DEF ItemIs, TaskIs
      <3>4. \A j \in Item : item'[j] = "queued" /\ Promised(e, j) => Promised(e, j)'
        BY <3>1, <3>2 DEF Promised, ItemIs
      <3>5. /\ run'[e].pc \notin {"failing", "down", "dead"}
            /\ run'[e].pc = "drain" => \/ \E j \in Item : task'[e][j] # "none"
                                      \/ run'[e].todo = {} \/ cancelReq'[run'[e].job]
        BY <1>f, <3>1, <3>2 DEF Upright, DrainsOut, TaskIs
      <3> QED BY <1>f, <3>1, <3>2, <3>3, <3>4, <3>5, SettleBy
    <2> QED BY <1>9, <2>1, <2>2, <2>3, <2>4 DEF RunItem
  <1>10. ASSUME NEW e \in Executor, NEW i \in Item, TaskFault(e, i) PROVE Settling'
    BY <1>10, <1>f, CalmStep
  <1>11. CASE WorkerDies
    BY <1>11, <1>f, CalmStep
  <1>12. CASE WorkerStart
    <2>1. run[Worker].pc = "down" /\ Worker \in Executor
      BY <1>12, WorkerStartEffect DEF Executor
    <2> QED BY <1>f, <2>1 DEF Upright
  <1>13. CASE UNCHANGED vars
    BY <1>13, <1>f, SettleAside DEF vars, rows
  <1> QED
    BY <1>1, <1>2, <1>3, <1>4, <1>5, <1>6, <1>7, <1>8, <1>9, <1>10, <1>11, <1>12,
       <1>13 DEF Next

-----------------------------------------------------------------------------
(* The life of an item.                                                    *)

\* No eligible item is set aside, and no task holds one that is cancelled.
Alive ==
    \A k \in Lasting : item[k] # "pending" /\ (task[Worker][k] # "none" => item[k] # "cancelled")

LEMMA LastingAre ==
    \A k \in Lasting : k \in Item /\ k \notin Ineligible /\ BatchOf[k] \in Ordinary
  BY ItemAssumption DEF Lasting, Ordinary

\* A step that leaves the items alone gives a task at most one that is not cancelled.
LEMMA Unmoved ==
    ASSUME Alive, \A k \in Lasting : item'[k] = item[k],
           \A k \in Lasting : task'[Worker][k] # "none"
                              => task[Worker][k] # "none" \/ item[k] # "cancelled"
    PROVE  Life!Next /\ Alive'
  <1>1. [k \in Lasting |-> item'[k]] = [k \in Lasting |-> item[k]]
    OBVIOUS
  <1>2. Erring' \subseteq Lasting
    BY DEF Erring
  <1>3. Life!Trouble
    BY <1>1, <1>2 DEF Life!Trouble
  <1> QED BY <1>3 DEF Life!Next, Alive

\* A step that changes one item leaves the others alone.
LEMMA MovedTo ==
    ASSUME Typed, NEW i \in Item, NEW to, ItemIs(i, to)
    PROVE  /\ [k \in Lasting |-> item'[k]] = [[k \in Lasting |-> item[k]] EXCEPT ![i] = to]
           /\ \A k \in Lasting : k # i => item'[k] = item[k]
           /\ item'[i] = to
  <1>1. Lasting \subseteq Item
    BY LastingAre
  <1> QED BY <1>1 DEF ItemIs

\* Every step is one of the life of an item, or of none.
LEMMA LifeStep ==
    ASSUME Typed, Books, Created, Tracked, Alive, [Next]_vars
    PROVE  Life!Next /\ Alive'
  <1>w. Worker \in Executor
    BY DEF Executor
  <1>o. \A k \in Lasting : TrackedOf(k) /\ k \in Item /\ k \notin Ineligible
    BY LastingAre DEF Tracked
  <1>s. \A k \in Lasting : item[k] \in {"absent", "queued", "running", "success", "failed", "cancelled"}
    BY <1>o DEF Alive, Typed, Columns, ItemStatus, Finished
  <1>b. \A k \in Lasting : task[Worker][k] # "none" => item[k] \notin {"absent", "cancelled"} /\ W.pc \in Pool
    BY <1>o, <1>w DEF Alive, Books, BooksOf, W
  <1>r. ASSUME UNCHANGED item,
               \A k \in Lasting : task'[Worker][k] # "none"
                                  => task[Worker][k] # "none" \/ item[k] # "cancelled"
        PROVE  Life!Next /\ Alive'
    BY <1>r, Unmoved
  <1>k. ASSUME UNCHANGED <<item, task>> PROVE Life!Next /\ Alive'
    BY <1>k, <1>r
  <1>1. CASE Apart
    <2>1. \A k \in Lasting : item'[k] = item[k] /\ task'[Worker][k] = task[Worker][k]
      BY <1>1, LastingAre DEF Apart
    <2> QED BY <2>1, Unmoved
  <1>2. CASE UNCHANGED vars
    BY <1>k, <1>2 DEF vars, rows
  <1>3. ASSUME NEW e \in Executor, e # Worker,
               \/ Execute(e) \/ RunFault(e) \/ Crash(e)
               \/ \E i \in Item : RunItem(e, i) \/ TaskFault(e, i)
        PROVE  Life!Next /\ Alive'
    BY <1>1, <1>3, WebThread
  <1>4. ASSUME NEW b \in Batch, Create(b) PROVE Life!Next /\ Alive'
    <2>1. CASE InsertBatch(b)
      BY <2>1, <1>k, InsertBatchEffect
    <2>2. CASE CreateItem(b)
      <3>1. PICK i \in Missing(b) : ItemIs(i, "queued") /\ UNCHANGED task
        BY <2>2, CreateItemEffect
      <3>2. i \in Item /\ item[i] = "absent"
        BY <3>1 DEF Missing, ItemsOf
      <3>3. /\ [k \in Lasting |-> item'[k]] = [[k \in Lasting |-> item[k]] EXCEPT ![i] = "queued"]
            /\ \A k \in Lasting : k # i => item'[k] = item[k]
            /\ item'[i] = "queued"
        BY <3>1, <3>2, MovedTo
      <3>4. CASE i \in Lasting
        <4>1. Life!Add(i)
          BY <3>1, <3>2, <3>3, <3>4 DEF Life!Add, Life!Moves, Erring
        <4>2. Alive'
          BY <3>1, <3>3 DEF Alive
        <4> QED BY <3>4, <4>1, <4>2 DEF Life!Next
      <3>5. CASE i \notin Lasting
        BY <3>1, <3>3, <3>5, Unmoved
      <3> QED BY <3>4, <3>5
    <2>3. CASE MarkIneligible(b)
      <3>1. PICK m \in ItemsOf(b) \cap Ineligible : ItemIs(m, "pending") /\ UNCHANGED task
        BY <2>3, MarksOneItem
      <3>2. \A k \in Lasting : item'[k] = item[k]
        BY <1>o, <3>1 DEF ItemIs
      <3> QED BY <3>1, <3>2, Unmoved
    <2>4. CASE CreatorCount(b)
      BY <2>4, <1>k, CreatorCountEffect DEF rows
    <2>5. CASE CreatorWrite(b)
      BY <2>5, <1>k, CreatorWriteEffect
    <2>6. CASE Enqueue(b)
      BY <2>6, <1>k, EnqueueEffect DEF rows
    <2> QED BY <1>4, <2>1, <2>2, <2>3, <2>4, <2>5, <2>6 DEF Create
  <1>5. ASSUME NEW b \in Batch, CancelRead(b) PROVE Life!Next /\ Alive'
    BY <1>5, <1>k, CancelReadEffect DEF rows
  <1>6. ASSUME NEW b \in Batch, ViewRead(b) PROVE Life!Next /\ Alive'
    BY <1>6, <1>k, ViewReadEffect DEF rows
  <1>7. CASE CancelWrite
    BY <1>7, <1>k, CancelWriteEffect
  <1>8. CASE ViewWrite
    BY <1>8, <1>k, ViewWriteEffect
  <1>9. CASE Execute(Worker)
    <2>1. CASE Claim(Worker)
      BY <2>1, <1>w, <1>k, ClaimEffect DEF rows
    <2>2. CASE ReadFlag(Worker)
      BY <2>2, <1>w, <1>k, ReadFlagEffect DEF rows
    <2>3. CASE Start(Worker)
      BY <2>3, <1>w, <1>k, StartEffect
    <2>4. CASE List(Worker)
      BY <2>4, <1>w, <1>k, ListEffect DEF rows
    <2>5. CASE Check(Worker)
      BY <2>5, <1>w, <1>k, CheckEffect DEF rows
    <2>6. CASE Submit(Worker)
      <3>1. PICK i \in W.todo : TaskIs(Worker, i, "submitted") /\ UNCHANGED item
        BY <2>6, <1>w, SubmitEffect DEF W, rows
      <3>2. \A k \in Lasting : k = i => item[k] = "queued"
        BY <1>o, <3>1 DEF TrackedOf
      <3>3. \A k \in Lasting : task'[Worker][k] # "none" => task[Worker][k] # "none" \/ item[k] # "cancelled"
        BY <1>o, <1>w, <3>1, <3>2 DEF TaskIs
      <3> QED BY <1>r, <3>1, <3>3
    <2>7. ASSUME NEW i \in Item, Collect(Worker, i) PROVE Life!Next /\ Alive'
      <3>1. /\ task[Worker][i] \in {"done", "raised"} /\ TaskIs(Worker, i, "none")
            /\ IF task[Worker][i] = "raised" THEN ItemIs(i, "failed") ELSE item' = item
        BY <2>7, <1>w, CollectEffect
      <3>2. \A k \in Lasting : task'[Worker][k] # "none" => task[Worker][k] # "none"
        BY <1>o, <1>w, <3>1 DEF TaskIs
      <3>3. CASE task[Worker][i] = "raised"
        <4>1. /\ [k \in Lasting |-> item'[k]] = [[k \in Lasting |-> item[k]] EXCEPT ![i] = "failed"]
              /\ \A k \in Lasting : k # i => item'[k] = item[k]
              /\ item'[i] = "failed"
          BY <3>1, <3>3, MovedTo
        <4>2. CASE i \in Lasting
          <5>1. item[i] \in {"queued", "running", "success", "failed"}
            BY <1>s, <1>b, <3>3, <4>2
          <5>2. i \in Erring /\ Erring' = Erring \ {i}
            BY <1>o, <1>w, <3>1, <3>3, <4>2 DEF Erring, TaskIs
          <5>3. Life!Fail(i)
            BY <4>1, <4>2, <5>1, <5>2 DEF Life!Fail, Life!Moves
          <5>4. Alive'
            BY <3>2, <4>1 DEF Alive
          <5> QED BY <4>2, <5>3, <5>4 DEF Life!Next
        <4>3. CASE i \notin Lasting
          BY <3>2, <4>1, <4>3, Unmoved
        <4> QED BY <4>2, <4>3
      <3>4. CASE task[Worker][i] # "raised"
        BY <1>r, <3>1, <3>2, <3>4
      <3> QED BY <3>3, <3>4
    <2>8. CASE Drained(Worker)
      BY <2>8, <1>w, <1>k, DrainedEffect DEF rows
    <2>9. CASE ListCancel(Worker)
      BY <2>9, <1>w, <1>k, ListCancelEffect DEF rows
    <2>10. CASE CancelItem(Worker)
      <3>0. UNCHANGED task
        BY <2>10, <1>w, CancelItemEffect
      <3>1. CASE run[Worker].todo = {}
        BY <2>10, <3>0, <3>1, <1>w, <1>k, CancelItemEffect
      <3>2. CASE run[Worker].todo # {}
        <4>1. PICK i \in W.todo : i \in Item /\ ItemIs(i, "cancelled")
          BY <2>10, <3>2, <1>w, CancelItemEffect DEF W
        <4>2. W.pc \notin Pool
          BY <2>10, <1>w, CancelItemEffect DEF W, Pool
        <4>3. /\ [k \in Lasting |-> item'[k]] = [[k \in Lasting |-> item[k]] EXCEPT ![i] = "cancelled"]
              /\ \A k \in Lasting : k # i => item'[k] = item[k]
              /\ item'[i] = "cancelled"
          BY <4>1, MovedTo
        <4>4. CASE i \in Lasting
          <5>1. item[i] = "queued"
            BY <1>o, <4>1, <4>4 DEF TrackedOf
          <5>2. task[Worker][i] = "none" /\ i \notin Erring
            BY <1>b, <4>2, <4>4 DEF Erring
          <5>3. Life!Cancel(i)
            BY <3>0, <4>3, <4>4, <5>1, <5>2 DEF Life!Cancel, Life!Moves, Erring
          <5>4. Alive'
            BY <3>0, <4>3, <5>2 DEF Alive
          <5> QED BY <4>4, <5>3, <5>4 DEF Life!Next
        <4>5. CASE i \notin Lasting
          BY <3>0, <4>3, <4>5, Unmoved
        <4> QED BY <4>4, <4>5
      <3> QED BY <3>1, <3>2
    <2>11. CASE CountRead(Worker)
      BY <2>11, <1>w, <1>k, CountReadEffect DEF rows
    <2>12. CASE CountWrite(Worker)
      BY <2>12, <1>w, <1>k, CountWriteEffect
    <2>13. CASE Decide(Worker)
      BY <2>13, <1>w, <1>k, DecideEffect DEF rows
    <2>14. CASE Finish(Worker)
      BY <2>14, <1>w, <1>k, FinishEffect
    <2>15. CASE Manifest(Worker)
      BY <2>15, <1>w, <1>k, ManifestEffect DEF rows
    <2>16. CASE FailBatch(Worker)
      <3>1. PoolGone(Worker) /\ UNCHANGED item
        BY <2>16, <1>w, FailBatchEffect
      <3> QED BY <1>r, <1>o, <3>1 DEF PoolGone
    <2> QED
      BY <1>9, <2>1, <2>2, <2>3, <2>4, <2>5, <2>6, <2>7, <2>8, <2>9,
         <2>10, <2>11, <2>12, <2>13, <2>14, <2>15, <2>16 DEF Execute
  <1>10. CASE RunFault(Worker)
    BY <1>10, <1>w, <1>k, RunFaultEffect DEF rows
  <1>11. CASE Crash(Worker)
    <2>1. PoolGone(Worker) /\ UNCHANGED item
      BY <1>11, <1>w, CrashEffect DEF rows
    <2> QED BY <1>r, <1>o, <2>1 DEF PoolGone
  <1>12. ASSUME NEW i \in Item, RunItem(Worker, i) PROVE Life!Next /\ Alive'
    <2>1. CASE TaskStart(Worker, i)
      <3>1. task[Worker][i] = "submitted" /\ TaskIs(Worker, i, "working") /\ ItemIs(i, "running")
        BY <2>1, <1>w, TaskStartEffect
      <3>2. /\ [k \in Lasting |-> item'[k]] = [[k \in Lasting |-> item[k]] EXCEPT ![i] = "running"]
            /\ \A k \in Lasting : k # i => item'[k] = item[k]
            /\ item'[i] = "running"
        BY <3>1, MovedTo
      <3>3. \A k \in Lasting : task'[Worker][k] # "none" => task[Worker][k] # "none"
        BY <1>o, <1>w, <3>1 DEF TaskIs
      <3>4. CASE i \in Lasting
        <4>1. item[i] = "queued" /\ i \notin Erring
          BY <1>o, <3>1, <3>4 DEF TrackedOf, Erring
        <4>2. Erring' = Erring
          BY <1>o, <1>w, <3>1 DEF Erring, TaskIs
        <4>3. Life!Run(i)
          BY <3>2, <3>4, <4>1, <4>2 DEF Life!Run, Life!Moves
        <4>4. Alive'
          BY <3>2, <3>3 DEF Alive
        <4> QED BY <3>4, <4>3, <4>4 DEF Life!Next
      <3>5. CASE i \notin Lasting
        BY <3>2, <3>3, <3>5, Unmoved
      <3> QED BY <3>4, <3>5
    <2>2. CASE TaskStore(Worker, i)
      <3>1. \/ /\ task[Worker][i] = "working" /\ TaskIs(Worker, i, "stored")
               /\ ItemIs(i, "success") \/ ItemIs(i, "failed")
            \/ task[Worker][i] = "erring" /\ TaskIs(Worker, i, "storedError") /\ ItemIs(i, "failed")
        BY <2>2, <1>w, TaskStoreEffect
      <3>2. PICK to \in {"success", "failed"} : ItemIs(i, to)
        BY <3>1
      <3>3. /\ [k \in Lasting |-> item'[k]] = [[k \in Lasting |-> item[k]] EXCEPT ![i] = to]
            /\ \A k \in Lasting : k # i => item'[k] = item[k]
            /\ item'[i] = to
        BY <3>2, MovedTo
      <3>4. \A k \in Lasting : task'[Worker][k] # "none" => task[Worker][k] # "none"
        BY <1>o, <1>w, <3>1 DEF TaskIs
      <3>5. CASE i \notin Lasting
        BY <3>3, <3>4, <3>5, Unmoved
      <3>6. Alive'
        BY <3>3, <3>4 DEF Alive
      <3>7. CASE i \in Lasting /\ task[Worker][i] = "working"
        <4>1. item[i] = "running" /\ i \notin Erring
          BY <1>o, <3>7 DEF TrackedOf, Erring
        <4>2. Erring' = Erring
          BY <1>o, <1>w, <3>1, <3>7 DEF Erring, TaskIs
        <4>3. Life!End(i)
          BY <3>3, <3>7, <4>1, <4>2 DEF Life!End, Life!Moves
        <4> QED BY <3>6, <3>7, <4>3 DEF Life!Next
      <3>8. CASE i \in Lasting /\ task[Worker][i] = "erring"
        <4>1. item[i] \in {"queued", "running", "success", "failed"}
          BY <1>s, <1>b, <3>8
        <4>2. i \in Erring /\ Erring' = Erring \ {i}
          BY <1>o, <1>w, <3>1, <3>8 DEF Erring, TaskIs
        <4>3. item'[i] = "failed"
          BY <3>1, <3>8 DEF ItemIs
        <4>4. Life!Fail(i)
          BY <3>3, <3>8, <4>1, <4>2, <4>3 DEF Life!Fail, Life!Moves
        <4> QED BY <3>6, <3>8, <4>4 DEF Life!Next
      <3> QED BY <3>1, <3>5, <3>7, <3>8
    <2>3. CASE TaskCount(Worker, i)
      <3>1. UNCHANGED item /\ \A k \in Lasting : task'[Worker][k] # "none" => task[Worker][k] # "none"
        BY <2>3, <1>o, <1>w, TaskCountEffect DEF rows, TaskIs
      <3> QED BY <1>r, <3>1
    <2>4. CASE TaskWrite(Worker, i)
      <3>1. UNCHANGED item /\ \A k \in Lasting : task'[Worker][k] # "none" => task[Worker][k] # "none"
        BY <2>4, <1>o, <1>w, TaskWriteEffect DEF TaskIs
      <3> QED BY <1>r, <3>1
    <2> QED BY <1>12, <2>1, <2>2, <2>3, <2>4 DEF RunItem
  <1>13. ASSUME NEW i \in Item, TaskFault(Worker, i) PROVE Life!Next /\ Alive'
    <2>1. UNCHANGED item /\ \A k \in Lasting : task'[Worker][k] # "none" => task[Worker][k] # "none"
      BY <1>13, <1>o, <1>w, TaskFaultEffect DEF rows, TaskIs
    <2> QED BY <1>r, <2>1
  <1>14. CASE WorkerDies
    <2>1. PoolGone(Worker) /\ UNCHANGED item
      BY <1>14, <1>w, WorkerDiesEffect DEF rows
    <2> QED BY <1>r, <1>o, <2>1 DEF PoolGone
  <1>15. CASE WorkerStart
    <2> DEFINE S == {k \in Lasting : BatchOf[k] \in Interrupted /\ item[k] = "running"}
    <2>1. /\ W.pc = "down" /\ UNCHANGED task
          /\ \A i \in Item : item'[i] = IF BatchOf[i] \in Interrupted /\ item[i] = "running"
                                        THEN "queued" ELSE item[i]
      BY <1>15, WorkerStartEffect DEF W
    <2>2. \A k \in Lasting : task[Worker][k] = "none"
      BY <1>b, <2>1 DEF Pool
    <2>3. [k \in Lasting |-> item'[k]]
            = [k \in Lasting |-> IF k \in S THEN "queued" ELSE [j \in Lasting |-> item[j]][k]]
      BY <1>o, <2>1
    <2>4. S \subseteq Lasting /\ \A k \in S : [j \in Lasting |-> item[j]][k] = "running" /\ k \notin Erring
      BY <2>2 DEF Erring
    <2>5. Erring' = Erring
      BY <2>1 DEF Erring
    <2> HIDE DEF S
    <2>6. PICK T \in SUBSET Lasting : T = S
      BY <2>4
    <2>7. Life!Requeue(T)
      BY <2>3, <2>4, <2>5, <2>6 DEF Life!Requeue
    <2>8. Alive'
      BY <1>o, <2>1 DEF Alive
    <2> QED BY <2>7, <2>8 DEF Life!Next
  <1> QED
    BY <1>2, <1>3, <1>4, <1>5, <1>6, <1>7, <1>8, <1>9, <1>10, <1>11, <1>12, <1>13,
       <1>14, <1>15 DEF Next

-----------------------------------------------------------------------------
(* The theorems.                                                           *)

Inv ==
    /\ Typed /\ Books /\ Made /\ Created /\ ListedReady /\ RoomInPool
    /\ Staged /\ Tracked /\ DrainsToTheEnd /\ Covered /\ Judged /\ Late

\* Nothing exists in the initial state.
LEMMA Initial == Init => Inv
  <1> SUFFICES ASSUME Init PROVE Inv
    OBVIOUS
  <1>w. Worker \in Executor /\ Executor \subseteq Batch \cup {Worker} /\ Ordinary \subseteq Batch
        /\ Worker \notin Batch
    BY SingleAssumption DEF Executor, Ordinary
  <1>1. /\ \A b \in Batch : status[b] = "absent" /\ creator[b] = "none" /\ late[b] = {}
                            /\ ~cancelReq[b]
        /\ \A i \in Item : item[i] = "absent" /\ \A e \in Executor : task[e][i] = "none"
        /\ early = {} /\ lost = {}
        /\ request = NoRequest
    BY DEF Init, NoTasks
  <1>2. \A e \in Executor : /\ run[e].pc = "idle" /\ run[e].job = Worker /\ run[e].todo = {}
                            /\ run[e].verdict = "none"
    BY DEF Init, NoRun
  <1>3. Columns
    <2>1. run \in [Executor -> RunRow]
      BY PcNames DEF Init, NoRun, RunRow, Free, Verdicts
    <2>2. task \in [Executor -> [Item -> TaskState]]
      BY DEF Init, NoTasks, TaskState
    <2> QED BY <2>1, <2>2 DEF Init, Columns, StatusOf, ItemStatus, CreatorStage
  <1>4. Typed
    BY <1>2, <1>3 DEF Init, Typed, Held, Steady, Free, Putting
  <1>5. Books
    BY <1>1, <1>2 DEF Books, BooksOf
  <1>6. Made
    BY <1>1, <1>2, <1>w DEF Made
  <1>7. Created
    BY <1>1 DEF Created, CreatedOf, Ready, ItemsOf
  <1>8. ListedReady
    BY <1>2, <1>w DEF ListedReady
  <1>9. RoomInPool
    <2>1. \A e \in Executor : Futures(e) = {} /\ run[e].pc \notin Room
      BY <1>1, <1>2 DEF Futures, Room
    <2>2. IsFiniteSet({}) /\ Cardinality({}) = 0 /\ MaxWorkers \in Nat
      BY FS_EmptySet, BoundAssumption
    <2> QED BY <2>1, <2>2 DEF RoomInPool
  <1>10. Staged
    <2>1. request.batch = Worker /\ W.job = Worker
      BY <1>1, <1>2, <1>w DEF NoRequest, W
    <2> QED BY <2>1, <1>w DEF Staged
  <1>11. Tracked /\ DrainsToTheEnd
    BY <1>1, <1>2, <1>w DEF Tracked, TrackedOf, DrainsToTheEnd, W
  <1>12. Covered
    BY <1>1, <1>2, <1>w DEF Covered, CoveredOf, Ended, W
  <1>13. Judged
    BY <1>1, <1>2, <1>w DEF Judged, VerdictOf, W
  <1>14. Late
    BY <1>1, <1>w DEF Late, LateOf
  <1> QED BY <1>4, <1>5, <1>6, <1>7, <1>8, <1>9, <1>10, <1>11, <1>12, <1>13, <1>14 DEF Inv

\* Every step keeps the invariant.
LEMMA NextInv ==
    ASSUME Inv, [Next]_vars
    PROVE  Inv'
  <1>1. Typed' /\ Books' /\ Made' /\ Created'
    BY TypedStep, BooksStep, MadeStep, CreatedStep DEF Inv
  <1>2. ListedReady' /\ RoomInPool' /\ Staged' /\ Tracked'
    BY ListedReadyStep, RoomStep, StagedStep, TrackedStep DEF Inv
  <1>3. DrainsToTheEnd' /\ Covered' /\ Judged' /\ Late'
    BY DrainStep, CoveredStep, JudgedStep, LateStep DEF Inv
  <1> QED BY <1>1, <1>2, <1>3 DEF Inv

LEMMA Invariant == Spec => []Inv
  BY Initial, NextInv, PTL DEF Spec

\* Type correctness of the tables, of the executors and of the tasks.
THEOREM TypeCorrect == Spec => []TypeOK
  <1>1. Inv => TypeOK
    BY Types DEF Inv, Typed
  <1> QED BY <1>1, Invariant, PTL

\* RunningHasOwner, at every moment: no crash, restart, cancellation or database
\* error leaves an item of an ordinary batch marked running that nobody runs and no
\* recovery will requeue, unless an exception has marked the batch failed.
THEOREM NoOrphanItem == Spec => []RunningHasOwner
  <1>1. Inv => RunningHasOwner
    <2> SUFFICES ASSUME Tracked, NEW i \in Item, item[i] = "running",
                        BatchOf[i] \notin Single \cup aborted
                 PROVE  \/ task[Worker][i] \in {"working", "erring", "raised"}
                        \/ run[Worker].pc \in {"down", "dead"}
      BY DEF Inv, RunningHasOwner
    <2>1. BatchOf[i] \in Ordinary
      BY ItemAssumption DEF Ordinary
    <2> QED BY <2>1 DEF Tracked, TrackedOf, W
  <1> QED BY <1>1, Invariant, PTL

\* NothingStranded, at every moment: a batch that ended normally has run, cancelled
\* or set aside every one of its items, whatever was interrupted on the way.
THEOREM NoItemStranded == Spec => []NothingStranded
  <1>1. Inv => NothingStranded
    <2> SUFFICES ASSUME Covered, NEW b \in Batch \ (Single \cup early \cup aborted),
                        status[b] \in {"completed", "completed_with_failures", "cancelled"},
                        NEW i \in ItemsOf(b)
                 PROVE  item[i] \in Finished
      BY DEF Inv, NothingStranded
    <2>1. i \in Item /\ BatchOf[i] = b /\ b \in Ordinary /\ status[b] \in Ended
      BY DEF ItemsOf, Ordinary, Ended
    <2> QED BY <2>1 DEF Covered, CoveredOf
  <1> QED BY <1>1, Invariant, PTL

\* VerdictHonest, at every moment: "completed" means that every item succeeded, up
\* to a stale recount between the runner's write and its second look at the row.
THEOREM HonestVerdict == Spec => []VerdictHonest
  <1>1. Inv => VerdictHonest
    <2> SUFFICES ASSUME Judged, NEW b \in Batch \ (Single \cup early \cup blurred \cup aborted),
                        status[b] = "completed"
                 PROVE  \A i \in ItemsOf(b) : item[i] = "success"
      BY DEF Inv, VerdictHonest
    <2>1. b \in Ordinary
      BY DEF Ordinary
    <2> QED BY <2>1 DEF Judged, VerdictOf, AllGood
  <1> QED BY <1>1, Invariant, PTL

\* LateStartsBounded, at every moment: once a cancellation is recorded, no more items
\* are started than the pool has threads, unless a restart takes it back.
THEOREM FewLateStarts == Spec => []LateStartsBounded
  <1>1. Inv => LateStartsBounded
    <2> SUFFICES ASSUME Late, NEW b \in Batch \ (Single \cup lost)
                 PROVE  Cardinality(late[b]) <= MaxWorkers
      BY DEF Inv, LateStartsBounded
    <2>1. LateOf(b) /\ MaxWorkers \in Nat
      BY BoundAssumption DEF Late, Ordinary
    <2>2. CASE cancelReq[b]
      <3> DEFINE L == late[b] \cup Outstanding(b)
      <3>1. IsFiniteSet(L) /\ Cardinality(L) <= MaxWorkers /\ late[b] \subseteq L
        BY <2>1, <2>2 DEF LateOf
      <3> HIDE DEF L
      <3>2. IsFiniteSet(late[b]) /\ Cardinality(late[b]) <= Cardinality(L)
        BY <3>1, FS_Subset
      <3>3. Cardinality(late[b]) \in Nat /\ Cardinality(L) \in Nat
        BY <3>1, <3>2, FS_CardinalityType
      <3> QED BY <2>1, <3>1, <3>2, <3>3
    <2>3. CASE ~cancelReq[b]
      <3>1. late[b] = {}
        BY <2>1, <2>3 DEF LateOf
      <3> QED BY <2>1, <3>1, FS_EmptySet
    <2> QED BY <2>2, <2>3
  <1> QED BY <1>1, Invariant, PTL

\* ImplementsTestItem, for any batches, pool, crashes, cancellations and database
\* errors: however often a batch is claimed, cancelled, recovered or run again, an
\* eligible item is run only while it waits and cancelled only while no task holds it,
\* and what it has come to is final, but for a database error of its own task.
THEOREM ItemsImplementTestItem == Spec => ImplementsTestItem
  <1>1. Init => Life!Init /\ Alive
    <2> SUFFICES ASSUME Init PROVE Life!Init /\ Alive
      OBVIOUS
    <2>1. \A i \in Item : item[i] = "absent" /\ task[Worker][i] = "none"
      BY DEF Init, NoTasks, Executor
    <2>2. [k \in Lasting |-> item[k]] = [k \in Lasting |-> "absent"] /\ Erring = {}
      BY <2>1, LastingAre DEF Erring
    <2>3. Alive
      BY <2>1, LastingAre DEF Alive
    <2> QED BY <2>2, <2>3 DEF Life!Init
  <1>2. Inv /\ Alive /\ [Next]_vars => [Life!Next]_(Life!vars) /\ Alive'
    BY LifeStep DEF Inv
  <1> QED BY <1>1, <1>2, Invariant, PTL DEF Spec, ImplementsTestItem, Life!Spec

\* What an eligible item of an ordinary batch has come to is not overwritten.
FinishedItemsStay ==
    [][\A i \in Item \ Ineligible :
          item[i] \in Finished /\ BatchOf[i] \notin Single
          => \/ item'[i] = item[i]
             \/ item'[i] = "failed" /\ task[Worker][i] \in {"erring", "raised"}]_vars

\* FinishedItemsStay, at every step: however often a batch is claimed, cancelled,
\* recovered or run again, what an eligible item has come to is not overwritten,
\* except by the task that stored it and then met a database error.
THEOREM FinishedIsFinal == Spec => FinishedItemsStay
  <1> DEFINE Stay == \A i \in Item \ Ineligible :
                        item[i] \in Finished /\ BatchOf[i] \notin Single
                        => \/ item'[i] = item[i]
                           \/ item'[i] = "failed" /\ task[Worker][i] \in {"erring", "raised"}
  <1>1. Inv /\ [Next]_vars => Stay
    <2> SUFFICES ASSUME Typed, Books, Created, Tracked, [Next]_vars,
                        NEW i \in Item \ Ineligible, item[i] \in Finished,
                        BatchOf[i] \notin Single
                 PROVE  \/ item'[i] = item[i]
                        \/ item'[i] = "failed" /\ task[Worker][i] \in {"erring", "raised"}
      BY DEF Inv
    <2>1. BatchOf[i] \in Ordinary
      BY ItemAssumption DEF Ordinary
    <2> QED BY <2>1, FinishedStep
  <1> QED BY <1>1, Invariant, PTL DEF Spec, FinishedItemsStay

\* SingleSettles, at every moment: however the Web thread and the worker share a single
\* test and whenever it is cancelled, once both are through its items have come to an
\* end, as long as no process has crashed and no database error has occurred.
THEOREM SinglesSettle == Spec => []SingleSettles
  <1> DEFINE J == Budgeted /\ DoneFirst /\ (Calm => Settling)
  <1>1. Init => J
    <2> SUFFICES ASSUME Init PROVE J
      OBVIOUS
    <2>1. Budgeted
      BY BoundAssumption DEF Init, Budgeted
    <2>2. \A e \in Executor : run[e].pc = "idle"
      BY DEF Init, NoRun
    <2>3. DoneFirst /\ Upright /\ DrainsOut
      BY <2>2 DEF DoneFirst, Upright, DrainsOut, Executor
    <2>4. Worked /\ Promises
      BY DEF Init, Worked, Promises
    <2> QED BY <2>1, <2>3, <2>4 DEF Settling
  <1>2. Inv /\ J /\ [Next]_vars => J'
    BY CalmStep, DoneFirstStep, SettlingStep DEF Inv
  <1>3. Inv /\ J => SingleSettles
    <2> SUFFICES ASSUME Inv, J, NEW b \in Single, run[b].pc = "over", run[Worker].pc = "idle",
                        Calm, NEW i \in ItemsOf(b)
                 PROVE  item[i] \in Finished
      BY DEF SingleSettles, Calm
    <2>1. i \in Item /\ BatchOf[i] = b /\ b \in Batch /\ b \in Executor /\ b # Worker
          /\ Worker \in Executor
      BY SingleAssumption DEF ItemsOf, Executor
    <2>2. item[i] # "absent"
      BY <2>1 DEF DoneFirst, Inv, Created, CreatedOf, Ready
    <2>3. \A e \in Executor : run[e].job # b
      <3>1. run[b].job = Worker /\ run[Worker].job = Worker
        BY <2>1 DEF Inv, Typed, Steady, Free
      <3> QED BY <2>1, <3>1 DEF Inv, Books, BooksOf
    <2>4. \A e \in Executor : ~Promised(e, i) /\ task[e][i] # "working"
      BY <2>1, <2>3 DEF Promised, Inv, Books, BooksOf
    <2>5. item[i] \notin {"queued", "running"}
      BY <2>1, <2>4 DEF Settling, Promises, Worked
    <2> QED BY <2>1, <2>2, <2>5 DEF Inv, Typed, Columns, ItemStatus
  <1> QED BY <1>1, <1>2, <1>3, Invariant, PTL DEF Spec

=============================================================================
