--------------------------- MODULE BatchRetention ---------------------------
(***************************************************************************)
(* The end of a batch of interface tests: the retention cleanup and the    *)
(* administrator's deletion (services/admin_api_test_cleanup_service.py),  *)
(* the locks and retention periods (services/admin_api_test_repository.py) *)
(* and the directory of results (services/admin_api_test_storage.py).      *)
(* Every call of the repository is a transaction of its own and a step.     *)
(*                                                                         *)
(* A deleter is the nightly cleanup in the external worker or a request    *)
(* of an administrator.  The cleanup works down a list it has read once.   *)
(* While a batch is executed it is "busy"; the runner finishes it and then *)
(* writes the manifest into its directory.                                 *)
(***************************************************************************)
EXTENDS Naturals

CONSTANTS
    Batches,
    Parent,         \* [Batches -> Batches]: whose failures it retries, or itself
    Managed,        \* bound: the batches an administrator locks, changes or deletes
    Retention,      \* the retention periods an administrator chooses from
    MaxNow,         \* bound: the last instant
    MaxChanges,     \* bound: locks, unlocks and changes of retention
    MaxMishaps      \* bound: crashes and failing deletions

ASSUME ParentIsBatch == Parent \in [Batches -> Batches] /\ Managed \subseteq Batches
ASSUME RetentionIsNat == Retention \subseteq Nat /\ {MaxNow, MaxChanges, MaxMishaps} \subseteq Nat

Cleaner == "cleaner"
Admin == "admin"
Deleters == {Cleaner, Admin}

VARIABLES
    now,
    row,        \* the row of each batch, NoRow before and after
    files,      \* whether it has a directory of results
    runner,     \* "new", "running", "finishing" (the manifest is missing), "over"
    stage,      \* where each deleter is
    target,     \* the batch it deletes
    list,       \* what is left of the list of the cleanup
    change,     \* an unlock or change of retention that has read the row, or NoChange
    touched,    \* batches locked or given another period under a deletion (history)
    late,       \* batches whose manifest came after their deletion (history)
    forsaken,   \* batches a deletion of which died on the way (history)
    changes, mishaps

deleterVars == <<stage, target, list>>
historyVars == <<touched, late, forsaken>>
retentionVars == <<now, row, files, runner, deleterVars, change, historyVars, changes, mishaps>>

None == "none"
NoRow == [gone |-> TRUE]
NoChange == [none |-> TRUE]
Never == MaxNow + 1000      \* expires_at IS NULL
Exists(b) == row[b] # NoRow
Busy(b) == Exists(b) /\ row[b].finished = Never

RetentionInit ==
    /\ now = 0
    /\ row = [b \in Batches |-> NoRow]
    /\ files = [b \in Batches |-> FALSE]
    /\ runner = [b \in Batches |-> "new"]
    /\ stage = [d \in Deleters |-> "idle"]
    /\ target = [d \in Deleters |-> None]
    /\ list = {}
    /\ change = NoChange
    /\ touched = {} /\ late = {} /\ forsaken = {}
    /\ changes = 0 /\ mishaps = 0

-----------------------------------------------------------------------------
(* The life of a batch. *)

\* create_batch makes the directory before the row; the items put their results
\* into it.  A retry names the batch it repeats, which the foreign key keeps.
CreateBatch(b) ==
    /\ runner[b] = "new"
    /\ Parent[b] # b => Exists(Parent[b]) /\ ~Busy(Parent[b])
    /\ runner' = [runner EXCEPT ![b] = "running"]
    /\ \E days \in Retention :
          row' = [row EXCEPT ![b] = [locked |-> FALSE, cleanup |-> "active", days |-> days,
                                     finished |-> Never, expires |-> Never]]
    /\ files' = [files EXCEPT ![b] = TRUE]
    /\ UNCHANGED <<now, deleterVars, change, historyVars, changes, mishaps>>

\* _finish_batch, or the except branch of run_batch_now, which sets no expiry.
FinishBatch(b) ==
    /\ runner[b] = "running"
    /\ runner' = [runner EXCEPT ![b] = "finishing"]
    /\ \E expires \in {now + row[b].days, Never} :
          row' = [row EXCEPT ![b].finished = now, ![b].expires = expires]
    /\ UNCHANGED <<now, files, deleterVars, change, historyVars, changes, mishaps>>

\* write_batch_manifest creates the directory again if it has to.
WriteManifest(b) ==
    /\ runner[b] = "finishing"
    /\ runner' = [runner EXCEPT ![b] = "over"]
    /\ files' = [files EXCEPT ![b] = TRUE]
    /\ late' = IF files[b] THEN late ELSE late \cup {b}
    /\ UNCHANGED <<now, row, deleterVars, change, touched, forsaken, changes, mishaps>>

-----------------------------------------------------------------------------
(* Locks and retention periods. *)

Held(b) == b \in list \/ \E d \in Deleters : stage[d] # "idle" /\ target[d] = b

\* update_batch by an administrator; nothing happens to a row that is gone.
Update(b, r) ==
    /\ row' = IF Exists(b) THEN [row EXCEPT ![b] = r] ELSE row
    /\ touched' = IF Held(b) THEN touched \cup {b} ELSE touched
    /\ UNCHANGED <<now, files, runner, deleterVars, late, forsaken, mishaps>>

LockBatch(b) ==
    /\ Exists(b) /\ changes < MaxChanges
    /\ changes' = changes + 1
    /\ Update(b, [row[b] EXCEPT !.locked = TRUE])
    /\ UNCHANGED change

\* unlock_batch and set_retention_days read the row and compute the columns to
\* write from it: an unlocked batch begins its period anew, and a locked or
\* unfinished batch keeps its expiry when it gets another period.
BeginChange(b, columns) ==
    /\ change = NoChange /\ Exists(b) /\ changes < MaxChanges
    /\ changes' = changes + 1
    /\ change' = columns
    /\ UNCHANGED <<now, row, files, runner, deleterVars, historyVars, mishaps>>

Unlock(b) ==
    BeginChange(b, [batch |-> b, unlock |-> TRUE, days |-> row[b].days,
                    expires |-> now + row[b].days])

SetRetentionDays(b) ==
    \E days \in Retention :
        BeginChange(b, [batch |-> b, unlock |-> FALSE, days |-> days,
                        expires |-> IF row[b].locked \/ Busy(b) THEN row[b].expires
                                    ELSE row[b].finished + days])

\* The columns written, over what the row has become: unlock_batch leaves
\* retention_days alone, set_retention_days the lock.
Written(r) ==
    IF change.unlock THEN [r EXCEPT !.locked = FALSE, !.expires = change.expires]
    ELSE [r EXCEPT !.days = change.days, !.expires = change.expires]

EndChange ==
    /\ change # NoChange
    /\ change' = NoChange
    /\ Update(change.batch, Written(row[change.batch]))
    /\ UNCHANGED changes

-----------------------------------------------------------------------------
(* Deletion. *)

\* Mutant of the next operator: the locks are not looked at.
ExpiredOrLocked ==
    {b \in Batches : /\ Exists(b) /\ ~Busy(b)
                     /\ row[b].cleanup \in {"active", "delete_failed"}
                     /\ row[b].expires < now}

\* expired_batches
Expired ==
    {b \in Batches : /\ Exists(b) /\ ~Busy(b) /\ ~row[b].locked
                     /\ row[b].cleanup \in {"active", "delete_failed"}
                     /\ row[b].expires < now}

At(d, next, b) ==
    /\ stage' = [stage EXCEPT ![d] = next]
    /\ target' = [target EXCEPT ![d] = b]

\* cleanup_once reads its list.
BeginCleanup ==
    /\ stage[Cleaner] = "idle" /\ list = {} /\ Expired # {}
    /\ list' = Expired
    /\ UNCHANGED <<now, row, files, runner, stage, target, change, historyVars, changes, mishaps>>

NextOfList ==
    /\ stage[Cleaner] = "idle"
    /\ \E b \in list : list' = list \ {b} /\ At(Cleaner, "chosen", b)
    /\ UNCHANGED <<now, row, files, runner, change, historyVars, changes, mishaps>>

\* delete_batch of the service: a locked or running batch is refused.
BeginDelete(b) ==
    /\ stage[Admin] = "idle"
    /\ Exists(b) /\ ~row[b].locked /\ ~Busy(b)
    /\ At(Admin, "chosen", b)
    /\ UNCHANGED <<now, row, files, runner, list, change, historyVars, changes, mishaps>>

\* cleanup_status = "deleting" and an event, which a row that is gone refuses.
Mark(d) ==
    LET b == target[d]
    IN  /\ stage[d] = "chosen"
        /\ \/ Exists(b) /\ row' = [row EXCEPT ![b].cleanup = "deleting"] /\ At(d, "marked", b)
           \/ ~Exists(b) /\ At(d, "failing", b) /\ UNCHANGED row
        /\ UNCHANGED <<now, files, runner, list, change, historyVars, changes, mishaps>>

\* Mutant of the next operator: a directory that cannot be removed is left alone.
RemoveFilesAnyhow(d) ==
    LET b == target[d]
    IN  /\ stage[d] = "marked"
        /\ \/ files' = [files EXCEPT ![b] = FALSE] /\ UNCHANGED mishaps
           \/ mishaps < MaxMishaps /\ mishaps' = mishaps + 1 /\ UNCHANGED files
        /\ At(d, "emptied", b)
        /\ UNCHANGED <<now, row, runner, list, change, historyVars, changes>>

\* storage.delete_batch: rmtree, which may fail on the way.
RemoveFiles(d) ==
    LET b == target[d]
    IN  /\ stage[d] = "marked"
        /\ \/ files' = [files EXCEPT ![b] = FALSE] /\ At(d, "emptied", b) /\ UNCHANGED mishaps
           \/ /\ files[b] /\ mishaps < MaxMishaps
              /\ mishaps' = mishaps + 1
              /\ At(d, "failing", b) /\ UNCHANGED files
        /\ UNCHANGED <<now, row, runner, list, change, historyVars, changes>>

\* delete_batch_metadata: the foreign key keeps a batch that was retried.
RemoveRow(d) ==
    LET b == target[d]
        retried == \E c \in Batches \ {b} : Parent[c] = b /\ Exists(c)
    IN  /\ stage[d] = "emptied"
        /\ \/ ~retried /\ row' = [row EXCEPT ![b] = NoRow] /\ At(d, "idle", None)
           \/ retried /\ At(d, "failing", b) /\ UNCHANGED row
        /\ UNCHANGED <<now, files, runner, list, change, historyVars, changes, mishaps>>

\* The except branch.
RecordFailure(d) ==
    LET b == target[d]
    IN  /\ stage[d] = "failing"
        /\ row' = IF Exists(b) THEN [row EXCEPT ![b].cleanup = "delete_failed"] ELSE row
        /\ At(d, "idle", None)
        /\ UNCHANGED <<now, files, runner, list, change, historyVars, changes, mishaps>>

\* The process of a deleter dies.
Die(d) ==
    /\ stage[d] # "idle" /\ mishaps < MaxMishaps
    /\ mishaps' = mishaps + 1
    /\ forsaken' = IF stage[d] = "chosen" THEN forsaken ELSE forsaken \cup {target[d]}
    /\ list' = IF d = Cleaner THEN {} ELSE list
    /\ At(d, "idle", None)
    /\ UNCHANGED <<now, row, files, runner, change, touched, late, changes>>

Wait ==
    /\ now < MaxNow
    /\ now' = now + 1
    /\ UNCHANGED <<row, files, runner, deleterVars, change, historyVars, changes, mishaps>>

Delete(d) == Mark(d) \/ RemoveFiles(d) \/ RemoveRow(d) \/ RecordFailure(d) \/ Die(d)

RetentionNext ==
    \/ \E b \in Batches :
          CreateBatch(b) \/ FinishBatch(b) \/ WriteManifest(b)
    \/ \E b \in Managed :
          LockBatch(b) \/ Unlock(b) \/ SetRetentionDays(b) \/ BeginDelete(b)
    \/ EndChange
    \/ BeginCleanup \/ NextOfList
    \/ \E d \in Deleters : Delete(d)
    \/ Wait

RetentionSpec == RetentionInit /\ [][RetentionNext]_retentionVars

-----------------------------------------------------------------------------

BatchRow ==
    [locked : BOOLEAN, cleanup : {"active", "deleting", "delete_failed"}, days : Retention,
     finished : 0..MaxNow \cup {Never}, expires : Nat]

RetentionTypeOK ==
    /\ now \in 0..MaxNow
    /\ row \in [Batches -> BatchRow \cup {NoRow}]
    /\ files \in [Batches -> BOOLEAN]
    /\ runner \in [Batches -> {"new", "running", "finishing", "over"}]
    /\ stage \in [Deleters -> {"idle", "chosen", "marked", "emptied", "failing"}]
    /\ target \in [Deleters -> Batches \cup {None}]
    /\ list \subseteq Batches

\* Results are removed only when their time is over or an administrator asked
\* for it, and never those of a locked batch; except that a lock, an unlocking
\* or another period that arrives while a deletion already holds the batch (in
\* its list too) comes too late: cleanup_once does not look again.
KeptWhileDue ==
    [][\A b \in Batches :
          files[b] /\ ~files'[b] /\ Exists(b) /\ b \notin touched =>
              /\ ~row[b].locked
              /\ row[b].expires < now \/ (stage[Admin] = "marked" /\ target[Admin] = b)]_retentionVars

\* A row goes last: what is left of a deleted batch on the disk is a manifest
\* that was written after its deletion.  A batch shown as active has its
\* results, and a batch shown as being deleted has somebody who deletes it or
\* was left by one who died (such a batch is never selected again).
DeletionsHonest ==
    \A b \in Batches :
       /\ runner[b] # "new" /\ ~Exists(b) /\ files[b] => b \in late
       /\ Exists(b) =>
             /\ row[b].cleanup = "active" => files[b]
             /\ row[b].cleanup = "deleting" =>
                   b \in forsaken \/ \E d \in Deleters : stage[d] # "idle" /\ target[d] = b
=============================================================================
