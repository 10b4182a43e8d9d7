----------------------------- MODULE AuditSpool -----------------------------
(***************************************************************************)
(* The durable spool of audit events.  A request thread inserts its event  *)
(* into the spool database or, if that fails, appends it to an emergency   *)
(* file; the writer thread of each Web process recovers the emergency file *)
(* when it starts and then moves due rows from the spool to the main       *)
(* database.  All processes share the two databases and the directory, and *)
(* no transaction spans two of the three.                                  *)
(*                                                                         *)
(* One event type and one day are modelled: files of different names are   *)
(* treated one after the other and never meet.  A file is known by its     *)
(* identity, which a renaming keeps: a thread that has opened it goes on   *)
(* reading or writing it under whatever name it has then.                  *)
(***************************************************************************)
EXTENDS Integers, FiniteSets, FiniteSetsExt

CONSTANTS
    Event,        \* event ids, each submitted once
    Process,      \* Web processes
    File,         \* identities of files, reused when nobody knows them
    BatchSize,    \* AUDIT_SPOOL_BATCH_SIZE
    MaxRetries,   \* AUDIT_SPOOL_MAX_RETRIES
    MaxFaults,    \* bound: failures of a database or of the directory
    MaxCrashes    \* bound: crashes, and stops, of a process

ASSUME ProcessAssumption == Process # {}
ASSUME FileAssumption == File \subseteq Nat \ {0}
ASSUME SizeAssumption ==
    /\ {BatchSize, MaxRetries} \subseteq Nat \ {0}
    /\ {MaxFaults, MaxCrashes} \subseteq Nat

VARIABLES
    queue,    \* audit_spool_queue
    lastId,   \* what AUTOINCREMENT remembers
    main,     \* events in the tables of the main database
    dead,     \* audit_spool_dead_letters
    orig,     \* the file called *.jsonl, 0 if there is none
    proc,     \* the file called *.jsonl.processing, 0 if there is none
    lines,    \* what is in each file
    submit,   \* enqueue_event, per event
    writer,   \* the writer thread, per process
    budget,   \* what is left of the bounds
    fails,    \* history: failed attempts to deliver each event
    overlap   \* history: a recovery met another one, an append, or its early end

spool == <<queue, lastId, dead>>
names == <<orig, proc>>
vars == <<spool, main, names, lines, submit, writer, budget, fails, overlap>>

None == 0
Row == [id : Nat, event : Event, tries : Nat]
NoSubmit == [pc |-> "none", file |-> None, home |-> CHOOSE p \in Process : TRUE]
Writer(pc) == [pc |-> pc, rows |-> {}, file |-> None, seen |-> {}, durable |-> TRUE]

InRecovery == {"glob", "rename", "open", "read", "unlink", "putBack", "repair", "repairBack"}
Recovering(p) == writer[p].pc \in InRecovery
Appending(e) == submit[e].pc = "append"
Accepted(e) == submit[e].pc \in {"spooled", "filed"}

Spend(kind) == budget[kind] > 0 /\ budget' = [budget EXCEPT ![kind] = @ - 1]

Init ==
    /\ queue = {} /\ lastId = 0 /\ main = {} /\ dead = {}
    /\ orig = None /\ proc = None
    /\ lines = [f \in File |-> {}]
    /\ submit = [e \in Event |-> NoSubmit]
    /\ writer = [p \in Process |-> Writer("down")]
    /\ budget = [fault |-> MaxFaults, crash |-> MaxCrashes]
    /\ fails = [e \in Event |-> 0]
    /\ overlap = FALSE

-----------------------------------------------------------------------------
(* enqueue_event on a request thread.                                      *)

\* Faulty variant: without AUTOINCREMENT the id of a deleted row is used again.
ReusedId == 1 + Max({0} \cup {r.id : r \in queue})

NextId == lastId + 1

\* Faulty variant: the table has no unique event_id.
InsertRowAgain(e) ==
    /\ queue' = queue \cup {[id |-> NextId, event |-> e, tries |-> 0]}
    /\ lastId' = NextId

\* INSERT OR IGNORE: true also for an event that is there already.
InsertRow(e) ==
    IF \E r \in queue : r.event = e
    THEN UNCHANGED <<queue, lastId>>
    ELSE /\ queue' = queue \cup {[id |-> NextId, event |-> e, tries |-> 0]}
         /\ lastId' = NextId

Submit(e, p) ==
    /\ submit[e].pc = "none" /\ writer[p].pc # "down"
    /\ \/ /\ InsertRow(e)
          /\ submit' = [submit EXCEPT ![e].pc = "spooled"]
          /\ UNCHANGED budget
       \/ /\ Spend("fault")
          /\ submit' = [submit EXCEPT ![e].pc = "fallback", ![e].home = p]
          /\ UNCHANGED <<queue, lastId>>
    /\ UNCHANGED <<dead, main, names, lines, writer, fails, overlap>>

Known == {orig, proc} \cup {writer[p].file : p \in Process}
               \cup {submit[e].file : e \in Event}

\* _write_emergency: the file is opened by its name, created if need be ...
OpenForAppend(e) ==
    /\ submit[e].pc = "fallback"
    /\ \E f \in File :
         /\ f = IF orig # None THEN orig ELSE Min(File \ Known)
         /\ submit' = [submit EXCEPT ![e].pc = "append", ![e].file = f]
         /\ orig' = f
         /\ lines' = IF orig = None THEN [lines EXCEPT ![f] = {}] ELSE lines
    /\ overlap' = (overlap \/ \E p \in Process : Recovering(p))
    /\ UNCHANGED <<spool, main, proc, writer, budget, fails>>

\* ... and the line is written and synchronised.
AppendLine(e) ==
    /\ submit[e].pc = "append"
    /\ lines' = [lines EXCEPT ![submit[e].file] = @ \cup {e}]
    /\ submit' = [submit EXCEPT ![e].pc = "filed", ![e].file = None]
    /\ UNCHANGED <<spool, main, names, writer, budget, fails, overlap>>

\* The line may have reached the file although the request is told that it has not.
AppendFails(e) ==
    /\ submit[e].pc \in {"fallback", "append"} /\ Spend("fault")
    /\ submit' = [submit EXCEPT ![e].pc = "refused", ![e].file = None]
    /\ \/ UNCHANGED lines
       \/ /\ submit[e].pc = "append"
          /\ lines' = [lines EXCEPT ![submit[e].file] = @ \cup {e}]
    /\ UNCHANGED <<spool, main, names, writer, fails, overlap>>

-----------------------------------------------------------------------------
(* recover_emergency_files, at the start of a writer thread.               *)

Go(p, from, to) == writer[p].pc = from /\ writer' = [writer EXCEPT ![p].pc = to]
RecoveryOnly == UNCHANGED <<spool, main, submit, budget, fails, overlap>>

Glob(p) ==
    /\ Go(p, "glob", IF orig # None THEN "rename" ELSE "idle")
    /\ RecoveryOnly /\ UNCHANGED <<names, lines>>

\* os.replace: a .processing file left by somebody else is overwritten; if the file
\* is gone meanwhile the error is logged.
Rename(p) ==
    /\ Go(p, "rename", IF orig # None THEN "open" ELSE "idle")
    /\ IF orig # None THEN proc' = orig /\ orig' = None ELSE UNCHANGED names
    /\ RecoveryOnly /\ UNCHANGED lines

OpenProcessing(p) ==
    /\ writer[p].pc = "open"
    /\ writer' = [writer EXCEPT ![p].pc = IF proc = None THEN "repair" ELSE "read",
                                ![p].file = proc]
    /\ RecoveryOnly /\ UNCHANGED <<names, lines>>

\* One line: it is durable in the spool, or noted as not durable (also when the row was
\* there already and a writer deletes it before the SELECT that looks for it).
ReadLine(p) ==
    /\ writer[p].pc = "read"
    /\ \E e \in lines[writer[p].file] \ writer[p].seen :
         \/ /\ InsertRow(e)
            /\ writer' = [writer EXCEPT ![p].seen = @ \cup {e}]
            /\ UNCHANGED budget
         \/ /\ Spend("fault")
            /\ writer' = [writer EXCEPT ![p].seen = @ \cup {e}, ![p].durable = FALSE]
            /\ UNCHANGED <<queue, lastId>>
    /\ UNCHANGED <<dead, main, names, lines, submit, fails, overlap>>

\* Faulty variant: the file is removed although a line was not durable.
EndOfFileAlways(p) ==
    /\ writer[p].pc = "read" /\ lines[writer[p].file] \subseteq writer[p].seen
    /\ writer' = [writer EXCEPT ![p] = Writer("unlink")]
    /\ RecoveryOnly /\ UNCHANGED <<names, lines>>

EndOfFile(p) ==
    /\ writer[p].pc = "read" /\ lines[writer[p].file] \subseteq writer[p].seen
    /\ writer' = [writer EXCEPT ![p] = Writer(IF writer[p].durable THEN "unlink" ELSE "putBack")]
    /\ RecoveryOnly /\ UNCHANGED <<names, lines>>

\* An operation on the directory or on the file fails.  Where that ends the recovery
\* of the file it stays where it is, which matters if it is not under its own name.
RecoveryFails(p) ==
    LET end == {"glob", "rename", "repairBack"} IN
    /\ writer[p].pc \in end \cup {"open", "read", "unlink", "putBack"} /\ Spend("fault")
    /\ writer' = [writer EXCEPT ![p] = Writer(IF @.pc \in end THEN "idle" ELSE "repair")]
    /\ overlap' = (overlap \/ writer[p].pc = "repairBack")
    /\ UNCHANGED <<spool, main, names, lines, submit, fails>>

\* Whatever has the name now is removed ...
Unlink(p) ==
    /\ Go(p, "unlink", "idle")
    /\ proc' = None
    /\ RecoveryOnly /\ UNCHANGED <<orig, lines>>

\* ... or gets the original name, over a file that has been created meanwhile.
PutBack(p) ==
    /\ writer[p].pc \in {"putBack", "repairBack"}
    /\ IF proc # None
       THEN /\ orig' = proc /\ proc' = None
            /\ writer' = [writer EXCEPT ![p].pc = "idle"]
       ELSE /\ UNCHANGED names
            /\ writer' = [writer EXCEPT ![p].pc = IF @ = "putBack" THEN "repair" ELSE "idle"]
    /\ RecoveryOnly /\ UNCHANGED lines

\* The handler of any other exception looks before it renames.
Repair(p) ==
    /\ Go(p, "repair", IF proc # None /\ orig = None THEN "repairBack" ELSE "idle")
    /\ RecoveryOnly /\ UNCHANGED <<names, lines>>

Recover(p) ==
    \/ Glob(p) \/ Rename(p) \/ OpenProcessing(p) \/ ReadLine(p) \/ EndOfFile(p)
    \/ Unlink(p) \/ PutBack(p) \/ Repair(p)

-----------------------------------------------------------------------------
(* flush_spool_once, in the loop of the writer thread.                     *)

FlushOnly == UNCHANGED <<names, lines, submit, overlap>>

\* Faulty variant: rows that wait for a retry are never due.
DueNew == {{r \in queue : r.tries = 0}}

\* The rows that may be due together: new ones, and any of those whose delay may be over.
DueSets ==
    {{r \in queue : r.tries = 0} \cup late : late \in SUBSET {r \in queue : r.tries > 0}}

First(rows) == {r \in rows : Cardinality({q \in rows : q.id < r.id}) < BatchSize}

Select(p) ==
    /\ writer[p].pc = "idle"
    /\ \E due \in DueSets :
         /\ due # {}
         /\ writer' = [writer EXCEPT ![p].pc = "insert", ![p].rows = First(due)]
    /\ FlushOnly /\ UNCHANGED <<spool, main, budget, fails>>

Events(p) == {r.event : r \in writer[p].rows}

NoteFailure(p) ==
    fails' = [e \in Event |-> IF e \in Events(p) THEN fails[e] + 1 ELSE fails[e]]

\* insert_events_batch: one transaction of the main database ...
InsertMain(p) ==
    /\ writer[p].pc = "insert"
    /\ \/ /\ main' = main \cup Events(p)
          /\ writer' = [writer EXCEPT ![p].pc = "confirm"]
          /\ UNCHANGED <<budget, fails>>
       \/ /\ Spend("fault") /\ NoteFailure(p)
          /\ writer' = [writer EXCEPT ![p].pc = "failed"]
          /\ UNCHANGED main
    /\ FlushOnly /\ UNCHANGED spool

\* ... and then the SELECT that confirms.
Confirm(p) ==
    /\ writer[p].pc = "confirm"
    /\ \/ /\ writer' = [writer EXCEPT ![p].pc = "settle"]
          /\ UNCHANGED <<budget, fails>>
       \/ /\ Spend("fault") /\ NoteFailure(p)
          /\ writer' = [writer EXCEPT ![p].pc = "failed"]
    /\ FlushOnly /\ UNCHANGED <<spool, main>>

Ids(p) == {r.id : r \in writer[p].rows}

\* DELETE ... WHERE id=?, whatever is in that row now.
Settle(p) ==
    /\ writer[p].pc = "settle"
    /\ queue' = {r \in queue : r.id \notin Ids(p)}
    /\ writer' = [writer EXCEPT ![p] = Writer("idle")]
    /\ FlushOnly /\ UNCHANGED <<lastId, dead, main, budget, fails>>

\* Faulty variant: one attempt too few.
ExhaustedEarly(r) == r.tries + 2 >= MaxRetries

Exhausted(r) == r.tries + 1 >= MaxRetries

\* _mark_failure for every row, as it was when it was selected: it becomes a dead
\* letter, or the row of that id, if there is one, gets the new count.
MarkFailures(p) ==
    LET given == {r \in writer[p].rows : Exhausted(r)}
        again == writer[p].rows \ given
        retried(r) == {[r EXCEPT !.tries = q.tries + 1] : q \in {q \in again : q.id = r.id}}
    IN
    /\ writer[p].pc = "failed"
    /\ dead' = dead \cup {r.event : r \in given}
    /\ queue' = {r \in queue : r.id \notin Ids(p)} \cup UNION {retried(r) : r \in queue}
    /\ writer' = [writer EXCEPT ![p] = Writer("idle")]
    /\ FlushOnly /\ UNCHANGED <<lastId, main, budget, fails>>

\* The spool refuses the last transaction: it is rolled back and logged.
SpoolFails(p) ==
    /\ writer[p].pc \in {"settle", "failed"} /\ Spend("fault")
    /\ writer' = [writer EXCEPT ![p] = Writer("idle")]
    /\ FlushOnly /\ UNCHANGED <<spool, main, fails>>

Flush(p) == Select(p) \/ InsertMain(p) \/ Confirm(p) \/ Settle(p) \/ MarkFailures(p)

-----------------------------------------------------------------------------
(* Processes start and die; a stop between two flushes is the crash of an   *)
(* idle writer.                                                             *)

Start(p) ==
    /\ Go(p, "down", "glob")
    /\ overlap' = (overlap \/ (\E q \in Process : Recovering(q)) \/ \E e \in Event : Appending(e))
    /\ UNCHANGED <<spool, main, names, lines, submit, budget, fails>>

Crash(p) ==
    /\ writer[p].pc # "down" /\ Spend("crash")
    /\ writer' = [writer EXCEPT ![p] = Writer("down")]
    /\ submit' = [e \in Event |->
                    IF submit[e].home = p /\ submit[e].pc \in {"fallback", "append"}
                    THEN [submit[e] EXCEPT !.pc = "gone", !.file = None] ELSE submit[e]]
    /\ overlap' = (overlap \/ Recovering(p))
    /\ UNCHANGED <<spool, main, names, lines, fails>>

Next ==
    \/ \E e \in Event :
         \/ \E p \in Process : Submit(e, p)
         \/ OpenForAppend(e) \/ AppendLine(e) \/ AppendFails(e)
    \/ \E p \in Process :
         \/ Start(p) \/ Crash(p)
         \/ Recover(p) \/ RecoveryFails(p)
         \/ Flush(p) \/ SpoolFails(p)

Spec == Init /\ [][Next]_vars

\* Writer threads loop until their process ends, and processes are started again.
\* Requests promise nothing.
Fairness == \A p \in Process : WF_vars(Start(p)) /\ WF_vars(Recover(p) \/ Flush(p))
FairSpec == Spec /\ Fairness

-----------------------------------------------------------------------------
(* Properties.                                                             *)

SubmitSet ==
    [pc : {"none", "fallback", "append", "spooled", "filed", "refused", "gone"},
     file : File \cup {None}, home : Process]
WriterSet ==
    [pc : InRecovery \cup {"down", "idle", "insert", "confirm", "settle", "failed"},
     rows : SUBSET Row, file : File \cup {None}, seen : SUBSET Event, durable : BOOLEAN]

\* Every variable keeps its domain; there is one row per event and per id.
TypeOK ==
    /\ queue \subseteq Row /\ lastId \in Nat
    /\ \A q, r \in queue : q.id = r.id \/ q.event = r.event => q = r
    /\ main \subseteq Event /\ dead \subseteq Event
    /\ orig \in File \cup {None} /\ proc \in File \cup {None}
    /\ lines \in [File -> SUBSET Event]
    /\ submit \in [Event -> SubmitSet] /\ writer \in [Process -> WriterSet]
    /\ fails \in [Event -> Nat] /\ overlap \in BOOLEAN

Stored(e) == e \in main \/ e \in dead \/ \E r \in queue : r.event = e
OnFile(e) == \E f \in {orig, proc} \ {None} : e \in lines[f]

\* An event whose insertion into the spool has returned is in the spool, in the main
\* database or among the dead letters at every instant, with several writers working on
\* the same rows, stale copies of them, and crashes between the two databases.
SpooledIsKept == \A e \in Event : submit[e].pc = "spooled" => Stored(e)

\* An event accepted in the emergency file stays in it until it is in the spool,
\* through failed recoveries and restarts, as long as each recovery has the file to
\* itself and is not cut short.
FiledIsKept ==
    \A e \in Event : submit[e].pc = "filed" /\ ~overlap => Stored(e) \/ OnFile(e)

Promise == INSTANCE Outbox WITH
    held <- {r.event : r \in queue}, delivered <- main, attempts <- fails

\* The spool implements the outbox: an event leaves it only for the main database or,
\* after as many failures as the configuration asks for, for the dead letters, and a
\* writer delivers only what was taken, although writers count on copies of its row,
\* delete by ids they have read before, and recovery may insert it anew.
ImplementsOutbox == Promise!Spec

\* What is in the spool is delivered or becomes a dead letter, whatever fails and
\* whoever crashes on the way.
QueueDrains == \A e \in Event : (\E r \in queue : r.event = e) ~> e \in main \cup dead

\* docs/archive/design-plans/plans/2026-07-19-audit-history.md:251 - a .processing file
\* is deleted only after all its valid rows are durable: no accepted event is lost.
AcceptedIsKept == \A e \in Event : Accepted(e) => Stored(e) \/ OnFile(e)
=============================================================================
