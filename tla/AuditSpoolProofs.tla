-------------------------- MODULE AuditSpoolProofs --------------------------
(***************************************************************************)
(* Theorems about the audit spool, for any number of events, processes,    *)
(* rows per batch, retries, faults and crashes.                            *)
(***************************************************************************)
EXTENDS AuditSpool, TLAPS

\* What AUTOINCREMENT gives: no row, present or remembered by a writer, has an id that
\* is still to come, and a writer's copy of a row speaks of the same event.
IdsInv ==
    /\ \A r \in queue : r.id <= lastId
    /\ \A p \in Process : \A r \in writer[p].rows :
         /\ r.id <= lastId
         /\ \A q \in queue : q.id = r.id => q.event = r.event
         /\ \A q \in writer[p].rows : q.id = r.id => q = r

\* A writer that will delete its rows has delivered them.
DeliveredInv ==
    \A p \in Process : writer[p].pc \in {"confirm", "settle"} => Events(p) \subseteq main

\* No row counts more failures than there were, and a writer that has just failed counts
\* one less.
CountsInv ==
    /\ \A r \in queue : r.tries <= fails[r.event]
    /\ \A p \in Process : \A r \in writer[p].rows :
         /\ r.tries <= fails[r.event]
         /\ writer[p].pc = "failed" => r.tries < fails[r.event]

\* An open handle is one of a file.
HandlesInv ==
    /\ \A p \in Process : writer[p].pc = "read" => writer[p].file \in File
    /\ \A e \in Event : submit[e].pc = "append" => submit[e].file \in File

\* An event becomes a dead letter only after as many failures as the configuration
\* asks for.
DeadAfterRetries == \A e \in dead : fails[e] >= MaxRetries

IInv ==
    /\ TypeOK /\ IdsInv /\ DeliveredInv /\ CountsInv /\ HandlesInv
    /\ SpooledIsKept /\ DeadAfterRetries

\* A new writer thread, or one that has dropped its rows.
LEMMA FreshWriter ==
    ASSUME NEW pc \in InRecovery \cup {"down", "idle"}
    PROVE  Writer(pc) \in WriterSet /\ Writer(pc).rows = {} /\ Writer(pc).pc = pc
  BY DEF Writer, WriterSet, InRecovery, None

\* Nothing has been submitted, every writer is down.
LEMMA Initial == Init => IInv
  <1> SUFFICES ASSUME Init PROVE IInv
    OBVIOUS
  <1>1. TypeOK
    <2>1. NoSubmit \in SubmitSet
      BY ProcessAssumption DEF NoSubmit, SubmitSet, None
    <2> QED BY <2>1, FreshWriter DEF Init, TypeOK, None
  <1>2. IdsInv /\ DeliveredInv /\ CountsInv /\ HandlesInv
    BY DEF Init, IdsInv, DeliveredInv, CountsInv, HandlesInv, Writer, NoSubmit
  <1>3. SpooledIsKept /\ DeadAfterRetries
    BY DEF Init, SpooledIsKept, DeadAfterRetries, NoSubmit
  <1> QED BY <1>1, <1>2, <1>3 DEF IInv

\* A writer keeps its set of states when one of them moves on.
LEMMA WriterMoves ==
    ASSUME TypeOK, NEW p \in Process, NEW w \in WriterSet,
           writer' = [writer EXCEPT ![p] = w]
    PROVE  /\ writer' \in [Process -> WriterSet]
           /\ writer'[p] = w
           /\ \A q \in Process : q # p => writer'[q] = writer[q]
  BY DEF TypeOK

\* Steps that touch neither rows nor deliveries: a thread that moves on among files,
\* drops its rows, or dies.
LEMMA Quiet ==
    ASSUME IInv, TypeOK', HandlesInv',
           UNCHANGED <<queue, lastId, main, dead, fails>>,
           \A p \in Process :
              \/ writer'[p].rows = {}
              \/ /\ writer'[p].rows = writer[p].rows
                 /\ writer'[p].pc = writer[p].pc \/ writer'[p].pc \notin {"confirm", "settle", "failed"},
           \A e \in Event : submit'[e].pc = "spooled" => submit[e].pc = "spooled"
    PROVE  IInv'
  <1>1. IdsInv'
    BY DEF IInv, IdsInv
  <1>2. DeliveredInv'
    BY DEF IInv, DeliveredInv, Events
  <1>3. CountsInv'
    BY DEF IInv, CountsInv
  <1>4. SpooledIsKept' /\ DeadAfterRetries'
    BY DEF IInv, SpooledIsKept, DeadAfterRetries, Stored
  <1> QED BY <1>1, <1>2, <1>3, <1>4 DEF IInv

\* A recovering thread that only goes on to its next step.
LEMMA WalkOn ==
    ASSUME IInv, NEW p \in Process, NEW pc \in InRecovery \cup {"idle"},
           writer[p].pc \in InRecovery \cup {"down"},
           writer' = [writer EXCEPT ![p].pc = pc], pc # "read",
           orig' \in File \cup {None}, proc' \in File \cup {None}, overlap' \in BOOLEAN,
           UNCHANGED <<spool, main, lines, submit, fails>>
    PROVE  IInv'
  <1>1. [writer[p] EXCEPT !.pc = pc] \in WriterSet
    BY DEF IInv, TypeOK, WriterSet
  <1>2. writer' = [writer EXCEPT ![p] = [writer[p] EXCEPT !.pc = pc]]
    OBVIOUS
  <1>3. /\ writer' \in [Process -> WriterSet]
        /\ writer'[p] = [writer[p] EXCEPT !.pc = pc]
        /\ \A q \in Process : q # p => writer'[q] = writer[q]
    BY <1>1, <1>2, WriterMoves DEF IInv
  <1>4. writer'[p].pc = pc /\ writer'[p].rows = writer[p].rows
    BY <1>3 DEF IInv, TypeOK, WriterSet
  <1>5. TypeOK'
    BY <1>3 DEF IInv, TypeOK, spool
  <1>6. HandlesInv'
    BY <1>3, <1>4 DEF IInv, HandlesInv
  <1> QED BY <1>3, <1>4, <1>5, <1>6, Quiet DEF InRecovery, spool

\* A thread that starts afresh.
LEMMA StartAfresh ==
    ASSUME IInv, NEW p \in Process, NEW pc \in InRecovery \cup {"down", "idle"},
           writer' = [writer EXCEPT ![p] = Writer(pc)], pc # "read",
           submit' \in [Event -> SubmitSet],
           \A e \in Event : submit'[e].pc \in {"append", "spooled"} => submit'[e] = submit[e],
           overlap' \in BOOLEAN,
           UNCHANGED <<spool, main, names, lines, fails>>
    PROVE  IInv'
  <1>1. /\ writer' \in [Process -> WriterSet]
        /\ writer'[p] = Writer(pc)
        /\ \A q \in Process : q # p => writer'[q] = writer[q]
    BY FreshWriter, WriterMoves DEF IInv
  <1>2. writer'[p].pc = pc /\ writer'[p].rows = {}
    BY <1>1, FreshWriter
  <1>3. TypeOK'
    BY <1>1 DEF IInv, TypeOK, spool, names
  <1>4. HandlesInv'
    BY <1>1, <1>2 DEF IInv, HandlesInv
  <1> QED BY <1>1, <1>2, <1>3, <1>4, Quiet DEF spool

-----------------------------------------------------------------------------
\* enqueue_event.

\* INSERT OR IGNORE leaves one row of the event, with an id nobody has seen.
LEMMA Inserted ==
    ASSUME IInv, NEW e \in Event, InsertRow(e), UNCHANGED <<dead, main, fails>>
    PROVE  /\ queue' \subseteq Row /\ lastId' \in Nat
           /\ \A q, r \in queue' : q.id = r.id \/ q.event = r.event => q = r
           /\ \A r \in queue' : r.id <= lastId' /\ r.tries <= fails[r.event]
           /\ lastId <= lastId'
           /\ \A q \in queue' : q \in queue \/ q.id > lastId
           /\ \A x \in Event : Stored(x) \/ x = e => Stored(x)'
  <1>1. CASE \E r \in queue : r.event = e
    BY <1>1 DEF InsertRow, IInv, TypeOK, IdsInv, CountsInv, Stored
  <1>2. CASE ~ \E r \in queue : r.event = e
    <2> DEFINE new == [id |-> NextId, event |-> e, tries |-> 0]
    <2>1. queue' = queue \cup {new} /\ lastId' = NextId
      BY <1>2 DEF InsertRow
    <2>2. NextId = lastId + 1 /\ lastId \in Nat
      BY DEF NextId, IInv, TypeOK
    <2>3. new \in Row /\ new.id = lastId + 1 /\ new.event = e /\ new.tries = 0
      BY <2>2 DEF Row
    <2>4. \A r \in queue : r \in Row /\ r.id <= lastId /\ r.event # e /\ r.tries <= fails[r.event]
      BY <1>2 DEF IInv, TypeOK, IdsInv, CountsInv
    <2>5. fails[e] \in Nat
      BY DEF IInv, TypeOK
    <2> HIDE DEF new
    <2>6. queue' \subseteq Row /\ lastId' \in Nat /\ lastId <= lastId'
      BY <2>1, <2>2, <2>3, <2>4
    <2>7. \A r \in queue' : r.id <= lastId' /\ r.tries <= fails[r.event]
      BY <2>1, <2>2, <2>3, <2>4, <2>5 DEF Row
    <2>8. \A q, r \in queue' : q.id = r.id \/ q.event = r.event => q = r
      <3>1. \A r \in queue : r.id # new.id /\ r.event # new.event
        BY <2>2, <2>3, <2>4 DEF Row
      <3> QED BY <2>1, <3>1 DEF IInv, TypeOK
    <2>9. \A q \in queue' : q \in queue \/ q.id > lastId
      BY <2>1, <2>2, <2>3
    <2>10. \A x \in Event : Stored(x) \/ x = e => Stored(x)'
      BY <2>1, <2>3 DEF Stored
    <2> QED BY <2>6, <2>7, <2>8, <2>9, <2>10
  <1> QED BY <1>1, <1>2

\* Inserting disturbs neither the copies of the writers nor what they have delivered.
LEMMA InsertKeeps ==
    ASSUME IInv, NEW e \in Event, InsertRow(e), UNCHANGED <<dead, main, fails>>,
           \A p \in Process : writer'[p].rows = writer[p].rows /\ writer'[p].pc = writer[p].pc,
           \A x \in Event : submit'[x].pc = "spooled" => submit[x].pc = "spooled" \/ x = e,
           TypeOK', HandlesInv'
    PROVE  IInv'
  <1>1. IdsInv'
    <2>1. ASSUME NEW p \in Process, NEW r \in writer[p].rows
          PROVE  /\ r.id <= lastId'
                 /\ \A q \in queue' : q.id = r.id => q.event = r.event
                 /\ \A q \in writer[p].rows : q.id = r.id => q = r
      <3>1. r \in Row /\ r.id <= lastId /\ lastId \in Nat
        BY DEF IInv, TypeOK, WriterSet, IdsInv
      <3>2. lastId' \in Nat /\ lastId <= lastId' /\ \A q \in queue' : q \in queue \/ q.id > lastId
        BY Inserted
      <3>3. \A q \in queue : q.id = r.id => q.event = r.event
        BY DEF IInv, IdsInv
      <3>4. \A q \in queue' : q.id \in Nat
        BY DEF TypeOK, Row
      <3>5. \A q \in writer[p].rows : q.id = r.id => q = r
        BY DEF IInv, IdsInv
      <3> QED BY <3>1, <3>2, <3>3, <3>4, <3>5 DEF Row
    <2>2. \A r \in queue' : r.id <= lastId'
      BY Inserted
    <2> QED BY <2>1, <2>2 DEF IdsInv
  <1>2. DeliveredInv'
    BY DEF IInv, DeliveredInv, Events
  <1>3. CountsInv'
    <2>1. \A r \in queue' : r.tries <= fails[r.event]
      BY Inserted
    <2> QED BY <2>1 DEF IInv, CountsInv
  <1>4. SpooledIsKept' /\ DeadAfterRetries'
    BY Inserted DEF IInv, SpooledIsKept, DeadAfterRetries
  <1> QED BY <1>1, <1>2, <1>3, <1>4 DEF IInv

\* A request thread puts its event into the spool, or turns to the emergency file.
LEMMA SubmitStep ==
    ASSUME IInv, NEW e \in Event, NEW p \in Process, Submit(e, p)
    PROVE  IInv'
  <1>1. CASE InsertRow(e) /\ submit' = [submit EXCEPT ![e].pc = "spooled"]
    <2>1. submit' \in [Event -> SubmitSet] /\ submit'[e].pc = "spooled"
          /\ \A x \in Event : x # e => submit'[x] = submit[x]
      BY <1>1 DEF IInv, TypeOK, SubmitSet
    <2>2. TypeOK'
      BY <1>1, <2>1, Inserted DEF IInv, TypeOK, Submit, names
    <2>3. HandlesInv'
      BY <2>1 DEF IInv, HandlesInv, Submit
    <2> QED BY <1>1, <2>1, <2>2, <2>3, InsertKeeps DEF Submit
  <1>2. CASE /\ submit' = [submit EXCEPT ![e].pc = "fallback", ![e].home = p]
             /\ UNCHANGED <<queue, lastId>>
    <2>1. submit' \in [Event -> SubmitSet] /\ submit'[e].pc = "fallback"
          /\ \A x \in Event : x # e => submit'[x] = submit[x]
      BY <1>2 DEF IInv, TypeOK, SubmitSet
    <2>2. TypeOK'
      BY <1>2, <2>1 DEF IInv, TypeOK, Submit, names
    <2>3. HandlesInv'
      BY <2>1 DEF IInv, HandlesInv, Submit
    <2> QED BY <1>2, <2>1, <2>2, <2>3, Quiet DEF Submit
  <1> QED BY <1>1, <1>2 DEF Submit

\* Writing the emergency file touches neither rows nor deliveries.
LEMMA EmergencyStep ==
    ASSUME IInv, NEW e \in Event, OpenForAppend(e) \/ AppendLine(e) \/ AppendFails(e)
    PROVE  IInv'
  <1>1. CASE OpenForAppend(e)
    <2>1. PICK f \in File :
            /\ submit' = [submit EXCEPT ![e].pc = "append", ![e].file = f]
            /\ orig' = f
            /\ lines' = IF orig = None THEN [lines EXCEPT ![f] = {}] ELSE lines
      BY <1>1 DEF OpenForAppend
    <2>2. /\ submit' \in [Event -> SubmitSet]
          /\ submit'[e].pc = "append" /\ submit'[e].file = f
          /\ \A x \in Event : x # e => submit'[x] = submit[x]
      BY <2>1 DEF IInv, TypeOK, SubmitSet
    <2>3. lines' \in [File -> SUBSET Event] /\ orig' \in File \cup {None} /\ overlap' \in BOOLEAN
      BY <1>1, <2>1 DEF IInv, TypeOK, OpenForAppend
    <2>4. TypeOK'
      BY <1>1, <2>2, <2>3 DEF IInv, TypeOK, OpenForAppend, spool
    <2>5. HandlesInv'
      BY <1>1, <2>2 DEF IInv, HandlesInv, OpenForAppend
    <2> QED BY <1>1, <2>2, <2>4, <2>5, Quiet DEF OpenForAppend, spool
  <1>2. CASE AppendLine(e)
    <2>1. /\ submit' \in [Event -> SubmitSet]
          /\ submit'[e].pc = "filed"
          /\ \A x \in Event : x # e => submit'[x] = submit[x]
      <3>1. submit' = [submit EXCEPT ![e].pc = "filed", ![e].file = None]
        BY <1>2 DEF AppendLine
      <3>2. submit \in [Event -> SubmitSet]
        BY DEF IInv, TypeOK
      <3> QED BY <3>1, <3>2 DEF SubmitSet
    <2>2. lines' \in [File -> SUBSET Event]
      BY <1>2 DEF IInv, TypeOK, AppendLine
    <2>3. TypeOK'
      BY <1>2, <2>1, <2>2 DEF IInv, TypeOK, AppendLine, spool, names
    <2>4. HandlesInv'
      BY <1>2, <2>1 DEF IInv, HandlesInv, AppendLine
    <2> QED BY <1>2, <2>1, <2>3, <2>4, Quiet DEF AppendLine, spool
  <1>3. CASE AppendFails(e)
    <2>1. /\ submit' \in [Event -> SubmitSet]
          /\ submit'[e].pc = "refused"
          /\ \A x \in Event : x # e => submit'[x] = submit[x]
      <3>1. submit' = [submit EXCEPT ![e].pc = "refused", ![e].file = None]
        BY <1>3 DEF AppendFails
      <3>2. submit \in [Event -> SubmitSet]
        BY DEF IInv, TypeOK
      <3> QED BY <3>1, <3>2 DEF SubmitSet
    <2>2. lines' \in [File -> SUBSET Event]
      BY <1>3 DEF IInv, TypeOK, AppendFails
    <2>3. TypeOK'
      BY <1>3, <2>1, <2>2 DEF IInv, TypeOK, AppendFails, spool, names
    <2>4. HandlesInv'
      BY <1>3, <2>1 DEF IInv, HandlesInv, AppendFails
    <2> QED BY <1>3, <2>1, <2>3, <2>4, Quiet DEF AppendFails, spool
  <1> QED BY <1>1, <1>2, <1>3

-----------------------------------------------------------------------------
\* recover_emergency_files.

\* A recovered line becomes a row, or is noted as not durable.
LEMMA ReadLineStep ==
    ASSUME IInv, NEW p \in Process, ReadLine(p)
    PROVE  IInv'
  <1>1. PICK e \in lines[writer[p].file] \ writer[p].seen :
           \/ /\ InsertRow(e)
              /\ writer' = [writer EXCEPT ![p].seen = @ \cup {e}]
           \/ /\ writer' = [writer EXCEPT ![p].seen = @ \cup {e}, ![p].durable = FALSE]
              /\ UNCHANGED <<queue, lastId>>
    BY DEF ReadLine
  <1>2. e \in Event
    BY DEF ReadLine, IInv, HandlesInv, TypeOK
  <1>3. writer[p] \in WriterSet /\ writer \in [Process -> WriterSet]
    BY DEF IInv, TypeOK
  <1>4. PICK d \in BOOLEAN :
           writer' = [writer EXCEPT ![p] = [writer[p] EXCEPT !.seen = writer[p].seen \cup {e},
                                                             !.durable = d]]
    <2>1. CASE writer' = [writer EXCEPT ![p].seen = @ \cup {e}]
      <3>1. [writer[p] EXCEPT !.seen = writer[p].seen \cup {e}]
              = [writer[p] EXCEPT !.seen = writer[p].seen \cup {e}, !.durable = writer[p].durable]
        BY <1>3 DEF WriterSet
      <3>2. writer[p].durable \in BOOLEAN
        BY <1>3 DEF WriterSet
      <3> QED BY <2>1, <3>1, <3>2
    <2>2. CASE writer' = [writer EXCEPT ![p].seen = @ \cup {e}, ![p].durable = FALSE]
      BY <1>3, <2>2
    <2> QED BY <1>1, <2>1, <2>2
  <1> DEFINE w == [writer[p] EXCEPT !.seen = writer[p].seen \cup {e}, !.durable = d]
  <1>5. /\ w \in WriterSet
        /\ w.rows = writer[p].rows /\ w.pc = writer[p].pc /\ w.file = writer[p].file
    BY <1>2, <1>3 DEF WriterSet
  <1> HIDE DEF w
  <1>6. /\ writer' \in [Process -> WriterSet]
        /\ writer'[p] = w
        /\ \A q \in Process : q # p => writer'[q] = writer[q]
    <2>1. writer' = [writer EXCEPT ![p] = w]
      BY <1>4 DEF w
    <2> QED BY <1>5, <2>1, WriterMoves DEF IInv
  <1>7. \A q \in Process : /\ writer'[q].rows = writer[q].rows /\ writer'[q].pc = writer[q].pc
                           /\ writer'[q].file = writer[q].file
    BY <1>5, <1>6
  <1>8. HandlesInv'
    BY <1>7 DEF IInv, HandlesInv, ReadLine
  <1>9. CASE InsertRow(e)
    <2>1. TypeOK'
      BY <1>2, <1>6, <1>9, Inserted DEF IInv, TypeOK, ReadLine, names
    <2> QED BY <1>2, <1>7, <1>8, <1>9, <2>1, InsertKeeps DEF ReadLine
  <1>10. CASE UNCHANGED <<queue, lastId>>
    <2>1. TypeOK'
      BY <1>6, <1>10 DEF IInv, TypeOK, ReadLine, names
    <2> QED BY <1>7, <1>8, <1>10, <2>1, Quiet DEF ReadLine
  <1> QED BY <1>1, <1>9, <1>10

\* Every step of a recovery, among them those that only rename or remove files.
LEMMA RecoverStep ==
    ASSUME IInv, NEW p \in Process, Recover(p) \/ RecoveryFails(p)
    PROVE  IInv'
  <1>1. CASE Glob(p)
    <2>1. PICK pc \in {"rename", "idle"} : Go(p, "glob", pc)
      BY <1>1 DEF Glob
    <2> QED BY <1>1, <2>1, WalkOn DEF Glob, Go, RecoveryOnly, names, InRecovery, IInv, TypeOK
  <1>2. CASE Rename(p)
    <2>1. PICK pc \in {"open", "idle"} : Go(p, "rename", pc)
      BY <1>2 DEF Rename
    <2> QED BY <1>2, <2>1, WalkOn DEF Rename, Go, RecoveryOnly, names, InRecovery, IInv, TypeOK
  <1>3. CASE OpenProcessing(p)
    <2>1. PICK pc \in {"repair", "read"} :
            /\ pc = IF proc = None THEN "repair" ELSE "read"
            /\ writer' = [writer EXCEPT ![p].pc = pc, ![p].file = proc]
      BY <1>3 DEF OpenProcessing
    <2>2. /\ proc \in File \cup {None} /\ writer[p] \in WriterSet
      BY DEF IInv, TypeOK
    <2>3. [writer[p] EXCEPT !.pc = pc, !.file = proc] \in WriterSet
      BY <2>2 DEF WriterSet, InRecovery
    <2>4. writer' = [writer EXCEPT ![p] = [writer[p] EXCEPT !.pc = pc, !.file = proc]]
      BY <2>1
    <2>5. /\ writer' \in [Process -> WriterSet]
          /\ writer'[p] = [writer[p] EXCEPT !.pc = pc, !.file = proc]
          /\ \A q \in Process : q # p => writer'[q] = writer[q]
      BY <2>3, <2>4, WriterMoves DEF IInv
    <2>6. writer'[p].pc = pc /\ writer'[p].rows = writer[p].rows /\ writer'[p].file = proc
      BY <2>2, <2>5 DEF WriterSet
    <2>7. TypeOK'
      BY <1>3, <2>5 DEF IInv, TypeOK, OpenProcessing, RecoveryOnly, spool, names
    <2>8. HandlesInv'
      BY <1>3, <2>1, <2>2, <2>5, <2>6 DEF IInv, HandlesInv, OpenProcessing, RecoveryOnly
    <2> QED BY <1>3, <2>5, <2>6, <2>7, <2>8, Quiet DEF OpenProcessing, RecoveryOnly, spool
  <1>4. CASE ReadLine(p)
    BY <1>4, ReadLineStep
  <1>5. CASE EndOfFile(p)
    <2>1. PICK pc \in {"unlink", "putBack"} : writer' = [writer EXCEPT ![p] = Writer(pc)]
      BY <1>5 DEF EndOfFile
    <2> QED BY <1>5, <2>1, StartAfresh DEF EndOfFile, RecoveryOnly, InRecovery, IInv, TypeOK
  <1>6. CASE Unlink(p)
    BY <1>6, WalkOn DEF Unlink, Go, RecoveryOnly, names, InRecovery, IInv, TypeOK
  <1>7. CASE PutBack(p)
    <2>1. PICK pc \in {"idle", "repair"} : writer' = [writer EXCEPT ![p].pc = pc]
      BY <1>7 DEF PutBack
    <2> QED BY <1>7, <2>1, WalkOn DEF PutBack, RecoveryOnly, names, InRecovery, IInv, TypeOK
  <1>8. CASE Repair(p)
    <2>1. PICK pc \in {"repairBack", "idle"} : Go(p, "repair", pc)
      BY <1>8 DEF Repair
    <2> QED BY <1>8, <2>1, WalkOn DEF Repair, Go, RecoveryOnly, names, InRecovery, IInv, TypeOK
  <1>9. CASE RecoveryFails(p)
    <2>1. PICK pc \in {"idle", "repair"} : writer' = [writer EXCEPT ![p] = Writer(pc)]
      BY <1>9 DEF RecoveryFails
    <2>2. overlap' \in BOOLEAN
      BY <1>9 DEF RecoveryFails, IInv, TypeOK
    <2> QED BY <1>9, <2>1, <2>2, StartAfresh DEF RecoveryFails, InRecovery, IInv, TypeOK
  <1> QED BY <1>1, <1>2, <1>3, <1>4, <1>5, <1>6, <1>7, <1>8, <1>9 DEF Recover

\* Starting, dying, and giving up the rows after a failure of the spool.
LEMMA ProcessStep ==
    ASSUME IInv, NEW p \in Process, Start(p) \/ Crash(p) \/ SpoolFails(p)
    PROVE  IInv'
  <1>1. CASE Start(p)
    BY <1>1, WalkOn DEF Start, Go, names, InRecovery, IInv, TypeOK
  <1>2. CASE Crash(p)
    <2> DEFINE gone(e) == [submit[e] EXCEPT !.pc = "gone", !.file = None]
    <2>1. submit' = [e \in Event |->
                       IF submit[e].home = p /\ submit[e].pc \in {"fallback", "append"}
                       THEN gone(e) ELSE submit[e]]
      BY <1>2 DEF Crash
    <2>2. \A e \in Event : submit[e] \in SubmitSet
      BY DEF IInv, TypeOK
    <2>3. \A e \in Event : gone(e) \in SubmitSet /\ gone(e).pc = "gone"
      BY <2>2 DEF SubmitSet
    <2> HIDE DEF gone
    <2>4. \A e \in Event : submit'[e] \in {gone(e), submit[e]}
      BY <2>1
    <2>5. submit' \in [Event -> SubmitSet]
      BY <2>1, <2>2, <2>3
    <2>6. \A e \in Event : submit'[e].pc \in {"append", "spooled"} => submit'[e] = submit[e]
      BY <2>3, <2>4
    <2>7. overlap' \in BOOLEAN
      BY <1>2 DEF Crash, IInv, TypeOK, Recovering
    <2>8. /\ writer' = [writer EXCEPT ![p] = Writer("down")]
          /\ UNCHANGED <<spool, main, names, lines, fails>>
      BY <1>2 DEF Crash
    <2>9. "down" \in InRecovery \cup {"down", "idle"} /\ "down" # "read"
      OBVIOUS
    <2> QED BY <2>5, <2>6, <2>7, <2>8, <2>9, StartAfresh DEF IInv, TypeOK
  <1>3. CASE SpoolFails(p)
    BY <1>3, StartAfresh DEF SpoolFails, FlushOnly, IInv, TypeOK
  <1> QED BY <1>1, <1>2, <1>3
-----------------------------------------------------------------------------
\* flush_spool_once.

\* What is stored stays stored, wherever it goes.
StoredStays == \A e \in Event : Stored(e) => Stored(e)'

\* A flushing writer goes from one stage to the next with the same rows.
LEMMA Stage ==
    ASSUME IInv, NEW p \in Process, NEW pc \in {"confirm", "settle", "failed"},
           writer[p].pc \in {"insert", "confirm"},
           writer' = [writer EXCEPT ![p].pc = pc]
    PROVE  /\ writer' \in [Process -> WriterSet]
           /\ writer'[p].pc = pc
           /\ \A q \in Process : writer'[q].rows = writer[q].rows
           /\ \A q \in Process : q # p => writer'[q] = writer[q]
           /\ (HandlesInv /\ UNCHANGED submit => HandlesInv')
  <1>1. writer[p] \in WriterSet
    BY DEF IInv, TypeOK
  <1>2. [writer[p] EXCEPT !.pc = pc] \in WriterSet
    BY <1>1 DEF WriterSet
  <1>3. writer' = [writer EXCEPT ![p] = [writer[p] EXCEPT !.pc = pc]]
    OBVIOUS
  <1>4. /\ writer' \in [Process -> WriterSet]
        /\ writer'[p] = [writer[p] EXCEPT !.pc = pc]
        /\ \A q \in Process : q # p => writer'[q] = writer[q]
    BY <1>2, <1>3, WriterMoves DEF IInv
  <1>5. writer'[p].pc = pc /\ writer'[p].rows = writer[p].rows
    BY <1>1, <1>4 DEF WriterSet
  <1> QED BY <1>4, <1>5 DEF HandlesInv

\* The selected rows are copies of rows of the spool.
LEMMA SelectStep ==
    ASSUME IInv, NEW p \in Process, Select(p)
    PROVE  IInv'
  <1>1. PICK due \in DueSets : writer' = [writer EXCEPT ![p].pc = "insert", ![p].rows = First(due)]
    BY DEF Select
  <1>2. First(due) \subseteq queue
    BY DEF DueSets, First
  <1> DEFINE w == [writer[p] EXCEPT !.pc = "insert", !.rows = First(due)]
  <1>3. writer[p] \in WriterSet /\ queue \subseteq Row
    BY DEF IInv, TypeOK
  <1>4. w \in WriterSet /\ w.pc = "insert" /\ w.rows = First(due)
    BY <1>2, <1>3 DEF WriterSet
  <1>5. writer' = [writer EXCEPT ![p] = w]
    BY <1>1
  <1> HIDE DEF w
  <1>6. /\ writer' \in [Process -> WriterSet]
        /\ writer'[p].pc = "insert" /\ writer'[p].rows \subseteq queue
        /\ \A q \in Process : q # p => writer'[q] = writer[q]
    BY <1>2, <1>4, <1>5, WriterMoves DEF IInv
  <1>7. UNCHANGED <<queue, lastId, dead, main, fails, submit, orig, proc, lines, overlap>>
    BY DEF Select, FlushOnly, spool, names
  <1>8. TypeOK'
    BY <1>6, <1>7 DEF IInv, TypeOK
  <1>9. HandlesInv'
    BY <1>6, <1>7 DEF IInv, HandlesInv
  <1>10. IdsInv'
    BY <1>6, <1>7 DEF IInv, IdsInv, TypeOK
  <1>11. DeliveredInv'
    BY <1>6, <1>7 DEF IInv, DeliveredInv, Events
  <1>12. CountsInv'
    BY <1>6, <1>7 DEF IInv, CountsInv
  <1>13. SpooledIsKept' /\ DeadAfterRetries'
    BY <1>7 DEF IInv, SpooledIsKept, DeadAfterRetries, Stored
  <1> QED BY <1>8, <1>9, <1>10, <1>11, <1>12, <1>13 DEF IInv

\* Delivering the rows, whatever the main database answers.
LEMMA DeliverStep ==
    ASSUME IInv, NEW p \in Process, InsertMain(p) \/ Confirm(p)
    PROVE  IInv'
  <1>1. PICK pc \in {"confirm", "settle", "failed"} :
          /\ writer' = [writer EXCEPT ![p].pc = pc]
          /\ pc \in {"confirm", "settle"} => Events(p) \subseteq main' /\ UNCHANGED fails
          /\ pc = "failed" => NoteFailure(p)
    <2>1. CASE InsertMain(p)
      BY <2>1 DEF InsertMain
    <2>2. CASE Confirm(p)
      BY <2>2 DEF Confirm, IInv, DeliveredInv
    <2> QED BY <2>1, <2>2
  <1>2. /\ UNCHANGED <<queue, lastId, dead, submit, orig, proc, lines, overlap>>
        /\ main \subseteq main' /\ main' \subseteq main \cup Events(p)
    BY DEF InsertMain, Confirm, FlushOnly, spool, names
  <1>3. /\ writer' \in [Process -> WriterSet]
        /\ writer'[p].pc = pc
        /\ \A q \in Process : writer'[q].rows = writer[q].rows
        /\ \A q \in Process : q # p => writer'[q] = writer[q]
        /\ HandlesInv'
    BY <1>1, <1>2, Stage DEF InsertMain, Confirm, IInv
  <1>4. Events(p) \subseteq Event
    BY DEF Events, IInv, TypeOK, WriterSet, Row
  <1>5. /\ fails' \in [Event -> Nat]
        /\ \A e \in Event : fails[e] <= fails'[e]
        /\ pc = "failed" => \A e \in Events(p) : fails'[e] = fails[e] + 1
    BY <1>1, <1>4 DEF NoteFailure, IInv, TypeOK
  <1>6. TypeOK'
    BY <1>2, <1>3, <1>4, <1>5 DEF IInv, TypeOK
  <1>7. IdsInv'
    BY <1>2, <1>3 DEF IInv, IdsInv
  <1>8. DeliveredInv'
    BY <1>1, <1>2, <1>3 DEF IInv, DeliveredInv, Events
  <1>9. CountsInv'
    <2>1. \A r \in Row : r.tries <= fails[r.event] => r.tries <= fails'[r.event]
      BY <1>5 DEF IInv, TypeOK, Row
    <2>2. \A r \in Row : r.tries < fails[r.event] => r.tries < fails'[r.event]
      BY <1>5 DEF IInv, TypeOK, Row
    <2>3. queue \subseteq Row /\ \A q \in Process : writer[q].rows \subseteq Row
      BY DEF IInv, TypeOK, WriterSet
    <2>4. \A r \in queue : r.tries <= fails'[r.event]
      BY <2>1, <2>3 DEF IInv, CountsInv
    <2>5. \A q \in Process : \A r \in writer[q].rows : r.tries <= fails'[r.event]
      BY <2>1, <2>3 DEF IInv, CountsInv
    <2>6. \A q \in Process : q # p =>
            \A r \in writer[q].rows : writer'[q].pc = "failed" => r.tries < fails'[r.event]
      BY <1>3, <2>2, <2>3 DEF IInv, CountsInv
    <2>7. \A r \in writer[p].rows : pc = "failed" => r.tries < fails'[r.event]
      <3>1. SUFFICES ASSUME NEW r \in writer[p].rows, pc = "failed" PROVE r.tries < fails'[r.event]
        OBVIOUS
      <3>2. r \in Row /\ r.tries <= fails[r.event] /\ r.event \in Events(p)
        BY <2>3 DEF Events, IInv, CountsInv
      <3>3. fails'[r.event] = fails[r.event] + 1 /\ fails[r.event] \in Nat
        BY <1>5, <3>1, <3>2 DEF IInv, TypeOK, Row
      <3> QED BY <3>2, <3>3 DEF Row
    <2> QED BY <1>2, <1>3, <2>4, <2>5, <2>6, <2>7 DEF CountsInv
  <1>10. SpooledIsKept'
    BY <1>2 DEF IInv, SpooledIsKept, Stored
  <1>11. DeadAfterRetries'
    BY <1>2, <1>5, SizeAssumption DEF IInv, DeadAfterRetries, TypeOK
  <1> QED BY <1>3, <1>6, <1>7, <1>8, <1>9, <1>10, <1>11 DEF IInv
\* The rows of delivered events are deleted.
LEMMA SettleStep ==
    ASSUME IInv, NEW p \in Process, Settle(p)
    PROVE  IInv' /\ StoredStays
  <1>1. /\ writer' \in [Process -> WriterSet]
        /\ writer'[p] = Writer("idle")
        /\ \A q \in Process : q # p => writer'[q] = writer[q]
    BY FreshWriter, WriterMoves DEF Settle, IInv
  <1>2. writer'[p].pc = "idle" /\ writer'[p].rows = {}
    BY <1>1, FreshWriter
  <1>3. /\ queue' = {r \in queue : r.id \notin Ids(p)}
        /\ UNCHANGED <<lastId, dead, main, fails, submit, orig, proc, lines, overlap>>
    BY DEF Settle, FlushOnly, names
  <1>4. TypeOK'
    BY <1>1, <1>3 DEF IInv, TypeOK
  <1>5. HandlesInv'
    BY <1>1, <1>2, <1>3 DEF IInv, HandlesInv
  <1>6. IdsInv'
    BY <1>1, <1>2, <1>3 DEF IInv, IdsInv
  <1>7. DeliveredInv'
    BY <1>1, <1>2, <1>3 DEF IInv, DeliveredInv, Events
  <1>8. CountsInv'
    BY <1>1, <1>2, <1>3 DEF IInv, CountsInv
  <1>9. ASSUME NEW r \in queue, r.id \in Ids(p)
        PROVE  r.event \in main
    <2>1. PICK q \in writer[p].rows : q.id = r.id
      BY <1>9 DEF Ids
    <2>2. q.event = r.event
      BY <2>1 DEF IInv, IdsInv
    <2> QED BY <2>2 DEF IInv, DeliveredInv, Events, Settle
  <1>10. StoredStays
    BY <1>3, <1>9 DEF StoredStays, Stored
  <1>11. SpooledIsKept' /\ DeadAfterRetries'
    BY <1>3, <1>10 DEF IInv, SpooledIsKept, DeadAfterRetries, StoredStays
  <1> QED BY <1>4, <1>5, <1>6, <1>7, <1>8, <1>10, <1>11 DEF IInv

\* A failed row is counted on from the writer's copy, or becomes a dead letter.
LEMMA MarkStep ==
    ASSUME IInv, NEW p \in Process, MarkFailures(p)
    PROVE  IInv' /\ StoredStays
  <1> DEFINE rows  == writer[p].rows
             given == {r \in rows : Exhausted(r)}
             again == rows \ given
             retried(r) == {[r EXCEPT !.tries = q.tries + 1] : q \in {q \in again : q.id = r.id}}
  <1>1. /\ writer' \in [Process -> WriterSet]
        /\ writer'[p] = Writer("idle")
        /\ \A q \in Process : q # p => writer'[q] = writer[q]
    BY FreshWriter, WriterMoves DEF MarkFailures, IInv
  <1>2. writer'[p].pc = "idle" /\ writer'[p].rows = {}
    BY <1>1, FreshWriter
  <1>3. /\ writer[p].pc = "failed"
        /\ dead' = dead \cup {r.event : r \in given}
        /\ queue' = {r \in queue : r.id \notin Ids(p)} \cup UNION {retried(r) : r \in queue}
        /\ UNCHANGED <<lastId, main, fails, submit, orig, proc, lines, overlap>>
    BY DEF MarkFailures, FlushOnly, names
  <1>4. /\ rows \subseteq Row /\ queue \subseteq Row
        /\ \A r \in rows : r.tries < fails[r.event] /\ fails[r.event] \in Nat
    BY <1>3 DEF IInv, TypeOK, WriterSet, CountsInv, Row
  <1>5. \A r \in queue : \A q \in rows :
           q.id = r.id => /\ q.event = r.event
                          /\ [r EXCEPT !.tries = q.tries + 1] \in Row
                          /\ [r EXCEPT !.tries = q.tries + 1].id = r.id
                          /\ [r EXCEPT !.tries = q.tries + 1].event = r.event
                          /\ [r EXCEPT !.tries = q.tries + 1].tries = q.tries + 1
    BY <1>4 DEF IInv, IdsInv, Row
  <1>6. \A s \in queue' : \E r \in queue :
           /\ s.id = r.id /\ s.event = r.event /\ s \in Row
           /\ \/ s = r /\ r.id \notin Ids(p)
              \/ \E q \in rows : q.id = r.id /\ s = [r EXCEPT !.tries = q.tries + 1]
    <2> SUFFICES ASSUME NEW s \in queue'
                 PROVE  \E r \in queue :
                          /\ s.id = r.id /\ s.event = r.event /\ s \in Row
                          /\ \/ s = r /\ r.id \notin Ids(p)
                             \/ \E q \in rows : q.id = r.id /\ s = [r EXCEPT !.tries = q.tries + 1]
      OBVIOUS
    <2>1. CASE s \in queue /\ s.id \notin Ids(p)
      BY <1>4, <2>1
    <2>2. CASE \E r \in queue : s \in retried(r)
      <3>1. PICK r \in queue : s \in retried(r)
        BY <2>2
      <3>2. PICK q \in rows : q.id = r.id /\ s = [r EXCEPT !.tries = q.tries + 1]
        BY <3>1
      <3>3. s.id = r.id /\ s.event = r.event /\ s \in Row
        BY <1>5, <3>2
      <3> QED BY <3>2, <3>3
    <2> HIDE DEF retried
    <2>3. s \in {r \in queue : r.id \notin Ids(p)} \/ s \in UNION {retried(r) : r \in queue}
      BY <1>3
    <2> QED BY <2>1, <2>2, <2>3
  <1>7. \A s \in queue' : s.tries <= fails[s.event]
    <2> SUFFICES ASSUME NEW s \in queue' PROVE s.tries <= fails[s.event]
      OBVIOUS
    <2>1. PICK r \in queue :
           /\ s.id = r.id /\ s.event = r.event
           /\ \/ s = r
              \/ \E q \in rows : q.id = r.id /\ s = [r EXCEPT !.tries = q.tries + 1]
      BY <1>6
    <2>2. CASE s = r
      BY <2>2 DEF IInv, CountsInv
    <2>3. CASE \E q \in rows : q.id = r.id /\ s = [r EXCEPT !.tries = q.tries + 1]
      <3>1. PICK q \in rows : q.id = r.id /\ s = [r EXCEPT !.tries = q.tries + 1]
        BY <2>3
      <3>2. s.tries = q.tries + 1 /\ s.event = q.event
        BY <1>5, <2>1, <3>1
      <3>3. q \in Row /\ q.tries < fails[q.event] /\ fails[q.event] \in Nat
        BY <1>4
      <3> HIDE DEF rows
      <3> QED BY <3>2, <3>3 DEF Row
    <2> QED BY <2>1, <2>2, <2>3
  <1>8. \A s, t \in queue' : s.id = t.id \/ s.event = t.event => s = t
    <2> SUFFICES ASSUME NEW s \in queue', NEW t \in queue', s.id = t.id \/ s.event = t.event
                 PROVE  s = t
      OBVIOUS
    <2>1. PICK r \in queue :
           /\ s.id = r.id /\ s.event = r.event
           /\ \/ s = r /\ r.id \notin Ids(p)
              \/ \E q \in rows : q.id = r.id /\ s = [r EXCEPT !.tries = q.tries + 1]
      BY <1>6
    <2>2. PICK u \in queue :
           /\ t.id = u.id /\ t.event = u.event
           /\ \/ t = u /\ u.id \notin Ids(p)
              \/ \E q \in rows : q.id = u.id /\ t = [u EXCEPT !.tries = q.tries + 1]
      BY <1>6
    <2>3. r = u
      BY <2>1, <2>2 DEF IInv, TypeOK
    <2>4. \A q \in rows : q.id \in Ids(p)
      BY DEF Ids
    <2>5. \A q, x \in rows : q.id = x.id => q = x
      BY DEF IInv, IdsInv
    <2> QED BY <2>1, <2>2, <2>3, <2>4, <2>5
  <1>9. dead' \subseteq Event /\ \A e \in dead' : e \in dead \/ fails[e] >= MaxRetries
    <2>1. dead \subseteq Event
      BY DEF IInv, TypeOK
    <2>2. ASSUME NEW r \in given
          PROVE  r.event \in Event /\ fails[r.event] >= MaxRetries
      BY <1>4, SizeAssumption DEF Exhausted, Row
    <2> HIDE DEF given
    <2> QED BY <1>3, <2>1, <2>2
  <1>10. TypeOK'
    <2>1. queue' \subseteq Row
      BY <1>6
    <2> QED BY <1>1, <1>3, <1>8, <1>9, <2>1 DEF IInv, TypeOK
  <1>11. HandlesInv'
    BY <1>1, <1>2, <1>3 DEF IInv, HandlesInv
  <1>12. IdsInv'
    <2>1. \A s \in queue' : \E r \in queue : s.id = r.id /\ s.event = r.event
      BY <1>6
    <2>2. \A q \in Process : writer'[q].rows \subseteq writer[q].rows
      BY <1>1, <1>2
    <2> QED BY <1>3, <2>1, <2>2 DEF IInv, IdsInv
  <1>13. DeliveredInv'
    BY <1>1, <1>2, <1>3 DEF IInv, DeliveredInv, Events
  <1>14. CountsInv'
    BY <1>1, <1>2, <1>3, <1>7 DEF IInv, CountsInv
  <1>15. \A r \in queue : r.event \in dead' \/ \E s \in queue' : s.event = r.event
    <2> SUFFICES ASSUME NEW r \in queue, r.event \notin dead'
                 PROVE  \E s \in queue' : s.event = r.event
      OBVIOUS
    <2>1. CASE r.id \notin Ids(p)
      BY <1>3, <2>1
    <2>2. CASE r.id \in Ids(p)
      <3>1. PICK q \in rows : q.id = r.id
        BY <2>2 DEF Ids
      <3>2. q.event = r.event /\ [r EXCEPT !.tries = q.tries + 1].event = r.event
        BY <1>5, <3>1
      <3>3. q \in again
        BY <1>3, <3>2
      <3>4. [r EXCEPT !.tries = q.tries + 1] \in retried(r)
        BY <3>1, <3>3
      <3> HIDE DEF retried
      <3>5. [r EXCEPT !.tries = q.tries + 1] \in queue'
        BY <1>3, <3>4
      <3> QED BY <3>2, <3>5
    <2> QED BY <2>1, <2>2
  <1>16. StoredStays
    <2>1. main' = main /\ dead \subseteq dead'
      BY <1>3
    <2> HIDE DEF given
    <2> QED BY <1>15, <2>1 DEF StoredStays, Stored
  <1>17. SpooledIsKept' /\ DeadAfterRetries'
    BY <1>3, <1>9, <1>16 DEF IInv, SpooledIsKept, DeadAfterRetries, StoredStays
  <1> QED BY <1>10, <1>11, <1>12, <1>13, <1>14, <1>16, <1>17 DEF IInv

\* What a flush does, in one.
LEMMA FlushStep ==
    ASSUME IInv, NEW p \in Process, Flush(p)
    PROVE  IInv' /\ StoredStays
  <1>1. CASE Select(p)
    BY <1>1, SelectStep DEF Select, FlushOnly, spool, StoredStays, Stored
  <1>2. CASE InsertMain(p) \/ Confirm(p)
    BY <1>2, DeliverStep DEF InsertMain, Confirm, FlushOnly, spool, StoredStays, Stored
  <1>3. CASE Settle(p)
    BY <1>3, SettleStep
  <1>4. CASE MarkFailures(p)
    BY <1>4, MarkStep
  <1> QED BY <1>1, <1>2, <1>3, <1>4 DEF Flush

-----------------------------------------------------------------------------
\* Every step keeps the invariant.
LEMMA Inductive == IInv /\ [Next]_vars => IInv'
  <1> SUFFICES ASSUME IInv, [Next]_vars PROVE IInv'
    OBVIOUS
  <1>1. ASSUME NEW e \in Event, NEW p \in Process, Submit(e, p) PROVE IInv'
    BY <1>1, SubmitStep
  <1>2. ASSUME NEW e \in Event, OpenForAppend(e) \/ AppendLine(e) \/ AppendFails(e) PROVE IInv'
    BY <1>2, EmergencyStep
  <1>3. ASSUME NEW p \in Process, Start(p) \/ Crash(p) \/ SpoolFails(p) PROVE IInv'
    BY <1>3, ProcessStep
  <1>4. ASSUME NEW p \in Process, Recover(p) \/ RecoveryFails(p) PROVE IInv'
    BY <1>4, RecoverStep
  <1>5. ASSUME NEW p \in Process, Flush(p) PROVE IInv'
    BY <1>5, FlushStep
  <1>6. CASE UNCHANGED vars
    BY <1>6 DEF vars, spool, names, IInv, TypeOK, IdsInv, DeliveredInv, Events, CountsInv,
                HandlesInv, SpooledIsKept, Stored, DeadAfterRetries
  <1> QED BY <1>1, <1>2, <1>3, <1>4, <1>5, <1>6 DEF Next

\* The inductive invariant holds throughout.
LEMMA Invariance == Spec => []IInv
  BY Initial, Inductive, PTL DEF Spec

\* There is always one row per event and per id, and every variable keeps its domain.
THEOREM TypeCorrect == Spec => []TypeOK
  <1>1. IInv => TypeOK
    BY DEF IInv
  <1> QED BY <1>1, Invariance, PTL

\* An event the spool has taken is never lost, however many writers work on copies of
\* its row and wherever they die.
THEOREM SpooledNeverLost == Spec => []SpooledIsKept
  <1>1. IInv => SpooledIsKept
    BY DEF IInv
  <1> QED BY <1>1, Invariance, PTL

\* Nothing is given up before the configured number of failures.
THEOREM NothingGivenUpEarly == Spec => []DeadAfterRetries
  <1>1. IInv => DeadAfterRetries
    BY DEF IInv
  <1> QED BY <1>1, Invariance, PTL

-----------------------------------------------------------------------------
(* The emergency files: what is accepted in one is kept until it is in the  *)
(* spool, as long as recoveries do not overlap.                             *)

\* The steps of a recovery at which the file is called *.jsonl.processing.
Renamed == {"open", "read", "unlink", "putBack", "repair", "repairBack"}

\* One thread recovers at a time, and nobody appends meanwhile.
Exclusive ==
    /\ \A p, q \in Process : Recovering(p) /\ Recovering(q) => p = q
    /\ \A p \in Process, e \in Event : Recovering(p) => ~Appending(e)

\* There is a *.processing file just while a thread recovers it, and then there is no
\* other file; whoever appends does so to the *.jsonl file.
NamesInv ==
    /\ proc # None => \E p \in Process : writer[p].pc \in Renamed
    /\ \A p \in Process : writer[p].pc \in Renamed => proc # None /\ orig = None
    /\ \A e \in Event : Appending(e) => submit[e].file = orig

\* A recovery that is still durable has stored what it has read, all of it when it is
\* about to remove the file.
ReadInv ==
    /\ \A p \in Process :
         writer[p].pc \in {"down", "glob", "rename", "open"} => writer[p].seen = {}
    /\ \A p \in Process : writer[p].pc = "read" =>
         /\ writer[p].file = proc
         /\ writer[p].durable => \A e \in writer[p].seen : Stored(e)
    /\ \A p \in Process : writer[p].pc = "unlink" => \A e \in lines[proc] : Stored(e)

FileInv == ~overlap => Exclusive /\ NamesInv /\ ReadInv /\ FiledIsKept

\* Nothing is called *.processing, and there is nobody to recover it.
LEMMA InitialFiles == Init => FileInv
  BY DEF Init, FileInv, Exclusive, NamesInv, ReadInv, FiledIsKept, Recovering, Appending,
         InRecovery, Renamed, Writer, NoSubmit, None

-----------------------------------------------------------------------------
\* Steps that leave files and recoveries alone: a flush, a request that turns to
\* another step, the death of a thread that does not recover.
LEMMA ElsewhereStep ==
    ASSUME FileInv, overlap => overlap', UNCHANGED <<names, lines>>, StoredStays,
           IInv,
           \A p \in Process :
              \/ writer'[p] = writer[p]
              \/ /\ writer[p].pc \notin InRecovery
                 /\ writer'[p].pc \notin InRecovery
                 /\ writer'[p].pc = "down" => writer'[p].seen = {},
           \A e \in Event :
              submit'[e].pc \in {"append", "filed"} => submit'[e] = submit[e]
    PROVE  FileInv'
  <1> SUFFICES ASSUME ~overlap' PROVE (Exclusive /\ NamesInv /\ ReadInv /\ FiledIsKept)'
    BY DEF FileInv
  <1>1. Exclusive /\ NamesInv /\ ReadInv /\ FiledIsKept /\ ~overlap
    BY DEF FileInv
  <1>2. \A p \in Process : \/ writer'[p] = writer[p]
                           \/ writer[p].pc \notin InRecovery /\ writer'[p].pc \notin InRecovery
    OBVIOUS
  <1>3. \A e \in Event : Appending(e)' => Appending(e) /\ submit'[e] = submit[e]
    BY DEF Appending
  <1>4. Exclusive'
    BY <1>1, <1>2, <1>3 DEF Exclusive, Recovering
  <1>5. NamesInv'
    BY <1>1, <1>2, <1>3 DEF NamesInv, names, Renamed, InRecovery
  <1>6. ReadInv'
    <2>1. ASSUME NEW p \in Process, writer'[p].pc \in {"down", "glob", "rename", "open"}
          PROVE  writer'[p].seen = {}
      BY <1>1, <2>1 DEF ReadInv, InRecovery
    <2>2. ASSUME NEW p \in Process, writer'[p].pc = "read"
          PROVE  /\ writer'[p].file = proc
                 /\ writer'[p].durable => \A e \in writer'[p].seen : Stored(e)'
      <3>1. writer'[p] = writer[p]
        BY <2>2 DEF InRecovery
      <3>2. writer[p].seen \subseteq Event
        BY DEF IInv, TypeOK, WriterSet
      <3> QED BY <1>1, <2>2, <3>1, <3>2 DEF ReadInv, StoredStays
    <2>3. ASSUME NEW p \in Process, writer'[p].pc = "unlink"
          PROVE  \A e \in lines[proc] : Stored(e)'
      <3>1. writer'[p] = writer[p]
        BY <2>3 DEF InRecovery
      <3>2. lines[proc] \subseteq Event
        BY <1>1, <2>3, <3>1 DEF IInv, TypeOK, NamesInv, Renamed
      <3> QED BY <1>1, <2>3, <3>1, <3>2 DEF ReadInv, StoredStays
    <2> QED BY <2>1, <2>2, <2>3 DEF ReadInv, names
  <1>7. FiledIsKept'
    BY <1>1 DEF FiledIsKept, StoredStays, OnFile, names
  <1> QED BY <1>4, <1>5, <1>6, <1>7

\* A step of the one thread that recovers.
LEMMA AloneStep ==
    ASSUME FileInv, IInv, NEW p \in Process, Recovering(p), ~overlap, UNCHANGED <<lines, submit>>,
           StoredStays,
           \A q \in Process : q # p => writer'[q] = writer[q],
           writer'[p].pc \in InRecovery \cup {"idle"},
           proc' # None <=> writer'[p].pc \in Renamed,
           proc' # None => orig' = None,
           writer'[p].pc \in {"glob", "rename", "open"} => writer'[p].seen = {},
           writer'[p].pc = "read" =>
              /\ writer'[p].file = proc'
              /\ writer'[p].durable => \A e \in writer'[p].seen : Stored(e)',
           writer'[p].pc = "unlink" => \A e \in lines[proc'] : Stored(e)',
           \A e \in Event : OnFile(e) => Stored(e)' \/ OnFile(e)'
    PROVE  FileInv'
  <1> SUFFICES ASSUME ~overlap' PROVE (Exclusive /\ NamesInv /\ ReadInv /\ FiledIsKept)'
    BY DEF FileInv
  <1>1. Exclusive /\ NamesInv /\ ReadInv /\ FiledIsKept
    BY DEF FileInv
  <1>2. \A q \in Process : q # p => writer'[q] = writer[q] /\ writer[q].pc \notin InRecovery
    BY <1>1 DEF Exclusive, Recovering
  <1>3. \A e \in Event : submit[e].pc # "append" /\ submit'[e].pc # "append"
    BY <1>1 DEF Exclusive, Appending
  <1>4. Exclusive'
    BY <1>2, <1>3 DEF Exclusive, Recovering, Appending
  <1>5. NamesInv'
    BY <1>2, <1>3 DEF NamesInv, Renamed, InRecovery, Appending
  <1>6. ReadInv'
    <2>1. ASSUME NEW q \in Process, writer'[q].pc \in {"down", "glob", "rename", "open"}
          PROVE  writer'[q].seen = {}
      BY <1>1, <1>2, <2>1 DEF ReadInv, InRecovery
    <2>2. \A q \in Process : q # p => writer'[q].pc \notin {"read", "unlink"}
      BY <1>2 DEF InRecovery
    <2> QED BY <2>1, <2>2 DEF ReadInv
  <1>7. FiledIsKept'
    BY <1>1 DEF FiledIsKept, StoredStays
  <1> QED BY <1>4, <1>5, <1>6, <1>7
-----------------------------------------------------------------------------
\* recover_emergency_files.

\* Reading a line stores it, unless the recovery is no longer durable.
LEMMA ReadLineFiles ==
    ASSUME IInv, FileInv, NEW p \in Process, ReadLine(p), ~overlap
    PROVE  FileInv'
  <1>1. PICK e \in lines[writer[p].file] \ writer[p].seen :
           \/ /\ InsertRow(e)
              /\ writer' = [writer EXCEPT ![p].seen = @ \cup {e}]
           \/ /\ writer' = [writer EXCEPT ![p].seen = @ \cup {e}, ![p].durable = FALSE]
              /\ UNCHANGED <<queue, lastId>>
    BY DEF ReadLine
  <1>2. e \in Event
    BY DEF ReadLine, IInv, HandlesInv, TypeOK
  <1>3. writer[p] \in WriterSet /\ writer \in [Process -> WriterSet]
    BY DEF IInv, TypeOK
  <1>4. /\ writer'[p].pc = "read" /\ writer'[p].file = writer[p].file
        /\ writer'[p].seen = writer[p].seen \cup {e}
        /\ writer'[p].durable => writer[p].durable /\ InsertRow(e)
        /\ \A q \in Process : q # p => writer'[q] = writer[q]
    <2>1. CASE /\ InsertRow(e)
               /\ writer' = [writer EXCEPT ![p].seen = @ \cup {e}]
      BY <1>3, <2>1 DEF WriterSet, ReadLine
    <2>2. CASE writer' = [writer EXCEPT ![p].seen = @ \cup {e}, ![p].durable = FALSE]
      BY <1>3, <2>2 DEF WriterSet, ReadLine
    <2> QED BY <1>1, <2>1, <2>2
  <1>5. UNCHANGED <<dead, main, fails, lines, submit, orig, proc>>
    BY DEF ReadLine, names
  <1>6. StoredStays /\ (InsertRow(e) => Stored(e)')
    <2>1. CASE InsertRow(e)
      <3>1. \A x \in Event : Stored(x) \/ x = e => Stored(x)'
        BY <1>2, <1>5, <2>1, Inserted
      <3> QED BY <1>2, <3>1 DEF StoredStays
    <2>2. CASE UNCHANGED <<queue, lastId>> /\ ~InsertRow(e)
      BY <1>5, <2>2 DEF StoredStays, Stored
    <2> QED BY <1>1, <2>1, <2>2
  <1>7. /\ writer[p].file = proc /\ proc # None /\ orig = None
        /\ writer[p].durable => \A x \in writer[p].seen : Stored(x)
    BY DEF FileInv, NamesInv, ReadInv, ReadLine, Renamed
  <1>8. writer'[p].durable => \A x \in writer'[p].seen : Stored(x)'
    <2>1. writer[p].seen \subseteq Event
      BY <1>3 DEF WriterSet
    <2> QED BY <1>4, <1>6, <1>7, <2>1 DEF StoredStays
  <1>9. Recovering(p) /\ writer'[p].pc \in InRecovery /\ writer'[p].pc \in Renamed
    BY <1>4 DEF Recovering, InRecovery, Renamed, ReadLine
  <1>10. \A x \in Event : OnFile(x) => OnFile(x)'
    BY <1>5 DEF OnFile
  <1>11. writer'[p].pc \notin {"glob", "rename", "open", "unlink"}
    BY <1>4
  <1> QED BY <1>4, <1>5, <1>6, <1>7, <1>8, <1>9, <1>10, <1>11, AloneStep

\* Every other step of a recovery.
LEMMA RecoverFiles ==
    ASSUME IInv, FileInv, NEW p \in Process, Recover(p)
    PROVE  FileInv'
  <1> SUFFICES ASSUME ~overlap PROVE FileInv'
    <2>1. overlap' = overlap
      BY DEF Recover, Glob, Rename, OpenProcessing, ReadLine, EndOfFile, Unlink, PutBack,
             Repair, RecoveryOnly
    <2> QED BY <2>1 DEF FileInv
  <1>1. CASE ReadLine(p)
    BY <1>1, ReadLineFiles
  <1>2. ASSUME ~ReadLine(p)
        PROVE  UNCHANGED <<queue, lastId, dead, main, submit, lines>> /\ StoredStays
    BY <1>2 DEF Recover, Glob, Rename, OpenProcessing, EndOfFile, Unlink, PutBack,
             Repair, RecoveryOnly, spool, StoredStays, Stored
  <1>3. /\ writer \in [Process -> WriterSet] /\ writer[p] \in WriterSet
        /\ Exclusive /\ NamesInv /\ ReadInv
        /\ orig \in File \cup {None} /\ proc \in File \cup {None}
    BY DEF FileInv, IInv, TypeOK
  <1>4. Recovering(p) => proc = None \/ writer[p].pc \in Renamed
    BY <1>3 DEF NamesInv, Exclusive, Recovering, Renamed, InRecovery
  <1>5. CASE Glob(p)
    <2>1. PICK pc \in {"rename", "idle"} : writer[p].pc = "glob" /\ writer' = [writer EXCEPT ![p].pc = pc]
      BY <1>5 DEF Glob, Go
    <2>2. /\ writer'[p].pc = pc /\ writer'[p].seen = writer[p].seen /\ writer[p].seen = {}
          /\ \A q \in Process : q # p => writer'[q] = writer[q]
      BY <1>3, <2>1 DEF WriterSet, ReadInv
    <2>3. Recovering(p) /\ pc \in InRecovery \cup {"idle"} /\ pc \notin Renamed
      BY <2>1 DEF Recovering, InRecovery, Renamed
    <2>4. UNCHANGED <<orig, proc>> /\ proc = None
      BY <1>4, <1>5, <2>1, <2>3 DEF Glob, names, Renamed
    <2>5. \A e \in Event : OnFile(e) => OnFile(e)'
      BY <1>2, <1>5, <2>1, <2>4 DEF OnFile, ReadLine
    <2> QED BY <1>2, <2>1, <2>2, <2>3, <2>4, <2>5, AloneStep DEF ReadLine
  <1>6. CASE Rename(p)
    <2>1. /\ writer[p].pc = "rename"
          /\ writer' = [writer EXCEPT ![p].pc = IF orig # None THEN "open" ELSE "idle"]
          /\ IF orig # None THEN proc' = orig /\ orig' = None ELSE UNCHANGED <<orig, proc>>
      BY <1>6 DEF Rename, Go, names
    <2>2. /\ writer'[p].pc = IF orig # None THEN "open" ELSE "idle"
          /\ writer'[p].seen = writer[p].seen /\ writer[p].seen = {}
          /\ \A q \in Process : q # p => writer'[q] = writer[q]
      BY <1>3, <2>1 DEF WriterSet, ReadInv
    <2>3. Recovering(p) /\ proc = None
      BY <1>4, <2>1 DEF Recovering, InRecovery, Renamed
    <2>4. \A e \in Event : OnFile(e) => OnFile(e)'
      BY <1>2, <2>1, <2>3 DEF OnFile, ReadLine
    <2>5. /\ writer'[p].pc \in InRecovery \cup {"idle"}
          /\ proc' # None <=> writer'[p].pc \in Renamed
          /\ proc' # None => orig' = None
      BY <2>1, <2>2, <2>3 DEF InRecovery, Renamed
    <2>6. writer'[p].pc \notin {"read", "unlink"}
      BY <2>2
    <2> QED BY <1>2, <2>1, <2>2, <2>3, <2>4, <2>5, <2>6, AloneStep DEF ReadLine
  <1>7. CASE OpenProcessing(p)
    <2>1. /\ writer[p].pc = "open"
          /\ writer' = [writer EXCEPT ![p].pc = IF proc = None THEN "repair" ELSE "read",
                                      ![p].file = proc]
          /\ UNCHANGED <<orig, proc>>
      BY <1>7 DEF OpenProcessing, names
    <2>2. Recovering(p) /\ proc # None /\ orig = None
      BY <1>3, <2>1 DEF Recovering, InRecovery, NamesInv, Renamed
    <2>3. /\ writer'[p].pc = "read" /\ writer'[p].file = proc
          /\ writer'[p].seen = writer[p].seen /\ writer[p].seen = {}
          /\ \A q \in Process : q # p => writer'[q] = writer[q]
      BY <1>3, <2>1, <2>2 DEF WriterSet, ReadInv
    <2>4. \A e \in Event : OnFile(e) => OnFile(e)'
      BY <1>2, <2>1 DEF OnFile, ReadLine
    <2>5. "read" \in InRecovery /\ "read" \in Renamed
      BY DEF InRecovery, Renamed
    <2> QED BY <1>2, <2>1, <2>2, <2>3, <2>4, <2>5, AloneStep DEF ReadLine
  <1>8. CASE EndOfFile(p)
    <2>1. PICK pc \in {"unlink", "putBack"} :
            /\ writer[p].pc = "read" /\ lines[writer[p].file] \subseteq writer[p].seen
            /\ writer' = [writer EXCEPT ![p] = Writer(pc)]
            /\ pc = "unlink" => writer[p].durable
            /\ UNCHANGED <<orig, proc>>
      BY <1>8 DEF EndOfFile, names
    <2>2. Recovering(p) /\ proc # None /\ orig = None /\ writer[p].file = proc
      BY <1>3, <2>1 DEF Recovering, InRecovery, NamesInv, Renamed, ReadInv
    <2>3. /\ writer'[p].pc = pc
          /\ \A q \in Process : q # p => writer'[q] = writer[q]
      BY <1>3, <2>1 DEF Writer
    <2>4. pc = "unlink" => \A e \in lines[proc] : Stored(e)'
      <3>1. UNCHANGED <<queue, dead, main>>
        BY <1>2, <2>1, <1>8 DEF EndOfFile, RecoveryOnly, spool
      <3> QED BY <1>3, <2>1, <2>2, <3>1 DEF ReadInv, Stored
    <2>5. \A e \in Event : OnFile(e) => OnFile(e)'
      BY <1>8, <2>1 DEF OnFile, EndOfFile
    <2>6. pc \in InRecovery /\ pc \in Renamed /\ pc \notin {"glob", "rename", "open", "read"}
      BY DEF InRecovery, Renamed
    <2>7. UNCHANGED <<lines, submit>> /\ StoredStays
      BY <1>8 DEF EndOfFile, RecoveryOnly, spool, StoredStays, Stored
    <2> QED BY <2>1, <2>2, <2>3, <2>4, <2>5, <2>6, <2>7, AloneStep
  <1>9. CASE Unlink(p)
    <2>1. /\ writer[p].pc = "unlink" /\ writer' = [writer EXCEPT ![p].pc = "idle"]
          /\ proc' = None /\ orig' = orig
      BY <1>9 DEF Unlink, Go
    <2>2. Recovering(p) /\ orig = None
      BY <1>3, <2>1 DEF Recovering, InRecovery, NamesInv, Renamed
    <2>3. /\ writer'[p].pc = "idle"
          /\ \A q \in Process : q # p => writer'[q] = writer[q]
      BY <1>3, <2>1 DEF WriterSet
    <2>4. \A e \in Event : OnFile(e) => Stored(e)'
      <3>1. UNCHANGED <<queue, dead, main>>
        BY <1>9 DEF Unlink, RecoveryOnly, spool
      <3> QED BY <1>3, <2>1, <2>2, <3>1 DEF OnFile, ReadInv, Stored
    <2>5. "idle" \notin Renamed
      BY DEF Renamed
    <2>6. UNCHANGED <<lines, submit>> /\ StoredStays
      BY <1>9 DEF Unlink, RecoveryOnly, spool, StoredStays, Stored
    <2> QED BY <2>1, <2>2, <2>3, <2>4, <2>5, <2>6, AloneStep
  <1>10. CASE PutBack(p)
    <2>1. Recovering(p) /\ proc # None /\ orig = None
      BY <1>3, <1>10 DEF PutBack, Recovering, InRecovery, NamesInv, Renamed
    <2>2. orig' = proc /\ proc' = None /\ writer' = [writer EXCEPT ![p].pc = "idle"]
      BY <1>10, <2>1 DEF PutBack
    <2>3. /\ writer'[p].pc = "idle"
          /\ \A q \in Process : q # p => writer'[q] = writer[q]
      BY <1>3, <2>2 DEF WriterSet
    <2>4. "idle" \notin Renamed
      BY DEF Renamed
    <2>5. UNCHANGED <<lines, submit>> /\ StoredStays
      BY <1>10 DEF PutBack, RecoveryOnly, spool, StoredStays, Stored
    <2>6. \A e \in Event : OnFile(e) => OnFile(e)'
      BY <2>1, <2>2, <2>5 DEF OnFile
    <2> QED BY <2>1, <2>2, <2>3, <2>4, <2>5, <2>6, AloneStep
  <1>11. CASE Repair(p)
    <2>1. Recovering(p) /\ proc # None /\ orig = None
      BY <1>3, <1>11 DEF Repair, Go, Recovering, InRecovery, NamesInv, Renamed
    <2>2. writer' = [writer EXCEPT ![p].pc = "repairBack"] /\ UNCHANGED <<orig, proc>>
      BY <1>11, <2>1 DEF Repair, Go, names
    <2>3. /\ writer'[p].pc = "repairBack"
          /\ \A q \in Process : q # p => writer'[q] = writer[q]
      BY <1>3, <2>2 DEF WriterSet
    <2>4. "repairBack" \in Renamed /\ "repairBack" \in InRecovery
      BY DEF Renamed, InRecovery
    <2>5. UNCHANGED <<lines, submit>> /\ StoredStays
      BY <1>11 DEF Repair, RecoveryOnly, spool, StoredStays, Stored
    <2>6. \A e \in Event : OnFile(e) => OnFile(e)'
      BY <2>2, <2>5 DEF OnFile
    <2> QED BY <2>1, <2>2, <2>3, <2>4, <2>5, <2>6, AloneStep
  <1> QED BY <1>1, <1>5, <1>6, <1>7, <1>8, <1>9, <1>10, <1>11 DEF Recover
\* A failure hands the file over to the repair, or ends the recovery: before it has
\* renamed anything, or for good.
LEMMA RecoveryFailsFiles ==
    ASSUME IInv, FileInv, NEW p \in Process, RecoveryFails(p)
    PROVE  FileInv'
  <1> SUFFICES ASSUME ~overlap' PROVE FileInv'
    BY DEF FileInv
  <1>1. ~overlap /\ writer[p].pc # "repairBack"
    BY DEF RecoveryFails
  <1>2. /\ UNCHANGED <<lines, submit, orig, proc>> /\ StoredStays
    BY DEF RecoveryFails, spool, names, StoredStays, Stored
  <1>3. PICK pc \in {"idle", "repair"} :
          /\ writer' = [writer EXCEPT ![p] = Writer(pc)]
          /\ pc = "repair" <=> writer[p].pc \notin {"glob", "rename"}
          /\ writer[p].pc \in {"glob", "rename", "open", "read", "unlink", "putBack"}
    BY <1>1 DEF RecoveryFails
  <1>4. Recovering(p) /\ (pc = "repair" <=> writer[p].pc \in Renamed)
    BY <1>3 DEF Recovering, InRecovery, Renamed
  <1>5. /\ writer'[p].pc = pc
        /\ \A q \in Process : q # p => writer'[q] = writer[q]
    BY <1>3 DEF IInv, TypeOK, Writer
  <1>6. pc \in InRecovery \cup {"idle"} /\ (pc \in Renamed <=> pc = "repair")
    BY DEF InRecovery, Renamed
  <1>7. /\ proc # None <=> writer[p].pc \in Renamed
        /\ proc # None => orig = None
    BY <1>1, <1>4 DEF FileInv, Exclusive, NamesInv, Recovering, Renamed, InRecovery
  <1>8. \A e \in Event : OnFile(e) => OnFile(e)'
    BY <1>2 DEF OnFile
  <1> QED BY <1>1, <1>2, <1>3, <1>4, <1>5, <1>6, <1>7, <1>8, AloneStep

-----------------------------------------------------------------------------
\* A request appends to the file that has the name, which nobody recovers meanwhile.
LEMMA EmergencyFiles ==
    ASSUME IInv, FileInv, NEW e \in Event,
           OpenForAppend(e) \/ AppendLine(e) \/ (AppendFails(e) /\ lines' # lines)
    PROVE  FileInv'
  <1> SUFFICES ASSUME ~overlap' PROVE (Exclusive /\ NamesInv /\ ReadInv /\ FiledIsKept)'
    BY DEF FileInv
  <1>1. ~overlap /\ Exclusive /\ NamesInv /\ ReadInv /\ FiledIsKept
    <2>1. ~overlap
      BY DEF OpenForAppend, AppendLine, AppendFails
    <2> QED BY <2>1 DEF FileInv
  <1>2. UNCHANGED <<queue, dead, main, proc, writer>>
    BY DEF OpenForAppend, AppendLine, AppendFails, spool, names
  <1>3. \A p \in Process : writer[p].pc \notin InRecovery
    <2>1. CASE OpenForAppend(e)
      BY <2>1 DEF OpenForAppend, Recovering
    <2>2. CASE Appending(e)
      BY <1>1, <2>2 DEF Exclusive, Recovering
    <2> QED BY <2>1, <2>2 DEF Appending, AppendLine, AppendFails
  <1>4. proc = None
    BY <1>1, <1>3 DEF NamesInv, Renamed, InRecovery
  <1>5. submit \in [Event -> SubmitSet] /\ lines \in [File -> SUBSET Event]
    BY DEF IInv, TypeOK
  <1>6. Exclusive' /\ ReadInv'
    BY <1>1, <1>2, <1>3 DEF Exclusive, Recovering, ReadInv, InRecovery
  <1>7. \A x \in Event : Stored(x)' <=> Stored(x)
    BY <1>2 DEF Stored
  <1>8. (\A x \in Event : Appending(x)' => submit'[x].file = orig') => NamesInv'
    BY <1>2, <1>3, <1>4 DEF NamesInv, Renamed, InRecovery
  <1>9. CASE OpenForAppend(e)
    <2>1. PICK f \in File :
            /\ f = IF orig # None THEN orig ELSE Min(File \ Known)
            /\ submit' = [submit EXCEPT ![e].pc = "append", ![e].file = f]
            /\ orig' = f
            /\ lines' = IF orig = None THEN [lines EXCEPT ![f] = {}] ELSE lines
      BY <1>9 DEF OpenForAppend
    <2>2. /\ submit'[e].pc = "append" /\ submit'[e].file = f
          /\ \A x \in Event : x # e => submit'[x] = submit[x]
      BY <1>5, <2>1 DEF SubmitSet
    <2>3. f # None
      BY FileAssumption DEF None
    <2>4. orig = None => \A x \in Event : ~Appending(x)
      BY <1>1, FileAssumption DEF NamesInv, IInv, HandlesInv, Appending, None
    <2>5. \A x \in Event : Appending(x)' => submit'[x].file = orig'
      BY <1>1, <2>1, <2>2, <2>4 DEF NamesInv, Appending
    <2>6. ASSUME NEW x \in Event, OnFile(x) PROVE OnFile(x)'
      <3>1. orig # None /\ x \in lines[orig]
        BY <1>4, <2>6 DEF OnFile
      <3> QED BY <2>1, <2>3, <3>1 DEF OnFile
    <2>7. FiledIsKept'
      BY <1>1, <1>7, <2>2, <2>6 DEF FiledIsKept
    <2> QED BY <1>6, <1>8, <2>5, <2>7
  <1>10. CASE AppendLine(e) \/ AppendFails(e)
    <2>1. /\ \A x \in Event : x # e => submit'[x] = submit[x]
          /\ submit'[e].pc \in {"filed", "refused"}
          /\ orig' = orig
      BY <1>5, <1>10 DEF AppendLine, AppendFails, names, SubmitSet
    <2>2. \A x \in Event : Appending(x)' => submit'[x].file = orig'
      BY <1>1, <2>1 DEF NamesInv, Appending
    <2>3. \A f \in File : lines[f] \subseteq lines'[f]
      <3>1. lines' = lines \/ lines' = [lines EXCEPT ![submit[e].file] = lines[submit[e].file] \cup {e}]
        BY <1>10 DEF AppendLine, AppendFails
      <3> QED BY <1>5, <3>1
    <2>4. ASSUME NEW x \in Event, OnFile(x) PROVE OnFile(x)'
      BY <1>2, <2>1, <2>3, <2>4 DEF OnFile, IInv, TypeOK
    <2>5. ASSUME AppendLine(e) PROVE OnFile(e)'
      <3>1. submit[e].file = orig /\ submit[e].file \in File
        BY <1>1, <2>5 DEF AppendLine, NamesInv, Appending, IInv, HandlesInv
      <3>2. orig # None
        BY <3>1, FileAssumption DEF None
      <3>3. e \in lines'[orig]
        BY <1>5, <2>5, <3>1 DEF AppendLine
      <3> QED BY <2>1, <3>2, <3>3 DEF OnFile
    <2>6. AppendFails(e) => submit'[e].pc = "refused"
      BY <1>5 DEF AppendFails, SubmitSet
    <2>7. FiledIsKept'
      BY <1>1, <1>7, <1>10, <2>1, <2>4, <2>5, <2>6 DEF FiledIsKept
    <2> QED BY <1>6, <1>8, <2>2, <2>7
  <1> QED BY <1>9, <1>10

\* A request that is refused and has written nothing.
LEMMA RefusedFiles ==
    ASSUME IInv, FileInv, NEW e \in Event, AppendFails(e), UNCHANGED lines
    PROVE  FileInv'
  <1>1. /\ submit'[e].pc = "refused"
        /\ \A x \in Event : x # e => submit'[x] = submit[x]
    BY DEF AppendFails, IInv, TypeOK, SubmitSet
  <1>2. UNCHANGED <<names, writer, overlap>> /\ StoredStays
    BY DEF AppendFails, spool, StoredStays, Stored
  <1> QED BY <1>1, <1>2, ElsewhereStep

\* A request that tries the spool first.
LEMMA SubmitFiles ==
    ASSUME IInv, FileInv, NEW e \in Event, NEW p \in Process, Submit(e, p)
    PROVE  FileInv'
  <1>1. submit \in [Event -> SubmitSet]
    BY DEF IInv, TypeOK
  <1>2. /\ submit'[e].pc \in {"spooled", "fallback"}
        /\ \A x \in Event : x # e => submit'[x] = submit[x]
    BY <1>1 DEF Submit, SubmitSet
  <1>3. StoredStays
    <2>1. CASE InsertRow(e)
      <3>1. UNCHANGED <<dead, main, fails>>
        BY DEF Submit
      <3> QED BY <2>1, <3>1, Inserted DEF StoredStays
    <2>2. CASE UNCHANGED <<queue, lastId>>
      BY <2>2 DEF Submit, StoredStays, Stored
    <2> QED BY <2>1, <2>2 DEF Submit
  <1>4. UNCHANGED <<names, lines, writer, overlap>>
    BY DEF Submit
  <1> QED BY <1>2, <1>3, <1>4, ElsewhereStep

\* A flush has nothing to do with files.
LEMMA FlushFiles ==
    ASSUME IInv, FileInv, NEW p \in Process, Flush(p) \/ SpoolFails(p)
    PROVE  FileInv'
  <1>1. UNCHANGED <<names, lines, submit, overlap>>
    BY DEF Flush, Select, InsertMain, Confirm, Settle, MarkFailures, SpoolFails, FlushOnly
  <1>2. StoredStays
    <2>1. CASE Flush(p)
      BY <2>1, FlushStep
    <2>2. CASE SpoolFails(p)
      BY <2>2 DEF SpoolFails, spool, StoredStays, Stored
    <2> QED BY <2>1, <2>2
  <1>3. writer \in [Process -> WriterSet]
    BY DEF IInv, TypeOK
  <1>4. writer[p].pc \notin InRecovery
    BY DEF Flush, Select, InsertMain, Confirm, Settle, MarkFailures, SpoolFails, InRecovery
  <1>5. \A q \in Process : q # p => writer'[q] = writer[q]
    BY <1>3 DEF Flush, Select, InsertMain, Confirm, Settle, MarkFailures, SpoolFails
  <1>6. writer'[p].pc \in {"insert", "confirm", "settle", "failed", "idle"}
    BY <1>3 DEF Flush, Select, InsertMain, Confirm, Settle, MarkFailures, SpoolFails, Writer,
                WriterSet
  <1>7. writer'[p].pc \notin InRecovery \cup {"down"}
    BY <1>6 DEF InRecovery
  <1> QED BY <1>1, <1>2, <1>4, <1>5, <1>7, ElsewhereStep

\* A thread starts when nobody recovers and nobody appends, or this is noted.
LEMMA StartFiles ==
    ASSUME IInv, FileInv, NEW p \in Process, Start(p)
    PROVE  FileInv'
  <1> SUFFICES ASSUME ~overlap' PROVE (Exclusive /\ NamesInv /\ ReadInv /\ FiledIsKept)'
    BY DEF FileInv
  <1>1. /\ ~overlap /\ Exclusive /\ NamesInv /\ ReadInv /\ FiledIsKept
        /\ \A q \in Process : writer[q].pc \notin InRecovery
        /\ \A e \in Event : ~Appending(e)
    BY DEF FileInv, Start, Recovering
  <1>2. UNCHANGED <<queue, dead, main, orig, proc, lines, submit>>
    BY DEF Start, spool, names
  <1>3. writer \in [Process -> WriterSet] /\ writer[p] \in WriterSet
    BY DEF IInv, TypeOK
  <1>4. /\ writer[p].pc = "down" /\ writer'[p].pc = "glob" /\ writer'[p].seen = writer[p].seen
        /\ \A q \in Process : q # p => writer'[q] = writer[q]
    BY <1>3 DEF Start, Go, WriterSet
  <1>5. Exclusive'
    BY <1>1, <1>2, <1>4 DEF Exclusive, Recovering, Appending
  <1>6. NamesInv'
    BY <1>1, <1>2, <1>4 DEF NamesInv, Renamed, InRecovery, Appending
  <1>7. ReadInv'
    BY <1>1, <1>2, <1>4 DEF ReadInv, InRecovery
  <1>8. FiledIsKept'
    BY <1>1, <1>2 DEF FiledIsKept, Stored, OnFile
  <1> QED BY <1>5, <1>6, <1>7, <1>8

\* A process dies: with its recovery, which is noted, or without.
LEMMA CrashFiles ==
    ASSUME IInv, FileInv, NEW p \in Process, Crash(p)
    PROVE  FileInv'
  <1> SUFFICES ASSUME ~overlap' PROVE FileInv'
    BY DEF FileInv
  <1>1. ~overlap /\ writer[p].pc \notin InRecovery
    BY DEF Crash, Recovering
  <1>2. /\ writer'[p].pc = "down" /\ writer'[p].seen = {}
        /\ \A q \in Process : q # p => writer'[q] = writer[q]
    BY DEF Crash, Writer, IInv, TypeOK
  <1> DEFINE gone(e) == [submit[e] EXCEPT !.pc = "gone", !.file = None]
  <1>3. submit' = [e \in Event |->
                     IF submit[e].home = p /\ submit[e].pc \in {"fallback", "append"}
                     THEN gone(e) ELSE submit[e]]
    BY DEF Crash
  <1>4. \A e \in Event : gone(e).pc = "gone"
    BY DEF IInv, TypeOK, SubmitSet
  <1> HIDE DEF gone
  <1>5. \A e \in Event : submit'[e].pc \in {"append", "filed"} => submit'[e] = submit[e]
    BY <1>3, <1>4
  <1>6. UNCHANGED <<names, lines>> /\ StoredStays
    BY DEF Crash, spool, StoredStays, Stored
  <1>7. "down" \notin InRecovery
    BY DEF InRecovery
  <1> QED BY <1>1, <1>2, <1>5, <1>6, <1>7, ElsewhereStep

-----------------------------------------------------------------------------
\* Every step keeps the files.
LEMMA InductiveFiles == IInv /\ FileInv /\ [Next]_vars => FileInv'
  <1> SUFFICES ASSUME IInv, FileInv, [Next]_vars PROVE FileInv'
    OBVIOUS
  <1>1. ASSUME NEW e \in Event, NEW p \in Process, Submit(e, p) PROVE FileInv'
    BY <1>1, SubmitFiles
  <1>2. ASSUME NEW e \in Event, OpenForAppend(e) \/ AppendLine(e) \/ AppendFails(e) PROVE FileInv'
    <2>1. CASE AppendFails(e) /\ UNCHANGED lines
      BY <2>1, RefusedFiles
    <2>2. CASE OpenForAppend(e) \/ AppendLine(e) \/ (AppendFails(e) /\ lines' # lines)
      BY <2>2, EmergencyFiles
    <2> QED BY <1>2, <2>1, <2>2
  <1>3. ASSUME NEW p \in Process, Start(p) \/ Crash(p) PROVE FileInv'
    BY <1>3, StartFiles, CrashFiles
  <1>4. ASSUME NEW p \in Process, Recover(p) \/ RecoveryFails(p) PROVE FileInv'
    BY <1>4, RecoverFiles, RecoveryFailsFiles
  <1>5. ASSUME NEW p \in Process, Flush(p) \/ SpoolFails(p) PROVE FileInv'
    BY <1>5, FlushFiles
  <1>6. CASE UNCHANGED vars
    <2>1. UNCHANGED <<names, lines, writer, submit, overlap>> /\ StoredStays
      BY <1>6 DEF vars, spool, StoredStays, Stored
    <2> QED BY <2>1, ElsewhereStep
  <1> QED BY <1>1, <1>2, <1>3, <1>4, <1>5, <1>6 DEF Next

\* An event accepted in the emergency file is in it until it is in the spool, as long as
\* each recovery has the file to itself and is not cut short.
THEOREM FiledKept == Spec => []FiledIsKept
  <1>1. IInv /\ FileInv => FiledIsKept
    BY DEF FileInv, FiledIsKept
  <1>2. Init => IInv /\ FileInv
    BY Initial, InitialFiles
  <1>3. IInv /\ FileInv /\ [Next]_vars => IInv' /\ FileInv'
    BY Inductive, InductiveFiles
  <1> QED BY <1>1, <1>2, <1>3, PTL DEF Spec
-----------------------------------------------------------------------------
(* The spool implements the outbox.                                        *)

Waiting == {r.event : r \in queue}

\* The copies of the writers are of events that were taken.
CopiesStored == \A p \in Process : \A e \in Events(p) : Stored(e)

\* An INSERT OR IGNORE takes the event, if it does anything.
LEMMA InsertTakes ==
    ASSUME NEW e \in Event, InsertRow(e), UNCHANGED <<dead, main, fails>>
    PROVE  Promise!Take(e)
  <1>1. CASE \E r \in queue : r.event = e
    BY <1>1 DEF InsertRow, Promise!Take
  <1>2. CASE ~ \E r \in queue : r.event = e
    <2>1. queue' = queue \cup {[id |-> NextId, event |-> e, tries |-> 0]}
      BY <1>2 DEF InsertRow
    <2> DEFINE new == [id |-> NextId, event |-> e, tries |-> 0]
    <2>2. {r.event : r \in queue}' = {r.event : r \in queue} \cup {e}
      <3>1. new.event = e /\ queue' = queue \cup {new}
        BY <2>1
      <3> HIDE DEF new
      <3>2. {r.event : r \in queue \cup {new}} = {r.event : r \in queue} \cup {e}
        BY <3>1
      <3> QED BY <3>1, <3>2
    <2> QED BY <2>2 DEF Promise!Take
  <1> QED BY <1>1, <1>2

\* The events that were taken, in the terms of the outbox and in those of the spool.
LEMMA TakenIsStored ==
    ASSUME TypeOK, NEW S, \A e \in S : Stored(e)
    PROVE  S \in SUBSET Promise!Taken
  BY DEF Stored, Promise!Taken

\* The batch of a writer is delivered, or fails.
LEMMA BatchStep ==
    ASSUME IInv, CopiesStored, NEW p \in Process, InsertMain(p) \/ Confirm(p)
    PROVE  \/ \E S \in SUBSET Promise!Taken : Promise!Deliver(S) \/ Promise!Fail(S)
           \/ UNCHANGED <<Waiting, main, dead, fails>>
  <1>1. Events(p) \in SUBSET Promise!Taken
    BY TakenIsStored DEF CopiesStored, IInv
  <1>2. UNCHANGED <<queue, dead>>
    BY DEF InsertMain, Confirm, FlushOnly, spool
  <1>3. CASE main' = main \cup Events(p) /\ UNCHANGED fails
    BY <1>1, <1>2, <1>3 DEF Promise!Deliver
  <1>4. CASE NoteFailure(p) /\ UNCHANGED main
    BY <1>1, <1>2, <1>4 DEF Promise!Fail, NoteFailure
  <1>5. CASE UNCHANGED <<main, fails>>
    BY <1>2, <1>5 DEF Waiting
  <1> QED BY <1>3, <1>4, <1>5 DEF InsertMain, Confirm

\* The rows that go are those of delivered events.
LEMMA SettleReleases ==
    ASSUME IInv, NEW p \in Process, Settle(p)
    PROVE  \E S \in SUBSET Promise!Taken : Promise!Release(S)
  <1> DEFINE gone == {r \in queue : r.id \in Ids(p)}
             S    == {r.event : r \in gone}
  <1>1. queue' = queue \ gone /\ UNCHANGED <<main, dead, fails>>
    BY DEF Settle, FlushOnly
  <1>2. ASSUME NEW r \in gone PROVE r.event \in main
    <2>1. PICK q \in writer[p].rows : q.id = r.id
      BY DEF Ids
    <2>2. q.event = r.event
      BY <2>1 DEF IInv, IdsInv
    <2> QED BY <2>2 DEF IInv, DeliveredInv, Events, Settle
  <1>3. \A q \in queue : \A r \in gone : q.event = r.event => q \in gone
    BY DEF IInv, TypeOK
  <1> HIDE DEF gone
  <1>4. {r.event : r \in queue}' = {r.event : r \in queue} \ S
    BY <1>1, <1>3
  <1>5. S \subseteq main
    BY <1>2
  <1> HIDE DEF S
  <1>6. S \in SUBSET Promise!Taken
    BY <1>5 DEF Promise!Taken
  <1> QED BY <1>1, <1>4, <1>5, <1>6 DEF Promise!Release

\* What becomes a dead letter has failed often enough, and only its row goes.
LEMMA MarkGivesUp ==
    ASSUME IInv, CopiesStored, NEW p \in Process, MarkFailures(p)
    PROVE  \E S \in SUBSET Promise!Taken : Promise!GiveUp(S)
  <1> DEFINE rows  == writer[p].rows
             given == {r \in rows : Exhausted(r)}
             again == rows \ given
             retried(r) == {[r EXCEPT !.tries = q.tries + 1] : q \in {q \in again : q.id = r.id}}
             S     == {r.event : r \in given}
             lost  == {r \in queue : \E q \in given : q.id = r.id}
             gone  == {r.event : r \in lost}
  <1>1. /\ writer[p].pc = "failed"
        /\ dead' = dead \cup S
        /\ queue' = {r \in queue : r.id \notin Ids(p)} \cup UNION {retried(r) : r \in queue}
        /\ UNCHANGED <<main, fails>>
    BY DEF MarkFailures, FlushOnly
  <1>2. \A r \in rows : r \in Row /\ r.tries < fails[r.event] /\ fails[r.event] \in Nat
    BY <1>1 DEF IInv, TypeOK, WriterSet, CountsInv, Row
  <1>3. \A e \in S : fails[e] >= MaxRetries
    BY <1>2, SizeAssumption DEF Exhausted, Row
  <1>4. S \in SUBSET Promise!Taken
    <2>1. S \subseteq Events(p)
      BY DEF Events
    <2>2. \A e \in S : Stored(e)
      BY <2>1 DEF CopiesStored
    <2> QED BY <2>2, TakenIsStored DEF IInv
  <1>5. \A r \in queue : \A q \in rows :
           q.id = r.id => /\ q.event = r.event
                          /\ [r EXCEPT !.tries = q.tries + 1].event = r.event
    BY <1>2 DEF IInv, IdsInv, TypeOK, Row
  <1>6. gone \in SUBSET S
    BY <1>5
  <1>7. \A q, x \in rows : q.id = x.id => q = x
    BY DEF IInv, IdsInv
  <1>8. \A r, q \in queue : r.event = q.event => r = q
    BY DEF IInv, TypeOK
  <1>9. ASSUME NEW r \in queue, r \notin lost
        PROVE  \E s \in queue' : s.event = r.event
    <2>1. CASE r.id \notin Ids(p)
      BY <1>1, <2>1
    <2>2. CASE r.id \in Ids(p)
      <3>1. PICK q \in rows : q.id = r.id
        BY <2>2 DEF Ids
      <3>2. q \in again
        BY <1>9, <3>1
      <3>3. [r EXCEPT !.tries = q.tries + 1] \in retried(r)
        BY <3>1, <3>2
      <3>4. [r EXCEPT !.tries = q.tries + 1].event = r.event
        BY <1>5, <3>1
      <3> HIDE DEF retried
      <3>5. [r EXCEPT !.tries = q.tries + 1] \in queue'
        BY <1>1, <3>3
      <3> QED BY <3>4, <3>5
    <2> QED BY <2>1, <2>2
  <1>10. ASSUME NEW s \in queue'
         PROVE  \E r \in queue : r \notin lost /\ s.event = r.event
    <2>1. CASE s \in queue /\ s.id \notin Ids(p)
      BY <2>1 DEF Ids
    <2>2. CASE \E r \in queue : s \in retried(r)
      <3>1. PICK r \in queue : s \in retried(r)
        BY <2>2
      <3>2. PICK q \in again : q.id = r.id /\ s = [r EXCEPT !.tries = q.tries + 1]
        BY <3>1
      <3>3. r \notin lost
        BY <1>7, <3>2
      <3> QED BY <1>5, <3>2, <3>3
    <2> HIDE DEF retried
    <2>3. s \in {r \in queue : r.id \notin Ids(p)} \/ s \in UNION {retried(r) : r \in queue}
      BY <1>1
    <2> QED BY <2>1, <2>2, <2>3
  <1> HIDE DEF lost
  <1>11. {r.event : r \in queue}' = {r.event : r \in queue} \ gone
    <2>1. ASSUME NEW s \in queue' PROVE s.event \in {r.event : r \in queue} \ gone
      <3>1. PICK r \in queue : r \notin lost /\ s.event = r.event
        BY <1>10
      <3>2. \A q \in lost : q.event # r.event
        BY <1>8, <3>1 DEF lost
      <3> QED BY <3>1, <3>2
    <2>2. ASSUME NEW r \in queue, r.event \notin gone PROVE \E s \in queue' : s.event = r.event
      BY <1>9, <2>2
    <2> HIDE DEF gone
    <2>3. {s.event : s \in queue'} = {r.event : r \in queue} \ gone
      BY <2>1, <2>2
    <2> QED BY <2>3
  <1> HIDE DEF S, gone
  <1> QED BY <1>1, <1>3, <1>4, <1>6, <1>11 DEF Promise!GiveUp

\* Every step is one of the outbox, or none.
LEMMA StepRefines ==
    ASSUME IInv, CopiesStored, [Next]_vars
    PROVE  [Promise!Next]_(Promise!vars)
  <1>1. ASSUME UNCHANGED <<queue, main, dead, fails>> PROVE UNCHANGED Promise!vars
    BY <1>1 DEF Promise!vars
  <1>2. ASSUME NEW e \in Event, Promise!Take(e) PROVE Promise!Next
    BY <1>2 DEF Promise!Next
  <1>3. ASSUME NEW e \in Event, NEW p \in Process, Submit(e, p)
        PROVE  [Promise!Next]_(Promise!vars)
    BY <1>1, <1>2, <1>3, InsertTakes DEF Submit
  <1>4. ASSUME NEW e \in Event, OpenForAppend(e) \/ AppendLine(e) \/ AppendFails(e)
        PROVE  UNCHANGED <<queue, main, dead, fails>>
    BY <1>4 DEF OpenForAppend, AppendLine, AppendFails, spool
  <1>5. ASSUME NEW p \in Process, ReadLine(p)
        PROVE  [Promise!Next]_(Promise!vars)
    <2>1. PICK e \in lines[writer[p].file] :
             InsertRow(e) \/ UNCHANGED <<queue, lastId>>
      BY <1>5 DEF ReadLine
    <2>2. e \in Event
      BY <1>5, <2>1 DEF ReadLine, IInv, HandlesInv, TypeOK
    <2>3. UNCHANGED <<dead, main, fails>>
      BY <1>5 DEF ReadLine
    <2> QED BY <1>1, <1>2, <2>1, <2>2, <2>3, InsertTakes
  <1>6. ASSUME NEW p \in Process,
               \/ Start(p) \/ Crash(p) \/ RecoveryFails(p) \/ SpoolFails(p) \/ Select(p)
               \/ Glob(p) \/ Rename(p) \/ OpenProcessing(p) \/ EndOfFile(p) \/ Unlink(p)
               \/ PutBack(p) \/ Repair(p)
        PROVE  UNCHANGED <<queue, main, dead, fails>>
    BY <1>6 DEF Start, Crash, RecoveryFails, SpoolFails, Select, Glob, Rename, OpenProcessing,
                EndOfFile, Unlink, PutBack, Repair, RecoveryOnly, FlushOnly, spool
  <1>7. ASSUME NEW p \in Process, InsertMain(p) \/ Confirm(p)
        PROVE  [Promise!Next]_(Promise!vars)
    <2>1. CASE UNCHANGED <<Waiting, main, dead, fails>>
      BY <2>1 DEF Waiting, Promise!vars
    <2> QED BY <1>7, <2>1, BatchStep DEF Promise!Next
  <1>8. ASSUME NEW p \in Process, Settle(p) \/ MarkFailures(p)
        PROVE  Promise!Next
    BY <1>8, SettleReleases, MarkGivesUp DEF Promise!Next
  <1>9. CASE UNCHANGED vars
    BY <1>1, <1>9 DEF vars, spool
  <1> QED BY <1>1, <1>3, <1>4, <1>5, <1>6, <1>7, <1>8, <1>9 DEF Next, Recover, Flush

\* The copies of a writer come from the spool, and what is stored stays stored.
LEMMA CopiesStep ==
    ASSUME IInv, CopiesStored, [Next]_vars
    PROVE  CopiesStored'
  <1>1. StoredStays
    <2>1. ASSUME UNCHANGED <<queue, main, dead>> PROVE StoredStays
      BY <2>1 DEF StoredStays, Stored
    <2>2. ASSUME NEW e \in Event, InsertRow(e), UNCHANGED <<dead, main, fails>> PROVE StoredStays
      BY <2>2, Inserted DEF StoredStays
    <2>3. ASSUME NEW e \in Event, NEW p \in Process, Submit(e, p) PROVE StoredStays
      BY <2>1, <2>2, <2>3 DEF Submit
    <2>4. ASSUME NEW e \in Event, OpenForAppend(e) \/ AppendLine(e) \/ AppendFails(e)
          PROVE  StoredStays
      BY <2>1, <2>4 DEF OpenForAppend, AppendLine, AppendFails, spool
    <2>5. ASSUME NEW p \in Process, ReadLine(p) PROVE StoredStays
      <3>1. PICK e \in lines[writer[p].file] :
               InsertRow(e) \/ UNCHANGED <<queue, lastId>>
        BY <2>5 DEF ReadLine
      <3>2. e \in Event
        BY <2>5, <3>1 DEF ReadLine, IInv, HandlesInv, TypeOK
      <3>3. UNCHANGED <<dead, main, fails>>
        BY <2>5 DEF ReadLine
      <3> QED BY <2>1, <2>2, <3>1, <3>2, <3>3
    <2>6. ASSUME NEW p \in Process,
                 \/ Start(p) \/ Crash(p) \/ RecoveryFails(p) \/ SpoolFails(p)
                 \/ Glob(p) \/ Rename(p) \/ OpenProcessing(p) \/ EndOfFile(p) \/ Unlink(p)
                 \/ PutBack(p) \/ Repair(p)
          PROVE  StoredStays
      BY <2>1, <2>6 DEF Start, Crash, RecoveryFails, SpoolFails, Glob, Rename, OpenProcessing,
                        EndOfFile, Unlink, PutBack, Repair, RecoveryOnly, spool
    <2>7. ASSUME NEW p \in Process, Flush(p) PROVE StoredStays
      BY <2>7, FlushStep
    <2>8. CASE UNCHANGED vars
      BY <2>1, <2>8 DEF vars, spool
    <2> QED BY <2>3, <2>4, <2>5, <2>6, <2>7, <2>8 DEF Next, Recover
  <1>2. ASSUME NEW p \in Process
        PROVE  writer'[p].rows \subseteq writer[p].rows \cup queue
    <2>1. writer \in [Process -> WriterSet] /\ writer[p].rows \in SUBSET Row
      BY DEF IInv, TypeOK, WriterSet
    <2>2. \A pc : Writer(pc).rows = {}
      BY DEF Writer
    <2>3. ASSUME NEW q \in Process, NEW pc, writer' = [writer EXCEPT ![q] = Writer(pc)]
          PROVE  writer'[p].rows \subseteq writer[p].rows
      BY <2>1, <2>2, <2>3
    <2>4. ASSUME NEW q \in Process, NEW pc, writer' = [writer EXCEPT ![q].pc = pc]
          PROVE  writer'[p].rows = writer[p].rows
      BY <2>1, <2>4 DEF WriterSet
    <2>5. ASSUME NEW q \in Process, Select(q)
          PROVE  writer'[p].rows \subseteq writer[p].rows \cup queue
      <3>1. PICK due \in DueSets :
              writer' = [writer EXCEPT ![q].pc = "insert", ![q].rows = First(due)]
        BY <2>5 DEF Select
      <3>2. First(due) \subseteq queue
        BY DEF DueSets, First
      <3> QED BY <2>1, <3>1, <3>2 DEF WriterSet
    <2>6. ASSUME NEW q \in Process, OpenProcessing(q) \/ ReadLine(q)
          PROVE  writer'[p].rows = writer[p].rows
      <3>1. writer[q] \in WriterSet
        BY <2>1
      <3>2. ASSUME NEW w, w.rows = writer[q].rows, writer' = [writer EXCEPT ![q] = w]
            PROVE  writer'[p].rows = writer[p].rows
        BY <2>1, <3>2
      <3>3. CASE OpenProcessing(q)
        <4> DEFINE w == [writer[q] EXCEPT !.pc = IF proc = None THEN "repair" ELSE "read",
                                          !.file = proc]
        <4>1. w.rows = writer[q].rows /\ writer' = [writer EXCEPT ![q] = w]
          BY <3>1, <3>3 DEF OpenProcessing, WriterSet
        <4> HIDE DEF w
        <4> QED BY <4>1, <3>2
      <3>4. CASE ReadLine(q)
        <4>1. PICK e : \/ writer' = [writer EXCEPT ![q].seen = @ \cup {e}]
                       \/ writer' = [writer EXCEPT ![q].seen = @ \cup {e}, ![q].durable = FALSE]
          BY <3>4 DEF ReadLine
        <4> DEFINE v == [writer[q] EXCEPT !.seen = @ \cup {e}]
                   w == [writer[q] EXCEPT !.seen = @ \cup {e}, !.durable = FALSE]
        <4>2. v.rows = writer[q].rows /\ w.rows = writer[q].rows
          BY <3>1 DEF WriterSet
        <4>3. writer' = [writer EXCEPT ![q] = v] \/ writer' = [writer EXCEPT ![q] = w]
          BY <4>1
        <4> HIDE DEF v, w
        <4> QED BY <4>2, <4>3, <3>2
      <3> QED BY <2>6, <3>3, <3>4
    <2>7. ASSUME NEW q \in Process,
                 \/ Crash(q) \/ RecoveryFails(q) \/ SpoolFails(q) \/ EndOfFile(q)
                 \/ Settle(q) \/ MarkFailures(q)
          PROVE  writer'[p].rows \subseteq writer[p].rows
      BY <2>3, <2>7 DEF Crash, RecoveryFails, SpoolFails, EndOfFile, Settle, MarkFailures
    <2>8. ASSUME NEW q \in Process,
                 \/ Start(q) \/ Glob(q) \/ Rename(q) \/ Unlink(q) \/ Repair(q)
                 \/ InsertMain(q) \/ Confirm(q)
          PROVE  writer'[p].rows = writer[p].rows
      BY <2>4, <2>8 DEF Start, Glob, Rename, Unlink, Repair, Go, InsertMain, Confirm
    <2>9. ASSUME NEW q \in Process, PutBack(q)
          PROVE  writer'[p].rows = writer[p].rows
      BY <2>1, <2>4, <2>9 DEF PutBack, WriterSet
    <2>10. CASE UNCHANGED writer
      BY <2>10
    <2>11. ASSUME NEW e \in Event,
                  \/ \E q \in Process : Submit(e, q)
                  \/ OpenForAppend(e) \/ AppendLine(e) \/ AppendFails(e)
           PROVE  UNCHANGED writer
      BY <2>11 DEF Submit, OpenForAppend, AppendLine, AppendFails
    <2>12. CASE UNCHANGED vars
      BY <2>10, <2>12 DEF vars
    <2> QED BY <2>5, <2>6, <2>7, <2>8, <2>9, <2>10, <2>11, <2>12 DEF Next, Recover, Flush
  <1>3. ASSUME NEW p \in Process, NEW r \in writer'[p].rows
        PROVE  Stored(r.event)'
    <2>1. r.event \in Event
      BY Inductive DEF IInv, TypeOK, WriterSet, Row
    <2>2. CASE r \in queue
      BY <1>1, <2>1, <2>2 DEF StoredStays, Stored
    <2>3. CASE r \in writer[p].rows
      BY <1>1, <2>1, <2>3 DEF StoredStays, CopiesStored, Events
    <2> QED BY <1>2, <2>2, <2>3
  <1> QED BY <1>3 DEF CopiesStored, Events

\* The spool implements the outbox (ImplementsOutbox): whatever writers do with copies
\* of rows, whoever dies and whatever is recovered, an event leaves the spool only for the
\* main database or, after enough failures, for the dead letters.
THEOREM SpoolImplementsOutbox == Spec => ImplementsOutbox
  <1>1. Init => Promise!Init
    BY DEF Init, Promise!Init
  <1>2. Init => CopiesStored
    BY DEF Init, CopiesStored, Events, Writer
  <1>3. IInv /\ CopiesStored /\ [Next]_vars => CopiesStored'
    BY CopiesStep
  <1>4. IInv /\ CopiesStored /\ [Next]_vars => [Promise!Next]_(Promise!vars)
    BY StepRefines
  <1> QED BY <1>1, <1>2, <1>3, <1>4, Invariance, PTL DEF Spec, ImplementsOutbox, Promise!Spec
=============================================================================
