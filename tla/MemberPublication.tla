------------------------- MODULE MemberPublication -------------------------
(***************************************************************************)
(* The members' table of Feishu (services/feishu_sync_service.py, its      *)
(* client integrations/feishu/bitable.py and services/process_lock.py).    *)
(* The local database is the authority: all members are published every    *)
(* few minutes, one member after each change, and the rows that visitors   *)
(* fill in are imported when an administrator asks for it.                 *)
(*                                                                         *)
(* All of this is done under one lock of the operating system; who does    *)
(* not get it gives up, and the next publication of all makes up for it.   *)
(* What a row shows is abstracted to the member, the person whose contact  *)
(* data it has, and the edition of the member's local data, 0 in what a    *)
(* visitor has filled in. A call of the remote service that fails may have *)
(* taken effect, and a listing that fails halfway is used as far as it     *)
(* got.                                                                    *)
(***************************************************************************)
EXTENDS Naturals, FiniteSets, Sequences

CONSTANTS
    Publishers,     \* threads that publish or import
    Members,        \* user ids, 1, 2, ...
    People,         \* people, by their contact data
    MaxSheet,       \* bound: rows of the remote table
    MaxEdition,     \* bound: editions of a member's data
    MaxFailures     \* bound: calls of the remote service that fail

NoMember == 0
NoPerson == "no person"
NoPublisher == "no publisher"

ASSUME NamesAssumption ==
    /\ Members \subseteq Nat /\ NoMember \notin Members
    /\ NoPerson \notin People /\ NoPublisher \notin Publishers
ASSUME BoundsAssumption == {MaxSheet, MaxFailures} \subseteq Nat /\ MaxEdition \in Nat \ {0}

VARIABLES
    profile,    \* local: whose contact data a member has had, edition by
                \* edition; the last is in force, and <<>> is no member
    applicants, \* people whose registration has found nobody with their data
    sheet,      \* the rows of the remote table
    filled,     \* history: the rows that visitors have added
    missed,     \* history: searches that have not found the row of a member
    fileLock,   \* the publisher that has the lock
    job,        \* each publisher: where it is, the members it has still to
                \* publish, their editions as it has read them, the rows it has
                \* still to import, the member and the row at hand (0: a new
                \* one), whether no write is reported as failed
    failures    \* calls that have failed

memberVars == <<profile, applicants, sheet, filled, missed, fileLock, job, failures>>

SheetRows == 1..MaxSheet
NoSheetRow == [member |-> NoMember, person |-> NoPerson, edition |-> 0]
NoJob == [at |-> "idle", todo |-> {}, read |-> [u \in Members |-> 0], records |-> {},
          member |-> NoMember, row |-> 0, good |-> TRUE]

Edition(u) == Len(profile[u])
Known == {u \in Members : Edition(u) > 0}
Listed == {r \in SheetRows : sheet[r] # NoSheetRow}

\* Empty contact data find nobody.
OfPerson(q) == {u \in Known : q # NoPerson /\ profile[u][Edition(u)] = q}
RowsOf(u) == {r \in SheetRows : sheet[r].member = u}

MembersInit ==
    /\ profile = [u \in Members |-> <<>>]
    /\ applicants = {}
    /\ sheet = [r \in SheetRows |-> NoSheetRow]
    /\ filled = {}
    /\ missed = [u \in Members |-> 0]
    /\ fileLock = NoPublisher
    /\ job = [p \in Publishers |-> NoJob]
    /\ failures = 0

-----------------------------------------------------------------------------
(* The local database and the visitors. *)

Created(q) ==
    \E u \in Members \ Known :
       /\ \A v \in Members \ Known : u <= v
       /\ profile' = [profile EXCEPT ![u] = <<q>>]

Remote == <<sheet, filled, missed, failures>>

\* register_user and register_verified_user: nothing holds the contact data
\* between the look and the INSERT.
Apply(q) ==
    /\ OfPerson(q) = {}
    /\ applicants' = applicants \cup {q}
    /\ UNCHANGED <<profile, Remote, fileLock, job>>

Register(q) ==
    /\ q \in applicants
    /\ Created(q)
    /\ applicants' = applicants \ {q}
    /\ UNCHANGED <<Remote, fileLock, job>>

\* update_user_profile, and every other change of what is published.  Another
\* member's nickname is accepted, and nothing holds the other contact data
\* between the look and the UPDATE.
ChangeMember(u, q) ==
    /\ u \in Known /\ Edition(u) < MaxEdition
    /\ profile' = [profile EXCEPT ![u] = Append(@, q)]
    /\ UNCHANGED <<applicants, Remote, fileLock, job>>

NextRow(r) == sheet[r] = NoSheetRow /\ \A s \in 1..r - 1 : sheet[s] # NoSheetRow

\* A visitor fills in a row of the table, with any contact data and user id.
FillIn(q, u) ==
    /\ q # NoPerson \/ u # NoMember
    /\ \E r \in SheetRows :
          /\ NextRow(r)
          /\ sheet' = [sheet EXCEPT ![r] = [member |-> u, person |-> q, edition |-> 0]]
          /\ filled' = filled \cup {r}
    /\ UNCHANGED <<profile, applicants, missed, fileLock, job, failures>>

-----------------------------------------------------------------------------
(* Publishing *)

Working(p, stage) == job[p].at = stage /\ UNCHANGED applicants

\* Mutant of the next operator: publications do not look at the lock.
TakenAnyway(p) == fileLock' = p

\* process_lock with a timeout of 0.
Taken(p) == fileLock = NoPublisher /\ fileLock' = p

LocalAndRemote == <<profile, Remote>>

BeginPublish(p, todo) ==
    /\ Working(p, "idle")
    /\ Taken(p)
    /\ job' = [job EXCEPT ![p] = [NoJob EXCEPT !.at = "read", !.todo = todo]]
    /\ UNCHANGED LocalAndRemote

\* _get_local_member_rows: all members at once, before the first is published.
ReadMembers(p) ==
    /\ Working(p, "read")
    /\ job' = [job EXCEPT ![p].at = "publish", ![p].todo = @ \cap Known,
                          ![p].read = [u \in Members |-> IF u \in job[p].todo THEN Edition(u) ELSE 0]]
    /\ UNCHANGED <<LocalAndRemote, fileLock>>

\* list_all_records returns the rows it got when a page failed.
Listing(p, rows) ==
    \/ rows = Listed /\ UNCHANGED failures
    \/ /\ failures < MaxFailures /\ failures' = failures + 1
       /\ \E n \in 0..MaxSheet : rows = {r \in Listed : r <= n} /\ rows # Listed

\* find_record_by_user_id lists the table for every member.
FindRow(p, u) ==
    /\ Working(p, "publish") /\ u \in job[p].todo
    /\ \E rows \in SUBSET Listed :
          LET found == {r \in rows : sheet[r].member = u}
          IN  /\ Listing(p, rows)
              /\ job' = [job EXCEPT ![p].at = "upsert", ![p].todo = @ \ {u}, ![p].member = u,
                            ![p].row = IF found = {} THEN 0
                                       ELSE CHOOSE r \in found : \A s \in found : r <= s]
              /\ missed' = IF found = {} /\ RowsOf(u) # {} THEN [missed EXCEPT ![u] = @ + 1] ELSE missed
    /\ UNCHANGED <<profile, sheet, filled, fileLock>>

\* What is shown is what has been read.
Entry(p) ==
    LET u == job[p].member
    IN  [member |-> u, person |-> profile[u][job[p].read[u]], edition |-> job[p].read[u]]

\* update_record or add_record
EntryPut(p) ==
    IF job[p].row = 0
    THEN \E r \in SheetRows : NextRow(r) /\ sheet' = [sheet EXCEPT ![r] = Entry(p)]
    ELSE sheet' = [sheet EXCEPT ![job[p].row] = Entry(p)]

\* A call that is reported as failed may have reached the table.
WriteRow(p, from, next) ==
    /\ Working(p, from)
    /\ \E good \in BOOLEAN :
          /\ IF good THEN EntryPut(p) /\ UNCHANGED failures
             ELSE /\ failures < MaxFailures /\ failures' = failures + 1
                  /\ EntryPut(p) \/ UNCHANGED sheet
          /\ job' = [job EXCEPT ![p].at = next, ![p].member = NoMember, ![p].row = 0,
                                ![p].good = @ /\ good]
    /\ UNCHANGED <<profile, filled, missed, fileLock>>

Upsert(p) == WriteRow(p, "upsert", "publish")

Unlocked(p) ==
    /\ job' = [job EXCEPT ![p] = NoJob]
    /\ fileLock' = IF fileLock = p THEN NoPublisher ELSE fileLock
    /\ UNCHANGED LocalAndRemote

EndPublish(p) == Working(p, "publish") /\ job[p].todo = {} /\ Unlocked(p)

\* The process dies, and the operating system frees the lock.
PublisherDies(p) ==
    /\ job[p].at # "idle"
    /\ Working(p, job[p].at)
    /\ Unlocked(p)

-----------------------------------------------------------------------------
(* Importing *)

BeginImport(p) ==
    /\ Working(p, "idle")
    /\ Taken(p)
    /\ job' = [job EXCEPT ![p] = [NoJob EXCEPT !.at = "records"]]
    /\ UNCHANGED LocalAndRemote

ReadRecords(p) ==
    /\ Working(p, "records")
    /\ \E rows \in SUBSET Listed :
          /\ Listing(p, rows)
          /\ job' = [job EXCEPT ![p].at = "import", ![p].records = rows]
    /\ UNCHANGED <<profile, sheet, filled, missed, fileLock>>

\* Mutant of the next operator: the contact data decide, even against the user id.
OwnersByPerson(r) ==
    LET byPerson == OfPerson(sheet[r].person)
    IN  IF Cardinality(byPerson) > 1 THEN {}
        ELSE IF byPerson = {} THEN {sheet[r].member} \cap Known ELSE byPerson

\* The members a row may belong to: by the contact data, and by the user id
\* unless they contradict each other.
Owners(r) ==
    LET byPerson == OfPerson(sheet[r].person)
        byId == {sheet[r].member} \cap Known
    IN  IF Cardinality(byPerson) > 1 THEN {}
        ELSE IF byId = {} THEN byPerson
        ELSE IF byPerson \subseteq byId THEN byId ELSE {}

IsNew(r) ==
    sheet[r].person # NoPerson /\ OfPerson(sheet[r].person) = {} /\ sheet[r].member \notin Known

LinkRecord(p, r) ==
    /\ Working(p, "import")
    /\ r \in job[p].records /\ \A s \in job[p].records : r <= s
    /\ \/ IsNew(r) /\ job' = [job EXCEPT ![p].at = "create", ![p].row = r, ![p].records = @ \ {r}]
       \/ /\ ~IsNew(r) /\ Owners(r) = {}     \* a conflict, or nothing to go by
          /\ job' = [job EXCEPT ![p].records = @ \ {r}]
       \/ \E u \in Owners(r) :
             job' = [job EXCEPT ![p].at = "fetch", ![p].row = r, ![p].records = @ \ {r}, ![p].member = u]
    /\ UNCHANGED <<LocalAndRemote, fileLock>>

\* _create_feishu_user_atomic looks at nothing again.
CreateMember(p) ==
    /\ Working(p, "create")
    /\ Created(sheet[job[p].row].person)
    /\ job' = [job EXCEPT ![p].at = "fetch",
                  ![p].member = CHOOSE u \in Members \ Known : \A v \in Members \ Known : u <= v]
    /\ UNCHANGED <<Remote, fileLock>>

\* _writeback_authoritative_member_record
FetchMember(p) ==
    /\ Working(p, "fetch")
    /\ job' = [job EXCEPT ![p].at = "writeback", ![p].read[job[p].member] = Edition(job[p].member)]
    /\ UNCHANGED <<LocalAndRemote, fileLock>>

WriteBack(p) == WriteRow(p, "writeback", "import")

EndImport(p) == Working(p, "import") /\ job[p].records = {} /\ Unlocked(p)

Publisher(p) ==
    \/ \E todo \in {Members} \cup {{u} : u \in Known} : BeginPublish(p, todo)
    \/ ReadMembers(p) \/ (\E u \in Members : FindRow(p, u)) \/ Upsert(p) \/ EndPublish(p)
    \/ BeginImport(p) \/ ReadRecords(p) \/ (\E r \in SheetRows : LinkRecord(p, r))
    \/ CreateMember(p) \/ FetchMember(p) \/ WriteBack(p) \/ EndImport(p)
    \/ PublisherDies(p)

MembersNext ==
    \/ \E p \in Publishers : Publisher(p)
    \/ \E q \in People : Apply(q) \/ Register(q)
    \/ \E u \in Members, q \in People \cup {NoPerson} : ChangeMember(u, q)
    \/ \E u \in Members \cup {NoMember}, q \in People \cup {NoPerson} : FillIn(q, u)

MembersSpec == MembersInit /\ [][MembersNext]_memberVars

-----------------------------------------------------------------------------

MembersTypeOK ==
    /\ profile \in [Members -> Seq(People \cup {NoPerson})]
    /\ \A u \in Members : Edition(u) <= MaxEdition
    /\ applicants \subseteq People
    /\ sheet \in [SheetRows -> [member : Members \cup {NoMember}, person : People \cup {NoPerson},
                                edition : 0..MaxEdition]]
    /\ filled \subseteq Listed
    /\ missed \in [Members -> 0..MaxFailures]
    /\ fileLock \in Publishers \cup {NoPublisher}
    /\ \A p \in Publishers :
          /\ job[p].at \in {"idle", "read", "publish", "upsert", "records", "import", "create",
                            "fetch", "writeback"}
          /\ job[p].todo \subseteq Members /\ job[p].records \subseteq SheetRows
          /\ job[p].row \in 0..MaxSheet /\ job[p].member \in Members \cup {NoMember}
          /\ job[p].at # "idle" => fileLock = p
    /\ failures \in 0..MaxFailures

\* The table follows the local database although several processes publish, and
\* import, and none of them holds the data it has read.
\*   - However often a listing is cut, each row that has been added for a member
\*     beyond the first is one that a search has missed; the other rows are
\*     those of visitors.
\*   - A row that shows a member goes on to show this member, as of one of its
\*     editions, and never an older one, whatever contact data the member takes
\*     over and whatever ids visitors fill in.
\*   - A publication that reports no failure leaves every member it has read in
\*     a row at least as new as it has read it.
Shows(r) == sheet[r].edition > 0

TableFollows ==
    /\ [](\A u \in Members : Cardinality(RowsOf(u) \ filled) <= 1 + missed[u])
    /\ [][/\ \A r \in SheetRows : Shows(r) =>
               LET shown == sheet'[r]
               IN  /\ shown.member = sheet[r].member /\ shown.edition >= sheet[r].edition
                   /\ shown.person = profile[shown.member][shown.edition]
          /\ \A p \in Publishers :
               job[p].at = "publish" /\ job[p].good /\ job[p].todo = {} /\ job'[p].at = "idle" =>
                   \A u \in Members : job[p].read[u] > 0 =>
                       \E r \in RowsOf(u) : sheet[r].edition >= job[p].read[u]
         ]_memberVars
=============================================================================
