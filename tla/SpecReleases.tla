---------------------------- MODULE SpecReleases ----------------------------
(***************************************************************************)
(* The versioned specifications of the interface tester                    *)
(* (services/market_interface_spec_service.py): directories of releases, a *)
(* pointer to the one in effect, a candidate whose interfaces are published*)
(* in portions, and presets that are saved as releases of their own.       *)
(*                                                                         *)
(* Every request of an administrator has a service object of its own, an   *)
(* editor.  The runs of tests share one object per process and with it the *)
(* two fields of its cache; their threads are the readers.  Nothing but    *)
(* the replacement of a file is atomic.  A specification is abstracted to  *)
(* the release that introduced it, and as the file of a release is written *)
(* once, rows that have been read to the version they were read from.      *)
(***************************************************************************)
EXTENDS Naturals, FiniteSets

CONSTANTS
    Editors,        \* requests that publish or save a preset
    Readers,        \* threads that use the shared object
    Apis,           \* the interfaces; the candidate has all of them
    MaxReleases     \* bound: releases after the seed

ASSUME ReleaseAssumption == MaxReleases \in Nat /\ Apis # {}

VARIABLES
    releases,   \* effective_specs.json of each release directory
    pointer,    \* current.json
    published,  \* published_interfaces in the manifest of the candidate
    edit,       \* each editor: where it is, the interfaces it publishes, the
                \* version whose rows it merges with, the release it writes,
                \* published_interfaces as it has read them
    cached,     \* _cache_version and _cache_specs of the shared object
    load,       \* each reader: where it is, the version it has read from the
                \* pointer
    latest,     \* the last publication of each interface (history)
    overlapped, \* a release was put over one its editor had not read (history)
    cutShort,   \* interfaces whose publication ended before its last step (history)
    crossed,    \* the cache was written while a reader was within it (history)
    outdated    \* a reader got rows older than the version it asked for (history)

fileVars == <<releases, pointer, published>>
readerVars == <<cached, load, crossed, outdated>>
releaseVars == <<fileVars, edit, readerVars, latest, overlapped, cutShort>>

Seed == 0
Versions == Seed..MaxReleases
Nothing == MaxReleases + 1      \* no version, no rows
Rows == [Apis -> Versions]
NoDirectory == [a \in Apis |-> MaxReleases + 2]
Empty == [a \in Apis |-> MaxReleases + 3]     \* a directory without the file

NoEdit == [at |-> "idle", wanted |-> {}, base |-> Seed, version |-> Seed, noted |-> {}]
NoLoad == [at |-> "idle", asked |-> Seed]

ReleaseInit ==
    /\ releases = [v \in Versions |-> IF v = Seed THEN [a \in Apis |-> Seed] ELSE NoDirectory]
    /\ pointer = Seed
    /\ published = {}
    /\ edit = [e \in Editors |-> NoEdit]
    /\ cached = [version |-> Nothing, rows |-> Nothing]
    /\ load = [r \in Readers |-> NoLoad]
    /\ latest = [a \in Apis |-> Seed]
    /\ overlapped = FALSE /\ crossed = FALSE /\ outdated = FALSE /\ cutShort = {}

-----------------------------------------------------------------------------
(* Publications and presets. *)

At(e, stage) == edit[e].at = stage /\ UNCHANGED readerVars

EditStep(e, from, next) == At(e, from) /\ edit' = [edit EXCEPT ![e].at = next]

\* publish_candidate_selection of some interfaces, or save_interface_preset of
\* one: both load the specifications in effect first.
BeginEdit(e, apis) ==
    /\ At(e, "idle")
    /\ edit' = [edit EXCEPT ![e] = [NoEdit EXCEPT !.at = "loaded", !.wanted = apis, !.base = pointer]]
    /\ UNCHANGED <<fileVars, latest, overlapped, cutShort>>

\* The name of a release has the second and the interfaces in it: it is new,
\* or the edit is refused.
MakeDirectory(e) ==
    /\ At(e, "loaded")
    /\ \/ \E v \in Versions :
             /\ releases[v] = NoDirectory /\ \A w \in 0..v - 1 : releases[w] # NoDirectory
             /\ releases' = [releases EXCEPT ![v] = Empty]
             /\ edit' = [edit EXCEPT ![e].at = "writing", ![e].version = v]
       \/ /\ \E v \in Versions \ {Seed} : releases[v] # NoDirectory
          /\ edit' = [edit EXCEPT ![e] = NoEdit]
          /\ UNCHANGED releases
    /\ UNCHANGED <<pointer, published, overlapped, cutShort, latest>>

Merged(e) ==
    [a \in Apis |-> IF a \in edit[e].wanted THEN edit[e].version
                    ELSE releases[edit[e].base][a]]

\* effective_specs.json.  A preset goes on to the pointer, a publication to the
\* manifest of its candidate.
WriteSpecs(e) ==
    /\ \/ EditStep(e, "writing", "noting")
       \/ Cardinality(edit[e].wanted) = 1 /\ EditStep(e, "writing", "switching")
    /\ releases' = [releases EXCEPT ![edit[e].version] = Merged(e)]
    /\ UNCHANGED <<pointer, published, overlapped, cutShort, latest>>

ReadManifest(e) ==
    /\ At(e, "noting")
    /\ edit' = [edit EXCEPT ![e].at = "noted", ![e].noted = published \cup edit[e].wanted]
    /\ UNCHANGED <<fileVars, overlapped, cutShort, latest>>

WriteManifest(e) ==
    /\ EditStep(e, "noted", "switching")
    /\ published' = edit[e].noted
    /\ UNCHANGED <<releases, pointer, overlapped, cutShort, latest>>

\* current.json
Switch(e) ==
    /\ At(e, "switching") /\ edit' = [edit EXCEPT ![e] = NoEdit]
    /\ pointer' = edit[e].version
    /\ latest' = [a \in Apis |-> IF a \in edit[e].wanted THEN edit[e].version ELSE latest[a]]
    /\ overlapped' = (overlapped \/ pointer # edit[e].base)
    /\ UNCHANGED <<releases, published, cutShort>>

\* The process dies, or a write fails and the exception ends the request.
Abandon(e) ==
    /\ edit[e].at # "idle"
    /\ At(e, edit[e].at)
    /\ edit' = [edit EXCEPT ![e] = NoEdit]
    /\ cutShort' = IF edit[e].at \in {"noted", "switching"} THEN cutShort \cup edit[e].wanted ELSE cutShort
    /\ UNCHANGED <<fileVars, overlapped, latest>>

-----------------------------------------------------------------------------
(* _load_specs of the shared object. *)

LoadStep(r, from, next) ==
    /\ load[r].at = from
    /\ load' = [load EXCEPT ![r].at = next]
    /\ UNCHANGED <<fileVars, edit, latest, overlapped, cutShort>>

ReadPointer(r) ==
    /\ load[r].at = "idle"
    /\ load' = [load EXCEPT ![r] = [at |-> "compare", asked |-> pointer]]
    /\ UNCHANGED <<fileVars, edit, cached, latest, overlapped, cutShort, crossed, outdated>>

\* Somebody else is between the two assignments, or has found the cache good
\* and not copied it yet.
Within(r, stages) == \E s \in Readers \ {r} : load[s].at \in stages

\* Mutant of the next action: the version is not compared.
CompareNothing(r) ==
    /\ IF cached.rows # Nothing THEN LoadStep(r, "compare", "copy") ELSE LoadStep(r, "compare", "read")
    /\ crossed' = (crossed \/ Within(r, {"half"}))
    /\ UNCHANGED <<cached, outdated>>

Compare(r) ==
    /\ IF cached.version = load[r].asked /\ cached.rows # Nothing
       THEN LoadStep(r, "compare", "copy") ELSE LoadStep(r, "compare", "read")
    /\ crossed' = (crossed \/ Within(r, {"half"}))
    /\ UNCHANGED <<cached, outdated>>

\* A load returns the rows, and the next one begins anew.
Returned(r, rows) ==
    /\ load' = [load EXCEPT ![r] = NoLoad]
    /\ outdated' = (outdated \/ rows < load[r].asked)
    /\ UNCHANGED <<fileVars, edit, latest, overlapped, cutShort>>

CopyRows(r) ==
    /\ load[r].at = "copy"
    /\ Returned(r, cached.rows)
    /\ UNCHANGED <<cached, crossed>>

\* The file of the version, and the first of the two assignments.
CacheVersion(r) ==
    /\ LoadStep(r, "read", "half")
    /\ cached' = [cached EXCEPT !.version = load[r].asked]
    /\ crossed' = (crossed \/ Within(r, {"half", "copy"}))
    /\ UNCHANGED outdated

CacheRows(r) ==
    /\ load[r].at = "half"
    /\ Returned(r, load[r].asked)
    /\ cached' = [cached EXCEPT !.rows = load[r].asked]
    /\ crossed' = (crossed \/ Within(r, {"half", "copy"}))

Edit(e) ==
    \/ \E apis \in SUBSET Apis \ {{}} : BeginEdit(e, apis)
    \/ MakeDirectory(e) \/ WriteSpecs(e) \/ ReadManifest(e) \/ WriteManifest(e)
    \/ Switch(e) \/ Abandon(e)

Load(r) == ReadPointer(r) \/ Compare(r) \/ CopyRows(r) \/ CacheVersion(r) \/ CacheRows(r)

ReleaseNext ==
    \/ \E e \in Editors : Edit(e)
    \/ \E r \in Readers : Load(r)

ReleaseSpec == ReleaseInit /\ [][ReleaseNext]_releaseVars

-----------------------------------------------------------------------------

ReleaseTypeOK ==
    /\ releases \in [Versions -> Rows \cup {NoDirectory, Empty}]
    /\ pointer \in Versions
    /\ published \subseteq Apis /\ cutShort \subseteq Apis
    /\ \A e \in Editors :
          /\ edit[e].at \in {"idle", "loaded", "writing", "noting", "noted", "switching"}
          /\ edit[e].wanted \subseteq Apis /\ edit[e].noted \subseteq Apis
          /\ edit[e].base \in Versions /\ edit[e].version \in Versions
    /\ cached \in [version : Versions \cup {Nothing}, rows : Versions \cup {Nothing}]
    /\ load \in [Readers -> [at : {"idle", "compare", "copy", "read", "half"}, asked : Versions]]
    /\ latest \in [Apis -> Versions]
    /\ overlapped \in BOOLEAN /\ crossed \in BOOLEAN /\ outdated \in BOOLEAN

\* The pointer never names a release without its file, although edits stop
\* halfway and their files are written one by one.  The release in effect has
\* the last publication of every interface; what a candidate calls published
\* is in effect, or its last step is under way; and a test that loads the
\* specifications gets those in effect when it began, or newer ones.  Three
\* cases are excepted by name: two edits at once (the second takes back the
\* first), a publication that ends between the manifest of its candidate and
\* the pointer, and threads that meet between the two assignments of the cache
\* (rows of one release stay under the name of another).
PublishedIsServed ==
    /\ releases[pointer] \in Rows
    /\ ~overlapped =>
        /\ releases[pointer] = latest
        /\ \A a \in published \ cutShort :
              \/ latest[a] # Seed
              \/ \E e \in Editors : edit[e].at = "switching" /\ a \in edit[e].wanted
        /\ ~crossed => ~outdated
=============================================================================
