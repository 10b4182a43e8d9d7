---------------------------- MODULE SpecMonitor ----------------------------
(***************************************************************************)
(* Alerts for changes of the official interface specifications             *)
(* (services/tushare_spec_monitor_service.py and _repository.py), for one  *)
(* interface: a scan compares the official page with the specification in  *)
(* effect and opens, supersedes or resolves alerts; an administrator makes *)
(* a candidate of an alert, publishes it and has the result verified.      *)
(*                                                                         *)
(* A specification is its semantic hash.  Scans exclude each other by a    *)
(* lease that may run out under a slow scan; every statement on the        *)
(* database is a transaction of its own, and the status of an alert is     *)
(* written without looking at the one it has.                              *)
(***************************************************************************)
EXTENDS Naturals

CONSTANTS
    Scanners,   \* the worker's scan and those asked for by administrators
    Admins,     \* requests that synchronise or publish
    MaxHash,    \* bound: the official specification is one of 0..MaxHash
    Drafts,     \* the candidates that can be made
    MaxMoves    \* bound: changes of the official page

ASSUME MonitorAssumption ==
    /\ {MaxHash, MaxMoves} \subseteq Nat
    /\ Scanners \cap Admins = {}

VARIABLES
    official,   \* what the official page says
    inEffect,   \* what the release in effect says
    alert,      \* the alert of each hash: its status and candidate_version
    draft,      \* the specification in each candidate
    scanLease,  \* owner of the monitor's lease
    scan,       \* each scan: where it is, the specification it compares with
                \* and the one it has fetched
    errand,     \* each request: where it is, the alerts it is about, its
                \* candidate, the specification it compares with and the fetched
    moves,      \* changes of the official page so far
    reported,   \* a scan has reported the difference there is, and no outdated
                \* reading has come after it (history)
    fresh       \* the scans and requests that neither a publication nor a report
                \* has overtaken since they read what is in effect (history)

reportVars == <<reported, fresh>>
monitorVars == <<official, inEffect, alert, draft, scanLease, scan, errand, moves, reportVars>>

Hashes == 0..MaxHash
Seeded == MaxHash + 1       \* the seed: not verified, so unlike any official one
NoDraft == MaxHash + 2
NoScanner == "no scanner"   \* nobody holds the lease

Pending == {"new", "viewed", "syncing", "candidate_ready", "published",
            "verification_failed", "failed"}
Closed == {"verified", "superseded"}
Resolvable == Pending \ {"candidate_ready", "published"}

NoScan == [at |-> "idle", current |-> Seeded, fetched |-> Seeded]
Done == [NoScan EXCEPT !.at = "done"]
NoErrand == [at |-> "idle", ids |-> {}, draft |-> NoDraft, current |-> Seeded, fetched |-> Seeded]

MonitorInit ==
    /\ official = 0
    /\ inEffect = Seeded
    /\ alert = [h \in Hashes |-> [status |-> "none", draft |-> NoDraft]]
    /\ draft = [d \in Drafts |-> NoDraft]
    /\ scanLease = NoScanner
    /\ scan = [s \in Scanners |-> NoScan]
    /\ errand = [a \in Admins |-> NoErrand]
    /\ moves = 0
    /\ reported = FALSE /\ fresh = {}

\* _mark_alerts
Marked(ids, status) == [h \in Hashes |-> IF h \in ids THEN [alert[h] EXCEPT !.status = status] ELSE alert[h]]

-----------------------------------------------------------------------------
(* scan *)

Scanning(s, stage) == scan[s].at = stage /\ UNCHANGED <<official, inEffect, draft, errand, moves>>

\* The targets are read before the lease is asked for.
ListTargets(s) ==
    /\ Scanning(s, "idle")
    /\ scan' = [scan EXCEPT ![s] = [NoScan EXCEPT !.at = "targets", !.current = inEffect]]
    /\ fresh' = fresh \cup {s}
    /\ UNCHANGED <<alert, scanLease, reported>>

\* Another scan can be under way when its lease has run out.
LeaseScan(s) ==
    /\ Scanning(s, "targets")
    /\ \/ /\ scanLease = NoScanner /\ scanLease' = s
          /\ scan' = [scan EXCEPT ![s].at = "leased"]
       \/ scanLease # NoScanner /\ scan' = [scan EXCEPT ![s] = NoScan] /\ UNCHANGED scanLease
    /\ UNCHANGED <<alert, reportVars>>

\* A page that cannot be fetched or parsed is counted and left.
FetchOfficial(s) ==
    /\ Scanning(s, "leased")
    /\ \/ scan' = [scan EXCEPT ![s].fetched = official,
                               ![s].at = IF official = scan[s].current THEN "same" ELSE "differs"]
       \/ scan' = [scan EXCEPT ![s] = Done]
    /\ UNCHANGED <<alert, scanLease, reportVars>>

\* supersede_other_alerts
Supersede(s) ==
    /\ Scanning(s, "differs")
    /\ scan' = [scan EXCEPT ![s].at = "superseded"]
    /\ alert' = Marked({h \in Hashes \ {scan[s].fetched} : alert[h].status \in Pending}, "superseded")
    /\ UNCHANGED <<scanLease, reportVars>>

Upserted(s, reopened) ==
    /\ Scanning(s, "superseded")
    /\ scan' = [scan EXCEPT ![s] = Done]
    /\ alert' = [alert EXCEPT ![scan[s].fetched] =
                    IF @.status \in reopened THEN [status |-> "new", draft |-> NoDraft] ELSE @]
    /\ reported' = (official = scan[s].fetched /\ inEffect = scan[s].current)
    /\ fresh' = {}
    /\ UNCHANGED scanLease

\* Mutant of the next action: an alert that is there is not opened again.
InsertOnly(s) == Upserted(s, {"none"})

\* upsert_change_alert
Upsert(s) == Upserted(s, {"none"} \cup Closed)

\* resolve_alerts_for_current_spec
Resolve(s) ==
    /\ Scanning(s, "same")
    /\ scan' = [scan EXCEPT ![s] = Done]
    /\ alert' = Marked({h \in Hashes : alert[h].status \in Resolvable}, "verified")
    /\ reported' = (reported /\ s \in fresh)
    /\ UNCHANGED <<scanLease, fresh>>

ReleaseScan(s) ==
    /\ Scanning(s, "done")
    /\ scan' = [scan EXCEPT ![s] = NoScan]
    /\ scanLease' = IF scanLease = s THEN NoScanner ELSE scanLease
    /\ UNCHANGED <<alert, reportVars>>

\* The process dies; what it did between the two statements on alerts stays.
ScanDies(s) ==
    /\ scan[s].at # "idle"
    /\ Scanning(s, scan[s].at)
    /\ scan' = [scan EXCEPT ![s] = NoScan]
    /\ reported' = (reported /\ scan[s].at # "superseded")
    /\ UNCHANGED <<alert, scanLease, fresh>>

LeaseRunsOut ==
    /\ scanLease # NoScanner
    /\ scanLease' = NoScanner
    /\ UNCHANGED <<official, inEffect, alert, draft, scan, errand, moves, reportVars>>

-----------------------------------------------------------------------------
(* The administrator *)

Doing(a, stage) == errand[a].at = stage /\ UNCHANGED <<official, scanLease, scan, moves>>

\* mark_alerts_viewed, of an alert that was on the screen
View(a, h) ==
    /\ Doing(a, "idle")
    /\ alert[h].status # "none"
    /\ alert' = Marked({h}, "viewed")
    /\ UNCHANGED <<inEffect, draft, errand, reportVars>>

\* create_candidate_for_alerts: the status is looked at, then written.
BeginSync(a, h) ==
    /\ Doing(a, "idle")
    /\ alert[h].status \in Pending
    /\ errand' = [errand EXCEPT ![a] = [NoErrand EXCEPT !.at = "checked", !.ids = {h}]]
    /\ UNCHANGED <<inEffect, alert, draft, reportVars>>

MarkSyncing(a) ==
    /\ Doing(a, "checked")
    /\ errand' = [errand EXCEPT ![a].at = "syncing"]
    /\ alert' = Marked(errand[a].ids, "syncing")
    /\ UNCHANGED <<inEffect, draft, reportVars>>

SyncFails(a) ==
    /\ Doing(a, "syncing")
    /\ errand' = [errand EXCEPT ![a] = NoErrand]
    /\ alert' = Marked(errand[a].ids, "failed")
    /\ UNCHANGED <<inEffect, draft, reportVars>>

\* The page is fetched again; a candidate holds the interface only if it
\* differs from what is in effect.
MakeDraft(a, d) ==
    /\ Doing(a, "syncing")
    /\ draft[d] = NoDraft
    /\ draft' = [draft EXCEPT ![d] = IF official = inEffect THEN Seeded ELSE official]
    /\ errand' = [errand EXCEPT ![a].at = "drafted", ![a].draft = d]
    /\ UNCHANGED <<inEffect, alert, reportVars>>

MarkCandidate(a) ==
    /\ Doing(a, "drafted")
    /\ errand' = [errand EXCEPT ![a] = NoErrand]
    /\ alert' = [h \in Hashes |-> IF h \in errand[a].ids
                    THEN [status |-> "candidate_ready", draft |-> errand[a].draft] ELSE alert[h]]
    /\ UNCHANGED <<inEffect, draft, reportVars>>

\* publish_candidate_selection (module SpecReleases)
Publish(a, d) ==
    /\ Doing(a, "idle")
    /\ draft[d] \in Hashes
    /\ inEffect' = draft[d]
    /\ reported' = (reported /\ official # draft[d])
    /\ fresh' = {}
    /\ errand' = [errand EXCEPT ![a] = [NoErrand EXCEPT !.at = "published", !.draft = d]]
    /\ UNCHANGED <<alert, draft>>

AlertsOf(a) == {h \in Hashes : alert[h].draft = errand[a].draft}

\* bind_published_release; without alerts nothing is verified.
Bind(a) ==
    /\ Doing(a, "published")
    /\ errand' = IF AlertsOf(a) = {} THEN [errand EXCEPT ![a] = NoErrand]
                 ELSE [errand EXCEPT ![a].at = "bound"]
    /\ alert' = Marked(AlertsOf(a), "published")
    /\ UNCHANGED <<inEffect, draft, reportVars>>

\* verify_published_interfaces
BeginVerify(a) ==
    /\ Doing(a, "bound")
    /\ errand' = [errand EXCEPT ![a].at = "verify", ![a].ids = AlertsOf(a), ![a].current = inEffect]
    /\ fresh' = fresh \cup {a}
    /\ UNCHANGED <<inEffect, alert, draft, reported>>

VerifyFetch(a) ==
    /\ Doing(a, "verify")
    /\ \E got \in {official, Seeded} :      \* the page, or no page
          errand' = [errand EXCEPT ![a].at = "verdict", ![a].fetched = got]
    /\ UNCHANGED <<inEffect, alert, draft, reportVars>>

VerifyMark(a) ==
    LET good == errand[a].fetched = errand[a].current
    IN  /\ Doing(a, "verdict")
        /\ errand' = [errand EXCEPT ![a] = NoErrand]
        /\ alert' = Marked(errand[a].ids, IF good THEN "verified" ELSE "verification_failed")
        /\ reported' = (reported /\ (good => a \in fresh))
        /\ UNCHANGED <<inEffect, draft, fresh>>

AdminDies(a) ==
    /\ errand[a].at # "idle"
    /\ Doing(a, errand[a].at)
    /\ errand' = [errand EXCEPT ![a] = NoErrand]
    /\ UNCHANGED <<inEffect, alert, draft, reportVars>>

OfficialChanges ==
    /\ moves < MaxMoves
    /\ moves' = moves + 1
    /\ official' \in Hashes \ {official}
    /\ reported' = (reported /\ official' # inEffect)
    /\ UNCHANGED <<inEffect, alert, draft, scanLease, scan, errand, fresh>>

Scan(s) ==
    \/ ListTargets(s) \/ LeaseScan(s) \/ FetchOfficial(s) \/ Supersede(s) \/ Upsert(s)
    \/ Resolve(s) \/ ReleaseScan(s) \/ ScanDies(s)

Administer(a) ==
    \/ \E h \in Hashes : View(a, h) \/ BeginSync(a, h)
    \/ \E d \in Drafts : MakeDraft(a, d) \/ Publish(a, d)
    \/ MarkSyncing(a) \/ SyncFails(a) \/ MarkCandidate(a) \/ Bind(a)
    \/ BeginVerify(a) \/ VerifyFetch(a) \/ VerifyMark(a) \/ AdminDies(a)

MonitorNext ==
    \/ \E s \in Scanners : Scan(s)
    \/ \E a \in Admins : Administer(a)
    \/ LeaseRunsOut \/ OfficialChanges

MonitorSpec == MonitorInit /\ [][MonitorNext]_monitorVars

-----------------------------------------------------------------------------

MonitorTypeOK ==
    /\ official \in Hashes /\ inEffect \in Hashes \cup {Seeded}
    /\ alert \in [Hashes -> [status : {"none"} \cup Pending \cup Closed, draft : Drafts \cup {NoDraft}]]
    /\ draft \in [Drafts -> Hashes \cup {Seeded, NoDraft}]
    /\ scanLease \in Scanners \cup {NoScanner}
    /\ scan \in [Scanners -> [at : {"idle", "targets", "leased", "same", "differs", "superseded", "done"},
                              current : Hashes \cup {Seeded}, fetched : Hashes \cup {Seeded}]]
    /\ \A a \in Admins :
          /\ errand[a].at \in {"idle", "checked", "syncing", "drafted", "published", "bound", "verify", "verdict"}
          /\ errand[a].ids \subseteq Hashes /\ errand[a].draft \in Drafts \cup {NoDraft}
    /\ moves \in 0..MaxMoves
    /\ reported \in BOOLEAN /\ fresh \subseteq Scanners \cup Admins

\* Once a scan has reported that the official specification differs from the
\* one in effect, the dashboard shows an alert of the interface for as long as
\* they differ, whatever candidates are made, published and verified meanwhile
\* and however often the page changes.  Excepted, until the next report, are a
\* report from an outdated reading; a verdict, of a scan or of a verification,
\* that a publication or another report has overtaken since it read what is in
\* effect; and a scan that dies between superseding the old alerts and writing
\* its own.
DriftIsAlerted ==
    reported => \/ \E h \in Hashes : alert[h].status \in Pending
                \/ \E s \in Scanners : scan[s].at = "superseded"
=============================================================================
