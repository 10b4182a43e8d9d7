----------------------------- MODULE SpecProofs -----------------------------
(***************************************************************************)
(* Theorems about the specifications of the interface tester: the releases *)
(* (SpecReleases) and the alerts for changes of the official page          *)
(* (SpecMonitor), for any number of requests, scans, readers, interfaces,  *)
(* releases, specifications and candidates.                                *)
(* At the end the parts of MCInterfaceTester side by side, with the        *)
(* batches, whose proofs are in ApiTestBatchProofs.                        *)
(***************************************************************************)
EXTENDS MCInterfaceTester, ApiTestBatchProofs

-----------------------------------------------------------------------------
(* Alerts.  The step that could close the alert of a difference is a       *)
(* verdict that finds none.  MonitorInv says why there is no such verdict  *)
(* while the difference is reported: who has not been overtaken compares   *)
(* with what is in effect, and if it found no difference, none has been    *)
(* reported since.                                                         *)

AlertRow == [status : {"none"} \cup Pending \cup Closed, draft : Drafts \cup {NoDraft}]
Specs == Hashes \cup {Seeded}
ScanRow == [at : {"idle", "targets", "leased", "same", "differs", "superseded", "done"},
            current : Specs, fetched : Specs]
ErrandRow == [at : {"idle", "checked", "syncing", "drafted", "published", "bound", "verify",
                    "verdict"},
              ids : SUBSET Hashes, draft : Drafts \cup {NoDraft}, current : Specs, fetched : Specs]

\* A scan that differs has a page, and a verification follows a publication.
MonitorTyped ==
    /\ official \in Hashes /\ inEffect \in Specs
    /\ alert \in [Hashes -> AlertRow]
    /\ draft \in [Drafts -> Hashes \cup {Seeded, NoDraft}]
    /\ scanLease \in Scanners \cup {NoScanner}
    /\ scan \in [Scanners -> ScanRow]
    /\ errand \in [Admins -> ErrandRow]
    /\ moves \in 0..MaxMoves
    /\ reported \in BOOLEAN /\ fresh \subseteq Scanners \cup Admins
    /\ \A s \in Scanners : scan[s].at \in {"differs", "superseded"} =>
         scan[s].fetched \in Hashes /\ scan[s].fetched # scan[s].current
    /\ \A a \in Admins :
         /\ errand[a].at \in {"published", "bound"} => inEffect \in Hashes
         /\ errand[a].at \in {"verify", "verdict"} => errand[a].current \in Hashes

\* What is reported is a difference.
Differs == reported => official # inEffect

FreshScans ==
    \A s \in Scanners : s \in fresh =>
        /\ scan[s].at \in {"targets", "leased"} => scan[s].current = inEffect
        /\ scan[s].at = "same" => ~reported

FreshVerdicts ==
    \A a \in Admins : a \in fresh =>
        /\ errand[a].at = "verify" => errand[a].current = inEffect
        /\ errand[a].at = "verdict" /\ errand[a].fetched = errand[a].current => ~reported

MonitorInv == MonitorTyped /\ Differs /\ FreshScans /\ FreshVerdicts /\ DriftIsAlerted

LEMMA MonitorValues ==
    /\ 0 \in Hashes /\ Hashes \subseteq Nat /\ Seeded \notin Hashes /\ NoDraft \notin Hashes
    /\ NoDraft # Seeded
    /\ Pending \cap Closed = {} /\ "none" \notin Pending
    /\ NoScan \in ScanRow /\ Done \in ScanRow /\ NoErrand \in ErrandRow
    /\ NoScan.at = "idle" /\ Done.at = "done" /\ NoErrand.at = "idle"
  BY MonitorAssumption DEF Hashes, Seeded, NoDraft, Pending, Closed, NoScan, Done, ScanRow, Specs,
     NoErrand, ErrandRow

\* Marking changes a status and nothing else.
LEMMA MarkedAlerts ==
    ASSUME MonitorTyped, NEW ids \in SUBSET Hashes, NEW mark \in {"none"} \cup Pending \cup Closed
    PROVE  /\ Marked(ids, mark) \in [Hashes -> AlertRow]
           /\ \A h \in ids : Marked(ids, mark)[h].status = mark
           /\ \A h \in Hashes \ ids : Marked(ids, mark)[h] = alert[h]
  <1>1. \A h \in Hashes : /\ [alert[h] EXCEPT !.status = mark] \in AlertRow
                          /\ [alert[h] EXCEPT !.status = mark].status = mark
    BY DEF MonitorTyped, AlertRow
  <1> QED BY <1>1 DEF Marked, MonitorTyped

\* A step after which the alerts that were shown are shown.
LEMMA StillAlerted ==
    ASSUME DriftIsAlerted, reported' => reported,
           \A h \in Hashes : alert[h].status \in Pending => alert'[h].status \in Pending,
           reported' => \A s \in Scanners : scan[s].at = "superseded" => scan'[s].at = "superseded"
    PROVE  DriftIsAlerted'
  BY DEF DriftIsAlerted

-----------------------------------------------------------------------------

\* A step of a scan that leaves the alerts alone, and everything but its own row.
LEMMA ScanMoves ==
    ASSUME MonitorInv, NEW s \in Scanners, NEW row \in ScanRow, scan' = [scan EXCEPT ![s] = row],
           UNCHANGED <<official, inEffect, draft, errand, moves, alert>>,
           scanLease' \in Scanners \cup {NoScanner},
           reported' \in BOOLEAN, reported' => reported /\ scan[s].at # "superseded",
           fresh' \subseteq Scanners \cup Admins,
           \A x \in Scanners \cup Admins : x # s => (x \in fresh' => x \in fresh),
           row.at = "differs" => row.fetched \in Hashes /\ row.fetched # row.current,
           row.at # "superseded",
           s \in fresh' => /\ row.at \in {"targets", "leased"} => row.current = inEffect
                           /\ row.at = "same" => ~reported
    PROVE  MonitorInv'
  <1>1. scan'[s] = row /\ \A t \in Scanners : t # s => scan'[t] = scan[t]
    BY DEF MonitorInv, MonitorTyped
  <1>2. MonitorTyped'
    BY <1>1 DEF MonitorInv, MonitorTyped
  <1>3. Differs'
    BY DEF MonitorInv, Differs
  <1>4. FreshScans'
    BY <1>1 DEF MonitorInv, FreshScans
  <1>5. FreshVerdicts'
    BY MonitorAssumption DEF MonitorInv, FreshVerdicts
  <1>6. DriftIsAlerted'
    BY <1>1, StillAlerted DEF MonitorInv
  <1> QED BY <1>2, <1>3, <1>4, <1>5, <1>6 DEF MonitorInv

LEMMA ListTargetsKeeps ==
    ASSUME MonitorInv, NEW s \in Scanners, ListTargets(s) PROVE MonitorInv'
  <1> DEFINE row == [NoScan EXCEPT !.at = "targets", !.current = inEffect]
  <1>1. row \in ScanRow /\ row.at = "targets" /\ row.current = inEffect
    BY MonitorValues DEF ScanRow, NoScan, MonitorInv, MonitorTyped
  <1>2. /\ scan' = [scan EXCEPT ![s] = row] /\ fresh' = fresh \cup {s}
        /\ UNCHANGED <<official, inEffect, draft, errand, moves, alert, scanLease, reported>>
        /\ scan[s].at = "idle"
    BY DEF ListTargets, Scanning
  <1> HIDE DEF row
  <1> QED BY <1>1, <1>2, ScanMoves DEF MonitorInv, MonitorTyped

LEMMA LeaseScanKeeps ==
    ASSUME MonitorInv, NEW s \in Scanners, LeaseScan(s) PROVE MonitorInv'
  <1>1. /\ scan[s].at = "targets"
        /\ UNCHANGED <<official, inEffect, draft, errand, moves, alert, reported, fresh>>
        /\ scanLease' \in Scanners \cup {NoScanner}
        /\ reported \in BOOLEAN /\ fresh \subseteq Scanners \cup Admins /\ scan[s] \in ScanRow
    BY DEF LeaseScan, Scanning, reportVars, MonitorInv, MonitorTyped
  <1>2. CASE scan' = [scan EXCEPT ![s].at = "leased"]
    <2> DEFINE row == [scan[s] EXCEPT !.at = "leased"]
    <2>1. row \in ScanRow /\ row.at = "leased" /\ row.current = scan[s].current
      BY <1>1 DEF ScanRow
    <2>2. scan' = [scan EXCEPT ![s] = row]
      BY <1>2 DEF MonitorInv, MonitorTyped
    <2>3. s \in fresh => row.current = inEffect
      BY <1>1, <2>1 DEF MonitorInv, FreshScans
    <2> HIDE DEF row
    <2> QED BY <1>1, <2>1, <2>2, <2>3, ScanMoves
  <1>3. CASE scan' = [scan EXCEPT ![s] = NoScan]
    BY <1>1, <1>3, MonitorValues, ScanMoves
  <1> QED BY <1>2, <1>3 DEF LeaseScan

LEMMA FetchOfficialKeeps ==
    ASSUME MonitorInv, NEW s \in Scanners, FetchOfficial(s) PROVE MonitorInv'
  <1>1. /\ scan[s].at = "leased"
        /\ UNCHANGED <<official, inEffect, draft, errand, moves, alert, scanLease, reported, fresh>>
        /\ reported \in BOOLEAN /\ fresh \subseteq Scanners \cup Admins /\ scan[s] \in ScanRow
        /\ scanLease \in Scanners \cup {NoScanner} /\ official \in Hashes
    BY DEF FetchOfficial, Scanning, reportVars, MonitorInv, MonitorTyped
  <1>2. CASE scan' = [scan EXCEPT ![s].fetched = official,
                           ![s].at = IF official = scan[s].current THEN "same" ELSE "differs"]
    <2> DEFINE stage == IF official = scan[s].current THEN "same" ELSE "differs"
               row == [scan[s] EXCEPT !.fetched = official, !.at = stage]
    <2>1. row \in ScanRow /\ row.at = stage /\ row.current = scan[s].current
          /\ row.fetched = official
      BY <1>1 DEF ScanRow, Specs
    <2>2. scan' = [scan EXCEPT ![s] = row]
      BY <1>2 DEF MonitorInv, MonitorTyped
    <2>3. s \in fresh /\ stage = "same" => ~reported
      BY <1>1 DEF MonitorInv, FreshScans, Differs
    <2>4. stage \in {"same", "differs"} /\ (stage = "differs" => official # scan[s].current)
      OBVIOUS
    <2> HIDE DEF row, stage
    <2> QED BY <1>1, <2>1, <2>2, <2>3, <2>4, ScanMoves
  <1>3. CASE scan' = [scan EXCEPT ![s] = Done]
    BY <1>1, <1>3, MonitorValues, ScanMoves
  <1> QED BY <1>2, <1>3 DEF FetchOfficial

LEMMA ReleaseOrDeathKeeps ==
    ASSUME MonitorInv, NEW s \in Scanners, ReleaseScan(s) \/ ScanDies(s) PROVE MonitorInv'
  <1>1. /\ scan' = [scan EXCEPT ![s] = NoScan]
        /\ UNCHANGED <<official, inEffect, draft, errand, moves, alert, fresh>>
        /\ scanLease' \in Scanners \cup {NoScanner}
        /\ reported' \in BOOLEAN /\ (reported' => reported /\ scan[s].at # "superseded")
        /\ fresh \subseteq Scanners \cup Admins
    <2>1. CASE ReleaseScan(s)
      BY <2>1 DEF ReleaseScan, Scanning, reportVars, MonitorInv, MonitorTyped
    <2>2. CASE ScanDies(s)
      BY <2>2 DEF ScanDies, Scanning, MonitorInv, MonitorTyped
    <2> QED BY <2>1, <2>2
  <1>2. NoScan \in ScanRow /\ NoScan.at = "idle"
    BY MonitorValues
  <1> QED BY <1>1, <1>2, ScanMoves

LEMMA SupersedeKeeps ==
    ASSUME MonitorInv, NEW s \in Scanners, Supersede(s) PROVE MonitorInv'
  <1>1. /\ scan[s].at = "differs" /\ scan[s].fetched \in Hashes /\ scan[s] \in ScanRow
        /\ UNCHANGED <<official, inEffect, draft, errand, moves, scanLease, reported, fresh>>
        /\ scan' = [scan EXCEPT ![s].at = "superseded"]
    BY DEF Supersede, Scanning, reportVars, MonitorInv, MonitorTyped
  <1>2. /\ scan'[s] \in ScanRow /\ scan'[s].at = "superseded"
        /\ scan'[s].fetched = scan[s].fetched /\ scan'[s].current = scan[s].current
        /\ \A t \in Scanners : t # s => scan'[t] = scan[t]
        /\ scan' \in [Scanners -> ScanRow]
    BY <1>1 DEF MonitorInv, MonitorTyped, ScanRow
  <1>3. alert' \in [Hashes -> AlertRow]
    BY MarkedAlerts, "superseded" \in Closed DEF Supersede, MonitorInv, Closed
  <1>4. MonitorTyped'
    BY <1>1, <1>2, <1>3 DEF MonitorInv, MonitorTyped
  <1>5. Differs' /\ FreshScans' /\ FreshVerdicts'
    BY <1>1, <1>2 DEF MonitorInv, Differs, FreshScans, FreshVerdicts
  <1>6. DriftIsAlerted'
    BY <1>2 DEF DriftIsAlerted
  <1> QED BY <1>4, <1>5, <1>6 DEF MonitorInv

LEMMA UpsertKeeps ==
    ASSUME MonitorInv, NEW s \in Scanners, Upsert(s) PROVE MonitorInv'
  <1> DEFINE f == scan[s].fetched
             row == IF alert[f].status \in {"none"} \cup Closed
                    THEN [status |-> "new", draft |-> NoDraft] ELSE alert[f]
  <1>1. /\ scan[s].at = "superseded" /\ f \in Hashes
        /\ UNCHANGED <<official, inEffect, draft, errand, moves, scanLease>>
        /\ scan' = [scan EXCEPT ![s] = Done] /\ fresh' = {}
        /\ alert' = [alert EXCEPT ![f] = row]
        /\ reported' = (official = f /\ inEffect = scan[s].current)
        /\ f # scan[s].current /\ alert[f] \in AlertRow
    BY DEF Upsert, Upserted, Scanning, MonitorInv, MonitorTyped
  <1>2. row \in AlertRow /\ row.status \in Pending
    BY <1>1 DEF AlertRow, Pending, Closed
  <1> HIDE DEF row
  <1>3. alert'[f] = row /\ alert' \in [Hashes -> AlertRow]
    BY <1>1, <1>2 DEF MonitorInv, MonitorTyped
  <1>4. scan' \in [Scanners -> ScanRow] /\ scan'[s].at = "done"
        /\ \A t \in Scanners : t # s => scan'[t] = scan[t]
    BY <1>1, MonitorValues DEF MonitorInv, MonitorTyped
  <1>5. MonitorTyped'
    BY <1>1, <1>3, <1>4 DEF MonitorInv, MonitorTyped
  <1> QED BY <1>1, <1>2, <1>3, <1>5 DEF MonitorInv, Differs, FreshScans, FreshVerdicts, DriftIsAlerted

\* A scan that finds no difference resolves what is resolvable: if a difference is
\* reported, it has been overtaken.
LEMMA ResolveKeeps ==
    ASSUME MonitorInv, NEW s \in Scanners, Resolve(s) PROVE MonitorInv'
  <1>1. /\ scan[s].at = "same"
        /\ UNCHANGED <<official, inEffect, draft, errand, moves, scanLease, fresh>>
        /\ scan' = [scan EXCEPT ![s] = Done]
        /\ reported' = (reported /\ s \in fresh)
    BY DEF Resolve, Scanning
  <1>2. ~reported'
    BY <1>1 DEF MonitorInv, FreshScans
  <1>3. scan' \in [Scanners -> ScanRow] /\ scan'[s].at = "done"
        /\ \A t \in Scanners : t # s => scan'[t] = scan[t]
    BY <1>1, MonitorValues DEF MonitorInv, MonitorTyped
  <1>4. alert' \in [Hashes -> AlertRow]
    BY MarkedAlerts, "verified" \in Closed DEF Resolve, MonitorInv, Closed
  <1>5. MonitorTyped'
    BY <1>1, <1>2, <1>3, <1>4 DEF MonitorInv, MonitorTyped
  <1> QED BY <1>1, <1>2, <1>3, <1>5
          DEF MonitorInv, Differs, FreshScans, FreshVerdicts, DriftIsAlerted

-----------------------------------------------------------------------------

\* A step of an administrator's request that closes no alert and publishes nothing.
LEMMA ErrandMoves ==
    ASSUME MonitorInv, NEW a \in Admins, NEW row \in ErrandRow, errand' = [errand EXCEPT ![a] = row],
           UNCHANGED <<official, inEffect, scanLease, scan, moves, reported>>,
           draft' \in [Drafts -> Hashes \cup {Seeded, NoDraft}],
           alert' \in [Hashes -> AlertRow],
           \A h \in Hashes : alert[h].status \in Pending => alert'[h].status \in Pending,
           fresh' \subseteq Scanners \cup Admins,
           \A x \in Scanners \cup Admins : x # a => (x \in fresh' => x \in fresh),
           row.at \in {"published", "bound"} => inEffect \in Hashes,
           row.at \in {"verify", "verdict"} => row.current \in Hashes,
           a \in fresh' => /\ row.at = "verify" => row.current = inEffect
                           /\ row.at = "verdict" /\ row.fetched = row.current => ~reported
    PROVE  MonitorInv'
  <1>1. errand'[a] = row /\ \A b \in Admins : b # a => errand'[b] = errand[b]
    BY DEF MonitorInv, MonitorTyped
  <1>2. MonitorTyped'
    BY <1>1 DEF MonitorInv, MonitorTyped
  <1>3. Differs'
    BY DEF MonitorInv, Differs
  <1>4. FreshScans'
    BY MonitorAssumption DEF MonitorInv, FreshScans
  <1>5. FreshVerdicts'
    BY <1>1 DEF MonitorInv, FreshVerdicts
  <1>6. DriftIsAlerted'
    BY <1>1, StillAlerted DEF MonitorInv
  <1> QED BY <1>2, <1>3, <1>4, <1>5, <1>6 DEF MonitorInv

\* What does not close an alert leaves it pending.
LEMMA MarkedPending ==
    ASSUME MonitorTyped, NEW ids \in SUBSET Hashes, NEW mark \in Pending
    PROVE  /\ Marked(ids, mark) \in [Hashes -> AlertRow]
           /\ \A h \in Hashes : alert[h].status \in Pending => Marked(ids, mark)[h].status \in Pending
  <1>1. mark \in {"none"} \cup Pending \cup Closed
    OBVIOUS
  <1>2. Marked(ids, mark) \in [Hashes -> AlertRow]
    BY <1>1, MarkedAlerts
  <1>3. ASSUME NEW h \in Hashes, alert[h].status \in Pending
        PROVE  Marked(ids, mark)[h].status \in Pending
    <2>1. CASE h \in ids
      BY <1>1, <2>1, MarkedAlerts
    <2>2. CASE h \notin ids
      BY <1>1, <1>3, <2>2, MarkedAlerts
    <2> QED BY <2>1, <2>2
  <1> QED BY <1>2, <1>3

LEMMA MarksKeep ==
    ASSUME MonitorInv, NEW a \in Admins,
           \/ \E h \in Hashes : View(a, h)
           \/ MarkSyncing(a) \/ SyncFails(a) \/ Bind(a)
    PROVE  MonitorInv'
  <1>1. /\ UNCHANGED <<official, inEffect, scanLease, scan, moves, draft, reported, fresh>>
        /\ draft \in [Drafts -> Hashes \cup {Seeded, NoDraft}]
        /\ fresh \subseteq Scanners \cup Admins /\ errand[a] \in ErrandRow
        /\ errand \in [Admins -> ErrandRow]
    BY DEF View, MarkSyncing, SyncFails, Bind, Doing, reportVars, MonitorInv, MonitorTyped
  <1>2. PICK ids \in SUBSET Hashes, mark \in {"viewed", "syncing", "failed", "published"} :
            alert' = Marked(ids, mark)
    <2>1. AlertsOf(a) \in SUBSET Hashes /\ errand[a].ids \in SUBSET Hashes
      BY <1>1 DEF AlertsOf, ErrandRow
    <2>2. ASSUME NEW h \in Hashes, View(a, h) PROVE alert' = Marked({h}, "viewed")
      BY <2>2 DEF View
    <2>3. /\ MarkSyncing(a) => alert' = Marked(errand[a].ids, "syncing")
          /\ SyncFails(a) => alert' = Marked(errand[a].ids, "failed")
          /\ Bind(a) => alert' = Marked(AlertsOf(a), "published")
      BY DEF MarkSyncing, SyncFails, Bind
    <2> QED BY <2>1, <2>2, <2>3
  <1>3. mark \in Pending
    BY <1>2 DEF Pending
  <1>4. /\ alert' \in [Hashes -> AlertRow]
        /\ \A h \in Hashes : alert[h].status \in Pending => alert'[h].status \in Pending
    BY <1>2, <1>3, MarkedPending DEF MonitorInv
  <1>5. CASE UNCHANGED errand
    <2>1. errand' = [errand EXCEPT ![a] = errand[a]]
      BY <1>1, <1>5
    <2>2. /\ errand[a].at \in {"published", "bound"} => inEffect \in Hashes
          /\ errand[a].at \in {"verify", "verdict"} => errand[a].current \in Hashes
          /\ a \in fresh =>
               /\ errand[a].at = "verify" => errand[a].current = inEffect
               /\ errand[a].at = "verdict" /\ errand[a].fetched = errand[a].current => ~reported
      BY DEF MonitorInv, MonitorTyped, FreshVerdicts
    <2> QED BY <1>1, <1>4, <2>1, <2>2, ErrandMoves
  <1>6. ASSUME NEW stage \in {"syncing", "bound"}, errand' = [errand EXCEPT ![a].at = stage],
               stage = "bound" => inEffect \in Hashes
        PROVE  MonitorInv'
    <2> DEFINE row == [errand[a] EXCEPT !.at = stage]
    <2>2. row \in ErrandRow /\ row.at = stage
      BY <1>1 DEF ErrandRow
    <2>3. errand' = [errand EXCEPT ![a] = row]
      BY <1>1, <1>6
    <2> HIDE DEF row
    <2> QED BY <1>1, <1>4, <1>6, <2>2, <2>3, ErrandMoves
  <1>7. CASE errand' = [errand EXCEPT ![a] = NoErrand]
    <2>1. NoErrand \in ErrandRow /\ NoErrand.at = "idle"
      BY MonitorValues
    <2> QED BY <1>1, <1>4, <1>7, <2>1, ErrandMoves
  <1>8. ASSUME Bind(a) PROVE inEffect \in Hashes
    BY <1>8 DEF Bind, Doing, MonitorInv, MonitorTyped
  <1> QED BY <1>5, <1>6, <1>7, <1>8 DEF View, MarkSyncing, SyncFails, Bind

LEMMA QuietErrandKeeps ==
    ASSUME MonitorInv, NEW a \in Admins,
           (\E h \in Hashes : BeginSync(a, h)) \/ AdminDies(a)
    PROVE  MonitorInv'
  <1>1. /\ UNCHANGED <<official, inEffect, scanLease, scan, moves, draft, alert, reported, fresh>>
        /\ draft \in [Drafts -> Hashes \cup {Seeded, NoDraft}] /\ alert \in [Hashes -> AlertRow]
        /\ fresh \subseteq Scanners \cup Admins
    BY DEF BeginSync, AdminDies, Doing, reportVars, MonitorInv, MonitorTyped
  <1>2. PICK row \in ErrandRow : /\ errand' = [errand EXCEPT ![a] = row]
                                 /\ row.at \in {"idle", "checked"}
    <2>1. CASE AdminDies(a)
      BY <2>1, MonitorValues DEF AdminDies
    <2>2. ASSUME NEW h \in Hashes, BeginSync(a, h)
          PROVE  \E row \in ErrandRow : /\ errand' = [errand EXCEPT ![a] = row]
                                        /\ row.at \in {"idle", "checked"}
      <3>1. [NoErrand EXCEPT !.at = "checked", !.ids = {h}] \in ErrandRow
            /\ [NoErrand EXCEPT !.at = "checked", !.ids = {h}].at = "checked"
        BY MonitorValues DEF NoErrand, ErrandRow
      <3> QED BY <2>2, <3>1 DEF BeginSync
    <2> QED BY <2>1, <2>2
  <1> QED BY <1>1, <1>2, ErrandMoves

LEMMA CandidateKeeps ==
    ASSUME MonitorInv, NEW a \in Admins,
           (\E d \in Drafts : MakeDraft(a, d)) \/ MarkCandidate(a)
    PROVE  MonitorInv'
  <1>1. /\ UNCHANGED <<official, inEffect, scanLease, scan, moves, reported, fresh>>
        /\ draft \in [Drafts -> Hashes \cup {Seeded, NoDraft}] /\ alert \in [Hashes -> AlertRow]
        /\ fresh \subseteq Scanners \cup Admins /\ errand[a] \in ErrandRow
        /\ errand \in [Admins -> ErrandRow] /\ official \in Hashes
    BY DEF MakeDraft, MarkCandidate, Doing, reportVars, MonitorInv, MonitorTyped
  <1>2. ASSUME NEW d \in Drafts, MakeDraft(a, d) PROVE MonitorInv'
    <2> DEFINE row == [errand[a] EXCEPT !.at = "drafted", !.draft = d]
    <2>1. row \in ErrandRow /\ row.at = "drafted"
      BY <1>1 DEF ErrandRow
    <2>2. errand' = [errand EXCEPT ![a] = row] /\ UNCHANGED alert
      BY <1>1, <1>2 DEF MakeDraft
    <2>3. draft' \in [Drafts -> Hashes \cup {Seeded, NoDraft}]
      BY <1>1, <1>2 DEF MakeDraft
    <2> HIDE DEF row
    <2> QED BY <1>1, <2>1, <2>2, <2>3, ErrandMoves
  <1>3. CASE MarkCandidate(a)
    <2>1. NoErrand \in ErrandRow /\ NoErrand.at = "idle" /\ "candidate_ready" \in Pending
      BY MonitorValues DEF Pending
    <2>2. [status |-> "candidate_ready", draft |-> errand[a].draft] \in AlertRow
      BY <1>1, <2>1 DEF AlertRow, ErrandRow
    <2>3. /\ alert' \in [Hashes -> AlertRow]
          /\ \A h \in Hashes : alert[h].status \in Pending => alert'[h].status \in Pending
      BY <1>1, <1>3, <2>1, <2>2 DEF MarkCandidate
    <2>4. errand' = [errand EXCEPT ![a] = NoErrand] /\ UNCHANGED draft
      BY <1>3 DEF MarkCandidate
    <2> QED BY <1>1, <2>1, <2>3, <2>4, ErrandMoves
  <1> QED BY <1>2, <1>3

LEMMA VerifyKeeps ==
    ASSUME MonitorInv, NEW a \in Admins, BeginVerify(a) \/ VerifyFetch(a) PROVE MonitorInv'
  <1>1. /\ UNCHANGED <<official, inEffect, scanLease, scan, moves, draft, alert, reported>>
        /\ draft \in [Drafts -> Hashes \cup {Seeded, NoDraft}] /\ alert \in [Hashes -> AlertRow]
        /\ fresh \subseteq Scanners \cup Admins /\ errand[a] \in ErrandRow
        /\ errand \in [Admins -> ErrandRow] /\ official \in Hashes /\ inEffect \in Specs
    BY DEF BeginVerify, VerifyFetch, Doing, reportVars, MonitorInv, MonitorTyped
  <1>2. CASE BeginVerify(a)
    <2> DEFINE row == [errand[a] EXCEPT !.at = "verify", !.ids = AlertsOf(a), !.current = inEffect]
    <2>1. row \in ErrandRow /\ row.at = "verify" /\ row.current = inEffect
      BY <1>1 DEF ErrandRow, AlertsOf
    <2>2. inEffect \in Hashes
      BY <1>2 DEF BeginVerify, Doing, MonitorInv, MonitorTyped
    <2>3. errand' = [errand EXCEPT ![a] = row] /\ fresh' = fresh \cup {a}
      BY <1>1, <1>2 DEF BeginVerify
    <2> HIDE DEF row
    <2> QED BY <1>1, <2>1, <2>2, <2>3, ErrandMoves
  <1>3. CASE VerifyFetch(a)
    <2>1. PICK got \in {official, Seeded} :
            errand' = [errand EXCEPT ![a].at = "verdict", ![a].fetched = got]
      BY <1>3 DEF VerifyFetch
    <2> DEFINE row == [errand[a] EXCEPT !.at = "verdict", !.fetched = got]
    <2>2. row \in ErrandRow /\ row.at = "verdict" /\ row.current = errand[a].current
          /\ row.fetched = got
      BY <1>1, <2>1 DEF ErrandRow, Specs
    <2>3. errand' = [errand EXCEPT ![a] = row] /\ fresh' = fresh
      BY <1>1, <1>3, <2>1 DEF VerifyFetch, reportVars
    <2>4. errand[a].at = "verify" /\ errand[a].current \in Hashes
      BY <1>3 DEF VerifyFetch, Doing, MonitorInv, MonitorTyped
    <2>5. a \in fresh /\ got = errand[a].current => ~reported
      <3>1. got = errand[a].current => got = official
        BY <2>1, <2>4, MonitorValues
      <3> QED BY <2>4, <3>1 DEF MonitorInv, FreshVerdicts, Differs
    <2> HIDE DEF row
    <2> QED BY <1>1, <2>2, <2>3, <2>4, <2>5, ErrandMoves
  <1> QED BY <1>2, <1>3

\* A publication overtakes everybody.
LEMMA PublishKeeps ==
    ASSUME MonitorInv, NEW a \in Admins, NEW d \in Drafts, Publish(a, d) PROVE MonitorInv'
  <1> DEFINE row == [NoErrand EXCEPT !.at = "published", !.draft = d]
  <1>1. /\ UNCHANGED <<official, scanLease, scan, moves, alert, draft>>
        /\ draft[d] \in Hashes /\ inEffect' = draft[d] /\ fresh' = {}
        /\ reported' = (reported /\ official # draft[d])
        /\ errand' = [errand EXCEPT ![a] = row]
    BY DEF Publish, Doing
  <1>2. row \in ErrandRow /\ row.at = "published"
    BY MonitorValues DEF NoErrand, ErrandRow
  <1> HIDE DEF row
  <1>3. /\ errand' \in [Admins -> ErrandRow] /\ errand'[a] = row
        /\ \A b \in Admins : b # a => errand'[b] = errand[b]
    BY <1>1, <1>2 DEF MonitorInv, MonitorTyped
  <1>4. MonitorTyped'
    BY <1>1, <1>2, <1>3 DEF MonitorInv, MonitorTyped, Specs
  <1>5. DriftIsAlerted'
    BY <1>1, StillAlerted DEF MonitorInv
  <1> QED BY <1>1, <1>4, <1>5 DEF MonitorInv, Differs, FreshScans, FreshVerdicts

\* A verification that finds no difference closes alerts: if one is reported, the
\* verification has been overtaken.
LEMMA VerifyMarkKeeps ==
    ASSUME MonitorInv, NEW a \in Admins, VerifyMark(a) PROVE MonitorInv'
  <1>1. /\ UNCHANGED <<official, scanLease, scan, moves, inEffect, draft, fresh>>
        /\ errand' = [errand EXCEPT ![a] = NoErrand] /\ errand[a].at = "verdict"
        /\ errand[a].ids \in SUBSET Hashes
    BY DEF VerifyMark, Doing, MonitorInv, MonitorTyped, ErrandRow
  <1>2. NoErrand \in ErrandRow /\ NoErrand.at = "idle"
    BY MonitorValues
  <1>3. /\ errand' \in [Admins -> ErrandRow] /\ errand'[a].at = "idle"
        /\ \A b \in Admins : b # a => errand'[b] = errand[b]
    BY <1>1, <1>2 DEF MonitorInv, MonitorTyped
  <1>4. CASE errand[a].fetched = errand[a].current
    <2>1. reported' = (reported /\ a \in fresh) /\ alert' = Marked(errand[a].ids, "verified")
      BY <1>4 DEF VerifyMark
    <2>2. reported' = FALSE
      BY <1>1, <1>4, <2>1 DEF MonitorInv, FreshVerdicts
    <2>3. alert' \in [Hashes -> AlertRow]
      BY <1>1, <2>1, MarkedAlerts, "verified" \in Closed DEF MonitorInv, Closed
    <2>4. MonitorTyped'
      BY <1>1, <1>3, <2>2, <2>3 DEF MonitorInv, MonitorTyped
    <2> QED BY <1>1, <1>3, <2>2, <2>4
            DEF MonitorInv, Differs, FreshScans, FreshVerdicts, DriftIsAlerted
  <1>5. CASE errand[a].fetched # errand[a].current
    <2>1. reported' = reported /\ alert' = Marked(errand[a].ids, "verification_failed")
      BY <1>5 DEF VerifyMark, MonitorInv, MonitorTyped
    <2>2. "verification_failed" \in Pending
      BY DEF Pending
    <2>3. /\ alert' \in [Hashes -> AlertRow]
          /\ \A h \in Hashes : alert[h].status \in Pending => alert'[h].status \in Pending
      BY <1>1, <2>1, <2>2, MarkedPending DEF MonitorInv
    <2>4. draft \in [Drafts -> Hashes \cup {Seeded, NoDraft}] /\ fresh \subseteq Scanners \cup Admins
      BY DEF MonitorInv, MonitorTyped
    <2> QED BY <1>1, <1>2, <2>1, <2>3, <2>4, ErrandMoves
  <1> QED BY <1>4, <1>5

LEMMA OutsideKeeps ==
    ASSUME MonitorInv, LeaseRunsOut \/ OfficialChanges PROVE MonitorInv'
  <1>1. /\ UNCHANGED <<inEffect, alert, draft, scan, errand, fresh>>
        /\ official' \in Hashes /\ moves' \in 0..MaxMoves
        /\ scanLease' \in Scanners \cup {NoScanner}
        /\ reported' = (reported /\ official' # inEffect)
    BY MonitorAssumption DEF LeaseRunsOut, OfficialChanges, reportVars, MonitorInv, MonitorTyped, Differs
  <1>2. MonitorTyped'
    BY <1>1 DEF MonitorInv, MonitorTyped
  <1>3. DriftIsAlerted'
    BY <1>1, StillAlerted DEF MonitorInv
  <1> QED BY <1>1, <1>2, <1>3 DEF MonitorInv, Differs, FreshScans, FreshVerdicts

LEMMA MonitorInitially == MonitorInit => MonitorInv
  <1> SUFFICES ASSUME MonitorInit PROVE MonitorInv
    OBVIOUS
  <1>1. [status |-> "none", draft |-> NoDraft] \in AlertRow
    BY DEF AlertRow
  <1>2. alert \in [Hashes -> AlertRow] /\ official \in Hashes /\ inEffect \in Specs
        /\ moves \in 0..MaxMoves
    BY <1>1, MonitorValues, MonitorAssumption DEF MonitorInit, Specs
  <1>3. \A s \in Scanners : scan[s].at = "idle"
    BY MonitorValues DEF MonitorInit
  <1>4. \A a \in Admins : errand[a].at = "idle"
    BY MonitorValues DEF MonitorInit
  <1>5. scan \in [Scanners -> ScanRow] /\ errand \in [Admins -> ErrandRow]
    BY MonitorValues DEF MonitorInit
  <1>6. MonitorTyped
    BY <1>2, <1>3, <1>4, <1>5 DEF MonitorInit, MonitorTyped
  <1> QED BY <1>6 DEF MonitorInit, MonitorInv, Differs, FreshScans, FreshVerdicts, DriftIsAlerted

LEMMA MonitorStep == MonitorInv /\ [MonitorNext]_monitorVars => MonitorInv'
  <1> SUFFICES ASSUME MonitorInv, [MonitorNext]_monitorVars PROVE MonitorInv'
    OBVIOUS
  <1>1. ASSUME NEW s \in Scanners, Scan(s) PROVE MonitorInv'
    BY <1>1, ListTargetsKeeps, LeaseScanKeeps, FetchOfficialKeeps, SupersedeKeeps, UpsertKeeps,
       ResolveKeeps, ReleaseOrDeathKeeps DEF Scan
  <1>2. ASSUME NEW a \in Admins, Administer(a) PROVE MonitorInv'
    BY <1>2, MarksKeep, QuietErrandKeeps, CandidateKeeps, VerifyKeeps, PublishKeeps, VerifyMarkKeeps
       DEF Administer
  <1>3. CASE UNCHANGED monitorVars
    <2>1. UNCHANGED <<official, inEffect, alert, draft, scanLease, scan, errand, moves, reported, fresh>>
      BY <1>3 DEF monitorVars, reportVars
    <2> QED BY <2>1 DEF MonitorInv, MonitorTyped, Differs, FreshScans, FreshVerdicts, DriftIsAlerted
  <1> QED BY <1>1, <1>2, <1>3, OutsideKeeps DEF MonitorNext

\* No variable of the monitor leaves its domain.
THEOREM MonitorTypeCorrect == MonitorSpec => []MonitorTypeOK
  <1>1. MonitorInv => MonitorTypeOK
    BY DEF MonitorInv, MonitorTyped, MonitorTypeOK, AlertRow, Specs, ScanRow, ErrandRow
  <1> QED BY <1>1, MonitorInitially, MonitorStep, PTL DEF MonitorSpec

\* However many scans, requests and candidates there are and however often the page
\* changes, a difference that has been reported is shown by an alert as long as it lasts.
THEOREM DriftAlerted == MonitorSpec => []DriftIsAlerted
  <1>1. MonitorInv => DriftIsAlerted
    BY DEF MonitorInv
  <1> QED BY <1>1, MonitorInitially, MonitorStep, PTL DEF MonitorSpec

-----------------------------------------------------------------------------
(* Releases.  ReleaseInv says who owns which directory (Files): an editor  *)
(* in the middle of its edit has a release of its own, empty or merged     *)
(* with the one it has read; that the release in effect has the last       *)
(* publications unless edits overlapped (InEffect); that what a candidate  *)
(* calls published is so, or will be with the next step (Noted); and that  *)
(* the two fields of the cache agree but for a reader between them         *)
(* (CacheAgrees).                                                          *)

EditRow == [at : {"idle", "loaded", "writing", "noting", "noted", "switching"},
            wanted : SUBSET Apis, base : Versions, version : Versions, noted : SUBSET Apis]
Written == {"noting", "noted", "switching"}

ReleaseTyped ==
    /\ releases \in [Versions -> Rows \cup {NoDirectory, Empty}]
    /\ pointer \in Versions
    /\ published \subseteq Apis /\ cutShort \subseteq Apis
    /\ edit \in [Editors -> EditRow]
    /\ cached \in [version : Versions \cup {Nothing}, rows : Versions \cup {Nothing}]
    /\ load \in [Readers -> [at : {"idle", "compare", "copy", "read", "half"}, asked : Versions]]
    /\ latest \in [Apis -> Versions]
    /\ overlapped \in BOOLEAN /\ crossed \in BOOLEAN /\ outdated \in BOOLEAN

Files ==
    /\ releases[Seed] \in Rows /\ releases[pointer] \in Rows
    /\ \A e \in Editors :
         /\ edit[e].at # "idle" => releases[edit[e].base] \in Rows
         /\ edit[e].at = "writing" => releases[edit[e].version] = Empty
         /\ edit[e].at \in Written =>
              releases[edit[e].version] = Merged(e) /\ edit[e].version # Seed
    /\ \A e, f \in Editors : edit[e].at = "writing" /\ edit[f].at = "writing" /\ e # f =>
         edit[e].version # edit[f].version

InEffect == ~overlapped => releases[pointer] = latest

\* An interface has been published, or will be with the next step of an edit.
PublishedSoon(a) ==
    latest[a] # Seed \/ \E e \in Editors : edit[e].at = "switching" /\ a \in edit[e].wanted

Noted ==
    /\ \A a \in published \ cutShort : PublishedSoon(a)
    /\ \A e \in Editors : edit[e].at = "noted" =>
         \A a \in edit[e].noted \ cutShort : a \in edit[e].wanted \/ PublishedSoon(a)

CacheAgrees ==
    ~crossed =>
        /\ ~outdated
        /\ (\A r \in Readers : load[r].at # "half") => cached.version = cached.rows
        /\ \A r \in Readers :
             /\ load[r].at = "copy" => cached.rows = load[r].asked
             /\ load[r].at = "half" =>
                  /\ cached.version = load[r].asked
                  /\ \A s \in Readers \ {r} : load[s].at \notin {"half", "copy"}

ReleaseInv == ReleaseTyped /\ Files /\ InEffect /\ Noted /\ CacheAgrees

LEMMA ReleaseValues ==
    /\ Seed \in Versions /\ Versions \subseteq Nat /\ Nothing \notin Versions
    /\ NoDirectory \notin Rows /\ Empty \notin Rows /\ NoDirectory # Empty
    /\ NoEdit \in EditRow /\ NoEdit.at = "idle"
    /\ NoLoad \in [at : {"idle", "compare", "copy", "read", "half"}, asked : Versions]
    /\ NoLoad.at = "idle"
  <1>1. Seed \in Versions /\ Versions \subseteq Nat /\ MaxReleases \in Nat
        /\ \A n \in Nat \ {0} : MaxReleases + n \notin Versions
    BY ReleaseAssumption DEF Seed, Versions
  <1>2. PICK a \in Apis : TRUE
    BY ReleaseAssumption
  <1>3. NoDirectory[a] = MaxReleases + 2 /\ Empty[a] = MaxReleases + 3
    BY DEF NoDirectory, Empty
  <1>4. NoDirectory \notin Rows /\ Empty \notin Rows /\ NoDirectory # Empty
    BY <1>1, <1>3 DEF Rows
  <1> QED BY <1>1, <1>4 DEF Nothing, NoEdit, NoLoad, EditRow

LEMMA MergedRows ==
    ASSUME ReleaseInv, NEW e \in Editors, edit[e].at # "idle"
    PROVE  Merged(e) \in Rows
  <1>1. releases[edit[e].base] \in Rows /\ edit[e].version \in Versions
    BY DEF ReleaseInv, ReleaseTyped, Files, EditRow
  <1> QED BY <1>1 DEF Merged, Rows

\* A step of an editor that writes no release and switches to none.
LEMMA EditMoves ==
    ASSUME ReleaseInv, NEW e \in Editors, NEW row \in EditRow, edit' = [edit EXCEPT ![e] = row],
           UNCHANGED <<releases, pointer, readerVars, overlapped, latest>>,
           published' \subseteq Apis, cutShort' \subseteq Apis, cutShort \subseteq cutShort',
           row.at = "idle" \/ (row.at = "loaded" /\ releases[row.base] \in Rows)
             \/ /\ row.at \in Written /\ edit[e].at \in Written
                /\ row.version = edit[e].version /\ row.base = edit[e].base
                /\ row.wanted = edit[e].wanted,
           \A a \in Apis \ cutShort' : PublishedSoon(a) => PublishedSoon(a)',
           \A a \in published' \ cutShort' : a \in published \/ PublishedSoon(a)',
           row.at = "noted" => \A a \in row.noted \ cutShort' : a \in row.wanted \/ PublishedSoon(a)'
    PROVE  ReleaseInv'
  <1>1. edit'[e] = row /\ \A f \in Editors : f # e => edit'[f] = edit[f]
    BY DEF ReleaseInv, ReleaseTyped
  <1>2. ReleaseTyped'
    BY <1>1 DEF ReleaseInv, ReleaseTyped, readerVars
  <1>3. \A f \in Editors : f # e => Merged(f)' = Merged(f)
    BY <1>1 DEF Merged
  <1>4. row.at \in Written => Merged(e)' = Merged(e)
    BY <1>1 DEF Merged, Written
  <1>5. Files'
    BY <1>1, <1>3, <1>4 DEF ReleaseInv, Files, Written
  <1>6. InEffect'
    BY DEF ReleaseInv, InEffect
  <1>7. Noted'
    <2>1. \A a \in published' \ cutShort' : PublishedSoon(a)'
      BY DEF ReleaseInv, ReleaseTyped, Noted
    <2>2. ASSUME NEW f \in Editors, edit'[f].at = "noted", NEW a \in edit'[f].noted \ cutShort'
          PROVE  a \in edit'[f].wanted \/ PublishedSoon(a)'
      <3>1. CASE f = e
        BY <1>1, <2>2, <3>1
      <3>2. CASE f # e
        BY <1>1, <2>2, <3>2 DEF ReleaseInv, ReleaseTyped, Noted, EditRow
      <3> QED BY <3>1, <3>2
    <2> QED BY <2>1, <2>2 DEF Noted
  <1>8. CacheAgrees'
    BY DEF ReleaseInv, CacheAgrees, readerVars
  <1> QED BY <1>2, <1>5, <1>6, <1>7, <1>8 DEF ReleaseInv

\* What is settled stays so while no edit at its last step gives up.
LEMMA StaysSettled ==
    ASSUME ReleaseInv, NEW e \in Editors, NEW row, edit' = [edit EXCEPT ![e] = row],
           latest' = latest, NEW a \in Apis, PublishedSoon(a),
           edit[e].at = "switching" /\ a \in edit[e].wanted =>
              row.at = "switching" /\ a \in row.wanted
    PROVE  PublishedSoon(a)'
  <1>1. edit'[e] = row /\ \A f \in Editors : f # e => edit'[f] = edit[f]
    BY DEF ReleaseInv, ReleaseTyped
  <1> QED BY <1>1 DEF PublishedSoon

LEMMA BeginEditKeeps ==
    ASSUME ReleaseInv, NEW e \in Editors, NEW apis \in SUBSET Apis, BeginEdit(e, apis)
    PROVE  ReleaseInv'
  <1> DEFINE row == [NoEdit EXCEPT !.at = "loaded", !.wanted = apis, !.base = pointer]
  <1>1. row \in EditRow /\ row.at = "loaded" /\ row.base = pointer
    BY ReleaseValues DEF NoEdit, EditRow, ReleaseInv, ReleaseTyped
  <1>2. /\ edit' = [edit EXCEPT ![e] = row] /\ edit[e].at = "idle"
        /\ UNCHANGED <<releases, pointer, published, readerVars, overlapped, latest, cutShort>>
        /\ published \subseteq Apis /\ cutShort \subseteq Apis /\ releases[pointer] \in Rows
    BY DEF BeginEdit, At, fileVars, ReleaseInv, ReleaseTyped, Files
  <1> HIDE DEF row
  <1>3. \A a \in Apis : PublishedSoon(a) => PublishedSoon(a)'
    BY <1>2, StaysSettled
  <1> QED BY <1>1, <1>2, <1>3, EditMoves DEF Written

LEMMA AbandonKeeps ==
    ASSUME ReleaseInv, NEW e \in Editors, Abandon(e) PROVE ReleaseInv'
  <1>1. /\ edit' = [edit EXCEPT ![e] = NoEdit]
        /\ UNCHANGED <<releases, pointer, published, readerVars, overlapped, latest>>
        /\ cutShort' = IF edit[e].at \in {"noted", "switching"} THEN cutShort \cup edit[e].wanted
                       ELSE cutShort
        /\ published \subseteq Apis /\ cutShort \subseteq Apis /\ edit[e].wanted \subseteq Apis
    BY DEF Abandon, At, fileVars, ReleaseInv, ReleaseTyped, EditRow
  <1>2. NoEdit \in EditRow /\ NoEdit.at = "idle"
    BY ReleaseValues
  <1>3. \A a \in Apis \ cutShort' : PublishedSoon(a) => PublishedSoon(a)'
    BY <1>1, <1>2, StaysSettled
  <1>4. cutShort' \subseteq Apis /\ cutShort \subseteq cutShort'
    BY <1>1
  <1>5. \A a \in published \ cutShort' : a \in published
    OBVIOUS
  <1> QED BY <1>1, <1>2, <1>3, <1>4, <1>5, EditMoves

LEMMA NotingKeeps ==
    ASSUME ReleaseInv, NEW e \in Editors, ReadManifest(e) \/ WriteManifest(e) PROVE ReleaseInv'
  <1>1. /\ UNCHANGED <<releases, pointer, readerVars, overlapped, latest, cutShort>>
        /\ edit[e] \in EditRow /\ edit \in [Editors -> EditRow]
        /\ published \subseteq Apis /\ cutShort \subseteq Apis
    BY DEF ReadManifest, WriteManifest, EditStep, At, fileVars, ReleaseInv, ReleaseTyped
  <1>2. CASE ReadManifest(e)
    <2> DEFINE row == [edit[e] EXCEPT !.at = "noted", !.noted = published \cup edit[e].wanted]
    <2>1. /\ row \in EditRow /\ row.at = "noted" /\ row.noted = published \cup edit[e].wanted
          /\ row.wanted = edit[e].wanted /\ row.base = edit[e].base /\ row.version = edit[e].version
      BY <1>1 DEF EditRow
    <2>2. edit' = [edit EXCEPT ![e] = row] /\ edit[e].at = "noting" /\ published' = published
      BY <1>1, <1>2 DEF ReadManifest, At, fileVars
    <2> HIDE DEF row
    <2>3. \A a \in Apis : PublishedSoon(a) => PublishedSoon(a)'
      BY <1>1, <2>2, StaysSettled
    <2>4. \A a \in row.noted \ cutShort : a \in row.wanted \/ PublishedSoon(a)'
      BY <1>1, <2>1, <2>3 DEF ReleaseInv, Noted
    <2> QED BY <1>1, <2>1, <2>2, <2>3, <2>4, EditMoves DEF Written
  <1>3. CASE WriteManifest(e)
    <2> DEFINE row == [edit[e] EXCEPT !.at = "switching"]
    <2>1. /\ row \in EditRow /\ row.at = "switching"
          /\ row.wanted = edit[e].wanted /\ row.base = edit[e].base /\ row.version = edit[e].version
      BY <1>1 DEF EditRow
    <2>2. edit' = [edit EXCEPT ![e] = row] /\ edit[e].at = "noted" /\ published' = edit[e].noted
      BY <1>1, <1>3 DEF WriteManifest, EditStep, At
    <2> HIDE DEF row
    <2>3. \A a \in Apis : PublishedSoon(a) => PublishedSoon(a)'
      BY <1>1, <2>2, StaysSettled
    <2>4. published' \subseteq Apis
      BY <1>1, <2>2 DEF EditRow
    <2>5. \A a \in edit[e].wanted : PublishedSoon(a)'
      <3>1. edit'[e] = row
        BY <1>1, <2>2
      <3> QED BY <2>1, <3>1 DEF PublishedSoon
    <2>6. \A a \in published' \ cutShort : PublishedSoon(a)'
      BY <2>2, <2>3, <2>4, <2>5 DEF ReleaseInv, Noted
    <2> QED BY <1>1, <2>1, <2>2, <2>3, <2>4, <2>6, EditMoves DEF Written
  <1> QED BY <1>2, <1>3

-----------------------------------------------------------------------------

\* The directory that is made was none, so that nobody's release is touched.
LEMMA MakeDirectoryKeeps ==
    ASSUME ReleaseInv, NEW e \in Editors, MakeDirectory(e) PROVE ReleaseInv'
  <1>1. /\ edit[e].at = "loaded" /\ edit[e] \in EditRow /\ edit \in [Editors -> EditRow]
        /\ UNCHANGED <<pointer, published, readerVars, overlapped, latest, cutShort>>
        /\ published \subseteq Apis /\ cutShort \subseteq Apis
    BY DEF MakeDirectory, At, ReleaseInv, ReleaseTyped
  <1>2. CASE edit' = [edit EXCEPT ![e] = NoEdit] /\ UNCHANGED releases
    <2>1. NoEdit \in EditRow /\ NoEdit.at = "idle"
      BY ReleaseValues
    <2>2. \A a \in Apis : PublishedSoon(a) => PublishedSoon(a)'
      BY <1>1, <1>2, StaysSettled
    <2> QED BY <1>1, <1>2, <2>1, <2>2, EditMoves
  <1>3. ASSUME NEW v \in Versions, releases[v] = NoDirectory,
               releases' = [releases EXCEPT ![v] = Empty],
               edit' = [edit EXCEPT ![e].at = "writing", ![e].version = v]
        PROVE  ReleaseInv'
    <2> DEFINE row == [edit[e] EXCEPT !.at = "writing", !.version = v]
    <2>1. /\ row \in EditRow /\ row.at = "writing" /\ row.version = v
          /\ row.wanted = edit[e].wanted /\ row.base = edit[e].base
      BY <1>1 DEF EditRow
    <2>2. edit' = [edit EXCEPT ![e] = row]
      BY <1>1, <1>3
    <2> HIDE DEF row
    <2>3. edit'[e] = row /\ \A f \in Editors : f # e => edit'[f] = edit[f]
      BY <1>1, <2>2
    <2>4. /\ releases'[v] = Empty /\ \A w \in Versions : w # v => releases'[w] = releases[w]
          /\ releases' \in [Versions -> Rows \cup {NoDirectory, Empty}]
      BY <1>3 DEF ReleaseInv, ReleaseTyped
    <2>5. ReleaseTyped'
      BY <1>1, <2>1, <2>2, <2>4 DEF ReleaseInv, ReleaseTyped, readerVars
    <2>6. \A w \in Versions : releases[w] \in Rows => w # v /\ releases'[w] = releases[w]
      BY <1>3, <2>4, ReleaseValues
    <2>7. /\ Seed \in Versions /\ pointer \in Versions
          /\ \A f \in Editors : edit[f].base \in Versions /\ edit[f].version \in Versions
      BY ReleaseValues DEF ReleaseInv, ReleaseTyped, EditRow
    <2>8. ASSUME NEW f \in Editors, f # e, edit[f].at \in Written
          PROVE  Merged(f)' = Merged(f)
      <3>1. releases[edit[f].base] \in Rows
        BY <2>8 DEF ReleaseInv, Files, Written
      <3>2. releases'[edit[f].base] = releases[edit[f].base] /\ edit'[f] = edit[f]
        BY <2>3, <2>6, <2>7, <2>8, <3>1
      <3> QED BY <3>2 DEF Merged
    <2>9. Files'
      <3>1. releases'[Seed] \in Rows /\ releases'[pointer'] \in Rows
        BY <1>1, <2>6, <2>7 DEF ReleaseInv, Files
      <3>2. ASSUME NEW f \in Editors
            PROVE  /\ edit'[f].at # "idle" => releases'[edit'[f].base] \in Rows
                   /\ edit'[f].at = "writing" => releases'[edit'[f].version] = Empty
                   /\ edit'[f].at \in Written =>
                        releases'[edit'[f].version] = Merged(f)' /\ edit'[f].version # Seed
        <4>1. CASE f = e
          BY <1>1, <2>1, <2>3, <2>4, <2>6, <2>7, <4>1 DEF ReleaseInv, Files, Written
        <4>2. CASE f # e
          <5>1. edit'[f] = edit[f]
            BY <2>3, <4>2
          <5>2. edit[f].at = "writing" => edit[f].version # v
            BY <1>3, ReleaseValues DEF ReleaseInv, Files
          <5>3. edit[f].at \in Written => Merged(f) \in Rows
            BY MergedRows DEF Written
          <5> QED BY <2>4, <2>6, <2>7, <2>8, <4>2, <5>1, <5>2, <5>3 DEF ReleaseInv, Files
        <4> QED BY <4>1, <4>2
      <3>3. \A f \in Editors : f # e /\ edit[f].at = "writing" => edit[f].version # v
        BY <1>3, ReleaseValues DEF ReleaseInv, Files
      <3>4. ASSUME NEW f \in Editors, NEW g \in Editors, f # g,
                   edit'[f].at = "writing", edit'[g].at = "writing"
            PROVE  edit'[f].version # edit'[g].version
        BY <2>1, <2>3, <3>3, <3>4 DEF ReleaseInv, Files
      <3> QED BY <3>1, <3>2, <3>4 DEF Files
    <2>10. InEffect'
      BY <1>1, <2>6, <2>7 DEF ReleaseInv, InEffect, Files
    <2>11. Noted'
      <3>1. \A a \in Apis : PublishedSoon(a) => PublishedSoon(a)'
        BY <1>1, <2>2, StaysSettled
      <3> QED BY <1>1, <2>1, <2>3, <3>1 DEF ReleaseInv, ReleaseTyped, Noted, EditRow
    <2>12. CacheAgrees'
      BY <1>1 DEF ReleaseInv, CacheAgrees, readerVars
    <2> QED BY <2>5, <2>9, <2>10, <2>11, <2>12 DEF ReleaseInv
  <1> QED BY <1>2, <1>3 DEF MakeDirectory

\* The file is written into a directory that nobody has read: it was empty.
LEMMA WriteSpecsKeeps ==
    ASSUME ReleaseInv, NEW e \in Editors, WriteSpecs(e) PROVE ReleaseInv'
  <1> DEFINE v == edit[e].version
  <1>1. /\ edit[e].at = "writing" /\ edit[e] \in EditRow /\ edit \in [Editors -> EditRow]
        /\ UNCHANGED <<pointer, published, readerVars, overlapped, latest, cutShort>>
        /\ releases' = [releases EXCEPT ![v] = Merged(e)] /\ v \in Versions
        /\ releases[v] = Empty
    BY DEF WriteSpecs, EditStep, At, ReleaseInv, ReleaseTyped, Files, EditRow
  <1>2. PICK stage \in {"noting", "switching"} : edit' = [edit EXCEPT ![e].at = stage]
    BY DEF WriteSpecs, EditStep
  <1> DEFINE row == [edit[e] EXCEPT !.at = stage]
  <1>3. /\ row \in EditRow /\ row.at = stage /\ row.version = v
        /\ row.wanted = edit[e].wanted /\ row.base = edit[e].base
    BY <1>1, <1>2 DEF EditRow
  <1>4. edit' = [edit EXCEPT ![e] = row]
    BY <1>1, <1>2
  <1> HIDE DEF row, v
  <1>5. edit'[e] = row /\ \A f \in Editors : f # e => edit'[f] = edit[f]
    BY <1>1, <1>4
  <1>6. Merged(e) \in Rows
    BY <1>1, MergedRows
  <1>7. /\ releases'[v] = Merged(e) /\ \A w \in Versions : w # v => releases'[w] = releases[w]
        /\ releases' \in [Versions -> Rows \cup {NoDirectory, Empty}]
    BY <1>1, <1>6 DEF ReleaseInv, ReleaseTyped
  <1>8. ReleaseTyped'
    BY <1>1, <1>3, <1>4, <1>7 DEF ReleaseInv, ReleaseTyped, readerVars
  <1>9. \A w \in Versions : releases[w] \in Rows => w # v /\ releases'[w] = releases[w]
    BY <1>1, <1>7, ReleaseValues
  <1>10. /\ Seed \in Versions /\ pointer \in Versions
         /\ \A f \in Editors : edit[f].base \in Versions /\ edit[f].version \in Versions
    BY ReleaseValues DEF ReleaseInv, ReleaseTyped, EditRow
  <1>11. \A f \in Editors : edit[f].at # "idle" => releases[edit[f].base] \in Rows
    BY DEF ReleaseInv, Files
  <1>12. Merged(e)' = Merged(e)
    BY <1>1, <1>3, <1>5, <1>9, <1>10, <1>11 DEF Merged, v
  <1>13. \A f \in Editors : f # e /\ edit[f].at # "idle" => Merged(f)' = Merged(f)
    BY <1>5, <1>9, <1>10, <1>11 DEF Merged
  <1>14. v # Seed
    BY <1>1, ReleaseValues DEF ReleaseInv, Files
  <1>15. Files'
    <2>1. releases'[Seed] \in Rows /\ releases'[pointer'] \in Rows
      BY <1>1, <1>9, <1>10 DEF ReleaseInv, Files
    <2>2. ASSUME NEW f \in Editors
          PROVE  /\ edit'[f].at # "idle" => releases'[edit'[f].base] \in Rows
                 /\ edit'[f].at = "writing" => releases'[edit'[f].version] = Empty
                 /\ edit'[f].at \in Written =>
                      releases'[edit'[f].version] = Merged(f)' /\ edit'[f].version # Seed
      <3>1. CASE f = e
        BY <1>1, <1>2, <1>3, <1>5, <1>7, <1>9, <1>10, <1>11, <1>12, <1>14, <3>1
      <3>2. CASE f # e
        <4>1. edit'[f] = edit[f]
          BY <1>5, <3>2
        <4>2. edit[f].at = "writing" => edit[f].version # v
          BY <1>1, <3>2 DEF ReleaseInv, Files, v
        <4>3. edit[f].at \in Written => Merged(f) \in Rows
          BY MergedRows DEF Written
        <4>4. edit[f].at \in Written => edit[f].at # "idle"
          BY DEF Written
        <4> QED BY <1>7, <1>9, <1>10, <1>11, <1>13, <3>2, <4>1, <4>2, <4>3, <4>4
                DEF ReleaseInv, Files
      <3> QED BY <3>1, <3>2
    <2>3. ASSUME NEW f \in Editors, NEW g \in Editors, f # g,
                 edit'[f].at = "writing", edit'[g].at = "writing"
          PROVE  edit'[f].version # edit'[g].version
      BY <1>2, <1>3, <1>5, <2>3 DEF ReleaseInv, Files
    <2> QED BY <2>1, <2>2, <2>3 DEF Files
  <1>16. InEffect'
    BY <1>1, <1>9, <1>10 DEF ReleaseInv, InEffect, Files
  <1>17. Noted'
    <2>1. \A a \in Apis : PublishedSoon(a) => PublishedSoon(a)'
      BY <1>1, <1>4, StaysSettled
    <2> QED BY <1>1, <1>2, <1>3, <1>5, <2>1 DEF ReleaseInv, ReleaseTyped, Noted, EditRow
  <1>18. CacheAgrees'
    BY <1>1 DEF ReleaseInv, CacheAgrees, readerVars
  <1> QED BY <1>8, <1>15, <1>16, <1>17, <1>18 DEF ReleaseInv

\* The pointer goes to a release that has the rows of the one the editor has read.
LEMMA SwitchKeeps ==
    ASSUME ReleaseInv, NEW e \in Editors, Switch(e) PROVE ReleaseInv'
  <1> DEFINE v == edit[e].version
  <1>1. /\ edit[e].at = "switching" /\ edit[e] \in EditRow
        /\ edit' = [edit EXCEPT ![e] = NoEdit] /\ pointer' = v
        /\ latest' = [a \in Apis |-> IF a \in edit[e].wanted THEN v ELSE latest[a]]
        /\ overlapped' = (overlapped \/ pointer # edit[e].base)
        /\ UNCHANGED <<releases, published, readerVars, cutShort>>
        /\ v \in Versions /\ v # Seed /\ releases[v] = Merged(e)
    BY DEF Switch, At, ReleaseInv, ReleaseTyped, Files, EditRow, Written
  <1>2. NoEdit \in EditRow /\ NoEdit.at = "idle"
    BY ReleaseValues
  <1>3. edit'[e] = NoEdit /\ \A f \in Editors : f # e => edit'[f] = edit[f]
    BY <1>1 DEF ReleaseInv, ReleaseTyped
  <1>4. Merged(e) \in Rows
    BY <1>1, MergedRows
  <1>5. ReleaseTyped'
    BY <1>1, <1>2 DEF ReleaseInv, ReleaseTyped, readerVars
  <1>6. Files'
    <2>1. \A f \in Editors : f # e => Merged(f)' = Merged(f)
      BY <1>1, <1>3 DEF Merged
    <2> QED BY <1>1, <1>2, <1>3, <1>4, <2>1 DEF ReleaseInv, Files, Written
  <1>7. InEffect'
    BY <1>1 DEF ReleaseInv, ReleaseTyped, InEffect, Merged
  <1>8. \A a \in Apis : PublishedSoon(a) => PublishedSoon(a)'
    BY <1>1, <1>3 DEF PublishedSoon
  <1>9. Noted'
    BY <1>1, <1>2, <1>3, <1>8 DEF ReleaseInv, ReleaseTyped, Noted, EditRow
  <1>10. CacheAgrees'
    BY <1>1 DEF ReleaseInv, CacheAgrees, readerVars
  <1> QED BY <1>5, <1>6, <1>7, <1>9, <1>10 DEF ReleaseInv

-----------------------------------------------------------------------------

\* The readers write nothing but their own variables.
LEMMA LoadKeeps ==
    ASSUME ReleaseInv, NEW r \in Readers, Load(r) PROVE ReleaseInv'
  <1>1. UNCHANGED <<releases, pointer, published, edit, latest, overlapped, cutShort>>
    BY DEF Load, ReadPointer, Compare, CopyRows, CacheVersion, CacheRows, LoadStep, Returned, fileVars
  <1>2. \A e \in Editors : Merged(e)' = Merged(e)
    BY <1>1 DEF Merged
  <1>3. Files' /\ InEffect'
    BY <1>1, <1>2 DEF ReleaseInv, Files, InEffect
  <1>4. Noted'
    BY <1>1 DEF ReleaseInv, Noted, PublishedSoon
  <1>5. /\ load \in [Readers -> [at : {"idle", "compare", "copy", "read", "half"}, asked : Versions]]
        /\ load[r] \in [at : {"idle", "compare", "copy", "read", "half"}, asked : Versions]
        /\ cached \in [version : Versions \cup {Nothing}, rows : Versions \cup {Nothing}]
        /\ crossed \in BOOLEAN /\ outdated \in BOOLEAN /\ pointer \in Versions
    BY DEF ReleaseInv, ReleaseTyped
  <1>6. PICK row \in [at : {"idle", "compare", "copy", "read", "half"}, asked : Versions] :
            /\ load' = [load EXCEPT ![r] = row]
            /\ load[r].at = "idle" \/ row = NoLoad \/ row.asked = load[r].asked
    <2>1. [at |-> "compare", asked |-> pointer]
             \in [at : {"idle", "compare", "copy", "read", "half"}, asked : Versions]
      BY <1>5
    <2>2. \A stage \in {"copy", "read", "half"} :
             /\ [load[r] EXCEPT !.at = stage]
                  \in [at : {"idle", "compare", "copy", "read", "half"}, asked : Versions]
             /\ [load[r] EXCEPT !.at = stage].asked = load[r].asked
             /\ [load EXCEPT ![r].at = stage] = [load EXCEPT ![r] = [load[r] EXCEPT !.at = stage]]
      BY <1>5
    <2>3. CASE ReadPointer(r)
      BY <2>1, <2>3 DEF ReadPointer
    <2>4. CASE Compare(r) \/ CacheVersion(r)
      BY <2>2, <2>4 DEF Compare, CacheVersion, LoadStep
    <2>5. CASE CopyRows(r) \/ CacheRows(r)
      BY <2>5, ReleaseValues DEF CopyRows, CacheRows, Returned
    <2> QED BY <2>3, <2>4, <2>5 DEF Load
  <1>7. load'[r] = row /\ \A s \in Readers : s # r => load'[s] = load[s]
    BY <1>5, <1>6
  <1>8. /\ cached' \in [version : Versions \cup {Nothing}, rows : Versions \cup {Nothing}]
        /\ crossed' \in BOOLEAN /\ outdated' \in BOOLEAN
    BY <1>5 DEF Load, ReadPointer, Compare, CopyRows, CacheVersion, CacheRows, Returned
  <1>9. ReleaseTyped'
    BY <1>1, <1>6, <1>8 DEF ReleaseInv, ReleaseTyped
  <1>10. CASE ReadPointer(r)
    <2>1. row.at = "compare" /\ load[r].at = "idle" /\ UNCHANGED <<cached, crossed, outdated>>
      BY <1>5, <1>7, <1>10 DEF ReadPointer
    <2>2. CacheAgrees'
      BY <1>7, <2>1 DEF ReleaseInv, CacheAgrees
    <2> QED BY <1>3, <1>4, <1>9, <2>2 DEF ReleaseInv
  <1>11. CASE Compare(r)
    <2>1. /\ load[r].at = "compare" /\ UNCHANGED <<cached, outdated>>
          /\ row.at \in {"copy", "read"} /\ row.asked = load[r].asked
          /\ row.at = "copy" => cached.version = load[r].asked
      BY <1>5, <1>7, <1>11 DEF Compare, LoadStep
    <2>2. ~crossed' => ~crossed /\ \A s \in Readers : s # r => load[s].at # "half"
      BY <1>5, <1>11 DEF Compare, Within
    <2>3. CacheAgrees'
      BY <1>7, <2>1, <2>2 DEF ReleaseInv, CacheAgrees
    <2> QED BY <1>3, <1>4, <1>9, <2>3 DEF ReleaseInv
  <1>12. CASE CopyRows(r)
    <2>1. /\ load[r].at = "copy" /\ row.at = "idle" /\ UNCHANGED <<cached, crossed>>
          /\ outdated' = (outdated \/ cached.rows < load[r].asked)
      BY <1>5, <1>7, <1>12, ReleaseValues DEF CopyRows, Returned
    <2>2. ~crossed => cached.rows = load[r].asked
      BY <2>1 DEF ReleaseInv, CacheAgrees
    <2>3. ~(load[r].asked < load[r].asked)
      <3>1. load[r].asked \in Nat
        BY <1>5, ReleaseValues
      <3> QED BY <3>1
    <2>4. CacheAgrees'
      BY <1>7, <2>1, <2>2, <2>3 DEF ReleaseInv, CacheAgrees
    <2> QED BY <1>3, <1>4, <1>9, <2>4 DEF ReleaseInv
  <1>13. CASE CacheVersion(r)
    <2>1. /\ load[r].at = "read" /\ row.at = "half" /\ row.asked = load[r].asked
          /\ UNCHANGED outdated
          /\ cached'.version = load[r].asked
      BY <1>5, <1>7, <1>13 DEF CacheVersion, LoadStep
    <2>2. ~crossed' => ~crossed /\ \A s \in Readers : s # r => load[s].at \notin {"half", "copy"}
      BY <1>5, <1>13 DEF CacheVersion, Within
    <2>3. CacheAgrees'
      BY <1>7, <2>1, <2>2 DEF ReleaseInv, CacheAgrees
    <2> QED BY <1>3, <1>4, <1>9, <2>3 DEF ReleaseInv
  <1>14. CASE CacheRows(r)
    <2>1. /\ load[r].at = "half" /\ row.at = "idle"
          /\ outdated' = (outdated \/ load[r].asked < load[r].asked)
          /\ cached'.version = cached.version /\ cached'.rows = load[r].asked
      BY <1>5, <1>7, <1>14, ReleaseValues DEF CacheRows, Returned
    <2>2. ~crossed' => ~crossed /\ \A s \in Readers : s # r => load[s].at \notin {"half", "copy"}
      BY <1>5, <1>14 DEF CacheRows, Within
    <2>3. ~(load[r].asked < load[r].asked)
      <3>1. load[r].asked \in Nat
        BY <1>5, ReleaseValues
      <3> QED BY <3>1
    <2>4. ~crossed => cached.version = load[r].asked
      BY <2>1 DEF ReleaseInv, CacheAgrees
    <2>5. CacheAgrees'
      BY <1>7, <2>1, <2>2, <2>3, <2>4 DEF ReleaseInv, CacheAgrees
    <2> QED BY <1>3, <1>4, <1>9, <2>5 DEF ReleaseInv
  <1> QED BY <1>10, <1>11, <1>12, <1>13, <1>14 DEF Load

LEMMA ReleaseInitially == ReleaseInit => ReleaseInv
  <1> SUFFICES ASSUME ReleaseInit PROVE ReleaseInv
    OBVIOUS
  <1>1. [a \in Apis |-> Seed] \in Rows /\ [version |-> Nothing, rows |-> Nothing] \in
            [version : Versions \cup {Nothing}, rows : Versions \cup {Nothing}]
    BY ReleaseValues DEF Rows
  <1>2. /\ releases \in [Versions -> Rows \cup {NoDirectory, Empty}]
        /\ releases[Seed] = [a \in Apis |-> Seed] /\ latest = [a \in Apis |-> Seed]
        /\ pointer = Seed /\ published = {} /\ cutShort = {}
        /\ edit \in [Editors -> EditRow] /\ \A e \in Editors : edit[e].at = "idle"
        /\ load \in [Readers -> [at : {"idle", "compare", "copy", "read", "half"}, asked : Versions]]
        /\ \A r \in Readers : load[r].at = "idle"
        /\ cached.version = cached.rows /\ overlapped = FALSE /\ crossed = FALSE /\ outdated = FALSE
    BY <1>1, ReleaseValues DEF ReleaseInit
  <1>3. ReleaseTyped
    <2>1. cached \in [version : Versions \cup {Nothing}, rows : Versions \cup {Nothing}]
      BY <1>1 DEF ReleaseInit
    <2>2. latest \in [Apis -> Versions]
      BY <1>1, <1>2 DEF Rows
    <2> QED BY <1>2, <2>1, <2>2, ReleaseValues DEF ReleaseTyped
  <1>4. Files /\ InEffect
    BY <1>1, <1>2 DEF Files, InEffect, Written
  <1>5. Noted /\ CacheAgrees
    BY <1>2 DEF Noted, CacheAgrees
  <1> QED BY <1>3, <1>4, <1>5 DEF ReleaseInv

LEMMA ReleaseStep == ReleaseInv /\ [ReleaseNext]_releaseVars => ReleaseInv'
  <1> SUFFICES ASSUME ReleaseInv, [ReleaseNext]_releaseVars PROVE ReleaseInv'
    OBVIOUS
  <1>1. ASSUME NEW e \in Editors, Edit(e) PROVE ReleaseInv'
    BY <1>1, BeginEditKeeps, MakeDirectoryKeeps, WriteSpecsKeeps, NotingKeeps, SwitchKeeps,
       AbandonKeeps DEF Edit
  <1>2. ASSUME NEW r \in Readers, Load(r) PROVE ReleaseInv'
    BY <1>2, LoadKeeps
  <1>3. CASE UNCHANGED releaseVars
    <2>1. UNCHANGED <<releases, pointer, published, edit, cached, load, latest, overlapped, cutShort,
                      crossed, outdated>>
      BY <1>3 DEF releaseVars, fileVars, readerVars
    <2>2. \A e \in Editors : Merged(e)' = Merged(e)
      BY <2>1 DEF Merged
    <2> QED BY <2>1, <2>2 DEF ReleaseInv, ReleaseTyped, Files, InEffect, Noted, PublishedSoon, CacheAgrees
  <1> QED BY <1>1, <1>2, <1>3 DEF ReleaseNext

\* No variable of the releases leaves its domain.
THEOREM ReleaseTypeCorrect == ReleaseSpec => []ReleaseTypeOK
  <1>1. ReleaseInv => ReleaseTypeOK
    BY DEF ReleaseInv, ReleaseTyped, ReleaseTypeOK, EditRow
  <1> QED BY <1>1, ReleaseInitially, ReleaseStep, PTL DEF ReleaseSpec

\* Whatever edits are cut short or meet, the pointer names a release with its file; edits
\* that do not overlap leave every last publication in effect, and a test that nobody
\* crosses in the cache gets no older rows than it asked for.
THEOREM PublicationServed == ReleaseSpec => []PublishedIsServed
  <1>1. ReleaseInv => PublishedIsServed
    BY DEF ReleaseInv, Files, InEffect, Noted, PublishedSoon, CacheAgrees, PublishedIsServed
  <1> QED BY <1>1, ReleaseInitially, ReleaseStep, PTL DEF ReleaseSpec

-----------------------------------------------------------------------------
(* The parts of the interface tester side by side. *)

testerVars == <<part, vars, releaseVars, monitorVars>>

\* A step of one part, or of none, is a step or a stutter of each of them.
LEMMA TesterStepOfEach ==
  ASSUME [TesterNext]_testerVars
  PROVE  [Next]_vars /\ [ReleaseNext]_releaseVars /\ [MonitorNext]_monitorVars /\ part' = part
<1>1. CASE TesterNext
  BY <1>1, TesterAssumption DEF TesterNext, ReleaseNext
<1>2. CASE UNCHANGED testerVars
  BY <1>2 DEF testerVars
<1> QED BY <1>1, <1>2

\* Side by side the batches, the releases and the monitor behave as they do alone:
\* whatever is proved of one of them holds of the behaviours the run explores.
THEOREM TesterApart == TesterSpec => Spec /\ ReleaseSpec /\ MonitorSpec
<1>1. TesterInit => Init /\ ReleaseInit /\ MonitorInit
  BY DEF TesterInit
<1>2. [TesterNext]_testerVars =>
        [Next]_vars /\ [ReleaseNext]_releaseVars /\ [MonitorNext]_monitorVars
  BY TesterStepOfEach
<1>3. TesterSpec => TesterInit /\ [][TesterNext]_testerVars
  BY DEF TesterSpec, testerVars
<1> QED
  BY <1>1, <1>2, <1>3, PTL DEF Spec, ReleaseSpec, MonitorSpec

\* The variables of the part a behaviour is about keep their domains.
THEOREM TesterTypeCorrect == TesterSpec => []TesterTypeOK
<1>1. TesterInit => part \in Parts
  BY DEF TesterInit
<1>2. part \in Parts /\ [TesterNext]_testerVars => (part \in Parts)'
  BY TesterStepOfEach DEF Parts
<1>3. TesterSpec => TesterInit /\ [][TesterNext]_testerVars
  BY DEF TesterSpec, testerVars
<1>4. TesterSpec => [](part \in Parts)
  BY <1>1, <1>2, <1>3, PTL
<1>5. part \in Parts /\ TypeOK /\ ReleaseTypeOK /\ MonitorTypeOK => TesterTypeOK
  BY DEF TesterTypeOK
<1> QED
  BY <1>4, <1>5, TesterApart, TypeCorrect, ReleaseTypeCorrect, MonitorTypeCorrect, PTL
=============================================================================
