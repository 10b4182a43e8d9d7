------------------------- MODULE MCInterfaceTester -------------------------
(***************************************************************************)
(* The parts of the interface tester that share no state, side by side:    *)
(* `part' says which of them a behaviour is about, and the variables of    *)
(* the others keep their first values.                                     *)
(*                                                                         *)
(*   batch    an ordinary batch of three items, the second not eligible    *)
(*   edits    two editors of the specifications and a test that loads them *)
(*   loads    one editor and two tests                                     *)
(*   monitor  two scans, an administrator, two official specifications     *)
(***************************************************************************)
EXTENDS ApiTestBatch, SpecReleases, SpecMonitor, TLC

CONSTANTS b1, e1, e2, r1, r2
ASSUME TesterAssumption == e1 \in Editors /\ r1 \in Readers

VARIABLE part

OneBatch == {b1}
ThreeItems == 1..3
AllInBatch == [i \in Item |-> b1]
SecondIneligible == {2}

\* The worker's scan and one asked for by an administrator do the same.
Symmetry == Permutations(Scanners)

Parts == {"batch", "edits", "loads", "monitor"}

TesterInit == part \in Parts /\ Init /\ ReleaseInit /\ MonitorInit

TesterNext ==
    /\ UNCHANGED part
    /\ \/ part = "batch" /\ Next /\ UNCHANGED <<releaseVars, monitorVars>>
       \/ part = "edits" /\ ((\E e \in Editors : Edit(e)) \/ Load(r1)) /\ UNCHANGED <<vars, monitorVars>>
       \/ part = "loads" /\ (Edit(e1) \/ \E r \in Readers : Load(r)) /\ UNCHANGED <<vars, monitorVars>>
       \/ part = "monitor" /\ MonitorNext /\ UNCHANGED <<vars, releaseVars>>

TesterSpec == TesterInit /\ [][TesterNext]_<<part, vars, releaseVars, monitorVars>>

-----------------------------------------------------------------------------

\* The types of the part that moves.
TesterTypeOK ==
    /\ part \in Parts
    /\ part = "batch" => TypeOK
    /\ part \in {"edits", "loads"} => ReleaseTypeOK
    /\ part = "monitor" => MonitorTypeOK
=============================================================================
