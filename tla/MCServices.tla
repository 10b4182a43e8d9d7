----------------------------- MODULE MCServices -----------------------------
(***************************************************************************)
(* Services that share no state, side by side: `part' says which of them a *)
(* behaviour is about, and the variables of the others keep their first    *)
(* values.                                                                 *)
(*                                                                         *)
(*   locks      keyed_lock.py: three threads, two keys                     *)
(*   slots      three queries of a user, two of them with one token; two   *)
(*              at once for the user, one for a token; two processes       *)
(*   retention  a batch and its retry, the cleanup and an administrator    *)
(*   snapshots  two schedulers, two types of snapshot                      *)
(*   members    two publishers, two members, the table of Feishu; one      *)
(*              person, a call that fails and no import                    *)
(*   imports    the same with two people, of whom one registers, and no    *)
(*              failure; the second member is not changed                  *)
(***************************************************************************)
EXTENDS KeyedLock, QuerySlots, BatchRetention, KaipanlaSnapshot, MemberPublication

CONSTANTS p1, p2, t1, t2, t3, k1, k2, user, token1, token2, everybody, b1, b2

VARIABLE part

ThreeQueries == {t1, t2, t3}
ServerOf == [q \in ThreeQueries |-> IF q = t1 THEN p1 ELSE p2]
AllCounters == {user, token1, token2, everybody}
QueryCounters == [q \in ThreeQueries |-> {user, everybody, IF q = t3 THEN token2 ELSE token1}]
SlotLimits == [k \in AllCounters |-> CASE k = user -> 2 [] k = everybody -> 0 [] OTHER -> 1]
ParentOf == [b \in {b1, b2} |-> b1]
TargetOf == [k \in {"auction", "close"} |-> IF k = "auction" THEN 0 ELSE 2]

Parts == {"locks", "slots", "retention", "snapshots", "members", "imports"}

\* What the two parts of the members' table leave out.
Narrow ==
    IF part = "members"
    THEN /\ \A p \in Publishers : job[p].at # "records"
         /\ \A u \in Members, i \in 1..MaxEdition : i <= Edition(u) => profile[u][i] # t2
         /\ \A r \in SheetRows : sheet[r].person # t2
         /\ t2 \notin applicants
    ELSE failures = 0 /\ t2 \notin applicants /\ Edition(2) <= 1

\* What a part chooses at its beginning is fixed in the behaviours of the others.
ServicesInit ==
    /\ part \in Parts
    /\ Init /\ (part # "locks" => key = [t \in Threads |-> k1])
    /\ SlotsInit /\ (part # "slots" => strict)
    /\ RetentionInit
    /\ CaptureInit
    /\ MembersInit

ServicesNext ==
    /\ UNCHANGED part
    /\ \/ part = "locks" /\ Next /\ UNCHANGED <<slotVars, retentionVars, captureVars, memberVars>>
       \/ part = "slots" /\ SlotsNext /\ UNCHANGED <<vars, retentionVars, captureVars, memberVars>>
       \/ part = "retention" /\ RetentionNext /\ UNCHANGED <<vars, slotVars, captureVars, memberVars>>
       \/ part = "snapshots" /\ CaptureNext /\ UNCHANGED <<vars, slotVars, retentionVars, memberVars>>
       \/ /\ part \in {"members", "imports"} /\ MembersNext /\ Narrow'
          /\ UNCHANGED <<vars, slotVars, retentionVars, captureVars>>

ServicesSpec ==
    ServicesInit /\ [][ServicesNext]_<<part, vars, slotVars, retentionVars, captureVars, memberVars>>

-----------------------------------------------------------------------------

\* The types of the part that moves.
ServicesTypeOK ==
    /\ part \in Parts
    /\ part = "locks" => TypeOK
    /\ part = "slots" => SlotsTypeOK
    /\ part = "retention" => RetentionTypeOK
    /\ part = "snapshots" => CaptureTypeOK
    /\ part \in {"members", "imports"} => MembersTypeOK
=============================================================================
