---------------------------- MODULE Source_proofs ----------------------------
(***************************************************************************)
(* Proofs about Source, for any number of ingestions, faults and restarts: *)
(* what is on disk while nothing has been promoted, what a failing         *)
(* ingestion leaves of the workspace it found, and what is left beside it. *)
(***************************************************************************)
EXTENDS Source, TLAPS

-----------------------------------------------------------------------------
(* The inductive invariant.                                                *)

\* What the two directories of an ingestion hold, by where it is.
Stages ==
  \A i \in Ingestions :
    /\ pc[i] \in {"idle", "extract", "away"} => backup[i] = "absent"
    /\ pc[i] \in {"away", "promote"} => staged[i] = i
    /\ pc[i] \in {"idle", "extract", "away", "promote", "discard", "restore"}
         => i \notin promoted
    /\ pc[i] \in {"drop", "cleanOk", "done"} => i \in promoted
    /\ pc[i] \in {"cleanOk", "done"} => backup[i] = "absent"
    /\ pc[i] = "done" => staged[i] = "absent"
    /\ pc[i] \in Running => found[i] # "absent"

\* While nothing has been promoted and no rename has failed for a reason of its
\* own, nobody rolls back: what stands in the workspace between the two renames of
\* an ingestion is nothing, or a directory that was just ensured.
NobodyRollsBack ==
  promoted = {} /\ faults = 0 =>
    /\ \A i \in Ingestions : pc[i] \notin {"discard", "restore"}
    /\ (\E i \in Ingestions : pc[i] = "promote") => Replaceable

\* An ingestion that has overlapped no other is the only one at work.
AloneIsAlone ==
  \A i, j \in Ingestions :
    alone[i] /\ pc[i] \in Running /\ pc[j] \in Running => i = j

\* An ingestion at work that overlapped no other knows where what it found is.
AloneKeeps ==
  \A i \in Ingestions : alone[i] /\ i \notin promoted =>
    /\ pc[i] \in {"extract", "away"} => target = found[i]
    /\ pc[i] \in {"promote", "discard", "restore"} => backup[i] = found[i]
    /\ pc[i] \in {"promote", "restore"} => Replaceable
    /\ pc[i] = "cleanErr" => found[i] \in {target, backup[i]}

\* Without faults, one that failed has put everything back.
FailedIsClean ==
  \A i \in Ingestions : faults = 0 =>
    /\ pc[i] = "failed" => staged[i] = "absent"
    /\ pc[i] \in {"cleanErr", "failed"} /\ alone[i] => backup[i] = "absent"

IInv ==
  /\ TypeOK
  /\ Stages
  /\ NobodyRollsBack /\ OriginalRecoverable
  /\ AloneIsAlone /\ AloneKeeps /\ FailedIsClean

\* The original is in the workspace, and nothing has been staged.
LEMMA InitIInv == Init => IInv
BY OriginalAssumption, BoundsAssumption
DEF Init, IInv, TypeOK, Stages, NobodyRollsBack, OriginalRecoverable, AloneIsAlone,
    AloneKeeps, FailedIsClean, Contents, Running, Replaceable

-----------------------------------------------------------------------------
(* One lemma per part: it holds after each action.                         *)

\* Only complete content is renamed onto the workspace.
LEMMA StepTypes == IInv /\ [Next]_vars => TypeOK'
<1> SUFFICES ASSUME IInv, [Next]_vars PROVE TypeOK' OBVIOUS
<1> USE BoundsAssumption DEF IInv, TypeOK, Stages, Contents, Running
<1>1. ASSUME NEW i \in Ingestions, Start(i) PROVE TypeOK'
  BY <1>1 DEF Start, Ensured, Goto
<1>2. ASSUME NEW i \in Ingestions, Step(i) PROVE TypeOK'
  <2>1. CASE Extract(i) BY <2>1 DEF Extract, Goto
  <2>2. CASE ExtractFails(i) BY <2>2 DEF ExtractFails, Goto
  <2>3. CASE MoveAway(i) BY <2>3 DEF MoveAway, Goto, Fault, NoFault
  <2>4. CASE Promote(i) BY <2>4 DEF Promote, Goto, Replaceable, Fault, NoFault
  <2>5. CASE Discard(i) BY <2>5 DEF Discard, Goto, Fault, NoFault
  <2>6. CASE Restore(i) BY <2>6 DEF Restore, Goto, Replaceable, Fault, NoFault
  <2>7. CASE DropBackup(i) BY <2>7 DEF DropBackup, Goto, Fault, NoFault
  <2>8. CASE Cleanup(i) BY <2>8 DEF Cleanup, Goto, Fault, NoFault
  <2> QED BY <1>2, <2>1, <2>2, <2>3, <2>4, <2>5, <2>6, <2>7, <2>8 DEF Step
<1>3. CASE EnsureLayout BY <1>3 DEF EnsureLayout, Ensured
<1>4. CASE Crash BY <1>4 DEF Crash
<1>5. CASE UNCHANGED vars BY <1>5 DEF vars
<1> QED BY <1>1, <1>2, <1>3, <1>4, <1>5 DEF Next

\* Every ingestion makes its way through the directories once.
LEMMA StepStages == IInv /\ [Next]_vars => Stages'
<1> SUFFICES ASSUME IInv, [Next]_vars PROVE Stages' OBVIOUS
<1> USE DEF IInv, TypeOK, Stages, Contents, Running
<1>1. ASSUME NEW i \in Ingestions, Start(i) PROVE Stages'
  BY <1>1 DEF Start, Ensured, Goto
<1>2. ASSUME NEW i \in Ingestions, Step(i) PROVE Stages'
  <2>1. CASE Extract(i) BY <2>1 DEF Extract, Goto
  <2>2. CASE ExtractFails(i) BY <2>2 DEF ExtractFails, Goto
  <2>3. CASE MoveAway(i) BY <2>3 DEF MoveAway, Goto, Fault, NoFault
  <2>4. CASE Promote(i) BY <2>4 DEF Promote, Goto, Replaceable, Fault, NoFault
  <2>5. CASE Discard(i) BY <2>5 DEF Discard, Goto, Fault, NoFault
  <2>6. CASE Restore(i) BY <2>6 DEF Restore, Goto, Replaceable, Fault, NoFault
  <2>7. CASE DropBackup(i) BY <2>7 DEF DropBackup, Goto, Fault, NoFault
  <2>8. CASE Cleanup(i) BY <2>8 DEF Cleanup, Goto, Fault, NoFault
  <2> QED BY <1>2, <2>1, <2>2, <2>3, <2>4, <2>5, <2>6, <2>7, <2>8 DEF Step
<1>3. CASE EnsureLayout BY <1>3 DEF EnsureLayout, Ensured
<1>4. CASE Crash BY <1>4 DEF Crash
<1>5. CASE UNCHANGED vars BY <1>5 DEF vars
<1> QED BY <1>1, <1>2, <1>3, <1>4, <1>5 DEF Next

\* The first rollback needs a fault or a promotion before it.
LEMMA StepRollback == IInv /\ [Next]_vars => NobodyRollsBack'
<1> SUFFICES ASSUME IInv, [Next]_vars PROVE NobodyRollsBack' OBVIOUS
<1> USE DEF IInv, TypeOK, Stages, NobodyRollsBack, Replaceable, Contents, Running
<1>1. ASSUME NEW i \in Ingestions, Start(i) PROVE NobodyRollsBack'
  BY <1>1 DEF Start, Ensured, Goto
<1>2. ASSUME NEW i \in Ingestions, Step(i) PROVE NobodyRollsBack'
  <2>1. CASE Extract(i) BY <2>1 DEF Extract, Goto
  <2>2. CASE ExtractFails(i) BY <2>2 DEF ExtractFails, Goto
  <2>3. CASE MoveAway(i) BY <2>3 DEF MoveAway, Goto, Fault, NoFault
  <2>4. CASE Promote(i) BY <2>4 DEF Promote, Goto, Replaceable, Fault, NoFault
  <2>5. CASE Discard(i) BY <2>5 DEF Discard, Goto, Fault, NoFault
  <2>6. CASE Restore(i) BY <2>6 DEF Restore, Goto, Replaceable, Fault, NoFault
  <2>7. CASE DropBackup(i) BY <2>7 DEF DropBackup, Goto, Fault, NoFault
  <2>8. CASE Cleanup(i) BY <2>8 DEF Cleanup, Goto, Fault, NoFault
  <2> QED BY <1>2, <2>1, <2>2, <2>3, <2>4, <2>5, <2>6, <2>7, <2>8 DEF Step
<1>3. CASE EnsureLayout BY <1>3 DEF EnsureLayout, Ensured
<1>4. CASE Crash BY <1>4 DEF Crash
<1>5. CASE UNCHANGED vars BY <1>5 DEF vars
<1> QED BY <1>1, <1>2, <1>3, <1>4, <1>5 DEF Next

\* The original moves from the workspace into a backup and stays there: no
\* backup is used twice, and none is dropped before a promotion.
LEMMA StepOriginal == IInv /\ [Next]_vars => OriginalRecoverable'
<1> SUFFICES ASSUME IInv, [Next]_vars PROVE OriginalRecoverable' OBVIOUS
<1> USE OriginalAssumption DEF IInv, TypeOK, Stages, NobodyRollsBack,
             OriginalRecoverable, Replaceable, Contents, Running
<1>1. ASSUME NEW i \in Ingestions, Start(i) PROVE OriginalRecoverable'
  BY <1>1 DEF Start, Ensured, Goto
<1>2. ASSUME NEW i \in Ingestions, Step(i) PROVE OriginalRecoverable'
  <2>1. CASE Extract(i) BY <2>1 DEF Extract, Goto
  <2>2. CASE ExtractFails(i) BY <2>2 DEF ExtractFails, Goto
  <2>3. CASE MoveAway(i) BY <2>3 DEF MoveAway, Goto, Fault, NoFault
  <2>4. CASE Promote(i) BY <2>4 DEF Promote, Goto, Replaceable, Fault, NoFault
  <2>5. CASE Discard(i) BY <2>5 DEF Discard, Goto, Fault, NoFault
  <2>6. CASE Restore(i) BY <2>6 DEF Restore, Goto, Replaceable, Fault, NoFault
  <2>7. CASE DropBackup(i) BY <2>7 DEF DropBackup, Goto, Fault, NoFault
  <2>8. CASE Cleanup(i) BY <2>8 DEF Cleanup, Goto, Fault, NoFault
  <2> QED BY <1>2, <2>1, <2>2, <2>3, <2>4, <2>5, <2>6, <2>7, <2>8 DEF Step
<1>3. CASE EnsureLayout BY <1>3 DEF EnsureLayout, Ensured
<1>4. CASE Crash BY <1>4 DEF Crash
<1>5. CASE UNCHANGED vars BY <1>5 DEF vars
<1> QED BY <1>1, <1>2, <1>3, <1>4, <1>5 DEF Next

\* Whoever starts while another is at work ends the solitude of both.
LEMMA StepAlone == IInv /\ [Next]_vars => AloneIsAlone'
<1> SUFFICES ASSUME IInv, [Next]_vars PROVE AloneIsAlone' OBVIOUS
<1> USE DEF IInv, TypeOK, AloneIsAlone, Running
<1>1. ASSUME NEW i \in Ingestions, Start(i) PROVE AloneIsAlone'
  BY <1>1 DEF Start, Ensured, Goto
<1>2. ASSUME NEW i \in Ingestions, Step(i) PROVE AloneIsAlone'
  <2>1. CASE Extract(i) BY <2>1 DEF Extract, Goto
  <2>2. CASE ExtractFails(i) BY <2>2 DEF ExtractFails, Goto
  <2>3. CASE MoveAway(i) BY <2>3 DEF MoveAway, Goto, Fault, NoFault
  <2>4. CASE Promote(i) BY <2>4 DEF Promote, Goto, Replaceable, Fault, NoFault
  <2>5. CASE Discard(i) BY <2>5 DEF Discard, Goto, Fault, NoFault
  <2>6. CASE Restore(i) BY <2>6 DEF Restore, Goto, Replaceable, Fault, NoFault
  <2>7. CASE DropBackup(i) BY <2>7 DEF DropBackup, Goto, Fault, NoFault
  <2>8. CASE Cleanup(i) BY <2>8 DEF Cleanup, Goto, Fault, NoFault
  <2> QED BY <1>2, <2>1, <2>2, <2>3, <2>4, <2>5, <2>6, <2>7, <2>8 DEF Step
<1>3. CASE EnsureLayout BY <1>3 DEF EnsureLayout, Ensured
<1>4. CASE Crash BY <1>4 DEF Crash
<1>5. CASE UNCHANGED vars BY <1>5 DEF vars
<1> QED BY <1>1, <1>2, <1>3, <1>4, <1>5 DEF Next

\* Nobody else touches the directories of an ingestion that is alone, except to
\* ensure the workspace while it is away.
LEMMA StepKeeps == IInv /\ [Next]_vars => AloneKeeps'
<1> SUFFICES ASSUME IInv, [Next]_vars PROVE AloneKeeps' OBVIOUS
<1> USE DEF IInv, TypeOK, Stages, AloneIsAlone, AloneKeeps, Replaceable, Running
<1>1. ASSUME NEW i \in Ingestions, Start(i) PROVE AloneKeeps'
  BY <1>1 DEF Start, Ensured, Goto
<1>2. ASSUME NEW i \in Ingestions, Step(i) PROVE AloneKeeps'
  <2>1. CASE Extract(i) BY <2>1 DEF Extract, Goto
  <2>2. CASE ExtractFails(i) BY <2>2 DEF ExtractFails, Goto
  <2>3. CASE MoveAway(i) BY <2>3 DEF MoveAway, Goto, Fault, NoFault
  <2>4. CASE Promote(i) BY <2>4 DEF Promote, Goto, Replaceable, Fault, NoFault
  <2>5. CASE Discard(i) BY <2>5 DEF Discard, Goto, Fault, NoFault
  <2>6. CASE Restore(i) BY <2>6 DEF Restore, Goto, Replaceable, Fault, NoFault
  <2>7. CASE DropBackup(i) BY <2>7 DEF DropBackup, Goto, Fault, NoFault
  <2>8. CASE Cleanup(i) BY <2>8 DEF Cleanup, Goto, Fault, NoFault
  <2> QED BY <1>2, <2>1, <2>2, <2>3, <2>4, <2>5, <2>6, <2>7, <2>8 DEF Step
<1>3. CASE EnsureLayout BY <1>3 DEF EnsureLayout, Ensured
<1>4. CASE Crash BY <1>4 DEF Crash
<1>5. CASE UNCHANGED vars BY <1>5 DEF vars
<1> QED BY <1>1, <1>2, <1>3, <1>4, <1>5 DEF Next

\* The rollback of an ingestion that is alone finds the workspace free.
LEMMA StepFailed == IInv /\ [Next]_vars => FailedIsClean'
<1> SUFFICES ASSUME IInv, [Next]_vars PROVE FailedIsClean' OBVIOUS
<1> USE BoundsAssumption DEF IInv, TypeOK, Stages, AloneKeeps, FailedIsClean,
             Replaceable, Running
<1>1. ASSUME NEW i \in Ingestions, Start(i) PROVE FailedIsClean'
  BY <1>1 DEF Start, Ensured, Goto
<1>2. ASSUME NEW i \in Ingestions, Step(i) PROVE FailedIsClean'
  <2>1. CASE Extract(i) BY <2>1 DEF Extract, Goto
  <2>2. CASE ExtractFails(i) BY <2>2 DEF ExtractFails, Goto
  <2>3. CASE MoveAway(i) BY <2>3 DEF MoveAway, Goto, Fault, NoFault
  <2>4. CASE Promote(i) BY <2>4 DEF Promote, Goto, Replaceable, Fault, NoFault
  <2>5. CASE Discard(i) BY <2>5 DEF Discard, Goto, Fault, NoFault
  <2>6. CASE Restore(i) BY <2>6 DEF Restore, Goto, Replaceable, Fault, NoFault
  <2>7. CASE DropBackup(i) BY <2>7 DEF DropBackup, Goto, Fault, NoFault
  <2>8. CASE Cleanup(i) BY <2>8 DEF Cleanup, Goto, Fault, NoFault
  <2> QED BY <1>2, <2>1, <2>2, <2>3, <2>4, <2>5, <2>6, <2>7, <2>8 DEF Step
<1>3. CASE EnsureLayout BY <1>3 DEF EnsureLayout, Ensured
<1>4. CASE Crash BY <1>4 DEF Crash
<1>5. CASE UNCHANGED vars BY <1>5 DEF vars
<1> QED BY <1>1, <1>2, <1>3, <1>4, <1>5 DEF Next

-----------------------------------------------------------------------------
(* The theorems.                                                           *)

\* All parts hold together, whatever overlaps, fails or is cut off.
THEOREM Inductive == Spec => []IInv
<1>1. IInv /\ [Next]_vars => IInv'
  BY StepTypes, StepStages, StepRollback, StepOriginal, StepAlone, StepKeeps, StepFailed
  DEF IInv
<1> QED BY <1>1, InitIInv, PTL DEF Spec

\* The workspace and the backups only ever hold a whole source, or nothing: no
\* half-extracted directory is renamed into place.
THEOREM TypesOK == Spec => []TypeOK
<1>1. IInv => TypeOK
  BY DEF IInv
<1> QED BY <1>1, Inductive, PTL

\* As long as nothing has been promoted and no rename has failed of its own, the
\* original source is still on disk, whichever ingestions overlap and wherever the
\* process dies.
THEOREM OriginalAlwaysRecoverable == Spec => []OriginalRecoverable
<1>1. IInv => OriginalRecoverable
  BY DEF IInv
<1> QED BY <1>1, Inductive, PTL

\* Neither a successful ingestion nor, without faults, a failed one leaves a staging
\* directory; a backup stays only where the rollback met another ingestion.
THEOREM NothingIsLeftBehind == Spec => []NothingLeftBehind
<1>1. IInv => NothingLeftBehind
  BY DEF IInv, Stages, FailedIsClean, NothingLeftBehind
<1> QED BY <1>1, Inductive, PTL

\* The step in which an ingestion that overlapped no other fails, not having been
\* promoted, leaves what it found in the workspace or in its backup.
THEOREM AloneFailsHarmlessly == Spec => FailingAloneIsHarmless
<1>1. IInv /\ [Next]_vars =>
        [\A i \in Ingestions :
           pc[i] = "cleanErr" /\ pc'[i] = "failed" /\ alone[i] /\ i \notin promoted
             => found[i] \in {target', backup'[i]}]_vars
  <2> SUFFICES ASSUME IInv, [Next]_vars, NEW i \in Ingestions,
                      pc[i] = "cleanErr", pc'[i] = "failed", alone[i], i \notin promoted
               PROVE  found[i] \in {target', backup'[i]}
    OBVIOUS
  <2>1. found[i] \in {target, backup[i]}
    BY DEF IInv, AloneKeeps
  <2>2. Cleanup(i)
    BY DEF IInv, TypeOK, Running, Next, Step, Start, Extract, ExtractFails, MoveAway, Promote,
           Discard, Restore, DropBackup, Cleanup, EnsureLayout, Crash, vars, Goto
  <2> QED BY <2>1, <2>2 DEF Cleanup
<1> QED BY <1>1, Inductive, PTL DEF Spec, FailingAloneIsHarmless
=============================================================================
