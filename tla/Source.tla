------------------------------- MODULE Source -------------------------------
(***************************************************************************)
(* Source ingestion of one project: uploadZipSource and cloneGitSource of  *)
(* apps/api/src/source/service.ts, which stage the new content and then    *)
(* swap it for the workspace (src/ or repo/) with two renames.  Nothing    *)
(* locks a project, so ingestions of the same kind overlap, and every      *)
(* handler that calls ensureProjectRuntimeLayout may recreate the          *)
(* workspace between the renames.                                          *)
(*                                                                         *)
(* The file system is that of Linux: rename onto a directory replaces an   *)
(* empty one and fails on any other.  A directory is known by its content. *)
(***************************************************************************)
EXTENDS Naturals

CONSTANTS
  Ingestions,  \* uploads or clones; each brings content of its own
  Original,    \* what the workspace held before
  MaxFaults,   \* bound on renames and rms that fail for a reason of their own
  MaxCrashes   \* bound on the restarts of the API process

ASSUME OriginalAssumption == Original \notin Ingestions \cup {"absent", "empty"}
ASSUME BoundsAssumption == MaxFaults \in Nat /\ MaxCrashes \in Nat

VARIABLES
  target,    \* content of the workspace directory
  staged,    \* staged[i]: .src-upload-* or .repo-clone-* of ingestion i
  backup,    \* backup[i]: .src-previous-* or .repo-previous-* of i
  pc,        \* pc[i]: the await i is suspended in
  promoted,  \* history: ingestions whose content became the workspace
  alone,     \* history: i has not overlapped another ingestion
  found,     \* history: content of the workspace when i started
  faults, crashes

vars == <<target, staged, backup, pc, promoted, alone, found, faults, crashes>>

Contents == Ingestions \cup {Original, "absent", "empty"}
Running  == {"extract", "away", "promote", "discard", "restore", "drop",
             "cleanOk", "cleanErr"}

TypeOK ==
  /\ target \in Contents
  /\ staged \in [Ingestions -> Contents \cup {"partial"}]
  /\ backup \in [Ingestions -> Contents]
  /\ pc \in [Ingestions -> {"idle", "done", "failed", "dead"} \cup Running]
  /\ promoted \in SUBSET Ingestions
  /\ alone \in [Ingestions -> BOOLEAN]
  /\ found \in [Ingestions -> Contents]
  /\ faults \in 0 .. MaxFaults
  /\ crashes \in 0 .. MaxCrashes

Init ==
  /\ target = Original
  /\ staged = [i \in Ingestions |-> "absent"]
  /\ backup = [i \in Ingestions |-> "absent"]
  /\ pc = [i \in Ingestions |-> "idle"]
  /\ promoted = {}
  /\ alone = [i \in Ingestions |-> TRUE]
  /\ found = [i \in Ingestions |-> "absent"]
  /\ faults = 0
  /\ crashes = 0

-----------------------------------------------------------------------------
(* Helpers                                                                 *)

Goto(i, where) == pc' = [pc EXCEPT ![i] = where]

Fault == faults < MaxFaults /\ faults' = faults + 1

NoFault == UNCHANGED faults

\* A directory can be renamed onto the workspace.
Replaceable == target \in {"absent", "empty"}

\* mkdir of the workspace with recursive: true.
Ensured == IF target = "absent" THEN "empty" ELSE target

-----------------------------------------------------------------------------
(* Ingestion i                                                             *)

\* The layout is ensured and the staging directory made.
Start(i) ==
  /\ pc[i] = "idle"
  /\ target' = Ensured
  /\ staged' = [staged EXCEPT ![i] = "partial"]
  /\ LET others == {j \in Ingestions \ {i} : pc[j] \in Running}
     IN  alone' = [j \in Ingestions |->
                     alone[j] /\ (others = {} \/ j \notin others \cup {i})]
  /\ found' = [found EXCEPT ![i] = Ensured]
  /\ Goto(i, "extract")
  /\ UNCHANGED <<backup, promoted, faults, crashes>>

\* The archive is extracted, or the repository cloned, completely.
Extract(i) ==
  /\ pc[i] = "extract"
  /\ staged' = [staged EXCEPT ![i] = i]
  /\ Goto(i, "away")
  /\ UNCHANGED <<target, backup, promoted, alone, found, faults, crashes>>

\* Mutant: the failure of the clone is swallowed.
ExtractFailsSilently(i) ==
  /\ pc[i] = "extract"
  /\ Goto(i, "away")
  /\ UNCHANGED <<target, staged, backup, promoted, alone, found, faults, crashes>>

\* A bad archive, a limit, a failed or timed out clone.
ExtractFails(i) ==
  /\ pc[i] = "extract"
  /\ Goto(i, "cleanErr")
  /\ UNCHANGED <<target, staged, backup, promoted, alone, found, faults, crashes>>

\* Mutant: the workspace is removed, not moved.
MoveAwayDeletes(i) ==
  /\ pc[i] = "away"
  /\ target' = "absent"
  /\ Goto(i, "promote")
  /\ NoFault
  /\ UNCHANGED <<staged, backup, promoted, alone, found, crashes>>

\* rename(targetDir, backupDir): fails when the workspace is not there.
MoveAway(i) ==
  /\ pc[i] = "away"
  /\ \/ /\ target # "absent"
        /\ backup' = [backup EXCEPT ![i] = target]
        /\ target' = "absent"
        /\ Goto(i, "promote")
        /\ NoFault
     \/ /\ (target = "absent" /\ NoFault) \/ Fault
        /\ Goto(i, "cleanErr")
        /\ UNCHANGED <<target, backup>>
  /\ UNCHANGED <<staged, promoted, alone, found, crashes>>

\* rename(stagedDir, targetDir): fails when the workspace is back and not empty.
Promote(i) ==
  /\ pc[i] = "promote"
  /\ \/ /\ Replaceable
        /\ target' = staged[i]
        /\ staged' = [staged EXCEPT ![i] = "absent"]
        /\ promoted' = promoted \cup {i}
        /\ Goto(i, "drop")
        /\ NoFault
     \/ /\ (~Replaceable /\ NoFault) \/ Fault
        /\ Goto(i, "discard")
        /\ UNCHANGED <<target, staged, promoted>>
  /\ UNCHANGED <<backup, alone, found, crashes>>

\* catch: rm -rf of whatever the workspace holds by now.
Discard(i) ==
  /\ pc[i] = "discard"
  /\ \/ /\ target' = "absent"
        /\ Goto(i, "restore")
        /\ NoFault
     \/ /\ Fault
        /\ Goto(i, "cleanErr")
        /\ UNCHANGED target
  /\ UNCHANGED <<staged, backup, promoted, alone, found, crashes>>

\* Mutant: no rename back, and the finally removes the backup on every way out.
RestoreForgotten(i) ==
  /\ pc[i] = "restore"
  /\ backup' = [backup EXCEPT ![i] = "absent"]
  /\ NoFault
  /\ Goto(i, "cleanErr")
  /\ UNCHANGED <<target, staged, promoted, alone, found, crashes>>

\* catch: rename(backupDir, targetDir), then the error is thrown on.
Restore(i) ==
  /\ pc[i] = "restore"
  /\ \/ /\ Replaceable
        /\ target' = backup[i]
        /\ backup' = [backup EXCEPT ![i] = "absent"]
        /\ NoFault
     \/ /\ (~Replaceable /\ NoFault) \/ Fault
        /\ UNCHANGED <<target, backup>>
  /\ Goto(i, "cleanErr")
  /\ UNCHANGED <<staged, promoted, alone, found, crashes>>

\* Mutant: the finally removes the staging directory only.
DropBackupSkipped(i) ==
  /\ pc[i] = "drop"
  /\ Goto(i, "cleanOk")
  /\ UNCHANGED <<target, staged, backup, promoted, alone, found, faults, crashes>>

\* finally after a promotion: a failing rm fails the whole ingestion.
DropBackup(i) ==
  /\ pc[i] = "drop"
  /\ \/ /\ backup' = [backup EXCEPT ![i] = "absent"]
        /\ Goto(i, "cleanOk")
        /\ NoFault
     \/ /\ Fault
        /\ Goto(i, "cleanErr")
        /\ UNCHANGED backup
  /\ UNCHANGED <<target, staged, promoted, alone, found, crashes>>

\* The finally blocks remove what is left of the staging directory (their rm may
\* fail on it); then the caller is answered.
Cleanup(i) ==
  /\ pc[i] \in {"cleanOk", "cleanErr"}
  /\ \/ /\ staged' = [staged EXCEPT ![i] = "absent"]
        /\ Goto(i, IF pc[i] = "cleanOk" THEN "done" ELSE "failed")
        /\ NoFault
     \/ /\ staged[i] # "absent" /\ Fault
        /\ Goto(i, "failed")
        /\ UNCHANGED staged
  /\ UNCHANGED <<target, backup, promoted, alone, found, crashes>>

-----------------------------------------------------------------------------
(* The rest of the process                                                 *)

\* Another handler ensures the layout: env upload, the other kind of ingestion.
EnsureLayout ==
  /\ target = "absent"
  /\ target' = Ensured
  /\ UNCHANGED <<staged, backup, pc, promoted, alone, found, faults, crashes>>

Crash ==
  /\ crashes < MaxCrashes
  /\ crashes' = crashes + 1
  /\ pc' = [i \in Ingestions |-> IF pc[i] \in Running THEN "dead" ELSE pc[i]]
  /\ UNCHANGED <<target, staged, backup, promoted, alone, found, faults>>

Step(i) ==
  \/ Extract(i) \/ ExtractFails(i)
  \/ MoveAway(i) \/ Promote(i) \/ Discard(i) \/ Restore(i) \/ DropBackup(i)
  \/ Cleanup(i)

Next ==
  \/ \E i \in Ingestions : Start(i)
  \/ \E i \in Ingestions : Step(i)
  \/ EnsureLayout
  \/ Crash

Spec == Init /\ [][Next]_vars

-----------------------------------------------------------------------------
(* Properties                                                              *)

\* While nothing has been promoted the original source is still on disk, in the
\* workspace or in some backup: whatever overlaps and wherever the process dies.
\* (With a failing rename and an overlap it is not: see the README.)
OriginalRecoverable ==
  promoted = {} /\ faults = 0
    => Original \in {target} \cup {backup[i] : i \in Ingestions}

\* An ingestion that overlapped no other and fails before its promotion leaves
\* the content it found: in the workspace, or in its backup if a step of the
\* rollback failed too.
FailingAloneIsHarmless ==
  [][\A i \in Ingestions :
       pc[i] = "cleanErr" /\ pc'[i] = "failed" /\ alone[i] /\ i \notin promoted
         => found[i] \in {target', backup'[i]}]_vars

\* A successful ingestion leaves nothing beside the workspace.  Neither does one
\* that failed, unless a rename or rm failed, or the rollback met another ingestion.
NothingLeftBehind ==
  \A i \in Ingestions :
    /\ pc[i] = "done" => staged[i] = "absent" /\ backup[i] = "absent"
    /\ pc[i] = "failed" /\ faults = 0
         => staged[i] = "absent" /\ (alone[i] => backup[i] = "absent")

Quiet == \A i \in Ingestions : pc[i] \in {"idle", "done", "failed"}

\* docs/ARCHITECTURE.md: when a new source ingestion fails, the previous working
\* source is not lost.  So whenever no ingestion is at work there is a source.
SourceSurvives == Quiet => target \notin {"absent", "empty"}
=============================================================================
