------------------------------- MODULE Readers -------------------------------
(***************************************************************************)
(* What the API takes in piece by piece: the output of docker, and the     *)
(* entries of an archive.  They do not meet: a run has one of them.        *)
(***************************************************************************)
EXTENDS LogLines, ZipEntries

vars == <<lineVars, zipVars>>
Nothing == [reads |-> FALSE]

Init ==
  \/ LineInit /\ zip = Nothing
  \/ ZipInit /\ follower = Nothing

Next ==
  \/ zip = Nothing /\ LineNext /\ UNCHANGED zipVars
  \/ follower = Nothing /\ ZipNext /\ UNCHANGED lineVars

Spec == Init /\ [][Next]_vars

\* The properties of each.
LinesAsRead == zip = Nothing => LinesAsTailed
ArchiveInPlace == follower = Nothing => EntriesStayInside
=============================================================================
