------------------------------ MODULE WebPages ------------------------------
(***************************************************************************)
(* The web application: one of its pages is mounted (Routes, in App.tsx),  *)
(* and sends its requests with the session that all of them share.         *)
(*                                                                         *)
(* A visit stays on its page.  What a page does when it is left, and how a *)
(* session begins and ends, is in LogsStream and in Session.               *)
(***************************************************************************)
EXTENDS AuditPage, ProjectPage, RuntimeTabs, ProjectsPage, Dashboard

Pages == {"dashboard", "projects", "project", "services", "domains", "audit"}

vars ==
  <<clientVars, auditVars, projectVars, tabVars, projectsVars, dashVars>>

Init ==
  /\ route \in Pages
  /\ ClientInit
  /\ AuditInit /\ ProjectInit /\ TabInit /\ ProjectsInit /\ DashInit

Next ==
  \/ AuditNext /\ UNCHANGED <<projectVars, tabVars, projectsVars, dashVars>>
  \/ ProjectNext /\ UNCHANGED <<auditVars, tabVars, projectsVars, dashVars>>
  \/ TabNext /\ UNCHANGED <<auditVars, projectVars, projectsVars, dashVars>>
  \/ ProjectsNext /\ UNCHANGED <<auditVars, projectVars, tabVars, dashVars>>
  \/ DashNext /\ UNCHANGED <<auditVars, projectVars, tabVars, projectsVars>>

Spec == Init /\ [][Next]_vars

\* Every page, and what the API keeps for it, has its type.
PagesTypeOK ==
  /\ route \in Pages /\ ClientTypeOK
  /\ AuditTypeOK /\ ProjectTypeOK /\ TabTypeOK /\ ProjectsTypeOK /\ DashTypeOK
=============================================================================
