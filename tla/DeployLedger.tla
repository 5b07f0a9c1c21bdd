---------------------------- MODULE DeployLedger ----------------------------
(***************************************************************************)
(* What the deploy endpoint promises, whatever the order of its awaits:    *)
(* a deploy request works on its project alone, only a request that works  *)
(* on a project touches its own Deployment record, and a record moves      *)
(* RUNNING -> SUCCESS | FAILED.  SUCCESS -> FAILED is the one correction   *)
(* allowed, and only to the request that wrote SUCCESS and is still at     *)
(* work: it happens when the write is committed but reported as failed.    *)
(***************************************************************************)
CONSTANTS Projects, Requests, NoProject

VARIABLES
  owner,   \* owner[r]: the project request r is working on, or NoProject
  status   \* status[r]: the status of the Deployment record r created

ledgerVars == <<owner, status>>

Statuses == {"absent", "RUNNING", "SUCCESS", "FAILED"}

MayBecome(old, new) ==
  \/ old = "absent"  /\ new = "RUNNING"
  \/ old = "RUNNING" /\ new \in {"SUCCESS", "FAILED"}
  \/ old = "SUCCESS" /\ new = "FAILED"

Init ==
  /\ owner  = [r \in Requests |-> NoProject]
  /\ status = [r \in Requests |-> "absent"]

\* r starts to work on p, which nobody works on.
Begin(r, p) ==
  /\ owner[r] = NoProject
  /\ \A s \in Requests : owner[s] # p
  /\ owner' = [owner EXCEPT ![r] = p]
  /\ UNCHANGED status

\* r moves its record forward, and may stop working in the same step.
Write(r, new) ==
  /\ owner[r] # NoProject
  /\ MayBecome(status[r], new)
  /\ status' = [status EXCEPT ![r] = new]
  /\ owner' \in {owner, [owner EXCEPT ![r] = NoProject]}

\* r stops working.
End(r) ==
  /\ owner[r] # NoProject
  /\ owner' = [owner EXCEPT ![r] = NoProject]
  /\ UNCHANGED status

\* The process restarts: nobody works any more, the records stay.
Crash ==
  /\ owner' = [r \in Requests |-> NoProject]
  /\ UNCHANGED status

Next ==
  \/ \E r \in Requests, p \in Projects : Begin(r, p)
  \/ \E r \in Requests, new \in Statuses : Write(r, new)
  \/ \E r \in Requests : End(r)
  \/ Crash

Spec == Init /\ [][Next]_ledgerVars
=============================================================================
