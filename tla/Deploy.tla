------------------------------- MODULE Deploy -------------------------------
(***************************************************************************)
(* POST /api/projects/:id/deploy: apps/api/src/deploy/service.ts with its  *)
(* lock (lock.ts), preflight (preflight.ts) and records (repository.ts).   *)
(*                                                                         *)
(* Requests interleave at every await of deployProject; the code between   *)
(* two awaits is one step.  Files, the database, the docker child and the  *)
(* audit log may fail at any call.  A database write can also be committed *)
(* and reported as failed (the connection is lost before the reply).       *)
(***************************************************************************)
EXTENDS Naturals

CONSTANTS
  Projects,    \* project ids
  Requests,    \* deploy requests; each is one HTTP call
  NoProject,   \* the project of a request that has not arrived
  NoRequest,   \* the writer of a deploy log that does not exist
  MaxCrashes   \* bound on the restarts of the API process

ASSUME NoProjectAssumption == NoProject \notin Projects
ASSUME NoRequestAssumption == NoRequest \notin Requests
ASSUME MaxCrashesAssumption == MaxCrashes \in Nat

VARIABLES
  pc,        \* pc[r]: the await r is suspended in
  project,   \* project[r]: the :id of the request
  lock,      \* activeProjectIds of the in-memory lock service
  record,    \* record[r]: status of the Deployment row r created
  exit,      \* exit[r]: how r's docker compose ended
  child,     \* requests whose docker compose process is alive
  log,       \* log[p]: who wrote the project's last-deploy.log
  audit,     \* audit[r]: message of r's DEPLOY_FINISH audit row
  notice,    \* notice[r]: status sent to Telegram
  response,  \* response[r]: what the caller of r got
  crashes    \* restarts so far

vars == <<pc, project, lock, record, exit, child, log, audit, notice,
          response, crashes>>

\* Waiting for a result while holding the project lock.
Holding == {"create", "startAudit", "env", "command", "log", "finish",
            "catchLog", "catchFinish", "finishAudit", "catchAudit", "notify",
            "catchNotify"}
Waiting == {"preflight"} \cup Holding
Over    == {"done", "dead"}
Positions == {"idle"} \cup Waiting \cup Over

Records   == {"absent", "RUNNING", "SUCCESS", "FAILED"}
Exits     == {"none", "zero", "nonzero", "timeout"}
Audits    == {"none", "finished", "exited non-zero", "timed out",
              "internal error"}
Responses == {"none", "rejected", "conflict", "error", "SUCCESS", "FAILED"}

TypeOK ==
  /\ pc \in [Requests -> Positions]
  /\ project \in [Requests -> Projects \cup {NoProject}]
  /\ lock \in SUBSET Projects
  /\ record \in [Requests -> Records]
  /\ exit \in [Requests -> Exits]
  /\ child \in SUBSET Requests
  /\ log \in [Projects -> Requests \cup {NoRequest}]
  /\ audit \in [Requests -> Audits]
  /\ notice \in [Requests -> {"none", "SUCCESS", "FAILED"}]
  /\ response \in [Requests -> Responses]
  /\ crashes \in 0 .. MaxCrashes

Init ==
  /\ pc = [r \in Requests |-> "idle"]
  /\ project = [r \in Requests |-> NoProject]
  /\ lock = {}
  /\ record = [r \in Requests |-> "absent"]
  /\ exit = [r \in Requests |-> "none"]
  /\ child = {}
  /\ log = [p \in Projects |-> NoRequest]
  /\ audit = [r \in Requests |-> "none"]
  /\ notice = [r \in Requests |-> "none"]
  /\ response = [r \in Requests |-> "none"]
  /\ crashes = 0

-----------------------------------------------------------------------------
(* Helpers                                                                 *)

Goto(r, where) == pc' = [pc EXCEPT ![r] = where]

Answer(r, what) == response' = [response EXCEPT ![r] = what]

\* The request ends inside the outer try: its finally releases the lock.
Leave(r, what) ==
  /\ Goto(r, "done")
  /\ Answer(r, what)
  /\ lock' = lock \ {project[r]}

Stored(r, status) == [record EXCEPT ![r] = status]

\* Mutant: the exit is stored as it is.
DeploymentStatusRaw(r) == exit[r]

\* deploymentStatus: only exit code 0 is a success.
DeploymentStatus(r) == IF exit[r] = "zero" THEN "SUCCESS" ELSE "FAILED"

FinishMessage(r) ==
  CASE exit[r] = "zero"    -> "finished"
    [] exit[r] = "timeout" -> "timed out"
    [] OTHER               -> "exited non-zero"

-----------------------------------------------------------------------------
(* Before the lock                                                         *)

Arrive(r, p) ==
  /\ pc[r] = "idle"
  /\ project' = [project EXCEPT ![r] = p]
  /\ Goto(r, "preflight")
  /\ UNCHANGED <<lock, record, exit, child, log, audit, notice,
                 response, crashes>>

\* No project, no source, no compose file, docker down or undecryptable env.
PreflightFails(r) ==
  /\ pc[r] = "preflight"
  /\ Goto(r, "done")
  /\ Answer(r, "rejected")
  /\ UNCHANGED <<project, lock, record, exit, child, log, audit,
                 notice, crashes>>

\* Mutant: the lock is taken without looking whether it is free.
AcquireLockUnchecked(r) ==
  /\ pc[r] = "preflight"
  /\ lock' = lock \cup {project[r]}
  /\ Goto(r, "create")
  /\ UNCHANGED <<project, record, exit, child, log, audit, notice,
                 response, crashes>>

\* Preflight passes, and acquire finds no active deploy of the project.
AcquireLock(r) ==
  /\ pc[r] = "preflight"
  /\ project[r] \notin lock
  /\ lock' = lock \cup {project[r]}
  /\ Goto(r, "create")
  /\ UNCHANGED <<project, record, exit, child, log, audit, notice,
                 response, crashes>>

\* Mutant: the conflict is raised inside the try whose finally releases.
LockIsTakenReleases(r) ==
  /\ pc[r] = "preflight"
  /\ project[r] \in lock
  /\ Leave(r, "conflict")
  /\ UNCHANGED <<project, record, exit, child, log, audit, notice,
                 crashes>>

\* Preflight passes, but the project is being deployed: 409.
LockIsTaken(r) ==
  /\ pc[r] = "preflight"
  /\ project[r] \in lock
  /\ Goto(r, "done")
  /\ Answer(r, "conflict")
  /\ UNCHANGED <<project, lock, record, exit, child, log, audit,
                 notice, crashes>>

-----------------------------------------------------------------------------
(* Under the lock                                                          *)

CreateDeployment(r) ==
  /\ pc[r] = "create"
  /\ \/ /\ record' = Stored(r, "RUNNING")
        /\ Goto(r, "startAudit")
        /\ UNCHANGED <<lock, response>>
     \/ /\ record' \in {record, Stored(r, "RUNNING")}
        /\ Leave(r, "error")
  /\ UNCHANGED <<project, exit, child, log, audit, notice, crashes>>

\* DEPLOY_START is written best effort; the row itself is not modelled.
WriteStartAudit(r) ==
  /\ pc[r] = "startAudit"
  /\ Goto(r, "env")
  /\ UNCHANGED <<project, lock, record, exit, child, log, audit,
                 notice, response, crashes>>

\* The encrypted env file, if there was one at preflight, is read and decrypted
\* first.  That may fail, and spawn may throw.
StartCommand(r) ==
  /\ pc[r] = "env"
  /\ \/ /\ child' = child \cup {r}
        /\ Goto(r, "command")
     \/ /\ Goto(r, "catchLog")
        /\ UNCHANGED child
  /\ UNCHANGED <<project, lock, record, exit, log, audit, notice,
                 response, crashes>>

\* Mutant: the lock covers the command only.
CommandEndsUnlocks(r) ==
  /\ pc[r] = "command"
  /\ child' = child \ {r}
  /\ \E e \in {"zero", "nonzero", "timeout"} : exit' = [exit EXCEPT ![r] = e]
  /\ Goto(r, "log")
  /\ lock' = lock \ {project[r]}
  /\ UNCHANGED <<project, record, log, audit, notice, response, crashes>>

\* runDeployCommand resolves (module DeployRunner).
CommandEnds(r) ==
  /\ pc[r] = "command"
  /\ child' = child \ {r}
  /\ \E e \in {"zero", "nonzero", "timeout"} : exit' = [exit EXCEPT ![r] = e]
  /\ Goto(r, "log")
  /\ UNCHANGED <<project, lock, record, log, audit, notice, response,
                 crashes>>

\* writeFile(deployLogPath, ...): a failed write may still have truncated it.
WriteLog(r) ==
  /\ pc[r] = "log"
  /\ \/ /\ log' = [log EXCEPT ![project[r]] = r]
        /\ Goto(r, "finish")
     \/ /\ log' \in {log, [log EXCEPT ![project[r]] = r]}
        /\ Goto(r, "catchLog")
  /\ UNCHANGED <<project, lock, record, exit, child, audit, notice,
                 response, crashes>>

FinishDeployment(r) ==
  /\ pc[r] = "finish"
  /\ \/ /\ record' = Stored(r, DeploymentStatus(r))
        /\ Goto(r, "finishAudit")
     \/ /\ record' \in {record, Stored(r, DeploymentStatus(r))}
        /\ Goto(r, "catchLog")
  /\ UNCHANGED <<project, lock, exit, child, log, audit, notice,
                 response, crashes>>

\* Mutant: the lock is released after the try, not in a finally.
WriteCatchLogStrands(r) ==
  /\ pc[r] = "catchLog"
  /\ \/ /\ log' = [log EXCEPT ![project[r]] = r]
        /\ Goto(r, "catchFinish")
        /\ UNCHANGED response
     \/ /\ log' \in {log, [log EXCEPT ![project[r]] = r]}
        /\ Goto(r, "done")
        /\ Answer(r, "error")
  /\ UNCHANGED <<project, lock, record, exit, child, audit, notice,
                 crashes>>

\* The catch of the inner try: any failure after DEPLOY_START lands here.
WriteCatchLog(r) ==
  /\ pc[r] = "catchLog"
  /\ \/ /\ log' = [log EXCEPT ![project[r]] = r]
        /\ Goto(r, "catchFinish")
        /\ UNCHANGED <<lock, response>>
     \/ /\ log' \in {log, [log EXCEPT ![project[r]] = r]}
        /\ Leave(r, "error")
  /\ UNCHANGED <<project, record, exit, child, audit, notice, crashes>>

\* Mutant: the second finishDeployment is best effort, like the audit.
CatchFinishBestEffort(r) ==
  /\ pc[r] = "catchFinish"
  /\ record' \in {record, Stored(r, "FAILED")}
  /\ Goto(r, "catchAudit")
  /\ UNCHANGED <<project, lock, exit, child, log, audit, notice,
                 response, crashes>>

CatchFinishDeployment(r) ==
  /\ pc[r] = "catchFinish"
  /\ \/ /\ record' = Stored(r, "FAILED")
        /\ Goto(r, "catchAudit")
        /\ UNCHANGED <<lock, response>>
     \/ /\ record' \in {record, Stored(r, "FAILED")}
        /\ Leave(r, "error")
  /\ UNCHANGED <<project, exit, child, log, audit, notice, crashes>>

\* DEPLOY_FINISH is written best effort: a failure changes nothing else.
WriteFinishAudit(r) ==
  /\ pc[r] = "finishAudit"
  /\ audit' \in {audit, [audit EXCEPT ![r] = FinishMessage(r)]}
  /\ Goto(r, "notify")
  /\ UNCHANGED <<project, lock, record, exit, child, log, notice,
                 response, crashes>>

WriteCatchAudit(r) ==
  /\ pc[r] = "catchAudit"
  /\ audit' \in {audit, [audit EXCEPT ![r] = "internal error"]}
  /\ Goto(r, "catchNotify")
  /\ UNCHANGED <<project, lock, record, exit, child, log, notice,
                 response, crashes>>

\* The status both the notification and the response carry.
Outcome(r) == IF pc[r] = "notify" THEN DeploymentStatus(r) ELSE "FAILED"

\* Telegram may be disabled or fail; then the request returns its record.
NotifyAndReturn(r) ==
  /\ pc[r] \in {"notify", "catchNotify"}
  /\ notice' \in {notice, [notice EXCEPT ![r] = Outcome(r)]}
  /\ Leave(r, Outcome(r))
  /\ UNCHANGED <<project, record, exit, child, log, audit, crashes>>

-----------------------------------------------------------------------------
(* The process                                                             *)

\* The API process dies: the lock set and every pending await are gone.
Crash ==
  /\ crashes < MaxCrashes
  /\ crashes' = crashes + 1
  /\ lock' = {}
  /\ pc' = [r \in Requests |-> IF pc[r] \in Waiting THEN "dead" ELSE pc[r]]
  /\ UNCHANGED <<project, record, exit, child, log, audit, notice,
                 response>>

\* A docker compose that outlived the API process that started it.
OrphanEnds(r) ==
  /\ pc[r] = "dead"
  /\ r \in child
  /\ child' = child \ {r}
  /\ UNCHANGED <<pc, project, lock, record, exit, log, audit, notice,
                 response, crashes>>

-----------------------------------------------------------------------------
(* Specification                                                           *)

\* The steps of a request that has arrived.
Step(r) ==
  \/ PreflightFails(r)
  \/ AcquireLock(r) \/ LockIsTaken(r)
  \/ CreateDeployment(r) \/ WriteStartAudit(r)
  \/ StartCommand(r) \/ CommandEnds(r)
  \/ WriteLog(r) \/ FinishDeployment(r) \/ WriteFinishAudit(r)
  \/ WriteCatchLog(r) \/ CatchFinishDeployment(r) \/ WriteCatchAudit(r)
  \/ NotifyAndReturn(r)

Next ==
  \/ \E r \in Requests, p \in Projects : Arrive(r, p)
  \/ \E r \in Requests : Step(r)
  \/ \E r \in Requests : OrphanEnds(r)
  \/ Crash

Spec == Init /\ [][Next]_vars

\* Every await settles: the command by its timeout, the others by the timeouts
\* of the database client and of fetch.  Nobody has to send a request.
Fairness == \A r \in Requests : WF_vars(Step(r))

FairSpec == Spec /\ Fairness

-----------------------------------------------------------------------------
(* Properties                                                              *)

\* The lock set is exactly the set of projects some request is working on, and
\* no project has two such requests: the finally of deployProject releases on
\* every way out and never on behalf of another request.
LockMatchesHolder ==
  /\ lock = {project[r] : r \in {q \in Requests : pc[q] \in Holding}}
  /\ \A r, s \in Requests :
       pc[r] \in Holding /\ pc[s] \in Holding /\ r # s
         => project[r] # project[s]

\* Two docker compose of one project never run side by side, except next to one
\* that a restart of the API left behind.
ExclusiveCommand ==
  \A r, s \in child :
    r # s /\ project[r] = project[s] => pc[r] = "dead" \/ pc[s] = "dead"

\* From the moment a request has written last-deploy.log until it returns, the
\* file is its own: no other deploy of the project overwrites it meanwhile.
LogIsOwn ==
  \A r \in Requests :
    pc[r] \in {"finish", "catchFinish", "finishAudit", "catchAudit", "notify",
              "catchNotify"}
      => log[project[r]] = r

\* What the caller, Telegram and the audit log were told agrees with the record
\* that stays in the database, and SUCCESS is recorded only for exit code 0:
\* across the retry in the catch and across writes whose reply was lost.
OutcomesAgree ==
  \A r \in Requests :
    /\ record[r] = "SUCCESS" => exit[r] = "zero"
    /\ notice[r] # "none" => notice[r] = record[r]
    /\ response[r] \in {"SUCCESS", "FAILED"} => response[r] = record[r]
    /\ audit[r] = "finished" => record[r] = "SUCCESS"
    /\ audit[r] \in {"exited non-zero", "timed out", "internal error"}
         => record[r] = "FAILED"

\* deployProject implements the ledger.
Ledger == INSTANCE DeployLedger WITH
  owner  <- [r \in Requests |->
               IF pc[r] \in Holding THEN project[r] ELSE NoProject],
  status <- record

LedgerSpec == Ledger!Spec

\* A project that is locked is unlocked later: no failure of any call strands
\* the lock.
LockIsReleased == \A p \in Projects : p \in lock ~> p \notin lock

\* README.md: the deployment record goes from RUNNING to SUCCESS or FAILED.
RunningSettles ==
  \A r \in Requests :
    record[r] = "RUNNING" ~> record[r] \in {"SUCCESS", "FAILED"}
=============================================================================
