--------------------------- MODULE Deploy_proofs ---------------------------
(***************************************************************************)
(* What module Deploy satisfies for every number of requests, projects and *)
(* restarts: its type invariant, the exclusion the lock gives (and what    *)
(* follows from it for docker compose and for last-deploy.log), the        *)
(* agreement of every reported outcome with the record, and the            *)
(* implementation of DeployLedger.                                         *)
(***************************************************************************)
EXTENDS Deploy, TLAPS

-----------------------------------------------------------------------------
(* Type correctness                                                        *)

\* A request that waits has a project.
Arrived == \A r \in Requests : pc[r] \in Waiting => project[r] \in Projects

Typed == TypeOK /\ Arrived

\* The names of the positions, and which of them wait.
LEMMA PositionNames ==
  /\ {"idle", "preflight", "create", "startAudit", "env",
      "command", "log", "finish", "catchLog", "catchFinish", "finishAudit",
      "catchAudit", "notify", "catchNotify", "done", "dead"} = Positions
  /\ "preflight" \in Waiting
  /\ {"idle", "done", "dead"} \cap Waiting = {}
BY DEF Positions, Waiting, Holding, Over

\* Every step of deployProject, of the environment and of a restart keeps every
\* variable in its type.
LEMMA TypeStep == Typed /\ [Next]_vars => TypeOK'
<1> SUFFICES ASSUME Typed, [Next]_vars PROVE TypeOK'
  OBVIOUS
<1> USE PositionNames DEF Typed, TypeOK
<1>1. ASSUME NEW r \in Requests, NEW p \in Projects, Arrive(r, p)
      PROVE  TypeOK'
  BY <1>1 DEF Arrive, Goto
<1>2. ASSUME NEW r \in Requests, Step(r)
      PROVE  TypeOK'
  <2> USE DEF Goto, Answer, Leave, Stored
  <2>1. CASE PreflightFails(r)
    BY <2>1 DEF PreflightFails, Responses
  <2>2. CASE AcquireLock(r)
    BY <2>2 DEF AcquireLock, Arrived
  <2>3. CASE LockIsTaken(r)
    BY <2>3 DEF LockIsTaken, Responses
  <2>4. CASE CreateDeployment(r)
    BY <2>4 DEF CreateDeployment, Records, Responses
  <2>5. CASE WriteStartAudit(r)
    BY <2>5 DEF WriteStartAudit
  <2>6. CASE StartCommand(r)
    BY <2>6 DEF StartCommand
  <2>7. CASE CommandEnds(r)
    BY <2>7 DEF CommandEnds, Exits
  <2>8. CASE WriteLog(r)
    BY <2>8 DEF WriteLog
  <2>9. CASE FinishDeployment(r)
    BY <2>9 DEF FinishDeployment, DeploymentStatus, Records
  <2>10. CASE WriteFinishAudit(r)
    BY <2>10 DEF WriteFinishAudit, FinishMessage, Audits
  <2>11. CASE WriteCatchLog(r)
    BY <2>11 DEF WriteCatchLog, Responses
  <2>12. CASE CatchFinishDeployment(r)
    BY <2>12 DEF CatchFinishDeployment, Records, Responses
  <2>13. CASE WriteCatchAudit(r)
    BY <2>13 DEF WriteCatchAudit, Audits
  <2>14. CASE NotifyAndReturn(r)
    BY <2>14 DEF NotifyAndReturn, Outcome, DeploymentStatus, Responses
  <2>15. QED
    BY <1>2, <2>1, <2>2, <2>3, <2>4, <2>5, <2>6, <2>7, <2>8, <2>9,
       <2>10, <2>11, <2>12, <2>13, <2>14 DEF Step
<1>3. ASSUME NEW r \in Requests, OrphanEnds(r)
      PROVE  TypeOK'
  BY <1>3 DEF OrphanEnds
<1>4. CASE Crash
  BY <1>4, MaxCrashesAssumption DEF Crash
<1>5. CASE UNCHANGED vars
  BY <1>5 DEF vars
<1>6. QED
  BY <1>1, <1>2, <1>3, <1>4, <1>5 DEF Next

\* What a step does to the position of one request, its project and the lock.
\* Every action is one of these, so what concerns only these three variables is
\* proved on the shapes instead of on the actions.
Enters(r) ==
  /\ pc[r] = "preflight" /\ project[r] \notin lock
  /\ pc' = [pc EXCEPT ![r] = "create"]
  /\ lock' = lock \cup {project[r]}

Moves(r) ==
  /\ \E to \in Positions :
       /\ pc' = [pc EXCEPT ![r] = to]
       /\ to \in Holding <=> pc[r] \in Holding
       /\ to \in Waiting => pc[r] \in Waiting
  /\ lock' = lock

Leaves(r) ==
  /\ pc[r] \in Holding
  /\ pc' = [pc EXCEPT ![r] = "done"]
  /\ lock' = lock \ {project[r]}

\* Every step of a request enters, leaves or moves on one side of the lock.
LEMMA StepShape ==
  ASSUME NEW r \in Requests, TypeOK, Step(r)
  PROVE  project' = project /\ (Enters(r) \/ Moves(r) \/ Leaves(r))
<1> USE DEF Goto, Answer, Leave, Enters, Moves, Leaves, Holding, Waiting,
            Over, Positions
<1>1. CASE PreflightFails(r)
  BY <1>1 DEF PreflightFails
<1>2. CASE AcquireLock(r)
  BY <1>2 DEF AcquireLock
<1>3. CASE LockIsTaken(r)
  BY <1>3 DEF LockIsTaken
<1>4. CASE CreateDeployment(r)
  BY <1>4 DEF CreateDeployment
<1>5. CASE WriteStartAudit(r)
  BY <1>5 DEF WriteStartAudit
<1>6. CASE StartCommand(r)
  BY <1>6 DEF StartCommand
<1>7. CASE CommandEnds(r)
  BY <1>7 DEF CommandEnds
<1>8. CASE WriteLog(r)
  BY <1>8 DEF WriteLog
<1>9. CASE FinishDeployment(r)
  BY <1>9 DEF FinishDeployment
<1>10. CASE WriteFinishAudit(r)
  BY <1>10 DEF WriteFinishAudit
<1>11. CASE WriteCatchLog(r)
  BY <1>11 DEF WriteCatchLog
<1>12. CASE CatchFinishDeployment(r)
  BY <1>12 DEF CatchFinishDeployment
<1>13. CASE WriteCatchAudit(r)
  BY <1>13 DEF WriteCatchAudit
<1>14. CASE NotifyAndReturn(r)
  BY <1>14 DEF NotifyAndReturn
<1>15. QED
  BY <1>1, <1>2, <1>3, <1>4, <1>5, <1>6, <1>7, <1>8, <1>9, <1>10, <1>11,
     <1>12, <1>13, <1>14 DEF Step

\* A request keeps a project of its own from its arrival on, and none before.
LEMMA ArrivedStep == Typed /\ [Next]_vars => Arrived'
<1> SUFFICES ASSUME Typed, [Next]_vars PROVE Arrived'
  OBVIOUS
<1> USE DEF Typed, TypeOK, Arrived
<1>1. ASSUME NEW r \in Requests, NEW p \in Projects, Arrive(r, p)
      PROVE  Arrived'
  BY <1>1 DEF Arrive, Goto
<1>2. ASSUME NEW r \in Requests, Step(r)
      PROVE  Arrived'
  BY <1>2, StepShape DEF Enters, Moves, Leaves, Waiting, Holding
<1>3. ASSUME NEW r \in Requests, OrphanEnds(r)
      PROVE  Arrived'
  BY <1>3 DEF OrphanEnds
<1>4. CASE Crash
  BY <1>4 DEF Crash, Waiting, Holding
<1>5. CASE UNCHANGED vars
  BY <1>5 DEF vars
<1>6. QED
  BY <1>1, <1>2, <1>3, <1>4, <1>5 DEF Next

\* In every reachable state the variables are typed and a request has a project
\* exactly if it has arrived.
THEOREM Typing == Spec => []Typed
<1>1. Init => Typed
  BY MaxCrashesAssumption
     DEF Init, Typed, TypeOK, Arrived, Holding, Waiting, Over, Positions,
         Records, Exits, Audits, Responses
<1>2. Typed /\ [Next]_vars => Typed'
  BY TypeStep, ArrivedStep DEF Typed
<1>3. QED
  BY <1>1, <1>2, PTL DEF Spec

\* Every variable keeps its type, for every instance of the constants.
THEOREM TypeCorrect == Spec => []TypeOK
<1>1. Typed => TypeOK
  BY DEF Typed
<1>2. QED
  BY <1>1, Typing, PTL

-----------------------------------------------------------------------------
(* The lock                                                                *)

\* LockMatchesHolder, element by element.
Held ==
  /\ \A r \in Requests : pc[r] \in Holding => project[r] \in lock
  /\ \A p \in lock : \E r \in Requests : pc[r] \in Holding /\ project[r] = p
  /\ \A r, s \in Requests :
       pc[r] \in Holding /\ pc[s] \in Holding /\ r # s
         => project[r] # project[s]

\* No step breaks the match between the lock set and the requests at work: acquire
\* adds a project nobody works on, the finally removes the project of its request.
LEMMA HeldStep == Typed /\ Held /\ [Next]_vars => Held'
<1> SUFFICES ASSUME Typed, Held, [Next]_vars PROVE Held'
  OBVIOUS
<1>0. /\ pc \in [Requests -> Positions]
      /\ project \in [Requests -> Projects \cup {NoProject}]
  BY DEF Typed, TypeOK
<1>1. ASSUME NEW r \in Requests, NEW p \in Projects, Arrive(r, p)
      PROVE  Held'
  <2>1. pc[r] \notin Holding /\ "preflight" \notin Holding
    BY <1>1 DEF Arrive, Holding
  <2>2. /\ pc' = [pc EXCEPT ![r] = "preflight"]
        /\ project' = [project EXCEPT ![r] = p]
        /\ lock' = lock
    BY <1>1 DEF Arrive, Goto
  <2>3. QED
    BY <1>0, <2>1, <2>2 DEF Held
<1>2. ASSUME NEW r \in Requests, Step(r)
      PROVE  Held'
  <2>1. project' = project /\ (Enters(r) \/ Moves(r) \/ Leaves(r))
    BY <1>2, StepShape DEF Typed
  <2>2. CASE Enters(r)
    <3>1. pc[r] \notin Holding /\ "create" \in Holding
      BY <2>2 DEF Enters, Holding
    <3>2. QED
      BY <1>0, <2>1, <2>2, <3>1 DEF Held, Enters
  <2>3. CASE Moves(r)
    BY <1>0, <2>1, <2>3 DEF Held, Moves
  <2>4. CASE Leaves(r)
    <3>1. "done" \notin Holding
      BY DEF Holding
    <3>2. QED
      BY <1>0, <2>1, <2>4, <3>1 DEF Held, Leaves
  <2>5. QED
    BY <2>1, <2>2, <2>3, <2>4
<1>3. ASSUME NEW r \in Requests, OrphanEnds(r)
      PROVE  Held'
  BY <1>3 DEF OrphanEnds, Held
<1>4. CASE Crash
  <2>1. lock' = {} /\ \A r \in Requests : pc'[r] \notin Holding
    BY <1>4 DEF Crash, Waiting, Holding
  <2>2. QED
    BY <2>1 DEF Held
<1>5. CASE UNCHANGED vars
  BY <1>5 DEF vars, Held
<1>6. QED
  BY <1>1, <1>2, <1>3, <1>4, <1>5 DEF Next

\* In every reachable state the lock set is the set of projects at work, each of
\* them worked on by one request.
THEOREM HeldAlways == Spec => []Held
<1>1. Init => Held
  BY DEF Init, Held, Holding
<1>2. QED
  BY <1>1, HeldStep, Typing, PTL DEF Spec

\* The lock set is the set of projects being deployed, one request for each:
\* whichever call fails, the lock is neither stranded nor released by another.
THEOREM LockCorrect == Spec => []LockMatchesHolder
<1>1. Typed /\ Held => LockMatchesHolder
  <2> SUFFICES ASSUME Typed, Held PROVE LockMatchesHolder
    OBVIOUS
  <2>1. lock \subseteq {project[r] : r \in {q \in Requests : pc[q] \in Holding}}
    BY DEF Held
  <2>2. {project[r] : r \in {q \in Requests : pc[q] \in Holding}} \subseteq lock
    BY DEF Held
  <2>3. QED
    BY <2>1, <2>2 DEF Held, LockMatchesHolder
<1>2. QED
  BY <1>1, HeldAlways, Typing, PTL

-----------------------------------------------------------------------------
(* docker compose                                                          *)

\* A docker compose runs only while its request awaits it, or after a restart.
ChildAwaited == \A r \in child : pc[r] \in {"command", "dead"}

\* A docker compose is alive only while its request awaits it, or after a restart
\* of the API lost that request.
LEMMA ChildStep == Typed /\ ChildAwaited /\ [Next]_vars => ChildAwaited'
<1> SUFFICES ASSUME Typed, ChildAwaited, [Next]_vars PROVE ChildAwaited'
  OBVIOUS
<1> USE DEF Typed, TypeOK, ChildAwaited
<1>1. ASSUME NEW r \in Requests, NEW p \in Projects, Arrive(r, p)
      PROVE  ChildAwaited'
  BY <1>1 DEF Arrive, Goto
<1>2. ASSUME NEW r \in Requests, Step(r)
      PROVE  ChildAwaited'
  <2> USE DEF Goto, Leave
  <2>1. CASE StartCommand(r)
    BY <2>1 DEF StartCommand
  <2>2. CASE CommandEnds(r)
    BY <2>2 DEF CommandEnds
  <2>3. CASE ~StartCommand(r) /\ ~CommandEnds(r)
    <3>1. child' = child /\ pc[r] \notin {"command", "dead"}
      BY <1>2, <2>3 DEF Step, PreflightFails, AcquireLock,
         LockIsTaken, CreateDeployment, WriteStartAudit, WriteLog,
         FinishDeployment, WriteFinishAudit, WriteCatchLog,
         CatchFinishDeployment, WriteCatchAudit, NotifyAndReturn
    <3>2. \A s \in Requests : s # r => pc'[s] = pc[s]
      BY <1>2, StepShape DEF Enters, Moves, Leaves
    <3>3. QED
      BY <3>1, <3>2
  <2>4. QED
    BY <2>1, <2>2, <2>3
<1>3. ASSUME NEW r \in Requests, OrphanEnds(r)
      PROVE  ChildAwaited'
  BY <1>3 DEF OrphanEnds
<1>4. CASE Crash
  BY <1>4 DEF Crash, Waiting, Holding
<1>5. CASE UNCHANGED vars
  BY <1>5 DEF vars
<1>6. QED
  BY <1>1, <1>2, <1>3, <1>4, <1>5 DEF Next

\* Two docker compose of one project never run side by side, except next to one
\* that outlived a restart of the API.
THEOREM CommandsExclusive == Spec => []ExclusiveCommand
<1>1. Init => ChildAwaited
  BY DEF Init, ChildAwaited
<1>2. Typed /\ Held /\ ChildAwaited => ExclusiveCommand
  BY DEF Typed, TypeOK, Held, ChildAwaited, ExclusiveCommand, Holding
<1>3. QED
  BY <1>1, <1>2, ChildStep, HeldAlways, Typing, PTL DEF Spec

-----------------------------------------------------------------------------
(* last-deploy.log                                                         *)

\* No step overwrites last-deploy.log under a request that has written it and is
\* still at work.
LEMMA LogStep == Typed /\ Held /\ LogIsOwn /\ [Next]_vars => LogIsOwn'
<1> SUFFICES ASSUME Typed, Held, LogIsOwn, [Next]_vars,
                    NEW s \in Requests,
                    pc'[s] \in {"finish", "catchFinish", "finishAudit",
                                "catchAudit", "notify", "catchNotify"}
             PROVE  log'[project'[s]] = s
  BY DEF LogIsOwn
<1> USE DEF Typed, TypeOK
<1>1. ASSUME NEW r \in Requests, NEW p \in Projects, Arrive(r, p)
      PROVE  log'[project'[s]] = s
  BY <1>1 DEF Arrive, Goto, LogIsOwn
<1>2. ASSUME NEW r \in Requests, Step(r)
      PROVE  log'[project'[s]] = s
  <2>1. project' = project /\ \A q \in Requests : q # r => pc'[q] = pc[q]
    BY <1>2, StepShape DEF Enters, Moves, Leaves
  <2>2. CASE WriteLog(r) \/ WriteCatchLog(r)
    <3>1. pc[r] \in Holding /\ project[r] \in Projects
      BY <2>2 DEF WriteLog, WriteCatchLog, Holding, Waiting, Arrived
    <3>2. CASE s = r
      BY <2>1, <2>2, <3>1, <3>2 DEF WriteLog, WriteCatchLog, Goto, Leave
    <3>3. CASE s # r
      <4>1. pc[s] \in Holding /\ log[project[s]] = s
        BY <2>1, <3>3 DEF LogIsOwn, Holding
      <4>2. project[s] # project[r]
        BY <3>1, <3>3, <4>1 DEF Held
      <4>3. log' \in {log, [log EXCEPT ![project[r]] = r]}
        BY <2>2 DEF WriteLog, WriteCatchLog
      <4>4. project[s] \in Projects
        BY <4>1 DEF Arrived, Waiting
      <4>5. QED
        BY <2>1, <4>1, <4>2, <4>3, <4>4
    <3>4. QED
      BY <3>2, <3>3
  <2>3. CASE ~WriteLog(r) /\ ~WriteCatchLog(r)
    <3>1. /\ log' = log
          /\ pc'[r] \in {"finish", "catchFinish", "finishAudit", "catchAudit",
                         "notify", "catchNotify"}
               => pc[r] \in {"finish", "catchFinish", "finishAudit",
                             "catchAudit"}
      BY <1>2, <2>3 DEF Step, PreflightFails, AcquireLock,
         LockIsTaken, CreateDeployment, WriteStartAudit, StartCommand,
         CommandEnds, FinishDeployment, WriteFinishAudit,
         CatchFinishDeployment, WriteCatchAudit, NotifyAndReturn, Goto, Leave
    <3>2. QED
      BY <2>1, <3>1 DEF LogIsOwn
  <2>4. QED
    BY <2>2, <2>3
<1>3. ASSUME NEW r \in Requests, OrphanEnds(r)
      PROVE  log'[project'[s]] = s
  BY <1>3 DEF OrphanEnds, LogIsOwn
<1>4. CASE Crash
  BY <1>4 DEF Crash, Waiting, Holding
<1>5. CASE UNCHANGED vars
  BY <1>5 DEF vars, LogIsOwn
<1>6. QED
  BY <1>1, <1>2, <1>3, <1>4, <1>5 DEF Next

\* A request that has written last-deploy.log finds it unchanged until it returns.
THEOREM LogOwned == Spec => []LogIsOwn
<1>1. Init => LogIsOwn
  BY DEF Init, LogIsOwn
<1>2. QED
  BY <1>1, LogStep, HeldAlways, Typing, PTL DEF Spec

-----------------------------------------------------------------------------
(* Outcomes                                                                *)

\* What is known of the record at each await, and who has been told by then.
Consistent(r) ==
  /\ pc[r] \in {"idle", "preflight", "create"}
       => record[r] = "absent"
  /\ pc[r] \in {"startAudit", "env", "command", "log", "finish"}
       => record[r] = "RUNNING"
  /\ pc[r] \in {"catchLog", "catchFinish"}
       => record[r] \in {"RUNNING", DeploymentStatus(r)}
  /\ pc[r] \in {"finishAudit", "notify"} => record[r] = DeploymentStatus(r)
  /\ pc[r] \in {"catchAudit", "catchNotify"} => record[r] = "FAILED"
  /\ audit[r] # "none" => pc[r] \in {"notify", "catchNotify", "done", "dead"}
  /\ notice[r] # "none" => pc[r] = "done"
  /\ response[r] # "none" => pc[r] = "done"
  /\ record[r] = "SUCCESS" => exit[r] = "zero"
  /\ notice[r] # "none" => notice[r] = record[r]
  /\ response[r] \in {"SUCCESS", "FAILED"} => response[r] = record[r]
  /\ audit[r] = "finished" => record[r] = "SUCCESS"
  /\ audit[r] \in {"exited non-zero", "timed out", "internal error"}
       => record[r] = "FAILED"

AllConsistent == \A r \in Requests : Consistent(r)

\* A step of r keeps what is known of r, and touches nothing of the others.
LEMMA ConsistentStep ==
  ASSUME Typed, AllConsistent, NEW r \in Requests, Step(r)
  PROVE  AllConsistent'
<1> USE DEF Typed, TypeOK
<1>1. Consistent(r)
  BY DEF AllConsistent
<1>2. Consistent(r)'
  <2> USE <1>1 DEF Consistent, DeploymentStatus, Goto, Answer, Leave, Stored
  <2>1. CASE PreflightFails(r)
    BY <2>1 DEF PreflightFails
  <2>2. CASE AcquireLock(r)
    BY <2>2 DEF AcquireLock
  <2>3. CASE LockIsTaken(r)
    BY <2>3 DEF LockIsTaken
  <2>4. CASE CreateDeployment(r)
    BY <2>4 DEF CreateDeployment
  <2>5. CASE WriteStartAudit(r)
    BY <2>5 DEF WriteStartAudit
  <2>6. CASE StartCommand(r)
    BY <2>6 DEF StartCommand
  <2>7. CASE CommandEnds(r)
    BY <2>7 DEF CommandEnds
  <2>8. CASE WriteLog(r)
    BY <2>8 DEF WriteLog
  <2>9. CASE FinishDeployment(r)
    BY <2>9 DEF FinishDeployment
  <2>10. CASE WriteFinishAudit(r)
    BY <2>10 DEF WriteFinishAudit, FinishMessage, Exits
  <2>11. CASE WriteCatchLog(r)
    BY <2>11 DEF WriteCatchLog
  <2>12. CASE CatchFinishDeployment(r)
    BY <2>12 DEF CatchFinishDeployment
  <2>13. CASE WriteCatchAudit(r)
    BY <2>13 DEF WriteCatchAudit
  <2>14. CASE NotifyAndReturn(r)
    BY <2>14 DEF NotifyAndReturn, Outcome
  <2>15. QED
    BY <2>1, <2>2, <2>3, <2>4, <2>5, <2>6, <2>7, <2>8, <2>9, <2>10,
       <2>11, <2>12, <2>13, <2>14 DEF Step
<1>3. ASSUME NEW s \in Requests, s # r
      PROVE  Consistent(s)'
  <2>1. /\ pc'[s] = pc[s] /\ record'[s] = record[s] /\ exit'[s] = exit[s]
        /\ audit'[s] = audit[s] /\ notice'[s] = notice[s]
        /\ response'[s] = response[s]
    BY <1>3 DEF Step, PreflightFails, AcquireLock, LockIsTaken,
       CreateDeployment, WriteStartAudit, StartCommand, CommandEnds, WriteLog,
       FinishDeployment, WriteFinishAudit, WriteCatchLog, CatchFinishDeployment,
       WriteCatchAudit, NotifyAndReturn, Goto, Answer, Leave, Stored
  <2>2. QED
    BY <2>1 DEF AllConsistent, Consistent, DeploymentStatus
<1>4. QED
  BY <1>2, <1>3 DEF AllConsistent

\* At every await of every request the record is where the code takes it to be.
THEOREM ConsistentAlways == Spec => []AllConsistent
<1>1. Init => AllConsistent
  BY DEF Init, AllConsistent, Consistent
<1>2. Typed /\ AllConsistent /\ [Next]_vars => AllConsistent'
  <2> SUFFICES ASSUME Typed, AllConsistent, [Next]_vars PROVE AllConsistent'
    OBVIOUS
  <2>1. ASSUME NEW r \in Requests, NEW p \in Projects, Arrive(r, p)
        PROVE  AllConsistent'
    <3>1. pc[r] = "idle" /\ pc' = [pc EXCEPT ![r] = "preflight"]
      BY <2>1 DEF Arrive, Goto
    <3>2. UNCHANGED <<record, exit, child, log, audit, notice, response>>
      BY <2>1 DEF Arrive
    <3>3. ASSUME NEW q \in Requests  PROVE Consistent(q)'
      <4>1. Consistent(q)
        BY DEF AllConsistent
      <4>2. CASE q = r
        BY <3>1, <3>2, <4>1, <4>2 DEF Consistent, DeploymentStatus, Typed, TypeOK
      <4>3. CASE q # r
        BY <3>1, <3>2, <4>1, <4>3 DEF Consistent, DeploymentStatus, Typed, TypeOK
      <4> QED
        BY <4>2, <4>3
    <3> QED
      BY <3>3 DEF AllConsistent
  <2>2. ASSUME NEW r \in Requests, Step(r)
        PROVE  AllConsistent'
    BY <2>2, ConsistentStep
  <2>3. ASSUME NEW r \in Requests, OrphanEnds(r)
        PROVE  AllConsistent'
    BY <2>3 DEF OrphanEnds, AllConsistent, Consistent, DeploymentStatus
  <2>4. CASE Crash
    <3>1. pc' = [r \in Requests |-> IF pc[r] \in Waiting THEN "dead" ELSE pc[r]]
      BY <2>4 DEF Crash
    <3>2. UNCHANGED <<record, exit, child, log, audit, notice, response>>
      BY <2>4 DEF Crash
    <3>3. ASSUME NEW q \in Requests  PROVE Consistent(q)'
      <4>1. Consistent(q) /\ pc'[q] \in {pc[q], "dead"}
        BY <3>1 DEF AllConsistent
      <4> HIDE <3>1
      <4>2. CASE pc'[q] = pc[q]
        BY <3>2, <4>1, <4>2 DEF Consistent, DeploymentStatus
      <4>3. CASE pc[q] \in Waiting /\ pc'[q] = "dead"
        BY <3>2, <4>1, <4>3 DEF Consistent, DeploymentStatus, Waiting, Holding
      <4> QED
        BY <3>1, <4>2, <4>3
    <3> QED
      BY <3>3 DEF AllConsistent
  <2>5. CASE UNCHANGED vars
    BY <2>5 DEF vars, AllConsistent, Consistent, DeploymentStatus
  <2>6. QED
    BY <2>1, <2>2, <2>3, <2>4, <2>5 DEF Next
<1>3. QED
  BY <1>1, <1>2, Typing, PTL DEF Spec

\* Response, notification and audit row agree with the record for good, and
\* SUCCESS is stored only for exit code 0.
THEOREM OutcomesAgreeAlways == Spec => []OutcomesAgree
<1>1. AllConsistent => OutcomesAgree
  BY DEF AllConsistent, Consistent, OutcomesAgree
<1>2. QED
  BY <1>1, ConsistentAlways, PTL

-----------------------------------------------------------------------------
(* The ledger                                                              *)

Owner == [r \in Requests |-> IF pc[r] \in Holding THEN project[r] ELSE NoProject]

\* A step of r keeps its record, or moves it forward while r holds the lock.
LEMMA RecordStep ==
  ASSUME Typed, AllConsistent, NEW r \in Requests, Step(r)
  PROVE  \/ record' = record
         \/ /\ ~Enters(r) /\ pc[r] \in Holding
            /\ \E new \in Ledger!Statuses :
                 /\ Ledger!MayBecome(record[r], new)
                 /\ record' = [record EXCEPT ![r] = new]
<1> USE DEF Typed, TypeOK, Enters, Stored, Ledger!Statuses, Ledger!MayBecome
<1>1. Consistent(r)
  BY DEF AllConsistent
<1>2. CASE CreateDeployment(r)
  BY <1>1, <1>2 DEF CreateDeployment, Consistent, Holding
<1>3. CASE FinishDeployment(r)
  BY <1>1, <1>3 DEF FinishDeployment, Consistent, DeploymentStatus, Holding
<1>4. CASE CatchFinishDeployment(r)
  <2>1. pc[r] \in Holding /\ ~Enters(r)
    BY <1>4 DEF CatchFinishDeployment, Holding
  <2>2. record[r] \in {"RUNNING", "SUCCESS", "FAILED"}
    BY <1>1, <1>4 DEF CatchFinishDeployment, Consistent, DeploymentStatus
  <2>3. record' = record \/ record' = [record EXCEPT ![r] = "FAILED"]
    BY <1>4 DEF CatchFinishDeployment
  <2>4. record[r] = "FAILED" => [record EXCEPT ![r] = "FAILED"] = record
    OBVIOUS
  <2>5. QED
    BY <2>1, <2>2, <2>3, <2>4
<1>5. CASE ~CreateDeployment(r) /\ ~FinishDeployment(r) /\ ~CatchFinishDeployment(r)
  BY <1>5 DEF Step, PreflightFails, AcquireLock, LockIsTaken,
     WriteStartAudit, StartCommand, CommandEnds, WriteLog, WriteFinishAudit,
     WriteCatchLog, WriteCatchAudit, NotifyAndReturn
<1>6. QED
  BY <1>2, <1>3, <1>4, <1>5

\* r becomes the owner of its project, which had none.
Claims(r) ==
  /\ Enters(r)
  /\ Owner[r] = NoProject
  /\ \A s \in Requests : Owner[s] # project[r]
  /\ Owner' = [Owner EXCEPT ![r] = project[r]]

\* What a step of r does to its entry of the ledger.
LEMMA OwnerStep ==
  ASSUME Typed, Held, NEW r \in Requests, Step(r)
  PROVE  \/ Claims(r)
         \/ Owner' = Owner
         \/ pc[r] \in Holding /\ Owner' = [Owner EXCEPT ![r] = NoProject]
<1> USE DEF Typed, TypeOK, Owner
<1>1. project' = project /\ (Enters(r) \/ Moves(r) \/ Leaves(r))
  BY StepShape
<1>2. CASE Enters(r)
  <2>1. pc[r] \notin Holding /\ "create" \in Holding /\ project[r] \in Projects
    BY <1>2 DEF Enters, Holding, Arrived, Waiting
  <2>2. \A s \in Requests : Owner[s] # project[r]
    BY <1>2, <2>1, NoProjectAssumption DEF Held, Enters
  <2>3. Owner' = [Owner EXCEPT ![r] = project[r]]
    BY <1>1, <1>2, <2>1 DEF Enters
  <2>4. QED
    BY <1>2, <2>1, <2>2, <2>3 DEF Claims
<1>3. CASE Moves(r)
  BY <1>1, <1>3 DEF Moves
<1>4. CASE Leaves(r)
  <2>1. "done" \notin Holding
    BY DEF Holding
  <2>2. QED
    BY <1>1, <1>4, <2>1 DEF Leaves
<1>5. QED
  BY <1>1, <1>2, <1>3, <1>4

\* Every step of deployProject is a step of the ledger, or leaves it unchanged.
LEMMA LedgerStep ==
  ASSUME Typed, Held, AllConsistent, NEW r \in Requests, Step(r)
  PROVE  Ledger!Next \/ UNCHANGED <<Owner, record>>
<1>1. pc[r] \in Holding => Owner[r] # NoProject
  BY NoProjectAssumption DEF Typed, Arrived, Waiting, Owner
<1>2. CASE Claims(r)
  <2>1. PICK p \in Projects : p = project[r]
    BY <1>2 DEF Claims, Enters, Typed, Arrived, Waiting
  <2>2. record' = record
    BY <1>2, RecordStep DEF Claims
  <2>3. Ledger!Begin(r, p)
    BY <1>2, <2>1, <2>2 DEF Claims, Ledger!Begin, Owner
  <2>4. QED
    BY <2>1, <2>3 DEF Ledger!Next
<1>3. CASE \/ Owner' = Owner
           \/ pc[r] \in Holding /\ Owner' = [Owner EXCEPT ![r] = NoProject]
  <2>1. CASE record' = record
    <3>1. CASE Owner' = Owner
      BY <2>1, <3>1
    <3>2. CASE pc[r] \in Holding /\ Owner' = [Owner EXCEPT ![r] = NoProject]
      <4>1. Ledger!End(r)
        BY <1>1, <2>1, <3>2 DEF Ledger!End, Owner
      <4>2. QED
        BY <4>1 DEF Ledger!Next
    <3>3. QED
      BY <1>3, <3>1, <3>2
  <2>2. CASE record' # record
    <3>1. PICK new \in Ledger!Statuses :
            /\ pc[r] \in Holding
            /\ Ledger!MayBecome(record[r], new)
            /\ record' = [record EXCEPT ![r] = new]
      BY <2>2, RecordStep
    <3>2. Ledger!Write(r, new)
      BY <1>1, <1>3, <3>1 DEF Ledger!Write, Owner
    <3>3. QED
      BY <3>2 DEF Ledger!Next
  <2>3. QED
    BY <2>1, <2>2
<1>4. QED
  BY <1>2, <1>3, OwnerStep

\* deployProject implements the ledger: one request at a time works on a project,
\* and a record is moved only by its own request while that request holds the lock.
THEOREM Implements == Spec => LedgerSpec
<1>1. Init => Ledger!Init
  BY DEF Init, Ledger!Init, Holding
<1>2. Typed /\ Held /\ AllConsistent /\ [Next]_vars
        => [Ledger!Next]_(Ledger!ledgerVars)
  <2> SUFFICES ASSUME Typed, Held, AllConsistent, [Next]_vars
               PROVE  Ledger!Next \/ UNCHANGED <<Owner, record>>
    BY DEF Ledger!ledgerVars, Owner
  <2>1. ASSUME NEW r \in Requests, NEW p \in Projects, Arrive(r, p)
        PROVE  UNCHANGED <<Owner, record>>
    BY <2>1 DEF Arrive, Goto, Owner, Holding, Typed, TypeOK
  <2>2. ASSUME NEW r \in Requests, Step(r)
        PROVE  Ledger!Next \/ UNCHANGED <<Owner, record>>
    BY <2>2, LedgerStep
  <2>3. ASSUME NEW r \in Requests, OrphanEnds(r)
        PROVE  UNCHANGED <<Owner, record>>
    BY <2>3 DEF OrphanEnds, Owner
  <2>4. CASE Crash
    <3>1. \A r \in Requests : pc'[r] \notin Holding
      BY <2>4 DEF Crash, Waiting, Holding
    <3>2. Ledger!Crash
      BY <2>4, <3>1 DEF Ledger!Crash, Crash
    <3>3. QED
      BY <3>2 DEF Ledger!Next
  <2>5. CASE UNCHANGED vars
    BY <2>5 DEF vars, Owner
  <2>6. QED
    BY <2>1, <2>2, <2>3, <2>4, <2>5 DEF Next
<1>3. QED
  BY <1>1, <1>2, Typing, HeldAlways, ConsistentAlways, PTL
     DEF Spec, LedgerSpec, Ledger!Spec
=============================================================================
