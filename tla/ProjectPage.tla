----------------------------- MODULE ProjectPage -----------------------------
(***************************************************************************)
(* The page of a project: ProjectDetailPage with its env and deployments   *)
(* tabs (apps/web/src/project-detail-page.tsx), the requests it makes      *)
(* (projects.ts), and what the API does to them (env/service.ts, and       *)
(* Deploy, of which only the lock is left here).                           *)
(*                                                                         *)
(* The page stays mounted when the browser's history goes to another       *)
(* project: its answers then meet the state of that one.                   *)
(***************************************************************************)
EXTENDS WebClient

CONSTANTS
  PageActs,     \* bound: what the reader does on the page
  MaxUnderWay   \* bound: the requests under way when he does it
ASSUME PageActsAssumption == PageActs \in Nat /\ MaxUnderWay \in Nat

VARIABLES
  page,   \* the page
  env,    \* env.enc of each project: the project whose variables it holds
  locked  \* the projects that are being deployed
projectVars == <<page, env, locked>>

Projects == {"A", "B"}
None == "none"
Tabs == {"env", "deployments"}

\* resetEnvState and resetDeploymentsState
EmptyEnv ==
  [content |-> None, typed |-> FALSE, error |-> FALSE, loading |-> FALSE,
   saving |-> FALSE, loaded |-> None]
EmptyDeployments ==
  [of |-> None, running |-> FALSE, error |-> FALSE, loading |-> FALSE,
   deploying |-> FALSE, loaded |-> None]

ProjectPages ==
  [id : Projects, tab : Tabs,              \* the URL
   project : Projects \cup {None},         \* the project that is shown
   error : BOOLEAN, loading : BOOLEAN,
   fresh : BOOLEAN,                        \* it was loaded since the last render
   env : [content : Projects \cup {None},  \* whose variables are in the editor
          typed : BOOLEAN,                 \* and are not as they were loaded
          error : BOOLEAN, loading : BOOLEAN, saving : BOOLEAN,
          loaded : Projects \cup {None}],
   deployments : [of : Projects \cup {None}, running : BOOLEAN,
                  error : BOOLEAN, loading : BOOLEAN, deploying : BOOLEAN,
                  loaded : Projects \cup {None}],
   since : Projects \cup {None},   \* history: whose answer was taken since a render
   merged : BOOLEAN,     \* history: answers of both projects were, between two
   stray : BOOLEAN,      \* history: one was taken for a project that is not shown
   acts : 0 .. PageActs]

ProjectTypeOK ==
  /\ [f \in DOMAIN page \ {"seen"} |-> page[f]] \in ProjectPages
  /\ env \in [Projects -> Projects \cup {None}]
  /\ locked \subseteq Projects

\* B has no env.enc yet.
ProjectInit ==
  /\ \E tab \in IF route = "project" THEN Tabs ELSE {"env"} :
       page = [id |-> "A", tab |-> tab, project |-> None, error |-> FALSE,
               loading |-> FALSE, fresh |-> FALSE, env |-> EmptyEnv,
               deployments |-> EmptyDeployments, seen |-> <<>>, since |-> None,
               merged |-> FALSE, stray |-> FALSE, acts |-> 0]
  /\ env = [p \in Projects |-> IF p = "A" THEN "A" ELSE None]
  /\ locked = {}

-----------------------------------------------------------------------------
(* Rendering: an effect runs when what it depends on changed.              *)

Seen ==
  [project |-> <<page.id, page.project, token>>,
   env |-> <<page.tab, page.project, token, page.env.loaded>>,
   deployments |-> <<page.tab, page.project, token, page.deployments.loaded>>]
Changed(effect) == page.seen = <<>> \/ page.seen[effect] # Seen[effect]

LoadsProject == Changed("project")

\* Mutant: an env that is loaded is loaded again.
LoadsEnvAgain ==
  /\ page.fresh \/ Changed("env")
  /\ page.tab = "env" /\ page.project # None

LoadsEnv ==
  /\ page.fresh \/ Changed("env")
  /\ page.tab = "env" /\ page.project \notin {None, page.env.loaded}
LoadsDeployments ==
  /\ page.fresh \/ Changed("deployments")
  /\ page.tab = "deployments" /\ page.project \notin {None, page.deployments.loaded}

\* getProject: current is the project that is shown.
ProjectCall == Call("project", [id |-> page.id, current |-> page.project])

\* getProjectEnv: over tells that something is typed that the reader did not give up.
EnvCall(over) == Call("env", [id |-> page.project, over |-> over])
EnvLoading(e) == [e EXCEPT !.error = FALSE, !.loading = TRUE]

\* listProjectDeployments: after tells that it ends handleDeploy.
DeploymentsCall(id, after) == Call("deployments", [id |-> id, after |-> after])
DeploymentsLoading(d) == [d EXCEPT !.error = FALSE, !.loading = TRUE]

ProjectRender ==
  /\ dirty
  /\ page' = [page EXCEPT
       !.seen = Seen, !.fresh = FALSE, !.since = None,
       !.loading = @ \/ LoadsProject, !.error = @ /\ ~LoadsProject,
       !.env = IF LoadsEnv THEN EnvLoading(@) ELSE @,
       !.deployments = IF LoadsDeployments THEN DeploymentsLoading(@) ELSE @]
  /\ calls' = calls
       \o (IF LoadsProject THEN <<ProjectCall>> ELSE <<>>)
       \o (IF LoadsEnv THEN <<EnvCall(page.env.typed)>> ELSE <<>>)
       \o (IF LoadsDeployments THEN <<DeploymentsCall(page.project, FALSE)>> ELSE <<>>)
  /\ dirty' = (LoadsProject \/ LoadsEnv \/ LoadsDeployments)
  /\ UNCHANGED <<route, token, good, failures, env, locked>>

-----------------------------------------------------------------------------
(* The reader.                                                             *)

Acts == page.acts < PageActs /\ Len(calls) <= MaxUnderWay
Acted == [page EXCEPT !.acts = @ + 1]

\* The history of the browser goes to the other project, at any time.
Jump ==
  /\ Acts
  /\ \E p \in Projects \ {page.id} : page' = [Acted EXCEPT !.id = p]
  /\ dirty' = TRUE
  /\ UNCHANGED <<route, calls, token, good, failures, env, locked>>

\* The handlers are those of the last render; the reader acts on what is rendered.
Act ==
  /\ Acts /\ ~dirty
  /\ dirty' = TRUE
  /\ UNCHANGED <<route, token, good, failures, env, locked>>

\* The path is that of the project shown.
SelectTab ==
  /\ Act /\ page.project # None
  /\ \E t \in Tabs \ {page.tab} :
       page' = [Acted EXCEPT !.tab = t, !.id = page.project]
  /\ UNCHANGED calls

EditorEnabled ==
  page.tab = "env" /\ page.project # None /\ ~page.env.loading /\ ~page.env.saving

Type ==
  /\ Act /\ EditorEnabled /\ ~page.env.typed
  /\ page' = [Acted EXCEPT !.env.typed = TRUE,
                           !.env.content = IF @ = None THEN page.project ELSE @]
  /\ UNCHANGED calls

PutCall == Call("put", [id |-> page.project, content |-> page.env.content])

HandleEnvSubmit ==
  /\ Act /\ EditorEnabled
  /\ page' = [Acted EXCEPT !.env.error = FALSE, !.env.saving = TRUE]
  /\ calls' = Append(calls, PutCall)

\* The reader gives up what was typed.
ReloadEnv ==
  /\ Act /\ EditorEnabled
  /\ page' = [Acted EXCEPT !.env = [EnvLoading(@) EXCEPT !.typed = FALSE]]
  /\ calls' = Append(calls, EnvCall(FALSE))

DeployCall == Call("deploy", [id |-> page.project])

\* The button is disabled while the newest deployment is RUNNING.
DeployEnabled ==
  page.tab = "deployments" /\ page.project # None
    /\ ~page.deployments.deploying /\ ~page.deployments.running

HandleDeploy ==
  /\ Act /\ DeployEnabled
  /\ page' = [Acted EXCEPT !.deployments.error = FALSE,
                           !.deployments.deploying = TRUE]
  /\ calls' = Append(calls, DeployCall)

ProjectReader ==
  Jump \/ SelectTab \/ Type \/ HandleEnvSubmit \/ ReloadEnv \/ HandleDeploy

-----------------------------------------------------------------------------
(* The API.  What a request reads is as it is when the API serves it.  That is a *)
(* step of its own while another request that changes it is under way; otherwise *)
(* it makes no difference, and the answer is taken in the same step.             *)

\* What the API does leaves the page as it is.
ByTheApi == UNCHANGED <<route, token, good, dirty, failures, page>>
Changing(op, id) == \E i \in DOMAIN calls : calls[i].op = op /\ calls[i].arg.id = id

GetProjectEnv(i) ==
  /\ Served(i, "env") /\ Changing("put", calls[i].arg.id)
  /\ Answered(i, Ok(env[calls[i].arg.id]))
  /\ ByTheApi /\ UNCHANGED <<env, locked>>

\* Whether the newest one is RUNNING.
ListProjectDeployments(i) ==
  /\ Served(i, "deployments") /\ Changing("deploy", calls[i].arg.id)
  /\ Answered(i, Ok(calls[i].arg.id \in locked))
  /\ ByTheApi /\ UNCHANGED <<env, locked>>

PutProjectEnv(i) ==
  /\ Served(i, "put")
  /\ env' = [env EXCEPT ![calls[i].arg.id] = calls[i].arg.content]
  /\ Answered(i, Ok(TRUE))
  /\ ByTheApi /\ UNCHANGED locked

DeployStarts(i) ==
  /\ Served(i, "deploy") /\ calls[i].arg.id \notin locked
  /\ locked' = locked \cup {calls[i].arg.id}
  /\ Answered(i, [st |-> "read"])
  /\ ByTheApi /\ UNCHANGED env

\* 409: the project is being deployed.
Conflict(i) ==
  /\ Served(i, "deploy") /\ calls[i].arg.id \in locked
  /\ Answered(i, Ok(FALSE))
  /\ ByTheApi /\ UNCHANGED <<env, locked>>

DeployEnds(i) ==
  /\ calls[i].op = "deploy" /\ calls[i].res.st = "read"
  /\ locked' = locked \ {calls[i].arg.id}
  /\ Answered(i, Ok(TRUE))
  /\ ByTheApi /\ UNCHANGED env

-----------------------------------------------------------------------------
(* The answers.                                                            *)

\* An answer for a project that is not shown, or one that puts another project in the
\* place of one that was not shown when it was asked for.
Strays(c) ==
  c.arg.id # page.project /\ (c.op = "project" => c.arg.current # page.project)

\* The i-th answer changes the page.
PageTakes(i, p) ==
  LET c == calls[i]
  IN /\ page' = [p EXCEPT !.since = c.arg.id,
                          !.merged = @ \/ page.since \notin {None, c.arg.id},
                          !.stray = @ \/ Strays(c)]
     /\ dirty' = TRUE
     /\ UNCHANGED <<route, token, good, env>>

\* Mutant: the state of the project that was left is kept.
ProjectLoadedKeeping(c) ==
  [page EXCEPT !.project = c.arg.id, !.fresh = TRUE, !.loading = FALSE]

\* current is the project that was shown when the request was made.
ProjectLoaded(c) ==
  [page EXCEPT
     !.project = c.arg.id, !.fresh = TRUE, !.loading = FALSE,
     !.env = IF c.arg.current # c.arg.id THEN EmptyEnv ELSE @,
     !.deployments = IF c.arg.current # c.arg.id THEN EmptyDeployments ELSE @]

ProjectFailed(c) ==
  [page EXCEPT
     !.project = None, !.fresh = TRUE, !.error = TRUE, !.loading = FALSE,
     !.env = IF c.arg.current # None THEN EmptyEnv ELSE @,
     !.deployments = IF c.arg.current # None THEN EmptyDeployments ELSE @]

TakeProject(i) ==
  /\ \/ Read(i, "project") /\ PageTakes(i, ProjectLoaded(calls[i]))
     \/ Fails(i, "project") /\ PageTakes(i, ProjectFailed(calls[i]))
  /\ calls' = Without(i)
  /\ UNCHANGED locked

EnvLoaded(c, content) ==
  [page.env EXCEPT !.content = content, !.typed = FALSE,
                   !.loaded = c.arg.id, !.loading = FALSE]

TakeEnv(i) ==
  /\ \/ Read(i, "env")
        /\ PageTakes(i, [page EXCEPT !.env = EnvLoaded(calls[i], env[calls[i].arg.id])])
     \/ Ready(i, "env")
        /\ PageTakes(i, [page EXCEPT !.env = EnvLoaded(calls[i], calls[i].res.value)])
     \/ Fails(i, "env")
        /\ PageTakes(i, [page EXCEPT !.env.error = TRUE, !.env.loading = FALSE])
  /\ calls' = Without(i)
  /\ UNCHANGED locked

TakePut(i) ==
  /\ \/ Ready(i, "put")
        /\ PageTakes(i, [page EXCEPT !.env.loaded = calls[i].arg.id, !.env.saving = FALSE,
                                 !.env.typed = @ /\ ~page.env.saving])
     \/ Fails(i, "put")
        /\ PageTakes(i, [page EXCEPT !.env.error = TRUE, !.env.saving = FALSE])
  /\ calls' = Without(i)
  /\ UNCHANGED locked

\* Its error is shown, and not passed on to handleDeploy.
TakeDeployments(i) ==
  /\ LET c == calls[i]
         ended == [page EXCEPT !.deployments.loading = FALSE,
                               !.deployments.deploying = @ /\ ~c.arg.after]
         listed(running) == [ended EXCEPT !.deployments.of = c.arg.id,
                                          !.deployments.loaded = c.arg.id,
                                          !.deployments.running = running]
     IN \/ Read(i, "deployments") /\ PageTakes(i, listed(c.arg.id \in locked))
        \/ Ready(i, "deployments") /\ PageTakes(i, listed(c.res.value))
        \/ Fails(i, "deployments") /\ PageTakes(i, [ended EXCEPT !.deployments.error = TRUE])
  /\ calls' = Without(i)
  /\ UNCHANGED locked

\* The list of the project that was deployed is loaded.  An answer that is lost
\* says nothing of the deployment, which goes on.
TakeDeploy(i) ==
  /\ \/ /\ Ready(i, "deploy") /\ calls[i].res.value
        /\ PageTakes(i, [page EXCEPT !.deployments = DeploymentsLoading(@)])
        /\ calls' = Append(Without(i), DeploymentsCall(calls[i].arg.id, TRUE))
        /\ UNCHANGED locked
     \/ /\ Fails(i, "deploy") \/ (Ready(i, "deploy") /\ ~calls[i].res.value)
        /\ PageTakes(i, [page EXCEPT !.deployments.error = TRUE,
                                 !.deployments.deploying = FALSE])
        /\ calls' = Without(i)
        /\ locked' \in {locked, IF calls[i].res.st = "read"
                                THEN locked \ {calls[i].arg.id} ELSE locked}

ProjectAnswer == \E i \in DOMAIN calls :
  \/ GetProjectEnv(i) \/ PutProjectEnv(i)
  \/ ListProjectDeployments(i) \/ DeployStarts(i) \/ Conflict(i) \/ DeployEnds(i)
  \/ TakeProject(i) \/ TakeEnv(i) \/ TakePut(i) \/ TakeDeployments(i) \/ TakeDeploy(i)

ProjectNext ==
  /\ route = "project"
  /\ \/ ProjectRender \/ ProjectReader \/ ProjectAnswer
     \/ Retries /\ UNCHANGED projectVars
     \/ (* bound *) calls = <<>> /\ ~dirty /\ TokenExpires /\ UNCHANGED projectVars

-----------------------------------------------------------------------------
(* Properties.                                                             *)

ProjectAtRest == route = "project" /\ calls = <<>> /\ ~dirty

EnvIsOwn == ~page.stray => \A p \in Projects : env[p] \in {None, p}

\* Once the page is at rest it shows the project of the URL and, in the open tab, what
\* is of that project, though answers for the project that was left may still have
\* come (ProjectDetailPage keeps what it shows while the history goes back and forth).
\* Not if an error is shown, or if answers of both projects were taken before the page
\* rendered: the effects then miss a change, and nothing puts it right.  Nor does an
\* env hold the variables of another project, unless an answer came for one that was
\* not shown.
ShownIsOwn ==
  /\ EnvIsOwn
  /\ ProjectAtRest /\ ~page.error /\ ~page.merged =>
       /\ page.project = page.id
       /\ page.tab = "env" /\ ~page.env.error =>
            /\ page.env.loaded = page.id
            /\ ~page.stray => page.env.content \in {None, page.id}
       /\ page.tab = "deployments" /\ ~page.deployments.error =>
            page.deployments.of = page.id \/ (page.stray /\ failures > 0)

\* The page never asks for an env over what was typed and not saved, so no answer to
\* such a request takes that away, until a request fails.  What does take it away: the
\* reader; the answer to a put; a project that takes the place of another; and an env
\* that was asked for before, as the second of the two that the page asks for when it
\* is opened may be (loadProject depends on project.id, and so runs twice).  Nothing is
\* said once an answer came for a project that is not shown, or two without a render
\* between them.
EditsKept ==
  [][page.env.typed /\ ~page'.env.typed =>
       \/ page'.acts # page.acts \/ page'.stray \/ page'.merged
       \/ \E i \in DOMAIN calls :
            /\ calls' = Without(i)
            /\ \/ calls[i].op = "put"
               \/ /\ calls[i].op = "project"
                  /\ \/ page'.project # page.project
                     \/ calls[i].arg.current # page.project
               \/ /\ calls[i].op = "env"
                  /\ ~calls[i].arg.over \/ failures > 0]_<<page, calls>>
=============================================================================
