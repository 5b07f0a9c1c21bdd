---------------------------- MODULE ProjectsPage ----------------------------
(***************************************************************************)
(* The list of projects and the form that makes one: ProjectsPage          *)
(* (apps/web/src/projects-page.tsx), its requests (projects.ts), and what  *)
(* the API does (apps/api/src/projects; Source ingests what is uploaded).  *)
(*                                                                         *)
(* A project is made in two requests of one form: the first makes it, the  *)
(* second gives it its source.  Whoever gives up waiting for the first may *)
(* send it again, while the API still works on it.  All projects here have *)
(* one name, so their slugs differ in the number that ends them.           *)
(***************************************************************************)
EXTENDS WebClient, FiniteSets, Integers

CONSTANTS
  MaxProjects,  \* bound: projects
  FormActs      \* bound: what the reader does on the page
ASSUME ProjectsAssumption == MaxProjects \in Nat /\ FormActs \in Nat

VARIABLES
  form,     \* the page
  projects  \* the table, oldest row first, with what the project's root holds
projectsVars == <<form, projects>>

NoProject == 0
Ids == 1 .. MaxProjects

ProjectsTypeOK ==
  /\ form \in [listed : SUBSET Ids, error : BOOLEAN, loading : BOOLEAN,
               open : BOOLEAN,                 \* isCreatePanelOpen
               notice : {"none", "created", "completed"},
               failed : BOOLEAN,               \* createError
               creating : BOOLEAN,             \* isCreateLoading
               pending : Ids \cup {NoProject},
               chosen : BOOLEAN,               \* zipArchive, or gitUrl
               seen : {-1} \cup 0 .. MaxToken,
               gap : BOOLEAN,                  \* history: a late list is shown
               done : Ids \cup {NoProject},    \* history: the last one completed
               told : SUBSET Ids,              \* history: those the reader was told of
               number : 0 .. FormActs,         \* history: forms opened
               acts : 0 .. FormActs]
  /\ projects \in Seq([slug : Ids, form : 1 .. FormActs,
                       layout : BOOLEAN, source : BOOLEAN])
  /\ Len(projects) <= MaxProjects

\* resetCreateFlow
Reset(f) == [f EXCEPT !.pending = NoProject, !.chosen = FALSE, !.failed = FALSE]

ProjectsInit ==
  /\ form = [listed |-> {}, error |-> FALSE, loading |-> FALSE, open |-> FALSE,
             notice |-> "none", failed |-> FALSE, creating |-> FALSE,
             pending |-> NoProject, chosen |-> FALSE, seen |-> -1,
             gap |-> FALSE, done |-> NoProject, told |-> {}, number |-> 0, acts |-> 0]
  /\ projects = <<>>

\* listProjects: after names what it ends.
ListProjects(after, id) == Call("projects", [after |-> after, id |-> id])
ListingProjects(f) == [f EXCEPT !.error = FALSE, !.loading = TRUE]

ProjectsRender ==
  /\ dirty
  /\ IF form.seen = token
     THEN UNCHANGED <<form, calls>> /\ dirty' = FALSE
     ELSE /\ form' = [ListingProjects(form) EXCEPT !.seen = token]
          /\ calls' = Append(calls, ListProjects("none", NoProject))
          /\ dirty' = TRUE
  /\ UNCHANGED <<route, token, good, failures, projects>>

-----------------------------------------------------------------------------
(* The reader.                                                             *)

Does(f) ==
  /\ ~dirty /\ form.acts < FormActs
  /\ form' = [f EXCEPT !.acts = @ + 1]
  /\ dirty' = TRUE
  /\ UNCHANGED <<route, token, good, failures, projects>>

\* The button is enabled while a form is being sent, too.
HandleOpenCreatePanel ==
  /\ Does([Reset(form) EXCEPT !.notice = "none", !.open = TRUE, !.number = @ + 1])
  /\ UNCHANGED calls

HandleCloseCreatePanel ==
  /\ form.open /\ ~form.creating
  /\ Does([Reset(form) EXCEPT !.open = FALSE])
  /\ UNCHANGED calls

ChooseSource ==
  /\ form.open /\ form.pending # NoProject /\ ~form.chosen
  /\ Does([form EXCEPT !.chosen = TRUE])
  /\ UNCHANGED calls

\* handleCreateSubmit
Submits == form.open /\ ~form.creating
Submitted == [form EXCEPT !.failed = FALSE, !.notice = "none", !.creating = TRUE]

CreateCall == Call("create", [form |-> form.number])
\* uploadProjectZipSource, uploadProjectGitSource
UploadCall == Call("upload", [id |-> form.pending])

SubmitProject ==
  /\ Submits /\ form.pending = NoProject
  /\ Does(Submitted)
  /\ calls' = Append(calls, CreateCall)

SubmitSource ==
  /\ Submits /\ form.pending # NoProject /\ form.chosen
  /\ Does(Submitted)
  /\ calls' = Append(calls, UploadCall)

SubmitNothing ==
  /\ Submits /\ form.pending # NoProject /\ ~form.chosen
  /\ Does([form EXCEPT !.failed = TRUE, !.notice = "none"])
  /\ UNCHANGED calls

ProjectsReader ==
  \/ HandleOpenCreatePanel \/ HandleCloseCreatePanel \/ ChooseSource
  \/ SubmitProject \/ SubmitSource \/ SubmitNothing

-----------------------------------------------------------------------------
(* The API: createProject.  It goes on when nobody waits for its answer     *)
(* ("orphan").                                                              *)

FormWaits == UNCHANGED <<route, token, good, dirty, form>>

At(i, at) ==
  /\ calls[i].op \in {"create", "orphan"}
  /\ calls[i].res.st = "read" /\ calls[i].res.at = at
Reaches(i, at, n) == Answered(i, [st |-> "read", at |-> at, n |-> n])
Slugs == { projects[id].slug : id \in DOMAIN projects }

CreateProject(i) ==
  /\ Read(i, "create") /\ Len(projects) < MaxProjects
  /\ Reaches(i, "slug", 1)
  /\ UNCHANGED projects /\ FormWaits

\* findProjectBySlug, for one candidate after the other.
GenerateUniqueProjectSlug(i) ==
  /\ At(i, "slug")
  /\ IF calls[i].res.n \in Slugs
     THEN Reaches(i, "slug", calls[i].res.n + 1)
     ELSE Reaches(i, "insert", calls[i].res.n)
  /\ UNCHANGED <<failures, projects>> /\ FormWaits

Row(i) == [slug |-> calls[i].res.n, form |-> calls[i].arg.form,
           layout |-> FALSE, source |-> FALSE]

\* Mutant: the table has no unique index on the slug.
InsertUnchecked(i) ==
  /\ At(i, "insert") /\ Len(projects) < MaxProjects
  /\ projects' = Append(projects, Row(i)) /\ Reaches(i, "layout", Len(projects) + 1)
  /\ UNCHANGED failures /\ FormWaits

\* The index refuses a slug that was taken meanwhile.
Insert(i) ==
  /\ At(i, "insert") /\ Len(projects) < MaxProjects
  /\ IF calls[i].res.n \in Slugs
     THEN Answered(i, Ok(NoProject)) /\ UNCHANGED projects
     ELSE projects' = Append(projects, Row(i)) /\ Reaches(i, "layout", Len(projects) + 1)
  /\ UNCHANGED failures /\ FormWaits

\* Mutant: the directories are made as far as possible.
EnsureLayoutBestEffort(i) ==
  /\ At(i, "layout")
  /\ \/ projects' = [projects EXCEPT ![calls[i].res.n].layout = TRUE]
        /\ UNCHANGED failures
     \/ Fails(i, calls[i].op) /\ UNCHANGED projects
  /\ Answered(i, Ok(calls[i].res.n))
  /\ FormWaits

\* When the directories cannot be made the row stays, and the caller gets an error.
EnsureLayout(i) ==
  /\ At(i, "layout")
  /\ \/ /\ projects' = [projects EXCEPT ![calls[i].res.n].layout = TRUE]
        /\ Answered(i, Ok(calls[i].res.n)) /\ UNCHANGED failures
     \/ /\ Fails(i, calls[i].op)
        /\ Answered(i, Ok(NoProject)) /\ UNCHANGED projects
  /\ FormWaits

NobodyWaits(i) ==
  /\ Ready(i, "orphan")
  /\ calls' = Without(i)
  /\ UNCHANGED projects /\ FormWaits

\* The ingestion makes the directories anew, and replaces the source.
Upload(i) ==
  /\ Read(i, "upload")
  /\ projects' = [projects EXCEPT ![calls[i].arg.id].layout = TRUE,
                                  ![calls[i].arg.id].source = TRUE]
  /\ Answered(i, Ok(TRUE))
  /\ FormWaits

ReadProjects(i) ==
  /\ Read(i, "projects")
  /\ Answered(i, Ok(DOMAIN projects))
  /\ UNCHANGED projects /\ FormWaits

-----------------------------------------------------------------------------
(* The answers.                                                            *)

FormTakes(f) ==
  form' = f /\ dirty' = TRUE /\ UNCHANGED <<route, token, good, projects>>

Created(id) ==
  ListingProjects([form EXCEPT !.pending = id, !.notice = "created", !.told = @ \cup {id}])

Failed == [form EXCEPT !.failed = TRUE, !.creating = FALSE]

TakeCreated(i) ==
  /\ Ready(i, "create")
  /\ LET id == calls[i].res.value
     IN IF id = NoProject THEN FormTakes(Failed) /\ calls' = Without(i)
        ELSE /\ FormTakes(Created(id))
             /\ calls' = Append(Without(i), ListProjects("create", id))

\* The API may be at work all the same.
CreateLost(i) ==
  /\ Fails(i, "create")
  /\ FormTakes(Failed)
  /\ calls' = IF calls[i].res.st = "waiting" THEN Without(i)
              ELSE [calls EXCEPT ![i].op = "orphan"]

TakeUploaded(i) ==
  \/ /\ Ready(i, "upload")
     /\ FormTakes(ListingProjects(form))
     /\ calls' = Append(Without(i), ListProjects("upload", calls[i].arg.id))
  \/ /\ Fails(i, "upload")
     /\ FormTakes(Failed)
     /\ calls' = Without(i)

\* What the list was loaded after has ended: a source that is in place closes the
\* form, whichever is open now.
Completed(f, id) ==
  [Reset(f) EXCEPT !.notice = "completed", !.open = FALSE, !.done = id]
FormEnded(after, id) ==
  LET f == [form EXCEPT !.loading = FALSE, !.creating = @ /\ after = "none"]
  IN IF after = "upload" THEN Completed(f, id) ELSE f

\* An error of the list is shown, and not passed on.
TakeProjects(i) ==
  LET ended == FormEnded(calls[i].arg.after, calls[i].arg.id)
  IN /\ \/ /\ Ready(i, "projects")
           /\ FormTakes([ended EXCEPT !.listed = calls[i].res.value,
                                  !.gap = calls[i].late])
        \/ /\ Fails(i, "projects")
           /\ FormTakes([ended EXCEPT !.error = TRUE])
     /\ calls' = Without(i)

ProjectsAnswer == \E i \in DOMAIN calls :
  \/ CreateProject(i) \/ GenerateUniqueProjectSlug(i) \/ Insert(i) \/ EnsureLayout(i)
  \/ NobodyWaits(i) \/ Upload(i) \/ ReadProjects(i)
  \/ TakeCreated(i) \/ CreateLost(i) \/ TakeUploaded(i) \/ TakeProjects(i)

ProjectsNext ==
  /\ route = "projects"
  /\ \/ ProjectsRender \/ ProjectsReader \/ ProjectsAnswer
     \/ Retries /\ UNCHANGED projectsVars
     \/ (* bound *) calls = <<>> /\ ~dirty /\ TokenExpires /\ UNCHANGED projectsVars

-----------------------------------------------------------------------------
(* Properties.                                                             *)

\* A form makes one project, and another one only for each time it was sent again
\* after a failure; and no two projects have one slug, however creations overlap.
OneProjectPerForm ==
  /\ \A n \in 1 .. FormActs :
       Cardinality({ id \in DOMAIN projects : projects[id].form = n }) <= 1 + failures
  /\ \A a, b \in DOMAIN projects : a # b => projects[a].slug # projects[b].slug

\* Once nothing is under way, a form that says so has made its project and given it
\* its source, and the list shows every project whose making was reported, unless
\* it failed to load or lists came out of order.
NoticeIsTrue ==
  route = "projects" /\ calls = <<>> /\ ~dirty =>
    /\ ~form.creating /\ ~form.loading
    /\ form.notice = "completed" =>
         form.done \in DOMAIN projects /\ projects[form.done].source
    /\ form.pending # NoProject => projects[form.pending].layout
    /\ ~form.error /\ ~form.gap => form.told \subseteq form.listed
=============================================================================
