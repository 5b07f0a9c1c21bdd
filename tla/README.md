# DockerAdmin in TLA+

DockerAdmin is one Fastify process (`apps/api`) beside PostgreSQL, Docker and
Traefik, and a React single-page application (`apps/web`). The code has no
threads, but almost every operation is a chain of `await`s over files, the
database and child processes, and requests interleave at each of them. Nothing
but the deploy lock serialises anything. These modules are about that: what
happens between two `await`s, when one of a chain of calls fails, when an answer
is lost and when the process restarts.

Everything is translated from the source. Paths below are relative to the
repository root.

## The system

| Component | State | Operations | Meets |
|---|---|---|---|
| Deploy service (`apps/api/src/deploy/service.ts`, `lock.ts`, `preflight.ts`, `compose.ts`, `repository.ts`) | set of locked projects (memory), `Deployment` rows, `last-deploy.log` | deploy, list | runner, env store, workspace, audit, notifier |
| Deploy runner (`deploy/runner.ts`) | one child, two timers, a settled flag | run | deploy service, docker |
| Source ingestion (`source/service.ts`) | workspace `src/` or `repo/`, staging and backup directories | upload ZIP, clone | runtime layout, deploy (reads the workspace) |
| Env store (`env/service.ts`) | `env.enc` | get, put | deploy |
| Runtime layout (`runtime/paths.ts`) | directories of a project | ensure | everything that writes files |
| Domains (`domains/*.ts`) | `Domain` rows, `routes.yml`, temp files | create, delete, list | Traefik, docker services |
| Authentication (`auth/*.ts`) | `RefreshToken` rows | login, refresh, logout, guard | every route |
| Web session (`apps/web/src/App.tsx`, `auth.ts`, `projects.ts`) | `authSession` of each tab, `localStorage` | login, refresh on 401, logout | authentication |
| Logs (`logs/*.ts`) | one follower and one queue per socket | HTTP tail, WebSocket stream | docker logs |
| Projects (`projects/*.ts`) | `Project` rows, slugs | create, update, list | runtime layout |
| Services (`services/*.ts`) | none of its own | list, start, stop, restart | docker |
| Metrics (`metrics/*.ts`) | none of its own | list | docker stats |
| Metrics poller (`apps/web/src/metrics.ts`, used by `App.tsx`) | one controller, its interval and request | start, refresh, stop | metrics |
| Projects page (`apps/web/src/projects-page.tsx`) | the list, the form, the project that waits for its source | load, create, upload | projects, source ingestion |
| Project page (`apps/web/src/project-*.tsx`, `project-*.ts`) | what each tab shows | load, edit the env, deploy, act on services and domains, stream | all routes |
| Audit page (`apps/web/src/audit*.ts*`) | the URL, the list, the selected row | filter, page, select, export | audit |
| Audit (`audit/*.ts`), notifier (`notifier/service.ts`) | `AuditLog` rows | append, list, export; send | written best effort by the others |
| `server.ts`, `config.ts`, `errors.ts`, `security.ts`, `index.ts`, shared DTOs, infra, scripts | none that changes | routing, validation, wiring | |

What makes each component correct, and what is hard about it:

* **Deploy**: one deploy per project at a time; the lock is released on every way
  out and by nobody else; record, response, notification and audit row tell the
  same story even when a write is committed and reported as failed; a restart
  loses the lock but neither the record nor the docker process.
* **Runner**: the promise settles once and truthfully although exit, `error`,
  `close`, the timeout and the kill timer come in any order.
* **Source**: the previous source survives failures, overlaps and restarts.
* **Domains**: hosts are unique, `routes.yml` is never half written and follows
  the table, although each request writes the whole file from its own listing.
* **Session**: a refresh token is exchanged once; nobody is logged out, or stays
  logged in, by surprise.
* **Logs**: one follower per socket, stopped on every way the socket ends; lines
  in order, whatever the chunks they come in; a bounded queue.
* **Projects**: unique slugs; a form makes one project; a row has its directories.
* **Web pages**: what is shown belongs to what is selected and is what the API
  keeps, or there is an error; nothing typed is lost; whatever is busy becomes free.

`PROJECT.json` lists every hazard with its line and the properties that cover it.

## Modules

`DeployLedger` is what the deploy endpoint promises: requests own projects
exclusively, and a record moves `RUNNING` to `SUCCESS` or `FAILED` by its owner
alone. The one correction it allows is `SUCCESS` to `FAILED` by the owner, which
happens when `finishDeployment` is committed but its answer is lost, and the catch
then writes `FAILED`.

`Deploy` is `deployProject`. `pc[r]` names the `await` request `r` is suspended
in, and each action is the code from one `await` to the next, with every way the
awaited call may end: done, failed, or (database writes and file writes) done and
reported as failed. `Leave` is the `finally` that releases the lock. Preflight is
one step, since it changes nothing; that it is stale by the time its result is used
is not checked (see Not modelled). `Crash` empties the lock set and forgets
all pending requests; the docker child of a lost request may live on until
`OrphanEnds`. `Ledger` maps the module to `DeployLedger`: `owner[r]` is the project
of a request between acquire and release.

`DeployRunner` is the promise of `createDeployCommandRunner` on a discrete clock.
The child and its descendants are the environment: the child may ignore SIGTERM,
not SIGKILL, and a descendant that inherited its pipes may outlive it. Node emits
`close` when the child has exited and nobody holds its pipes. `Tick` waits for due
work, as a tick is longer than a turn of the event loop.

`Source` is the swap of a workspace by two renames (`replaceWorkspaceFromStagedDir`)
inside `uploadZipSource` and `cloneGitSource`. A directory is known by the content
in it. `EnsureLayout` is what every other handler does first: recreate a missing
workspace, empty. rename(2) onto a directory replaces an empty one and fails on any
other.

`Domains` (run through `MCDomains`) is create, delete and `createTraefikRoutesSyncer`.
A row is known by the request that created it. Files are inodes, so that a rename
moves a file another request still has open; temp names are milliseconds of a clock
that may stand still between two requests. A file holds the rows that were rendered into
it. What it routes (`Routed`) is less: routers and services go by the name that
`createDomainRouteName` makes of a host, a host is the sequence of its labels and a
label that of its parts, and `RouteName` joins them all alike, so that `a.b` and `a-b`
have one name and a file with both has one key twice.

`Session` (run through `MCSession`) joins `auth/service.ts` with the tabs of the web
application. A session is a pair of tokens. A guarded call captures the session of
its render; a 401 makes it send that session's refresh token, and whatever comes
back replaces the state of the tab and `localStorage`. The effect that stores the
state also runs when the tab selects another project (`SelectProject`), and no tab
listens to `localStorage`.

`LogsSocket` is the server's side of one log stream: `handleLogsWebSocketUpgrade`
from the upgrade through its awaits (authenticate, find the service, read the tail)
to the follower `docker compose logs --follow`. `conn` is the record of the local
variables of the handler and of what it did to the socket; `wire` keeps every frame
it wrote. Each callback is one action that also contains the microtask that
flushes the queue, as node runs that before its next callback. Lines are numbered
as the follower prints them, and the byte budget of the queue counts frames. A
write that reports backpressure is a choice at every write. Left out: a reset of
the connection before the handler has attached its listeners, and a client that has
ended its half and is never closed by the server (the follower is stopped then,
and nothing more happens).

`LogsStream` extends it with the reader: the network in order, and the effect of
`ProjectLogsTab` for one service, from the HTTP snapshot to the cleanup. React
decides when it renders, so the lines to be shown (`lines`) and the copy that the
next frame is appended to (`ref`) are separate, and `Render` brings them together.

`LogLines` is how `logs/runtime.ts` makes lines: the reader of the last lines from the
whole output, the follower from chunks that end anywhere. Text is a sequence of bytes
of six kinds (letter, space, `\r`, `\n`, and the two halves of a character), which is
what trimming, splitting and decoding tell apart. The reference for the follower is
the other reader.

`ZipEntries` is `extractZipArchive`: the entries one after the other, each with a kind,
a size and a path, and the files and directories they leave. A path is the sequence
of what is between its slashes. The reference for `normalizeZipEntryPath` is a walk
along the path that must never be above where it started. What an entry's mode says
counts only if its name does not end with a slash (`MakesDirectory`): a link of such a
name is followed, as a directory. `Readers` puts these two
side by side for one run; a behaviour has one of them.

`MCDomains` names the hosts and adds symmetry, `MCSession` adds symmetry, and both are
used in runs that check invariants only. `MCPages` adds a view: states of the project
page that differ only in the order of its requests are one, since that page takes answers
in any order and no definition of it reads `late`. `Deploy_proofs`,
`DeployRunner_proofs`, `Source_proofs`, `Domains_proofs`, `Session_proofs`,
`LogsStream_proofs`, `Readers_proofs` and `WebPages_proofs` hold the theorems about the
modules of the same names.

### The pages

`WebClient` is what the pages share: the requests under way, the access token they
carry and the one the API accepts, a failing request, and a render that is due.
The API serves requests, and their answers are taken, in any order. A request that
meets an old token is sent again with a new one (`Retry`), and since the new session
is a new `accessToken` for the page, the page renders and its effects run again.
React gathers what a handler sets and renders later, so each page has an action that
renders (`AuditRender`, `ProjectRender`, ...) and runs the effects whose dependencies
changed, and its reader acts on a page that is rendered. Each request of `fetch` is
known by what it is for and by the variables its closure captured. An answer that
is taken after the one of a later request of its kind is `late`: none of the pages
tells such answers apart, and the properties say what that may cost.

* `AuditPage`: the filter, the page and the selected row are the URL's. One effect
  loads the list, two others put the URL right. The API reads the table twice, the
  count and then the rows (`Count`, `Found`), and `RowAdded` may come between.
* `ProjectPage`: the project, its env and its deployments, of two projects between
  which the history of the browser goes back and forth while the page stays mounted
  (`Jump`, at any time; what else the reader does needs a page that is rendered). Answers
  are taken at any time, several of them before a render if React gathers them. Of the
  API it has `env.enc` and the deploy lock. The API serves a request for an env or for
  deployments in one step and the page takes the answer in another (`GetProjectEnv`,
  `ListProjectDeployments`) while a put, or a deploy, of that project is under way, so an
  answer may be older than a later put; otherwise nothing can change what is read
  between the two, and they are one step. A variable of an env is known by the
  project it belongs to.
* `RuntimeTabs`: the services tab and the domains tab, which both list rows, act on
  one and list again. The API changes a row (`Change`) and then does more that can
  fail (`Confirm`): it lists the services, or writes the routes file.
* `ProjectsPage`: the list, and the form that makes a project in two requests. The API
  looks for a slug, one candidate at a time, inserts the row, and makes the
  directories; each can fail, and it goes on when nobody waits for it (`orphan`).
* `Dashboard`: the polling controllers, the effect that stops one and starts the
  next, and the interval. Tokens expire at any time here.

`WebPages` mounts one of them. A visit stays on its page: what is left of a page when
another is mounted is the cleanup of its effects, which `LogsStream` has for the one
page that keeps a connection.

## Runs

| Run | Question | Instance |
|---|---|---|
| `deploy` | Does the lock protocol keep every report consistent, release the lock, and implement the ledger? | 2 requests, 2 projects, 1 restart |
| `deploy_running` | Does every record leave `RUNNING`? **No** | 1 request |
| `runner` | Does the promise settle once and truthfully, and what can delay it? | timeout 3, grace 2, 8 ticks |
| `source` | Is the previous source on disk until a promotion, and are failures rolled back? | 3 ingestions, 1 fault, 1 restart |
| `source_lost` | Does a source survive a failing ingestion? **No** | 2 ingestions, no fault |
| `domains` | Unique hosts, whole file, right routes, no leftovers? | 3 requests, 3 hosts of which 2 have one route name, 1 fault, 1 restart |
| `session` | Is an unsent session usable, and is nobody surprised? | 4 calls, 2 tabs, 1 fault |
| `session_rotation` | Is a refresh token exchanged once? **No** | 3 calls, 1 tab |
| `logs` | Are frames in order, followers stopped, failures told and errors kept? | queue of 2 frames, 4 lines, 2 lines visible |
| `pages` | Does each page end up showing what was asked for and what is there, or an error? | one page at a time; 1 token expires, 1 request fails; 3 audit rows and 1 click; 2 acts on a tab, or on a project with up to 2 requests under way; 2 projects and 5 acts on the form; 2 changes of the metrics' project |
| `audit_settles` | Do the URL and the list of the audit log come to agree? **No** | 2 rows, 1 click, no failure |
| `rules` | Are chunks put together to the right lines, and archives extracted inside their directory? | 6 characters of output; 2 entries, paths of 3 segments, limit of 3 |

Bounds. Two requests of one project are what the deploy lock is about, the second
project shows that locks are per project, and one restart is enough because a
second one meets no state that the first does not leave; the proofs hold for all
numbers. Three ingestions let one find the content of a second while a third
rolls back. In `Domains` a create, a delete of its row and a third request cover
every pair of overlapping operations with a bystander. Four calls are enough for
login, refresh, logout and one more call with a session from before. Faults are
bounded by one per run: two failures in different requests are independent, and in
one request the second meets the code of the first. In `logs` four lines overfill a
queue of two while a third is on the wire, and scroll a page of two lines.

In `pages` the table of the audit log starts with two rows on two pages, so that a
click, an added row and a link to a page that is not there all meet a list that
moves. Two acts are a change of the project, the tab or a row with another change
before its answer. Five acts on the form are: open, send, choose a source, send, and
one more, which is to send again or to open the form anew; with two projects the
second one meets the slug of the first. Two bounds leave behaviours out. Tokens
expire only between requests, except on the dashboard: a request that is refused is
then the first of a series. And the reader of the project page acts while no more than
`MaxUnderWay` requests are under way, two in the run: a page that is being opened has
the second request for its project under way beside one for its env. The bound is on when
the reader acts, not on the requests, and the proofs hold for every value of it.
In `rules` the output has two lines' ends with a character cut between chunks at every
place, and two entries are all it takes for one to be in the way of another.

Deadlock is not checked: all of these systems may come to rest.

### What the violations show

* `deploy_running`: the `catch` of `deployProject` writes the log before it
  finishes the record. If that write fails as the first one did, the record stays
  `RUNNING`, nothing repairs it, and the web page keeps the deploy button disabled.
* `source_lost`: ingestion 1 moves the workspace away, another handler or ingestion
  2 recreates it, 2 moves the empty directory away and promotes, 1 finds its rename
  refused, removes what 2 promoted and puts its backup back; mirrored, the backup it
  puts back is the empty directory. With a failing rename on top of an overlap the
  original may be lost for good, which is why `OriginalRecoverable` speaks of
  `faults = 0`.
* `session_rotation`: both refreshes look the row up before either revokes it.
  When the second comes later instead, it is refused and the tab drops the new
  session; `NoneRefused` says that without double use of a token, and without lost
  answers, this cannot happen.
* `audit_settles`: the effect that puts the URL right compares it with the list that
  is still shown. A click on page 2 is undone by it, but both requests are made; the
  answer for page 2 then moves the URL to 2, whose effect asks for page 2 again
  while the answer for page 1 moves it back. An answer that comes out of
  turn may end it. A link to a page other than the first is undone in the same
  way by the empty list the page starts with. `AuditShowsAsked` says that whenever the
  page does come to rest, URL and list agree.

### Departures that are part of a property

Some of what the code does differently from what one would expect is an exception
of a property that holds, which says that nothing else goes wrong:

* `OnlyPipesDelay`: SIGKILL reaches the docker child only. While a descendant holds its
  pipes `close` does not come, the runner does not return and the project stays
  locked. This is the only thing that delays it.
* `RoutesFollowTable`: an older listing may be renamed over a newer one, so that two
  successful requests leave a `routes.yml` without one of them. And hosts that differ
  only in their dots and dashes (`a.b.com` and `a-b.com` are both allowed) get one key
  for their routers and one for their services, where
  `docs/plans/2026-03-20-e8-3-generate-traefik-routes-from-db-design.md:21` gives each
  binding its own: what becomes of a key that is there twice is up to the reader of the
  file, and it may take the whole file for faulty (`HostsAlike`). Besides these, only a
  shared temp name or a failing call makes the routes differ from the table.
* `ShownUnlessHasty`: `logLinesRef` follows the state in an effect, so two frames that
  arrive before the next render are both appended to the older lines, and the
  first is lost from the page. Nothing else loses a line.
* `LinesAsTailed`: a character of several bytes that is cut by the end of a chunk is
  replaced, since every chunk is decoded alone. The lines are right otherwise.
* `AuditShowsAsked`, `RowsAreReal`, `NoticeIsTrue`: a list that is loaded twice may be
  answered in the other order, and then stays as it was before. `gap` remembers it.
* `ShownIsOwn` and `EditsKept`: an answer for a project that was left changes the state
  of the one that is shown (`stray`). It can bring the variables of one project into the
  editor of another; and the answer of a deploy of a project that was left clears the
  error that says that the list of the other one failed to load, so that the list of
  the first stays without a word.
* `ShownIsOwn` and `EditsKept`: answers of both projects may be taken before the page
  renders (`merged`). The effects compare with the last render and miss what changed in
  between, so the page may show one project under the URL of another, and nothing puts
  it right. Without this exception TLC finds `ShownIsOwn` violated.
* `EditsKept`: the everyday case. `loadProject` depends on the id of the project it
  loads, so a page that is opened loads its project twice, and its env once more if
  the second answer comes before the first env. The second env may come after the reader began to type over the
  first, and replaces what was typed. The property says what the page does not do: it
  asks for no env over what is typed, unless loading it had failed before.
* `RowsAreReal`: an action that was done and whose confirmation failed is reported as
  failed, and the list is not loaded again.
* `OneProjectPerForm`: a creation whose answer was lost is sent again by the reader, and
  makes a second project with another slug.
* `NoticeIsTrue`: the button that opens the form is enabled while one is being sent;
  its answer then fills, or closes, the form that was opened meanwhile.
* `FollowerStops`: a socket that is destroyed, and whose `close` is emitted, while the
  handshake still awaits is `Forgotten`: the listeners attached afterwards are never
  called and the follower is not stopped. `preClose` at a shutdown is the way into it;
  no other end of a connection leaves a follower behind.

## Fairness

`Deploy` states weak fairness of the steps of each request that has arrived: every
`await` settles, since docker has its timeout (see `DeployRunner` for the
exception), the database client and the operating system answer or fail. Nobody is
obliged to send a request, to restart the process or to end an orphan.

`LogsStream` states weak fairness of the events that node emits by itself once they
are due (`OnDrain`, `OnEnd`, `OnClose`, `OnCloseFrame`, `BothEnded`) and of the
browser's, which reads frames and renders as long as it is there. Neither the
follower nor the reader is obliged to do anything, and the handshake may wait
for ever. A drain is fair although a client that never reads would prevent it:
`FailureIsTold` is about clients that read.

`AuditPage` states weak fairness of a render that is due and of the requests: React
renders, the API answers, and the browser takes the answer. Nobody has to click, and no
request has to fail. `PageSettles` is violated under it. The other modules state
safety only.

## Proofs

`Deploy_proofs` is checked by TLAPS for every number of projects, requests and
restarts, from three assumptions on the constants: `NoProject` is no project,
`NoRequest` is no request, `MaxCrashes` is a natural number.

* `TypeCorrect`: `TypeOK`. Inductive with `Arrived` (a request at work has a
  project), without which `lock \cup {project[r]}` has no type.
* `LockCorrect`: `LockMatchesHolder`. Its inductive form `Held` says that the lock
  is exactly the set of projects at work and that no two requests at work share
  one; the second half is what makes the release of one request leave the others
  locked.
* `CommandsExclusive`: a child belongs to a request that awaits it, or to a lost
  one (`ChildAwaited`); with `Held`, two awaited children have different projects.
* `LogOwned`: `LogIsOwn` is inductive relative to `Held`, since only a request at
  work writes the log.
* `OutcomesAgreeAlways`: from `AllConsistent`, which fixes for every `await` what the
  record, the exit, the audit row, the notice and the response may be by then.
* `Implements`: `Spec => LedgerSpec`, from `Held` and `AllConsistent`; `RecordStep`
  shows what a step does to the record, `OwnerStep` what it does to the owner, and
  `LedgerStep` puts the two together.

`DeployRunner_proofs` holds for every timeout and grace period
(`TimesAssumption`: positive numbers). The invariant names the three phases a promise
that has not settled can be in, `Waiting` for the timeout, `Grace` after SIGTERM and
`Overtime` after SIGKILL, by the timers that are armed in each.

* `RunnerTyped`: `TypeOK`, which holds only with the phases, because timers are
  compared with the clock.
* `ResultAlwaysTrue`: `ResultIsTrue`. `FinishIsTrue` shows it once for both events
  that settle.
* `OnlyPipesEverDelay`: `OnlyPipesDelay`. Past the deadline only `Overtime` is left,
  where the child is dead, so what is missing is `close`.
* `SettledOnce`: `SettlesOnce`.

`Source_proofs` holds for any number of ingestions, faults and restarts; the source that
was there first is none of theirs (`OriginalAssumption`). `Stages` says what the staged
and the backup directory of an ingestion hold at each of its steps.

* `TypesOK`: `TypeOK`, which holds only with `Stages`: what is renamed onto the
  workspace is a whole content.
* `OriginalAlwaysRecoverable`: `OriginalRecoverable`. Inductive with `NobodyRollsBack`:
  while nothing was promoted and nothing failed, all that stands between the two
  renames of an ingestion is nothing or an empty directory, so no rename is refused.
* `NothingIsLeftBehind` and `AloneFailsHarmlessly`: `NothingLeftBehind` and
  `FailingAloneIsHarmless`. An ingestion that met no other is the only one at work
  (`AloneIsAlone`) and knows where what it found is (`AloneKeeps`).

`Domains_proofs` holds for every finite set of requests (`RequestsAssumption`), all
hosts, faults and restarts; hosts that are alike are the exception stated above.

* `HostsAlwaysUnique`: `HostsAreUnique`, from `RowsUnique`.
* `RoutesAlwaysWhole`: `RoutesAreWhole`. While no two requests share a temp name, each
  writes an inode of its own (`NamesKept`), which is whole when it is renamed
  (`FilesWhole`). `ClockBounded` bounds the names by the number of requests that have
  taken one.
* `RoutesAlwaysFollowTable`: `RoutesFollowTable`. A listing is known by the version of
  the table it saw (`ListingsDated`), a request renames what it listed (`FilesOwned`),
  and while the file is behind the table somebody will list again or has listed the
  last version and will rename (`UpdateUnderway`).
* `NeverTempLeft`: `NoTempLeft`, from `TempWanted`: behind a temp name is a file that
  somebody will rename or remove.
* `TypesOK`: `TypeOK`; the version of the table is bounded by the requests past their
  write (`VersionBounded`).

`Session_proofs` holds for every finite set of calls, every set of tabs and any number of
lost answers.

* `UnsentAlwaysLive`: `UnsentIsLive`. Its inductive form `Accounted` says of every
  session in the browser, or on the way to it, that its row is live or that it was
  presented. A row dies only by the call that presented it (`SentIsPresented`).
* `OneAlwaysLivePerLogin`: `OneLivePerLogin`, from `OneToken`: a login has one live
  session, or one call that has revoked its own and will create the next.
* `NoneEverRefused`: `NoneRefused`, from `AskedIsLive`: without double use a session
  stays live until the call that sent it revokes it.
* `TypesOK`: `TypeOK`; `IssuedOnce` bounds the sessions by the calls that got one.

`LogsStream_proofs` holds for every budget of the queue, any number of lines and any
number of visible ones. Its first part is about the socket alone. `Good` says of a
connection that its wire has the snapshot, the lines without a gap, and at the end
nothing, an error, the close frame or both, and that while the stream runs the
queue holds the lines between the wire and the follower. There is a lemma for each
function of the handler (`QueueLinesSafe`, `StopStreamSafe`, `WrittenSafe`, ...), since
every callback is a composition of them, and one for each callback.

* `FramesAlwaysInOrder`: `FramesInOrder`, from `Good`.
* `WireOnlyGrows`: no step takes back or reorders what was sent on a connection.
* `AlwaysShownUnlessHasty`: `ShownUnlessHasty`. `FirstLines` and `Trim` are related to
  what the tab has read by `ReadSoFar` and `NextFrame`.
* `ErrorAlwaysStaysShown`: `ErrorStaysShown`; `StreamTypesOK`: `StreamTypeOK`.

`Readers_proofs` holds for archives of any number of entries, paths of any number of
segments and any limit, and for outputs of any length, cut into chunks anywhere. Paths
and texts are taken apart by folds. `FoldsExist` and `FoldReads` say of any fold what
its value is on the empty sequence and on one element more; of each fold of the model a
lemma then says so for its own step (`NormalizeWalked`, `SplitReads`, `LinesReads`,
`JoinedReads`, ...), and `SequenceInduction` reasons along it: a set that has the empty
sequence, and each sequence that is one element longer than one it has, has them all.

* `ArchiveAlwaysInPlace`: `ArchiveInPlace`. `FollowStep` is one step of `Normalize`: names
  that lead out stay out, and names that stay inside are as many as the path went down
  more than up, so a path that `Unsafe` lets through never climbs (`SafeStaysInside`).
  `ArchiveInv` adds that each file stands where its entry's path leads and was written of
  a regular file (`MakesFile`), and that every entry that is behind was safe. `ParentsAreShorter` is why a new file is none of the
  directories made for it.
* `LinesAlwaysAsRead`: `LinesAsRead`. `FollowerInv` says that there is a text t, what the
  chunks were decoded to, with as many lines as the output read so far: what is buffered
  is the last piece of t, and the lines of the others were sent. While no character was
  cut, t is the output read so far, decoded. A chunk then adds to it what it is decoded
  to alone (`DecodedOn`: a chunk that begins where a character does), and taking the
  buffer with a chunk apart is taking all of the text apart (`SplitOn`), whatever
  becomes of a `\r` that the chunk before it ended with (`NewlinesAlike`,
  `TrimEnd` drops it). The reader of the last lines trims the text first and removes
  `\r` before it splits; neither changes a line (`TrimmedAlike`, `ParsedAsSplit`), as
  docker begins with the name of a service (`OutputsBegin`). When a character was cut, t
  and the output have as many full lines and both or neither go on with one, which is
  what `AlikeOn` counts along a chunk.

`WebPages_proofs` holds for any number of tokens, failures, rows, projects and acts of the
reader. The pages share `WebClient` alone, so each has an invariant of its own that speaks
of the requests while its page is mounted. What is common to them is what taking an
answer does to the others under way (`WithoutProperties`), and that of the requests of a
kind those that are late come first (`LateFirst`), so that the newest is the last one.

* `MetricsAlwaysOwn`: `MetricsAreOwn`. Only the newest controller runs (`OneRuns`), each
  request is that of its controller (`PollsOwned`), and what is shown belongs to the
  last render (`DashShows`).
* `RowsAlwaysReal`: `RowsAreReal`. Whatever is busy has a request (`TabBusy`), and
  while no action is under way and no error is shown the newest list asked for
  brings the real rows (`TabShows`).
* `OneProjectAlwaysPerForm`: `OneProjectPerForm`, by counting: the rows of a form and the
  requests that may still insert one are at most one more than there were
  failures, and no more than these if the form can be sent again (`FormCounts`).
* `NoticesAlwaysTrue`: `NoticeIsTrue`, from `FormKnows` and `FormLists`.
* `AuditAlwaysAsked`: `AuditShowsAsked`. The newest list was asked for with the query of
  the URL (`AuditShows`, `AuditRendered`). That a page of the rows fits its count
  (`CountedFits`, `FoundFits`) rests on `MatchingRows`: as many rows are found as match,
  one at each place.
* `OwnAlwaysShown`: `ShownIsOwn`. `ProjectInv` says for each of the three things the page
  loads that it is there or under way (`ProjectAsked`, `EnvAsked`, `DeploymentsAsked`).
  They lean on what the last render saw: what was shown or loaded then and is not any
  more has made room for an answer that came since (`Rendered`, `TakenSince`), so an
  effect that is needed runs. While no answer came for a project that is not shown, every
  env is in its place, in the editor, in the requests and in `env.enc` (`OwnContent`).
* `EditsAlwaysKept`: `EditsKept`, an action property, from the same invariant. `Typing` says
  that what is typed is typed into an env that is loaded, which no effect loads again,
  and that no env under way was asked for over it.
* `PagesAlwaysTyped`: `PagesTypeOK`, from the five invariants and `SlugInv`: a search for a
  slug has found all lower ones taken, so the slugs of n projects are the first n
  numbers. This is why a bounded table is enough for them.

Model-checked only:

* the liveness properties `LockIsReleased`, `FollowerStops` and `FailureIsTold`, and the
  violated `PageSettles`: fairness is out of the prover's reach.

Every invariant and action property of a passing run, and the refinement, is stated by
a theorem.

## Plan

What is left, in this order:

1. The frames of the WebSocket (`encodeWebSocketFrame`, the parser of what the client
   sends) as functions checked against each other.
2. `updateProjectName`, and the parsing of docker's tables and sizes.

## Not modelled

Routing, validation by the shared DTOs, configuration, CORS, i18n, styles, the
Traefik container, migrations and scripts keep no state that changes. Cryptography
(password and token hashes, env encryption) is abstracted to what it decides.
Text (log formatting, redaction, YAML, CSV, the numbers of docker stats) is left out
where no property is about it.

What a deploy reads is left out: preflight looks at the workspace and the env, and
docker compose reads them later, from files that other requests may replace or be
writing. The code has no rule for which source and which env belong together, so there
is nothing to compare a deploy with. `env.enc` is written in place; `ProjectPage` writes it
in one step. An editor whose env failed to load is empty and can be saved; the steps
are in `ProjectPage`, and no property forbids it.
