------------------------------ MODULE Domains ------------------------------
(***************************************************************************)
(* POST and DELETE /api/domains: apps/api/src/domains/service.ts, its      *)
(* repository, and createTraefikRoutesSyncer of routes.ts, which renders   *)
(* the whole domain table into routes.yml.                                 *)
(*                                                                         *)
(* Nothing serialises the requests: each lists the table, writes a temp    *)
(* file and renames it, an await apart.  The temp file is named after the  *)
(* millisecond, so two requests may share it.  A row is known by the       *)
(* request that created it, a file (an inode) by the one that made it.     *)
(***************************************************************************)
EXTENDS Integers, SequencesExt

CONSTANTS
  Requests,    \* HTTP requests; each creates or deletes one binding
  Hosts,       \* host names: a host is the sequence of its labels, which dots
               \* join, and a label that of its parts, which dashes join
  NoHost,      \* the host of a request that creates nothing
  NoFile,      \* no file
  MaxFaults,   \* bound on failing calls to the file system and the database
  MaxCrashes   \* bound on the restarts of the API process

ASSUME RequestsAssumption == IsFiniteSet(Requests)
ASSUME NoHostAssumption == NoHost \notin Hosts
ASSUME NoFileAssumption == NoFile \notin Requests
ASSUME BoundsAssumption == MaxFaults \in Nat /\ MaxCrashes \in Nat

VARIABLES
  pc,        \* pc[r]: the await r is suspended in
  host,      \* host[r]: the host r asks for, of the row it creates
  victim,    \* victim[r]: the row r deletes, r itself if it creates one
  db,        \* rows of the domain table
  version,   \* changes of db so far
  now,       \* Date.now()
  snapshot,  \* snapshot[r]: the rows r listed
  seen,      \* history: version r listed
  stamp,     \* stamp[r]: the millisecond in the name of r's temp file, or 0
  temp,      \* temp[t]: the file behind the temp name of millisecond t
  file,      \* file[r]: what the file r made contains
  handle,    \* handle[r]: the file r has open
  routes,    \* the file behind routes.yml
  published, \* history: version the last rename published
  inverted,  \* history: a rename has put an older listing over a newer one
  response, faults, crashes

vars == <<pc, host, victim, db, version, now, snapshot, seen, stamp, temp, file,
          handle, routes, published, inverted, response, faults, crashes>>

\* What r has listed and where it writes it.
sync == <<snapshot, seen, stamp, now>>
\* The files.
disk == <<temp, file, handle, routes, published, inverted>>
\* What a request asked for.
asked == <<host, victim>>

Syncing == {"list", "open", "write", "rename", "unlink"}
Active  == {"find", "insert", "lookup", "delete"} \cup Syncing
\* What a file contains that is being written, or was written by two requests:
\* no listing of the table.
Partial == {NoFile}
Stamps  == 0 .. Cardinality(Requests)

TypeOK ==
  /\ pc \in [Requests -> {"idle", "done", "dead"} \cup Active]
  /\ host \in [Requests -> Hosts \cup {NoHost}]
  /\ victim \in [Requests -> Requests \cup {NoFile}]
  /\ db \in SUBSET {d \in Requests : host[d] \in Hosts}
  /\ version \in Stamps
  /\ now \in Stamps
  /\ snapshot \in [Requests -> SUBSET Requests]
  /\ seen \in [Requests -> Stamps]
  /\ stamp \in [Requests -> Stamps]
  /\ temp \in [Stamps -> Requests \cup {NoFile}]
  /\ file \in [Requests -> (SUBSET Requests) \cup {Partial}]
  /\ handle \in [Requests -> Requests \cup {NoFile}]
  /\ routes \in Requests \cup {NoFile}
  /\ published \in Stamps
  /\ inverted \in BOOLEAN
  /\ response \in [Requests -> {"none", "ok", "rejected", "error"}]
  /\ faults \in 0 .. MaxFaults
  /\ crashes \in 0 .. MaxCrashes

\* No binding yet; routes.yml holds the base routers.
Init ==
  /\ pc = [r \in Requests |-> "idle"]
  /\ host = [r \in Requests |-> NoHost]
  /\ victim = [r \in Requests |-> NoFile]
  /\ db = {} /\ version = 0 /\ now = 0
  /\ snapshot = [r \in Requests |-> {}]
  /\ seen = [r \in Requests |-> 0]
  /\ stamp = [r \in Requests |-> 0]
  /\ temp = [t \in Stamps |-> NoFile]
  /\ file = [r \in Requests |-> {}]
  /\ handle = [r \in Requests |-> NoFile]
  /\ routes = NoFile /\ published = 0 /\ inverted = FALSE
  /\ response = [r \in Requests |-> "none"]
  /\ faults = 0 /\ crashes = 0

-----------------------------------------------------------------------------
(* Helpers                                                                 *)

Goto(r, where) == pc' = [pc EXCEPT ![r] = where]

Answer(r, what) ==
  /\ Goto(r, "done")
  /\ response' = [response EXCEPT ![r] = what]

Continue(r, where) == Goto(r, where) /\ UNCHANGED response

Fault == faults < MaxFaults /\ faults' = faults + 1

NoFault == UNCHANGED faults

SetDb(rows) ==
  /\ db' = rows
  /\ version' = IF rows = db THEN version ELSE version + 1

\* createDomainRouteName: the dots of a host become dashes as well.
RouteName(h) == FlattenSeq(h)

\* The rows that routes.yml has a router and a service for.
Listed == IF routes = NoFile THEN {} ELSE file[routes]

\* Those of them that it routes: router and service are keyed by the route name,
\* and of a key that is there twice a reader of YAML keeps one, or none.
Routed == {d \in Listed : \A e \in Listed : RouteName(host[e]) = RouteName(host[d]) => e = d}

-----------------------------------------------------------------------------
(* createDomain                                                            *)

\* Mutant: the parsed body is passed on without its host.
CreateWithoutHost(r, h) ==
  /\ pc[r] = "idle"
  /\ victim' = [victim EXCEPT ![r] = r]
  /\ Goto(r, "find")
  /\ UNCHANGED <<host, db, version, sync, disk, response, faults, crashes>>

Create(r, h) ==
  /\ pc[r] = "idle"
  /\ host' = [host EXCEPT ![r] = h]
  /\ victim' = [victim EXCEPT ![r] = r]
  /\ Goto(r, "find")
  /\ UNCHANGED <<db, version, sync, disk, response, faults, crashes>>

HostIsTaken(r) == \E d \in db : host[d] = host[r]

\* findDomainByHost, between the lookups of the project and of its services,
\* either of which may reject the request too.
FindHost(r) ==
  /\ pc[r] = "find"
  /\ \/ ~HostIsTaken(r) /\ Continue(r, "insert")
     \/ Answer(r, "rejected")
  /\ UNCHANGED <<asked, db, version, sync, disk, faults, crashes>>

\* Mutant: the table has no unique index on host.
InsertUnchecked(r) ==
  /\ pc[r] = "insert"
  /\ SetDb(db \cup {r})
  /\ Continue(r, "list")
  /\ NoFault
  /\ UNCHANGED <<asked, sync, disk, crashes>>

\* The insert, against the unique index on host.  It may be committed and still
\* reported as failed.
Insert(r) ==
  /\ pc[r] = "insert"
  /\ \/ /\ ~HostIsTaken(r)
        /\ SetDb(db \cup {r})
        /\ Continue(r, "list")
        /\ NoFault
     \/ /\ HostIsTaken(r)
        /\ Answer(r, "error")
        /\ NoFault
        /\ UNCHANGED <<db, version>>
     \/ /\ Fault
        /\ ~HostIsTaken(r)
        /\ \/ SetDb(db \cup {r})
           \/ UNCHANGED <<db, version>>
        /\ Answer(r, "error")
  /\ UNCHANGED <<asked, sync, disk, crashes>>

-----------------------------------------------------------------------------
(* deleteDomain                                                            *)

\* An administrator deletes a row that exists or existed.
Delete(r, d) ==
  /\ pc[r] = "idle"
  /\ d # r /\ victim[d] = d /\ pc[d] \notin {"find", "insert"}
  /\ victim' = [victim EXCEPT ![r] = d]
  /\ Goto(r, "lookup")
  /\ UNCHANGED <<host, db, version, sync, disk, response, faults, crashes>>

\* findUnique of the repository's deleteDomain: 404 without a row.
Lookup(r) ==
  /\ pc[r] = "lookup"
  /\ \/ victim[r] \in db /\ Continue(r, "delete")
     \/ victim[r] \notin db /\ Answer(r, "rejected")
  /\ UNCHANGED <<asked, db, version, sync, disk, faults, crashes>>

\* Mutant: the routes are not generated again after a delete.
DeleteRowOnly(r) ==
  /\ pc[r] = "delete"
  /\ SetDb(db \ {victim[r]})
  /\ Answer(r, "ok")
  /\ NoFault
  /\ UNCHANGED <<asked, sync, disk, crashes>>

\* delete throws when the row has gone meanwhile.
DeleteRow(r) ==
  /\ pc[r] = "delete"
  /\ \/ /\ victim[r] \in db
        /\ SetDb(db \ {victim[r]})
        /\ Continue(r, "list")
        /\ NoFault
     \/ /\ victim[r] \notin db
        /\ Answer(r, "error")
        /\ NoFault
        /\ UNCHANGED <<db, version>>
     \/ /\ Fault
        /\ SetDb(db \ {victim[r]}) \/ UNCHANGED <<db, version>>
        /\ Answer(r, "error")
  /\ UNCHANGED <<asked, sync, disk, crashes>>

-----------------------------------------------------------------------------
(* syncTraefikRoutes                                                       *)

\* listDomains, and Date.now() for the name of the temp file.
List(r) ==
  /\ pc[r] = "list"
  /\ \/ /\ snapshot' = [snapshot EXCEPT ![r] = db]
        /\ seen' = [seen EXCEPT ![r] = version]
        /\ now' \in {now, now + 1} \ {0}
        /\ stamp' = [stamp EXCEPT ![r] = now']
        /\ Continue(r, "open")
        /\ NoFault
     \/ /\ Fault
        /\ Answer(r, "error")
        /\ UNCHANGED sync
  /\ UNCHANGED <<asked, db, version, disk, crashes>>

\* Mutant: no temp file; routes.yml itself is opened and truncated.
OpenInPlace(r) ==
  /\ pc[r] = "open"
  /\ routes' = r
  /\ handle' = [handle EXCEPT ![r] = r]
  /\ temp' = [temp EXCEPT ![stamp[r]] = r]
  /\ file' = [file EXCEPT ![r] = Partial]
  /\ Continue(r, "write")
  /\ NoFault
  /\ UNCHANGED <<asked, db, version, sync, published, inverted, crashes>>

\* writeFile opens the temp file: a file of that name is truncated.
Open(r) ==
  /\ pc[r] = "open"
  /\ \/ LET f == IF temp[stamp[r]] = NoFile THEN r ELSE temp[stamp[r]]
        IN  /\ temp' = [temp EXCEPT ![stamp[r]] = f]
            /\ handle' = [handle EXCEPT ![r] = f]
            /\ file' = [file EXCEPT ![f] = Partial]
            /\ Continue(r, "write")
            /\ NoFault
     \/ /\ Fault
        /\ Continue(r, "unlink")
        /\ UNCHANGED <<temp, handle, file>>
  /\ UNCHANGED <<asked, db, version, sync, routes, published, inverted, crashes>>

\* writeFile writes and closes.  Over what another request wrote into the same
\* file meanwhile, a shorter text leaves a mixture.
Write(r) ==
  /\ pc[r] = "write"
  /\ \/ /\ \/ file' = [file EXCEPT ![handle[r]] = snapshot[r]]
           \/ /\ file[handle[r]] \notin {Partial, snapshot[r]}
              /\ file' = [file EXCEPT ![handle[r]] = Partial]
        /\ Continue(r, "rename")
        /\ NoFault
     \/ /\ Fault
        /\ Continue(r, "unlink")
        /\ UNCHANGED file
  /\ UNCHANGED <<asked, db, version, sync, temp, handle, routes, published,
                 inverted, crashes>>

\* rename onto routes.yml; ENOENT when a request of the same millisecond was
\* faster.  The audit row that follows is best effort.
Rename(r) ==
  /\ pc[r] = "rename"
  /\ \/ /\ temp[stamp[r]] # NoFile
        /\ routes' = temp[stamp[r]]
        /\ temp' = [temp EXCEPT ![stamp[r]] = NoFile]
        /\ published' = seen[r]
        /\ inverted' = (inverted \/ published > seen[r])
        /\ Answer(r, "ok")
        /\ NoFault
     \/ /\ (temp[stamp[r]] = NoFile /\ NoFault) \/ Fault
        /\ Continue(r, "unlink")
        /\ UNCHANGED <<routes, temp, published, inverted>>
  /\ UNCHANGED <<asked, db, version, sync, file, handle, crashes>>

\* Mutant: the temp file stays where it is.
UnlinkSkipped(r) ==
  /\ pc[r] = "unlink"
  /\ Answer(r, "error")
  /\ UNCHANGED <<asked, db, version, sync, disk, faults, crashes>>

\* The catch: unlink of the temp name, best effort, then the error is thrown on.
Unlink(r) ==
  /\ pc[r] = "unlink"
  /\ \/ temp' = [temp EXCEPT ![stamp[r]] = NoFile] /\ NoFault
     \/ UNCHANGED temp /\ Fault
  /\ Answer(r, "error")
  /\ UNCHANGED <<asked, db, version, sync, file, handle, routes, published,
                 inverted, crashes>>

-----------------------------------------------------------------------------
(* Specification                                                           *)

Crash ==
  /\ crashes < MaxCrashes
  /\ crashes' = crashes + 1
  /\ pc' = [r \in Requests |-> IF pc[r] \in Active THEN "dead" ELSE pc[r]]
  /\ UNCHANGED <<asked, db, version, sync, disk, response, faults>>

Step(r) ==
  \/ FindHost(r) \/ Insert(r)
  \/ Lookup(r) \/ DeleteRow(r)
  \/ List(r) \/ Open(r) \/ Write(r) \/ Rename(r) \/ Unlink(r)

Next ==
  \/ \E r \in Requests, h \in Hosts : Create(r, h)
  \/ \E r, d \in Requests : Delete(r, d)
  \/ \E r \in Requests : Step(r)
  \/ Crash

Spec == Init /\ [][Next]_vars

-----------------------------------------------------------------------------
(* Properties                                                              *)

\* No request is at work, and none was cut off.
Quiet == crashes = 0 /\ \A r \in Requests : pc[r] \notin Active

\* Two overlapping creates never bind one host twice, although both may have
\* found it free.
HostsAreUnique ==
  \A d, e \in db : d # e => host[d] # host[e]

\* Two requests have used the same temp name.
TempShared ==
  \E r, s \in Requests : r # s /\ stamp[r] # 0 /\ stamp[r] = stamp[s]

\* Traefik, which watches routes.yml, never reads it half written, as long as no
\* two requests list in the same millisecond.
RoutesAreWhole == ~TempShared => Listed # Partial

\* Two rows of the table have hosts that differ only in what is a dot in the one
\* and a dash in the other, as a.b.com and a-b.com do.
HostsAlike ==
  \E d, e \in db : host[d] # host[e] /\ FlattenSeq(host[d]) = FlattenSeq(host[e])

\* When all requests have been answered and none of their calls failed, each row of
\* the table is routed and nothing else is: overlapping requests do no harm, unless
\* one that listed earlier renamed later, or shared a temp name.  Hosts that are
\* alike are left out: routes.yml has one key for both.
RoutesFollowTable ==
  Quiet /\ faults = 0 /\ ~inverted /\ ~TempShared /\ ~HostsAlike => Routed = db

\* A failing sync removes its temp file: none is left when all is quiet, unless
\* the removal failed as well.
NoTempLeft ==
  Quiet /\ faults <= 1 => \A t \in Stamps : temp[t] = NoFile
=============================================================================
