--------------------------- MODULE Domains_proofs ---------------------------
(***************************************************************************)
(* Proofs about Domains, for any number of requests, hosts, faults and     *)
(* restarts: hosts are unique; routes.yml is never read half written, and  *)
(* is that of the table in the end, unless two requests share a temp name; *)
(* and no temp file is left unless its removal failed.                     *)
(***************************************************************************)
EXTENDS Domains, FiniteSetTheorems, TLAPS

-----------------------------------------------------------------------------
(* The inductive invariant.                                                *)

\* Before a request lists the table it has no temp name; afterwards it has one.
Early == {"idle", "find", "insert", "lookup", "delete", "list"}
Late  == {"open", "write", "rename", "unlink"}

\* What the proofs need of the types.
Shape ==
  /\ pc \in [Requests -> {"idle", "done", "dead"} \cup Active]
  /\ DOMAIN host = Requests
  /\ db \subseteq Requests
  /\ now \in Nat
  /\ snapshot \in [Requests -> SUBSET Requests]
  /\ stamp \in [Requests -> Nat]
  /\ temp \in [Stamps -> Requests \cup {NoFile}]
  /\ DOMAIN file = Requests
  /\ handle \in [Requests -> Requests \cup {NoFile}]
  /\ routes \in Requests \cup {NoFile}

\* A row was inserted by a request that is no longer idle, and no two have a host.
RowsUnique ==
  /\ \A d \in db : pc[d] # "idle"
  /\ HostsAreUnique

\* The clock moves only when a request takes a temp name.
Stamped == {r \in Requests : stamp[r] # 0}
ClockBounded ==
  /\ now <= Cardinality(Stamped)
  /\ \A r \in Requests : stamp[r] <= now
  /\ \A r \in Requests : /\ pc[r] \in Early => stamp[r] = 0
                         /\ pc[r] \in Late => stamp[r] # 0

\* A file behind a temp name, or open under it, was made by a request of that name.
NamesKept ==
  /\ \A t \in Stamps : temp[t] # NoFile => t # 0 /\ stamp[temp[t]] = t
  /\ \A r \in Requests :
       pc[r] = "write" => handle[r] \in Requests /\ stamp[handle[r]] = stamp[r]

\* Without shared names a file is Partial while its own request writes it, and
\* becomes routes.yml only after that.
FilesWhole ==
  ~TempShared =>
    \A r \in Requests :
      /\ pc[r] = "write" => file[r] = Partial
      /\ pc[r] = "rename" => file[r] # Partial
      /\ routes = r => file[r] # Partial /\ pc[r] \in {"done", "dead"}

\* The types the other parts do not need.
Values ==
  /\ host \in [Requests -> Hosts \cup {NoHost}]
  /\ \A r \in Requests : pc[r] \in {"find", "insert"} => host[r] \in Hosts
  /\ \A d \in db : host[d] \in Hosts
  /\ victim \in [Requests -> Requests \cup {NoFile}]
  /\ file \in [Requests -> (SUBSET Requests) \cup {Partial}]
  /\ response \in [Requests -> {"none", "ok", "rejected", "error"}]
  /\ faults \in 0 .. MaxFaults /\ crashes \in 0 .. MaxCrashes
Flags == inverted \in BOOLEAN

\* The table changes at most once for each request that is past its write.
Before == {"idle", "find", "insert", "lookup", "delete"}
Past == {r \in Requests : pc[r] \notin Before}
VersionBounded == version \in Nat /\ version <= Cardinality(Past)

\* A listing is of the table as it was at its version.
ListingsDated ==
  /\ version = 0 => db = {}
  /\ seen \in [Requests -> Nat] /\ published \in Nat /\ published <= version
  /\ routes = NoFile => published = 0
  /\ \A r \in Requests : /\ seen[r] <= version
                         /\ stamp[r] # 0 /\ seen[r] = version => snapshot[r] = db

\* Without shared names a request renames the file it made, with what it listed.
FilesOwned ==
  ~TempShared =>
    \A r \in Requests :
      /\ pc[r] \in {"write", "rename"} => temp[stamp[r]] = r
      /\ pc[r] = "rename" => file[r] = snapshot[r]
      /\ routes = r => stamp[r] # 0 /\ file[r] = snapshot[r] /\ published = seen[r]

\* While the routes are behind the table somebody will list it again, or has listed
\* its last version and will rename.
Smooth == faults = 0 /\ crashes = 0 /\ ~inverted /\ ~TempShared
UpdateUnderway ==
  Smooth /\ published < version =>
    \E r \in Requests :
      \/ pc[r] = "list"
      \/ pc[r] \in {"open", "write", "rename"} /\ seen[r] = version

\* Behind a temp name is a file that somebody will rename, or remove after a fault.
TempWanted ==
  faults <= 1 /\ crashes = 0 =>
    \A t \in Stamps : temp[t] # NoFile =>
      \E r \in Requests :
        stamp[r] = t /\ (pc[r] \in {"write", "rename"} \/ (pc[r] = "unlink" /\ faults = 1))

IInv ==
  /\ Shape /\ RowsUnique /\ ClockBounded /\ NamesKept /\ FilesWhole
  /\ Values /\ Flags /\ VersionBounded
  /\ ListingsDated /\ FilesOwned /\ UpdateUnderway /\ TempWanted

-----------------------------------------------------------------------------
(* Facts about the clock and the temp names.                               *)

\* Every temp name is one the model has a place for.
LEMMA NamesBounded ==
  ASSUME Shape, ClockBounded, NEW r \in Requests
  PROVE  stamp[r] \in Stamps
<1>1. IsFiniteSet(Requests) /\ Stamped \subseteq Requests
  BY RequestsAssumption DEF Stamped
<1>2. /\ Cardinality(Stamped) \in Nat /\ Cardinality(Requests) \in Nat
      /\ Cardinality(Stamped) <= Cardinality(Requests)
  BY <1>1, FS_Subset, FS_CardinalityType
<1>3. stamp[r] \in Nat /\ stamp[r] <= now /\ now <= Cardinality(Stamped) /\ now \in Nat
  BY DEF Shape, ClockBounded
<1> QED BY <1>2, <1>3 DEF Stamps

\* A listing is none of the half-written contents.
LEMMA ListingIsWhole ==
  ASSUME NEW S \in SUBSET Requests
  PROVE  S # Partial /\ {} # Partial
BY NoFileAssumption DEF Partial

\* Without shared names, a file of the same name is the same file.
LEMMA NameTells ==
  ASSUME Shape, ~TempShared, NEW r \in Requests, NEW s \in Requests,
         stamp[r] = stamp[s], stamp[r] # 0
  PROVE  r = s
BY DEF TempShared

\* No binding, no file.
LEMMA InitIInv == Init => IInv
<1> SUFFICES ASSUME Init PROVE IInv OBVIOUS
<1>1. Shape
  BY DEF Init, Shape
<1>2. Stamped = {} /\ Cardinality(Stamped) = 0
  BY FS_EmptySet DEF Init, Stamped
<1>3. RowsUnique /\ ClockBounded
  BY <1>2 DEF Init, RowsUnique, HostsAreUnique, ClockBounded, Late
<1>4. NamesKept /\ FilesWhole
  BY NoFileAssumption DEF Init, NamesKept, FilesWhole
<1>5. Values
  BY BoundsAssumption, ListingIsWhole DEF Init, Values
<1>6. Flags
  BY DEF Init, Flags
<1>7. VersionBounded
  <2>1. Past = {}
    BY DEF Init, Past, Before
  <2> QED BY <2>1, FS_EmptySet DEF Init, VersionBounded
<1>8. ListingsDated
  BY DEF Init, ListingsDated
<1>9. FilesOwned /\ UpdateUnderway /\ TempWanted
  BY NoFileAssumption DEF Init, FilesOwned, UpdateUnderway, TempWanted
<1> QED BY <1>1, <1>3, <1>4, <1>5, <1>6, <1>7, <1>8, <1>9 DEF IInv

-----------------------------------------------------------------------------
(* The rows.                                                               *)

\* A row enters the table past the unique index only.
LEMMA StepRows == IInv /\ [Next]_vars => RowsUnique'
<1> SUFFICES ASSUME IInv, [Next]_vars PROVE RowsUnique' OBVIOUS
<1> USE DEF IInv, Shape, RowsUnique, HostsAreUnique
<1>1. ASSUME NEW r \in Requests, NEW h \in Hosts, Create(r, h) PROVE RowsUnique'
  BY <1>1 DEF Create, Goto
<1>2. ASSUME NEW r \in Requests, NEW d \in Requests, Delete(r, d) PROVE RowsUnique'
  BY <1>2 DEF Delete, Goto
<1>3. ASSUME NEW r \in Requests, Step(r) PROVE RowsUnique'
  <2>1. CASE FindHost(r) BY <2>1 DEF FindHost, Continue, Answer, Goto, asked
  <2>2. CASE Insert(r)
    <3>1. host' = host /\ db' \subseteq db \cup {r}
      BY <2>2 DEF Insert, asked, SetDb
    <3>2. HostIsTaken(r) => db' = db
      BY <2>2 DEF Insert
    <3>3. \A s \in Requests : pc'[s] = "idle" => pc[s] = "idle" /\ s # r
      BY <2>2 DEF Insert, Continue, Answer, Goto
    <3> QED BY <3>1, <3>2, <3>3 DEF HostIsTaken
  <2>3. CASE Lookup(r) BY <2>3 DEF Lookup, Continue, Answer, Goto, asked
  <2>4. CASE DeleteRow(r) BY <2>4 DEF DeleteRow, SetDb, Continue, Answer, Goto, asked
  <2>5. CASE List(r) BY <2>5 DEF List, Continue, Answer, Goto, asked
  <2>6. CASE Open(r) BY <2>6 DEF Open, Continue, Goto, asked
  <2>7. CASE Write(r) BY <2>7 DEF Write, Continue, Goto, asked
  <2>8. CASE Rename(r) BY <2>8 DEF Rename, Continue, Answer, Goto, asked
  <2>9. CASE Unlink(r) BY <2>9 DEF Unlink, Answer, Goto, asked
  <2> QED BY <1>3, <2>1, <2>2, <2>3, <2>4, <2>5, <2>6, <2>7, <2>8, <2>9 DEF Step
<1>4. CASE Crash BY <1>4 DEF Crash, asked, Active, Syncing
<1>5. CASE UNCHANGED vars BY <1>5 DEF vars
<1> QED BY <1>1, <1>2, <1>3, <1>4, <1>5 DEF Next

\* The functions keep their domains and ranges.
LEMMA StepShape == IInv /\ [Next]_vars => Shape'
<1> SUFFICES ASSUME IInv, [Next]_vars PROVE Shape' OBVIOUS
<1> USE DEF Shape, Active, Syncing, IInv
<1>1. ASSUME NEW r \in Requests, NEW h \in Hosts, Create(r, h) PROVE Shape'
  BY <1>1 DEF Create, Goto, sync, disk
<1>2. ASSUME NEW r \in Requests, NEW d \in Requests, Delete(r, d) PROVE Shape'
  BY <1>2 DEF Delete, Goto, sync, disk
<1>3. ASSUME NEW r \in Requests, Step(r) PROVE Shape'
  <2>1. CASE FindHost(r)
    BY <2>1 DEF FindHost, Continue, Answer, Goto, asked, sync, disk
  <2>2. CASE Insert(r)
    BY <2>2 DEF Insert, SetDb, Continue, Answer, Goto, asked, sync, disk
  <2>3. CASE Lookup(r)
    BY <2>3 DEF Lookup, Continue, Answer, Goto, asked, sync, disk
  <2>4. CASE DeleteRow(r)
    BY <2>4 DEF DeleteRow, SetDb, Continue, Answer, Goto, asked, sync, disk
  <2>5. CASE List(r)
    BY <2>5 DEF List, Continue, Answer, Goto, asked, sync, disk
  <2>6. CASE Open(r)
    <3>1. stamp[r] \in Stamps
      BY NamesBounded DEF IInv, Shape
    <3>2. /\ temp' \in [Stamps -> Requests \cup {NoFile}]
          /\ handle' \in [Requests -> Requests \cup {NoFile}]
          /\ DOMAIN file' = Requests
      BY <2>6, <3>1 DEF Open
    <3> QED BY <2>6, <3>2 DEF Open, Continue, Answer, Goto, asked, sync
  <2>7. CASE Write(r)
    BY <2>7 DEF Write, Continue, Answer, Goto, asked, sync
  <2>8. CASE Rename(r)
    <3>1. stamp[r] \in Stamps
      BY NamesBounded DEF IInv, Shape
    <3>2. temp' \in [Stamps -> Requests \cup {NoFile}] /\ routes' \in Requests \cup {NoFile}
      BY <2>8, <3>1 DEF Rename
    <3> QED BY <2>8, <3>2 DEF Rename, Continue, Answer, Goto, asked, sync
  <2>9. CASE Unlink(r)
    BY <2>9 DEF Unlink, Continue, Answer, Goto, asked, sync
  <2> QED BY <1>3, <2>1, <2>2, <2>3, <2>4, <2>5, <2>6, <2>7, <2>8, <2>9 DEF Step
<1>4. CASE Crash
  BY <1>4 DEF Crash, asked, sync, disk
<1>5. CASE UNCHANGED vars
  BY <1>5 DEF vars
<1> QED BY <1>1, <1>2, <1>3, <1>4, <1>5 DEF Next

\* The clock ticks at most once for each request that lists.
LEMMA StepClock == IInv /\ [Next]_vars => ClockBounded'
<1> SUFFICES ASSUME IInv, [Next]_vars PROVE ClockBounded' OBVIOUS
<1> USE DEF IInv, Shape, ClockBounded, Stamped, Active, Syncing, Early, Late
<1>1. ASSUME NEW r \in Requests, NEW h \in Hosts, Create(r, h) PROVE ClockBounded'
  BY <1>1 DEF Create, Goto, sync
<1>2. ASSUME NEW r \in Requests, NEW d \in Requests, Delete(r, d) PROVE ClockBounded'
  BY <1>2 DEF Delete, Goto, sync
<1>3. ASSUME NEW r \in Requests, Step(r) PROVE ClockBounded'
  <2>1. CASE FindHost(r)
    BY <2>1 DEF FindHost, Continue, Answer, Goto, sync
  <2>2. CASE Insert(r)
    BY <2>2 DEF Insert, Continue, Answer, Goto, sync
  <2>3. CASE Lookup(r)
    BY <2>3 DEF Lookup, Continue, Answer, Goto, sync
  <2>4. CASE DeleteRow(r)
    BY <2>4 DEF DeleteRow, Continue, Answer, Goto, sync
  <2>5. CASE List(r)
    <3>1. CASE UNCHANGED sync
      BY <2>5, <3>1 DEF List, Continue, Answer, Goto, sync
    <3>2. CASE ~UNCHANGED sync
      <4>1. /\ stamp[r] = 0 /\ now' # 0 /\ now' \in {now, now + 1}
            /\ stamp' = [stamp EXCEPT ![r] = now']
            /\ pc' = [pc EXCEPT ![r] = "open"]
        BY <2>5, <3>2 DEF List, Continue, Goto
      <4>2. Stamped' = Stamped \cup {r} /\ r \notin Stamped
        BY <4>1
      <4>3. IsFiniteSet(Stamped)
        BY RequestsAssumption, FS_Subset
      <4>4. Cardinality(Stamped') = Cardinality(Stamped) + 1 /\ Cardinality(Stamped) \in Nat
        BY <4>2, <4>3, FS_AddElement, FS_CardinalityType
      <4>5. now' <= Cardinality(Stamped') /\ now <= now' /\ now' \in Nat
        BY <4>1, <4>4
      <4> HIDE DEF Stamped
      <4> QED BY <4>1, <4>5
    <3> QED BY <3>1, <3>2
  <2>6. CASE Open(r)
    BY <2>6 DEF Open, Continue, Answer, Goto, sync
  <2>7. CASE Write(r)
    BY <2>7 DEF Write, Continue, Answer, Goto, sync
  <2>8. CASE Rename(r)
    BY <2>8 DEF Rename, Continue, Answer, Goto, sync
  <2>9. CASE Unlink(r)
    BY <2>9 DEF Unlink, Continue, Answer, Goto, sync
  <2> QED BY <1>3, <2>1, <2>2, <2>3, <2>4, <2>5, <2>6, <2>7, <2>8, <2>9 DEF Step
<1>4. CASE Crash
  BY <1>4 DEF Crash, sync
<1>5. CASE UNCHANGED vars
  BY <1>5 DEF vars
<1> QED BY <1>1, <1>2, <1>3, <1>4, <1>5 DEF Next

\* A temp name is taken by a request of that name only.
LEMMA StepNames == IInv /\ [Next]_vars => NamesKept'
<1> SUFFICES ASSUME IInv, [Next]_vars PROVE NamesKept' OBVIOUS
<1> USE DEF IInv, Shape, NamesKept, Active, Syncing
<1>1. ASSUME NEW r \in Requests, NEW h \in Hosts, Create(r, h) PROVE NamesKept'
  BY <1>1 DEF Create, Goto, sync, disk
<1>2. ASSUME NEW r \in Requests, NEW d \in Requests, Delete(r, d) PROVE NamesKept'
  BY <1>2 DEF Delete, Goto, sync, disk
<1>3. ASSUME NEW r \in Requests, Step(r) PROVE NamesKept'
  <2>1. CASE FindHost(r)
    BY <2>1 DEF FindHost, Continue, Answer, Goto, sync, disk
  <2>2. CASE Insert(r)
    BY <2>2 DEF Insert, Continue, Answer, Goto, sync, disk
  <2>3. CASE Lookup(r)
    BY <2>3 DEF Lookup, Continue, Answer, Goto, sync, disk
  <2>4. CASE DeleteRow(r)
    BY <2>4 DEF DeleteRow, Continue, Answer, Goto, sync, disk
  <2>5. CASE List(r)
    <3>1. pc[r] = "list" /\ stamp[r] = 0 /\ temp' = temp /\ handle' = handle
      BY <2>5 DEF List, disk, ClockBounded, Early
    <3>2. /\ \A s \in Requests : stamp[s] # 0 => stamp'[s] = stamp[s]
          /\ \A s \in Requests : pc'[s] = "write" => pc[s] = "write"
      BY <2>5, <3>1 DEF List, Continue, Answer, Goto, sync
    <3> QED BY <3>1, <3>2 DEF ClockBounded, Late
  <2>6. CASE Open(r)
    <3>1. stamp[r] \in Stamps /\ stamp[r] # 0 /\ stamp' = stamp
      BY <2>6, NamesBounded DEF Open, ClockBounded, Late, sync
    <3> QED BY <2>6, <3>1 DEF Open, Continue, Goto
  <2>7. CASE Write(r)
    BY <2>7 DEF Write, Continue, Answer, Goto, sync
  <2>8. CASE Rename(r)
    <3>1. stamp[r] \in Stamps
      BY NamesBounded
    <3> QED BY <2>8, <3>1 DEF Rename, Continue, Answer, Goto, sync
  <2>9. CASE Unlink(r)
    BY <2>9 DEF Unlink, Continue, Answer, Goto, sync
  <2> QED BY <1>3, <2>1, <2>2, <2>3, <2>4, <2>5, <2>6, <2>7, <2>8, <2>9 DEF Step
<1>4. CASE Crash
  BY <1>4 DEF Crash, sync, disk
<1>5. CASE UNCHANGED vars
  BY <1>5 DEF vars
<1> QED BY <1>1, <1>2, <1>3, <1>4, <1>5 DEF Next

\* A temp name, once taken, is kept: names that are shared stay shared.
LEMMA StepShared == IInv /\ [Next]_vars => (TempShared => TempShared')
<1> SUFFICES ASSUME IInv, [Next]_vars
             PROVE  \A s \in Requests : stamp[s] # 0 => stamp'[s] = stamp[s]
  BY DEF TempShared
<1>1. ASSUME NEW r \in Requests, List(r)
      PROVE  \A s \in Requests : stamp[s] # 0 => stamp'[s] = stamp[s]
  BY <1>1 DEF List, sync, IInv, Shape, ClockBounded, Early
<1>2. CASE ~\E r \in Requests : List(r)
  <2>1. UNCHANGED stamp
    BY <1>2 DEF Next, Step, Create, Delete, FindHost, Insert, Lookup, DeleteRow, Open, Write,
                Rename, Unlink, Crash, vars, sync
  <2> QED BY <2>1
<1> QED BY <1>1, <1>2

\* Without shared names each request works on a file of its own.
LEMMA StepWhole == IInv /\ [Next]_vars => FilesWhole'
<1> SUFFICES ASSUME IInv, [Next]_vars PROVE FilesWhole' OBVIOUS
<1> USE DEF IInv, Shape, FilesWhole, Active, Syncing
<1> SUFFICES ASSUME ~TempShared' PROVE FilesWhole'
  BY DEF FilesWhole
<1>0. ~TempShared
  BY StepShared
<1>1. ASSUME NEW r \in Requests, NEW h \in Hosts, Create(r, h) PROVE FilesWhole'
  BY <1>0, <1>1 DEF Create, Goto, disk
<1>2. ASSUME NEW r \in Requests, NEW d \in Requests, Delete(r, d) PROVE FilesWhole'
  BY <1>0, <1>2 DEF Delete, Goto, disk
<1>3. ASSUME NEW r \in Requests, Step(r) PROVE FilesWhole'
  <2>1. CASE FindHost(r)
    BY <1>0, <2>1 DEF FindHost, Continue, Answer, Goto, disk
  <2>2. CASE Insert(r)
    BY <1>0, <2>2 DEF Insert, Continue, Answer, Goto, disk
  <2>3. CASE Lookup(r)
    BY <1>0, <2>3 DEF Lookup, Continue, Answer, Goto, disk
  <2>4. CASE DeleteRow(r)
    BY <1>0, <2>4 DEF DeleteRow, Continue, Answer, Goto, disk
  <2>5. CASE List(r)
    BY <1>0, <2>5 DEF List, Continue, Answer, Goto, disk
  <2>6. CASE Open(r)
    <3>1. stamp[r] \in Stamps /\ stamp[r] # 0
      BY <1>0, <2>6, NamesBounded DEF Open, ClockBounded, Late
    <3>2. temp[stamp[r]] # NoFile => temp[stamp[r]] = r
      BY <1>0, <3>1, NameTells DEF NamesKept
    <3> QED BY <1>0, <2>6, <3>2 DEF Open, Continue, Goto
  <2>7. CASE Write(r)
    <3>1. handle[r] = r /\ file[r] = Partial
      BY <1>0, <2>7, NameTells DEF Write, NamesKept, ClockBounded, Late
    <3>2. snapshot[r] # Partial
      BY ListingIsWhole
    <3> QED BY <1>0, <2>7, <3>1, <3>2 DEF Write, Continue, Goto
  <2>8. CASE Rename(r)
    <3>1. stamp[r] \in Stamps /\ stamp[r] # 0
      BY <1>0, <2>8, NamesBounded DEF Rename, ClockBounded, Late
    <3>2. temp[stamp[r]] # NoFile => temp[stamp[r]] = r
      BY <1>0, <3>1, NameTells DEF NamesKept
    <3> QED BY <1>0, <2>8, <3>2, NoFileAssumption DEF Rename, Continue, Answer, Goto
  <2>9. CASE Unlink(r)
    BY <1>0, <2>9 DEF Unlink, Continue, Answer, Goto
  <2> QED BY <1>3, <2>1, <2>2, <2>3, <2>4, <2>5, <2>6, <2>7, <2>8, <2>9 DEF Step
<1>4. CASE Crash
  BY <1>0, <1>4 DEF Crash, disk
<1>5. CASE UNCHANGED vars
  BY <1>0, <1>5 DEF vars
<1> QED BY <1>1, <1>2, <1>3, <1>4, <1>5 DEF Next

-----------------------------------------------------------------------------
(* The types.                                                              *)

\* A row has the host its request asked for.
LEMMA StepValues == IInv /\ [Next]_vars => Values'
<1> SUFFICES ASSUME IInv, [Next]_vars PROVE Values' OBVIOUS
<1> USE BoundsAssumption DEF IInv, Shape, Values, RowsUnique, NamesKept, Active, Syncing
<1>1. ASSUME NEW r \in Requests, NEW h \in Hosts, Create(r, h) PROVE Values'
  BY <1>1 DEF Create, Goto, sync, disk
<1>2. ASSUME NEW r \in Requests, NEW d \in Requests, Delete(r, d) PROVE Values'
  BY <1>2 DEF Delete, Goto, sync, disk
<1>3. ASSUME NEW r \in Requests, Step(r) PROVE Values'
  <2>1. CASE FindHost(r)
    BY <2>1 DEF FindHost, Continue, Answer, Goto, asked, sync, disk
  <2>2. CASE Insert(r)
    BY <2>2 DEF Insert, SetDb, Continue, Answer, Goto, Fault, NoFault, asked, sync, disk
  <2>3. CASE Lookup(r)
    BY <2>3 DEF Lookup, Continue, Answer, Goto, asked, sync, disk
  <2>4. CASE DeleteRow(r)
    BY <2>4 DEF DeleteRow, SetDb, Continue, Answer, Goto, Fault, NoFault, asked, sync, disk
  <2>5. CASE List(r)
    BY <2>5 DEF List, Continue, Answer, Goto, Fault, NoFault, asked, sync, disk
  <2>6. CASE Open(r)
    <3>1. stamp[r] \in Stamps
      BY NamesBounded
    <3>2. temp[stamp[r]] \in Requests \cup {NoFile}
      BY <3>1
    <3>3. \A f \in Requests :
            [file EXCEPT ![f] = Partial] \in [Requests -> (SUBSET Requests) \cup {Partial}]
      OBVIOUS
    <3>4. file' = file \/ \E f \in Requests : file' = [file EXCEPT ![f] = Partial]
      BY <2>6, <3>2 DEF Open
    <3>5. file' \in [Requests -> (SUBSET Requests) \cup {Partial}]
      BY <3>3, <3>4
    <3> QED BY <2>6, <3>5 DEF Open, Continue, Goto, Fault, NoFault, asked, sync
  <2>7. CASE Write(r)
    <3>1. handle[r] \in Requests /\ snapshot[r] \in SUBSET Requests
      BY <2>7 DEF Write
    <3>2. /\ [file EXCEPT ![handle[r]] = Partial]
             \in [Requests -> (SUBSET Requests) \cup {Partial}]
          /\ [file EXCEPT ![handle[r]] = snapshot[r]]
               \in [Requests -> (SUBSET Requests) \cup {Partial}]
      BY <3>1
    <3>3. \/ file' = file
          \/ file' = [file EXCEPT ![handle[r]] = Partial]
          \/ file' = [file EXCEPT ![handle[r]] = snapshot[r]]
      BY <2>7 DEF Write
    <3>4. file' \in [Requests -> (SUBSET Requests) \cup {Partial}]
      BY <3>2, <3>3
    <3> QED BY <2>7, <3>4 DEF Write, Continue, Goto, Fault, NoFault, asked, sync
  <2>8. CASE Rename(r)
    BY <2>8 DEF Rename, Continue, Answer, Goto, Fault, NoFault, asked, sync
  <2>9. CASE Unlink(r)
    BY <2>9 DEF Unlink, Answer, Goto, Fault, NoFault, asked, sync
  <2> QED BY <1>3, <2>1, <2>2, <2>3, <2>4, <2>5, <2>6, <2>7, <2>8, <2>9 DEF Step
<1>4. CASE Crash
  BY <1>4 DEF Crash, asked, sync, disk
<1>5. CASE UNCHANGED vars
  BY <1>5 DEF vars
<1> QED BY <1>1, <1>2, <1>3, <1>4, <1>5 DEF Next

\* The history variable is a truth value.
LEMMA StepFlags == Flags /\ [Next]_vars => Flags'
BY DEF Flags, Next, vars, Create, Delete, Step, FindHost, Insert, Lookup, DeleteRow,
     List, Open, Write, Rename, Unlink, Crash, disk

\* A request that is past its write stays past it.
LEMMA PastGrows == IInv /\ [Next]_vars => (Past \subseteq Past')
<1> SUFFICES ASSUME IInv, [Next]_vars PROVE (Past \subseteq Past') OBVIOUS
<1> USE DEF IInv, Shape, Past, Before, Active, Syncing
<1>1. ASSUME NEW r \in Requests, NEW h \in Hosts, Create(r, h) PROVE (Past \subseteq Past')
  BY <1>1 DEF Create, Goto, sync, disk
<1>2. ASSUME NEW r \in Requests, NEW d \in Requests, Delete(r, d) PROVE (Past \subseteq Past')
  BY <1>2 DEF Delete, Goto, sync, disk
<1>3. ASSUME NEW r \in Requests, Step(r) PROVE (Past \subseteq Past')
  <2>1. CASE FindHost(r)
    BY <2>1 DEF FindHost, Continue, Answer, Goto, asked, sync, disk
  <2>2. CASE Insert(r)
    BY <2>2 DEF Insert, SetDb, Continue, Answer, Goto, Fault, NoFault, asked, sync, disk
  <2>3. CASE Lookup(r)
    BY <2>3 DEF Lookup, Continue, Answer, Goto, asked, sync, disk
  <2>4. CASE DeleteRow(r)
    BY <2>4 DEF DeleteRow, SetDb, Continue, Answer, Goto, Fault, NoFault, asked, sync, disk
  <2>5. CASE List(r)
    BY <2>5 DEF List, Continue, Answer, Goto, Fault, NoFault, asked, sync, disk
  <2>6. CASE Open(r)
    BY <2>6 DEF Open, Continue, Goto, Fault, NoFault, asked, sync
  <2>7. CASE Write(r)
    BY <2>7 DEF Write, Continue, Goto, Fault, NoFault, asked, sync
  <2>8. CASE Rename(r)
    BY <2>8 DEF Rename, Continue, Answer, Goto, Fault, NoFault, asked, sync
  <2>9. CASE Unlink(r)
    BY <2>9 DEF Unlink, Answer, Goto, Fault, NoFault, asked, sync
  <2> QED BY <1>3, <2>1, <2>2, <2>3, <2>4, <2>5, <2>6, <2>7, <2>8, <2>9 DEF Step
<1>4. CASE Crash
  BY <1>4 DEF Crash, asked, sync, disk
<1>5. CASE UNCHANGED vars
  BY <1>5 DEF vars
<1> QED BY <1>1, <1>2, <1>3, <1>4, <1>5 DEF Next

\* No more requests write than there are, and each changes the table at most once.
LEMMA StepVersion == IInv /\ [Next]_vars => VersionBounded'
<1> SUFFICES ASSUME IInv, [Next]_vars PROVE VersionBounded' OBVIOUS
<1>1. Past \subseteq Past' /\ IsFiniteSet(Past')
  <2>1. Past \subseteq Past'
    BY PastGrows
  <2> QED BY <2>1, RequestsAssumption, FS_Subset DEF Past
<1>2. /\ Cardinality(Past) \in Nat /\ Cardinality(Past') \in Nat
      /\ Cardinality(Past) <= Cardinality(Past')
  BY <1>1, FS_Subset, FS_CardinalityType
<1>3. CASE version' = version
  BY <1>2, <1>3 DEF IInv, VersionBounded
<1>4. CASE version' # version
  <2>1. PICK r \in Requests : Insert(r) \/ DeleteRow(r)
    BY <1>4 DEF Next, Create, Delete, Step, FindHost, Insert, Lookup, DeleteRow, List, Open,
                Write, Rename, Unlink, Crash, vars
  <2>2. version' = version + 1
    BY <1>4, <2>1 DEF Insert, DeleteRow, SetDb
  <2>3. r \notin Past /\ r \in Past'
    BY <2>1 DEF Insert, DeleteRow, Continue, Answer, Goto, IInv, Shape, Past, Before
  <2>4. IsFiniteSet(Past) /\ Past \cup {r} \subseteq Past'
    BY <1>1, <2>3, FS_Subset
  <2>5. Cardinality(Past \cup {r}) = Cardinality(Past) + 1
    BY <2>3, <2>4, FS_AddElement
  <2>6. Cardinality(Past \cup {r}) <= Cardinality(Past')
    BY <1>1, <2>4, FS_Subset
  <2> QED BY <1>2, <2>2, <2>5, <2>6 DEF IInv, VersionBounded
<1> QED BY <1>3, <1>4

-----------------------------------------------------------------------------
(* The routes and the table.                                               *)

\* A change of the table makes every listing before it one of an older version.
LEMMA StepListings == IInv /\ [Next]_vars => ListingsDated'
<1> SUFFICES ASSUME IInv, [Next]_vars PROVE ListingsDated' OBVIOUS
<1> USE DEF IInv, Shape, ClockBounded, VersionBounded, NamesKept, ListingsDated, Active,
            Syncing, Early, Late
<1>1. ASSUME NEW r \in Requests, NEW h \in Hosts, Create(r, h) PROVE ListingsDated'
  BY <1>1 DEF Create, Goto, sync, disk
<1>2. ASSUME NEW r \in Requests, NEW d \in Requests, Delete(r, d) PROVE ListingsDated'
  BY <1>2 DEF Delete, Goto, sync, disk
<1>3. ASSUME NEW r \in Requests, Step(r) PROVE ListingsDated'
  <2>1. CASE FindHost(r)
    BY <2>1 DEF FindHost, Continue, Answer, Goto, asked, sync, disk
  <2>2. CASE Insert(r)
    <3>1. \/ UNCHANGED <<db, version>>
          \/ db' # db /\ version' = version + 1
      BY <2>2 DEF Insert, SetDb
    <3>2. UNCHANGED <<snapshot, seen, stamp, routes, published>>
      BY <2>2 DEF Insert, sync, disk
    <3> QED BY <3>1, <3>2
  <2>3. CASE Lookup(r)
    BY <2>3 DEF Lookup, Continue, Answer, Goto, asked, sync, disk
  <2>4. CASE DeleteRow(r)
    <3>1. \/ UNCHANGED <<db, version>>
          \/ db' # db /\ version' = version + 1
      BY <2>4 DEF DeleteRow, SetDb
    <3>2. UNCHANGED <<snapshot, seen, stamp, routes, published>>
      BY <2>4 DEF DeleteRow, sync, disk
    <3> QED BY <3>1, <3>2
  <2>5. CASE List(r)
    BY <2>5 DEF List, Continue, Answer, Goto, Fault, NoFault, asked, sync, disk
  <2>6. CASE Open(r)
    BY <2>6 DEF Open, Continue, Goto, Fault, NoFault, asked, sync
  <2>7. CASE Write(r)
    BY <2>7 DEF Write, Continue, Goto, Fault, NoFault, asked, sync
  <2>8. CASE Rename(r)
    BY <2>8 DEF Rename, Continue, Answer, Goto, Fault, NoFault, asked, sync
  <2>9. CASE Unlink(r)
    BY <2>9 DEF Unlink, Answer, Goto, Fault, NoFault, asked, sync
  <2> QED BY <1>3, <2>1, <2>2, <2>3, <2>4, <2>5, <2>6, <2>7, <2>8, <2>9 DEF Step
<1>4. CASE Crash
  BY <1>4 DEF Crash, asked, sync, disk
<1>5. CASE UNCHANGED vars
  BY <1>5 DEF vars
<1> QED BY <1>1, <1>2, <1>3, <1>4, <1>5 DEF Next

\* Nobody else writes, renames or removes the file of a request with a name of its
\* own.
LEMMA StepOwned == IInv /\ [Next]_vars => FilesOwned'
<1> SUFFICES ASSUME IInv, [Next]_vars PROVE FilesOwned' OBVIOUS
<1> USE DEF IInv, Shape, ClockBounded, NamesKept, FilesWhole, FilesOwned, ListingsDated,
            Active, Syncing, Early, Late
<1> SUFFICES ASSUME ~TempShared' PROVE FilesOwned'
  BY DEF FilesOwned
<1>0. ~TempShared
  BY StepShared DEF IInv
<1>1. ASSUME NEW r \in Requests, NEW h \in Hosts, Create(r, h) PROVE FilesOwned'
  BY <1>0, <1>1 DEF Create, Goto, sync, disk
<1>2. ASSUME NEW r \in Requests, NEW d \in Requests, Delete(r, d) PROVE FilesOwned'
  BY <1>0, <1>2 DEF Delete, Goto, sync, disk
<1>3. ASSUME NEW r \in Requests, Step(r) PROVE FilesOwned'
  <2>1. CASE FindHost(r)
    BY <1>0, <2>1 DEF FindHost, Continue, Answer, Goto, asked, sync, disk
  <2>2. CASE Insert(r)
    BY <1>0, <2>2 DEF Insert, SetDb, Continue, Answer, Goto, Fault, NoFault, asked, sync, disk
  <2>3. CASE Lookup(r)
    BY <1>0, <2>3 DEF Lookup, Continue, Answer, Goto, asked, sync, disk
  <2>4. CASE DeleteRow(r)
    BY <1>0, <2>4 DEF DeleteRow, SetDb, Continue, Answer, Goto, Fault, NoFault, asked,
         sync, disk
  <2>5. CASE List(r)
    <3>1. /\ pc[r] = "list" /\ UNCHANGED <<temp, file, routes, published>>
          /\ pc'[r] \in {"open", "done"}
      BY <2>5 DEF List, disk, Continue, Answer, Goto
    <3>2. routes # r
      BY <1>0, <3>1
    <3>3. \A s \in Requests : s # r =>
            /\ stamp'[s] = stamp[s] /\ snapshot'[s] = snapshot[s] /\ seen'[s] = seen[s]
            /\ pc'[s] = pc[s]
      BY <2>5 DEF List, sync, Continue, Answer, Goto
    <3> QED BY <1>0, <3>1, <3>2, <3>3
  <2>6. CASE Open(r)
    <3>1. stamp[r] \in Stamps /\ stamp[r] # 0
      BY <2>6, NamesBounded DEF Open
    <3>2. temp[stamp[r]] # NoFile => temp[stamp[r]] = r
      BY <1>0, <3>1, NameTells
    <3>3. \A s \in Requests : s # r => stamp[s] # stamp[r]
      BY <1>0, <3>1, NameTells
    <3>4. /\ UNCHANGED <<stamp, snapshot, seen, routes, published>> /\ pc[r] = "open"
          /\ \/ pc' = [pc EXCEPT ![r] = "write"] /\ temp' = [temp EXCEPT ![stamp[r]] = r]
                /\ file' = [file EXCEPT ![r] = Partial]
             \/ pc' = [pc EXCEPT ![r] = "unlink"] /\ UNCHANGED <<temp, file>>
      BY <2>6, <3>2 DEF Open, Continue, Goto, sync
    <3>5. \A s \in Requests : pc[s] \in {"write", "rename"} => stamp[s] \in Stamps
      BY NamesBounded
    <3> QED BY <1>0, <3>1, <3>3, <3>4, <3>5
  <2>7. CASE Write(r)
    <3>1. handle[r] = r /\ file[r] = Partial
      BY <1>0, <2>7, NameTells DEF Write
    <3>2. /\ UNCHANGED <<stamp, snapshot, seen, temp, routes, published>> /\ pc[r] = "write"
          /\ \/ pc' = [pc EXCEPT ![r] = "rename"] /\ file' = [file EXCEPT ![r] = snapshot[r]]
             \/ pc' = [pc EXCEPT ![r] = "unlink"] /\ UNCHANGED file
      BY <2>7, <3>1 DEF Write, Continue, Goto, sync
    <3> QED BY <1>0, <3>2
  <2>8. CASE Rename(r)
    <3>1. stamp[r] \in Stamps /\ stamp[r] # 0
      BY <2>8, NamesBounded DEF Rename
    <3>2. temp[stamp[r]] = r /\ file[r] = snapshot[r]
      BY <1>0, <2>8 DEF Rename
    <3>3. \A s \in Requests : s # r => stamp[s] # stamp[r]
      BY <1>0, <3>1, NameTells
    <3>4. /\ UNCHANGED <<stamp, snapshot, seen, file>>
          /\ \/ pc' = [pc EXCEPT ![r] = "done"] /\ temp' = [temp EXCEPT ![stamp[r]] = NoFile]
                /\ routes' = r /\ published' = seen[r]
             \/ pc' = [pc EXCEPT ![r] = "unlink"] /\ UNCHANGED <<temp, routes, published>>
      BY <2>8, <3>2 DEF Rename, Continue, Answer, Goto, sync
    <3>5. \A s \in Requests : pc[s] \in {"write", "rename"} => stamp[s] \in Stamps
      BY NamesBounded
    <3> QED BY <1>0, <3>1, <3>2, <3>3, <3>4, <3>5
  <2>9. CASE Unlink(r)
    <3>1. stamp[r] \in Stamps /\ stamp[r] # 0
      BY <2>9, NamesBounded DEF Unlink
    <3>2. \A s \in Requests : s # r => stamp[s] # stamp[r]
      BY <1>0, <3>1, NameTells
    <3>3. /\ UNCHANGED <<stamp, snapshot, seen, file, routes, published>>
          /\ pc' = [pc EXCEPT ![r] = "done"]
          /\ temp' = temp \/ temp' = [temp EXCEPT ![stamp[r]] = NoFile]
      BY <2>9 DEF Unlink, Answer, Goto, sync
    <3>4. \A s \in Requests : pc[s] \in {"write", "rename"} => stamp[s] \in Stamps
      BY NamesBounded
    <3> QED BY <1>0, <3>1, <3>2, <3>3, <3>4
  <2> QED BY <1>3, <2>1, <2>2, <2>3, <2>4, <2>5, <2>6, <2>7, <2>8, <2>9 DEF Step
<1>4. CASE Crash
  BY <1>0, <1>4 DEF Crash, asked, sync, disk
<1>5. CASE UNCHANGED vars
  BY <1>0, <1>5 DEF vars
<1> QED BY <1>1, <1>2, <1>3, <1>4, <1>5 DEF Next

\* What has gone wrong stays gone wrong.
LEMMA StepSmooth == IInv /\ [Next]_vars => (Smooth' => Smooth)
<1> SUFFICES ASSUME IInv, [Next]_vars, Smooth' PROVE Smooth OBVIOUS
<1>1. faults' = faults \/ faults' = faults + 1
  BY DEF Next, vars, Create, Delete, Step, FindHost, Insert, Lookup, DeleteRow, List,
       Open, Write, Rename, Unlink, Crash, Fault, NoFault
<1>2. crashes' = crashes \/ crashes' = crashes + 1
  BY DEF Next, vars, Create, Delete, Step, FindHost, Insert, Lookup, DeleteRow, List,
       Open, Write, Rename, Unlink, Crash
<1>3. ~inverted
  BY Zenon DEF Smooth, Next, vars, Create, Delete, Step, FindHost, Insert, Lookup,
       DeleteRow, List, Open, Write, Rename, Unlink, Crash, disk
<1>4. faults = 0 /\ crashes = 0
  BY <1>1, <1>2, BoundsAssumption DEF Smooth, IInv, Values
<1> QED BY <1>3, <1>4, StepShared DEF Smooth

\* Who changes the table lists it next; a listing that is renamed last is the last.
LEMMA StepUnderway == IInv /\ [Next]_vars => UpdateUnderway'
<1> SUFFICES ASSUME IInv, [Next]_vars PROVE UpdateUnderway' OBVIOUS
<1> USE DEF IInv, Shape, ClockBounded, NamesKept, FilesOwned, VersionBounded,
            ListingsDated, UpdateUnderway, Smooth, Values, Active, Syncing, Early, Late
<1> SUFFICES ASSUME Smooth' PROVE UpdateUnderway'
  BY DEF UpdateUnderway
<1>0. Smooth
  BY StepSmooth
<1>6. published < version =>
        \E r \in Requests : \/ pc[r] = "list"
                            \/ pc[r] \in {"open", "write", "rename"} /\ seen[r] = version
  BY <1>0, Zenon
<1>1. ASSUME NEW r \in Requests, NEW h \in Hosts, Create(r, h) PROVE UpdateUnderway'
  BY <1>0, <1>1 DEF Create, Goto, sync, disk
<1>2. ASSUME NEW r \in Requests, NEW d \in Requests, Delete(r, d) PROVE UpdateUnderway'
  BY <1>0, <1>2 DEF Delete, Goto, sync, disk
<1>3. ASSUME NEW r \in Requests, Step(r) PROVE UpdateUnderway'
  <2>1. CASE FindHost(r)
    BY <1>0, <2>1 DEF FindHost, Continue, Answer, Goto, asked, sync, disk
  <2>2. CASE Insert(r)
    BY <1>0, <2>2 DEF Insert, SetDb, Continue, Answer, Goto, Fault, NoFault, asked, sync, disk
  <2>3. CASE Lookup(r)
    BY <1>0, <2>3 DEF Lookup, Continue, Answer, Goto, asked, sync, disk
  <2>4. CASE DeleteRow(r)
    BY <1>0, <2>4 DEF DeleteRow, SetDb, Continue, Answer, Goto, Fault, NoFault, asked,
         sync, disk
  <2>5. CASE List(r)
    BY <1>0, <2>5 DEF List, Continue, Answer, Goto, Fault, NoFault, asked, sync, disk
  <2>6. CASE Open(r)
    BY <1>0, <2>6 DEF Open, Continue, Goto, Fault, NoFault, asked, sync
  <2>7. CASE Write(r)
    BY <1>0, <2>7 DEF Write, Continue, Goto, Fault, NoFault, asked, sync
  <2>8. CASE Rename(r)
    <3>1. stamp[r] \in Stamps /\ temp[stamp[r]] # NoFile
      BY <1>0, <2>8, NamesBounded, NoFileAssumption DEF Rename
    <3>2. /\ published' = seen[r] /\ pc' = [pc EXCEPT ![r] = "done"] /\ published <= seen[r]
          /\ UNCHANGED <<seen, version>>
      <4>1. faults' = faults
        BY <1>0
      <4>2. temp[stamp[r]] # NoFile /\ inverted' = (inverted \/ published > seen[r])
        BY <1>0, <2>8, <3>1, <4>1 DEF Rename, Fault
      <4>3. ~(published > seen[r])
        BY <4>2
      <4>4. published' = seen[r] /\ Answer(r, "ok")
        BY <2>8, <3>1, <4>1 DEF Rename, Fault
      <4>5. UNCHANGED <<seen, version>>
        BY <2>8 DEF Rename, sync
      <4>6. published <= seen[r]
        BY <4>3
      <4> QED BY <4>4, <4>5, <4>6 DEF Answer, Goto
    <3>3. SUFFICES ASSUME published' < version'
                   PROVE  \E s \in Requests :
                            \/ pc'[s] = "list"
                            \/ pc'[s] \in {"open", "write", "rename"} /\ seen'[s] = version'
      OBVIOUS
    <3>4. published < version /\ seen[r] # version
      BY <3>2, <3>3
    <3>5. PICK s \in Requests : \/ pc[s] = "list"
                                \/ pc[s] \in {"open", "write", "rename"} /\ seen[s] = version
      BY <1>6, <3>4
    <3>6. s # r
      BY <2>8, <3>4, <3>5 DEF Rename
    <3> QED BY <3>2, <3>5, <3>6
  <2>9. CASE Unlink(r)
    BY <1>0, <2>9 DEF Unlink, Answer, Goto, Fault, NoFault, asked, sync
  <2> QED BY <1>3, <2>1, <2>2, <2>3, <2>4, <2>5, <2>6, <2>7, <2>8, <2>9 DEF Step
<1>4. CASE Crash
  BY <1>0, <1>4 DEF Crash, asked, sync, disk
<1>5. CASE UNCHANGED vars
  BY <1>0, <1>5 DEF vars
<1> QED BY <1>1, <1>2, <1>3, <1>4, <1>5 DEF Next

\* A request that gives up removes its temp file, unless a second call fails.
LEMMA StepWanted == IInv /\ [Next]_vars => TempWanted'
<1> SUFFICES ASSUME IInv, [Next]_vars PROVE TempWanted' OBVIOUS
<1> USE DEF IInv, Shape, ClockBounded, NamesKept, Values, TempWanted, Active, Syncing,
            Early, Late
<1>1. ASSUME NEW r \in Requests, NEW h \in Hosts, Create(r, h) PROVE TempWanted'
  BY <1>1 DEF Create, Goto, sync, disk
<1>2. ASSUME NEW r \in Requests, NEW d \in Requests, Delete(r, d) PROVE TempWanted'
  BY <1>2 DEF Delete, Goto, sync, disk
<1>3. ASSUME NEW r \in Requests, Step(r) PROVE TempWanted'
  <2>1. CASE FindHost(r)
    BY <2>1 DEF FindHost, Continue, Answer, Goto, asked, sync, disk
  <2>2. CASE Insert(r)
    BY <2>2 DEF Insert, SetDb, Continue, Answer, Goto, Fault, NoFault, asked, sync, disk
  <2>3. CASE Lookup(r)
    BY <2>3 DEF Lookup, Continue, Answer, Goto, asked, sync, disk
  <2>4. CASE DeleteRow(r)
    BY <2>4 DEF DeleteRow, SetDb, Continue, Answer, Goto, Fault, NoFault, asked, sync, disk
  <2>5. CASE List(r)
    BY <2>5 DEF List, Continue, Answer, Goto, Fault, NoFault, asked, sync, disk
  <2>6. CASE Open(r)
    BY <2>6 DEF Open, Continue, Goto, Fault, NoFault, asked, sync
  <2>7. CASE Write(r)
    BY <2>7 DEF Write, Continue, Goto, Fault, NoFault, asked, sync
  <2>8. CASE Rename(r)
    BY <2>8 DEF Rename, Continue, Answer, Goto, Fault, NoFault, asked, sync
  <2>9. CASE Unlink(r)
    BY <2>9 DEF Unlink, Answer, Goto, Fault, NoFault, asked, sync
  <2> QED BY <1>3, <2>1, <2>2, <2>3, <2>4, <2>5, <2>6, <2>7, <2>8, <2>9 DEF Step
<1>4. CASE Crash
  BY <1>4 DEF Crash, asked, sync, disk
<1>5. CASE UNCHANGED vars
  BY <1>5 DEF vars
<1> QED BY <1>1, <1>2, <1>3, <1>4, <1>5 DEF Next

-----------------------------------------------------------------------------
(* The theorems.                                                           *)

\* All parts hold together.
THEOREM Inductive == Spec => []IInv
<1>1. IInv /\ [Next]_vars => IInv'
  BY StepShape, StepRows, StepClock, StepNames, StepWhole, StepValues, StepFlags, StepVersion,
     StepListings, StepOwned, StepUnderway, StepWanted DEF IInv
<1> QED BY <1>1, InitIInv, PTL DEF Spec

\* No two bindings have the same host: the unique index keeps out whoever found
\* the host free too early.
THEOREM HostsAlwaysUnique == Spec => []HostsAreUnique
<1>1. IInv => HostsAreUnique
  BY DEF IInv, RowsUnique
<1> QED BY <1>1, Inductive, PTL

\* Traefik never reads a routes.yml that is half written, whatever overlaps, fails
\* or is cut off by a restart, unless two requests share a temp name.
THEOREM RoutesAlwaysWhole == Spec => []RoutesAreWhole
<1>1. IInv => RoutesAreWhole
  BY ListingIsWhole DEF IInv, Shape, FilesWhole, RoutesAreWhole, Listed
<1> QED BY <1>1, Inductive, PTL

\* Every value stays in bounds; in particular a row has a host, a request opens no
\* file of a name the model has no place for, and a file holds a listing or is marked
\* as none.
THEOREM TypesOK == Spec => []TypeOK
<1>1. IInv => TypeOK
  <2> SUFFICES ASSUME IInv PROVE TypeOK OBVIOUS
  <2>1. \A r \in Requests : stamp[r] \in Stamps
    BY NamesBounded DEF IInv
  <2>2. /\ IsFiniteSet(Stamped) /\ IsFiniteSet(Past)
        /\ Stamped \subseteq Requests /\ Past \subseteq Requests
    BY RequestsAssumption, FS_Subset DEF Stamped, Past
  <2>3. /\ Cardinality(Requests) \in Nat /\ Cardinality(Stamped) \in Nat
        /\ Cardinality(Past) \in Nat /\ Cardinality(Past) <= Cardinality(Requests)
        /\ Cardinality(Stamped) <= Cardinality(Requests)
    BY <2>2, RequestsAssumption, FS_Subset, FS_CardinalityType
  <2>4. now \in Stamps /\ version \in Stamps
    BY <2>3 DEF IInv, Shape, ClockBounded, VersionBounded, Stamps
  <2>5. published \in Stamps /\ seen \in [Requests -> Stamps]
    BY <2>3 DEF IInv, VersionBounded, ListingsDated, Stamps
  <2>6. stamp \in [Requests -> Stamps]
    BY <2>1 DEF IInv, Shape
  <2>7. db \in SUBSET {d \in Requests : host[d] \in Hosts}
    BY DEF IInv, Shape, Values
  <2> QED BY <2>4, <2>5, <2>6, <2>7 DEF IInv, Shape, Values, Flags, TypeOK
<1> QED BY <1>1, Inductive, PTL

\* When all requests have been answered and nothing failed, each row of the table is
\* routed and nothing else is, unless two requests shared a temp name, one that
\* listed earlier renamed later, or two hosts differ only in their dots and dashes:
\* no other order of overlapping requests loses an update.
THEOREM RoutesAlwaysFollowTable == Spec => []RoutesFollowTable
<1>1. IInv => RoutesFollowTable
  <2> SUFFICES ASSUME IInv, Quiet, faults = 0, ~inverted, ~TempShared, ~HostsAlike
               PROVE  Routed = db
    BY DEF RoutesFollowTable
  <2>1. Smooth
    BY DEF Smooth, Quiet
  <2>2. ~(published < version)
    BY <2>1 DEF IInv, UpdateUnderway, Quiet, Active, Syncing
  <2>3. published = version
    BY <2>2 DEF IInv, ListingsDated, VersionBounded
  <2>4. Listed = db
    <3>1. CASE routes = NoFile
      BY <2>3, <3>1 DEF IInv, ListingsDated, Listed
    <3>2. CASE routes # NoFile
      <4>1. routes \in Requests
        BY <3>2 DEF IInv, Shape
      <4>2. /\ stamp[routes] # 0 /\ file[routes] = snapshot[routes]
            /\ published = seen[routes]
        BY <4>1 DEF IInv, FilesOwned
      <4> QED BY <2>3, <3>2, <4>1, <4>2 DEF IInv, ListingsDated, Listed
    <3> QED BY <3>1, <3>2
  <2>5. \A d, e \in db : RouteName(host[e]) = RouteName(host[d]) => e = d
    BY DEF IInv, RowsUnique, HostsAreUnique, HostsAlike, RouteName
  <2> QED BY <2>4, <2>5 DEF Routed
<1> QED BY <1>1, Inductive, PTL

\* Once all is quiet no temp file is left, unless two calls failed: the one of the
\* sync and the one of its cleanup.
THEOREM NeverTempLeft == Spec => []NoTempLeft
<1>1. IInv => NoTempLeft
  BY DEF IInv, TempWanted, NoTempLeft, Quiet, Active, Syncing
<1> QED BY <1>1, Inductive, PTL
=============================================================================
