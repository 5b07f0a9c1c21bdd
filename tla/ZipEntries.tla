----------------------------- MODULE ZipEntries -----------------------------
(***************************************************************************)
(* extractZipArchive (apps/api/src/source/service.ts): the entries of an   *)
(* archive, one after the other, and the rules for their kinds, sizes and  *)
(* paths.  A path is the sequence of what is between its slashes.          *)
(***************************************************************************)
EXTENDS Naturals, Sequences, SequencesExt, FiniteSetsExt

CONSTANTS
  MaxSegments,        \* bound: segments of a path
  MaxEntries,         \* bound: entries of an archive
  maxExtractedBytes
ASSUME ZipAssumption ==
  MaxSegments \in Nat /\ MaxEntries \in Nat /\ maxExtractedBytes \in Nat

VARIABLE zip
zipVars == <<zip>>

\* Between two slashes, before the first and after the last.
Empty == ""

\* Among them a drive, a name with a backslash, and the root itself.
Paths ==
  (UNION { [1 .. n -> {"a", "..", Empty}] : n \in 1 .. MaxSegments })
    \cup {<<"c:", "a">>, <<"a\\">>, <<".">>, <<".", Empty>>, <<"a", ".", "b">>}
Types == {"file", "directory", "link"}
Entries == [path : Paths, type : Types, size : 1 .. 2]

EndsWithSlash(path) == Len(path) > 1 /\ Last(path) = Empty

GetZipEntryKind(entry) ==
  IF EndsWithSlash(entry.path) THEN "directory"
  ELSE IF entry.type = "link" THEN "blocked" ELSE entry.type

\* posix.normalize of a relative path, without its last slash, one segment after the
\* other.
Follow(names, s) ==
  IF s \in {Empty, "."} THEN names
  ELSE IF s = ".." /\ names # <<>> /\ Last(names) # ".." THEN Front(names)
  ELSE Append(names, s)
Normalize(path) == FoldLeft(Follow, <<>>, path)

\* normalizeZipEntryPath: "" and "a\b", "/a" and "c:a", "." and "../a"; "./" is
\* the root itself.
Unsafe(path) ==
  LET names == Normalize(path)
  IN \/ path = <<Empty>> \/ "a\\" \in ToSet(path)
     \/ path[1] \in {Empty, "c:"}
     \/ names = <<>> /\ ~EndsWithSlash(path)
     \/ names # <<>> /\ names[1] = ".."

\* The entries are read once; their sizes count whether they are written or not.
ZipInit ==
  \E n \in 0 .. MaxEntries : \E entries \in [1 .. n -> Entries] :
    zip = [entries |-> entries, next |-> 1, bytes |-> 0, files |-> {}, dirs |-> {<<>>},
           outcome |-> "reading"]

Parents(names) == { SubSeq(names, 1, n) : n \in 0 .. Len(names) }
Parent(names) == SubSeq(names, 1, Len(names) - 1)
Written == { f.names : f \in zip.files }

\* mkdir with recursive: a file is in the way of the directories under it.
CanMake(names) == Parents(names) \cap Written = {}

\* Mutant: a file that is there is overwritten.
CanWriteOver(names) == CanMake(Parent(names)) /\ names \notin zip.dirs

\* createWriteStream with "wx"
CanWrite(names) ==
  CanMake(Parent(names)) /\ names \notin zip.dirs /\ names \notin Written

FinishWithError == zip' = [zip EXCEPT !.outcome = "error"]

Entry ==
  /\ zip.outcome = "reading" /\ zip.next <= Len(zip.entries)
  /\ LET entry == zip.entries[zip.next]
         kind == GetZipEntryKind(entry)
         bytes == zip.bytes + entry.size
         names == Normalize(entry.path)
         read == [zip EXCEPT !.next = @ + 1, !.bytes = bytes]
         made(dir) == [read EXCEPT !.dirs = @ \cup Parents(dir)]
     IN IF kind = "blocked" \/ bytes > maxExtractedBytes \/ Unsafe(entry.path)
        THEN FinishWithError
        ELSE IF kind = "directory"
        THEN IF CanMake(names) THEN zip' = made(names) ELSE FinishWithError
        ELSE IF CanWrite(names)
        THEN zip' = [made(Parent(names)) EXCEPT
                       !.files = { f \in @ : f.names # names }
                                   \cup {[names |-> names, entry |-> zip.next]}]
        ELSE FinishWithError

\* 'end'
End ==
  /\ zip.outcome = "reading" /\ zip.next > Len(zip.entries)
  /\ zip' = [zip EXCEPT !.outcome = "extracted"]

ZipNext == Entry \/ End

\* Steps down and up of a walk along the path; it climbs when it leaves where it
\* started.
Downs(path, n) == Quantify(1 .. n, LAMBDA i : path[i] \notin {Empty, ".", ".."})
Ups(path, n) == Quantify(1 .. n, LAMBDA i : path[i] = "..")
Climbs(path) == \E n \in DOMAIN path : Ups(path, n) > Downs(path, n)

\* What makes a directory is one whatever else it says it is: a link whose name ends
\* with a slash is followed, as a directory of that name.
MakesDirectory(entry) == EndsWithSlash(entry.path) \/ entry.type = "directory"

\* No entry that is followed climbs out of the staged directory, and a link that is
\* followed makes a directory; a file is written of a regular file only, where its
\* path leads, never for the directory itself, and not more than the limit; an
\* archive that was extracted has each of its files in place, no one over another.
EntriesStayInside ==
  /\ \A i \in 1 .. zip.next - 1 :
       LET entry == zip.entries[i]
       IN /\ ~Climbs(entry.path) /\ entry.path[1] # Empty
          /\ entry.type = "link" => MakesDirectory(entry)
  /\ \A f \in zip.files :
       LET entry == zip.entries[f.entry]
           path == entry.path
       IN /\ entry.type = "file" /\ ~MakesDirectory(entry)
          /\ Len(f.names) + Ups(path, Len(path)) = Downs(path, Len(path))
  /\ <<>> \notin Written /\ Written \cap zip.dirs = {}
  /\ zip.bytes <= maxExtractedBytes
  /\ zip.outcome = "extracted" =>
       \A i \in DOMAIN zip.entries :
         MakesDirectory(zip.entries[i]) \/ \E f \in zip.files : f.entry = i
=============================================================================
