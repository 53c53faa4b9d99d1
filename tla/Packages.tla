------------------------------ MODULE Packages ------------------------------
(***************************************************************************)
(* Files a project publishes: a row with a digest, and a file on disk      *)
(* under the row's id.  An upload finds or inserts the row, writes to a    *)
(* staging file next to the place, moves it there and commits the row.     *)
(* The insert is flushed, not committed, until the end, and the staging    *)
(* file of one row has one name however many uploads there are.            *)
(*                                                                         *)
(* A file is what an inode holds, two chunks of it; a handle that is open  *)
(* keeps writing into its inode wherever it was moved.  The id of a new    *)
(* row, and a new inode, are named after the upload that makes them; two   *)
(* uploads may bring the same contents.                                    *)
(***************************************************************************)
EXTENDS Naturals, FiniteSets

CONSTANTS
    Addresses,      \* (name, version, filename) of one project
    Uploads,        \* each is one request
    Contents,       \* what may be uploaded, and what a digest tells apart
    Nothing,
    MaxCuts         \* bound: restarts

VARIABLES
    rows,           \* committed rows: the id and the digest
    reserved,       \* addresses whose insert is flushed: by which upload
    file, part,     \* per id: the inode at its path and at path.part
    inode,          \* what an inode holds: of which contents, chunk by chunk
    upload,         \* where an upload stands
    doomed,         \* ids whose row is gone and whose file is about to be
    crossed,        \* history: ids that two uploads wrote at a time
    torn,           \* history: ids whose file is newer than their row
    unwritten,      \* history: ids whose row was left as it was by an upload that
                    \* brought what the row had told when it looked, and tells no more
    cuts

disk     == <<file, part, inode>>
fileVars == <<rows, reserved, disk, upload, doomed, crossed, torn, unwritten, cuts>>
tally    == <<crossed, torn, unwritten, cuts>>

PackageRows == [Addresses -> [id : Uploads, digest : Contents] \union {Nothing}]
Empty      == <<Nothing, Nothing>>
Stage(u)   == upload[u].at
Step(u, r) == upload' = [upload EXCEPT ![u] = r]
Id(u)      == upload[u].id
Address(u) == upload[u].address
Fails(u)   == Step(u, [at |-> "over"])
Release(u) == reserved' = [a \in Addresses |-> IF reserved[a] = u THEN Nothing ELSE reserved[a]]

Init ==
    /\ rows = [a \in Addresses |-> Nothing] /\ reserved = [a \in Addresses |-> Nothing]
    /\ file = [i \in Uploads |-> Nothing] /\ part = [i \in Uploads |-> Nothing]
    /\ inode = [i \in Uploads |-> Empty]
    /\ upload = [u \in Uploads |-> [at |-> "new"]]
    /\ doomed = {} /\ crossed = {} /\ torn = {} /\ unwritten = {} /\ cuts = 0

\* A row is served when there is a file at its path.
find_package(a) == rows[a] # Nothing /\ file[rows[a].id] # Nothing

\* publish_package: is there a row of that address?  Its session keeps the digest
\* it was loaded with; that of a new row is empty.
FindRow(u, a, c) ==
    /\ Stage(u) = "new"
    /\ Step(u, IF rows[a] = Nothing
               THEN [at |-> "insert", address |-> a, id |-> u, own |-> TRUE, sends |-> c,
                     read |-> Nothing]
               ELSE [at |-> "open", address |-> a, id |-> rows[a].id, own |-> FALSE, sends |-> c,
                     read |-> rows[a].digest])
    /\ UNCHANGED <<rows, reserved, disk, doomed, tally>>

\* uq_packages_address lets an insert wait for the one before it, or fail.
FlushRow(u) ==
    /\ Stage(u) = "insert" /\ reserved[Address(u)] = Nothing
    /\ IF rows[Address(u)] = Nothing
       THEN Step(u, [upload[u] EXCEPT !.at = "open"])
            /\ reserved' = [reserved EXCEPT ![Address(u)] = u]
       ELSE Fails(u) /\ UNCHANGED reserved
    /\ UNCHANGED <<rows, disk, doomed, tally>>

\* The upload has a handle on inode i and begins to write.
Opened(u, i) == Step(u, [at |-> "one", address |-> Address(u), id |-> Id(u), own |-> upload[u].own,
                         sends |-> upload[u].sends, read |-> upload[u].read, handle |-> i])

Others(u) == {v \in Uploads \ {u} : Stage(v) \in {"one", "two", "place", "commit"} /\ Id(v) = Id(u)}

\* Mutant: the bytes go straight to the place they are served from.
OpenInPlace(u) ==
    /\ Stage(u) = "open"
    /\ LET i == IF file[Id(u)] = Nothing THEN u ELSE file[Id(u)]
       IN  /\ part' = [part EXCEPT ![Id(u)] = i] /\ file' = [file EXCEPT ![Id(u)] = i]
           /\ inode' = [inode EXCEPT ![i] = Empty]
           /\ Opened(u, i)
    /\ crossed' = IF Others(u) = {} THEN crossed ELSE crossed \union {Id(u)}
    /\ UNCHANGED <<rows, reserved, doomed, torn, unwritten, cuts>>

\* open("wb") empties a staging file that is there already.
OpenPart(u) ==
    /\ Stage(u) = "open"
    /\ LET i == IF part[Id(u)] = Nothing THEN u ELSE part[Id(u)]
       IN  /\ part' = [part EXCEPT ![Id(u)] = i]
           /\ inode' = [inode EXCEPT ![i] = Empty]
           /\ Opened(u, i)
    /\ crossed' = IF Others(u) = {} THEN crossed ELSE crossed \union {Id(u)}
    /\ UNCHANGED <<rows, reserved, file, doomed, torn, unwritten, cuts>>

WriteChunk(u) ==
    /\ Stage(u) \in {"one", "two"}
    /\ inode' = [inode EXCEPT ![upload[u].handle][IF Stage(u) = "one" THEN 1 ELSE 2] = upload[u].sends]
    /\ Step(u, [upload[u] EXCEPT !.at = IF Stage(u) = "one" THEN "two" ELSE "place"])
    /\ UNCHANGED <<rows, reserved, file, part, doomed, tally>>

\* The client goes away or sends too much: the staging file is removed.
BreakOff(u) ==
    /\ Stage(u) \in {"one", "two"} /\ Fails(u) /\ Release(u)
    /\ part' = [part EXCEPT ![Id(u)] = Nothing]
    /\ UNCHANGED <<rows, file, inode, doomed, tally>>

\* staging.replace(path): it fails when another upload has moved it away.
Place(u) ==
    /\ Stage(u) = "place"
    /\ IF part[Id(u)] = Nothing
       THEN Fails(u) /\ Release(u) /\ UNCHANGED <<file, part, torn>>
       ELSE /\ file' = [file EXCEPT ![Id(u)] = part[Id(u)]]
            /\ part' = [part EXCEPT ![Id(u)] = Nothing]
            /\ torn' = torn \union {Id(u)}
            /\ Step(u, [upload[u] EXCEPT !.at = "commit"]) /\ UNCHANGED reserved
    /\ UNCHANGED <<rows, inode, doomed, crossed, unwritten, cuts>>

\* The UPDATE names the columns that differ from what was loaded: of a digest that
\* was loaded the same there is none, whatever the row tells by now.  An UPDATE of
\* a row that was deleted meanwhile matches nothing and fails.
CommitRow(u) ==
    LET q == upload[u]
        r == rows[q.address]
        there == q.own \/ (r # Nothing /\ r.id = q.id)
        same  == q.read = q.sends
    IN  /\ Stage(u) = "commit" /\ Fails(u) /\ Release(u)
        /\ rows' = IF there /\ ~same
                   THEN [rows EXCEPT ![q.address] = [id |-> q.id, digest |-> q.sends]] ELSE rows
        /\ torn' = IF there THEN torn \ {q.id} ELSE torn
        /\ unwritten' = IF there /\ same /\ r.digest # q.read THEN unwritten \union {q.id}
                        ELSE IF there THEN unwritten \ {q.id} ELSE unwritten
        /\ UNCHANGED <<disk, doomed, crossed, cuts>>

\* Mutant: the file goes first, the row after it.
DeleteFileFirst(a) ==
    /\ rows[a] # Nothing
    /\ IF rows[a].id \in doomed
       THEN rows' = [rows EXCEPT ![a] = Nothing] /\ UNCHANGED <<doomed, file>>
       ELSE /\ doomed' = doomed \union {rows[a].id} /\ UNCHANGED rows
            /\ file' = [file EXCEPT ![rows[a].id] = Nothing]
    /\ UNCHANGED <<reserved, part, inode, upload, tally>>

DeletePackage(a) ==
    /\ rows[a] # Nothing
    /\ doomed' = doomed \union {rows[a].id}
    /\ rows' = [rows EXCEPT ![a] = Nothing]
    /\ UNCHANGED <<reserved, disk, upload, tally>>

Unlink(i) ==
    /\ i \in doomed /\ doomed' = doomed \ {i}
    /\ file' = [file EXCEPT ![i] = Nothing]
    /\ UNCHANGED <<rows, reserved, part, inode, upload, tally>>

\* The transactions are rolled back; what is on disk stays.
Cut ==
    /\ cuts < MaxCuts /\ cuts' = cuts + 1
    /\ upload' = [u \in Uploads |-> IF Stage(u) = "new" THEN upload[u] ELSE [at |-> "over"]]
    /\ reserved' = [a \in Addresses |-> Nothing] /\ doomed' = {}
    /\ UNCHANGED <<rows, disk, crossed, torn, unwritten>>

Next ==
    \/ \E u \in Uploads :
          \/ FlushRow(u) \/ OpenPart(u) \/ WriteChunk(u) \/ BreakOff(u) \/ Place(u) \/ CommitRow(u)
          \/ \E a \in Addresses, c \in Contents : FindRow(u, a, c)
    \/ \E a \in Addresses : DeletePackage(a)
    \/ \E i \in Uploads : Unlink(i)
    \/ Cut

Spec == Init /\ [][Next]_fileVars

-----------------------------------------------------------------------------
(* Rows, files and uploads are of their kind. *)
TypeOK ==
    /\ rows \in PackageRows
    /\ reserved \in [Addresses -> Uploads \union {Nothing}]
    /\ file \in [Uploads -> Uploads \union {Nothing}]
    /\ part \in [Uploads -> Uploads \union {Nothing}]
    /\ doomed \subseteq Uploads /\ crossed \subseteq Uploads
    /\ torn \subseteq Uploads /\ unwritten \subseteq Uploads

(* What a row names is on disk, whatever upload, deletion or restart came
   between its steps (find_package serves nothing otherwise). *)
RowsHaveFiles == \A a \in Addresses :
    rows[a] # Nothing => find_package(a)

(* A download is what its digest says, unless two uploads wrote the row's file
   at the same time, the file was put in place and the row not committed, or
   the last upload brought the contents that the row had told when it looked,
   another upload came between, and so its commit left the row as it was. *)
DigestTellsContents == \A a \in Addresses :
    rows[a] # Nothing =>
        LET i == rows[a].id
        IN  \/ i \in crossed \union torn \union unwritten
            \/ file[i] # Nothing /\ inode[file[i]] = <<rows[a].digest, rows[a].digest>>

-----------------------------------------------------------------------------
(* "SHA-256 of the contents, so a download can be checked" (models.py): a row
   tells what its file holds once nobody is uploading, when no two uploads
   ever wrote it at the same time and nothing was cut off. *)
DownloadsCanBeChecked ==
    (cuts = 0 /\ \A u \in Uploads : Stage(u) \in {"new", "over"}) =>
        \A a \in Addresses : rows[a] # Nothing /\ rows[a].id \notin crossed =>
            inode[file[rows[a].id]] = <<rows[a].digest, rows[a].digest>>
=============================================================================
