------------------------------ MODULE Registry ------------------------------
(***************************************************************************)
(* The container registry of one project: uploads that collect pieces on   *)
(* disk, blobs named by their digest, manifests over blobs, and tags.      *)
(* A push is many requests, and several may work at one upload, one blob,  *)
(* one manifest or one tag at a time.                                      *)
(*                                                                         *)
(* What was uploaded is how many pieces; the digest of that many pieces is *)
(* the number itself.                                                      *)
(***************************************************************************)
EXTENDS Naturals, FiniteSets

CONSTANTS
    Pushers,        \* requests at a time
    UploadIds,
    MaxPieces,      \* bound: pieces of an upload
    Manifests, Tags,
    Needs,          \* manifest -> the blobs it points at, none for an index
    Absent,
    MaxDeletions, MaxHalts  \* bounds: manifests deleted, restarts

VARIABLES
    staged,         \* uploads/<id>: pieces in the file, Absent without one
    blobFile,       \* blobs/<digest>: pieces in the file
    blobRows,       \* rows of container_blobs
    manifest,       \* which row of container_manifests it is, 0 for none
    tag,            \* rows of container_tags
    push,           \* where each request stands
    deletions, halts

registryVars == <<staged, blobFile, blobRows, manifest, tag, push, deletions, halts>>
onDisk  == <<staged, blobFile>>
images  == <<manifest, tag>>
spent   == <<deletions, halts>>

Digests   == 1..MaxPieces
Free      == [at |-> "idle"]
On(c, s)  == push[c].at = s
To(c, r)  == push' = [push EXCEPT ![c] = r]

Init ==
    /\ staged = [u \in UploadIds |-> Absent] /\ blobFile = [d \in Digests |-> Absent]
    /\ blobRows = {} /\ manifest = [m \in Manifests |-> 0] /\ tag = [t \in Tags |-> Absent]
    /\ push = [c \in Pushers |-> Free] /\ deletions = 0 /\ halts = 0

-----------------------------------------------------------------------------
(* Blobs.                                                                  *)

\* An id nobody works at any more stands for a new one.
StartUpload(u) ==
    /\ staged[u] = Absent /\ \A c \in Pushers : ~(On(c, "append") \/ On(c, "place"))
    /\ staged' = [staged EXCEPT ![u] = 0]
    /\ UNCHANGED <<blobFile, blobRows, images, push, spent>>

\* append looks for the file first, and opens it anew for every piece.
FindUpload(c, u) ==
    /\ On(c, "idle") /\ staged[u] \in 0..MaxPieces - 1
    /\ To(c, [at |-> "append", id |-> u])
    /\ UNCHANGED <<onDisk, blobRows, images, spent>>

Append(c) ==
    /\ On(c, "append") /\ To(c, Free)
    /\ LET u == push[c].id
           held == IF staged[u] = Absent THEN 0 ELSE staged[u]
       IN  staged' = [staged EXCEPT ![u] = held + 1]
    /\ UNCHANGED <<blobFile, blobRows, images, spent>>

\* finish: the bytes are weighed; what is not as promised is thrown away.
Weigh(c, u, d) ==
    /\ On(c, "idle") /\ staged[u] # Absent
    /\ IF staged[u] = d
       THEN To(c, [at |-> "place", id |-> u, digest |-> d]) /\ UNCHANGED staged
       ELSE UNCHANGED push /\ staged' = [staged EXCEPT ![u] = Absent]
    /\ UNCHANGED <<blobFile, blobRows, images, spent>>

\* A file that somebody else has moved or thrown away: the request fails.
Place(c) ==
    /\ On(c, "place")
    /\ LET u == push[c].id
           d == push[c].digest
       IN  IF staged[u] = Absent
           THEN To(c, Free) /\ UNCHANGED onDisk
           ELSE /\ blobFile' = [blobFile EXCEPT ![d] = staged[u]]
                /\ staged' = [staged EXCEPT ![u] = Absent]
                /\ To(c, [at |-> "keep", digest |-> d])
    /\ UNCHANGED <<blobRows, images, spent>>

\* Two pushes of the same layer that cross leave one row.
KeepBlob(c) ==
    /\ On(c, "keep") /\ To(c, Free)
    /\ blobRows' = blobRows \union {push[c].digest}
    /\ UNCHANGED <<onDisk, images, spent>>

CancelUpload(u) ==
    /\ staged[u] # Absent /\ staged' = [staged EXCEPT ![u] = Absent]
    /\ UNCHANGED <<blobFile, blobRows, images, push, spent>>

-----------------------------------------------------------------------------
(* Manifests and tags.                                                     *)

\* Mutant: a manifest is kept over blobs nobody pushed.
WriteAnyManifest(c, m, t) ==
    /\ On(c, "idle")
    /\ To(c, [at |-> "row", doc |-> m, name |-> t, row |-> manifest[m]])
    /\ UNCHANGED <<onDisk, blobRows, images, spent>>

WriteManifest(c, m, t) ==
    /\ On(c, "idle") /\ Needs[m] \subseteq blobRows
    /\ To(c, [at |-> "row", doc |-> m, name |-> t, row |-> manifest[m]])
    /\ UNCHANGED <<onDisk, blobRows, images, spent>>

\* uq_container_manifests_address refuses the second of two inserts.
KeepManifest(c) ==
    /\ On(c, "row")
    /\ LET m == push[c].doc
           new == deletions + 1
       IN  IF push[c].row # 0
           THEN To(c, [push[c] EXCEPT !.at = "find"]) /\ UNCHANGED manifest
           ELSE IF manifest[m] # 0
           THEN To(c, Free) /\ UNCHANGED manifest
           ELSE /\ manifest' = [manifest EXCEPT ![m] = new]
                /\ To(c, [push[c] EXCEPT !.at = "find", !.row = new])
    /\ UNCHANGED <<onDisk, blobRows, tag, spent>>

\* A reference that is a digest needs no tag.
FindTag(c) ==
    /\ On(c, "find")
    /\ To(c, IF push[c].name = Absent THEN Free
             ELSE [at |-> "tag", doc |-> push[c].doc, name |-> push[c].name,
                   row |-> push[c].row, found |-> tag[push[c].name]])
    /\ UNCHANGED <<onDisk, blobRows, images, spent>>

\* Mutant: no foreign key looks whether the manifest is still there.
TagBlindly(c) ==
    /\ On(c, "tag") /\ To(c, Free)
    /\ tag' = IF (push[c].found = Absent) = (tag[push[c].name] = Absent)
              THEN [tag EXCEPT ![push[c].name] = push[c].doc] ELSE tag
    /\ UNCHANGED <<onDisk, blobRows, manifest, spent>>

\* Refused when the row it points at is gone, when a tag that was not there
\* is there now, and when the tag that was there is not; not sent when the
\* tag named it already.
WriteTag(c) ==
    /\ On(c, "tag") /\ To(c, Free)
    /\ LET p == push[c]
       IN  tag' = IF /\ manifest[p.doc] = p.row /\ p.found # p.doc
                     /\ (p.found = Absent) = (tag[p.name] = Absent)
                  THEN [tag EXCEPT ![p.name] = p.doc] ELSE tag
    /\ UNCHANGED <<onDisk, blobRows, manifest, spent>>

\* The tags that name it go with it.
DeleteManifest(m) ==
    /\ manifest[m] # 0 /\ deletions < MaxDeletions /\ deletions' = deletions + 1
    /\ manifest' = [manifest EXCEPT ![m] = 0]
    /\ tag' = [t \in Tags |-> IF tag[t] = m THEN Absent ELSE tag[t]]
    /\ UNCHANGED <<onDisk, blobRows, push, halts>>

DeleteTag(t) ==
    /\ tag[t] # Absent /\ tag' = [tag EXCEPT ![t] = Absent]
    /\ UNCHANGED <<onDisk, blobRows, manifest, push, spent>>

RemoveManifest == \/ \E m \in Manifests : DeleteManifest(m)
                  \/ \E t \in Tags : DeleteTag(t)

\* What a docker pull asks for: the manifest behind the tag, then its blobs,
\* each by its row and from its file.
read_manifest(t) == tag[t] # Absent /\ manifest[tag[t]] # 0
read_blob(d)     == d \in blobRows /\ blobFile[d] # Absent

Halt ==
    /\ halts < MaxHalts /\ halts' = halts + 1
    /\ \E c \in Pushers : ~On(c, "idle")
    /\ push' = [c \in Pushers |-> Free]
    /\ UNCHANGED <<onDisk, blobRows, images, deletions>>

Next ==
    \/ \E u \in UploadIds : StartUpload(u) \/ CancelUpload(u)
    \/ \E c \in Pushers :
          \/ Append(c) \/ Place(c) \/ KeepBlob(c) \/ KeepManifest(c) \/ FindTag(c) \/ WriteTag(c)
          \/ \E u \in UploadIds : FindUpload(c, u) \/ \E d \in Digests : Weigh(c, u, d)
          \/ \E m \in Manifests, t \in Tags \union {Absent} : WriteManifest(c, m, t)
    \/ RemoveManifest
    \/ Halt

Spec == Init /\ [][Next]_registryVars

-----------------------------------------------------------------------------
(* Files, rows and requests are of their kind. *)
TypeOK ==
    /\ staged \in [UploadIds -> Nat \union {Absent}]
    /\ blobFile \in [Digests -> Nat \union {Absent}] /\ blobRows \subseteq Digests
    /\ manifest \in [Manifests -> 0..MaxDeletions + 1]
    /\ tag \in [Tags -> Manifests \union {Absent}]

(* A tag names a manifest that is kept, and whatever that one needs is there
   as a row and as a file: an image that is listed can be pulled
   (service.write_manifest: a registry that accepts a manifest over blobs it
   does not hold hands out broken images). *)
TaggedImagesPull == \A t \in Tags : tag[t] # Absent =>
    read_manifest(t) /\ \A d \in Needs[tag[t]] : read_blob(d)
=============================================================================
