------------------------------ MODULE Objects ------------------------------
(***************************************************************************)
(* Object storage: the life of one bucket.  Its objects are rows and files *)
(* that are written and removed as packages are (storage/service.py has    *)
(* the same steps as artifacts/service.py), and the bucket takes them all  *)
(* along when it goes.                                                     *)
(***************************************************************************)
EXTENDS Packages

VARIABLES
    bucket,         \* its access, "none" before and "gone" after
    sweeping        \* the rows are deleted, the folder is not yet

objectVars == <<fileVars, bucket, sweeping>>

Buckets == {"private", "public"}

InitObjects == Init /\ bucket = "none" /\ sweeping = FALSE

CreateBucket(access) ==
    /\ bucket = "none" /\ bucket' = access
    /\ UNCHANGED <<fileVars, sweeping>>

SetAccess(access) ==
    /\ bucket \in Buckets \ {access} /\ bucket' = access
    /\ UNCHANGED <<fileVars, sweeping>>

PutObject(u, key, c) ==
    /\ bucket \in Buckets /\ FindRow(u, key, c)
    /\ UNCHANGED <<bucket, sweeping>>

\* The foreign key refuses an object of a bucket that is gone.
FlushObject(u) ==
    /\ \/ bucket \in Buckets /\ FlushRow(u)
       \/ /\ bucket = "gone" /\ Stage(u) = "insert" /\ Fails(u)
          /\ UNCHANGED <<rows, reserved, disk, doomed, tally>>
    /\ UNCHANGED <<bucket, sweeping>>

WriteObject(u) ==
    /\ OpenPart(u) \/ WriteChunk(u) \/ BreakOff(u) \/ Place(u) \/ CommitRow(u)
    /\ UNCHANGED <<bucket, sweeping>>

DeleteObject(key) ==
    /\ bucket \in Buckets /\ DeletePackage(key)
    /\ UNCHANGED <<bucket, sweeping>>

\* Mutant: the folder goes before the rows do.
DeleteFolderFirst ==
    /\ bucket \in Buckets /\ \A a \in Addresses : reserved[a] = Nothing
    /\ \/ /\ ~sweeping /\ sweeping' = TRUE /\ UNCHANGED <<rows, bucket>>
          /\ file' = [i \in Uploads |-> Nothing] /\ part' = [i \in Uploads |-> Nothing]
       \/ /\ sweeping /\ bucket' = "gone" /\ rows' = [a \in Addresses |-> Nothing]
          /\ UNCHANGED <<sweeping, file, part>>
    /\ UNCHANGED <<reserved, inode, upload, doomed, tally>>

\* The rows go with the bucket; an insert not yet committed holds it.
DeleteBucket ==
    /\ bucket \in Buckets /\ \A a \in Addresses : reserved[a] = Nothing
    /\ bucket' = "gone" /\ sweeping' = TRUE
    /\ rows' = [a \in Addresses |-> Nothing]
    /\ UNCHANGED <<reserved, disk, upload, doomed, tally>>

RemoveFolder ==
    /\ sweeping /\ sweeping' = FALSE
    /\ file' = [i \in Uploads |-> Nothing] /\ part' = [i \in Uploads |-> Nothing]
    /\ UNCHANGED <<rows, reserved, inode, upload, doomed, tally, bucket>>

ServerStops == Cut /\ sweeping' = FALSE /\ UNCHANGED bucket

NextObjects ==
    \/ \E access \in Buckets : CreateBucket(access) \/ SetAccess(access)
    \/ \E u \in Uploads :
          \/ FlushObject(u) \/ WriteObject(u)
          \/ \E a \in Addresses, c \in Contents : PutObject(u, a, c)
    \/ \E a \in Addresses : DeleteObject(a)
    \/ \E i \in Uploads : Unlink(i) /\ UNCHANGED <<bucket, sweeping>>
    \/ DeleteBucket \/ RemoveFolder \/ ServerStops

ObjectsSpec == InitObjects /\ [][NextObjects]_objectVars

(* A bucket that is not there holds nothing. *)
ObjectsTypeOK ==
    /\ TypeOK
    /\ bucket \in Buckets \union {"none", "gone"} /\ sweeping \in BOOLEAN
    /\ bucket \notin Buckets => \A a \in Addresses : rows[a] = Nothing
=============================================================================
