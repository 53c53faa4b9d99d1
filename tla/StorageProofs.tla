---------------------------- MODULE StorageProofs ----------------------------
(* Proofs about what is stored: the limits of an account, the images of a  *)
(* registry and the objects of a bucket, each for any number of requests   *)
(* under way, of addresses and of pieces.  The components share no state;  *)
(* each is an instance, with its own variables.                            *)
EXTENDS Services, FiniteSetTheorems, TLAPS

-----------------------------------------------------------------------------
(* The limits of an account.                                               *)

Standing(step) == {c \in Askers : asks[c].at = step}

\* What is there, and whoever was let in and has still to add to it.
RoomTaken == things + Cardinality(Standing("insert")) <= Q!LimitOf("things") + Cardinality(Askers) - 1
BytesTaken(most) ==
    bytes + Cardinality(Standing("write")) * most <= Q!LimitOf("bytes") + Cardinality(Askers) * most

Most == {most \in Sizes : \A size \in Sizes : size <= most}
QuotasInv == /\ things \in Nat /\ bytes \in Nat /\ DOMAIN asks = Askers
             /\ RoomTaken /\ \A most \in Most : BytesTaken(most)

LEMMA StandingCounts ==
  ASSUME QuotasAssumption, NEW step
  PROVE  /\ IsFiniteSet(Standing(step)) /\ Cardinality(Standing(step)) \in Nat
         /\ Cardinality(Standing(step)) <= Cardinality(Askers)
         /\ Cardinality(Askers) \in Nat /\ Cardinality(Askers) > 0
<1>1. Standing(step) \subseteq Askers /\ IsFiniteSet(Askers) /\ Askers # {}
  BY DEF Standing, QuotasAssumption
<1> QED
  BY <1>1, FS_Subset, FS_CardinalityType, FS_EmptySet

LEMMA TurnsMoves ==
  ASSUME DOMAIN asks = Askers, NEW c \in Askers, NEW r, Q!Turns(c, r)
  PROVE  /\ DOMAIN asks' = Askers /\ asks'[c] = r
         /\ \A d \in Askers \ {c} : asks'[d] = asks[d]
  BY DEF Q!Turns

\* Somebody leaves a step, and nobody enters it.
LEMMA OneLeaves ==
  ASSUME QuotasAssumption, NEW step, NEW c \in Askers, asks[c].at = step, asks'[c].at # step,
         \A d \in Askers \ {c} : asks'[d] = asks[d]
  PROVE  Cardinality(Standing(step)') = Cardinality(Standing(step)) - 1
<1>1. c \in Standing(step) /\ Standing(step)' = Standing(step) \ {c}
  BY DEF Standing
<1> QED
  BY <1>1, StandingCounts, FS_RemoveElement

LEMMA NobodyComes ==
  ASSUME NEW step, NEW c \in Askers, asks[c].at # step, asks'[c].at # step,
         \A d \in Askers \ {c} : asks'[d] = asks[d]
  PROVE  Standing(step)' = Standing(step)
  BY DEF Standing

LEMMA StandingCountsNext ==
  ASSUME QuotasAssumption, NEW step
  PROVE  /\ Cardinality(Standing(step)') \in Nat
         /\ Cardinality(Standing(step)') <= Cardinality(Askers)
<1>1. Standing(step)' \subseteq Askers /\ IsFiniteSet(Askers)
  BY DEF Standing, QuotasAssumption
<1> QED
  BY <1>1, FS_Subset, FS_CardinalityType

LEMMA ProductsGrow ==
  ASSUME NEW m \in Nat, NEW n \in Nat, NEW k \in Nat, n <= k
  PROVE  n * m \in Nat /\ k * m \in Nat /\ n * m <= k * m
  OBVIOUS

LEMMA ProductLess ==
  ASSUME NEW m \in Nat, NEW n \in Nat, n > 0
  PROVE  (n - 1) * m = n * m - m /\ n * m \in Nat
  OBVIOUS

LEMMA QuotasInit == QuotasAssumption /\ Q!Init => QuotasInv
<1> SUFFICES ASSUME QuotasAssumption, Q!Init PROVE QuotasInv
  OBVIOUS
<1>1. things = 0 /\ bytes = 0 /\ DOMAIN asks = Askers /\ \A c \in Askers : asks[c].at = "idle"
  BY DEF Q!Init
<1>2. Standing("insert") = {} /\ Standing("write") = {}
  BY <1>1 DEF Standing
<1>3. Cardinality(Standing("insert")) = 0 /\ Cardinality(Standing("write")) = 0
  BY <1>2, FS_EmptySet
<1>4. Cardinality(Askers) \in Nat /\ Cardinality(Askers) > 0
  BY StandingCounts
<1>5. RoomTaken
  BY <1>1, <1>3, <1>4 DEF RoomTaken, QuotasAssumption
<1>6. ASSUME NEW most \in Most PROVE BytesTaken(most)
  <2>1. most \in Nat
    BY DEF Most, QuotasAssumption
  <2>2. 0 * most = 0 /\ Cardinality(Askers) * most \in Nat
    BY <1>4, <2>1, ProductsGrow
  <2> QED
    BY <1>1, <1>3, <2>2 DEF BytesTaken, QuotasAssumption
<1> QED
  BY <1>1, <1>5, <1>6 DEF QuotasInv

LEMMA QuotasNext ==
  ASSUME QuotasAssumption, QuotasInv, [Q!Next]_Q!quotaVars
  PROVE  QuotasInv'
<1>a. /\ things \in Nat /\ bytes \in Nat /\ DOMAIN asks = Askers /\ RoomTaken
      /\ \A most \in Most : BytesTaken(most)
  BY DEF QuotasInv
<1>b. /\ Q!LimitOf("things") \in Nat /\ Q!LimitOf("bytes") \in Nat /\ Sizes \subseteq Nat
      /\ \A most \in Most : most \in Nat
  BY DEF QuotasAssumption, Most
<1>c. /\ \A step : /\ Cardinality(Standing(step)) \in Nat /\ Cardinality(Standing(step)') \in Nat
                   /\ Cardinality(Standing(step)') <= Cardinality(Askers)
      /\ Cardinality(Askers) \in Nat /\ Cardinality(Askers) > 0
  BY StandingCounts, StandingCountsNext
<1>1. ASSUME NEW c \in Askers, Q!EnsureRoomForOneMore(c) PROVE QuotasInv'
  <2>1. /\ asks[c].at = "idle" /\ asks'[c].at = "insert" /\ DOMAIN asks' = Askers
        /\ \A d \in Askers \ {c} : asks'[d] = asks[d]
    BY <1>a, <1>1, TurnsMoves DEF Q!EnsureRoomForOneMore, Q!Asked
  <2>2. things < Q!LimitOf("things") /\ UNCHANGED <<things, bytes>>
    BY <1>1 DEF Q!EnsureRoomForOneMore, Q!RoomForOneMore
  <2>3. RoomTaken'
    <3>1. Cardinality(Standing("insert")') \in Nat /\ Cardinality(Standing("insert")') <= Cardinality(Askers)
      BY <1>c
    <3> QED
      BY <1>a, <1>b, <1>c, <2>2, <3>1 DEF RoomTaken
  <2>4. Standing("write")' = Standing("write")
    BY <2>1, NobodyComes
  <2> QED
    BY <1>a, <2>1, <2>2, <2>3, <2>4 DEF QuotasInv, BytesTaken, Most
<1>2. ASSUME NEW c \in Askers, Q!Insert(c) PROVE QuotasInv'
  <2>1. /\ asks[c].at = "insert" /\ asks'[c].at = "idle" /\ DOMAIN asks' = Askers
        /\ \A d \in Askers \ {c} : asks'[d] = asks[d]
    BY <1>a, <1>2, TurnsMoves DEF Q!Insert, Q!Asked
  <2>2. things' = things + 1 /\ bytes' = bytes
    BY <1>2 DEF Q!Insert
  <2>3. Cardinality(Standing("insert")') = Cardinality(Standing("insert")) - 1
    BY <2>1, OneLeaves
  <2>4. RoomTaken'
    BY <1>a, <1>b, <1>c, <2>2, <2>3 DEF RoomTaken
  <2>5. Standing("write")' = Standing("write")
    BY <2>1, NobodyComes
  <2> QED
    BY <1>a, <2>1, <2>2, <2>4, <2>5 DEF QuotasInv, BytesTaken, Most
<1>3. ASSUME NEW c \in Askers, NEW announced \in Sizes \union {0}, Q!EnsureRoomForBytes(c, announced)
      PROVE  QuotasInv'
  <2>1. /\ asks[c].at = "idle" /\ asks'[c].at = "write" /\ DOMAIN asks' = Askers
        /\ \A d \in Askers \ {c} : asks'[d] = asks[d]
    BY <1>a, <1>3, TurnsMoves DEF Q!EnsureRoomForBytes, Q!Asked
  <2>2. bytes <= Q!LimitOf("bytes") /\ UNCHANGED <<things, bytes>>
    <3>1. bytes + announced <= Q!LimitOf("bytes") /\ UNCHANGED <<things, bytes>>
      BY <1>3 DEF Q!EnsureRoomForBytes, Q!RoomForBytes, Q!storage_of
    <3>2. announced \in Nat
      BY <1>b
    <3> QED
      BY <1>a, <1>b, <3>1, <3>2
  <2>3. Standing("insert")' = Standing("insert")
    BY <2>1, NobodyComes
  <2>4. ASSUME NEW most \in Most PROVE BytesTaken(most)'
    <3>1. /\ Cardinality(Standing("write")') * most <= Cardinality(Askers) * most
          /\ Cardinality(Standing("write")') * most \in Nat /\ Cardinality(Askers) * most \in Nat
      BY <1>b, <1>c, ProductsGrow
    <3> QED
      BY <1>a, <1>b, <2>2, <3>1 DEF BytesTaken
  <2> QED
    BY <1>a, <2>1, <2>2, <2>3, <2>4 DEF QuotasInv, RoomTaken, Most
<1>4. ASSUME NEW c \in Askers, Q!Write(c) PROVE QuotasInv'
  <2>1. /\ asks[c].at = "write" /\ asks'[c].at = "idle" /\ DOMAIN asks' = Askers
        /\ \A d \in Askers \ {c} : asks'[d] = asks[d]
    BY <1>a, <1>4, TurnsMoves DEF Q!Write, Q!Asked
  <2>2. PICK size \in Sizes : bytes' = bytes + size /\ things' = things
    BY <1>4 DEF Q!Write
  <2>3. Cardinality(Standing("write")') = Cardinality(Standing("write")) - 1
    BY <2>1, OneLeaves
  <2>4. Standing("insert")' = Standing("insert")
    BY <2>1, NobodyComes
  <2>5. ASSUME NEW most \in Most PROVE BytesTaken(most)'
    <3> DEFINE n == Cardinality(Standing("write"))
               k == Cardinality(Askers)
    <3>1. n \in Nat /\ n > 0 /\ k \in Nat
      BY <1>c, <2>3
    <3>2. (n - 1) * most = n * most - most /\ n * most \in Nat /\ k * most \in Nat
      BY <1>b, <3>1, ProductLess, ProductsGrow
    <3>3. size <= most /\ size \in Nat /\ most \in Nat
      BY <1>b DEF Most
    <3>4. bytes + n * most <= Q!LimitOf("bytes") + k * most
      BY <1>a DEF BytesTaken
    <3>5. BytesTaken(most)' <=> bytes' + (n - 1) * most <= Q!LimitOf("bytes") + k * most
      BY <2>3 DEF BytesTaken
    <3> HIDE DEF n, k
    <3> QED
      BY <1>a, <1>b, <2>2, <3>1, <3>2, <3>3, <3>4, <3>5
  <2>6. bytes' \in Nat
    BY <1>a, <1>b, <2>2
  <2> QED
    BY <1>a, <2>1, <2>2, <2>4, <2>5, <2>6 DEF QuotasInv, RoomTaken, Most
<1>5. ASSUME Q!Remove PROVE QuotasInv'
  <2>1. /\ things' \in Nat /\ things' <= things /\ bytes' \in Nat /\ bytes' <= bytes
        /\ UNCHANGED asks
    <3>1. CASE things > 0 /\ things' = things - 1 /\ UNCHANGED <<bytes, asks>>
      BY <1>a, <3>1
    <3>2. CASE \E size \in Sizes : size <= bytes /\ bytes' = bytes - size /\ UNCHANGED <<things, asks>>
      BY <1>a, <1>b, <3>2
    <3> QED
      BY <1>5, <3>1, <3>2 DEF Q!Remove
  <2>2. Standing("insert")' = Standing("insert") /\ Standing("write")' = Standing("write")
    BY <2>1 DEF Standing
  <2>3. RoomTaken'
    BY <1>a, <1>b, <1>c, <2>1, <2>2 DEF RoomTaken
  <2>4. ASSUME NEW most \in Most PROVE BytesTaken(most)'
    <3>1. Cardinality(Standing("write")) * most \in Nat /\ Cardinality(Askers) * most \in Nat
      BY <1>b, <1>c, ProductsGrow
    <3> QED
      BY <1>a, <1>b, <2>1, <2>2, <3>1 DEF BytesTaken
  <2> QED
    BY <1>a, <2>1, <2>3, <2>4 DEF QuotasInv, Most
<1>6. ASSUME UNCHANGED Q!quotaVars PROVE QuotasInv'
  BY <1>a, <1>6 DEF Q!quotaVars, QuotasInv, RoomTaken, BytesTaken, Most, Standing
<1> QED
  BY <1>1, <1>2, <1>3, <1>4, <1>5, <1>6 DEF Q!Next

LEMMA QuotasCountAlike == \A B : Q!Cardinality(B) = Cardinality(B)
  BY DEF Q!Cardinality, Cardinality

(* PassedByFewOnly: requests that are weighed at the same time pass a      *)
(* limit together, by fewer things than there are requests, and by no more *)
(* bytes than each of them may send                                        *)
(* (quotas/service.py ensure_room_for_one_more).                           *)
THEOREM LimitsHold ==
  ASSUME QuotasAssumption
  PROVE  Q!Spec => [](Q!TypeOK /\ Q!PassedByFewOnly)
<1>1. QuotasInv => Q!TypeOK /\ Q!PassedByFewOnly
  <2> SUFFICES ASSUME QuotasInv PROVE Q!TypeOK /\ Q!PassedByFewOnly
    OBVIOUS
  <2>1. things + Q!Underway("insert") <= Q!LimitOf("things") + Q!Cardinality(Askers) - 1
    BY QuotasCountAlike DEF QuotasInv, RoomTaken, Standing, Q!Underway, Q!Asked
  <2>2. ASSUME NEW most \in Sizes, \A size \in Sizes : size <= most
        PROVE  bytes <= Q!LimitOf("bytes") + Q!Cardinality(Askers) * most
    <3>1. most \in Most /\ most \in Nat /\ bytes \in Nat /\ Q!LimitOf("bytes") \in Nat
      BY <2>2 DEF Most, QuotasAssumption, QuotasInv
    <3>2. Cardinality(Standing("write")) * most \in Nat /\ Cardinality(Askers) * most \in Nat
      BY <3>1, StandingCounts, ProductsGrow
    <3>3. BytesTaken(most)
      BY <3>1 DEF QuotasInv
    <3>4. bytes <= Q!LimitOf("bytes") + Cardinality(Askers) * most
      BY <3>1, <3>2, <3>3 DEF BytesTaken
    <3> QED
      BY <3>4, QuotasCountAlike
  <2> QED
    BY <2>1, <2>2 DEF QuotasInv, Q!TypeOK, Q!PassedByFewOnly
<1>2. Q!Init => QuotasInv
  BY QuotasInit
<1>3. QuotasInv /\ [Q!Next]_Q!quotaVars => QuotasInv'
  BY QuotasNext
<1> QED
  BY <1>1, <1>2, <1>3, PTL DEF Q!Spec

-----------------------------------------------------------------------------
(* The registry of a project.                                              *)

OverManifest == {"row", "find", "tag"}
RowNumbers   == 0..MaxDeletions + 1

\* What a request must know at the step it has come to, where files are the
\* blobs on disk and held those with a row: a blob has its file before its row,
\* a manifest is kept over blobs that are there, and a tag stands for a row.
Fits(r, files, held) ==
    /\ r.at \in {"append", "place"} => r.id \in UploadIds
    /\ r.at \in {"place", "keep"} => r.digest \in R!Digests
    /\ r.at = "keep" => files[r.digest] # Absent
    /\ r.at \in OverManifest =>
          /\ r.doc \in Manifests /\ r.row \in RowNumbers
          /\ r.name \in Tags \union {Absent} /\ Needs[r.doc] \subseteq held
    /\ r.at = "tag" => r.name \in Tags
    /\ r.at \in {"find", "tag"} => r.row # 0

PushesFit == DOMAIN push = Pushers /\ \A c \in Pushers : Fits(push[c], blobFile, blobRows)
Stored    == \A d \in blobRows : blobFile[d] # Absent
Whole     == \A m \in Manifests : manifest[m] # 0 => Needs[m] \subseteq blobRows
Named     == \A t \in Tags : tag[t] # Absent => manifest[tag[t]] # 0

RegistryInv == /\ R!TypeOK /\ deletions \in 0..MaxDeletions
               /\ PushesFit /\ Stored /\ Whole /\ Named

\* One request moves on to a step it is fit for; no file and no row goes.
LEMMA PushGoesOn ==
  ASSUME PushesFit, NEW c \in Pushers, NEW r, R!To(c, r), Fits(r, blobFile', blobRows'),
         blobRows \subseteq blobRows',
         \A d \in R!Digests : blobFile[d] # Absent => blobFile'[d] # Absent
  PROVE  PushesFit'
<1>1. /\ DOMAIN push' = Pushers /\ push'[c] = r
      /\ \A d \in Pushers \ {c} : push'[d] = push[d]
  BY DEF PushesFit, R!To
<1>2. ASSUME NEW d \in Pushers \ {c} PROVE Fits(push'[d], blobFile', blobRows')
  <2>1. Fits(push[d], blobFile, blobRows) /\ push'[d] = push[d]
    BY <1>1 DEF PushesFit
  <2> QED
    BY <2>1 DEF Fits
<1>3. ASSUME NEW d \in Pushers PROVE Fits(push'[d], blobFile', blobRows')
  <2>1. CASE d = c
    BY <1>1, <2>1
  <2>2. CASE d # c
    BY <1>2, <2>2
  <2> QED
    BY <2>1, <2>2
<1> QED
  BY <1>1, <1>3 DEF PushesFit

LEMMA RegistryInit == RegistryAssumption /\ R!Init => RegistryInv
  BY DEF RegistryAssumption, R!Init, R!Free, RegistryInv, R!TypeOK, PushesFit, Fits, Stored, Whole,
     Named, OverManifest

LEMMA RegistryNext ==
  ASSUME RegistryAssumption, RegistryInv, [R!Next]_R!registryVars
  PROVE  RegistryInv'
<1>a. /\ R!TypeOK /\ deletions \in 0..MaxDeletions
      /\ PushesFit /\ Stored /\ Whole /\ Named
  BY DEF RegistryInv
<1>b. /\ DOMAIN push = Pushers /\ \A c \in Pushers : Fits(push[c], blobFile, blobRows)
  BY <1>a DEF PushesFit
<1>c. /\ staged \in [UploadIds -> Nat \union {Absent}]
      /\ blobFile \in [R!Digests -> Nat \union {Absent}] /\ blobRows \subseteq R!Digests
      /\ manifest \in [Manifests -> RowNumbers]
      /\ tag \in [Tags -> Manifests \union {Absent}]
  BY <1>a DEF R!TypeOK, RowNumbers
\* Steps that touch no row.
<1>d. ASSUME UNCHANGED <<blobFile, blobRows, R!images, deletions>>,
             staged' \in [UploadIds -> Nat \union {Absent}], PushesFit'
      PROVE  RegistryInv'
  BY <1>a, <1>d DEF RegistryInv, R!TypeOK, R!images, Stored, Whole, Named
<1>e. ASSUME UNCHANGED <<blobFile, blobRows, push>> PROVE PushesFit'
  BY <1>a, <1>e DEF PushesFit
<1>f. ASSUME NEW c \in Pushers, NEW r, R!To(c, r), Fits(r, blobFile, blobRows),
             UNCHANGED <<blobFile, blobRows>>
      PROVE  PushesFit'
  BY <1>a, <1>f, PushGoesOn
<1>g. \A files, held : Fits(R!Free, files, held)
  BY DEF Fits, R!Free, OverManifest
<1>1. ASSUME NEW u \in UploadIds, R!StartUpload(u) \/ R!CancelUpload(u) PROVE RegistryInv'
  <2>1. staged' \in [UploadIds -> Nat \union {Absent}]
    BY <1>c, <1>1 DEF R!StartUpload, R!CancelUpload
  <2> QED
    BY <1>d, <1>e, <1>1, <2>1 DEF R!StartUpload, R!CancelUpload, R!spent
<1>2. ASSUME NEW c \in Pushers, NEW u \in UploadIds, R!FindUpload(c, u) PROVE RegistryInv'
  <2>1. Fits([at |-> "append", id |-> u], blobFile, blobRows)
    BY DEF Fits, OverManifest
  <2>2. PushesFit'
    BY <1>2, <1>f, <2>1 DEF R!FindUpload, R!onDisk
  <2> QED
    BY <1>c, <1>d, <1>2, <2>2 DEF R!FindUpload, R!onDisk, R!spent
<1>3. ASSUME NEW c \in Pushers, R!Append(c) PROVE RegistryInv'
  <2>1. push[c].id \in UploadIds
    BY <1>b, <1>3 DEF R!Append, R!On, Fits
  <2>2. staged' \in [UploadIds -> Nat \union {Absent}]
    <3>1. CASE staged[push[c].id] = Absent
      BY <1>c, <1>3, <2>1, <3>1 DEF R!Append
    <3>2. CASE staged[push[c].id] # Absent
      BY <1>c, <1>3, <2>1, <3>2 DEF R!Append
    <3> QED
      BY <3>1, <3>2
  <2>3. PushesFit'
    BY <1>3, <1>f, <1>g DEF R!Append
  <2> QED
    BY <1>d, <1>3, <2>2, <2>3 DEF R!Append, R!spent
<1>4. ASSUME NEW c \in Pushers, NEW u \in UploadIds, NEW d \in R!Digests, R!Weigh(c, u, d)
      PROVE  RegistryInv'
  <2>1. CASE staged[u] = d
    <3>1. Fits([at |-> "place", id |-> u, digest |-> d], blobFile, blobRows)
      BY DEF Fits, OverManifest
    <3>2. PushesFit'
      BY <1>4, <1>f, <2>1, <3>1 DEF R!Weigh
    <3> QED
      BY <1>c, <1>d, <1>4, <2>1, <3>2 DEF R!Weigh, R!spent
  <2>2. CASE staged[u] # d
    <3>1. staged' \in [UploadIds -> Nat \union {Absent}] /\ PushesFit'
      BY <1>c, <1>e, <1>4, <2>2 DEF R!Weigh
    <3> QED
      BY <1>d, <1>4, <3>1 DEF R!Weigh, R!spent
  <2> QED
    BY <2>1, <2>2
<1>5. ASSUME NEW c \in Pushers, R!Place(c) PROVE RegistryInv'
  <2> DEFINE u == push[c].id
             d == push[c].digest
  <2>1. u \in UploadIds /\ d \in R!Digests
    BY <1>b, <1>5 DEF R!Place, R!On, Fits
  <2>2. CASE staged[u] = Absent
    <3>1. PushesFit'
      BY <1>5, <1>f, <1>g, <2>2 DEF R!Place, R!onDisk
    <3> QED
      BY <1>c, <1>d, <1>5, <2>2, <3>1 DEF R!Place, R!onDisk, R!spent
  <2>3. CASE staged[u] # Absent
    <3>1. /\ blobFile' = [blobFile EXCEPT ![d] = staged[u]]
          /\ staged' = [staged EXCEPT ![u] = Absent]
          /\ R!To(c, [at |-> "keep", digest |-> d])
          /\ UNCHANGED <<blobRows, R!images, deletions>>
      BY <1>5, <2>3 DEF R!Place, R!spent
    <3>2. /\ staged' \in [UploadIds -> Nat \union {Absent}]
          /\ blobFile' \in [R!Digests -> Nat \union {Absent}]
          /\ blobFile'[d] # Absent
          /\ \A e \in R!Digests : blobFile[e] # Absent => blobFile'[e] # Absent
      BY <1>c, <2>1, <2>3, <3>1
    <3>3. Fits([at |-> "keep", digest |-> d], blobFile', blobRows')
      BY <2>1, <3>2 DEF Fits, OverManifest
    <3>4. PushesFit'
      BY <1>a, <3>1, <3>2, <3>3, PushGoesOn
    <3>5. Stored'
      BY <1>a, <1>c, <3>1, <3>2 DEF Stored
    <3> QED
      BY <1>a, <3>1, <3>2, <3>4, <3>5 DEF RegistryInv, R!TypeOK, R!images, Whole, Named
  <2> QED
    BY <2>2, <2>3
<1>6. ASSUME NEW c \in Pushers, R!KeepBlob(c) PROVE RegistryInv'
  <2>1. push[c].digest \in R!Digests /\ blobFile[push[c].digest] # Absent
    BY <1>b, <1>6 DEF R!KeepBlob, R!On, Fits
  <2>2. /\ blobRows' = blobRows \union {push[c].digest}
        /\ UNCHANGED <<staged, blobFile, manifest, tag, deletions>>
    BY <1>6 DEF R!KeepBlob, R!onDisk, R!images, R!spent
  <2>3. PushesFit'
    BY <1>a, <1>g, <1>6, <2>2, PushGoesOn DEF R!KeepBlob
  <2> QED
    BY <1>a, <2>1, <2>2, <2>3 DEF RegistryInv, R!TypeOK, Stored, Whole, Named
<1>7. ASSUME NEW c \in Pushers, NEW m \in Manifests, NEW t \in Tags \union {Absent},
             R!WriteManifest(c, m, t)
      PROVE  RegistryInv'
  <2>1. Fits([at |-> "row", doc |-> m, name |-> t, row |-> manifest[m]], blobFile, blobRows)
    BY <1>c, <1>7 DEF R!WriteManifest, Fits
  <2>2. PushesFit'
    BY <1>7, <1>f, <2>1 DEF R!WriteManifest, R!onDisk
  <2> QED
    BY <1>c, <1>d, <1>7, <2>2 DEF R!WriteManifest, R!onDisk, R!spent
<1>8. ASSUME NEW c \in Pushers, R!KeepManifest(c) PROVE RegistryInv'
  <2> DEFINE m == push[c].doc
             new == deletions + 1
  <2>1. /\ m \in Manifests /\ push[c].row \in RowNumbers /\ push[c].name \in Tags \union {Absent}
        /\ Needs[m] \subseteq blobRows /\ push[c].at = "row"
    BY <1>b, <1>8 DEF R!KeepManifest, R!On, Fits, OverManifest
  <2>2. CASE push[c].row # 0
    <3> DEFINE r == [push[c] EXCEPT !.at = "find"]
    <3>1. r.at = "find" /\ r.doc = m /\ r.row = push[c].row /\ r.name = push[c].name
      BY <2>1
    <3>2. R!To(c, r) /\ UNCHANGED <<staged, blobFile, blobRows, R!images, deletions>>
      BY <1>8, <2>2 DEF R!KeepManifest, R!onDisk, R!spent, R!images
    <3> HIDE DEF r
    <3>3. Fits(r, blobFile, blobRows)
      BY <2>1, <2>2, <3>1 DEF Fits
    <3>4. PushesFit'
      BY <1>f, <3>2, <3>3
    <3> QED
      BY <1>c, <1>d, <3>2, <3>4
  <2>3. CASE push[c].row = 0 /\ manifest[m] # 0
    <3>1. PushesFit'
      BY <1>8, <1>f, <1>g, <2>3 DEF R!KeepManifest, R!onDisk
    <3> QED
      BY <1>c, <1>d, <1>8, <2>3, <3>1 DEF R!KeepManifest, R!onDisk, R!images, R!spent
  <2>4. CASE push[c].row = 0 /\ manifest[m] = 0
    <3> DEFINE r == [push[c] EXCEPT !.at = "find", !.row = new]
    <3>1. r.at = "find" /\ r.doc = m /\ r.row = new /\ r.name = push[c].name
      BY <2>1
    <3>2. /\ R!To(c, r) /\ manifest' = [manifest EXCEPT ![m] = new]
          /\ UNCHANGED <<staged, blobFile, blobRows, tag, deletions>>
      BY <1>8, <2>4 DEF R!KeepManifest, R!onDisk, R!spent
    <3> HIDE DEF r
    <3>3. new \in RowNumbers /\ new # 0
      BY <1>a DEF RowNumbers, RegistryAssumption
    <3>4. Fits(r, blobFile, blobRows)
      BY <2>1, <3>1, <3>3 DEF Fits
    <3>5. PushesFit'
      BY <1>f, <3>2, <3>4
    <3>6. manifest' \in [Manifests -> RowNumbers]
      BY <1>c, <3>2, <3>3
    <3>7. Whole'
      BY <1>a, <1>c, <2>1, <3>2 DEF Whole
    <3>8. Named'
      BY <1>a, <1>c, <2>1, <3>2, <3>3 DEF Named
    <3> QED
      BY <1>a, <3>2, <3>5, <3>6, <3>7, <3>8 DEF RegistryInv, R!TypeOK, RowNumbers, Stored
  <2> QED
    BY <2>2, <2>3, <2>4
<1>9. ASSUME NEW c \in Pushers, R!FindTag(c) PROVE RegistryInv'
  <2>1. /\ push[c].doc \in Manifests /\ push[c].row \in RowNumbers
        /\ push[c].name \in Tags \union {Absent} /\ push[c].row # 0
        /\ Needs[push[c].doc] \subseteq blobRows
    BY <1>b, <1>9 DEF R!FindTag, R!On, Fits, OverManifest
  <2>2. PushesFit'
    <3>1. CASE push[c].name = Absent
      BY <1>9, <1>f, <1>g, <3>1 DEF R!FindTag, R!onDisk
    <3>2. CASE push[c].name # Absent
      <4> DEFINE r == [at |-> "tag", doc |-> push[c].doc, name |-> push[c].name,
                       row |-> push[c].row, found |-> tag[push[c].name]]
      <4>1. Fits(r, blobFile, blobRows)
        BY <2>1, <3>2 DEF Fits
      <4>2. R!To(c, r)
        BY <1>9, <3>2 DEF R!FindTag
      <4> HIDE DEF r
      <4> QED
        BY <1>9, <1>f, <4>1, <4>2 DEF R!FindTag, R!onDisk
    <3> QED
      BY <3>1, <3>2
  <2> QED
    BY <1>c, <1>d, <1>9, <2>2 DEF R!FindTag, R!onDisk, R!spent
<1>10. ASSUME NEW c \in Pushers, R!WriteTag(c) PROVE RegistryInv'
  <2>1. push[c].doc \in Manifests /\ push[c].row # 0 /\ push[c].name \in Tags
    BY <1>b, <1>10 DEF R!WriteTag, R!On, Fits, OverManifest
  <2>2. UNCHANGED <<staged, blobFile, blobRows, manifest, deletions>>
    BY <1>10 DEF R!WriteTag, R!onDisk, R!spent
  <2>3. PushesFit'
    BY <1>10, <1>f, <1>g, <2>2 DEF R!WriteTag
  <2>4. \/ tag' = tag
        \/ tag' = [tag EXCEPT ![push[c].name] = push[c].doc] /\ manifest[push[c].doc] = push[c].row
    BY <1>10 DEF R!WriteTag
  <2>5. tag' \in [Tags -> Manifests \union {Absent}] /\ Named'
    BY <1>a, <1>c, <2>1, <2>2, <2>4 DEF Named
  <2> QED
    BY <1>a, <2>2, <2>3, <2>5 DEF RegistryInv, R!TypeOK, Stored, Whole
<1>11. ASSUME NEW m \in Manifests, R!DeleteManifest(m) PROVE RegistryInv'
  <2>1. /\ deletions < MaxDeletions /\ deletions' = deletions + 1
        /\ manifest' = [manifest EXCEPT ![m] = 0]
        /\ tag' = [t \in Tags |-> IF tag[t] = m THEN Absent ELSE tag[t]]
        /\ UNCHANGED <<staged, blobFile, blobRows, push>>
    BY <1>11 DEF R!DeleteManifest, R!onDisk
  <2>2. deletions' \in 0..MaxDeletions /\ 0 \in RowNumbers
    BY <1>a, <2>1 DEF RegistryAssumption, RowNumbers
  <2>3. /\ manifest' \in [Manifests -> RowNumbers]
        /\ tag' \in [Tags -> Manifests \union {Absent}]
    BY <1>c, <2>1, <2>2
  <2>4. Whole' /\ Named'
    BY <1>a, <1>c, <2>1 DEF Whole, Named
  <2> QED
    BY <1>a, <1>e, <2>1, <2>2, <2>3, <2>4 DEF RegistryInv, R!TypeOK, Stored, RowNumbers
<1>12. ASSUME NEW t \in Tags, R!DeleteTag(t) PROVE RegistryInv'
  <2>1. /\ tag' = [tag EXCEPT ![t] = Absent]
        /\ UNCHANGED <<staged, blobFile, blobRows, manifest, push, deletions>>
    BY <1>12 DEF R!DeleteTag, R!onDisk, R!spent
  <2> QED
    BY <1>a, <1>c, <1>e, <2>1 DEF RegistryInv, R!TypeOK, Stored, Whole, Named
<1>13. ASSUME R!Halt PROVE RegistryInv'
  <2>1. PushesFit'
    BY <1>13, <1>g DEF R!Halt, PushesFit
  <2> QED
    BY <1>c, <1>d, <1>13, <2>1 DEF R!Halt, R!onDisk
<1>14. ASSUME UNCHANGED R!registryVars PROVE RegistryInv'
  BY <1>c, <1>d, <1>e, <1>14 DEF R!registryVars, R!images
<1> QED
  BY <1>1, <1>2, <1>3, <1>4, <1>5, <1>6, <1>7, <1>8, <1>9, <1>10, <1>11, <1>12, <1>13, <1>14
     DEF R!Next, R!RemoveManifest

(* TaggedImagesPull: a tag names a manifest that is kept, and every blob   *)
(* that one needs has its row and its file, whatever pushes, deletions and *)
(* restarts interleave (registry/service.py write_manifest).               *)
THEOREM ListedImagesPull ==
  ASSUME RegistryAssumption
  PROVE  R!Spec => [](R!TypeOK /\ R!TaggedImagesPull)
<1>1. RegistryInv => R!TypeOK /\ R!TaggedImagesPull
  BY DEF RegistryInv, Stored, Whole, Named, R!TypeOK, R!TaggedImagesPull, R!read_manifest, R!read_blob
<1>2. R!Init => RegistryInv
  BY RegistryInit
<1>3. RegistryInv /\ [R!Next]_R!registryVars => RegistryInv'
  BY RegistryNext
<1> QED
  BY <1>1, <1>2, <1>3, PTL DEF R!Spec

-----------------------------------------------------------------------------
(* The objects of a bucket.                                                *)

Writing == {"one", "two", "place"}
AtFile  == Writing \union {"commit"}
Active  == AtFile \union {"open"}
Placed  == Active \union {"insert"}
Over    == {u \in Uploads : upload[u].at = "over"}

\* What upload u must know at the step it has come to: its own row is reserved
\* for it, the row of another was made by an upload that is over.
UploadFits(u, r, over, res, files) ==
    /\ r.at \in Placed \union {"new", "over"}
    /\ r.at \in Placed =>
          /\ r.address \in Addresses /\ r.id \in Uploads
          /\ r.own => r.id = u
          /\ ~r.own => r.id \in over
          /\ r.sends \in Contents /\ (r.own => r.read = Nothing)
    /\ r.at = "insert" => r.own
    /\ r.at \in AtFile => r.handle \in Uploads
    /\ r.at \in Active /\ r.own => res[r.address] = u
    /\ r.at = "commit" /\ r.own => files[u] # Nothing
UploadsFit == /\ DOMAIN upload = Uploads
              /\ \A u \in Uploads : UploadFits(u, upload[u], Over, reserved, file)

\* The identifier of a row is its own, and the file is there.
RowsStand ==
    /\ \A a \in Addresses : rows[a] # Nothing => rows[a].id \in Over /\ file[rows[a].id] # Nothing
    /\ \A a, b \in Addresses :
          rows[a] # Nothing /\ rows[b] # Nothing /\ rows[a].id = rows[b].id => a = b
\* A file about to be removed belongs to no row any more, nor to one to come.
DoomedIsGone == \A i \in doomed :
    i \in Over /\ \A a \in Addresses : rows[a] # Nothing => rows[a].id # i
\* A bucket that is gone has taken all with it.
BucketStands ==
    /\ bucket \in V!Buckets \union {"none", "gone"} /\ sweeping \in BOOLEAN
    /\ sweeping => bucket = "gone"
    /\ bucket = "gone" => \A a \in Addresses : reserved[a] = Nothing
    /\ bucket = "none" => \A u \in Uploads : upload[u].at \in {"new", "over"}
    /\ bucket \notin V!Buckets => \A a \in Addresses : rows[a] = Nothing

LifeInv == V!TypeOK /\ UploadsFit /\ RowsStand /\ DoomedIsGone /\ BucketStands

LEMMA UploadMoves ==
  ASSUME DOMAIN upload = Uploads, NEW u \in Uploads, NEW r, V!Step(u, r)
  PROVE  /\ DOMAIN upload' = Uploads /\ upload'[u] = r
         /\ \A v \in Uploads \ {u} : upload'[v] = upload[v]
  BY DEF V!Step

\* One upload moves on; the others keep what they rely on.
LEMMA UploadGoesOn ==
  ASSUME UploadsFit, NEW u \in Uploads, NEW r, V!Step(u, r), upload[u].at # "over",
         UploadFits(u, r, Over', reserved', file'),
         \A v \in Uploads \ {u} : \A a \in Addresses : reserved[a] = v => reserved'[a] = v,
         \A v \in Uploads \ Over : file[v] # Nothing => file'[v] # Nothing
  PROVE  UploadsFit' /\ Over \subseteq Over'
<1>1. /\ DOMAIN upload' = Uploads /\ upload'[u] = r
      /\ \A v \in Uploads \ {u} : upload'[v] = upload[v]
  BY UploadMoves DEF UploadsFit
<1>2. Over \subseteq Over'
  BY <1>1 DEF Over
<1>3. ASSUME NEW v \in Uploads \ {u} PROVE UploadFits(v, upload'[v], Over', reserved', file')
  <2>1. UploadFits(v, upload[v], Over, reserved, file) /\ upload'[v] = upload[v]
    BY <1>1 DEF UploadsFit
  <2>2. upload[v].at = "commit" => v \notin Over
    BY DEF Over
  <2>3. Active \subseteq Placed /\ "commit" \in Active
    BY DEF Active, AtFile, Placed
  <2> QED
    BY <1>2, <2>1, <2>2, <2>3 DEF UploadFits
<1>4. ASSUME NEW v \in Uploads PROVE UploadFits(v, upload'[v], Over', reserved', file')
  <2>1. CASE v = u
    BY <1>1, <2>1
  <2>2. CASE v # u
    BY <1>3, <2>2
  <2> QED
    BY <2>1, <2>2
<1> QED
  BY <1>1, <1>2, <1>4 DEF UploadsFit

\* The uploads are where they were; no insert and no file of theirs is lost.
LEMMA UploadsStay ==
  ASSUME UploadsFit, UNCHANGED upload,
         \A u \in Uploads : \A a \in Addresses : reserved[a] = u => reserved'[a] = u,
         \A u \in Uploads \ Over : file[u] # Nothing => file'[u] # Nothing
  PROVE  UploadsFit' /\ Over' = Over
<1>1. Over' = Over
  BY DEF Over
<1>2. ASSUME NEW v \in Uploads PROVE UploadFits(v, upload'[v], Over', reserved', file')
  <2>1. UploadFits(v, upload[v], Over, reserved, file) /\ upload'[v] = upload[v]
    BY DEF UploadsFit
  <2>2. upload[v].at = "commit" => v \notin Over
    BY DEF Over
  <2>3. Active \subseteq Placed /\ "commit" \in Active
    BY DEF Active, AtFile, Placed
  <2> QED
    BY <1>1, <2>1, <2>2, <2>3 DEF UploadFits
<1> QED
  BY <1>1, <1>2 DEF UploadsFit

\* The rows are what they were, and so are their files.
LEMMA RowsStay ==
  ASSUME RowsStand, DoomedIsGone, UNCHANGED <<rows, doomed>>, Over \subseteq Over',
         \A i \in Uploads : file[i] # Nothing => file'[i] # Nothing,
         \A a \in Addresses : rows[a] # Nothing => rows[a].id \in Uploads
  PROVE  RowsStand' /\ DoomedIsGone'
  BY DEF RowsStand, DoomedIsGone

LEMMA LifeInit == V!InitObjects => LifeInv
<1> SUFFICES ASSUME V!InitObjects PROVE LifeInv
  OBVIOUS
<1>1. /\ DOMAIN upload = Uploads /\ \A u \in Uploads : upload[u].at = "new"
      /\ \A a \in Addresses : rows[a] = Nothing /\ reserved[a] = Nothing
      /\ doomed = {} /\ bucket = "none" /\ sweeping = FALSE
  BY DEF V!InitObjects, V!Init
<1>2. UploadsFit
  BY <1>1 DEF UploadsFit, UploadFits, Placed, Active, AtFile, Writing
<1>3. V!TypeOK
  BY DEF V!InitObjects, V!Init, V!TypeOK, V!PackageRows
<1> QED
  BY <1>1, <1>2, <1>3 DEF LifeInv, RowsStand, DoomedIsGone, BucketStands, V!Buckets

LEMMA BucketStays ==
  ASSUME BucketStands, UNCHANGED <<bucket, sweeping>>,
         \A a \in Addresses : reserved'[a] \in {reserved[a], Nothing} \/ bucket \in V!Buckets,
         \A a \in Addresses : rows'[a] \in {rows[a], Nothing} \/ bucket \in V!Buckets,
         bucket # "none" \/ \A u \in Uploads : upload'[u].at \in {"new", "over"}
  PROVE  BucketStands'
<1>1. bucket \in V!Buckets => bucket # "gone" /\ bucket # "none"
  BY DEF V!Buckets
<1> QED
  BY <1>1 DEF BucketStands

LEMMA LifeNext ==
  ASSUME ObjectsAssumption, LifeInv, [V!NextObjects]_V!objectVars
  PROVE  LifeInv'
<1>a. V!TypeOK /\ UploadsFit /\ RowsStand /\ DoomedIsGone /\ BucketStands
  BY DEF LifeInv
<1>b. /\ rows \in V!PackageRows /\ reserved \in [Addresses -> Uploads \union {Nothing}]
      /\ file \in [Uploads -> Uploads \union {Nothing}] /\ part \in [Uploads -> Uploads \union {Nothing}]
      /\ doomed \subseteq Uploads /\ crossed \subseteq Uploads /\ torn \subseteq Uploads
      /\ unwritten \subseteq Uploads
      /\ DOMAIN upload = Uploads
      /\ \A u \in Uploads : UploadFits(u, upload[u], Over, reserved, file)
  BY <1>a DEF V!TypeOK, UploadsFit
<1>c. \A a \in Addresses : rows[a] # Nothing => rows[a].id \in Uploads
  BY <1>b DEF V!PackageRows
<1>d. ASSUME NEW u \in Uploads, upload[u].at \notin {"new", "over"} PROVE bucket # "none"
  BY <1>a, <1>d DEF BucketStands
\* An upload moves on, and neither rows, reservations nor files change.
<1>e. ASSUME NEW u \in Uploads, NEW r, V!Step(u, r), upload[u].at # "over",
             UploadFits(u, r, Over', reserved, file), bucket # "none",
             UNCHANGED <<rows, reserved, file, doomed, bucket, sweeping>>, V!TypeOK'
      PROVE  LifeInv'
  <2>1. UploadsFit' /\ Over \subseteq Over'
    BY <1>a, <1>e, UploadGoesOn
  <2>2. RowsStand' /\ DoomedIsGone'
    BY <1>a, <1>c, <1>e, <2>1, RowsStay
  <2>3. BucketStands'
    BY <1>a, <1>e, BucketStays
  <2> QED
    BY <1>e, <2>1, <2>2, <2>3 DEF LifeInv
<1>f. ASSUME NEW u \in Uploads, V!Fails(u) PROVE UploadFits(u, [at |-> "over"], Over', reserved', file')
  BY DEF UploadFits, Placed, Active, AtFile, Writing
\* An upload fails and gives up what it reserved; no file is lost.
<1>g. ASSUME NEW u \in Uploads, upload[u].at \in Active, V!Fails(u), V!Release(u), V!TypeOK',
             UNCHANGED <<rows, file, doomed, bucket, sweeping>>
      PROVE  LifeInv'
  <2>1. reserved' = [a \in Addresses |-> IF reserved[a] = u THEN Nothing ELSE reserved[a]]
    BY <1>g DEF V!Release
  <2>2. upload[u].at \notin {"new", "over"}
    BY <1>g DEF Active, AtFile, Writing
  <2>3. UploadsFit' /\ Over \subseteq Over'
    <3>1. \A v \in Uploads \ {u} : \A a \in Addresses : reserved[a] = v => reserved'[a] = v
      BY <2>1
    <3>2. \A v \in Uploads \ Over : file[v] # Nothing => file'[v] # Nothing
      BY <1>g
    <3>3. V!Step(u, [at |-> "over"]) /\ UploadFits(u, [at |-> "over"], Over', reserved', file')
      BY <1>f, <1>g DEF V!Fails
    <3> QED
      BY <1>a, <2>2, <3>1, <3>2, <3>3, UploadGoesOn
  <2>4. RowsStand' /\ DoomedIsGone'
    BY <1>a, <1>c, <1>g, <2>3, RowsStay
  <2>5. BucketStands'
    <3>1. bucket # "none"
      BY <1>d, <2>2
    <3>2. \A a \in Addresses : reserved'[a] \in {reserved[a], Nothing}
      BY <2>1
    <3> QED
      BY <1>a, <1>g, <3>1, <3>2, BucketStays
  <2> QED
    BY <1>g, <2>3, <2>4, <2>5 DEF LifeInv
<1>1. ASSUME NEW access \in V!Buckets, V!CreateBucket(access) \/ V!SetAccess(access) PROVE LifeInv'
  <2>1. bucket' = access /\ bucket' \in V!Buckets /\ bucket' # "gone" /\ bucket' # "none" /\ bucket # "gone"
    BY <1>1 DEF V!CreateBucket, V!SetAccess, V!Buckets
  <2>2. UNCHANGED <<rows, reserved, file, part, doomed, crossed, torn, unwritten, upload, sweeping>>
    BY <1>1 DEF V!CreateBucket, V!SetAccess, V!fileVars, V!disk
  <2>3. UploadsFit' /\ Over' = Over
    BY <1>a, <2>2, UploadsStay
  <2>4. RowsStand' /\ DoomedIsGone'
    BY <1>a, <1>c, <2>2, <2>3, RowsStay
  <2>5. BucketStands'
    BY <1>a, <2>1, <2>2 DEF BucketStands
  <2> QED
    BY <1>a, <2>2, <2>3, <2>4, <2>5 DEF LifeInv, V!TypeOK
<1>2. ASSUME NEW u \in Uploads, NEW a \in Addresses, NEW c \in Contents, V!PutObject(u, a, c) PROVE LifeInv'
  <2>1. /\ upload[u].at = "new" /\ bucket \in V!Buckets
        /\ UNCHANGED <<rows, reserved, file, part, doomed, crossed, torn, unwritten, bucket, sweeping>>
    BY <1>2 DEF V!PutObject, V!FindRow, V!Stage, V!disk, V!tally
  <2>2. bucket # "none" /\ V!TypeOK'
    BY <1>a, <2>1 DEF V!Buckets, V!TypeOK
  <2>3. CASE rows[a] = Nothing
    <3> DEFINE r == [at |-> "insert", address |-> a, id |-> u, own |-> TRUE, sends |-> c, read |-> Nothing]
    <3>1. V!Step(u, r) /\ UploadFits(u, r, Over', reserved, file)
      BY <1>2, <2>3 DEF V!PutObject, V!FindRow, UploadFits, Placed, Active, AtFile, Writing
    <3> HIDE DEF r
    <3> QED
      BY <1>e, <2>1, <2>2, <3>1
  <2>4. CASE rows[a] # Nothing
    <3> DEFINE r == [at |-> "open", address |-> a, id |-> rows[a].id, own |-> FALSE, sends |-> c,
                   read |-> rows[a].digest]
    <3>1. V!Step(u, r)
      BY <1>2, <2>4 DEF V!PutObject, V!FindRow
    <3>2. rows[a].id \in Over /\ rows[a].id \in Uploads /\ u \notin Over
      BY <1>a, <1>c, <2>1, <2>4 DEF RowsStand, Over
    <3>3. rows[a].id \in Over'
      BY <1>b, <3>1, <3>2, UploadMoves DEF Over
    <3>4. UploadFits(u, r, Over', reserved, file)
      BY <3>2, <3>3 DEF UploadFits, Placed, Active, AtFile, Writing
    <3> HIDE DEF r
    <3> QED
      BY <1>e, <2>1, <2>2, <3>1, <3>4
  <2> QED
    BY <2>3, <2>4
<1>3. ASSUME NEW u \in Uploads, V!FlushObject(u) PROVE LifeInv'
  <2>1. /\ upload[u].at = "insert"
        /\ UNCHANGED <<rows, file, part, doomed, crossed, torn, unwritten, bucket, sweeping>>
    BY <1>3 DEF V!FlushObject, V!FlushRow, V!Stage, V!disk, V!tally
  <2>2. /\ upload[u].address \in Addresses /\ upload[u].id = u /\ upload[u].own /\ bucket # "none"
        /\ upload[u].sends \in Contents /\ upload[u].read = Nothing
    BY <1>b, <1>d, <2>1 DEF UploadFits, Placed
  <2>3. CASE V!Fails(u) /\ UNCHANGED reserved
    <3>1. V!Step(u, [at |-> "over"]) /\ UploadFits(u, [at |-> "over"], Over', reserved, file) /\ V!TypeOK'
      BY <1>a, <1>f, <2>1, <2>3 DEF V!Fails, V!TypeOK
    <3> QED
      BY <1>e, <2>1, <2>2, <2>3, <3>1
  <2>4. CASE /\ reserved' = [reserved EXCEPT ![upload[u].address] = u] /\ bucket \in V!Buckets
             /\ reserved[upload[u].address] = Nothing
             /\ V!Step(u, [upload[u] EXCEPT !.at = "open"])
    <3> DEFINE r == [upload[u] EXCEPT !.at = "open"]
    <3>1. /\ r.at = "open" /\ r.address = upload[u].address /\ r.id = u /\ r.own /\ V!Step(u, r)
          /\ r.sends = upload[u].sends /\ r.read = upload[u].read
      BY <2>2, <2>4
    <3> HIDE DEF r
    <3>2. UploadFits(u, r, Over', reserved', file')
      BY <1>b, <2>2, <2>4, <3>1 DEF UploadFits, Placed, Active, AtFile, Writing
    <3>3. \A v \in Uploads \ {u} : \A a \in Addresses : reserved[a] = v => reserved'[a] = v
      BY <1>b, <2>4 DEF ObjectsAssumption
    <3>4. UploadsFit' /\ Over \subseteq Over'
      BY <1>a, <2>1, <3>1, <3>2, <3>3, UploadGoesOn
    <3>5. RowsStand' /\ DoomedIsGone'
      BY <1>a, <1>c, <2>1, <3>4, RowsStay
    <3>6. BucketStands'
      BY <1>a, <2>1, <2>2, <2>4, BucketStays
    <3>7. V!TypeOK'
      BY <1>a, <1>b, <2>1, <2>2, <2>4 DEF V!TypeOK
    <3> QED
      BY <3>4, <3>5, <3>6, <3>7 DEF LifeInv
  <2> QED
    <3>1. CASE bucket \in V!Buckets /\ V!FlushRow(u) /\ rows[upload[u].address] = Nothing
      BY <2>4, <3>1 DEF V!FlushRow, V!Address
    <3>2. CASE bucket \in V!Buckets /\ V!FlushRow(u) /\ rows[upload[u].address] # Nothing
      BY <2>3, <3>2 DEF V!FlushRow, V!Address
    <3>3. CASE V!Fails(u) /\ UNCHANGED reserved
      BY <2>3, <3>3
    <3> QED
      BY <1>3, <3>1, <3>2, <3>3 DEF V!FlushObject
<1>4. ASSUME NEW u \in Uploads, V!OpenPart(u), UNCHANGED <<bucket, sweeping>> PROVE LifeInv'
  <2> DEFINE i == IF part[upload[u].id] = Nothing THEN u ELSE part[upload[u].id]
             r == [at |-> "one", address |-> upload[u].address, id |-> upload[u].id,
                   own |-> upload[u].own, sends |-> upload[u].sends, read |-> upload[u].read,
                   handle |-> i]
  <2>1. /\ upload[u].at = "open" /\ part' = [part EXCEPT ![upload[u].id] = i] /\ V!Step(u, r)
        /\ crossed' \in {crossed, crossed \union {upload[u].id}}
        /\ UNCHANGED <<rows, reserved, file, doomed, torn, unwritten>>
    BY <1>4 DEF V!OpenPart, V!Opened, V!Stage, V!Id, V!Address
  <2>2. UploadFits(u, upload[u], Over, reserved, file) /\ "open" \in Active /\ "open" \in Placed
    BY <1>b DEF Placed, Active
  <2>3. upload[u].id \in Uploads /\ bucket # "none"
    BY <1>d, <2>1, <2>2 DEF UploadFits
  <2>4. i \in Uploads
    BY <1>b, <2>3
  <2>5. Over \subseteq Over'
    BY <1>b, <2>1, UploadMoves DEF Over
  <2>6. UploadFits(u, r, Over', reserved, file)
    BY <2>1, <2>2, <2>4, <2>5 DEF UploadFits, Placed, Active, AtFile, Writing
  <2>7. V!TypeOK'
    BY <1>a, <1>b, <2>1, <2>3, <2>4 DEF V!TypeOK
  <2> HIDE DEF r, i
  <2> QED
    BY <1>4, <1>e, <2>1, <2>3, <2>6, <2>7
<1>5. ASSUME NEW u \in Uploads, V!WriteChunk(u), UNCHANGED <<bucket, sweeping>> PROVE LifeInv'
  <2> DEFINE r == [upload[u] EXCEPT !.at = IF upload[u].at = "one" THEN "two" ELSE "place"]
  <2>1. /\ upload[u].at \in {"one", "two"} /\ V!Step(u, r)
        /\ UNCHANGED <<rows, reserved, file, part, doomed, crossed, torn, unwritten>>
    BY <1>5 DEF V!WriteChunk, V!Stage, V!tally
  <2>2. /\ r.at \in {"two", "place"} /\ r.address = upload[u].address /\ r.id = upload[u].id
        /\ r.own = upload[u].own /\ r.handle = upload[u].handle
        /\ r.sends = upload[u].sends /\ r.read = upload[u].read
    OBVIOUS
  <2> HIDE DEF r
  <2>3. UploadFits(u, upload[u], Over, reserved, file) /\ bucket # "none"
    BY <1>b, <1>d, <2>1
  <2>4. Over \subseteq Over'
    BY <1>b, <2>1, UploadMoves DEF Over
  <2>5. UploadFits(u, r, Over', reserved, file)
    BY <2>1, <2>2, <2>3, <2>4 DEF UploadFits, Placed, Active, AtFile, Writing
  <2>6. V!TypeOK'
    BY <1>a, <2>1 DEF V!TypeOK
  <2> QED
    BY <1>5, <1>e, <2>1, <2>3, <2>5, <2>6
<1>6. ASSUME NEW u \in Uploads, V!BreakOff(u), UNCHANGED <<bucket, sweeping>> PROVE LifeInv'
  <2>1. /\ upload[u].at \in Active /\ V!Fails(u) /\ V!Release(u)
        /\ UNCHANGED <<rows, file, doomed, crossed, torn, unwritten>>
    BY <1>6 DEF V!BreakOff, V!Stage, V!tally, Active, AtFile, Writing
  <2>2. V!TypeOK'
    BY <1>a, <1>b, <1>6, <2>1 DEF V!TypeOK, V!BreakOff, V!Release
  <2> QED
    BY <1>6, <1>g, <2>1, <2>2
<1>7. ASSUME NEW u \in Uploads, V!Place(u), UNCHANGED <<bucket, sweeping>> PROVE LifeInv'
  <2>1. /\ upload[u].at = "place" /\ upload[u].at \in Active
        /\ UNCHANGED <<rows, doomed, crossed, unwritten>>
    BY <1>7 DEF V!Place, V!Stage, Active, AtFile, Writing
  <2>2. UploadFits(u, upload[u], Over, reserved, file) /\ upload[u].id \in Uploads /\ bucket # "none"
    BY <1>b, <1>d, <2>1 DEF UploadFits, Placed
  <2>3. CASE part[upload[u].id] = Nothing
    <3>1. V!Fails(u) /\ V!Release(u) /\ UNCHANGED <<file, part, torn, unwritten>>
      BY <1>7, <2>3 DEF V!Place, V!Id
    <3>2. V!TypeOK'
      BY <1>a, <1>b, <2>1, <3>1 DEF V!TypeOK, V!Release
    <3> QED
      BY <1>7, <1>g, <2>1, <3>1, <3>2
  <2>4. CASE part[upload[u].id] # Nothing
    <3> DEFINE r == [upload[u] EXCEPT !.at = "commit"]
    <3>1. /\ file' = [file EXCEPT ![upload[u].id] = part[upload[u].id]]
          /\ part' = [part EXCEPT ![upload[u].id] = Nothing]
          /\ torn' = torn \union {upload[u].id} /\ V!Step(u, r) /\ UNCHANGED reserved
      BY <1>7, <2>4 DEF V!Place, V!Id
    <3>2. /\ r.at = "commit" /\ r.address = upload[u].address /\ r.id = upload[u].id
          /\ r.own = upload[u].own /\ r.handle = upload[u].handle
          /\ r.sends = upload[u].sends /\ r.read = upload[u].read
      OBVIOUS
    <3> HIDE DEF r
    <3>3. \A j \in Uploads : file[j] # Nothing => file'[j] # Nothing
      BY <1>b, <2>4, <3>1
    <3>4. Over \subseteq Over'
      BY <1>b, <2>1, <3>1, UploadMoves DEF Over
    <3>5. r.own => file'[u] # Nothing
      BY <1>b, <2>1, <2>2, <2>4, <3>1, <3>2 DEF UploadFits, Placed
    <3>6. UploadFits(u, r, Over', reserved', file')
      BY <2>1, <2>2, <3>1, <3>2, <3>4, <3>5 DEF UploadFits, Placed, Active, AtFile, Writing
    <3>7. UploadsFit'
      BY <1>a, <2>1, <3>1, <3>3, <3>6, UploadGoesOn
    <3>8. RowsStand' /\ DoomedIsGone'
      BY <1>a, <1>c, <2>1, <3>3, <3>4, RowsStay
    <3>9. BucketStands'
      BY <1>a, <1>7, <2>1, <2>2, <3>1, BucketStays
    <3>10. V!TypeOK'
      BY <1>a, <1>b, <2>1, <2>2, <3>1 DEF V!TypeOK
    <3> QED
      BY <3>7, <3>8, <3>9, <3>10 DEF LifeInv
  <2> QED
    BY <2>3, <2>4
<1>8. ASSUME NEW u \in Uploads, V!CommitRow(u), UNCHANGED <<bucket, sweeping>> PROVE LifeInv'
  <2> DEFINE a == upload[u].address
             i == upload[u].id
             rec == [id |-> i, digest |-> upload[u].sends]
  <2>1. /\ upload[u].at = "commit" /\ upload[u].at \in Active /\ V!Fails(u) /\ V!Release(u)
        /\ UNCHANGED <<file, part, doomed, crossed>>
    BY <1>8 DEF V!CommitRow, V!Stage, V!disk, Active, AtFile, Writing
  <2>2. /\ a \in Addresses /\ i \in Uploads /\ bucket # "none" /\ u \notin Over
        /\ upload[u].own => i = u /\ reserved[a] = u /\ file[u] # Nothing
        /\ ~upload[u].own => i \in Over
        /\ upload[u].sends \in Contents /\ (upload[u].own => upload[u].read = Nothing)
    BY <1>b, <1>d, <2>1 DEF UploadFits, Placed, Over
  \* The row was deleted meanwhile, or there is nothing to write into it.
  <2>3. CASE \/ ~(upload[u].own \/ (rows[a] # Nothing /\ rows[a].id = i))
             \/ upload[u].read = upload[u].sends
    <3>1. /\ rows' = rows /\ torn' \in {torn, torn \ {i}}
          /\ unwritten' \in {unwritten, unwritten \union {i}, unwritten \ {i}}
      BY <1>8, <2>3 DEF V!CommitRow, V!Address, V!Id
    <3>2. V!TypeOK'
      BY <1>a, <1>b, <2>1, <2>2, <3>1 DEF V!TypeOK, V!Release
    <3> QED
      BY <1>8, <1>g, <2>1, <3>1, <3>2
  <2>4. CASE /\ upload[u].own \/ (rows[a] # Nothing /\ rows[a].id = i)
             /\ upload[u].read # upload[u].sends
    <3>1. /\ rows' = [rows EXCEPT ![a] = rec] /\ torn' = torn \ {i} /\ unwritten' = unwritten \ {i}
          /\ reserved' = [b \in Addresses |-> IF reserved[b] = u THEN Nothing ELSE reserved[b]]
      BY <1>8, <2>1, <2>4 DEF V!CommitRow, V!Address, V!Id, V!Release
    <3>2. rec.id = i /\ rec \in [id : Uploads, digest : Contents]
      BY <2>2
    <3> HIDE DEF rec
    <3>3. V!TypeOK'
      BY <1>a, <1>b, <2>1, <3>1, <3>2 DEF V!TypeOK, V!PackageRows
    <3>4. rows'[a] = rec /\ \A b \in Addresses \ {a} : rows'[b] = rows[b]
      BY <1>b, <2>2, <3>1 DEF V!PackageRows
    <3>5. UploadsFit' /\ Over \subseteq Over'
      <4>1. \A v \in Uploads \ {u} : \A b \in Addresses : reserved[b] = v => reserved'[b] = v
        BY <3>1
      <4>2. V!Step(u, [at |-> "over"]) /\ UploadFits(u, [at |-> "over"], Over', reserved', file')
        BY <1>f, <2>1 DEF V!Fails
      <4> QED
        BY <1>a, <2>1, <4>1, <4>2, UploadGoesOn
    <3>6. i \in Over' /\ file[i] # Nothing
      <4>1. u \in Over'
        BY <1>b, <2>1, UploadMoves DEF V!Fails, Over
      <4> QED
        BY <1>a, <2>2, <2>4, <3>5, <4>1 DEF RowsStand
    <3>7. \A b \in Addresses \ {a} : rows[b] # Nothing => rows[b].id # i
      BY <1>a, <2>2, <2>4 DEF RowsStand
    <3>8. RowsStand'
      <4>1. ASSUME NEW b \in Addresses, rows'[b] # Nothing
            PROVE  rows'[b].id \in Over' /\ file'[rows'[b].id] # Nothing
        <5>1. CASE b = a
          BY <2>1, <3>2, <3>4, <3>6, <5>1
        <5>2. CASE b # a
          BY <1>a, <2>1, <3>4, <3>5, <4>1, <5>2 DEF RowsStand
        <5> QED
          BY <5>1, <5>2
      <4>2. ASSUME NEW b \in Addresses, NEW d \in Addresses,
                   rows'[b] # Nothing, rows'[d] # Nothing, rows'[b].id = rows'[d].id
            PROVE  b = d
        BY <1>a, <3>2, <3>4, <3>7, <4>2 DEF RowsStand
      <4> QED
        BY <4>1, <4>2 DEF RowsStand
    <3>9. DoomedIsGone'
      <4>1. i \notin doomed
        BY <1>a, <2>2, <2>4 DEF DoomedIsGone
      <4>2. ASSUME NEW j \in doomed, NEW b \in Addresses, rows'[b] # Nothing PROVE rows'[b].id # j
        <5>1. CASE b = a
          BY <3>2, <3>4, <4>1, <5>1
        <5>2. CASE b # a
          BY <1>a, <3>4, <4>2, <5>2 DEF DoomedIsGone
        <5> QED
          BY <5>1, <5>2
      <4> QED
        BY <1>a, <2>1, <3>5, <4>2 DEF DoomedIsGone
    <3>10. BucketStands'
      <4>1. bucket \in V!Buckets
        BY <1>a, <2>2, <2>4 DEF BucketStands, ObjectsAssumption
      <4> QED
        BY <1>8, <1>a, <2>2, <4>1, BucketStays
    <3> QED
      BY <3>3, <3>5, <3>8, <3>9, <3>10 DEF LifeInv
  <2> QED
    BY <2>3, <2>4
<1>9. ASSUME NEW a \in Addresses, V!DeleteObject(a) PROVE LifeInv'
  <2>1. /\ rows[a] # Nothing /\ bucket \in V!Buckets
        /\ doomed' = doomed \union {rows[a].id} /\ rows' = [rows EXCEPT ![a] = Nothing]
        /\ UNCHANGED <<reserved, file, part, upload, crossed, torn, unwritten, bucket, sweeping>>
    BY <1>9 DEF V!DeleteObject, V!DeletePackage, V!disk, V!tally
  <2>2. rows'[a] = Nothing /\ \A b \in Addresses \ {a} : rows'[b] = rows[b]
    BY <1>b, <2>1 DEF V!PackageRows
  <2>3. UploadsFit' /\ Over' = Over
    BY <1>a, <2>1, UploadsStay
  <2>4. RowsStand' /\ DoomedIsGone'
    BY <1>a, <2>1, <2>2, <2>3 DEF RowsStand, DoomedIsGone
  <2>5. bucket # "none"
    BY <2>1 DEF V!Buckets
  <2>6. BucketStands'
    BY <1>a, <2>1, <2>5, BucketStays
  <2>7. V!TypeOK'
    BY <1>a, <1>b, <1>c, <2>1 DEF V!TypeOK, V!PackageRows
  <2> QED
    BY <2>3, <2>4, <2>6, <2>7 DEF LifeInv
<1>10. ASSUME NEW i \in Uploads, V!Unlink(i), UNCHANGED <<bucket, sweeping>> PROVE LifeInv'
  <2>1. /\ i \in doomed /\ doomed' = doomed \ {i} /\ file' = [file EXCEPT ![i] = Nothing]
        /\ UNCHANGED <<rows, reserved, part, upload, crossed, torn, unwritten>>
    BY <1>10 DEF V!Unlink, V!tally
  <2>2. i \in Over /\ \A j \in Uploads \ {i} : file'[j] = file[j]
    BY <1>a, <1>b, <2>1 DEF DoomedIsGone
  <2>3. UploadsFit' /\ Over' = Over
    BY <1>a, <2>1, <2>2, UploadsStay
  <2>4. RowsStand' /\ DoomedIsGone'
    BY <1>a, <1>c, <2>1, <2>2, <2>3 DEF RowsStand, DoomedIsGone
  <2>5. BucketStands'
    BY <1>10, <1>a, <2>1 DEF BucketStands
  <2>6. V!TypeOK'
    BY <1>a, <1>b, <2>1 DEF V!TypeOK
  <2> QED
    BY <2>3, <2>4, <2>5, <2>6 DEF LifeInv
<1>11. ASSUME V!DeleteBucket PROVE LifeInv'
  <2>1. /\ bucket \in V!Buckets /\ \A a \in Addresses : reserved[a] = Nothing
        /\ bucket' = "gone" /\ sweeping' = TRUE /\ rows' = [a \in Addresses |-> Nothing]
        /\ UNCHANGED <<reserved, file, part, upload, doomed, crossed, torn, unwritten>>
    BY <1>11 DEF V!DeleteBucket, V!disk, V!tally
  <2>2. UploadsFit' /\ Over' = Over
    BY <1>a, <2>1, UploadsStay
  <2>3. RowsStand' /\ DoomedIsGone'
    BY <1>a, <2>1, <2>2 DEF RowsStand, DoomedIsGone
  <2>4. BucketStands'
    BY <2>1 DEF BucketStands
  <2>5. V!TypeOK'
    BY <1>a, <2>1 DEF V!TypeOK, V!PackageRows
  <2> QED
    BY <2>2, <2>3, <2>4, <2>5 DEF LifeInv
<1>12. ASSUME V!RemoveFolder PROVE LifeInv'
  <2>1. /\ sweeping /\ sweeping' = FALSE
        /\ file' = [i \in Uploads |-> Nothing] /\ part' = [i \in Uploads |-> Nothing]
        /\ UNCHANGED <<rows, reserved, upload, doomed, crossed, torn, unwritten, bucket>>
    BY <1>12 DEF V!RemoveFolder, V!tally
  <2>2. /\ bucket = "gone" /\ bucket \notin V!Buckets /\ \A a \in Addresses : rows[a] = Nothing
        /\ \A a \in Addresses : reserved[a] = Nothing
    BY <1>a, <2>1 DEF BucketStands, V!Buckets
  <2>3. Over' = Over
    BY <2>1 DEF Over
  <2>4. UploadsFit'
    <3>1. ASSUME NEW u \in Uploads PROVE UploadFits(u, upload[u], Over, reserved, file')
      <4>1. UploadFits(u, upload[u], Over, reserved, file)
        BY <1>b
      <4>2. ~(upload[u].at = "commit" /\ upload[u].own)
        BY <2>2, <4>1 DEF UploadFits, Placed, Active, AtFile, ObjectsAssumption
      <4> QED
        BY <4>1, <4>2 DEF UploadFits
    <3> QED
      BY <1>b, <2>1, <2>3, <3>1 DEF UploadsFit
  <2>5. RowsStand' /\ DoomedIsGone'
    BY <1>a, <2>1, <2>2, <2>3 DEF RowsStand, DoomedIsGone
  <2>6. BucketStands'
    BY <1>a, <2>1, <2>2 DEF BucketStands
  <2>7. V!TypeOK'
    BY <1>a, <2>1 DEF V!TypeOK
  <2> QED
    BY <2>4, <2>5, <2>6, <2>7 DEF LifeInv
<1>13. ASSUME V!ServerStops PROVE LifeInv'
  <2>1. /\ upload' = [u \in Uploads |-> IF upload[u].at = "new" THEN upload[u] ELSE [at |-> "over"]]
        /\ reserved' = [a \in Addresses |-> Nothing] /\ doomed' = {} /\ sweeping' = FALSE
        /\ UNCHANGED <<rows, file, part, crossed, torn, unwritten, bucket>>
    BY <1>13 DEF V!ServerStops, V!Cut, V!Stage, V!disk
  <2>2. DOMAIN upload' = Uploads /\ \A u \in Uploads : upload'[u].at \in {"new", "over"}
    BY <2>1
  <2>3. Over \subseteq Over'
    BY <2>1 DEF Over
  <2>4. UploadsFit'
    BY <2>2 DEF UploadsFit, UploadFits, Placed, Active, AtFile, Writing
  <2>5. RowsStand' /\ DoomedIsGone'
    BY <1>a, <2>1, <2>3 DEF RowsStand, DoomedIsGone
  <2>6. BucketStands'
    BY <1>a, <2>1, <2>2 DEF BucketStands
  <2>7. V!TypeOK'
    BY <1>a, <2>1 DEF V!TypeOK
  <2> QED
    BY <2>4, <2>5, <2>6, <2>7 DEF LifeInv
<1>14. ASSUME UNCHANGED V!objectVars PROVE LifeInv'
  <2>1. UNCHANGED <<rows, reserved, file, part, upload, doomed, crossed, torn, unwritten, bucket, sweeping>>
    BY <1>14 DEF V!objectVars, V!fileVars, V!disk
  <2>2. UploadsFit' /\ Over' = Over
    BY <1>a, <2>1, UploadsStay
  <2> QED
    BY <1>a, <2>1, <2>2 DEF LifeInv, V!TypeOK, RowsStand, DoomedIsGone, BucketStands
<1>15. ASSUME NEW u \in Uploads, V!WriteObject(u) PROVE LifeInv'
  BY <1>4, <1>5, <1>6, <1>7, <1>8, <1>15 DEF V!WriteObject
<1> QED
  BY <1>1, <1>2, <1>3, <1>9, <1>10, <1>11, <1>12, <1>13, <1>14, <1>15 DEF V!NextObjects

(* RowsHaveFiles: what a row names is on disk, whatever upload, deletion,  *)
(* removal of the bucket or restart came between its steps                 *)
(* (storage/service.py, artifacts/service.py find_package).                *)
THEOREM RowsAreServed ==
  ASSUME ObjectsAssumption
  PROVE  V!ObjectsSpec => [](V!ObjectsTypeOK /\ V!RowsHaveFiles)
<1>1. LifeInv => V!ObjectsTypeOK /\ V!RowsHaveFiles
  BY DEF LifeInv, RowsStand, BucketStands, V!ObjectsTypeOK, V!RowsHaveFiles, V!find_package
<1>2. V!InitObjects => LifeInv
  BY LifeInit
<1>3. LifeInv /\ [V!NextObjects]_V!objectVars => LifeInv'
  BY LifeNext
<1> QED
  BY <1>1, <1>2, <1>3, PTL DEF V!ObjectsSpec

-----------------------------------------------------------------------------
(* What is in the files of a bucket.                                       *)

Early  == {"new", "insert", "open"}
Pieces == Contents \union {Nothing}

\* Inode j serves identifier i: as its file, as its staging file, or in the
\* hands of an upload that writes.
Uses(i, j) == \/ file[i] = j \/ part[i] = j
              \/ \E v \in Uploads : /\ upload[v].at \in Writing
                                   /\ upload[v].id = i /\ upload[v].handle = j

\* No inode serves two identifiers, none is used before its upload opens a file,
\* and what is staged is not what is served.
Inodes ==
    /\ inode \in [Uploads -> Pieces \X Pieces]
    /\ \A i, k, j \in Uploads : Uses(i, j) /\ Uses(k, j) => i = k
    /\ \A u \in Uploads : upload[u].at \in Early => \A i \in Uploads : ~Uses(i, u)
    /\ \A i \in Uploads : part[i] # Nothing => part[i] # file[i]

\* An upload that writes alone has written into the staging file, and only it.
WritesWell(u) ==
    LET i == upload[u].id
        h == upload[u].handle
        c == upload[u].sends
    IN  /\ upload[u].at \in Writing => h # file[i] /\ part[i] \in {h, Nothing}
        /\ upload[u].at = "two" => inode[h][1] = c
        /\ upload[u].at = "place" => inode[h] = <<c, c>>
        /\ upload[u].at = "commit" => file[i] = Nothing \/ inode[file[i]] = <<c, c>>

Writers == \A u \in Uploads : upload[u].at \in AtFile /\ upload[u].id \notin crossed =>
    /\ WritesWell(u)
    /\ \A v \in Uploads : upload[v].at \in AtFile /\ upload[v].id = upload[u].id => v = u

Told == \A a \in Addresses : rows[a] # Nothing =>
    \/ rows[a].id \in crossed \union torn \union unwritten
    \/ inode[file[rows[a].id]] = <<rows[a].digest, rows[a].digest>>

ContentInv == LifeInv /\ Inodes /\ Writers /\ Told

\* What a step may do that writes nothing: files and staging files go, uploads
\* stop or go on to a step at which they hold no file yet.
Quiet ==
    /\ UNCHANGED <<inode, crossed>>
    /\ \A i \in Uploads : file'[i] \in {file[i], Nothing} /\ part'[i] \in {part[i], Nothing}
    /\ \A u \in Uploads : upload'[u].at \in AtFile => upload'[u] = upload[u]
    /\ \A u \in Uploads : upload'[u].at \in Early => upload[u].at \in Early

LEMMA QuietKeepsInodes ==
  ASSUME ObjectsAssumption, Inodes, Quiet PROVE Inodes'
<1>1. ASSUME NEW i \in Uploads, NEW j \in Uploads, Uses(i, j)' PROVE Uses(i, j)
  <2>1. j # Nothing
    BY DEF ObjectsAssumption
  <2>2. Writing \subseteq AtFile
    BY DEF AtFile
  <2> QED
    BY <1>1, <2>1, <2>2 DEF Uses, Quiet
<1>2. \A i \in Uploads : part'[i] # Nothing => part'[i] # file'[i]
  BY DEF Inodes, Quiet
<1>3. \A i, k, j \in Uploads : Uses(i, j)' /\ Uses(k, j)' => i = k
  BY <1>1 DEF Inodes
<1>4. \A u \in Uploads : upload'[u].at \in Early => \A i \in Uploads : ~Uses(i, u)'
  BY <1>1 DEF Inodes, Quiet
<1>5. inode' \in [Uploads -> Pieces \X Pieces]
  BY DEF Inodes, Quiet
<1> QED
  BY <1>2, <1>3, <1>4, <1>5 DEF Inodes

LEMMA QuietKeepsWriters ==
  ASSUME ObjectsAssumption, LifeInv, Writers, Quiet PROVE Writers'
<1> SUFFICES ASSUME NEW u \in Uploads, upload'[u].at \in AtFile, upload'[u].id \notin crossed'
             PROVE  /\ WritesWell(u)'
                    /\ \A v \in Uploads : upload'[v].at \in AtFile /\ upload'[v].id = upload'[u].id => v = u
  BY DEF Writers
<1>1. upload'[u] = upload[u] /\ upload[u].at \in AtFile /\ upload[u].id \notin crossed
  BY DEF Quiet
<1>2. /\ WritesWell(u)
      /\ \A v \in Uploads : upload[v].at \in AtFile /\ upload[v].id = upload[u].id => v = u
  BY <1>1 DEF Writers
<1>3. upload[u].id \in Uploads /\ upload[u].handle \in Uploads
  BY <1>1 DEF LifeInv, UploadsFit, UploadFits, Placed, Active
<1>4. upload[u].handle # Nothing
  BY <1>3 DEF ObjectsAssumption
<1>5. /\ file'[upload[u].id] \in {file[upload[u].id], Nothing}
      /\ part'[upload[u].id] \in {part[upload[u].id], Nothing} /\ inode' = inode
  BY <1>3 DEF Quiet
<1>6. WritesWell(u)'
  BY <1>1, <1>2, <1>4, <1>5 DEF WritesWell
<1>7. \A v \in Uploads : upload'[v].at \in AtFile /\ upload'[v].id = upload'[u].id => v = u
  BY <1>1, <1>2 DEF Quiet
<1> QED
  BY <1>6, <1>7

\* A row that is there keeps what it says, and its file what it holds.
LEMMA TellsOn ==
  ASSUME LifeInv, LifeInv', Told, crossed \subseteq crossed', torn \subseteq torn', unwritten \subseteq unwritten',
         \A a \in Addresses : rows'[a] \in {rows[a], Nothing},
         \A a \in Addresses : rows[a] # Nothing /\ rows[a].id \notin crossed' \union torn' \union unwritten' =>
             LET i == rows[a].id
             IN  file'[i] \in {file[i], Nothing} /\ inode'[file[i]] = inode[file[i]]
  PROVE  Told'
<1> SUFFICES ASSUME NEW a \in Addresses, rows'[a] # Nothing, rows'[a].id \notin crossed' \union torn' \union unwritten'
             PROVE  inode'[file'[rows'[a].id]] = <<rows'[a].digest, rows'[a].digest>>
  BY DEF Told
<1>1. rows'[a] = rows[a] /\ rows[a] # Nothing
  OBVIOUS
<1>2. file'[rows[a].id] # Nothing
  BY <1>1 DEF LifeInv, RowsStand
<1>3. file'[rows[a].id] = file[rows[a].id] /\ inode'[file[rows[a].id]] = inode[file[rows[a].id]]
  BY <1>1, <1>2
<1>4. inode[file[rows[a].id]] = <<rows[a].digest, rows[a].digest>>
  BY <1>1 DEF Told
<1> QED
  BY <1>1, <1>3, <1>4

LEMMA QuietTellsOn ==
  ASSUME LifeInv, LifeInv', Told, Quiet, torn \subseteq torn', unwritten \subseteq unwritten',
         \A a \in Addresses : rows'[a] \in {rows[a], Nothing}
  PROVE  Told'
<1>1. \A a \in Addresses : rows[a] # Nothing => rows[a].id \in Uploads
  BY DEF LifeInv, V!TypeOK, V!PackageRows
<1> QED
  BY <1>1, TellsOn DEF Quiet

LEMMA ContentInit == ObjectsAssumption /\ V!InitObjects => ContentInv
<1> SUFFICES ASSUME ObjectsAssumption, V!InitObjects PROVE ContentInv
  OBVIOUS
<1>1. /\ \A u \in Uploads : upload[u].at = "new" /\ file[u] = Nothing /\ part[u] = Nothing
      /\ \A a \in Addresses : rows[a] = Nothing
      /\ inode = [i \in Uploads |-> <<Nothing, Nothing>>]
  BY DEF V!InitObjects, V!Init, V!Empty
<1>2. inode \in [Uploads -> Pieces \X Pieces]
  BY <1>1 DEF Pieces
<1>3. \A i, j \in Uploads : ~Uses(i, j)
  BY <1>1 DEF Uses, Writing, ObjectsAssumption
<1> QED
  BY <1>1, <1>2, <1>3, LifeInit DEF ContentInv, Inodes, Writers, Told, AtFile, Writing

\* An inode that upload u opens is in nobody else's hands, and not served.
LEMMA OpenedIsOurs ==
  ASSUME ObjectsAssumption, Inodes, NEW u \in Uploads, upload[u].at = "open",
         NEW k \in Uploads, part[k] \in Uploads \union {Nothing},
         NEW h, h = IF part[k] = Nothing THEN u ELSE part[k]
  PROVE  /\ \A i \in Uploads : Uses(i, h) => i = k
         /\ \A i \in Uploads : file[i] # h
         /\ \A v \in Uploads : upload[v].at \in Early /\ v # u => v # h
<1>1. CASE part[k] = Nothing
  BY <1>1 DEF Inodes, Early, Uses
<1>2. CASE part[k] # Nothing /\ part[k] \in Uploads
  <2>1. Uses(k, h)
    BY <1>2 DEF Uses
  <2>2. ASSUME NEW i \in Uploads, file[i] = h PROVE FALSE
    <3>1. Uses(i, h)
      BY <2>2 DEF Uses
    <3>2. i = k
      BY <1>2, <2>1, <3>1 DEF Inodes
    <3> QED
      BY <1>2, <2>2, <3>2 DEF Inodes
  <2> QED
    BY <1>2, <2>1, <2>2 DEF Inodes
<1> QED
  BY <1>1, <1>2

LEMMA OpenKeepsContents ==
  ASSUME ObjectsAssumption, ContentInv, LifeInv', NEW u \in Uploads, V!OpenPart(u)
  PROVE  ContentInv'
<1> DEFINE k == upload[u].id
           h == IF part[k] = Nothing THEN u ELSE part[k]
           r == [at |-> "one", address |-> upload[u].address, id |-> k, own |-> upload[u].own,
                 sends |-> upload[u].sends, read |-> upload[u].read, handle |-> h]
<1>a. LifeInv /\ Inodes /\ Writers /\ Told
  BY DEF ContentInv
<1>b. /\ part \in [Uploads -> Uploads \union {Nothing}] /\ file \in [Uploads -> Uploads \union {Nothing}]
      /\ inode \in [Uploads -> Pieces \X Pieces] /\ DOMAIN upload = Uploads
  BY <1>a DEF LifeInv, V!TypeOK, UploadsFit, Inodes
<1>1. /\ upload[u].at = "open" /\ part' = [part EXCEPT ![k] = h] /\ inode' = [inode EXCEPT ![h] = V!Empty]
      /\ V!Step(u, r) /\ crossed' = (IF V!Others(u) = {} THEN crossed ELSE crossed \union {k})
      /\ UNCHANGED <<rows, file, torn, unwritten>>
  BY DEF V!OpenPart, V!Opened, V!Stage, V!Id, V!Address
<1>2. k \in Uploads /\ h \in Uploads
  BY <1>a, <1>b, <1>1 DEF LifeInv, UploadsFit, UploadFits, Placed, Active
<1>3. /\ \A i \in Uploads : Uses(i, h) => i = k
      /\ \A i \in Uploads : file[i] # h
      /\ \A v \in Uploads : upload[v].at \in Early /\ v # u => v # h
  BY <1>a, <1>b, <1>1, <1>2, OpenedIsOurs
<1>4. r.at = "one" /\ r.id = k /\ r.handle = h
  OBVIOUS
<1>5. upload'[u] = r /\ \A v \in Uploads \ {u} : upload'[v] = upload[v]
  BY <1>b, <1>1, UploadMoves
<1> HIDE DEF h, r
<1>6. /\ part'[k] = h /\ \A i \in Uploads \ {k} : part'[i] = part[i]
      /\ V!Empty \in Pieces \X Pieces /\ inode' \in [Uploads -> Pieces \X Pieces]
      /\ \A j \in Uploads \ {h} : inode'[j] = inode[j]
  BY <1>b, <1>1, <1>2 DEF V!Empty, Pieces
<1>7. \A i, j \in Uploads : Uses(i, j)' => Uses(i, j) \/ (i = k /\ j = h)
  BY <1>1, <1>2, <1>4, <1>5, <1>6 DEF Uses
<1>8. Inodes'
  <2>1. \A i, g, j \in Uploads : Uses(i, j)' /\ Uses(g, j)' => i = g
    BY <1>a, <1>3, <1>7 DEF Inodes
  <2>2. ASSUME NEW v \in Uploads, upload'[v].at \in Early, NEW i \in Uploads, Uses(i, v)' PROVE FALSE
    <3>1. v # u /\ upload[v].at \in Early
      BY <1>4, <1>5, <2>2 DEF Early
    <3> QED
      BY <1>a, <1>3, <1>7, <2>2, <3>1 DEF Inodes
  <2>3. \A i \in Uploads : part'[i] # Nothing => part'[i] # file'[i]
    BY <1>a, <1>1, <1>2, <1>3, <1>6 DEF Inodes
  <2> QED
    BY <1>6, <2>1, <2>2, <2>3 DEF Inodes
<1>9. \A v \in Uploads \ {u} : upload[v].at \in AtFile /\ upload[v].id = k => k \in crossed'
  <2> SUFFICES ASSUME NEW v \in Uploads \ {u}, upload[v].at \in AtFile, upload[v].id = k PROVE k \in crossed'
    OBVIOUS
  <2>1. v \in V!Others(u)
    BY DEF V!Others, V!Stage, V!Id, AtFile, Writing
  <2> QED
    BY <1>1, <2>1
<1>10. Writers'
  <2> SUFFICES ASSUME NEW v \in Uploads, upload'[v].at \in AtFile, upload'[v].id \notin crossed'
               PROVE  /\ WritesWell(v)'
                      /\ \A w \in Uploads : upload'[w].at \in AtFile /\ upload'[w].id = upload'[v].id => w = v
    BY DEF Writers
  <2>1. CASE v = u
    <3>1. WritesWell(u)'
      BY <1>1, <1>2, <1>3, <1>4, <1>5, <1>6 DEF WritesWell
    <3> QED
      BY <1>4, <1>5, <1>9, <2>1, <3>1
  <2>2. CASE v # u
    <3>1. /\ upload'[v] = upload[v] /\ upload[v].id \notin crossed /\ upload[v].id # k
      BY <1>1, <1>5, <1>9, <2>2
    <3>2. /\ WritesWell(v)
          /\ \A w \in Uploads : upload[w].at \in AtFile /\ upload[w].id = upload[v].id => w = v
      BY <1>a, <3>1 DEF Writers
    <3>3. upload[v].id \in Uploads /\ upload[v].handle \in Uploads
      BY <1>a, <3>1 DEF LifeInv, UploadsFit, UploadFits, Placed, Active
    <3>4. upload[v].at \in Writing => upload[v].handle # h
      BY <1>2, <1>3, <3>1, <3>3 DEF Uses
    <3>5. /\ file'[upload[v].id] = file[upload[v].id] /\ part'[upload[v].id] = part[upload[v].id]
          /\ file[upload[v].id] # h
      BY <1>1, <1>3, <1>6, <3>1, <3>3
    <3>6. WritesWell(v)'
      BY <1>1, <1>b, <1>6, <3>1, <3>2, <3>3, <3>4, <3>5 DEF WritesWell, Writing
    <3> QED
      BY <1>4, <1>5, <2>2, <3>1, <3>2, <3>6
  <2> QED
    BY <2>1, <2>2
<1>11. Told'
  <2>1. \A a \in Addresses : rows[a] # Nothing => rows[a].id \in Uploads /\ file[rows[a].id] \in Uploads
    BY <1>a, <1>b DEF LifeInv, V!TypeOK, V!PackageRows, RowsStand
  <2> QED
    BY <1>a, <1>1, <1>3, <1>6, <2>1, TellsOn
<1> QED
  BY <1>8, <1>10, <1>11 DEF ContentInv

LEMMA WriteKeepsContents ==
  ASSUME ObjectsAssumption, ContentInv, LifeInv', NEW u \in Uploads, V!WriteChunk(u)
  PROVE  ContentInv'
<1> DEFINE k == upload[u].id
           h == upload[u].handle
           c == upload[u].sends
           r == [upload[u] EXCEPT !.at = IF upload[u].at = "one" THEN "two" ELSE "place"]
<1>a. LifeInv /\ Inodes /\ Writers /\ Told
  BY DEF ContentInv
<1>b. /\ part \in [Uploads -> Uploads \union {Nothing}] /\ file \in [Uploads -> Uploads \union {Nothing}]
      /\ inode \in [Uploads -> Pieces \X Pieces] /\ DOMAIN upload = Uploads
  BY <1>a DEF LifeInv, V!TypeOK, UploadsFit, Inodes
<1>1. /\ upload[u].at \in {"one", "two"} /\ V!Step(u, r)
      /\ inode' = [inode EXCEPT ![h][IF upload[u].at = "one" THEN 1 ELSE 2] = c]
      /\ UNCHANGED <<rows, file, part, crossed, torn, unwritten>>
  BY DEF V!WriteChunk, V!Stage, V!tally
<1>2. k \in Uploads /\ h \in Uploads /\ upload[u].at \in Writing /\ upload[u].at \in AtFile /\ c \in Contents
  BY <1>a, <1>1 DEF LifeInv, UploadsFit, UploadFits, Placed, Active, AtFile, Writing
<1>3. r.at = (IF upload[u].at = "one" THEN "two" ELSE "place") /\ r.id = k /\ r.handle = h /\ r.sends = c
  OBVIOUS
<1>4. upload'[u] = r /\ \A v \in Uploads \ {u} : upload'[v] = upload[v]
  BY <1>b, <1>1, UploadMoves
<1> HIDE DEF r
<1>5. Uses(k, h)
  BY <1>2 DEF Uses
<1>6. /\ inode' \in [Uploads -> Pieces \X Pieces]
      /\ \A j \in Uploads \ {h} : inode'[j] = inode[j]
      /\ upload[u].at = "one" => inode'[h][1] = c
      /\ upload[u].at = "two" /\ inode[h][1] = c => inode'[h] = <<c, c>>
  BY <1>b, <1>1, <1>2 DEF Pieces
<1>7. \A i, j \in Uploads : Uses(i, j)' => Uses(i, j)
  <2> SUFFICES ASSUME NEW i \in Uploads, NEW j \in Uploads, NEW v \in Uploads,
                      upload'[v].at \in Writing, upload'[v].id = i, upload'[v].handle = j
               PROVE  Uses(i, j)
    BY <1>1 DEF Uses
  <2>1. CASE v = u
    BY <1>3, <1>4, <1>5, <2>1
  <2>2. CASE v # u
    BY <1>4, <2>2 DEF Uses
  <2> QED
    BY <2>1, <2>2
<1>8. Inodes'
  <2>1. \A v \in Uploads : upload'[v].at \in Early => upload[v].at \in Early
    <3>1. upload'[u].at \notin Early
      BY <1>3, <1>4 DEF Early
    <3> QED
      BY <1>4, <3>1
  <2>2. \A i, g, j \in Uploads : Uses(i, j)' /\ Uses(g, j)' => i = g
    BY <1>a, <1>7 DEF Inodes
  <2>3. \A v \in Uploads : upload'[v].at \in Early => \A i \in Uploads : ~Uses(i, v)'
    BY <1>a, <1>7, <2>1 DEF Inodes
  <2> QED
    BY <1>a, <1>1, <1>6, <2>2, <2>3 DEF Inodes
<1>9. Writers'
  <2> SUFFICES ASSUME NEW v \in Uploads, upload'[v].at \in AtFile, upload'[v].id \notin crossed'
               PROVE  /\ WritesWell(v)'
                      /\ \A w \in Uploads : upload'[w].at \in AtFile /\ upload'[w].id = upload'[v].id => w = v
    BY DEF Writers
  <2>1. \A w \in Uploads : upload'[w].at \in AtFile => upload[w].at \in AtFile /\ upload'[w].id = upload[w].id
    BY <1>2, <1>3, <1>4
  <2>2. /\ WritesWell(v)
        /\ \A w \in Uploads : upload[w].at \in AtFile /\ upload[w].id = upload[v].id => w = v
    BY <1>a, <1>1, <2>1 DEF Writers
  <2>3. CASE v = u
    <3>1. h # file[k] /\ part[k] \in {h, Nothing} /\ (upload[u].at = "two" => inode[h][1] = c)
      BY <1>2, <2>2, <2>3 DEF WritesWell
    <3>2. WritesWell(u)'
      BY <1>1, <1>3, <1>4, <1>6, <3>1 DEF WritesWell
    <3> QED
      BY <2>1, <2>2, <2>3, <3>2
  <2>4. CASE v # u
    <3>1. upload'[v] = upload[v] /\ upload[v].id # k
      BY <1>2, <1>4, <2>2, <2>4
    <3>2. upload[v].id \in Uploads /\ upload[v].handle \in Uploads
      BY <1>a, <3>1 DEF LifeInv, UploadsFit, UploadFits, Placed, Active
    <3>3. \A i \in Uploads : Uses(i, h) => i = k
      BY <1>a, <1>2, <1>5 DEF Inodes
    <3>4. upload[v].at \in Writing => upload[v].handle # h
      BY <1>2, <3>1, <3>2, <3>3 DEF Uses
    <3>5. file[upload[v].id] # h
      BY <1>2, <3>1, <3>2, <3>3 DEF Uses
    <3>6. WritesWell(v)'
      BY <1>1, <1>b, <1>6, <2>2, <3>1, <3>2, <3>4, <3>5 DEF WritesWell, Writing
    <3> QED
      BY <2>1, <2>2, <3>6
  <2> QED
    BY <2>3, <2>4
<1>10. Told'
  <2>1. ASSUME NEW a \in Addresses, rows[a] # Nothing, rows[a].id \notin crossed
        PROVE  inode'[file[rows[a].id]] = inode[file[rows[a].id]]
    <3>1. rows[a].id \in Uploads /\ file[rows[a].id] \in Uploads
      BY <1>a, <1>b, <2>1 DEF LifeInv, V!TypeOK, V!PackageRows, RowsStand
    <3>2. ASSUME file[rows[a].id] = h PROVE FALSE
      <4>1. Uses(rows[a].id, h)
        BY <3>2 DEF Uses
      <4>2. rows[a].id = k
        BY <1>a, <1>2, <1>5, <3>1, <4>1 DEF Inodes
      <4>3. WritesWell(u)
        BY <1>a, <1>2, <2>1, <4>2 DEF Writers
      <4> QED
        BY <1>2, <3>2, <4>2, <4>3 DEF WritesWell
    <3> QED
      BY <1>6, <3>1, <3>2
  <2> QED
    BY <1>a, <1>1, <2>1, TellsOn
<1> QED
  BY <1>8, <1>9, <1>10 DEF ContentInv

LEMMA PlaceKeepsContents ==
  ASSUME ObjectsAssumption, ContentInv, LifeInv', NEW u \in Uploads, V!Place(u), part[upload[u].id] # Nothing
  PROVE  ContentInv'
<1> DEFINE k == upload[u].id
           c == upload[u].sends
           r == [upload[u] EXCEPT !.at = "commit"]
<1>a. LifeInv /\ Inodes /\ Writers /\ Told
  BY DEF ContentInv
<1>b. /\ part \in [Uploads -> Uploads \union {Nothing}] /\ file \in [Uploads -> Uploads \union {Nothing}]
      /\ DOMAIN upload = Uploads
  BY <1>a DEF LifeInv, V!TypeOK, UploadsFit
<1>1. /\ upload[u].at = "place" /\ V!Step(u, r) /\ file' = [file EXCEPT ![k] = part[k]]
      /\ part' = [part EXCEPT ![k] = Nothing] /\ torn' = torn \union {k}
      /\ UNCHANGED <<rows, inode, crossed, unwritten>>
  BY DEF V!Place, V!Stage, V!Id
<1>2. k \in Uploads /\ upload[u].at \in AtFile /\ upload[u].at \notin Early
  BY <1>a, <1>1 DEF LifeInv, UploadsFit, UploadFits, Placed, Active, AtFile, Writing, Early
<1>3. r.at = "commit" /\ r.id = k /\ r.handle = upload[u].handle /\ r.sends = c
  OBVIOUS
<1>4. upload'[u] = r /\ \A v \in Uploads \ {u} : upload'[v] = upload[v]
  BY <1>b, <1>1, UploadMoves
<1> HIDE DEF r
<1>5. /\ file'[k] = part[k] /\ part'[k] = Nothing
      /\ \A i \in Uploads \ {k} : file'[i] = file[i] /\ part'[i] = part[i]
  BY <1>b, <1>1, <1>2
<1>6. \A i, j \in Uploads : Uses(i, j)' => Uses(i, j)
  <2> SUFFICES ASSUME NEW i \in Uploads, NEW j \in Uploads, Uses(i, j)' PROVE Uses(i, j)
    OBVIOUS
  <2>1. j # Nothing
    BY DEF ObjectsAssumption
  <2>2. upload'[u].at \notin Writing
    BY <1>3, <1>4 DEF Writing
  <2> QED
    BY <1>4, <1>5, <2>1, <2>2 DEF Uses
<1>7. Inodes'
  <2>1. \A i, g, j \in Uploads : Uses(i, j)' /\ Uses(g, j)' => i = g
    BY <1>a, <1>6 DEF Inodes
  <2>2. \A v \in Uploads : upload'[v].at \in Early => \A i \in Uploads : ~Uses(i, v)'
    <3>1. upload'[u].at \notin Early
      BY <1>3, <1>4 DEF Early
    <3> QED
      BY <1>a, <1>4, <1>6, <3>1 DEF Inodes
  <2>3. \A i \in Uploads : part'[i] # Nothing => part'[i] # file'[i]
    BY <1>a, <1>5 DEF Inodes
  <2> QED
    BY <1>a, <1>1, <2>1, <2>2, <2>3 DEF Inodes
<1>8. Writers'
  <2> SUFFICES ASSUME NEW v \in Uploads, upload'[v].at \in AtFile, upload'[v].id \notin crossed'
               PROVE  /\ WritesWell(v)'
                      /\ \A w \in Uploads : upload'[w].at \in AtFile /\ upload'[w].id = upload'[v].id => w = v
    BY DEF Writers
  <2>1. \A w \in Uploads : upload'[w].at \in AtFile => upload[w].at \in AtFile /\ upload'[w].id = upload[w].id
    BY <1>2, <1>3, <1>4
  <2>2. /\ WritesWell(v)
        /\ \A w \in Uploads : upload[w].at \in AtFile /\ upload[w].id = upload[v].id => w = v
    BY <1>a, <1>1, <2>1 DEF Writers
  <2>3. CASE v = u
    <3>1. part[k] = upload[u].handle /\ inode[upload[u].handle] = <<c, c>>
      BY <1>1, <2>2, <2>3 DEF WritesWell, Writing
    <3>2. WritesWell(u)'
      BY <1>1, <1>3, <1>4, <1>5, <3>1 DEF WritesWell, Writing
    <3> QED
      BY <2>1, <2>2, <2>3, <3>2
  <2>4. CASE v # u
    <3>1. upload'[v] = upload[v] /\ upload[v].id # k
      BY <1>2, <1>4, <2>2, <2>4
    <3>2. upload[v].id \in Uploads
      BY <1>a, <3>1 DEF LifeInv, UploadsFit, UploadFits, Placed, Active
    <3>3. WritesWell(v)'
      BY <1>1, <1>5, <2>2, <3>1, <3>2 DEF WritesWell
    <3> QED
      BY <2>1, <2>2, <3>3
  <2> QED
    BY <2>3, <2>4
<1>9. Told'
  <2>1. \A a \in Addresses : rows[a] # Nothing => rows[a].id \in Uploads
    BY <1>a DEF LifeInv, V!TypeOK, V!PackageRows
  <2> QED
    BY <1>a, <1>1, <1>5, <2>1, TellsOn
<1> QED
  BY <1>7, <1>8, <1>9 DEF ContentInv

LEMMA CommitKeepsContents ==
  ASSUME ObjectsAssumption, ContentInv, LifeInv', NEW u \in Uploads, V!CommitRow(u)
  PROVE  ContentInv'
<1> DEFINE a == upload[u].address
           k == upload[u].id
           c == upload[u].sends
           rec == [id |-> k, digest |-> c]
<1>a. LifeInv /\ Inodes /\ Writers /\ Told
  BY DEF ContentInv
<1>b. rows \in V!PackageRows /\ DOMAIN upload = Uploads
  BY <1>a DEF LifeInv, V!TypeOK, UploadsFit
<1>1. /\ upload[u].at = "commit" /\ V!Step(u, [at |-> "over"])
      /\ UNCHANGED <<file, part, inode, crossed>>
  BY DEF V!CommitRow, V!Stage, V!Fails, V!disk
<1>2. /\ a \in Addresses /\ k \in Uploads /\ u \notin Over
      /\ upload[u].own => k = u
  BY <1>a, <1>1 DEF LifeInv, UploadsFit, UploadFits, Placed, Active, AtFile, Over
<1>3. upload'[u] = [at |-> "over"] /\ \A v \in Uploads \ {u} : upload'[v] = upload[v]
  BY <1>b, <1>1, UploadMoves
<1>4. Quiet
  BY <1>1, <1>3 DEF Quiet, Early, AtFile, Writing
<1>5. Inodes' /\ Writers'
  BY <1>4, <1>a, QuietKeepsInodes, QuietKeepsWriters
\* The row was deleted meanwhile, or what it told when it was read is told no more.
<1>6. CASE rows' = rows /\ torn' = torn /\ unwritten' = unwritten
  BY <1>4, <1>5, <1>6, <1>a, QuietTellsOn DEF ContentInv
\* The row tells already what was sent, or the upload is noted for leaving it.
<1>8. CASE /\ rows' = rows /\ torn' = torn \ {k} /\ rows[a] # Nothing /\ rows[a].id = k
           /\ \/ rows[a].digest = c /\ unwritten' = unwritten \ {k}
              \/ unwritten' = unwritten \union {k}
  <2>2. ASSUME NEW b \in Addresses, rows[b] # Nothing, rows[b].id \notin crossed' \union torn' \union unwritten'
        PROVE  inode'[file'[rows[b].id]] = <<rows[b].digest, rows[b].digest>>
    <3>1. CASE rows[b].id = k
      <4>1. b = a /\ rows[b].digest = c /\ k \notin crossed
        BY <1>1, <1>2, <1>8, <1>a, <2>2, <3>1 DEF LifeInv, RowsStand
      <4>2. file[k] = Nothing \/ inode[file[k]] = <<c, c>>
        BY <1>1, <1>a, <4>1 DEF Writers, WritesWell, AtFile
      <4>3. file[k] # Nothing
        BY <1>8, <1>2, <1>a DEF LifeInv, RowsStand
      <4> QED
        BY <1>1, <3>1, <4>1, <4>2, <4>3
    <3>2. CASE rows[b].id # k
      <4>1. rows[b].id \notin crossed \union torn \union unwritten
        BY <1>1, <1>8, <2>2, <3>2
      <4> QED
        BY <1>1, <1>a, <2>2, <4>1 DEF Told
    <3> QED
      BY <3>1, <3>2
  <2>3. Told'
    BY <1>8, <2>2 DEF Told
  <2> QED
    BY <1>5, <2>3 DEF ContentInv
<1>7. CASE /\ rows' = [rows EXCEPT ![a] = rec] /\ torn' = torn \ {k} /\ unwritten' = unwritten \ {k}
           /\ upload[u].own \/ (rows[a] # Nothing /\ rows[a].id = k)
  <2>1. rows'[a] = rec /\ (\A b \in Addresses \ {a} : rows'[b] = rows[b]) /\ rec.id = k /\ rec.digest = c
    BY <1>2, <1>7, <1>b DEF V!PackageRows
  <2> HIDE DEF rec
  <2>2. ASSUME NEW b \in Addresses, rows'[b] # Nothing, rows'[b].id \notin crossed' \union torn' \union unwritten'
        PROVE  inode'[file'[rows'[b].id]] = <<rows'[b].digest, rows'[b].digest>>
    <3>1. CASE b = a
      <4>1. rows'[b].id = k /\ rows'[b].digest = c /\ k \notin crossed
        BY <1>1, <2>1, <2>2, <3>1
      <4>2. file[k] = Nothing \/ inode[file[k]] = <<c, c>>
        BY <1>1, <1>a, <4>1 DEF Writers, WritesWell, AtFile
      <4>3. file'[k] # Nothing
        BY <2>2, <4>1 DEF LifeInv, RowsStand
      <4> QED
        BY <1>1, <4>1, <4>2, <4>3
    <3>2. CASE b # a
      <4>1. rows'[b] = rows[b] /\ rows[b].id # k
        BY <1>2, <1>7, <1>a, <2>1, <2>2, <3>2 DEF LifeInv, RowsStand
      <4>2. rows[b].id \notin crossed \union torn \union unwritten
        BY <1>1, <1>7, <2>2, <4>1
      <4> QED
        BY <1>1, <1>a, <2>2, <4>1, <4>2 DEF Told
    <3> QED
      BY <3>1, <3>2
  <2>3. Told'
    BY <2>2 DEF Told
  <2> QED
    BY <1>5, <2>3 DEF ContentInv
<1>9. upload[u].read = c => ~upload[u].own
  BY <1>1, <1>a DEF LifeInv, UploadsFit, UploadFits, Placed, Active, AtFile, ObjectsAssumption
<1> QED
  BY <1>6, <1>7, <1>8, <1>9 DEF V!CommitRow, V!Id, V!Address

LEMMA ContentNext ==
  ASSUME ObjectsAssumption, ContentInv, [V!NextObjects]_V!objectVars
  PROVE  ContentInv'
<1>a. LifeInv' /\ LifeInv /\ Inodes /\ Writers /\ Told
  BY LifeNext DEF ContentInv
<1>b. DOMAIN upload = Uploads
  BY <1>a DEF LifeInv, UploadsFit
\* A step that writes nothing.
<1>c. ASSUME Quiet, torn \subseteq torn', unwritten \subseteq unwritten', \A a \in Addresses : rows'[a] \in {rows[a], Nothing}
      PROVE  ContentInv'
  BY <1>a, <1>c, QuietKeepsInodes, QuietKeepsWriters, QuietTellsOn DEF ContentInv
\* One upload fails, or goes on to a step at which it holds no file yet.
<1>d. ASSUME NEW u \in Uploads, NEW r, V!Step(u, r),
             r.at = "over" \/ (r.at \in Early /\ upload[u].at \in Early),
             UNCHANGED <<rows, inode, crossed, torn, unwritten>>,
             \A i \in Uploads : file'[i] \in {file[i], Nothing} /\ part'[i] \in {part[i], Nothing}
      PROVE  ContentInv'
  <2>1. upload'[u] = r /\ \A v \in Uploads \ {u} : upload'[v] = upload[v]
    BY <1>b, <1>d, UploadMoves
  <2>2. Quiet
    BY <1>d, <2>1 DEF Quiet, Early, AtFile, Writing
  <2> QED
    BY <1>c, <1>d, <2>2
\* No upload moves.
<1>e. ASSUME UNCHANGED <<upload, inode, crossed, torn, unwritten>>, \A a \in Addresses : rows'[a] \in {rows[a], Nothing},
             \A i \in Uploads : file'[i] \in {file[i], Nothing} /\ part'[i] \in {part[i], Nothing}
      PROVE  ContentInv'
  <2>1. Quiet
    BY <1>e DEF Quiet
  <2> QED
    BY <1>c, <1>e, <2>1
<1>1. ASSUME NEW access \in V!Buckets, V!CreateBucket(access) \/ V!SetAccess(access) PROVE ContentInv'
  BY <1>1, <1>e DEF V!CreateBucket, V!SetAccess, V!fileVars, V!disk
<1>2. ASSUME NEW u \in Uploads, NEW a \in Addresses, NEW c \in Contents, V!PutObject(u, a, c) PROVE ContentInv'
  <2>1. PICK r : V!Step(u, r) /\ r.at \in {"insert", "open"}
    BY <1>2 DEF V!PutObject, V!FindRow
  <2>2. r.at \in Early /\ upload[u].at \in Early /\ UNCHANGED <<rows, file, part, inode, crossed, torn, unwritten>>
    BY <1>2, <2>1 DEF V!PutObject, V!FindRow, V!Stage, V!disk, V!tally, Early
  <2> QED
    BY <1>d, <2>1, <2>2
<1>3. ASSUME NEW u \in Uploads, V!FlushObject(u) PROVE ContentInv'
  <2>1. upload[u].at = "insert" /\ UNCHANGED <<rows, file, part, inode, crossed, torn, unwritten>>
    BY <1>3 DEF V!FlushObject, V!FlushRow, V!Stage, V!disk, V!tally
  <2>2. PICK r : V!Step(u, r) /\ r.at \in {"open", "over"}
    <3>1. CASE V!Fails(u)
      BY <3>1 DEF V!Fails
    <3>2. CASE V!Step(u, [upload[u] EXCEPT !.at = "open"])
      <4> DEFINE r == [upload[u] EXCEPT !.at = "open"]
      <4>1. r.at = "open"
        BY <1>a, <2>1 DEF LifeInv, UploadsFit, UploadFits, Placed
      <4> QED
        BY <3>2, <4>1
    <3> QED
      BY <1>3, <3>1, <3>2 DEF V!FlushObject, V!FlushRow
  <2> QED
    BY <1>d, <2>1, <2>2 DEF Early
<1>4. ASSUME NEW u \in Uploads, V!BreakOff(u) PROVE ContentInv'
  <2>1. /\ V!Step(u, [at |-> "over"]) /\ part' = [part EXCEPT ![upload[u].id] = Nothing]
        /\ UNCHANGED <<rows, file, inode, crossed, torn, unwritten>>
    BY <1>4 DEF V!BreakOff, V!Fails, V!Id, V!tally
  <2>2. \A i \in Uploads : part'[i] \in {part[i], Nothing}
    BY <1>a, <2>1 DEF LifeInv, V!TypeOK
  <2> QED
    BY <1>d, <2>1, <2>2
<1>5. ASSUME NEW u \in Uploads, V!Place(u), part[upload[u].id] = Nothing PROVE ContentInv'
  <2>1. V!Step(u, [at |-> "over"]) /\ UNCHANGED <<rows, file, part, inode, crossed, torn, unwritten>>
    BY <1>5 DEF V!Place, V!Fails, V!Id
  <2> QED
    BY <1>d, <2>1
<1>6. ASSUME NEW u \in Uploads, V!WriteObject(u) PROVE ContentInv'
  BY <1>4, <1>5, <1>6, <1>a, OpenKeepsContents, WriteKeepsContents, PlaceKeepsContents, CommitKeepsContents
  DEF V!WriteObject
<1>7. ASSUME NEW a \in Addresses, V!DeleteObject(a) PROVE ContentInv'
  <2>1. rows' = [rows EXCEPT ![a] = Nothing] /\ UNCHANGED <<upload, file, part, inode, crossed, torn, unwritten>>
    BY <1>7 DEF V!DeleteObject, V!DeletePackage, V!disk, V!tally
  <2>2. \A b \in Addresses : rows'[b] \in {rows[b], Nothing}
    BY <1>a, <2>1 DEF LifeInv, V!TypeOK, V!PackageRows
  <2> QED
    BY <1>e, <2>1, <2>2
<1>8. ASSUME NEW i \in Uploads, V!Unlink(i) PROVE ContentInv'
  <2>1. file' = [file EXCEPT ![i] = Nothing] /\ UNCHANGED <<rows, upload, part, inode, crossed, torn, unwritten>>
    BY <1>8 DEF V!Unlink, V!tally
  <2>2. \A j \in Uploads : file'[j] \in {file[j], Nothing}
    BY <1>a, <2>1 DEF LifeInv, V!TypeOK
  <2> QED
    BY <1>e, <2>1, <2>2
<1>9. ASSUME V!DeleteBucket \/ V!RemoveFolder PROVE ContentInv'
  BY <1>9, <1>e DEF V!DeleteBucket, V!RemoveFolder, V!disk, V!tally
<1>10. ASSUME V!ServerStops PROVE ContentInv'
  <2>1. /\ upload' = [u \in Uploads |-> IF upload[u].at = "new" THEN upload[u] ELSE [at |-> "over"]]
        /\ UNCHANGED <<rows, file, part, inode, crossed, torn, unwritten>>
    BY <1>10 DEF V!ServerStops, V!Cut, V!Stage, V!disk
  <2>2. Quiet
    BY <2>1 DEF Quiet, Early, AtFile, Writing
  <2> QED
    BY <1>c, <2>1, <2>2
<1>11. ASSUME UNCHANGED V!objectVars PROVE ContentInv'
  BY <1>11, <1>e DEF V!objectVars, V!fileVars, V!disk
<1> QED
  BY <1>1, <1>2, <1>3, <1>6, <1>7, <1>8, <1>9, <1>10, <1>11 DEF V!NextObjects

(* DigestTellsContents: a download is what its digest says, unless two     *)
(* uploads wrote the row's file at the same time, a file was put in place  *)
(* whose row was never committed, or a commit left the row as it was       *)
(* because it brought what the row had told before another upload came     *)
(* (storage/service.py put_object, artifacts/service.py publish_package).  *)
THEOREM DownloadsAreTold ==
  ASSUME ObjectsAssumption
  PROVE  V!ObjectsSpec => []V!DigestTellsContents
<1>1. ContentInv => V!DigestTellsContents
  BY DEF ContentInv, LifeInv, RowsStand, Told, V!DigestTellsContents
<1>2. V!InitObjects => ContentInv
  BY ContentInit
<1>3. ContentInv /\ [V!NextObjects]_V!objectVars => ContentInv'
  BY ContentNext
<1> QED
  BY <1>1, <1>2, <1>3, PTL DEF V!ObjectsSpec

-----------------------------------------------------------------------------
(* The services together: a component behaves as it does alone.            *)

LEMMA StorageBegins == Init =>
    /\ scene = "quotas" => Q!Init
    /\ scene = "registry" => R!Init
    /\ scene = "objects" => V!InitObjects
  BY DEF Init

LEMMA StorageGoesOn == [Next]_serviceVars =>
    /\ scene' = scene
    /\ scene = "quotas" => [Q!Next]_Q!quotaVars
    /\ scene = "registry" => [R!Next]_R!registryVars
    /\ scene = "objects" => [V!NextObjects]_V!objectVars
<1> SUFFICES ASSUME [Next]_serviceVars
    PROVE  /\ scene' = scene
           /\ scene = "quotas" => [Q!Next]_Q!quotaVars
           /\ scene = "registry" => [R!Next]_R!registryVars
           /\ scene = "objects" => [V!NextObjects]_V!objectVars
  OBVIOUS
<1>1. CASE UNCHANGED serviceVars \/ Access \/ Running
  BY <1>1 DEF serviceVars, Access, Running, storageVars,
    quotaVars, Q!quotaVars, registryVars, R!registryVars, objectVars, V!objectVars, V!fileVars, V!disk
<1>2. CASE Storage
  BY <1>2 DEF Storage,
    quotaVars, Q!quotaVars, registryVars, R!registryVars, objectVars, V!objectVars, V!fileVars, V!disk
<1> QED
  BY <1>1, <1>2 DEF Next

\* What is stored is of its kind.
StorageTyped ==
    /\ scene = "quotas" => Q!TypeOK
    /\ scene = "registry" => R!TypeOK
    /\ scene = "objects" => V!ObjectsTypeOK

LEMMA StorageTypedStands == Spec => []StorageTyped
<1>1. Spec => [](scene = "quotas" => Q!TypeOK)
  <2>1. Init => (scene = "quotas" => Q!Init)
    BY StorageBegins
  <2>2. [Next]_serviceVars => /\ scene = "quotas" <=> (scene = "quotas")'
                              /\ scene = "quotas" => [Q!Next]_Q!quotaVars
    BY StorageGoesOn
  <2>3. Q!Spec => []Q!TypeOK
    BY LimitsHold, ServicesAssumption, PTL
  <2> QED
    BY <2>1, <2>2, <2>3, PTL DEF Spec, Q!Spec
<1>2. Spec => [](scene = "registry" => R!TypeOK)
  <2>1. Init => (scene = "registry" => R!Init)
    BY StorageBegins
  <2>2. [Next]_serviceVars => /\ scene = "registry" <=> (scene = "registry")'
                              /\ scene = "registry" => [R!Next]_R!registryVars
    BY StorageGoesOn
  <2>3. R!Spec => []R!TypeOK
    BY ListedImagesPull, ServicesAssumption, PTL
  <2> QED
    BY <2>1, <2>2, <2>3, PTL DEF Spec, R!Spec
<1>3. Spec => [](scene = "objects" => V!ObjectsTypeOK)
  <2>1. Init => (scene = "objects" => V!InitObjects)
    BY StorageBegins
  <2>2. [Next]_serviceVars => /\ scene = "objects" <=> (scene = "objects")'
                              /\ scene = "objects" => [V!NextObjects]_V!objectVars
    BY StorageGoesOn
  <2>3. V!ObjectsSpec => []V!ObjectsTypeOK
    BY RowsAreServed, ServicesAssumption, PTL
  <2> QED
    BY <2>1, <2>2, <2>3, PTL DEF Spec, V!ObjectsSpec
<1>4. (scene = "quotas" => Q!TypeOK) /\ (scene = "registry" => R!TypeOK) /\ (scene = "objects" => V!ObjectsTypeOK) <=> StorageTyped
  BY DEF StorageTyped
<1> QED
  BY <1>1, <1>2, <1>3, <1>4, PTL

(* Requests weighed at the same time pass a limit together, by as many as  *)
(* they are and no further (quotas/service.py ensure_room_for_one_more).   *)
THEOREM PassedByFewOnlyHolds == Spec => []PassedByFewOnly
<1>1. Init => (scene = "quotas" => Q!Init)
  BY StorageBegins
<1>2. [Next]_serviceVars => /\ scene = "quotas" <=> (scene = "quotas")'
                            /\ scene = "quotas" => [Q!Next]_Q!quotaVars
  BY StorageGoesOn
<1>3. Q!Spec => []Q!PassedByFewOnly
  BY LimitsHold, ServicesAssumption, PTL
<1>4. (scene = "quotas" => Q!PassedByFewOnly) <=> PassedByFewOnly
  BY DEF PassedByFewOnly
<1> QED
  BY <1>1, <1>2, <1>3, <1>4, PTL DEF Spec, Q!Spec

(* An image that is listed can be pulled (registry/service.py              *)
(* write_manifest).                                                        *)
THEOREM TaggedImagesPullHolds == Spec => []TaggedImagesPull
<1>1. Init => (scene = "registry" => R!Init)
  BY StorageBegins
<1>2. [Next]_serviceVars => /\ scene = "registry" <=> (scene = "registry")'
                            /\ scene = "registry" => [R!Next]_R!registryVars
  BY StorageGoesOn
<1>3. R!Spec => []R!TaggedImagesPull
  BY ListedImagesPull, ServicesAssumption, PTL
<1>4. (scene = "registry" => R!TaggedImagesPull) <=> TaggedImagesPull
  BY DEF TaggedImagesPull
<1> QED
  BY <1>1, <1>2, <1>3, <1>4, PTL DEF Spec, R!Spec

(* What a row names is on disk (storage/service.py, artifacts/service.py). *)
THEOREM RowsHaveFilesHolds == Spec => []RowsHaveFiles
<1>1. Init => (scene = "objects" => V!InitObjects)
  BY StorageBegins
<1>2. [Next]_serviceVars => /\ scene = "objects" <=> (scene = "objects")'
                            /\ scene = "objects" => [V!NextObjects]_V!objectVars
  BY StorageGoesOn
<1>3. V!ObjectsSpec => []V!RowsHaveFiles
  BY RowsAreServed, ServicesAssumption, PTL
<1>4. (scene = "objects" => V!RowsHaveFiles) <=> RowsHaveFiles
  BY DEF RowsHaveFiles
<1> QED
  BY <1>1, <1>2, <1>3, <1>4, PTL DEF Spec, V!ObjectsSpec

(* A download is what its digest says, unless two uploads wrote the file   *)
(* at a time, one was put in place and its row not committed, or the row   *)
(* was left as it was (artifacts/service.py write).                        *)
THEOREM DigestTellsContentsHolds == Spec => []DigestTellsContents
<1>1. Init => (scene = "objects" => V!InitObjects)
  BY StorageBegins
<1>2. [Next]_serviceVars => /\ scene = "objects" <=> (scene = "objects")'
                            /\ scene = "objects" => [V!NextObjects]_V!objectVars
  BY StorageGoesOn
<1>3. V!ObjectsSpec => []V!DigestTellsContents
  BY DownloadsAreTold, ServicesAssumption, PTL
<1>4. (scene = "objects" => V!DigestTellsContents) <=> DigestTellsContents
  BY DEF DigestTellsContents
<1> QED
  BY <1>1, <1>2, <1>3, <1>4, PTL DEF Spec, V!ObjectsSpec
=============================================================================
