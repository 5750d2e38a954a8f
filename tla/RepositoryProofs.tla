-------------------------- MODULE RepositoryProofs --------------------------
(***************************************************************************)
(* Proofs about the repository, for every set of buckets, keys, uploads,    *)
(* parts, streams and bodies.                                               *)
(*                                                                         *)
(* RepoInv is inductive as the conjunction below.  The Bucket field of the  *)
(* metadata (EntriesNameTheirBucket) is what makes ListObjects and          *)
(* GetObject agree, and it is stronger than their agreement.                *)
(***************************************************************************)
EXTENDS Repository, TLAPS

EntriesNameTheirBucket ==
    \A b \in Buckets, k \in Keys : ObjectExists(b, k) => objects[b][k].bucket = b

RepoInv ==
    /\ RepoTypeOK
    /\ ObjectsInBuckets
    /\ EntriesNameTheirBucket
    /\ PartsFollowUploads

\* The ETag of a body that a client sends is an ETag.
LEMMA ETagType == \A body \in Bodies : ETag(body) \in ETags
  BY BodiesAssumption DEF ETag, ETags, Body

\* Metadata built for a bucket, a key and an ETag is a well-formed entry that
\* names its bucket and differs from an absent one.
LEMMA EntryType ==
  ASSUME NEW b \in Buckets, NEW k \in Keys, NEW e \in ETags
  PROVE  /\ Entry(b, k, e) \in Entries
         /\ Entry(b, k, e).bucket = b
         /\ Entry(b, k, e) # None
  BY SentinelAssumption DEF Entry, Entries, Path, Paths

\* Moving an entry to a bucket keeps it well formed, present or absent.
LEMMA RebucketType ==
  ASSUME NEW b \in Buckets, NEW e \in Entries \cup {None}
  PROVE  /\ Rebucket(e, b) \in Entries \cup {None}
         /\ e # None => Rebucket(e, b) \in Entries /\ Rebucket(e, b) # None
         /\ e # None => Rebucket(e, b).bucket = b
         /\ e = None => Rebucket(e, b) = None
<1>1. CASE e = None
  BY <1>1 DEF Rebucket
<1>2. CASE e # None
  <2>1. e \in [bucket : Buckets, etag : ETags, path : Paths]
    BY <1>2 DEF Entries
  <2>2. [e EXCEPT !.bucket = b] \in [bucket : Buckets, etag : ETags, path : Paths]
    BY <2>1
  <2>3. [e EXCEPT !.bucket = b].bucket = b
    BY <2>1
  <2>4. QED
    BY <1>2, <2>2, <2>3, SentinelAssumption DEF Rebucket, Entries
<1>3. QED
  BY <1>1, <1>2

\* The invariant holds of an empty repository.
LEMMA RepoInitInv == RepoInit => RepoInv
  BY DEF RepoInit, RepoInv, RepoTypeOK, ObjectsInBuckets, EntriesNameTheirBucket,
         PartsFollowUploads, NoObjects, ObjectExists, BucketExists, UploadExists

(***************************************************************************)
(* One lemma per method: each preserves the invariant.                      *)
(***************************************************************************)

\* Creating a bucket, or setting the policy of one, preserves the invariant.
LEMMA BucketPolicyInv ==
  ASSUME RepoInv, NEW b \in Buckets, NEW p \in Policies,
         CreateBucket(b, p) \/ SetBucketPolicy(b, p)
  PROVE  RepoInv'
<1> USE DEF RepoInv, CreateBucket, SetBucketPolicy
<1>1. RepoTypeOK'
  BY DEF RepoTypeOK
<1>2. ObjectsInBuckets'
  BY SentinelAssumption DEF RepoTypeOK, ObjectsInBuckets, ObjectExists, BucketExists
<1>3. EntriesNameTheirBucket'
  BY DEF EntriesNameTheirBucket, ObjectExists
<1>4. PartsFollowUploads'
  BY DEF PartsFollowUploads, UploadExists
<1>5. QED
  BY <1>1, <1>2, <1>3, <1>4

\* Renaming a bucket preserves the invariant.
LEMMA RenameBucketInv ==
  ASSUME RepoInv, NEW old \in Buckets, NEW new \in Buckets, NEW p \in Policies,
         RenameBucketTo(old, new, p)
  PROVE  RepoInv'
<1> USE DEF RepoInv, RenameBucketTo
<1> DEFINE moved == [k \in Keys |-> IF ObjectExists(old, k)
                                    THEN Rebucket(objects[old][k], new)
                                    ELSE objects[new][k]]
<1>1. moved \in [Keys -> Entries \cup {None}]
  BY RebucketType DEF RepoTypeOK
<1>2. /\ objects'[new] = moved
      /\ objects'[old] = NoObjects
      /\ \A b \in Buckets \ {old, new} : objects'[b] = objects[b]
  BY DEF RepoTypeOK
<1>3. RepoTypeOK'
  <2>1. objects' \in [Buckets -> [Keys -> Entries \cup {None}]]
    BY <1>1 DEF RepoTypeOK, NoObjects
  <2>2. uploads' \in [UploadIds -> Uploads \cup {None}]
    <3> SUFFICES ASSUME NEW u \in UploadIds
                 PROVE  (IF u \in UploadsOf(old) THEN [uploads[u] EXCEPT !.bucket = new]
                         ELSE uploads[u]) \in Uploads \cup {None}
      OBVIOUS
    <3>1. uploads[u] \in Uploads \cup {None}
      BY DEF RepoTypeOK
    <3>2. CASE u \in UploadsOf(old)
      <4>1. uploads[u] \in [bucket : Buckets, key : Keys]
        BY <3>1, <3>2 DEF UploadsOf, UploadExists, Uploads
      <4>2. [uploads[u] EXCEPT !.bucket = new] \in [bucket : Buckets, key : Keys]
        BY <4>1
      <4>3. QED
        BY <4>2, <3>2 DEF Uploads
    <3>3. CASE u \notin UploadsOf(old)
      BY <3>1, <3>3
    <3>4. QED
      BY <3>2, <3>3
  <2>3. buckets' \in [Buckets -> Policies \cup {None}]
    BY DEF RepoTypeOK
  <2>4. streams' \in [StreamIds -> Buckets \cup {None}]
    BY DEF RepoTypeOK
  <2>5. parts' \in [UploadIds -> PartTables \cup {None}]
    BY DEF RepoTypeOK
  <2>6. QED
    BY <2>1, <2>2, <2>3, <2>4, <2>5 DEF RepoTypeOK
<1>4. ObjectsInBuckets'
  <2> SUFFICES ASSUME NEW b \in Buckets, NEW k \in Keys, objects'[b][k] # None
               PROVE  buckets'[b] # None
    BY DEF ObjectsInBuckets, ObjectExists, BucketExists
  <2>1. CASE b = new
    BY <2>1, SentinelAssumption DEF RepoTypeOK
  <2>2. CASE b = old
    BY <2>2, <1>2 DEF NoObjects
  <2>3. CASE b \notin {old, new}
    BY <2>3, <1>2 DEF RepoTypeOK, ObjectsInBuckets, ObjectExists, BucketExists
  <2>4. QED
    BY <2>1, <2>2, <2>3
<1>5. EntriesNameTheirBucket'
  <2> SUFFICES ASSUME NEW b \in Buckets, NEW k \in Keys, objects'[b][k] # None
               PROVE  objects'[b][k].bucket = b
    BY DEF EntriesNameTheirBucket, ObjectExists
  <2>1. CASE b = new
    <3>1. ~ObjectExists(new, k)
      BY DEF ObjectsInBuckets
    <3>2. ObjectExists(old, k)
      BY <1>2, <2>1, <3>1 DEF ObjectExists
    <3>3. objects[old][k] \in Entries \cup {None}
      BY DEF RepoTypeOK
    <3>4. QED
      BY <1>2, <2>1, <3>2, <3>3, RebucketType DEF ObjectExists
  <2>2. CASE b = old
    BY <2>2, <1>2 DEF NoObjects
  <2>3. CASE b \notin {old, new}
    <3>1. objects'[b] = objects[b]
      BY <2>3, <1>2
    <3>2. objects[b][k] # None => objects[b][k].bucket = b
      BY DEF EntriesNameTheirBucket, ObjectExists
    <3>3. QED
      BY <3>1, <3>2
  <2>4. QED
    BY <2>1, <2>2, <2>3
<1>6. PartsFollowUploads'
  <2> SUFFICES ASSUME NEW u \in UploadIds
               PROVE  uploads'[u] # None <=> parts'[u] # None
    BY DEF PartsFollowUploads, UploadExists
  <2>1. CASE u \in UploadsOf(old)
    <3>1. uploads[u] \in [bucket : Buckets, key : Keys]
      BY <2>1 DEF RepoTypeOK, UploadsOf, UploadExists, Uploads
    <3>2. [uploads[u] EXCEPT !.bucket = new] \in [bucket : Buckets, key : Keys]
      BY <3>1
    <3>3. uploads'[u] # None
      BY <2>1, <3>2, SentinelAssumption
    <3>4. QED
      BY <2>1, <3>3 DEF PartsFollowUploads, UploadsOf
  <2>2. CASE u \notin UploadsOf(old)
    BY <2>2 DEF PartsFollowUploads, UploadExists
  <2>3. QED
    BY <2>1, <2>2
<1>7. QED
  BY <1>3, <1>4, <1>5, <1>6

\* Deleting an empty bucket preserves the invariant.
LEMMA DeleteBucketInv ==
  ASSUME RepoInv, NEW b \in Buckets, DeleteBucket(b)
  PROVE  RepoInv'
<1> USE DEF RepoInv, DeleteBucket
<1>1. RepoTypeOK'
  BY DEF RepoTypeOK
<1>2. ObjectsInBuckets'
  BY DEF RepoTypeOK, ObjectsInBuckets, ObjectExists, BucketExists, BucketEmpty
<1>3. EntriesNameTheirBucket'
  BY DEF EntriesNameTheirBucket, ObjectExists
<1>4. PartsFollowUploads'
  BY DEF PartsFollowUploads, UploadExists
<1>5. QED
  BY <1>1, <1>2, <1>3, <1>4

\* Deleting a bucket with all it holds preserves the invariant.
LEMMA DeleteBucketRecursiveInv ==
  ASSUME RepoInv, NEW b \in Buckets, DeleteBucketRecursive(b)
  PROVE  RepoInv'
<1> USE DEF RepoInv, DeleteBucketRecursive
<1>1. /\ objects'[b] = NoObjects
      /\ \A c \in Buckets \ {b} : objects'[c] = objects[c]
  BY DEF RepoTypeOK
<1>2. RepoTypeOK'
  <2>1. /\ buckets' \in [Buckets -> Policies \cup {None}]
        /\ objects' \in [Buckets -> [Keys -> Entries \cup {None}]]
    BY DEF RepoTypeOK, NoObjects
  <2>2. /\ uploads' \in [UploadIds -> Uploads \cup {None}]
        /\ parts' \in [UploadIds -> PartTables \cup {None}]
        /\ streams' \in [StreamIds -> Buckets \cup {None}]
    BY DEF RepoTypeOK
  <2>3. QED
    BY <2>1, <2>2 DEF RepoTypeOK
<1>3. ObjectsInBuckets'
  <2> SUFFICES ASSUME NEW c \in Buckets, NEW k \in Keys, objects'[c][k] # None
               PROVE  buckets'[c] # None
    BY DEF ObjectsInBuckets, ObjectExists, BucketExists
  <2>1. c # b
    BY <1>1 DEF NoObjects
  <2>2. QED
    BY <1>1, <2>1 DEF RepoTypeOK, ObjectsInBuckets, ObjectExists, BucketExists
<1>4. EntriesNameTheirBucket'
  <2> SUFFICES ASSUME NEW c \in Buckets, NEW k \in Keys, objects'[c][k] # None
               PROVE  objects'[c][k].bucket = c
    BY DEF EntriesNameTheirBucket, ObjectExists
  <2>1. c # b
    BY <1>1 DEF NoObjects
  <2>2. objects'[c] = objects[c]
    BY <1>1, <2>1
  <2>3. objects[c][k] # None => objects[c][k].bucket = c
    BY DEF EntriesNameTheirBucket, ObjectExists
  <2>4. QED
    BY <2>2, <2>3
<1>5. PartsFollowUploads'
  BY DEF PartsFollowUploads, UploadExists
<1>6. QED
  BY <1>2, <1>3, <1>4, <1>5

\* Writing the metadata of an object preserves the invariant.
LEMMA UpsertObjectInv ==
  ASSUME RepoInv, NEW b \in Buckets, NEW k \in Keys, NEW e \in ETags,
         UpsertObject(b, k, e)
  PROVE  RepoInv'
<1> USE DEF RepoInv, UpsertObject
<1>1. /\ objects'[b][k] = Entry(b, k, e)
      /\ \A c \in Buckets, j \in Keys :
           c # b \/ j # k => objects'[c][j] = objects[c][j]
  BY DEF RepoTypeOK
<1>2. RepoTypeOK'
  BY EntryType DEF RepoTypeOK
<1>3. ObjectsInBuckets'
  BY <1>1 DEF RepoTypeOK, ObjectsInBuckets, ObjectExists, BucketExists
<1>4. EntriesNameTheirBucket'
  <2> SUFFICES ASSUME NEW c \in Buckets, NEW j \in Keys, objects'[c][j] # None
               PROVE  objects'[c][j].bucket = c
    BY DEF EntriesNameTheirBucket, ObjectExists
  <2>1. CASE c = b /\ j = k
    BY <1>1, <2>1, EntryType
  <2>2. CASE c # b \/ j # k
    <3>1. objects'[c][j] = objects[c][j]
      BY <1>1, <2>2
    <3>2. objects[c][j] # None => objects[c][j].bucket = c
      BY DEF EntriesNameTheirBucket, ObjectExists
    <3>3. QED
      BY <3>1, <3>2
  <2>3. QED
    BY <2>1, <2>2
<1>5. PartsFollowUploads'
  BY DEF PartsFollowUploads, UploadExists
<1>6. QED
  BY <1>2, <1>3, <1>4, <1>5

\* Removing the metadata of an object preserves the invariant.
LEMMA DeleteObjectInv ==
  ASSUME RepoInv, NEW b \in Buckets, NEW k \in Keys, DeleteObject(b, k)
  PROVE  RepoInv'
<1> USE DEF RepoInv, DeleteObject
<1>1. \A c \in Buckets, j \in Keys :
         objects'[c][j] = IF c = b /\ j = k THEN None ELSE objects[c][j]
  BY DEF RepoTypeOK
<1>2. RepoTypeOK'
  BY DEF RepoTypeOK
<1>3. ObjectsInBuckets'
  BY <1>1 DEF RepoTypeOK, ObjectsInBuckets, ObjectExists, BucketExists
<1>4. EntriesNameTheirBucket'
  BY <1>1 DEF EntriesNameTheirBucket, ObjectExists
<1>5. PartsFollowUploads'
  BY DEF PartsFollowUploads, UploadExists
<1>6. QED
  BY <1>2, <1>3, <1>4, <1>5

\* Opening an upload preserves the invariant.
LEMMA CreateMultipartUploadInv ==
  ASSUME RepoInv, NEW u \in UploadIds, NEW b \in Buckets, NEW k \in Keys,
         CreateMultipartUpload(u, b, k)
  PROVE  RepoInv'
<1> USE DEF RepoInv, CreateMultipartUpload
<1>1. /\ [bucket |-> b, key |-> k] \in Uploads
      /\ [bucket |-> b, key |-> k] # None
      /\ NoParts \in PartTables
      /\ NoParts # None
  BY SentinelAssumption DEF Uploads, NoParts, PartTables
<1>2. RepoTypeOK'
  BY <1>1 DEF RepoTypeOK
<1>3. ObjectsInBuckets' /\ EntriesNameTheirBucket'
  BY DEF ObjectsInBuckets, EntriesNameTheirBucket, ObjectExists, BucketExists
<1>4. PartsFollowUploads'
  BY <1>1 DEF RepoTypeOK, PartsFollowUploads, UploadExists
<1>5. QED
  BY <1>2, <1>3, <1>4

\* Saving a part of an open upload preserves the invariant.
LEMMA SaveMultipartPartInv ==
  ASSUME RepoInv, NEW u \in UploadIds, NEW n \in PartNumbers, NEW e \in ETags,
         SaveMultipartPart(u, n, e)
  PROVE  RepoInv'
<1> USE DEF RepoInv, SaveMultipartPart
<1> DEFINE before == IF parts[u] = None THEN NoParts ELSE parts[u]
           after  == [before EXCEPT ![n] = e]
<1>1. before \in PartTables
  BY DEF RepoTypeOK, NoParts, PartTables
<1>2. after \in PartTables /\ after # None
  BY <1>1, SentinelAssumption DEF PartTables
<1>3. parts' = [parts EXCEPT ![u] = after]
  OBVIOUS
<1> HIDE DEF after
<1>4. RepoTypeOK'
  BY <1>2, <1>3 DEF RepoTypeOK
<1>5. ObjectsInBuckets' /\ EntriesNameTheirBucket'
  BY DEF ObjectsInBuckets, EntriesNameTheirBucket, ObjectExists, BucketExists
<1>6. PartsFollowUploads'
  BY <1>2, <1>3 DEF RepoTypeOK, PartsFollowUploads, UploadExists
<1>7. QED
  BY <1>4, <1>5, <1>6

\* Forgetting an upload preserves the invariant.
LEMMA DeleteMultipartUploadInv ==
  ASSUME RepoInv, NEW u \in UploadIds, DeleteMultipartUpload(u)
  PROVE  RepoInv'
<1> USE DEF RepoInv, DeleteMultipartUpload
<1>1. RepoTypeOK'
  BY DEF RepoTypeOK
<1>2. ObjectsInBuckets' /\ EntriesNameTheirBucket'
  BY DEF ObjectsInBuckets, EntriesNameTheirBucket, ObjectExists, BucketExists
<1>3. PartsFollowUploads'
  BY DEF RepoTypeOK, PartsFollowUploads, UploadExists
<1>4. QED
  BY <1>1, <1>2, <1>3

\* Creating a stream preserves the invariant.
LEMMA CreateStreamInv ==
  ASSUME RepoInv, NEW s \in StreamIds, NEW b \in Buckets, CreateStream(s, b)
  PROVE  RepoInv'
<1> USE DEF RepoInv, CreateStream
<1>1. RepoTypeOK'
  BY DEF RepoTypeOK
<1>2. ObjectsInBuckets' /\ EntriesNameTheirBucket' /\ PartsFollowUploads'
  BY DEF ObjectsInBuckets, EntriesNameTheirBucket, PartsFollowUploads,
         ObjectExists, BucketExists, UploadExists
<1>3. QED
  BY <1>1, <1>2

\* A step that leaves the tables alone preserves the invariant.
LEMMA RepoStutterInv == RepoInv /\ UNCHANGED repoVars => RepoInv'
  BY DEF repoVars, RepoInv, RepoTypeOK, ObjectsInBuckets, EntriesNameTheirBucket,
         PartsFollowUploads, ObjectExists, BucketExists, UploadExists

\* Whatever method is called, the invariant survives it.
LEMMA RepoNextInv ==
  ASSUME RepoInv, [RepoNext]_repoVars
  PROVE  RepoInv'
<1>1. CASE UNCHANGED repoVars
  BY <1>1, RepoStutterInv
<1>2. ASSUME NEW b \in Buckets, NEW p \in Policies, CreateBucket(b, p)
      PROVE  RepoInv'
  BY <1>2, BucketPolicyInv
<1>3. ASSUME NEW old \in Buckets, NEW new \in Buckets, NEW p \in Policies,
             UpdateBucket(old, new, p)
      PROVE  RepoInv'
  BY <1>3, BucketPolicyInv, RenameBucketInv DEF UpdateBucket
<1>4. ASSUME NEW b \in Buckets, DeleteBucket(b)
      PROVE  RepoInv'
  BY <1>4, DeleteBucketInv
<1>5. ASSUME NEW b \in Buckets, DeleteBucketRecursive(b)
      PROVE  RepoInv'
  BY <1>5, DeleteBucketRecursiveInv
<1>6. ASSUME NEW b \in Buckets, NEW k \in Keys, NEW body \in Bodies,
             UpsertObject(b, k, ETag(body))
      PROVE  RepoInv'
  BY <1>6, ETagType, UpsertObjectInv
<1>7. ASSUME NEW b \in Buckets, NEW k \in Keys, DeleteObject(b, k)
      PROVE  RepoInv'
  BY <1>7, DeleteObjectInv
<1>8. ASSUME NEW u \in UploadIds, NEW b \in Buckets, NEW k \in Keys,
             CreateMultipartUpload(u, b, k)
      PROVE  RepoInv'
  BY <1>8, CreateMultipartUploadInv
<1>9. ASSUME NEW u \in UploadIds, NEW n \in PartNumbers, NEW body \in Bodies,
             SaveMultipartPart(u, n, ETag(body))
      PROVE  RepoInv'
  BY <1>9, ETagType, SaveMultipartPartInv
<1>10. ASSUME NEW u \in UploadIds, DeleteMultipartUpload(u)
       PROVE  RepoInv'
  BY <1>10, DeleteMultipartUploadInv
<1>11. ASSUME NEW s \in StreamIds, NEW b \in Buckets, CreateStream(s, b)
       PROVE  RepoInv'
  BY <1>11, CreateStreamInv
<1>12. QED
  BY <1>1, <1>2, <1>3, <1>4, <1>5, <1>6, <1>7, <1>8, <1>9, <1>10, <1>11 DEF RepoNext

(***************************************************************************)
(* The theorems.                                                           *)
(***************************************************************************)

\* The invariant holds of every behaviour of the repository.
THEOREM RepoInvariant == RepoSpec => []RepoInv
<1>1. RepoInit => RepoInv
  BY RepoInitInv
<1>2. RepoInv /\ [RepoNext]_repoVars => RepoInv'
  BY RepoNextInv
<1>3. QED
  BY <1>1, <1>2, PTL DEF RepoSpec

\* Metadata never outlives its bucket, and a part table never outlives its
\* upload, in any behaviour of the repository.
THEOREM ObjectsAlwaysInBuckets == RepoSpec => []ObjectsInBuckets
<1>1. RepoInv => ObjectsInBuckets
  BY DEF RepoInv
<1>2. QED
  BY <1>1, RepoInvariant, PTL

\* A part table exists exactly while its upload is open.
THEOREM PartsAlwaysFollowUploads == RepoSpec => []PartsFollowUploads
<1>1. RepoInv => PartsFollowUploads
  BY DEF RepoInv
<1>2. QED
  BY <1>1, RepoInvariant, PTL

\* ListObjects and GetObject always agree on what a bucket holds.
THEOREM ListAlwaysAgreesWithGet == RepoSpec => []ListAgreesWithGet
<1>1. RepoInv => ListAgreesWithGet
  BY DEF RepoInv, EntriesNameTheirBucket, ListAgreesWithGet, Listed, ObjectExists
<1>2. QED
  BY <1>1, RepoInvariant, PTL

\* The tables are always well typed.
THEOREM RepoTypeCorrect == RepoSpec => []RepoTypeOK
<1>1. RepoInv => RepoTypeOK
  BY DEF RepoInv
<1>2. QED
  BY <1>1, RepoInvariant, PTL

\* A step in which one bucket goes and another comes is a rename, and carries
\* the objects, uploads and streams of the one to the other.
LEMMA RenameStep ==
  ASSUME RepoInv, RepoNext, NEW old \in Buckets, NEW new \in Buckets,
         BucketExists(old), buckets'[old] = None,
         ~BucketExists(new), buckets'[new] # None
  PROVE  RenameCarriesAll(old, new)
<1> USE DEF RepoInv
<1>1. old # new
  OBVIOUS
<1>2. buckets' # buckets
  BY DEF BucketExists
<1>3. ASSUME NEW b \in Buckets, NEW p,
             \/ buckets' = [buckets EXCEPT ![b] = p] /\ BucketExists(b)
             \/ buckets' = [buckets EXCEPT ![b] = p] /\ ~BucketExists(b)
      PROVE  FALSE
  BY <1>1, <1>3 DEF RepoTypeOK, BucketExists
<1>4. PICK a \in Buckets, b \in Buckets, p \in Policies : RenameBucketTo(a, b, p)
  BY <1>2, <1>3 DEF RepoNext, CreateBucket, UpdateBucket, SetBucketPolicy, DeleteBucket,
     DeleteBucketRecursive, UpsertObject, DeleteObject, CreateMultipartUpload,
     SaveMultipartPart, DeleteMultipartUpload, CreateStream
<1>5. a = old /\ b = new
  BY <1>1, <1>4, SentinelAssumption DEF RenameBucketTo, RepoTypeOK, BucketExists
<1>6. RenameBucketTo(old, new, p)
  BY <1>4, <1>5
<1>7. \A k \in Keys : objects'[new][k] = Rebucket(objects[old][k], new)
  <2> SUFFICES ASSUME NEW k \in Keys
               PROVE  objects'[new][k] = Rebucket(objects[old][k], new)
    OBVIOUS
  <2>1. objects'[new][k] = IF ObjectExists(old, k) THEN Rebucket(objects[old][k], new)
                           ELSE objects[new][k]
    BY <1>6 DEF RenameBucketTo, RepoTypeOK
  <2>2. objects[new][k] = None
    BY DEF ObjectsInBuckets, ObjectExists
  <2>3. QED
    BY <2>1, <2>2 DEF ObjectExists, Rebucket
<1>8. /\ \A u \in UploadsOf(old) : uploads'[u] = [uploads[u] EXCEPT !.bucket = new]
      /\ \A s \in StreamsOf(old) : streams'[s] = new
      /\ parts' = parts
  BY <1>6 DEF RenameBucketTo, UploadsOf, StreamsOf
<1>9. QED
  BY <1>7, <1>8 DEF RenameCarriesAll

\* Every rename of every behaviour carries all the bucket holds.
THEOREM RenamesAlwaysComplete == RepoSpec => RenamesAreComplete
<1>1. RepoInv /\ [RepoNext]_repoVars
        => [\A old, new \in Buckets :
              BucketExists(old) /\ ~BucketExists(old)' /\ ~BucketExists(new) /\ BucketExists(new)'
                => RenameCarriesAll(old, new)]_repoVars
  BY RenameStep DEF BucketExists
<1>2. QED
  BY <1>1, RepoInvariant, PTL DEF RepoSpec, RenamesAreComplete
=============================================================================
