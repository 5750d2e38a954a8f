----------------------------- MODULE Repository -----------------------------
(***************************************************************************)
(* The bucket, object, multipart and stream tables of the in-memory         *)
(* repository (internal/meta/memory.go).                                    *)
(*                                                                         *)
(* Every method of MemoryRepository runs under one RWMutex, so a method is  *)
(* one action.  The guard of an action is the condition under which the     *)
(* method succeeds; a method that returns an error changes nothing.  A Go   *)
(* map is a total function in which None stands for an absent key.          *)
(*                                                                         *)
(* Users, access keys, policies, settings and the audit log share the same  *)
(* struct but none of the methods below reads or writes them.               *)
(***************************************************************************)
EXTENDS StoreTypes

CONSTANTS
    Policies,      \* bucket policies
    Private,       \* the policy given to a bucket created without one
    UploadIds,     \* ids of multipart uploads
    PartNumbers,   \* part numbers
    StreamIds      \* ids of streams

ASSUME SentinelAssumption ==
    /\ Private \in Policies
    /\ None \notin Policies \cup Buckets \cup ETags
    /\ None \notin [bucket : Buckets, etag : ETags, path : Paths]
    /\ None \notin [bucket : Buckets, key : Keys]
    /\ None \notin [PartNumbers -> ETags \cup {None}]

VARIABLES
    buckets,   \* buckets[b]: the policy of bucket b
    objects,   \* objects[b][k]: the metadata stored under objectID(b, k)
    uploads,   \* uploads[u]: the bucket and key an open upload will write
    parts,     \* parts[u][n]: the ETag of the saved part n of upload u
    streams    \* streams[s]: the bucket a stream belongs to

repoVars == <<buckets, objects, uploads, parts, streams>>

(***************************************************************************)
(* Values                                                                  *)
(***************************************************************************)

\* The metadata of an object.  path is PhysicalPath: the file that held the
\* body when the metadata was written.
Entries == [bucket : Buckets, etag : ETags, path : Paths]

\* The metadata every caller of UpsertObject builds: bucket and key come from
\* the request, the rest from the backend that has just stored the body.
EntrySwapped(b, k, etag) == [bucket |-> b, etag |-> etag, path |-> Path(k, b)]   \* mutant

Entry(b, k, etag) == [bucket |-> b, etag |-> etag, path |-> Path(b, k)]

Uploads == [bucket : Buckets, key : Keys]

PartTables == [PartNumbers -> ETags \cup {None}]

NoObjects == [k \in Keys |-> None]
NoParts   == [n \in PartNumbers |-> None]

\* Type invariant: the tables hold what the callers of the repository store,
\* and PhysicalPath is the path of some bucket and key.
RepoTypeOK ==
    /\ buckets \in [Buckets -> Policies \cup {None}]
    /\ objects \in [Buckets -> [Keys -> Entries \cup {None}]]
    /\ uploads \in [UploadIds -> Uploads \cup {None}]
    /\ parts   \in [UploadIds -> PartTables \cup {None}]
    /\ streams \in [StreamIds -> Buckets \cup {None}]

BucketExists(b) == buckets[b] # None
ObjectExists(b, k) == objects[b][k] # None
UploadExists(u) == uploads[u] # None
BucketEmpty(b) == \A k \in Keys : ~ObjectExists(b, k)

UploadsOf(b) == {u \in UploadIds : UploadExists(u) /\ uploads[u].bucket = b}
StreamsOf(b) == {s \in StreamIds : streams[s] = b}

\* What ListObjects returns without a prefix, a cursor or a limit: it selects
\* by the Bucket field of the metadata, not by the key of the map.
Listed(b) ==
    {k \in Keys : \E c \in Buckets : ObjectExists(c, k) /\ objects[c][k].bucket = b}

(***************************************************************************)
(* Initial state                                                           *)
(***************************************************************************)

RepoInit ==
    /\ buckets = [b \in Buckets |-> None]
    /\ objects = [b \in Buckets |-> NoObjects]
    /\ uploads = [u \in UploadIds |-> None]
    /\ parts   = [u \in UploadIds |-> None]
    /\ streams = [s \in StreamIds |-> None]

(***************************************************************************)
(* Buckets                                                                 *)
(***************************************************************************)

CreateBucket(b, policy) ==
    /\ ~BucketExists(b)
    /\ buckets' = [buckets EXCEPT ![b] = policy]
    /\ UNCHANGED <<objects, uploads, parts, streams>>

\* UpdateBucket with oldName = newName only sets the policy.
SetBucketPolicy(b, policy) ==
    /\ BucketExists(b)
    /\ buckets' = [buckets EXCEPT ![b] = policy]
    /\ UNCHANGED <<objects, uploads, parts, streams>>

\* Mutant: the objects keep the name of their old bucket.
RebucketForgotten(entry, b) == entry

\* An object's metadata under its new bucket; PhysicalPath keeps the old name.
Rebucket(entry, b) == IF entry = None THEN None ELSE [entry EXCEPT !.bucket = b]

\* Mutant: the name changes and what it names stays behind.
RenameBucketAlone(old, new, policy) ==
    /\ old # new
    /\ BucketExists(old)
    /\ ~BucketExists(new)
    /\ buckets' = [buckets EXCEPT ![old] = None, ![new] = policy]
    /\ UNCHANGED <<objects, uploads, parts, streams>>

RenameBucketTo(old, new, policy) ==
    /\ old # new
    /\ BucketExists(old)
    /\ ~BucketExists(new)
    /\ buckets' = [buckets EXCEPT ![old] = None, ![new] = policy]
    /\ objects' = [objects EXCEPT
         ![old] = NoObjects,
         ![new] = [k \in Keys |-> IF ObjectExists(old, k)
                                  THEN Rebucket(objects[old][k], new)
                                  ELSE objects[new][k]]]
    /\ uploads' = [u \in UploadIds |-> IF u \in UploadsOf(old)
                                       THEN [uploads[u] EXCEPT !.bucket = new]
                                       ELSE uploads[u]]
    /\ streams' = [s \in StreamIds |-> IF s \in StreamsOf(old) THEN new ELSE streams[s]]
    /\ UNCHANGED parts

UpdateBucket(old, new, policy) ==
    \/ old = new /\ SetBucketPolicy(old, policy)
    \/ RenameBucketTo(old, new, policy)

\* Mutant: nobody looks for objects.
DeleteBucketUnchecked(b) ==
    /\ BucketExists(b)
    /\ buckets' = [buckets EXCEPT ![b] = None]
    /\ UNCHANGED <<objects, uploads, parts, streams>>

\* Uploads and streams of the bucket stay behind.
DeleteBucket(b) ==
    /\ BucketExists(b)
    /\ BucketEmpty(b)
    /\ buckets' = [buckets EXCEPT ![b] = None]
    /\ UNCHANGED <<objects, uploads, parts, streams>>

DeleteBucketRecursive(b) ==
    /\ BucketExists(b)
    /\ buckets' = [buckets EXCEPT ![b] = None]
    /\ objects' = [objects EXCEPT ![b] = NoObjects]
    /\ uploads' = [u \in UploadIds |-> IF u \in UploadsOf(b) THEN None ELSE uploads[u]]
    /\ parts'   = [u \in UploadIds |-> IF u \in UploadsOf(b) THEN None ELSE parts[u]]
    /\ streams' = [s \in StreamIds |-> IF s \in StreamsOf(b) THEN None ELSE streams[s]]

(***************************************************************************)
(* Objects                                                                 *)
(***************************************************************************)

UpsertObject(b, k, etag) ==
    /\ BucketExists(b)
    /\ objects' = [objects EXCEPT ![b][k] = Entry(b, k, etag)]
    /\ UNCHANGED <<buckets, uploads, parts, streams>>

DeleteObject(b, k) ==
    /\ ObjectExists(b, k)
    /\ objects' = [objects EXCEPT ![b][k] = None]
    /\ UNCHANGED <<buckets, uploads, parts, streams>>

(***************************************************************************)
(* Multipart uploads                                                       *)
(***************************************************************************)

CreateMultipartUpload(u, b, k) ==
    /\ BucketExists(b)
    /\ uploads' = [uploads EXCEPT ![u] = [bucket |-> b, key |-> k]]
    /\ parts'   = [parts EXCEPT ![u] = NoParts]
    /\ UNCHANGED <<buckets, objects, streams>>

SaveMultipartPart(u, n, etag) ==
    /\ UploadExists(u)
    /\ parts' = [parts EXCEPT
         ![u] = [(IF parts[u] = None THEN NoParts ELSE parts[u]) EXCEPT ![n] = etag]]
    /\ UNCHANGED <<buckets, objects, uploads, streams>>

\* Mutant: the table of parts stays.
DeleteUploadOnly(u) ==
    /\ uploads' = [uploads EXCEPT ![u] = None]
    /\ UNCHANGED <<buckets, objects, parts, streams>>

DeleteMultipartUpload(u) ==
    /\ uploads' = [uploads EXCEPT ![u] = None]
    /\ parts'   = [parts EXCEPT ![u] = None]
    /\ UNCHANGED <<buckets, objects, streams>>

(***************************************************************************)
(* Streams                                                                 *)
(***************************************************************************)

\* Neither the repository nor the handler checks that the bucket exists.
CreateStream(s, b) ==
    /\ streams' = [streams EXCEPT ![s] = b]
    /\ UNCHANGED <<buckets, objects, uploads, parts>>

(***************************************************************************)
(* The repository on its own: any caller, any call.  Upload and stream ids  *)
(* are fresh random values (randomHex(16), randomID), so an id is in use    *)
(* when it is created only if nothing removed it in between.                *)
(***************************************************************************)

RepoNext ==
    \/ \E b \in Buckets, p \in Policies : CreateBucket(b, p)
    \/ \E old, new \in Buckets, p \in Policies : UpdateBucket(old, new, p)
    \/ \E b \in Buckets : DeleteBucket(b)
    \/ \E b \in Buckets : DeleteBucketRecursive(b)
    \/ \E b \in Buckets, k \in Keys, body \in Bodies : UpsertObject(b, k, ETag(body))
    \/ \E b \in Buckets, k \in Keys : DeleteObject(b, k)
    \/ \E u \in UploadIds, b \in Buckets, k \in Keys :
         ~UploadExists(u) /\ CreateMultipartUpload(u, b, k)
    \/ \E u \in UploadIds, n \in PartNumbers, body \in Bodies :
         SaveMultipartPart(u, n, ETag(body))
    \/ \E u \in UploadIds : DeleteMultipartUpload(u)
    \/ \E s \in StreamIds, b \in Buckets : streams[s] = None /\ CreateStream(s, b)

RepoSpec == RepoInit /\ [][RepoNext]_repoVars

(***************************************************************************)
(* Properties                                                              *)
(***************************************************************************)

\* Metadata never outlives its bucket: an object that GetObject finds is in a
\* bucket that GetBucket finds (DeleteBucket refuses a bucket with objects,
\* UpdateBucket takes them along, UpsertObject checks the bucket).
ObjectsInBuckets ==
    \A b \in Buckets, k \in Keys : ObjectExists(b, k) => BucketExists(b)

\* ListObjects, which selects by the Bucket field of the metadata, and
\* GetObject, which looks up the key of the map, agree on what a bucket holds.
ListAgreesWithGet ==
    \A b \in Buckets : Listed(b) = {k \in Keys : ObjectExists(b, k)}

\* An upload has a table of parts exactly while it is open, so a part is never
\* saved for, or listed from, an upload that is gone, and the branch of
\* SaveMultipartPart that creates a missing table is never taken.
PartsFollowUploads ==
    \A u \in UploadIds : UploadExists(u) <=> parts[u] # None

\* When a bucket gives way to another, the new name holds the old one's
\* objects and nothing else, and every upload and stream of the old name moves
\* to the new one, so nothing is left that names a bucket which was renamed.
RenameCarriesAll(old, new) ==
    /\ \A k \in Keys : objects'[new][k] = Rebucket(objects[old][k], new)
    /\ \A u \in UploadsOf(old) : uploads'[u] = [uploads[u] EXCEPT !.bucket = new]
    /\ \A s \in StreamsOf(old) : streams'[s] = new
    /\ parts' = parts

RenamesAreComplete ==
    [][\A old, new \in Buckets :
          BucketExists(old) /\ ~BucketExists(old)' /\ ~BucketExists(new) /\ BucketExists(new)'
             => RenameCarriesAll(old, new)]_repoVars
=============================================================================
