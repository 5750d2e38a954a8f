---------------------------- MODULE ObjectService ----------------------------
(***************************************************************************)
(* The handlers that touch both the metadata of objects and their files:    *)
(* putObject, getObject, deleteObjectOrUpload and deleteBucket of           *)
(* internal/s3api/service.go, and uploadObject, publicObject, renameBucket  *)
(* and deleteBucket of internal/admin/service.go, over the in-memory        *)
(* repository and the local disk backend, which HybridBackend passes every  *)
(* call to when no NAS is configured.                                       *)
(*                                                                         *)
(* A handler is a sequence of repository methods and system calls with no   *)
(* lock around them; each is an action, and req[r].pc is where request r is *)
(* in its handler.  Bucket operations that are one repository call          *)
(* (createBucket, the S3 deleteBucket) are single actions.  The process may *)
(* stop at any point and start again with the old files and, without a      *)
(* database, an empty repository (main.go without DATABASE_URL).            *)
(*                                                                         *)
(* With a database the tables survive, and a repository call may fail, with *)
(* or without having had its effect: the context of the request is          *)
(* cancelled when its client goes away, and connections break.  That its    *)
(* methods are the actions of Repository is what module Postgres is about.  *)
(*                                                                         *)
(* Nothing in the code orders two requests for the same object, so metadata *)
(* and file may part for good when they overlap.  What the service promises *)
(* is therefore stated for requests that overlapped no conflicting one      *)
(* (solo) and for objects no overlap has touched since a request on its own *)
(* last wrote them (outside suspect), nor a request that was cut off half   *)
(* way.  Both are history variables: no                                     *)
(* handler reads them.                                                      *)
(***************************************************************************)
EXTENDS Repository, LocalStore

CONSTANTS
    Ops,        \* the kinds of request a run lets clients send
    Database    \* DATABASE_URL is set

ObjectWrites == {"put", "upload", "delete"}
ObjectReads  == {"get", "publicGet"}
BucketWrites == {"plainDelete", "forceDelete", "rename"}

\* In Postgres a rename rewrites PhysicalPath too, so renames are left to the
\* runs without a database.
ASSUME OpsAssumption ==
    /\ Ops \subseteq ObjectWrites \cup ObjectReads \cup BucketWrites
    /\ Database \in BOOLEAN
    /\ Database => "rename" \notin Ops

ASSUME KeysAssumption == Keys # {}

VARIABLES
    req,      \* req[r]: request r and where it is in its handler
    suspect   \* history: objects that conflicting requests may have torn

objectVars == <<repoVars, storeVars, req, suspect>>

Pcs == {"idle", "begin", "copy", "publish", "upsert", "openPath", "open", "unlink",
        "forget", "moveDir", "updateBucket", "dropBucket", "scan", "sweep", "dropAll",
        "ok", "answered"}

\* to: the new name of a rename.  body: what a put stores, or what a read was
\* answered.  entry: the metadata a read found.  from: the file it opened.
Request == [pc : Pcs, op : Ops, bucket : Buckets, key : Keys, to : Buckets,
            body : Body \cup {None}, entry : Entries \cup {None},
            from : Paths \cup {None}, solo : BOOLEAN]

Finished == {"idle", "ok", "answered"}
Active   == {r \in Requests : req[r].pc \notin Finished}
Writing  == {r \in Active : req[r].op \notin ObjectReads}

Touches(op, b, k, to) ==
    CASE op \in ObjectWrites \cup ObjectReads -> {Path(b, k)}
      [] op = "rename"                        -> {b, to} \X Keys
      [] OTHER                                -> {b} \X Keys

\* A removal follows the directory it holds open to its new name.
TouchedBy(r) ==
    Touches(req[r].op, req[r].bucket, req[r].key, req[r].to)
        \cup {p \in Paths : sweeps[r] # None /\ sweeps[r].dir = p[1]}

(***************************************************************************)
(* Initial state                                                           *)
(***************************************************************************)

NoRequest == [pc |-> "idle"]

ObjectInit ==
    /\ RepoInit
    /\ StoreInit
    /\ req = [r \in Requests |-> NoRequest]
    /\ suspect = {}

(***************************************************************************)
(* Where a handler goes next                                               *)
(***************************************************************************)

At(r, pc, ops) == req[r].pc = pc /\ req[r].op \in ops

Goto(r, pc) == req' = [req EXCEPT ![r].pc = pc]

\* A handler that answers ends; that it succeeded is kept.
Finish(r, outcome) == req' = [req EXCEPT ![r] = [pc |-> outcome]]

Fail(r) == req' = [req EXCEPT ![r] = NoRequest]

\* A step in the repository leaves the disk alone, and the other way round.
RepoStep  == UNCHANGED storeVars
StoreStep == UNCHANGED repoVars

\* A repository call that fails, although the rows would have allowed it.
CallFails(r, Effect) ==
    /\ Database
    /\ Effect \/ UNCHANGED repoVars
    /\ Fail(r)
    /\ suspect' = suspect \cup TouchedBy(r)

(***************************************************************************)
(* A request arrives.  The first repository call of putObject (GetBucket)   *)
(* and of the reads (GetObject) is part of its arrival; a request that it   *)
(* turns away changes nothing.                                              *)
(***************************************************************************)

FirstPc(op) ==
    CASE op \in {"put", "upload"} -> "begin"
      [] op = "delete"            -> "unlink"
      [] op = "get"               -> "open"
      [] op = "publicGet"         -> "openPath"
      [] op = "rename"            -> "moveDir"
      [] op = "plainDelete"       -> "dropBucket"
      [] op = "forceDelete"       -> "scan"

Admitted(op, b, k) ==
    CASE op = "put"            -> BucketExists(b)
      [] op \in ObjectReads    -> ObjectExists(b, k)
      [] OTHER                 -> TRUE

\* History: the writes in flight that touch what r touches, and what of it.
Rivals(r, op, b, k, to) ==
    {q \in (IF op \in ObjectReads THEN Writing ELSE Active) \ {r} :
        TouchedBy(q) \cap Touches(op, b, k, to) # {}}

Torn(rivals, op, b, k, to) ==
    IF op \in ObjectReads THEN {}
    ELSE UNION {TouchedBy(q) \cap Touches(op, b, k, to) : q \in rivals \cap Writing}

Arrive(r, op, b, k, to, body) ==
    /\ req[r].pc \in Finished
    /\ Admitted(op, b, k)
    /\ LET rivals == Rivals(r, op, b, k, to)
           clean  == op \in ObjectReads => Path(b, k) \notin suspect
       IN  /\ req' = [q \in Requests |->
                 IF q = r
                 THEN [pc |-> FirstPc(op), op |-> op, bucket |-> b, key |-> k, to |-> to,
                       body |-> body, from |-> None, solo |-> rivals = {} /\ clean,
                       entry |-> IF op \in ObjectReads THEN objects[b][k] ELSE None]
                 ELSE IF q \in rivals THEN [req[q] EXCEPT !.solo = FALSE] ELSE req[q]]
           /\ suspect' = suspect \cup Torn(rivals, op, b, k, to)
    /\ UNCHANGED <<repoVars, storeVars>>

\* The arguments an operation does not have take one arbitrary value.
Some(S) == CHOOSE x \in S : TRUE

Arrivals(r) ==
    \/ \E op \in Ops \cap {"put", "upload"}, b \in Buckets, k \in Keys, body \in Bodies :
          Arrive(r, op, b, k, b, body)
    \/ \E op \in Ops \cap ({"delete"} \cup ObjectReads), b \in Buckets, k \in Keys :
          Arrive(r, op, b, k, b, None)
    \/ \E op \in Ops \cap {"plainDelete", "forceDelete"}, b \in Buckets :
          Arrive(r, op, b, Some(Keys), b, None)
    \/ \E op \in Ops \cap {"rename"}, b, to \in Buckets :
          b # to /\ Arrive(r, op, b, Some(Keys), to, None)

(***************************************************************************)
(* putObject and uploadObject.  Nothing bounds how long a body takes to     *)
(* arrive (main.go sets ReadHeaderTimeout only).                            *)
(***************************************************************************)

Puts == {"put", "upload"}

BeginPut(r) ==
    /\ At(r, "begin", Puts)
    /\ \/ CreateTemp(r, req[r].bucket) /\ Goto(r, "copy")
       \/ CreateTempFails(req[r].bucket) /\ Fail(r)
    /\ StoreStep /\ UNCHANGED suspect

\* Mutant: the error of io.Copy is ignored.
ReceiveBodyUnchecked(r) ==
    /\ At(r, "copy", Puts)
    /\ CopyBody(r, req[r].body) \/ UNCHANGED storeVars
    /\ Goto(r, "publish")
    /\ StoreStep /\ UNCHANGED suspect

ReceiveBody(r) ==
    /\ At(r, "copy", Puts)
    /\ \/ CopyBody(r, req[r].body) /\ Goto(r, "publish")
       \/ RemoveTemp(r) /\ Fail(r)
    /\ StoreStep /\ UNCHANGED suspect

PublishPut(r) ==
    /\ At(r, "publish", Puts)
    /\ \/ Publish(r, req[r].bucket, req[r].key) /\ Goto(r, "upsert")
       \/ PublishFails(r, req[r].bucket) /\ Fail(r)
    /\ StoreStep /\ UNCHANGED suspect

\* History: a write that met no other makes its object whole again.
Heal(r) ==
    suspect' = IF req[r].solo THEN suspect \ TouchedBy(r) ELSE suspect

\* Mutant: metadata that is there already is kept.
UpsertPutOnce(r) ==
    /\ At(r, "upsert", Puts)
    /\ \/ /\ ~ObjectExists(req[r].bucket, req[r].key)
          /\ UpsertObject(req[r].bucket, req[r].key, ETag(req[r].body))
       \/ ObjectExists(req[r].bucket, req[r].key) /\ UNCHANGED repoVars
    /\ Finish(r, "ok") /\ Heal(r)
    /\ RepoStep

\* Mutant: the error of UpsertObject is ignored.
UpsertPutUnchecked(r) ==
    /\ At(r, "upsert", Puts)
    /\ \/ UpsertObject(req[r].bucket, req[r].key, ETag(req[r].body))
       \/ ~BucketExists(req[r].bucket) /\ UNCHANGED repoVars
    /\ Finish(r, "ok") /\ Heal(r)
    /\ RepoStep

UpsertPut(r) ==
    /\ At(r, "upsert", Puts)
    /\ \/ /\ UpsertObject(req[r].bucket, req[r].key, ETag(req[r].body))
          /\ Finish(r, "ok") /\ Heal(r)
       \/ /\ ~BucketExists(req[r].bucket)
          /\ Fail(r) /\ UNCHANGED <<repoVars, suspect>>
       \/ CallFails(r, UpsertObject(req[r].bucket, req[r].key, ETag(req[r].body)))
    /\ RepoStep

(***************************************************************************)
(* getObject and publicObject.  The file is opened after the metadata was   *)
(* read; once open, its content cannot change.                              *)
(***************************************************************************)

Answer(r, path) ==
    req' = [req EXCEPT ![r].pc = "answered", ![r].from = path,
                       ![r].body = files[path[1]][path[2]]]

\* servePhysicalObject: the path in the metadata, before the object's own.
OpenPhysical(r) ==
    /\ At(r, "openPath", {"publicGet"})
    /\ LET path == req[r].entry.path
       IN  IF FileExists(path[1], path[2]) THEN Answer(r, path) ELSE Goto(r, "open")
    /\ UNCHANGED <<repoVars, storeVars, suspect>>

OpenObject(r) ==
    /\ At(r, "open", ObjectReads)
    /\ IF FileExists(req[r].bucket, req[r].key)
       THEN Answer(r, Path(req[r].bucket, req[r].key))
       ELSE Fail(r)
    /\ UNCHANGED <<repoVars, storeVars, suspect>>

(***************************************************************************)
(* deleteObject: the file first, and whatever becomes of that, the metadata *)
(***************************************************************************)

UnlinkObject(r) ==
    /\ At(r, "unlink", {"delete"})
    /\ UnlinkFile(req[r].bucket, req[r].key) \/ UNCHANGED storeVars
    /\ Goto(r, "forget")
    /\ StoreStep /\ UNCHANGED suspect

ForgetObject(r) ==
    /\ At(r, "forget", {"delete"})
    /\ \/ /\ DeleteObject(req[r].bucket, req[r].key)
          /\ Finish(r, "ok") /\ Heal(r)
       \/ /\ ~ObjectExists(req[r].bucket, req[r].key)
          /\ Fail(r) /\ UNCHANGED <<repoVars, suspect>>
       \/ CallFails(r, DeleteObject(req[r].bucket, req[r].key))
    /\ RepoStep

(***************************************************************************)
(* renameBucket: the directory first, then the metadata.  The move is not   *)
(* undone when UpdateBucket refuses, so a refused rename leaves the objects *)
(* of the old name without their files: the history marks them.             *)
(***************************************************************************)

MoveBucketDir(r) ==
    /\ At(r, "moveDir", {"rename"})
    /\ LET old == req[r].bucket
           new == req[r].to
       IN  \/ (MoveDir(old, new) \/ MoveDirNoop(old)) /\ Goto(r, "updateBucket")
           \/ MoveDirFails(old, new) /\ Fail(r)
    /\ StoreStep /\ UNCHANGED suspect

UpdateBucketMeta(r) ==
    /\ At(r, "updateBucket", {"rename"})
    /\ LET old == req[r].bucket
           new == req[r].to
       IN  \/ /\ RenameBucketTo(old, new, Private)
              /\ Finish(r, "ok")
              /\ suspect' = suspect
                    \cup {Path(new, k) : k \in {j \in Keys : Path(old, j) \in suspect}}
           \/ /\ ~BucketExists(old) \/ BucketExists(new)
              /\ Fail(r)
              /\ suspect' = suspect \cup ({old} \X Keys)
              /\ UNCHANGED repoVars
    /\ RepoStep

(***************************************************************************)
(* The admin deleteBucket.  Plain: the metadata of an empty bucket, then    *)
(* its directory.  With force: the directory, then the metadata of all that *)
(* is in the bucket.  HybridBackend.DeleteBucket drops the error of a       *)
(* directory that could not be removed, so both go on regardless.           *)
(***************************************************************************)

DropBucketMeta(r) ==
    /\ At(r, "dropBucket", {"plainDelete"})
    /\ \/ DeleteBucket(req[r].bucket) /\ Goto(r, "scan") /\ UNCHANGED suspect
       \/ /\ ~BucketExists(req[r].bucket) \/ ~BucketEmpty(req[r].bucket)
          /\ Fail(r) /\ UNCHANGED <<repoVars, suspect>>
       \/ CallFails(r, DeleteBucket(req[r].bucket))
    /\ RepoStep

Removes == {"plainDelete", "forceDelete"}

\* Mutant: the metadata of what was in the bucket is left.
AfterSweepDone(r) == Finish(r, "ok")

AfterSweep(r) ==
    IF req[r].op = "forceDelete" THEN Goto(r, "dropAll") ELSE Finish(r, "ok")

ScanBucketDir(r) ==
    /\ At(r, "scan", Removes)
    /\ \/ StartSweep(r, req[r].bucket) /\ Goto(r, "sweep")
       \/ SweepNoop(req[r].bucket) /\ AfterSweep(r)
    /\ StoreStep /\ UNCHANGED suspect

SweepBucketDir(r) ==
    /\ At(r, "sweep", Removes)
    /\ \/ \E k \in Keys : SweepFile(r, k) /\ UNCHANGED req
       \/ \E q \in Requests : SweepTemp(r, q) /\ UNCHANGED req
       \/ (RemoveDir(r, req[r].bucket) \/ RemoveDirFails(r, req[r].bucket)) /\ AfterSweep(r)
    /\ StoreStep /\ UNCHANGED suspect

DropBucketAndObjects(r) ==
    /\ At(r, "dropAll", {"forceDelete"})
    /\ \/ DeleteBucketRecursive(req[r].bucket) /\ Finish(r, "ok") /\ Heal(r)
       \/ /\ ~BucketExists(req[r].bucket)
          /\ Fail(r) /\ UNCHANGED <<repoVars, suspect>>
       \/ CallFails(r, DeleteBucketRecursive(req[r].bucket))
    /\ RepoStep

(***************************************************************************)
(* Bucket requests that are one repository call, and the end of the process *)
(***************************************************************************)

CreateBucketRequest ==
    /\ \E b \in Buckets : CreateBucket(b, Private)
    /\ UNCHANGED <<storeVars, req, suspect>>

\* The S3 deleteBucket leaves the directory behind.
DeleteBucketRequest ==
    /\ \E b \in Buckets : DeleteBucket(b)
    /\ UNCHANGED <<storeVars, req, suspect>>

\* History: the writes that a stop of the process cuts off between the file
\* and the metadata.
Halfway == {r \in Writing : req[r].pc \notin
              {"begin", "copy", "publish", "unlink", "moveDir", "dropBucket"}}

ForgetAll ==
    /\ buckets' = [b \in Buckets |-> None]
    /\ objects' = [b \in Buckets |-> NoObjects]
    /\ uploads' = [u \in UploadIds |-> None]
    /\ parts'   = [u \in UploadIds |-> None]
    /\ streams' = [s \in StreamIds |-> None]

\* A database that cannot be reached at the start keeps the process from
\* starting: there is no way back to the in-memory repository.
Restart ==
    /\ \/ /\ Database
          /\ UNCHANGED repoVars
          /\ suspect' = suspect \cup UNION {TouchedBy(r) : r \in Halfway}
       \/ /\ ~Database
          /\ ForgetAll
          /\ suspect' = {}
    /\ LoseRequests
    /\ req' = [r \in Requests |-> NoRequest]

(***************************************************************************)
(* The specification                                                       *)
(***************************************************************************)

\* What the server does on its own once the body of a put has arrived.
ServerStep(r) ==
    \/ BeginPut(r) \/ PublishPut(r) \/ UpsertPut(r)
    \/ OpenPhysical(r) \/ OpenObject(r)
    \/ UnlinkObject(r) \/ ForgetObject(r)
    \/ MoveBucketDir(r) \/ UpdateBucketMeta(r)
    \/ DropBucketMeta(r) \/ ScanBucketDir(r) \/ SweepBucketDir(r) \/ DropBucketAndObjects(r)

ObjectNext ==
    \/ \E r \in Requests : Arrivals(r) \/ ReceiveBody(r) \/ ServerStep(r)
    \/ CreateBucketRequest
    \/ DeleteBucketRequest
    \/ Restart

ObjectSpec == ObjectInit /\ [][ObjectNext]_objectVars

\* A goroutine that can take a step takes it; clients owe nothing, so neither
\* arrivals nor the arrival of a body are fair.
FairObjectSpec == ObjectSpec /\ \A r \in Requests : WF_objectVars(ServerStep(r))

(***************************************************************************)
(* Properties                                                              *)
(***************************************************************************)

\* Type invariant of the handlers: requests in flight carry the arguments and
\* the results their step needs.
ObjectTypeOK ==
    /\ RepoTypeOK
    /\ StoreTypeOK
    /\ req \in [Requests -> Request \cup [pc : Finished]]
    /\ suspect \subseteq Paths

\* A reader of the disk never meets half an upload: what is visible at the path
\* of an object is at every moment one body that some client sent in full,
\* whichever puts, renames, removals and restarts run at the same time
\* (LocalDiskBackend.Put copies to a temporary file and renames it).
WholeFiles == \A b \in Buckets, k \in Keys : files[b][k] \in Bodies \cup {None}

Quiet(b, k) == \A r \in Writing : Path(b, k) \notin TouchedBy(r)

Matches(b, k) == FileExists(b, k) /\ ETag(files[b][k]) = objects[b][k].etag

\* Between writes, the metadata of an object describes the file at its path:
\* the two-step handlers (file and metadata, in either order) leave the stores
\* in step unless conflicting requests overlapped or a rename was refused.
Settled ==
    \A b \in Buckets, k \in Keys :
        ObjectExists(b, k) /\ Path(b, k) \notin suspect /\ Quiet(b, k) => Matches(b, k)

\* A read that overlapped no write of its object is answered, from the object's
\* own path, with the body whose ETag is in its header, though the metadata was
\* read before the file was opened.  (publicObject may also be answered from
\* the path in the metadata, which is stale after a rename.)
ReadsMatch ==
    \A r \in Requests :
        req[r].pc = "answered" /\ req[r].solo /\ req[r].from = Path(req[r].bucket, req[r].key)
            => ETag(req[r].body) = req[r].entry.etag

\* A put that overlapped no conflicting request and is answered 200 has stored
\* its own body and its own metadata, whatever tore the object before it and
\* whatever buckets were created, or deleted while empty, in the meantime.
AcknowledgedPutsStored ==
    [][\A r \in Requests :
          req[r].pc = "upsert" /\ req'[r].pc = "ok" /\ req[r].solo
             => LET b == req[r].bucket
                    k == req[r].key
                IN  /\ files'[b][k] = req[r].body
                    /\ objects'[b][k] = Entry(b, k, ETag(req[r].body))]_objectVars

\* An admin removal of a bucket that overlapped no conflicting request and is
\* answered 204 has left no file and no directory, so a bucket created later
\* under the same name starts empty and the name is free for a rename.
AcknowledgedRemovalsReclaim ==
    [][\A r \in Requests :
          req[r].pc \in {"sweep", "scan", "dropAll"} /\ req'[r].pc = "ok" /\ req[r].solo
             => /\ files'[req[r].bucket] = NoFiles
                /\ req[r].bucket \notin dirs']_objectVars

Dangling(b, k) == ObjectExists(b, k) /\ ~FileExists(b, k) /\ Path(b, k) \notin suspect

\* Metadata without a file is only ever a moment in a delete, a removal or a
\* rename: it comes to an end each time (which is Dangling ~> ~Dangling), unless
\* conflicting requests tear the object.
DanglingIsTransient ==
    \A b \in Buckets, k \in Keys : []<>~Dangling(b, k)
=============================================================================
