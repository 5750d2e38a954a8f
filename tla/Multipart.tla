------------------------------ MODULE Multipart ------------------------------
(***************************************************************************)
(* Multipart uploads: createMultipartUpload, uploadPart,                    *)
(* completeMultipartUpload and the abort branch of deleteObjectOrUpload     *)
(* (internal/s3api/service.go) over the repository and the part half of the *)
(* local disk backend (internal/storage/local.go).  With Database the       *)
(* tables are those of Postgres: they outlive the process, and any call on  *)
(* them may fail, before or after it has taken effect.                      *)
(*                                                                         *)
(* SaveMultipartPart and DeleteMultipart make the same system calls as Put  *)
(* and DeleteBucket, with the directory of the upload in place of that of   *)
(* the bucket and one file per part, so the part files are an instance of   *)
(* LocalStore.  The object a completed upload writes is taken in one step:  *)
(* its temporary file is seen by nobody (ObjectService models that write).  *)
(*                                                                         *)
(* racy, torn and solo are history variables that no handler reads: racy    *)
(* holds the parts whose last uploads overlapped or were not recorded, torn *)
(* the uploads that a removal could not forget, solo the requests that met  *)
(* no upload of a part they use.                                            *)
(***************************************************************************)
EXTENDS Repository, Naturals

CONSTANTS
    Requests,    \* the requests in flight
    PartLists,   \* the lists of parts that clients ask to complete
    Database     \* DATABASE_URL is set

\* A list names parts by number, each with an ETag or without one; the empty
\* list stands for every saved part.
Wanted == [number : PartNumbers, etag : ETags \cup {None}]

ASSUME PartListsAssumption == PartLists \subseteq Seq(Wanted)

ASSUME DatabaseAssumption == Database \in BOOLEAN

VARIABLES
    partDirs, partFiles, partTemps, partSweeps,   \* the directories of uploads
    issued,   \* the upload ids that have been handed out
    mreq,     \* mreq[r]: request r and where it is in its handler
    racy,     \* history: parts whose file and metadata may come from two uploads
    torn      \* history: uploads whose directory may be removed while they are open

PartStore == INSTANCE LocalStore
    WITH Buckets <- UploadIds, Keys <- PartNumbers, dirs <- partDirs,
         files <- partFiles, temps <- partTemps, sweeps <- partSweeps

ASSUME PartSentinelAssumption ==
    None \notin PartStore!Temps \cup PartStore!Sweeps \cup UploadIds

partVars == <<partDirs, partFiles, partTemps, partSweeps>>

multipartVars == <<repoVars, partVars, issued, mreq, racy, torn>>

(***************************************************************************)
(* Requests                                                                *)
(***************************************************************************)

PartPcs     == {"begin", "copy", "publish", "save"}
CompletePcs == {"list", "open", "put", "upsert"}
DropPcs     == {"forget", "scan", "sweep"}
Finished    == {"idle", "ok", "failed"}

PartRequest == [pc : PartPcs, upload : UploadIds,
                number : PartNumbers, body : Body, solo : BOOLEAN]

\* target: the upload as GetMultipartUpload returned it.  saved: the parts as
\* ListMultipartParts returned them.  list, all: what is left to open.  body:
\* the content of the files opened so far, as MultiReader will concatenate it.
CompleteRequest == [pc : CompletePcs, upload : UploadIds,
                    target : Uploads, list : Seq(Wanted), all : SUBSET PartNumbers,
                    saved : PartTables \cup {None}, body : Body, solo : BOOLEAN]

\* What abort does, and complete once the object is stored.
DropRequest == [pc : DropPcs, upload : UploadIds, solo : BOOLEAN]

FinishedRequest == [pc : Finished]

MultipartRequests == PartRequest \cup CompleteRequest \cup DropRequest \cup FinishedRequest

Uploading(u)  == {r \in Requests : mreq[r].pc \in PartPcs /\ mreq[r].upload = u}
Completing(u) == {r \in Requests : mreq[r].pc \in CompletePcs /\ mreq[r].upload = u}
Dropping(u)   == {r \in Requests : mreq[r].pc \in DropPcs /\ mreq[r].upload = u}

Goto(r, pc)        == mreq' = [mreq EXCEPT ![r].pc = pc]
Finish(r, outcome) == mreq' = [mreq EXCEPT ![r] = [pc |-> outcome]]

MultipartInit ==
    /\ RepoInit
    /\ PartStore!StoreInit
    /\ issued = {}
    /\ mreq = [r \in Requests |-> [pc |-> "idle"]]
    /\ racy = {}
    /\ torn = {}

(***************************************************************************)
(* createMultipartUpload: a random id, so never one handed out before.      *)
(***************************************************************************)

CreateUpload(u) ==
    /\ u \notin issued
    /\ \E b \in Buckets, k \in Keys : CreateMultipartUpload(u, b, k)
    /\ issued' = issued \cup {u}
    /\ UNCHANGED <<partVars, mreq, racy, torn>>

(***************************************************************************)
(* uploadPart: the upload is looked up, the part is stored, and only then   *)
(* recorded; SaveMultipartPart finds out whether the upload is still there. *)
(***************************************************************************)

\* History: this upload and others of the same part no longer run alone, nor
\* does a completion or a removal of the upload that is under way.
BeginPart(r, u, n, body) ==
    /\ mreq[r].pc \in Finished
    /\ UploadExists(u)
    /\ LET rivals == {q \in Uploading(u) : mreq[q].number = n}
       IN  /\ mreq' = [q \in Requests |->
                 IF q = r THEN [pc |-> "begin", upload |-> u, number |-> n, body |-> body,
                                solo |-> rivals = {}]
                 ELSE IF q \in rivals \cup Completing(u) \cup Dropping(u)
                      THEN [mreq[q] EXCEPT !.solo = FALSE] ELSE mreq[q]]
           /\ racy' = IF rivals = {} THEN racy ELSE racy \cup {<<u, n>>}
    /\ UNCHANGED <<repoVars, partVars, issued, torn>>

CreatePartTemp(r) ==
    /\ mreq[r].pc = "begin"
    /\ \/ PartStore!CreateTemp(r, mreq[r].upload) /\ Goto(r, "copy")
       \/ PartStore!CreateTempFails(mreq[r].upload) /\ Finish(r, "failed")
    /\ UNCHANGED <<repoVars, issued, racy, torn>>

ReceivePart(r) ==
    /\ mreq[r].pc = "copy"
    /\ \/ PartStore!CopyBody(r, mreq[r].body) /\ Goto(r, "publish")
       \/ PartStore!RemoveTemp(r) /\ Finish(r, "failed")
    /\ UNCHANGED <<repoVars, issued, racy, torn>>

PublishPart(r) ==
    /\ mreq[r].pc = "publish"
    /\ \/ PartStore!Publish(r, mreq[r].upload, mreq[r].number) /\ Goto(r, "save")
       \/ PartStore!PublishFails(r, mreq[r].upload) /\ Finish(r, "failed")
    /\ UNCHANGED <<repoVars, issued, racy, torn>>

\* Mutant: a part that is saved already keeps its ETag.
SavePartOnce(r) ==
    /\ mreq[r].pc = "save"
    /\ LET u == mreq[r].upload
           n == mreq[r].number
       IN  IF UploadExists(u) => parts[u][n] # None
           THEN UNCHANGED repoVars
           ELSE SaveMultipartPart(u, n, ETag(mreq[r].body))
    /\ Finish(r, "ok")
    /\ UNCHANGED <<partVars, issued, racy, torn>>

\* A part that is not recorded has replaced the file of the one before.
SavePart(r) ==
    /\ mreq[r].pc = "save"
    /\ LET u == mreq[r].upload
           n == mreq[r].number
       IN  \/ /\ SaveMultipartPart(u, n, ETag(mreq[r].body))
              /\ \/ Finish(r, "ok")
                 \/ Database /\ Finish(r, "failed")
              /\ racy' = IF mreq[r].solo THEN racy \ {<<u, n>>} ELSE racy
           \/ /\ Database \/ ~UploadExists(u)
              /\ Finish(r, "failed")
              /\ racy' = racy \cup {<<u, n>>}
              /\ UNCHANGED repoVars
    /\ UNCHANGED <<partVars, issued, torn>>

(***************************************************************************)
(* completeMultipartUpload                                                 *)
(***************************************************************************)

BeginComplete(r, u, list) ==
    /\ mreq[r].pc \in Finished
    /\ UploadExists(u)
    /\ mreq' = [mreq EXCEPT ![r] =
         [pc |-> "list", upload |-> u, target |-> uploads[u], list |-> list,
          all |-> {}, saved |-> None, body |-> <<>>,
          solo |-> Uploading(u) = {} /\ \A n \in PartNumbers : <<u, n>> \notin racy]]
    /\ UNCHANGED <<repoVars, partVars, issued, racy, torn>>

SavedNumbers(saved) == {n \in PartNumbers : saved[n] # None}

\* The in-memory repository refuses to list the parts of an upload that is gone;
\* Postgres finds none.
ListParts(r) ==
    /\ mreq[r].pc = "list"
    /\ LET table == parts[mreq[r].upload]
           saved == IF Database /\ table = None THEN NoParts ELSE table
       IN  \/ /\ saved # None
              /\ mreq' = [mreq EXCEPT ![r].pc = "open", ![r].saved = saved,
                    ![r].all = IF mreq[r].list = <<>> THEN SavedNumbers(saved) ELSE {}]
           \/ /\ Database \/ saved = None
              /\ Finish(r, "failed")
    /\ UNCHANGED <<repoVars, partVars, issued, racy, torn>>

\* openRequestedParts: the parts that were asked for, in that order, or all that
\* are saved in the order of their numbers.
Least(numbers) == CHOOSE n \in numbers : \A m \in numbers : n <= m
NextPart(r) ==
    IF mreq[r].list # <<>> THEN Head(mreq[r].list)
    ELSE [number |-> Least(mreq[r].all), etag |-> None]

\* The metadata that was listed decides whether a part is the one asked for.
Acceptable(saved, want) ==
    want.number \in SavedNumbers(saved) /\ want.etag \in {None, saved[want.number]}

\* The file is whatever is there now.
OpenPart(r) ==
    /\ mreq[r].pc = "open"
    /\ mreq[r].list # <<>> \/ mreq[r].all # {}
    /\ LET want == NextPart(r)
           file == partFiles[mreq[r].upload][want.number]
       IN  IF Acceptable(mreq[r].saved, want) /\ file # None
           THEN mreq' = [mreq EXCEPT
                    ![r].list = IF @ = <<>> THEN @ ELSE Tail(@),
                    ![r].all  = @ \ {want.number},
                    ![r].body = @ \o file]
           ELSE Finish(r, "failed")
    /\ UNCHANGED <<repoVars, partVars, issued, racy, torn>>

OpenedAll(r) ==
    /\ mreq[r].pc = "open"
    /\ mreq[r].list = <<>> /\ mreq[r].all = {}
    /\ Goto(r, "put")
    /\ UNCHANGED <<repoVars, partVars, issued, racy, torn>>

\* The files are open: what is read from them cannot change any more.
PutAssembled(r) ==
    /\ mreq[r].pc = "put"
    /\ Goto(r, "upsert") \/ Finish(r, "failed")
    /\ UNCHANGED <<repoVars, partVars, issued, racy, torn>>

\* The bucket is the one the upload had when it was looked up.
UpsertAssembled(r) ==
    /\ mreq[r].pc = "upsert"
    /\ LET b == mreq[r].target.bucket
           k == mreq[r].target.key
       IN  \/ /\ UpsertObject(b, k, ETag(mreq[r].body))
              /\ \/ mreq' = [mreq EXCEPT ![r] =
                      [pc |-> "forget", upload |-> mreq[r].upload, solo |-> mreq[r].solo]]
                 \/ Database /\ Finish(r, "failed")
           \/ /\ Database \/ ~BucketExists(b)
              /\ Finish(r, "failed")
              /\ UNCHANGED repoVars
    /\ UNCHANGED <<partVars, issued, racy, torn>>

(***************************************************************************)
(* Abort, and the end of a completion: forget the upload, then remove its   *)
(* directory; both ignore every error.                                      *)
(***************************************************************************)

BeginAbort(r, u) ==
    /\ mreq[r].pc \in Finished
    /\ u \in issued
    /\ mreq' = [mreq EXCEPT ![r] =
                  [pc |-> "forget", upload |-> u, solo |-> Uploading(u) = {}]]
    /\ UNCHANGED <<repoVars, partVars, issued, racy, torn>>

\* Mutant: the upload is forgotten last, or never.
ForgetUploadSkipped(r) ==
    /\ mreq[r].pc = "forget"
    /\ Goto(r, "scan")
    /\ UNCHANGED <<repoVars, partVars, issued, racy, torn>>

\* The directory goes even if the upload could not be forgotten.
ForgetUpload(r) ==
    /\ mreq[r].pc = "forget"
    /\ \/ DeleteMultipartUpload(mreq[r].upload) /\ UNCHANGED torn
       \/ /\ Database
          /\ torn' = torn \cup {mreq[r].upload}
          /\ UNCHANGED repoVars
    /\ Goto(r, "scan")
    /\ UNCHANGED <<partVars, issued, racy>>

ScanUploadDir(r) ==
    /\ mreq[r].pc = "scan"
    /\ \/ PartStore!StartSweep(r, mreq[r].upload) /\ Goto(r, "sweep")
       \/ PartStore!SweepNoop(mreq[r].upload) /\ Finish(r, "ok")
    /\ UNCHANGED <<repoVars, issued, racy, torn>>

SweepUploadDir(r) ==
    /\ mreq[r].pc = "sweep"
    /\ \/ \E n \in PartNumbers : PartStore!SweepFile(r, n) /\ UNCHANGED mreq
       \/ \E q \in Requests : PartStore!SweepTemp(r, q) /\ UNCHANGED mreq
       \/ PartStore!RemoveDir(r, mreq[r].upload) /\ Finish(r, "ok")
       \/ PartStore!RemoveDirFails(r, mreq[r].upload) /\ Finish(r, "ok")
    /\ UNCHANGED <<repoVars, issued, racy, torn>>

(***************************************************************************)
(* What happens to the bucket meanwhile, and the end of the process.        *)
(***************************************************************************)

\* In Postgres the uploads of a bucket go with its row (on delete cascade),
\* whichever of the two deletions it is.
BucketRequest ==
    /\ \/ \E b \in Buckets : CreateBucket(b, Private)
       \/ \E b \in Buckets : ~Database /\ DeleteBucket(b)
       \/ \E b \in Buckets : DeleteBucketRecursive(b)
       \/ \E old, new \in Buckets : RenameBucketTo(old, new, Private)
    /\ UNCHANGED <<partVars, issued, mreq, racy, torn>>

ForgetTables ==
    /\ buckets' = [b \in Buckets |-> None]
    /\ objects' = [b \in Buckets |-> NoObjects]
    /\ uploads' = [u \in UploadIds |-> None]
    /\ parts'   = [u \in UploadIds |-> None]
    /\ streams' = [s \in StreamIds |-> None]

\* The parts whose file is in place and which are not recorded yet.
Unsaved == {<<mreq[r].upload, mreq[r].number>> : r \in {q \in Requests : mreq[q].pc = "save"}}

\* The ids handed out before are as unlikely as ever to be drawn again.
Restart ==
    /\ IF Database THEN UNCHANGED repoVars ELSE ForgetTables
    /\ PartStore!LoseRequests
    /\ mreq' = [r \in Requests |-> [pc |-> "idle"]]
    /\ racy' = racy \cup Unsaved
    /\ UNCHANGED <<issued, torn>>

(***************************************************************************)
(* The specification                                                       *)
(***************************************************************************)

ClientStep(r) ==
    \/ \E u \in UploadIds, n \in PartNumbers, body \in Bodies : BeginPart(r, u, n, body)
    \/ \E u \in UploadIds, list \in PartLists : BeginComplete(r, u, list)
    \/ \E u \in UploadIds : BeginAbort(r, u)
    \/ ReceivePart(r)

ServerStep(r) ==
    \/ CreatePartTemp(r) \/ PublishPart(r) \/ SavePart(r)
    \/ ListParts(r) \/ OpenPart(r) \/ OpenedAll(r) \/ PutAssembled(r) \/ UpsertAssembled(r)
    \/ ForgetUpload(r) \/ ScanUploadDir(r) \/ SweepUploadDir(r)

RunningNext ==
    \/ \E u \in UploadIds : CreateUpload(u)
    \/ \E r \in Requests : ClientStep(r) \/ ServerStep(r)
    \/ BucketRequest

MultipartNext == RunningNext \/ Restart

MultipartSpec == MultipartInit /\ [][MultipartNext]_multipartVars

\* One life of the process: a goroutine that can take a step takes it; clients
\* owe nothing, so neither their requests nor the arrival of a body are fair.
FairMultipartSpec ==
    /\ MultipartInit /\ [][RunningNext]_multipartVars
    /\ \A r \in Requests : WF_multipartVars(ServerStep(r))

(***************************************************************************)
(* Properties                                                              *)
(***************************************************************************)

\* Type invariant of the multipart handlers.
MultipartTypeOK ==
    /\ RepoTypeOK
    /\ PartStore!StoreTypeOK
    /\ issued \subseteq UploadIds
    /\ mreq \in [Requests -> MultipartRequests]
    /\ racy \subseteq UploadIds \X PartNumbers
    /\ torn \subseteq UploadIds

\* A part that an open upload lists has its file on disk, whatever aborts,
\* completions, part uploads, bucket removals, failed calls and restarts come
\* between: the file comes before the metadata and goes after it.  An upload that
\* a removal tried to forget in vain is the exception, for its directory goes.
PartFilesExist ==
    \A u \in UploadIds, n \in PartNumbers :
        UploadExists(u) /\ u \notin torn /\ parts[u][n] # None => partFiles[u][n] # None

\* The ETag an upload lists for a part is that of the file, unless the part was
\* being sent twice at a time, is being sent again right now, or was sent again
\* and not recorded, because the call failed or the process ended: sending it
\* once more, alone, puts that right.
PartEtagsMatch ==
    \A u \in UploadIds, n \in PartNumbers :
        UploadExists(u) /\ parts[u][n] # None /\ partFiles[u][n] # None
            /\ <<u, n>> \notin racy /\ (\A r \in Uploading(u) : mreq[r].number # n)
          => ETag(partFiles[u][n]) = parts[u][n]

\* A completion that opens a part adds to the object the very body whose ETag
\* it checked, though it checked metadata that it had read before the file was
\* opened, unless a part of the upload was being sent again meanwhile or had been
\* sent again without being recorded.
AssembledAsVerified ==
    [][\A r \in Requests :
          OpenPart(r) /\ mreq'[r].pc = "open" /\ mreq[r].solo
             => LET etag == mreq[r].saved[NextPart(r).number]
                IN  \E file \in Bodies : ETag(file) = etag /\ mreq'[r].body = mreq[r].body \o file
      ]_multipartVars

(***************************************************************************)
(* The abstract uploads: the body of a part is what is in its file, as soon *)
(* as the part is listed and as long as its upload is open.                 *)
(***************************************************************************)

ContentOf(u, n) == IF UploadExists(u) /\ parts[u][n] # None THEN partFiles[u][n] ELSE None

Sending == {<<mreq[r].upload, mreq[r].number, mreq[r].body>> :
              r \in {q \in Requests : mreq[q].pc \in PartPcs}}

\* Bodies that were sent and that no upload lists (yet).
Unlisted == {<<w[1], w[2], partFiles[w[1]][w[2]]>> : w \in
               {v \in UploadIds \X PartNumbers :
                  /\ UploadExists(v[1])
                  /\ parts[v[1]][v[2]] = None
                  /\ partFiles[v[1]][v[2]] # None}}

Atomic == INSTANCE AtomicUploads
    WITH used <- issued,
         damaged <- torn,
         open <- {u \in UploadIds : UploadExists(u)},
         part <- [u \in UploadIds |-> [n \in PartNumbers |-> ContentOf(u, n)]],
         sending <- Sending \cup Unlisted

\* Through all the system calls and table updates an upload is made of, with
\* parts sent twice, sweeps, failed calls and restarts in between, a listed part
\* changes in one step and only to a body that was sent for it, an upload goes in
\* one step with all its parts, a dropped one never comes back, and parts vanish
\* one by one only from an upload that a removal tried to forget in vain.
UploadsAreAtomic == Atomic!UploadsSpec

\* An abort or a completion that met no upload of a part leaves no file and no
\* directory of the upload behind when it is answered.
DroppedUploadsLeaveNothing ==
    [][\A r \in Requests :
          mreq[r].pc \in {"scan", "sweep"} /\ mreq'[r].pc = "ok" /\ mreq[r].solo
             => mreq[r].upload \notin partDirs'
                /\ \A n \in PartNumbers : partFiles'[mreq[r].upload][n] = None]_multipartVars

\* Once the upload is forgotten and no part is on its way when the directory is
\* read, the server gets rid of its part files, as long as the process runs.  (A
\* part that arrives after that is left on disk for good.)
DropsComplete ==
    \A u \in UploadIds :
        (~UploadExists(u) /\ Uploading(u) = {} /\ \E r \in Dropping(u) : mreq[r].pc = "scan")
            ~> \A n \in PartNumbers : partFiles[u][n] = None
=============================================================================
