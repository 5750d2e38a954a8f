-------------------------------- MODULE Hybrid --------------------------------
(***************************************************************************)
(* Objects on two stores (internal/storage/hybrid.go): keys under           *)
(* /archive/ or /recordings/ go to the NAS when one is configured, all      *)
(* others, and those too when none is, to the local disk.  The handlers of  *)
(* both APIs call the stores one after the other, and the tables, which a   *)
(* database keeps, before or after them.                                    *)
(*                                                                         *)
(* This module is about what one request at a time leaves on two stores     *)
(* that fail, across restarts that bring the NAS in or take it away:        *)
(* a method of LocalDiskBackend is one step here, and ObjectService has the *)
(* requests that overlap.  No handler here reads PhysicalPath.              *)
(***************************************************************************)
EXTENDS Repository

CONSTANT NasKeys   \* the keys for which shouldUseNAS is true

ASSUME NasKeysAssumption == NasKeys \subseteq Keys

Stores == {"local", "nas"}

VARIABLES
    disks,     \* disks[s]: the directories and the files of the buckets on store s
    nas,       \* NAS_DATA_ROOT is set
    req,       \* the request and where it is in its handler
    suspect,   \* history: objects that a failure may have torn
    left,      \* history: local files of NAS keys from before there was a NAS
    half       \* history: the last rename, in case it is tried again

hybridVars == <<repoVars, disks, nas, req, suspect, left, half>>

(***************************************************************************)
(* What a method of LocalDiskBackend makes of a disk                        *)
(***************************************************************************)

NoFiles == [k \in Keys |-> None]

EmptyDisk == [dirs |-> {}, files |-> [b \in Buckets |-> NoFiles]]

HasFile(s, b, k) == disks[s].files[b][k] # None

Put(d, b, k, body) == [d EXCEPT !.dirs = @ \cup {b}, !.files[b][k] = body]

Delete(d, b, k) == [d EXCEPT !.files[b][k] = None]

DeleteDir(d, b) == [d EXCEPT !.dirs = @ \ {b}, !.files[b] = NoFiles]

\* os.Rename replaces no directory; a bucket without one is left alone.
CanRename(d, old, new) == old \in d.dirs => new \notin d.dirs

RenameDir(d, old, new) ==
    IF old \notin d.dirs THEN d
    ELSE [dirs  |-> (d.dirs \ {old}) \cup {new},
          files |-> [d.files EXCEPT ![old] = NoFiles, ![new] = d.files[old]]]

(***************************************************************************)
(* Requests                                                                *)
(***************************************************************************)

Idle == [pc |-> "idle"]

Resting == req.pc \in {"idle", "ok"}

\* Where Put writes.
StoreFor(k) == IF k \in NasKeys /\ nas THEN "nas" ELSE "local"

\* What Get finds: the local file first, whatever the key.
Served(b, k) ==
    IF HasFile("local", b, k) THEN disks["local"].files[b][k]
    ELSE IF nas THEN disks["nas"].files[b][k] ELSE None

Touched == IF req.op \in {"put", "delete"} THEN {Path(req.bucket, req.key)}
           ELSE {req.bucket, req.to} \X Keys

\* History: what is remembered of a rename that stopped halfway.
Halves == [old : Buckets, new : Buckets, was : SUBSET Keys]

ASSUME HalfAssumption == None \notin Halves

\* History: a rename that failed and is tried again at once goes on from where
\* it stopped.
Doubts(op, b, to) ==
    IF half # None /\ op = "rename" /\ half.old = b /\ half.new = to THEN half.was
    ELSE {k \in Keys : {Path(b, k), Path(to, k)} \cap suspect # {}}

Arrive(op, b, k, to, body, pc) ==
    /\ Resting
    /\ req' = [pc |-> pc, op |-> op, bucket |-> b, key |-> k, to |-> to, body |-> body,
               clean |-> TRUE, was |-> IF op = "rename" THEN Doubts(op, b, to) ELSE {}]
    /\ half' = None
    /\ UNCHANGED <<repoVars, disks, nas, suspect, left>>

\* putObject looks the bucket up first, uploadObject does not.
Arrivals ==
    \E b \in Buckets :
        \/ \E k \in Keys, body \in Bodies : Arrive("put", b, k, b, body, "store")
        \/ \E k \in Keys : Arrive("delete", b, k, b, None, "local")
        \/ \E to \in Buckets \ {b} : Arrive("rename", b, None, to, None, "local")
        \/ Arrive("force", b, None, b, None, "local")
        \/ Arrive("plain", b, None, b, None, "drop")

At(pc, ops) == req.pc = pc /\ req.op \in ops

Goto(pc) == req' = [req EXCEPT !.pc = pc]

\* The request is over; "ok" says that it is acknowledged and no store failed.
Finished(clean) == IF clean THEN [pc |-> "ok"] ELSE Idle

\* History: a failure in the middle may have torn what the request touches.
Torn ==
    /\ suspect' = suspect \cup Touched
    /\ half' = IF req.op # "rename" THEN None
               ELSE [old |-> req.bucket, new |-> req.to, was |-> req.was]

Fail == req' = Idle /\ UNCHANGED <<suspect, half>>
FailHalfway == req' = Idle /\ Torn

(***************************************************************************)
(* The stores                                                              *)
(***************************************************************************)

PutFile ==
    /\ At("store", {"put"})
    /\ \/ /\ disks' = [disks EXCEPT ![StoreFor(req.key)] =
                         Put(@, req.bucket, req.key, req.body)]
          /\ left' = IF nas THEN left ELSE left \ Touched
          /\ Goto("upsert") /\ UNCHANGED <<suspect, half>>
       \/ Fail /\ UNCHANGED <<disks, left>>
    /\ UNCHANGED <<repoVars, nas>>

\* Mutant: only the local store is asked to delete.
AfterStoreLocalOnly(s) ==
    IF req.op = "plain" THEN "done" ELSE IF req.op = "rename" THEN "update" ELSE "forget"

\* After the local store comes the NAS, if there is one, and then the tables.
AfterStore(s) ==
    IF s = "local" /\ nas THEN "nas"
    ELSE CASE req.op = "plain"  -> "done"
           [] req.op = "rename" -> "update"
           [] OTHER             -> "forget"

\* Delete and DeleteBucket: the error of a store is dropped.
DeleteOn(s) ==
    /\ At(s, {"delete", "force", "plain"})
    /\ \E deleted \in BOOLEAN :
         LET clean == req.clean /\ deleted IN
         /\ disks' = IF ~deleted THEN disks
                     ELSE [disks EXCEPT ![s] = IF req.op = "delete"
                                               THEN Delete(@, req.bucket, req.key)
                                               ELSE DeleteDir(@, req.bucket)]
         /\ req' = IF AfterStore(s) = "done" THEN Finished(clean)
                   ELSE [req EXCEPT !.pc = AfterStore(s), !.clean = clean]
    /\ left' = {p \in left : disks'["local"].files[p[1]][p[2]] # None}
    /\ UNCHANGED <<repoVars, nas, suspect, half>>

\* History: the files of before the NAS that a rename of their directory moves.
MoveLeft ==
    left' = IF req.bucket \notin disks["local"].dirs THEN left
            ELSE {p \in left : p[1] # req.bucket} \cup
                 {Path(req.to, p[2]) : p \in {q \in left : q[1] = req.bucket}}

\* Mutant: the error of the NAS is dropped, as it is in DeleteBucket.
RenameOnUnchecked(s) ==
    /\ At(s, {"rename"})
    /\ \/ /\ CanRename(disks[s], req.bucket, req.to)
          /\ disks' = [disks EXCEPT ![s] = RenameDir(@, req.bucket, req.to)]
       \/ s = "nas" /\ UNCHANGED disks
    /\ Goto(AfterStore(s))
    /\ IF s = "local" THEN MoveLeft ELSE UNCHANGED left
    /\ UNCHANGED <<repoVars, nas, suspect, half>>

\* RenameBucket: the error of either store ends the request, and a NAS that
\* refuses leaves the local directory under its new name.
RenameOn(s) ==
    /\ At(s, {"rename"})
    /\ \/ /\ CanRename(disks[s], req.bucket, req.to)
          /\ disks' = [disks EXCEPT ![s] = RenameDir(@, req.bucket, req.to)]
          /\ Goto(AfterStore(s))
          /\ IF s = "local" THEN MoveLeft ELSE UNCHANGED left
          /\ UNCHANGED <<suspect, half>>
       \/ /\ IF s = "nas" THEN FailHalfway ELSE Fail
          /\ UNCHANGED <<disks, left>>
    /\ UNCHANGED <<repoVars, nas>>

(***************************************************************************)
(* The tables                                                              *)
(***************************************************************************)

\* A put, or the deletion, of an object makes it whole again.
UpsertMeta ==
    /\ At("upsert", {"put"})
    /\ \/ /\ UpsertObject(req.bucket, req.key, ETag(req.body))
          /\ suspect' = suspect \ Touched
          /\ req' = Finished(TRUE) /\ UNCHANGED half
       \/ ~BucketExists(req.bucket) /\ FailHalfway /\ UNCHANGED repoVars
    /\ UNCHANGED <<disks, nas, left>>

ForgetMeta ==
    /\ At("forget", {"delete", "force"})
    /\ \/ /\ \/ req.op = "delete" /\ DeleteObject(req.bucket, req.key)
             \/ req.op = "force" /\ DeleteBucketRecursive(req.bucket)
          /\ suspect' = suspect \ Touched
          /\ req' = Finished(req.clean) /\ UNCHANGED half
       \/ /\ IF req.op = "delete" THEN ~ObjectExists(req.bucket, req.key)
             ELSE ~BucketExists(req.bucket)
          /\ FailHalfway /\ UNCHANGED repoVars
    /\ UNCHANGED <<disks, nas, left>>

\* What a rename without the NAS leaves there under the old name.
OutOfReach(b) == IF nas THEN {} ELSE {b} \X NasKeys

UpdateMeta ==
    /\ At("update", {"rename"})
    /\ \/ /\ RenameBucketTo(req.bucket, req.to, Private)
          /\ suspect' = (suspect \ Touched)
                \cup {Path(req.to, k) : k \in req.was} \cup OutOfReach(req.to)
          /\ req' = Finished(TRUE) /\ UNCHANGED half
       \/ /\ ~BucketExists(req.bucket) \/ BucketExists(req.to)
          /\ FailHalfway /\ UNCHANGED repoVars
    /\ UNCHANGED <<disks, nas, left>>

DropMeta ==
    /\ At("drop", {"plain"})
    /\ \/ DeleteBucket(req.bucket) /\ Goto("local") /\ UNCHANGED <<suspect, half>>
       \/ /\ ~BucketExists(req.bucket) \/ ~BucketEmpty(req.bucket)
          /\ Fail /\ UNCHANGED repoVars
    /\ UNCHANGED <<disks, nas, left>>

\* createBucket, and the S3 deleteBucket, which leaves the directories.
BucketRequest ==
    /\ Resting
    /\ \E b \in Buckets : CreateBucket(b, Private) \/ DeleteBucket(b)
    /\ req' = Idle /\ half' = None
    /\ UNCHANGED <<disks, nas, suspect, left>>

(***************************************************************************)
(* The process, or only the request, ends anywhere; at the next start the   *)
(* NAS may be configured or not.                                            *)
(***************************************************************************)

Halfway == req.pc \in {"local", "nas", "upsert", "forget", "update"}

Restart ==
    /\ nas' \in BOOLEAN
    /\ IF Halfway THEN FailHalfway ELSE Fail
    /\ left' = IF nas' THEN {p \in Paths : p[2] \in NasKeys /\ HasFile("local", p[1], p[2])}
               ELSE left
    /\ UNCHANGED <<repoVars, disks>>

HybridInit ==
    /\ RepoInit
    /\ disks = [s \in Stores |-> EmptyDisk]
    /\ nas \in BOOLEAN
    /\ req = Idle
    /\ suspect = {} /\ left = {} /\ half = None

HybridNext ==
    \/ Arrivals
    \/ PutFile
    \/ \E s \in Stores : DeleteOn(s) \/ RenameOn(s)
    \/ UpsertMeta \/ ForgetMeta \/ UpdateMeta \/ DropMeta
    \/ BucketRequest \/ Restart

HybridSpec == HybridInit /\ [][HybridNext]_hybridVars

(***************************************************************************)
(* Properties                                                              *)
(***************************************************************************)

OnMissingNas(b, k) == ~nas /\ k \in NasKeys /\ ~HasFile("local", b, k)

\* What Get serves is what the metadata describes, on whichever store it is:
\* through restarts with and without the NAS, renames that one store refuses
\* and that are tried again, and deletions that a store drops.  Left out are
\* objects torn by a failure and not written since, objects on a NAS that is
\* not configured, and NAS keys that still have a local file from a time
\* without the NAS: Get takes that one.
ServedAsDescribed ==
    \A b \in Buckets, k \in Keys :
        Resting /\ ObjectExists(b, k) /\ Path(b, k) \notin suspect \cup left /\ ~OnMissingNas(b, k)
            => Served(b, k) # None /\ ETag(Served(b, k)) = objects[b][k].etag

\* A deletion or a rename that is acknowledged, and that no store failed, has
\* left no file under the old name on any store that is configured: files from
\* before the NAS included, and also when it is the second try of a rename that
\* stopped between the stores, or finds directories that have no rows.
NothingStaysBehind ==
    [][~Resting /\ req'.pc = "ok" /\ req.op # "put"
          => \A s \in Stores, p \in Touched :
                (s = "local" \/ nas) /\ p[1] = req.bucket => disks'[s].files[p[1]][p[2]] = None]_hybridVars
=============================================================================
