------------------------------- MODULE Postgres -------------------------------
(***************************************************************************)
(* The bucket, object, multipart and stream tables when Postgres keeps them *)
(* (internal/meta/postgres.go, schema.go).                                  *)
(*                                                                         *)
(* The variables of Repository are what is committed.  A method that is one *)
(* statement is one action; UpdateBucket, DeleteBucketRecursive and the     *)
(* delete statement of DeleteBucket with its cascade are transactions, with *)
(* an action for every statement, at READ COMMITTED: a statement meets the  *)
(* rows that are committed when it runs and keeps them locked to the end.   *)
(* No other transaction can write a locked row, so the changes themselves   *)
(* can wait for the commit.                                                 *)
(*                                                                         *)
(* Postgres is external: what is taken from it is that a statement waits    *)
(* for the rows that others have locked and takes its own at once, that an  *)
(* insert waits for a row of its key or of its parent that is being written,*)
(* that a cascade runs at the end of its statement, and that one backend of *)
(* a circle of waiting ones is rolled back.  So is a transaction whose      *)
(* client or connection goes away (defer tx.Rollback).                      *)
(***************************************************************************)
EXTENDS Repository

CONSTANT Connections   \* the connections of the pool that hold a transaction

VARIABLE tx   \* tx[c]: the transaction on connection c

pgVars == <<repoVars, tx>>

(***************************************************************************)
(* Rows and locks                                                          *)
(***************************************************************************)

BucketRow(b)    == <<"bucket", b>>
ObjectRow(b, k) == <<"object", b, k>>
UploadRow(u)    == <<"upload", u>>
StreamRow(s)    == <<"stream", s>>

ObjectRows(b) == {ObjectRow(b, k) : k \in {j \in Keys : ObjectExists(b, j)}}
UploadRows(b) == {UploadRow(u) : u \in UploadsOf(b)}
StreamRows(b) == {StreamRow(s) : s \in StreamsOf(b)}

Rows ==
    {BucketRow(b) : b \in Buckets} \cup {ObjectRow(b, k) : b \in Buckets, k \in Keys}
      \cup {UploadRow(u) : u \in UploadIds} \cup {StreamRow(s) : s \in StreamIds}

\* late: history, what has come into the bucket since the transaction began.
Transactions ==
    [method : {"UpdateBucket", "DeleteBucketRecursive", "DeleteBucket"},
     next : {"claim", "objects", "uploads", "streams", "drop", "cascade", "commit"},
     old : Buckets, new : Buckets,
     met : SUBSET Rows, taken : SUBSET Rows, late : SUBSET Rows]

ASSUME TransactionsAssumption == None \notin Transactions

\* The rows that reference the bucket.
ChildRows(b) == ObjectRows(b) \cup UploadRows(b) \cup StreamRows(b)

Open == {c \in Connections : tx[c] # None}

\* What the statements met, and what the claim, the drop and its cascade took.
Held(c) == tx[c].met \cup tx[c].taken

FreeFor(c, rows) == \A d \in Open \ {c} : rows \cap Held(d) = {}

\* Free for a method that holds no transaction.
Free(rows) == \A d \in Open : rows \cap Held(d) = {}

Begin(c, method, statement, old, new) ==
    /\ tx[c] = None
    /\ tx' = [tx EXCEPT ![c] =
         [method |-> method, next |-> statement, old |-> old, new |-> new,
          met |-> {}, taken |-> {}, late |-> {}]]
    /\ UNCHANGED repoVars

\* The rows that a change of the tables brings into a bucket, and leaves in it.
Arrivals == [b \in Buckets |-> ChildRows(b)' \ ChildRows(b)]
Stay     == [b \in Buckets |-> ChildRows(b)' \cap ChildRows(b)]

\* The open transactions but c note what came into their bucket.
NoteLate(c) ==
    tx' = [d \in Connections |->
             IF d = c \/ tx[d] = None THEN None
             ELSE [tx[d] EXCEPT !.late =
                     (@ \cap Stay[tx[d].old]) \cup Arrivals[tx[d].old]]]

(***************************************************************************)
(* Methods that are one statement                                          *)
(***************************************************************************)

InsertBucket ==
    /\ \E b \in Buckets, p \in Policies : Free({BucketRow(b)}) /\ CreateBucket(b, p)
    /\ UNCHANGED tx

UpdatePolicy ==
    /\ \E b \in Buckets, p \in Policies : Free({BucketRow(b)}) /\ SetBucketPolicy(b, p)
    /\ UNCHANGED tx

\* A row that is there is updated without a look at its bucket.
PutObjectRow ==
    /\ \E b \in Buckets, k \in Keys, body \in Bodies :
         /\ Free({ObjectRow(b, k)})
         /\ ObjectExists(b, k) \/ Free({BucketRow(b)})
         /\ UpsertObject(b, k, ETag(body))
    /\ NoteLate(None)

DeleteObjectRow ==
    /\ \E b \in Buckets, k \in Keys : Free({ObjectRow(b, k)}) /\ DeleteObject(b, k)
    /\ NoteLate(None)

\* Mutant: no foreign key on multipart_uploads, so no wait for the bucket.
InsertUploadUnchecked ==
    /\ \E u \in UploadIds, b \in Buckets, k \in Keys :
         ~UploadExists(u) /\ Free({UploadRow(u)}) /\ CreateMultipartUpload(u, b, k)
    /\ NoteLate(None)

InsertUpload ==
    /\ \E u \in UploadIds, b \in Buckets, k \in Keys :
         /\ ~UploadExists(u) /\ Free({BucketRow(b), UploadRow(u)})
         /\ CreateMultipartUpload(u, b, k)
    /\ NoteLate(None)

\* A rename changes no key of the upload's row: only its deletion makes a part
\* wait.
PutPartRow ==
    /\ \E u \in UploadIds, n \in PartNumbers, body \in Bodies :
         /\ \A c \in Open : UploadRow(u) \in Held(c) =>
              UploadRow(u) \in tx[c].met /\ tx[c].method = "UpdateBucket"
         /\ SaveMultipartPart(u, n, ETag(body))
    /\ UNCHANGED tx

DeleteUploadRow ==
    /\ \E u \in UploadIds :
         UploadExists(u) /\ Free({UploadRow(u)}) /\ DeleteMultipartUpload(u)
    /\ NoteLate(None)

\* Unlike the in-memory repository, Postgres looks for the bucket.
InsertStream ==
    /\ \E s \in StreamIds, b \in Buckets :
         /\ streams[s] = None /\ BucketExists(b) /\ Free({BucketRow(b), StreamRow(s)})
         /\ CreateStream(s, b)
    /\ NoteLate(None)

(***************************************************************************)
(* Transactions begin                                                      *)
(***************************************************************************)

BeginUpdateBucket(c) ==
    \E old, new \in Buckets : old # new /\ Begin(c, "UpdateBucket", "claim", old, new)

BeginDeleteRecursive(c) ==
    \E b \in Buckets : Begin(c, "DeleteBucketRecursive", "objects", b, b)

\* The count is a statement of its own, before the one that deletes.
BeginDeleteBucket(c) ==
    \E b \in Buckets : BucketEmpty(b) /\ Begin(c, "DeleteBucket", "drop", b, b)

(***************************************************************************)
(* Their statements                                                        *)
(***************************************************************************)

\* The rows that the next statement writes, the statements in the order of
\* UpdateBucket; the deletions leave some out.  A key that is being inserted, or a
\* row that is being deleted, makes the claim of a name wait.
Needs(t) ==
    CASE t.next = "claim"   -> {BucketRow(t.new)}
      [] t.next = "objects" -> ObjectRows(t.old)
      [] t.next = "uploads" -> UploadRows(t.old)
      [] t.next = "streams" -> StreamRows(t.old)
      [] t.next = "drop"    -> IF BucketExists(t.old) THEN {BucketRow(t.old)} ELSE {}
      [] t.next = "cascade" -> ChildRows(t.old) \ t.met
      [] OTHER              -> {}

Waits(c) == ~FreeFor(c, Needs(tx[c]))

Rollback(c) ==
    /\ tx' = [tx EXCEPT ![c] = None]
    /\ UNCHANGED repoVars

Take(c, statement) ==
    /\ tx' = [tx EXCEPT ![c].next = statement, ![c].taken = @ \cup Needs(tx[c])]
    /\ UNCHANGED repoVars

Claim(c) ==
    /\ tx[c].next = "claim"
    /\ IF BucketExists(tx[c].new) THEN Rollback(c) ELSE Take(c, "objects")

\* update ... set bucket, or delete ... where bucket.
Meet(c, table, statement) ==
    /\ tx[c].next = table
    /\ tx' = [tx EXCEPT ![c].next = statement, ![c].met = @ \cup Needs(tx[c])]
    /\ UNCHANGED repoVars

\* Mutant: the statement on multipart_uploads is missing.
ObjectsAndStreams(c) ==
    \/ Meet(c, "objects", "streams")
    \/ Meet(c, "streams", "drop")

Tables(c) ==
    \/ Meet(c, "objects", "uploads")
    \/ Meet(c, "uploads", "streams")
    \/ Meet(c, "streams", "drop")

\* Mutant: the transaction stays open when there is no bucket.
DropWithoutRollback(c) ==
    tx[c].next = "drop" /\ BucketExists(tx[c].old) /\ Take(c, "cascade")

Drop(c) ==
    /\ tx[c].next = "drop"
    /\ IF BucketExists(tx[c].old) THEN Take(c, "cascade") ELSE Rollback(c)

\* on delete cascade takes what the statements did not meet.
Cascade(c) == tx[c].next = "cascade" /\ Take(c, "commit")

(***************************************************************************)
(* The commit                                                              *)
(***************************************************************************)

\* replace(physical_path, old, new), where no name is part of another.
Carried(entry, old, new) ==
    [entry EXCEPT !.bucket = new,
                  !.path = IF @[1] = old THEN Path(new, @[2]) ELSE @]

\* The rows of old in moved get the bucket new, those in gone are deleted.
ApplyRows(old, new, moved, gone) ==
    /\ objects' = [b \in Buckets |-> [k \in Keys |->
         IF b = new /\ ObjectRow(old, k) \in moved THEN Carried(objects[old][k], old, new)
         ELSE IF ObjectRow(b, k) \in moved \cup gone THEN None ELSE objects[b][k]]]
    /\ uploads' = [u \in UploadIds |->
         IF UploadRow(u) \in moved THEN [uploads[u] EXCEPT !.bucket = new]
         ELSE IF UploadRow(u) \in gone THEN None ELSE uploads[u]]
    /\ parts' = [u \in UploadIds |-> IF UploadRow(u) \in gone THEN None ELSE parts[u]]
    /\ streams' = [s \in StreamIds |->
         IF StreamRow(s) \in moved THEN new
         ELSE IF StreamRow(s) \in gone THEN None ELSE streams[s]]

RenameRows(old, new, policy, moved, gone) ==
    /\ buckets' = [buckets EXCEPT ![old] = None, ![new] = policy]
    /\ ApplyRows(old, new, moved, gone)

DeleteRows(old, gone) ==
    /\ buckets' = [buckets EXCEPT ![old] = None]
    /\ ApplyRows(old, old, {}, gone)

Commit(c) ==
    /\ tx[c].next = "commit"
    /\ LET t == tx[c]
       IN  IF t.method = "UpdateBucket"
           THEN \E p \in Policies : RenameRows(t.old, t.new, p, t.met, t.taken)
           ELSE DeleteRows(t.old, Held(c))
    /\ NoteLate(c)

Statement(c) ==
    /\ c \in Open
    /\ ~Waits(c)
    /\ Claim(c) \/ Tables(c) \/ Drop(c) \/ Cascade(c) \/ Commit(c)

\* A circle of transactions that wait for each other loses one of them.
DeadlockDetected(c) ==
    /\ \E S \in SUBSET Open :
         /\ c \in S
         /\ \A d \in S : ~FreeFor(d, Needs(tx[d])) /\
              \E e \in S \ {d} : Needs(tx[d]) \cap Held(e) # {}
    /\ Rollback(c)

\* The client or the connection goes away.
ClientGone(c) == c \in Open /\ Rollback(c)

(***************************************************************************)
(* The specification.  A lock has a queue, so a statement that finds its    *)
(* rows free again and again gets them in the end: strong fairness.  The    *)
(* server looks for deadlocks after deadlock_timeout.  Nothing makes a      *)
(* client call, or go away.                                                *)
(***************************************************************************)

PgInit == RepoInit /\ tx = [c \in Connections |-> None]

PgNext ==
    \/ InsertBucket \/ UpdatePolicy \/ PutObjectRow \/ DeleteObjectRow
    \/ InsertUpload \/ PutPartRow \/ DeleteUploadRow \/ InsertStream
    \/ \E c \in Connections :
         \/ BeginUpdateBucket(c) \/ BeginDeleteRecursive(c) \/ BeginDeleteBucket(c)
         \/ Statement(c) \/ DeadlockDetected(c) \/ ClientGone(c)

PgSpec == PgInit /\ [][PgNext]_pgVars

FairPgSpec ==
    /\ PgSpec
    /\ \A c \in Connections : SF_pgVars(Statement(c)) /\ WF_pgVars(DeadlockDetected(c))

(***************************************************************************)
(* Properties                                                              *)
(***************************************************************************)

\* The promise of meta.Repository, one method at a time: the tables change by a
\* whole method or not at all, whatever the statements of other transactions do
\* in between.  A rename carries all the rows of the bucket, except that the
\* cascade may take those that came in while it was running.
WholeRename ==
    \E c \in Open : \E p \in Policies, met \in SUBSET ChildRows(tx[c].old) :
        /\ ChildRows(tx[c].old) \ met \subseteq tx[c].late
        /\ ~BucketExists(tx[c].new)
        /\ RenameRows(tx[c].old, tx[c].new, p, met, ChildRows(tx[c].old) \ met)

MethodsAreWhole == [][RepoNext \/ WholeRename]_repoVars

\* An upload or a stream names a bucket that exists, in Postgres: the foreign
\* keys see to it across statements of overlapping transactions.
RowsInBuckets ==
    /\ ObjectsInBuckets
    /\ \A u \in UploadIds : UploadExists(u) => BucketExists(uploads[u].bucket)
    /\ \A s \in StreamIds : streams[s] # None => BucketExists(streams[s])
    /\ PartsFollowUploads

\* A transaction that has begun commits or is rolled back, though renames and
\* recursive deletions lock rows and buckets in different orders.
TransactionsEnd == \A c \in Connections : tx[c] # None ~> tx[c] = None
=============================================================================
