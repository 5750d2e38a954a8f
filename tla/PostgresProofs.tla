---------------------------- MODULE PostgresProofs ----------------------------
(***************************************************************************)
(* Proofs about the tables in Postgres, for every number of connections,    *)
(* buckets and rows: whatever statements of overlapping transactions come   *)
(* between each other, and whichever transactions are rolled back.          *)
(*                                                                         *)
(* That a commit is a whole method rests on the locks.  The invariant says  *)
(* exactly which rows a transaction has taken at each of its statements     *)
(* (TakenOK), that what it has met is still there and in its bucket, that   *)
(* what it has not met came later (LateOK), and that no row is locked by    *)
(* two transactions (LocksDisjoint).  Whatever changes the tables must      *)
(* leave the other transactions that much (LeavesTo): a statement because   *)
(* it finds its rows free, a commit because it holds the rows it writes,    *)
(* the row of its bucket, and that of the name it gives.                    *)
(***************************************************************************)
EXTENDS Postgres, RepositoryProofs

(***************************************************************************)
(* Rows                                                                    *)
(***************************************************************************)

\* A row is of one table, and of one name there.
LEMMA RowsDiffer ==
  /\ \A b, c : BucketRow(b) = BucketRow(c) <=> b = c
  /\ \A b, c, j, k : ObjectRow(b, k) = ObjectRow(c, j) <=> b = c /\ k = j
  /\ \A u, v : UploadRow(u) = UploadRow(v) <=> u = v
  /\ \A s, t : StreamRow(s) = StreamRow(t) <=> s = t
  /\ \A b, c, k, u, s : /\ BucketRow(b) # ObjectRow(c, k)
                        /\ BucketRow(b) # UploadRow(u)
                        /\ BucketRow(b) # StreamRow(s)
                        /\ ObjectRow(c, k) # UploadRow(u)
                        /\ ObjectRow(c, k) # StreamRow(s)
                        /\ UploadRow(u) # StreamRow(s)
  BY DEF BucketRow, ObjectRow, UploadRow, StreamRow

\* What the rows of a bucket are, table by table.
Described(b) ==
    /\ ChildRows(b) \subseteq Rows
    /\ \A c : BucketRow(c) \notin ChildRows(b)
    /\ \A c, k : ObjectRow(c, k) \in ChildRows(b)
                   <=> c = b /\ k \in Keys /\ ObjectExists(b, k)
    /\ \A u : UploadRow(u) \in ChildRows(b) <=> u \in UploadsOf(b)
    /\ \A s : StreamRow(s) \in ChildRows(b) <=> s \in StreamsOf(b)
    /\ ObjectRows(b) = {r \in ChildRows(b) : \E k \in Keys : r = ObjectRow(b, k)}
    /\ UploadRows(b) = {r \in ChildRows(b) : \E u \in UploadIds : r = UploadRow(u)}
    /\ StreamRows(b) = {r \in ChildRows(b) : \E s \in StreamIds : r = StreamRow(s)}

\* The rows of a bucket are those of its objects, uploads and streams.
LEMMA ChildRowsAre == ASSUME NEW b \in Buckets PROVE Described(b)
<1>1. \A r : r \in ObjectRows(b) <=> \E k \in Keys : r = ObjectRow(b, k) /\ ObjectExists(b, k)
  BY DEF ObjectRows
<1>2. \A r : r \in UploadRows(b) <=> \E u \in UploadsOf(b) : r = UploadRow(u)
  BY DEF UploadRows
<1>3. \A r : r \in StreamRows(b) <=> \E s \in StreamsOf(b) : r = StreamRow(s)
  BY DEF StreamRows
<1>4. \A r : r \in ChildRows(b)
               <=> r \in ObjectRows(b) \/ r \in UploadRows(b) \/ r \in StreamRows(b)
  BY DEF ChildRows
<1>5. UploadsOf(b) \subseteq UploadIds /\ StreamsOf(b) \subseteq StreamIds
  BY DEF UploadsOf, StreamsOf
<1>6. ChildRows(b) \subseteq Rows
  BY <1>1, <1>2, <1>3, <1>4, <1>5 DEF Rows
<1>7. \A c : BucketRow(c) \notin ChildRows(b)
  BY <1>1, <1>2, <1>3, <1>4, RowsDiffer
<1>8. \A c, k : ObjectRow(c, k) \in ChildRows(b) <=> c = b /\ k \in Keys /\ ObjectExists(b, k)
  BY <1>1, <1>2, <1>3, <1>4, RowsDiffer
<1>9. \A u : UploadRow(u) \in ChildRows(b) <=> u \in UploadsOf(b)
  BY <1>1, <1>2, <1>3, <1>4, RowsDiffer
<1>10. \A s : StreamRow(s) \in ChildRows(b) <=> s \in StreamsOf(b)
  BY <1>1, <1>2, <1>3, <1>4, RowsDiffer
<1>11. ObjectRows(b) = {r \in ChildRows(b) : \E k \in Keys : r = ObjectRow(b, k)}
  BY <1>1, <1>4, <1>8
<1>12. UploadRows(b) = {r \in ChildRows(b) : \E u \in UploadIds : r = UploadRow(u)}
  BY <1>2, <1>4, <1>5, <1>9
<1>13. StreamRows(b) = {r \in ChildRows(b) : \E s \in StreamIds : r = StreamRow(s)}
  BY <1>3, <1>4, <1>5, <1>10
<1>14. QED
  BY <1>6, <1>7, <1>8, <1>9, <1>10, <1>11, <1>12, <1>13 DEF Described

\* So they are after a step.
LEMMA ChildRowsThen == ASSUME NEW b \in Buckets PROVE Described(b)'
  BY ChildRowsAre, PTL

\* The rows of a bucket stay when its objects, uploads and streams do.
LEMMA SameRows ==
  ASSUME NEW b \in Buckets, \A k \in Keys : ObjectExists(b, k)' <=> ObjectExists(b, k),
         UploadsOf(b)' = UploadsOf(b), StreamsOf(b)' = StreamsOf(b)
  PROVE  /\ ChildRows(b)' = ChildRows(b)
         /\ ObjectRows(b)' = ObjectRows(b)
         /\ UploadRows(b)' = UploadRows(b)
         /\ StreamRows(b)' = StreamRows(b)
<1>1. ObjectRows(b)' = ObjectRows(b)
  BY DEF ObjectRows, ObjectRow
<1>2. UploadRows(b)' = UploadRows(b)
  BY DEF UploadRows, UploadRow
<1>3. StreamRows(b)' = StreamRows(b)
  BY DEF StreamRows, StreamRow
<1>4. QED
  BY <1>1, <1>2, <1>3 DEF ChildRows

(***************************************************************************)
(* The invariant                                                           *)
(***************************************************************************)

Renames(t)  == t.method = "UpdateBucket"
Claimed(t)  == Renames(t) /\ t.next # "claim"
Dropping(t) == t.next \in {"cascade", "commit"}

\* The locks that the claim, the drop and the cascade have taken by now.
TakenOK(t) ==
    t.taken = (IF Claimed(t) THEN {BucketRow(t.new)} ELSE {})
                \cup (IF Dropping(t) THEN {BucketRow(t.old)} ELSE {})
                \cup (IF t.next = "commit" THEN ChildRows(t.old) \ t.met ELSE {})

\* What the statements of a rename or a recursive deletion did not meet came later.
LateOK(t) ==
    t.method # "DeleteBucket" =>
         /\ t.next \notin {"claim", "objects"} => ObjectRows(t.old) \ t.met \subseteq t.late
         /\ t.next \notin {"claim", "objects", "uploads"} =>
              UploadRows(t.old) \ t.met \subseteq t.late
         /\ t.next \notin {"claim", "objects", "uploads", "streams"} =>
              StreamRows(t.old) \ t.met \subseteq t.late

TxOK(t) ==
    /\ Renames(t) <=> t.old # t.new
    /\ t.next = "claim" => Renames(t)
    /\ t.met \subseteq ChildRows(t.old)
    /\ TakenOK(t)
    /\ Dropping(t) => BucketExists(t.old)
    /\ Claimed(t) => ~BucketExists(t.new)
    /\ LateOK(t)

TxType == tx \in [Connections -> Transactions \cup {None}]

TxsOK == \A c \in Open : TxOK(tx[c])

LocksDisjoint == \A c, d \in Open : c # d => Held(c) \cap Held(d) = {}

PgInv == RepoTypeOK /\ RowsInBuckets /\ TxType /\ TxsOK /\ LocksDisjoint

\* An empty database.
LEMMA PgInitInv == PgInit => PgInv
<1> SUFFICES ASSUME PgInit PROVE PgInv
  OBVIOUS
<1>1. RepoTypeOK /\ ObjectsInBuckets /\ PartsFollowUploads
  BY RepoInitInv DEF PgInit, RepoInv
<1>2. RowsInBuckets
  BY <1>1 DEF PgInit, RepoInit, RowsInBuckets, UploadExists
<1>3. TxType /\ TxsOK /\ LocksDisjoint
  BY DEF PgInit, TxType, TxsOK, LocksDisjoint, Open
<1>4. QED
  BY <1>1, <1>2, <1>3 DEF PgInv

(***************************************************************************)
(* A transaction while others move                                         *)
(***************************************************************************)

\* What a step must leave to a transaction that does not take it.
LeavesTo(t) ==
    /\ t.met \subseteq ChildRows(t.old)'
    /\ t.next = "commit" => ChildRows(t.old)' = ChildRows(t.old)
    /\ Dropping(t) => buckets'[t.old] # None
    /\ Claimed(t) => buckets'[t.new] = None

\* Then the transaction is as before, with what came in noted as late.
LEMMA OtherTx ==
  ASSUME NEW t \in Transactions, TxOK(t), LeavesTo(t), NEW n,
         n = [t EXCEPT !.late = (@ \cap Stay[t.old]) \cup Arrivals[t.old]]
  PROVE  n \in Transactions /\ TxOK(n)' /\ n.met \cup n.taken = t.met \cup t.taken
<1> DEFINE b == t.old
           noted == (t.late \cap ChildRows(b)' \cap ChildRows(b)) \cup (ChildRows(b)' \ ChildRows(b))
<1>1. b \in Buckets /\ t.late \subseteq Rows
  BY DEF Transactions
<1>2. n = [t EXCEPT !.late = noted]
  BY <1>1 DEF Stay, Arrivals
<1>3. Described(b) /\ Described(b)'
  BY <1>1, ChildRowsAre, ChildRowsThen
<1>4. noted \in SUBSET Rows
  BY <1>1, <1>3 DEF Described
<1>5. /\ n \in Transactions
      /\ n.method = t.method /\ n.next = t.next /\ n.old = t.old /\ n.new = t.new
      /\ n.met = t.met /\ n.taken = t.taken /\ n.late = noted
  BY <1>2, <1>4 DEF Transactions
<1>6. /\ \A r \in ObjectRows(b)' \ t.met :
            r \in noted \/ (r \in ObjectRows(b) \ t.met /\ r \notin t.late)
      /\ \A r \in UploadRows(b)' \ t.met :
            r \in noted \/ (r \in UploadRows(b) \ t.met /\ r \notin t.late)
      /\ \A r \in StreamRows(b)' \ t.met :
            r \in noted \/ (r \in StreamRows(b) \ t.met /\ r \notin t.late)
  BY <1>3 DEF Described
<1>7. ObjectRows(b)' \subseteq noted \/ ~(ObjectRows(b) \subseteq t.late)
  BY <1>3 DEF Described
<1> HIDE DEF noted
<1>8. LateOK(n)'
  BY <1>5, <1>6, <1>7 DEF LateOK, TxOK
<1>9. TakenOK(n)'
  BY <1>5 DEF TakenOK, TxOK, LeavesTo, Renames, Claimed, Dropping, BucketRow
<1>10. TxOK(n)'
  BY <1>5, <1>8, <1>9 DEF TxOK, LeavesTo, Renames, Claimed, Dropping, BucketExists
<1>11. QED
  BY <1>5, <1>10

\* The record of an open transaction.
LEMMA OpenTx ==
  ASSUME TxType, NEW c \in Open
  PROVE  c \in Connections /\ tx[c] \in Transactions /\ tx[c] # None
  BY DEF TxType, Open

\* A change of the tables: the transaction c that made it, if it was one, is over.
LEMMA TablesChange ==
  ASSUME PgInv, RepoTypeOK', RowsInBuckets', NEW c, NoteLate(c),
         \A d \in Open : d = c \/ LeavesTo(tx[d])
  PROVE  PgInv'
<1>1. ASSUME NEW d \in Connections, d # c, tx[d] # None
      PROVE  /\ d \in Open /\ tx'[d] \in Transactions /\ TxOK(tx[d])'
             /\ Held(d)' = Held(d)
  <2>1. d \in Open
    BY <1>1 DEF Open
  <2>2. PICK t \in Transactions : t = tx[d]
    BY <2>1, OpenTx DEF PgInv
  <2>3. TxOK(t) /\ LeavesTo(t)
    BY <1>1, <2>1, <2>2 DEF PgInv, TxsOK
  <2>4. tx'[d] = [t EXCEPT !.late = (@ \cap Stay[t.old]) \cup Arrivals[t.old]]
    BY <1>1, <2>2 DEF NoteLate
  <2>5. PICK n : n = tx'[d]
    OBVIOUS
  <2>6. n \in Transactions /\ TxOK(n)' /\ n.met \cup n.taken = t.met \cup t.taken
    BY <2>3, <2>4, <2>5, OtherTx
  <2>7. QED
    BY <2>1, <2>2, <2>5, <2>6
       DEF Held, TxOK, Renames, Claimed, Dropping, TakenOK, LateOK
<1>2. \A d \in Connections : d = c \/ tx[d] = None => tx'[d] = None
  BY DEF NoteLate
<1>3. TxType'
  BY <1>1, <1>2 DEF NoteLate, TxType
<1>4. \A d \in Open' : d # c /\ d \in Open /\ TxOK(tx[d])' /\ Held(d)' = Held(d)
  BY <1>1, <1>2 DEF Open
<1>5. TxsOK' /\ LocksDisjoint'
  BY <1>4 DEF TxsOK, LocksDisjoint, PgInv
<1>6. QED
  BY <1>3, <1>5 DEF PgInv

\* A change of the tables that brings no row into a bucket and takes none away.
LEMMA RowsStay ==
  ASSUME PgInv, RepoTypeOK', RowsInBuckets', tx' = tx,
         \A b \in Buckets : /\ ChildRows(b)' = ChildRows(b)
                            /\ ObjectRows(b)' = ObjectRows(b)
                            /\ UploadRows(b)' = UploadRows(b)
                            /\ StreamRows(b)' = StreamRows(b),
         \A d \in Open : LeavesTo(tx[d])
  PROVE  PgInv'
<1>1. TxType' /\ Open' = Open /\ \A d \in Open : Held(d)' = Held(d)
  BY DEF PgInv, TxType, Open, Held
<1>2. LocksDisjoint'
  BY <1>1 DEF PgInv, LocksDisjoint
<1>3. ASSUME NEW d \in Open
      PROVE  TxOK(tx[d])'
  <2>1. PICK t \in Transactions : t = tx[d]
    BY OpenTx DEF PgInv
  <2>2. TxOK(t) /\ LeavesTo(t) /\ t.old \in Buckets /\ t = tx'[d]
    BY <2>1 DEF PgInv, TxsOK, Transactions
  <2>3. TakenOK(t)'
    BY <2>2 DEF TxOK, TakenOK, Renames, Claimed, Dropping, BucketRow
  <2>4. LateOK(t)'
    BY <2>2 DEF TxOK, LateOK
  <2>5. TxOK(t)'
    BY <2>2, <2>3, <2>4 DEF TxOK, LeavesTo, Renames, Claimed, Dropping, BucketExists
  <2>6. QED
    BY <2>2, <2>5 DEF TxOK, Renames, Claimed, Dropping, TakenOK, LateOK
<1>4. TxsOK'
  BY <1>1, <1>3 DEF TxsOK
<1>5. QED
  BY <1>1, <1>2, <1>4 DEF PgInv

\* What a transaction holds, one row at a time.
LEMMA Holds ==
  ASSUME PgInv, NEW d \in Open, NEW t \in Transactions, t = tx[d]
  PROVE  /\ TxOK(t) /\ Held(d) = t.met \cup t.taken
         /\ t.old \in Buckets /\ t.new \in Buckets
         /\ Dropping(t) => BucketRow(t.old) \in Held(d)
         /\ Claimed(t) => BucketRow(t.new) \in Held(d)
         /\ t.next = "commit" => ChildRows(t.old) \subseteq Held(d)
<1>1. TxOK(t)
  BY DEF PgInv, TxsOK
<1>2. QED
  BY <1>1 DEF TxOK, TakenOK, Held, Transactions

(***************************************************************************)
(* Methods that are one statement                                          *)
(***************************************************************************)

\* A statement that keeps the rows of every bucket, and neither makes nor removes
\* a bucket whose row is locked, leaves every transaction alone.
LEMMA SameRowsLeave ==
  ASSUME PgInv, NEW t \in Transactions, NEW d \in Open, t = tx[d],
         ChildRows(t.old)' = ChildRows(t.old),
         \A b \in Buckets : BucketExists(b) => buckets'[b] # None,
         \A b \in Buckets : ~BucketExists(b) /\ BucketRow(b) \in Held(d) => buckets'[b] = None
  PROVE  LeavesTo(t)
  BY Holds DEF LeavesTo, TxOK

\* A bucket is created, or gets a policy.
LEMMA BucketStatementInv ==
  ASSUME PgInv, NEW b \in Buckets, NEW p \in Policies, Free({BucketRow(b)}),
         CreateBucket(b, p) \/ SetBucketPolicy(b, p), UNCHANGED tx
  PROVE  PgInv'
<1>1. /\ buckets' = [buckets EXCEPT ![b] = p] /\ p # None
      /\ UNCHANGED <<objects, uploads, parts, streams>>
  BY SentinelAssumption DEF CreateBucket, SetBucketPolicy
<1>2. RepoTypeOK' /\ RowsInBuckets'
  BY <1>1 DEF PgInv, RepoTypeOK, RowsInBuckets, ObjectsInBuckets, PartsFollowUploads,
              ObjectExists, BucketExists, UploadExists
<1>3. \A c \in Buckets : /\ ChildRows(c)' = ChildRows(c)
                         /\ ObjectRows(c)' = ObjectRows(c)
                         /\ UploadRows(c)' = UploadRows(c)
                         /\ StreamRows(c)' = StreamRows(c)
  BY <1>1, SameRows DEF ObjectExists, UploadsOf, UploadExists, StreamsOf
<1>4. ASSUME NEW d \in Open
      PROVE  LeavesTo(tx[d])
  <2>1. PICK t \in Transactions : t = tx[d]
    BY OpenTx DEF PgInv
  <2>2. BucketRow(b) \notin Held(d)
    BY DEF Free
  <2>3. t.old \in Buckets
    BY DEF Transactions
  <2>4. LeavesTo(t)
    BY <1>1, <1>3, <2>1, <2>2, <2>3, SameRowsLeave DEF PgInv, RepoTypeOK, BucketExists
  <2>5. QED
    BY <2>1, <2>4
<1>5. QED
  BY <1>2, <1>3, <1>4, RowsStay

\* A statement that brings rows into bucket b finds the bucket's row free.
LEMMA InsertLeaves ==
  ASSUME PgInv, NEW b \in Buckets, buckets' = buckets,
         \A c \in Buckets \ {b} : ChildRows(c)' = ChildRows(c),
         ChildRows(b) \subseteq ChildRows(b)',
         ChildRows(b)' = ChildRows(b) \/ Free({BucketRow(b)}),
         NEW d \in Open
  PROVE  LeavesTo(tx[d])
<1>1. PICK t \in Transactions : t = tx[d]
  BY OpenTx DEF PgInv
<1>2. TxOK(t) /\ t.old \in Buckets /\ t.new \in Buckets
      /\ (Dropping(t) => BucketRow(t.old) \in Held(d))
  BY <1>1, Holds
<1>3. t.old = b /\ t.next = "commit" => ChildRows(b)' = ChildRows(b)
  BY <1>2 DEF Free, Dropping
<1>4. LeavesTo(t)
  BY <1>2, <1>3 DEF LeavesTo, TxOK, BucketExists
<1>5. QED
  BY <1>1, <1>4

\* A statement that deletes rows of bucket b finds them free.
LEMMA DeleteLeaves ==
  ASSUME PgInv, NEW b \in Buckets, NEW R, Free(R), buckets' = buckets,
         \A c \in Buckets \ {b} : ChildRows(c)' = ChildRows(c),
         ChildRows(b)' = ChildRows(b) \ R,
         NEW d \in Open
  PROVE  LeavesTo(tx[d])
<1>1. PICK t \in Transactions : t = tx[d]
  BY OpenTx DEF PgInv
<1>2. /\ TxOK(t) /\ t.old \in Buckets /\ t.new \in Buckets /\ t.met \subseteq Held(d)
      /\ t.next = "commit" => ChildRows(t.old) \subseteq Held(d)
  BY <1>1, Holds
<1>3. R \cap Held(d) = {}
  BY DEF Free
<1>4. LeavesTo(t)
  BY <1>2, <1>3 DEF LeavesTo, TxOK, BucketExists
<1>5. QED
  BY <1>1, <1>4

\* An object's row is inserted or updated.
LEMMA PutObjectRowInv ==
  ASSUME PgInv, PutObjectRow
  PROVE  PgInv'
<1>1. PICK b \in Buckets, k \in Keys, body \in Bodies :
        /\ ObjectExists(b, k) \/ Free({BucketRow(b)})
        /\ UpsertObject(b, k, ETag(body))
        /\ NoteLate(None)
  BY DEF PutObjectRow
<1>2. ETag(body) \in ETags /\ Entry(b, k, ETag(body)) \in Entries
      /\ Entry(b, k, ETag(body)) # None
  BY ETagType, EntryType
<1>3. /\ objects'[b][k] = Entry(b, k, ETag(body))
      /\ \A c \in Buckets, j \in Keys : c # b \/ j # k => objects'[c][j] = objects[c][j]
      /\ objects' \in [Buckets -> [Keys -> Entries \cup {None}]]
      /\ BucketExists(b) /\ UNCHANGED <<buckets, uploads, parts, streams>>
  BY <1>1, <1>2 DEF UpsertObject, PgInv, RepoTypeOK
<1>4. RepoTypeOK' /\ RowsInBuckets'
  BY <1>2, <1>3 DEF PgInv, RepoTypeOK, RowsInBuckets, ObjectsInBuckets, PartsFollowUploads,
              ObjectExists, BucketExists, UploadExists
<1>5. \A c \in Buckets : UploadsOf(c)' = UploadsOf(c) /\ StreamsOf(c)' = StreamsOf(c)
  BY <1>3 DEF UploadsOf, UploadExists, StreamsOf
<1>6. \A c \in Buckets \ {b} : ChildRows(c)' = ChildRows(c)
  BY <1>3, <1>5, SameRows DEF ObjectExists
<1>7. ChildRows(b) \subseteq ChildRows(b)'
  <2>1. \A j \in Keys : ObjectExists(b, j) => ObjectExists(b, j)'
    BY <1>2, <1>3 DEF ObjectExists
  <2>2. ObjectRows(b) \subseteq ObjectRows(b)'
    BY <2>1 DEF ObjectRows, ObjectRow
  <2>3. QED
    BY <1>5, <2>2 DEF ChildRows, UploadRows, StreamRows, UploadRow, StreamRow
<1>8. ChildRows(b)' = ChildRows(b) \/ Free({BucketRow(b)})
  <2>1. ASSUME ObjectExists(b, k) PROVE ChildRows(b)' = ChildRows(b)
    <3>1. \A j \in Keys : ObjectExists(b, j)' <=> ObjectExists(b, j)
      BY <1>2, <1>3, <2>1 DEF ObjectExists
    <3>2. QED
      BY <1>5, <3>1, SameRows
  <2>2. QED
    BY <1>1, <2>1
<1>9. \A d \in Open : LeavesTo(tx[d])
  BY <1>3, <1>6, <1>7, <1>8, InsertLeaves
<1>10. QED
  BY <1>1, <1>4, <1>9, TablesChange

\* An object's row is deleted.
LEMMA DeleteObjectRowInv ==
  ASSUME PgInv, DeleteObjectRow
  PROVE  PgInv'
<1>1. PICK b \in Buckets, k \in Keys :
        Free({ObjectRow(b, k)}) /\ DeleteObject(b, k) /\ NoteLate(None)
  BY DEF DeleteObjectRow
<1>2. /\ objects'[b][k] = None
      /\ \A c \in Buckets, j \in Keys : c # b \/ j # k => objects'[c][j] = objects[c][j]
      /\ objects' \in [Buckets -> [Keys -> Entries \cup {None}]]
      /\ UNCHANGED <<buckets, uploads, parts, streams>>
  BY <1>1 DEF DeleteObject, PgInv, RepoTypeOK
<1>3. RepoTypeOK' /\ RowsInBuckets'
  BY <1>2 DEF PgInv, RepoTypeOK, RowsInBuckets, ObjectsInBuckets, PartsFollowUploads,
              ObjectExists, BucketExists, UploadExists
<1>4. \A c \in Buckets : UploadsOf(c)' = UploadsOf(c) /\ StreamsOf(c)' = StreamsOf(c)
  BY <1>2 DEF UploadsOf, UploadExists, StreamsOf
<1>5. \A c \in Buckets \ {b} : ChildRows(c)' = ChildRows(c)
  BY <1>2, <1>4, SameRows DEF ObjectExists
<1>6. ChildRows(b)' = ChildRows(b) \ {ObjectRow(b, k)}
  <2>1. ObjectRows(b)' = ObjectRows(b) \ {ObjectRow(b, k)}
    <3>1. \A j \in Keys : ObjectExists(b, j)' <=> ObjectExists(b, j) /\ j # k
      BY <1>2 DEF ObjectExists
    <3>2. QED
      BY <3>1 DEF ObjectRows, ObjectRow
  <2>2. UploadRows(b)' = UploadRows(b) /\ StreamRows(b)' = StreamRows(b)
    BY <1>4 DEF UploadRows, StreamRows, UploadRow, StreamRow
  <2>3. ObjectRow(b, k) \notin UploadRows(b) \cup StreamRows(b)
    BY RowsDiffer DEF UploadRows, StreamRows
  <2>4. QED
    BY <2>1, <2>2, <2>3 DEF ChildRows
<1>7. \A d \in Open : LeavesTo(tx[d])
  BY <1>1, <1>2, <1>5, <1>6, DeleteLeaves
<1>8. QED
  BY <1>1, <1>3, <1>7, TablesChange

\* The rows of uploads and streams, when the objects do not change.
LEMMA SameObjectRows ==
  ASSUME objects' = objects
  PROVE  \A b \in Buckets : ObjectRows(b)' = ObjectRows(b)
  BY DEF ObjectRows, ObjectRow, ObjectExists

\* An upload is inserted.
LEMMA InsertUploadInv ==
  ASSUME PgInv, InsertUpload
  PROVE  PgInv'
<1>1. PICK u \in UploadIds, b \in Buckets, k \in Keys :
        /\ ~UploadExists(u) /\ Free({BucketRow(b), UploadRow(u)})
        /\ CreateMultipartUpload(u, b, k)
        /\ NoteLate(None)
  BY DEF InsertUpload
<1> DEFINE upload == [bucket |-> b, key |-> k]
<1>2. /\ upload \in Uploads /\ upload # None /\ upload.bucket = b
      /\ NoParts \in PartTables /\ NoParts # None
  BY SentinelAssumption DEF Uploads, NoParts, PartTables
<1> HIDE DEF upload
<1>3. /\ uploads' = [uploads EXCEPT ![u] = upload] /\ parts' = [parts EXCEPT ![u] = NoParts]
      /\ BucketExists(b) /\ UNCHANGED <<buckets, objects, streams>>
  BY <1>1 DEF CreateMultipartUpload, upload
<1>4. /\ uploads'[u] = upload /\ parts'[u] = NoParts
      /\ \A v \in UploadIds \ {u} : uploads'[v] = uploads[v] /\ parts'[v] = parts[v]
  BY <1>3 DEF PgInv, RepoTypeOK
<1>5. RepoTypeOK'
  BY <1>2, <1>3 DEF PgInv, RepoTypeOK
<1>6. RowsInBuckets'
  BY <1>2, <1>3, <1>4 DEF PgInv, RowsInBuckets, ObjectsInBuckets, PartsFollowUploads,
              ObjectExists, BucketExists, UploadExists
<1>7. StreamsOf(b)' = StreamsOf(b) /\ \A c \in Buckets : StreamsOf(c)' = StreamsOf(c)
  BY <1>3 DEF StreamsOf
<1>8. \A c \in Buckets \ {b} : UploadsOf(c)' = UploadsOf(c)
  BY <1>1, <1>2, <1>4 DEF UploadsOf, UploadExists
<1>9. UploadsOf(b) \subseteq UploadsOf(b)'
  BY <1>1, <1>4 DEF UploadsOf, UploadExists
<1>10. \A c \in Buckets \ {b} : ChildRows(c)' = ChildRows(c)
  BY <1>3, <1>7, <1>8, SameRows DEF ObjectExists
<1>11. ChildRows(b) \subseteq ChildRows(b)'
  BY <1>3, <1>7, <1>9, SameObjectRows
     DEF ChildRows, UploadRows, StreamRows, UploadRow, StreamRow
<1>12. \A d \in Open : LeavesTo(tx[d])
  BY <1>1, <1>3, <1>10, <1>11, InsertLeaves DEF Free
<1>13. QED
  BY <1>1, <1>5, <1>6, <1>12, TablesChange

\* A stream is inserted.
LEMMA InsertStreamInv ==
  ASSUME PgInv, InsertStream
  PROVE  PgInv'
<1>1. PICK s \in StreamIds, b \in Buckets :
        /\ streams[s] = None /\ BucketExists(b) /\ Free({BucketRow(b), StreamRow(s)})
        /\ CreateStream(s, b)
        /\ NoteLate(None)
  BY DEF InsertStream
<1>2. /\ streams' = [streams EXCEPT ![s] = b] /\ UNCHANGED <<buckets, objects, uploads, parts>>
      /\ b # None
  BY <1>1, SentinelAssumption DEF CreateStream
<1>3. /\ streams'[s] = b
      /\ \A v \in StreamIds \ {s} : streams'[v] = streams[v]
  BY <1>2 DEF PgInv, RepoTypeOK
<1>4. RepoTypeOK'
  BY <1>2 DEF PgInv, RepoTypeOK
<1>5. RowsInBuckets'
  BY <1>1, <1>2, <1>3 DEF PgInv, RowsInBuckets, ObjectsInBuckets, PartsFollowUploads,
              ObjectExists, BucketExists, UploadExists
<1>6. \A c \in Buckets : UploadsOf(c)' = UploadsOf(c)
  BY <1>2 DEF UploadsOf, UploadExists
<1>7. \A c \in Buckets \ {b} : StreamsOf(c)' = StreamsOf(c)
  BY <1>1, <1>3, SentinelAssumption DEF StreamsOf
<1>8. StreamsOf(b) \subseteq StreamsOf(b)'
  BY <1>1, <1>3 DEF StreamsOf
<1>9. \A c \in Buckets \ {b} : ChildRows(c)' = ChildRows(c)
  BY <1>2, <1>6, <1>7, SameRows DEF ObjectExists
<1>10. ChildRows(b) \subseteq ChildRows(b)'
  BY <1>2, <1>6, <1>8, SameObjectRows
     DEF ChildRows, UploadRows, StreamRows, UploadRow, StreamRow
<1>11. \A d \in Open : LeavesTo(tx[d])
  BY <1>1, <1>2, <1>9, <1>10, InsertLeaves DEF Free
<1>12. QED
  BY <1>1, <1>4, <1>5, <1>11, TablesChange

\* An upload is deleted, with its parts.
LEMMA DeleteUploadRowInv ==
  ASSUME PgInv, DeleteUploadRow
  PROVE  PgInv'
<1>1. PICK u \in UploadIds :
        /\ UploadExists(u) /\ Free({UploadRow(u)}) /\ DeleteMultipartUpload(u)
        /\ NoteLate(None)
  BY DEF DeleteUploadRow
<1>2. /\ uploads'[u] = None /\ parts'[u] = None
      /\ \A v \in UploadIds \ {u} : uploads'[v] = uploads[v] /\ parts'[v] = parts[v]
      /\ UNCHANGED <<buckets, objects, streams>>
  BY <1>1 DEF DeleteMultipartUpload, PgInv, RepoTypeOK
<1>3. PICK b \in Buckets : b = uploads[u].bucket
  BY <1>1 DEF PgInv, RepoTypeOK, UploadExists, Uploads
<1>4. RepoTypeOK'
  BY <1>1 DEF DeleteMultipartUpload, PgInv, RepoTypeOK
<1>5. RowsInBuckets'
  BY <1>2 DEF PgInv, RowsInBuckets, ObjectsInBuckets, PartsFollowUploads,
              ObjectExists, BucketExists, UploadExists
<1>6. \A c \in Buckets : StreamsOf(c)' = StreamsOf(c)
  BY <1>2 DEF StreamsOf
<1>7. \A c \in Buckets \ {b} : UploadsOf(c)' = UploadsOf(c)
  BY <1>2, <1>3 DEF UploadsOf, UploadExists
<1>8. UploadsOf(b)' = UploadsOf(b) \ {u}
  BY <1>2, <1>3 DEF UploadsOf, UploadExists
<1>9. \A c \in Buckets \ {b} : ChildRows(c)' = ChildRows(c)
  BY <1>2, <1>6, <1>7, SameRows DEF ObjectExists
<1>10. ChildRows(b)' = ChildRows(b) \ {UploadRow(u)}
  <2>1. ObjectRows(b)' = ObjectRows(b) /\ StreamRows(b)' = StreamRows(b)
    BY <1>2, <1>6, SameObjectRows DEF StreamRows, StreamRow
  <2>2. UploadRows(b)' = UploadRows(b) \ {UploadRow(u)}
    BY <1>8 DEF UploadRows, UploadRow
  <2>3. UploadRow(u) \notin ObjectRows(b) \cup StreamRows(b)
    BY RowsDiffer DEF ObjectRows, StreamRows
  <2>4. QED
    BY <2>1, <2>2, <2>3 DEF ChildRows
<1>11. \A d \in Open : LeavesTo(tx[d])
  BY <1>1, <1>2, <1>9, <1>10, DeleteLeaves
<1>12. QED
  BY <1>1, <1>4, <1>5, <1>11, TablesChange

\* A part is inserted or updated.
LEMMA PutPartRowInv ==
  ASSUME PgInv, PutPartRow
  PROVE  PgInv'
<1>1. PICK u \in UploadIds, n \in PartNumbers, e \in ETags : SaveMultipartPart(u, n, e)
  BY ETagType DEF PutPartRow
<1> DEFINE before == IF parts[u] = None THEN NoParts ELSE parts[u]
           after  == [before EXCEPT ![n] = e]
<1>2. after \in PartTables /\ after # None
  <2>1. before \in PartTables
    BY DEF PgInv, RepoTypeOK, NoParts, PartTables
  <2>2. after \in PartTables
    BY <2>1 DEF PartTables
  <2>3. QED
    BY <2>2, SentinelAssumption DEF PartTables
<1>3. /\ parts' = [parts EXCEPT ![u] = after] /\ UploadExists(u)
      /\ UNCHANGED <<buckets, objects, uploads, streams>> /\ tx' = tx
  BY <1>1 DEF SaveMultipartPart, PutPartRow
<1> HIDE DEF after
<1>4. RepoTypeOK'
  BY <1>2, <1>3 DEF PgInv, RepoTypeOK
<1>5. RowsInBuckets'
  BY <1>2, <1>3 DEF PgInv, RepoTypeOK, RowsInBuckets, ObjectsInBuckets, PartsFollowUploads,
              ObjectExists, BucketExists, UploadExists
<1>6. \A c \in Buckets : /\ ChildRows(c)' = ChildRows(c)
                         /\ ObjectRows(c)' = ObjectRows(c)
                         /\ UploadRows(c)' = UploadRows(c)
                         /\ StreamRows(c)' = StreamRows(c)
  BY <1>3, SameRows DEF ObjectExists, UploadsOf, UploadExists, StreamsOf
<1>7. ASSUME NEW d \in Open
      PROVE  LeavesTo(tx[d])
  <2>1. PICK t \in Transactions : t = tx[d]
    BY OpenTx DEF PgInv
  <2>2. LeavesTo(t)
    BY <1>3, <1>6, <2>1, Holds DEF LeavesTo, TxOK, BucketExists
  <2>3. QED
    BY <2>1, <2>2
<1>8. QED
  BY <1>3, <1>4, <1>5, <1>6, <1>7, RowsStay

(***************************************************************************)
(* Transactions: steps that change no table                                 *)
(***************************************************************************)

\* The transaction on connection c becomes n, whose locks the others leave free.
LEMMA OwnStep ==
  ASSUME PgInv, UNCHANGED repoVars, NEW c \in Connections, NEW n \in Transactions \cup {None},
         tx' = [tx EXCEPT ![c] = n],
         n # None => TxOK(n) /\ FreeFor(c, n.met \cup n.taken)
  PROVE  PgInv'
<1>1. RepoTypeOK' /\ RowsInBuckets'
  BY DEF repoVars, PgInv, RepoTypeOK, RowsInBuckets, ObjectsInBuckets, PartsFollowUploads,
         ObjectExists, BucketExists, UploadExists
<1>2. /\ TxType' /\ tx'[c] = n
      /\ \A d \in Connections \ {c} : tx'[d] = tx[d]
  BY DEF PgInv, TxType
<1>3. ASSUME NEW t \in Transactions, TxOK(t) PROVE TxOK(t)'
  <2>1. t.old \in Buckets
    BY DEF Transactions
  <2>2. /\ ChildRows(t.old)' = ChildRows(t.old)
        /\ ObjectRows(t.old)' = ObjectRows(t.old)
        /\ UploadRows(t.old)' = UploadRows(t.old)
        /\ StreamRows(t.old)' = StreamRows(t.old)
    BY <2>1, SameRows DEF repoVars, ObjectExists, UploadsOf, UploadExists, StreamsOf
  <2>3. buckets' = buckets
    BY DEF repoVars
  <2>4. TakenOK(t)' /\ LateOK(t)'
    BY <1>3, <2>2 DEF TxOK, TakenOK, LateOK, Renames, Claimed, Dropping, BucketRow
  <2>5. QED
    BY <1>3, <2>2, <2>3, <2>4 DEF TxOK, Renames, Claimed, Dropping, BucketExists
<1>4. ASSUME NEW d \in Open'
      PROVE  TxOK(tx[d])'
  <2>1. PICK t \in Transactions : t = tx'[d] /\ TxOK(t)
    BY <1>2, OpenTx DEF Open, PgInv, TxsOK
  <2>2. TxOK(t)'
    BY <1>3, <2>1
  <2>3. QED
    BY <2>1, <2>2 DEF TxOK, Renames, Claimed, Dropping, TakenOK, LateOK
<1>5. LocksDisjoint'
  <2> SUFFICES ASSUME NEW d \in Open', NEW e \in Open', d # e
               PROVE  Held(d)' \cap Held(e)' = {}
    BY DEF LocksDisjoint
  <2>1. ASSUME NEW f \in Open', f # c
        PROVE  f \in Open /\ Held(f)' = Held(f) /\ (c \in Open' => Held(c)' \cap Held(f) = {})
    <3>1. f \in Open /\ Held(f)' = Held(f)
      BY <1>2, <2>1 DEF Open, Held
    <3>2. c \in Open' => Held(c)' = n.met \cup n.taken /\ n # None
      BY <1>2 DEF Open, Held
    <3>3. QED
      BY <2>1, <3>1, <3>2 DEF FreeFor
  <2>2. CASE d # c /\ e # c
    BY <2>1, <2>2 DEF PgInv, LocksDisjoint
  <2>3. CASE d = c
    BY <2>1, <2>3
  <2>4. CASE e = c
    BY <2>1, <2>4
  <2>5. QED
    BY <2>2, <2>3, <2>4
<1>6. QED
  BY <1>1, <1>2, <1>4, <1>5 DEF PgInv, TxsOK

\* A transaction is rolled back.
LEMMA RollbackInv ==
  ASSUME PgInv, NEW c \in Connections, Rollback(c)
  PROVE  PgInv'
  BY OwnStep DEF Rollback

\* A transaction begins; one that deletes a bucket has counted its objects.
LEMMA BeginInv ==
  ASSUME PgInv, NEW c \in Connections,
         BeginUpdateBucket(c) \/ BeginDeleteRecursive(c) \/ BeginDeleteBucket(c)
  PROVE  PgInv'
<1>1. PICK method \in {"UpdateBucket", "DeleteBucketRecursive", "DeleteBucket"},
           statement \in {"claim", "objects", "drop"}, old \in Buckets, new \in Buckets :
        /\ Begin(c, method, statement, old, new)
        /\ method = "UpdateBucket" => statement = "claim" /\ old # new
        /\ method = "DeleteBucketRecursive" => statement = "objects" /\ old = new
        /\ method = "DeleteBucket" => statement = "drop" /\ old = new /\ BucketEmpty(old)
  BY DEF BeginUpdateBucket, BeginDeleteRecursive, BeginDeleteBucket
<1> DEFINE n == [method |-> method, next |-> statement, old |-> old, new |-> new,
                 met |-> {}, taken |-> {}, late |-> {}]
<1>2. /\ n \in Transactions
      /\ n.method = method /\ n.next = statement /\ n.old = old /\ n.new = new
      /\ n.met = {} /\ n.taken = {} /\ n.late = {}
  BY DEF Transactions
<1>3. tx' = [tx EXCEPT ![c] = n] /\ UNCHANGED repoVars
  BY <1>1 DEF Begin
<1> HIDE DEF n
<1>4. LateOK(n)
  BY <1>1, <1>2 DEF LateOK
<1>5. TxOK(n) /\ FreeFor(c, n.met \cup n.taken)
  BY <1>1, <1>2, <1>4 DEF TxOK, TakenOK, Renames, Claimed, Dropping, FreeFor
<1>6. QED
  BY <1>2, <1>3, <1>5, OwnStep

\* What the transaction of a statement that need not wait may lock.
LEMMA StatementFree ==
  ASSUME PgInv, NEW c \in Open, ~Waits(c), NEW t \in Transactions, t = tx[c]
  PROVE  FreeFor(c, t.met \cup t.taken \cup Needs(t))
<1>1. FreeFor(c, Needs(t))
  BY DEF Waits
<1>2. FreeFor(c, t.met \cup t.taken)
  BY DEF FreeFor, PgInv, LocksDisjoint, Held
<1>3. QED
  BY <1>1, <1>2 DEF FreeFor

\* The new name is claimed while no bucket has it, or the transaction fails.
LEMMA ClaimInv ==
  ASSUME PgInv, NEW c \in Open, ~Waits(c), Claim(c)
  PROVE  PgInv'
<1>1. PICK t \in Transactions : t = tx[c] /\ c \in Connections
  BY OpenTx DEF PgInv
<1>2. TxOK(t) /\ t.next = "claim" /\ t.old \in Buckets /\ t.new \in Buckets
  BY <1>1, Holds DEF Claim
<1>3. CASE BucketExists(t.new)
  BY <1>1, <1>3, RollbackInv DEF Claim
<1>4. CASE ~BucketExists(t.new)
  <2>1. Needs(t) = {BucketRow(t.new)} /\ t.taken = {}
    BY <1>2 DEF Needs, TxOK, TakenOK, Claimed, Dropping
  <2> DEFINE n == [t EXCEPT !.next = "objects", !.taken = {BucketRow(t.new)}]
  <2>2. tx' = [tx EXCEPT ![c] = n] /\ UNCHANGED repoVars
    BY <1>1, <1>4, <2>1 DEF Claim, Take, PgInv, TxType
  <2>3. BucketRow(t.new) \in Rows
    BY <1>2 DEF Rows
  <2>4. /\ n \in Transactions
        /\ n.method = t.method /\ n.next = "objects" /\ n.old = t.old /\ n.new = t.new
        /\ n.met = t.met /\ n.taken = {BucketRow(t.new)} /\ n.late = t.late
    BY <2>3 DEF Transactions
  <2> HIDE DEF n
  <2>5. TxOK(n)
    BY <1>2, <1>4, <2>4 DEF TxOK, TakenOK, LateOK, Renames, Claimed, Dropping
  <2>6. FreeFor(c, n.met \cup n.taken)
    BY <1>1, <2>1, <2>4, StatementFree DEF FreeFor
  <2>7. QED
    BY <1>1, <2>2, <2>4, <2>5, <2>6, OwnStep
<1>5. QED
  BY <1>3, <1>4

\* A statement of the transaction meets the rows of one table.
LEMMA TablesInv ==
  ASSUME PgInv, NEW c \in Open, ~Waits(c), Tables(c)
  PROVE  PgInv'
<1>1. PICK t \in Transactions : t = tx[c] /\ c \in Connections
  BY OpenTx DEF PgInv
<1>2. PICK table \in {"objects", "uploads", "streams"}, statement \in {"uploads", "streams", "drop"} :
        /\ Meet(c, table, statement)
        /\ table = "objects" => statement = "uploads"
        /\ table = "uploads" => statement = "streams"
        /\ table = "streams" => statement = "drop"
  BY DEF Tables
<1>3. TxOK(t) /\ t.next = table /\ t.old \in Buckets /\ t.met \subseteq Rows
  BY <1>1, <1>2, Holds DEF Meet, Transactions
<1>4. /\ t.next = "objects" => Needs(t) = ObjectRows(t.old)
      /\ t.next = "uploads" => Needs(t) = UploadRows(t.old)
      /\ t.next = "streams" => Needs(t) = StreamRows(t.old)
  BY DEF Needs
<1>5. Needs(t) \subseteq ChildRows(t.old) /\ ChildRows(t.old) \subseteq Rows
  BY <1>3, <1>4, ChildRowsAre DEF ChildRows, Described
<1> DEFINE n == [t EXCEPT !.next = statement, !.met = @ \cup Needs(t)]
<1>6. tx' = [tx EXCEPT ![c] = n] /\ UNCHANGED repoVars
  BY <1>1, <1>2 DEF Meet, PgInv, TxType
<1>7. /\ n \in Transactions
      /\ n.method = t.method /\ n.next = statement /\ n.old = t.old /\ n.new = t.new
      /\ n.met = t.met \cup Needs(t) /\ n.taken = t.taken /\ n.late = t.late
  BY <1>3, <1>5 DEF Transactions
<1> HIDE DEF n
<1>8. LateOK(n)
  BY <1>2, <1>3, <1>4, <1>7 DEF TxOK, LateOK
<1>9. TakenOK(n)
  BY <1>2, <1>3, <1>7 DEF TxOK, TakenOK, Renames, Claimed, Dropping
<1>10. TxOK(n)
  BY <1>2, <1>3, <1>5, <1>7, <1>8, <1>9 DEF TxOK, Renames, Claimed, Dropping
<1>11. FreeFor(c, n.met \cup n.taken)
  BY <1>1, <1>7, StatementFree DEF FreeFor
<1>12. QED
  BY <1>1, <1>6, <1>7, <1>10, <1>11, OwnStep

\* The bucket's own row, when it is still there.
LEMMA DropInv ==
  ASSUME PgInv, NEW c \in Open, ~Waits(c), Drop(c)
  PROVE  PgInv'
<1>1. PICK t \in Transactions : t = tx[c] /\ c \in Connections
  BY OpenTx DEF PgInv
<1>2. TxOK(t) /\ t.next = "drop" /\ t.old \in Buckets /\ t.taken \subseteq Rows
  BY <1>1, Holds DEF Drop, Transactions
<1>3. CASE ~BucketExists(t.old)
  BY <1>1, <1>3, RollbackInv DEF Drop
<1>4. CASE BucketExists(t.old)
  <2>1. Needs(t) = {BucketRow(t.old)} /\ BucketRow(t.old) \in Rows
    BY <1>2, <1>4 DEF Needs, Rows
  <2> DEFINE n == [t EXCEPT !.next = "cascade", !.taken = @ \cup Needs(t)]
  <2>2. tx' = [tx EXCEPT ![c] = n] /\ UNCHANGED repoVars
    BY <1>1, <1>4 DEF Drop, Take, PgInv, TxType
  <2>3. /\ n \in Transactions
        /\ n.method = t.method /\ n.next = "cascade" /\ n.old = t.old /\ n.new = t.new
        /\ n.met = t.met /\ n.taken = t.taken \cup {BucketRow(t.old)} /\ n.late = t.late
    BY <1>2, <2>1 DEF Transactions
  <2> HIDE DEF n
  <2>4. LateOK(n)
    BY <1>2, <2>3 DEF TxOK, LateOK
  <2>5. TakenOK(n)
    BY <1>2, <2>3 DEF TxOK, TakenOK, Renames, Claimed, Dropping
  <2>6. TxOK(n)
    BY <1>2, <1>4, <2>3, <2>4, <2>5 DEF TxOK, Renames, Claimed, Dropping
  <2>7. FreeFor(c, n.met \cup n.taken)
    BY <1>1, <2>1, <2>3, StatementFree DEF FreeFor
  <2>8. QED
    BY <1>1, <2>2, <2>3, <2>6, <2>7, OwnStep
<1>5. QED
  BY <1>3, <1>4

\* The cascade takes what no statement has met.
LEMMA CascadeInv ==
  ASSUME PgInv, NEW c \in Open, ~Waits(c), Cascade(c)
  PROVE  PgInv'
<1>1. PICK t \in Transactions : t = tx[c] /\ c \in Connections
  BY OpenTx DEF PgInv
<1>2. TxOK(t) /\ t.next = "cascade" /\ t.old \in Buckets /\ t.taken \subseteq Rows
  BY <1>1, Holds DEF Cascade, Transactions
<1>3. Needs(t) = ChildRows(t.old) \ t.met /\ Needs(t) \subseteq Rows
  BY <1>2, ChildRowsAre DEF Needs, Described
<1> DEFINE n == [t EXCEPT !.next = "commit", !.taken = @ \cup Needs(t)]
<1>4. tx' = [tx EXCEPT ![c] = n] /\ UNCHANGED repoVars
  BY <1>1 DEF Cascade, Take, PgInv, TxType
<1>5. /\ n \in Transactions
      /\ n.method = t.method /\ n.next = "commit" /\ n.old = t.old /\ n.new = t.new
      /\ n.met = t.met /\ n.taken = t.taken \cup (ChildRows(t.old) \ t.met) /\ n.late = t.late
  BY <1>2, <1>3 DEF Transactions
<1> HIDE DEF n
<1>6. LateOK(n)
  BY <1>2, <1>5 DEF TxOK, LateOK
<1>7. TakenOK(n)
  BY <1>2, <1>5 DEF TxOK, TakenOK, Renames, Claimed, Dropping
<1>8. TxOK(n)
  BY <1>2, <1>5, <1>6, <1>7 DEF TxOK, Renames, Claimed, Dropping
<1>9. FreeFor(c, n.met \cup n.taken)
  BY <1>1, <1>3, <1>5, StatementFree DEF FreeFor
<1>10. QED
  BY <1>1, <1>4, <1>5, <1>8, <1>9, OwnStep

(***************************************************************************)
(* The commit                                                              *)
(***************************************************************************)

\* A bucket that is not there has no rows: the foreign keys.
LEMMA NoBucketNoRows ==
  ASSUME RowsInBuckets, NEW b \in Buckets, ~BucketExists(b)
  PROVE  ChildRows(b) = {}
<1>1. \A k \in Keys : ~ObjectExists(b, k)
  BY DEF RowsInBuckets, ObjectsInBuckets
<1>2. UploadsOf(b) = {} /\ StreamsOf(b) = {}
  BY SentinelAssumption DEF RowsInBuckets, UploadsOf, StreamsOf
<1>3. QED
  BY <1>1, <1>2 DEF ChildRows, ObjectRows, UploadRows, StreamRows

\* The rows a commit moves and deletes are all those of its bucket.
CommitsRows(old, new, moved, gone) ==
    /\ moved \subseteq ChildRows(old)
    /\ ChildRows(old) \subseteq moved \cup gone
    /\ gone \subseteq ChildRows(old) \cup {BucketRow(b) : b \in Buckets}
    /\ moved \cap gone = {}
    /\ IF old = new THEN moved = {} ELSE ~BucketExists(new)

\* The tables after a commit, row by row.
Applied(old, new, moved) ==
    /\ \A k \in Keys : objects'[old][k] = None \/ old = new
    /\ \A k \in Keys : objects'[new][k] =
         IF ObjectRow(old, k) \in moved THEN Carried(objects[old][k], old, new) ELSE None
    /\ \A b \in Buckets \ {old, new}, k \in Keys : objects'[b][k] = objects[b][k]
    /\ \A u \in UploadIds \ UploadsOf(old) : uploads'[u] = uploads[u] /\ parts'[u] = parts[u]
    /\ \A u \in UploadsOf(old) :
         /\ UploadRow(u) \in moved =>
              uploads'[u] = [uploads[u] EXCEPT !.bucket = new] /\ parts'[u] = parts[u]
         /\ UploadRow(u) \notin moved => uploads'[u] = None /\ parts'[u] = None
    /\ \A s \in StreamIds \ StreamsOf(old) : streams'[s] = streams[s]
    /\ \A s \in StreamsOf(old) : streams'[s] = IF StreamRow(s) \in moved THEN new ELSE None

\* A commit makes them so.
LEMMA ApplyIs ==
  ASSUME RepoTypeOK, RowsInBuckets, NEW old \in Buckets, NEW new \in Buckets,
         NEW moved, NEW gone, CommitsRows(old, new, moved, gone),
         ApplyRows(old, new, moved, gone)
  PROVE  Applied(old, new, moved)
<1>1. Described(old)
  BY ChildRowsAre
<1>2. \A b \in Buckets, k \in Keys :
        /\ ObjectRow(b, k) \in moved \cup gone <=> b = old /\ ObjectExists(old, k)
        /\ ObjectRow(b, k) \in moved => b = old /\ ObjectExists(old, k)
  BY <1>1, RowsDiffer DEF CommitsRows, Described
<1>3. \A u \in UploadIds : UploadRow(u) \in moved \cup gone <=> u \in UploadsOf(old)
  BY <1>1, RowsDiffer DEF CommitsRows, Described
<1>4. \A s \in StreamIds : StreamRow(s) \in moved \cup gone <=> s \in StreamsOf(old)
  BY <1>1, RowsDiffer DEF CommitsRows, Described
<1>5. old # new => \A k \in Keys : objects[new][k] = None
  BY DEF CommitsRows, RowsInBuckets, ObjectsInBuckets, ObjectExists
<1>6. \A b \in Buckets, k \in Keys : objects'[b][k] =
        IF b = new /\ ObjectRow(old, k) \in moved THEN Carried(objects[old][k], old, new)
        ELSE IF ObjectRow(b, k) \in moved \cup gone THEN None ELSE objects[b][k]
  BY DEF ApplyRows
<1>7. \A k \in Keys : objects'[old][k] = None \/ old = new
  BY <1>2, <1>6 DEF ObjectExists
<1>8. \A k \in Keys : objects'[new][k] =
        IF ObjectRow(old, k) \in moved THEN Carried(objects[old][k], old, new) ELSE None
  BY <1>2, <1>5, <1>6 DEF ObjectExists
<1>9. \A b \in Buckets \ {old, new}, k \in Keys : objects'[b][k] = objects[b][k]
  BY <1>2, <1>6
<1>10. \A u \in UploadIds :
         /\ uploads'[u] = IF UploadRow(u) \in moved THEN [uploads[u] EXCEPT !.bucket = new]
                          ELSE IF UploadRow(u) \in gone THEN None ELSE uploads[u]
         /\ parts'[u] = IF UploadRow(u) \in gone THEN None ELSE parts[u]
  BY DEF ApplyRows
<1>11. UploadsOf(old) \subseteq UploadIds /\ StreamsOf(old) \subseteq StreamIds
  BY DEF UploadsOf, StreamsOf
<1>12. /\ \A u \in UploadIds \ UploadsOf(old) : uploads'[u] = uploads[u] /\ parts'[u] = parts[u]
       /\ \A u \in UploadsOf(old) :
            /\ UploadRow(u) \in moved =>
                 uploads'[u] = [uploads[u] EXCEPT !.bucket = new] /\ parts'[u] = parts[u]
            /\ UploadRow(u) \notin moved => uploads'[u] = None /\ parts'[u] = None
  BY <1>3, <1>10, <1>11 DEF CommitsRows
<1>13. \A s \in StreamIds : streams'[s] =
         IF StreamRow(s) \in moved THEN new
         ELSE IF StreamRow(s) \in gone THEN None ELSE streams[s]
  BY DEF ApplyRows
<1>14. /\ \A s \in StreamIds \ StreamsOf(old) : streams'[s] = streams[s]
       /\ \A s \in StreamsOf(old) : streams'[s] = IF StreamRow(s) \in moved THEN new ELSE None
  BY <1>4, <1>11, <1>13
<1>15. QED
  BY <1>7, <1>8, <1>9, <1>12, <1>14 DEF Applied

\* An entry that is carried along stays well formed.
LEMMA CarriedType ==
  ASSUME NEW old \in Buckets, NEW new \in Buckets, NEW e \in Entries
  PROVE  Carried(e, old, new) \in Entries /\ Carried(e, old, new) # None
<1>1. e.path \in Paths /\ e.path[2] \in Keys
  BY DEF Entries, Paths
<1>2. (IF e.path[1] = old THEN Path(new, e.path[2]) ELSE e.path) \in Paths
  BY <1>1 DEF Path, Paths
<1>3. Carried(e, old, new) \in Entries
  BY <1>2 DEF Carried, Entries
<1>4. QED
  BY <1>3, SentinelAssumption DEF Entries

\* The tables stay well typed, and every row is in a bucket that is there.
LEMMA ApplyInv ==
  ASSUME RepoTypeOK, RowsInBuckets, NEW old \in Buckets, NEW new \in Buckets,
         NEW moved, NEW gone, CommitsRows(old, new, moved, gone),
         ApplyRows(old, new, moved, gone),
         buckets' \in [Buckets -> Policies \cup {None}],
         \A b \in Buckets \ {old, new} : buckets'[b] = buckets[b],
         old # new => buckets'[new] # None
  PROVE  RepoTypeOK' /\ RowsInBuckets'
<1>1. Applied(old, new, moved)
  BY ApplyIs
<1>2. /\ DOMAIN objects' = Buckets /\ \A b \in Buckets : DOMAIN objects'[b] = Keys
      /\ objects' = [b \in Buckets |-> objects'[b]]
      /\ \A b \in Buckets : objects'[b] = [k \in Keys |-> objects'[b][k]]
      /\ DOMAIN uploads' = UploadIds /\ uploads' = [u \in UploadIds |-> uploads'[u]]
      /\ DOMAIN parts' = UploadIds /\ parts' = [u \in UploadIds |-> parts'[u]]
      /\ DOMAIN streams' = StreamIds /\ streams' = [s \in StreamIds |-> streams'[s]]
  BY DEF ApplyRows
<1>3. \A k \in Keys : ObjectRow(old, k) \in moved => objects[old][k] \in Entries
  BY ChildRowsAre DEF CommitsRows, Described, ObjectExists, RepoTypeOK
<1>4. \A b \in Buckets, k \in Keys :
        /\ objects'[b][k] \in Entries \cup {None}
        /\ objects'[b][k] # None => buckets'[b] # None
  <2> SUFFICES ASSUME NEW b \in Buckets, NEW k \in Keys
               PROVE  /\ objects'[b][k] \in Entries \cup {None}
                      /\ objects'[b][k] # None => buckets'[b] # None
    OBVIOUS
  <2>1. CASE b \notin {old, new}
    BY <1>1, <2>1 DEF Applied, RepoTypeOK, RowsInBuckets, ObjectsInBuckets, ObjectExists, BucketExists
  <2>2. CASE b = new
    <3>1. objects'[b][k] =
            IF ObjectRow(old, k) \in moved THEN Carried(objects[old][k], old, new) ELSE None
      BY <1>1, <2>2 DEF Applied
    <3>2. old = new => moved = {}
      BY DEF CommitsRows
    <3>3. QED
      BY <1>3, <2>2, <3>1, <3>2, CarriedType
  <2>3. CASE b = old /\ old # new
    BY <1>1, <2>3 DEF Applied
  <2>4. QED
    BY <2>1, <2>2, <2>3
<1>5. \A u \in UploadIds :
        /\ uploads'[u] \in Uploads \cup {None}
        /\ parts'[u] \in PartTables \cup {None}
        /\ uploads'[u] # None <=> parts'[u] # None
        /\ uploads'[u] # None => buckets'[uploads'[u].bucket] # None
  <2> SUFFICES ASSUME NEW u \in UploadIds
               PROVE  /\ uploads'[u] \in Uploads \cup {None}
                      /\ parts'[u] \in PartTables \cup {None}
                      /\ uploads'[u] # None <=> parts'[u] # None
                      /\ uploads'[u] # None => buckets'[uploads'[u].bucket] # None
    OBVIOUS
  <2>1. /\ uploads[u] \in Uploads \cup {None} /\ parts[u] \in PartTables \cup {None}
        /\ uploads[u] # None <=> parts[u] # None
        /\ uploads[u] # None =>
             uploads[u].bucket \in Buckets /\ buckets[uploads[u].bucket] # None
    BY DEF RepoTypeOK, Uploads, RowsInBuckets, PartsFollowUploads, UploadExists, BucketExists
  <2>2. CASE u \notin UploadsOf(old)
    <3>1. uploads'[u] = uploads[u] /\ parts'[u] = parts[u]
      BY <1>1, <2>2 DEF Applied
    <3>2. uploads[u] # None => uploads[u].bucket # old
      BY <2>2 DEF UploadsOf, UploadExists
    <3>3. uploads[u] # None => uploads[u].bucket # new
      BY <2>1, <3>2 DEF CommitsRows, BucketExists
    <3>4. QED
      BY <2>1, <3>1, <3>2, <3>3
  <2>3. CASE u \in UploadsOf(old) /\ UploadRow(u) \in moved
    <3>1. uploads'[u] = [uploads[u] EXCEPT !.bucket = new] /\ parts'[u] = parts[u] /\ old # new
      BY <1>1, <2>3 DEF Applied, CommitsRows
    <3>2. uploads[u] \in Uploads /\ uploads[u] # None
      BY <2>1, <2>3 DEF UploadsOf, UploadExists
    <3>3. uploads'[u] \in Uploads /\ uploads'[u].bucket = new
      BY <3>1, <3>2 DEF Uploads
    <3>4. uploads'[u] # None
      BY <3>3, SentinelAssumption DEF Uploads
    <3>5. QED
      BY <2>1, <3>1, <3>2, <3>3, <3>4
  <2>4. CASE u \in UploadsOf(old) /\ UploadRow(u) \notin moved
    <3>1. uploads'[u] = None /\ parts'[u] = None
      BY <1>1, <2>4 DEF Applied
    <3>2. QED
      BY <3>1
  <2>5. QED
    BY <2>2, <2>3, <2>4
<1>6. \A s \in StreamIds :
        /\ streams'[s] \in Buckets \cup {None}
        /\ streams'[s] # None => buckets'[streams'[s]] # None
  <2> SUFFICES ASSUME NEW s \in StreamIds
               PROVE  /\ streams'[s] \in Buckets \cup {None}
                      /\ streams'[s] # None => buckets'[streams'[s]] # None
    OBVIOUS
  <2>1. streams[s] \in Buckets \cup {None} /\ (streams[s] # None => buckets[streams[s]] # None)
    BY DEF RepoTypeOK, RowsInBuckets, BucketExists
  <2>2. CASE s \notin StreamsOf(old)
    <3>1. streams'[s] = streams[s] /\ streams[s] # old
      BY <1>1, <2>2 DEF Applied, StreamsOf
    <3>2. streams[s] # None => streams[s] # new
      BY <2>1, <3>1 DEF CommitsRows, BucketExists
    <3>3. QED
      BY <2>1, <3>1, <3>2
  <2>3. CASE s \in StreamsOf(old)
    <3>1. streams'[s] = IF StreamRow(s) \in moved THEN new ELSE None
      BY <1>1, <2>3 DEF Applied
    <3>2. old = new => moved = {}
      BY DEF CommitsRows
    <3>3. QED
      BY <3>1, <3>2
  <2>4. QED
    BY <2>2, <2>3
<1>7. objects' \in [Buckets -> [Keys -> Entries \cup {None}]]
  BY <1>2, <1>4
<1>8. RepoTypeOK'
  BY <1>2, <1>5, <1>6, <1>7 DEF RepoTypeOK
<1>9. RowsInBuckets'
  BY <1>4, <1>5, <1>6
     DEF RowsInBuckets, ObjectsInBuckets, PartsFollowUploads, ObjectExists, UploadExists, BucketExists
<1>10. QED
  BY <1>8, <1>9

\* The rows of the buckets that the commit does not name stay.
LEMMA ApplyElsewhere ==
  ASSUME RepoTypeOK, RowsInBuckets, NEW old \in Buckets, NEW new \in Buckets,
         NEW moved, NEW gone, CommitsRows(old, new, moved, gone),
         ApplyRows(old, new, moved, gone), NEW b \in Buckets \ {old, new}
  PROVE  ChildRows(b)' = ChildRows(b)
<1>1. Applied(old, new, moved)
  BY ApplyIs
<1>2. \A k \in Keys : ObjectExists(b, k)' <=> ObjectExists(b, k)
  BY <1>1 DEF Applied, ObjectExists
<1>3. \A u \in UploadIds : u \in UploadsOf(b)' <=> u \in UploadsOf(b)
  <2> SUFFICES ASSUME NEW u \in UploadIds
               PROVE  u \in UploadsOf(b)' <=> u \in UploadsOf(b)
    OBVIOUS
  <2>1. CASE u \notin UploadsOf(old)
    <3>1. uploads'[u] = uploads[u]
      BY <1>1, <2>1 DEF Applied
    <3>2. QED
      BY <3>1 DEF UploadsOf, UploadExists
  <2>2. CASE u \in UploadsOf(old)
    <3>1. uploads'[u] = [uploads[u] EXCEPT !.bucket = new] \/ uploads'[u] = None
      BY <1>1, <2>2 DEF Applied
    <3>2. uploads[u] \in Uploads /\ uploads[u].bucket = old
      BY <2>2 DEF UploadsOf, UploadExists, RepoTypeOK
    <3>3. u \notin UploadsOf(b) /\ u \notin UploadsOf(b)'
      BY <3>1, <3>2 DEF UploadsOf, UploadExists, Uploads
    <3>4. QED
      BY <3>3
  <2>3. QED
    BY <2>1, <2>2
<1>4. \A s \in StreamIds : s \in StreamsOf(b)' <=> s \in StreamsOf(b)
  <2> SUFFICES ASSUME NEW s \in StreamIds
               PROVE  s \in StreamsOf(b)' <=> s \in StreamsOf(b)
    OBVIOUS
  <2>1. CASE s \notin StreamsOf(old)
    <3>1. streams'[s] = streams[s]
      BY <1>1, <2>1 DEF Applied
    <3>2. QED
      BY <3>1 DEF StreamsOf
  <2>2. CASE s \in StreamsOf(old)
    <3>1. streams'[s] = new \/ streams'[s] = None
      BY <1>1, <2>2 DEF Applied
    <3>2. QED
      BY <2>2, <3>1, SentinelAssumption DEF StreamsOf
  <2>3. QED
    BY <2>1, <2>2
<1>5. UploadsOf(b)' = UploadsOf(b) /\ StreamsOf(b)' = StreamsOf(b)
  BY <1>3, <1>4 DEF UploadsOf, StreamsOf
<1>6. QED
  BY <1>2, <1>5, SameRows

\* What a transaction that commits has locked, as the rows it moves and deletes.
LEMMA CommitHolds ==
  ASSUME PgInv, NEW c \in Open, NEW t \in Transactions, t = tx[c], t.next = "commit"
  PROVE  /\ TxOK(t) /\ t.old \in Buckets /\ t.new \in Buckets
         /\ BucketRow(t.old) \in Held(c)
         /\ Renames(t) => BucketRow(t.new) \in Held(c)
         /\ ChildRows(t.old) \subseteq Held(c)
         /\ Renames(t) => CommitsRows(t.old, t.new, t.met, t.taken)
         /\ ~Renames(t) => CommitsRows(t.old, t.old, {}, Held(c))
<1>1. TxOK(t) /\ t.old \in Buckets /\ t.new \in Buckets /\ Held(c) = t.met \cup t.taken
      /\ BucketRow(t.old) \in Held(c) /\ ChildRows(t.old) \subseteq Held(c)
  BY Holds DEF Dropping
<1>2. Renames(t) => BucketRow(t.new) \in Held(c)
  BY Holds DEF Claimed
<1>3. t.taken = (IF Renames(t) THEN {BucketRow(t.new)} ELSE {})
                  \cup {BucketRow(t.old)} \cup (ChildRows(t.old) \ t.met)
  BY <1>1 DEF TxOK, TakenOK, Claimed, Dropping
<1>4. t.met \subseteq ChildRows(t.old) /\ \A b : BucketRow(b) \notin ChildRows(t.old)
  BY <1>1, ChildRowsAre DEF TxOK, Described
<1>5. Renames(t) => t.old # t.new /\ ~BucketExists(t.new)
  BY <1>1 DEF TxOK, Claimed
<1>6. Renames(t) => CommitsRows(t.old, t.new, t.met, t.taken)
  BY <1>1, <1>3, <1>4, <1>5 DEF CommitsRows
<1>7. ~Renames(t) => CommitsRows(t.old, t.old, {}, Held(c))
  BY <1>1, <1>3, <1>4 DEF CommitsRows
<1>8. QED
  BY <1>1, <1>2, <1>6, <1>7

\* A commit leaves the other transactions what they have met and locked.
LEMMA CommitLeaves ==
  ASSUME PgInv, NEW c \in Open, NEW d \in Open, d # c,
         NEW old \in Buckets, NEW new \in Buckets,
         BucketRow(old) \in Held(c), BucketRow(new) \in Held(c), ChildRows(old) \subseteq Held(c),
         old # new => ~BucketExists(new),
         \A b \in Buckets \ {old, new} : ChildRows(b)' = ChildRows(b) /\ buckets'[b] = buckets[b],
         old # new => buckets'[old] = None
  PROVE  LeavesTo(tx[d])
<1>1. PICK t \in Transactions : t = tx[d]
  BY OpenTx DEF PgInv
<1>2. /\ TxOK(t) /\ t.old \in Buckets /\ t.new \in Buckets
      /\ Held(d) = t.met \cup t.taken
      /\ Dropping(t) => BucketRow(t.old) \in Held(d)
      /\ Claimed(t) => BucketRow(t.new) \in Held(d)
  BY <1>1, Holds
<1>3. Held(c) \cap Held(d) = {}
  BY DEF PgInv, LocksDisjoint
<1>4. t.old \in {old, new} => t.met = {} /\ ~Dropping(t)
  <2>1. old # new => ChildRows(new) = {}
    BY NoBucketNoRows DEF PgInv
  <2>2. QED
    BY <1>2, <1>3, <2>1 DEF TxOK
<1>5. t.next = "commit" => Dropping(t)
  BY DEF Dropping
<1>6. t.met \subseteq ChildRows(t.old)'
  BY <1>2, <1>4 DEF TxOK
<1>7. Dropping(t) => buckets'[t.old] # None /\ ChildRows(t.old)' = ChildRows(t.old)
  BY <1>2, <1>4 DEF TxOK, BucketExists
<1>8. Claimed(t) => buckets'[t.new] = None
  <2>1. Claimed(t) => t.new # new /\ t.new # old
    BY <1>2, <1>3
  <2>2. QED
    BY <1>2, <2>1 DEF TxOK, BucketExists
<1>9. LeavesTo(t)
  BY <1>5, <1>6, <1>7, <1>8 DEF LeavesTo
<1>10. QED
  BY <1>1, <1>9

\* The commit.
LEMMA CommitInv ==
  ASSUME PgInv, NEW c \in Open, Commit(c)
  PROVE  PgInv'
<1>1. PICK t \in Transactions : t = tx[c] /\ c \in Connections
  BY OpenTx DEF PgInv
<1>2. t.next = "commit" /\ NoteLate(c)
  BY <1>1 DEF Commit
<1>3. /\ TxOK(t) /\ t.old \in Buckets /\ t.new \in Buckets
      /\ BucketRow(t.old) \in Held(c)
      /\ Renames(t) => BucketRow(t.new) \in Held(c)
      /\ ChildRows(t.old) \subseteq Held(c)
      /\ Renames(t) => CommitsRows(t.old, t.new, t.met, t.taken)
      /\ ~Renames(t) => CommitsRows(t.old, t.old, {}, Held(c))
  BY <1>1, <1>2, CommitHolds
<1>4. RepoTypeOK /\ RowsInBuckets
  BY DEF PgInv
<1>5. CASE Renames(t)
  <2>1. PICK p \in Policies : RenameRows(t.old, t.new, p, t.met, t.taken)
    BY <1>1, <1>5 DEF Commit, Renames
  <2>2. t.old # t.new /\ ~BucketExists(t.new)
    BY <1>2, <1>3, <1>5 DEF TxOK, Claimed
  <2>3. /\ buckets' \in [Buckets -> Policies \cup {None}]
        /\ \A b \in Buckets \ {t.old, t.new} : buckets'[b] = buckets[b]
        /\ buckets'[t.new] # None /\ buckets'[t.old] = None
    BY <1>3, <1>4, <2>1, <2>2, SentinelAssumption DEF RenameRows, RepoTypeOK
  <2>4. ApplyRows(t.old, t.new, t.met, t.taken)
    BY <2>1 DEF RenameRows
  <2>5. RepoTypeOK' /\ RowsInBuckets'
    BY <1>3, <1>4, <1>5, <2>3, <2>4, ApplyInv
  <2>6. \A b \in Buckets \ {t.old, t.new} : ChildRows(b)' = ChildRows(b)
    BY <1>3, <1>4, <1>5, <2>4, ApplyElsewhere
  <2>7. \A d \in Open : d = c \/ LeavesTo(tx[d])
    BY <1>3, <1>5, <2>2, <2>3, <2>6, CommitLeaves
  <2>8. QED
    BY <1>2, <2>5, <2>7, TablesChange
<1>6. CASE ~Renames(t)
  <2>1. DeleteRows(t.old, Held(c))
    BY <1>1, <1>6 DEF Commit, Renames
  <2>2. /\ buckets' \in [Buckets -> Policies \cup {None}]
        /\ \A b \in Buckets \ {t.old, t.old} : buckets'[b] = buckets[b]
    BY <1>3, <1>4, <2>1 DEF DeleteRows, RepoTypeOK
  <2>3. ApplyRows(t.old, t.old, {}, Held(c))
    BY <2>1 DEF DeleteRows
  <2>4. RepoTypeOK' /\ RowsInBuckets'
    BY <1>3, <1>4, <1>6, <2>2, <2>3, ApplyInv
  <2>5. \A b \in Buckets \ {t.old, t.old} : ChildRows(b)' = ChildRows(b)
    BY <1>3, <1>4, <1>6, <2>3, ApplyElsewhere
  <2>6. \A d \in Open : d = c \/ LeavesTo(tx[d])
    BY <1>3, <2>2, <2>5, CommitLeaves
  <2>7. QED
    BY <1>2, <2>4, <2>6, TablesChange
<1>7. QED
  BY <1>5, <1>6

\* A step that changes nothing.
LEMMA PgStutterInv == PgInv /\ UNCHANGED pgVars => PgInv'
<1> SUFFICES ASSUME PgInv, UNCHANGED pgVars PROVE PgInv'
  OBVIOUS
<1>1. \A c \in Buckets : /\ ChildRows(c)' = ChildRows(c)
                         /\ ObjectRows(c)' = ObjectRows(c)
                         /\ UploadRows(c)' = UploadRows(c)
                         /\ StreamRows(c)' = StreamRows(c)
  BY SameRows DEF pgVars, repoVars, ObjectExists, UploadsOf, UploadExists, StreamsOf
<1>2. RepoTypeOK' /\ RowsInBuckets'
  BY DEF pgVars, repoVars, PgInv, RepoTypeOK, RowsInBuckets, ObjectsInBuckets,
         PartsFollowUploads, ObjectExists, BucketExists, UploadExists
<1>3. ASSUME NEW d \in Open
      PROVE  LeavesTo(tx[d])
  <2>1. PICK t \in Transactions : t = tx[d]
    BY OpenTx DEF PgInv
  <2>2. LeavesTo(t)
    BY <1>1, <2>1, Holds DEF LeavesTo, TxOK, BucketExists, pgVars, repoVars
  <2>3. QED
    BY <2>1, <2>2
<1>4. QED
  BY <1>1, <1>2, <1>3, RowsStay DEF pgVars

\* Every step keeps the invariant.
LEMMA PgStep == PgInv /\ [PgNext]_pgVars => PgInv'
<1> SUFFICES ASSUME PgInv, [PgNext]_pgVars PROVE PgInv'
  OBVIOUS
<1>1. CASE InsertBucket \/ UpdatePolicy
  BY <1>1, BucketStatementInv DEF InsertBucket, UpdatePolicy
<1>2. CASE PutObjectRow \/ DeleteObjectRow
  BY <1>2, PutObjectRowInv, DeleteObjectRowInv
<1>3. CASE InsertUpload \/ PutPartRow \/ DeleteUploadRow \/ InsertStream
  BY <1>3, InsertUploadInv, PutPartRowInv, DeleteUploadRowInv, InsertStreamInv
<1>4. ASSUME NEW c \in Connections,
             BeginUpdateBucket(c) \/ BeginDeleteRecursive(c) \/ BeginDeleteBucket(c)
      PROVE  PgInv'
  BY <1>4, BeginInv
<1>5. ASSUME NEW c \in Connections, Statement(c)
      PROVE  PgInv'
  BY <1>5, ClaimInv, TablesInv, DropInv, CascadeInv, CommitInv DEF Statement
<1>6. ASSUME NEW c \in Connections, DeadlockDetected(c) \/ ClientGone(c)
      PROVE  PgInv'
  BY <1>6, RollbackInv DEF DeadlockDetected, ClientGone
<1>7. CASE UNCHANGED pgVars
  BY <1>7, PgStutterInv
<1>8. QED
  BY <1>1, <1>2, <1>3, <1>4, <1>5, <1>6, <1>7 DEF PgNext

(***************************************************************************)
(* Whole methods                                                           *)
(***************************************************************************)

\* The commit of a deletion is DeleteBucketRecursive: none of its rows is left.
LEMMA DeletionIsWhole ==
  ASSUME PgInv, NEW c \in Open, NEW t \in Transactions, t = tx[c], ~Renames(t), Commit(c)
  PROVE  DeleteBucketRecursive(t.old)
<1>1. t.next = "commit" /\ DeleteRows(t.old, Held(c))
  BY DEF Commit, Renames
<1>2. /\ TxOK(t) /\ t.old \in Buckets
      /\ CommitsRows(t.old, t.old, {}, Held(c))
  BY <1>1, CommitHolds
<1>3. BucketExists(t.old)
  BY <1>1, <1>2 DEF TxOK, Dropping
<1>4. ApplyRows(t.old, t.old, {}, Held(c)) /\ buckets' = [buckets EXCEPT ![t.old] = None]
  BY <1>1 DEF DeleteRows
<1>5. Applied(t.old, t.old, {})
  BY <1>2, <1>4, ApplyIs DEF PgInv
<1>6. objects' = [objects EXCEPT ![t.old] = NoObjects]
  <2>1. /\ objects' = [b \in Buckets |-> objects'[b]]
        /\ \A b \in Buckets : objects'[b] = [k \in Keys |-> objects'[b][k]]
    BY <1>4 DEF ApplyRows
  <2>2. \A b \in Buckets, k \in Keys :
          objects'[b][k] = IF b = t.old THEN None ELSE objects[b][k]
    BY <1>2, <1>5 DEF Applied
  <2>3. \A b \in Buckets : objects'[b] = IF b = t.old THEN NoObjects ELSE objects[b]
    BY <2>1, <2>2 DEF NoObjects, PgInv, RepoTypeOK
  <2>4. QED
    BY <2>1, <2>3 DEF PgInv, RepoTypeOK
<1>7. /\ uploads' = [u \in UploadIds |-> IF u \in UploadsOf(t.old) THEN None ELSE uploads[u]]
      /\ parts' = [u \in UploadIds |-> IF u \in UploadsOf(t.old) THEN None ELSE parts[u]]
  <2>1. /\ uploads' = [u \in UploadIds |-> uploads'[u]]
        /\ parts' = [u \in UploadIds |-> parts'[u]]
    BY <1>4 DEF ApplyRows
  <2>2. \A u \in UploadIds :
          /\ uploads'[u] = IF u \in UploadsOf(t.old) THEN None ELSE uploads[u]
          /\ parts'[u] = IF u \in UploadsOf(t.old) THEN None ELSE parts[u]
    BY <1>5 DEF Applied
  <2>3. QED
    BY <2>1, <2>2
<1>8. streams' = [s \in StreamIds |-> IF s \in StreamsOf(t.old) THEN None ELSE streams[s]]
  <2>1. streams' = [s \in StreamIds |-> streams'[s]]
    BY <1>4 DEF ApplyRows
  <2>2. \A s \in StreamIds : streams'[s] = IF s \in StreamsOf(t.old) THEN None ELSE streams[s]
    BY <1>5 DEF Applied
  <2>3. QED
    BY <2>1, <2>2
<1>9. QED
  BY <1>3, <1>4, <1>6, <1>7, <1>8 DEF DeleteBucketRecursive

\* The commit of a rename carries every row of the bucket, but for late ones.
LEMMA RenameIsWhole ==
  ASSUME PgInv, NEW c \in Open, NEW t \in Transactions, t = tx[c], Renames(t), Commit(c)
  PROVE  WholeRename
<1>1. t.next = "commit"
  BY DEF Commit
<1>2. PICK p \in Policies : RenameRows(t.old, t.new, p, t.met, t.taken)
  BY DEF Commit, Renames
<1>3. /\ TxOK(t) /\ t.old \in Buckets /\ t.new \in Buckets
      /\ CommitsRows(t.old, t.new, t.met, t.taken)
  BY <1>1, CommitHolds
<1>4. /\ t.met \in SUBSET ChildRows(t.old) /\ ~BucketExists(t.new)
  BY <1>1, <1>3 DEF TxOK, Claimed
<1>5. ChildRows(t.old) \ t.met \subseteq t.late
  BY <1>1, <1>3 DEF TxOK, LateOK, Renames, ChildRows
<1> DEFINE gone == ChildRows(t.old) \ t.met
<1>6. /\ \A b, k : ObjectRow(b, k) \in t.taken <=> ObjectRow(b, k) \in gone
      /\ \A u : UploadRow(u) \in t.taken <=> UploadRow(u) \in gone
      /\ \A s : StreamRow(s) \in t.taken <=> StreamRow(s) \in gone
  BY <1>3, RowsDiffer DEF CommitsRows
<1> HIDE DEF gone
<1>7. \A b, k : ObjectRow(b, k) \in t.met \cup t.taken <=> ObjectRow(b, k) \in t.met \cup gone
  BY <1>6
<1>8. ApplyRows(t.old, t.new, t.met, gone)
  BY <1>2, <1>6, <1>7 DEF RenameRows, ApplyRows
<1>9. RenameRows(t.old, t.new, p, t.met, gone)
  BY <1>2, <1>8 DEF RenameRows
<1>10. QED
  BY <1>4, <1>5, <1>9 DEF WholeRename, gone

\* A statement that is a method, or a commit, is a whole method; no other
\* statement changes the tables.
LEMMA StatementsAreWhole ==
  ASSUME PgInv, [PgNext]_pgVars
  PROVE  RepoNext \/ WholeRename \/ UNCHANGED repoVars
<1>1. CASE InsertBucket \/ UpdatePolicy
  BY <1>1 DEF InsertBucket, UpdatePolicy, RepoNext, UpdateBucket
<1>2. CASE PutObjectRow \/ DeleteObjectRow
  BY <1>2 DEF PutObjectRow, DeleteObjectRow, RepoNext
<1>3. CASE InsertUpload \/ DeleteUploadRow
  BY <1>3 DEF InsertUpload, DeleteUploadRow, RepoNext
<1>4. CASE PutPartRow \/ InsertStream
  BY <1>4 DEF PutPartRow, InsertStream, RepoNext
<1>5. ASSUME NEW c \in Connections,
             BeginUpdateBucket(c) \/ BeginDeleteRecursive(c) \/ BeginDeleteBucket(c)
      PROVE  UNCHANGED repoVars
  BY <1>5 DEF BeginUpdateBucket, BeginDeleteRecursive, BeginDeleteBucket, Begin
<1>6. ASSUME NEW c \in Connections, DeadlockDetected(c) \/ ClientGone(c)
      PROVE  UNCHANGED repoVars
  BY <1>6 DEF DeadlockDetected, ClientGone, Rollback
<1>7. ASSUME NEW c \in Open, Claim(c) \/ Tables(c) \/ Drop(c) \/ Cascade(c)
      PROVE  UNCHANGED repoVars
  BY <1>7 DEF Claim, Tables, Drop, Cascade, Meet, Take, Rollback
<1>8. ASSUME NEW c \in Open, Commit(c)
      PROVE  RepoNext \/ WholeRename
  <2>1. PICK t \in Transactions : t = tx[c]
    BY OpenTx DEF PgInv
  <2>2. CASE Renames(t)
    BY <1>8, <2>1, <2>2, RenameIsWhole
  <2>3. CASE ~Renames(t)
    <3>1. DeleteBucketRecursive(t.old) /\ t.old \in Buckets
      BY <1>8, <2>1, <2>3, DeletionIsWhole DEF Transactions
    <3>2. QED
      BY <3>1 DEF RepoNext
  <2>4. QED
    BY <2>2, <2>3
<1>9. CASE UNCHANGED pgVars
  BY <1>9 DEF pgVars
<1>10. QED
  BY <1>1, <1>2, <1>3, <1>4, <1>5, <1>6, <1>7, <1>8, <1>9 DEF PgNext, Statement

(***************************************************************************)
(* Theorems                                                                *)
(***************************************************************************)

\* The invariant holds of every behaviour of the tables in Postgres.
THEOREM PgInvariant == PgSpec => []PgInv
<1>1. PgInit => PgInv
  BY PgInitInv
<1>2. PgInv /\ [PgNext]_pgVars => PgInv'
  BY PgStep
<1>3. QED
  BY <1>1, <1>2, PTL DEF PgSpec

\* An object, an upload or a stream names a bucket that exists, across the
\* statements of overlapping transactions.
THEOREM RowsAlwaysInBuckets == PgSpec => []RowsInBuckets
<1>1. PgInv => RowsInBuckets
  BY DEF PgInv
<1>2. QED
  BY <1>1, PgInvariant, PTL

\* The tables change by whole methods of the repository: the transactions of
\* Postgres implement what the lock of the in-memory repository gives, but that a
\* rename may lose the rows that came in while it ran.
THEOREM MethodsAlwaysWhole == PgSpec => MethodsAreWhole
<1>1. PgInv /\ [PgNext]_pgVars => [RepoNext \/ WholeRename]_repoVars
  BY StatementsAreWhole
<1>2. QED
  BY <1>1, PgInvariant, PTL DEF PgSpec, MethodsAreWhole
=============================================================================
