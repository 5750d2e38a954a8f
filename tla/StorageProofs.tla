---------------------------- MODULE StorageProofs ----------------------------
(***************************************************************************)
(* Proofs about what is stored and what is read of it, for every set of     *)
(* buckets, keys and bodies: the two stores (Hybrid), and listings and      *)
(* lookups (Listing).                                                       *)
(*                                                                         *)
(* ServedAsDescribed is not inductive: it asks nothing of an object while   *)
(* the NAS is away, and it must still be right when the NAS comes back.     *)
(* PathsMatch is the same without the question whether the NAS is there: a  *)
(* local file that is not from before the NAS matches, and without a local  *)
(* file the one on the NAS does (NasHoldsNasKeys, LeftAreFiles and          *)
(* LeftIsAll tie the three together).                                       *)
(*                                                                         *)
(* A request that is between its stores leaves its paths in doubt, and a    *)
(* rename relies on its plan (RenamePlan): wherever the files of an object  *)
(* are by now, under the old name or the new, they match.  A rename that    *)
(* stopped halfway leaves its plan to the next try (HalfOK), through        *)
(* restarts with and without the NAS.                                       *)
(*                                                                         *)
(* A walk over the pages has met all that was there all the time up to its  *)
(* cursor (WalkSound), and a lookup that has not found the key itself knows *)
(* that it was not there all the time (LookupSound).                        *)
(***************************************************************************)
EXTENDS Hybrid, Listing, RepositoryProofs, FiniteSetTheorems

(***************************************************************************)
(* The invariant                                                           *)
(***************************************************************************)

Disks == [dirs : SUBSET Buckets, files : [Buckets -> [Keys -> Body \cup {None}]]]

\* The steps between the stores, where the paths of a request may not match.
Between == {"nas", "upsert", "forget", "update"}

StepRequests ==
    [pc : {"store", "drop", "local"} \cup Between,
     op : {"put", "delete", "rename", "force", "plain"},
     bucket : Buckets, key : Keys \cup {None}, to : Buckets,
     body : Body \cup {None}, clean : BOOLEAN, was : SUBSET Keys]

HybridTypeOK ==
    /\ disks \in [Stores -> Disks]
    /\ nas \in BOOLEAN
    /\ req \in {Idle, Finished(TRUE)} \cup StepRequests
    /\ suspect \in SUBSET Paths
    /\ left \in SUBSET Paths
    /\ half \in Halves \cup {None}

\* What holds of the files alone.
FilesInDirs ==
    \A s \in Stores, b \in Buckets, k \in Keys : HasFile(s, b, k) => b \in disks[s].dirs

NasHoldsNasKeys ==
    \A b \in Buckets, k \in Keys : HasFile("nas", b, k) => k \in NasKeys

LeftAreFiles ==
    \A b \in Buckets, k \in Keys :
        Path(b, k) \in left => k \in NasKeys /\ HasFile("local", b, k)

LeftIsAll ==
    nas => \A b \in Buckets, k \in NasKeys : HasFile("local", b, k) => Path(b, k) \in left

FilesOK == FilesInDirs /\ NasHoldsNasKeys /\ LeftAreFiles /\ LeftIsAll

\* The file of a path on a store is the one that the metadata describes.
Matches(s, b, k, etag) == HasFile(s, b, k) /\ ETag(disks[s].files[b][k]) = etag

Clean(b, k) == Path(b, k) \notin suspect /\ Path(b, k) \notin left

\* A local file hides the one on the NAS, which is not asked whether it is
\* configured: it may be again at the next start.
MatchAt(b, k) ==
    ObjectExists(b, k) /\ Clean(b, k) =>
        Matches(IF HasFile("local", b, k) THEN "local" ELSE "nas", b, k, objects[b][k].etag)

InDoubt(b, k) == req.pc \in Between /\ Path(b, k) \in Touched

PathsMatch == \A b \in Buckets, k \in Keys : ~InDoubt(b, k) => MatchAt(b, k)

\* Where the files of a bucket are that is being renamed.
Where(s, old, new) == IF old \in disks[s].dirs THEN old ELSE new

\* What a rename relies on, from its arrival to the last try: wherever the files
\* of an object without doubts are by now, they are those of its metadata.
PlanAt(old, new, k) ==
    ObjectExists(old, k) =>
        /\ k \notin NasKeys => Matches("local", Where("local", old, new), k, objects[old][k].etag)
        /\ k \in NasKeys /\ ~HasFile("local", Where("local", old, new), k)
              => Matches("nas", Where("nas", old, new), k, objects[old][k].etag)

RenamePlan(old, new, was) == \A k \in Keys \ was : PlanAt(old, new, k)

\* The request has removed what it is to remove of store s.
Removed(s) ==
    \A k \in Keys : Path(req.bucket, k) \in Touched => ~HasFile(s, req.bucket, k)

PutOK ==
    /\ req.pc \in {"store", "upsert"}
    /\ req.key \in Keys /\ req.body \in Body
    /\ req.pc = "upsert" =>
         /\ disks[StoreFor(req.key)].files[req.bucket][req.key] = req.body
         /\ ~nas => Path(req.bucket, req.key) \notin left

RemovalOK ==
    /\ req.pc \in {"drop", "local", "nas", "forget"}
    /\ req.op = "delete" => req.key \in Keys
    /\ req.op \in {"force", "plain"} => req.to = req.bucket
    /\ req.pc = "drop" => req.op = "plain"
    /\ req.pc = "forget" => req.op \in {"delete", "force"}
    /\ req.op = "plain" /\ req.pc # "drop" => ~BucketExists(req.bucket)
    /\ req.clean /\ req.pc \in {"nas", "forget"} => Removed("local")
    /\ req.clean /\ req.pc = "forget" /\ nas => Removed("nas")

RenameOK ==
    /\ req.pc \in {"local", "nas", "update"}
    /\ req.to # req.bucket
    /\ RenamePlan(req.bucket, req.to, req.was)
    /\ req.pc \in {"nas", "update"} => req.bucket \notin disks["local"].dirs
    /\ req.pc = "update" /\ nas => req.bucket \notin disks["nas"].dirs

RequestOK ==
    ~Resting =>
        /\ half = None
        /\ req.pc = "nas" => nas
        /\ req.op = "put" => PutOK
        /\ req.op \in {"delete", "force", "plain"} => RemovalOK
        /\ req.op = "rename" => RenameOK

HalfOK == half # None => half.old # half.new /\ RenamePlan(half.old, half.new, half.was)

HybridInv ==
    /\ HybridTypeOK
    /\ RepoInv
    /\ FilesOK
    /\ PathsMatch
    /\ RequestOK
    /\ HalfOK

(***************************************************************************)
(* The disks: what each method of LocalDiskBackend does to them.            *)
(***************************************************************************)

\* A body that a client sends is a body, and none is an absent file.
LEMMA BodyPresent == \A body \in Bodies : body \in Body /\ body # None
  BY BodiesAssumption, NoneAssumption DEF Body

\* The empty disk is a disk.
LEMMA EmptyDiskType == EmptyDisk \in Disks
  BY DEF EmptyDisk, Disks, NoFiles

\* Put writes one file, and makes its directory.
LEMMA PutEffect ==
  ASSUME NEW d \in Disks, NEW b \in Buckets, NEW k \in Keys, NEW body \in Body
  PROVE  /\ Put(d, b, k, body) \in Disks
         /\ Put(d, b, k, body).dirs = d.dirs \cup {b}
         /\ \A c \in Buckets, j \in Keys :
              Put(d, b, k, body).files[c][j] =
                IF c = b /\ j = k THEN body ELSE d.files[c][j]
  BY DEF Put, Disks

\* Delete removes one file.
LEMMA DeleteEffect ==
  ASSUME NEW d \in Disks, NEW b \in Buckets, NEW k \in Keys
  PROVE  /\ Delete(d, b, k) \in Disks
         /\ Delete(d, b, k).dirs = d.dirs
         /\ \A c \in Buckets, j \in Keys :
              Delete(d, b, k).files[c][j] =
                IF c = b /\ j = k THEN None ELSE d.files[c][j]
  BY DEF Delete, Disks

\* DeleteBucket removes a directory with all its files.
LEMMA DeleteDirEffect ==
  ASSUME NEW d \in Disks, NEW b \in Buckets
  PROVE  /\ DeleteDir(d, b) \in Disks
         /\ DeleteDir(d, b).dirs = d.dirs \ {b}
         /\ \A c \in Buckets, j \in Keys :
              DeleteDir(d, b).files[c][j] = IF c = b THEN None ELSE d.files[c][j]
  BY DEF DeleteDir, Disks, NoFiles

\* RenameBucket moves the files of a directory, and nothing without one.
LEMMA RenameDirEffect ==
  ASSUME NEW d \in Disks, NEW old \in Buckets, NEW new \in Buckets, old # new
  PROVE  /\ RenameDir(d, old, new) \in Disks
         /\ old \notin RenameDir(d, old, new).dirs
         /\ old \notin d.dirs => RenameDir(d, old, new) = d
         /\ old \in d.dirs =>
              /\ RenameDir(d, old, new).dirs = (d.dirs \ {old}) \cup {new}
              /\ \A c \in Buckets, j \in Keys :
                   RenameDir(d, old, new).files[c][j] =
                     IF c = old THEN None
                     ELSE IF c = new THEN d.files[old][j] ELSE d.files[c][j]
  BY DEF RenameDir, Disks, NoFiles

\* Two paths are the same when their buckets and keys are.
LEMMA PathsDiffer ==
  \A b, c \in Buckets, j, k \in Keys : Path(b, j) = Path(c, k) <=> b = c /\ j = k
  BY DEF Path

\* Each path is one of the paths.
LEMMA PathType == \A b \in Buckets, k \in Keys : Path(b, k) \in Paths
  BY DEF Path, Paths

(***************************************************************************)
(* What a step leaves alone                                                *)
(***************************************************************************)

\* A path goes on matching when neither its metadata nor its files change and
\* it does not become clean.
LEMMA MatchFrame ==
  ASSUME NEW b \in Buckets, NEW k \in Keys, MatchAt(b, k),
         objects'[b][k] = objects[b][k],
         \A s \in Stores : disks'[s].files[b][k] = disks[s].files[b][k],
         Clean(b, k)' => Clean(b, k)
  PROVE  MatchAt(b, k)'
  BY DEF MatchAt, Matches, HasFile, ObjectExists, Stores

\* The plan of a rename goes by the metadata of the old bucket and the disks.
LEMMA PlanFrame ==
  ASSUME NEW old \in Buckets, NEW new \in Buckets, NEW was, RenamePlan(old, new, was),
         objects'[old] = objects[old], UNCHANGED disks
  PROVE  RenamePlan(old, new, was)'
  BY DEF RenamePlan, PlanAt, Matches, HasFile, Where, ObjectExists

\* A rename may rely on what its plan says when it arrives: either every path
\* matches, or it is the next try of one that had the plan already.
LEMMA ArrivalPlan ==
  ASSUME HybridInv, Resting, NEW old \in Buckets, NEW new \in Buckets, old # new
  PROVE  RenamePlan(old, new, Doubts("rename", old, new))
<1>1. CASE half # None /\ half.old = old /\ half.new = new
  BY <1>1 DEF HybridInv, HalfOK, Doubts
<1>2. CASE ~(half # None /\ half.old = old /\ half.new = new)
  <2>1. SUFFICES ASSUME NEW k \in Keys, k \notin Doubts("rename", old, new), ObjectExists(old, k)
                 PROVE  PlanAt(old, new, k)
    BY DEF RenamePlan, PlanAt
  <2>2. Path(old, k) \notin suspect
    BY <1>2, <2>1 DEF Doubts
  <2>3. MatchAt(old, k)
    BY DEF HybridInv, PathsMatch, InDoubt, Resting, Between
  <2>4. FilesOK
    BY DEF HybridInv
  <2>5. \A s \in Stores : HasFile(s, old, k) => Where(s, old, new) = old
    BY <2>4 DEF FilesOK, FilesInDirs, Where
  <2>6. CASE k \notin NasKeys
    <3>1. Clean(old, k) /\ ~HasFile("nas", old, k)
      BY <2>2, <2>4, <2>6 DEF FilesOK, LeftAreFiles, NasHoldsNasKeys, Clean
    <3>2. Matches("local", old, k, objects[old][k].etag)
      BY <2>1, <2>3, <3>1 DEF MatchAt, Matches
    <3>. QED
      BY <2>5, <2>6, <3>2 DEF PlanAt, Matches, Stores
  <2>7. CASE k \in NasKeys
    <3>1. SUFFICES ASSUME ~HasFile("local", Where("local", old, new), k)
                   PROVE  Matches("nas", Where("nas", old, new), k, objects[old][k].etag)
      BY <2>7 DEF PlanAt
    <3>2. ~HasFile("local", old, k)
      BY <2>5, <3>1 DEF Stores
    <3>3. Clean(old, k)
      BY <2>2, <2>4, <3>2 DEF FilesOK, LeftAreFiles, Clean
    <3>4. Matches("nas", old, k, objects[old][k].etag)
      BY <2>1, <2>3, <3>2, <3>3 DEF MatchAt
    <3>. QED
      BY <2>5, <3>4 DEF Matches, Stores
  <2>. QED
    BY <2>6, <2>7
<1>. QED
  BY <1>1, <1>2

\* An arrival changes the request alone.
LEMMA ArriveInv ==
  ASSUME HybridInv, Arrivals
  PROVE  HybridInv'
<1>1. PICK op \in {"put", "delete", "rename", "force", "plain"}, b \in Buckets,
           k \in Keys \cup {None}, to \in Buckets, body \in Bodies \cup {None},
           pc \in {"store", "drop", "local"} :
         /\ Arrive(op, b, k, to, body, pc)
         /\ op = "put" => pc = "store" /\ k \in Keys /\ body \in Bodies
         /\ op = "delete" => pc = "local" /\ k \in Keys
         /\ op = "rename" => pc = "local" /\ to # b
         /\ op = "force" => pc = "local" /\ to = b
         /\ op = "plain" => pc = "drop" /\ to = b
  BY DEF Arrivals
<1>2. PICK was \in SUBSET Keys : was = IF op = "rename" THEN Doubts(op, b, to) ELSE {}
  BY DEF Doubts, HybridInv, HybridTypeOK, Halves
<1> DEFINE q == [pc |-> pc, op |-> op, bucket |-> b, key |-> k, to |-> to, body |-> body,
                 clean |-> TRUE, was |-> was]
<1>3. /\ Resting /\ req' = q /\ half' = None
      /\ UNCHANGED <<repoVars, disks, nas, suspect, left>>
  BY <1>1, <1>2 DEF Arrive
<1>4. /\ req'.pc = pc /\ req'.op = op /\ req'.bucket = b /\ req'.key = k /\ req'.to = to
      /\ req'.body = body /\ req'.was = was
  BY <1>3
<1>5. q \in StepRequests
  BY BodyPresent DEF StepRequests
<1>6. HybridTypeOK'
  BY <1>3, <1>5 DEF HybridInv, HybridTypeOK
<1>7. RepoInv'
  BY <1>3, RepoStutterInv DEF HybridInv
<1>8. FilesOK'
  BY <1>3 DEF HybridInv, FilesOK, FilesInDirs, NasHoldsNasKeys, LeftAreFiles, LeftIsAll, HasFile
<1>9. PathsMatch'
  <2> SUFFICES ASSUME NEW c \in Buckets, NEW j \in Keys
               PROVE  MatchAt(c, j)'
    BY DEF PathsMatch
  <2>1. MatchAt(c, j)
    BY <1>3 DEF HybridInv, PathsMatch, InDoubt, Resting, Between
  <2>. QED
    BY <1>3, <2>1 DEF MatchAt, Clean, Matches, HasFile, ObjectExists, repoVars
<1>10. RequestOK'
  <2>1. op = "rename" => RenamePlan(b, to, was)'
    <3>1. op = "rename" => RenamePlan(b, to, was)
      BY <1>1, <1>2, <1>3, ArrivalPlan
    <3>2. UNCHANGED <<disks, objects>>
      BY <1>3 DEF repoVars
    <3>. QED
      BY <3>1, <3>2, PlanFrame
  <2>. QED
    <3>1. op = "put" => PutOK'
      BY <1>1, <1>4, BodyPresent DEF PutOK
    <3>2. op \in {"delete", "force", "plain"} => RemovalOK'
      BY <1>1, <1>4 DEF RemovalOK
    <3>3. op = "rename" => RenameOK'
      BY <1>1, <1>4, <2>1 DEF RenameOK
    <3>. QED
      BY <1>3, <1>4, <3>1, <3>2, <3>3 DEF RequestOK
<1>11. HalfOK'
  BY <1>3 DEF HalfOK
<1>. QED
  BY <1>6, <1>7, <1>8, <1>9, <1>10, <1>11 DEF HybridInv

\* What the paths of a request are.
LEMMA TouchedType ==
  ASSUME HybridInv, ~Resting
  PROVE  /\ req \in StepRequests
         /\ Touched \in SUBSET Paths
         /\ \A b \in Buckets, k \in Keys :
              Path(b, k) \in Touched <=>
                IF req.op \in {"put", "delete"} THEN b = req.bucket /\ k = req.key
                ELSE b \in {req.bucket, req.to}
<1>1. req \in StepRequests
  BY DEF HybridInv, HybridTypeOK, Resting, Idle, Finished
<1>2. req.op \in {"put", "delete"} => req.key \in Keys
  BY DEF HybridInv, RequestOK, PutOK, RemovalOK
<1>. QED
  BY <1>1, <1>2 DEF StepRequests, Touched, Path, Paths

(***************************************************************************)
(* A request that ends without a change                                    *)
(***************************************************************************)

\* Wherever a request ends, by an error or with the process, nothing is left
\* that matches no more and that is not suspect; and a rename leaves its plan.
LEMMA EndInv ==
  ASSUME HybridInv, req' = Idle, UNCHANGED <<repoVars, disks>>,
         nas' \in BOOLEAN, left' \in SUBSET Paths, left \subseteq left',
         LeftAreFiles', LeftIsAll',
         \/ ~Resting /\ Torn
         \/ req.pc \notin Between /\ UNCHANGED <<suspect, half>>
  PROVE  HybridInv'
<1>1. CASE ~Resting /\ Torn
  <2>1. PICK b \in Buckets, to \in Buckets, was \in SUBSET Keys :
          b = req.bucket /\ to = req.to /\ was = req.was
    BY <1>1, TouchedType DEF StepRequests
  <2>2. /\ suspect' = suspect \cup Touched
        /\ half' = IF req.op # "rename" THEN None ELSE [old |-> b, new |-> to, was |-> was]
    BY <1>1, <2>1 DEF Torn
  <2>3. HybridTypeOK'
    BY <1>1, <2>1, <2>2, TouchedType DEF HybridInv, HybridTypeOK, Halves
  <2>4. PathsMatch'
    <3> SUFFICES ASSUME NEW c \in Buckets, NEW j \in Keys, Clean(c, j)'
                 PROVE  MatchAt(c, j)'
      BY DEF PathsMatch, MatchAt
    <3>1. Clean(c, j) /\ Path(c, j) \notin Touched
      BY <2>2 DEF Clean
    <3>2. MatchAt(c, j)
      BY <3>1 DEF HybridInv, PathsMatch, InDoubt
    <3>. QED
      BY <3>1, <3>2, MatchFrame DEF repoVars
  <2>5. HalfOK'
    <3>1. SUFFICES ASSUME half' # None
                   PROVE  b # to /\ RenamePlan(b, to, was)'
      BY <2>2 DEF HalfOK
    <3>2. RenameOK
      BY <1>1, <2>2, <3>1 DEF HybridInv, RequestOK
    <3>3. UNCHANGED <<disks, objects>>
      BY DEF repoVars
    <3>. QED
      BY <2>1, <3>2, <3>3, PlanFrame DEF RenameOK
  <2>. QED
    BY <2>3, <2>4, <2>5, RepoStutterInv
    DEF HybridInv, FilesOK, FilesInDirs, NasHoldsNasKeys, HasFile, RequestOK, Resting, Idle
<1>2. CASE req.pc \notin Between /\ UNCHANGED <<suspect, half>>
  <2>1. HybridTypeOK'
    BY <1>2 DEF HybridInv, HybridTypeOK
  <2>2. PathsMatch'
    <3> SUFFICES ASSUME NEW c \in Buckets, NEW j \in Keys
                 PROVE  MatchAt(c, j)'
      BY DEF PathsMatch
    <3>1. MatchAt(c, j)
      BY <1>2 DEF HybridInv, PathsMatch, InDoubt
    <3>2. Clean(c, j)' => Clean(c, j)
      BY <1>2 DEF Clean
    <3>. QED
      BY <3>1, <3>2, MatchFrame DEF repoVars
  <2>3. HalfOK'
    BY <1>2 DEF HybridInv, HalfOK, RenamePlan, PlanAt, Matches, HasFile, Where, ObjectExists, repoVars
  <2>. QED
    BY <2>1, <2>2, <2>3, RepoStutterInv
    DEF HybridInv, FilesOK, FilesInDirs, NasHoldsNasKeys, HasFile, RequestOK, Resting, Idle
<1>. QED
  BY <1>1, <1>2

\* An error after a step that left the disks as they were.
LEMMA FailInv ==
  ASSUME HybridInv, ~Resting, UNCHANGED <<repoVars, disks, nas, left>>,
         FailHalfway \/ (Fail /\ req.pc \notin Between)
  PROVE  HybridInv'
<1>1. LeftAreFiles' /\ LeftIsAll'
  BY DEF HybridInv, FilesOK, LeftAreFiles, LeftIsAll, HasFile
<1>2. nas' \in BOOLEAN /\ left' \in SUBSET Paths /\ left \subseteq left'
  BY DEF HybridInv, HybridTypeOK
<1>. QED
  BY <1>1, <1>2, EndInv DEF Fail, FailHalfway

\* The end of the process, and a start with or without the NAS.
LEMMA RestartInv ==
  ASSUME HybridInv, Restart
  PROVE  HybridInv'
<1>1. /\ nas' \in BOOLEAN /\ UNCHANGED <<repoVars, disks>>
      /\ IF Halfway THEN FailHalfway ELSE Fail
      /\ left' = IF nas' THEN {p \in Paths : p[2] \in NasKeys /\ HasFile("local", p[1], p[2])}
                 ELSE left
  BY DEF Restart
<1> DEFINE all == {p \in Paths : p[2] \in NasKeys /\ HasFile("local", p[1], p[2])}
<1>2. \A b \in Buckets, k \in Keys :
        Path(b, k) \in all <=> k \in NasKeys /\ HasFile("local", b, k)
  BY DEF Path, Paths
<1>3. \A p \in Paths : p \in left => p \in all
  BY DEF HybridInv, FilesOK, LeftAreFiles, Paths, Path
<1>4. all \in SUBSET Paths
  OBVIOUS
<1> HIDE DEF all
<1>5. left' = IF nas' THEN all ELSE left
  BY <1>1 DEF all
<1>6. left' \in SUBSET Paths /\ left \subseteq left'
  BY <1>3, <1>4, <1>5 DEF HybridInv, HybridTypeOK
<1>7. \A b \in Buckets, k \in Keys : HasFile("local", b, k)' <=> HasFile("local", b, k)
  BY <1>1 DEF HasFile
<1>8. LeftAreFiles' /\ LeftIsAll'
  BY <1>2, <1>5, <1>7, NasKeysAssumption DEF HybridInv, FilesOK, LeftAreFiles, LeftIsAll
<1>9. Halfway => ~Resting
  BY DEF Halfway, Resting
<1>10. ~Halfway => req.pc \notin Between
  BY DEF Halfway, Between
<1>11. req' = Idle
  BY <1>1 DEF Fail, FailHalfway
<1>. QED
  BY <1>1, <1>6, <1>8, <1>9, <1>10, <1>11, EndInv DEF Fail, FailHalfway

(***************************************************************************)
(* The steps on the stores                                                 *)
(***************************************************************************)

\* The request after a step that takes it to pc.
LEMMA GotoEffect ==
  ASSUME HybridInv, ~Resting, NEW pc \in {"store", "drop", "local"} \cup Between, Goto(pc)
  PROVE  /\ req' \in StepRequests
         /\ req'.pc = pc /\ req'.op = req.op /\ req'.bucket = req.bucket
         /\ req'.key = req.key /\ req'.to = req.to /\ req'.body = req.body
         /\ req'.clean = req.clean /\ req'.was = req.was
         /\ ~Resting' /\ Touched' = Touched
<1> DEFINE q == [req EXCEPT !.pc = pc]
<1>1. req \in StepRequests
  BY TouchedType
<1>2. /\ q.pc = pc /\ q.op = req.op /\ q.bucket = req.bucket
      /\ q.key = req.key /\ q.to = req.to /\ q.body = req.body
      /\ q.clean = req.clean /\ q.was = req.was
  BY <1>1, Zenon DEF StepRequests
<1>3. q \in StepRequests
  BY <1>1 DEF StepRequests
<1>4. req' = q
  BY DEF Goto
<1> HIDE DEF q
<1>5. ~Resting'
  BY <1>2, <1>4 DEF Resting, Between
<1>6. Touched' = Touched
  BY <1>2, <1>4 DEF Touched
<1>. QED
  BY <1>2, <1>3, <1>4, <1>5, <1>6

\* Put: the file is in its store, and the request remembers which.
LEMMA PutFileInv ==
  ASSUME HybridInv, PutFile
  PROVE  HybridInv'
<1>1. ~Resting /\ req.pc = "store" /\ req.op = "put"
  BY DEF PutFile, At, Resting
<1>2. CASE Fail /\ UNCHANGED <<disks, left>>
  BY <1>1, <1>2, FailInv DEF PutFile, Between
<1>3. CASE /\ disks' = [disks EXCEPT ![StoreFor(req.key)] =
                          Put(@, req.bucket, req.key, req.body)]
           /\ left' = IF nas THEN left ELSE left \ Touched
           /\ Goto("upsert") /\ UNCHANGED <<suspect, half>>
  <2>1. PutOK
    BY <1>1 DEF HybridInv, RequestOK
  <2>2. PICK b \in Buckets, k \in Keys, body \in Body, s \in Stores :
          b = req.bucket /\ k = req.key /\ body = req.body /\ s = StoreFor(k)
    BY <1>1, <2>1, TouchedType DEF StepRequests, PutOK, StoreFor, Stores
  <2>3. disks \in [Stores -> Disks]
    BY DEF HybridInv, HybridTypeOK
  <2>4. /\ disks' = [disks EXCEPT ![s] = Put(disks[s], b, k, body)]
        /\ disks' \in [Stores -> Disks]
        /\ disks'[s] = Put(disks[s], b, k, body)
        /\ \A t \in Stores : t # s => disks'[t] = disks[t]
    BY <1>3, <2>2, <2>3, PutEffect
  <2>5. \A t \in Stores, c \in Buckets, j \in Keys :
          disks'[t].files[c][j] =
            IF t = s /\ c = b /\ j = k THEN body ELSE disks[t].files[c][j]
    BY <2>3, <2>4, PutEffect
  <2>6. /\ disks'[s].dirs = disks[s].dirs \cup {b}
        /\ \A t \in Stores : disks[t].dirs \subseteq disks'[t].dirs
    <3>1. disks'[s].dirs = disks[s].dirs \cup {b}
      BY <2>3, <2>4, PutEffect
    <3>. QED
      BY <2>4, <3>1
  <2>7. /\ req' \in StepRequests /\ ~Resting' /\ Touched' = Touched
        /\ req'.pc = "upsert" /\ req'.op = "put" /\ req'.bucket = b /\ req'.key = k
        /\ req'.body = body
    BY <1>1, <1>3, <2>2, GotoEffect DEF Between
  <2>8. UNCHANGED <<repoVars, nas, suspect, half>>
    BY <1>3 DEF PutFile
  <2>9. \A c \in Buckets, j \in Keys : Path(c, j) \in Touched <=> c = b /\ j = k
    BY <1>1, <2>2, TouchedType
  <2>10. body # None
    BY NoneAssumption DEF Body
  <2>11. \A c \in Buckets, j \in Keys :
           Path(c, j) \in left' <=> Path(c, j) \in left /\ (nas \/ ~(c = b /\ j = k))
    BY <1>3, <2>9
  <2>12. HybridTypeOK'
    BY <1>3, <2>4, <2>7, <2>8 DEF HybridInv, HybridTypeOK
  <2>13. FilesOK'
    <3>1. FilesInDirs'
      <4> SUFFICES ASSUME NEW t \in Stores, NEW c \in Buckets, NEW j \in Keys, HasFile(t, c, j)'
                   PROVE  c \in disks'[t].dirs
        BY DEF FilesInDirs
      <4>1. CASE t = s /\ c = b /\ j = k
        BY <2>6, <4>1
      <4>2. CASE ~(t = s /\ c = b /\ j = k)
        BY <2>5, <2>6, <4>2 DEF HybridInv, FilesOK, FilesInDirs, HasFile
      <4>. QED
        BY <4>1, <4>2
    <3>2. NasHoldsNasKeys'
      BY <2>2, <2>5 DEF HybridInv, FilesOK, NasHoldsNasKeys, HasFile, StoreFor, Stores
    <3>3. LeftAreFiles'
      BY <2>5, <2>10, <2>11 DEF HybridInv, FilesOK, LeftAreFiles, HasFile, Stores
    <3>4. LeftIsAll'
      <4> SUFFICES ASSUME nas, NEW c \in Buckets, NEW j \in Keys, j \in NasKeys, HasFile("local", c, j)'
                   PROVE  Path(c, j) \in left
        BY <1>3, <2>8, NasKeysAssumption DEF LeftIsAll
      <4>1. ~("local" = s /\ c = b /\ j = k)
        BY <2>2 DEF StoreFor
      <4>2. HasFile("local", c, j)
        BY <2>5, <4>1 DEF HasFile, Stores
      <4>. QED
        BY <4>2 DEF HybridInv, FilesOK, LeftIsAll
    <3>. QED
      BY <3>1, <3>2, <3>3, <3>4 DEF FilesOK
  <2>14. PathsMatch'
    <3> SUFFICES ASSUME NEW c \in Buckets, NEW j \in Keys, ~InDoubt(c, j)'
                 PROVE  MatchAt(c, j)'
      BY DEF PathsMatch
    <3>1. ~(c = b /\ j = k)
      BY <2>7, <2>9 DEF InDoubt, Between
    <3>2. MatchAt(c, j)
      BY <1>1 DEF HybridInv, PathsMatch, InDoubt, Between
    <3>3. Clean(c, j)' => Clean(c, j)
      BY <2>8, <2>11, <3>1 DEF Clean
    <3>. QED
      BY <2>5, <2>8, <3>1, <3>2, <3>3, MatchFrame DEF repoVars
  <2>15. RequestOK'
    <3>1. StoreFor(k)' = s
      BY <2>2, <2>8 DEF StoreFor
    <3>2. PutOK'
      BY <2>5, <2>7, <2>8, <2>11, <3>1 DEF PutOK
    <3>3. half' = None
      BY <1>1, <2>8 DEF HybridInv, RequestOK
    <3>. QED
      BY <2>7, <3>2, <3>3 DEF RequestOK
  <2>16. HalfOK'
    BY <1>1, <1>3 DEF HybridInv, RequestOK, HalfOK
  <2>. QED
    BY <2>8, <2>12, <2>13, <2>14, <2>15, <2>16, RepoStutterInv DEF HybridInv
<1>. QED
  BY <1>2, <1>3 DEF PutFile

\* Delete and DeleteBucket on one store: the files of the request go from it,
\* or nothing does, and the request goes on either way.
LEMMA DeleteOnEffect ==
  ASSUME HybridInv, NEW s \in Stores, NEW deleted \in BOOLEAN,
         At(s, {"delete", "force", "plain"}),
         disks' = IF ~deleted THEN disks
                  ELSE [disks EXCEPT ![s] = IF req.op = "delete"
                                            THEN Delete(@, req.bucket, req.key)
                                            ELSE DeleteDir(@, req.bucket)]
  PROVE  /\ disks' \in [Stores -> Disks]
         /\ \A t \in Stores, c \in Buckets, j \in Keys :
              disks'[t].files[c][j] =
                IF deleted /\ t = s /\ Path(c, j) \in Touched THEN None ELSE disks[t].files[c][j]
         /\ \A t \in Stores, c \in Buckets, j \in Keys :
              c \in disks[t].dirs /\ ~(deleted /\ t = s /\ Path(c, j) \in Touched)
                => c \in disks'[t].dirs
<1>1. disks \in [Stores -> Disks] /\ disks[s] \in Disks
  BY DEF HybridInv, HybridTypeOK
<1>2. CASE ~deleted
  BY <1>1, <1>2
<1>3. ~Resting /\ RemovalOK
  BY DEF At, Resting, HybridInv, RequestOK, Stores
<1>4. PICK b \in Buckets : b = req.bucket
  BY <1>3, TouchedType DEF StepRequests
<1>5. CASE deleted /\ req.op = "delete"
  <2>1. PICK k \in Keys : k = req.key
    BY <1>3, <1>5 DEF RemovalOK
  <2>2. disks' = [disks EXCEPT ![s] = Delete(disks[s], b, k)]
    BY <1>1, <1>4, <1>5, <2>1
  <2>3. \A c \in Buckets, j \in Keys : Path(c, j) \in Touched <=> c = b /\ j = k
    BY <1>3, <1>4, <1>5, <2>1, TouchedType
  <2> DEFINE d == Delete(disks[s], b, k)
  <2>4. /\ d \in Disks /\ d.dirs = disks[s].dirs
        /\ \A c \in Buckets, j \in Keys :
             d.files[c][j] = IF c = b /\ j = k THEN None ELSE disks[s].files[c][j]
    BY <1>1, DeleteEffect
  <2> HIDE DEF d
  <2>5. disks' = [disks EXCEPT ![s] = d]
    BY <2>2 DEF d
  <2>6. disks'[s] = d /\ (\A t \in Stores : t # s => disks'[t] = disks[t])
    BY <1>1, <2>5
  <2>7. disks' \in [Stores -> Disks]
    BY <1>1, <2>4, <2>5
  <2>. QED
    BY <1>5, <2>3, <2>4, <2>6, <2>7
<1>6. CASE deleted /\ req.op # "delete"
  <2>1. disks' = [disks EXCEPT ![s] = DeleteDir(disks[s], b)]
    BY <1>1, <1>4, <1>6
  <2>2. \A c \in Buckets, j \in Keys : Path(c, j) \in Touched <=> c = b
    BY <1>3, <1>4, <1>6, TouchedType DEF At, RemovalOK
  <2> DEFINE d == DeleteDir(disks[s], b)
  <2>3. /\ d \in Disks /\ d.dirs = disks[s].dirs \ {b}
        /\ \A c \in Buckets, j \in Keys :
             d.files[c][j] = IF c = b THEN None ELSE disks[s].files[c][j]
    BY <1>1, DeleteDirEffect
  <2> HIDE DEF d
  <2>4. disks' = [disks EXCEPT ![s] = d]
    BY <2>1 DEF d
  <2>5. disks'[s] = d /\ (\A t \in Stores : t # s => disks'[t] = disks[t])
    BY <1>1, <2>4
  <2>6. disks' \in [Stores -> Disks]
    BY <1>1, <2>3, <2>4
  <2>. QED
    BY <1>6, <2>2, <2>3, <2>5, <2>6
<1>. QED
  BY <1>2, <1>5, <1>6

\* Where the request is then.
LEMMA DeleteOnRequest ==
  ASSUME HybridInv, NEW s \in Stores, NEW clean \in BOOLEAN,
         At(s, {"delete", "force", "plain"}),
         req' = IF AfterStore(s) = "done" THEN Finished(clean)
                ELSE [req EXCEPT !.pc = AfterStore(s), !.clean = clean]
  PROVE  \/ /\ req.op = "plain" /\ req' = Finished(clean)
            /\ s = "local" => ~nas
         \/ /\ req' \in StepRequests /\ ~Resting' /\ Touched' = Touched
            /\ req'.op = req.op /\ req'.bucket = req.bucket /\ req'.key = req.key
            /\ req'.to = req.to /\ req'.clean = clean
            /\ req'.pc \in {"nas", "forget"}
            /\ req'.pc = "nas" => nas /\ s = "local"
            /\ req'.pc = "forget" => req.op \in {"delete", "force"} /\ (s = "local" => ~nas)
<1>1. ~Resting /\ RemovalOK
  BY DEF At, Resting, HybridInv, RequestOK, Stores
<1>2. CASE AfterStore(s) = "done"
  BY <1>2 DEF AfterStore, At, Stores
<1>3. CASE AfterStore(s) # "done"
  <2>1. PICK pc \in {"nas", "forget"} :
          /\ pc = AfterStore(s)
          /\ pc = "nas" => nas /\ s = "local"
          /\ pc = "forget" => req.op \in {"delete", "force"} /\ (s = "local" => ~nas)
    BY <1>3 DEF AfterStore, At, Stores
  <2> DEFINE q == [req EXCEPT !.pc = pc, !.clean = clean]
  <2>2. req \in StepRequests
    BY <1>1, TouchedType
  <2>3. q.pc = pc /\ q.op = req.op /\ q.bucket = req.bucket /\ q.key = req.key /\ q.to = req.to
    BY <2>2 DEF StepRequests
  <2>4. q.clean = clean
    BY <2>2, Zenon DEF StepRequests
  <2>5. q \in StepRequests
    BY <2>2 DEF StepRequests, Between
  <2>6. req' = q
    BY <1>3, <2>1
  <2> HIDE DEF q
  <2>7. ~Resting' /\ Touched' = Touched
    BY <2>3, <2>6 DEF Resting, Touched
  <2>. QED
    BY <2>1, <2>3, <2>4, <2>5, <2>6, <2>7
<1>. QED
  BY <1>2, <1>3

\* Delete and DeleteBucket, whether the store does it or not.
LEMMA DeleteOnInv ==
  ASSUME HybridInv, NEW s \in Stores, DeleteOn(s)
  PROVE  HybridInv'
<1>1. PICK deleted \in BOOLEAN, clean \in BOOLEAN :
        /\ clean = (req.clean /\ deleted)
        /\ disks' = IF ~deleted THEN disks
                    ELSE [disks EXCEPT ![s] = IF req.op = "delete"
                                              THEN Delete(@, req.bucket, req.key)
                                              ELSE DeleteDir(@, req.bucket)]
        /\ req' = IF AfterStore(s) = "done" THEN Finished(clean)
                  ELSE [req EXCEPT !.pc = AfterStore(s), !.clean = clean]
  <2>1. PICK deleted \in BOOLEAN :
          /\ disks' = IF ~deleted THEN disks
                      ELSE [disks EXCEPT ![s] = IF req.op = "delete"
                                                THEN Delete(@, req.bucket, req.key)
                                                ELSE DeleteDir(@, req.bucket)]
          /\ req' = IF AfterStore(s) = "done" THEN Finished(req.clean /\ deleted)
                    ELSE [req EXCEPT !.pc = AfterStore(s), !.clean = req.clean /\ deleted]
    BY Zenon DEF DeleteOn
  <2>2. PICK clean \in BOOLEAN : clean = (req.clean /\ deleted)
    OBVIOUS
  <2>. QED
    BY <2>1, <2>2, Zenon
<1>2. At(s, {"delete", "force", "plain"}) /\ ~Resting /\ RemovalOK /\ req.pc = s
  BY DEF DeleteOn, At, Resting, HybridInv, RequestOK, Stores
<1>3. UNCHANGED <<repoVars, nas, suspect, half>>
  BY DEF DeleteOn
<1>4. PICK b \in Buckets : b = req.bucket
  BY <1>2, TouchedType DEF StepRequests
<1> DEFINE Gone(t, c, j) == deleted /\ t = s /\ Path(c, j) \in Touched
<1>5. /\ disks' \in [Stores -> Disks]
      /\ \A t \in Stores, c \in Buckets, j \in Keys :
           disks'[t].files[c][j] = IF Gone(t, c, j) THEN None ELSE disks[t].files[c][j]
      /\ \A t \in Stores, c \in Buckets, j \in Keys :
           c \in disks[t].dirs /\ ~Gone(t, c, j) => c \in disks'[t].dirs
  BY <1>1, <1>2, DeleteOnEffect
<1>6. \/ /\ req.op = "plain" /\ req' = Finished(clean)
         /\ s = "local" => ~nas
      \/ /\ req' \in StepRequests /\ ~Resting' /\ Touched' = Touched
         /\ req'.op = req.op /\ req'.bucket = req.bucket /\ req'.key = req.key
         /\ req'.to = req.to /\ req'.clean = clean
         /\ req'.pc \in {"nas", "forget"}
         /\ req'.pc = "nas" => nas /\ s = "local"
         /\ req'.pc = "forget" => req.op \in {"delete", "force"} /\ (s = "local" => ~nas)
  BY <1>1, <1>2, DeleteOnRequest, Zenon
<1>7. \A t \in Stores, c \in Buckets, j \in Keys :
        HasFile(t, c, j)' <=> HasFile(t, c, j) /\ ~Gone(t, c, j)
  BY <1>5 DEF HasFile
<1>8. /\ left' \in SUBSET left
      /\ \A c \in Buckets, j \in Keys :
           Path(c, j) \in left' <=> Path(c, j) \in left /\ HasFile("local", c, j)'
  <2>1. left' = {p \in left : disks'["local"].files[p[1]][p[2]] # None}
    BY DEF DeleteOn
  <2>. QED
    BY <2>1 DEF Path, HasFile
<1> HIDE DEF Gone
<1>9. HybridTypeOK'
  BY <1>3, <1>5, <1>6, <1>8 DEF HybridInv, HybridTypeOK, Finished
<1>10. FilesOK'
  <2>1. FilesInDirs'
    BY <1>5, <1>7 DEF HybridInv, FilesOK, FilesInDirs
  <2>2. NasHoldsNasKeys'
    BY <1>7 DEF HybridInv, FilesOK, NasHoldsNasKeys, Stores
  <2>3. LeftAreFiles'
    BY <1>8 DEF HybridInv, FilesOK, LeftAreFiles
  <2>4. LeftIsAll'
    BY <1>3, <1>7, <1>8, NasKeysAssumption DEF HybridInv, FilesOK, LeftIsAll, Stores
  <2>. QED
    BY <2>1, <2>2, <2>3, <2>4 DEF FilesOK
<1>11. PathsMatch'
  <2> SUFFICES ASSUME NEW c \in Buckets, NEW j \in Keys, ~InDoubt(c, j)'
               PROVE  MatchAt(c, j)'
    BY DEF PathsMatch
  <2>1. CASE Path(c, j) \in Touched
    <3>1. req.op = "plain"
      BY <1>6, <2>1 DEF InDoubt, Between
    <3>2. c = b /\ ~BucketExists(b)
      BY <1>2, <1>4, <2>1, <3>1, TouchedType DEF RemovalOK, Stores
    <3>3. ~ObjectExists(c, j)'
      BY <1>3, <3>2 DEF HybridInv, RepoInv, ObjectsInBuckets, ObjectExists, repoVars
    <3>. QED
      BY <3>3 DEF MatchAt
  <2>2. CASE Path(c, j) \notin Touched
    <3>1. MatchAt(c, j)
      BY <2>2 DEF HybridInv, PathsMatch, InDoubt
    <3>2. \A t \in Stores : ~Gone(t, c, j)
      BY <2>2 DEF Gone
    <3>3. Clean(c, j)' => Clean(c, j)
      BY <1>3, <1>7, <1>8, <3>2 DEF Clean, HybridInv, FilesOK, LeftAreFiles, Stores
    <3>. QED
      BY <1>3, <1>5, <3>1, <3>2, <3>3, MatchFrame DEF repoVars
  <2>. QED
    BY <2>1, <2>2
<1>12. RequestOK'
  <2>1. CASE req' = Finished(clean)
    BY <2>1 DEF RequestOK, Resting, Finished, Idle
  <2>2. CASE req' # Finished(clean)
    <3>1. clean /\ s = "local" => Removed("local")'
      BY <1>1, <1>4, <1>6, <1>7, <2>2 DEF Removed, Gone, Stores
    <3>2. clean /\ s = "nas" => Removed("local")'
      BY <1>1, <1>2, <1>4, <1>6, <1>7, <2>2 DEF Removed, RemovalOK, Stores
    <3>3. clean /\ s = "nas" => Removed("nas")'
      BY <1>1, <1>4, <1>6, <1>7, <2>2 DEF Removed, Gone, Stores
    <3>4. RemovalOK'
      BY <1>2, <1>3, <1>6, <2>2, <3>1, <3>2, <3>3
      DEF RemovalOK, Stores, BucketExists, repoVars
    <3>5. half' = None
      BY <1>2, <1>3 DEF HybridInv, RequestOK
    <3>. QED
      BY <1>2, <1>3, <1>6, <2>2, <3>4, <3>5 DEF RequestOK, At
  <2>. QED
    BY <2>1, <2>2
<1>13. HalfOK'
  BY <1>2, <1>3 DEF HybridInv, RequestOK, HalfOK
<1>. QED
  BY <1>3, <1>9, <1>10, <1>11, <1>12, <1>13, RepoStutterInv DEF HybridInv

\* What a rename makes of the files of before there was a NAS.
LEMMA MoveLeftEffect ==
  ASSUME HybridInv, NEW b \in Buckets, NEW to \in Buckets,
         b = req.bucket, to = req.to, b # to, MoveLeft
  PROVE  /\ left' \in SUBSET Paths
         /\ b \notin disks["local"].dirs => left' = left
         /\ b \in disks["local"].dirs => \A c \in Buckets, j \in Keys :
              Path(c, j) \in left' <=>
                c # b /\ (Path(c, j) \in left \/ (c = to /\ Path(b, j) \in left))
<1>1. left \in SUBSET Paths
  BY DEF HybridInv, HybridTypeOK
<1>2. CASE b \notin disks["local"].dirs
  BY <1>1, <1>2 DEF MoveLeft
<1>3. CASE b \in disks["local"].dirs
  <2> DEFINE stay == {p \in left : p[1] # b}
             moved == {Path(to, p[2]) : p \in {q \in left : q[1] = b}}
  <2>1. left' = stay \cup moved
    BY <1>3 DEF MoveLeft
  <2>2. \A c \in Buckets, j \in Keys : Path(c, j) \in stay <=> Path(c, j) \in left /\ c # b
    BY DEF Path
  <2>3. \A c \in Buckets, j \in Keys : Path(c, j) \in moved <=> c = to /\ Path(b, j) \in left
    BY <1>1 DEF Path, Paths
  <2>4. stay \in SUBSET Paths /\ moved \in SUBSET Paths
    BY <1>1 DEF Path, Paths
  <2> HIDE DEF stay, moved
  <2>. QED
    BY <1>3, <2>1, <2>2, <2>3, <2>4
<1>. QED
  BY <1>2, <1>3

\* RenameBucket on one store.
LEMMA RenameOnInv ==
  ASSUME HybridInv, NEW s \in Stores, RenameOn(s)
  PROVE  HybridInv'
<1>1. ~Resting /\ req.pc = s /\ req.op = "rename" /\ RenameOK /\ (s = "nas" => nas)
  BY DEF RenameOn, At, Resting, HybridInv, RequestOK, Stores
<1>2. CASE (IF s = "nas" THEN FailHalfway ELSE Fail) /\ UNCHANGED <<disks, left>>
  BY <1>1, <1>2, FailInv DEF RenameOn, Between, Stores
<1>3. CASE /\ CanRename(disks[s], req.bucket, req.to)
           /\ disks' = [disks EXCEPT ![s] = RenameDir(@, req.bucket, req.to)]
           /\ Goto(AfterStore(s))
           /\ IF s = "local" THEN MoveLeft ELSE UNCHANGED left
           /\ UNCHANGED <<suspect, half>>
  <2>1. PICK b \in Buckets, to \in Buckets, was \in SUBSET Keys :
          b = req.bucket /\ to = req.to /\ was = req.was
    BY <1>1, TouchedType DEF StepRequests
  <2>2. disks \in [Stores -> Disks] /\ b # to
    BY <1>1, <2>1 DEF HybridInv, HybridTypeOK, RenameOK
  <2> DEFINE d == RenameDir(disks[s], b, to)
  <2>3. /\ d \in Disks /\ b \notin d.dirs
        /\ b \notin disks[s].dirs => d = disks[s]
        /\ b \in disks[s].dirs =>
             /\ d.dirs = (disks[s].dirs \ {b}) \cup {to}
             /\ \A c \in Buckets, j \in Keys :
                  d.files[c][j] = IF c = b THEN None
                                  ELSE IF c = to THEN disks[s].files[b][j] ELSE disks[s].files[c][j]
    BY <2>2, RenameDirEffect
  <2>4. disks' = [disks EXCEPT ![s] = d]
    BY <1>3, <2>1
  <2> HIDE DEF d
  <2>5. /\ disks' \in [Stores -> Disks] /\ disks'[s] = d
        /\ \A t \in Stores : t # s => disks'[t] = disks[t]
    BY <2>2, <2>3, <2>4
  <2>6. b \in disks[s].dirs => \A j \in Keys : ~HasFile(s, to, j)
    BY <1>3, <2>1 DEF CanRename, HybridInv, FilesOK, FilesInDirs
  <2>7. \A t \in Stores, j \in Keys :
          disks'[t].files[Where(t, b, to)'][j] = disks[t].files[Where(t, b, to)][j]
    <3> TAKE t \in Stores, j \in Keys
    <3>1. CASE t # s
      BY <2>5, <3>1 DEF Where
    <3>2. CASE t = s
      BY <2>2, <2>3, <2>5, <3>2 DEF Where
    <3>. QED
      BY <3>1, <3>2
  <2>8. PICK pc \in {"nas", "update"} : pc = AfterStore(s) /\ (pc = "nas" <=> s = "local" /\ nas)
    BY <1>1 DEF AfterStore, Stores
  <2>9. /\ req' \in StepRequests /\ ~Resting' /\ Touched' = Touched
        /\ req'.pc = pc /\ req'.op = "rename" /\ req'.bucket = b /\ req'.to = to /\ req'.was = was
    BY <1>1, <1>3, <2>1, <2>8, GotoEffect DEF Between
  <2>10. UNCHANGED <<repoVars, nas, suspect, half>>
    BY <1>3 DEF RenameOn
  <2>11. \A c \in Buckets, j \in Keys : Path(c, j) \in Touched <=> c \in {b, to}
    BY <1>1, <2>1, TouchedType
  <2>12. /\ left' \in SUBSET Paths
         /\ s = "nas" \/ b \notin disks["local"].dirs => left' = left
         /\ s = "local" /\ b \in disks["local"].dirs => \A c \in Buckets, j \in Keys :
              Path(c, j) \in left' <=>
                c # b /\ (Path(c, j) \in left \/ (c = to /\ Path(b, j) \in left))
    <3>1. CASE s = "local"
      BY <1>3, <2>1, <2>2, <3>1, MoveLeftEffect
    <3>2. CASE s = "nas"
      BY <1>3, <3>2 DEF HybridInv, HybridTypeOK
    <3>. QED
      BY <3>1, <3>2 DEF Stores
  <2>13. HybridTypeOK'
    BY <2>5, <2>9, <2>10, <2>12 DEF HybridInv, HybridTypeOK
  <2>14. FilesOK'
    <3>1. FilesInDirs'
      <4> SUFFICES ASSUME NEW t \in Stores, NEW c \in Buckets, NEW j \in Keys, HasFile(t, c, j)'
                   PROVE  c \in disks'[t].dirs
        BY DEF FilesInDirs
      <4>1. CASE t = s /\ b \in disks[s].dirs
        BY <2>3, <2>5, <4>1 DEF HybridInv, FilesOK, FilesInDirs, HasFile
      <4>2. CASE ~(t = s /\ b \in disks[s].dirs)
        BY <2>3, <2>5, <4>2 DEF HybridInv, FilesOK, FilesInDirs, HasFile
      <4>. QED
        BY <4>1, <4>2
    <3>2. NasHoldsNasKeys'
      BY <2>3, <2>5 DEF HybridInv, FilesOK, NasHoldsNasKeys, HasFile, Stores
    <3>3. CASE s = "local" /\ b \in disks["local"].dirs
      <4>1. \A c \in Buckets, j \in Keys :
              HasFile("local", c, j)' <=>
                c # b /\ (HasFile("local", c, j) \/ (c = to /\ HasFile("local", b, j)))
        BY <2>3, <2>5, <2>6, <3>3 DEF HasFile
      <4>2. LeftAreFiles'
        BY <2>12, <3>3, <4>1 DEF HybridInv, FilesOK, LeftAreFiles
      <4>3. LeftIsAll'
        BY <2>10, <2>12, <3>3, <4>1, NasKeysAssumption DEF HybridInv, FilesOK, LeftIsAll
      <4>. QED
        BY <3>1, <3>2, <4>2, <4>3 DEF FilesOK
    <3>4. CASE ~(s = "local" /\ b \in disks["local"].dirs)
      <4>1. left' = left /\ disks'["local"] = disks["local"]
        BY <2>3, <2>5, <2>12, <3>4 DEF Stores
      <4>2. LeftAreFiles' /\ LeftIsAll'
        BY <2>10, <4>1 DEF HybridInv, FilesOK, LeftAreFiles, LeftIsAll, HasFile
      <4>. QED
        BY <3>1, <3>2, <4>2 DEF FilesOK
    <3>. QED
      BY <3>3, <3>4
  <2>15. PathsMatch'
    <3> SUFFICES ASSUME NEW c \in Buckets, NEW j \in Keys, ~InDoubt(c, j)'
                 PROVE  MatchAt(c, j)'
      BY DEF PathsMatch
    <3>1. c \notin {b, to}
      BY <2>9, <2>11 DEF InDoubt, Between
    <3>2. MatchAt(c, j)
      BY <2>11, <3>1 DEF HybridInv, PathsMatch, InDoubt
    <3>3. \A t \in Stores : disks'[t].files[c][j] = disks[t].files[c][j]
      BY <2>3, <2>5, <3>1
    <3>4. Clean(c, j)' => Clean(c, j)
      BY <2>10, <2>12, <3>1 DEF Clean, Stores
    <3>. QED
      BY <2>10, <3>2, <3>3, <3>4, MatchFrame DEF repoVars
  <2>16. RequestOK'
    <3>1. RenamePlan(b, to, was)'
      BY <1>1, <2>1, <2>7, <2>10
      DEF RenameOK, RenamePlan, PlanAt, Matches, HasFile, ObjectExists, Stores, repoVars
    <3>2. b \notin disks'["local"].dirs
      BY <1>1, <2>1, <2>3, <2>5 DEF RenameOK, Stores
    <3>3. pc = "update" /\ nas => b \notin disks'["nas"].dirs
      BY <2>3, <2>5, <2>8 DEF Stores
    <3>4. RenameOK'
      BY <2>2, <2>9, <2>10, <3>1, <3>2, <3>3 DEF RenameOK
    <3>5. half' = None
      BY <1>1, <2>10 DEF HybridInv, RequestOK
    <3>. QED
      BY <2>8, <2>9, <2>10, <3>4, <3>5 DEF RequestOK
  <2>17. HalfOK'
    BY <1>1, <2>10 DEF HybridInv, RequestOK, HalfOK
  <2>. QED
    BY <2>10, <2>13, <2>14, <2>15, <2>16, <2>17, RepoStutterInv DEF HybridInv
<1>. QED
  BY <1>2, <1>3 DEF RenameOn

(***************************************************************************)
(* The steps on the tables                                                 *)
(***************************************************************************)

\* What holds of the files goes by the disks and by what was left.
LEMMA FilesFrame ==
  ASSUME FilesOK, UNCHANGED <<disks, nas, left>>
  PROVE  FilesOK'
  BY DEF FilesOK, FilesInDirs, NasHoldsNasKeys, LeftAreFiles, LeftIsAll, HasFile

\* A request that is over asks nothing of the state.
LEMMA DoneInv ==
  ASSUME HybridInv, ~Resting, req' \in {Idle, Finished(TRUE)}, UNCHANGED <<disks, nas, left, half>>,
         RepoInv', suspect' \in SUBSET Paths, PathsMatch'
  PROVE  HybridInv'
<1>1. HybridTypeOK'
  BY DEF HybridInv, HybridTypeOK
<1>2. FilesOK'
  BY FilesFrame DEF HybridInv
<1>3. RequestOK'
  BY DEF RequestOK, Resting, Idle, Finished
<1>4. HalfOK'
  BY DEF HybridInv, RequestOK, HalfOK
<1>. QED
  BY <1>1, <1>2, <1>3, <1>4 DEF HybridInv

\* The metadata of a put: the object matches, wherever its file is.
LEMMA UpsertMetaInv ==
  ASSUME HybridInv, UpsertMeta
  PROVE  HybridInv'
<1>1. /\ ~Resting /\ req.pc = "upsert" /\ req.op = "put" /\ PutOK
      /\ UNCHANGED <<disks, nas, left>>
  BY DEF UpsertMeta, At, Resting, HybridInv, RequestOK
<1>2. CASE FailHalfway /\ UNCHANGED repoVars
  BY <1>1, <1>2, FailInv
<1>3. CASE /\ UpsertObject(req.bucket, req.key, ETag(req.body))
           /\ suspect' = suspect \ Touched
           /\ req' = Finished(TRUE) /\ UNCHANGED half
  <2>1. PICK b \in Buckets, k \in Keys, body \in Body :
          b = req.bucket /\ k = req.key /\ body = req.body
    BY <1>1, TouchedType DEF StepRequests, PutOK
  <2>2. ETag(body) \in ETags /\ body # None
    BY NoneAssumption DEF ETag, ETags, Body
  <2>3. RepoInv'
    BY <1>3, <2>1, <2>2, UpsertObjectInv DEF HybridInv
  <2>4. \A c \in Buckets, j \in Keys :
          objects'[c][j] = IF c = b /\ j = k THEN Entry(b, k, ETag(body)) ELSE objects[c][j]
    BY <1>3, <2>1 DEF UpsertObject, HybridInv, RepoInv, RepoTypeOK
  <2>5. \A c \in Buckets, j \in Keys : Path(c, j) \in Touched <=> c = b /\ j = k
    BY <1>1, <2>1, TouchedType
  <2>6. PathsMatch'
    <3> SUFFICES ASSUME NEW c \in Buckets, NEW j \in Keys, Clean(c, j)'
                 PROVE  MatchAt(c, j)'
      BY DEF PathsMatch, MatchAt
    <3>1. CASE c = b /\ j = k
      <4>1. disks[StoreFor(k)].files[b][k] = body
        BY <1>1, <2>1 DEF PutOK
      <4>2. objects'[b][k].etag = ETag(body)
        BY <2>4 DEF Entry
      <4>3. Path(b, k) \notin left
        BY <1>1, <3>1 DEF Clean
      <4>4. StoreFor(k) = IF HasFile("local", b, k) THEN "local" ELSE "nas"
        BY <2>2, <4>1, <4>3 DEF HybridInv, FilesOK, LeftIsAll, StoreFor, HasFile
      <4>. QED
        BY <1>1, <2>2, <3>1, <4>1, <4>2, <4>4 DEF MatchAt, Matches, HasFile
    <3>2. CASE ~(c = b /\ j = k)
      <4>1. MatchAt(c, j)
        BY <2>5, <3>2 DEF HybridInv, PathsMatch, InDoubt
      <4>2. Clean(c, j)
        BY <1>1, <1>3, <2>5, <3>2 DEF Clean
      <4>. QED
        BY <1>1, <2>4, <3>2, <4>1, <4>2, MatchFrame
    <3>. QED
      BY <3>1, <3>2
  <2>7. suspect' \in SUBSET Paths
    BY <1>3 DEF HybridInv, HybridTypeOK
  <2>. QED
    BY <1>1, <1>3, <2>3, <2>6, <2>7, DoneInv
<1>. QED
  BY <1>1, <1>2, <1>3 DEF UpsertMeta

\* The end of a removal that forgot its objects.
LEMMA ForgetMetaInv ==
  ASSUME HybridInv, ForgetMeta
  PROVE  HybridInv'
<1>1. /\ ~Resting /\ req.pc = "forget" /\ req.op \in {"delete", "force"} /\ RemovalOK
      /\ UNCHANGED <<disks, nas, left>>
  BY DEF ForgetMeta, At, Resting, HybridInv, RequestOK
<1>2. CASE FailHalfway /\ UNCHANGED repoVars
  BY <1>1, <1>2, FailInv
<1>3. CASE /\ \/ req.op = "delete" /\ DeleteObject(req.bucket, req.key)
              \/ req.op = "force" /\ DeleteBucketRecursive(req.bucket)
           /\ suspect' = suspect \ Touched
           /\ req' = Finished(req.clean) /\ UNCHANGED half
  <2>1. PICK b \in Buckets : b = req.bucket
    BY <1>1, TouchedType DEF StepRequests
  <2>2. \A c \in Buckets, j \in Keys :
          Path(c, j) \in Touched <=> c = b /\ (req.op = "delete" => j = req.key)
    BY <1>1, <2>1, TouchedType DEF RemovalOK
  <2>3. /\ RepoInv'
        /\ \A c \in Buckets, j \in Keys :
             IF Path(c, j) \in Touched THEN objects'[c][j] = None
             ELSE objects'[c][j] = objects[c][j]
    <3>1. CASE req.op = "delete" /\ DeleteObject(b, req.key)
      <4>1. RepoInv'
        BY <1>1, <3>1, DeleteObjectInv DEF HybridInv, RemovalOK
      <4>. QED
        BY <1>1, <2>2, <3>1, <4>1 DEF DeleteObject, HybridInv, RepoInv, RepoTypeOK, RemovalOK
    <3>2. CASE req.op = "force" /\ DeleteBucketRecursive(b)
      <4>1. RepoInv'
        BY <3>2, DeleteBucketRecursiveInv DEF HybridInv
      <4>. QED
        BY <2>2, <3>2, <4>1 DEF DeleteBucketRecursive, HybridInv, RepoInv, RepoTypeOK, NoObjects
    <3>. QED
      BY <1>3, <2>1, <3>1, <3>2
  <2>4. PathsMatch'
    <3> SUFFICES ASSUME NEW c \in Buckets, NEW j \in Keys, ObjectExists(c, j)', Clean(c, j)'
                 PROVE  MatchAt(c, j)'
      BY DEF PathsMatch, MatchAt
    <3>1. Path(c, j) \notin Touched
      BY <2>3 DEF ObjectExists
    <3>2. MatchAt(c, j)
      BY <3>1 DEF HybridInv, PathsMatch, InDoubt
    <3>3. Clean(c, j)
      BY <1>1, <1>3, <3>1 DEF Clean
    <3>. QED
      BY <1>1, <2>3, <3>1, <3>2, <3>3, MatchFrame
  <2>5. suspect' \in SUBSET Paths
    BY <1>3 DEF HybridInv, HybridTypeOK
  <2>6. req' \in {Idle, Finished(TRUE)}
    BY <1>3 DEF Finished
  <2>. QED
    BY <1>1, <1>3, <2>3, <2>4, <2>5, <2>6, DoneInv
<1>. QED
  BY <1>1, <1>2, <1>3 DEF ForgetMeta

\* The end of a rename: the objects without doubts find their files under the
\* new name.
LEMMA UpdateMetaInv ==
  ASSUME HybridInv, UpdateMeta
  PROVE  HybridInv'
<1>1. /\ ~Resting /\ req.pc = "update" /\ req.op = "rename" /\ RenameOK
      /\ UNCHANGED <<disks, nas, left>>
  BY DEF UpdateMeta, At, Resting, HybridInv, RequestOK
<1>2. CASE FailHalfway /\ UNCHANGED repoVars
  BY <1>1, <1>2, FailInv
<1>3. CASE /\ RenameBucketTo(req.bucket, req.to, Private)
           /\ suspect' = (suspect \ Touched)
                 \cup {Path(req.to, k) : k \in req.was} \cup OutOfReach(req.to)
           /\ req' = Finished(TRUE) /\ UNCHANGED half
  <2>1. PICK b \in Buckets, to \in Buckets, was \in SUBSET Keys :
          b = req.bucket /\ to = req.to /\ was = req.was
    BY <1>1, TouchedType DEF StepRequests
  <2>2. RenameBucketTo(b, to, Private) /\ b # to
    BY <1>1, <1>3, <2>1 DEF RenameOK
  <2>3. RepoInv'
    BY <2>2, RenameBucketInv, SentinelAssumption DEF HybridInv
  <2>4. \A c \in Buckets, j \in Keys : Path(c, j) \in Touched <=> c \in {b, to}
    BY <1>1, <2>1, TouchedType
  <2>5. suspect' = (suspect \ Touched) \cup {Path(to, k) : k \in was} \cup OutOfReach(to)
    BY <1>3, <2>1
  <2>6. /\ suspect' \in SUBSET Paths
        /\ \A c \in Buckets \ {b, to}, j \in Keys : Path(c, j) \in suspect => Path(c, j) \in suspect'
        /\ \A j \in Keys : Path(to, j) \notin suspect' => j \notin was /\ (nas \/ j \notin NasKeys)
    BY <2>4, <2>5, NasKeysAssumption DEF HybridInv, HybridTypeOK, OutOfReach, Path, Paths
  <2>7. /\ \A c \in Buckets \ {b, to}, j \in Keys : objects'[c][j] = objects[c][j]
        /\ \A j \in Keys : objects'[b][j] = None
        /\ \A j \in Keys : ObjectExists(to, j)' =>
             /\ ObjectExists(b, j)
             /\ objects'[to][j] = [objects[b][j] EXCEPT !.bucket = to]
    <3>1. \A j \in Keys : objects[to][j] = None
      BY <2>2 DEF RenameBucketTo, HybridInv, RepoInv, ObjectsInBuckets, ObjectExists
    <3>. QED
      BY <2>2, <3>1 DEF RenameBucketTo, Rebucket, ObjectExists, NoObjects, HybridInv, RepoInv, RepoTypeOK
  <2>8. PathsMatch'
    <3> SUFFICES ASSUME NEW c \in Buckets, NEW j \in Keys, ObjectExists(c, j)', Clean(c, j)'
                 PROVE  MatchAt(c, j)'
      BY DEF PathsMatch, MatchAt
    <3>1. CASE c \notin {b, to}
      <4>1. MatchAt(c, j)
        BY <2>4, <3>1 DEF HybridInv, PathsMatch, InDoubt
      <4>2. Clean(c, j)
        BY <1>1, <2>6, <3>1 DEF Clean
      <4>. QED
        BY <1>1, <2>7, <3>1, <4>1, <4>2, MatchFrame
    <3>2. CASE c = to
      <4>1. ObjectExists(b, j) /\ objects'[to][j] = [objects[b][j] EXCEPT !.bucket = to]
        BY <2>7, <3>2
      <4>2. objects[b][j] \in Entries
        BY <4>1 DEF ObjectExists, HybridInv, RepoInv, RepoTypeOK
      <4>3. PICK e \in ETags : e = objects[b][j].etag /\ e = objects'[to][j].etag
        BY <4>1, <4>2 DEF Entries
      <4>4. j \notin was /\ (nas \/ j \notin NasKeys) /\ Path(to, j) \notin left
        BY <1>1, <2>6, <3>2 DEF Clean
      <4>5. PlanAt(b, to, j)
        BY <1>1, <2>1, <4>4 DEF RenameOK, RenamePlan
      <4>6. Where("local", b, to) = to /\ (nas => Where("nas", b, to) = to)
        BY <1>1, <2>1 DEF RenameOK, Where
      <4>7. Matches(IF HasFile("local", to, j) THEN "local" ELSE "nas", to, j, e)
        <5>1. CASE j \notin NasKeys
          BY <4>1, <4>3, <4>5, <4>6, <5>1 DEF PlanAt, Matches
        <5>2. CASE j \in NasKeys
          <6>1. ~HasFile("local", to, j)
            BY <4>4, <5>2 DEF HybridInv, FilesOK, LeftIsAll
          <6>. QED
            BY <4>1, <4>3, <4>4, <4>5, <4>6, <5>2, <6>1 DEF PlanAt
        <5>. QED
          BY <5>1, <5>2
      <4>. QED
        BY <1>1, <3>2, <4>3, <4>7 DEF MatchAt, Matches, HasFile
    <3>3. CASE c = b
      BY <2>7, <3>3 DEF ObjectExists
    <3>. QED
      BY <3>1, <3>2, <3>3
  <2>. QED
    BY <1>1, <1>3, <2>3, <2>6, <2>8, DoneInv
<1>. QED
  BY <1>1, <1>2, <1>3 DEF UpdateMeta

\* A plain deletion begins with the row, which nobody sees files by.
LEMMA DropMetaInv ==
  ASSUME HybridInv, DropMeta
  PROVE  HybridInv'
<1>1. /\ ~Resting /\ req.pc = "drop" /\ RemovalOK /\ req.op = "plain"
      /\ UNCHANGED <<disks, nas, left>>
  BY DEF DropMeta, At, Resting, HybridInv, RequestOK
<1>2. CASE Fail /\ UNCHANGED repoVars
  BY <1>1, <1>2, FailInv DEF Between
<1>3. CASE DeleteBucket(req.bucket) /\ Goto("local") /\ UNCHANGED <<suspect, half>>
  <2>1. PICK b \in Buckets : b = req.bucket
    BY <1>1, TouchedType DEF StepRequests
  <2>2. RepoInv' /\ objects' = objects /\ ~BucketExists(b)'
    <3>1. RepoInv'
      BY <1>3, <2>1, DeleteBucketInv DEF HybridInv
    <3>. QED
      BY <1>3, <2>1, <3>1 DEF DeleteBucket, BucketExists, HybridInv, RepoInv, RepoTypeOK
  <2>3. /\ req' \in StepRequests /\ ~Resting'
        /\ req'.pc = "local" /\ req'.op = "plain" /\ req'.bucket = b /\ req'.to = b
    BY <1>1, <1>3, <2>1, GotoEffect DEF RemovalOK
  <2>4. HybridTypeOK'
    BY <1>1, <1>3, <2>3 DEF HybridInv, HybridTypeOK
  <2>5. PathsMatch'
    <3> SUFFICES ASSUME NEW c \in Buckets, NEW j \in Keys
                 PROVE  MatchAt(c, j)'
      BY DEF PathsMatch
    <3>1. MatchAt(c, j)
      BY <1>1 DEF HybridInv, PathsMatch, InDoubt, Between
    <3>2. Clean(c, j)' => Clean(c, j)
      BY <1>1, <1>3 DEF Clean
    <3>. QED
      BY <1>1, <2>2, <3>1, <3>2, MatchFrame
  <2>6. half = None /\ half' = None
    BY <1>1, <1>3 DEF HybridInv, RequestOK
  <2>7. RequestOK' /\ HalfOK'
    BY <2>2, <2>3, <2>6 DEF RequestOK, RemovalOK, HalfOK, BucketExists
  <2>. QED
    BY <1>1, <2>2, <2>4, <2>5, <2>7, FilesFrame DEF HybridInv
<1>. QED
  BY <1>1, <1>2, <1>3 DEF DropMeta

\* Buckets that come and go without their directories.
LEMMA BucketRequestInv ==
  ASSUME HybridInv, BucketRequest
  PROVE  HybridInv'
<1>1. /\ Resting /\ req' = Idle /\ half' = None
      /\ UNCHANGED <<disks, nas, suspect, left>>
  BY DEF BucketRequest
<1>2. RepoInv' /\ objects' = objects
  <2>1. PICK b \in Buckets : CreateBucket(b, Private) \/ DeleteBucket(b)
    BY DEF BucketRequest
  <2>2. RepoInv'
    BY <2>1, BucketPolicyInv, DeleteBucketInv, SentinelAssumption DEF HybridInv
  <2>. QED
    BY <2>1, <2>2 DEF CreateBucket, DeleteBucket
<1>3. PathsMatch'
  <2> SUFFICES ASSUME NEW c \in Buckets, NEW j \in Keys
               PROVE  MatchAt(c, j)'
    BY DEF PathsMatch
  <2>1. MatchAt(c, j)
    BY <1>1 DEF HybridInv, PathsMatch, InDoubt, Between, Resting
  <2>2. Clean(c, j)' => Clean(c, j)
    BY <1>1 DEF Clean
  <2>. QED
    BY <1>1, <1>2, <2>1, <2>2, MatchFrame
<1>4. HybridTypeOK'
  BY <1>1 DEF HybridInv, HybridTypeOK
<1>5. RequestOK' /\ HalfOK'
  BY <1>1 DEF RequestOK, Resting, Idle, HalfOK
<1>. QED
  BY <1>1, <1>2, <1>3, <1>4, <1>5, FilesFrame DEF HybridInv

(***************************************************************************)
(* Theorems                                                                *)
(***************************************************************************)

\* The invariant holds of empty stores and tables.
LEMMA HybridInitInv == HybridInit => HybridInv
<1> SUFFICES ASSUME HybridInit PROVE HybridInv
  OBVIOUS
<1>1. RepoInv
  BY RepoInitInv DEF HybridInit
<1>2. HybridTypeOK
  BY EmptyDiskType DEF HybridInit, HybridTypeOK
<1>3. \A s \in Stores, b \in Buckets, k \in Keys : ~HasFile(s, b, k) /\ ~ObjectExists(b, k)
  BY DEF HybridInit, HasFile, EmptyDisk, NoFiles, RepoInit, NoObjects, ObjectExists
<1>4. FilesOK
  BY <1>3, NasKeysAssumption
  DEF HybridInit, FilesOK, FilesInDirs, NasHoldsNasKeys, LeftAreFiles, LeftIsAll, Stores
<1>5. PathsMatch
  BY <1>3 DEF PathsMatch, MatchAt, Stores
<1>6. RequestOK /\ HalfOK
  BY DEF HybridInit, RequestOK, Resting, Idle, HalfOK
<1>. QED
  BY <1>1, <1>2, <1>4, <1>5, <1>6 DEF HybridInv

\* The invariant of the two stores: types, where files may be, that every path
\* which no request is in between on matches, and what a request, or a rename
\* that may be tried again, relies on.
THEOREM HybridInvariant == HybridSpec => []HybridInv
<1>1. HybridInit => HybridInv
  BY HybridInitInv
<1>2. HybridInv /\ [HybridNext]_hybridVars => HybridInv'
  <2> SUFFICES ASSUME HybridInv, [HybridNext]_hybridVars
               PROVE  HybridInv'
    OBVIOUS
  <2>1. CASE Arrivals
    BY <2>1, ArriveInv
  <2>2. CASE PutFile
    BY <2>2, PutFileInv
  <2>3. CASE \E s \in Stores : DeleteOn(s)
    BY <2>3, DeleteOnInv
  <2>4. CASE \E s \in Stores : RenameOn(s)
    BY <2>4, RenameOnInv
  <2>5. CASE UpsertMeta
    BY <2>5, UpsertMetaInv
  <2>6. CASE ForgetMeta
    BY <2>6, ForgetMetaInv
  <2>7. CASE UpdateMeta
    BY <2>7, UpdateMetaInv
  <2>8. CASE DropMeta
    BY <2>8, DropMetaInv
  <2>9. CASE BucketRequest
    BY <2>9, BucketRequestInv
  <2>10. CASE Restart
    BY <2>10, RestartInv
  <2>11. CASE UNCHANGED hybridVars
    <3>1. UNCHANGED <<repoVars, disks, nas, req, suspect, left, half>>
      BY <2>11 DEF hybridVars
    <3>2. RepoInv'
      BY <3>1, RepoStutterInv DEF HybridInv
    <3>3. HybridTypeOK'
      BY <3>1 DEF HybridInv, HybridTypeOK
    <3>4. FilesOK'
      BY <3>1, FilesFrame DEF HybridInv
    <3>5. PathsMatch'
      BY <3>1 DEF HybridInv, PathsMatch, InDoubt, Touched, MatchAt, Clean, Matches, HasFile,
                  ObjectExists, repoVars
    <3>6. RequestOK'
      <4>1. PutOK => PutOK'
        BY <3>1 DEF PutOK, StoreFor
      <4>2. RemovalOK => RemovalOK'
        BY <3>1 DEF RemovalOK, Removed, Touched, HasFile, BucketExists, repoVars
      <4>3. RenameOK => RenameOK'
        BY <3>1 DEF RenameOK, RenamePlan, PlanAt, Matches, Where, HasFile, ObjectExists, repoVars
      <4>. QED
        BY <3>1, <4>1, <4>2, <4>3 DEF HybridInv, RequestOK, Resting
    <3>7. HalfOK'
      BY <3>1 DEF HybridInv, HalfOK, RenamePlan, PlanAt, Matches, Where, HasFile, ObjectExists,
                  repoVars
    <3>. QED
      BY <3>2, <3>3, <3>4, <3>5, <3>6, <3>7 DEF HybridInv
  <2>. QED
    BY <2>1, <2>2, <2>3, <2>4, <2>5, <2>6, <2>7, <2>8, <2>9, <2>10, <2>11 DEF HybridNext
<1>. QED
  BY <1>1, <1>2, PTL DEF HybridSpec

\* What Get serves is what the metadata describes, on whichever store it is:
\* through restarts with and without the NAS, refused renames and dropped errors.
THEOREM AlwaysServedAsDescribed == HybridSpec => []ServedAsDescribed
<1>1. HybridInv => ServedAsDescribed
  <2> SUFFICES ASSUME HybridInv, NEW b \in Buckets, NEW k \in Keys,
                      Resting, ObjectExists(b, k), Path(b, k) \notin suspect \cup left,
                      ~OnMissingNas(b, k)
               PROVE  Served(b, k) # None /\ ETag(Served(b, k)) = objects[b][k].etag
    BY DEF ServedAsDescribed
  <2>1. Matches(IF HasFile("local", b, k) THEN "local" ELSE "nas", b, k, objects[b][k].etag)
    BY DEF HybridInv, PathsMatch, InDoubt, Between, Resting, MatchAt, Clean
  <2>2. CASE HasFile("local", b, k)
    BY <2>1, <2>2 DEF Matches, Served, HasFile
  <2>3. CASE ~HasFile("local", b, k)
    <3>1. Matches("nas", b, k, objects[b][k].etag)
      BY <2>1, <2>3
    <3>2. nas
      BY <2>3, <3>1 DEF OnMissingNas, Matches, HybridInv, FilesOK, NasHoldsNasKeys
    <3>. QED
      BY <2>3, <3>1, <3>2 DEF Matches, Served, HasFile
  <2>. QED
    BY <2>2, <2>3
<1>. QED
  BY <1>1, HybridInvariant, PTL

\* Acknowledged: the step that ends a removal or a rename without a failure.
LEMMA EndsClean ==
  ASSUME HybridInv, HybridNext, ~Resting, req'.pc = "ok", req.op # "put"
  PROVE  \/ \E s \in Stores : DeleteOn(s)
         \/ ForgetMeta \/ UpdateMeta
<1>1. CASE Arrivals
  BY <1>1 DEF Arrivals, Arrive
<1>2. CASE PutFile
  BY <1>2 DEF PutFile, At
<1>3. CASE \E s \in Stores : RenameOn(s)
  <2>1. PICK s \in Stores : RenameOn(s)
    BY <1>3
  <2>2. req' = Idle \/ Goto(AfterStore(s))
    BY <2>1 DEF RenameOn, Fail, FailHalfway
  <2>3. AfterStore(s) \in {"nas", "update"}
    BY <2>1 DEF AfterStore, RenameOn, At
  <2>4. Goto(AfterStore(s)) => req'.pc \in {"nas", "update"}
    BY <2>3, GotoEffect DEF Between
  <2>. QED
    BY <2>2, <2>4 DEF Idle
<1>4. CASE UpsertMeta
  BY <1>4 DEF UpsertMeta, At
<1>5. CASE DropMeta
  BY <1>5, GotoEffect DEF DropMeta, Fail, Idle
<1>6. CASE BucketRequest
  BY <1>6 DEF BucketRequest
<1>7. CASE Restart
  BY <1>7 DEF Restart, Fail, FailHalfway, Idle
<1>. QED
  BY <1>1, <1>2, <1>3, <1>4, <1>5, <1>6, <1>7 DEF HybridNext

\* A deletion or a rename that is acknowledged, and that no store failed, leaves
\* no file under the old name on any store that is configured.
THEOREM NothingEverStaysBehind == HybridSpec => NothingStaysBehind
<1>1. HybridInv /\ [HybridNext]_hybridVars =>
        (~Resting /\ req'.pc = "ok" /\ req.op # "put"
          => \A s \in Stores, p \in Touched :
               (s = "local" \/ nas) /\ p[1] = req.bucket => disks'[s].files[p[1]][p[2]] = None)
  <2> SUFFICES ASSUME HybridInv, [HybridNext]_hybridVars,
                      ~Resting, req'.pc = "ok", req.op # "put"
               PROVE  \A s \in Stores, p \in Touched :
                        (s = "local" \/ nas) /\ p[1] = req.bucket
                          => disks'[s].files[p[1]][p[2]] = None
    OBVIOUS
  <2>1. HybridNext
    BY DEF hybridVars, Resting
  <2>2. PICK b \in Buckets : b = req.bucket
    BY TouchedType DEF StepRequests
  <2>3. SUFFICES ASSUME NEW s \in Stores, NEW k \in Keys, Path(b, k) \in Touched,
                        s = "local" \/ nas
                 PROVE  ~HasFile(s, b, k)'
    BY <2>2, TouchedType DEF Paths, Path, HasFile
  <2>4. CASE \E t \in Stores : DeleteOn(t)
    <3>1. PICK t \in Stores : DeleteOn(t)
      BY <2>4
    <3>2. At(t, {"delete", "force", "plain"}) /\ RemovalOK
      BY <3>1 DEF DeleteOn, At, HybridInv, RequestOK
    <3>3. PICK deleted \in BOOLEAN :
            /\ disks' = IF ~deleted THEN disks
                        ELSE [disks EXCEPT ![t] = IF req.op = "delete"
                                                  THEN Delete(@, req.bucket, req.key)
                                                  ELSE DeleteDir(@, req.bucket)]
            /\ req' = IF AfterStore(t) = "done" THEN Finished(req.clean /\ deleted)
                      ELSE [req EXCEPT !.pc = AfterStore(t), !.clean = req.clean /\ deleted]
      BY <3>1, Zenon DEF DeleteOn
    <3>4. PICK clean \in BOOLEAN : clean = (req.clean /\ deleted)
      OBVIOUS
    <3>5. req' = IF AfterStore(t) = "done" THEN Finished(clean)
                 ELSE [req EXCEPT !.pc = AfterStore(t), !.clean = clean]
      BY <3>3, <3>4, Zenon
    <3>6. /\ req' = Finished(clean)
          /\ t = "local" => ~nas
      <4>1. \/ req' = Finished(clean) /\ (t = "local" => ~nas)
            \/ req'.pc \in {"nas", "forget"}
        BY <3>2, <3>5, DeleteOnRequest, Zenon
      <4>. QED
        BY <4>1
    <3>7. req.clean /\ deleted
      BY <3>4, <3>6 DEF Finished, Idle
    <3>8. disks'[s].files[b][k] =
            IF deleted /\ s = t /\ Path(b, k) \in Touched THEN None ELSE disks[s].files[b][k]
      BY <3>2, <3>3, DeleteOnEffect
    <3>9. CASE s = t
      BY <2>3, <3>7, <3>8, <3>9 DEF HasFile
    <3>10. CASE s # t
      <4>1. req.pc = "nas" /\ s = "local"
        BY <2>3, <3>2, <3>6, <3>10 DEF At, Stores
      <4>2. ~HasFile("local", b, k)
        BY <2>2, <2>3, <3>2, <3>7, <4>1 DEF RemovalOK, Removed
      <4>. QED
        BY <3>8, <3>10, <4>1, <4>2 DEF HasFile
    <3>. QED
      BY <3>9, <3>10
  <2>5. CASE ForgetMeta
    <3>1. req.pc = "forget" /\ RemovalOK /\ UNCHANGED disks
      BY <2>5 DEF ForgetMeta, At, HybridInv, RequestOK
    <3>2. req.clean
      BY <2>5 DEF ForgetMeta, Finished, FailHalfway, Idle
    <3>3. ~HasFile(s, b, k)
      BY <2>2, <2>3, <3>1, <3>2 DEF RemovalOK, Removed, Stores
    <3>. QED
      BY <3>1, <3>3 DEF HasFile
  <2>6. CASE UpdateMeta
    <3>1. req.pc = "update" /\ RenameOK /\ UNCHANGED disks
      BY <2>6 DEF UpdateMeta, At, HybridInv, RequestOK
    <3>2. b \notin disks[s].dirs
      BY <2>2, <2>3, <3>1 DEF RenameOK, Stores
    <3>. QED
      BY <3>1, <3>2 DEF HybridInv, FilesOK, FilesInDirs, HasFile
  <2>. QED
    BY <2>1, <2>4, <2>5, <2>6, EndsClean
<1>. QED
  BY <1>1, HybridInvariant, PTL DEF HybridSpec, NothingStaysBehind

(***************************************************************************)
(* Keys in order.                                                          *)
(***************************************************************************)

\* The keys up to one of them are fewer than those up to a later one.
LEMMA RankGrows ==
  ASSUME NEW S \in SUBSET Nat, IsFiniteSet(S), NEW j \in S, NEW k \in S, j < k
  PROVE  Cardinality({i \in S : i <= j}) < Cardinality({i \in S : i <= k})
<1> DEFINE A == {i \in S : i <= j}
           B == {i \in S : i <= k}
<1>1. IsFiniteSet(A) /\ IsFiniteSet(B)
  BY FS_Subset
<1>2. A \in SUBSET B /\ A # B
  <2>1. k \in B /\ k \notin A
    OBVIOUS
  <2>2. ASSUME NEW i \in A PROVE i \in B
    <3>1. i \in Nat /\ j \in Nat /\ k \in Nat
      OBVIOUS
    <3>. QED
      BY <3>1
  <2> HIDE DEF A, B
  <2>. QED
    BY <2>1, <2>2
<1> HIDE DEF A, B
<1>3. Cardinality(A) <= Cardinality(B) /\ Cardinality(A) # Cardinality(B)
  BY <1>1, <1>2, FS_Subset
<1>4. Cardinality(A) \in Nat /\ Cardinality(B) \in Nat
  BY <1>1, FS_CardinalityType
<1>5. Cardinality(A) < Cardinality(B)
  BY <1>3, <1>4
<1>. QED
  BY <1>5 DEF A, B

\* A finite set of keys can be put in order.
LEMMA OrderExists ==
  ASSUME NEW S \in SUBSET Nat, IsFiniteSet(S)
  PROVE  \E s \in SetToSeqs(S) : \A i, j \in DOMAIN s : i < j => s[i] < s[j]
<1> DEFINE n == Cardinality(S)
           Upto(k) == {i \in S : i <= k}
           rank == [k \in S |-> Cardinality(Upto(k))]
<1>1. n \in Nat /\ IsFiniteSet(1..n) /\ Cardinality(1..n) = n
  BY FS_CardinalityType, FS_Interval
<1>2. ASSUME NEW k \in S PROVE Cardinality(Upto(k)) \in 1..n
  <2>1. IsFiniteSet(Upto(k)) /\ Cardinality(Upto(k)) <= n
    BY FS_Subset
  <2>2. Upto(k) # {}
    <3>1. k \in Upto(k)
      OBVIOUS
    <3>. QED
      BY <3>1
  <2>3. Cardinality(Upto(k)) # 0
    BY <2>1, <2>2, FS_EmptySet
  <2>4. Cardinality(Upto(k)) \in Nat
    BY <2>1, FS_CardinalityType
  <2>. QED
    BY <1>1, <2>1, <2>3, <2>4
<1>3. rank \in [S -> 1..n]
  BY <1>2
<1>4. \A j, k \in S : j < k => rank[j] < rank[k]
  BY RankGrows
<1> HIDE DEF rank, n
<1>5. rank \in Injection(S, 1..n)
  <2>1. ASSUME NEW j \in S, NEW k \in S, j # k PROVE rank[j] # rank[k]
    <3>1. j < k \/ k < j
      BY <2>1
    <3>2. rank[j] \in 1..n /\ rank[k] \in 1..n
      BY <1>3
    <3>. QED
      BY <1>1, <1>4, <3>1, <3>2
  <2>. QED
    BY <1>3, <2>1 DEF Injection, IsInjective
<1>6. rank \in Surjection(S, 1..n)
  BY <1>1, <1>5, FS_Injection DEF n
<1> DEFINE s == [i \in 1..n |-> CHOOSE k \in S : rank[k] = i]
<1>7. ASSUME NEW i \in 1..n PROVE s[i] \in S /\ rank[s[i]] = i
  <2>1. \E k \in S : rank[k] = i
    BY <1>6 DEF Surjection
  <2>. QED
    BY <2>1
<1>8. s \in [1..n -> S] /\ DOMAIN s = 1..n
  BY <1>7
<1> HIDE DEF s
<1>9. ASSUME NEW i \in 1..n, NEW j \in 1..n, i < j PROVE s[i] < s[j]
  <2>1. s[i] \in S /\ s[j] \in S /\ rank[s[i]] = i /\ rank[s[j]] = j
    BY <1>7
  <2>2. /\ s[i] \in Nat /\ s[j] \in Nat
        /\ i \in Nat /\ j \in Nat
    <3>1. \A k \in S : k \in Nat
      OBVIOUS
    <3>2. s[i] \in Nat /\ s[j] \in Nat
      BY <2>1, <3>1
    <3>3. i \in Nat /\ j \in Nat
      BY <1>1
    <3>. QED
      BY <3>2, <3>3
  <2>3. s[i] # s[j]
    BY <1>9, <2>1, <2>2
  <2>4. s[j] < s[i] => j < i
    BY <1>4, <2>1
  <2>. QED
    BY <1>9, <2>2, <2>3, <2>4
<1>10. ASSUME NEW i \in 1..n, NEW j \in 1..n, i # j PROVE s[i] # s[j]
  <2>1. s[i] \in Nat /\ s[j] \in Nat
    BY <1>8
  <2>2. i < j \/ j < i
    BY <1>1, <1>10
  <2>. QED
    BY <1>9, <2>1, <2>2
<1>11. s \in SetToSeqs(S)
  BY <1>8, <1>10 DEF SetToSeqs, n
<1>. QED
  BY <1>8, <1>9, <1>11

\* What InOrder returns: the keys of the set, each once, in order.
LEMMA InOrderFacts ==
  ASSUME NEW S \in SUBSET Nat, IsFiniteSet(S)
  PROVE  /\ InOrder(S) \in [1..Cardinality(S) -> S]
         /\ InOrder(S) \in Seq(S)
         /\ Len(InOrder(S)) = Cardinality(S)
         /\ \A i, j \in DOMAIN InOrder(S) : i < j => InOrder(S)[i] < InOrder(S)[j]
         /\ ToSet(InOrder(S)) = S
<1> DEFINE s == InOrder(S)
           n == Cardinality(S)
<1>1. s \in SetToSeqs(S) /\ \A i, j \in DOMAIN s : i < j => s[i] < s[j]
  BY OrderExists DEF InOrder
<1> HIDE DEF s
<1>2. s \in [1..n -> S] /\ \A i, j \in 1..n : i # j => s[i] # s[j]
  BY <1>1 DEF SetToSeqs
<1>3. n \in Nat /\ IsFiniteSet(1..n) /\ Cardinality(1..n) = n
  BY FS_CardinalityType, FS_Interval
<1> HIDE DEF n
<1>4. s \in Injection(1..n, S)
  BY <1>2 DEF Injection, IsInjective
<1>5. s \in Surjection(1..n, S)
  BY <1>3, <1>4, FS_Injection DEF n
<1>6. ToSet(s) = S
  <2>1. \A k \in ToSet(s) : k \in S
    BY <1>2 DEF ToSet
  <2>2. ASSUME NEW k \in S PROVE k \in ToSet(s)
    <3>1. \E i \in 1..n : s[i] = k
      BY <1>5 DEF Surjection
    <3>. QED
      BY <1>2, <3>1 DEF ToSet
  <2>. QED
    BY <2>1, <2>2
<1>7. s \in Seq(S) /\ Len(s) = n
  BY <1>2, <1>3
<1>. QED
  BY <1>1, <1>2, <1>6, <1>7 DEF s, n

(***************************************************************************)
(* The invariant                                                           *)
(***************************************************************************)

\* A reader that walks: what it has got is in order and ends at the cursor, and
\* of the keys up to the cursor it has missed none that was there all the time.
Walkers == [pc : {"page", "listed", "failed"}, bucket : Buckets, prefix : KeyPrefixes,
            size : 1..MaxPage, cursor : Nat, got : Seq(Keys),
            always : SUBSET Keys, ever : SUBSET Keys]

GotInOrder(w) ==
    /\ \A i, j \in DOMAIN w.got : i < j => w.got[i] < w.got[j]
    /\ ToSet(w.got) \subseteq w.ever \cap w.prefix

WalkSound(w) ==
    /\ w \in Walkers
    /\ w.pc # "failed" => GotInOrder(w)
    /\ w.pc = "page" =>
         /\ \A k \in ToSet(w.got) : k <= w.cursor
         /\ \A k \in w.always \cap w.prefix : k <= w.cursor => k \in ToSet(w.got)
    /\ w.pc = "listed" => w.always \cap w.prefix \subseteq ToSet(w.got)

\* A reader that looks a key up: once the first variant, which is the key
\* itself, was not there, the key was not there all the time.
Lookers == [pc : {"try", "normal", "found", "missing"}, bucket : Buckets, key : Keys,
            tried : Nat, found : Keys \cup {None}, always : SUBSET Keys, ever : SUBSET Keys]

LookupSound(l) ==
    /\ l \in Lookers
    /\ l.pc = "try" /\ l.tried > 0 => l.key \notin l.always
    /\ l.pc = "normal" => l.key \notin l.always
    /\ l.pc = "found" =>
         /\ l.found \in l.ever
         /\ l.key \in l.always => l.found = l.key
    /\ l.pc = "missing" =>
         \A k \in l.always \cap Alike(l.key) :
             Cardinality({j \in l.ever : j < k}) >= MaxPage

UnderWay == {"page", "try", "normal"}

\* While a reader is under way, what was there all the time is there now, and
\* what is there now was there at some time.
SeesNow ==
    reader.pc \in UnderWay =>
        reader.always \subseteq Listed(reader.bucket) /\ Listed(reader.bucket) \subseteq reader.ever

\* Finitely many objects are stored, however many keys there are.
TablesAreFinite == \A b \in Buckets : IsFiniteSet(Listed(b))

ReaderSound == reader = NoReader \/ WalkSound(reader) \/ LookupSound(reader)

ListingInv == RepoInv /\ TablesAreFinite /\ SeesNow /\ ReaderSound

(***************************************************************************)
(* A page                                                                  *)
(***************************************************************************)

\* What is left after a cursor: finitely many keys.
LEMMA RestKeys ==
  ASSUME TablesAreFinite, NEW b \in Buckets, NEW prefix, NEW cursor \in Nat
  PROVE  /\ {k \in Listed(b) \cap prefix : k > cursor} \in SUBSET Keys
         /\ {k \in Listed(b) \cap prefix : k > cursor} \in SUBSET (Nat \ {0})
         /\ IsFiniteSet({k \in Listed(b) \cap prefix : k > cursor})
<1>1. Listed(b) \subseteq Keys /\ Keys \subseteq Nat \ {0}
  BY ListingAssumption DEF Listed
<1>2. IsFiniteSet(Listed(b))
  BY DEF TablesAreFinite
<1> DEFINE S == {k \in Listed(b) \cap prefix : k > cursor}
<1>3. S \in SUBSET Listed(b)
  OBVIOUS
<1>4. IsFiniteSet(S)
  BY <1>2, <1>3, FS_Subset
<1>. QED
  BY <1>1, <1>3, <1>4

\* A page holds the first keys in order; its cursor is the last of them, or 0
\* when nothing is left.
LEMMA PageFacts ==
  ASSUME NEW S \in SUBSET (Nat \ {0}), IsFiniteSet(S), NEW size \in Nat \ {0},
         NEW page, page = FirstOf(InOrder(S), size),
         NEW next, next = NextCursor(InOrder(S), size)
  PROVE  /\ page \in Seq(S)
         /\ Len(page) <= size
         /\ \A i, j \in DOMAIN page : i < j => page[i] < page[j]
         /\ next \in S \cup {0}
         /\ next = 0 => ToSet(page) = S
         /\ next # 0 => Len(page) = size /\ ToSet(page) = {k \in S : k <= next}
<1>1. S \in SUBSET Nat
  OBVIOUS
<1> DEFINE rest == InOrder(S)
           n == Cardinality(S)
<1>2. /\ rest \in [1..n -> S]
      /\ rest \in Seq(S)
      /\ Len(rest) = n
      /\ DOMAIN rest = 1..n
      /\ \A i, j \in 1..n : i < j => rest[i] < rest[j]
      /\ ToSet(rest) = S
  BY <1>1, InOrderFacts
<1>3. n \in Nat
  BY FS_CardinalityType
<1> HIDE DEF rest, n
<1>4. CASE n <= size
  <2>1. page = SubSeq(rest, 1, n) /\ next = 0
    BY <1>2, <1>4 DEF FirstOf, NextCursor, rest
  <2>2. page = rest
    BY <1>2, <1>3, <2>1
  <2>. QED
    BY <1>2, <1>3, <1>4, <2>1, <2>2
<1>5. CASE ~(n <= size)
  <2>1. page = SubSeq(rest, 1, size) /\ next = rest[size]
    BY <1>2, <1>5 DEF FirstOf, NextCursor, rest
  <2>2. size \in 1..n
    BY <1>3, <1>5
  <2>3. /\ page \in Seq(S)
        /\ Len(page) = size
        /\ DOMAIN page = 1..size
        /\ \A i \in 1..size : page[i] = rest[i]
    BY <1>2, <1>3, <1>5, <2>1
  <2>4. next \in S /\ next # 0
    BY <1>2, <2>1, <2>2
  <2>5. \A i \in 1..size : i \in 1..n
    BY <1>3, <2>2
  <2>6. \A i, j \in DOMAIN page : i < j => page[i] < page[j]
    BY <1>2, <2>3, <2>5
  <2>7. ASSUME NEW k \in ToSet(page) PROVE k \in S /\ k <= next
    <3>1. PICK i \in 1..size : k = rest[i]
      BY <2>3 DEF ToSet
    <3>2. i < size \/ i = size
      BY <3>1
    <3>3. k \in S /\ (k < next \/ k = next)
      BY <1>2, <2>1, <2>2, <2>5, <3>1, <3>2
    <3>4. k \in Nat /\ next \in Nat
      BY <2>4, <3>3
    <3>. QED
      BY <3>3, <3>4
  <2>8. ASSUME NEW k \in S, k <= next PROVE k \in ToSet(page)
    <3>1. PICK i \in 1..n : k = rest[i]
      BY <1>2 DEF ToSet
    <3>2. ~(size < i)
      <4>1. SUFFICES ASSUME size < i PROVE FALSE
        OBVIOUS
      <4>2. next < k
        BY <1>2, <2>1, <2>2, <3>1, <4>1
      <4>3. k \in Nat /\ next \in Nat
        BY <2>4
      <4>. QED
        BY <2>8, <4>2, <4>3
    <3>3. i \in 1..size
      BY <1>3, <2>2, <3>1, <3>2
    <3>4. i \in DOMAIN page /\ page[i] = k
      BY <2>3, <3>1, <3>3
    <3>. QED
      BY <3>4 DEF ToSet
  <2>9. Len(page) <= size
    BY <2>3
  <2>. QED
    BY <2>3, <2>4, <2>6, <2>7, <2>8, <2>9
<1>. QED
  BY <1>3, <1>4, <1>5

\* Two sequences one after the other hold what both hold.
LEMMA JoinedSet ==
  ASSUME NEW T, NEW s \in Seq(T), NEW t \in Seq(T)
  PROVE  /\ s \o t \in Seq(T)
         /\ DOMAIN (s \o t) = 1..(Len(s) + Len(t))
         /\ \A i \in 1..Len(s) : i \in DOMAIN (s \o t) /\ (s \o t)[i] = s[i]
         /\ \A i \in 1..Len(t) : Len(s) + i \in DOMAIN (s \o t) /\ (s \o t)[Len(s) + i] = t[i]
         /\ ToSet(s \o t) = ToSet(s) \cup ToSet(t)
<1> DEFINE u == s \o t
<1>1. u \in Seq(T) /\ DOMAIN u = 1..(Len(s) + Len(t)) /\ Len(s) \in Nat /\ Len(t) \in Nat
  OBVIOUS
<1>2. \A i \in 1..(Len(s) + Len(t)) : u[i] = IF i <= Len(s) THEN s[i] ELSE t[i - Len(s)]
  OBVIOUS
<1> HIDE DEF u
<1>3. \A i \in 1..Len(s) : i \in DOMAIN u /\ u[i] = s[i]
  BY <1>1, <1>2
<1>4. ASSUME NEW i \in 1..Len(t) PROVE Len(s) + i \in DOMAIN u /\ u[Len(s) + i] = t[i]
  <2>1. /\ Len(s) + i \in 1..(Len(s) + Len(t))
        /\ ~(Len(s) + i <= Len(s))
        /\ (Len(s) + i) - Len(s) = i
    BY <1>1
  <2>. QED
    BY <1>1, <1>2, <2>1
<1>5. ASSUME NEW i \in DOMAIN u
      PROVE  \/ i \in DOMAIN s /\ u[i] = s[i]
             \/ i - Len(s) \in DOMAIN t /\ u[i] = t[i - Len(s)]
  <2>1. DOMAIN s = 1..Len(s) /\ DOMAIN t = 1..Len(t)
    OBVIOUS
  <2>. QED
    BY <1>1, <1>2, <2>1
<1>6. DOMAIN s = 1..Len(s) /\ DOMAIN t = 1..Len(t)
  OBVIOUS
<1>7. ToSet(u) = ToSet(s) \cup ToSet(t)
  BY <1>3, <1>4, <1>5, <1>6 DEF ToSet
<1>. QED
  BY <1>1, <1>3, <1>4, <1>7 DEF u

\* Keys in order up to a cursor, and keys in order after it, are in order.
LEMMA JoinedInOrder ==
  ASSUME NEW T, T \subseteq Nat, NEW s \in Seq(T), NEW t \in Seq(T), NEW c \in Nat,
         \A i, j \in DOMAIN s : i < j => s[i] < s[j],
         \A i, j \in DOMAIN t : i < j => t[i] < t[j],
         \A i \in DOMAIN s : s[i] <= c,
         \A i \in DOMAIN t : t[i] > c
  PROVE  \A i, j \in DOMAIN (s \o t) : i < j => (s \o t)[i] < (s \o t)[j]
<1> DEFINE u == s \o t
           m == Len(s)
           n == Len(t)
<1>1. /\ DOMAIN u = 1..(m + n) /\ DOMAIN s = 1..m /\ DOMAIN t = 1..n
      /\ m \in Nat /\ n \in Nat
  OBVIOUS
<1>2. \A i \in 1..(m + n) : u[i] = IF i <= m THEN s[i] ELSE t[i - m]
  OBVIOUS
<1>3. (\A i \in 1..m : s[i] \in Nat) /\ (\A i \in 1..n : t[i] \in Nat)
  <2>1. (\A i \in 1..m : s[i] \in T) /\ (\A i \in 1..n : t[i] \in T)
    OBVIOUS
  <2>. QED
    BY <2>1
<1> HIDE DEF u, m, n
<1> SUFFICES ASSUME NEW i \in 1..(m + n), NEW j \in 1..(m + n), i < j
             PROVE  u[i] < u[j]
  BY <1>1 DEF u
<1>4. CASE j <= m
  <2>1. i \in 1..m /\ j \in 1..m
    BY <1>1, <1>4
  <2>. QED
    BY <1>1, <1>2, <2>1
<1>5. CASE i <= m /\ ~(j <= m)
  <2>1. i \in 1..m /\ j - m \in 1..n
    BY <1>1, <1>5
  <2>2. u[i] = s[i] /\ u[j] = t[j - m]
    BY <1>2, <1>5
  <2>3. s[i] \in Nat /\ t[j - m] \in Nat /\ s[i] <= c /\ t[j - m] > c
    BY <1>1, <1>3, <2>1
  <2>. QED
    BY <2>2, <2>3
<1>6. CASE ~(i <= m) /\ ~(j <= m)
  <2>1. i - m \in 1..n /\ j - m \in 1..n /\ i - m < j - m
    BY <1>1, <1>6
  <2>2. u[i] = t[i - m] /\ u[j] = t[j - m]
    BY <1>2, <1>6
  <2>. QED
    BY <1>1, <2>1, <2>2
<1>7. ~(~(i <= m) /\ j <= m)
  BY <1>1
<1>. QED
  BY <1>4, <1>5, <1>6, <1>7

\* The size of a page is positive and never above the largest.
LEMMA PageSizeType ==
  ASSUME NEW limit \in Limits
  PROVE  PageSize(limit) \in 1..MaxPage
<1>1. limit \in Int /\ MaxPage \in Nat \ {0}
  BY ListingAssumption
<1>. QED
  BY <1>1 DEF PageSize

(***************************************************************************)
(* The initial state                                                       *)
(***************************************************************************)

\* At the start nothing is stored and nobody reads.
LEMMA ListingInitInv == ListingInit => ListingInv
<1> SUFFICES ASSUME ListingInit PROVE ListingInv
  OBVIOUS
<1>1. RepoInv
  BY RepoInitInv DEF ListingInit
<1>2. TablesAreFinite
  <2>1. \A b \in Buckets : Listed(b) = {}
    BY DEF ListingInit, RepoInit, Listed, ObjectExists, NoObjects
  <2>. QED
    BY <2>1, FS_EmptySet DEF TablesAreFinite
<1>3. reader = NoReader
  BY DEF ListingInit
<1>. QED
  BY <1>1, <1>2, <1>3 DEF ListingInv, SeesNow, ReaderSound, NoReader, UnderWay

(***************************************************************************)
(* The steps of the repository                                             *)
(***************************************************************************)

\* What ListObjects selects are the objects under the name of the bucket.
LEMMA ListedIsStored ==
  ASSUME RepoInv
  PROVE  \A b \in Buckets : Listed(b) = {k \in Keys : objects[b][k] # None}
  BY DEF RepoInv, EntriesNameTheirBucket, Listed, ObjectExists

\* A method adds to a bucket at most one object, or those of another bucket.
LEMMA RepoFinite ==
  ASSUME RepoInv, TablesAreFinite, RepoNext
  PROVE  TablesAreFinite'
<1> DEFINE Stored(b) == {k \in Keys : objects[b][k] # None}
           Then(b) == {k \in Keys : objects'[b][k] # None}
<1>1. RepoInv'
  BY RepoNextInv
<1>2. \A b \in Buckets : IsFiniteSet(Stored(b))
  BY ListedIsStored DEF TablesAreFinite
<1>3. \A b \in Buckets : Listed(b)' = Then(b)
  BY <1>1 DEF RepoInv, EntriesNameTheirBucket, Listed, ObjectExists
<1>4. objects \in [Buckets -> [Keys -> Entries \cup {None}]]
  BY DEF RepoInv, RepoTypeOK
<1>5. SUFFICES ASSUME NEW b \in Buckets PROVE IsFiniteSet(Then(b))
  BY <1>3 DEF TablesAreFinite
<1>6. CASE Then(b) \subseteq Stored(b)
  BY <1>2, <1>6, FS_Subset
<1>7. CASE \E c \in Buckets : Then(b) \subseteq Stored(b) \cup Stored(c)
  BY <1>2, <1>7, FS_Subset, FS_Union
<1>8. CASE \E j \in Keys : Then(b) \subseteq Stored(b) \cup {j}
  BY <1>2, <1>8, FS_Subset, FS_AddElement
<1>9. ASSUME objects' = objects
      PROVE  Then(b) \subseteq Stored(b)
  BY <1>9
<1>10. ASSUME NEW old \in Buckets, NEW new \in Buckets, NEW p \in Policies,
              RenameBucketTo(old, new, p)
       PROVE  Then(b) \subseteq Stored(b) \cup Stored(old)
  <2>1. \A k \in Keys :
          /\ objects'[old][k] = None
          /\ objects'[new][k] # None => objects[old][k] # None \/ objects[new][k] # None
    BY <1>4, <1>10 DEF RenameBucketTo, NoObjects, ObjectExists
  <2>2. \A c \in Buckets \ {old, new} : objects'[c] = objects[c]
    BY <1>4, <1>10 DEF RenameBucketTo
  <2>. QED
    BY <2>1, <2>2
<1>11. ASSUME NEW c \in Buckets, DeleteBucketRecursive(c)
       PROVE  Then(b) \subseteq Stored(b)
  BY <1>4, <1>11 DEF DeleteBucketRecursive, NoObjects
<1>12. ASSUME NEW c \in Buckets, NEW j \in Keys, NEW e, UpsertObject(c, j, e)
       PROVE  Then(b) \subseteq Stored(b) \cup {j}
  BY <1>4, <1>12 DEF UpsertObject
<1>13. ASSUME NEW c \in Buckets, NEW j \in Keys, DeleteObject(c, j)
       PROVE  Then(b) \subseteq Stored(b)
  BY <1>4, <1>13 DEF DeleteObject
<1> HIDE DEF Stored, Then
<1>14. \/ objects' = objects
       \/ \E old, new \in Buckets, p \in Policies : RenameBucketTo(old, new, p)
       \/ \E c \in Buckets : DeleteBucketRecursive(c)
       \/ \E c \in Buckets, j \in Keys : \E e : UpsertObject(c, j, e)
       \/ \E c \in Buckets, j \in Keys : DeleteObject(c, j)
  BY DEF RepoNext, CreateBucket, UpdateBucket, SetBucketPolicy, DeleteBucket,
         CreateMultipartUpload, SaveMultipartPart, DeleteMultipartUpload, CreateStream
<1>. QED
  BY <1>6, <1>7, <1>8, <1>9, <1>10, <1>11, <1>12, <1>13, <1>14

\* A method runs while a reader is under way, or not.
LEMMA WatchInv ==
  ASSUME ListingInv, RepoNext, Watch
  PROVE  ListingInv'
<1>1. RepoInv' /\ TablesAreFinite'
  BY RepoNextInv, RepoFinite DEF ListingInv
<1>2. CASE reader.pc \notin UnderWay
  <2>1. reader' = reader
    <3>1. reader.pc \in {"idle"} \cup Ended
      BY <1>2 DEF ListingInv, ReaderSound, NoReader, WalkSound, Walkers, LookupSound, Lookers,
                  UnderWay, Ended
    <3>. QED
      BY <3>1 DEF Watch
  <2>2. ReaderSound'
    BY <2>1 DEF ListingInv, ReaderSound, Alike, WalkSound, LookupSound, GotInOrder
  <2>. QED
    BY <1>1, <1>2, <2>1, <2>2 DEF ListingInv, SeesNow
<1>3. CASE reader.pc \in UnderWay
  <2>0. PICK b \in Buckets : b = reader.bucket
    BY <1>3 DEF ListingInv, ReaderSound, NoReader, WalkSound, Walkers, LookupSound, Lookers,
                UnderWay
  <2> DEFINE always == reader.always \cap Listed(b)'
             ever == reader.ever \cup Listed(b)'
             r == [reader EXCEPT !.always = always, !.ever = ever]
  <2>1. [c \in Buckets |-> Listed(c)'][reader.bucket] = Listed(b)'
    BY <2>0
  <2>2. reader' = r
    <3> HIDE DEF r
    <3>1. reader.pc \notin {"idle"} \cup Ended
      BY <1>3 DEF UnderWay, Ended
    <3>2. reader' = [reader EXCEPT
                       !.always = @ \cap [c \in Buckets |-> Listed(c)'][reader.bucket],
                       !.ever = @ \cup [c \in Buckets |-> Listed(c)'][reader.bucket]]
      BY <3>1 DEF Watch
    <3>3. QED
      BY <2>1, <3>2 DEF r
  <2>3. always \subseteq reader.always /\ ever \subseteq Keys \cup reader.ever
        /\ reader.ever \subseteq ever
    BY DEF Listed
  <2>4. always \subseteq Listed(b)' /\ Listed(b)' \subseteq ever
    OBVIOUS
  <2> HIDE DEF always, ever
  <2>5. CASE WalkSound(reader)
    <3>1. reader \in Walkers
      BY <2>5 DEF WalkSound
    <3>2. reader.pc = "page"
      BY <1>3, <3>1 DEF UnderWay, Walkers
    <3>3. /\ r.pc = "page" /\ r.bucket = reader.bucket /\ r.prefix = reader.prefix
          /\ r.cursor = reader.cursor /\ r.got = reader.got
          /\ r.always = always /\ r.ever = ever
      BY <3>1, <3>2 DEF Walkers
    <3>4. r \in Walkers
      BY <2>3, <3>1 DEF Walkers
    <3> HIDE DEF r
    <3>5. WalkSound(r)
      BY <2>3, <2>5, <3>2, <3>3, <3>4 DEF WalkSound, GotInOrder
    <3>6. ReaderSound' /\ SeesNow'
      BY <2>0, <2>2, <2>4, <3>3, <3>5 DEF ReaderSound, SeesNow, WalkSound, GotInOrder
    <3>. QED
      BY <1>1, <3>6 DEF ListingInv
  <2>6. CASE LookupSound(reader)
    <3>1. reader \in Lookers
      BY <2>6 DEF LookupSound
    <3>2. reader.pc \in {"try", "normal"}
      BY <1>3, <3>1 DEF UnderWay, Lookers
    <3>3. /\ r.pc = reader.pc /\ r.bucket = reader.bucket /\ r.key = reader.key
          /\ r.tried = reader.tried
          /\ r.always = always /\ r.ever = ever
      BY <3>1, <3>2 DEF Lookers
    <3>4. r \in Lookers
      BY <2>3, <3>1 DEF Lookers
    <3> HIDE DEF r
    <3>5. LookupSound(r)
      BY <2>3, <2>6, <3>2, <3>3, <3>4 DEF LookupSound
    <3>6. ReaderSound' /\ SeesNow'
      BY <2>0, <2>2, <2>4, <3>3, <3>5 DEF ReaderSound, SeesNow, LookupSound, Alike
    <3>. QED
      BY <1>1, <3>6 DEF ListingInv
  <2>. QED
    BY <1>3, <2>5, <2>6 DEF ListingInv, ReaderSound, NoReader, UnderWay
<1>. QED
  BY <1>2, <1>3

(***************************************************************************)
(* The steps of the reader                                                 *)
(***************************************************************************)

\* A reader begins with what is there.
LEMMA StartInv ==
  ASSUME ListingInv, UNCHANGED repoVars, NEW b \in Buckets,
         \/ \E prefix \in KeyPrefixes, limit \in Limits : StartWalk(b, prefix, limit)
         \/ \E k \in Keys : StartLookup(b, k)
  PROVE  ListingInv'
<1>1. RepoInv' /\ TablesAreFinite'
  <2>1. TablesAreFinite'
    BY DEF ListingInv, TablesAreFinite, repoVars, Listed, ObjectExists
  <2>. QED
    BY <2>1, RepoStutterInv DEF ListingInv
<1>2. Listed(b)' = Listed(b) /\ Listed(b) \subseteq Keys
  BY DEF repoVars, Listed, ObjectExists
<1>3. ASSUME NEW prefix \in KeyPrefixes, NEW limit \in Limits, StartWalk(b, prefix, limit)
      PROVE  ListingInv'
  <2> DEFINE w == [pc |-> "page", bucket |-> b, prefix |-> prefix, size |-> PageSize(limit),
                   cursor |-> 0, got |-> <<>>, always |-> Listed(b), ever |-> Listed(b)]
  <2>1. reader' = w
    BY <1>3 DEF StartWalk
  <2>2. w \in Walkers
    BY <1>2, PageSizeType DEF Walkers
  <2>3. \A k \in Listed(b) : ~(k <= 0)
    BY <1>2, ListingAssumption
  <2>4. WalkSound(w)
    BY <2>2, <2>3 DEF WalkSound, GotInOrder, ToSet
  <2>5. w.pc = "page" /\ w.bucket = b /\ w.always = Listed(b) /\ w.ever = Listed(b)
    OBVIOUS
  <2> HIDE DEF w
  <2>6. SeesNow'
    BY <1>2, <2>1, <2>5 DEF SeesNow
  <2>7. ReaderSound'
    BY <2>1, <2>4 DEF ReaderSound, WalkSound, GotInOrder
  <2>. QED
    BY <1>1, <2>6, <2>7 DEF ListingInv
<1>4. ASSUME NEW k \in Keys, StartLookup(b, k)
      PROVE  ListingInv'
  <2> DEFINE l == [pc |-> "try", bucket |-> b, key |-> k, tried |-> 0, found |-> None,
                   always |-> Listed(b), ever |-> Listed(b)]
  <2>1. reader' = l
    BY <1>4 DEF StartLookup
  <2>2. l \in Lookers
    BY <1>2 DEF Lookers
  <2>3. LookupSound(l)
    BY <2>2 DEF LookupSound
  <2>4. l.pc = "try" /\ l.bucket = b /\ l.always = Listed(b) /\ l.ever = Listed(b)
    OBVIOUS
  <2> HIDE DEF l
  <2>5. SeesNow'
    BY <1>2, <2>1, <2>4 DEF SeesNow
  <2>6. ReaderSound'
    BY <2>1, <2>3 DEF ReaderSound, LookupSound, Alike
  <2>. QED
    BY <1>1, <2>5, <2>6 DEF ListingInv
<1>. QED
  BY <1>3, <1>4

\* A walk gets its next page.
LEMMA NextPageInv ==
  ASSUME ListingInv, UNCHANGED repoVars, NextPage
  PROVE  ListingInv'
<1>1. RepoInv' /\ TablesAreFinite'
  <2>1. TablesAreFinite'
    BY DEF ListingInv, TablesAreFinite, repoVars, Listed, ObjectExists
  <2>. QED
    BY <2>1, RepoStutterInv DEF ListingInv
<1>2. reader.pc = "page" /\ WalkSound(reader) /\ reader \in Walkers
  BY DEF NextPage, ListingInv, ReaderSound, NoReader, WalkSound, LookupSound, Lookers
<1>3. PICK b, prefix, cursor, size :
        /\ b = reader.bucket /\ prefix = reader.prefix
        /\ cursor = reader.cursor /\ size = reader.size
  OBVIOUS
<1>4. /\ b \in Buckets /\ cursor \in Nat
      /\ size \in Nat \ {0}
  BY <1>2, <1>3, ListingAssumption DEF Walkers
<1>5. Listed(b)' = Listed(b)
  BY DEF repoVars, Listed, ObjectExists
<1> DEFINE S == {k \in Listed(b) \cap prefix : k > cursor}
<1>6. S \in SUBSET Keys /\ S \in SUBSET (Nat \ {0}) /\ IsFiniteSet(S)
  BY <1>4, RestKeys DEF ListingInv
<1> HIDE DEF S
<1>7. PICK page, next : page = FirstOf(InOrder(S), size) /\ next = NextCursor(InOrder(S), size)
  OBVIOUS
<1>8. /\ page \in Seq(S)
      /\ \A i, j \in DOMAIN page : i < j => page[i] < page[j]
      /\ next \in S \cup {0}
      /\ next = 0 => ToSet(page) = S
      /\ next # 0 => ToSet(page) = {k \in S : k <= next}
  BY <1>4, <1>6, <1>7, PageFacts
<1>9. CASE ~BucketExists(b)
  <2> DEFINE w == [reader EXCEPT !.pc = "failed"]
  <2>1. reader' = w
    BY <1>3, <1>9 DEF NextPage
  <2>2. w \in Walkers /\ w.pc = "failed"
    BY <1>2 DEF Walkers
  <2> HIDE DEF w
  <2>3. SeesNow' /\ ReaderSound'
    BY <2>1, <2>2 DEF SeesNow, UnderWay, ReaderSound, WalkSound
  <2>. QED
    BY <1>1, <2>3 DEF ListingInv
<1>10. CASE BucketExists(b)
  <2> DEFINE got == reader.got \o page
             pc == IF next = 0 THEN "listed" ELSE "page"
             w == [reader EXCEPT !.got = got, !.cursor = next, !.pc = pc]
  <2>1. reader' = w
    BY <1>3, <1>7, <1>10 DEF NextPage, Rest, S
  <2>2. /\ page \in Seq(Keys)
        /\ reader.got \in Seq(Keys)
        /\ next \in Nat
    <3>1. reader.got \in Seq(Keys)
      BY <1>2 DEF Walkers
    <3>2. S \subseteq Keys
      BY <1>6
    <3>3. page \in Seq(Keys)
      BY <1>8, <3>2
    <3>. QED
      BY <1>6, <1>8, <3>1, <3>3
  <2>3. got \in Seq(Keys) /\ ToSet(got) = ToSet(reader.got) \cup ToSet(page)
    BY <2>2, JoinedSet
  <2>5. \A i, j \in DOMAIN got : i < j => got[i] < got[j]
    <3>1. Keys \subseteq Nat
      BY ListingAssumption
    <3>2. \A i \in DOMAIN reader.got : reader.got[i] <= cursor
      BY <1>2, <1>3 DEF WalkSound, ToSet
    <3>3. \A i \in DOMAIN page : page[i] \in S
      BY <1>8
    <3>4. \A i \in DOMAIN page : page[i] > cursor
      BY <3>3 DEF S
    <3>5. \A i, j \in DOMAIN reader.got : i < j => reader.got[i] < reader.got[j]
      BY <1>2 DEF WalkSound, GotInOrder
    <3>. QED
      BY <1>4, <1>8, <2>2, <3>1, <3>2, <3>4, <3>5, JoinedInOrder
  <2> HIDE DEF got
  <2>6. /\ w.pc = pc /\ w.got = got /\ w.cursor = next
        /\ w.bucket = b /\ w.prefix = prefix
        /\ w.always = reader.always /\ w.ever = reader.ever
    BY <1>2, <1>3 DEF Walkers
  <2>7. w \in Walkers
    BY <1>2, <2>2, <2>3 DEF Walkers
  <2> HIDE DEF w
  <2>8. reader.always \subseteq Listed(b) /\ Listed(b) \subseteq reader.ever
    BY <1>2, <1>3 DEF ListingInv, SeesNow, UnderWay
  <2>9. ToSet(page) \subseteq S
    BY <1>8
  <2>10. GotInOrder(w)
    <3>1. ToSet(got) \subseteq reader.ever \cap prefix
      BY <1>2, <1>3, <2>3, <2>8, <2>9 DEF WalkSound, GotInOrder, S
    <3>. QED
      BY <2>5, <2>6, <3>1 DEF GotInOrder
  <2>11. \A k \in reader.always \cap prefix : k <= cursor => k \in ToSet(got)
    BY <1>2, <1>3, <2>3 DEF WalkSound
  <2>12. \A k \in reader.always \cap prefix : k <= cursor \/ k \in S
    <3> SUFFICES ASSUME NEW k \in reader.always \cap prefix PROVE k <= cursor \/ k \in S
      OBVIOUS
    <3>1. k \in Listed(b) /\ k \in Nat
      BY <2>8, ListingAssumption DEF Listed
    <3>. QED
      BY <1>4, <3>1 DEF S
  <2>13. CASE next = 0
    <3>1. reader.always \cap prefix \subseteq ToSet(got)
      BY <1>8, <2>3, <2>11, <2>12, <2>13
    <3>2. WalkSound(w)
      BY <2>6, <2>7, <2>10, <2>13, <3>1 DEF WalkSound
    <3>3. w.pc = "listed"
      BY <2>6, <2>13
    <3>. QED
      BY <1>1, <2>1, <3>2, <3>3 DEF ListingInv, ReaderSound, SeesNow, UnderWay, WalkSound, GotInOrder
  <2>14. CASE next # 0
    <3>1. \A k \in reader.always \cap prefix : k <= next => k \in ToSet(got)
      BY <1>8, <2>3, <2>11, <2>12, <2>14
    <3>2. \A k \in ToSet(got) : k <= next
      <4>1. \A k \in ToSet(page) : k <= next
        BY <1>8, <2>14
      <4>2. next > cursor /\ next \in Nat
        BY <1>8, <2>2, <2>14 DEF S
      <4>3. \A k \in ToSet(reader.got) : k <= cursor /\ k \in Nat
        <5>1. \A k \in ToSet(reader.got) : k \in Keys
          BY <2>2 DEF ToSet
        <5>. QED
          BY <1>2, <1>3, <5>1, ListingAssumption DEF WalkSound
      <4>4. \A k \in ToSet(reader.got) : k <= next
        BY <1>4, <4>2, <4>3
      <4>. QED
        BY <2>3, <4>1, <4>4
    <3>3. WalkSound(w)
      BY <2>6, <2>7, <2>10, <2>14, <3>1, <3>2 DEF WalkSound
    <3>4. SeesNow'
      BY <1>5, <2>1, <2>6, <2>8 DEF SeesNow
    <3>. QED
      BY <1>1, <2>1, <3>3, <3>4 DEF ListingInv, ReaderSound, WalkSound, GotInOrder
  <2>. QED
    BY <2>13, <2>14
<1>. QED
  BY <1>9, <1>10

\* A lookup goes on with the tables as they are.
LEMMA LookerInv ==
  ASSUME ListingInv, UNCHANGED repoVars, NEW l, reader' = l, LookupSound(l),
         l.bucket = reader.bucket, l.always = reader.always, l.ever = reader.ever,
         reader.pc \in UnderWay
  PROVE  ListingInv'
<1>1. RepoInv' /\ TablesAreFinite'
  <2>1. TablesAreFinite'
    BY DEF ListingInv, TablesAreFinite, repoVars, Listed, ObjectExists
  <2>. QED
    BY <2>1, RepoStutterInv DEF ListingInv
<1>2. ReaderSound'
  BY DEF ReaderSound, LookupSound, Alike
<1>3. SeesNow'
  BY DEF ListingInv, SeesNow, repoVars, Listed, ObjectExists
<1>. QED
  BY <1>1, <1>2, <1>3 DEF ListingInv

\* A lookup tries the next variant; the first is the key itself.
LEMMA TryVariantInv ==
  ASSUME ListingInv, UNCHANGED repoVars, TryVariant
  PROVE  ListingInv'
<1>1. reader.pc = "try" /\ LookupSound(reader) /\ reader \in Lookers
  BY DEF TryVariant, ListingInv, ReaderSound, NoReader, WalkSound, LookupSound, Walkers
<1>2. PICK b, k, n :
        /\ b \in Buckets /\ b = reader.bucket
        /\ k \in Keys /\ k = reader.key
        /\ n \in Nat /\ n = reader.tried
  BY <1>1 DEF Lookers
<1>3. reader.pc \in UnderWay /\ reader.always \subseteq Listed(b) /\ Listed(b) \subseteq reader.ever
  BY <1>1, <1>2 DEF ListingInv, SeesNow, UnderWay
<1>4. Variants[k] \in Seq(Keys) /\ Variants[k] # <<>> /\ Variants[k][1] = k
  BY <1>2, ListingAssumption
<1>5. Len(Variants[k]) \in Nat /\ Len(Variants[k]) >= 1
  BY <1>4
<1>6. CASE n + 1 > Len(Variants[k])
  <2> DEFINE l == [reader EXCEPT !.pc = "normal"]
  <2>1. reader' = l
    BY <1>2, <1>6 DEF TryVariant
  <2>2. l \in Lookers
    BY <1>1 DEF Lookers
  <2>3. /\ l.pc = "normal" /\ l.key = k /\ l.bucket = b
        /\ l.always = reader.always /\ l.ever = reader.ever
    BY <1>1, <1>2 DEF Lookers
  <2>4. n > 0
    BY <1>2, <1>5, <1>6
  <2>5. k \notin reader.always
    BY <1>1, <1>2, <2>4 DEF LookupSound
  <2> HIDE DEF l
  <2>6. LookupSound(l)
    BY <2>2, <2>3, <2>5 DEF LookupSound
  <2>. QED
    BY <1>2, <1>3, <2>1, <2>3, <2>6, LookerInv
<1>7. CASE ~(n + 1 > Len(Variants[k])) /\ ObjectExists(b, Variants[k][n + 1])
  <2> DEFINE v == Variants[k][n + 1]
             l == [reader EXCEPT !.pc = "found", !.found = v]
  <2>1. reader' = l
    BY <1>2, <1>7 DEF TryVariant
  <2>2. n + 1 \in 1..Len(Variants[k])
    BY <1>2, <1>5, <1>7
  <2>3. v \in Keys
    BY <1>4, <2>2
  <2>4. v \in Listed(b)
    BY <1>2, <1>7, <2>3, ListedIsStored DEF ListingInv, ObjectExists
  <2>5. n = 0 => v = k
    BY <1>4
  <2> HIDE DEF v
  <2>6. l \in Lookers
    BY <1>1, <2>3 DEF Lookers
  <2>7. /\ l.pc = "found" /\ l.key = k /\ l.bucket = b /\ l.found = v
        /\ l.always = reader.always /\ l.ever = reader.ever
    BY <1>1, <1>2 DEF Lookers
  <2>8. n > 0 => k \notin reader.always
    BY <1>1, <1>2 DEF LookupSound
  <2>9. n = 0 \/ n > 0
    BY <1>2
  <2> HIDE DEF l
  <2>10. LookupSound(l)
    BY <1>3, <2>4, <2>5, <2>6, <2>7, <2>8, <2>9 DEF LookupSound
  <2>. QED
    BY <1>2, <1>3, <2>1, <2>7, <2>10, LookerInv
<1>8. CASE ~(n + 1 > Len(Variants[k])) /\ ~ObjectExists(b, Variants[k][n + 1])
  <2> DEFINE l == [reader EXCEPT !.tried = n + 1]
  <2>1. reader' = l
    BY <1>2, <1>8 DEF TryVariant
  <2>2. l \in Lookers
    BY <1>1, <1>2 DEF Lookers
  <2>3. /\ l.pc = "try" /\ l.key = k /\ l.bucket = b /\ l.tried = n + 1
        /\ l.always = reader.always /\ l.ever = reader.ever
    BY <1>1, <1>2 DEF Lookers
  <2>4. k \notin reader.always
    <3>1. CASE n = 0
      <4>1. k \notin Listed(b)
        BY <1>2, <1>4, <1>8, <3>1, ListedIsStored DEF ListingInv, ObjectExists
      <4>. QED
        BY <1>3, <4>1
    <3>2. CASE n > 0
      BY <1>1, <1>2, <3>2 DEF LookupSound
    <3>. QED
      BY <1>2, <3>1, <3>2
  <2> HIDE DEF l
  <2>5. LookupSound(l)
    BY <2>2, <2>3, <2>4 DEF LookupSound
  <2>. QED
    BY <1>2, <1>3, <2>1, <2>3, <2>5, LookerInv
<1>. QED
  BY <1>6, <1>7, <1>8

\* A nonempty finite set of keys has a smallest one: the first in order.
LEMMA SmallestKey ==
  ASSUME NEW S \in SUBSET Nat, IsFiniteSet(S), S # {}
  PROVE  Min(S) \in S
<1> DEFINE s == InOrder(S)
           n == Cardinality(S)
<1>1. /\ s \in [1..n -> S]
      /\ \A i, j \in 1..n : i < j => s[i] < s[j]
      /\ ToSet(s) = S
  BY InOrderFacts
<1>2. n \in Nat /\ n # 0
  BY FS_CardinalityType, FS_EmptySet
<1> HIDE DEF s, n
<1>3. 1 \in 1..n
  BY <1>2
<1>4. s[1] \in S
  BY <1>1, <1>3
<1>5. ASSUME NEW k \in S PROVE s[1] <= k
  <2>1. PICK i \in 1..n : k = s[i]
    BY <1>1 DEF ToSet
  <2>2. i = 1 \/ 1 < i
    BY <1>2
  <2>3. s[1] = k \/ s[1] < k
    BY <1>1, <1>3, <2>1, <2>2
  <2>4. s[1] \in Nat /\ k \in Nat
    BY <1>4
  <2>. QED
    BY <2>3, <2>4
<1>. QED
  BY <1>4, <1>5 DEF Min

\* A lookup looks through the first page for a key that is alike.
LEMMA FindNormalizedInv ==
  ASSUME ListingInv, UNCHANGED repoVars, FindNormalized
  PROVE  ListingInv'
<1>1. reader.pc = "normal" /\ LookupSound(reader) /\ reader \in Lookers
  BY DEF FindNormalized, ListingInv, ReaderSound, NoReader, WalkSound, LookupSound, Walkers
<1>2. PICK b, k :
        /\ b \in Buckets /\ b = reader.bucket
        /\ k \in Keys /\ k = reader.key
  BY <1>1 DEF Lookers
<1>3. reader.pc \in UnderWay /\ reader.always \subseteq Listed(b) /\ Listed(b) \subseteq reader.ever
  BY <1>1, <1>2 DEF ListingInv, SeesNow, UnderWay
<1> DEFINE S == {j \in Listed(b) \cap Keys : j > 0}
<1>4. S \in SUBSET Keys /\ S \in SUBSET (Nat \ {0}) /\ IsFiniteSet(S)
  BY <1>2, RestKeys DEF ListingInv
<1>5. S = Listed(b)
  <2>1. \A j \in Listed(b) : j \in Keys /\ j > 0
    BY ListingAssumption DEF Listed
  <2>. QED
    BY <2>1
<1> HIDE DEF S
<1>6. MaxPage \in Nat \ {0}
  BY ListingAssumption
<1>7. PICK page, next : page = FirstOf(InOrder(S), MaxPage) /\ next = NextCursor(InOrder(S), MaxPage)
  OBVIOUS
<1>8. /\ page \in Seq(S)
      /\ \A i, j \in DOMAIN page : i < j => page[i] < page[j]
      /\ next \in S \cup {0}
      /\ next = 0 => ToSet(page) = S
      /\ next # 0 => Len(page) = MaxPage /\ ToSet(page) = {j \in S : j <= next}
  BY <1>4, <1>6, <1>7, PageFacts
<1> DEFINE alike == ToSet(page) \cap Alike(k)
<1>9. reader' = IF ~BucketExists(b) \/ alike = {}
                THEN [reader EXCEPT !.pc = "missing"]
                ELSE [reader EXCEPT !.pc = "found", !.found = Min(alike)]
  BY <1>2, <1>7 DEF FindNormalized, Rest, S
<1>10. k \notin reader.always
  BY <1>1, <1>2 DEF LookupSound
<1>11. CASE ~BucketExists(b) \/ alike = {}
  <2> DEFINE l == [reader EXCEPT !.pc = "missing"]
  <2>1. reader' = l
    BY <1>9, <1>11
  <2>2. l \in Lookers
    BY <1>1 DEF Lookers
  <2>3. /\ l.pc = "missing" /\ l.key = k /\ l.bucket = b
        /\ l.always = reader.always /\ l.ever = reader.ever
    BY <1>1, <1>2 DEF Lookers
  <2> HIDE DEF l
  <2>4. ASSUME NEW m \in reader.always \cap Alike(k)
        PROVE  Cardinality({j \in reader.ever : j < m}) >= MaxPage
    <3> DEFINE before == {j \in reader.ever : j < m}
    <3>1. m \in Listed(b) /\ m \in S /\ m \in Nat
      BY <1>3, <1>4, <1>5
    <3>2. BucketExists(b)
      BY <1>2, <3>1, ListedIsStored DEF ListingInv, RepoInv, ObjectsInBuckets, ObjectExists
    <3>3. m \notin ToSet(page)
      BY <1>11, <3>2
    <3>4. next # 0 /\ ~(m <= next)
      BY <1>8, <3>1, <3>3
    <3>5. ASSUME NEW j \in ToSet(page) PROVE j \in before
      <4>1. j \in S /\ j <= next /\ j \in Nat /\ next \in Nat
        BY <1>4, <1>8, <3>4
      <4>2. j < m
        BY <3>1, <3>4, <4>1
      <4>. QED
        BY <1>3, <1>5, <4>1, <4>2
    <3>6. before \in SUBSET Nat
      BY <1>1, ListingAssumption DEF Lookers
    <3>7. \A j \in before : j <= m
      BY <3>1, <3>6
    <3> HIDE DEF before
    <3>8. IsFiniteSet(before)
      BY <3>1, <3>6, <3>7, FS_BoundedSetOfNaturals
    <3>9. page \in [1..MaxPage -> before]
      <4>1. DOMAIN page = 1..MaxPage /\ page = [i \in 1..MaxPage |-> page[i]]
        BY <1>8, <3>4
      <4>2. \A i \in 1..MaxPage : page[i] \in before
        BY <3>5, <4>1 DEF ToSet
      <4>. QED
        BY <4>1, <4>2
    <3>10. page \in Injection(1..MaxPage, before)
      <4>1. ASSUME NEW i \in 1..MaxPage, NEW j \in 1..MaxPage, i # j
            PROVE  page[i] # page[j]
        <5>1. i \in DOMAIN page /\ j \in DOMAIN page /\ (i < j \/ j < i)
          BY <1>6, <3>9, <4>1
        <5>2. page[i] < page[j] \/ page[j] < page[i]
          BY <1>8, <5>1
        <5>3. page[i] \in Nat /\ page[j] \in Nat
          BY <3>6, <3>9
        <5>. QED
          BY <5>2, <5>3
      <4>. QED
        BY <3>9, <4>1 DEF Injection, IsInjective
    <3>11. Cardinality(1..MaxPage) <= Cardinality(before)
      BY <3>8, <3>10, FS_Injection
    <3>12. Cardinality(1..MaxPage) = MaxPage /\ Cardinality(before) \in Nat
      BY <1>6, <3>8, FS_Interval, FS_CardinalityType
    <3>13. Cardinality(before) >= MaxPage
      BY <1>6, <3>11, <3>12
    <3>. QED
      BY <3>13 DEF before
  <2>5. LookupSound(l)
    BY <2>2, <2>3, <2>4 DEF LookupSound
  <2>. QED
    BY <1>2, <1>3, <2>1, <2>3, <2>5, LookerInv
<1>12. CASE ~(~BucketExists(b) \/ alike = {})
  <2> DEFINE l == [reader EXCEPT !.pc = "found", !.found = Min(alike)]
  <2>1. reader' = l
    BY <1>9, <1>12
  <2>2. ToSet(page) \subseteq S
    BY <1>8
  <2>3. Min(alike) \in alike
    <3>1. alike \in SUBSET Nat
      BY <1>4, <2>2
    <3>2. alike \in SUBSET S
      BY <2>2
    <3>3. IsFiniteSet(alike)
      BY <1>4, <3>2, FS_Subset
    <3>. QED
      BY <1>12, <3>1, <3>3, SmallestKey
  <2>4. Min(alike) \in Keys /\ Min(alike) \in reader.ever
    BY <1>3, <1>4, <1>5, <2>2, <2>3
  <2> HIDE DEF alike
  <2>5. l \in Lookers
    BY <1>1, <2>4 DEF Lookers
  <2>6. /\ l.pc = "found" /\ l.key = k /\ l.bucket = b /\ l.found = Min(alike)
        /\ l.always = reader.always /\ l.ever = reader.ever
    BY <1>1, <1>2 DEF Lookers
  <2> HIDE DEF l
  <2>7. LookupSound(l)
    BY <1>10, <2>4, <2>5, <2>6 DEF LookupSound
  <2>. QED
    BY <1>2, <1>3, <2>1, <2>6, <2>7, LookerInv
<1>. QED
  BY <1>11, <1>12

(***************************************************************************)
(* The theorems                                                            *)
(***************************************************************************)

\* Every step of the tables and of the reader preserves the invariant.
LEMMA ListingNextInv ==
  ASSUME ListingInv, [ListingNext]_listingVars
  PROVE  ListingInv'
<1>1. CASE RepoNext /\ Watch
  BY <1>1, WatchInv
<1>2. ASSUME UNCHANGED repoVars,
             reader' = reader \/ reader' = NoReader
      PROVE  ListingInv'
  <2>1. TablesAreFinite'
    BY <1>2 DEF ListingInv, TablesAreFinite, repoVars, Listed, ObjectExists
  <2>2. RepoInv'
    BY <1>2, RepoStutterInv DEF ListingInv
  <2>3. CASE reader' = NoReader
    BY <2>1, <2>2, <2>3 DEF ListingInv, SeesNow, ReaderSound, NoReader, UnderWay
  <2>4. CASE reader' = reader
    <3>1. SeesNow'
      BY <1>2, <2>4 DEF ListingInv, SeesNow, repoVars, Listed, ObjectExists
    <3>2. ReaderSound'
      BY <2>4 DEF ListingInv, ReaderSound, WalkSound, LookupSound, GotInOrder, Alike
    <3>. QED
      BY <2>1, <2>2, <3>1, <3>2 DEF ListingInv
  <2>. QED
    BY <1>2, <2>3, <2>4
<1>3. CASE ReaderStep
  BY <1>2, <1>3, StartInv, NextPageInv, TryVariantInv, FindNormalizedInv DEF ReaderStep, ReaderEnds
<1>4. CASE UNCHANGED listingVars
  BY <1>2, <1>4 DEF listingVars
<1>. QED
  BY <1>1, <1>3, <1>4 DEF ListingNext

\* The invariant of readers holds throughout every behaviour.
THEOREM ListingInvariant == ListingSpec => []ListingInv
<1>1. ListingInv /\ [ListingNext]_listingVars => ListingInv'
  BY ListingNextInv
<1>. QED
  BY <1>1, ListingInitInv, PTL DEF ListingSpec

\* A client that follows the cursors to the end meets every key that was there
\* all the time, none that never was, each once and in order: for any number of
\* keys and any page size, whatever methods run between two pages.
THEOREM WalksAlwaysComplete == ListingSpec => []WalksComplete
<1>1. ListingInv => WalksComplete
  BY DEF ListingInv, ReaderSound, NoReader, WalkSound, GotInOrder, LookupSound, Lookers, WalksComplete
<1>. QED
  BY <1>1, ListingInvariant, PTL

\* A public object is answered under its own name before any other, and is
\* missed only if nothing alike was there all the time in the first page.
THEOREM LookupsAlwaysFind == ListingSpec => []LookupsFind
<1>1. ListingInv => LookupsFind
  BY DEF ListingInv, ReaderSound, NoReader, WalkSound, Walkers, LookupSound, LookupsFind
<1>. QED
  BY <1>1, ListingInvariant, PTL
=============================================================================
