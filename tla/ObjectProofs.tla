---------------------------- MODULE ObjectProofs ----------------------------
(***************************************************************************)
(* Proofs about the object and bucket handlers of both APIs, for every      *)
(* number of requests, buckets, keys and bodies.                            *)
(*                                                                         *)
(* 1. BasicInv: types, what a request carries at each step of its handler   *)
(*    (RequestsFit), which temporary files and removals are in whose hands  *)
(*    (TempsInHand, SweepsInHand), whole files, and a directory for each.   *)
(*                                                                         *)
(* 2. CleanInv: Settled is not inductive, since it says nothing of a path   *)
(*    while a request is between its two stores.  The invariant says what   *)
(*    the request relies on there: what it has stored and found is still so *)
(*    while nothing made the path suspect (RequestOK); a clean path which   *)
(*    nobody is in between on matches (PathOK).  That needs who may be at a *)
(*    clean path together: nobody with a request that overlapped none       *)
(*    (SoloAlone), and no two writes but a removal whose directory another  *)
(*    rename has moved away under it (SharedSuspect).                       *)
(*                                                                         *)
(*    A step of one request leaves the others and the paths of the others   *)
(*    alone (StepBy, OthersClean); what remains for each action is the      *)
(*    request itself and its own paths.                                     *)
(*                                                                         *)
(* 3. What is answered: reads, puts and removals that overlapped no         *)
(*    conflicting request.                                                  *)
(*                                                                         *)
(* 4. What a read with a range is sent, for every header (RangedRead).      *)
(***************************************************************************)
EXTENDS RangedRead, RepositoryProofs, FiniteSetTheorems

(***************************************************************************)
(* The disk: every system call keeps it well typed.                         *)
(***************************************************************************)

\* The system calls of a put and the unlink of a delete.
LEMMA WriteType ==
  ASSUME StoreTypeOK, NEW r \in Requests, NEW b \in Buckets, NEW k \in Keys, NEW body \in Body,
         \/ CreateTemp(r, b)
         \/ CreateTempFails(b)
         \/ CopyBody(r, body)
         \/ RemoveTemp(r)
         \/ Publish(r, b, k)
         \/ PublishFails(r, b)
         \/ UnlinkFile(b, k)
  PROVE  StoreTypeOK'
<1> USE DEF StoreTypeOK, Body
<1>1. CASE CreateTemp(r, b)
  <2>1. [dir |-> b, data |-> <<>>] \in Temps
    BY DEF Temps
  <2>2. temps' \in [Requests -> Temps \cup {None}]
    BY <1>1, <2>1 DEF CreateTemp
  <2>3. sweeps' \in [Requests -> Sweeps \cup {None}]
    <3> SUFFICES ASSUME NEW q \in Requests, sweeps[q] # None
                 PROVE  [sweeps[q] EXCEPT !.temps = @ \ {r}] \in Sweeps
      BY <1>1 DEF CreateTemp
    <3>1. sweeps[q] \in Sweeps
      OBVIOUS
    <3>2. QED
      BY <3>1 DEF Sweeps
  <2>4. QED
    BY <1>1, <2>2, <2>3 DEF CreateTemp
<1>2. CASE CreateTempFails(b)
  BY <1>2 DEF CreateTempFails
<1>3. CASE CopyBody(r, body)
  <2>1. ASSUME temps[r] # None
        PROVE  [temps[r] EXCEPT !.data = body] \in Temps
    BY <2>1 DEF Temps
  <2>2. QED
    BY <1>3, <2>1 DEF CopyBody
<1>4. CASE RemoveTemp(r)
  BY <1>4 DEF RemoveTemp
<1>5. CASE Publish(r, b, k)
  <2>1. temps[r].data \in Body
    BY <1>5 DEF Publish, TempInPlace, TempsIn, Temps
  <2>2. QED
    BY <1>5, <2>1 DEF Publish
<1>6. CASE PublishFails(r, b)
  BY <1>6 DEF PublishFails, RemoveTemp
<1>7. CASE UnlinkFile(b, k)
  BY <1>7 DEF UnlinkFile
<1>8. QED
  BY <1>1, <1>2, <1>3, <1>4, <1>5, <1>6, <1>7

\* The move of a directory.
LEMMA MoveType ==
  ASSUME StoreTypeOK, NEW old \in Buckets, NEW new \in Buckets, MoveDir(old, new)
  PROVE  StoreTypeOK'
<1> USE DEF StoreTypeOK, MoveDir
<1>1. dirs' \subseteq Buckets
  OBVIOUS
<1>2. files' \in [Buckets -> [Keys -> Body \cup {None}]]
  BY DEF NoFiles
<1>3. temps' \in [Requests -> Temps \cup {None}]
  <2> SUFFICES ASSUME NEW q \in Requests, temps[q] # None
               PROVE  [temps[q] EXCEPT !.dir = Renamed(@, old, new)] \in Temps
    OBVIOUS
  <2>1. temps[q] \in Temps
    OBVIOUS
  <2>2. QED
    BY <2>1 DEF Temps, Renamed
<1>4. sweeps' \in [Requests -> Sweeps \cup {None}]
  <2> SUFFICES ASSUME NEW q \in Requests, sweeps[q] # None
               PROVE  [sweeps[q] EXCEPT !.dir = Renamed(@, old, new)] \in Sweeps
    OBVIOUS
  <2>1. sweeps[q] \in Sweeps
    OBVIOUS
  <2>2. QED
    BY <2>1 DEF Sweeps, Renamed
<1>5. QED
  BY <1>1, <1>2, <1>3, <1>4

\* The system calls of the removal of a directory.
LEMMA SweepType ==
  ASSUME StoreTypeOK, NEW r \in Requests, NEW b \in Buckets,
         sweeps[r] # None \/ StartSweep(r, b),
         \/ StartSweep(r, b)
         \/ \E k \in Keys : SweepFile(r, k)
         \/ \E q \in Requests : SweepTemp(r, q)
         \/ RemoveDir(r, b)
         \/ RemoveDirFails(r, b)
  PROVE  StoreTypeOK'
<1> USE DEF StoreTypeOK
<1>1. CASE StartSweep(r, b)
  <2>1. [dir |-> b, keys |-> FilesIn(b), temps |-> TempsIn(b)] \in Sweeps
    BY DEF Sweeps, FilesIn, TempsIn
  <2>2. QED
    BY <1>1, <2>1 DEF StartSweep
<1>2. ASSUME NEW k \in Keys, SweepFile(r, k), sweeps[r] # None
      PROVE  StoreTypeOK'
  <2>1. [sweeps[r] EXCEPT !.keys = @ \ {k}] \in Sweeps
    BY <1>2 DEF Sweeps
  <2>2. QED
    BY <1>2, <2>1 DEF SweepFile
<1>3. ASSUME NEW q \in Requests, SweepTemp(r, q), sweeps[r] # None
      PROVE  StoreTypeOK'
  <2>1. [sweeps[r] EXCEPT !.temps = @ \ {q}] \in Sweeps
    BY <1>3 DEF Sweeps
  <2>2. QED
    BY <1>3, <2>1 DEF SweepTemp
<1>4. CASE RemoveDir(r, b)
  <2>1. sweeps' \in [Requests -> Sweeps \cup {None}]
    <3> SUFFICES ASSUME NEW p \in Requests, sweeps[p] # None
                 PROVE  [sweeps[p] EXCEPT !.dir = IF @ = b THEN None ELSE @] \in Sweeps
      BY <1>4 DEF RemoveDir
    <3>1. sweeps[p] \in Sweeps
      OBVIOUS
    <3>2. QED
      BY <3>1 DEF Sweeps
  <2>2. QED
    BY <1>4, <2>1 DEF RemoveDir
<1>5. CASE RemoveDirFails(r, b)
  BY <1>5 DEF RemoveDirFails
<1>6. QED
  BY <1>1, <1>2, <1>3, <1>4, <1>5

(***************************************************************************)
(* Requests                                                                *)
(***************************************************************************)

Ended == {"idle", "ok"}

\* A request that has arrived carries its arguments until its handler ends; a
\* read keeps them, with its answer, for as long as nobody asks again.
Handling == [pc : Pcs \ Ended, op : Ops, bucket : Buckets, key : Keys, to : Buckets,
             body : Body \cup {None}, entry : Entries \cup {None},
             from : Paths \cup {None}, solo : BOOLEAN]

\* Which handler a step belongs to, and what its request brought.
Fits(q) ==
    /\ q.pc \in {"begin", "copy", "publish", "upsert"} => q.op \in Puts /\ q.body \in Bodies
    /\ q.pc \in {"unlink", "forget"} => q.op = "delete"
    /\ q.pc \in {"openPath", "open", "answered"} => q.op \in ObjectReads /\ q.entry \in Entries
    /\ q.pc \in {"moveDir", "updateBucket"} => q.op = "rename" /\ q.bucket # q.to
    /\ q.pc = "dropBucket" => q.op = "plainDelete"
    /\ q.pc \in {"scan", "sweep"} => q.op \in Removes
    /\ q.pc = "dropAll" => q.op = "forceDelete"

RequestsFit ==
    /\ req \in [Requests -> Handling \cup [pc : Ended]]
    /\ \A r \in Requests : req[r].pc \notin Ended => Fits(req[r])

SameArgs(r) ==
    /\ req'[r].op = req[r].op
    /\ req'[r].bucket = req[r].bucket
    /\ req'[r].key = req[r].key
    /\ req'[r].to = req[r].to
    /\ req'[r].solo = req[r].solo

OthersStay(r) == \A q \in Requests \ {r} : req'[q] = req[q]

\* A request at a step of a handler carries arguments.
LEMMA Carries ==
  ASSUME RequestsFit, NEW r \in Requests, req[r].pc \notin Ended
  PROVE  /\ req[r] \in Handling
         /\ Fits(req[r])
         /\ req[r].pc \in Pcs \ Ended
         /\ req[r].op \in Ops
         /\ req[r].bucket \in Buckets
         /\ req[r].key \in Keys
         /\ req[r].to \in Buckets
         /\ req[r].solo \in BOOLEAN
<1>1. req[r] \in Handling
  BY DEF RequestsFit
<1>2. QED
  BY <1>1 DEF RequestsFit, Handling

\* A handler that moves on keeps its arguments.
LEMMA GotoFits ==
  ASSUME RequestsFit, NEW r \in Requests, req[r].pc \notin Ended, NEW pc \in Pcs \ Ended,
         Goto(r, pc), Fits([req[r] EXCEPT !.pc = pc])
  PROVE  /\ RequestsFit' /\ SameArgs(r) /\ OthersStay(r)
         /\ req'[r].pc = pc
         /\ req'[r].body = req[r].body
         /\ req'[r].entry = req[r].entry
<1> DEFINE e == [req[r] EXCEPT !.pc = pc]
<1>1. req[r] \in Handling
  BY DEF RequestsFit
<1>2. /\ e \in Handling
      /\ e.pc = pc
      /\ e.op = req[r].op /\ e.bucket = req[r].bucket /\ e.key = req[r].key
      /\ e.to = req[r].to /\ e.solo = req[r].solo /\ e.body = req[r].body
      /\ e.entry = req[r].entry
  BY <1>1 DEF Handling
<1>3. req' = [req EXCEPT ![r] = e] /\ Fits(e)
  BY DEF Goto
<1> HIDE DEF e
<1>4. req'[r] = e /\ OthersStay(r)
  BY <1>3 DEF RequestsFit, OthersStay
<1>5. RequestsFit'
  BY <1>2, <1>3, <1>4 DEF RequestsFit, OthersStay
<1>6. QED
  BY <1>2, <1>4, <1>5 DEF SameArgs

\* A handler that ends drops its arguments.
LEMMA EndFits ==
  ASSUME RequestsFit, NEW r \in Requests, Finish(r, "ok") \/ Fail(r)
  PROVE  /\ RequestsFit' /\ OthersStay(r)
         /\ req'[r].pc \in Ended
<1>1. PICK e \in [pc : Ended] : req' = [req EXCEPT ![r] = e]
  <2>1. [pc |-> "ok"] \in [pc : Ended] /\ NoRequest \in [pc : Ended]
    BY DEF Ended, NoRequest
  <2>2. QED
    BY <2>1 DEF Finish, Fail
<1>2. req'[r] = e /\ OthersStay(r)
  BY <1>1 DEF RequestsFit, OthersStay
<1>3. e.pc \in Ended
  OBVIOUS
<1>4. QED
  BY <1>1, <1>2, <1>3 DEF RequestsFit, OthersStay

\* A read that is answered keeps its arguments with its answer.
LEMMA AnswerFits ==
  ASSUME RequestsFit, StoreTypeOK, NEW r \in Requests, NEW path \in Paths,
         req[r].pc \in {"openPath", "open"}, FileExists(path[1], path[2]), Answer(r, path)
  PROVE  /\ RequestsFit' /\ SameArgs(r) /\ OthersStay(r)
         /\ req'[r].pc = "answered"
         /\ req'[r].body = files[path[1]][path[2]]
         /\ req'[r].entry = req[r].entry
<1> DEFINE body == files[path[1]][path[2]]
           e == [req[r] EXCEPT !.pc = "answered", !.from = path, !.body = body]
<1>1. req[r] \in Handling /\ req[r].op \in ObjectReads /\ req[r].entry \in Entries
  BY DEF RequestsFit, Fits, Ended
<1>2. body \in Body
  BY DEF FileExists, StoreTypeOK, Paths
<1>3. req' = [req EXCEPT ![r] = e]
  BY DEF Answer
<1> HIDE DEF body
<1>4. /\ e \in Handling
      /\ e.pc = "answered"
      /\ e.op = req[r].op /\ e.bucket = req[r].bucket /\ e.key = req[r].key
      /\ e.to = req[r].to /\ e.solo = req[r].solo /\ e.body = body
      /\ e.entry = req[r].entry /\ e.from = path
  BY <1>1, <1>2 DEF Handling, Pcs, Ended
<1> HIDE DEF e
<1>5. Fits(e)
  BY <1>1, <1>4 DEF Fits
<1>6. req'[r] = e /\ OthersStay(r)
  BY <1>3 DEF RequestsFit, OthersStay
<1>7. RequestsFit'
  BY <1>3, <1>4, <1>5, <1>6 DEF RequestsFit, OthersStay
<1>8. QED
  BY <1>4, <1>6, <1>7 DEF SameArgs, body

(***************************************************************************)
(* What the system calls do to temporary files and removals, field by field *)
(***************************************************************************)

\* A removal whose record is edited is still under way.
LEMMA SweepEdits ==
  ASSUME StoreTypeOK, NEW q \in Requests, sweeps[q] # None
  PROVE  /\ sweeps[q] \in Sweeps
         /\ \A K \in SUBSET Keys : [sweeps[q] EXCEPT !.keys = K] \in Sweeps \ {None}
         /\ \A T \in SUBSET Requests : [sweeps[q] EXCEPT !.temps = T] \in Sweeps \ {None}
         /\ \A d \in Buckets \cup {None} : [sweeps[q] EXCEPT !.dir = d] \in Sweeps \ {None}
<1>1. sweeps[q] \in Sweeps
  BY DEF StoreTypeOK
<1>2. None \notin Sweeps
  BY StoreSentinelAssumption
<1>3. QED
  BY <1>1, <1>2 DEF Sweeps

\* A temporary file that is made is empty, and no removal knows of it.
LEMMA CreateTempEffect ==
  ASSUME StoreTypeOK, NEW r \in Requests, NEW b \in Buckets, CreateTemp(r, b)
  PROVE  /\ dirs' = dirs \cup {b} /\ files' = files
         /\ temps'[r] # None /\ temps'[r].dir = b
         /\ \A q \in Requests \ {r} : temps'[q] = temps[q]
         /\ \A q \in Requests :
              /\ sweeps'[q] = None <=> sweeps[q] = None
              /\ sweeps[q] # None =>
                   /\ sweeps'[q].dir = sweeps[q].dir
                   /\ sweeps'[q].keys = sweeps[q].keys
                   /\ sweeps'[q].temps = sweeps[q].temps \ {r}
<1>1. [dir |-> b, data |-> <<>>] \in Temps
  BY DEF Temps, Body
<1>2. [dir |-> b, data |-> <<>>] # None
  BY <1>1, StoreSentinelAssumption
<1>3. /\ temps'[r] # None /\ temps'[r].dir = b
      /\ \A q \in Requests \ {r} : temps'[q] = temps[q]
  BY <1>2 DEF CreateTemp, StoreTypeOK
<1>4. ASSUME NEW q \in Requests, sweeps[q] # None
      PROVE  /\ sweeps'[q] # None
             /\ sweeps'[q].dir = sweeps[q].dir
             /\ sweeps'[q].keys = sweeps[q].keys
             /\ sweeps'[q].temps = sweeps[q].temps \ {r}
  <2>1. sweeps'[q] = [sweeps[q] EXCEPT !.temps = sweeps[q].temps \ {r}]
    BY <1>4 DEF CreateTemp
  <2>2. sweeps[q] \in Sweeps /\ sweeps[q].temps \ {r} \in SUBSET Requests
    BY <1>4, SweepEdits DEF Sweeps
  <2>3. sweeps'[q] # None
    BY <1>4, <2>1, <2>2, SweepEdits
  <2>4. QED
    BY <2>1, <2>2, <2>3 DEF Sweeps
<1>5. QED
  BY <1>3, <1>4 DEF CreateTemp

\* A body that is copied stays in its directory.
LEMMA CopyBodyEffect ==
  ASSUME StoreTypeOK, NEW r \in Requests, NEW body \in Body, CopyBody(r, body)
  PROVE  /\ UNCHANGED <<dirs, files, sweeps>>
         /\ temps'[r] = None <=> temps[r] = None
         /\ temps[r] # None => temps'[r].dir = temps[r].dir /\ temps'[r].data = body
         /\ \A q \in Requests \ {r} : temps'[q] = temps[q]
<1>1. CASE temps[r] = None
  BY <1>1 DEF CopyBody
<1>2. CASE temps[r] # None
  <2>1. temps[r] \in Temps
    BY <1>2 DEF StoreTypeOK
  <2>2. [temps[r] EXCEPT !.data = body] \in Temps
    BY <2>1 DEF Temps
  <2>3. [temps[r] EXCEPT !.data = body] # None
    BY <2>2, StoreSentinelAssumption
  <2>4. temps' = [temps EXCEPT ![r] = [temps[r] EXCEPT !.data = body]]
    BY <1>2 DEF CopyBody
  <2>5. QED
    BY <1>2, <2>1, <2>3, <2>4 DEF CopyBody, StoreTypeOK, Temps
<1>3. QED
  BY <1>1, <1>2

\* A directory that moves takes its files, its temporary files and the
\* removals that hold it open along.
LEMMA MoveDirEffect ==
  ASSUME StoreTypeOK, NEW old \in Buckets, NEW new \in Buckets, MoveDir(old, new)
  PROVE  /\ old \in dirs /\ new \notin dirs /\ old # new
         /\ dirs' = (dirs \ {old}) \cup {new}
         /\ files'[new] = files[old] /\ files'[old] = NoFiles
         /\ \A b \in Buckets \ {old, new} : files'[b] = files[b]
         /\ \A q \in Requests :
              /\ temps'[q] = None <=> temps[q] = None
              /\ temps[q] # None =>
                   /\ temps'[q].dir = Renamed(temps[q].dir, old, new)
                   /\ temps'[q].data = temps[q].data
         /\ \A q \in Requests :
              /\ sweeps'[q] = None <=> sweeps[q] = None
              /\ sweeps[q] # None =>
                   /\ sweeps'[q].dir = Renamed(sweeps[q].dir, old, new)
                   /\ sweeps'[q].keys = sweeps[q].keys
                   /\ sweeps'[q].temps = sweeps[q].temps
<1>1. /\ old \in dirs /\ new \notin dirs /\ old # new
      /\ dirs' = (dirs \ {old}) \cup {new}
  BY DEF MoveDir
<1>2. /\ files'[new] = files[old] /\ files'[old] = NoFiles
      /\ \A b \in Buckets \ {old, new} : files'[b] = files[b]
  BY <1>1 DEF MoveDir, StoreTypeOK
<1>3. ASSUME NEW q \in Requests, temps[q] # None
      PROVE  /\ temps'[q] # None
             /\ temps'[q].dir = Renamed(temps[q].dir, old, new)
             /\ temps'[q].data = temps[q].data
  <2>1. temps'[q] = [temps[q] EXCEPT !.dir = Renamed(temps[q].dir, old, new)]
    BY <1>3 DEF MoveDir
  <2>2. temps[q] \in Temps
    BY <1>3 DEF StoreTypeOK
  <2>3. temps'[q] \in Temps
    BY <2>1, <2>2 DEF Temps, Renamed
  <2>4. QED
    BY <2>1, <2>2, <2>3, StoreSentinelAssumption DEF Temps
<1>4. ASSUME NEW q \in Requests, sweeps[q] # None
      PROVE  /\ sweeps'[q] # None
             /\ sweeps'[q].dir = Renamed(sweeps[q].dir, old, new)
             /\ sweeps'[q].keys = sweeps[q].keys
             /\ sweeps'[q].temps = sweeps[q].temps
  <2>1. sweeps'[q] = [sweeps[q] EXCEPT !.dir = Renamed(sweeps[q].dir, old, new)]
    BY <1>4 DEF MoveDir
  <2>2. sweeps[q] \in Sweeps /\ Renamed(sweeps[q].dir, old, new) \in Buckets \cup {None}
    BY <1>4, SweepEdits DEF Sweeps, Renamed
  <2>3. sweeps'[q] # None
    BY <1>4, <2>1, <2>2, SweepEdits
  <2>4. QED
    BY <2>1, <2>2, <2>3 DEF Sweeps
<1>5. QED
  BY <1>1, <1>2, <1>3, <1>4 DEF MoveDir

\* A removal that unlinks a file or a temporary file has one less to unlink.
LEMMA SweepOneEffect ==
  ASSUME StoreTypeOK, NEW r \in Requests, sweeps[r] # None,
         \/ \E k \in Keys : SweepFile(r, k)
         \/ \E q \in Requests : SweepTemp(r, q)
  PROVE  /\ dirs' = dirs
         /\ \A b \in Buckets, k \in Keys :
              \/ files'[b][k] = files[b][k]
              \/ b = sweeps[r].dir /\ files'[b][k] = None
         /\ \A q \in Requests : temps'[q] \in {temps[q], None}
         /\ \A k \in sweeps[r].keys \ sweeps'[r].keys :
              sweeps[r].dir # None => files'[sweeps[r].dir][k] = None
         /\ \A q \in sweeps[r].temps \ sweeps'[r].temps :
              sweeps[r].dir # None /\ temps'[q] # None => temps'[q].dir # sweeps[r].dir
         /\ sweeps'[r] # None /\ sweeps'[r].dir = sweeps[r].dir
         /\ \A q \in Requests \ {r} : sweeps'[q] = sweeps[q]
<1>1. /\ sweeps[r] \in Sweeps
      /\ sweeps[r].keys \subseteq Keys /\ sweeps[r].temps \subseteq Requests
      /\ sweeps[r].dir \in Buckets \cup {None} /\ None \notin Buckets
  BY SweepEdits, StoreSentinelAssumption DEF Sweeps
<1>2. ASSUME NEW k \in Keys, SweepFile(r, k)
      PROVE  /\ dirs' = dirs /\ temps' = temps
             /\ sweeps'[r] # None /\ sweeps'[r].dir = sweeps[r].dir
             /\ sweeps'[r].keys = sweeps[r].keys \ {k}
             /\ sweeps'[r].temps = sweeps[r].temps
             /\ \A q \in Requests \ {r} : sweeps'[q] = sweeps[q]
             /\ \A b \in Buckets, j \in Keys :
                  files'[b][j] = IF b = sweeps[r].dir /\ j = k THEN None ELSE files[b][j]
  <2>1. sweeps[r].keys \ {k} \in SUBSET Keys
    BY <1>1 DEF Sweeps
  <2>2. sweeps' = [sweeps EXCEPT ![r] = [sweeps[r] EXCEPT !.keys = sweeps[r].keys \ {k}]]
    BY <1>2 DEF SweepFile
  <2>3. [sweeps[r] EXCEPT !.keys = sweeps[r].keys \ {k}] # None
    BY <2>1, SweepEdits
  <2>4. sweeps'[r] = [sweeps[r] EXCEPT !.keys = sweeps[r].keys \ {k}]
    BY <2>2 DEF StoreTypeOK
  <2>5. /\ sweeps'[r] # None /\ sweeps'[r].dir = sweeps[r].dir
        /\ sweeps'[r].keys = sweeps[r].keys \ {k}
        /\ sweeps'[r].temps = sweeps[r].temps
    BY <1>1, <2>3, <2>4 DEF Sweeps
  <2>6. \A q \in Requests \ {r} : sweeps'[q] = sweeps[q]
    BY <2>2 DEF StoreTypeOK
  <2>7. \A b \in Buckets, j \in Keys :
          files'[b][j] = IF b = sweeps[r].dir /\ j = k THEN None ELSE files[b][j]
    BY <1>1, <1>2 DEF SweepFile, StoreTypeOK
  <2>8. QED
    BY <1>2, <2>5, <2>6, <2>7 DEF SweepFile
<1>3. ASSUME NEW t \in Requests, SweepTemp(r, t)
      PROVE  /\ dirs' = dirs /\ files' = files
             /\ sweeps'[r] # None /\ sweeps'[r].dir = sweeps[r].dir
             /\ sweeps'[r].keys = sweeps[r].keys
             /\ sweeps'[r].temps = sweeps[r].temps \ {t}
             /\ \A q \in Requests \ {r} : sweeps'[q] = sweeps[q]
             /\ \A q \in Requests :
                  temps'[q] = IF q = t /\ sweeps[r].dir # None /\ temps[q] # None
                                    /\ temps[q].dir = sweeps[r].dir
                              THEN None ELSE temps[q]
  <2>1. sweeps[r].temps \ {t} \in SUBSET Requests
    BY <1>1 DEF Sweeps
  <2>2. sweeps' = [sweeps EXCEPT ![r] = [sweeps[r] EXCEPT !.temps = sweeps[r].temps \ {t}]]
    BY <1>3 DEF SweepTemp
  <2>3. [sweeps[r] EXCEPT !.temps = sweeps[r].temps \ {t}] # None
    BY <2>1, SweepEdits
  <2>4. sweeps'[r] = [sweeps[r] EXCEPT !.temps = sweeps[r].temps \ {t}]
    BY <2>2 DEF StoreTypeOK
  <2>5. /\ sweeps'[r] # None /\ sweeps'[r].dir = sweeps[r].dir
        /\ sweeps'[r].keys = sweeps[r].keys
        /\ sweeps'[r].temps = sweeps[r].temps \ {t}
    BY <1>1, <2>3, <2>4 DEF Sweeps
  <2>6. \A q \in Requests \ {r} : sweeps'[q] = sweeps[q]
    BY <2>2 DEF StoreTypeOK
  <2>7. \A q \in Requests :
          temps'[q] = IF q = t /\ sweeps[r].dir # None /\ temps[q] # None
                            /\ temps[q].dir = sweeps[r].dir
                      THEN None ELSE temps[q]
    BY <1>3 DEF SweepTemp, TempInPlace, TempsIn, StoreTypeOK
  <2>8. QED
    BY <1>3, <2>5, <2>6, <2>7 DEF SweepTemp
<1>4. CASE \E k \in Keys : SweepFile(r, k)
  <2>1. PICK k \in Keys : SweepFile(r, k)
    BY <1>4
  <2>2. /\ dirs' = dirs /\ temps' = temps
        /\ sweeps'[r] # None /\ sweeps'[r].dir = sweeps[r].dir
        /\ sweeps'[r].keys = sweeps[r].keys \ {k}
        /\ sweeps'[r].temps = sweeps[r].temps
        /\ \A q \in Requests \ {r} : sweeps'[q] = sweeps[q]
        /\ \A b \in Buckets, j \in Keys :
             files'[b][j] = IF b = sweeps[r].dir /\ j = k THEN None ELSE files[b][j]
    BY <1>2, <2>1
  <2>3. QED
    BY <1>1, <2>2
<1>5. CASE \E q \in Requests : SweepTemp(r, q)
  <2>1. PICK t \in Requests : SweepTemp(r, t)
    BY <1>5
  <2>2. /\ dirs' = dirs /\ files' = files
        /\ sweeps'[r] # None /\ sweeps'[r].dir = sweeps[r].dir
        /\ sweeps'[r].keys = sweeps[r].keys
        /\ sweeps'[r].temps = sweeps[r].temps \ {t}
        /\ \A q \in Requests \ {r} : sweeps'[q] = sweeps[q]
        /\ \A q \in Requests :
             temps'[q] = IF q = t /\ sweeps[r].dir # None /\ temps[q] # None
                               /\ temps[q].dir = sweeps[r].dir
                         THEN None ELSE temps[q]
    BY <1>3, <2>1
  <2>3. QED
    BY <1>1, <2>2
<1>6. QED
  BY <1>4, <1>5

\* A removal that ends leaves the directory, or takes it away; another removal
\* of the same directory then holds one without a name.
LEMMA EndSweepEffect ==
  ASSUME StoreTypeOK, NEW r \in Requests, NEW b \in Buckets,
         RemoveDir(r, b) \/ RemoveDirFails(r, b)
  PROVE  /\ UNCHANGED <<files, temps>>
         /\ dirs' \subseteq dirs /\ dirs \subseteq dirs' \cup {b}
         /\ b \notin dirs' \/ ~(FilesIn(b) = {} /\ TempsIn(b) = {})
         /\ dirs' # dirs => FilesIn(b) = {} /\ TempsIn(b) = {}
         /\ sweeps'[r] = None
         /\ \A q \in Requests \ {r} :
              /\ sweeps'[q] = None <=> sweeps[q] = None
              /\ sweeps[q] # None =>
                   /\ \/ sweeps'[q].dir = sweeps[q].dir
                      \/ sweeps'[q].dir = None /\ sweeps[q].dir = b
                   /\ sweeps'[q].keys = sweeps[q].keys
                   /\ sweeps'[q].temps = sweeps[q].temps
<1>1. CASE RemoveDir(r, b)
  <2>1. ASSUME NEW q \in Requests \ {r}, sweeps[q] # None
        PROVE  /\ sweeps'[q] # None
               /\ \/ sweeps'[q].dir = sweeps[q].dir
                  \/ sweeps'[q].dir = None /\ sweeps[q].dir = b
               /\ sweeps'[q].keys = sweeps[q].keys
               /\ sweeps'[q].temps = sweeps[q].temps
    <3> DEFINE d == IF sweeps[q].dir = b THEN None ELSE sweeps[q].dir
    <3>1. sweeps'[q] = [sweeps[q] EXCEPT !.dir = d]
      BY <1>1, <2>1 DEF RemoveDir
    <3>2. sweeps[q] \in Sweeps /\ d \in Buckets \cup {None}
      BY <2>1, SweepEdits DEF Sweeps
    <3>3. sweeps'[q] # None
      BY <2>1, <3>1, <3>2, SweepEdits
    <3>4. QED
      BY <3>1, <3>2, <3>3 DEF Sweeps
  <2>2. sweeps'[r] = None /\ \A q \in Requests : sweeps[q] = None => sweeps'[q] = None
    BY <1>1 DEF RemoveDir
  <2>3. QED
    BY <1>1, <2>1, <2>2 DEF RemoveDir
<1>2. CASE RemoveDirFails(r, b)
  BY <1>2 DEF RemoveDirFails, StoreTypeOK
<1>3. QED
  BY <1>1, <1>2

(***************************************************************************)
(* The basic invariant: types, what a request holds on the disk, and that   *)
(* what is visible on the disk is whole and has a directory.                *)
(***************************************************************************)

\* A temporary file is in the hands of the put that made it, and holds the
\* whole body by the time it is published.
TempsInHand ==
    \A r \in Requests : temps[r] # None =>
        /\ req[r].pc \in {"copy", "publish"}
        /\ req[r].pc = "publish" => temps[r].data = req[r].body

\* A request removes a directory exactly while it is at that step.
SweepsInHand == \A r \in Requests : sweeps[r] # None <=> req[r].pc = "sweep"

\* A file or a temporary file is in a directory that exists.
FilesHaveDirs == \A b \in Buckets : FilesIn(b) # {} \/ TempsIn(b) # {} => b \in dirs

BasicInv ==
    /\ RepoInv
    /\ StoreTypeOK
    /\ suspect \subseteq Paths
    /\ RequestsFit
    /\ TempsInHand
    /\ SweepsInHand
    /\ WholeFiles
    /\ FilesHaveDirs

\* The invariant holds when the process first starts.
LEMMA BasicInit == ObjectInit => BasicInv
<1> SUFFICES ASSUME ObjectInit PROVE BasicInv
  OBVIOUS
<1> USE DEF ObjectInit, StoreInit, NoFiles
<1>1. RepoInv
  BY RepoInitInv
<1>2. StoreTypeOK /\ suspect \subseteq Paths
  BY DEF StoreTypeOK
<1>3. RequestsFit
  <2>1. NoRequest \in [pc : Ended] /\ NoRequest.pc \in Ended
    BY DEF NoRequest, Ended
  <2>2. QED
    BY <2>1 DEF RequestsFit
<1>4. TempsInHand /\ SweepsInHand
  BY DEF TempsInHand, SweepsInHand, NoRequest
<1>5. WholeFiles /\ FilesHaveDirs
  BY DEF WholeFiles, FilesHaveDirs, FilesIn, TempsIn, FileExists
<1>6. QED
  BY <1>1, <1>2, <1>3, <1>4, <1>5 DEF BasicInv

\* A request that stays keeps what it holds; r has nothing in its hands, before
\* or after the step.
LEMMA HandsFree ==
  ASSUME BasicInv, NEW r \in Requests, OthersStay(r), UNCHANGED <<temps, sweeps>>,
         temps[r] = None, req[r].pc # "sweep", req'[r].pc # "sweep"
  PROVE  TempsInHand' /\ SweepsInHand'
  BY DEF BasicInv, TempsInHand, SweepsInHand, OthersStay

\* A put makes its temporary file.
LEMMA BeginPutBasic ==
  ASSUME BasicInv, NEW r \in Requests, BeginPut(r)
  PROVE  BasicInv'
<1> USE DEF BasicInv
<1>1. req[r].pc = "begin" /\ req[r].pc \notin Ended /\ UNCHANGED <<repoVars, suspect>>
  BY DEF BeginPut, At, Ended, StoreStep
<1>2. /\ req[r].bucket \in Buckets /\ req[r].key \in Keys
      /\ req[r].op \in Puts /\ req[r].body \in Bodies /\ req[r].body \in Body
  BY <1>1, Carries, BodiesAssumption DEF Fits, Body
<1>3. temps[r] = None /\ sweeps[r] = None
  BY <1>1 DEF TempsInHand, SweepsInHand
<1>4. RepoInv'
  BY <1>1, RepoStutterInv
<1>5. StoreTypeOK'
  BY <1>2, WriteType DEF BeginPut
<1>6. CASE CreateTemp(r, req[r].bucket) /\ Goto(r, "copy")
  <2>1. RequestsFit' /\ OthersStay(r) /\ req'[r].pc = "copy"
    <3>1. Fits([req[r] EXCEPT !.pc = "copy"])
      BY <1>1, <1>2, Carries DEF Fits, Handling
    <3>2. QED
      BY <1>1, <1>6, <3>1, GotoFits DEF Pcs, Ended
  <2>2. /\ dirs' = dirs \cup {req[r].bucket} /\ files' = files
        /\ temps'[r] # None /\ temps'[r].dir = req[r].bucket
        /\ \A q \in Requests \ {r} : temps'[q] = temps[q]
        /\ \A q \in Requests : sweeps'[q] = None <=> sweeps[q] = None
    BY <1>2, <1>6, CreateTempEffect
  <2>3. TempsInHand' /\ SweepsInHand'
    BY <1>1, <1>3, <2>1, <2>2 DEF TempsInHand, SweepsInHand, OthersStay
  <2>4. WholeFiles' /\ FilesHaveDirs'
    BY <2>2 DEF WholeFiles, FilesHaveDirs, FilesIn, TempsIn, FileExists
  <2>5. QED
    BY <1>1, <1>4, <1>5, <2>1, <2>3, <2>4
<1>7. CASE CreateTempFails(req[r].bucket) /\ Fail(r)
  <2>1. RequestsFit' /\ OthersStay(r) /\ req'[r].pc \in Ended
    BY <1>7, EndFits
  <2>2. TempsInHand' /\ SweepsInHand'
    BY <1>1, <1>3, <1>7, <2>1, HandsFree DEF CreateTempFails, Ended
  <2>3. WholeFiles' /\ FilesHaveDirs'
    BY <1>7 DEF CreateTempFails, WholeFiles, FilesHaveDirs, FilesIn, TempsIn, FileExists
  <2>4. QED
    BY <1>1, <1>4, <1>5, <2>1, <2>2, <2>3
<1>8. QED
  BY <1>6, <1>7 DEF BeginPut

\* The body of a put arrives, or stops arriving.
LEMMA ReceiveBodyBasic ==
  ASSUME BasicInv, NEW r \in Requests, ReceiveBody(r)
  PROVE  BasicInv'
<1> USE DEF BasicInv
<1>1. req[r].pc = "copy" /\ req[r].pc \notin Ended /\ UNCHANGED <<repoVars, suspect>>
  BY DEF ReceiveBody, At, Ended, StoreStep
<1>2. /\ req[r].bucket \in Buckets /\ req[r].key \in Keys
      /\ req[r].op \in Puts /\ req[r].body \in Bodies /\ req[r].body \in Body
  BY <1>1, Carries, BodiesAssumption DEF Fits, Body
<1>3. sweeps[r] = None
  BY <1>1 DEF SweepsInHand
<1>4. RepoInv'
  BY <1>1, RepoStutterInv
<1>5. StoreTypeOK'
  BY <1>2, WriteType DEF ReceiveBody
<1>6. CASE CopyBody(r, req[r].body) /\ Goto(r, "publish")
  <2>1. RequestsFit' /\ OthersStay(r) /\ req'[r].pc = "publish" /\ req'[r].body = req[r].body
    <3>1. Fits([req[r] EXCEPT !.pc = "publish"])
      BY <1>1, <1>2, Carries DEF Fits, Handling
    <3>2. QED
      BY <1>1, <1>6, <3>1, GotoFits DEF Pcs, Ended
  <2>2. /\ UNCHANGED <<dirs, files, sweeps>>
        /\ temps'[r] = None <=> temps[r] = None
        /\ temps[r] # None => temps'[r].dir = temps[r].dir /\ temps'[r].data = req[r].body
        /\ \A q \in Requests \ {r} : temps'[q] = temps[q]
    BY <1>2, <1>6, CopyBodyEffect
  <2>3. TempsInHand' /\ SweepsInHand'
    BY <1>1, <1>3, <2>1, <2>2 DEF TempsInHand, SweepsInHand, OthersStay
  <2>4. WholeFiles' /\ FilesHaveDirs'
    BY <2>2 DEF WholeFiles, FilesHaveDirs, FilesIn, TempsIn, FileExists
  <2>5. QED
    BY <1>1, <1>4, <1>5, <2>1, <2>3, <2>4
<1>7. CASE RemoveTemp(r) /\ Fail(r)
  <2>1. RequestsFit' /\ OthersStay(r) /\ req'[r].pc \in Ended
    BY <1>7, EndFits
  <2>2. /\ temps'[r] = None /\ \A q \in Requests \ {r} : temps'[q] = temps[q]
        /\ UNCHANGED <<dirs, files, sweeps>>
    BY <1>7 DEF RemoveTemp, StoreTypeOK
  <2>3. TempsInHand' /\ SweepsInHand'
    BY <1>1, <1>3, <2>1, <2>2 DEF TempsInHand, SweepsInHand, OthersStay, Ended
  <2>4. WholeFiles' /\ FilesHaveDirs'
    BY <2>2 DEF WholeFiles, FilesHaveDirs, FilesIn, TempsIn, FileExists
  <2>5. QED
    BY <1>1, <1>4, <1>5, <2>1, <2>3, <2>4
<1>8. QED
  BY <1>6, <1>7 DEF ReceiveBody

\* A put renames its temporary file into place, or finds it gone.
LEMMA PublishPutBasic ==
  ASSUME BasicInv, NEW r \in Requests, PublishPut(r)
  PROVE  BasicInv'
<1> USE DEF BasicInv
<1>1. req[r].pc = "publish" /\ req[r].pc \notin Ended /\ UNCHANGED <<repoVars, suspect>>
  BY DEF PublishPut, At, Ended, StoreStep
<1>2. /\ req[r].bucket \in Buckets /\ req[r].key \in Keys
      /\ req[r].op \in Puts /\ req[r].body \in Bodies /\ req[r].body \in Body
  BY <1>1, Carries, BodiesAssumption DEF Fits, Body
<1>3. sweeps[r] = None
  BY <1>1 DEF SweepsInHand
<1>4. RepoInv'
  BY <1>1, RepoStutterInv
<1>5. StoreTypeOK'
  BY <1>2, WriteType DEF PublishPut
<1>6. /\ temps'[r] = None /\ \A q \in Requests \ {r} : temps'[q] = temps[q]
      /\ UNCHANGED <<dirs, sweeps>>
  BY DEF PublishPut, Publish, PublishFails, RemoveTemp, StoreTypeOK
<1>7. CASE Publish(r, req[r].bucket, req[r].key) /\ Goto(r, "upsert")
  <2>1. RequestsFit' /\ OthersStay(r) /\ req'[r].pc = "upsert"
    <3>1. Fits([req[r] EXCEPT !.pc = "upsert"])
      BY <1>1, <1>2, Carries DEF Fits, Handling
    <3>2. QED
      BY <1>1, <1>7, <3>1, GotoFits DEF Pcs, Ended
  <2>2. TempsInHand' /\ SweepsInHand'
    BY <1>1, <1>3, <1>6, <2>1 DEF TempsInHand, SweepsInHand, OthersStay
  <2>3. temps[r] # None /\ temps[r].dir = req[r].bucket /\ temps[r].data \in Bodies
    BY <1>1, <1>2, <1>7 DEF Publish, TempInPlace, TempsIn, TempsInHand
  <2>4. \A b \in Buckets, k \in Keys :
          files'[b][k] = IF b = req[r].bucket /\ k = req[r].key THEN temps[r].data ELSE files[b][k]
    BY <1>2, <1>7 DEF Publish, StoreTypeOK
  <2>5. WholeFiles'
    BY <2>3, <2>4 DEF WholeFiles
  <2>6. req[r].bucket \in dirs
    BY <1>2, <2>3 DEF FilesHaveDirs, TempsIn
  <2>7. FilesHaveDirs'
    BY <1>6, <2>4, <2>6 DEF FilesHaveDirs, FilesIn, TempsIn, FileExists
  <2>8. QED
    BY <1>1, <1>4, <1>5, <2>1, <2>2, <2>5, <2>7
<1>8. CASE PublishFails(r, req[r].bucket) /\ Fail(r)
  <2>1. RequestsFit' /\ OthersStay(r) /\ req'[r].pc \in Ended
    BY <1>8, EndFits
  <2>2. TempsInHand' /\ SweepsInHand'
    BY <1>1, <1>3, <1>6, <2>1 DEF TempsInHand, SweepsInHand, OthersStay, Ended
  <2>3. files' = files
    BY <1>8 DEF PublishFails, RemoveTemp
  <2>4. WholeFiles' /\ FilesHaveDirs'
    BY <1>6, <2>3 DEF WholeFiles, FilesHaveDirs, FilesIn, TempsIn, FileExists
  <2>5. QED
    BY <1>1, <1>4, <1>5, <2>1, <2>2, <2>4
<1>9. QED
  BY <1>7, <1>8 DEF PublishPut

\* A delete unlinks its file, and goes on whatever becomes of that.
LEMMA UnlinkBasic ==
  ASSUME BasicInv, NEW r \in Requests, UnlinkObject(r)
  PROVE  BasicInv'
<1> USE DEF BasicInv
<1>1. req[r].pc = "unlink" /\ req[r].pc \notin Ended /\ UNCHANGED <<repoVars, suspect>>
  BY DEF UnlinkObject, At, Ended, StoreStep
<1>2. req[r].bucket \in Buckets /\ req[r].key \in Keys /\ req[r].op = "delete"
  BY <1>1, Carries DEF Fits
<1>3. RequestsFit' /\ OthersStay(r) /\ req'[r].pc = "forget"
  <2>1. Fits([req[r] EXCEPT !.pc = "forget"])
    BY <1>1, <1>2, Carries DEF Fits, Handling
  <2>2. QED
    BY <1>1, <2>1, GotoFits DEF UnlinkObject, Pcs, Ended
<1>4. RepoInv'
  BY <1>1, RepoStutterInv
<1>5. UnlinkFile(req[r].bucket, req[r].key) \/ UNCHANGED storeVars
  BY DEF UnlinkObject
<1>6. UNCHANGED <<dirs, temps, sweeps>>
  BY <1>5 DEF UnlinkFile, storeVars
<1>7. \A b \in Buckets, k \in Keys : files'[b][k] \in {files[b][k], None}
  BY <1>2, <1>5 DEF UnlinkFile, storeVars, StoreTypeOK
<1>8. StoreTypeOK'
  <2>1. CASE UnlinkFile(req[r].bucket, req[r].key)
    <3>1. <<>> \in Body
      BY DEF Body
    <3>2. QED
      BY <1>2, <2>1, <3>1, WriteType
  <2>2. CASE UNCHANGED storeVars
    BY <2>2 DEF storeVars, StoreTypeOK
  <2>3. QED
    BY <1>5, <2>1, <2>2
<1>9. TempsInHand' /\ SweepsInHand'
  BY <1>1, <1>3, <1>6, HandsFree DEF TempsInHand
<1>10. WholeFiles' /\ FilesHaveDirs'
  BY <1>6, <1>7 DEF WholeFiles, FilesHaveDirs, FilesIn, TempsIn, FileExists
<1>11. QED
  BY <1>1, <1>3, <1>4, <1>8, <1>9, <1>10

\* A rename moves the directory.
LEMMA MoveDirBasic ==
  ASSUME BasicInv, NEW r \in Requests, MoveBucketDir(r)
  PROVE  BasicInv'
<1> USE DEF BasicInv
<1> DEFINE old == req[r].bucket
           new == req[r].to
<1>1. req[r].pc = "moveDir" /\ req[r].pc \notin Ended /\ UNCHANGED <<repoVars, suspect>>
  BY DEF MoveBucketDir, At, Ended, StoreStep
<1>2. old \in Buckets /\ new \in Buckets /\ req[r].op = "rename" /\ old # new
  BY <1>1, Carries DEF Fits
<1>3. temps[r] = None /\ sweeps[r] = None
  BY <1>1 DEF TempsInHand, SweepsInHand
<1>4. RepoInv'
  BY <1>1, RepoStutterInv
<1>5. RequestsFit' /\ OthersStay(r) /\ req'[r].pc \in Ended \cup {"updateBucket"}
  <2>1. CASE Goto(r, "updateBucket")
    <3>1. Fits([req[r] EXCEPT !.pc = "updateBucket"])
      BY <1>1, <1>2, Carries DEF Fits, Handling
    <3>2. QED
      BY <1>1, <2>1, <3>1, GotoFits DEF Pcs, Ended
  <2>2. CASE Fail(r)
    BY <2>2, EndFits
  <2>3. QED
    BY <2>1, <2>2 DEF MoveBucketDir
<1>6. CASE MoveDir(old, new)
  <2>1. StoreTypeOK'
    BY <1>2, <1>6, MoveType
  <2>2. /\ old \in dirs /\ new \notin dirs /\ old # new
        /\ dirs' = (dirs \ {old}) \cup {new}
        /\ files'[new] = files[old] /\ files'[old] = NoFiles
        /\ \A b \in Buckets \ {old, new} : files'[b] = files[b]
        /\ \A q \in Requests :
             /\ temps'[q] = None <=> temps[q] = None
             /\ temps[q] # None =>
                  /\ temps'[q].dir = Renamed(temps[q].dir, old, new)
                  /\ temps'[q].data = temps[q].data
        /\ \A q \in Requests : sweeps'[q] = None <=> sweeps[q] = None
    BY <1>2, <1>6, MoveDirEffect
  <2>3. TempsInHand' /\ SweepsInHand'
    BY <1>1, <1>3, <1>5, <2>2 DEF TempsInHand, SweepsInHand, OthersStay, Ended
  <2>4. WholeFiles'
    BY <2>2, <1>2 DEF WholeFiles, NoFiles
  <2>5. FilesHaveDirs'
    <3> SUFFICES ASSUME NEW b \in Buckets, FilesIn(b)' # {} \/ TempsIn(b)' # {}
                 PROVE  b \in dirs'
      BY DEF FilesHaveDirs
    <3>1. CASE FilesIn(b)' # {}
      <4>1. PICK k \in Keys : files'[b][k] # None
        BY <3>1 DEF FilesIn, FileExists
      <4>2. QED
        BY <1>2, <2>2, <4>1 DEF FilesHaveDirs, FilesIn, FileExists, NoFiles
    <3>2. CASE TempsIn(b)' # {}
      <4>1. PICK q \in Requests : temps'[q] # None /\ temps'[q].dir = b
        BY <3>2 DEF TempsIn
      <4>2. temps[q] # None /\ temps[q].dir \in Buckets
        BY <2>2, <4>1 DEF StoreTypeOK, Temps
      <4>3. temps[q].dir \in dirs
        BY <4>2 DEF FilesHaveDirs, TempsIn
      <4>4. QED
        BY <2>2, <4>1, <4>2, <4>3 DEF Renamed
    <3>3. QED
      BY <3>1, <3>2
  <2>6. QED
    BY <1>1, <1>4, <1>5, <2>1, <2>3, <2>4, <2>5
<1>7. CASE UNCHANGED storeVars
  <2>1. StoreTypeOK' /\ WholeFiles' /\ FilesHaveDirs'
    BY <1>7 DEF storeVars, StoreTypeOK, WholeFiles, FilesHaveDirs, FilesIn, TempsIn, FileExists
  <2>2. TempsInHand' /\ SweepsInHand'
    BY <1>1, <1>3, <1>5, <1>7, HandsFree DEF storeVars, Ended
  <2>3. QED
    BY <1>1, <1>4, <1>5, <2>1, <2>2
<1>8. QED
  BY <1>6, <1>7 DEF MoveBucketDir, MoveDirNoop, MoveDirFails

\* A removal goes on to the metadata or ends.
LEMMA AfterSweepFits ==
  ASSUME RequestsFit, NEW r \in Requests, req[r].pc \in {"scan", "sweep"}, AfterSweep(r)
  PROVE  /\ RequestsFit' /\ OthersStay(r)
         /\ \/ req'[r].pc = "ok"
            \/ req'[r].pc = "dropAll" /\ SameArgs(r) /\ req[r].op = "forceDelete"
<1>1. req[r].pc \notin Ended /\ req[r] \in Handling
  BY Carries DEF Ended
<1>2. CASE req[r].op = "forceDelete" /\ Goto(r, "dropAll")
  <2>1. Fits([req[r] EXCEPT !.pc = "dropAll"])
    BY <1>1, <1>2 DEF Fits, Handling
  <2>2. QED
    BY <1>1, <1>2, <2>1, GotoFits DEF Pcs, Ended
<1>3. CASE Finish(r, "ok")
  <2>1. RequestsFit' /\ OthersStay(r)
    BY <1>3, EndFits
  <2>2. req'[r].pc = "ok"
    BY <1>3 DEF Finish, RequestsFit
  <2>3. QED
    BY <2>1, <2>2
<1>4. QED
  BY <1>2, <1>3 DEF AfterSweep

\* A removal reads its directory, or finds none.
LEMMA ScanBasic ==
  ASSUME BasicInv, NEW r \in Requests, ScanBucketDir(r)
  PROVE  BasicInv'
<1> USE DEF BasicInv
<1>1. req[r].pc = "scan" /\ req[r].pc \notin Ended /\ UNCHANGED <<repoVars, suspect>>
  BY DEF ScanBucketDir, At, Ended, StoreStep
<1>2. req[r].bucket \in Buckets /\ req[r].op \in Removes
  BY <1>1, Carries DEF Fits
<1>3. temps[r] = None /\ sweeps[r] = None
  BY <1>1 DEF TempsInHand, SweepsInHand
<1>4. RepoInv'
  BY <1>1, RepoStutterInv
<1>5. CASE StartSweep(r, req[r].bucket) /\ Goto(r, "sweep")
  <2>1. RequestsFit' /\ OthersStay(r) /\ req'[r].pc = "sweep"
    <3>1. Fits([req[r] EXCEPT !.pc = "sweep"])
      BY <1>1, <1>2, Carries DEF Fits, Handling
    <3>2. QED
      BY <1>1, <1>5, <3>1, GotoFits DEF Pcs, Ended
  <2>2. StoreTypeOK'
    BY <1>2, <1>5, SweepType
  <2>3. [dir |-> req[r].bucket, keys |-> FilesIn(req[r].bucket), temps |-> TempsIn(req[r].bucket)]
          \in Sweeps
    BY <1>2 DEF Sweeps, FilesIn, TempsIn
  <2>4. /\ sweeps'[r] # None
        /\ \A q \in Requests \ {r} : sweeps'[q] = sweeps[q]
        /\ UNCHANGED <<dirs, files, temps>>
    BY <1>5, <2>3, StoreSentinelAssumption DEF StartSweep, StoreTypeOK
  <2>5. TempsInHand' /\ SweepsInHand'
    BY <1>1, <1>3, <2>1, <2>4 DEF TempsInHand, SweepsInHand, OthersStay
  <2>6. WholeFiles' /\ FilesHaveDirs'
    BY <2>4 DEF WholeFiles, FilesHaveDirs, FilesIn, TempsIn, FileExists
  <2>7. QED
    BY <1>1, <1>4, <2>1, <2>2, <2>5, <2>6
<1>6. CASE SweepNoop(req[r].bucket) /\ AfterSweep(r)
  <2>1. RequestsFit' /\ OthersStay(r) /\ req'[r].pc \in {"ok", "dropAll"}
    BY <1>1, <1>6, AfterSweepFits
  <2>2. UNCHANGED storeVars
    BY <1>6 DEF SweepNoop
  <2>3. StoreTypeOK' /\ WholeFiles' /\ FilesHaveDirs'
    BY <2>2 DEF storeVars, StoreTypeOK, WholeFiles, FilesHaveDirs, FilesIn, TempsIn, FileExists
  <2>4. TempsInHand' /\ SweepsInHand'
    BY <1>1, <1>3, <2>1, <2>2, HandsFree DEF storeVars
  <2>5. QED
    BY <1>1, <1>4, <2>1, <2>3, <2>4
<1>7. QED
  BY <1>5, <1>6 DEF ScanBucketDir

\* A removal unlinks what it read, then removes the directory.
LEMMA SweepBasic ==
  ASSUME BasicInv, NEW r \in Requests, SweepBucketDir(r)
  PROVE  BasicInv'
<1> USE DEF BasicInv
<1>1. req[r].pc = "sweep" /\ req[r].pc \notin Ended /\ UNCHANGED <<repoVars, suspect>>
  BY DEF SweepBucketDir, At, Ended, StoreStep
<1>2. req[r].bucket \in Buckets /\ req[r].op \in Removes
  BY <1>1, Carries DEF Fits
<1>3. temps[r] = None /\ sweeps[r] # None
  BY <1>1 DEF TempsInHand, SweepsInHand
<1>4. RepoInv'
  BY <1>1, RepoStutterInv
<1>5. StoreTypeOK'
  BY <1>2, <1>3, SweepType DEF SweepBucketDir
<1>6. CASE /\ (\E k \in Keys : SweepFile(r, k)) \/ (\E q \in Requests : SweepTemp(r, q))
           /\ UNCHANGED req
  <2>1. /\ dirs' = dirs
        /\ \A b \in Buckets, k \in Keys : files'[b][k] \in {files[b][k], None}
        /\ \A q \in Requests : temps'[q] \in {temps[q], None}
        /\ sweeps'[r] # None
        /\ \A q \in Requests \ {r} : sweeps'[q] = sweeps[q]
    BY <1>3, <1>6, SweepOneEffect
  <2>2. TempsInHand' /\ SweepsInHand'
    BY <1>3, <1>6, <2>1 DEF TempsInHand, SweepsInHand
  <2>3. WholeFiles' /\ FilesHaveDirs'
    BY <2>1 DEF WholeFiles, FilesHaveDirs, FilesIn, TempsIn, FileExists
  <2>4. QED
    BY <1>1, <1>4, <1>5, <1>6, <2>2, <2>3 DEF RequestsFit
<1>7. CASE /\ RemoveDir(r, req[r].bucket) \/ RemoveDirFails(r, req[r].bucket)
           /\ AfterSweep(r)
  <2>1. RequestsFit' /\ OthersStay(r) /\ req'[r].pc \in {"ok", "dropAll"}
    BY <1>1, <1>7, AfterSweepFits
  <2>2. /\ UNCHANGED <<files, temps>>
        /\ dirs' \subseteq dirs /\ dirs \subseteq dirs' \cup {req[r].bucket}
        /\ dirs' # dirs => FilesIn(req[r].bucket) = {} /\ TempsIn(req[r].bucket) = {}
        /\ sweeps'[r] = None
        /\ \A q \in Requests \ {r} : sweeps'[q] = None <=> sweeps[q] = None
    BY <1>2, <1>7, EndSweepEffect
  <2>3. TempsInHand' /\ SweepsInHand'
    BY <1>1, <1>3, <2>1, <2>2 DEF TempsInHand, SweepsInHand, OthersStay
  <2>4. WholeFiles'
    BY <2>2 DEF WholeFiles
  <2>5. FilesHaveDirs'
    <3> SUFFICES ASSUME NEW b \in Buckets, FilesIn(b) # {} \/ TempsIn(b) # {}
                 PROVE  b \in dirs'
      BY <2>2 DEF FilesHaveDirs, FilesIn, TempsIn, FileExists
    <3>1. b \in dirs
      BY DEF FilesHaveDirs
    <3>2. QED
      BY <2>2, <3>1
  <2>6. QED
    BY <1>1, <1>4, <1>5, <2>1, <2>3, <2>4, <2>5
<1>8. QED
  BY <1>6, <1>7 DEF SweepBucketDir

\* What a request touches are paths of objects.
LEMMA TouchedPaths ==
  ASSUME RequestsFit, NEW r \in Requests, req[r].pc \notin Ended
  PROVE  TouchedBy(r) \subseteq Paths
  BY Carries DEF TouchedBy, Touches, Path, Paths

\* A step of r that leaves the disk alone, while r has nothing in its hands.
LEMMA OffDiskBasic ==
  ASSUME BasicInv, RepoInv', RequestsFit', suspect' \subseteq Paths, UNCHANGED storeVars,
         NEW r \in Requests, OthersStay(r),
         req[r].pc \notin {"copy", "publish", "sweep"}, req'[r].pc # "sweep"
  PROVE  BasicInv'
<1> USE DEF BasicInv
<1>1. StoreTypeOK' /\ WholeFiles' /\ FilesHaveDirs'
  BY DEF storeVars, StoreTypeOK, WholeFiles, FilesHaveDirs, FilesIn, TempsIn, FileExists
<1>2. TempsInHand' /\ SweepsInHand'
  BY HandsFree DEF storeVars, TempsInHand
<1>3. QED
  BY <1>1, <1>2

\* The metadata of a put is written.
LEMMA UpsertPutBasic ==
  ASSUME BasicInv, NEW r \in Requests, UpsertPut(r)
  PROVE  BasicInv'
<1>1. req[r].pc = "upsert" /\ req[r].pc \notin Ended /\ UNCHANGED storeVars
  BY DEF UpsertPut, At, Ended, RepoStep
<1>2. RequestsFit /\ suspect \subseteq Paths
  BY DEF BasicInv
<1>3. req[r].bucket \in Buckets /\ req[r].key \in Keys /\ ETag(req[r].body) \in ETags
  BY <1>1, <1>2, Carries, ETagType DEF Fits
<1>4. RepoInv'
  <2>1. UpsertObject(req[r].bucket, req[r].key, ETag(req[r].body)) \/ UNCHANGED repoVars
    BY DEF UpsertPut, CallFails
  <2>2. QED
    BY <1>3, <2>1, UpsertObjectInv, RepoStutterInv DEF BasicInv
<1>5. Fail(r) \/ Finish(r, "ok")
  BY DEF UpsertPut, CallFails
<1>6. RequestsFit' /\ OthersStay(r) /\ req'[r].pc \in Ended
  BY <1>2, <1>5, EndFits
<1>7. suspect' \subseteq suspect \cup TouchedBy(r)
  BY DEF UpsertPut, CallFails, Heal
<1>8. QED
  BY <1>1, <1>2, <1>4, <1>6, <1>7, TouchedPaths, OffDiskBasic DEF Ended

\* The metadata of a deleted object is removed.
LEMMA ForgetBasic ==
  ASSUME BasicInv, NEW r \in Requests, ForgetObject(r)
  PROVE  BasicInv'
<1>1. req[r].pc = "forget" /\ req[r].pc \notin Ended /\ UNCHANGED storeVars
  BY DEF ForgetObject, At, Ended, RepoStep
<1>2. RequestsFit /\ suspect \subseteq Paths
  BY DEF BasicInv
<1>3. req[r].bucket \in Buckets /\ req[r].key \in Keys
  BY <1>1, <1>2, Carries
<1>4. RepoInv'
  <2>1. DeleteObject(req[r].bucket, req[r].key) \/ UNCHANGED repoVars
    BY DEF ForgetObject, CallFails
  <2>2. QED
    BY <1>3, <2>1, DeleteObjectInv, RepoStutterInv DEF BasicInv
<1>5. Fail(r) \/ Finish(r, "ok")
  BY DEF ForgetObject, CallFails
<1>6. RequestsFit' /\ OthersStay(r) /\ req'[r].pc \in Ended
  BY <1>2, <1>5, EndFits
<1>7. suspect' \subseteq suspect \cup TouchedBy(r)
  BY DEF ForgetObject, CallFails, Heal
<1>8. QED
  BY <1>1, <1>2, <1>4, <1>6, <1>7, TouchedPaths, OffDiskBasic DEF Ended

\* The metadata of a renamed bucket follows its directory, or is refused.
LEMMA UpdateBucketBasic ==
  ASSUME BasicInv, NEW r \in Requests, UpdateBucketMeta(r)
  PROVE  BasicInv'
<1>1. req[r].pc = "updateBucket" /\ req[r].pc \notin Ended /\ UNCHANGED storeVars
  BY DEF UpdateBucketMeta, At, Ended, RepoStep
<1>2. RequestsFit /\ suspect \subseteq Paths
  BY DEF BasicInv
<1>3. req[r].bucket \in Buckets /\ req[r].to \in Buckets
  BY <1>1, <1>2, Carries
<1>4. RepoInv'
  <2>1. RenameBucketTo(req[r].bucket, req[r].to, Private) \/ UNCHANGED repoVars
    BY DEF UpdateBucketMeta
  <2>2. QED
    BY <1>3, <2>1, RenameBucketInv, RepoStutterInv, SentinelAssumption DEF BasicInv
<1>5. Fail(r) \/ Finish(r, "ok")
  BY DEF UpdateBucketMeta
<1>6. RequestsFit' /\ OthersStay(r) /\ req'[r].pc \in Ended
  BY <1>2, <1>5, EndFits
<1>7. suspect' \subseteq Paths
  <2>1. {Path(req[r].to, k) : k \in {j \in Keys : Path(req[r].bucket, j) \in suspect}} \subseteq Paths
    <3> DEFINE K == {j \in Keys : Path(req[r].bucket, j) \in suspect}
    <3>1. K \subseteq Keys
      OBVIOUS
    <3> HIDE DEF K
    <3>2. {Path(req[r].to, k) : k \in K} \subseteq Paths
      BY <1>3, <3>1 DEF Path, Paths
    <3>3. QED
      BY <3>2 DEF K
  <2>2. {req[r].bucket} \X Keys \subseteq Paths
    BY <1>3 DEF Paths
  <2>3. QED
    BY <1>2, <2>1, <2>2 DEF UpdateBucketMeta
<1>8. QED
  BY <1>1, <1>4, <1>6, <1>7, OffDiskBasic DEF Ended

\* The metadata of an empty bucket is removed.
LEMMA DropBucketBasic ==
  ASSUME BasicInv, NEW r \in Requests, DropBucketMeta(r)
  PROVE  BasicInv'
<1>1. req[r].pc = "dropBucket" /\ req[r].pc \notin Ended /\ UNCHANGED storeVars
  BY DEF DropBucketMeta, At, Ended, RepoStep
<1>2. RequestsFit /\ suspect \subseteq Paths
  BY DEF BasicInv
<1>3. req[r].bucket \in Buckets /\ req[r].op = "plainDelete"
  BY <1>1, <1>2, Carries DEF Fits
<1>4. RepoInv'
  <2>1. DeleteBucket(req[r].bucket) \/ UNCHANGED repoVars
    BY DEF DropBucketMeta, CallFails
  <2>2. QED
    BY <1>3, <2>1, DeleteBucketInv, RepoStutterInv DEF BasicInv
<1>5. RequestsFit' /\ OthersStay(r) /\ req'[r].pc \in Ended \cup {"scan"}
  <2>1. CASE Goto(r, "scan")
    <3>1. Fits([req[r] EXCEPT !.pc = "scan"])
      BY <1>1, <1>2, <1>3, Carries DEF Fits, Handling, Removes
    <3>2. QED
      BY <1>1, <1>2, <2>1, <3>1, GotoFits DEF Pcs, Ended
  <2>2. CASE Fail(r)
    BY <1>2, <2>2, EndFits
  <2>3. QED
    BY <2>1, <2>2 DEF DropBucketMeta, CallFails
<1>6. suspect' \subseteq suspect \cup TouchedBy(r)
  BY DEF DropBucketMeta, CallFails
<1>7. QED
  BY <1>1, <1>2, <1>4, <1>5, <1>6, TouchedPaths, OffDiskBasic DEF Ended

\* The metadata of all that was in a bucket is removed.
LEMMA DropAllBasic ==
  ASSUME BasicInv, NEW r \in Requests, DropBucketAndObjects(r)
  PROVE  BasicInv'
<1>1. req[r].pc = "dropAll" /\ req[r].pc \notin Ended /\ UNCHANGED storeVars
  BY DEF DropBucketAndObjects, At, Ended, RepoStep
<1>2. RequestsFit /\ suspect \subseteq Paths
  BY DEF BasicInv
<1>3. req[r].bucket \in Buckets
  BY <1>1, <1>2, Carries
<1>4. RepoInv'
  <2>1. DeleteBucketRecursive(req[r].bucket) \/ UNCHANGED repoVars
    BY DEF DropBucketAndObjects, CallFails
  <2>2. QED
    BY <1>3, <2>1, DeleteBucketRecursiveInv, RepoStutterInv DEF BasicInv
<1>5. Fail(r) \/ Finish(r, "ok")
  BY DEF DropBucketAndObjects, CallFails
<1>6. RequestsFit' /\ OthersStay(r) /\ req'[r].pc \in Ended
  BY <1>2, <1>5, EndFits
<1>7. suspect' \subseteq suspect \cup TouchedBy(r)
  BY DEF DropBucketAndObjects, CallFails, Heal
<1>8. QED
  BY <1>1, <1>2, <1>4, <1>6, <1>7, TouchedPaths, OffDiskBasic DEF Ended

\* A read opens a file, goes on to the next path, or finds none.
LEMMA OpenBasic ==
  ASSUME BasicInv, NEW r \in Requests, OpenPhysical(r) \/ OpenObject(r)
  PROVE  BasicInv'
<1>1. /\ req[r].pc \in {"openPath", "open"} /\ req[r].pc \notin Ended
      /\ UNCHANGED <<repoVars, storeVars, suspect>>
  BY DEF OpenPhysical, OpenObject, At, Ended
<1>2. RequestsFit /\ StoreTypeOK /\ suspect \subseteq Paths
  BY DEF BasicInv
<1>3. /\ req[r] \in Handling /\ Fits(req[r])
      /\ req[r].entry \in Entries /\ req[r].bucket \in Buckets /\ req[r].key \in Keys
  BY <1>1, <1>2, Carries DEF Fits
<1>4. req[r].entry.path \in Paths /\ Path(req[r].bucket, req[r].key) \in Paths
  BY <1>3 DEF Entries, Path, Paths
<1>5. RepoInv'
  BY <1>1, RepoStutterInv DEF BasicInv
<1>6. RequestsFit' /\ OthersStay(r) /\ req'[r].pc # "sweep"
  <2>1. CASE OpenPhysical(r)
    <3>1. Fits([req[r] EXCEPT !.pc = "open"])
      BY <1>1, <1>3 DEF Fits, Handling
    <3>2. CASE FileExists(req[r].entry.path[1], req[r].entry.path[2])
      BY <1>1, <1>2, <1>4, <2>1, <3>2, AnswerFits DEF OpenPhysical
    <3>3. CASE ~FileExists(req[r].entry.path[1], req[r].entry.path[2])
      BY <1>1, <1>2, <2>1, <3>1, <3>3, GotoFits DEF OpenPhysical, Pcs, Ended
    <3>4. QED
      BY <3>2, <3>3
  <2>2. CASE OpenObject(r)
    <3> DEFINE path == Path(req[r].bucket, req[r].key)
    <3>1. path[1] = req[r].bucket /\ path[2] = req[r].key
      BY DEF Path
    <3>2. CASE FileExists(req[r].bucket, req[r].key)
      <4>1. Answer(r, path)
        BY <2>2, <3>2 DEF OpenObject
      <4> HIDE DEF path
      <4>2. QED
        BY <1>1, <1>2, <1>4, <3>1, <3>2, <4>1, AnswerFits DEF path
    <3>3. CASE ~FileExists(req[r].bucket, req[r].key)
      BY <1>2, <2>2, <3>3, EndFits DEF OpenObject, Ended
    <3>4. QED
      BY <3>2, <3>3
  <2>3. QED
    BY <2>1, <2>2
<1>7. QED
  BY <1>1, <1>2, <1>5, <1>6, OffDiskBasic

\* A request that another one overlaps at most loses its claim to be alone.
Overlapped(q, rivals) ==
    /\ req'[q].pc = req[q].pc
    /\ q \notin rivals => req'[q] = req[q]
    /\ q \in rivals => q \in Active /\ req'[q].solo = FALSE
    /\ req[q].pc \notin Ended =>
         /\ req'[q].op = req[q].op /\ req'[q].bucket = req[q].bucket
         /\ req'[q].key = req[q].key /\ req'[q].to = req[q].to
         /\ req'[q].body = req[q].body /\ req'[q].entry = req[q].entry
         /\ req'[q].solo => req[q].solo

\* A request arrives.
LEMMA ArriveFits ==
  ASSUME BasicInv, NEW r \in Requests, NEW op \in Ops, NEW b \in Buckets, NEW k \in Keys,
         NEW to \in Buckets, NEW body \in Bodies \cup {None},
         op \in Puts => body \in Bodies, op = "rename" => b # to,
         Arrive(r, op, b, k, to, body)
  PROVE  /\ RequestsFit'
         /\ req'[r].pc = FirstPc(op) /\ req'[r].pc \notin Finished
         /\ req'[r].pc \in {"begin", "unlink", "open", "openPath", "moveDir", "dropBucket", "scan"}
         /\ req'[r].op = op /\ req'[r].bucket = b /\ req'[r].key = k /\ req'[r].to = to
         /\ req'[r].solo <=> /\ Rivals(r, op, b, k, to) = {}
                             /\ op \in ObjectReads => Path(b, k) \notin suspect
         /\ op \in ObjectReads => req'[r].entry = objects[b][k] /\ ObjectExists(b, k)
         /\ \A q \in Requests \ {r} : Overlapped(q, Rivals(r, op, b, k, to))
<1> USE DEF BasicInv
<1> DEFINE rivals == Rivals(r, op, b, k, to)
           solo == rivals = {} /\ (op \in ObjectReads => Path(b, k) \notin suspect)
           entry == IF op \in ObjectReads THEN objects[b][k] ELSE None
           new == [pc |-> FirstPc(op), op |-> op, bucket |-> b, key |-> k, to |-> to,
                   body |-> body, from |-> None, solo |-> solo, entry |-> entry]
<1>1. req' = [q \in Requests |-> IF q = r THEN new
                ELSE IF q \in rivals THEN [req[q] EXCEPT !.solo = FALSE] ELSE req[q]]
  BY DEF Arrive
<1>2. \A q \in rivals : q \in Active /\ q \in Requests /\ q # r
  BY DEF Rivals, Active, Writing
<1>3. /\ FirstPc(op) \in Pcs \ Ended
      /\ FirstPc(op) \notin Finished
      /\ FirstPc(op) \in {"begin", "unlink", "open", "openPath", "moveDir", "dropBucket", "scan"}
      /\ FirstPc(op) = "begin" => op \in Puts
      /\ FirstPc(op) = "unlink" => op = "delete"
      /\ FirstPc(op) \in {"openPath", "open"} => op \in ObjectReads
      /\ FirstPc(op) = "moveDir" => op = "rename"
      /\ FirstPc(op) = "dropBucket" => op = "plainDelete"
      /\ FirstPc(op) = "scan" => op = "forceDelete"
  BY OpsAssumption DEF FirstPc, Pcs, Ended, Finished, Puts, ObjectWrites, ObjectReads, BucketWrites
<1>4. entry \in Entries \cup {None} /\ (op \in ObjectReads => entry \in Entries /\ ObjectExists(b, k))
  BY DEF Arrive, Admitted, ObjectExists, RepoInv, RepoTypeOK, ObjectReads
<1>5. body \in Body \cup {None}
  BY BodiesAssumption DEF Body
<1>6. solo \in BOOLEAN
  OBVIOUS
<1> HIDE DEF rivals, solo, entry
<1>7. new \in Handling
  BY <1>3, <1>4, <1>5, <1>6 DEF Handling
<1>8. Fits(new)
  BY <1>3, <1>4 DEF Fits, Puts, Removes
<1>9. req'[r] = new
  BY <1>1
<1>10. ASSUME NEW q \in Requests \ {r}, q \in rivals
       PROVE  /\ req'[q] \in Handling /\ Fits(req'[q]) /\ req'[q].pc = req[q].pc
              /\ req'[q].solo = FALSE
              /\ req'[q].op = req[q].op /\ req'[q].bucket = req[q].bucket
              /\ req'[q].key = req[q].key /\ req'[q].to = req[q].to
              /\ req'[q].body = req[q].body /\ req'[q].entry = req[q].entry
  <2>1. req[q] \in Handling /\ Fits(req[q])
    BY <1>2, <1>10, Carries DEF Active, Finished, Ended
  <2>2. req'[q] = [req[q] EXCEPT !.solo = FALSE]
    BY <1>1, <1>10
  <2>3. QED
    BY <2>1, <2>2 DEF Handling, Fits
<1>11. \A q \in Requests \ {r} : q \notin rivals => req'[q] = req[q]
  BY <1>1
<1>12. RequestsFit'
  <2>1. \A q \in Requests : req'[q] \in Handling \cup [pc : Ended]
    BY <1>7, <1>9, <1>10, <1>11 DEF RequestsFit
  <2>2. \A q \in Requests : req'[q].pc \notin Ended => Fits(req'[q])
    BY <1>8, <1>9, <1>10, <1>11 DEF RequestsFit
  <2>3. req' = [q \in Requests |-> req'[q]]
    BY <1>1
  <2>4. QED
    BY <2>1, <2>2, <2>3 DEF RequestsFit
<1>13. /\ new.pc = FirstPc(op) /\ new.op = op /\ new.bucket = b /\ new.key = k /\ new.to = to
       /\ new.solo = solo /\ new.entry = entry
  OBVIOUS
<1> HIDE DEF new
<1>14. /\ req'[r].pc = FirstPc(op) /\ req'[r].pc \notin Finished
       /\ req'[r].pc \in {"begin", "unlink", "open", "openPath", "moveDir", "dropBucket", "scan"}
       /\ req'[r].op = op /\ req'[r].bucket = b /\ req'[r].key = k /\ req'[r].to = to
       /\ req'[r].solo <=> /\ Rivals(r, op, b, k, to) = {}
                           /\ op \in ObjectReads => Path(b, k) \notin suspect
       /\ op \in ObjectReads => req'[r].entry = objects[b][k] /\ ObjectExists(b, k)
  BY <1>3, <1>4, <1>9, <1>13 DEF solo, entry, rivals
<1>15. \A q \in Requests \ {r} : Overlapped(q, rivals)
  BY <1>2, <1>10, <1>11 DEF Overlapped
<1>16. QED
  BY <1>12, <1>14, <1>15 DEF rivals

\* Whatever arrives has well-formed arguments.
LEMMA ArrivalArguments ==
  ASSUME NEW r \in Requests, Arrivals(r)
  PROVE  \E op \in Ops, b \in Buckets, k \in Keys, to \in Buckets, body \in Bodies \cup {None} :
            /\ op \in Puts => body \in Bodies
            /\ op = "rename" => b # to
            /\ Arrive(r, op, b, k, to, body)
<1>1. Some(Keys) \in Keys
  BY KeysAssumption DEF Some
<1>2. ASSUME NEW op \in Ops \cap {"put", "upload"}, NEW b \in Buckets, NEW k \in Keys,
             NEW body \in Bodies, Arrive(r, op, b, k, b, body)
      PROVE  \E op_1 \in Ops, b_1 \in Buckets, k_1 \in Keys, to \in Buckets, body_1 \in Bodies \cup {None} :
               /\ op_1 \in Puts => body_1 \in Bodies
               /\ op_1 = "rename" => b_1 # to
               /\ Arrive(r, op_1, b_1, k_1, to, body_1)
  <2>1. op # "rename" /\ op \in Ops
    OBVIOUS
  <2>2. QED
    BY <1>2, <2>1
<1>3. ASSUME NEW op \in Ops \cap ({"delete"} \cup ObjectReads), NEW b \in Buckets, NEW k \in Keys,
             Arrive(r, op, b, k, b, None)
      PROVE  \E op_1 \in Ops, b_1 \in Buckets, k_1 \in Keys, to \in Buckets, body_1 \in Bodies \cup {None} :
               /\ op_1 \in Puts => body_1 \in Bodies
               /\ op_1 = "rename" => b_1 # to
               /\ Arrive(r, op_1, b_1, k_1, to, body_1)
  <2>1. op # "rename" /\ op \notin Puts /\ op \in Ops
    BY DEF ObjectReads, Puts
  <2>2. QED
    BY <1>3, <2>1
<1>4. ASSUME NEW op \in Ops \cap {"plainDelete", "forceDelete"}, NEW b \in Buckets,
             Arrive(r, op, b, Some(Keys), b, None)
      PROVE  \E op_1 \in Ops, b_1 \in Buckets, k_1 \in Keys, to \in Buckets, body_1 \in Bodies \cup {None} :
               /\ op_1 \in Puts => body_1 \in Bodies
               /\ op_1 = "rename" => b_1 # to
               /\ Arrive(r, op_1, b_1, k_1, to, body_1)
  <2>1. op # "rename" /\ op \notin Puts /\ op \in Ops
    BY DEF Puts
  <2>2. QED
    BY <1>1, <1>4, <2>1
<1>5. ASSUME NEW op \in Ops \cap {"rename"}, NEW b \in Buckets, NEW new \in Buckets,
             b # new, Arrive(r, op, b, Some(Keys), new, None)
      PROVE  \E op_1 \in Ops, b_1 \in Buckets, k_1 \in Keys, to \in Buckets, body_1 \in Bodies \cup {None} :
               /\ op_1 \in Puts => body_1 \in Bodies
               /\ op_1 = "rename" => b_1 # to
               /\ Arrive(r, op_1, b_1, k_1, to, body_1)
  <2>1. op \notin Puts /\ op \in Ops
    BY DEF Puts
  <2>2. QED
    BY <1>1, <1>5, <2>1
<1>6. QED
  BY <1>2, <1>3, <1>4, <1>5 DEF Arrivals

\* An arrival keeps the basic invariant.
LEMMA ArrivalBasic ==
  ASSUME BasicInv, NEW r \in Requests, Arrivals(r)
  PROVE  BasicInv'
<1>1. PICK op \in Ops, b \in Buckets, k \in Keys, to \in Buckets, body \in Bodies \cup {None} :
         /\ op \in Puts => body \in Bodies
         /\ op = "rename" => b # to
         /\ Arrive(r, op, b, k, to, body)
  BY ArrivalArguments
<1>2. /\ RequestsFit'
      /\ req'[r].pc \in {"begin", "unlink", "open", "openPath", "moveDir", "dropBucket", "scan"}
      /\ \A q \in Requests \ {r} : Overlapped(q, Rivals(r, op, b, k, to))
  BY <1>1, ArriveFits
<1> USE DEF BasicInv
<1>3. UNCHANGED <<repoVars, storeVars>> /\ req[r].pc \in Finished
  BY <1>1 DEF Arrive
<1>4. RepoInv'
  BY <1>3, RepoStutterInv
<1>5. StoreTypeOK' /\ WholeFiles' /\ FilesHaveDirs'
  BY <1>3 DEF storeVars, StoreTypeOK, WholeFiles, FilesHaveDirs, FilesIn, TempsIn, FileExists
<1>6. temps[r] = None /\ sweeps[r] = None
  BY <1>3 DEF TempsInHand, SweepsInHand, Finished
<1>7. TempsInHand'
  <2> SUFFICES ASSUME NEW q \in Requests, temps'[q] # None
               PROVE  /\ req'[q].pc \in {"copy", "publish"}
                      /\ req'[q].pc = "publish" => temps'[q].data = req'[q].body
    BY DEF TempsInHand
  <2>1. temps'[q] = temps[q] /\ q # r
    BY <1>3, <1>6 DEF storeVars
  <2>2. QED
    BY <1>2, <2>1 DEF TempsInHand, Overlapped, Ended
<1>8. SweepsInHand'
  BY <1>2, <1>3, <1>6 DEF SweepsInHand, Overlapped, storeVars
<1>9. suspect' \subseteq Paths
  <2>1. Torn(Rivals(r, op, b, k, to), op, b, k, to) \subseteq Paths
    BY OpsAssumption DEF Torn, Touches, Path, Paths
  <2>2. QED
    BY <1>1, <2>1 DEF Arrive
<1>10. QED
  BY <1>2, <1>4, <1>5, <1>7, <1>8, <1>9

\* So does a bucket request that is one repository call.
LEMMA BucketRequestBasic ==
  ASSUME BasicInv, CreateBucketRequest \/ DeleteBucketRequest
  PROVE  BasicInv'
<1> USE DEF BasicInv
<1>1. RepoInv'
  BY BucketPolicyInv, DeleteBucketInv, SentinelAssumption DEF CreateBucketRequest, DeleteBucketRequest
<1>2. UNCHANGED <<storeVars, req, suspect>>
  BY DEF CreateBucketRequest, DeleteBucketRequest
<1>3. StoreTypeOK' /\ WholeFiles' /\ FilesHaveDirs'
  BY <1>2 DEF storeVars, StoreTypeOK, WholeFiles, FilesHaveDirs, FilesIn, TempsIn, FileExists
<1>4. RequestsFit' /\ TempsInHand' /\ SweepsInHand' /\ suspect' \subseteq Paths
  BY <1>2 DEF storeVars, RequestsFit, TempsInHand, SweepsInHand
<1>5. QED
  BY <1>1, <1>3, <1>4

\* So does a stop of the process.
LEMMA RestartBasic ==
  ASSUME BasicInv, Restart
  PROVE  BasicInv'
<1> USE DEF BasicInv
<1>1. /\ temps' = [r \in Requests |-> None] /\ sweeps' = [r \in Requests |-> None]
      /\ UNCHANGED <<dirs, files>> /\ req' = [r \in Requests |-> NoRequest]
  BY DEF Restart, LoseRequests
<1>2. RepoInv'
  <2>1. CASE UNCHANGED repoVars
    BY <2>1, RepoStutterInv
  <2>2. CASE ForgetAll
    BY <2>2 DEF ForgetAll, RepoInv, RepoTypeOK, ObjectsInBuckets, EntriesNameTheirBucket,
         PartsFollowUploads, NoObjects, ObjectExists, BucketExists, UploadExists
  <2>3. QED
    BY <2>1, <2>2 DEF Restart
<1>3. NoRequest \in [pc : Ended] /\ NoRequest.pc = "idle"
  BY DEF NoRequest, Ended
<1>4. RequestsFit'
  BY <1>1, <1>3 DEF RequestsFit, Ended
<1>5. TempsInHand' /\ SweepsInHand'
  BY <1>1, <1>3 DEF TempsInHand, SweepsInHand
<1>6. StoreTypeOK' /\ WholeFiles' /\ FilesHaveDirs'
  BY <1>1 DEF StoreTypeOK, WholeFiles, FilesHaveDirs, FilesIn, TempsIn, FileExists
<1>7. suspect' \subseteq Paths
  <2>1. UNION {TouchedBy(r) : r \in Halfway} \subseteq Paths
    <3> SUFFICES ASSUME NEW r \in Halfway PROVE TouchedBy(r) \subseteq Paths
      OBVIOUS
    <3>1. r \in Requests /\ req[r].pc \notin Ended
      BY DEF Halfway, Writing, Active, Finished, Ended
    <3>2. QED
      BY <3>1, TouchedPaths
  <2>2. QED
    BY <2>1 DEF Restart
<1>8. QED
  BY <1>2, <1>4, <1>5, <1>6, <1>7

\* Every step keeps the basic invariant.
LEMMA BasicStep == BasicInv /\ [ObjectNext]_objectVars => BasicInv'
<1> SUFFICES ASSUME BasicInv, [ObjectNext]_objectVars PROVE BasicInv'
  OBVIOUS
<1>1. ASSUME NEW r \in Requests, Arrivals(r) PROVE BasicInv'
  BY <1>1, ArrivalBasic
<1>2. ASSUME NEW r \in Requests, ReceiveBody(r) PROVE BasicInv'
  BY <1>2, ReceiveBodyBasic
<1>3. ASSUME NEW r \in Requests, ServerStep(r) PROVE BasicInv'
  BY <1>3, BeginPutBasic, PublishPutBasic, UpsertPutBasic, OpenBasic, UnlinkBasic, ForgetBasic,
     MoveDirBasic, UpdateBucketBasic, DropBucketBasic, ScanBasic, SweepBasic, DropAllBasic
     DEF ServerStep
<1>4. CASE CreateBucketRequest \/ DeleteBucketRequest
  BY <1>4, BucketRequestBasic
<1>5. CASE Restart
  BY <1>5, RestartBasic
<1>6. CASE UNCHANGED objectVars
  <2>1. UNCHANGED <<repoVars, storeVars, req, suspect>>
    BY <1>6 DEF objectVars
  <2>2. RepoInv'
    BY <2>1, RepoStutterInv DEF BasicInv
  <2>3. QED
    BY <2>1, <2>2 DEF BasicInv, storeVars, StoreTypeOK, RequestsFit, TempsInHand, SweepsInHand,
       WholeFiles, FilesHaveDirs, FilesIn, TempsIn, FileExists
<1>7. QED
  BY <1>1, <1>2, <1>3, <1>4, <1>5, <1>6 DEF ObjectNext

\* The basic invariant holds of every behaviour of the service.
THEOREM BasicInvariant == ObjectSpec => []BasicInv
<1>1. ObjectInit => BasicInv
  BY BasicInit
<1>2. BasicInv /\ [ObjectNext]_objectVars => BasicInv'
  BY BasicStep
<1>3. QED
  BY <1>1, <1>2, PTL DEF ObjectSpec

\* Type correctness: every request in flight carries well-formed arguments and
\* results, and the tables and the disk hold what they should.
THEOREM ObjectTypeCorrect == ObjectSpec => []ObjectTypeOK
<1>1. BasicInv => ObjectTypeOK
  <2> SUFFICES ASSUME BasicInv PROVE ObjectTypeOK
    OBVIOUS
  <2>1. Handling \subseteq Request
    BY DEF Handling, Request
  <2>2. [pc : Ended] \subseteq [pc : Finished]
    BY DEF Ended, Finished
  <2>3. req \in [Requests -> Request \cup [pc : Finished]]
    BY <2>1, <2>2 DEF BasicInv, RequestsFit
  <2>4. QED
    BY <2>3 DEF BasicInv, RepoInv, ObjectTypeOK
<1>2. QED
  BY <1>1, BasicInvariant, PTL

\* A reader of the disk never meets half an upload.
THEOREM FilesAlwaysWhole == ObjectSpec => []WholeFiles
<1>1. BasicInv => WholeFiles
  BY DEF BasicInv
<1>2. QED
  BY <1>1, BasicInvariant, PTL

(***************************************************************************)
(* The invariant about objects that no overlap has torn.                    *)
(*                                                                         *)
(* Settled is not inductive: it says nothing while a write is between its   *)
(* two stores, and it needs to know that no other write is about.  The      *)
(* parts below say who may touch a path at the same time, what each handler *)
(* has done by each of its steps, and what that leaves in the two stores.   *)
(***************************************************************************)

\* The paths a request is about, whatever it holds open.
Native(r, b, k) ==
    \/ req[r].op \in ObjectWrites \cup ObjectReads /\ b = req[r].bucket /\ k = req[r].key
    \/ req[r].op = "rename" /\ b \in {req[r].bucket, req[r].to}
    \/ req[r].op \in Removes /\ b = req[r].bucket

\* The directory a removal holds open is that of b by now.
Holding(r, b) == sweeps[r] # None /\ sweeps[r].dir = b

Touching(r, b, k) == Native(r, b, k) \/ Holding(r, b)

Clean(b, k) == Path(b, k) \notin suspect

\* A request that is alone shares no path with a write.
SoloAlone ==
    \A r \in Active, q \in Writing, b \in Buckets, k \in Keys :
        r # q /\ req[r].solo /\ Native(r, b, k) => ~Touching(q, b, k)

\* Two writes share a clean path only when one is a removal whose directory the
\* other, a rename, has just moved there; then the path it came from is suspect.
SharedSuspect ==
    \A r, q \in Writing, b \in Buckets, k \in Keys :
        r # q /\ Native(r, b, k) /\ Touching(q, b, k) /\ Clean(b, k) =>
            /\ ~Native(q, b, k)
            /\ req[r].pc = "updateBucket"
            /\ b = req[r].to
            /\ ~Clean(req[r].bucket, k)

\* The removals that find metadata gone or never there: of a directory that has
\* moved under them, and the plain one after its first step.
Emptied(r, b, k) ==
    \/ Holding(r, b) /\ ~Native(r, b, k)
    \/ req[r].op = "plainDelete" /\ req[r].pc \in {"scan", "sweep"} /\ Native(r, b, k)

EmptiedOK(r) ==
    \A b \in Buckets, k \in Keys :
        Emptied(r, b, k) /\ Clean(b, k) => ~ObjectExists(b, k)

\* A put has its file in place until it has written the metadata.
UpsertOK(r) ==
    req[r].pc = "upsert" /\ (req[r].solo \/ Clean(req[r].bucket, req[r].key)) =>
        files[req[r].bucket][req[r].key] = req[r].body

\* A rename has every file of the old bucket's objects in the new directory.
MovedOK(r) ==
    req[r].pc = "updateBucket" =>
        \A k \in Keys :
            Clean(req[r].bucket, k) /\ Clean(req[r].to, k) /\ ObjectExists(req[r].bucket, k) =>
                /\ FileExists(req[r].to, k)
                /\ ETag(files[req[r].to][k]) = objects[req[r].bucket][k].etag

\* A read that is alone holds metadata that is still current.
ReadOK(r) ==
    req[r].op \in ObjectReads /\ req[r].solo =>
        /\ Clean(req[r].bucket, req[r].key)
        /\ objects[req[r].bucket][req[r].key] = req[r].entry

RequestOK(r) == EmptiedOK(r) /\ UpsertOK(r) /\ MovedOK(r) /\ ReadOK(r)

\* The steps at which a write has changed one store and not yet the other.
Between(r, b, k) ==
    /\ Native(r, b, k)
    /\ \/ req[r].pc \in {"upsert", "forget", "dropAll"}
       \/ req[r].pc = "updateBucket" /\ b = req[r].bucket
       \/ req[r].pc = "sweep" /\ req[r].op = "forceDelete"

PathOK(b, k) ==
    Clean(b, k) /\ ObjectExists(b, k) /\ (\A r \in Writing : ~Between(r, b, k)) => Matches(b, k)

CleanInv ==
    /\ SoloAlone
    /\ SharedSuspect
    /\ \A r \in Active : RequestOK(r)
    /\ \A b \in Buckets, k \in Keys : PathOK(b, k)

\* What an operation is about, as a set of paths and one by one.
LEMMA TouchesIs ==
  ASSUME NEW op \in Ops, NEW b0 \in Buckets, NEW k0 \in Keys, NEW to \in Buckets,
         NEW b \in Buckets, NEW k \in Keys
  PROVE  Path(b, k) \in Touches(op, b0, k0, to)
           <=> \/ op \in ObjectWrites \cup ObjectReads /\ b = b0 /\ k = k0
               \/ op = "rename" /\ b \in {b0, to}
               \/ op \in Removes /\ b = b0
<1>1. op \in ObjectWrites \cup ObjectReads \cup {"rename"} \cup Removes
  BY OpsAssumption DEF BucketWrites, Removes
<1>2. CASE op \in ObjectWrites \cup ObjectReads
  BY <1>2 DEF Touches, Path, ObjectWrites, ObjectReads, Removes
<1>3. CASE op = "rename"
  BY <1>3 DEF Touches, Path, ObjectWrites, ObjectReads, Removes
<1>4. CASE op \in Removes
  BY <1>4 DEF Touches, Path, ObjectWrites, ObjectReads, Removes
<1>5. QED
  BY <1>1, <1>2, <1>3, <1>4

\* The same of a request in flight, with the directory it holds open.
LEMMA TouchingIs ==
  ASSUME RequestsFit, NEW r \in Requests, req[r].pc \notin Ended,
         NEW b \in Buckets, NEW k \in Keys
  PROVE  /\ Path(b, k) \in Touches(req[r].op, req[r].bucket, req[r].key, req[r].to)
              <=> Native(r, b, k)
         /\ Path(b, k) \in TouchedBy(r) <=> Touching(r, b, k)
<1>1. Path(b, k) \in Touches(req[r].op, req[r].bucket, req[r].key, req[r].to) <=> Native(r, b, k)
  BY Carries, TouchesIs DEF Native
<1>2. Path(b, k) \in {p \in Paths : sweeps[r] # None /\ sweeps[r].dir = p[1]} <=> Holding(r, b)
  BY DEF Path, Paths, Holding
<1>3. QED
  BY <1>1, <1>2 DEF TouchedBy, Touching

\* What a step of the handler of r may do to the two stores, to what is suspect
\* and to the requests; the other requests stay as they are.
StepBy(r) ==
    /\ r \in Active
    /\ OthersStay(r)
    /\ req'[r].pc \in Ended \/ (SameArgs(r) /\ req[r].pc # "updateBucket")
    /\ \A q \in Requests : sweeps'[q] # None =>
         \/ q = r /\ req[r].op \in Removes /\ sweeps'[q].dir = req[r].bucket
         \/ sweeps[q] # None /\ sweeps'[q].dir \in {None, sweeps[q].dir}
    /\ \A b \in Buckets, k \in Keys :
         /\ Clean(b, k)' /\ ~Clean(b, k) =>
              r \in Writing /\ req[r].solo /\ Native(r, b, k) /\ req'[r].pc \in Ended
         /\ Clean(b, k) /\ ~Clean(b, k)' => r \in Writing /\ Touching(r, b, k)
         /\ objects'[b][k] # objects[b][k] => r \in Writing /\ Native(r, b, k)
         /\ files'[b][k] # files[b][k] => r \in Writing /\ Touching(r, b, k)
    /\ req[r].pc = "updateBucket" =>
         \A k \in Keys :
            Path(req[r].to, k) \notin suspect' /\ objects'[req[r].to][k] # objects[req[r].to][k]
               => Clean(req[r].bucket, k)

\* After such a step nothing is touched that was not touched before.
LEMMA StepTouches ==
  ASSUME RequestsFit, NEW r \in Requests, StepBy(r), NEW q \in Requests, q \in Active'
  PROVE  /\ q \in Active
         /\ SameArgs(q) /\ (q # r => req'[q] = req[q])
         /\ q \in Writing' <=> q \in Writing
         /\ req[q].pc = "updateBucket" => q # r
         /\ \A b \in Buckets, k \in Keys :
              /\ Native(q, b, k)' <=> Native(q, b, k)
              /\ Touching(q, b, k)' => Touching(q, b, k)
<1>1. q \in Active /\ SameArgs(q) /\ (q # r => req'[q] = req[q])
  BY DEF StepBy, OthersStay, SameArgs, Active, Finished, Ended
<1>2. q \in Writing' <=> q \in Writing
  BY <1>1 DEF SameArgs, Writing
<1>3. ASSUME NEW b \in Buckets, NEW k \in Keys
      PROVE  /\ Native(q, b, k)' <=> Native(q, b, k)
             /\ Touching(q, b, k)' => Touching(q, b, k)
  <2>1. Native(q, b, k)' <=> Native(q, b, k)
    BY <1>1 DEF SameArgs, Native
  <2>2. Holding(q, b)' => Touching(q, b, k)
    <3>1. b # None
      BY StoreSentinelAssumption
    <3>2. QED
      BY <3>1 DEF StepBy, Holding, Touching, Native
  <2>3. QED
    BY <2>1, <2>2 DEF Touching
<1>4. req[q].pc = "updateBucket" => q # r
  BY DEF StepBy, Active, Finished, Ended
<1>5. QED
  BY <1>1, <1>2, <1>3, <1>4

\* A path that becomes clean in such a step is in no other writer's hands.
LEMMA StepHeals ==
  ASSUME CleanInv, NEW r \in Requests, StepBy(r), NEW q \in Writing, q # r,
         NEW b \in Buckets, NEW k \in Keys, Touching(q, b, k), Clean(b, k)'
  PROVE  Clean(b, k)
<1> SUFFICES ASSUME ~Clean(b, k) PROVE FALSE
  OBVIOUS
<1>1. r \in Active /\ req[r].solo /\ Native(r, b, k)
  BY DEF StepBy
<1>2. QED
  BY <1>1 DEF CleanInv, SoloAlone

\* The requests that do not move keep what they rely on.
LEMMA OthersClean ==
  ASSUME BasicInv, CleanInv, NEW r \in Requests, StepBy(r),
         NEW q \in Requests, q \in Active', q # r
  PROVE  RequestOK(q)'
<1>1. /\ q \in Active /\ SameArgs(q) /\ req'[q] = req[q]
      /\ \A b \in Buckets, k \in Keys :
           /\ Native(q, b, k)' <=> Native(q, b, k)
           /\ Touching(q, b, k)' => Touching(q, b, k)
  BY StepTouches DEF BasicInv
<1>2. req[q].pc \notin Ended
  BY <1>1 DEF Active, Finished, Ended
<1>3. PICK b0 \in Buckets, k0 \in Keys, t0 \in Buckets :
         b0 = req[q].bucket /\ k0 = req[q].key /\ t0 = req[q].to
  BY <1>2, Carries DEF BasicInv
<1>4. b0 = req[q].bucket /\ k0 = req[q].key /\ t0 = req[q].to /\ Fits(req[q])
  BY <1>2, <1>3, Carries DEF BasicInv
<1>5. SoloAlone /\ SharedSuspect /\ RequestOK(q) /\ r \in Active
  BY <1>1 DEF CleanInv, StepBy
<1>6. ASSUME NEW b \in Buckets, NEW k \in Keys, q \in Writing, Native(q, b, k), Clean(b, k)',
             req[q].pc # "updateBucket" \/ b # t0 \/ Clean(b0, k)'
      PROVE  Clean(b, k) /\ objects'[b][k] = objects[b][k] /\ files'[b][k] = files[b][k]
  <2>1. Clean(b, k)
    BY <1>6, StepHeals DEF Touching
  <2>2. req[q].pc = "updateBucket" => Native(q, b0, k)
    BY <1>4 DEF Fits, Native
  <2>3. req[q].pc = "updateBucket" /\ Clean(b0, k)' => Clean(b0, k)
    BY <1>4, <1>6, <2>2, StepHeals DEF Touching
  <2>4. ~(r \in Writing /\ Touching(r, b, k))
    BY <1>4, <1>5, <1>6, <2>1, <2>3 DEF SharedSuspect
  <2>5. QED
    BY <2>1, <2>4 DEF StepBy, Touching
<1>7. ASSUME NEW b \in Buckets, NEW k \in Keys, req[q].solo, Native(q, b, k)
      PROVE  /\ Clean(b, k) => Clean(b, k)'
             /\ objects'[b][k] = objects[b][k] /\ files'[b][k] = files[b][k]
  <2>1. ~(r \in Writing /\ Touching(r, b, k))
    BY <1>1, <1>5, <1>7 DEF SoloAlone
  <2>2. QED
    BY <2>1 DEF StepBy, Touching
<1>8. EmptiedOK(q)'
  <2> SUFFICES ASSUME NEW b \in Buckets, NEW k \in Keys, Emptied(q, b, k)', Clean(b, k)'
               PROVE  ~ObjectExists(b, k)'
    BY DEF EmptiedOK
  <2>1. Emptied(q, b, k) /\ Touching(q, b, k)
    <3>1. b # None
      BY StoreSentinelAssumption
    <3>2. Holding(q, b)' => Holding(q, b)
      BY <3>1 DEF StepBy, Holding
    <3>3. QED
      BY <1>1, <3>2 DEF Emptied, Touching
  <2>2. q \in Writing
    <3>1. req[q].op \in Removes
      BY <1>2, <1>4, <2>1 DEF Emptied, Holding, BasicInv, SweepsInHand, Fits, Removes
    <3>2. QED
      BY <1>1, <3>1 DEF Writing, Removes, ObjectReads
  <2>3. Clean(b, k)
    BY <2>1, <2>2, StepHeals
  <2>4. ~ObjectExists(b, k)
    BY <1>5, <2>1, <2>3 DEF RequestOK, EmptiedOK
  <2>5. CASE objects'[b][k] = objects[b][k]
    BY <2>4, <2>5 DEF ObjectExists
  <2>6. CASE objects'[b][k] # objects[b][k]
    <3>1. r \in Writing /\ Native(r, b, k)
      BY <2>6 DEF StepBy
    <3>2. req[r].pc = "updateBucket" /\ b = req[r].to /\ ~Clean(req[r].bucket, k)
      BY <1>5, <2>1, <2>2, <2>3, <3>1 DEF SharedSuspect
    <3>3. Path(req[r].to, k) \notin suspect'
      BY <3>2 DEF Clean
    <3>4. QED
      BY <2>6, <3>2, <3>3 DEF StepBy
  <2>7. QED
    BY <2>5, <2>6
<1>9. UpsertOK(q)'
  <2> SUFFICES ASSUME req[q].pc = "upsert", req[q].solo \/ Clean(b0, k0)'
               PROVE  files'[b0][k0] = req[q].body
    BY <1>1, <1>4 DEF UpsertOK, Clean
  <2>1. q \in Writing /\ Native(q, b0, k0)
    BY <1>1, <1>4 DEF Fits, Puts, Writing, ObjectReads, ObjectWrites, Native
  <2>2. CASE req[q].solo
    BY <1>4, <1>5, <1>7, <2>1, <2>2 DEF RequestOK, UpsertOK
  <2>3. CASE Clean(b0, k0)'
    BY <1>4, <1>5, <1>6, <2>1, <2>3 DEF RequestOK, UpsertOK
  <2>4. QED
    BY <2>2, <2>3
<1>10. MovedOK(q)'
  <2> SUFFICES ASSUME req[q].pc = "updateBucket", NEW k \in Keys,
                      Clean(b0, k)', Clean(t0, k)', ObjectExists(b0, k)'
               PROVE  FileExists(t0, k)' /\ ETag(files'[t0][k]) = objects'[b0][k].etag
    BY <1>1, <1>4 DEF MovedOK, Clean, ObjectExists, FileExists
  <2>1. q \in Writing /\ Native(q, b0, k) /\ Native(q, t0, k) /\ b0 # t0
    BY <1>1, <1>4 DEF Fits, Writing, ObjectReads, Native
  <2>2. Clean(b0, k) /\ objects'[b0][k] = objects[b0][k]
    BY <1>4, <1>6, <2>1
  <2>3. Clean(t0, k) /\ files'[t0][k] = files[t0][k]
    BY <1>4, <1>6, <2>1
  <2>4. QED
    BY <1>4, <1>5, <2>2, <2>3 DEF RequestOK, MovedOK, ObjectExists, FileExists
<1>11. ReadOK(q)'
  <2> SUFFICES ASSUME req[q].op \in ObjectReads, req[q].solo
               PROVE  Clean(b0, k0)' /\ objects'[b0][k0] = req[q].entry
    BY <1>1, <1>4 DEF ReadOK, Clean
  <2>1. Native(q, b0, k0)
    BY <1>4 DEF Native
  <2>2. QED
    BY <1>4, <1>5, <1>7, <2>1 DEF RequestOK, ReadOK
<1>12. QED
  BY <1>8, <1>9, <1>10, <1>11 DEF RequestOK

\* A step keeps the invariant when the request that takes it, and the paths
\* that one touches, are left in order.
LEMMA StepClean ==
  ASSUME BasicInv, CleanInv, NEW r \in Requests, StepBy(r),
         r \in Active' => RequestOK(r)',
         \A b \in Buckets, k \in Keys : Touching(r, b, k) => PathOK(b, k)'
  PROVE  CleanInv'
<1>1. ASSUME NEW q \in Requests, q \in Active'
      PROVE  /\ q \in Active /\ SameArgs(q) /\ (q # r => req'[q] = req[q])
             /\ q \in Writing' <=> q \in Writing
             /\ req[q].pc = "updateBucket" => q # r
             /\ \A b \in Buckets, k \in Keys :
                  /\ Native(q, b, k)' <=> Native(q, b, k)
                  /\ Touching(q, b, k)' => Touching(q, b, k)
  BY <1>1, StepTouches DEF BasicInv
<1>2. SoloAlone'
  <2> SUFFICES ASSUME NEW a \in Active', NEW q \in Writing', NEW b \in Buckets, NEW k \in Keys,
                      a # q, req'[a].solo, Native(a, b, k)', Touching(q, b, k)'
               PROVE  FALSE
    BY DEF SoloAlone
  <2>1. a \in Requests /\ q \in Requests /\ q \in Active'
    BY DEF Active, Writing
  <2>2. a \in Active /\ req[a].solo /\ Native(a, b, k)
    BY <1>1, <2>1 DEF SameArgs
  <2>3. q \in Writing /\ Touching(q, b, k)
    BY <1>1, <2>1
  <2>4. QED
    BY <2>2, <2>3 DEF CleanInv, SoloAlone
<1>3. SharedSuspect'
  <2> SUFFICES ASSUME NEW a \in Writing', NEW q \in Writing', NEW b \in Buckets, NEW k \in Keys,
                      a # q, Native(a, b, k)', Touching(q, b, k)', Clean(b, k)'
               PROVE  /\ ~Native(q, b, k)'
                      /\ req'[a].pc = "updateBucket"
                      /\ b = req'[a].to
                      /\ Path(req'[a].bucket, k) \in suspect'
    BY DEF SharedSuspect, Clean
  <2>1. a \in Requests /\ q \in Requests /\ a \in Active' /\ q \in Active'
    BY DEF Active, Writing
  <2>2. a \in Writing /\ Native(a, b, k) /\ q \in Writing /\ Touching(q, b, k)
    BY <1>1, <2>1
  <2>3. Clean(b, k)
    BY <2>1, <2>2, StepHeals DEF Touching
  <2>4. ~Native(q, b, k) /\ req[a].pc = "updateBucket" /\ b = req[a].to /\ ~Clean(req[a].bucket, k)
    BY <2>2, <2>3 DEF CleanInv, SharedSuspect
  <2>5. a # r /\ req'[a] = req[a]
    BY <1>1, <2>1, <2>4
  <2>6. PICK b0 \in Buckets : b0 = req[a].bucket /\ Native(a, b0, k)
    BY <2>1, <2>2, <2>4, Carries DEF Fits, Native, BasicInv, Ended
  <2>7. ~Clean(b0, k)'
    BY <2>2, <2>4, <2>5, <2>6, StepHeals DEF Touching
  <2>8. QED
    BY <1>1, <2>1, <2>4, <2>5, <2>6, <2>7 DEF Clean
<1>4. ASSUME NEW q \in Active' PROVE RequestOK(q)'
  BY OthersClean DEF Active
<1>5. ASSUME NEW b \in Buckets, NEW k \in Keys PROVE PathOK(b, k)'
  <2>1. CASE Touching(r, b, k)
    BY <2>1
  <2>2. CASE ~Touching(r, b, k)
    <3> SUFFICES ASSUME Clean(b, k)', ObjectExists(b, k)', \A q \in Writing' : ~Between(q, b, k)'
                 PROVE  Matches(b, k)'
      BY DEF PathOK
    <3>1. Clean(b, k) /\ objects'[b][k] = objects[b][k] /\ files'[b][k] = files[b][k]
      BY <2>2 DEF StepBy, Touching
    <3>2. ASSUME NEW q \in Writing PROVE ~Between(q, b, k)
      <4>1. CASE q = r
        BY <2>2, <4>1 DEF Between, Touching
      <4>2. CASE q # r
        <5>1. q \in Requests /\ req'[q] = req[q]
          BY <4>2 DEF StepBy, OthersStay, Writing, Active
        <5>2. q \in Writing'
          BY <5>1 DEF Writing, Active
        <5>3. QED
          BY <5>1, <5>2 DEF Between, Native
      <4>3. QED
        BY <4>1, <4>2
    <3>3. Matches(b, k)
      BY <3>1, <3>2 DEF CleanInv, PathOK, ObjectExists
    <3>4. QED
      BY <3>1, <3>3 DEF Matches, FileExists
  <2>3. QED
    BY <2>1, <2>2
<1>6. QED
  BY <1>2, <1>3, <1>4, <1>5 DEF CleanInv

(***************************************************************************)
(* The steps of the handlers, each with what it owes to the invariant.      *)
(***************************************************************************)

\* A removal that is under way stays with its directory, or loses it.
SweepsStay ==
    \A q \in Requests : sweeps'[q] # None =>
        sweeps[q] # None /\ sweeps'[q].dir \in {None, sweeps[q].dir}

\* A request at a step outside the four below relies on nothing but, as a read,
\* on the metadata it has found.
LEMMA EasyOwn ==
  ASSUME NEW r \in Requests, r \in Active, RequestOK(r), SameArgs(r), sweeps'[r] = None,
         req'[r].pc \notin {"upsert", "updateBucket", "scan", "sweep"},
         req[r].op \in ObjectReads =>
            UNCHANGED <<objects, suspect>> /\ req'[r].entry = req[r].entry
  PROVE  RequestOK(r)'
<1>1. EmptiedOK(r)'
  BY DEF EmptiedOK, Emptied, Holding
<1>2. UpsertOK(r)' /\ MovedOK(r)'
  BY DEF UpsertOK, MovedOK
<1>3. ReadOK(r)'
  BY DEF RequestOK, ReadOK, SameArgs, Clean
<1>4. QED
  BY <1>1, <1>2, <1>3 DEF RequestOK

\* A step that changes neither the files nor the metadata of objects.
LEMMA RestClean ==
  ASSUME BasicInv, CleanInv, NEW r \in Requests, r \in Active, OthersStay(r),
         UNCHANGED <<objects, files, suspect>>,
         req'[r].pc \in Ended \/ (SameArgs(r) /\ req[r].pc # "updateBucket"),
         \A q \in Requests : sweeps'[q] # None =>
           \/ q = r /\ req[r].op \in Removes /\ sweeps'[q].dir = req[r].bucket
           \/ sweeps[q] # None /\ sweeps'[q].dir \in {None, sweeps[q].dir},
         r \in Active' => RequestOK(r)',
         \A b \in Buckets, k \in Keys :
            Between(r, b, k) /\ ObjectExists(b, k) => r \in Active' /\ Between(r, b, k)'
  PROVE  CleanInv'
<1>1. StepBy(r)
  BY DEF StepBy, Clean
<1>2. ASSUME NEW b \in Buckets, NEW k \in Keys PROVE PathOK(b, k)'
  <2> SUFFICES ASSUME Clean(b, k)', ObjectExists(b, k)', \A q \in Writing' : ~Between(q, b, k)'
               PROVE  Matches(b, k)'
    BY DEF PathOK
  <2>1. Clean(b, k) /\ ObjectExists(b, k)
    BY DEF Clean, ObjectExists
  <2>2. ASSUME NEW q \in Writing, Between(q, b, k) PROVE FALSE
    <3>1. q \in Requests /\ q \in Active
      BY DEF Writing, Active
    <3>2. q \in Active' /\ Between(q, b, k)'
      BY <2>1, <2>2, <3>1 DEF OthersStay, Between, Native, Active
    <3>3. q \in Writing'
      BY <1>1, <3>1, <3>2, StepTouches DEF BasicInv
    <3>4. QED
      BY <3>2, <3>3
  <2>3. Matches(b, k)
    BY <2>1, <2>2 DEF CleanInv, PathOK
  <2>4. QED
    BY <2>3 DEF Matches, FileExists
<1>3. QED
  BY <1>1, <1>2, StepClean

\* A repository call that fails leaves all it may have torn suspect.
LEMMA CallFailsClean ==
  ASSUME BasicInv, CleanInv, NEW r \in Requests, r \in Writing, req[r].pc # "updateBucket",
         UNCHANGED storeVars, Fail(r), suspect' = suspect \cup TouchedBy(r),
         \A b \in Buckets, k \in Keys : objects'[b][k] # objects[b][k] => Native(r, b, k)
  PROVE  CleanInv'
<1>1. r \in Active /\ req[r].pc \notin Ended
  BY DEF Writing, Active, Finished, Ended
<1>2. OthersStay(r) /\ req'[r].pc \in Ended
  BY EndFits DEF BasicInv
<1>3. \A b \in Buckets, k \in Keys : ~Clean(b, k)' <=> ~Clean(b, k) \/ Touching(r, b, k)
  BY <1>1, TouchingIs DEF BasicInv, Clean
<1>4. StepBy(r)
  BY <1>1, <1>2, <1>3 DEF StepBy, storeVars
<1>5. r \notin Active'
  BY <1>2 DEF Active, Finished, Ended
<1>6. \A b \in Buckets, k \in Keys : Touching(r, b, k) => PathOK(b, k)'
  BY <1>3 DEF PathOK
<1>7. QED
  BY <1>4, <1>5, <1>6, StepClean

\* A put makes its temporary file, and its body arrives.
LEMMA PutTempClean ==
  ASSUME BasicInv, CleanInv, NEW r \in Requests, BeginPut(r) \/ ReceiveBody(r)
  PROVE  CleanInv'
<1>1. /\ req[r].pc \in {"begin", "copy"} /\ r \in Active /\ req[r].pc \notin Ended
      /\ UNCHANGED <<repoVars, suspect>> /\ req[r].op \in Puts
  BY DEF BeginPut, ReceiveBody, At, Active, Finished, Ended, StoreStep
<1>2. RequestsFit /\ RequestOK(r) /\ sweeps[r] = None
  BY <1>1 DEF BasicInv, CleanInv, SweepsInHand
<1>3. req[r].bucket \in Buckets /\ Fits(req[r]) /\ req[r].body \in Body
  BY <1>1, Carries, BodiesAssumption DEF BasicInv, Fits, Body
<1>4. objects' = objects
  BY <1>1 DEF repoVars
<1>5. files' = files /\ SweepsStay /\ sweeps'[r] = None
  <2>1. CASE CreateTemp(r, req[r].bucket)
    BY <1>2, <1>3, <2>1, CreateTempEffect DEF BasicInv, SweepsStay
  <2>2. CASE CreateTempFails(req[r].bucket) \/ CopyBody(r, req[r].body) \/ RemoveTemp(r)
    BY <1>2, <2>2 DEF CreateTempFails, CopyBody, RemoveTemp, SweepsStay
  <2>3. QED
    BY <2>1, <2>2 DEF BeginPut, ReceiveBody
<1>6. OthersStay(r) /\ (req'[r].pc \in Ended \/ (SameArgs(r) /\ req'[r].pc \in {"copy", "publish"}))
  <2>1. ASSUME NEW pc \in {"copy", "publish"}, Goto(r, pc)
        PROVE  OthersStay(r) /\ SameArgs(r) /\ req'[r].pc = pc
    <3>1. Fits([req[r] EXCEPT !.pc = pc])
      BY <1>1, <1>2, <1>3, Carries DEF Fits, Handling
    <3>2. QED
      BY <1>1, <1>2, <2>1, <3>1, GotoFits DEF Pcs, Ended
  <2>2. CASE Fail(r)
    BY <1>2, <2>2, EndFits
  <2>3. QED
    BY <2>1, <2>2 DEF BeginPut, ReceiveBody
<1>7. r \in Active' => RequestOK(r)'
  <2>1. req[r].op \notin ObjectReads
    BY <1>1 DEF Puts, ObjectReads
  <2>2. QED
    BY <1>1, <1>2, <1>5, <1>6, <2>1, EasyOwn DEF Active, Finished, Ended
<1>8. \A b \in Buckets, k \in Keys : ~Between(r, b, k)
  BY <1>1 DEF Between
<1>9. QED
  BY <1>1, <1>4, <1>5, <1>6, <1>7, <1>8, RestClean DEF SweepsStay

\* A put renames its temporary file into place, or finds it gone.
LEMMA PublishPutClean ==
  ASSUME BasicInv, CleanInv, NEW r \in Requests, PublishPut(r)
  PROVE  CleanInv'
<1>1. /\ req[r].pc = "publish" /\ r \in Active /\ req[r].pc \notin Ended
      /\ UNCHANGED <<repoVars, suspect>> /\ req[r].op \in Puts
  BY DEF PublishPut, At, Active, Finished, Ended, StoreStep
<1>2. RequestsFit /\ RequestOK(r) /\ sweeps[r] = None /\ objects' = objects
  BY <1>1 DEF BasicInv, CleanInv, SweepsInHand, repoVars
<1>3. PICK b0 \in Buckets, k0 \in Keys : b0 = req[r].bucket /\ k0 = req[r].key
  BY <1>1, Carries DEF BasicInv
<1>4. req[r].op \notin ObjectReads /\ r \in Writing /\ Native(r, b0, k0)
  BY <1>1, <1>3 DEF Puts, ObjectReads, ObjectWrites, Writing, Native
<1>5. sweeps' = sweeps
  BY DEF PublishPut, Publish, PublishFails, RemoveTemp
<1>6. CASE Publish(r, b0, k0) /\ Goto(r, "upsert")
  <2>1. OthersStay(r) /\ SameArgs(r) /\ req'[r].pc = "upsert" /\ req'[r].body = req[r].body
    <3>1. Fits([req[r] EXCEPT !.pc = "upsert"])
      BY <1>1, <1>2, Carries DEF Fits, Handling
    <3>2. QED
      BY <1>1, <1>2, <1>6, <3>1, GotoFits DEF Pcs, Ended
  <2>2. temps[r].data = req[r].body
    BY <1>1, <1>6 DEF Publish, TempInPlace, TempsIn, BasicInv, TempsInHand
  <2>3. \A b \in Buckets, k \in Keys :
          files'[b][k] = IF b = b0 /\ k = k0 THEN req[r].body ELSE files[b][k]
    BY <1>6, <2>2 DEF Publish, BasicInv, StoreTypeOK
  <2>4. StepBy(r)
    BY <1>1, <1>2, <1>4, <1>5, <2>1, <2>3 DEF StepBy, Clean, Touching
  <2>5. RequestOK(r)'
    <3>1. EmptiedOK(r)'
      BY <1>2, <1>5, <2>1 DEF EmptiedOK, Emptied, Holding
    <3>2. UpsertOK(r)'
      BY <1>3, <2>1, <2>3 DEF UpsertOK, SameArgs
    <3>3. MovedOK(r)' /\ ReadOK(r)'
      BY <1>4, <2>1 DEF MovedOK, ReadOK, SameArgs
    <3>4. QED
      BY <3>1, <3>2, <3>3 DEF RequestOK
  <2>6. ASSUME NEW b \in Buckets, NEW k \in Keys, Touching(r, b, k)
        PROVE  PathOK(b, k)'
    <3>1. Between(r, b, k)'
      BY <1>2, <2>1, <2>6 DEF Between, Native, SameArgs, Touching, Holding
    <3>2. r \in Writing'
      BY <1>4, <2>1 DEF Writing, Active, SameArgs, Finished
    <3>3. QED
      BY <3>1, <3>2 DEF PathOK
  <2>7. QED
    BY <2>4, <2>5, <2>6, StepClean
<1>7. CASE PublishFails(r, b0) /\ Fail(r)
  <2>1. OthersStay(r) /\ req'[r].pc \in Ended
    BY <1>2, <1>7, EndFits
  <2>2. files' = files /\ r \notin Active'
    BY <1>7, <2>1 DEF PublishFails, RemoveTemp, Active, Finished, Ended
  <2>3. \A b \in Buckets, k \in Keys : ~Between(r, b, k)
    BY <1>1 DEF Between
  <2>4. QED
    BY <1>1, <1>2, <1>5, <2>1, <2>2, <2>3, RestClean
<1>8. QED
  BY <1>3, <1>6, <1>7 DEF PublishPut

\* A write whose repository call succeeded ends: what it was about is in order
\* again when it was alone, and stays suspect otherwise.
LEMMA EndClean ==
  ASSUME BasicInv, CleanInv, NEW r \in Requests, r \in Writing, req[r].pc # "updateBucket",
         sweeps[r] = None, UNCHANGED storeVars, Finish(r, "ok"), Heal(r),
         \A b \in Buckets, k \in Keys :
            /\ objects'[b][k] # objects[b][k] => Native(r, b, k)
            /\ Native(r, b, k) /\ Clean(b, k)' /\ ObjectExists(b, k)' => Matches(b, k)'
  PROVE  CleanInv'
<1>1. r \in Active /\ req[r].pc \notin Ended
  BY DEF Writing, Active, Finished, Ended
<1>2. OthersStay(r) /\ req'[r].pc \in Ended
  BY EndFits DEF BasicInv
<1>3. \A b \in Buckets, k \in Keys : Touching(r, b, k) <=> Native(r, b, k)
  BY DEF Touching, Holding
<1>4. \A b \in Buckets, k \in Keys :
        Clean(b, k)' <=> Clean(b, k) \/ (req[r].solo /\ Native(r, b, k))
  BY <1>1, <1>3, TouchingIs DEF BasicInv, Clean, Heal
<1>5. StepBy(r)
  BY <1>1, <1>2, <1>4 DEF StepBy, storeVars
<1>6. r \notin Active'
  BY <1>2 DEF Active, Finished, Ended
<1>7. \A b \in Buckets, k \in Keys : Touching(r, b, k) => PathOK(b, k)'
  BY <1>3 DEF PathOK
<1>8. QED
  BY <1>5, <1>6, <1>7, StepClean

\* A write whose repository call was refused, for want of what it is about.
LEMMA RefusedClean ==
  ASSUME BasicInv, CleanInv, NEW r \in Requests, r \in Active, req[r].pc # "updateBucket",
         UNCHANGED storeVars, UNCHANGED repoVars, UNCHANGED suspect, Fail(r),
         \A b \in Buckets, k \in Keys : Between(r, b, k) => ~ObjectExists(b, k)
  PROVE  CleanInv'
<1>1. OthersStay(r) /\ req'[r].pc \in Ended
  BY EndFits DEF BasicInv
<1>2. r \notin Active'
  BY <1>1 DEF Active, Finished, Ended
<1>3. UNCHANGED <<objects, files, suspect, sweeps>>
  BY DEF storeVars, repoVars
<1>4. QED
  BY <1>1, <1>2, <1>3, RestClean

\* A put writes its metadata, and is refused only when the bucket is gone.
LEMMA UpsertPutClean ==
  ASSUME BasicInv, CleanInv, NEW r \in Requests, UpsertPut(r)
  PROVE  CleanInv'
<1>1. /\ req[r].pc = "upsert" /\ r \in Active /\ req[r].pc \notin Ended
      /\ UNCHANGED storeVars /\ req[r].op \in Puts
  BY DEF UpsertPut, At, Active, Finished, Ended, RepoStep
<1>2. RequestsFit /\ RequestOK(r) /\ sweeps[r] = None
  BY <1>1 DEF BasicInv, CleanInv, SweepsInHand
<1>3. PICK b0 \in Buckets, k0 \in Keys : b0 = req[r].bucket /\ k0 = req[r].key
  BY <1>1, Carries DEF BasicInv
<1>4. r \in Writing /\ \A b \in Buckets, k \in Keys : Native(r, b, k) <=> b = b0 /\ k = k0
  BY <1>1, <1>3 DEF Puts, ObjectReads, ObjectWrites, Writing, Native, Removes
<1>5. req[r].body \in Bodies /\ req[r].body # None
  BY <1>1, <1>2, BodiesAssumption, NoneAssumption, Carries DEF Fits, Body
<1>6. ASSUME UpsertObject(b0, k0, ETag(req[r].body))
      PROVE  /\ objects'[b0][k0] = Entry(b0, k0, ETag(req[r].body))
             /\ \A b \in Buckets, k \in Keys : objects'[b][k] # objects[b][k] => Native(r, b, k)
  BY <1>4, <1>6 DEF UpsertObject, BasicInv, RepoInv, RepoTypeOK
<1>7. CASE UpsertObject(b0, k0, ETag(req[r].body)) /\ Finish(r, "ok") /\ Heal(r)
  <2>1. Clean(b0, k0)' => req[r].solo \/ Clean(b0, k0)
    BY <1>7 DEF Heal, Clean
  <2>2. Clean(b0, k0)' => files'[b0][k0] = req[r].body
    BY <1>1, <1>2, <1>3, <2>1 DEF RequestOK, UpsertOK, storeVars
  <2>3. Clean(b0, k0)' => Matches(b0, k0)'
    BY <1>5, <1>6, <1>7, <2>2 DEF Matches, FileExists, Entry
  <2>4. QED
    BY <1>1, <1>2, <1>4, <1>6, <1>7, <2>3, EndClean
<1>8. CASE ~BucketExists(b0) /\ Fail(r) /\ UNCHANGED <<repoVars, suspect>>
  <2>1. ~ObjectExists(b0, k0)
    BY <1>8 DEF BasicInv, RepoInv, ObjectsInBuckets
  <2>2. \A b \in Buckets, k \in Keys : Between(r, b, k) => ~ObjectExists(b, k)
    BY <1>4, <2>1 DEF Between
  <2>3. QED
    BY <1>1, <1>8, <2>2, RefusedClean
<1>9. CASE CallFails(r, UpsertObject(b0, k0, ETag(req[r].body)))
  <2>1. \A b \in Buckets, k \in Keys : objects'[b][k] # objects[b][k] => Native(r, b, k)
    BY <1>6, <1>9 DEF CallFails, repoVars
  <2>2. Fail(r) /\ suspect' = suspect \cup TouchedBy(r)
    BY <1>9 DEF CallFails
  <2>3. QED
    BY <1>1, <1>4, <2>1, <2>2, CallFailsClean
<1>10. QED
  BY <1>3, <1>7, <1>8, <1>9 DEF UpsertPut

\* A delete unlinks its file, and has yet to forget the metadata.
LEMMA UnlinkClean ==
  ASSUME BasicInv, CleanInv, NEW r \in Requests, UnlinkObject(r)
  PROVE  CleanInv'
<1>1. /\ req[r].pc = "unlink" /\ r \in Active /\ req[r].pc \notin Ended
      /\ UNCHANGED <<repoVars, suspect>> /\ req[r].op = "delete"
  BY DEF UnlinkObject, At, Active, Finished, Ended, StoreStep
<1>2. RequestsFit /\ RequestOK(r) /\ sweeps[r] = None /\ objects' = objects
  BY <1>1 DEF BasicInv, CleanInv, SweepsInHand, repoVars
<1>3. PICK b0 \in Buckets, k0 \in Keys : b0 = req[r].bucket /\ k0 = req[r].key
  BY <1>1, Carries DEF BasicInv
<1>4. r \in Writing /\ req[r].op \notin ObjectReads
      /\ \A b \in Buckets, k \in Keys : Native(r, b, k) <=> b = b0 /\ k = k0
  BY <1>1, <1>3 DEF ObjectReads, ObjectWrites, Writing, Native, Removes
<1>5. sweeps' = sweeps /\ \A b \in Buckets, k \in Keys :
                            files'[b][k] # files[b][k] => Native(r, b, k)
  BY <1>3, <1>4 DEF UnlinkObject, UnlinkFile, storeVars, BasicInv, StoreTypeOK
<1>6. OthersStay(r) /\ SameArgs(r) /\ req'[r].pc = "forget"
  <2>1. Fits([req[r] EXCEPT !.pc = "forget"])
    BY <1>1, <1>2, Carries DEF Fits, Handling
  <2>2. QED
    BY <1>1, <1>2, <2>1, GotoFits DEF UnlinkObject, Pcs, Ended
<1>7. StepBy(r)
  BY <1>1, <1>2, <1>4, <1>5, <1>6 DEF StepBy, Clean, Touching
<1>8. RequestOK(r)'
  BY <1>1, <1>2, <1>4, <1>5, <1>6, EasyOwn
<1>9. ASSUME NEW b \in Buckets, NEW k \in Keys, Touching(r, b, k)
      PROVE  PathOK(b, k)'
  <2>1. Between(r, b, k)'
    BY <1>2, <1>6, <1>9 DEF Between, Native, SameArgs, Touching, Holding
  <2>2. r \in Writing'
    BY <1>4, <1>6 DEF Writing, Active, SameArgs, Finished
  <2>3. QED
    BY <2>1, <2>2 DEF PathOK
<1>10. QED
  BY <1>7, <1>8, <1>9, StepClean

\* A delete forgets the metadata, and is refused only when there is none.
LEMMA ForgetClean ==
  ASSUME BasicInv, CleanInv, NEW r \in Requests, ForgetObject(r)
  PROVE  CleanInv'
<1>1. /\ req[r].pc = "forget" /\ r \in Active /\ req[r].pc \notin Ended
      /\ UNCHANGED storeVars /\ req[r].op = "delete"
  BY DEF ForgetObject, At, Active, Finished, Ended, RepoStep
<1>2. RequestsFit /\ sweeps[r] = None
  BY <1>1 DEF BasicInv, SweepsInHand
<1>3. PICK b0 \in Buckets, k0 \in Keys : b0 = req[r].bucket /\ k0 = req[r].key
  BY <1>1, Carries DEF BasicInv
<1>4. r \in Writing /\ \A b \in Buckets, k \in Keys : Native(r, b, k) <=> b = b0 /\ k = k0
  BY <1>1, <1>3 DEF ObjectReads, ObjectWrites, Writing, Native, Removes
<1>5. ASSUME DeleteObject(b0, k0)
      PROVE  /\ ~ObjectExists(b0, k0)'
             /\ \A b \in Buckets, k \in Keys : objects'[b][k] # objects[b][k] => Native(r, b, k)
  BY <1>4, <1>5 DEF DeleteObject, ObjectExists, BasicInv, RepoInv, RepoTypeOK
<1>6. CASE DeleteObject(b0, k0) /\ Finish(r, "ok") /\ Heal(r)
  BY <1>1, <1>2, <1>4, <1>5, <1>6, EndClean
<1>7. CASE ~ObjectExists(b0, k0) /\ Fail(r) /\ UNCHANGED <<repoVars, suspect>>
  <2>1. \A b \in Buckets, k \in Keys : Between(r, b, k) => ~ObjectExists(b, k)
    BY <1>4, <1>7 DEF Between
  <2>2. QED
    BY <1>1, <1>7, <2>1, RefusedClean
<1>8. CASE CallFails(r, DeleteObject(b0, k0))
  <2>1. \A b \in Buckets, k \in Keys : objects'[b][k] # objects[b][k] => Native(r, b, k)
    BY <1>5, <1>8 DEF CallFails, repoVars
  <2>2. Fail(r) /\ suspect' = suspect \cup TouchedBy(r)
    BY <1>8 DEF CallFails
  <2>3. QED
    BY <1>1, <1>4, <2>1, <2>2, CallFailsClean
<1>9. QED
  BY <1>3, <1>6, <1>7, <1>8 DEF ForgetObject

\* A rename carries the metadata to the directory it has moved, or is refused
\* and leaves the objects of the old name suspect.
LEMMA UpdateBucketClean ==
  ASSUME BasicInv, CleanInv, NEW r \in Requests, UpdateBucketMeta(r)
  PROVE  CleanInv'
<1>1. /\ req[r].pc = "updateBucket" /\ r \in Active /\ req[r].pc \notin Ended
      /\ UNCHANGED storeVars /\ req[r].op = "rename"
  BY DEF UpdateBucketMeta, At, Active, Finished, Ended, RepoStep
<1>2. RequestsFit /\ RequestOK(r) /\ sweeps[r] = None /\ UNCHANGED <<files, sweeps>>
  BY <1>1 DEF BasicInv, CleanInv, SweepsInHand, storeVars
<1>3. PICK old \in Buckets, new \in Buckets : old = req[r].bucket /\ new = req[r].to
  BY <1>1, Carries DEF BasicInv
<1>4. old # new /\ r \in Writing
      /\ \A b \in Buckets, k \in Keys : Native(r, b, k) <=> b \in {old, new}
  BY <1>1, <1>2, <1>3, Carries DEF Fits, ObjectReads, ObjectWrites, Writing, Native, Removes
<1>5. OthersStay(r) /\ req'[r].pc \in Ended
  BY <1>2, EndFits DEF UpdateBucketMeta
<1>6. r \notin Active'
  BY <1>5 DEF Active, Finished, Ended
<1>7. \A b \in Buckets, k \in Keys : Touching(r, b, k) => b \in {old, new}
  BY <1>2, <1>4 DEF Touching, Holding
<1>8. CASE /\ RenameBucketTo(old, new, Private)
           /\ suspect' = suspect
                 \cup {Path(new, k) : k \in {j \in Keys : Path(old, j) \in suspect}}
  <2>1. \A k \in Keys :
          /\ objects'[old][k] = None
          /\ objects'[new][k] = IF ObjectExists(old, k) THEN Rebucket(objects[old][k], new)
                                ELSE objects[new][k]
          /\ \A b \in Buckets \ {old, new} : objects'[b][k] = objects[b][k]
    BY <1>4, <1>8 DEF RenameBucketTo, NoObjects, BasicInv, RepoInv, RepoTypeOK
  <2>2. \A k \in Keys : Clean(new, k)' => Clean(new, k) /\ Clean(old, k)
    BY <1>8 DEF Clean
  <2>3. \A b \in Buckets, k \in Keys : Clean(b, k)' => Clean(b, k)
    BY <1>8 DEF Clean
  <2>4. \A b \in Buckets, k \in Keys : Clean(b, k) /\ ~Clean(b, k)' => b = new
    BY <1>8 DEF Clean, Path
  <2>5. \A k \in Keys : Path(new, k) \notin suspect' => Clean(old, k)
    BY <2>2 DEF Clean
  <2>6. StepBy(r)
    BY <1>1, <1>2, <1>3, <1>4, <1>5, <2>1, <2>3, <2>4, <2>5 DEF StepBy, Touching
  <2>7. ASSUME NEW k \in Keys PROVE PathOK(old, k)' /\ PathOK(new, k)'
    <3>1. PathOK(old, k)'
      BY <2>1 DEF PathOK, ObjectExists
    <3>2. ASSUME Clean(new, k)', ObjectExists(new, k)' PROVE Matches(new, k)'
      <4>1. ~ObjectExists(new, k)
        BY <1>8 DEF RenameBucketTo, BasicInv, RepoInv, ObjectsInBuckets
      <4>2. ObjectExists(old, k) /\ objects'[new][k] = Rebucket(objects[old][k], new)
        BY <2>1, <3>2, <4>1 DEF ObjectExists
      <4>3. FileExists(new, k) /\ ETag(files[new][k]) = objects[old][k].etag
        BY <1>1, <1>2, <1>3, <2>2, <3>2, <4>2 DEF RequestOK, MovedOK
      <4>4. objects[old][k] \in Entries
        BY <4>2 DEF ObjectExists, BasicInv, RepoInv, RepoTypeOK
      <4>5. objects'[new][k].etag = objects[old][k].etag
        BY <4>2, <4>4 DEF Rebucket, Entries, ObjectExists
      <4>6. QED
        BY <1>2, <4>3, <4>5 DEF Matches, FileExists
    <3>3. QED
      BY <3>1, <3>2 DEF PathOK
  <2>8. QED
    BY <1>6, <1>7, <2>6, <2>7, StepClean
<1>9. CASE suspect' = suspect \cup ({old} \X Keys) /\ UNCHANGED repoVars
  <2>1. objects' = objects
    BY <1>9 DEF repoVars
  <2>2. \A b \in Buckets, k \in Keys : Clean(b, k)' <=> Clean(b, k) /\ b # old
    BY <1>9 DEF Clean, Path
  <2>3. StepBy(r)
    BY <1>1, <1>2, <1>3, <1>4, <1>5, <2>1, <2>2 DEF StepBy, Touching
  <2>4. ASSUME NEW k \in Keys PROVE PathOK(old, k)' /\ PathOK(new, k)'
    <3>1. PathOK(old, k)'
      BY <2>2 DEF PathOK
    <3>2. ASSUME Clean(new, k)', ObjectExists(new, k)', \A q \in Writing' : ~Between(q, new, k)'
          PROVE  Matches(new, k)'
      <4>1. Clean(new, k) /\ ObjectExists(new, k)
        BY <2>1, <2>2, <3>2 DEF ObjectExists
      <4>2. ASSUME NEW q \in Writing PROVE ~Between(q, new, k)
        <5>1. CASE q = r
          BY <1>1, <1>3, <1>4, <5>1 DEF Between
        <5>2. CASE q # r
          <6>1. q \in Writing' /\ req'[q] = req[q]
            BY <1>5, <5>2 DEF OthersStay, Writing, Active
          <6>2. QED
            BY <3>2, <6>1 DEF Between, Native
        <5>3. QED
          BY <5>1, <5>2
      <4>3. Matches(new, k)
        BY <4>1, <4>2 DEF CleanInv, PathOK
      <4>4. QED
        BY <1>2, <2>1, <4>3 DEF Matches, FileExists
    <3>3. QED
      BY <3>1, <3>2 DEF PathOK
  <2>5. QED
    BY <1>6, <1>7, <2>3, <2>4, StepClean
<1>10. QED
  BY <1>3, <1>8, <1>9 DEF UpdateBucketMeta

\* What a removal is about: every key of its bucket.
LEMMA RemovalPaths ==
  ASSUME RequestsFit, NEW r \in Active, req[r].op \in Removes
  PROVE  /\ r \in Requests /\ r \in Writing /\ req[r].pc \notin Ended
         /\ req[r].op \notin ObjectReads
         /\ req[r].bucket \in Buckets
         /\ \A b \in Buckets, k \in Keys : Native(r, b, k) <=> b = req[r].bucket
<1>1. r \in Requests /\ r \in Writing /\ req[r].pc \notin Ended /\ req[r].op \notin ObjectReads
  BY DEF Active, Finished, Ended, Writing, Removes, ObjectReads
<1>2. \A b \in Buckets, k \in Keys : Native(r, b, k) <=> b = req[r].bucket
  BY DEF Native, Removes, ObjectReads, ObjectWrites
<1>3. QED
  BY <1>1, <1>2, Carries

\* A plain removal drops the metadata of an empty bucket.
LEMMA DropBucketClean ==
  ASSUME BasicInv, CleanInv, NEW r \in Requests, DropBucketMeta(r)
  PROVE  CleanInv'
<1>1. /\ req[r].pc = "dropBucket" /\ r \in Active /\ UNCHANGED storeVars
      /\ req[r].op = "plainDelete" /\ req[r].op \in Removes
  BY DEF DropBucketMeta, At, Active, Finished, RepoStep, Removes
<1>2. RequestsFit /\ sweeps[r] = None
  BY <1>1 DEF BasicInv, SweepsInHand
<1>3. /\ r \in Writing /\ req[r].pc \notin Ended /\ req[r].op \notin ObjectReads
      /\ \A b \in Buckets, k \in Keys : Native(r, b, k) <=> b = req[r].bucket
  BY <1>1, <1>2, RemovalPaths
<1>4. \A b \in Buckets, k \in Keys : ~Between(r, b, k)
  BY <1>1 DEF Between
<1>5. CASE DeleteBucket(req[r].bucket) /\ Goto(r, "scan") /\ UNCHANGED suspect
  <2>1. OthersStay(r) /\ SameArgs(r) /\ req'[r].pc = "scan"
    <3>1. Fits([req[r] EXCEPT !.pc = "scan"])
      BY <1>1, <1>2, <1>3, Carries DEF Fits, Handling, Removes
    <3>2. QED
      BY <1>2, <1>3, <1>5, <3>1, GotoFits DEF Pcs, Ended
  <2>2. UNCHANGED <<objects, files, suspect, sweeps>>
    BY <1>1, <1>5 DEF DeleteBucket, storeVars
  <2>3. RequestOK(r)'
    <3>1. EmptiedOK(r)'
      <4> SUFFICES ASSUME NEW b \in Buckets, NEW k \in Keys, Emptied(r, b, k)'
                   PROVE  ~ObjectExists(b, k)'
        BY DEF EmptiedOK
      <4>1. Native(r, b, k)
        BY <1>2, <2>1, <2>2 DEF Emptied, Holding, Native, SameArgs
      <4>2. QED
        BY <1>3, <1>5, <2>2, <4>1 DEF DeleteBucket, BucketEmpty, ObjectExists
    <3>2. UpsertOK(r)' /\ MovedOK(r)' /\ ReadOK(r)'
      BY <1>3, <2>1 DEF UpsertOK, MovedOK, ReadOK, SameArgs
    <3>3. QED
      BY <3>1, <3>2 DEF RequestOK
  <2>4. QED
    BY <1>1, <1>2, <1>4, <2>1, <2>2, <2>3, RestClean
<1>6. CASE Fail(r) /\ UNCHANGED <<repoVars, suspect>>
  BY <1>1, <1>4, <1>6, RefusedClean
<1>7. CASE CallFails(r, DeleteBucket(req[r].bucket))
  <2>1. objects' = objects
    BY <1>7 DEF CallFails, DeleteBucket, repoVars
  <2>2. Fail(r) /\ suspect' = suspect \cup TouchedBy(r)
    BY <1>7 DEF CallFails
  <2>3. QED
    BY <1>1, <1>3, <2>1, <2>2, CallFailsClean
<1>8. QED
  BY <1>5, <1>6, <1>7 DEF DropBucketMeta

\* After the directory is gone, a forced removal goes on to the metadata, and a
\* plain one ends.
LEMMA AfterSweepClean ==
  ASSUME BasicInv, CleanInv, NEW r \in Requests, req[r].pc \in {"scan", "sweep"},
         req[r].op \in Removes, AfterSweep(r), UNCHANGED <<repoVars, files, suspect>>,
         SweepsStay, sweeps'[r] = None
  PROVE  CleanInv'
<1>1. r \in Active /\ req[r].pc \notin Ended
  BY DEF Active, Finished, Ended
<1>2. RequestsFit /\ RequestOK(r) /\ UNCHANGED <<objects, files, suspect>>
  BY <1>1 DEF BasicInv, CleanInv, repoVars
<1>3. /\ r \in Writing /\ req[r].op \notin ObjectReads
      /\ \A b \in Buckets, k \in Keys : Native(r, b, k) <=> b = req[r].bucket
  BY <1>1, <1>2, RemovalPaths
<1>4. CASE req[r].op = "forceDelete"
  <2>1. OthersStay(r) /\ SameArgs(r) /\ req'[r].pc = "dropAll"
    <3>1. Fits([req[r] EXCEPT !.pc = "dropAll"])
      BY <1>1, <1>2, <1>4, Carries DEF Fits, Handling
    <3>2. QED
      BY <1>1, <1>2, <1>4, <3>1, GotoFits DEF AfterSweep, Pcs, Ended
  <2>2. RequestOK(r)'
    BY <1>1, <1>2, <1>3, <2>1, EasyOwn
  <2>3. r \in Active' /\ \A b \in Buckets, k \in Keys : Between(r, b, k) => Between(r, b, k)'
    BY <2>1 DEF Between, Native, SameArgs, Active, Finished
  <2>4. QED
    BY <1>1, <1>2, <2>1, <2>2, <2>3, RestClean DEF SweepsStay
<1>5. CASE req[r].op # "forceDelete"
  <2>1. OthersStay(r) /\ req'[r].pc \in Ended
    BY <1>2, <1>5, EndFits DEF AfterSweep
  <2>2. r \notin Active'
    BY <2>1 DEF Active, Finished, Ended
  <2>3. \A b \in Buckets, k \in Keys : ~Between(r, b, k)
    BY <1>5 DEF Between
  <2>4. QED
    BY <1>1, <1>2, <2>1, <2>2, <2>3, RestClean DEF SweepsStay
<1>6. QED
  BY <1>4, <1>5

\* A removal reads the directory, or finds none.
LEMMA ScanClean ==
  ASSUME BasicInv, CleanInv, NEW r \in Requests, ScanBucketDir(r)
  PROVE  CleanInv'
<1>1. /\ req[r].pc = "scan" /\ r \in Active /\ UNCHANGED <<repoVars, suspect>>
      /\ req[r].op \in Removes
  BY DEF ScanBucketDir, At, Active, Finished, StoreStep
<1>2. RequestsFit /\ RequestOK(r) /\ sweeps[r] = None /\ objects' = objects
  BY <1>1 DEF BasicInv, CleanInv, SweepsInHand, repoVars
<1>3. /\ r \in Writing /\ req[r].pc \notin Ended /\ req[r].op \notin ObjectReads
      /\ req[r].bucket \in Buckets
      /\ \A b \in Buckets, k \in Keys : Native(r, b, k) <=> b = req[r].bucket
  BY <1>1, <1>2, RemovalPaths
<1>4. CASE StartSweep(r, req[r].bucket) /\ Goto(r, "sweep")
  <2>1. OthersStay(r) /\ SameArgs(r) /\ req'[r].pc = "sweep"
    <3>1. Fits([req[r] EXCEPT !.pc = "sweep"])
      BY <1>1, <1>2, <1>3, Carries DEF Fits, Handling
    <3>2. QED
      BY <1>2, <1>3, <1>4, <3>1, GotoFits DEF Pcs, Ended
  <2>2. sweeps'[r].dir = req[r].bucket /\ \A q \in Requests \ {r} : sweeps'[q] = sweeps[q]
    BY <1>4 DEF StartSweep, BasicInv, StoreTypeOK
  <2>3. files' = files
    BY <1>4 DEF StartSweep
  <2>4. RequestOK(r)'
    <3>1. EmptiedOK(r)'
      <4> SUFFICES ASSUME NEW b \in Buckets, NEW k \in Keys, Emptied(r, b, k)', Clean(b, k)'
                   PROVE  ~ObjectExists(b, k)'
        BY DEF EmptiedOK
      <4>1. Native(r, b, k)' <=> Native(r, b, k)
        BY <2>1 DEF Native, SameArgs
      <4>2. Holding(r, b)' => Native(r, b, k)
        BY <1>3, <2>2 DEF Holding
      <4>3. Emptied(r, b, k)
        BY <1>1, <2>1, <4>1, <4>2 DEF Emptied, SameArgs
      <4>4. QED
        BY <1>1, <1>2, <4>3 DEF RequestOK, EmptiedOK, Clean, ObjectExists
    <3>2. UpsertOK(r)' /\ MovedOK(r)' /\ ReadOK(r)'
      BY <1>3, <2>1 DEF UpsertOK, MovedOK, ReadOK, SameArgs
    <3>3. QED
      BY <3>1, <3>2 DEF RequestOK
  <2>5. \A b \in Buckets, k \in Keys : ~Between(r, b, k)
    BY <1>1 DEF Between
  <2>6. \A q \in Requests : sweeps'[q] # None =>
           \/ q = r /\ req[r].op \in Removes /\ sweeps'[q].dir = req[r].bucket
           \/ sweeps[q] # None /\ sweeps'[q].dir \in {None, sweeps[q].dir}
    BY <1>1, <2>2
  <2>7. QED
    BY <1>1, <1>2, <2>1, <2>3, <2>4, <2>5, <2>6, RestClean
<1>5. CASE SweepNoop(req[r].bucket) /\ AfterSweep(r)
  <2>1. files' = files /\ SweepsStay /\ sweeps'[r] = None
    BY <1>2, <1>5 DEF SweepNoop, storeVars, SweepsStay
  <2>2. QED
    BY <1>1, <1>5, <2>1, AfterSweepClean
<1>6. QED
  BY <1>4, <1>5 DEF ScanBucketDir

\* A removal unlinks a file of the directory it holds open, wherever that is,
\* or is done with it.
LEMMA SweepClean ==
  ASSUME BasicInv, CleanInv, NEW r \in Requests, SweepBucketDir(r)
  PROVE  CleanInv'
<1>1. /\ req[r].pc = "sweep" /\ r \in Active /\ UNCHANGED <<repoVars, suspect>>
      /\ req[r].op \in Removes
  BY DEF SweepBucketDir, At, Active, Finished, StoreStep
<1>2. RequestsFit /\ StoreTypeOK /\ RequestOK(r) /\ sweeps[r] # None /\ objects' = objects
  BY <1>1 DEF BasicInv, CleanInv, SweepsInHand, repoVars
<1>3. /\ r \in Writing /\ req[r].pc \notin Ended /\ req[r].op \notin ObjectReads
      /\ req[r].bucket \in Buckets
      /\ \A b \in Buckets, k \in Keys : Native(r, b, k) <=> b = req[r].bucket
  BY <1>1, <1>2, RemovalPaths
<1>4. CASE /\ \/ \E k \in Keys : SweepFile(r, k)
              \/ \E q \in Requests : SweepTemp(r, q)
           /\ UNCHANGED req
  <2>1. /\ \A b \in Buckets, k \in Keys :
             files'[b][k] # files[b][k] => Holding(r, b)
        /\ sweeps'[r] # None /\ sweeps'[r].dir = sweeps[r].dir
        /\ \A q \in Requests \ {r} : sweeps'[q] = sweeps[q]
    BY <1>2, <1>4, SweepOneEffect DEF Holding
  <2>2. OthersStay(r) /\ SameArgs(r)
    BY <1>4 DEF OthersStay, SameArgs
  <2>3. StepBy(r)
    BY <1>1, <1>2, <1>3, <2>1, <2>2 DEF StepBy, Clean, Touching
  <2>4. RequestOK(r)'
    <3>1. EmptiedOK(r)'
      BY <1>1, <1>2, <1>4, <2>1 DEF RequestOK, EmptiedOK, Emptied, Holding, Native, Clean, ObjectExists
    <3>2. UpsertOK(r)' /\ MovedOK(r)' /\ ReadOK(r)'
      BY <1>1, <1>3, <1>4 DEF UpsertOK, MovedOK, ReadOK
    <3>3. QED
      BY <3>1, <3>2 DEF RequestOK
  <2>5. ASSUME NEW b \in Buckets, NEW k \in Keys, Touching(r, b, k)
        PROVE  PathOK(b, k)'
    <3>1. CASE Emptied(r, b, k)
      BY <1>1, <1>2, <3>1 DEF RequestOK, EmptiedOK, PathOK, Clean, ObjectExists
    <3>2. CASE ~Emptied(r, b, k)
      <4>1. Native(r, b, k) /\ req[r].op = "forceDelete"
        BY <1>1, <2>5, <3>2 DEF Emptied, Touching, Removes
      <4>2. Between(r, b, k)' /\ r \in Writing'
        BY <1>1, <1>3, <1>4, <4>1 DEF Between, Native, Writing, Active
      <4>3. QED
        BY <4>2 DEF PathOK
    <3>3. QED
      BY <3>1, <3>2
  <2>6. QED
    BY <2>3, <2>4, <2>5, StepClean
<1>5. CASE (RemoveDir(r, req[r].bucket) \/ RemoveDirFails(r, req[r].bucket)) /\ AfterSweep(r)
  <2>1. files' = files /\ SweepsStay /\ sweeps'[r] = None
    BY <1>2, <1>3, <1>5, EndSweepEffect DEF SweepsStay
  <2>2. QED
    BY <1>1, <1>5, <2>1, AfterSweepClean
<1>6. QED
  BY <1>4, <1>5 DEF SweepBucketDir

\* A forced removal drops the bucket and the metadata of all that was in it.
LEMMA DropAllClean ==
  ASSUME BasicInv, CleanInv, NEW r \in Requests, DropBucketAndObjects(r)
  PROVE  CleanInv'
<1>1. /\ req[r].pc = "dropAll" /\ r \in Active /\ UNCHANGED storeVars
      /\ req[r].op \in Removes
  BY DEF DropBucketAndObjects, At, Active, Finished, RepoStep, Removes
<1>2. RequestsFit /\ sweeps[r] = None
  BY <1>1 DEF BasicInv, SweepsInHand
<1>3. /\ r \in Writing /\ req[r].pc \notin Ended
      /\ \A b \in Buckets, k \in Keys : Native(r, b, k) <=> b = req[r].bucket
  BY <1>1, <1>2, RemovalPaths
<1>4. ASSUME DeleteBucketRecursive(req[r].bucket)
      PROVE  \A b \in Buckets, k \in Keys :
               /\ Native(r, b, k) => ~ObjectExists(b, k)'
               /\ objects'[b][k] # objects[b][k] => Native(r, b, k)
  BY <1>3, <1>4 DEF DeleteBucketRecursive, NoObjects, ObjectExists, BasicInv, RepoInv, RepoTypeOK
<1>5. CASE DeleteBucketRecursive(req[r].bucket) /\ Finish(r, "ok") /\ Heal(r)
  BY <1>1, <1>2, <1>3, <1>4, <1>5, EndClean
<1>6. CASE ~BucketExists(req[r].bucket) /\ Fail(r) /\ UNCHANGED <<repoVars, suspect>>
  <2>1. \A b \in Buckets, k \in Keys : Between(r, b, k) => ~ObjectExists(b, k)
    BY <1>3, <1>6 DEF Between, BasicInv, RepoInv, ObjectsInBuckets
  <2>2. QED
    BY <1>1, <1>6, <2>1, RefusedClean
<1>7. CASE CallFails(r, DeleteBucketRecursive(req[r].bucket))
  <2>1. \A b \in Buckets, k \in Keys : objects'[b][k] # objects[b][k] => Native(r, b, k)
    BY <1>4, <1>7 DEF CallFails, repoVars
  <2>2. Fail(r) /\ suspect' = suspect \cup TouchedBy(r)
    BY <1>7 DEF CallFails
  <2>3. QED
    BY <1>1, <1>3, <2>1, <2>2, CallFailsClean
<1>8. QED
  BY <1>5, <1>6, <1>7 DEF DropBucketAndObjects

\* A read opens a file, or finds none: nothing changes but the read itself.
LEMMA OpenClean ==
  ASSUME BasicInv, CleanInv, NEW r \in Requests, OpenPhysical(r) \/ OpenObject(r)
  PROVE  CleanInv'
<1>1. /\ req[r].pc \in {"openPath", "open"} /\ r \in Active /\ req[r].pc \notin Ended
      /\ UNCHANGED <<repoVars, storeVars, suspect>>
  BY DEF OpenPhysical, OpenObject, At, Active, Finished, Ended
<1>2. /\ RequestsFit /\ StoreTypeOK /\ RequestOK(r) /\ sweeps[r] = None
      /\ UNCHANGED <<objects, files, sweeps, suspect>>
  BY <1>1 DEF BasicInv, CleanInv, SweepsInHand, repoVars, storeVars
<1>3. req[r].bucket \in Buckets /\ req[r].key \in Keys /\ Fits(req[r]) /\ req[r].entry \in Entries
  BY <1>1, <1>2, Carries DEF Fits
<1>4. req[r].entry.path \in Paths /\ Path(req[r].bucket, req[r].key) \in Paths
  BY <1>3 DEF Entries, Path, Paths
<1>5. /\ OthersStay(r)
      /\ \/ req'[r].pc \in Ended
         \/ SameArgs(r) /\ req'[r].pc \in {"open", "answered"} /\ req'[r].entry = req[r].entry
  <2>1. ASSUME NEW path \in Paths, FileExists(path[1], path[2]), Answer(r, path)
        PROVE  OthersStay(r) /\ SameArgs(r) /\ req'[r].pc = "answered" /\ req'[r].entry = req[r].entry
    BY <1>1, <1>2, <2>1, AnswerFits
  <2>2. ASSUME Goto(r, "open")
        PROVE  OthersStay(r) /\ SameArgs(r) /\ req'[r].pc = "open" /\ req'[r].entry = req[r].entry
    <3>1. Fits([req[r] EXCEPT !.pc = "open"])
      BY <1>1, <1>2, <1>3, Carries DEF Fits, Handling
    <3>2. QED
      BY <1>1, <1>2, <2>2, <3>1, GotoFits DEF Pcs, Ended
  <2>3. CASE OpenPhysical(r)
    BY <1>4, <2>1, <2>2, <2>3 DEF OpenPhysical
  <2>4. CASE OpenObject(r)
    <3>1. CASE FileExists(req[r].bucket, req[r].key)
      <4>1. Answer(r, Path(req[r].bucket, req[r].key))
        BY <2>4, <3>1 DEF OpenObject
      <4>2. Path(req[r].bucket, req[r].key)[1] = req[r].bucket
            /\ Path(req[r].bucket, req[r].key)[2] = req[r].key
        BY DEF Path
      <4>3. QED
        BY <1>4, <2>1, <3>1, <4>1, <4>2
    <3>2. CASE ~FileExists(req[r].bucket, req[r].key)
      BY <1>2, <2>4, <3>2, EndFits DEF OpenObject
    <3>3. QED
      BY <3>1, <3>2
  <2>5. QED
    BY <2>3, <2>4
<1>6. r \in Active' => RequestOK(r)'
  BY <1>1, <1>2, <1>5, EasyOwn DEF Active, Finished, Ended
<1>7. \A b \in Buckets, k \in Keys : ~Between(r, b, k)
  BY <1>1 DEF Between
<1>8. QED
  BY <1>1, <1>2, <1>5, <1>6, <1>7, RestClean

\* Before the directory moves, every clean object of either name is in step.
LEMMA MoverMatches ==
  ASSUME BasicInv, CleanInv, NEW r \in Requests, req[r].pc = "moveDir",
         NEW b \in Buckets, NEW k \in Keys, Native(r, b, k), Clean(b, k)
  PROVE  /\ ObjectExists(b, k) => Matches(b, k)
         /\ \A q \in Writing \ {r} : ~Native(q, b, k)
<1>1. r \in Writing
  <2>1. req[r].op = "rename"
    BY Carries DEF BasicInv, Ended, Fits
  <2>2. QED
    BY <2>1 DEF Writing, Active, Finished, ObjectReads
<1>2. \A q \in Writing \ {r} : ~Native(q, b, k)
  BY <1>1 DEF CleanInv, SharedSuspect, Touching
<1>3. \A q \in Writing : ~Between(q, b, k)
  BY <1>2 DEF Between
<1>4. QED
  BY <1>2, <1>3 DEF CleanInv, PathOK

\* The directory of a bucket moves: the files of the old name get the new one,
\* and so do the removals that hold the directory open.
LEMMA MoveDirClean ==
  ASSUME BasicInv, CleanInv, NEW r \in Requests, MoveBucketDir(r)
  PROVE  CleanInv'
<1>1. /\ req[r].pc = "moveDir" /\ r \in Active /\ req[r].pc \notin Ended
      /\ UNCHANGED <<repoVars, suspect>> /\ req[r].op = "rename"
  BY DEF MoveBucketDir, At, Active, Finished, Ended, StoreStep
<1>2. /\ RequestsFit /\ StoreTypeOK /\ RequestOK(r) /\ sweeps[r] = None
      /\ UNCHANGED <<objects, suspect>> /\ SoloAlone /\ SharedSuspect
  BY <1>1 DEF BasicInv, CleanInv, SweepsInHand, repoVars
<1>3. PICK old \in Buckets, new \in Buckets : old = req[r].bucket /\ new = req[r].to
  BY <1>1, Carries DEF BasicInv
<1>4. old # new /\ r \in Writing
      /\ \A b \in Buckets, k \in Keys : Native(r, b, k) <=> b \in {old, new}
  BY <1>1, <1>2, <1>3, Carries DEF Fits, ObjectReads, ObjectWrites, Writing, Native, Removes
<1>5. \A b \in Buckets, k \in Keys : ~Between(r, b, k)
  BY <1>1 DEF Between
<1>6. CASE MoveDirFails(old, new) /\ Fail(r)
  BY <1>1, <1>5, <1>6, RefusedClean DEF MoveDirFails
<1>7. ASSUME Goto(r, "updateBucket")
      PROVE  /\ OthersStay(r) /\ SameArgs(r) /\ req'[r].pc = "updateBucket"
             /\ old = req'[r].bucket /\ new = req'[r].to
  <2>1. Fits([req[r] EXCEPT !.pc = "updateBucket"])
    BY <1>1, <1>2, Carries DEF Fits, Handling
  <2>2. QED
    BY <1>1, <1>2, <1>3, <1>7, <2>1, GotoFits DEF Pcs, Ended, SameArgs
<1>8. \A b \in {old, new}, k \in Keys : Clean(b, k) =>
        /\ ObjectExists(b, k) => Matches(b, k)
        /\ \A q \in Writing \ {r} : ~Native(q, b, k)
  BY <1>1, <1>4, MoverMatches
<1>9. ASSUME NEW b \in Buckets, b \notin dirs, NEW k \in Keys PROVE ~FileExists(b, k)
  BY <1>9 DEF BasicInv, FilesHaveDirs, FilesIn
<1>10. CASE MoveDirNoop(old) /\ Goto(r, "updateBucket")
  <2>1. UNCHANGED <<files, sweeps>> /\ old \notin dirs
    BY <1>10 DEF MoveDirNoop, storeVars
  <2>2. \A k \in Keys : Clean(old, k) => ~ObjectExists(old, k)
    BY <1>8, <1>9, <2>1 DEF Matches
  <2>3. RequestOK(r)'
    <3>1. EmptiedOK(r)'
      BY <1>1, <1>2, <1>7, <1>10, <2>1 DEF EmptiedOK, Emptied, Holding
    <3>2. MovedOK(r)'
      <4> SUFFICES ASSUME NEW k \in Keys, Clean(old, k)', ObjectExists(old, k)' PROVE FALSE
        BY <1>7, <1>10 DEF MovedOK, Clean, ObjectExists
      <4>1. QED
        BY <1>2, <2>2 DEF Clean, ObjectExists
    <3>3. UpsertOK(r)' /\ ReadOK(r)'
      BY <1>1, <1>7, <1>10 DEF UpsertOK, ReadOK, SameArgs, ObjectReads
    <3>4. QED
      BY <3>1, <3>2, <3>3 DEF RequestOK
  <2>4. QED
    BY <1>1, <1>2, <1>5, <1>7, <1>10, <2>1, <2>3, RestClean
<1>11. CASE MoveDir(old, new) /\ Goto(r, "updateBucket")
  <2>1. /\ new \notin dirs /\ files'[new] = files[old] /\ files'[old] = NoFiles
        /\ \A b \in Buckets \ {old, new} : files'[b] = files[b]
        /\ \A q \in Requests :
              /\ sweeps'[q] = None <=> sweeps[q] = None
              /\ sweeps[q] # None => sweeps'[q].dir = Renamed(sweeps[q].dir, old, new)
    BY <1>2, <1>11, MoveDirEffect
  <2>2. OthersStay(r) /\ SameArgs(r) /\ req'[r].pc = "updateBucket"
    BY <1>7, <1>11
  <2>3. ASSUME NEW q \in Requests
        PROVE  /\ q \in Active' <=> q \in Active
               /\ q \in Writing' <=> q \in Writing
               /\ q # r => req'[q] = req[q]
               /\ SameArgs(q)
               /\ \A b \in Buckets, k \in Keys :
                    /\ Native(q, b, k)' <=> Native(q, b, k)
                    /\ Holding(q, b)' => Holding(q, b) \/ (b = new /\ Holding(q, old))
    <3>1. SameArgs(q) /\ (q # r => req'[q] = req[q])
      BY <2>2 DEF SameArgs, OthersStay
    <3>2. q \in Active' <=> q \in Active
      BY <1>1, <2>2, <3>1 DEF Active, Finished
    <3>3. \A b \in Buckets : Holding(q, b)' => Holding(q, b) \/ (b = new /\ Holding(q, old))
      BY <2>1 DEF Holding, Renamed
    <3>4. QED
      BY <3>1, <3>2, <3>3 DEF Native, Writing, SameArgs
  <2>4. \A k \in Keys : Clean(new, k) => ~ObjectExists(new, k)
    BY <1>8, <1>9, <2>1 DEF Matches
  <2>5. SoloAlone'
    <3> SUFFICES ASSUME NEW a \in Active', NEW q \in Writing', NEW b \in Buckets, NEW k \in Keys,
                        a # q, req'[a].solo, Native(a, b, k)', Touching(q, b, k)'
                 PROVE  FALSE
      BY DEF SoloAlone
    <3>1. /\ a \in Requests /\ q \in Requests /\ a \in Active /\ q \in Writing
          /\ req[a].solo /\ Native(a, b, k)
      BY <2>3 DEF Active, Writing, SameArgs
    <3>2. CASE Touching(q, b, k)
      BY <1>2, <3>1, <3>2 DEF SoloAlone
    <3>3. CASE ~Touching(q, b, k)
      <4>1. b = new /\ Touching(q, old, k) /\ q # r
        BY <1>2, <2>3, <3>1, <3>3 DEF Touching, Holding
      <4>2. a = r
        BY <1>2, <1>4, <3>1, <4>1 DEF SoloAlone, Touching
      <4>3. QED
        BY <1>2, <1>4, <3>1, <4>1, <4>2 DEF SoloAlone
    <3>4. QED
      BY <3>2, <3>3
  <2>6. SharedSuspect'
    <3> SUFFICES ASSUME NEW a \in Writing', NEW q \in Writing', NEW b \in Buckets, NEW k \in Keys,
                        a # q, Native(a, b, k)', Touching(q, b, k)', Clean(b, k)'
                 PROVE  /\ ~Native(q, b, k)'
                        /\ req'[a].pc = "updateBucket"
                        /\ b = req'[a].to
                        /\ Path(req'[a].bucket, k) \in suspect'
      BY DEF SharedSuspect, Clean
    <3>1. /\ a \in Requests /\ q \in Requests /\ a \in Writing /\ q \in Writing
          /\ Native(a, b, k) /\ Clean(b, k)
      BY <1>2, <2>3 DEF Active, Writing, Clean
    <3>2. CASE Touching(q, b, k)
      <4>1. ~Native(q, b, k) /\ req[a].pc = "updateBucket" /\ b = req[a].to /\ ~Clean(req[a].bucket, k)
        BY <1>2, <3>1, <3>2 DEF SharedSuspect
      <4>2. a # r
        BY <1>1, <4>1
      <4>3. QED
        BY <1>2, <2>3, <3>1, <4>1, <4>2 DEF Clean
    <3>3. CASE ~Touching(q, b, k)
      <4>1. b = new /\ Touching(q, old, k) /\ q # r /\ ~Native(q, b, k)
        BY <1>2, <2>3, <3>1, <3>3 DEF Touching, Holding
      <4>2. a = r
        BY <1>8, <3>1, <4>1
      <4>3. ~Clean(old, k)
        BY <1>1, <1>2, <1>4, <3>1, <4>1 DEF SharedSuspect
      <4>4. QED
        BY <1>2, <1>7, <1>11, <2>2, <2>3, <3>1, <4>1, <4>2, <4>3 DEF Clean
    <3>4. QED
      BY <3>2, <3>3
  <2>7. ASSUME NEW q \in Active', q # r PROVE RequestOK(q)'
    <3>1. q \in Requests /\ q \in Active /\ req'[q] = req[q] /\ RequestOK(q)
      BY <2>3, <2>7 DEF Active, CleanInv
    <3>2. req[q].pc \notin Ended
      BY <3>1 DEF Active, Finished, Ended
    <3>3. PICK b0 \in Buckets, k0 \in Keys, t0 \in Buckets :
             b0 = req[q].bucket /\ k0 = req[q].key /\ t0 = req[q].to
      BY <1>2, <3>1, <3>2, Carries
    <3>4. Fits(req[q])
      BY <1>2, <3>1, <3>2, Carries
    <3>5. ASSUME NEW b \in Buckets, NEW k \in Keys, q \in Writing, Native(q, b, k),
                 Clean(b, k) \/ req[q].solo
          PROVE  files'[b] = files[b]
      <4>1. CASE Clean(b, k)
        BY <1>8, <2>1, <2>7, <3>1, <3>5, <4>1
      <4>2. CASE req[q].solo
        <5>1. ~Native(r, b, k)
          BY <1>2, <1>4, <2>7, <3>1, <3>5, <4>2 DEF SoloAlone, Touching
        <5>2. QED
          BY <1>4, <2>1, <5>1
      <4>3. QED
        BY <3>5, <4>1, <4>2
    <3>6. EmptiedOK(q)'
      <4> SUFFICES ASSUME NEW b \in Buckets, NEW k \in Keys, Emptied(q, b, k)', Clean(b, k)'
                   PROVE  ~ObjectExists(b, k)'
        BY DEF EmptiedOK
      <4>1. Clean(b, k) /\ (Emptied(q, b, k) \/ b = new)
        BY <1>2, <2>3, <3>1 DEF Clean, Emptied
      <4>2. ~ObjectExists(b, k)
        BY <2>4, <3>1, <4>1 DEF RequestOK, EmptiedOK
      <4>3. QED
        BY <1>2, <4>2 DEF ObjectExists
    <3>7. UpsertOK(q)'
      <4> SUFFICES ASSUME req[q].pc = "upsert", req[q].solo \/ Clean(b0, k0)
                   PROVE  files'[b0][k0] = req[q].body
        BY <1>2, <3>1, <3>3 DEF UpsertOK, Clean
      <4>1. q \in Writing /\ Native(q, b0, k0)
        BY <3>1, <3>3, <3>4 DEF Fits, Puts, Writing, ObjectReads, ObjectWrites, Native
      <4>2. QED
        BY <3>1, <3>3, <3>5, <4>1 DEF RequestOK, UpsertOK
    <3>8. MovedOK(q)'
      <4> SUFFICES ASSUME req[q].pc = "updateBucket", NEW k \in Keys,
                          Clean(b0, k), Clean(t0, k), ObjectExists(b0, k)
                   PROVE  FileExists(t0, k)' /\ ETag(files'[t0][k]) = objects[b0][k].etag
        BY <1>2, <3>1, <3>3 DEF MovedOK, Clean, ObjectExists, FileExists
      <4>1. q \in Writing /\ Native(q, t0, k)
        BY <3>1, <3>3, <3>4 DEF Fits, Writing, ObjectReads, Native
      <4>2. files'[t0] = files[t0]
        BY <3>5, <4>1
      <4>3. QED
        BY <3>1, <3>3, <4>2 DEF RequestOK, MovedOK, FileExists
    <3>9. ReadOK(q)'
      BY <1>2, <3>1 DEF RequestOK, ReadOK, Clean
    <3>10. QED
      BY <3>6, <3>7, <3>8, <3>9 DEF RequestOK
  <2>8. RequestOK(r)'
    <3>1. EmptiedOK(r)'
      BY <1>1, <1>2, <2>1, <2>2 DEF EmptiedOK, Emptied, Holding
    <3>2. MovedOK(r)'
      <4> SUFFICES ASSUME NEW k \in Keys, Clean(old, k), ObjectExists(old, k)
                   PROVE  FileExists(new, k)' /\ ETag(files'[new][k]) = objects[old][k].etag
        BY <1>2, <1>7, <1>11 DEF MovedOK, Clean, ObjectExists, FileExists
      <4>1. Matches(old, k)
        BY <1>8
      <4>2. QED
        BY <2>1, <4>1 DEF Matches, FileExists
    <3>3. UpsertOK(r)' /\ ReadOK(r)'
      BY <1>1, <2>2 DEF UpsertOK, ReadOK, SameArgs, ObjectReads
    <3>4. QED
      BY <3>1, <3>2, <3>3 DEF RequestOK
  <2>9. ASSUME NEW b \in Buckets, NEW k \in Keys PROVE PathOK(b, k)'
    <3> SUFFICES ASSUME Clean(b, k)', ObjectExists(b, k)', \A q \in Writing' : ~Between(q, b, k)'
                 PROVE  Matches(b, k)'
      BY DEF PathOK
    <3>1. Clean(b, k) /\ ObjectExists(b, k)
      BY <1>2 DEF Clean, ObjectExists
    <3>2. b # old
      <4>1. Between(r, old, k)'
        BY <1>4, <1>7, <1>11, <2>2, <2>3 DEF Between
      <4>2. QED
        BY <1>4, <2>3, <4>1
    <3>3. b # new
      BY <2>4, <3>1
    <3>4. ASSUME NEW q \in Writing, Between(q, b, k) PROVE FALSE
      <4>1. q # r /\ q \in Requests
        BY <1>5, <3>4 DEF Writing, Active
      <4>2. q \in Writing' /\ Between(q, b, k)'
        BY <2>3, <3>4, <4>1 DEF Between
      <4>3. QED
        BY <4>2
    <3>5. Matches(b, k)
      BY <3>1, <3>4 DEF CleanInv, PathOK
    <3>6. QED
      BY <1>2, <2>1, <3>2, <3>3, <3>5 DEF Matches, FileExists
  <2>10. QED
    BY <2>5, <2>6, <2>7, <2>8, <2>9 DEF CleanInv
<1>12. QED
  BY <1>3, <1>6, <1>10, <1>11 DEF MoveBucketDir

(***************************************************************************)
(* The steps of no handler: arrivals, bucket requests and restarts.         *)
(***************************************************************************)

\* A request that arrives where others are at work takes their claim to be alone
\* away, and leaves what two writes share suspect.
LEMMA ArriveClean ==
  ASSUME BasicInv, CleanInv, NEW r \in Requests, NEW op \in Ops, NEW b0 \in Buckets,
         NEW k0 \in Keys, NEW to \in Buckets, NEW body \in Bodies \cup {None},
         op \in Puts => body \in Bodies, op = "rename" => b0 # to,
         Arrive(r, op, b0, k0, to, body)
  PROVE  CleanInv'
<1> DEFINE rivals == Rivals(r, op, b0, k0, to)
           mine == Touches(op, b0, k0, to)
<1>1. /\ req[r].pc \in Finished /\ r \notin Active
      /\ suspect' = suspect \cup Torn(rivals, op, b0, k0, to)
      /\ UNCHANGED <<objects, files, sweeps>>
  BY DEF Arrive, Active, repoVars, storeVars
<1>2. RequestsFit /\ SoloAlone /\ SharedSuspect /\ sweeps[r] = None
  BY <1>1 DEF BasicInv, CleanInv, SweepsInHand, Finished
<1>3. /\ req'[r].pc = FirstPc(op) /\ req'[r].pc \notin Finished
      /\ req'[r].pc \in {"begin", "unlink", "open", "openPath", "moveDir", "dropBucket", "scan"}
      /\ req'[r].op = op /\ req'[r].bucket = b0 /\ req'[r].key = k0 /\ req'[r].to = to
      /\ req'[r].solo <=> rivals = {} /\ (op \in ObjectReads => Path(b0, k0) \notin suspect)
      /\ op \in ObjectReads => req'[r].entry = objects[b0][k0]
  BY ArriveFits
<1>4. \A q \in Requests \ {r} : Overlapped(q, rivals)
  BY ArriveFits
<1> HIDE DEF rivals
<1>5. ASSUME NEW q \in Requests, q # r
      PROVE  /\ q \in Active' <=> q \in Active
             /\ q \in Active =>
                  /\ q \in Writing' <=> q \in Writing
                  /\ req'[q].pc = req[q].pc /\ req'[q].op = req[q].op
                  /\ req'[q].bucket = req[q].bucket /\ req'[q].key = req[q].key
                  /\ req'[q].to = req[q].to /\ req'[q].body = req[q].body
                  /\ req'[q].entry = req[q].entry
                  /\ req'[q].solo => req[q].solo /\ q \notin rivals
                  /\ \A b \in Buckets, k \in Keys :
                       /\ Native(q, b, k)' <=> Native(q, b, k)
                       /\ Holding(q, b)' <=> Holding(q, b)
  <2>1. Overlapped(q, rivals)
    BY <1>4, <1>5
  <2>2. q \in Active' <=> q \in Active
    BY <2>1 DEF Overlapped, Active
  <2>3. ASSUME q \in Active
        PROVE  /\ req'[q].pc = req[q].pc /\ req'[q].op = req[q].op
               /\ req'[q].bucket = req[q].bucket /\ req'[q].key = req[q].key
               /\ req'[q].to = req[q].to /\ req'[q].body = req[q].body
               /\ req'[q].entry = req[q].entry
               /\ req'[q].solo => req[q].solo /\ q \notin rivals
    BY <2>1, <2>3 DEF Overlapped, Active, Finished, Ended
  <2>4. QED
    BY <1>1, <2>2, <2>3 DEF Writing, Native, Holding
<1>6. ASSUME NEW b \in Buckets, NEW k \in Keys
      PROVE  /\ Path(b, k) \in mine <=> Native(r, b, k)'
             /\ ~Holding(r, b)'
  <2>1. Path(b, k) \in mine <=> Native(r, b, k)'
    BY <1>3, TouchesIs DEF Native
  <2>2. QED
    BY <1>1, <1>2, <2>1 DEF Holding
<1>7. \A b \in Buckets, k \in Keys : Clean(b, k)' => Clean(b, k)
  BY <1>1 DEF Clean
<1>8. ASSUME NEW q \in Active, NEW b \in Buckets, NEW k \in Keys,
             Touching(q, b, k), Native(r, b, k)'
      PROVE  /\ q \in Writing \/ op \notin ObjectReads => q \in rivals
             /\ q \in Writing /\ op \notin ObjectReads => ~Clean(b, k)'
  <2>1. q \in Requests /\ q # r /\ req[q].pc \notin Ended
    BY <1>1 DEF Active, Finished, Ended
  <2>2. Path(b, k) \in TouchedBy(q) /\ Path(b, k) \in mine
    BY <1>2, <1>6, <1>8, <2>1, TouchingIs
  <2>3. q \in Writing \/ op \notin ObjectReads => q \in rivals
    BY <2>1, <2>2 DEF rivals, Rivals
  <2>4. QED
    BY <1>1, <2>2, <2>3 DEF Torn, Clean
<1>9. ASSUME NEW b \in Buckets, NEW k \in Keys, Clean(b, k), ~Clean(b, k)'
      PROVE  Native(r, b, k)' /\ op \notin ObjectReads
  <2>1. Path(b, k) \in Torn(rivals, op, b0, k0, to)
    BY <1>1, <1>9 DEF Clean
  <2>2. QED
    BY <1>6, <2>1 DEF Torn
<1>10. r \in Writing' => op \notin ObjectReads
  BY <1>3 DEF Writing
<1>11. SoloAlone'
  <2> SUFFICES ASSUME NEW a \in Active', NEW q \in Writing', NEW b \in Buckets, NEW k \in Keys,
                      a # q, req'[a].solo, Native(a, b, k)', Touching(q, b, k)'
               PROVE  FALSE
    BY DEF SoloAlone
  <2>1. a \in Requests /\ q \in Requests /\ q \in Active'
    BY DEF Active, Writing
  <2>2. CASE a = r
    <3>1. q \in Writing /\ q \in Active /\ Touching(q, b, k)
      BY <1>5, <2>1, <2>2 DEF Touching
    <3>2. q \in rivals
      BY <1>8, <2>2, <3>1
    <3>3. QED
      BY <1>3, <2>2, <3>2
  <2>3. CASE q = r
    <3>1. a \in Active /\ Touching(a, b, k) /\ a \notin rivals
      BY <1>5, <2>1, <2>3 DEF Touching
    <3>2. Native(r, b, k)'
      BY <1>6, <2>3 DEF Touching
    <3>3. QED
      BY <1>8, <1>10, <2>3, <3>1, <3>2
  <2>4. CASE a # r /\ q # r
    BY <1>2, <1>5, <2>1, <2>4 DEF SoloAlone, Touching
  <2>5. QED
    BY <2>2, <2>3, <2>4
<1>12. SharedSuspect'
  <2> SUFFICES ASSUME NEW a \in Writing', NEW q \in Writing', NEW b \in Buckets, NEW k \in Keys,
                      a # q, Native(a, b, k)', Touching(q, b, k)', Clean(b, k)'
               PROVE  /\ ~Native(q, b, k)'
                      /\ req'[a].pc = "updateBucket"
                      /\ b = req'[a].to
                      /\ Path(req'[a].bucket, k) \in suspect'
    BY DEF SharedSuspect, Clean
  <2>1. a \in Requests /\ q \in Requests /\ a \in Active' /\ q \in Active'
    BY DEF Active, Writing
  <2>2. CASE a = r
    <3>1. q \in Writing /\ q \in Active /\ Touching(q, b, k)
      BY <1>5, <2>1, <2>2 DEF Touching
    <3>2. QED
      BY <1>8, <1>10, <2>2, <3>1
  <2>3. CASE q = r
    <3>1. a \in Writing /\ a \in Active /\ Touching(a, b, k)
      BY <1>5, <2>1, <2>3 DEF Touching
    <3>2. Native(r, b, k)'
      BY <1>6, <2>3 DEF Touching
    <3>3. QED
      BY <1>8, <1>10, <2>3, <3>1, <3>2
  <2>4. CASE a # r /\ q # r
    <3>1. a \in Writing /\ q \in Writing /\ Native(a, b, k) /\ Touching(q, b, k) /\ Clean(b, k)
      BY <1>5, <1>7, <2>1, <2>4 DEF Touching
    <3>2. ~Native(q, b, k) /\ req[a].pc = "updateBucket" /\ b = req[a].to /\ ~Clean(req[a].bucket, k)
      BY <1>2, <3>1 DEF SharedSuspect
    <3>3. QED
      BY <1>1, <1>5, <2>1, <2>4, <3>2 DEF Clean
  <2>5. QED
    BY <2>2, <2>3, <2>4
<1>13. ASSUME NEW q \in Active', q # r PROVE RequestOK(q)'
  <2>1. q \in Requests /\ q \in Active /\ RequestOK(q) /\ req[q].pc \notin Ended
    BY <1>5, <1>13 DEF Active, CleanInv, Finished, Ended
  <2>2. /\ req'[q].pc = req[q].pc /\ req'[q].op = req[q].op
        /\ req'[q].bucket = req[q].bucket /\ req'[q].key = req[q].key
        /\ req'[q].to = req[q].to /\ req'[q].body = req[q].body
        /\ req'[q].entry = req[q].entry
        /\ req'[q].solo => req[q].solo /\ q \notin rivals
        /\ req[q].bucket \in Buckets /\ req[q].key \in Keys /\ req[q].to \in Buckets
    BY <1>2, <1>5, <1>13, <2>1, Carries
  <2>3. EmptiedOK(q)'
    BY <1>1, <1>5, <1>7, <1>13, <2>1, <2>2 DEF RequestOK, EmptiedOK, Emptied, ObjectExists
  <2>4. UpsertOK(q)'
    BY <1>1, <2>1, <2>2 DEF RequestOK, UpsertOK, Clean
  <2>5. MovedOK(q)'
    BY <1>1, <2>1, <2>2 DEF RequestOK, MovedOK, Clean, ObjectExists, FileExists
  <2>6. ReadOK(q)'
    <3> SUFFICES ASSUME req[q].op \in ObjectReads, req'[q].solo
                 PROVE  /\ Path(req[q].bucket, req[q].key) \notin suspect'
                        /\ objects[req[q].bucket][req[q].key] = req[q].entry
      BY <1>1, <2>2 DEF ReadOK, Clean
    <3>1. Clean(req[q].bucket, req[q].key) /\ objects[req[q].bucket][req[q].key] = req[q].entry
      BY <2>1, <2>2 DEF RequestOK, ReadOK
    <3>2. PICK b \in Buckets, k \in Keys : b = req[q].bucket /\ k = req[q].key
      BY <2>2
    <3>3. Touching(q, b, k)
      BY <3>2 DEF Touching, Native
    <3>4. Clean(b, k)'
      BY <1>8, <1>9, <2>1, <2>2, <3>1, <3>2, <3>3
    <3>5. QED
      BY <3>1, <3>2, <3>4 DEF Clean
  <2>7. QED
    BY <2>3, <2>4, <2>5, <2>6 DEF RequestOK
<1>14. RequestOK(r)'
  <2>1. EmptiedOK(r)'
    <3>1. req'[r].pc # "sweep" /\ (op = "plainDelete" => req'[r].pc = "dropBucket")
      BY <1>3 DEF FirstPc
    <3>2. QED
      BY <1>3, <1>6, <3>1 DEF EmptiedOK, Emptied
  <2>2. UpsertOK(r)' /\ MovedOK(r)'
    BY <1>3 DEF UpsertOK, MovedOK
  <2>3. ReadOK(r)'
    <3> SUFFICES ASSUME op \in ObjectReads, req'[r].solo
                 PROVE  Clean(b0, k0)' /\ objects[b0][k0] = req'[r].entry
      BY <1>1, <1>3 DEF ReadOK, Clean
    <3>1. Clean(b0, k0)
      BY <1>3 DEF Clean
    <3>2. QED
      BY <1>3, <1>9, <3>1
  <2>4. QED
    BY <2>1, <2>2, <2>3 DEF RequestOK
<1>15. ASSUME NEW b \in Buckets, NEW k \in Keys PROVE PathOK(b, k)'
  <2> SUFFICES ASSUME Clean(b, k)', ObjectExists(b, k)', \A q \in Writing' : ~Between(q, b, k)'
               PROVE  Matches(b, k)'
    BY DEF PathOK
  <2>1. ASSUME NEW q \in Writing, Between(q, b, k) PROVE FALSE
    <3>1. q \in Requests /\ q # r /\ q \in Active
      BY <1>1 DEF Writing, Active
    <3>2. q \in Writing' /\ Between(q, b, k)'
      BY <1>5, <2>1, <3>1 DEF Between
    <3>3. QED
      BY <3>2
  <2>2. Matches(b, k)
    BY <1>1, <1>7, <2>1 DEF CleanInv, PathOK, ObjectExists
  <2>3. QED
    BY <1>1, <2>2 DEF Matches, FileExists
<1>16. QED
  BY <1>11, <1>12, <1>13, <1>14, <1>15 DEF CleanInv

\* An arrival keeps the invariant.
LEMMA ArrivalClean ==
  ASSUME BasicInv, CleanInv, NEW r \in Requests, Arrivals(r)
  PROVE  CleanInv'
<1>1. PICK op \in Ops, b \in Buckets, k \in Keys, to \in Buckets, body \in Bodies \cup {None} :
         /\ op \in Puts => body \in Bodies
         /\ op = "rename" => b # to
         /\ Arrive(r, op, b, k, to, body)
  BY ArrivalArguments
<1>2. QED
  BY <1>1, ArriveClean

\* So does whatever leaves objects, files, removals and requests alone.
LEMMA StutterClean ==
  ASSUME CleanInv, UNCHANGED <<objects, files, sweeps, req, suspect>>
  PROVE  CleanInv'
<1> USE DEF Clean, Native, Holding, Touching, Writing, Active
<1>1. SoloAlone' /\ SharedSuspect'
  BY DEF CleanInv, SoloAlone, SharedSuspect
<1>2. ASSUME NEW r \in Active PROVE RequestOK(r)'
  BY DEF CleanInv, RequestOK, EmptiedOK, Emptied, UpsertOK, MovedOK, ReadOK, ObjectExists, FileExists
<1>3. ASSUME NEW b \in Buckets, NEW k \in Keys PROVE PathOK(b, k)'
  BY DEF CleanInv, PathOK, Between, Matches, ObjectExists, FileExists
<1>4. QED
  BY <1>1, <1>2, <1>3 DEF CleanInv

\* A stop of the process cuts writes off: those between their two stores leave
\* what they touched suspect.
LEMMA RestartClean ==
  ASSUME BasicInv, CleanInv, Restart
  PROVE  CleanInv'
<1>1. UNCHANGED files /\ req' = [r \in Requests |-> NoRequest]
  BY DEF Restart, LoseRequests
<1>2. Active' = {} /\ Writing' = {}
  BY <1>1 DEF Active, Writing, Finished, NoRequest
<1>3. ASSUME NEW b \in Buckets, NEW k \in Keys PROVE PathOK(b, k)'
  <2> SUFFICES ASSUME Clean(b, k)', ObjectExists(b, k)' PROVE Matches(b, k)'
    BY DEF PathOK
  <2>1. CASE ForgetAll
    BY <2>1 DEF ForgetAll, NoObjects, ObjectExists
  <2>2. CASE UNCHANGED repoVars /\ suspect' = suspect \cup UNION {TouchedBy(r) : r \in Halfway}
    <3>1. Clean(b, k) /\ ObjectExists(b, k)
      BY <2>2 DEF Clean, ObjectExists, repoVars
    <3>2. ASSUME NEW q \in Writing, Between(q, b, k) PROVE FALSE
      <4>1. q \in Halfway /\ q \in Requests /\ req[q].pc \notin Ended
        BY <3>2 DEF Between, Halfway, Writing, Active, Finished, Ended
      <4>2. Path(b, k) \in TouchedBy(q)
        BY <3>2, <4>1, TouchingIs DEF Between, Touching, BasicInv
      <4>3. QED
        BY <2>2, <4>1, <4>2 DEF Clean
    <3>3. Matches(b, k)
      BY <3>1, <3>2 DEF CleanInv, PathOK
    <3>4. QED
      BY <1>1, <2>2, <3>3 DEF Matches, FileExists, repoVars
  <2>3. QED
    BY <2>1, <2>2 DEF Restart
<1>4. QED
  BY <1>2, <1>3 DEF CleanInv, SoloAlone, SharedSuspect

\* The invariant holds when the process first starts.
LEMMA CleanInit == ObjectInit => CleanInv
<1> SUFFICES ASSUME ObjectInit PROVE CleanInv
  OBVIOUS
<1>1. Active = {} /\ Writing = {}
  BY DEF ObjectInit, Active, Writing, Finished, NoRequest
<1>2. \A b \in Buckets, k \in Keys : ~ObjectExists(b, k)
  BY DEF ObjectInit, RepoInit, NoObjects, ObjectExists
<1>3. QED
  BY <1>1, <1>2 DEF CleanInv, SoloAlone, SharedSuspect, PathOK

\* Every step keeps the invariant.
LEMMA CleanStep == BasicInv /\ CleanInv /\ [ObjectNext]_objectVars => CleanInv'
<1> SUFFICES ASSUME BasicInv, CleanInv, [ObjectNext]_objectVars PROVE CleanInv'
  OBVIOUS
<1>1. ASSUME NEW r \in Requests, Arrivals(r) PROVE CleanInv'
  BY <1>1, ArrivalClean
<1>2. ASSUME NEW r \in Requests, ReceiveBody(r) PROVE CleanInv'
  BY <1>2, PutTempClean
<1>3. ASSUME NEW r \in Requests, ServerStep(r) PROVE CleanInv'
  BY <1>3, PutTempClean, PublishPutClean, UpsertPutClean, OpenClean, UnlinkClean, ForgetClean,
     MoveDirClean, UpdateBucketClean, DropBucketClean, ScanClean, SweepClean, DropAllClean
     DEF ServerStep
<1>4. CASE CreateBucketRequest \/ DeleteBucketRequest
  <2>1. UNCHANGED <<objects, files, sweeps, req, suspect>>
    BY <1>4 DEF CreateBucketRequest, DeleteBucketRequest, CreateBucket, DeleteBucket, storeVars
  <2>2. QED
    BY <2>1, StutterClean
<1>5. CASE Restart
  BY <1>5, RestartClean
<1>6. CASE UNCHANGED objectVars
  <2>1. UNCHANGED <<objects, files, sweeps, req, suspect>>
    BY <1>6 DEF objectVars, repoVars, storeVars
  <2>2. QED
    BY <2>1, StutterClean
<1>7. QED
  BY <1>1, <1>2, <1>3, <1>4, <1>5, <1>6 DEF ObjectNext

\* Together the two invariants hold of every behaviour of the service.
THEOREM CleanInvariant == ObjectSpec => [](BasicInv /\ CleanInv)
<1>1. ObjectInit => BasicInv /\ CleanInv
  BY BasicInit, CleanInit
<1>2. (BasicInv /\ CleanInv) /\ [ObjectNext]_objectVars => (BasicInv /\ CleanInv)'
  BY BasicStep, CleanStep
<1>3. QED
  BY <1>1, <1>2, PTL DEF ObjectSpec

\* Between writes the metadata of an object describes the file at its path,
\* unless conflicting requests have torn it: whatever puts, deletes, renames,
\* removals, restarts and failed repository calls came before.
THEOREM MetadataMatchesFiles == ObjectSpec => []Settled
<1>1. BasicInv /\ CleanInv => Settled
  <2> SUFFICES ASSUME BasicInv, CleanInv, NEW b \in Buckets, NEW k \in Keys,
                      ObjectExists(b, k), Path(b, k) \notin suspect, Quiet(b, k)
               PROVE  Matches(b, k)
    BY DEF Settled
  <2>1. ASSUME NEW q \in Writing, Between(q, b, k) PROVE FALSE
    <3>1. q \in Requests /\ req[q].pc \notin Ended
      BY DEF Writing, Active, Finished, Ended
    <3>2. Path(b, k) \in TouchedBy(q)
      BY <2>1, <3>1, TouchingIs DEF Between, Touching, BasicInv
    <3>3. QED
      BY <3>2 DEF Quiet
  <2>2. QED
    BY <2>1 DEF CleanInv, PathOK, Clean
<1>2. QED
  BY <1>1, CleanInvariant, PTL

(***************************************************************************)
(* What reads and puts are told.                                           *)
(***************************************************************************)

\* A step of a handler is about its own request, and only the opening of a file
\* answers a read.
LEMMA HandlerMoves ==
  ASSUME RequestsFit, NEW r \in Requests, ReceiveBody(r) \/ ServerStep(r)
  PROVE  /\ OthersStay(r) /\ r \in Active
         /\ req'[r].pc = "answered" => OpenPhysical(r) \/ OpenObject(r)
         /\ req[r].pc = "upsert" => UpsertPut(r)
         /\ req[r].pc = "scan" => ScanBucketDir(r)
         /\ req[r].pc = "sweep" => SweepBucketDir(r)
         /\ req[r].pc = "dropAll" => DropBucketAndObjects(r)
<1> USE DEF ServerStep, BeginPut, ReceiveBody, PublishPut, UpsertPut, OpenPhysical, OpenObject,
      UnlinkObject, ForgetObject, MoveBucketDir, UpdateBucketMeta, DropBucketMeta, ScanBucketDir,
      SweepBucketDir, DropBucketAndObjects
<1>1. r \in Active /\ req[r].pc \notin Ended
  BY DEF At, Active, Finished, Ended
<1>2. /\ \/ OpenPhysical(r) \/ OpenObject(r)
         \/ UNCHANGED req
         \/ \E pc \in Pcs \ {"answered"} : Goto(r, pc)
         \/ Finish(r, "ok") \/ Fail(r)
  BY DEF Pcs, AfterSweep, CallFails
<1>3. CASE OpenPhysical(r) \/ OpenObject(r)
  <2>1. OthersStay(r)
    BY <1>3 DEF Answer, Goto, Fail, OthersStay, RequestsFit
  <2>2. QED
    BY <1>1, <1>3, <2>1 DEF At
<1>4. CASE UNCHANGED req
  BY <1>1, <1>4 DEF OthersStay, At
<1>5. CASE \E pc \in Pcs \ {"answered"} : Goto(r, pc)
  <2>1. PICK pc \in Pcs \ {"answered"} : Goto(r, pc)
    BY <1>5
  <2>2. req[r] \in Handling
    BY <1>1, Carries
  <2>3. OthersStay(r) /\ req'[r].pc = pc
    BY <2>1, <2>2 DEF Goto, OthersStay, RequestsFit, Handling
  <2>4. QED
    BY <1>1, <2>3 DEF At
<1>6. CASE Finish(r, "ok") \/ Fail(r)
  <2>1. OthersStay(r) /\ req'[r].pc \in Ended
    BY <1>6, EndFits
  <2>2. QED
    BY <1>1, <2>1 DEF At, Ended
<1>7. QED
  BY <1>2, <1>3, <1>4, <1>5, <1>6

\* Where a request is in its handler changes with a step of its own, with its
\* arrival, or with the end of the process.
LEMMA WhoMoves ==
  ASSUME BasicInv, [ObjectNext]_objectVars, NEW r \in Requests
  PROVE  \/ ReceiveBody(r) \/ ServerStep(r)
         \/ Arrivals(r)
         \/ Restart
         \/ req'[r] = req[r]
         \/ req'[r].pc = req[r].pc /\ r \in Active
<1>1. CASE UNCHANGED objectVars
  BY <1>1 DEF objectVars
<1>2. CASE CreateBucketRequest \/ DeleteBucketRequest
  BY <1>2 DEF CreateBucketRequest, DeleteBucketRequest
<1>3. ASSUME NEW q \in Requests \ {r}, ReceiveBody(q) \/ ServerStep(q)
      PROVE  req'[r] = req[r]
  BY <1>3, HandlerMoves DEF BasicInv, OthersStay
<1>4. ASSUME NEW q \in Requests \ {r}, Arrivals(q)
      PROVE  req'[r] = req[r] \/ (req'[r].pc = req[r].pc /\ r \in Active)
  <2>1. PICK op \in Ops, b \in Buckets, k \in Keys, to \in Buckets, body \in Bodies \cup {None} :
           /\ op \in Puts => body \in Bodies
           /\ op = "rename" => b # to
           /\ Arrive(q, op, b, k, to, body)
    BY <1>4, ArrivalArguments
  <2>2. Overlapped(r, Rivals(q, op, b, k, to))
    BY <2>1, ArriveFits
  <2>3. QED
    BY <2>2 DEF Overlapped
<1>5. QED
  BY <1>1, <1>2, <1>3, <1>4 DEF ObjectNext

\* A read that is alone opens the file its metadata describes.
LEMMA OpenReads ==
  ASSUME BasicInv, CleanInv, NEW r \in Requests, OpenPhysical(r) \/ OpenObject(r),
         req'[r].pc = "answered", req'[r].solo,
         req'[r].from = Path(req'[r].bucket, req'[r].key)
  PROVE  ETag(req'[r].body) = req'[r].entry.etag
<1>1. req[r].pc \in {"openPath", "open"} /\ r \in Active /\ req[r].pc \notin Ended
  BY DEF OpenPhysical, OpenObject, At, Active, Finished, Ended
<1>2. /\ RequestsFit /\ StoreTypeOK /\ RequestOK(r) /\ req[r] \in Handling
      /\ req[r].op \in ObjectReads /\ req[r].entry \in Entries
  BY <1>1, Carries DEF BasicInv, CleanInv, Fits
<1>3. PICK b \in Buckets, k \in Keys : b = req[r].bucket /\ k = req[r].key
  BY <1>1, <1>2, Carries
<1>4. PICK path \in Paths : FileExists(path[1], path[2]) /\ Answer(r, path)
  <2>1. req[r].entry.path \in Paths /\ Path(b, k) \in Paths
    BY <1>2 DEF Entries, Path, Paths
  <2>2. ASSUME NEW pc \in {"open"}, Goto(r, pc) PROVE FALSE
    <3>1. req'[r].pc = pc
      BY <1>2, <2>2 DEF Goto, RequestsFit, Handling
    <3>2. QED
      BY <3>1
  <2>3. ~Fail(r)
    BY <1>2, EndFits DEF Ended
  <2>4. CASE OpenPhysical(r)
    BY <2>1, <2>2, <2>4 DEF OpenPhysical
  <2>5. CASE OpenObject(r)
    <3>1. FileExists(b, k) /\ Answer(r, Path(b, k))
      BY <1>3, <2>3, <2>5 DEF OpenObject
    <3>2. Path(b, k)[1] = b /\ Path(b, k)[2] = k
      BY DEF Path
    <3>3. QED
      BY <2>1, <3>1, <3>2
  <2>6. QED
    BY <2>4, <2>5
<1>5. /\ SameArgs(r) /\ req'[r].body = files[path[1]][path[2]] /\ req'[r].entry = req[r].entry
      /\ req'[r].from = path
  <2>1. req'[r].from = path
    BY <1>2, <1>4 DEF Answer, RequestsFit, Handling
  <2>2. QED
    BY <1>1, <1>2, <1>4, <2>1, AnswerFits
<1>6. path = Path(b, k) /\ path[1] = b /\ path[2] = k /\ req[r].solo
  <2>1. req[r].solo
    BY <1>5 DEF SameArgs
  <2>2. path = Path(b, k)
    BY <1>3, <1>5 DEF SameArgs
  <2>3. QED
    BY <2>1, <2>2 DEF Path
<1>7. Clean(b, k) /\ objects[b][k] = req[r].entry
  BY <1>2, <1>3, <1>6 DEF RequestOK, ReadOK
<1>8. ObjectExists(b, k)
  BY <1>2, <1>7, SentinelAssumption DEF ObjectExists, Entries
<1>9. \A q \in Writing : ~Between(q, b, k)
  <2>1. r \notin Writing /\ Native(r, b, k)
    BY <1>2, <1>3 DEF Writing, Native
  <2>2. QED
    BY <1>1, <1>6, <2>1 DEF CleanInv, SoloAlone, Between, Touching
<1>10. Matches(b, k)
  BY <1>7, <1>8, <1>9 DEF CleanInv, PathOK
<1>11. QED
  BY <1>5, <1>6, <1>7, <1>10 DEF Matches

\* A read that overlapped no write of its object is answered, from the object's
\* own path, with the body whose ETag is in its header.
THEOREM ReadsAlwaysMatch == ObjectSpec => []ReadsMatch
<1>1. ObjectInit => ReadsMatch
  BY DEF ObjectInit, NoRequest, ReadsMatch
<1>2. (BasicInv /\ CleanInv) /\ ReadsMatch /\ [ObjectNext]_objectVars => ReadsMatch'
  <2> SUFFICES ASSUME BasicInv, CleanInv, ReadsMatch, [ObjectNext]_objectVars, NEW r \in Requests,
                      req'[r].pc = "answered", req'[r].solo,
                      req'[r].from = Path(req'[r].bucket, req'[r].key)
               PROVE  ETag(req'[r].body) = req'[r].entry.etag
    BY DEF ReadsMatch
  <2>1. CASE ReceiveBody(r) \/ ServerStep(r)
    BY <2>1, HandlerMoves, OpenReads DEF BasicInv
  <2>2. ~Arrivals(r)
    <3> SUFFICES ASSUME Arrivals(r) PROVE FALSE
      OBVIOUS
    <3>1. PICK op \in Ops, b \in Buckets, k \in Keys, to \in Buckets, body \in Bodies \cup {None} :
             /\ op \in Puts => body \in Bodies
             /\ op = "rename" => b # to
             /\ Arrive(r, op, b, k, to, body)
      BY ArrivalArguments
    <3>2. req'[r].pc \notin Finished
      BY <3>1, ArriveFits
    <3>3. QED
      BY <3>2 DEF Finished
  <2>3. ~Restart
    BY DEF Restart, NoRequest
  <2>4. CASE req'[r] = req[r]
    BY <2>4 DEF ReadsMatch
  <2>5. ~(req'[r].pc = req[r].pc /\ r \in Active)
    BY DEF Active, Finished
  <2>6. QED
    BY <2>1, <2>2, <2>3, <2>4, <2>5, WhoMoves
<1>3. QED
  BY <1>1, <1>2, CleanInvariant, PTL DEF ObjectSpec

\* A put that overlapped no conflicting request and is answered 200 has stored
\* its own body and its own metadata.
THEOREM AcknowledgedPutsAreStored == ObjectSpec => AcknowledgedPutsStored
<1>1. (BasicInv /\ CleanInv) /\ [ObjectNext]_objectVars =>
        [\A r \in Requests :
           req[r].pc = "upsert" /\ req'[r].pc = "ok" /\ req[r].solo
             => LET b == req[r].bucket
                    k == req[r].key
                IN  /\ files'[b][k] = req[r].body
                    /\ objects'[b][k] = Entry(b, k, ETag(req[r].body))]_objectVars
  <2> SUFFICES ASSUME BasicInv, CleanInv, [ObjectNext]_objectVars, NEW r \in Requests,
                      req[r].pc = "upsert", req'[r].pc = "ok", req[r].solo
               PROVE  /\ files'[req[r].bucket][req[r].key] = req[r].body
                      /\ objects'[req[r].bucket][req[r].key]
                           = Entry(req[r].bucket, req[r].key, ETag(req[r].body))
    OBVIOUS
  <2>1. r \in Active /\ req[r].pc \notin Ended /\ RequestOK(r)
    BY DEF Active, Finished, Ended, CleanInv
  <2>2. UpsertPut(r)
    <3>1. ~Arrivals(r)
      BY <2>1 DEF Arrivals, Arrive, Active
    <3>2. ~Restart
      BY DEF Restart, NoRequest
    <3>3. QED
      BY <3>1, <3>2, WhoMoves, HandlerMoves DEF BasicInv
  <2>3. ~Fail(r)
    BY DEF Fail, BasicInv, RequestsFit, NoRequest
  <2>4. UpsertObject(req[r].bucket, req[r].key, ETag(req[r].body)) /\ UNCHANGED storeVars
    BY <2>2, <2>3 DEF UpsertPut, CallFails, RepoStep
  <2>5. files[req[r].bucket][req[r].key] = req[r].body
    BY <2>1 DEF RequestOK, UpsertOK
  <2>6. req[r].bucket \in Buckets /\ req[r].key \in Keys
    BY <2>1, Carries DEF BasicInv
  <2>7. objects'[req[r].bucket][req[r].key] = Entry(req[r].bucket, req[r].key, ETag(req[r].body))
    BY <2>4, <2>6 DEF UpsertObject, BasicInv, RepoInv, RepoTypeOK
  <2>8. QED
    BY <2>4, <2>5, <2>7 DEF storeVars
<1>2. QED
  BY <1>1, CleanInvariant, PTL DEF ObjectSpec, AcknowledgedPutsStored

(***************************************************************************)
(* With a database, only writes change what is stored.                      *)
(***************************************************************************)

\* A step of a handler changes an object, its file or its metadata, only when
\* its request is a write that touches it.
LEMMA HandlerTouches ==
  ASSUME BasicInv, NEW r \in Requests, ReceiveBody(r) \/ ServerStep(r),
         NEW b \in Buckets, NEW k \in Keys,
         objects'[b][k] # objects[b][k] \/ files'[b][k] # files[b][k]
  PROVE  r \in Writing /\ Touching(r, b, k)
<1>1. r \in Active /\ req[r].pc \notin Ended /\ RequestsFit
  BY HandlerMoves DEF BasicInv, Active, Finished, Ended
<1>2. /\ req[r].bucket \in Buckets /\ req[r].key \in Keys /\ req[r].to \in Buckets /\ Fits(req[r])
      /\ objects \in [Buckets -> [Keys -> Entries \cup {None}]] /\ StoreTypeOK
  BY <1>1, Carries DEF BasicInv, RepoInv, RepoTypeOK
<1>3. CASE BeginPut(r) \/ ReceiveBody(r) \/ OpenPhysical(r) \/ OpenObject(r) \/ ScanBucketDir(r)
  <2>1. UNCHANGED <<objects, files>>
    BY <1>3 DEF BeginPut, ReceiveBody, OpenPhysical, OpenObject, ScanBucketDir, StoreStep, repoVars,
       storeVars, CreateTemp, CreateTempFails, CopyBody, RemoveTemp, StartSweep, SweepNoop
  <2>2. QED
    BY <2>1
<1>4. CASE PublishPut(r)
  <2>1. req[r].op \in Puts
    BY <1>4 DEF PublishPut, At
  <2>2. objects' = objects /\ (files'[b][k] # files[b][k] => b = req[r].bucket /\ k = req[r].key)
    BY <1>2, <1>4 DEF PublishPut, StoreStep, repoVars, Publish, PublishFails, RemoveTemp, StoreTypeOK
  <2>3. QED
    BY <1>1, <2>1, <2>2 DEF Writing, Touching, Native, Puts, ObjectReads, ObjectWrites
<1>5. CASE UpsertPut(r)
  <2>1. req[r].op \in Puts
    BY <1>5 DEF UpsertPut, At
  <2>2. files' = files /\ (objects'[b][k] # objects[b][k] => b = req[r].bucket /\ k = req[r].key)
    BY <1>2, <1>5 DEF UpsertPut, RepoStep, storeVars, UpsertObject, CallFails, repoVars
  <2>3. QED
    BY <1>1, <2>1, <2>2 DEF Writing, Touching, Native, Puts, ObjectReads, ObjectWrites
<1>6. CASE UnlinkObject(r) \/ ForgetObject(r)
  <2>1. req[r].op = "delete"
    BY <1>6 DEF UnlinkObject, ForgetObject, At
  <2>2. b = req[r].bucket /\ k = req[r].key
    BY <1>2, <1>6 DEF UnlinkObject, ForgetObject, StoreStep, RepoStep, storeVars, repoVars, UnlinkFile,
       DeleteObject, CallFails, StoreTypeOK
  <2>3. QED
    BY <1>1, <2>1, <2>2 DEF Writing, Touching, Native, ObjectReads, ObjectWrites
<1>7. CASE MoveBucketDir(r) \/ UpdateBucketMeta(r)
  <2>1. req[r].op = "rename"
    BY <1>7 DEF MoveBucketDir, UpdateBucketMeta, At
  <2>2. b \in {req[r].bucket, req[r].to}
    BY <1>2, <1>7 DEF MoveBucketDir, UpdateBucketMeta, StoreStep, RepoStep, storeVars, repoVars,
       MoveDir, MoveDirNoop, MoveDirFails, RenameBucketTo, StoreTypeOK
  <2>3. QED
    BY <1>1, <2>1, <2>2 DEF Writing, Touching, Native, ObjectReads, ObjectWrites
<1>8. CASE DropBucketMeta(r) \/ DropBucketAndObjects(r)
  <2>1. req[r].op \in Removes
    BY <1>8 DEF DropBucketMeta, DropBucketAndObjects, At, Removes
  <2>2. b = req[r].bucket
    BY <1>2, <1>8 DEF DropBucketMeta, DropBucketAndObjects, RepoStep, storeVars, repoVars,
       DeleteBucket, DeleteBucketRecursive, CallFails
  <2>3. QED
    BY <1>1, <2>1, <2>2 DEF Writing, Touching, Native, Removes, ObjectReads, ObjectWrites
<1>9. CASE SweepBucketDir(r)
  <2>1. req[r].op \in Removes /\ req[r].pc = "sweep" /\ objects' = objects
    BY <1>9 DEF SweepBucketDir, At, StoreStep, repoVars
  <2>2. sweeps[r] # None
    BY <2>1 DEF BasicInv, SweepsInHand
  <2>3. b = sweeps[r].dir
    <3>1. CASE (\E j \in Keys : SweepFile(r, j)) \/ (\E q \in Requests : SweepTemp(r, q))
      BY <1>2, <2>1, <2>2, <3>1, SweepOneEffect
    <3>2. CASE RemoveDir(r, req[r].bucket) \/ RemoveDirFails(r, req[r].bucket)
      BY <2>1, <3>2 DEF RemoveDir, RemoveDirFails
    <3>3. QED
      BY <1>9, <3>1, <3>2 DEF SweepBucketDir
  <2>4. QED
    BY <1>1, <2>1, <2>2, <2>3 DEF Writing, Touching, Holding, Removes, ObjectReads
<1>10. QED
  BY <1>3, <1>4, <1>5, <1>6, <1>7, <1>8, <1>9 DEF ServerStep

(***************************************************************************)
(* What a removal is told.                                                  *)
(***************************************************************************)

\* A request of whose bucket b is not leaves the files of b, its directory and
\* what another removal has read of it.
Away(r, b) == \A k \in Keys : ~(r \in Writing /\ Touching(r, b, k))

LeavesAlone(q, b) ==
    /\ files'[b] = files[b]
    /\ b \in dirs' <=> b \in dirs
    /\ TempsIn(b)' \subseteq TempsIn(b)
    /\ \A r \in Requests \ {q} : sweeps[r] # None /\ sweeps[r].dir = b =>
         /\ sweeps'[r] # None /\ sweeps'[r].dir = b
         /\ sweeps'[r].keys = sweeps[r].keys
         /\ \A t \in TempsIn(b)' : t \in sweeps[r].temps => t \in sweeps'[r].temps

\* What a handler does in another bucket.
LEMMA AwayLeaves ==
  ASSUME BasicInv, NEW q \in Requests, ReceiveBody(q) \/ ServerStep(q),
         NEW b \in Buckets, Away(q, b)
  PROVE  LeavesAlone(q, b)
<1>1. q \in Active /\ req[q].pc \notin Ended /\ RequestsFit /\ StoreTypeOK
  BY HandlerMoves DEF BasicInv, Active, Finished, Ended
<1>2. /\ req[q].bucket \in Buckets /\ req[q].key \in Keys /\ req[q].to \in Buckets /\ Fits(req[q])
      /\ req[q].op \in Ops
  BY <1>1, Carries
<1>3. PICK k \in Keys : TRUE
  BY KeysAssumption
<1>4. files'[b] = files[b]
  <2>1. \A j \in Keys : files'[b][j] = files[b][j]
    BY HandlerTouches DEF Away
  <2>2. files \in [Buckets -> [Keys -> Body \cup {None}]] /\ files' \in [Buckets -> [Keys -> Body \cup {None}]]
    BY BasicStep DEF BasicInv, StoreTypeOK, ObjectNext
  <2>3. QED
    BY <2>1, <2>2
<1>5. CASE UNCHANGED <<dirs, temps, sweeps>>
  BY <1>4, <1>5 DEF LeavesAlone, TempsIn
<1>6. CASE req[q].op \in Puts /\ (BeginPut(q) \/ ReceiveBody(q) \/ PublishPut(q))
  <2>1. req[q].bucket # b
    BY <1>1, <1>2, <1>6 DEF Away, Touching, Native, Writing, Puts, ObjectReads, ObjectWrites
  <2>2. CASE CreateTemp(q, req[q].bucket)
    <3>1. /\ dirs' = dirs \cup {req[q].bucket}
          /\ temps'[q] # None /\ temps'[q].dir = req[q].bucket
          /\ \A p \in Requests \ {q} : temps'[p] = temps[p]
          /\ \A p \in Requests :
               /\ sweeps'[p] = None <=> sweeps[p] = None
               /\ sweeps[p] # None =>
                    /\ sweeps'[p].dir = sweeps[p].dir
                    /\ sweeps'[p].keys = sweeps[p].keys
                    /\ sweeps'[p].temps = sweeps[p].temps \ {q}
      BY <1>1, <1>2, <2>2, CreateTempEffect
    <3>2. TempsIn(b)' \subseteq TempsIn(b) \ {q}
      BY <2>1, <3>1 DEF TempsIn
    <3>3. QED
      BY <1>4, <2>1, <3>1, <3>2 DEF LeavesAlone
  <2>3. CASE CreateTempFails(req[q].bucket)
    BY <1>4, <2>1, <2>3 DEF LeavesAlone, CreateTempFails, TempsIn
  <2>4. CASE CopyBody(q, req[q].body)
    <3>1. req[q].body \in Body
      BY <1>1, <1>2, <1>6, BodiesAssumption DEF Fits, Body, BeginPut, ReceiveBody, PublishPut, At
    <3>2. /\ UNCHANGED <<dirs, files, sweeps>>
          /\ temps'[q] = None <=> temps[q] = None
          /\ temps[q] # None => temps'[q].dir = temps[q].dir
          /\ \A p \in Requests \ {q} : temps'[p] = temps[p]
      BY <1>1, <2>4, <3>1, CopyBodyEffect
    <3>3. TempsIn(b)' \subseteq TempsIn(b)
      BY <3>2 DEF TempsIn
    <3>4. QED
      BY <1>4, <3>2, <3>3 DEF LeavesAlone
  <2>5. CASE UNCHANGED <<dirs, sweeps>> /\ temps' = [temps EXCEPT ![q] = None]
    <3>1. TempsIn(b)' \subseteq TempsIn(b)
      BY <1>1, <2>5 DEF TempsIn, StoreTypeOK
    <3>2. QED
      BY <1>4, <2>5, <3>1 DEF LeavesAlone
  <2>6. QED
    BY <1>6, <2>2, <2>3, <2>4, <2>5 DEF BeginPut, ReceiveBody, PublishPut, RemoveTemp, Publish, PublishFails
<1>7. CASE MoveBucketDir(q)
  <2>1. req[q].op = "rename" /\ b \notin {req[q].bucket, req[q].to}
    BY <1>1, <1>3, <1>7 DEF MoveBucketDir, At, Away, Touching, Native, Writing, ObjectReads
  <2>2. CASE MoveDir(req[q].bucket, req[q].to)
    <3>1. /\ dirs' = (dirs \ {req[q].bucket}) \cup {req[q].to}
          /\ \A p \in Requests :
               /\ temps'[p] = None <=> temps[p] = None
               /\ temps[p] # None => temps'[p].dir = Renamed(temps[p].dir, req[q].bucket, req[q].to)
          /\ \A p \in Requests :
               /\ sweeps'[p] = None <=> sweeps[p] = None
               /\ sweeps[p] # None =>
                    /\ sweeps'[p].dir = Renamed(sweeps[p].dir, req[q].bucket, req[q].to)
                    /\ sweeps'[p].keys = sweeps[p].keys
                    /\ sweeps'[p].temps = sweeps[p].temps
      BY <1>1, <1>2, <2>2, MoveDirEffect
    <3>2. TempsIn(b)' \subseteq TempsIn(b)
      BY <2>1, <3>1 DEF TempsIn, Renamed
    <3>3. QED
      BY <1>4, <2>1, <3>1, <3>2 DEF LeavesAlone, Renamed
  <2>3. CASE UNCHANGED storeVars
    BY <1>5, <2>3 DEF storeVars
  <2>4. QED
    BY <1>7, <2>2, <2>3 DEF MoveBucketDir, MoveDirNoop, MoveDirFails
<1>8. CASE ScanBucketDir(q) \/ SweepBucketDir(q)
  <2>1. req[q].op \in Removes /\ b # req[q].bucket
    BY <1>1, <1>3, <1>8 DEF ScanBucketDir, SweepBucketDir, At, Away, Touching, Native, Writing, ObjectReads, Removes
  <2>2. CASE StartSweep(q, req[q].bucket)
    BY <1>1, <1>4, <2>2 DEF LeavesAlone, StartSweep, TempsIn, StoreTypeOK
  <2>3. CASE SweepNoop(req[q].bucket)
    BY <1>5, <2>3 DEF SweepNoop, storeVars
  <2>4. CASE /\ SweepBucketDir(q)
             /\ \/ \E j \in Keys : SweepFile(q, j)
                \/ \E t \in Requests : SweepTemp(q, t)
    <3>1. sweeps[q] # None
      BY <2>4 DEF SweepBucketDir, At, BasicInv, SweepsInHand
    <3>2. /\ dirs' = dirs
          /\ \A t \in Requests : temps'[t] \in {temps[t], None}
          /\ \A p \in Requests \ {q} : sweeps'[p] = sweeps[p]
      BY <1>1, <2>4, <3>1, SweepOneEffect
    <3>3. TempsIn(b)' \subseteq TempsIn(b)
      BY <3>2 DEF TempsIn
    <3>4. QED
      BY <1>4, <3>2, <3>3 DEF LeavesAlone
  <2>5. CASE RemoveDir(q, req[q].bucket) \/ RemoveDirFails(q, req[q].bucket)
    <3>1. /\ UNCHANGED <<files, temps>>
          /\ dirs' \subseteq dirs /\ dirs \subseteq dirs' \cup {req[q].bucket}
          /\ \A p \in Requests \ {q} :
               /\ sweeps'[p] = None <=> sweeps[p] = None
               /\ sweeps[p] # None =>
                    /\ \/ sweeps'[p].dir = sweeps[p].dir
                       \/ sweeps'[p].dir = None /\ sweeps[p].dir = req[q].bucket
                    /\ sweeps'[p].keys = sweeps[p].keys
                    /\ sweeps'[p].temps = sweeps[p].temps
      BY <1>1, <1>2, <2>5, EndSweepEffect
    <3>2. TempsIn(b)' \subseteq TempsIn(b)
      BY <3>1 DEF TempsIn
    <3>3. QED
      BY <2>1, <3>1, <3>2 DEF LeavesAlone
  <2>6. QED
    BY <1>8, <2>2, <2>3, <2>4, <2>5 DEF ScanBucketDir, SweepBucketDir
<1>9. CASE UpsertPut(q) \/ OpenPhysical(q) \/ OpenObject(q) \/ ForgetObject(q) \/ UpdateBucketMeta(q)
           \/ DropBucketMeta(q) \/ DropBucketAndObjects(q)
  BY <1>5, <1>9 DEF UpsertPut, OpenPhysical, OpenObject, ForgetObject, UpdateBucketMeta, DropBucketMeta,
     DropBucketAndObjects, RepoStep, storeVars
<1>10. CASE UnlinkObject(q)
  BY <1>5, <1>10 DEF UnlinkObject, UnlinkFile, storeVars
<1>11. QED
  BY <1>6, <1>7, <1>8, <1>9, <1>10 DEF ServerStep, BeginPut, ReceiveBody, PublishPut, At

\* A removal has read all there is in its directory.
ReadAll(r, b) ==
    /\ sweeps[r].dir = b
    /\ FilesIn(b) \subseteq sweeps[r].keys
    /\ TempsIn(b) \subseteq sweeps[r].temps

Reclaimed(b) == files[b] = NoFiles /\ b \notin dirs

\* A removal that is alone misses nothing, and once it has removed the directory
\* nothing comes back.
SoloSweeps ==
    \A r \in Active, b \in Buckets : req[r].solo /\ b = req[r].bucket =>
        /\ req[r].pc = "sweep" => ReadAll(r, b)
        /\ req[r].pc = "dropAll" => Reclaimed(b)

\* A directory that is gone held no file.
LEMMA GoneIsEmpty ==
  ASSUME StoreTypeOK, FilesHaveDirs, NEW b \in Buckets, b \notin dirs
  PROVE  files[b] = NoFiles
<1>1. \A k \in Keys : files[b][k] = None
  BY DEF FilesHaveDirs, FilesIn, FileExists
<1>2. QED
  BY <1>1 DEF StoreTypeOK, NoFiles

\* The steps of the removal itself: on to the files, the directory, the metadata
\* or the answer.
LEMMA OwnRemoval ==
  ASSUME BasicInv, SoloSweeps, NEW r \in Requests, req[r].solo,
         NEW b \in Buckets, b = req[r].bucket,
         \/ ScanBucketDir(r) /\ req[r].pc = "scan"
         \/ SweepBucketDir(r) /\ req[r].pc = "sweep"
         \/ DropBucketAndObjects(r) /\ req[r].pc = "dropAll"
  PROVE  /\ req'[r].pc \in {"sweep", "dropAll"} => req'[r].bucket = b
         /\ req'[r].pc = "sweep" => ReadAll(r, b)'
         /\ req'[r].pc \in {"dropAll", "ok"} => Reclaimed(b)'
<1>1. /\ r \in Active /\ req[r].pc \notin Ended /\ RequestsFit /\ StoreTypeOK /\ FilesHaveDirs
      /\ req[r] \in Handling
  BY Carries DEF BasicInv, Active, Finished, Ended
<1>2. b = req[r].bucket
  OBVIOUS
<1>3. ASSUME AfterSweep(r)
      PROVE  /\ req'[r].pc \in {"dropAll", "ok"}
             /\ req'[r].pc = "dropAll" => req'[r].bucket = b
  BY <1>1, <1>2, <1>3 DEF AfterSweep, Goto, Finish, RequestsFit, Handling
<1>4. CASE ScanBucketDir(r) /\ req[r].pc = "scan"
  <2>1. CASE StartSweep(r, b) /\ Goto(r, "sweep")
    <3>1. sweeps'[r] = [dir |-> b, keys |-> FilesIn(b), temps |-> TempsIn(b)]
          /\ UNCHANGED <<files, temps>>
      BY <1>1, <2>1 DEF StartSweep, StoreTypeOK
    <3>2. req'[r].pc = "sweep" /\ req'[r].bucket = b
      BY <1>1, <1>2, <2>1 DEF Goto, RequestsFit, Handling
    <3>3. QED
      BY <1>2, <3>1, <3>2 DEF ReadAll, FilesIn, TempsIn, FileExists
  <2>2. CASE SweepNoop(b) /\ AfterSweep(r)
    BY <1>1, <1>2, <1>3, <2>2, GoneIsEmpty DEF SweepNoop, storeVars, Reclaimed
  <2>3. QED
    BY <1>2, <1>4, <2>1, <2>2 DEF ScanBucketDir
<1>5. CASE SweepBucketDir(r) /\ req[r].pc = "sweep"
  <2>1. /\ sweeps[r] # None /\ sweeps[r].dir = b /\ b # None
        /\ FilesIn(b) \subseteq sweeps[r].keys /\ TempsIn(b) \subseteq sweeps[r].temps
    BY <1>1, <1>2, <1>5, StoreSentinelAssumption DEF SoloSweeps, ReadAll, BasicInv, SweepsInHand
  <2>2. CASE /\ \/ \E k \in Keys : SweepFile(r, k)
                \/ \E q \in Requests : SweepTemp(r, q)
             /\ UNCHANGED req
    <3>1. /\ \A k \in Keys : files'[b][k] = files[b][k] \/ files'[b][k] = None
          /\ \A q \in Requests : temps'[q] \in {temps[q], None}
          /\ \A k \in sweeps[r].keys \ sweeps'[r].keys : files'[b][k] = None
          /\ \A q \in sweeps[r].temps \ sweeps'[r].temps : temps'[q] # None => temps'[q].dir # b
          /\ sweeps'[r].dir = b
      BY <1>1, <2>1, <2>2, SweepOneEffect
    <3>2. FilesIn(b)' \subseteq sweeps'[r].keys
      BY <2>1, <3>1 DEF FilesIn, FileExists
    <3>3. TempsIn(b)' \subseteq sweeps'[r].temps
      BY <2>1, <3>1 DEF TempsIn
    <3>4. QED
      BY <1>2, <1>5, <2>2, <3>1, <3>2, <3>3 DEF ReadAll
  <2>3. CASE (RemoveDir(r, b) \/ RemoveDirFails(r, b)) /\ AfterSweep(r)
    <3>1. FilesIn(b) = {} /\ TempsIn(b) = {}
      BY <2>1, <2>3 DEF RemoveDir, RemoveDirFails, SweptAll
    <3>2. files[b] = NoFiles
      <4>1. \A k \in Keys : files[b][k] = None
        BY <3>1 DEF FilesIn, FileExists
      <4>2. QED
        BY <1>1, <4>1 DEF StoreTypeOK, NoFiles
    <3>3. b \notin dirs' /\ files' = files
      BY <1>1, <2>3, <3>1, EndSweepEffect
    <3>4. QED
      BY <1>2, <1>3, <2>3, <3>2, <3>3 DEF Reclaimed
  <2>4. QED
    BY <1>2, <1>5, <2>2, <2>3 DEF SweepBucketDir
<1>6. CASE DropBucketAndObjects(r) /\ req[r].pc = "dropAll"
  <2>1. files[b] = NoFiles /\ b \notin dirs /\ UNCHANGED <<files, dirs>>
    BY <1>1, <1>2, <1>6 DEF SoloSweeps, Reclaimed, DropBucketAndObjects, RepoStep, storeVars
  <2>2. req'[r].pc \in Ended
    BY <1>1, <1>6, EndFits DEF DropBucketAndObjects, CallFails
  <2>3. QED
    BY <1>2, <2>1, <2>2 DEF Ended, Reclaimed
<1>7. QED
  BY <1>4, <1>5, <1>6

\* Only a removal comes to the steps of a removal.
LEMMA IntoRemoval ==
  ASSUME RequestsFit, NEW r \in Requests, ReceiveBody(r) \/ ServerStep(r),
         req'[r].pc \in {"sweep", "dropAll"}
  PROVE  /\ \/ ScanBucketDir(r) /\ req[r].pc = "scan"
            \/ SweepBucketDir(r) /\ req[r].pc = "sweep"
         /\ req'[r].solo = req[r].solo
<1> USE DEF ServerStep, BeginPut, ReceiveBody, PublishPut, UpsertPut, OpenPhysical, OpenObject,
      UnlinkObject, ForgetObject, MoveBucketDir, UpdateBucketMeta, DropBucketMeta, ScanBucketDir,
      SweepBucketDir, DropBucketAndObjects
<1>1. req[r].pc \notin Ended /\ req[r] \in Handling
  BY Carries DEF At, Ended
<1>2. ~Finish(r, "ok") /\ ~Fail(r)
  BY EndFits DEF Ended
<1>3. ASSUME NEW pc \in Pcs, Goto(r, pc)
      PROVE  req'[r].pc = pc /\ req'[r].solo = req[r].solo
  BY <1>1, <1>3 DEF Goto, RequestsFit, Handling
<1>4. ASSUME NEW path \in {req[r].entry.path, Path(req[r].bucket, req[r].key)} PROVE ~Answer(r, path)
  BY <1>1 DEF Answer, RequestsFit, Handling
<1>5. ASSUME NEW pc \in {"copy", "publish", "upsert", "open", "forget", "updateBucket", "scan"}
      PROVE  ~Goto(r, pc)
  BY <1>3 DEF Pcs
<1>6. ScanBucketDir(r) \/ SweepBucketDir(r)
  BY <1>2, <1>4, <1>5 DEF CallFails
<1>7. UNCHANGED req \/ Goto(r, "sweep") \/ Goto(r, "dropAll")
  BY <1>2, <1>6 DEF AfterSweep
<1>8. req'[r].solo = req[r].solo
  BY <1>3, <1>7 DEF Pcs
<1>9. QED
  BY <1>6, <1>8 DEF At

\* Every step keeps what a removal that is alone knows of its directory.
LEMMA SoloSweepsStep ==
  (BasicInv /\ CleanInv) /\ SoloSweeps /\ [ObjectNext]_objectVars => SoloSweeps'
<1> SUFFICES ASSUME BasicInv, CleanInv, SoloSweeps, [ObjectNext]_objectVars,
                    NEW r \in Requests, r \in Active', req'[r].solo,
                    NEW b \in Buckets, b = req'[r].bucket, req'[r].pc \in {"sweep", "dropAll"}
             PROVE  /\ req'[r].pc = "sweep" => ReadAll(r, b)'
                    /\ req'[r].pc = "dropAll" => Reclaimed(b)'
  BY DEF SoloSweeps, Active
<1>1. CASE ReceiveBody(r) \/ ServerStep(r)
  <2>1. /\ \/ ScanBucketDir(r) /\ req[r].pc = "scan"
           \/ SweepBucketDir(r) /\ req[r].pc = "sweep"
        /\ req[r].solo
    BY <1>1, IntoRemoval DEF BasicInv
  <2>2. PICK c \in Buckets : c = req[r].bucket
    BY <2>1, Carries DEF BasicInv, Ended
  <2>3. QED
    BY <2>1, <2>2, OwnRemoval
<1>2. ASSUME r \in Active, req'[r].pc = req[r].pc, b = req[r].bucket, req[r].solo
      PROVE  /\ req[r].pc = "sweep" => sweeps[r] # None /\ ReadAll(r, b)
             /\ req[r].pc = "dropAll" => Reclaimed(b)
             /\ req[r].op \in Removes
  <2>1. req[r].pc \in {"sweep", "dropAll"} /\ req[r].pc \notin Ended
    BY <1>2 DEF Ended
  <2>2. req[r].op \in Removes
    BY <2>1, Carries DEF Fits, Removes, BasicInv
  <2>3. QED
    BY <1>2, <2>2 DEF SoloSweeps, BasicInv, SweepsInHand
<1>3. ASSUME UNCHANGED storeVars, r \in Active, req'[r].pc = req[r].pc, b = req[r].bucket, req[r].solo
      PROVE  /\ req'[r].pc = "sweep" => ReadAll(r, b)'
             /\ req'[r].pc = "dropAll" => Reclaimed(b)'
  BY <1>2, <1>3 DEF storeVars, ReadAll, Reclaimed, FilesIn, TempsIn, FileExists
<1>4. CASE UNCHANGED <<storeVars, req>>
  BY <1>3, <1>4 DEF Active
<1>5. ASSUME NEW q \in Requests \ {r}, ReceiveBody(q) \/ ServerStep(q)
      PROVE  /\ req'[r].pc = "sweep" => ReadAll(r, b)'
             /\ req'[r].pc = "dropAll" => Reclaimed(b)'
  <2>1. req'[r] = req[r] /\ r \in Active /\ req[r].solo /\ b = req[r].bucket
    BY <1>5, HandlerMoves DEF BasicInv, OthersStay, Active
  <2>2. \A k \in Keys : Native(r, b, k)
    BY <1>2, <2>1 DEF Native
  <2>3. Away(q, b)
    BY <2>1, <2>2 DEF CleanInv, SoloAlone, Away
  <2>4. LeavesAlone(q, b)
    BY <1>5, <2>3, AwayLeaves
  <2>5. ASSUME req[r].pc = "sweep" PROVE ReadAll(r, b)'
    <3>1. /\ sweeps[r] # None /\ sweeps[r].dir = b
          /\ FilesIn(b) \subseteq sweeps[r].keys /\ TempsIn(b) \subseteq sweeps[r].temps
      BY <1>2, <2>1, <2>5 DEF ReadAll
    <3>2. /\ sweeps'[r].dir = b /\ sweeps'[r].keys = sweeps[r].keys
          /\ TempsIn(b)' \subseteq TempsIn(b)
          /\ \A t \in TempsIn(b)' : t \in sweeps[r].temps => t \in sweeps'[r].temps
      BY <2>4, <3>1 DEF LeavesAlone
    <3>3. FilesIn(b)' = FilesIn(b)
      BY <2>4 DEF LeavesAlone, FilesIn, FileExists
    <3>4. QED
      BY <3>1, <3>2, <3>3 DEF ReadAll
  <2>6. ASSUME req[r].pc = "dropAll" PROVE Reclaimed(b)'
    BY <1>2, <2>1, <2>4, <2>6 DEF LeavesAlone, Reclaimed
  <2>7. QED
    BY <2>1, <2>5, <2>6
<1>6. ASSUME NEW q \in Requests, Arrivals(q)
      PROVE  /\ UNCHANGED storeVars /\ r \in Active /\ req'[r].pc = req[r].pc
             /\ b = req[r].bucket /\ req[r].solo
  <2>1. PICK op \in Ops, c \in Buckets, k \in Keys, to \in Buckets, body \in Bodies \cup {None} :
           /\ op \in Puts => body \in Bodies
           /\ op = "rename" => c # to
           /\ Arrive(q, op, c, k, to, body)
    BY <1>6, ArrivalArguments
  <2>2. q # r
    BY <2>1, ArriveFits
  <2>3. Overlapped(r, Rivals(q, op, c, k, to))
    BY <2>1, <2>2, ArriveFits
  <2>4. r \in Active
    BY <2>3 DEF Overlapped, Active
  <2>5. QED
    BY <2>1, <2>3, <2>4 DEF Overlapped, Arrive, Active, Finished, Ended
<1>7. ~Restart
  BY DEF Restart, NoRequest
<1>8. CASE CreateBucketRequest \/ DeleteBucketRequest \/ UNCHANGED objectVars
  BY <1>4, <1>8 DEF CreateBucketRequest, DeleteBucketRequest, objectVars
<1>9. QED
  BY <1>1, <1>3, <1>5, <1>6, <1>7, <1>8 DEF ObjectNext

\* An admin removal of a bucket that overlapped no conflicting request and is
\* answered 204 has left no file and no directory.
THEOREM AcknowledgedRemovalsHaveReclaimed == ObjectSpec => AcknowledgedRemovalsReclaim
<1>1. ObjectInit => SoloSweeps
  BY DEF ObjectInit, SoloSweeps, Active, Finished, NoRequest
<1>2. (BasicInv /\ CleanInv) /\ SoloSweeps /\ [ObjectNext]_objectVars =>
        [\A r \in Requests :
           req[r].pc \in {"sweep", "scan", "dropAll"} /\ req'[r].pc = "ok" /\ req[r].solo
             => /\ files'[req[r].bucket] = NoFiles
                /\ req[r].bucket \notin dirs']_objectVars
  <2> SUFFICES ASSUME BasicInv, CleanInv, SoloSweeps, [ObjectNext]_objectVars, NEW r \in Requests,
                      req[r].pc \in {"sweep", "scan", "dropAll"}, req'[r].pc = "ok", req[r].solo
               PROVE  files'[req[r].bucket] = NoFiles /\ req[r].bucket \notin dirs'
    OBVIOUS
  <2>1. ~Arrivals(r)
    BY DEF Arrivals, Arrive, Finished
  <2>2. ~Restart
    BY DEF Restart, NoRequest
  <2>3. ReceiveBody(r) \/ ServerStep(r)
    BY <2>1, <2>2, WhoMoves
  <2>4. PICK b \in Buckets : b = req[r].bucket
    BY Carries DEF BasicInv, Ended
  <2>5. Reclaimed(b)'
    BY <2>3, <2>4, HandlerMoves, OwnRemoval DEF BasicInv
  <2>6. QED
    BY <2>4, <2>5 DEF Reclaimed
<1>3. QED
  BY <1>1, <1>2, SoloSweepsStep, CleanInvariant, PTL DEF ObjectSpec, AcknowledgedRemovalsReclaim

(***************************************************************************)
(* What a read with a range is sent.                                        *)
(***************************************************************************)

\* A partial answer (206) is never empty, never reaches past the object, and
\* holds the bytes that were asked for and no others: also for a suffix that is
\* longer than the object, an open end, the first and the last byte.
THEOREM PartialAnswersAreExact ==
    ASSUME NEW h \in Headers, NEW size \in Nat, Partial(h, size)
    PROVE  /\ Start(h, size) \in 0 .. size - 1
           /\ Start(h, size) .. End(h, size) = Asked(h, size)
           /\ Asked(h, size) # {}
<1>. h.kind \in {"suffix", "open", "closed"} /\ h.first \in Nat /\ h.last \in Int
  BY DEF Headers
<1>1. CASE h.kind = "suffix"
  <2>1. CASE h.last > size
    <3>1. Start(h, size) = 0 /\ End(h, size) = size - 1
      BY <1>1, <2>1 DEF Start, End
    <3>2. Asked(h, size) = 0 .. size - 1
      BY <1>1, <2>1 DEF Asked
    <3>3. size > 0 /\ 0 \in 0 .. size - 1
      BY DEF Partial
    <3>. QED
      BY <3>1, <3>2, <3>3
  <2>2. CASE h.last <= size
    <3>1. Start(h, size) = size - h.last /\ End(h, size) = size - 1
      BY <1>1, <2>2 DEF Start, End
    <3>2. Asked(h, size) = size - h.last .. size - 1
      BY <1>1, <2>2 DEF Asked
    <3>3. size - h.last \in 0 .. size - 1
      BY <3>1 DEF Partial
    <3>. QED
      BY <3>1, <3>2, <3>3
  <2>. QED
    BY <2>1, <2>2
<1>2. CASE h.kind = "open"
  <2>1. Start(h, size) = h.first /\ End(h, size) = size - 1
    BY <1>2 DEF Start, End
  <2>2. Asked(h, size) = h.first .. size - 1
    BY <1>2 DEF Asked
  <2>. QED
    BY <2>1, <2>2 DEF Partial
<1>3. CASE h.kind = "closed"
  <2>1. Start(h, size) = h.first /\ End(h, size) = h.last
    BY <1>3 DEF Start, End
  <2>2. h.first <= h.last /\ h.last < size
    BY <2>1 DEF Partial
  <2>3. Asked(h, size) = h.first .. h.last
    BY <1>3, <2>2 DEF Asked
  <2>. QED
    BY <2>1, <2>2, <2>3
<1>. QED
  BY <1>1, <1>2, <1>3

\* The whole object is sent instead only when nothing can be selected, or when
\* an explicit last byte lies past the end: the code does not clamp it.
THEOREM RangesAreHonoured ==
    ASSUME NEW h \in Headers, NEW size \in Nat, Formed(h)
    PROVE  Partial(h, size) <=>
             Asked(h, size) # {} /\ (h.kind = "closed" => h.last < size)
<1>. h.kind \in {"suffix", "open", "closed"} /\ h.first \in Nat /\ h.last \in Int
  BY DEF Headers
<1>1. ASSUME Partial(h, size)
      PROVE  Asked(h, size) # {} /\ (h.kind = "closed" => h.last < size)
  BY <1>1, PartialAnswersAreExact DEF Partial, End
<1>2. ASSUME Asked(h, size) # {}, h.kind = "closed" => h.last < size
      PROVE  Partial(h, size)
  <2>1. PICK i \in 0 .. size - 1 : i \in Asked(h, size)
    BY <1>2 DEF Asked
  <2>2. CASE h.kind = "suffix"
    <3>1. 0 <= Start(h, size) /\ Start(h, size) <= size - 1 /\ End(h, size) = size - 1
      BY <2>1, <2>2 DEF Start, End, Formed
    <3>. QED
      BY <2>1, <3>1 DEF Partial
  <2>3. CASE h.kind = "open"
    <3>1. Start(h, size) = h.first /\ h.first <= i /\ End(h, size) = size - 1
      BY <2>1, <2>3 DEF Start, End, Asked
    <3>. QED
      BY <2>1, <3>1 DEF Partial
  <2>4. CASE h.kind = "closed"
    <3>1. Start(h, size) = h.first /\ h.first <= i /\ i <= h.last /\ End(h, size) = h.last
      BY <2>1, <2>4 DEF Start, End, Asked
    <3>. QED
      BY <1>2, <2>1, <2>4, <3>1 DEF Partial
  <2>. QED
    BY <2>2, <2>3, <2>4
<1>. QED
  BY <1>1, <1>2

\* A header that selects something is what ParseRange makes a range of.
LEMMA PartialIsSelects ==
  ASSUME NEW h \in Headers, NEW size \in Nat
  PROVE  Partial(h, size) <=> Selects(h, size)
<1>1. Formed(h) => (Partial(h, size) <=>
                      Asked(h, size) # {} /\ (h.kind = "closed" => h.last < size))
  BY RangesAreHonoured
<1>. QED
  BY <1>1 DEF Selects, Partial

\* What is copied for a range is what was asked for, of what the file has; and
\* without a range all that the file has.
LEMMA CopiedIsAsked ==
  ASSUME NEW h \in Headers, NEW size \in Nat, NEW found \in Nat
  PROVE  Copied(h, size, found) = IF Selects(h, size)
                                  THEN Asked(h, size) \cap 0 .. found - 1 ELSE 0 .. found - 1
<1>1. CASE Partial(h, size)
  <2>1. /\ Start(h, size) \in 0 .. size - 1
        /\ Start(h, size) .. End(h, size) = Asked(h, size)
    BY <1>1, PartialAnswersAreExact
  <2>2. End(h, size) \in Int
    BY DEF Headers, End
  <2>3. Length(h, size) = End(h, size) - Start(h, size) + 1
    BY <1>1 DEF Length
  <2>4. Copied(h, size, found) = (Start(h, size) .. End(h, size)) \cap 0 .. found - 1
    BY <1>1, <2>1, <2>2, <2>3 DEF Copied
  <2>. QED
    BY <1>1, <2>1, <2>4, PartialIsSelects
<1>2. CASE ~Partial(h, size)
  BY <1>2, PartialIsSelects DEF Copied
<1>. QED
  BY <1>1, <1>2

\* Content-Length counts what is copied of a file of the size that was read, and
\* bounds what is copied of any other, for a range.
LEMMA LengthCounts ==
  ASSUME NEW h \in Headers, NEW size \in Nat, NEW found \in Nat
  PROVE  /\ found = size => Cardinality(Copied(h, size, found)) = Length(h, size)
         /\ Selects(h, size) => Cardinality(Copied(h, size, found)) <= Length(h, size)
<1>1. CASE Partial(h, size)
  <2>1. PICK first \in Nat, last \in Nat :
          /\ first = Start(h, size) /\ last = End(h, size)
          /\ first <= last /\ last < size
          /\ Asked(h, size) = first .. last
    <3>1. /\ Start(h, size) \in 0 .. size - 1
          /\ Start(h, size) .. End(h, size) = Asked(h, size)
      BY <1>1, PartialAnswersAreExact
    <3>2. End(h, size) \in Int
      BY DEF Headers, End
    <3>. QED
      BY <1>1, <3>1, <3>2 DEF Partial
  <2>2. Length(h, size) = last - first + 1
    BY <1>1, <2>1 DEF Length
  <2>3. IsFiniteSet(first .. last) /\ Cardinality(first .. last) = last - first + 1
    <3>1. first \in Int /\ last \in Int /\ first <= last
      BY <2>1
    <3>2. IsFiniteSet(first .. last)
      BY <3>1, FS_Interval
    <3>3. Cardinality(first .. last) = IF first > last THEN 0 ELSE last - first + 1
      BY <3>1, FS_Interval, Zenon
    <3>. QED
      BY <3>1, <3>2, <3>3
  <2>4. Copied(h, size, found) = (first .. last) \cap 0 .. found - 1
    BY <1>1, <2>1, CopiedIsAsked, PartialIsSelects
  <2>5. Cardinality(Copied(h, size, found)) <= last - first + 1
    <3>1. Copied(h, size, found) \subseteq first .. last
      BY <2>4
    <3>. QED
      BY <2>3, <3>1, FS_Subset
  <2>6. ASSUME found = size PROVE Copied(h, size, found) = first .. last
    BY <2>1, <2>4, <2>6
  <2>. QED
    BY <2>2, <2>3, <2>5, <2>6
<1>2. CASE ~Partial(h, size)
  <2>1. Copied(h, size, found) = 0 .. found - 1 /\ Length(h, size) = size
    BY <1>2 DEF Copied, Length
  <2>2. Cardinality(0 .. found - 1) = found
    BY FS_Interval
  <2>. QED
    BY <1>2, <2>1, <2>2, PartialIsSelects
<1>. QED
  BY <1>1, <1>2

\* getObject answers with a file at the path of its own object.
GetsOwnFile ==
    \A r \in Requests :
        req[r].pc = "answered" =>
            /\ req[r].body \in Body
            /\ req[r].op = "get" => req[r].from = Path(req[r].bucket, req[r].key)

\* Opening a file for a read answers it with all that is in the file.
LEMMA OpenGets ==
  ASSUME BasicInv, NEW r \in Requests, OpenPhysical(r) \/ OpenObject(r),
         req'[r].pc = "answered"
  PROVE  /\ req'[r].body \in Body
         /\ req'[r].op = "get" => req'[r].from = Path(req'[r].bucket, req'[r].key)
<1>1. req[r].pc \in {"openPath", "open"} /\ req[r].pc \notin Ended
  BY DEF OpenPhysical, OpenObject, At, Ended
<1>2. /\ RequestsFit /\ StoreTypeOK /\ req[r] \in Handling
      /\ req[r].op \in ObjectReads /\ req[r].entry \in Entries
  BY <1>1, Carries DEF BasicInv, Fits
<1>3. PICK b \in Buckets, k \in Keys : b = req[r].bucket /\ k = req[r].key
  BY <1>1, <1>2, Carries
<1>4. PICK path \in Paths :
        /\ FileExists(path[1], path[2]) /\ Answer(r, path)
        /\ req[r].op = "get" => path = Path(b, k)
  <2>1. req[r].entry.path \in Paths /\ Path(b, k) \in Paths
    BY <1>2 DEF Entries, Path, Paths
  <2>2. ASSUME NEW pc \in {"open"}, Goto(r, pc) PROVE FALSE
    <3>1. req'[r].pc = pc
      BY <1>2, <2>2 DEF Goto, RequestsFit, Handling
    <3>2. QED
      BY <3>1
  <2>3. ~Fail(r)
    BY <1>2, EndFits DEF Ended
  <2>4. CASE OpenPhysical(r)
    <3>1. req[r].op # "get"
      BY <2>4 DEF OpenPhysical, At
    <3>. QED
      BY <2>1, <2>2, <2>4, <3>1 DEF OpenPhysical
  <2>5. CASE OpenObject(r)
    <3>1. FileExists(b, k) /\ Answer(r, Path(b, k))
      BY <1>3, <2>3, <2>5 DEF OpenObject
    <3>2. Path(b, k)[1] = b /\ Path(b, k)[2] = k
      BY DEF Path
    <3>. QED
      BY <2>1, <3>1, <3>2
  <2>. QED
    BY <2>4, <2>5
<1>5. SameArgs(r) /\ req'[r].body = files[path[1]][path[2]] /\ req'[r].from = path
  <2>1. req'[r].from = path
    BY <1>2, <1>4 DEF Answer, RequestsFit, Handling
  <2>. QED
    BY <1>1, <1>2, <1>4, <2>1, AnswerFits
<1>6. files[path[1]][path[2]] \in Body
  BY <1>2, <1>4 DEF StoreTypeOK, FileExists, Paths
<1>. QED
  BY <1>3, <1>4, <1>5, <1>6 DEF SameArgs

\* The answers of getObject are files at the path of the object.
THEOREM GetsAlwaysOwnFile == ObjectSpec => []GetsOwnFile
<1>1. ObjectInit => GetsOwnFile
  BY DEF ObjectInit, NoRequest, GetsOwnFile
<1>2. BasicInv /\ GetsOwnFile /\ [ObjectNext]_objectVars => GetsOwnFile'
  <2> SUFFICES ASSUME BasicInv, GetsOwnFile, [ObjectNext]_objectVars, NEW r \in Requests,
                      req'[r].pc = "answered"
               PROVE  /\ req'[r].body \in Body
                      /\ req'[r].op = "get" => req'[r].from = Path(req'[r].bucket, req'[r].key)
    BY DEF GetsOwnFile
  <2>1. CASE ReceiveBody(r) \/ ServerStep(r)
    BY <2>1, HandlerMoves, OpenGets DEF BasicInv
  <2>2. ~Arrivals(r)
    <3> SUFFICES ASSUME Arrivals(r) PROVE FALSE
      OBVIOUS
    <3>1. PICK op \in Ops, b \in Buckets, k \in Keys, to \in Buckets, body \in Bodies \cup {None} :
             /\ op \in Puts => body \in Bodies
             /\ op = "rename" => b # to
             /\ Arrive(r, op, b, k, to, body)
      BY ArrivalArguments
    <3>2. req'[r].pc \notin Finished
      BY <3>1, ArriveFits
    <3>. QED
      BY <3>2 DEF Finished
  <2>3. ~Restart
    BY DEF Restart, NoRequest
  <2>4. CASE req'[r] = req[r]
    BY <2>4 DEF GetsOwnFile
  <2>5. ~(req'[r].pc = req[r].pc /\ r \in Active)
    BY DEF Active, Finished
  <2>. QED
    BY <2>1, <2>2, <2>3, <2>4, <2>5, WhoMoves
<1>. QED
  BY <1>1, <1>2, BasicInvariant, PTL DEF ObjectSpec

\* Whatever the header and the size of the object, and whatever writes of it came
\* between metadata and file: what getObject sends is what was asked for, and as
\* many bytes as it announced if there were none.
THEOREM RangesAlwaysAnswered == ObjectSpec => []RangesAreAnswered
<1>1. BasicInv /\ ReadsMatch /\ GetsOwnFile => RangesAreAnswered
  <2> SUFFICES ASSUME BasicInv, ReadsMatch, GetsOwnFile, NEW r \in Requests, NEW h \in Asks,
                      req[r].pc = "answered", req[r].op = "get"
               PROVE  LET size == Size(req[r].entry)
                          file == 0 .. Len(req[r].body) - 1
                      IN  /\ Sent(r, h) = IF Selects(h, size)
                                          THEN Asked(h, size) \cap file ELSE file
                          /\ req[r].solo => Cardinality(Sent(r, h)) = Length(h, size)
                          /\ Selects(h, size) => Cardinality(Sent(r, h)) <= Length(h, size)
    BY DEF RangesAreAnswered
  <2>1. h \in Headers
    BY AsksAssumption
  <2>2. req[r].entry \in Entries
    BY Carries DEF BasicInv, Fits, Ended
  <2>3. PICK size \in Nat : size = Size(req[r].entry)
    <3>1. req[r].entry.etag \in ETags
      BY <2>2 DEF Entries
    <3>2. req[r].entry.etag.md5 \in Seq(Fragments)
      BY <3>1 DEF ETags, Body
    <3>. QED
      BY <3>2 DEF Size
  <2>4. PICK found \in Nat : found = Len(req[r].body)
    BY DEF GetsOwnFile, Body
  <2>5. Sent(r, h) = Copied(h, size, found)
    BY <2>3, <2>4 DEF Sent
  <2>6. req[r].solo => found = size
    <3> SUFFICES ASSUME req[r].solo PROVE found = size
      OBVIOUS
    <3>1. ETag(req[r].body) = req[r].entry.etag
      BY DEF ReadsMatch, GetsOwnFile
    <3>2. req[r].entry.etag.md5 = req[r].body
      BY <3>1 DEF ETag
    <3>. QED
      BY <2>3, <2>4, <3>2 DEF Size
  <2>. QED
    BY <2>1, <2>3, <2>4, <2>5, <2>6, CopiedIsAsked, LengthCounts
<1>. QED
  BY <1>1, BasicInvariant, ReadsAlwaysMatch, GetsAlwaysOwnFile, PTL
=============================================================================
