-------------------------- MODULE MultipartProofs --------------------------
(***************************************************************************)
(* Proofs about the multipart handlers, for every number of requests,       *)
(* uploads and parts, with a database and without one, whichever calls      *)
(* fail.  There are three invariants.                                       *)
(*                                                                         *)
(* MultipartInv is about which files there are: a part which an open upload *)
(* lists has its file, unless a removal tried to forget the upload in vain  *)
(* (torn).  PartFilesExist is not inductive.  A part is recorded one step   *)
(* after its file is published, so the file must still be there, or the     *)
(* upload gone or torn, while the handler is in between (SavingHasFile); a  *)
(* directory is swept one unlink at a time, so the upload must be gone or   *)
(* torn while that lasts (DroppedIsGone), and if gone stay gone, since ids  *)
(* are never handed out twice (UsedIdsIssued); and a sweep must be in the   *)
(* directory of its own upload (SweepsOwnDir).                              *)
(*                                                                         *)
(* TruthInv is about what is in them: it says what a request that claims to *)
(* run alone has to itself (Alone), that a body is whole on its way to the  *)
(* disk (BodyOnItsWay) and there (PartsAreWhole), that an ETag which is     *)
(* listed and not racy is that of the file, if it is there                  *)
(* (ListedIsStored), and that what a request carries from one call to the   *)
(* next, an ETag, a list of parts, the names of the files it will unlink,   *)
(* is still true (CarriesTheTruth).                                         *)
(*                                                                         *)
(* FilesAreIssued is about what is left on disk of uploads that are gone:   *)
(* it is never found by a new one.  With it the handlers are shown to       *)
(* implement AtomicUploads: what a step does is one action of the abstract  *)
(* uploads or nothing.                                                      *)
(***************************************************************************)
EXTENDS Multipart, RepositoryProofs

(***************************************************************************)
(* The part files: the type of the directories of uploads is preserved.     *)
(***************************************************************************)

\* Each system call of a part upload keeps the part files well typed.
LEMMA WriteStoreType ==
  ASSUME PartStore!StoreTypeOK, NEW r \in Requests, NEW u \in UploadIds,
         NEW n \in PartNumbers, NEW body \in Body,
         \/ PartStore!CreateTemp(r, u)
         \/ PartStore!CreateTempFails(u)
         \/ PartStore!CopyBody(r, body)
         \/ PartStore!RemoveTemp(r)
         \/ PartStore!Publish(r, u, n)
         \/ PartStore!PublishFails(r, u)
  PROVE  PartStore!StoreTypeOK'
<1> USE DEF PartStore!StoreTypeOK, Body, PartStore!Body
<1>1. CASE PartStore!CreateTemp(r, u)
  <2>1. [dir |-> u, data |-> <<>>] \in PartStore!Temps
    BY DEF PartStore!Temps, Body
  <2>2. partTemps' \in [Requests -> PartStore!Temps \cup {None}]
    BY <1>1, <2>1 DEF PartStore!CreateTemp
  <2>3. partSweeps' \in [Requests -> PartStore!Sweeps \cup {None}]
    <3> SUFFICES ASSUME NEW q \in Requests, partSweeps[q] # None
                 PROVE  [partSweeps[q] EXCEPT !.temps = @ \ {r}] \in PartStore!Sweeps
      BY <1>1 DEF PartStore!CreateTemp
    <3>1. partSweeps[q] \in PartStore!Sweeps
      OBVIOUS
    <3>2. QED
      BY <3>1 DEF PartStore!Sweeps
  <2>4. QED
    BY <1>1, <2>2, <2>3 DEF PartStore!CreateTemp
<1>2. CASE PartStore!CreateTempFails(u)
  BY <1>2 DEF PartStore!CreateTempFails
<1>3. CASE PartStore!CopyBody(r, body)
  <2>1. ASSUME partTemps[r] # None
        PROVE  [partTemps[r] EXCEPT !.data = body] \in PartStore!Temps
    BY <2>1 DEF PartStore!Temps
  <2>2. QED
    BY <1>3, <2>1 DEF PartStore!CopyBody
<1>4. CASE PartStore!RemoveTemp(r)
  BY <1>4 DEF PartStore!RemoveTemp
<1>5. CASE PartStore!Publish(r, u, n)
  <2>1. partTemps[r].data \in Body
    BY <1>5 DEF PartStore!Publish, PartStore!TempInPlace, PartStore!TempsIn, PartStore!Temps
  <2>2. QED
    BY <1>5, <2>1 DEF PartStore!Publish
<1>6. CASE PartStore!PublishFails(r, u)
  BY <1>6 DEF PartStore!PublishFails, PartStore!RemoveTemp
<1>7. QED
  BY <1>1, <1>2, <1>3, <1>4, <1>5, <1>6

\* Each system call of the removal of an upload directory keeps the part files
\* well typed.
LEMMA SweepStoreType ==
  ASSUME PartStore!StoreTypeOK, NEW r \in Requests, NEW u \in UploadIds,
         partSweeps[r] # None \/ PartStore!StartSweep(r, u),
         \/ PartStore!StartSweep(r, u)
         \/ \E n \in PartNumbers : PartStore!SweepFile(r, n)
         \/ \E q \in Requests : PartStore!SweepTemp(r, q)
         \/ PartStore!RemoveDir(r, u)
         \/ PartStore!RemoveDirFails(r, u)
  PROVE  PartStore!StoreTypeOK'
<1> USE DEF PartStore!StoreTypeOK, Body, PartStore!Body
<1>1. CASE PartStore!StartSweep(r, u)
  <2>1. [dir |-> u, keys |-> PartStore!FilesIn(u), temps |-> PartStore!TempsIn(u)]
          \in PartStore!Sweeps
    BY DEF PartStore!Sweeps, PartStore!FilesIn, PartStore!TempsIn
  <2>2. QED
    BY <1>1, <2>1 DEF PartStore!StartSweep
<1>2. ASSUME NEW n \in PartNumbers, PartStore!SweepFile(r, n), partSweeps[r] # None
      PROVE  PartStore!StoreTypeOK'
  <2>1. [partSweeps[r] EXCEPT !.keys = @ \ {n}] \in PartStore!Sweeps
    BY <1>2 DEF PartStore!Sweeps
  <2>2. QED
    BY <1>2, <2>1 DEF PartStore!SweepFile
<1>3. ASSUME NEW q \in Requests, PartStore!SweepTemp(r, q), partSweeps[r] # None
      PROVE  PartStore!StoreTypeOK'
  <2>1. [partSweeps[r] EXCEPT !.temps = @ \ {q}] \in PartStore!Sweeps
    BY <1>3 DEF PartStore!Sweeps
  <2>2. QED
    BY <1>3, <2>1 DEF PartStore!SweepTemp
<1>4. CASE PartStore!RemoveDir(r, u)
  <2>1. partSweeps' \in [Requests -> PartStore!Sweeps \cup {None}]
    <3> SUFFICES ASSUME NEW p \in Requests, partSweeps[p] # None
                 PROVE  [partSweeps[p] EXCEPT !.dir = IF @ = u THEN None ELSE @]
                          \in PartStore!Sweeps
      BY <1>4 DEF PartStore!RemoveDir
    <3>1. partSweeps[p] \in PartStore!Sweeps
      OBVIOUS
    <3>2. QED
      BY <3>1 DEF PartStore!Sweeps
  <2>2. QED
    BY <1>4, <2>1 DEF PartStore!RemoveDir
<1>5. CASE PartStore!RemoveDirFails(r, u)
  BY <1>5 DEF PartStore!RemoveDirFails
<1>6. QED
  BY <1>1, <1>2, <1>3, <1>4, <1>5

(***************************************************************************)
(* Requests                                                                *)
(***************************************************************************)

RequestType == mreq \in [Requests -> MultipartRequests]

\* Where a request is in its handler tells what it carries.
LEMMA RequestKinds ==
  ASSUME RequestType, NEW r \in Requests
  PROVE  /\ mreq[r].pc \in PartPcs => mreq[r] \in PartRequest
         /\ mreq[r].pc \in CompletePcs => mreq[r] \in CompleteRequest
         /\ mreq[r].pc \in DropPcs => mreq[r] \in DropRequest
         /\ mreq[r].pc \in PartPcs \cup CompletePcs \cup DropPcs \cup Finished
  BY DEF RequestType, MultipartRequests, PartRequest, CompleteRequest, DropRequest,
         FinishedRequest, PartPcs, CompletePcs, DropPcs, Finished

\* A handler that moves on keeps what it carries; one that answers drops it.
LEMMA GotoType ==
  ASSUME RequestType, NEW r \in Requests, NEW pc,
         \/ mreq[r].pc \in PartPcs /\ pc \in PartPcs
         \/ mreq[r].pc \in CompletePcs /\ pc \in CompletePcs
         \/ mreq[r].pc \in DropPcs /\ pc \in DropPcs,
         Goto(r, pc)
  PROVE  /\ RequestType'
         /\ mreq'[r].pc = pc
         /\ mreq'[r].upload = mreq[r].upload
         /\ mreq[r].pc \in PartPcs => mreq'[r].number = mreq[r].number
         /\ \A q \in Requests \ {r} : mreq'[q] = mreq[q]
<1> DEFINE e == [mreq[r] EXCEPT !.pc = pc]
<1>1. mreq' = [mreq EXCEPT ![r] = e]
  BY DEF Goto
<1>2. /\ e \in MultipartRequests
      /\ e.pc = pc
      /\ e.upload = mreq[r].upload
      /\ mreq[r].pc \in PartPcs => e.number = mreq[r].number
  <2>1. CASE mreq[r].pc \in PartPcs /\ pc \in PartPcs
    BY <2>1, RequestKinds DEF MultipartRequests, PartRequest
  <2>2. CASE mreq[r].pc \in CompletePcs /\ pc \in CompletePcs
    <3>1. mreq[r].pc \notin PartPcs
      BY <2>2 DEF PartPcs, CompletePcs
    <3>2. QED
      BY <2>2, <3>1, RequestKinds DEF MultipartRequests, CompleteRequest
  <2>3. CASE mreq[r].pc \in DropPcs /\ pc \in DropPcs
    <3>1. mreq[r].pc \notin PartPcs
      BY <2>3 DEF PartPcs, DropPcs
    <3>2. QED
      BY <2>3, <3>1, RequestKinds DEF MultipartRequests, DropRequest
  <2>4. QED
    BY <2>1, <2>2, <2>3
<1> HIDE DEF e
<1>3. QED
  BY <1>1, <1>2 DEF RequestType

\* The same for a handler that answers.
LEMMA FinishType ==
  ASSUME RequestType, NEW r \in Requests, NEW outcome \in Finished, Finish(r, outcome)
  PROVE  /\ RequestType'
         /\ mreq'[r].pc = outcome
         /\ \A q \in Requests \ {r} : mreq'[q] = mreq[q]
  BY DEF RequestType, Finish, MultipartRequests, FinishedRequest

(***************************************************************************)
(* The inductive invariant                                                 *)
(***************************************************************************)

\* A part whose file is published and not yet recorded has its file, or its
\* upload is gone or torn.
SavingHasFile ==
    \A r \in Requests :
        mreq[r].pc = "save" /\ UploadExists(mreq[r].upload) /\ mreq[r].upload \notin torn
            => partFiles[mreq[r].upload][mreq[r].number] # None

\* The directory of an upload is only removed once the upload is gone, or torn.
DroppedIsGone ==
    \A r \in Requests :
        mreq[r].pc \in {"scan", "sweep"} =>
            ~UploadExists(mreq[r].upload) \/ mreq[r].upload \in torn

UsedIdsIssued ==
    /\ \A u \in UploadIds : UploadExists(u) => u \in issued
    /\ \A r \in Requests : mreq[r].pc \notin Finished => mreq[r].upload \in issued

\* What a request unlinks is in the directory of its own upload.
SweepsOwnDir ==
    \A r \in Requests :
        mreq[r].pc = "sweep" =>
            partSweeps[r] # None /\ partSweeps[r].dir \in {None, mreq[r].upload}

MultipartInv ==
    /\ RepoInv
    /\ MultipartTypeOK
    /\ PartFilesExist
    /\ SavingHasFile
    /\ DroppedIsGone
    /\ UsedIdsIssued
    /\ SweepsOwnDir

\* The invariant holds when the process first starts.
LEMMA MultipartInitInv == MultipartInit => MultipartInv
<1> SUFFICES ASSUME MultipartInit PROVE MultipartInv
  OBVIOUS
<1> USE DEF MultipartInit, PartStore!StoreInit
<1>1. RepoInv
  BY RepoInitInv
<1>2. PartStore!StoreTypeOK
  BY DEF PartStore!StoreTypeOK, PartStore!NoFiles
<1>3. MultipartTypeOK
  BY <1>1, <1>2 DEF MultipartTypeOK, RepoInv, MultipartRequests, FinishedRequest, Finished
<1>4. \A u \in UploadIds : ~UploadExists(u)
  BY DEF RepoInit, UploadExists
<1>5. \A r \in Requests : mreq[r].pc = "idle"
  OBVIOUS
<1>6. PartFilesExist /\ SavingHasFile /\ DroppedIsGone /\ UsedIdsIssued /\ SweepsOwnDir
  BY <1>4, <1>5 DEF PartFilesExist, SavingHasFile, DroppedIsGone, UsedIdsIssued,
     SweepsOwnDir, Finished
<1>7. QED
  BY <1>1, <1>3, <1>6 DEF MultipartInv

(***************************************************************************)
(* What a step may do.                                                     *)
(***************************************************************************)

\* What it may do to a request: it is about to record a part only if it was so
\* before or the file is there; it begins to remove a directory only once the
\* upload is gone or torn; and it works on an upload that was issued.
Lawful(q) ==
    /\ mreq'[q].pc = "save" =>
         \/ /\ mreq[q].pc = "save"
            /\ mreq'[q].upload = mreq[q].upload
            /\ mreq'[q].number = mreq[q].number
         \/ partFiles'[mreq'[q].upload][mreq'[q].number] # None
    /\ mreq'[q].pc \in {"scan", "sweep"} =>
         \/ mreq[q].pc = mreq'[q].pc /\ mreq'[q].upload = mreq[q].upload
         \/ uploads'[mreq'[q].upload] = None
         \/ mreq'[q].upload \in torn'
    /\ mreq'[q].pc \notin Finished => mreq'[q].upload \in issued'

\* Every step but the one that reads a directory begins no sweep.
Harmless(q) ==
    /\ Lawful(q)
    /\ mreq'[q].pc = "sweep" =>
         mreq[q].pc = "sweep" /\ mreq'[q].upload = mreq[q].upload

\* What it may do to the tables and the part files: it opens an upload only
\* under an id that was not issued, lists a part only if it was listed or has
\* its file, and removes no part file of an upload that stays open.
LEMMA StepInv ==
  ASSUME MultipartInv, RepoInv', RequestType', PartStore!StoreTypeOK',
         issued \subseteq issued', issued' \subseteq UploadIds,
         racy' \subseteq UploadIds \X PartNumbers,
         torn \subseteq torn', torn' \subseteq UploadIds,
         \A u \in UploadIds : uploads'[u] # None =>
            u \in issued' /\ (UploadExists(u) \/ u \notin issued),
         \A u \in UploadIds, n \in PartNumbers :
            uploads'[u] # None /\ u \notin torn' /\ parts'[u][n] # None =>
               \/ UploadExists(u) /\ parts[u][n] # None
               \/ partFiles'[u][n] # None,
         \A u \in UploadIds, n \in PartNumbers :
            uploads'[u] # None /\ u \notin torn' /\ partFiles[u][n] # None =>
               partFiles'[u][n] # None,
         \A q \in Requests : Lawful(q),
         SweepsOwnDir'
  PROVE  MultipartInv'
<1> USE DEF MultipartInv
<1>1. MultipartTypeOK'
  BY DEF MultipartTypeOK, RequestType, RepoInv
<1>2. PartFilesExist'
  BY DEF PartFilesExist, UploadExists
<1>3. \A r \in Requests : mreq[r].pc \notin Finished => mreq[r].upload \in issued
  BY DEF UsedIdsIssued
<1>4. SavingHasFile'
  <2> SUFFICES ASSUME NEW r \in Requests, mreq'[r].pc = "save", uploads'[mreq'[r].upload] # None,
                      mreq'[r].upload \notin torn'
               PROVE  partFiles'[mreq'[r].upload][mreq'[r].number] # None
    BY DEF SavingHasFile, UploadExists
  <2>1. mreq'[r].upload \in UploadIds /\ mreq'[r].number \in PartNumbers
    BY DEF RequestType, MultipartRequests, PartRequest, CompleteRequest, DropRequest,
       FinishedRequest, CompletePcs, DropPcs, Finished
  <2>2. ASSUME mreq[r].pc = "save", mreq'[r].upload = mreq[r].upload,
               mreq'[r].number = mreq[r].number
        PROVE  partFiles'[mreq'[r].upload][mreq'[r].number] # None
    <3>1. mreq[r].upload \in issued
      BY <1>3, <2>2 DEF Finished
    <3>2. UploadExists(mreq[r].upload)
      BY <2>1, <2>2, <3>1
    <3>3. partFiles[mreq[r].upload][mreq[r].number] # None
      BY <2>2, <3>2 DEF SavingHasFile
    <3>4. QED
      BY <2>1, <2>2, <3>3
  <2>3. QED
    BY <2>2 DEF Lawful
<1>5. DroppedIsGone'
  <2> SUFFICES ASSUME NEW r \in Requests, mreq'[r].pc \in {"scan", "sweep"}
               PROVE  uploads'[mreq'[r].upload] = None \/ mreq'[r].upload \in torn'
    BY DEF DroppedIsGone, UploadExists
  <2>1. ASSUME mreq[r].pc = mreq'[r].pc, mreq'[r].upload = mreq[r].upload
        PROVE  uploads'[mreq'[r].upload] = None \/ mreq'[r].upload \in torn'
    <3>1. mreq[r].upload \in issued /\ mreq[r].upload \in UploadIds
      BY <1>3, <2>1 DEF Finished, MultipartTypeOK
    <3>2. ~UploadExists(mreq[r].upload) \/ mreq[r].upload \in torn
      BY <2>1 DEF DroppedIsGone
    <3>3. QED
      BY <2>1, <3>1, <3>2
  <2>2. QED
    BY <2>1 DEF Lawful
<1>6. UsedIdsIssued'
  BY DEF UsedIdsIssued, Lawful, UploadExists
<1>7. QED
  BY <1>1, <1>2, <1>4, <1>5, <1>6

\* A step that leaves the repository alone and removes no part file.
LEMMA GrowInv ==
  ASSUME MultipartInv, RequestType', PartStore!StoreTypeOK',
         UNCHANGED <<repoVars, issued>>, racy' \subseteq UploadIds \X PartNumbers,
         torn \subseteq torn', torn' \subseteq UploadIds,
         \A u \in UploadIds, n \in PartNumbers :
            partFiles[u][n] # None => partFiles'[u][n] # None,
         \A q \in Requests : Harmless(q),
         SweepsOwnDir'
  PROVE  MultipartInv'
<1>1. RepoInv'
  BY RepoStutterInv DEF MultipartInv
<1>2. \A u \in UploadIds : uploads'[u] # None => u \in issued' /\ UploadExists(u)
  BY DEF repoVars, MultipartInv, UsedIdsIssued, UploadExists
<1>3. issued \subseteq issued' /\ issued' \subseteq UploadIds
  BY DEF MultipartInv, MultipartTypeOK
<1>4. parts' = parts
  BY DEF repoVars
<1>5. QED
  BY <1>1, <1>2, <1>3, <1>4, StepInv DEF Harmless

\* So does one that only moves requests.
LEMMA MoveInv ==
  ASSUME MultipartInv, RequestType', UNCHANGED <<repoVars, partVars, issued>>,
         racy' \subseteq UploadIds \X PartNumbers,
         torn \subseteq torn', torn' \subseteq UploadIds,
         \A q \in Requests : Harmless(q)
  PROVE  MultipartInv'
<1>1. PartStore!StoreTypeOK'
  BY DEF partVars, MultipartInv, MultipartTypeOK, PartStore!StoreTypeOK
<1>2. SweepsOwnDir'
  BY DEF partVars, MultipartInv, SweepsOwnDir, Harmless, Lawful
<1>3. QED
  BY <1>1, <1>2, GrowInv DEF partVars

\* A request that stays as it is, is harmless.
LEMMA SameIsHarmless ==
  ASSUME MultipartInv, issued \subseteq issued', NEW q \in Requests, mreq'[q] = mreq[q]
  PROVE  Harmless(q)
  BY DEF MultipartInv, UsedIdsIssued, Harmless, Lawful

\* So is one that only loses its claim to have run alone.
LEMMA SoloIsHarmless ==
  ASSUME MultipartInv, issued \subseteq issued', NEW q \in Requests, mreq[q].pc \notin Finished,
         mreq'[q] = [mreq[q] EXCEPT !.solo = FALSE]
  PROVE  Harmless(q) /\ mreq'[q] \in MultipartRequests
<1> DEFINE e == [mreq[q] EXCEPT !.solo = FALSE]
<1>1. RequestType
  BY DEF MultipartInv, MultipartTypeOK, RequestType
<1>2. /\ e \in MultipartRequests
      /\ e.pc = mreq[q].pc
      /\ e.upload = mreq[q].upload
      /\ mreq[q].pc \in PartPcs => e.number = mreq[q].number
  <2>1. CASE mreq[q].pc \in PartPcs
    BY <1>1, <2>1, RequestKinds DEF MultipartRequests, PartRequest
  <2>2. CASE mreq[q].pc \in CompletePcs
    <3>1. mreq[q].pc \notin PartPcs
      BY <2>2 DEF PartPcs, CompletePcs
    <3>2. QED
      BY <1>1, <2>2, <3>1, RequestKinds DEF MultipartRequests, CompleteRequest
  <2>3. CASE mreq[q].pc \in DropPcs
    <3>1. mreq[q].pc \notin PartPcs
      BY <2>3 DEF PartPcs, DropPcs
    <3>2. QED
      BY <1>1, <2>3, <3>1, RequestKinds DEF MultipartRequests, DropRequest
  <2>4. QED
    BY <1>1, <2>1, <2>2, <2>3, RequestKinds
<1>3. mreq'[q] = e
  OBVIOUS
<1> HIDE DEF e
<1>4. QED
  BY <1>2, <1>3 DEF MultipartInv, UsedIdsIssued, Harmless, Lawful, PartPcs

\* A part upload arrives.
LEMMA BeginPartInv ==
  ASSUME MultipartInv, NEW r \in Requests, NEW u \in UploadIds, NEW n \in PartNumbers,
         NEW body \in Bodies, BeginPart(r, u, n, body)
  PROVE  MultipartInv'
<1> DEFINE new == [pc |-> "begin", upload |-> u, number |-> n, body |-> body,
                   solo |-> {q \in Uploading(u) : mreq[q].number = n} = {}]
           met == {q \in Uploading(u) : mreq[q].number = n} \cup Completing(u) \cup Dropping(u)
<1>1. new \in MultipartRequests
  BY BodiesAssumption DEF MultipartRequests, PartRequest, PartPcs, Body
<1>2. mreq' = [q \in Requests |-> IF q = r THEN new
                ELSE IF q \in met THEN [mreq[q] EXCEPT !.solo = FALSE] ELSE mreq[q]]
  BY DEF BeginPart
<1>3. \A q \in met : mreq[q].pc \notin Finished
  BY DEF Uploading, Completing, Dropping, PartPcs, CompletePcs, DropPcs, Finished
<1>4. new.pc = "begin" /\ new.upload = u
  OBVIOUS
<1>5. issued' = issued /\ u \in issued
  BY DEF BeginPart, MultipartInv, UsedIdsIssued
<1> HIDE DEF new, met
<1>6. \A q \in Requests : Harmless(q) /\ mreq'[q] \in MultipartRequests
  <2> SUFFICES ASSUME NEW q \in Requests
               PROVE  Harmless(q) /\ mreq'[q] \in MultipartRequests
    OBVIOUS
  <2>1. CASE q = r
    <3>1. mreq'[q] = new
      BY <1>2, <2>1
    <3>2. QED
      BY <1>1, <1>4, <1>5, <3>1 DEF Harmless, Lawful
  <2>2. CASE q # r /\ q \in met
    BY <1>2, <1>3, <1>5, <2>2, SoloIsHarmless
  <2>3. CASE q # r /\ q \notin met
    BY <1>2, <1>5, <2>3, SameIsHarmless DEF MultipartInv, MultipartTypeOK
  <2>4. QED
    BY <2>1, <2>2, <2>3
<1>7. RequestType'
  BY <1>2, <1>6 DEF RequestType
<1>8. racy' \subseteq UploadIds \X PartNumbers
  BY DEF BeginPart, MultipartInv, MultipartTypeOK
<1>9. torn \subseteq torn' /\ torn' \subseteq UploadIds
  BY DEF BeginPart, MultipartInv, MultipartTypeOK
<1>10. UNCHANGED <<repoVars, partVars, issued>>
  BY DEF BeginPart
<1>11. QED
  BY <1>6, <1>7, <1>8, <1>9, <1>10, MoveInv

\* A completion or an abort arrives.
LEMMA BeginDropInv ==
  ASSUME MultipartInv, NEW r \in Requests, NEW u \in UploadIds,
         (\E list \in PartLists : BeginComplete(r, u, list)) \/ BeginAbort(r, u)
  PROVE  MultipartInv'
<1>1. PICK e \in CompleteRequest \cup DropRequest :
         /\ mreq' = [mreq EXCEPT ![r] = e]
         /\ e.upload = u
         /\ e.pc \in {"list", "forget"}
  <2>1. ASSUME NEW list \in PartLists, BeginComplete(r, u, list)
        PROVE  \E e \in CompleteRequest : /\ mreq' = [mreq EXCEPT ![r] = e]
                                          /\ e.upload = u
                                          /\ e.pc \in {"list", "forget"}
    <3> DEFINE e == [pc |-> "list", upload |-> u, target |-> uploads[u], list |-> list,
                     all |-> {}, saved |-> None, body |-> <<>>,
                     solo |-> Uploading(u) = {} /\ \A n \in PartNumbers : <<u, n>> \notin racy]
    <3>1. uploads[u] \in Uploads
      BY <2>1 DEF BeginComplete, UploadExists, MultipartInv, MultipartTypeOK, RepoTypeOK
    <3>2. e \in CompleteRequest
      BY <3>1, PartListsAssumption DEF CompleteRequest, CompletePcs, Body
    <3>3. e.upload = u /\ e.pc \in {"list", "forget"}
      OBVIOUS
    <3>4. mreq' = [mreq EXCEPT ![r] = e]
      BY <2>1 DEF BeginComplete
    <3> HIDE DEF e
    <3>5. QED
      BY <3>2, <3>3, <3>4
  <2>2. ASSUME BeginAbort(r, u)
        PROVE  \E e \in DropRequest : /\ mreq' = [mreq EXCEPT ![r] = e]
                                      /\ e.upload = u
                                      /\ e.pc \in {"list", "forget"}
    <3> DEFINE e == [pc |-> "forget", upload |-> u, solo |-> Uploading(u) = {}]
    <3>1. e \in DropRequest
      BY DEF DropRequest, DropPcs
    <3>2. e.upload = u /\ e.pc \in {"list", "forget"}
      OBVIOUS
    <3>3. mreq' = [mreq EXCEPT ![r] = e]
      BY <2>2 DEF BeginAbort
    <3> HIDE DEF e
    <3>4. QED
      BY <3>1, <3>2, <3>3
  <2>3. QED
    BY <2>1, <2>2
<1>2. u \in issued /\ issued' = issued
  BY DEF BeginComplete, BeginAbort, MultipartInv, UsedIdsIssued
<1>3. RequestType'
  BY <1>1 DEF RequestType, MultipartInv, MultipartTypeOK, MultipartRequests
<1>4. \A q \in Requests : Harmless(q)
  <2> SUFFICES ASSUME NEW q \in Requests PROVE Harmless(q)
    OBVIOUS
  <2>1. CASE q = r
    <3>1. mreq'[q] = e
      BY <1>1, <2>1 DEF MultipartInv, MultipartTypeOK
    <3>2. QED
      BY <1>1, <1>2, <3>1 DEF Harmless, Lawful
  <2>2. CASE q # r
    <3>1. mreq'[q] = mreq[q]
      BY <1>1, <2>2 DEF MultipartInv, MultipartTypeOK
    <3>2. QED
      BY <1>2, <3>1, SameIsHarmless
  <2>3. QED
    BY <2>1, <2>2
<1>5. UNCHANGED <<repoVars, partVars, issued, racy, torn>>
  BY DEF BeginComplete, BeginAbort
<1>6. QED
  BY <1>3, <1>4, <1>5, MoveInv DEF MultipartInv, MultipartTypeOK

\* A handler that moves on to a step the invariant does not speak of, or that
\* answers, is harmless.
LEMMA GotoIsHarmless ==
  ASSUME MultipartInv, issued \subseteq issued', NEW r \in Requests,
         NEW pc \in {"copy", "publish", "put", "upsert"},
         \/ mreq[r].pc \in PartPcs /\ pc \in PartPcs
         \/ mreq[r].pc \in CompletePcs /\ pc \in CompletePcs,
         Goto(r, pc)
  PROVE  RequestType' /\ \A q \in Requests : Harmless(q)
<1>1. RequestType
  BY DEF MultipartInv, MultipartTypeOK, RequestType
<1>2. /\ RequestType'
      /\ mreq'[r].pc = pc
      /\ mreq'[r].upload = mreq[r].upload
      /\ \A q \in Requests \ {r} : mreq'[q] = mreq[q]
  BY <1>1, GotoType
<1>3. Harmless(r)
  BY <1>2 DEF Harmless, Lawful, MultipartInv, UsedIdsIssued, PartPcs, CompletePcs, DropPcs, Finished
<1>4. QED
  BY <1>2, <1>3, SameIsHarmless

\* A handler that answers is harmless.
LEMMA FinishIsHarmless ==
  ASSUME MultipartInv, issued \subseteq issued', NEW r \in Requests,
         NEW outcome \in Finished, Finish(r, outcome)
  PROVE  RequestType' /\ \A q \in Requests : Harmless(q)
<1>1. RequestType
  BY DEF MultipartInv, MultipartTypeOK, RequestType
<1>2. /\ RequestType'
      /\ mreq'[r].pc = outcome
      /\ \A q \in Requests \ {r} : mreq'[q] = mreq[q]
  BY <1>1, FinishType
<1>3. Harmless(r)
  BY <1>2 DEF Harmless, Lawful, Finished, CompletePcs, DropPcs
<1>4. QED
  BY <1>2, <1>3, SameIsHarmless

\* A completion lists the saved parts.
LEMMA ListPartsInv ==
  ASSUME MultipartInv, NEW r \in Requests, ListParts(r)
  PROVE  MultipartInv'
<1> USE DEF MultipartInv, MultipartTypeOK
<1>1. UNCHANGED <<repoVars, partVars, issued, racy, torn>>
  BY DEF ListParts
<1>2. RequestType' /\ \A q \in Requests : Harmless(q)
  <2> DEFINE table == parts[mreq[r].upload]
             saved == IF Database /\ table = None THEN NoParts ELSE table
             every == IF mreq[r].list = <<>> THEN SavedNumbers(saved) ELSE {}
             e == [mreq[r] EXCEPT !.pc = "open", !.saved = saved, !.all = every]
  <2>1. CASE Finish(r, "failed")
    BY <1>1, <2>1, FinishIsHarmless DEF Finished
  <2>2. CASE saved # None /\ mreq' = [mreq EXCEPT ![r] = e]
    <3>1. mreq[r] \in CompleteRequest
      BY RequestKinds DEF ListParts, RequestType, CompletePcs
    <3>2. saved \in PartTables
      BY <2>2, <3>1 DEF RepoTypeOK, CompleteRequest, NoParts, PartTables
    <3>3. every \in SUBSET PartNumbers
      BY DEF SavedNumbers
    <3>4. mreq' = [mreq EXCEPT ![r] = e]
      BY <2>2
    <3> HIDE DEF saved, every
    <3>5. e \in CompleteRequest /\ e.pc = "open" /\ e.upload = mreq[r].upload
      BY <3>1, <3>2, <3>3 DEF CompleteRequest, CompletePcs
    <3> HIDE DEF e
    <3>6. RequestType'
      BY <3>4, <3>5 DEF RequestType, MultipartRequests
    <3>7. mreq'[r] = e /\ \A q \in Requests \ {r} : mreq'[q] = mreq[q]
      BY <3>4
    <3>8. Harmless(r)
      BY <3>5, <3>7 DEF Harmless, Lawful, UsedIdsIssued, ListParts, Finished
    <3>9. QED
      BY <1>1, <3>6, <3>7, <3>8, SameIsHarmless
  <2>3. QED
    BY <2>1, <2>2 DEF ListParts
<1>3. QED
  BY <1>1, <1>2, MoveInv

\* A completion opens a part.
LEMMA OpenPartInv ==
  ASSUME MultipartInv, NEW r \in Requests, OpenPart(r)
  PROVE  MultipartInv'
<1> USE DEF MultipartInv, MultipartTypeOK
<1>1. UNCHANGED <<repoVars, partVars, issued, racy, torn>>
  BY DEF OpenPart
<1>2. RequestType' /\ \A q \in Requests : Harmless(q)
  <2> DEFINE want == NextPart(r)
             file == partFiles[mreq[r].upload][want.number]
             rest == IF mreq[r].list = <<>> THEN mreq[r].list ELSE Tail(mreq[r].list)
             left == mreq[r].all \ {want.number}
             body == mreq[r].body \o file
             e == [mreq[r] EXCEPT !.list = rest, !.all = left, !.body = body]
  <2>1. CASE ~(Acceptable(mreq[r].saved, want) /\ file # None)
    BY <1>1, <2>1, FinishIsHarmless DEF OpenPart, Finished
  <2>2. CASE Acceptable(mreq[r].saved, want) /\ file # None
    <3>1. mreq[r] \in CompleteRequest
      BY RequestKinds DEF OpenPart, RequestType, CompletePcs
    <3>2. want.number \in PartNumbers
      BY <2>2 DEF Acceptable, SavedNumbers
    <3>3. file \in Body
      BY <2>2, <3>1, <3>2 DEF CompleteRequest, PartStore!StoreTypeOK, Body, PartStore!Body
    <3>4. body \in Body
      BY <3>1, <3>3 DEF CompleteRequest, Body
    <3>5. rest \in Seq(Wanted)
      BY <3>1 DEF CompleteRequest
    <3>6. left \in SUBSET PartNumbers
      BY <3>1 DEF CompleteRequest
    <3>7. mreq' = [mreq EXCEPT ![r] = e]
      BY <2>2 DEF OpenPart
    <3> HIDE DEF want, file, rest, left, body
    <3>8. e \in CompleteRequest /\ e.pc = mreq[r].pc /\ e.upload = mreq[r].upload
      BY <3>1, <3>4, <3>5, <3>6 DEF CompleteRequest
    <3> HIDE DEF e
    <3>9. RequestType'
      BY <3>7, <3>8 DEF RequestType, MultipartRequests
    <3>10. mreq'[r] = e /\ \A q \in Requests \ {r} : mreq'[q] = mreq[q]
      BY <3>7
    <3>11. Harmless(r)
      BY <3>8, <3>10 DEF Harmless, Lawful, UsedIdsIssued, OpenPart, Finished
    <3>12. QED
      BY <1>1, <3>9, <3>10, <3>11, SameIsHarmless
  <2>3. QED
    BY <2>1, <2>2
<1>3. QED
  BY <1>1, <1>2, MoveInv

\* A completion has opened every part, or has written the object's file.
LEMMA PutAssembledInv ==
  ASSUME MultipartInv, NEW r \in Requests, OpenedAll(r) \/ PutAssembled(r)
  PROVE  MultipartInv'
<1>1. UNCHANGED <<repoVars, partVars, issued, racy, torn>>
  BY DEF OpenedAll, PutAssembled
<1>2. RequestType' /\ \A q \in Requests : Harmless(q)
  BY <1>1, GotoIsHarmless, FinishIsHarmless DEF OpenedAll, PutAssembled, CompletePcs, Finished
<1>3. QED
  BY <1>1, <1>2, MoveInv DEF MultipartInv, MultipartTypeOK

\* Removing a directory goes on elsewhere while r writes or finishes.
LEMMA WriteSweepsOwn ==
  ASSUME MultipartInv, \A q \in Requests : Harmless(q),
         NEW r \in Requests, NEW u \in UploadIds,
         partSweeps' = partSweeps \/ PartStore!CreateTemp(r, u)
  PROVE  SweepsOwnDir'
<1>1. CASE partSweeps' = partSweeps
  BY <1>1 DEF MultipartInv, SweepsOwnDir, Harmless, Lawful
<1>2. CASE PartStore!CreateTemp(r, u)
  <2> SUFFICES ASSUME NEW q \in Requests, mreq'[q].pc = "sweep"
               PROVE  partSweeps'[q] # None /\ partSweeps'[q].dir \in {None, mreq'[q].upload}
    BY DEF SweepsOwnDir
  <2>1. /\ partSweeps[q] # None
        /\ partSweeps[q].dir \in {None, mreq'[q].upload}
    BY DEF MultipartInv, SweepsOwnDir, Harmless, Lawful
  <2>2. partSweeps[q] \in PartStore!Sweeps
    BY <2>1 DEF MultipartInv, MultipartTypeOK, PartStore!StoreTypeOK
  <2>3. partSweeps'[q] = [partSweeps[q] EXCEPT !.temps = @ \ {r}]
    BY <1>2, <2>1 DEF PartStore!CreateTemp
  <2>4. partSweeps'[q].dir = partSweeps[q].dir
    BY <2>2, <2>3 DEF PartStore!Sweeps
  <2>5. partSweeps'[q] \in PartStore!Sweeps
    BY <2>2, <2>3 DEF PartStore!Sweeps
  <2>6. partSweeps'[q] # None
    BY <2>5, PartSentinelAssumption
  <2>7. QED
    BY <2>1, <2>4, <2>6
<1>3. QED
  BY <1>1, <1>2

\* A part upload makes its temporary file.
LEMMA CreatePartTempInv ==
  ASSUME MultipartInv, NEW r \in Requests, CreatePartTemp(r)
  PROVE  MultipartInv'
<1> DEFINE u == mreq[r].upload
<1>1. mreq[r] \in PartRequest
  BY RequestKinds DEF CreatePartTemp, MultipartInv, MultipartTypeOK, RequestType, PartPcs
<1>2. RequestType' /\ \A q \in Requests : Harmless(q)
  BY GotoIsHarmless, FinishIsHarmless DEF CreatePartTemp, PartPcs, Finished
<1>3. PICK n \in PartNumbers, body \in Body : TRUE
  BY <1>1 DEF PartRequest
<1>4. PartStore!StoreTypeOK'
  BY <1>1, <1>3, WriteStoreType DEF CreatePartTemp, PartRequest, MultipartInv, MultipartTypeOK
<1>5. SweepsOwnDir'
  BY <1>1, <1>2, WriteSweepsOwn DEF CreatePartTemp, PartRequest, PartStore!CreateTempFails
<1>6. partFiles' = partFiles
  BY DEF CreatePartTemp, PartStore!CreateTemp, PartStore!CreateTempFails
<1>7. UNCHANGED <<repoVars, issued, racy, torn>>
  BY DEF CreatePartTemp
<1>8. QED
  BY <1>2, <1>4, <1>5, <1>6, <1>7, GrowInv DEF MultipartInv, MultipartTypeOK

\* The body of a part arrives, or stops arriving.
LEMMA ReceivePartInv ==
  ASSUME MultipartInv, NEW r \in Requests, ReceivePart(r)
  PROVE  MultipartInv'
<1>1. mreq[r] \in PartRequest
  BY RequestKinds DEF ReceivePart, MultipartInv, MultipartTypeOK, RequestType, PartPcs
<1>2. RequestType' /\ \A q \in Requests : Harmless(q)
  BY GotoIsHarmless, FinishIsHarmless DEF ReceivePart, PartPcs, Finished
<1>3. PartStore!StoreTypeOK'
  BY <1>1, WriteStoreType DEF ReceivePart, PartRequest, MultipartInv, MultipartTypeOK
<1>4. partFiles' = partFiles /\ partSweeps' = partSweeps
  BY DEF ReceivePart, PartStore!CopyBody, PartStore!RemoveTemp
<1>5. SweepsOwnDir'
  BY <1>1, <1>2, <1>4, WriteSweepsOwn DEF PartRequest
<1>6. UNCHANGED <<repoVars, issued, racy, torn>>
  BY DEF ReceivePart
<1>7. QED
  BY <1>2, <1>3, <1>4, <1>5, <1>6, GrowInv DEF MultipartInv, MultipartTypeOK

\* A part file is published, or its temporary file is gone.
LEMMA PublishPartInv ==
  ASSUME MultipartInv, NEW r \in Requests, PublishPart(r)
  PROVE  MultipartInv'
<1> DEFINE u == mreq[r].upload
           n == mreq[r].number
<1>1. mreq[r] \in PartRequest
  BY RequestKinds DEF PublishPart, MultipartInv, MultipartTypeOK, RequestType, PartPcs
<1>2. u \in UploadIds /\ n \in PartNumbers
  BY <1>1 DEF PartRequest
<1>3. PartStore!StoreTypeOK'
  BY <1>1, WriteStoreType DEF PublishPart, PartRequest, MultipartInv, MultipartTypeOK
<1>4. UNCHANGED <<repoVars, issued, racy, torn>>
  BY DEF PublishPart
<1>5. CASE PartStore!Publish(r, u, n) /\ Goto(r, "save")
  <2>1. partTemps[r] \in PartStore!Temps
    BY <1>5 DEF PartStore!Publish, PartStore!TempInPlace, PartStore!TempsIn,
       MultipartInv, MultipartTypeOK, PartStore!StoreTypeOK
  <2>2. partTemps[r].data # None
    BY <2>1, NoneAssumption DEF PartStore!Temps, Body, PartStore!Body
  <2>3. /\ partFiles'[u][n] # None
        /\ \A v \in UploadIds, m \in PartNumbers :
             partFiles[v][m] # None => partFiles'[v][m] # None
    BY <1>2, <1>5, <2>2 DEF PartStore!Publish, MultipartInv, MultipartTypeOK, PartStore!StoreTypeOK
  <2>4. /\ RequestType'
        /\ mreq'[r].pc = "save" /\ mreq'[r].upload = u /\ mreq'[r].number = n
        /\ \A q \in Requests \ {r} : mreq'[q] = mreq[q]
    BY <1>5, GotoType DEF PublishPart, PartPcs, MultipartInv, MultipartTypeOK, RequestType
  <2>5. Harmless(r)
    BY <1>4, <2>3, <2>4 DEF Harmless, Lawful, PublishPart, MultipartInv, UsedIdsIssued, Finished
  <2>6. \A q \in Requests : Harmless(q)
    BY <1>4, <2>4, <2>5, SameIsHarmless
  <2>7. SweepsOwnDir'
    BY <1>2, <1>5, <2>6, WriteSweepsOwn DEF PartStore!Publish
  <2>8. QED
    BY <1>3, <1>4, <2>3, <2>4, <2>6, <2>7, GrowInv DEF MultipartInv, MultipartTypeOK
<1>6. CASE PartStore!PublishFails(r, u) /\ Finish(r, "failed")
  <2>1. RequestType' /\ \A q \in Requests : Harmless(q)
    BY <1>4, <1>6, FinishIsHarmless DEF Finished
  <2>2. partFiles' = partFiles /\ partSweeps' = partSweeps
    BY <1>6 DEF PartStore!PublishFails, PartStore!RemoveTemp
  <2>3. SweepsOwnDir'
    BY <1>2, <2>1, <2>2, WriteSweepsOwn
  <2>4. QED
    BY <1>3, <1>4, <2>1, <2>2, <2>3, GrowInv DEF MultipartInv, MultipartTypeOK
<1>7. QED
  BY <1>5, <1>6 DEF PublishPart

(***************************************************************************)
(* Steps in the repository: they leave the part files alone.                *)
(***************************************************************************)

\* A step in the repository that only lists parts which have their file, opens
\* no upload, and begins no removal of an open upload, preserves the invariant.
LEMMA TableInv ==
  ASSUME MultipartInv, RepoInv', RequestType', UNCHANGED <<partVars, issued, torn>>,
         racy' \subseteq UploadIds \X PartNumbers,
         \A u \in UploadIds : uploads'[u] # None => UploadExists(u),
         \A u \in UploadIds, n \in PartNumbers :
            uploads'[u] # None /\ u \notin torn /\ parts'[u][n] # None =>
               parts[u][n] # None \/ partFiles[u][n] # None,
         \A q \in Requests : Harmless(q)
  PROVE  MultipartInv'
<1>1. PartStore!StoreTypeOK'
  BY DEF partVars, MultipartInv, MultipartTypeOK, PartStore!StoreTypeOK
<1>2. SweepsOwnDir'
  BY DEF partVars, MultipartInv, SweepsOwnDir, Harmless, Lawful
<1>3. \A u \in UploadIds : uploads'[u] # None => u \in issued'
  BY DEF MultipartInv, UsedIdsIssued
<1>4. issued \subseteq issued' /\ issued' \subseteq UploadIds
  BY DEF MultipartInv, MultipartTypeOK
<1>5. partFiles' = partFiles
  BY DEF partVars
<1>6. torn' = torn /\ torn \subseteq UploadIds
  BY DEF MultipartInv, MultipartTypeOK
<1>7. \A u \in UploadIds, n \in PartNumbers :
         uploads'[u] # None /\ u \notin torn' /\ parts'[u][n] # None =>
            \/ UploadExists(u) /\ parts[u][n] # None
            \/ partFiles'[u][n] # None
  BY <1>5, <1>6
<1>8. \A q \in Requests : Lawful(q)
  BY DEF Harmless
<1>9. QED
  BY <1>1, <1>2, <1>3, <1>4, <1>5, <1>6, <1>7, <1>8, StepInv

\* A part is recorded, or is not, or its upload is gone.
LEMMA SavePartInv ==
  ASSUME MultipartInv, NEW r \in Requests, SavePart(r)
  PROVE  MultipartInv'
<1> DEFINE u == mreq[r].upload
           n == mreq[r].number
<1>1. mreq[r] \in PartRequest
  BY RequestKinds DEF SavePart, MultipartInv, MultipartTypeOK, RequestType, PartPcs
<1>2. u \in UploadIds /\ n \in PartNumbers /\ ETag(mreq[r].body) \in ETags
  BY <1>1 DEF PartRequest, ETag, ETags
<1>3. UNCHANGED <<partVars, issued, torn>>
  BY DEF SavePart
<1>4. RequestType' /\ \A q \in Requests : Harmless(q)
  <2>1. \E outcome \in Finished : Finish(r, outcome)
    BY DEF SavePart, Finished
  <2>. QED
    BY <1>3, <2>1, FinishIsHarmless
<1>5. CASE SaveMultipartPart(u, n, ETag(mreq[r].body))
  <2>1. RepoInv'
    BY <1>2, <1>5, SaveMultipartPartInv DEF MultipartInv
  <2>2. u \notin torn => partFiles[u][n] # None
    BY <1>5 DEF SavePart, SaveMultipartPart, MultipartInv, SavingHasFile
  <2>3. uploads' = uploads /\ parts[u] # None
    BY <1>2, <1>5 DEF SaveMultipartPart, MultipartInv, RepoInv, PartsFollowUploads
  <2>4. \A v \in UploadIds, m \in PartNumbers :
          v \notin torn /\ parts[v] # None /\ parts'[v][m] # None =>
             parts[v][m] # None \/ partFiles[v][m] # None
    <3>1. parts' = [parts EXCEPT ![u] = [parts[u] EXCEPT ![n] = ETag(mreq[r].body)]]
      BY <1>5, <2>3 DEF SaveMultipartPart
    <3>2. parts \in [UploadIds -> PartTables \cup {None}]
      BY DEF MultipartInv, RepoInv, RepoTypeOK
    <3>3. parts[u] \in PartTables
      BY <1>2, <2>3, <3>2
    <3>4. \A m \in PartNumbers \ {n} : parts'[u][m] = parts[u][m]
      BY <1>2, <3>1, <3>2, <3>3 DEF PartTables
    <3>5. \A v \in UploadIds \ {u} : parts'[v] = parts[v]
      BY <3>1, <3>2
    <3>6. QED
      BY <2>2, <3>4, <3>5
  <2>5. \A v \in UploadIds : uploads'[v] # None => UploadExists(v) /\ parts[v] # None
    BY <2>3 DEF UploadExists, MultipartInv, RepoInv, PartsFollowUploads
  <2>6. racy' \subseteq UploadIds \X PartNumbers
    BY <1>2 DEF SavePart, MultipartInv, MultipartTypeOK
  <2>7. QED
    BY <1>3, <1>4, <2>1, <2>4, <2>5, <2>6, TableInv
<1>6. CASE UNCHANGED repoVars /\ racy' = racy \cup {<<u, n>>}
  BY <1>2, <1>3, <1>4, <1>6, MoveInv DEF MultipartInv, MultipartTypeOK
<1>7. QED
  BY <1>5, <1>6 DEF SavePart

\* The assembled object is recorded, or its bucket is gone, or the call fails.
LEMMA UpsertAssembledInv ==
  ASSUME MultipartInv, NEW r \in Requests, UpsertAssembled(r)
  PROVE  MultipartInv'
<1> DEFINE b == mreq[r].target.bucket
           k == mreq[r].target.key
           e == [pc |-> "forget", upload |-> mreq[r].upload, solo |-> mreq[r].solo]
<1>1. mreq[r] \in CompleteRequest
  BY RequestKinds DEF UpsertAssembled, MultipartInv, MultipartTypeOK, RequestType, CompletePcs
<1>2. b \in Buckets /\ k \in Keys /\ ETag(mreq[r].body) \in ETags
  BY <1>1 DEF CompleteRequest, Uploads, ETag, ETags
<1>3. UNCHANGED <<partVars, issued, racy, torn>>
  BY DEF UpsertAssembled
<1>4. CASE UpsertObject(b, k, ETag(mreq[r].body)) /\ mreq' = [mreq EXCEPT ![r] = e]
  <2>1. RepoInv'
    BY <1>2, <1>4, UpsertObjectInv DEF MultipartInv
  <2>2. uploads' = uploads /\ parts' = parts
    BY <1>4 DEF UpsertObject
  <2>3. e \in MultipartRequests /\ e.pc = "forget" /\ e.upload = mreq[r].upload
    BY <1>1 DEF CompleteRequest, MultipartRequests, DropRequest, DropPcs
  <2> HIDE DEF e
  <2>4. RequestType' /\ mreq'[r] = e /\ \A q \in Requests \ {r} : mreq'[q] = mreq[q]
    BY <1>4, <2>3 DEF RequestType, MultipartInv, MultipartTypeOK
  <2>5. mreq[r].upload \in issued
    BY DEF UpsertAssembled, MultipartInv, UsedIdsIssued, Finished
  <2>6. Harmless(r)
    BY <1>3, <2>3, <2>4, <2>5 DEF Harmless, Lawful
  <2>7. \A q \in Requests : Harmless(q)
    BY <1>3, <2>4, <2>6, SameIsHarmless
  <2>8. racy' \subseteq UploadIds \X PartNumbers
    BY <1>3 DEF MultipartInv, MultipartTypeOK
  <2>9. \A v \in UploadIds : uploads'[v] # None => UploadExists(v)
    BY <2>2 DEF UploadExists
  <2>10. QED
    BY <1>3, <2>1, <2>2, <2>4, <2>7, <2>8, <2>9, TableInv
<1>5. CASE Finish(r, "failed") /\ UNCHANGED repoVars
  <2>1. RequestType' /\ \A q \in Requests : Harmless(q)
    BY <1>3, <1>5, FinishIsHarmless DEF Finished
  <2>2. QED
    BY <1>3, <1>5, <2>1, MoveInv DEF MultipartInv, MultipartTypeOK
<1>6. CASE Finish(r, "failed") /\ UpsertObject(b, k, ETag(mreq[r].body))
  <2>1. RequestType' /\ \A q \in Requests : Harmless(q)
    BY <1>3, <1>6, FinishIsHarmless DEF Finished
  <2>2. RepoInv'
    BY <1>2, <1>6, UpsertObjectInv DEF MultipartInv
  <2>3. \A v \in UploadIds : parts' = parts /\ (uploads'[v] # None => UploadExists(v))
    BY <1>6 DEF UpsertObject, UploadExists
  <2>4. racy' \subseteq UploadIds \X PartNumbers
    BY <1>3 DEF MultipartInv, MultipartTypeOK
  <2>5. QED
    BY <1>3, <2>1, <2>2, <2>3, <2>4, TableInv
<1>7. QED
  BY <1>4, <1>5, <1>6 DEF UpsertAssembled

\* An upload is forgotten, or torn.
LEMMA ForgetUploadInv ==
  ASSUME MultipartInv, NEW r \in Requests, ForgetUpload(r)
  PROVE  MultipartInv'
<1> DEFINE u == mreq[r].upload
<1>1. mreq[r] \in DropRequest
  BY RequestKinds DEF ForgetUpload, MultipartInv, MultipartTypeOK, RequestType, DropPcs
<1>2. u \in UploadIds /\ u \in issued
  BY <1>1 DEF DropRequest, ForgetUpload, MultipartInv, UsedIdsIssued, Finished
<1>3. UNCHANGED <<partVars, issued, racy>>
  BY DEF ForgetUpload
<1>4. /\ RequestType'
      /\ mreq'[r].pc = "scan"
      /\ mreq'[r].upload = u
      /\ \A q \in Requests \ {r} : mreq'[q] = mreq[q]
  BY GotoType DEF ForgetUpload, DropPcs, MultipartInv, MultipartTypeOK, RequestType
<1>5. ASSUME uploads'[u] = None \/ u \in torn' PROVE \A q \in Requests : Harmless(q)
  <2>1. Harmless(r)
    BY <1>2, <1>3, <1>4, <1>5 DEF Harmless, Lawful
  <2>2. QED
    BY <1>3, <1>4, <2>1, SameIsHarmless
<1>6. racy' \subseteq UploadIds \X PartNumbers
  BY <1>3 DEF MultipartInv, MultipartTypeOK
<1>7. CASE DeleteMultipartUpload(u) /\ UNCHANGED torn
  <2>1. RepoInv'
    BY <1>2, <1>7, DeleteMultipartUploadInv DEF MultipartInv
  <2>2. /\ uploads'[u] = None
        /\ \A v \in UploadIds : uploads'[v] # None => UploadExists(v) /\ parts'[v] = parts[v]
    BY <1>2, <1>7 DEF DeleteMultipartUpload, UploadExists, MultipartInv, RepoInv, RepoTypeOK
  <2>3. QED
    BY <1>3, <1>4, <1>5, <1>6, <1>7, <2>1, <2>2, TableInv
<1>8. CASE UNCHANGED repoVars /\ torn' = torn \cup {u}
  <2>1. torn \subseteq torn' /\ torn' \subseteq UploadIds /\ u \in torn'
    BY <1>2, <1>8 DEF MultipartInv, MultipartTypeOK
  <2>2. QED
    BY <1>3, <1>4, <1>5, <1>6, <1>8, <2>1, MoveInv
<1>9. QED
  BY <1>7, <1>8 DEF ForgetUpload

(***************************************************************************)
(* The directory of an upload goes.                                        *)
(***************************************************************************)

\* A sweep that begins is in the directory of its own upload.
LEMMA ScanUploadDirInv ==
  ASSUME MultipartInv, NEW r \in Requests, ScanUploadDir(r)
  PROVE  MultipartInv'
<1> DEFINE u == mreq[r].upload
<1>1. mreq[r] \in DropRequest
  BY RequestKinds DEF ScanUploadDir, MultipartInv, MultipartTypeOK, RequestType, DropPcs
<1>2. u \in UploadIds /\ u \in issued /\ (uploads[u] = None \/ u \in torn)
  BY <1>1 DEF DropRequest, ScanUploadDir, MultipartInv, UsedIdsIssued, DroppedIsGone,
     UploadExists, Finished
<1>3. UNCHANGED <<repoVars, issued, racy, torn>>
  BY DEF ScanUploadDir
<1>4. CASE PartStore!StartSweep(r, u) /\ Goto(r, "sweep")
  <2>1. PartStore!StoreTypeOK'
    BY <1>2, <1>4, SweepStoreType DEF MultipartInv, MultipartTypeOK
  <2>2. /\ RequestType'
        /\ mreq'[r].pc = "sweep" /\ mreq'[r].upload = u
        /\ \A q \in Requests \ {r} : mreq'[q] = mreq[q]
    BY <1>4, GotoType DEF ScanUploadDir, DropPcs, MultipartInv, MultipartTypeOK, RequestType
  <2>3. uploads' = uploads /\ parts' = parts /\ partFiles' = partFiles
    BY <1>3, <1>4 DEF repoVars, PartStore!StartSweep
  <2>4. Lawful(r)
    BY <1>2, <1>3, <2>2, <2>3 DEF Lawful
  <2>5. \A q \in Requests : Lawful(q)
    BY <1>3, <2>2, <2>4, SameIsHarmless DEF Harmless
  <2>6. /\ partSweeps'[r] # None /\ partSweeps'[r].dir = u
        /\ \A q \in Requests \ {r} : partSweeps'[q] = partSweeps[q]
    <3> DEFINE e == [dir |-> u, keys |-> PartStore!FilesIn(u), temps |-> PartStore!TempsIn(u)]
    <3>1. e \in PartStore!Sweeps
      BY <1>2 DEF PartStore!Sweeps, PartStore!FilesIn, PartStore!TempsIn
    <3>2. e.dir = u
      OBVIOUS
    <3>3. partSweeps' = [partSweeps EXCEPT ![r] = e]
      BY <1>4 DEF PartStore!StartSweep
    <3> HIDE DEF e
    <3>4. QED
      BY <3>1, <3>2, <3>3, PartSentinelAssumption
         DEF MultipartInv, MultipartTypeOK, PartStore!StoreTypeOK
  <2>7. SweepsOwnDir'
    BY <2>2, <2>6 DEF MultipartInv, SweepsOwnDir
  <2>8. RepoInv' /\ \A v \in UploadIds : uploads'[v] # None => v \in issued' /\ UploadExists(v)
    BY <1>3, <2>3, RepoStutterInv DEF MultipartInv, UsedIdsIssued, UploadExists
  <2>9. issued \subseteq issued' /\ issued' \subseteq UploadIds
        /\ racy' \subseteq UploadIds \X PartNumbers
        /\ torn \subseteq torn' /\ torn' \subseteq UploadIds
    BY <1>3 DEF MultipartInv, MultipartTypeOK
  <2>10. QED
    BY <2>1, <2>2, <2>3, <2>5, <2>7, <2>8, <2>9, StepInv
<1>5. CASE PartStore!SweepNoop(u) /\ Finish(r, "ok")
  <2>1. RequestType' /\ \A q \in Requests : Harmless(q)
    BY <1>3, <1>5, FinishIsHarmless DEF Finished
  <2>2. UNCHANGED partVars
    BY <1>5 DEF PartStore!SweepNoop, PartStore!storeVars, partVars
  <2>3. QED
    BY <1>3, <2>1, <2>2, MoveInv DEF MultipartInv, MultipartTypeOK
<1>6. QED
  BY <1>4, <1>5 DEF ScanUploadDir

\* What the sweep of r may do to the directories other requests are removing.
LEMMA SweepsStayOwn ==
  ASSUME MultipartInv, PartStore!StoreTypeOK', \A q \in Requests : Harmless(q),
         \A q \in Requests : mreq'[q].pc = "sweep" /\ partSweeps[q] # None =>
            partSweeps'[q] # None /\ partSweeps'[q].dir \in {None, partSweeps[q].dir}
  PROVE  SweepsOwnDir'
  BY DEF MultipartInv, SweepsOwnDir, Harmless

\* Part files go one by one, and then the directory: all of them of an upload
\* that is gone.
LEMMA SweepUploadDirInv ==
  ASSUME MultipartInv, NEW r \in Requests, SweepUploadDir(r)
  PROVE  MultipartInv'
<1> DEFINE u == mreq[r].upload
<1>1. mreq[r] \in DropRequest
  BY RequestKinds DEF SweepUploadDir, MultipartInv, MultipartTypeOK, RequestType, DropPcs
<1>2. u \in UploadIds /\ u \in issued /\ (uploads[u] = None \/ u \in torn)
  BY <1>1 DEF DropRequest, SweepUploadDir, MultipartInv, UsedIdsIssued, DroppedIsGone,
     UploadExists, Finished
<1>3. UNCHANGED <<repoVars, issued, racy, torn>>
  BY DEF SweepUploadDir
<1>4. partSweeps[r] # None /\ partSweeps[r].dir \in {None, u} /\ partSweeps[r] \in PartStore!Sweeps
  BY DEF SweepUploadDir, MultipartInv, MultipartTypeOK, SweepsOwnDir, PartStore!StoreTypeOK
<1>5. PartStore!StoreTypeOK'
  BY <1>2, <1>4, SweepStoreType DEF SweepUploadDir, MultipartInv, MultipartTypeOK
<1>6. RequestType' /\ \A q \in Requests : Harmless(q)
  <2>1. CASE UNCHANGED mreq
    BY <1>3, <2>1, SameIsHarmless DEF MultipartInv, MultipartTypeOK, RequestType
  <2>2. CASE Finish(r, "ok")
    BY <1>3, <2>2, FinishIsHarmless DEF Finished
  <2>3. QED
    BY <2>1, <2>2 DEF SweepUploadDir
<1>7. \A v \in UploadIds, n \in PartNumbers :
         uploads'[v] # None /\ v \notin torn' /\ partFiles[v][n] # None =>
            partFiles'[v][n] # None
  <2>1. ASSUME NEW m \in PartNumbers, PartStore!SweepFile(r, m),
               NEW v \in UploadIds, uploads'[v] # None, v \notin torn'
        PROVE  partFiles'[v] = partFiles[v]
    <3>1. v # u
      BY <1>2, <1>3, <2>1 DEF repoVars
    <3>2. QED
      BY <1>4, <2>1, <3>1 DEF PartStore!SweepFile, MultipartInv, MultipartTypeOK,
         PartStore!StoreTypeOK
  <2>2. \/ \E m \in PartNumbers : PartStore!SweepFile(r, m)
        \/ partFiles' = partFiles
    BY DEF SweepUploadDir, PartStore!SweepTemp, PartStore!RemoveDir, PartStore!RemoveDirFails
  <2>3. QED
    BY <2>1, <2>2
<1>8. SweepsOwnDir'
  <2> SUFFICES ASSUME NEW q \in Requests, mreq'[q].pc = "sweep", partSweeps[q] # None
               PROVE  partSweeps'[q] # None /\ partSweeps'[q].dir \in {None, partSweeps[q].dir}
    BY <1>5, <1>6, SweepsStayOwn
  <2>1. /\ partSweeps[q] \in PartStore!Sweeps
        /\ partSweeps \in [Requests -> PartStore!Sweeps \cup {None}]
    BY DEF MultipartInv, MultipartTypeOK, PartStore!StoreTypeOK
  <2>2. partSweeps'[q] \in PartStore!Sweeps => partSweeps'[q] # None
    BY PartSentinelAssumption
  <2>3. ASSUME NEW m \in PartNumbers, PartStore!SweepFile(r, m)
        PROVE  partSweeps'[q] \in PartStore!Sweeps /\ partSweeps'[q].dir = partSweeps[q].dir
    BY <1>4, <2>1, <2>3 DEF PartStore!SweepFile, PartStore!Sweeps
  <2>4. ASSUME NEW p \in Requests, PartStore!SweepTemp(r, p)
        PROVE  partSweeps'[q] \in PartStore!Sweeps /\ partSweeps'[q].dir = partSweeps[q].dir
    BY <1>4, <2>1, <2>4 DEF PartStore!SweepTemp, PartStore!Sweeps
  <2>5. ASSUME Finish(r, "ok") PROVE q # r
    BY <2>5 DEF Finish, MultipartInv, MultipartTypeOK
  <2>6. ASSUME PartStore!RemoveDir(r, u), Finish(r, "ok")
        PROVE  /\ partSweeps'[q] \in PartStore!Sweeps
               /\ partSweeps'[q].dir \in {None, partSweeps[q].dir}
    BY <2>1, <2>5, <2>6 DEF PartStore!RemoveDir, PartStore!Sweeps
  <2>7. ASSUME PartStore!RemoveDirFails(r, u), Finish(r, "ok")
        PROVE  partSweeps'[q] = partSweeps[q]
    BY <2>1, <2>5, <2>7 DEF PartStore!RemoveDirFails
  <2>8. QED
    BY <2>2, <2>3, <2>4, <2>6, <2>7 DEF SweepUploadDir
<1>9. RepoInv' /\ \A v \in UploadIds : uploads'[v] # None => v \in issued' /\ UploadExists(v)
  BY <1>3, RepoStutterInv DEF repoVars, MultipartInv, UsedIdsIssued, UploadExists
<1>10. parts' = parts /\ issued \subseteq issued' /\ issued' \subseteq UploadIds
       /\ racy' \subseteq UploadIds \X PartNumbers
       /\ torn \subseteq torn' /\ torn' \subseteq UploadIds
  BY <1>3 DEF repoVars, MultipartInv, MultipartTypeOK
<1>11. QED
  BY <1>5, <1>6, <1>7, <1>8, <1>9, <1>10, StepInv DEF Harmless
(***************************************************************************)
(* Uploads begin, buckets come and go, the process restarts.                *)
(***************************************************************************)

\* A new upload has an id that was never issued, and no parts.
LEMMA CreateUploadInv ==
  ASSUME MultipartInv, NEW u \in UploadIds, CreateUpload(u)
  PROVE  MultipartInv'
<1>1. PICK b \in Buckets, k \in Keys : CreateMultipartUpload(u, b, k)
  BY DEF CreateUpload
<1>2. RepoInv'
  BY <1>1, CreateMultipartUploadInv DEF MultipartInv
<1>3. u \notin issued /\ issued' = issued \cup {u} /\ UNCHANGED <<partVars, mreq, racy, torn>>
  BY DEF CreateUpload
<1>4. /\ parts'[u] = NoParts
      /\ \A v \in UploadIds \ {u} : parts'[v] = parts[v] /\ uploads'[v] = uploads[v]
  BY <1>1 DEF CreateMultipartUpload, MultipartInv, RepoInv, RepoTypeOK
<1>5. \A q \in Requests : Harmless(q)
  BY <1>3, SameIsHarmless
<1>6. RequestType' /\ PartStore!StoreTypeOK' /\ SweepsOwnDir'
  BY <1>3 DEF partVars, MultipartInv, MultipartTypeOK, RequestType, SweepsOwnDir,
     PartStore!StoreTypeOK
<1>7. \A v \in UploadIds : uploads'[v] # None =>
         v \in issued' /\ (UploadExists(v) \/ v \notin issued)
  BY <1>3, <1>4 DEF MultipartInv, UsedIdsIssued, UploadExists
<1>8. \A v \in UploadIds, n \in PartNumbers :
         uploads'[v] # None /\ parts'[v][n] # None => UploadExists(v) /\ parts[v][n] # None
  BY <1>4 DEF NoParts, UploadExists
<1>9. issued \subseteq issued' /\ issued' \subseteq UploadIds
  BY <1>3 DEF MultipartInv, MultipartTypeOK
<1>10. partFiles' = partFiles /\ racy' \subseteq UploadIds \X PartNumbers
       /\ torn \subseteq torn' /\ torn' \subseteq UploadIds
  BY <1>3 DEF partVars, MultipartInv, MultipartTypeOK
<1>11. QED
  BY <1>2, <1>5, <1>6, <1>7, <1>8, <1>9, <1>10, StepInv DEF Harmless

\* Buckets come, go and change their names; their uploads go along or stay.
LEMMA BucketRequestInv ==
  ASSUME MultipartInv, BucketRequest
  PROVE  MultipartInv'
<1>1. UNCHANGED <<partVars, issued, mreq, racy, torn>>
  BY DEF BucketRequest
<1>2. /\ RepoInv'
      /\ \A u \in UploadIds : uploads'[u] # None => UploadExists(u) /\ parts'[u] = parts[u]
  <2>1. ASSUME NEW b \in Buckets, CreateBucket(b, Private)
        PROVE  RepoInv' /\ UNCHANGED <<uploads, parts>>
    BY <2>1, BucketPolicyInv, SentinelAssumption DEF CreateBucket, MultipartInv
  <2>2. ASSUME NEW b \in Buckets, DeleteBucket(b)
        PROVE  RepoInv' /\ UNCHANGED <<uploads, parts>>
    BY <2>2, DeleteBucketInv DEF DeleteBucket, MultipartInv
  <2>3. ASSUME NEW b \in Buckets, DeleteBucketRecursive(b)
        PROVE  /\ RepoInv'
               /\ \A u \in UploadIds :
                    uploads'[u] # None => UploadExists(u) /\ parts'[u] = parts[u]
    BY <2>3, DeleteBucketRecursiveInv DEF DeleteBucketRecursive, MultipartInv, UploadExists
  <2>4. ASSUME NEW old \in Buckets, NEW new \in Buckets, RenameBucketTo(old, new, Private)
        PROVE  /\ RepoInv' /\ parts' = parts
               /\ \A u \in UploadIds : uploads'[u] # None => UploadExists(u)
    BY <2>4, RenameBucketInv, SentinelAssumption
       DEF RenameBucketTo, MultipartInv, UploadExists, UploadsOf
  <2>5. QED
    BY <2>1, <2>2, <2>3, <2>4 DEF BucketRequest, UploadExists
<1>3. RequestType' /\ \A q \in Requests : Harmless(q)
  BY <1>1, SameIsHarmless DEF MultipartInv, MultipartTypeOK, RequestType
<1>4. QED
  BY <1>1, <1>2, <1>3, TableInv DEF MultipartInv, MultipartTypeOK

\* A process that starts again has no request in flight; its tables are empty or
\* as they were, and no part file is gone.
LEMMA RestartInv ==
  ASSUME MultipartInv, Restart
  PROVE  MultipartInv'
<1>1. RepoInv' /\ \A u \in UploadIds : uploads'[u] # None => UploadExists(u) /\ parts' = parts
  <2>1. CASE UNCHANGED repoVars
    BY <2>1, RepoStutterInv DEF MultipartInv, repoVars, UploadExists
  <2>2. CASE ForgetTables
    BY <2>2 DEF ForgetTables, RepoInv, RepoTypeOK, ObjectsInBuckets, EntriesNameTheirBucket,
       PartsFollowUploads, NoObjects, ObjectExists, BucketExists, UploadExists
  <2>3. QED
    BY <2>1, <2>2 DEF Restart
<1>2. PartStore!StoreTypeOK' /\ partFiles' = partFiles
  BY DEF Restart, PartStore!LoseRequests, MultipartInv, MultipartTypeOK, PartStore!StoreTypeOK
<1>3. RequestType' /\ \A r \in Requests : mreq'[r].pc = "idle"
  BY DEF Restart, RequestType, MultipartRequests, FinishedRequest, Finished
<1>4. Unsaved \subseteq UploadIds \X PartNumbers
  BY RequestKinds
     DEF Unsaved, PartRequest, PartPcs, RequestType, MultipartInv, MultipartTypeOK
<1>5. /\ issued' = issued /\ issued' \subseteq UploadIds
      /\ racy' \subseteq UploadIds \X PartNumbers
      /\ torn' = torn /\ torn' \subseteq UploadIds
  BY <1>4 DEF Restart, MultipartInv, MultipartTypeOK
<1>6. \A q \in Requests : Lawful(q)
  BY <1>3 DEF Lawful, Finished
<1>7. SweepsOwnDir'
  BY <1>3 DEF SweepsOwnDir
<1>8. \A u \in UploadIds : uploads'[u] # None => u \in issued'
  BY <1>1, <1>5 DEF MultipartInv, UsedIdsIssued
<1>9. QED
  BY <1>1, <1>2, <1>3, <1>5, <1>6, <1>7, <1>8, StepInv

\* A step outside the multipart handlers preserves the invariant.
LEMMA MultipartStutterInv == MultipartInv /\ UNCHANGED multipartVars => MultipartInv'
<1> SUFFICES ASSUME MultipartInv, UNCHANGED multipartVars PROVE MultipartInv'
  OBVIOUS
<1>1. UNCHANGED <<repoVars, partVars, issued, mreq, racy, torn>>
  BY DEF multipartVars
<1>2. RequestType' /\ racy' \subseteq UploadIds \X PartNumbers
      /\ torn \subseteq torn' /\ torn' \subseteq UploadIds
  BY <1>1 DEF MultipartInv, MultipartTypeOK, RequestType
<1>3. \A q \in Requests : Harmless(q)
  BY <1>1, SameIsHarmless
<1>4. QED
  BY <1>1, <1>2, <1>3, MoveInv

(***************************************************************************)
(* The theorems                                                            *)
(***************************************************************************)

\* The invariant holds of every behaviour of the multipart handlers.
THEOREM MultipartInvariant == MultipartSpec => []MultipartInv
<1>1. MultipartInit => MultipartInv
  BY MultipartInitInv
<1>2. MultipartInv /\ [MultipartNext]_multipartVars => MultipartInv'
  <2> SUFFICES ASSUME MultipartInv, [MultipartNext]_multipartVars
               PROVE  MultipartInv'
    OBVIOUS
  <2>1. CASE UNCHANGED multipartVars
    BY <2>1, MultipartStutterInv
  <2>2. ASSUME NEW u \in UploadIds, CreateUpload(u)
        PROVE  MultipartInv'
    BY <2>2, CreateUploadInv
  <2>3. ASSUME NEW r \in Requests, ClientStep(r)
        PROVE  MultipartInv'
    BY <2>3, BeginPartInv, BeginDropInv, ReceivePartInv DEF ClientStep
  <2>4. ASSUME NEW r \in Requests, ServerStep(r)
        PROVE  MultipartInv'
    BY <2>4, CreatePartTempInv, PublishPartInv, SavePartInv, ListPartsInv, OpenPartInv,
       PutAssembledInv, UpsertAssembledInv, ForgetUploadInv, ScanUploadDirInv,
       SweepUploadDirInv DEF ServerStep
  <2>5. CASE BucketRequest
    BY <2>5, BucketRequestInv
  <2>6. CASE Restart
    BY <2>6, RestartInv
  <2>7. QED
    BY <2>1, <2>2, <2>3, <2>4, <2>5, <2>6 DEF MultipartNext, RunningNext
<1>3. QED
  BY <1>1, <1>2, PTL DEF MultipartSpec

\* A part that an open upload lists always has its file on disk, for any number
\* of part uploads, completions, aborts, bucket removals, failed calls and restarts
\* at a time, unless a removal tried to forget the upload in vain.
THEOREM PartFilesAlwaysExist == MultipartSpec => []PartFilesExist
<1>1. MultipartInv => PartFilesExist
  BY DEF MultipartInv
<1>2. QED
  BY <1>1, MultipartInvariant, PTL

\* The tables, the part files and the requests are always well typed.
THEOREM MultipartTypeCorrect == MultipartSpec => []MultipartTypeOK
<1>1. MultipartInv => MultipartTypeOK
  BY DEF MultipartInv
<1>2. QED
  BY <1>1, MultipartInvariant, PTL

\* The directory of an open upload is being removed only if some removal tried to
\* forget the upload in vain: ForgetUpload comes before the scan in every handler.
THEOREM OpenUploadsKeepTheirFiles == MultipartSpec => []DroppedIsGone
<1>1. MultipartInv => DroppedIsGone
  BY DEF MultipartInv
<1>2. QED
  BY <1>1, MultipartInvariant, PTL

(***************************************************************************)
(* The second invariant: bodies, ETags and what a removal still has to do.  *)
(***************************************************************************)

\* Request r is an upload of part n of u.
Sends(r, u, n) == mreq[r].pc \in PartPcs /\ mreq[r].upload = u /\ mreq[r].number = n

\* What running alone means: a part upload that claims it has no rival, and one
\* that does not has made its part racy; a completion or a removal that claims
\* it meets no part upload, and a completion no racy part.
Alone(r) ==
    /\ mreq[r].pc \in PartPcs =>
         IF mreq[r].solo
         THEN \A q \in Requests \ {r} : ~Sends(q, mreq[r].upload, mreq[r].number)
         ELSE <<mreq[r].upload, mreq[r].number>> \in racy
    /\ mreq[r].pc \in CompletePcs \cup DropPcs /\ mreq[r].solo =>
         Uploading(mreq[r].upload) = {}
    /\ mreq[r].pc \in CompletePcs /\ mreq[r].solo =>
         \A n \in PartNumbers : <<mreq[r].upload, n>> \notin racy

\* Bodies are never cut or mixed on their way to the disk, and a temporary file
\* belongs to a part upload in the middle of its write.
BodyOnItsWay(r) ==
    /\ mreq[r].pc \in PartPcs => mreq[r].body \in Bodies
    /\ partTemps[r] # None =>
         /\ mreq[r].pc \in {"copy", "publish"}
         /\ partTemps[r].dir = mreq[r].upload
         /\ mreq[r].upload \in partDirs
         /\ mreq[r].pc = "publish" => partTemps[r].data = mreq[r].body

PartsAreWhole ==
    \A u \in UploadIds, n \in PartNumbers :
        partFiles[u][n] # None => partFiles[u][n] \in Bodies /\ u \in partDirs

\* Between the rename of a part file and its record the two may differ.
ListedIsStored ==
    \A u \in UploadIds, n \in PartNumbers :
        UploadExists(u) /\ parts[u][n] # None /\ partFiles[u][n] # None
            /\ <<u, n>> \notin racy
            /\ (\A r \in Requests : ~(mreq[r].pc = "save" /\ Sends(r, u, n)))
          => ETag(partFiles[u][n]) = parts[u][n]

\* A part upload that ran alone is about to record what it has stored, if it is
\* still there; what a
\* completion that runs alone has listed is what it will open, if anything; and
\* a removal that runs alone knows every file that is left.
CarriesTheTruth(r) ==
    /\ mreq[r].pc = "save" /\ mreq[r].solo
         /\ partFiles[mreq[r].upload][mreq[r].number] # None =>
         partFiles[mreq[r].upload][mreq[r].number] = mreq[r].body
    /\ mreq[r].pc = "open" /\ mreq[r].solo =>
         \A n \in PartNumbers :
            mreq[r].saved[n] # None /\ partFiles[mreq[r].upload][n] # None =>
                ETag(partFiles[mreq[r].upload][n]) = mreq[r].saved[n]
    /\ mreq[r].pc = "sweep" /\ mreq[r].solo =>
         \A n \in PartNumbers :
            partFiles[mreq[r].upload][n] # None =>
                partSweeps[r].dir # None /\ n \in partSweeps[r].keys

TruthInv ==
    /\ \A r \in Requests : Alone(r) /\ BodyOnItsWay(r) /\ CarriesTheTruth(r)
    /\ PartsAreWhole
    /\ ListedIsStored

(***************************************************************************)
(* How a request goes on: everything but its arrival keeps its arguments    *)
(* and its claim to run alone.                                              *)
(***************************************************************************)

Onward(q) ==
    /\ mreq'[q].pc \in PartPcs =>
         /\ mreq[q].pc \in PartPcs
         /\ mreq'[q].upload = mreq[q].upload
         /\ mreq'[q].number = mreq[q].number
         /\ mreq'[q].body = mreq[q].body
         /\ mreq'[q].solo = mreq[q].solo
    /\ mreq'[q].pc \in CompletePcs =>
         /\ mreq[q].pc \in CompletePcs
         /\ mreq'[q].upload = mreq[q].upload
         /\ mreq'[q].solo = mreq[q].solo
    /\ mreq'[q].pc \in DropPcs =>
         /\ mreq[q].pc \in CompletePcs \cup DropPcs
         /\ mreq'[q].upload = mreq[q].upload
         /\ mreq'[q].solo = mreq[q].solo

OneMoves(r) ==
    /\ \A q \in Requests \ {r} : mreq'[q] = mreq[q]
    /\ \A q \in Requests : Onward(q)

\* The classes of steps of a handler are disjoint.
LEMMA PcsAreDisjoint ==
  /\ PartPcs \cap CompletePcs = {} /\ PartPcs \cap DropPcs = {}
  /\ CompletePcs \cap DropPcs = {}
  /\ Finished \cap (PartPcs \cup CompletePcs \cup DropPcs) = {}
  BY DEF PartPcs, CompletePcs, DropPcs, Finished

\* A handler that moves on within its class keeps all it carries.
LEMMA GotoOnward ==
  ASSUME RequestType, NEW r \in Requests, NEW pc,
         \/ mreq[r].pc \in PartPcs /\ pc \in PartPcs
         \/ mreq[r].pc \in CompletePcs /\ pc \in CompletePcs
         \/ mreq[r].pc \in DropPcs /\ pc \in DropPcs,
         Goto(r, pc)
  PROVE  /\ OneMoves(r)
         /\ mreq'[r].pc = pc
         /\ mreq[r].pc \in PartPcs => mreq'[r].body = mreq[r].body /\ mreq'[r].number = mreq[r].number
         /\ mreq'[r].upload = mreq[r].upload
         /\ mreq'[r].solo = mreq[r].solo
<1> DEFINE e == [mreq[r] EXCEPT !.pc = pc]
<1>1. mreq' = [mreq EXCEPT ![r] = e]
  BY DEF Goto
<1>2. /\ e.pc = pc /\ e.upload = mreq[r].upload
      /\ mreq[r].pc \in PartPcs => e.number = mreq[r].number /\ e.body = mreq[r].body
  <2>1. CASE mreq[r].pc \in PartPcs
    BY <2>1, RequestKinds DEF PartRequest
  <2>2. CASE mreq[r].pc \in CompletePcs
    BY <2>2, PcsAreDisjoint, RequestKinds DEF CompleteRequest
  <2>3. CASE mreq[r].pc \in DropPcs
    BY <2>3, PcsAreDisjoint, RequestKinds DEF DropRequest
  <2>. QED
    BY <2>1, <2>2, <2>3
<1>3. e.solo = mreq[r].solo
  <2>1. "solo" \in DOMAIN mreq[r]
    BY RequestKinds DEF PartRequest, CompleteRequest, DropRequest
  <2>2. e = [f \in DOMAIN mreq[r] |-> IF f = "pc" THEN pc ELSE mreq[r][f]]
    OBVIOUS
  <2>. QED
    BY <2>1, <2>2, Zenon
<1> HIDE DEF e
<1>4. mreq'[r] = e /\ \A q \in Requests \ {r} : mreq'[q] = mreq[q]
  BY <1>1 DEF RequestType
<1>5. mreq'[r].solo = mreq[r].solo
  BY <1>3, <1>4, Zenon
<1>6. ASSUME NEW q \in Requests PROVE Onward(q)
  <2>1. CASE q = r
    BY <1>2, <1>4, <1>5, <2>1, PcsAreDisjoint DEF Onward
  <2>2. CASE q # r
    <3>1. mreq'[q] = mreq[q]
      BY <1>4, <2>2
    <3>. QED
      BY <3>1 DEF Onward
  <2>. QED
    BY <2>1, <2>2
<1>. QED
  BY <1>2, <1>4, <1>5, <1>6 DEF OneMoves

\* A handler that answers carries nothing any more.
LEMMA FinishOnward ==
  ASSUME RequestType, NEW r \in Requests, NEW outcome \in Finished, Finish(r, outcome)
  PROVE  OneMoves(r) /\ mreq'[r].pc = outcome
<1>1. mreq'[r].pc = outcome /\ \A q \in Requests \ {r} : mreq'[q] = mreq[q]
  BY FinishType
<1>2. ASSUME NEW q \in Requests PROVE Onward(q)
  <2>1. CASE q = r
    BY <1>1, <2>1, PcsAreDisjoint DEF Onward
  <2>2. CASE q # r
    <3>1. mreq'[q] = mreq[q]
      BY <1>1, <2>2
    <3>. QED
      BY <3>1 DEF Onward
  <2>. QED
    BY <2>1, <2>2
<1>. QED
  BY <1>1, <1>2 DEF OneMoves

\* A step that moves no request.
LEMMA SameOnward ==
  ASSUME mreq' = mreq
  PROVE  \A q \in Requests : Onward(q)
  BY DEF Onward


(***************************************************************************)
(* What preserves each part of the invariant.                              *)
(***************************************************************************)

\* Requests that go on, a part that becomes racy only while it is sent, and is so
\* no more only once nobody sends it who met a rival, leave what running alone
\* means.
LEMMA AloneStep ==
  ASSUME MultipartInv, \A q \in Requests : Alone(q), \A q \in Requests : Onward(q),
         \A u, n : <<u, n>> \in racy' =>
            <<u, n>> \in racy \/ \E p \in Requests : Sends(p, u, n),
         \A q \in Requests :
            mreq'[q].pc \in PartPcs /\ ~mreq'[q].solo =>
                (<<mreq'[q].upload, mreq'[q].number>> \in racy
                    => <<mreq'[q].upload, mreq'[q].number>> \in racy')
  PROVE  \A q \in Requests : Alone(q)'
<1> SUFFICES ASSUME NEW q \in Requests PROVE Alone(q)'
  OBVIOUS
<1>1. \A u, n : \A p \in Requests : Sends(p, u, n)' => Sends(p, u, n)
  BY DEF Onward, Sends
<1>2. \A u : Uploading(u)' \subseteq Uploading(u)
  BY DEF Onward, Uploading
<1>3. Onward(q) /\ Alone(q)
  OBVIOUS
<1>4. PICK u, n : u = mreq'[q].upload /\ n = mreq'[q].number
  OBVIOUS
<1>5. mreq'[q].pc \in PartPcs =>
        IF mreq'[q].solo
        THEN \A p \in Requests \ {q} : ~Sends(p, u, n)'
        ELSE <<u, n>> \in racy'
  BY <1>1, <1>3, <1>4 DEF Onward, Alone
<1>6. mreq'[q].pc \in CompletePcs \cup DropPcs /\ mreq'[q].solo => Uploading(u)' = {}
  <2> SUFFICES ASSUME mreq'[q].pc \in CompletePcs \cup DropPcs, mreq'[q].solo
               PROVE  Uploading(u)' = {}
    OBVIOUS
  <2>1. /\ mreq[q].pc \in CompletePcs \cup DropPcs
        /\ mreq[q].upload = u
        /\ mreq[q].solo
    BY <1>3, <1>4 DEF Onward
  <2>2. Uploading(u) = {}
    BY <1>3, <2>1 DEF Alone
  <2>. QED
    BY <1>2, <2>2
<1>7. mreq'[q].pc \in CompletePcs /\ mreq'[q].solo =>
        \A m \in PartNumbers : <<u, m>> \notin racy'
  <2> SUFFICES ASSUME mreq'[q].pc \in CompletePcs, mreq'[q].solo, NEW m \in PartNumbers
               PROVE  <<u, m>> \notin racy'
    OBVIOUS
  <2>1. mreq[q].pc \in CompletePcs /\ mreq[q].upload = u /\ mreq[q].solo
    BY <1>3, <1>4 DEF Onward
  <2>2. Uploading(u) = {} /\ <<u, m>> \notin racy
    BY <1>3, <2>1 DEF Alone
  <2>3. \A p \in Requests : ~Sends(p, u, m)
    BY <2>2 DEF Uploading, Sends
  <2>. QED
    BY <2>2, <2>3
<1>. QED
  BY <1>4, <1>5, <1>6, <1>7 DEF Alone, Sends, Uploading

\* The disk stays as it is, and so does a request in the middle of its write.
LEMMA BodiesStep ==
  ASSUME \A q \in Requests : BodyOnItsWay(q), PartsAreWhole, UNCHANGED partVars,
         \A q \in Requests :
            /\ mreq'[q].pc \in PartPcs => mreq'[q].body \in Bodies
            /\ partTemps[q] # None =>
                 /\ mreq'[q].pc = mreq[q].pc
                 /\ mreq'[q].upload = mreq[q].upload
                 /\ mreq'[q].body = mreq[q].body
  PROVE  PartsAreWhole' /\ \A q \in Requests : BodyOnItsWay(q)'
<1>1. PartsAreWhole'
  BY DEF PartsAreWhole, partVars
<1>2. ASSUME NEW q \in Requests PROVE BodyOnItsWay(q)'
  <2>1. BodyOnItsWay(q) /\ partTemps' = partTemps /\ partDirs' = partDirs
    BY DEF partVars
  <2>. QED
    BY <2>1 DEF BodyOnItsWay
<1>. QED
  BY <1>1, <1>2

\* A request that moves on keeps to its body.
LEMMA OnwardBodies ==
  ASSUME \A q \in Requests : BodyOnItsWay(q), PartsAreWhole, UNCHANGED partVars,
         NEW r \in Requests, OneMoves(r), mreq[r].pc \notin {"copy", "publish"}
  PROVE  PartsAreWhole' /\ \A q \in Requests : BodyOnItsWay(q)'
<1>1. \A q \in Requests : mreq'[q].pc \in PartPcs => mreq'[q].body \in Bodies
  BY DEF OneMoves, Onward, BodyOnItsWay
<1>2. partTemps[r] = None
  BY DEF BodyOnItsWay
<1>. QED
  BY <1>1, <1>2, BodiesStep DEF OneMoves

\* What an open upload lists stays as it is, while its parts stay.
LEMMA ListedStep ==
  ASSUME ListedIsStored, racy \subseteq racy',
         \A u \in UploadIds : uploads'[u] # None => UploadExists(u) /\ parts'[u] = parts[u],
         \A u \in UploadIds, n \in PartNumbers :
            partFiles'[u][n] # None => partFiles'[u][n] = partFiles[u][n],
         \A q \in Requests : mreq[q].pc = "save" =>
            /\ mreq'[q].pc = "save"
            /\ mreq'[q].upload = mreq[q].upload
            /\ mreq'[q].number = mreq[q].number
  PROVE  ListedIsStored'
<1> SUFFICES ASSUME NEW u \in UploadIds, NEW n \in PartNumbers,
                    uploads'[u] # None, parts'[u][n] # None,
                    partFiles'[u][n] # None, <<u, n>> \notin racy',
                    \A q \in Requests : ~(mreq'[q].pc = "save" /\ Sends(q, u, n)')
             PROVE  ETag(partFiles'[u][n]) = parts'[u][n]
  BY DEF ListedIsStored, UploadExists
<1>1. /\ UploadExists(u) /\ parts[u][n] # None /\ <<u, n>> \notin racy
      /\ partFiles'[u][n] = partFiles[u][n]
  OBVIOUS
<1>2. \A q \in Requests : ~(mreq[q].pc = "save" /\ Sends(q, u, n))
  BY DEF Sends
<1>3. ETag(partFiles[u][n]) = parts[u][n]
  BY <1>1, <1>2 DEF ListedIsStored
<1>. QED
  BY <1>1, <1>3

\* What a request carries stays true while it moves on and no part file changes
\* but goes.
LEMMA CarriedStep ==
  ASSUME MultipartInv, NEW q \in Requests, CarriesTheTruth(q), Onward(q),
         mreq'[q].pc = "save" => mreq[q].pc = "save",
         mreq'[q].pc = "open" => mreq[q].pc = "open" /\ mreq'[q].saved = mreq[q].saved,
         mreq'[q].pc = "sweep" =>
            /\ mreq[q].pc = "sweep"
            /\ partSweeps'[q].dir = partSweeps[q].dir
            /\ partSweeps'[q].keys = partSweeps[q].keys,
         \A u \in UploadIds, n \in PartNumbers :
            partFiles'[u][n] # None => partFiles'[u][n] = partFiles[u][n]
  PROVE  CarriesTheTruth(q)'
<1> DEFINE u == mreq[q].upload
<1>1. mreq[q].pc \notin Finished => u \in UploadIds
  BY RequestKinds DEF MultipartInv, MultipartTypeOK, RequestType,
     PartRequest, CompleteRequest, DropRequest
<1>2. mreq'[q].pc = "save" /\ mreq'[q].solo
        /\ partFiles'[mreq'[q].upload][mreq'[q].number] # None =>
         partFiles'[mreq'[q].upload][mreq'[q].number] = mreq'[q].body
  <2> SUFFICES ASSUME mreq'[q].pc = "save", mreq'[q].solo,
                      partFiles'[mreq'[q].upload][mreq'[q].number] # None
               PROVE  partFiles'[mreq'[q].upload][mreq'[q].number] = mreq'[q].body
    OBVIOUS
  <2>1. /\ mreq[q].pc = "save" /\ mreq'[q].upload = u /\ mreq'[q].number = mreq[q].number
        /\ mreq'[q].body = mreq[q].body /\ mreq[q].solo
    BY DEF Onward, PartPcs
  <2>2. u \in UploadIds /\ mreq[q].number \in PartNumbers
    BY <2>1, RequestKinds DEF PartRequest, PartPcs, MultipartInv, MultipartTypeOK, RequestType
  <2>3. partFiles'[u][mreq[q].number] = partFiles[u][mreq[q].number]
    BY <2>1, <2>2
  <2>4. partFiles[u][mreq[q].number] = mreq[q].body
    BY <2>1, <2>3 DEF CarriesTheTruth
  <2>. QED
    BY <2>1, <2>3, <2>4
<1>3. mreq'[q].pc = "open" /\ mreq'[q].solo =>
         \A n \in PartNumbers :
            mreq'[q].saved[n] # None /\ partFiles'[mreq'[q].upload][n] # None =>
                ETag(partFiles'[mreq'[q].upload][n]) = mreq'[q].saved[n]
  <2> SUFFICES ASSUME mreq'[q].pc = "open", mreq'[q].solo, NEW n \in PartNumbers,
                      mreq'[q].saved[n] # None, partFiles'[mreq'[q].upload][n] # None
               PROVE  ETag(partFiles'[mreq'[q].upload][n]) = mreq'[q].saved[n]
    OBVIOUS
  <2>1. /\ mreq[q].pc = "open" /\ mreq'[q].upload = u /\ mreq'[q].saved = mreq[q].saved
        /\ mreq[q].solo
    BY DEF Onward, CompletePcs
  <2>2. u \in UploadIds
    BY <1>1, <2>1 DEF Finished
  <2>3. partFiles'[u][n] = partFiles[u][n]
    BY <2>1, <2>2
  <2>. QED
    BY <2>1, <2>3 DEF CarriesTheTruth
<1>4. mreq'[q].pc = "sweep" /\ mreq'[q].solo =>
         \A n \in PartNumbers :
            partFiles'[mreq'[q].upload][n] # None =>
                partSweeps'[q].dir # None /\ n \in partSweeps'[q].keys
  <2> SUFFICES ASSUME mreq'[q].pc = "sweep", mreq'[q].solo, NEW n \in PartNumbers,
                      partFiles'[mreq'[q].upload][n] # None
               PROVE  partSweeps'[q].dir # None /\ n \in partSweeps'[q].keys
    OBVIOUS
  <2>1. /\ mreq[q].pc = "sweep" /\ mreq'[q].upload = u /\ mreq[q].solo
        /\ partSweeps'[q].dir = partSweeps[q].dir
        /\ partSweeps'[q].keys = partSweeps[q].keys
    BY DEF Onward, DropPcs
  <2>2. u \in UploadIds
    BY <1>1, <2>1 DEF Finished
  <2>3. partFiles'[u][n] = partFiles[u][n]
    BY <2>1, <2>2
  <2>. QED
    BY <2>1, <2>3 DEF CarriesTheTruth
<1>. QED
  BY <1>2, <1>3, <1>4 DEF CarriesTheTruth, UploadExists

\* The second invariant holds when the process first starts.
LEMMA TruthInitInv == MultipartInit => TruthInv
<1> SUFFICES ASSUME MultipartInit PROVE TruthInv
  OBVIOUS
<1>1. \A r \in Requests : mreq[r].pc = "idle" /\ partTemps[r] = None
  BY DEF MultipartInit, PartStore!StoreInit
<1>2. \A r \in Requests : Alone(r) /\ BodyOnItsWay(r) /\ CarriesTheTruth(r)
  BY <1>1 DEF Alone, BodyOnItsWay, CarriesTheTruth, PartPcs, CompletePcs, DropPcs
<1>3. PartsAreWhole /\ ListedIsStored
  BY DEF MultipartInit, PartStore!StoreInit, PartStore!NoFiles, RepoInit, PartsAreWhole,
     ListedIsStored, UploadExists
<1>. QED
  BY <1>2, <1>3 DEF TruthInv

\* One request moves on and touches no file, no ETag, and no part that is racy.
LEMMA MoveTruth ==
  ASSUME MultipartInv, TruthInv, NEW r \in Requests, OneMoves(r),
         mreq[r].pc \notin {"copy", "publish", "save"},
         CarriesTheTruth(r)', UNCHANGED <<partVars, racy>>,
         \A u \in UploadIds : uploads'[u] # None => UploadExists(u) /\ parts'[u] = parts[u]
  PROVE  TruthInv'
<1>1. \A q \in Requests : Onward(q) /\ Alone(q) /\ BodyOnItsWay(q) /\ CarriesTheTruth(q)
  BY DEF OneMoves, TruthInv
<1>2. \A q \in Requests : Alone(q)'
  BY <1>1, AloneStep
<1>3. PartsAreWhole' /\ \A q \in Requests : BodyOnItsWay(q)'
  BY <1>1, OnwardBodies DEF TruthInv
<1>4. ListedIsStored'
  <2>1. \A q \in Requests : mreq[q].pc = "save" =>
            /\ mreq'[q].pc = "save"
            /\ mreq'[q].upload = mreq[q].upload
            /\ mreq'[q].number = mreq[q].number
    BY DEF OneMoves
  <2>2. ListedIsStored /\ partFiles' = partFiles
    BY DEF TruthInv, partVars
  <2>. QED
    BY <2>1, <2>2, ListedStep
<1>5. \A q \in Requests : CarriesTheTruth(q)'
  <2> SUFFICES ASSUME NEW q \in Requests, q # r PROVE CarriesTheTruth(q)'
    OBVIOUS
  <2>1. mreq'[q] = mreq[q] /\ partFiles' = partFiles /\ partSweeps' = partSweeps
    BY DEF OneMoves, partVars
  <2>. QED
    BY <1>1, <2>1, CarriedStep
<1>. QED
  BY <1>2, <1>3, <1>4, <1>5 DEF TruthInv

\* A request that is not at one of the three steps carries nothing to keep true.
LEMMA NothingCarried ==
  ASSUME NEW r \in Requests, mreq'[r].pc \notin {"save", "open", "sweep"}
  PROVE  CarriesTheTruth(r)'
  BY DEF CarriesTheTruth

\* No request moves, and the tables at most lose uploads or gain an empty one.
LEMMA TablesTruth ==
  ASSUME MultipartInv, TruthInv, UNCHANGED <<partVars, racy, mreq>>,
         \A u \in UploadIds :
            uploads'[u] # None =>
                \/ UploadExists(u) /\ parts'[u] = parts[u]
                \/ u \notin issued /\ \A n \in PartNumbers : parts'[u][n] = None
  PROVE  TruthInv'
<1>1. \A q \in Requests : Onward(q) /\ Alone(q) /\ BodyOnItsWay(q) /\ CarriesTheTruth(q)
  BY SameOnward DEF TruthInv
<1>2. \A q \in Requests : Alone(q)'
  BY <1>1, AloneStep
<1>3. PartsAreWhole' /\ \A q \in Requests : BodyOnItsWay(q)'
  BY <1>1, BodiesStep DEF TruthInv, BodyOnItsWay
<1>4. ListedIsStored'
  <2> SUFFICES ASSUME NEW u \in UploadIds, NEW n \in PartNumbers,
                      uploads'[u] # None, parts'[u][n] # None,
                    partFiles'[u][n] # None, <<u, n>> \notin racy',
                      \A q \in Requests : ~(mreq'[q].pc = "save" /\ Sends(q, u, n)')
               PROVE  ETag(partFiles'[u][n]) = parts'[u][n]
    BY DEF ListedIsStored, UploadExists
  <2>1. UploadExists(u) /\ parts'[u] = parts[u]
    OBVIOUS
  <2>2. \A q \in Requests : ~(mreq[q].pc = "save" /\ Sends(q, u, n))
    BY DEF Sends
  <2>3. ETag(partFiles[u][n]) = parts[u][n]
    BY <2>1, <2>2 DEF TruthInv, ListedIsStored, partVars
  <2>. QED
    BY <2>1, <2>3 DEF partVars
<1>5. \A q \in Requests : CarriesTheTruth(q)'
  <2> SUFFICES ASSUME NEW q \in Requests PROVE CarriesTheTruth(q)'
    OBVIOUS
  <2>1. mreq'[q] = mreq[q] /\ partFiles' = partFiles /\ partSweeps' = partSweeps
    BY DEF partVars
  <2>. QED
    BY <1>1, <2>1, CarriedStep
<1>. QED
  BY <1>2, <1>3, <1>4, <1>5 DEF TruthInv

\* A process that starts again has no request; a part that was not recorded is
\* racy, and no upload is there unless the database has it.
LEMMA RestartTruth ==
  ASSUME MultipartInv, TruthInv, Restart
  PROVE  TruthInv'
<1>1. \A r \in Requests : mreq'[r].pc = "idle" /\ partTemps'[r] = None
  BY DEF Restart, PartStore!LoseRequests
<1>2. \A r \in Requests : Alone(r)' /\ BodyOnItsWay(r)' /\ CarriesTheTruth(r)'
  BY <1>1 DEF Alone, BodyOnItsWay, CarriesTheTruth, PartPcs, CompletePcs, DropPcs
<1>3. PartsAreWhole'
  BY DEF Restart, PartStore!LoseRequests, TruthInv, PartsAreWhole
<1>4. ListedIsStored'
  <2> SUFFICES ASSUME NEW u \in UploadIds, NEW n \in PartNumbers,
                      uploads'[u] # None, parts'[u][n] # None,
                      partFiles'[u][n] # None, <<u, n>> \notin racy'
               PROVE  ETag(partFiles'[u][n]) = parts'[u][n]
    BY DEF ListedIsStored, UploadExists
  <2>1. UNCHANGED repoVars
    BY DEF Restart, ForgetTables
  <2>2. partFiles' = partFiles /\ <<u, n>> \notin racy /\ <<u, n>> \notin Unsaved
    BY DEF Restart, PartStore!LoseRequests
  <2>3. \A q \in Requests : ~(mreq[q].pc = "save" /\ Sends(q, u, n))
    BY <2>2 DEF Unsaved, Sends
  <2>. QED
    BY <2>1, <2>2, <2>3 DEF TruthInv, ListedIsStored, UploadExists, repoVars
<1>. QED
  BY <1>2, <1>3, <1>4 DEF TruthInv

\* Uploads and buckets come and go.
LEMMA OthersTruth ==
  ASSUME MultipartInv, TruthInv,
         (\E u \in UploadIds : CreateUpload(u)) \/ BucketRequest \/ UNCHANGED multipartVars
  PROVE  TruthInv'
<1>1. ASSUME NEW u \in UploadIds, CreateUpload(u) PROVE TruthInv'
  <2>1. PICK b \in Buckets, k \in Keys : CreateMultipartUpload(u, b, k)
    BY <1>1 DEF CreateUpload
  <2>2. u \notin issued /\ UNCHANGED <<partVars, mreq, racy>>
    BY <1>1 DEF CreateUpload
  <2>3. /\ parts'[u] = NoParts
        /\ \A v \in UploadIds \ {u} : parts'[v] = parts[v] /\ uploads'[v] = uploads[v]
    BY <2>1 DEF CreateMultipartUpload, MultipartInv, RepoInv, RepoTypeOK
  <2>. QED
    BY <2>2, <2>3, TablesTruth DEF NoParts, UploadExists
<1>2. CASE BucketRequest
  <2>1. UNCHANGED <<partVars, mreq, racy>>
    BY <1>2 DEF BucketRequest
  <2>2. \A u \in UploadIds : uploads'[u] # None => UploadExists(u) /\ parts'[u] = parts[u]
    BY <1>2 DEF BucketRequest, CreateBucket, DeleteBucket, DeleteBucketRecursive,
       RenameBucketTo, UploadsOf, UploadExists
  <2>. QED
    BY <2>1, <2>2, TablesTruth
<1>3. CASE UNCHANGED multipartVars
  BY <1>3, TablesTruth DEF multipartVars, repoVars, UploadExists
<1>. QED
  BY <1>1, <1>2, <1>3

(***************************************************************************)
(* Completions and removals: steps that leave the disk alone.               *)
(***************************************************************************)

\* A completion that runs alone lists what is stored.
LEMMA ListPartsTruth ==
  ASSUME MultipartInv, TruthInv, NEW r \in Requests, ListParts(r)
  PROVE  TruthInv'
<1> DEFINE u == mreq[r].upload
           table == parts[mreq[r].upload]
           saved == IF Database /\ table = None THEN NoParts ELSE table
           every == IF mreq[r].list = <<>> THEN SavedNumbers(saved) ELSE {}
           e == [mreq[r] EXCEPT !.pc = "open", !.saved = saved, !.all = every]
<1>1. RequestType /\ mreq[r].pc = "list" /\ UNCHANGED <<repoVars, partVars, racy>>
  BY DEF ListParts, MultipartInv, MultipartTypeOK, RequestType
<1>2. mreq[r] \in CompleteRequest
  BY <1>1, RequestKinds DEF CompletePcs
<1>3. \A v \in UploadIds : uploads'[v] # None => UploadExists(v) /\ parts'[v] = parts[v]
  BY <1>1 DEF repoVars, UploadExists
<1>4. CASE Finish(r, "failed")
  <2>1. OneMoves(r) /\ mreq'[r].pc = "failed"
    BY <1>1, <1>4, FinishOnward DEF Finished
  <2>. QED
    BY <1>1, <1>3, <2>1, MoveTruth, NothingCarried
<1>5. CASE saved # None /\ mreq' = [mreq EXCEPT ![r] = e]
  <2> HIDE DEF every
  <2>2. e.pc = "open" /\ e.upload = u /\ e.saved = saved /\ e.solo = mreq[r].solo
    BY <1>2 DEF CompleteRequest
  <2> HIDE DEF e
  <2>3. mreq'[r] = e /\ \A q \in Requests \ {r} : mreq'[q] = mreq[q]
    BY <1>1, <1>5 DEF RequestType
  <2>4. OneMoves(r)
    <3>1. Onward(r)
      BY <1>1, <2>2, <2>3 DEF Onward, PartPcs, CompletePcs, DropPcs
    <3>2. ASSUME NEW q \in Requests \ {r} PROVE Onward(q)
      BY <2>3 DEF Onward
    <3>. QED
      BY <2>3, <3>1, <3>2 DEF OneMoves
  <2>5. CarriesTheTruth(r)'
    <3> SUFFICES ASSUME mreq[r].solo, NEW n \in PartNumbers, saved[n] # None,
                        partFiles[u][n] # None
                 PROVE  ETag(partFiles[u][n]) = saved[n]
      BY <1>1, <2>2, <2>3 DEF CarriesTheTruth, partVars
    <3>1. table = saved /\ table # None
      BY <1>5 DEF NoParts
    <3>4. u \in UploadIds /\ UploadExists(u)
      BY <1>2, <3>1 DEF CompleteRequest, MultipartInv, RepoInv, PartsFollowUploads
    <3>2. Uploading(u) = {} /\ <<u, n>> \notin racy
      BY <1>1 DEF TruthInv, Alone, CompletePcs
    <3>3. \A q \in Requests : ~Sends(q, u, n)
      BY <3>2 DEF Uploading, Sends
    <3>. QED
      BY <3>1, <3>2, <3>3, <3>4 DEF TruthInv, ListedIsStored
  <2>. QED
    BY <1>1, <1>3, <2>4, <2>5, MoveTruth
<1>. QED
  BY <1>4, <1>5 DEF ListParts

\* What was listed stays true while the parts are opened.
LEMMA OpenPartTruth ==
  ASSUME MultipartInv, TruthInv, NEW r \in Requests, OpenPart(r)
  PROVE  TruthInv'
<1> DEFINE want == NextPart(r)
           file == partFiles[mreq[r].upload][want.number]
           rest == IF mreq[r].list = <<>> THEN mreq[r].list ELSE Tail(mreq[r].list)
           left == mreq[r].all \ {want.number}
           body == mreq[r].body \o file
           e == [mreq[r] EXCEPT !.list = rest, !.all = left, !.body = body]
<1>1. RequestType /\ mreq[r].pc = "open" /\ UNCHANGED <<repoVars, partVars, racy>>
  BY DEF OpenPart, MultipartInv, MultipartTypeOK, RequestType
<1>2. mreq[r] \in CompleteRequest
  BY <1>1, RequestKinds DEF CompletePcs
<1>3. \A v \in UploadIds : uploads'[v] # None => UploadExists(v) /\ parts'[v] = parts[v]
  BY <1>1 DEF repoVars, UploadExists
<1>4. CASE Finish(r, "failed")
  <2>1. OneMoves(r) /\ mreq'[r].pc = "failed"
    BY <1>1, <1>4, FinishOnward DEF Finished
  <2>. QED
    BY <1>1, <1>3, <2>1, MoveTruth, NothingCarried
<1>5. CASE mreq' = [mreq EXCEPT ![r] = e]
  <2> HIDE DEF want, file, rest, left, body
  <2>1. /\ e.pc = "open" /\ e.upload = mreq[r].upload
        /\ e.saved = mreq[r].saved /\ e.solo = mreq[r].solo
    BY <1>1, <1>2 DEF CompleteRequest
  <2> HIDE DEF e
  <2>2. mreq'[r] = e /\ \A q \in Requests \ {r} : mreq'[q] = mreq[q]
    BY <1>1, <1>5 DEF RequestType
  <2>3. OneMoves(r)
    <3>1. Onward(r)
      BY <1>1, <2>1, <2>2 DEF Onward, PartPcs, CompletePcs, DropPcs
    <3>2. ASSUME NEW q \in Requests \ {r} PROVE Onward(q)
      BY <2>2 DEF Onward
    <3>. QED
      BY <2>2, <3>1, <3>2 DEF OneMoves
  <2>4. CarriesTheTruth(r)'
    BY <1>1, <2>1, <2>2 DEF TruthInv, CarriesTheTruth, partVars
  <2>. QED
    BY <1>1, <1>3, <2>3, <2>4, MoveTruth
<1>. QED
  BY <1>4, <1>5 DEF OpenPart

\* The object is written, and the upload is about to be dropped, or not.
LEMMA AssembleTruth ==
  ASSUME MultipartInv, TruthInv, NEW r \in Requests,
         OpenedAll(r) \/ PutAssembled(r) \/ UpsertAssembled(r) \/ ForgetUpload(r)
  PROVE  TruthInv'
<1>1. RequestType /\ UNCHANGED <<partVars, racy>>
  BY DEF OpenedAll, PutAssembled, UpsertAssembled, ForgetUpload, MultipartInv,
     MultipartTypeOK, RequestType
<1>2. /\ mreq[r].pc \in {"open", "put", "upsert", "forget"}
      /\ \A v \in UploadIds : uploads'[v] # None => UploadExists(v) /\ parts'[v] = parts[v]
  <2>1. CASE UNCHANGED repoVars
    BY <2>1 DEF OpenedAll, PutAssembled, UpsertAssembled, ForgetUpload, repoVars, UploadExists
  <2>2. CASE UpsertAssembled(r)
    BY <2>2 DEF UpsertAssembled, UpsertObject, repoVars, UploadExists
  <2>3. CASE ForgetUpload(r) /\ DeleteMultipartUpload(mreq[r].upload)
    <3>1. mreq[r] \in DropRequest /\ mreq[r].pc = "forget"
      BY <1>1, <2>3, RequestKinds DEF ForgetUpload, DropPcs
    <3>2. mreq[r].upload \in UploadIds
      BY <3>1 DEF DropRequest
    <3>. QED
      BY <2>3, <3>1, <3>2 DEF DeleteMultipartUpload, UploadExists,
         MultipartInv, RepoInv, RepoTypeOK
  <2>. QED
    BY <2>1, <2>2, <2>3 DEF OpenedAll, PutAssembled, ForgetUpload
<1>3. OneMoves(r) /\ mreq'[r].pc \notin {"save", "open", "sweep"}
  <2>1. ASSUME NEW outcome \in {"failed", "ok"}, Finish(r, outcome)
        PROVE  OneMoves(r) /\ mreq'[r].pc \notin {"save", "open", "sweep"}
    BY <1>1, <2>1, FinishOnward DEF Finished
  <2>2. CASE mreq[r].pc \in CompletePcs /\ Goto(r, "put")
    BY <1>1, <2>2, GotoOnward DEF CompletePcs
  <2>3. CASE mreq[r].pc \in CompletePcs /\ Goto(r, "upsert")
    BY <1>1, <2>3, GotoOnward DEF CompletePcs
  <2>4. CASE mreq[r].pc \in DropPcs /\ Goto(r, "scan")
    BY <1>1, <2>4, GotoOnward DEF DropPcs
  <2>5. ASSUME mreq[r].pc = "upsert",
               mreq' = [mreq EXCEPT ![r] =
                   [pc |-> "forget", upload |-> mreq[r].upload, solo |-> mreq[r].solo]]
        PROVE  OneMoves(r) /\ mreq'[r].pc \notin {"save", "open", "sweep"}
    <3>1. /\ mreq'[r] = [pc |-> "forget", upload |-> mreq[r].upload, solo |-> mreq[r].solo]
          /\ \A q \in Requests \ {r} : mreq'[q] = mreq[q]
      BY <1>1, <2>5 DEF RequestType
    <3>2. Onward(r)
      BY <2>5, <3>1 DEF Onward, PartPcs, CompletePcs, DropPcs
    <3>3. ASSUME NEW q \in Requests \ {r} PROVE Onward(q)
      BY <3>1 DEF Onward
    <3>. QED
      BY <3>1, <3>2, <3>3 DEF OneMoves
  <2>. QED
    BY <2>1, <2>2, <2>3, <2>4, <2>5
       DEF OpenedAll, PutAssembled, UpsertAssembled, ForgetUpload, CompletePcs, DropPcs
<1>. QED
  BY <1>1, <1>2, <1>3, MoveTruth, NothingCarried

(***************************************************************************)
(* Requests arrive.                                                        *)
(***************************************************************************)

\* A request that loses its claim to run alone keeps the rest.
LEMMA SoloLost ==
  ASSUME RequestType, NEW q \in Requests, mreq[q].pc \notin Finished,
         mreq'[q] = [mreq[q] EXCEPT !.solo = FALSE]
  PROVE  /\ mreq'[q].pc = mreq[q].pc /\ mreq'[q].upload = mreq[q].upload
         /\ ~mreq'[q].solo
         /\ mreq[q].pc \in PartPcs =>
              mreq'[q].number = mreq[q].number /\ mreq'[q].body = mreq[q].body
<1>1. CASE mreq[q].pc \in PartPcs
  BY <1>1, RequestKinds DEF PartRequest
<1>2. CASE mreq[q].pc \in CompletePcs
  BY <1>2, PcsAreDisjoint, RequestKinds DEF CompleteRequest
<1>3. CASE mreq[q].pc \in DropPcs
  BY <1>3, PcsAreDisjoint, RequestKinds DEF DropRequest
<1>. QED
  BY <1>1, <1>2, <1>3, RequestKinds

\* A part upload arrives: those it meets no longer run alone, and its part is
\* racy when there is a rival.
LEMMA BeginPartTruth ==
  ASSUME MultipartInv, TruthInv, NEW r \in Requests, NEW u \in UploadIds,
         NEW n \in PartNumbers, NEW body \in Bodies, BeginPart(r, u, n, body)
  PROVE  TruthInv'
<1> DEFINE rivals == {q \in Uploading(u) : mreq[q].number = n}
           new == [pc |-> "begin", upload |-> u, number |-> n, body |-> body,
                   solo |-> rivals = {}]
           met == rivals \cup Completing(u) \cup Dropping(u)
<1>1. /\ RequestType /\ mreq[r].pc \in Finished
      /\ UNCHANGED <<repoVars, partVars>>
      /\ racy' = IF rivals = {} THEN racy ELSE racy \cup {<<u, n>>}
  BY DEF BeginPart, MultipartInv, MultipartTypeOK, RequestType
<1>2. mreq' = [q \in Requests |-> IF q = r THEN new
                ELSE IF q \in met THEN [mreq[q] EXCEPT !.solo = FALSE] ELSE mreq[q]]
  BY DEF BeginPart
<1>3. /\ mreq'[r].pc = "begin" /\ mreq'[r].upload = u /\ mreq'[r].number = n
      /\ mreq'[r].body = body /\ mreq'[r].solo = (rivals = {})
  <2>1. mreq'[r] = new
    BY <1>2, Zenon
  <2>. QED
    BY <2>1
<1>4. ASSUME NEW q \in Requests \ {r}
      PROVE  \/ mreq'[q] = mreq[q] /\ q \notin met
             \/ /\ q \in met /\ mreq[q].pc \notin Finished
                /\ mreq'[q].pc = mreq[q].pc /\ mreq'[q].upload = mreq[q].upload
                /\ ~mreq'[q].solo
                /\ mreq[q].pc \in PartPcs =>
                     mreq'[q].number = mreq[q].number /\ mreq'[q].body = mreq[q].body
  <2>1. CASE q \in met
    <3>1. mreq[q].pc \notin Finished
      BY <2>1, PcsAreDisjoint DEF Uploading, Completing, Dropping
    <3>2. mreq'[q] = [mreq[q] EXCEPT !.solo = FALSE]
      BY <1>2, <2>1
    <3>. QED
      BY <1>1, <2>1, <3>1, <3>2, SoloLost
  <2>2. CASE q \notin met
    BY <1>2, <2>2
  <2>. QED
    BY <2>1, <2>2
<1>5. /\ rivals = {q \in Requests : Sends(q, u, n)}
      /\ Uploading(u) \subseteq Requests /\ r \notin Uploading(u)
      /\ \A q \in met : mreq[q].upload = u
      /\ \A q \in Requests : mreq[q].pc \in CompletePcs \cup DropPcs /\ mreq[q].upload = u
            => q \in met
  BY <1>1, PcsAreDisjoint DEF Sends, Uploading, Completing, Dropping
<1> HIDE DEF rivals, met, new
<1>6. \A p \in Requests \ {r} : \A v, m : Sends(p, v, m)' <=> Sends(p, v, m)
  BY <1>4 DEF Sends
<1>7. \A v : v # u => Uploading(v)' = Uploading(v)
  BY <1>1, <1>3, <1>4, PcsAreDisjoint DEF Uploading
<1>8. ASSUME NEW q \in Requests PROVE Alone(q)'
  <2>1. CASE q = r
    <3>1. ~mreq'[q].solo => <<u, n>> \in racy'
      BY <1>1, <1>3, <2>1
    <3>2. mreq'[q].solo => \A p \in Requests \ {r} : ~Sends(p, u, n)'
      BY <1>3, <1>5, <1>6, <2>1
    <3>. QED
      BY <1>3, <2>1, <3>1, <3>2 DEF Alone, Sends, PartPcs, CompletePcs, DropPcs
  <2>2. CASE q # r /\ q \in met
    <3>1. /\ mreq'[q].pc = mreq[q].pc /\ mreq'[q].upload = u /\ ~mreq'[q].solo
          /\ mreq[q].pc \in PartPcs => mreq'[q].number = mreq[q].number
      BY <1>4, <1>5, <2>2
    <3>2. mreq[q].pc \in PartPcs => q \in rivals /\ mreq[q].number = n
      BY <2>2, PcsAreDisjoint DEF met, rivals, Completing, Dropping
    <3>3. mreq[q].pc \in PartPcs => <<u, n>> \in racy'
      BY <1>1, <3>2
    <3>. QED
      BY <3>1, <3>2, <3>3 DEF Alone
  <2>3. CASE q # r /\ q \notin met
    <3>1. mreq'[q] = mreq[q] /\ Alone(q)
      BY <1>4, <2>3 DEF TruthInv
    <3>2. PICK v, m : v = mreq[q].upload /\ m = mreq[q].number
      OBVIOUS
    <3>3. mreq[q].pc \in PartPcs =>
            IF mreq[q].solo THEN \A p \in Requests \ {q} : ~Sends(p, v, m)'
            ELSE <<v, m>> \in racy'
      <4>1. mreq[q].pc \in PartPcs => ~(v = u /\ m = n)
        BY <1>5, <2>3, <3>2 DEF Sends, met
      <4>2. mreq[q].pc \in PartPcs => ~Sends(r, v, m)'
        BY <1>3, <4>1 DEF Sends
      <4>. QED
        BY <1>1, <1>6, <3>1, <3>2, <4>2 DEF Alone
    <3>4. mreq[q].pc \in CompletePcs \cup DropPcs => v # u
      BY <1>5, <2>3, <3>2
    <3>5. mreq[q].pc \in CompletePcs \cup DropPcs /\ mreq[q].solo => Uploading(v)' = {}
      BY <1>7, <3>1, <3>2, <3>4 DEF Alone
    <3>6. mreq[q].pc \in CompletePcs /\ mreq[q].solo =>
            \A k \in PartNumbers : <<v, k>> \notin racy'
      BY <1>1, <3>1, <3>2, <3>4 DEF Alone
    <3>. QED
      BY <3>1, <3>2, <3>3, <3>5, <3>6 DEF Alone, Sends, Uploading
  <2>. QED
    BY <2>1, <2>2, <2>3
<1>9. PartsAreWhole' /\ \A q \in Requests : BodyOnItsWay(q)'
  <2>1. ASSUME NEW q \in Requests
        PROVE  /\ mreq'[q].pc \in PartPcs => mreq'[q].body \in Bodies
               /\ partTemps[q] # None =>
                    /\ mreq'[q].pc = mreq[q].pc
                    /\ mreq'[q].upload = mreq[q].upload
                    /\ mreq'[q].body = mreq[q].body
    <3>1. BodyOnItsWay(q) /\ BodyOnItsWay(r)
      BY DEF TruthInv
    <3>2. CASE q = r
      BY <1>1, <1>3, <3>1, <3>2 DEF BodyOnItsWay, Finished
    <3>3. CASE q # r
      BY <1>4, <3>1, <3>3 DEF BodyOnItsWay, PartPcs
    <3>. QED
      BY <3>2, <3>3
  <2>. QED
    BY <1>1, <2>1, BodiesStep DEF TruthInv
<1>10. ListedIsStored'
  <2>1. \A q \in Requests : mreq[q].pc = "save" =>
            /\ mreq'[q].pc = "save"
            /\ mreq'[q].upload = mreq[q].upload
            /\ mreq'[q].number = mreq[q].number
    BY <1>1, <1>4 DEF PartPcs, Finished
  <2>2. ListedIsStored /\ racy \subseteq racy' /\ partFiles' = partFiles
    BY <1>1 DEF TruthInv, partVars
  <2>3. \A v \in UploadIds : uploads'[v] # None => UploadExists(v) /\ parts'[v] = parts[v]
    BY <1>1 DEF repoVars, UploadExists
  <2>. QED
    BY <2>1, <2>2, <2>3, ListedStep
<1>11. ASSUME NEW q \in Requests PROVE CarriesTheTruth(q)'
  <2>1. CASE q = r
    BY <1>3, <2>1, NothingCarried
  <2>2. CASE q # r /\ q \in met
    BY <1>4, <2>2 DEF CarriesTheTruth
  <2>3. CASE q # r /\ q \notin met
    <3>1. mreq'[q] = mreq[q] /\ CarriesTheTruth(q)
      BY <1>4, <2>3 DEF TruthInv
    <3>2. partFiles' = partFiles /\ partSweeps' = partSweeps /\ uploads' = uploads
      BY <1>1 DEF partVars, repoVars
    <3>. QED
      BY <3>1, <3>2 DEF CarriesTheTruth, UploadExists
  <2>. QED
    BY <2>1, <2>2, <2>3
<1>. QED
  BY <1>8, <1>9, <1>10, <1>11 DEF TruthInv

\* A completion or an abort arrives: whether it runs alone is what it finds.
LEMMA BeginDropTruth ==
  ASSUME MultipartInv, TruthInv, NEW r \in Requests, NEW u \in UploadIds,
         (\E list \in PartLists : BeginComplete(r, u, list)) \/ BeginAbort(r, u)
  PROVE  TruthInv'
<1>1. /\ RequestType /\ mreq[r].pc \in Finished
      /\ UNCHANGED <<repoVars, partVars, racy>>
  BY DEF BeginComplete, BeginAbort, MultipartInv, MultipartTypeOK, RequestType
<1>2. /\ mreq'[r].upload = u
      /\ mreq'[r].solo => Uploading(u) = {}
      /\ \/ /\ mreq'[r].pc = "list"
            /\ mreq'[r].solo => \A n \in PartNumbers : <<u, n>> \notin racy
         \/ mreq'[r].pc = "forget"
      /\ \A q \in Requests \ {r} : mreq'[q] = mreq[q]
  <2>1. ASSUME NEW list \in PartLists, BeginComplete(r, u, list)
        PROVE  /\ mreq'[r].upload = u /\ mreq'[r].pc = "list"
               /\ mreq'[r].solo <=>
                    Uploading(u) = {} /\ \A n \in PartNumbers : <<u, n>> \notin racy
               /\ \A q \in Requests \ {r} : mreq'[q] = mreq[q]
    BY <1>1, <2>1 DEF BeginComplete, RequestType
  <2>2. ASSUME BeginAbort(r, u)
        PROVE  /\ mreq'[r].upload = u /\ mreq'[r].pc = "forget"
               /\ mreq'[r].solo <=> Uploading(u) = {}
               /\ \A q \in Requests \ {r} : mreq'[q] = mreq[q]
    BY <1>1, <2>2 DEF BeginAbort, RequestType
  <2>. QED
    BY <2>1, <2>2
<1>3. \A q \in Requests : \A v, n : Sends(q, v, n)' <=> Sends(q, v, n)
  BY <1>1, <1>2 DEF Sends, PartPcs, Finished
<1>4. \A v : Uploading(v)' = Uploading(v)
  BY <1>1, <1>2 DEF Uploading, PartPcs, Finished
<1>5. ASSUME NEW q \in Requests PROVE Alone(q)'
  <2>1. CASE q = r
    BY <1>1, <1>2, <1>4, <2>1 DEF Alone, Uploading, PartPcs, CompletePcs, DropPcs
  <2>2. CASE q # r
    <3>1. mreq'[q] = mreq[q] /\ Alone(q)
      BY <1>2, <2>2 DEF TruthInv
    <3>2. PICK v, m : v = mreq[q].upload /\ m = mreq[q].number
      OBVIOUS
    <3>3. mreq[q].pc \in PartPcs =>
            IF mreq[q].solo THEN \A p \in Requests \ {q} : ~Sends(p, v, m)'
            ELSE <<v, m>> \in racy'
      BY <1>1, <1>3, <3>1, <3>2 DEF Alone
    <3>4. mreq[q].pc \in CompletePcs \cup DropPcs /\ mreq[q].solo => Uploading(v)' = {}
      BY <1>4, <3>1, <3>2 DEF Alone
    <3>5. mreq[q].pc \in CompletePcs /\ mreq[q].solo =>
            \A k \in PartNumbers : <<v, k>> \notin racy'
      BY <1>1, <3>1, <3>2 DEF Alone
    <3>. QED
      BY <3>1, <3>2, <3>3, <3>4, <3>5 DEF Alone, Sends, Uploading
  <2>. QED
    BY <2>1, <2>2
<1>6. PartsAreWhole' /\ \A q \in Requests : BodyOnItsWay(q)'
  <2>1. ASSUME NEW q \in Requests
        PROVE  /\ mreq'[q].pc \in PartPcs => mreq'[q].body \in Bodies
               /\ partTemps[q] # None =>
                    /\ mreq'[q].pc = mreq[q].pc
                    /\ mreq'[q].upload = mreq[q].upload
                    /\ mreq'[q].body = mreq[q].body
    <3>1. BodyOnItsWay(q) /\ BodyOnItsWay(r)
      BY DEF TruthInv
    <3>2. CASE q = r
      BY <1>1, <1>2, <3>1, <3>2 DEF BodyOnItsWay, Finished, PartPcs
    <3>3. CASE q # r
      BY <1>2, <3>1, <3>3 DEF BodyOnItsWay
    <3>. QED
      BY <3>2, <3>3
  <2>. QED
    BY <1>1, <2>1, BodiesStep DEF TruthInv
<1>7. ListedIsStored'
  <2>1. \A q \in Requests : mreq[q].pc = "save" =>
            /\ mreq'[q].pc = "save"
            /\ mreq'[q].upload = mreq[q].upload
            /\ mreq'[q].number = mreq[q].number
    BY <1>1, <1>2 DEF Finished
  <2>2. ListedIsStored /\ racy \subseteq racy' /\ partFiles' = partFiles
    BY <1>1 DEF TruthInv, partVars
  <2>3. \A v \in UploadIds : uploads'[v] # None => UploadExists(v) /\ parts'[v] = parts[v]
    BY <1>1 DEF repoVars, UploadExists
  <2>. QED
    BY <2>1, <2>2, <2>3, ListedStep
<1>8. ASSUME NEW q \in Requests PROVE CarriesTheTruth(q)'
  <2>1. CASE q = r
    BY <1>2, <2>1, NothingCarried
  <2>2. CASE q # r
    <3>1. mreq'[q] = mreq[q] /\ CarriesTheTruth(q)
      BY <1>2, <2>2 DEF TruthInv
    <3>2. partFiles' = partFiles /\ partSweeps' = partSweeps /\ uploads' = uploads
      BY <1>1 DEF partVars, repoVars
    <3>. QED
      BY <3>1, <3>2 DEF CarriesTheTruth, UploadExists
  <2>. QED
    BY <2>1, <2>2
<1>. QED
  BY <1>5, <1>6, <1>7, <1>8 DEF TruthInv

(***************************************************************************)
(* Parts are written.                                                      *)
(***************************************************************************)

\* A step of a part upload that puts nothing in place.
LEMMA WriteTruth ==
  ASSUME MultipartInv, TruthInv, NEW r \in Requests, OneMoves(r),
         mreq[r].pc # "save", mreq'[r].pc \notin {"save", "open", "sweep"},
         UNCHANGED <<repoVars, partFiles, racy>>, partDirs \subseteq partDirs',
         \A q \in Requests \ {r} : partTemps'[q] = partTemps[q],
         partTemps'[r] # None =>
            /\ mreq'[r].pc \in {"copy", "publish"}
            /\ partTemps'[r].dir = mreq'[r].upload
            /\ mreq'[r].upload \in partDirs'
            /\ mreq'[r].pc = "publish" => partTemps'[r].data = mreq'[r].body,
         \A q \in Requests \ {r} : mreq[q].pc = "sweep" =>
            /\ partSweeps'[q].dir = partSweeps[q].dir
            /\ partSweeps'[q].keys = partSweeps[q].keys
  PROVE  TruthInv'
<1>1. \A q \in Requests : Onward(q) /\ Alone(q) /\ BodyOnItsWay(q) /\ CarriesTheTruth(q)
  BY DEF OneMoves, TruthInv
<1>2. \A q \in Requests : Alone(q)'
  BY <1>1, AloneStep
<1>3. PartsAreWhole'
  BY DEF TruthInv, PartsAreWhole
<1>4. ASSUME NEW q \in Requests PROVE BodyOnItsWay(q)'
  <2>1. CASE q = r
    BY <1>1, <2>1 DEF BodyOnItsWay, Onward
  <2>2. CASE q # r
    <3>1. mreq'[q] = mreq[q] /\ BodyOnItsWay(q)
      BY <1>1, <2>2 DEF OneMoves
    <3>. QED
      BY <2>2, <3>1 DEF BodyOnItsWay
  <2>. QED
    BY <2>1, <2>2
<1>5. \A u \in UploadIds : uploads'[u] # None => UploadExists(u) /\ parts'[u] = parts[u]
  BY DEF repoVars, UploadExists
<1>6. ListedIsStored'
  <2>1. \A q \in Requests : mreq[q].pc = "save" =>
            /\ mreq'[q].pc = "save"
            /\ mreq'[q].upload = mreq[q].upload
            /\ mreq'[q].number = mreq[q].number
    BY DEF OneMoves
  <2>. QED
    BY <1>5, <2>1, ListedStep DEF TruthInv
<1>7. ASSUME NEW q \in Requests PROVE CarriesTheTruth(q)'
  <2>1. CASE q = r
    BY <2>1, NothingCarried
  <2>2. CASE q # r
    <3>1. mreq'[q] = mreq[q]
      BY <2>2 DEF OneMoves
    <3>. QED
      BY <1>1, <1>5, <2>2, <3>1, CarriedStep
  <2>. QED
    BY <2>1, <2>2
<1>. QED
  BY <1>2, <1>3, <1>4, <1>6, <1>7 DEF TruthInv

\* The temporary file of a part upload is made, filled, or given up.
LEMMA WritePartTruth ==
  ASSUME MultipartInv, TruthInv, NEW r \in Requests, CreatePartTemp(r) \/ ReceivePart(r)
  PROVE  TruthInv'
<1> DEFINE u == mreq[r].upload
<1>1. /\ RequestType /\ mreq[r].pc \in {"begin", "copy"}
      /\ UNCHANGED <<repoVars, racy>>
      /\ PartStore!StoreTypeOK
  BY DEF CreatePartTemp, ReceivePart, MultipartInv, MultipartTypeOK, RequestType
<1>2. mreq[r] \in PartRequest /\ BodyOnItsWay(r)
  BY <1>1, RequestKinds DEF PartPcs, TruthInv
<1>3. u \in UploadIds
  BY <1>2 DEF PartRequest
<1>4. ASSUME Finish(r, "failed")
      PROVE  OneMoves(r) /\ mreq'[r].pc = "failed"
  BY <1>1, <1>4, FinishOnward DEF Finished
<1>5. ASSUME NEW pc \in {"copy", "publish"}, Goto(r, pc)
      PROVE  /\ OneMoves(r) /\ mreq'[r].pc = pc /\ mreq'[r].upload = u
             /\ mreq'[r].body = mreq[r].body
  BY <1>1, <1>5, GotoOnward DEF PartPcs
<1>6. CASE PartStore!CreateTemp(r, u) /\ Goto(r, "copy")
  <2>1. /\ partFiles' = partFiles /\ partDirs' = partDirs \cup {u}
        /\ partTemps'[r] = [dir |-> u, data |-> <<>>]
        /\ \A q \in Requests \ {r} : partTemps'[q] = partTemps[q]
    BY <1>1, <1>6 DEF PartStore!CreateTemp, PartStore!StoreTypeOK
  <2>2. partTemps'[r].dir = u
    BY <2>1
  <2>3. ASSUME NEW q \in Requests, mreq[q].pc = "sweep"
        PROVE  /\ partSweeps'[q].dir = partSweeps[q].dir
               /\ partSweeps'[q].keys = partSweeps[q].keys
    <3>1. partSweeps[q] # None /\ partSweeps[q] \in PartStore!Sweeps
      BY <1>1, <2>3 DEF MultipartInv, SweepsOwnDir, PartStore!StoreTypeOK
    <3>2. partSweeps'[q] = [partSweeps[q] EXCEPT !.temps = @ \ {r}]
      BY <1>6, <3>1 DEF PartStore!CreateTemp
    <3>. QED
      BY <3>1, <3>2 DEF PartStore!Sweeps
  <2>4. OneMoves(r) /\ mreq'[r].pc = "copy" /\ mreq'[r].upload = u
    BY <1>5, <1>6
  <2>. QED
    BY <1>1, <2>1, <2>2, <2>3, <2>4, WriteTruth
<1>7. CASE PartStore!CreateTempFails(u) /\ Finish(r, "failed") /\ mreq[r].pc = "begin"
  <2>1. /\ partFiles' = partFiles /\ partTemps' = partTemps /\ partSweeps' = partSweeps
        /\ partDirs \subseteq partDirs'
    BY <1>7 DEF PartStore!CreateTempFails
  <2>2. partTemps[r] = None
    BY <1>2, <1>7 DEF BodyOnItsWay
  <2>. QED
    BY <1>1, <1>4, <1>7, <2>1, <2>2, WriteTruth
<1>8. CASE PartStore!CopyBody(r, mreq[r].body) /\ Goto(r, "publish")
  <2>1. partFiles' = partFiles /\ partDirs' = partDirs /\ partSweeps' = partSweeps
    BY <1>8 DEF PartStore!CopyBody
  <2>2. \A q \in Requests \ {r} : partTemps'[q] = partTemps[q]
    BY <1>1, <1>8 DEF PartStore!CopyBody, PartStore!StoreTypeOK
  <2>3. partTemps'[r] # None =>
          partTemps'[r].dir = u /\ partTemps'[r].data = mreq[r].body /\ u \in partDirs'
    <3>1. CASE partTemps[r] = None
      BY <1>8, <3>1 DEF PartStore!CopyBody
    <3>2. CASE partTemps[r] # None
      <4>1. partTemps[r] \in PartStore!Temps
        BY <1>1, <3>2 DEF PartStore!StoreTypeOK
      <4>2. partTemps'[r] = [partTemps[r] EXCEPT !.data = mreq[r].body]
        BY <1>1, <1>8, <3>2 DEF PartStore!CopyBody, PartStore!StoreTypeOK
      <4>3. partTemps'[r].dir = partTemps[r].dir /\ partTemps'[r].data = mreq[r].body
        BY <4>1, <4>2 DEF PartStore!Temps
      <4>. QED
        BY <1>2, <2>1, <3>2, <4>3 DEF BodyOnItsWay
    <3>. QED
      BY <3>1, <3>2
  <2>4. /\ OneMoves(r) /\ mreq'[r].pc = "publish" /\ mreq'[r].upload = u
        /\ mreq'[r].body = mreq[r].body
    BY <1>5, <1>8
  <2>. QED
    BY <1>1, <2>1, <2>2, <2>3, <2>4, WriteTruth
<1>9. CASE PartStore!RemoveTemp(r) /\ Finish(r, "failed")
  <2>1. partFiles' = partFiles /\ partDirs' = partDirs /\ partSweeps' = partSweeps
    BY <1>9 DEF PartStore!RemoveTemp
  <2>2. partTemps'[r] = None /\ \A q \in Requests \ {r} : partTemps'[q] = partTemps[q]
    BY <1>1, <1>9 DEF PartStore!RemoveTemp, PartStore!StoreTypeOK
  <2>. QED
    BY <1>1, <1>4, <1>9, <2>1, <2>2, WriteTruth
<1>. QED
  BY <1>6, <1>7, <1>8, <1>9 DEF CreatePartTemp, ReceivePart

\* A part is put in place: until it is recorded nothing is said of its ETag, and
\* nobody who runs alone looks at it.
LEMMA PublishPartTruth ==
  ASSUME MultipartInv, TruthInv, NEW r \in Requests, PublishPart(r)
  PROVE  TruthInv'
<1> DEFINE u == mreq[r].upload
           n == mreq[r].number
<1>1. /\ RequestType /\ mreq[r].pc = "publish"
      /\ UNCHANGED <<repoVars, racy>>
      /\ PartStore!StoreTypeOK
  BY DEF PublishPart, MultipartInv, MultipartTypeOK, RequestType
<1>2. mreq[r] \in PartRequest /\ BodyOnItsWay(r) /\ Alone(r)
  BY <1>1, RequestKinds DEF PartPcs, TruthInv
<1>3. u \in UploadIds /\ n \in PartNumbers
  BY <1>2 DEF PartRequest
<1>4. CASE PartStore!Publish(r, u, n) /\ Goto(r, "save")
  <2>1. /\ partTemps[r] # None /\ partDirs' = partDirs /\ partSweeps' = partSweeps
        /\ partFiles' = [partFiles EXCEPT ![u][n] = partTemps[r].data]
        /\ partTemps' = [partTemps EXCEPT ![r] = None]
    BY <1>4 DEF PartStore!Publish, PartStore!TempInPlace, PartStore!TempsIn
  <2>2. partTemps[r].data = mreq[r].body /\ mreq[r].body \in Bodies /\ u \in partDirs
    BY <1>1, <1>2, <2>1 DEF BodyOnItsWay, PartPcs
  <2>3. /\ partFiles'[u][n] = mreq[r].body
        /\ \A m \in PartNumbers \ {n} : partFiles'[u][m] = partFiles[u][m]
        /\ \A v \in UploadIds \ {u} : partFiles'[v] = partFiles[v]
    BY <1>1, <1>3, <2>1, <2>2 DEF PartStore!StoreTypeOK
  <2>4. /\ OneMoves(r) /\ mreq'[r].pc = "save" /\ mreq'[r].upload = u
        /\ mreq'[r].number = n /\ mreq'[r].body = mreq[r].body
        /\ mreq'[r].solo = mreq[r].solo
    BY <1>1, <1>4, GotoOnward DEF PartPcs
  <2>5. \A q \in Requests : Onward(q) /\ Alone(q) /\ BodyOnItsWay(q) /\ CarriesTheTruth(q)
    BY <2>4 DEF OneMoves, TruthInv
  <2>6. \A q \in Requests : Alone(q)'
    BY <1>1, <2>5, AloneStep
  <2>7. PartsAreWhole'
    BY <1>3, <2>1, <2>2, <2>3 DEF TruthInv, PartsAreWhole
  <2>8. ASSUME NEW q \in Requests PROVE BodyOnItsWay(q)'
    <3>1. CASE q = r
      <4>1. partTemps'[r] = None
        BY <1>1, <2>1 DEF PartStore!StoreTypeOK
      <4>. QED
        BY <2>2, <2>4, <3>1, <4>1 DEF BodyOnItsWay
    <3>2. CASE q # r
      <4>1. partTemps'[q] = partTemps[q]
        BY <1>1, <2>1, <3>2 DEF PartStore!StoreTypeOK
      <4>2. mreq'[q] = mreq[q]
        BY <2>4, <3>2 DEF OneMoves
      <4>. QED
        BY <2>1, <2>5, <4>1, <4>2 DEF BodyOnItsWay
    <3>. QED
      BY <3>1, <3>2
  <2>9. ListedIsStored'
    <3> SUFFICES ASSUME NEW v \in UploadIds, NEW m \in PartNumbers,
                        uploads'[v] # None, parts'[v][m] # None,
                        partFiles'[v][m] # None, <<v, m>> \notin racy',
                        \A q \in Requests : ~(mreq'[q].pc = "save" /\ Sends(q, v, m)')
                 PROVE  ETag(partFiles'[v][m]) = parts'[v][m]
      BY DEF ListedIsStored, UploadExists
    <3>1. ~(v = u /\ m = n)
      BY <2>4 DEF Sends, PartPcs
    <3>2. \A q \in Requests : ~(mreq[q].pc = "save" /\ Sends(q, v, m))
      BY <1>1, <2>4 DEF OneMoves, Sends
    <3>3. UploadExists(v) /\ parts'[v] = parts[v] /\ <<v, m>> \notin racy
      BY <1>1 DEF repoVars, UploadExists
    <3>4. partFiles'[v][m] = partFiles[v][m]
      BY <2>3, <3>1
    <3>5. ETag(partFiles[v][m]) = parts[v][m]
      BY <3>2, <3>3, <3>4 DEF TruthInv, ListedIsStored
    <3>. QED
      BY <3>3, <3>4, <3>5
  <2>10. ASSUME NEW q \in Requests PROVE CarriesTheTruth(q)'
    <3>1. CASE q = r
      BY <2>3, <2>4, <3>1 DEF CarriesTheTruth
    <3>2. CASE q # r
      <4>1. /\ mreq'[q] = mreq[q] /\ CarriesTheTruth(q) /\ Alone(q)
            /\ uploads' = uploads /\ partSweeps' = partSweeps
        BY <1>1, <2>1, <2>4, <2>5, <3>2 DEF OneMoves, repoVars
      <4>2. r \in Uploading(u)
        BY <1>1 DEF Uploading, PartPcs
      <4>3. mreq[q].pc = "save" /\ mreq[q].solo => ~(mreq[q].upload = u /\ mreq[q].number = n)
        BY <1>1, <3>2, <4>1 DEF Alone, Sends, PartPcs
      <4>4. mreq[q].pc \in {"open", "sweep"} /\ mreq[q].solo => mreq[q].upload # u
        BY <4>1, <4>2 DEF Alone, CompletePcs, DropPcs
      <4>5. mreq[q].pc \notin Finished => mreq[q].upload \in UploadIds
        BY <1>1, RequestKinds DEF PartRequest, CompleteRequest, DropRequest
      <4>6. mreq[q].pc \in PartPcs => mreq[q].number \in PartNumbers
        BY <1>1, RequestKinds DEF PartRequest
      <4>7. mreq[q].pc = "save" /\ mreq[q].solo =>
              partFiles'[mreq[q].upload][mreq[q].number] = partFiles[mreq[q].upload][mreq[q].number]
        BY <2>3, <4>3, <4>5, <4>6 DEF PartPcs, Finished
      <4>8. mreq[q].pc \in {"open", "sweep"} /\ mreq[q].solo =>
              partFiles'[mreq[q].upload] = partFiles[mreq[q].upload]
        BY <2>3, <4>4, <4>5 DEF Finished
      <4>. QED
        BY <4>1, <4>7, <4>8 DEF CarriesTheTruth, UploadExists
    <3>. QED
      BY <3>1, <3>2
  <2>. QED
    BY <2>6, <2>7, <2>8, <2>9, <2>10 DEF TruthInv
<1>5. CASE PartStore!PublishFails(r, u) /\ Finish(r, "failed")
  <2>1. partFiles' = partFiles /\ partDirs' = partDirs /\ partSweeps' = partSweeps
    BY <1>5 DEF PartStore!PublishFails, PartStore!RemoveTemp
  <2>2. partTemps'[r] = None /\ \A q \in Requests \ {r} : partTemps'[q] = partTemps[q]
    BY <1>1, <1>5 DEF PartStore!PublishFails, PartStore!RemoveTemp, PartStore!StoreTypeOK
  <2>3. OneMoves(r) /\ mreq'[r].pc = "failed"
    BY <1>1, <1>5, FinishOnward DEF Finished
  <2>. QED
    BY <1>1, <2>1, <2>2, <2>3, WriteTruth
<1>. QED
  BY <1>4, <1>5 DEF PublishPart

\* A part is recorded with the ETag of what it stored, unless a rival stored
\* another or it is not recorded: then the part stays or becomes racy.
LEMMA SavePartTruth ==
  ASSUME MultipartInv, TruthInv, NEW r \in Requests, SavePart(r)
  PROVE  TruthInv'
<1> DEFINE u == mreq[r].upload
           n == mreq[r].number
           etag == ETag(mreq[r].body)
<1>1. /\ RequestType /\ mreq[r].pc = "save" /\ UNCHANGED partVars
      /\ PartStore!StoreTypeOK
  BY DEF SavePart, MultipartInv, MultipartTypeOK, RequestType
<1>2. mreq[r] \in PartRequest /\ CarriesTheTruth(r) /\ Alone(r)
  BY <1>1, RequestKinds DEF PartPcs, TruthInv
<1>3. u \in UploadIds /\ n \in PartNumbers
  BY <1>2 DEF PartRequest
<1>4. OneMoves(r) /\ mreq'[r].pc \in Finished
  <2>1. \E outcome \in Finished : Finish(r, outcome)
    BY DEF SavePart, Finished
  <2>. QED
    BY <1>1, <2>1, FinishOnward
<1>5. \A q \in Requests : Onward(q) /\ Alone(q) /\ BodyOnItsWay(q) /\ CarriesTheTruth(q)
  BY <1>4 DEF OneMoves, TruthInv
<1>6. PartsAreWhole' /\ \A q \in Requests : BodyOnItsWay(q)'
  BY <1>1, <1>4, <1>5, OnwardBodies DEF TruthInv
<1>7. uploads' = uploads
  BY DEF SavePart, SaveMultipartPart, repoVars
<1>8. ASSUME NEW q \in Requests PROVE CarriesTheTruth(q)'
  <2>1. CASE q = r
    BY <1>4, <2>1, NothingCarried DEF Finished
  <2>2. CASE q # r
    <3>1. mreq'[q] = mreq[q] /\ partFiles' = partFiles /\ partSweeps' = partSweeps
      BY <1>1, <1>4, <2>2 DEF OneMoves, partVars
    <3>. QED
      BY <1>5, <1>7, <3>1 DEF CarriesTheTruth, UploadExists
  <2>. QED
    BY <2>1, <2>2
<1>9. /\ \A v, m : <<v, m>> \in racy /\ <<v, m>> \notin racy' =>
                      v = u /\ m = n /\ mreq[r].solo
      /\ \A v, m : <<v, m>> \in racy' => <<v, m>> \in racy \/ (v = u /\ m = n)
      /\ Sends(r, u, n)
  BY <1>1 DEF SavePart, Sends, PartPcs
<1>10. \A q \in Requests : Alone(q)'
  <2>1. ASSUME NEW q \in Requests, mreq'[q].pc \in PartPcs, ~mreq'[q].solo,
               <<mreq'[q].upload, mreq'[q].number>> \in racy
        PROVE  <<mreq'[q].upload, mreq'[q].number>> \in racy'
    <3>1. q # r
      BY <1>4, <2>1, PcsAreDisjoint
    <3>2. mreq'[q] = mreq[q]
      BY <1>4, <3>1 DEF OneMoves
    <3>3. mreq[r].solo => ~Sends(q, u, n)
      BY <1>1, <1>2, <3>1 DEF Alone, PartPcs
    <3>4. mreq[r].solo => ~(mreq'[q].upload = u /\ mreq'[q].number = n)
      BY <2>1, <3>2, <3>3 DEF Sends
    <3>. QED
      BY <1>9, <2>1, <3>4
  <2>. QED
    BY <1>5, <1>9, <2>1, AloneStep
<1>11. ListedIsStored'
  <2> SUFFICES ASSUME NEW v \in UploadIds, NEW m \in PartNumbers,
                      uploads'[v] # None, parts'[v][m] # None,
                        partFiles'[v][m] # None, <<v, m>> \notin racy',
                      \A q \in Requests : ~(mreq'[q].pc = "save" /\ Sends(q, v, m)')
               PROVE  ETag(partFiles'[v][m]) = parts'[v][m]
    BY DEF ListedIsStored, UploadExists
  <2>1. UploadExists(v) /\ partFiles' = partFiles
    BY <1>1, <1>7 DEF UploadExists, partVars
  <2>2. ASSUME NEW q \in Requests \ {r} PROVE ~(mreq[q].pc = "save" /\ Sends(q, v, m))
    BY <1>4 DEF OneMoves, Sends
  <2>3. CASE SaveMultipartPart(u, n, etag) /\ v = u /\ m = n
    <3>1. parts'[u][n] = etag
      <4>1. parts \in [UploadIds -> PartTables \cup {None}] /\ parts[u] # None
        BY <1>3, <2>1, <2>3 DEF MultipartInv, RepoInv, RepoTypeOK, PartsFollowUploads
      <4>2. parts[u] \in PartTables
        BY <1>3, <4>1
      <4>3. parts' = [parts EXCEPT ![u] = [parts[u] EXCEPT ![n] = etag]]
        BY <2>3, <4>1 DEF SaveMultipartPart
      <4>. QED
        BY <1>3, <4>1, <4>2, <4>3 DEF PartTables
    <3>2. mreq[r].solo
      BY <1>1, <1>2, <1>9, <2>3 DEF Alone, PartPcs
    <3>3. partFiles[u][n] = mreq[r].body
      BY <1>1, <1>2, <2>1, <2>3, <3>2 DEF CarriesTheTruth
    <3>. QED
      BY <2>1, <2>3, <3>1, <3>3
  <2>4. CASE ~(SaveMultipartPart(u, n, etag) /\ v = u /\ m = n)
    <3>1. ~(v = u /\ m = n) /\ parts'[v][m] = parts[v][m]
      <4>1. CASE SaveMultipartPart(u, n, etag)
        <5>1. parts \in [UploadIds -> PartTables \cup {None}] /\ parts[u] # None
          BY <1>3, <4>1 DEF MultipartInv, RepoInv, RepoTypeOK, PartsFollowUploads,
             SaveMultipartPart
        <5>2. parts[u] \in PartTables
          BY <1>3, <5>1
        <5>3. parts' = [parts EXCEPT ![u] = [parts[u] EXCEPT ![n] = etag]]
          BY <4>1, <5>1 DEF SaveMultipartPart
        <5>. QED
          BY <1>3, <2>4, <4>1, <5>1, <5>2, <5>3 DEF PartTables
      <4>2. CASE racy' = racy \cup {<<u, n>>} /\ UNCHANGED repoVars
        BY <4>2 DEF repoVars
      <4>. QED
        BY <4>1, <4>2 DEF SavePart
    <3>2. \A q \in Requests : ~(mreq[q].pc = "save" /\ Sends(q, v, m))
      BY <2>2, <3>1 DEF Sends
    <3>3. <<v, m>> \notin racy
      BY <1>9, <3>1
    <3>. QED
      BY <2>1, <3>1, <3>2, <3>3 DEF TruthInv, ListedIsStored
  <2>. QED
    BY <2>3, <2>4
<1>. QED
  BY <1>6, <1>8, <1>10, <1>11 DEF TruthInv

(***************************************************************************)
(* The directory of an upload goes.                                        *)
(***************************************************************************)

\* A removal reads the directory: it knows every file that is there.
LEMMA ScanUploadDirTruth ==
  ASSUME MultipartInv, TruthInv, NEW r \in Requests, ScanUploadDir(r)
  PROVE  TruthInv'
<1> DEFINE u == mreq[r].upload
<1>1. /\ RequestType /\ mreq[r].pc = "scan" /\ UNCHANGED <<repoVars, racy>>
      /\ PartStore!StoreTypeOK
  BY DEF ScanUploadDir, MultipartInv, MultipartTypeOK, RequestType
<1>2. mreq[r] \in DropRequest
  BY <1>1, RequestKinds DEF DropPcs
<1>3. u \in UploadIds /\ u # None
  BY <1>2, PartSentinelAssumption DEF DropRequest
<1>4. CASE PartStore!StartSweep(r, u) /\ Goto(r, "sweep")
  <2>1. /\ UNCHANGED <<partDirs, partFiles, partTemps>>
        /\ partSweeps'[r] = [dir |-> u, keys |-> PartStore!FilesIn(u),
                             temps |-> PartStore!TempsIn(u)]
        /\ \A q \in Requests \ {r} : partSweeps'[q] = partSweeps[q]
    BY <1>1, <1>4 DEF PartStore!StartSweep, PartStore!StoreTypeOK
  <2>2. OneMoves(r) /\ mreq'[r].pc = "sweep" /\ mreq'[r].upload = u
    BY <1>1, <1>4, GotoOnward DEF DropPcs
  <2>3. \A q \in Requests : Onward(q) /\ Alone(q) /\ BodyOnItsWay(q) /\ CarriesTheTruth(q)
    BY <2>2 DEF OneMoves, TruthInv
  <2>4. \A q \in Requests : Alone(q)'
    BY <1>1, <2>3, AloneStep
  <2>5. PartsAreWhole'
    BY <2>1 DEF TruthInv, PartsAreWhole
  <2>6. ASSUME NEW q \in Requests PROVE BodyOnItsWay(q)'
    <3>1. CASE q = r
      BY <1>1, <2>1, <2>2, <2>3, <3>1 DEF BodyOnItsWay, PartPcs
    <3>2. CASE q # r
      <4>1. mreq'[q] = mreq[q]
        BY <2>2, <3>2 DEF OneMoves
      <4>. QED
        BY <2>1, <2>3, <4>1 DEF BodyOnItsWay
    <3>. QED
      BY <3>1, <3>2
  <2>7. ListedIsStored'
    <3>1. \A q \in Requests : mreq[q].pc = "save" =>
              /\ mreq'[q].pc = "save"
              /\ mreq'[q].upload = mreq[q].upload
              /\ mreq'[q].number = mreq[q].number
      BY <1>1, <2>2 DEF OneMoves
    <3>2. \A v \in UploadIds : uploads'[v] # None => UploadExists(v) /\ parts'[v] = parts[v]
      BY <1>1 DEF repoVars, UploadExists
    <3>. QED
      BY <1>1, <2>1, <3>1, <3>2, ListedStep DEF TruthInv
  <2>8. ASSUME NEW q \in Requests PROVE CarriesTheTruth(q)'
    <3>1. CASE q = r
      <4>1. partSweeps'[r].dir = u /\ partSweeps'[r].keys = PartStore!FilesIn(u)
        BY <2>1
      <4>. QED
        BY <1>3, <2>1, <2>2, <3>1, <4>1
           DEF CarriesTheTruth, PartStore!FilesIn, PartStore!FileExists
    <3>2. CASE q # r
      <4>1. mreq'[q] = mreq[q] /\ partSweeps'[q] = partSweeps[q] /\ uploads' = uploads
        BY <1>1, <2>1, <2>2, <3>2 DEF OneMoves, repoVars
      <4>. QED
        BY <2>1, <2>3, <4>1 DEF CarriesTheTruth, UploadExists
    <3>. QED
      BY <3>1, <3>2
  <2>. QED
    BY <2>4, <2>5, <2>6, <2>7, <2>8 DEF TruthInv
<1>5. CASE PartStore!SweepNoop(u) /\ Finish(r, "ok")
  <2>1. UNCHANGED partVars
    BY <1>5 DEF PartStore!SweepNoop, PartStore!storeVars, partVars
  <2>2. OneMoves(r) /\ mreq'[r].pc = "ok"
    BY <1>1, <1>5, FinishOnward DEF Finished
  <2>3. \A v \in UploadIds : uploads'[v] # None => UploadExists(v) /\ parts'[v] = parts[v]
    BY <1>1 DEF repoVars, UploadExists
  <2>. QED
    BY <1>1, <2>1, <2>2, <2>3, MoveTruth, NothingCarried
<1>. QED
  BY <1>4, <1>5 DEF ScanUploadDir

\* A removal unlinks what it read, and then the directory: what is left is what
\* it still has to unlink, and no part upload that is still in its write loses
\* the directory.
LEMMA SweepUploadDirTruth ==
  ASSUME MultipartInv, TruthInv, NEW r \in Requests, SweepUploadDir(r)
  PROVE  TruthInv'
<1> DEFINE u == mreq[r].upload
<1>1. /\ RequestType /\ mreq[r].pc = "sweep" /\ UNCHANGED <<repoVars, racy>>
      /\ PartStore!StoreTypeOK /\ RequestType'
  BY SweepUploadDirInv DEF SweepUploadDir, MultipartInv, MultipartTypeOK, RequestType
<1>2. mreq[r] \in DropRequest
  BY <1>1, RequestKinds DEF DropPcs
<1>3. u \in UploadIds
  BY <1>2 DEF DropRequest
<1>4. /\ partSweeps[r] \in PartStore!Sweeps /\ partSweeps[r] # None
      /\ partSweeps[r].dir \in {None, u}
  BY <1>1 DEF MultipartInv, SweepsOwnDir, PartStore!StoreTypeOK
<1>5. /\ \A q \in Requests : Onward(q)
      /\ \A q \in Requests \ {r} : mreq'[q] = mreq[q]
      /\ mreq' = mreq \/ mreq'[r].pc = "ok"
  <2>1. CASE mreq' = mreq
    BY <2>1, SameOnward
  <2>2. CASE Finish(r, "ok")
    BY <1>1, <2>2, FinishOnward DEF Finished, OneMoves
  <2>. QED
    BY <2>1, <2>2 DEF SweepUploadDir
<1>6. \A q \in Requests : Onward(q) /\ Alone(q) /\ BodyOnItsWay(q) /\ CarriesTheTruth(q)
  BY <1>5 DEF TruthInv
<1>7. \A q \in Requests : Alone(q)'
  BY <1>1, <1>6, AloneStep
<1>8. \A q \in Requests : mreq[q].pc # "sweep" => mreq'[q] = mreq[q]
  BY <1>1, <1>5
<1>9. /\ \A v \in UploadIds, n \in PartNumbers :
            \/ partFiles'[v][n] = partFiles[v][n]
            \/ v = u /\ partFiles'[v][n] = None
      /\ \A q \in Requests : partTemps'[q] \in {partTemps[q], None}
      /\ \/ partDirs' = partDirs
         \/ /\ partDirs' = partDirs \ {u} /\ partFiles' = partFiles /\ partTemps' = partTemps
            /\ \A n \in PartNumbers : partFiles[u][n] = None
            /\ \A q \in Requests : partTemps[q] # None => partTemps[q].dir # u
  <2>1. ASSUME NEW n \in PartNumbers, PartStore!SweepFile(r, n)
        PROVE  /\ \A v \in UploadIds, m \in PartNumbers :
                     \/ partFiles'[v][m] = partFiles[v][m]
                     \/ v = u /\ partFiles'[v][m] = None
               /\ UNCHANGED <<partDirs, partTemps>>
    BY <1>1, <1>3, <1>4, <2>1 DEF PartStore!SweepFile, PartStore!StoreTypeOK
  <2>2. ASSUME NEW q \in Requests, PartStore!SweepTemp(r, q)
        PROVE  /\ \A p \in Requests : partTemps'[p] \in {partTemps[p], None}
               /\ UNCHANGED <<partDirs, partFiles>>
    BY <1>1, <2>2 DEF PartStore!SweepTemp, PartStore!StoreTypeOK
  <2>3. CASE PartStore!RemoveDir(r, u)
    BY <2>3 DEF PartStore!RemoveDir, PartStore!FilesIn, PartStore!FileExists,
       PartStore!TempsIn
  <2>4. CASE PartStore!RemoveDirFails(r, u)
    BY <2>4 DEF PartStore!RemoveDirFails
  <2>. QED
    BY <2>1, <2>2, <2>3, <2>4 DEF SweepUploadDir
<1>10. PartsAreWhole'
  <2> SUFFICES ASSUME NEW v \in UploadIds, NEW n \in PartNumbers, partFiles'[v][n] # None
               PROVE  partFiles'[v][n] \in Bodies /\ v \in partDirs'
    BY DEF PartsAreWhole
  <2>1. partFiles'[v][n] = partFiles[v][n]
    BY <1>9
  <2>2. partFiles[v][n] \in Bodies /\ v \in partDirs
    BY <2>1 DEF TruthInv, PartsAreWhole
  <2>. QED
    BY <1>9, <2>1, <2>2
<1>11. ASSUME NEW q \in Requests PROVE BodyOnItsWay(q)'
  <2>1. CASE mreq[q].pc = "sweep"
    <3>1. partTemps[q] = None
      BY <1>6, <2>1 DEF BodyOnItsWay
    <3>2. partTemps'[q] = None
      BY <1>9, <3>1
    <3>3. mreq'[q].pc \notin PartPcs
      BY <1>6, <2>1 DEF Onward, PartPcs
    <3>. QED
      BY <3>2, <3>3 DEF BodyOnItsWay
  <2>2. CASE mreq[q].pc # "sweep"
    <3>1. mreq'[q] = mreq[q] /\ BodyOnItsWay(q)
      BY <1>6, <1>8, <2>2
    <3>2. partTemps'[q] # None => partTemps'[q] = partTemps[q] /\ mreq[q].upload \in partDirs'
      BY <1>9, <3>1 DEF BodyOnItsWay
    <3>. QED
      BY <3>1, <3>2 DEF BodyOnItsWay
  <2>. QED
    BY <2>1, <2>2
<1>12. ListedIsStored'
  <2>1. \A q \in Requests : mreq[q].pc = "save" =>
            /\ mreq'[q].pc = "save"
            /\ mreq'[q].upload = mreq[q].upload
            /\ mreq'[q].number = mreq[q].number
    BY <1>8
  <2>2. \A v \in UploadIds : uploads'[v] # None => UploadExists(v) /\ parts'[v] = parts[v]
    BY <1>1 DEF repoVars, UploadExists
  <2>3. \A v \in UploadIds, n \in PartNumbers :
            partFiles'[v][n] # None => partFiles'[v][n] = partFiles[v][n]
    BY <1>9
  <2>. QED
    BY <1>1, <2>1, <2>2, <2>3, ListedStep DEF TruthInv
<1>13. \A v \in UploadIds, n \in PartNumbers :
          partFiles'[v][n] # None => partFiles'[v][n] = partFiles[v][n]
  BY <1>9
<1>15. ASSUME NEW q \in Requests, mreq'[q].pc # "sweep" PROVE CarriesTheTruth(q)'
  <2>1. CASE mreq[q].pc = "sweep"
    <3>1. mreq'[q].pc \notin {"save", "open", "sweep"}
      BY <1>6, <1>15, <2>1 DEF Onward, PartPcs, CompletePcs, DropPcs
    <3>. QED
      BY <3>1, NothingCarried
  <2>2. CASE mreq[q].pc # "sweep"
    <3>1. mreq'[q] = mreq[q]
      BY <1>8, <2>2
    <3>. QED
      BY <1>6, <1>13, <1>15, <3>1, CarriedStep
  <2>. QED
    BY <2>1, <2>2
<1>16. ASSUME NEW q \in Requests, mreq'[q].pc = "sweep" PROVE CarriesTheTruth(q)'
  <2>1. /\ mreq[q].pc = "sweep" /\ mreq'[q] = mreq[q]
        /\ q = r => mreq' = mreq
    BY <1>5, <1>16, <1>1
  <2>2. /\ mreq[q].upload \in UploadIds
        /\ partSweeps[q] \in PartStore!Sweeps /\ partSweeps[q] # None
        /\ partSweeps[q].dir \in {None, mreq[q].upload}
    BY <1>1, <2>1, RequestKinds
       DEF DropPcs, DropRequest, MultipartInv, SweepsOwnDir, PartStore!StoreTypeOK
  <2> SUFFICES ASSUME mreq[q].solo, NEW n \in PartNumbers,
                      partFiles'[mreq[q].upload][n] # None
               PROVE  partSweeps'[q].dir # None /\ n \in partSweeps'[q].keys
    BY <2>1 DEF CarriesTheTruth
  <2>3. partFiles[mreq[q].upload][n] # None
    BY <1>9, <2>2
  <2>4. partSweeps[q].dir = mreq[q].upload /\ n \in partSweeps[q].keys
    BY <1>6, <2>1, <2>2, <2>3 DEF CarriesTheTruth
  <2>5. ASSUME NEW m \in PartNumbers, PartStore!SweepFile(r, m)
        PROVE  partSweeps'[q].dir # None /\ n \in partSweeps'[q].keys
    <3>1. CASE q = r
      <4>1. partFiles' = [partFiles EXCEPT ![u][m] = None]
        BY <2>2, <2>4, <2>5, <3>1, PartSentinelAssumption DEF PartStore!SweepFile
      <4>2. n # m
        BY <1>1, <1>3, <3>1, <4>1 DEF PartStore!StoreTypeOK
      <4>3. partSweeps'[r] = [partSweeps[r] EXCEPT !.keys = @ \ {m}]
        BY <1>1, <2>5 DEF PartStore!SweepFile, PartStore!StoreTypeOK
      <4>4. partSweeps'[r].dir = partSweeps[r].dir
            /\ partSweeps'[r].keys = partSweeps[r].keys \ {m}
        BY <1>4, <4>3 DEF PartStore!Sweeps
      <4>. QED
        BY <2>2, <2>4, <3>1, <4>2, <4>4, PartSentinelAssumption
    <3>2. CASE q # r
      <4>1. partSweeps'[q] = partSweeps[q]
        BY <1>1, <2>5, <3>2 DEF PartStore!SweepFile, PartStore!StoreTypeOK
      <4>. QED
        BY <2>2, <2>4, <4>1, PartSentinelAssumption
    <3>. QED
      BY <3>1, <3>2
  <2>6. ASSUME NEW p \in Requests, PartStore!SweepTemp(r, p)
        PROVE  partSweeps'[q].dir # None /\ n \in partSweeps'[q].keys
    <3>1. partSweeps'[q] = partSweeps[q]
          \/ partSweeps'[q] = [partSweeps[q] EXCEPT !.temps = @ \ {p}]
      BY <1>1, <2>6 DEF PartStore!SweepTemp, PartStore!StoreTypeOK
    <3>2. partSweeps'[q].dir = partSweeps[q].dir /\ partSweeps'[q].keys = partSweeps[q].keys
      BY <2>2, <3>1 DEF PartStore!Sweeps
    <3>. QED
      BY <2>2, <2>4, <3>2, PartSentinelAssumption
  <2>7. ASSUME PartStore!RemoveDir(r, u), q # r
        PROVE  partSweeps'[q].dir # None /\ n \in partSweeps'[q].keys
    <3>1. mreq[q].upload # u
      BY <2>3, <2>7 DEF PartStore!RemoveDir, PartStore!FilesIn, PartStore!FileExists
    <3>2. partSweeps'[q] = [partSweeps[q] EXCEPT !.dir = IF @ = u THEN None ELSE @]
      BY <2>2, <2>7 DEF PartStore!RemoveDir
    <3>3. partSweeps'[q].dir = partSweeps[q].dir /\ partSweeps'[q].keys = partSweeps[q].keys
      BY <2>2, <2>4, <3>1, <3>2 DEF PartStore!Sweeps
    <3>. QED
      BY <2>2, <2>4, <3>3, PartSentinelAssumption
  <2>8. ASSUME PartStore!RemoveDirFails(r, u), q # r
        PROVE  partSweeps'[q].dir # None /\ n \in partSweeps'[q].keys
    <3>1. partSweeps'[q] = partSweeps[q]
      BY <1>1, <2>8 DEF PartStore!RemoveDirFails, PartStore!StoreTypeOK
    <3>. QED
      BY <2>2, <2>4, <3>1, PartSentinelAssumption
  <2>9. ASSUME Finish(r, "ok") PROVE q # r
    BY <1>1, <1>16, <2>9, FinishOnward DEF Finished
  <2>. QED
    BY <2>5, <2>6, <2>7, <2>8, <2>9 DEF SweepUploadDir
<1>. QED
  BY <1>7, <1>10, <1>11, <1>12, <1>15, <1>16 DEF TruthInv

\* Every step preserves the second invariant.
LEMMA TruthNext ==
  ASSUME MultipartInv, TruthInv, [MultipartNext]_multipartVars
  PROVE  TruthInv'
<1>1. ASSUME NEW r \in Requests, ClientStep(r) PROVE TruthInv'
  BY <1>1, BeginPartTruth, BeginDropTruth, WritePartTruth DEF ClientStep
<1>2. ASSUME NEW r \in Requests, ServerStep(r) PROVE TruthInv'
  BY <1>2, WritePartTruth, PublishPartTruth, SavePartTruth, ListPartsTruth, OpenPartTruth,
     AssembleTruth, ScanUploadDirTruth, SweepUploadDirTruth DEF ServerStep
<1>3. CASE (\E u \in UploadIds : CreateUpload(u)) \/ BucketRequest \/ UNCHANGED multipartVars
  BY <1>3, OthersTruth
<1>4. CASE Restart
  BY <1>4, RestartTruth
<1>. QED
  BY <1>1, <1>2, <1>3, <1>4 DEF MultipartNext, RunningNext

\* The second invariant holds of every behaviour of the multipart handlers.
THEOREM TruthInvariant == MultipartSpec => []TruthInv
<1>1. MultipartInit => TruthInv
  BY TruthInitInv
<1>2. MultipartInv /\ TruthInv /\ [MultipartNext]_multipartVars => TruthInv'
  BY TruthNext
<1>. QED
  BY <1>1, <1>2, MultipartInvariant, PTL DEF MultipartSpec

\* The ETag an open upload lists for a part is that of the file, unless the part
\* was sent twice at a time, is being sent, or was sent again and not recorded.
THEOREM PartEtagsAlwaysMatch == MultipartSpec => []PartEtagsMatch
<1>1. MultipartInv /\ TruthInv => PartEtagsMatch
  <2> SUFFICES ASSUME MultipartInv, TruthInv, NEW u \in UploadIds, NEW n \in PartNumbers,
                      UploadExists(u), parts[u][n] # None, partFiles[u][n] # None,
                      <<u, n>> \notin racy, \A r \in Uploading(u) : mreq[r].number # n
               PROVE  ETag(partFiles[u][n]) = parts[u][n]
    BY DEF PartEtagsMatch
  <2>1. \A r \in Requests : ~Sends(r, u, n)
    BY DEF Uploading, Sends
  <2>. QED
    BY <2>1 DEF TruthInv, ListedIsStored
<1>. QED
  BY <1>1, MultipartInvariant, TruthInvariant, PTL

\* A completion that met no part upload, and no part that had been sent again
\* without being recorded, puts into the object the very bodies whose ETags it
\* was shown.
THEOREM CompletionsAssembleWhatTheyVerified == MultipartSpec => AssembledAsVerified
<1>1. MultipartInv /\ TruthInv /\ [MultipartNext]_multipartVars =>
        [\A r \in Requests :
          OpenPart(r) /\ mreq'[r].pc = "open" /\ mreq[r].solo
             => LET etag == mreq[r].saved[NextPart(r).number]
                IN  \E file \in Bodies : ETag(file) = etag /\ mreq'[r].body = mreq[r].body \o file
        ]_multipartVars
  <2> SUFFICES ASSUME MultipartInv, TruthInv, NEW r \in Requests,
                      OpenPart(r), mreq'[r].pc = "open", mreq[r].solo
               PROVE  \E file \in Bodies :
                        /\ ETag(file) = mreq[r].saved[NextPart(r).number]
                        /\ mreq'[r].body = mreq[r].body \o file
    OBVIOUS
  <2> DEFINE want == NextPart(r)
             file == partFiles[mreq[r].upload][want.number]
  <2>1. RequestType /\ mreq[r].pc = "open"
    BY DEF OpenPart, MultipartInv, MultipartTypeOK, RequestType
  <2>2. mreq[r] \in CompleteRequest
    BY <2>1, RequestKinds DEF CompletePcs
  <2>3. ~Finish(r, "failed")
    BY <2>1, FinishOnward DEF Finished
  <2>4. Acceptable(mreq[r].saved, want) /\ file # None
    BY <2>3 DEF OpenPart
  <2>5. /\ want.number \in PartNumbers
        /\ mreq[r].saved[want.number] # None
    BY <2>4 DEF Acceptable, SavedNumbers
  <2>6. ETag(file) = mreq[r].saved[want.number]
    BY <2>1, <2>4, <2>5 DEF TruthInv, CarriesTheTruth
  <2>7. file \in Bodies
    BY <2>2, <2>4, <2>5 DEF CompleteRequest, TruthInv, PartsAreWhole
  <2>8. mreq'[r].body = mreq[r].body \o file
    <3> DEFINE rest == IF mreq[r].list = <<>> THEN mreq[r].list ELSE Tail(mreq[r].list)
               left == mreq[r].all \ {want.number}
               body == mreq[r].body \o file
               e == [mreq[r] EXCEPT !.list = rest, !.all = left, !.body = body]
    <3>1. mreq' = [mreq EXCEPT ![r] = e]
      BY <2>3 DEF OpenPart
    <3> HIDE DEF rest, left, body
    <3>2. e.body = body
      BY <2>2 DEF CompleteRequest
    <3> HIDE DEF e
    <3>3. mreq'[r] = e
      BY <2>1, <3>1 DEF RequestType
    <3>. QED
      BY <3>2, <3>3 DEF body
  <2> WITNESS file \in Bodies
  <2>. QED
    BY <2>6, <2>8
<1>. QED
  BY <1>1, MultipartInvariant, TruthInvariant, PTL DEF MultipartSpec, AssembledAsVerified

\* An abort or a completion that met no part upload leaves nothing of the upload
\* on disk when it is answered.
THEOREM DroppedUploadsAlwaysLeaveNothing == MultipartSpec => DroppedUploadsLeaveNothing
<1>1. MultipartInv /\ TruthInv /\ [MultipartNext]_multipartVars =>
        [\A r \in Requests :
          mreq[r].pc \in {"scan", "sweep"} /\ mreq'[r].pc = "ok" /\ mreq[r].solo
             => mreq[r].upload \notin partDirs'
                /\ \A n \in PartNumbers : partFiles'[mreq[r].upload][n] = None]_multipartVars
  <2> SUFFICES ASSUME MultipartInv, TruthInv, MultipartNext, NEW r \in Requests,
                      mreq[r].pc \in {"scan", "sweep"}, mreq'[r].pc = "ok", mreq[r].solo
               PROVE  /\ mreq[r].upload \notin partDirs'
                      /\ \A n \in PartNumbers : partFiles'[mreq[r].upload][n] = None
    OBVIOUS
  <2> DEFINE u == mreq[r].upload
  <2>1. RequestType /\ PartStore!StoreTypeOK
    BY DEF MultipartInv, MultipartTypeOK, RequestType
  <2>2. mreq[r] \in DropRequest /\ u \in UploadIds
    BY <2>1, RequestKinds DEF DropPcs, DropRequest
  <2>3. Uploading(u) = {}
    BY DEF TruthInv, Alone, DropPcs
  <2>4. PartStore!TempsIn(u) = {}
    BY <2>3 DEF TruthInv, BodyOnItsWay, PartStore!TempsIn, Uploading, PartPcs
  <2>5. ASSUME NEW q \in Requests \ {r}, ServerStep(q)
        PROVE  mreq'[r] = mreq[r]
    <3>1. CASE CreatePartTemp(q) \/ PublishPart(q) \/ SavePart(q) \/ OpenedAll(q)
               \/ PutAssembled(q) \/ ForgetUpload(q) \/ ScanUploadDir(q)
      BY <2>1, <3>1 DEF CreatePartTemp, PublishPart, SavePart, OpenedAll, PutAssembled,
         ForgetUpload, ScanUploadDir, RequestType, Goto, Finish
    <3>2. CASE UpsertAssembled(q) \/ SweepUploadDir(q)
      BY <2>1, <3>2 DEF UpsertAssembled, SweepUploadDir, RequestType, Finish
    <3>3. CASE ListParts(q)
      BY <2>1, <3>3 DEF ListParts, RequestType, Finish
    <3>4. CASE OpenPart(q)
      BY <2>1, <3>4 DEF OpenPart, RequestType, Finish
    <3>. QED
      BY <2>5, <3>1, <3>2, <3>3, <3>4 DEF ServerStep
  <2>6. ASSUME NEW q \in Requests, ClientStep(q)
        PROVE  mreq'[r].pc # "ok"
    <3>1. ASSUME NEW v \in UploadIds, NEW n \in PartNumbers, NEW body \in Bodies,
                 BeginPart(q, v, n, body)
          PROVE  mreq'[r].pc # "ok"
      <4>1. q # r
        BY <3>1 DEF BeginPart, Finished
      <4>2. mreq'[r] \in {mreq[r], [mreq[r] EXCEPT !.solo = FALSE]}
        BY <3>1, <4>1 DEF BeginPart
      <4>3. [mreq[r] EXCEPT !.solo = FALSE].pc = mreq[r].pc
        BY <2>2 DEF DropRequest
      <4>. QED
        BY <4>2, <4>3
    <3>2. ASSUME NEW v \in UploadIds,
                 (\E list \in PartLists : BeginComplete(q, v, list)) \/ BeginAbort(q, v)
          PROVE  mreq'[r].pc # "ok"
      <4>1. q # r
        BY <3>2 DEF BeginComplete, BeginAbort, Finished
      <4>2. mreq'[r] = mreq[r]
        BY <2>1, <3>2, <4>1 DEF BeginComplete, BeginAbort, RequestType
      <4>. QED
        BY <4>2
    <3>3. CASE ReceivePart(q)
      <4>1. q # r
        BY <3>3 DEF ReceivePart
      <4>2. mreq'[r] = mreq[r]
        BY <2>1, <3>3, <4>1 DEF ReceivePart, RequestType, Goto, Finish
      <4>. QED
        BY <4>2
    <3>. QED
      BY <2>6, <3>1, <3>2, <3>3 DEF ClientStep
  <2>7. ScanUploadDir(r) \/ SweepUploadDir(r)
    <3>1. CASE ServerStep(r)
      <4>1. ~CreatePartTemp(r) /\ ~PublishPart(r) /\ ~SavePart(r)
        BY DEF CreatePartTemp, PublishPart, SavePart
      <4>2. ~ListParts(r) /\ ~OpenPart(r) /\ ~OpenedAll(r)
        BY DEF ListParts, OpenPart, OpenedAll
      <4>3. ~PutAssembled(r) /\ ~UpsertAssembled(r) /\ ~ForgetUpload(r)
        BY DEF PutAssembled, UpsertAssembled, ForgetUpload
      <4>. QED
        BY <3>1, <4>1, <4>2, <4>3 DEF ServerStep
    <3>2. CASE (\E v \in UploadIds : CreateUpload(v)) \/ BucketRequest
      BY <3>2 DEF CreateUpload, BucketRequest
    <3>3. CASE Restart
      BY <3>3 DEF Restart
    <3>. QED
      BY <2>5, <2>6, <3>1, <3>2, <3>3 DEF MultipartNext, RunningNext
  <2>8. CASE ScanUploadDir(r)
    <3>1. ~Goto(r, "sweep")
      BY <2>1, <2>2, GotoOnward DEF DropPcs
    <3>2. u \notin partDirs /\ partFiles' = partFiles /\ partDirs' = partDirs
      BY <2>8, <3>1 DEF ScanUploadDir, PartStore!SweepNoop, PartStore!storeVars
    <3>. QED
      BY <2>2, <3>2 DEF TruthInv, PartsAreWhole
  <2>9. CASE SweepUploadDir(r)
    <3>1. mreq[r].pc = "sweep" /\ mreq' # mreq
      BY <2>9 DEF SweepUploadDir
    <3>2. CASE PartStore!RemoveDir(r, u)
      BY <2>2, <3>2 DEF PartStore!RemoveDir, PartStore!FilesIn, PartStore!FileExists
    <3>3. CASE PartStore!RemoveDirFails(r, u)
      <4>1. PartStore!FilesIn(u) # {} /\ partSweeps[r].keys = {}
        BY <2>4, <3>3 DEF PartStore!RemoveDirFails, PartStore!SweptAll
      <4>2. \A n \in PartNumbers : partFiles[u][n] # None => n \in partSweeps[r].keys
        BY <3>1 DEF TruthInv, CarriesTheTruth
      <4>. QED
        BY <4>1, <4>2 DEF PartStore!FilesIn, PartStore!FileExists
    <3>. QED
      BY <2>9, <3>1, <3>2, <3>3 DEF SweepUploadDir
  <2>. QED
    BY <2>7, <2>8, <2>9
<1>. QED
  BY <1>1, MultipartInvariant, TruthInvariant, PTL DEF MultipartSpec, DroppedUploadsLeaveNothing

(***************************************************************************)
(* The abstract uploads.  Besides the two invariants this needs to know     *)
(* that a new upload finds no file of its own.                              *)
(***************************************************************************)

FilesAreIssued ==
    \A u \in UploadIds, n \in PartNumbers : partFiles[u][n] # None => u \in issued

\* What a request does in a step that stores no part: if it is an upload of a
\* part it was that upload before.
Keeps(q) ==
    mreq'[q].pc \in PartPcs =>
         /\ mreq[q].pc \in PartPcs
         /\ mreq'[q].upload = mreq[q].upload
         /\ mreq'[q].number = mreq[q].number
         /\ mreq'[q].body = mreq[q].body

\* Such a step: no upload begins, one that stays open keeps its parts, and a file
\* that no upload lists may go.
QuietStep ==
    /\ UNCHANGED <<issued, torn>>
    /\ \A u \in UploadIds : uploads'[u] # None => UploadExists(u) /\ parts'[u] = parts[u]
    /\ \A u \in UploadIds, n \in PartNumbers :
          \/ partFiles'[u][n] = partFiles[u][n]
          \/ partFiles'[u][n] = None /\ (uploads'[u] = None \/ parts[u][n] = None)
    /\ \A q \in Requests : Keeps(q)

\* The other two things a removal does: it cannot forget an upload, and it takes
\* a part from one that it could not forget.
ForgetsInVain(u) ==
    /\ torn' = torn \cup {u}
    /\ UNCHANGED <<repoVars, partFiles, issued>>
    /\ Sending' = Sending

TearsOut(u, n) ==
    /\ u \in torn
    /\ partFiles'[u][n] = None
    /\ \A v \in UploadIds, m \in PartNumbers :
          v # u \/ m # n => partFiles'[v][m] = partFiles[v][m]
    /\ UNCHANGED <<repoVars, issued, torn>>
    /\ \A q \in Requests : Keeps(q)

\* A request that goes on keeps what it sends.
LEMMA OnwardKeeps ==
  ASSUME NEW r \in Requests, OneMoves(r)
  PROVE  \A q \in Requests : Keeps(q)
  BY DEF OneMoves, Onward, Keeps

\* So does one that is no upload of a part afterwards.
LEMMA OthersKeep ==
  ASSUME NEW r \in Requests, mreq'[r].pc \notin PartPcs,
         \A q \in Requests \ {r} : mreq'[q] = mreq[q]
  PROVE  \A q \in Requests : Keeps(q)
<1> SUFFICES ASSUME NEW q \in Requests PROVE Keeps(q)
  OBVIOUS
<1>1. CASE q = r
  BY <1>1 DEF Keeps
<1>2. CASE q # r
  <2>1. mreq'[q] = mreq[q]
    BY <1>2
  <2>. QED
    BY <2>1 DEF Keeps
<1>. QED
  BY <1>1, <1>2

\* A step that moves one request and leaves the tables and part files alone.
LEMMA MoveIsQuiet ==
  ASSUME UNCHANGED <<repoVars, partFiles, issued, torn>>, \A q \in Requests : Keeps(q)
  PROVE  QuietStep
  BY DEF QuietStep, repoVars, UploadExists

\* Requests that arrive with something else than a part.
LEMMA BeginDropQuiet ==
  ASSUME MultipartInv, NEW r \in Requests, NEW u \in UploadIds,
         BeginAbort(r, u) \/ \E list \in PartLists : BeginComplete(r, u, list)
  PROVE  QuietStep
<1>1. RequestType /\ mreq[r].pc \in Finished
  BY DEF BeginAbort, BeginComplete, MultipartInv, MultipartTypeOK, RequestType
<1>2. /\ mreq'[r].pc \in {"forget", "list"}
      /\ \A q \in Requests \ {r} : mreq'[q] = mreq[q]
  BY <1>1 DEF BeginAbort, BeginComplete, RequestType
<1>3. \A q \in Requests : Keeps(q)
  BY <1>1, <1>2, OthersKeep DEF Finished, PartPcs
<1>. QED
  BY <1>3, MoveIsQuiet DEF BeginAbort, BeginComplete, partVars

\* A part upload makes, fills or gives up its temporary file.
LEMMA WriteQuiet ==
  ASSUME MultipartInv, NEW r \in Requests, CreatePartTemp(r) \/ ReceivePart(r)
  PROVE  QuietStep
<1>1. RequestType /\ mreq[r].pc \in {"begin", "copy"}
  BY DEF CreatePartTemp, ReceivePart, MultipartInv, MultipartTypeOK, RequestType
<1>2. OneMoves(r)
  <2>1. (\E pc \in PartPcs : Goto(r, pc)) \/ Finish(r, "failed")
    BY DEF CreatePartTemp, ReceivePart, PartPcs
  <2>. QED
    BY <1>1, <2>1, GotoOnward, FinishOnward DEF PartPcs, Finished
<1>3. partFiles' = partFiles
  BY DEF CreatePartTemp, ReceivePart, PartStore!CreateTemp, PartStore!CreateTempFails,
     PartStore!CopyBody, PartStore!RemoveTemp
<1>. QED
  BY <1>1, <1>2, <1>3, OnwardKeeps, MoveIsQuiet DEF CreatePartTemp, ReceivePart

\* Only r moves, and it sends no part afterwards.
Elsewhere(r) ==
    /\ mreq'[r].pc \notin PartPcs
    /\ \A q \in Requests \ {r} : mreq'[q] = mreq[q]

\* A request that is replaced by another is elsewhere.
LEMMA ReplacedIsElsewhere ==
  ASSUME RequestType, NEW r \in Requests, NEW e,
         mreq' = [mreq EXCEPT ![r] = e], e.pc \notin PartPcs
  PROVE  Elsewhere(r)
  BY DEF RequestType, Elsewhere

\* So is one that is answered.
LEMMA FinishedIsElsewhere ==
  ASSUME RequestType, NEW r \in Requests, NEW outcome \in Finished, Finish(r, outcome)
  PROVE  Elsewhere(r)
  BY FinishOnward, PcsAreDisjoint DEF OneMoves, Elsewhere

\* A completion lists the parts.
LEMMA ListPartsQuiet ==
  ASSUME MultipartInv, NEW r \in Requests, ListParts(r)
  PROVE  QuietStep
<1> DEFINE table == parts[mreq[r].upload]
           saved == IF Database /\ table = None THEN NoParts ELSE table
           every == IF mreq[r].list = <<>> THEN SavedNumbers(saved) ELSE {}
           e == [mreq[r] EXCEPT !.pc = "open", !.saved = saved, !.all = every]
<1>1. /\ RequestType /\ mreq[r].pc = "list"
      /\ UNCHANGED <<repoVars, partFiles, issued, torn>>
  BY DEF ListParts, partVars, MultipartInv, MultipartTypeOK, RequestType
<1>2. mreq[r] \in CompleteRequest
  BY <1>1, RequestKinds DEF CompletePcs
<1>3. CASE Finish(r, "failed")
  <2>1. Elsewhere(r)
    BY <1>1, <1>3, FinishedIsElsewhere DEF Finished
  <2>. QED
    BY <1>1, <2>1, OthersKeep, MoveIsQuiet DEF Elsewhere
<1>4. CASE mreq' = [mreq EXCEPT ![r] = e]
  <2> HIDE DEF every
  <2>2. e.pc \notin PartPcs
    BY <1>2 DEF CompleteRequest, PartPcs
  <2> HIDE DEF e
  <2>3. Elsewhere(r)
    BY <1>1, <1>4, <2>2, ReplacedIsElsewhere
  <2>. QED
    BY <1>1, <2>3, OthersKeep, MoveIsQuiet DEF Elsewhere
<1>. QED
  BY <1>3, <1>4 DEF ListParts

\* A completion opens the file of a part.
LEMMA OpenPartQuiet ==
  ASSUME MultipartInv, NEW r \in Requests, OpenPart(r)
  PROVE  QuietStep
<1> DEFINE want == NextPart(r)
           file == partFiles[mreq[r].upload][want.number]
           rest == IF mreq[r].list = <<>> THEN mreq[r].list ELSE Tail(mreq[r].list)
           left == mreq[r].all \ {want.number}
           body == mreq[r].body \o file
           e == [mreq[r] EXCEPT !.list = rest, !.all = left, !.body = body]
<1>1. /\ RequestType /\ mreq[r].pc = "open"
      /\ UNCHANGED <<repoVars, partFiles, issued, torn>>
  BY DEF OpenPart, partVars, MultipartInv, MultipartTypeOK, RequestType
<1>2. mreq[r] \in CompleteRequest
  BY <1>1, RequestKinds DEF CompletePcs
<1>3. CASE Acceptable(mreq[r].saved, want) /\ file # None
  <2>1. mreq' = [mreq EXCEPT ![r] = e]
    BY <1>1, <1>3 DEF OpenPart, RequestType
  <2> HIDE DEF rest, left, body
  <2>2. e.pc \notin PartPcs
    BY <1>1, <1>2 DEF CompleteRequest, PartPcs
  <2> HIDE DEF e
  <2>3. Elsewhere(r)
    BY <1>1, <2>1, <2>2, ReplacedIsElsewhere
  <2>. QED
    BY <1>1, <2>3, OthersKeep, MoveIsQuiet DEF Elsewhere
<1>4. CASE ~(Acceptable(mreq[r].saved, want) /\ file # None)
  <2>1. Finish(r, "failed")
    BY <1>4 DEF OpenPart
  <2>2. Elsewhere(r)
    BY <1>1, <2>1, FinishedIsElsewhere DEF Finished
  <2>. QED
    BY <1>1, <2>2, OthersKeep, MoveIsQuiet DEF Elsewhere
<1>. QED
  BY <1>3, <1>4

\* A completion stores the object and turns to removing the upload.
LEMMA AssembleQuiet ==
  ASSUME MultipartInv, NEW r \in Requests,
         OpenedAll(r) \/ PutAssembled(r) \/ UpsertAssembled(r)
  PROVE  QuietStep
<1> DEFINE e == [pc |-> "forget", upload |-> mreq[r].upload, solo |-> mreq[r].solo]
<1>1. /\ RequestType /\ mreq[r].pc \in CompletePcs
      /\ UNCHANGED <<uploads, parts, partFiles, issued, torn>>
  BY DEF OpenedAll, PutAssembled, UpsertAssembled, UpsertObject, repoVars, partVars,
     CompletePcs, MultipartInv, MultipartTypeOK, RequestType
<1>2. Elsewhere(r)
  <2>1. \/ \E pc \in CompletePcs : Goto(r, pc)
        \/ \E outcome \in Finished : Finish(r, outcome)
        \/ mreq' = [mreq EXCEPT ![r] = e]
    BY DEF OpenedAll, PutAssembled, UpsertAssembled, CompletePcs, Finished
  <2>2. ASSUME NEW pc \in CompletePcs, Goto(r, pc)
        PROVE  Elsewhere(r)
    BY <1>1, <2>2, GotoOnward, PcsAreDisjoint DEF OneMoves, Elsewhere
  <2>3. e.pc \notin PartPcs
    BY DEF PartPcs
  <2> HIDE DEF e
  <2>. QED
    BY <1>1, <2>1, <2>2, <2>3, FinishedIsElsewhere, ReplacedIsElsewhere
<1>3. \A q \in Requests : Keeps(q)
  BY <1>1, <1>2, OthersKeep DEF CompletePcs, Elsewhere
<1>. QED
  BY <1>1, <1>3 DEF QuietStep, UploadExists

\* An upload is forgotten, or not, and its directory removed file by file.
LEMMA DropSteps ==
  ASSUME MultipartInv, NEW r \in Requests,
         ForgetUpload(r) \/ ScanUploadDir(r) \/ SweepUploadDir(r)
  PROVE  \/ QuietStep
         \/ \E u \in UploadIds : ForgetsInVain(u)
         \/ \E u \in UploadIds, n \in PartNumbers : TearsOut(u, n)
<1>1. /\ RequestType /\ mreq[r].pc \in DropPcs /\ issued' = issued
      /\ PartStore!StoreTypeOK
  BY DEF ForgetUpload, ScanUploadDir, SweepUploadDir, DropPcs,
     MultipartInv, MultipartTypeOK, RequestType
<1>2. PICK u \in UploadIds : u = mreq[r].upload
  BY <1>1, RequestKinds DEF DropRequest
<1>3. \A q \in Requests : Keeps(q)
  <2>1. CASE UNCHANGED mreq
    BY <2>1 DEF Keeps
  <2>2. CASE (\E pc \in DropPcs : Goto(r, pc)) \/ \E outcome \in Finished : Finish(r, outcome)
    <3>1. OneMoves(r)
      BY <1>1, <2>2, GotoOnward, FinishOnward
    <3>. QED
      BY <3>1, OnwardKeeps
  <2>. QED
    BY <2>1, <2>2 DEF ForgetUpload, ScanUploadDir, SweepUploadDir, DropPcs, Finished
<1>4. CASE ForgetUpload(r)
  <2>1. partFiles' = partFiles
    BY <1>4 DEF ForgetUpload, partVars
  <2>2. CASE DeleteMultipartUpload(u) /\ UNCHANGED torn
    <3>1. \A v \in UploadIds : uploads'[v] # None => UploadExists(v) /\ parts'[v] = parts[v]
      BY <2>2 DEF DeleteMultipartUpload, UploadExists, MultipartInv, RepoInv, RepoTypeOK
    <3>2. QuietStep
      BY <1>1, <1>3, <2>1, <2>2, <3>1 DEF QuietStep
    <3>. QED
      BY <3>2
  <2>3. CASE torn' = torn \cup {u} /\ UNCHANGED repoVars
    <3>1. /\ mreq[r].pc \notin PartPcs /\ mreq'[r].pc \notin PartPcs
          /\ \A q \in Requests \ {r} : mreq'[q] = mreq[q]
      BY <1>1, <1>4, GotoType DEF ForgetUpload, DropPcs, PartPcs
    <3>2. Sending' = Sending
      BY <3>1 DEF Sending
    <3>3. ForgetsInVain(u)
      BY <1>1, <2>1, <2>3, <3>2 DEF ForgetsInVain
    <3>. QED
      BY <3>3
  <2>. QED
    BY <1>2, <1>4, <2>2, <2>3 DEF ForgetUpload
<1>5. CASE ScanUploadDir(r)
  <2>1. UNCHANGED <<repoVars, partFiles, torn>>
    BY <1>5 DEF ScanUploadDir, PartStore!StartSweep, PartStore!SweepNoop, PartStore!storeVars
  <2>. QED
    BY <1>1, <1>3, <2>1, MoveIsQuiet
<1>6. CASE SweepUploadDir(r)
  <2>1. /\ UNCHANGED <<repoVars, torn>> /\ (~UploadExists(u) \/ u \in torn)
        /\ partSweeps[r] # None /\ partSweeps[r].dir \in {None, u}
    BY <1>2, <1>6 DEF SweepUploadDir, MultipartInv, DroppedIsGone, SweepsOwnDir
  <2>2. CASE partFiles' = partFiles
    BY <1>1, <1>3, <2>1, <2>2, MoveIsQuiet
  <2>3. ASSUME NEW n \in PartNumbers, PartStore!SweepFile(r, n), partFiles' # partFiles
        PROVE  QuietStep \/ TearsOut(u, n)
    <3>1. partFiles' = [partFiles EXCEPT ![u][n] = None]
      BY <2>1, <2>3 DEF PartStore!SweepFile
    <3>2. /\ partFiles'[u][n] = None
          /\ \A v \in UploadIds, m \in PartNumbers :
               v # u \/ m # n => partFiles'[v][m] = partFiles[v][m]
      BY <1>1, <3>1 DEF PartStore!StoreTypeOK
    <3>3. UNCHANGED <<uploads, parts>>
      BY <2>1 DEF repoVars
    <3>4. CASE u \in torn
      BY <1>1, <1>3, <2>1, <3>2, <3>4 DEF TearsOut
    <3>5. CASE ~UploadExists(u)
      BY <1>1, <1>3, <2>1, <3>2, <3>3, <3>5 DEF QuietStep, UploadExists
    <3>. QED
      BY <2>1, <3>4, <3>5
  <2>4. (\E n \in PartNumbers : PartStore!SweepFile(r, n)) \/ partFiles' = partFiles
    BY <1>6 DEF SweepUploadDir, PartStore!SweepTemp, PartStore!RemoveDir, PartStore!RemoveDirFails
  <2>. QED
    BY <2>2, <2>3, <2>4
<1>. QED
  BY <1>4, <1>5, <1>6

\* Buckets come and go with the uploads in them, and so does the process, with its
\* requests, or nothing happens.
LEMMA BucketQuiet ==
  ASSUME BucketRequest \/ Restart \/ UNCHANGED multipartVars
  PROVE  QuietStep
<1>1. \A q \in Requests : mreq' = mreq => Keeps(q)
  BY DEF Keeps
<1>2. CASE UNCHANGED multipartVars
  BY <1>1, <1>2, MoveIsQuiet DEF multipartVars, partVars
<1>3. CASE BucketRequest
  <2>1. UNCHANGED <<partVars, issued, mreq, torn>>
    BY <1>3 DEF BucketRequest
  <2>2. \A u \in UploadIds : uploads'[u] # None => UploadExists(u) /\ parts'[u] = parts[u]
    <3>1. ASSUME NEW b \in Buckets, CreateBucket(b, Private) \/ DeleteBucket(b)
          PROVE  UNCHANGED <<uploads, parts>>
      BY <3>1 DEF CreateBucket, DeleteBucket
    <3>2. ASSUME NEW b \in Buckets, DeleteBucketRecursive(b), NEW u \in UploadIds, uploads'[u] # None
          PROVE  UploadExists(u) /\ parts'[u] = parts[u]
      BY <3>2 DEF DeleteBucketRecursive, UploadExists
    <3>3. ASSUME NEW old \in Buckets, NEW new \in Buckets, RenameBucketTo(old, new, Private),
                 NEW u \in UploadIds, uploads'[u] # None
          PROVE  UploadExists(u) /\ parts'[u] = parts[u]
      BY <3>3 DEF RenameBucketTo, UploadExists, UploadsOf
    <3>. QED
      BY <1>3, <3>1, <3>2, <3>3 DEF BucketRequest, UploadExists
  <2>. QED
    BY <1>1, <2>1, <2>2 DEF QuietStep, partVars
<1>4. CASE Restart
  <2>1. \A q \in Requests : Keeps(q)
    BY <1>4 DEF Restart, Keeps, PartPcs
  <2>2. \A u \in UploadIds : uploads'[u] # None => UploadExists(u) /\ parts'[u] = parts[u]
    BY <1>4 DEF Restart, ForgetTables, repoVars, UploadExists
  <2>3. UNCHANGED <<partFiles, issued, torn>>
    BY <1>4 DEF Restart, PartStore!LoseRequests
  <2>. QED
    BY <2>1, <2>2, <2>3 DEF QuietStep
<1>. QED
  BY <1>2, <1>3, <1>4

(***************************************************************************)
(* Steps that are not quiet.                                               *)
(***************************************************************************)

\* A part upload that arrives leaves what the others send alone.
LEMMA BeginPartKeeps ==
  ASSUME RequestType, NEW r \in Requests, NEW u \in UploadIds, NEW n \in PartNumbers,
         NEW body \in Bodies, BeginPart(r, u, n, body)
  PROVE  /\ mreq[r].pc \in Finished
         /\ mreq'[r].pc = "begin" /\ mreq'[r].upload = u
         /\ mreq'[r].number = n /\ mreq'[r].body = body
         /\ \A q \in Requests \ {r} :
              /\ mreq'[q].pc = mreq[q].pc
              /\ mreq[q].pc \in PartPcs =>
                   /\ mreq'[q].upload = mreq[q].upload
                   /\ mreq'[q].number = mreq[q].number
                   /\ mreq'[q].body = mreq[q].body
<1>1. ASSUME NEW q \in Requests \ {r}
      PROVE  /\ mreq'[q].pc = mreq[q].pc
             /\ mreq[q].pc \in PartPcs =>
                  /\ mreq'[q].upload = mreq[q].upload
                  /\ mreq'[q].number = mreq[q].number
                  /\ mreq'[q].body = mreq[q].body
  <2> DEFINE busy == PartPcs \cup CompletePcs \cup DropPcs
             e == [mreq[q] EXCEPT !.solo = FALSE]
  <2>1. mreq'[q] = mreq[q] \/ (mreq[q].pc \in busy /\ mreq'[q] = e)
    BY DEF BeginPart, Uploading, Completing, Dropping
  <2>2. mreq[q].pc \in busy => e.pc = mreq[q].pc
    BY RequestKinds DEF PartRequest, CompleteRequest, DropRequest
  <2>3. mreq[q].pc \in PartPcs =>
          e.upload = mreq[q].upload /\ e.number = mreq[q].number /\ e.body = mreq[q].body
    BY RequestKinds DEF PartRequest
  <2> HIDE DEF busy, e
  <2>. QED
    BY <2>1, <2>2, <2>3
<1>2. /\ mreq[r].pc \in Finished
      /\ mreq'[r].pc = "begin" /\ mreq'[r].upload = u
      /\ mreq'[r].number = n /\ mreq'[r].body = body
  BY DEF BeginPart
<1>. QED
  BY <1>1, <1>2

\* What a part upload does when it puts its file in place.
LEMMA PublishPartFacts ==
  ASSUME MultipartInv, TruthInv, NEW r \in Requests, PublishPart(r)
  PROVE  /\ UNCHANGED <<repoVars, issued, torn>>
         /\ mreq[r].upload \in UploadIds /\ mreq[r].number \in PartNumbers
         /\ mreq[r].upload \in issued /\ mreq[r].body \in Bodies
         /\ mreq[r].pc = "publish" /\ OneMoves(r)
         /\ \/ QuietStep
            \/ /\ mreq'[r].pc = "save"
               /\ mreq'[r].upload = mreq[r].upload
               /\ mreq'[r].number = mreq[r].number
               /\ mreq'[r].body = mreq[r].body
               /\ partFiles' = [partFiles EXCEPT ![mreq[r].upload][mreq[r].number] = mreq[r].body]
<1> DEFINE u == mreq[r].upload
           n == mreq[r].number
<1>1. /\ RequestType /\ mreq[r].pc = "publish"
      /\ UNCHANGED <<repoVars, issued, torn>>
  BY DEF PublishPart, MultipartInv, MultipartTypeOK, RequestType
<1>2. mreq[r] \in PartRequest /\ BodyOnItsWay(r)
  BY <1>1, RequestKinds DEF PartPcs, TruthInv
<1>3. u \in UploadIds /\ n \in PartNumbers /\ u \in issued /\ mreq[r].body \in Bodies
  BY <1>1, <1>2 DEF PartRequest, BodyOnItsWay, PartPcs, MultipartInv, UsedIdsIssued, Finished
<1>4. CASE PartStore!Publish(r, u, n) /\ Goto(r, "save")
  <2>1. /\ partTemps[r] # None
        /\ partFiles' = [partFiles EXCEPT ![u][n] = partTemps[r].data]
    BY <1>4 DEF PartStore!Publish, PartStore!TempInPlace, PartStore!TempsIn
  <2>2. partTemps[r].data = mreq[r].body
    BY <1>1, <1>2, <2>1 DEF BodyOnItsWay
  <2>3. /\ OneMoves(r) /\ mreq'[r].pc = "save"
        /\ mreq'[r].upload = u /\ mreq'[r].number = n /\ mreq'[r].body = mreq[r].body
    BY <1>1, <1>4, GotoOnward DEF PartPcs
  <2>. QED
    BY <1>1, <1>3, <2>1, <2>2, <2>3
<1>5. CASE PartStore!PublishFails(r, u) /\ Finish(r, "failed")
  <2>1. OneMoves(r)
    BY <1>1, <1>5, FinishOnward DEF Finished
  <2>2. partFiles' = partFiles
    BY <1>5 DEF PartStore!PublishFails, PartStore!RemoveTemp
  <2>3. QuietStep
    BY <1>1, <2>1, <2>2, OnwardKeeps, MoveIsQuiet
  <2>. QED
    BY <1>1, <1>3, <2>1, <2>3
<1>. QED
  BY <1>4, <1>5 DEF PublishPart

\* What a part upload does when it records its part, or fails to.
LEMMA SavePartFacts ==
  ASSUME MultipartInv, NEW r \in Requests, SavePart(r)
  PROVE  /\ UNCHANGED <<uploads, partFiles, issued, torn>>
         /\ mreq[r].upload \in UploadIds /\ mreq[r].number \in PartNumbers
         /\ mreq[r].pc = "save" /\ mreq'[r].pc \in Finished /\ OneMoves(r)
         /\ \A v \in UploadIds, m \in PartNumbers :
              UploadExists(v) => IF v = mreq[r].upload /\ m = mreq[r].number
                                 THEN parts'[v][m] # None \/ parts' = parts
                                 ELSE parts'[v][m] = parts[v][m]
<1> DEFINE u == mreq[r].upload
           n == mreq[r].number
           etag == ETag(mreq[r].body)
<1>1. /\ RequestType /\ mreq[r].pc = "save"
      /\ UNCHANGED <<uploads, partFiles, issued, torn>>
  BY DEF SavePart, SaveMultipartPart, repoVars, partVars, MultipartInv, MultipartTypeOK, RequestType
<1>2. mreq[r] \in PartRequest
  BY <1>1, RequestKinds DEF PartPcs
<1>3. u \in UploadIds /\ n \in PartNumbers /\ etag \in ETags
  BY <1>2 DEF PartRequest, ETag, ETags
<1>4. OneMoves(r) /\ mreq'[r].pc \in Finished
  <2>1. \E outcome \in Finished : Finish(r, outcome)
    BY DEF SavePart, Finished
  <2>. QED
    BY <1>1, <2>1, FinishOnward
<1>5. CASE SaveMultipartPart(u, n, etag)
  <2> HIDE DEF etag
  <2>1. /\ UploadExists(u) /\ parts[u] # None
        /\ parts \in [UploadIds -> PartTables \cup {None}]
    BY <1>3, <1>5 DEF SaveMultipartPart, MultipartInv, RepoInv, PartsFollowUploads, RepoTypeOK
  <2>2. parts' = [parts EXCEPT ![u] = [parts[u] EXCEPT ![n] = etag]]
    BY <1>5, <2>1 DEF SaveMultipartPart
  <2>3. parts[u] \in PartTables
    BY <1>3, <2>1
  <2>4. /\ parts'[u][n] = etag
        /\ \A m \in PartNumbers \ {n} : parts'[u][m] = parts[u][m]
        /\ \A v \in UploadIds \ {u} : parts'[v] = parts[v]
    BY <1>3, <2>1, <2>2, <2>3 DEF PartTables
  <2>5. etag # None
    BY <1>3, SentinelAssumption
  <2>. QED
    BY <1>1, <1>3, <1>4, <2>4, <2>5
<1>6. CASE UNCHANGED repoVars
  <2>1. parts' = parts
    BY <1>6 DEF repoVars
  <2>. QED
    BY <1>1, <1>3, <1>4, <1>6, <2>1
<1>. QED
  BY <1>5, <1>6 DEF SavePart

\* Which steps are quiet.
LEMMA ActionKinds ==
  ASSUME MultipartInv, [MultipartNext]_multipartVars
  PROVE  \/ QuietStep
         \/ \E u \in UploadIds : CreateUpload(u) \/ ForgetsInVain(u)
         \/ \E u \in UploadIds, n \in PartNumbers : TearsOut(u, n)
         \/ \E r \in Requests, u \in UploadIds, n \in PartNumbers, body \in Bodies :
              BeginPart(r, u, n, body)
         \/ \E r \in Requests : PublishPart(r) \/ SavePart(r)
<1>1. ASSUME NEW r \in Requests, ClientStep(r)
      PROVE  \/ QuietStep
             \/ \E u \in UploadIds, n \in PartNumbers, body \in Bodies : BeginPart(r, u, n, body)
  BY <1>1, BeginDropQuiet, WriteQuiet DEF ClientStep
<1>2. ASSUME NEW r \in Requests, ServerStep(r)
      PROVE  \/ QuietStep \/ PublishPart(r) \/ SavePart(r)
             \/ \E u \in UploadIds : ForgetsInVain(u)
             \/ \E u \in UploadIds, n \in PartNumbers : TearsOut(u, n)
  BY <1>2, WriteQuiet, ListPartsQuiet, OpenPartQuiet, AssembleQuiet, DropSteps DEF ServerStep
<1>3. CASE BucketRequest \/ Restart \/ UNCHANGED multipartVars
  BY <1>3, BucketQuiet
<1>. QED
  BY <1>1, <1>2, <1>3 DEF MultipartNext, RunningNext

\* Every step keeps the files to uploads that were issued: one is only put in
\* place for an upload that was there when its request came.
LEMMA FilesIssuedNext ==
  ASSUME MultipartInv, TruthInv, FilesAreIssued, [MultipartNext]_multipartVars
  PROVE  FilesAreIssued'
<1>1. CASE QuietStep
  BY <1>1 DEF QuietStep, FilesAreIssued
<1>2. ASSUME NEW u \in UploadIds, CreateUpload(u) PROVE FilesAreIssued'
  BY <1>2 DEF CreateUpload, partVars, FilesAreIssued
<1>3. ASSUME NEW u \in UploadIds, ForgetsInVain(u) PROVE FilesAreIssued'
  BY <1>3 DEF ForgetsInVain, FilesAreIssued
<1>4. ASSUME NEW u \in UploadIds, NEW n \in PartNumbers, TearsOut(u, n)
      PROVE  FilesAreIssued'
  BY <1>4 DEF TearsOut, FilesAreIssued
<1>5. ASSUME NEW r \in Requests, NEW u \in UploadIds, NEW n \in PartNumbers,
             NEW body \in Bodies, BeginPart(r, u, n, body)
      PROVE  FilesAreIssued'
  BY <1>5 DEF BeginPart, partVars, FilesAreIssued
<1>6. ASSUME NEW r \in Requests, PublishPart(r), ~QuietStep PROVE FilesAreIssued'
  <2>1. /\ issued' = issued /\ mreq[r].upload \in issued
        /\ mreq[r].upload \in UploadIds /\ mreq[r].number \in PartNumbers
        /\ partFiles' = [partFiles EXCEPT ![mreq[r].upload][mreq[r].number] = mreq[r].body]
    BY <1>6, PublishPartFacts
  <2>. QED
    BY <2>1 DEF FilesAreIssued, MultipartInv, MultipartTypeOK, PartStore!StoreTypeOK
<1>7. ASSUME NEW r \in Requests, SavePart(r) PROVE FilesAreIssued'
  <2>1. UNCHANGED <<partFiles, issued>>
    BY <1>7, SavePartFacts
  <2>. QED
    BY <2>1 DEF FilesAreIssued
<1>. QED
  BY <1>1, <1>2, <1>3, <1>4, <1>5, <1>6, <1>7, ActionKinds

\* A part file is always that of an upload that was created, so that an upload
\* starts without parts, whatever was left on disk of those before it.
THEOREM FilesAreAlwaysIssued == MultipartSpec => []FilesAreIssued
<1>1. MultipartInit => FilesAreIssued
  BY DEF MultipartInit, PartStore!StoreInit, PartStore!NoFiles, FilesAreIssued
<1>2. MultipartInv /\ TruthInv /\ FilesAreIssued /\ [MultipartNext]_multipartVars
        => FilesAreIssued'
  BY FilesIssuedNext
<1>. QED
  BY <1>1, <1>2, MultipartInvariant, TruthInvariant, PTL DEF MultipartSpec

(***************************************************************************)
(* Every step is one of the abstract uploads, or changes none of them.      *)
(***************************************************************************)

OpenUploads  == {u \in UploadIds : UploadExists(u)}
PartContents == [u \in UploadIds |-> [n \in PartNumbers |-> ContentOf(u, n)]]
Sent         == Sending \cup Unlisted

\* Part n of u has a file and is not listed.
IsUnlisted(u, n) == UploadExists(u) /\ parts[u][n] = None /\ partFiles[u][n] # None

\* A step that puts no file in place but one that is being sent, and takes no
\* part off a list, adds nothing to what was sent.
LEMMA SentShrinks ==
  ASSUME \A q \in Requests : Keeps(q),
         \A u \in UploadIds, n \in PartNumbers : IsUnlisted(u, n)' =>
            \/ IsUnlisted(u, n) /\ partFiles'[u][n] = partFiles[u][n]
            \/ <<u, n, partFiles'[u][n]>> \in Sending
  PROVE  Sent' \subseteq Sent
<1>1. Sending' \subseteq Sending
  BY DEF Sending, Keeps
<1>2. ASSUME NEW w \in Unlisted' PROVE w \in Sent
  <2>1. PICK v \in UploadIds \X PartNumbers :
          /\ uploads'[v[1]] # None /\ parts'[v[1]][v[2]] = None
          /\ partFiles'[v[1]][v[2]] # None
          /\ w = <<v[1], v[2], partFiles'[v[1]][v[2]]>>
    BY <1>2 DEF Unlisted, UploadExists
  <2>2. PICK u \in UploadIds, n \in PartNumbers : u = v[1] /\ n = v[2] /\ v = <<u, n>>
    OBVIOUS
  <2>3. IsUnlisted(u, n)' /\ w = <<u, n, partFiles'[u][n]>>
    BY <2>1, <2>2 DEF IsUnlisted, UploadExists
  <2>4. ASSUME IsUnlisted(u, n), partFiles'[u][n] = partFiles[u][n]
        PROVE  w \in Unlisted
    BY <2>2, <2>3, <2>4 DEF Unlisted, IsUnlisted
  <2>. QED
    BY <2>3, <2>4 DEF Sent
<1>. QED
  BY <1>1, <1>2 DEF Sent

\* Nothing to do with what is sent changes.
LEMMA SentStays ==
  ASSUME mreq' = mreq,
         \A u \in UploadIds, n \in PartNumbers :
            /\ IsUnlisted(u, n)' <=> IsUnlisted(u, n)
            /\ partFiles'[u][n] = partFiles[u][n]
  PROVE  Sent' = Sent
<1>1. Sending' = Sending
  BY DEF Sending
<1>2. {v \in UploadIds \X PartNumbers :
          UploadExists(v[1]) /\ parts[v[1]][v[2]] = None /\ partFiles[v[1]][v[2]] # None}' =
      {v \in UploadIds \X PartNumbers :
          UploadExists(v[1]) /\ parts[v[1]][v[2]] = None /\ partFiles[v[1]][v[2]] # None}
  BY DEF IsUnlisted
<1>3. Unlisted' = Unlisted
  BY <1>2 DEF Unlisted
<1>. QED
  BY <1>1, <1>3 DEF Sent

\* A step in which uploads only go, and no part of those that stay changes, is a
\* drop of those that went.
LEMMA AbstractDrop ==
  ASSUME UNCHANGED <<issued, torn>>, Sent' \subseteq Sent,
         \A u \in UploadIds : uploads'[u] # None => UploadExists(u),
         \A u \in UploadIds, n \in PartNumbers :
            uploads'[u] # None => ContentOf(u, n)' = ContentOf(u, n)
  PROVE  Atomic!UploadsNext
<1> DEFINE dropped == OpenUploads \ OpenUploads'
<1>1. OpenUploads' = OpenUploads \ dropped /\ dropped \in SUBSET OpenUploads
  BY DEF OpenUploads, UploadExists
<1>2. PartContents' = [u \in UploadIds |-> IF u \in dropped THEN [n \in PartNumbers |-> None]
                                           ELSE PartContents[u]]
  <2> SUFFICES ASSUME NEW u \in UploadIds
               PROVE  [n \in PartNumbers |-> ContentOf(u, n)'] =
                        IF u \in dropped THEN [n \in PartNumbers |-> None]
                        ELSE [n \in PartNumbers |-> ContentOf(u, n)]
    BY DEF PartContents
  <2>1. CASE uploads'[u] # None
    <3>1. u \notin dropped
      BY <2>1 DEF OpenUploads, UploadExists
    <3>. QED
      BY <2>1, <3>1
  <2>2. CASE uploads'[u] = None
    <3>1. \A n \in PartNumbers : ContentOf(u, n)' = None
      BY <2>2 DEF ContentOf, UploadExists
    <3>2. u \notin dropped => \A n \in PartNumbers : ContentOf(u, n) = None
      BY <2>2 DEF OpenUploads, UploadExists, ContentOf
    <3>. QED
      BY <3>1, <3>2
  <2>. QED
    BY <2>1, <2>2
<1> HIDE DEF dropped
<1>3. Atomic!Drop(dropped)
  BY <1>1, <1>2 DEF Atomic!Drop, OpenUploads, PartContents, Sent
<1>. QED
  BY <1>1, <1>3 DEF Atomic!UploadsNext, OpenUploads

\* A quiet step drops uploads, if it does anything to them.
LEMMA QuietIsDrop ==
  ASSUME QuietStep
  PROVE  Atomic!UploadsNext
<1>1. Sent' \subseteq Sent
  BY SentShrinks DEF QuietStep, IsUnlisted, UploadExists
<1>2. \A u \in UploadIds, n \in PartNumbers :
        uploads'[u] # None => ContentOf(u, n)' = ContentOf(u, n)
  BY DEF QuietStep, ContentOf, UploadExists
<1>. QED
  BY <1>1, <1>2, AbstractDrop DEF QuietStep

\* An upload that cannot be forgotten is damaged from then on, and only such a one
\* loses its parts.
LEMMA TornIsDamaged ==
  ASSUME NEW u \in UploadIds,
         ForgetsInVain(u) \/ \E n \in PartNumbers : TearsOut(u, n)
  PROVE  Atomic!UploadsNext
<1>1. CASE ForgetsInVain(u)
  <2>1. UNCHANGED <<uploads, parts, partFiles, issued>> /\ torn' = torn \cup {u}
    BY <1>1 DEF ForgetsInVain, repoVars
  <2>2. Unlisted' = Unlisted
    BY <2>1 DEF Unlisted, UploadExists
  <2>3. OpenUploads' = OpenUploads /\ PartContents' = PartContents
    BY <2>1 DEF OpenUploads, PartContents, ContentOf, UploadExists
  <2>4. Sent' = Sent
    BY <1>1, <2>2 DEF ForgetsInVain, Sent
  <2>5. Atomic!FailToDrop(u)
    BY <2>1, <2>3, <2>4 DEF Atomic!FailToDrop, OpenUploads, PartContents, Sent
  <2>. QED
    BY <2>5 DEF Atomic!UploadsNext
<1>2. ASSUME NEW n \in PartNumbers, TearsOut(u, n) PROVE Atomic!UploadsNext
  <2>1. UNCHANGED <<uploads, parts, issued, torn>> /\ u \in torn
    BY <1>2 DEF TearsOut, repoVars
  <2>2. Sent' \subseteq Sent
    BY <1>2, <2>1, SentShrinks DEF TearsOut, IsUnlisted, UploadExists
  <2>3. /\ ContentOf(u, n)' = None
        /\ \A v \in UploadIds, m \in PartNumbers :
             v # u \/ m # n => ContentOf(v, m)' = ContentOf(v, m)
    BY <1>2, <2>1 DEF TearsOut, ContentOf, UploadExists
  <2>4. PartContents' = [PartContents EXCEPT ![u][n] = None]
    BY <2>3 DEF PartContents
  <2>5. OpenUploads' = OpenUploads
    BY <2>1 DEF OpenUploads, UploadExists
  <2>6. Atomic!Lose(u, n)
    BY <2>1, <2>2, <2>4, <2>5 DEF Atomic!Lose, OpenUploads, PartContents, Sent
  <2>. QED
    BY <2>6 DEF Atomic!UploadsNext
<1>. QED
  BY <1>1, <1>2

\* A new upload is one that was never used, without parts.
LEMMA CreateIsOpen ==
  ASSUME MultipartInv, FilesAreIssued, NEW u \in UploadIds, CreateUpload(u)
  PROVE  Atomic!UploadsNext
<1>1. PICK b \in Buckets, k \in Keys : CreateMultipartUpload(u, b, k)
  BY DEF CreateUpload
<1>2. u \notin issued /\ issued' = issued \cup {u} /\ UNCHANGED <<partFiles, mreq, torn>>
  BY DEF CreateUpload, partVars
<1>3. /\ uploads'[u] = [bucket |-> b, key |-> k] /\ parts'[u] = NoParts
      /\ \A v \in UploadIds \ {u} : uploads'[v] = uploads[v] /\ parts'[v] = parts[v]
  BY <1>1 DEF CreateMultipartUpload, MultipartInv, RepoInv, RepoTypeOK
<1>4. uploads'[u] # None /\ ~UploadExists(u)
  BY <1>2, <1>3, SentinelAssumption DEF MultipartInv, UsedIdsIssued
<1>5. OpenUploads' = OpenUploads \cup {u}
  BY <1>3, <1>4 DEF OpenUploads, UploadExists
<1>6. PartContents' = PartContents
  <2>1. \A v \in UploadIds, n \in PartNumbers : ContentOf(v, n)' = ContentOf(v, n)
    BY <1>2, <1>3, <1>4 DEF ContentOf, UploadExists, NoParts
  <2>. QED
    BY <2>1 DEF PartContents
<1>7. Sent' = Sent
  <2>1. \A n \in PartNumbers : partFiles[u][n] = None
    BY <1>2 DEF FilesAreIssued
  <2>2. \A v \in UploadIds, n \in PartNumbers : IsUnlisted(v, n)' <=> IsUnlisted(v, n)
    BY <1>2, <1>3, <2>1 DEF IsUnlisted, UploadExists
  <2>. QED
    BY <1>2, <2>2, SentStays
<1>8. Atomic!Open(u)
  BY <1>2, <1>5, <1>6, <1>7 DEF Atomic!Open, OpenUploads, PartContents, Sent
<1>. QED
  BY <1>8 DEF Atomic!UploadsNext

\* An arriving part upload is a client that begins to send.
LEMMA BeginPartIsSend ==
  ASSUME MultipartInv, NEW r \in Requests, NEW u \in UploadIds, NEW n \in PartNumbers,
         NEW body \in Bodies, BeginPart(r, u, n, body)
  PROVE  Atomic!UploadsNext
<1>1. UNCHANGED <<uploads, parts, partFiles, issued, torn>> /\ UploadExists(u)
  BY DEF BeginPart, repoVars, partVars
<1>2. /\ mreq[r].pc \notin PartPcs
      /\ mreq'[r].pc \in PartPcs /\ mreq'[r].upload = u
      /\ mreq'[r].number = n /\ mreq'[r].body = body
      /\ \A q \in Requests \ {r} :
           /\ mreq'[q].pc = mreq[q].pc
           /\ mreq[q].pc \in PartPcs =>
                /\ mreq'[q].upload = mreq[q].upload
                /\ mreq'[q].number = mreq[q].number
                /\ mreq'[q].body = mreq[q].body
  BY BeginPartKeeps, PcsAreDisjoint DEF PartPcs, MultipartInv, MultipartTypeOK, RequestType
<1>3. Sending' = Sending \cup {<<u, n, body>>}
  <2>1. Sending' \subseteq Sending \cup {<<u, n, body>>}
    BY <1>2 DEF Sending
  <2>2. <<u, n, body>> \in Sending'
    BY <1>2 DEF Sending
  <2>3. Sending \subseteq Sending'
    BY <1>2 DEF Sending
  <2>. QED
    BY <2>1, <2>2, <2>3
<1>4. OpenUploads' = OpenUploads /\ PartContents' = PartContents /\ u \in OpenUploads
  BY <1>1 DEF OpenUploads, PartContents, ContentOf, UploadExists
<1>5. Unlisted' = Unlisted
  BY <1>1 DEF Unlisted, UploadExists
<1>6. Atomic!Send(u, n, body)
  BY <1>1, <1>3, <1>4, <1>5 DEF Atomic!Send, OpenUploads, PartContents
<1>. QED
  BY <1>6 DEF Atomic!UploadsNext

\* A file put in place is a listed part that is replaced, or nothing yet.
LEMMA PublishPartIsStore ==
  ASSUME MultipartInv, TruthInv, NEW r \in Requests, PublishPart(r)
  PROVE  Atomic!UploadsNext
<1>1. CASE QuietStep
  BY <1>1, QuietIsDrop
<1>2. CASE ~QuietStep
  <2>0. /\ mreq[r].upload \in UploadIds /\ mreq[r].number \in PartNumbers
        /\ mreq[r].body \in Bodies
        /\ UNCHANGED <<repoVars, issued, torn>> /\ mreq[r].pc = "publish" /\ OneMoves(r)
        /\ partFiles' = [partFiles EXCEPT ![mreq[r].upload][mreq[r].number] = mreq[r].body]
    BY <1>2, PublishPartFacts
  <2>1. PICK u \in UploadIds, n \in PartNumbers, body \in Bodies :
          /\ u = mreq[r].upload /\ n = mreq[r].number /\ body = mreq[r].body
          /\ UNCHANGED <<repoVars, issued, torn>> /\ mreq[r].pc = "publish" /\ OneMoves(r)
          /\ partFiles' = [partFiles EXCEPT ![u][n] = body]
    BY <2>0
  <2>2. /\ partFiles'[u][n] = body
        /\ \A v \in UploadIds, m \in PartNumbers :
             v # u \/ m # n => partFiles'[v][m] = partFiles[v][m]
    BY <2>1 DEF MultipartInv, MultipartTypeOK, PartStore!StoreTypeOK
  <2>3. UNCHANGED <<uploads, parts, issued, torn>> /\ <<u, n, body>> \in Sending
    BY <2>1 DEF repoVars, Sending, PartPcs
  <2>4. Sent' \subseteq Sent
    <3>1. \A q \in Requests : Keeps(q)
      BY <2>1, OnwardKeeps
    <3>2. \A v \in UploadIds, m \in PartNumbers : IsUnlisted(v, m)' =>
            \/ IsUnlisted(v, m) /\ partFiles'[v][m] = partFiles[v][m]
            \/ <<v, m, partFiles'[v][m]>> \in Sending
      BY <2>2, <2>3 DEF IsUnlisted, UploadExists
    <3>. QED
      BY <3>1, <3>2, SentShrinks
  <2>5. CASE UploadExists(u) /\ parts[u][n] # None
    <3>1. /\ ContentOf(u, n)' = body
          /\ \A v \in UploadIds, m \in PartNumbers :
               v # u \/ m # n => ContentOf(v, m)' = ContentOf(v, m)
      BY <2>2, <2>3, <2>5 DEF ContentOf, UploadExists
    <3>2. PartContents' = [PartContents EXCEPT ![u][n] = body]
      BY <3>1 DEF PartContents
    <3>3. <<u, n, body>> \in Sent
      BY <2>3 DEF Sent
    <3>4. OpenUploads' = OpenUploads /\ u \in OpenUploads
      BY <2>3, <2>5 DEF OpenUploads, UploadExists
    <3>5. Atomic!Store(u, n, body)
      BY <2>3, <2>4, <3>2, <3>3, <3>4 DEF Atomic!Store, OpenUploads, PartContents, Sent
    <3>. QED
      BY <3>5 DEF Atomic!UploadsNext
  <2>6. CASE ~(UploadExists(u) /\ parts[u][n] # None)
    <3>1. \A v \in UploadIds, m \in PartNumbers : ContentOf(v, m)' = ContentOf(v, m)
      BY <2>2, <2>3, <2>6 DEF ContentOf, UploadExists
    <3>. QED
      BY <2>3, <2>4, <3>1, AbstractDrop DEF UploadExists
  <2>. QED
    BY <2>5, <2>6
<1>. QED
  BY <1>1, <1>2

\* A part that is listed for the first time is stored, if its file is still there;
\* one that was listed before was stored when its file was put in place.
LEMMA SavePartIsStore ==
  ASSUME MultipartInv, TruthInv, NEW r \in Requests, SavePart(r)
  PROVE  Atomic!UploadsNext
<1>1. PICK u \in UploadIds, n \in PartNumbers :
        /\ u = mreq[r].upload /\ n = mreq[r].number
        /\ UNCHANGED <<uploads, partFiles, issued, torn>>
        /\ mreq[r].pc = "save" /\ OneMoves(r)
        /\ \A v \in UploadIds, m \in PartNumbers :
             UploadExists(v) => IF v = u /\ m = n THEN parts'[v][m] # None \/ parts' = parts
                                ELSE parts'[v][m] = parts[v][m]
  BY SavePartFacts
<1>2. Sent' \subseteq Sent
  <2>1. \A q \in Requests : Keeps(q)
    BY <1>1, OnwardKeeps
  <2>2. \A v \in UploadIds, m \in PartNumbers : IsUnlisted(v, m)' =>
            IsUnlisted(v, m) /\ partFiles'[v][m] = partFiles[v][m]
    BY <1>1 DEF IsUnlisted, UploadExists
  <2>. QED
    BY <2>1, <2>2, SentShrinks
<1>3. CASE IsUnlisted(u, n) /\ parts'[u][n] # None
  <2>1. PICK body \in Bodies : body = partFiles[u][n]
    BY <1>3 DEF IsUnlisted, TruthInv, PartsAreWhole
  <2>2. <<u, n, body>> \in Sent
    <3>1. <<u, n>> \in UploadIds \X PartNumbers
      OBVIOUS
    <3>2. <<u, n, body>> \in Unlisted
      BY <1>3, <2>1, <3>1 DEF Unlisted, IsUnlisted
    <3>. QED
      BY <3>2 DEF Sent
  <2>3. /\ ContentOf(u, n)' = body
        /\ \A v \in UploadIds, m \in PartNumbers :
             v # u \/ m # n => ContentOf(v, m)' = ContentOf(v, m)
    BY <1>1, <1>3, <2>1 DEF IsUnlisted, ContentOf, UploadExists
  <2>4. PartContents' = [PartContents EXCEPT ![u][n] = body]
    BY <2>3 DEF PartContents
  <2>5. OpenUploads' = OpenUploads /\ u \in OpenUploads
    BY <1>1, <1>3 DEF IsUnlisted, OpenUploads, UploadExists
  <2>6. Atomic!Store(u, n, body)
    BY <1>1, <1>2, <2>2, <2>4, <2>5 DEF Atomic!Store, OpenUploads, PartContents, Sent
  <2>. QED
    BY <2>6 DEF Atomic!UploadsNext
<1>4. CASE ~(IsUnlisted(u, n) /\ parts'[u][n] # None)
  <2>1. \A v \in UploadIds, m \in PartNumbers : ContentOf(v, m)' = ContentOf(v, m)
    BY <1>1, <1>4 DEF IsUnlisted, ContentOf, UploadExists
  <2>. QED
    BY <1>1, <1>2, <2>1, AbstractDrop DEF UploadExists
<1>. QED
  BY <1>3, <1>4

\* Through all the system calls and table updates of its handlers, and calls that
\* fail and restarts between them, the multipart uploads of the server are the
\* abstract ones: a listed part changes at once and only to a body that was sent
\* for it, an upload goes at once with all its parts, its id is never used again,
\* and only one that a removal could not forget loses its parts one by one.
THEOREM UploadsAlwaysAtomic == MultipartSpec => UploadsAreAtomic
<1>1. MultipartInit => Atomic!UploadsInit
  <2> SUFFICES ASSUME MultipartInit PROVE Atomic!UploadsInit
    OBVIOUS
  <2>1. issued = {} /\ torn = {} /\ \A u \in UploadIds : ~UploadExists(u)
    BY DEF MultipartInit, RepoInit, UploadExists
  <2>2. Sending = {}
    BY DEF MultipartInit, Sending, PartPcs
  <2>3. Unlisted = {}
    BY <2>1 DEF Unlisted
  <2>. QED
    BY <2>1, <2>2, <2>3 DEF Atomic!UploadsInit, ContentOf
<1>2. MultipartInv /\ TruthInv /\ FilesAreIssued /\ [MultipartNext]_multipartVars
        => Atomic!UploadsNext
  BY ActionKinds, QuietIsDrop, TornIsDamaged, CreateIsOpen, BeginPartIsSend,
     PublishPartIsStore, SavePartIsStore
<1>3. MultipartInv /\ TruthInv /\ FilesAreIssued /\ [MultipartNext]_multipartVars
        => [Atomic!UploadsNext]_Atomic!uploadsVars
  BY <1>2
<1>. QED
  BY <1>1, <1>3, MultipartInvariant, TruthInvariant, FilesAreAlwaysIssued, PTL
     DEF MultipartSpec, UploadsAreAtomic, Atomic!UploadsSpec
=============================================================================
