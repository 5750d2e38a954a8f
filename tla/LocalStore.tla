----------------------------- MODULE LocalStore -----------------------------
(***************************************************************************)
(* The object half of the local disk backend (internal/storage/local.go):   *)
(* one directory per bucket, one file per object, written by way of a       *)
(* temporary file in the same directory.                                    *)
(*                                                                         *)
(* The backend takes no lock, so every system call is an action of its own  *)
(* and the calls of different requests interleave.  A path is resolved at   *)
(* each call: a request whose bucket directory was moved away meets a       *)
(* missing file.  RemoveAll is the exception: it holds the directory open   *)
(* and follows it wherever it is moved.                                     *)
(*                                                                         *)
(* Subdirectories that keys with slashes make are left out.                 *)
(***************************************************************************)
EXTENDS StoreTypes

CONSTANT Requests   \* the requests in flight, each with one temporary file

VARIABLES
    dirs,     \* the buckets that have a directory under the storage root
    files,    \* files[b][k]: the content of the file at Path(b, k)
    temps,    \* temps[r]: the temporary file of request r
    sweeps    \* sweeps[r]: the directory r is removing and what it has to unlink

storeVars == <<dirs, files, temps, sweeps>>

NoFiles == [k \in Keys |-> None]
Temps   == [dir : Buckets, data : Body]

\* dir is None once the directory that is being removed has no name any more.
Sweeps == [dir : Buckets \cup {None}, keys : SUBSET Keys, temps : SUBSET Requests]

ASSUME StoreSentinelAssumption == None \notin Temps \cup Sweeps \cup Buckets

\* Type invariant of the disk.
StoreTypeOK ==
    /\ dirs   \subseteq Buckets
    /\ files  \in [Buckets -> [Keys -> Body \cup {None}]]
    /\ temps  \in [Requests -> Temps \cup {None}]
    /\ sweeps \in [Requests -> Sweeps \cup {None}]

StoreInit ==
    /\ dirs   = {}
    /\ files  = [b \in Buckets |-> NoFiles]
    /\ temps  = [r \in Requests |-> None]
    /\ sweeps = [r \in Requests |-> None]

FileExists(b, k) == files[b][k] # None
FilesIn(b) == {k \in Keys : FileExists(b, k)}
TempsIn(b) == {r \in Requests : temps[r] # None /\ temps[r].dir = b}

\* The temporary file of r is where r left it.
TempInPlace(r, b) == r \in TempsIn(b)

(***************************************************************************)
(* Put: make the directory and a temporary file, copy the body into it,     *)
(* rename it over the final path.                                           *)
(***************************************************************************)

\* The name is random, so no directory that was read before holds it.
CreateTemp(r, b) ==
    /\ dirs'   = dirs \cup {b}
    /\ temps'  = [temps EXCEPT ![r] = [dir |-> b, data |-> <<>>]]
    /\ sweeps' = [q \in Requests |->
                    IF sweeps[q] = None THEN None
                    ELSE [sweeps[q] EXCEPT !.temps = @ \ {r}]]
    /\ UNCHANGED files

\* The directory may have been made when the disk refuses the temporary file.
CreateTempFails(b) ==
    /\ dirs' = dirs \cup {b}
    /\ UNCHANGED <<files, temps, sweeps>>

\* The copy goes to the open file, whatever became of its name.
CopyBody(r, body) ==
    /\ temps' = IF temps[r] = None THEN temps ELSE [temps EXCEPT ![r].data = body]
    /\ UNCHANGED <<dirs, files, sweeps>>

\* The client goes away, the body is too large or the disk is full.
RemoveTemp(r) ==
    /\ temps' = [temps EXCEPT ![r] = None]
    /\ UNCHANGED <<dirs, files, sweeps>>

Publish(r, b, k) ==
    /\ TempInPlace(r, b)
    /\ files' = [files EXCEPT ![b][k] = temps[r].data]
    /\ temps' = [temps EXCEPT ![r] = None]
    /\ UNCHANGED <<dirs, sweeps>>

\* The rename finds no temporary file: its directory was removed or moved.  A
\* temporary file that moved with its directory stays there and is never read.
PublishFails(r, b) ==
    /\ ~TempInPlace(r, b)
    /\ RemoveTemp(r)

(***************************************************************************)
(* Delete: one unlink, which is content with a missing file.                *)
(***************************************************************************)

UnlinkFile(b, k) ==
    /\ files' = [files EXCEPT ![b][k] = None]
    /\ UNCHANGED <<dirs, temps, sweeps>>

(***************************************************************************)
(* RenameBucket: one rename of the directory.  os.Rename refuses to replace *)
(* a directory, and a bucket that has no directory is left alone.           *)
(***************************************************************************)

MoveDirNoop(old) == old \notin dirs /\ UNCHANGED storeVars

MoveDirFails(old, new) == old \in dirs /\ new \in dirs /\ UNCHANGED storeVars

Renamed(b, old, new) == IF b = old THEN new ELSE b

MoveDir(old, new) ==
    /\ old \in dirs
    /\ new \notin dirs
    /\ dirs'   = (dirs \ {old}) \cup {new}
    /\ files'  = [files EXCEPT ![old] = NoFiles, ![new] = files[old]]
    /\ temps'  = [r \in Requests |->
                    IF temps[r] = None THEN None
                    ELSE [temps[r] EXCEPT !.dir = Renamed(@, old, new)]]
    /\ sweeps' = [r \in Requests |->
                    IF sweeps[r] = None THEN None
                    ELSE [sweeps[r] EXCEPT !.dir = Renamed(@, old, new)]]

(***************************************************************************)
(* DeleteBucket (os.RemoveAll): read the directory, unlink what was read,   *)
(* remove the directory if nothing else has come into it.                   *)
(***************************************************************************)

SweepNoop(b) == b \notin dirs /\ UNCHANGED storeVars

\* Mutant: os.Remove in place of os.RemoveAll.
StartSweepEmptyOnly(r, b) ==
    /\ b \in dirs
    /\ sweeps' = [sweeps EXCEPT ![r] = [dir |-> b, keys |-> {}, temps |-> {}]]
    /\ UNCHANGED <<dirs, files, temps>>

StartSweep(r, b) ==
    /\ b \in dirs
    /\ sweeps' = [sweeps EXCEPT ![r] =
                    [dir |-> b, keys |-> FilesIn(b), temps |-> TempsIn(b)]]
    /\ UNCHANGED <<dirs, files, temps>>

\* A name that is gone by now is skipped; the last one that has come is taken.
SweepFile(r, k) ==
    /\ k \in sweeps[r].keys
    /\ sweeps' = [sweeps EXCEPT ![r].keys = @ \ {k}]
    /\ files'  = IF sweeps[r].dir = None THEN files
                 ELSE [files EXCEPT ![sweeps[r].dir][k] = None]
    /\ UNCHANGED <<dirs, temps>>

SweepTemp(r, q) ==
    /\ q \in sweeps[r].temps
    /\ sweeps' = [sweeps EXCEPT ![r].temps = @ \ {q}]
    /\ temps'  = IF sweeps[r].dir # None /\ TempInPlace(q, sweeps[r].dir)
                 THEN [temps EXCEPT ![q] = None] ELSE temps
    /\ UNCHANGED <<dirs, files>>

SweptAll(r) == sweeps[r].keys = {} /\ sweeps[r].temps = {}

\* The directory is removed by name: it may be gone, or another by now.  Any
\* other request that is removing the same directory is left with no name.
RemoveDir(r, b) ==
    /\ SweptAll(r)
    /\ FilesIn(b) = {} /\ TempsIn(b) = {}
    /\ dirs' = dirs \ {b}
    /\ sweeps' = [q \in Requests |->
                    IF q = r \/ sweeps[q] = None THEN None
                    ELSE [sweeps[q] EXCEPT !.dir = IF @ = b THEN None ELSE @]]
    /\ UNCHANGED <<files, temps>>

RemoveDirFails(r, b) ==
    /\ SweptAll(r)
    /\ FilesIn(b) # {} \/ TempsIn(b) # {}
    /\ sweeps' = [sweeps EXCEPT ![r] = None]
    /\ UNCHANGED <<dirs, files, temps>>

(***************************************************************************)
(* A process that ends leaves its files; what it was writing or removing    *)
(* is forgotten (temporary files stay on disk and are never read).          *)
(***************************************************************************)

LoseRequests ==
    /\ temps'  = [r \in Requests |-> None]
    /\ sweeps' = [r \in Requests |-> None]
    /\ UNCHANGED <<dirs, files>>
=============================================================================
