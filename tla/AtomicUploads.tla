---------------------------- MODULE AtomicUploads ----------------------------
(***************************************************************************)
(* What a client may rely on about multipart uploads, without files,        *)
(* tables or handlers: an upload holds whole parts, each of them replaced   *)
(* at once and only by a body that a client has sent for that very part; it *)
(* is dropped at once with all its parts; and its id is never used again.   *)
(* Only an upload that somebody tried to drop and could not may lose its    *)
(* parts one by one.  Multipart is shown to implement this.                 *)
(***************************************************************************)
CONSTANTS
    UploadIds,     \* ids of uploads
    PartNumbers,   \* part numbers
    Bodies,        \* the bodies that clients send
    None           \* an absent part

VARIABLES
    used,      \* the ids that have been handed out
    open,      \* the uploads that are open
    part,      \* part[u][n]: the body of part n of upload u
    sending,   \* <<u, n, body>>: a client sends body as part n of u, or sent
               \* it and was not heard
    damaged    \* the uploads that could not be dropped

uploadsVars == <<used, open, part, sending, damaged>>

UploadsInit ==
    /\ used = {}
    /\ open = {}
    /\ part = [u \in UploadIds |-> [n \in PartNumbers |-> None]]
    /\ sending = {}
    /\ damaged = {}

Open(u) ==
    /\ u \notin used
    /\ used' = used \cup {u}
    /\ open' = open \cup {u}
    /\ UNCHANGED <<part, sending, damaged>>

Send(u, n, body) ==
    /\ u \in open
    /\ sending' = sending \cup {<<u, n, body>>}
    /\ UNCHANGED <<used, open, part, damaged>>

\* Whoever sends a body may be done with it at the same time.
Store(u, n, body) ==
    /\ u \in open
    /\ <<u, n, body>> \in sending
    /\ part' = [part EXCEPT ![u][n] = body]
    /\ sending' \subseteq sending
    /\ UNCHANGED <<used, open, damaged>>

StopSending ==
    /\ sending' \subseteq sending
    /\ UNCHANGED <<used, open, part, damaged>>

\* A completion or an abort drops one upload, the removal of a bucket those in
\* it, and the end of the process all of them with the requests it was serving.
Drop(dropped) ==
    /\ open' = open \ dropped
    /\ part' = [u \in UploadIds |-> IF u \in dropped THEN [n \in PartNumbers |-> None]
                                    ELSE part[u]]
    /\ sending' \subseteq sending
    /\ UNCHANGED <<used, damaged>>

FailToDrop(u) ==
    /\ damaged' = damaged \cup {u}
    /\ UNCHANGED <<used, open, part, sending>>

Lose(u, n) ==
    /\ u \in damaged
    /\ part' = [part EXCEPT ![u][n] = None]
    /\ sending' \subseteq sending
    /\ UNCHANGED <<used, open, damaged>>

UploadsNext ==
    \/ \E u \in UploadIds : Open(u)
    \/ \E u \in UploadIds, n \in PartNumbers, body \in Bodies : Send(u, n, body)
    \/ \E u \in UploadIds, n \in PartNumbers, body \in Bodies : Store(u, n, body)
    \/ StopSending
    \/ \E dropped \in SUBSET open : Drop(dropped)
    \/ \E u \in UploadIds : FailToDrop(u)
    \/ \E u \in UploadIds, n \in PartNumbers : Lose(u, n)

UploadsSpec == UploadsInit /\ [][UploadsNext]_uploadsVars
=============================================================================
