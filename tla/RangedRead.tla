------------------------------ MODULE RangedRead ------------------------------
(***************************************************************************)
(* Ranges of an object that is being written: getObject of                  *)
(* internal/s3api/service.go works the range out from the size in the       *)
(* metadata, and applies it to the file that it opens afterwards.           *)
(*                                                                         *)
(* Which file that is, and who has written it, is in ObjectService.  What   *)
(* getObject sends of it is a function of the header, of obj.Size and of    *)
(* the file, and headers are told apart by nothing else: so every header    *)
(* is asked of every answer.  publicObject answers likewise when it cannot  *)
(* serve the physical path (http.ServeContent has ranges of its own).       *)
(***************************************************************************)
EXTENDS ObjectService, ByteRange, FiniteSets

CONSTANT Asks   \* the Range headers that clients send

ASSUME AsksAssumption == Asks \subseteq Headers

\* obj.Size: of the body that obj.ETag is of, in fragments.
Size(obj) == Len(obj.etag.md5)

\* Content-Length.  A header that ParseRange refuses is no header.
Length(h, size) == IF Partial(h, size) THEN End(h, size) - Start(h, size) + 1 ELSE size

\* Mutant: nothing limits what is read.
CopiedToEnd(h, size, found) == {i \in 0 .. found - 1 : Partial(h, size) => Start(h, size) <= i}

\* Seek to the start and read no more than the length, of a file of size found.
Copied(h, size, found) ==
    {i \in 0 .. found - 1 :
        Partial(h, size) => Start(h, size) <= i /\ i < Start(h, size) + Length(h, size)}

\* The positions of its file that request r has copied to the response.
Sent(r, h) == Copied(h, Size(req[r].entry), Len(req[r].body))

(***************************************************************************)
(* Properties                                                              *)
(***************************************************************************)

\* The header selects something of an object of this size, and its last byte, if
\* it names one, is in the object (the code does not clamp it).
Selects(h, size) ==
    Formed(h) /\ Asked(h, size) # {} /\ (h.kind = "closed" => h.last < size)

\* Every answer of getObject is made of the positions that were asked for, of
\* those that its file has, and as many as Content-Length announced unless a
\* write of the object came between the metadata and the file; a range never has
\* more.  This is so for suffixes longer than the object, open ends, the first
\* and the last byte.
RangesAreAnswered ==
    \A r \in Requests, h \in Asks :
        req[r].pc = "answered" /\ req[r].op = "get" =>
            LET size == Size(req[r].entry)
                file == 0 .. Len(req[r].body) - 1
            IN  /\ Sent(r, h) = IF Selects(h, size) THEN Asked(h, size) \cap file ELSE file
                /\ req[r].solo => Cardinality(Sent(r, h)) = Length(h, size)
                /\ Selects(h, size) => Cardinality(Sent(r, h)) <= Length(h, size)
=============================================================================
