----------------------------- MODULE StoreTypes -----------------------------
(***************************************************************************)
(* The values the metadata repository and the storage backend share         *)
(* (internal/types/types.go, internal/storage/backend.go).                  *)
(*                                                                         *)
(* A body is a sequence of opaque fragments, so that the body a completed   *)
(* multipart upload assembles is the concatenation of the bodies of its     *)
(* parts (io.MultiReader in s3api/service.go).  MD5 is taken to be free of  *)
(* collisions: two bodies have the same ETag only when they are equal.      *)
(***************************************************************************)
EXTENDS Sequences

CONSTANTS
    Fragments,   \* opaque pieces of content
    Bodies,      \* the bodies that clients send
    Buckets,     \* bucket names
    Keys,        \* object keys
    None         \* an absent value

ASSUME BodiesAssumption == Bodies \subseteq Seq(Fragments)

Body == Seq(Fragments)

ASSUME NoneAssumption == None \notin Body

\* hex.EncodeToString(hasher.Sum(nil)) over the bytes that were copied.
ETag(body) == [md5 |-> body]

ETags == [md5 : Body]

\* safeObjectPath: the one file of a bucket and key under the storage root.
Path(b, k) == <<b, k>>

Paths == Buckets \X Keys
=============================================================================
