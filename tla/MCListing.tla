------------------------------ MODULE MCListing ------------------------------
(***************************************************************************)
(* A small instance of the listings, and of the repository they read, for   *)
(* TLC.  The keys are, in their order, "a  b" (two spaces), "a b" and "a+b":*)
(* all the same when normalised, and a request for the last one is also     *)
(* tried as the second.  Bucket names are never chosen by CHOOSE.           *)
(***************************************************************************)
EXTENDS Listing, TLC

CONSTANT x   \* a fragment of content

MCFragments == {x}
MCBodies == {<<x>>}
MCPrefixes == {Keys}
MCVariants == <<<<1>>, <<2>>, <<3, 2>>>>
MCNormal == <<2, 2, 2>>

\* No method reads PhysicalPath or the key of an upload: states that differ in
\* nothing else are one.
WithoutPaths ==
    <<buckets, [b \in Buckets |-> [k \in Keys |->
        IF ObjectExists(b, k) THEN <<objects[b][k].bucket, objects[b][k].etag>> ELSE None]],
      [u \in UploadIds |-> IF UploadExists(u) THEN uploads[u].bucket ELSE None],
      parts, streams, reader>>

NameSymmetry == Permutations(Buckets)
=============================================================================
