------------------------------- MODULE MCHybrid -------------------------------
(***************************************************************************)
(* A small instance of the two stores for TLC: one key, which goes to the   *)
(* NAS while there is one and to the local disk while there is none, in     *)
(* each of two buckets.  Bucket names are never chosen by CHOOSE.           *)
(***************************************************************************)
EXTENDS Hybrid, TLC

CONSTANTS x, y   \* two fragments of content

MCFragments == {x, y}
TwoBodies == {<<x>>, <<y>>}

\* No handler here reads PhysicalPath: states that differ in nothing else are one.
WithoutPaths ==
    <<buckets, [b \in Buckets |-> [k \in Keys |->
        IF ObjectExists(b, k) THEN objects[b][k].etag ELSE None]],
      disks, nas, req, suspect, left, half>>

NameSymmetry == Permutations(Buckets) \cup Permutations({x, y})
=============================================================================
