--------------------------- MODULE MCObjectService ---------------------------
(***************************************************************************)
(* Small instances of the object handlers for TLC.  Requests that differ    *)
(* only in their identity are interchangeable (they are never chosen by     *)
(* CHOOSE), so safety runs use symmetry; liveness runs do not.              *)
(***************************************************************************)
EXTENDS RangedRead, TLC

CONSTANTS x, y   \* two fragments of content

MCFragments == {x, y}
TwoBodies == {<<x>>, <<y, x>>}
OneBody == {<<x, y>>}

\* Every header with numbers up to one past the larger of two bodies.  What a
\* header of another kind has in place of first or last is never read.
ShortHeaders ==
    [kind : {"closed"}, first : 0 .. 3, last : -1 .. 3]
        \cup [kind : {"open"}, first : 0 .. 3, last : {0}]
        \cup [kind : {"suffix"}, first : {0}, last : -1 .. 3]

RequestSymmetry == Permutations(Requests)
=============================================================================
