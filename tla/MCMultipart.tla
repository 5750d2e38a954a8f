----------------------------- MODULE MCMultipart -----------------------------
(***************************************************************************)
(* Small instances of the multipart handlers for TLC.                       *)
(***************************************************************************)
EXTENDS Multipart, TLC

CONSTANTS x, y   \* two fragments of content

MCFragments == {x, y}
TwoBodies == {<<x>>, <<y>>}
OneBody == {<<x>>}

AnyETag(n) == [number |-> n, etag |-> None]
Exact(n, body) == [number |-> n, etag |-> ETag(body)]

\* Two parts out of order, one of them with its ETag; or everything saved.
OneList == {<<Exact(2, <<x>>), AnyETag(1)>>}
AllSaved == {<<>>}

\* With a database no action reads the table of objects, nor does it matter to
\* the parts what a completion has put together so far.
WithoutObjects ==
    <<buckets, uploads, parts, partVars, issued, racy, torn,
      [r \in Requests |-> IF mreq[r].pc \in CompletePcs
                          THEN [mreq[r] EXCEPT !.body = <<>>] ELSE mreq[r]]>>

RequestAndBucketSymmetry == Permutations(Requests) \cup Permutations(Buckets)
=============================================================================
