------------------------------- MODULE Listing -------------------------------
(***************************************************************************)
(* Reading many objects while they change: the pages of ListObjects         *)
(* (internal/meta/memory.go, listObjects of both APIs) and the lookup of a  *)
(* public object by a key that was encoded in one way or another            *)
(* (publicObjectLookup in internal/admin/service.go).                       *)
(*                                                                         *)
(* A reader makes several calls of the repository and holds no lock between *)
(* them: any method may run in between.  Keys are numbers, in the order in  *)
(* which Go compares the strings; 0 is the empty cursor.  A prefix is the   *)
(* set of the keys that begin with it.                                      *)
(***************************************************************************)
EXTENDS Repository, FiniteSetsExt, SequencesExt

CONSTANTS
    KeyPrefixes,    \* the prefixes that readers ask for
    Limits,      \* the page sizes that readers ask for
    MaxPage,     \* the largest page: 1000 in the code
    Variants,    \* Variants[k]: what publicObjectKeyVariants makes of a request for k
    Normal       \* Normal[k]: normalizeObjectKeyForLookup(k)

ASSUME ListingAssumption ==
    /\ Keys \subseteq Nat \ {0}
    /\ KeyPrefixes \subseteq SUBSET Keys
    /\ Limits \subseteq Int
    /\ MaxPage \in Nat \ {0}
    /\ Variants \in [Keys -> Seq(Keys)]
    /\ \A k \in Keys : Variants[k] # <<>> /\ Variants[k][1] = k

VARIABLE reader   \* one reader: a walk over the pages, or a lookup

listingVars == <<repoVars, reader>>

NoReader == [pc |-> "idle"]

(***************************************************************************)
(* ListObjects                                                             *)
(***************************************************************************)

PageSize(limit) == IF limit <= 0 \/ limit > MaxPage THEN MaxPage ELSE limit

\* The keys of the page that follows the cursor, in order.
InOrder(keys) ==
    CHOOSE s \in SetToSeqs(keys) : \A i, j \in DOMAIN s : i < j => s[i] < s[j]

Rest(b, prefix, cursor) == InOrder({k \in Listed(b) \cap prefix : k > cursor})

\* Mutant: the next page begins with the first key that was left out.
NextCursorOfRest(rest, size) == IF Len(rest) <= size THEN 0 ELSE rest[size + 1]

NextCursor(rest, size) == IF Len(rest) <= size THEN 0 ELSE rest[size]

FirstOf(rest, size) == SubSeq(rest, 1, IF Len(rest) <= size THEN Len(rest) ELSE size)

(***************************************************************************)
(* A client asks for page after page.  always and ever are history: the     *)
(* keys that were in the bucket all the time, and at some time, since the   *)
(* reader began.                                                            *)
(***************************************************************************)

StartWalk(b, prefix, limit) ==
    /\ reader = NoReader
    /\ reader' = [pc |-> "page", bucket |-> b, prefix |-> prefix, size |-> PageSize(limit),
                  cursor |-> 0, got |-> <<>>, always |-> Listed(b), ever |-> Listed(b)]

NextPage ==
    /\ reader.pc = "page"
    /\ LET rest == Rest(reader.bucket, reader.prefix, reader.cursor)
           next == NextCursor(rest, reader.size)
       IN  reader' = IF ~BucketExists(reader.bucket) THEN [reader EXCEPT !.pc = "failed"]
                     ELSE [reader EXCEPT !.got = @ \o FirstOf(rest, reader.size),
                                         !.cursor = next,
                                         !.pc = IF next = 0 THEN "listed" ELSE "page"]

(***************************************************************************)
(* publicObjectLookup: one GetObject for each variant of the key, then the  *)
(* first page of the bucket for a key that is the same when normalised.     *)
(***************************************************************************)

StartLookup(b, k) ==
    /\ reader = NoReader
    /\ reader' = [pc |-> "try", bucket |-> b, key |-> k, tried |-> 0, found |-> None,
                  always |-> Listed(b), ever |-> Listed(b)]

\* Mutant: the variants are tried from the last to the first.
TryVariantBackwards ==
    /\ reader.pc = "try"
    /\ LET variants == Reverse(Variants[reader.key])
           n == reader.tried + 1
       IN  reader' = IF n > Len(variants) THEN [reader EXCEPT !.pc = "normal"]
                     ELSE IF ObjectExists(reader.bucket, variants[n])
                          THEN [reader EXCEPT !.pc = "found", !.found = variants[n]]
                          ELSE [reader EXCEPT !.tried = n]

TryVariant ==
    /\ reader.pc = "try"
    /\ LET variants == Variants[reader.key]
           n == reader.tried + 1
       IN  reader' = IF n > Len(variants) THEN [reader EXCEPT !.pc = "normal"]
                     ELSE IF ObjectExists(reader.bucket, variants[n])
                          THEN [reader EXCEPT !.pc = "found", !.found = variants[n]]
                          ELSE [reader EXCEPT !.tried = n]

\* The keys that the normalised lookup takes for k.
Alike(k) == {j \in Keys : \E v \in ToSet(Variants[k]) : Normal[j] = Normal[v]}

FindNormalized ==
    /\ reader.pc = "normal"
    /\ LET page  == FirstOf(Rest(reader.bucket, Keys, 0), MaxPage)
           alike == ToSet(page) \cap Alike(reader.key)
       IN  reader' = IF ~BucketExists(reader.bucket) \/ alike = {}
                     THEN [reader EXCEPT !.pc = "missing"]
                     ELSE [reader EXCEPT !.pc = "found", !.found = Min(alike)]

Ended == {"listed", "failed", "found", "missing"}

ReaderEnds == reader.pc \in Ended /\ reader' = NoReader

ReaderStep ==
    /\ \/ \E b \in Buckets, prefix \in KeyPrefixes, limit \in Limits : StartWalk(b, prefix, limit)
       \/ \E b \in Buckets, k \in Keys : StartLookup(b, k)
       \/ NextPage \/ TryVariant \/ FindNormalized \/ ReaderEnds
    /\ UNCHANGED repoVars

(***************************************************************************)
(* The specification: any method of the repository between any two calls of *)
(* the reader.                                                              *)
(***************************************************************************)

\* History: what a reader that is under way could have seen.
Watch ==
    reader' = IF reader.pc \in {"idle"} \cup Ended THEN reader
              ELSE LET now == [b \in Buckets |-> Listed(b)']
                   IN  [reader EXCEPT !.always = @ \cap now[reader.bucket],
                                      !.ever   = @ \cup now[reader.bucket]]

ListingInit == RepoInit /\ reader = NoReader

ListingNext == (RepoNext /\ Watch) \/ ReaderStep

ListingSpec == ListingInit /\ [][ListingNext]_listingVars

(***************************************************************************)
(* Properties                                                              *)
(***************************************************************************)

\* Whatever is stored, deleted, renamed or removed between two pages: a client
\* that follows the cursors to the end has met every key that was there all the
\* time, no key that never was, and each of them once and in order.
WalksComplete ==
    reader.pc = "listed" =>
        /\ reader.always \cap reader.prefix \subseteq ToSet(reader.got)
        /\ ToSet(reader.got) \subseteq reader.ever \cap reader.prefix
        /\ \A i, j \in DOMAIN reader.got : i < j => reader.got[i] < reader.got[j]

\* A public object is answered under the name it was asked for before any name
\* that merely looks like it; and it is missed only when nothing alike was
\* there all the time within the first page of the bucket.
LookupsFind ==
    /\ reader.pc = "found" =>
         /\ reader.found \in reader.ever
         /\ reader.key \in reader.always => reader.found = reader.key
    /\ reader.pc = "missing" =>
         \A k \in reader.always \cap Alike(reader.key) :
             Cardinality({j \in reader.ever : j < k}) >= MaxPage
=============================================================================
