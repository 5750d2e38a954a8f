------------------------------ MODULE ByteRange ------------------------------
(***************************************************************************)
(* ParseRange of internal/storage/local.go: which bytes of an object a      *)
(* Range header selects.                                                    *)
(*                                                                         *)
(* A header is what the text says once it is cut at the first "-": "-5" is a *)
(* suffix, "5-" is open, "5-9" is closed.  A number that does not parse,     *)
(* several ranges or another unit give no range and are left out.  Positions *)
(* are int64 in the code and never leave the interval from 0 to the larger   *)
(* of size and last, so that nothing overflows.                              *)
(***************************************************************************)
EXTENDS Integers

\* A suffix has no first, an open range no last.  "5--3" has a negative last;
\* first holds no "-".
Headers == [kind : {"suffix", "open", "closed"}, first : Nat, last : Int]

Start(h, size) ==
    IF h.kind # "suffix" THEN h.first ELSE size - (IF h.last > size THEN size ELSE h.last)

End(h, size) == IF h.kind = "closed" THEN h.last ELSE size - 1

\* A suffix without a length is refused.
Formed(h) == h.kind = "suffix" => h.last > 0

\* ParseRange returns RangeSpec{Start, End}; otherwise the whole object is sent.
Partial(h, size) ==
    /\ Formed(h)
    /\ 0 <= Start(h, size) /\ Start(h, size) <= End(h, size)
    /\ End(h, size) < size /\ size > 0

(***************************************************************************)
(* What a header asks for, position by position.                            *)
(***************************************************************************)

Asked(h, size) ==
    {i \in 0 .. size - 1 :
        /\ h.kind = "suffix" => size - i <= h.last
        /\ h.kind # "suffix" => h.first <= i
        /\ h.kind = "closed" => i <= h.last}
=============================================================================
