------------------------------- MODULE MCConsole -------------------------------
(***************************************************************************)
(* A small instance of the console's state for TLC: settings that are right *)
(* at the bounds, and wrong by one or by a missing field; pages and a log   *)
(* of a few entries.                                                        *)
(***************************************************************************)
EXTENDS Console, TLC

Settings(ttl, mb, url) == [named |-> TRUE, url |-> url, ttl |-> ttl, mb |-> mb]

MCSent ==
    { Settings(720, 1, "default"), Settings(1, 1025, ""),
      Settings(721, 1, ""), Settings(0, 1, ""), Settings(1, 0, "default"),
      Settings(1, 1, "relative"), [defaultSystemSettings EXCEPT !.named = FALSE] }

RequestSymmetry == Permutations(Requests) \cup Permutations(PolicyIds)
=============================================================================
