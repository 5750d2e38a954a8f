------------------------------ MODULE MCPostgres ------------------------------
(***************************************************************************)
(* Small instances of the tables in Postgres for TLC: one row of every      *)
(* table and two transactions at a time.  Three bucket names let renames    *)
(* chain.  Names and connections are never chosen by CHOOSE, so the safety  *)
(* run uses symmetry.                                                      *)
(***************************************************************************)
EXTENDS Postgres, TLC

CONSTANT x   \* a fragment of content

MCFragments == {x}
MCBodies == {<<x>>}

NameSymmetry == Permutations(Buckets) \cup Permutations(Connections)
=============================================================================
