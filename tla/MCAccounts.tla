------------------------------ MODULE MCAccounts ------------------------------
(***************************************************************************)
(* A small instance of the accounts for TLC: the root administrator and one *)
(* user, the development key and one more draw, two requests at a time.     *)
(***************************************************************************)
EXTENDS Accounts, TLC

OneProfile == {RootProfile}

RequestSymmetry == Permutations(Requests)
=============================================================================
