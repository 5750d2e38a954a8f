------------------------------ MODULE MCSessions ------------------------------
(***************************************************************************)
(* Instances of Sessions for TLC: the administrator and a viewer, who may   *)
(* become one, be disabled or be deleted.                                   *)
(***************************************************************************)
EXTENDS Sessions, TLC

TwoProfiles == {RootProfile, [role |-> "Viewer", status |-> "Disabled"]}

RequestSymmetry == Permutations(Requests)
=============================================================================
