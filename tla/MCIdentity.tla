------------------------------ MODULE MCIdentity ------------------------------
(* Instances of Identity for TLC. *)
EXTENDS Identity, TLC

RequestSymmetry == Permutations(Requests)
==============================================================================
