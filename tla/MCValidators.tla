---------------------------- MODULE MCValidators ----------------------------
(* Validators for TLC: the validators are interchangeable. *)
EXTENDS Validators, TLC

Symmetry == Permutations(Ids)
=============================================================================
