------------------------------ MODULE MCDispute ------------------------------
(* Dispute for TLC: jobs and challengers are interchangeable. *)
EXTENDS Dispute, TLC

Symmetry == Permutations(Jobs) \cup Permutations(Challengers)
=============================================================================
