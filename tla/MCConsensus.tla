----------------------------- MODULE MCConsensus -----------------------------
(***************************************************************************)
(* Consensus for TLC.  The voters outside Faulty, and the blocks, are      *)
(* interchangeable: the proposer is an index, never a voter.               *)
(***************************************************************************)
EXTENDS Consensus, TLC

Symmetry == Permutations(Voters \ Faulty) \cup Permutations(Blocks)
=============================================================================
