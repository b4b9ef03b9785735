-------------------------------- MODULE MCJobs --------------------------------
(* Jobs for TLC: one job with a budget and an early deadline. *)
EXTENDS Jobs

MCMaxFee == [j \in JobIds |-> 2]
MCDeadline == [j \in JobIds |-> 0]
=============================================================================
