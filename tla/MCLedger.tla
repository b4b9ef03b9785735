------------------------------ MODULE MCLedger ------------------------------
(* Ledger for TLC: verifier lists that are empty, shared and with a repeat. *)
EXTENDS Ledger

CONSTANTS v1, v2

MCDeltas == {1, -2}
MCVerifierLists == {<<>>, <<v1>>, <<v1, v2>>, <<v1, v2, v1>>}
=============================================================================
