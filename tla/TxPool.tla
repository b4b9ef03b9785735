-------------------------------- MODULE TxPool --------------------------------
(***************************************************************************)
(* What the node promises about transactions: a transaction enters the     *)
(* pool in one step, pooled and findable at once, is never forgotten, and  *)
(* is acknowledged to a client only when it is there.                      *)
(***************************************************************************)
CONSTANT Txs

VARIABLES pool, acknowledged

Init == pool = {} /\ acknowledged = {}

Enter(S) == pool' = pool \cup S /\ UNCHANGED acknowledged

Acknowledge(tx) ==
    /\ tx \in pool
    /\ acknowledged' = acknowledged \cup {tx}
    /\ UNCHANGED pool

Next == (\E S \in SUBSET Txs : Enter(S)) \/ (\E tx \in Txs : Acknowledge(tx))

Spec == Init /\ [][Next]_<<pool, acknowledged>>
=============================================================================
