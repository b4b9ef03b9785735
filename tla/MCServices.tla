----------------------------- MODULE MCServices -----------------------------
(***************************************************************************)
(* The services of a node around the ledger, for TLC.  They keep no state  *)
(* in common and no call of one reaches another, so that an interleaving   *)
(* of two of them is their interleaving with stuttering: each behaviour is *)
(* one service's own, the one that focus names.                            *)
(***************************************************************************)
EXTENDS StakingSet, Governance, CrossPartition, Rpc, ChainStore, ChainSync, Keys

VARIABLE focus

services_vars == <<staking_vars, governance_vars, bridge_vars, rpc_vars, store_vars,
                   sync_vars, key_vars>>

ServicesInit ==
    /\ StakingInit /\ GovernanceInit /\ CrossPartitionInit /\ RpcInit
    /\ ChainStoreInit /\ ChainSyncInit /\ KeysInit
    /\ focus \in {"staking", "governance", "bridge", "rpc", "store", "sync", "keys"}

StakingPart ==
    /\ focus = "staking" /\ StakingNext
    /\ UNCHANGED <<focus, governance_vars, bridge_vars, rpc_vars, store_vars, sync_vars,
                   key_vars>>

GovernancePart ==
    /\ focus = "governance" /\ GovernanceNext
    /\ UNCHANGED <<focus, staking_vars, bridge_vars, rpc_vars, store_vars, sync_vars,
                   key_vars>>

BridgePart ==
    /\ focus = "bridge" /\ CrossPartitionNext
    /\ UNCHANGED <<focus, staking_vars, governance_vars, rpc_vars, store_vars, sync_vars,
                   key_vars>>

RpcPart ==
    /\ focus = "rpc" /\ RpcNext
    /\ UNCHANGED <<focus, staking_vars, governance_vars, bridge_vars, store_vars, sync_vars,
                   key_vars>>

StorePart ==
    /\ focus = "store" /\ ChainStoreNext
    /\ UNCHANGED <<focus, staking_vars, governance_vars, bridge_vars, rpc_vars, sync_vars,
                   key_vars>>

SyncPart ==
    /\ focus = "sync" /\ ChainSyncNext
    /\ UNCHANGED <<focus, staking_vars, governance_vars, bridge_vars, rpc_vars, store_vars,
                   key_vars>>

KeysPart ==
    /\ focus = "keys" /\ KeysNext
    /\ UNCHANGED <<focus, staking_vars, governance_vars, bridge_vars, rpc_vars, store_vars,
                   sync_vars>>

ServicesNext ==
    StakingPart \/ GovernancePart \/ BridgePart \/ RpcPart \/ StorePart \/ SyncPart \/ KeysPart

ServicesSpec ==
    ServicesInit /\ [][ServicesNext]_<<services_vars, focus>> /\ RpcFairness

=============================================================================
