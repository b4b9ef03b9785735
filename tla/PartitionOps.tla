----------------------------- MODULE PartitionOps -----------------------------
(***************************************************************************)
(* The PartitionManager of crates/storage/src/partition_manager.rs: the    *)
(* life of a partition and the global state root computed from them.       *)
(*                                                                         *)
(* A state root is a model value, the global root the map from the         *)
(* partitions it was computed over to their roots (the hash of exactly     *)
(* that).  A signature is its key and whether it verifies; configuration   *)
(* hashes, proposals and the reason of a rebalance are left out, as are    *)
(* the merkle root and the signatures of a migration, which the manager    *)
(* does not verify.                                                        *)
(***************************************************************************)
EXTENDS Integers, Sequences, FiniteSets

CONSTANTS
    PartitionIds, StateRoots, ZeroStateRoot,
    PartitionValidators,    \* the validators handed to create_partition
    Outsiders,              \* keys that are not theirs
    NoPartition,
    MaxPartitionEpoch, MaxPending   \* bounds; MaxPending on pending_operations

ASSUME PartitionAssumption ==
    /\ ZeroStateRoot \in StateRoots /\ MaxPartitionEpoch \in Nat /\ MaxPending \in Nat
    /\ IsFiniteSet(PartitionValidators)

PartitionStatus == {"Pending", "Active", "Migrating", "Frozen", "Deleted"}
PartitionRecords ==
    [state_root : StateRoots, status : PartitionStatus, epoch : 0 .. MaxPartitionEpoch,
     validator_subset : SUBSET PartitionValidators]
Signatures == [key : PartitionValidators \cup Outsiders, verifies : BOOLEAN]

ASSUME NoPartitionAssumption == NoPartition \notin PartitionRecords

VARIABLES
    parts,              \* partitions: the record under each id, or NoPartition
    pending_operations, \* kinds of the operations recorded, never taken out
    global_state_root,
    partition_epoch,    \* current_epoch
    unpublished         \* history: partitions whose root the global one lacks

partition_vars == <<parts, pending_operations, global_state_root, partition_epoch,
                    unpublished>>

PartitionInit ==
    /\ parts = [p \in PartitionIds |-> NoPartition]
    /\ pending_operations = <<>>
    /\ global_state_root = <<>>
    /\ partition_epoch = 0
    /\ unpublished = {}

Exists(p) == parts[p] # NoPartition
In(p, status) == Exists(p) /\ parts[p].status = status
Active(p) == In(p, "Active")

WithStatus(p, status, epoch) ==
    [state_root |-> parts[p].state_root, status |-> status, epoch |-> epoch,
     validator_subset |-> parts[p].validator_subset]

Record(kind) ==
    /\ Len(pending_operations) < MaxPending
    /\ pending_operations' = Append(pending_operations, kind)

RootOfAll(ps) == [p \in {q \in PartitionIds : ps[q] # NoPartition} |-> ps[p].state_root]

\* update_global_state_root, over every partition that is not deleted.
RootOf(ps) ==
    [p \in {q \in PartitionIds : ps[q] # NoPartition /\ ps[q].status # "Deleted"}
        |-> ps[p].state_root]

Publish == global_state_root' = RootOf(parts') /\ unpublished' = {}

-----------------------------------------------------------------------------
QuorumRequired == (Cardinality(PartitionValidators) * 2) \div 3

\* One validator's signature counts as often as it is listed.
VerifySignatures(signatures) ==
    /\ Len(signatures) >= QuorumRequired
    /\ Cardinality({i \in DOMAIN signatures :
                      signatures[i].key \in PartitionValidators /\ signatures[i].verifies})
         >= QuorumRequired

\* The partition starts from the zero root, whatever initial_state_root says,
\* and the global root is not computed again.
CreatePartition(p, signatures) ==
    /\ ~Exists(p)
    /\ VerifySignatures(signatures)
    /\ parts' = [parts EXCEPT ![p] =
         [state_root |-> ZeroStateRoot, status |-> "Pending", epoch |-> 0,
          validator_subset |-> {}]]
    /\ Record("Create")
    /\ unpublished' = unpublished \cup {p}
    /\ UNCHANGED <<global_state_root, partition_epoch>>

ActivatePartition(p, epoch) ==
    /\ In(p, "Pending")
    /\ parts' = [parts EXCEPT ![p] = WithStatus(p, "Active", epoch)]
    /\ partition_epoch' = epoch
    /\ Publish
    /\ UNCHANGED pending_operations

\* The target's root changes when it is active, which the source itself is
\* not any more.  The global root stays.
MigratePartition(source, target, root) ==
    LET moved == [parts EXCEPT ![source] =
                    WithStatus(source, "Migrating", parts[source].epoch)]
    IN  /\ Active(source)
        /\ parts' = IF moved[target] # NoPartition /\ moved[target].status = "Active"
                    THEN [moved EXCEPT ![target] =
                            [state_root |-> root, status |-> "Active",
                             epoch |-> moved[target].epoch,
                             validator_subset |-> moved[target].validator_subset]]
                    ELSE moved
        /\ Record("Migrate")
        /\ unpublished' = unpublished \cup {p \in {target} : parts'[p] # parts[p]}
        /\ UNCHANGED <<global_state_root, partition_epoch>>

CompleteMigration(p, epoch) ==
    /\ In(p, "Migrating")
    /\ parts' = [parts EXCEPT ![p] = WithStatus(p, "Active", epoch)]
    /\ partition_epoch' = epoch
    /\ Publish
    /\ UNCHANGED pending_operations

DeletePartition(p) ==
    /\ In(p, "Frozen") \/ Active(p)
    /\ parts' = [parts EXCEPT ![p] = WithStatus(p, "Deleted", parts[p].epoch)]
    /\ Record("Delete")
    /\ Publish
    /\ UNCHANGED partition_epoch

FreezePartition(p) ==
    /\ Active(p)
    /\ parts' = [parts EXCEPT ![p] = WithStatus(p, "Frozen", parts[p].epoch)]
    /\ Publish
    /\ UNCHANGED <<pending_operations, partition_epoch>>

RebalancePartition(p, subset, epoch) ==
    /\ Active(p)
    /\ parts' = [parts EXCEPT ![p] =
         [state_root |-> parts[p].state_root, status |-> parts[p].status,
          epoch |-> epoch, validator_subset |-> subset]]
    /\ Record("Rebalance")
    /\ UNCHANGED <<global_state_root, partition_epoch, unpublished>>

AdvancePartitionEpoch(epoch) ==
    /\ partition_epoch' = epoch
    /\ UNCHANGED <<parts, pending_operations, global_state_root, unpublished>>

SignatureLists == {<<>>} \cup {<<s>> : s \in Signatures} \cup
                  {<<s, t>> : s, t \in Signatures}

PartitionNext ==
    \/ \E p \in PartitionIds :
         \/ \E signatures \in SignatureLists : CreatePartition(p, signatures)
         \/ \E epoch \in 0 .. MaxPartitionEpoch :
              \/ ActivatePartition(p, epoch) \/ CompleteMigration(p, epoch)
              \/ \E subset \in SUBSET PartitionValidators :
                   RebalancePartition(p, subset, epoch)
         \/ \E target \in PartitionIds, root \in StateRoots :
              MigratePartition(p, target, root)
         \/ DeletePartition(p) \/ FreezePartition(p)
    \/ \E epoch \in 0 .. MaxPartitionEpoch : AdvancePartitionEpoch(epoch)

PartitionSpec == PartitionInit /\ [][PartitionNext]_partition_vars

-----------------------------------------------------------------------------
\* Every field keeps its type.
PartitionTypeOK ==
    /\ parts \in [PartitionIds -> PartitionRecords \cup {NoPartition}]
    /\ pending_operations \in Seq({"Create", "Migrate", "Delete", "Rebalance"})
    /\ DOMAIN global_state_root \subseteq PartitionIds
    /\ \A p \in DOMAIN global_state_root : global_state_root[p] \in StateRoots
    /\ partition_epoch \in 0 .. MaxPartitionEpoch /\ unpublished \subseteq PartitionIds

\* The global root covers every partition that ever served, from its
\* activation to its deletion and no longer, and gives its current root but
\* for the targets of migrations since the root was computed last: creating
\* and migrating leave it as it was, every other change of status renews it.
GlobalRootCurrent ==
    \A p \in PartitionIds :
        /\ Exists(p) /\ parts[p].status \in {"Active", "Migrating", "Frozen"}
             => p \in DOMAIN global_state_root
        /\ In(p, "Deleted") => p \notin DOMAIN global_state_root
        /\ p \in DOMAIN global_state_root \ unpublished
             => global_state_root[p] = parts[p].state_root
=============================================================================
