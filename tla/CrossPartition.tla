---------------------------- MODULE CrossPartition ----------------------------
(***************************************************************************)
(* crates/truth/src/cross_partition.rs: the partitions of the truth plane, *)
(* the global state root, the registry of consumed messages and the        *)
(* registry of artifact receipts, all owned by one PartitionManager.       *)
(*                                                                         *)
(* A partition root stands for the set of payloads a Merkle proof against  *)
(* it exists for; the root of a new partition proves ZeroPayload alone,    *)
(* with an empty proof.  The message_id is a public field of a message: it *)
(* is the hash of the other fields when CrossPartitionMessage::new makes   *)
(* it, but nothing computes it again, so that here any contents come under *)
(* any id.  What the code does not look at is left out: signatures, the    *)
(* target and the nonce of a message, and the fields of a partition that   *)
(* are never assigned.                                                     *)
(***************************************************************************)
EXTENDS Integers

CONSTANTS
    Partitions, MessageIds, Payloads, SourceHeights,
    ZeroPayload,        \* the payload hash of 32 zero bytes
    Nonces,             \* execution_nonce of a commit
    ProofCounts,        \* qc_validator_count of a proof
    ArtifactJobs, ArtifactOperators, Outputs,
    PruneWindow,        \* PRUNE_WINDOW, 10000
    NoEntry,
    MaxAccepts, MaxRootUpdates      \* bounds

ASSUME CrossPartitionAssumption ==
    /\ SourceHeights \subseteq Nat /\ ProofCounts \subseteq Nat
    /\ PruneWindow \in Nat /\ MaxAccepts \in Nat /\ MaxRootUpdates \in Nat
    /\ ZeroPayload \in Payloads
    /\ \A root \in SUBSET Payloads : NoEntry # root
    /\ NoEntry \notin Outputs

Messages == [message_id : MessageIds, source : Partitions, height : SourceHeights,
             payload : Payloads]
PartitionRoots == SUBSET Payloads
ZeroRoot == {ZeroPayload}
Proofs == [root : PartitionRoots, qc_validator_count : ProofCounts]
ReceiptKeys == ArtifactJobs \X ArtifactOperators
Commits == [job : ArtifactJobs, operator : ArtifactOperators, output : Outputs,
            nonce : Nonces]

VARIABLES
    partition_root,     \* merkle_root of each partition, NoEntry if there is none
    global_root,        \* partition_roots of the global state root
    consumed,           \* consumed message ids
    min_valid_height,
    receipts,           \* output of the receipt under each key, or NoEntry
    execution_nonces,
    root_updates,       \* calls that set a root, for the bound
    accepted            \* history: how often each message took effect

bridge_vars == <<partition_root, global_root, consumed, min_valid_height,
                 receipts, execution_nonces, root_updates, accepted>>

CrossPartitionInit ==
    /\ partition_root = [p \in Partitions |-> NoEntry]
    /\ global_root = [p \in Partitions |-> NoEntry]
    /\ consumed = {}
    /\ min_valid_height = 0
    /\ receipts = [k \in ReceiptKeys |-> NoEntry]
    /\ execution_nonces = [k \in ReceiptKeys |-> {}]
    /\ root_updates = 0
    /\ accepted = [msg \in Messages |-> 0]

RootCall == root_updates < MaxRootUpdates /\ root_updates' = root_updates + 1

\* A partition that exists starts anew with the zero root.
AddPartition(p) ==
    /\ RootCall
    /\ partition_root' = [partition_root EXCEPT ![p] = ZeroRoot]
    /\ global_root' = [global_root EXCEPT ![p] = ZeroRoot]
    /\ UNCHANGED <<consumed, min_valid_height, receipts, execution_nonces, accepted>>

RemovePartition(p) ==
    /\ RootCall
    /\ partition_root' = [partition_root EXCEPT ![p] = NoEntry]
    /\ global_root' = [global_root EXCEPT ![p] = NoEntry]
    /\ UNCHANGED <<consumed, min_valid_height, receipts, execution_nonces, accepted>>

\* The global root is set for a partition that does not exist too.
UpdatePartitionRoot(p, root) ==
    /\ RootCall
    /\ partition_root' = IF partition_root[p] = NoEntry THEN partition_root
                         ELSE [partition_root EXCEPT ![p] = root]
    /\ global_root' = [global_root EXCEPT ![p] = root]
    /\ UNCHANGED <<consumed, min_valid_height, receipts, execution_nonces, accepted>>

VerifyMerkleProof(proof, payload) == payload \in proof.root

VerifyProof(msg, proof) ==
    /\ global_root[msg.source] # NoEntry
    /\ proof.root = global_root[msg.source]
    /\ VerifyMerkleProof(proof, msg.payload)
    /\ proof.qc_validator_count >= 2

\* The registry holds ids, and the proof looks at the source and the payload:
\* the same contents under an id of their own are processed again.
ProcessMessage(msg, proof) ==
    /\ accepted[msg] < MaxAccepts
    /\ msg.message_id \notin consumed
    /\ msg.height >= min_valid_height
    /\ VerifyProof(msg, proof)
    /\ consumed' = consumed \cup {msg.message_id}
    /\ accepted' = [accepted EXCEPT ![msg] = @ + 1]
    /\ UNCHANGED <<partition_root, global_root, min_valid_height, receipts,
                   execution_nonces, root_updates>>

PruneForgetting(height) ==
    /\ min_valid_height' = IF height >= PruneWindow THEN height - PruneWindow ELSE 0
    /\ consumed' = {msg.message_id : msg \in
                       {m \in Messages : accepted[m] > 0 /\ m.height >= min_valid_height'}}
    /\ UNCHANGED <<partition_root, global_root, receipts, execution_nonces,
                   root_updates, accepted>>

\* The floor follows the height it is given, downwards too; what was consumed
\* stays in the registry.
PruneMessages(height) ==
    /\ min_valid_height' = IF height >= PruneWindow THEN height - PruneWindow ELSE 0
    /\ UNCHANGED <<partition_root, global_root, consumed, receipts, execution_nonces,
                   root_updates, accepted>>

CommitArtifact(commit) ==
    LET key == <<commit.job, commit.operator>>
    IN  /\ receipts[key] = NoEntry
        /\ commit.nonce \notin execution_nonces[key]
        /\ execution_nonces' = [execution_nonces EXCEPT ![key] = @ \cup {commit.nonce}]
        /\ receipts' = [receipts EXCEPT ![key] = commit.output]
        /\ UNCHANGED <<partition_root, global_root, consumed, min_valid_height,
                       root_updates, accepted>>

\* verify_artifact returns the first receipt of the job in the map's own
\* order, which is any of them.
VerifyArtifact(job) ==
    {<<receipts[<<job, op>>], op>> : op \in {o \in ArtifactOperators :
                                               receipts[<<job, o>>] # NoEntry}}

CrossPartitionNext ==
    \/ \E p \in Partitions :
         \/ AddPartition(p)
         \/ RemovePartition(p)
         \/ \E root \in PartitionRoots : UpdatePartitionRoot(p, root)
    \/ \E msg \in Messages, proof \in Proofs : ProcessMessage(msg, proof)
    \/ \E height \in SourceHeights : PruneMessages(height)
    \/ \E commit \in Commits : CommitArtifact(commit)

CrossPartitionSpec == CrossPartitionInit /\ [][CrossPartitionNext]_bridge_vars

-----------------------------------------------------------------------------
\* Every field keeps its type.
CrossPartitionTypeOK ==
    /\ partition_root \in [Partitions -> PartitionRoots \cup {NoEntry}]
    /\ global_root \in [Partitions -> PartitionRoots \cup {NoEntry}]
    /\ consumed \subseteq MessageIds /\ min_valid_height \in Nat
    /\ receipts \in [ReceiptKeys -> Outputs \cup {NoEntry}]
    /\ execution_nonces \in [ReceiptKeys -> SUBSET Nonces]
    /\ root_updates \in 0 .. MaxRootUpdates /\ accepted \in [Messages -> 0 .. MaxAccepts]

\* An id lets one message through once, whatever height and contents the
\* later ones under it carry, although prune may lower the height below which
\* messages are refused and so let an old one in again.
ConsumedOnce ==
    \A m \in Messages : accepted[m] > 0 =>
        /\ accepted[m] = 1
        /\ \A n \in Messages : n.message_id = m.message_id /\ accepted[n] > 0 => n = m
=============================================================================
