------------------------------- MODULE MCEdge -------------------------------
(***************************************************************************)
(* What surrounds the node, for TLC: replicated data, partitions, peers,   *)
(* routing, execution, artifacts, the client, observability and render     *)
(* packs.  They keep no state in common, so that each behaviour is one     *)
(* component's own, the one that focus names (see MCServices).             *)
(***************************************************************************)
EXTENDS Replicas, PartitionOps, Network, Routing, Execution, Artifacts, SdkClient,
        Observability, RenderPack

CONSTANTS fast, near, idle          \* the operators that are routed to

VARIABLE focus

-----------------------------------------------------------------------------
(* Operators of two reputations, one of them in a region and one not active; *)
(* metrics of a loaded operator; a deterministic request and one that caps   *)
(* the load; tiebreaks that depend on the operator and the seed.             *)

Profile(active, reputation, region) ==
    [active |-> active, supports_kernel |-> TRUE, stake |-> 1000,
     reputation |-> reputation, region |-> region, budget |-> 5000, price |-> 500,
     latency |-> 50, max_concurrent |-> 1, vram |-> 16]
MCProfiles == {Profile(TRUE, 800, ""), Profile(TRUE, 900, "east"), Profile(FALSE, 900, "")}

MCMetrics == {[load |-> 900, success |-> 950, fraud |-> 1, uptime |-> 20000, latency |-> 20]}

AskFor(deterministic, redundancy, qos, load) ==
    [qos |-> qos, redundancy |-> redundancy, budget |-> 5000, min_stake |-> 1000,
     region |-> NoConstraint, max_load |-> load, min_reputation |-> NoConstraint,
     deterministic |-> deterministic, height |-> 7, seed |-> 1]
MCRequests == {AskFor(TRUE, 0, "Balanced", NoConstraint), AskFor(FALSE, 1, "LowLatency", 800)}

MCTiebreak(o, seed) ==
    CASE o = fast -> (seed * 31) % 1000
      [] o = near -> (seed * 62 + 5) % 1000
      [] OTHER -> (seed * 93) % 1000

MCDeltas == {-3, 2}

-----------------------------------------------------------------------------
edge_vars == <<replica_vars, partition_vars, net_vars, routing_vars, exec_vars,
               artifact_vars, sdk_vars, observability_vars, pack_vars>>

Parts == {"replicas", "partitions", "net", "routing", "executor", "registry",
          "artifacts", "sdk", "health", "audit", "scene", "cache"}

EdgeInit ==
    /\ ReplicasInit /\ PartitionInit /\ NetInit /\ RoutingInit /\ ExecInit
    /\ ArtifactInit /\ SdkInit /\ ObservabilityInit /\ PackInit
    /\ focus \in Parts
    \* The operators' profiles vary only where they are read.
    /\ focus # "routing" => snapshot = [o \in Operators |-> Profile(TRUE, 800, "")]

ReplicasPart ==
    /\ focus = "replicas" /\ ReplicasNext
    /\ UNCHANGED <<focus, partition_vars, net_vars, routing_vars, exec_vars,
                   artifact_vars, sdk_vars, observability_vars, pack_vars>>

PartitionsPart ==
    /\ focus = "partitions" /\ PartitionNext
    /\ UNCHANGED <<focus, replica_vars, net_vars, routing_vars, exec_vars,
                   artifact_vars, sdk_vars, observability_vars, pack_vars>>

NetPart ==
    /\ focus = "net" /\ NetNext
    /\ UNCHANGED <<focus, replica_vars, partition_vars, routing_vars, exec_vars,
                   artifact_vars, sdk_vars, observability_vars, pack_vars>>

RoutingPart ==
    /\ focus = "routing" /\ RoutingNext
    /\ UNCHANGED <<focus, replica_vars, partition_vars, net_vars, exec_vars,
                   artifact_vars, sdk_vars, observability_vars, pack_vars>>

ExecutionPart ==
    /\ \/ focus = "executor" /\ ExecutorNext
       \/ focus = "registry" /\ RegistryNext
    /\ UNCHANGED <<focus, replica_vars, partition_vars, net_vars, routing_vars,
                   artifact_vars, sdk_vars, observability_vars, pack_vars>>

ArtifactsPart ==
    /\ focus = "artifacts" /\ ArtifactNext
    /\ UNCHANGED <<focus, replica_vars, partition_vars, net_vars, routing_vars, exec_vars,
                   sdk_vars, observability_vars, pack_vars>>

SdkPart ==
    /\ focus = "sdk" /\ SdkNext
    /\ UNCHANGED <<focus, replica_vars, partition_vars, net_vars, routing_vars, exec_vars,
                   artifact_vars, observability_vars, pack_vars>>

ObservabilityPart ==
    /\ \/ focus = "health" /\ HealthNext
       \/ focus = "audit" /\ AuditNext
    /\ UNCHANGED <<focus, replica_vars, partition_vars, net_vars, routing_vars, exec_vars,
                   artifact_vars, sdk_vars, pack_vars>>

PackPart ==
    /\ \/ focus = "scene" /\ SceneNext
       \/ focus = "cache" /\ CacheNext
    /\ UNCHANGED <<focus, replica_vars, partition_vars, net_vars, routing_vars, exec_vars,
                   artifact_vars, sdk_vars, observability_vars>>

EdgeNext ==
    \/ ReplicasPart \/ PartitionsPart \/ NetPart \/ RoutingPart \/ ExecutionPart
    \/ ArtifactsPart \/ SdkPart \/ ObservabilityPart \/ PackPart

EdgeSpec == EdgeInit /\ [][EdgeNext]_<<edge_vars, focus>>

=============================================================================
