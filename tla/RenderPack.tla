------------------------------ MODULE RenderPack ------------------------------
(***************************************************************************)
(* Render packs, crates/rpack: the scene graph with its check for cycles   *)
(* (scene.rs) and the tiered asset cache (asset.rs).                       *)
(*                                                                         *)
(* A node's id is its place in the list of nodes, as add_node gives it, so *)
(* a scene keeps their number.  (SceneIR::nodes is public and read from    *)
(* files, too: a scene that repeats an id, which no code here builds, is   *)
(* not a state of this module; is_acyclic calls every such scene cyclic.)  *)
(* The caller adds nodes and edges, with any ids at the ends of an *)
(* edge.  is_acyclic removes one node of degree zero after another, and is *)
(* one action for each: the nodes it starts from are queued in the order   *)
(* of a hash map.  Geometry, materials, cameras and lights are left out;   *)
(* constraints and animations refer to nodes as edges do.                  *)
(*                                                                         *)
(* A cached asset is its size; an absent one has size 0.  The memory and   *)
(* the disk tier are the same code with a limit of their own, the regional *)
(* tier has no limit and no queue, the network tier refuses every asset.   *)
(***************************************************************************)
EXTENDS Integers, Sequences, FiniteSets, Functions, Lists

CONSTANTS
    MaxNodes, MaxEdges,     \* bounds of a scene
    NodeRefs,               \* node ids that edges are given, dangling ones too
    AssetIds, AssetSizes,
    TierLimit,              \* max_tier0_size and max_tier1_size
    MaxPuts                 \* bound on the assets put into the cache

ASSUME RenderPackAssumption ==
    /\ MaxNodes \in Nat /\ MaxEdges \in Nat /\ NodeRefs \subseteq Nat
    /\ AssetSizes \subseteq Nat \ {0} /\ IsFiniteSet(AssetIds)
    /\ TierLimit \in Nat /\ MaxPuts \in Nat

VARIABLES
    nodes, scene_edges, \* the scene
    kahn,               \* is_acyclic under way: degrees, queue, nodes visited
    acyclic,            \* its answer for the scene as it is, or "none"
    tier,               \* the assets of each tier of the cache
    lru,                \* the queue of ids of each limited tier, oldest first
    puts

scene_vars == <<nodes, scene_edges, kahn, acyclic>>
asset_vars == <<tier, lru, puts>>
pack_vars == <<scene_vars, asset_vars>>

Resting == [queue |-> <<>>, degree |-> <<>>, visited |-> 0, busy |-> FALSE]
LimitedTiers == {"Memory", "Disk"}
CacheTier == LimitedTiers \cup {"Regional"}

SceneInit == nodes = 0 /\ scene_edges = <<>> /\ kahn = Resting /\ acyclic = "none"

CacheInit ==
    /\ tier = [t \in CacheTier |-> [a \in AssetIds |-> 0]]
    /\ lru = [t \in LimitedTiers |-> <<>>]
    /\ puts = 0

PackInit == SceneInit /\ CacheInit

-----------------------------------------------------------------------------
(* The scene. *)

NodeIds == 0..(nodes - 1)

AddNode ==
    /\ ~kahn.busy /\ nodes < MaxNodes
    /\ nodes' = nodes + 1 /\ acyclic' = "none"
    /\ UNCHANGED <<scene_edges, kahn, asset_vars>>

AddSceneEdge(s, t) ==
    /\ ~kahn.busy /\ Len(scene_edges) < MaxEdges
    /\ scene_edges' = Append(scene_edges, <<s, t>>) /\ acyclic' = "none"
    /\ UNCHANGED <<nodes, kahn, asset_vars>>

\* validate_references, for edges: the ends of every edge are nodes.
ReferencesValid ==
    \A i \in DOMAIN scene_edges : {scene_edges[i][1], scene_edges[i][2]} \subseteq NodeIds

\* An edge counts for its target whether or not its source is a node.
InDegree(n) == Cardinality({i \in DOMAIN scene_edges : scene_edges[i][2] = n})

StartCheck ==
    /\ ~kahn.busy /\ acyclic = "none"
    /\ LET degree == [n \in NodeIds |-> InDegree(n)]
       IN  \E q \in SetToSeqs({n \in NodeIds : degree[n] = 0}) :
              kahn' = [queue |-> q, degree |-> degree, visited |-> 0, busy |-> TRUE]
    /\ UNCHANGED <<nodes, scene_edges, acyclic, asset_vars>>

OutTimes(n, t) == Cardinality({i \in DOMAIN scene_edges : scene_edges[i] = <<n, t>>})

LowerAtOnce(degree, n) ==
    [t \in DOMAIN degree |-> IF OutTimes(n, t) > 0 THEN degree[t] - 1 ELSE degree[t]]

\* Every edge out of n lowers the degree of its target: parallel edges each do.
Lower(degree, n) == [t \in DOMAIN degree |-> degree[t] - OutTimes(n, t)]

\* The targets whose degree falls to zero, in the order of the edge that does it:
\* the last of the parallel edges.
NowFree(degree, n) ==
    LET lowered == Lower(degree, n)
        Frees(i) == /\ scene_edges[i][1] = n /\ scene_edges[i][2] \in DOMAIN degree
                    /\ lowered[scene_edges[i][2]] = 0
                    /\ \A j \in DOMAIN scene_edges : scene_edges[j] = scene_edges[i] => j <= i
        at == Retain([i \in DOMAIN scene_edges |-> i], {i \in DOMAIN scene_edges : Frees(i)})
    IN  [k \in DOMAIN at |-> scene_edges[at[k]][2]]

PopNode ==
    /\ kahn.busy /\ kahn.queue # <<>>
    /\ LET n == Head(kahn.queue)
       IN  kahn' = [kahn EXCEPT !.queue = Tail(@) \o NowFree(kahn.degree, n),
                                !.degree = Lower(@, n), !.visited = @ + 1]
    /\ UNCHANGED <<nodes, scene_edges, acyclic, asset_vars>>

EndCheck ==
    /\ kahn.busy /\ kahn.queue = <<>>
    /\ acyclic' = IF kahn.visited = nodes THEN "yes" ELSE "no"
    /\ kahn' = Resting
    /\ UNCHANGED <<nodes, scene_edges, asset_vars>>

SceneNext ==
    \/ AddNode
    \/ \E s, t \in NodeRefs : AddSceneEdge(s, t)
    \/ StartCheck \/ PopNode \/ EndCheck

-----------------------------------------------------------------------------
(* The asset cache. *)

TierSize(assets) == SumFunction(assets)

Without(assets, gone) == [a \in DOMAIN assets |-> IF a \in gone THEN 0 ELSE assets[a]]

EvictOldest(t, size) ==
    IF TierSize(tier[t]) + size <= TierLimit \/ lru[t] = <<>> THEN 0 ELSE 1

\* The number of ids popped from the queue to make room for size: the least
\* that is enough, and all of them when none is.  The id at the head may be of
\* an asset that was evicted, or put again, since it was queued.  The size that
\* a put replaces is counted along with the new one.
Evicted(t, size) ==
    LET enough(k) == TierSize(Without(tier[t], Range(SubSeq(lru[t], 1, k)))) + size <= TierLimit
    IN  CHOOSE k \in 0..Len(lru[t]) :
           /\ enough(k) \/ k = Len(lru[t])
           /\ \A i \in 0..(k - 1) : ~enough(i)

\* put_tier0 and put_tier1.  An asset larger than the tier is refused after the
\* tier was emptied for it.
PutLimited(t, a, size) ==
    LET k    == Evicted(t, size)
        left == Without(tier[t], Range(SubSeq(lru[t], 1, k)))
        fits == size <= TierLimit
    IN  /\ puts < MaxPuts /\ puts' = puts + 1
        /\ tier' = [tier EXCEPT ![t] = IF fits THEN [left EXCEPT ![a] = size] ELSE left]
        /\ lru' = [lru EXCEPT ![t] = SubSeq(@, k + 1, Len(@)) \o (IF fits THEN <<a>> ELSE <<>>)]
        /\ UNCHANGED scene_vars

PutRegional(a, size) ==
    /\ puts < MaxPuts /\ puts' = puts + 1
    /\ tier' = [tier EXCEPT !["Regional"][a] = size]
    /\ UNCHANGED <<lru, scene_vars>>

\* remove takes the asset out of the tiers that hold it, and its ids out of
\* their queues; the queue of a tier that does not hold it keeps stale ids.
RemoveAsset(a) ==
    /\ \E t \in CacheTier : tier[t][a] # 0
    /\ tier' = [t \in CacheTier |-> Without(tier[t], {a})]
    /\ lru' = [t \in LimitedTiers |->
                  IF tier[t][a] # 0 THEN Retain(lru[t], AssetIds \ {a}) ELSE lru[t]]
    /\ UNCHANGED <<puts, scene_vars>>

CacheNext ==
    \/ \E t \in LimitedTiers, a \in AssetIds, s \in AssetSizes : PutLimited(t, a, s)
    \/ \E a \in AssetIds, s \in AssetSizes : PutRegional(a, s)
    \/ \E a \in AssetIds : RemoveAsset(a)

PackSpec == PackInit /\ [][SceneNext \/ CacheNext]_pack_vars

-----------------------------------------------------------------------------
\* Some nodes each of which has an edge into them: with finitely many, a cycle.
HasCycle ==
    \E C \in SUBSET NodeIds :
        /\ C # {}
        /\ \A n \in C : \E i \in DOMAIN scene_edges :
              scene_edges[i][1] = n /\ scene_edges[i][2] \in C

\* is_acyclic is right about the scene, for parallel edges and loops and
\* whatever order its queue was filled in: it never calls a cyclic scene
\* acyclic, and calls an acyclic one cyclic only if an edge starts at a node
\* that does not exist, which validate_references reports.
AcyclicExact ==
    /\ acyclic = "yes" => ~HasCycle
    /\ acyclic = "no" /\ ReferencesValid => HasCycle

\* A limited tier holds no more than its limit, however often an asset was put
\* again with another size, evicted or removed: every asset it holds can still
\* be evicted.
CacheWithin ==
    \A t \in LimitedTiers :
        /\ TierSize(tier[t]) <= TierLimit
        /\ \A a \in AssetIds : tier[t][a] # 0 => a \in Range(lru[t])

=============================================================================
