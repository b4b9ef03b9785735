-------------------------------- MODULE Replicas --------------------------------
(***************************************************************************)
(* The replicated data types of crates/storage/src/crdt.rs (PNCounter over *)
(* two GCounters, ORSet, LWWRegister, the ORMap merge, CRDTGraph) on a few *)
(* replicas that exchange state through AntiEntropy::sync.                 *)
(*                                                                         *)
(* Each replica holds one value of each type.  The users of AntiEntropy    *)
(* are not in the repository; they are taken to count every local update   *)
(* in the version vector and to merge the values as the types' own merge   *)
(* does.  An operation id is <<logical clock, replica>>; the ids in        *)
(* edge_tombstones are left out, as only the presence of a key is read.    *)
(***************************************************************************)
EXTENDS Integers, FiniteSets

CONSTANTS
    Replica,            \* replica ids, numbers because ties are broken by size
    Elements, Values, Stamps,
    Unset,              \* no value
    MaxUpdates          \* bound on local updates of all replicas together

ASSUME ReplicasAssumption ==
    /\ Replica \subseteq Nat /\ IsFiniteSet(Replica)
    /\ Stamps \subseteq Nat \ {0} /\ MaxUpdates \in Nat
    /\ Unset \notin Values

VARIABLES
    versions,           \* version vectors
    positive, negative, \* the counters' counts by replica
    orset,              \* elements and tombstones as sets of <<element, id>>, clock
    register,           \* value, timestamp and the replica_id it is tagged with
    ormap,
    edges, cut,         \* the graph: an ORSet of edges, the edge_tombstones' keys
    updates,            \* local updates so far, for the bound
    removed,            \* history: elements some replica removed
    stamped             \* history: <<timestamp, value>> of the register's updates

values == <<positive, negative, orset, register, ormap, edges, cut>>
replica_vars == <<versions, values, updates, removed, stamped>>

NewSet == [elements |-> {}, tombstones |-> {}, clock |-> 0]
NoCounts == [q \in Replica |-> 0]

ReplicasInit ==
    /\ versions = [r \in Replica |-> NoCounts]
    /\ positive = [r \in Replica |-> NoCounts]
    /\ negative = [r \in Replica |-> NoCounts]
    /\ orset = [r \in Replica |-> NewSet]
    /\ register = [r \in Replica |-> [value |-> Unset, timestamp |-> 0, replica_id |-> r]]
    /\ ormap = [r \in Replica |-> [e \in Elements |-> Unset]]
    /\ edges = [r \in Replica |-> NewSet]
    /\ cut = [r \in Replica |-> {}]
    /\ updates = 0
    /\ removed = {}
    /\ stamped = {}

-----------------------------------------------------------------------------
(* The types *)

Dominates(v, w) == \A q \in Replica : v[q] >= w[q]
Larger(x, y) == IF x >= y THEN x ELSE y

SumOfCounts(v, w) == [q \in Replica |-> v[q] + w[q]]

\* VersionVector::merge and GCounter::merge.
MergeCounts(v, w) == [q \in Replica |-> Larger(v[q], w[q])]

Increment(v, r) == [v EXCEPT ![r] = @ + 1]

IdsOf(pairs, e) == {pair[2] : pair \in {p \in pairs : p[1] = e}}
HasElement(s, e) == IdsOf(s.elements, e) \ IdsOf(s.tombstones, e) # {}

AddElement(s, r, e) ==
    [elements |-> s.elements \cup {<<e, <<s.clock + 1, r>>>>},
     tombstones |-> s.tombstones, clock |-> s.clock + 1]

\* The order derived on ids: by replica first, then by clock.
LastId(ids) ==
    CHOOSE id \in ids : \A other \in ids :
        other[2] < id[2] \/ (other[2] = id[2] /\ other[1] <= id[1])

\* Of several ids of the element only the last is given a tombstone, so the
\* element may stay.
RemoveElement(s, e) ==
    [elements |-> s.elements,
     tombstones |-> s.tombstones \cup {<<e, LastId(IdsOf(s.elements, e))>>},
     clock |-> s.clock]

MergeSetResurrecting(s, o) ==
    [elements |-> s.elements \cup o.elements,
     tombstones |-> s.tombstones \cup o.tombstones, clock |-> Larger(s.clock, o.clock)]

\* Additions of an element that has a tombstone here are passed over, all of
\* them; the tombstones are joined after that.
MergeSet(s, o) ==
    [elements |-> s.elements \cup {p \in o.elements : IdsOf(s.tombstones, p[1]) = {}},
     tombstones |-> s.tombstones \cup o.tombstones,
     clock |-> Larger(s.clock, o.clock)]

\* Ties are broken by the replica_id of the tags, not of the replicas.
MergeRegister(x, y) ==
    IF \/ y.timestamp > x.timestamp
       \/ y.timestamp = x.timestamp /\ y.replica_id > x.replica_id
    THEN y ELSE x

\* merge_or_map drops what merge_value returns: the entry here stays.
MergeMap(x, y) == [e \in Elements |-> IF x[e] # Unset THEN x[e] ELSE y[e]]

Neighbors(r) == {e \in Elements : HasElement(edges[r], e) /\ e \notin cut[r]}

-----------------------------------------------------------------------------
(* Local updates.  Each is counted in the replica's version vector. *)

Update(r) ==
    /\ updates < MaxUpdates /\ updates' = updates + 1
    /\ versions' = [versions EXCEPT ![r] = Increment(@, r)]

IncrementCounter(r) ==
    /\ Update(r)
    /\ positive' = [positive EXCEPT ![r] = Increment(@, r)]
    /\ UNCHANGED <<negative, orset, register, ormap, edges, cut, removed, stamped>>

DecrementCounter(r) ==
    /\ Update(r)
    /\ negative' = [negative EXCEPT ![r] = Increment(@, r)]
    /\ UNCHANGED <<positive, orset, register, ormap, edges, cut, removed, stamped>>

AddToSet(r, e) ==
    /\ Update(r)
    /\ orset' = [orset EXCEPT ![r] = AddElement(@, r, e)]
    /\ UNCHANGED <<positive, negative, register, ormap, edges, cut, removed, stamped>>

RemoveFromSet(r, e) ==
    /\ Update(r)
    /\ IdsOf(orset[r].elements, e) # {}
    /\ orset' = [orset EXCEPT ![r] = RemoveElement(@, e)]
    /\ removed' = removed \cup {e}
    /\ UNCHANGED <<positive, negative, register, ormap, edges, cut, stamped>>

\* A timestamp that is not later is ignored: set compares the replica_id
\* with itself.  The tag keeps the replica_id that a merge brought in.
SetRegister(r, value, timestamp) ==
    /\ Update(r)
    /\ timestamp > register[r].timestamp
    /\ register' = [register EXCEPT
         ![r] = [value |-> value, timestamp |-> timestamp,
                 replica_id |-> register[r].replica_id]]
    /\ stamped' = stamped \cup {<<timestamp, value>>}
    /\ UNCHANGED <<positive, negative, orset, ormap, edges, cut, removed>>

PutInMap(r, e, value) ==
    /\ Update(r)
    /\ ormap' = [ormap EXCEPT ![r][e] = value]
    /\ UNCHANGED <<positive, negative, orset, register, edges, cut, removed, stamped>>

AddEdge(r, e) ==
    /\ Update(r)
    /\ edges' = [edges EXCEPT ![r] = AddElement(@, r, e)]
    /\ UNCHANGED <<positive, negative, orset, register, ormap, cut, removed, stamped>>

\* For good: get_neighbors looks for a tombstone of the edge, not for its id.
RemoveEdge(r, e) ==
    /\ Update(r)
    /\ cut' = [cut EXCEPT ![r] = @ \cup {e}]
    /\ UNCHANGED <<positive, negative, orset, register, ormap, edges, removed, stamped>>

-----------------------------------------------------------------------------
NotDominated(r, o) == ~Dominates(versions[r], versions[o])

\* AntiEntropy::sync: r takes over what o has, unless its version vector
\* says that it knows all of it.
SyncFrom(r, o) ==
    /\ NotDominated(r, o)
    /\ versions' = [versions EXCEPT ![r] = MergeCounts(@, versions[o])]
    /\ positive' = [positive EXCEPT ![r] = MergeCounts(@, positive[o])]
    /\ negative' = [negative EXCEPT ![r] = MergeCounts(@, negative[o])]
    /\ orset' = [orset EXCEPT ![r] = MergeSet(@, orset[o])]
    /\ register' = [register EXCEPT ![r] = MergeRegister(@, register[o])]
    /\ ormap' = [ormap EXCEPT ![r] = MergeMap(@, ormap[o])]
    /\ edges' = [edges EXCEPT ![r] = MergeSet(@, edges[o])]
    /\ cut' = [cut EXCEPT ![r] = @ \cup cut[o]]
    /\ UNCHANGED <<updates, removed, stamped>>

ReplicasNext ==
    \E r \in Replica :
        \/ IncrementCounter(r) \/ DecrementCounter(r)
        \/ \E e \in Elements :
             \/ AddToSet(r, e) \/ RemoveFromSet(r, e)
             \/ AddEdge(r, e) \/ RemoveEdge(r, e)
             \/ \E value \in Values : PutInMap(r, e, value)
        \/ \E value \in Values, timestamp \in Stamps : SetRegister(r, value, timestamp)
        \/ \E o \in Replica : SyncFrom(r, o)

ReplicasSpec == ReplicasInit /\ [][ReplicasNext]_replica_vars

-----------------------------------------------------------------------------
Ids == (1 .. MaxUpdates) \X Replica
ORSets == [elements : SUBSET (Elements \X Ids), tombstones : SUBSET (Elements \X Ids),
           clock : 0 .. MaxUpdates]
Counts == [Replica -> 0 .. MaxUpdates]

\* Every field keeps its type.
ReplicasTypeOK ==
    /\ versions \in [Replica -> Counts] /\ positive \in [Replica -> Counts]
    /\ negative \in [Replica -> Counts]
    /\ \A r \in Replica : orset[r] \in ORSets /\ edges[r] \in ORSets
    /\ register \in [Replica -> [value : Values \cup {Unset}, timestamp : Stamps \cup {0},
                                 replica_id : Replica]]
    /\ ormap \in [Replica -> [Elements -> Values \cup {Unset}]]
    /\ cut \in [Replica -> SUBSET Elements]
    /\ updates \in 0 .. MaxUpdates /\ removed \subseteq Elements

StampedOnce == \A x, y \in stamped : x[1] = y[1] => x = y

\* A sync that is skipped because the version vector dominates would have
\* brought nothing: what the other replica knows of the counters, of the
\* keys of the map, of the neighbours in the graph and of every element that
\* nobody removed is known here, and the register here is as recent, with
\* the same value if no timestamp was used for two values.  So replicas with
\* equal version vectors agree on all of these.  An element that was removed
\* is left out: ORSet::merge passes over additions on one side only.
SkipLosesNothing ==
    \A r, o \in Replica : Dominates(versions[r], versions[o]) =>
        /\ Dominates(positive[r], positive[o]) /\ Dominates(negative[r], negative[o])
        /\ \A e \in Elements : ormap[o][e] # Unset => ormap[r][e] # Unset
        /\ cut[o] \subseteq cut[r] /\ Neighbors(o) \ cut[r] \subseteq Neighbors(r)
        /\ \A e \in Elements \ removed : HasElement(orset[o], e) => HasElement(orset[r], e)
        /\ register[r].timestamp >= register[o].timestamp
        /\ StampedOnce /\ register[r].timestamp = register[o].timestamp =>
             register[r].value = register[o].value

Dead(s, e) == IdsOf(s.tombstones, e) # {} /\ ~HasElement(s, e)

\* An element that a replica holds a tombstone for and does not contain comes
\* back there only when it is added there again: no merge, of however old a
\* state, resurrects it.
NoResurrection ==
    [][\A r \in Replica, e \in Elements :
         Dead(orset[r], e) /\ HasElement(orset'[r], e)
           => \E id \in IdsOf(orset'[r].elements, e) :
                id[2] = r /\ id[1] = orset[r].clock + 1]_replica_vars
=============================================================================
