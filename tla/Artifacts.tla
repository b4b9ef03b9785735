------------------------------- MODULE Artifacts -------------------------------
(***************************************************************************)
(* The artifact store, crates/storage/src/artifact.rs: artifacts by id, an *)
(* index from content hashes to ids, metadata and integrity proofs by id,  *)
(* and the list of eviction candidates that a caller takes and works off   *)
(* later.  Sizes, descriptions and access counts, which nothing compares,  *)
(* are left out; the access time is the second the system clock shows,     *)
(* which is any of Times.                                                  *)
(***************************************************************************)
EXTENDS Integers, Sequences, FiniteSets, Lists

CONSTANTS
    ArtifactIds, ContentHashes, Times,
    TierChanges,                \* tiers an artifact may be moved to
    NoProof,
    MaxStores                   \* bound: ids in one list of the index

StorageTier == {"Hot", "Warm", "Cold", "Archived"}

ASSUME ArtifactsAssumption ==
    /\ Times \subseteq Nat \ {0} /\ TierChanges \subseteq StorageTier
    /\ MaxStores \in Nat

VARIABLES
    artifacts,          \* the artifacts stored, by id
    index,              \* for each content hash, ids in the order of storing
    proof,              \* content hash of the metadata and proof of each id
    candidates,         \* eviction candidates that a caller holds
    mutated,            \* history: ids whose content get_mut changed since they
                        \* were stored
    overwritten         \* history: ids whose content was ever changed in place,
                        \* by storing over them or through get_mut

artifact_vars == <<artifacts, index, proof, candidates, mutated, overwritten>>

ArtifactInit ==
    /\ artifacts = [i \in {} |-> 0]
    /\ index = [h \in ContentHashes |-> <<>>]
    /\ proof = [i \in ArtifactIds |-> NoProof]
    /\ candidates = <<>>
    /\ mutated = {} /\ overwritten = {}

Stored == DOMAIN artifacts

\* The tail of both ways to store: the artifact replaces one of the same id,
\* and the id is added to the list of its content hash.
StoreAs(id, hash, accessed) ==
    /\ Len(index[hash]) < MaxStores
    /\ artifacts' = [i \in Stored \cup {id} |->
                       IF i = id THEN [content_hash |-> hash, pinned |-> FALSE, tier |-> "Hot",
                                       last_accessed |-> accessed]
                       ELSE artifacts[i]]
    /\ index' = [index EXCEPT ![hash] = Append(@, id)]
    /\ mutated' = mutated \ {id}
    /\ overwritten' = IF id \in Stored THEN overwritten \cup {id} ELSE overwritten
    /\ UNCHANGED candidates

\* The proof and the metadata of an artifact of that id stay behind.
Store(id, hash) == StoreAs(id, hash, 0) /\ UNCHANGED proof

StoreWithMetadata(id, hash, now) ==
    /\ StoreAs(id, hash, now)
    /\ proof' = [proof EXCEPT ![id] = hash]

FindByHash(hash) == {i \in ToSet(index[hash]) : i \in Stored}

\* The proof's bytes are zero and stand for no hash: the first part of the
\* test fails for every artifact.
ProofVerifies == FALSE
VerifyIntegrity(id) ==
    id \in Stored /\ proof[id] # NoProof /\ ProofVerifies /\ proof[id] = artifacts[id].content_hash

ChangeArtifact(id, field, value) ==
    /\ id \in Stored
    /\ artifacts' = [artifacts EXCEPT ![id][field] = value]
    /\ UNCHANGED <<index, proof, candidates, mutated, overwritten>>

Pin(id) == ChangeArtifact(id, "pinned", TRUE)
Unpin(id) == ChangeArtifact(id, "pinned", FALSE)
SetStorageTier(id, tier) == ChangeArtifact(id, "tier", tier)

UpdateAccess(id, now) == ChangeArtifact(id, "last_accessed", now)

\* A caller of get_mut writes any field: here the content hash, which the index
\* is not told of; the fields above it changes as their own operations do.
MutateContent(id, hash) ==
    /\ id \in Stored /\ artifacts[id].content_hash # hash
    /\ artifacts' = [artifacts EXCEPT ![id].content_hash = hash]
    /\ mutated' = mutated \cup {id}
    /\ overwritten' = overwritten \cup {id}
    /\ UNCHANGED <<index, proof, candidates>>

IndexKept(id) == index

IndexWithout(id) ==
    [index EXCEPT ![artifacts[id].content_hash] = Retain(@, ArtifactIds \ {id})]

\* A pinned artifact is evicted as any other is.  An id is taken out of the list
\* of the content it has by then.
Evict(id) ==
    /\ id \in Stored
    /\ artifacts' = [i \in Stored \ {id} |-> artifacts[i]]
    /\ index' = IndexWithout(id)
    /\ proof' = [proof EXCEPT ![id] = NoProof]
    /\ mutated' = mutated \ {id}
    /\ UNCHANGED overwritten

EvictOne(id) == Evict(id) /\ UNCHANGED candidates

Evictable == {i \in Stored : ~artifacts[i].pinned /\ artifacts[i].tier = "Hot"}

\* The evictable ids, the one accessed longest ago first; the order of equal
\* times is that of the hash map.
EvictionOrders ==
    {s \in SetToSeqs(Evictable) :
        \A i, j \in DOMAIN s :
            i < j => artifacts[s[i]].last_accessed <= artifacts[s[j]].last_accessed}

GetEvictionCandidates(count) ==
    /\ \E s \in EvictionOrders :
          candidates' = SubSeq(s, 1, IF count < Len(s) THEN count ELSE Len(s))
    /\ UNCHANGED <<artifacts, index, proof, mutated, overwritten>>

\* The caller evicts the next of the candidates it took; one that is gone by
\* then is an error and changes nothing.
EvictCandidate ==
    /\ candidates # <<>>
    /\ candidates' = Tail(candidates)
    /\ IF Head(candidates) \in Stored THEN Evict(Head(candidates))
       ELSE UNCHANGED <<artifacts, index, proof, mutated, overwritten>>

ArtifactNext ==
    \/ \E i \in ArtifactIds, h \in ContentHashes : Store(i, h)
    \/ \E i \in ArtifactIds, h \in ContentHashes, t \in Times : StoreWithMetadata(i, h, t)
    \/ \E i \in ArtifactIds : Pin(i)
    \/ \E i \in ArtifactIds : Unpin(i)
    \/ \E i \in ArtifactIds, t \in TierChanges : SetStorageTier(i, t)
    \/ \E i \in ArtifactIds, t \in Times : UpdateAccess(i, t)
    \/ \E i \in ArtifactIds, h \in ContentHashes : MutateContent(i, h)
    \/ \E i \in ArtifactIds : EvictOne(i)
    \/ \E n \in 1..Cardinality(ArtifactIds) : GetEvictionCandidates(n)
    \/ EvictCandidate

ArtifactSpec == ArtifactInit /\ [][ArtifactNext]_artifact_vars

-----------------------------------------------------------------------------
(* find_by_hash finds every artifact under its content hash, through any   *)
(* order of storing, evicting (from a stale list too) and storing again,   *)
(* unless a caller of get_mut changed the hash since; storing once more    *)
(* repairs that.  It gives an artifact of another content only for an id   *)
(* whose content was changed in place at some time: the code removes none  *)
(* of the old entries of those, and an eviction leaves them for the        *)
(* artifact that is stored under the id later.                             *)
ArtifactFound ==
    /\ \A i \in Stored \ mutated : i \in FindByHash(artifacts[i].content_hash)
    /\ \A h \in ContentHashes : \A i \in FindByHash(h) :
          artifacts[i].content_hash = h \/ i \in overwritten
=============================================================================
