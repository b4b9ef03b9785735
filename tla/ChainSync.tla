------------------------------- MODULE ChainSync -------------------------------
(***************************************************************************)
(* crates/truth/src/sync.rs and pruning.rs: what a node that catches up    *)
(* has received from its peers, and the archive of old blocks.             *)
(*                                                                         *)
(* Headers and blocks arrive in batches, from any peer, in any order, more *)
(* than once and not always asked for; the hash stands for the contents.   *)
(* StateSync keeps the first one it gets for a height and checks nothing   *)
(* else.  The pruner is used in two calls: a list of heights is computed   *)
(* from the chain's height and handed to prune later.                      *)
(***************************************************************************)
EXTENDS Integers, Sequences, Lists

CONSTANTS
    SyncHeights, Hashes,
    RequestSpan,        \* headers asked for at once, 100
    RetentionBlocks,    \* retention_blocks
    MinHeightToPrune,   \* min_height_to_prune
    NoBlock,
    MaxTip, MaxSyncCalls    \* bounds

ASSUME SyncAssumption ==
    /\ SyncHeights \subseteq Nat /\ RequestSpan \in Nat /\ RetentionBlocks \in Nat
    /\ MinHeightToPrune \in Nat /\ MaxTip \in Nat /\ MaxSyncCalls \in Nat
    /\ NoBlock \notin Hashes

Headers == [height : SyncHeights, hash : Hashes]
Batches == {<<>>} \cup {<<h>> : h \in Headers} \cup {<<g, h>> : g, h \in Headers}

VARIABLES
    pending_requests,   \* the last height of the request for each start height,
                        \*   NoBlock if there is none
    received_headers, received_blocks,
    archive,            \* hash archived at each height, or NoBlock
    heights,            \* the archived heights in the order of arrival
    prune_list,         \* a list that get_blocks_to_prune returned
    tip,                \* the chain's height
    sync_calls          \* operations so far, for the bound

sync_vars == <<pending_requests, received_headers, received_blocks, archive,
               heights, prune_list, tip, sync_calls>>
sync_part == <<pending_requests, received_headers, received_blocks>>
prune_part == <<archive, heights, prune_list, tip>>

ChainSyncInit ==
    /\ pending_requests = [h \in SyncHeights |-> NoBlock]
    /\ received_headers = <<>> /\ received_blocks = <<>>
    /\ archive = [h \in SyncHeights |-> NoBlock]
    /\ heights = <<>> /\ prune_list = <<>>
    /\ tip = 0
    /\ sync_calls = 0

SyncCall == sync_calls < MaxSyncCalls /\ sync_calls' = sync_calls + 1

-----------------------------------------------------------------------------
(* StateSync *)

RequestSync(h) ==
    /\ SyncCall
    /\ pending_requests' = [pending_requests EXCEPT ![h] = h + RequestSpan]
    /\ UNCHANGED <<received_headers, received_blocks, prune_part>>

Holds(received, item) == \E i \in DOMAIN received : received[i].height = item.height

NewToAll(received, batch) ==
    received \o SelectSeq(batch, LAMBDA item : ~Holds(received, item))

\* The loop over a batch: each item is compared with all received before it,
\* the earlier ones of the batch too.
Received(received, batch) ==
    FoldLeft(LAMBDA seen, item : IF Holds(seen, item) THEN seen ELSE Append(seen, item),
             received, batch)

ProcessHeaders(batch) ==
    /\ SyncCall
    /\ received_headers' = Received(received_headers, batch)
    /\ UNCHANGED <<pending_requests, received_blocks, prune_part>>

ProcessBlocks(batch) ==
    /\ SyncCall
    /\ received_blocks' = Received(received_blocks, batch)
    /\ UNCHANGED <<pending_requests, received_headers, prune_part>>

ClearSync ==
    /\ SyncCall
    /\ pending_requests' = [h \in SyncHeights |-> NoBlock]
    /\ received_headers' = <<>> /\ received_blocks' = <<>>
    /\ UNCHANGED prune_part

GetMissingHeights(from, to) ==
    {h \in from .. to : \A i \in DOMAIN received_headers : received_headers[i].height # h}

\* Only the highest header counts: heights below it may be missing.
IsSynced(target) ==
    \/ target = 0
    \/ \E i \in DOMAIN received_headers : received_headers[i].height >= target

-----------------------------------------------------------------------------
(* StatePruner *)

PushedAgain(h) == Append(heights, h)

PushedOnce(h) == IF h \in ToSet(heights) THEN heights ELSE Append(heights, h)

ArchiveBlock(h, hash) ==
    /\ SyncCall
    /\ archive' = [archive EXCEPT ![h] = hash]
    /\ heights' = PushedOnce(h)
    /\ UNCHANGED <<sync_part, prune_list, tip>>

RetentionHeight == IF tip >= RetentionBlocks THEN tip - RetentionBlocks ELSE 0

ShouldPrune == RetentionHeight > MinHeightToPrune

GetBlocksToPrune ==
    /\ SyncCall
    /\ prune_list' = IF ShouldPrune
                     THEN Retain(heights, {h \in SyncHeights : h < RetentionHeight})
                     ELSE <<>>
    /\ UNCHANGED <<sync_part, archive, heights, tip>>

\* The order of arrival without the heights that go, one after the other.
HeightsWithout(gone) ==
    FoldLeft(LAMBDA left, h : IF h \in gone THEN RemoveFirst(left, h) ELSE left,
             heights, prune_list)

\* prune: a height that is not archived any more is passed over.
PruneArchive ==
    LET gone == {h \in ToSet(prune_list) : archive[h] # NoBlock}
    IN  /\ SyncCall
        /\ archive' = [h \in SyncHeights |-> IF h \in gone THEN NoBlock ELSE archive[h]]
        /\ heights' = HeightsWithout(gone)
        /\ UNCHANGED <<sync_part, prune_list, tip>>

\* The chain grows.
Grow ==
    /\ tip < MaxTip
    /\ tip' = tip + 1
    /\ UNCHANGED <<sync_part, archive, heights, prune_list, sync_calls>>

ChainSyncNext ==
    \/ \E h \in SyncHeights : RequestSync(h)
    \/ \E batch \in Batches : ProcessHeaders(batch) \/ ProcessBlocks(batch)
    \/ \E h \in SyncHeights, hash \in Hashes : ArchiveBlock(h, hash)
    \/ ClearSync \/ GetBlocksToPrune \/ PruneArchive \/ Grow

ChainSyncSpec == ChainSyncInit /\ [][ChainSyncNext]_sync_vars

-----------------------------------------------------------------------------
\* Every field keeps its type.
ChainSyncTypeOK ==
    /\ pending_requests \in [SyncHeights -> Nat \cup {NoBlock}]
    /\ received_headers \in Seq(Headers) /\ received_blocks \in Seq(Headers)
    /\ archive \in [SyncHeights -> Hashes \cup {NoBlock}]
    /\ heights \in Seq(SyncHeights) /\ prune_list \in Seq(SyncHeights)
    /\ tip \in 0 .. MaxTip /\ sync_calls \in 0 .. MaxSyncCalls

DistinctHeights(received) ==
    \A i, j \in DOMAIN received : received[i].height = received[j].height => i = j

\* However the answers of the peers overlap, repeat or are reordered, no
\* height is received twice; so once nothing is missing up to a height the
\* node counts as synced there, with exactly one header for each height.
ReceivedOnce ==
    /\ DistinctHeights(received_headers) /\ DistinctHeights(received_blocks)
    /\ \A target \in SyncHeights :
         GetMissingHeights(1, target) = {} => IsSynced(target)

\* The order of arrival and the map of the archive hold the same heights,
\* each once, after any order of archiving, archiving again and pruning with
\* a list that is out of date: no height stays listed that has no block, and
\* none is forgotten by a later list.
ArchiveIndexed ==
    /\ ToSet(heights) = {h \in SyncHeights : archive[h] # NoBlock}
    /\ \A i, j \in DOMAIN heights : heights[i] = heights[j] => i = j
=============================================================================
