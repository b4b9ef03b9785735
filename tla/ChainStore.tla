------------------------------ MODULE ChainStore ------------------------------
(***************************************************************************)
(* crates/truth/src/storage.rs: the state, the blocks and the snapshots of *)
(* a node, in memory and in the files of its data directory.               *)
(*                                                                         *)
(* persist writes one file after the other: state.json, one file for each  *)
(* block, block_index.json, snapshots.json.  Each write truncates the file *)
(* first, so it is two steps between which the file is Torn.  The process  *)
(* may crash at any step and a step may fail, after which persist returns  *)
(* its error and the process goes on.  persist borrows the storage, so the *)
(* memory does not change while it runs.                                   *)
(*                                                                         *)
(* A state or a block is a version number; a file carries, as history, the *)
(* number of the persist that wrote it.                                    *)
(***************************************************************************)
EXTENDS Integers, Sequences, FiniteSets

CONSTANTS
    StoreHeights, Versions,
    NoFile, Torn,
    MaxSnapshots,       \* snapshots kept, 100
    MaxPersists, MaxStoreCalls  \* bounds

ASSUME ChainStoreAssumption ==
    /\ StoreHeights \subseteq Nat /\ Versions \subseteq Nat /\ 0 \in Versions
    /\ MaxSnapshots \in Nat \ {0} /\ MaxPersists \in Nat /\ MaxStoreCalls \in Nat
    /\ NoFile # Torn

\* The heights that have a block, and its version.
BlockMaps == UNION {[H -> Versions] : H \in SUBSET StoreHeights}
SnapshotLists == UNION {[1 .. n -> StoreHeights] : n \in 0 .. MaxSnapshots}
Files(T) == [data : T, by : 1 .. MaxPersists] \cup {NoFile, Torn}

\* A file that is not there, or torn, is not one that can be read.
ASSUME FileAssumption ==
    {NoFile, Torn} \cap [data : Versions \cup (SUBSET StoreHeights) \cup SnapshotLists,
                         by : 1 .. MaxPersists] = {}

VARIABLES
    running,            \* the process is up and its storage loaded
    memory,             \* state, blocks and snapshots of the Storage value
    disk,               \* state, blocks, index and snapshots files
    saving,             \* the file persist is at, and the blocks still to write
    persists,           \* persists begun
    store_calls,        \* changes of the memory, for the bound
    last_saved          \* history: the memory when the last whole persist ended,
                        \*   NoFile when one was cut short after that

store_vars == <<running, memory, disk, saving, persists, store_calls, last_saved>>

NewStorage == [state |-> 0, blocks |-> <<>>, snapshots |-> <<>>]
NotSaving == [file |-> "none", open |-> FALSE, rest |-> {}, now |-> {}]

ChainStoreInit ==
    /\ running = TRUE
    /\ memory = NewStorage
    /\ disk = [state |-> NoFile, blocks |-> [h \in StoreHeights |-> NoFile],
               index |-> NoFile, snapshots |-> NoFile]
    /\ saving = NotSaving
    /\ persists = 0
    /\ store_calls = 0
    /\ last_saved = NewStorage

-----------------------------------------------------------------------------
(* The storage in memory *)

StoreCall ==
    /\ running /\ saving = NotSaving
    /\ store_calls < MaxStoreCalls /\ store_calls' = store_calls + 1
    /\ UNCHANGED <<running, disk, saving, persists, last_saved>>

SetState(version) ==
    /\ StoreCall
    /\ memory' = [memory EXCEPT !.state = version]

StoreBlock(h, version) ==
    /\ StoreCall
    /\ memory' = [memory EXCEPT !.blocks =
         [g \in DOMAIN memory.blocks \cup {h} |-> IF g = h THEN version ELSE memory.blocks[g]]]

\* The oldest snapshot goes when there are more than MaxSnapshots.
CreateSnapshot(h) ==
    LET all == Append(memory.snapshots, h)
    IN  /\ StoreCall
        /\ memory' = [memory EXCEPT !.snapshots =
                        IF Len(all) > MaxSnapshots THEN Tail(all) ELSE all]

\* prune: of the memory; the files of the blocks stay.
PruneStore(keep) ==
    /\ StoreCall
    /\ memory' = [memory EXCEPT !.blocks =
         [g \in {h \in DOMAIN memory.blocks : h >= keep} |-> memory.blocks[g]]]

-----------------------------------------------------------------------------
(* persist *)

Saving(file, open, rest, now) ==
    saving' = [file |-> file, open |-> open, rest |-> rest, now |-> now]

BeginPersist ==
    /\ running /\ saving = NotSaving
    /\ persists < MaxPersists
    /\ persists' = persists + 1
    /\ Saving("state", FALSE, DOMAIN memory.blocks, {})
    /\ last_saved' = NoFile
    /\ UNCHANGED <<running, memory, disk, store_calls>>

Written(data) == [data |-> data, by |-> persists]

NextFileIndexFirst == [state |-> "index", index |-> "blocks", blocks |-> "snapshots"]

\* The files in the order in which persist turns to them.
NextFile == [state |-> "blocks", blocks |-> "index", index |-> "snapshots"]

Whole(d) == Torn \notin {d.state, d.index, d.snapshots}

\* save_state, save_snapshots and the index at the end of save_blocks.  The
\* buffered writer is flushed when it is dropped, where an error goes
\* unnoticed: the file may stay Torn although the save succeeds.
SaveFile(file, data) ==
    /\ saving.file = file
    /\ IF ~saving.open
       THEN /\ disk' = [disk EXCEPT ![file] = Torn]
            /\ Saving(file, TRUE, saving.rest, {})
            /\ UNCHANGED last_saved
       ELSE /\ \E result \in {Written(data), Torn} : disk' = [disk EXCEPT ![file] = result]
            /\ IF file = "snapshots"
               THEN /\ saving' = NotSaving
                    /\ last_saved' = IF Whole(disk') THEN memory ELSE NoFile
               ELSE /\ Saving(NextFile[file], FALSE, saving.rest, {})
                    /\ UNCHANGED last_saved
    /\ UNCHANGED <<running, memory, persists, store_calls>>

SaveState == SaveFile("state", memory.state)
SaveIndex == SaveFile("index", DOMAIN memory.blocks)
SaveSnapshots == SaveFile("snapshots", memory.snapshots)

\* save_blocks: the blocks in the map's own order.
OpenBlock(h) ==
    /\ saving.file = "blocks" /\ saving.now = {} /\ h \in saving.rest
    /\ disk' = [disk EXCEPT !.blocks[h] = Torn]
    /\ Saving("blocks", TRUE, saving.rest \ {h}, {h})
    /\ UNCHANGED <<running, memory, persists, store_calls, last_saved>>

WriteBlock(h) ==
    /\ saving.file = "blocks" /\ h \in saving.now
    /\ disk' = [disk EXCEPT !.blocks[h] = Written(memory.blocks[h])]
    /\ Saving("blocks", FALSE, saving.rest, {})
    /\ UNCHANGED <<running, memory, persists, store_calls, last_saved>>

BlocksWritten ==
    /\ saving.file = "blocks" /\ saving.rest = {} /\ saving.now = {}
    /\ Saving(NextFile["blocks"], FALSE, {}, {})
    /\ UNCHANGED <<running, memory, disk, persists, store_calls, last_saved>>

\* An operation on a file fails: persist returns the error there.
PersistFails ==
    /\ saving # NotSaving
    /\ saving' = NotSaving
    /\ UNCHANGED <<running, memory, disk, persists, store_calls, last_saved>>

-----------------------------------------------------------------------------
(* load *)

IndexedByFiles == {h \in StoreHeights : disk.blocks[h] # NoFile}

\* The blocks that load looks for: those the index names, whose files may be
\* older than the index, and not every file that is there.
Indexed == IF disk.index = NoFile THEN {} ELSE disk.index.data
BlocksOnDisk == {h \in Indexed : disk.blocks[h] \notin {NoFile, Torn}}
Overlaid(blocks, H) ==
    [h \in DOMAIN blocks \cup H |-> IF h \in H THEN disk.blocks[h].data ELSE blocks[h]]

WithState(mem) == [mem EXCEPT !.state = disk.state.data]

\* What load may leave in memory, starting from mem, and whether it succeeds.
\* It stops at the first file that cannot be read, with what it has read by
\* then; the blocks are read in the order of the index, which is any order.
LoadOutcomes(mem) ==
    IF disk.state = NoFile
    THEN {[ok |-> TRUE, memory |-> [mem EXCEPT !.state = 0]]}
    ELSE IF disk.state = Torn
    THEN {[ok |-> FALSE, memory |-> mem]}
    ELSE IF disk.index = Torn
    THEN {[ok |-> FALSE, memory |-> WithState(mem)]}
    ELSE IF \E h \in Indexed : disk.blocks[h] = Torn
    THEN {[ok |-> FALSE,
           memory |-> [WithState(mem) EXCEPT !.blocks = Overlaid(mem.blocks, H)]] :
              H \in SUBSET BlocksOnDisk}
    ELSE LET read == [WithState(mem) EXCEPT !.blocks = Overlaid(mem.blocks, BlocksOnDisk)]
         IN  IF disk.snapshots = Torn THEN {[ok |-> FALSE, memory |-> read]}
             ELSE IF disk.snapshots = NoFile THEN {[ok |-> TRUE, memory |-> read]}
             ELSE {[ok |-> TRUE, memory |-> [read EXCEPT !.snapshots = disk.snapshots.data]]}

Crash ==
    /\ running
    /\ running' = FALSE
    /\ memory' = NewStorage
    /\ saving' = NotSaving
    /\ UNCHANGED <<disk, persists, store_calls, last_saved>>

\* load_or_create in a new process, which gives up unless it succeeds.
StartNode ==
    /\ ~running
    /\ \E outcome \in LoadOutcomes(NewStorage) :
         outcome.ok /\ memory' = outcome.memory
    /\ running' = TRUE
    /\ UNCHANGED <<disk, saving, persists, store_calls, last_saved>>

\* load_or_create in a process that goes on, whatever the outcome.
ReloadStorage ==
    /\ StoreCall
    /\ \E outcome \in LoadOutcomes(memory) : memory' = outcome.memory

ChainStoreNext ==
    \/ \E h \in StoreHeights :
         \/ \E version \in Versions : StoreBlock(h, version)
         \/ CreateSnapshot(h) \/ PruneStore(h) \/ OpenBlock(h) \/ WriteBlock(h)
    \/ \E version \in Versions : SetState(version)
    \/ BeginPersist \/ SaveState \/ BlocksWritten \/ SaveIndex \/ SaveSnapshots
    \/ PersistFails \/ Crash \/ StartNode \/ ReloadStorage

ChainStoreSpec == ChainStoreInit /\ [][ChainStoreNext]_store_vars

-----------------------------------------------------------------------------
Memories == [state : Versions, blocks : BlockMaps, snapshots : SnapshotLists]

\* Every field keeps its type.
ChainStoreTypeOK ==
    /\ running \in BOOLEAN
    /\ memory \in Memories
    /\ disk.state \in Files(Versions)
    /\ disk.blocks \in [StoreHeights -> Files(Versions)]
    /\ disk.index \in Files(SUBSET StoreHeights)
    /\ disk.snapshots \in Files(SnapshotLists)
    /\ saving.file \in {"none", "state", "blocks", "index", "snapshots"}
    /\ saving.rest \cup saving.now \subseteq StoreHeights
    /\ persists \in 0 .. MaxPersists /\ store_calls \in 0 .. MaxStoreCalls
    /\ last_saved \in Memories \cup {NoFile}

\* Once a persist has gone through, and until the next begins, a node that
\* starts on these files gets back exactly the memory that was saved: files
\* of blocks pruned since an earlier persist do not come back, and nothing
\* of an earlier, failed persist shows.
RestoredAsSaved ==
    last_saved # NoFile => LoadOutcomes(NewStorage) = {[ok |-> TRUE, memory |-> last_saved]}

Intact(file) == file \notin {NoFile, Torn}

\* Wherever a crash, a failed write or a lost flush cuts persist short, the
\* files that can be read are in the order in which they are written: the
\* state is at least as new as the index, the index as the snapshots, and
\* every block that the index names has a file at least as new as it.
FilesInOrder ==
    /\ Intact(disk.state) /\ Intact(disk.index) => disk.state.by >= disk.index.by
    /\ Intact(disk.index) /\ Intact(disk.snapshots) => disk.index.by >= disk.snapshots.by
    /\ Intact(disk.index) => \A h \in disk.index.data :
         /\ disk.blocks[h] # NoFile
         /\ Intact(disk.blocks[h]) => disk.blocks[h].by >= disk.index.by
=============================================================================
