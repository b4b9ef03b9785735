---------------------------------- MODULE Rpc ----------------------------------
(***************************************************************************)
(* The node state shared by the RPC connections and the node's own tasks,  *)
(* crates/truth/src/rpc.rs.  Every field is behind a lock of its own; a    *)
(* task takes one lock, changes the field and lets the lock go before it   *)
(* awaits the next, so each locked section is an action and the sections   *)
(* of different tasks interleave.                                          *)
(*                                                                         *)
(* A task is a connection, which serves one request at a time, or a call   *)
(* of NodeState::add_transaction or store_block.  The index holds what the *)
(* server stores under the hash of the serialized transaction and what the *)
(* node stores under its id: two different keys of one transaction.        *)
(* Requests that only read leave no trace and are not actions.             *)
(***************************************************************************)
EXTENDS Integers, FiniteSets

CONSTANTS
    Txs, Tasks, BlockHeights,
    MaxPooled           \* bound on copies of one transaction in the mempool

ASSUME RpcAssumption == MaxPooled \in Nat

Keys == {"hash", "id"} \X Txs
Blocks == SUBSET Txs
Idle == [op |-> "closed", arg |-> {}]
Ops == {"closed", "open", "indexed", "pushed", "add", "store"}

VARIABLES
    transactions,       \* the keys under which a transaction is indexed
    mempool,            \* copies of each transaction: nothing takes them out
    blocks,             \* transactions of the block at each height
    task,               \* what each task is doing, and on which transactions
    answered            \* transactions a client was told are accepted

rpc_vars == <<transactions, mempool, blocks, task, answered>>

RpcInit ==
    /\ transactions = {}
    /\ mempool = [tx \in Txs |-> 0]
    /\ blocks = [h \in BlockHeights |-> {}]
    /\ task = [t \in Tasks |-> Idle]
    /\ answered = {}

Goto(t, op, arg) == task' = [task EXCEPT ![t] = [op |-> op, arg |-> arg]]

Push(tx) == mempool[tx] < MaxPooled /\ mempool' = [mempool EXCEPT ![tx] = @ + 1]

-----------------------------------------------------------------------------
(* Connections *)

AcceptConnection(t) ==
    /\ task[t].op = "closed"
    /\ Goto(t, "open", {})
    /\ UNCHANGED <<transactions, mempool, blocks, answered>>

\* The peer hangs up, a read fails or the request cannot be parsed.
EndConnection(t) ==
    /\ task[t].op = "open"
    /\ Goto(t, "closed", {})
    /\ UNCHANGED <<transactions, mempool, blocks, answered>>

SubmitIndexAnswered(t, tx) ==
    /\ task[t].op = "open"
    /\ mempool[tx] < MaxPooled
    /\ Goto(t, "indexed", {tx})
    /\ transactions' = transactions \cup {<<"hash", tx>>}
    /\ answered' = answered \cup {tx}
    /\ UNCHANGED <<mempool, blocks>>

\* submit_transaction: the index first, under the hash, ...
SubmitIndex(t, tx) ==
    /\ task[t].op = "open"
    /\ mempool[tx] < MaxPooled
    /\ Goto(t, "indexed", {tx})
    /\ transactions' = transactions \cup {<<"hash", tx>>}
    /\ UNCHANGED <<mempool, blocks, answered>>

\* ... then the mempool, whether or not the transaction is there already.
SubmitPush(t) ==
    /\ task[t].op = "indexed"
    /\ \E tx \in task[t].arg :
         /\ mempool' = [mempool EXCEPT ![tx] = @ + 1]
         /\ Goto(t, "pushed", {tx})
    /\ UNCHANGED <<transactions, blocks, answered>>

Respond(t) ==
    /\ task[t].op = "pushed"
    /\ answered' = answered \cup task[t].arg
    /\ Goto(t, "open", {})
    /\ UNCHANGED <<transactions, mempool, blocks>>

\* The response cannot be written: the transaction is in, the client was
\* not told and may submit it again.
RespondFails(t) ==
    /\ task[t].op = "pushed"
    /\ Goto(t, "closed", {})
    /\ UNCHANGED <<transactions, mempool, blocks, answered>>

-----------------------------------------------------------------------------
(* NodeState *)

AddPush(t, tx) ==
    /\ task[t].op = "closed"
    /\ Push(tx)
    /\ Goto(t, "add", {tx})
    /\ UNCHANGED <<transactions, blocks, answered>>

AddIndex(t) ==
    /\ task[t].op = "add"
    /\ transactions' = transactions \cup ({"id"} \X task[t].arg)
    /\ Goto(t, "closed", {})
    /\ UNCHANGED <<mempool, blocks, answered>>

\* A block replaces the one stored at its height.
StoreInsert(t, height, block) ==
    /\ task[t].op = "closed"
    /\ blocks' = [blocks EXCEPT ![height] = block]
    /\ Goto(t, "store", block)
    /\ UNCHANGED <<transactions, mempool, answered>>

StoreUnindexed(t) ==
    /\ task[t].op = "store"
    /\ Goto(t, "closed", {})
    /\ UNCHANGED <<transactions, mempool, blocks, answered>>

StoreIndex(t) ==
    /\ task[t].op = "store"
    /\ transactions' = transactions \cup ({"id"} \X task[t].arg)
    /\ Goto(t, "closed", {})
    /\ UNCHANGED <<mempool, blocks, answered>>

-----------------------------------------------------------------------------
\* A task that has begun goes on without an answer from anyone.
TaskStep(t) == SubmitPush(t) \/ Respond(t) \/ RespondFails(t) \/ AddIndex(t)
                 \/ StoreIndex(t)

RpcNext ==
    \E t \in Tasks :
        \/ AcceptConnection(t)
        \/ EndConnection(t)
        \/ TaskStep(t)
        \/ \E tx \in Txs : SubmitIndex(t, tx) \/ AddPush(t, tx)
        \/ \E height \in BlockHeights, block \in Blocks : StoreInsert(t, height, block)

\* The runtime polls every ready task again, and the locks are granted in
\* the order in which they are asked for.
RpcFairness == \A t \in Tasks : WF_rpc_vars(TaskStep(t))

RpcSpec == RpcInit /\ [][RpcNext]_rpc_vars /\ RpcFairness

-----------------------------------------------------------------------------
\* Every field keeps its type.
RpcTypeOK ==
    /\ transactions \subseteq Keys
    /\ mempool \in [Txs -> Nat]
    /\ blocks \in [BlockHeights -> Blocks]
    /\ task \in [Tasks -> [op : Ops, arg : SUBSET Txs]]
    /\ answered \subseteq Txs

GetTransaction(key) == key \in transactions
Findable(tx) == GetTransaction(<<"hash", tx>>) \/ GetTransaction(<<"id", tx>>)

\* The concurrent handlers implement the atomic pool of TxPool: whichever of
\* its two sections a handler runs first, a transaction counts as entered
\* when it is both in the mempool and in the index, and a client is told of
\* its transaction only after that.
Pool == INSTANCE TxPool WITH
            pool <- {tx \in Txs : mempool[tx] > 0 /\ Findable(tx)},
            acknowledged <- answered
ImplementsPool == Pool!Spec

\* Whatever the other tasks do, a transaction seen in the mempool and a block
\* that can be fetched become findable: every transaction of both ends up in
\* the index.
SeenBecomesFindable ==
    \A tx \in Txs :
        (mempool[tx] > 0 \/ \E h \in BlockHeights : tx \in blocks[h]) ~> Findable(tx)
=============================================================================
