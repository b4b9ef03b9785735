-------------------------------- MODULE Network --------------------------------
(***************************************************************************)
(* The peer table of a node, crates/net/src/p2p.rs, and the node around    *)
(* it, crates/net/src/network.rs.  The table and the ban list have a lock  *)
(* each, and no call holds both or keeps one over its next step: every     *)
(* locked section is an action, and the sections of concurrent calls       *)
(* interleave.  The wire is a stub in the code: a send that finds the peer *)
(* connected succeeds.                                                     *)
(*                                                                         *)
(* A node address is taken for the peer id that is its hash.  Peer entries *)
(* keep their status; ports, latencies and times are left out, and so are  *)
(* the node's own status and the running flag, on which nothing in the     *)
(* table depends.                                                          *)
(***************************************************************************)
EXTENDS FiniteSets

CONSTANTS
    PeerIds,
    Calls,              \* calls that may be under way at one time
    MessageTypes

PeerStatus == {"Connecting", "Connected", "Disconnected"}

\* A call: the section it is before, the peer it is at, the peers that follow,
\* and the status (of the peer to add) or the message type it carries.
Idling == [at |-> "idle", cur |-> {}, todo |-> {}, with |-> "none"]

VARIABLES
    peers,              \* status of each peer in the table, or "absent"
    banned,
    call,
    received            \* message types that each peer was sent

net_vars == <<peers, banned, call, received>>

NetInit ==
    /\ peers = [p \in PeerIds |-> "absent"]
    /\ banned = {}
    /\ call = [c \in Calls |-> Idling]
    /\ received = [p \in PeerIds |-> {}]

Known(p) == peers[p] # "absent"
IsConnected(p) == peers[p] = "Connected"
GetActivePeers == {p \in PeerIds : IsConnected(p)}

Begin(c, at, todo, with) ==
    /\ call[c].at = "idle"
    /\ call' = [call EXCEPT ![c] = [at |-> at, cur |-> {}, todo |-> todo, with |-> with]]
    /\ UNCHANGED <<peers, banned, received>>

\* The call takes up the next peer of its list.
Take(c, p, at) ==
    /\ p \in call[c].todo
    /\ call' = [call EXCEPT ![c].at = at, ![c].cur = {p}, ![c].todo = @ \ {p}]

\* The call is through with a peer: it comes back for the rest, or returns.
Through(c, todo, again) ==
    call' = [call EXCEPT ![c] = IF todo = {} THEN Idling
                                ELSE [@ EXCEPT !.at = again, !.cur = {}, !.todo = todo]]

At(c, at, p) == call[c].at = at /\ p \in call[c].cur

-----------------------------------------------------------------------------
(* add_peer: the ban list is read and let go, then the table is written. *)

\* One peer with the status its caller gave it (connect_to_bootnode gives
\* Connecting), or the peers of a discovery response, all as Connecting.
AddPeer(c, p, status) == Begin(c, "add", {p}, status)
HandleDiscoveryResponse(c, infos) == infos # {} /\ Begin(c, "add", infos, "Connecting")

CheckNothing(c, p) ==
    /\ call[c].at = "add"
    /\ Take(c, p, "insert")
    /\ UNCHANGED <<peers, banned, received>>

CheckBanned(c, p) ==
    /\ call[c].at = "add"
    /\ IF p \in banned
       THEN p \in call[c].todo /\ Through(c, call[c].todo \ {p}, "add")
       ELSE Take(c, p, "insert")
    /\ UNCHANGED <<peers, banned, received>>

\* An entry that is there is replaced, a connected one too.
InsertPeer(c, p) ==
    /\ At(c, "insert", p)
    /\ peers' = [peers EXCEPT ![p] = call[c].with]
    /\ Through(c, call[c].todo, "add")
    /\ UNCHANGED <<banned, received>>

-----------------------------------------------------------------------------
(* connect, and connect_bootstrap, which connects to one node at a time *)

ConnectBootstrap(c, nodes) == nodes # {} /\ Begin(c, "connect", nodes, "Connecting")

ConnectCheck(c, p) ==
    /\ call[c].at = "connect"
    /\ Take(c, p, IF p \in banned THEN "mark" ELSE "enter")
    /\ UNCHANGED <<peers, banned, received>>

ConnectInsert(c, p) ==
    /\ At(c, "enter", p)
    /\ peers' = [peers EXCEPT ![p] = "Connecting"]
    /\ call' = [call EXCEPT ![c].at = "mark"]
    /\ UNCHANGED <<banned, received>>

\* Whatever entry the table holds by now is marked; none is entered.
MarkConnected(c, p) ==
    /\ At(c, "mark", p)
    /\ peers' = [peers EXCEPT ![p] = IF Known(p) THEN "Connected" ELSE @]
    /\ Through(c, call[c].todo, "connect")
    /\ UNCHANGED <<banned, received>>

-----------------------------------------------------------------------------
(* disconnect, ban_peer and remove_peer *)

Disconnect(c, p) ==
    /\ call[c].at = "idle"
    /\ peers' = [peers EXCEPT ![p] = IF Known(p) THEN "Disconnected" ELSE @]
    /\ call' = [call EXCEPT ![c] = [@ EXCEPT !.at = "remove", !.cur = {p}]]
    /\ UNCHANGED <<banned, received>>

BanPeer(c, p) ==
    /\ call[c].at = "idle"
    /\ banned' = banned \cup {p}
    /\ call' = [call EXCEPT ![c] = [@ EXCEPT !.at = "remove", !.cur = {p}]]
    /\ UNCHANGED <<peers, received>>

\* Also a call of its own.
RemovePeer(c, p) ==
    /\ At(c, "remove", p) \/ call[c].at = "idle"
    /\ peers' = [peers EXCEPT ![p] = "absent"]
    /\ call' = [call EXCEPT ![c] = Idling]
    /\ UNCHANGED <<banned, received>>

-----------------------------------------------------------------------------
(* Broadcasts: the connected peers are listed once, then sent to in turn *)

\* broadcast_block, broadcast_transaction, broadcast_intelligence,
\* propagate_job, propagate_receipt and gossip_discovery differ in the type.
Broadcast(c, type) == GetActivePeers # {} /\ Begin(c, "send", GetActivePeers, type)

\* A peer that is no longer connected gets an error that is dropped.
SendToPeer(c, p) ==
    /\ call[c].at = "send"
    /\ p \in call[c].todo
    /\ received' = [received EXCEPT ![p] = IF IsConnected(p) THEN @ \cup {call[c].with}
                                           ELSE @]
    /\ Through(c, call[c].todo \ {p}, "send")
    /\ UNCHANGED <<peers, banned>>

-----------------------------------------------------------------------------
NetNext ==
    \E c \in Calls :
         \/ \E ps \in SUBSET PeerIds : HandleDiscoveryResponse(c, ps) \/ ConnectBootstrap(c, ps)
         \/ \E type \in MessageTypes : Broadcast(c, type)
         \/ \E p \in PeerIds :
              \/ \E status \in {"Connecting", "Connected"} : AddPeer(c, p, status)
              \/ CheckBanned(c, p) \/ InsertPeer(c, p)
              \/ ConnectCheck(c, p) \/ ConnectInsert(c, p) \/ MarkConnected(c, p)
              \/ Disconnect(c, p) \/ BanPeer(c, p) \/ RemovePeer(c, p)
              \/ SendToPeer(c, p)

NetSpec == NetInit /\ [][NetNext]_net_vars

-----------------------------------------------------------------------------
\* Every field keeps its type.
NetTypeOK ==
    /\ peers \in [PeerIds -> PeerStatus \cup {"absent"}]
    /\ banned \subseteq PeerIds
    /\ call \in [Calls -> [at : {"idle", "add", "insert", "connect", "enter", "mark",
                                 "remove", "send"},
                           cur : SUBSET PeerIds, todo : SUBSET PeerIds,
                           with : PeerStatus \cup MessageTypes \cup {"none"}]]
    /\ received \in [PeerIds -> SUBSET MessageTypes]

\* The calls that found p not to be banned and have yet to enter it.
PastCheck(p) == {c \in Calls : At(c, "insert", p) \/ At(c, "enter", p)}

\* A ban is never lifted, and no call passes the check of a banned peer.  Out of
\* the table, the peer gets no message, not from a broadcast that listed it
\* before the ban either, and enters again only by a call that was past the
\* check when it was banned, each once (add_peer looks at the ban list before
\* every insertion but lets its lock go, send_to_peer looks at the table).
BanHolds ==
    [][\A p \in banned :
          /\ p \in banned'
          /\ PastCheck(p)' \subseteq PastCheck(p)
          /\ ~Known(p) =>
               /\ received'[p] = received[p]
               /\ Known(p)' => PastCheck(p)' # PastCheck(p)]_net_vars
=============================================================================
