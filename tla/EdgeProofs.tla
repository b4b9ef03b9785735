------------------------------ MODULE EdgeProofs ------------------------------
(***************************************************************************)
(* Theorems about what surrounds the node: peers, partitions, replicated   *)
(* data, execution, artifacts, the client, observability and render packs. *)
(* Each holds for its component's own specification and for every value of *)
(* the constants.                                                          *)
(***************************************************************************)
EXTENDS Replicas, PartitionOps, Network, Routing, Execution, Artifacts, SdkClient,
        Observability, RenderPack, FoldLemmas, SequenceTheorems

-----------------------------------------------------------------------------
(* Lists *)

\* What is left of a list without its head.
LEMMA TailIs ==
    ASSUME NEW T, NEW s \in Seq(T), s # <<>>, OnceEach(s)
    PROVE  /\ Tail(s) \in Seq(T) /\ OnceEach(Tail(s))
           /\ Head(s) \in Range(s) /\ Range(Tail(s)) = Range(s) \ {Head(s)}
  <1>. DEFINE n == Len(s)
              r == Tail(s)
  <1>1. /\ n \in Nat /\ n >= 1 /\ DOMAIN s = 1 .. n /\ Head(s) = s[1]
        /\ r \in Seq(T) /\ DOMAIN r = 1 .. (n - 1) /\ \A i \in 1 .. (n - 1) : r[i] = s[i + 1]
    OBVIOUS
  <1>. HIDE DEF n, r
  <1>2. \A i, j \in 1 .. n : s[i] = s[j] => i = j
    BY <1>1 DEF OnceEach
  <1>3. ASSUME NEW i \in 1 .. (n - 1), NEW j \in 1 .. (n - 1), r[i] = r[j] PROVE i = j
    <2>1. i + 1 \in 1 .. n /\ j + 1 \in 1 .. n /\ s[i + 1] = s[j + 1]
      BY <1>1, <1>3
    <2>2. i + 1 = j + 1
      BY <1>2, <2>1
    <2>. QED  BY <2>2
  <1>4. OnceEach(r)
    BY <1>1, <1>3 DEF OnceEach
  <1>5. \A i \in 1 .. (n - 1) : r[i] \in Range(s) /\ r[i] # s[1]
    <2>1. ASSUME NEW i \in 1 .. (n - 1)
          PROVE  i + 1 \in DOMAIN s /\ r[i] = s[i + 1] /\ s[i + 1] # s[1]
      <3>1. i + 1 \in 1 .. n /\ i + 1 # 1 /\ 1 \in 1 .. n
        BY <1>1
      <3>. QED  BY <1>1, <1>2, <3>1
    <2>. QED  BY <2>1 DEF Range
  <1>6. ASSUME NEW i \in 1 .. n, s[i] # s[1] PROVE s[i] \in Range(r)
    <2>1. i - 1 \in 1 .. (n - 1) /\ (i - 1) + 1 = i
      BY <1>1, <1>6
    <2>2. r[i - 1] = s[i]
      BY <1>1, <2>1
    <2>. QED  BY <1>1, <2>1, <2>2 DEF Range
  <1>7. Range(r) \subseteq Range(s) \ {Head(s)}
    <2>1. \A x \in Range(r) : \E i \in 1 .. (n - 1) : x = r[i]
      BY <1>1 DEF Range
    <2>. QED  BY <1>1, <1>5, <2>1
  <1>8. Range(s) \ {Head(s)} \subseteq Range(r)
    <2>1. \A x \in Range(s) : \E i \in 1 .. n : x = s[i]
      BY <1>1 DEF Range
    <2>. QED  BY <1>1, <1>6, <2>1
  <1>9. Head(s) \in Range(s)
    BY <1>1 DEF Range
  <1>. QED  BY <1>1, <1>4, <1>7, <1>8, <1>9 DEF r

LEMMA BothLists ==
    ASSUME NEW T, NEW s \in Seq(T), NEW r \in Seq(T), OnceEach(s), OnceEach(r),
           Range(s) \cap Range(r) = {}
    PROVE  /\ s \o r \in Seq(T) /\ OnceEach(s \o r)
           /\ Range(s \o r) = Range(s) \cup Range(r)
  <1>. DEFINE m == Len(s)
              n == Len(r)
              b == s \o r
  <1>1. /\ m \in Nat /\ n \in Nat /\ DOMAIN s = 1 .. m /\ DOMAIN r = 1 .. n
        /\ b \in Seq(T) /\ DOMAIN b = 1 .. (m + n)
        /\ \A i \in 1 .. m : b[i] = s[i]
        /\ \A i \in 1 .. n : b[m + i] = r[i]
    OBVIOUS
  <1>. HIDE DEF m, n, b
  <1>2. \A i \in 1 .. (m + n) : i \in 1 .. m \/ (i - m \in 1 .. n /\ i = m + (i - m))
    BY <1>1
  <1>3. \A i \in 1 .. (m + n) : IF i \in 1 .. m THEN b[i] = s[i] ELSE b[i] = r[i - m]
    BY <1>1, <1>2
  <1>4. \A i \in 1 .. m, j \in 1 .. n : s[i] # r[j]
    BY <1>1 DEF Range
  <1>5. ASSUME NEW i \in 1 .. (m + n), NEW j \in 1 .. (m + n), b[i] = b[j] PROVE i = j
    <2>1. CASE i \in 1 .. m /\ j \in 1 .. m
      BY <1>1, <1>3, <1>5, <2>1 DEF OnceEach
    <2>2. CASE i \notin 1 .. m /\ j \notin 1 .. m
      <3>1. r[i - m] = r[j - m] /\ i - m \in DOMAIN r /\ j - m \in DOMAIN r
        BY <1>1, <1>2, <1>3, <1>5, <2>2
      <3>2. i - m = j - m
        BY <3>1 DEF OnceEach
      <3>. QED  BY <1>1, <3>2
    <2>3. CASE (i \in 1 .. m) # (j \in 1 .. m)
      BY <1>2, <1>3, <1>4, <1>5, <2>3
    <2>. QED  BY <2>1, <2>2, <2>3
  <1>6. OnceEach(b)
    BY <1>1, <1>5 DEF OnceEach
  <1>7. Range(b) \subseteq Range(s) \cup Range(r)
    <2>1. ASSUME NEW i \in 1 .. (m + n) PROVE b[i] \in Range(s) \cup Range(r)
      <3>1. CASE i \in 1 .. m
        BY <1>1, <3>1 DEF Range
      <3>2. CASE i \notin 1 .. m
        <4>1. i - m \in DOMAIN r /\ b[i] = r[i - m]
          BY <1>1, <1>2, <1>3, <3>2
        <4>. QED  BY <4>1 DEF Range
      <3>. QED  BY <3>1, <3>2
    <2>. QED  BY <1>1, <2>1 DEF Range
  <1>8. Range(s) \cup Range(r) \subseteq Range(b)
    <2>1. \A i \in 1 .. m : i \in DOMAIN b /\ s[i] = b[i]
      BY <1>1
    <2>2. \A i \in 1 .. n : m + i \in DOMAIN b /\ r[i] = b[m + i]
      BY <1>1
    <2>3. Range(s) \subseteq Range(b)
      BY <1>1, <2>1 DEF Range
    <2>4. Range(r) \subseteq Range(b)
      <3>1. \A i \in DOMAIN r : \E j \in DOMAIN b : r[i] = b[j]
        BY <1>1, <2>2
      <3>. QED  BY <3>1, Zenon DEF Range
    <2>. QED  BY <2>3, <2>4
  <1>. QED  BY <1>1, <1>6, <1>7, <1>8 DEF b

\* A list of all the elements of a finite set, each once.
LEMMA ListOfAll ==
    ASSUME NEW S, IsFiniteSet(S), NEW q \in SetToSeqs(S)
    PROVE  q \in Seq(S) /\ OnceEach(q) /\ Range(q) = S
  <1>. DEFINE n == Cardinality(S)
              D == 1 .. n
  <1>1. n \in Nat /\ IsFiniteSet(D) /\ Cardinality(D) = n
    BY FS_CardinalityType, FS_Interval
  <1>2. q \in [D -> S] /\ \A i, j \in D : i # j => q[i] # q[j]
    BY DEF SetToSeqs
  <1>. HIDE DEF n, D
  <1>3. q \in Bijection(D, Range(q)) /\ Range(q) \in SUBSET S
    BY <1>2 DEF Bijection, Injection, Surjection, IsInjective, Range
  <1>4. Cardinality(Range(q)) = n
    BY <1>1, <1>3, FS_Bijection DEF ExistsBijection
  <1>5. Range(q) = S
    BY <1>3, <1>4, FS_Subset DEF n
  <1>6. q \in Seq(S) /\ DOMAIN q = D
    BY <1>1, <1>2 DEF D
  <1>. QED  BY <1>2, <1>5, <1>6 DEF OnceEach

-----------------------------------------------------------------------------
(* Network *)

\* A call that adds peers carries the status to give them, a broadcast the
\* type of the message.
NetInv ==
    /\ NetTypeOK
    /\ \A c \in Calls :
         /\ call[c].at \in {"add", "insert"} => call[c].with \in PeerStatus
         /\ call[c].at = "send" => call[c].with \in MessageTypes

NetCalls == [at : {"idle", "add", "insert", "connect", "enter", "mark", "remove", "send"},
             cur : SUBSET PeerIds, todo : SUBSET PeerIds,
             with : PeerStatus \cup MessageTypes \cup {"none"}]

LEMMA ThroughType ==
    ASSUME NetInv, NEW c \in Calls, NEW todo \in SUBSET PeerIds,
           NEW again \in {"add", "connect", "send"}, Through(c, todo, again),
           again \in {"add", "send"} => call[c].at \in {again, "insert"},
           again = "send" => call[c].at = "send"
    PROVE  /\ call' \in [Calls -> NetCalls]
           /\ \A d \in Calls :
                /\ call'[d].at \in {"add", "insert"} => call'[d].with \in PeerStatus
                /\ call'[d].at = "send" => call'[d].with \in MessageTypes
  <1>1. call \in [Calls -> NetCalls]
    BY DEF NetInv, NetTypeOK, NetCalls
  <1>2. /\ \A d \in Calls : d # c => call'[d] = call[d]
        /\ DOMAIN call' = Calls /\ call' = [d \in Calls |-> call'[d]]
        /\ call'[c] = IF todo = {} THEN Idling
                      ELSE [call[c] EXCEPT !.at = again, !.cur = {}, !.todo = todo]
    BY <1>1 DEF Through
  <1>3. CASE todo = {}
    <2>1. call'[c] \in NetCalls /\ call'[c].at = "idle"
      BY <1>2, <1>3 DEF Idling, NetCalls
    <2>. QED  BY <1>1, <1>2, <2>1 DEF NetInv
  <1>4. CASE todo # {}
    <2>1. call[c] \in NetCalls
      BY <1>1
    <2>2. /\ call'[c] \in NetCalls
          /\ call'[c].at = again /\ call'[c].with = call[c].with
      BY <1>2, <1>4, <2>1 DEF NetCalls
    <2>. QED  BY <1>1, <1>2, <2>2 DEF NetInv
  <1>. QED  BY <1>3, <1>4

\* A peer is disconnected or banned by a call that has yet to remove it.
LEMMA RemovingType ==
    ASSUME NetInv, NEW c \in Calls, NEW p \in PeerIds, Disconnect(c, p) \/ BanPeer(c, p)
    PROVE  /\ call' \in [Calls -> NetCalls]
           /\ \A d \in Calls : d # c => call'[d] = call[d]
           /\ call'[c].at = "remove"
  <1>1. call \in [Calls -> NetCalls]
    BY DEF NetInv, NetTypeOK, NetCalls
  <1>2. call' = [call EXCEPT ![c] = [@ EXCEPT !.at = "remove", !.cur = {p}]]
    BY DEF Disconnect, BanPeer
  <1>3. /\ [call[c] EXCEPT !.at = "remove", !.cur = {p}] \in NetCalls
        /\ [call[c] EXCEPT !.at = "remove", !.cur = {p}].at = "remove"
    <2>1. call[c] \in NetCalls
      BY <1>1
    <2>2. \A x \in NetCalls : /\ [x EXCEPT !.at = "remove", !.cur = {p}] \in NetCalls
                              /\ [x EXCEPT !.at = "remove", !.cur = {p}].at = "remove"
      BY DEF NetCalls
    <2>. QED  BY <2>1, <2>2, Zenon
  <1>4. /\ DOMAIN call' = Calls /\ call' = [d \in Calls |-> call'[d]]
        /\ \A d \in Calls : d # c => call'[d] = call[d]
        /\ call'[c] = [call[c] EXCEPT !.at = "remove", !.cur = {p}]
    BY <1>1, <1>2
  <1>5. call'[c] \in NetCalls /\ call'[c].at = "remove"
    BY <1>3, <1>4, Zenon
  <1>. QED  BY <1>1, <1>4, <1>5

LEMMA NetInvStep == NetInv /\ [NetNext]_net_vars => NetInv'
  <1>. SUFFICES ASSUME NetInv, [NetNext]_net_vars PROVE NetInv'
    OBVIOUS
  <1>. USE DEF NetInv, NetTypeOK
  <1>1. ASSUME NEW c \in Calls, NEW at \in {"add", "connect", "send"},
               NEW todo \in SUBSET PeerIds,
               NEW with \in PeerStatus \cup MessageTypes, Begin(c, at, todo, with),
               at = "add" => with \in PeerStatus, at = "send" => with \in MessageTypes
        PROVE  NetInv'
    BY <1>1 DEF Begin
  <1>2. ASSUME NEW c \in Calls, NEW ps \in SUBSET PeerIds,
               HandleDiscoveryResponse(c, ps) \/ ConnectBootstrap(c, ps)
        PROVE  NetInv'
    BY <1>1, <1>2 DEF HandleDiscoveryResponse, ConnectBootstrap, PeerStatus
  <1>3. ASSUME NEW c \in Calls, NEW type \in MessageTypes, Broadcast(c, type) PROVE NetInv'
    BY <1>1, <1>3 DEF Broadcast, GetActivePeers
  <1>4. ASSUME NEW c \in Calls, NEW p \in PeerIds, NEW status \in {"Connecting", "Connected"},
               AddPeer(c, p, status)
        PROVE  NetInv'
    BY <1>1, <1>4 DEF AddPeer, PeerStatus
  <1>5. ASSUME NEW c \in Calls, NEW p \in PeerIds, CheckBanned(c, p) PROVE NetInv'
    <2>1. CASE p \in banned
      BY <1>5, <2>1, ThroughType DEF CheckBanned, NetCalls
    <2>2. CASE p \notin banned
      BY <1>5, <2>2 DEF CheckBanned, Take
    <2>. QED  BY <2>1, <2>2
  <1>6. ASSUME NEW c \in Calls, NEW p \in PeerIds, InsertPeer(c, p) PROVE NetInv'
    <2>1. peers' \in [PeerIds -> PeerStatus \cup {"absent"}]
      BY <1>6 DEF InsertPeer, At
    <2>. QED  BY <1>6, <2>1, ThroughType DEF InsertPeer, At, NetCalls
  <1>7. ASSUME NEW c \in Calls, NEW p \in PeerIds, ConnectCheck(c, p) PROVE NetInv'
    BY <1>7 DEF ConnectCheck, Take
  <1>8. ASSUME NEW c \in Calls, NEW p \in PeerIds, ConnectInsert(c, p) PROVE NetInv'
    BY <1>8 DEF ConnectInsert, At, PeerStatus
  <1>9. ASSUME NEW c \in Calls, NEW p \in PeerIds, MarkConnected(c, p) PROVE NetInv'
    <2>1. peers' \in [PeerIds -> PeerStatus \cup {"absent"}]
      BY <1>9 DEF MarkConnected, PeerStatus
    <2>. QED  BY <1>9, <2>1, ThroughType DEF MarkConnected, NetCalls
  <1>10. ASSUME NEW c \in Calls, NEW p \in PeerIds, Disconnect(c, p) \/ BanPeer(c, p)
         PROVE  NetInv'
    <2>1. /\ call' \in [Calls -> NetCalls]
          /\ \A d \in Calls : d # c => call'[d] = call[d]
          /\ call'[c].at = "remove"
      <3>. HIDE DEF NetInv, NetTypeOK
      <3>. QED  BY <1>10, RemovingType
    <2>2. /\ peers' \in [PeerIds -> PeerStatus \cup {"absent"}]
          /\ banned' \subseteq PeerIds /\ received' = received
      BY <1>10 DEF Disconnect, BanPeer, PeerStatus
    <2>. QED  BY <2>1, <2>2 DEF NetCalls
  <1>11. ASSUME NEW c \in Calls, NEW p \in PeerIds, RemovePeer(c, p) PROVE NetInv'
    BY <1>11 DEF RemovePeer, Idling
  <1>12. ASSUME NEW c \in Calls, NEW p \in PeerIds, SendToPeer(c, p) PROVE NetInv'
    <2>1. received' \in [PeerIds -> SUBSET MessageTypes]
      BY <1>12 DEF SendToPeer
    <2>. QED  BY <1>12, <2>1, ThroughType DEF SendToPeer, NetCalls
  <1>13. CASE UNCHANGED net_vars
    BY <1>13 DEF net_vars
  <1>. QED
    BY <1>2, <1>3, <1>4, <1>5, <1>6, <1>7, <1>8, <1>9, <1>10, <1>11, <1>12, <1>13 DEF NetNext

\* The peer table and the calls under way keep their types, and what a call
\* inserts is a status.
THEOREM NetHolds == NetSpec => []NetInv
  <1>1. NetInit => NetInv
    BY DEF NetInit, NetInv, NetTypeOK, Idling
  <1>. QED  BY <1>1, NetInvStep, PTL DEF NetSpec

\* What BanHolds says of one peer that is banned.
BanKept(p) ==
    /\ p \in banned'
    /\ PastCheck(p)' \subseteq PastCheck(p)
    /\ ~Known(p) =>
         /\ received'[p] = received[p]
         /\ Known(p)' => PastCheck(p)' # PastCheck(p)

\* A step that enters no peer and takes no call past the check of p.
Harmless(p) ==
    /\ p \in banned'
    /\ Known(p)' => Known(p)
    /\ ~Known(p) => received'[p] = received[p]
    /\ \A d \in Calls :
         call'[d] # call[d] => \/ call'[d].at \notin {"insert", "enter"}
                              \/ p \notin call'[d].cur

LEMMA HarmlessKeeps == ASSUME NEW p, Harmless(p) PROVE BanKept(p)
  <1>1. ASSUME NEW d \in PastCheck(p)' PROVE d \in PastCheck(p)
    <2>1. /\ d \in Calls /\ call'[d].at \in {"insert", "enter"}
          /\ p \in call'[d].cur
      BY <1>1 DEF PastCheck, At
    <2>2. call'[d] = call[d]
      BY <2>1 DEF Harmless
    <2>. QED  BY <2>1, <2>2 DEF PastCheck, At
  <1>. QED  BY <1>1 DEF Harmless, BanKept

\* The call that enters p was past the check and is no longer.
LEMMA EnteringKeeps ==
    ASSUME NetInv, NEW p \in banned, NEW c \in Calls, NEW q \in PeerIds,
           InsertPeer(c, q) \/ ConnectInsert(c, q)
    PROVE  BanKept(p)
  <1>1. /\ p \in banned' /\ received' = received
        /\ \A r \in PeerIds : r # q => peers'[r] = peers[r]
    BY DEF InsertPeer, ConnectInsert, NetInv, NetTypeOK
  <1>2. c \in PastCheck(q)
    BY DEF InsertPeer, ConnectInsert, PastCheck
  <1>3. /\ call'[c].at \notin {"insert", "enter"}
        /\ \A d \in Calls : d # c => call'[d] = call[d]
    <2>1. call \in [Calls -> NetCalls] /\ call[c] \in NetCalls
      BY DEF NetInv, NetTypeOK, NetCalls
    <2>2. CASE ConnectInsert(c, q)
      <3>1. call' = [call EXCEPT ![c].at = "mark"]
        BY <2>2 DEF ConnectInsert
      <3>. QED  BY <2>1, <3>1 DEF NetCalls
    <2>3. CASE InsertPeer(c, q)
      <3>1. Through(c, call[c].todo, "add")
        BY <2>3 DEF InsertPeer
      <3>. DEFINE next == [call[c] EXCEPT !.at = "add", !.cur = {}, !.todo = call[c].todo]
      <3>2. call' = [call EXCEPT ![c] = Idling] \/ call' = [call EXCEPT ![c] = next]
        BY <3>1 DEF Through
      <3>3. \A k \in NetCalls : \A t :
              [k EXCEPT !.at = "add", !.cur = {}, !.todo = t].at = "add"
        BY DEF NetCalls
      <3>4. next.at = "add" /\ Idling.at = "idle"
        BY <2>1, <3>3 DEF Idling
      <3>. HIDE DEF next
      <3>5. /\ call'[c] = Idling \/ call'[c] = next
            /\ \A d \in Calls : d # c => call'[d] = call[d]
        BY <2>1, <3>2
      <3>. QED  BY <3>4, <3>5
    <2>. QED  BY <2>2, <2>3
  <1>4. c \notin PastCheck(p)'
    BY <1>3 DEF PastCheck, At
  <1>5. PastCheck(p)' \subseteq PastCheck(p)
    BY <1>3, <1>4 DEF PastCheck, At
  <1>6. CASE p = q
    BY <1>1, <1>2, <1>4, <1>5, <1>6 DEF BanKept
  <1>7. CASE p # q
    <2>1. p \in PeerIds
      BY DEF NetInv, NetTypeOK
    <2>. QED  BY <1>1, <1>5, <1>7, <2>1 DEF BanKept, Known
  <1>. QED  BY <1>6, <1>7

LEMMA BanHoldsStep ==
    NetInv /\ [NetNext]_net_vars => [\A p \in banned : BanKept(p)]_net_vars
  <1>. SUFFICES ASSUME NetInv, NetNext, NEW p \in banned PROVE BanKept(p)
    OBVIOUS
  <1>. USE DEF NetInv, NetTypeOK, Known
  <1>1. ASSUME NEW c \in Calls, NEW at \in {"add", "connect", "send"}, NEW todo, NEW with,
               Begin(c, at, todo, with)
        PROVE  BanKept(p)
    <2>. Harmless(p)
      BY <1>1 DEF Begin, Harmless
    <2>. QED  BY HarmlessKeeps
  <1>2. ASSUME NEW c \in Calls, NEW ps \in SUBSET PeerIds,
               HandleDiscoveryResponse(c, ps) \/ ConnectBootstrap(c, ps)
        PROVE  BanKept(p)
    BY <1>1, <1>2 DEF HandleDiscoveryResponse, ConnectBootstrap
  <1>3. ASSUME NEW c \in Calls, NEW type \in MessageTypes, Broadcast(c, type)
        PROVE  BanKept(p)
    BY <1>1, <1>3 DEF Broadcast
  <1>4. ASSUME NEW c \in Calls, NEW q \in PeerIds, NEW status, AddPeer(c, q, status)
        PROVE  BanKept(p)
    BY <1>1, <1>4 DEF AddPeer
  <1>5. ASSUME NEW c \in Calls, NEW q \in PeerIds, CheckBanned(c, q)
        PROVE  BanKept(p)
    <2>1. CASE q \in banned
      <3>1. Through(c, call[c].todo \ {q}, "add") /\ UNCHANGED <<peers, banned, received>>
        BY <1>5, <2>1 DEF CheckBanned
      <3>2. \A d \in Calls : call'[d] # call[d] => call'[d].at \in {"idle", "add"}
        BY <3>1 DEF Through, Idling
      <3>3. Harmless(p)
        BY <3>1, <3>2 DEF Harmless
      <3>. QED  BY <3>3, HarmlessKeeps
    <2>2. CASE q \notin banned
      <3>1. Harmless(p)
        BY <1>5, <2>2 DEF CheckBanned, Take, Harmless
      <3>. QED  BY <3>1, HarmlessKeeps
    <2>. QED  BY <2>1, <2>2
  <1>6. ASSUME NEW c \in Calls, NEW q \in PeerIds, InsertPeer(c, q) \/ ConnectInsert(c, q)
        PROVE  BanKept(p)
    BY <1>6, EnteringKeeps
  <1>7. ASSUME NEW c \in Calls, NEW q \in PeerIds, ConnectCheck(c, q)
        PROVE  BanKept(p)
    <2>1. Harmless(p)
      BY <1>7 DEF ConnectCheck, Take, Harmless
    <2>. QED  BY <2>1, HarmlessKeeps
  <1>8. ASSUME NEW c \in Calls, NEW q \in PeerIds, MarkConnected(c, q)
        PROVE  BanKept(p)
    <2>1. \A d \in Calls : call'[d] # call[d] => call'[d].at \in {"idle", "connect"}
      BY <1>8 DEF MarkConnected, Through, Idling
    <2>2. Harmless(p)
      BY <1>8, <2>1 DEF MarkConnected, Harmless
    <2>. QED  BY <2>2, HarmlessKeeps
  <1>9. ASSUME NEW c \in Calls, NEW q \in PeerIds, Disconnect(c, q) \/ BanPeer(c, q)
        PROVE  BanKept(p)
    <2>1. \A d \in Calls : call'[d] # call[d] => call'[d].at = "remove"
      <3>. HIDE DEF NetInv
      <3>. QED  BY <1>9, RemovingType
    <2>2. p \in banned' /\ received' = received /\ (Known(p)' => Known(p))
      BY <1>9 DEF Disconnect, BanPeer
    <2>3. Harmless(p)
      BY <2>1, <2>2 DEF Harmless
    <2>. QED  BY <2>3, HarmlessKeeps
  <1>10. ASSUME NEW c \in Calls, NEW q \in PeerIds, RemovePeer(c, q)
         PROVE  BanKept(p)
    <2>1. Harmless(p)
      BY <1>10 DEF RemovePeer, Idling, Harmless
    <2>. QED  BY <2>1, HarmlessKeeps
  <1>11. ASSUME NEW c \in Calls, NEW q \in PeerIds, SendToPeer(c, q)
         PROVE  BanKept(p)
    <2>1. \A d \in Calls : call'[d] # call[d] => call'[d].at \in {"idle", "send"}
      BY <1>11 DEF SendToPeer, Through, Idling
    <2>2. Harmless(p)
      BY <1>11, <2>1 DEF SendToPeer, IsConnected, Harmless
    <2>. QED  BY <2>2, HarmlessKeeps
  <1>. QED
    BY <1>2, <1>3, <1>4, <1>5, <1>6, <1>7, <1>8, <1>9, <1>10, <1>11 DEF NetNext

\* A banned peer that is out of the table stays out and receives nothing, but
\* for one return by each call that was past the check when it was banned.
THEOREM BansHold == NetSpec => BanHolds
  BY NetHolds, BanHoldsStep, PTL DEF NetSpec, BanHolds, BanKept

-----------------------------------------------------------------------------
(* Partitions *)

\* What the global root covers, besides its being current: of the partitions
\* that exist the ones that were published and not deleted.
PartitionInv == PartitionTypeOK /\ GlobalRootCurrent

LEMMA PublishedIsCurrent ==
    ASSUME parts' \in [PartitionIds -> PartitionRecords \cup {NoPartition}], Publish
    PROVE  /\ GlobalRootCurrent' /\ unpublished' \subseteq PartitionIds
           /\ DOMAIN global_state_root' \subseteq PartitionIds
           /\ \A p \in DOMAIN global_state_root' : global_state_root'[p] \in StateRoots
  BY NoPartitionAssumption
     DEF Publish, RootOf, GlobalRootCurrent, Exists, In, PartitionRecords

LEMMA PartitionInvStep == PartitionInv /\ [PartitionNext]_partition_vars => PartitionInv'
  <1>. SUFFICES ASSUME PartitionInv, [PartitionNext]_partition_vars PROVE PartitionInv'
    OBVIOUS
  <1>0. PartitionTypeOK /\ GlobalRootCurrent
    BY DEF PartitionInv
  <1>. DEFINE Kinds == {"Create", "Migrate", "Delete", "Rebalance"}
              PartMaps == [PartitionIds -> PartitionRecords \cup {NoPartition}]
  <1>a. \A kind \in Kinds : Record(kind) => pending_operations' \in Seq(Kinds)
    BY <1>0 DEF PartitionTypeOK, Record
  <1>b. ASSUME NEW p \in PartitionIds, Exists(p), NEW status \in PartitionStatus,
               NEW epoch \in 0 .. MaxPartitionEpoch
        PROVE  /\ parts[p] \in PartitionRecords
               /\ WithStatus(p, status, epoch) \in PartitionRecords
               /\ WithStatus(p, status, epoch) # NoPartition
               /\ WithStatus(p, status, epoch).status = status
               /\ WithStatus(p, status, epoch).state_root = parts[p].state_root
               /\ [parts EXCEPT ![p] = WithStatus(p, status, epoch)] \in PartMaps
    <2>1. parts[p] \in PartitionRecords
      BY <1>0, <1>b DEF PartitionTypeOK, Exists
    <2>2. WithStatus(p, status, epoch) \in PartitionRecords
      BY <2>1, <1>b DEF WithStatus, PartitionRecords
    <2>. QED  BY <1>0, <2>1, <2>2, NoPartitionAssumption DEF WithStatus, PartitionTypeOK
  <1>c. \A p \in PartitionIds : Exists(p) => parts[p].epoch \in 0 .. MaxPartitionEpoch
    BY <1>0 DEF PartitionTypeOK, Exists, PartitionRecords
  <1>1. ASSUME NEW p \in PartitionIds, NEW signatures, CreatePartition(p, signatures)
        PROVE  PartitionInv'
    <2>. DEFINE new == [state_root |-> ZeroStateRoot, status |-> "Pending", epoch |-> 0,
                        validator_subset |-> {}]
    <2>1. new \in PartitionRecords /\ new # NoPartition
      BY PartitionAssumption, NoPartitionAssumption DEF PartitionRecords, PartitionStatus
    <2>2. parts' = [parts EXCEPT ![p] = new] /\ parts' \in PartMaps
      BY <1>0, <1>1, <2>1 DEF CreatePartition, PartitionTypeOK
    <2>3. PartitionTypeOK'
      BY <1>0, <1>1, <1>a, <2>2 DEF CreatePartition, PartitionTypeOK
    <2>4. GlobalRootCurrent'
      BY <1>0, <1>1, <2>2 DEF CreatePartition, GlobalRootCurrent, Exists, In, PartitionTypeOK
    <2>. QED  BY <2>3, <2>4 DEF PartitionInv
  <1>2. ASSUME NEW p \in PartitionIds, NEW epoch \in 0 .. MaxPartitionEpoch,
               ActivatePartition(p, epoch) \/ CompleteMigration(p, epoch)
        PROVE  PartitionInv'
    <2>1. /\ Exists(p) /\ parts' = [parts EXCEPT ![p] = WithStatus(p, "Active", epoch)]
          /\ partition_epoch' = epoch /\ Publish /\ UNCHANGED pending_operations
      BY <1>2 DEF ActivatePartition, CompleteMigration, In
    <2>2. parts' \in PartMaps
      BY <1>b, <2>1 DEF PartitionStatus
    <2>. QED  BY <1>0, <2>1, <2>2, PublishedIsCurrent DEF PartitionInv, PartitionTypeOK
  <1>3. ASSUME NEW p \in PartitionIds, DeletePartition(p) \/ FreezePartition(p)
        PROVE  PartitionInv'
    <2>1. /\ Exists(p) /\ Publish /\ UNCHANGED partition_epoch
          /\ \E status \in PartitionStatus :
               parts' = [parts EXCEPT ![p] = WithStatus(p, status, parts[p].epoch)]
          /\ pending_operations' \in Seq(Kinds)
      BY <1>0, <1>3, <1>a
         DEF DeletePartition, FreezePartition, In, Active, PartitionStatus, PartitionTypeOK
    <2>2. parts' \in PartMaps
      BY <1>b, <1>c, <2>1
    <2>. QED  BY <1>0, <2>1, <2>2, PublishedIsCurrent DEF PartitionInv, PartitionTypeOK
  <1>4. ASSUME NEW p \in PartitionIds, NEW subset \in SUBSET PartitionValidators,
               NEW epoch \in 0 .. MaxPartitionEpoch, RebalancePartition(p, subset, epoch)
        PROVE  PartitionInv'
    <2>. DEFINE new == [state_root |-> parts[p].state_root, status |-> parts[p].status,
                        epoch |-> epoch, validator_subset |-> subset]
    <2>1. Exists(p) /\ parts[p] \in PartitionRecords /\ parts' = [parts EXCEPT ![p] = new]
      BY <1>0, <1>4 DEF RebalancePartition, Active, In, Exists, PartitionTypeOK
    <2>2. new \in PartitionRecords /\ new # NoPartition
      BY <2>1, NoPartitionAssumption DEF PartitionRecords
    <2>3. PartitionTypeOK'
      BY <1>0, <1>4, <1>a, <2>1, <2>2 DEF RebalancePartition, PartitionTypeOK
    <2>4. GlobalRootCurrent'
      BY <1>0, <1>4, <2>1, <2>2
         DEF RebalancePartition, GlobalRootCurrent, Exists, In, PartitionTypeOK
    <2>. QED  BY <2>3, <2>4 DEF PartitionInv
  <1>5. ASSUME NEW p \in PartitionIds, NEW target \in PartitionIds, NEW root \in StateRoots,
               MigratePartition(p, target, root)
        PROVE  PartitionInv'
    <2>. DEFINE moved == [parts EXCEPT ![p] = WithStatus(p, "Migrating", parts[p].epoch)]
                new == [state_root |-> root, status |-> "Active", epoch |-> moved[target].epoch,
                        validator_subset |-> moved[target].validator_subset]
    <2>1. Exists(p) /\ parts[p].status = "Active"
      BY <1>5 DEF MigratePartition, Active, In
    <2>2. /\ moved \in PartMaps /\ moved[p] # NoPartition /\ moved[p].status = "Migrating"
          /\ moved[p].state_root = parts[p].state_root
          /\ \A q \in PartitionIds : q # p => moved[q] = parts[q]
      BY <1>0, <1>b, <1>c, <2>1 DEF PartitionTypeOK, PartitionStatus
    <2>3. parts' = IF moved[target] # NoPartition /\ moved[target].status = "Active"
                   THEN [moved EXCEPT ![target] = new] ELSE moved
      BY <1>5 DEF MigratePartition
    <2>4. /\ unpublished' = unpublished \cup {q \in {target} : parts'[q] # parts[q]}
          /\ UNCHANGED <<global_state_root, partition_epoch>>
          /\ pending_operations' \in Seq(Kinds)
      BY <1>5, <1>a DEF MigratePartition
    <2>. HIDE DEF moved
    <2>5. CASE moved[target] # NoPartition /\ moved[target].status = "Active"
      <3>1. new \in PartitionRecords /\ new # NoPartition
        BY <2>2, <2>5, NoPartitionAssumption DEF PartitionRecords, PartitionStatus
      <3>2. target # p /\ parts'[target] = new /\ parts'[p] = moved[p] /\ parts' \in PartMaps
            /\ \A q \in PartitionIds \ {p, target} : parts'[q] = parts[q]
        BY <2>2, <2>3, <2>5, <3>1
      <3>3. moved[target] = parts[target] /\ new.status = "Active"
            /\ (target \notin unpublished' => parts'[target] = parts[target])
        BY <2>2, <2>4, <3>2
      <3>. HIDE DEF new
      <3>4. GlobalRootCurrent'
        BY <1>0, <2>1, <2>2, <2>4, <2>5, <3>1, <3>2, <3>3
           DEF GlobalRootCurrent, Exists, In, PartitionTypeOK
      <3>. QED  BY <1>0, <2>4, <3>2, <3>4 DEF PartitionInv, PartitionTypeOK
    <2>6. CASE ~(moved[target] # NoPartition /\ moved[target].status = "Active")
      <3>1. parts' = moved
        BY <2>3, <2>6
      <3>2. GlobalRootCurrent'
        BY <1>0, <2>1, <2>2, <2>4, <3>1 DEF GlobalRootCurrent, Exists, In, PartitionTypeOK
      <3>. QED  BY <1>0, <2>2, <2>4, <3>1, <3>2 DEF PartitionInv, PartitionTypeOK
    <2>. QED  BY <2>5, <2>6
  <1>6. ASSUME NEW epoch \in 0 .. MaxPartitionEpoch, AdvancePartitionEpoch(epoch)
        PROVE  PartitionInv'
    BY <1>0, <1>6
       DEF AdvancePartitionEpoch, PartitionInv, PartitionTypeOK, GlobalRootCurrent, Exists, In
  <1>7. CASE UNCHANGED partition_vars
    BY <1>0, <1>7
       DEF partition_vars, PartitionInv, PartitionTypeOK, GlobalRootCurrent, Exists, In
  <1>. QED  BY <1>1, <1>2, <1>3, <1>4, <1>5, <1>6, <1>7 DEF PartitionNext

\* The partitions, their operations and the global root keep their types.
THEOREM PartitionTypes == PartitionSpec => []PartitionTypeOK
  <1>1. PartitionInit => PartitionInv
    BY PartitionAssumption
       DEF PartitionInit, PartitionInv, PartitionTypeOK, GlobalRootCurrent, Exists, In
  <1>2. PartitionInv => PartitionTypeOK
    BY DEF PartitionInv
  <1>. QED  BY <1>1, <1>2, PartitionInvStep, PTL DEF PartitionSpec

\* The global root covers every partition from its activation to its deletion
\* and is current but for the targets of migrations since.
THEOREM GlobalRootIsCurrent == PartitionSpec => []GlobalRootCurrent
  <1>1. PartitionInit => PartitionInv
    BY PartitionAssumption
       DEF PartitionInit, PartitionInv, PartitionTypeOK, GlobalRootCurrent, Exists, In
  <1>2. PartitionInv => GlobalRootCurrent
    BY DEF PartitionInv
  <1>. QED  BY <1>1, <1>2, PartitionInvStep, PTL DEF PartitionSpec

-----------------------------------------------------------------------------
(* Replicated data: what a version vector stands for *)

\* Every fact that a replica knows has a birth, an update that its vector
\* covers and that nobody's vector covers who does not know the fact.
Backed(v, known) ==
    \A r \in Replica : \A fact \in known[r] : \E q \in Replica, n \in Nat :
        n <= v[r][q] /\ \A x \in Replica : v[x][q] >= n => fact \in known[x]

\* Nobody has counted more updates of a replica than it has itself.
OwnLeads(v) == \A r, q \in Replica : v[r][q] <= v[q][q]

Vectors == [Replica -> [Replica -> Nat]]

\* A local update may add to what its replica knows: it is the birth of that.
LEMMA BackedUpdate ==
    ASSUME NEW v \in Vectors, OwnLeads(v), NEW r \in Replica, NEW known, NEW more,
           Backed(v, known), \A x \in Replica \ {r} : more[x] = known[x],
           known[r] \subseteq more[r]
    PROVE  Backed([v EXCEPT ![r] = Increment(@, r)], more)
  <1>. DEFINE w == [v EXCEPT ![r] = Increment(@, r)]
  <1>1. /\ w[r][r] = v[r][r] + 1
        /\ \A x, q \in Replica : x # r \/ q # r => w[x][q] = v[x][q]
        /\ \A x, q \in Replica : v[x][q] \in Nat /\ w[x][q] \in Nat
    BY DEF Increment, Vectors
  <1>. HIDE DEF w
  <1>2. ASSUME NEW x \in Replica, NEW fact \in known[x]
        PROVE  \E q \in Replica, n \in Nat :
                 n <= w[x][q] /\ \A y \in Replica : w[y][q] >= n => fact \in more[y]
    <2>1. PICK q \in Replica, n \in Nat :
             n <= v[x][q] /\ \A y \in Replica : v[y][q] >= n => fact \in known[y]
      BY <1>2 DEF Backed
    <2>2. n <= v[q][q]
      BY <1>1, <2>1 DEF OwnLeads
    <2>3. \A y \in Replica : w[y][q] >= n => v[y][q] >= n
      BY <1>1, <2>2
    <2>4. \A y \in Replica : fact \in known[y] => fact \in more[y]
      OBVIOUS
    <2>5. n <= w[x][q]
      BY <1>1, <2>1
    <2>. QED  BY <2>1, <2>3, <2>4, <2>5
  <1>3. ASSUME NEW fact \in more[r]
        PROVE  \E q \in Replica, n \in Nat :
                 n <= w[r][q] /\ \A y \in Replica : w[y][q] >= n => fact \in more[y]
    <2>1. \A y \in Replica : w[y][r] >= w[r][r] => y = r
      BY <1>1 DEF OwnLeads
    <2>2. w[r][r] \in Nat /\ w[r][r] <= w[r][r]
      BY <1>1
    <2>. QED  BY <1>3, <2>1, <2>2
  <1>4. ASSUME NEW x \in Replica, NEW fact \in more[x]
        PROVE  \E q \in Replica, n \in Nat :
                 n <= w[x][q] /\ \A y \in Replica : w[y][q] >= n => fact \in more[y]
    <2>1. CASE x = r
      BY <1>3, <1>4, <2>1
    <2>2. CASE x # r
      BY <1>2, <1>4, <2>2
    <2>. QED  BY <2>1, <2>2
  <1>5. Backed(w, more)
    BY <1>4 DEF Backed
  <1>. QED  BY <1>5 DEF w

\* A merge brings what the other replica knows together with its vector.
LEMMA BackedSync ==
    ASSUME NEW v \in Vectors, NEW r \in Replica, NEW o \in Replica, NEW known, NEW more,
           Backed(v, known), \A x \in Replica \ {r} : more[x] = known[x],
           more[r] = known[r] \cup known[o]
    PROVE  Backed([v EXCEPT ![r] = MergeCounts(@, v[o])], more)
  <1>. DEFINE w == [v EXCEPT ![r] = MergeCounts(@, v[o])]
  <1>1. /\ \A x, q \in Replica : x # r => w[x][q] = v[x][q]
        /\ \A q \in Replica : \/ w[r][q] = v[r][q] /\ v[r][q] >= v[o][q]
                              \/ w[r][q] = v[o][q] /\ v[o][q] >= v[r][q]
        /\ \A x, q \in Replica : v[x][q] \in Nat /\ w[x][q] \in Nat
    BY DEF MergeCounts, Larger, Vectors
  <1>. HIDE DEF w
  <1>2. ASSUME NEW x \in Replica, NEW fact \in known[x]
        PROVE  \E q \in Replica, n \in Nat :
                 /\ n <= v[x][q] /\ n <= w[x][q]
                 /\ x = o => n <= w[r][q]
                 /\ \A y \in Replica : w[y][q] >= n => fact \in more[y]
    <2>1. PICK q \in Replica, n \in Nat :
             n <= v[x][q] /\ \A y \in Replica : v[y][q] >= n => fact \in known[y]
      BY <1>2 DEF Backed
    <2>2. n <= w[x][q] /\ (x = o => n <= w[r][q])
      BY <1>1, <2>1
    <2>3. ASSUME NEW y \in Replica, w[y][q] >= n PROVE fact \in more[y]
      <3>1. CASE y = r
        <4>1. v[r][q] >= n \/ v[o][q] >= n
          BY <1>1, <2>3, <3>1
        <4>. QED  BY <2>1, <3>1, <4>1
      <3>2. CASE y # r
        BY <1>1, <2>1, <2>3, <3>2
      <3>. QED  BY <3>1, <3>2
    <2>. QED  BY <2>1, <2>2, <2>3
  <1>3. ASSUME NEW x \in Replica, NEW fact \in more[x]
        PROVE  \E q \in Replica, n \in Nat :
                 n <= w[x][q] /\ \A y \in Replica : w[y][q] >= n => fact \in more[y]
    <2>1. CASE fact \in known[x]
      BY <1>2, <2>1
    <2>2. CASE fact \notin known[x]
      <3>1. x = r /\ fact \in known[o]
        BY <1>3, <2>2
      <3>. QED  BY <1>2, <3>1
    <2>. QED  BY <2>1, <2>2
  <1>4. Backed(w, more)
    BY <1>3 DEF Backed
  <1>. QED  BY <1>4 DEF w

\* Who has counted as many updates of everyone knows all that the other does.
LEMMA BackedDominated ==
    ASSUME NEW v \in Vectors, NEW r \in Replica, NEW o \in Replica, NEW known,
           Backed(v, known), Dominates(v[r], v[o])
    PROVE  known[o] \subseteq known[r]
  <1>. SUFFICES ASSUME NEW fact \in known[o] PROVE fact \in known[r]
    OBVIOUS
  <1>1. PICK q \in Replica, n \in Nat :
           n <= v[o][q] /\ \A x \in Replica : v[x][q] >= n => fact \in known[x]
    BY DEF Backed
  <1>2. v[r][q] >= v[o][q] /\ v[r][q] \in Nat /\ v[o][q] \in Nat
    BY DEF Dominates, Vectors
  <1>. QED  BY <1>1, <1>2

\* Facts that everyone forgets take their births with them.
LEMMA BackedForget ==
    ASSUME NEW v, NEW known, NEW gone, NEW less, Backed(v, known),
           \A x \in Replica : less[x] = known[x] \ gone
    PROVE  Backed(v, less)
  BY DEF Backed

LEMMA OwnLeadsStep ==
    ASSUME NEW v \in Vectors, OwnLeads(v), NEW r \in Replica, NEW o \in Replica
    PROVE  /\ [v EXCEPT ![r] = Increment(@, r)] \in Vectors
           /\ OwnLeads([v EXCEPT ![r] = Increment(@, r)])
           /\ [v EXCEPT ![r] = MergeCounts(@, v[o])] \in Vectors
           /\ OwnLeads([v EXCEPT ![r] = MergeCounts(@, v[o])])
  <1>1. [v EXCEPT ![r] = Increment(@, r)] \in Vectors
    BY DEF Increment, Vectors
  <1>2. OwnLeads([v EXCEPT ![r] = Increment(@, r)])
    BY DEF Increment, Vectors, OwnLeads
  <1>3. \A q \in Replica : MergeCounts(v[r], v[o])[q] \in {v[r][q], v[o][q]}
    BY DEF MergeCounts, Larger, Vectors
  <1>4. [v EXCEPT ![r] = MergeCounts(@, v[o])] \in Vectors
    BY DEF MergeCounts, Larger, Vectors
  <1>5. \A x, q \in Replica : v[x][q] \in Nat /\ v[x][q] <= v[q][q]
    BY DEF Vectors, OwnLeads
  <1>6. MergeCounts(v[r], v[o])[r] = v[r][r]
    BY <1>5 DEF MergeCounts, Larger
  <1>7. OwnLeads([v EXCEPT ![r] = MergeCounts(@, v[o])])
    <2>. DEFINE m == MergeCounts(v[r], v[o])
                w == [v EXCEPT ![r] = m]
    <2>1. w[r] = m /\ \A x \in Replica : x # r => w[x] = v[x]
      BY DEF Vectors
    <2>. HIDE DEF m, w
    <2>2. \A x, q \in Replica : w[x][q] <= v[q][q] /\ w[q][q] = v[q][q]
      BY <1>3, <1>5, <1>6, <2>1 DEF m
    <2>3. OwnLeads(w)
      BY <2>2 DEF OwnLeads
    <2>. QED  BY <2>3 DEF w, m
  <1>. QED  BY <1>1, <1>2, <1>4, <1>7

-----------------------------------------------------------------------------
(* Replicated data: types *)

\* Finitely many numbers have a bound.
LEMMA BoundOf ==
    ASSUME NEW S, IsFiniteSet(S), S \subseteq Nat
    PROVE  \E b \in Nat : \A x \in S : x <= b
  <1>. DEFINE good == {s \in SUBSET S : \E b \in Nat : \A x \in s : x <= b}
  <1>1. {} \in good
    OBVIOUS
  <1>2. ASSUME NEW s \in SUBSET S, s # {}, s \ {First(s)} \in good PROVE s \in good
    <2>1. PICK b \in Nat : \A x \in s \ {First(s)} : x <= b
      BY <1>2
    <2>2. First(s) \in Nat
      BY <1>2 DEF First
    <2>3. \A x \in s : x <= b + First(s)
      BY <2>1, <2>2
    <2>4. b + First(s) \in Nat
      BY <2>2
    <2>. QED  BY <2>3, <2>4
  <1>3. S \in good
    <2>. HIDE DEF good
    <2>. QED  BY <1>1, <1>2, FirstInduction
  <1>. QED  BY <1>3

\* Of the ids of an element, the one that remove gives a tombstone is one.
LEMMA LastIdIs ==
    ASSUME NEW ids \in SUBSET Ids, ids # {}
    PROVE  LastId(ids) \in ids
  <1>1. PICK b \in Nat : \A x \in Replica : x <= b
    BY BoundOf, ReplicasAssumption
  <1>2. \A id \in ids : /\ id[1] \in Nat /\ id[1] <= MaxUpdates /\ id[2] \in Nat /\ id[2] <= b
                        /\ MaxUpdates - id[1] \in Nat /\ b - id[2] \in Nat
    <2>. SUFFICES ASSUME NEW id \in ids
                  PROVE  /\ id[1] \in Nat /\ id[1] <= MaxUpdates /\ id[2] \in Nat /\ id[2] <= b
                         /\ MaxUpdates - id[1] \in Nat /\ b - id[2] \in Nat
      OBVIOUS
    <2>1. id[1] \in 1 .. MaxUpdates /\ id[2] \in Replica
      BY DEF Ids
    <2>2. id[2] \in Nat /\ id[2] <= b
      BY <1>1, <2>1, ReplicasAssumption
    <2>. QED  BY <2>1, <2>2, ReplicasAssumption
  <1>. DEFINE A == {b - id[2] : id \in ids}
  <1>3. PICK a \in A : \A x \in A : a <= x
    <2>1. A \subseteq Nat /\ A # {}
      BY <1>2
    <2>. HIDE DEF A
    <2>. QED  BY <2>1, SmallestNat
  <1>. DEFINE B == {MaxUpdates - id[1] : id \in {x \in ids : b - x[2] = a}}
  <1>4. PICK c \in B : \A x \in B : c <= x
    <2>1. B \subseteq Nat /\ B # {}
      BY <1>2, <1>3
    <2>. HIDE DEF B
    <2>. QED  BY <2>1, SmallestNat
  <1>5. PICK last \in ids : b - last[2] = a /\ MaxUpdates - last[1] = c
    BY <1>4
  <1>6. ASSUME NEW other \in ids
        PROVE  other[2] < last[2] \/ (other[2] = last[2] /\ other[1] <= last[1])
    <2>1. a <= b - other[2]
      BY <1>3
    <2>2. b - other[2] = a => c <= MaxUpdates - other[1]
      BY <1>4
    <2>. QED  BY <1>2, <1>5, <2>1, <2>2, ReplicasAssumption
  <1>. QED  BY <1>5, <1>6 DEF LastId

Within(v, n) == v \in [Replica -> Counts] /\ \A r, q \in Replica : v[r][q] <= n
SetsWithin(s, n) == s \in [Replica -> ORSets] /\ \A r \in Replica : s[r].clock <= n

LEMMA CountsWithin ==
    ASSUME NEW n \in 0 .. MaxUpdates, NEW v, Within(v, n), NEW r \in Replica, NEW o \in Replica
    PROVE  /\ n < MaxUpdates => /\ Within(v, n + 1)
                                /\ Within([v EXCEPT ![r] = Increment(@, r)], n + 1)
           /\ Within([v EXCEPT ![r] = MergeCounts(@, v[o])], n)
  <1>. USE ReplicasAssumption
  <1>1. n < MaxUpdates => Within([v EXCEPT ![r] = Increment(@, r)], n + 1)
    BY DEF Within, Counts, Increment
  <1>2. n < MaxUpdates => Within(v, n + 1)
    BY DEF Within, Counts
  <1>3. Within([v EXCEPT ![r] = MergeCounts(@, v[o])], n)
    BY DEF Within, Counts, MergeCounts, Larger
  <1>. QED  BY <1>1, <1>2, <1>3

LEMMA AddWithin ==
    ASSUME NEW n \in 0 .. MaxUpdates, n < MaxUpdates, NEW s, SetsWithin(s, n),
           NEW r \in Replica, NEW e \in Elements
    PROVE  /\ SetsWithin(s, n + 1)
           /\ SetsWithin([s EXCEPT ![r] = AddElement(@, r, e)], n + 1)
  <1>. USE ReplicasAssumption
  <1>1. SetsWithin(s, n + 1)
    BY DEF SetsWithin, ORSets
  <1>2. s[r].clock + 1 \in 1 .. MaxUpdates /\ s[r].clock + 1 <= n + 1 /\ s[r] \in ORSets
    BY DEF SetsWithin, ORSets
  <1>3. <<e, <<s[r].clock + 1, r>>>> \in Elements \X Ids
    BY <1>2 DEF Ids
  <1>4. AddElement(s[r], r, e) \in ORSets /\ AddElement(s[r], r, e).clock <= n + 1
    BY <1>2, <1>3 DEF AddElement, ORSets
  <1>. QED  BY <1>1, <1>4 DEF SetsWithin

LEMMA RemoveWithin ==
    ASSUME NEW n \in Nat, NEW s, SetsWithin(s, n), NEW r \in Replica, NEW e \in Elements,
           IdsOf(s[r].elements, e) # {}
    PROVE  SetsWithin([s EXCEPT ![r] = RemoveElement(@, e)], n)
  <1>1. s[r] \in ORSets
    BY DEF SetsWithin
  <1>2. IdsOf(s[r].elements, e) \in SUBSET Ids
    BY <1>1 DEF ORSets, IdsOf
  <1>3. LastId(IdsOf(s[r].elements, e)) \in Ids
    BY <1>2, LastIdIs
  <1>4. RemoveElement(s[r], e) \in ORSets /\ RemoveElement(s[r], e).clock = s[r].clock
    BY <1>1, <1>3 DEF RemoveElement, ORSets
  <1>. QED  BY <1>4 DEF SetsWithin

LEMMA MergeWithin ==
    ASSUME NEW n \in Nat, NEW s, SetsWithin(s, n), NEW r \in Replica, NEW o \in Replica
    PROVE  SetsWithin([s EXCEPT ![r] = MergeSet(@, s[o])], n)
  <1>1. s[r] \in ORSets /\ s[o] \in ORSets /\ s[r].clock <= n /\ s[o].clock <= n
    BY DEF SetsWithin
  <1>2. Larger(s[r].clock, s[o].clock) \in {s[r].clock, s[o].clock}
    BY DEF Larger
  <1>3. MergeSet(s[r], s[o]) \in ORSets /\ MergeSet(s[r], s[o]).clock <= n
    BY <1>1, <1>2 DEF MergeSet, ORSets
  <1>. QED  BY <1>3 DEF SetsWithin

Registers == [value : Values \cup {Unset}, timestamp : Stamps \cup {0}, replica_id : Replica]

\* Types, with no clock and no count ahead of the updates made; a register
\* holds what was set under its timestamp.
ReplicaTypes ==
    /\ updates \in 0 .. MaxUpdates
    /\ Within(versions, updates) /\ Within(positive, updates) /\ Within(negative, updates)
    /\ SetsWithin(orset, updates) /\ SetsWithin(edges, updates)
    /\ register \in [Replica -> Registers]
    /\ ormap \in [Replica -> [Elements -> Values \cup {Unset}]]
    /\ cut \in [Replica -> SUBSET Elements]
    /\ removed \in SUBSET Elements

LEMMA ReplicaTypesStep ==
    ReplicaTypes /\ [ReplicasNext]_replica_vars => ReplicaTypes'
  <1>. SUFFICES ASSUME ReplicaTypes, [ReplicasNext]_replica_vars PROVE ReplicaTypes'
    OBVIOUS
  <1>. USE ReplicasAssumption
  <1>a. ASSUME NEW r \in Replica, Update(r)
        PROVE  /\ updates' = updates + 1 /\ updates < MaxUpdates /\ updates' \in 0 .. MaxUpdates
               /\ Within(versions', updates + 1)
               /\ Within(positive, updates + 1) /\ Within(negative, updates + 1)
               /\ Within([positive EXCEPT ![r] = Increment(@, r)], updates + 1)
               /\ Within([negative EXCEPT ![r] = Increment(@, r)], updates + 1)
               /\ SetsWithin(orset, updates + 1) /\ SetsWithin(edges, updates + 1)
    <2>1. /\ updates' = updates + 1 /\ updates < MaxUpdates /\ updates' \in 0 .. MaxUpdates
          /\ versions' = [versions EXCEPT ![r] = Increment(@, r)]
      BY <1>a DEF Update, ReplicaTypes
    <2>2. SetsWithin(orset, updates + 1) /\ SetsWithin(edges, updates + 1)
      BY DEF SetsWithin, ReplicaTypes, ORSets
    <2>. QED  BY <2>1, <2>2, CountsWithin DEF ReplicaTypes
  <1>1. ASSUME NEW r \in Replica, IncrementCounter(r) \/ DecrementCounter(r) PROVE ReplicaTypes'
    <2>1. CASE IncrementCounter(r)
      BY <1>a, <2>1 DEF IncrementCounter, ReplicaTypes
    <2>2. CASE DecrementCounter(r)
      BY <1>a, <2>2 DEF DecrementCounter, ReplicaTypes
    <2>. QED  BY <1>1, <2>1, <2>2
  <1>2. ASSUME NEW r \in Replica, NEW e \in Elements, AddToSet(r, e) PROVE ReplicaTypes'
    <2>1. SetsWithin(orset', updates + 1)
      BY <1>2, <1>a, AddWithin DEF AddToSet, ReplicaTypes
    <2>. QED  BY <1>2, <1>a, <2>1 DEF AddToSet, ReplicaTypes
  <1>3. ASSUME NEW r \in Replica, NEW e \in Elements, RemoveFromSet(r, e) PROVE ReplicaTypes'
    <2>1. SetsWithin(orset', updates + 1)
      <3>1. Update(r) /\ IdsOf(orset[r].elements, e) # {}
            /\ orset' = [orset EXCEPT ![r] = RemoveElement(@, e)]
        BY <1>3 DEF RemoveFromSet
      <3>2. SetsWithin(orset, updates + 1)
        BY <1>a, <3>1
      <3>3. updates + 1 \in Nat
        BY DEF ReplicaTypes
      <3>. QED  BY <3>1, <3>2, <3>3, RemoveWithin
    <2>. QED  BY <1>3, <1>a, <2>1 DEF RemoveFromSet, ReplicaTypes
  <1>4. ASSUME NEW r \in Replica, NEW e \in Elements, AddEdge(r, e) PROVE ReplicaTypes'
    <2>1. SetsWithin(edges', updates + 1)
      BY <1>4, <1>a, AddWithin DEF AddEdge, ReplicaTypes
    <2>. QED  BY <1>4, <1>a, <2>1 DEF AddEdge, ReplicaTypes
  <1>5. ASSUME NEW r \in Replica, NEW e \in Elements, RemoveEdge(r, e) PROVE ReplicaTypes'
    BY <1>5, <1>a DEF RemoveEdge, ReplicaTypes
  <1>6. ASSUME NEW r \in Replica, NEW e \in Elements, NEW value \in Values, PutInMap(r, e, value)
        PROVE  ReplicaTypes'
    BY <1>6, <1>a DEF PutInMap, ReplicaTypes
  <1>7. ASSUME NEW r \in Replica, NEW value \in Values, NEW timestamp \in Stamps,
               SetRegister(r, value, timestamp)
        PROVE  ReplicaTypes'
    <2>1. register' \in [Replica -> Registers]
      BY <1>7 DEF SetRegister, ReplicaTypes, Registers
    <2>. QED  BY <1>7, <1>a, <2>1 DEF SetRegister, ReplicaTypes
  <1>8. ASSUME NEW r \in Replica, NEW o \in Replica, SyncFrom(r, o) PROVE ReplicaTypes'
    <2>1. /\ Within(versions', updates) /\ Within(positive', updates)
          /\ Within(negative', updates)
      BY <1>8, CountsWithin DEF SyncFrom, ReplicaTypes
    <2>2. SetsWithin(orset', updates) /\ SetsWithin(edges', updates)
      <3>1. /\ SetsWithin(orset, updates) /\ SetsWithin(edges, updates) /\ updates \in Nat
            /\ orset' = [orset EXCEPT ![r] = MergeSet(@, orset[o])]
            /\ edges' = [edges EXCEPT ![r] = MergeSet(@, edges[o])]
        BY <1>8 DEF SyncFrom, ReplicaTypes
      <3>. QED  BY <3>1, MergeWithin
    <2>3. register' \in [Replica -> Registers]
      BY <1>8 DEF SyncFrom, ReplicaTypes, MergeRegister
    <2>4. ormap' \in [Replica -> [Elements -> Values \cup {Unset}]]
      BY <1>8 DEF SyncFrom, ReplicaTypes, MergeMap
    <2>. QED  BY <1>8, <2>1, <2>2, <2>3, <2>4 DEF SyncFrom, ReplicaTypes
  <1>9. CASE UNCHANGED replica_vars
    BY <1>9 DEF replica_vars, values, ReplicaTypes
  <1>. QED
    BY <1>1, <1>2, <1>3, <1>4, <1>5, <1>6, <1>7, <1>8, <1>9 DEF ReplicasNext

LEMMA ReplicaTypesInit == ReplicasInit => ReplicaTypes
  <1>. SUFFICES ASSUME ReplicasInit PROVE ReplicaTypes
    OBVIOUS
  <1>. USE ReplicasAssumption
  <1>1. Within(versions, 0) /\ Within(positive, 0) /\ Within(negative, 0)
    BY DEF ReplicasInit, Within, NoCounts, Counts
  <1>2. SetsWithin(orset, 0) /\ SetsWithin(edges, 0)
    BY DEF ReplicasInit, SetsWithin, NewSet, ORSets
  <1>. QED  BY <1>1, <1>2 DEF ReplicasInit, ReplicaTypes, Registers

LEMMA ReplicaTypesHold == ReplicasSpec => []ReplicaTypes
  BY ReplicaTypesInit, ReplicaTypesStep, PTL DEF ReplicasSpec

\* The replicated values keep their types: no count and no clock passes the
\* number of updates, and remove never gives a tombstone to what is no id.
THEOREM ReplicasTypes == ReplicasSpec => []ReplicasTypeOK
  <1>1. ReplicaTypes => ReplicasTypeOK
    BY DEF ReplicaTypes, ReplicasTypeOK, Within, SetsWithin, Registers
  <1>. QED  BY <1>1, ReplicaTypesHold, PTL

LEMMA NoResurrectionStep ==
    ReplicaTypes /\ [ReplicasNext]_replica_vars =>
      [\A r \in Replica, e \in Elements :
         Dead(orset[r], e) /\ HasElement(orset'[r], e)
           => \E id \in IdsOf(orset'[r].elements, e) :
                id[2] = r /\ id[1] = orset[r].clock + 1]_replica_vars
  <1>. SUFFICES ASSUME ReplicaTypes, ReplicasNext, NEW r \in Replica, NEW e \in Elements,
                       Dead(orset[r], e), HasElement(orset'[r], e)
                PROVE  \E id \in IdsOf(orset'[r].elements, e) :
                         id[2] = r /\ id[1] = orset[r].clock + 1
    OBVIOUS
  <1>0. orset \in [Replica -> ORSets]
    BY DEF ReplicaTypes, SetsWithin
  <1>1. orset'[r] # orset[r]
    BY DEF Dead
  <1>2. CASE \E q \in Replica : \E d \in Elements : AddToSet(q, d)
    <2>1. PICK q \in Replica, d \in Elements : AddToSet(q, d)
      BY <1>2
    <2>2. q = r /\ orset'[r] = AddElement(orset[r], r, d)
      BY <1>0, <1>1, <2>1 DEF AddToSet
    <2>3. CASE d = e
      <3>. DEFINE id == <<orset[r].clock + 1, r>>
      <3>1. id \in IdsOf(orset'[r].elements, e)
        <4>1. <<e, id>> \in orset'[r].elements
          BY <2>2, <2>3 DEF AddElement
        <4>2. <<e, id>> \in {p \in orset'[r].elements : p[1] = e}
          BY <4>1
        <4>. HIDE DEF id
        <4>3. <<e, id>>[2] = id
          OBVIOUS
        <4>. QED  BY <4>2, <4>3 DEF IdsOf
      <3>. QED  BY <3>1
    <2>4. CASE d # e
      <3>1. /\ IdsOf(orset'[r].elements, e) = IdsOf(orset[r].elements, e)
            /\ IdsOf(orset'[r].tombstones, e) = IdsOf(orset[r].tombstones, e)
        BY <2>2, <2>4 DEF AddElement, IdsOf
      <3>. QED  BY <3>1 DEF Dead, HasElement
    <2>. QED  BY <2>3, <2>4
  <1>3. CASE \E q \in Replica : \E d \in Elements : RemoveFromSet(q, d)
    <2>1. PICK q \in Replica, d \in Elements : RemoveFromSet(q, d)
      BY <1>3
    <2>2. orset'[r] = RemoveElement(orset[r], d)
      BY <1>0, <1>1, <2>1 DEF RemoveFromSet
    <2>3. /\ IdsOf(orset'[r].elements, e) = IdsOf(orset[r].elements, e)
          /\ IdsOf(orset[r].tombstones, e) \subseteq IdsOf(orset'[r].tombstones, e)
      BY <2>2 DEF RemoveElement, IdsOf
    <2>. QED  BY <2>3 DEF Dead, HasElement
  <1>4. CASE \E q, o \in Replica : SyncFrom(q, o)
    <2>1. PICK q \in Replica, o \in Replica : SyncFrom(q, o)
      BY <1>4
    <2>2. orset'[r] = MergeSet(orset[r], orset[o])
      BY <1>0, <1>1, <2>1 DEF SyncFrom
    <2>3. IdsOf(orset[r].tombstones, e) # {}
      BY DEF Dead
    <2>4. /\ IdsOf(orset'[r].elements, e) = IdsOf(orset[r].elements, e)
          /\ IdsOf(orset[r].tombstones, e) \subseteq IdsOf(orset'[r].tombstones, e)
      BY <2>2, <2>3 DEF MergeSet, IdsOf
    <2>. QED  BY <2>4 DEF Dead, HasElement
  <1>. QED
    BY <1>1, <1>2, <1>3, <1>4
       DEF ReplicasNext, IncrementCounter, DecrementCounter, AddEdge, RemoveEdge, PutInMap,
           SetRegister

\* No merge brings back an element that a replica holds a tombstone for.
THEOREM RemovedStaysRemoved == ReplicasSpec => NoResurrection
  BY ReplicaTypesHold, NoResurrectionStep, PTL DEF ReplicasSpec, NoResurrection

-----------------------------------------------------------------------------
(* Replicated data: what each replica knows of each value, as facts that a  *)
(* local update adds to and a merge joins                                   *)

CountsKnown(c) == [r \in Replica |-> {x \in Replica \X Nat : x[2] <= c[r][x[1]]}]
KeysKnown(m) == [r \in Replica |-> {e \in Elements : m[r][e] # Unset}]
StampsKnown(g) == [r \in Replica |-> {t \in Nat : t <= g[r].timestamp}]
ElementsKnown(s) == [r \in Replica |-> s[r].elements]
KeptKnown(s, gone) == [r \in Replica |-> {p \in s[r].elements : p[1] \notin gone}]

\* A register that was set holds a value set under its timestamp.
RegisterStamped(reg) ==
    IF reg.timestamp = 0 THEN reg.value = Unset ELSE <<reg.timestamp, reg.value>> \in stamped

\* The edges have no tombstones, and only elements that were removed have any.
ReplicaKnowledge ==
    /\ OwnLeads(versions)
    /\ Backed(versions, CountsKnown(positive)) /\ Backed(versions, CountsKnown(negative))
    /\ Backed(versions, KeptKnown(orset, removed)) /\ Backed(versions, StampsKnown(register))
    /\ Backed(versions, KeysKnown(ormap)) /\ Backed(versions, ElementsKnown(edges))
    /\ Backed(versions, cut)
    /\ \A r \in Replica : /\ edges[r].tombstones = {}
                          /\ \A p \in orset[r].tombstones : p[1] \in removed
                          /\ RegisterStamped(register[r])

Grows(r, known, more) ==
    (\A x \in Replica \ {r} : more[x] = known[x]) /\ known[r] \subseteq more[r]
Merged(r, o, known, more) ==
    (\A x \in Replica \ {r} : more[x] = known[x]) /\ more[r] = known[r] \cup known[o]

LEMMA VersionsAreVectors == ASSUME ReplicaTypes PROVE versions \in Vectors
  BY DEF ReplicaTypes, Within, Counts, Vectors

LEMMA GrowsBacked ==
    ASSUME ReplicaTypes, ReplicaKnowledge, NEW r \in Replica, Update(r), NEW known, NEW more,
           Backed(versions, known), Grows(r, known, more)
    PROVE  Backed(versions', more)
  <1>1. versions \in Vectors /\ OwnLeads(versions)
    BY VersionsAreVectors DEF ReplicaKnowledge
  <1>2. versions' = [versions EXCEPT ![r] = Increment(@, r)]
    BY DEF Update
  <1>. QED  BY <1>1, <1>2, BackedUpdate DEF Grows

LEMMA MergedBacked ==
    ASSUME ReplicaTypes, NEW r \in Replica, NEW o \in Replica, SyncFrom(r, o),
           NEW known, NEW more, Backed(versions, known), Merged(r, o, known, more)
    PROVE  Backed(versions', more)
  <1>1. versions' = [versions EXCEPT ![r] = MergeCounts(@, versions[o])]
    BY DEF SyncFrom
  <1>2. versions \in Vectors
    BY VersionsAreVectors
  <1>3. (\A x \in Replica \ {r} : more[x] = known[x]) /\ more[r] = known[r] \cup known[o]
    BY DEF Merged
  <1>4. Backed([versions EXCEPT ![r] = MergeCounts(@, versions[o])], more)
    BY <1>2, <1>3, BackedSync
  <1>. QED  BY <1>1, <1>4

\* A local update.
LEMMA KnowledgeUpdate ==
    ASSUME ReplicaTypes, ReplicaKnowledge, NEW r \in Replica, Update(r),
           Grows(r, CountsKnown(positive), CountsKnown(positive')),
           Grows(r, CountsKnown(negative), CountsKnown(negative')),
           Backed(versions, KeptKnown(orset, removed')),
           Grows(r, KeptKnown(orset, removed'), KeptKnown(orset', removed')),
           Grows(r, StampsKnown(register), StampsKnown(register')),
           Grows(r, KeysKnown(ormap), KeysKnown(ormap')),
           Grows(r, ElementsKnown(edges), ElementsKnown(edges')),
           Grows(r, cut, cut'),
           \A x \in Replica : /\ edges'[x].tombstones = {}
                              /\ \A p \in orset'[x].tombstones : p[1] \in removed'
                              /\ RegisterStamped(register[x])'
    PROVE  ReplicaKnowledge'
  <1>1. OwnLeads(versions')
    BY VersionsAreVectors, OwnLeadsStep DEF Update, ReplicaKnowledge
  <1>2. Backed(versions', CountsKnown(positive')) /\ Backed(versions', CountsKnown(negative'))
    BY GrowsBacked DEF ReplicaKnowledge
  <1>3. Backed(versions', KeptKnown(orset', removed'))
    BY GrowsBacked
  <1>4. Backed(versions', StampsKnown(register')) /\ Backed(versions', KeysKnown(ormap'))
    BY GrowsBacked DEF ReplicaKnowledge
  <1>5. Backed(versions', ElementsKnown(edges')) /\ Backed(versions', cut')
    BY GrowsBacked DEF ReplicaKnowledge
  <1>. QED  BY <1>1, <1>2, <1>3, <1>4, <1>5 DEF ReplicaKnowledge

LEMMA GrowsSame == \A r \in Replica : \A known : Grows(r, known, known)
  BY DEF Grows

LEMMA MergedCounts ==
    ASSUME NEW c \in [Replica -> [Replica -> Nat]], NEW d, NEW r \in Replica, NEW o \in Replica,
           d[r] = MergeCounts(c[r], c[o])
    PROVE  CountsKnown(d)[r] = CountsKnown(c)[r] \cup CountsKnown(c)[o]
  <1>1. ASSUME NEW x \in Replica \X Nat
        PROVE  x[2] <= d[r][x[1]] <=> x[2] <= c[r][x[1]] \/ x[2] <= c[o][x[1]]
    <2>1. x[1] \in Replica /\ x[2] \in Nat
      OBVIOUS
    <2>2. d[r][x[1]] = Larger(c[r][x[1]], c[o][x[1]])
      BY <2>1 DEF MergeCounts
    <2>3. c[r][x[1]] \in Nat /\ c[o][x[1]] \in Nat
      BY <2>1
    <2>. QED  BY <2>1, <2>2, <2>3 DEF Larger
  <1>. QED  BY <1>1 DEF CountsKnown

LEMMA StampsAreNumbers ==
    ASSUME register \in [Replica -> Registers]
    PROVE  /\ \A timestamp \in Stamps : timestamp \in Nat /\ timestamp # 0
           /\ \A x \in Replica : register[x].timestamp \in Nat
  <1>1. \A timestamp \in Stamps : timestamp \in Nat /\ timestamp # 0
    BY ReplicasAssumption
  <1>2. \A x \in Replica : register[x].timestamp \in Stamps \cup {0}
    BY DEF Registers
  <1>. QED  BY <1>1, <1>2

LEMMA KnowledgeStep ==
    ReplicaTypes /\ ReplicaKnowledge /\ [ReplicasNext]_replica_vars => ReplicaKnowledge'
  <1>. SUFFICES ASSUME ReplicaTypes, ReplicaKnowledge, [ReplicasNext]_replica_vars
                PROVE  ReplicaKnowledge'
    OBVIOUS
  <1>0. /\ positive \in [Replica -> [Replica -> Nat]] /\ negative \in [Replica -> [Replica -> Nat]]
        /\ orset \in [Replica -> ORSets] /\ edges \in [Replica -> ORSets]
        /\ register \in [Replica -> Registers]
        /\ ormap \in [Replica -> [Elements -> Values \cup {Unset}]]
        /\ cut \in [Replica -> SUBSET Elements]
    BY DEF ReplicaTypes, Within, SetsWithin, Counts
  <1>a. /\ Backed(versions, KeptKnown(orset, removed))
        /\ \A x \in Replica : /\ edges[x].tombstones = {}
                              /\ \A p \in orset[x].tombstones : p[1] \in removed
                              /\ RegisterStamped(register[x])
    BY DEF ReplicaKnowledge
  <1>1. ASSUME NEW r \in Replica, IncrementCounter(r) PROVE ReplicaKnowledge'
    <2>1. Grows(r, CountsKnown(positive), CountsKnown(positive'))
      BY <1>0, <1>1 DEF IncrementCounter, Grows, CountsKnown, Increment
    <2>. QED  BY <1>1, <1>a, <2>1, KnowledgeUpdate, GrowsSame
              DEF IncrementCounter, RegisterStamped
  <1>2. ASSUME NEW r \in Replica, DecrementCounter(r) PROVE ReplicaKnowledge'
    <2>1. Grows(r, CountsKnown(negative), CountsKnown(negative'))
      BY <1>0, <1>2 DEF DecrementCounter, Grows, CountsKnown, Increment
    <2>. QED  BY <1>2, <1>a, <2>1, KnowledgeUpdate, GrowsSame
              DEF DecrementCounter, RegisterStamped
  <1>3. ASSUME NEW r \in Replica, NEW e \in Elements, AddToSet(r, e) PROVE ReplicaKnowledge'
    <2>1. orset' = [orset EXCEPT ![r] = AddElement(@, r, e)] /\ removed' = removed
      BY <1>3 DEF AddToSet
    <2>2. /\ orset[r].elements \subseteq orset'[r].elements
          /\ orset'[r].tombstones = orset[r].tombstones
          /\ \A x \in Replica \ {r} : orset'[x] = orset[x]
      BY <1>0, <2>1 DEF AddElement
    <2>3. Grows(r, KeptKnown(orset, removed), KeptKnown(orset', removed))
      BY <2>2 DEF Grows, KeptKnown
    <2>4. \A x \in Replica : \A p \in orset'[x].tombstones : p[1] \in removed
      BY <1>a, <2>2
    <2>. QED  BY <1>3, <1>a, <2>1, <2>3, <2>4, KnowledgeUpdate, GrowsSame
              DEF AddToSet, RegisterStamped
  <1>4. ASSUME NEW r \in Replica, NEW e \in Elements, RemoveFromSet(r, e)
        PROVE  ReplicaKnowledge'
    <2>1. /\ orset' = [orset EXCEPT ![r] = RemoveElement(@, e)] /\ removed' = removed \cup {e}
      BY <1>4 DEF RemoveFromSet
    <2>2. /\ \A x \in Replica : orset'[x].elements = orset[x].elements
          /\ \A x \in Replica : \A p \in orset'[x].tombstones :
               p \in orset[x].tombstones \/ p[1] = e
      BY <1>0, <2>1 DEF RemoveElement
    <2>3. Backed(versions, KeptKnown(orset, removed'))
      <3>. DEFINE gone == {p \in Elements \X Ids : p[1] = e}
      <3>1. \A x \in Replica : orset[x].elements \subseteq Elements \X Ids
        BY <1>0 DEF ORSets
      <3>2. \A x \in Replica :
              KeptKnown(orset, removed')[x] = KeptKnown(orset, removed)[x] \ gone
        BY <2>1, <3>1 DEF KeptKnown
      <3>. HIDE DEF gone
      <3>. QED  BY <1>a, <3>2, BackedForget
    <2>4. Grows(r, KeptKnown(orset, removed'), KeptKnown(orset', removed'))
      BY <2>2 DEF Grows, KeptKnown
    <2>5. \A x \in Replica : \A p \in orset'[x].tombstones : p[1] \in removed'
      BY <1>a, <2>1, <2>2
    <2>. QED  BY <1>4, <1>a, <2>3, <2>4, <2>5, KnowledgeUpdate, GrowsSame
              DEF RemoveFromSet, RegisterStamped
  <1>5. ASSUME NEW r \in Replica, NEW e \in Elements, AddEdge(r, e) PROVE ReplicaKnowledge'
    <2>1. edges' = [edges EXCEPT ![r] = AddElement(@, r, e)]
      BY <1>5 DEF AddEdge
    <2>2. /\ edges[r].elements \subseteq edges'[r].elements
          /\ \A x \in Replica : edges'[x].tombstones = edges[x].tombstones
          /\ \A x \in Replica \ {r} : edges'[x] = edges[x]
      BY <1>0, <2>1 DEF AddElement
    <2>3. Grows(r, ElementsKnown(edges), ElementsKnown(edges'))
      BY <2>2 DEF Grows, ElementsKnown
    <2>. QED  BY <1>5, <1>a, <2>2, <2>3, KnowledgeUpdate, GrowsSame DEF AddEdge, RegisterStamped
  <1>6. ASSUME NEW r \in Replica, NEW e \in Elements, RemoveEdge(r, e) PROVE ReplicaKnowledge'
    <2>1. Grows(r, cut, cut')
      BY <1>0, <1>6 DEF RemoveEdge, Grows
    <2>. QED  BY <1>6, <1>a, <2>1, KnowledgeUpdate, GrowsSame DEF RemoveEdge, RegisterStamped
  <1>7. ASSUME NEW r \in Replica, NEW e \in Elements, NEW value \in Values,
               PutInMap(r, e, value)
        PROVE  ReplicaKnowledge'
    <2>1. value # Unset
      BY ReplicasAssumption
    <2>2. Grows(r, KeysKnown(ormap), KeysKnown(ormap'))
      BY <1>0, <1>7, <2>1 DEF PutInMap, Grows, KeysKnown
    <2>. QED  BY <1>7, <1>a, <2>2, KnowledgeUpdate, GrowsSame DEF PutInMap, RegisterStamped
  <1>8. ASSUME NEW r \in Replica, NEW value \in Values, NEW timestamp \in Stamps,
               SetRegister(r, value, timestamp)
        PROVE  ReplicaKnowledge'
    <2>1. /\ \A x \in Replica \ {r} : register'[x] = register[x]
          /\ register'[r].timestamp = timestamp /\ register'[r].value = value
          /\ timestamp > register[r].timestamp /\ stamped' = stamped \cup {<<timestamp, value>>}
      BY <1>0, <1>8 DEF SetRegister
    <2>2. timestamp \in Nat /\ timestamp # 0 /\ register[r].timestamp \in Nat
      BY <1>0, StampsAreNumbers
    <2>3. Grows(r, StampsKnown(register), StampsKnown(register'))
      BY <2>1, <2>2 DEF Grows, StampsKnown
    <2>4. \A x \in Replica : RegisterStamped(register[x])'
      BY <1>a, <2>1, <2>2 DEF RegisterStamped
    <2>. QED  BY <1>8, <1>a, <2>3, <2>4, KnowledgeUpdate, GrowsSame DEF SetRegister
  <1>9. ASSUME NEW r \in Replica, NEW o \in Replica, SyncFrom(r, o) PROVE ReplicaKnowledge'
    <2>1. \A x \in Replica \ {r} :
            /\ positive'[x] = positive[x] /\ negative'[x] = negative[x] /\ orset'[x] = orset[x]
            /\ register'[x] = register[x] /\ ormap'[x] = ormap[x] /\ edges'[x] = edges[x]
            /\ cut'[x] = cut[x]
      BY <1>0, <1>9 DEF SyncFrom
    <2>2. /\ positive'[r] = MergeCounts(positive[r], positive[o])
          /\ negative'[r] = MergeCounts(negative[r], negative[o])
          /\ orset'[r] = MergeSet(orset[r], orset[o])
          /\ register'[r] = MergeRegister(register[r], register[o])
          /\ ormap'[r] = MergeMap(ormap[r], ormap[o])
          /\ edges'[r] = MergeSet(edges[r], edges[o])
          /\ cut'[r] = cut[r] \cup cut[o]
          /\ removed' = removed /\ stamped' = stamped
      BY <1>0, <1>9 DEF SyncFrom
    <2>3. OwnLeads(versions')
      BY <1>9, VersionsAreVectors, OwnLeadsStep DEF SyncFrom, ReplicaKnowledge
    <2>4. Merged(r, o, CountsKnown(positive), CountsKnown(positive'))
      <3>1. CountsKnown(positive')[r] = CountsKnown(positive)[r] \cup CountsKnown(positive)[o]
        <4>1. positive \in [Replica -> [Replica -> Nat]]
          BY <1>0
        <4>2. positive'[r] = MergeCounts(positive[r], positive[o])
          BY <2>2
        <4>. QED  BY <4>1, <4>2, MergedCounts
      <3>. QED  BY <2>1, <3>1 DEF Merged, CountsKnown
    <2>5. Merged(r, o, CountsKnown(negative), CountsKnown(negative'))
      <3>1. CountsKnown(negative')[r] = CountsKnown(negative)[r] \cup CountsKnown(negative)[o]
        <4>1. negative \in [Replica -> [Replica -> Nat]]
          BY <1>0
        <4>2. negative'[r] = MergeCounts(negative[r], negative[o])
          BY <2>2
        <4>. QED  BY <4>1, <4>2, MergedCounts
      <3>. QED  BY <2>1, <3>1 DEF Merged, CountsKnown
    <2>6. Merged(r, o, KeptKnown(orset, removed), KeptKnown(orset', removed'))
      <3>1. \A p \in orset[o].elements : p[1] \notin removed => IdsOf(orset[r].tombstones, p[1]) = {}
        BY <1>a DEF IdsOf
      <3>2. KeptKnown(orset', removed')[r]
              = KeptKnown(orset, removed)[r] \cup KeptKnown(orset, removed)[o]
        <4>1. /\ removed' = removed
              /\ orset'[r].elements = orset[r].elements
                   \cup {p \in orset[o].elements : IdsOf(orset[r].tombstones, p[1]) = {}}
          BY <2>2 DEF MergeSet
        <4>. QED  BY <3>1, <4>1 DEF KeptKnown
      <3>. QED  BY <2>1, <2>2, <3>2 DEF Merged, KeptKnown
    <2>7. Merged(r, o, StampsKnown(register), StampsKnown(register'))
      <3>1. \A x \in Replica : register[x].timestamp \in Nat
        BY <1>0, StampsAreNumbers
      <3>2. StampsKnown(register')[r] = StampsKnown(register)[r] \cup StampsKnown(register)[o]
        BY <2>2, <3>1 DEF StampsKnown, MergeRegister
      <3>. QED  BY <2>1, <3>2 DEF Merged, StampsKnown
    <2>8. Merged(r, o, KeysKnown(ormap), KeysKnown(ormap'))
      BY <1>0, <2>1, <2>2 DEF Merged, KeysKnown, MergeMap
    <2>9. Merged(r, o, ElementsKnown(edges), ElementsKnown(edges'))
      <3>1. edges'[r].elements = edges[r].elements \cup edges[o].elements
        BY <1>a, <2>2 DEF MergeSet, IdsOf
      <3>. QED  BY <2>1, <3>1 DEF Merged, ElementsKnown
    <2>10. Merged(r, o, cut, cut')
      BY <2>1, <2>2 DEF Merged
    <2>11. /\ Backed(versions', CountsKnown(positive')) /\ Backed(versions', CountsKnown(negative'))
           /\ Backed(versions', KeptKnown(orset', removed'))
           /\ Backed(versions', StampsKnown(register')) /\ Backed(versions', KeysKnown(ormap'))
           /\ Backed(versions', ElementsKnown(edges')) /\ Backed(versions', cut')
      BY <1>9, <2>4, <2>5, <2>6, <2>7, <2>8, <2>9, <2>10, MergedBacked DEF ReplicaKnowledge
    <2>12. \A x \in Replica : /\ edges'[x].tombstones = {}
                              /\ \A p \in orset'[x].tombstones : p[1] \in removed
      BY <1>a, <2>1, <2>2 DEF MergeSet
    <2>13. \A x \in Replica : RegisterStamped(register[x])'
      BY <1>a, <2>1, <2>2 DEF RegisterStamped, MergeRegister
    <2>. QED  BY <2>2, <2>3, <2>11, <2>12, <2>13 DEF ReplicaKnowledge
  <1>10. CASE UNCHANGED replica_vars
    BY <1>10 DEF replica_vars, values, ReplicaKnowledge, RegisterStamped
  <1>. QED
    BY <1>1, <1>2, <1>3, <1>4, <1>5, <1>6, <1>7, <1>8, <1>9, <1>10 DEF ReplicasNext

\* A sync that is skipped would have brought nothing, for any number of
\* replicas and any order of updates and syncs.
THEOREM SkippedSyncsLoseNothing == ReplicasSpec => []SkipLosesNothing
  <1>1. ReplicasInit => ReplicaKnowledge
    <2>. SUFFICES ASSUME ReplicasInit PROVE ReplicaKnowledge
      OBVIOUS
    <2>1. OwnLeads(versions)
      BY DEF ReplicasInit, OwnLeads, NoCounts
    <2>2. ASSUME NEW known, \A r, x \in Replica : known[r] \subseteq known[x]
          PROVE  Backed(versions, known)
      <3>1. \A r \in Replica : 0 <= versions[r][r]
        BY DEF ReplicasInit, NoCounts
      <3>. QED  BY <2>2, <3>1 DEF Backed
    <2>3. /\ Backed(versions, CountsKnown(positive)) /\ Backed(versions, CountsKnown(negative))
          /\ Backed(versions, KeptKnown(orset, removed))
          /\ Backed(versions, StampsKnown(register)) /\ Backed(versions, KeysKnown(ormap))
          /\ Backed(versions, ElementsKnown(edges)) /\ Backed(versions, cut)
      <3>1. \A r, x \in Replica :
               /\ CountsKnown(positive)[r] \subseteq CountsKnown(positive)[x]
               /\ CountsKnown(negative)[r] \subseteq CountsKnown(negative)[x]
               /\ KeptKnown(orset, removed)[r] \subseteq KeptKnown(orset, removed)[x]
               /\ StampsKnown(register)[r] \subseteq StampsKnown(register)[x]
               /\ KeysKnown(ormap)[r] \subseteq KeysKnown(ormap)[x]
               /\ ElementsKnown(edges)[r] \subseteq ElementsKnown(edges)[x]
               /\ cut[r] \subseteq cut[x]
        BY DEF ReplicasInit, CountsKnown, KeptKnown, StampsKnown, KeysKnown, ElementsKnown
      <3>. QED  BY <2>2, <3>1
    <2>4. \A r \in Replica : /\ edges[r].tombstones = {}
                             /\ \A p \in orset[r].tombstones : p[1] \in removed
                             /\ RegisterStamped(register[r])
      BY DEF ReplicasInit, NewSet, RegisterStamped
    <2>. QED  BY <2>1, <2>3, <2>4 DEF ReplicaKnowledge
  <1>2. ReplicaTypes /\ ReplicaKnowledge => SkipLosesNothing
    <2>. SUFFICES ASSUME ReplicaTypes, ReplicaKnowledge, NEW r \in Replica, NEW o \in Replica,
                         Dominates(versions[r], versions[o])
                  PROVE  /\ Dominates(positive[r], positive[o]) /\ Dominates(negative[r], negative[o])
                         /\ \A e \in Elements : ormap[o][e] # Unset => ormap[r][e] # Unset
                         /\ cut[o] \subseteq cut[r] /\ Neighbors(o) \ cut[r] \subseteq Neighbors(r)
                         /\ \A e \in Elements \ removed :
                              HasElement(orset[o], e) => HasElement(orset[r], e)
                         /\ register[r].timestamp >= register[o].timestamp
                         /\ StampedOnce /\ register[r].timestamp = register[o].timestamp =>
                              register[r].value = register[o].value
      BY DEF SkipLosesNothing
    <2>0. versions \in Vectors /\ register \in [Replica -> Registers]
          /\ positive \in [Replica -> [Replica -> Nat]] /\ negative \in [Replica -> [Replica -> Nat]]
          /\ orset \in [Replica -> ORSets] /\ edges \in [Replica -> ORSets]
      BY VersionsAreVectors DEF ReplicaTypes, Within, SetsWithin, Counts
    <2>1. ASSUME NEW known, Backed(versions, known) PROVE known[o] \subseteq known[r]
      BY <2>0, <2>1, BackedDominated
    <2>2. /\ CountsKnown(positive)[o] \subseteq CountsKnown(positive)[r]
          /\ CountsKnown(negative)[o] \subseteq CountsKnown(negative)[r]
          /\ KeptKnown(orset, removed)[o] \subseteq KeptKnown(orset, removed)[r]
          /\ StampsKnown(register)[o] \subseteq StampsKnown(register)[r]
          /\ KeysKnown(ormap)[o] \subseteq KeysKnown(ormap)[r]
          /\ ElementsKnown(edges)[o] \subseteq ElementsKnown(edges)[r]
          /\ cut[o] \subseteq cut[r]
      BY <2>1 DEF ReplicaKnowledge
    <2>3. ASSUME NEW c \in [Replica -> [Replica -> Nat]],
                 CountsKnown(c)[o] \subseteq CountsKnown(c)[r]
          PROVE  Dominates(c[r], c[o])
      <3>. SUFFICES ASSUME NEW q \in Replica PROVE c[r][q] >= c[o][q]
        BY DEF Dominates
      <3>. DEFINE x == <<q, c[o][q]>>
      <3>1. x \in CountsKnown(c)[o]
        BY DEF CountsKnown
      <3>2. x \in CountsKnown(c)[r]
        BY <2>3, <3>1
      <3>. QED  BY <3>2 DEF CountsKnown
    <2>4. Dominates(positive[r], positive[o]) /\ Dominates(negative[r], negative[o])
      BY <2>0, <2>2, <2>3
    <2>5. \A e \in Elements : ormap[o][e] # Unset => ormap[r][e] # Unset
      BY <2>2 DEF KeysKnown
    <2>6. Neighbors(o) \ cut[r] \subseteq Neighbors(r)
      <3>1. edges[o].elements \subseteq edges[r].elements
        BY <2>2 DEF ElementsKnown
      <3>2. edges[o].tombstones = {} /\ edges[r].tombstones = {}
        BY DEF ReplicaKnowledge
      <3>3. \A e \in Elements : HasElement(edges[o], e) => HasElement(edges[r], e)
        BY <3>1, <3>2 DEF HasElement, IdsOf
      <3>. QED  BY <3>3 DEF Neighbors
    <2>7. ASSUME NEW e \in Elements \ removed, HasElement(orset[o], e)
          PROVE  HasElement(orset[r], e)
      <3>1. IdsOf(orset[r].tombstones, e) = {}
        BY DEF ReplicaKnowledge, IdsOf
      <3>2. PICK p \in orset[o].elements : p[1] = e
        BY <2>7 DEF HasElement, IdsOf
      <3>3. p \in orset[r].elements
        BY <2>2, <3>2 DEF KeptKnown
      <3>4. p[2] \in IdsOf(orset[r].elements, e)
        BY <3>2, <3>3 DEF IdsOf
      <3>. QED  BY <3>1, <3>4 DEF HasElement
    <2>8. \A x \in Replica : register[x].timestamp \in Nat
      BY <2>0, StampsAreNumbers
    <2>9. register[r].timestamp >= register[o].timestamp
      BY <2>2, <2>8 DEF StampsKnown
    <2>10. ASSUME StampedOnce, register[r].timestamp = register[o].timestamp
           PROVE  register[r].value = register[o].value
      <3>1. RegisterStamped(register[r]) /\ RegisterStamped(register[o])
        BY DEF ReplicaKnowledge
      <3>2. CASE register[r].timestamp = 0
        BY <2>10, <3>1, <3>2 DEF RegisterStamped
      <3>3. CASE register[r].timestamp # 0
        <4>. DEFINE x == <<register[r].timestamp, register[r].value>>
                    y == <<register[o].timestamp, register[o].value>>
        <4>1. x \in stamped /\ y \in stamped
          BY <2>10, <3>1, <3>3 DEF RegisterStamped
        <4>2. x[1] = y[1] /\ x[2] = register[r].value /\ y[2] = register[o].value
          BY <2>10
        <4>. HIDE DEF x, y
        <4>3. x = y
          BY <2>10, <4>1, <4>2 DEF StampedOnce
        <4>. QED  BY <4>2, <4>3
      <3>. QED  BY <3>2, <3>3
    <2>. QED  BY <2>2, <2>4, <2>5, <2>6, <2>7, <2>9, <2>10
  <1>. QED  BY <1>1, <1>2, ReplicaTypesHold, KnowledgeStep, PTL DEF ReplicasSpec

-----------------------------------------------------------------------------
(* Artifacts *)

\* An artifact is in the list of its content hash unless get_mut changed it, and
\* a list names an id of another content only if that was changed in place.
Indexed ==
    /\ \A i \in Stored \ mutated : i \in Range(index[artifacts[i].content_hash])
    /\ \A h \in ContentHashes : \A i \in Stored :
          i \in Range(index[h]) => artifacts[i].content_hash = h \/ i \in overwritten

\* Eviction removes an id from the list of its content only: what an id that was
\* changed in place left in other lists stays, and so does its mark.  An id that is
\* not stored may be named for a content that is not its own only if it is
\* marked.
ArtifactInv ==
    /\ Stored \subseteq ArtifactIds
    /\ \A i \in Stored : artifacts[i].content_hash \in ContentHashes
    /\ index \in [ContentHashes -> Seq(ArtifactIds)]
    /\ Indexed
    /\ \A h \in ContentHashes : \A i \in Range(index[h]) : i \in Stored \/ i \in overwritten

LEMMA StoreKeepsIndex ==
    ASSUME ArtifactInv, NEW id \in ArtifactIds, NEW hash \in ContentHashes, NEW t,
           StoreAs(id, hash, t)
    PROVE  ArtifactInv'
  <1>. USE DEF ArtifactInv, StoreAs
  <1>1. /\ artifacts' = [i \in Stored \cup {id} |->
                           IF i = id THEN [content_hash |-> hash, pinned |-> FALSE, tier |-> "Hot",
                                           last_accessed |-> t]
                           ELSE artifacts[i]]
        /\ Stored' = Stored \cup {id}
    BY DEF Stored
  <1>2. /\ artifacts'[id].content_hash = hash
        /\ \A i \in Stored \ {id} : artifacts'[i].content_hash = artifacts[i].content_hash
    BY <1>1
  <1>3. \A h \in ContentHashes :
          /\ index'[h] \in Seq(ArtifactIds)
          /\ Range(index'[h]) = IF h = hash THEN Range(index[h]) \cup {id} ELSE Range(index[h])
    <2>1. /\ Append(index[hash], id) \in Seq(ArtifactIds)
          /\ Range(Append(index[hash], id)) = Range(index[hash]) \cup {id}
      BY KeptOneMore
    <2>. QED  BY <2>1
  <1>4. /\ index' \in [ContentHashes -> Seq(ArtifactIds)]
        /\ overwritten' = IF id \in Stored THEN overwritten \cup {id} ELSE overwritten
        /\ mutated' = mutated \ {id}
    BY <1>3
  <1>. HIDE DEF StoreAs
  <1>5. Stored' \subseteq ArtifactIds /\ \A i \in Stored' : artifacts'[i].content_hash \in ContentHashes
    BY <1>1, <1>2
  <1>6. ASSUME NEW i \in Stored' \ mutated'
        PROVE  i \in Range(index'[artifacts'[i].content_hash])
    <2>1. CASE i = id
      BY <1>2, <1>3, <2>1
    <2>2. CASE i # id
      <3>1. i \in Stored \ mutated /\ artifacts'[i].content_hash = artifacts[i].content_hash
        BY <1>1, <1>2, <1>4, <2>2
      <3>2. /\ i \in Range(index[artifacts[i].content_hash])
            /\ artifacts[i].content_hash \in ContentHashes
        BY <3>1 DEF Indexed
      <3>. QED  BY <1>3, <3>1, <3>2
    <2>. QED  BY <2>1, <2>2
  <1>7. ASSUME NEW h \in ContentHashes, NEW i \in Stored', i \in Range(index'[h])
        PROVE  artifacts'[i].content_hash = h \/ i \in overwritten'
    <2>1. CASE i = id /\ h = hash
      BY <1>2, <2>1
    <2>2. CASE i = id /\ h # hash
      <3>1. i \in Range(index[h])
        BY <1>3, <1>7, <2>2
      <3>2. i \in Stored \/ i \in overwritten
        BY <3>1
      <3>. QED  BY <1>4, <2>2, <3>2
    <2>3. CASE i # id
      <3>1. i \in Stored /\ i \in Range(index[h])
        BY <1>1, <1>3, <1>7, <2>3
      <3>2. artifacts[i].content_hash = h \/ i \in overwritten
        BY <3>1 DEF Indexed
      <3>. QED  BY <1>2, <1>4, <2>3, <3>1, <3>2
    <2>. QED  BY <2>1, <2>2, <2>3
  <1>8. \A h \in ContentHashes : \A i \in Range(index'[h]) : i \in Stored' \/ i \in overwritten'
    BY <1>1, <1>3, <1>4
  <1>. QED  BY <1>4, <1>5, <1>6, <1>7, <1>8 DEF Indexed

LEMMA EvictKeepsIndex ==
    ASSUME ArtifactInv, NEW id, Evict(id)
    PROVE  ArtifactInv'
  <1>. DEFINE hash == artifacts[id].content_hash
  <1>. USE DEF ArtifactInv
  <1>1. /\ id \in Stored /\ hash \in ContentHashes
        /\ overwritten' = overwritten /\ mutated' = mutated \ {id}
        /\ artifacts' = [i \in Stored \ {id} |-> artifacts[i]] /\ Stored' = Stored \ {id}
        /\ index' = [index EXCEPT ![hash] = Retain(index[hash], ArtifactIds \ {id})]
    BY DEF Evict, IndexWithout, Stored
  <1>2. /\ Retain(index[hash], ArtifactIds \ {id}) \in Seq(ArtifactIds)
        /\ Range(Retain(index[hash], ArtifactIds \ {id})) = Range(index[hash]) \cap (ArtifactIds \ {id})
    BY <1>1, RetainIs
  <1>3. \A h \in ContentHashes : Range(index[h]) \subseteq ArtifactIds
    BY DEF Range
  <1>4. /\ index' \in [ContentHashes -> Seq(ArtifactIds)]
        /\ \A h \in ContentHashes :
             Range(index'[h]) = IF h = hash THEN Range(index[h]) \ {id} ELSE Range(index[h])
    BY <1>1, <1>2, <1>3
  <1>5. \A i \in Stored' : i \in Stored /\ i # id /\ artifacts'[i] = artifacts[i]
    BY <1>1
  <1>. HIDE DEF hash
  <1>6. /\ Stored' \subseteq ArtifactIds
        /\ \A i \in Stored' : artifacts'[i].content_hash \in ContentHashes
    BY <1>5
  <1>7. Indexed'
    <2>1. ASSUME NEW i \in Stored' \ mutated'
          PROVE  i \in Range(index'[artifacts'[i].content_hash])
      <3>1. /\ i \in Range(index[artifacts[i].content_hash]) /\ i # id
            /\ artifacts'[i] = artifacts[i] /\ artifacts[i].content_hash \in ContentHashes
        BY <1>1, <1>5, <2>1 DEF Indexed
      <3>. QED  BY <1>4, <3>1
    <2>2. ASSUME NEW h \in ContentHashes, NEW i \in Stored', i \in Range(index'[h])
          PROVE  artifacts'[i].content_hash = h \/ i \in overwritten'
      <3>1. i \in Range(index[h]) /\ i \in Stored /\ artifacts'[i] = artifacts[i]
        BY <1>4, <1>5, <2>2
      <3>. QED  BY <1>1, <3>1 DEF Indexed
    <2>. QED  BY <2>1, <2>2 DEF Indexed
  <1>8. ASSUME NEW h \in ContentHashes, NEW i \in Range(index'[h])
        PROVE  i \in Stored' \/ i \in overwritten'
    <2>1. CASE i # id
      BY <1>1, <1>4, <1>8, <2>1
    <2>2. CASE i = id
      BY <1>1, <1>4, <1>8, <2>2 DEF Indexed, hash
    <2>. QED  BY <2>1, <2>2
  <1>. QED  BY <1>4, <1>6, <1>7, <1>8

LEMMA ArtifactInvStep == ArtifactInv /\ [ArtifactNext]_artifact_vars => ArtifactInv'
  <1>. SUFFICES ASSUME ArtifactInv, [ArtifactNext]_artifact_vars PROVE ArtifactInv'
    OBVIOUS
  <1>1. ASSUME NEW i \in ArtifactIds, NEW h \in ContentHashes, Store(i, h) PROVE ArtifactInv'
    BY <1>1, StoreKeepsIndex DEF Store
  <1>2. ASSUME NEW i \in ArtifactIds, NEW h \in ContentHashes, NEW t \in Times,
               StoreWithMetadata(i, h, t)
        PROVE  ArtifactInv'
    BY <1>2, StoreKeepsIndex DEF StoreWithMetadata
  <1>3. ASSUME NEW i \in ArtifactIds, NEW f \in {"pinned", "tier", "last_accessed"}, NEW v,
               ChangeArtifact(i, f, v)
        PROVE  ArtifactInv'
    <2>1. /\ Stored' = Stored /\ index' = index
          /\ mutated' = mutated /\ overwritten' = overwritten
          /\ artifacts' = [artifacts EXCEPT ![i][f] = v]
      BY <1>3 DEF ChangeArtifact, Stored
    <2>2. \A j \in Stored : artifacts'[j].content_hash = artifacts[j].content_hash
      BY <2>1 DEF Stored
    <2>. QED  BY <2>1, <2>2 DEF ArtifactInv, Indexed
  <1>4. ASSUME NEW i \in ArtifactIds, EvictOne(i) PROVE ArtifactInv'
    BY <1>4, EvictKeepsIndex DEF EvictOne
  <1>5. ASSUME NEW i \in ArtifactIds, NEW h \in ContentHashes, MutateContent(i, h)
        PROVE  ArtifactInv'
    <2>1. /\ i \in Stored /\ Stored' = Stored /\ index' = index
          /\ mutated' = mutated \cup {i} /\ overwritten' = overwritten \cup {i}
          /\ artifacts' = [artifacts EXCEPT ![i].content_hash = h]
      BY <1>5 DEF MutateContent, Stored
    <2>2. /\ \A j \in Stored \ {i} : artifacts'[j].content_hash = artifacts[j].content_hash
          /\ \A j \in Stored : artifacts'[j].content_hash \in ContentHashes
      BY <2>1 DEF ArtifactInv, Stored
    <2>. QED  BY <2>1, <2>2 DEF ArtifactInv, Indexed
  <1>6. CASE UNCHANGED <<artifacts, index, mutated, overwritten>>
    BY <1>6 DEF ArtifactInv, Indexed, Stored
  <1>7. CASE EvictCandidate
    BY <1>6, <1>7, EvictKeepsIndex DEF EvictCandidate
  <1>8. ASSUME NEW n, GetEvictionCandidates(n) PROVE ArtifactInv'
    BY <1>6, <1>8 DEF GetEvictionCandidates
  <1>9. CASE UNCHANGED artifact_vars
    BY <1>6, <1>9 DEF artifact_vars
  <1>. QED  BY <1>1, <1>2, <1>3, <1>4, <1>5, <1>7, <1>8, <1>9
              DEF ArtifactNext, Pin, Unpin, SetStorageTier, UpdateAccess

\* find_by_hash gives every stored artifact for its content hash unless get_mut
\* changed it, and an artifact of another content only for an id whose content
\* was changed in place: through any order of store, evict and the eviction of
\* candidates that were listed long before.
THEOREM StoredIsFound == ArtifactSpec => []ArtifactFound
  <1>1. ArtifactInit => ArtifactInv
    <2>. SUFFICES ASSUME ArtifactInit PROVE ArtifactInv
      OBVIOUS
    <2>1. Stored = {} /\ index \in [ContentHashes -> Seq(ArtifactIds)]
      BY DEF ArtifactInit, Stored
    <2>2. \A h \in ContentHashes : Range(index[h]) = {}
      BY DEF ArtifactInit, Range
    <2>. QED  BY <2>1, <2>2 DEF ArtifactInv, Indexed
  <1>2. ArtifactInv => ArtifactFound
    <2>. SUFFICES ASSUME ArtifactInv PROVE ArtifactFound
      OBVIOUS
    <2>1. \A h \in ContentHashes : FindByHash(h) = Range(index[h]) \cap Stored
      BY DEF FindByHash, ToSet, Range
    <2>. QED  BY <2>1 DEF ArtifactInv, Indexed, ArtifactFound
  <1>. QED  BY <1>1, <1>2, ArtifactInvStep, PTL DEF ArtifactSpec

-----------------------------------------------------------------------------
(* Execution: the verdict over redundant outputs *)

LEMMA CardinalityOfBoth ==
    ASSUME NEW A, IsFiniteSet(A), NEW B, IsFiniteSet(B), A \cap B = {}
    PROVE  /\ Cardinality(A) \in Nat /\ Cardinality(B) \in Nat
           /\ Cardinality(A \cup B) = Cardinality(A) + Cardinality(B)
  <1>1. Cardinality(A) \in Nat /\ Cardinality(B) \in Nat
    BY FS_CardinalityType
  <1>2. Cardinality(A \cup B) = Cardinality(A) + Cardinality(B) - Cardinality(A \cap B)
    BY FS_Union
  <1>3. Cardinality(A \cap B) = 0
    BY FS_EmptySet
  <1>. QED  BY <1>1, <1>2, <1>3

LEMMA CountsFit ==
    ASSUME NEW T, NEW results \in Seq(T), NEW g \in T, NEW h \in T, g # h
    PROVE  /\ CountOf(g, results) \in Nat /\ CountOf(h, results) \in Nat
           /\ CountOf(g, results) + CountOf(h, results) <= Len(results)
  <1>. DEFINE Where(x) == {i \in DOMAIN results : results[i] = x}
              all == DOMAIN results
  <1>1. IsFiniteSet(all) /\ Cardinality(all) = Len(results) /\ Len(results) \in Nat
    <2>1. all = 1 .. Len(results) /\ Len(results) \in Nat
      OBVIOUS
    <2>. HIDE DEF all
    <2>. QED  BY <2>1, FS_Interval
  <1>2. Where(g) \subseteq all /\ Where(h) \subseteq all /\ Where(g) \cap Where(h) = {}
    OBVIOUS
  <1>. HIDE DEF Where, all
  <1>3. IsFiniteSet(Where(g)) /\ IsFiniteSet(Where(h)) /\ IsFiniteSet(Where(g) \cup Where(h))
    BY <1>1, <1>2, FS_Subset, FS_Union
  <1>4. /\ Cardinality(Where(g)) \in Nat /\ Cardinality(Where(h)) \in Nat
        /\ Cardinality(Where(g) \cup Where(h)) = Cardinality(Where(g)) + Cardinality(Where(h))
    BY <1>2, <1>3, CardinalityOfBoth
  <1>5. Cardinality(Where(g) \cup Where(h)) <= Cardinality(all)
    BY <1>1, <1>2, FS_Subset
  <1>. QED  BY <1>1, <1>4, <1>5 DEF CountOf, Where

\* Two outputs cannot both be a majority, so there is one verdict.
LEMMA OneVerdict ==
    ASSUME NEW T, NEW results \in Seq(T), NEW policy
    PROVE  \E v : EvaluateRedundancy(policy, results) = {v}
  <1>. DEFINE all == {results[i] : i \in DOMAIN results}
              large == {h \in all : CountOf(h, results) >= Majority(Len(results))}
  <1>1. ASSUME NEW g \in large, NEW h \in large PROVE g = h
    <2>1. g \in T /\ h \in T /\ Len(results) \in Nat
      OBVIOUS
    <2>2. SUFFICES ASSUME g # h PROVE FALSE
      OBVIOUS
    <2>3. /\ CountOf(g, results) \in Nat /\ CountOf(h, results) \in Nat
          /\ CountOf(g, results) + CountOf(h, results) <= Len(results)
      BY <2>1, <2>2, CountsFit
    <2>. QED  BY <2>1, <2>3 DEF Majority
  <1>2. CASE results = <<>>
    BY <1>2 DEF EvaluateRedundancy
  <1>3. CASE results # <<>> /\ policy = "Majority"
    <2>1. EvaluateRedundancy(policy, results) =
            IF large = {} THEN {<<"Split", Len(results)>>}
            ELSE {<<"Majority", h, CountOf(h, results)>> : h \in large}
      BY <1>3 DEF EvaluateRedundancy
    <2>. HIDE DEF large
    <2>2. CASE large = {}
      BY <2>1, <2>2
    <2>3. ASSUME NEW h \in large
          PROVE  EvaluateRedundancy(policy, results) = {<<"Majority", h, CountOf(h, results)>>}
      BY <1>1, <2>1
    <2>. QED  BY <2>2, <2>3
  <1>4. CASE results # <<>> /\ policy # "Majority"
    BY <1>4 DEF EvaluateRedundancy
  <1>. QED  BY <1>2, <1>3, <1>4

OutputsInv == \E T : outputs \in Seq(T)

\* Whatever outputs the redundant executions left, evaluate_redundancy has one
\* answer: the order in which the hash map of the counts is iterated does not
\* matter, for a majority of the results is the only one.
THEOREM VerdictsAreUnique == ExecSpec => []VerdictUnique
  <1>1. ExecInit => OutputsInv
    BY DEF ExecInit, OutputsInv
  <1>2. OutputsInv /\ [ExecutorNext \/ RegistryNext]_exec_vars => OutputsInv'
    <2>. SUFFICES ASSUME OutputsInv, [ExecutorNext \/ RegistryNext]_exec_vars
                  PROVE  OutputsInv'
      OBVIOUS
    <2>1. ASSUME NEW x, outputs' = Append(outputs, x) PROVE OutputsInv'
      <3>1. PICK T : outputs \in Seq(T)
        BY DEF OutputsInv
      <3>2. outputs \in Seq(T \cup {x})
        BY <3>1
      <3>3. outputs' \in Seq(T \cup {x})
        BY <2>1, <3>2
      <3>. QED  BY <3>3 DEF OutputsInv
    <2>2. CASE outputs' = outputs
      BY <2>2 DEF OutputsInv
    <2>3. \/ \E x : outputs' = Append(outputs, x)
          \/ outputs' = outputs
      BY DEF exec_vars, ExecutorNext, RegistryNext, WithContext, Execute, ExecuteDeterministic,
             SubmitReceipt, RecordSuccess, RecordFailure, RecordOutcome, RegisterExecutor,
             ActivateExecutor, SuspendExecutor, SetOperatorStatus, UpdateOperatorReputation
    <2>. QED  BY <2>1, <2>2, <2>3
  <1>3. OutputsInv => VerdictUnique
    <2>. SUFFICES ASSUME OutputsInv, NEW policy \in RedundancyPolicy
                  PROVE  Cardinality(EvaluateRedundancy(policy, outputs)) = 1
      BY DEF VerdictUnique
    <2>1. PICK v : EvaluateRedundancy(policy, outputs) = {v}
      BY OneVerdict DEF OutputsInv
    <2>. QED  BY <2>1, FS_Singleton
  <1>. QED  BY <1>1, <1>2, <1>3, PTL DEF ExecSpec

-----------------------------------------------------------------------------
(* Execution: the registry of operators *)

RegistryInv ==
    /\ DOMAIN registry \subseteq ExecOperators
    /\ capability \in [Kernels -> Seq(ExecOperators)]
    /\ \A o \in DOMAIN registry : registry[o].kernels \subseteq Kernels
    /\ \A o \in DOMAIN registry : \A k \in registry[o].kernels : o \in Range(capability[k])

LEMMA RegistryInvStep ==
    RegistryInv /\ [ExecutorNext \/ RegistryNext]_exec_vars => RegistryInv'
  <1>. SUFFICES ASSUME RegistryInv, [ExecutorNext \/ RegistryNext]_exec_vars PROVE RegistryInv'
    OBVIOUS
  <1>1. ASSUME NEW o \in ExecOperators, NEW ks \in SUBSET Kernels, RegisterExecutor(o, ks)
        PROVE  RegistryInv'
    <2>1. /\ DOMAIN registry' = DOMAIN registry \cup {o}
          /\ registry'[o].kernels = ks
          /\ \A p \in DOMAIN registry \ {o} : registry'[p] = registry[p]
      BY <1>1 DEF RegisterExecutor
    <2>2. /\ capability' \in [Kernels -> Seq(ExecOperators)]
          /\ \A k \in Kernels :
               Range(capability'[k]) = IF k \in ks THEN Range(capability[k]) \cup {o}
                                       ELSE Range(capability[k])
      <3>1. capability' = [k \in Kernels |-> IF k \in ks THEN Append(capability[k], o)
                                             ELSE capability[k]]
        BY <1>1 DEF RegisterExecutor, Listed
      <3>2. \A k \in Kernels : capability[k] \in Seq(ExecOperators)
        BY DEF RegistryInv
      <3>3. \A k \in Kernels : /\ Append(capability[k], o) \in Seq(ExecOperators)
                               /\ Range(Append(capability[k], o)) = Range(capability[k]) \cup {o}
        BY <3>2, KeptOneMore
      <3>. QED  BY <3>1, <3>2, <3>3
    <2>. QED  BY <2>1, <2>2 DEF RegistryInv
  <1>2. ASSUME NEW o \in DOMAIN registry, NEW f \in {"status", "reputation"}, NEW v,
               registry' = [registry EXCEPT ![o][f] = v], capability' = capability
        PROVE  RegistryInv'
    <2>1. /\ DOMAIN registry' = DOMAIN registry
          /\ \A p \in DOMAIN registry : registry'[p].kernels = registry[p].kernels
      BY <1>2
    <2>. QED  BY <1>2, <2>1 DEF RegistryInv
  <1>3. CASE UNCHANGED registry_vars
    BY <1>3 DEF RegistryInv, registry_vars
  <1>4. ASSUME NEW o, NEW s, SetOperatorStatus(o, s) PROVE RegistryInv'
    BY <1>2, <1>4 DEF SetOperatorStatus
  <1>5. ASSUME NEW o, NEW d, UpdateOperatorReputation(o, d) PROVE RegistryInv'
    BY <1>2, <1>5 DEF UpdateOperatorReputation
  <1>6. CASE ExecutorNext
    BY <1>3, <1>6 DEF ExecutorNext, WithContext, Execute, ExecuteDeterministic,
                      SubmitReceipt, RecordSuccess, RecordFailure, RecordOutcome
  <1>7. CASE RegistryNext
    BY <1>1, <1>4, <1>5, <1>7 DEF RegistryNext, ActivateExecutor, SuspendExecutor
  <1>. QED  BY <1>3, <1>6, <1>7 DEF exec_vars, registry_vars

\* get_by_capability gives every registered operator for every kernel it
\* registered for last, however often it registered, and whatever became of
\* its status and its reputation since.
THEOREM RegisteredAreFound == ExecSpec => []RegisteredIsFound
  <1>1. ExecInit => RegistryInv
    BY DEF ExecInit, RegistryInv
  <1>2. RegistryInv => RegisteredIsFound
    <2>. SUFFICES ASSUME RegistryInv, NEW o \in DOMAIN registry, NEW k \in registry[o].kernels
                  PROVE  \E i \in DOMAIN GetByCapability(k) : GetByCapability(k)[i] = o
      BY DEF RegisteredIsFound
    <2>1. capability[k] \in Seq(ExecOperators) /\ o \in Range(capability[k])
      BY DEF RegistryInv
    <2>2. Range(GetByCapability(k)) = Range(capability[k]) \cap DOMAIN registry
      BY <2>1, RetainIs DEF GetByCapability
    <2>3. o \in Range(GetByCapability(k))
      BY <2>1, <2>2
    <2>. QED  BY <2>3 DEF Range
  <1>. QED  BY <1>1, <1>2, RegistryInvStep, PTL DEF ExecSpec

-----------------------------------------------------------------------------
(* The client *)

JobRecords == [call : Nat, status : {"Pending", "Completed"}]

\* A job id that a caller, a request or a reply may carry.
KnownJob(job) == job = LocalId \/ job \in DOMAIN jobs

\* A request is sent once, so that the one on its way for a call is the only one
\* and was not served yet.
SdkInv ==
    /\ calls \in Nat
    /\ jobs \in Seq(JobRecords)
    /\ \A r \in wire \cup waiting : r.call \in Nat /\ r.call <= calls /\ KnownJob(r.job)
    /\ \A p \in replies : KnownJob(p.job)
    /\ \A a \in told : KnownJob(a.job)
    /\ \A r, s \in wire : r.call = s.call => r = s
    /\ \A i \in DOMAIN jobs : jobs[i].call <= calls
    /\ \A i \in DOMAIN jobs : \A r \in wire : jobs[i].call # r.call
    /\ \A i, j \in DOMAIN jobs : jobs[i].call = jobs[j].call => i = j

LEMMA SdkInvStep == SdkInv /\ [SdkNext]_sdk_vars => SdkInv'
  <1>. SUFFICES ASSUME SdkInv, [SdkNext]_sdk_vars PROVE SdkInv'
    OBVIOUS
  <1>. USE DEF SdkInv, KnownJob
  <1>0. \A j \in KnownIds : KnownJob(j)
    BY DEF KnownIds
  <1>made. \A i \in DOMAIN jobs : jobs[i].call \in Nat
    <2>1. \A i \in DOMAIN jobs : jobs[i] \in JobRecords
      OBVIOUS
    <2>. QED  BY <2>1 DEF JobRecords
  <1>1. ASSUME NEW op, NEW job, KnownJob(job), Request(op, job) PROVE SdkInv'
    <2>. DEFINE r == [call |-> calls + 1, op |-> op, job |-> job, attempt |-> 0]
    <2>1. /\ calls' = calls + 1 /\ jobs' = jobs /\ replies' = replies /\ told' = told
          /\ waiting' = waiting \cup {r} /\ wire' = wire \cup {r}
          /\ r.call = calls + 1 /\ r.job = job
      BY <1>1 DEF Request
    <2>2. \A s \in wire \cup waiting : s.call # calls + 1
      OBVIOUS
    <2>3. \A i \in DOMAIN jobs : jobs[i].call # calls + 1
      BY <1>made
    <2>. HIDE DEF r
    <2>. QED  BY <1>1, <1>made, <2>1, <2>2, <2>3
  <1>2. ASSUME NEW r \in wire, Serve(r) PROVE SdkInv'
    <2>. DEFINE n == Len(jobs)
                made == Append(jobs, [call |-> r.call, status |-> "Pending"])
    <2>0. /\ wire' = wire \ {r} /\ calls' = calls /\ told' = told /\ waiting' = waiting
          /\ r.call \in Nat /\ r.call <= calls /\ KnownJob(r.job)
          /\ \A s \in wire' : s.call # r.call
      BY <1>2 DEF Serve
    <2>1. CASE r.op = "submit_job"
      <3>1. /\ n \in Nat /\ DOMAIN jobs = 1 .. n
            /\ made \in Seq(JobRecords) /\ DOMAIN made = 1 .. (n + 1) /\ Len(made) = n + 1
            /\ made[n + 1].call = r.call /\ \A i \in DOMAIN jobs : made[i] = jobs[i]
        BY <2>0 DEF JobRecords
      <3>2. /\ jobs' = made
            /\ \E st : replies' = replies \cup {[call |-> r.call, job |-> Len(made), status |-> st]}
        BY <1>2, <2>1 DEF Serve
      <3>. HIDE DEF made, n
      <3>3. \A i \in DOMAIN jobs' : i \in DOMAIN jobs \/ i = n + 1
        BY <3>1, <3>2
      <3>4. \A j : KnownJob(j) => KnownJob(j)'
        BY <3>1, <3>2
      <3>5. \A p \in replies' : KnownJob(p.job)'
        <4>1. \A k : k = n + 1 => KnownJob(k)'
          BY <3>1, <3>2
        <4>. QED  BY <3>1, <3>2, <3>4, <4>1
      <3>6. \A i \in DOMAIN jobs' : jobs'[i].call <= calls /\ \A s \in wire' : jobs'[i].call # s.call
        BY <2>0, <3>1, <3>2, <3>3
      <3>7. \A i, j \in DOMAIN jobs' : jobs'[i].call = jobs'[j].call => i = j
        BY <3>1, <3>2, <3>3
      <3>. QED  BY <2>0, <3>1, <3>2, <3>4, <3>5, <3>6, <3>7
    <2>2. CASE r.op # "submit_job"
      <3>1. /\ jobs' = jobs
            /\ \E st : replies' = replies \cup {[call |-> r.call, job |-> r.job, status |-> st]}
        BY <1>2, <2>2 DEF Serve
      <3>. QED  BY <2>0, <3>1
    <2>. QED  BY <2>1, <2>2
  <1>3. ASSUME NEW j \in DOMAIN jobs, JobDone(j) PROVE SdkInv'
    <2>1. /\ jobs' = [jobs EXCEPT ![j] = [jobs[j] EXCEPT !.status = "Completed"]]
          /\ jobs[j] \in JobRecords
          /\ UNCHANGED <<calls, waiting, wire, replies, told>>
      BY <1>3 DEF JobDone
    <2>2. [jobs[j] EXCEPT !.status = "Completed"] \in JobRecords
      BY <2>1 DEF JobRecords
    <2>3. jobs' \in Seq(JobRecords) /\ DOMAIN jobs' = DOMAIN jobs
      BY <2>1, <2>2
    <2>4. \A i \in DOMAIN jobs : jobs'[i].call = jobs[i].call
      BY <2>1 DEF JobRecords
    <2>. QED  BY <2>1, <2>3, <2>4
  <1>4. ASSUME NEW r \in wire, LoseRequest(r) PROVE SdkInv'
    BY <1>4 DEF LoseRequest
  <1>5. ASSUME NEW p \in replies, LoseReply(p) PROVE SdkInv'
    BY <1>5 DEF LoseReply
  <1>6. ASSUME NEW r \in waiting, NEW p \in replies, Receive(r, p) PROVE SdkInv'
    BY <1>6 DEF Receive, Answer
  <1>7. ASSUME NEW r \in waiting, FallBack(r) PROVE SdkInv'
    BY <1>7 DEF FallBack, Answer, Retries
  <1>8. ASSUME NEW op \in LocalCalls, NEW j, KnownJob(j), LocalCall(op, j) PROVE SdkInv'
    <2>1. /\ calls' = calls + 1 /\ UNCHANGED <<waiting, wire, replies, jobs>>
          /\ told' = told \cup {[op |-> op, job |-> j, status |-> MadeUp(op)]}
      BY <1>8 DEF LocalCall
    <2>2. \A a \in told' : KnownJob(a.job)
      BY <1>8, <2>1
    <2>. QED  BY <1>made, <2>1, <2>2
  <1>9. CASE OpenClient \/ CloseClient \/ UNCHANGED sdk_vars
    BY <1>9 DEF OpenClient, CloseClient, sdk_vars
  <1>. HIDE DEF SdkInv
  <1>10. KnownJob(LocalId)
    OBVIOUS
  <1>. HIDE DEF KnownJob
  <1>. QED  BY <1>0, <1>1, <1>2, <1>3, <1>4, <1>5, <1>6, <1>7, <1>8, <1>9, <1>10
              DEF SdkNext, SubmitJobAsync, GetJobAsync, VerifyReceiptAsync, GetNetworkStatusAsync

\* One call of submit_job_async leads to at most one job, also when its request
\* is served after the client has given it up, and a number of a job that a
\* caller was told is the number of a job of the network.
THEOREM JobsAreSubmittedOnce == SdkSpec => []SubmittedOnce
  <1>1. SdkInit => SdkInv
    BY DEF SdkInit, SdkInv
  <1>2. SdkInv => SubmittedOnce
    BY DEF SdkInv, SubmittedOnce, KnownJob
  <1>. QED  BY <1>1, <1>2, SdkInvStep, PTL DEF SdkSpec

-----------------------------------------------------------------------------
(* Observability: health *)

\* A component's status is the one that its checks give.
HealthInv ==
    /\ DOMAIN health = DOMAIN checks
    /\ \A c \in DOMAIN checks : health[c] = ComputeOverallStatus(checks[c])

LEMMA HealthInvStep ==
    HealthInv /\ [HealthNext \/ AuditNext]_observability_vars => HealthInv'
  <1>. SUFFICES ASSUME HealthInv, [HealthNext \/ AuditNext]_observability_vars PROVE HealthInv'
    OBVIOUS
  <1>1. ASSUME NEW c, RegisterComponent(c) PROVE HealthInv'
    <2>1. ComputeOverallStatus([n \in {} |-> 0]) = "Unknown"
      BY DEF ComputeOverallStatus
    <2>. QED  BY <1>1, <2>1 DEF RegisterComponent, HealthInv, ComponentsSeen
  <1>2. ASSUME NEW c, NEW n, NEW s, UpdateHealth(c, n, s) PROVE HealthInv'
    BY <1>2 DEF UpdateHealth, HealthInv, ComponentsSeen
  <1>3. CASE UNCHANGED health_vars
    BY <1>3 DEF HealthInv, health_vars
  <1>. QED  BY <1>1, <1>2, <1>3 DEF HealthNext, AuditNext, observability_vars, WithImmutability,
                                    AppendAudit

\* The monitor's report and overall_status agree while nothing but planes, and
\* some plane, is registered, and a check whose last status was unhealthy shows
\* in overall_status, whatever is reported after it about anything else.
THEOREM HealthSummariesAgree == ObservabilitySpec => []HealthAgrees
  <1>1. ObservabilityInit => HealthInv
    BY DEF ObservabilityInit, HealthInv
  <1>2. HealthInv => HealthAgrees
    <2>. SUFFICES ASSUME HealthInv PROVE HealthAgrees
      OBVIOUS
    <2>1. ASSUME ComponentsSeen # {}, ComponentsSeen \subseteq Planes
          PROVE  ReportStatus = OverallStatus
      <3>. DEFINE report == {PlaneStatus(p) : p \in Planes}
      <3>1. ASSUME NEW s \in {"Unhealthy", "Degraded"}
            PROVE  s \in report <=> s \in StatusesOf(health)
        BY <2>1 DEF HealthInv, PlaneStatus, StatusesOf, ComponentsSeen
      <3>. HIDE DEF report
      <3>2. Worst(report) = Worst(StatusesOf(health))
        BY <3>1 DEF Worst
      <3>. QED  BY <2>1, <3>2 DEF ReportStatus, OverallStatus, report
    <2>2. ASSUME NEW c \in ComponentsSeen, "Unhealthy" \in StatusesOf(checks[c])
          PROVE  OverallStatus = "Unhealthy"
      <3>1. health[c] = "Unhealthy"
        BY <2>2 DEF HealthInv, ComponentsSeen, ComputeOverallStatus, Worst, StatusesOf
      <3>2. "Unhealthy" \in StatusesOf(health)
        BY <3>1 DEF HealthInv, ComponentsSeen, StatusesOf
      <3>. QED  BY <3>2 DEF OverallStatus, Worst
    <2>. QED  BY <2>1, <2>2 DEF HealthAgrees
  <1>. QED  BY <1>1, <1>2, HealthInvStep, PTL DEF ObservabilitySpec

-----------------------------------------------------------------------------
(* Observability: the audit trail *)

AuditEntries == [event : AuditEvents, hash : Seq(AuditEvents) \cup {NoHash}]

LEMMA AuditEntryHas == \A x \in AuditEntries : x.event \in AuditEvents
BY DEF AuditEntries

\* The events up to i, which is what the hash of entry i stands for.
Chain(i) == [j \in 1 .. i |-> entries[j].event]

\* The entries that have a hash come before those that have none, and each hash
\* stands for the whole chain up to its entry.
AuditInv ==
    /\ entries \in Seq(AuditEntries)
    /\ \A i \in DOMAIN entries : entries[i].hash \in {Chain(i), NoHash}
    /\ \A i, j \in DOMAIN entries :
          i < j /\ entries[j].hash # NoHash => entries[i].hash # NoHash

LEMMA AuditInvStep ==
    AuditInv /\ [HealthNext \/ AuditNext]_observability_vars => AuditInv'
  <1>. SUFFICES ASSUME AuditInv, [HealthNext \/ AuditNext]_observability_vars PROVE AuditInv'
    OBVIOUS
  <1>1. CASE UNCHANGED entries
    BY <1>1 DEF AuditInv, Chain
  <1>2. ASSUME NEW e \in AuditEvents, AppendAudit(e) PROVE AuditInv'
    <2>. DEFINE n == Len(entries)
                longer == Append(entries, [event |-> e, hash |-> NoHash])
    <2>1. /\ n \in Nat /\ DOMAIN entries = 1 .. n /\ entries \in Seq(AuditEntries)
          /\ \A i \in 1 .. n : entries[i] \in AuditEntries
      BY DEF AuditInv
    <2>2. /\ longer \in Seq(AuditEntries) /\ DOMAIN longer = 1 .. (n + 1) /\ Len(longer) = n + 1
          /\ \A i \in 1 .. n : longer[i] = entries[i]
          /\ longer[n + 1] = [event |-> e, hash |-> NoHash]
      <3>1. [event |-> e, hash |-> NoHash] \in AuditEntries
        BY DEF AuditEntries
      <3>. QED  BY <2>1, <3>1
    <2>3. entries' = IF immutability_enabled THEN RecomputeHashes(longer) ELSE longer
      BY <1>2 DEF AppendAudit
    <2>4. \A i \in 1 .. (n + 1) : longer[i].event \in AuditEvents
      <3>1. \A i \in 1 .. (n + 1) : longer[i] \in AuditEntries
        BY <2>2
      <3>. QED  BY <3>1, AuditEntryHas
    <2>. HIDE DEF n, longer
    <2>5. CASE immutability_enabled
      <3>. DEFINE Up(i) == [j \in 1 .. i |-> longer[j].event]
      <3>1. entries' = [i \in 1 .. (n + 1) |-> [event |-> longer[i].event, hash |-> Up(i)]]
        BY <2>2, <2>3, <2>5 DEF RecomputeHashes
      <3>2. \A i \in 1 .. (n + 1) : Up(i) \in Seq(AuditEvents)
        BY <2>1, <2>4
      <3>3. \A i \in 1 .. (n + 1) : entries'[i].event = longer[i].event /\ entries'[i].hash = Up(i)
        BY <3>1
      <3>4. ASSUME NEW i \in 1 .. (n + 1) PROVE Up(i) = Chain(i)'
        <4>1. \A j \in 1 .. i : entries'[j].event = longer[j].event
          <5>1. \A j \in 1 .. i : j \in 1 .. (n + 1)
            BY <2>1
          <5>2. \A j \in 1 .. (n + 1) : entries'[j].event = longer[j].event
            BY <3>3
          <5>. QED  BY <5>1, <5>2
        <4>2. Chain(i)' = [j \in 1 .. i |-> entries'[j].event]
          BY DEF Chain
        <4>. QED  BY <4>1, <4>2
      <3>. HIDE DEF Up
      <3>5. entries' \in Seq(AuditEntries) /\ DOMAIN entries' = 1 .. (n + 1)
        <4>1. \A i \in 1 .. (n + 1) :
                [event |-> longer[i].event, hash |-> Up(i)] \in AuditEntries
          BY <2>4, <3>2 DEF AuditEntries
        <4>. QED  BY <2>1, <3>1, <4>1
      <3>6. \A i \in DOMAIN entries' : entries'[i].hash = Chain(i)' /\ entries'[i].hash # NoHash
        BY <3>2, <3>3, <3>4, <3>5, ObservabilityAssumption
      <3>. QED  BY <3>5, <3>6 DEF AuditInv
    <2>6. CASE ~immutability_enabled
      <3>1. entries' = longer
        BY <2>3, <2>6
      <3>2. \A i \in 1 .. n : Chain(i)' = Chain(i) /\ entries'[i] = entries[i]
        BY <2>1, <2>2, <3>1 DEF Chain
      <3>3. \A i \in DOMAIN entries' : entries'[i].hash \in {Chain(i)', NoHash}
        BY <2>1, <2>2, <3>1, <3>2 DEF AuditInv
      <3>4. ASSUME NEW i \in DOMAIN entries', NEW j \in DOMAIN entries', i < j,
                   entries'[j].hash # NoHash
            PROVE  entries'[i].hash # NoHash
        <4>1. i \in 1 .. n /\ j \in 1 .. n
          BY <2>1, <2>2, <3>1, <3>4
        <4>. QED  BY <2>1, <3>2, <3>4, <4>1 DEF AuditInv
      <3>. QED  BY <2>2, <3>1, <3>3, <3>4 DEF AuditInv
    <2>. QED  BY <2>5, <2>6
  <1>. QED  BY <1>1, <1>2 DEF HealthNext, AuditNext, observability_vars, audit_vars,
                              RegisterComponent, UpdateHealth, WithImmutability

\* verify accepts the audit trail at every time, also when immutability was off
\* for a while, and no entry before a hashed one is left out of the chain.
THEOREM AuditTrailVerifies == ObservabilitySpec => []AuditVerifies
  <1>1. ObservabilityInit => AuditInv
    BY DEF ObservabilityInit, AuditInv
  <1>2. AuditInv => AuditVerifies
    <2>. SUFFICES ASSUME AuditInv, NEW i \in DOMAIN entries, entries[i].hash # NoHash
                  PROVE  entries[i].hash = Append(PreviousHash(i), entries[i].event)
      BY DEF AuditVerifies, VerifyTrail, AuditInv
    <2>. DEFINE hashed == {j \in 1 .. (i - 1) : entries[j].hash # NoHash}
    <2>1. /\ i \in Nat /\ i >= 1 /\ 1 .. i \subseteq DOMAIN entries
          /\ \A j \in DOMAIN entries : entries[j].event \in AuditEvents
      BY AuditEntryHas DEF AuditInv
    <2>2. hashed = 1 .. (i - 1)
      BY <2>1 DEF AuditInv
    <2>3. \A j \in 1 .. i : entries[j].hash = Chain(j)
      BY <2>1 DEF AuditInv
    <2>4. PreviousHash(i) = Chain(i - 1)
      <3>1. CASE i = 1
        <4>1. PreviousHash(i) = <<>>
          BY <2>2, <3>1 DEF PreviousHash
        <4>. QED  BY <3>1, <4>1 DEF Chain
      <3>2. CASE i > 1
        <4>1. (CHOOSE j \in hashed : \A k \in hashed : k <= j) = i - 1
          BY <2>1, <2>2, <3>2
        <4>2. PreviousHash(i) = entries[i - 1].hash
          BY <2>1, <2>2, <3>2, <4>1 DEF PreviousHash
        <4>. QED  BY <2>1, <2>3, <3>2, <4>2
      <3>. QED  BY <2>1, <3>1, <3>2
    <2>5. Append(Chain(i - 1), entries[i].event) = Chain(i)
      BY <2>1 DEF Chain
    <2>. QED  BY <2>1, <2>3, <2>4, <2>5
  <1>. QED  BY <1>1, <1>2, AuditInvStep, PTL DEF ObservabilitySpec

-----------------------------------------------------------------------------
(* The asset cache *)

Assets == [AssetIds -> Nat]

LEMMA TierSizeNat ==
    ASSUME NEW f \in Assets
    PROVE  TierSize(f) \in Nat /\ TierSize(f) = SumFunctionOnSet(f, AssetIds)
  <1>1. IsFiniteSet(AssetIds) /\ DOMAIN f = AssetIds /\ \A a \in AssetIds : f[a] \in Nat
    BY RenderPackAssumption DEF Assets
  <1>2. TierSize(f) = SumFunctionOnSet(f, AssetIds)
    BY <1>1 DEF TierSize, SumFunction
  <1>3. SumFunctionOnSet(f, AssetIds) \in Nat
    BY <1>1, SumNat
  <1>. QED  BY <1>2, <1>3

LEMMA WithoutIs ==
    ASSUME NEW f \in Assets, NEW gone
    PROVE  /\ Without(f, gone) \in Assets
           /\ \A a \in AssetIds : Without(f, gone)[a] = IF a \in gone THEN 0 ELSE f[a]
BY DEF Assets, Without

\* Taking assets out does not make a tier larger.
LEMMA WithoutSmaller ==
    ASSUME NEW f \in Assets, NEW gone
    PROVE  TierSize(Without(f, gone)) <= TierSize(f)
  <1>. DEFINE g == Without(f, gone)
  <1>1. g \in Assets /\ \A a \in AssetIds : g[a] = IF a \in gone THEN 0 ELSE f[a]
    BY WithoutIs
  <1>. HIDE DEF g
  <1>2. \A a \in AssetIds : g[a] \in Int /\ f[a] \in Int /\ g[a] <= f[a]
    BY <1>1 DEF Assets
  <1>3. SumFunctionOnSet(g, AssetIds) <= SumFunctionOnSet(f, AssetIds)
    BY <1>2, SumAtMost, RenderPackAssumption
  <1>4. TierSize(g) = SumFunctionOnSet(g, AssetIds)
    BY <1>1, TierSizeNat
  <1>5. TierSize(f) = SumFunctionOnSet(f, AssetIds)
    BY TierSizeNat
  <1>. QED  BY <1>3, <1>4, <1>5 DEF g

\* An asset put into a tier adds at most its size.
LEMMA PutAdds ==
    ASSUME NEW f \in Assets, NEW a \in AssetIds, NEW size \in Nat
    PROVE  /\ [f EXCEPT ![a] = size] \in Assets
           /\ TierSize([f EXCEPT ![a] = size]) <= TierSize(f) + size
  <1>. DEFINE g == [f EXCEPT ![a] = size]
  <1>1. g \in Assets /\ g[a] = size /\ \A b \in AssetIds : b # a => g[b] = f[b]
    BY DEF Assets
  <1>. HIDE DEF g
  <1>2. \A b \in AssetIds : g[b] \in Int /\ f[b] \in Int /\ f[b] >= 0
    BY <1>1 DEF Assets
  <1>3. SumFunctionOnSet(g, AssetIds) = SumFunctionOnSet(f, AssetIds) - f[a] + g[a]
    BY <1>1, <1>2, SumChange, RenderPackAssumption
  <1>4. TierSize(g) = SumFunctionOnSet(g, AssetIds)
    BY <1>1, TierSizeNat
  <1>5. TierSize(f) = SumFunctionOnSet(f, AssetIds) /\ TierSize(f) \in Nat
    BY TierSizeNat
  <1>6. TierSize(g) <= TierSize(f) + size
    BY <1>1, <1>2, <1>3, <1>4, <1>5
  <1>. QED  BY <1>1, <1>6 DEF g

LEMMA EmptyTier ==
    ASSUME NEW f \in Assets, \A a \in AssetIds : f[a] = 0
    PROVE  TierSize(f) = 0
BY TierSizeNat, SumZero, RenderPackAssumption

\* The items of a list are those of its first k and those after.
LEMMA RangeSplit ==
    ASSUME NEW T, NEW s \in Seq(T), NEW k \in 0 .. Len(s)
    PROVE  /\ SubSeq(s, 1, k) \in Seq(T) /\ SubSeq(s, k + 1, Len(s)) \in Seq(T)
           /\ Range(s) \subseteq Range(SubSeq(s, 1, k)) \cup Range(SubSeq(s, k + 1, Len(s)))
  <1>. DEFINE n == Len(s)
              p == SubSeq(s, 1, k)
              q == SubSeq(s, k + 1, n)
  <1>1. n \in Nat /\ DOMAIN s = 1 .. n /\ k \in Nat /\ k <= n
    OBVIOUS
  <1>2. p \in Seq(T) /\ DOMAIN p = 1 .. k /\ \A i \in 1 .. k : p[i] = s[i]
    OBVIOUS
  <1>3. q \in Seq(T) /\ DOMAIN q = 1 .. (n - k) /\ \A i \in 1 .. (n - k) : q[i] = s[k + i]
    OBVIOUS
  <1>. HIDE DEF n, p, q
  <1>4. ASSUME NEW i \in 1 .. n PROVE s[i] \in Range(p) \cup Range(q)
    <2>1. CASE i <= k
      BY <1>1, <1>2, <2>1 DEF Range
    <2>2. CASE i > k
      <3>1. i - k \in 1 .. (n - k) /\ k + (i - k) = i
        BY <1>1, <2>2
      <3>2. q[i - k] = s[i]
        BY <1>3, <3>1
      <3>. QED  BY <1>3, <3>1, <3>2 DEF Range
    <2>. QED  BY <1>1, <2>1, <2>2
  <1>5. Range(s) \subseteq Range(p) \cup Range(q)
    BY <1>1, <1>4 DEF Range
  <1>. QED  BY <1>2, <1>3, <1>5 DEF p, q, n

Room(t, size, k) == TierSize(Without(tier[t], Range(SubSeq(lru[t], 1, k)))) + size <= TierLimit

\* Enough ids are popped, or all of them.
LEMMA EvictedIs ==
    ASSUME NEW t \in LimitedTiers, NEW size, lru[t] \in Seq(AssetIds)
    PROVE  /\ Evicted(t, size) \in 0 .. Len(lru[t])
           /\ Room(t, size, Evicted(t, size)) \/ Evicted(t, size) = Len(lru[t])
  <1>. DEFINE n == Len(lru[t])
              K == {k \in 0 .. n : Room(t, size, k) \/ k = n}
              Fewest(k) == (Room(t, size, k) \/ k = n) /\ \A i \in 0 .. (k - 1) : ~Room(t, size, i)
  <1>1. n \in Nat
    OBVIOUS
  <1>2. Evicted(t, size) = CHOOSE k \in 0 .. n : Fewest(k)
    BY DEF Evicted, Room
  <1>. HIDE DEF n
  <1>3. K \subseteq Nat /\ n \in K
    BY <1>1
  <1>. HIDE DEF K
  <1>4. PICK k \in K : \A j \in K : k <= j
    BY <1>3, SmallestNat
  <1>5. k \in 0 .. n /\ Fewest(k)
    BY <1>1, <1>4 DEF K
  <1>6. Evicted(t, size) \in 0 .. n /\ Fewest(Evicted(t, size))
    <2>. HIDE DEF Fewest
    <2>. QED  BY <1>2, <1>5
  <1>. QED  BY <1>6 DEF n

CacheInv ==
    /\ tier \in [CacheTier -> Assets]
    /\ lru \in [LimitedTiers -> Seq(AssetIds)]
    /\ CacheWithin

LEMMA PutKeepsWithin ==
    ASSUME CacheInv, NEW t \in LimitedTiers, NEW a \in AssetIds, NEW size \in AssetSizes,
           PutLimited(t, a, size)
    PROVE  CacheInv'
  <1>. DEFINE k == Evicted(t, size)
              popped == Range(SubSeq(lru[t], 1, k))
              kept == SubSeq(lru[t], k + 1, Len(lru[t]))
              left == Without(tier[t], popped)
  <1>0. /\ size \in Nat /\ TierLimit \in Nat /\ t \in CacheTier
        /\ lru[t] \in Seq(AssetIds) /\ tier[t] \in Assets
        /\ TierSize(tier[t]) <= TierLimit
        /\ \A b \in AssetIds : tier[t][b] # 0 => b \in Range(lru[t])
    BY RenderPackAssumption DEF CacheInv, CacheWithin, CacheTier
  <1>1. k \in 0 .. Len(lru[t]) /\ (Room(t, size, k) \/ k = Len(lru[t]))
    BY <1>0, EvictedIs
  <1>2. kept \in Seq(AssetIds) /\ Range(lru[t]) \subseteq popped \cup Range(kept)
    BY <1>0, <1>1, RangeSplit
  <1>3. left \in Assets /\ \A b \in AssetIds : left[b] = IF b \in popped THEN 0 ELSE tier[t][b]
    BY <1>0, WithoutIs
  <1>4. TierSize(left) \in Nat /\ TierSize(left) <= TierLimit
    BY <1>0, <1>3, TierSizeNat, WithoutSmaller
  <1>5. TierSize(left) + size <= TierLimit \/ TierSize(left) = 0
    <2>1. CASE Room(t, size, k)
      BY <2>1 DEF Room
    <2>2. CASE k = Len(lru[t])
      <3>1. popped = Range(lru[t])
        <4>1. \A s \in Seq(AssetIds) : SubSeq(s, 1, Len(s)) = s
          OBVIOUS
        <4>. QED  BY <1>0, <2>2, <4>1
      <3>2. \A b \in AssetIds : left[b] = 0
        BY <1>0, <1>3, <3>1
      <3>. QED  BY <1>3, <3>2, EmptyTier
    <2>. QED  BY <1>1, <2>1, <2>2
  <1>6. \A b \in AssetIds : left[b] # 0 => b \in Range(kept)
    BY <1>0, <1>2, <1>3
  <1>. DEFINE fits == size <= TierLimit
              new == IF fits THEN [left EXCEPT ![a] = size] ELSE left
              queue == kept \o (IF fits THEN <<a>> ELSE <<>>)
  <1>7. tier' = [tier EXCEPT ![t] = new] /\ lru' = [lru EXCEPT ![t] = queue]
    BY DEF PutLimited
  <1>. HIDE DEF k, popped, kept, left
  <1>8. /\ new \in Assets /\ TierSize(new) <= TierLimit
        /\ queue \in Seq(AssetIds) /\ \A b \in AssetIds : new[b] # 0 => b \in Range(queue)
    <2>1. CASE fits
      <3>1. [left EXCEPT ![a] = size] \in Assets
            /\ TierSize([left EXCEPT ![a] = size]) <= TierSize(left) + size
        BY <1>0, <1>3, PutAdds
      <3>2. TierSize([left EXCEPT ![a] = size]) \in Nat
        BY <3>1, TierSizeNat
      <3>3. queue = Append(kept, a)
        BY <1>2, <2>1
      <3>4. queue \in Seq(AssetIds) /\ Range(queue) = Range(kept) \cup {a}
        <4>1. /\ Append(kept, a) \in Seq(AssetIds)
              /\ Range(Append(kept, a)) = Range(kept) \cup {a}
          BY <1>2, KeptOneMore
        <4>. HIDE DEF queue
        <4>. QED  BY <3>3, <4>1
      <3>5. new = [left EXCEPT ![a] = size]
        BY <2>1
      <3>6. TierSize(left) + size <= TierLimit
        BY <1>0, <1>4, <1>5, <2>1
      <3>7. \A b \in AssetIds : new[b] # 0 => b \in Range(kept) \cup {a}
        BY <1>3, <1>6, <3>5 DEF Assets
      <3>. HIDE DEF new, queue
      <3>. QED  BY <1>0, <1>4, <3>1, <3>2, <3>4, <3>5, <3>6, <3>7
    <2>2. CASE ~fits
      <3>1. queue = kept /\ new = left
        BY <1>2, <2>2
      <3>. QED  BY <1>2, <1>3, <1>4, <1>6, <3>1
    <2>. QED  BY <2>1, <2>2
  <1>. HIDE DEF new, queue
  <1>9. /\ tier' \in [CacheTier -> Assets] /\ lru' \in [LimitedTiers -> Seq(AssetIds)]
        /\ tier'[t] = new /\ lru'[t] = queue
        /\ \A u \in LimitedTiers \ {t} : tier'[u] = tier[u] /\ lru'[u] = lru[u]
    BY <1>0, <1>7, <1>8 DEF CacheInv, CacheTier
  <1>10. CacheWithin'
    BY <1>8, <1>9 DEF CacheWithin, CacheInv
  <1>. QED  BY <1>9, <1>10 DEF CacheInv

LEMMA RemoveKeepsWithin ==
    ASSUME CacheInv, NEW a \in AssetIds, RemoveAsset(a)
    PROVE  CacheInv'
  <1>1. ASSUME NEW t \in CacheTier
        PROVE  /\ tier'[t] = Without(tier[t], {a}) /\ tier[t] \in Assets
               /\ tier'[t] \in Assets
               /\ \A b \in AssetIds : tier'[t][b] = IF b = a THEN 0 ELSE tier[t][b]
    <2>1. tier'[t] = Without(tier[t], {a}) /\ tier[t] \in Assets
      BY DEF RemoveAsset, CacheInv
    <2>. QED  BY <2>1, WithoutIs
  <1>2. ASSUME NEW t \in LimitedTiers
        PROVE  /\ lru'[t] \in Seq(AssetIds)
               /\ \A b \in AssetIds : b # a /\ b \in Range(lru[t]) => b \in Range(lru'[t])
    <2>1. lru[t] \in Seq(AssetIds)
      BY DEF CacheInv
    <2>2. lru'[t] = IF tier[t][a] # 0 THEN Retain(lru[t], AssetIds \ {a}) ELSE lru[t]
      BY DEF RemoveAsset
    <2>3. /\ Retain(lru[t], AssetIds \ {a}) \in Seq(AssetIds)
          /\ Range(Retain(lru[t], AssetIds \ {a})) = Range(lru[t]) \cap (AssetIds \ {a})
      BY <2>1, RetainIs
    <2>. QED  BY <2>1, <2>2, <2>3
  <1>3. tier' \in [CacheTier -> Assets] /\ lru' \in [LimitedTiers -> Seq(AssetIds)]
    BY <1>1, <1>2 DEF RemoveAsset
  <1>4. ASSUME NEW t \in LimitedTiers
        PROVE  /\ TierSize(tier'[t]) <= TierLimit
               /\ \A b \in AssetIds : tier'[t][b] # 0 => b \in Range(lru'[t])
    <2>0. t \in CacheTier /\ TierSize(tier[t]) <= TierLimit /\ TierLimit \in Nat
          /\ \A b \in AssetIds : tier[t][b] # 0 => b \in Range(lru[t])
      BY RenderPackAssumption DEF CacheInv, CacheWithin, CacheTier
    <2>1. TierSize(tier'[t]) <= TierSize(tier[t])
      BY <1>1, <2>0, WithoutSmaller
    <2>2. TierSize(tier'[t]) \in Nat /\ TierSize(tier[t]) \in Nat
      BY <1>1, <2>0, TierSizeNat
    <2>3. \A b \in AssetIds : tier'[t][b] # 0 => b \in Range(lru'[t])
      BY <1>1, <1>2, <2>0
    <2>. QED  BY <2>0, <2>1, <2>2, <2>3
  <1>5. CacheWithin'
    BY <1>4 DEF CacheWithin
  <1>. QED  BY <1>3, <1>5 DEF CacheInv

LEMMA CacheInvStep == CacheInv /\ [SceneNext \/ CacheNext]_pack_vars => CacheInv'
  <1>. SUFFICES ASSUME CacheInv, [SceneNext \/ CacheNext]_pack_vars PROVE CacheInv'
    OBVIOUS
  <1>1. ASSUME NEW a \in AssetIds, NEW size \in AssetSizes, PutRegional(a, size) PROVE CacheInv'
    <2>1. /\ tier' = [tier EXCEPT !["Regional"] = [tier["Regional"] EXCEPT ![a] = size]]
          /\ lru' = lru
      BY <1>1 DEF PutRegional
    <2>2. tier["Regional"] \in Assets /\ size \in Nat
      BY RenderPackAssumption DEF CacheInv, CacheTier
    <2>3. [tier["Regional"] EXCEPT ![a] = size] \in Assets
      BY <2>2, PutAdds
    <2>4. /\ tier' \in [CacheTier -> Assets]
          /\ \A t \in LimitedTiers : tier'[t] = tier[t]
      BY <2>1, <2>3 DEF CacheInv, CacheTier, LimitedTiers
    <2>. QED  BY <2>1, <2>4 DEF CacheInv, CacheWithin
  <1>2. CASE UNCHANGED <<tier, lru>>
    BY <1>2 DEF CacheInv, CacheWithin
  <1>3. CASE CacheNext
    BY <1>1, <1>3, PutKeepsWithin, RemoveKeepsWithin DEF CacheNext
  <1>4. CASE SceneNext \/ UNCHANGED pack_vars
    BY <1>2, <1>4 DEF SceneNext, AddNode, AddSceneEdge, StartCheck, PopNode, EndCheck, asset_vars,
                      pack_vars
  <1>. QED  BY <1>3, <1>4

\* A limited tier never holds more than its limit, however often an asset was
\* put again with another size, evicted or removed; every asset it holds has
\* an entry in its queue, without which eviction could not make room.
THEOREM TiersStayWithin == PackSpec => []CacheWithin
  <1>1. PackInit => CacheInv
    <2>. SUFFICES ASSUME PackInit PROVE CacheInv
      OBVIOUS
    <2>1. /\ tier \in [CacheTier -> Assets]
          /\ lru \in [LimitedTiers -> Seq(AssetIds)]
      BY DEF PackInit, CacheInit, Assets
    <2>2. \A t \in LimitedTiers : t \in CacheTier /\ \A a \in AssetIds : tier[t][a] = 0
      BY DEF PackInit, CacheInit, CacheTier
    <2>3. \A t \in LimitedTiers : TierSize(tier[t]) = 0
      BY <2>1, <2>2, EmptyTier
    <2>. QED  BY <2>1, <2>2, <2>3, RenderPackAssumption DEF CacheInv, CacheWithin
  <1>2. CacheInv => CacheWithin
    BY DEF CacheInv
  <1>. QED  BY <1>1, <1>2, CacheInvStep, PTL DEF PackSpec

-----------------------------------------------------------------------------
(* The scene: is_acyclic *)

\* Edges into n that do not come from V, and edges from n to t.
EdgesInto(n, V) ==
    {i \in DOMAIN scene_edges : scene_edges[i][2] = n /\ scene_edges[i][1] \notin V}
EdgesFromTo(n, t) == {i \in DOMAIN scene_edges : scene_edges[i] = <<n, t>>}

\* Every node of C has an edge to a node of C, or from one.
LeadsOn(C) ==
    \A n \in C : \E i \in DOMAIN scene_edges : scene_edges[i][1] = n /\ scene_edges[i][2] \in C
LedTo(C) ==
    \A n \in C : \E i \in DOMAIN scene_edges : scene_edges[i][2] = n /\ scene_edges[i][1] \in C

\* What is known while is_acyclic runs and has visited V.  V, which the code does
\* not keep, is closed under sources, and so nothing in it is on a cycle.
Progress(V) ==
    /\ DOMAIN kahn = {"queue", "degree", "visited", "busy"}
    /\ kahn.queue \in Seq(NodeIds) /\ OnceEach(kahn.queue)
    /\ DOMAIN kahn.degree = NodeIds
    /\ \A n \in NodeIds : kahn.degree[n] = Cardinality(EdgesInto(n, V))
    /\ Range(kahn.queue) = {n \in NodeIds \ V : kahn.degree[n] = 0}
    /\ kahn.visited = Cardinality(V)
    /\ \A i \in DOMAIN scene_edges : scene_edges[i][2] \in V => scene_edges[i][1] \in V
    /\ \A C \in SUBSET V : C # {} => ~LeadsOn(C)

SceneInv ==
    /\ nodes \in Nat
    /\ scene_edges \in Seq(Nat \X Nat)
    /\ kahn.busy => acyclic = "none" /\ \E V \in SUBSET NodeIds : Progress(V)
    /\ AcyclicExact

LEMMA EdgesAreFinite ==
    ASSUME SceneInv
    PROVE  /\ \A i \in DOMAIN scene_edges :
                scene_edges[i] = <<scene_edges[i][1], scene_edges[i][2]>>
           /\ IsFiniteSet(DOMAIN scene_edges)
           /\ IsFiniteSet(NodeIds) /\ Cardinality(NodeIds) = nodes
  <1>1. DOMAIN scene_edges = 1 .. Len(scene_edges) /\ Len(scene_edges) \in Nat
    BY DEF SceneInv
  <1>2. \A i \in DOMAIN scene_edges : scene_edges[i] = <<scene_edges[i][1], scene_edges[i][2]>>
    BY DEF SceneInv
  <1>3. IsFiniteSet(DOMAIN scene_edges)
    BY <1>1, FS_Interval
  <1>4. IsFiniteSet(NodeIds) /\ Cardinality(NodeIds) = nodes
    BY FS_Interval DEF SceneInv, NodeIds
  <1>. QED  BY <1>2, <1>3, <1>4

\* Of finitely many nodes each of which is led to from one of them, some are
\* such that each leads on to one of them: the fewest that are led to.
LEMMA LedToLeadsOn ==
    ASSUME NEW U, IsFiniteSet(U), U # {}, LedTo(U)
    PROVE  \E C \in SUBSET U : C # {} /\ LeadsOn(C)
  <1>. DEFINE cs == {C \in SUBSET U : C # {} /\ LedTo(C)}
  <1>1. PICK C \in cs : \A D \in cs : D \subseteq C => D = C
    <2>1. cs \subseteq SUBSET U /\ U \in cs
      OBVIOUS
    <2>. HIDE DEF cs
    <2>. QED  BY <2>1, SmallestSubset
  <1>2. ASSUME NEW n \in C,
               ~ \E i \in DOMAIN scene_edges : scene_edges[i][1] = n /\ scene_edges[i][2] \in C
        PROVE  FALSE
    <2>. DEFINE D == C \ {n}
    <2>1. LedTo(D)
      BY <1>1, <1>2 DEF LedTo
    <2>2. D # {}
      BY <1>1, <1>2 DEF LedTo
    <2>. QED  BY <1>1, <2>1, <2>2
  <1>3. LeadsOn(C)
    BY <1>2 DEF LeadsOn
  <1>. QED  BY <1>1, <1>3

\* The targets that NowFree gives.
LEMMA NowFreeIs ==
    ASSUME SceneInv, NEW degree, DOMAIN degree = NodeIds, NEW n \in NodeIds
    PROVE  LET free == {t \in NodeIds : EdgesFromTo(n, t) # {} /\ Lower(degree, n)[t] = 0}
           IN  /\ NowFree(degree, n) \in Seq(NodeIds)
               /\ OnceEach(NowFree(degree, n))
               /\ Range(NowFree(degree, n)) = free
  <1>. DEFINE lowered == Lower(degree, n)
              free == {t \in NodeIds : EdgesFromTo(n, t) # {} /\ lowered[t] = 0}
              E == DOMAIN scene_edges
              to(i) == scene_edges[i][2]
              Frees(i) == /\ scene_edges[i][1] = n /\ to(i) \in NodeIds /\ lowered[to(i)] = 0
                          /\ \A j \in E : scene_edges[j] = scene_edges[i] => j <= i
              all == [i \in E |-> i]
              at == Retain(all, {i \in E : Frees(i)})
              result == NowFree(degree, n)
  <1>1. result = [k \in DOMAIN at |-> to(at[k])]
    BY DEF NowFree
  <1>2. E = 1 .. Len(scene_edges) /\ Len(scene_edges) \in Nat
    BY DEF SceneInv
  <1>3. \A i \in E : scene_edges[i] = <<scene_edges[i][1], to(i)>>
    BY EdgesAreFinite
  <1>. HIDE DEF result, lowered, E
  <1>4. all \in Seq(E) /\ Range(all) = E /\ OnceEach(all)
    BY <1>2 DEF Range, OnceEach
  <1>5. at \in Seq(E) /\ Range(at) = {i \in E : Frees(i)} /\ OnceEach(at)
    <2>. HIDE DEF all, Frees
    <2>1. /\ at \in Seq(E) /\ Range(at) = Range(all) \cap {i \in E : Frees(i)}
          /\ OnceEach(at)
      BY <1>4, RetainIs
    <2>. QED  BY <1>4, <2>1
  <1>. HIDE DEF at
  <1>6. \A k \in DOMAIN at : at[k] \in E /\ Frees(at[k])
    BY <1>5 DEF Range
  <1>7. result \in Seq(NodeIds) /\ DOMAIN result = DOMAIN at
    <2>1. DOMAIN at = 1 .. Len(at) /\ Len(at) \in Nat
      BY <1>5
    <2>. QED  BY <1>1, <1>6, <2>1
  <1>8. ASSUME NEW k \in DOMAIN at, NEW l \in DOMAIN at, result[k] = result[l] PROVE k = l
    <2>1. scene_edges[at[k]] = scene_edges[at[l]]
      BY <1>1, <1>3, <1>6, <1>8
    <2>2. at[k] \in E /\ at[l] \in E /\ at[k] <= at[l] /\ at[l] <= at[k]
      BY <1>6, <2>1
    <2>3. at[k] = at[l]
      BY <1>2, <2>2
    <2>. QED  BY <1>5, <2>3 DEF OnceEach
  <1>9. Range(result) \subseteq free
    <2>1. ASSUME NEW k \in DOMAIN at PROVE to(at[k]) \in free
      <3>1. at[k] \in EdgesFromTo(n, to(at[k]))
        BY <1>3, <1>6 DEF EdgesFromTo, E
      <3>. QED  BY <1>6, <3>1
    <2>. QED  BY <1>1, <1>7, <2>1 DEF Range
  <1>10. ASSUME NEW t \in free PROVE t \in Range(result)
    <2>. DEFINE P == EdgesFromTo(n, t)
    <2>1. P # {} /\ P \in SUBSET (1 .. Len(scene_edges))
      BY <1>2 DEF EdgesFromTo, E
    <2>. HIDE DEF P
    <2>2. Max(P) \in P /\ \A i \in P : i <= Max(P)
      BY <1>2, <2>1, MaxIsLast
    <2>3. Max(P) \in E /\ scene_edges[Max(P)] = <<n, t>>
      BY <2>2 DEF P, EdgesFromTo, E
    <2>4. \A j \in E : scene_edges[j] = <<n, t>> => j <= Max(P)
      BY <2>2 DEF P, EdgesFromTo, E
    <2>5. Frees(Max(P)) /\ to(Max(P)) = t
      BY <2>3, <2>4
    <2>6. Max(P) \in Range(at)
      BY <1>5, <2>3, <2>5
    <2>7. PICK k \in DOMAIN at : at[k] = Max(P)
      BY <2>6 DEF Range
    <2>8. result[k] = t
      BY <1>1, <2>5, <2>7
    <2>. QED  BY <1>7, <2>8 DEF Range
  <1>11. Range(result) = free
    <2>. HIDE DEF free
    <2>. QED  BY <1>9, <1>10
  <1>. QED  BY <1>7, <1>8, <1>11 DEF result, lowered, OnceEach

LEMMA StartProgress ==
    ASSUME SceneInv, StartCheck
    PROVE  SceneInv'
  <1>. DEFINE degree == [n \in NodeIds |-> InDegree(n)]
              none == {n \in NodeIds : degree[n] = 0}
  <1>1. PICK q \in SetToSeqs(none) :
          kahn' = [queue |-> q, degree |-> degree, visited |-> 0, busy |-> TRUE]
    BY DEF StartCheck
  <1>2. UNCHANGED <<nodes, scene_edges, acyclic>> /\ acyclic = "none"
    BY DEF StartCheck
  <1>3. IsFiniteSet(none)
    BY EdgesAreFinite, FS_Subset
  <1>. HIDE DEF none
  <1>4. q \in Seq(none) /\ OnceEach(q) /\ Range(q) = none
    BY <1>3, ListOfAll
  <1>5. q \in Seq(NodeIds)
    <2>1. none \subseteq NodeIds
      BY DEF none
    <2>2. q \in [1 .. Len(q) -> none] /\ Len(q) \in Nat
      BY <1>4
    <2>3. q \in [1 .. Len(q) -> NodeIds]
      BY <2>1, <2>2
    <2>. QED  BY <2>2, <2>3
  <1>6. \A n \in NodeIds : degree[n] = Cardinality(EdgesInto(n, {}))
    BY DEF InDegree, EdgesInto
  <1>7. none = {n \in NodeIds \ {} : degree[n] = 0}
    BY DEF none
  <1>. HIDE DEF degree
  <1>8. DOMAIN degree = NodeIds /\ Cardinality({}) = 0
    BY FS_EmptySet DEF degree
  <1>9. /\ kahn'.queue = q /\ kahn'.degree = degree /\ kahn'.visited = 0
        /\ DOMAIN kahn' = {"queue", "degree", "visited", "busy"}
    BY <1>1
  <1>10. /\ NodeIds' = NodeIds
         /\ \A n, V : EdgesInto(n, V)' = EdgesInto(n, V)
    BY <1>2 DEF NodeIds, EdgesInto
  <1>11. Progress({})'
    BY <1>2, <1>4, <1>5, <1>6, <1>7, <1>8, <1>9, <1>10 DEF Progress
  <1>12. \E V \in SUBSET NodeIds' : Progress(V)'
    BY <1>11
  <1>. QED  BY <1>2, <1>12 DEF SceneInv, AcyclicExact

\* One visit: n leaves the queue and joins V.
LEMMA PopProgress ==
    ASSUME SceneInv, PopNode, NEW V \in SUBSET NodeIds, Progress(V)
    PROVE  \E W \in SUBSET NodeIds : Progress(W)'
  <1>. DEFINE n == Head(kahn.queue)
              W == V \cup {n}
              freed == NowFree(kahn.degree, n)
              lowered == Lower(kahn.degree, n)
              into(t, X) == Cardinality(EdgesInto(t, X))
              times(t) == Cardinality(EdgesFromTo(n, t))
  <1>0. /\ kahn.queue \in Seq(NodeIds) /\ OnceEach(kahn.queue) /\ kahn.queue # <<>>
        /\ DOMAIN kahn.degree = NodeIds
        /\ DOMAIN kahn = {"queue", "degree", "visited", "busy"}
        /\ \A t \in NodeIds : kahn.degree[t] = into(t, V)
        /\ Range(kahn.queue) = {t \in NodeIds \ V : kahn.degree[t] = 0}
    BY DEF Progress, PopNode
  <1>1. /\ Tail(kahn.queue) \in Seq(NodeIds) /\ OnceEach(Tail(kahn.queue))
        /\ n \in Range(kahn.queue) /\ Range(Tail(kahn.queue)) = Range(kahn.queue) \ {n}
    BY <1>0, TailIs
  <1>2. n \in NodeIds /\ n \notin V /\ kahn.degree[n] = 0
    BY <1>0, <1>1
  <1>3. /\ kahn'.queue = Tail(kahn.queue) \o freed
        /\ kahn'.degree = lowered /\ kahn'.visited = kahn.visited + 1
        /\ DOMAIN kahn' = {"queue", "degree", "visited", "busy"}
        /\ UNCHANGED <<nodes, scene_edges>>
    BY <1>0 DEF PopNode
  <1>4. /\ DOMAIN lowered = NodeIds
        /\ \A t \in NodeIds : lowered[t] = kahn.degree[t] - times(t)
    BY <1>0 DEF Lower, OutTimes, EdgesFromTo
  <1>. HIDE DEF n, W, lowered, freed
  <1>5. ASSUME NEW t
        PROVE  /\ into(t, W) \in Nat /\ times(t) \in Nat
               /\ into(t, V) = into(t, W) + times(t)
    <2>1. EdgesInto(t, V) = EdgesInto(t, W) \cup EdgesFromTo(n, t)
      BY <1>2, EdgesAreFinite DEF EdgesInto, EdgesFromTo, W
    <2>2. EdgesInto(t, W) \cap EdgesFromTo(n, t) = {}
      BY DEF EdgesInto, EdgesFromTo, W
    <2>3. IsFiniteSet(EdgesInto(t, W)) /\ IsFiniteSet(EdgesFromTo(n, t))
      BY EdgesAreFinite, FS_Subset DEF EdgesInto, EdgesFromTo
    <2>. QED  BY <2>1, <2>2, <2>3, CardinalityOfBoth
  <1>6. \A t \in NodeIds : lowered[t] = into(t, W)
    BY <1>0, <1>4, <1>5
  <1>7. \A t : times(t) = 0 <=> EdgesFromTo(n, t) = {}
    <2>1. ASSUME NEW t PROVE times(t) = 0 <=> EdgesFromTo(n, t) = {}
      <3>1. IsFiniteSet(EdgesFromTo(n, t))
        BY EdgesAreFinite, FS_Subset DEF EdgesFromTo
      <3>. QED  BY <3>1, FS_EmptySet
    <2>. QED  BY <2>1
  <1>8. EdgesInto(n, V) = {}
    <2>1. IsFiniteSet(EdgesInto(n, V)) /\ into(n, V) = 0
      BY <1>0, <1>2, EdgesAreFinite, FS_Subset DEF EdgesInto
    <2>. QED  BY <2>1, FS_EmptySet
  <1>9. \A i \in DOMAIN scene_edges : scene_edges[i][2] \in W => scene_edges[i][1] \in V
    BY <1>8 DEF Progress, EdgesInto, W
  <1>10. \A t \in W : EdgesFromTo(n, t) = {}
    BY <1>2, <1>9, EdgesAreFinite DEF EdgesFromTo
  <1>. DEFINE free == {t \in NodeIds : EdgesFromTo(n, t) # {} /\ lowered[t] = 0}
  <1>11. freed \in Seq(NodeIds) /\ OnceEach(freed) /\ Range(freed) = free
    BY <1>0, <1>2, NowFreeIs DEF freed, lowered
  <1>. HIDE DEF into, times
  <1>12. \A t \in free : kahn.degree[t] # 0 /\ t \notin W
    BY <1>0, <1>4, <1>5, <1>6, <1>7, <1>10
  <1>13. (Range(kahn.queue) \ {n}) \cup free = {t \in NodeIds \ W : lowered[t] = 0}
    <2>1. ASSUME NEW t \in Range(kahn.queue) \ {n} PROVE t \in NodeIds \ W /\ lowered[t] = 0
      <3>1. t \in NodeIds \ W /\ kahn.degree[t] = 0
        BY <1>0, <2>1 DEF W
      <3>. QED  BY <1>0, <1>5, <1>6, <3>1
    <2>2. ASSUME NEW t \in NodeIds \ W, lowered[t] = 0
          PROVE  t \in (Range(kahn.queue) \ {n}) \cup free
      <3>1. CASE EdgesFromTo(n, t) # {}
        BY <2>2, <3>1
      <3>2. CASE EdgesFromTo(n, t) = {}
        <4>1. kahn.degree[t] = 0
          BY <1>0, <1>5, <1>6, <1>7, <2>2, <3>2
        <4>. QED  BY <1>0, <2>2, <4>1 DEF W
      <3>. QED  BY <3>1, <3>2
    <2>. QED  BY <1>12, <2>1, <2>2
  <1>14. /\ kahn'.queue \in Seq(NodeIds) /\ OnceEach(kahn'.queue)
         /\ Range(kahn'.queue) = {t \in NodeIds \ W : kahn'.degree[t] = 0}
    <2>1. Range(Tail(kahn.queue)) \cap Range(freed) = {}
      BY <1>0, <1>1, <1>11, <1>12
    <2>2. /\ Tail(kahn.queue) \o freed \in Seq(NodeIds) /\ OnceEach(Tail(kahn.queue) \o freed)
          /\ Range(Tail(kahn.queue) \o freed) = Range(Tail(kahn.queue)) \cup Range(freed)
      <3>. DEFINE rest == Tail(kahn.queue)
      <3>1. /\ rest \in Seq(NodeIds) /\ OnceEach(rest)
            /\ freed \in Seq(NodeIds) /\ OnceEach(freed) /\ Range(rest) \cap Range(freed) = {}
        BY <1>1, <1>11, <2>1
      <3>. HIDE DEF rest
      <3>2. /\ rest \o freed \in Seq(NodeIds) /\ OnceEach(rest \o freed)
            /\ Range(rest \o freed) = Range(rest) \cup Range(freed)
        BY <3>1, BothLists
      <3>. QED  BY <3>2 DEF rest
    <2>. QED  BY <1>1, <1>3, <1>11, <1>13, <2>2
  <1>15. kahn'.visited = Cardinality(W)
    <2>1. IsFiniteSet(V)
      BY EdgesAreFinite, FS_Subset
    <2>. QED  BY <1>2, <1>3, <2>1, FS_AddElement DEF Progress, W
  <1>16. ASSUME NEW C \in SUBSET W, C # {}, LeadsOn(C) PROVE FALSE
    <2>1. n \notin C
      BY <1>9, <1>2, <1>16 DEF LeadsOn
    <2>2. C \in SUBSET V
      BY <2>1 DEF W
    <2>. QED  BY <1>16, <2>2 DEF Progress
  <1>17. /\ NodeIds' = NodeIds /\ \A t, X : EdgesInto(t, X)' = EdgesInto(t, X)
         /\ \A C : LeadsOn(C)' = LeadsOn(C)
    BY <1>3 DEF NodeIds, EdgesInto, LeadsOn
  <1>18. \A X : X = W => Progress(X)'
    <2>. SUFFICES ASSUME NEW X, X = W PROVE Progress(X)'
      OBVIOUS
    <2>1. /\ kahn'.queue \in Seq(NodeIds') /\ OnceEach(kahn'.queue)
          /\ Range(kahn'.queue) = {t \in NodeIds' \ X : kahn'.degree[t] = 0}
          /\ kahn'.visited = Cardinality(X)
      BY <1>14, <1>15, <1>17
    <2>2. /\ DOMAIN kahn'.degree = NodeIds'
          /\ \A t \in NodeIds' : kahn'.degree[t] = Cardinality(EdgesInto(t, X)')
      BY <1>3, <1>4, <1>6, <1>17 DEF into
    <2>3. /\ \A i \in DOMAIN scene_edges' : scene_edges'[i][2] \in X => scene_edges'[i][1] \in X
          /\ \A C \in SUBSET X : C # {} => ~LeadsOn(C)'
      BY <1>3, <1>9, <1>16, <1>17 DEF W
    <2>. QED  BY <1>3, <2>1, <2>2, <2>3 DEF Progress
  <1>19. W \in SUBSET NodeIds
    BY <1>2 DEF W
  <1>. QED  BY <1>18, <1>19

\* At the end every node was visited, or those that were not contain a cycle.
LEMMA EndExact ==
    ASSUME SceneInv, EndCheck, NEW V \in SUBSET NodeIds, Progress(V)
    PROVE  AcyclicExact'
  <1>1. /\ UNCHANGED <<nodes, scene_edges>> /\ kahn.queue = <<>>
        /\ acyclic' = IF kahn.visited = nodes THEN "yes" ELSE "no"
    BY DEF EndCheck
  <1>2. (HasCycle' <=> HasCycle) /\ (ReferencesValid' <=> ReferencesValid)
    BY <1>1 DEF HasCycle, ReferencesValid, NodeIds
  <1>3. HasCycle <=> \E C \in SUBSET NodeIds : C # {} /\ LeadsOn(C)
    BY DEF HasCycle, LeadsOn
  <1>4. kahn.visited = Cardinality(V) /\ nodes = Cardinality(NodeIds) /\ IsFiniteSet(NodeIds)
    BY EdgesAreFinite DEF Progress
  <1>5. ASSUME kahn.visited = nodes PROVE ~HasCycle
    <2>1. V = NodeIds
      BY <1>4, <1>5, FS_Subset
    <2>. QED  BY <1>3, <2>1 DEF Progress
  <1>6. ASSUME kahn.visited # nodes, ReferencesValid PROVE HasCycle
    <2>. DEFINE U == NodeIds \ V
    <2>0. V # NodeIds /\ U \in SUBSET NodeIds
      BY <1>4, <1>6
    <2>1. U # {} /\ IsFiniteSet(U)
      BY <1>4, <2>0, FS_Subset
    <2>2. ASSUME NEW n \in U
          PROVE  \E i \in DOMAIN scene_edges : scene_edges[i][2] = n /\ scene_edges[i][1] \in U
      <3>1. kahn.degree[n] # 0 /\ kahn.degree[n] = Cardinality(EdgesInto(n, V))
        <4>1. Range(kahn.queue) = {}
          BY <1>1 DEF Range
        <4>. QED  BY <4>1 DEF Progress
      <3>2. EdgesInto(n, V) # {}
        BY <3>1, FS_EmptySet
      <3>3. PICK i \in DOMAIN scene_edges : scene_edges[i][2] = n /\ scene_edges[i][1] \notin V
        BY <3>2 DEF EdgesInto
      <3>. QED  BY <1>6, <3>3 DEF ReferencesValid
    <2>3. LedTo(U)
      BY <2>2 DEF LedTo
    <2>. HIDE DEF U
    <2>4. PICK C \in SUBSET U : C # {} /\ LeadsOn(C)
      BY <2>1, <2>3, LedToLeadsOn
    <2>5. C \in SUBSET NodeIds
      BY DEF U
    <2>. QED  BY <1>3, <2>4, <2>5
  <1>. QED  BY <1>1, <1>2, <1>5, <1>6 DEF AcyclicExact

LEMMA SceneInvStep == SceneInv /\ [SceneNext \/ CacheNext]_pack_vars => SceneInv'
  <1>. SUFFICES ASSUME SceneInv, [SceneNext \/ CacheNext]_pack_vars PROVE SceneInv'
    OBVIOUS
  <1>1. CASE AddNode
    <2>1. nodes' = nodes + 1 /\ acyclic' = "none" /\ UNCHANGED <<scene_edges, kahn>> /\ ~kahn.busy
      BY <1>1 DEF AddNode
    <2>. QED  BY <2>1 DEF SceneInv, AcyclicExact
  <1>2. ASSUME NEW s \in NodeRefs, NEW t \in NodeRefs, AddSceneEdge(s, t) PROVE SceneInv'
    <2>1. /\ scene_edges' = Append(scene_edges, <<s, t>>) /\ acyclic' = "none"
          /\ UNCHANGED <<nodes, kahn>> /\ ~kahn.busy
      BY <1>2 DEF AddSceneEdge
    <2>2. <<s, t>> \in Nat \X Nat
      BY RenderPackAssumption
    <2>3. scene_edges' \in Seq(Nat \X Nat)
      BY <2>1, <2>2 DEF SceneInv
    <2>. QED  BY <2>1, <2>3 DEF SceneInv, AcyclicExact
  <1>3. CASE StartCheck
    BY <1>3, StartProgress
  <1>4. CASE PopNode
    <2>1. UNCHANGED <<nodes, scene_edges, acyclic>> /\ kahn.busy
      BY <1>4 DEF PopNode
    <2>2. PICK V \in SUBSET NodeIds : Progress(V)
      BY <2>1 DEF SceneInv
    <2>3. \E W \in SUBSET NodeIds : Progress(W)'
      BY <1>4, <2>2, PopProgress
    <2>4. NodeIds' = NodeIds /\ acyclic = "none"
      BY <2>1 DEF NodeIds, SceneInv
    <2>5. acyclic' = "none" /\ \E W \in SUBSET NodeIds' : Progress(W)'
      BY <2>1, <2>3, <2>4
    <2>. QED  BY <2>1, <2>5 DEF SceneInv, AcyclicExact
  <1>5. CASE EndCheck
    <2>1. UNCHANGED <<nodes, scene_edges>> /\ kahn.busy /\ kahn' = Resting
      BY <1>5 DEF EndCheck
    <2>2. PICK V \in SUBSET NodeIds : Progress(V)
      BY <2>1 DEF SceneInv
    <2>3. AcyclicExact'
      BY <1>5, <2>2, EndExact
    <2>4. ~kahn'.busy
      BY <2>1 DEF Resting
    <2>. QED  BY <2>1, <2>3, <2>4 DEF SceneInv
  <1>6. CASE UNCHANGED scene_vars
    <2>1. UNCHANGED <<nodes, scene_edges, kahn, acyclic>>
      BY <1>6 DEF scene_vars
    <2>2. NodeIds' = NodeIds /\ (AcyclicExact' <=> AcyclicExact)
      BY <2>1 DEF AcyclicExact, HasCycle, ReferencesValid, NodeIds
    <2>3. \A V : Progress(V)' <=> Progress(V)
      BY <2>1 DEF NodeIds, Progress, EdgesInto, LeadsOn
    <2>. QED  BY <2>1, <2>2, <2>3 DEF SceneInv
  <1>7. CASE CacheNext
    BY <1>6, <1>7 DEF CacheNext, PutLimited, PutRegional, RemoveAsset
  <1>. QED  BY <1>1, <1>2, <1>3, <1>4, <1>5, <1>6, <1>7 DEF SceneNext, pack_vars

\* is_acyclic never calls a cyclic scene acyclic, and calls an acyclic one cyclic
\* only if an edge starts or ends at a node that does not exist: for any scene,
\* with parallel edges and loops, and any order its hash map is iterated in.
THEOREM AcyclicIsExact == PackSpec => []AcyclicExact
  <1>1. PackInit => SceneInv
    BY DEF PackInit, SceneInit, SceneInv, AcyclicExact, Resting
  <1>2. SceneInv => AcyclicExact
    BY DEF SceneInv
  <1>. QED  BY <1>1, <1>2, SceneInvStep, PTL DEF PackSpec

-----------------------------------------------------------------------------
(* Routing: ranks are numbers *)

LEMMA WeightsAreNumbers ==
    ASSUME NEW qos
    PROVE  LET w == Weights(qos) IN
           /\ w.sim \in Nat /\ w.rep \in Nat /\ w.lat \in Nat /\ w.price \in Nat /\ w.load \in Nat
  BY DEF Weights

LEMMA LeastOfTwo ==
    ASSUME NEW x \in Nat, NEW y \in Nat
    PROVE  Least(x, y) \in Nat /\ Least(x, y) <= x /\ Least(x, y) <= y
  BY DEF Least

RoutingInputs ==
    /\ snapshot \in [Operators -> Profiles]
    /\ metrics \in [Operators -> Metrics \cup {NoMetrics}]

LEMMA ScoresAreNumbers ==
    ASSUME RoutingInputs, NEW o \in Operators, NEW r \in Requests
    PROVE  Score(o, r) \in Nat
  <1>. DEFINE s == snapshot[o]
              m == metrics[o]
              w == Weights(r.qos)
  <1>1. /\ s.reputation \in Nat /\ s.latency \in Nat /\ s.price \in Nat /\ s.vram \in Nat
        /\ r.budget \in Nat
    BY RoutingAssumption DEF RoutingInputs
  <1>2. m # NoMetrics => /\ m.load \in Nat /\ m.success \in Nat /\ m.fraud \in Nat
                         /\ m.uptime \in Nat /\ m.latency \in Nat
    BY RoutingAssumption DEF RoutingInputs
  <1>3. ReputationScore(o) \in Nat
    <2>1. ASSUME NEW l \in Nat
          PROVE  /\ Least(l \div 10, 1000) \in Nat /\ Least(l, 10) * 50 \in Nat
                 /\ Least(l \div 10000, 100) \in Nat
      <3>. DEFINE x == l \div 10
                  y == l \div 10000
      <3>1. x \in Nat /\ y \in Nat
        OBVIOUS
      <3>. HIDE DEF x, y
      <3>2. Least(x, 1000) \in Nat /\ Least(l, 10) \in Nat /\ Least(y, 100) \in Nat
        <4>1. Least(x, 1000) \in Nat
          BY <3>1, LeastOfTwo
        <4>2. Least(l, 10) \in Nat
          BY LeastOfTwo
        <4>3. Least(y, 100) \in Nat
          BY <3>1, LeastOfTwo
        <4>. QED  BY <4>1, <4>2, <4>3
      <3>3. Least(l, 10) * 50 \in Nat
        BY <3>2
      <3>. QED  BY <3>2, <3>3 DEF x, y
    <2>2. \A x, y \in Nat : SaturatingSub(x, y) \in Nat
      BY DEF SaturatingSub
    <2>3. ASSUME m # NoMetrics PROVE MeasuredReputation(m) \in Nat
      <3>. DEFINE taken == Least(m.fraud, 10) * 50
                  added == Least(m.uptime \div 10000, 100)
      <3>1. taken \in Nat /\ added \in Nat /\ m.success \in Nat
        BY <1>2, <2>1, <2>3
      <3>. HIDE DEF taken, added
      <3>2. SaturatingSub(m.success, taken) + added \in Nat
        <4>1. SaturatingSub(m.success, taken) \in Nat
          BY <2>2, <3>1
        <4>. QED  BY <3>1, <4>1
      <3>. QED  BY <3>2 DEF MeasuredReputation, taken, added
    <2>. QED  BY <1>1, <2>1, <2>3 DEF ReputationScore
  <1>4. LatencyScore(o) \in Nat
    <2>1. ASSUME NEW l \in Nat, l # 0 PROVE Least(1000 \div l, 100) \in Nat
      <3>. DEFINE x == 1000 \div l
      <3>1. x \in Nat
        BY <2>1
      <3>. HIDE DEF x
      <3>2. Least(x, 100) \in Nat
        BY <3>1, LeastOfTwo
      <3>. QED  BY <3>2 DEF x
    <2>. QED  BY <1>1, <1>2, <2>1 DEF LatencyScore
  <1>5. PriceScore(o, r) \in Nat
    <2>1. ASSUME NEW price \in Nat, NEW budget \in Nat, budget > price
          PROVE  Least(((budget - price) * 100) \div budget, 100) \in Nat
      <3>. DEFINE x == ((budget - price) * 100) \div budget
      <3>1. x \in Nat
        BY <2>1
      <3>. HIDE DEF x
      <3>2. Least(x, 100) \in Nat
        BY <3>1, LeastOfTwo
      <3>. QED  BY <3>2 DEF x
    <2>. QED  BY <1>1, <2>1 DEF PriceScore
  <1>6. LoadScore(o) \in Nat
    BY <1>2 DEF LoadScore, SaturatingSub
  <1>7. SimilarityScore(o) \in Nat
    <2>. DEFINE x == (s.vram \div 8) * 20
    <2>1. x \in Nat
      BY <1>1
    <2>. HIDE DEF x
    <2>2. Least(x, 20) \in Nat
      BY <2>1, LeastOfTwo
    <2>. QED  BY <2>2 DEF SimilarityScore, x
  <1>8. /\ w.sim \in Nat /\ w.rep \in Nat /\ w.lat \in Nat /\ w.price \in Nat /\ w.load \in Nat
    BY WeightsAreNumbers
  <1>9. \A a, b \in Nat : a * b \in Nat
    OBVIOUS
  <1>. DEFINE sum == w.sim * SimilarityScore(o) + w.rep * ReputationScore(o)
                       + w.lat * LatencyScore(o) + w.price * PriceScore(o, r)
                       + w.load * LoadScore(o)
  <1>10. sum \in Nat
    BY <1>3, <1>4, <1>5, <1>6, <1>7, <1>8, <1>9
  <1>11. Score(o, r) = sum \div 100
    BY DEF Score
  <1>. HIDE DEF sum
  <1>. QED  BY <1>10, <1>11

\* A way that a request is routed: adaptive, or under one of its seeds.
WayOf(way) == way.adaptive \/ way.seed \in RouteSeeds

LEMMA RanksAreNumbers ==
    ASSUME RoutingInputs, NEW o \in Operators, NEW r \in Requests, NEW way, WayOf(way)
    PROVE  Rank(o, r, way) \in Nat
  <1>1. ~way.adaptive => Tiebreak(o, way.seed) \in Nat
    BY RoutingAssumption DEF WayOf
  <1>. QED  BY <1>1, ScoresAreNumbers DEF Rank

-----------------------------------------------------------------------------
(* Routing: the order by rank *)

LEMMA OnceEachCount ==
    ASSUME NEW T, NEW s \in Seq(T), OnceEach(s)
    PROVE  IsFiniteSet(Range(s)) /\ Cardinality(Range(s)) = Len(s)
  <1>. DEFINE D == DOMAIN s
  <1>1. D = 1 .. Len(s) /\ Len(s) \in Nat /\ s \in [D -> T]
    OBVIOUS
  <1>2. IsFiniteSet(D) /\ Cardinality(D) = Len(s)
    BY <1>1, FS_Interval
  <1>3. s \in Bijection(D, Range(s))
    BY <1>1 DEF OnceEach, Bijection, Injection, Surjection, IsInjective, Range
  <1>. HIDE DEF D
  <1>. QED  BY <1>2, <1>3, FS_Bijection DEF ExistsBijection

\* Places ahead of place i in a stable sort by falling rank.
Ahead(rank, D, i) == {j \in D : rank[j] > rank[i] \/ (rank[j] = rank[i] /\ j < i)}

\* Each number of places ahead belongs to one place, and fewer are ahead of a
\* place that is ahead.
LEMMA PlacesAhead ==
    ASSUME NEW n \in Nat, NEW rank \in [1 .. n -> Nat]
    PROVE  LET D == 1 .. n
               count(i) == Cardinality(Ahead(rank, D, i))
           IN  /\ \A i \in D : count(i) \in 0 .. (n - 1)
               /\ \A i, j \in D : j \in Ahead(rank, D, i) => count(j) < count(i)
               /\ \A i, j \in D : count(i) = count(j) => i = j
               /\ \A m \in D : \E i \in D : count(i) = m - 1
  <1>. DEFINE D == 1 .. n
              A(i) == Ahead(rank, D, i)
              count(i) == Cardinality(A(i))
  <1>1. IsFiniteSet(D) /\ Cardinality(D) = n
    BY FS_Interval
  <1>2. \A i \in D : A(i) \subseteq D /\ i \notin A(i)
    BY DEF Ahead
  <1>3. \A i, j \in D : j \in A(i) => A(j) \subseteq A(i) /\ j \notin A(j)
    BY DEF Ahead
  <1>4. \A i, j \in D : i # j => j \in A(i) \/ i \in A(j)
    BY DEF Ahead
  <1>. HIDE DEF D, A
  <1>5. \A S, T : IsFiniteSet(T) /\ S \subseteq T /\ S # T =>
                    /\ Cardinality(S) \in Nat /\ Cardinality(T) \in Nat
                    /\ Cardinality(S) < Cardinality(T)
    <2>1. ASSUME NEW S, NEW T, IsFiniteSet(T), S \subseteq T, S # T
          PROVE  /\ Cardinality(S) \in Nat /\ Cardinality(T) \in Nat
                 /\ Cardinality(S) < Cardinality(T)
      <3>1. IsFiniteSet(S) /\ Cardinality(S) <= Cardinality(T) /\ Cardinality(S) # Cardinality(T)
        BY <2>1, FS_Subset
      <3>2. Cardinality(S) \in Nat /\ Cardinality(T) \in Nat
        BY <2>1, <3>1, FS_CardinalityType
      <3>. QED  BY <3>1, <3>2
    <2>. QED  BY <2>1
  <1>6. ASSUME NEW i \in D PROVE count(i) \in 0 .. (n - 1) /\ IsFiniteSet(A(i))
    <2>1. A(i) \subseteq D /\ A(i) # D
      BY <1>2
    <2>2. count(i) \in Nat /\ count(i) < n
      BY <1>1, <1>5, <2>1
    <2>. QED  BY <1>1, <2>1, <2>2, FS_Subset
  <1>7. ASSUME NEW i \in D, NEW j \in D, j \in A(i) PROVE count(j) < count(i)
    <2>1. A(j) \subseteq A(i) /\ A(j) # A(i) /\ IsFiniteSet(A(i))
      BY <1>3, <1>6, <1>7
    <2>. QED  BY <1>5, <2>1
  <1>8. ASSUME NEW i \in D, NEW j \in D, count(i) = count(j) PROVE i = j
    <2>1. count(i) \in Int /\ count(j) \in Int
      BY <1>6
    <2>. QED  BY <1>4, <1>7, <1>8, <2>1
  <1>. DEFINE f == [i \in D |-> count(i) + 1]
  <1>9. f \in [D -> D] /\ \A i, j \in D : f[i] = f[j] => i = j
    <2>. HIDE DEF count
    <2>1. ASSUME NEW i \in D PROVE count(i) + 1 \in D /\ count(i) \in Int
      <3>1. count(i) \in 0 .. (n - 1)
        BY <1>6
      <3>. QED  BY <3>1 DEF D
    <2>2. f \in [D -> D]
      BY <2>1
    <2>3. ASSUME NEW i \in D, NEW j \in D, f[i] = f[j] PROVE i = j
      <3>1. count(i) = count(j)
        BY <2>1, <2>3
      <3>. QED  BY <1>8, <3>1
    <2>. QED  BY <2>2, <2>3
  <1>10. ASSUME NEW m \in D PROVE \E i \in D : count(i) = m - 1
    <2>. HIDE DEF f
    <2>1. f \in Bijection(D, Range(f)) /\ Range(f) \in SUBSET D
      BY <1>9 DEF Bijection, Injection, Surjection, IsInjective, Range
    <2>2. Cardinality(Range(f)) = n
      BY <1>1, <2>1, FS_Bijection DEF ExistsBijection
    <2>3. Range(f) = D
      BY <1>1, <2>1, <2>2, FS_Subset
    <2>4. PICK i \in D : f[i] = m
      BY <1>9, <2>3 DEF Range
    <2>5. count(i) + 1 = m /\ count(i) \in Int
      BY <1>6, <2>4 DEF f
    <2>. QED  BY <2>5
  <1>. QED  BY <1>6, <1>7, <1>8, <1>10 DEF A, D

LEMMA SortedIs ==
    ASSUME NEW list \in Seq(Operators), OnceEach(list), NEW r, NEW way,
           \A o \in Operators : Rank(o, r, way) \in Nat
    PROVE  LET s == Sorted(list, r, way)
           IN  /\ s \in Seq(Operators) /\ Len(s) = Len(list)
               /\ OnceEach(s) /\ Range(s) = Range(list)
               /\ \A m, n \in DOMAIN s : m < n => Rank(s[m], r, way) >= Rank(s[n], r, way)
  <1>. DEFINE N == Len(list)
              D == 1 .. N
              rank == [i \in D |-> Rank(list[i], r, way)]
              count(i) == Cardinality(Ahead(rank, D, i))
              Placed(m) == CHOOSE i \in D : count(i) = m - 1
              s == Sorted(list, r, way)
  <1>1. N \in Nat /\ DOMAIN list = D /\ \A i \in D : list[i] \in Operators
    OBVIOUS
  <1>2. rank \in [D -> Nat]
    BY <1>1
  <1>3. \A i \in D : Ahead(rank, D, i) = AheadOf(i, list, r, way)
    BY <1>1 DEF Ahead, AheadOf
  <1>4. s = [m \in D |-> list[Placed(m)]]
    <2>. DEFINE E == DOMAIN list
                Place(m) == CHOOSE i \in E : Cardinality(AheadOf(i, list, r, way)) = m - 1
    <2>1. s = [m \in E |-> list[Place(m)]]
      BY DEF Sorted
    <2>2. E = D
      BY <1>1
    <2>. HIDE DEF s, E, rank, D
    <2>3. ASSUME NEW m PROVE Place(m) = Placed(m)
      BY <1>3, <2>2
    <2>. HIDE DEF Place, Placed
    <2>. QED  BY <2>1, <2>2, <2>3
  <1>5. \A i \in D : rank[i] = Rank(list[i], r, way)
    OBVIOUS
  <1>. HIDE DEF rank, s, N
  <1>6. /\ \A i \in D : count(i) \in 0 .. (N - 1)
        /\ \A i, j \in D : j \in Ahead(rank, D, i) => count(j) < count(i)
        /\ \A i, j \in D : count(i) = count(j) => i = j
        /\ \A m \in D : \E i \in D : count(i) = m - 1
    BY <1>1, <1>2, PlacesAhead
  <1>. HIDE DEF count
  <1>7. \A m \in D : Placed(m) \in D /\ count(Placed(m)) = m - 1
    BY <1>6
  <1>. HIDE DEF Placed
  <1>8. ASSUME NEW i \in D PROVE count(i) + 1 \in D /\ Placed(count(i) + 1) = i
    <2>1. count(i) + 1 \in D /\ (count(i) + 1) - 1 = count(i)
      BY <1>1, <1>6
    <2>2. count(Placed(count(i) + 1)) = count(i) /\ Placed(count(i) + 1) \in D
      BY <1>7, <2>1
    <2>. QED  BY <1>6, <2>1, <2>2
  <1>9. ASSUME NEW m \in D, NEW n \in D, Placed(m) = Placed(n) PROVE m = n
    <2>1. m - 1 = n - 1
      BY <1>7, <1>9
    <2>. QED  BY <1>1, <2>1
  <1>10. s \in Seq(Operators) /\ DOMAIN s = D /\ Len(s) = N
    BY <1>1, <1>4, <1>7
  <1>11. OnceEach(s)
    <2>1. ASSUME NEW m \in D, NEW n \in D, s[m] = s[n] PROVE m = n
      <3>1. list[Placed(m)] = list[Placed(n)] /\ Placed(m) \in DOMAIN list /\ Placed(n) \in DOMAIN list
        BY <1>1, <1>4, <1>7, <2>1
      <3>2. Placed(m) = Placed(n)
        BY <3>1 DEF OnceEach
      <3>. QED  BY <1>9, <3>2
    <2>. QED  BY <1>10, <2>1 DEF OnceEach
  <1>12. Range(s) = Range(list)
    <2>1. \A m \in D : s[m] \in Range(list)
      BY <1>1, <1>4, <1>7 DEF Range
    <2>2. ASSUME NEW i \in D PROVE list[i] \in Range(s)
      <3>1. s[count(i) + 1] = list[i] /\ count(i) + 1 \in DOMAIN s
        BY <1>4, <1>8, <1>10
      <3>. QED  BY <3>1 DEF Range
    <2>. QED  BY <1>1, <1>10, <2>1, <2>2 DEF Range
  <1>13. ASSUME NEW m \in D, NEW n \in D, m < n PROVE rank[Placed(m)] >= rank[Placed(n)]
    <2>0. Placed(m) \in D /\ Placed(n) \in D /\ count(Placed(m)) = m - 1 /\ count(Placed(n)) = n - 1
      BY <1>7
    <2>1. Placed(n) \notin Ahead(rank, D, Placed(m))
      <3>1. ~ (count(Placed(n)) < count(Placed(m)))
        BY <1>1, <1>13, <2>0
      <3>. QED  BY <1>6, <2>0, <3>1
    <2>2. rank[Placed(m)] \in Nat /\ rank[Placed(n)] \in Nat
      BY <1>2, <2>0
    <2>3. ~ (rank[Placed(n)] > rank[Placed(m)])
      BY <2>0, <2>1 DEF Ahead
    <2>. QED  BY <2>2, <2>3
  <1>14. \A m, n \in D : m < n => Rank(s[m], r, way) >= Rank(s[n], r, way)
    <2>1. \A m \in D : rank[Placed(m)] = Rank(s[m], r, way)
      BY <1>4, <1>5, <1>7
    <2>. QED  BY <1>13, <2>1
  <1>. QED  BY <1>10, <1>11, <1>12, <1>14 DEF s, N

\* The first k of a list in falling rank, and what they leave out.
Best(chosen, rest, k, r, way) ==
    /\ chosen \subseteq rest
    /\ Cardinality(chosen) = Least(k, Cardinality(rest))
    /\ \A o \in chosen, p \in rest \ chosen : Rank(o, r, way) >= Rank(p, r, way)

LEMMA SelectIs ==
    ASSUME NEW list \in Seq(Operators), OnceEach(list), NEW r \in Requests, NEW way,
           \A o \in Operators : Rank(o, r, way) \in Nat
    PROVE  LET chosen == Select(list, r, way)
           IN  /\ chosen \in Seq(Operators)
               /\ Cardinality(Range(chosen)) = Len(chosen)
               /\ Best(Range(chosen), Range(list), DetermineK(r), r, way)
  <1>. DEFINE s == Sorted(list, r, way)
              N == Len(s)
              k == DetermineK(r)
              l == Least(k, N)
              chosen == SubSeq(s, 1, l)
  <1>1. k \in Nat
    BY RoutingAssumption DEF DetermineK, DefaultK
  <1>2. /\ s \in Seq(Operators) /\ Len(s) = Len(list)
        /\ OnceEach(s) /\ Range(s) = Range(list)
        /\ \A m, n \in DOMAIN s : m < n => Rank(s[m], r, way) >= Rank(s[n], r, way)
    BY SortedIs
  <1>3. Select(list, r, way) = chosen
    BY DEF Select
  <1>. HIDE DEF s, k
  <1>4. N \in Nat /\ DOMAIN s = 1 .. N
    BY <1>2
  <1>. HIDE DEF N
  <1>5. l \in Nat /\ l <= N
    BY <1>1, <1>4, LeastOfTwo
  <1>. HIDE DEF l
  <1>6. /\ chosen \in Seq(Operators) /\ Len(chosen) = l /\ DOMAIN chosen = 1 .. l
        /\ \A i \in 1 .. l : chosen[i] = s[i]
    BY <1>2, <1>4, <1>5 DEF N
  <1>. HIDE DEF chosen
  <1>7. OnceEach(chosen)
    <2>1. \A i \in 1 .. l : i \in 1 .. N
      BY <1>4, <1>5
    <2>. QED  BY <1>2, <1>4, <1>6, <2>1 DEF OnceEach
  <1>8. Cardinality(Range(chosen)) = l /\ Cardinality(Range(list)) = N
    <2>1. Cardinality(Range(chosen)) = Len(chosen)
      BY <1>6, <1>7, OnceEachCount
    <2>2. Cardinality(Range(s)) = Len(s)
      BY <1>2, OnceEachCount
    <2>. QED  BY <1>2, <1>6, <2>1, <2>2 DEF N
  <1>9. Range(chosen) \subseteq Range(list)
    <2>1. \A i \in 1 .. l : chosen[i] \in Range(s)
      BY <1>4, <1>5, <1>6 DEF Range
    <2>. QED  BY <1>2, <1>6, <2>1 DEF Range
  <1>10. ASSUME NEW o \in Range(chosen), NEW p \in Range(list) \ Range(chosen)
         PROVE  Rank(o, r, way) >= Rank(p, r, way)
    <2>1. PICK i \in 1 .. l : o = s[i]
      BY <1>6 DEF Range
    <2>2. PICK j \in 1 .. N : p = s[j]
      BY <1>2, <1>4 DEF Range
    <2>3. j \notin 1 .. l
      BY <1>6, <2>2 DEF Range
    <2>4. i \in DOMAIN s /\ j \in DOMAIN s /\ i < j
      BY <1>4, <1>5, <2>1, <2>2, <2>3
    <2>. QED  BY <1>2, <2>1, <2>2, <2>4
  <1>11. Best(Range(chosen), Range(list), k, r, way)
    BY <1>8, <1>9, <1>10 DEF Best, l
  <1>. QED  BY <1>3, <1>6, <1>8, <1>11 DEF k

LEMMA DecisionIs ==
    ASSUME RoutingInputs, NEW list \in SetToSeqs(Operators), NEW r \in Requests,
           NEW without \in SUBSET Operators, NEW way, WayOf(way)
    PROVE  LET d == Decision(list, r, without, way)
               rest == {o \in Operators \ without : IsEligible(o, r)}
           IN  /\ d.request = r /\ d.way = way /\ d.selected \in Seq(Operators)
               /\ Cardinality(Range(d.selected)) = Len(d.selected)
               /\ Best(Range(d.selected), rest, DetermineK(r), r, way)
  <1>. DEFINE d == Decision(list, r, without, way)
              rest == {o \in Operators \ without : IsEligible(o, r)}
              cs == Candidates(list, r, without)
  <1>1. list \in Seq(Operators) /\ OnceEach(list) /\ Range(list) = Operators
    BY RoutingAssumption, ListOfAll
  <1>2. cs = Retain(list, rest) /\ rest \subseteq Operators
    BY DEF Candidates
  <1>. HIDE DEF rest
  <1>3. cs \in Seq(Operators) /\ OnceEach(cs) /\ Range(cs) = rest
    <2>1. /\ Retain(list, rest) \in Seq(Operators) /\ OnceEach(Retain(list, rest))
          /\ Range(Retain(list, rest)) = Range(list) \cap rest
      BY <1>1, RetainIs
    <2>. QED  BY <1>1, <1>2, <2>1
  <1>. HIDE DEF cs
  <1>4. \A o \in Operators : Rank(o, r, way) \in Nat
    BY RanksAreNumbers
  <1>5. CASE cs = <<>>
    <2>1. d.request = r /\ d.way = way /\ d.selected = <<>>
      BY <1>5 DEF Decision, cs
    <2>2. Range(<<>>) = {} /\ rest = {} /\ Cardinality({}) = 0
      BY <1>3, <1>5, FS_EmptySet DEF Range
    <2>3. Least(DetermineK(r), 0) = 0
      BY RoutingAssumption DEF DetermineK, DefaultK, Least
    <2>4. Best(Range(d.selected), rest, DetermineK(r), r, way)
      BY <2>1, <2>2, <2>3 DEF Best
    <2>. HIDE DEF d
    <2>5. d.selected \in Seq(Operators) /\ Cardinality(Range(d.selected)) = Len(d.selected)
      <3>1. <<>> \in Seq(Operators) /\ Len(<<>>) = 0
        OBVIOUS
      <3>. QED  BY <2>1, <2>2, <3>1
    <2>. QED  BY <2>1, <2>4, <2>5 DEF d, rest
  <1>6. CASE cs # <<>>
    <2>1. d.request = r /\ d.way = way /\ d.selected = Select(cs, r, way)
      BY <1>6 DEF Decision, cs
    <2>2. /\ Select(cs, r, way) \in Seq(Operators)
          /\ Cardinality(Range(Select(cs, r, way))) = Len(Select(cs, r, way))
          /\ Best(Range(Select(cs, r, way)), Range(cs), DetermineK(r), r, way)
      BY <1>3, <1>4, SelectIs
    <2>. HIDE DEF d
    <2>. QED  BY <1>3, <2>1, <2>2 DEF d, rest
  <1>. QED  BY <1>5, <1>6

LEMMA RoutingStep ==
    RoutingTypeOK /\ [RoutingNext]_routing_vars =>
       /\ RoutingTypeOK'
       /\ decision' # decision =>
             LET r == decision'.request
                 rest == {o \in Operators \ excluded' : IsEligible(o, r)}
             IN  /\ Cardinality(Range(decision'.selected)) = Len(decision'.selected)
                 /\ Best(Range(decision'.selected), rest, DetermineK(r), r, decision'.way)
  <1>. SUFFICES ASSUME RoutingTypeOK, [RoutingNext]_routing_vars
                PROVE  /\ RoutingTypeOK'
                       /\ decision' # decision =>
                            LET r == decision'.request
                                rest == {o \in Operators \ excluded' : IsEligible(o, r)}
                            IN  /\ Cardinality(Range(decision'.selected)) = Len(decision'.selected)
                                /\ Best(Range(decision'.selected), rest, DetermineK(r), r,
                                        decision'.way)
    OBVIOUS
  <1>0. RoutingInputs
    BY DEF RoutingInputs, RoutingTypeOK
  <1>1. ASSUME NEW o \in Operators, NEW profile \in Profiles, Present(o, profile)
        PROVE  RoutingTypeOK' /\ decision' = decision
    BY <1>1 DEF Present, RoutingTypeOK
  <1>2. ASSUME NEW o \in Operators, NEW m \in Metrics, UpdateMetrics(o, m)
        PROVE  RoutingTypeOK' /\ decision' = decision
    BY <1>2 DEF UpdateMetrics, RoutingTypeOK
  <1>3. ASSUME NEW list \in SetToSeqs(Operators), NEW r \in Requests,
               NEW without \in SUBSET Operators, NEW way, WayOf(way),
               decision' = Decision(list, r, without, way), excluded' = without,
               UNCHANGED <<snapshot, metrics>>
        PROVE  /\ RoutingTypeOK' /\ decision'.request = r
               /\ Cardinality(Range(decision'.selected)) = Len(decision'.selected)
               /\ Best(Range(decision'.selected),
                       {o \in Operators \ excluded' : IsEligible(o, r)}, DetermineK(r), r,
                       decision'.way)
    <2>. DEFINE rest == {o \in Operators \ without : IsEligible(o, r)}
    <2>1. /\ decision'.request = r /\ decision'.way = way /\ decision'.selected \in Seq(Operators)
          /\ Cardinality(Range(decision'.selected)) = Len(decision'.selected)
          /\ Best(Range(decision'.selected), rest, DetermineK(r), r, way)
      <3>. DEFINE d == Decision(list, r, without, way)
      <3>1. /\ d.request = r /\ d.way = way /\ d.selected \in Seq(Operators)
            /\ Cardinality(Range(d.selected)) = Len(d.selected)
            /\ Best(Range(d.selected), rest, DetermineK(r), r, way)
        BY <1>0, <1>3, DecisionIs
      <3>2. decision' = d
        BY <1>3
      <3>. HIDE DEF d, rest
      <3>. QED  BY <3>1, <3>2
    <2>2. RoutingTypeOK'
      BY <1>3, <2>1 DEF RoutingTypeOK
    <2>. QED  BY <1>3, <2>1, <2>2
  <1>4. ASSUME NEW list \in SetToSeqs(Operators), NEW r \in Requests, Route(list, r)
        PROVE  /\ RoutingTypeOK' /\ decision'.request = r
               /\ Cardinality(Range(decision'.selected)) = Len(decision'.selected)
               /\ Best(Range(decision'.selected),
                       {o \in Operators \ excluded' : IsEligible(o, r)}, DetermineK(r), r,
                       decision'.way)
    <2>1. WayOf(Way(r, r.seed))
      BY DEF WayOf, Way, Seeded, Adaptive, RouteSeeds
    <2>2. /\ decision' = Decision(list, r, {}, Way(r, r.seed)) /\ excluded' = {}
          /\ UNCHANGED <<snapshot, metrics>>
      BY <1>4 DEF Route
    <2>. QED  BY <1>3, <2>1, <2>2
  <1>5. ASSUME NEW list \in SetToSeqs(Operators), NEW failed \in SUBSET Operators,
               FallbackRoute(list, failed)
        PROVE  /\ RoutingTypeOK' /\ decision'.request = decision.request
               /\ Cardinality(Range(decision'.selected)) = Len(decision'.selected)
               /\ Best(Range(decision'.selected),
                       {o \in Operators \ excluded' : IsEligible(o, decision.request)},
                       DetermineK(decision.request), decision.request, decision'.way)
    <2>. DEFINE r == decision.request
                without == excluded \cup failed
                n == Cardinality(without)
    <2>1. r \in Requests /\ without \in SUBSET Operators /\ without # {}
      BY <1>5 DEF FallbackRoute, RoutingTypeOK
    <2>2. n \in 1 .. Cardinality(Operators)
      <3>1. IsFiniteSet(without) /\ n <= Cardinality(Operators) /\ IsFiniteSet(Operators)
        BY <2>1, RoutingAssumption, FS_Subset
      <3>2. n \in Nat /\ Cardinality(Operators) \in Nat /\ n # 0
        BY <2>1, <3>1, FS_CardinalityType, FS_EmptySet
      <3>. QED  BY <3>1, <3>2
    <2>3. /\ decision' = Decision(list, r, without, Way(r, r.height * n)) /\ excluded' = without
          /\ UNCHANGED <<snapshot, metrics>>
      BY <1>5 DEF FallbackRoute
    <2>. HIDE DEF n, r, without
    <2>4. WayOf(Way(r, r.height * n))
      BY <2>1, <2>2 DEF WayOf, Way, Seeded, Adaptive, RouteSeeds
    <2>5. /\ RoutingTypeOK' /\ decision'.request = r
          /\ Cardinality(Range(decision'.selected)) = Len(decision'.selected)
          /\ Best(Range(decision'.selected),
                  {o \in Operators \ excluded' : IsEligible(o, r)}, DetermineK(r), r,
                  decision'.way)
      BY <1>3, <2>1, <2>3, <2>4
    <2>. QED  BY <2>5 DEF r
  <1>6. CASE UNCHANGED routing_vars
    BY <1>6 DEF routing_vars, RoutingTypeOK
  <1>. QED  BY <1>1, <1>2, <1>4, <1>5, <1>6 DEF RoutingNext

\* Whatever is presented, measured, routed and routed again, the router's fields
\* keep their types: a decision names a request it was given and operators.
THEOREM RoutingTypes == RoutingSpec => []RoutingTypeOK
  <1>1. RoutingInit => RoutingTypeOK
    BY DEF RoutingInit, RoutingTypeOK
  <1>. QED  BY <1>1, RoutingStep, PTL DEF RoutingSpec

\* Every decision of route and fallback_route names as many different operators
\* as the job asks for or as are left, only ones that can serve it and have not
\* failed it, and none that ranks below one it leaves out.
THEOREM DecisionsAreBest == RoutingSpec => BestOfTheRest
  <1>1. RoutingTypeOK /\ [RoutingNext]_routing_vars =>
          [decision' # decision =>
             LET r == decision'.request
                 chosen == ToSet(decision'.selected)
                 rest == {o \in Operators \ excluded' : IsEligible(o, r)}
             IN /\ chosen \subseteq rest
                /\ Cardinality(chosen) = Len(decision'.selected)
                /\ Cardinality(chosen) = Least(DetermineK(r), Cardinality(rest))
                /\ \A o \in chosen, p \in rest \ chosen :
                     Rank(o, r, decision'.way) >= Rank(p, r, decision'.way)]_routing_vars
    <2>1. ToSet(decision'.selected) = Range(decision'.selected)
      BY DEF ToSet, Range
    <2>. QED  BY <2>1, RoutingStep DEF Best
  <1>. QED  BY <1>1, RoutingTypes, PTL DEF RoutingSpec, BestOfTheRest
=============================================================================
