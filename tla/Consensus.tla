------------------------------ MODULE Consensus ------------------------------
(***************************************************************************)
(* One ConsensusEngine of crates/truth/src/consensus.rs.                   *)
(*                                                                         *)
(* The engine's fields live behind one tokio RwLock.  start_new_view,      *)
(* propose, commit and the two advance_* operations hold the write lock    *)
(* from their first to their last statement and are one action each.       *)
(* receive_prevote and receive_precommit take the lock three times: a read *)
(* lock to compare the vote's height, a second one to compare its round,   *)
(* and the write lock to record the vote.  Other operations may run        *)
(* between those three sections, so each handler is three actions and      *)
(* `handlers' holds the calls that are under way.                          *)
(*                                                                         *)
(* Votes come from the network: delayed, reordered, repeated or lost.  A   *)
(* signature is represented by the vote it was made on, a block by its     *)
(* hash, and a proposer by its index among the active validators.          *)
(***************************************************************************)
EXTENDS Integers, FiniteSets

CONSTANTS
    Voters,      \* validator ids whose votes reach the engine
    Active,      \* the validators with status Active, which set the threshold
    Faulty,      \* voters that may cast conflicting votes
    Blocks,      \* block hashes
    None,        \* Option::None, and the all-zero proposer id
    Handlers,    \* concurrent calls of receive_vote
    MaxHeight,   \* bound on height
    MaxRound,    \* bound on round
    MaxCalls     \* bound on the number of receive_vote calls

(***************************************************************************)
(* threshold: computed once, in ConsensusEngine::new, from the active      *)
(* validators.                                                             *)
(***************************************************************************)
Threshold == (Cardinality(Active) * 2) \div 3 + 1

VoteTypes == {"PreVote", "PreCommit"}
Phases    == {"Idle", "Propose", "PreVote", "PreCommit", "Finalized"}
Heights   == 0 .. MaxHeight
Rounds    == 0 .. MaxRound

Votes == [validator_id : Voters, height : Heights, round : Rounds,
          vote_type : VoteTypes, block_hash : Blocks]

Certificates == [block_hash : Blocks, height : Heights, round : Rounds,
                 vote_type : VoteTypes, signatures : SUBSET Votes]

\* A handler that has passed the height check, or both checks.
Calls == [vote : Votes, passed : {"height", "round"}]

ASSUME SetsAssumption ==
    /\ IsFiniteSet(Voters)
    /\ Active \subseteq Voters
    /\ Faulty \subseteq Voters

ASSUME BoundsAssumption ==
    /\ MaxHeight \in Nat
    /\ MaxRound \in Nat
    /\ MaxCalls \in Nat

ASSUME NoneAssumption ==
    /\ None \notin Blocks
    /\ None \notin Votes
    /\ None \notin Certificates
    /\ None \notin Calls
    /\ None \notin Nat

\* Two sets of Threshold voters share a voter that is not faulty.  With
\* Voters = Active it follows from 3 * |Faulty| < |Active|
\* (ByzantineBound in ConsensusProofs).
ASSUME QuorumAssumption ==
    2 * Threshold > Cardinality(Voters) + Cardinality(Faulty)

-----------------------------------------------------------------------------

VARIABLES
    height, round, state, proposer,
    locked_block, locked_qc, prevote_qc, precommit_qc,
    votes,       \* the last vote recorded for each validator, or None
    handlers,    \* the receive_vote calls under way
    calls,       \* number of receive_vote calls so far, for the bound
    cast,        \* history: every vote that was handed to the engine
    certs        \* history: every certificate a handler built and returned

view   == <<height, round, state, proposer>>
lock   == <<locked_block, locked_qc>>
qcs    == <<prevote_qc, precommit_qc>>
vars   == <<height, round, state, proposer, locked_block, locked_qc,
            prevote_qc, precommit_qc, votes, handlers, calls, cast, certs>>

NoVotes == [v \in Voters |-> None]

\* get_proposer: round robin over the active validators.
GetProposer(h, r) ==
    IF Active = {} THEN None ELSE (h + r) % Cardinality(Active)

Init ==
    /\ height = 0
    /\ round = 0
    /\ state = "Idle"
    /\ proposer = None
    /\ locked_block = None
    /\ locked_qc = None
    /\ prevote_qc = None
    /\ precommit_qc = None
    /\ votes = NoVotes
    /\ handlers = [t \in Handlers |-> None]
    /\ calls = 0
    /\ cast = {}
    /\ certs = {}

-----------------------------------------------------------------------------
(* Views *)

\* start_new_view: jumps to any height and round; locks and certificates stay.
StartNewView(h, r) ==
    /\ height' = h
    /\ round' = r
    /\ state' = "Propose"
    /\ votes' = NoVotes
    /\ proposer' = GetProposer(h, r)
    /\ UNCHANGED <<lock, qcs, handlers, calls, cast, certs>>

\* propose: a justifying certificate, when given, replaces the lock.
Propose(qc) ==
    /\ state = "Propose"
    /\ proposer' = GetProposer(height, round)
    /\ IF qc = None
         THEN UNCHANGED lock
         ELSE locked_block' = qc.block_hash /\ locked_qc' = qc
    /\ state' = "PreVote"
    /\ UNCHANGED <<height, round, qcs, votes, handlers, calls, cast, certs>>

\* commit: the caller's certificate is stored as it is.
Commit(qc) ==
    /\ state = "Finalized"
    /\ precommit_qc' = qc
    /\ state' = "Idle"
    /\ UNCHANGED <<height, round, proposer, lock, prevote_qc, votes, handlers,
                   calls, cast, certs>>

\* advance_to_next_view: the view timed out.
AdvanceToNextView ==
    /\ round < MaxRound
    /\ round' = round + 1
    /\ state' = "Propose"
    /\ votes' = NoVotes
    /\ proposer' = GetProposer(height, round + 1)
    /\ UNCHANGED <<height, lock, qcs, handlers, calls, cast, certs>>

\* advance_to_next_height: the only operation that forgets locks and
\* certificates; the proposer is left as it was.
AdvanceToNextHeight ==
    /\ height < MaxHeight
    /\ height' = height + 1
    /\ round' = 0
    /\ state' = "Idle"
    /\ votes' = NoVotes
    /\ locked_block' = None
    /\ locked_qc' = None
    /\ prevote_qc' = None
    /\ precommit_qc' = None
    /\ UNCHANGED <<proposer, handlers, calls, cast, certs>>

-----------------------------------------------------------------------------
(* Votes *)

\* A voter outside Faulty casts one vote of each type per view.
MayCast(v) ==
    \/ v \in cast
    \/ v.validator_id \in Faulty
    \/ \A u \in cast : \/ u.validator_id # v.validator_id
                       \/ u.vote_type # v.vote_type
                       \/ u.height # v.height
                       \/ u.round # v.round

\* receive_vote, receive_prevote and receive_precommit up to the first check.
\* A vote for another height is answered with an error and changes nothing.
ReceiveVote(t, v) ==
    /\ calls < MaxCalls
    /\ handlers[t] = None
    /\ MayCast(v)
    /\ v.height = height
    /\ handlers' = [handlers EXCEPT ![t] = [vote |-> v, passed |-> "height"]]
    /\ calls' = calls + 1
    /\ cast' = cast \cup {v}
    /\ UNCHANGED <<view, lock, qcs, votes, certs>>

\* The second check, under a second read lock.
CheckRound(t) ==
    /\ handlers[t] # None
    /\ handlers[t].passed = "height"
    /\ handlers' =
         [handlers EXCEPT ![t] = IF handlers[t].vote.round = round
                                   THEN [vote |-> handlers[t].vote,
                                         passed |-> "round"]
                                   ELSE None]
    /\ UNCHANGED <<view, lock, qcs, votes, calls, cast, certs>>

VotersOfAnyType(vs, type) == {u \in Voters : vs[u] # None}

\* The voters whose recorded vote is of the given type, whatever its block.
VotersOf(vs, type) == {u \in Voters : vs[u] # None /\ vs[u].vote_type = type}

\* QuorumCertificate::new and the add_signature loop: the signatures on votes
\* of that type for that block, under the engine's current view.
Certificate(vs, block, type) ==
    [block_hash |-> block, height |-> height, round |-> round,
     vote_type |-> type,
     signatures |-> {vs[u] : u \in {x \in VotersOf(vs, type) :
                                        vs[x].block_hash = block}}]

IsQuorumOffByOne(qc) == Cardinality(qc.signatures) >= Threshold - 1

\* QuorumCertificate::is_quorum.
IsQuorum(qc) == Cardinality(qc.signatures) >= Threshold

\* A handler that passed both checks and now holds the write lock.
Recording(t, type) ==
    /\ handlers[t] # None
    /\ handlers[t].passed = "round"
    /\ handlers[t].vote.vote_type = type

RecordPrevoteLockHashOnly(t) ==
    LET v  == handlers[t].vote
        vs == [votes EXCEPT ![v.validator_id] = v]
        qc == Certificate(vs, v.block_hash, "PreVote")
    IN  /\ Recording(t, "PreVote")
        /\ votes' = vs
        /\ handlers' = [handlers EXCEPT ![t] = None]
        /\ IF Cardinality(VotersOf(vs, "PreVote")) >= Threshold
             THEN /\ state' = "PreCommit"
                  /\ prevote_qc' = qc
                  /\ certs' = certs \cup {qc}
                  /\ locked_block' = v.block_hash
                  /\ locked_qc' = IF locked_qc = None THEN qc ELSE locked_qc
             ELSE UNCHANGED <<state, prevote_qc, certs, lock>>
        /\ UNCHANGED <<height, round, proposer, precommit_qc, calls, cast>>

\* receive_prevote under the write lock.
RecordPrevote(t) ==
    LET v  == handlers[t].vote
        vs == [votes EXCEPT ![v.validator_id] = v]
        qc == Certificate(vs, v.block_hash, "PreVote")
    IN  /\ Recording(t, "PreVote")
        /\ votes' = vs
        /\ handlers' = [handlers EXCEPT ![t] = None]
        /\ IF Cardinality(VotersOf(vs, "PreVote")) >= Threshold
             THEN /\ state' = "PreCommit"
                  /\ prevote_qc' = qc
                  /\ certs' = certs \cup {qc}
                  /\ IF locked_block # v.block_hash
                       THEN locked_block' = v.block_hash /\ locked_qc' = qc
                       ELSE UNCHANGED lock
             ELSE UNCHANGED <<state, prevote_qc, certs, lock>>
        /\ UNCHANGED <<height, round, proposer, precommit_qc, calls, cast>>

\* receive_precommit under the write lock.
RecordPrecommit(t) ==
    LET v  == handlers[t].vote
        vs == [votes EXCEPT ![v.validator_id] = v]
        qc == Certificate(vs, v.block_hash, "PreCommit")
    IN  /\ Recording(t, "PreCommit")
        /\ votes' = vs
        /\ handlers' = [handlers EXCEPT ![t] = None]
        /\ IF Cardinality(VotersOf(vs, "PreCommit")) >= Threshold
             THEN /\ state' = "Finalized"
                  /\ precommit_qc' = qc
                  /\ certs' = certs \cup {qc}
             ELSE UNCHANGED <<state, precommit_qc, certs>>
        /\ UNCHANGED <<height, round, proposer, lock, prevote_qc, calls, cast>>

Next ==
    \/ \E h \in Heights, r \in Rounds : StartNewView(h, r)
    \/ \E qc \in certs \cup {None} : Propose(qc)
    \/ \E qc \in certs : Commit(qc)
    \/ AdvanceToNextView
    \/ AdvanceToNextHeight
    \/ \E t \in Handlers :
          \/ \E v \in Votes : ReceiveVote(t, v)
          \/ CheckRound(t)
          \/ RecordPrevote(t)
          \/ RecordPrecommit(t)

Spec == Init /\ [][Next]_vars

-----------------------------------------------------------------------------
(* Properties *)

\* Every field holds a value of its Rust type, and the proposer is an index
\* into the active validators (get_proposer never indexes out of range).
TypeOK ==
    /\ height \in Heights
    /\ round \in Rounds
    /\ state \in Phases
    /\ proposer \in (0 .. Cardinality(Active) - 1) \cup {None}
    /\ locked_block \in Blocks \cup {None}
    /\ locked_qc \in Certificates \cup {None}
    /\ prevote_qc \in Certificates \cup {None}
    /\ precommit_qc \in Certificates \cup {None}
    /\ votes \in [Voters -> Votes \cup {None}]
    /\ handlers \in [Handlers -> Calls \cup {None}]
    /\ calls \in 0 .. MaxCalls
    /\ cast \subseteq Votes
    /\ certs \subseteq Certificates

\* The lock and its justification never come apart: locked_block is set
\* exactly when locked_qc is, and the certificate is for the locked block,
\* whichever of propose, receive_prevote and advance_to_next_height wrote them.
LockJustified ==
    /\ locked_block = None <=> locked_qc = None
    /\ locked_qc # None => locked_qc.block_hash = locked_block

\* A phase that rests on a certificate holds that certificate for its own
\* view: in PreCommit prevote_qc, in Finalized precommit_qc, of this height and
\* this round, whatever views the engine went through before.
PhaseCertified ==
    /\ state = "PreCommit" =>
          /\ prevote_qc # None
          /\ prevote_qc.height = height
          /\ prevote_qc.round = round
          /\ prevote_qc.vote_type = "PreVote"
    /\ state = "Finalized" =>
          /\ precommit_qc # None
          /\ precommit_qc.height = height
          /\ precommit_qc.round = round
          /\ precommit_qc.vote_type = "PreCommit"

\* A certificate carries signatures of its own vote type and block only, at
\* most one per validator, each on a vote that was really cast.
CertificateSupported ==
    \A qc \in certs :
        /\ qc.signatures \subseteq cast
        /\ \A s \in qc.signatures : /\ s.vote_type = qc.vote_type
                                    /\ s.block_hash = qc.block_hash
        /\ \A s1, s2 \in qc.signatures :
              s1.validator_id = s2.validator_id => s1 = s2

\* The handlers count votes without looking at the block.  A certificate below
\* the quorum is therefore possible, but only when validators split: the voters
\* that cast a vote of that type for another block make up for the missing
\* signatures.
SubQuorumOnlyOnSplit ==
    \A qc \in certs :
        Cardinality(qc.signatures)
          + Cardinality({u \in Voters : \E c \in cast :
                            /\ c.validator_id = u
                            /\ c.vote_type = qc.vote_type
                            /\ c.block_hash # qc.block_hash}) >= Threshold

\* All signatures of the certificate were made in the certificate's own view.
OfItsView(qc) ==
    \A s \in qc.signatures : s.height = qc.height /\ s.round = qc.round

\* Two certificates of one view and one type that reach the quorum and whose
\* signatures were made in that view are for the same block, as long as the
\* faulty voters stay under the quorum intersection.
Agreement ==
    \A p, q \in certs :
        (/\ IsQuorum(p) /\ OfItsView(p)
         /\ IsQuorum(q) /\ OfItsView(q)
         /\ p.height = q.height /\ p.round = q.round
         /\ p.vote_type = q.vote_type)
        => p.block_hash = q.block_hash

\* A prevote that arrives after the quorum of precommits can take a finalized
\* view back to PreCommit.  The faulty voters alone cannot do it: some voter
\* that is not faulty must have its prevote recorded after its precommit.
FinalizedRobust ==
    [][state = "Finalized" /\ state' = "PreCommit" =>
         \E u \in Voters \ Faulty :
            /\ votes'[u] # None /\ votes'[u].vote_type = "PreVote"
            /\ \E c \in cast : /\ c.validator_id = u
                               /\ c.vote_type = "PreCommit"]_vars

\* The votes the engine counts are votes for the view it is in: the tests
\* test_vote_rejection_wrong_height and test_vote_rejection_wrong_round assert
\* that a vote for another height or round is refused.
VotesOfThisView ==
    \A u \in Voters : votes[u] # None =>
        votes[u].height = height /\ votes[u].round = round

\* A finalized view holds a quorum of precommits for the finalized block.
FinalizedByQuorum ==
    state = "Finalized" => IsQuorum(precommit_qc)
=============================================================================
