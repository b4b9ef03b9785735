--------------------------- MODULE ConsensusProofs ---------------------------
(***************************************************************************)
(* Theorems about Consensus, for every set of voters, every number of      *)
(* concurrent handlers and every bound.                                    *)
(***************************************************************************)
EXTENDS Consensus, FiniteSetTheorems, TLAPS

(***************************************************************************)
(* Facts about the constants.                                              *)
(***************************************************************************)

\* The number of active validators is a natural number, so the threshold
\* ConsensusEngine::new computes is a positive one.
LEMMA ThresholdType ==
    /\ Cardinality(Active) \in Nat
    /\ Threshold \in Nat \ {0}
<1>1. IsFiniteSet(Active)
  BY SetsAssumption, FS_Subset
<1>2. Cardinality(Active) \in Nat
  BY <1>1, FS_CardinalityType
<1>3. QED
  BY <1>2 DEF Threshold

\* get_proposer returns an index into the active validators, or the zero id
\* when there are none.
LEMMA ProposerType ==
    ASSUME NEW h \in Nat, NEW r \in Nat
    PROVE  GetProposer(h, r) \in (0 .. Cardinality(Active) - 1) \cup {None}
<1>1. CASE Active = {}
  BY <1>1 DEF GetProposer
<1>2. CASE Active # {}
  <2>1. IsFiniteSet(Active)
    BY SetsAssumption, FS_Subset
  <2>2. Cardinality(Active) \in Nat /\ Cardinality(Active) # 0
    BY <1>2, <2>1, FS_CardinalityType, FS_EmptySet
  <2>3. (h + r) % Cardinality(Active) \in 0 .. Cardinality(Active) - 1
    BY <2>2
  <2>4. QED
    BY <1>2, <2>3 DEF GetProposer
<1>3. QED
  BY <1>1, <1>2

\* A certificate built from well-typed votes is well typed.
LEMMA CertificateType ==
    ASSUME TypeOK, NEW vs \in [Voters -> Votes \cup {None}],
           NEW b \in Blocks, NEW type \in VoteTypes
    PROVE  Certificate(vs, b, type) \in Certificates
<1>1. \A u \in VotersOf(vs, type) : vs[u] \in Votes
  BY DEF VotersOf
<1>2. {vs[u] : u \in {x \in VotersOf(vs, type) : vs[x].block_hash = b}}
        \in SUBSET Votes
  BY <1>1
<1>3. QED
  BY <1>2 DEF Certificate, Certificates, TypeOK

-----------------------------------------------------------------------------
(***************************************************************************)
(* Type correctness.                                                       *)
(***************************************************************************)

\* A new engine is well typed.
LEMMA InitType == Init => TypeOK
  BY BoundsAssumption DEF Init, TypeOK, NoVotes, Heights, Rounds, Phases

\* Every operation keeps the types.
LEMMA NextType == TypeOK /\ [Next]_vars => TypeOK'
<1> SUFFICES ASSUME TypeOK, [Next]_vars
             PROVE  TypeOK'
  OBVIOUS
<1> USE BoundsAssumption
<1>0. \A h \in Heights, r \in Rounds :
         GetProposer(h, r) \in (0 .. Cardinality(Active) - 1) \cup {None}
  BY ProposerType DEF Heights, Rounds
<1>1. ASSUME NEW h \in Heights, NEW r \in Rounds, StartNewView(h, r)
      PROVE  TypeOK'
  BY <1>0, <1>1 DEF StartNewView, TypeOK, NoVotes, Phases, lock, qcs
<1>2. ASSUME NEW qc \in certs \cup {None}, Propose(qc)
      PROVE  TypeOK'
  <2>1. qc \in Certificates \cup {None}
    BY DEF TypeOK
  <2>2. locked_block' \in Blocks \cup {None} /\ locked_qc' \in Certificates \cup {None}
    BY <1>2, <2>1 DEF Propose, TypeOK, Certificates, lock
  <2>3. QED
    BY <1>0, <1>2, <2>2 DEF Propose, TypeOK, Phases, qcs
<1>3. ASSUME NEW qc \in certs, Commit(qc)
      PROVE  TypeOK'
  BY <1>3 DEF Commit, TypeOK, Phases, lock
<1>4. ASSUME AdvanceToNextView
      PROVE  TypeOK'
  <2>1. round + 1 \in Rounds
    BY <1>4 DEF AdvanceToNextView, TypeOK, Rounds
  <2>2. QED
    BY <1>0, <1>4, <2>1 DEF AdvanceToNextView, TypeOK, NoVotes, Phases, lock, qcs
<1>5. ASSUME AdvanceToNextHeight
      PROVE  TypeOK'
  <2>1. height + 1 \in Heights /\ 0 \in Rounds
    BY <1>5 DEF AdvanceToNextHeight, TypeOK, Heights, Rounds
  <2>2. QED
    BY <1>5, <2>1 DEF AdvanceToNextHeight, TypeOK, NoVotes, Phases
<1>6. ASSUME NEW t \in Handlers, NEW v \in Votes, ReceiveVote(t, v)
      PROVE  TypeOK'
  <2>1. [vote |-> v, passed |-> "height"] \in Calls
    BY DEF Calls
  <2>2. handlers' \in [Handlers -> Calls \cup {None}]
    BY <1>6, <2>1 DEF ReceiveVote, TypeOK
  <2>3. calls' \in 0 .. MaxCalls
    BY <1>6 DEF ReceiveVote, TypeOK
  <2>4. QED
    BY <1>6, <2>2, <2>3 DEF ReceiveVote, TypeOK, view, lock, qcs
<1>7. ASSUME NEW t \in Handlers, CheckRound(t)
      PROVE  TypeOK'
  <2>1. handlers[t] \in Calls
    BY <1>7 DEF CheckRound, TypeOK
  <2>2. [vote |-> handlers[t].vote, passed |-> "round"] \in Calls
    BY <2>1 DEF Calls
  <2>3. handlers' \in [Handlers -> Calls \cup {None}]
    BY <1>7, <2>2 DEF CheckRound, TypeOK
  <2>4. QED
    BY <1>7, <2>3 DEF CheckRound, TypeOK, view, lock, qcs
<1>8. ASSUME NEW t \in Handlers, NEW type \in VoteTypes, Recording(t, type)
      PROVE  /\ handlers[t].vote \in Votes
             /\ handlers[t].vote.block_hash \in Blocks
             /\ [votes EXCEPT ![handlers[t].vote.validator_id] = handlers[t].vote]
                   \in [Voters -> Votes \cup {None}]
             /\ [handlers EXCEPT ![t] = None] \in [Handlers -> Calls \cup {None}]
  BY <1>8 DEF Recording, TypeOK, Calls, Votes
<1>9. ASSUME NEW t \in Handlers, RecordPrevote(t)
      PROVE  TypeOK'
  <2> DEFINE v  == handlers[t].vote
             vs == [votes EXCEPT ![v.validator_id] = v]
             qc == Certificate(vs, v.block_hash, "PreVote")
  <2>1. v.block_hash \in Blocks /\ vs \in [Voters -> Votes \cup {None}]
    BY <1>8, <1>9 DEF RecordPrevote, VoteTypes
  <2>2. qc \in Certificates
    BY <2>1, CertificateType DEF VoteTypes
  <2>3. votes' = vs /\ handlers' = [handlers EXCEPT ![t] = None]
    BY <1>9 DEF RecordPrevote
  <2>4. /\ state' \in {state, "PreCommit"}
        /\ prevote_qc' \in {prevote_qc, qc}
        /\ certs' \in {certs, certs \cup {qc}}
        /\ locked_block' \in {locked_block, v.block_hash}
        /\ locked_qc' \in {locked_qc, qc}
        /\ UNCHANGED <<height, round, proposer, precommit_qc, calls, cast>>
    BY <1>9 DEF RecordPrevote, lock
  <2> HIDE DEF qc, vs, v
  <2>5. handlers' \in [Handlers -> Calls \cup {None}]
    BY <2>3 DEF TypeOK
  <2>6. QED
    BY <2>1, <2>2, <2>3, <2>4, <2>5 DEF TypeOK, Phases
<1>10. ASSUME NEW t \in Handlers, RecordPrecommit(t)
       PROVE  TypeOK'
  <2> DEFINE v  == handlers[t].vote
             vs == [votes EXCEPT ![v.validator_id] = v]
             qc == Certificate(vs, v.block_hash, "PreCommit")
  <2>1. v.block_hash \in Blocks /\ vs \in [Voters -> Votes \cup {None}]
    BY <1>8, <1>10 DEF RecordPrecommit, VoteTypes
  <2>2. qc \in Certificates
    BY <2>1, CertificateType DEF VoteTypes
  <2>3. votes' = vs /\ handlers' = [handlers EXCEPT ![t] = None]
    BY <1>10 DEF RecordPrecommit
  <2>4. /\ state' \in {state, "Finalized"}
        /\ precommit_qc' \in {precommit_qc, qc}
        /\ certs' \in {certs, certs \cup {qc}}
        /\ UNCHANGED <<height, round, proposer, lock, prevote_qc, calls, cast>>
    BY <1>10 DEF RecordPrecommit
  <2> HIDE DEF qc, vs, v
  <2>5. handlers' \in [Handlers -> Calls \cup {None}]
    BY <2>3 DEF TypeOK
  <2>6. QED
    BY <2>1, <2>2, <2>3, <2>4, <2>5 DEF TypeOK, Phases, lock
<1>11. CASE UNCHANGED vars
  BY <1>11 DEF vars, TypeOK
<1>12. QED
  BY <1>1, <1>2, <1>3, <1>4, <1>5, <1>6, <1>7, <1>9, <1>10, <1>11 DEF Next

\* Every reachable state is well typed: in particular the proposer is always an
\* index into the active validators.
THEOREM TypeCorrect == Spec => []TypeOK
  BY InitType, NextType, PTL DEF Spec

-----------------------------------------------------------------------------
(***************************************************************************)
(* Locks and phases.                                                       *)
(***************************************************************************)

\* A new engine holds no lock and no certificate.
LEMMA InitLockPhase == Init => LockJustified /\ PhaseCertified
  BY DEF Init, LockJustified, PhaseCertified

\* What recording a vote does to the fields a lock or a phase depends on.
LEMMA NextLockPhase ==
    TypeOK /\ LockJustified /\ PhaseCertified /\ [Next]_vars
       => LockJustified' /\ PhaseCertified'
<1> SUFFICES ASSUME TypeOK, LockJustified, PhaseCertified, [Next]_vars
             PROVE  LockJustified' /\ PhaseCertified'
  OBVIOUS
<1> USE NoneAssumption
<1>1. ASSUME NEW h \in Heights, NEW r \in Rounds, StartNewView(h, r)
      PROVE  LockJustified' /\ PhaseCertified'
  BY <1>1 DEF StartNewView, LockJustified, PhaseCertified, lock, qcs
<1>2. ASSUME NEW qc \in certs \cup {None}, Propose(qc)
      PROVE  LockJustified' /\ PhaseCertified'
  <2>1. qc # None => qc \in Certificates /\ qc.block_hash \in Blocks
    BY DEF TypeOK, Certificates
  <2>2. LockJustified'
    BY <1>2, <2>1 DEF Propose, LockJustified, lock
  <2>3. PhaseCertified'
    BY <1>2 DEF Propose, PhaseCertified
  <2>4. QED
    BY <2>2, <2>3
<1>3. ASSUME NEW qc \in certs, Commit(qc)
      PROVE  LockJustified' /\ PhaseCertified'
  BY <1>3 DEF Commit, LockJustified, PhaseCertified, lock
<1>4. ASSUME AdvanceToNextView
      PROVE  LockJustified' /\ PhaseCertified'
  BY <1>4 DEF AdvanceToNextView, LockJustified, PhaseCertified, lock
<1>5. ASSUME AdvanceToNextHeight
      PROVE  LockJustified' /\ PhaseCertified'
  BY <1>5 DEF AdvanceToNextHeight, LockJustified, PhaseCertified
<1>6. ASSUME NEW t \in Handlers, NEW v \in Votes, ReceiveVote(t, v)
      PROVE  LockJustified' /\ PhaseCertified'
  BY <1>6 DEF ReceiveVote, LockJustified, PhaseCertified, view, lock, qcs
<1>7. ASSUME NEW t \in Handlers, CheckRound(t)
      PROVE  LockJustified' /\ PhaseCertified'
  BY <1>7 DEF CheckRound, LockJustified, PhaseCertified, view, lock, qcs
<1>8. ASSUME NEW t \in Handlers, RecordPrevote(t)
      PROVE  LockJustified' /\ PhaseCertified'
  <2> DEFINE v  == handlers[t].vote
             vs == [votes EXCEPT ![v.validator_id] = v]
             qc == Certificate(vs, v.block_hash, "PreVote")
  <2>1. /\ qc.block_hash = v.block_hash
        /\ qc.height = height
        /\ qc.round = round
        /\ qc.vote_type = "PreVote"
    BY DEF Certificate
  <2>2. v \in Votes /\ v.block_hash \in Blocks
    BY <1>8 DEF RecordPrevote, Recording, TypeOK, Calls, Votes
  <2>3. vs \in [Voters -> Votes \cup {None}]
    BY <2>2 DEF TypeOK, Votes
  <2>4. qc \in Certificates
    BY <2>2, <2>3, CertificateType DEF VoteTypes
  <2>5. \/ UNCHANGED <<state, prevote_qc, locked_block, locked_qc>>
        \/ /\ state' = "PreCommit" /\ prevote_qc' = qc
           /\ \/ UNCHANGED <<locked_block, locked_qc>>
              \/ locked_block' = v.block_hash /\ locked_qc' = qc
    BY <1>8 DEF RecordPrevote, lock
  <2>6. UNCHANGED <<height, round, precommit_qc>>
    BY <1>8 DEF RecordPrevote
  <2> HIDE DEF qc, vs, v
  <2>7. LockJustified'
    BY <2>1, <2>2, <2>4, <2>5 DEF LockJustified
  <2>8. PhaseCertified'
    BY <2>1, <2>4, <2>5, <2>6 DEF PhaseCertified
  <2>9. QED
    BY <2>7, <2>8
<1>9. ASSUME NEW t \in Handlers, RecordPrecommit(t)
      PROVE  LockJustified' /\ PhaseCertified'
  <2> DEFINE v  == handlers[t].vote
             vs == [votes EXCEPT ![v.validator_id] = v]
             qc == Certificate(vs, v.block_hash, "PreCommit")
  <2>1. /\ qc.height = height
        /\ qc.round = round
        /\ qc.vote_type = "PreCommit"
    BY DEF Certificate
  <2>2. v \in Votes /\ v.block_hash \in Blocks
    BY <1>9 DEF RecordPrecommit, Recording, TypeOK, Calls, Votes
  <2>3. vs \in [Voters -> Votes \cup {None}]
    BY <2>2 DEF TypeOK, Votes
  <2>4. qc \in Certificates
    BY <2>2, <2>3, CertificateType DEF VoteTypes
  <2>5. \/ UNCHANGED <<state, precommit_qc>>
        \/ state' = "Finalized" /\ precommit_qc' = qc
    BY <1>9 DEF RecordPrecommit
  <2>6. UNCHANGED <<height, round, prevote_qc, locked_block, locked_qc>>
    BY <1>9 DEF RecordPrecommit, lock
  <2> HIDE DEF qc, vs, v
  <2>7. LockJustified'
    BY <2>6 DEF LockJustified
  <2>8. PhaseCertified'
    BY <2>1, <2>4, <2>5, <2>6 DEF PhaseCertified
  <2>9. QED
    BY <2>7, <2>8
<1>10. CASE UNCHANGED vars
  BY <1>10 DEF vars, LockJustified, PhaseCertified
<1>11. QED
  BY <1>1, <1>2, <1>3, <1>4, <1>5, <1>6, <1>7, <1>8, <1>9, <1>10 DEF Next

\* locked_block and locked_qc are written together by every operation, in every
\* interleaving of handlers and view changes.
THEOREM LockIsJustified == Spec => []LockJustified
<1>1. Init => TypeOK /\ LockJustified /\ PhaseCertified
  BY InitType, InitLockPhase
<1>2. TypeOK /\ LockJustified /\ PhaseCertified /\ [Next]_vars
        => (TypeOK /\ LockJustified /\ PhaseCertified)'
  BY NextType, NextLockPhase
<1>3. QED
  BY <1>1, <1>2, PTL DEF Spec

\* PreCommit and Finalized always hold a certificate of the current view.
THEOREM PhaseIsCertified == Spec => []PhaseCertified
<1>1. Init => TypeOK /\ LockJustified /\ PhaseCertified
  BY InitType, InitLockPhase
<1>2. TypeOK /\ LockJustified /\ PhaseCertified /\ [Next]_vars
        => (TypeOK /\ LockJustified /\ PhaseCertified)'
  BY NextType, NextLockPhase
<1>3. QED
  BY <1>1, <1>2, PTL DEF Spec

-----------------------------------------------------------------------------
(***************************************************************************)
(* What the certificates of Consensus are worth: whose votes they carry,   *)
(* when they fall short of a quorum, and why two quorum certificates of    *)
(* one view agree.                                                         *)
(***************************************************************************)

\* Recorded votes, and votes in a handler, are votes that were cast; a vote is
\* filed under its own validator.
VotesWereCast ==
    /\ \A u \in Voters :
          votes[u] # None => votes[u] \in cast /\ votes[u].validator_id = u
    /\ \A t \in Handlers : handlers[t] # None => handlers[t].vote \in cast

\* A voter outside Faulty has cast at most one vote per view and type.
OneVotePerView ==
    \A c, d \in cast :
        (/\ c.validator_id \notin Faulty
         /\ c.validator_id = d.validator_id
         /\ c.vote_type = d.vote_type
         /\ c.height = d.height
         /\ c.round = d.round)
        => c = d

\* The voters that have cast a vote of the given type, in any view.
CastersOf(type) ==
    {u \in Voters : \E c \in cast : c.validator_id = u /\ c.vote_type = type}

\* A finalized view was finalized on precommits of Threshold voters.
FinalizedOnPrecommits ==
    state = "Finalized" => Cardinality(CastersOf("PreCommit")) >= Threshold

\* The inductive invariant.
CertInv ==
    /\ TypeOK
    /\ VotesWereCast
    /\ OneVotePerView
    /\ CertificateSupported
    /\ SubQuorumOnlyOnSplit
    /\ FinalizedOnPrecommits

-----------------------------------------------------------------------------
(***************************************************************************)
(* Counting.                                                               *)
(***************************************************************************)

\* With fewer than a third of the active validators faulty, and no votes from
\* outside, the threshold satisfies QuorumAssumption.
THEOREM ByzantineBound ==
    ASSUME Voters = Active, 3 * Cardinality(Faulty) < Cardinality(Active)
    PROVE  2 * Threshold > Cardinality(Voters) + Cardinality(Faulty)
<1>1. Cardinality(Active) \in Nat /\ Cardinality(Faulty) \in Nat
  BY SetsAssumption, FS_Subset, FS_CardinalityType
<1>2. QED
  BY <1>1 DEF Threshold

\* A subset has no more members than the finite set it is taken from.
LEMMA SubsetCount ==
    ASSUME NEW A \in SUBSET Voters, NEW B \in SUBSET A
    PROVE  /\ IsFiniteSet(A)
           /\ Cardinality(A) \in Nat
           /\ Cardinality(B) \in Nat
           /\ Cardinality(B) <= Cardinality(A)
<1>1. IsFiniteSet(A)
  BY SetsAssumption, FS_Subset
<1>2. IsFiniteSet(B) /\ Cardinality(B) <= Cardinality(A)
  BY <1>1, FS_Subset
<1>3. QED
  BY <1>1, <1>2, FS_CardinalityType

\* Two quorums share a voter that is not faulty.
LEMMA QuorumIntersection ==
    ASSUME NEW A \in SUBSET Voters, NEW B \in SUBSET Voters,
           Cardinality(A) >= Threshold, Cardinality(B) >= Threshold
    PROVE  \E u \in A \cap B : u \notin Faulty
<1>1. SUFFICES ASSUME A \cap B \subseteq Faulty PROVE FALSE
  OBVIOUS
<1>2. /\ IsFiniteSet(A) /\ IsFiniteSet(B)
      /\ Cardinality(A) \in Nat /\ Cardinality(B) \in Nat
  BY SubsetCount
<1>3. Cardinality(A \cup B) = Cardinality(A) + Cardinality(B) - Cardinality(A \cap B)
  BY <1>2, FS_Union
<1>4. Cardinality(A \cup B) <= Cardinality(Voters)
  BY SubsetCount
<1>5. Cardinality(A \cap B) <= Cardinality(Faulty)
  BY <1>1, SetsAssumption, SubsetCount
<1>6. /\ Cardinality(Voters) \in Nat /\ Cardinality(Faulty) \in Nat
      /\ Cardinality(A \cap B) \in Nat /\ Cardinality(A \cup B) \in Nat
  BY SetsAssumption, SubsetCount
<1>7. QED
  BY <1>2, <1>3, <1>4, <1>5, <1>6, ThresholdType, QuorumAssumption

\* One signature per validator: counting signatures is counting validators.
LEMMA SignerCount ==
    ASSUME NEW S \in SUBSET Votes,
           \A s1, s2 \in S : s1.validator_id = s2.validator_id => s1 = s2
    PROVE  /\ IsFiniteSet(S)
           /\ {s.validator_id : s \in S} \in SUBSET Voters
           /\ Cardinality(S) = Cardinality({s.validator_id : s \in S})
<1> DEFINE I == {s.validator_id : s \in S}
           f == [s \in S |-> s.validator_id]
<1>1. I \in SUBSET Voters
  BY DEF Votes
<1>2. IsFiniteSet(I)
  BY <1>1, SetsAssumption, FS_Subset
<1>3. f \in Injection(S, I)
  BY DEF Injection, IsInjective
<1>4. f \in Surjection(S, I)
  BY DEF Surjection
<1>5. QED
  BY <1>1, <1>2, <1>3, <1>4, FS_Injection

-----------------------------------------------------------------------------
(***************************************************************************)
(* What a certificate built by a handler carries.                          *)
(***************************************************************************)

\* A vote map all of whose votes were cast and are filed under their voter.
WellFiled(vs) ==
    /\ vs \in [Voters -> Votes \cup {None}]
    /\ \A u \in Voters : vs[u] # None => vs[u] \in cast /\ vs[u].validator_id = u

\* The voters that cast a vote of that type for another block.
Dissenters(qc) ==
    {u \in Voters : \E c \in cast : /\ c.validator_id = u
                                   /\ c.vote_type = qc.vote_type
                                   /\ c.block_hash # qc.block_hash}

\* What the signatures of a new certificate are: recorded votes of its type and
\* block, one per voter.
LEMMA CertificateSignatures ==
    ASSUME TypeOK, NEW vs, WellFiled(vs), NEW b \in Blocks, NEW type \in VoteTypes
    PROVE  LET qc == Certificate(vs, b, type)
           IN  /\ qc.signatures \subseteq cast
               /\ \A s \in qc.signatures : s.vote_type = type /\ s.block_hash = b
               /\ \A s1, s2 \in qc.signatures :
                     s1.validator_id = s2.validator_id => s1 = s2
               /\ {s.validator_id : s \in qc.signatures}
                     = {x \in VotersOf(vs, type) : vs[x].block_hash = b}
<1> DEFINE A == {x \in VotersOf(vs, type) : vs[x].block_hash = b}
           S == {vs[u] : u \in A}
<1>1. Certificate(vs, b, type).signatures = S
  BY DEF Certificate
<1>2. \A u \in A : /\ u \in Voters /\ vs[u] \in cast /\ vs[u].validator_id = u
                   /\ vs[u].vote_type = type /\ vs[u].block_hash = b
  BY DEF VotersOf, WellFiled
<1>3. S \subseteq cast
  BY <1>2
<1>4. \A s \in S : s.vote_type = type /\ s.block_hash = b
  BY <1>2
<1>5. \A s1, s2 \in S : s1.validator_id = s2.validator_id => s1 = s2
  BY <1>2
<1>6. {s.validator_id : s \in S} = A
  BY <1>2
<1>7. QED
  BY <1>1, <1>3, <1>4, <1>5, <1>6

\* What CertificateSupported says of one certificate.
SoundSignatures(qc) ==
    /\ qc.signatures \subseteq cast
    /\ \A s \in qc.signatures : /\ s.vote_type = qc.vote_type
                                /\ s.block_hash = qc.block_hash
    /\ \A s1, s2 \in qc.signatures :
          s1.validator_id = s2.validator_id => s1 = s2

\* A certificate a handler builds has the properties CertInv asks for.
LEMMA CertificateSound ==
    ASSUME TypeOK, NEW vs, WellFiled(vs), NEW b \in Blocks, NEW type \in VoteTypes
    PROVE  SoundSignatures(Certificate(vs, b, type))
<1> DEFINE qc == Certificate(vs, b, type)
<1>1. qc.vote_type = type /\ qc.block_hash = b
  BY DEF Certificate
<1>2. /\ qc.signatures \subseteq cast
      /\ \A s \in qc.signatures : s.vote_type = type /\ s.block_hash = b
      /\ \A s1, s2 \in qc.signatures : s1.validator_id = s2.validator_id => s1 = s2
  BY CertificateSignatures
<1>3. QED
  BY <1>1, <1>2 DEF SoundSignatures

\* A count of Threshold votes of one type yields a certificate whose signers and
\* dissenters together number Threshold.
LEMMA CertificateOrSplit ==
    ASSUME TypeOK, NEW vs, WellFiled(vs), NEW b \in Blocks, NEW type \in VoteTypes,
           Cardinality(VotersOf(vs, type)) >= Threshold
    PROVE  LET qc == Certificate(vs, b, type)
           IN  Cardinality(qc.signatures) + Cardinality(Dissenters(qc)) >= Threshold
<1> DEFINE qc == Certificate(vs, b, type)
           V == VotersOf(vs, type)
           A == {x \in V : vs[x].block_hash = b}
           D == {x \in V : vs[x].block_hash # b}
<1>1. qc.vote_type = type /\ qc.block_hash = b
  BY DEF Certificate
<1>2. qc.signatures \in SUBSET Votes
  BY CertificateSignatures DEF TypeOK
<1>3. Cardinality(qc.signatures) = Cardinality(A)
  <2>1. /\ \A s1, s2 \in qc.signatures : s1.validator_id = s2.validator_id => s1 = s2
        /\ {s.validator_id : s \in qc.signatures} = A
    BY CertificateSignatures
  <2> HIDE DEF qc, A
  <2>2. QED
    BY <1>2, <2>1, SignerCount
<1>4. D \subseteq Dissenters(qc)
  BY <1>1 DEF Dissenters, VotersOf, WellFiled
<1>5. V \in SUBSET Voters /\ V = A \cup D /\ A \cap D = {}
  BY DEF VotersOf
<1>6. IsFiniteSet(A) /\ IsFiniteSet(D) /\ Cardinality(A) \in Nat /\ Cardinality(D) \in Nat
  BY <1>5, SubsetCount
<1>7. Cardinality(V) = Cardinality(A) + Cardinality(D)
  <2>1. Cardinality(A \cup D) = Cardinality(A) + Cardinality(D) - Cardinality(A \cap D)
    BY <1>6, FS_Union
  <2> HIDE DEF A, D, V
  <2>2. Cardinality(V) = Cardinality(A \cup D)
    BY <1>5, Zenon
  <2>3. Cardinality(A \cap D) = 0
    BY <1>5, FS_EmptySet, Zenon
  <2>4. QED
    BY <1>6, <2>1, <2>2, <2>3
<1>8. Dissenters(qc) \in SUBSET Voters
  BY DEF Dissenters
<1>9. Cardinality(D) <= Cardinality(Dissenters(qc)) /\ Cardinality(Dissenters(qc)) \in Nat
  BY <1>4, <1>8, SubsetCount
<1> HIDE DEF A, D, V
<1>10. Cardinality(A) + Cardinality(Dissenters(qc)) >= Threshold
  <2>1. Cardinality(V) >= Threshold
    BY DEF V
  <2>2. QED
    BY <1>6, <1>7, <1>9, <2>1, ThresholdType
<1>11. QED
  BY <1>3, <1>10

\* The map a handler writes is well filed.
LEMMA RecordedWellFiled ==
    ASSUME TypeOK, VotesWereCast, NEW t \in Handlers, handlers[t] # None
    PROVE  /\ handlers[t].vote \in Votes
           /\ handlers[t].vote.block_hash \in Blocks
           /\ WellFiled([votes EXCEPT ![handlers[t].vote.validator_id]
                                         = handlers[t].vote])
<1> DEFINE v  == handlers[t].vote
           vs == [votes EXCEPT ![v.validator_id] = v]
<1>1. v \in Votes /\ v \in cast
  BY DEF TypeOK, Calls, VotesWereCast
<1>2. v.validator_id \in Voters /\ v.block_hash \in Blocks
  BY <1>1 DEF Votes
<1>3. vs \in [Voters -> Votes \cup {None}]
  BY <1>1, <1>2 DEF TypeOK
<1> HIDE DEF v
<1>4. \A u \in Voters : vs[u] # None => vs[u] \in cast /\ vs[u].validator_id = u
  BY <1>1, <1>2 DEF TypeOK, VotesWereCast
<1>5. QED
  BY <1>1, <1>2, <1>3, <1>4 DEF WellFiled, v

-----------------------------------------------------------------------------
(***************************************************************************)
(* The inductive invariant.                                                *)
(***************************************************************************)

\* No certificate has been built at the start.
LEMMA InitCert == Init => CertInv
<1> SUFFICES ASSUME Init PROVE CertInv
  OBVIOUS
<1>1. TypeOK
  BY InitType
<1>2. VotesWereCast /\ OneVotePerView /\ CertificateSupported
        /\ SubQuorumOnlyOnSplit /\ FinalizedOnPrecommits
  BY DEF Init, NoVotes, VotesWereCast, OneVotePerView, CertificateSupported,
         SubQuorumOnlyOnSplit, FinalizedOnPrecommits
<1>3. QED
  BY <1>1, <1>2 DEF CertInv

\* More votes cast: dissent and support only grow.
LEMMA CastGrows ==
    ASSUME TypeOK, TypeOK', cast \subseteq cast'
    PROVE  /\ \A qc \in Certificates :
                 /\ Cardinality(Dissenters(qc)) \in Nat
                 /\ Cardinality(Dissenters(qc)') \in Nat
                 /\ Cardinality(Dissenters(qc)) <= Cardinality(Dissenters(qc)')
           /\ \A type \in VoteTypes :
                 /\ Cardinality(CastersOf(type)) \in Nat
                 /\ Cardinality(CastersOf(type)') \in Nat
                 /\ Cardinality(CastersOf(type)) <= Cardinality(CastersOf(type)')
<1>1. ASSUME NEW qc \in Certificates
      PROVE  Dissenters(qc)' \in SUBSET Voters /\ Dissenters(qc) \in SUBSET (Dissenters(qc)')
  BY DEF Dissenters
<1>2. ASSUME NEW type \in VoteTypes
      PROVE  CastersOf(type)' \in SUBSET Voters /\ CastersOf(type) \in SUBSET (CastersOf(type)')
  BY DEF CastersOf
<1>3. QED
  BY <1>1, <1>2, SubsetCount

\* A step that leaves the recorded votes alone or clears them, builds no
\* certificate and does not finalize keeps the invariant, as long as what it
\* adds to cast and handlers does.
LEMMA QuietStep ==
    ASSUME CertInv, TypeOK', cast \subseteq cast', UNCHANGED certs,
           VotesWereCast', OneVotePerView',
           state' = "Finalized" => state = "Finalized"
    PROVE  CertInv'
<1>1. \A qc \in certs : qc \in Certificates /\ qc.signatures \in SUBSET Votes
  BY DEF CertInv, TypeOK, Certificates
<1>2. CertificateSupported'
  BY DEF CertInv, CertificateSupported
<1>3. SubQuorumOnlyOnSplit'
  <2> SUFFICES ASSUME NEW qc \in certs
               PROVE  Cardinality(qc.signatures) + Cardinality(Dissenters(qc)') >= Threshold
    BY DEF SubQuorumOnlyOnSplit, Dissenters
  <2>1. Cardinality(qc.signatures) + Cardinality(Dissenters(qc)) >= Threshold
    BY DEF CertInv, SubQuorumOnlyOnSplit, Dissenters
  <2>2. Cardinality(qc.signatures) \in Nat
    <3>1. IsFiniteSet(qc.signatures)
      BY <1>1, SignerCount DEF CertInv, CertificateSupported
    <3>2. QED
      BY <3>1, FS_CardinalityType
  <2>3. /\ Cardinality(Dissenters(qc)) \in Nat
        /\ Cardinality(Dissenters(qc)') \in Nat
        /\ Cardinality(Dissenters(qc)) <= Cardinality(Dissenters(qc)')
    BY <1>1, CastGrows DEF CertInv
  <2>4. QED
    BY <2>1, <2>2, <2>3, ThresholdType
<1>4. FinalizedOnPrecommits'
  <2>1. /\ Cardinality(CastersOf("PreCommit")) \in Nat
        /\ Cardinality(CastersOf("PreCommit")') \in Nat
        /\ Cardinality(CastersOf("PreCommit")) <= Cardinality(CastersOf("PreCommit")')
    BY CastGrows DEF CertInv, VoteTypes
  <2>2. QED
    BY <2>1, ThresholdType DEF CertInv, FinalizedOnPrecommits
<1>5. QED
  BY <1>2, <1>3, <1>4 DEF CertInv

\* A handler that records its vote: the map it writes is well filed, and the
\* certificate, if it builds one, is supported.
LEMMA RecordStep ==
    ASSUME CertInv, TypeOK', NEW t \in Handlers, NEW type \in VoteTypes,
           handlers[t] # None,
           NEW vs, vs = [votes EXCEPT ![handlers[t].vote.validator_id] = handlers[t].vote],
           NEW qc, qc = Certificate(vs, handlers[t].vote.block_hash, type),
           votes' = vs, handlers' = [handlers EXCEPT ![t] = None], UNCHANGED cast,
           \/ UNCHANGED certs
           \/ certs' = certs \cup {qc} /\ Cardinality(VotersOf(vs, type)) >= Threshold,
           \/ state' = "Finalized" => state = "Finalized"
           \/ type = "PreCommit" /\ Cardinality(VotersOf(vs, type)) >= Threshold
    PROVE  CertInv'
<1>1. TypeOK /\ VotesWereCast
  BY DEF CertInv
<1>2. handlers[t].vote \in Votes /\ handlers[t].vote.block_hash \in Blocks /\ WellFiled(vs)
  BY <1>1, RecordedWellFiled
<1>3. VotesWereCast'
  BY <1>1, <1>2 DEF VotesWereCast, WellFiled, TypeOK
<1>4. OneVotePerView'
  BY DEF CertInv, OneVotePerView
<1>5. SoundSignatures(qc)
  BY <1>1, <1>2, CertificateSound
<1>6. CertificateSupported'
  <2>1. certs' \subseteq certs \cup {qc}
    OBVIOUS
  <2>2. \A c \in certs : SoundSignatures(c)
    BY DEF SoundSignatures, CertInv, CertificateSupported
  <2>3. \A c \in certs' : SoundSignatures(c)
    BY <1>5, <2>1, <2>2
  <2>4. cast' = cast
    OBVIOUS
  <2>. QED  BY <2>3, <2>4 DEF SoundSignatures, CertificateSupported
<1>7. SubQuorumOnlyOnSplit'
  <2>1. Cardinality(VotersOf(vs, type)) >= Threshold
          => Cardinality(qc.signatures) + Cardinality(Dissenters(qc)) >= Threshold
    BY <1>1, <1>2, CertificateOrSplit
  <2>2. \A c \in certs : Cardinality(c.signatures) + Cardinality(Dissenters(c)) >= Threshold
    BY DEF CertInv, SubQuorumOnlyOnSplit, Dissenters
  <2>3. \A c \in certs' : Cardinality(c.signatures) + Cardinality(Dissenters(c)) >= Threshold
    BY <2>1, <2>2
  <2>4. QED
    BY <2>3 DEF SubQuorumOnlyOnSplit, Dissenters
<1>8. FinalizedOnPrecommits'
  <2>1. CASE state' = "Finalized" => state = "Finalized"
    BY <2>1 DEF CertInv, FinalizedOnPrecommits, CastersOf
  <2>2. CASE type = "PreCommit" /\ Cardinality(VotersOf(vs, type)) >= Threshold
    <3>1. VotersOf(vs, type) \in SUBSET CastersOf(type)
      BY <1>2 DEF VotersOf, CastersOf, WellFiled
    <3>2. CastersOf(type) \in SUBSET Voters
      BY DEF CastersOf
    <3>3. /\ Cardinality(VotersOf(vs, type)) <= Cardinality(CastersOf(type))
          /\ Cardinality(VotersOf(vs, type)) \in Nat
          /\ Cardinality(CastersOf(type)) \in Nat
      BY <3>1, <3>2, SubsetCount
    <3>4. Cardinality(CastersOf(type)) >= Threshold
      BY <2>2, <3>3, ThresholdType
    <3>5. QED
      BY <2>2, <3>4 DEF FinalizedOnPrecommits, CastersOf
  <2>3. QED
    BY <2>1, <2>2
<1>9. QED
  BY <1>3, <1>4, <1>6, <1>7, <1>8 DEF CertInv

\* Every operation preserves CertInv.
LEMMA NextCert == CertInv /\ [Next]_vars => CertInv'
<1> SUFFICES ASSUME CertInv, [Next]_vars
             PROVE  CertInv'
  OBVIOUS
<1> USE NoneAssumption
<1>0. TypeOK /\ TypeOK'
  BY NextType DEF CertInv
<1>1. ASSUME NEW h \in Heights, NEW r \in Rounds, StartNewView(h, r)
      PROVE  CertInv'
  <2>1. VotesWereCast' /\ OneVotePerView'
    BY <1>1 DEF StartNewView, NoVotes, CertInv, VotesWereCast, OneVotePerView
  <2>2. QED
    BY <1>0, <1>1, <2>1, QuietStep DEF StartNewView
<1>2. ASSUME NEW qc \in certs \cup {None}, Propose(qc)
      PROVE  CertInv'
  <2>1. VotesWereCast' /\ OneVotePerView'
    BY <1>2 DEF Propose, CertInv, VotesWereCast, OneVotePerView
  <2>2. QED
    BY <1>0, <1>2, <2>1, QuietStep DEF Propose
<1>3. ASSUME NEW qc \in certs, Commit(qc)
      PROVE  CertInv'
  <2>1. VotesWereCast' /\ OneVotePerView'
    BY <1>3 DEF Commit, CertInv, VotesWereCast, OneVotePerView
  <2>2. QED
    BY <1>0, <1>3, <2>1, QuietStep DEF Commit
<1>4. ASSUME AdvanceToNextView
      PROVE  CertInv'
  <2>1. VotesWereCast' /\ OneVotePerView'
    BY <1>4 DEF AdvanceToNextView, NoVotes, CertInv, VotesWereCast, OneVotePerView
  <2>2. QED
    BY <1>0, <1>4, <2>1, QuietStep DEF AdvanceToNextView
<1>5. ASSUME AdvanceToNextHeight
      PROVE  CertInv'
  <2>1. VotesWereCast' /\ OneVotePerView'
    BY <1>5 DEF AdvanceToNextHeight, NoVotes, CertInv, VotesWereCast, OneVotePerView
  <2>2. QED
    BY <1>0, <1>5, <2>1, QuietStep DEF AdvanceToNextHeight
<1>6. ASSUME NEW t \in Handlers, NEW v \in Votes, ReceiveVote(t, v)
      PROVE  CertInv'
  <2>1. cast' = cast \cup {v} /\ MayCast(v)
    BY <1>6 DEF ReceiveVote
  <2>2. VotesWereCast'
    <3>1. handlers' = [handlers EXCEPT ![t] = [vote |-> v, passed |-> "height"]]
            /\ UNCHANGED votes
      BY <1>6 DEF ReceiveVote
    <3>2. QED
      BY <1>0, <2>1, <3>1 DEF CertInv, VotesWereCast, TypeOK
  <2>3. OneVotePerView'
    BY <2>1 DEF MayCast, CertInv, OneVotePerView
  <2>4. UNCHANGED <<certs, state>>
    BY <1>6 DEF ReceiveVote, view
  <2>5. QED
    BY <1>0, <2>1, <2>2, <2>3, <2>4, QuietStep
<1>7. ASSUME NEW t \in Handlers, CheckRound(t)
      PROVE  CertInv'
  <2>1. VotesWereCast'
    BY <1>0, <1>7 DEF CheckRound, CertInv, VotesWereCast, TypeOK
  <2>2. OneVotePerView' /\ UNCHANGED <<certs, state, cast>>
    BY <1>7 DEF CheckRound, view, CertInv, OneVotePerView
  <2>3. QED
    BY <1>0, <2>1, <2>2, QuietStep
<1>8. ASSUME NEW t \in Handlers, RecordPrevote(t)
      PROVE  CertInv'
  <2> DEFINE vs == [votes EXCEPT ![handlers[t].vote.validator_id] = handlers[t].vote]
             qc == Certificate(vs, handlers[t].vote.block_hash, "PreVote")
  <2>1. /\ handlers[t] # None
        /\ votes' = vs /\ handlers' = [handlers EXCEPT ![t] = None] /\ UNCHANGED cast
        /\ \/ UNCHANGED certs
           \/ certs' = certs \cup {qc} /\ Cardinality(VotersOf(vs, "PreVote")) >= Threshold
        /\ state' = "Finalized" => state = "Finalized"
    BY <1>8 DEF RecordPrevote, Recording
  <2> HIDE DEF qc
  <2>2. "PreVote" \in VoteTypes /\ qc = Certificate(vs, handlers[t].vote.block_hash, "PreVote")
    BY DEF VoteTypes, qc
  <2> HIDE DEF vs
  <2>3. vs = [votes EXCEPT ![handlers[t].vote.validator_id] = handlers[t].vote]
    BY DEF vs
  <2>4. QED
    BY <1>0, <2>1, <2>2, <2>3, RecordStep
<1>9. ASSUME NEW t \in Handlers, RecordPrecommit(t)
      PROVE  CertInv'
  <2> DEFINE vs == [votes EXCEPT ![handlers[t].vote.validator_id] = handlers[t].vote]
             qc == Certificate(vs, handlers[t].vote.block_hash, "PreCommit")
  <2>1. /\ handlers[t] # None
        /\ votes' = vs /\ handlers' = [handlers EXCEPT ![t] = None] /\ UNCHANGED cast
        /\ \/ UNCHANGED certs
           \/ certs' = certs \cup {qc} /\ Cardinality(VotersOf(vs, "PreCommit")) >= Threshold
        /\ \/ state' = "Finalized" => state = "Finalized"
           \/ Cardinality(VotersOf(vs, "PreCommit")) >= Threshold
    BY <1>9 DEF RecordPrecommit, Recording
  <2> HIDE DEF qc
  <2>2. "PreCommit" \in VoteTypes /\ qc = Certificate(vs, handlers[t].vote.block_hash, "PreCommit")
    BY DEF VoteTypes, qc
  <2> HIDE DEF vs
  <2>3. vs = [votes EXCEPT ![handlers[t].vote.validator_id] = handlers[t].vote]
    BY DEF vs
  <2>4. QED
    BY <1>0, <2>1, <2>2, <2>3, RecordStep
<1>10. CASE UNCHANGED vars
  <2>1. VotesWereCast' /\ OneVotePerView' /\ UNCHANGED <<certs, state, cast>>
    BY <1>10 DEF vars, CertInv, VotesWereCast, OneVotePerView
  <2>2. QED
    BY <1>0, <2>1, QuietStep
<1>11. QED
  BY <1>1, <1>2, <1>3, <1>4, <1>5, <1>6, <1>7, <1>8, <1>9, <1>10 DEF Next

\* The inductive invariant holds in every reachable state.
THEOREM CertInvariant == Spec => []CertInv
  BY InitCert, NextCert, PTL DEF Spec

-----------------------------------------------------------------------------
(***************************************************************************)
(* The properties.                                                         *)
(***************************************************************************)

\* Every certificate an engine returns carries only cast votes of its own type
\* and block, one per validator.
THEOREM CertificatesSupported == Spec => []CertificateSupported
<1>1. CertInv => CertificateSupported
  BY DEF CertInv
<1>2. QED
  BY <1>1, CertInvariant, PTL

\* A certificate below the quorum needs voters that voted for another block.
THEOREM SubQuorumNeedsSplit == Spec => []SubQuorumOnlyOnSplit
<1>1. CertInv => SubQuorumOnlyOnSplit
  BY DEF CertInv
<1>2. QED
  BY <1>1, CertInvariant, PTL

\* Two quorum certificates of one view and type whose signatures were made in
\* that view share a correct signer, which voted once: they are for one block.
THEOREM CertificatesAgree == Spec => []Agreement
<1>1. CertInv => Agreement
  <2> SUFFICES ASSUME CertInv, NEW p \in certs, NEW q \in certs,
                      IsQuorum(p), OfItsView(p), IsQuorum(q), OfItsView(q),
                      p.height = q.height, p.round = q.round,
                      p.vote_type = q.vote_type
               PROVE  p.block_hash = q.block_hash
    BY DEF Agreement
  <2> DEFINE P == {s.validator_id : s \in p.signatures}
             Q == {s.validator_id : s \in q.signatures}
  <2>1. SoundSignatures(p) /\ SoundSignatures(q)
    BY DEF CertInv, CertificateSupported, SoundSignatures
  <2>2. p.signatures \in SUBSET Votes /\ q.signatures \in SUBSET Votes
    BY DEF CertInv, TypeOK, Certificates
  <2>3. P \in SUBSET Voters /\ Cardinality(P) >= Threshold
    BY <2>1, <2>2, SignerCount DEF SoundSignatures, IsQuorum
  <2>4. Q \in SUBSET Voters /\ Cardinality(Q) >= Threshold
    BY <2>1, <2>2, SignerCount DEF SoundSignatures, IsQuorum
  <2>5. \E u \in P \cap Q : u \notin Faulty
    BY <2>3, <2>4, QuorumIntersection
  <2>6. PICK s \in p.signatures, r \in q.signatures :
           s.validator_id = r.validator_id /\ s.validator_id \notin Faulty
    BY <2>5
  <2>7. s \in cast /\ r \in cast /\ s.vote_type = r.vote_type
    BY <2>1 DEF SoundSignatures
  <2>8. s.height = r.height /\ s.round = r.round
    BY DEF OfItsView
  <2>9. s = r
    BY <2>6, <2>7, <2>8 DEF CertInv, OneVotePerView
  <2>10. QED
    BY <2>1, <2>9 DEF SoundSignatures
<1>2. QED
  BY <1>1, CertInvariant, PTL

\* Faulty voters alone cannot take a finalized view back to PreCommit.
THEOREM FinalizedIsRobust == Spec => FinalizedRobust
<1> DEFINE Step == state = "Finalized" /\ state' = "PreCommit" =>
                     \E u \in Voters \ Faulty :
                        /\ votes'[u] # None /\ votes'[u].vote_type = "PreVote"
                        /\ \E c \in cast : /\ c.validator_id = u
                                           /\ c.vote_type = "PreCommit"
<1>1. CertInv /\ [Next]_vars => [Step]_vars
  <2> SUFFICES ASSUME CertInv, Next, state = "Finalized", state' = "PreCommit"
               PROVE  \E u \in Voters \ Faulty :
                         /\ votes'[u] # None /\ votes'[u].vote_type = "PreVote"
                         /\ \E c \in cast : /\ c.validator_id = u
                                            /\ c.vote_type = "PreCommit"
    BY DEF vars
  <2>1. PICK t \in Handlers : RecordPrevote(t)
    BY DEF Next, StartNewView, Propose, Commit, AdvanceToNextView,
           AdvanceToNextHeight, ReceiveVote, CheckRound, RecordPrecommit, view
  <2> DEFINE A == VotersOf(votes', "PreVote")
             B == CastersOf("PreCommit")
  <2>2. Cardinality(A) >= Threshold
    BY <2>1 DEF RecordPrevote
  <2>3. Cardinality(B) >= Threshold
    BY DEF CertInv, FinalizedOnPrecommits
  <2>4. A \in SUBSET Voters /\ B \in SUBSET Voters
    BY DEF VotersOf, CastersOf
  <2> HIDE DEF A, B
  <2>5. PICK u \in A \cap B : u \notin Faulty
    BY <2>2, <2>3, <2>4, QuorumIntersection
  <2>6. QED
    BY <2>4, <2>5 DEF A, B, VotersOf, CastersOf
<1>2. QED
  BY <1>1, CertInvariant, PTL DEF Spec, FinalizedRobust
=============================================================================
