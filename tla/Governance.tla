------------------------------ MODULE Governance ------------------------------
(***************************************************************************)
(* crates/truth/src/governance.rs: proposals, votes and their tally.       *)
(* Nothing in the code ends a vote: tally takes the governance by shared   *)
(* reference and leaves the proposal's status Voting, so every vote that   *)
(* arrives is appended, after vote_end and from a voter who voted before   *)
(* too.  Titles, descriptions and the payload of a proposal type are left  *)
(* out.  max_proposals is not read by the code.                            *)
(***************************************************************************)
EXTENDS Integers, Sequences, Functions

CONSTANTS
    Voters, VoteWeights,
    Quorum,             \* params.quorum, 500000000
    PassShare, ShareUnit,   \* params.threshold over 1_000_000_000
    TallyWord,          \* 2^64: the product of total and threshold wraps
    MaxProposals, MaxBallots    \* bounds: proposals, votes on one proposal

ASSUME GovernanceAssumption ==
    /\ VoteWeights \subseteq Nat /\ Quorum \in Nat /\ PassShare \in Nat
    /\ ShareUnit \in Nat \ {0} /\ TallyWord \in Nat \ {0}
    /\ MaxProposals \in Nat /\ MaxBallots \in Nat

ProposalType == {"ParameterChange", "SoftwareUpgrade", "SlashValidator",
                 "PartitionCreate", "PartitionDelete"}
ProposalStatus == {"Voting", "Passed", "Rejected", "Executed", "Canceled"}
VoteOption == {"Yes", "No", "Abstain"}
Ballots == [voter : Voters, vote_option : VoteOption, stake_weight : VoteWeights]
Proposals == [proposal_type : ProposalType, status : ProposalStatus]

VARIABLES
    proposals,          \* by id, which is next_proposal_id: 1, 2, ...
    votes

governance_vars == <<proposals, votes>>

GovernanceInit == proposals = <<>> /\ votes = <<>>

CreateProposal(type) ==
    /\ Len(proposals) < MaxProposals
    /\ proposals' = Append(proposals, [proposal_type |-> type, status |-> "Voting"])
    /\ votes' = Append(votes, <<>>)

CastVote(p, ballot) ==
    /\ Len(votes[p]) < MaxBallots
    /\ proposals[p].status = "Voting"
    /\ votes' = [votes EXCEPT ![p] = Append(@, ballot)]
    /\ UNCHANGED proposals

\* The weight cast for an option.
Counted(p, option) ==
    SumFunctionOnSet([i \in DOMAIN votes[p] |->
                        IF votes[p][i].vote_option = option THEN votes[p][i].stake_weight
                                                            ELSE 0], DOMAIN votes[p])

TotalCast(p) == Counted(p, "Yes") + Counted(p, "No") + Counted(p, "Abstain")

\* The bar without the votes that abstained.
BarOfDecided(p) ==
    (((Counted(p, "Yes") + Counted(p, "No")) * PassShare) % TallyWord) \div ShareUnit

\* The weight that the votes for it have to reach: the product is a 64-bit one.
PassBar(p) == ((TotalCast(p) * PassShare) % TallyWord) \div ShareUnit

Tally(p) ==
    IF TotalCast(p) < Quorum THEN "Voting"
    ELSE IF Counted(p, "Yes") >= PassBar(p) THEN "Passed" ELSE "Rejected"

GovernanceNext ==
    \/ \E type \in ProposalType : CreateProposal(type)
    \/ \E p \in DOMAIN proposals, ballot \in Ballots : CastVote(p, ballot)

GovernanceSpec == GovernanceInit /\ [][GovernanceNext]_governance_vars

-----------------------------------------------------------------------------
\* Every field keeps its type.
GovernanceTypeOK ==
    /\ proposals \in Seq(Proposals) /\ votes \in Seq(Seq(Ballots))
    /\ Len(votes) = Len(proposals) /\ Len(proposals) <= MaxProposals

\* A proposal passes only when the weight cast for it, abstentions counted in
\* the total, misses the threshold by less than one unit, and is rejected
\* only when it does not reach it, as long as the 64-bit product of the total
\* and the threshold does not wrap.  Votes of one voter may be counted again:
\* the tally is of weight cast, not of voters.
PassedBySupermajority ==
    \A p \in DOMAIN proposals :
        TotalCast(p) * PassShare < TallyWord =>
            /\ Tally(p) = "Passed" =>
                 (Counted(p, "Yes") + 1) * ShareUnit > TotalCast(p) * PassShare
            /\ Tally(p) = "Rejected" =>
                 Counted(p, "Yes") * ShareUnit < TotalCast(p) * PassShare
=============================================================================
