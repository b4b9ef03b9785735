------------------------------ MODULE StakingSet ------------------------------
(***************************************************************************)
(* The ValidatorSet of crates/truth/src/validator_set.rs, which the RPC    *)
(* server shares with the rest of the node: a second bookkeeping of stake  *)
(* beside crates/truth/src/validator.rs, with its own statuses.            *)
(*                                                                         *)
(* A validator's total_stake is its stake plus what is delegated to it     *)
(* after every operation, so it is computed.  Keys, metadata and           *)
(* timestamps are left out: nothing here reads them (complete_unbonding    *)
(* does not look at when the unbonding began).                             *)
(***************************************************************************)
EXTENDS Integers, FiniteSets, Functions

CONSTANTS
    Stakers, Delegators,    \* ids of validators and of delegators
    Absent,                 \* no entry under a key
    MinimumStake,           \* the min_stake the caller of add_validator asks for
    OwnStakes, StakeAmounts,\* stakes and delegated amounts
    SlashPercentages,
    MaxStakingEpoch, MaxStakingCalls    \* bounds

ASSUME StakingAssumption ==
    /\ IsFiniteSet(Stakers)
    /\ OwnStakes \subseteq Nat /\ StakeAmounts \subseteq Nat
    /\ SlashPercentages \subseteq Nat /\ MinimumStake \in Nat
    /\ MaxStakingEpoch \in Nat /\ MaxStakingCalls \in Nat

StakerStatus == {"Pending", "Active", "Unbonding", "Jailed", "Removed"}
StakerRecords == [stake : Nat, delegated_stake : Nat, status : StakerStatus]
DelegatorRecords == [validator_id : Stakers, staked_amount : Nat]
SlashKinds == {"DoubleSign", "DoublePropose", "SurroundVote", "Unavailable",
               "InvalidVote"}

ASSUME AbsentAssumption == Absent \notin StakerRecords \cup DelegatorRecords

VARIABLES
    stakers,            \* validators: the record stored under each id, or Absent
    delegators,
    set_stake,          \* total_stake of the set
    active_count,
    set_epoch,          \* current_epoch
    staking_calls,      \* operations so far, for the bound
    funds,              \* history: each delegator's first, deposited, withdrawn
    drifted             \* history: an operation left set_stake short

staking_history == <<funds, drifted>>
staking_vars == <<stakers, delegators, set_stake, active_count, set_epoch,
                  staking_calls, funds, drifted>>

StakingInit ==
    /\ stakers = [v \in Stakers |-> Absent]
    /\ delegators = [d \in Delegators |-> Absent]
    /\ set_stake = 0
    /\ active_count = 0
    /\ set_epoch = 0
    /\ staking_calls = 0
    /\ funds = [d \in Delegators |-> [first |-> 0, deposited |-> 0, withdrawn |-> 0]]
    /\ drifted = FALSE

StakingCall == staking_calls < MaxStakingCalls /\ staking_calls' = staking_calls + 1

Registered == {v \in Stakers : stakers[v] # Absent}
GetActiveStakers == {v \in Registered : stakers[v].status = "Active"}
StakeOf(v) == stakers[v].stake + stakers[v].delegated_stake
QuorumThreshold == (set_stake * 2) \div 3 + 1
Less(x, y) == IF x >= y THEN x - y ELSE 0

StakerIn(v, status) ==
    [stake |-> stakers[v].stake, delegated_stake |-> stakers[v].delegated_stake,
     status |-> status]

StakerWith(v, stake, delegated) ==
    [stake |-> stake, delegated_stake |-> delegated, status |-> stakers[v].status]

OwnStakeReturned(v) == Less(set_stake, stakers[v].stake)

\* The set's stake and active validators once v is gone.
StakeWithout(v) == Less(set_stake, StakeOf(v))

CountWithout(v) ==
    IF stakers[v].status = "Active" THEN Less(active_count, 1) ELSE active_count

-----------------------------------------------------------------------------
(* Membership *)

AddStaker(v, stake) ==
    /\ StakingCall
    /\ stake >= MinimumStake
    /\ v \notin Registered
    /\ stakers' = [stakers EXCEPT ![v] = [stake |-> stake, delegated_stake |-> 0,
                                          status |-> "Pending"]]
    /\ set_stake' = set_stake + stake
    /\ UNCHANGED <<delegators, active_count, set_epoch, staking_history>>

ActivateStaker(v) ==
    /\ StakingCall
    /\ v \in Registered /\ stakers[v].status = "Pending"
    /\ stakers' = [stakers EXCEPT ![v] = StakerIn(v, "Active")]
    /\ active_count' = active_count + 1
    /\ UNCHANGED <<delegators, set_stake, set_epoch, staking_history>>

\* The stake of a validator whose unbonding is complete was subtracted then,
\* and is subtracted once more here.
RemoveStaker(v) ==
    /\ StakingCall
    /\ v \in Registered
    /\ stakers' = [stakers EXCEPT ![v] = Absent]
    /\ set_stake' = StakeWithout(v)
    /\ active_count' = CountWithout(v)
    /\ drifted' = (drifted \/ stakers[v].status = "Removed")
    /\ UNCHANGED <<delegators, set_epoch, funds>>

StartStakerUnbonding(v) ==
    /\ StakingCall
    /\ v \in GetActiveStakers
    /\ stakers' = [stakers EXCEPT ![v] = StakerIn(v, "Unbonding")]
    /\ active_count' = Less(active_count, 1)
    /\ UNCHANGED <<delegators, set_stake, set_epoch, staking_history>>

\* The delegators of the validator keep their entries.
CompleteStakerUnbonding(v) ==
    /\ StakingCall
    /\ v \in Registered /\ stakers[v].status = "Unbonding"
    /\ stakers' = [stakers EXCEPT ![v] = StakerIn(v, "Removed")]
    /\ set_stake' = StakeWithout(v)
    /\ UNCHANGED <<delegators, active_count, set_epoch, staking_history>>

\* jail_validator compares the status after it has assigned Jailed, so the
\* count stays as it is.  It takes a validator in any status.
JailStaker(v) ==
    /\ StakingCall
    /\ v \in Registered
    /\ stakers' = [stakers EXCEPT ![v] = StakerIn(v, "Jailed")]
    /\ drifted' = (drifted \/ stakers[v].status = "Removed")
    /\ UNCHANGED <<delegators, set_stake, active_count, set_epoch, funds>>

UnjailStaker(v) ==
    /\ StakingCall
    /\ v \in Registered /\ stakers[v].status = "Jailed"
    /\ stakers' = [stakers EXCEPT ![v] = StakerIn(v, "Active")]
    /\ active_count' = active_count + 1
    /\ UNCHANGED <<delegators, set_stake, set_epoch, staking_history>>

AdvanceStakingEpoch(epoch) ==
    /\ epoch # set_epoch
    /\ set_epoch' = epoch
    /\ UNCHANGED <<stakers, delegators, set_stake, active_count, staking_calls,
                   staking_history>>

-----------------------------------------------------------------------------
(* Slashing and delegation *)

StakerSlash(v, percentage) == (stakers[v].stake * percentage) \div 100

\* The set loses the whole slash, also when it exceeds the validator's stake;
\* a double sign counts one active validator less whatever the status was.
SlashStaker(v, kind, percentage) ==
    LET amount == StakerSlash(v, percentage)
        jails  == kind \in {"DoubleSign", "DoublePropose"}
        after  == StakerWith(v, Less(stakers[v].stake, amount),
                             stakers[v].delegated_stake)
    IN  /\ StakingCall
        /\ v \in Registered
        /\ stakers' = [stakers EXCEPT
                         ![v] = [after EXCEPT !.status = IF jails THEN "Jailed" ELSE @]]
        /\ set_stake' = Less(set_stake, amount)
        /\ active_count' = IF jails THEN Less(active_count, 1) ELSE active_count
        /\ drifted' = (drifted \/ stakers[v].status = "Removed"
                               \/ amount > stakers[v].stake)
        /\ UNCHANGED <<delegators, set_epoch, funds>>

\* The first delegation creates the entry with the amount and then adds the
\* amount to it; a later one keeps the validator of the first.
DelegateTo(d, v, amount) ==
    LET known == delegators[d] # Absent
    IN  /\ StakingCall
        /\ v \in GetActiveStakers
        /\ delegators' = [delegators EXCEPT ![d] =
             [validator_id  |-> IF known THEN delegators[d].validator_id ELSE v,
              staked_amount |-> amount + IF known THEN delegators[d].staked_amount
                                                  ELSE amount]]
        /\ stakers' = [stakers EXCEPT ![v] =
             StakerWith(v, stakers[v].stake, stakers[v].delegated_stake + amount)]
        /\ set_stake' = set_stake + amount
        /\ funds' = [funds EXCEPT
             ![d] = [first |-> IF known THEN funds[d].first ELSE amount,
                     deposited |-> funds[d].deposited + amount,
                     withdrawn |-> funds[d].withdrawn]]
        /\ UNCHANGED <<active_count, set_epoch, drifted>>

AmountAsked(d, amount) == amount

ActualAmount(d, amount) ==
    IF amount <= delegators[d].staked_amount THEN amount ELSE delegators[d].staked_amount

\* Both the validator and the set lose what the delegator draws, each down to
\* zero at most; the delegator may draw more than the validator holds for it.
Undelegate(d, amount) ==
    LET v      == delegators[d].validator_id
        actual == ActualAmount(d, amount)
    IN  /\ StakingCall
        /\ delegators[d] # Absent
        /\ v \in Registered
        /\ delegators' = [delegators EXCEPT
             ![d] = [validator_id |-> v,
                     staked_amount |-> Less(delegators[d].staked_amount, actual)]]
        /\ stakers' = [stakers EXCEPT ![v] =
             StakerWith(v, stakers[v].stake, Less(stakers[v].delegated_stake, actual))]
        /\ set_stake' = Less(set_stake, actual)
        /\ funds' = [funds EXCEPT
             ![d] = [first |-> funds[d].first, deposited |-> funds[d].deposited,
                     withdrawn |-> funds[d].withdrawn + actual]]
        /\ drifted' = (drifted \/ stakers[v].status = "Removed"
                               \/ actual > stakers[v].delegated_stake)
        /\ UNCHANGED <<active_count, set_epoch>>

-----------------------------------------------------------------------------
StakingNext ==
    \/ \E v \in Stakers, stake \in OwnStakes : AddStaker(v, stake)
    \/ \E v \in Stakers :
         \/ ActivateStaker(v)
         \/ RemoveStaker(v)
         \/ StartStakerUnbonding(v)
         \/ CompleteStakerUnbonding(v)
         \/ JailStaker(v)
         \/ UnjailStaker(v)
    \/ \E epoch \in 0 .. MaxStakingEpoch : AdvanceStakingEpoch(epoch)
    \/ \E v \in Stakers, kind \in SlashKinds, percentage \in SlashPercentages :
         SlashStaker(v, kind, percentage)
    \/ \E d \in Delegators, v \in Stakers, amount \in StakeAmounts :
         DelegateTo(d, v, amount)
    \/ \E d \in Delegators, amount \in StakeAmounts : Undelegate(d, amount)

StakingSpec == StakingInit /\ [][StakingNext]_staking_vars

-----------------------------------------------------------------------------
\* Every field keeps its type.
StakingTypeOK ==
    /\ stakers \in [Stakers -> StakerRecords \cup {Absent}]
    /\ delegators \in [Delegators -> DelegatorRecords \cup {Absent}]
    /\ set_stake \in Nat /\ active_count \in Nat
    /\ set_epoch \in 0 .. MaxStakingEpoch /\ staking_calls \in 0 .. MaxStakingCalls
    /\ funds \in [Delegators -> [first : Nat, deposited : Nat, withdrawn : Nat]]
    /\ drifted \in BOOLEAN

\* The stake bonded in the set: every validator whose unbonding is not complete.
BondedStake ==
    SumFunctionOnSet([v \in Registered |-> StakeOf(v)],
                     {v \in Registered : stakers[v].status # "Removed"})

\* total_stake, from which the quorum threshold is computed, never exceeds
\* the stake bonded in the set, whatever the order of the operations; and it
\* is exact until an operation charges a validator that was already paid out,
\* or draws more than the validator it is charged to holds.
SetStakeCovered ==
    /\ set_stake <= BondedStake
    /\ ~drifted => set_stake = BondedStake

\* What a delegator has drawn and can still draw is what it put in plus its
\* first delegation, which delegate counts twice: no order of delegations,
\* slashes, removals and undelegations lets it draw more than that.
DelegatorClaims ==
    \A d \in Delegators : delegators[d] # Absent =>
        funds[d].withdrawn + delegators[d].staked_amount
            = funds[d].deposited + funds[d].first
=============================================================================
