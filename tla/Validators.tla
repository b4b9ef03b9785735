------------------------------ MODULE Validators ------------------------------
(***************************************************************************)
(* The ValidatorSet of crates/truth/src/validator.rs: stakes, delegations, *)
(* jail, unbonding and rewards.  Every operation takes the set by mutable  *)
(* reference and is one action.                                            *)
(*                                                                         *)
(* Of the delegations the amount recorded for each validator is kept, of   *)
(* the slashing records their number.  Names, keys, commission (always a   *)
(* tenth) and self_delegation, which nothing reads, are left out, and so   *)
(* is the order of the validators, which sort_by_power changes.  Epochs    *)
(* come from the caller and do not decrease.                               *)
(***************************************************************************)
EXTENDS Integers, FiniteSets, Functions

CONSTANTS
    Ids, None,
    MinStake,           \* MIN_STAKE, 1000
    PowerUnit,          \* stake per unit of voting power, 1000
    UnbondingPeriod,    \* UNBONDING_PERIOD, 21 epochs
    JailPeriod,         \* JAIL_PERIOD, 10 epochs
    MaxValidators,      \* MAX_VALIDATORS, 100
    Word,               \* 2^64: total_stake wraps in a release build
    Stakes, Amounts, Rewards,
    MaxEpoch,           \* bound on epochs
    MaxCalls            \* bound on operations other than epoch transitions

ASSUME NumbersAssumption ==
    /\ MinStake \in Nat /\ PowerUnit \in Nat \ {0}
    /\ UnbondingPeriod \in Nat /\ JailPeriod \in Nat
    /\ MaxValidators \in Nat /\ Word \in Nat \ {0}
    /\ MaxEpoch \in Nat /\ MaxCalls \in Nat
    /\ Stakes \subseteq Nat /\ Amounts \subseteq Nat /\ Rewards \subseteq Nat

ASSUME IdsAssumption == IsFiniteSet(Ids)

Epochs == 0 .. MaxEpoch
ValidatorStatus == {"Active", "Jailed", "Unbonding", "Removed"}
SlashType == {"DoubleSign", "Equivocation", "LivenessFailure"}
ValidatorRecords == [stake : Nat, delegated_stake : Nat, power : Nat,
                     status : ValidatorStatus, jailed_until : Nat,
                     unbonding_start : Epochs \cup {None}]

ASSUME NoneAssumption == None \notin ValidatorRecords /\ None \notin Nat

VARIABLES
    validators,         \* the validator stored under each id, or None
    total_stake,
    delegations,        \* the amount delegated to each validator, ever
    slashing_records,   \* number of slashing records of each validator
    current_epoch,
    calls,              \* operations so far, for the bound
    slashed_at,         \* history: epoch of a validator's last slash
    paid,               \* history: validators whose stake was paid out
    resurrected,        \*   and that were slashed after that
    rewards,            \* history: rewards announced and credited
    exact               \* history: nothing yet made total_stake inexact

history == <<slashed_at, paid, resurrected, rewards, exact>>
vars == <<validators, total_stake, delegations, slashing_records,
          current_epoch, calls, slashed_at, paid, resurrected, rewards, exact>>

Init ==
    /\ validators = [v \in Ids |-> None]
    /\ total_stake = 0
    /\ delegations = [v \in Ids |-> 0]
    /\ slashing_records = [v \in Ids |-> 0]
    /\ current_epoch = 0
    /\ calls = 0
    /\ slashed_at = [v \in Ids |-> None]
    /\ paid = {}
    /\ resurrected = {}
    /\ rewards = [announced |-> 0, credited |-> 0]
    /\ exact = TRUE

Call == calls < MaxCalls /\ calls' = calls + 1 /\ UNCHANGED current_epoch

Present == {v \in Ids : validators[v] # None}
GetActive == {v \in Present : validators[v].status = "Active"}
TotalStake(val) == val.stake + val.delegated_stake
CalculatePower(stake) == stake \div PowerUnit

SaturatingSub(x, y) == IF x >= y THEN x - y ELSE 0

\* The validator with these stakes and its power computed anew.
WithStake(val, stake, delegated) ==
    [stake |-> stake, delegated_stake |-> delegated,
     power |-> CalculatePower(stake + delegated),
     status |-> val.status, jailed_until |-> val.jailed_until,
     unbonding_start |-> val.unbonding_start]

\* The validator in another status.
Moved(val, status, jailed_until, unbonding_start) ==
    [stake |-> val.stake, delegated_stake |-> val.delegated_stake,
     power |-> val.power, status |-> status, jailed_until |-> jailed_until,
     unbonding_start |-> unbonding_start]

-----------------------------------------------------------------------------
(* Membership *)

NewValidator(stake) ==
    [stake |-> stake, delegated_stake |-> 0, power |-> CalculatePower(stake),
     status |-> "Active", jailed_until |-> 0, unbonding_start |-> None]

\* add: an id that was removed may come back as a new validator.
Add(v, stake) ==
    /\ Call
    /\ Cardinality(Present) < MaxValidators
    /\ stake >= MinStake
    /\ validators[v] = None
    /\ validators' = [validators EXCEPT ![v] = NewValidator(stake)]
    /\ total_stake' = (total_stake + stake) % Word
    /\ slashed_at' = [slashed_at EXCEPT ![v] = None]
    /\ paid' = paid \ {v}
    /\ resurrected' = resurrected \ {v}
    /\ UNCHANGED <<delegations, slashing_records, rewards, exact>>

\* remove: the subtraction is not saturating and wraps when total_stake is
\* below the validator's stake.
RemoveValidator(v) ==
    /\ Call
    /\ validators[v] # None
    /\ validators' = [validators EXCEPT ![v] = None]
    /\ total_stake' = (total_stake - TotalStake(validators[v])) % Word
    /\ UNCHANGED <<delegations, slashing_records, history>>

-----------------------------------------------------------------------------
(* Stake *)

\* bond, whatever the status.
Bond(v, amount) ==
    /\ Call
    /\ validators[v] # None
    /\ validators' = [validators EXCEPT
                        ![v] = WithStake(validators[v],
                                         validators[v].stake + amount,
                                         validators[v].delegated_stake)]
    /\ total_stake' = (total_stake + amount) % Word
    /\ UNCHANGED <<delegations, slashing_records, history>>

DelegateOutsideTotal(v, amount) ==
    /\ Call
    /\ v \in GetActive
    /\ validators' = [validators EXCEPT
                        ![v] = WithStake(validators[v], validators[v].stake,
                                         validators[v].delegated_stake + amount)]
    /\ delegations' = [delegations EXCEPT ![v] = delegations[v] + amount]
    /\ UNCHANGED <<total_stake, slashing_records, history>>

\* delegate.
Delegate(v, amount) ==
    /\ Call
    /\ v \in GetActive
    /\ validators' = [validators EXCEPT
                        ![v] = WithStake(validators[v], validators[v].stake,
                                         validators[v].delegated_stake + amount)]
    /\ total_stake' = (total_stake + amount) % Word
    /\ delegations' = [delegations EXCEPT ![v] = delegations[v] + amount]
    /\ UNCHANGED <<slashing_records, history>>

UnbondStart(v) ==
    /\ Call
    /\ v \in GetActive
    /\ validators' = [validators EXCEPT
                        ![v] = Moved(validators[v], "Unbonding",
                                     validators[v].jailed_until, current_epoch)]
    /\ UNCHANGED <<total_stake, delegations, slashing_records, history>>

CanUnbond(val) ==
    /\ val.unbonding_start # None
    /\ current_epoch >= val.unbonding_start + UnbondingPeriod

\* unbond_complete, whatever the status and also a second time: the stake is
\* paid out and stays on the record.
UnbondComplete(v) ==
    /\ Call
    /\ validators[v] # None
    /\ CanUnbond(validators[v])
    /\ validators' = [validators EXCEPT
                        ![v] = Moved(validators[v], "Removed",
                                     validators[v].jailed_until,
                                     validators[v].unbonding_start)]
    /\ total_stake' = SaturatingSub(total_stake, validators[v].stake)
    /\ paid' = paid \cup {v}
    /\ resurrected' = resurrected \ {v}
    /\ exact' = FALSE
    /\ UNCHANGED <<delegations, slashing_records, slashed_at, rewards>>

-----------------------------------------------------------------------------
(* Slashing *)

\* SlashingRecord::new.
SlashAmount(type, total) ==
    CASE type = "DoubleSign"      -> (total * 5) \div 100
      [] type = "Equivocation"    -> total \div 100
      [] type = "LivenessFailure" -> 0

JailOnce(val, amount) ==
    [stake |-> SaturatingSub(val.stake, amount),
     delegated_stake |-> val.delegated_stake,
     power |-> CalculatePower(SaturatingSub(val.stake, amount) + val.delegated_stake),
     status |-> "Jailed",
     jailed_until |-> IF val.jailed_until > 0 THEN val.jailed_until
                      ELSE current_epoch + JailPeriod,
     unbonding_start |-> val.unbonding_start]

\* Validator::jail.
Jail(val, amount) ==
    [stake |-> SaturatingSub(val.stake, amount),
     delegated_stake |-> val.delegated_stake,
     power |-> CalculatePower(SaturatingSub(val.stake, amount) + val.delegated_stake),
     status |-> "Jailed",
     jailed_until |-> current_epoch + JailPeriod,
     unbonding_start |-> val.unbonding_start]

\* slash, whatever the status.  The amount is computed from the stake with its
\* delegations, and taken from the stake alone.
Slash(v, type) ==
    LET amount == SlashAmount(type, TotalStake(validators[v]))
    IN  /\ Call
        /\ validators[v] # None
        /\ validators' = [validators EXCEPT ![v] = Jail(validators[v], amount)]
        /\ total_stake' = SaturatingSub(total_stake, amount)
        /\ slashing_records' = [slashing_records EXCEPT ![v] = slashing_records[v] + 1]
        /\ slashed_at' = [slashed_at EXCEPT ![v] = current_epoch]
        /\ resurrected' = resurrected \cup (paid \cap {v})
        /\ exact' = (exact /\ amount <= validators[v].stake /\ amount <= total_stake)
        /\ UNCHANGED <<delegations, paid, rewards>>

\* process_epoch_transition: who served the jail period is Active again.  The
\* unbonding validators are only reported.
EpochTransition(epoch) ==
    /\ current_epoch' = epoch
    /\ validators' =
         [v \in Ids |->
            IF /\ validators[v] # None
               /\ validators[v].status = "Jailed"
               /\ epoch >= validators[v].jailed_until
              THEN Moved(validators[v], "Active", 0, validators[v].unbonding_start)
              ELSE validators[v]]
    /\ UNCHANGED <<total_stake, delegations, slashing_records, calls, history>>

-----------------------------------------------------------------------------
(* Rewards *)

ActiveStake == SumFunctionOnSet([v \in Ids |-> IF v \in GetActive
                                                THEN TotalStake(validators[v])
                                                ELSE 0], Ids)

RewardOfTotal(v, reward) ==
    IF ActiveStake = 0 \/ total_stake = 0 \/ v \notin GetActive THEN 0
    ELSE ((reward - reward \div 10) * TotalStake(validators[v])) \div total_stake

\* calculate_rewards: the share of one validator, after the commission.
Reward(v, reward) ==
    IF ActiveStake = 0 \/ v \notin GetActive THEN 0
    ELSE ((reward - reward \div 10) * TotalStake(validators[v])) \div ActiveStake

\* distribute_rewards: total_stake grows by the announced reward, the
\* validators' stakes by what is left after commission and rounding.
DistributeRewards(reward) ==
    /\ Call
    /\ validators' = [v \in Ids |->
                        IF v \in GetActive
                          THEN WithStake(validators[v],
                                         validators[v].stake + Reward(v, reward),
                                         validators[v].delegated_stake)
                          ELSE validators[v]]
    /\ total_stake' = (total_stake + reward) % Word
    /\ rewards' = [announced |-> rewards.announced + reward,
                   credited |-> rewards.credited
                     + SumFunctionOnSet([v \in Ids |-> Reward(v, reward)], Ids)]
    /\ exact' = (exact /\ reward = 0)
    /\ UNCHANGED <<delegations, slashing_records, slashed_at, paid, resurrected>>

Next ==
    \/ \E e \in current_epoch .. MaxEpoch : EpochTransition(e)
    \/ \E r \in Rewards : DistributeRewards(r)
    \/ \E v \in Ids :
          \/ \E s \in Stakes : Add(v, s)
          \/ RemoveValidator(v)
          \/ \E a \in Amounts : Bond(v, a) \/ Delegate(v, a)
          \/ UnbondStart(v)
          \/ UnbondComplete(v)
          \/ \E t \in SlashType : Slash(v, t)

Spec == Init /\ [][Next]_vars

-----------------------------------------------------------------------------
(* Properties *)

\* Every field holds a value of its type; the stakes of validators never
\* underflow, and total_stake stays within its word.
TypeOK ==
    /\ validators \in [Ids -> ValidatorRecords \cup {None}]
    /\ total_stake \in 0 .. Word - 1
    /\ delegations \in [Ids -> Nat]
    /\ slashing_records \in [Ids -> Nat]
    /\ current_epoch \in Epochs
    /\ calls \in 0 .. MaxCalls
    /\ slashed_at \in [Ids -> Epochs \cup {None}]
    /\ paid \subseteq Ids
    /\ resurrected \subseteq paid
    /\ rewards \in [announced : Nat, credited : Nat]
    /\ exact \in BOOLEAN

\* A validator votes with the power of the stake it has, after every mix of
\* bonding, delegation, slashing and rewards, and no part of that stake is a
\* delegation that was not recorded.
PowerInStep ==
    \A v \in Present :
        /\ validators[v].power = CalculatePower(TotalStake(validators[v]))
        /\ validators[v].delegated_stake <= delegations[v]

\* An active validator has sat out the jail period since its last slash, also
\* when it was slashed again in jail or while it was unbonding.
JailServed ==
    \A v \in GetActive :
        slashed_at[v] # None => current_epoch >= slashed_at[v] + JailPeriod

\* A validator whose stake was paid out votes no more and unbonds no more,
\* except when a later slash put it into jail, whose end makes it active.
PaidOutStaysOut ==
    \A v \in Present \cap paid :
        validators[v].status # "Removed" => v \in resurrected

\* The rewards credited to the validators never exceed the rewards announced.
RewardsWithin == rewards.credited <= rewards.announced

\* The stake on the records of all validators.
RecordedStake == SumFunctionOnSet([v \in Ids |-> IF v \in Present
                                                  THEN TotalStake(validators[v])
                                                  ELSE 0], Ids)

\* total_stake is the sum of the validators' stakes until the first payout, the
\* first reward, the first slash of more than a validator's own stake, or of
\* more than a total that has wrapped: these four change it by another amount
\* than the stakes.
TotalStakeExact == exact => total_stake = RecordedStake % Word
=============================================================================
