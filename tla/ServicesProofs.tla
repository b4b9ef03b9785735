---------------------------- MODULE ServicesProofs ----------------------------
(***************************************************************************)
(* Theorems about the services of a node around the ledger: the validator  *)
(* set of the RPC server, governance, cross-partition messages, the RPC    *)
(* server, storage, synchronisation and keys.  Each is about one service's *)
(* own specification, for every value of its constants.                    *)
(***************************************************************************)
EXTENDS StakingSet, Governance, CrossPartition, Rpc, ChainStore, ChainSync, Keys,
        FoldLemmas, SequenceTheorems

-----------------------------------------------------------------------------
(* StakingSet: types *)

\* A validator on record, its stakes and what is subtracted from them.
LEMMA StakerTypes ==
    ASSUME StakingTypeOK, NEW v \in Registered
    PROVE  /\ v \in Stakers /\ stakers[v] \in StakerRecords
           /\ stakers[v].stake \in Nat /\ stakers[v].delegated_stake \in Nat
           /\ stakers[v].status \in StakerStatus
           /\ StakeOf(v) \in Nat
  BY DEF StakingTypeOK, Registered, StakerRecords, StakeOf

\* Saturating subtraction stays in the natural numbers.
LEMMA LessType ==
    ASSUME NEW x \in Nat, NEW y \in Nat
    PROVE  Less(x, y) \in Nat /\ Less(x, y) <= x
  BY DEF Less

\* A slash is of a natural number.
LEMMA StakerSlashType ==
    ASSUME StakingTypeOK, NEW v \in Registered, NEW percentage \in SlashPercentages
    PROVE  StakerSlash(v, percentage) \in Nat
  <1>1. stakers[v].stake \in Nat /\ percentage \in Nat
    BY StakerTypes, StakingAssumption
  <1>2. ASSUME NEW s \in Nat, NEW p \in Nat PROVE (s * p) \div 100 \in Nat
    <2>1. s * p \in Nat
      OBVIOUS
    <2>. QED  BY <2>1
  <1>. QED  BY <1>1, <1>2 DEF StakerSlash

\* What a delegator draws is a natural number within its claim.
LEMMA ActualAmountType ==
    ASSUME StakingTypeOK, NEW d \in Delegators, delegators[d] # Absent,
           NEW amount \in StakeAmounts
    PROVE  /\ delegators[d] \in DelegatorRecords
           /\ delegators[d].validator_id \in Stakers /\ delegators[d].staked_amount \in Nat
           /\ ActualAmount(d, amount) \in Nat
           /\ ActualAmount(d, amount) <= delegators[d].staked_amount
  BY StakingAssumption DEF StakingTypeOK, DelegatorRecords, ActualAmount

\* Every operation keeps the types.
LEMMA StakingTypeStep == StakingTypeOK /\ [StakingNext]_staking_vars => StakingTypeOK'
  <1>. SUFFICES ASSUME StakingTypeOK, [StakingNext]_staking_vars PROVE StakingTypeOK'
    OBVIOUS
  <1>. USE StakingAssumption
  <1>a. ASSUME StakingCall PROVE staking_calls' \in 0 .. MaxStakingCalls
    BY <1>a DEF StakingCall, StakingTypeOK
  <1>b. ASSUME NEW v \in Stakers, NEW val \in StakerRecords \cup {Absent},
               stakers' = [stakers EXCEPT ![v] = val]
        PROVE  stakers' \in [Stakers -> StakerRecords \cup {Absent}]
    BY <1>b DEF StakingTypeOK
  <1>c. ASSUME NEW v \in Registered, NEW status \in StakerStatus
        PROVE  StakerIn(v, status) \in StakerRecords
    BY StakerTypes DEF StakerIn, StakerRecords
  <1>d. ASSUME NEW v \in Registered, NEW s \in Nat, NEW d \in Nat
        PROVE  StakerWith(v, s, d) \in StakerRecords
    BY StakerTypes DEF StakerWith, StakerRecords
  <1>e. set_stake \in Nat /\ active_count \in Nat
    BY DEF StakingTypeOK
  <1>f. ASSUME NEW v \in Registered
        PROVE  StakeWithout(v) \in Nat /\ CountWithout(v) \in Nat /\ Less(active_count, 1) \in Nat
    BY <1>e, StakerTypes, LessType DEF StakeWithout, CountWithout
  <1>1. ASSUME NEW v \in Stakers, NEW stake \in OwnStakes, AddStaker(v, stake)
        PROVE  StakingTypeOK'
    <2>1. [stake |-> stake, delegated_stake |-> 0, status |-> "Pending"] \in StakerRecords
      BY DEF StakerRecords, StakerStatus
    <2>2. stakers' \in [Stakers -> StakerRecords \cup {Absent}]
      BY <1>1, <1>b, <2>1 DEF AddStaker
    <2>. QED  BY <1>1, <1>a, <1>e, <2>2 DEF AddStaker, StakingTypeOK, staking_history
  <1>2. ASSUME NEW v \in Stakers, ActivateStaker(v) \/ UnjailStaker(v) PROVE StakingTypeOK'
    <2>1. StakerIn(v, "Active") \in StakerRecords
      BY <1>2, <1>c DEF ActivateStaker, UnjailStaker, StakerStatus
    <2>2. stakers' \in [Stakers -> StakerRecords \cup {Absent}]
      BY <1>2, <1>b, <2>1 DEF ActivateStaker, UnjailStaker
    <2>. QED
      BY <1>2, <1>a, <1>e, <2>2 DEF ActivateStaker, UnjailStaker, StakingTypeOK, staking_history
  <1>3. ASSUME NEW v \in Stakers, RemoveStaker(v) PROVE StakingTypeOK'
    <2>1. stakers' \in [Stakers -> StakerRecords \cup {Absent}]
      BY <1>3, <1>b DEF RemoveStaker
    <2>2. set_stake' \in Nat /\ active_count' \in Nat
      BY <1>3, <1>f DEF RemoveStaker
    <2>. QED  BY <1>3, <1>a, <2>1, <2>2 DEF RemoveStaker, StakingTypeOK
  <1>4. ASSUME NEW v \in Stakers, StartStakerUnbonding(v) PROVE StakingTypeOK'
    <2>1. v \in Registered
      BY <1>4 DEF StartStakerUnbonding, GetActiveStakers
    <2>2. StakerIn(v, "Unbonding") \in StakerRecords
      BY <1>c, <2>1 DEF StakerStatus
    <2>3. stakers' \in [Stakers -> StakerRecords \cup {Absent}]
      BY <1>4, <1>b, <2>2 DEF StartStakerUnbonding
    <2>. QED
      BY <1>4, <1>a, <1>f, <2>1, <2>3 DEF StartStakerUnbonding, StakingTypeOK, staking_history
  <1>5. ASSUME NEW v \in Stakers, CompleteStakerUnbonding(v) PROVE StakingTypeOK'
    <2>1. StakerIn(v, "Removed") \in StakerRecords
      BY <1>5, <1>c DEF CompleteStakerUnbonding, StakerStatus
    <2>2. stakers' \in [Stakers -> StakerRecords \cup {Absent}]
      BY <1>5, <1>b, <2>1 DEF CompleteStakerUnbonding
    <2>. QED
      BY <1>5, <1>a, <1>f, <2>2 DEF CompleteStakerUnbonding, StakingTypeOK, staking_history
  <1>6. ASSUME NEW v \in Stakers, JailStaker(v) PROVE StakingTypeOK'
    <2>1. StakerIn(v, "Jailed") \in StakerRecords
      BY <1>6, <1>c DEF JailStaker, StakerStatus
    <2>2. stakers' \in [Stakers -> StakerRecords \cup {Absent}]
      BY <1>6, <1>b, <2>1 DEF JailStaker
    <2>. QED  BY <1>6, <1>a, <2>2 DEF JailStaker, StakingTypeOK
  <1>7. ASSUME NEW epoch \in 0 .. MaxStakingEpoch, AdvanceStakingEpoch(epoch)
        PROVE  StakingTypeOK'
    BY <1>7 DEF AdvanceStakingEpoch, StakingTypeOK, staking_history
  <1>8. ASSUME NEW v \in Stakers, NEW kind \in SlashKinds,
               NEW percentage \in SlashPercentages, SlashStaker(v, kind, percentage)
        PROVE  StakingTypeOK'
    <2>. DEFINE amount == StakerSlash(v, percentage)
                after == StakerWith(v, Less(stakers[v].stake, amount), stakers[v].delegated_stake)
                jails == kind \in {"DoubleSign", "DoublePropose"}
    <2>1. v \in Registered
      BY <1>8 DEF SlashStaker
    <2>2. amount \in Nat
      BY <2>1, StakerSlashType
    <2>3. /\ stakers' = [stakers EXCEPT
                           ![v] = [after EXCEPT !.status = IF jails THEN "Jailed" ELSE @]]
          /\ set_stake' = Less(set_stake, amount)
          /\ active_count' = IF jails THEN Less(active_count, 1) ELSE active_count
          /\ drifted' \in BOOLEAN
      BY <1>8 DEF SlashStaker
    <2>. HIDE DEF amount, jails
    <2>4. after \in StakerRecords
      BY <1>d, <2>1, <2>2, StakerTypes, LessType
    <2>. HIDE DEF after
    <2>5. [after EXCEPT !.status = IF jails THEN "Jailed" ELSE @] \in StakerRecords
      BY <2>4 DEF StakerRecords, StakerStatus
    <2>6. stakers' \in [Stakers -> StakerRecords \cup {Absent}]
      BY <1>b, <2>3, <2>5
    <2>7. set_stake' \in Nat /\ active_count' \in Nat
      BY <1>e, <1>f, <2>1, <2>2, <2>3, LessType
    <2>. QED  BY <1>8, <1>a, <2>3, <2>6, <2>7 DEF SlashStaker, StakingTypeOK
  <1>9. ASSUME NEW d \in Delegators, NEW v \in Stakers, NEW amount \in StakeAmounts,
               DelegateTo(d, v, amount)
        PROVE  StakingTypeOK'
    <2>. DEFINE known == delegators[d] # Absent
                entry == [validator_id  |-> IF known THEN delegators[d].validator_id ELSE v,
                          staked_amount |-> amount + IF known THEN delegators[d].staked_amount
                                                              ELSE amount]
                fund == [first |-> IF known THEN funds[d].first ELSE amount,
                         deposited |-> funds[d].deposited + amount,
                         withdrawn |-> funds[d].withdrawn]
    <2>0. amount \in Nat
      OBVIOUS
    <2>1. v \in Registered
      BY <1>9 DEF DelegateTo, GetActiveStakers
    <2>2. entry \in DelegatorRecords
      BY <2>0, ActualAmountType DEF DelegatorRecords
    <2>3. fund \in [first : Nat, deposited : Nat, withdrawn : Nat]
      BY <2>0 DEF StakingTypeOK
    <2>4. /\ delegators' = [delegators EXCEPT ![d] = entry]
          /\ funds' = [funds EXCEPT ![d] = fund]
          /\ set_stake' = set_stake + amount
          /\ stakers' = [stakers EXCEPT ![v] =
               StakerWith(v, stakers[v].stake, stakers[v].delegated_stake + amount)]
      BY <1>9 DEF DelegateTo
    <2>. HIDE DEF entry, fund
    <2>5. stakers' \in [Stakers -> StakerRecords \cup {Absent}]
      <3>1. stakers[v].stake \in Nat /\ stakers[v].delegated_stake + amount \in Nat
        BY <2>0, <2>1, StakerTypes
      <3>. QED  BY <1>b, <1>d, <2>1, <2>4, <3>1
    <2>6. /\ delegators' \in [Delegators -> DelegatorRecords \cup {Absent}]
          /\ funds' \in [Delegators -> [first : Nat, deposited : Nat, withdrawn : Nat]]
      BY <2>2, <2>3, <2>4 DEF StakingTypeOK
    <2>7. set_stake' \in Nat
      BY <1>e, <2>0, <2>4
    <2>. QED  BY <1>9, <1>a, <2>5, <2>6, <2>7 DEF DelegateTo, StakingTypeOK
  <1>10. ASSUME NEW d \in Delegators, NEW amount \in StakeAmounts, Undelegate(d, amount)
         PROVE  StakingTypeOK'
    <2>. DEFINE v == delegators[d].validator_id
                actual == ActualAmount(d, amount)
                entry == [validator_id |-> v,
                          staked_amount |-> Less(delegators[d].staked_amount, actual)]
                fund == [first |-> funds[d].first, deposited |-> funds[d].deposited,
                         withdrawn |-> funds[d].withdrawn + actual]
    <2>1. delegators[d] # Absent /\ v \in Registered
      BY <1>10 DEF Undelegate
    <2>2. v \in Stakers /\ actual \in Nat /\ delegators[d].staked_amount \in Nat
      BY <2>1, ActualAmountType
    <2>3. entry \in DelegatorRecords
      BY <2>2, LessType DEF DelegatorRecords
    <2>4. fund \in [first : Nat, deposited : Nat, withdrawn : Nat]
      BY <2>2 DEF StakingTypeOK
    <2>5. /\ delegators' = [delegators EXCEPT ![d] = entry]
          /\ funds' = [funds EXCEPT ![d] = fund]
          /\ set_stake' = Less(set_stake, actual)
          /\ stakers' = [stakers EXCEPT ![v] =
               StakerWith(v, stakers[v].stake, Less(stakers[v].delegated_stake, actual))]
          /\ drifted' \in BOOLEAN
      BY <1>10 DEF Undelegate
    <2>. HIDE DEF entry, fund, v, actual
    <2>6. stakers' \in [Stakers -> StakerRecords \cup {Absent}]
      <3>1. stakers[v].stake \in Nat /\ Less(stakers[v].delegated_stake, actual) \in Nat
        BY <2>1, <2>2, StakerTypes, LessType
      <3>. QED  BY <1>b, <1>d, <2>1, <2>2, <2>5, <3>1
    <2>7. /\ delegators' \in [Delegators -> DelegatorRecords \cup {Absent}]
          /\ funds' \in [Delegators -> [first : Nat, deposited : Nat, withdrawn : Nat]]
      BY <2>3, <2>4, <2>5 DEF StakingTypeOK
    <2>8. set_stake' \in Nat
      BY <1>e, <2>2, <2>5, LessType
    <2>. QED  BY <1>10, <1>a, <2>5, <2>6, <2>7, <2>8 DEF Undelegate, StakingTypeOK
  <1>11. CASE UNCHANGED staking_vars
    BY <1>11 DEF staking_vars, StakingTypeOK
  <1>. QED
    BY <1>1, <1>2, <1>3, <1>4, <1>5, <1>6, <1>7, <1>8, <1>9, <1>10, <1>11 DEF StakingNext

\* No stake, claim or total of the set ever goes below zero.
THEOREM StakingTypes == StakingSpec => []StakingTypeOK
  <1>1. StakingInit => StakingTypeOK
    <2>. SUFFICES ASSUME StakingInit PROVE StakingTypeOK
      OBVIOUS
    <2>1. set_epoch \in 0 .. MaxStakingEpoch /\ staking_calls \in 0 .. MaxStakingCalls
      BY StakingAssumption DEF StakingInit
    <2>2. funds \in [Delegators -> [first : Nat, deposited : Nat, withdrawn : Nat]]
      BY DEF StakingInit
    <2>3. /\ stakers \in [Stakers -> StakerRecords \cup {Absent}]
          /\ delegators \in [Delegators -> DelegatorRecords \cup {Absent}]
      BY DEF StakingInit
    <2>. QED  BY <2>1, <2>2, <2>3 DEF StakingInit, StakingTypeOK
  <1>. QED  BY <1>1, StakingTypeStep, PTL DEF StakingSpec

-----------------------------------------------------------------------------
(* StakingSet: the delegators' claims *)

\* Beside the claim itself: no money is on record for a delegator without an
\* entry, so the first delegation starts from nothing.
ClaimsInv ==
    \A d \in Delegators :
        IF delegators[d] = Absent
        THEN funds[d] = [first |-> 0, deposited |-> 0, withdrawn |-> 0]
        ELSE funds[d].withdrawn + delegators[d].staked_amount
                = funds[d].deposited + funds[d].first

\* An operation on one delegator touches no other delegator's entry or money.
LEMMA ClaimsStep ==
    StakingTypeOK /\ ClaimsInv /\ [StakingNext]_staking_vars => ClaimsInv'
  <1>. SUFFICES ASSUME StakingTypeOK, ClaimsInv, [StakingNext]_staking_vars PROVE ClaimsInv'
    OBVIOUS
  <1>. USE StakingAssumption
  <1>1. ASSUME UNCHANGED <<delegators, funds>> PROVE ClaimsInv'
    BY <1>1 DEF ClaimsInv
  <1>2. ASSUME NEW d \in Delegators, NEW v \in Stakers, NEW amount \in StakeAmounts,
               DelegateTo(d, v, amount)
        PROVE  ClaimsInv'
    <2>. DEFINE entry == delegators'[d]
                fund == funds'[d]
    <2>0. amount \in Nat
      OBVIOUS
    <2>1. /\ \A e \in Delegators : e # d => delegators'[e] = delegators[e] /\ funds'[e] = funds[e]
          /\ entry = [validator_id  |-> IF delegators[d] # Absent
                                        THEN delegators[d].validator_id ELSE v,
                      staked_amount |-> amount + IF delegators[d] # Absent
                                                 THEN delegators[d].staked_amount ELSE amount]
          /\ fund = [first |-> IF delegators[d] # Absent THEN funds[d].first ELSE amount,
                     deposited |-> funds[d].deposited + amount,
                     withdrawn |-> funds[d].withdrawn]
      BY <1>2 DEF DelegateTo, StakingTypeOK
    <2>. HIDE DEF entry, fund
    <2>2. entry # Absent
      <3>1. entry \in DelegatorRecords
        BY <2>0, <2>1, ActualAmountType DEF DelegatorRecords
      <3>. QED  BY <3>1, AbsentAssumption
    <2>3. fund.withdrawn + entry.staked_amount = fund.deposited + fund.first
      <3>1. CASE delegators[d] = Absent
        BY <2>0, <2>1, <3>1 DEF ClaimsInv
      <3>2. CASE delegators[d] # Absent
        <4>1. /\ funds[d].withdrawn + delegators[d].staked_amount
                    = funds[d].deposited + funds[d].first
              /\ funds[d].withdrawn \in Nat /\ funds[d].deposited \in Nat /\ funds[d].first \in Nat
              /\ delegators[d].staked_amount \in Nat
          BY <3>2, ActualAmountType DEF ClaimsInv, StakingTypeOK
        <4>. QED  BY <2>0, <2>1, <3>2, <4>1
      <3>. QED  BY <3>1, <3>2
    <2>. QED  BY <2>1, <2>2, <2>3 DEF ClaimsInv, entry, fund
  <1>3. ASSUME NEW d \in Delegators, NEW amount \in StakeAmounts, Undelegate(d, amount)
        PROVE  ClaimsInv'
    <2>. DEFINE entry == delegators'[d]
                fund == funds'[d]
                actual == ActualAmount(d, amount)
    <2>0. delegators[d] # Absent
      BY <1>3 DEF Undelegate
    <2>1. /\ \A e \in Delegators : e # d => delegators'[e] = delegators[e] /\ funds'[e] = funds[e]
          /\ entry = [validator_id |-> delegators[d].validator_id,
                      staked_amount |-> Less(delegators[d].staked_amount, actual)]
          /\ fund = [first |-> funds[d].first, deposited |-> funds[d].deposited,
                     withdrawn |-> funds[d].withdrawn + actual]
      BY <1>3 DEF Undelegate, StakingTypeOK
    <2>2. /\ actual \in Nat /\ delegators[d].staked_amount \in Nat
          /\ actual <= delegators[d].staked_amount
          /\ delegators[d].validator_id \in Stakers
      BY <2>0, ActualAmountType
    <2>3. funds[d].withdrawn + delegators[d].staked_amount = funds[d].deposited + funds[d].first
      BY <2>0 DEF ClaimsInv
    <2>4. funds[d].withdrawn \in Nat /\ funds[d].deposited \in Nat /\ funds[d].first \in Nat
      BY DEF StakingTypeOK
    <2>. HIDE DEF entry, fund, actual
    <2>5. entry # Absent
      <3>1. entry \in DelegatorRecords
        BY <2>1, <2>2, LessType DEF DelegatorRecords
      <3>. QED  BY <3>1, AbsentAssumption
    <2>6. fund.withdrawn + entry.staked_amount = fund.deposited + fund.first
      BY <2>1, <2>2, <2>3, <2>4 DEF Less
    <2>. QED  BY <2>1, <2>5, <2>6 DEF ClaimsInv, entry, fund
  <1>4. CASE UNCHANGED staking_vars
    BY <1>1, <1>4 DEF staking_vars
  <1>5. ASSUME NEW v \in Stakers,
               \/ ActivateStaker(v) \/ RemoveStaker(v) \/ StartStakerUnbonding(v)
               \/ CompleteStakerUnbonding(v) \/ JailStaker(v) \/ UnjailStaker(v)
        PROVE  ClaimsInv'
    BY <1>1, <1>5 DEF ActivateStaker, RemoveStaker, StartStakerUnbonding,
          CompleteStakerUnbonding, JailStaker, UnjailStaker, staking_history
  <1>6. ASSUME NEW v \in Stakers, NEW stake \in OwnStakes, AddStaker(v, stake)
        PROVE  ClaimsInv'
    BY <1>1, <1>6 DEF AddStaker, staking_history
  <1>7. ASSUME NEW epoch \in 0 .. MaxStakingEpoch, AdvanceStakingEpoch(epoch)
        PROVE  ClaimsInv'
    BY <1>1, <1>7 DEF AdvanceStakingEpoch, staking_history
  <1>8. ASSUME NEW v \in Stakers, NEW kind \in SlashKinds,
               NEW percentage \in SlashPercentages, SlashStaker(v, kind, percentage)
        PROVE  ClaimsInv'
    BY <1>1, <1>8 DEF SlashStaker
  <1>. QED
    BY <1>2, <1>3, <1>4, <1>5, <1>6, <1>7, <1>8 DEF StakingNext

\* No order of delegations, slashes, removals and undelegations lets a
\* delegator draw more than it put in and its first delegation once more.
THEOREM ClaimsHold == StakingSpec => []DelegatorClaims
  <1>1. StakingInit => ClaimsInv
    BY DEF StakingInit, ClaimsInv
  <1>2. ClaimsInv => DelegatorClaims
    BY DEF ClaimsInv, DelegatorClaims
  <1>. QED  BY <1>1, <1>2, StakingTypes, ClaimsStep, PTL DEF StakingSpec

-----------------------------------------------------------------------------
(* StakingSet: the total *)

\* What a validator contributes to the stake bonded in the set.
Bonded(v) ==
    IF v \in Registered /\ stakers[v].status # "Removed" THEN StakeOf(v) ELSE 0

LEMMA BondedNat ==
    StakingTypeOK => \A v \in Stakers : Bonded(v) \in Nat
  BY StakerTypes DEF Bonded

\* The bonded stake as a sum over all ids, whose range no step changes.
LEMMA BondedSum ==
    StakingTypeOK =>
        BondedStake = SumFunctionOnSet([v \in Stakers |-> Bonded(v)], Stakers)
  <1>. SUFFICES ASSUME StakingTypeOK
                PROVE  BondedStake = SumFunctionOnSet([v \in Stakers |-> Bonded(v)], Stakers)
    OBVIOUS
  <1>. DEFINE f == [v \in Registered |-> StakeOf(v)]
              g == [v \in Stakers |-> Bonded(v)]
              T == {v \in Registered : stakers[v].status # "Removed"}
  <1>1. T \subseteq Stakers /\ T \subseteq Registered /\ IsFiniteSet(Stakers)
    BY StakingAssumption DEF Registered
  <1>2. IsFiniteSet(T)
    BY <1>1, FS_Subset
  <1>3. \A v \in T : f[v] = g[v]
    BY <1>1 DEF Bonded
  <1>4. \A v \in T : g[v] \in Int
    BY <1>1, BondedNat
  <1>5. \A v \in Stakers \ T : g[v] = 0
    BY DEF Bonded
  <1>6. BondedStake = SumFunctionOnSet(f, T)
    BY DEF BondedStake
  <1>. HIDE DEF f, g, T
  <1>7. SumFunctionOnSet(f, T) = SumFunctionOnSet(g, T)
    BY <1>2, <1>3, SumAgree
  <1>8. SumFunctionOnSet(g, Stakers) = SumFunctionOnSet(g, T)
    BY <1>1, <1>4, <1>5, SumSupport
  <1>. QED  BY <1>6, <1>7, <1>8 DEF g

\* Both facts of the next state.
LEMMA BondedNext ==
    StakingTypeOK' =>
        /\ BondedStake' = SumFunctionOnSet([v \in Stakers |-> Bonded(v)'], Stakers)
        /\ \A v \in Stakers : Bonded(v)' \in Nat
  <1>1. (StakingTypeOK =>
           BondedStake = SumFunctionOnSet([v \in Stakers |-> Bonded(v)], Stakers))'
    BY BondedSum, PTL
  <1>2. (StakingTypeOK => \A v \in Stakers : Bonded(v) \in Nat)'
    BY BondedNat, PTL
  <1>. QED  BY <1>1, <1>2

\* An operation on validator v keeps the total covered when it moves the
\* total with what v has bonded, whatever the others have.
LEMMA CoveredStep ==
    ASSUME StakingTypeOK, StakingTypeOK', SetStakeCovered, NEW v \in Stakers,
           \A x \in Stakers : x # v => stakers'[x] = stakers[x],
           \A B \in Nat : B >= Bonded(v) /\ set_stake <= B /\ (~drifted => set_stake = B) =>
               /\ set_stake' <= B - Bonded(v) + Bonded(v)'
               /\ ~drifted' => set_stake' = B - Bonded(v) + Bonded(v)'
    PROVE  SetStakeCovered'
  <1>. DEFINE f == [x \in Stakers |-> Bonded(x)]
              g == [x \in Stakers |-> Bonded(x)']
              B == SumFunctionOnSet(f, Stakers)
  <1>1. BondedStake = B
    BY BondedSum
  <1>2. BondedStake' = SumFunctionOnSet(g, Stakers)
    BY BondedNext
  <1>3. \A x \in Stakers : f[x] \in Nat /\ g[x] \in Nat
    BY BondedNat, BondedNext
  <1>4. \A x \in Stakers : x # v => g[x] = f[x]
    BY DEF Bonded, Registered, StakeOf
  <1>5. f[v] = Bonded(v) /\ g[v] = Bonded(v)'
    OBVIOUS
  <1>6. IsFiniteSet(Stakers)
    BY StakingAssumption
  <1>. HIDE DEF f, g
  <1>7. SumFunctionOnSet(g, Stakers) = B - f[v] + g[v]
    BY <1>3, <1>4, <1>6, SumChange
  <1>8. f[v] <= B /\ B \in Nat
    BY <1>3, <1>6, SumCovers, SumNat
  <1>. HIDE DEF B
  <1>9. set_stake <= B /\ (~drifted => set_stake = B)
    BY <1>1 DEF SetStakeCovered
  <1>10. BondedStake' = B - Bonded(v) + Bonded(v)'
    BY <1>2, <1>5, <1>7
  <1>11. B >= Bonded(v)
    BY <1>3, <1>5, <1>8
  <1>. QED  BY <1>8, <1>9, <1>10, <1>11 DEF SetStakeCovered

\* A change of v's entry, and what v has bonded after it.
LEMMA BondedAfter ==
    ASSUME StakingTypeOK, NEW v \in Stakers, NEW rec \in StakerRecords,
           stakers' = [stakers EXCEPT ![v] = rec]
    PROVE  /\ \A x \in Stakers : x # v => stakers'[x] = stakers[x]
           /\ rec.stake \in Nat /\ rec.delegated_stake \in Nat
           /\ Bonded(v)' = IF rec.status # "Removed"
                           THEN rec.stake + rec.delegated_stake ELSE 0
  <1>1. stakers'[v] = rec /\ rec # Absent
    BY AbsentAssumption DEF StakingTypeOK
  <1>2. v \in Registered'
    BY <1>1 DEF Registered
  <1>3. rec.stake \in Nat /\ rec.delegated_stake \in Nat
    BY DEF StakerRecords
  <1>. QED  BY <1>1, <1>2, <1>3 DEF StakingTypeOK, Bonded, StakeOf

\* No operation leaves the total above the stake that is bonded.
LEMMA SetStakeStep ==
    StakingTypeOK /\ StakingTypeOK' /\ SetStakeCovered /\ [StakingNext]_staking_vars
        => SetStakeCovered'
  <1>. SUFFICES ASSUME StakingTypeOK, StakingTypeOK', SetStakeCovered,
                       [StakingNext]_staking_vars
                PROVE  SetStakeCovered'
    OBVIOUS
  <1>. USE StakingAssumption
  <1>a. set_stake \in Nat /\ drifted \in BOOLEAN /\ drifted' \in BOOLEAN
    BY DEF StakingTypeOK
  <1>b. ASSUME UNCHANGED <<stakers, set_stake, drifted>> PROVE SetStakeCovered'
    BY <1>b DEF SetStakeCovered, BondedStake, Registered, StakeOf
  <1>c. ASSUME NEW v \in Registered, NEW status \in StakerStatus
        PROVE  /\ StakerIn(v, status) \in StakerRecords /\ StakerIn(v, status).status = status
               /\ StakerIn(v, status).stake = stakers[v].stake
               /\ StakerIn(v, status).delegated_stake = stakers[v].delegated_stake
    BY StakerTypes DEF StakerIn, StakerRecords
  <1>d. ASSUME NEW v \in Registered, NEW s \in Nat, NEW d \in Nat
        PROVE  /\ StakerWith(v, s, d) \in StakerRecords
               /\ StakerWith(v, s, d).status = stakers[v].status
               /\ StakerWith(v, s, d).stake = s /\ StakerWith(v, s, d).delegated_stake = d
    BY StakerTypes DEF StakerWith, StakerRecords
  <1>e. ASSUME NEW v \in Registered
        PROVE  /\ v \in Stakers /\ stakers[v].stake \in Nat /\ stakers[v].delegated_stake \in Nat
               /\ StakeOf(v) = stakers[v].stake + stakers[v].delegated_stake
               /\ Bonded(v) = IF stakers[v].status # "Removed" THEN StakeOf(v) ELSE 0
    BY StakerTypes DEF Bonded, StakeOf
  <1>1. ASSUME NEW v \in Stakers, NEW stake \in OwnStakes, AddStaker(v, stake)
        PROVE  SetStakeCovered'
    <2>. DEFINE rec == [stake |-> stake, delegated_stake |-> 0, status |-> "Pending"]
    <2>1. rec \in StakerRecords /\ stake \in Nat
      BY DEF StakerRecords, StakerStatus
    <2>2. stakers' = [stakers EXCEPT ![v] = rec] /\ set_stake' = set_stake + stake
          /\ drifted' = drifted
      BY <1>1 DEF AddStaker, staking_history
    <2>3. Bonded(v) = 0
      BY <1>1 DEF AddStaker, Bonded
    <2>4. Bonded(v)' = stake /\ \A x \in Stakers : x # v => stakers'[x] = stakers[x]
      <3>1. rec.status # "Removed" /\ rec.stake + rec.delegated_stake = stake
        BY <2>1
      <3>. HIDE DEF rec
      <3>. QED  BY <2>1, <2>2, <3>1, BondedAfter
    <2>. QED  BY <1>a, <2>1, <2>2, <2>3, <2>4, CoveredStep
  <1>2. ASSUME NEW v \in Stakers,
               ActivateStaker(v) \/ StartStakerUnbonding(v) \/ UnjailStaker(v)
        PROVE  SetStakeCovered'
    <2>1. PICK status \in {"Active", "Unbonding"} :
             /\ v \in Registered /\ stakers[v].status # "Removed"
             /\ stakers' = [stakers EXCEPT ![v] = StakerIn(v, status)]
             /\ set_stake' = set_stake /\ drifted' = drifted
      BY <1>2 DEF ActivateStaker, StartStakerUnbonding, UnjailStaker, GetActiveStakers,
                  staking_history
    <2>2. /\ StakerIn(v, status) \in StakerRecords /\ StakerIn(v, status).status # "Removed"
          /\ StakerIn(v, status).stake + StakerIn(v, status).delegated_stake = StakeOf(v)
      BY <1>c, <1>e, <2>1 DEF StakerStatus
    <2>3. Bonded(v)' = StakeOf(v) /\ \A x \in Stakers : x # v => stakers'[x] = stakers[x]
      BY <2>1, <2>2, BondedAfter
    <2>4. Bonded(v) = StakeOf(v) /\ StakeOf(v) \in Nat
      BY <1>e, <2>1
    <2>. QED  BY <1>a, <2>1, <2>3, <2>4, CoveredStep
  <1>3. ASSUME NEW v \in Stakers, RemoveStaker(v) PROVE SetStakeCovered'
    <2>1. /\ v \in Registered /\ stakers' = [stakers EXCEPT ![v] = Absent]
          /\ set_stake' = Less(set_stake, StakeOf(v))
          /\ ~drifted' => ~drifted /\ stakers[v].status # "Removed"
      BY <1>3 DEF RemoveStaker, StakeWithout
    <2>2. Bonded(v)' = 0 /\ \A x \in Stakers : x # v => stakers'[x] = stakers[x]
      BY <2>1 DEF StakingTypeOK, Bonded, Registered
    <2>3. /\ StakeOf(v) \in Nat
          /\ Bonded(v) = IF stakers[v].status # "Removed" THEN StakeOf(v) ELSE 0
      BY <1>e, <2>1
    <2>4. ASSUME NEW B \in Nat, B >= Bonded(v), set_stake <= B, ~drifted => set_stake = B
          PROVE  /\ set_stake' <= B - Bonded(v) + 0
                 /\ ~drifted' => set_stake' = B - Bonded(v) + 0
      BY <1>a, <2>1, <2>3, <2>4 DEF Less
    <2>. QED  BY <2>2, <2>4, CoveredStep
  <1>4. ASSUME NEW v \in Stakers, CompleteStakerUnbonding(v) PROVE SetStakeCovered'
    <2>1. /\ v \in Registered /\ stakers' = [stakers EXCEPT ![v] = StakerIn(v, "Removed")]
          /\ set_stake' = Less(set_stake, StakeOf(v))
          /\ drifted' = drifted /\ stakers[v].status = "Unbonding"
      BY <1>4 DEF CompleteStakerUnbonding, StakeWithout, staking_history
    <2>2. StakerIn(v, "Removed") \in StakerRecords /\ StakerIn(v, "Removed").status = "Removed"
      BY <1>c, <2>1 DEF StakerStatus
    <2>3. Bonded(v)' = 0 /\ \A x \in Stakers : x # v => stakers'[x] = stakers[x]
      BY <2>1, <2>2, BondedAfter
    <2>4. StakeOf(v) \in Nat /\ Bonded(v) = StakeOf(v)
      BY <1>e, <2>1
    <2>5. ASSUME NEW B \in Nat, B >= Bonded(v), set_stake <= B, ~drifted => set_stake = B
          PROVE  /\ set_stake' <= B - Bonded(v) + 0
                 /\ ~drifted' => set_stake' = B - Bonded(v) + 0
      BY <1>a, <2>1, <2>4, <2>5 DEF Less
    <2>. QED  BY <2>3, <2>5, CoveredStep
  <1>5. ASSUME NEW v \in Stakers, JailStaker(v) PROVE SetStakeCovered'
    <2>1. /\ v \in Registered /\ stakers' = [stakers EXCEPT ![v] = StakerIn(v, "Jailed")]
          /\ set_stake' = set_stake
          /\ ~drifted' => ~drifted /\ stakers[v].status # "Removed"
      BY <1>5 DEF JailStaker
    <2>2. /\ StakerIn(v, "Jailed") \in StakerRecords /\ StakerIn(v, "Jailed").status # "Removed"
          /\ StakerIn(v, "Jailed").stake + StakerIn(v, "Jailed").delegated_stake = StakeOf(v)
      BY <1>c, <1>e, <2>1 DEF StakerStatus
    <2>3. Bonded(v)' = StakeOf(v) /\ \A x \in Stakers : x # v => stakers'[x] = stakers[x]
      BY <2>1, <2>2, BondedAfter
    <2>4. /\ StakeOf(v) \in Nat
          /\ Bonded(v) = IF stakers[v].status # "Removed" THEN StakeOf(v) ELSE 0
      BY <1>e, <2>1
    <2>5. ASSUME NEW B \in Nat, B >= Bonded(v), set_stake <= B, ~drifted => set_stake = B
          PROVE  /\ set_stake' <= B - Bonded(v) + StakeOf(v)
                 /\ ~drifted' => set_stake' = B - Bonded(v) + StakeOf(v)
      BY <1>a, <2>1, <2>4, <2>5
    <2>. QED  BY <2>3, <2>5, CoveredStep
  <1>6. ASSUME NEW v \in Stakers, NEW kind \in SlashKinds,
               NEW percentage \in SlashPercentages, SlashStaker(v, kind, percentage)
        PROVE  SetStakeCovered'
    <2>. DEFINE amount == StakerSlash(v, percentage)
                after == StakerWith(v, Less(stakers[v].stake, amount), stakers[v].delegated_stake)
                jails == kind \in {"DoubleSign", "DoublePropose"}
                rec == [after EXCEPT !.status = IF jails THEN "Jailed" ELSE @]
    <2>1. /\ v \in Registered /\ stakers' = [stakers EXCEPT ![v] = rec]
          /\ set_stake' = Less(set_stake, amount)
          /\ ~drifted' => /\ ~drifted /\ stakers[v].status # "Removed"
                          /\ ~(amount > stakers[v].stake)
      BY <1>6 DEF SlashStaker
    <2>2. amount \in Nat
      BY <2>1, StakerSlashType
    <2>. HIDE DEF amount, jails
    <2>3. /\ after \in StakerRecords /\ after.status = stakers[v].status
          /\ after.stake = Less(stakers[v].stake, amount)
          /\ after.delegated_stake = stakers[v].delegated_stake
      BY <1>d, <1>e, <2>1, <2>2, LessType
    <2>. HIDE DEF after
    <2>4. /\ rec \in StakerRecords
          /\ rec.stake = Less(stakers[v].stake, amount)
          /\ rec.delegated_stake = stakers[v].delegated_stake
          /\ rec.status = "Removed" => stakers[v].status = "Removed"
      BY <2>3 DEF StakerRecords, StakerStatus
    <2>. HIDE DEF rec
    <2>. DEFINE b == IF rec.status # "Removed" THEN rec.stake + rec.delegated_stake ELSE 0
    <2>5. Bonded(v)' = b /\ \A x \in Stakers : x # v => stakers'[x] = stakers[x]
      BY <2>1, <2>4, BondedAfter
    <2>6. /\ stakers[v].stake \in Nat /\ stakers[v].delegated_stake \in Nat
          /\ Bonded(v) = IF stakers[v].status # "Removed"
                         THEN stakers[v].stake + stakers[v].delegated_stake ELSE 0
      BY <1>e, <2>1
    <2>7. ASSUME NEW B \in Nat, B >= Bonded(v), set_stake <= B, ~drifted => set_stake = B
          PROVE  /\ set_stake' <= B - Bonded(v) + b
                 /\ ~drifted' => set_stake' = B - Bonded(v) + b
      BY <1>a, <2>1, <2>2, <2>4, <2>6, <2>7 DEF Less
    <2>. QED  BY <2>5, <2>7, CoveredStep
  <1>7. ASSUME NEW d \in Delegators, NEW v \in Stakers, NEW amount \in StakeAmounts,
               DelegateTo(d, v, amount)
        PROVE  SetStakeCovered'
    <2>. DEFINE rec == StakerWith(v, stakers[v].stake, stakers[v].delegated_stake + amount)
    <2>1. /\ v \in Registered /\ stakers' = [stakers EXCEPT ![v] = rec]
          /\ stakers[v].status = "Active"
          /\ set_stake' = set_stake + amount /\ drifted' = drifted
      BY <1>7 DEF DelegateTo, GetActiveStakers
    <2>2. /\ stakers[v].stake \in Nat /\ stakers[v].delegated_stake \in Nat /\ amount \in Nat
          /\ Bonded(v) = stakers[v].stake + stakers[v].delegated_stake
      BY <1>e, <2>1
    <2>3. /\ rec \in StakerRecords /\ rec.status # "Removed" /\ rec.stake = stakers[v].stake
          /\ rec.delegated_stake = stakers[v].delegated_stake + amount
      BY <1>d, <2>1, <2>2
    <2>. HIDE DEF rec
    <2>4. /\ Bonded(v)' = rec.stake + rec.delegated_stake
          /\ \A x \in Stakers : x # v => stakers'[x] = stakers[x]
      BY <2>1, <2>3, BondedAfter
    <2>5. Bonded(v)' = Bonded(v) + amount
      BY <2>2, <2>3, <2>4
    <2>. QED  BY <1>a, <2>1, <2>2, <2>4, <2>5, CoveredStep
  <1>8. ASSUME NEW d \in Delegators, NEW amount \in StakeAmounts, Undelegate(d, amount)
        PROVE  SetStakeCovered'
    <2>. DEFINE v == delegators[d].validator_id
                actual == ActualAmount(d, amount)
                rec == StakerWith(v, stakers[v].stake, Less(stakers[v].delegated_stake, actual))
    <2>1. /\ v \in Registered /\ stakers' = [stakers EXCEPT ![v] = rec]
          /\ set_stake' = Less(set_stake, actual)
          /\ ~drifted' => /\ ~drifted /\ stakers[v].status # "Removed"
                          /\ ~(actual > stakers[v].delegated_stake)
      BY <1>8 DEF Undelegate
    <2>2. actual \in Nat
      BY <1>8, ActualAmountType DEF Undelegate
    <2>. HIDE DEF v, actual
    <2>3. /\ v \in Stakers /\ stakers[v].stake \in Nat /\ stakers[v].delegated_stake \in Nat
          /\ Bonded(v) = IF stakers[v].status # "Removed"
                         THEN stakers[v].stake + stakers[v].delegated_stake ELSE 0
      BY <1>e, <2>1
    <2>4. /\ rec \in StakerRecords /\ rec.status = stakers[v].status
          /\ rec.stake = stakers[v].stake
          /\ rec.delegated_stake = Less(stakers[v].delegated_stake, actual)
      <3>1. Less(stakers[v].delegated_stake, actual) \in Nat
        BY <2>2, <2>3, LessType
      <3>. QED  BY <1>d, <2>1, <2>3, <3>1
    <2>. HIDE DEF rec
    <2>. DEFINE b == IF rec.status # "Removed" THEN rec.stake + rec.delegated_stake ELSE 0
    <2>. QED
      <3>. SUFFICES ASSUME NEW w \in Stakers, w = v PROVE SetStakeCovered'
        BY <2>3
      <3>5. Bonded(w)' = b /\ \A x \in Stakers : x # w => stakers'[x] = stakers[x]
        BY <2>1, <2>4, BondedAfter
      <3>7. ASSUME NEW B \in Nat, B >= Bonded(w), set_stake <= B, ~drifted => set_stake = B
            PROVE  /\ set_stake' <= B - Bonded(w) + b
                   /\ ~drifted' => set_stake' = B - Bonded(w) + b
        BY <1>a, <2>1, <2>2, <2>3, <2>4, <3>7 DEF Less
      <3>. QED  BY <3>5, <3>7, CoveredStep
  <1>9. ASSUME NEW epoch \in 0 .. MaxStakingEpoch, AdvanceStakingEpoch(epoch)
        PROVE  SetStakeCovered'
    BY <1>9, <1>b DEF AdvanceStakingEpoch, staking_history
  <1>10. CASE UNCHANGED staking_vars
    BY <1>10, <1>b DEF staking_vars
  <1>. QED
    BY <1>1, <1>2, <1>3, <1>4, <1>5, <1>6, <1>7, <1>8, <1>9, <1>10 DEF StakingNext

\* The total from which the quorum threshold is computed never exceeds the
\* stake that is bonded, and is exact until an operation charges a validator
\* that was paid out or draws more than it holds.
THEOREM SetStakeIsCovered == StakingSpec => []SetStakeCovered
  <1>1. StakingInit => SetStakeCovered
    <2>. SUFFICES ASSUME StakingInit PROVE SetStakeCovered
      OBVIOUS
    <2>1. Registered = {}
      BY DEF StakingInit, Registered
    <2>2. BondedStake = 0
      <3>1. {v \in Registered : stakers[v].status # "Removed"} = {}
        BY <2>1
      <3>. QED  BY <3>1, SumEmpty DEF BondedStake
    <2>. QED  BY <2>2 DEF StakingInit, SetStakeCovered
  <1>. QED  BY <1>1, StakingTypes, SetStakeStep, PTL DEF StakingSpec

-----------------------------------------------------------------------------
(* CrossPartition *)

\* Every operation keeps the types.
THEOREM CrossPartitionTypes == CrossPartitionSpec => []CrossPartitionTypeOK
  <1>. USE CrossPartitionAssumption DEF CrossPartitionTypeOK
  <1>1. CrossPartitionInit => CrossPartitionTypeOK
    BY DEF CrossPartitionInit, PartitionRoots
  <1>2. CrossPartitionTypeOK /\ [CrossPartitionNext]_bridge_vars => CrossPartitionTypeOK'
    <2>. SUFFICES ASSUME CrossPartitionTypeOK, [CrossPartitionNext]_bridge_vars
                  PROVE  CrossPartitionTypeOK'
      OBVIOUS
    <2>1. ASSUME NEW p \in Partitions, AddPartition(p) \/ RemovePartition(p)
          PROVE  CrossPartitionTypeOK'
      BY <2>1 DEF AddPartition, RemovePartition, RootCall, ZeroRoot, PartitionRoots
    <2>2. ASSUME NEW p \in Partitions, NEW root \in PartitionRoots,
                 UpdatePartitionRoot(p, root)
          PROVE  CrossPartitionTypeOK'
      BY <2>2 DEF UpdatePartitionRoot, RootCall
    <2>3. ASSUME NEW msg \in Messages, NEW proof \in Proofs, ProcessMessage(msg, proof)
          PROVE  CrossPartitionTypeOK'
      <3>1. msg.message_id \in MessageIds
        BY DEF Messages
      <3>. QED  BY <2>3, <3>1 DEF ProcessMessage
    <2>4. ASSUME NEW height \in SourceHeights, PruneMessages(height)
          PROVE  CrossPartitionTypeOK'
      BY <2>4 DEF PruneMessages
    <2>5. ASSUME NEW commit \in Commits, CommitArtifact(commit) PROVE CrossPartitionTypeOK'
      <3>1. /\ <<commit.job, commit.operator>> \in ReceiptKeys
            /\ commit.output \in Outputs /\ commit.nonce \in Nonces
        BY DEF Commits, ReceiptKeys
      <3>. QED  BY <2>5, <3>1 DEF CommitArtifact
    <2>6. CASE UNCHANGED bridge_vars
      BY <2>6 DEF bridge_vars
    <2>. QED  BY <2>1, <2>2, <2>3, <2>4, <2>5, <2>6 DEF CrossPartitionNext
  <1>. QED  BY <1>1, <1>2, PTL DEF CrossPartitionSpec

\* What took effect did so once, under an id that is in the registry since and
\* has let nothing else through: pruning lowers the floor but forgets nothing.
Registry ==
    \A m \in Messages : accepted[m] > 0 =>
        /\ m.message_id \in consumed
        /\ accepted[m] = 1
        /\ \A n \in Messages : n.message_id = m.message_id /\ accepted[n] > 0 => n = m

\* An id lets one message through once, whatever messages come under it and
\* whatever heights prune is given.
THEOREM MessagesOnce == CrossPartitionSpec => []ConsumedOnce
  <1>1. CrossPartitionInit => Registry
    BY DEF CrossPartitionInit, Registry
  <1>2. CrossPartitionTypeOK /\ Registry /\ [CrossPartitionNext]_bridge_vars => Registry'
    <2>. SUFFICES ASSUME CrossPartitionTypeOK, Registry, [CrossPartitionNext]_bridge_vars
                  PROVE  Registry'
      OBVIOUS
    <2>1. ASSUME UNCHANGED <<consumed, accepted>> PROVE Registry'
      BY <2>1 DEF Registry
    <2>2. ASSUME NEW msg \in Messages, NEW proof \in Proofs, ProcessMessage(msg, proof)
          PROVE  Registry'
      <3>1. /\ msg.message_id \notin consumed
            /\ consumed' = consumed \cup {msg.message_id}
            /\ accepted' = [accepted EXCEPT ![msg] = @ + 1]
        BY <2>2 DEF ProcessMessage
      <3>2. \A m \in Messages : accepted[m] \in Nat
        BY CrossPartitionAssumption DEF CrossPartitionTypeOK
      <3>3. \A m \in Messages : m.message_id = msg.message_id => accepted[m] = 0
        BY <3>1, <3>2 DEF Registry
      <3>4. /\ accepted'[msg] = 1
            /\ \A m \in Messages \ {msg} : accepted'[m] = accepted[m]
        BY <3>1, <3>3 DEF CrossPartitionTypeOK
      <3>5. ASSUME NEW m \in Messages, accepted'[m] > 0
            PROVE  /\ m.message_id \in consumed'
                   /\ accepted'[m] = 1
                   /\ \A n \in Messages :
                        n.message_id = m.message_id /\ accepted'[n] > 0 => n = m
        <4>1. CASE m = msg
          BY <4>1, <3>1, <3>3, <3>4
        <4>2. CASE m # msg
          <5>1. accepted[m] > 0 /\ m.message_id # msg.message_id
            BY <4>2, <3>3, <3>4, <3>5
          <5>. QED  BY <5>1, <3>1, <3>4, <4>2 DEF Registry
        <4>. QED  BY <4>1, <4>2
      <3>. QED  BY <3>5 DEF Registry
    <2>3. CASE \/ \E p \in Partitions :
                    \/ AddPartition(p) \/ RemovePartition(p)
                    \/ \E root \in PartitionRoots : UpdatePartitionRoot(p, root)
               \/ \E height \in SourceHeights : PruneMessages(height)
               \/ \E commit \in Commits : CommitArtifact(commit)
               \/ UNCHANGED bridge_vars
      BY <2>1, <2>3 DEF AddPartition, RemovePartition, UpdatePartitionRoot, PruneMessages,
            CommitArtifact, bridge_vars
    <2>. QED  BY <2>2, <2>3 DEF CrossPartitionNext
  <1>3. Registry => ConsumedOnce
    BY DEF Registry, ConsumedOnce
  <1>. QED  BY <1>1, <1>2, <1>3, CrossPartitionTypes, PTL DEF CrossPartitionSpec

-----------------------------------------------------------------------------
(* Rpc *)

\* What the tasks have behind them, and their types.
TaskInv ==
    /\ RpcTypeOK
    /\ \A t \in Tasks :
         /\ task[t].op = "indexed" =>
              \A tx \in task[t].arg : <<"hash", tx>> \in transactions
         /\ task[t].op = "pushed" =>
              \E tx \in Txs : /\ task[t].arg = {tx} /\ mempool[tx] > 0
                              /\ <<"hash", tx>> \in transactions

\* A section leaves everything it does not lock, and what it locks only grows.
LEMMA RpcGrows ==
    ASSUME RpcTypeOK, NEW t \in Tasks,
           \/ AcceptConnection(t) \/ EndConnection(t) \/ TaskStep(t)
           \/ \E tx \in Txs : SubmitIndex(t, tx) \/ AddPush(t, tx)
           \/ \E height \in BlockHeights, block \in Blocks : StoreInsert(t, height, block)
    PROVE  /\ transactions \subseteq transactions'
           /\ \A tx \in Txs : mempool'[tx] \in Nat /\ mempool'[tx] >= mempool[tx]
           /\ \E op \in Ops, arg \in SUBSET Txs : Goto(t, op, arg)
           /\ answered' = answered \/ Respond(t)
  <1>. USE DEF Ops, RpcTypeOK, Blocks
  <1>1. CASE AcceptConnection(t) \/ EndConnection(t)
    BY <1>1 DEF AcceptConnection, EndConnection
  <1>2. CASE SubmitPush(t)
    <2>1. PICK tx \in task[t].arg : /\ mempool' = [mempool EXCEPT ![tx] = @ + 1]
                                    /\ Goto(t, "pushed", {tx})
      BY <1>2 DEF SubmitPush
    <2>2. tx \in Txs
      OBVIOUS
    <2>3. transactions' = transactions /\ answered' = answered
      BY <1>2 DEF SubmitPush
    <2>. QED  BY <2>1, <2>2, <2>3
  <1>3. CASE Respond(t) \/ RespondFails(t)
    BY <1>3 DEF Respond, RespondFails
  <1>4. CASE AddIndex(t) \/ StoreIndex(t)
    BY <1>4 DEF AddIndex, StoreIndex
  <1>5. CASE \E tx \in Txs : SubmitIndex(t, tx) \/ AddPush(t, tx)
    <2>1. PICK tx \in Txs : SubmitIndex(t, tx) \/ AddPush(t, tx)
      BY <1>5
    <2>2. /\ transactions \subseteq transactions' /\ answered' = answered
          /\ \A x \in Txs : mempool'[x] \in Nat /\ mempool'[x] >= mempool[x]
          /\ Goto(t, "indexed", {tx}) \/ Goto(t, "add", {tx})
      BY <2>1 DEF SubmitIndex, AddPush, Push
    <2>. QED  BY <2>2
  <1>6. CASE \E height \in BlockHeights, block \in Blocks : StoreInsert(t, height, block)
    BY <1>6 DEF StoreInsert
  <1>. QED  BY <1>1, <1>2, <1>3, <1>4, <1>5, <1>6 DEF TaskStep

\* Every section keeps the types and what the tasks rely on.
LEMMA TaskInvStep == TaskInv /\ [RpcNext]_rpc_vars => TaskInv'
  <1>. SUFFICES ASSUME TaskInv, [RpcNext]_rpc_vars PROVE TaskInv'
    OBVIOUS
  <1>1. CASE UNCHANGED rpc_vars
    BY <1>1 DEF rpc_vars, TaskInv, RpcTypeOK
  <1>2. CASE RpcNext
    <2>1. PICK t \in Tasks :
             \/ AcceptConnection(t) \/ EndConnection(t) \/ TaskStep(t)
             \/ \E tx \in Txs : SubmitIndex(t, tx) \/ AddPush(t, tx)
             \/ \E height \in BlockHeights, block \in Blocks : StoreInsert(t, height, block)
      BY <1>2 DEF RpcNext
    <2>2. RpcTypeOK
      BY DEF TaskInv
    <2>3. /\ transactions \subseteq transactions'
          /\ \A tx \in Txs : mempool'[tx] \in Nat /\ mempool'[tx] >= mempool[tx]
          /\ \E op \in Ops, arg \in SUBSET Txs : Goto(t, op, arg)
      BY <2>1, <2>2, RpcGrows
    <2>4. RpcTypeOK'
      <3>1. task' \in [Tasks -> [op : Ops, arg : SUBSET Txs]]
        BY <2>2, <2>3 DEF Goto, RpcTypeOK
      <3>2. mempool' \in [Txs -> Nat]
        <4>1. CASE SubmitPush(t)
          <5>1. PICK tx \in task[t].arg : mempool' = [mempool EXCEPT ![tx] = @ + 1]
            BY <4>1 DEF SubmitPush
          <5>. QED  BY <2>2, <5>1 DEF RpcTypeOK
        <4>2. CASE \E tx \in Txs : AddPush(t, tx)
          BY <2>2, <4>2 DEF AddPush, Push, RpcTypeOK
        <4>3. CASE mempool' = mempool
          BY <2>2, <4>3 DEF RpcTypeOK
        <4>. QED
          BY <2>1, <4>1, <4>2, <4>3 DEF AcceptConnection, EndConnection, TaskStep, Respond,
                RespondFails, AddIndex, StoreIndex, SubmitIndex, StoreInsert
      <3>3. /\ transactions' \subseteq Keys /\ answered' \subseteq Txs
            /\ blocks' \in [BlockHeights -> Blocks]
        <4>. USE <2>2 DEF Keys, Blocks, RpcTypeOK
        <4>1. CASE AcceptConnection(t) \/ EndConnection(t)
          BY <4>1 DEF AcceptConnection, EndConnection
        <4>2. CASE TaskStep(t)
          BY <4>2 DEF TaskStep, SubmitPush, Respond, RespondFails, AddIndex, StoreIndex
        <4>3. CASE \E tx \in Txs : SubmitIndex(t, tx) \/ AddPush(t, tx)
          BY <4>3 DEF SubmitIndex, AddPush
        <4>4. CASE \E height \in BlockHeights, block \in Blocks : StoreInsert(t, height, block)
          BY <4>4 DEF StoreInsert
        <4>. QED  BY <2>1, <4>1, <4>2, <4>3, <4>4
      <3>. QED  BY <3>1, <3>2, <3>3 DEF RpcTypeOK
    <2>5. ASSUME NEW u \in Tasks, u # t
          PROVE  task'[u] = task[u]
      BY <2>2, <2>3, <2>5 DEF Goto, RpcTypeOK
    <2>6. ASSUME task'[t].op = "indexed"
          PROVE  \A tx \in task'[t].arg : <<"hash", tx>> \in transactions'
      <3>1. PICK tx \in Txs : SubmitIndex(t, tx)
        BY <2>1, <2>2, <2>6 DEF AcceptConnection, EndConnection, TaskStep, SubmitPush, Respond,
              RespondFails, AddIndex, StoreIndex, SubmitIndex, AddPush, StoreInsert, Goto,
              RpcTypeOK
      <3>. QED  BY <2>2, <3>1 DEF SubmitIndex, Goto, RpcTypeOK
    <2>7. ASSUME task'[t].op = "pushed"
          PROVE  \E tx \in Txs : /\ task'[t].arg = {tx} /\ mempool'[tx] > 0
                                 /\ <<"hash", tx>> \in transactions'
      <3>1. SubmitPush(t)
        BY <2>1, <2>2, <2>7 DEF AcceptConnection, EndConnection, TaskStep, SubmitPush, Respond,
              RespondFails, AddIndex, StoreIndex, SubmitIndex, AddPush, StoreInsert, Goto,
              RpcTypeOK
      <3>2. PICK tx \in task[t].arg : /\ mempool' = [mempool EXCEPT ![tx] = @ + 1]
                                      /\ Goto(t, "pushed", {tx})
        BY <3>1 DEF SubmitPush
      <3>3. tx \in Txs /\ <<"hash", tx>> \in transactions
        BY <2>2, <3>1 DEF SubmitPush, TaskInv, RpcTypeOK
      <3>4. mempool'[tx] > 0 /\ task'[t].arg = {tx}
        BY <2>2, <3>2, <3>3 DEF Goto, RpcTypeOK
      <3>. QED  BY <2>3, <3>3, <3>4
    <2>8. ASSUME NEW u \in Tasks, u # t
          PROVE  /\ task'[u].op = "indexed" =>
                      \A tx \in task'[u].arg : <<"hash", tx>> \in transactions'
                 /\ task'[u].op = "pushed" =>
                      \E tx \in Txs : /\ task'[u].arg = {tx} /\ mempool'[tx] > 0
                                      /\ <<"hash", tx>> \in transactions'
      <3>1. task'[u] = task[u]
        BY <2>5, <2>8
      <3>2. \A tx \in Txs : mempool[tx] > 0 => mempool'[tx] > 0
        BY <2>2, <2>3 DEF RpcTypeOK
      <3>. QED  BY <2>3, <3>1, <3>2 DEF TaskInv
    <2>. QED  BY <2>4, <2>6, <2>7, <2>8 DEF TaskInv
  <1>. QED  BY <1>1, <1>2

\* Tasks do only what their path so far allows.
THEOREM TasksHold == RpcSpec => []TaskInv
  <1>1. RpcInit => TaskInv
    BY DEF RpcInit, TaskInv, RpcTypeOK, Idle, Ops, Keys, Blocks
  <1>. QED  BY <1>1, TaskInvStep, PTL DEF RpcSpec

\* The concurrent handlers implement the atomic pool: every locked section is
\* a step in which transactions enter, one in which one of them is
\* acknowledged that is in, or a stutter.
THEOREM RpcImplementsPool == RpcSpec => ImplementsPool
  <1>. DEFINE pool == {tx \in Txs : mempool[tx] > 0
                                    /\ (<<"hash", tx>> \in transactions
                                          \/ <<"id", tx>> \in transactions)}
  <1>. USE DEF Findable, GetTransaction
  <1>1. RpcInit => Pool!Init
    BY DEF RpcInit, Pool!Init
  <1>2. TaskInv /\ [RpcNext]_rpc_vars => [Pool!Next]_<<pool, answered>>
    <2>. SUFFICES ASSUME TaskInv, [RpcNext]_rpc_vars PROVE [Pool!Next]_<<pool, answered>>
      OBVIOUS
    <2>1. CASE UNCHANGED rpc_vars
      BY <2>1 DEF rpc_vars
    <2>2. CASE RpcNext
      <3>1. PICK t \in Tasks :
               \/ AcceptConnection(t) \/ EndConnection(t) \/ TaskStep(t)
               \/ \E tx \in Txs : SubmitIndex(t, tx) \/ AddPush(t, tx)
               \/ \E height \in BlockHeights, block \in Blocks : StoreInsert(t, height, block)
        BY <2>2 DEF RpcNext
      <3>2. RpcTypeOK
        BY DEF TaskInv
      <3>3. /\ transactions \subseteq transactions'
            /\ \A tx \in Txs : mempool'[tx] \in Nat /\ mempool'[tx] >= mempool[tx]
            /\ answered' = answered \/ Respond(t)
        BY <3>1, <3>2, RpcGrows
      <3>4. CASE answered' = answered
        <4>1. pool \subseteq pool'
          BY <3>2, <3>3 DEF RpcTypeOK
        <4>2. PICK S \in SUBSET Txs : pool' = pool \cup S
          BY <4>1
        <4>3. Pool!Enter(S)
          BY <3>4, <4>2 DEF Pool!Enter
        <4>. QED  BY <4>3 DEF Pool!Next
      <3>5. CASE Respond(t)
        <4>1. PICK tx \in Txs : /\ task[t].arg = {tx} /\ mempool[tx] > 0
                                /\ <<"hash", tx>> \in transactions
          BY <3>5 DEF Respond, TaskInv
        <4>2. tx \in pool
          BY <4>1
        <4>3. answered' = answered \cup {tx} /\ UNCHANGED pool
          BY <3>5, <4>1 DEF Respond
        <4>4. Pool!Acknowledge(tx)
          BY <4>2, <4>3 DEF Pool!Acknowledge
        <4>. QED  BY <4>4 DEF Pool!Next
      <3>. QED  BY <3>3, <3>4, <3>5
    <2>. QED  BY <2>1, <2>2
  <1>. QED  BY <1>1, <1>2, TasksHold, PTL DEF RpcSpec, ImplementsPool, Pool!Spec

-----------------------------------------------------------------------------
(* Keys *)

Rotations == [old_key : SigningKeys, height : RotationHeights]

KeysTypeOK == current_key \in SigningKeys /\ rotation_history \in Seq(Rotations)

\* The key of every epoch and partition keeps its type through every rotation.
THEOREM KeysTypes == KeysSpec => []KeysTypeOK
  <1>1. KeysInit => KeysTypeOK
    BY KeysAssumption DEF KeysInit, KeysTypeOK
  <1>2. KeysTypeOK /\ [KeysNext]_key_vars => KeysTypeOK'
    <2>1. ASSUME KeysTypeOK, NEW key \in SigningKeys, NEW height \in RotationHeights,
                 RotateKey(key, height)
          PROVE  KeysTypeOK'
      <3>1. [old_key |-> current_key, height |-> height] \in Rotations
        BY <2>1 DEF Rotations, KeysTypeOK
      <3>. QED  BY <2>1, <3>1 DEF KeysTypeOK, RotateKey
    <2>2. KeysTypeOK /\ UNCHANGED key_vars => KeysTypeOK'
      BY DEF KeysTypeOK, key_vars
    <2>. QED  BY <2>1, <2>2 DEF KeysNext
  <1>. QED  BY <1>1, <1>2, PTL DEF KeysSpec

\* The key at a height after a rotation.  Up to the height of the rotation the
\* new record is undone too, and is the first to be undone only when nothing
\* else was, so that the old current key answers.
LEMMA KeyAfterRotation ==
    ASSUME KeysTypeOK, NEW key \in SigningKeys, NEW height \in RotationHeights,
           NEW h \in RotationHeights, RotateKey(key, height)
    PROVE  GetKeyAtHeight(h)' = IF h < height THEN GetKeyAtHeight(h) ELSE key
  <1>. DEFINE n == Len(rotation_history)
              new == [old_key |-> current_key, height |-> height]
              last == {i \in DOMAIN rotation_history : rotation_history[i].height <= h}
              undone == {i \in DOMAIN rotation_history : \A j \in last : j < i}
              last1 == {i \in DOMAIN rotation_history' : rotation_history'[i].height <= h}
              undone1 == {i \in DOMAIN rotation_history' : \A j \in last1 : j < i}
  <1>. USE KeysAssumption
  <1>1. /\ rotation_history' = Append(rotation_history, new) /\ current_key' = key
        /\ rotation_history \in Seq(Rotations) /\ new \in Rotations /\ n \in Nat
    BY DEF RotateKey, KeysTypeOK, Rotations
  <1>. HIDE DEF n, new
  <1>2. /\ DOMAIN rotation_history = 1 .. n /\ DOMAIN rotation_history' = 1 .. (n + 1)
        /\ \A i \in 1 .. n : rotation_history'[i] = rotation_history[i]
        /\ rotation_history'[n + 1] = new
        /\ \A i \in 1 .. n : rotation_history[i].height \in Nat
    <2>1. DOMAIN rotation_history = 1 .. n
      BY <1>1 DEF n
    <2>2. DOMAIN rotation_history' = 1 .. (n + 1)
      BY <1>1 DEF n
    <2>3. /\ \A i \in 1 .. n : rotation_history'[i] = rotation_history[i]
          /\ rotation_history'[n + 1] = new
      BY <1>1 DEF n
    <2>4. \A i \in 1 .. n : rotation_history[i] \in Rotations
      BY <1>1 DEF n
    <2>. QED  BY <2>1, <2>2, <2>3, <2>4 DEF Rotations
  <1>3. new.height = height /\ new.old_key = current_key /\ height \in Nat /\ h \in Nat
    BY DEF new
  <1>4. /\ GetKeyAtHeight(h) =
             IF undone = {} THEN current_key
             ELSE rotation_history[CHOOSE i \in undone : \A j \in undone : i <= j].old_key
        /\ GetKeyAtHeight(h)' =
             IF undone1 = {} THEN key
             ELSE rotation_history'[CHOOSE i \in undone1 : \A j \in undone1 : i <= j].old_key
    BY <1>1 DEF GetKeyAtHeight
  <1>5. CASE h >= height
    <2>1. n + 1 \in last1
      BY <1>1, <1>2, <1>3, <1>5
    <2>2. undone1 = {}
      BY <1>1, <1>2, <2>1
    <2>. QED  BY <1>3, <1>4, <1>5, <2>2
  <1>6. CASE h < height
    <2>1. last1 = last
      BY <1>1, <1>2, <1>3, <1>6
    <2>2. last \subseteq 1 .. n
      BY <1>2
    <2>3. undone1 = undone \cup {n + 1} /\ undone \subseteq 1 .. n
      <3>. HIDE DEF last, last1
      <3>1. \A j \in last1 : j \in 1 .. n
        BY <2>1, <2>2
      <3>. QED  BY <1>1, <1>2, <2>1, <3>1
    <2>. HIDE DEF undone, undone1, last, last1
    <2>4. CASE undone = {}
      <3>1. (CHOOSE i \in undone1 : \A j \in undone1 : i <= j) = n + 1
        BY <1>1, <2>3, <2>4
      <3>. QED  BY <1>2, <1>3, <1>4, <1>6, <2>3, <2>4, <3>1
    <2>5. CASE undone # {}
      <3>1. PICK m \in undone : \A j \in undone : m <= j
        <4>1. undone \subseteq Nat
          BY <1>1, <2>3
        <4>. QED  BY <2>5, <4>1, SmallestNat
      <3>2. (CHOOSE i \in undone : \A j \in undone : i <= j) = m
        <4>1. undone \subseteq Nat /\ m \in undone /\ \A j \in undone : m <= j
          BY <1>1, <2>3, <3>1
        <4>. QED  BY <4>1, LeastIs
      <3>3. (CHOOSE i \in undone1 : \A j \in undone1 : i <= j) = m
        <4>1. undone1 \subseteq Nat /\ m \in undone1 /\ \A j \in undone1 : m <= j
          BY <1>1, <2>3, <3>1
        <4>. QED  BY <4>1, LeastIs
      <3>. QED  BY <1>2, <1>4, <1>6, <2>3, <2>5, <3>2, <3>3
    <2>. QED  BY <2>4, <2>5
  <1>. QED  BY <1>3, <1>5, <1>6

\* A rotation leaves the key of every height below it as it was, in whatever
\* order heights are recorded, and sets the key from its height on.
THEOREM PastKeysAreKept == KeysSpec => PastKeysStand
  <1>1. KeysTypeOK /\ [KeysNext]_key_vars =>
          [\E key \in SigningKeys, height \in RotationHeights :
              /\ rotation_history' = Append(rotation_history,
                                            [old_key |-> current_key, height |-> height])
              /\ \A h \in RotationHeights :
                    GetKeyAtHeight(h)' = IF h < height THEN GetKeyAtHeight(h)
                                                       ELSE key]_key_vars
    <2>. SUFFICES ASSUME KeysTypeOK, KeysNext
                  PROVE  \E key \in SigningKeys, height \in RotationHeights :
                            /\ rotation_history' = Append(rotation_history,
                                                  [old_key |-> current_key, height |-> height])
                            /\ \A h \in RotationHeights :
                                  GetKeyAtHeight(h)' = IF h < height THEN GetKeyAtHeight(h)
                                                                     ELSE key
      OBVIOUS
    <2>1. PICK key \in SigningKeys, height \in RotationHeights : RotateKey(key, height)
      BY DEF KeysNext
    <2>2. rotation_history' = Append(rotation_history,
                                     [old_key |-> current_key, height |-> height])
      BY <2>1 DEF RotateKey
    <2>3. \A h \in RotationHeights :
             GetKeyAtHeight(h)' = IF h < height THEN GetKeyAtHeight(h) ELSE key
      BY <2>1, KeyAfterRotation
    <2>. QED  BY <2>2, <2>3
  <1>. QED  BY <1>1, KeysTypes, PTL DEF KeysSpec, PastKeysStand

-----------------------------------------------------------------------------
(* Governance *)

\* Every proposal keeps its own list of votes.
THEOREM GovernanceTypes == GovernanceSpec => []GovernanceTypeOK
  <1>. USE GovernanceAssumption DEF GovernanceTypeOK
  <1>1. GovernanceInit => GovernanceTypeOK
    BY DEF GovernanceInit
  <1>2. GovernanceTypeOK /\ [GovernanceNext]_governance_vars => GovernanceTypeOK'
    <2>. SUFFICES ASSUME GovernanceTypeOK, [GovernanceNext]_governance_vars
                  PROVE  GovernanceTypeOK'
      OBVIOUS
    <2>1. ASSUME NEW type \in ProposalType, CreateProposal(type) PROVE GovernanceTypeOK'
      <3>1. [proposal_type |-> type, status |-> "Voting"] \in Proposals
        BY DEF Proposals, ProposalStatus
      <3>2. proposals' \in Seq(Proposals) /\ Len(proposals') = Len(proposals) + 1
        BY <2>1, <3>1 DEF CreateProposal
      <3>3. votes' \in Seq(Seq(Ballots)) /\ Len(votes') = Len(votes) + 1
        BY <2>1 DEF CreateProposal
      <3>4. Len(proposals) < MaxProposals /\ Len(proposals) \in Nat
        BY <2>1 DEF CreateProposal
      <3>. QED  BY <3>2, <3>3, <3>4
    <2>2. ASSUME NEW p \in DOMAIN proposals, NEW ballot \in Ballots, CastVote(p, ballot)
          PROVE  GovernanceTypeOK'
      <3>1. p \in DOMAIN votes /\ votes[p] \in Seq(Ballots)
        OBVIOUS
      <3>2. Append(votes[p], ballot) \in Seq(Ballots)
        BY <3>1
      <3>3. votes' = [votes EXCEPT ![p] = Append(votes[p], ballot)] /\ proposals' = proposals
        BY <2>2 DEF CastVote
      <3>4. votes' \in Seq(Seq(Ballots)) /\ Len(votes') = Len(votes)
        BY <3>1, <3>2, <3>3
      <3>. QED  BY <3>3, <3>4
    <2>3. CASE UNCHANGED governance_vars
      BY <2>3 DEF governance_vars
    <2>. QED  BY <2>1, <2>2, <2>3 DEF GovernanceNext
  <1>. QED  BY <1>1, <1>2, PTL DEF GovernanceSpec

\* The weight cast for an option is a natural number.
LEMMA CountedNat ==
    ASSUME GovernanceTypeOK, NEW p \in DOMAIN proposals, NEW option
    PROVE  Counted(p, option) \in Nat
  <1>. DEFINE f == [i \in DOMAIN votes[p] |->
                      IF votes[p][i].vote_option = option THEN votes[p][i].stake_weight ELSE 0]
  <1>1. votes[p] \in Seq(Ballots)
    BY DEF GovernanceTypeOK
  <1>2. \A i \in DOMAIN votes[p] : votes[p][i].stake_weight \in Nat
    <2>1. \A i \in DOMAIN votes[p] : votes[p][i] \in Ballots
      BY <1>1
    <2>. QED  BY <2>1, GovernanceAssumption DEF Ballots
  <1>3. \A i \in DOMAIN votes[p] : f[i] \in Nat
    BY <1>2
  <1>4. IsFiniteSet(DOMAIN votes[p])
    <2>1. DOMAIN votes[p] = 1 .. Len(votes[p]) /\ Len(votes[p]) \in Nat
      BY <1>1
    <2>. QED  BY <2>1, FS_Interval
  <1>5. Counted(p, option) = SumFunctionOnSet(f, DOMAIN votes[p])
    BY DEF Counted
  <1>. HIDE DEF f
  <1>. QED  BY <1>3, <1>4, <1>5, SumNat

\* The tally misses the threshold by less than a unit as long as the product
\* does not wrap, whatever votes have arrived.
THEOREM PassedByMajority == GovernanceSpec => []PassedBySupermajority
  <1>1. GovernanceTypeOK => PassedBySupermajority
    <2>. SUFFICES ASSUME GovernanceTypeOK, NEW p \in DOMAIN proposals,
                         TotalCast(p) * PassShare < TallyWord
                  PROVE  /\ Tally(p) = "Passed" =>
                              (Counted(p, "Yes") + 1) * ShareUnit > TotalCast(p) * PassShare
                         /\ Tally(p) = "Rejected" =>
                              Counted(p, "Yes") * ShareUnit < TotalCast(p) * PassShare
      BY DEF PassedBySupermajority
    <2>. DEFINE y == Counted(p, "Yes")
                a == TotalCast(p) * PassShare
    <2>1. y \in Nat /\ TotalCast(p) \in Nat
      BY CountedNat DEF TotalCast
    <2>2. a \in Nat
      <3>1. ASSUME NEW c \in Nat, NEW d \in Nat PROVE c * d \in Nat
        OBVIOUS
      <3>. QED  BY <2>1, <3>1, GovernanceAssumption
    <2>. HIDE DEF y, a
    <2>3. (a % TallyWord) = a
      <3>1. a \in 0 .. TallyWord - 1
        BY <2>2, GovernanceAssumption DEF a
      <3>2. ((TallyWord * 0) + a) % TallyWord = a
        BY <3>1, RemainderUnique, GovernanceAssumption
      <3>3. (TallyWord * 0) + a = a
        BY <2>2, GovernanceAssumption
      <3>. QED  BY <3>2, <3>3
    <2>4. PassBar(p) = a \div ShareUnit
      BY <2>3 DEF PassBar, a
    <2>5. /\ a \div ShareUnit \in Nat
          /\ y >= a \div ShareUnit => (y + 1) * ShareUnit > a
          /\ y < a \div ShareUnit => y * ShareUnit < a
      BY <2>1, <2>2, QuotientBounds, GovernanceAssumption
    <2>6. /\ Tally(p) = "Passed" => y >= a \div ShareUnit
          /\ Tally(p) = "Rejected" => y < a \div ShareUnit
      BY <2>1, <2>4, <2>5 DEF Tally, y
    <2>. QED  BY <2>5, <2>6 DEF y, a
  <1>. QED  BY <1>1, GovernanceTypes, PTL

-----------------------------------------------------------------------------
(* ChainSync: folds over sequences *)

\* The sequence without its only occurrence of an element.
LEMMA RemoveFirstFacts ==
    ASSUME NEW T, NEW s \in Seq(T), NEW e,
           \A i, j \in DOMAIN s : s[i] = s[j] => i = j
    PROVE  /\ RemoveFirst(s, e) \in Seq(T)
           /\ \A i, j \in DOMAIN RemoveFirst(s, e) :
                RemoveFirst(s, e)[i] = RemoveFirst(s, e)[j] => i = j
           /\ ToSet(RemoveFirst(s, e)) = ToSet(s) \ {e}
  <1>. DEFINE n == Len(s)
  <1>0. n \in Nat /\ DOMAIN s = 1 .. n
    OBVIOUS
  <1>1. CASE ~(\E i \in 1 .. n : s[i] = e)
    <2>1. RemoveFirst(s, e) = s
      BY <1>1 DEF RemoveFirst
    <2>. QED  BY <1>0, <1>1, <2>1 DEF ToSet
  <1>2. CASE \E i \in 1 .. n : s[i] = e
    <2>1. PICK k \in 1 .. n : s[k] = e
      BY <1>2
    <2>2. {i \in 1 .. n : s[i] = e} = {k}
      BY <1>0, <2>1
    <2>3. Min({k}) = k
      BY <2>1 DEF Min
    <2>4. RemoveFirst(s, e) = SubSeq(s, 1, k - 1) \o SubSeq(s, k + 1, n)
      BY <1>2, <2>2, <2>3 DEF RemoveFirst, SelectInSeq, RemoveAt
    <2>. DEFINE r == SubSeq(s, 1, k - 1) \o SubSeq(s, k + 1, n)
    <2>5. /\ SubSeq(s, 1, k - 1) \in Seq(T) /\ Len(SubSeq(s, 1, k - 1)) = k - 1
          /\ SubSeq(s, k + 1, n) \in Seq(T) /\ Len(SubSeq(s, k + 1, n)) = n - k
          /\ \A i \in 1 .. (k - 1) : SubSeq(s, 1, k - 1)[i] = s[i]
          /\ \A i \in 1 .. (n - k) : SubSeq(s, k + 1, n)[i] = s[k + i]
      <3>1. \A i \in 1 .. (k - 1) : s[i] \in T
        BY <1>0, <2>1
      <3>2. \A i \in (k + 1) .. n : s[i] \in T
        BY <1>0, <2>1
      <3>3. k - 1 \in Int /\ k + 1 \in Int /\ n \in Int /\ k \in Int
        BY <1>0, <2>1
      <3>4. /\ SubSeq(s, 1, k - 1) \in Seq(T)
            /\ Len(SubSeq(s, 1, k - 1)) = IF 1 <= k - 1 THEN (k - 1) - 1 + 1 ELSE 0
            /\ \A i \in 1 .. (k - 1) - 1 + 1 : SubSeq(s, 1, k - 1)[i] = s[1 + i - 1]
        BY <3>1, <3>3, SubSeqProperties
      <3>5. /\ SubSeq(s, k + 1, n) \in Seq(T)
            /\ Len(SubSeq(s, k + 1, n)) = IF k + 1 <= n THEN n - (k + 1) + 1 ELSE 0
            /\ \A i \in 1 .. n - (k + 1) + 1 : SubSeq(s, k + 1, n)[i] = s[(k + 1) + i - 1]
        BY <3>2, <3>3, SubSeqProperties
      <3>6. Len(SubSeq(s, 1, k - 1)) = k - 1 /\ Len(SubSeq(s, k + 1, n)) = n - k
        BY <1>0, <2>1, <3>4, <3>5
      <3>7. ASSUME NEW i \in 1 .. (k - 1) PROVE SubSeq(s, 1, k - 1)[i] = s[i]
        <4>1. i \in 1 .. (k - 1) - 1 + 1 /\ 1 + i - 1 = i
          BY <2>1
        <4>. QED  BY <3>4, <4>1
      <3>8. ASSUME NEW i \in 1 .. (n - k) PROVE SubSeq(s, k + 1, n)[i] = s[k + i]
        <4>1. i \in 1 .. n - (k + 1) + 1 /\ (k + 1) + i - 1 = k + i
          BY <1>0, <2>1
        <4>. QED  BY <3>5, <4>1
      <3>. QED  BY <3>4, <3>5, <3>6, <3>7, <3>8
    <2>. DEFINE a == SubSeq(s, 1, k - 1)
                b == SubSeq(s, k + 1, n)
    <2>56. /\ r \in Seq(T) /\ Len(r) = Len(a) + Len(b)
           /\ \A i \in 1 .. Len(a) + Len(b) :
                 r[i] = IF i <= Len(a) THEN a[i] ELSE b[i - Len(a)]
      <3>1. a \in Seq(T) /\ b \in Seq(T)
        BY <2>5
      <3>. HIDE DEF a, b
      <3>2. r = a \o b
        BY DEF a, b
      <3>. HIDE DEF r
      <3>. QED  BY <3>1, <3>2, ConcatProperties
    <2>6. r \in Seq(T) /\ Len(r) = n - 1
      <3>1. Len(a) = k - 1 /\ Len(b) = n - k /\ k \in Int
        BY <2>1, <2>5
      <3>. HIDE DEF a, b, r
      <3>. QED  BY <1>0, <2>56, <3>1
    <2>7. ASSUME NEW i \in 1 .. (n - 1) PROVE r[i] = IF i < k THEN s[i] ELSE s[i + 1]
      <3>1. r[i] = IF i <= k - 1 THEN a[i] ELSE b[i - (k - 1)]
        <4>1. Len(a) = k - 1 /\ Len(b) = n - k /\ k \in Int
          BY <2>1, <2>5
        <4>. HIDE DEF a, b, r
        <4>2. i \in 1 .. Len(a) + Len(b)
          BY <1>0, <4>1
        <4>. QED  BY <2>56, <4>1, <4>2
      <3>2. CASE i < k
        BY <2>1, <2>5, <3>1, <3>2
      <3>3. CASE ~(i < k)
        <4>1. i - (k - 1) \in 1 .. (n - k) /\ k + (i - (k - 1)) = i + 1 /\ ~(i <= k - 1)
          BY <1>0, <2>1, <3>3
        <4>. QED  BY <2>5, <3>1, <3>3, <4>1
      <3>. QED  BY <3>2, <3>3
    <2>. HIDE DEF r
    <2>8. DOMAIN r = 1 .. (n - 1)
      BY <2>6
    <2>9. \A i, j \in DOMAIN r : r[i] = r[j] => i = j
      <3>1. ASSUME NEW i \in 1 .. (n - 1), NEW j \in 1 .. (n - 1), r[i] = r[j] PROVE i = j
        <4>. DEFINE p(x) == IF x < k THEN x ELSE x + 1
        <4>1. p(i) \in DOMAIN s /\ p(j) \in DOMAIN s /\ s[p(i)] = s[p(j)]
          BY <1>0, <2>1, <2>7, <3>1
        <4>2. p(i) = p(j)
          BY <4>1
        <4>. QED  BY <2>1, <4>2
      <3>. QED  BY <2>8, <3>1
    <2>10. ToSet(r) = ToSet(s) \ {e}
      <3>1. \A i \in 1 .. (n - 1) : r[i] \in ToSet(s) \ {e}
        BY <1>0, <2>1, <2>7 DEF ToSet
      <3>2. ASSUME NEW i \in 1 .. n, s[i] # e PROVE \E j \in 1 .. (n - 1) : r[j] = s[i]
        <4>1. CASE i < k
          BY <1>0, <2>1, <2>7, <4>1
        <4>2. CASE i > k
          <5>1. i - 1 \in 1 .. (n - 1) /\ ~(i - 1 < k) /\ (i - 1) + 1 = i
            BY <1>0, <2>1, <4>2
          <5>. QED  BY <2>7, <5>1
        <4>. QED  BY <1>0, <2>1, <3>2, <4>1, <4>2
      <3>3. ToSet(r) \subseteq ToSet(s) \ {e}
        BY <2>8, <3>1 DEF ToSet
      <3>4. ToSet(s) \ {e} \subseteq ToSet(r)
        BY <1>0, <2>8, <3>2 DEF ToSet
      <3>. QED  BY <3>3, <3>4
    <2>. QED  BY <2>4, <2>6, <2>9, <2>10 DEF r
  <1>. QED  BY <1>1, <1>2

\* What is received stays without repetition over a batch of any length.
ReceivedLists == {r \in Seq(Headers) : DistinctHeights(r)}

LEMMA ReceivedOneMore ==
    ASSUME NEW seen \in ReceivedLists, NEW item \in Headers
    PROVE  (IF Holds(seen, item) THEN seen ELSE Append(seen, item)) \in ReceivedLists
  <1>1. CASE Holds(seen, item)
    BY <1>1
  <1>2. CASE ~Holds(seen, item)
    <2>. DEFINE r == Append(seen, item)
                n == Len(seen)
    <2>1. seen \in Seq(Headers) /\ n \in Nat /\ DOMAIN seen = 1 .. n
      BY DEF ReceivedLists
    <2>2. r \in Seq(Headers) /\ DOMAIN r = 1 .. (n + 1)
      BY <2>1
    <2>3. (\A i \in 1 .. n : r[i] = seen[i]) /\ r[n + 1] = item
      BY <2>1
    <2>4. \A i \in 1 .. n : seen[i].height # item.height
      BY <1>2, <2>1 DEF Holds
    <2>. HIDE DEF r
    <2>5. ASSUME NEW i \in DOMAIN r, NEW j \in DOMAIN r, r[i].height = r[j].height
          PROVE  i = j
      <3>1. CASE i \in 1 .. n /\ j \in 1 .. n
        BY <2>1, <2>3, <2>5, <3>1 DEF ReceivedLists, DistinctHeights
      <3>2. CASE i = n + 1 /\ j \in 1 .. n
        BY <2>1, <2>3, <2>4, <2>5, <3>2
      <3>3. CASE j = n + 1 /\ i \in 1 .. n
        BY <2>1, <2>3, <2>4, <2>5, <3>3
      <3>. QED  BY <2>1, <2>2, <3>1, <3>2, <3>3
    <2>6. r \in ReceivedLists
      BY <2>2, <2>5 DEF ReceivedLists, DistinctHeights
    <2>. QED  BY <1>2, <2>6 DEF r
  <1>. QED  BY <1>1, <1>2

LEMMA ReceivedType ==
    ASSUME NEW received \in ReceivedLists, NEW batch \in Seq(Headers)
    PROVE  Received(received, batch) \in ReceivedLists
  <1>. DEFINE S == DOMAIN batch
              Step(seen, item) == IF Holds(seen, item) THEN seen ELSE Append(seen, item)
              Eq(g) == g = [s \in SUBSET S |->
                              IF s = {} THEN received
                              ELSE Step(g[s \ {Max(s)}], batch[Max(s)])]
              G == CHOOSE g : Eq(g)
              pick == [s \in SUBSET S |-> Max(s)]
              step == [x \in S |-> [seen \in ReceivedLists |-> Step(seen, batch[x])]]
              good == {r \in SUBSET S : G[r] \in ReceivedLists}
  <1>1. Received(received, batch) = G[S]
    BY DEF Received, FoldLeft, MapThenFoldSet
  <1>2. S = 1 .. Len(batch) /\ Len(batch) \in Nat /\ IsFiniteSet(S)
    BY FS_Interval
  <1>3. \A s \in SUBSET S : s # {} => Max(s) \in s
    BY <1>2, MaxIsLast
  <1>4. \A x \in S, seen \in ReceivedLists : Step(seen, batch[x]) \in ReceivedLists
    BY ReceivedOneMore
  <1>. HIDE DEF Step
  <1>5. Picks(pick, S) /\ step \in [S -> [ReceivedLists -> ReceivedLists]]
    BY <1>3, <1>4 DEF Picks
  <1>6. PICK g \in [SUBSET S -> ReceivedLists] : FoldsTo(g, received, step, pick, S)
    <2>. HIDE DEF step, pick, S
    <2>. QED  BY <1>2, <1>5, FoldExists
  <1>7. Eq(g)
    <2>1. ASSUME NEW s \in SUBSET S
          PROVE  g[s] = IF s = {} THEN received ELSE Step(g[s \ {Max(s)}], batch[Max(s)])
      <3>1. CASE s = {}
        BY <1>6, <3>1 DEF FoldsTo
      <3>2. CASE s # {}
        <4>1. Max(s) \in S /\ s \ {Max(s)} \in SUBSET S
          BY <1>3, <3>2
        <4>2. g[s] = step[Max(s)][g[s \ {Max(s)}]]
          BY <1>6, <3>2 DEF FoldsTo
        <4>. QED  BY <3>2, <4>1, <4>2
      <3>. QED  BY <3>1, <3>2
    <2>. QED  BY <2>1
  <1>8. Eq(G)
    BY <1>7
  <1>. HIDE DEF G
  <1>9. GoodByRest(good, pick, S)
    <2>1. {} \in good
      <3>1. G[{}] = received
        BY <1>8
      <3>. QED  BY <3>1
    <2>2. ASSUME NEW s \in SUBSET S, s # {}, s \ {Max(s)} \in good
          PROVE  G[s] \in ReceivedLists
      <3>1. Max(s) \in S
        BY <1>3, <2>2
      <3>2. G[s] = Step(G[s \ {Max(s)}], batch[Max(s)])
        BY <1>8, <2>2
      <3>. QED  BY <1>4, <2>2, <3>1, <3>2
    <2>. QED  BY <2>1, <2>2 DEF GoodByRest
  <1>10. S \in good
    <2>. HIDE DEF good, S, pick
    <2>1. \A s \in SUBSET S : s \in good
      BY <1>2, <1>5, <1>9, FoldInduction
    <2>. QED  BY <2>1
  <1>. QED  BY <1>1, <1>10

\* A list of heights without repetition.
HeightLists == {r \in Seq(SyncHeights) : \A i, j \in DOMAIN r : r[i] = r[j] => i = j}

\* Taking out what goes leaves exactly the rest, whether or not the list that
\* prune was handed is up to date.
LEMMA HeightsWithoutIs ==
    ASSUME heights \in HeightLists, prune_list \in Seq(SyncHeights), NEW gone,
           gone \subseteq ToSet(prune_list)
    PROVE  /\ HeightsWithout(gone) \in HeightLists
           /\ ToSet(HeightsWithout(gone)) = ToSet(heights) \ gone
  <1>. DEFINE S == DOMAIN prune_list
              D == HeightLists
              Step(left, h) == IF h \in gone THEN RemoveFirst(left, h) ELSE left
              Eq(g) == g = [s \in SUBSET S |->
                              IF s = {} THEN heights
                              ELSE Step(g[s \ {Max(s)}], prune_list[Max(s)])]
              G == CHOOSE g : Eq(g)
              pick == [s \in SUBSET S |-> Max(s)]
              step == [x \in S |-> [left \in D |-> Step(left, prune_list[x])]]
              out(s) == {prune_list[i] : i \in s} \cap gone
              good == {r \in SUBSET S : G[r] \in D /\ ToSet(G[r]) = ToSet(heights) \ out(r)}
  <1>1. HeightsWithout(gone) = G[S]
    BY DEF HeightsWithout, FoldLeft, MapThenFoldSet
  <1>2. S = 1 .. Len(prune_list) /\ Len(prune_list) \in Nat /\ IsFiniteSet(S)
    BY FS_Interval
  <1>3. \A s \in SUBSET S : s # {} => Max(s) \in s
    BY <1>2, MaxIsLast
  <1>4. ASSUME NEW h, NEW left \in D
        PROVE  /\ Step(left, h) \in D
               /\ ToSet(Step(left, h)) = ToSet(left) \ ({h} \cap gone)
    <2>1. CASE h \in gone
      <3>1. left \in Seq(SyncHeights) /\ \A i, j \in DOMAIN left : left[i] = left[j] => i = j
        BY DEF HeightLists
      <3>2. /\ RemoveFirst(left, h) \in HeightLists
            /\ ToSet(RemoveFirst(left, h)) = ToSet(left) \ {h}
        BY <3>1, RemoveFirstFacts DEF HeightLists
      <3>. QED  BY <2>1, <3>2
    <2>2. CASE h \notin gone
      BY <2>2
    <2>. QED  BY <2>1, <2>2
  <1>. HIDE DEF Step, D
  <1>5. Picks(pick, S) /\ step \in [S -> [D -> D]] /\ heights \in D
    BY <1>3, <1>4 DEF Picks, D
  <1>6. PICK g \in [SUBSET S -> D] : FoldsTo(g, heights, step, pick, S)
    <2>. HIDE DEF step, pick, S
    <2>. QED  BY <1>2, <1>5, FoldExists
  <1>7. Eq(g)
    <2>1. ASSUME NEW s \in SUBSET S
          PROVE  g[s] = IF s = {} THEN heights ELSE Step(g[s \ {Max(s)}], prune_list[Max(s)])
      <3>1. CASE s = {}
        BY <1>6, <3>1 DEF FoldsTo
      <3>2. CASE s # {}
        <4>1. Max(s) \in S /\ s \ {Max(s)} \in SUBSET S
          BY <1>3, <3>2
        <4>2. g[s] = step[Max(s)][g[s \ {Max(s)}]]
          BY <1>6, <3>2 DEF FoldsTo
        <4>. QED  BY <3>2, <4>1, <4>2
      <3>. QED  BY <3>1, <3>2
    <2>. QED  BY <2>1
  <1>8. Eq(G)
    BY <1>7
  <1>. HIDE DEF G
  <1>9. GoodByRest(good, pick, S)
    <2>1. {} \in good
      <3>1. G[{}] = heights
        BY <1>8
      <3>. QED  BY <1>5, <3>1
    <2>2. ASSUME NEW s \in SUBSET S, s # {}, s \ {Max(s)} \in good PROVE s \in good
      <3>. DEFINE x == Max(s)
                  r == s \ {x}
      <3>1. x \in S /\ x \in s
        BY <1>3, <2>2
      <3>2. G[s] = Step(G[r], prune_list[x])
        BY <1>8, <2>2
      <3>3. G[r] \in D /\ ToSet(G[r]) = ToSet(heights) \ out(r)
        BY <2>2
      <3>. HIDE DEF x
      <3>4. out(s) = out(r) \cup ({prune_list[x]} \cap gone)
        BY <3>1
      <3>. HIDE DEF r, out
      <3>5. G[s] \in D /\ ToSet(G[s]) = ToSet(G[r]) \ ({prune_list[x]} \cap gone)
        BY <1>4, <3>2, <3>3
      <3>. QED  BY <3>3, <3>4, <3>5
    <2>. QED  BY <2>1, <2>2 DEF GoodByRest
  <1>10. S \in good
    <2>. HIDE DEF good, S, pick
    <2>1. \A s \in SUBSET S : s \in good
      BY <1>2, <1>5, <1>9, FoldInduction
    <2>. QED  BY <2>1
  <1>11. out(S) = gone
    BY DEF ToSet
  <1>. QED  BY <1>1, <1>10, <1>11 DEF D

\* Types, and the two lists of what was received.
SyncInv ==
    /\ ChainSyncTypeOK
    /\ DistinctHeights(received_headers) /\ DistinctHeights(received_blocks)
    /\ ArchiveIndexed

LEMMA SyncInvStep == SyncInv /\ [ChainSyncNext]_sync_vars => SyncInv'
  <1>. SUFFICES ASSUME SyncInv, [ChainSyncNext]_sync_vars PROVE SyncInv'
    OBVIOUS
  <1>. USE SyncAssumption
  <1>0. ChainSyncTypeOK /\ ArchiveIndexed
    BY DEF SyncInv
  <1>a. ASSUME SyncCall PROVE sync_calls' \in 0 .. MaxSyncCalls
    <2>1. sync_calls \in 0 .. MaxSyncCalls
      BY <1>0 DEF ChainSyncTypeOK
    <2>. QED  BY <1>a, <2>1 DEF SyncCall
  <1>b. heights \in HeightLists
    BY <1>0 DEF HeightLists, ArchiveIndexed, ChainSyncTypeOK
  <1>c. ASSUME UNCHANGED <<archive, heights>> PROVE ArchiveIndexed'
    BY <1>0, <1>c DEF ArchiveIndexed
  <1>1. ASSUME NEW h \in SyncHeights, RequestSync(h) PROVE SyncInv'
    <2>1. pending_requests' \in [SyncHeights -> Nat \cup {NoBlock}]
      <3>1. h + RequestSpan \in Nat
        OBVIOUS
      <3>. QED  BY <1>0, <1>1, <3>1 DEF RequestSync, ChainSyncTypeOK
    <2>. QED
      BY <1>1, <1>a, <1>c, <2>1 DEF SyncInv, RequestSync, prune_part, ChainSyncTypeOK
  <1>2. ASSUME NEW batch \in Batches, ProcessHeaders(batch) \/ ProcessBlocks(batch)
        PROVE  SyncInv'
    <2>1. batch \in Seq(Headers)
      <3>1. CASE batch = <<>>
        BY <3>1
      <3>2. ASSUME NEW h \in Headers, batch = <<h>> PROVE batch \in Seq(Headers)
        BY <3>2
      <3>3. ASSUME NEW g \in Headers, NEW h \in Headers, batch = <<g, h>>
            PROVE  batch \in Seq(Headers)
        BY <3>3
      <3>. HIDE DEF Headers
      <3>. QED  BY <3>1, <3>2, <3>3 DEF Batches
    <2>2. received_headers \in ReceivedLists /\ received_blocks \in ReceivedLists
      BY DEF SyncInv, ChainSyncTypeOK, ReceivedLists
    <2>3. received_headers' \in ReceivedLists /\ received_blocks' \in ReceivedLists
      BY <1>2, <2>1, <2>2, ReceivedType DEF ProcessHeaders, ProcessBlocks
    <2>4. sync_calls' \in 0 .. MaxSyncCalls
      BY <1>2, <1>a DEF ProcessHeaders, ProcessBlocks
    <2>5. UNCHANGED <<pending_requests, prune_part>>
      BY <1>2 DEF ProcessHeaders, ProcessBlocks
    <2>. QED
      BY <1>c, <2>3, <2>4, <2>5 DEF SyncInv, prune_part, ChainSyncTypeOK, ReceivedLists
  <1>3. ASSUME ClearSync PROVE SyncInv'
    <2>1. /\ received_headers' = <<>> /\ received_blocks' = <<>>
          /\ pending_requests' = [h \in SyncHeights |-> NoBlock]
      BY <1>3 DEF ClearSync
    <2>2. /\ DistinctHeights(received_headers)' /\ DistinctHeights(received_blocks)'
          /\ received_headers' \in Seq(Headers) /\ received_blocks' \in Seq(Headers)
      BY <2>1 DEF DistinctHeights
    <2>3. pending_requests' \in [SyncHeights -> Nat \cup {NoBlock}]
      BY <2>1
    <2>4. sync_calls' \in 0 .. MaxSyncCalls /\ UNCHANGED prune_part
      BY <1>3, <1>a DEF ClearSync
    <2>. QED  BY <1>c, <2>2, <2>3, <2>4 DEF SyncInv, prune_part, ChainSyncTypeOK
  <1>4. ASSUME NEW h \in SyncHeights, NEW hash \in Hashes, ArchiveBlock(h, hash)
        PROVE  SyncInv'
    <2>1. /\ archive' = [archive EXCEPT ![h] = hash] /\ heights' = PushedOnce(h)
          /\ UNCHANGED <<sync_part, prune_list, tip>>
      BY <1>4 DEF ArchiveBlock
    <2>2. archive' \in [SyncHeights -> Hashes \cup {NoBlock}]
      BY <1>0, <2>1 DEF ChainSyncTypeOK
    <2>3. {g \in SyncHeights : archive'[g] # NoBlock}
            = {g \in SyncHeights : archive[g] # NoBlock} \cup {h}
      BY <1>0, <2>1 DEF ChainSyncTypeOK
    <2>4. heights' \in HeightLists /\ ToSet(heights') = ToSet(heights) \cup {h}
      <3>1. CASE h \in ToSet(heights)
        BY <1>b, <2>1, <3>1 DEF PushedOnce
      <3>2. CASE h \notin ToSet(heights)
        <4>. DEFINE n == Len(heights)
                    r == Append(heights, h)
        <4>1. heights' = r
          BY <2>1, <3>2 DEF PushedOnce
        <4>2. heights \in Seq(SyncHeights) /\ n \in Nat /\ DOMAIN heights = 1 .. n
          BY <1>b DEF HeightLists
        <4>3. /\ r \in Seq(SyncHeights) /\ DOMAIN r = 1 .. (n + 1)
              /\ (\A i \in 1 .. n : r[i] = heights[i]) /\ r[n + 1] = h
          BY <4>2
        <4>4. \A i \in 1 .. n : heights[i] # h
          BY <3>2, <4>2 DEF ToSet
        <4>. HIDE DEF r
        <4>5. ASSUME NEW i \in 1 .. (n + 1), NEW j \in 1 .. (n + 1), r[i] = r[j] PROVE i = j
          <5>1. CASE i \in 1 .. n /\ j \in 1 .. n
            BY <1>b, <4>2, <4>3, <4>5, <5>1 DEF HeightLists
          <5>2. CASE i = n + 1 /\ j \in 1 .. n
            BY <4>2, <4>3, <4>4, <4>5, <5>2
          <5>3. CASE j = n + 1 /\ i \in 1 .. n
            BY <4>2, <4>3, <4>4, <4>5, <5>3
          <5>. QED  BY <4>2, <5>1, <5>2, <5>3
        <4>6. ToSet(r) = ToSet(heights) \cup {h}
          <5>1. \A i \in 1 .. (n + 1) : i \in 1 .. n \/ i = n + 1
            BY <4>2
          <5>2. \A i \in 1 .. n : i \in 1 .. (n + 1)
            BY <4>2
          <5>3. n + 1 \in 1 .. (n + 1)
            BY <4>2
          <5>. QED  BY <4>2, <4>3, <5>1, <5>2, <5>3 DEF ToSet
        <4>. QED  BY <4>1, <4>3, <4>5, <4>6 DEF HeightLists
      <3>. QED  BY <3>1, <3>2
    <2>5. ArchiveIndexed'
      BY <1>0, <2>3, <2>4 DEF ArchiveIndexed, HeightLists
    <2>6. sync_calls' \in 0 .. MaxSyncCalls
      BY <1>4, <1>a DEF ArchiveBlock
    <2>. QED
      BY <1>0, <2>1, <2>2, <2>4, <2>5, <2>6 DEF SyncInv, sync_part, ChainSyncTypeOK, HeightLists
  <1>5. ASSUME GetBlocksToPrune PROVE SyncInv'
    <2>. DEFINE below == {h \in SyncHeights : h < RetentionHeight}
    <2>1. prune_list' \in Seq(SyncHeights)
      <3>1. heights \in Seq(SyncHeights)
        BY <1>0 DEF ChainSyncTypeOK
      <3>2. Retain(heights, below) \in Seq(SyncHeights)
        <4>. HIDE DEF below
        <4>. QED  BY <3>1, RetainIs
      <3>. QED  BY <1>5, <3>2 DEF GetBlocksToPrune
    <2>. QED
      BY <1>5, <1>a, <1>c, <2>1 DEF SyncInv, GetBlocksToPrune, sync_part, ChainSyncTypeOK
  <1>6. ASSUME PruneArchive PROVE SyncInv'
    <2>. DEFINE gone == {h \in ToSet(prune_list) : archive[h] # NoBlock}
    <2>1. /\ archive' = [h \in SyncHeights |-> IF h \in gone THEN NoBlock ELSE archive[h]]
          /\ heights' = HeightsWithout(gone)
          /\ UNCHANGED <<sync_part, prune_list, tip>>
      BY <1>6 DEF PruneArchive
    <2>2. heights' \in HeightLists /\ ToSet(heights') = ToSet(heights) \ gone
      <3>1. gone \subseteq ToSet(prune_list) /\ prune_list \in Seq(SyncHeights)
        BY <1>0 DEF ChainSyncTypeOK
      <3>. HIDE DEF gone
      <3>. QED  BY <1>b, <2>1, <3>1, HeightsWithoutIs
    <2>. HIDE DEF gone
    <2>3. archive' \in [SyncHeights -> Hashes \cup {NoBlock}]
      BY <1>0, <2>1 DEF ChainSyncTypeOK
    <2>4. {h \in SyncHeights : archive'[h] # NoBlock}
            = {h \in SyncHeights : archive[h] # NoBlock} \ gone
      BY <2>1
    <2>5. ArchiveIndexed'
      BY <1>0, <2>2, <2>4 DEF ArchiveIndexed, HeightLists
    <2>6. sync_calls' \in 0 .. MaxSyncCalls
      BY <1>6, <1>a DEF PruneArchive
    <2>. QED
      BY <1>0, <2>1, <2>2, <2>3, <2>5, <2>6 DEF SyncInv, sync_part, ChainSyncTypeOK, HeightLists
  <1>7. ASSUME Grow PROVE SyncInv'
    <2>1. tip' \in 0 .. MaxTip
      BY <1>0, <1>7 DEF Grow, ChainSyncTypeOK
    <2>. QED  BY <1>7, <1>c, <2>1 DEF SyncInv, Grow, sync_part, ChainSyncTypeOK
  <1>8. CASE UNCHANGED sync_vars
    BY <1>8, <1>c DEF sync_vars, SyncInv, ChainSyncTypeOK
  <1>. QED
    BY <1>1, <1>2, <1>3, <1>4, <1>5, <1>6, <1>7, <1>8 DEF ChainSyncNext

\* What the synchronisation holds at every moment: types, a request list of
\* heights that are asked for once, and an archive index without repetitions.
THEOREM SyncHolds == ChainSyncSpec => []SyncInv
  <1>1. ChainSyncInit => SyncInv
    <2>. SUFFICES ASSUME ChainSyncInit PROVE SyncInv
      OBVIOUS
    <2>1. ChainSyncTypeOK
      <3>1. tip \in 0 .. MaxTip /\ sync_calls \in 0 .. MaxSyncCalls
        BY SyncAssumption DEF ChainSyncInit
      <3>2. /\ received_headers \in Seq(Headers) /\ received_blocks \in Seq(Headers)
            /\ heights \in Seq(SyncHeights) /\ prune_list \in Seq(SyncHeights)
        BY DEF ChainSyncInit
      <3>. QED  BY <3>1, <3>2 DEF ChainSyncInit, ChainSyncTypeOK
    <2>2. DistinctHeights(received_headers) /\ DistinctHeights(received_blocks)
      BY DEF ChainSyncInit, DistinctHeights
    <2>3. ArchiveIndexed
      BY DEF ChainSyncInit, ArchiveIndexed, ToSet
    <2>. QED  BY <2>1, <2>2, <2>3 DEF SyncInv
  <1>. QED  BY <1>1, SyncInvStep, PTL DEF ChainSyncSpec

\* No height is received twice, and a node that misses nothing up to a height
\* counts as synced there, however the answers of its peers overlap.
THEOREM HeightsReceivedOnce == ChainSyncSpec => []ReceivedOnce
  <1>1. SyncInv => ReceivedOnce
    <2>. SUFFICES ASSUME SyncInv, NEW target \in SyncHeights,
                         GetMissingHeights(1, target) = {}
                  PROVE  IsSynced(target)
      BY DEF SyncInv, ReceivedOnce
    <2>1. target \in Nat
      BY SyncAssumption
    <2>2. CASE target = 0
      BY <2>2 DEF IsSynced
    <2>3. CASE target # 0
      <3>1. target \in 1 .. target
        BY <2>1, <2>3
      <3>2. \E i \in DOMAIN received_headers : received_headers[i].height = target
        BY <3>1 DEF GetMissingHeights
      <3>. QED  BY <2>1, <3>2 DEF IsSynced
    <2>. QED  BY <2>2, <2>3
  <1>. QED  BY <1>1, SyncHolds, PTL

\* The order of arrival and the map of the archive hold the same heights, each
\* once, also after a prune with a list that is out of date.
THEOREM ArchiveStaysIndexed == ChainSyncSpec => []ArchiveIndexed
  <1>1. SyncInv => ArchiveIndexed
    BY DEF SyncInv
  <1>. QED  BY <1>1, SyncHolds, PTL

-----------------------------------------------------------------------------
(* ChainStore: types *)

Disks == [state : Files(Versions), blocks : [StoreHeights -> Files(Versions)],
          index : Files(SUBSET StoreHeights), snapshots : Files(SnapshotLists)]
Savings == [file : {"none", "state", "blocks", "index", "snapshots"}, open : BOOLEAN,
            rest : SUBSET StoreHeights, now : SUBSET StoreHeights]

StoreTypes ==
    /\ running \in BOOLEAN /\ memory \in Memories /\ disk \in Disks /\ saving \in Savings
    /\ persists \in 0 .. MaxPersists /\ store_calls \in 0 .. MaxStoreCalls
    /\ last_saved \in Memories \cup {NoFile}

LEMMA BlockMapsIs ==
    /\ \A f \in BlockMaps : DOMAIN f \subseteq StoreHeights /\ f \in [DOMAIN f -> Versions]
    /\ \A H \in SUBSET StoreHeights : \A f \in [H -> Versions] : f \in BlockMaps
  BY DEF BlockMaps

LEMMA SnapshotListsIs ==
    \A l : l \in SnapshotLists <=> l \in Seq(StoreHeights) /\ Len(l) <= MaxSnapshots
  <1>1. ASSUME NEW l \in SnapshotLists
        PROVE  l \in Seq(StoreHeights) /\ Len(l) <= MaxSnapshots
    <2>1. PICK n \in 0 .. MaxSnapshots : l \in [1 .. n -> StoreHeights]
      BY DEF SnapshotLists
    <2>2. n \in Nat /\ n <= MaxSnapshots
      BY <2>1, ChainStoreAssumption
    <2>. QED  BY <2>1, <2>2
  <1>2. ASSUME NEW l \in Seq(StoreHeights), Len(l) <= MaxSnapshots PROVE l \in SnapshotLists
    <2>1. Len(l) \in 0 .. MaxSnapshots /\ l \in [1 .. Len(l) -> StoreHeights]
      BY <1>2, ChainStoreAssumption
    <2>. QED  BY <2>1 DEF SnapshotLists
  <1>. QED  BY <1>1, <1>2

\* A file that was written can be read; what can be read was written.
LEMMA FileKinds ==
    ASSUME NEW T \in {Versions, SUBSET StoreHeights, SnapshotLists}
    PROVE  /\ \A d \in T, b \in 1 .. MaxPersists :
                /\ [data |-> d, by |-> b] \in Files(T)
                /\ [data |-> d, by |-> b] # NoFile /\ [data |-> d, by |-> b] # Torn
           /\ \A f \in Files(T) : f \notin {NoFile, Torn} =>
                f.data \in T /\ f.by \in 1 .. MaxPersists
           /\ NoFile \in Files(T) /\ Torn \in Files(T)
  <1>. DEFINE R == [data : Versions \cup (SUBSET StoreHeights) \cup SnapshotLists,
                    by : 1 .. MaxPersists]
  <1>1. \A d \in T : d \in Versions \cup (SUBSET StoreHeights) \cup SnapshotLists
    OBVIOUS
  <1>2. \A d \in T, b \in 1 .. MaxPersists : [data |-> d, by |-> b] \in R
    BY <1>1
  <1>3. NoFile \notin R /\ Torn \notin R
    BY FileAssumption
  <1>4. \A d \in T, b \in 1 .. MaxPersists :
           [data |-> d, by |-> b] # NoFile /\ [data |-> d, by |-> b] # Torn
    BY <1>2, <1>3
  <1>5. \A d \in T, b \in 1 .. MaxPersists : [data |-> d, by |-> b] \in Files(T)
    BY DEF Files
  <1>6. \A f \in Files(T) : f \notin {NoFile, Torn} => f.data \in T /\ f.by \in 1 .. MaxPersists
    BY DEF Files
  <1>. QED  BY <1>4, <1>5, <1>6 DEF Files

LEMMA DiskTypes ==
    ASSUME disk \in Disks
    PROVE  /\ disk.state \in Files(Versions) /\ disk.index \in Files(SUBSET StoreHeights)
           /\ disk.snapshots \in Files(SnapshotLists)
           /\ \A h \in StoreHeights : disk.blocks[h] \in Files(Versions)
           /\ disk.blocks \in [StoreHeights -> Files(Versions)]
  BY DEF Disks

LEMMA MemoryTypes ==
    ASSUME NEW mem \in Memories
    PROVE  /\ mem.state \in Versions /\ mem.blocks \in BlockMaps
           /\ mem.snapshots \in SnapshotLists
           /\ DOMAIN mem.blocks \subseteq StoreHeights
           /\ \A h \in DOMAIN mem.blocks : mem.blocks[h] \in Versions
           /\ \A v \in Versions : [mem EXCEPT !.state = v] \in Memories
           /\ \A b \in BlockMaps : [mem EXCEPT !.blocks = b] \in Memories
           /\ \A l \in SnapshotLists : [mem EXCEPT !.snapshots = l] \in Memories
  <1>1. mem.state \in Versions /\ mem.blocks \in BlockMaps /\ mem.snapshots \in SnapshotLists
    BY DEF Memories
  <1>2. /\ \A v \in Versions : [mem EXCEPT !.state = v] \in Memories
        /\ \A b \in BlockMaps : [mem EXCEPT !.blocks = b] \in Memories
        /\ \A l \in SnapshotLists : [mem EXCEPT !.snapshots = l] \in Memories
    BY DEF Memories
  <1>. QED  BY <1>1, <1>2, BlockMapsIs

\* What load leaves in memory is of the right kind, whatever it stops at.
LEMMA LoadType ==
    ASSUME disk \in Disks, NEW mem \in Memories, NEW outcome \in LoadOutcomes(mem)
    PROVE  outcome.memory \in Memories
  <1>1. [mem EXCEPT !.state = 0] \in Memories
    BY MemoryTypes, ChainStoreAssumption
  <1>2. ASSUME disk.state \notin {NoFile, Torn} PROVE WithState(mem) \in Memories
    <2>1. disk.state.data \in Versions
      BY <1>2, DiskTypes, FileKinds
    <2>. QED  BY <2>1, MemoryTypes DEF WithState
  <1>3. ASSUME disk.index # Torn, NEW H \in SUBSET BlocksOnDisk
        PROVE  Overlaid(mem.blocks, H) \in BlockMaps
    <2>1. Indexed \subseteq StoreHeights
      BY <1>3, DiskTypes, FileKinds DEF Indexed
    <2>2. \A h \in H : h \in StoreHeights /\ disk.blocks[h].data \in Versions
      BY <1>3, <2>1, DiskTypes, FileKinds DEF BlocksOnDisk
    <2>3. /\ DOMAIN mem.blocks \subseteq StoreHeights
          /\ \A h \in DOMAIN mem.blocks : mem.blocks[h] \in Versions
      BY MemoryTypes
    <2>. DEFINE K == DOMAIN mem.blocks \cup H
    <2>4. K \in SUBSET StoreHeights
      BY <2>2, <2>3
    <2>5. Overlaid(mem.blocks, H) \in [K -> Versions]
      BY <2>2, <2>3 DEF Overlaid
    <2>. QED  BY <2>4, <2>5, BlockMapsIs
  <1>4. ASSUME disk.state \notin {NoFile, Torn}, disk.index # Torn, NEW H \in SUBSET BlocksOnDisk
        PROVE  [WithState(mem) EXCEPT !.blocks = Overlaid(mem.blocks, H)] \in Memories
    BY <1>2, <1>3, <1>4, MemoryTypes
  <1>. DEFINE read == [WithState(mem) EXCEPT !.blocks = Overlaid(mem.blocks, BlocksOnDisk)]
  <1>5. CASE disk.state = NoFile
    BY <1>1, <1>5 DEF LoadOutcomes
  <1>6. CASE disk.state # NoFile /\ disk.state = Torn
    BY <1>6 DEF LoadOutcomes
  <1>7. CASE disk.state \notin {NoFile, Torn} /\ disk.index = Torn
    BY <1>2, <1>7 DEF LoadOutcomes
  <1>8. CASE /\ disk.state \notin {NoFile, Torn} /\ disk.index # Torn
             /\ \E h \in Indexed : disk.blocks[h] = Torn
    <2>1. outcome \in {[ok |-> FALSE,
             memory |-> [WithState(mem) EXCEPT !.blocks = Overlaid(mem.blocks, H)]] :
                H \in SUBSET BlocksOnDisk}
      BY <1>8 DEF LoadOutcomes
    <2>2. PICK H \in SUBSET BlocksOnDisk :
             outcome.memory = [WithState(mem) EXCEPT !.blocks = Overlaid(mem.blocks, H)]
      BY <2>1
    <2>. QED  BY <1>4, <1>8, <2>2
  <1>9. CASE /\ disk.state \notin {NoFile, Torn} /\ disk.index # Torn
             /\ ~(\E h \in Indexed : disk.blocks[h] = Torn)
    <2>1. read \in Memories
      BY <1>4, <1>9
    <2>2. outcome \in IF disk.snapshots = Torn THEN {[ok |-> FALSE, memory |-> read]}
             ELSE IF disk.snapshots = NoFile THEN {[ok |-> TRUE, memory |-> read]}
             ELSE {[ok |-> TRUE, memory |-> [read EXCEPT !.snapshots = disk.snapshots.data]]}
      BY <1>9 DEF LoadOutcomes
    <2>. HIDE DEF read
    <2>3. disk.snapshots \notin {NoFile, Torn} => disk.snapshots.data \in SnapshotLists
      BY DiskTypes, FileKinds
    <2>. QED  BY <2>1, <2>2, <2>3, MemoryTypes
  <1>. QED  BY <1>5, <1>6, <1>7, <1>8, <1>9

LEMMA NewStorageType == NewStorage \in Memories
  <1>1. <<>> \in BlockMaps
    <2>1. <<>> \in [{} -> Versions]
      OBVIOUS
    <2>. QED  BY <2>1, BlockMapsIs
  <1>2. <<>> \in SnapshotLists
    <2>1. <<>> \in Seq(StoreHeights) /\ Len(<<>>) <= MaxSnapshots
      BY ChainStoreAssumption
    <2>. QED  BY <2>1, SnapshotListsIs
  <1>. QED  BY <1>1, <1>2, ChainStoreAssumption DEF NewStorage, Memories

\* The step of persist that turns to or writes one of the three single files.
LEMMA SaveFileSteps ==
    ASSUME StoreTypes, NEW file \in {"state", "index", "snapshots"}, NEW data,
           SaveFile(file, data)
    PROVE  /\ saving.file = file /\ UNCHANGED <<running, memory, persists, store_calls>>
           /\ \E result \in {Written(data), Torn} : disk' = [disk EXCEPT ![file] = result]
           /\ \/ /\ ~saving.open /\ disk' = [disk EXCEPT ![file] = Torn]
                 /\ Saving(file, TRUE, saving.rest, {}) /\ UNCHANGED last_saved
              \/ /\ saving.open /\ file = "snapshots" /\ saving' = NotSaving
                 /\ last_saved' = IF Whole(disk') THEN memory ELSE NoFile
              \/ /\ saving.open /\ file # "snapshots"
                 /\ Saving(NextFile[file], FALSE, saving.rest, {}) /\ UNCHANGED last_saved
  BY DEF SaveFile

\* What a step of persist on such a file needs: something to be saved under
\* the number of a persist.
LEMMA SaveFileType ==
    ASSUME StoreTypes, persists > 0, NEW file \in {"state", "index", "snapshots"}, NEW data,
           data \in (CASE file = "state" -> Versions [] file = "index" -> SUBSET StoreHeights
                       [] OTHER -> SnapshotLists),
           SaveFile(file, data)
    PROVE  StoreTypes'
  <1>. DEFINE T == CASE file = "state" -> Versions [] file = "index" -> SUBSET StoreHeights
                     [] OTHER -> SnapshotLists
  <1>1. T \in {Versions, SUBSET StoreHeights, SnapshotLists} /\ data \in T
    OBVIOUS
  <1>2. persists \in 1 .. MaxPersists
    BY ChainStoreAssumption DEF StoreTypes
  <1>3. Written(data) \in Files(T) /\ Torn \in Files(T)
    <2>. HIDE DEF T
    <2>. QED  BY <1>1, <1>2, FileKinds DEF Written
  <1>4. PICK result \in {Written(data), Torn} : disk' = [disk EXCEPT ![file] = result]
    BY SaveFileSteps
  <1>5. disk' \in Disks
    <2>1. result \in Files(T)
      BY <1>3, <1>4
    <2>2. CASE file = "state"
      BY <1>4, <2>1, <2>2 DEF StoreTypes, Disks
    <2>3. CASE file = "index"
      BY <1>4, <2>1, <2>3 DEF StoreTypes, Disks
    <2>4. CASE file = "snapshots"
      BY <1>4, <2>1, <2>4 DEF StoreTypes, Disks
    <2>. QED  BY <2>2, <2>3, <2>4
  <1>6. saving' \in Savings /\ last_saved' \in Memories \cup {NoFile}
    <2>1. saving.rest \in SUBSET StoreHeights
      BY DEF StoreTypes, Savings
    <2>2. file # "snapshots" => NextFile[file] \in {"blocks", "snapshots"}
      BY DEF NextFile
    <2>3. NotSaving \in Savings
      BY DEF NotSaving, Savings
    <2>4. \A f \in {"state", "blocks", "index", "snapshots"}, o \in BOOLEAN :
            Saving(f, o, saving.rest, {}) => saving' \in Savings
      BY <2>1 DEF Savings, Saving
    <2>5. saving' \in Savings
      BY <2>2, <2>3, <2>4, SaveFileSteps
    <2>6. last_saved' \in Memories \cup {NoFile}
      BY SaveFileSteps DEF StoreTypes
    <2>. QED  BY <2>5, <2>6
  <1>. QED  BY <1>5, <1>6, SaveFileSteps DEF StoreTypes

\* A change of the memory while nothing is saved.
LEMMA StoreCallType ==
    ASSUME StoreTypes, StoreCall, memory' \in Memories
    PROVE  StoreTypes'
  BY ChainStoreAssumption DEF StoreCall, StoreTypes

\* How far a persist has come, as the files show it: while one runs, the
\* files it has passed hold what is in memory, under its number.
StoreStages ==
    /\ saving.file = "none" => saving = NotSaving
    /\ saving.file # "none" => running /\ persists > 0 /\ last_saved = NoFile
    /\ saving.file # "none" =>
         \A h \in DOMAIN memory.blocks \ (saving.rest \cup saving.now) :
             disk.blocks[h] = Written(memory.blocks[h])
    /\ saving.file \in {"blocks", "index", "snapshots"} =>
         disk.state \in {Torn, Written(memory.state)}
    /\ saving.file \in {"index", "snapshots"} => saving.rest = {}
    /\ saving.file # "blocks" => saving.now = {}
    /\ \A g, h \in saving.now : g = h
    /\ saving.now \subseteq DOMAIN memory.blocks /\ saving.rest \subseteq DOMAIN memory.blocks
    /\ saving.file = "snapshots" => disk.index \in {Torn, Written(DOMAIN memory.blocks)}

LEMMA StoreTypeStep ==
    StoreTypes /\ StoreStages /\ [ChainStoreNext]_store_vars => StoreTypes'
  <1>. SUFFICES ASSUME StoreTypes, StoreStages, [ChainStoreNext]_store_vars PROVE StoreTypes'
    OBVIOUS
  <1>. USE ChainStoreAssumption
  <1>0. memory \in Memories /\ disk \in Disks /\ saving \in Savings
    BY DEF StoreTypes
  <1>a. saving.rest \in SUBSET StoreHeights /\ saving.now \in SUBSET StoreHeights
    BY <1>0 DEF Savings
  <1>1. ASSUME NEW h \in StoreHeights, NEW version \in Versions, StoreBlock(h, version)
        PROVE  StoreTypes'
    <2>. DEFINE K == DOMAIN memory.blocks \cup {h}
                b == [g \in K |-> IF g = h THEN version ELSE memory.blocks[g]]
    <2>1. K \in SUBSET StoreHeights /\ b \in [K -> Versions]
      BY <1>0, MemoryTypes
    <2>2. b \in BlockMaps
      <3>. HIDE DEF b, K
      <3>. QED  BY <2>1, BlockMapsIs
    <2>3. memory' = [memory EXCEPT !.blocks = b]
      BY <1>1 DEF StoreBlock
    <2>. HIDE DEF b
    <2>4. memory' \in Memories
      BY <1>0, <2>2, <2>3, MemoryTypes
    <2>. QED  BY <1>1, <2>4, StoreCallType DEF StoreBlock
  <1>2. ASSUME NEW h \in StoreHeights, CreateSnapshot(h) PROVE StoreTypes'
    <2>. DEFINE all == Append(memory.snapshots, h)
                l == IF Len(all) > MaxSnapshots THEN Tail(all) ELSE all
    <2>1. memory.snapshots \in Seq(StoreHeights) /\ Len(memory.snapshots) <= MaxSnapshots
      BY <1>0, MemoryTypes, SnapshotListsIs
    <2>2. all \in Seq(StoreHeights) /\ Len(all) = Len(memory.snapshots) + 1 /\ all # <<>>
      BY <2>1
    <2>3. Tail(all) \in Seq(StoreHeights) /\ Len(Tail(all)) = Len(all) - 1
      BY <2>2, HeadTailProperties
    <2>4. Len(memory.snapshots) \in Nat
      BY <2>1
    <2>5. l \in Seq(StoreHeights) /\ Len(l) <= MaxSnapshots
      <3>. HIDE DEF all
      <3>. QED  BY <2>1, <2>2, <2>3, <2>4
    <2>6. memory' = [memory EXCEPT !.snapshots = l]
      BY <1>2 DEF CreateSnapshot
    <2>. HIDE DEF l
    <2>7. memory' \in Memories
      BY <1>0, <2>5, <2>6, MemoryTypes, SnapshotListsIs
    <2>. QED  BY <1>2, <2>7, StoreCallType DEF CreateSnapshot
  <1>3. ASSUME NEW keep \in StoreHeights, PruneStore(keep) PROVE StoreTypes'
    <2>. DEFINE K == {h \in DOMAIN memory.blocks : h >= keep}
                b == [g \in K |-> memory.blocks[g]]
    <2>1. K \in SUBSET StoreHeights /\ b \in [K -> Versions]
      BY <1>0, MemoryTypes
    <2>2. b \in BlockMaps
      <3>. HIDE DEF b, K
      <3>. QED  BY <2>1, BlockMapsIs
    <2>3. memory' = [memory EXCEPT !.blocks = b]
      BY <1>3 DEF PruneStore
    <2>. HIDE DEF b
    <2>4. memory' \in Memories
      BY <1>0, <2>2, <2>3, MemoryTypes
    <2>. QED  BY <1>3, <2>4, StoreCallType DEF PruneStore
  <1>4. ASSUME NEW version \in Versions, SetState(version) PROVE StoreTypes'
    BY <1>0, <1>4, MemoryTypes, StoreCallType DEF SetState
  <1>5. ASSUME NEW h \in StoreHeights, OpenBlock(h) PROVE StoreTypes'
    <2>1. disk' \in Disks
      BY <1>0, <1>5, FileKinds DEF OpenBlock, Disks, Files
    <2>2. saving' \in Savings
      BY <1>a, <1>5 DEF OpenBlock, Saving, Savings
    <2>. QED  BY <1>5, <2>1, <2>2 DEF OpenBlock, StoreTypes
  <1>6. ASSUME NEW h \in StoreHeights, WriteBlock(h) PROVE StoreTypes'
    <2>1. persists \in 1 .. MaxPersists /\ memory.blocks[h] \in Versions
      BY <1>0, <1>6, MemoryTypes DEF WriteBlock, StoreStages, StoreTypes
    <2>2. Written(memory.blocks[h]) \in Files(Versions)
      BY <2>1, FileKinds DEF Written
    <2>3. disk' \in Disks
      BY <1>0, <1>6, <2>2 DEF WriteBlock, Disks
    <2>4. saving' \in Savings
      BY <1>a, <1>6 DEF WriteBlock, Saving, Savings
    <2>. QED  BY <1>6, <2>3, <2>4 DEF WriteBlock, StoreTypes
  <1>7. ASSUME BeginPersist PROVE StoreTypes'
    <2>1. saving' \in Savings
      BY <1>0, <1>7, MemoryTypes DEF BeginPersist, Saving, Savings
    <2>. QED  BY <1>7, <2>1 DEF BeginPersist, StoreTypes
  <1>8. ASSUME SaveState \/ SaveIndex \/ SaveSnapshots PROVE StoreTypes'
    <2>1. persists > 0
      BY <1>8, SaveFileSteps DEF SaveState, SaveIndex, SaveSnapshots, StoreStages
    <2>2. /\ memory.state \in Versions /\ DOMAIN memory.blocks \in SUBSET StoreHeights
          /\ memory.snapshots \in SnapshotLists
      BY <1>0, MemoryTypes
    <2>3. CASE SaveState
      BY <2>1, <2>2, <2>3, SaveFileType DEF SaveState
    <2>4. CASE SaveIndex
      BY <2>1, <2>2, <2>4, SaveFileType DEF SaveIndex
    <2>5. CASE SaveSnapshots
      BY <2>1, <2>2, <2>5, SaveFileType DEF SaveSnapshots
    <2>. QED  BY <1>8, <2>3, <2>4, <2>5
  <1>9. ASSUME BlocksWritten \/ PersistFails PROVE StoreTypes'
    <2>1. saving' \in Savings
      <3>1. CASE BlocksWritten
        BY <3>1 DEF BlocksWritten, Saving, Savings, NextFile
      <3>2. CASE PersistFails
        BY <3>2 DEF PersistFails, Savings, NotSaving
      <3>. QED  BY <1>9, <3>1, <3>2
    <2>. QED  BY <1>9, <2>1 DEF BlocksWritten, PersistFails, StoreTypes
  <1>10. ASSUME Crash PROVE StoreTypes'
    <2>1. NotSaving \in Savings
      BY DEF NotSaving, Savings
    <2>. QED  BY <1>10, <2>1, NewStorageType DEF Crash, StoreTypes
  <1>11. ASSUME StartNode PROVE StoreTypes'
    BY <1>11, LoadType, NewStorageType DEF StartNode, StoreTypes
  <1>12. ASSUME ReloadStorage PROVE StoreTypes'
    BY <1>0, <1>12, LoadType, StoreCallType DEF ReloadStorage
  <1>13. CASE UNCHANGED store_vars
    BY <1>13 DEF store_vars, StoreTypes
  <1>. QED
    BY <1>1, <1>2, <1>3, <1>4, <1>5, <1>6, <1>7, <1>8, <1>9, <1>10, <1>11, <1>12, <1>13
       DEF ChainStoreNext

-----------------------------------------------------------------------------
(* ChainStore: the order of the files, and what a start restores *)

\* Nothing is under way.
LEMMA StagesIdle == ASSUME saving' = NotSaving PROVE StoreStages'
  BY DEF StoreStages, NotSaving

\* Outside persist nothing is under way, and in a process that is down.
LEMMA IdleSaving ==
    ASSUME StoreStages, StoreCall \/ ~running PROVE saving = NotSaving
  BY DEF StoreStages, StoreCall

LEMMA StagesStep ==
    StoreTypes /\ StoreStages /\ [ChainStoreNext]_store_vars => StoreStages'
  <1>. SUFFICES ASSUME StoreTypes, StoreStages, [ChainStoreNext]_store_vars PROVE StoreStages'
    OBVIOUS
  <1>0. memory \in Memories /\ disk \in Disks /\ saving \in Savings /\ persists \in Nat
    BY ChainStoreAssumption DEF StoreTypes
  <1>a. ASSUME StoreCall PROVE StoreStages'
    BY <1>a, IdleSaving, StagesIdle DEF StoreCall
  <1>b. ASSUME NEW file \in {"state", "index", "snapshots"}, NEW x,
               disk' = [disk EXCEPT ![file] = x]
        PROVE  /\ disk'.blocks = disk.blocks /\ disk'[file] = x
               /\ file # "state" => disk'.state = disk.state
               /\ file # "index" => disk'.index = disk.index
    BY <1>0, <1>b DEF Disks
  <1>1. CASE \/ \E h \in StoreHeights :
                  (\E version \in Versions : StoreBlock(h, version))
                     \/ CreateSnapshot(h) \/ PruneStore(h)
             \/ \E version \in Versions : SetState(version)
             \/ ReloadStorage
    BY <1>1, <1>a DEF StoreBlock, CreateSnapshot, PruneStore, SetState, ReloadStorage
  <1>2. CASE PersistFails \/ Crash
    BY <1>2, StagesIdle DEF PersistFails, Crash
  <1>3. CASE StartNode
    BY <1>3, IdleSaving, StagesIdle DEF StartNode
  <1>4. CASE BeginPersist
    BY <1>0, <1>4 DEF BeginPersist, StoreStages, Saving
  <1>5. CASE SaveState
    <2>1. /\ saving.file = "state" /\ UNCHANGED <<running, memory, persists, last_saved>>
          /\ \E result \in {Written(memory.state), Torn} : disk' = [disk EXCEPT !["state"] = result]
          /\ \/ Saving("state", TRUE, saving.rest, {}) \/ Saving("blocks", FALSE, saving.rest, {})
      BY <1>5, SaveFileSteps DEF SaveState, NextFile
    <2>2. disk'.state \in {Torn, Written(memory.state)} /\ disk'.blocks = disk.blocks
      BY <1>b, <2>1
    <2>3. saving.now = {}
      BY <2>1 DEF StoreStages
    <2>. QED  BY <2>1, <2>2, <2>3 DEF StoreStages, Saving, Written
  <1>6. ASSUME NEW h \in StoreHeights, OpenBlock(h) PROVE StoreStages'
    <2>1. /\ saving.file = "blocks" /\ saving.now = {} /\ h \in saving.rest
          /\ saving' = [file |-> "blocks", open |-> TRUE, rest |-> saving.rest \ {h}, now |-> {h}]
          /\ UNCHANGED <<running, memory, persists, last_saved>>
      BY <1>6 DEF OpenBlock, Saving
    <2>2. /\ disk'.state = disk.state /\ disk'.index = disk.index
          /\ \A g \in StoreHeights : g # h => disk'.blocks[g] = disk.blocks[g]
      BY <1>0, <1>6 DEF OpenBlock, Disks
    <2>3. DOMAIN memory.blocks \subseteq StoreHeights
      BY <1>0, MemoryTypes
    <2>. QED  BY <2>1, <2>2, <2>3 DEF StoreStages, Written
  <1>7. ASSUME NEW h \in StoreHeights, WriteBlock(h) PROVE StoreStages'
    <2>1. /\ saving.file = "blocks" /\ h \in saving.now
          /\ saving' = [file |-> "blocks", open |-> FALSE, rest |-> saving.rest, now |-> {}]
          /\ UNCHANGED <<running, memory, persists, last_saved>>
      BY <1>7 DEF WriteBlock, Saving
    <2>2. /\ disk'.state = disk.state /\ disk'.index = disk.index
          /\ \A g \in StoreHeights : g # h => disk'.blocks[g] = disk.blocks[g]
          /\ disk'.blocks[h] = Written(memory.blocks[h])
      BY <1>0, <1>7 DEF WriteBlock, Disks
    <2>3. DOMAIN memory.blocks \subseteq StoreHeights
      BY <1>0, MemoryTypes
    <2>4. saving.now = {h}
      BY <2>1 DEF StoreStages
    <2>. QED  BY <2>1, <2>2, <2>3, <2>4 DEF StoreStages, Written
  <1>8. CASE BlocksWritten
    BY <1>8 DEF BlocksWritten, StoreStages, Saving, NextFile, Written
  <1>9. CASE SaveIndex
    <2>1. /\ saving.file = "index" /\ UNCHANGED <<running, memory, persists, last_saved>>
          /\ \E result \in {Written(DOMAIN memory.blocks), Torn} :
                disk' = [disk EXCEPT !["index"] = result]
          /\ \/ Saving("index", TRUE, saving.rest, {}) \/ Saving("snapshots", FALSE, saving.rest, {})
      BY <1>9, SaveFileSteps DEF SaveIndex, NextFile
    <2>2. /\ disk'.index \in {Torn, Written(DOMAIN memory.blocks)}
          /\ disk'.blocks = disk.blocks /\ disk'.state = disk.state
      BY <1>b, <2>1
    <2>. QED  BY <2>1, <2>2 DEF StoreStages, Saving, Written
  <1>10. CASE SaveSnapshots
    <2>1. /\ saving.file = "snapshots" /\ UNCHANGED <<running, memory, persists>>
          /\ \E result \in {Written(memory.snapshots), Torn} :
                disk' = [disk EXCEPT !["snapshots"] = result]
          /\ \/ Saving("snapshots", TRUE, saving.rest, {}) /\ UNCHANGED last_saved
             \/ saving' = NotSaving
      BY <1>10, SaveFileSteps DEF SaveSnapshots
    <2>2. disk'.index = disk.index /\ disk'.blocks = disk.blocks /\ disk'.state = disk.state
      BY <1>b, <2>1
    <2>3. CASE Saving("snapshots", TRUE, saving.rest, {}) /\ UNCHANGED last_saved
      BY <2>1, <2>2, <2>3 DEF StoreStages, Saving, Written
    <2>. QED  BY <2>1, <2>3, StagesIdle
  <1>11. CASE UNCHANGED store_vars
    BY <1>11 DEF store_vars, StoreStages, Written
  <1>. QED
    BY <1>1, <1>2, <1>3, <1>4, <1>5, <1>6, <1>7, <1>8, <1>9, <1>10, <1>11 DEF ChainStoreNext

\* At every moment of a persist the files it has passed hold what is in memory,
\* or are torn, whatever failed or crashed before.
THEOREM StoreHolds == ChainStoreSpec => [](StoreTypes /\ StoreStages)
  <1>1. ChainStoreInit => StoreTypes /\ StoreStages
    <2>. SUFFICES ASSUME ChainStoreInit PROVE StoreTypes /\ StoreStages
      OBVIOUS
    <2>1. memory \in Memories /\ last_saved \in Memories
      BY NewStorageType DEF ChainStoreInit
    <2>2. disk \in Disks
      BY DEF ChainStoreInit, Disks, Files
    <2>3. saving \in Savings
      BY DEF ChainStoreInit, NotSaving, Savings
    <2>4. persists \in 0 .. MaxPersists /\ store_calls \in 0 .. MaxStoreCalls
      BY ChainStoreAssumption DEF ChainStoreInit
    <2>5. StoreStages
      BY DEF ChainStoreInit, NotSaving, StoreStages
    <2>. QED  BY <2>1, <2>2, <2>3, <2>4, <2>5 DEF ChainStoreInit, StoreTypes
  <1>. QED  BY <1>1, StoreTypeStep, StagesStep, PTL DEF ChainStoreSpec

\* No file is newer than the last persist that began.
UpTo(file) == Intact(file) => file.by <= persists
DiskOrder ==
    UpTo(disk.state) /\ UpTo(disk.index) /\ UpTo(disk.snapshots) /\ FilesInOrder

LEMMA DiskOrderStep ==
    StoreTypes /\ StoreStages /\ DiskOrder /\ [ChainStoreNext]_store_vars => DiskOrder'
  <1>. SUFFICES ASSUME StoreTypes, StoreStages, DiskOrder, [ChainStoreNext]_store_vars
                PROVE  DiskOrder'
    OBVIOUS
  <1>0. memory \in Memories /\ disk \in Disks /\ persists \in Nat
    BY ChainStoreAssumption DEF StoreTypes
  <1>a. \A f \in Files(Versions) \cup Files(SUBSET StoreHeights) \cup Files(SnapshotLists) :
          Intact(f) => f.by \in Nat
    <2>1. ASSUME NEW T \in {Versions, SUBSET StoreHeights, SnapshotLists}, NEW f \in Files(T),
                 Intact(f)
          PROVE  f.by \in Nat
      <3>1. f.by \in 1 .. MaxPersists
        BY <2>1, FileKinds DEF Intact
      <3>. QED  BY <3>1
    <2>. QED  BY <2>1
  <1>b. /\ Intact(disk.state) => disk.state.by \in Nat
        /\ Intact(disk.index) => disk.index.by \in Nat
        /\ Intact(disk.snapshots) => disk.snapshots.by \in Nat
        /\ \A h \in StoreHeights : Intact(disk.blocks[h]) => disk.blocks[h].by \in Nat
        /\ Intact(disk.index) => disk.index.data \subseteq StoreHeights
    <2>1. /\ disk.state \in Files(Versions) /\ disk.index \in Files(SUBSET StoreHeights)
          /\ disk.snapshots \in Files(SnapshotLists)
          /\ \A h \in StoreHeights : disk.blocks[h] \in Files(Versions)
      BY <1>0, DiskTypes
    <2>2. Intact(disk.index) => disk.index.data \in SUBSET StoreHeights
      BY <2>1, FileKinds DEF Intact
    <2>. QED  BY <1>a, <2>1, <2>2
  <1>c. ~Intact(Torn) /\ ~Intact(NoFile)
    BY DEF Intact
  <1>d. ASSUME NEW file \in {"state", "index", "snapshots"}, NEW x,
               disk' = [disk EXCEPT ![file] = x]
        PROVE  /\ disk'.blocks = disk.blocks /\ disk'[file] = x
               /\ file # "state" => disk'.state = disk.state
               /\ file # "index" => disk'.index = disk.index
               /\ file # "snapshots" => disk'.snapshots = disk.snapshots
    BY <1>0, <1>d DEF Disks
  <1>e. \A data : Written(data).by = persists /\ Written(data).data = data
    BY DEF Written
  <1>1. ASSUME disk' = disk, persists' = persists \/ persists' = persists + 1
        PROVE  DiskOrder'
    BY <1>0, <1>1, <1>b DEF DiskOrder, UpTo, FilesInOrder, Intact
  <1>2. CASE SaveState
    <2>1. persists' = persists /\ \E result \in {Written(memory.state), Torn} :
                                    disk' = [disk EXCEPT !["state"] = result]
      BY <1>2, SaveFileSteps DEF SaveState
    <2>2. /\ disk'.state \in {Torn, Written(memory.state)} /\ disk'.blocks = disk.blocks
          /\ disk'.index = disk.index /\ disk'.snapshots = disk.snapshots
      BY <1>d, <2>1
    <2>3. Intact(disk'.state) => disk'.state.by = persists
      BY <1>c, <1>e, <2>2
    <2>. QED  BY <1>0, <1>b, <2>1, <2>2, <2>3 DEF DiskOrder, UpTo, FilesInOrder, Intact
  <1>3. ASSUME NEW h \in StoreHeights, OpenBlock(h) \/ WriteBlock(h) PROVE DiskOrder'
    <2>1. /\ disk'.state = disk.state /\ disk'.index = disk.index
          /\ disk'.snapshots = disk.snapshots /\ persists' = persists
          /\ \A g \in StoreHeights : g # h => disk'.blocks[g] = disk.blocks[g]
          /\ disk'.blocks[h] \in {Torn, Written(memory.blocks[h])}
      <3>1. CASE OpenBlock(h)
        BY <1>0, <3>1 DEF OpenBlock, Disks
      <3>2. CASE WriteBlock(h)
        BY <1>0, <3>2 DEF WriteBlock, Disks
      <3>. QED  BY <1>3, <3>1, <3>2
    <2>2. disk'.blocks[h] # NoFile
      <3>1. CASE OpenBlock(h)
        BY <1>0, <3>1, ChainStoreAssumption DEF OpenBlock, Disks
      <3>2. CASE WriteBlock(h)
        <4>1. persists \in 1 .. MaxPersists /\ memory.blocks[h] \in Versions
          BY <1>0, <3>2, MemoryTypes, ChainStoreAssumption
             DEF WriteBlock, StoreStages, StoreTypes
        <4>2. Written(memory.blocks[h]) # NoFile
          BY <4>1, FileKinds DEF Written
        <4>3. disk'.blocks[h] = Written(memory.blocks[h])
          BY <1>0, <3>2 DEF WriteBlock, Disks
        <4>. QED  BY <4>2, <4>3
      <3>. QED  BY <1>3, <3>1, <3>2
    <2>3. Intact(disk'.blocks[h]) => disk'.blocks[h].by = persists
      BY <1>c, <1>e, <2>1
    <2>. QED  BY <1>0, <1>b, <2>1, <2>2, <2>3 DEF DiskOrder, UpTo, FilesInOrder, Intact
  <1>4. CASE SaveIndex
    <2>1. /\ saving.file = "index" /\ persists' = persists
          /\ \E result \in {Written(DOMAIN memory.blocks), Torn} :
               disk' = [disk EXCEPT !["index"] = result]
      BY <1>4, SaveFileSteps DEF SaveIndex
    <2>2. /\ disk'.index \in {Torn, Written(DOMAIN memory.blocks)} /\ disk'.blocks = disk.blocks
          /\ disk'.state = disk.state /\ disk'.snapshots = disk.snapshots
      BY <1>d, <2>1
    <2>3. Intact(disk'.index) =>
            disk'.index.by = persists /\ disk'.index.data = DOMAIN memory.blocks
      BY <1>c, <1>e, <2>2
    <2>4. Intact(disk.state) => disk.state.by = persists
      BY <1>c, <1>e, <2>1 DEF StoreStages
    <2>5. ASSUME NEW h \in DOMAIN memory.blocks
          PROVE  disk.blocks[h] # NoFile /\ disk.blocks[h].by = persists
      <3>1. disk.blocks[h] = Written(memory.blocks[h])
        BY <2>1 DEF StoreStages
      <3>2. persists \in 1 .. MaxPersists /\ memory.blocks[h] \in Versions
        BY <1>0, <2>1, MemoryTypes, ChainStoreAssumption DEF StoreStages, StoreTypes
      <3>3. Written(memory.blocks[h]) # NoFile
        BY <3>2, FileKinds DEF Written
      <3>. QED  BY <1>e, <3>1, <3>3
    <2>. QED  BY <1>0, <1>b, <2>1, <2>2, <2>3, <2>4, <2>5 DEF DiskOrder, UpTo, FilesInOrder, Intact
  <1>5. CASE SaveSnapshots
    <2>1. /\ saving.file = "snapshots" /\ persists' = persists
          /\ \E result \in {Written(memory.snapshots), Torn} :
               disk' = [disk EXCEPT !["snapshots"] = result]
      BY <1>5, SaveFileSteps DEF SaveSnapshots
    <2>2. /\ disk'.snapshots \in {Torn, Written(memory.snapshots)} /\ disk'.blocks = disk.blocks
          /\ disk'.state = disk.state /\ disk'.index = disk.index
      BY <1>d, <2>1
    <2>3. Intact(disk'.snapshots) => disk'.snapshots.by = persists
      BY <1>c, <1>e, <2>2
    <2>4. Intact(disk.index) => disk.index.by = persists
      BY <1>c, <1>e, <2>1 DEF StoreStages
    <2>. QED  BY <1>0, <1>b, <2>1, <2>2, <2>3, <2>4 DEF DiskOrder, UpTo, FilesInOrder, Intact
  <1>6. CASE \/ \E h \in StoreHeights :
                  (\E version \in Versions : StoreBlock(h, version))
                     \/ CreateSnapshot(h) \/ PruneStore(h)
             \/ \E version \in Versions : SetState(version)
             \/ ReloadStorage \/ PersistFails \/ Crash \/ StartNode \/ BlocksWritten
             \/ BeginPersist \/ UNCHANGED store_vars
    <2>1. disk' = disk /\ (persists' = persists \/ persists' = persists + 1)
      BY <1>6 DEF StoreBlock, CreateSnapshot, PruneStore, SetState, ReloadStorage, StoreCall,
            PersistFails, Crash, StartNode, BlocksWritten, BeginPersist, store_vars
    <2>. QED  BY <1>1, <2>1
  <1>. QED  BY <1>2, <1>3, <1>4, <1>5, <1>6 DEF ChainStoreNext

\* Wherever persist is cut short, what can be read is in the order of writing.
THEOREM FilesStayInOrder == ChainStoreSpec => []FilesInOrder
  <1>1. ChainStoreInit => DiskOrder
    BY DEF ChainStoreInit, DiskOrder, UpTo, FilesInOrder, Intact
  <1>2. DiskOrder => FilesInOrder
    BY DEF DiskOrder
  <1>. QED  BY <1>1, <1>2, StoreHolds, DiskOrderStep, PTL DEF ChainStoreSpec

\* Every file holds what belongs to mem, under one number; what load then gives.
SavedAs(mem, b) ==
    /\ disk.state = [data |-> mem.state, by |-> b]
    /\ disk.index = [data |-> DOMAIN mem.blocks, by |-> b]
    /\ \A h \in DOMAIN mem.blocks : disk.blocks[h] = [data |-> mem.blocks[h], by |-> b]
    /\ disk.snapshots = [data |-> mem.snapshots, by |-> b]
Restores(mem) == LoadOutcomes(NewStorage) = {[ok |-> TRUE, memory |-> mem]}

LEMMA WholeRestores ==
    \A mem \in Memories, b \in 1 .. MaxPersists : SavedAs(mem, b) => Restores(mem)
  <1>. SUFFICES ASSUME NEW mem \in Memories, NEW b \in 1 .. MaxPersists, SavedAs(mem, b)
                PROVE  Restores(mem)
    OBVIOUS
  <1>1. /\ mem.state \in Versions /\ DOMAIN mem.blocks \in SUBSET StoreHeights
        /\ mem.snapshots \in SnapshotLists /\ mem.blocks \in BlockMaps
        /\ \A h \in DOMAIN mem.blocks : mem.blocks[h] \in Versions
    BY MemoryTypes
  <1>2. /\ disk.state \notin {NoFile, Torn} /\ disk.state.data = mem.state
        /\ disk.index \notin {NoFile, Torn} /\ disk.index.data = DOMAIN mem.blocks
        /\ disk.snapshots \notin {NoFile, Torn} /\ disk.snapshots.data = mem.snapshots
    BY <1>1, FileKinds DEF SavedAs
  <1>3. \A h \in DOMAIN mem.blocks :
          disk.blocks[h] \notin {NoFile, Torn} /\ disk.blocks[h].data = mem.blocks[h]
    <2>1. \A d \in Versions : [data |-> d, by |-> b] \notin {NoFile, Torn}
      BY FileKinds
    <2>2. \A h \in DOMAIN mem.blocks : disk.blocks[h] = [data |-> mem.blocks[h], by |-> b]
      BY DEF SavedAs
    <2>3. ASSUME NEW h \in DOMAIN mem.blocks
          PROVE  disk.blocks[h] \notin {NoFile, Torn} /\ disk.blocks[h].data = mem.blocks[h]
      <3>1. mem.blocks[h] \in Versions
        BY <1>1
      <3>. DEFINE v == mem.blocks[h]
                  f == disk.blocks[h]
      <3>2. f = [data |-> v, by |-> b]
        BY <2>2
      <3>. HIDE DEF v, f
      <3>3. f \notin {NoFile, Torn} /\ f.data = v
        BY <2>1, <3>1, <3>2 DEF v
      <3>. QED  BY <3>3 DEF v, f
    <2>. QED  BY <2>3
  <1>4. Indexed = DOMAIN mem.blocks /\ BlocksOnDisk = DOMAIN mem.blocks
    BY <1>2, <1>3 DEF Indexed, BlocksOnDisk
  <1>5. Overlaid(<<>>, DOMAIN mem.blocks) = mem.blocks
    <2>1. mem.blocks = [h \in DOMAIN mem.blocks |-> mem.blocks[h]]
      BY <1>1, BlockMapsIs
    <2>2. Overlaid(<<>>, DOMAIN mem.blocks) = [h \in DOMAIN mem.blocks |-> mem.blocks[h]]
      BY <1>3 DEF Overlaid
    <2>. QED  BY <2>1, <2>2
  <1>. DEFINE read == [WithState(NewStorage) EXCEPT !.blocks = Overlaid(NewStorage.blocks, BlocksOnDisk)]
  <1>6. read = [state |-> mem.state, blocks |-> mem.blocks, snapshots |-> <<>>]
    <2>1. Overlaid(NewStorage.blocks, BlocksOnDisk) = mem.blocks
      BY <1>4, <1>5 DEF NewStorage
    <2>2. WithState(NewStorage) = [state |-> mem.state, blocks |-> <<>>, snapshots |-> <<>>]
      BY <1>2 DEF WithState, NewStorage
    <2>. QED  BY <2>1, <2>2
  <1>7. LoadOutcomes(NewStorage) =
          {[ok |-> TRUE, memory |-> [read EXCEPT !.snapshots = disk.snapshots.data]]}
    <2>1. ~\E h \in Indexed : disk.blocks[h] = Torn
      BY <1>3, <1>4
    <2>. QED  BY <1>2, <2>1 DEF LoadOutcomes
  <1>8. [read EXCEPT !.snapshots = disk.snapshots.data] = mem
    <2>. HIDE DEF read
    <2>1. [read EXCEPT !.snapshots = disk.snapshots.data] =
            [state |-> mem.state, blocks |-> mem.blocks, snapshots |-> mem.snapshots]
      BY <1>2, <1>6
    <2>2. mem = [state |-> mem.state, blocks |-> mem.blocks, snapshots |-> mem.snapshots]
      BY DEF Memories
    <2>. QED  BY <2>1, <2>2
  <1>. QED  BY <1>7, <1>8 DEF Restores

\* The same of the files after a step.
LEMMA WholeRestoresNext ==
    (\A mem \in Memories, b \in 1 .. MaxPersists : SavedAs(mem, b) => Restores(mem))'
  BY WholeRestores, PTL

LEMMA RestoredStep ==
    StoreTypes /\ StoreStages /\ RestoredAsSaved /\ [ChainStoreNext]_store_vars
      => RestoredAsSaved'
  <1>. SUFFICES ASSUME StoreTypes, StoreStages, RestoredAsSaved, [ChainStoreNext]_store_vars
                PROVE  RestoredAsSaved'
    OBVIOUS
  <1>0. memory \in Memories /\ disk \in Disks
    BY DEF StoreTypes
  <1>1. ASSUME disk' = disk, last_saved' = last_saved \/ last_saved' = NoFile
        PROVE  RestoredAsSaved'
    <2>1. LoadOutcomes(NewStorage)' = LoadOutcomes(NewStorage)
      <3>1. /\ Indexed' = Indexed /\ BlocksOnDisk' = BlocksOnDisk
            /\ WithState(NewStorage)' = WithState(NewStorage)
            /\ \A H : Overlaid(NewStorage.blocks, H)' = Overlaid(NewStorage.blocks, H)
        BY <1>1 DEF Indexed, BlocksOnDisk, WithState, Overlaid
      <3>. DEFINE read == [WithState(NewStorage) EXCEPT
                             !.blocks = Overlaid(NewStorage.blocks, BlocksOnDisk)]
                  failed == {[ok |-> FALSE,
                              memory |-> [WithState(NewStorage) EXCEPT
                                            !.blocks = Overlaid(NewStorage.blocks, H)]] :
                                H \in SUBSET BlocksOnDisk}
                  torn == \E h \in Indexed : disk.blocks[h] = Torn
                  outcomes ==
                    IF disk.state = NoFile
                    THEN {[ok |-> TRUE, memory |-> [NewStorage EXCEPT !.state = 0]]}
                    ELSE IF disk.state = Torn THEN {[ok |-> FALSE, memory |-> NewStorage]}
                    ELSE IF disk.index = Torn
                    THEN {[ok |-> FALSE, memory |-> WithState(NewStorage)]}
                    ELSE IF torn THEN failed
                    ELSE IF disk.snapshots = Torn THEN {[ok |-> FALSE, memory |-> read]}
                    ELSE IF disk.snapshots = NoFile THEN {[ok |-> TRUE, memory |-> read]}
                    ELSE {[ok |-> TRUE, memory |-> [read EXCEPT !.snapshots = disk.snapshots.data]]}
      <3>2. LoadOutcomes(NewStorage) = outcomes /\ LoadOutcomes(NewStorage)' = outcomes'
        BY DEF LoadOutcomes
      <3>3. read' = read /\ failed' = failed
        BY <3>1
      <3>4. torn' <=> torn
        BY <1>1, <3>1
      <3>5. outcomes' = outcomes
        <4>. HIDE DEF read, failed, torn
        <4>. QED  BY <1>1, <3>1, <3>3, <3>4
      <3>. QED  BY <3>2, <3>5
    <2>. QED  BY <1>1, <2>1 DEF RestoredAsSaved
  <1>2. ASSUME last_saved' = NoFile PROVE RestoredAsSaved'
    BY <1>2 DEF RestoredAsSaved
  <1>3. CASE SaveState \/ SaveIndex \/ \E h \in StoreHeights : OpenBlock(h) \/ WriteBlock(h)
    <2>1. saving.file # "none" /\ last_saved' = last_saved
      <3>1. CASE SaveState
        BY <3>1, SaveFileSteps DEF SaveState
      <3>2. CASE SaveIndex
        BY <3>2, SaveFileSteps DEF SaveIndex
      <3>3. CASE \E h \in StoreHeights : OpenBlock(h) \/ WriteBlock(h)
        BY <3>3 DEF OpenBlock, WriteBlock
      <3>. QED  BY <1>3, <3>1, <3>2, <3>3
    <2>. QED  BY <1>2, <2>1 DEF StoreStages
  <1>4. CASE SaveSnapshots
    <2>1. /\ saving.file = "snapshots" /\ UNCHANGED <<memory, persists>>
          /\ \E result \in {Written(memory.snapshots), Torn} :
                disk' = [disk EXCEPT !["snapshots"] = result]
          /\ \/ UNCHANGED last_saved
             \/ last_saved' = IF Whole(disk') THEN memory ELSE NoFile
      BY <1>4, SaveFileSteps DEF SaveSnapshots
    <2>2. CASE UNCHANGED last_saved
      BY <1>2, <2>1, <2>2 DEF StoreStages
    <2>3. CASE last_saved' = memory /\ Whole(disk')
      <3>1. /\ disk'.index = disk.index /\ disk'.blocks = disk.blocks /\ disk'.state = disk.state
            /\ disk'.snapshots \in {Torn, Written(memory.snapshots)}
        BY <1>0, <2>1 DEF Disks
      <3>2. saving.rest = {} /\ saving.now = {}
        BY <2>1 DEF StoreStages
      <3>3. /\ disk'.state = Written(memory.state)
            /\ disk'.index = Written(DOMAIN memory.blocks)
            /\ disk'.snapshots = Written(memory.snapshots)
            /\ \A h \in DOMAIN memory.blocks : disk'.blocks[h] = Written(memory.blocks[h])
        BY <2>1, <2>3, <3>1, <3>2 DEF StoreStages, Whole
      <3>4. persists \in 1 .. MaxPersists
        BY <2>1, ChainStoreAssumption DEF StoreStages, StoreTypes
      <3>5. SavedAs(memory, persists)'
        BY <2>1, <3>3 DEF SavedAs, Written
      <3>6. memory' \in Memories /\ persists' \in 1 .. MaxPersists
        BY <1>0, <2>1, <3>4
      <3>7. Restores(memory)'
        BY <3>5, <3>6, WholeRestoresNext
      <3>. QED  BY <2>1, <2>3, <3>7 DEF Restores, RestoredAsSaved
    <2>. QED  BY <1>2, <2>1, <2>2, <2>3
  <1>5. CASE \/ \E h \in StoreHeights :
                  (\E version \in Versions : StoreBlock(h, version))
                     \/ CreateSnapshot(h) \/ PruneStore(h)
             \/ \E version \in Versions : SetState(version)
             \/ ReloadStorage \/ PersistFails \/ Crash \/ StartNode \/ BlocksWritten
             \/ BeginPersist \/ UNCHANGED store_vars
    <2>1. disk' = disk /\ (last_saved' = last_saved \/ last_saved' = NoFile)
      BY <1>5 DEF StoreBlock, CreateSnapshot, PruneStore, SetState, ReloadStorage, StoreCall,
            PersistFails, Crash, StartNode, BlocksWritten, BeginPersist, store_vars
    <2>. QED  BY <1>1, <2>1
  <1>. QED  BY <1>3, <1>4, <1>5 DEF ChainStoreNext

\* Once a persist has gone through, and until the next begins, a start gives
\* back exactly the memory that was saved.
THEOREM SavedIsRestored == ChainStoreSpec => []RestoredAsSaved
  <1>1. ChainStoreInit => RestoredAsSaved
    BY DEF ChainStoreInit, RestoredAsSaved, LoadOutcomes, NewStorage
  <1>. QED  BY <1>1, StoreHolds, RestoredStep, PTL DEF ChainStoreSpec
=============================================================================
