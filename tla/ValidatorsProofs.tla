--------------------------- MODULE ValidatorsProofs ---------------------------
(***************************************************************************)
(* Voting power, jail, payouts, rewards and the total stake of Validators, *)
(* for every finite set of validators and every amount.                    *)
(*                                                                         *)
(* Power, jail and payouts need no types: ValidatorInv only says that      *)
(* power was computed from the stakes, whatever they are, and how status,  *)
(* jail and epochs relate.  The sums over all validators are the subject   *)
(* of the second half.                                                     *)
(***************************************************************************)
EXTENDS Validators, FoldLemmas

\* The part of the types the arguments need.
Shape ==
    /\ validators = [v \in Ids |-> validators[v]]
    /\ delegations \in [Ids -> Nat]
    /\ current_epoch \in Epochs
    /\ slashed_at \in [Ids -> Epochs \cup {None}]

\* One validator's record: its power and its delegations, and where it stands
\* with its last slash.
GoodValidator(v) ==
    /\ validators[v].delegated_stake \in Nat
    /\ validators[v].power = CalculatePower(TotalStake(validators[v]))
    /\ validators[v].delegated_stake <= delegations[v]
    /\ validators[v].status \in ValidatorStatus
    /\ validators[v].status = "Jailed" =>
          /\ slashed_at[v] # None
          /\ validators[v].jailed_until = slashed_at[v] + JailPeriod
    /\ validators[v].status \in {"Active", "Unbonding"} =>
          (slashed_at[v] # None => current_epoch >= slashed_at[v] + JailPeriod)
    /\ v \in paid /\ validators[v].status # "Removed" => v \in resurrected

ValidatorInv == Shape /\ \A v \in Ids : validators[v] # None => GoodValidator(v)

-----------------------------------------------------------------------------

\* A step that leaves validators, epochs and the history alone.
LEMMA StutterStep == ValidatorInv /\ UNCHANGED vars => ValidatorInv'
  BY DEF ValidatorInv, Shape, GoodValidator, CalculatePower, TotalStake, vars

\* A step that changes at most one validator keeps the invariant if it keeps
\* that validator in order and leaves the others' history alone.
LEMMA OneValidator ==
  ASSUME ValidatorInv, NEW v \in Ids, NEW val,
         validators' = [validators EXCEPT ![v] = val],
         UNCHANGED current_epoch,
         Shape',
         \A u \in Ids \ {v} : /\ delegations'[u] = delegations[u]
                              /\ slashed_at'[u] = slashed_at[u]
                              /\ u \in paid' <=> u \in paid
                              /\ u \in resurrected' <=> u \in resurrected,
         val # None => GoodValidator(v)'
  PROVE  ValidatorInv'
  <1>1. ASSUME NEW u \in Ids, validators'[u] # None, u # v
        PROVE  GoodValidator(u)'
    <2>1. validators'[u] = validators[u]
      BY <1>1 DEF ValidatorInv, Shape
    <2>. QED
      BY <1>1, <2>1
      DEF ValidatorInv, GoodValidator, CalculatePower, TotalStake
  <1>2. validators'[v] = val
    BY DEF ValidatorInv, Shape
  <1>. QED  BY <1>1, <1>2 DEF ValidatorInv

\* Every operation preserves the invariant.
LEMMA NextStep == ValidatorInv /\ Next => ValidatorInv'
  <1>. SUFFICES ASSUME ValidatorInv, Next PROVE ValidatorInv'
    OBVIOUS
  <1>. USE NumbersAssumption, NoneAssumption
  <1>0. Shape /\ \A v \in Ids : validators[v] # None => GoodValidator(v)
    BY DEF ValidatorInv
  <1>1. ASSUME NEW e \in current_epoch .. MaxEpoch, EpochTransition(e)
        PROVE  ValidatorInv'
    <2>1. Shape'
      BY <1>0, <1>1 DEF EpochTransition, Shape, history, Epochs
    <2>2. ASSUME NEW v \in Ids, validators'[v] # None PROVE GoodValidator(v)'
      <3>1. CASE /\ validators[v] # None
                 /\ validators[v].status = "Jailed"
                 /\ e >= validators[v].jailed_until
        <4>1. validators'[v] = Moved(validators[v], "Active", 0,
                                     validators[v].unbonding_start)
          BY <1>1, <3>1 DEF EpochTransition
        <4>. QED
          BY <1>0, <1>1, <3>1, <4>1
          DEF EpochTransition, GoodValidator, Moved, history, CalculatePower,
              TotalStake, Shape, Epochs, ValidatorStatus
      <3>2. CASE ~ (/\ validators[v] # None
                    /\ validators[v].status = "Jailed"
                    /\ e >= validators[v].jailed_until)
        <4>1. validators'[v] = validators[v]
          BY <1>1, <3>2 DEF EpochTransition
        <4>. QED
          BY <1>0, <1>1, <2>2, <4>1
          DEF EpochTransition, GoodValidator, history, CalculatePower,
              TotalStake, Shape, Epochs
      <3>. QED  BY <3>1, <3>2
    <2>. QED  BY <2>1, <2>2 DEF ValidatorInv
  <1>2. ASSUME NEW r \in Rewards, DistributeRewards(r) PROVE ValidatorInv'
    <2>1. Shape'
      BY <1>0, <1>2 DEF DistributeRewards, Call, Shape
    <2>2. ASSUME NEW v \in Ids, validators'[v] # None PROVE GoodValidator(v)'
      <3>1. CASE v \in GetActive
        <4>1. validators'[v] = WithStake(validators[v],
                                  validators[v].stake + Reward(v, r),
                                  validators[v].delegated_stake)
          BY <1>2, <3>1 DEF DistributeRewards
        <4>. QED
          BY <1>0, <1>2, <3>1, <4>1
          DEF DistributeRewards, Call, GoodValidator, WithStake, CalculatePower,
              TotalStake, GetActive, Present
      <3>2. CASE v \notin GetActive
        <4>1. validators'[v] = validators[v]
          BY <1>2, <3>2 DEF DistributeRewards
        <4>. QED
          BY <1>0, <1>2, <2>2, <4>1
          DEF DistributeRewards, Call, GoodValidator, CalculatePower, TotalStake
      <3>. QED  BY <3>1, <3>2
    <2>. QED  BY <2>1, <2>2 DEF ValidatorInv
  <1>3. ASSUME NEW v \in Ids, NEW s \in Stakes, Add(v, s) PROVE ValidatorInv'
    <2>1. Shape'
      BY <1>0, <1>3 DEF Add, Call, Shape
    <2>2. validators'[v] = NewValidator(s) /\ slashed_at'[v] = None
      BY <1>0, <1>3 DEF Add, Shape
    <2>3. GoodValidator(v)'
      BY <1>0, <1>3, <2>2
      DEF Add, GoodValidator, NewValidator, CalculatePower, TotalStake,
          ValidatorStatus, Shape
    <2>. QED  BY <1>0, <1>3, <2>1, <2>3, OneValidator DEF Add, Call, Shape
  <1>4. ASSUME NEW v \in Ids, RemoveValidator(v) PROVE ValidatorInv'
    <2>1. Shape'
      BY <1>0, <1>4 DEF RemoveValidator, Call, Shape, history
    <2>. QED  BY <1>4, <2>1, OneValidator DEF RemoveValidator, Call, history
  <1>5. ASSUME NEW v \in Ids, NEW a \in Amounts, Bond(v, a) PROVE ValidatorInv'
    <2>1. Shape'
      BY <1>0, <1>5 DEF Bond, Call, Shape, history
    <2>2. validators'[v] = WithStake(validators[v], validators[v].stake + a,
                                     validators[v].delegated_stake)
      BY <1>0, <1>5 DEF Bond, Shape
    <2>3. GoodValidator(v)'
      BY <1>0, <1>5, <2>2
      DEF Bond, Call, GoodValidator, WithStake, CalculatePower, TotalStake, history
    <2>. QED  BY <1>5, <2>1, <2>3, OneValidator DEF Bond, Call, history
  <1>6. ASSUME NEW v \in Ids, NEW a \in Amounts, Delegate(v, a)
        PROVE  ValidatorInv'
    <2>1. Shape'
      BY <1>0, <1>6 DEF Delegate, Call, Shape, history
    <2>2. validators'[v] = WithStake(validators[v], validators[v].stake,
                                     validators[v].delegated_stake + a)
      BY <1>0, <1>6 DEF Delegate, Shape
    <2>3. delegations'[v] = delegations[v] + a
      BY <1>0, <1>6 DEF Delegate, Shape
    <2>4. GoodValidator(v)'
      BY <1>0, <1>6, <2>2, <2>3
      DEF Delegate, Call, GoodValidator, WithStake, CalculatePower, TotalStake,
          history, GetActive, Present, Shape
    <2>. QED
      BY <1>0, <1>6, <2>1, <2>4, OneValidator DEF Delegate, Call, history, Shape
  <1>7. ASSUME NEW v \in Ids, UnbondStart(v) PROVE ValidatorInv'
    <2>1. Shape'
      BY <1>0, <1>7 DEF UnbondStart, Call, Shape, history
    <2>2. validators'[v] = Moved(validators[v], "Unbonding",
                                 validators[v].jailed_until, current_epoch)
      BY <1>0, <1>7 DEF UnbondStart, Shape
    <2>3. GoodValidator(v)'
      BY <1>0, <1>7, <2>2
      DEF UnbondStart, Call, GoodValidator, Moved, CalculatePower, TotalStake,
          history, GetActive, Present, ValidatorStatus
    <2>. QED  BY <1>7, <2>1, <2>3, OneValidator DEF UnbondStart, Call, history
  <1>8. ASSUME NEW v \in Ids, UnbondComplete(v) PROVE ValidatorInv'
    <2>1. Shape'
      BY <1>0, <1>8 DEF UnbondComplete, Call, Shape
    <2>2. validators'[v] = Moved(validators[v], "Removed",
                                 validators[v].jailed_until,
                                 validators[v].unbonding_start)
      BY <1>0, <1>8 DEF UnbondComplete, Shape
    <2>3. GoodValidator(v)'
      BY <1>0, <1>8, <2>2
      DEF UnbondComplete, Call, GoodValidator, Moved, CalculatePower, TotalStake,
          ValidatorStatus
    <2>. QED  BY <1>8, <2>1, <2>3, OneValidator DEF UnbondComplete, Call
  <1>9. ASSUME NEW v \in Ids, NEW t \in SlashType, Slash(v, t)
        PROVE  ValidatorInv'
    <2>. DEFINE amount == SlashAmount(t, TotalStake(validators[v]))
    <2>1. Shape'
      BY <1>0, <1>9 DEF Slash, Call, Shape
    <2>2. validators'[v] = Jail(validators[v], amount)
      BY <1>0, <1>9 DEF Slash, Shape
    <2>3. slashed_at'[v] = current_epoch
      BY <1>0, <1>9 DEF Slash, Shape
    <2>. HIDE DEF amount
    <2>4. GoodValidator(v)'
      <3>1. /\ GoodValidator(v) /\ delegations' = delegations
            /\ v \in paid' => v \in resurrected'
        BY <1>0, <1>9 DEF Slash
      <3>2. slashed_at'[v] # None
        BY <1>0, <2>3 DEF Shape, Epochs
      <3>3. /\ validators'[v].delegated_stake = validators[v].delegated_stake
            /\ validators'[v].power = CalculatePower(TotalStake(validators'[v]))
            /\ validators'[v].status = "Jailed"
            /\ validators'[v].jailed_until = slashed_at'[v] + JailPeriod
        BY <2>2, <2>3 DEF Jail, TotalStake
      <3>. QED  BY <3>1, <3>2, <3>3 DEF GoodValidator, ValidatorStatus, CalculatePower, TotalStake
    <2>. QED
      BY <1>0, <1>9, <2>1, <2>4, OneValidator DEF Slash, Call, Shape
  <1>. QED
    BY <1>1, <1>2, <1>3, <1>4, <1>5, <1>6, <1>7, <1>8, <1>9 DEF Next

\* The invariant holds in every reachable state.
LEMMA InvariantHolds == Spec => []ValidatorInv
  <1>1. Init => ValidatorInv
    BY NumbersAssumption DEF Init, ValidatorInv, Shape, Epochs
  <1>. QED  BY <1>1, NextStep, StutterStep, PTL DEF Spec

-----------------------------------------------------------------------------

\* A validator votes with the power of its stake, and its delegated stake was
\* recorded, after any sequence of bonding, slashing, rewards and epochs.
THEOREM PowerStaysInStep == Spec => []PowerInStep
  <1>1. ValidatorInv => PowerInStep
    BY DEF ValidatorInv, GoodValidator, PowerInStep, Present
  <1>. QED  BY <1>1, InvariantHolds, PTL

\* No validator is active before it has sat out its last slash.
THEOREM JailIsServed == Spec => []JailServed
  <1>1. ValidatorInv => JailServed
    BY DEF ValidatorInv, GoodValidator, JailServed, GetActive, Present
  <1>. QED  BY <1>1, InvariantHolds, PTL

\* A validator that was paid out stays removed unless it is slashed afterwards.
THEOREM PayoutsAreFinal == Spec => []PaidOutStaysOut
  <1>1. ValidatorInv => PaidOutStaysOut
    BY DEF ValidatorInv, GoodValidator, PaidOutStaysOut, Present
  <1>. QED  BY <1>1, InvariantHolds, PTL
-----------------------------------------------------------------------------
(* Types *)

\* Recomputing the power, moving to another status and slashing all leave a
\* validator's record.
LEMMA RecordTypes ==
  ASSUME TypeOK, NEW val \in ValidatorRecords
  PROVE  /\ \A s, d \in Nat : WithStake(val, s, d) \in ValidatorRecords
         /\ \A st \in ValidatorStatus, j \in Nat, u \in Epochs \cup {None} :
               Moved(val, st, j, u) \in ValidatorRecords
         /\ \A a \in Nat : Jail(val, a) \in ValidatorRecords
  <1>. USE NumbersAssumption
  <1>1. \A s \in Nat : CalculatePower(s) \in Nat
    BY DEF CalculatePower
  <1>2. \A a \in Nat : SaturatingSub(val.stake, a) \in Nat
    BY DEF SaturatingSub, ValidatorRecords
  <1>3. \A s, d \in Nat : WithStake(val, s, d) \in ValidatorRecords
    <2>. SUFFICES ASSUME NEW s \in Nat, NEW d \in Nat
                  PROVE  WithStake(val, s, d) \in ValidatorRecords
      OBVIOUS
    <2>1. CalculatePower(s + d) \in Nat
      BY <1>1
    <2>. QED  BY <2>1 DEF WithStake, ValidatorRecords
  <1>4. \A st \in ValidatorStatus, j \in Nat, u \in Epochs \cup {None} :
          Moved(val, st, j, u) \in ValidatorRecords
    BY DEF Moved, ValidatorRecords
  <1>5. \A a \in Nat : Jail(val, a) \in ValidatorRecords
    <2>. SUFFICES ASSUME NEW a \in Nat PROVE Jail(val, a) \in ValidatorRecords
      OBVIOUS
    <2>1. CalculatePower(SaturatingSub(val.stake, a) + val.delegated_stake) \in Nat
      BY <1>1, <1>2 DEF ValidatorRecords
    <2>2. current_epoch + JailPeriod \in Nat
      BY DEF TypeOK, Epochs
    <2>. QED  BY <1>2, <2>1, <2>2 DEF Jail, ValidatorRecords, ValidatorStatus
  <1>. QED  BY <1>3, <1>4, <1>5

\* A slash is of a natural number.
LEMMA SlashAmountType ==
  ASSUME NEW type \in SlashType, NEW total \in Nat
  PROVE  SlashAmount(type, total) \in Nat
  BY DEF SlashAmount, SlashType

\* The stake of a validator on record, and of all active ones.
LEMMA StakeTypes ==
  ASSUME TypeOK
  PROVE  /\ \A v \in Present : validators[v] \in ValidatorRecords
                             /\ TotalStake(validators[v]) \in Nat
         /\ GetActive \subseteq Present /\ Present \subseteq Ids
         /\ ActiveStake \in Nat
  <1>1. \A v \in Present : validators[v] \in ValidatorRecords
                          /\ TotalStake(validators[v]) \in Nat
    BY DEF Present, TypeOK, ValidatorRecords, TotalStake
  <1>2. GetActive \subseteq Present /\ Present \subseteq Ids
    BY DEF GetActive, Present
  <1>. DEFINE f == [v \in Ids |-> IF v \in GetActive THEN TotalStake(validators[v]) ELSE 0]
  <1>3. \A v \in Ids : f[v] \in Nat
    BY <1>1, <1>2
  <1>4. SumFunctionOnSet(f, Ids) \in Nat
    <2>. HIDE DEF f
    <2>. QED  BY <1>3, IdsAssumption, SumNat
  <1>. QED  BY <1>1, <1>2, <1>4 DEF ActiveStake

\* The share of a validator is a natural number, and what is paid out of a
\* reward, times the stake it is shared by, is covered by the reward less
\* its commission.
LEMMA RewardBounds ==
  ASSUME TypeOK, NEW r \in Nat, NEW v \in Ids
  PROVE  /\ Reward(v, r) \in Nat
         /\ ActiveStake * Reward(v, r)
              <= (r - (r \div 10)) * (IF v \in GetActive THEN TotalStake(validators[v]) ELSE 0)
         /\ r = 0 => Reward(v, r) = 0
  <1>. DEFINE R == r - (r \div 10)
              a == ActiveStake
              t == TotalStake(validators[v])
  <1>1. R \in Nat /\ (r = 0 => R = 0) /\ a \in Nat
    BY StakeTypes
  <1>2. CASE a = 0 \/ v \notin GetActive
    <2>1. Reward(v, r) = 0
      BY <1>2 DEF Reward
    <2>2. a * 0 = 0 /\ R * 0 = 0
      BY <1>1
    <2>3. v \in GetActive => t \in Nat /\ R * t \in Nat
      <3>1. v \in GetActive => t \in Nat
        BY StakeTypes
      <3>. HIDE DEF R, t
      <3>. QED  BY <1>1, <3>1
    <2>. QED  BY <2>1, <2>2, <2>3
  <1>3. CASE a # 0 /\ v \in GetActive
    <2>1. Reward(v, r) = (R * t) \div a
      BY <1>3 DEF Reward
    <2>2. t \in Nat
      BY <1>3, StakeTypes
    <2>. HIDE DEF R, a, t
    <2>3. R * t \in Nat
      BY <1>1, <2>2
    <2>4. ASSUME NEW n \in Nat PROVE a * (n \div a) <= n /\ n \div a \in Nat
      BY <1>1, <1>3
    <2>5. R = 0 => R * t = 0
      BY <2>2
    <2>6. 0 \div a = 0
      BY <1>1, <1>3
    <2>7. Reward(v, r) \in Nat /\ a * Reward(v, r) <= R * t
      BY <2>1, <2>3, <2>4
    <2>8. r = 0 => Reward(v, r) = 0
      BY <1>1, <2>1, <2>5, <2>6
    <2>. QED  BY <1>3, <2>7, <2>8 DEF R, a, t
  <1>. QED  BY <1>2, <1>3
\* A step that replaces one validator's record by another record, or by none,
\* keeps the type of the validators.
LEMMA OneRecord ==
  ASSUME TypeOK, NEW v \in Ids, NEW val \in ValidatorRecords \cup {None},
         validators' = [validators EXCEPT ![v] = val]
  PROVE  validators' \in [Ids -> ValidatorRecords \cup {None}]
  BY DEF TypeOK

\* Every operation keeps the types.
LEMMA TypeStep == TypeOK /\ [Next]_vars => TypeOK'
  <1>. SUFFICES ASSUME TypeOK, [Next]_vars PROVE TypeOK'
    OBVIOUS
  <1>. USE NumbersAssumption, NoneAssumption
  <1>0. total_stake \in Nat /\ current_epoch \in Epochs /\ current_epoch \in Nat
    BY DEF TypeOK, Epochs
  <1>a. ASSUME NEW x \in Int PROVE (x % Word) \in 0 .. Word - 1
    BY RemainderRange
  <1>b. ASSUME NEW x \in Nat PROVE SaturatingSub(total_stake, x) \in 0 .. Word - 1
    BY DEF TypeOK, SaturatingSub
  <1>c. ASSUME Call PROVE calls' \in 0 .. MaxCalls /\ current_epoch' \in Epochs
    BY <1>c DEF Call, TypeOK
  <1>d. ASSUME NEW v \in Ids, validators[v] # None
        PROVE  /\ validators[v] \in ValidatorRecords
               /\ TotalStake(validators[v]) \in Nat
               /\ validators[v].stake \in Nat /\ validators[v].delegated_stake \in Nat
               /\ validators[v].jailed_until \in Nat
               /\ validators[v].unbonding_start \in Epochs \cup {None}
    BY <1>d DEF TypeOK, ValidatorRecords, TotalStake
  <1>1. ASSUME NEW e \in current_epoch .. MaxEpoch, EpochTransition(e) PROVE TypeOK'
    <2>1. e \in Epochs
      BY <1>0 DEF Epochs
    <2>2. ASSUME NEW v \in Ids, validators[v] # None
          PROVE  Moved(validators[v], "Active", 0, validators[v].unbonding_start)
                   \in ValidatorRecords
      BY <1>d, <2>2, RecordTypes DEF ValidatorStatus
    <2>3. validators' \in [Ids -> ValidatorRecords \cup {None}]
      BY <1>1, <2>2 DEF EpochTransition, TypeOK
    <2>. QED  BY <1>1, <2>1, <2>3 DEF EpochTransition, TypeOK, history
  <1>2. ASSUME NEW r \in Rewards, DistributeRewards(r) PROVE TypeOK'
    <2>. DEFINE share == [v \in Ids |-> Reward(v, r)]
    <2>1. r \in Nat /\ \A v \in Ids : Reward(v, r) \in Nat
      BY RewardBounds
    <2>2. SumFunctionOnSet(share, Ids) \in Nat
      <3>1. \A v \in Ids : share[v] \in Nat
        BY <2>1
      <3>. HIDE DEF share
      <3>. QED  BY <3>1, IdsAssumption, SumNat
    <2>3. ASSUME NEW v \in GetActive
          PROVE  WithStake(validators[v], validators[v].stake + Reward(v, r),
                           validators[v].delegated_stake) \in ValidatorRecords
      <3>1. v \in Ids /\ validators[v] # None
        BY DEF GetActive, Present
      <3>2. validators[v].stake + Reward(v, r) \in Nat
        BY <1>d, <2>1, <3>1
      <3>. QED  BY <1>d, <3>1, <3>2, RecordTypes
    <2>4. validators' \in [Ids -> ValidatorRecords \cup {None}]
      BY <1>2, <2>3 DEF DistributeRewards, TypeOK
    <2>5. rewards' \in [announced : Nat, credited : Nat]
      <3>1. rewards' = [announced |-> rewards.announced + r,
                        credited |-> rewards.credited + SumFunctionOnSet(share, Ids)]
        BY <1>2 DEF DistributeRewards
      <3>. HIDE DEF share
      <3>. QED  BY <2>1, <2>2, <3>1 DEF TypeOK
    <2>6. total_stake' \in 0 .. Word - 1
      BY <1>0, <1>2, <1>a, <2>1 DEF DistributeRewards
    <2>7. exact' \in BOOLEAN
      BY <1>2 DEF DistributeRewards
    <2>. QED  BY <1>2, <1>c, <2>4, <2>5, <2>6, <2>7 DEF DistributeRewards, TypeOK
  <1>3. ASSUME NEW v \in Ids, NEW s \in Stakes, Add(v, s) PROVE TypeOK'
    <2>1. NewValidator(s) \in ValidatorRecords
      BY DEF NewValidator, ValidatorRecords, CalculatePower, ValidatorStatus
    <2>2. validators' \in [Ids -> ValidatorRecords \cup {None}]
      BY <1>3, <2>1, OneRecord DEF Add
    <2>3. total_stake' \in 0 .. Word - 1
      BY <1>0, <1>3, <1>a DEF Add
    <2>. QED  BY <1>3, <1>c, <2>2, <2>3 DEF Add, TypeOK
  <1>4. ASSUME NEW v \in Ids, RemoveValidator(v) PROVE TypeOK'
    <2>1. validators' \in [Ids -> ValidatorRecords \cup {None}]
      BY <1>4, OneRecord DEF RemoveValidator
    <2>2. total_stake' \in 0 .. Word - 1
      <3>1. total_stake - TotalStake(validators[v]) \in Int
        BY <1>0, <1>4, <1>d DEF RemoveValidator
      <3>. QED  BY <1>4, <1>a, <3>1 DEF RemoveValidator
    <2>. QED  BY <1>4, <1>c, <2>1, <2>2 DEF RemoveValidator, TypeOK, history
  <1>5. ASSUME NEW v \in Ids, NEW a \in Amounts, Bond(v, a) PROVE TypeOK'
    <2>1. validators' \in [Ids -> ValidatorRecords \cup {None}]
      <3>1. validators[v].stake + a \in Nat
        BY <1>5, <1>d DEF Bond
      <3>2. WithStake(validators[v], validators[v].stake + a, validators[v].delegated_stake)
              \in ValidatorRecords
        BY <1>5, <1>d, <3>1, RecordTypes DEF Bond
      <3>. QED  BY <1>5, <3>2, OneRecord DEF Bond
    <2>2. total_stake' \in 0 .. Word - 1
      <3>1. total_stake + a \in Int
        BY <1>0
      <3>. QED  BY <1>5, <1>a, <3>1 DEF Bond
    <2>. QED  BY <1>5, <1>c, <2>1, <2>2 DEF Bond, TypeOK, history
  <1>6. ASSUME NEW v \in Ids, NEW a \in Amounts, Delegate(v, a) PROVE TypeOK'
    <2>0. validators[v] # None
      BY <1>6 DEF Delegate, GetActive, Present
    <2>1. validators' \in [Ids -> ValidatorRecords \cup {None}]
      <3>1. validators[v].delegated_stake + a \in Nat
        BY <1>d, <2>0
      <3>2. WithStake(validators[v], validators[v].stake, validators[v].delegated_stake + a)
              \in ValidatorRecords
        BY <1>d, <2>0, <3>1, RecordTypes
      <3>. QED  BY <1>6, <3>2, OneRecord DEF Delegate
    <2>2. total_stake' \in 0 .. Word - 1
      BY <1>0, <1>6, <1>a DEF Delegate
    <2>3. delegations' \in [Ids -> Nat]
      <3>1. delegations[v] + a \in Nat
        <4>1. delegations[v] \in Nat
          BY DEF TypeOK
        <4>2. a \in Nat
          OBVIOUS
        <4>. QED  BY <4>1, <4>2
      <3>2. delegations' = [delegations EXCEPT ![v] = delegations[v] + a]
        BY <1>6 DEF Delegate
      <3>. QED  BY <3>1, <3>2 DEF TypeOK
    <2>. QED  BY <1>6, <1>c, <2>1, <2>2, <2>3 DEF Delegate, TypeOK, history
  <1>7. ASSUME NEW v \in Ids, UnbondStart(v) PROVE TypeOK'
    <2>0. validators[v] # None
      BY <1>7 DEF UnbondStart, GetActive, Present
    <2>1. validators' \in [Ids -> ValidatorRecords \cup {None}]
      <3>1. Moved(validators[v], "Unbonding", validators[v].jailed_until, current_epoch)
              \in ValidatorRecords
        BY <1>0, <1>d, <2>0, RecordTypes DEF ValidatorStatus
      <3>. QED  BY <1>7, <3>1, OneRecord DEF UnbondStart
    <2>. QED  BY <1>7, <1>c, <2>1 DEF UnbondStart, TypeOK, history
  <1>8. ASSUME NEW v \in Ids, UnbondComplete(v) PROVE TypeOK'
    <2>1. validators' \in [Ids -> ValidatorRecords \cup {None}]
      <3>1. Moved(validators[v], "Removed", validators[v].jailed_until,
                  validators[v].unbonding_start) \in ValidatorRecords
        BY <1>8, <1>d, RecordTypes DEF ValidatorStatus, UnbondComplete
      <3>. QED  BY <1>8, <3>1, OneRecord DEF UnbondComplete
    <2>2. total_stake' \in 0 .. Word - 1
      BY <1>8, <1>b, <1>d DEF UnbondComplete
    <2>. QED  BY <1>8, <1>c, <2>1, <2>2 DEF UnbondComplete, TypeOK
  <1>9. ASSUME NEW v \in Ids, NEW t \in SlashType, Slash(v, t) PROVE TypeOK'
    <2>. DEFINE amount == SlashAmount(t, TotalStake(validators[v]))
    <2>1. amount \in Nat
      BY <1>9, <1>d, SlashAmountType DEF Slash
    <2>2. /\ validators' = [validators EXCEPT ![v] = Jail(validators[v], amount)]
          /\ total_stake' = SaturatingSub(total_stake, amount)
          /\ exact' = (exact /\ amount <= validators[v].stake /\ amount <= total_stake)
      BY <1>9 DEF Slash
    <2>. HIDE DEF amount
    <2>3. validators' \in [Ids -> ValidatorRecords \cup {None}]
      <3>1. Jail(validators[v], amount) \in ValidatorRecords
        BY <1>9, <1>d, <2>1, RecordTypes DEF Slash
      <3>. QED  BY <2>2, <3>1, OneRecord
    <2>4. total_stake' \in 0 .. Word - 1
      BY <1>b, <2>1, <2>2
    <2>5. exact' \in BOOLEAN
      BY <2>2
    <2>6. /\ slashing_records' \in [Ids -> Nat]
          /\ slashed_at' \in [Ids -> Epochs \cup {None}]
          /\ resurrected' \subseteq paid'
      BY <1>0, <1>9 DEF Slash, TypeOK
    <2>. QED  BY <1>9, <1>c, <2>3, <2>4, <2>5, <2>6 DEF Slash, TypeOK
  <1>10. CASE UNCHANGED vars
    BY <1>10 DEF vars, TypeOK
  <1>. QED
    BY <1>1, <1>2, <1>3, <1>4, <1>5, <1>6, <1>7, <1>8, <1>9, <1>10 DEF Next

\* The stakes stay natural numbers and total_stake within its word, whatever
\* is bonded, slashed and paid out.
THEOREM TypesHold == Spec => []TypeOK
  <1>1. Init => TypeOK
    BY NumbersAssumption DEF Init, TypeOK, Epochs
  <1>. QED  BY <1>1, TypeStep, PTL DEF Spec
-----------------------------------------------------------------------------
(* Rewards *)

\* The shares of a reward add up to no more than the reward: times the active
\* stake they are at most the reward times that stake, without the commission.
LEMMA SharesWithinReward ==
  ASSUME TypeOK, NEW r \in Nat
  PROVE  SumFunctionOnSet([v \in Ids |-> Reward(v, r)], Ids) <= r
  <1>. DEFINE R == r - (r \div 10)
              A == ActiveStake
              share == [v \in Ids |-> Reward(v, r)]
              held == [v \in Ids |-> IF v \in GetActive THEN TotalStake(validators[v]) ELSE 0]
              scaled == [v \in Ids |-> A * share[v]]
              bound == [v \in Ids |-> R * held[v]]
              total == SumFunctionOnSet(share, Ids)
  <1>1. R \in Nat /\ R <= r /\ A \in Nat
    BY StakeTypes
  <1>2. \A v \in Ids : share[v] \in Nat /\ held[v] \in Nat /\ A * share[v] <= R * held[v]
    <2>. SUFFICES ASSUME NEW v \in Ids
                  PROVE  share[v] \in Nat /\ held[v] \in Nat /\ A * share[v] <= R * held[v]
      OBVIOUS
    <2>1. v \in GetActive => TotalStake(validators[v]) \in Nat
      BY StakeTypes
    <2>. QED  BY <2>1, RewardBounds
  <1>3. A = SumFunctionOnSet(held, Ids)
    BY DEF ActiveStake
  <1>4. CASE A = 0
    <2>1. \A v \in Ids : share[v] = 0
      BY <1>4 DEF Reward
    <2>2. total = 0
      <3>. HIDE DEF share
      <3>. QED  BY <2>1, IdsAssumption, SumZero
    <2>. QED  BY <2>2
  <1>5. CASE A # 0
    <2>1. total \in Nat
      <3>. HIDE DEF share, held
      <3>. QED  BY <1>2, IdsAssumption, SumNat
    <2>. HIDE DEF A, R, share, held
    <2>2. SumFunctionOnSet(scaled, Ids) = A * total
      <3>1. \A v \in Ids : share[v] \in Int /\ scaled[v] = A * share[v]
        BY <1>2
      <3>. HIDE DEF scaled
      <3>. QED  BY <1>1, <3>1, IdsAssumption, SumScale
    <2>3. SumFunctionOnSet(bound, Ids) = R * A
      <3>1. \A v \in Ids : held[v] \in Int /\ bound[v] = R * held[v]
        BY <1>2
      <3>. HIDE DEF bound
      <3>. QED  BY <1>1, <1>3, <3>1, IdsAssumption, SumScale
    <2>4. SumFunctionOnSet(scaled, Ids) <= SumFunctionOnSet(bound, Ids)
      <3>1. \A v \in Ids : scaled[v] \in Int /\ bound[v] \in Int /\ scaled[v] <= bound[v]
        BY <1>1, <1>2
      <3>. HIDE DEF scaled, bound
      <3>. QED  BY <3>1, IdsAssumption, SumAtMost
    <2>5. A * total <= R * A
      BY <2>2, <2>3, <2>4
    <2>. HIDE DEF total
    <2>6. total <= R
      BY <1>1, <1>5, <2>1, <2>5
    <2>7. total <= r
      BY <1>1, <2>1, <2>6
    <2>. QED  BY <2>7 DEF total, share
  <1>. QED  BY <1>4, <1>5

\* No sequence of distributions credits more than was announced, although
\* every share is rounded and the stakes change in between.
THEOREM RewardsStayWithin == Spec => []RewardsWithin
  <1>1. Init => RewardsWithin
    BY DEF Init, RewardsWithin
  <1>2. TypeOK /\ RewardsWithin /\ [Next]_vars => RewardsWithin'
    <2>. SUFFICES ASSUME TypeOK, RewardsWithin, [Next]_vars PROVE RewardsWithin'
      OBVIOUS
    <2>1. ASSUME NEW r \in Rewards, DistributeRewards(r) PROVE RewardsWithin'
      <3>. DEFINE paidOut == SumFunctionOnSet([v \in Ids |-> Reward(v, r)], Ids)
      <3>1. r \in Nat
        BY NumbersAssumption
      <3>2. paidOut <= r /\ paidOut \in Int
        <4>1. paidOut <= r
          BY <3>1, SharesWithinReward
        <4>2. \A v \in Ids : [u \in Ids |-> Reward(u, r)][v] \in Int
          BY <3>1, RewardBounds
        <4>. QED  BY <4>1, <4>2, IdsAssumption, SumInt
      <3>3. rewards' = [announced |-> rewards.announced + r,
                        credited |-> rewards.credited + paidOut]
        BY <2>1 DEF DistributeRewards
      <3>. HIDE DEF paidOut
      <3>. QED  BY <3>1, <3>2, <3>3 DEF RewardsWithin, TypeOK
    <2>2. CASE UNCHANGED rewards
      BY <2>2 DEF RewardsWithin
    <2>. QED
      BY <2>1, <2>2 DEF Next, vars, history, EpochTransition, Add, RemoveValidator, Bond, Delegate,
         UnbondStart, UnbondComplete, Slash
  <1>. QED  BY <1>1, <1>2, TypesHold, PTL DEF Spec
-----------------------------------------------------------------------------
(* The total stake *)

\* What a validator adds to the recorded stake.
StakeHeld(v) == IF v \in Present THEN TotalStake(validators[v]) ELSE 0

\* A step that changes one validator changes the recorded stake by as much.
LEMMA RecordedChange ==
  ASSUME TypeOK, TypeOK', NEW v \in Ids,
         \A u \in Ids : u # v => validators'[u] = validators[u]
  PROVE  /\ RecordedStake \in Int
         /\ StakeHeld(v) \in Nat /\ StakeHeld(v)' \in Nat
         /\ RecordedStake' = RecordedStake - StakeHeld(v) + StakeHeld(v)'
  <1>. DEFINE f == [u \in Ids |-> IF u \in Present THEN TotalStake(validators[u]) ELSE 0]
              g == [u \in Ids |-> IF u \in Present' THEN TotalStake(validators'[u]) ELSE 0]
  <1>1. \A u \in Ids : f[u] \in Nat /\ g[u] \in Nat
    BY DEF Present, TypeOK, TotalStake, ValidatorRecords
  <1>2. \A u \in Ids : u # v => g[u] = f[u]
    BY DEF Present
  <1>3. RecordedStake = SumFunctionOnSet(f, Ids) /\ RecordedStake' = SumFunctionOnSet(g, Ids)
    BY DEF RecordedStake, Present, TotalStake
  <1>4. f[v] = StakeHeld(v) /\ g[v] = StakeHeld(v)'
    BY DEF StakeHeld, TotalStake
  <1>. HIDE DEF f, g
  <1>5. SumFunctionOnSet(f, Ids) \in Int
    BY <1>1, IdsAssumption, SumInt
  <1>6. SumFunctionOnSet(g, Ids) = SumFunctionOnSet(f, Ids) - f[v] + g[v]
    BY <1>1, <1>2, IdsAssumption, SumChange
  <1>. QED  BY <1>1, <1>3, <1>4, <1>5, <1>6

\* A step in which every validator keeps its stakes keeps the recorded stake.
LEMMA RecordedSame ==
  ASSUME \A u \in Ids : StakeHeld(u)' = StakeHeld(u)
  PROVE  RecordedStake' = RecordedStake
  <1>. DEFINE f == [u \in Ids |-> IF u \in Present THEN TotalStake(validators[u]) ELSE 0]
              g == [u \in Ids |-> IF u \in Present' THEN TotalStake(validators'[u]) ELSE 0]
  <1>1. \A u \in Ids : g[u] = f[u]
    BY DEF StakeHeld, TotalStake
  <1>2. f = g
    BY <1>1
  <1>3. RecordedStake = SumFunctionOnSet(f, Ids) /\ RecordedStake' = SumFunctionOnSet(g, Ids)
    BY DEF RecordedStake, Present, TotalStake
  <1>. QED  BY <1>2, <1>3

\* Adding to total_stake what one validator's stake grows by, or taking away
\* what it shrinks by, keeps it the wrapped sum.
LEMMA InStep ==
  ASSUME TypeOK, TypeOK', NEW v \in Ids,
         \A u \in Ids : u # v => validators'[u] = validators[u],
         total_stake = RecordedStake % Word,
         total_stake' = (total_stake + (StakeHeld(v)' - StakeHeld(v))) % Word
  PROVE  total_stake' = RecordedStake' % Word
  <1>. DEFINE x == StakeHeld(v)' - StakeHeld(v)
  <1>1. RecordedStake \in Int /\ x \in Int /\ RecordedStake' = RecordedStake + x
    BY RecordedChange
  <1>. HIDE DEF x
  <1>2. ((RecordedStake % Word) + x) % Word = (RecordedStake + x) % Word
    BY <1>1, NumbersAssumption, RemainderPlus
  <1>3. total_stake' = (total_stake + x) % Word
    BY DEF x
  <1>. QED  BY <1>1, <1>2, <1>3

\* total_stake is the wrapped sum of the recorded stakes for as long as none of
\* the operations that are known to break it has happened.
THEOREM TotalStakeIsExact == Spec => []TotalStakeExact
  <1>. USE NumbersAssumption, NoneAssumption
  <1>1. Init => TotalStakeExact
    <2>. SUFFICES ASSUME Init PROVE TotalStakeExact
      OBVIOUS
    <2>. DEFINE f == [u \in Ids |-> IF u \in Present THEN TotalStake(validators[u]) ELSE 0]
    <2>1. \A u \in Ids : f[u] = 0
      BY DEF Init, Present
    <2>2. SumFunctionOnSet(f, Ids) = 0
      <3>. HIDE DEF f
      <3>. QED  BY <2>1, IdsAssumption, SumZero
    <2>3. 0 % Word = 0
      OBVIOUS
    <2>. QED  BY <2>2, <2>3 DEF Init, TotalStakeExact, RecordedStake
  <1>2. TypeOK /\ TypeOK' /\ TotalStakeExact /\ [Next]_vars => TotalStakeExact'
    <2>. SUFFICES ASSUME TypeOK, TypeOK', TotalStakeExact, [Next]_vars, exact'
                  PROVE  total_stake' = RecordedStake' % Word
      BY DEF TotalStakeExact
    <2>0. /\ total_stake \in Nat /\ total_stake < Word
          /\ validators = [u \in Ids |-> validators[u]]
          /\ \A u \in Ids : validators[u] # None =>
                /\ validators[u] \in ValidatorRecords
                /\ validators[u].stake \in Nat /\ validators[u].delegated_stake \in Nat
                /\ validators[u].jailed_until \in Nat
                /\ validators[u].unbonding_start \in Epochs \cup {None}
      BY DEF TypeOK, ValidatorRecords
    <2>a. ASSUME exact, \A u \in Ids : StakeHeld(u)' = StakeHeld(u), UNCHANGED total_stake
          PROVE  total_stake' = RecordedStake' % Word
      <3>1. RecordedStake' = RecordedStake
        BY <2>a, RecordedSame
      <3>. QED  BY <2>a, <3>1 DEF TotalStakeExact
    <2>1. ASSUME NEW e \in current_epoch .. MaxEpoch, EpochTransition(e)
          PROVE  total_stake' = RecordedStake' % Word
      <3>1. ASSUME NEW u \in Ids PROVE StakeHeld(u)' = StakeHeld(u)
        <4>1. \/ validators'[u] = validators[u]
              \/ /\ validators[u] # None
                 /\ validators'[u] = Moved(validators[u], "Active", 0,
                                           validators[u].unbonding_start)
          BY <2>1 DEF EpochTransition
        <4>2. validators[u] # None => Moved(validators[u], "Active", 0,
                                            validators[u].unbonding_start) # None
          <5>. SUFFICES ASSUME validators[u] # None
                        PROVE  Moved(validators[u], "Active", 0, validators[u].unbonding_start)
                                 \in ValidatorRecords
            OBVIOUS
          <5>. QED  BY <2>0, RecordTypes DEF ValidatorStatus
        <4>. QED  BY <4>1, <4>2 DEF StakeHeld, Present, TotalStake, Moved
      <3>. QED  BY <2>1, <2>a, <3>1 DEF EpochTransition, history
    <2>2. ASSUME NEW r \in Rewards, DistributeRewards(r)
          PROVE  total_stake' = RecordedStake' % Word
      <3>1. exact /\ r = 0
        BY <2>2 DEF DistributeRewards
      <3>2. total_stake' = total_stake
        <4>1. total_stake' = (total_stake + 0) % Word
          BY <2>2, <3>1 DEF DistributeRewards
        <4>2. ((Word * 0) + total_stake) % Word = total_stake
          <5>1. total_stake \in 0 .. Word - 1
            BY DEF TypeOK
          <5>. QED  BY <5>1, RemainderUnique
        <4>. QED  BY <2>0, <4>1, <4>2
      <3>3. ASSUME NEW u \in Ids PROVE StakeHeld(u)' = StakeHeld(u)
        <4>1. Reward(u, r) = 0
          BY <3>1, RewardBounds
        <4>2. CASE u \in GetActive
          <5>1. validators[u] # None
            BY <4>2 DEF GetActive, Present
          <5>2. validators'[u] = WithStake(validators[u], validators[u].stake,
                                           validators[u].delegated_stake)
            BY <2>0, <2>2, <4>1, <4>2, <5>1 DEF DistributeRewards
          <5>3. validators'[u] # None
            <6>1. /\ validators[u] \in ValidatorRecords
                  /\ validators[u].stake \in Nat /\ validators[u].delegated_stake \in Nat
              BY <2>0, <5>1
            <6>2. WithStake(validators[u], validators[u].stake, validators[u].delegated_stake)
                    \in ValidatorRecords
              BY <6>1, RecordTypes
            <6>. QED  BY <5>2, <6>2
          <5>. QED  BY <5>1, <5>2, <5>3 DEF StakeHeld, Present, TotalStake, WithStake
        <4>3. CASE u \notin GetActive
          BY <2>2, <4>3 DEF DistributeRewards, StakeHeld, Present, TotalStake
        <4>. QED  BY <4>2, <4>3
      <3>. QED  BY <2>a, <3>1, <3>2, <3>3
    <2>3. ASSUME NEW v \in Ids, NEW s \in Stakes, Add(v, s)
          PROVE  total_stake' = RecordedStake' % Word
      <3>1. validators'[v] = NewValidator(s) /\ validators[v] = None /\ exact
        BY <2>0, <2>3 DEF Add
      <3>2. NewValidator(s) # None
        BY DEF NewValidator, ValidatorRecords, CalculatePower, ValidatorStatus
      <3>3. StakeHeld(v) = 0 /\ StakeHeld(v)' = s
        BY <3>1, <3>2 DEF StakeHeld, Present, TotalStake, NewValidator
      <3>4. total_stake' = (total_stake + (StakeHeld(v)' - StakeHeld(v))) % Word
        BY <2>3, <3>3 DEF Add
      <3>5. \A u \in Ids : u # v => validators'[u] = validators[u]
        BY <2>0, <2>3 DEF Add
      <3>. QED  BY <3>1, <3>4, <3>5, InStep DEF TotalStakeExact
    <2>4. ASSUME NEW v \in Ids, RemoveValidator(v) PROVE total_stake' = RecordedStake' % Word
      <3>1. validators[v] # None /\ validators'[v] = None /\ exact
        BY <2>0, <2>4 DEF RemoveValidator, history
      <3>2. StakeHeld(v) = TotalStake(validators[v]) /\ StakeHeld(v)' = 0
        BY <3>1 DEF StakeHeld, Present
      <3>3. TotalStake(validators[v]) \in Nat
        BY <2>0, <3>1 DEF TotalStake
      <3>4. total_stake' = (total_stake + (StakeHeld(v)' - StakeHeld(v))) % Word
        <4>1. total_stake - TotalStake(validators[v])
                = total_stake + (StakeHeld(v)' - StakeHeld(v))
          BY <2>0, <3>2, <3>3
        <4>. QED  BY <2>4, <4>1 DEF RemoveValidator
      <3>5. \A u \in Ids : u # v => validators'[u] = validators[u]
        BY <2>0, <2>4 DEF RemoveValidator
      <3>. QED  BY <3>1, <3>4, <3>5, InStep DEF TotalStakeExact
    <2>5. ASSUME NEW v \in Ids, NEW a \in Amounts, Bond(v, a) \/ Delegate(v, a)
          PROVE  total_stake' = RecordedStake' % Word
      <3>1. /\ validators[v] # None /\ exact
            /\ total_stake' = (total_stake + a) % Word
            /\ \A u \in Ids : u # v => validators'[u] = validators[u]
        BY <2>0, <2>5 DEF Bond, Delegate, GetActive, Present, history
      <3>2. PICK s, d \in Nat : /\ validators'[v] = WithStake(validators[v], s, d)
                                /\ s + d = validators[v].stake + validators[v].delegated_stake + a
        <4>1. validators[v].stake \in Nat /\ validators[v].delegated_stake \in Nat /\ a \in Nat
          BY <2>0, <3>1
        <4>2. CASE Bond(v, a)
          <5>1. validators'[v] = WithStake(validators[v], validators[v].stake + a,
                                           validators[v].delegated_stake)
            BY <2>0, <4>2 DEF Bond
          <5>2. /\ validators[v].stake + a \in Nat
                /\ (validators[v].stake + a) + validators[v].delegated_stake
                     = validators[v].stake + validators[v].delegated_stake + a
            BY <4>1
          <5>. QED  BY <4>1, <5>1, <5>2
        <4>3. CASE Delegate(v, a)
          <5>1. validators'[v] = WithStake(validators[v], validators[v].stake,
                                           validators[v].delegated_stake + a)
            BY <2>0, <4>3 DEF Delegate
          <5>2. /\ validators[v].delegated_stake + a \in Nat
                /\ validators[v].stake + (validators[v].delegated_stake + a)
                     = validators[v].stake + validators[v].delegated_stake + a
            BY <4>1
          <5>. QED  BY <4>1, <5>1, <5>2
        <4>. QED  BY <2>5, <4>2, <4>3
      <3>3. validators'[v] # None
        BY <2>0, <3>1, <3>2, RecordTypes
      <3>4. StakeHeld(v) = validators[v].stake + validators[v].delegated_stake
            /\ StakeHeld(v)' = s + d
        BY <3>1, <3>2, <3>3 DEF StakeHeld, Present, TotalStake, WithStake
      <3>5. StakeHeld(v)' - StakeHeld(v) = a
        BY <2>0, <3>1, <3>2, <3>4
      <3>. QED  BY <3>1, <3>5, InStep DEF TotalStakeExact
    <2>6. ASSUME NEW v \in Ids, UnbondStart(v) PROVE total_stake' = RecordedStake' % Word
      <3>1. /\ validators[v] # None /\ exact /\ total_stake' = total_stake
            /\ validators'[v] = Moved(validators[v], "Unbonding",
                                      validators[v].jailed_until, current_epoch)
            /\ \A u \in Ids : u # v => validators'[u] = validators[u]
        BY <2>0, <2>6 DEF UnbondStart, GetActive, Present, history
      <3>2. validators'[v] # None
        <4>1. current_epoch \in Epochs \cup {None}
          BY DEF TypeOK
        <4>2. validators[v] \in ValidatorRecords /\ validators[v].jailed_until \in Nat
          BY <2>0, <3>1
        <4>3. "Unbonding" \in ValidatorStatus
          BY DEF ValidatorStatus
        <4>4. Moved(validators[v], "Unbonding", validators[v].jailed_until, current_epoch)
                \in ValidatorRecords
          BY <4>1, <4>2, <4>3, RecordTypes
        <4>. QED  BY <3>1, <4>4
      <3>3. \A u \in Ids : StakeHeld(u)' = StakeHeld(u)
        BY <3>1, <3>2 DEF StakeHeld, Present, TotalStake, Moved
      <3>. QED  BY <2>a, <3>1, <3>3
    <2>7. ASSUME NEW v \in Ids, UnbondComplete(v) PROVE FALSE
      BY <2>7 DEF UnbondComplete
    <2>8. ASSUME NEW v \in Ids, NEW t \in SlashType, Slash(v, t)
          PROVE  total_stake' = RecordedStake' % Word
      <3>. DEFINE amount == SlashAmount(t, TotalStake(validators[v]))
      <3>1. /\ validators[v] # None /\ exact
            /\ amount <= validators[v].stake /\ amount <= total_stake
            /\ validators'[v] = Jail(validators[v], amount)
            /\ total_stake' = SaturatingSub(total_stake, amount)
            /\ \A u \in Ids : u # v => validators'[u] = validators[u]
        BY <2>0, <2>8 DEF Slash
      <3>2. amount \in Nat
        BY <2>0, <3>1, SlashAmountType DEF TotalStake
      <3>. HIDE DEF amount
      <3>3. validators'[v] # None
        BY <2>0, <3>1, <3>2, RecordTypes
      <3>4. /\ StakeHeld(v) = validators[v].stake + validators[v].delegated_stake
            /\ StakeHeld(v)' = validators[v].stake - amount + validators[v].delegated_stake
        BY <2>0, <3>1, <3>2, <3>3 DEF StakeHeld, Present, TotalStake, Jail, SaturatingSub
      <3>5. StakeHeld(v)' - StakeHeld(v) = - amount
        BY <2>0, <3>1, <3>2, <3>4
      <3>6. total_stake' = (total_stake + (StakeHeld(v)' - StakeHeld(v))) % Word
        <4>1. total_stake' = total_stake - amount /\ total_stake' \in 0 .. Word - 1
          BY <2>0, <3>1, <3>2 DEF SaturatingSub
        <4>2. ((Word * 0) + total_stake') % Word = total_stake'
          BY <4>1, RemainderUnique
        <4>3. total_stake + (StakeHeld(v)' - StakeHeld(v)) = (Word * 0) + total_stake'
          BY <2>0, <3>2, <3>5, <4>1
        <4>. QED  BY <4>2, <4>3
      <3>. QED  BY <3>1, <3>6, InStep DEF TotalStakeExact
    <2>9. CASE UNCHANGED vars
      BY <2>9, <2>a DEF vars, StakeHeld, Present, TotalStake
    <2>. QED  BY <2>1, <2>2, <2>3, <2>4, <2>5, <2>6, <2>7, <2>8, <2>9 DEF Next
  <1>. QED  BY <1>1, <1>2, TypesHold, PTL DEF Spec
=============================================================================
