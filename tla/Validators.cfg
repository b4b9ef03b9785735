SPECIFICATION Spec
CONSTANTS
  None = None
  Ids = {a, b, c}
  MinStake = 20
  PowerUnit = 10
  UnbondingPeriod = 2
  JailPeriod = 1
  MaxValidators = 2
  Word = 256
  Stakes = {19, 20}
  Amounts = {40, 400}
  Rewards = {10}
  MaxEpoch = 3
  MaxCalls = 6
SYMMETRY Symmetry
INVARIANTS
  JailServed
  RewardsWithin
  TotalStakeExact
