SPECIFICATION Spec
CONSTANTS
  None = None
  v1 = v1
  v2 = v2
  Jobs = {a}
  Operators = {b}
  Senders = {a, b}
  Verifiers = {v1, v2}
  Outputs = {out}
  Amounts = {1, 2}
  Stakes = {2, 4}
  Deltas <- MCDeltas
  VerifierLists <- MCVerifierLists
  BucketSize = 2
  InitialReputation = 2
  SuspendBelow = 1
  ReinstateAt = 2
  MaxReputation = 3
  MaxStake = 4
  MaxHeight = 2
  MaxCalls = 5
INVARIANT
  ReleasedOnVerification
