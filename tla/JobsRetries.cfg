SPECIFICATION Spec
CONSTANTS
  None = None
  JobIds = {j1}
  Operators = {o1}
  Challengers = {c1}
  EscalationThreshold = 2
  MaxQueue = 1
  MaxChallenges = 1
  MaxFee <- MCMaxFee
  Deadline <- MCDeadline
  Fees = {2}
  Retries = {2}
  Policies = {"Never"}
  Capacity = 2
  MaxBlock = 1
  MaxReviews = 0
  MaxAttempts = 3
INVARIANTS
  RetriesBounded
