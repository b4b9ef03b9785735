SPECIFICATION Spec
CONSTANTS
  None = None
  JobIds = {j1}
  Operators = {o1, o2}
  Challengers = {c1}
  EscalationThreshold = 2
  MaxQueue = 2
  MaxChallenges = 2
  MaxFee <- MCMaxFee
  Deadline <- MCDeadline
  Fees = {2, 3}
  Retries = {0, 2}
  Policies = {"Immediate", "Never"}
  Capacity = 2
  MaxBlock = 1
  MaxReviews = 4
  MaxAttempts = 3
INVARIANTS
  ExhaustedStaysFailed
  AccusedHeldJob
