SPECIFICATION Spec
CONSTANTS
  None = None
  Jobs = {j1, j2}
  Challengers = {c1, c2}
  Bonds = {4, 5, 11}
  MinBond = 5
  Budgets = {0, 30}
  Costs = {9}
  MinSlash = 3
  AlphaRatio = 4000
  BetaRatio = 5000
  Windows = {0, 1}
  AppealWindow = 1
  MaxBlock = 2
SYMMETRY Symmetry
INVARIANTS
  EscrowFollowsDispute
  BondHeld
PROPERTIES
  RulingFinal
