SPECIFICATION Spec
CONSTANTS
    v1 = v1
    v2 = v2
    v3 = v3
    v4 = v4
    Voters = {v1, v2}
    Active = {v1, v2}
    Faulty = {}
    b1 = b1
    b2 = b2
    Blocks = {b1, b2}
    None = None
    h1 = h1
    Handlers = {h1}
    MaxHeight = 1
    MaxRound = 1
    MaxCalls = 2
SYMMETRY Symmetry
INVARIANTS
    VotesOfThisView
