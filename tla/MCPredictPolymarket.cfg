SPECIFICATION MCSpec
CONSTANTS
    None = None
    a1 = a1
    a2 = a2
    s1 = s1
    Safes = {a1, a2}
    Services = {s1, s2}
    AgentIds = {86, 87}
    Conditions = {c1, c2}
    Questions = {q1}
    Fills <- MCFills
    Adapters = {x1}
    MaxNow = 1
    DayLength = 1
    MaxBets = 2
    MaxRedemptions = 1
    MaxResolutions = 2
SYMMETRY Symmetry
CHECK_DEADLOCK FALSE
INVARIANTS
    
    NobodyForgotten
    CohortComplete
PROPERTIES
    ResolutionFinal
