SPECIFICATION Spec
CONSTANTS
    c1 = c1
    c2 = c2
    c3 = c3
    None = None
    StakeOf <- MCStakeOf
    Services = {s1, s2}
    Contracts = {c1, c2, c3}
    Allowed = {c1, c2}
    RewardAmounts = {3}
    MaxEpoch = 2
    MaxDay = 2
    MaxStaked = 3
SYMMETRY Symmetry
CHECK_DEADLOCK FALSE
INVARIANTS
    IInv
    HistoryAddsUp
    TotalsAgree
PROPERTIES
    SettledRowsFrozen
    CheckpointSettlesAll
    LedgerSpec
