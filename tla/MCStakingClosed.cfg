SPECIFICATION Spec
CONSTANTS
    c1 = c1
    c2 = c2
    c3 = c3
    None = None
    StakeOf <- MCStakeOf
    Services = {s1}
    Contracts = {c1}
    Allowed = {c1}
    RewardAmounts = {1}
    MaxEpoch = 3
    MaxDay = 1
    MaxStaked = 4
CHECK_DEADLOCK FALSE
PROPERTIES
    ClosedHistoryKept
