SPECIFICATION MCSpec
CONSTANTS
    m1 = m1
    m2 = m2
    e1 = e1
    e2 = e2
    s1 = s1
    s2 = s2
    p1 = p1
    p2 = p2
    None = None
    InitialOwners <- MCInitialOwners
    Services = {s1, s2}
    Eoas = {e1, e2}
    Safes = {m1, m2}
    Proxies = {p1, p2}
    Indexable = {p1}
    Operators = {e1, m1}
    PreExisting = {s1, s2}
    RewardAmounts = {1}
    MaxPaid = 2
    MaxDay = 1
    MaxOwnerLogs = 2
CHECK_DEADLOCK FALSE
INVARIANTS
    TablesMirrorChain
    RowsSound
PROPERTIES
    RolesFrozen
