SPECIFICATION Spec
CONSTANTS
    FirstBlock = 1
    FirstBond = 0
    TopUpError = 1
    Bonds = {0, 1}
    Amounts = {1}
    Nominees = {n1, n2}
    ClaimAgain = FALSE
    MaxBlock = 4
    MaxEpoch = 3
    MaxItems = 2
SYMMETRY Symmetry
CHECK_DEADLOCK FALSE
INVARIANTS
    IInv
    
    BondsMatureOnce
    CapacityOfLastEvent
PROPERTY
    SettledEpochsKept
