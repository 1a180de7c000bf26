SPECIFICATION MCSpec
CONSTANTS
    x1 = x1
    y1 = y1
    e1 = e1
    p1 = p1
    k1 = k1
    None = None
    Ids <- MCIds
    Excluded = {}
    OtherIds = {}
    Safes <- MCSafes
    Operators <- MCOperators
    Outsiders <- MCOutsiders
    Contracts <- MCContracts
    USDC = "usdc"
    WETH = "weth"
    ETH = "eth"
    Prices = {1, 2}
    DayLength = 2
    Window = 2
    LifetimePositions = 0
    MaxNow = 6
    MaxFlows = 2
    MaxPositions = 1
    MaxDeployments = 2
CHECK_DEADLOCK FALSE
INVARIANTS
    
    SnapshottedDaily
    PopulationOfDay
PROPERTIES
    GoesOnSnapshotting
    
