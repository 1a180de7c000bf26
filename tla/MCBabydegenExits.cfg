SPECIFICATION Spec
CONSTANTS
    Safes = {x}
    Nfts = {}
    Ungauged = {}
    Pool = pool
    Gauge = gauge
    Router = router
    Outsider = outsider
    Zero = zero
    Prices = {1}
    MaxLp = 2
    MaxLiquidity = 0
    MaxTx = 3
    MaxBlocks = 2
CHECK_DEADLOCK FALSE
INVARIANT
    ExitRecorded
