SPECIFICATION Spec
CONSTANTS
    Safes = {x}
    Nfts = {n}
    Pool = pool
    Outsider = outsider
    Zero = zero
    BucketLength = 1
    Window = 2
    Slippages = {}
    Prices = {1}
    MaxBpt = 0
    MaxLiquidity = 1
    MaxTx = 2
    MaxNow = 1
    MaxStep = 1
CHECK_DEADLOCK FALSE
INVARIANT
    ClosedWhenTransferredOut
