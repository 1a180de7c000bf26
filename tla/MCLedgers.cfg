SPECIFICATION Spec
CONSTANTS
    a1 = a1
    b1 = b1
    e1 = e1
    k1 = k1
    o1 = o1
    p1 = p1
    q1 = q1
    x1 = x1
    y1 = y1
    burner = burner
    ve = ve
    zero = zero
    None = None
SYMMETRY Symmetry
CHECK_DEADLOCK FALSE
INVARIANTS
    ActivityCredited
    
    LegacyFeesAddUp
    HoldersMirrorChain
    
    
    PriceIsRecent
    
    
