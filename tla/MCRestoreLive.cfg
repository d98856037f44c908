SPECIFICATION Spec
CONSTANTS
    p1 = p1
    p2 = p2
    k1 = k1
    k2 = k2
    s1 = s1
    s2 = s2
    None = None
    Page <- TwoPages
    Session <- OneSession
    Key <- TwoKeys
    KeyOf <- OwnKeys
    Announced <- NotTheDefault
    HooklessSettle = 1
    ForegroundCap = 1
    BarrierCap = 2
    IdleWaitCap = 1
    Spacing = 1
    BatchSize = 1
    BatchPeriod = 2
PROPERTIES EveryWaitEnds
