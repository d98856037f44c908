SPECIFICATION Spec
CONSTANTS
    N = 1
    MaxAttempts = 2
    MaxFills = 1
    MaxPresses = 0
    StrikeLimit = 1
    Starved = TRUE
    MayVanish = TRUE
    AnyRow = TRUE
    HeldOff = TRUE
    Hooks = "lost"
PROPERTY DeliveryEnds
