SPECIFICATION Spec
CONSTANTS
    N = 2
    MaxAttempts = 2
    MaxFills = 2
    MaxPresses = 1
    StrikeLimit = 2
    Starved = FALSE
    MayVanish = FALSE
    AnyRow = FALSE
    HeldOff = FALSE
    Hooks = "prompt"
INVARIANT TypeOK
INVARIANT BoxExclusive
INVARIANT AtMostOnce
INVARIANT NoPhantomSent
PROPERTY LostVerdictSound
PROPERTY ZombieStaysOut
