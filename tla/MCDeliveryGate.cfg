\* Three attempts, a reserved operation, a gate that lasts two ticks.
SPECIFICATION Spec
CONSTANTS
    a1 = a1
    a2 = a2
    a3 = a3
    clear = clear
    p = p
    q = q
    None = None
    NoTag = NoTag
    Attempt <- MCAttempt
    Reserved <- MCReserved
    Prompt <- MCPrompt
    PromptOf <- MCPromptOf
    Timeout = 2
    MaxBack = 1
    MaxSteps = 1
    MaxEpoch = 1
INVARIANT TypeOK
INVARIANT NoAdoption
PROPERTY ImplementsBoxClaim
PROPERTY LeakedGateExpires
