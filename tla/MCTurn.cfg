SPECIFICATION Spec
CONSTANTS
    Floor = 2
    Skew = 1
    Quiet = 2
    IdleQuiet = 2
    IdleFloor = 2
    Grace = 2
    ExtGrace = 2
    Fresh = 2
    Settle = 2
    HoldMax = 3
    Delay = 1
    Lag = 1
    Landing = 1
    MaxQueued = 1
    MaxInputs = 2
    MaxFaults = 1
    Horizon = 4
    MaxNow = 8
INVARIANT TypeOK
PROPERTIES CompletionAtRest StateCatchesUp
CHECK_DEADLOCK FALSE
