SPECIFICATION Spec
CONSTANTS
    Ask = {a1}
    None = None
    StopMayRace = FALSE
INVARIANTS TypeOK OpenIsServed FinishedLetsGo NoFalseRefusal OffLetsGo
PROPERTIES DialogSettles
