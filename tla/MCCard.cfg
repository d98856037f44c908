SPECIFICATION Spec
CONSTANTS
    Tap = {t1}
    MaxVersion = 3
    Trouble = {"deleted", "pushed", "rekeyed", "restarted", "switched", "refused", "failed", "parked"}
    MaxTrouble = 2
    Races = {}
    None = None
INVARIANTS TypeOK PostIsUnderWay  AnswerWaitsForWork
PROPERTIES  CardCatchesUp
CHECK_DEADLOCK FALSE
