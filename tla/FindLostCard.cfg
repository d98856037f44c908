SPECIFICATION Spec
CONSTANTS
    Tap = {t1}
    MaxVersion = 3
    Trouble = {"deleted", "pushed", "rekeyed", "restarted", "switched", "refused", "failed", "parked"}
    MaxTrouble = 2
    Races = {"rekey"}
    None = None
INVARIANT PostIsUnderWay
CHECK_DEADLOCK FALSE
