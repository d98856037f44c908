SPECIFICATION Spec
CONSTANTS
    s1 = s1
    s2 = s2
    t1 = t1
    t2 = t2
    None = None
    Session <- TwoSessions
    Thread <- TwoThreads
    MaxChanges = 1
    MaxFails = 1
    MaxCrashes = 1
    Quiet = 2
    Cap = 3
    Chatty = TRUE
    Drafts = FALSE
INVARIANT SurvivesCrash
