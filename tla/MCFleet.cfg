SPECIFICATION FairSpec
CONSTANTS
    s1 = s1
    s2 = s2
    t1 = t1
    t2 = t2
    None = None
    Session <- OneSession
    Thread <- TwoThreads
    MaxChanges = 2
    MaxFails = 1
    MaxCrashes = 1
    Quiet = 1
    Cap = 2
    Chatty = TRUE
    Drafts = TRUE
INVARIANT TypeOK
INVARIANT NothingUnsaved
PROPERTY CatchesUp
