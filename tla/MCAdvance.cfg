SPECIFICATION Spec
CONSTANTS
    s1 = s1
    s2 = s2
    t1 = t1
    t2 = t2
    None = None
    Session <- OneSession
    Thread <- OneThread
    MaxWork = 2
    MaxRare = 1
INVARIANT TypeOK
INVARIANT NoForgottenPlan
INVARIANT NoSleepOnWork
PROPERTY PlanMovesOn
PROPERTY WatchIsSwept
