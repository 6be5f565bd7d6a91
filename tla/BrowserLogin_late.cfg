SPECIFICATION BrowserLoginSpec
CONSTANTS
    GotoTries = 3
    WaitRounds = 3
CHECK_DEADLOCK FALSE
INVARIANT NoticedSlidersAreTried
