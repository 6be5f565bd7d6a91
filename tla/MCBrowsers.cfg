SPECIFICATION BrowserSpec
CONSTANTS
    QrSessions = {s1}
    Pages = {p1, p2, p3}
    NoPage = NoPage
    Frames = {"f1"}
    MaxRetries = 3
    MaxCalls = 2
    GotoTries = 3
    WaitRounds = 3
    Fetches = {f1, f2}
    NoFetch = NoFetch
    GotoRetries = 2
    Manual = {}
    Background = {b1}
    Runners = {r1, r2, r3}
    Heartbeats = {h1, h2, h3}
    NoClientTask = NoClientTask
    MaxBackoffs = 2
CHECK_DEADLOCK FALSE
INVARIANTS PagesAccountedFor NoOrphanScreenshot OneRecordPerAttempt SuccessIsItsOwn LearnsFromItsOwnDrag
INVARIANTS PutRight CookiesAreProbed OneHeartbeat StoppedIsQuiet NoBrowserLeft
PROPERTIES QrSuccessIsFinal MonitorEnds SolveReturns LoginReturns FetchesReturn StopComesBack
