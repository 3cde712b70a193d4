CONSTANTS
    t1 = t1  t2 = t2
    MaxPid = 4
    MaxElement = 3
    Thread = {t1}
    AllowOverlay = FALSE
    AnyGroup = FALSE
SPECIFICATION FairSpec
CHECK_DEADLOCK FALSE
INVARIANTS GroupMembership ForegroundRuns
PROPERTIES SessionKept SpawnAnswered
