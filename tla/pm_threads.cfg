CONSTANTS
    t1 = t1  t2 = t2
    MaxPid = 3
    MaxElement = 3
    Thread = {t1, t2}
    AllowOverlay = TRUE
    AnyGroup = TRUE
SPECIFICATION Spec
CHECK_DEADLOCK FALSE
INVARIANT NoMissedExit
SYMMETRY ThreadSymmetry
