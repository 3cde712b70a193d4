CONSTANTS
    sh = sh  a = a  sh1 = sh1  sh2 = sh2  a1 = a1
    Pid = {sh, a}
    Shell = sh
    Thread = {sh1, sh2, a1}
    Owner <- TwoThreads
    NoThread = NoThread
    MaxPipes = 1
    MaxBytes = 3
    MaxCount = 2
    MaxPending = 3
    MaxCutOff = 1
    Execs = {sh}
SPECIFICATION Spec
CHECK_DEADLOCK FALSE
INVARIANTS NoReadWaitsOnData PendingReadHasWriter BlockedReadIsQueued NoGhostEnd
PROPERTIES EofMeansDrained PipesAreStreams
