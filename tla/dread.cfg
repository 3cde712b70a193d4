CONSTANTS
    m = m  a = a  b = b  l = l  e = e
    Thread = {m, a, b}
    Main = m
    Topmost = Topmost
    Nobody = Nobody
    Lock = {l}
    Event = {e}
    Initial <- AllFree
    LockOf <- OneLock
    StackSize <- OneSmaller
    NoStack = NoStack
    MaxStacks = 3
SPECIFICATION FairSpec
CHECK_DEADLOCK FALSE
INVARIANTS NoForgottenWaiter EndIsDeadlock
PROPERTY RunnableRuns
