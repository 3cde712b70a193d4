CONSTANTS
    Thread = {t1, t2, t3}
    NoThread = NoThread
    NoReply = NoReply
    MaxRequests = 4
SPECIFICATION FairSpec
CHECK_DEADLOCK FALSE
INVARIANTS OwnReply ReplyAlive
PROPERTY SleeperIsWoken
