SPECIFICATION Spec
CONSTANTS
    Threads = {t1, t2, t3}
    LineIds = {1, 2, 3, 4, 5}
    FileSize = 9
    LineSize = 3
    MaxLines = 2
    Requests <- LiveRequests
    MaxReads = 1
    FetchMayFail = FALSE
    GetMayTimeOut = FALSE
    NoThread = NoThread
INVARIANT
    ReadsDeliver
PROPERTY
    EveryReadReturns
