SPECIFICATION Spec
CONSTANTS
    Threads = {t1, t2}
    LineIds = {1, 2, 3, 4}
    FileSize = 9
    LineSize = 3
    MaxLines = 2
    Requests <- FewRequests
    MaxReads = 2
    FetchMayFail = FALSE
    GetMayTimeOut = TRUE
    NoThread = NoThread
INVARIANT
    ReadsDeliver
