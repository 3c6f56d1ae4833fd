SPECIFICATION Spec
CONSTANTS
    Threads = {t1, t2}
    LineIds = {1, 2, 3, 4, 5}
    FileSize = 9
    LineSize = 3
    MaxLines = 2
    Requests <- MCRequests
    MaxReads = 3
    FetchMayFail = TRUE
    GetMayTimeOut = TRUE
    NoThread = NoThread
INVARIANTS
    TypeOK
    SinglePending
    CommittedComplete
    Capacity
    NeverRefetch
PROPERTIES
    PendingStays
    RefinesFile
SYMMETRY Symmetry
