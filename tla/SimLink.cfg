SPECIFICATION Spec
CONSTANTS
    Interval = 4
    Timeout = 7
    MaxConn = 4
    Backlog = 2
    MaxQ = 1
    MaxBusy = 5
    MaxFault = 2
    MaxFail = 1
    FdLimit = 2
INVARIANTS
    TypeOK
    SilenceAnswered
    SocketsAccounted
PROPERTIES
    ReachableClientKept
    LinkRecovers
