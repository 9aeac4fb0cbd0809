SPECIFICATION Spec
CONSTANTS
    Vendor = {"reader"}
    MaxConn = 2
    MaxAsked = 2
    MaxNews = 2
    MaxWork = 3
    MaxFailed = 1
INVARIANTS
    EventTableSound
    RequestsSound
    NitzKept

    
CHECK_DEADLOCK FALSE
