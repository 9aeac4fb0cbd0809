SPECIFICATION Spec
CONSTANTS
    Apdu = {a1, a2}
    MaxReq = 1
    MaxCard = 2
    Untimely = {"early", "late"}
CHECK_DEADLOCK FALSE
INVARIANTS
    CrashExplained
    
PROPERTY
    MainReturns
