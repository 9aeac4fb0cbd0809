CONSTANTS
    Vendor = {"reader", "main"}
    MaxReports = 2
    MaxCalls = 1
SPECIFICATION Spec
INVARIANTS
    TypeOK
    WakeTimerKnown
PROPERTIES
    TimersFire
CHECK_DEADLOCK FALSE
