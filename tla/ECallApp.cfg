SPECIFICATION Spec
CONSTANTS
    MaxCall = 2
    MaxTry = 2
    MaxReenable = 1
CHECK_DEADLOCK FALSE
INVARIANTS
    CallFollowed
PROPERTIES
    ShutdownHeldOff
    EndNoticed
