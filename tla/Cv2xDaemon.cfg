SPECIFICATION Spec
CONSTANTS MaxTrouble = 2
INVARIANTS StartsSound SuspendHandled
PROPERTIES CallsUp
CHECK_DEADLOCK FALSE
