SPECIFICATION Spec
CONSTANTS
    Kinds = {"clcc", "creg", "sms"}
    Unasked = {"creg", "carrier", "cmt"}
    Retry = 1
    MaxSent = 2
    MaxUnasked = 1
    MaxOpen = 2
INVARIANTS
    TypeOK
    CrashExplained
    OpenChannelHeard
PROPERTIES
    PromiseKept
    AnswerOwn
    CommandReturns
CHECK_DEADLOCK FALSE
