SPECIFICATION CodecSpec
CONSTANTS
    Byte = 9
    MaxData = 10
    Ids = {0, 3, 8}
    Tails <- MCTails
    MaxReads = 2
CHECK_DEADLOCK FALSE
INVARIANTS
    CommandIntact
    AnswerIntact
