SPECIFICATION DaemonSpec
CONSTANTS
    MaxSsr = 1
    MaxDrop = 0
CHECK_DEADLOCK FALSE
PROPERTY
    ModemLearnsOfClient
