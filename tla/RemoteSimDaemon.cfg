SPECIFICATION DaemonSpec
CONSTANTS
    MaxSsr = 2
    MaxDrop = 3
CHECK_DEADLOCK FALSE
INVARIANTS
    BooksExact
    ToldOnce
PROPERTIES
    
    ClientAnnounced
