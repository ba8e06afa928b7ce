\* One tailed file and one connection, two lines in all, every way to cut them; the
\* process is started twice, and crashes or is shut down anywhere.  At most one read of
\* the file or write to the store fails, and the file is flooded during the first
\* shutdown.
SPECIFICATION ServiceFairSpec
CONSTANTS
    log = log
    c1 = c1
    Files <- MCFile
    Conns <- MCConn
    MaxLines = 2
    MaxLives = 2
CONSTRAINT MCFewFaults
INVARIANTS
    RowsInv
    InOrderOnce
    LossIsExplained
    ClosingOrder
PROPERTIES
    EventsAreKept
    ShutdownEnds
CHECK_DEADLOCK FALSE
