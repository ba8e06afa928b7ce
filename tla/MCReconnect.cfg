\* A tail and a connection that publish, a backlog no longer than the channel.
\* Three messages age out of the backlog and overrun the channel.
\* The server is started twice.
SPECIFICATION ReconnectFairSpec
CONSTANTS
    tail = tail
    tcp = tcp
    c1 = c1
    c2 = c2
    c3 = c3
    b1 = b1
    NoSub = NoSub
    Publishers <- MCTwoPublishers
    Handlers <- MCNoHandler
    Subs <- MCThreeConnections
    Browsers <- MCOneBrowser
    BacklogSize = 2
    ChanCap = 2
    MaxSeq = 3
    MaxBreaks = 1
    MaxRestarts = 1
INVARIANTS
    ResumeInv
    GapsAreExplained
PROPERTY
    CatchesUp
CONSTRAINT
    MCOneByTcp
CHECK_DEADLOCK FALSE
