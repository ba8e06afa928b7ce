\* A backlog longer than the channel (500 and 256 in the code).
SPECIFICATION ReconnectSpec
CONSTANTS
    tail = tail
    tcp = tcp
    c1 = c1
    c2 = c2
    c3 = c3
    b1 = b1
    NoSub = NoSub
    Publishers <- MCOnePublisher
    Handlers <- MCNoHandler
    Subs <- MCTwoConnections
    Browsers <- MCOneBrowser
    BacklogSize = 3
    ChanCap = 2
    MaxSeq = 4
    MaxBreaks = 1
    MaxRestarts = 0
INVARIANT
    GapFree
CHECK_DEADLOCK FALSE
