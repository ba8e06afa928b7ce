\* One ingest goroutine and one client that leaves during a broadcast.
SPECIFICATION Spec
CONSTANTS
    tail = tail
    tcp = tcp
    note = note
    s1 = s1
    s2 = s2
    NoSub = NoSub
    Publishers <- MCOneIngest
    Handlers <- MCNoHandler
    Subs <- MCOneSub
    BacklogSize = 2
    ChanCap = 1
    MaxSeq = 2
INVARIANT
    NoSendOnClosed
CHECK_DEADLOCK FALSE
