\* An ingest goroutine and a note handler, two subscribers, a channel that is
\* full with one message and a backlog shorter than the history: the configured
\* size is zero, which New raises to one.  The goroutines run; subscribers need
\* not read.
SPECIFICATION FairSpec
CONSTANTS
    tail = tail
    tcp = tcp
    note = note
    s1 = s1
    s2 = s2
    NoSub = NoSub
    Publishers <- MCTwoPublishers
    Handlers <- MCHandler
    Subs <- MCSubs
    BacklogSize = 0
    ChanCap = 1
    MaxSeq = 2
INVARIANTS
    CoreInv
    OwnershipInv
    AtMostOnce
    PublisherOrder
    NoSilentGap
PROPERTIES
    ImplementsFanOut
    BroadcastEnds
    ShutdownReleasesAll
CHECK_DEADLOCK FALSE
