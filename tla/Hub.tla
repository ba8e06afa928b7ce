--------------------------------- MODULE Hub ---------------------------------
(***************************************************************************)
(* The fan-out hub of internal/hub/hub.go with every goroutine that calls  *)
(* it: publishers (the file tail, one goroutine per TCP connection, the    *)
(* HTTP handler of an operator note), WebSocket handlers that subscribe,   *)
(* drain and unsubscribe, and the goroutine Shutdown starts.               *)
(*                                                                         *)
(* One action is one section under Hub.mu or one channel operation outside *)
(* it.  A message is its Seq: no code in the hub looks at anything else.   *)
(***************************************************************************)
EXTENDS Integers, Sequences, FiniteSets, Functions

CONSTANTS
    Publishers,   \* goroutines that call Publish, PublishFailure, PublishNote, ...
    Handlers,     \* the publishers net/http runs: it recovers their panics
    Subs,         \* *Subscriber values that Subscribe may allocate
    NoSub,        \* the nil *Subscriber
    BacklogSize,  \* the argument of New (backlog_size of the configuration)
    ChanCap,      \* capacity of a subscriber's channel, 256 in the code
    MaxSeq        \* bound of the model: how many messages are ever published

ASSUME HandlersAssumption == Handlers \subseteq Publishers
ASSUME NoSubAssumption    == NoSub \notin Subs
ASSUME SizesAssumption    == BacklogSize \in Int /\ ChanCap \in Nat \ {0} /\ MaxSeq \in Nat

\* New replaces a capacity below one by one.
Capacity == IF BacklogSize < 1 THEN 1 ELSE BacklogSize

VARIABLES
    seq,       \* Hub.seq, the last sequence number assigned
    backlog,   \* Hub.backlog, the retained messages
    subs,      \* Hub.subs, the registered subscribers
    closed,    \* Hub.closed
    chan,      \* chan[s]: what Subscriber.ch buffers
    chClosed,  \* subscribers whose channel is closed (and whose flag is set)
    reading,   \* subscribers whose WebSocket handler still runs
    sending,   \* sending[p]: the message p broadcasts, or broadcast last
    targets,   \* targets[p]: the part of p's snapshot of subs not served yet
    dropping,  \* dropping[p]: the subscriber p found full and will Unsubscribe
    toClose,   \* the part of Shutdown's snapshot its goroutine has not visited
    closing,   \* the subscriber whose flag that goroutine found unset
    crash      \* the run-time panic that ended the process, or "none"

\* History, read by properties only.
VARIABLES
    author,    \* author[n]: the goroutine that published message n
    got,       \* got[s]: the messages the handler of s took from the channel
    joined,    \* the subscribers Subscribe has returned
    liveFrom,  \* liveFrom[s]: Hub.seq when s subscribed
    aborted    \* messages whose loop ended in a panic net/http recovered

hubVars  == <<seq, backlog, subs, closed>>
chanVars == <<chan, chClosed, reading>>
pubVars  == <<sending, targets, dropping>>
stopVars == <<toClose, closing>>
histVars == <<author, got, joined, liveFrom, aborted>>
vars     == <<hubVars, chanVars, pubVars, stopVars, crash, histVars>>

Init ==
    /\ seq = 0
    /\ backlog = <<>>
    /\ subs = {}
    /\ closed = FALSE
    /\ chan = [s \in Subs |-> <<>>]
    /\ chClosed = {}
    /\ reading = {}
    /\ sending = [p \in Publishers |-> 0]
    /\ targets = [p \in Publishers |-> {}]
    /\ dropping = [p \in Publishers |-> NoSub]
    /\ toClose = {}
    /\ closing = NoSub
    /\ crash = "none"
    /\ author = <<>>
    /\ got = [s \in Subs |-> <<>>]
    /\ joined = {}
    /\ liveFrom = [s \in Subs |-> 0]
    /\ aborted = {}

-----------------------------------------------------------------------------
(* broadcast *)

Busy(p) == targets[p] # {} \/ dropping[p] # NoSub

\* Mutation: the trim compares before the append and keeps one message too many.
RetainOneMore(log, n) ==
    SubSeq(Append(log, n), IF Len(log) > Capacity THEN 2 ELSE 1, Len(log) + 1)

\* append, then keep the newest Capacity messages.
Retain(log, n) ==
    LET longer == Append(log, n)
    IN  SubSeq(longer, IF Len(longer) > Capacity THEN Len(longer) - Capacity + 1 ELSE 1,
               Len(longer))

\* The section under the lock.  A closed hub returns without a change.
Broadcast(p) ==
    /\ ~Busy(p)
    /\ ~closed
    /\ seq < MaxSeq
    /\ seq' = seq + 1
    /\ backlog' = Retain(backlog, seq + 1)
    /\ sending' = [sending EXCEPT ![p] = seq + 1]
    /\ targets' = [targets EXCEPT ![p] = subs]
    /\ author' = Append(author, p)
    /\ UNCHANGED <<subs, closed, chanVars, dropping, stopVars, crash,
                   got, joined, liveFrom, aborted>>

\* Mutation: the loop ranges over h.subs itself instead of the snapshot.
VisitLive(p, s) ==
    /\ dropping[p] = NoSub
    /\ targets[p] # {}
    /\ s \in subs \cup targets[p]

\* The loop without the lock takes the targets in any order (a map's).
Visit(p, s) ==
    /\ dropping[p] = NoSub
    /\ s \in targets[p]

\* Mutation: a queue without a bound in front of the channel is a stack.
DeliverFirst(p, s) ==
    /\ Visit(p, s)
    /\ s \notin chClosed
    /\ chan' = [chan EXCEPT ![s] = <<sending[p]>> \o @]
    /\ targets' = [targets EXCEPT ![p] = @ \ {s}]
    /\ UNCHANGED <<hubVars, chClosed, reading, sending, dropping, stopVars, crash, histVars>>

\* case s.ch <- m
Deliver(p, s) ==
    /\ Visit(p, s)
    /\ s \notin chClosed
    /\ Len(chan[s]) < ChanCap
    /\ chan' = [chan EXCEPT ![s] = Append(@, sending[p])]
    /\ targets' = [targets EXCEPT ![p] = @ \ {s}]
    /\ UNCHANGED <<hubVars, chClosed, reading, sending, dropping, stopVars, crash, histVars>>

\* Mutation: a full channel loses the message and the subscriber stays.
FindFullKeeps(p, s) ==
    /\ Visit(p, s)
    /\ s \notin chClosed
    /\ Len(chan[s]) = ChanCap
    /\ targets' = [targets EXCEPT ![p] = @ \ {s}]
    /\ UNCHANGED <<hubVars, chanVars, sending, dropping, stopVars, crash, histVars>>

\* Mutation: no default case, the send blocks.
FindFullBlocks(p, s) == FALSE

\* default: the channel is full, and Unsubscribe(s) has yet to get the lock.
FindFull(p, s) ==
    /\ Visit(p, s)
    /\ s \notin chClosed
    /\ Len(chan[s]) = ChanCap
    /\ targets' = [targets EXCEPT ![p] = @ \ {s}]
    /\ dropping' = [dropping EXCEPT ![p] = s]
    /\ UNCHANGED <<hubVars, chanVars, sending, stopVars, crash, histVars>>

\* A select whose send case has a closed channel panics, default or not: the
\* process dies, unless net/http runs p and recovers.
SendOnClosed(p, s) ==
    /\ Visit(p, s)
    /\ s \in chClosed
    /\ IF p \in Handlers
       THEN /\ targets' = [targets EXCEPT ![p] = {}]
            /\ aborted' = aborted \cup {sending[p]}
            /\ UNCHANGED crash
       ELSE /\ crash' = "send on closed channel"
            /\ UNCHANGED <<targets, aborted>>
    /\ UNCHANGED <<hubVars, chanVars, sending, dropping, stopVars,
                   author, got, joined, liveFrom>>

-----------------------------------------------------------------------------
(* Subscribe, Unsubscribe and the WebSocket handler between them *)

\* Mutations: the test of the backfill loop off by one, either way.
SkippedOneMore(lastSeq) == Cardinality({i \in 1..Len(backlog) : backlog[i] <= lastSeq + 1})
SkippedOneLess(lastSeq) == Cardinality({i \in 1..Len(backlog) : backlog[i] < lastSeq})

\* What the backfill loop selects.  The backlog is in Seq order
\* (BacklogIsNewestSuffix), so the messages above lastSeq are its tail.
Skipped(lastSeq) == Cardinality({i \in 1..Len(backlog) : backlog[i] <= lastSeq})
Above(lastSeq)   == SubSeq(backlog, Skipped(lastSeq) + 1, Len(backlog))

\* The loop's sends do not block: what exceeds the channel is left out.
Backfill(lastSeq) ==
    LET above == Above(lastSeq)
    IN  SubSeq(above, 1, IF Len(above) > ChanCap THEN ChanCap ELSE Len(above))

Subscribe(s, lastSeq) ==
    /\ s \notin joined
    /\ joined' = joined \cup {s}
    /\ reading' = reading \cup {s}
    /\ liveFrom' = [liveFrom EXCEPT ![s] = seq]
    /\ IF closed
       THEN /\ chClosed' = chClosed \cup {s}
            /\ UNCHANGED <<subs, chan>>
       ELSE /\ chan' = [chan EXCEPT ![s] = Backfill(lastSeq)]
            /\ subs' = subs \cup {s}
            /\ UNCHANGED chClosed
    /\ UNCHANGED <<seq, backlog, closed, pubVars, stopVars, crash, author, got, aborted>>

\* The body of Unsubscribe, whoever calls it.
Unsubscribe(s) ==
    /\ subs' = subs \ {s}
    /\ chClosed' = IF s \in subs THEN chClosed \cup {s} ELSE chClosed
    /\ UNCHANGED <<seq, backlog, closed, chan>>

\* A publisher unsubscribes the subscriber it found full.
DropSlow(p) ==
    /\ dropping[p] # NoSub
    /\ Unsubscribe(dropping[p])
    /\ dropping' = [dropping EXCEPT ![p] = NoSub]
    /\ UNCHANGED <<reading, sending, targets, stopVars, crash, histVars>>

\* writePump takes the next message; a closed channel is drained first.
Receive(s) ==
    /\ s \in reading
    /\ chan[s] # <<>>
    /\ got' = [got EXCEPT ![s] = Append(@, Head(chan[s]))]
    /\ chan' = [chan EXCEPT ![s] = Tail(@)]
    /\ UNCHANGED <<hubVars, chClosed, reading, pubVars, stopVars, crash,
                   author, joined, liveFrom, aborted>>

\* writePump returns (the channel is closed and drained, the browser is gone, a
\* write failed) and Serve's deferred Unsubscribe runs.
Leave(s) ==
    /\ s \in reading
    /\ reading' = reading \ {s}
    /\ Unsubscribe(s)
    /\ UNCHANGED <<pubVars, stopVars, crash, histVars>>

-----------------------------------------------------------------------------
(* Shutdown *)

\* Mutation: the map is not replaced, subscribers stay registered.
ShutdownKeepsSubs ==
    /\ ~closed
    /\ closed' = TRUE
    /\ toClose' = subs
    /\ UNCHANGED <<seq, backlog, subs, chanVars, pubVars, closing, crash, histVars>>

\* Mutation: the map is replaced before the subscribers are collected.
ShutdownForgets ==
    /\ ~closed
    /\ closed' = TRUE
    /\ toClose' = {}
    /\ subs' = {}
    /\ UNCHANGED <<seq, backlog, chanVars, pubVars, closing, crash, histVars>>

\* The section under the lock.  run() calls Shutdown once.
Shutdown ==
    /\ ~closed
    /\ closed' = TRUE
    /\ toClose' = subs
    /\ subs' = {}
    /\ UNCHANGED <<seq, backlog, chanVars, pubVars, closing, crash, histVars>>

\* The goroutine tests s.closed, without the lock ...
ShutdownTest(s) ==
    /\ closing = NoSub
    /\ s \in toClose
    /\ toClose' = toClose \ {s}
    /\ closing' = IF s \in chClosed THEN NoSub ELSE s
    /\ UNCHANGED <<hubVars, chanVars, pubVars, crash, histVars>>

\* ... and then closes; closing a closed channel panics.
ShutdownClose ==
    /\ closing # NoSub
    /\ IF closing \in chClosed
       THEN crash' = "close of closed channel" /\ UNCHANGED chClosed
       ELSE chClosed' = chClosed \cup {closing} /\ UNCHANGED crash
    /\ closing' = NoSub
    /\ UNCHANGED <<hubVars, chan, reading, pubVars, toClose, histVars>>

-----------------------------------------------------------------------------

PublisherStep(p) ==
    \/ \E s \in Subs : Deliver(p, s) \/ FindFull(p, s) \/ SendOnClosed(p, s)
    \/ DropSlow(p)

ShutdownStep == (\E s \in Subs : ShutdownTest(s)) \/ ShutdownClose

Running == crash = "none"

Next ==
    /\ Running
    /\ \/ \E p \in Publishers : Broadcast(p)
       \/ \E p \in Publishers : PublisherStep(p)
       \/ \E s \in Subs, lastSeq \in 0..MaxSeq : Subscribe(s, lastSeq)
       \/ \E s \in Subs : Receive(s)
       \/ \E s \in Subs : Leave(s)
       \/ Shutdown
       \/ ShutdownStep

Spec == Init /\ [][Next]_vars

\* Go schedules a runnable goroutine: a publisher inside broadcast and the
\* goroutine of Shutdown proceed.  Nothing is assumed of the WebSocket handlers
\* (a browser may never read), nor that anything is published or shut down.
Fairness ==
    /\ \A p \in Publishers : WF_vars(Running /\ PublisherStep(p))
    /\ WF_vars(Running /\ ShutdownStep)

FairSpec == Spec /\ Fairness

-----------------------------------------------------------------------------
(* Properties *)

\* Everything the channel of s has carried: what was taken, what is buffered.
Stream(s) == got[s] \o chan[s]

\* The messages a publisher still holds for s: not offered yet, or found full.
Owed(s) ==
    {sending[p] : p \in {q \in Publishers : s \in targets[q] \/ dropping[q] = s}}

\* The variables have their types; sequence numbers in use have been assigned.
TypeOK ==
    /\ seq \in Nat
    /\ backlog \in Seq(1..seq)
    /\ subs \subseteq Subs
    /\ closed \in BOOLEAN
    /\ chan \in [Subs -> Seq(1..seq)]
    /\ chClosed \subseteq Subs
    /\ reading \subseteq Subs
    /\ sending \in [Publishers -> 0..seq]
    /\ targets \in [Publishers -> SUBSET Subs]
    /\ dropping \in [Publishers -> Subs \cup {NoSub}]
    /\ toClose \subseteq Subs
    /\ closing \in Subs \cup {NoSub}
    /\ crash \in {"none", "send on closed channel", "close of closed channel"}
    /\ author \in [1..seq -> Publishers]
    /\ got \in [Subs -> Seq(1..seq)]
    /\ joined \subseteq Subs
    /\ liveFrom \in [Subs -> 0..seq]
    /\ aborted \subseteq 1..seq

\* The backlog is the newest messages, without a hole, as many as fit: what
\* broadcast's append and trim maintain and the backfill relies on.
BacklogIsNewestSuffix ==
    /\ Len(backlog) = IF seq < Capacity THEN seq ELSE Capacity
    /\ \A i \in 1..Len(backlog) : backlog[i] = seq - Len(backlog) + i

\* A publisher inside broadcast holds a message that it published.
HoldsItsMessage ==
    \A p \in Publishers : Busy(p) => sending[p] # 0 /\ author[sending[p]] = p

\* Numbers are assigned before they travel: the backlog is exactly the newest of them
\* and a loop that runs without the lock still sends the message it was started
\* for, with everything of its type.
CoreInv == TypeOK /\ BacklogIsNewestSuffix /\ HoldsItsMessage

\* At any time at most one party may close a channel: Unsubscribe while the
\* subscriber is registered, Shutdown's goroutine once it has taken it over.
\* That is why the goroutine may test and set s.closed without the lock.
CloseOwnership ==
    /\ joined = subs \cup chClosed \cup toClose \cup ({closing} \ {NoSub})
    /\ subs \cap chClosed = {}
    /\ toClose \cap chClosed = {}
    /\ closing \notin chClosed \cup toClose
    /\ closed => subs = {}
    /\ ~closed => toClose = {} /\ closing = NoSub

\* No interleaving of Shutdown, slow-subscriber drops and leaving clients closes
\* a channel twice ("closes its channel exactly once", hub.go:165).
NoDoubleClose == crash # "close of closed channel"

\* Both: who may close, and that it happens once.
OwnershipInv == NoDoubleClose /\ CloseOwnership

\* A subscriber is sent no message twice, although a message is both in the
\* backlog it was backfilled from and in the hands of a concurrent publisher.
AtMostOnce ==
    \A s \in Subs :
        /\ \A i, j \in DOMAIN Stream(s) : Stream(s)[i] = Stream(s)[j] => i = j
        /\ Owed(s) \cap Range(Stream(s)) = {}

\* Messages of one publisher reach every subscriber in the order of its calls
\* (those of different publishers may overtake each other).
PublisherOrder ==
    \A s \in Subs : \A i, j \in DOMAIN Stream(s) :
        i < j /\ author[Stream(s)[i]] = author[Stream(s)[j]] => Stream(s)[i] < Stream(s)[j]

\* A subscriber loses a message only by being unsubscribed: while registered,
\* every message since it joined was offered to it, or a publisher still holds
\* it for it, or its loop ended in a recovered panic.
NoSilentGap ==
    \A s \in subs : \A n \in (liveFrom[s] + 1)..seq :
        n \in Range(Stream(s)) \cup Owed(s) \cup aborted

\* The loop of broadcast selects without blocking: it ends although no
\* subscriber ever reads ("drop it rather than block the hub", hub.go:135).
BroadcastEnds == \A p \in Publishers : Busy(p) ~> (~Busy(p) \/ ~Running)

\* After Shutdown every subscriber's channel is closed, also that of a client
\* that subscribes late ("drains and closes every subscriber", hub.go:192).
ShutdownReleasesAll == closed ~> (joined \subseteq chClosed \/ ~Running)

\* "It is safe for concurrent callers" (cmd/dashboard/pipeline.go:47): no
\* publisher panics.  False: a target of the snapshot may be closed meanwhile.
NoSendOnClosed == crash # "send on closed channel"

-----------------------------------------------------------------------------
(* Refinement *)

Promise == INSTANCE FanOut WITH
    published <- seq,
    member    <- subs,
    sealed    <- chClosed,
    stream    <- [s \in Subs |-> Stream(s)],
    due       <- [s \in Subs |-> Owed(s)]

\* The hub implements the fan-out it promises, in whatever interleaving of
\* publishers, drops, leaves and Shutdown: a loop that runs without the lock may
\* serve a subscriber that is no longer registered, but only with what was
\* published while it was, and never once its channel is closed.
ImplementsFanOut == Promise!Spec

=============================================================================
