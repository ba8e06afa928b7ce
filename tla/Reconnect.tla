------------------------------ MODULE Reconnect ------------------------------
(***************************************************************************)
(* Browsers that follow the stream of Hub over connections that break: the *)
(* client of internal/web/static/app.js with its last_seq cursor, the      *)
(* WebSocket bridge of internal/api/ws.go, and the hub between publishers  *)
(* and bridges.  got[s] is what the bridge of connection s wrote to the    *)
(* socket; the browser at the other end reads a prefix of it.              *)
(*                                                                         *)
(* The server may crash, or end, and be started again: its sequence starts *)
(* at zero while the browsers keep their cursors.  History is about the    *)
(* present process: messages of different processes share their numbers.   *)
(***************************************************************************)
EXTENDS Hub

CONSTANTS
    Browsers,    \* open dashboards
    MaxBreaks,   \* bounds of the model: how many connections the network breaks, ...
    MaxRestarts  \* ... and how often the server is started again

ASSUME BreaksAssumption == MaxBreaks \in Nat /\ MaxRestarts \in Nat

VARIABLES
    conn,      \* conn[b]: the connection of b (its Subscriber), or NoSub
    cursor,    \* cursor[b]: state.lastSeq
    read,      \* read[b]: how many messages of its connection b has handled
    broken,    \* connections the network broke; either end notices later
    breaks,    \* how many connections the network broke so far
    restarts,  \* how often the server was started again
    seen,      \* history: seen[b], the messages b handled, in order
    agedOut,   \* history: agedOut[b], what the backlog had lost when b connected
    stale,     \* history: stale[b], the cursor b has from an earlier server
    buried,    \* history: buried[b], what that cursor hid from b when it connected
    cutOff,    \* history: cutOff[b], what had no room in the channel when b connected
    overtaken  \* history: overtaken[b], what b did not get after something later

clientVars    == <<conn, cursor, read, broken, breaks, restarts, seen, agedOut, stale, buried>>
lossVars      == <<cutOff, overtaken>>
reconnectVars == <<vars, clientVars, lossVars>>

ReconnectInit ==
    /\ Init
    /\ conn = [b \in Browsers |-> NoSub]
    /\ cursor = [b \in Browsers |-> 0]
    /\ read = [b \in Browsers |-> 0]
    /\ broken = {}
    /\ breaks = 0
    /\ restarts = 0
    /\ seen = [b \in Browsers |-> <<>>]
    /\ agedOut = [b \in Browsers |-> {}]
    /\ stale = [b \in Browsers |-> 0]
    /\ buried = [b \in Browsers |-> {}]
    /\ cutOff = [b \in Browsers |-> {}]
    /\ overtaken = [b \in Browsers |-> {}]

-----------------------------------------------------------------------------

\* What of the backlog above c does not fit a new channel.
TooMany(c) == {n \in 1..seq : n > c + ChanCap /\ n > seq - Len(backlog) + ChanCap}

\* What b has still to read of its connection: written, or in the channel.
Unread(b) == {Stream(conn[b])[i] : i \in (read[b] + 1)..Len(Stream(conn[b]))}

\* connect(): the upgrade request carries the cursor, Serve subscribes with it.
Connect(b, s) ==
    /\ conn[b] = NoSub
    /\ Subscribe(s, cursor[b])
    /\ conn' = [conn EXCEPT ![b] = s]
    /\ read' = [read EXCEPT ![b] = 0]
    /\ agedOut' = [agedOut EXCEPT ![b] = @ \cup ((cursor[b] + 1)..seq \ Range(backlog))]
    /\ buried' = [buried EXCEPT ![b] =
           @ \cup {n \in 1..seq : n <= stale[b] /\ n \notin Range(seen[b])}]
    /\ cutOff' = [cutOff EXCEPT ![b] = @ \cup TooMany(cursor[b])]
    /\ UNCHANGED <<cursor, broken, breaks, restarts, seen, stale, overtaken>>

\* ws.onmessage: keep the highest seq, handle the message.
OnMessage(b) ==
    /\ conn[b] # NoSub
    /\ read[b] < Len(got[conn[b]])
    /\ LET n == got[conn[b]][read[b] + 1]
       IN  /\ cursor' = [cursor EXCEPT ![b] = IF n > @ THEN n ELSE @]
           /\ seen' = [seen EXCEPT ![b] = Append(@, n)]
    /\ read' = [read EXCEPT ![b] = @ + 1]
    /\ UNCHANGED <<vars, conn, broken, breaks, restarts, agedOut, stale, buried, lossVars>>

\* The connection of a browser breaks.
Break(b) ==
    /\ conn[b] \notin broken \cup {NoSub}
    /\ breaks < MaxBreaks
    /\ broken' = broken \cup {conn[b]}
    /\ breaks' = breaks + 1
    /\ UNCHANGED <<vars, conn, cursor, read, restarts, seen, agedOut, stale, buried, lossVars>>

\* ws.onclose: the server closed the connection and all it wrote was read, or
\* the connection broke, and what was not read yet is lost.
OnClose(b) ==
    /\ conn[b] # NoSub
    /\ \/ conn[b] \in broken
       \/ conn[b] \notin reading /\ read[b] = Len(got[conn[b]])
    /\ conn' = [conn EXCEPT ![b] = NoSub]
    /\ overtaken' = [overtaken EXCEPT ![b] =
           @ \cup {n \in Unread(b) \cup Owed(conn[b]) : \E m \in Range(seen[b]) : m > n}]
    /\ UNCHANGED <<vars, cursor, read, broken, breaks, restarts, seen, agedOut, stale, buried,
                   cutOff>>

\* Serve returns: writePump found the channel closed and drained, or one of the
\* pumps noticed that the connection is gone.
ServeReturns(s) ==
    /\ \/ s \in broken \/ s \notin Range(conn)
       \/ s \in chClosed /\ chan[s] = <<>>
    /\ Leave(s)
    /\ UNCHANGED <<clientVars, lossVars>>

\* A publisher that drops a subscriber gives up its message for it, which another
\* publisher's may have overtaken.
Publish(p) ==
    /\ PublisherStep(p)
    /\ overtaken' = [b \in Browsers |->
           overtaken[b] \cup (IF /\ dropping[p] # NoSub /\ conn[b] = dropping[p]
                                /\ \E m \in Range(Stream(conn[b])) : m > sending[p]
                             THEN {sending[p]} ELSE {})]
    /\ UNCHANGED <<clientVars, cutOff>>

\* Another server process, with an empty hub; the connections of the old one are
\* gone, with what was in them.
Restart ==
    /\ restarts < MaxRestarts
    /\ restarts' = restarts + 1
    /\ seq' = 0 /\ backlog' = <<>> /\ subs' = {} /\ closed' = FALSE
    /\ chan' = [s \in Subs |-> <<>>] /\ chClosed' = {} /\ reading' = {}
    /\ sending' = [p \in Publishers |-> 0]
    /\ targets' = [p \in Publishers |-> {}]
    /\ dropping' = [p \in Publishers |-> NoSub]
    /\ toClose' = {} /\ closing' = NoSub /\ crash' = "none"
    /\ author' = <<>> /\ got' = [s \in Subs |-> <<>>] /\ joined' = {}
    /\ liveFrom' = [s \in Subs |-> 0] /\ aborted' = {}
    /\ conn' = [b \in Browsers |-> NoSub]
    /\ read' = [b \in Browsers |-> 0]
    /\ broken' = {}
    /\ seen' = [b \in Browsers |-> <<>>]
    /\ agedOut' = [b \in Browsers |-> {}]
    /\ buried' = [b \in Browsers |-> {}]
    /\ cutOff' = [b \in Browsers |-> {}]
    /\ overtaken' = [b \in Browsers |-> {}]
    /\ stale' = cursor
    /\ UNCHANGED <<cursor, breaks>>

-----------------------------------------------------------------------------

Serving ==
    /\ Running
    /\ \/ \E p \in Publishers : Broadcast(p) /\ UNCHANGED <<clientVars, lossVars>>
       \/ \E p \in Publishers : Publish(p)
       \/ \E s \in Subs : Receive(s) /\ UNCHANGED <<clientVars, lossVars>>
       \/ \E s \in Subs : ServeReturns(s)
       \/ \E b \in Browsers, s \in Subs : Connect(b, s)
       \/ \E b \in Browsers : OnMessage(b)
       \/ \E b \in Browsers : Break(b)
       \/ \E b \in Browsers : OnClose(b)

ReconnectNext == Serving \/ Restart

ReconnectSpec == ReconnectInit /\ [][ReconnectNext]_reconnectVars

\* The pumps of a connection run, the browser reads what arrives, a lost
\* connection is noticed (pongWait, onclose) and retried (setTimeout(connect)).
\* The network breaks connections only MaxBreaks times.
ReconnectFairness ==
    /\ \A p \in Publishers : WF_reconnectVars(Running /\ Publish(p))
    /\ \A s \in Subs :
           /\ WF_reconnectVars(Running /\ Receive(s) /\ UNCHANGED <<clientVars, lossVars>>)
           /\ WF_reconnectVars(Running /\ ServeReturns(s))
    /\ \A b \in Browsers :
           /\ WF_reconnectVars(Running /\ \E s \in Subs : Connect(b, s))
           /\ WF_reconnectVars(Running /\ OnMessage(b))
           /\ WF_reconnectVars(Running /\ OnClose(b))

ReconnectFairSpec == ReconnectSpec /\ ReconnectFairness

-----------------------------------------------------------------------------
(* Properties *)

\* The client's variables have their types.
ReconnectTypeOK ==
    /\ TypeOK
    /\ conn \in [Browsers -> Subs \cup {NoSub}]
    /\ \A b \in Browsers : cursor[b] \in 0..seq \cup {stale[b]}
    /\ read \in [Browsers -> Nat]
    /\ broken \subseteq joined
    /\ breaks \in 0..MaxBreaks /\ restarts \in 0..MaxRestarts
    /\ seen \in [Browsers -> Seq(1..seq)]
    /\ agedOut \in [Browsers -> SUBSET (1..seq)] /\ buried \in [Browsers -> SUBSET (1..seq)]
    /\ cutOff \in [Browsers -> SUBSET (1..seq)] /\ overtaken \in [Browsers -> SUBSET (1..seq)]
    /\ stale \in [Browsers -> Nat]

\* No browser handles a message twice, however often it reconnects and although
\* its old subscription may still be registered: appendEvent has no other
\* protection against showing an event twice.
NoDuplicateDelivery ==
    \A b \in Browsers : \A i, j \in DOMAIN seen[b] : seen[b][i] = seen[b][j] => i = j

\* What the present connection of b carries or will be offered.
Coming(b) ==
    IF conn[b] = NoSub THEN {} ELSE Range(Stream(conn[b])) \cup Owed(conn[b])

\* "reconnect with that value as last_seq and resume without gaps, as long as
\* the gap is smaller than the backlog" (docs/websocket-protocol.md:22-25): a
\* browser loses no message below its cursor but those the backlog had already
\* lost when it connected; the others it has seen, or they are on their way.
\* A restart of the server costs it, besides, what the new server published under
\* the numbers of the old while it was not subscribed, and nothing else.
GapFree ==
    \A b \in Browsers : \A n \in 1..seq :
        n <= cursor[b] => \/ n \in Range(seen[b]) \cup agedOut[b] \cup buried[b] \cup Coming(b)
                          \/ conn[b] \notin subs /\ n <= stale[b]

\* With several publishers, and a backlog of any size, GapFree has more exceptions, and
\* these are all: below its cursor a browser also misses what had no room in the
\* channel when it connected, what was still under way when its connection ended
\* although something later had come, and what a recovered panic aborted.  Only a
\* message of another publisher overtakes one.
GapsAreExplained ==
    \A b \in Browsers :
        /\ \A n \in 1..seq :
               n <= cursor[b] => \/ n \in Range(seen[b]) \cup Coming(b)
                                 \/ n \in agedOut[b] \cup cutOff[b] \cup overtaken[b]
                                 \/ n \in buried[b] \cup aborted
                                 \/ conn[b] \notin subs /\ n <= stale[b]
        /\ \A n \in overtaken[b] : \E m \in (n + 1)..seq : author[m] # author[n]

\* Once publishing, the network and the server settle, every browser catches up with
\* the hub and has handled all that comes, slow or not (until a publisher's panic
\* ends the process for good).
CatchesUp ==
    <>[](~Running \/ \A b \in Browsers : cursor[b] >= seq /\ Coming(b) \subseteq Range(seen[b]))

\* The types, and that no message comes twice.
ResumeInv == ReconnectTypeOK /\ NoDuplicateDelivery

=============================================================================
